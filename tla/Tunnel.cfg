SPECIFICATION FairSpec
CONSTANTS
    Nodes = {n1, n2, n3}
    Foreign = {n3}
    Conns = {c1, c2, c3}
    Nobody = Nobody
INVARIANTS ReachesDialled AcceptedWasDialled OnlyKnown
PROPERTIES CallsEnd
CHECK_DEADLOCK FALSE
