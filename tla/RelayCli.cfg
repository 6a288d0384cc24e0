SPECIFICATION FairSpec
CONSTANTS
    Procs = {p1, p2, p3}
    None = None
INVARIANTS ReportedIsUsable ServesWhole
PROPERTIES SettledStays ReportedIsAccepted CommandsEnd
CHECK_DEADLOCK FALSE
