SPECIFICATION FairSpec
CONSTANTS
    Relays = {r1, r2, r3, r4}
    Addrs = {a1, a2, a3}
    Bind <- MCBind
    None = None
    r1 = r1
    r2 = r2
    r3 = r3
    r4 = r4
    a1 = a1
    a2 = a2
    a3 = a3
INVARIANTS TypeOK OkListens FailedHoldsNotAll
PROPERTIES DroppedReleases
CHECK_DEADLOCK FALSE
