\* Two opens with signals and failing allocations, and fairness.
SPECIFICATION FairSpec
CONSTANTS
    Apps = {p1, p2}
    MaxOpens = 2
    MaxData = 1
    MaxDaemons = 1
    RcvBuf = 2
    AllocMayFail = TRUE
    Signals = TRUE
INVARIANTS
    WritesReachOwnConn
PROPERTIES
    OpenReturns
    ConnectionsEnd
CHECK_DEADLOCK FALSE
