\* Two processes, two opens, signals, a daemon that dies once.
SPECIFICATION Spec
CONSTANTS
    Apps = {p1, p2}
    MaxOpens = 2
    MaxData = 1
    MaxDaemons = 2
    RcvBuf = 2
    AllocMayFail = FALSE
    Signals = TRUE
INVARIANTS
    TypeOK
    ExclusiveAccess
    AnsweredByOwn
    OwnBytesAfterQuiet
SYMMETRY AppSymmetry
CHECK_DEADLOCK FALSE
