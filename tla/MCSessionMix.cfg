\* Two opens, and nothing fails.
SPECIFICATION Spec
CONSTANTS
    Apps = {p1, p2}
    MaxOpens = 2
    MaxData = 1
    MaxDaemons = 1
    RcvBuf = 2
    AllocMayFail = FALSE
    Signals = FALSE
INVARIANTS
    OwnBytes
SYMMETRY AppSymmetry
CHECK_DEADLOCK FALSE
