\* Two readers, failing allocations, a backlog of two bytes.
SPECIFICATION Spec
CONSTANTS
    FIFO_SIZE = 2
    FIFO_HIGH_WATERMARK = 1
    FIFO_LOW_WATERMARK = 1
    FIFO_PENDING_LIMIT = 2
    Readers = {r1, r2}
    ReadSizes = {2}
    RcvBuf = 2
    AllocMayFail = TRUE
    CopyMayFail = TRUE
    MsgSizes = {2}
    TotalBytes = 4
INVARIANTS
    NoReordering
SYMMETRY ReaderSymmetry
CHECK_DEADLOCK FALSE
