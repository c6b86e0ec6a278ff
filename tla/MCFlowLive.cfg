\* Liveness with one reader, under the fairness of FairSpec.
SPECIFICATION FairSpec
CONSTANTS
    FIFO_SIZE = 2
    FIFO_HIGH_WATERMARK = 1
    FIFO_LOW_WATERMARK = 1
    FIFO_PENDING_LIMIT = 8
    Readers = {r1}
    ReadSizes = {1, 2}
    RcvBuf = 2
    AllocMayFail = FALSE
    CopyMayFail = TRUE
    MsgSizes = {2}
    TotalBytes = 4
PROPERTIES
    KernelDrained
    EndToEnd
CHECK_DEADLOCK FALSE
