\* A KFIFO_FULL that overtakes nothing but arrives too late.
SPECIFICATION FairSpec
CONSTANTS
    FIFO_SIZE = 2
    FIFO_HIGH_WATERMARK = 1
    FIFO_LOW_WATERMARK = 1
    FIFO_PENDING_LIMIT = 8
    Readers = {r1}
    ReadSizes = {1, 2}
    RcvBuf = 3
    AllocMayFail = FALSE
    CopyMayFail = FALSE
    MsgSizes = {1}
    TotalBytes = 3
PROPERTIES
    ReadingResumesWhileKnown
CHECK_DEADLOCK FALSE
