\* One reader, chunks of one and two bytes, a limit that covers KernelBound.
SPECIFICATION Spec
CONSTANTS
    FIFO_SIZE = 4
    FIFO_HIGH_WATERMARK = 2
    FIFO_LOW_WATERMARK = 2
    FIFO_PENDING_LIMIT = 17
    Readers = {r1}
    ReadSizes = {1, 4}
    RcvBuf = 2
    AllocMayFail = FALSE
    CopyMayFail = TRUE
    MsgSizes = {3}
    TotalBytes = 18
INVARIANTS
    TypeOK
    NoStrandedBacklog
    SleepersHaveNoData
    NothingLost
    PendingBytesExact
    KernelBytesBounded
PROPERTIES
    ImplementsPipe
CHECK_DEADLOCK FALSE
