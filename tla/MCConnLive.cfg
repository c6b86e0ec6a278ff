\* Liveness, with queues and a stream small enough for the circles of Connection; the
\* host may be killed.
SPECIFICATION FairSpec
CONSTANTS
    WireCap = 1
    BufferSize = 1
    MaxTicks <- MCMaxTicks
    HostTicks = 0
    MayTimeOut = {}
    MaxWrites <- MCMaxWrites
    HostWrites = 3
    DeviceWrites = 0
    Closers = {"Host", "Device"}
    MayCrash = {"Host"}
PROPERTIES
    CloseAnswered
    BackToSelect
    BothEnd
CHECK_DEADLOCK FALSE
