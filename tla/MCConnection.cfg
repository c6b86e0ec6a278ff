\* Two users that write and close, small channels, a stream of one packet; the host
\* may find its peer inactive at any moment, and its process may be killed.
SPECIFICATION Spec
CONSTANTS
    WireCap = 1
    BufferSize = 2
    MaxTicks <- MCMaxTicks
    HostTicks = 1
    MayTimeOut = {"Host"}
    MaxWrites <- MCMaxWrites
    HostWrites = 3
    DeviceWrites = 1
    Closers = {"Host", "Device"}
    MayCrash = {"Host"}
INVARIANTS
    TypeOK
    RequestsInOrder
    CloseMeansAll
    CloseFlushesWrites
PROPERTIES
    DrainLeavesNothing
    ImplementsPipes
CHECK_DEADLOCK FALSE
