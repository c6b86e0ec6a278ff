\* Two packets, and one deviation of the peer.
SPECIFICATION Spec
CONSTANTS
    MAX_PAYLOAD_SIZE = 4
    MaxPackets = 2
    Packets <- MCPackets
    Foreign <- MCForeign
INVARIANTS
    TypeOK
    NoFalseAlarm
PROPERTIES
    AllReceived
    DeviationNoticed
    ImplementsPipe
CHECK_DEADLOCK FALSE
