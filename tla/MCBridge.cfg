\* Two sessions, pipes and queues of two pieces.
SPECIFICATION Spec
CONSTANTS
    PipeCap = 2
    DataCap = 2
    MaxPieces = 4
    MaxSessions = 2
INVARIANTS
    TypeOK
    ReachesDevice
    ReachesPeer
PROPERTIES
    ListensAgain
CHECK_DEADLOCK FALSE
