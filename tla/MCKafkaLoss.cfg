CONSTANTS
    MaxEvent = 1
    QueueSize = 1
    OutSize = 1
    BufferSize = 1
    MaxLife = 2
    Faults = {"crash"}
SPECIFICATION Spec
CHECK_DEADLOCK FALSE
INVARIANT NothingLost
