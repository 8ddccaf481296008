CONSTANTS
    MaxEvent = 1
    QueueSize = 1
    OutSize = 1
    BufferSize = 1
    MaxLife = 1
    Faults = {"shutdown"}
SPECIFICATION Spec
CHECK_DEADLOCK FALSE
INVARIANT NoPanic
