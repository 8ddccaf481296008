CONSTANTS
    MaxEvent = 3
    QueueSize = 1
    OutSize = 1
    BufferSize = 1
    MaxLife = 2
    Faults = {"crash", "shutdown", "broker", "journal"}
SPECIFICATION FairSpec
CHECK_DEADLOCK FALSE
INVARIANTS
    KafkaTypeOK
    DeliveryInOrder
    AppliedAtMostOnce
    LossBounded
    CloseKeepsEvents
PROPERTIES
    EventsSettle
    ShutdownEnds
