CONSTANTS
    OrderID = {o1, o2}
    u1 = u1
    u2 = u2
    UserID = {u1, u2}
    Price = {1, 2}
    Quantity = {1, 2}
    None = None
    PlaceOrderCommand <- Commands
    Deposit <- Deposits
    EngineBuffer = 1
    LogBuffer = 1
    Faults = {"rewind", "write"}
    MaxFaults = 1
SPECIFICATION ReconciledSpec
PROPERTIES
    PlaceOrderEnds
    ProjectionCatchesUp
    DiscrepancyPersistsIfReal
