CONSTANTS
    OrderID = {o1, o2}
    u1 = u1
    u2 = u2
    UserID = {u1, u2}
    Price = {1, 2}
    Quantity = {1, 2}
    None = None
    PlaceOrderCommand <- Commands
    Deposit <- Deposits
    EngineBuffer = 1
    LogBuffer = 1
    Faults = {"journal", "rewind"}
    MaxFaults = 2
SPECIFICATION ReconciledSpec
PROPERTY ProjectionMonotonic
