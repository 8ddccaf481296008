CONSTANTS
    OrderID = {o1, o2, o3, o4}
    u1 = u1
    u2 = u2
    UserID = {u1, u2}
    Price = {1, 2}
    Quantity = {1, 2}
    None = None
    PlaceOrderCommand <- UnitCommands
    Deposit <- UnitDeposits
    EngineBuffer = 1
    LogBuffer = 1
    Faults = {"crash"}
    MaxFaults = 1
CONSTRAINT Patient
SYMMETRY IDSymmetry
SPECIFICATION DurableSpec
INVARIANT FullTradeHistory
