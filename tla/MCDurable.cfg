CONSTANTS
    OrderID = {o1, o2}
    u1 = u1
    u2 = u2
    UserID = {u1, u2}
    Price = {1, 2}
    Quantity = {1, 2}
    None = None
    PlaceOrderCommand <- Commands
    Deposit <- Deposits
    EngineBuffer = 1
    LogBuffer = 2
    Faults = {"crash", "rewind", "journal", "write", "reserve", "release"}
    MaxFaults = 2
SYMMETRY IDSymmetry
SPECIFICATION DurableSpec
INVARIANTS
    DiscrepancyIsLostLegs
    ObligationsCovered
    TradeHistoryExact
    ConvergedWhenQuiescent
PROPERTIES
    ProjectionOnlyAdvances
