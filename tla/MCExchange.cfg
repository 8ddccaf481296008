CONSTANTS
    OrderID = {o1, o2, o3}
    u1 = u1
    u2 = u2
    UserID = {u1, u2}
    Price = {1, 2}
    Quantity = {1, 2}
    None = None
    PlaceOrderCommand <- Commands
    Deposit <- Deposits
    EngineBuffer = 1
    LogBuffer = 1
SYMMETRY IDSymmetry
SPECIFICATION Spec
INVARIANTS
    ExchangeTypeOK
    MoneyConserved
    NoOverdraft
    LockedBacksObligations
    SettlementCollateralised
PROPERTIES
    UsesOrderBook
