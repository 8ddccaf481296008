CONSTANTS
    OrderID = {o1, o2, o3, o4}
    UserID = {u1}
    Price = {1, 2, 3}
    Quantity = {1, 2}
    None = None
SYMMETRY IDSymmetry
SPECIFICATION OrderBookSpec
INVARIANTS
    TypeOK
    PricesSorted
    LevelsMatchPrices
    IndexMatchesQueues
    QueuesInTimeOrder
    Uncrossed
    StatusMatchesFill
    FillsAccountForTaker
    SnapshotShowsRestingOrders
PROPERTIES
    OrdersOnlyAdvance
    ImplementsPriceTimeBook
CHECK_DEADLOCK FALSE
