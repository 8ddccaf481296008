----------------------------- MODULE OrderBook -----------------------------
(***************************************************************************)
(* The limit order book of internal/core/domain/orderbook.go: two book     *)
(* sides, each a map from price to a FIFO queue of resting orders plus a   *)
(* slice of the prices kept best-first, and an index of resting orders.    *)
(*                                                                         *)
(* OrderBook.Place is split at the head of its matching loop: PlaceBegin   *)
(* is the code before the loop, MatchStep one iteration of it, PlaceFinish *)
(* the switch after it.  `taker' is the order whose call is in progress,   *)
(* so every state the loop passes through is a state of the model; no      *)
(* other operation runs meanwhile, since one goroutine owns the book.      *)
(***************************************************************************)
EXTENDS Integers, SequencesExt, Summation

CONSTANTS
    OrderID,    \* identifiers drawn by generateID, never drawn twice
    UserID,     \* owners of the orders
    Price,      \* limit prices an order may carry
    Quantity,   \* quantities an order may ask for
    None        \* the nil pointer

ASSUME PriceAssumption == Price \subseteq Nat \ {0}
ASSUME QuantityAssumption == Quantity \subseteq Nat \ {0}
ASSUME NoneAssumption == None \notin OrderID

Side == {"BUY", "SELL"}
(* The statuses the book gives; an order that is REJECTED never reaches it. *)
Status == {"OPEN", "PARTIALLY_FILLED", "FILLED", "CANCELLED"}

Opposite(s) == IF s = "BUY" THEN "SELL" ELSE "BUY"

(* What a client asks for, and the order the book keeps for it. *)
Request == [userID: UserID, side: Side, price: Price, quantity: Quantity]
Order == [userID: UserID, side: Side, price: Price, quantity: Quantity,
          filled: Nat, status: Status, sequence: Nat]

ASSUME NoneIsNoOrder == None \notin Order

Remaining(o) == o.quantity - o.filled
Terminal(status) == status \in {"FILLED", "CANCELLED", "REJECTED"}

Trade == [sequence: Nat, price: Price, quantity: Nat,
          buyOrder: OrderID, buyer: UserID, sellOrder: OrderID, seller: UserID]
Fill == [trade: Trade, makerID: OrderID, maker: Order]
PlaceResult == [fills: Seq(Fill), takerReleaseCOP: Int]

(* A bookSide: `levels' maps a price to the queue of its priceLevel, None
   where the Go map has no entry. *)
BookSide == [levels: [Price -> Seq(OrderID) \cup {None}], prices: Seq(Price)]

ASSUME NoneIsNoQueue == None \notin Seq(OrderID)

VARIABLES
    order,      \* the Order objects, None before a request becomes an order
    book,       \* book["BUY"] is OrderBook.bids, book["SELL"] is asks
    orders,     \* OrderBook.orders: the resting orders
    orderSeq,   \* OrderBook.orderSeq
    tradeSeq,   \* OrderBook.tradeSeq
    taker,      \* the order a Place call is working on, or None
    res         \* the PlaceResult of that call, or of the last one

bookVars == <<order, book, orders, orderSeq, tradeSeq, taker, res>>

-----------------------------------------------------------------------------
(* bookSide *)

(* p is a better price than q for an order resting on side s. *)
Better(s, p, q) == IF s = "BUY" THEN p > q ELSE p < q

(* sort.Search over the slice `prices': the first index that p must precede. *)
SearchIndex(s, prices, p) ==
    Min({i \in 1..Len(prices) : Better(s, p, prices[i])} \cup {Len(prices) + 1})

(* Mutant of InsertPrice: the new price goes to the end of the slice. *)
InsertPriceAtEnd(s, prices, p) == Append(prices, p)

InsertPrice(s, prices, p) == InsertAt(prices, SearchIndex(s, prices, p), p)

RemovePrice(prices, p) == RemoveFirst(prices, p)

(* The prices that have an entry in the map `levels'. *)
Keys(b) == {p \in Price : b.levels[p] # None}

Best(b) == Head(b.prices)

NewLevel(s, b, p) ==
    [levels |-> [b.levels EXCEPT ![p] = <<>>], prices |-> InsertPrice(s, b.prices, p)]

(* Mutant of Add: the queue is a stack. *)
AddAtFront(s, b, p, id) ==
    LET c == IF b.levels[p] # None THEN b ELSE NewLevel(s, b, p)
    IN  [c EXCEPT !.levels[p] = <<id>> \o @]

Add(s, b, p, id) ==
    LET c == IF b.levels[p] # None THEN b ELSE NewLevel(s, b, p)
    IN  [c EXCEPT !.levels[p] = Append(@, id)]

(* Mutant of ShrinkLevel: an emptied level loses its map entry, not its price. *)
ShrinkLevelKeepsPrice(b, p, queue) ==
    [b EXCEPT !.levels[p] = IF queue = <<>> THEN None ELSE queue]

(* Stores the shortened queue of a level; a level left empty is deleted. *)
ShrinkLevel(b, p, queue) ==
    IF queue = <<>>
    THEN [levels |-> [b.levels EXCEPT ![p] = None],
          prices |-> RemovePrice(b.prices, p)]
    ELSE [b EXCEPT !.levels[p] = queue]

PopFront(b, p) == ShrinkLevel(b, p, Tail(b.levels[p]))

(* Mutants of RemoveOrder: the front of the queue goes, or nothing does. *)
RemoveFront(b, p, id) == PopFront(b, p)
RemoveNothing(b, p, id) == b

RemoveOrder(b, p, id) ==
    IF b.levels[p] # None /\ Contains(b.levels[p], id)
    THEN ShrinkLevel(b, p, RemoveFirst(b.levels[p], id))
    ELSE b

-----------------------------------------------------------------------------
(* OrderBook *)

(* Mutant of Crosses: equal prices do not trade. *)
CrossesStrictly(takerSide, takerPrice, makerPrice) ==
    IF takerSide = "BUY" THEN makerPrice < takerPrice
                         ELSE makerPrice > takerPrice

Crosses(takerSide, takerPrice, makerPrice) ==
    IF takerSide = "BUY" THEN makerPrice <= takerPrice
                         ELSE makerPrice >= takerPrice

Min64(a, b) == IF a < b THEN a ELSE b

(* The condition under which the loop of Place executes one more trade. *)
Matchable(o) ==
    LET opposite == book[Opposite(o.side)]
    IN  /\ Remaining(o) > 0
        /\ opposite.prices # <<>>
        /\ Crosses(o.side, o.price, Best(opposite))

(* Mutant of NewTrade: the taker sets the price. *)
NewTradeAtTakerPrice(o, id, m, mid, qty) ==
    LET bought == o.side = "BUY"
    IN  [sequence |-> tradeSeq + 1, price |-> o.price, quantity |-> qty,
         buyOrder |-> IF bought THEN id ELSE mid,
         buyer |-> IF bought THEN o.userID ELSE m.userID,
         sellOrder |-> IF bought THEN mid ELSE id,
         seller |-> IF bought THEN m.userID ELSE o.userID]

(* The trade of taker o (order id) with maker m (order mid). *)
NewTrade(o, id, m, mid, qty) ==
    LET bought == o.side = "BUY"
    IN  [sequence |-> tradeSeq + 1, price |-> m.price, quantity |-> qty,
         buyOrder |-> IF bought THEN id ELSE mid,
         buyer |-> IF bought THEN o.userID ELSE m.userID,
         sellOrder |-> IF bought THEN mid ELSE id,
         seller |-> IF bought THEN m.userID ELSE o.userID]

(* Mutant of Executed: the status of a finished maker is not updated. *)
ExecutedNeverFilled(m, qty) ==
    [m EXCEPT !.filled = @ + qty, !.status = "PARTIALLY_FILLED"]

(* The maker after qty of it has been executed. *)
Executed(m, qty) ==
    [m EXCEPT !.filled = @ + qty,
              !.status = IF Remaining(m) = qty THEN "FILLED" ELSE "PARTIALLY_FILLED"]

(* Mutant of PriceImprovement: the refund ignores the quantity. *)
PriceImprovementPerTrade(o, execPrice, qty) ==
    IF o.side = "BUY" THEN o.price - execPrice ELSE 0

(* What a buy taker locked at its own limit beyond the execution price. *)
PriceImprovement(o, execPrice, qty) ==
    IF o.side = "BUY" THEN (o.price - execPrice) * qty ELSE 0

OrderBookInit ==
    /\ order = [id \in OrderID |-> None]
    /\ book = [s \in Side |-> [levels |-> [p \in Price |-> None], prices |-> <<>>]]
    /\ orders = {}
    /\ orderSeq = 0
    /\ tradeSeq = 0
    /\ taker = None
    /\ res = [fills |-> <<>>, takerReleaseCOP |-> 0]

PlaceBegin(id, r) ==
    /\ taker = None
    /\ order[id] = None
    /\ orderSeq' = orderSeq + 1
    /\ order' = [order EXCEPT ![id] =
                   [userID |-> r.userID, side |-> r.side, price |-> r.price,
                    quantity |-> r.quantity, filled |-> 0, status |-> "OPEN",
                    sequence |-> orderSeq']]
    /\ taker' = id
    /\ res' = [fills |-> <<>>, takerReleaseCOP |-> 0]
    /\ UNCHANGED <<book, orders, tradeSeq>>

MatchStep ==
    /\ taker # None
    /\ Matchable(order[taker])
    /\ LET o == order[taker]
           s == Opposite(o.side)
           mid == Head(book[s].levels[Best(book[s])])
           m == order[mid]
           qty == Min64(Remaining(o), Remaining(m))
           maker == Executed(m, qty)
       IN  /\ order' = [order EXCEPT ![mid] = maker, ![taker].filled = @ + qty]
           /\ tradeSeq' = tradeSeq + 1
           /\ res' = [fills |-> Append(res.fills,
                                  [trade |-> NewTrade(o, taker, m, mid, qty),
                                   makerID |-> mid, maker |-> maker]),
                      takerReleaseCOP |-> res.takerReleaseCOP
                                            + PriceImprovement(o, m.price, qty)]
           /\ IF Remaining(maker) = 0
              THEN /\ book' = [book EXCEPT ![s] = PopFront(@, Best(@))]
                   /\ orders' = orders \ {mid}
              ELSE UNCHANGED <<book, orders>>
    /\ UNCHANGED <<orderSeq, taker>>

(* The part of Place after the loop, `rest' included. *)
PlaceFinish ==
    /\ taker # None
    /\ LET o == order[taker]
       IN  /\ ~Matchable(o)
           /\ \/ /\ Remaining(o) = 0
                 /\ order' = [order EXCEPT ![taker].status = "FILLED"]
                 /\ UNCHANGED <<book, orders>>
              \/ /\ Remaining(o) # 0
                 /\ order' = [order EXCEPT ![taker].status =
                                IF o.filled > 0 THEN "PARTIALLY_FILLED" ELSE "OPEN"]
                 /\ orders' = orders \cup {taker}
                 /\ book' = [book EXCEPT ![o.side] = Add(o.side, @, o.price, taker)]
    /\ taker' = None
    /\ UNCHANGED <<orderSeq, tradeSeq, res>>

(* Mutant of CancelRelease: the filled part is released once more. *)
CancelReleaseAll(o) ==
    [COP |-> IF o.side = "BUY" THEN o.quantity * o.price ELSE 0,
     Vibranium |-> IF o.side = "SELL" THEN o.quantity ELSE 0]

(* What CancelResult tells the caller to release. *)
CancelRelease(o) ==
    [COP |-> IF o.side = "BUY" THEN Remaining(o) * o.price ELSE 0,
     Vibranium |-> IF o.side = "SELL" THEN Remaining(o) ELSE 0]

(* Mutant of Cancel: the wrong terminal status is set. *)
CancelRejects(id) ==
    /\ taker = None
    /\ id \in orders
    /\ book' = [book EXCEPT ![order[id].side] = RemoveOrder(@, order[id].price, id)]
    /\ orders' = orders \ {id}
    /\ order' = [order EXCEPT ![id].status = "REJECTED"]
    /\ UNCHANGED <<orderSeq, tradeSeq, taker, res>>

Cancel(id) ==
    /\ taker = None
    /\ id \in orders
    /\ book' = [book EXCEPT ![order[id].side] = RemoveOrder(@, order[id].price, id)]
    /\ orders' = orders \ {id}
    /\ order' = [order EXCEPT ![id].status = "CANCELLED"]
    /\ UNCHANGED <<orderSeq, tradeSeq, taker, res>>

(* Mutant of Depth: what is already filled is counted too. *)
DepthUnfilled(queue) == Total([i \in 1..Len(queue) |-> order[queue[i]].quantity])

(* The quantity still on offer in a queue. *)
Depth(queue) == Total([i \in 1..Len(queue) |-> Remaining(order[queue[i]])])

(* levelsView: the best `depth' levels of a side, all of them for 0. *)
LevelsView(b, depth) ==
    [i \in 1..(IF depth > 0 THEN Min64(depth, Len(b.prices)) ELSE Len(b.prices)) |->
        [price |-> b.prices[i],
         quantity |-> Depth(b.levels[b.prices[i]]),
         orders |-> Len(b.levels[b.prices[i]])]]

Snapshot(depth) == [bids |-> LevelsView(book["BUY"], depth),
                    asks |-> LevelsView(book["SELL"], depth)]

OrderBookNext ==
    \/ \E id \in OrderID, r \in Request : PlaceBegin(id, r)
    \/ MatchStep
    \/ PlaceFinish
    \/ \E id \in OrderID : Cancel(id)

OrderBookSpec == OrderBookInit /\ [][OrderBookNext]_bookVars

-----------------------------------------------------------------------------
(* Properties.  Each is stated over every state of the loop, not only        *)
(* between calls.                                                            *)

(* The structures of OrderBook hold values of the Go types they model. *)
TypeOK ==
    /\ order \in [OrderID -> Order \cup {None}]
    /\ book \in [Side -> BookSide]
    /\ orders \in SUBSET OrderID
    /\ orderSeq \in Nat
    /\ tradeSeq \in Nat
    /\ taker \in OrderID \cup {None}
    /\ res \in PlaceResult

(* prices is strictly best-first, as bookSide's comment says: best() relies
   on it, and so does the binary search of insertPrice. *)
PricesSorted ==
    \A s \in Side : \A i, j \in 1..Len(book[s].prices) :
        i < j => Better(s, book[s].prices[i], book[s].prices[j])

(* prices lists exactly the keys of levels and no level is empty, so
   levels[bestPrice] is never nil and queue[0] never out of range in Place. *)
LevelsMatchPrices ==
    \A s \in Side :
        /\ ToSet(book[s].prices) = Keys(book[s])
        /\ \A p \in Keys(book[s]) : book[s].levels[p] # <<>>

(* The orders index and the queues of the two sides agree: whatever is queued
   is indexed, with its own side and price, and the other way round.  Cancel
   finds an order by the index and must find it again in its queue. *)
IndexMatchesQueues ==
    /\ \A s \in Side : \A p \in Keys(book[s]) :
          \A i \in 1..Len(book[s].levels[p]) :
            LET id == book[s].levels[p][i]
            IN  id \in orders /\ order[id].side = s /\ order[id].price = p
    /\ \A id \in orders :
          /\ order[id] # None
          /\ order[id].price \in Keys(book[order[id].side])
          /\ \E i \in 1..Len(book[order[id].side].levels[order[id].price]) :
               book[order[id].side].levels[order[id].price][i] = id

(* Time priority: within a level the queue is in order of acceptance, also
   after cancels in the middle and partial fills at the front. *)
QueuesInTimeOrder ==
    \A s \in Side : \A p \in Keys(book[s]) :
        \A i, j \in 1..Len(book[s].levels[p]) :
            i < j => order[book[s].levels[p][i]].sequence
                       < order[book[s].levels[p][j]].sequence

(* The book never rests crossed: every bid is below every ask. *)
Uncrossed ==
    \A b, a \in orders : (order[b].side = "BUY" /\ order[a].side = "SELL")
                            => order[b].price < order[a].price

(* The status of an order and its fill agree with where the order is: a
   resting order has something left to trade, every other order that the book
   has finished with is terminal and never overfilled. *)
StatusMatchesFill ==
    \A id \in OrderID : order[id] # None =>
        /\ order[id].filled <= order[id].quantity
        /\ id \in orders =>
              /\ order[id].filled < order[id].quantity
              /\ order[id].status =
                    IF order[id].filled = 0 THEN "OPEN" ELSE "PARTIALLY_FILLED"
        /\ (id \notin orders /\ id # taker) =>
              IF order[id].filled = order[id].quantity
              THEN order[id].status = "FILLED"
              ELSE order[id].status = "CANCELLED"

(* Sequence numbers identify the accepted orders and are bounded by orderSeq;
   the taker holds the last one and rests only once its call ends. *)
SequencesUnique ==
    /\ \A id \in OrderID : order[id] # None => order[id].sequence \in 1..orderSeq
    /\ \A i, j \in OrderID :
          (order[i] # None /\ order[j] # None /\ i # j)
             => order[i].sequence # order[j].sequence
    /\ taker # None => /\ order[taker] # None
                       /\ taker \notin orders
                       /\ order[taker].sequence = orderSeq
                       /\ order[taker].status = "OPEN"

(* The result of Place accounts for the taker: the fills add up to what it
   has filled, and what the fills cost plus what is released is what the
   filled part had locked at the taker's limit. *)
FillsAccountForTaker ==
    taker # None =>
        LET o == order[taker]
            t == [i \in 1..Len(res.fills) |-> res.fills[i].trade]
            qty == Total([i \in 1..Len(t) |-> t[i].quantity])
            cost == Total([i \in 1..Len(t) |-> t[i].price * t[i].quantity])
        IN  /\ qty = o.filled
            /\ o.side = "BUY" => cost + res.takerReleaseCOP = o.price * o.filled

(* GET /book tells the truth: for every depth, a side shows its best levels,
   best first, each with the number of orders resting at that price and all
   they still offer, and leaves none out that is better than one it shows. *)
SnapshotShowsRestingOrders ==
    \A depth \in 0..Cardinality(Price) : \A s \in Side :
        LET view == IF s = "BUY" THEN Snapshot(depth).bids ELSE Snapshot(depth).asks
            At(p) == {id \in orders : order[id].side = s /\ order[id].price = p}
            offered == {p \in Price : At(p) # {}}
            shown == {view[i].price : i \in 1..Len(view)}
        IN  /\ \A i, j \in 1..Len(view) : i < j => Better(s, view[i].price, view[j].price)
            /\ shown \subseteq offered
            /\ \A p \in offered \ shown : /\ depth > 0 /\ Len(view) = depth
                                          /\ \A q \in shown : Better(s, q, p)
            /\ \A i \in 1..Len(view) :
                  /\ view[i].orders = Cardinality(At(view[i].price))
                  /\ view[i].quantity =
                        Total([id \in At(view[i].price) |-> Remaining(order[id])])

(* Once an order is terminal the book never touches it again, and an order
   never loses a fill (Terminal in order.go: no further transitions). *)
OrdersOnlyAdvance ==
    [][\A id \in OrderID : order[id] # None =>
          /\ Terminal(order[id].status) => order'[id] = order[id]
          /\ order'[id].filled >= order[id].filled
          /\ order'[id].sequence = order[id].sequence]_bookVars

(* The trades of the call in progress, as the abstract book sees them. *)
Tape == [i \in 1..Len(res.fills) |->
            [maker |-> res.fills[i].makerID, price |-> res.fills[i].trade.price,
             quantity |-> res.fills[i].trade.quantity]]

PriceTime == INSTANCE PriceTimeBook
                 WITH resting <- orders, incoming <- taker, clock <- orderSeq,
                      tape <- Tape

(* The levels, queues and sorted slices implement price-time priority: every
   trade of Place is with the resting order that is first by price and then
   by acceptance, at that order's price, and an order rests only when nothing
   in the book crosses it. *)
ImplementsPriceTimeBook == PriceTime!Spec
=============================================================================
