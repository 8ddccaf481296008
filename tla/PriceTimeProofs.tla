-------------------------- MODULE PriceTimeProofs --------------------------
(***************************************************************************)
(* OrderBook implements PriceTimeBook: what the levels, the FIFO queues    *)
(* and the sorted price slices of orderbook.go compute is price-time       *)
(* priority.  The refinement mapping is the one of OrderBook!PriceTime;    *)
(* each action of the book is one action of the abstract book.             *)
(***************************************************************************)
EXTENDS OrderBookProofs

(* The tape of a call that has not traded yet. *)
LEMMA EmptyTape ==
    ASSUME res.fills = <<>>
    PROVE  Tape = <<>>
  BY DEF Tape

(* The same after a step. *)
LEMMA EmptyTapePrime ==
    ASSUME res'.fills = <<>>
    PROVE  Tape' = <<>>
  BY DEF Tape

(* A fill that Place appends is a trade at the end of the tape. *)
LEMMA TapeGrows ==
    ASSUME NEW f, res.fills \in Seq(Fill), res'.fills = Append(res.fills, f)
    PROVE  Tape' = Append(Tape, [maker |-> f.makerID, price |-> f.trade.price,
                                 quantity |-> f.trade.quantity])
  <1>. DEFINE g == res.fills
              Entry(x) == [maker |-> x.makerID, price |-> x.trade.price,
                           quantity |-> x.trade.quantity]
              h == Append(g, f)
              T == {Entry(h[i]) : i \in 1..Len(h)}
  <1>1. Len(g) \in Nat /\ Len(h) = Len(g) + 1
    BY SMT
  <1>2. \A i \in 1..Len(h) : h[i] = IF i <= Len(g) THEN g[i] ELSE f
    BY SMT
  <1>3. Tape = [i \in 1..Len(g) |-> Entry(g[i])]
    BY Zenon DEF Tape
  <1>4. Tape' = [i \in 1..Len(h) |-> Entry(h[i])]
    BY Zenon DEF Tape
  <1>. HIDE DEF g, h, Entry
  <1>5. Tape \in Seq(T) /\ Len(Tape) = Len(g)
    <2>1. \A i \in 1..Len(g) : i \in 1..Len(h) /\ Entry(g[i]) = Entry(h[i])
      BY <1>1, <1>2
    <2>2. \A i \in 1..Len(g) : Entry(g[i]) \in T
      BY <2>1
    <2>. HIDE DEF T
    <2>. QED  BY <1>1, <1>3, <2>2
  <1>6. Entry(f) \in T
    <2>1. Len(h) \in 1..Len(h) /\ h[Len(h)] = f
      BY <1>1, <1>2
    <2>. QED  BY <2>1
  <1>7. Tape' \in Seq(T) /\ Len(Tape') = Len(h)
    <2>1. \A i \in 1..Len(h) : Entry(h[i]) \in T
      OBVIOUS
    <2>2. Len(h) \in Nat
      BY <1>1
    <2>. HIDE DEF T
    <2>. QED  BY <1>4, <2>1, <2>2
  <1>. HIDE DEF T
  <1>8. Append(Tape, Entry(f)) \in Seq(T) /\ Len(Append(Tape, Entry(f))) = Len(h)
    BY <1>1, <1>5, <1>6
  <1>9. \A i \in 1..Len(h) : Tape'[i] = Append(Tape, Entry(f))[i]
    <2>. SUFFICES ASSUME NEW i \in 1..Len(h) PROVE Tape'[i] = Append(Tape, Entry(f))[i]
      OBVIOUS
    <2>1. Tape'[i] = Entry(h[i])
      BY <1>4
    <2>2. CASE i <= Len(g)
      BY <1>1, <1>2, <1>3, <1>5, <1>6, <2>1, <2>2
    <2>3. CASE ~(i <= Len(g))
      <3>1. i = Len(Tape) + 1
        BY <1>1, <1>5, <2>3
      <3>. QED  BY <1>2, <1>5, <1>6, <2>1, <2>3, <3>1
    <2>. QED  BY <2>2, <2>3
  <1>. QED  BY <1>7, <1>8, <1>9, SeqEqual DEF Entry

-----------------------------------------------------------------------------
(* The head of the best opposite level goes before every other order that the
   taker could trade with: a better price, or the same price and an earlier
   acceptance.  This is where sorted slices and FIFO queues are needed. *)
LEMMA HeadHasPriority ==
    ASSUME BookInv, taker # None, Matchable(order[taker]),
           NEW s, s = Opposite(order[taker].side),
           NEW p, p = Best(book[s]),
           NEW mid, mid = Head(book[s].levels[p]),
           NEW n \in orders, n # mid, order[n].side = s
    PROVE  PriceTime!Before(order[mid], order[n])
  <1>. DEFINE ps == book[s].prices
              m == order[mid]
              y == order[n]
  <1>1. TypeOK /\ PricesSorted /\ LevelsMatchPrices /\ IndexMatchesQueues /\ QueuesInTimeOrder
    BY DEF BookInv
  <1>2. /\ s \in Side /\ ps \in Seq(Price) /\ ps # <<>>
        /\ p = ps[1] /\ p \in Keys(book[s])
        /\ book[s].levels[p] \in Seq(OrderID)
        /\ 1 \in 1..Len(book[s].levels[p]) /\ book[s].levels[p][1] = mid
        /\ m \in Order /\ m.side = s /\ m.price = p
    BY MakerFacts
  <1>3. y \in Order
    BY <1>1, IndexFacts DEF TypeOK
  <1>4. y.price \in Keys(book[s])
    BY <1>1 DEF IndexMatchesQueues
  <1>5. PICK i \in 1..Len(ps) : ps[i] = y.price
    <2>1. y.price \in ToSet(ps)
      BY <1>1, <1>2, <1>4 DEF LevelsMatchPrices
    <2>2. ps \in Seq(Price)
      BY <1>2
    <2>. HIDE DEF ps
    <2>. QED  BY <2>1, <2>2, ToSetMember
  <1>6. i = 1 \/ Better(s, ps[1], ps[i])
    <2>1. \A j, k \in 1..Len(ps) : j < k => Better(s, ps[j], ps[k])
      BY <1>1, <1>2 DEF PricesSorted
    <2>2. ps \in Seq(Price)
      BY <1>2
    <2>. HIDE DEF ps
    <2>3. 1 \in 1..Len(ps) /\ (i = 1 \/ 1 < i)
      BY <2>2
    <2>. QED  BY <2>1, <2>3
  <1>. HIDE DEF ps, m, y
  <1>7. CASE Better(s, ps[1], ps[i])
    <2>1. Better(s, m.price, y.price)
      BY <1>2, <1>5, <1>7
    <2>2. m.price \in Nat /\ y.price \in Nat
      BY <1>2, <1>3, OrderNumbers
    <2>. QED  BY <1>2, <2>1, <2>2 DEF PriceTime!Before, Better, Side, m, y
  <1>8. CASE i = 1
    <2>1. y.price = p
      BY <1>2, <1>5, <1>8
    <2>2. PICK j \in 1..Len(book[s].levels[p]) : book[s].levels[p][j] = n
      BY <1>1, <2>1 DEF IndexMatchesQueues, y
    <2>3. j # 1 /\ 1 < j
      <3>1. j # 1
        BY <1>2, <2>2
      <3>. QED  BY <1>2, <2>2, <3>1
    <2>4. order[book[s].levels[p][1]].sequence < order[book[s].levels[p][j]].sequence
      BY <1>1, <1>2, <2>2, <2>3 DEF QueuesInTimeOrder
    <2>5. m.sequence < y.sequence
      BY <1>2, <2>2, <2>4 DEF m, y
    <2>. QED  BY <1>2, <2>1, <2>5 DEF PriceTime!Before, m, y
  <1>. QED  BY <1>6, <1>7, <1>8

(* The abstract book's condition for a trade, for an order o and a resting
   order m of the other side, is the loop's. *)
LEMMA CanTradeIsCrosses ==
    ASSUME NEW o \in Order, NEW m \in Order
    PROVE  PriceTime!CanTrade(o, m)
             <=> m.side = Opposite(o.side) /\ Crosses(o.side, o.price, m.price)
  <1>1. o.side \in Side /\ m.side \in Side
    BY OrderNumbers
  <1>. QED  BY <1>1 DEF PriceTime!CanTrade, Crosses, Opposite, Side

-----------------------------------------------------------------------------
(* The empty book is the empty abstract book. *)
LEMMA InitRefines == OrderBookInit => PriceTime!Init
  BY EmptyTape DEF OrderBookInit, PriceTime!Init

(* The code of Place before its loop accepts the order. *)
LEMMA PlaceBeginRefines ==
    ASSUME NEW id \in OrderID, NEW r \in Request, PlaceBegin(id, r)
    PROVE  PriceTime!Accept(id, r)
  <1>1. Tape' = <<>>
    BY EmptyTapePrime DEF PlaceBegin
  <1>. QED  BY <1>1 DEF PlaceBegin, PriceTime!Accept

(* An iteration of the loop is a trade with the order that has priority. *)
LEMMA MatchStepRefines ==
    ASSUME BookInv, MatchStep
    PROVE  \E m \in OrderID : PriceTime!Execute(m)
  <1>. DEFINE o == order[taker]
              s == Opposite(o.side)
              p == Best(book[s])
              mid == Head(book[s].levels[p])
              m == order[mid]
              qty == Min64(Remaining(o), Remaining(m))
              maker == Executed(m, qty)
              fill == [trade |-> NewTrade(o, taker, m, mid, qty),
                       makerID |-> mid, maker |-> maker]
  <1>1. TypeOK
    BY DEF BookInv
  <1>2. taker # None /\ Matchable(o) /\ Remaining(o) > 0
    BY DEF MatchStep, Matchable
  <1>3. /\ order' = [order EXCEPT ![mid] = maker, ![taker].filled = @ + qty]
        /\ res'.fills = Append(res.fills, fill)
        /\ orders' = IF Remaining(maker) = 0 THEN orders \ {mid} ELSE orders
        /\ orderSeq' = orderSeq /\ taker' = taker
    BY DEF MatchStep
  <1>4. /\ taker \in OrderID /\ o \in Order
        /\ s \in Side /\ mid \in orders /\ mid \in OrderID /\ mid # taker
        /\ m \in Order /\ m.side = s /\ m.price = p
        /\ m.filled < m.quantity
    BY <1>2, MakerFacts
  <1>5. Crosses(o.side, o.price, m.price)
    BY <1>2, <1>4 DEF Matchable
  <1>6. \A n \in orders : (n # mid /\ order[n].side = s) => PriceTime!Before(m, order[n])
    BY <1>2, HeadHasPriority
  <1>7. \A n \in orders : order[n] \in Order
    BY <1>1, IndexFacts DEF BookInv, TypeOK
  <1>. HIDE DEF o, s, p, mid, m, qty, maker, fill
  <1>8. Remaining(m) > 0
    BY <1>4, OrderNumbers DEF Remaining
  <1>9. qty \in Nat /\ qty > 0 /\ qty <= Remaining(o) /\ qty <= Remaining(m)
    BY <1>2, <1>4, <1>8, MatchQuantity DEF qty
  <1>10. mid \in PriceTime!Eligible(o)
    BY <1>4, <1>5, CanTradeIsCrosses DEF PriceTime!Eligible, m, s
  <1>11. \A n \in PriceTime!Eligible(o) \ {mid} : PriceTime!Before(m, order[n])
    <2>. SUFFICES ASSUME NEW n \in PriceTime!Eligible(o), n # mid
                  PROVE  PriceTime!Before(m, order[n])
      OBVIOUS
    <2>1. n \in orders /\ PriceTime!CanTrade(o, order[n])
      BY DEF PriceTime!Eligible
    <2>2. order[n].side = s
      BY <1>4, <1>7, <2>1, CanTradeIsCrosses DEF s
    <2>. QED  BY <1>6, <2>1, <2>2
  <1>12. qty \in {PriceTime!Left(o), PriceTime!Left(m)}
    BY DEF qty, Min64, Remaining, PriceTime!Left
  <1>13. (Remaining(maker) = 0) <=> (qty = PriceTime!Left(m))
    BY <1>4, <1>9, ExecutedFacts DEF maker, PriceTime!Left, Remaining
  <1>14. orders' = IF qty = PriceTime!Left(m) THEN orders \ {mid} ELSE orders
    BY <1>3, <1>13
  <1>15. order' = [order EXCEPT
                     ![taker].filled = @ + qty,
                     ![mid].filled = @ + qty,
                     ![mid].status = IF qty = PriceTime!Left(m) THEN "FILLED"
                                                                ELSE "PARTIALLY_FILLED"]
    <2>. DEFINE st == IF qty = PriceTime!Left(m) THEN "FILLED" ELSE "PARTIALLY_FILLED"
    <2>1. maker = [m EXCEPT !.filled = @ + qty, !.status = st]
      BY DEF maker, Executed, PriceTime!Left, Remaining
    <2>. HIDE DEF st
    <2>2. order \in [OrderID -> Order \cup {None}] /\ order[mid] = m /\ m \in Order
      BY <1>1, <1>4 DEF TypeOK, m
    <2>3. [order EXCEPT ![mid] = maker, ![taker].filled = @ + qty]
            = [order EXCEPT ![taker].filled = @ + qty, ![mid].filled = @ + qty,
                            ![mid].status = st]
      BY <1>4, <2>1, <2>2
    <2>. QED  BY <1>3, <2>3 DEF st
  <1>16. Tape' = Append(Tape, [maker |-> mid, price |-> m.price, quantity |-> qty])
    <2>1. res.fills \in Seq(Fill)
      BY <1>1 DEF TypeOK, PlaceResult
    <2>2. fill.makerID = mid /\ fill.trade.price = m.price /\ fill.trade.quantity = qty
      BY DEF fill, NewTrade
    <2>. HIDE DEF fill
    <2>. QED  BY <1>3, <2>1, <2>2, TapeGrows
  <1>17. /\ PriceTime!Left(o) > 0 /\ qty <= PriceTime!Left(o) /\ qty <= PriceTime!Left(m)
    BY <1>2, <1>9 DEF PriceTime!Left, Remaining
  <1>18. PriceTime!Execute(mid)
    BY <1>2, <1>3, <1>10, <1>11, <1>12, <1>14, <1>15, <1>16, <1>17
       DEF PriceTime!Execute, o, m
  <1>. QED  BY <1>4, <1>18

(* When the loop is over, no resting order can trade with what is left. *)
LEMMA PlaceFinishRefines ==
    ASSUME BookInv, PlaceFinish
    PROVE  PriceTime!Conclude
  <1>. DEFINE o == order[taker]
  <1>1. TypeOK /\ StatusMatchesFill /\ SequencesUnique /\ IndexMatchesQueues
    BY DEF BookInv
  <1>2. taker # None /\ ~Matchable(o) /\ taker' = None /\ orderSeq' = orderSeq /\ res' = res
    BY DEF PlaceFinish
  <1>3. taker \in OrderID /\ o \in Order
    BY <1>1, <1>2 DEF TypeOK, SequencesUnique
  <1>4. o.filled \in Nat /\ o.quantity \in Nat /\ o.filled <= o.quantity
    BY <1>1, <1>3, OrderNumbers, NoneIsNoOrder DEF StatusMatchesFill
  <1>5. Tape' = Tape
    BY <1>2 DEF Tape
  <1>6. CASE Remaining(o) = 0
    BY <1>2, <1>5, <1>6 DEF PlaceFinish, PriceTime!Conclude, Remaining, PriceTime!Left
  <1>7. CASE Remaining(o) # 0
    <2>1. Remaining(o) > 0
      BY <1>4, <1>7 DEF Remaining
    <2>2. \A x \in orders : order[x].side # o.side => ~Crosses(o.side, o.price, order[x].price)
      BY <1>2, <2>1, NothingCrosses
    <2>3. \A x \in orders : order[x] \in Order
      BY <1>1, IndexFacts DEF TypeOK
    <2>4. PriceTime!Eligible(o) = {}
      <3>. SUFFICES ASSUME NEW x \in PriceTime!Eligible(o) PROVE FALSE
        OBVIOUS
      <3>1. x \in orders /\ PriceTime!CanTrade(o, order[x])
        BY DEF PriceTime!Eligible
      <3>2. order[x].side = Opposite(o.side) /\ Crosses(o.side, o.price, order[x].price)
        BY <1>3, <2>3, <3>1, CanTradeIsCrosses
      <3>3. o.side # Opposite(o.side)
        BY DEF Opposite
      <3>. QED  BY <2>2, <3>1, <3>2, <3>3
    <2>5. PriceTime!Left(o) > 0
      BY <2>1 DEF PriceTime!Left, Remaining
    <2>6. /\ order' = [order EXCEPT ![taker].status =
                         IF o.filled > 0 THEN "PARTIALLY_FILLED" ELSE "OPEN"]
          /\ orders' = orders \cup {taker}
      BY <1>7 DEF PlaceFinish
    <2>. QED  BY <1>2, <1>5, <2>4, <2>5, <2>6 DEF PriceTime!Conclude
  <1>. QED  BY <1>6, <1>7

(* Cancel takes the order out of the abstract book. *)
LEMMA CancelRefines ==
    ASSUME NEW id \in OrderID, Cancel(id)
    PROVE  PriceTime!Withdraw(id)
  <1>1. Tape' = Tape
    BY DEF Cancel, Tape
  <1>. QED  BY <1>1 DEF Cancel, PriceTime!Withdraw

-----------------------------------------------------------------------------
(* The book of orderbook.go implements price-time priority, for any orders,
   users, prices and quantities: every trade of Place is with the resting
   order that is first by price and then by acceptance, at that order's price,
   and a remainder rests only when nothing in the book crosses it. *)
THEOREM PriceTimePriority == OrderBookSpec => ImplementsPriceTimeBook
  <1>1. OrderBookInit => PriceTime!Init
    BY InitRefines
  <1>2. BookInv /\ [OrderBookNext]_bookVars => [PriceTime!Next]_(PriceTime!vars)
    <2>. SUFFICES ASSUME BookInv, [OrderBookNext]_bookVars
                  PROVE  [PriceTime!Next]_(PriceTime!vars)
      OBVIOUS
    <2>1. ASSUME NEW id \in OrderID, NEW r \in Request, PlaceBegin(id, r)
          PROVE  PriceTime!Next
      BY <2>1, PlaceBeginRefines DEF PriceTime!Next
    <2>2. CASE MatchStep
      BY <2>2, MatchStepRefines DEF PriceTime!Next
    <2>3. CASE PlaceFinish
      BY <2>3, PlaceFinishRefines DEF PriceTime!Next
    <2>4. ASSUME NEW id \in OrderID, Cancel(id)
          PROVE  PriceTime!Next
      BY <2>4, CancelRefines DEF PriceTime!Next
    <2>5. CASE UNCHANGED bookVars
      BY <2>5 DEF bookVars, PriceTime!vars, Tape
    <2>. QED  BY <2>1, <2>2, <2>3, <2>4, <2>5 DEF OrderBookNext
  <1>. QED  BY <1>1, <1>2, BookInvariant, PTL
            DEF OrderBookSpec, ImplementsPriceTimeBook, PriceTime!Spec
=============================================================================
