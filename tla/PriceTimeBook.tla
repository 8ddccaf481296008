--------------------------- MODULE PriceTimeBook ---------------------------
(***************************************************************************)
(* What a limit order book promises, with no data structure: orders rest   *)
(* in a set, and an incoming order trades, at the resting order's price,   *)
(* with the resting order that has price-time priority, for as long as one *)
(* crosses its limit.  OrderBook implements this specification with price  *)
(* levels, FIFO queues and sorted slices.                                  *)
(***************************************************************************)
EXTENDS Integers, Sequences

CONSTANTS OrderID, Request, None

VARIABLES
    order,     \* id -> the order, None if there is none yet
    resting,   \* the orders in the book
    incoming,  \* the order being executed, or None
    clock,     \* number of orders accepted so far
    tape       \* trades of the incoming order (of the last one, if None)

vars == <<order, resting, incoming, clock, tape>>

Left(o) == o.quantity - o.filled

(* Resting order m is on the other side of o and within o's limit. *)
CanTrade(o, m) ==
    \/ o.side = "BUY" /\ m.side = "SELL" /\ m.price <= o.price
    \/ o.side = "SELL" /\ m.side = "BUY" /\ m.price >= o.price

(* m goes before n: better price first, then earlier acceptance. *)
Before(m, n) ==
    \/ m.side = "BUY" /\ m.price > n.price
    \/ m.side = "SELL" /\ m.price < n.price
    \/ m.price = n.price /\ m.sequence < n.sequence

Eligible(o) == {m \in resting : CanTrade(o, order[m])}

Init ==
    /\ order = [id \in OrderID |-> None]
    /\ resting = {}
    /\ incoming = None
    /\ clock = 0
    /\ tape = <<>>

Accept(id, r) ==
    /\ incoming = None
    /\ order[id] = None
    /\ clock' = clock + 1
    /\ order' = [order EXCEPT ![id] =
                   [userID |-> r.userID, side |-> r.side, price |-> r.price,
                    quantity |-> r.quantity, filled |-> 0, status |-> "OPEN",
                    sequence |-> clock']]
    /\ incoming' = id
    /\ tape' = <<>>
    /\ UNCHANGED resting

Execute(m) ==
    /\ incoming # None
    /\ Left(order[incoming]) > 0
    /\ m \in Eligible(order[incoming])
    /\ \A n \in Eligible(order[incoming]) \ {m} : Before(order[m], order[n])
    /\ \E qty \in {Left(order[incoming]), Left(order[m])} :
         /\ qty <= Left(order[incoming]) /\ qty <= Left(order[m])
         /\ order' = [order EXCEPT
                        ![incoming].filled = @ + qty,
                        ![m].filled = @ + qty,
                        ![m].status = IF qty = Left(order[m]) THEN "FILLED"
                                                              ELSE "PARTIALLY_FILLED"]
         /\ resting' = IF qty = Left(order[m]) THEN resting \ {m} ELSE resting
         /\ tape' = Append(tape, [maker |-> m, price |-> order[m].price, quantity |-> qty])
    /\ UNCHANGED <<incoming, clock>>

(* The incoming order has nothing left, or nobody left to trade with. *)
Conclude ==
    /\ incoming # None
    /\ \/ /\ Left(order[incoming]) = 0
          /\ order' = [order EXCEPT ![incoming].status = "FILLED"]
          /\ UNCHANGED resting
       \/ /\ Left(order[incoming]) > 0
          /\ Eligible(order[incoming]) = {}
          /\ order' = [order EXCEPT ![incoming].status =
                         IF order[incoming].filled > 0 THEN "PARTIALLY_FILLED" ELSE "OPEN"]
          /\ resting' = resting \cup {incoming}
    /\ incoming' = None
    /\ UNCHANGED <<clock, tape>>

Withdraw(id) ==
    /\ incoming = None
    /\ id \in resting
    /\ resting' = resting \ {id}
    /\ order' = [order EXCEPT ![id].status = "CANCELLED"]
    /\ UNCHANGED <<incoming, clock, tape>>

Next ==
    \/ \E id \in OrderID, r \in Request : Accept(id, r)
    \/ \E m \in OrderID : Execute(m)
    \/ Conclude
    \/ \E id \in OrderID : Withdraw(id)

Spec == Init /\ [][Next]_vars
=============================================================================
