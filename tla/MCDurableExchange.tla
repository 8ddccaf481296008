------------------------- MODULE MCDurableExchange -------------------------
(***************************************************************************)
(* Model-checking instances of DurableExchange: constants and symmetry.    *)
(***************************************************************************)
EXTENDS DurableExchange

CONSTANTS u1, u2

Buy(u, p, q) == [userID |-> u, side |-> "BUY", price |-> p, quantity |-> q]
Sell(u, p, q) == [userID |-> u, side |-> "SELL", price |-> p, quantity |-> q]

(* A buy that one sell fills in part and below its limit. *)
Commands == {Buy(u1, 2, 2), Sell(u2, 1, 1)}

Deposits == (u1 :> [COP |-> 4, Vibranium |-> 0]) @@ (u2 :> [COP |-> 0, Vibranium |-> 1])

(* Two trades, one before and one after a restart. *)
UnitCommands == {Buy(u1, 1, 1), Sell(u2, 1, 1)}
UnitDeposits == (u1 :> [COP |-> 2, Vibranium |-> 0]) @@ (u2 :> [COP |-> 0, Vibranium |-> 2])

(* Clients who neither cancel nor give up, and whom nothing refuses. *)
Patient == \A id \in OrderID : /\ cancelCall[id] = "idle"
                               /\ call[id] \notin {"rejected", "releasing", "cut"}

IDSymmetry == Permutations(OrderID)
=============================================================================
