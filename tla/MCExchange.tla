----------------------------- MODULE MCExchange -----------------------------
(***************************************************************************)
(* Model-checking instances of Exchange: constants and symmetry only.      *)
(***************************************************************************)
EXTENDS Exchange

CONSTANTS u1, u2

Buy(u, p, q) == [userID |-> u, side |-> "BUY", price |-> p, quantity |-> q]
Sell(u, p, q) == [userID |-> u, side |-> "SELL", price |-> p, quantity |-> q]

(* A seller and a buyer who may also cross themselves; partial fills, price
   improvement, an order that is too dear and one that is invalid. *)
Commands == {Buy(u1, 2, 2), Buy(u2, 1, 1), Sell(u2, 1, 1), Sell(u1, 2, 1), Buy(u1, 1, 0)}

Deposits == (u1 :> [COP |-> 5, Vibranium |-> 1]) @@ (u2 :> [COP |-> 1, Vibranium |-> 2])

IDSymmetry == Permutations(OrderID)
=============================================================================
