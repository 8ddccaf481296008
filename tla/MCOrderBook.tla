---------------------------- MODULE MCOrderBook ----------------------------
(* Model-checking instance of OrderBook: constants only. *)
EXTENDS OrderBook

IDSymmetry == Permutations(OrderID)
=============================================================================
