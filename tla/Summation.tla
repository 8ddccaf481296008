----------------------------- MODULE Summation -----------------------------
(***************************************************************************)
(* Sums over the domain of a function.                                     *)
(***************************************************************************)
EXTENDS FiniteSetsExt

(* The sum of what f yields on its domain. *)
Total(f) == MapThenSumSet(LAMBDA x : f[x], DOMAIN f)
=============================================================================
