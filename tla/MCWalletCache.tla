--------------------------- MODULE MCWalletCache ---------------------------
(* Model-checking instances of WalletCache: constants only, in the .cfg files. *)
EXTENDS WalletCache
=============================================================================
