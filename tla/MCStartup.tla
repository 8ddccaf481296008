----------------------------- MODULE MCStartup -----------------------------
(***************************************************************************)
(* A model-checking instance of Startup.                                   *)
(***************************************************************************)
EXTENDS Startup

(* Drivers that are named, left out and misspelt. *)
Envs == [wallets: {"", "postgres"}, trades: {"memory", "postgres"},
         orders: {"", "postgres", "postgrse"}, eventLog: {"", "kafka", "kakfa"},
         cache: {"redis", "reddis"}, telemetry: {"", "false", "flase"}]
=============================================================================
