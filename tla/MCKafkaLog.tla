----------------------------- MODULE MCKafkaLog -----------------------------
(* Model-checking instances of KafkaLog: constants only, in the .cfg files. *)
EXTENDS KafkaLog
=============================================================================
