-------------------------- MODULE MCMessageQueue --------------------------
(* Small instances of MessageQueue for TLC. *)
EXTENDS MessageQueue
=============================================================================
