---------------------------- MODULE MCThreadSend ----------------------------
(* Small instances of ThreadSend for TLC. *)
EXTENDS ThreadSend
=============================================================================
