---------------------------- MODULE MCKvdbClient ----------------------------
(* A small instance of KvdbClient for TLC: two threads share a client, a   *)
(* third has its own.                                                      *)
EXTENDS KvdbClient

CONSTANTS t1, t2, t3, c1, c2

MCClientOf == (t1 :> c1) @@ (t2 :> c1) @@ (t3 :> c2)
=============================================================================
