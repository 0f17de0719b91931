----------------------------- MODULE MCDpClient -----------------------------
(* Small instances of DpClient for TLC: two or three clients, each with    *)
(* the thread of its event service, and a second thread that sends         *)
(* requests with the first client.                                         *)
EXTENDS DpClient

CONSTANTS t1, t2, t3, u1, d1, d2, d3

MCPair == <<d1, d2>>
MCTriple == <<d1, d2, d3>>
MCClientOf2 == (t1 :> d1) @@ (t2 :> d2)
MCLoopOf2 == (d1 :> t1) @@ (d2 :> t2)
MCClientOf == (t1 :> d1) @@ (t2 :> d2) @@ (t3 :> d3) @@ (u1 :> d1)
MCLoopOf == (d1 :> t1) @@ (d2 :> t2) @@ (d3 :> t3)
=============================================================================
