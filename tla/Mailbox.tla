------------------------------ MODULE Mailbox ------------------------------
(***************************************************************************)
(* What a message queue promises to those who post to it, with none of the *)
(* locking, waiting or waking that delivers it.  A message is accepted     *)
(* once; it stays pending until it is taken for its handler or discarded;  *)
(* it is never taken before it is due, never taken twice, and messages     *)
(* posted without a delay are taken in the order they were accepted.       *)
(***************************************************************************)
EXTENDS Integers

CONSTANTS Handlers, NoMessage

VARIABLES clock,    \* milliseconds since the queue was created
          accepted, \* how many messages were ever accepted
          pending,  \* accepted and neither taken nor discarded
          held,     \* the message in the reader's hand
          handled   \* the identities of the messages whose handler has run

vars == <<clock, accepted, pending, held, handled>>

Message == [id: Nat, handler: Handlers, due: Nat, delayed: BOOLEAN]

Init ==
  /\ clock = 0
  /\ accepted = 0
  /\ pending = {}
  /\ held = NoMessage
  /\ handled = {}

Advance ==
  /\ clock' = clock + 1
  /\ UNCHANGED <<accepted, pending, held, handled>>

Accept ==
  /\ \E m \in pending' :
       /\ m \in Message
       /\ m.id = accepted + 1
       /\ m.delayed \/ m.due <= clock
       /\ pending' = pending \union {m}
  /\ accepted' = accepted + 1
  /\ UNCHANGED <<clock, held, handled>>

Take ==
  \E m \in pending :
     /\ held = NoMessage
     /\ m.due <= clock
     /\ ~m.delayed => \A n \in pending : n.delayed \/ m.id <= n.id
     /\ held' = m
     /\ pending' = pending \ {m}
     /\ UNCHANGED <<clock, accepted, handled>>

Handle ==
  /\ held # NoMessage
  /\ held' = NoMessage
  /\ handled' = handled \union {held.id}
  /\ UNCHANGED <<clock, accepted, pending>>

(* a reader that only wanted to look sets the message aside *)
PutBack ==
  /\ held # NoMessage
  /\ held' = NoMessage
  /\ pending' = pending \union {held}
  /\ UNCHANGED <<clock, accepted, handled>>

(* Everything pending for the doomed handlers goes; what the reader holds *)
(* already is out of reach.                                               *)
Discard ==
  \E doomed \in SUBSET Handlers :
     /\ pending' = {m \in pending : m.handler \notin doomed}
     /\ UNCHANGED <<clock, accepted, held, handled>>

Next == Advance \/ Accept \/ Take \/ Handle \/ PutBack \/ Discard

Spec == Init /\ [][Next]_vars
=============================================================================
