---------------------------- MODULE PacketChannel ----------------------------
(***************************************************************************)
(* What packet connections promise their user, abstractly.                 *)
(*                                                                         *)
(* The peer's packets are delivered whole, once, in the order in which     *)
(* they were sent, until the connection closes.  What the user writes goes *)
(* out in the order of writing.  A connection fails at most once, and only *)
(* if the peer closed it.  All this holds until a connection is `faulty`.  *)
(***************************************************************************)
EXTENDS PacketFraming

CONSTANTS
  Sockets,
  Plans,    \* Plans[s]: the sequences of body sizes that s's peer may send
  OutSize   \* the body size of the packets the user writes

VARIABLES
  sizes,      \* sizes[s]: what s's peer sends
  delivered,  \* delivered[s]: the bodies the user was given
  written,    \* written[s]: how many packets the user wrote
  sent,       \* sent[s]: the bytes that went out
  open,       \* open[s]
  failures,   \* failures[s]: how often an error was signalled
  gone,       \* connections whose peer closed or reset them
  faulty      \* connections of which nothing is promised any more

vars == <<sizes, delivered, written, sent, open, failures, gone, faulty>>

Outgoing(n) == StreamBytes([p \in 1 .. n |-> OutSize])

Init ==
  /\ sizes \in {f \in [Sockets -> UNION {Plans[s] : s \in Sockets}] :
                  \A s \in Sockets : f[s] \in Plans[s]}
  /\ delivered = [s \in Sockets |-> <<>>]
  /\ written = [s \in Sockets |-> 0]
  /\ sent = [s \in Sockets |-> <<>>]
  /\ open = [s \in Sockets |-> TRUE]
  /\ failures = [s \in Sockets |-> 0]
  /\ gone = {}
  /\ faulty = {}

Deliver(s) ==
  /\ open[s]
  /\ Len(delivered[s]) < Len(sizes[s])
  /\ delivered' = [delivered EXCEPT ![s] = Append(@, Body(Len(@) + 1, sizes[s][Len(@) + 1]))]
  /\ UNCHANGED <<sizes, written, sent, open, failures, gone, faulty>>

(* bytes go out, up to what was written *)
Transmit(s, n) ==
  sent' \in {[sent EXCEPT ![s] = SubSeq(Outgoing(n), 1, i)] :
               i \in Len(sent[s]) .. Len(Outgoing(n))}

Write(s) ==
  /\ open[s]
  /\ written' = [written EXCEPT ![s] = @ + 1]
  /\ Transmit(s, written[s] + 1)
  /\ UNCHANGED <<sizes, delivered, open, failures, gone, faulty>>

Flush(s) ==
  /\ open[s]
  /\ Transmit(s, written[s])
  /\ UNCHANGED <<sizes, delivered, written, open, failures, gone, faulty>>

Close(s) ==
  /\ open' = [open EXCEPT ![s] = FALSE]
  /\ UNCHANGED <<sizes, delivered, written, sent, failures, gone, faulty>>

PeerGone(s) ==
  /\ gone' = gone \union {s}
  /\ UNCHANGED <<sizes, delivered, written, sent, open, failures, faulty>>

Fail(s) ==
  /\ open[s]
  /\ s \in gone
  /\ open' = [open EXCEPT ![s] = FALSE]
  /\ failures' = [failures EXCEPT ![s] = @ + 1]
  /\ UNCHANGED <<sizes, delivered, written, sent, gone, faulty>>

(* a faulty connection is still no concern of the others *)
Misbehave(s) ==
  /\ faulty' = faulty \union {s}
  /\ \A r \in Sockets \ {s} :
       <<delivered[r], written[r], sent[r], open[r], failures[r]>>'
         = <<delivered[r], written[r], sent[r], open[r], failures[r]>>
  /\ UNCHANGED <<sizes, gone>>

Next ==
  \E s \in Sockets :
    \/ Deliver(s) \/ Write(s) \/ Flush(s) \/ Close(s) \/ PeerGone(s) \/ Fail(s)
    \/ Misbehave(s)

Spec == Init /\ [][Next]_vars
=============================================================================
