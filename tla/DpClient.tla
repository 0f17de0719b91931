------------------------------ MODULE DpClient ------------------------------
(***************************************************************************)
(* Requests between DP clients (eventservice/dp/dpclient.cpp): the clients *)
(* of one process, the DpClientManager that looks for one that listens,    *)
(* the event services that run their handlers, and the SignalEvent each    *)
(* client waits on.                                                        *)
(*                                                                         *)
(* SendDpRequest blocks its thread, which may be the thread that runs the  *)
(* handlers of its own client, and may be called in a handler; SendDpReply *)
(* may be called in the handler or at any time later.  The manager walks   *)
(* its list without a lock and each client takes its own to say whether it *)
(* listens: a client may start or stop between two steps of a walk.  There *)
(* is one method here; all clients are registered from the start.          *)
(***************************************************************************)
EXTENDS Naturals, Sequences, SequencesExt, FiniteSets

CONSTANTS
  dpclients_,  \* the clients in the order the manager lists them
  Threads,
  ClientOf,    \* ClientOf[t]: the client thread t sends requests with
  LoopOf,      \* LoopOf[d]: the thread of client d's event service
  MaxCalls,    \* bound on the requests and messages sent
  MaxMessages, \* bound on the messages among them
  MaxChanges   \* bound on the changes of who listens

ASSUME DpClientAssumption ==
  /\ dpclients_ \in Seq(Range(dpclients_)) /\ IsInjective(dpclients_)
  /\ IsFiniteSet(Threads)
  /\ ClientOf \in [Threads -> Range(dpclients_)]
  /\ LoopOf \in [Range(dpclients_) -> Threads]
  /\ \A d \in Range(dpclients_) : ClientOf[LoopOf[d]] = d
  /\ MaxCalls \in Nat /\ MaxMessages \in Nat /\ MaxChanges \in Nat

VARIABLES
  method_set_, \* method_set_[d]: whether client d listens
  box,         \* box[d]: requests and messages posted to d's event service
  kept,        \* kept[d]: those d's handler got and has not replied to
  signaled_,   \* signaled_[d]: the pipe of d's signal_event_
  call,        \* call[t]: what thread t sends, and where it stands in the list
  from,        \* from[i]: the client of request or message i
  broadcasts,  \* the numbers that are messages to all
  calls,       \* requests and messages sent so far
  changes,     \* changes of who listens so far
  replies,     \* replies[d]: SendDpReply calls that triggered d's signal
  replied,     \* the requests among those
  succeeded    \* requests for which SendDpRequest returned true

vars == <<method_set_, box, kept, signaled_, call, from, broadcasts, calls,
          changes, replies, replied, succeeded>>
sent == <<from, broadcasts, calls>>
answers == <<replies, replied, succeeded>>

Clients == Range(dpclients_)
Ids == 1 .. MaxCalls
Idle == [at |-> "idle", id |-> 0, next |-> 0]

Init ==
  /\ method_set_ = [d \in Clients |-> TRUE]
  /\ box = [d \in Clients |-> <<>>]
  /\ kept = [d \in Clients |-> {}]
  /\ signaled_ = [d \in Clients |-> FALSE]
  /\ call = [t \in Threads |-> Idle]
  /\ from = <<>>
  /\ broadcasts = {}
  /\ calls = 0
  /\ changes = 0
  /\ replies = [d \in Clients |-> 0]
  /\ replied = {}
  /\ succeeded = {}

-----------------------------------------------------------------------------
(* ListenMessage and RemoveMessage *)
Change(d) ==
  /\ changes < MaxChanges
  /\ changes' = changes + 1
  /\ method_set_' = [method_set_ EXCEPT ![d] = ~@]
  /\ UNCHANGED <<box, kept, signaled_, call, sent, answers>>

Free(t) == call[t] = Idle

(* a mutant: the message does not carry its sender's signal_event *)
SendUnsigned(t, at) ==
  /\ Free(t)
  /\ calls < MaxCalls
  /\ calls' = calls + 1
  /\ call' = [call EXCEPT ![t] = [at |-> at, id |-> calls + 1, next |-> 1]]
  /\ UNCHANGED <<from, method_set_, box, kept, signaled_, changes, answers>>

(* SendDpRequest and SendDpMessage begin the manager's walk; a message     *)
(* names its sender's signal as well.                                      *)
Send(t, at) ==
  /\ Free(t)
  /\ calls < MaxCalls
  /\ calls' = calls + 1
  /\ from' = Append(from, ClientOf[t])
  /\ call' = [call EXCEPT ![t] = [at |-> at, id |-> calls + 1, next |-> 1]]
  /\ UNCHANGED <<method_set_, box, kept, signaled_, changes, answers>>

Request(t) == Send(t, "asks") /\ UNCHANGED broadcasts

Message(t) ==
  /\ Cardinality(broadcasts) < MaxMessages
  /\ Send(t, "tells")
  /\ broadcasts' = broadcasts \union {calls + 1}

-----------------------------------------------------------------------------
(* ProcessDpRequest and ProcessDpMessage: a step is one client's           *)
(* HandleDpMessage.                                                        *)
Walks(t) == call[t].at \in {"asks", "tells"}

NextClient(t) == dpclients_[call[t].next]

Listens(t) == NextClient(t) # ClientOf[t] /\ method_set_[NextClient(t)]

(* a mutant: ProcessDpRequest goes on, as ProcessDpMessage does *)
HeardByAll(t) == [call EXCEPT ![t].next = @ + 1]

(* a request ends at the first client that listens, a message at the last *)
Heard(t) ==
  IF call[t].at = "asks" THEN [call EXCEPT ![t].at = "waits", ![t].next = 0]
                         ELSE [call EXCEPT ![t].next = @ + 1]

(* the client listens: the message is posted to its event service *)
Post(t) ==
  /\ Walks(t)
  /\ call[t].next <= Len(dpclients_)
  /\ Listens(t)
  /\ box' = [box EXCEPT ![NextClient(t)] = Append(@, call[t].id)]
  /\ call' = Heard(t)
  /\ UNCHANGED <<method_set_, kept, signaled_, sent, changes, answers>>

PassOver(t) ==
  /\ Walks(t)
  /\ call[t].next <= Len(dpclients_)
  /\ ~Listens(t)
  /\ call' = [call EXCEPT ![t].next = @ + 1]
  /\ UNCHANGED <<method_set_, box, kept, signaled_, sent, changes, answers>>

(* the end of the list: a message was sent, a request has failed *)
WalkOver(t) ==
  /\ Walks(t)
  /\ call[t].next > Len(dpclients_)
  /\ call' = [call EXCEPT ![t] = Idle]
  /\ UNCHANGED <<method_set_, box, kept, signaled_, sent, changes, answers>>

WalkOn(t) == Post(t) \/ PassOver(t) \/ WalkOver(t)

-----------------------------------------------------------------------------
(* WaitSignal, and SendDpRequest's return.  select and ResetWakeEvent are  *)
(* two steps: threads that share a client may both get past select.        *)
Woken(t) ==
  /\ call[t].at = "waits"
  /\ signaled_[ClientOf[t]]
  /\ call' = [call EXCEPT ![t].at = "woken"]
  /\ UNCHANGED <<method_set_, box, kept, signaled_, sent, changes, answers>>

(* a mutant: the signal is left in the pipe *)
SignalledUnreset(t) ==
  /\ call[t].at = "woken"
  /\ succeeded' = succeeded \union {call[t].id}
  /\ call' = [call EXCEPT ![t] = Idle]
  /\ UNCHANGED <<method_set_, box, kept, signaled_, sent, changes, replies, replied>>

Signalled(t) ==
  /\ call[t].at = "woken"
  /\ signaled_' = [signaled_ EXCEPT ![ClientOf[t]] = FALSE]
  /\ succeeded' = succeeded \union {call[t].id}
  /\ call' = [call EXCEPT ![t] = Idle]
  /\ UNCHANGED <<method_set_, box, kept, sent, changes, replies, replied>>

(* a mutant: the wait has no end of its own *)
TimeOutNever(t) == FALSE /\ UNCHANGED vars

TimeOut(t) ==
  /\ call[t].at = "waits"
  /\ ~signaled_[ClientOf[t]]
  /\ call' = [call EXCEPT ![t].at = "timedout"]
  /\ UNCHANGED <<method_set_, box, kept, signaled_, sent, changes, answers>>

(* ResetWakeEvent, after the timeout *)
ReturnTimeout(t) ==
  /\ call[t].at = "timedout"
  /\ signaled_' = [signaled_ EXCEPT ![ClientOf[t]] = FALSE]
  /\ call' = [call EXCEPT ![t] = Idle]
  /\ UNCHANGED <<method_set_, box, kept, sent, changes, answers>>

(* select is interrupted, and the pipe is left alone.  A reply that comes   *)
(* just then is one that comes right after.                                *)
ReturnInterrupted(t) ==
  /\ call[t].at = "waits"
  /\ ~signaled_[ClientOf[t]]
  /\ call' = [call EXCEPT ![t] = Idle]
  /\ UNCHANGED <<method_set_, box, kept, signaled_, sent, changes, answers>>

-----------------------------------------------------------------------------
(* The event service of a client: OnMessage, unless its thread is blocked  *)
(* in a request of its own.                                                *)
OnMessage(d) ==
  /\ Free(LoopOf[d])
  /\ box[d] # <<>>
  /\ box' = [box EXCEPT ![d] = Tail(@)]
  /\ kept' = [kept EXCEPT ![d] = @ \union {Head(box[d])}]
  /\ UNCHANGED <<method_set_, signaled_, call, sent, changes, answers>>

(* SendDpReply, from any thread: triggers the signal the request came with *)
SendDpReply(d, id) ==
  /\ \E t \in Threads : Free(t)
  /\ id \in kept[d]
  /\ kept' = [kept EXCEPT ![d] = @ \ {id}]
  /\ signaled_' = [signaled_ EXCEPT ![from[id]] = TRUE]
  /\ replies' = [replies EXCEPT ![from[id]] = @ + 1]
  /\ replied' = replied \union ({id} \ broadcasts)
  /\ UNCHANGED <<method_set_, box, call, sent, changes, succeeded>>

-----------------------------------------------------------------------------
WaitEnds(t) ==
  Woken(t) \/ Signalled(t) \/ TimeOut(t) \/ ReturnTimeout(t) \/ ReturnInterrupted(t)

Next ==
  \/ \E d \in Clients : Change(d) \/ OnMessage(d)
  \/ \E d \in Clients, id \in Ids : SendDpReply(d, id)
  \/ \E t \in Threads : Request(t) \/ Message(t) \/ WalkOn(t)
  \/ \E t \in Threads : WaitEnds(t)

Spec == Init /\ [][Next]_vars

(* No client keeps its lock, a wait ends at the latest when its time is    *)
(* up, and event services run; nothing makes a handler reply.              *)
FairSpec ==
  /\ Spec
  /\ \A t \in Threads :
       /\ WF_vars(WalkOn(t))
       /\ WF_vars(Woken(t) \/ TimeOut(t))
       /\ WF_vars(Signalled(t) \/ ReturnTimeout(t))
  /\ \A d \in Clients : WF_vars(OnMessage(d))

-----------------------------------------------------------------------------
(* Every variable holds a value the code could hold. *)
TypeOK ==
  /\ method_set_ \in [Clients -> BOOLEAN]
  /\ \A d \in Clients : box[d] \in Seq(Ids) /\ kept[d] \subseteq Ids
  /\ signaled_ \in [Clients -> BOOLEAN]
  /\ call \in [Threads ->
       [at: {"idle", "asks", "tells", "waits", "woken", "timedout"},
        id: 0 .. MaxCalls, next: 0 .. Len(dpclients_) + 1]]
  /\ calls \in 0 .. MaxCalls /\ Len(from) = calls
  /\ \A t \in Threads : call[t].at # "idle" => from[call[t].id] = ClientOf[t]
  /\ replies \in [Clients -> Nat]
  /\ replied \subseteq Ids /\ succeeded \subseteq Ids

(* A request goes to one client and never to its sender, so that no two    *)
(* clients write the same res_buffer, whoever starts or stops listening    *)
(* while the manager looks for it.                                         *)
OneClientHears ==
  \A id \in Ids \ broadcasts, d, e \in Clients :
    LET has(c) == id \in kept[c] \union Range(box[c])
    IN  has(d) => d # from[id] /\ (has(e) => d = e)

(* A reply lets at most one request of a client that one thread uses       *)
(* succeed: as many have returned true as the client got replies, counting *)
(* the signal in its pipe.  (Two threads of one client can both get past   *)
(* select on one reply.)                                                   *)
OneReplyOneSuccess ==
  \A d \in Clients :
    Cardinality({t \in Threads : ClientOf[t] = d}) = 1 =>
      Cardinality({i \in succeeded : from[i] = d})
        + (IF signaled_[d] THEN 1 ELSE 0) <= replies[d]

(* Every request returns, also when clients request from each other in a   *)
(* circle out of their handlers, and when nobody replies.                  *)
EveryRequestReturns == \A t \in Threads : ~Free(t) ~> Free(t)

(* dpclient.h:84-85: a blocking request whose result is put into           *)
(* res_buffer; "there is a timeout: either it times out, or the result is  *)
(* obtained".                                                              *)
TrueMeansResult == succeeded \subseteq replied
=============================================================================
