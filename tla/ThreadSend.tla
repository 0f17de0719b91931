----------------------------- MODULE ThreadSend -----------------------------
(***************************************************************************)
(* Synchronous calls between threads: Thread::Send, Thread::ReceiveSends   *)
(* and Thread::Clear (eventservice/event/thread.cpp), over the wait and    *)
(* wake-up of each thread's NetworkService.                                *)
(*                                                                         *)
(* A thread that sends waits until the receiver has run the handler, and   *)
(* while it waits it serves the sends that other threads address to it and *)
(* the events of its own sockets.  Each such handler may send again, so a  *)
(* thread is a stack of frames; `at` is where the code of a frame stands.  *)
(* The posted messages of a queue are only counted here: MessageQueue has  *)
(* their story.                                                            *)
(***************************************************************************)
EXTENDS Naturals, Sequences, SequencesExt

CONSTANTS
  Loops,      \* threads that run Thread::Run and can be sent to
  Outsiders,  \* threads without a Thread: each of their Sends makes an AutoThread
  None,
  MaxSends, MaxPosts, MaxEvents, MaxClears, MaxStops  \* bounds on each call

ASSUME ThreadSendAssumption ==
  /\ Loops \intersect Outsiders = {}
  /\ None \notin Loops \union Outsiders
  /\ {MaxSends, MaxPosts, MaxEvents, MaxClears, MaxStops} \subseteq Nat

VARIABLES
  stack,      \* stack[t]: frames, the running one last
  sendlist_,  \* sendlist_[t]: sends waiting for t, each with its sender
  has_sends_, \* has_sends_[t], read by t without the lock
  msgq_,      \* msgq_[t]: how many posted messages t has
  crit_,      \* crit_[t]: the thread inside t's critical section, if it lasts
  signaled_,  \* signaled_[t]: t's wake-up pipe
  fWait_,     \* fWait_[t]: whether t's innermost Wait goes on
  fStop_,     \* fStop_[t]
  ready,      \* ready[i]: the flag send number i waits for
  served,     \* sends whose handler has run
  cleared,    \* sends that Clear took out of a list
  count       \* calls of each kind made so far

vars == <<stack, sendlist_, has_sends_, msgq_, crit_, signaled_, fWait_,
          fStop_, ready, served, cleared, count>>
lists == <<sendlist_, has_sends_, msgq_>>
flags == <<fStop_, ready, served, cleared, count>>

Threads == Loops \union Outsiders
SendIds == 1 .. MaxSends

Frame(at, id, peer) == [at |-> at, id |-> id, peer |-> peer, waited |-> FALSE]

Top(t) == Last(stack[t])
At(t, at) == stack[t] # <<>> /\ Top(t).at = at

(* the frame at the top moves on, calls another, or returns *)
Moved(f, at) == [f EXCEPT !.at = at]
Become(t, frame) == stack' = [stack EXCEPT ![t] = Append(Front(@), frame)]
BecomeCall(t, frame, called) ==
  stack' = [stack EXCEPT ![t] = Append(Append(Front(@), frame), called)]
Goto(t, at) == Become(t, Moved(Top(t), at))
GotoCall(t, at, called) == BecomeCall(t, Moved(Top(t), at), called)
Call(t, frame) == stack' = [stack EXCEPT ![t] = Append(@, frame)]
Return(t) == stack' = [stack EXCEPT ![t] = Front(@)]

Init ==
  /\ stack = [t \in Threads |->
                IF t \in Loops THEN <<Frame("check", 0, None)>> ELSE <<>>]
  /\ sendlist_ = [t \in Loops |-> <<>>]
  /\ has_sends_ = [t \in Loops |-> FALSE]
  /\ msgq_ = [t \in Loops |-> 0]
  /\ crit_ = [t \in Loops |-> None]
  /\ signaled_ = [t \in Threads |-> FALSE]
  /\ fWait_ = [t \in Threads |-> FALSE]
  /\ fStop_ = [t \in Loops |-> FALSE]
  /\ ready = [i \in SendIds |-> FALSE]
  /\ served = {}
  /\ cleared = {}
  /\ count = [sends |-> 0, posts |-> 0, events |-> 0, clears |-> 0, stops |-> 0]

-----------------------------------------------------------------------------
(* What application code may do: a handler on top of a stack, or an        *)
(* outsider that is in no call.                                            *)
Running(t) == At(t, "run") \/ (t \in Outsiders /\ stack[t] = <<>>)

(* Send up to the unlocked test of fStop_; a Send to the own thread runs   *)
(* the handler in place.                                                   *)
BeginSend(t, r) ==
  /\ Running(t)
  /\ ~fStop_[r]
  /\ count.sends < MaxSends
  /\ count' = [count EXCEPT !.sends = @ + 1]
  /\ LET id == count.sends + 1
     IN  Call(t, IF r = t THEN Frame("run", id, None) ELSE Frame("push", id, r))
  /\ UNCHANGED <<lists, crit_, signaled_, fWait_, fStop_, ready, served, cleared>>

Post(t, r) ==
  /\ Running(t)
  /\ ~fStop_[r]
  /\ crit_[r] = None
  /\ count.posts < MaxPosts
  /\ count' = [count EXCEPT !.posts = @ + 1]
  /\ msgq_' = [msgq_ EXCEPT ![r] = @ + 1]
  /\ signaled_' = [signaled_ EXCEPT ![r] = TRUE]
  /\ UNCHANGED <<stack, sendlist_, has_sends_, crit_, fWait_, fStop_, ready,
                 served, cleared>>

(* Thread::Clear for every handler: whoever waits for a cleared send is let *)
(* go, and woken.                                                           *)
ClearAll(r) ==
  LET doomed == Range(sendlist_[r])
  IN  /\ ready' = [i \in SendIds |-> ready[i] \/ \E s \in doomed : s.id = i]
      /\ cleared' = cleared \union {s.id : s \in doomed}
      /\ signaled_' = [t \in Threads |-> signaled_[t] \/ \E s \in doomed : s.from = t]
      /\ sendlist_' = [sendlist_ EXCEPT ![r] = <<>>]
      /\ msgq_' = [msgq_ EXCEPT ![r] = 0]
      /\ UNCHANGED has_sends_

Clear(t, r) ==
  /\ Running(t)
  /\ crit_[r] = None
  /\ count.clears < MaxClears
  /\ count' = [count EXCEPT !.clears = @ + 1]
  /\ ClearAll(r)
  /\ UNCHANGED <<stack, crit_, fWait_, fStop_, served>>

(* the handler returns *)
Finish(t) ==
  /\ At(t, "run")
  /\ served' = served \union ({Top(t).id} \ {0})
  /\ Return(t)
  /\ UNCHANGED <<lists, crit_, signaled_, fWait_, fStop_, ready, cleared, count>>

(* Quit by whoever owns the thread *)
Quit(r) ==
  /\ count.stops < MaxStops
  /\ count' = [count EXCEPT !.stops = @ + 1]
  /\ fStop_' = [fStop_ EXCEPT ![r] = TRUE]
  /\ signaled_' = [signaled_ EXCEPT ![r] = TRUE]
  /\ UNCHANGED <<stack, lists, crit_, fWait_, ready, served, cleared>>

(* Join and ~Thread, which clears the queue.  The owner may not destroy a  *)
(* thread that another is just about to push a send to; no guard keeps it  *)
(* from one that is about to be woken (SenderOutlivesAnswer is about       *)
(* that).                                                                  *)
Destroy(r) ==
  /\ At(r, "exit")
  /\ \A t \in Threads : ~(At(t, "push") /\ Top(t).peer = r)
  /\ ClearAll(r)
  /\ Goto(r, "gone")
  /\ UNCHANGED <<crit_, fWait_, fStop_, served, count>>

-----------------------------------------------------------------------------
(* The rest of Send. *)
PushSend(t) ==
  /\ At(t, "push")
  /\ LET r == Top(t).peer
     IN  /\ crit_[r] = None
         /\ sendlist_' = [sendlist_ EXCEPT ![r] =
                            Append(@, [id |-> Top(t).id, from |-> t])]
         /\ has_sends_' = [has_sends_ EXCEPT ![r] = TRUE]
  /\ Goto(t, "wakepeer")
  /\ UNCHANGED <<msgq_, crit_, signaled_, fWait_, flags>>

(* a mutant: a receiver that is not inside Wait yet is not signalled *)
WakePeerIfWaiting(t) ==
  /\ At(t, "wakepeer")
  /\ signaled_' = [signaled_ EXCEPT ![Top(t).peer] = @ \/ fWait_[Top(t).peer]]
  /\ Goto(t, "test")
  /\ UNCHANGED <<lists, crit_, fWait_, flags>>

WakePeer(t) ==
  /\ At(t, "wakepeer")
  /\ signaled_' = [signaled_ EXCEPT ![Top(t).peer] = TRUE]
  /\ Goto(t, "test")
  /\ UNCHANGED <<lists, crit_, fWait_, flags>>

(* a mutant: the loop waits without serving the sends addressed to it *)
NotReadyButDeaf(t) ==
  /\ At(t, "test")
  /\ ~ready[Top(t).id]
  /\ Goto(t, "enterwait")
  /\ UNCHANGED <<lists, crit_, signaled_, fWait_, flags>>

NotReady(t) ==
  /\ At(t, "test")
  /\ ~ready[Top(t).id]
  /\ Goto(t, "receive")
  /\ UNCHANGED <<lists, crit_, signaled_, fWait_, flags>>

(* Returning, a sender that waited signals itself again, since it may have *)
(* consumed a wake-up meant for something else.  An outsider's AutoThread  *)
(* and its pipe go with the call.                                          *)
ReturnFromSend(t) ==
  /\ At(t, "test")
  /\ ready[Top(t).id]
  /\ signaled_' = [signaled_ EXCEPT ![t] =
                     t \in Loops /\ (@ \/ Top(t).waited)]
  /\ Return(t)
  /\ UNCHANGED <<lists, crit_, fWait_, flags>>

-----------------------------------------------------------------------------
(* ReceiveSends, called by Get and by a waiting Send. *)
Resume(at) == IF at = "check" THEN "scan" ELSE "enterwait"

Receives(t) == At(t, "check") \/ At(t, "receive")

NothingSent(t) ==
  /\ Receives(t)
  /\ t \in Loops => ~has_sends_[t]
  /\ Goto(t, Resume(Top(t).at))
  /\ UNCHANGED <<lists, crit_, signaled_, fWait_, flags>>

SomethingSent(t) ==
  /\ Receives(t)
  /\ t \in Loops
  /\ has_sends_[t]
  /\ GotoCall(t, Resume(Top(t).at), Frame("pop", 0, None))
  /\ UNCHANGED <<lists, crit_, signaled_, fWait_, flags>>

(* a mutant: the sender is answered before the handler runs *)
PopSendAnswerFirst(t) ==
  /\ At(t, "pop")
  /\ crit_[t] \in {None, t}
  /\ crit_' = [crit_ EXCEPT ![t] = None]
  /\ sendlist_[t] # <<>>
  /\ LET smsg == Head(sendlist_[t])
     IN  BecomeCall(t, Frame("run", smsg.id, None),
                       Frame("answer", smsg.id, smsg.from))
  /\ sendlist_' = [sendlist_ EXCEPT ![t] = Tail(@)]
  /\ UNCHANGED <<has_sends_, msgq_, signaled_, fWait_, flags>>

(* the head of the loop, inside the lock; the handler runs outside it *)
PopSend(t) ==
  /\ At(t, "pop")
  /\ crit_[t] \in {None, t}
  /\ crit_' = [crit_ EXCEPT ![t] = None]
  /\ sendlist_[t] # <<>>
  /\ LET smsg == Head(sendlist_[t])
     IN  BecomeCall(t, Frame("answer", smsg.id, smsg.from),
                       Frame("run", smsg.id, None))
  /\ sendlist_' = [sendlist_ EXCEPT ![t] = Tail(@)]
  /\ UNCHANGED <<has_sends_, msgq_, signaled_, fWait_, flags>>

Answer(t) ==
  /\ At(t, "answer")
  /\ crit_[t] = None
  /\ crit_' = [crit_ EXCEPT ![t] = t]
  /\ ready' = [ready EXCEPT ![Top(t).id] = TRUE]
  /\ Goto(t, "wakesender")
  /\ UNCHANGED <<lists, signaled_, fWait_, fStop_, served, cleared, count>>

(* still inside the lock, as is the next turn of the loop *)
WakeSender(t) ==
  /\ At(t, "wakesender")
  /\ signaled_' = [signaled_ EXCEPT ![Top(t).peer] = TRUE]
  /\ Goto(t, "pop")
  /\ UNCHANGED <<lists, crit_, fWait_, flags>>

(* a mutant: the flag is cleared after the lock was left *)
NoMoreSendsUnlocked(t) ==
  /\ At(t, "pop")
  /\ crit_[t] \in {None, t}
  /\ crit_' = [crit_ EXCEPT ![t] = None]
  /\ has_sends_' = [has_sends_ EXCEPT ![t] = FALSE]
  /\ Return(t)
  /\ UNCHANGED <<sendlist_, msgq_, signaled_, fWait_, flags>>

NoMoreSends(t) ==
  /\ At(t, "pop")
  /\ crit_[t] \in {None, t}
  /\ crit_' = [crit_ EXCEPT ![t] = None]
  /\ sendlist_[t] = <<>>
  /\ has_sends_' = [has_sends_ EXCEPT ![t] = FALSE]
  /\ Return(t)
  /\ UNCHANGED <<sendlist_, msgq_, signaled_, fWait_, flags>>

-----------------------------------------------------------------------------
(* NetworkService::Wait(kForever), for a Send ("receive" was its last stop) *)
(* and for Get.  fWait_ belongs to the service, so a Wait nested in the     *)
(* handler of a socket event shares it.                                     *)
EnterWait(t) ==
  /\ At(t, "enterwait")
  /\ fWait_' = [fWait_ EXCEPT ![t] = TRUE]
  /\ Goto(t, "wait")
  /\ UNCHANGED <<lists, crit_, signaled_, flags>>

Woken(t) ==
  /\ At(t, "wait")
  /\ fWait_[t]
  /\ signaled_[t]
  /\ signaled_' = [signaled_ EXCEPT ![t] = FALSE]
  /\ fWait_' = [fWait_ EXCEPT ![t] = FALSE]
  /\ UNCHANGED <<stack, lists, crit_, flags>>

(* a socket of the service is ready and its handler runs inside Wait, also *)
(* after the wake-up was seen in the same turn                             *)
SocketEvent(t) ==
  /\ At(t, "wait")
  /\ t \in Loops
  /\ count.events < MaxEvents
  /\ count' = [count EXCEPT !.events = @ + 1]
  /\ Call(t, Frame("run", 0, None))
  /\ UNCHANGED <<lists, crit_, signaled_, fWait_, fStop_, ready, served, cleared>>

LeaveWait(t) ==
  /\ At(t, "wait")
  /\ ~fWait_[t]
  /\ LET f == Top(t)
     IN  Become(t, IF f.id = 0 THEN Moved(f, "check")
                   ELSE [at |-> "test", id |-> f.id, peer |-> f.peer, waited |-> TRUE])
  /\ UNCHANGED <<lists, crit_, signaled_, fWait_, flags>>

-----------------------------------------------------------------------------
(* a mutant: the queue is not tested for being empty *)
TakePostedUntested(t) ==
  /\ At(t, "scan")
  /\ crit_[t] = None
  /\ msgq_' = [msgq_ EXCEPT ![t] = @ - 1]
  /\ GotoCall(t, "check", Frame("run", 0, None))
  /\ UNCHANGED <<sendlist_, has_sends_, crit_, signaled_, fWait_, flags>>

(* Get, after ReceiveSends. *)
TakePosted(t) ==
  /\ At(t, "scan")
  /\ crit_[t] = None
  /\ msgq_[t] > 0
  /\ msgq_' = [msgq_ EXCEPT ![t] = @ - 1]
  /\ GotoCall(t, "check", Frame("run", 0, None))
  /\ UNCHANGED <<sendlist_, has_sends_, crit_, signaled_, fWait_, flags>>

NothingPosted(t) ==
  /\ At(t, "scan")
  /\ crit_[t] = None
  /\ msgq_[t] = 0
  /\ Goto(t, "stoptest")
  /\ UNCHANGED <<lists, crit_, signaled_, fWait_, flags>>

StopTest(t) ==
  /\ At(t, "stoptest")
  /\ Goto(t, IF fStop_[t] THEN "exit" ELSE "enterwait")
  /\ UNCHANGED <<lists, crit_, signaled_, fWait_, flags>>

-----------------------------------------------------------------------------
Internal(t) ==
  \/ Finish(t)
  \/ PushSend(t) \/ WakePeer(t) \/ NotReady(t) \/ ReturnFromSend(t)
  \/ NothingSent(t) \/ SomethingSent(t)
  \/ PopSend(t) \/ Answer(t) \/ WakeSender(t) \/ NoMoreSends(t)
  \/ EnterWait(t) \/ Woken(t) \/ LeaveWait(t)
  \/ TakePosted(t) \/ NothingPosted(t) \/ StopTest(t)

Next ==
  \/ \E t \in Threads : Internal(t)
  \/ \E t \in Threads, r \in Loops : BeginSend(t, r) \/ Post(t, r) \/ Clear(t, r)
  \/ \E r \in Loops : SocketEvent(r) \/ Quit(r) \/ Destroy(r)

Spec == Init /\ [][Next]_vars

(* Threads run, handlers return, and a thread that left its loop is        *)
(* joined and destroyed.  Nothing makes application code call.             *)
FairSpec ==
  /\ Spec
  /\ \A t \in Threads : WF_vars(Internal(t))
  /\ \A r \in Loops : WF_vars(Destroy(r))

-----------------------------------------------------------------------------
Places == {"run", "push", "wakepeer", "test", "receive", "check", "scan",
           "pop", "answer", "wakesender", "enterwait", "wait", "stoptest",
           "exit", "gone"}

(* Every variable holds a value the code could hold. *)
TypeOK ==
  /\ \A t \in Threads : \A i \in 1 .. Len(stack[t]) :
       stack[t][i] \in [at: Places, id: 0 .. MaxSends,
                        peer: Threads \union {None}, waited: BOOLEAN]
  /\ \A r \in Loops : \A i \in 1 .. Len(sendlist_[r]) :
       sendlist_[r][i] \in [id: SendIds, from: Threads]
  /\ has_sends_ \in [Loops -> BOOLEAN]
  /\ msgq_ \in [Loops -> 0 .. MaxPosts]
  /\ crit_ \in [Loops -> Loops \union {None}]
  /\ signaled_ \in [Threads -> BOOLEAN]
  /\ fWait_ \in [Threads -> BOOLEAN]
  /\ fStop_ \in [Loops -> BOOLEAN]
  /\ ready \in [SendIds -> BOOLEAN]
  /\ served \subseteq SendIds /\ cleared \subseteq SendIds

Asleep(t) == At(t, "wait") /\ fWait_[t] /\ ~signaled_[t]

(* No thread sleeps over something to do: a sender whose reply is ready, a *)
(* thread that was sent to, and a reader that was posted to, is signalled  *)
(* or about to be, although nested waits of one thread share one pipe and  *)
(* one fWait_ and consume each other's wake-ups (thread.cpp:432-441).      *)
NoLostWakeup ==
  \A t \in Threads : Asleep(t) =>
    /\ Top(t).id # 0 /\ ready[Top(t).id]
         => \E r \in Loops : At(r, "wakesender") /\ Top(r).peer = t
    /\ t \in Loops /\ sendlist_[t] # <<>>
         => \E s \in Threads : At(s, "wakepeer") /\ Top(s).peer = t
    /\ t \in Loops /\ Top(t).id = 0 => msgq_[t] = 0

(* Send is synchronous: when the flag its caller waits for is up, the      *)
(* handler has run, and run to its end, or the send was cleared.           *)
ReadyMeansServed ==
  \A i \in SendIds : ready[i] => i \in served \union cleared

(* A list that still holds a send is one its thread will look at: the flag *)
(* ReceiveSends tests without the lock never hides a pushed send.          *)
SendsAreFlagged ==
  \A r \in Loops : sendlist_[r] # <<>> => has_sends_[r]

InSend == {"push", "wakepeer", "test", "receive", "enterwait", "wait"}

Sending(i) ==
  \E t \in Threads : \E k \in 1 .. Len(stack[t]) :
     stack[t][k].id = i /\ stack[t][k].at \in InSend
       /\ stack[t][k].peer # None

(* Every Send returns, also when threads send to each other in a circle,   *)
(* when handlers send again, and when the receiver is stopped under it.    *)
EverySendReturns == \A i \in SendIds : Sending(i) ~> ~Sending(i)

(* thread.cpp:454-456: "thread sending exits: We don't allow this, since   *)
(* thread can exit only via Join, so Send must complete": whoever is woken *)
(* for an answer still has the socket server that is woken.                *)
SenderOutlivesAnswer ==
  \A r \in Loops :
    At(r, "wakesender") /\ Top(r).peer \in Outsiders => stack[Top(r).peer] # <<>>
=============================================================================
