---------------------------- MODULE MessageQueue ----------------------------
(***************************************************************************)
(* One vzes::MessageQueue (eventservice/event/messagequeue.cpp), the       *)
(* thread that reads it with Get and Peek, and the threads that post to    *)
(* it, clear handlers from it and stop it.                                 *)
(*                                                                         *)
(* Locking is that of the code.  Post and PostDelayed read fStop_ without  *)
(* the lock, then push and wake the reader inside crit_; Get scans inside  *)
(* crit_ but tests fStop_ and sleeps outside it; Quit takes no lock.  The  *)
(* reader sleeps in NetworkService::Wait, which a pipe signal (signaled_)  *)
(* or a timeout ends.  ReceiveSends, which Get calls first, is module      *)
(* ThreadSend's subject; MQID_DISPOSE messages are never posted.           *)
(*                                                                         *)
(* A list that is only pushed at the back, popped at the front and         *)
(* filtered is a set whose elements carry their position.                  *)
(***************************************************************************)
EXTENDS TimeUtils, FiniteSets

CONSTANTS
  Posters,     \* threads other than the reader
  Reader,      \* the thread the queue belongs to
  Handlers,    \* message handlers, the targets of messages
  Delays,      \* the cmsDelay values PostDelayed is called with
  Waits,       \* the finite cmsWait values Get and Peek are called with
  Forever,     \* kForever
  None,        \* no message, no thread
  ClockStart,  \* what Time() returns at first
  MaxNow,      \* bound on elapsed time
  MaxPosts,    \* bound on messages pushed
  MaxStops     \* bound on Quit calls

ASSUME MessageQueueAssumption ==
  /\ Reader \notin Posters
  /\ None \notin Posters \union {Reader}
  /\ Delays \subseteq Nat /\ Waits \subseteq Nat
  /\ Forever \notin Nat
  /\ ClockStart \in TimeValue
  /\ MaxNow \in Nat /\ MaxPosts \in Nat /\ MaxStops \in Nat
  /\ None \notin [id: Nat, handler: Handlers, due: Nat, delayed: BOOLEAN]

VARIABLES
  fStop_, msgPeek_, msgq_, dmsgq_, dmsgq_next_num_, crit_, signaled_,
  now,      \* milliseconds since the queue was created
  accepted, \* messages pushed so far, to msgq_ or dmsgq_
  pushes,   \* positions handed out at the back of msgq_
  op,       \* op[t]: the queue operation thread t is inside
  get,      \* the reader's progress through Get, with Get's local variables
  handled,  \* ids of the messages whose OnMessage has run
  stops     \* Quit calls so far

queue == <<msgPeek_, msgq_, dmsgq_, dmsgq_next_num_, accepted, pushes>>
vars == <<queue, fStop_, crit_, signaled_, now, op, get, handled, stops>>

Threads == Posters \union {Reader}

Message == [id: Nat, handler: Handlers, due: Nat, delayed: BOOLEAN]

NotIn == [pc |-> "idle", handler |-> None, due |-> 0]

NotGetting == [pc |-> "idle", keep |-> FALSE, wait |-> Forever, start |-> 0,
               cur |-> 0, next |-> Forever, until |-> Forever, hand |-> None]

TimeAt(t) == Wrap(ClockStart + t)

Front(e) == e \in msgq_ /\ \A f \in msgq_ : e.pos <= f.pos

(* a mutant: the number is left out of the comparison *)
LessByTriggerOnly(d, e) == e.trigger < d.trigger

(* DelayedMessage::operator<; the top of the heap is a largest element *)
Less(d, e) ==
  \/ e.trigger < d.trigger
  \/ e.trigger = d.trigger /\ e.num < d.num

Top(d) == d \in dmsgq_ /\ \A e \in dmsgq_ : ~Less(d, e)

Init ==
  /\ fStop_ = FALSE
  /\ msgPeek_ = None
  /\ msgq_ = {}
  /\ dmsgq_ = {}
  /\ dmsgq_next_num_ = 0
  /\ crit_ = None
  /\ signaled_ = FALSE
  /\ now = 0
  /\ accepted = 0
  /\ pushes = 0
  /\ op = [t \in Threads |-> NotIn]
  /\ get = NotGetting
  /\ handled = {}
  /\ stops = 0

(* The model's clock stops at MaxNow, unless a timed wait still needs it;  *)
(* no timer is set beyond MaxNow and no timed Get starts then.             *)
Tick ==
  /\ \/ now < MaxNow
     \/ get.pc = "wait" /\ get.until # Forever /\ now < get.until
  /\ now' = now + 1
  /\ UNCHANGED <<queue, fStop_, crit_, signaled_, op, get, handled, stops>>

-----------------------------------------------------------------------------
(* Any thread: Post, PostDelayed, Clear, Quit, Restart.  The reader calls  *)
(* them between two Gets, which is when its handlers run.                  *)

Free(t) == op[t].pc = "idle" /\ (t = Reader => get.pc = "idle")

Posting == {t \in Threads : op[t].pc \in {"post", "delay"}}

MayPost == accepted + Cardinality(Posting) < MaxPosts

(* Post and PostDelayed up to the unlocked test of fStop_; a stopped queue *)
(* drops the message.  PostDelayed reads the clock before the test.        *)
BeginPost(t, h) ==
  /\ Free(t)
  /\ MayPost
  /\ ~fStop_
  /\ op' = [op EXCEPT ![t] = [pc |-> "post", handler |-> h, due |-> 0]]
  /\ UNCHANGED <<queue, fStop_, crit_, signaled_, now, get, handled, stops>>

BeginPostDelayed(t, h, d) ==
  /\ Free(t)
  /\ ~fStop_
  /\ MayPost
  /\ now + d <= MaxNow
  /\ op' = [op EXCEPT ![t] = [pc |-> "delay", handler |-> h, due |-> now + d]]
  /\ UNCHANGED <<queue, fStop_, crit_, signaled_, now, get, handled, stops>>

Pushed(t) == [id |-> accepted + 1, handler |-> op[t].handler,
              due |-> op[t].due, delayed |-> op[t].pc = "delay"]

(* takes crit_ and keeps it for Wake *)
Push(t) ==
  /\ op[t].pc = "post"
  /\ crit_ = None
  /\ crit_' = t
  /\ msgq_' = msgq_ \union {[msg |-> Pushed(t), pos |-> pushes + 1]}
  /\ pushes' = pushes + 1
  /\ accepted' = accepted + 1
  /\ op' = [op EXCEPT ![t].pc = "wake"]
  /\ UNCHANGED <<msgPeek_, dmsgq_, dmsgq_next_num_, fStop_, signaled_, now,
                 get, handled, stops>>

(* a mutant: only Post wakes the reader *)
PushDelayedSilently(t) ==
  /\ op[t].pc = "delay"
  /\ crit_ = None
  /\ dmsgq_' = dmsgq_ \union {[msg |-> Pushed(t), trigger |-> TimeAt(op[t].due),
                               num |-> dmsgq_next_num_]}
  /\ dmsgq_next_num_' = dmsgq_next_num_ + 1
  /\ accepted' = accepted + 1
  /\ op' = [op EXCEPT ![t] = NotIn]
  /\ UNCHANGED <<msgPeek_, msgq_, pushes, fStop_, crit_, signaled_, now,
                 get, handled, stops>>

PushDelayed(t) ==
  /\ op[t].pc = "delay"
  /\ crit_ = None
  /\ crit_' = t
  /\ dmsgq_' = dmsgq_ \union {[msg |-> Pushed(t), trigger |-> TimeAt(op[t].due),
                               num |-> dmsgq_next_num_]}
  /\ dmsgq_next_num_' = dmsgq_next_num_ + 1
  /\ accepted' = accepted + 1
  /\ op' = [op EXCEPT ![t].pc = "wake"]
  /\ UNCHANGED <<msgPeek_, msgq_, pushes, fStop_, signaled_, now, get, handled,
                 stops>>

(* ss_->WakeUp() inside the lock, then return *)
Wake(t) ==
  /\ op[t].pc = "wake"
  /\ signaled_' = TRUE
  /\ crit_' = None
  /\ op' = [op EXCEPT ![t] = NotIn]
  /\ UNCHANGED <<queue, fStop_, now, get, handled, stops>>

(* phandler NULL matches every handler: the doomed set is then all of them *)
Clear(t, doomed) ==
  /\ Free(t)
  /\ crit_ = None
  /\ msgPeek_' = IF msgPeek_ # None /\ msgPeek_.handler \in doomed
                   THEN None ELSE msgPeek_
  /\ msgq_' = {e \in msgq_ : e.msg.handler \notin doomed}
  /\ dmsgq_' = {d \in dmsgq_ : d.msg.handler \notin doomed}
  /\ UNCHANGED <<dmsgq_next_num_, accepted, pushes, fStop_, crit_, signaled_,
                 now, op, get, handled, stops>>

Quit(t) ==
  /\ Free(t)
  /\ stops < MaxStops
  /\ fStop_' = TRUE
  /\ stops' = stops + 1
  /\ op' = [op EXCEPT ![t].pc = "wakequit"]
  /\ UNCHANGED <<queue, crit_, signaled_, now, get, handled>>

WakeQuit(t) ==
  /\ op[t].pc = "wakequit"
  /\ signaled_' = TRUE
  /\ op' = [op EXCEPT ![t] = NotIn]
  /\ UNCHANGED <<queue, fStop_, crit_, now, get, handled, stops>>

Restart(t) ==
  /\ Free(t)
  /\ fStop_
  /\ fStop_' = FALSE
  /\ UNCHANGED <<queue, crit_, signaled_, now, op, get, handled, stops>>

-----------------------------------------------------------------------------
(* The reader: Get, Peek and the dispatch of what Get returned.            *)

(* a mutant: fPeekKeep_ is not cleared *)
GetPeekedAgain ==
  /\ Free(Reader)
  /\ msgPeek_ # None
  /\ get' = [NotGetting EXCEPT !.pc = "got", !.hand = msgPeek_]
  /\ UNCHANGED <<queue, fStop_, crit_, signaled_, now, op, handled, stops>>

(* a mutant: fPeekKeep_ is not tested *)
GetPeekedUntested ==
  /\ Free(Reader)
  /\ msgPeek_' = None
  /\ get' = [NotGetting EXCEPT !.pc = "got", !.hand = msgPeek_]
  /\ UNCHANGED <<msgq_, dmsgq_, dmsgq_next_num_, accepted, pushes, fStop_,
                 crit_, signaled_, now, op, handled, stops>>

(* A message set aside by Peek comes first and without the lock; Peek      *)
(* itself returns a copy of it and changes nothing.                        *)
GetPeeked ==
  /\ Free(Reader)
  /\ msgPeek_ # None
  /\ msgPeek_' = None
  /\ get' = [NotGetting EXCEPT !.pc = "got", !.hand = msgPeek_]
  /\ UNCHANGED <<msgq_, dmsgq_, dmsgq_next_num_, accepted, pushes, fStop_,
                 crit_, signaled_, now, op, handled, stops>>

BeginGet(keep, w) ==
  /\ Free(Reader)
  /\ msgPeek_ = None
  /\ w = Forever \/ now < MaxNow
  /\ get' = [NotGetting EXCEPT !.pc = "scan", !.keep = keep, !.wait = w,
                               !.start = now, !.cur = now]
  /\ UNCHANGED <<queue, fStop_, crit_, signaled_, now, op, handled, stops>>

Scan ==
  /\ get.pc = "scan"
  /\ crit_ = None
  /\ crit_' = Reader
  /\ get' = [get EXCEPT !.pc = "due"]
  /\ UNCHANGED <<queue, fStop_, signaled_, now, op, handled, stops>>

NotDue(d) == TimeIsLater(TimeAt(get.cur), d.trigger)

(* one turn of the loop that moves triggered messages to msgq_ *)
MoveDue ==
  /\ get.pc = "due"
  /\ \E d \in dmsgq_ :
       /\ Top(d)
       /\ ~NotDue(d)
       /\ msgq_' = msgq_ \union {[msg |-> d.msg, pos |-> pushes + 1]}
       /\ dmsgq_' = dmsgq_ \ {d}
  /\ pushes' = pushes + 1
  /\ UNCHANGED <<msgPeek_, dmsgq_next_num_, accepted, fStop_, crit_, signaled_,
                 now, op, get, handled, stops>>

AllDueMoved == \A d \in dmsgq_ : Top(d) => NotDue(d)

PopFront ==
  /\ get.pc = "due"
  /\ AllDueMoved
  /\ \E e \in msgq_ :
       /\ Front(e)
       /\ msgq_' = msgq_ \ {e}
       /\ get' = [NotGetting EXCEPT !.pc = "got", !.keep = get.keep,
                                    !.hand = e.msg]
  /\ crit_' = None
  /\ UNCHANGED <<msgPeek_, dmsgq_, dmsgq_next_num_, accepted, pushes, fStop_,
                 signaled_, now, op, handled, stops>>

(* how long the first timer still has to run, if there is one *)
DelayNext ==
  IF \E d \in dmsgq_ : Top(d)
    THEN TimeDiff((CHOOSE d \in dmsgq_ : Top(d)).trigger, TimeAt(get.cur))
    ELSE Forever

FoundEmpty ==
  /\ get.pc = "due"
  /\ AllDueMoved
  /\ msgq_ = {}
  /\ get' = [get EXCEPT !.pc = "drained", !.next = DelayNext]
  /\ crit_' = None
  /\ UNCHANGED <<queue, fStop_, signaled_, now, op, handled, stops>>

(* Get returns false, and Run with it *)
StopSeen ==
  /\ get.pc = "drained"
  /\ fStop_
  /\ get' = NotGetting
  /\ UNCHANGED <<queue, fStop_, crit_, signaled_, now, op, handled, stops>>

(* the shorter of the delay wait and what is left of the asked wait *)
WaitTime ==
  IF get.wait = Forever
    THEN get.next
    ELSE LET left == get.wait - (get.cur - get.start)
             asked == IF left > 0 THEN left ELSE 0
         IN  IF get.next # Forever /\ get.next < asked THEN get.next ELSE asked

(* a mutant: a signal sent before the wait is taken for a stale one *)
BeginWaitByResetting ==
  /\ get.pc = "drained"
  /\ ~fStop_
  /\ signaled_' = FALSE
  /\ get' = [get EXCEPT !.pc = "wait", !.next = Forever,
                        !.until = IF WaitTime = Forever THEN Forever
                                  ELSE now + WaitTime]
  /\ UNCHANGED <<queue, fStop_, crit_, now, op, handled, stops>>

BeginWait ==
  /\ get.pc = "drained"
  /\ ~fStop_
  /\ get' = [get EXCEPT !.pc = "wait", !.next = Forever,
                        !.until = IF WaitTime = Forever THEN Forever
                                  ELSE now + WaitTime]
  /\ UNCHANGED <<queue, fStop_, crit_, signaled_, now, op, handled, stops>>

(* select returns on the pipe, which is read empty, or on the timeout; the *)
(* time asked for may have run out, and Get then returns false             *)
EndWait ==
  /\ get.pc = "wait"
  /\ signaled_ \/ (get.until # Forever /\ now >= get.until)
  /\ signaled_' = FALSE
  /\ get' = IF get.wait # Forever /\ now - get.start >= get.wait
              THEN NotGetting
              ELSE [get EXCEPT !.pc = "scan", !.cur = now, !.until = Forever]
  /\ UNCHANGED <<queue, fStop_, crit_, now, op, handled, stops>>

(* Get returns true: the loop dispatches the message to its handler *)
Dispatch ==
  /\ get.pc = "got"
  /\ ~get.keep
  /\ handled' = handled \union {get.hand.id}
  /\ get' = NotGetting
  /\ UNCHANGED <<queue, fStop_, crit_, signaled_, now, op, stops>>

(* Get returns true to Peek, which sets the message aside *)
KeepPeeked ==
  /\ get.pc = "got"
  /\ get.keep
  /\ msgPeek_' = get.hand
  /\ get' = NotGetting
  /\ UNCHANGED <<msgq_, dmsgq_, dmsgq_next_num_, accepted, pushes, fStop_,
                 crit_, signaled_, now, op, handled, stops>>

-----------------------------------------------------------------------------
CallerStep(t) ==
  \/ \E h \in Handlers : BeginPost(t, h)
  \/ \E h \in Handlers, d \in Delays : BeginPostDelayed(t, h, d)
  \/ Push(t)
  \/ PushDelayed(t)
  \/ Wake(t)
  \/ \E doomed \in {{h} : h \in Handlers} \union {Handlers} : Clear(t, doomed)
  \/ Quit(t)
  \/ WakeQuit(t)
  \/ Restart(t)

ReaderStep ==
  \/ GetPeeked
  \/ \E keep \in BOOLEAN, w \in Waits \union {Forever} : BeginGet(keep, w)
  \/ Scan
  \/ MoveDue
  \/ PopFront
  \/ FoundEmpty
  \/ StopSeen
  \/ BeginWait
  \/ EndWait
  \/ Dispatch
  \/ KeepPeeked

Next ==
  \/ Tick
  \/ \E t \in Threads : CallerStep(t)
  \/ ReaderStep

Spec == Init /\ [][Next]_vars

(* The clock runs, a thread inside an operation finishes it, and the       *)
(* reader keeps calling Get as Thread::ProcessMessages does.               *)
Fairness ==
  /\ WF_vars(Tick)
  /\ \A t \in Threads : WF_vars(Push(t) \/ PushDelayed(t) \/ Wake(t) \/ WakeQuit(t))
  /\ WF_vars(GetPeeked \/ BeginGet(FALSE, Forever))
  /\ WF_vars(Scan \/ MoveDue \/ PopFront \/ FoundEmpty \/ StopSeen)
  /\ WF_vars(BeginWait \/ EndWait \/ Dispatch \/ KeepPeeked)

FairSpec == Spec /\ Fairness

-----------------------------------------------------------------------------
QueueTypeOK ==
  /\ msgPeek_ \in Message \union {None}
  /\ msgq_ \subseteq [msg: Message, pos: Nat]
  /\ dmsgq_ \subseteq [msg: Message, trigger: TimeValue, num: Nat]
  /\ dmsgq_next_num_ \in Nat
  /\ accepted \in Nat
  /\ pushes \in Nat
  /\ handled \subseteq Nat

ThreadTypeOK ==
  /\ fStop_ \in BOOLEAN
  /\ signaled_ \in BOOLEAN
  /\ crit_ \in Threads \union {None}
  /\ now \in Nat
  /\ stops \in Nat
  /\ op \in [Threads -> [pc: {"idle", "post", "delay", "wake", "wakequit"},
                         handler: Handlers \union {None}, due: Nat]]
  /\ \A t \in Threads : op[t].pc \in {"post", "delay"} => op[t].handler \in Handlers

GetTypeOK ==
  /\ get \in [pc: {"idle", "scan", "due", "drained", "wait", "got"},
              keep: BOOLEAN, wait: Nat \union {Forever}, start: Nat, cur: Nat,
              next: Int \union {Forever}, until: Int \union {Forever},
              hand: Message \union {None}]
  /\ get.pc = "got" => get.hand \in Message

(* Every variable holds a value the code could hold; a Get that returns    *)
(* true has a message to return.                                           *)
TypeOK == QueueTypeOK /\ ThreadTypeOK /\ GetTypeOK

(* The reader never sleeps over a ready message: whenever it is in, or on  *)
(* its way into, NetworkService::Wait with msgq_ not empty, the pipe is    *)
(* signalled or the thread that pushed is still about to signal it.        *)
NoLostWakeup ==
  get.pc \in {"drained", "wait"} /\ msgq_ # {}
    => signaled_ \/ \E t \in Threads : op[t].pc = "wake"

(* Timers fire in the order they are due: Get never moves one to msgq_     *)
(* while it leaves behind another that is due earlier, or at the same time *)
(* and posted earlier (messagequeue.h: "sorted by trigger time.  Messages  *)
(* with the same trigger time are processed in num_ (FIFO) order").        *)
TimersFireInOrder ==
  [][\A d \in dmsgq_ \ dmsgq_', e \in dmsgq_ \intersect dmsgq_' :
        (\E q \in msgq_' : q.msg = d.msg)
          => \/ d.msg.due < e.msg.due
             \/ d.msg.due = e.msg.due /\ d.num < e.num]_vars

Pending == {e.msg : e \in msgq_} \union {d.msg : d \in dmsgq_}
             \union {m \in {msgPeek_} : m # None}

M == INSTANCE Mailbox WITH clock <- now, pending <- Pending, held <- get.hand,
                           NoMessage <- None

(* Whatever threads post, clear, stop and peek in between, the queue is a  *)
(* mailbox: nothing is handled twice, invented, or taken before it is due, *)
(* posts without delay are taken in order, and Clear leaves nothing of its *)
(* handler except a message the reader already holds.                      *)
ImplementsMailbox == M!Spec

(* Every message pushed is handled or cleared, or the queue is told to     *)
(* stop; in particular a sleeping reader always wakes up for it.           *)
EveryMessageTaken ==
  \A i \in 1 .. MaxPosts :
    (\E m \in Pending : m.id = i) ~> (fStop_ \/ \A m \in Pending : m.id # i)

(* messagequeue.h: "any pending Sends and *ready* Posts [...] will be      *)
(* delivered before Get (or Peek) returns false" when the queue stops.     *)
StopDeliversReadyPosts ==
  [][get.pc = "drained" /\ get'.pc = "idle" => msgq_ = {}]_vars
=============================================================================
