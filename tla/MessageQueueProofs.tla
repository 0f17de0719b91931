------------------------ MODULE MessageQueueProofs ------------------------
(***************************************************************************)
(* Theorems about MessageQueue for any number of threads, handlers,        *)
(* messages, delays and Quit calls: its types, that no wakeup is lost,     *)
(* that it implements Mailbox, and that its timers fire in order.          *)
(*                                                                         *)
(* For the last two the invariant IInv says which messages the lists hold: *)
(* every message is in one place, those in msgq_ are due, and those posted *)
(* without a delay stand in the order they were accepted, the one that     *)
(* Peek set aside first.  Each step that touches a list is then a step of  *)
(* the mailbox.                                                            *)
(***************************************************************************)
EXTENDS MessageQueue, TLAPS

LEMMA InitType == Init => TypeOK
<1> SUFFICES ASSUME Init PROVE TypeOK
  OBVIOUS
<1>1. QueueTypeOK
  BY DEF Init, QueueTypeOK
<1>2. ThreadTypeOK
  BY DEF Init, ThreadTypeOK, NotIn
<1>3. GetTypeOK
  BY DEF Init, GetTypeOK, NotGetting
<1>4. QED
  BY <1>1, <1>2, <1>3 DEF TypeOK

-----------------------------------------------------------------------------
(* Clock values fit the code's unsigned integers. *)
LEMMA TimeAtType == \A t \in Nat : TimeAt(t) \in TimeValue
  BY TimeModAssumption, MessageQueueAssumption DEF TimeAt, Wrap, TimeValue

LEMMA TimeDiffType ==
  ASSUME NEW a \in TimeValue, NEW b \in TimeValue
  PROVE  TimeDiff(a, b) \in Int
  BY TimeModAssumption DEF TimeDiff, TimeValue

(* The wait Get computes is a number of milliseconds or kForever. *)
LEMMA DelayNextType == TypeOK => DelayNext \in Int \union {Forever}
<1> SUFFICES ASSUME TypeOK, NEW e \in dmsgq_, Top(e)
             PROVE  DelayNext \in Int
  BY DEF DelayNext
<1> DEFINE top == CHOOSE d \in dmsgq_ : Top(d)
<1>1. top \in dmsgq_
  OBVIOUS
<1>2. top.trigger \in TimeValue
  BY <1>1 DEF TypeOK, QueueTypeOK
<1>3. TimeAt(get.cur) \in TimeValue
  BY TimeAtType DEF TypeOK, GetTypeOK
<1>4. TimeDiff(top.trigger, TimeAt(get.cur)) \in Int
  BY <1>2, <1>3, TimeDiffType
<1>5. QED
  BY <1>4 DEF DelayNext

LEMMA WaitTimeType == TypeOK => WaitTime \in Int \union {Forever}
  BY DEF TypeOK, GetTypeOK, WaitTime

LEMMA DeadlineType ==
  TypeOK => (IF WaitTime = Forever THEN Forever ELSE now + WaitTime)
              \in Int \union {Forever}
  BY WaitTimeType DEF TypeOK, ThreadTypeOK

LEMMA PushedType ==
  ASSUME TypeOK, NEW t \in Threads, op[t].pc \in {"post", "delay"}
  PROVE  Pushed(t) \in Message
<1>1. /\ accepted + 1 \in Nat
      /\ op[t].handler \in Handlers
      /\ op[t].due \in Nat
  BY DEF TypeOK, QueueTypeOK, ThreadTypeOK
<1>2. (op[t].pc = "delay") \in BOOLEAN
  OBVIOUS
<1>3. QED
  BY <1>1, <1>2 DEF Pushed, Message

LEMMA QueueTypeStep == TypeOK /\ [Next]_vars => QueueTypeOK'
<1> SUFFICES ASSUME TypeOK, [Next]_vars PROVE QueueTypeOK'
  OBVIOUS
<1>1. QueueTypeOK'
  <2>1. CASE Tick
    BY <2>1
       DEF TypeOK, QueueTypeOK, Tick, queue
  <2>2. ASSUME NEW t \in Threads,
               NEW h \in Handlers,
               BeginPost(t, h)
        PROVE  QueueTypeOK'
    BY <2>2
       DEF TypeOK, QueueTypeOK, BeginPost, queue
  <2>3. ASSUME NEW t \in Threads,
               NEW h \in Handlers, NEW d \in Delays,
               BeginPostDelayed(t, h, d)
        PROVE  QueueTypeOK'
    BY <2>3
       DEF TypeOK, QueueTypeOK, BeginPostDelayed, queue
  <2>4. ASSUME NEW t \in Threads,
               Push(t)
        PROVE  QueueTypeOK'
    BY <2>4, PushedType
       DEF TypeOK, QueueTypeOK, Push, queue
  <2>5. ASSUME NEW t \in Threads,
               PushDelayed(t)
        PROVE  QueueTypeOK'
    BY <2>5, TimeAtType, PushedType
       DEF TypeOK, QueueTypeOK, PushDelayed, queue, ThreadTypeOK
  <2>6. ASSUME NEW t \in Threads,
               Wake(t)
        PROVE  QueueTypeOK'
    BY <2>6
       DEF TypeOK, QueueTypeOK, Wake, queue
  <2>7. ASSUME NEW t \in Threads,
               NEW doomed \in {{h} : h \in Handlers} \union {Handlers},
               Clear(t, doomed)
        PROVE  QueueTypeOK'
    BY <2>7
       DEF TypeOK, QueueTypeOK, Clear, queue
  <2>8. ASSUME NEW t \in Threads,
               Quit(t)
        PROVE  QueueTypeOK'
    BY <2>8
       DEF TypeOK, QueueTypeOK, Quit, queue
  <2>9. ASSUME NEW t \in Threads,
               WakeQuit(t)
        PROVE  QueueTypeOK'
    BY <2>9
       DEF TypeOK, QueueTypeOK, WakeQuit, queue
  <2>10. ASSUME NEW t \in Threads,
               Restart(t)
        PROVE  QueueTypeOK'
    BY <2>10
       DEF TypeOK, QueueTypeOK, Restart, queue
  <2>11. CASE GetPeeked
    BY <2>11
       DEF TypeOK, QueueTypeOK, GetPeeked, queue
  <2>12. ASSUME NEW keep \in BOOLEAN, NEW w \in Waits \union {Forever},
               BeginGet(keep, w)
        PROVE  QueueTypeOK'
    BY <2>12
       DEF TypeOK, QueueTypeOK, BeginGet, queue
  <2>13. CASE Scan
    BY <2>13
       DEF TypeOK, QueueTypeOK, Scan, queue
  <2>14. CASE MoveDue
    BY <2>14
       DEF TypeOK, QueueTypeOK, MoveDue, queue
  <2>15. CASE PopFront
    BY <2>15
       DEF TypeOK, QueueTypeOK, PopFront, queue
  <2>16. CASE FoundEmpty
    BY <2>16
       DEF TypeOK, QueueTypeOK, FoundEmpty, queue
  <2>17. CASE StopSeen
    BY <2>17
       DEF TypeOK, QueueTypeOK, StopSeen, queue
  <2>18. CASE BeginWait
    BY <2>18
       DEF TypeOK, QueueTypeOK, BeginWait, queue
  <2>19. CASE EndWait
    BY <2>19
       DEF TypeOK, QueueTypeOK, EndWait, queue
  <2>20. CASE Dispatch
    BY <2>20
       DEF TypeOK, QueueTypeOK, Dispatch, queue, GetTypeOK, Message
  <2>21. CASE KeepPeeked
    BY <2>21
       DEF TypeOK, QueueTypeOK, KeepPeeked, queue, GetTypeOK
  <2>22. CASE UNCHANGED vars
    BY <2>22 DEF TypeOK, QueueTypeOK, vars, queue
  <2>23. QED
    BY <2>1, <2>2, <2>3, <2>4, <2>5, <2>6, <2>7, <2>8, <2>9, <2>10, <2>11,
       <2>12, <2>13, <2>14, <2>15, <2>16, <2>17, <2>18, <2>19, <2>20,
       <2>21, <2>22 DEF Next, CallerStep, ReaderStep
<1>2. QED
  BY <1>1

LEMMA ThreadTypeStep == TypeOK /\ [Next]_vars => ThreadTypeOK'
<1> SUFFICES ASSUME TypeOK, [Next]_vars PROVE ThreadTypeOK'
  OBVIOUS
<1>1. ThreadTypeOK'
  <2>1. CASE Tick
    BY <2>1
       DEF TypeOK, ThreadTypeOK, Tick, queue
  <2>2. ASSUME NEW t \in Threads,
               NEW h \in Handlers,
               BeginPost(t, h)
        PROVE  ThreadTypeOK'
    BY <2>2
       DEF TypeOK, ThreadTypeOK, BeginPost, queue
  <2>3. ASSUME NEW t \in Threads,
               NEW h \in Handlers, NEW d \in Delays,
               BeginPostDelayed(t, h, d)
        PROVE  ThreadTypeOK'
    BY <2>3, MessageQueueAssumption
       DEF TypeOK, ThreadTypeOK, BeginPostDelayed, queue
  <2>4. ASSUME NEW t \in Threads,
               Push(t)
        PROVE  ThreadTypeOK'
    BY <2>4
       DEF TypeOK, ThreadTypeOK, Push, queue
  <2>5. ASSUME NEW t \in Threads,
               PushDelayed(t)
        PROVE  ThreadTypeOK'
    BY <2>5
       DEF TypeOK, ThreadTypeOK, PushDelayed, queue
  <2>6. ASSUME NEW t \in Threads,
               Wake(t)
        PROVE  ThreadTypeOK'
    BY <2>6
       DEF TypeOK, ThreadTypeOK, Wake, queue, NotIn
  <2>7. ASSUME NEW t \in Threads,
               NEW doomed \in {{h} : h \in Handlers} \union {Handlers},
               Clear(t, doomed)
        PROVE  ThreadTypeOK'
    BY <2>7
       DEF TypeOK, ThreadTypeOK, Clear, queue
  <2>8. ASSUME NEW t \in Threads,
               Quit(t)
        PROVE  ThreadTypeOK'
    BY <2>8
       DEF TypeOK, ThreadTypeOK, Quit, queue
  <2>9. ASSUME NEW t \in Threads,
               WakeQuit(t)
        PROVE  ThreadTypeOK'
    BY <2>9
       DEF TypeOK, ThreadTypeOK, WakeQuit, queue, NotIn
  <2>10. ASSUME NEW t \in Threads,
               Restart(t)
        PROVE  ThreadTypeOK'
    BY <2>10
       DEF TypeOK, ThreadTypeOK, Restart, queue
  <2>11. CASE GetPeeked
    BY <2>11
       DEF TypeOK, ThreadTypeOK, GetPeeked, queue
  <2>12. ASSUME NEW keep \in BOOLEAN, NEW w \in Waits \union {Forever},
               BeginGet(keep, w)
        PROVE  ThreadTypeOK'
    BY <2>12
       DEF TypeOK, ThreadTypeOK, BeginGet, queue
  <2>13. CASE Scan
    BY <2>13
       DEF TypeOK, ThreadTypeOK, Scan, queue, Threads
  <2>14. CASE MoveDue
    BY <2>14
       DEF TypeOK, ThreadTypeOK, MoveDue, queue
  <2>15. CASE PopFront
    BY <2>15
       DEF TypeOK, ThreadTypeOK, PopFront, queue
  <2>16. CASE FoundEmpty
    BY <2>16
       DEF TypeOK, ThreadTypeOK, FoundEmpty, queue
  <2>17. CASE StopSeen
    BY <2>17
       DEF TypeOK, ThreadTypeOK, StopSeen, queue
  <2>18. CASE BeginWait
    BY <2>18
       DEF TypeOK, ThreadTypeOK, BeginWait, queue
  <2>19. CASE EndWait
    BY <2>19
       DEF TypeOK, ThreadTypeOK, EndWait, queue
  <2>20. CASE Dispatch
    BY <2>20
       DEF TypeOK, ThreadTypeOK, Dispatch, queue
  <2>21. CASE KeepPeeked
    BY <2>21
       DEF TypeOK, ThreadTypeOK, KeepPeeked, queue
  <2>22. CASE UNCHANGED vars
    BY <2>22 DEF TypeOK, ThreadTypeOK, vars, queue
  <2>23. QED
    BY <2>1, <2>2, <2>3, <2>4, <2>5, <2>6, <2>7, <2>8, <2>9, <2>10, <2>11,
       <2>12, <2>13, <2>14, <2>15, <2>16, <2>17, <2>18, <2>19, <2>20,
       <2>21, <2>22 DEF Next, CallerStep, ReaderStep
<1>2. QED
  BY <1>1

LEMMA GetTypeStep == TypeOK /\ [Next]_vars => GetTypeOK'
<1> SUFFICES ASSUME TypeOK, [Next]_vars PROVE GetTypeOK'
  OBVIOUS
<1>1. GetTypeOK'
  <2>1. CASE Tick
    BY <2>1
       DEF TypeOK, GetTypeOK, Tick, queue
  <2>2. ASSUME NEW t \in Threads,
               NEW h \in Handlers,
               BeginPost(t, h)
        PROVE  GetTypeOK'
    BY <2>2
       DEF TypeOK, GetTypeOK, BeginPost, queue
  <2>3. ASSUME NEW t \in Threads,
               NEW h \in Handlers, NEW d \in Delays,
               BeginPostDelayed(t, h, d)
        PROVE  GetTypeOK'
    BY <2>3
       DEF TypeOK, GetTypeOK, BeginPostDelayed, queue
  <2>4. ASSUME NEW t \in Threads,
               Push(t)
        PROVE  GetTypeOK'
    BY <2>4
       DEF TypeOK, GetTypeOK, Push, queue
  <2>5. ASSUME NEW t \in Threads,
               PushDelayed(t)
        PROVE  GetTypeOK'
    BY <2>5
       DEF TypeOK, GetTypeOK, PushDelayed, queue
  <2>6. ASSUME NEW t \in Threads,
               Wake(t)
        PROVE  GetTypeOK'
    BY <2>6
       DEF TypeOK, GetTypeOK, Wake, queue
  <2>7. ASSUME NEW t \in Threads,
               NEW doomed \in {{h} : h \in Handlers} \union {Handlers},
               Clear(t, doomed)
        PROVE  GetTypeOK'
    BY <2>7
       DEF TypeOK, GetTypeOK, Clear, queue
  <2>8. ASSUME NEW t \in Threads,
               Quit(t)
        PROVE  GetTypeOK'
    BY <2>8
       DEF TypeOK, GetTypeOK, Quit, queue
  <2>9. ASSUME NEW t \in Threads,
               WakeQuit(t)
        PROVE  GetTypeOK'
    BY <2>9
       DEF TypeOK, GetTypeOK, WakeQuit, queue
  <2>10. ASSUME NEW t \in Threads,
               Restart(t)
        PROVE  GetTypeOK'
    BY <2>10
       DEF TypeOK, GetTypeOK, Restart, queue
  <2>11. CASE GetPeeked
    BY <2>11
       DEF TypeOK, GetTypeOK, GetPeeked, queue, NotGetting, QueueTypeOK
  <2>12. ASSUME NEW keep \in BOOLEAN, NEW w \in Waits \union {Forever},
               BeginGet(keep, w)
        PROVE  GetTypeOK'
    BY <2>12, MessageQueueAssumption
       DEF TypeOK, GetTypeOK, BeginGet, queue, NotGetting, ThreadTypeOK
  <2>13. CASE Scan
    BY <2>13
       DEF TypeOK, GetTypeOK, Scan, queue
  <2>14. CASE MoveDue
    BY <2>14
       DEF TypeOK, GetTypeOK, MoveDue, queue
  <2>15. CASE PopFront
    <3>1. PICK e \in msgq_ :
            get' = [NotGetting EXCEPT !.pc = "got", !.keep = get.keep,
                                      !.hand = e.msg]
      BY <2>15 DEF PopFront
    <3>2. e.msg \in Message
      BY DEF TypeOK, QueueTypeOK
    <3>3. QED
      BY <3>1, <3>2 DEF TypeOK, GetTypeOK, NotGetting
  <2>16. CASE FoundEmpty
    BY <2>16, DelayNextType
       DEF TypeOK, GetTypeOK, FoundEmpty, queue
  <2>17. CASE StopSeen
    BY <2>17
       DEF TypeOK, GetTypeOK, StopSeen, queue, NotGetting
  <2>18. CASE BeginWait
    BY <2>18, DeadlineType
       DEF TypeOK, GetTypeOK, BeginWait, queue, ThreadTypeOK
  <2>19. CASE EndWait
    BY <2>19
       DEF TypeOK, GetTypeOK, EndWait, queue, NotGetting, ThreadTypeOK
  <2>20. CASE Dispatch
    BY <2>20
       DEF TypeOK, GetTypeOK, Dispatch, queue, NotGetting
  <2>21. CASE KeepPeeked
    BY <2>21
       DEF TypeOK, GetTypeOK, KeepPeeked, queue, NotGetting
  <2>22. CASE UNCHANGED vars
    BY <2>22 DEF TypeOK, GetTypeOK, vars, queue
  <2>23. QED
    BY <2>1, <2>2, <2>3, <2>4, <2>5, <2>6, <2>7, <2>8, <2>9, <2>10, <2>11,
       <2>12, <2>13, <2>14, <2>15, <2>16, <2>17, <2>18, <2>19, <2>20,
       <2>21, <2>22 DEF Next, CallerStep, ReaderStep
<1>2. QED
  BY <1>1

(* What Get and Post take out and put in has the shape it must have,       *)
(* whatever the threads do.                                                *)
THEOREM TypeCorrect == Spec => []TypeOK
<1>1. TypeOK /\ [Next]_vars => TypeOK'
  BY QueueTypeStep, ThreadTypeStep, GetTypeStep DEF TypeOK
<1>2. QED
  BY InitType, <1>1, PTL DEF Spec

(* No lost wake-up: NoLostWakeup is inductive.  Only a push can make       *)
(* msgq_ non-empty under a sleeping reader, and it leaves its thread about *)
(* to signal; the signal stays up until the reader's own wait consumes it. *)
LEMMA NoLostWakeupStep ==
  TypeOK /\ NoLostWakeup /\ [Next]_vars => NoLostWakeup'
<1> SUFFICES ASSUME TypeOK, NoLostWakeup, [Next]_vars PROVE NoLostWakeup'
  OBVIOUS
<1>1. NoLostWakeup'
  <2>1. CASE Tick
    BY <2>1
       DEF NoLostWakeup, TypeOK, ThreadTypeOK, Tick, queue
  <2>2. ASSUME NEW t \in Threads,
               NEW h \in Handlers,
               BeginPost(t, h)
        PROVE  NoLostWakeup'
    BY <2>2
       DEF NoLostWakeup, TypeOK, ThreadTypeOK, BeginPost, queue, Free
  <2>3. ASSUME NEW t \in Threads,
               NEW h \in Handlers, NEW d \in Delays,
               BeginPostDelayed(t, h, d)
        PROVE  NoLostWakeup'
    BY <2>3
       DEF NoLostWakeup, TypeOK, ThreadTypeOK, BeginPostDelayed, queue,
           Free
  <2>4. ASSUME NEW t \in Threads,
               Push(t)
        PROVE  NoLostWakeup'
    BY <2>4
       DEF NoLostWakeup, TypeOK, ThreadTypeOK, Push, queue
  <2>5. ASSUME NEW t \in Threads,
               PushDelayed(t)
        PROVE  NoLostWakeup'
    BY <2>5
       DEF NoLostWakeup, TypeOK, ThreadTypeOK, PushDelayed, queue
  <2>6. ASSUME NEW t \in Threads,
               Wake(t)
        PROVE  NoLostWakeup'
    BY <2>6
       DEF NoLostWakeup, TypeOK, ThreadTypeOK, Wake, queue
  <2>7. ASSUME NEW t \in Threads,
               NEW doomed \in {{h} : h \in Handlers} \union {Handlers},
               Clear(t, doomed)
        PROVE  NoLostWakeup'
    BY <2>7
       DEF NoLostWakeup, TypeOK, ThreadTypeOK, Clear, queue
  <2>8. ASSUME NEW t \in Threads,
               Quit(t)
        PROVE  NoLostWakeup'
    BY <2>8
       DEF NoLostWakeup, TypeOK, ThreadTypeOK, Quit, queue, Free
  <2>9. ASSUME NEW t \in Threads,
               WakeQuit(t)
        PROVE  NoLostWakeup'
    BY <2>9
       DEF NoLostWakeup, TypeOK, ThreadTypeOK, WakeQuit, queue, NotIn
  <2>10. ASSUME NEW t \in Threads,
               Restart(t)
        PROVE  NoLostWakeup'
    BY <2>10
       DEF NoLostWakeup, TypeOK, ThreadTypeOK, Restart, queue
  <2>11. CASE GetPeeked
    BY <2>11
       DEF NoLostWakeup, TypeOK, ThreadTypeOK, GetPeeked, queue, NotGetting
  <2>12. ASSUME NEW keep \in BOOLEAN, NEW w \in Waits \union {Forever},
               BeginGet(keep, w)
        PROVE  NoLostWakeup'
    BY <2>12
       DEF NoLostWakeup, TypeOK, ThreadTypeOK, BeginGet, queue, NotGetting
  <2>13. CASE Scan
    BY <2>13
       DEF NoLostWakeup, TypeOK, ThreadTypeOK, Scan, queue, GetTypeOK
  <2>14. CASE MoveDue
    BY <2>14
       DEF NoLostWakeup, TypeOK, ThreadTypeOK, MoveDue, queue
  <2>15. CASE PopFront
    BY <2>15
       DEF NoLostWakeup, TypeOK, ThreadTypeOK, PopFront, queue, NotGetting
  <2>16. CASE FoundEmpty
    BY <2>16
       DEF NoLostWakeup, TypeOK, ThreadTypeOK, FoundEmpty, queue
  <2>17. CASE StopSeen
    BY <2>17
       DEF NoLostWakeup, TypeOK, ThreadTypeOK, StopSeen, queue, NotGetting
  <2>18. CASE BeginWait
    BY <2>18
       DEF NoLostWakeup, TypeOK, ThreadTypeOK, BeginWait, queue
  <2>19. CASE EndWait
    BY <2>19
       DEF NoLostWakeup, TypeOK, ThreadTypeOK, EndWait, queue, NotGetting
  <2>20. CASE Dispatch
    BY <2>20
       DEF NoLostWakeup, TypeOK, ThreadTypeOK, Dispatch, queue, NotGetting
  <2>21. CASE KeepPeeked
    BY <2>21
       DEF NoLostWakeup, TypeOK, ThreadTypeOK, KeepPeeked, queue,
           NotGetting
  <2>22. CASE UNCHANGED vars
    BY <2>22 DEF NoLostWakeup, TypeOK, ThreadTypeOK, vars, queue
  <2>23. QED
    BY <2>1, <2>2, <2>3, <2>4, <2>5, <2>6, <2>7, <2>8, <2>9, <2>10, <2>11,
       <2>12, <2>13, <2>14, <2>15, <2>16, <2>17, <2>18, <2>19, <2>20,
       <2>21, <2>22 DEF Next, CallerStep, ReaderStep
<1>2. QED
  BY <1>1

THEOREM NeverSleepsOverAMessage == Spec => []NoLostWakeup
<1>1. Init => NoLostWakeup
  BY DEF Init, NoLostWakeup, NotGetting
<1>2. QED
  BY <1>1, TypeCorrect, NoLostWakeupStep, PTL DEF Spec
-----------------------------------------------------------------------------

(* No timer is set as far ahead as half of the clock's range, where        *)
(* TimeIsLater would take it for one that is due (messagequeue.cpp:218).   *)
ClockFits == MaxNow < Half

(* The clock does not wrap: the order of timers compares raw trigger times *)
(* (messagequeue.h:195).                                                   *)
ClockStraight == ClockStart + MaxNow < TimeMod

-----------------------------------------------------------------------------
(* Clock arithmetic: a time less than half of the range ahead is later,    *)
(* also across the wrap.                                                   *)

LEMMA RemainderOf ==
  ASSUME NEW m \in Nat, m > 0, NEW q \in Int, NEW r \in 0 .. m - 1
  PROVE  (m * q + r) % m = r
  OBVIOUS

LEMMA Division ==
  ASSUME NEW m \in Nat, m > 0, NEW x \in Nat
  PROVE  \E q \in Int : x = m * q + (x % m)
<1>1. x \div m \in Int /\ x = m * (x \div m) + (x % m)
  OBVIOUS
<1>2. QED
  BY <1>1

LEMMA RemainderOfSum ==
  ASSUME NEW m \in Nat, m > 0, NEW x \in Nat, NEW d \in 0 .. m - 1
  PROVE  /\ x % m \in 0 .. m - 1
         /\ (x + d) % m = IF (x % m) + d < m THEN (x % m) + d ELSE (x % m) + d - m
<1>1. PICK q \in Int : x = m * q + (x % m)
  BY Division
<1> DEFINE w == x % m
           p == m * q
<1>2. w \in 0 .. m - 1 /\ p \in Int /\ x = p + w
  BY <1>1
<1>3. m * (q + 1) = p + m
  OBVIOUS
<1>4. CASE w + d < m
  <2>1. x + d = m * q + (w + d) /\ w + d \in 0 .. m - 1
    BY <1>2, <1>4
  <2>2. QED
    BY <1>2, <1>4, <2>1, RemainderOf
<1>5. CASE w + d >= m
  <2>1. w + d - m \in 0 .. m - 1 /\ x + d = (p + m) + (w + d - m)
    <3> HIDE DEF w, p
    <3>1. QED
      BY <1>2, <1>5
  <2>2. x + d = m * (q + 1) + (w + d - m)
    BY <1>3, <2>1
  <2>3. (m * (q + 1) + (w + d - m)) % m = w + d - m
    <3> HIDE DEF w, p
    <3>1. q + 1 \in Int
      OBVIOUS
    <3>2. QED
      BY <2>1, <3>1, RemainderOf
  <2>4. (x + d) % m = w + d - m
    BY <2>2, <2>3
  <2> DEFINE e == (x + d) % m
  <2>5. e = IF w + d < m THEN w + d ELSE w + d - m
    <3>1. e = w + d - m
      BY <2>4
    <3> HIDE DEF e, w
    <3>2. QED
      BY <1>2, <1>5, <3>1
  <2>6. QED
    BY <2>5
<1>6. QED
  BY <1>2, <1>4, <1>5

LEMMA WrapAdd ==
  ASSUME NEW x \in Nat, NEW d \in Nat, d < TimeMod
  PROVE  Wrap(x + d) = IF Wrap(x) + d < TimeMod THEN Wrap(x) + d
                                                ELSE Wrap(x) + d - TimeMod
<1>1. d \in 0 .. TimeMod - 1 /\ TimeMod > 0 /\ TimeMod \in Nat
  BY TimeModAssumption
<1>2. QED
  BY <1>1, RemainderOfSum DEF Wrap


LEMMA NotDueAhead ==
  ASSUME ClockFits, NEW cur \in Nat, NEW due \in Nat, cur < due, due <= MaxNow
  PROVE  TimeIsLater(TimeAt(cur), TimeAt(due))
<1> DEFINE a == TimeAt(cur)
           b == TimeAt(due)
           d == due - cur
           c == Wrap(b + Half)
<1>1. /\ TimeMod \in Nat /\ TimeMod > 1 /\ ClockStart \in Nat /\ MaxNow \in Nat
      /\ Half \in Nat /\ Half < TimeMod /\ 2 * Half <= TimeMod
  BY TimeModAssumption, MessageQueueAssumption DEF Half, TimeValue
<1>2. d \in Nat /\ d > 0 /\ d < Half /\ d < TimeMod
  BY <1>1 DEF ClockFits
<1>3. a \in 0 .. TimeMod - 1 /\ b \in 0 .. TimeMod - 1
  BY <1>1 DEF TimeAt, Wrap
<1>4. b = IF a + d < TimeMod THEN a + d ELSE a + d - TimeMod
  <2>1. ClockStart + due = (ClockStart + cur) + d
    BY <1>1
  <2> QED
    BY <1>1, <1>2, <2>1, WrapAdd DEF TimeAt
<1>5. c = IF b + Half < TimeMod THEN b + Half ELSE b + Half - TimeMod
  <2>1. Wrap(b) = b
    BY <1>1, <1>3 DEF Wrap
  <2> QED
    BY <1>1, <1>3, <2>1, WrapAdd
<1>6. ~TimeIsBetween(b, a, c)
  <2> HIDE DEF a, b, c, d
  <2> QED
    BY <1>1, <1>2, <1>3, <1>4, <1>5 DEF TimeIsBetween
<1> QED
  BY <1>6 DEF TimeIsLater
-----------------------------------------------------------------------------
(* The invariant. *)

(* the message that is out of the lists: set aside, or in the reader's hand *)
Out == {m \in {msgPeek_, get.hand} : m # None}

(* a hand is empty but between Get and what follows it, and the reader     *)
(* looks into the lists only when nothing is set aside                     *)
HandOK ==
  /\ get.pc # "got" => get.hand = None
  /\ get.pc # "idle" => msgPeek_ = None
  /\ get.cur <= now
  /\ \A t \in Threads : /\ op[t].pc = "post" => op[t].due = 0
                        /\ op[t].pc = "delay" => op[t].due <= MaxNow
(* what is in a list has been accepted, and what is in msgq_ is due *)
ListsOK ==
  /\ \A e \in msgq_ : e.pos <= pushes /\ e.msg.id <= accepted /\ e.msg.due <= now
  /\ \A d \in dmsgq_ :
       /\ d.msg.id <= accepted /\ d.num < dmsgq_next_num_
       /\ d.msg.delayed /\ d.msg.due <= MaxNow /\ d.trigger = TimeAt(d.msg.due)
  /\ \A m \in Out : m.id <= accepted /\ m.due <= now

(* a message is in one place *)
Distinct ==
  /\ \A e, f \in msgq_ : e.msg.id = f.msg.id \/ e.pos = f.pos => e = f
  /\ \A c, d \in dmsgq_ : c.msg.id = d.msg.id \/ c.num = d.num => c = d
  /\ \A e \in msgq_, d \in dmsgq_ : e.msg.id # d.msg.id
  /\ \A m \in Out : /\ \A e \in msgq_ : e.msg.id # m.id
                    /\ \A d \in dmsgq_ : d.msg.id # m.id

(* messages posted without a delay are in the order of their acceptance *)
InOrder ==
  /\ \A e, f \in msgq_ :
       e.pos < f.pos /\ ~e.msg.delayed /\ ~f.msg.delayed => e.msg.id < f.msg.id
  /\ \A m \in Out, e \in msgq_ : ~m.delayed /\ ~e.msg.delayed => m.id < e.msg.id

IInv == HandOK /\ ListsOK /\ Distinct /\ InOrder

LEMMA InitIInv == Init => IInv
  BY MessageQueueAssumption
     DEF Init, IInv, HandOK, ListsOK, Distinct, InOrder, Out, NotIn, NotGetting

LEMMA HandStep == TypeOK /\ HandOK /\ ListsOK /\ [Next]_vars => HandOK'
<1> SUFFICES ASSUME TypeOK, HandOK, ListsOK, [Next]_vars PROVE HandOK'
  OBVIOUS
<1> USE DEF HandOK, TypeOK, ThreadTypeOK, GetTypeOK, queue
<1>1. CASE Tick
  BY <1>1 DEF Tick
<1>2. ASSUME NEW t \in Threads, NEW h \in Handlers, BeginPost(t, h)
      PROVE  HandOK'
  BY <1>2 DEF BeginPost, Free
<1>3. ASSUME NEW t \in Threads, NEW h \in Handlers, NEW d \in Delays,
             BeginPostDelayed(t, h, d)
      PROVE  HandOK'
  BY <1>3, MessageQueueAssumption DEF BeginPostDelayed, Free
<1>4. ASSUME NEW t \in Threads, Push(t)
      PROVE  HandOK'
  BY <1>4 DEF Push
<1>5. ASSUME NEW t \in Threads, PushDelayed(t)
      PROVE  HandOK'
  BY <1>5 DEF PushDelayed
<1>6. ASSUME NEW t \in Threads, Wake(t)
      PROVE  HandOK'
  BY <1>6 DEF Wake, NotIn
<1>7. ASSUME NEW t \in Threads,
             NEW doomed \in {{h} : h \in Handlers} \union {Handlers}, Clear(t, doomed)
      PROVE  HandOK'
  BY <1>7 DEF Clear
<1>8. ASSUME NEW t \in Threads, Quit(t)
      PROVE  HandOK'
  BY <1>8 DEF Quit
<1>9. ASSUME NEW t \in Threads, WakeQuit(t)
      PROVE  HandOK'
  BY <1>9 DEF WakeQuit, NotIn
<1>10. ASSUME NEW t \in Threads, Restart(t)
      PROVE  HandOK'
  BY <1>10 DEF Restart
<1>11. CASE GetPeeked
  BY <1>11 DEF GetPeeked, NotGetting
<1>12. ASSUME NEW keep \in BOOLEAN, NEW w \in Waits \union {Forever}, BeginGet(keep, w)
      PROVE  HandOK'
  BY <1>12 DEF BeginGet, Free, NotGetting
<1>13. CASE Scan
  BY <1>13 DEF Scan
<1>14. CASE MoveDue
  BY <1>14 DEF MoveDue
<1>15. CASE PopFront
  BY <1>15 DEF PopFront, NotGetting
<1>16. CASE FoundEmpty
  BY <1>16 DEF FoundEmpty
<1>17. CASE StopSeen
  BY <1>17 DEF StopSeen, NotGetting
<1>18. CASE BeginWait
  BY <1>18 DEF BeginWait
<1>19. CASE EndWait
  BY <1>19 DEF EndWait, NotGetting
<1>20. CASE Dispatch
  BY <1>20 DEF Dispatch, NotGetting
<1>21. CASE KeepPeeked
  BY <1>21 DEF KeepPeeked, NotGetting
<1>22. CASE UNCHANGED vars
  BY <1>22 DEF vars
<1>23. QED
  BY <1>1, <1>2, <1>3, <1>4, <1>5, <1>6, <1>7, <1>8, <1>9, <1>10, <1>11,
     <1>12, <1>13, <1>14, <1>15, <1>16, <1>17, <1>18, <1>19, <1>20, <1>21,
     <1>22 DEF Next, CallerStep, ReaderStep

(* Any step but these leaves the messages where they are. *)
Quiet ==
  /\ UNCHANGED <<queue, handled>>
  /\ get'.hand = get.hand
  /\ now' \in {now, now + 1}

LEMMA QuietSteps ==
  ASSUME TypeOK, HandOK, [Next]_vars
  PROVE  \/ \E t \in Threads : Push(t) \/ PushDelayed(t)
         \/ \E t \in Threads, doomed \in SUBSET Handlers : Clear(t, doomed)
         \/ GetPeeked \/ MoveDue \/ PopFront \/ Dispatch \/ KeepPeeked
         \/ Quiet
<1> USE DEF Quiet, queue
<1>1. CASE Tick \/ UNCHANGED vars
  BY <1>1 DEF Tick, vars
<1>2. ASSUME NEW t \in Threads, CallerStep(t)
      PROVE  \/ Push(t) \/ PushDelayed(t)
             \/ \E doomed \in SUBSET Handlers : Clear(t, doomed)
             \/ Quiet
  <2>1. {{h} : h \in Handlers} \union {Handlers} \subseteq SUBSET Handlers
    OBVIOUS
  <2>2. QED
    BY <1>2, <2>1 DEF CallerStep, BeginPost, BeginPostDelayed, Wake, Quit, WakeQuit, Restart
<1>3. CASE ReaderStep
  <2>1. ASSUME NEW keep \in BOOLEAN, NEW w \in Waits \union {Forever}, BeginGet(keep, w)
        PROVE  Quiet
    BY <2>1 DEF BeginGet, Free, NotGetting, HandOK
  <2>2. Scan \/ FoundEmpty \/ BeginWait => Quiet
    BY DEF Scan, FoundEmpty, BeginWait, TypeOK, GetTypeOK
  <2>3. StopSeen => Quiet
    BY DEF StopSeen, NotGetting, HandOK, TypeOK, ThreadTypeOK
  <2>4. CASE EndWait
    <3>1. get.hand = None /\ (get' = NotGetting \/
            get' = [get EXCEPT !.pc = "scan", !.cur = now, !.until = Forever])
      BY <2>4 DEF EndWait, HandOK
    <3>2. NotGetting.hand = None
      BY DEF NotGetting
    <3>3. [get EXCEPT !.pc = "scan", !.cur = now, !.until = Forever].hand = get.hand
      BY DEF TypeOK, GetTypeOK
    <3>4. QED
      BY <2>4, <3>1, <3>2, <3>3 DEF EndWait, TypeOK, ThreadTypeOK
  <2>5. QED
    BY <1>3, <2>1, <2>2, <2>3, <2>4 DEF ReaderStep
<1>4. QED
  BY <1>1, <1>2, <1>3 DEF Next

-----------------------------------------------------------------------------
(* What a step does to the messages: nothing that the lists would notice,  *)
(* or one message pushed, moved, taken, put back or a handler's cleared.   *)

LEMMA ListsUnchanged ==
  ASSUME IInv, TypeOK, TypeOK', now' \in {now, now + 1}, Out' \subseteq Out,
         UNCHANGED <<msgq_, dmsgq_, dmsgq_next_num_, accepted, pushes>>
  PROVE  ListsOK' /\ Distinct' /\ InOrder'
<1>1. \A m \in Out : m \in Message
  BY DEF Out, TypeOK, QueueTypeOK, GetTypeOK
<1>2. ListsOK'
  BY <1>1 DEF IInv, ListsOK, TypeOK, QueueTypeOK, ThreadTypeOK, Message
<1>3. Distinct' /\ InOrder'
  BY DEF IInv, Distinct, InOrder
<1>4. QED
  BY <1>2, <1>3

LEMMA OutType ==
  TypeOK => \A m \in Out : m \in Message
  BY DEF Out, TypeOK, QueueTypeOK, GetTypeOK

LEMMA PushLists ==
  ASSUME IInv, TypeOK, NEW t \in Threads, Push(t)
  PROVE  ListsOK' /\ Distinct' /\ InOrder'
<1> DEFINE new == [msg |-> Pushed(t), pos |-> pushes + 1]
<1>1. /\ new.msg.id = accepted + 1 /\ new.msg.due = 0 /\ new.pos = pushes + 1
      /\ op[t].pc = "post"
  BY DEF Push, Pushed, IInv, HandOK
<1>2. /\ msgq_' = msgq_ \union {new} /\ pushes' = pushes + 1 /\ accepted' = accepted + 1
      /\ UNCHANGED <<dmsgq_, dmsgq_next_num_, now, msgPeek_, get>> /\ Out' = Out
  BY DEF Push, Out
<1>3. /\ \A e \in msgq_ : e.pos \in Nat /\ e.msg \in Message
      /\ \A d \in dmsgq_ : d.msg \in Message
      /\ accepted \in Nat /\ pushes \in Nat /\ now \in Nat
      /\ \A m \in Out : m \in Message
  BY OutType DEF TypeOK, QueueTypeOK, ThreadTypeOK
<1> HIDE DEF new
<1>4. ListsOK'
  BY <1>1, <1>2, <1>3 DEF IInv, ListsOK, Message
<1>5. Distinct'
  BY <1>1, <1>2, <1>3 DEF IInv, ListsOK, Distinct, Message
<1>6. InOrder'
  BY <1>1, <1>2, <1>3 DEF IInv, ListsOK, InOrder, Message
<1>7. QED
  BY <1>4, <1>5, <1>6

LEMMA PushDelayedLists ==
  ASSUME IInv, TypeOK, NEW t \in Threads, PushDelayed(t)
  PROVE  ListsOK' /\ Distinct' /\ InOrder'
<1> DEFINE new == [msg |-> Pushed(t), trigger |-> TimeAt(op[t].due),
                   num |-> dmsgq_next_num_]
<1>1. /\ new.msg.id = accepted + 1 /\ new.msg.due = op[t].due /\ new.num = dmsgq_next_num_
      /\ new.trigger = TimeAt(op[t].due) /\ new.msg.delayed /\ op[t].due <= MaxNow
  BY DEF PushDelayed, Pushed, IInv, HandOK
<1>2. /\ dmsgq_' = dmsgq_ \union {new} /\ dmsgq_next_num_' = dmsgq_next_num_ + 1
      /\ accepted' = accepted + 1
      /\ UNCHANGED <<msgq_, pushes, now, msgPeek_, get>> /\ Out' = Out
  BY DEF PushDelayed, Out
<1>3. /\ \A e \in msgq_ : e.pos \in Nat /\ e.msg \in Message
      /\ \A d \in dmsgq_ : d.msg \in Message /\ d.num \in Nat
      /\ accepted \in Nat /\ pushes \in Nat /\ now \in Nat /\ dmsgq_next_num_ \in Nat
      /\ \A m \in Out : m \in Message
  BY OutType DEF TypeOK, QueueTypeOK, ThreadTypeOK
<1> HIDE DEF new
<1>4. ListsOK'
  BY <1>1, <1>2, <1>3 DEF IInv, ListsOK, Message
<1>5. Distinct'
  BY <1>1, <1>2, <1>3 DEF IInv, ListsOK, Distinct, Message
<1>6. InOrder'
  BY <1>2 DEF IInv, InOrder
<1>7. QED
  BY <1>4, <1>5, <1>6

LEMMA ClearLists ==
  ASSUME IInv, TypeOK, NEW t \in Threads, NEW doomed, Clear(t, doomed)
  PROVE  ListsOK' /\ Distinct' /\ InOrder'
<1>1. /\ msgq_' \subseteq msgq_ /\ dmsgq_' \subseteq dmsgq_ /\ Out' \subseteq Out
      /\ UNCHANGED <<dmsgq_next_num_, accepted, pushes, now>>
  BY DEF Clear, Out
<1>2. ListsOK' /\ Distinct' /\ InOrder'
  BY <1>1 DEF IInv, ListsOK, Distinct, InOrder
<1>3. QED
  BY <1>2

LEMMA MoveDueEffect ==
  ASSUME IInv, TypeOK, ClockFits, MoveDue
  PROVE  \E d \in dmsgq_ :
           /\ Top(d) /\ d.msg.due <= now
           /\ msgq_' = msgq_ \union {[msg |-> d.msg, pos |-> pushes + 1]}
           /\ dmsgq_' = dmsgq_ \ {d}
<1>1. PICK d \in dmsgq_ : /\ Top(d) /\ ~NotDue(d)
                          /\ msgq_' = msgq_ \union {[msg |-> d.msg, pos |-> pushes + 1]}
                          /\ dmsgq_' = dmsgq_ \ {d}
  BY DEF MoveDue
<1>2. /\ d.msg.due \in Nat /\ get.cur \in Nat /\ now \in Nat /\ get.cur <= now
      /\ d.msg.due <= MaxNow /\ d.trigger = TimeAt(d.msg.due)
  BY DEF TypeOK, QueueTypeOK, ThreadTypeOK, GetTypeOK, Message, IInv, ListsOK, HandOK
<1>3. ~(get.cur < d.msg.due)
  BY <1>1, <1>2, NotDueAhead DEF NotDue
<1>4. QED
  BY <1>1, <1>2, <1>3

LEMMA MoveDueLists ==
  ASSUME IInv, TypeOK, ClockFits, MoveDue
  PROVE  ListsOK' /\ Distinct' /\ InOrder'
<1>1. PICK d \in dmsgq_ :
           /\ d.msg.due <= now
           /\ msgq_' = msgq_ \union {[msg |-> d.msg, pos |-> pushes + 1]}
           /\ dmsgq_' = dmsgq_ \ {d}
  BY MoveDueEffect
<1> DEFINE new == [msg |-> d.msg, pos |-> pushes + 1]
<1>2. new.msg = d.msg /\ new.pos = pushes + 1 /\ d.msg.delayed /\ d.msg.id <= accepted
  BY DEF IInv, ListsOK
<1>3. /\ msgq_' = msgq_ \union {new} /\ pushes' = pushes + 1
      /\ UNCHANGED <<dmsgq_next_num_, accepted, now, msgPeek_, get>> /\ Out' = Out
  BY <1>1 DEF MoveDue, Out
<1>4. /\ \A e \in msgq_ : e.pos \in Nat /\ e.msg \in Message
      /\ \A c \in dmsgq_ : c.msg \in Message /\ c.num \in Nat
      /\ accepted \in Nat /\ pushes \in Nat /\ now \in Nat /\ dmsgq_next_num_ \in Nat
      /\ \A m \in Out : m \in Message
  BY OutType DEF TypeOK, QueueTypeOK, ThreadTypeOK
<1> HIDE DEF new
<1>5. ListsOK'
  BY <1>1, <1>2, <1>3, <1>4 DEF IInv, ListsOK, Message
<1>6. Distinct'
  BY <1>1, <1>2, <1>3, <1>4 DEF IInv, ListsOK, Distinct, Message
<1>7. InOrder'
  BY <1>1, <1>2, <1>3, <1>4 DEF IInv, ListsOK, InOrder, Message
<1>8. QED
  BY <1>5, <1>6, <1>7

LEMMA PopEffect ==
  ASSUME IInv, TypeOK, PopFront
  PROVE  \E e \in msgq_ :
           /\ Front(e) /\ msgq_' = msgq_ \ {e}
           /\ get'.hand = e.msg /\ e.msg \in Message
           /\ UNCHANGED msgPeek_ /\ msgPeek_ = None /\ get.hand = None
<1>1. PICK e \in msgq_ : /\ Front(e) /\ msgq_' = msgq_ \ {e}
                         /\ get' = [NotGetting EXCEPT !.pc = "got", !.keep = get.keep,
                                                      !.hand = e.msg]
  BY DEF PopFront
<1>2. get'.hand = e.msg
  BY <1>1 DEF NotGetting
<1>3. e.msg \in Message
  BY DEF TypeOK, QueueTypeOK
<1>4. UNCHANGED msgPeek_ /\ msgPeek_ = None /\ get.hand = None
  BY DEF PopFront, IInv, HandOK
<1>5. QED
  BY <1>1, <1>2, <1>3, <1>4

LEMMA PopLists ==
  ASSUME IInv, TypeOK, PopFront
  PROVE  ListsOK' /\ Distinct' /\ InOrder'
<1>1. PICK e \in msgq_ :
           /\ Front(e) /\ msgq_' = msgq_ \ {e}
           /\ get'.hand = e.msg /\ e.msg \in Message
           /\ UNCHANGED msgPeek_ /\ msgPeek_ = None
  BY PopEffect
<1>2. Out' \subseteq {e.msg} /\ UNCHANGED <<dmsgq_, dmsgq_next_num_, accepted, pushes, now>>
  BY <1>1 DEF Out, PopFront
<1>3. \A f \in msgq_ : f.pos \in Nat /\ e.pos <= f.pos
  BY <1>1 DEF Front, TypeOK, QueueTypeOK
<1>4. ListsOK'
  BY <1>1, <1>2 DEF IInv, ListsOK
<1>5. Distinct'
  BY <1>1, <1>2 DEF IInv, Distinct
<1>6. InOrder'
  <2>1. \A f \in msgq_' : e.pos < f.pos
    BY <1>1, <1>3 DEF IInv, Distinct
  <2>2. QED
    BY <1>1, <1>2, <2>1 DEF IInv, InOrder
<1>7. QED
  BY <1>4, <1>5, <1>6

LEMMA ListsStep ==
  ASSUME TypeOK, TypeOK', IInv, ClockFits, [Next]_vars
  PROVE  ListsOK' /\ Distinct' /\ InOrder'
<1>1. CASE Quiet
  BY <1>1, ListsUnchanged DEF Quiet, queue, Out
<1>2. CASE GetPeeked
  BY <1>2, ListsUnchanged DEF GetPeeked, NotGetting, Free, Out
<1>3. CASE Dispatch
  BY <1>3, ListsUnchanged DEF Dispatch, NotGetting, queue, Out
<1>4. CASE KeepPeeked
  BY <1>4, ListsUnchanged DEF KeepPeeked, NotGetting, Out
<1>5. QED
  BY <1>1, <1>2, <1>3, <1>4, QuietSteps, PushLists, PushDelayedLists, ClearLists,
     MoveDueLists, PopLists DEF IInv

LEMMA MailboxInvariant ==
  ASSUME ClockFits
  PROVE  Spec => [](TypeOK /\ IInv)
<1>1. Init => TypeOK /\ IInv
  BY InitType, InitIInv
<1>2. TypeOK /\ IInv /\ [Next]_vars => TypeOK' /\ IInv'
  <2>1. TypeOK /\ [Next]_vars => TypeOK'
    BY QueueTypeStep, ThreadTypeStep, GetTypeStep DEF TypeOK
  <2>2. QED
    BY <2>1, ListsStep, HandStep DEF IInv
<1>3. QED
  BY <1>1, <1>2, PTL DEF Spec

-----------------------------------------------------------------------------
(* The steps, as steps of the mailbox. *)

LEMMA MessagesAfterPush ==
  ASSUME NEW S, NEW x
  PROVE  {e.msg : e \in S \union {x}} = {e.msg : e \in S} \union {x.msg}
  OBVIOUS

LEMMA PendingType ==
  TypeOK => \A m \in Pending : m \in Message
  BY DEF TypeOK, QueueTypeOK, Pending

LEMMA AcceptMaps ==
  ASSUME TypeOK, IInv, NEW m \in Message,
         m.id = accepted + 1, m.delayed \/ m.due <= now,
         Pending' = Pending \union {m}, accepted' = accepted + 1,
         UNCHANGED <<now, get, handled>>
  PROVE  M!Accept
<1>1. m \in Pending' /\ UNCHANGED get.hand
  OBVIOUS
<1>2. m \in M!Message
  BY DEF Message, M!Message
<1>3. QED
  BY <1>1, <1>2 DEF M!Accept

LEMMA PushMaps ==
  ASSUME TypeOK, IInv, NEW t \in Threads, Push(t)
  PROVE  M!Accept
<1>1. /\ Pushed(t) \in Message /\ Pushed(t).id = accepted + 1
      /\ Pushed(t).due = 0 /\ now \in Nat
  BY PushedType DEF Push, Pushed, IInv, HandOK, TypeOK, ThreadTypeOK
<1>2. Pending' = Pending \union {Pushed(t)}
  <2> DEFINE new == [msg |-> Pushed(t), pos |-> pushes + 1]
  <2>1. msgq_' = msgq_ \union {new} /\ new.msg = Pushed(t)
       /\ UNCHANGED <<dmsgq_, msgPeek_>>
    BY DEF Push
  <2> HIDE DEF new
  <2>2. {e.msg : e \in msgq_'} = {e.msg : e \in msgq_} \union {Pushed(t)}
    BY <2>1, MessagesAfterPush
  <2>3. QED
    BY <2>1, <2>2 DEF Pending
<1>3. accepted' = accepted + 1 /\ UNCHANGED <<now, get, handled>>
  BY DEF Push
<1>4. Pushed(t).due <= now
  BY <1>1
<1>5. QED
  BY <1>1, <1>2, <1>3, <1>4, AcceptMaps

LEMMA PushDelayedMaps ==
  ASSUME TypeOK, IInv, NEW t \in Threads, PushDelayed(t)
  PROVE  M!Accept
<1>1. /\ Pushed(t) \in Message /\ Pushed(t).id = accepted + 1
      /\ Pushed(t).delayed
  BY PushedType DEF PushDelayed, Pushed
<1>2. Pending' = Pending \union {Pushed(t)}
  <2> DEFINE new == [msg |-> Pushed(t), trigger |-> TimeAt(op[t].due),
                     num |-> dmsgq_next_num_]
  <2>1. dmsgq_' = dmsgq_ \union {new} /\ new.msg = Pushed(t)
       /\ UNCHANGED <<msgq_, msgPeek_>>
    BY DEF PushDelayed
  <2> HIDE DEF new
  <2>2. {d.msg : d \in dmsgq_'} = {d.msg : d \in dmsgq_} \union {Pushed(t)}
    BY <2>1, MessagesAfterPush
  <2>3. QED
    BY <2>1, <2>2 DEF Pending
<1>3. accepted' = accepted + 1 /\ UNCHANGED <<now, get, handled>>
  BY DEF PushDelayed
<1>4. QED
  BY <1>1, <1>2, <1>3, AcceptMaps

LEMMA ClearMaps ==
  ASSUME TypeOK, IInv, NEW t \in Threads, NEW doomed \in SUBSET Handlers, Clear(t, doomed)
  PROVE  M!Discard
<1>1. Pending' = {m \in Pending : m.handler \notin doomed}
  BY DEF Clear, Pending
<1>2. UNCHANGED <<now, accepted, get, handled>>
  BY DEF Clear
<1>3. QED
  BY <1>1, <1>2 DEF M!Discard

LEMMA MoveDueMaps ==
  ASSUME TypeOK, IInv, MoveDue
  PROVE  UNCHANGED M!vars
<1>1. PICK d \in dmsgq_ : /\ msgq_' = msgq_ \union {[msg |-> d.msg, pos |-> pushes + 1]}
                          /\ dmsgq_' = dmsgq_ \ {d}
  BY DEF MoveDue
<1>2. Pending' = Pending
  <2> DEFINE new == [msg |-> d.msg, pos |-> pushes + 1]
  <2>1. msgq_' = msgq_ \union {new} /\ new.msg = d.msg /\ UNCHANGED msgPeek_
    BY <1>1 DEF MoveDue
  <2> HIDE DEF new
  <2>2. {e.msg : e \in msgq_'} = {e.msg : e \in msgq_} \union {d.msg}
    BY <2>1, MessagesAfterPush
  <2>3. {c.msg : c \in dmsgq_} = {c.msg : c \in dmsgq_'} \union {d.msg}
    BY <1>1
  <2>4. QED
    BY <2>1, <2>2, <2>3 DEF Pending
<1>3. QED
  BY <1>2 DEF MoveDue, M!vars

LEMMA TakeMaps ==
  ASSUME TypeOK, IInv, NEW m \in Pending, get.hand = None, m.due <= now,
         get'.hand = m, Pending' = Pending \ {m},
         ~m.delayed => \A n \in Pending : n.delayed \/ m.id <= n.id,
         UNCHANGED <<now, accepted, handled>>
  PROVE  M!Take
  BY DEF M!Take

(* The message at the front of msgq_ is the oldest of those posted without *)
(* a delay, and so is the one that Peek set aside.                         *)
LEMMA PopMaps ==
  ASSUME TypeOK, IInv, PopFront
  PROVE  M!Take
<1>1. PICK e \in msgq_ :
           /\ Front(e) /\ msgq_' = msgq_ \ {e}
           /\ get'.hand = e.msg /\ e.msg \in Message
           /\ UNCHANGED msgPeek_ /\ msgPeek_ = None /\ get.hand = None
  BY PopEffect
<1>2. e.msg \in Pending /\ e.msg.due <= now /\ e.msg.id \in Nat
  BY <1>1 DEF Pending, IInv, ListsOK, Message
<1>3. UNCHANGED <<dmsgq_, now, accepted, handled>>
  BY DEF PopFront
<1>4. Pending' = Pending \ {e.msg}
  <2>1. \A f \in msgq_ \ {e} : f.msg # e.msg
    BY DEF IInv, Distinct
  <2>2. \A d \in dmsgq_ : d.msg # e.msg
    BY DEF IInv, Distinct
  <2>3. QED
    BY <1>1, <1>3, <2>1, <2>2 DEF Pending
<1>5. ASSUME ~e.msg.delayed, NEW n \in Pending, ~n.delayed
      PROVE  e.msg.id <= n.id
  <2>1. PICK f \in msgq_ : f.msg = n
    BY <1>1, <1>5 DEF Pending, IInv, ListsOK
  <2>2. f.pos \in Nat /\ e.pos \in Nat /\ e.pos <= f.pos /\ n.id \in Nat
    BY <1>1, <2>1 DEF Front, TypeOK, QueueTypeOK, Message
  <2>3. CASE e.pos = f.pos
    BY <1>2, <2>1, <2>3 DEF IInv, Distinct
  <2>4. CASE e.pos < f.pos
    BY <1>2, <1>5, <2>1, <2>2, <2>4 DEF IInv, InOrder
  <2>5. QED
    BY <2>2, <2>3, <2>4
<1>6. QED
  BY <1>1, <1>2, <1>3, <1>4, <1>5, TakeMaps

LEMMA GetPeekedMaps ==
  ASSUME TypeOK, IInv, GetPeeked
  PROVE  M!Take
<1>1. /\ msgPeek_ # None /\ msgPeek_' = None /\ get'.hand = msgPeek_ /\ get.hand = None
      /\ UNCHANGED <<msgq_, dmsgq_, now, accepted, handled>>
  BY DEF GetPeeked, NotGetting, Free, IInv, HandOK
<1>2. msgPeek_ \in Out /\ msgPeek_ \in Pending /\ msgPeek_ \in Message
  BY <1>1 DEF Out, Pending, TypeOK, QueueTypeOK
<1>3. msgPeek_.due <= now /\ msgPeek_.id \in Nat
  BY <1>2 DEF IInv, ListsOK, Message
<1>4. Pending' = Pending \ {msgPeek_}
  <2>1. \A f \in msgq_ : f.msg # msgPeek_
    BY <1>2 DEF IInv, Distinct
  <2>2. \A d \in dmsgq_ : d.msg # msgPeek_
    BY <1>2 DEF IInv, Distinct
  <2>3. QED
    BY <1>1, <2>1, <2>2 DEF Pending
<1>5. ASSUME ~msgPeek_.delayed, NEW n \in Pending, ~n.delayed
      PROVE  msgPeek_.id <= n.id
  <2>1. CASE n = msgPeek_
    BY <1>3, <2>1
  <2>2. CASE n # msgPeek_
    <3>1. PICK f \in msgq_ : f.msg = n
      BY <1>5, <2>2 DEF Pending, IInv, ListsOK
    <3>2. n.id \in Nat
      BY PendingType DEF Message
    <3>3. QED
      BY <1>2, <1>3, <1>5, <3>1, <3>2 DEF IInv, InOrder
  <2>3. QED
    BY <2>1, <2>2
<1>6. QED
  BY <1>1, <1>2, <1>3, <1>4, <1>5, TakeMaps

LEMMA DispatchMaps ==
  ASSUME TypeOK, IInv, Dispatch
  PROVE  M!Handle
<1>1. get.hand # None
  BY MessageQueueAssumption DEF Dispatch, TypeOK, GetTypeOK, Message
<1>2. /\ get'.hand = None /\ handled' = handled \union {get.hand.id}
      /\ UNCHANGED <<now, accepted, msgq_, dmsgq_, msgPeek_>>
  BY DEF Dispatch, NotGetting, queue
<1>3. Pending' = Pending
  BY <1>2 DEF Pending
<1>4. QED
  BY <1>1, <1>2, <1>3 DEF M!Handle

LEMMA KeepPeekedMaps ==
  ASSUME TypeOK, IInv, KeepPeeked
  PROVE  M!PutBack
<1>1. get.hand # None /\ msgPeek_ = None
  BY MessageQueueAssumption DEF KeepPeeked, TypeOK, GetTypeOK, Message, IInv, HandOK
<1>2. /\ get'.hand = None /\ msgPeek_' = get.hand
      /\ UNCHANGED <<now, accepted, msgq_, dmsgq_, handled>>
  BY DEF KeepPeeked, NotGetting
<1>3. Pending' = Pending \union {get.hand}
  BY <1>1, <1>2 DEF Pending
<1>4. QED
  BY <1>1, <1>2, <1>3 DEF M!PutBack

LEMMA QuietMaps ==
  ASSUME Quiet
  PROVE  [M!Next]_M!vars
<1>1. UNCHANGED <<Pending, accepted, get.hand, handled>>
  BY DEF Quiet, queue, Pending
<1>2. QED
  BY <1>1 DEF Quiet, M!vars, M!Next, M!Advance

LEMMA StepMaps == TypeOK /\ IInv /\ [Next]_vars => [M!Next]_M!vars
<1> SUFFICES ASSUME TypeOK, IInv, [Next]_vars PROVE [M!Next]_M!vars
  OBVIOUS
<1>1. HandOK
  BY DEF IInv
<1>2. CASE \E t \in Threads : Push(t) \/ PushDelayed(t)
  BY <1>2, PushMaps, PushDelayedMaps DEF M!Next
<1>3. CASE \E t \in Threads, doomed \in SUBSET Handlers : Clear(t, doomed)
  BY <1>3, ClearMaps DEF M!Next
<1>4. CASE GetPeeked \/ PopFront
  BY <1>4, GetPeekedMaps, PopMaps DEF M!Next
<1>5. CASE MoveDue
  BY <1>5, MoveDueMaps
<1>6. CASE Dispatch
  BY <1>6, DispatchMaps DEF M!Next
<1>7. CASE KeepPeeked
  BY <1>7, KeepPeekedMaps DEF M!Next
<1>8. QED
  BY <1>1, <1>2, <1>3, <1>4, <1>5, <1>6, <1>7, QuietSteps, QuietMaps

(* The queue is a mailbox, whatever threads post, clear, stop and peek in  *)
(* between and however their steps interleave: MessageQueue's Post, Clear, *)
(* Get and Peek keep every promise that module Mailbox makes.              *)
THEOREM QueueIsAMailbox ==
  ASSUME ClockFits
  PROVE  Spec => ImplementsMailbox
<1>1. Init => M!Init
  BY DEF Init, M!Init, Pending, NotGetting
<1>2. QED
  BY <1>1, MailboxInvariant, StepMaps, PTL DEF Spec, ImplementsMailbox, M!Spec

LEMMA TimersStep ==
  ASSUME TypeOK, IInv, ClockStraight, [Next]_vars,
         NEW d \in dmsgq_ \ dmsgq_', NEW e \in dmsgq_ \intersect dmsgq_',
         NEW q \in msgq_', q.msg = d.msg
  PROVE  \/ d.msg.due < e.msg.due
         \/ d.msg.due = e.msg.due /\ d.num < e.num
<1>1. CASE MoveDue
  <2>1. /\ Top(d) /\ e \in dmsgq_ /\ d # e
    BY <1>1 DEF MoveDue
  <2>2. d.num \in Nat /\ e.num \in Nat /\ d.num # e.num
    BY <2>1 DEF TypeOK, QueueTypeOK, IInv, Distinct
  <2>3. ~Less(d, e)
    BY <2>1 DEF Top
  <2>4. \A c \in dmsgq_ : c.trigger = ClockStart + c.msg.due /\ c.msg.due \in Nat
    <3> SUFFICES ASSUME NEW c \in dmsgq_
                 PROVE  c.trigger = ClockStart + c.msg.due /\ c.msg.due \in Nat
      OBVIOUS
    <3>1. c.trigger = TimeAt(c.msg.due) /\ c.msg.due <= MaxNow /\ c.msg.due \in Nat
      BY DEF IInv, ListsOK, TypeOK, QueueTypeOK, Message
    <3>2. /\ ClockStart \in Nat /\ MaxNow \in Nat /\ TimeMod \in Nat /\ TimeMod > 0
      BY MessageQueueAssumption, TimeModAssumption DEF TimeValue
    <3>3. ClockStart + c.msg.due \in 0 .. TimeMod - 1
      BY <3>1, <3>2 DEF ClockStraight
    <3>4. QED
      BY <3>1, <3>2, <3>3 DEF TimeAt, Wrap
  <2>5. ClockStart \in Nat
    BY MessageQueueAssumption DEF TimeValue
  <2>6. QED
    BY <2>1, <2>2, <2>3, <2>4, <2>5 DEF Less
<1>2. CASE \E t \in Threads, doomed \in SUBSET Handlers : Clear(t, doomed)
  BY <1>2 DEF Clear, IInv, Distinct
<1>3. QED
  BY <1>1, <1>2, QuietSteps
     DEF IInv, Push, PushDelayed, GetPeeked, PopFront, Dispatch, KeepPeeked, Quiet, queue

(* Get moves timers to msgq_ in the order of their trigger times and then  *)
(* of their numbers (DelayedMessage::operator<), while the clock does not  *)
(* wrap.                                                                   *)
THEOREM TimersAreOrdered ==
  ASSUME ClockStraight, ClockFits
  PROVE  Spec => TimersFireInOrder
<1>1. TypeOK /\ IInv /\ [Next]_vars =>
        [\A d \in dmsgq_ \ dmsgq_', e \in dmsgq_ \intersect dmsgq_' :
           (\E q \in msgq_' : q.msg = d.msg)
             => \/ d.msg.due < e.msg.due
                \/ d.msg.due = e.msg.due /\ d.num < e.num]_vars
  BY TimersStep
<1>2. QED
  BY <1>1, MailboxInvariant, PTL DEF Spec, TimersFireInOrder
=============================================================================
