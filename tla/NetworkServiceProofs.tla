------------------------ MODULE NetworkServiceProofs ------------------------
(***************************************************************************)
(* The select loop, for any connections, packets, callbacks and nested     *)
(* Waits: walks are safe, variables are typed, nothing is lost at the end, *)
(* and each connection is a channel.                                       *)
(*                                                                         *)
(* WalkIsSafe needs to know that every Wait below another on the stack was *)
(* marked when that one began (GoodStack).  The others need IInv, which    *)
(* says of each connection, while no header was split and no read analysed *)
(* inside another, that                                                    *)
(*   - what was delivered, then what earlier reads left, then what is      *)
(*     being analysed is what was received of the peer's stream, and what  *)
(*     was left holds no whole packet                                      *)
(*     (StreamOK, ReceivedOK);                                             *)
(*   - what the kernel took and then what is unsent is what was written    *)
(*     (OutputOK);                                                         *)
(* and of the stack that an event which writes or fails is on top of it    *)
(* and its connection open (UrgentOK).                                     *)
(***************************************************************************)
EXTENDS NetworkService, SequenceLemmas, FiniteSetTheorems, TLAPS

IsStack(st) == \E S : st \in Seq(S)

IsWait(f) == f.at = "wait"

(* a frame of Wait has all its fields, and is safe *)
GoodFrame(f) ==
  /\ f = [at |-> f.at, rd |-> f.rd, wr |-> f.wr, iter |-> f.iter,
          valid |-> f.valid, nested |-> f.nested]
  /\ f.valid \/ f.nested

GoodFrames(st) == \A i \in DOMAIN st : IsWait(st[i]) => GoodFrame(st[i])

(* every Wait of the stack has another one above it *)
Covered(st) == \A i \in DOMAIN st : IsWait(st[i]) => st[i].nested

LowerOnesNested(st) ==
  \A i, j \in DOMAIN st : i < j /\ IsWait(st[i]) /\ IsWait(st[j]) => st[i].nested

GoodStack(st) == IsStack(st) /\ GoodFrames(st) /\ LowerOnesNested(st)

-----------------------------------------------------------------------------
(* Stacks. *)
LEMMA PushedStack ==
  ASSUME NEW st, IsStack(st), NEW f
  PROVE  /\ IsStack(Append(st, f))
         /\ Len(st) \in Nat /\ DOMAIN st = 1 .. Len(st)
         /\ DOMAIN Append(st, f) = 1 .. Len(st) + 1
         /\ \A i \in DOMAIN st : Append(st, f)[i] = st[i]
         /\ Append(st, f)[Len(st) + 1] = f
<1> PICK S : st \in Seq(S)
  BY DEF IsStack
<1>1. st \in Seq(S \union {f}) /\ Append(st, f) \in Seq(S \union {f})
  OBVIOUS
<1>2. QED
  BY <1>1 DEF IsStack

LEMMA PoppedStack ==
  ASSUME NEW st, IsStack(st), st # <<>>
  PROVE  /\ IsStack(Front(st))
         /\ Len(st) \in Nat \ {0} /\ DOMAIN st = 1 .. Len(st)
         /\ DOMAIN Front(st) = 1 .. Len(st) - 1
         /\ \A i \in DOMAIN Front(st) : Front(st)[i] = st[i]
<1> PICK S : st \in Seq(S)
  BY DEF IsStack
<1>1. DOMAIN Front(st) = 1 .. Len(st) - 1
  BY FrontOfSeq, LenProperties
<1>2. IsStack(Front(st))
  BY FrontOfSeq DEF IsStack
<1>3. QED
  BY <1>1, <1>2, FrontOfSeq

LEMMA ReplacedStack ==
  ASSUME NEW st, IsStack(st), st # <<>>, NEW f
  PROVE  [st EXCEPT ![Len(st)] = f] = Append(Front(st), f)
<1> PICK S : st \in Seq(S)
  BY DEF IsStack
<1> DEFINE new == [st EXCEPT ![Len(st)] = f]
           old == Append(Front(st), f)
           T   == S \union {f}
<1>1. st \in Seq(T) /\ f \in T
  BY SeqMonotonic
<1> HIDE DEF T
<1>2. /\ Len(st) \in Nat \ {0} /\ DOMAIN st = 1 .. Len(st)
      /\ Front(st) \in Seq(T)
      /\ Len(Front(st)) = Len(st) - 1
      /\ \A i \in 1 .. Len(st) - 1 : Front(st)[i] = st[i]
  BY <1>1, FrontOfSeq
<1>3. Len(st) \in 1 .. Len(st)
  BY <1>2
<1>4. /\ new \in Seq(T) /\ Len(new) = Len(st)
      /\ \A i \in 1 .. Len(st) : new[i] = IF i = Len(st) THEN f ELSE st[i]
  BY <1>1, <1>2, <1>3, ExceptSeq
<1>5. /\ old \in Seq(T) /\ Len(old) = Len(st)
      /\ \A i \in 1 .. Len(st) - 1 : old[i] = st[i]
      /\ old[Len(st)] = f
  <2>1. /\ old \in Seq(T) /\ Len(old) = Len(Front(st)) + 1
        /\ \A i \in 1 .. Len(Front(st)) : old[i] = Front(st)[i]
        /\ old[Len(Front(st)) + 1] = f
    <3>1. Front(st) \in Seq(T) /\ f \in T
      BY <1>1, <1>2
    <3>2. QED
      BY <3>1, AppendProperties
  <2>2. QED
    BY <1>2, <2>1
<1>6. \A i \in 1 .. Len(new) : new[i] = old[i]
  BY <1>2, <1>4, <1>5
<1>7. QED
  BY <1>4, <1>5, <1>6, SeqEqual

-----------------------------------------------------------------------------
(* What steps do to a stack keeps it good. *)
LEMMA PopKeepsGood ==
  ASSUME NEW st, GoodStack(st), st # <<>>
  PROVE  GoodStack(Front(st))
<1>1. /\ IsStack(Front(st))
      /\ Len(st) \in Nat /\ DOMAIN st = 1 .. Len(st)
      /\ DOMAIN Front(st) = 1 .. Len(st) - 1
      /\ \A i \in DOMAIN Front(st) : i \in DOMAIN st /\ Front(st)[i] = st[i]
  BY PoppedStack DEF GoodStack
<1>2. GoodFrames(Front(st))
  BY <1>1 DEF GoodStack, GoodFrames
<1>3. LowerOnesNested(Front(st))
  BY <1>1 DEF GoodStack, LowerOnesNested
<1>4. QED
  BY <1>1, <1>2, <1>3 DEF GoodStack

LEMMA CallKeepsGood ==
  ASSUME NEW st, GoodStack(st), NEW f, ~IsWait(f)
  PROVE  GoodStack(Append(st, f))
BY PushedStack DEF GoodStack, GoodFrames, LowerOnesNested

LEMMA WaitKeepsGood ==
  ASSUME NEW st, GoodStack(st), Covered(st), NEW f, GoodFrame(f)
  PROVE  GoodStack(Append(st, f))
BY PushedStack DEF GoodStack, GoodFrames, LowerOnesNested, Covered

(* below a Wait, all Waits are covered *)
LEMMA BelowAWait ==
  ASSUME NEW st, GoodStack(st), st # <<>>, IsWait(Last(st))
  PROVE  Covered(Front(st))
<1>1. /\ Len(st) \in Nat \ {0} /\ DOMAIN st = 1 .. Len(st)
      /\ DOMAIN Front(st) = 1 .. Len(st) - 1
      /\ \A i \in DOMAIN Front(st) : Front(st)[i] = st[i]
  BY PoppedStack DEF GoodStack
<1>2. ASSUME NEW i \in DOMAIN Front(st), IsWait(Front(st)[i])
      PROVE  Front(st)[i].nested
  <2>1. i \in DOMAIN st /\ Len(st) \in DOMAIN st /\ i < Len(st)
    BY <1>1
  <2>2. QED
    BY <1>1, <1>2, <2>1 DEF GoodStack, LowerOnesNested, Last
<1>3. QED
  BY <1>2 DEF Covered

(* how EXCEPT changes a frame of Wait *)
LEMMA ExceptValid ==
  ASSUME NEW at, NEW rd, NEW wr, NEW iter, NEW valid, NEW nested, NEW v
  PROVE  [[at |-> at, rd |-> rd, wr |-> wr, iter |-> iter,
           valid |-> valid, nested |-> nested] EXCEPT !.valid = v]
           = [at |-> at, rd |-> rd, wr |-> wr, iter |-> iter,
              valid |-> v, nested |-> nested]
OBVIOUS

LEMMA ExceptNested ==
  ASSUME NEW at, NEW rd, NEW wr, NEW iter, NEW valid, NEW nested, NEW v
  PROVE  [[at |-> at, rd |-> rd, wr |-> wr, iter |-> iter,
           valid |-> valid, nested |-> nested] EXCEPT !.nested = v]
           = [at |-> at, rd |-> rd, wr |-> wr, iter |-> iter,
              valid |-> valid, nested |-> v]
OBVIOUS

LEMMA RevalidatedFrame ==
  ASSUME NEW f, GoodFrame(f), IsWait(f), NEW v, v \/ f.nested
  PROVE  LET g == [f EXCEPT !.valid = v]
         IN  GoodFrame(g) /\ IsWait(g) /\ g.nested = f.nested
<1> DEFINE g == [f EXCEPT !.valid = v]
<1>1. g = [at |-> f.at, rd |-> f.rd, wr |-> f.wr, iter |-> f.iter,
           valid |-> v, nested |-> f.nested]
  BY ExceptValid DEF GoodFrame
<1> HIDE DEF g
<1>2. g.at = f.at /\ g.rd = f.rd /\ g.wr = f.wr /\ g.iter = f.iter
      /\ g.valid = v /\ g.nested = f.nested
  BY <1>1
<1>3. GoodFrame(g) /\ IsWait(g) /\ g.nested = f.nested
  BY <1>1, <1>2 DEF GoodFrame, IsWait
<1>4. QED
  BY <1>3 DEF g

LEMMA ErasingKeepsGood ==
  ASSUME NEW st, GoodStack(st), Covered(st), NEW gone
  PROVE  GoodStack(Erased(st, gone)) /\ Covered(Erased(st, gone))
<1> DEFINE new == Erased(st, gone)
<1>1. DOMAIN st = 1 .. Len(st) /\ Len(st) \in Nat
  BY DEF GoodStack, IsStack
<1>2. DOMAIN new = DOMAIN st
  BY DEF Erased
<1>3. ASSUME NEW i \in DOMAIN st
      PROVE  /\ IsWait(new[i]) <=> IsWait(st[i])
             /\ IsWait(new[i]) => GoodFrame(new[i]) /\ new[i].nested
  <2>1. CASE IsWait(st[i]) /\ st[i].iter \in gone
    <3>1. new[i] = [st[i] EXCEPT !.valid = FALSE]
      BY <2>1 DEF Erased, IsWait
    <3>2. GoodFrame(st[i]) /\ st[i].nested
      BY <2>1 DEF GoodStack, GoodFrames, Covered
    <3>3. QED
      BY <2>1, <3>1, <3>2, RevalidatedFrame
  <2>2. CASE ~(IsWait(st[i]) /\ st[i].iter \in gone)
    <3>1. new[i] = st[i]
      BY <2>2 DEF Erased, IsWait
    <3>2. QED
      BY <3>1 DEF GoodStack, GoodFrames, Covered
  <2>3. QED
    BY <2>1, <2>2
<1>4. IsStack(new)
  <2>1. new = [i \in 1 .. Len(st) |-> new[i]]
    BY <1>1 DEF Erased
  <2>2. new \in Seq({new[i] : i \in 1 .. Len(st)})
    BY <1>1, <2>1
  <2>3. QED
    BY <2>2 DEF IsStack
<1>5. QED
  BY <1>2, <1>3, <1>4 DEF GoodStack, GoodFrames, LowerOnesNested, Covered

(* the frames of WaitInside, all marked *)
LEMMA MarkingCovers ==
  ASSUME NEW st, GoodStack(st)
  PROVE  LET new == [i \in DOMAIN st |->
                       IF st[i].at = "wait" THEN [st[i] EXCEPT !.nested = TRUE] ELSE st[i]]
         IN  GoodStack(new) /\ Covered(new)
<1> DEFINE new == [i \in DOMAIN st |->
                     IF st[i].at = "wait" THEN [st[i] EXCEPT !.nested = TRUE] ELSE st[i]]
<1> HIDE DEF new
<1>1. DOMAIN st = 1 .. Len(st) /\ Len(st) \in Nat
  BY DEF GoodStack, IsStack
<1>2. DOMAIN new = DOMAIN st
  BY DEF new
<1>3. ASSUME NEW i \in DOMAIN st, IsWait(new[i])
      PROVE  GoodFrame(new[i]) /\ new[i].nested
  <2>1. CASE IsWait(st[i])
    <3>1. new[i] = [st[i] EXCEPT !.nested = TRUE]
      BY <2>1 DEF new, IsWait
    <3>2. GoodFrame(st[i])
      BY <2>1 DEF GoodStack, GoodFrames
    <3>3. QED
      BY <3>1, <3>2 DEF GoodFrame
  <2>2. CASE ~IsWait(st[i])
    BY <1>3, <2>2 DEF new, IsWait
  <2>3. QED
    BY <2>1, <2>2
<1>4. IsStack(new)
  <2>1. new = [i \in 1 .. Len(st) |-> new[i]]
    BY <1>1 DEF new
  <2>2. new \in Seq({new[i] : i \in 1 .. Len(st)})
    BY <1>1, <2>1
  <2>3. QED
    BY <2>2 DEF IsStack
<1>5. GoodStack(new) /\ Covered(new)
  BY <1>2, <1>3, <1>4 DEF GoodStack, GoodFrames, LowerOnesNested, Covered
<1>6. QED
  BY <1>5 DEF new

(* the frame with which a walk goes on *)
LEMMA MovedFrame ==
  ASSUME NEW rd, NEW wr, NEW iter, NEW v
  PROVE  LET g == [WaitFrame(rd, wr, iter) EXCEPT !.nested = v]
         IN  GoodFrame(g)
<1> DEFINE g == [WaitFrame(rd, wr, iter) EXCEPT !.nested = v]
<1>1. g = [at |-> "wait", rd |-> rd, wr |-> wr, iter |-> iter,
           valid |-> TRUE, nested |-> v]
  <2>1. \A valid, nested :
          [[at |-> "wait", rd |-> rd, wr |-> wr, iter |-> iter,
            valid |-> valid, nested |-> nested] EXCEPT !.nested = v]
            = [at |-> "wait", rd |-> rd, wr |-> wr, iter |-> iter,
               valid |-> valid, nested |-> v]
    BY ExceptNested
  <2>2. QED
    BY <2>1, Zenon DEF WaitFrame
<1> HIDE DEF g
<1>2. g.at = "wait" /\ g.rd = rd /\ g.wr = wr /\ g.iter = iter
      /\ g.valid = TRUE /\ g.nested = v
  BY <1>1
<1>3. GoodFrame(g)
  BY <1>1, <1>2 DEF GoodFrame
<1>4. QED
  BY <1>3 DEF g

-----------------------------------------------------------------------------
(* The steps. *)
LEMMA SelectKeepsGood ==
  ASSUME NEW frames, GoodStack(frames), Covered(frames), NEW wr, Select(frames, wr)
  PROVE  GoodStack(stack')
<1>1. PICK rd, iter, gone :
        stack' = Append(Erased(frames, gone), WaitFrame(rd, wr, iter))
  BY DEF Select
<1>2. GoodFrame(WaitFrame(rd, wr, iter))
  BY DEF GoodFrame, WaitFrame
<1>3. GoodStack(Erased(frames, gone)) /\ Covered(Erased(frames, gone))
  BY ErasingKeepsGood
<1>4. QED
  BY <1>1, <1>2, <1>3, WaitKeepsGood

LEMMA PushesKeepGood ==
  ASSUME GoodStack(stack), stack # <<>>, NEW f, ~IsWait(f)
  PROVE  /\ GoodStack(Front(stack))
         /\ GoodStack(Replace(f))
         /\ \A g : ~IsWait(g) => GoodStack(ReplaceAndCall(f, g))
<1>1. GoodStack(Front(stack))
  BY PopKeepsGood
<1>2. Replace(f) = Append(Front(stack), f)
  BY ReplacedStack DEF Replace, GoodStack
<1>3. GoodStack(Replace(f))
  BY <1>1, <1>2, CallKeepsGood
<1>4. ASSUME NEW g, ~IsWait(g) PROVE GoodStack(ReplaceAndCall(f, g))
  BY <1>3, <1>4, CallKeepsGood DEF ReplaceAndCall
<1>5. QED
  BY <1>1, <1>3, <1>4

LEMMA NotWaits ==
  /\ ~IsWait(RunFrame)
  /\ \A s, ff : ~IsWait(EventFrame(s, ff))
  /\ \A s, buffer : ~IsWait(AnalysisFrame(s, buffer))
BY DEF IsWait, RunFrame, EventFrame, AnalysisFrame

LEMMA InitGood == Init => GoodStack(stack)
<1> SUFFICES ASSUME Init PROVE GoodStack(stack)
  OBVIOUS
<1>1. stack \in Seq({}) /\ DOMAIN stack = {}
  BY DEF Init
<1>2. QED
  BY <1>1 DEF GoodStack, IsStack, GoodFrames, LowerOnesNested

LEMMA DispatchKeepsGood == GoodStack(stack) /\ Dispatch => GoodStack(stack')
<1> SUFFICES ASSUME GoodStack(stack), Dispatch PROVE GoodStack(stack')
  OBVIOUS
<1>1. stack # <<>> /\ IsWait(Top)
  BY DEF Dispatch, At, IsWait
<1>2. PICK s, iter, rd, wr, ff :
        stack' = Append(Append(Erased(Front(stack), {s}),
                               [WaitFrame(rd, wr, iter) EXCEPT !.nested = Top.nested]),
                        EventFrame(s, ff))
  BY DEF Dispatch
<1> DEFINE below == Erased(Front(stack), {s})
           w     == [WaitFrame(rd, wr, iter) EXCEPT !.nested = Top.nested]
<1>3. GoodFrame(w)
  BY MovedFrame
<1>4. GoodStack(Front(stack)) /\ Covered(Front(stack))
  BY <1>1, PopKeepsGood, BelowAWait DEF Top
<1>5. GoodStack(below) /\ Covered(below)
  BY <1>4, ErasingKeepsGood
<1> HIDE DEF below, w
<1>6. GoodStack(Append(below, w))
  BY <1>3, <1>5, WaitKeepsGood
<1>7. GoodStack(Append(Append(below, w), EventFrame(s, ff)))
  BY <1>6, NotWaits, CallKeepsGood
<1>8. QED
  BY <1>2, <1>7 DEF below, w

LEMMA InvalidIteratorKeepsGood ==
  GoodStack(stack) /\ InvalidIterator => GoodStack(stack')
<1> SUFFICES ASSUME GoodStack(stack), InvalidIterator,
                    stack' = Replace([Top EXCEPT !.valid = TRUE])
             PROVE  GoodStack(stack')
  BY DEF InvalidIterator
<1> DEFINE g == [Top EXCEPT !.valid = TRUE]
<1>1. stack # <<>> /\ IsWait(Top)
  BY DEF InvalidIterator, At, IsWait
<1>2. GoodFrame(Top)
  BY <1>1, PoppedStack DEF GoodStack, GoodFrames, Top, Last
<1>3. GoodFrame(g)
  BY <1>1, <1>2, RevalidatedFrame
<1>4. GoodStack(Front(stack)) /\ Covered(Front(stack))
  BY <1>1, PopKeepsGood, BelowAWait DEF Top
<1> HIDE DEF g
<1>5. Replace(g) = Append(Front(stack), g)
  BY <1>1, ReplacedStack DEF Replace, GoodStack
<1>6. GoodStack(Replace(g))
  BY <1>3, <1>4, <1>5, WaitKeepsGood
<1>7. QED
  BY <1>6 DEF g

LEMMA LoopKeepsGood == GoodStack(stack) /\ Loop => GoodStack(stack')
<1> SUFFICES ASSUME GoodStack(stack), Loop PROVE GoodStack(stack')
  OBVIOUS
<1>1. CASE Dispatch
  BY <1>1, DispatchKeepsGood
<1>2. CASE WaitReturns
  BY <1>2, PopKeepsGood DEF WaitReturns, WalkOver, At
<1>3. CASE InvalidIterator
  BY <1>3, InvalidIteratorKeepsGood
<1>4. CASE Finish
  BY <1>4, PopKeepsGood DEF Finish, At
<1>5. ASSUME NEW wr, GetWaits(wr) PROVE GoodStack(stack')
  <2>1. stack = <<>> /\ Select(stack, wr)
    BY <1>5 DEF GetWaits
  <2>2. Covered(stack)
    BY <2>1 DEF Covered
  <2>3. QED
    BY <2>1, <2>2, SelectKeepsGood
<1>6. ASSUME NEW wr, SelectAgain(wr) PROVE GoodStack(stack')
  <2>1. Select(Front(stack), wr) /\ stack # <<>> /\ IsWait(Top)
    BY <1>6 DEF SelectAgain, WalkOver, At, IsWait
  <2>2. GoodStack(Front(stack)) /\ Covered(Front(stack))
    BY <2>1, PopKeepsGood, BelowAWait DEF Top
  <2>3. QED
    BY <2>1, <2>2, SelectKeepsGood
<1>7. QED
  BY <1>1, <1>2, <1>3, <1>4, <1>5, <1>6 DEF Loop

LEMMA UserKeepsGood == GoodStack(stack) /\ User => GoodStack(stack')
<1> SUFFICES ASSUME GoodStack(stack), User PROVE GoodStack(stack')
  OBVIOUS
<1>1. ASSUME NEW s, AsyncWritePacket(s) \/ AsyncRead(s) \/ Close(s)
      PROVE  GoodStack(stack')
  BY <1>1 DEF AsyncWritePacket, AsyncRead, Close
<1>2. ASSUME NEW wr, WaitInside(wr) PROVE GoodStack(stack')
  <2> DEFINE marked == [i \in DOMAIN stack |->
                          IF stack[i].at = "wait"
                            THEN [stack[i] EXCEPT !.nested = TRUE] ELSE stack[i]]
  <2>1. GoodStack(marked) /\ Covered(marked)
    BY MarkingCovers
  <2>2. Select(marked, wr)
    BY <1>2 DEF WaitInside
  <2> HIDE DEF marked
  <2>3. QED
    BY <2>1, <2>2, SelectKeepsGood
<1>3. QED
  BY <1>1, <1>2 DEF User

LEMMA HandlerKeepsGood ==
  ASSUME GoodStack(stack), NEW s, Handler(s)
  PROVE  GoodStack(stack')
<1>1. stack # <<>>
  BY DEF Handler, ErrorEvent, WriteComplete, WriteMore, ReadReady, ReadData, ReadEnd,
         ReadNothing, EndEvent, KeepBytes, DeliverPacket, BadHeader, StopAnalysis,
         Handling, Analysing, At
<1>2. /\ GoodStack(Front(stack))
      /\ \A r, ff : /\ GoodStack(Replace(EventFrame(r, ff)))
                    /\ GoodStack(ReplaceAndCall(EventFrame(r, ff), RunFrame))
                    /\ \A buffer :
                         GoodStack(ReplaceAndCall(EventFrame(r, ff), AnalysisFrame(r, buffer)))
      /\ \A r, buffer : GoodStack(ReplaceAndCall(AnalysisFrame(r, buffer), RunFrame))
  BY <1>1, NotWaits, PushesKeepGood
<1>3. GoodStack(Append(Front(stack), RunFrame))
  BY <1>2, NotWaits, CallKeepsGood
<1>4. CASE ErrorEvent(s)
  BY <1>2, <1>4 DEF ErrorEvent, Fail
<1>5. CASE WriteComplete(s)
  BY <1>2, <1>5 DEF WriteComplete
<1>6. CASE WriteMore(s)
  BY <1>2, <1>6 DEF WriteMore, Fail
<1>7. CASE ReadData(s)
  BY <1>2, <1>7 DEF ReadData
<1>8. CASE ReadEnd(s)
  BY <1>2, <1>8 DEF ReadEnd, Fail
<1>9. CASE ReadNothing(s)
  BY <1>2, <1>9 DEF ReadNothing
<1>10. CASE EndEvent(s)
  BY <1>2, <1>10 DEF EndEvent
<1>11. CASE KeepBytes(s)
  BY <1>2, <1>11 DEF KeepBytes
<1>12. CASE DeliverPacket(s)
  BY <1>2, <1>12 DEF DeliverPacket
<1>13. CASE BadHeader(s)
  BY <1>3, <1>13 DEF BadHeader
<1>14. CASE StopAnalysis(s)
  BY <1>2, <1>14 DEF StopAnalysis
<1>15. QED
  BY <1>4, <1>5, <1>6, <1>7, <1>8, <1>9, <1>10, <1>11, <1>12, <1>13, <1>14 DEF Handler

LEMMA NextKeepsGood == GoodStack(stack) /\ [Next]_vars => GoodStack(stack')
<1> SUFFICES ASSUME GoodStack(stack), [Next]_vars PROVE GoodStack(stack')
  OBVIOUS
<1>1. CASE Loop
  BY <1>1, LoopKeepsGood
<1>2. ASSUME NEW s \in Sockets, Handler(s) PROVE GoodStack(stack')
  BY <1>2, HandlerKeepsGood
<1>3. CASE User
  BY <1>3, UserKeepsGood
<1>4. ASSUME NEW s \in Sockets,
             Arrive(s) \/ \E how \in {"eof", "reset"} : PeerGoes(s, how)
      PROVE  GoodStack(stack')
  BY <1>4 DEF Arrive, PeerGoes
<1>5. CASE UNCHANGED vars
  BY <1>5 DEF vars
<1>6. QED
  BY <1>1, <1>2, <1>3, <1>4, <1>5 DEF Next, Thread

(* While Wait walks the list of dispatchers (networkservice.cpp:1055-1112), *)
(* the node where the walk goes on stays valid whatever the callbacks do,   *)
(* for any connections, unless a callback waits inside the walk.            *)
THEOREM WalksAreSafe == Spec => []WalkIsSafe
<1>1. Init => GoodStack(stack)
  BY InitGood
<1>2. GoodStack(stack) /\ [Next]_vars => GoodStack(stack)'
  BY NextKeepsGood DEF GoodStack, IsStack, GoodFrames, LowerOnesNested
<1>3. GoodStack(stack) => WalkIsSafe
  BY DEF GoodStack, GoodFrames, GoodFrame, IsWait, WalkIsSafe
<1>4. QED
  BY <1>1, <1>2, <1>3, PTL DEF Spec

-----------------------------------------------------------------------------
(* The invariant of connections. *)

(* Buffers of bytes out of S whose size_ is the number of their bytes, and *)
(* whose blocks are no longer than a block.                                *)
Buffers(S) == [blocks_ : Seq(Seq(S)), size_ : Nat]
IsExact(buf, S) == buf \in Buffers(S) /\ buf.size_ = Len(Bytes(buf))
BlocksFit(buf) == \A i \in DOMAIN buf.blocks_ : Len(buf.blocks_[i]) <= DEFAULT_BLOCK_SIZE

BytesOf(plan) == {Junk} \union ((DOMAIN plan) \X (1 .. Len(StreamBytes(plan))))

(* no whole packet lies in recv_buff_ alone *)
HoldsNoPacket(recv, plan) ==
  recv.size_ >= PACKET_HEADER_SIZE =>
    LET p == Bytes(recv)[1][1]
    IN  p \in DOMAIN plan /\ recv.size_ < PACKET_HEADER_SIZE + plan[p]

(* the packets up to number p, and their bodies *)
Upto(plan, p) == StreamBytes(SubSeq(plan, 1, p))
Bodies(plan, d) == [p \in 1 .. d |-> Body(p, plan[p])]

(* After d packets, X was received, which makes tk bytes. *)
Streaming(plan, d, X, tk) ==
  /\ CanCut(Nat, plan, d)
  /\ X \in Seq(BytesOf(plan))
  /\ tk \in 0 .. Len(StreamBytes(plan))
  /\ Upto(plan, d) \o X = FirstPart(StreamBytes(plan), tk)

(* the bytes on which a turn of AnalysisPacket works *)
Work(recv, buffer) == Bytes(recv) \o Bytes(buffer)

(* what is being analysed of connection s: the buffers, by their frames *)
IsAnalysis(f, s) == f.at = "analysis" /\ f.s = s
PendingAt(st, s) == {i \in DOMAIN st : IsAnalysis(st[i], s)}
Pending(st, s) == [i \in PendingAt(st, s) |-> st[i].buffer]

(* A record of AsyncSocket, whatever its recv_buff_. *)
FieldNames ==
  {"open", "socket_writeable_", "enabled_events_", "write_buffers_", "encode_buffer_", "recv_buff_"}
Shape(k) == DOMAIN k = FieldNames /\ k = [f \in DOMAIN k |-> k[f]]
SockOK(k) ==
  /\ Shape(k)
  /\ k.open \in BOOLEAN /\ k.socket_writeable_ \in BOOLEAN
  /\ k.enabled_events_ \subseteq {DE_READ, DE_WRITE, DE_CLOSE}
  /\ k.write_buffers_ \in Buffers(OutBytes)
  /\ k.encode_buffer_ \in Seq(OutBytes)

(* the bytes that were received and not delivered, while none was split *)
PendingOK(plan, pend) ==
  \A i \in DOMAIN pend : IsExact(pend[i], BytesOf(plan)) /\ BlocksFit(pend[i])
ReceivedOK(recv, plan, flt, pend) ==
  "split" \notin flt =>
    IsExact(recv, BytesOf(plan)) /\ HoldsNoPacket(recv, plan) /\ PendingOK(plan, pend)

Faulty(flt) == "split" \in flt \/ "nested" \in flt

(* what was delivered, kept and is being analysed is what was received *)
StreamOK(recv, plan, dlv, tk, pend) ==
  /\ dlv = Bodies(plan, Len(dlv))
  /\ \A i, j \in DOMAIN pend : i = j
  /\ DOMAIN pend = {} => Streaming(plan, Len(dlv), Bytes(recv), tk)
  /\ \A i \in DOMAIN pend : Streaming(plan, Len(dlv), Work(recv, pend[i]), tk)

Outgoing(n) == StreamBytes([p \in 1 .. n |-> OutSize])

(* what was sent and is to be sent is what was written *)
OutputOK(k, snt, wrt) ==
  /\ wrt \in Nat
  /\ snt \in Seq(OutBytes)
  /\ k.open => snt \o Unsent(k) = Outgoing(wrt)

WireOK(plan, arr, tk, pr, fl, flt, op) ==
  /\ plan \in Seq(Nat) /\ tk \in Nat /\ arr \in Nat /\ tk <= arr
  /\ arr <= Len(StreamBytes(plan))
  /\ \A p \in DOMAIN plan : plan[p] + DEFAULT_BLOCK_SIZE <= WordMod
  /\ pr \in {"open", "eof", "reset"}
  /\ fl \in 0 .. 1 /\ flt \subseteq Faults
  /\ op => fl = 0
  /\ ~Faulty(flt) /\ fl > 0 => pr # "open"

(* of NothingLostAtEnd *)
CompleteOf(plan, arr) == Cardinality({p \in DOMAIN plan : Len(Upto(plan, p)) <= arr})
EndOK(plan, arr, pr, fl, flt, dlv) ==
  pr = "eof" /\ fl > 0 /\ flt = {} => Len(dlv) = CompleteOf(plan, arr)

SocketOK(k, plan, flt, dlv, tk, pend, snt, wrt, arr, pr, fl) ==
  /\ SockOK(k)
  /\ ReceivedOK(k.recv_buff_, plan, flt, pend)
  /\ k.open /\ ~Faulty(flt) => StreamOK(k.recv_buff_, plan, dlv, tk, pend)
  /\ OutputOK(k, snt, wrt)
  /\ WireOK(plan, arr, tk, pr, fl, flt, k.open)
  /\ EndOK(plan, arr, pr, fl, flt, dlv)

SocketInv(s) ==
  SocketOK(sock[s], sizes[s], faults[s], delivered[s], taken[s], Pending(stack, s),
           sent[s], written[s], arrived[s], peer[s], failures[s])

(* Frames: what a frame holds, and that events of writing and errors are   *)
(* handled before anything else runs.                                      *)
FrameOK(f) ==
  \/ f.at = "wait" /\ f.iter \in Sockets \union {None}
  \/ f.at = "event" /\ f.s \in Sockets /\ (f.ff = {"error"} \/ f.ff \subseteq {DE_READ, DE_WRITE})
  \/ f.at = "analysis" /\ f.s \in Sockets
  \/ f = RunFrame

Urgent(f) == f.at = "event" /\ (DE_WRITE \in f.ff \/ "error" \in f.ff)

ListOK(list) == list \in Seq(Sockets) /\ IsInjective(list)

FramesOK(st) == \A i \in DOMAIN st : FrameOK(st[i])
UrgentOK(st, sk, pr) ==
  \A i \in DOMAIN st : Urgent(st[i]) =>
    /\ i = Len(st) /\ sk[st[i].s].open
    /\ "error" \in st[i].ff => pr[st[i].s] = "reset"

FunctionsOK ==
  /\ DOMAIN sock = Sockets /\ DOMAIN arrived = Sockets
  /\ DOMAIN taken = Sockets /\ DOMAIN peer = Sockets /\ DOMAIN sent = Sockets
  /\ DOMAIN written = Sockets /\ DOMAIN delivered = Sockets
  /\ DOMAIN failures = Sockets /\ DOMAIN faults = Sockets

IInv ==
  /\ FunctionsOK /\ crashed \in BOOLEAN
  /\ ops \in 0 .. MaxOps /\ \A s \in Sockets : written[s] <= ops
  /\ ListOK(dispatchers_)
  /\ GoodStack(stack) /\ FramesOK(stack) /\ UrgentOK(stack, sock, peer)
  /\ \A s \in Sockets : SocketInv(s)

-----------------------------------------------------------------------------
(* Buffers. *)
LEMMA BytesTyped ==
  ASSUME NEW S, NEW buf, buf \in Buffers(S)
  PROVE  /\ Bytes(buf) \in Seq(S) /\ buf.blocks_ \in Seq(Seq(S)) /\ buf.size_ \in Nat
         /\ Len(Bytes(buf)) \in Nat
<1>1. buf.blocks_ \in Seq(Seq(S)) /\ buf.size_ \in Nat
  BY DEF Buffers
<1>2. Bytes(buf) \in Seq(S)
  BY <1>1, FlattenTyped DEF Bytes
<1>3. QED
  BY <1>1, <1>2, LenProperties

LEMMA EmptyBufferExact ==
  ASSUME NEW S
  PROVE  /\ IsExact(EmptyBuffer, S) /\ Bytes(EmptyBuffer) = <<>>
         /\ EmptyBuffer.size_ = 0
<1>1. EmptyBuffer.blocks_ = <<>> /\ EmptyBuffer.size_ = 0
  BY DEF EmptyBuffer
<1>2. Bytes(EmptyBuffer) = <<>>
  BY <1>1, FlattenEmpty DEF Bytes
<1>3. EmptyBuffer \in Buffers(S)
  <2>1. <<>> \in Seq(Seq(S)) /\ 0 \in Nat
    BY EmptySeq
  <2>2. QED
    BY <2>1 DEF EmptyBuffer, Buffers
<1>4. Len(<<>>) = 0
  BY EmptySeq
<1>5. QED
  BY <1>1, <1>2, <1>3, <1>4 DEF IsExact

LEMMA BufferFields ==
  ASSUME NEW S, NEW bs, NEW n, bs \in Seq(Seq(S)), n \in Nat
  PROVE  LET buf == [blocks_ |-> bs, size_ |-> n]
         IN  buf \in Buffers(S) /\ buf.blocks_ = bs /\ buf.size_ = n
BY DEF Buffers

LEMMA AppendBufferBytes ==
  ASSUME NEW S, NEW x, NEW y, x \in Buffers(S), y \in Buffers(S)
  PROVE  /\ AppendBuffer(x, y) \in Buffers(S)
         /\ Bytes(AppendBuffer(x, y)) = Bytes(x) \o Bytes(y)
         /\ AppendBuffer(x, y).size_ = x.size_ + y.size_
<1>1. /\ x.blocks_ \in Seq(Seq(S)) /\ y.blocks_ \in Seq(Seq(S))
      /\ x.size_ \in Nat /\ y.size_ \in Nat
  BY BytesTyped
<1> DEFINE bs == x.blocks_ \o y.blocks_
           n == x.size_ + y.size_
           z == AppendBuffer(x, y)
<1>2. bs \in Seq(Seq(S)) /\ FlattenSeq(bs) = FlattenSeq(x.blocks_) \o FlattenSeq(y.blocks_)
  BY <1>1, FlattenConcat
<1>3. n \in Nat
  BY <1>1
<1>4. z = [blocks_ |-> bs, size_ |-> n]
  BY DEF AppendBuffer
<1> HIDE DEF bs, n, z
<1>5. z \in Buffers(S) /\ z.blocks_ = bs /\ z.size_ = n
  BY <1>2, <1>3, <1>4, BufferFields
<1>6. Bytes(z) = Bytes(x) \o Bytes(y)
  BY <1>2, <1>5 DEF Bytes
<1>7. QED
  BY <1>5, <1>6 DEF z, n

LEMMA AppendBufferExact ==
  ASSUME NEW S, NEW x, NEW y, IsExact(x, S), IsExact(y, S)
  PROVE  IsExact(AppendBuffer(x, y), S)
<1>1. /\ AppendBuffer(x, y) \in Buffers(S)
      /\ Bytes(AppendBuffer(x, y)) = Bytes(x) \o Bytes(y)
      /\ AppendBuffer(x, y).size_ = x.size_ + y.size_
  <2>1. x \in Buffers(S) /\ y \in Buffers(S)
    BY DEF IsExact
  <2>2. QED
    BY <2>1, AppendBufferBytes
<1>2. Bytes(x) \in Seq(S) /\ Bytes(y) \in Seq(S)
  BY BytesTyped DEF IsExact
<1>3. Len(Bytes(x) \o Bytes(y)) = Len(Bytes(x)) + Len(Bytes(y))
  BY <1>2, ConcatProperties
<1>4. QED
  BY <1>1, <1>3 DEF IsExact

(* how many full blocks begin n bytes *)
LEMMA BlockCount ==
  ASSUME NEW n \in Nat, NEW full \in Nat \ {0}
  PROVE  LET N == (n + full - 1) \div full
         IN  N \in Nat /\ n <= N * full /\ (N - 1) * full < n
OBVIOUS

-----------------------------------------------------------------------------
(* The sequences of PacketFraming: buffers, packets, streams. *)

LEMMA BlocksOfSeq ==
  ASSUME NEW S, NEW bytes, bytes \in Seq(S)
  PROVE  /\ BlocksOf(bytes) \in Seq(Seq(S))
         /\ FlattenSeq(BlocksOf(bytes)) = bytes
         /\ \A i \in 1 .. Len(BlocksOf(bytes)) : Len(BlocksOf(bytes)[i]) <= DEFAULT_BLOCK_SIZE
<1> DEFINE full == DEFAULT_BLOCK_SIZE
           L == Len(bytes)
           N == (L + full - 1) \div full
           End(i) == IF i * full <= L THEN i * full ELSE L
           b == BlocksOf(bytes)
           h == [i \in 0 .. N |-> FirstPart(bytes, End(i))]
<1>1. full \in Nat \ {0} /\ L \in Nat
  BY MemBufferAssumption, LenProperties
<1>2. N \in Nat /\ L <= N * full /\ (N - 1) * full < L
  <2> HIDE DEF full, L
  <2>1. QED
    BY <1>1, BlockCount
<1>3. b = [i \in 1 .. N |-> SubSeq(bytes, (i - 1) * full + 1, End(i))]
  BY DEF BlocksOf
<1> HIDE DEF full, N, L, b
<1>4. ASSUME NEW i \in 1 .. N
      PROVE  /\ (i - 1) * full \in 0 .. L /\ End(i - 1) = (i - 1) * full
             /\ End(i) \in 0 .. L /\ End(i - 1) <= End(i) /\ End(i) - End(i - 1) <= full
  <2>1. i \in Nat /\ i - 1 \in Nat /\ i - 1 <= N - 1 /\ N - 1 \in Nat
    BY <1>2
  <2>2. (i - 1) * full <= (N - 1) * full
    BY <1>1, <2>1
  <2>3. (i - 1) * full \in Nat /\ i * full \in Nat /\ i * full = (i - 1) * full + full
    BY <1>1, <2>1
  <2>4. (N - 1) * full \in Nat
    BY <1>1, <2>1
  <2>5. (i - 1) * full <= L
    BY <1>1, <1>2, <2>2, <2>3, <2>4
  <2>6. QED
    BY <1>1, <2>3, <2>5
<1>5. End(0) = 0 /\ End(N) = L
  BY <1>1, <1>2
<1> HIDE DEF End
<1>6. ASSUME NEW i \in 1 .. N
      PROVE  /\ b[i] \in Seq(S) /\ Len(b[i]) <= full
             /\ h[i] = h[i - 1] \o b[i]
             /\ h[i - 1] \in Seq(S)
  <2> DEFINE m == End(i - 1)
             n == End(i)
  <2>1. CanCutBoth(S, bytes, m, n)
    BY <1>1, <1>4 DEF CanCut, CanCutBoth, L
  <2>2. b[i] = SubSeq(bytes, m + 1, n)
    BY <1>3, <1>4
  <2>3. h[i] = FirstPart(bytes, n) /\ h[i - 1] = FirstPart(bytes, m)
    <3>1. i \in 0 .. N /\ i - 1 \in 0 .. N
      BY <1>2
    <3>2. QED
      BY <3>1
  <2>4. n - m <= full
    BY <1>4
  <2> HIDE DEF m, n, h
  <2>5. /\ Joins(S, FirstPart(bytes, n), FirstPart(bytes, m), SubSeq(bytes, m + 1, n))
        /\ SubSeq(bytes, m + 1, n) \in Seq(S) /\ Len(SubSeq(bytes, m + 1, n)) = n - m
        /\ CanCut(S, bytes, m)
    BY <2>1, CutFurther
  <2>6. FirstPart(bytes, m) \in Seq(S)
    BY <2>5, CutParts
  <2>7. QED
    BY <2>2, <2>3, <2>4, <2>5, <2>6 DEF Joins
<1>7. Len(b) = N /\ b \in Seq(Seq(S))
  <2>1. b = [i \in 1 .. N |-> b[i]]
    BY <1>3
  <2>2. \A i \in 1 .. N : b[i] \in Seq(S)
    BY <1>6
  <2>3. b \in [1 .. N -> Seq(S)]
    BY <2>1, <2>2
  <2>4. b \in Seq(Seq(S))
    BY <1>2, <2>3, IsASeq
  <2>5. DOMAIN b = 1 .. N
    BY <2>1
  <2>6. QED
    BY <1>2, <2>4, <2>5, LenProperties
<1>8. h[0] = <<>> /\ h[N] = bytes
  <2>1. 0 \in 0 .. N /\ N \in 0 .. N
    BY <1>2
  <2>2. h[0] = FirstPart(bytes, 0) /\ h[N] = FirstPart(bytes, L)
    BY <1>5, <2>1
  <2>3. CanCut(S, bytes, 0) /\ CanCut(S, bytes, L)
    BY <1>1 DEF CanCut, L
  <2>4. FirstPart(bytes, 0) \in Seq(S) /\ Len(FirstPart(bytes, 0)) = 0
    BY <2>3, CutParts
  <2>5. FirstPart(bytes, 0) = <<>>
    BY <2>4, EmptySeq
  <2> DEFINE c == FirstPart(bytes, L)
  <2> HIDE DEF c
  <2>6. c \in Seq(S) /\ Len(c) = Len(bytes) /\ \A i \in 1 .. Len(c) : c[i] = bytes[i]
    BY <2>3, CutParts DEF c, L
  <2>7. c = bytes
    BY <2>6, SeqEqual
  <2>8. QED
    BY <2>2, <2>5, <2>7 DEF c
<1> HIDE DEF h
<1>9. Accumulates(S, b, h)
  BY <1>6, <1>7, <1>8 DEF Accumulates
<1>10. FlattenSeq(b) = h[Len(b)]
  BY <1>7, <1>9, FlattenByParts
<1>11. QED
  BY <1>6, <1>7, <1>8, <1>10 DEF b, full

LEMMA BufferOfBytes ==
  ASSUME NEW S, NEW bytes, bytes \in Seq(S)
  PROVE  /\ IsExact(BufferOf(bytes), S) /\ Bytes(BufferOf(bytes)) = bytes
         /\ BlocksFit(BufferOf(bytes))
<1> DEFINE bs == BlocksOf(bytes)
           n == Len(bytes)
           z == BufferOf(bytes)
<1>1. /\ bs \in Seq(Seq(S)) /\ FlattenSeq(bs) = bytes
      /\ \A i \in 1 .. Len(bs) : Len(bs[i]) <= DEFAULT_BLOCK_SIZE
  BY BlocksOfSeq
<1>2. n \in Nat /\ z = [blocks_ |-> bs, size_ |-> n]
  BY LenProperties DEF BufferOf
<1> HIDE DEF bs, n, z
<1>3. z \in Buffers(S) /\ z.blocks_ = bs /\ z.size_ = n
  BY <1>1, <1>2, BufferFields
<1>4. Bytes(z) = bytes
  BY <1>1, <1>3 DEF Bytes
<1>5. BlocksFit(z)
  <2>1. DOMAIN bs = 1 .. Len(bs)
    BY <1>1, LenProperties
  <2>2. QED
    BY <1>1, <1>3, <2>1 DEF BlocksFit
<1>6. QED
  BY <1>3, <1>4, <1>5 DEF IsExact, z, n

-----------------------------------------------------------------------------
(* Packets in a stream of packets. *)

(* of which bytes are members, if they are not Junk: packet and place *)
Positions == Nat \X Nat

Packets(plan) == [p \in 1 .. Len(plan) |-> PacketBytes(p, plan[p])]

LEMMA PacketTyped ==
  ASSUME NEW p, NEW n, NEW S, n \in Nat,
         \A k \in 1 .. PACKET_HEADER_SIZE + n : <<p, k>> \in S
  PROVE  /\ PacketBytes(p, n) \in Seq(S)
         /\ Len(PacketBytes(p, n)) = PACKET_HEADER_SIZE + n
         /\ \A k \in 1 .. PACKET_HEADER_SIZE + n : PacketBytes(p, n)[k] = <<p, k>>
<1> DEFINE L == PACKET_HEADER_SIZE + n
           f == PacketBytes(p, n)
<1>1. L \in Nat
  BY PacketFramingAssumption, MemBufferAssumption
<1>2. f = [k \in 1 .. L |-> <<p, k>>]
  BY DEF PacketBytes
<1> HIDE DEF L, f
<1>3. f \in [1 .. L -> S] /\ \A k \in 1 .. L : f[k] = <<p, k>>
  BY <1>2 DEF L
<1>4. f \in Seq(S) /\ DOMAIN f = 1 .. L
  BY <1>1, <1>3, IsASeq
<1>5. Len(f) = L
  BY <1>1, <1>4, LenProperties
<1>6. QED
  BY <1>3, <1>4, <1>5 DEF f, L

HeaderSize == PACKET_HEADER_SIZE \in Nat /\ PACKET_HEADER_SIZE >= 3
LEMMA HeaderSizeHolds == HeaderSize
BY PacketFramingAssumption, MemBufferAssumption DEF HeaderSize

LEMMA PacketsTyped ==
  ASSUME NEW plan, plan \in Seq(Nat)
  PROVE  /\ Packets(plan) \in Seq(Seq(Positions)) /\ Len(Packets(plan)) = Len(plan)
         /\ Len(plan) \in Nat /\ DOMAIN plan = 1 .. Len(plan)
         /\ \A p \in 1 .. Len(plan) :
              /\ plan[p] \in Nat
              /\ Packets(plan)[p] = PacketBytes(p, plan[p])
              /\ PacketBytes(p, plan[p]) \in Seq(Positions)
              /\ Len(PacketBytes(p, plan[p])) = PACKET_HEADER_SIZE + plan[p]
              /\ \A k \in 1 .. PACKET_HEADER_SIZE + plan[p] : PacketBytes(p, plan[p])[k] = <<p, k>>
<1> DEFINE b == Packets(plan)
<1>1. Len(plan) \in Nat /\ DOMAIN plan = 1 .. Len(plan)
  BY LenProperties
<1>2. ASSUME NEW p \in 1 .. Len(plan)
      PROVE  /\ plan[p] \in Nat
             /\ PacketBytes(p, plan[p]) \in Seq(Positions)
             /\ Len(PacketBytes(p, plan[p])) = PACKET_HEADER_SIZE + plan[p]
             /\ \A k \in 1 .. PACKET_HEADER_SIZE + plan[p] : PacketBytes(p, plan[p])[k] = <<p, k>>
  <2>1. plan[p] \in Nat /\ p \in Nat
    BY <1>1
  <2>2. \A k \in 1 .. PACKET_HEADER_SIZE + plan[p] : <<p, k>> \in Positions
    BY <2>1 DEF Positions
  <2>3. QED
    BY <2>1, <2>2, PacketTyped
<1>3. b = [p \in 1 .. Len(plan) |-> PacketBytes(p, plan[p])]
  BY DEF Packets
<1> HIDE DEF b
<1>4. b \in [1 .. Len(plan) -> Seq(Positions)] /\ DOMAIN b = 1 .. Len(plan)
  BY <1>2, <1>3
<1>5. b \in Seq(Seq(Positions))
  BY <1>1, <1>4, IsASeq
<1>6. Len(b) = Len(plan)
  BY <1>1, <1>4, <1>5, LenProperties
<1>7. QED
  BY <1>1, <1>2, <1>3, <1>5, <1>6 DEF b

LEMMA UptoIsCut ==
  ASSUME NEW plan, NEW d, CanCut(Nat, plan, d)
  PROVE  /\ Upto(plan, d) = FlattenSeq(FirstPart(Packets(plan), d))
         /\ StreamBytes(plan) = FlattenSeq(Packets(plan))
         /\ CanCut(Seq(Positions), Packets(plan), d)
<1> DEFINE pl == FirstPart(plan, d)
           b == Packets(plan)
           f == FirstPart(b, d)
           g == Packets(pl)
<1>1. plan \in Seq(Nat) /\ d \in 0 .. Len(plan) /\ d \in Nat
  BY LenProperties DEF CanCut
<1>2. pl \in Seq(Nat) /\ Len(pl) = d /\ \A i \in 1 .. d : pl[i] = plan[i]
  BY CutParts
<1>3. /\ b \in Seq(Seq(Positions)) /\ Len(b) = Len(plan) /\ Len(plan) \in Nat
      /\ \A p \in 1 .. Len(plan) : b[p] = PacketBytes(p, plan[p])
  BY <1>1, PacketsTyped
<1>4. CanCut(Seq(Positions), b, d)
  BY <1>1, <1>3 DEF CanCut
<1> HIDE DEF pl, b
<1>5. f \in Seq(Seq(Positions)) /\ Len(f) = d /\ \A i \in 1 .. d : f[i] = b[i]
  BY <1>4, CutParts
<1>6. /\ g \in Seq(Seq(Positions)) /\ Len(g) = Len(pl)
      /\ \A p \in 1 .. Len(pl) : g[p] = PacketBytes(p, pl[p])
  BY <1>2, PacketsTyped
<1> HIDE DEF f, g
<1>7. ASSUME NEW i \in 1 .. d PROVE f[i] = g[i]
  <2>1. i \in 1 .. Len(plan)
    BY <1>1
  <2>2. QED
    BY <1>2, <1>3, <1>5, <1>6, <2>1
<1>8. f = g
  BY <1>2, <1>5, <1>6, <1>7, SeqEqual
<1>9. Upto(plan, d) = FlattenSeq(g)
  BY DEF Upto, StreamBytes, g, Packets, pl, FirstPart
<1>10. StreamBytes(plan) = FlattenSeq(b)
  BY DEF StreamBytes, b, Packets
<1>11. QED
  BY <1>4, <1>8, <1>9, <1>10 DEF f, b

LEMMA UptoCuts ==
  ASSUME NEW plan, NEW d, CanCut(Nat, plan, d)
  PROVE  /\ Joins(Positions, StreamBytes(plan), Upto(plan, d), FlattenSeq(RestOf(Packets(plan), d)))
         /\ Upto(plan, d) \in Seq(Positions) /\ StreamBytes(plan) \in Seq(Positions)
         /\ Len(Upto(plan, d)) \in Nat /\ Len(StreamBytes(plan)) \in Nat
         /\ Len(Upto(plan, d)) <= Len(StreamBytes(plan))
<1> DEFINE b == Packets(plan)
<1>1. /\ Upto(plan, d) = FlattenSeq(FirstPart(b, d))
      /\ StreamBytes(plan) = FlattenSeq(b)
      /\ CanCut(Seq(Positions), b, d)
  BY UptoIsCut
<1> HIDE DEF b
<1>2. /\ Joins(Positions, FlattenSeq(b), FlattenSeq(FirstPart(b, d)), FlattenSeq(RestOf(b, d)))
      /\ FlattenSeq(b) \in Seq(Positions)
      /\ Len(FlattenSeq(FirstPart(b, d))) \in Nat /\ Len(FlattenSeq(b)) \in Nat
      /\ Len(FlattenSeq(FirstPart(b, d))) <= Len(FlattenSeq(b))
  BY <1>1, FlattenCut
<1>3. QED
  BY <1>1, <1>2 DEF b, Joins

LEMMA UptoStep ==
  ASSUME NEW plan, NEW p, plan \in Seq(Nat), p \in 1 .. Len(plan)
  PROVE  /\ Joins(Positions, Upto(plan, p), Upto(plan, p - 1), PacketBytes(p, plan[p]))
         /\ Len(Upto(plan, p - 1)) \in Nat
         /\ Len(Upto(plan, p)) = Len(Upto(plan, p - 1)) + PACKET_HEADER_SIZE + plan[p]
<1> DEFINE b == Packets(plan)
           q == p - 1
<1>1. /\ b \in Seq(Seq(Positions)) /\ Len(b) = Len(plan) /\ Len(plan) \in Nat
      /\ plan[p] \in Nat /\ b[p] = PacketBytes(p, plan[p])
      /\ Len(PacketBytes(p, plan[p])) = PACKET_HEADER_SIZE + plan[p]
  BY PacketsTyped
<1>2. CanCut(Nat, plan, p) /\ CanCut(Nat, plan, q)
  BY <1>1 DEF CanCut
<1> HIDE DEF q
<1>3. Upto(plan, p) = FlattenSeq(FirstPart(b, p)) /\ Upto(plan, q) = FlattenSeq(FirstPart(b, q))
  BY <1>2, UptoIsCut
<1> HIDE DEF b
<1>4. /\ Joins(Positions, FlattenSeq(FirstPart(b, p)), FlattenSeq(FirstPart(b, p - 1)), b[p])
      /\ Len(FlattenSeq(FirstPart(b, p - 1))) \in Nat /\ Len(b[p]) \in Nat
      /\ Len(FlattenSeq(FirstPart(b, p))) = Len(FlattenSeq(FirstPart(b, p - 1))) + Len(b[p])
  <2> DEFINE T == Positions
  <2>1. p \in 1 .. Len(b) /\ b \in Seq(Seq(T))
    BY <1>1
  <2> HIDE DEF T
  <2>2. /\ Joins(T, FlattenSeq(FirstPart(b, p)), FlattenSeq(FirstPart(b, p - 1)), b[p])
        /\ Len(FlattenSeq(FirstPart(b, p - 1))) \in Nat /\ Len(b[p]) \in Nat
        /\ Len(FlattenSeq(FirstPart(b, p))) = Len(FlattenSeq(FirstPart(b, p - 1))) + Len(b[p])
    BY <2>1, FlattenStep
  <2>3. QED
    BY <2>2 DEF T
<1>5. HeaderSize
  BY HeaderSizeHolds
<1>6. Upto(plan, p - 1) = FlattenSeq(FirstPart(b, p - 1))
  BY <1>3 DEF q
<1>7. Joins(Positions, Upto(plan, p), Upto(plan, p - 1), PacketBytes(p, plan[p]))
  BY <1>1, <1>3, <1>4, <1>6
<1>8. QED
  <2>1. /\ Len(Upto(plan, p - 1)) \in Nat
        /\ Len(Upto(plan, p)) = Len(Upto(plan, p - 1)) + (PACKET_HEADER_SIZE + plan[p])
    BY <1>1, <1>3, <1>4, <1>6
  <2> DEFINE u == Len(Upto(plan, p))
             w == Len(Upto(plan, p - 1))
  <2>2. PACKET_HEADER_SIZE \in Nat /\ plan[p] \in Nat
    BY <1>1, <1>5 DEF HeaderSize
  <2>3. w \in Nat /\ u = w + (PACKET_HEADER_SIZE + plan[p])
    BY <2>1
  <2> HIDE DEF u, w
  <2>4. u = w + PACKET_HEADER_SIZE + plan[p]
    BY <2>2, <2>3
  <2>5. QED
    BY <1>7, <2>3, <2>4 DEF u, w

LEMMA UptoMonotone ==
  ASSUME NEW plan, NEW m, NEW n, CanCutBoth(Nat, plan, m, n)
  PROVE  /\ Len(Upto(plan, m)) \in Nat /\ Len(Upto(plan, n)) \in Nat
         /\ Len(Upto(plan, m)) <= Len(Upto(plan, n))
<1> DEFINE b == Packets(plan)
<1>1. CanCut(Nat, plan, n) /\ CanCut(Nat, plan, m) /\ m \in 0 .. n
  BY LenProperties DEF CanCutBoth, CanCut
<1>2. /\ Upto(plan, n) = FlattenSeq(FirstPart(b, n)) /\ Upto(plan, m) = FlattenSeq(FirstPart(b, m))
      /\ CanCut(Seq(Positions), b, n)
  BY <1>1, UptoIsCut
<1> HIDE DEF b
<1>3. CanCutBoth(Seq(Positions), b, m, n)
  BY <1>1, <1>2 DEF CanCutBoth
<1>4. QED
  BY <1>2, <1>3, FlattenMonotone

LEMMA UptoEnds ==
  ASSUME NEW plan, plan \in Seq(Nat)
  PROVE  Upto(plan, 0) = <<>> /\ Upto(plan, Len(plan)) = StreamBytes(plan)
<1> DEFINE b == Packets(plan)
           n == Len(plan)
<1>1. b \in Seq(Seq(Positions)) /\ Len(b) = n /\ n \in Nat
  BY PacketsTyped
<1>2. CanCut(Nat, plan, 0) /\ CanCut(Nat, plan, n)
  BY <1>1 DEF CanCut
<1> HIDE DEF n
<1>3. /\ Upto(plan, 0) = FlattenSeq(FirstPart(b, 0)) /\ Upto(plan, n) = FlattenSeq(FirstPart(b, n))
      /\ StreamBytes(plan) = FlattenSeq(b)
  BY <1>2, UptoIsCut
<1> HIDE DEF b
<1>4. FlattenSeq(FirstPart(b, 0)) = <<>> /\ FirstPart(b, Len(b)) = b
  BY <1>1, FlattenNone
<1>5. QED
  BY <1>1, <1>3, <1>4 DEF n

LEMMA StreamTyped ==
  ASSUME NEW plan, plan \in Seq(Nat)
  PROVE  /\ StreamBytes(plan) \in Seq(BytesOf(plan))
         /\ Packets(plan) \in Seq(Seq(BytesOf(plan)))
<1> DEFINE b == Packets(plan)
           S == BytesOf(plan)
           L == Len(StreamBytes(plan))
<1>1. /\ b \in Seq(Seq(Positions)) /\ Len(b) = Len(plan)
      /\ Len(plan) \in Nat /\ DOMAIN plan = 1 .. Len(plan)
      /\ \A p \in 1 .. Len(plan) :
           plan[p] \in Nat /\ b[p] = PacketBytes(p, plan[p])
  BY PacketsTyped
<1>2. HeaderSize
  BY HeaderSizeHolds
<1>3. ASSUME NEW p \in 1 .. Len(plan) PROVE b[p] \in Seq(S)
  <2>1. p \in Nat /\ p - 1 \in Nat /\ CanCut(Nat, plan, p)
    BY <1>1 DEF CanCut
  <2>2. Len(Upto(plan, p)) \in Nat /\ L \in Nat /\ Len(Upto(plan, p)) <= L
    BY <2>1, UptoCuts
  <2>3. /\ Len(Upto(plan, p - 1)) \in Nat
        /\ Len(Upto(plan, p)) = Len(Upto(plan, p - 1)) + PACKET_HEADER_SIZE + plan[p]
    <3>1. plan \in Seq(Nat) /\ p \in 1 .. Len(plan)
      OBVIOUS
    <3> HIDE DEF b, S, L
    <3>2. QED
      BY <3>1, UptoStep
  <2>4. PACKET_HEADER_SIZE + plan[p] <= L /\ plan[p] \in Nat
    <3> DEFINE u == Len(Upto(plan, p))
               w == Len(Upto(plan, p - 1))
               h == PACKET_HEADER_SIZE
               k == plan[p]
    <3>1. h \in Nat /\ k \in Nat /\ L \in Nat
      BY <1>1, <1>2, <2>2 DEF HeaderSize
    <3>2. u \in Nat /\ w \in Nat /\ u <= L /\ u = w + h + k
      BY <2>2, <2>3
    <3> HIDE DEF u, w, h, k, L
    <3>3. h + k <= L
      BY <3>1, <3>2
    <3>4. QED
      BY <3>1, <3>3 DEF h, k
  <2>5. ASSUME NEW k \in 1 .. PACKET_HEADER_SIZE + plan[p] PROVE <<p, k>> \in S
    <3>1. k \in 1 .. L
      BY <1>2, <2>2, <2>4 DEF HeaderSize
    <3>2. <<p, k>> \in (DOMAIN plan) \X (1 .. L)
      BY <1>1, <3>1
    <3>3. QED
      BY <3>2 DEF BytesOf
  <2> HIDE DEF S
  <2>6. PacketBytes(p, plan[p]) \in Seq(S)
    BY <2>4, <2>5, PacketTyped
  <2>7. QED
    BY <1>1, <2>6
<1>4. b \in Seq(Seq(S))
  <2> HIDE DEF b, S
  <2> DEFINE m == Len(plan)
  <2>1. b = [i \in 1 .. m |-> b[i]]
    BY <1>1
  <2>2. m \in Nat /\ \A i \in 1 .. m : b[i] \in Seq(S)
    BY <1>1, <1>3
  <2> HIDE DEF m
  <2>3. b \in [1 .. m -> Seq(S)]
    BY <2>1, <2>2
  <2>4. QED
    BY <2>2, <2>3, IsASeq
<1>5. FlattenSeq(b) \in Seq(S)
  <2> HIDE DEF b, S
  <2>1. QED
    BY <1>4, FlattenTyped
<1>6. StreamBytes(plan) = FlattenSeq(b)
  BY DEF StreamBytes, Packets
<1>7. QED
  BY <1>4, <1>5, <1>6

-----------------------------------------------------------------------------
(* Where in the stream the packets that were delivered end. *)

(* d packets are all *)
Ended(plan, d) == d = Len(plan)

LEMMA BytesAreNumbers ==
  ASSUME NEW plan, NEW X, plan \in Seq(Nat), X \in Seq(BytesOf(plan))
  PROVE  X \in Seq(Positions)
<1>1. DOMAIN plan \subseteq Nat
  BY LenProperties
<1>2. BytesOf(plan) \subseteq Positions
  BY <1>1 DEF BytesOf, Junk, Positions
<1>3. QED
  BY <1>2, SeqMonotonic

LEMMA StreamRest ==
  ASSUME NEW plan, NEW d, NEW X, NEW tk, Streaming(plan, d, X, tk)
  PROVE  \E R \in Seq(Positions) : Joins(Positions, StreamBytes(plan), Upto(plan, d), X \o R)
<1> DEFINE T == Positions
           st == StreamBytes(plan)
           u == Upto(plan, d)
           R == RestOf(st, tk)
<1>1. CanCut(Nat, plan, d) /\ plan \in Seq(Nat)
  BY DEF Streaming, CanCut
<1>2. X \in Seq(T)
  BY <1>1, BytesAreNumbers DEF Streaming
<1>3. u \in Seq(T) /\ st \in Seq(T)
  BY <1>1, UptoCuts
<1>4. tk \in 0 .. Len(st) /\ u \o X = FirstPart(st, tk)
  BY DEF Streaming
<1> HIDE DEF T, st, u
<1>5. CanCut(T, st, tk)
  BY <1>3, <1>4 DEF CanCut
<1>6. R \in Seq(T) /\ FirstPart(st, tk) \o R = st
  BY <1>5, CutParts, CutJoined
<1> HIDE DEF R
<1>7. SeqsOf(T, u, X, R)
  BY <1>2, <1>3, <1>6 DEF SeqsOf
<1>8. (u \o X) \o R = u \o (X \o R)
  BY <1>7, ConcatAssoc
<1>9. st = u \o (X \o R)
  BY <1>4, <1>6, <1>8
<1>10. Joins(T, st, u, X \o R)
  <2>1. X \o R \in Seq(T)
    BY <1>2, <1>6, CutAtJoint
  <2>2. QED
    BY <1>3, <1>9, <2>1 DEF Joins
<1>11. QED
  BY <1>6, <1>10 DEF T, st, u

LEMMA StreamOver ==
  ASSUME NEW plan, NEW d, NEW X, NEW tk, Streaming(plan, d, X, tk), Ended(plan, d)
  PROVE  Len(X) = 0
<1> DEFINE T == Positions
           u == Upto(plan, d)
<1>1. CanCut(Nat, plan, d) /\ plan \in Seq(Nat)
  BY DEF Streaming, CanCut
<1>2. PICK R \in Seq(T) : Joins(T, StreamBytes(plan), u, X \o R)
  BY StreamRest
<1>3. X \in Seq(T)
  BY <1>1, BytesAreNumbers DEF Streaming
<1>4. StreamBytes(plan) = u /\ u \in Seq(T)
  BY <1>1, UptoEnds, UptoCuts DEF Ended
<1> HIDE DEF T, u
<1>5. X \o R \in Seq(T) /\ Len(X \o R) = Len(X) + Len(R) /\ Len(X) \in Nat /\ Len(R) \in Nat
  BY <1>2, <1>3, CutAtJoint
<1> DEFINE Y == X \o R
<1> HIDE DEF Y
<1>6. Len(u \o Y) = Len(u) + Len(Y) /\ Len(u) \in Nat /\ Len(Y) \in Nat
  BY <1>4, <1>5, CutAtJoint DEF Y
<1>7. u = u \o Y
  BY <1>2, <1>4 DEF Y, Joins
<1>8. Len(Y) = 0
  BY <1>6, <1>7
<1>9. QED
  BY <1>5, <1>8 DEF Y

BothJoin(S, a, b, c, d) == {a, b, c, d} \subseteq Seq(S) /\ a \o b = c \o d

LEMMA StreamNext ==
  ASSUME NEW plan, NEW d, NEW X, NEW tk, Streaming(plan, d, X, tk), ~Ended(plan, d)
  PROVE  /\ d + 1 \in 1 .. Len(plan)
         /\ \E R, Z : BothJoin(Positions, X, R, PacketBytes(d + 1, plan[d + 1]), Z)
<1> DEFINE T == Positions
           u == Upto(plan, d)
           e == d + 1
           pb == PacketBytes(e, plan[e])
           Z == FlattenSeq(RestOf(Packets(plan), e))
<1>1. CanCut(Nat, plan, d) /\ plan \in Seq(Nat) /\ Len(plan) \in Nat /\ d \in 0 .. Len(plan)
  BY LenProperties DEF Streaming, CanCut
<1>2. PICK R \in Seq(T) : Joins(T, StreamBytes(plan), u, X \o R)
  BY StreamRest
<1>3. X \in Seq(T)
  BY <1>1, BytesAreNumbers DEF Streaming
<1>4. e \in 1 .. Len(plan) /\ CanCut(Nat, plan, e) /\ e - 1 = d
  BY <1>1 DEF CanCut, Ended
<1> HIDE DEF e
<1>5. Joins(T, StreamBytes(plan), Upto(plan, e), Z)
  BY <1>4, UptoCuts
<1>6. Joins(T, Upto(plan, e), Upto(plan, e - 1), pb)
  BY <1>1, <1>4, UptoStep
<1>7. Upto(plan, e - 1) = u
  BY <1>4
<1> HIDE DEF T, u, pb, Z
<1>8. u \in Seq(T) /\ pb \in Seq(T) /\ Z \in Seq(T) /\ StreamBytes(plan) = (u \o pb) \o Z
  BY <1>5, <1>6, <1>7 DEF Joins
<1>9. (u \o pb) \o Z = u \o (pb \o Z)
  <2>1. SeqsOf(T, u, pb, Z)
    BY <1>8 DEF SeqsOf
  <2>2. QED
    BY <2>1, ConcatAssoc
<1>10. X \o R \in Seq(T) /\ pb \o Z \in Seq(T)
  BY <1>2, <1>3, <1>8, CutAtJoint
<1> DEFINE x == X \o R
           y == pb \o Z
<1> HIDE DEF x, y
<1>11. u \o x = u \o y /\ SeqsOf(T, u, x, y)
  <2>1. StreamBytes(plan) = u \o x
    BY <1>2 DEF x, Joins
  <2>2. StreamBytes(plan) = u \o y
    BY <1>8, <1>9 DEF y
  <2>3. SeqsOf(T, u, x, y)
    BY <1>8, <1>10 DEF x, y, SeqsOf
  <2>4. QED
    BY <2>1, <2>2, <2>3
<1>12. x = y
  BY <1>11, CancelFront
<1>13. BothJoin(T, X, R, pb, Z)
  BY <1>2, <1>3, <1>8, <1>12 DEF x, y, BothJoin
<1>14. QED
  BY <1>4, <1>13 DEF e, pb, T

InPacket(plan, d, X, i) ==
  i \in 1 .. Len(X) /\ (~Ended(plan, d) => i <= PACKET_HEADER_SIZE + plan[d + 1])

(* what begins X is the beginning of packet d + 1 *)
LEMMA StreamBegins ==
  ASSUME NEW plan, NEW d, NEW X, NEW tk, Streaming(plan, d, X, tk),
         NEW i, InPacket(plan, d, X, i)
  PROVE  ~Ended(plan, d) /\ X[i] = <<d + 1, i>>
<1> DEFINE T == Positions
           e == d + 1
           pb == PacketBytes(e, plan[e])
<1>1. CanCut(Nat, plan, d) /\ plan \in Seq(Nat)
  BY DEF Streaming, CanCut
<1>2. X \in Seq(T)
  BY <1>1, BytesAreNumbers DEF Streaming
<1>3. ~Ended(plan, d)
  <2>1. i \in 1 .. Len(X)
    BY DEF InPacket
  <2>2. Len(X) # 0
    BY <2>1
  <2>3. QED
    BY <2>2, StreamOver
<1>4. e \in 1 .. Len(plan) /\ \E R, Z : BothJoin(T, X, R, pb, Z)
  BY <1>3, StreamNext
<1> HIDE DEF e
<1>5. /\ pb \in Seq(T) /\ Len(pb) = PACKET_HEADER_SIZE + plan[e]
      /\ \A k \in 1 .. PACKET_HEADER_SIZE + plan[e] : pb[k] = <<e, k>>
      /\ PACKET_HEADER_SIZE + plan[e] \in Nat
  <2>1. /\ pb \in Seq(T) /\ Len(pb) = PACKET_HEADER_SIZE + plan[e]
        /\ \A k \in 1 .. PACKET_HEADER_SIZE + plan[e] : pb[k] = <<e, k>>
    BY <1>1, <1>4, PacketsTyped
  <2>2. Len(pb) \in Nat
    BY <2>1, LenProperties
  <2>3. QED
    BY <2>1, <2>2
<1>6. i \in 1 .. PACKET_HEADER_SIZE + plan[e]
  <2>1. Len(X) \in Nat
    BY <1>2, LenProperties
  <2>2. QED
    BY <1>3, <1>5, <2>1 DEF e, InPacket
<1> HIDE DEF T, pb
<1>7. PICK R, Z : R \in Seq(T) /\ Z \in Seq(T) /\ X \o R = pb \o Z
  BY <1>4 DEF BothJoin
<1>8. (X \o R)[i] = X[i]
  <2>1. \A j \in 1 .. Len(X) + Len(R) : (X \o R)[j] = IF j <= Len(X) THEN X[j] ELSE R[j - Len(X)]
    BY <1>2, <1>7, ConcatProperties
  <2>2. i \in 1 .. Len(X) + Len(R) /\ i <= Len(X)
    BY <1>2, <1>7, LenProperties DEF InPacket
  <2>3. QED
    BY <2>1, <2>2
<1>9. (pb \o Z)[i] = pb[i]
  <2>1. \A j \in 1 .. Len(pb) + Len(Z) : (pb \o Z)[j] = IF j <= Len(pb) THEN pb[j] ELSE Z[j - Len(pb)]
    BY <1>5, <1>7, ConcatProperties
  <2>2. i \in 1 .. Len(pb) + Len(Z) /\ i <= Len(pb)
    BY <1>5, <1>6, <1>7, LenProperties
  <2>3. QED
    BY <2>1, <2>2
<1>10. QED
  BY <1>3, <1>5, <1>6, <1>7, <1>8, <1>9 DEF e

(* a whole packet at the beginning of X *)
LEMMA StreamTakes ==
  ASSUME NEW plan, NEW d, NEW X, NEW tk, Streaming(plan, d, X, tk),
         ~Ended(plan, d), PACKET_HEADER_SIZE + plan[d + 1] <= Len(X)
  PROVE  LET n == PACKET_HEADER_SIZE + plan[d + 1]
         IN  /\ FirstPart(X, n) = PacketBytes(d + 1, plan[d + 1])
             /\ Streaming(plan, d + 1, RestOf(X, n), tk)
<1> DEFINE T == Positions
           e == d + 1
           pb == PacketBytes(e, plan[e])
           n == PACKET_HEADER_SIZE + plan[e]
           u == Upto(plan, d)
           r == RestOf(X, n)
           f == FirstPart(X, n)
<1>1. CanCut(Nat, plan, d) /\ plan \in Seq(Nat)
  BY DEF Streaming, CanCut
<1>2. X \in Seq(T) /\ Len(X) \in Nat /\ X \in Seq(BytesOf(plan))
  BY <1>1, BytesAreNumbers, LenProperties DEF Streaming
<1>3. e \in 1 .. Len(plan) /\ e - 1 = d /\ CanCut(Nat, plan, e) /\ n <= Len(X)
  BY <1>1, StreamNext DEF CanCut
<1> HIDE DEF e
<1>4. pb \in Seq(T) /\ Len(pb) = n /\ \A k \in 1 .. n : pb[k] = <<e, k>>
  BY <1>1, <1>3, PacketsTyped
<1>5. n \in Nat
  BY <1>4, LenProperties
<1> HIDE DEF n
<1>6. CanCut(T, X, n) /\ CanCut(BytesOf(plan), X, n)
  BY <1>2, <1>3, <1>5 DEF CanCut
<1>7. ASSUME NEW k \in 1 .. n PROVE X[k] = <<e, k>>
  <2>1. InPacket(plan, d, X, k)
    BY <1>2, <1>3, <1>5 DEF n, e, InPacket
  <2>2. QED
    BY <2>1, StreamBegins DEF e
<1>8. f \in Seq(T) /\ Len(f) = n /\ (\A k \in 1 .. n : f[k] = X[k]) /\ r \in Seq(T) /\ f \o r = X
  BY <1>6, CutParts, CutJoined
<1> HIDE DEF f, r
<1>9. f = pb
  <2> HIDE DEF pb, T
  <2>1. \A k \in 1 .. Len(f) : f[k] = pb[k]
    BY <1>4, <1>7, <1>8
  <2>2. QED
    BY <1>4, <1>8, <2>1, SeqEqual
<1>10. r \in Seq(BytesOf(plan))
  BY <1>6, CutParts DEF r
<1>11. Joins(T, Upto(plan, e), u, pb)
  <2>1. Joins(T, Upto(plan, e), Upto(plan, e - 1), pb)
    BY <1>1, <1>3, UptoStep
  <2>2. QED
    BY <1>3, <2>1
<1> HIDE DEF T, u, pb
<1>12. Upto(plan, e) \o r = u \o X
  <2>1. SeqsOf(T, u, pb, r) /\ Upto(plan, e) = u \o pb
    BY <1>8, <1>11 DEF Joins, SeqsOf
  <2>2. (u \o pb) \o r = u \o (pb \o r)
    BY <2>1, ConcatAssoc
  <2>3. QED
    BY <1>8, <1>9, <2>1, <2>2
<1>13. Streaming(plan, e, r, tk)
  BY <1>3, <1>10, <1>12 DEF Streaming, u
<1>14. QED
  BY <1>9, <1>13 DEF e, f, r, n, pb

(* how many packets arrived whole: d, if what followed them is not one *)
ArrivedWhole(plan, d, arr) ==
  /\ CanCut(Nat, plan, d) /\ arr \in Nat
  /\ Len(Upto(plan, d)) <= arr
  /\ ~Ended(plan, d) => arr < Len(Upto(plan, d + 1))

LEMMA CompleteCount ==
  ASSUME NEW plan, NEW d, NEW arr, ArrivedWhole(plan, d, arr)
  PROVE  CompleteOf(plan, arr) = d
<1> DEFINE C == {p \in DOMAIN plan : Len(Upto(plan, p)) <= arr}
<1>1. plan \in Seq(Nat) /\ Len(plan) \in Nat /\ d \in 0 .. Len(plan) /\ DOMAIN plan = 1 .. Len(plan)
      /\ d \in Nat /\ arr \in Nat /\ Len(Upto(plan, d)) <= arr
  BY LenProperties DEF CanCut, ArrivedWhole
<1>2. ASSUME NEW p \in 1 .. d PROVE p \in C
  <2>1. CanCutBoth(Nat, plan, p, d)
    BY <1>1 DEF CanCutBoth, CanCut
  <2>2. Len(Upto(plan, p)) \in Nat /\ Len(Upto(plan, d)) \in Nat
        /\ Len(Upto(plan, p)) <= Len(Upto(plan, d))
    BY <2>1, UptoMonotone
  <2>3. p \in DOMAIN plan
    BY <1>1
  <2>4. Len(Upto(plan, p)) <= arr
    BY <1>1, <2>2
  <2>5. QED
    BY <2>3, <2>4
<1>3. ASSUME NEW p \in C PROVE p \in 1 .. d
  <2>0. p \in 1 .. Len(plan) /\ Len(Upto(plan, p)) <= arr
    BY <1>1
  <2> HIDE DEF C
  <2>1. SUFFICES ASSUME ~(p <= d) PROVE FALSE
    BY <1>1, <2>0
  <2> DEFINE e == d + 1
  <2>2. p \in 1 .. Len(plan) /\ e \in 0 .. p /\ ~Ended(plan, d) /\ Len(Upto(plan, p)) <= arr
    <3>1. d < p
      BY <1>1, <2>0, <2>1
    <3>2. e <= p /\ e \in Nat
      BY <1>1, <2>0, <3>1
    <3>3. d < Len(plan) /\ d \in Nat /\ Len(plan) \in Nat
      BY <1>1, <2>0, <3>1
    <3>4. ~Ended(plan, d)
      BY <3>3 DEF Ended
    <3>5. QED
      BY <2>0, <3>2, <3>4
  <2>3. arr < Len(Upto(plan, e))
    BY <2>2 DEF ArrivedWhole
  <2> HIDE DEF e
  <2>4. CanCutBoth(Nat, plan, e, p)
    BY <1>1, <2>2 DEF CanCutBoth, CanCut
  <2>5. Len(Upto(plan, e)) \in Nat /\ Len(Upto(plan, p)) \in Nat
        /\ Len(Upto(plan, e)) <= Len(Upto(plan, p))
    BY <2>4, UptoMonotone
  <2>6. QED
    BY <1>1, <2>2, <2>3, <2>5
<1>4. C = 1 .. d
  BY <1>2, <1>3
<1>5. Cardinality(1 .. d) = d
  <2>1. d \in Int /\ 1 \in Int /\ d \in Nat
    BY <1>1
  <2>2. Cardinality(1 .. d) = IF 1 > d THEN 0 ELSE d - 1 + 1
    BY <2>1, FS_Interval
  <2>3. QED
    BY <2>1, <2>2
<1>6. QED
  BY <1>4, <1>5 DEF CompleteOf

-----------------------------------------------------------------------------
(* LastBlock: what the inner loop of AnalysisPacket finds. *)

(* when AnalysisPacket looks for the end of a packet: `start` bytes were   *)
(* kept, no packet lies in them, and the header is whole after a block     *)
Searching(S, start, blocks, size) ==
  /\ blocks \in Seq(Seq(S))
  /\ \A i \in 1 .. Len(blocks) : Len(blocks[i]) <= DEFAULT_BLOCK_SIZE
  /\ start \in Nat /\ size \in Nat
  /\ size + DEFAULT_BLOCK_SIZE <= WordMod
  /\ start + LengthOf(blocks, Len(blocks)) >= PACKET_HEADER_SIZE + size
  /\ start < PACKET_HEADER_SIZE + size
  /\ start + LengthOf(blocks, 1) >= PACKET_HEADER_SIZE

LEMMA Lengths ==
  ASSUME NEW S, NEW blocks, NEW n, CanCut(Seq(S), blocks, n)
  PROVE  LengthOf(blocks, n) \in Nat
<1>1. LengthOf(blocks, n) = Len(FlattenSeq(FirstPart(blocks, n)))
  BY DEF LengthOf, FirstPart
<1>2. QED
  BY <1>1, FlattenCut

LEMMA LengthsGrow ==
  ASSUME NEW S, NEW blocks, NEW m, NEW n, CanCutBoth(Seq(S), blocks, m, n)
  PROVE  LengthOf(blocks, m) <= LengthOf(blocks, n)
<1>1. /\ LengthOf(blocks, n) = Len(FlattenSeq(FirstPart(blocks, n)))
      /\ LengthOf(blocks, m) = Len(FlattenSeq(FirstPart(blocks, m)))
  BY DEF LengthOf, FirstPart
<1>2. QED
  BY <1>1, FlattenMonotone

LEMMA LengthsStep ==
  ASSUME NEW S, NEW blocks, NEW n, blocks \in Seq(Seq(S)), n \in 1 .. Len(blocks)
  PROVE  /\ LengthOf(blocks, n) = LengthOf(blocks, n - 1) + Len(blocks[n])
         /\ LengthOf(blocks, n - 1) \in Nat /\ Len(blocks[n]) \in Nat
<1>1. /\ LengthOf(blocks, n) = Len(FlattenSeq(FirstPart(blocks, n)))
      /\ LengthOf(blocks, n - 1) = Len(FlattenSeq(FirstPart(blocks, n - 1)))
  BY DEF LengthOf, FirstPart
<1>2. /\ Len(FlattenSeq(FirstPart(blocks, n - 1))) \in Nat /\ Len(blocks[n]) \in Nat
      /\ Len(FlattenSeq(FirstPart(blocks, n))) =
           Len(FlattenSeq(FirstPart(blocks, n - 1))) + Len(blocks[n])
  BY FlattenStep
<1>3. QED
  BY <1>1, <1>2

LEMMA LengthsEnds ==
  ASSUME NEW S, NEW blocks, blocks \in Seq(Seq(S))
  PROVE  LengthOf(blocks, 0) = 0 /\ LengthOf(blocks, Len(blocks)) = Len(FlattenSeq(blocks))
<1>1. /\ LengthOf(blocks, 0) = Len(FlattenSeq(FirstPart(blocks, 0)))
      /\ LengthOf(blocks, Len(blocks)) = Len(FlattenSeq(FirstPart(blocks, Len(blocks))))
  BY DEF LengthOf, FirstPart
<1>2. QED
  BY <1>1, FlattenNone

LEMMA SmallRemainder ==
  ASSUME NEW v \in Nat, NEW w \in Nat \ {0}, v < w
  PROVE  v % w = v
OBVIOUS

LEMMA LastBlockFound ==
  ASSUME NEW S, NEW start, NEW blocks, NEW size, Searching(S, start, blocks, size)
  PROVE  LET n == LastBlock(start, blocks, size)
         IN  /\ n \in 1 .. Len(blocks)
             /\ LengthOf(blocks, n) >= PACKET_HEADER_SIZE + size - start
             /\ LengthOf(blocks, n - 1) < PACKET_HEADER_SIZE + size - start
<1> DEFINE H == PACKET_HEADER_SIZE
           full == DEFAULT_BLOCK_SIZE
           W == WordMod
           L(n) == LengthOf(blocks, n)
           v(n) == start + L(n) - H
           N == Len(blocks)
           G == {n \in 1 .. N : v(n) >= size}
           D == {n \in 1 .. N : v(n) % W >= size}
<1>1. H \in Nat /\ full \in Nat /\ W \in Nat \ {0}
  BY HeaderSizeHolds, MemBufferAssumption, PacketFramingAssumption DEF HeaderSize
<1>2. /\ blocks \in Seq(Seq(S)) /\ N \in Nat
      /\ start \in Nat /\ size \in Nat /\ size + full <= W
      /\ start + L(N) >= H + size /\ start < H + size
  BY LenProperties DEF Searching
<1>3. start + L(1) >= H
  BY DEF Searching
<1>4. \A i \in 1 .. N : Len(blocks[i]) <= full
  BY DEF Searching
<1>5. ASSUME NEW n \in 1 .. N
      PROVE  /\ L(n) \in Nat /\ L(n - 1) \in Nat /\ L(n) >= L(1)
             /\ L(n) <= L(n - 1) + full
  <2>1. L(n) = L(n - 1) + Len(blocks[n]) /\ L(n - 1) \in Nat /\ Len(blocks[n]) \in Nat
    BY <1>2, LengthsStep
  <2>2. CanCutBoth(Seq(S), blocks, 1, n)
    BY <1>2 DEF CanCutBoth, CanCut
  <2>3. L(1) <= L(n)
    BY <2>2, LengthsGrow
  <2>4. L(1) \in Nat
    <3>1. CanCut(Seq(S), blocks, 1)
      BY <1>2 DEF CanCut
    <3>2. QED
      BY <3>1, Lengths
  <2> HIDE DEF L
  <2>5. Len(blocks[n]) <= full
    BY <1>4
  <2>6. QED
    BY <1>1, <2>1, <2>3, <2>4, <2>5
<1>6. L(0) = 0
  BY <1>2, LengthsEnds
<1> HIDE DEF H, full, W, L, N
<1>7. N # 0
  BY <1>1, <1>2, <1>6
<1>8. G \in SUBSET Nat /\ G # {}
  <2>1. N \in 1 .. N
    BY <1>2, <1>7
  <2>2. L(N) \in Nat
    BY <1>5, <2>1
  <2>3. v(N) >= size
    BY <1>1, <1>2, <2>2
  <2>4. QED
    BY <1>2, <2>1, <2>3
<1>9. PICK m \in G : \A n \in G : m <= n
  <2> HIDE DEF G
  <2>1. QED
    BY <1>8, LeastNatural
<1>10. m \in 1 .. N /\ m \in Nat /\ v(m) >= size
  BY <1>2
<1>11. ASSUME NEW n \in 1 .. m, n # m PROVE v(n) < size /\ n \in 1 .. N
  <2>1. n \in 1 .. N /\ ~(m <= n)
    BY <1>2, <1>10, <1>11
  <2>2. n \notin G
    BY <1>9, <2>1
  <2>3. ~(v(n) >= size) /\ L(n) \in Nat
    BY <1>5, <2>1, <2>2
  <2>4. QED
    BY <1>1, <1>2, <2>1, <2>3
<1>12. L(m - 1) < H + size - start
  <2>1. CASE m = 1
    BY <1>1, <1>2, <1>6, <2>1
  <2>2. CASE m # 1
    <3>1. m - 1 \in 1 .. m /\ m - 1 # m
      BY <1>10, <2>2
    <3>2. v(m - 1) < size
      BY <1>11, <3>1
    <3>3. L(m - 1) \in Nat
      BY <1>5, <1>10
    <3>4. QED
      BY <1>1, <1>2, <3>2, <3>3
  <2>3. QED
    BY <2>1, <2>2
<1>13. ASSUME NEW n \in 1 .. m PROVE v(n) % W = v(n)
  <2>1. n \in 1 .. N
    BY <1>2, <1>10
  <2>2. L(n) \in Nat /\ L(n) >= L(1) /\ L(1) \in Nat
    <3>1. 1 \in 1 .. N
      BY <1>2, <1>7
    <3>2. QED
      BY <1>5, <2>1, <3>1
  <2>3. v(n) \in Nat
    BY <1>1, <1>2, <1>3, <2>2 DEF H
  <2>4. v(n) < W
    <3>1. CASE n = m
      <4>1. L(m) \in Nat /\ L(m - 1) \in Nat /\ L(m) <= L(m - 1) + full
        BY <1>5, <1>10
      <4>2. v(m) < size + full
        <5> DEFINE a == L(m)
                   c == L(m - 1)
        <5>1. a \in Nat /\ c \in Nat /\ a <= c + full /\ c < H + size - start
          BY <1>12, <4>1
        <5>2. v(m) = start + a - H
          OBVIOUS
        <5> HIDE DEF a, c, v
        <5>3. QED
          BY <1>1, <1>2, <5>1, <5>2
      <4> DEFINE x == v(m)
      <4>3. x < W
        <5>1. x < size + full /\ x \in Nat
          BY <2>3, <3>1, <4>2
        <5> HIDE DEF x
        <5>2. QED
          BY <1>1, <1>2, <5>1
      <4>4. QED
        BY <3>1, <4>3
    <3>2. CASE n # m
      <4>1. v(n) < size
        BY <1>11, <3>2
      <4>2. QED
        BY <1>1, <1>2, <2>3, <4>1
    <3>3. QED
      BY <3>1, <3>2
  <2> HIDE DEF v
  <2>5. QED
    BY <1>1, <2>3, <2>4, SmallRemainder
<1>14. m \in D
  <2>1. m \in 1 .. m
    BY <1>10
  <2>2. v(m) % W >= size
    BY <1>10, <1>13, <2>1
  <2>3. QED
    BY <1>10, <2>2
<1>15. D \in SUBSET Nat /\ D # {}
  <2>1. D \subseteq 1 .. N
    OBVIOUS
  <2> HIDE DEF D
  <2>2. QED
    BY <1>2, <1>14, <2>1
<1>16. Min(D) \in D /\ \A n \in D : Min(D) <= n
  <2> HIDE DEF D
  <2>1. QED
    BY <1>15, MinOfNaturals
<1>17. Min(D) = m
  <2> DEFINE k == Min(D)
  <2>1. k \in D /\ k <= m
    BY <1>14, <1>16
  <2> HIDE DEF k
  <2>2. k \in 1 .. m /\ v(k) % W >= size
    BY <1>10, <2>1
  <2>3. k # m => v(k) < size /\ v(k) % W = v(k)
    BY <1>11, <1>13, <2>2
  <2>4. v(k) \in Int
    <3>1. L(k) \in Nat
      BY <1>2, <1>5, <1>10, <2>2
    <3>2. QED
      BY <1>1, <1>2, <3>1
  <2>5. k = m
    <3> HIDE DEF v
    <3>1. QED
      BY <1>2, <2>2, <2>3, <2>4
  <2>6. QED
    BY <2>5 DEF k
<1>18. LastBlock(start, blocks, size) = m
  BY <1>17 DEF LastBlock, L, H, W, N
<1>19. L(m) >= H + size - start
  <2>1. L(m) \in Nat
    BY <1>5, <1>10
  <2>2. QED
    BY <1>1, <1>2, <1>10, <2>1
<1>20. QED
  BY <1>10, <1>12, <1>18, <1>19 DEF L, H, N

-----------------------------------------------------------------------------
(* recv and buffer count what they hold *)
Exact(S, recv, buffer) == IsExact(recv, S) /\ IsExact(buffer, S)

LEMMA WorkTyped ==
  ASSUME NEW S, NEW recv, NEW buffer, Exact(S, recv, buffer)
  PROVE  /\ Work(recv, buffer) \in Seq(S)
         /\ Len(Work(recv, buffer)) = RecvSize(recv, buffer)
         /\ RecvSize(recv, buffer) = recv.size_ + buffer.size_
         /\ recv.size_ \in Nat /\ buffer.size_ \in Nat
         /\ Bytes(recv) \in Seq(S) /\ Bytes(buffer) \in Seq(S)
         /\ recv.size_ = Len(Bytes(recv)) /\ buffer.size_ = Len(Bytes(buffer))
<1>1. recv \in Buffers(S) /\ buffer \in Buffers(S)
      /\ recv.size_ = Len(Bytes(recv)) /\ buffer.size_ = Len(Bytes(buffer))
  BY DEF Exact, IsExact
<1>2. Bytes(recv) \in Seq(S) /\ Bytes(buffer) \in Seq(S)
      /\ recv.size_ \in Nat /\ buffer.size_ \in Nat
  BY <1>1, BytesTyped
<1> DEFINE a == Bytes(recv)
           b == Bytes(buffer)
<1> HIDE DEF a, b
<1>3. a \o b \in Seq(S) /\ Len(a \o b) = Len(a) + Len(b)
  BY <1>2, CutAtJoint DEF a, b
<1>4. QED
  BY <1>1, <1>2, <1>3 DEF a, b, Work, RecvSize

LEMMA HeaderBytesAre ==
  ASSUME NEW S, NEW recv, NEW buffer, Exact(S, recv, buffer), HeaderComplete(recv, buffer)
  PROVE  /\ HeaderBytes(recv, buffer) = FirstPart(Work(recv, buffer), PACKET_HEADER_SIZE)
         /\ \A i \in 1 .. PACKET_HEADER_SIZE :
              HeaderBytes(recv, buffer)[i] = Work(recv, buffer)[i]
         /\ PACKET_HEADER_SIZE <= Len(Work(recv, buffer))
<1> DEFINE H == PACKET_HEADER_SIZE
           a == Bytes(recv)
           b == Bytes(buffer)
           x == Work(recv, buffer)
           m == recv.size_
<1>1. H \in Nat
  BY HeaderSizeHolds DEF HeaderSize
<1>2. /\ a \in Seq(S) /\ b \in Seq(S) /\ m = Len(a) /\ m \in Nat /\ Len(b) \in Nat
      /\ x \in Seq(S) /\ Len(x) = m + Len(b)
  BY WorkTyped
<1>0. a \in Seq(S) /\ b \in Seq(S)
  BY WorkTyped
<1>3. H <= Len(x)
  BY WorkTyped DEF HeaderComplete
<1>4. x = a \o b
  BY DEF Work
<1>5. HeaderBytes(recv, buffer) = FirstPart(x, H)
  <2>1. CASE m >= H
    <3>1. HeaderBytes(recv, buffer) = FirstPart(a, H) \o FirstPart(b, 0)
      <4>1. HeaderBytes(recv, buffer) = CopyBytes(recv, H) \o CopyBytes(buffer, H - H)
        BY <2>1 DEF HeaderBytes
      <4>2. H - H = 0
        BY <1>1
      <4>3. QED
        BY <4>1, <4>2 DEF CopyBytes, FirstPart
    <3> HIDE DEF H, a, b, x, m
    <3>2. CanCut(S, a, H) /\ CanCut(S, b, 0)
      BY <1>1, <1>2, <2>1 DEF CanCut
    <3>3. FirstPart(a \o b, H) = FirstPart(a, H) /\ FirstPart(a, H) \in Seq(S)
      <4>1. FirstPart(a \o b, H) = FirstPart(a, H)
        <5>1. CutsFirst(S, a, b, H)
          BY <1>0, <3>2 DEF CutsFirst
        <5>2. QED
          BY <5>1, CutInFirst
      <4>2. FirstPart(a, H) \in Seq(S)
        BY <3>2, CutParts
      <4>3. QED
        BY <4>1, <4>2
    <3>4. FirstPart(b, 0) \in Seq(S) /\ Len(FirstPart(b, 0)) = 0
      BY <3>2, CutParts
    <3>5. FirstPart(b, 0) = <<>>
      BY <3>4, EmptySeq
    <3>6. FirstPart(a, H) \o <<>> = FirstPart(a, H)
      BY <3>3, ConcatEmptySeq
    <3>7. QED
      BY <1>4, <3>1, <3>3, <3>5, <3>6
  <2>2. CASE ~(m >= H)
    <3> DEFINE k == H - m
    <3>1. HeaderBytes(recv, buffer) = FirstPart(a, m) \o FirstPart(b, k)
      BY <2>2 DEF HeaderBytes, CopyBytes, FirstPart
    <3>2. k \in 0 .. Len(b) /\ H = m + k
      BY <1>1, <1>2, <1>3, <2>2
    <3> HIDE DEF H, a, b, x, m, k
    <3>3. CutsSecond(S, a, b, k) /\ CanCut(S, a, m)
      BY <1>2, <3>2 DEF CutsSecond, CanCut
    <3>4. Joins(S, FirstPart(a \o b, Len(a) + k), a, FirstPart(b, k))
      BY <3>3, CutInSecond
    <3>5. FirstPart(a, m) = a
      <4> DEFINE c == FirstPart(a, m)
      <4>0. CanCut(S, a, m)
        BY <3>3
      <4>1. c \in Seq(S) /\ Len(c) = m /\ \A i \in 1 .. m : c[i] = a[i]
        BY <4>0, CutParts
      <4> HIDE DEF c
      <4>2. c = a
        BY <1>2, <4>1, SeqEqual
      <4>3. QED
        BY <4>2 DEF c
    <3>6. QED
      BY <1>2, <1>4, <3>1, <3>2, <3>4, <3>5 DEF Joins
  <2>3. QED
    BY <2>1, <2>2
<1>6. ASSUME NEW i \in 1 .. H PROVE HeaderBytes(recv, buffer)[i] = x[i]
  <2> HIDE DEF H, x, m
  <2>1. CanCut(S, x, H)
    BY <1>1, <1>2, <1>3 DEF CanCut
  <2>2. FirstPart(x, H)[i] = x[i]
    BY <2>1, CutParts
  <2>3. QED
    BY <1>5, <2>2
<1>7. QED
  BY <1>3, <1>5, <1>6

-----------------------------------------------------------------------------
(* The header at the start of what AnalysisPacket works on. *)

(* a turn of AnalysisPacket that finds a whole packet *)
Taking(recv, buffer, plan) ==
  /\ plan \in Seq(Nat)
  /\ Exact(BytesOf(plan), recv, buffer)
  /\ BlocksFit(buffer) /\ HoldsNoPacket(recv, plan)
  /\ \A p \in DOMAIN plan : plan[p] + DEFAULT_BLOCK_SIZE <= WordMod
  /\ HeaderComplete(recv, buffer) /\ HeaderGood(recv, buffer)
  /\ PacketComplete(recv, buffer, plan) /\ ~HeaderSplit(recv, buffer)

NumberOf(recv, buffer) == Work(recv, buffer)[1][1]

(* a good header names a packet of the peer's *)
GoodHeader(recv, buffer, plan) ==
  /\ plan \in Seq(Nat)
  /\ Exact(BytesOf(plan), recv, buffer)
  /\ HeaderComplete(recv, buffer) /\ HeaderGood(recv, buffer)

LEMMA HeaderNames ==
  ASSUME NEW recv, NEW buffer, NEW plan, GoodHeader(recv, buffer, plan)
  PROVE  /\ NumberOf(recv, buffer) \in DOMAIN plan
         /\ DataSize(recv, buffer, plan) = plan[NumberOf(recv, buffer)]
         /\ plan[NumberOf(recv, buffer)] \in Nat
<1> DEFINE H == PACKET_HEADER_SIZE
           x == Work(recv, buffer)
           S == BytesOf(plan)
           h == HeaderBytes(recv, buffer)
<1>1. Exact(S, recv, buffer) /\ HeaderComplete(recv, buffer) /\ plan \in Seq(Nat)
  BY DEF GoodHeader
<1>2. x \in Seq(S)
  BY <1>1, WorkTyped
<1>3. H <= Len(x) /\ \A i \in 1 .. H : h[i] = x[i]
  BY <1>1, HeaderBytesAre
<1>4. H \in Nat /\ H >= 3 /\ 1 \in 1 .. H
  BY HeaderSizeHolds DEF HeaderSize
<1>5. h[1] = x[1] /\ h[1][2] = 1
  BY <1>3, <1>4 DEF GoodHeader, HeaderGood
<1>6. x[1] \in S
  <2>1. Len(x) \in Nat /\ 1 \in 1 .. Len(x)
    BY <1>2, <1>3, <1>4, LenProperties
  <2> HIDE DEF S, x
  <2>2. QED
    BY <1>2, <2>1, ElementOfSeq
<1>7. x[1] # Junk
  BY <1>5 DEF Junk
<1>8. x[1][1] \in DOMAIN plan
  <2> HIDE DEF x
  <2>1. QED
    BY <1>6, <1>7 DEF BytesOf
<1>9. DataSize(recv, buffer, plan) = plan[x[1][1]]
  BY <1>5 DEF DataSize
<1>10. plan[x[1][1]] \in Nat
  <2> DEFINE p == x[1][1]
  <2> HIDE DEF p
  <2>1. p \in DOMAIN plan
    BY <1>8 DEF p
  <2>2. plan[p] \in Nat
    BY <1>1, <2>1, ElementOfSeq, LenProperties
  <2>3. QED
    BY <2>2 DEF p
<1>11. QED
  BY <1>8, <1>9, <1>10 DEF NumberOf

LEMMA TakingNumbers ==
  ASSUME NEW recv, NEW buffer, NEW plan, Taking(recv, buffer, plan)
  PROVE  LET n == PACKET_HEADER_SIZE + plan[NumberOf(recv, buffer)]
         IN  /\ n \in Nat /\ n >= PACKET_HEADER_SIZE
             /\ n <= Len(Work(recv, buffer))
             /\ recv.size_ < n
             /\ n + DEFAULT_BLOCK_SIZE <= PACKET_HEADER_SIZE + WordMod
             /\ DataSize(recv, buffer, plan) = plan[NumberOf(recv, buffer)]
             /\ plan[NumberOf(recv, buffer)] \in Nat
<1> DEFINE H == PACKET_HEADER_SIZE
           x == Work(recv, buffer)
           p == NumberOf(recv, buffer)
           S == BytesOf(plan)
           a == Bytes(recv)
           b == Bytes(buffer)
<1>1. Exact(S, recv, buffer)
  BY DEF Taking
<1>2. p \in DOMAIN plan /\ DataSize(recv, buffer, plan) = plan[p] /\ plan[p] \in Nat
  <2>1. GoodHeader(recv, buffer, plan)
    BY DEF Taking, GoodHeader
  <2>2. QED
    BY <2>1, HeaderNames
<1>3. /\ a \in Seq(S) /\ b \in Seq(S) /\ recv.size_ = Len(a) /\ recv.size_ \in Nat
      /\ buffer.size_ \in Nat
      /\ Len(x) = RecvSize(recv, buffer) /\ RecvSize(recv, buffer) = recv.size_ + buffer.size_
  BY <1>1, WorkTyped
<1>4. H \in Nat /\ H >= 3
  BY HeaderSizeHolds DEF HeaderSize
<1>5. plan[p] <= RecvSize(recv, buffer) - H
  BY <1>2 DEF Taking, PacketComplete
<1>6. plan[p] + DEFAULT_BLOCK_SIZE <= WordMod
  BY <1>2 DEF Taking
<1>7. recv.size_ < H + plan[p]
  <2>1. CASE recv.size_ >= H
    <3>1. recv.size_ < H + plan[a[1][1]]
      BY <2>1 DEF Taking, HoldsNoPacket
    <3>2. a[1] = x[1]
      <4>1. x = a \o b
        BY DEF Work
      <4>2. 1 \in 1 .. Len(a)
        BY <1>3, <1>4, <2>1
      <4> HIDE DEF a, b, S, x
      <4>3. QED
        BY <1>3, <4>1, <4>2, ConcatProperties
    <3>3. QED
      BY <3>1, <3>2 DEF NumberOf
  <2>2. CASE ~(recv.size_ >= H)
    BY <1>2, <1>3, <1>4, <2>2
  <2>3. QED
    BY <2>1, <2>2
<1>8. DEFAULT_BLOCK_SIZE \in Nat /\ WordMod \in Nat
  BY MemBufferAssumption, PacketFramingAssumption
<1> DEFINE k == plan[p]
           n == H + k
<1>9. /\ n \in Nat /\ n >= H /\ n <= Len(x) /\ recv.size_ < n
      /\ n + DEFAULT_BLOCK_SIZE <= H + WordMod
  <2>1. Len(x) = recv.size_ + buffer.size_ /\ k <= (recv.size_ + buffer.size_) - H
    BY <1>3, <1>5
  <2>2. k \in Nat /\ k + DEFAULT_BLOCK_SIZE <= WordMod /\ recv.size_ < H + k
    BY <1>2, <1>6, <1>7
  <2> HIDE DEF H, k, x
  <2>3. QED
    BY <1>3, <1>4, <1>8, <2>1, <2>2
<1> HIDE DEF n
<1>10. QED
  BY <1>2, <1>9 DEF n

(* the block in which the packet ends, and what is looked at up to it *)
LEMMA TakingSearches ==
  ASSUME NEW recv, NEW buffer, NEW plan, Taking(recv, buffer, plan)
  PROVE  LET size   == plan[NumberOf(recv, buffer)]
             needed == size + PACKET_HEADER_SIZE - recv.size_
             m      == LastBlock(recv.size_, buffer.blocks_, size)
         IN  /\ m \in 1 .. Len(buffer.blocks_) /\ needed \in Nat
             /\ LengthOf(buffer.blocks_, m) >= needed
             /\ LengthOf(buffer.blocks_, m - 1) < needed
<1> DEFINE H == PACKET_HEADER_SIZE
           S == BytesOf(plan)
           size == plan[NumberOf(recv, buffer)]
           bs == buffer.blocks_
           start == recv.size_
<1>1. Exact(S, recv, buffer)
  BY DEF Taking
<1>2. /\ H + size <= Len(Work(recv, buffer)) /\ start < H + size
      /\ H + size + DEFAULT_BLOCK_SIZE <= H + WordMod /\ size \in Nat
  BY TakingNumbers
<1>3. /\ start \in Nat /\ buffer.size_ \in Nat
      /\ buffer.size_ = Len(Bytes(buffer))
      /\ Len(Work(recv, buffer)) = start + buffer.size_
  BY <1>1, WorkTyped
<1>4. bs \in Seq(Seq(S))
  BY <1>1, BytesTyped DEF Exact, IsExact
<1>5. LengthOf(bs, 0) = 0 /\ LengthOf(bs, Len(bs)) = Len(Bytes(buffer))
  BY <1>4, LengthsEnds DEF Bytes
<1>6. H \in Nat /\ DEFAULT_BLOCK_SIZE \in Nat /\ WordMod \in Nat /\ H >= 3
  BY HeaderSizeHolds, MemBufferAssumption, PacketFramingAssumption DEF HeaderSize
<1>7. Len(bs) \in Nat /\ DOMAIN bs = 1 .. Len(bs)
  BY <1>4, LenProperties
<1>8. Len(bs) # 0
  <2>1. Len(Bytes(buffer)) # 0
    <3> HIDE DEF H, size, start
    <3>1. QED
      BY <1>2, <1>3, <1>6
  <2> HIDE DEF bs
  <2>2. QED
    BY <1>5, <2>1
<1>9. LengthOf(bs, 1) \in Nat
  <2>1. CanCut(Seq(S), bs, 1)
    <3> HIDE DEF bs, S
    <3>1. QED
      BY <1>4, <1>7, <1>8 DEF CanCut
  <2>2. QED
    BY <2>1, Lengths
<1>10. start + LengthOf(bs, 1) >= H
  <2>1. ~(LengthOf(bs, 1) + start < H)
    BY DEF Taking, HeaderSplit
  <2> DEFINE l == LengthOf(bs, 1)
  <2> HIDE DEF l, start, H
  <2>2. QED
    BY <1>3, <1>6, <1>9, <2>1 DEF l
<1>11. \A i \in 1 .. Len(bs) : Len(bs[i]) <= DEFAULT_BLOCK_SIZE
  BY <1>7 DEF Taking, BlocksFit
<1>12. start + LengthOf(bs, Len(bs)) >= H + size
  BY <1>2, <1>3, <1>5
<1>13. size + DEFAULT_BLOCK_SIZE <= WordMod
  <2> HIDE DEF H, size
  <2>1. QED
    BY <1>2, <1>6
<1>14. Searching(S, start, bs, size)
  <2> HIDE DEF H, size, bs, start, S
  <2>1. QED
    BY <1>2, <1>3, <1>4, <1>10, <1>11, <1>12, <1>13 DEF Searching, H
<1> DEFINE m == LastBlock(start, bs, size)
           K == H + size - start
<1>15. m \in 1 .. Len(bs) /\ LengthOf(bs, m) >= K /\ LengthOf(bs, m - 1) < K
  BY <1>14, LastBlockFound
<1>16. K = size + H - start /\ K \in Nat
  <2> HIDE DEF H, size, start
  <2>1. QED
    BY <1>2, <1>3, <1>6
<1> HIDE DEF m, K
<1>17. QED
  BY <1>15, <1>16 DEF m

-----------------------------------------------------------------------------
(* TakePacket: what is taken out and what is left. *)

LEMMA MinWhenLess ==
  ASSUME NEW n, NEW k, n \in Nat, k \in Nat, n <= k
  PROVE  Min({n, k}) = n
<1> DEFINE D == {n, k}
<1>1. D \in SUBSET Nat /\ D # {} /\ n \in D
  OBVIOUS
<1>2. \A y \in D : y = n \/ y = k
  OBVIOUS
<1> HIDE DEF D
<1>3. Min(D) \in D /\ \A y \in D : Min(D) <= y
  BY <1>1, MinOfNaturals
<1> DEFINE z == Min(D)
<1>4. z \in D /\ z <= n
  BY <1>1, <1>3
<1> HIDE DEF z
<1>5. z = n
  BY <1>2, <1>4
<1>6. QED
  BY <1>5 DEF z, D

LEMMA NothingMissing ==
  ASSUME NEW n, NEW k, NEW c, n \in Nat, k \in Nat, n <= k
  PROVE  [i \in 1 .. n - k |-> c] = <<>>
<1>1. 1 .. n - k = {}
  OBVIOUS
<1>2. QED
  BY <1>1

(* blocks of which the first m hold `needed` bytes: those bytes and others *)
Splits(S, blocks, m, needed) ==
  /\ CanCut(Seq(S), blocks, m) /\ m # 0
  /\ \A i \in 1 .. Len(blocks) : Len(blocks[i]) <= DEFAULT_BLOCK_SIZE
  /\ needed \in Nat
  /\ LengthOf(blocks, m) >= needed /\ LengthOf(blocks, m - 1) < needed

Searched(blocks, m) == FlattenSeq(SubSeq(blocks, 1, m))
Leaves(blocks, m, needed) ==
  (IF needed = Len(Searched(blocks, m)) THEN <<>>
   ELSE <<SubSeq(Searched(blocks, m), needed + 1, Len(Searched(blocks, m)))>>)
    \o SubSeq(blocks, m + 1, Len(blocks))

LEMMA SearchedWhole ==
  ASSUME NEW S, NEW blocks, NEW m, NEW needed, Splits(S, blocks, m, needed)
  PROVE  /\ CanCut(S, Searched(blocks, m), needed)
         /\ Joins(S, FlattenSeq(blocks), Searched(blocks, m), FlattenSeq(RestOf(blocks, m)))
         /\ RestOf(blocks, m) \in Seq(Seq(S))
         /\ Len(Searched(blocks, m)) - needed <= DEFAULT_BLOCK_SIZE
<1> DEFINE T == Seq(S)
           s == Searched(blocks, m)
<1>1. CanCut(T, blocks, m) /\ m \in 1 .. Len(blocks) /\ blocks \in Seq(T)
  BY DEF Splits, CanCut
<1>2. s = FlattenSeq(FirstPart(blocks, m)) /\ Len(s) = LengthOf(blocks, m)
  BY DEF Searched, FirstPart, LengthOf
<1>3. /\ FirstPart(blocks, m) \in Seq(T) /\ RestOf(blocks, m) \in Seq(T)
      /\ Joins(S, FlattenSeq(blocks), FlattenSeq(FirstPart(blocks, m)), FlattenSeq(RestOf(blocks, m)))
      /\ Len(FlattenSeq(FirstPart(blocks, m))) \in Nat
  BY <1>1, FlattenCut
<1>4. s \in Seq(S)
  BY <1>2, <1>3, FlattenTyped
<1>5. /\ LengthOf(blocks, m) = LengthOf(blocks, m - 1) + Len(blocks[m])
      /\ LengthOf(blocks, m - 1) \in Nat /\ Len(blocks[m]) \in Nat
  BY <1>1, LengthsStep
<1>6. Len(blocks[m]) <= DEFAULT_BLOCK_SIZE
  BY <1>1 DEF Splits
<1>7. needed \in Nat /\ Len(s) >= needed /\ LengthOf(blocks, m - 1) < needed
  BY <1>2 DEF Splits
<1> HIDE DEF s
<1>8. needed \in 0 .. Len(s) /\ Len(s) - needed <= DEFAULT_BLOCK_SIZE
  <2> DEFINE l == LengthOf(blocks, m - 1)
             k == Len(blocks[m])
             q == Len(s)
  <2>1. q = l + k /\ l \in Nat /\ k \in Nat /\ k <= DEFAULT_BLOCK_SIZE
        /\ needed \in Nat /\ q >= needed /\ l < needed
    BY <1>2, <1>5, <1>6, <1>7
  <2> HIDE DEF l, k, q
  <2>2. needed \in 0 .. q /\ q - needed <= DEFAULT_BLOCK_SIZE
    BY <2>1, MemBufferAssumption
  <2>3. QED
    BY <2>2 DEF q
<1>9. QED
  BY <1>2, <1>3, <1>4, <1>8 DEF s, CanCut

(* what is left is a buffer of what follows the bytes needed *)
LEMMA LeavesRest ==
  ASSUME NEW S, NEW blocks, NEW m, NEW needed, Splits(S, blocks, m, needed)
  PROVE  /\ Leaves(blocks, m, needed) \in Seq(Seq(S))
         /\ Joins(S, FlattenSeq(Leaves(blocks, m, needed)),
                  RestOf(Searched(blocks, m), needed), FlattenSeq(RestOf(blocks, m)))
         /\ \A i \in 1 .. Len(Leaves(blocks, m, needed)) :
              Len(Leaves(blocks, m, needed)[i]) <= DEFAULT_BLOCK_SIZE
<1> DEFINE s == Searched(blocks, m)
           r == RestOf(s, needed)
           c == IF needed = Len(s) THEN <<>> ELSE <<r>>
           d == RestOf(blocks, m)
           v == Leaves(blocks, m, needed)
<1>1. /\ CanCut(S, s, needed) /\ d \in Seq(Seq(S))
      /\ Len(s) - needed <= DEFAULT_BLOCK_SIZE
  BY SearchedWhole
<1>2. v = c \o d
  BY DEF Leaves, RestOf
<1>3. r \in Seq(S) /\ Len(r) = Len(s) - needed /\ Len(s) \in Nat
  BY <1>1, CutParts
<1>4. needed \in Nat
  BY DEF Splits
<1> HIDE DEF s, r, d, v
<1>5. c \in Seq(Seq(S)) /\ FlattenSeq(c) = r
  <2>1. CASE needed = Len(s)
    <3>1. r = <<>>
      <4>1. Len(r) = 0
        BY <1>3, <1>4, <2>1
      <4>2. QED
        BY <1>3, <4>1, EmptySeq
    <3>2. c = <<>>
      BY <2>1
    <3>3. <<>> \in Seq(Seq(S))
      BY EmptySeq
    <3>4. QED
      BY <3>1, <3>2, <3>3, FlattenEmpty
  <2>2. CASE needed # Len(s)
    <3>1. c = <<r>>
      BY <2>2
    <3>2. QED
      BY <1>3, <3>1, FlattenOne
  <2>3. QED
    BY <2>1, <2>2
<1>6. \A i \in 1 .. Len(c) : Len(c[i]) <= DEFAULT_BLOCK_SIZE
  <2>1. Len(r) <= DEFAULT_BLOCK_SIZE
    BY <1>1, <1>3
  <2>2. QED
    BY <2>1
<1>7. \A i \in 1 .. Len(d) : Len(d[i]) <= DEFAULT_BLOCK_SIZE
  <2>1. CanCut(Seq(S), blocks, m) /\ m \in Nat /\ Len(blocks) \in Nat /\ m <= Len(blocks)
    BY LenProperties DEF Splits, CanCut
  <2>2. Len(d) = Len(blocks) - m /\ \A i \in 1 .. Len(blocks) - m : d[i] = blocks[m + i]
    <3>1. CanCut(Seq(S), blocks, m)
      BY <2>1
    <3>2. /\ Len(RestOf(blocks, m)) = Len(blocks) - m
          /\ \A i \in 1 .. Len(blocks) - m : RestOf(blocks, m)[i] = blocks[m + i]
      BY <3>1, CutParts
    <3>3. QED
      BY <3>2 DEF d
  <2>3. \A i \in 1 .. Len(blocks) : Len(blocks[i]) <= DEFAULT_BLOCK_SIZE
    BY DEF Splits
  <2>4. ASSUME NEW i \in 1 .. Len(d) PROVE Len(d[i]) <= DEFAULT_BLOCK_SIZE
    <3>1. m + i \in 1 .. Len(blocks) /\ d[i] = blocks[m + i]
      BY <2>1, <2>2
    <3>2. QED
      BY <2>3, <3>1
  <2>5. QED
    BY <2>4
<1> HIDE DEF c
<1>8. v \in Seq(Seq(S)) /\ FlattenSeq(v) = FlattenSeq(c) \o FlattenSeq(d)
  BY <1>1, <1>2, <1>5, FlattenConcat
<1>9. FlattenSeq(d) \in Seq(S)
  BY <1>1, FlattenTyped
<1>10. Joins(S, FlattenSeq(v), r, FlattenSeq(d))
  BY <1>3, <1>5, <1>8, <1>9 DEF Joins
<1>11. ASSUME NEW i \in 1 .. Len(v) PROVE Len(v[i]) <= DEFAULT_BLOCK_SIZE
  <2>1. Len(v) = Len(c) + Len(d) /\ Len(c) \in Nat /\ Len(d) \in Nat
    BY <1>1, <1>2, <1>5, CutAtJoint
  <2>2. v[i] = IF i <= Len(c) THEN c[i] ELSE d[i - Len(c)]
    BY <1>1, <1>2, <1>5, <2>1, ConcatProperties
  <2>3. CASE i <= Len(c)
    <3>1. i \in 1 .. Len(c)
      BY <2>1, <2>3
    <3>2. QED
      BY <1>6, <2>2, <2>3, <3>1
  <2>4. CASE ~(i <= Len(c))
    <3>1. i - Len(c) \in 1 .. Len(d)
      BY <2>1, <2>4
    <3>2. QED
      BY <1>7, <2>2, <2>4, <3>1
  <2>5. QED
    BY <2>3, <2>4
<1>12. QED
  BY <1>8, <1>10, <1>11 DEF v, r, s, d

LEMMA TakePacketWorks ==
  ASSUME NEW recv, NEW buffer, NEW plan, Taking(recv, buffer, plan)
  PROVE  LET n == PACKET_HEADER_SIZE + plan[NumberOf(recv, buffer)]
             x == Work(recv, buffer)
             result == TakePacket(recv, buffer, plan)
         IN  /\ result.packet = RestOf(FirstPart(x, n), PACKET_HEADER_SIZE)
             /\ IsExact(result.buffer, BytesOf(plan)) /\ BlocksFit(result.buffer)
             /\ Bytes(result.buffer) = RestOf(x, n)
<1> DEFINE S == BytesOf(plan)
           H == PACKET_HEADER_SIZE
           size == plan[NumberOf(recv, buffer)]
           n == H + size
           x == Work(recv, buffer)
           a == Bytes(recv)
           b == Bytes(buffer)
           bs == buffer.blocks_
           start == recv.size_
           needed == size + H - start
           m == LastBlock(start, bs, size)
           s == Searched(bs, m)
           tl == FlattenSeq(RestOf(bs, m))
           v == Leaves(bs, m, needed)
           packet == a \o SubSeq(s, 1, Min({needed, Len(s)}))
                       \o [i \in 1 .. needed - Len(s) |-> Junk]
           result == TakePacket(recv, buffer, plan)
<1>1. Exact(S, recv, buffer)
  BY DEF Taking
<1>2. /\ m \in 1 .. Len(bs) /\ needed \in Nat
      /\ LengthOf(bs, m) >= needed /\ LengthOf(bs, m - 1) < needed
  BY TakingSearches
<1>3. /\ x \in Seq(S) /\ Len(x) = start + buffer.size_ /\ start \in Nat /\ buffer.size_ \in Nat
      /\ a \in Seq(S) /\ b \in Seq(S) /\ start = Len(a) /\ buffer.size_ = Len(b)
  BY <1>1, WorkTyped
<1>4. bs \in Seq(Seq(S))
  BY <1>1, BytesTyped DEF Exact, IsExact
<1>5. DataSize(recv, buffer, plan) = size /\ n \in Nat /\ size \in Nat
  BY TakingNumbers
<1>6. n = Len(a) + needed
  <2>1. H \in Nat
    BY HeaderSizeHolds DEF HeaderSize
  <2> HIDE DEF H, size, start, a
  <2>2. QED
    BY <1>3, <1>5, <2>1
<1>7. Splits(S, bs, m, needed)
  <2>1. \A i \in 1 .. Len(bs) : Len(bs[i]) <= DEFAULT_BLOCK_SIZE
    <3>1. DOMAIN bs = 1 .. Len(bs)
      BY <1>4, LenProperties
    <3>2. QED
      BY <3>1 DEF Taking, BlocksFit
  <2>2. CanCut(Seq(S), bs, m) /\ m # 0
    <3>1. Len(bs) \in Nat
      BY <1>4, LenProperties
    <3> HIDE DEF bs, m, S
    <3>2. QED
      BY <1>2, <1>4, <3>1 DEF CanCut
  <2> HIDE DEF bs, m, needed, S
  <2>3. QED
    BY <1>2, <2>1, <2>2 DEF Splits
<1>8. /\ result.packet = SubSeq(packet, H + 1, Len(packet))
      /\ result.buffer = [blocks_ |-> v, size_ |-> buffer.size_ - needed]
  <2>1. result = [packet |-> SubSeq(packet, H + 1, Len(packet)),
                  buffer |-> [blocks_ |-> v, size_ |-> buffer.size_ - needed]]
    <3> HIDE DEF size
    <3>1. QED
      BY <1>5 DEF TakePacket, Searched, Leaves
  <2> HIDE DEF packet, v, needed, result
  <2>2. QED
    BY <2>1
<1> HIDE DEF m, bs, needed, size
<1>9. /\ CanCut(S, s, needed) /\ Joins(S, b, s, tl)
      /\ RestOf(bs, m) \in Seq(Seq(S))
  BY <1>7, SearchedWhole DEF b, bs, Bytes
<1>10. /\ v \in Seq(Seq(S)) /\ Joins(S, FlattenSeq(v), RestOf(s, needed), tl)
       /\ \A i \in 1 .. Len(v) : Len(v[i]) <= DEFAULT_BLOCK_SIZE
  BY <1>7, LeavesRest
<1> HIDE DEF s, tl, v, x, a, b, result
<1>11. CutsFirst(S, s, tl, needed) /\ s \in Seq(S) /\ tl \in Seq(S) /\ b = s \o tl
       /\ Len(s) \in Nat /\ needed <= Len(s)
  BY <1>9, LenProperties DEF CutsFirst, CanCut, Joins
<1>12. /\ FirstPart(s \o tl, needed) = FirstPart(s, needed)
       /\ Joins(S, RestOf(s \o tl, needed), RestOf(s, needed), tl)
       /\ CanCut(S, s \o tl, needed)
  BY <1>11, CutInFirst
<1>13. /\ FirstPart(b, needed) = FirstPart(s, needed) /\ CanCut(S, b, needed)
       /\ RestOf(b, needed) = FlattenSeq(v)
  <2>1. /\ FirstPart(b, needed) = FirstPart(s, needed) /\ CanCut(S, b, needed)
        /\ Joins(S, RestOf(b, needed), RestOf(s, needed), tl)
    BY <1>11, <1>12
  <2>2. RestOf(b, needed) = FlattenSeq(v)
    BY <1>10, <2>1 DEF Joins
  <2>3. QED
    BY <2>1, <2>2
<1>14. CutsSecond(S, a, b, needed)
  BY <1>3, <1>13 DEF CutsSecond
<1>15. /\ Joins(S, FirstPart(a \o b, Len(a) + needed), a, FirstPart(b, needed))
       /\ RestOf(a \o b, Len(a) + needed) = RestOf(b, needed)
  BY <1>14, CutInSecond
<1>16. x = a \o b
  BY DEF x, a, b, Work
<1> HIDE DEF n
<1>17. /\ Joins(S, FirstPart(x, n), a, FirstPart(b, needed)) /\ RestOf(x, n) = RestOf(b, needed)
  BY <1>6, <1>15, <1>16
<1>18. packet = FirstPart(x, n)
  <2>1. Min({needed, Len(s)}) = needed
    BY <1>2, <1>11, MinWhenLess
  <2>2. [i \in 1 .. needed - Len(s) |-> Junk] = <<>>
    BY <1>2, <1>11, NothingMissing
  <2>3. packet = (a \o FirstPart(s, needed)) \o <<>>
    BY <2>1, <2>2 DEF FirstPart
  <2>4. FirstPart(x, n) = a \o FirstPart(s, needed) /\ FirstPart(x, n) \in Seq(S)
    <3>1. a \in Seq(S) /\ FirstPart(b, needed) \in Seq(S) /\ FirstPart(x, n) = a \o FirstPart(b, needed)
      BY <1>17 DEF Joins
    <3>2. a \o FirstPart(b, needed) \in Seq(S)
      <4> DEFINE q == FirstPart(b, needed)
      <4> HIDE DEF q
      <4>1. a \o q \in Seq(S)
        BY <3>1, CutAtJoint DEF q
      <4>2. QED
        BY <4>1 DEF q
    <3>3. QED
      BY <1>13, <3>1, <3>2
  <2>5. FirstPart(x, n) \o <<>> = FirstPart(x, n)
    BY <2>4, ConcatEmptySeq
  <2>6. QED
    BY <2>3, <2>4, <2>5
<1>19. result.packet = RestOf(FirstPart(x, n), H)
  BY <1>8, <1>18 DEF RestOf
<1>20. result.buffer.blocks_ = v /\ result.buffer.size_ = buffer.size_ - needed
  BY <1>8
<1>21. Bytes(result.buffer) = RestOf(x, n)
  BY <1>13, <1>17, <1>20 DEF Bytes
<1>22. BlocksFit(result.buffer)
  <2>1. DOMAIN v = 1 .. Len(v)
    BY <1>10, LenProperties
  <2>2. QED
    BY <1>10, <1>20, <2>1 DEF BlocksFit
<1>23. IsExact(result.buffer, S)
  <2> DEFINE k == buffer.size_ - needed
  <2>1. Len(RestOf(b, needed)) = Len(b) - needed /\ Len(b) \in Nat /\ needed \in 0 .. Len(b)
    <3>1. CanCut(S, b, needed)
      BY <1>13
    <3>2. Len(RestOf(b, needed)) = Len(b) - needed /\ Len(b) \in Nat
      BY <3>1, CutParts
    <3>3. QED
      BY <3>1, <3>2 DEF CanCut
  <2>2. k \in Nat /\ k = Len(RestOf(b, needed))
    BY <1>3, <2>1
  <2> HIDE DEF k
  <2>3. result.buffer = [blocks_ |-> v, size_ |-> k]
    BY <1>8 DEF k
  <2>4. result.buffer \in Buffers(S)
    BY <1>10, <2>2, <2>3, BufferFields
  <2>5. result.buffer.size_ = Len(Bytes(result.buffer))
    BY <1>17, <1>20, <1>21, <2>2 DEF k
  <2>6. QED
    BY <2>4, <2>5 DEF IsExact
<1>24. QED
  BY <1>19, <1>21, <1>22, <1>23 DEF n, result, x, size

-----------------------------------------------------------------------------
(* Turns of AnalysisPacket on a stream of which nothing was lost: d        *)
(* packets were delivered, tk bytes received.                              *)
Turning(recv, buffer, plan, d, tk) ==
  /\ plan \in Seq(Nat)
  /\ Exact(BytesOf(plan), recv, buffer)
  /\ Streaming(plan, d, Work(recv, buffer), tk)
  /\ HeaderComplete(recv, buffer)

LEMMA HeaderOfStream ==
  ASSUME NEW recv, NEW buffer, NEW plan, NEW d, NEW tk, Turning(recv, buffer, plan, d, tk)
  PROVE  /\ HeaderGood(recv, buffer) /\ NumberOf(recv, buffer) = d + 1
         /\ ~Ended(plan, d)
<1> DEFINE H == PACKET_HEADER_SIZE
           x == Work(recv, buffer)
           S == BytesOf(plan)
           h == HeaderBytes(recv, buffer)
<1>1. Exact(S, recv, buffer) /\ HeaderComplete(recv, buffer) /\ Streaming(plan, d, x, tk)
  BY DEF Turning
<1>2. H <= Len(x) /\ \A i \in 1 .. H : h[i] = x[i]
  BY <1>1, HeaderBytesAre
<1>3. x \in Seq(S)
  BY <1>1, WorkTyped
<1>4. H \in Nat /\ H >= 3 /\ Len(x) \in Nat
  BY <1>3, HeaderSizeHolds, LenProperties DEF HeaderSize
<1>5. ASSUME NEW i \in 1 .. 2
      PROVE  InPacket(plan, d, x, i) /\ h[i] = x[i]
  <2>1. i \in 1 .. H /\ i \in 1 .. Len(x)
    BY <1>2, <1>4
  <2>2. ~Ended(plan, d) => i <= H + plan[d + 1]
    <3>1. SUFFICES ASSUME ~Ended(plan, d) PROVE i <= H + plan[d + 1]
      OBVIOUS
    <3>2. plan \in Seq(Nat) /\ d \in 0 .. Len(plan) /\ d # Len(plan) /\ Len(plan) \in Nat
      BY <1>1, <3>1, LenProperties DEF Streaming, CanCut, Ended
    <3> DEFINE e == d + 1
    <3>3. e \in 1 .. Len(plan)
      BY <3>2
    <3> HIDE DEF e
    <3>4. plan[e] \in Nat
      BY <3>2, <3>3, ElementOfSeq
    <3> DEFINE k == plan[e]
    <3> HIDE DEF k
    <3>5. i <= H + k
      BY <1>4, <2>1, <3>4 DEF k
    <3>6. QED
      BY <3>5 DEF k, e
  <2>3. QED
    BY <1>2, <2>1, <2>2 DEF InPacket
<1>6. ASSUME NEW i \in 1 .. 2
      PROVE  ~Ended(plan, d) /\ x[i] = <<d + 1, i>>
  <2>1. InPacket(plan, d, x, i)
    BY <1>5
  <2>2. QED
    BY <1>1, <2>1, StreamBegins
<1>7. h[1] = <<d + 1, 1>> /\ h[2] = <<d + 1, 2>> /\ x[1] = <<d + 1, 1>> /\ ~Ended(plan, d)
  BY <1>5, <1>6
<1> HIDE DEF h, x
<1>8. h[1][2] = 1 /\ h[2][2] = 2 /\ x[1][1] = d + 1
  BY <1>7
<1>9. QED
  BY <1>7, <1>8 DEF h, x, HeaderGood, NumberOf

LEMMA BodyIsRest ==
  ASSUME NEW p, NEW n, n \in Nat
  PROVE  Body(p, n) = RestOf(PacketBytes(p, n), PACKET_HEADER_SIZE)
<1> DEFINE S == {<<p, k>> : k \in 1 .. PACKET_HEADER_SIZE + n}
<1>1. \A k \in 1 .. PACKET_HEADER_SIZE + n : <<p, k>> \in S
  OBVIOUS
<1> HIDE DEF S
<1>2. Len(PacketBytes(p, n)) = PACKET_HEADER_SIZE + n
  BY <1>1, PacketTyped
<1>3. QED
  BY <1>2 DEF Body, RestOf

(* what is delivered is the body of the packet that is next *)
LEMMA DeliversNext ==
  ASSUME NEW recv, NEW buffer, NEW plan, NEW d, NEW tk,
         Turning(recv, buffer, plan, d, tk), Taking(recv, buffer, plan)
  PROVE  LET result == TakePacket(recv, buffer, plan)
         IN  /\ result.packet = Body(d + 1, plan[d + 1])
             /\ Streaming(plan, d + 1, Bytes(result.buffer), tk)
             /\ ~Ended(plan, d)
<1> DEFINE x == Work(recv, buffer)
           p == d + 1
           n == PACKET_HEADER_SIZE + plan[p]
           result == TakePacket(recv, buffer, plan)
<1>1. NumberOf(recv, buffer) = p /\ ~Ended(plan, d)
  BY HeaderOfStream
<1>2. n \in Nat /\ n <= Len(x) /\ plan[p] \in Nat
  BY <1>1, TakingNumbers
<1>3. /\ result.packet = RestOf(FirstPart(x, n), PACKET_HEADER_SIZE)
      /\ Bytes(result.buffer) = RestOf(x, n)
  BY <1>1, TakePacketWorks
<1>4. Streaming(plan, d, x, tk)
  BY DEF Turning
<1>5. /\ FirstPart(x, n) = PacketBytes(p, plan[p])
      /\ Streaming(plan, p, RestOf(x, n), tk)
  BY <1>1, <1>2, <1>4, StreamTakes
<1>6. Body(p, plan[p]) = RestOf(PacketBytes(p, plan[p]), PACKET_HEADER_SIZE)
  <2> DEFINE k == plan[p]
  <2> HIDE DEF k
  <2>1. k \in Nat
    BY <1>2 DEF k
  <2>2. Body(p, k) = RestOf(PacketBytes(p, k), PACKET_HEADER_SIZE)
    BY <2>1, BodyIsRest
  <2>3. QED
    BY <2>2 DEF k
<1>7. QED
  BY <1>1, <1>3, <1>5, <1>6

(* the bytes that AnalysisPacket keeps hold no whole packet *)
Keeping(recv, buffer, plan) ==
  /\ plan \in Seq(Nat)
  /\ Exact(BytesOf(plan), recv, buffer)
  /\ HeaderComplete(recv, buffer) =>
       HeaderGood(recv, buffer) /\ ~PacketComplete(recv, buffer, plan)

LEMMA KeepsNoPacket ==
  ASSUME NEW recv, NEW buffer, NEW plan, Keeping(recv, buffer, plan)
  PROVE  /\ IsExact(AppendBuffer(recv, buffer), BytesOf(plan))
         /\ HoldsNoPacket(AppendBuffer(recv, buffer), plan)
         /\ Bytes(AppendBuffer(recv, buffer)) = Work(recv, buffer)
<1> DEFINE H == PACKET_HEADER_SIZE
           z == AppendBuffer(recv, buffer)
           x == Work(recv, buffer)
           p == x[1][1]
<1>1. IsExact(recv, BytesOf(plan)) /\ IsExact(buffer, BytesOf(plan)) /\ plan \in Seq(Nat)
      /\ Exact(BytesOf(plan), recv, buffer)
  BY DEF Keeping, Exact
<1>2. IsExact(z, BytesOf(plan))
  BY <1>1, AppendBufferExact
<1>3. Bytes(z) = x /\ z.size_ = RecvSize(recv, buffer)
  <2>1. recv \in Buffers(BytesOf(plan)) /\ buffer \in Buffers(BytesOf(plan))
    BY <1>1 DEF IsExact
  <2>2. Bytes(z) = Bytes(recv) \o Bytes(buffer) /\ z.size_ = recv.size_ + buffer.size_
    BY <2>1, AppendBufferBytes
  <2>3. QED
    BY <2>2 DEF Work, RecvSize
<1>4. RecvSize(recv, buffer) = recv.size_ + buffer.size_ /\ recv.size_ \in Nat /\ buffer.size_ \in Nat
  BY <1>1, WorkTyped
<1>5. HoldsNoPacket(z, plan)
  <2>1. SUFFICES ASSUME z.size_ >= H
                 PROVE  p \in DOMAIN plan /\ z.size_ < H + plan[p]
    BY <1>3 DEF HoldsNoPacket
  <2>2. HeaderComplete(recv, buffer)
    BY <1>3, <2>1 DEF HeaderComplete
  <2>3. HeaderGood(recv, buffer) /\ ~PacketComplete(recv, buffer, plan)
    BY <2>2 DEF Keeping
  <2>4. GoodHeader(recv, buffer, plan)
    BY <1>1, <2>2, <2>3 DEF GoodHeader
  <2>5. p \in DOMAIN plan /\ DataSize(recv, buffer, plan) = plan[p] /\ plan[p] \in Nat
    BY <2>4, HeaderNames DEF NumberOf
  <2>6. ~(plan[p] <= RecvSize(recv, buffer) - H)
    BY <2>3, <2>5 DEF PacketComplete
  <2>7. H \in Nat
    BY HeaderSizeHolds DEF HeaderSize
  <2> DEFINE k == plan[p]
  <2>8. z.size_ < H + k
    <3>1. k \in Nat /\ ~(k <= RecvSize(recv, buffer) - H)
      BY <2>5, <2>6
    <3> HIDE DEF k, H, z
    <3>2. QED
      BY <1>3, <1>4, <2>7, <3>1
  <2>9. QED
    BY <2>5, <2>8
<1>6. QED
  BY <1>2, <1>3, <1>5

(* the bytes that arrived since follow those received before *)
Reading(plan, d, x, tk, arr) ==
  Streaming(plan, d, x, tk) /\ arr \in tk .. Len(StreamBytes(plan))

LEMMA StreamGoesOn ==
  ASSUME NEW plan, NEW d, NEW x, NEW tk, NEW arr, Reading(plan, d, x, tk, arr)
  PROVE  LET y == SubSeq(StreamBytes(plan), tk + 1, arr)
         IN  /\ Streaming(plan, d, x \o y, arr)
             /\ y \in Seq(BytesOf(plan)) /\ Len(y) = arr - tk
<1> DEFINE S == BytesOf(plan)
           s == StreamBytes(plan)
           y == SubSeq(s, tk + 1, arr)
           u == Upto(plan, d)
<1>1. /\ CanCut(Nat, plan, d) /\ x \in Seq(S) /\ plan \in Seq(Nat)
      /\ tk \in 0 .. Len(s) /\ u \o x = FirstPart(s, tk) /\ arr \in tk .. Len(s)
  BY DEF Reading, Streaming, CanCut
<1>2. s \in Seq(S) /\ s \in Seq(Positions) /\ u \in Seq(Positions) /\ Len(s) \in Nat
  <2>1. s \in Seq(S)
    BY <1>1, StreamTyped
  <2>2. QED
    BY <1>1, <2>1, UptoCuts
<1>3. x \in Seq(Positions)
  BY <1>1, BytesAreNumbers
<1> HIDE DEF S, s, u
<1>4. tk \in 0 .. arr /\ arr \in 0 .. Len(s) /\ tk \in Nat
  BY <1>1, <1>2
<1>5. CanCutBoth(S, s, tk, arr) /\ CanCutBoth(Positions, s, tk, arr)
  BY <1>2, <1>4 DEF CanCutBoth, CanCut
<1>6. y \in Seq(S) /\ Len(y) = arr - tk
  BY <1>5, CutFurther
<1>7. Joins(Positions, FirstPart(s, arr), FirstPart(s, tk), y)
  BY <1>5, CutFurther
<1> HIDE DEF y
<1>8. x \o y \in Seq(S)
  BY <1>1, <1>6, CutAtJoint
<1>9. y \in Seq(Positions)
  BY <1>7 DEF Joins
<1>10. u \o (x \o y) = FirstPart(s, arr)
  <2>1. SeqsOf(Positions, u, x, y)
    BY <1>2, <1>3, <1>9 DEF SeqsOf
  <2>2. (u \o x) \o y = u \o (x \o y)
    BY <2>1, ConcatAssoc
  <2>3. FirstPart(s, arr) = FirstPart(s, tk) \o y
    BY <1>7 DEF Joins
  <2>4. QED
    BY <1>1, <2>2, <2>3
<1>11. Streaming(plan, d, x \o y, arr)
  BY <1>1, <1>4, <1>8, <1>10 DEF Streaming, S, s, u
<1>12. QED
  BY <1>6, <1>11 DEF y, s, S

(* nothing is being analysed and nothing kept is a packet: what arrived    *)
(* whole was delivered                                                     *)
Settled(recv, plan, d, tk) ==
  /\ IsExact(recv, BytesOf(plan)) /\ HoldsNoPacket(recv, plan)
  /\ Streaming(plan, d, Bytes(recv), tk)

LEMMA SettledIsWhole ==
  ASSUME NEW recv, NEW plan, NEW d, NEW tk, Settled(recv, plan, d, tk)
  PROVE  CompleteOf(plan, tk) = d
<1> DEFINE H == PACKET_HEADER_SIZE
           S == BytesOf(plan)
           x == Bytes(recv)
           u == Upto(plan, d)
           s == StreamBytes(plan)
<1>1. /\ IsExact(recv, S) /\ HoldsNoPacket(recv, plan) /\ Streaming(plan, d, x, tk)
  BY DEF Settled
<1>2. /\ CanCut(Nat, plan, d) /\ plan \in Seq(Nat) /\ d \in 0 .. Len(plan)
      /\ x \in Seq(S) /\ tk \in 0 .. Len(s) /\ u \o x = FirstPart(s, tk)
  BY <1>1 DEF Streaming, CanCut
<1>3. recv.size_ = Len(x) /\ recv.size_ \in Nat
  BY <1>1, BytesTyped DEF IsExact
<1>4. u \in Seq(Positions) /\ s \in Seq(Positions) /\ Len(u) \in Nat /\ Len(s) \in Nat
  BY <1>2, UptoCuts
<1>5. x \in Seq(Positions)
  BY <1>2, BytesAreNumbers
<1>6. Len(u) + Len(x) = tk /\ tk \in Nat
  <2> HIDE DEF u, x, s
  <2>1. Len(u \o x) = Len(u) + Len(x)
    BY <1>4, <1>5, CutAtJoint
  <2>2. CanCut(Positions, s, tk)
    BY <1>2, <1>4 DEF CanCut
  <2>3. Len(FirstPart(s, tk)) = tk
    BY <2>2, CutParts
  <2> DEFINE z == u \o x
  <2>4. z = FirstPart(s, tk) /\ Len(z) = Len(u) + Len(x)
    BY <1>2, <2>1
  <2>5. tk \in Nat
    BY <1>2, <1>4
  <2> HIDE DEF z
  <2>6. QED
    BY <2>3, <2>4, <2>5
<1>7. ASSUME ~Ended(plan, d)
      PROVE  tk < Len(Upto(plan, d + 1))
  <2> DEFINE e == d + 1
             k == plan[e]
  <2>1. e \in 1 .. Len(plan) /\ e - 1 = d /\ Len(plan) \in Nat
    BY <1>2, <1>7, LenProperties DEF Ended
  <2>2. k \in Nat
    <3> HIDE DEF e
    <3>1. QED
      BY <1>2, <2>1, ElementOfSeq
  <2>3. Len(Upto(plan, e)) = Len(Upto(plan, e - 1)) + PACKET_HEADER_SIZE + plan[e]
    <3> HIDE DEF e
    <3>1. QED
      BY <1>2, <2>1, UptoStep
  <2>4. Len(Upto(plan, e)) = Len(u) + H + k
    BY <2>1, <2>3
  <2>5. H \in Nat /\ H >= 3
    BY HeaderSizeHolds DEF HeaderSize
  <2>6. Len(x) < H + k
    <3>1. CASE Len(x) >= H
      <4>1. InPacket(plan, d, x, 1)
        <5>1. 1 \in 1 .. Len(x)
          BY <1>3, <2>5, <3>1
        <5>2. 1 <= H + k
          <6> HIDE DEF H, k
          <6>1. QED
            BY <2>2, <2>5
        <5>3. QED
          BY <5>1, <5>2 DEF InPacket
      <4>2. x[1] = <<d + 1, 1>>
        BY <1>1, <4>1, StreamBegins
      <4>3. x[1][1] = e
        <5> HIDE DEF x
        <5>1. QED
          BY <4>2
      <4>4. recv.size_ < H + plan[x[1][1]]
        BY <1>1, <1>3, <3>1 DEF HoldsNoPacket
      <4>5. QED
        BY <1>3, <4>3, <4>4
    <3>2. CASE ~(Len(x) >= H)
      <4> HIDE DEF H, k, x
      <4>1. QED
        BY <1>3, <2>2, <2>5, <3>2
    <3>3. QED
      BY <3>1, <3>2
  <2> DEFINE w == Len(Upto(plan, e))
  <2>7. tk < w
    <3>1. w = Len(u) + H + k
      BY <2>4
    <3> HIDE DEF w, H, k, u, x
    <3>2. QED
      BY <1>3, <1>4, <1>6, <2>2, <2>5, <2>6, <3>1
  <2>8. QED
    BY <2>7
<1>8. ArrivedWhole(plan, d, tk)
  <2>1. Len(u) <= tk
    <3> HIDE DEF u, x
    <3>1. QED
      BY <1>3, <1>4, <1>6
  <2>2. QED
    BY <1>2, <1>6, <1>7, <2>1 DEF ArrivedWhole
<1>9. QED
  BY <1>8, CompleteCount

-----------------------------------------------------------------------------
(* What is written. *)
LEMMA OutgoingStep ==
  ASSUME NEW n, n \in Nat
  PROVE  /\ Outgoing(n) \in Seq(Positions)
         /\ Joins(Positions, Outgoing(n + 1), Outgoing(n), PacketBytes(n + 1, OutSize))
<1> DEFINE e == n + 1
           plan == [p \in 1 .. e |-> OutSize]
           short == [p \in 1 .. n |-> OutSize]
<1>1. OutSize \in Nat
  BY NetworkServiceAssumption
<1>2. e \in Nat /\ e \in 1 .. e /\ e - 1 = n
  OBVIOUS
<1>3. plan \in Seq(Nat) /\ Len(plan) = e /\ plan[e] = OutSize
  <2> HIDE DEF e
  <2>1. QED
    BY <1>1, <1>2, IsASeq
<1>4. short \in Seq(Nat) /\ Len(short) = n
  BY <1>1, IsASeq
<1>5. SubSeq(plan, 1, n) = short
  <2> DEFINE c == SubSeq(plan, 1, n)
  <2>1. CanCut(Nat, plan, n)
    BY <1>2, <1>3 DEF CanCut
  <2>2. c \in Seq(Nat) /\ Len(c) = n /\ \A i \in 1 .. n : c[i] = plan[i]
    <3> HIDE DEF plan
    <3>1. /\ FirstPart(plan, n) \in Seq(Nat) /\ Len(FirstPart(plan, n)) = n
          /\ \A i \in 1 .. n : FirstPart(plan, n)[i] = plan[i]
      BY <2>1, CutParts
    <3>2. QED
      BY <3>1 DEF FirstPart
  <2>3. \A i \in 1 .. n : c[i] = short[i]
    BY <2>2
  <2> HIDE DEF c, short
  <2>4. c = short
    BY <1>4, <2>2, <2>3, SeqEqual
  <2>5. QED
    BY <2>4 DEF c
<1>6. Outgoing(e) = StreamBytes(plan) /\ Outgoing(n) = Upto(plan, n)
  BY <1>5 DEF Outgoing, Upto
<1>7. Upto(plan, e) = StreamBytes(plan)
  <2> HIDE DEF plan
  <2>1. QED
    BY <1>3, UptoEnds
<1> HIDE DEF plan
<1>8. Joins(Positions, Upto(plan, e), Upto(plan, e - 1), PacketBytes(e, plan[e]))
  <2> HIDE DEF e
  <2>1. QED
    BY <1>2, <1>3, UptoStep
<1>9. Joins(Positions, Outgoing(e), Outgoing(n), PacketBytes(e, OutSize))
  BY <1>2, <1>3, <1>6, <1>7, <1>8
<1>10. Outgoing(n) \in Seq(Positions)
  BY <1>9 DEF Joins
<1>11. QED
  BY <1>9, <1>10

LEMMA OutPacketTyped ==
  ASSUME NEW p, p \in 1 .. MaxOps
  PROVE  /\ PacketBytes(p, OutSize) \in Seq(OutBytes)
         /\ Len(PacketBytes(p, OutSize)) = PACKET_HEADER_SIZE + OutSize
<1>1. \A k \in 1 .. PACKET_HEADER_SIZE + OutSize : <<p, k>> \in OutBytes
  BY DEF OutBytes
<1>2. OutSize \in Nat
  BY NetworkServiceAssumption
<1>3. QED
  BY <1>1, <1>2, PacketTyped

(* both ways to write a packet produce its bytes *)
LEMMA WrittenPacket ==
  ASSUME NEW p, p \in 1 .. MaxOps, NEW packet, packet \in PacketBuffers(p, OutSize)
  PROVE  /\ packet \in Buffers(OutBytes)
         /\ Bytes(packet) = PacketBytes(p, OutSize)
<1> DEFINE H == PACKET_HEADER_SIZE
           S == OutBytes
           x == PacketBytes(p, OutSize)
           h == FirstPart(x, H)
           b == Body(p, OutSize)
<1>1. OutSize \in Nat /\ H \in Nat
  BY NetworkServiceAssumption, HeaderSizeHolds DEF HeaderSize
<1>2. x \in Seq(S) /\ Len(x) = H + OutSize
  BY OutPacketTyped
<1>3. CASE packet = BufferOf(x)
  <2> HIDE DEF x, S
  <2>1. IsExact(BufferOf(x), S) /\ Bytes(BufferOf(x)) = x
    BY <1>2, BufferOfBytes
  <2>2. QED
    BY <1>3, <2>1 DEF IsExact, x, S
<1>4. CASE packet = HeaderThenBody(p, OutSize)
  <2>1. CanCut(S, x, H)
    <3> HIDE DEF x, H
    <3>1. QED
      BY <1>1, <1>2 DEF CanCut
  <2>2. b = RestOf(x, H)
    BY <1>1, BodyIsRest
  <2> DEFINE bs == <<h>> \o BlocksOf(b)
             n == H + OutSize
  <2>3. packet = [blocks_ |-> bs, size_ |-> n]
    BY <1>4 DEF HeaderThenBody, FirstPart
  <2> HIDE DEF x, H, h, b, S
  <2>4. h \in Seq(S)
    BY <2>1, CutParts DEF h
  <2>5. b \in Seq(S)
    <3>1. RestOf(x, H) \in Seq(S)
      BY <2>1, CutParts
    <3>2. QED
      BY <2>2, <3>1
  <2>6. BlocksOf(b) \in Seq(Seq(S)) /\ FlattenSeq(BlocksOf(b)) = b
    BY <2>5, BlocksOfSeq
  <2>7. <<h>> \in Seq(Seq(S)) /\ FlattenSeq(<<h>>) = h
    BY <2>4, FlattenOne
  <2>8. bs \in Seq(Seq(S)) /\ FlattenSeq(bs) = FlattenSeq(<<h>>) \o FlattenSeq(BlocksOf(b))
    <3> DEFINE c == <<h>>
               d == BlocksOf(b)
    <3>1. c \in Seq(Seq(S)) /\ d \in Seq(Seq(S)) /\ bs = c \o d
      BY <2>6, <2>7
    <3> HIDE DEF c, d, bs
    <3>2. bs \in Seq(Seq(S)) /\ FlattenSeq(bs) = FlattenSeq(c) \o FlattenSeq(d)
      BY <3>1, FlattenConcat
    <3>3. QED
      BY <3>2 DEF c, d
  <2>9. FlattenSeq(bs) = h \o b
    BY <2>6, <2>7, <2>8
  <2>10. h \o b = x
    BY <2>1, <2>2, CutJoined DEF h
  <2>11. n \in Nat
    BY <1>1
  <2> HIDE DEF bs, n
  <2>12. packet \in Buffers(S) /\ packet.blocks_ = bs
    BY <2>3, <2>8, <2>11, BufferFields
  <2>13. Bytes(packet) = x
    BY <2>9, <2>10, <2>12 DEF Bytes
  <2>14. QED
    BY <2>12, <2>13 DEF S, x
<1>5. QED
  BY <1>3, <1>4 DEF PacketBuffers

-----------------------------------------------------------------------------
(* What the loop of TryToWriteData leaves. *)
SendsSome(S, ps, cut) == ps \in Seq(Seq(S)) /\ cut \in 0 .. Len(FlattenSeq(ps))

LEMMA WholePartsFound ==
  ASSUME NEW S, NEW ps, NEW cut, SendsSome(S, ps, cut)
  PROVE  LET n == WholeParts(ps, cut)
         IN  /\ n \in 0 .. Len(ps) /\ LengthOf(ps, n) <= cut
             /\ n < Len(ps) => LengthOf(ps, n + 1) > cut
<1> DEFINE N == Len(ps)
           L(n) == LengthOf(ps, n)
           G == {n \in 1 .. N : L(n) > cut}
<1>1. ps \in Seq(Seq(S)) /\ N \in Nat /\ cut \in Nat
  BY LenProperties DEF SendsSome
<1>2. ASSUME NEW n \in 0 .. N PROVE L(n) \in Nat
  <2>1. CanCut(Seq(S), ps, n)
    BY <1>1 DEF CanCut
  <2>2. QED
    BY <2>1, Lengths
<1>3. L(0) = 0
  BY <1>1, LengthsEnds
<1> HIDE DEF L, N
<1>4. \E n \in 0 .. N : L(n) <= cut /\ (n < N => L(n + 1) > cut)
  <2>1. CASE G = {}
    <3>1. N \in 0 .. N
      BY <1>1
    <3>2. L(N) <= cut
      <4>1. CASE N = 0
        BY <1>1, <1>3, <4>1
      <4>2. CASE N # 0
        <5>1. N \in 1 .. N
          BY <1>1, <4>2
        <5>2. ~(L(N) > cut) /\ L(N) \in Nat
          BY <1>2, <2>1, <3>1, <5>1
        <5>3. QED
          BY <1>1, <5>2
      <4>3. QED
        BY <4>1, <4>2
    <3>3. QED
      BY <1>1, <3>1, <3>2
  <2>2. CASE G # {}
    <3>1. G \in SUBSET Nat
      BY <1>1
    <3>2. PICK g \in G : \A n \in G : g <= n
      <4> HIDE DEF G
      <4>1. QED
        BY <2>2, <3>1, LeastNatural
    <3>3. g \in 1 .. N /\ L(g) > cut
      BY <3>2
    <3> DEFINE n == g - 1
    <3>4. n \in 0 .. N /\ n + 1 = g /\ n \in Nat
      BY <1>1, <3>3
    <3>5. L(n) <= cut
      <4>1. CASE n = 0
        BY <1>1, <1>3, <4>1
      <4>2. CASE n # 0
        <5>1. n \in 1 .. N /\ ~(g <= n)
          BY <1>1, <3>3, <3>4, <4>2
        <5>2. n \notin G
          BY <3>2, <5>1
        <5>3. ~(L(n) > cut) /\ L(n) \in Nat
          BY <1>2, <3>4, <5>1, <5>2
        <5> HIDE DEF n
        <5>4. QED
          BY <1>1, <5>3
      <4>3. QED
        BY <4>1, <4>2
    <3> HIDE DEF n
    <3>6. QED
      BY <3>3, <3>4, <3>5
  <2>3. QED
    BY <2>1, <2>2
<1> DEFINE m == WholeParts(ps, cut)
<1>5. m = CHOOSE n \in 0 .. N : L(n) <= cut /\ (n < N => L(n + 1) > cut)
  BY DEF WholeParts, L, N
<1> HIDE DEF m
<1>6. m \in 0 .. N /\ L(m) <= cut /\ (m < N => L(m + 1) > cut)
  BY <1>4, <1>5
<1>7. QED
  BY <1>6 DEF m, L, N

(* the part that was cut in part, or nothing, and the parts after it *)
Begun(ps, cut) ==
  LET n == WholeParts(ps, cut)
  IN  IF n = Len(ps) THEN <<>>
      ELSE LET part == ps[n + 1]
           IN  SubSeq(part, cut - LengthOf(ps, n) + 1, Len(part))
Untouched(ps, cut) == SubSeq(ps, WholeParts(ps, cut) + 2, Len(ps))

LEMMA BegunAndUntouched ==
  ASSUME NEW S, NEW ps, NEW cut, SendsSome(S, ps, cut)
  PROVE  /\ Begun(ps, cut) \in Seq(S) /\ Untouched(ps, cut) \in Seq(Seq(S))
         /\ Joins(S, RestOf(FlattenSeq(ps), cut), Begun(ps, cut),
                  FlattenSeq(Untouched(ps, cut)))
         /\ CanCut(S, FlattenSeq(ps), cut)
<1> DEFINE n == WholeParts(ps, cut)
           N == Len(ps)
           x == FlattenSeq(ps)
           l == LengthOf(ps, n)
           B == Begun(ps, cut)
           U == Untouched(ps, cut)
<1>1. n \in 0 .. N /\ l <= cut /\ (n < N => LengthOf(ps, n + 1) > cut)
  BY WholePartsFound
<1>2. ps \in Seq(Seq(S)) /\ N \in Nat /\ cut \in 0 .. Len(x)
  BY LenProperties DEF SendsSome
<1>3. x \in Seq(S) /\ Len(x) \in Nat
  BY <1>2, FlattenTyped, LenProperties
<1>4. CanCut(S, x, cut)
  BY <1>2, <1>3 DEF CanCut
<1>5. l \in Nat
  <2>1. CanCut(Seq(S), ps, n)
    <3> HIDE DEF n
    <3>1. QED
      BY <1>1, <1>2 DEF CanCut
  <2>2. QED
    BY <2>1, Lengths
<1>6. CASE n = N
  <2>1. B = <<>>
    BY <1>6 DEF Begun
  <2>2. U = <<>>
    <3>1. U = SubSeq(ps, N + 2, N)
      BY <1>6 DEF Untouched
    <3>2. N + 2 > N /\ N + 2 \in Nat
      BY <1>2
    <3> HIDE DEF N, U
    <3>3. SubSeq(ps, N + 2, N) = <<>>
      BY <1>2, <3>2, SubSeqProperties, EmptySeq
    <3>4. QED
      BY <3>1, <3>3
  <2>3. l = Len(x)
    BY <1>2, <1>6, LengthsEnds
  <2>4. cut = Len(x)
    <3> HIDE DEF l, x
    <3>1. QED
      BY <1>1, <1>2, <1>3, <1>5, <2>3
  <2>5. RestOf(x, cut) = <<>>
    <3> DEFINE r == RestOf(x, cut)
    <3>1. r \in Seq(S) /\ Len(r) = Len(x) - cut
      BY <1>4, CutParts
    <3>2. Len(r) = 0
      <4> HIDE DEF r, x
      <4>1. QED
        BY <1>3, <2>4, <3>1
    <3>3. QED
      BY <3>1, <3>2, EmptySeq
  <2>6. <<>> \in Seq(S) /\ <<>> \in Seq(Seq(S)) /\ <<>> \o <<>> = <<>>
    BY EmptySeq, ConcatEmptySeq
  <2>7. FlattenSeq(U) = <<>>
    BY <2>2, FlattenEmpty
  <2> HIDE DEF B, U, x
  <2>8. Joins(S, RestOf(x, cut), B, FlattenSeq(U))
    BY <2>1, <2>5, <2>6, <2>7 DEF Joins
  <2>9. QED
    BY <1>4, <2>1, <2>2, <2>6, <2>8 DEF B, U, x
<1>7. CASE n # N
  <2> DEFINE m == n + 1
             part == ps[m]
             c == cut - l
             f == FlattenSeq(FirstPart(ps, n))
             g == FlattenSeq(FirstPart(ps, m))
             t == FlattenSeq(RestOf(ps, m))
  <2>1. m \in 1 .. N /\ m - 1 = n /\ LengthOf(ps, m) > cut /\ m + 1 = n + 2
    <3> HIDE DEF n
    <3>1. QED
      BY <1>1, <1>2, <1>7
  <2>2. B = SubSeq(part, c + 1, Len(part)) /\ U = SubSeq(ps, m + 1, N)
    <3>1. B = SubSeq(part, c + 1, Len(part))
      BY <1>7 DEF Begun
    <3>2. U = SubSeq(ps, n + 2, N)
      BY DEF Untouched
    <3>3. QED
      BY <2>1, <3>1, <3>2
  <2>3. B = RestOf(part, c) /\ U = RestOf(ps, m)
    BY <2>2 DEF RestOf
  <2> HIDE DEF B, U, n, m
  <2>4. Joins(S, g, FlattenSeq(FirstPart(ps, m - 1)), part)
    BY <1>2, <2>1, FlattenStep
  <2>5. Joins(S, g, f, part)
    BY <2>1, <2>4
  <2>6. CanCut(Seq(S), ps, m)
    BY <1>2, <2>1 DEF CanCut
  <2>7. /\ RestOf(ps, m) \in Seq(Seq(S)) /\ Joins(S, x, g, t)
    BY <2>6, FlattenCut
  <2>8. l = Len(f) /\ LengthOf(ps, m) = Len(g)
    BY DEF LengthOf, FirstPart
  <2> HIDE DEF f, g, t, part, l, x
  <2>9. f \in Seq(S) /\ part \in Seq(S) /\ g = f \o part /\ g \in Seq(S) /\ t \in Seq(S) /\ x = g \o t
        /\ Len(g) = Len(f) + Len(part) /\ Len(f) \in Nat /\ Len(part) \in Nat
    <3>1. f \in Seq(S) /\ part \in Seq(S) /\ g = f \o part
      BY <2>5 DEF Joins
    <3>2. g \in Seq(S) /\ t \in Seq(S) /\ x = g \o t
      BY <2>7 DEF Joins
    <3>3. Len(f \o part) = Len(f) + Len(part) /\ Len(f) \in Nat /\ Len(part) \in Nat
      BY <3>1, CutAtJoint
    <3> DEFINE z == f \o part
    <3>4. g = z /\ Len(z) = Len(f) + Len(part)
      BY <3>1, <3>3
    <3> HIDE DEF z
    <3>5. Len(g) = Len(f) + Len(part)
      BY <3>4
    <3>6. QED
      BY <3>1, <3>2, <3>3, <3>5
  <2>10. c \in 0 .. Len(part) /\ cut \in 0 .. Len(g) /\ Len(f) + c = cut
    <3>1. Len(g) = Len(f) + Len(part) /\ Len(f) \in Nat /\ Len(part) \in Nat
      BY <2>9
    <3>2. cut \in Nat
      BY <1>2, <1>3
    <3>3. QED
      BY <1>1, <1>5, <2>1, <2>8, <3>1, <3>2
  <2> HIDE DEF c
  <2>11. CutsSecond(S, f, part, c) /\ CutsFirst(S, g, t, cut)
    <3>1. f \in Seq(S) /\ part \in Seq(S) /\ g \in Seq(S) /\ t \in Seq(S)
      BY <2>9
    <3>2. QED
      BY <2>10, <3>1 DEF CutsSecond, CutsFirst, CanCut
  <2>12. RestOf(f \o part, Len(f) + c) = RestOf(part, c)
    BY <2>11, CutInSecond
  <2>13. Joins(S, RestOf(g \o t, cut), RestOf(g, cut), t)
    BY <2>11, CutInFirst
  <2>14. RestOf(g, cut) = B
    BY <2>3, <2>9, <2>10, <2>12
  <2>15. Joins(S, RestOf(x, cut), B, FlattenSeq(U))
    BY <2>3, <2>9, <2>13, <2>14 DEF t
  <2>16. B \in Seq(S) /\ U \in Seq(Seq(S))
    <3>1. B \in Seq(S)
      BY <2>15 DEF Joins
    <3>2. QED
      BY <2>3, <2>7, <3>1
  <2>17. QED
    BY <1>4, <2>15, <2>16 DEF B, U, x
<1>8. QED
  BY <1>6, <1>7

-----------------------------------------------------------------------------
(* Sockets. *)
LEMMA SockShape ==
  ASSUME NEW k
  PROVE  SockOK(k) <=>
           /\ Shape(k)
           /\ k.open \in BOOLEAN /\ k.socket_writeable_ \in BOOLEAN
           /\ k.enabled_events_ \subseteq {DE_READ, DE_WRITE, DE_CLOSE}
           /\ k.write_buffers_ \in Buffers(OutBytes)
           /\ k.encode_buffer_ \in Seq(OutBytes)
BY DEF SockOK

(* a socket like k, what it still has to send included *)
Like(k, k2) ==
  SockOK(k2) /\ k2.open = k.open /\ k2.recv_buff_ = k.recv_buff_ /\ Unsent(k2) = Unsent(k)

LEMMA SocketMade ==
  ASSUME NEW k, SockOK(k), NEW k2, Shape(k2),
         k2.open = k.open, k2.write_buffers_ = k.write_buffers_,
         k2.encode_buffer_ = k.encode_buffer_,
         k2.socket_writeable_ \in BOOLEAN,
         k2.enabled_events_ \subseteq {DE_READ, DE_WRITE, DE_CLOSE}
  PROVE  SockOK(k2) /\ Unsent(k2) = Unsent(k)
<1>1. SockOK(k2)
  BY SockShape
<1>2. QED
  BY <1>1 DEF Unsent

LEMMA Enabled ==
  ASSUME NEW k, SockOK(k), NEW event, event \in {DE_READ, DE_WRITE, DE_CLOSE}
  PROVE  Like(k, Enable(k, event))
<1> DEFINE k2 == Enable(k, event)
<1>1. /\ Shape(k) /\ k.socket_writeable_ \in BOOLEAN
      /\ k.enabled_events_ \subseteq {DE_READ, DE_WRITE, DE_CLOSE}
  BY SockShape
<1>2. /\ k2.open = k.open /\ k2.write_buffers_ = k.write_buffers_
      /\ k2.encode_buffer_ = k.encode_buffer_ /\ k2.recv_buff_ = k.recv_buff_
      /\ k2.socket_writeable_ = k.socket_writeable_
      /\ k2.enabled_events_ = k.enabled_events_ \union {event}
  BY <1>1 DEF Enable, Shape, FieldNames
<1>3. Shape(k2)
  BY <1>1 DEF Enable, Shape
<1> HIDE DEF k2
<1>4. QED
  BY <1>1, <1>2, <1>3, SocketMade DEF Like, k2

LEMMA Disabled ==
  ASSUME NEW k, SockOK(k), NEW event
  PROVE  Like(k, Disable(k, event))
<1> DEFINE k2 == Disable(k, event)
<1>1. /\ Shape(k) /\ k.socket_writeable_ \in BOOLEAN
      /\ k.enabled_events_ \subseteq {DE_READ, DE_WRITE, DE_CLOSE}
  BY SockShape
<1>2. /\ k2.open = k.open /\ k2.write_buffers_ = k.write_buffers_
      /\ k2.encode_buffer_ = k.encode_buffer_ /\ k2.recv_buff_ = k.recv_buff_
      /\ k2.socket_writeable_ = k.socket_writeable_
      /\ k2.enabled_events_ = k.enabled_events_ \ {event}
  BY <1>1 DEF Disable, Shape, FieldNames
<1>3. Shape(k2)
  BY <1>1 DEF Disable, Shape
<1> HIDE DEF k2
<1>4. QED
  BY <1>1, <1>2, <1>3, SocketMade DEF Like, k2

(* another value of socket_writeable_ *)
LEMMA Writeable ==
  ASSUME NEW k, SockOK(k), NEW k2, k2 = [k EXCEPT !.socket_writeable_ = TRUE]
                                  \/ k2 = [k EXCEPT !.socket_writeable_ = FALSE]
  PROVE  Like(k, k2)
<1>1. /\ Shape(k) /\ k.enabled_events_ \subseteq {DE_READ, DE_WRITE, DE_CLOSE}
  BY SockShape
<1>2. /\ k2.open = k.open /\ k2.write_buffers_ = k.write_buffers_
      /\ k2.encode_buffer_ = k.encode_buffer_ /\ k2.recv_buff_ = k.recv_buff_
      /\ k2.socket_writeable_ \in BOOLEAN
      /\ k2.enabled_events_ = k.enabled_events_
  BY <1>1 DEF Shape, FieldNames
<1>3. Shape(k2)
  BY <1>1 DEF Shape
<1>4. QED
  BY <1>1, <1>2, <1>3, SocketMade DEF Like

(* another recv_buff_ *)
LEMMA Keeps ==
  ASSUME NEW k, SockOK(k), NEW recv
  PROVE  LET k2 == [k EXCEPT !.recv_buff_ = recv]
         IN  /\ SockOK(k2) /\ k2.open = k.open /\ k2.recv_buff_ = recv
             /\ Unsent(k2) = Unsent(k)
<1> DEFINE k2 == [k EXCEPT !.recv_buff_ = recv]
<1>1. /\ Shape(k) /\ k.enabled_events_ \subseteq {DE_READ, DE_WRITE, DE_CLOSE}
      /\ k.socket_writeable_ \in BOOLEAN
  BY SockShape
<1>2. /\ k2.open = k.open /\ k2.write_buffers_ = k.write_buffers_
      /\ k2.encode_buffer_ = k.encode_buffer_ /\ k2.recv_buff_ = recv
      /\ k2.socket_writeable_ = k.socket_writeable_
      /\ k2.enabled_events_ = k.enabled_events_
  BY <1>1 DEF Shape, FieldNames
<1>3. Shape(k2)
  BY <1>1 DEF Shape
<1> HIDE DEF k2
<1>4. QED
  BY <1>1, <1>2, <1>3, SocketMade DEF k2

LEMMA ClosedSocket ==
  ASSUME NEW k, SockOK(k)
  PROVE  SockOK(Closed(k)) /\ ~Closed(k).open /\ Closed(k).recv_buff_ = k.recv_buff_
<1> DEFINE k2 == Closed(k)
<1>1. /\ Shape(k) /\ k.encode_buffer_ \in Seq(OutBytes)
  BY SockShape
<1>2. /\ k2.open = FALSE /\ k2.write_buffers_ = EmptyBuffer
      /\ k2.encode_buffer_ = k.encode_buffer_ /\ k2.recv_buff_ = k.recv_buff_
      /\ k2.socket_writeable_ = FALSE
      /\ k2.enabled_events_ = {}
  BY <1>1 DEF Closed, Shape, FieldNames
<1>3. Shape(k2)
  BY <1>1 DEF Closed, Shape
<1>4. EmptyBuffer \in Buffers(OutBytes)
  BY EmptyBufferExact DEF IsExact
<1> HIDE DEF k2
<1>5. /\ k2.open \in BOOLEAN /\ k2.socket_writeable_ \in BOOLEAN
      /\ k2.enabled_events_ \subseteq {DE_READ, DE_WRITE, DE_CLOSE}
      /\ k2.write_buffers_ \in Buffers(OutBytes) /\ k2.encode_buffer_ \in Seq(OutBytes)
  BY <1>1, <1>2, <1>4
<1>6. SockOK(k2)
  BY <1>3, <1>5, SockShape
<1>7. QED
  BY <1>2, <1>6 DEF k2

(* more to write *)
LEMMA WritesMore ==
  ASSUME NEW k, SockOK(k), NEW packet, packet \in Buffers(OutBytes)
  PROVE  LET k2 == [k EXCEPT !.write_buffers_ = AppendBuffer(@, packet)]
         IN  /\ SockOK(k2) /\ k2.open = k.open /\ k2.recv_buff_ = k.recv_buff_
             /\ Joins(OutBytes, Unsent(k2), Unsent(k), Bytes(packet))
<1> DEFINE k2 == [k EXCEPT !.write_buffers_ = AppendBuffer(@, packet)]
           wb == AppendBuffer(k.write_buffers_, packet)
           e == k.encode_buffer_
           w == Bytes(k.write_buffers_)
           p == Bytes(packet)
<1>1. /\ Shape(k) /\ k.open \in BOOLEAN /\ k.socket_writeable_ \in BOOLEAN
      /\ k.enabled_events_ \subseteq {DE_READ, DE_WRITE, DE_CLOSE}
      /\ k.write_buffers_ \in Buffers(OutBytes)
      /\ e \in Seq(OutBytes)
  BY SockShape
<1>2. k2 = [k EXCEPT !.write_buffers_ = wb]
  BY <1>1 DEF Shape, FieldNames
<1>3. wb \in Buffers(OutBytes) /\ Bytes(wb) = w \o p
  BY <1>1, AppendBufferBytes
<1> HIDE DEF k2, wb
<1>4. /\ k2.open = k.open /\ k2.write_buffers_ = wb
      /\ k2.encode_buffer_ = e /\ k2.recv_buff_ = k.recv_buff_
      /\ k2.socket_writeable_ = k.socket_writeable_
      /\ k2.enabled_events_ = k.enabled_events_
  BY <1>1, <1>2 DEF Shape, FieldNames
<1>5. Shape(k2)
  BY <1>1, <1>2 DEF Shape
<1>6. SockOK(k2)
  <2>1. /\ k2.open \in BOOLEAN /\ k2.socket_writeable_ \in BOOLEAN
        /\ k2.enabled_events_ \subseteq {DE_READ, DE_WRITE, DE_CLOSE}
        /\ k2.write_buffers_ \in Buffers(OutBytes) /\ k2.encode_buffer_ \in Seq(OutBytes)
    BY <1>1, <1>3, <1>4
  <2>2. QED
    BY <1>5, <2>1, SockShape
<1>7. w \in Seq(OutBytes) /\ p \in Seq(OutBytes)
  BY <1>1, BytesTyped
<1>8. Joins(OutBytes, Unsent(k2), Unsent(k), p)
  <2>1. Unsent(k2) = e \o (w \o p) /\ Unsent(k) = e \o w
    BY <1>3, <1>4 DEF Unsent
  <2>2. SeqsOf(OutBytes, e, w, p)
    BY <1>1, <1>7 DEF SeqsOf
  <2> HIDE DEF e, w, p
  <2>3. (e \o w) \o p = e \o (w \o p)
    BY <2>2, ConcatAssoc
  <2>4. e \o w \in Seq(OutBytes)
    BY <2>2, CutAtJoint DEF SeqsOf
  <2>5. QED
    BY <1>7, <2>1, <2>3, <2>4 DEF Joins
<1>9. QED
  BY <1>4, <1>6, <1>8 DEF k2

(* what is left when the kernel took n bytes *)
LEMMA PartsOf ==
  ASSUME NEW k, SockOK(k)
  PROVE  /\ Parts(k) \in Seq(Seq(OutBytes)) /\ FlattenSeq(Parts(k)) = Unsent(k)
         /\ Unsent(k) \in Seq(OutBytes)
<1> DEFINE e == k.encode_buffer_
           b == k.write_buffers_.blocks_
           f == IF e = <<>> THEN <<>> ELSE <<e>>
           T == Seq(OutBytes)
<1>1. e \in Seq(OutBytes) /\ k.write_buffers_ \in Buffers(OutBytes)
  BY SockShape
<1>2. b \in Seq(T) /\ Bytes(k.write_buffers_) = FlattenSeq(b)
  BY <1>1, BytesTyped DEF Bytes
<1>3. Parts(k) = f \o b /\ Unsent(k) = e \o FlattenSeq(b)
  BY <1>2 DEF Parts, Unsent
<1> HIDE DEF b, e
<1>4. f \in Seq(T) /\ FlattenSeq(f) = e
  <2>1. CASE e = <<>>
    <3>1. f = <<>> /\ <<>> \in Seq(T)
      BY <2>1, EmptySeq
    <3>2. QED
      BY <2>1, <3>1, FlattenEmpty
  <2>2. CASE e # <<>>
    <3>1. f = <<e>>
      BY <2>2
    <3>2. QED
      BY <1>1, <3>1, FlattenOne
  <2>3. QED
    BY <2>1, <2>2
<1> HIDE DEF f
<1>5. f \o b \in Seq(T) /\ FlattenSeq(f \o b) = FlattenSeq(f) \o FlattenSeq(b)
  BY <1>2, <1>4, FlattenConcat
<1>6. FlattenSeq(f \o b) \in Seq(OutBytes)
  BY <1>5, FlattenTyped
<1>7. QED
  BY <1>3, <1>4, <1>5, <1>6

(* what n of the bytes that k has to send are, and what k2 still has *)
Sends(k, n, k2) ==
  /\ SockOK(k2) /\ k2.open = k.open /\ k2.recv_buff_ = k.recv_buff_
  /\ Unsent(k2) = RestOf(Unsent(k), n) /\ CanCut(OutBytes, Unsent(k), n)

LEMMA SendingLeaves ==
  ASSUME NEW k, SockOK(k), NEW n, n \in 0 .. Len(Unsent(k))
  PROVE  Sends(k, n, Sending(k, n))
<1> DEFINE ps == Parts(k)
           B == Begun(ps, n)
           U == Untouched(ps, n)
           wb == [blocks_ |-> U, size_ |-> LengthOf(U, Len(U))]
           k2 == Sending(k, n)
<1>1. ps \in Seq(Seq(OutBytes)) /\ FlattenSeq(ps) = Unsent(k)
  BY PartsOf
<1>2. SendsSome(OutBytes, ps, n)
  BY <1>1 DEF SendsSome
<1>3. /\ B \in Seq(OutBytes) /\ U \in Seq(Seq(OutBytes))
      /\ Joins(OutBytes, RestOf(FlattenSeq(ps), n), B, FlattenSeq(U))
      /\ CanCut(OutBytes, FlattenSeq(ps), n)
  BY <1>2, BegunAndUntouched
<1>4. wb \in Buffers(OutBytes) /\ wb.blocks_ = U
  <2> DEFINE l == LengthOf(U, Len(U))
  <2> HIDE DEF U
  <2>1. l = Len(FlattenSeq(U))
    BY <1>3, LengthsEnds
  <2>2. FlattenSeq(U) \in Seq(OutBytes)
    BY <1>3, FlattenTyped
  <2>3. l \in Nat
    BY <2>1, <2>2, LenProperties
  <2> HIDE DEF l
  <2>4. QED
    BY <1>3, <2>3, BufferFields DEF l
<1>5. /\ Shape(k) /\ k.open \in BOOLEAN /\ k.socket_writeable_ \in BOOLEAN
      /\ k.enabled_events_ \subseteq {DE_READ, DE_WRITE, DE_CLOSE}
  BY SockShape
<1>6. k2 = [k EXCEPT !.encode_buffer_ = B, !.write_buffers_ = wb]
  BY DEF Sending, Begun, Untouched
<1> HIDE DEF B, wb, k2
<1>7. /\ k2.open = k.open /\ k2.write_buffers_ = wb
      /\ k2.encode_buffer_ = B /\ k2.recv_buff_ = k.recv_buff_
      /\ k2.socket_writeable_ = k.socket_writeable_
      /\ k2.enabled_events_ = k.enabled_events_
  BY <1>5, <1>6 DEF Shape, FieldNames
<1>8. Shape(k2)
  BY <1>5, <1>6 DEF Shape
<1>9. SockOK(k2)
  <2>1. /\ k2.open \in BOOLEAN /\ k2.socket_writeable_ \in BOOLEAN
        /\ k2.enabled_events_ \subseteq {DE_READ, DE_WRITE, DE_CLOSE}
        /\ k2.write_buffers_ \in Buffers(OutBytes) /\ k2.encode_buffer_ \in Seq(OutBytes)
    BY <1>3, <1>4, <1>5, <1>7
  <2>2. QED
    BY <1>8, <2>1, SockShape
<1>10. Unsent(k2) = RestOf(Unsent(k), n)
  <2>1. Unsent(k2) = B \o FlattenSeq(U)
    BY <1>4, <1>7 DEF Unsent, Bytes
  <2>2. QED
    BY <1>1, <1>3, <2>1 DEF Joins
<1>11. QED
  BY <1>1, <1>3, <1>7, <1>9, <1>10 DEF Sends, k2

LEMMA WriteDataLeaves ==
  ASSUME NEW k, SockOK(k), NEW n, n \in 0 .. Len(Unsent(k))
  PROVE  Sends(k, n, WriteData(k, n))
<1> DEFINE s == Sending(k, n)
           e == Enable(s, DE_WRITE)
           k2 == WriteData(k, n)
<1>1. Sends(k, n, s)
  BY SendingLeaves
<1>2. Like(s, e)
  <2>1. SockOK(s) /\ DE_WRITE \in {DE_READ, DE_WRITE, DE_CLOSE}
    BY <1>1 DEF Sends
  <2> HIDE DEF s
  <2>2. QED
    BY <2>1, Enabled
<1>3. k2 = [e EXCEPT !.socket_writeable_ = FALSE]
  BY DEF WriteData, WaitToWriteData
<1> HIDE DEF s, e, k2
<1>4. Like(e, k2)
  <2>1. SockOK(e)
    BY <1>2 DEF Like
  <2>2. QED
    BY <1>3, <2>1, Writeable
<1>5. QED
  BY <1>1, <1>2, <1>4 DEF Sends, Like, k2

-----------------------------------------------------------------------------
(* The bytes of packets are numbers. *)
LEMMA OutBytesAreNumbers ==
  ASSUME NEW x, x \in Seq(OutBytes)
  PROVE  x \in Seq(Positions)
<1>1. OutBytes \subseteq Positions
  <2>1. MaxOps \in Nat /\ OutSize \in Nat /\ PACKET_HEADER_SIZE \in Nat
    BY NetworkServiceAssumption, HeaderSizeHolds DEF HeaderSize
  <2>2. \A n \in Nat : 1 .. n \subseteq Nat
    OBVIOUS
  <2>3. PACKET_HEADER_SIZE + OutSize \in Nat
    BY <2>1
  <2>4. 1 .. MaxOps \subseteq Nat /\ 1 .. PACKET_HEADER_SIZE + OutSize \subseteq Nat
    BY <2>1, <2>2, <2>3
  <2> DEFINE A == 1 .. MaxOps
             B == 1 .. PACKET_HEADER_SIZE + OutSize
  <2> HIDE DEF A, B
  <2>5. A \X B \subseteq Nat \X Nat
    BY <2>4 DEF A, B
  <2>6. QED
    BY <2>5 DEF OutBytes, Positions, A, B
<1> HIDE DEF Positions
<1>2. QED
  BY <1>1

(* a packet more is written, and nothing of it sent yet *)
Writing(k, snt, wrt, k2, p) ==
  /\ OutputOK(k, snt, wrt) /\ SockOK(k) /\ k.open
  /\ p \in Seq(OutBytes) /\ p = PacketBytes(wrt + 1, OutSize)
  /\ Joins(OutBytes, Unsent(k2), Unsent(k), p)

LEMMA WritingKeepsOutput ==
  ASSUME NEW k, NEW snt, NEW wrt, NEW k2, NEW p, Writing(k, snt, wrt, k2, p)
  PROVE  OutputOK(k2, snt, wrt + 1)
<1> DEFINE u == Unsent(k)
           v == Unsent(k2)
<1>1. wrt \in Nat /\ snt \in Seq(OutBytes) /\ snt \o u = Outgoing(wrt)
  BY DEF Writing, OutputOK
<1>2. u \in Seq(OutBytes) /\ p \in Seq(OutBytes) /\ v = u \o p
  BY DEF Writing, Joins
<1>3. Joins(Positions, Outgoing(wrt + 1), Outgoing(wrt), PacketBytes(wrt + 1, OutSize))
  BY <1>1, OutgoingStep
<1>4. p = PacketBytes(wrt + 1, OutSize)
  BY DEF Writing
<1> HIDE DEF u, v
<1>5. SeqsOf(OutBytes, snt, u, p)
  BY <1>1, <1>2 DEF SeqsOf
<1>6. (snt \o u) \o p = snt \o (u \o p)
  BY <1>5, ConcatAssoc
<1> DEFINE o == Outgoing(wrt)
           o2 == Outgoing(wrt + 1)
<1>7. o2 = o \o p
  BY <1>3, <1>4 DEF Joins
<1> HIDE DEF o, o2
<1>8. snt \o v = o2
  BY <1>1, <1>2, <1>6, <1>7 DEF o
<1>9. wrt + 1 \in Nat
  BY <1>1
<1>10. QED
  BY <1>1, <1>8, <1>9 DEF OutputOK, v, o2

(* the kernel takes n bytes *)
LEMMA SendingKeepsOutput ==
  ASSUME NEW k, NEW snt, NEW wrt, NEW k2, NEW n, OutputOK(k, snt, wrt), Sends(k, n, k2)
  PROVE  OutputOK(k2, snt \o SubSeq(Unsent(k), 1, n), wrt)
<1> DEFINE u == Unsent(k)
           f == SubSeq(u, 1, n)
           r == RestOf(u, n)
<1>1. CanCut(OutBytes, u, n) /\ Unsent(k2) = r /\ k2.open = k.open
  BY DEF Sends
<1>2. f \in Seq(OutBytes) /\ r \in Seq(OutBytes)
  <2>1. FirstPart(u, n) \in Seq(OutBytes) /\ r \in Seq(OutBytes)
    BY <1>1, CutParts
  <2>2. QED
    BY <2>1 DEF FirstPart
<1>3. f \o r = u
  <2>1. FirstPart(u, n) \o r = u
    BY <1>1, CutJoined
  <2>2. QED
    BY <2>1 DEF FirstPart
<1>4. wrt \in Nat /\ snt \in Seq(OutBytes) /\ (k.open => snt \o u = Outgoing(wrt))
  BY DEF OutputOK
<1> HIDE DEF u, f, r
<1>5. SeqsOf(OutBytes, snt, f, r)
  BY <1>2, <1>4 DEF SeqsOf
<1>6. (snt \o f) \o r = snt \o (f \o r)
  BY <1>5, ConcatAssoc
<1>7. snt \o f \in Seq(OutBytes)
  BY <1>2, <1>4, CutAtJoint
<1>8. k2.open => (snt \o f) \o Unsent(k2) = Outgoing(wrt)
  BY <1>1, <1>3, <1>4, <1>6
<1>9. QED
  BY <1>4, <1>7, <1>8 DEF OutputOK, f, u

-----------------------------------------------------------------------------
(* The frames of a stack. *)
LEMMA PushedFrames ==
  ASSUME NEW st, IsStack(st), FramesOK(st), NEW f, FrameOK(f)
  PROVE  FramesOK(Append(st, f))
<1>1. /\ DOMAIN st = 1 .. Len(st) /\ DOMAIN Append(st, f) = 1 .. Len(st) + 1 /\ Len(st) \in Nat
      /\ \A i \in DOMAIN st : Append(st, f)[i] = st[i]
      /\ Append(st, f)[Len(st) + 1] = f
  BY PushedStack
<1>2. QED
  BY <1>1 DEF FramesOK

LEMMA PoppedFrames ==
  ASSUME NEW st, IsStack(st), FramesOK(st), st # <<>>
  PROVE  FramesOK(Front(st)) /\ FrameOK(Last(st))
<1>1. /\ Len(st) \in Nat \ {0} /\ DOMAIN st = 1 .. Len(st)
      /\ DOMAIN Front(st) = 1 .. Len(st) - 1
      /\ \A i \in DOMAIN Front(st) : Front(st)[i] = st[i]
  BY PoppedStack
<1>2. FramesOK(Front(st))
  BY <1>1 DEF FramesOK
<1>3. FrameOK(Last(st))
  BY <1>1 DEF FramesOK, Last
<1>4. QED
  BY <1>2, <1>3

(* nothing on the stack is urgent *)
Calm(st) == \A i \in DOMAIN st : ~Urgent(st[i])

LEMMA CalmIsOK ==
  ASSUME NEW st, Calm(st), NEW sk, NEW pr
  PROVE  UrgentOK(st, sk, pr)
BY DEF Calm, UrgentOK

LEMMA PushedCalm ==
  ASSUME NEW st, IsStack(st), Calm(st), NEW f, ~Urgent(f)
  PROVE  Calm(Append(st, f))
<1>1. /\ DOMAIN st = 1 .. Len(st) /\ DOMAIN Append(st, f) = 1 .. Len(st) + 1 /\ Len(st) \in Nat
      /\ \A i \in DOMAIN st : Append(st, f)[i] = st[i]
      /\ Append(st, f)[Len(st) + 1] = f
  BY PushedStack
<1>2. QED
  BY <1>1 DEF Calm

LEMMA PushedUrgent ==
  ASSUME NEW st, IsStack(st), Calm(st), NEW f, NEW sk, NEW pr,
         Urgent(f) => sk[f.s].open /\ ("error" \in f.ff => pr[f.s] = "reset")
  PROVE  UrgentOK(Append(st, f), sk, pr)
<1>1. /\ DOMAIN st = 1 .. Len(st) /\ DOMAIN Append(st, f) = 1 .. Len(st) + 1 /\ Len(st) \in Nat
      /\ \A i \in DOMAIN st : Append(st, f)[i] = st[i]
      /\ Append(st, f)[Len(st) + 1] = f
  BY PushedStack
<1>2. Len(Append(st, f)) = Len(st) + 1
  BY <1>1, AppendProperties DEF IsStack
<1>3. QED
  BY <1>1, <1>2 DEF Calm, UrgentOK

LEMMA PoppedCalm ==
  ASSUME NEW st, IsStack(st), st # <<>>, NEW sk, NEW pr, UrgentOK(st, sk, pr)
  PROVE  /\ Calm(Front(st))
         /\ ~Urgent(Last(st)) => Calm(st)
         /\ Urgent(Last(st)) => /\ sk[Last(st).s].open
                                /\ "error" \in Last(st).ff => pr[Last(st).s] = "reset"
<1>1. /\ Len(st) \in Nat \ {0} /\ DOMAIN st = 1 .. Len(st)
      /\ DOMAIN Front(st) = 1 .. Len(st) - 1
      /\ \A i \in DOMAIN Front(st) : Front(st)[i] = st[i]
  BY PoppedStack
<1>2. Last(st) = st[Len(st)] /\ Len(st) \in DOMAIN st
  BY <1>1 DEF Last
<1>3. Calm(Front(st))
  BY <1>1 DEF Calm, UrgentOK
<1>4. ~Urgent(Last(st)) => Calm(st)
  BY <1>2 DEF Calm, UrgentOK
<1>5. QED
  BY <1>2, <1>3, <1>4 DEF UrgentOK

(* the buffers that are being analysed *)
LEMMA PendingEqual ==
  ASSUME NEW st, NEW st2, NEW s, PendingAt(st, s) = PendingAt(st2, s),
         \A i \in PendingAt(st, s) : st[i].buffer = st2[i].buffer
  PROVE  Pending(st, s) = Pending(st2, s)
BY DEF Pending

LEMMA PushedPending ==
  ASSUME NEW st, IsStack(st), NEW f, NEW s, ~IsAnalysis(f, s)
  PROVE  Pending(Append(st, f), s) = Pending(st, s)
<1>1. /\ DOMAIN st = 1 .. Len(st) /\ DOMAIN Append(st, f) = 1 .. Len(st) + 1 /\ Len(st) \in Nat
      /\ \A i \in DOMAIN st : Append(st, f)[i] = st[i]
      /\ Append(st, f)[Len(st) + 1] = f
  BY PushedStack
<1> DEFINE st2 == Append(st, f)
<1> HIDE DEF st2
<1>2. PendingAt(st2, s) = PendingAt(st, s)
  BY <1>1 DEF PendingAt, st2
<1>3. \A i \in PendingAt(st, s) : st2[i].buffer = st[i].buffer
  BY <1>1 DEF PendingAt, st2
<1>4. Pending(st2, s) = Pending(st, s)
  BY <1>2, <1>3, PendingEqual
<1>5. QED
  BY <1>4 DEF st2

LEMMA PushedAnalysis ==
  ASSUME NEW st, IsStack(st), NEW s, NEW buffer
  PROVE  LET st2 == Append(st, AnalysisFrame(s, buffer))
         IN  /\ PendingAt(st2, s) = PendingAt(st, s) \union {Len(st) + 1}
             /\ Len(st) + 1 \notin PendingAt(st, s)
             /\ DOMAIN Pending(st2, s) = PendingAt(st2, s)
             /\ \A i \in PendingAt(st, s) : Pending(st2, s)[i] = Pending(st, s)[i]
             /\ Pending(st2, s)[Len(st) + 1] = buffer
             /\ \A r : r # s => Pending(st2, r) = Pending(st, r)
<1> DEFINE f == AnalysisFrame(s, buffer)
           st2 == Append(st, f)
<1>1. /\ DOMAIN st = 1 .. Len(st) /\ DOMAIN st2 = 1 .. Len(st) + 1 /\ Len(st) \in Nat
      /\ \A i \in DOMAIN st : st2[i] = st[i]
      /\ st2[Len(st) + 1] = f
  BY PushedStack
<1>2. f.at = "analysis" /\ f.s = s /\ f.buffer = buffer
  BY DEF AnalysisFrame
<1>3. ASSUME NEW r, r # s PROVE Pending(st2, r) = Pending(st, r)
  <2>1. ~IsAnalysis(f, r)
    BY <1>2, <1>3 DEF IsAnalysis
  <2> HIDE DEF f
  <2>2. QED
    BY <2>1, PushedPending
<1> HIDE DEF f, st2
<1>4. /\ PendingAt(st2, s) = PendingAt(st, s) \union {Len(st) + 1}
      /\ Len(st) + 1 \notin PendingAt(st, s)
  BY <1>1, <1>2 DEF PendingAt, IsAnalysis
<1>5. /\ DOMAIN Pending(st2, s) = PendingAt(st2, s)
      /\ \A i \in PendingAt(st, s) : Pending(st2, s)[i] = Pending(st, s)[i]
  BY <1>1, <1>4 DEF Pending, PendingAt
<1>6. Pending(st2, s)[Len(st) + 1] = buffer
  BY <1>1, <1>2, <1>4 DEF Pending
<1>7. QED
  BY <1>3, <1>4, <1>5, <1>6 DEF st2, f

(* p is part of q *)
Within(p, q) == DOMAIN p \subseteq DOMAIN q /\ \A i \in DOMAIN p : p[i] = q[i]

LEMMA PoppedPending ==
  ASSUME NEW st, IsStack(st), st # <<>>, NEW s
  PROVE  /\ ~IsAnalysis(Last(st), s) => Pending(Front(st), s) = Pending(st, s)
         /\ Within(Pending(Front(st), s), Pending(st, s))
         /\ DOMAIN Pending(Front(st), s) = DOMAIN Pending(st, s) \ {Len(st)}
         /\ IsAnalysis(Last(st), s) =>
              Len(st) \in DOMAIN Pending(st, s) /\ Pending(st, s)[Len(st)] = Last(st).buffer
<1> DEFINE fr == Front(st)
<1>1. /\ Len(st) \in Nat \ {0} /\ DOMAIN st = 1 .. Len(st)
      /\ DOMAIN fr = 1 .. Len(st) - 1
      /\ \A i \in DOMAIN fr : fr[i] = st[i]
  BY PoppedStack
<1>2. Last(st) = st[Len(st)] /\ Len(st) \in DOMAIN st
  BY <1>1 DEF Last
<1> HIDE DEF fr
<1>3. PendingAt(fr, s) = PendingAt(st, s) \ {Len(st)}
  BY <1>1 DEF PendingAt
<1>4. \A i \in PendingAt(fr, s) : fr[i].buffer = st[i].buffer
  BY <1>1 DEF PendingAt
<1>5. DOMAIN Pending(fr, s) = PendingAt(fr, s) /\ DOMAIN Pending(st, s) = PendingAt(st, s)
  BY DEF Pending
<1>6. Within(Pending(fr, s), Pending(st, s))
  BY <1>3, <1>4, <1>5 DEF Pending, Within
<1>7. ASSUME ~IsAnalysis(Last(st), s) PROVE Pending(fr, s) = Pending(st, s)
  <2>1. PendingAt(fr, s) = PendingAt(st, s)
    BY <1>2, <1>3, <1>7 DEF PendingAt
  <2>2. QED
    BY <1>4, <2>1, PendingEqual
<1>8. ASSUME IsAnalysis(Last(st), s)
      PROVE Len(st) \in DOMAIN Pending(st, s) /\ Pending(st, s)[Len(st)] = Last(st).buffer
  BY <1>2, <1>8 DEF PendingAt, Pending
<1>9. QED
  BY <1>3, <1>5, <1>6, <1>7, <1>8 DEF fr

(* Frames of which only those of Waits differ. *)
SameButWaits(st, st2) ==
  /\ DOMAIN st = DOMAIN st2
  /\ \A i \in DOMAIN st :
       st2[i] = st[i] \/ /\ st[i].at = "wait" /\ st2[i].at = "wait"
                         /\ st2[i].iter = st[i].iter

LEMMA WaitsDiffer ==
  ASSUME NEW st, NEW st2, SameButWaits(st, st2), NEW s
  PROVE  /\ FramesOK(st) => FramesOK(st2)
         /\ Calm(st) => Calm(st2)
         /\ Pending(st2, s) = Pending(st, s)
<1>1. FramesOK(st) => FramesOK(st2)
  <2>1. ASSUME FramesOK(st), NEW i \in DOMAIN st2 PROVE FrameOK(st2[i])
    <3>1. FrameOK(st[i])
      BY <2>1 DEF FramesOK, SameButWaits
    <3>2. CASE st2[i] = st[i]
      BY <3>1, <3>2
    <3>3. CASE st[i].at = "wait" /\ st2[i].at = "wait" /\ st2[i].iter = st[i].iter
      <4>1. st[i] # RunFrame
        BY <3>3 DEF RunFrame
      <4>2. st[i].iter \in Sockets \union {None}
        BY <3>1, <3>3, <4>1 DEF FrameOK
      <4>3. QED
        BY <3>3, <4>2 DEF FrameOK
    <3>4. QED
      BY <2>1, <3>2, <3>3 DEF SameButWaits
  <2>2. QED
    BY <2>1 DEF FramesOK
<1>2. Calm(st) => Calm(st2)
  BY DEF Calm, Urgent, SameButWaits
<1>3. PendingAt(st2, s) = PendingAt(st, s)
  BY DEF PendingAt, IsAnalysis, SameButWaits
<1>4. \A i \in PendingAt(st2, s) : st2[i].buffer = st[i].buffer
  BY DEF PendingAt, IsAnalysis, SameButWaits
<1>5. Pending(st2, s) = Pending(st, s)
  BY <1>3, <1>4, PendingEqual
<1>6. QED
  BY <1>1, <1>2, <1>5

LEMMA ErasedDiffers ==
  ASSUME NEW st, GoodStack(st), NEW gone
  PROVE  SameButWaits(st, Erased(st, gone))
<1> DEFINE st2 == Erased(st, gone)
<1>1. DOMAIN st2 = DOMAIN st
  BY DEF Erased
<1>2. ASSUME NEW i \in DOMAIN st
      PROVE  st2[i] = st[i] \/ (st[i].at = "wait" /\ st2[i].at = "wait" /\ st2[i].iter = st[i].iter)
  <2>1. CASE st[i].at = "wait" /\ st[i].iter \in gone
    <3> DEFINE f == st[i]
               g == [f EXCEPT !.valid = FALSE]
    <3>1. f = [at |-> f.at, rd |-> f.rd, wr |-> f.wr, iter |-> f.iter,
               valid |-> f.valid, nested |-> f.nested]
      BY <2>1 DEF GoodStack, GoodFrames, GoodFrame, IsWait
    <3>2. st2[i] = g
      BY <2>1 DEF Erased
    <3>3. g.at = f.at /\ g.iter = f.iter
      <4> HIDE DEF f
      <4>1. QED
        BY <3>1
    <3>4. QED
      BY <2>1, <3>2, <3>3
  <2>2. CASE ~(st[i].at = "wait" /\ st[i].iter \in gone)
    BY <2>2 DEF Erased
  <2>3. QED
    BY <2>1, <2>2
<1> HIDE DEF st2
<1>3. QED
  BY <1>1, <1>2 DEF SameButWaits, st2

LEMMA MarkedDiffers ==
  ASSUME NEW st, GoodStack(st)
  PROVE  LET st2 == [i \in DOMAIN st |->
                       IF st[i].at = "wait" THEN [st[i] EXCEPT !.nested = TRUE] ELSE st[i]]
         IN  SameButWaits(st, st2)
<1> DEFINE st2 == [i \in DOMAIN st |->
                     IF st[i].at = "wait" THEN [st[i] EXCEPT !.nested = TRUE] ELSE st[i]]
<1>1. DOMAIN st2 = DOMAIN st
  OBVIOUS
<1>2. ASSUME NEW i \in DOMAIN st
      PROVE  st2[i] = st[i] \/ (st[i].at = "wait" /\ st2[i].at = "wait" /\ st2[i].iter = st[i].iter)
  <2>1. CASE st[i].at = "wait"
    <3> DEFINE f == st[i]
               g == [f EXCEPT !.nested = TRUE]
    <3>1. f = [at |-> f.at, rd |-> f.rd, wr |-> f.wr, iter |-> f.iter,
               valid |-> f.valid, nested |-> f.nested]
      BY <2>1 DEF GoodStack, GoodFrames, GoodFrame, IsWait
    <3>2. st2[i] = g
      BY <2>1
    <3>3. g.at = f.at /\ g.iter = f.iter
      <4> HIDE DEF f
      <4>1. QED
        BY <3>1
    <3>4. QED
      BY <2>1, <3>2, <3>3
  <2>2. CASE st[i].at # "wait"
    BY <2>2
  <2>3. QED
    BY <2>1, <2>2
<1> HIDE DEF st2
<1>3. QED
  BY <1>1, <1>2 DEF SameButWaits, st2

-----------------------------------------------------------------------------
(* The list of dispatchers. *)
LEMMA AddKeepsList ==
  ASSUME NEW list, ListOK(list), NEW s \in Sockets
  PROVE  ListOK(Add(list, s))
<1>1. CASE s \in Range(list)
  BY <1>1 DEF Add
<1>2. CASE s \notin Range(list)
  <2>1. Append(list, s) \in Seq(Sockets) /\ IsInjective(Append(list, s))
    BY <1>2, AppendToInjective DEF ListOK
  <2>2. QED
    BY <1>2, <2>1 DEF Add, ListOK
<1>3. QED
  BY <1>1, <1>2

LEMMA RemoveKeepsList ==
  ASSUME NEW list, ListOK(list), NEW i, i \in 1 .. Len(list)
  PROVE  ListOK(RemoveAt(list, i))
BY RemoveAtOfInjective DEF ListOK

LEMMA InitialList ==
  /\ SetToSeq(Sockets) \in Seq(Sockets) /\ IsInjective(SetToSeq(Sockets))
<1> DEFINE n == Cardinality(Sockets)
           F == {f \in [1 .. n -> Sockets] : IsInjective(f)}
<1>1. n \in Nat /\ ExistsBijection(1 .. n, Sockets)
  BY NetworkServiceAssumption, FS_CardinalityType
<1>2. \E f \in [1 .. n -> Sockets] : IsInjective(f)
  BY <1>1 DEF ExistsBijection, Bijection, Injection
<1> DEFINE q == SetToSeq(Sockets)
<1>3. q = CHOOSE f \in [1 .. n -> Sockets] : IsInjective(f)
  BY DEF SetToSeq
<1> HIDE DEF q, n
<1>4. q \in [1 .. n -> Sockets] /\ IsInjective(q)
  BY <1>2, <1>3
<1>5. q \in Seq(Sockets)
  BY <1>1, <1>4, SeqDef
<1>6. QED
  BY <1>4, <1>5 DEF q

(* a list whose members are taken or left out one by one *)
Chosen(list, K) == [i \in DOMAIN list |-> IF list[i] \in K THEN <<list[i]>> ELSE <<>>]

LEMMA ChosenKeepsList ==
  ASSUME NEW S, NEW list, list \in Seq(S), IsInjective(list), NEW K
  PROVE  LET c == FlattenSeq(Chosen(list, K))
         IN  c \in Seq(S) /\ IsInjective(c) /\ Range(c) \subseteq Range(list)
<1> DEFINE N == Len(list)
           b == Chosen(list, K)
           F(n) == FlattenSeq(FirstPart(b, n))
           Good(n) == /\ F(n) \in Seq(S) /\ IsInjective(F(n))
                      /\ \A e \in Range(F(n)) : \E j \in 1 .. n : e = list[j]
           Bad == {n \in Nat : n <= N /\ ~Good(n)}
<1>1. N \in Nat /\ DOMAIN list = 1 .. N /\ \A i \in 1 .. N : list[i] \in S
  BY LenProperties, ElementOfSeq
<1>2. b \in Seq(Seq(S)) /\ Len(b) = N
  <2> DEFINE T == Seq(S)
  <2>1. \A i \in 1 .. N : (IF list[i] \in K THEN <<list[i]>> ELSE <<>>) \in T
    BY <1>1, EmptySeq
  <2>2. b = [i \in 1 .. N |-> IF list[i] \in K THEN <<list[i]>> ELSE <<>>]
    BY <1>1 DEF Chosen
  <2> HIDE DEF N, T
  <2>3. b \in Seq(T) /\ Len(b) = N
    BY <1>1, <2>1, <2>2, IsASeq
  <2>4. QED
    BY <2>3 DEF T
<1>3. \A i \in 1 .. N : b[i] = IF list[i] \in K THEN <<list[i]>> ELSE <<>>
  BY <1>1 DEF Chosen
<1> HIDE DEF b, N
<1>4. Good(0)
  <2>1. F(0) = <<>>
    BY <1>2, FlattenNone
  <2>2. <<>> \in Seq(S) /\ IsInjective(<<>>) /\ Range(<<>>) = {}
    BY EmptySeq DEF IsInjective, Range
  <2> HIDE DEF F
  <2>3. QED
    BY <2>1, <2>2
<1>5. ASSUME NEW n \in 1 .. N, Good(n - 1) PROVE Good(n)
  <2> DEFINE m == n - 1
             p == F(m)
             c == b[n]
  <2>1. Joins(S, F(n), p, c)
    BY <1>2, FlattenStep
  <2>2. m \in Nat /\ n \in Nat /\ \A j \in 1 .. m : j \in 1 .. n /\ j # n /\ j \in 1 .. N
    BY <1>1
  <2>3. p \in Seq(S) /\ IsInjective(p) /\ \A e \in Range(p) : \E j \in 1 .. m : e = list[j]
    BY <1>5
  <2>4. CASE list[n] \in K
    <3>1. c = <<list[n]>>
      BY <1>3, <2>4
    <3> HIDE DEF F, p, m, c
    <3>2. F(n) = Append(p, list[n])
      <4>1. F(n) = p \o c
        BY <2>1 DEF Joins
      <4>2. p \o <<list[n]>> = Append(p, list[n])
        BY <1>1, <2>3, AppendIsConcat
      <4>3. QED
        BY <3>1, <4>1, <4>2
    <3>3. list[n] \notin Range(p)
      <4>1. SUFFICES ASSUME list[n] \in Range(p) PROVE FALSE
        OBVIOUS
      <4>2. PICK j \in 1 .. m : list[n] = list[j]
        BY <2>3, <4>1
      <4>3. j \in DOMAIN list /\ n \in DOMAIN list /\ j # n
        BY <1>1, <2>2
      <4>4. QED
        BY <4>2, <4>3 DEF IsInjective
    <3> DEFINE x == list[n]
    <3>4. x \in S
      BY <1>1
    <3> HIDE DEF x
    <3>5. /\ Append(p, x) \in Seq(S) /\ IsInjective(Append(p, x))
          /\ Range(Append(p, x)) = Range(p) \union {x}
      BY <2>3, <3>3, <3>4, AppendToInjective DEF x
    <3>6. n \in 1 .. n
      BY <2>2
    <3>7. \A e \in Range(p) \union {x} : \E j \in 1 .. n : e = list[j]
      BY <2>2, <2>3, <3>6 DEF x
    <3>8. QED
      BY <3>2, <3>5, <3>7 DEF x
  <2>5. CASE list[n] \notin K
    <3>1. c = <<>>
      BY <1>3, <2>5
    <3> HIDE DEF F, p, m, c
    <3>2. F(n) = p
      <4>1. F(n) = p \o c
        BY <2>1 DEF Joins
      <4>2. p \o <<>> = p
        BY <2>3, ConcatEmptySeq
      <4>3. QED
        BY <3>1, <4>1, <4>2
    <3>3. QED
      BY <2>2, <2>3, <3>2
  <2>6. QED
    BY <2>4, <2>5
<1> HIDE DEF Good
<1>6. Bad = {}
  <2>1. SUFFICES ASSUME Bad # {} PROVE FALSE
    OBVIOUS
  <2>2. Bad \in SUBSET Nat
    OBVIOUS
  <2>3. PICK g \in Bad : \A n \in Bad : g <= n
    <3> HIDE DEF Bad
    <3>1. QED
      BY <2>1, <2>2, LeastNatural
  <2>4. g \in Nat /\ g <= N /\ ~Good(g)
    BY <2>3
  <2>5. g # 0
    BY <1>4, <2>4
  <2> DEFINE h == g - 1
  <2>6. g \in 1 .. N /\ h \in Nat /\ h <= N /\ ~(g <= h)
    BY <1>1, <2>4, <2>5
  <2>7. Good(h)
    <3> HIDE DEF h
    <3>1. QED
      BY <2>3, <2>6
  <2>8. QED
    BY <1>5, <2>4, <2>6, <2>7
<1>7. Good(N)
  BY <1>1, <1>6
<1>8. F(N) = FlattenSeq(b)
  BY <1>2, FlattenNone
<1>9. \A j \in 1 .. N : list[j] \in Range(list)
  BY <1>1 DEF Range
<1>10. QED
  <2> HIDE DEF F
  <2>1. F(N) \in Seq(S) /\ IsInjective(F(N)) /\ \A e \in Range(F(N)) : e \in Range(list)
    BY <1>7, <1>9 DEF Good
  <2>2. QED
    BY <1>8, <2>1 DEF b

LEMMA PrunedKeepsList ==
  ASSUME ListOK(dispatchers_)
  PROVE  ListOK(Pruned) /\ FirstOf(Pruned) \in Sockets \union {None}
<1> DEFINE K == {s \in Sockets : sock[s].open}
           list == dispatchers_
           c == Chosen(list, K)
<1>1. list \in Seq(Sockets) /\ IsInjective(list)
  BY DEF ListOK
<1>2. \A i \in DOMAIN list : list[i] \in Sockets
  BY <1>1, ElementOfSeq, LenProperties
<1>3. c = [i \in DOMAIN list |-> IF sock[list[i]].open THEN <<list[i]>> ELSE <<>>]
  BY <1>2 DEF Chosen
<1>4. Pruned = FlattenSeq(c)
  BY <1>3 DEF Pruned
<1> HIDE DEF K, list
<1>5. FlattenSeq(c) \in Seq(Sockets) /\ IsInjective(FlattenSeq(c))
  BY <1>1, ChosenKeepsList
<1>6. Pruned \in Seq(Sockets) /\ IsInjective(Pruned)
  BY <1>4, <1>5
<1> DEFINE P == Pruned
<1> HIDE DEF P
<1>7. P # <<>> => Head(P) \in Sockets
  BY <1>6, HeadTailProperties DEF P
<1>8. QED
  BY <1>6, <1>7 DEF ListOK, FirstOf, P

-----------------------------------------------------------------------------
(* What steps do to a connection. *)
LEMMA LikeKeeps ==
  ASSUME NEW k, NEW plan, NEW flt, NEW dlv, NEW tk, NEW pend, NEW snt, NEW wrt, NEW arr,
         NEW pr, NEW fl, SocketOK(k, plan, flt, dlv, tk, pend, snt, wrt, arr, pr, fl),
         NEW k2, Like(k, k2)
  PROVE  SocketOK(k2, plan, flt, dlv, tk, pend, snt, wrt, arr, pr, fl)
<1>1. SockOK(k2) /\ k2.open = k.open /\ k2.recv_buff_ = k.recv_buff_ /\ Unsent(k2) = Unsent(k)
  BY DEF Like
<1>2. OutputOK(k2, snt, wrt)
  BY <1>1 DEF SocketOK, OutputOK
<1>3. QED
  BY <1>1, <1>2 DEF SocketOK

LEMMA ClosingKeeps ==
  ASSUME NEW k, NEW plan, NEW flt, NEW dlv, NEW tk, NEW pend, NEW snt, NEW wrt, NEW arr,
         NEW pr, NEW fl, SocketOK(k, plan, flt, dlv, tk, pend, snt, wrt, arr, pr, fl)
  PROVE  SocketOK(Closed(k), plan, flt, dlv, tk, pend, snt, wrt, arr, pr, fl)
<1>1. SockOK(Closed(k)) /\ ~Closed(k).open /\ Closed(k).recv_buff_ = k.recv_buff_
  BY ClosedSocket DEF SocketOK
<1>2. OutputOK(Closed(k), snt, wrt)
  BY <1>1 DEF SocketOK, OutputOK
<1>3. WireOK(plan, arr, tk, pr, fl, flt, Closed(k).open)
  BY <1>1 DEF SocketOK, WireOK
<1>4. QED
  BY <1>1, <1>2, <1>3 DEF SocketOK

(* the connection fails, and the application is told *)
LEMMA FailingKeeps ==
  ASSUME NEW k, NEW plan, NEW flt, NEW dlv, NEW tk, NEW pend, NEW snt, NEW wrt, NEW arr,
         NEW pr, NEW fl, SocketOK(k, plan, flt, dlv, tk, pend, snt, wrt, arr, pr, fl),
         k.open, ~Faulty(flt) => pr # "open", EndOK(plan, arr, pr, fl + 1, flt, dlv)
  PROVE  SocketOK(Closed(k), plan, flt, dlv, tk, pend, snt, wrt, arr, pr, fl + 1)
<1>1. SockOK(Closed(k)) /\ ~Closed(k).open /\ Closed(k).recv_buff_ = k.recv_buff_
  BY ClosedSocket DEF SocketOK
<1>2. OutputOK(Closed(k), snt, wrt)
  BY <1>1 DEF SocketOK, OutputOK
<1>3. fl = 0 /\ fl + 1 \in 0 .. 1
  BY DEF SocketOK, WireOK
<1>4. WireOK(plan, arr, tk, pr, fl + 1, flt, Closed(k).open)
  BY <1>1, <1>3 DEF SocketOK, WireOK
<1>5. QED
  BY <1>1, <1>2, <1>4 DEF SocketOK

(* a reset connection fails *)
LEMMA ResetKeeps ==
  ASSUME NEW k, NEW plan, NEW flt, NEW dlv, NEW tk, NEW pend, NEW snt, NEW wrt, NEW arr,
         NEW pr, NEW fl, SocketOK(k, plan, flt, dlv, tk, pend, snt, wrt, arr, pr, fl),
         k.open, pr = "reset"
  PROVE  SocketOK(Closed(k), plan, flt, dlv, tk, pend, snt, wrt, arr, pr, fl + 1)
<1>1. pr # "open" /\ EndOK(plan, arr, pr, fl + 1, flt, dlv)
  BY DEF EndOK
<1>2. QED
  BY <1>1, FailingKeeps

(* the kernel takes some of what is to be sent *)
LEMMA SendingKeeps ==
  ASSUME NEW k, NEW plan, NEW flt, NEW dlv, NEW tk, NEW pend, NEW snt, NEW wrt, NEW arr,
         NEW pr, NEW fl, SocketOK(k, plan, flt, dlv, tk, pend, snt, wrt, arr, pr, fl),
         NEW n, n \in 0 .. Len(Unsent(k))
  PROVE  SocketOK(WriteData(k, n), plan, flt, dlv, tk, pend,
                  snt \o SubSeq(Unsent(k), 1, n), wrt, arr, pr, fl)
<1> DEFINE k2 == WriteData(k, n)
           s2 == snt \o SubSeq(Unsent(k), 1, n)
<1>1. SockOK(k) /\ OutputOK(k, snt, wrt)
  BY DEF SocketOK
<1>2. Sends(k, n, k2)
  BY <1>1, WriteDataLeaves
<1> HIDE DEF k2
<1>3. OutputOK(k2, s2, wrt)
  BY <1>1, <1>2, SendingKeepsOutput
<1>4. SockOK(k2) /\ k2.open = k.open /\ k2.recv_buff_ = k.recv_buff_
  BY <1>2 DEF Sends
<1> HIDE DEF s2
<1>5. SocketOK(k2, plan, flt, dlv, tk, pend, s2, wrt, arr, pr, fl)
  BY <1>3, <1>4 DEF SocketOK
<1>6. QED
  BY <1>5 DEF k2, s2

(* a packet is written *)
LEMMA WritingKeeps ==
  ASSUME NEW k, NEW plan, NEW flt, NEW dlv, NEW tk, NEW pend, NEW snt, NEW wrt, NEW arr,
         NEW pr, NEW fl, SocketOK(k, plan, flt, dlv, tk, pend, snt, wrt, arr, pr, fl),
         k.open, wrt + 1 \in 1 .. MaxOps,
         NEW packet, packet \in PacketBuffers(wrt + 1, OutSize)
  PROVE  LET k2 == [k EXCEPT !.write_buffers_ = AppendBuffer(@, packet)]
         IN  SocketOK(k2, plan, flt, dlv, tk, pend, snt, wrt + 1, arr, pr, fl)
<1> DEFINE w == wrt + 1
           k2 == [k EXCEPT !.write_buffers_ = AppendBuffer(@, packet)]
           p == Bytes(packet)
<1>1. SockOK(k) /\ OutputOK(k, snt, wrt)
  BY DEF SocketOK
<1>2. packet \in Buffers(OutBytes) /\ p = PacketBytes(w, OutSize)
  <2> HIDE DEF w
  <2>1. w \in 1 .. MaxOps /\ packet \in PacketBuffers(w, OutSize)
    BY DEF w
  <2>2. QED
    BY <2>1, WrittenPacket
<1>3. /\ SockOK(k2) /\ k2.open = k.open /\ k2.recv_buff_ = k.recv_buff_
      /\ Joins(OutBytes, Unsent(k2), Unsent(k), p)
  BY <1>1, <1>2, WritesMore
<1>4. p \in Seq(OutBytes)
  BY <1>2, BytesTyped
<1> HIDE DEF k2, p
<1>5. Writing(k, snt, wrt, k2, p)
  BY <1>1, <1>2, <1>3, <1>4 DEF Writing
<1>6. OutputOK(k2, snt, wrt + 1)
  BY <1>5, WritingKeepsOutput
<1>7. SocketOK(k2, plan, flt, dlv, tk, pend, snt, wrt + 1, arr, pr, fl)
  BY <1>3, <1>6 DEF SocketOK
<1>8. QED
  BY <1>7 DEF k2

(* bytes arrive *)
LEMMA ArrivingKeeps ==
  ASSUME NEW k, NEW plan, NEW flt, NEW dlv, NEW tk, NEW pend, NEW snt, NEW wrt, NEW arr,
         NEW fl, SocketOK(k, plan, flt, dlv, tk, pend, snt, wrt, arr, "open", fl),
         NEW n, n \in Nat, arr < n, n <= Len(StreamBytes(plan))
  PROVE  SocketOK(k, plan, flt, dlv, tk, pend, snt, wrt, n, "open", fl)
<1>1. WireOK(plan, n, tk, "open", fl, flt, k.open)
  BY DEF SocketOK, WireOK
<1>2. EndOK(plan, n, "open", fl, flt, dlv)
  BY DEF EndOK
<1>3. QED
  BY <1>1, <1>2 DEF SocketOK

(* the peer goes *)
LEMMA GoingKeeps ==
  ASSUME NEW k, NEW plan, NEW flt, NEW dlv, NEW tk, NEW pend, NEW snt, NEW wrt, NEW arr,
         NEW fl, SocketOK(k, plan, flt, dlv, tk, pend, snt, wrt, arr, "open", fl),
         NEW pr, pr \in {"eof", "reset"}
  PROVE  SocketOK(k, plan, flt, dlv, tk, pend, snt, wrt, arr, pr, fl)
<1>1. WireOK(plan, arr, tk, pr, fl, flt, k.open)
  BY DEF SocketOK, WireOK
<1>2. EndOK(plan, arr, pr, fl, flt, dlv)
  BY DEF SocketOK, WireOK, EndOK, Faulty
<1>3. QED
  BY <1>1, <1>2 DEF SocketOK

(* an event that met no data *)
LEMMA StarvingKeeps ==
  ASSUME NEW k, NEW plan, NEW flt, NEW dlv, NEW tk, NEW pend, NEW snt, NEW wrt, NEW arr,
         NEW pr, NEW fl, SocketOK(k, plan, flt, dlv, tk, pend, snt, wrt, arr, pr, fl)
  PROVE  SocketOK(k, plan, flt \union {"starved"}, dlv, tk, pend, snt, wrt, arr, pr, fl)
<1> DEFINE f2 == flt \union {"starved"}
<1>1. Faulty(f2) <=> Faulty(flt)
  BY DEF Faulty
<1>2. f2 # {} /\ ("split" \in f2 <=> "split" \in flt)
  OBVIOUS
<1>3. f2 \subseteq Faults
  BY DEF SocketOK, WireOK, Faults
<1> HIDE DEF f2
<1>4. WireOK(plan, arr, tk, pr, fl, f2, k.open)
  BY <1>1, <1>3 DEF SocketOK, WireOK
<1>5. EndOK(plan, arr, pr, fl, f2, dlv)
  BY <1>2 DEF EndOK
<1>6. ReceivedOK(k.recv_buff_, plan, f2, pend)
  BY <1>2 DEF SocketOK, ReceivedOK
<1>7. QED
  BY <1>1, <1>4, <1>5, <1>6 DEF SocketOK, f2

(* the analysis of what was read ends because the connection is closed *)
LEMMA StoppingKeeps ==
  ASSUME NEW k, NEW plan, NEW flt, NEW dlv, NEW tk, NEW pend, NEW snt, NEW wrt, NEW arr,
         NEW pr, NEW fl, SocketOK(k, plan, flt, dlv, tk, pend, snt, wrt, arr, pr, fl),
         ~k.open, NEW p2, Within(p2, pend)
  PROVE  SocketOK(k, plan, flt, dlv, tk, p2, snt, wrt, arr, pr, fl)
<1>1. PendingOK(plan, pend) => PendingOK(plan, p2)
  BY DEF PendingOK, Within
<1>2. ReceivedOK(k.recv_buff_, plan, flt, p2)
  BY <1>1 DEF SocketOK, ReceivedOK
<1>3. QED
  BY <1>2 DEF SocketOK

-----------------------------------------------------------------------------
(* The analysis of what was read. *)
Added(pend, p2, j, b) ==
  /\ DOMAIN p2 = DOMAIN pend \union {j}
  /\ \A i \in DOMAIN pend : p2[i] = pend[i]
  /\ p2[j] = b

(* what a read adds to the faults, if there is something pending *)
Overlaps(new, pend) == new \subseteq {"nested"} /\ (DOMAIN pend # {} => new # {})

(* what arrived and was not received *)
Unread(plan, tk, arr) == SubSeq(StreamBytes(plan), tk + 1, arr)

LEMMA UnreadTyped ==
  ASSUME NEW plan, NEW tk, NEW arr, NEW pr, NEW fl, NEW flt, NEW op,
         WireOK(plan, arr, tk, pr, fl, flt, op)
  PROVE  /\ Unread(plan, tk, arr) \in Seq(BytesOf(plan))
         /\ Len(Unread(plan, tk, arr)) = arr - tk
<1> DEFINE S == BytesOf(plan)
           s == StreamBytes(plan)
<1>1. plan \in Seq(Nat) /\ tk \in Nat /\ arr \in Nat /\ tk <= arr /\ arr <= Len(s)
  BY DEF WireOK
<1>2. s \in Seq(S)
  BY <1>1, StreamTyped
<1>3. Len(s) \in Nat
  BY <1>2, LenProperties
<1> HIDE DEF S, s
<1>4. CanCutBoth(S, s, tk, arr)
  BY <1>1, <1>2, <1>3 DEF CanCutBoth, CanCut
<1>5. SubSeq(s, tk + 1, arr) \in Seq(S) /\ Len(SubSeq(s, tk + 1, arr)) = arr - tk
  BY <1>4, CutFurther
<1>6. QED
  BY <1>5 DEF Unread, s, S

LEMMA ReadingKeeps ==
  ASSUME NEW k, NEW plan, NEW flt, NEW dlv, NEW tk, NEW pend, NEW snt, NEW wrt, NEW arr,
         NEW pr, NEW fl, SocketOK(k, plan, flt, dlv, tk, pend, snt, wrt, arr, pr, fl),
         k.open, NEW k2, Like(k, k2), NEW new, Overlaps(new, pend),
         NEW p2, NEW j, Added(pend, p2, j, BufferOf(Unread(plan, tk, arr)))
  PROVE  SocketOK(k2, plan, flt \union new, dlv, arr, p2, snt, wrt, arr, pr, fl)
<1> DEFINE y == Unread(plan, tk, arr)
           b == BufferOf(y)
           f2 == flt \union new
           S == BytesOf(plan)
           recv == k.recv_buff_
           d == Len(dlv)
<1>1. /\ SockOK(k2) /\ k2.open /\ k2.recv_buff_ = recv /\ Unsent(k2) = Unsent(k)
  BY DEF Like
<1>2. /\ OutputOK(k, snt, wrt) /\ WireOK(plan, arr, tk, pr, fl, flt, k.open)
      /\ ReceivedOK(recv, plan, flt, pend)
      /\ ~Faulty(flt) => StreamOK(recv, plan, dlv, tk, pend)
  BY DEF SocketOK
<1>3. y \in Seq(S)
  BY <1>2, UnreadTyped
<1>4. IsExact(b, S) /\ Bytes(b) = y /\ BlocksFit(b)
  <2> HIDE DEF y, S
  <2>1. QED
    BY <1>3, BufferOfBytes
<1>5. OutputOK(k2, snt, wrt)
  BY <1>1, <1>2 DEF OutputOK
<1>6. fl = 0
  BY <1>2 DEF WireOK
<1>7. WireOK(plan, arr, arr, pr, fl, f2, k2.open)
  <2>1. f2 \subseteq Faults
    BY <1>2 DEF WireOK, Overlaps, Faults
  <2> HIDE DEF f2
  <2>2. QED
    BY <1>2, <1>6, <2>1 DEF WireOK
<1>8. EndOK(plan, arr, pr, fl, f2, dlv)
  BY <1>6 DEF EndOK
<1>9. "split" \in f2 <=> "split" \in flt
  BY DEF Overlaps
<1> HIDE DEF b, y, S
<1>10. ReceivedOK(recv, plan, f2, p2)
  <2>1. SUFFICES ASSUME "split" \notin f2
                 PROVE  /\ IsExact(recv, S) /\ HoldsNoPacket(recv, plan)
                        /\ PendingOK(plan, p2)
    BY DEF ReceivedOK, S
  <2>2. IsExact(recv, S) /\ HoldsNoPacket(recv, plan) /\ PendingOK(plan, pend)
    BY <1>2, <1>9, <2>1 DEF ReceivedOK, S
  <2>3. PendingOK(plan, p2)
    BY <1>4, <2>2 DEF PendingOK, Added, S, b, y
  <2>4. QED
    BY <2>2, <2>3
<1>11. ASSUME ~Faulty(f2) PROVE StreamOK(recv, plan, dlv, arr, p2)
  <2>1. ~Faulty(flt) /\ new = {}
    BY <1>11 DEF Faulty, Overlaps
  <2>2. DOMAIN pend = {}
    BY <2>1 DEF Overlaps
  <2>3. /\ dlv = Bodies(plan, d)
        /\ Streaming(plan, d, Bytes(recv), tk)
    BY <1>2, <2>1, <2>2 DEF StreamOK
  <2>4. arr \in tk .. Len(StreamBytes(plan))
    <3>1. arr \in Nat /\ tk \in Nat /\ tk <= arr /\ arr <= Len(StreamBytes(plan))
      BY <1>2 DEF WireOK
    <3>2. Len(StreamBytes(plan)) \in Int
      <4>1. CanCut(Nat, plan, d)
        BY <2>3 DEF Streaming
      <4>2. QED
        BY <4>1, UptoCuts
    <3>3. QED
      BY <3>1, <3>2
  <2>5. Reading(plan, d, Bytes(recv), tk, arr)
    BY <2>3, <2>4 DEF Reading
  <2>6. Streaming(plan, d, Bytes(recv) \o y, arr)
    BY <2>5, StreamGoesOn DEF y, Unread
  <2>7. Work(recv, b) = Bytes(recv) \o y
    BY <1>4 DEF Work
  <2>8. DOMAIN p2 = {j} /\ p2[j] = b
    BY <2>2 DEF Added, b, y
  <2> DEFINE w == Work(recv, b)
  <2>9. Streaming(plan, d, w, arr)
    BY <2>6, <2>7
  <2>10. \A i \in DOMAIN p2 : Work(recv, p2[i]) = w
    BY <2>8
  <2> HIDE DEF w
  <2>11. QED
    BY <2>3, <2>8, <2>9, <2>10 DEF StreamOK
<1>12. QED
  BY <1>1, <1>5, <1>7, <1>8, <1>10, <1>11 DEF SocketOK

(* the end of the stream is met *)
LEMMA EndingKeeps ==
  ASSUME NEW k, NEW plan, NEW flt, NEW dlv, NEW tk, NEW pend, NEW snt, NEW wrt, NEW arr,
         NEW pr, NEW fl, SocketOK(k, plan, flt, dlv, tk, pend, snt, wrt, arr, pr, fl),
         k.open, pr # "open", NEW new, Overlaps(new, pend),
         NEW lost, lost \subseteq {"dropped"}, Unread(plan, tk, arr) # <<>> => lost # {}
  PROVE  SocketOK(Closed(k), plan, (flt \union new) \union lost, dlv, arr, pend, snt, wrt, arr,
                  pr, fl + 1)
<1> DEFINE f2 == (flt \union new) \union lost
           recv == k.recv_buff_
           d == Len(dlv)
<1>1. SockOK(Closed(k)) /\ ~Closed(k).open /\ Closed(k).recv_buff_ = recv
  BY ClosedSocket DEF SocketOK
<1>2. /\ OutputOK(k, snt, wrt) /\ WireOK(plan, arr, tk, pr, fl, flt, k.open)
      /\ ReceivedOK(recv, plan, flt, pend)
      /\ ~Faulty(flt) => StreamOK(recv, plan, dlv, tk, pend)
  BY DEF SocketOK
<1>3. OutputOK(Closed(k), snt, wrt)
  BY <1>1, <1>2 DEF OutputOK
<1>4. fl + 1 \in 0 .. 1
  BY <1>2 DEF WireOK
<1>5. WireOK(plan, arr, arr, pr, fl + 1, f2, Closed(k).open)
  <2>1. f2 \subseteq Faults
    BY <1>2 DEF WireOK, Overlaps, Faults
  <2> HIDE DEF f2
  <2>2. QED
    BY <1>1, <1>2, <1>4, <2>1 DEF WireOK
<1>6. ReceivedOK(recv, plan, f2, pend)
  <2>1. "split" \in f2 <=> "split" \in flt
    BY DEF Overlaps
  <2>2. QED
    BY <1>2, <2>1 DEF ReceivedOK
<1>7. EndOK(plan, arr, pr, fl + 1, f2, dlv)
  <2>1. SUFFICES ASSUME f2 = {} PROVE d = CompleteOf(plan, arr)
    BY DEF EndOK
  <2>2. flt = {} /\ new = {} /\ lost = {}
    BY <2>1
  <2>3. DOMAIN pend = {} /\ Unread(plan, tk, arr) = <<>>
    BY <2>2 DEF Overlaps
  <2>4. arr = tk
    <3>1. Len(Unread(plan, tk, arr)) = arr - tk
      BY <1>2, UnreadTyped
    <3>2. Len(Unread(plan, tk, arr)) = 0
      BY <2>3, EmptySeq
    <3>3. arr \in Nat /\ tk \in Nat
      BY <1>2 DEF WireOK
    <3>4. QED
      BY <3>1, <3>2, <3>3
  <2>5. StreamOK(recv, plan, dlv, tk, pend)
    BY <1>2, <2>2 DEF Faulty
  <2>6. Streaming(plan, d, Bytes(recv), tk)
    BY <2>3, <2>5 DEF StreamOK
  <2>7. IsExact(recv, BytesOf(plan)) /\ HoldsNoPacket(recv, plan)
    BY <1>2, <2>2 DEF ReceivedOK
  <2>8. Settled(recv, plan, d, tk)
    BY <2>6, <2>7 DEF Settled
  <2>9. CompleteOf(plan, tk) = d
    BY <2>8, SettledIsWhole
  <2>10. QED
    BY <2>4, <2>9
<1> HIDE DEF f2
<1>8. SocketOK(Closed(k), plan, f2, dlv, arr, pend, snt, wrt, arr, pr, fl + 1)
  BY <1>1, <1>3, <1>5, <1>6, <1>7 DEF SocketOK
<1>9. QED
  BY <1>8 DEF f2

(* frame j, which analysed b, is gone *)
Dropped(pend, p2, j, b) ==
  /\ DOMAIN p2 = DOMAIN pend \ {j} /\ Within(p2, pend)
  /\ j \in DOMAIN pend /\ pend[j] = b

(* k2 is k with another recv_buff_ *)
KeptIn(k, k2, recv) ==
  SockOK(k2) /\ k2.open = k.open /\ k2.recv_buff_ = recv /\ Unsent(k2) = Unsent(k)

LEMMA KeepingKeeps ==
  ASSUME NEW k, NEW plan, NEW flt, NEW dlv, NEW tk, NEW pend, NEW snt, NEW wrt, NEW arr,
         NEW pr, NEW fl, SocketOK(k, plan, flt, dlv, tk, pend, snt, wrt, arr, pr, fl),
         NEW p2, NEW j, NEW b, Dropped(pend, p2, j, b),
         HeaderComplete(k.recv_buff_, b) =>
           HeaderGood(k.recv_buff_, b) /\ ~PacketComplete(k.recv_buff_, b, plan),
         NEW k2, KeptIn(k, k2, AppendBuffer(k.recv_buff_, b))
  PROVE  SocketOK(k2, plan, flt, dlv, tk, p2, snt, wrt, arr, pr, fl)
<1> DEFINE recv == k.recv_buff_
           r2 == AppendBuffer(recv, b)
           S == BytesOf(plan)
           d == Len(dlv)
<1>1. SockOK(k2) /\ k2.open = k.open /\ k2.recv_buff_ = r2 /\ Unsent(k2) = Unsent(k)
  BY DEF KeptIn
<1>2. /\ OutputOK(k, snt, wrt) /\ WireOK(plan, arr, tk, pr, fl, flt, k.open)
      /\ ReceivedOK(recv, plan, flt, pend) /\ EndOK(plan, arr, pr, fl, flt, dlv)
      /\ k.open /\ ~Faulty(flt) => StreamOK(recv, plan, dlv, tk, pend)
  BY DEF SocketOK
<1>3. OutputOK(k2, snt, wrt) /\ WireOK(plan, arr, tk, pr, fl, flt, k2.open)
  BY <1>1, <1>2 DEF OutputOK
<1>4. j \in DOMAIN pend /\ pend[j] = b
  BY DEF Dropped
<1>5. ASSUME "split" \notin flt
      PROVE  /\ IsExact(r2, S) /\ HoldsNoPacket(r2, plan)
             /\ Bytes(r2) = Work(recv, b) /\ PendingOK(plan, p2)
  <2>1. IsExact(recv, S) /\ PendingOK(plan, pend)
    BY <1>2, <1>5 DEF ReceivedOK
  <2>2. IsExact(b, S)
    BY <1>4, <2>1 DEF PendingOK
  <2>3. PendingOK(plan, p2)
    BY <2>1 DEF PendingOK, Dropped, Within
  <2>4. plan \in Seq(Nat)
    BY <1>2 DEF WireOK
  <2>5. Keeping(recv, b, plan)
    BY <2>1, <2>2, <2>4 DEF Keeping, Exact
  <2>6. QED
    BY <2>3, <2>5, KeepsNoPacket
<1>6. ReceivedOK(r2, plan, flt, p2)
  BY <1>5 DEF ReceivedOK
<1>7. ASSUME k.open, ~Faulty(flt) PROVE StreamOK(r2, plan, dlv, tk, p2)
  <2>1. StreamOK(recv, plan, dlv, tk, pend)
    BY <1>2, <1>7
  <2>2. DOMAIN p2 = {}
    BY <1>4, <2>1 DEF StreamOK, Dropped
  <2>3. dlv = Bodies(plan, d) /\ Streaming(plan, d, Work(recv, b), tk)
    BY <1>4, <2>1 DEF StreamOK
  <2>4. Bytes(r2) = Work(recv, b)
    BY <1>5, <1>7 DEF Faulty
  <2> HIDE DEF r2
  <2>5. QED
    BY <2>2, <2>3, <2>4 DEF StreamOK
<1> HIDE DEF r2
<1>8. QED
  BY <1>1, <1>2, <1>3, <1>6, <1>7 DEF SocketOK

(* what was delivered, and one packet more *)
LEMMA BodiesStep ==
  ASSUME NEW plan, NEW dlv, NEW d, d \in Nat, dlv = Bodies(plan, d)
  PROVE  LET d2 == Append(dlv, Body(d + 1, plan[d + 1]))
         IN  d2 = Bodies(plan, d + 1) /\ Len(d2) = d + 1
<1> DEFINE e == d + 1
           T == {Body(p, plan[p]) : p \in 1 .. e}
           x == Body(e, plan[e])
           d2 == Append(dlv, x)
           b == Bodies(plan, e)
<1>1. e \in Nat /\ e \in 1 .. e /\ \A p \in 1 .. d : p \in 1 .. e
  OBVIOUS
<1>2. x \in T /\ \A p \in 1 .. e : Body(p, plan[p]) \in T
  BY <1>1
<1>3. b = [p \in 1 .. e |-> Body(p, plan[p])] /\ dlv = [p \in 1 .. d |-> Body(p, plan[p])]
  BY DEF Bodies
<1> HIDE DEF T, e
<1>4. b \in Seq(T) /\ Len(b) = e /\ \A p \in 1 .. e : b[p] = Body(p, plan[p])
  BY <1>1, <1>2, <1>3, IsASeq
<1>5. dlv \in Seq(T) /\ Len(dlv) = d /\ \A p \in 1 .. d : dlv[p] = Body(p, plan[p])
  BY <1>1, <1>2, <1>3, IsASeq
<1>6. /\ d2 \in Seq(T) /\ Len(d2) = Len(dlv) + 1
      /\ \A i \in 1 .. Len(dlv) : d2[i] = dlv[i]
      /\ d2[Len(dlv) + 1] = x
  BY <1>2, <1>5, AppendToSeq
<1> HIDE DEF d2, b
<1>7. Len(d2) = e /\ d2[e] = x /\ \A p \in 1 .. d : d2[p] = dlv[p]
  BY <1>5, <1>6 DEF e
<1>8. \A p \in 1 .. e : d2[p] = b[p]
  <2>1. ASSUME NEW p \in 1 .. e PROVE d2[p] = b[p]
    <3>1. CASE p = e
      BY <1>1, <1>4, <1>7, <3>1
    <3>2. CASE p # e
      <4>1. p \in 1 .. d
        BY <3>2 DEF e
      <4>2. QED
        BY <1>4, <1>5, <1>7, <4>1
    <3>3. QED
      BY <3>1, <3>2
  <2>2. QED
    BY <2>1
<1>9. d2 = b
  BY <1>4, <1>6, <1>7, <1>8, SeqEqual
<1>10. QED
  BY <1>7, <1>9 DEF d2, b, e, x

(* frame j now analyses what TakePacket left *)
Replaced(pend, p2, j, b, b2) ==
  /\ DOMAIN p2 = DOMAIN pend /\ j \in DOMAIN pend /\ pend[j] = b /\ p2[j] = b2
  /\ \A i \in DOMAIN pend : i # j => p2[i] = pend[i]

(* AnalysisPacket finds a packet in recv and b *)
Finds(recv, b, plan) ==
  HeaderComplete(recv, b) /\ HeaderGood(recv, b) /\ PacketComplete(recv, b, plan)

(* the packet goes to the application, and it is the next one *)
Delivers(k, plan, flt, dlv, tk, p2, snt, wrt, arr, pr, fl, k2, b) ==
  LET d2 == Append(dlv, TakePacket(k.recv_buff_, b, plan).packet)
      f2 == IF HeaderSplit(k.recv_buff_, b) THEN flt \union {"split"} ELSE flt
  IN  /\ SocketOK(k2, plan, f2, d2, tk, p2, snt, wrt, arr, pr, fl)
      /\ ~Faulty(f2) => /\ Len(dlv) \in Nat /\ Len(dlv) < Len(plan)
                        /\ d2 = Append(dlv, Body(Len(dlv) + 1, plan[Len(dlv) + 1]))

LEMMA DeliveringKeeps ==
  ASSUME NEW k, NEW plan, NEW flt, NEW dlv, NEW tk, NEW pend, NEW snt, NEW wrt, NEW arr,
         NEW pr, NEW fl, SocketOK(k, plan, flt, dlv, tk, pend, snt, wrt, arr, pr, fl),
         k.open, NEW b, Finds(k.recv_buff_, b, plan),
         NEW p2, NEW j, Replaced(pend, p2, j, b, TakePacket(k.recv_buff_, b, plan).buffer),
         NEW k2, KeptIn(k, k2, EmptyBuffer)
  PROVE  Delivers(k, plan, flt, dlv, tk, p2, snt, wrt, arr, pr, fl, k2, b)
<1> DEFINE recv == k.recv_buff_
           result == TakePacket(recv, b, plan)
           S == BytesOf(plan)
           d == Len(dlv)
           d2 == Append(dlv, result.packet)
           f2 == IF HeaderSplit(recv, b) THEN flt \union {"split"} ELSE flt
<1>1. SockOK(k2) /\ k2.open = k.open /\ k2.recv_buff_ = EmptyBuffer /\ Unsent(k2) = Unsent(k)
  BY DEF KeptIn
<1>2. /\ OutputOK(k, snt, wrt) /\ WireOK(plan, arr, tk, pr, fl, flt, k.open)
      /\ ReceivedOK(recv, plan, flt, pend)
      /\ ~Faulty(flt) => StreamOK(recv, plan, dlv, tk, pend)
  BY DEF SocketOK
<1>3. OutputOK(k2, snt, wrt)
  BY <1>1, <1>2 DEF OutputOK
<1>4. fl = 0
  BY <1>2 DEF WireOK
<1>5. WireOK(plan, arr, tk, pr, fl, f2, k2.open)
  <2>1. f2 \subseteq Faults
    BY <1>2 DEF WireOK, Faults
  <2> HIDE DEF f2
  <2>2. QED
    BY <1>1, <1>2, <1>4, <2>1 DEF WireOK
<1>6. EndOK(plan, arr, pr, fl, f2, d2)
  BY <1>4 DEF EndOK
<1>7. j \in DOMAIN pend /\ pend[j] = b /\ p2[j] = result.buffer /\ DOMAIN p2 = DOMAIN pend
  BY DEF Replaced
<1>8. "split" \notin f2 => "split" \notin flt /\ ~HeaderSplit(recv, b)
  OBVIOUS
<1>9. ASSUME "split" \notin f2
      PROVE  /\ Taking(recv, b, plan) /\ Exact(S, recv, b)
             /\ PendingOK(plan, p2)
             /\ IsExact(result.buffer, S)
  <2>1. IsExact(recv, S) /\ PendingOK(plan, pend) /\ HoldsNoPacket(recv, plan)
    BY <1>2, <1>8, <1>9 DEF ReceivedOK
  <2>2. IsExact(b, S) /\ BlocksFit(b)
    BY <1>7, <2>1 DEF PendingOK
  <2>3. plan \in Seq(Nat) /\ \A p \in DOMAIN plan : plan[p] + DEFAULT_BLOCK_SIZE <= WordMod
    BY <1>2 DEF WireOK
  <2>4. Exact(S, recv, b)
    BY <2>1, <2>2 DEF Exact
  <2>5. Taking(recv, b, plan)
    BY <1>8, <1>9, <2>1, <2>2, <2>3, <2>4 DEF Taking, Finds
  <2>6. IsExact(result.buffer, S) /\ BlocksFit(result.buffer)
    BY <2>5, TakePacketWorks
  <2> HIDE DEF result
  <2>7. PendingOK(plan, p2)
    BY <2>1, <2>6 DEF PendingOK, Replaced, result
  <2>8. QED
    BY <2>4, <2>5, <2>6, <2>7
<1>10. IsExact(EmptyBuffer, S) /\ Bytes(EmptyBuffer) = <<>> /\ EmptyBuffer.size_ = 0
  BY EmptyBufferExact
<1>11. HoldsNoPacket(EmptyBuffer, plan)
  BY <1>10, HeaderSizeHolds DEF HoldsNoPacket, HeaderSize
<1>12. ReceivedOK(EmptyBuffer, plan, f2, p2)
  BY <1>9, <1>10, <1>11 DEF ReceivedOK
<1>13. ASSUME ~Faulty(f2)
       PROVE  /\ StreamOK(EmptyBuffer, plan, d2, tk, p2)
              /\ d \in Nat /\ d < Len(plan)
              /\ d2 = Append(dlv, Body(d + 1, plan[d + 1]))
  <2>1. "split" \notin f2 /\ ~Faulty(flt)
    BY <1>13 DEF Faulty
  <2>2. Taking(recv, b, plan) /\ Exact(S, recv, b) /\ IsExact(result.buffer, S)
    BY <1>9, <2>1
  <2>3. StreamOK(recv, plan, dlv, tk, pend)
    BY <1>2, <2>1
  <2>4. /\ dlv = Bodies(plan, d) /\ Streaming(plan, d, Work(recv, b), tk)
        /\ \A i \in DOMAIN pend : i = j
    BY <1>7, <2>3 DEF StreamOK
  <2>5. Turning(recv, b, plan, d, tk)
    BY <2>2, <2>4 DEF Turning, Taking
  <2>6. /\ result.packet = Body(d + 1, plan[d + 1])
        /\ Streaming(plan, d + 1, Bytes(result.buffer), tk)
        /\ ~Ended(plan, d)
    BY <2>2, <2>5, DeliversNext
  <2>7. d \in Nat /\ d < Len(plan)
    <3>1. d \in 0 .. Len(plan) /\ plan \in Seq(Nat) /\ d # Len(plan)
      BY <2>4, <2>6 DEF Streaming, CanCut, Ended
    <3>2. QED
      BY <3>1, LenProperties
  <2>8. d2 = Append(dlv, Body(d + 1, plan[d + 1]))
    BY <2>6
  <2> DEFINE e == d + 1
             bf == result.buffer
             w == Work(EmptyBuffer, bf)
             c == d
  <2>9. d2 = Bodies(plan, e) /\ Len(d2) = e
    <3> HIDE DEF d2
    <3>1. c \in Nat /\ dlv = Bodies(plan, c)
      BY <2>4, <2>7
    <3> HIDE DEF c
    <3>2. Append(dlv, Body(c + 1, plan[c + 1])) = Bodies(plan, c + 1)
          /\ Len(Append(dlv, Body(c + 1, plan[c + 1]))) = c + 1
      BY <3>1, BodiesStep
    <3>3. QED
      BY <2>8, <3>2 DEF c
  <2>10. w = Bytes(bf)
    <3>1. bf \in Buffers(S)
      BY <2>2 DEF IsExact
    <3>2. Bytes(bf) \in Seq(S)
      BY <3>1, BytesTyped
    <3>3. <<>> \o Bytes(bf) = Bytes(bf)
      BY <3>2, ConcatEmptySeq
    <3> HIDE DEF bf
    <3>4. QED
      BY <1>10, <3>3 DEF Work
  <2>11. Streaming(plan, Len(d2), w, tk)
    <3> HIDE DEF w, d2, bf, e
    <3>1. QED
      BY <2>6, <2>9, <2>10 DEF bf, e
  <2>12. DOMAIN p2 = {j} /\ p2[j] = bf
    BY <1>7, <2>4
  <2>13. \A i \in DOMAIN p2 : Work(EmptyBuffer, p2[i]) = w
    BY <2>12
  <2>14. StreamOK(EmptyBuffer, plan, d2, tk, p2)
    <3> HIDE DEF w, d2, bf, e
    <3>1. QED
      BY <2>9, <2>11, <2>12, <2>13 DEF StreamOK
  <2>15. QED
    BY <2>7, <2>8, <2>14
<1> HIDE DEF d2, f2
<1>14. SocketOK(k2, plan, f2, d2, tk, p2, snt, wrt, arr, pr, fl)
  BY <1>1, <1>3, <1>5, <1>6, <1>12, <1>13 DEF SocketOK
<1>15. QED
  BY <1>13, <1>14 DEF d2, f2, Delivers

(* a bad header is found: something went wrong before *)
LEMMA BadHeaderKeeps ==
  ASSUME NEW k, NEW plan, NEW flt, NEW dlv, NEW tk, NEW pend, NEW snt, NEW wrt, NEW arr,
         NEW pr, NEW fl, SocketOK(k, plan, flt, dlv, tk, pend, snt, wrt, arr, pr, fl),
         k.open, NEW p2, NEW j, NEW b, Dropped(pend, p2, j, b),
         HeaderComplete(k.recv_buff_, b), ~HeaderGood(k.recv_buff_, b)
  PROVE  /\ SocketOK(Closed(k), plan, flt, dlv, tk, p2, snt, wrt, arr, pr, fl + 1)
         /\ Faulty(flt)
<1> DEFINE recv == k.recv_buff_
           S == BytesOf(plan)
           d == Len(dlv)
<1>1. j \in DOMAIN pend /\ pend[j] = b
  BY DEF Dropped
<1>2. Faulty(flt)
  <2>1. SUFFICES ASSUME ~Faulty(flt) PROVE FALSE
    OBVIOUS
  <2>2. StreamOK(recv, plan, dlv, tk, pend) /\ ReceivedOK(recv, plan, flt, pend)
    BY <2>1 DEF SocketOK
  <2>3. Streaming(plan, d, Work(recv, b), tk)
    BY <1>1, <2>2 DEF StreamOK
  <2>4. IsExact(recv, S) /\ IsExact(b, S)
    BY <1>1, <2>1, <2>2 DEF ReceivedOK, PendingOK, Faulty
  <2>5. plan \in Seq(Nat)
    BY <2>3 DEF Streaming, CanCut
  <2>6. Turning(recv, b, plan, d, tk)
    BY <2>3, <2>4, <2>5 DEF Turning, Exact
  <2>7. QED
    BY <2>6, HeaderOfStream
<1>3. EndOK(plan, arr, pr, fl + 1, flt, dlv)
  BY <1>2 DEF EndOK, Faulty
<1> DEFINE k2 == Closed(k)
           f == fl + 1
<1>4. SocketOK(k2, plan, flt, dlv, tk, pend, snt, wrt, arr, pr, f)
  BY <1>2, <1>3, FailingKeeps
<1>5. ~k2.open
  BY ClosedSocket DEF SocketOK
<1>6. Within(p2, pend)
  BY DEF Dropped
<1> HIDE DEF k2, f
<1>7. SocketOK(k2, plan, flt, dlv, tk, p2, snt, wrt, arr, pr, f)
  BY <1>4, <1>5, <1>6, StoppingKeeps
<1>8. QED
  BY <1>2, <1>7 DEF k2, f

-----------------------------------------------------------------------------
(* A stack on which nothing is urgent. *)
CalmStack(st) == IsStack(st) /\ FramesOK(st) /\ Calm(st)

SamePending(st, st2) == \A r : Pending(st2, r) = Pending(st, r)

LEMMA CallsCalmly ==
  ASSUME NEW st, CalmStack(st), NEW f, FrameOK(f), ~Urgent(f)
  PROVE  /\ CalmStack(Append(st, f))
         /\ \A r : ~IsAnalysis(f, r) => Pending(Append(st, f), r) = Pending(st, r)
<1>1. IsStack(st) /\ FramesOK(st) /\ Calm(st)
  BY DEF CalmStack
<1>2. IsStack(Append(st, f))
  BY <1>1, PushedStack
<1>3. FramesOK(Append(st, f))
  BY <1>1, PushedFrames
<1>4. Calm(Append(st, f))
  BY <1>1, PushedCalm
<1>5. \A r : ~IsAnalysis(f, r) => Pending(Append(st, f), r) = Pending(st, r)
  BY <1>1, PushedPending
<1>6. QED
  BY <1>2, <1>3, <1>4, <1>5 DEF CalmStack

StackInv == GoodStack(stack) /\ FramesOK(stack) /\ UrgentOK(stack, sock, peer)

LEMMA CalmSuffices ==
  ASSUME NEW st, CalmStack(st), NEW sk, NEW pr
  PROVE  FramesOK(st) /\ UrgentOK(st, sk, pr)
<1>1. FramesOK(st) /\ Calm(st)
  BY DEF CalmStack
<1>2. QED
  BY <1>1, CalmIsOK

(* what is below the running frame *)
LEMMA PopsCalmly ==
  ASSUME StackInv, stack # <<>>
  PROVE  /\ CalmStack(Front(stack)) /\ FrameOK(Top) /\ IsStack(stack)
         /\ \A r : ~IsAnalysis(Top, r) => Pending(Front(stack), r) = Pending(stack, r)
         /\ \A f : Replace(f) = Append(Front(stack), f)
         /\ \A f, g : ReplaceAndCall(f, g) = Append(Append(Front(stack), f), g)
         /\ ~Urgent(Top) => CalmStack(stack)
         /\ Urgent(Top) => sock[Top.s].open /\ ("error" \in Top.ff => peer[Top.s] = "reset")
<1>1. IsStack(stack) /\ FramesOK(stack) /\ UrgentOK(stack, sock, peer)
  BY DEF StackInv, GoodStack
<1>2. IsStack(Front(stack))
  BY <1>1, PoppedStack
<1>3. FramesOK(Front(stack)) /\ FrameOK(Top)
  BY <1>1, PoppedFrames DEF Top
<1>4. /\ Calm(Front(stack))
      /\ ~Urgent(Top) => Calm(stack)
      /\ Urgent(Top) => sock[Top.s].open /\ ("error" \in Top.ff => peer[Top.s] = "reset")
  BY <1>1, PoppedCalm DEF Top
<1>5. \A r : ~IsAnalysis(Top, r) => Pending(Front(stack), r) = Pending(stack, r)
  BY <1>1, PoppedPending DEF Top
<1>6. \A f : Replace(f) = Append(Front(stack), f)
  BY <1>1, ReplacedStack DEF Replace
<1>7. \A f, g : ReplaceAndCall(f, g) = Append(Append(Front(stack), f), g)
  BY <1>6 DEF ReplaceAndCall
<1>8. QED
  BY <1>1, <1>2, <1>3, <1>4, <1>5, <1>6, <1>7 DEF CalmStack

LEMMA RunFrameFits ==
  FrameOK(RunFrame) /\ ~Urgent(RunFrame) /\ \A r : ~IsAnalysis(RunFrame, r)
BY DEF FrameOK, Urgent, IsAnalysis, RunFrame

LEMMA EventFrameFits ==
  ASSUME NEW s \in Sockets, NEW ff, ff \subseteq {DE_READ}
  PROVE  LET f == EventFrame(s, ff)
         IN  FrameOK(f) /\ ~Urgent(f) /\ \A r : ~IsAnalysis(f, r)
<1> DEFINE f == EventFrame(s, ff)
<1>1. f.at = "event" /\ f.s = s /\ f.ff = ff
  BY DEF EventFrame
<1>2. ff \subseteq {DE_READ, DE_WRITE} /\ DE_WRITE \notin ff /\ "error" \notin ff
  BY DEF DE_READ, DE_WRITE
<1> HIDE DEF f
<1>3. FrameOK(f) /\ ~Urgent(f) /\ \A r : ~IsAnalysis(f, r)
  BY <1>1, <1>2 DEF FrameOK, Urgent, IsAnalysis
<1>4. QED
  BY <1>3 DEF f

LEMMA AnalysisFrameFits ==
  ASSUME NEW s \in Sockets, NEW buffer
  PROVE  LET f == AnalysisFrame(s, buffer)
         IN  FrameOK(f) /\ ~Urgent(f) /\ IsAnalysis(f, s) /\ f.buffer = buffer
             /\ \A r : r # s => ~IsAnalysis(f, r)
<1> DEFINE f == AnalysisFrame(s, buffer)
<1>1. f.at = "analysis" /\ f.s = s /\ f.buffer = buffer
  BY DEF AnalysisFrame
<1> HIDE DEF f
<1>2. /\ FrameOK(f) /\ ~Urgent(f) /\ IsAnalysis(f, s) /\ f.buffer = buffer
      /\ \A r : r # s => ~IsAnalysis(f, r)
  BY <1>1 DEF FrameOK, Urgent, IsAnalysis
<1>3. QED
  BY <1>2 DEF f

-----------------------------------------------------------------------------
(* The handler of an event goes on with the events ff, or calls. *)
LEMMA EventGoesOn ==
  ASSUME StackInv, NEW s \in Sockets, Handling(s), NEW ff, ff \subseteq {DE_READ}
  PROVE  LET e == EventFrame(s, ff)
         IN  /\ CalmStack(Front(stack)) /\ SamePending(stack, Front(stack))
             /\ CalmStack(Replace(e)) /\ SamePending(stack, Replace(e))
             /\ CalmStack(ReplaceAndCall(e, RunFrame))
             /\ SamePending(stack, ReplaceAndCall(e, RunFrame))
<1> DEFINE e == EventFrame(s, ff)
           fr == Front(stack)
           one == Append(fr, e)
           two == Append(one, RunFrame)
<1>1. stack # <<>> /\ Top.at = "event"
  BY DEF Handling, At
<1>2. /\ CalmStack(fr)
      /\ \A r : ~IsAnalysis(Top, r) => Pending(fr, r) = Pending(stack, r)
      /\ \A f : Replace(f) = Append(Front(stack), f)
      /\ \A f, g : ReplaceAndCall(f, g) = Append(Append(Front(stack), f), g)
  BY <1>1, PopsCalmly
<1>3. \A r : Pending(fr, r) = Pending(stack, r)
  BY <1>1, <1>2 DEF IsAnalysis
<1>4. FrameOK(e) /\ ~Urgent(e) /\ \A r : ~IsAnalysis(e, r)
  BY EventFrameFits
<1>5. Replace(e) = one /\ ReplaceAndCall(e, RunFrame) = two
  BY <1>2
<1> HIDE DEF e, fr
<1>6. CalmStack(one) /\ \A r : Pending(one, r) = Pending(fr, r)
  BY <1>2, <1>4, CallsCalmly
<1> HIDE DEF one
<1>7. CalmStack(two) /\ \A r : Pending(two, r) = Pending(one, r)
  BY <1>6, RunFrameFits, CallsCalmly
<1> HIDE DEF two
<1>8. SamePending(stack, fr) /\ SamePending(stack, one) /\ SamePending(stack, two)
  BY <1>3, <1>6, <1>7 DEF SamePending
<1>9. QED
  BY <1>2, <1>5, <1>6, <1>7, <1>8 DEF e, fr

(* what is left of the events after writing *)
LEMMA EventsLeft ==
  ASSUME FrameOK(Top), Top.at = "event", DE_WRITE \in Top.ff
  PROVE  Top.ff \ {DE_WRITE} \subseteq {DE_READ}
<1>1. Top.ff = {"error"} \/ Top.ff \subseteq {DE_READ, DE_WRITE}
  <2>1. Top # RunFrame
    BY DEF RunFrame
  <2>2. QED
    BY <2>1 DEF FrameOK
<1>2. QED
  BY <1>1 DEF DE_READ, DE_WRITE

-----------------------------------------------------------------------------
(* The application runs: it calls, and nothing is urgent. *)
LEMMA RunningIsCalm ==
  ASSUME StackInv, Running
  PROVE  CalmStack(stack)
<1>1. CASE stack = <<>>
  <2>1. IsStack(stack) /\ FramesOK(stack)
    BY DEF StackInv, GoodStack
  <2>2. DOMAIN stack = {}
    BY <1>1
  <2>3. Calm(stack)
    BY <2>2 DEF Calm
  <2>4. QED
    BY <2>1, <2>3 DEF CalmStack
<1>2. CASE stack # <<>>
  <2>1. Top.at = "run"
    BY <1>2 DEF Running
  <2>2. ~Urgent(Top)
    BY <2>1 DEF Urgent
  <2>3. QED
    BY <1>2, <2>2, PopsCalmly
<1>3. QED
  BY <1>1, <1>2

(* what is urgent stays so while connections stay open and peers gone *)
LEMMA UrgentStays ==
  ASSUME NEW st, NEW sk, NEW pr, UrgentOK(st, sk, pr), FramesOK(st), NEW sk2, NEW pr2,
         \A s \in Sockets : /\ sk[s].open => sk2[s].open
                            /\ pr[s] = "reset" => pr2[s] = "reset"
  PROVE  UrgentOK(st, sk2, pr2)
<1>1. ASSUME NEW i \in DOMAIN st, Urgent(st[i])
      PROVE  /\ i = Len(st) /\ sk2[st[i].s].open
             /\ "error" \in st[i].ff => pr2[st[i].s] = "reset"
  <2>1. st[i].s \in Sockets
    BY <1>1 DEF FramesOK, FrameOK, Urgent, RunFrame
  <2>2. /\ i = Len(st) /\ sk[st[i].s].open
        /\ "error" \in st[i].ff => pr[st[i].s] = "reset"
    BY <1>1 DEF UrgentOK
  <2>3. QED
    BY <2>1, <2>2
<1>2. QED
  BY <1>1 DEF UrgentOK

-----------------------------------------------------------------------------
(* Steps that move nothing but the list and the stack. *)

Globals ==
  /\ FunctionsOK /\ crashed \in BOOLEAN
  /\ ops \in 0 .. MaxOps /\ \A s \in Sockets : written[s] <= ops
  /\ ListOK(dispatchers_)
AllSockets == \A s \in Sockets : SocketInv(s)

LEMMA PartsOfIInv == IInv <=> Globals /\ StackInv /\ AllSockets
BY DEF IInv, Globals, StackInv, AllSockets

(* What a step keeps; that it keeps GoodStack was proved above. *)
Kept == Globals' /\ FramesOK(stack') /\ UrgentOK(stack', sock', peer') /\ AllSockets'

(* nothing of connection r changes *)
Unmoved(r) ==
  /\ sock'[r] = sock[r] /\ sizes'[r] = sizes[r] /\ faults'[r] = faults[r]
  /\ delivered'[r] = delivered[r] /\ taken'[r] = taken[r] /\ sent'[r] = sent[r]
  /\ written'[r] = written[r] /\ arrived'[r] = arrived[r] /\ peer'[r] = peer[r]
  /\ failures'[r] = failures[r] /\ Pending(stack', r) = Pending(stack, r)

LEMMA UnmovedKept ==
  ASSUME NEW r, SocketInv(r), Unmoved(r)
  PROVE  SocketInv(r)'
BY DEF SocketInv, Unmoved

LEMMA OnlyOneMoved ==
  ASSUME NEW s, AllSockets, SocketInv(s)', \A r \in Sockets \ {s} : Unmoved(r)
  PROVE  AllSockets'
<1>1. ASSUME NEW r \in Sockets PROVE SocketInv(r)'
  <2>1. CASE r = s
    BY <2>1
  <2>2. CASE r # s
    <3>1. Unmoved(r) /\ SocketInv(r)
      BY <2>2 DEF AllSockets
    <3>2. QED
      BY <3>1, UnmovedKept
  <2>3. QED
    BY <2>1, <2>2
<1>2. QED
  BY <1>1 DEF AllSockets

StateOfSockets == <<sock, wire, taken, sent, app, faults>>

LEMMA QuietStep ==
  ASSUME Globals, AllSockets, UNCHANGED StateOfSockets, SamePending(stack, stack'),
         crashed' \in BOOLEAN, ops' \in 0 .. MaxOps, ops <= ops', ListOK(dispatchers_')
  PROVE  Globals' /\ AllSockets'
<1>1. ASSUME NEW r \in Sockets PROVE SocketInv(r)'
  <2>1. Unmoved(r)
    BY DEF StateOfSockets, wire, app, SamePending, Unmoved
  <2>2. SocketInv(r)
    BY DEF AllSockets
  <2>3. QED
    BY <2>1, <2>2, UnmovedKept
<1>2. FunctionsOK'
  BY DEF Globals, StateOfSockets, wire, app, FunctionsOK
<1>3. ASSUME NEW s \in Sockets PROVE (written[s] <= ops)'
  <2>1. written[s] \in Nat
    BY DEF AllSockets, SocketInv, SocketOK, OutputOK
  <2>2. written[s] <= ops /\ ops \in Int /\ ops' \in Int /\ MaxOps \in Nat
    BY NetworkServiceAssumption DEF Globals
  <2>3. written' = written
    BY DEF StateOfSockets, app
  <2>4. QED
    BY <2>1, <2>2, <2>3
<1>4. Globals'
  BY <1>2, <1>3 DEF Globals
<1>5. QED
  BY <1>1, <1>4 DEF AllSockets

MayCount == ops' = ops \/ (ops < MaxOps /\ ops' = ops + 1)

LEMMA OpsKept ==
  ASSUME Globals, MayCount
  PROVE  ops' \in 0 .. MaxOps /\ ops <= ops'
BY NetworkServiceAssumption DEF Globals, MayCount

LEMMA FinishKeeps ==
  ASSUME IInv, Finish
  PROVE  Kept
<1>1. Globals /\ StackInv /\ AllSockets
  BY PartsOfIInv
<1>2. stack # <<>> /\ Top.at = "run" /\ stack' = Front(stack)
  BY DEF Finish, At
<1>3. CalmStack(Front(stack)) /\ SamePending(stack, Front(stack))
  BY <1>1, <1>2, PopsCalmly DEF SamePending, IsAnalysis
<1>4. /\ UNCHANGED StateOfSockets /\ crashed' = crashed /\ MayCount
      /\ dispatchers_' = dispatchers_
  BY DEF Finish, StateOfSockets, MayCount
<1>5. ops' \in 0 .. MaxOps /\ ops <= ops'
  BY <1>1, <1>4, OpsKept
<1>6. Globals' /\ AllSockets'
  BY <1>1, <1>2, <1>3, <1>4, <1>5, QuietStep DEF Globals
<1>7. QED
  BY <1>2, <1>3, <1>6, CalmSuffices DEF Kept

LEMMA WaitReturnsKeeps ==
  ASSUME IInv, WaitReturns
  PROVE  Kept
<1>1. Globals /\ StackInv /\ AllSockets
  BY PartsOfIInv
<1>2. stack # <<>> /\ Top.at = "wait" /\ stack' = Front(stack)
  BY DEF WaitReturns, WalkOver, At
<1>3. CalmStack(Front(stack)) /\ SamePending(stack, Front(stack))
  BY <1>1, <1>2, PopsCalmly DEF SamePending, IsAnalysis
<1>4. /\ UNCHANGED StateOfSockets /\ crashed' = crashed /\ MayCount
      /\ dispatchers_' = dispatchers_
  BY DEF WaitReturns, StateOfSockets, MayCount
<1>5. ops' \in 0 .. MaxOps /\ ops <= ops'
  BY <1>1, <1>4, OpsKept
<1>6. Globals' /\ AllSockets'
  BY <1>1, <1>2, <1>3, <1>4, <1>5, QuietStep DEF Globals
<1>7. QED
  BY <1>2, <1>3, <1>6, CalmSuffices DEF Kept

LEMMA EndEventKeeps ==
  ASSUME IInv, NEW s \in Sockets, EndEvent(s)
  PROVE  Kept
<1>1. Globals /\ StackInv /\ AllSockets
  BY PartsOfIInv
<1>2. stack # <<>> /\ Top.at = "event" /\ stack' = Front(stack)
  BY DEF EndEvent, Handling, At
<1>3. CalmStack(Front(stack)) /\ SamePending(stack, Front(stack))
  BY <1>1, <1>2, PopsCalmly DEF SamePending, IsAnalysis
<1>4. /\ UNCHANGED StateOfSockets /\ crashed' = crashed /\ MayCount
  BY DEF EndEvent, StateOfSockets, MayCount
<1>5. ops' \in 0 .. MaxOps /\ ops <= ops'
  BY <1>1, <1>4, OpsKept
<1>6. ListOK(dispatchers_')
  <2>1. ListOK(dispatchers_) /\ ListOK(Add(dispatchers_, s))
    BY <1>1, AddKeepsList DEF Globals
  <2>2. dispatchers_' \in {dispatchers_, Add(dispatchers_, s)}
    BY DEF EndEvent
  <2>3. QED
    BY <2>1, <2>2
<1>7. Globals' /\ AllSockets'
  BY <1>1, <1>2, <1>3, <1>4, <1>5, <1>6, QuietStep DEF Globals
<1>8. QED
  BY <1>2, <1>3, <1>7, CalmSuffices DEF Kept

LEMMA InvalidIteratorKeeps ==
  ASSUME IInv, InvalidIterator
  PROVE  Kept
<1>1. Globals /\ StackInv /\ AllSockets
  BY PartsOfIInv
<1>2. stack # <<>> /\ Top.at = "wait"
  BY DEF InvalidIterator, At
<1> DEFINE g == [Top EXCEPT !.valid = TRUE]
<1>3. /\ CalmStack(Front(stack)) /\ CalmStack(stack)
      /\ \A r : Pending(Front(stack), r) = Pending(stack, r)
      /\ FrameOK(Top) /\ Replace(g) = Append(Front(stack), g)
  BY <1>1, <1>2, PopsCalmly DEF IsAnalysis, Urgent
<1>4. FrameOK(g) /\ ~Urgent(g) /\ \A r : ~IsAnalysis(g, r)
  <2>1. GoodFrame(Top)
    BY <1>1, <1>2, PoppedStack DEF StackInv, GoodStack, GoodFrames, Top, Last, IsWait
  <2>2. g.at = "wait" /\ g.iter = Top.iter
    <3> DEFINE f == Top
    <3>1. /\ f = [at |-> f.at, rd |-> f.rd, wr |-> f.wr, iter |-> f.iter,
                  valid |-> f.valid, nested |-> f.nested]
          /\ f.at = "wait"
      BY <1>2, <2>1 DEF GoodFrame
    <3> HIDE DEF f
    <3>2. [f EXCEPT !.valid = TRUE].at = "wait" /\ [f EXCEPT !.valid = TRUE].iter = f.iter
      BY <3>1
    <3>3. QED
      BY <3>2 DEF f
  <2>3. Top.iter \in Sockets \union {None}
    BY <1>2, <1>3 DEF FrameOK, RunFrame
  <2> HIDE DEF g
  <2>4. QED
    BY <2>2, <2>3 DEF FrameOK, Urgent, IsAnalysis
<1>5. CalmStack(stack') /\ SamePending(stack, stack')
  <2> HIDE DEF g
  <2>1. CalmStack(Append(Front(stack), g))
        /\ \A r : Pending(Append(Front(stack), g), r) = Pending(Front(stack), r)
    BY <1>3, <1>4, CallsCalmly
  <2>2. stack' = stack \/ stack' = Replace(g)
    BY DEF InvalidIterator, g
  <2>3. SamePending(stack, stack) /\ SamePending(stack, Append(Front(stack), g))
    BY <1>3, <2>1 DEF SamePending
  <2>4. QED
    BY <1>3, <2>1, <2>2, <2>3
<1>6. /\ UNCHANGED StateOfSockets /\ crashed' \in BOOLEAN /\ MayCount
      /\ dispatchers_' = dispatchers_
  BY <1>1 DEF InvalidIterator, StateOfSockets, MayCount, Globals
<1>7. ops' \in 0 .. MaxOps /\ ops <= ops'
  BY <1>1, <1>6, OpsKept
<1>8. Globals' /\ AllSockets'
  BY <1>1, <1>5, <1>6, <1>7, QuietStep DEF Globals
<1>9. QED
  BY <1>5, <1>8, CalmSuffices DEF Kept

-----------------------------------------------------------------------------
(* Wait selects. *)
LEMMA WaitFrameFits ==
  ASSUME NEW rd, NEW wr, NEW iter \in Sockets \union {None}
  PROVE  LET f == WaitFrame(rd, wr, iter)
         IN  FrameOK(f) /\ ~Urgent(f) /\ \A r : ~IsAnalysis(f, r)
<1> DEFINE f == WaitFrame(rd, wr, iter)
<1>1. f.at = "wait" /\ f.iter = iter
  BY DEF WaitFrame
<1> HIDE DEF f
<1>2. FrameOK(f) /\ ~Urgent(f) /\ \A r : ~IsAnalysis(f, r)
  BY <1>1 DEF FrameOK, Urgent, IsAnalysis
<1>3. QED
  BY <1>2 DEF f

LEMMA WaitsStayCalm ==
  ASSUME NEW st, NEW st2, CalmStack(st), SameButWaits(st, st2), IsStack(st2)
  PROVE  CalmStack(st2) /\ SamePending(st, st2)
<1>1. FramesOK(st2) /\ Calm(st2) /\ \A r : Pending(st2, r) = Pending(st, r)
  BY WaitsDiffer DEF CalmStack
<1>2. QED
  BY <1>1 DEF CalmStack, SamePending

LEMMA SelectStack ==
  ASSUME Globals, NEW frames, GoodStack(frames), Covered(frames), CalmStack(frames),
         SamePending(stack, frames), NEW wr, Select(frames, wr)
  PROVE  CalmStack(stack') /\ SamePending(stack, stack') /\ ListOK(dispatchers_')
<1>1. PICK rd, gone :
        stack' = Append(Erased(frames, gone), WaitFrame(rd, wr, FirstOf(Pruned)))
  BY DEF Select
<1>2. ListOK(Pruned) /\ FirstOf(Pruned) \in Sockets \union {None}
  BY PrunedKeepsList DEF Globals
<1> DEFINE er == Erased(frames, gone)
           w == WaitFrame(rd, wr, FirstOf(Pruned))
<1>3. FrameOK(w) /\ ~Urgent(w) /\ \A r : ~IsAnalysis(w, r)
  BY <1>2, WaitFrameFits
<1>4. SameButWaits(frames, er)
  BY ErasedDiffers
<1>5. IsStack(er)
  BY ErasingKeepsGood DEF GoodStack
<1> HIDE DEF er, w
<1>6. CalmStack(er) /\ SamePending(frames, er)
  BY <1>4, <1>5, WaitsStayCalm
<1>7. CalmStack(Append(er, w)) /\ \A r : Pending(Append(er, w), r) = Pending(er, r)
  BY <1>3, <1>6, CallsCalmly
<1>8. SamePending(stack, Append(er, w))
  BY <1>6, <1>7 DEF SamePending
<1>9. dispatchers_' = Pruned
  BY DEF Select
<1>10. QED
  BY <1>1, <1>2, <1>7, <1>8, <1>9 DEF er, w

LEMMA GetWaitsKeeps ==
  ASSUME IInv, NEW wr, GetWaits(wr)
  PROVE  Kept
<1>1. Globals /\ StackInv /\ AllSockets
  BY PartsOfIInv
<1>2. stack = <<>> /\ Select(stack, wr)
  BY DEF GetWaits
<1>3. GoodStack(stack) /\ Covered(stack) /\ SamePending(stack, stack)
  BY <1>1, <1>2 DEF StackInv, Covered, SamePending
<1>4. CalmStack(stack)
  <2>1. IsStack(stack) /\ FramesOK(stack)
    BY <1>1 DEF StackInv, GoodStack
  <2>2. DOMAIN stack = {}
    BY <1>2
  <2>3. Calm(stack)
    BY <2>2 DEF Calm
  <2>4. QED
    BY <2>1, <2>3 DEF CalmStack
<1>5. CalmStack(stack') /\ SamePending(stack, stack') /\ ListOK(dispatchers_')
  BY <1>1, <1>2, <1>3, <1>4, SelectStack
<1>6. UNCHANGED StateOfSockets /\ crashed' = crashed /\ MayCount
  BY DEF GetWaits, StateOfSockets, MayCount
<1>7. ops' \in 0 .. MaxOps /\ ops <= ops'
  BY <1>1, <1>6, OpsKept
<1>8. Globals' /\ AllSockets'
  BY <1>1, <1>5, <1>6, <1>7, QuietStep DEF Globals
<1>9. QED
  BY <1>5, <1>8, CalmSuffices DEF Kept

LEMMA SelectAgainKeeps ==
  ASSUME IInv, NEW wr, SelectAgain(wr)
  PROVE  Kept
<1>1. Globals /\ StackInv /\ AllSockets
  BY PartsOfIInv
<1>2. stack # <<>> /\ Top.at = "wait" /\ Select(Front(stack), wr)
  BY DEF SelectAgain, WalkOver, At
<1>3. CalmStack(Front(stack)) /\ SamePending(stack, Front(stack))
  BY <1>1, <1>2, PopsCalmly DEF SamePending, IsAnalysis
<1>4. GoodStack(Front(stack)) /\ Covered(Front(stack))
  BY <1>1, <1>2, PopKeepsGood, BelowAWait DEF Top, StackInv, IsWait
<1>5. CalmStack(stack') /\ SamePending(stack, stack') /\ ListOK(dispatchers_')
  BY <1>1, <1>2, <1>3, <1>4, SelectStack
<1>6. UNCHANGED StateOfSockets /\ crashed' = crashed /\ MayCount
  BY DEF SelectAgain, StateOfSockets, MayCount
<1>7. ops' \in 0 .. MaxOps /\ ops <= ops'
  BY <1>1, <1>6, OpsKept
<1>8. Globals' /\ AllSockets'
  BY <1>1, <1>5, <1>6, <1>7, QuietStep DEF Globals
<1>9. QED
  BY <1>5, <1>8, CalmSuffices DEF Kept

LEMMA WaitInsideKeeps ==
  ASSUME IInv, NEW wr, WaitInside(wr)
  PROVE  Kept
<1>1. Globals /\ StackInv /\ AllSockets
  BY PartsOfIInv
<1> DEFINE marked == [i \in DOMAIN stack |->
                        IF stack[i].at = "wait"
                          THEN [stack[i] EXCEPT !.nested = TRUE] ELSE stack[i]]
<1>2. /\ Running /\ Select(marked, wr)
      /\ MayCount
  BY DEF WaitInside, MayCall, MayCount
<1>3. CalmStack(stack)
  BY <1>1, <1>2, RunningIsCalm
<1>4. GoodStack(marked) /\ Covered(marked)
  BY <1>1, MarkingCovers DEF StackInv
<1>5. SameButWaits(stack, marked)
  BY <1>1, MarkedDiffers DEF StackInv
<1> HIDE DEF marked
<1>6. CalmStack(marked) /\ SamePending(stack, marked)
  BY <1>3, <1>4, <1>5, WaitsStayCalm DEF GoodStack
<1>7. CalmStack(stack') /\ SamePending(stack, stack') /\ ListOK(dispatchers_')
  BY <1>1, <1>2, <1>4, <1>6, SelectStack
<1>8. UNCHANGED StateOfSockets /\ crashed' = crashed
  BY DEF WaitInside, StateOfSockets
<1>9. ops' \in 0 .. MaxOps /\ ops <= ops'
  BY <1>1, <1>2, OpsKept
<1>10. Globals' /\ AllSockets'
  BY <1>1, <1>7, <1>8, <1>9, QuietStep DEF Globals
<1>11. QED
  BY <1>7, <1>10, CalmSuffices DEF Kept

-----------------------------------------------------------------------------
(* Dispatch. *)

LEMMA ReportedFound ==
  ASSUME ListOK(dispatchers_), NEW w, Reported(w) # 0
  PROVE  LET i == Reported(w)
         IN  /\ i \in 1 .. Len(dispatchers_) /\ dispatchers_[i] \in Sockets
             /\ sock[dispatchers_[i]].open
             /\ NextNode(i) \in Sockets \union {None}
<1> DEFINE due == {i \in DOMAIN dispatchers_ :
                     /\ \E j \in 1 .. i : dispatchers_[j] = w.iter
                     /\ sock[dispatchers_[i]].open
                     /\ dispatchers_[i] \in w.rd \union w.wr}
           i == Reported(w)
<1>1. /\ dispatchers_ \in Seq(Sockets) /\ Len(dispatchers_) \in Nat
      /\ DOMAIN dispatchers_ = 1 .. Len(dispatchers_)
      /\ \A j \in 1 .. Len(dispatchers_) : dispatchers_[j] \in Sockets
  BY LenProperties, ElementOfSeq DEF ListOK
<1>2. due # {} /\ i = Min(due)
  BY DEF Reported
<1>3. due \in SUBSET Nat
  BY <1>1
<1>4. Min(due) \in due
  <2> HIDE DEF due
  <2>1. QED
    BY <1>2, <1>3, MinOfNaturals
<1>5. i \in 1 .. Len(dispatchers_) /\ sock[dispatchers_[i]].open
  BY <1>1, <1>2, <1>4
<1> HIDE DEF due, i
<1>6. NextNode(i) \in Sockets \union {None}
  <2>1. CASE i = Len(dispatchers_)
    BY <2>1 DEF NextNode
  <2>2. CASE i # Len(dispatchers_)
    <3>1. i + 1 \in 1 .. Len(dispatchers_)
      <4> DEFINE n == Len(dispatchers_)
      <4>1. i \in 1 .. n
        BY <1>5
      <4>2. n \in Nat /\ i # n
        BY <1>1, <2>2
      <4> HIDE DEF n
      <4>3. i + 1 \in 1 .. n
        BY <4>1, <4>2
      <4>4. QED
        BY <4>3 DEF n
    <3>2. dispatchers_[i + 1] \in Sockets
      BY <1>1, <3>1
    <3>3. QED
      BY <2>2, <3>2 DEF NextNode
  <2>3. QED
    BY <2>1, <2>2
<1>7. QED
  BY <1>1, <1>5, <1>6 DEF i

(* the frame of the handler that is called *)
LEMMA DispatchedFrameFits ==
  ASSUME NEW s \in Sockets, NEW ff, ff \subseteq {DE_READ, DE_WRITE}, sock[s].open
  PROVE  LET f == EventFrame(s, IF peer[s] = "reset" THEN {"error"} ELSE ff)
         IN  /\ FrameOK(f) /\ \A r : ~IsAnalysis(f, r)
             /\ Urgent(f) => sock[f.s].open /\ ("error" \in f.ff => peer[f.s] = "reset")
<1> DEFINE g == IF peer[s] = "reset" THEN {"error"} ELSE ff
           f == EventFrame(s, g)
<1>1. g = {"error"} \/ g \subseteq {DE_READ, DE_WRITE}
  OBVIOUS
<1>2. "error" \in g => peer[s] = "reset"
  BY DEF DE_READ, DE_WRITE
<1> HIDE DEF g
<1>3. f.at = "event" /\ f.s = s /\ f.ff = g
  BY DEF EventFrame
<1> HIDE DEF f
<1>4. /\ FrameOK(f) /\ \A r : ~IsAnalysis(f, r)
      /\ Urgent(f) => sock[f.s].open /\ ("error" \in f.ff => peer[f.s] = "reset")
  BY <1>1, <1>2, <1>3 DEF FrameOK, IsAnalysis
<1>5. QED
  BY <1>4 DEF f, g

LEMMA MovedFrameFits ==
  ASSUME NEW rd, NEW wr, NEW iter \in Sockets \union {None}, NEW v
  PROVE  LET g == [WaitFrame(rd, wr, iter) EXCEPT !.nested = v]
         IN  FrameOK(g) /\ ~Urgent(g) /\ \A r : ~IsAnalysis(g, r)
<1> DEFINE f == WaitFrame(rd, wr, iter)
           g == [f EXCEPT !.nested = v]
<1>1. g.at = "wait" /\ g.iter = iter
  BY DEF WaitFrame
<1> HIDE DEF g
<1>2. FrameOK(g) /\ ~Urgent(g) /\ \A r : ~IsAnalysis(g, r)
  BY <1>1 DEF FrameOK, Urgent, IsAnalysis
<1>3. QED
  BY <1>2 DEF g

(* of pushing an event on a calm stack *)
LEMMA EventPushed ==
  ASSUME NEW st, CalmStack(st), NEW f, FrameOK(f), \A r : ~IsAnalysis(f, r),
         NEW sk, NEW pr,
         Urgent(f) => sk[f.s].open /\ ("error" \in f.ff => pr[f.s] = "reset")
  PROVE  /\ FramesOK(Append(st, f)) /\ UrgentOK(Append(st, f), sk, pr)
         /\ SamePending(st, Append(st, f))
<1>1. IsStack(st) /\ FramesOK(st) /\ Calm(st)
  BY DEF CalmStack
<1>2. FramesOK(Append(st, f))
  BY <1>1, PushedFrames
<1>3. UrgentOK(Append(st, f), sk, pr)
  BY <1>1, PushedUrgent
<1>4. \A r : Pending(Append(st, f), r) = Pending(st, r)
  BY <1>1, PushedPending
<1>5. QED
  BY <1>2, <1>3, <1>4 DEF SamePending

LEMMA DispatchKeeps ==
  ASSUME IInv, Dispatch
  PROVE  Kept
<1>1. Globals /\ StackInv /\ AllSockets
  BY PartsOfIInv
<1> DEFINE i == Reported(Top)
           s == dispatchers_[i]
           ff == (IF s \in Top.rd THEN {DE_READ} ELSE {})
                   \union (IF s \in Top.wr THEN {DE_WRITE} ELSE {})
           fr == Front(stack)
           er == Erased(fr, {s})
           w == [WaitFrame(Top.rd \ {s}, Top.wr \ {s}, NextNode(i)) EXCEPT !.nested = Top.nested]
           f == EventFrame(s, IF peer[s] = "reset" THEN {"error"} ELSE ff)
<1>2. stack # <<>> /\ Top.at = "wait" /\ i # 0
  BY DEF Dispatch, At
<1>3. dispatchers_' = RemoveAt(dispatchers_, i) /\ stack' = Append(Append(er, w), f)
  BY DEF Dispatch
<1>4. ListOK(dispatchers_)
  BY <1>1 DEF Globals
<1>5. /\ i \in 1 .. Len(dispatchers_) /\ s \in Sockets /\ sock[s].open
      /\ NextNode(i) \in Sockets \union {None}
  BY <1>2, <1>4, ReportedFound
<1>6. ListOK(dispatchers_')
  <2> HIDE DEF i
  <2>1. ListOK(RemoveAt(dispatchers_, i))
    BY <1>4, <1>5, RemoveKeepsList
  <2>2. QED
    BY <1>3, <2>1
<1>7. /\ CalmStack(fr) /\ SamePending(stack, fr)
      /\ GoodStack(fr) /\ Covered(fr)
  <2>1. CalmStack(fr) /\ SamePending(stack, fr)
    BY <1>1, <1>2, PopsCalmly DEF SamePending, IsAnalysis
  <2>2. GoodStack(fr) /\ Covered(fr)
    BY <1>1, <1>2, PopKeepsGood, BelowAWait DEF Top, StackInv, IsWait
  <2>3. QED
    BY <2>1, <2>2
<1>8. FrameOK(w) /\ ~Urgent(w) /\ \A r : ~IsAnalysis(w, r)
  <2> HIDE DEF i, s
  <2>1. QED
    BY <1>5, MovedFrameFits
<1>9. /\ FrameOK(f) /\ \A r : ~IsAnalysis(f, r)
      /\ Urgent(f) => sock[f.s].open /\ ("error" \in f.ff => peer[f.s] = "reset")
  <2>1. ff \subseteq {DE_READ, DE_WRITE}
    OBVIOUS
  <2> HIDE DEF s, ff
  <2>2. QED
    BY <1>5, <2>1, DispatchedFrameFits
<1>10. SameButWaits(fr, er) /\ IsStack(er)
  BY <1>7, ErasedDiffers, ErasingKeepsGood DEF GoodStack
<1> HIDE DEF fr, er, w, f
<1>11. CalmStack(er) /\ SamePending(fr, er)
  BY <1>7, <1>10, WaitsStayCalm
<1>12. CalmStack(Append(er, w)) /\ \A r : Pending(Append(er, w), r) = Pending(er, r)
  BY <1>8, <1>11, CallsCalmly
<1> DEFINE two == Append(er, w)
           all == Append(two, f)
<1> HIDE DEF two
<1>13. /\ FramesOK(all) /\ UrgentOK(all, sock, peer) /\ SamePending(two, all)
  BY <1>9, <1>12, EventPushed DEF two
<1>14. SamePending(stack, all)
  BY <1>7, <1>11, <1>12, <1>13 DEF SamePending, two
<1> HIDE DEF all
<1>15. stack' = all
  BY <1>3 DEF all, two
<1>16. /\ UNCHANGED StateOfSockets /\ crashed' = crashed /\ MayCount
       /\ sock' = sock /\ peer' = peer
  BY DEF Dispatch, StateOfSockets, MayCount, wire
<1>17. ops' \in 0 .. MaxOps /\ ops <= ops'
  BY <1>1, <1>16, OpsKept
<1>18. Globals' /\ AllSockets'
  <2>1. SamePending(stack, stack')
    BY <1>14, <1>15
  <2>2. QED
    BY <1>1, <1>6, <1>16, <1>17, <2>1, QuietStep DEF Globals
<1>19. FramesOK(stack') /\ UrgentOK(stack', sock', peer')
  BY <1>13, <1>15, <1>16
<1>20. QED
  BY <1>18, <1>19 DEF Kept

-----------------------------------------------------------------------------
(* The peers. *)
LEMMA ArriveKeeps ==
  ASSUME IInv, NEW s \in Sockets, Arrive(s)
  PROVE  Kept
<1>1. Globals /\ StackInv /\ AllSockets
  BY PartsOfIInv
<1>2. PICK n : /\ n \in Cuts[s] /\ arrived[s] < n /\ n <= Len(Incoming(s))
               /\ arrived' = [arrived EXCEPT ![s] = n]
  BY DEF Arrive
<1>3. /\ UNCHANGED <<dispatchers_, sock, stack, crashed, sizes, peer, taken, sent, app, faults, ops>>
      /\ peer[s] = "open"
  BY DEF Arrive
<1>4. DOMAIN arrived = Sockets
  BY <1>1 DEF Globals, FunctionsOK
<1>5. arrived'[s] = n /\ \A r \in Sockets \ {s} : arrived'[r] = arrived[r]
  BY <1>2, <1>4
<1>6. n \in Nat
  BY <1>2, NetworkServiceAssumption
<1>7. SocketInv(s)'
  <2>1. SocketOK(sock[s], sizes[s], faults[s], delivered[s], taken[s], Pending(stack, s),
                 sent[s], written[s], arrived[s], "open", failures[s])
    BY <1>1, <1>3 DEF AllSockets, SocketInv
  <2>2. SocketOK(sock[s], sizes[s], faults[s], delivered[s], taken[s], Pending(stack, s),
                 sent[s], written[s], n, "open", failures[s])
    BY <1>2, <1>6, <2>1, ArrivingKeeps DEF Incoming
  <2>3. QED
    BY <1>3, <1>5, <2>2 DEF SocketInv, app
<1>8. \A r \in Sockets \ {s} : Unmoved(r)
  BY <1>3, <1>5 DEF Unmoved, app
<1>9. AllSockets'
  BY <1>1, <1>7, <1>8, OnlyOneMoved
<1>10. Globals'
  BY <1>1, <1>2, <1>3, <1>4 DEF Globals, FunctionsOK, app
<1>11. FramesOK(stack') /\ UrgentOK(stack', sock', peer')
  BY <1>1, <1>3 DEF StackInv
<1>12. QED
  BY <1>9, <1>10, <1>11 DEF Kept

LEMMA PeerGoesKeeps ==
  ASSUME IInv, NEW s \in Sockets, NEW how \in {"eof", "reset"}, PeerGoes(s, how)
  PROVE  Kept
<1>1. Globals /\ StackInv /\ AllSockets
  BY PartsOfIInv
<1>2. /\ UNCHANGED <<dispatchers_, sock, stack, crashed, sizes, arrived, taken, sent, app, faults>>
      /\ peer[s] = "open" /\ peer' = [peer EXCEPT ![s] = how] /\ MayCount
  BY DEF PeerGoes, MayCount
<1>3. DOMAIN peer = Sockets
  BY <1>1 DEF Globals, FunctionsOK
<1>4. peer'[s] = how /\ \A r \in Sockets \ {s} : peer'[r] = peer[r]
  BY <1>2, <1>3
<1>5. SocketInv(s)'
  <2>1. SocketOK(sock[s], sizes[s], faults[s], delivered[s], taken[s], Pending(stack, s),
                 sent[s], written[s], arrived[s], "open", failures[s])
    BY <1>1, <1>2 DEF AllSockets, SocketInv
  <2>2. SocketOK(sock[s], sizes[s], faults[s], delivered[s], taken[s], Pending(stack, s),
                 sent[s], written[s], arrived[s], how, failures[s])
    BY <2>1, GoingKeeps
  <2>3. QED
    BY <1>2, <1>4, <2>2 DEF SocketInv, app
<1>6. \A r \in Sockets \ {s} : Unmoved(r)
  BY <1>2, <1>4 DEF Unmoved, app
<1>7. AllSockets'
  BY <1>1, <1>5, <1>6, OnlyOneMoved
<1>8. ops' \in 0 .. MaxOps /\ ops <= ops'
  BY <1>1, <1>2, OpsKept
<1>9. Globals'
  <2>1. \A r \in Sockets : written[r] \in Nat
    BY <1>1 DEF AllSockets, SocketInv, SocketOK, OutputOK
  <2>2. FunctionsOK' /\ crashed' \in BOOLEAN /\ ListOK(dispatchers_') /\ written' = written
    BY <1>1, <1>2, <1>3 DEF Globals, FunctionsOK, app
  <2>3. \A r \in Sockets : written[r] <= ops'
    BY <1>1, <1>8, <2>1, NetworkServiceAssumption DEF Globals
  <2>4. QED
    BY <1>8, <2>2, <2>3 DEF Globals
<1>10. FramesOK(stack') /\ UrgentOK(stack', sock', peer')
  <2>1. \A r \in Sockets : /\ sock[r].open => sock'[r].open
                           /\ peer[r] = "reset" => peer'[r] = "reset"
    BY <1>2, <1>4
  <2>2. FramesOK(stack) /\ UrgentOK(stack, sock, peer) /\ stack' = stack
    BY <1>1, <1>2 DEF StackInv
  <2> DEFINE sk2 == sock'
             pr2 == peer'
  <2> HIDE DEF sk2, pr2
  <2>3. UrgentOK(stack, sk2, pr2)
    BY <2>1, <2>2, UrgentStays DEF sk2, pr2
  <2>4. QED
    BY <2>2, <2>3 DEF sk2, pr2
<1>11. QED
  BY <1>7, <1>9, <1>10 DEF Kept

-----------------------------------------------------------------------------
(* What steps of one connection keep; the application's. *)

(* f2 is f but for what it says of s *)
Only(f, f2, s) == DOMAIN f2 = DOMAIN f /\ \A r : r # s => f2[r] = f[r]

LEMMA OnlyOne ==
  ASSUME NEW f, NEW s, NEW x
  PROVE  /\ Only(f, f, s) /\ Only(f, [f EXCEPT ![s] = x], s)
         /\ s \in DOMAIN f => [f EXCEPT ![s] = x][s] = x
BY DEF Only

(* A step of connection s. *)
StepOf(s) ==
  /\ sizes' = sizes /\ Only(arrived, arrived', s) /\ Only(peer, peer', s)
  /\ Only(sock, sock', s) /\ Only(faults, faults', s) /\ Only(delivered, delivered', s)
  /\ Only(taken, taken', s) /\ Only(sent, sent', s) /\ Only(written, written', s)
  /\ Only(failures, failures', s)
  /\ \A r : r # s => Pending(stack', r) = Pending(stack, r)

LEMMA StepMoves ==
  ASSUME NEW s, StepOf(s), AllSockets, SocketInv(s)', FunctionsOK
  PROVE  AllSockets' /\ FunctionsOK'
<1>1. \A r \in Sockets \ {s} : Unmoved(r)
  BY DEF StepOf, Only, Unmoved
<1>2. FunctionsOK'
  BY DEF StepOf, Only, FunctionsOK
<1>3. QED
  BY <1>1, <1>2, OnlyOneMoved

LEMMA GlobalsStay ==
  ASSUME Globals, AllSockets, FunctionsOK', crashed' = crashed, MayCount,
         written' = written, ListOK(dispatchers_')
  PROVE  Globals'
<1>1. ops' \in 0 .. MaxOps /\ ops <= ops'
  BY OpsKept
<1>2. \A r \in Sockets : written[r] \in Nat
  BY DEF AllSockets, SocketInv, SocketOK, OutputOK
<1>3. \A r \in Sockets : written[r] <= ops'
  <2>1. MaxOps \in Nat
    BY NetworkServiceAssumption
  <2>2. \A r \in Sockets : written[r] <= ops
    BY DEF Globals
  <2>3. ops \in Nat /\ ops' \in Nat
    BY <1>1, <2>1 DEF Globals
  <2>4. QED
    BY <1>1, <1>2, <2>2, <2>3
<1>4. QED
  BY <1>1, <1>3 DEF Globals

(* the application's steps: the stack is calm, and stays *)
LEMMA CallKeeps ==
  ASSUME IInv, MayCall, NEW s, StepOf(s), SocketInv(s)', crashed' = crashed,
         written' = written, ListOK(dispatchers_'), stack' = stack
  PROVE  Kept
<1>1. Globals /\ StackInv /\ AllSockets
  BY PartsOfIInv
<1>2. Running /\ MayCount
  BY DEF MayCall, MayCount
<1>3. CalmStack(stack)
  BY <1>1, <1>2, RunningIsCalm
<1>4. AllSockets' /\ FunctionsOK'
  BY <1>1, StepMoves DEF Globals
<1>5. Globals'
  BY <1>1, <1>2, <1>4, GlobalsStay
<1>6. FramesOK(stack') /\ UrgentOK(stack', sock', peer')
  BY <1>3, CalmSuffices
<1>7. QED
  BY <1>4, <1>5, <1>6 DEF Kept

LEMMA AsyncReadKeeps ==
  ASSUME IInv, NEW s \in Sockets, AsyncRead(s)
  PROVE  Kept
<1>1. Globals /\ AllSockets /\ ListOK(dispatchers_)
  BY PartsOfIInv DEF Globals
<1>2. /\ MayCall /\ dispatchers_' = Add(dispatchers_, s)
      /\ sock' = [sock EXCEPT ![s] = Enable(@, DE_READ)]
      /\ stack' = stack /\ crashed' = crashed /\ UNCHANGED <<wire, taken, sent, app, faults>>
  BY DEF AsyncRead
<1>3. sock'[s] = Enable(sock[s], DE_READ) /\ StepOf(s) /\ written' = written
  BY <1>1, <1>2, OnlyOne DEF StepOf, wire, app, Globals, FunctionsOK
<1>4. SocketInv(s)'
  <2> DEFINE k2 == Enable(sock[s], DE_READ)
  <2>1. SocketInv(s)
    BY <1>1 DEF AllSockets
  <2>2. Like(sock[s], k2)
    BY <2>1, Enabled DEF SocketInv, SocketOK
  <2> HIDE DEF k2
  <2>3. SocketOK(k2, sizes[s], faults[s], delivered[s], taken[s], Pending(stack, s),
                 sent[s], written[s], arrived[s], peer[s], failures[s])
    BY <2>1, <2>2, LikeKeeps DEF SocketInv
  <2>4. QED
    BY <1>2, <1>3, <2>3 DEF SocketInv, wire, app, k2
<1>5. ListOK(dispatchers_')
  <2>1. ListOK(Add(dispatchers_, s))
    BY <1>1, AddKeepsList
  <2>2. QED
    BY <1>2, <2>1
<1>6. QED
  BY <1>2, <1>3, <1>4, <1>5, CallKeeps

LEMMA CloseKeeps ==
  ASSUME IInv, NEW s \in Sockets, Close(s)
  PROVE  Kept
<1>1. Globals /\ AllSockets /\ ListOK(dispatchers_)
  BY PartsOfIInv DEF Globals
<1>2. /\ MayCall /\ dispatchers_' = dispatchers_
      /\ sock' = [sock EXCEPT ![s] = Closed(@)]
      /\ stack' = stack /\ crashed' = crashed /\ UNCHANGED <<wire, taken, sent, app, faults>>
  BY DEF Close
<1>3. sock'[s] = Closed(sock[s]) /\ StepOf(s) /\ written' = written
  BY <1>1, <1>2, OnlyOne DEF StepOf, wire, app, Globals, FunctionsOK
<1>4. SocketInv(s)'
  <2> DEFINE k2 == Closed(sock[s])
  <2>1. SocketInv(s)
    BY <1>1 DEF AllSockets
  <2>2. SocketOK(k2, sizes[s], faults[s], delivered[s], taken[s], Pending(stack, s),
                 sent[s], written[s], arrived[s], peer[s], failures[s])
    BY <2>1, ClosingKeeps DEF SocketInv
  <2> HIDE DEF k2
  <2>3. QED
    BY <1>2, <1>3, <2>2 DEF SocketInv, wire, app, k2
<1>5. ListOK(dispatchers_')
  BY <1>1, <1>2
<1>6. QED
  BY <1>2, <1>3, <1>4, <1>5, CallKeeps

LEMMA AsyncWritePacketKeeps ==
  ASSUME IInv, NEW s \in Sockets, AsyncWritePacket(s)
  PROVE  Kept
<1>1. Globals /\ StackInv /\ AllSockets /\ ListOK(dispatchers_)
  BY PartsOfIInv DEF Globals
<1> DEFINE wrt == written[s] + 1
<1>2. /\ MayCall /\ sock[s].open /\ written' = [written EXCEPT ![s] = wrt]
      /\ UNCHANGED <<stack, crashed, wire, taken, delivered, failures, faults>>
  BY DEF AsyncWritePacket
<1>3. PICK packet :
        /\ packet \in PacketBuffers(wrt, OutSize)
        /\ LET k == [sock[s] EXCEPT !.write_buffers_ = AppendBuffer(@, packet)]
           IN  IF ~k.socket_writeable_
                 THEN /\ sock' = [sock EXCEPT ![s] = k]
                      /\ UNCHANGED <<dispatchers_, sent>>
                 ELSE \E n \in IF peer[s] = "reset" THEN {0} ELSE {0} \union Taken(k) :
                        /\ sock' = [sock EXCEPT ![s] = WriteData(k, n)]
                        /\ sent' = [sent EXCEPT ![s] = @ \o SubSeq(Unsent(k), 1, n)]
                        /\ dispatchers_' = Add(dispatchers_, s)
  BY DEF AsyncWritePacket
<1> DEFINE k == [sock[s] EXCEPT !.write_buffers_ = AppendBuffer(@, packet)]
<1>4. \/ /\ sock' = [sock EXCEPT ![s] = k]
         /\ UNCHANGED <<dispatchers_, sent>>
      \/ \E n \in {0} \union Taken(k) :
           /\ sock' = [sock EXCEPT ![s] = WriteData(k, n)]
           /\ sent' = [sent EXCEPT ![s] = @ \o SubSeq(Unsent(k), 1, n)]
           /\ dispatchers_' = Add(dispatchers_, s)
  BY <1>3
<1>5. /\ written[s] \in Nat /\ written[s] <= ops /\ ops < MaxOps /\ ops \in Nat
      /\ ops' = ops + 1 /\ MaxOps \in Nat
  <2>1. written[s] \in Nat
    BY <1>1 DEF AllSockets, SocketInv, SocketOK, OutputOK
  <2>2. MaxOps \in Nat
    BY NetworkServiceAssumption
  <2>3. QED
    BY <1>1, <1>2, <2>1, <2>2 DEF Globals, MayCall
<1>6. wrt \in 1 .. MaxOps
  BY <1>5
<1>7. SocketOK(k, sizes[s], faults[s], delivered[s], taken[s], Pending(stack, s),
               sent[s], wrt, arrived[s], peer[s], failures[s])
  <2>1. SocketOK(sock[s], sizes[s], faults[s], delivered[s], taken[s], Pending(stack, s),
                 sent[s], written[s], arrived[s], peer[s], failures[s])
    BY <1>1 DEF AllSockets, SocketInv
  <2>2. packet \in PacketBuffers(wrt, OutSize)
    BY <1>3
  <2>3. QED
    BY <1>2, <1>6, <2>1, <2>2, WritingKeeps
<1>8. DOMAIN written = Sockets /\ DOMAIN sock = Sockets /\ DOMAIN sent = Sockets
  BY <1>1 DEF Globals, FunctionsOK
<1> HIDE DEF k
<1>9. Only(written, written', s) /\ written'[s] = wrt
  BY <1>2, <1>8, OnlyOne
<1>10. StepOf(s) /\ SocketInv(s)' /\ ListOK(dispatchers_')
  <2>1. CASE sock' = [sock EXCEPT ![s] = k] /\ UNCHANGED <<dispatchers_, sent>>
    <3>1. sock'[s] = k /\ StepOf(s)
      BY <1>2, <1>8, <1>9, <2>1, OnlyOne DEF StepOf, wire
    <3>2. SocketInv(s)'
      BY <1>2, <1>7, <1>9, <2>1, <3>1 DEF SocketInv, wire
    <3>3. QED
      BY <1>1, <2>1, <3>1, <3>2
  <2>2. ASSUME NEW n \in {0} \union Taken(k),
               sock' = [sock EXCEPT ![s] = WriteData(k, n)],
               sent' = [sent EXCEPT ![s] = @ \o SubSeq(Unsent(k), 1, n)],
               dispatchers_' = Add(dispatchers_, s)
        PROVE  StepOf(s) /\ SocketInv(s)' /\ ListOK(dispatchers_')
    <3> DEFINE k2 == WriteData(k, n)
               snt == sent[s] \o SubSeq(Unsent(k), 1, n)
    <3>1. sock'[s] = k2 /\ sent'[s] = snt /\ StepOf(s)
      BY <1>2, <1>8, <1>9, <2>2, OnlyOne DEF StepOf, wire
    <3>2. n \in 0 .. Len(Unsent(k))
      <4>1. Unsent(k) \in Seq(OutBytes)
        BY <1>7, PartsOf DEF SocketOK
      <4>2. Len(Unsent(k)) \in Nat
        BY <4>1, LenProperties
      <4>3. Taken(k) \subseteq Nat
        BY <4>2, NetworkServiceAssumption DEF Taken
      <4>4. \A m \in Taken(k) : m <= Len(Unsent(k))
        BY <4>2, <4>3 DEF Taken
      <4>5. QED
        BY <4>2, <4>3, <4>4
    <3>3. SocketOK(k2, sizes[s], faults[s], delivered[s], taken[s], Pending(stack, s),
                   snt, wrt, arrived[s], peer[s], failures[s])
      BY <1>7, <3>2, SendingKeeps
    <3> HIDE DEF k2, snt
    <3>4. SocketInv(s)'
      BY <1>2, <1>9, <3>1, <3>3 DEF SocketInv, wire
    <3>5. ListOK(Add(dispatchers_, s))
      BY <1>1, AddKeepsList
    <3>6. QED
      BY <2>2, <3>1, <3>4, <3>5
  <2>3. QED
    BY <1>4, <2>1, <2>2
<1>11. Running /\ MayCount /\ stack' = stack /\ crashed' = crashed
  BY <1>2 DEF MayCall, MayCount
<1>12. AllSockets' /\ FunctionsOK'
  BY <1>1, <1>10, StepMoves DEF Globals
<1>13. Globals'
  <2>1. ops' \in 0 .. MaxOps
    BY <1>1, <1>11, OpsKept
  <2>2. \A r \in Sockets : written'[r] <= ops'
    <3>1. \A r \in Sockets : written[r] \in Nat /\ written[r] <= ops
      BY <1>1 DEF AllSockets, SocketInv, SocketOK, OutputOK, Globals
    <3>2. ASSUME NEW r \in Sockets PROVE written'[r] <= ops'
      <4>1. CASE r = s
        BY <1>5, <1>9, <4>1
      <4>2. CASE r # s
        BY <1>5, <1>9, <3>1, <4>2 DEF Only
      <4>3. QED
        BY <4>1, <4>2
    <3>3. QED
      BY <3>2
  <2>3. QED
    BY <1>1, <1>10, <1>11, <1>12, <2>1, <2>2 DEF Globals
<1>14. FramesOK(stack') /\ UrgentOK(stack', sock', peer')
  BY <1>1, <1>11, RunningIsCalm, CalmSuffices
<1>15. QED
  BY <1>12, <1>13, <1>14 DEF Kept

-----------------------------------------------------------------------------
(* Handlers of events. *)

(* the steps of handlers: the stack is calm when they are done *)
LEMMA StepKeeps ==
  ASSUME IInv, NEW s, StepOf(s), SocketInv(s)', crashed' = crashed, ops' = ops,
         written' = written, ListOK(dispatchers_'), CalmStack(stack')
  PROVE  Kept
<1>1. Globals /\ AllSockets
  BY PartsOfIInv
<1>2. MayCount
  BY DEF MayCount
<1>3. AllSockets' /\ FunctionsOK'
  BY <1>1, StepMoves DEF Globals
<1>4. Globals'
  BY <1>1, <1>2, <1>3, GlobalsStay
<1>5. FramesOK(stack') /\ UrgentOK(stack', sock', peer')
  BY CalmSuffices
<1>6. QED
  BY <1>3, <1>4, <1>5 DEF Kept

(* the connection of a reset peer fails *)
LEMMA FailStepKeeps ==
  ASSUME IInv, NEW s \in Sockets, Handling(s), Fail(s, EventFrame(s, {})),
         sock[s].open, peer[s] = "reset",
         UNCHANGED <<dispatchers_, crashed, wire, taken, sent, faults, ops>>
  PROVE  Kept
<1>1. Globals /\ StackInv /\ AllSockets /\ ListOK(dispatchers_) /\ FunctionsOK
  BY PartsOfIInv DEF Globals
<1>2. /\ sock' = [sock EXCEPT ![s] = Closed(@)]
      /\ failures' = [failures EXCEPT ![s] = @ + 1]
      /\ stack' = ReplaceAndCall(EventFrame(s, {}), RunFrame)
      /\ UNCHANGED <<written, delivered>>
  BY DEF Fail
<1>3. CalmStack(stack') /\ SamePending(stack, stack')
  BY <1>1, <1>2, EventGoesOn
<1>4. sock'[s] = Closed(sock[s]) /\ failures'[s] = failures[s] + 1 /\ StepOf(s)
  BY <1>1, <1>2, <1>3, OnlyOne DEF StepOf, wire, FunctionsOK, SamePending
<1>5. SocketInv(s)'
  <2> DEFINE k2 == Closed(sock[s])
             fl == failures[s] + 1
  <2>1. SocketInv(s)
    BY <1>1 DEF AllSockets
  <2>2. SocketOK(k2, sizes[s], faults[s], delivered[s], taken[s], Pending(stack, s),
                 sent[s], written[s], arrived[s], peer[s], fl)
    BY <2>1, ResetKeeps DEF SocketInv
  <2> HIDE DEF k2, fl
  <2>3. QED
    BY <1>2, <1>3, <1>4, <2>2 DEF SocketInv, wire, SamePending, k2, fl
<1>6. ListOK(dispatchers_')
  BY <1>1
<1>7. QED
  BY <1>2, <1>3, <1>4, <1>5, <1>6, StepKeeps

LEMMA ErrorEventKeeps ==
  ASSUME IInv, NEW s \in Sockets, ErrorEvent(s)
  PROVE  Kept
<1>1. /\ Handling(s) /\ Top.ff = {"error"} /\ Fail(s, EventFrame(s, {}))
      /\ UNCHANGED <<dispatchers_, crashed, wire, taken, sent, faults, ops>>
  BY DEF ErrorEvent
<1>2. stack # <<>> /\ Top.at = "event" /\ Top.s = s
  BY <1>1 DEF Handling, At
<1>3. Urgent(Top) /\ "error" \in Top.ff
  BY <1>1, <1>2 DEF Urgent
<1>4. sock[s].open /\ peer[s] = "reset"
  BY <1>2, <1>3, PartsOfIInv, PopsCalmly
<1>5. QED
  BY <1>1, <1>4, FailStepKeeps

(* a connection that writes is open *)
LEMMA WritingIsOpen ==
  ASSUME StackInv, NEW s \in Sockets, Handling(s), DE_WRITE \in Top.ff
  PROVE  sock[s].open /\ Top.ff \ {DE_WRITE} \subseteq {DE_READ}
<1>1. stack # <<>> /\ Top.at = "event" /\ Top.s = s
  BY DEF Handling, At
<1>2. Urgent(Top)
  BY <1>1 DEF Urgent
<1>3. FrameOK(Top) /\ sock[s].open
  BY <1>1, <1>2, PopsCalmly
<1>4. QED
  BY <1>1, <1>3, EventsLeft

LEMMA WriteCompleteKeeps ==
  ASSUME IInv, NEW s \in Sockets, WriteComplete(s)
  PROVE  Kept
<1>1. Globals /\ StackInv /\ AllSockets /\ ListOK(dispatchers_) /\ FunctionsOK
  BY PartsOfIInv DEF Globals
<1> DEFINE k1 == Disable(sock[s], DE_WRITE)
           k2 == [k1 EXCEPT !.socket_writeable_ = TRUE]
           ff == Top.ff \ {DE_WRITE}
<1>2. /\ Handling(s) /\ DE_WRITE \in Top.ff
      /\ sock' = [sock EXCEPT ![s] = [Disable(@, DE_WRITE) EXCEPT !.socket_writeable_ = TRUE]]
      /\ stack' = ReplaceAndCall(EventFrame(s, ff), RunFrame)
      /\ UNCHANGED <<dispatchers_, crashed, wire, taken, sent, app, faults, ops>>
  BY DEF WriteComplete
<1>3. ff \subseteq {DE_READ}
  BY <1>1, <1>2, WritingIsOpen
<1>4. CalmStack(stack') /\ SamePending(stack, stack')
  <2> HIDE DEF ff
  <2>1. QED
    BY <1>1, <1>2, <1>3, EventGoesOn
<1>5. sock'[s] = k2
  BY <1>1, <1>2 DEF FunctionsOK
<1>6. StepOf(s)
  BY <1>1, <1>2, <1>4, OnlyOne DEF StepOf, wire, app, FunctionsOK, SamePending
<1>7. SocketInv(s)'
  <2>1. SocketInv(s)
    BY <1>1 DEF AllSockets
  <2>2. SockOK(sock[s])
    BY <2>1 DEF SocketInv, SocketOK
  <2>3. Like(sock[s], k1)
    BY <2>2, Disabled
  <2>4. SockOK(k1)
    BY <2>3 DEF Like
  <2>5. Like(k1, k2)
    <3> HIDE DEF k1
    <3>1. QED
      BY <2>4, Writeable
  <2> HIDE DEF k1, k2
  <2>6. Like(sock[s], k2)
    BY <2>3, <2>5 DEF Like
  <2>7. SocketOK(k2, sizes[s], faults[s], delivered[s], taken[s], Pending(stack, s),
                 sent[s], written[s], arrived[s], peer[s], failures[s])
    BY <2>1, <2>6, LikeKeeps DEF SocketInv
  <2>8. QED
    BY <1>2, <1>4, <1>5, <2>7 DEF SocketInv, wire, app, SamePending
<1>8. ListOK(dispatchers_') /\ written' = written /\ crashed' = crashed /\ ops' = ops
  BY <1>1, <1>2 DEF app
<1>9. QED
  BY <1>4, <1>6, <1>7, <1>8, StepKeeps

LEMMA WriteMoreKeeps ==
  ASSUME IInv, NEW s \in Sockets, WriteMore(s)
  PROVE  Kept
<1>1. Globals /\ StackInv /\ AllSockets /\ ListOK(dispatchers_) /\ FunctionsOK
  BY PartsOfIInv DEF Globals
<1> DEFINE ff == Top.ff \ {DE_WRITE}
<1>2. /\ Handling(s) /\ DE_WRITE \in Top.ff
      /\ UNCHANGED <<crashed, wire, taken, faults, ops>>
  BY DEF WriteMore
<1>3. sock[s].open /\ ff \subseteq {DE_READ}
  BY <1>1, <1>2, WritingIsOpen
<1>4. CASE peer[s] = "reset"
  <2>1. Fail(s, EventFrame(s, {})) /\ UNCHANGED <<dispatchers_, sent>>
    BY <1>4 DEF WriteMore
  <2>2. QED
    BY <1>2, <1>3, <1>4, <2>1, FailStepKeeps
<1>5. CASE peer[s] # "reset"
  <2>1. /\ dispatchers_' = Add(dispatchers_, s)
        /\ stack' = Replace(EventFrame(s, ff))
        /\ UNCHANGED app
    BY <1>5 DEF WriteMore
  <2>2. PICK n : /\ n \in TakenNow(s)
                 /\ sock' = [sock EXCEPT ![s] = WriteData(@, n)]
                 /\ sent' = [sent EXCEPT ![s] = @ \o SubSeq(Unsent(sock[s]), 1, n)]
    BY <1>5 DEF WriteMore
  <2> DEFINE k2 == WriteData(sock[s], n)
             snt == sent[s] \o SubSeq(Unsent(sock[s]), 1, n)
  <2>3. CalmStack(stack') /\ SamePending(stack, stack')
    <3> HIDE DEF ff
    <3>1. QED
      BY <1>1, <1>2, <1>3, <2>1, EventGoesOn
  <2>4. sock'[s] = k2 /\ sent'[s] = snt
    BY <1>1, <2>2 DEF FunctionsOK
  <2>5. StepOf(s)
    BY <1>1, <1>2, <2>1, <2>2, <2>3, OnlyOne DEF StepOf, wire, app, FunctionsOK, SamePending
  <2>6. SocketInv(s)'
    <3>1. SocketInv(s)
      BY <1>1 DEF AllSockets
    <3>2. n \in 0 .. Len(Unsent(sock[s]))
      <4>1. Unsent(sock[s]) \in Seq(OutBytes)
        BY <3>1, PartsOf DEF SocketInv, SocketOK
      <4>2. Len(Unsent(sock[s])) \in Nat
        BY <4>1, LenProperties
      <4>3. QED
        BY <2>2, <4>2, NetworkServiceAssumption DEF Taken, TakenNow
    <3>3. SocketOK(k2, sizes[s], faults[s], delivered[s], taken[s], Pending(stack, s),
                   snt, written[s], arrived[s], peer[s], failures[s])
      BY <3>1, <3>2, SendingKeeps DEF SocketInv
    <3> HIDE DEF k2, snt
    <3>4. QED
      BY <1>2, <2>1, <2>3, <2>4, <3>3 DEF SocketInv, wire, app, SamePending
  <2>7. ListOK(dispatchers_')
    <3>1. ListOK(Add(dispatchers_, s))
      BY <1>1, AddKeepsList
    <3>2. QED
      BY <2>1, <3>1
  <2>8. written' = written /\ crashed' = crashed /\ ops' = ops
    BY <1>2, <2>1 DEF app
  <2>9. QED
    BY <2>3, <2>5, <2>6, <2>7, <2>8, StepKeeps
<1>6. QED
  BY <1>4, <1>5

-----------------------------------------------------------------------------
(* Reading. *)
LEMMA PendingDomain ==
  ASSUME NEW st, NEW s
  PROVE  DOMAIN Pending(st, s) = PendingAt(st, s)
BY DEF Pending

LEMMA NestedOverlaps ==
  ASSUME NEW s
  PROVE  Overlaps(Nested(s), Pending(stack, s))
<1>1. Nested(s) \subseteq {"nested"}
  BY DEF Nested
<1>2. ASSUME PendingAt(stack, s) # {} PROVE Nested(s) # {}
  BY <1>2 DEF Nested, PendingAt, IsAnalysis
<1>3. QED
  BY <1>1, <1>2, PendingDomain DEF Overlaps

(* The handler calls the analysis of what it read. *)
LEMMA AnalysisBegins ==
  ASSUME StackInv, NEW s \in Sockets, Handling(s), NEW buffer,
         stack' = ReplaceAndCall(EventFrame(s, {}), AnalysisFrame(s, buffer))
  PROVE  /\ CalmStack(stack')
         /\ \E j : Added(Pending(stack, s), Pending(stack', s), j, buffer)
         /\ \A r : r # s => Pending(stack', r) = Pending(stack, r)
<1> DEFINE e == EventFrame(s, {})
           a == AnalysisFrame(s, buffer)
           one == Replace(e)
           two == Append(one, a)
<1>1. CalmStack(one) /\ SamePending(stack, one)
  BY EventGoesOn
<1>2. stack' = two
  BY DEF ReplaceAndCall
<1>3. FrameOK(a) /\ ~Urgent(a)
  BY AnalysisFrameFits
<1> HIDE DEF one
<1>4. CalmStack(two)
  <2> HIDE DEF a
  <2>1. QED
    BY <1>1, <1>3, CallsCalmly
<1>5. /\ PendingAt(two, s) = PendingAt(one, s) \union {Len(one) + 1}
      /\ DOMAIN Pending(two, s) = PendingAt(two, s)
      /\ \A i \in PendingAt(one, s) : Pending(two, s)[i] = Pending(one, s)[i]
      /\ Pending(two, s)[Len(one) + 1] = buffer
      /\ \A r : r # s => Pending(two, r) = Pending(one, r)
  BY <1>1, PushedAnalysis DEF CalmStack
<1> HIDE DEF two
<1>6. DOMAIN Pending(one, s) = PendingAt(one, s)
  BY PendingDomain
<1>7. Added(Pending(one, s), Pending(two, s), Len(one) + 1, buffer)
  BY <1>5, <1>6 DEF Added
<1>8. \A r : Pending(one, r) = Pending(stack, r)
  BY <1>1 DEF SamePending
<1>9. Added(Pending(stack, s), Pending(two, s), Len(one) + 1, buffer)
  BY <1>7, <1>8
<1>10. \A r : r # s => Pending(two, r) = Pending(stack, r)
  BY <1>5, <1>8
<1>11. QED
  BY <1>2, <1>4, <1>9, <1>10

LEMMA ReadDataKeeps ==
  ASSUME IInv, NEW s \in Sockets, ReadData(s)
  PROVE  Kept
<1>1. Globals /\ StackInv /\ AllSockets /\ ListOK(dispatchers_) /\ FunctionsOK
  BY PartsOfIInv DEF Globals
<1> DEFINE b == BufferOf(Received(s))
           k2 == Disable(sock[s], DE_READ)
           f2 == faults[s] \union Nested(s)
<1>2. /\ Handling(s) /\ sock[s].open
      /\ taken' = [taken EXCEPT ![s] = arrived[s]]
      /\ sock' = [sock EXCEPT ![s] = Disable(@, DE_READ)]
      /\ stack' = ReplaceAndCall(EventFrame(s, {}), AnalysisFrame(s, b))
      /\ faults' = [faults EXCEPT ![s] = @ \union Nested(s)]
      /\ UNCHANGED <<dispatchers_, crashed, wire, sent, app, ops>>
  BY DEF ReadData, ReadReady
<1>3. CalmStack(stack') /\ \A r : r # s => Pending(stack', r) = Pending(stack, r)
  <2> HIDE DEF b
  <2>1. QED
    BY <1>1, <1>2, AnalysisBegins
<1>4. PICK j : Added(Pending(stack, s), Pending(stack', s), j, b)
  <2> HIDE DEF b
  <2>1. QED
    BY <1>1, <1>2, AnalysisBegins
<1>5. sock'[s] = k2 /\ taken'[s] = arrived[s] /\ faults'[s] = f2
  BY <1>1, <1>2 DEF FunctionsOK
<1>6. StepOf(s)
  BY <1>1, <1>2, <1>3, OnlyOne DEF StepOf, wire, app, FunctionsOK
<1>7. SocketInv(s)'
  <2> DEFINE p2 == Pending(stack', s)
  <2>1. SocketInv(s)
    BY <1>1 DEF AllSockets
  <2>2. Like(sock[s], k2)
    BY <2>1, Disabled DEF SocketInv, SocketOK
  <2>3. Added(Pending(stack, s), p2, j, BufferOf(Unread(sizes[s], taken[s], arrived[s])))
    BY <1>4 DEF Received, Incoming, Unread
  <2>4. Overlaps(Nested(s), Pending(stack, s))
    BY NestedOverlaps
  <2> HIDE DEF k2, p2
  <2>5. SocketOK(k2, sizes[s], f2, delivered[s], arrived[s], p2,
                 sent[s], written[s], arrived[s], peer[s], failures[s])
    BY <1>2, <2>1, <2>2, <2>3, <2>4, ReadingKeeps DEF SocketInv
  <2> HIDE DEF f2
  <2>6. QED
    BY <1>2, <1>5, <2>5 DEF SocketInv, wire, app, p2
<1>8. ListOK(dispatchers_') /\ written' = written /\ crashed' = crashed /\ ops' = ops
  BY <1>1, <1>2 DEF app
<1>9. QED
  BY <1>3, <1>6, <1>7, <1>8, StepKeeps

LEMMA ReadEndKeeps ==
  ASSUME IInv, NEW s \in Sockets, ReadEnd(s)
  PROVE  Kept
<1>1. Globals /\ StackInv /\ AllSockets /\ ListOK(dispatchers_) /\ FunctionsOK
  BY PartsOfIInv DEF Globals
<1> DEFINE lost == IF Received(s) = <<>> THEN {} ELSE {"dropped"}
           k2 == Closed(sock[s])
           f2 == (faults[s] \union Nested(s)) \union lost
           fl == failures[s] + 1
<1>2. /\ Handling(s) /\ sock[s].open /\ peer[s] # "open"
      /\ taken' = [taken EXCEPT ![s] = arrived[s]]
      /\ sock' = [sock EXCEPT ![s] = Closed(@)]
      /\ failures' = [failures EXCEPT ![s] = @ + 1]
      /\ stack' = ReplaceAndCall(EventFrame(s, {}), RunFrame)
      /\ faults' = [faults EXCEPT ![s] = (@ \union Nested(s)) \union lost]
      /\ UNCHANGED <<dispatchers_, crashed, wire, sent, ops, written, delivered>>
  BY DEF ReadEnd, ReadReady, MeetsEnd, Fail
<1>3. CalmStack(stack') /\ SamePending(stack, stack')
  BY <1>1, <1>2, EventGoesOn
<1>4. sock'[s] = k2 /\ taken'[s] = arrived[s] /\ faults'[s] = f2 /\ failures'[s] = fl
  BY <1>1, <1>2 DEF FunctionsOK
<1>5. StepOf(s)
  BY <1>1, <1>2, <1>3, OnlyOne DEF StepOf, wire, FunctionsOK, SamePending
<1>6. SocketInv(s)'
  <2>1. SocketInv(s)
    BY <1>1 DEF AllSockets
  <2>2. lost \subseteq {"dropped"}
    OBVIOUS
  <2>3. Unread(sizes[s], taken[s], arrived[s]) # <<>> => lost # {}
    BY DEF Received, Incoming, Unread
  <2>4. Overlaps(Nested(s), Pending(stack, s))
    BY NestedOverlaps
  <2> HIDE DEF lost
  <2>5. SocketOK(k2, sizes[s], f2, delivered[s], arrived[s], Pending(stack, s),
                 sent[s], written[s], arrived[s], peer[s], fl)
    BY <1>2, <2>1, <2>2, <2>3, <2>4, EndingKeeps DEF SocketInv
  <2> HIDE DEF f2, k2, fl
  <2>6. QED
    BY <1>2, <1>3, <1>4, <2>5 DEF SocketInv, wire, SamePending
<1>7. ListOK(dispatchers_') /\ written' = written /\ crashed' = crashed /\ ops' = ops
  BY <1>1, <1>2
<1>8. QED
  BY <1>3, <1>5, <1>6, <1>7, StepKeeps

LEMMA ReadNothingKeeps ==
  ASSUME IInv, NEW s \in Sockets, ReadNothing(s)
  PROVE  Kept
<1>1. Globals /\ StackInv /\ AllSockets /\ ListOK(dispatchers_) /\ FunctionsOK
  BY PartsOfIInv DEF Globals
<1> DEFINE k2 == Disable(sock[s], DE_READ)
           f2 == faults[s] \union {"starved"}
<1>2. /\ Handling(s)
      /\ sock' = [sock EXCEPT ![s] = Disable(@, DE_READ)]
      /\ stack' = Replace(EventFrame(s, {}))
      /\ faults' = [faults EXCEPT ![s] = @ \union {"starved"}]
      /\ UNCHANGED <<dispatchers_, crashed, wire, taken, sent, app, ops>>
  BY DEF ReadNothing, ReadReady
<1>3. CalmStack(stack') /\ SamePending(stack, stack')
  BY <1>1, <1>2, EventGoesOn
<1>4. sock'[s] = k2 /\ faults'[s] = f2
  BY <1>1, <1>2 DEF FunctionsOK
<1>5. StepOf(s)
  BY <1>1, <1>2, <1>3, OnlyOne DEF StepOf, wire, app, FunctionsOK, SamePending
<1>6. SocketInv(s)'
  <2>1. SocketInv(s)
    BY <1>1 DEF AllSockets
  <2>2. Like(sock[s], k2)
    BY <2>1, Disabled DEF SocketInv, SocketOK
  <2> HIDE DEF k2
  <2>3. SocketOK(k2, sizes[s], faults[s], delivered[s], taken[s], Pending(stack, s),
                 sent[s], written[s], arrived[s], peer[s], failures[s])
    BY <2>1, <2>2, LikeKeeps DEF SocketInv
  <2>4. SocketOK(k2, sizes[s], f2, delivered[s], taken[s], Pending(stack, s),
                 sent[s], written[s], arrived[s], peer[s], failures[s])
    BY <2>3, StarvingKeeps
  <2> HIDE DEF f2
  <2>5. QED
    BY <1>2, <1>3, <1>4, <2>4 DEF SocketInv, wire, app, SamePending
<1>7. ListOK(dispatchers_') /\ written' = written /\ crashed' = crashed /\ ops' = ops
  BY <1>1, <1>2 DEF app
<1>8. QED
  BY <1>3, <1>5, <1>6, <1>7, StepKeeps

-----------------------------------------------------------------------------
(* The analysis ends, or goes on with what is left. *)
LEMMA AnalysisEnds ==
  ASSUME StackInv, NEW s \in Sockets, stack # <<>>, IsAnalysis(Top, s)
  PROVE  LET fr == Front(stack)
             all == Append(fr, RunFrame)
         IN  /\ CalmStack(fr) /\ CalmStack(all)
             /\ \A r : r # s => Pending(fr, r) = Pending(stack, r)
             /\ SamePending(fr, all)
             /\ \E j : Dropped(Pending(stack, s), Pending(fr, s), j, Top.buffer)
<1> DEFINE fr == Front(stack)
           all == Append(fr, RunFrame)
<1>1. Top.at = "analysis" /\ Top.s = s
  BY DEF IsAnalysis
<1>2. /\ CalmStack(fr) /\ IsStack(stack)
      /\ \A r : ~IsAnalysis(Top, r) => Pending(fr, r) = Pending(stack, r)
  BY PopsCalmly
<1>3. \A r : r # s => Pending(fr, r) = Pending(stack, r)
  BY <1>1, <1>2 DEF IsAnalysis
<1>4. /\ Within(Pending(fr, s), Pending(stack, s))
      /\ DOMAIN Pending(fr, s) = DOMAIN Pending(stack, s) \ {Len(stack)}
      /\ Len(stack) \in DOMAIN Pending(stack, s)
      /\ Pending(stack, s)[Len(stack)] = Top.buffer
  BY <1>2, PoppedPending DEF Top
<1>5. Dropped(Pending(stack, s), Pending(fr, s), Len(stack), Top.buffer)
  BY <1>4 DEF Dropped
<1> HIDE DEF fr
<1>6. CalmStack(all) /\ SamePending(fr, all)
  BY <1>2, RunFrameFits, CallsCalmly DEF SamePending
<1>7. QED
  BY <1>2, <1>3, <1>5, <1>6 DEF fr

LEMMA AnalysisGoesOn ==
  ASSUME StackInv, NEW s \in Sockets, stack # <<>>, IsAnalysis(Top, s), NEW b2
  PROVE  LET st2 == ReplaceAndCall(AnalysisFrame(s, b2), RunFrame)
         IN  /\ CalmStack(st2)
             /\ \A r : r # s => Pending(st2, r) = Pending(stack, r)
             /\ \E j : Replaced(Pending(stack, s), Pending(st2, s), j, Top.buffer, b2)
<1> DEFINE fr == Front(stack)
           a == AnalysisFrame(s, b2)
           one == Append(fr, a)
           two == Append(one, RunFrame)
           n == Len(stack)
<1>1. Top.at = "analysis" /\ Top.s = s
  BY DEF IsAnalysis
<1>2. /\ CalmStack(fr) /\ IsStack(stack)
      /\ \A r : ~IsAnalysis(Top, r) => Pending(fr, r) = Pending(stack, r)
      /\ \A f, g : ReplaceAndCall(f, g) = Append(Append(Front(stack), f), g)
  BY PopsCalmly
<1>3. \A r : r # s => Pending(fr, r) = Pending(stack, r)
  BY <1>1, <1>2 DEF IsAnalysis
<1>4. /\ Within(Pending(fr, s), Pending(stack, s))
      /\ DOMAIN Pending(fr, s) = DOMAIN Pending(stack, s) \ {n}
      /\ n \in DOMAIN Pending(stack, s)
      /\ Pending(stack, s)[n] = Top.buffer
  BY <1>2, PoppedPending DEF Top
<1>5. FrameOK(a) /\ ~Urgent(a)
  BY AnalysisFrameFits
<1>6. ReplaceAndCall(a, RunFrame) = two
  BY <1>2
<1>7. Len(fr) + 1 = n
  <2>1. IsStack(fr) /\ DOMAIN fr = 1 .. n - 1 /\ n \in Nat \ {0}
    BY <1>2, PoppedStack
  <2>2. DOMAIN fr = 1 .. Len(fr) /\ Len(fr) \in Nat
    BY <2>1, LenProperties DEF IsStack
  <2> DEFINE m == Len(fr)
  <2>3. 1 .. m = 1 .. n - 1 /\ m \in Nat /\ n \in Nat \ {0}
    BY <2>1, <2>2
  <2> HIDE DEF m, n
  <2>4. m = n - 1
    BY <2>3
  <2>5. m + 1 = n
    BY <2>3, <2>4
  <2>6. QED
    BY <2>5 DEF m
<1>8. /\ PendingAt(one, s) = PendingAt(fr, s) \union {Len(fr) + 1}
      /\ Len(fr) + 1 \notin PendingAt(fr, s)
      /\ DOMAIN Pending(one, s) = PendingAt(one, s)
      /\ \A i \in PendingAt(fr, s) : Pending(one, s)[i] = Pending(fr, s)[i]
      /\ Pending(one, s)[Len(fr) + 1] = b2
      /\ \A r : r # s => Pending(one, r) = Pending(fr, r)
  <2> HIDE DEF fr
  <2>1. QED
    BY <1>2, PushedAnalysis DEF CalmStack
<1>9. CalmStack(one)
  <2> HIDE DEF fr, a
  <2>1. QED
    BY <1>2, <1>5, CallsCalmly
<1>10. DOMAIN Pending(fr, s) = PendingAt(fr, s)
  BY PendingDomain
<1> HIDE DEF fr, one, n
<1>11. CalmStack(two) /\ \A r : Pending(two, r) = Pending(one, r)
  BY <1>9, RunFrameFits, CallsCalmly
<1> DEFINE p == Pending(stack, s)
           pf == Pending(fr, s)
           p1 == Pending(one, s)
<1>12. Replaced(p, p1, n, Top.buffer, b2)
  <2>1. /\ DOMAIN p1 = DOMAIN pf \union {n} /\ p1[n] = b2
        /\ \A i \in DOMAIN pf : p1[i] = pf[i]
    BY <1>7, <1>8, <1>10
  <2>2. /\ DOMAIN pf = DOMAIN p \ {n} /\ n \in DOMAIN p /\ p[n] = Top.buffer
        /\ \A i \in DOMAIN pf : pf[i] = p[i]
    BY <1>4 DEF Within
  <2> HIDE DEF p, pf, p1
  <2>3. QED
    BY <2>1, <2>2 DEF Replaced
<1> HIDE DEF two
<1>13. Replaced(Pending(stack, s), Pending(two, s), n, Top.buffer, b2)
  BY <1>11, <1>12 DEF p, p1
<1>14. \A r : r # s => Pending(two, r) = Pending(stack, r)
  BY <1>3, <1>8, <1>11
<1>15. QED
  BY <1>6, <1>11, <1>13, <1>14

LEMMA AnalysingFacts ==
  ASSUME NEW s, Analysing(s)
  PROVE  stack # <<>> /\ IsAnalysis(Top, s) /\ sock[s].open
BY DEF Analysing, At, IsAnalysis

LEMMA StopAnalysisKeeps ==
  ASSUME IInv, NEW s \in Sockets, StopAnalysis(s)
  PROVE  Kept
<1>1. Globals /\ StackInv /\ AllSockets /\ ListOK(dispatchers_) /\ FunctionsOK
  BY PartsOfIInv DEF Globals
<1> DEFINE fr == Front(stack)
<1>2. /\ stack # <<>> /\ IsAnalysis(Top, s) /\ ~sock[s].open /\ stack' = fr
      /\ UNCHANGED <<dispatchers_, sock, crashed, wire, taken, sent, app, faults, ops>>
  BY DEF StopAnalysis, At, IsAnalysis
<1>3. CalmStack(fr) /\ \A r : r # s => Pending(fr, r) = Pending(stack, r)
  BY <1>1, <1>2, AnalysisEnds
<1>4. PICK j : Dropped(Pending(stack, s), Pending(fr, s), j, Top.buffer)
  BY <1>1, <1>2, AnalysisEnds
<1> HIDE DEF fr
<1>5. StepOf(s)
  BY <1>1, <1>2, <1>3, OnlyOne DEF StepOf, wire, app, FunctionsOK
<1>6. SocketInv(s)'
  <2> DEFINE p2 == Pending(fr, s)
  <2>1. SocketInv(s)
    BY <1>1 DEF AllSockets
  <2>2. Within(p2, Pending(stack, s))
    BY <1>4 DEF Dropped
  <2> HIDE DEF p2
  <2>3. SocketOK(sock[s], sizes[s], faults[s], delivered[s], taken[s], p2,
                 sent[s], written[s], arrived[s], peer[s], failures[s])
    BY <1>2, <2>1, <2>2, StoppingKeeps DEF SocketInv
  <2>4. QED
    BY <1>2, <2>3 DEF SocketInv, wire, app, p2
<1>7. ListOK(dispatchers_') /\ written' = written /\ crashed' = crashed /\ ops' = ops
  BY <1>1, <1>2 DEF app
<1>8. QED
  BY <1>2, <1>3, <1>5, <1>6, <1>7, StepKeeps

LEMMA KeepBytesKeeps ==
  ASSUME IInv, NEW s \in Sockets, KeepBytes(s)
  PROVE  Kept
<1>1. Globals /\ StackInv /\ AllSockets /\ ListOK(dispatchers_) /\ FunctionsOK
  BY PartsOfIInv DEF Globals
<1> DEFINE fr == Front(stack)
           recv == sock[s].recv_buff_
           k1 == Enable(sock[s], DE_READ)
           k2 == [k1 EXCEPT !.recv_buff_ = AppendBuffer(recv, Top.buffer)]
<1>2. /\ Analysing(s) /\ Incomplete(s) /\ stack' = fr
      /\ sock' = [sock EXCEPT ![s] = [Enable(@, DE_READ) EXCEPT
                                        !.recv_buff_ = AppendBuffer(recv, Top.buffer)]]
      /\ dispatchers_' = Add(dispatchers_, s)
      /\ UNCHANGED <<crashed, wire, taken, sent, app, faults, ops>>
  BY DEF KeepBytes
<1>3. stack # <<>> /\ IsAnalysis(Top, s)
  BY <1>2, AnalysingFacts
<1>4. CalmStack(fr) /\ \A r : r # s => Pending(fr, r) = Pending(stack, r)
  BY <1>1, <1>3, AnalysisEnds
<1>5. PICK j : Dropped(Pending(stack, s), Pending(fr, s), j, Top.buffer)
  BY <1>1, <1>3, AnalysisEnds
<1> HIDE DEF fr
<1>6. StepOf(s)
  BY <1>1, <1>2, <1>4, OnlyOne DEF StepOf, wire, app, FunctionsOK
<1>7. Like(sock[s], k1) /\ SockOK(k1)
  BY <1>1, Enabled DEF AllSockets, SocketInv, SocketOK, Like
<1>8. sock'[s] = k2
  <2>1. sock' = [sock EXCEPT ![s] = k2]
    BY <1>2
  <2> HIDE DEF k2
  <2>2. QED
    BY <1>1, <2>1 DEF FunctionsOK
<1>9. KeptIn(sock[s], k2, AppendBuffer(recv, Top.buffer))
  <2> DEFINE a == AppendBuffer(recv, Top.buffer)
  <2> HIDE DEF k1, a
  <2>1. SockOK(k2) /\ k2.open = k1.open /\ k2.recv_buff_ = a /\ Unsent(k2) = Unsent(k1)
    BY <1>7, Keeps DEF a
  <2> HIDE DEF k2
  <2>2. QED
    BY <1>7, <2>1 DEF KeptIn, Like, a
<1> HIDE DEF k2
<1>10. SocketInv(s)'
  <2> DEFINE p2 == Pending(fr, s)
             b == Top.buffer
  <2>1. SocketInv(s)
    BY <1>1 DEF AllSockets
  <2>2. HeaderComplete(recv, b) => HeaderGood(recv, b) /\ ~PacketComplete(recv, b, sizes[s])
    BY <1>2 DEF Incomplete
  <2>3. Dropped(Pending(stack, s), p2, j, b) /\ KeptIn(sock[s], k2, AppendBuffer(recv, b))
    BY <1>5, <1>9
  <2> HIDE DEF p2, b
  <2>4. SocketOK(k2, sizes[s], faults[s], delivered[s], taken[s], p2,
                 sent[s], written[s], arrived[s], peer[s], failures[s])
    BY <2>1, <2>2, <2>3, KeepingKeeps DEF SocketInv
  <2>5. QED
    BY <1>2, <1>8, <2>4 DEF SocketInv, wire, app, p2
<1>11. ListOK(dispatchers_')
  <2>1. ListOK(Add(dispatchers_, s))
    BY <1>1, AddKeepsList
  <2>2. QED
    BY <1>2, <2>1
<1>12. written' = written /\ crashed' = crashed /\ ops' = ops
  BY <1>2 DEF app
<1>13. QED
  BY <1>2, <1>4, <1>6, <1>10, <1>11, <1>12, StepKeeps

(* the packet that DeliverPacket takes out, and what it leaves *)
TakenOut(s) == TakePacket(sock[s].recv_buff_, Top.buffer, sizes[s])
SplitAfter(s) ==
  IF HeaderSplit(sock[s].recv_buff_, Top.buffer) THEN faults[s] \union {"split"} ELSE faults[s]

LEMMA DeliverStep ==
  ASSUME IInv, NEW s \in Sockets, DeliverPacket(s)
  PROVE  /\ SocketInv(s)' /\ StepOf(s) /\ CalmStack(stack')
         /\ sock[s].open /\ sock'[s].open = sock[s].open
         /\ faults'[s] = SplitAfter(s)
         /\ ~Faulty(faults'[s]) =>
              /\ Len(delivered[s]) \in Nat /\ Len(delivered[s]) < Len(sizes[s])
              /\ delivered'[s] = Append(delivered[s],
                                   Body(Len(delivered[s]) + 1, sizes[s][Len(delivered[s]) + 1]))
<1>1. Globals /\ StackInv /\ AllSockets /\ FunctionsOK
  BY PartsOfIInv DEF Globals
<1> DEFINE recv == sock[s].recv_buff_
           b2 == TakenOut(s).buffer
           k2 == [sock[s] EXCEPT !.recv_buff_ = EmptyBuffer]
           d2 == Append(delivered[s], TakenOut(s).packet)
           f2 == SplitAfter(s)
<1>2. /\ Analysing(s)
      /\ Finds(recv, Top.buffer, sizes[s])
      /\ delivered' = [delivered EXCEPT ![s] = Append(@, TakenOut(s).packet)]
      /\ stack' = ReplaceAndCall(AnalysisFrame(s, b2), RunFrame)
      /\ UNCHANGED <<dispatchers_, crashed, wire, taken, sent, written, failures, ops>>
  BY DEF DeliverPacket, Finds, TakenOut
<1>3. sock'[s] = k2 /\ Only(sock, sock', s)
  BY <1>1 DEF DeliverPacket, FunctionsOK, Only
<1>4. faults'[s] = f2 /\ Only(faults, faults', s)
  BY <1>1 DEF DeliverPacket, FunctionsOK, Only, SplitAfter
<1>5. delivered'[s] = d2 /\ Only(delivered, delivered', s)
  BY <1>1, <1>2 DEF FunctionsOK, Only
<1>6. stack # <<>> /\ IsAnalysis(Top, s) /\ sock[s].open
  BY <1>2, AnalysingFacts
<1>7. CalmStack(stack') /\ \A r : r # s => Pending(stack', r) = Pending(stack, r)
  <2> HIDE DEF b2
  <2>1. QED
    BY <1>1, <1>2, <1>6, AnalysisGoesOn
<1>8. PICK j : Replaced(Pending(stack, s), Pending(stack', s), j, Top.buffer, b2)
  <2> HIDE DEF b2
  <2>1. QED
    BY <1>1, <1>2, <1>6, AnalysisGoesOn
<1>9. StepOf(s)
  BY <1>2, <1>3, <1>4, <1>5, <1>7, OnlyOne DEF StepOf, wire
<1>10. KeptIn(sock[s], k2, EmptyBuffer)
  <2>1. SockOK(sock[s])
    BY <1>1 DEF AllSockets, SocketInv, SocketOK
  <2>2. SockOK(k2) /\ k2.open = sock[s].open /\ k2.recv_buff_ = EmptyBuffer
        /\ Unsent(k2) = Unsent(sock[s])
    BY <2>1, Keeps
  <2> HIDE DEF k2
  <2>3. QED
    BY <2>2 DEF KeptIn
<1> HIDE DEF k2
<1> DEFINE p2 == Pending(stack', s)
           b == Top.buffer
           c == Len(delivered[s])
<1>11. /\ SocketOK(k2, sizes[s], f2, d2, taken[s], p2,
                   sent[s], written[s], arrived[s], peer[s], failures[s])
       /\ ~Faulty(f2) => /\ c \in Nat /\ c < Len(sizes[s])
                         /\ d2 = Append(delivered[s], Body(c + 1, sizes[s][c + 1]))
  <2>1. SocketOK(sock[s], sizes[s], faults[s], delivered[s], taken[s], Pending(stack, s),
                 sent[s], written[s], arrived[s], peer[s], failures[s])
    BY <1>1 DEF AllSockets, SocketInv
  <2>2. Finds(recv, b, sizes[s])
    BY <1>2
  <2>3. Replaced(Pending(stack, s), p2, j, b, TakePacket(recv, b, sizes[s]).buffer)
    BY <1>8 DEF TakenOut
  <2> DEFINE d3 == Append(delivered[s], TakePacket(recv, b, sizes[s]).packet)
             f3 == IF HeaderSplit(recv, b) THEN faults[s] \union {"split"} ELSE faults[s]
  <2> HIDE DEF p2, b
  <2>4. /\ SocketOK(k2, sizes[s], f3, d3, taken[s], p2,
                    sent[s], written[s], arrived[s], peer[s], failures[s])
        /\ ~Faulty(f3) => /\ c \in Nat /\ c < Len(sizes[s])
                          /\ d3 = Append(delivered[s], Body(c + 1, sizes[s][c + 1]))
    <3> DEFINE k == sock[s]
               plan == sizes[s]
               flt == faults[s]
               dlv == delivered[s]
               tk == taken[s]
               pend == Pending(stack, s)
               snt == sent[s]
               wrt == written[s]
               arr == arrived[s]
               pr == peer[s]
               fl == failures[s]
    <3>1. SocketOK(k, plan, flt, dlv, tk, pend, snt, wrt, arr, pr, fl)
      BY <2>1
    <3>2. /\ k.open /\ Finds(k.recv_buff_, b, plan)
          /\ Replaced(pend, p2, j, b, TakePacket(k.recv_buff_, b, plan).buffer)
          /\ KeptIn(k, k2, EmptyBuffer)
      BY <1>6, <1>10, <2>2, <2>3
    <3> HIDE DEF k, plan, flt, dlv, tk, pend, snt, wrt, arr, pr, fl
    <3>3. Delivers(k, plan, flt, dlv, tk, p2, snt, wrt, arr, pr, fl, k2, b)
      BY <3>1, <3>2, DeliveringKeeps
    <3>4. QED
      BY <3>3 DEF Delivers, d3, f3, c, k, plan, flt, dlv, tk, pend, snt, wrt, arr, pr, fl
  <2>5. d3 = d2 /\ f3 = f2
    BY DEF TakenOut, SplitAfter, b
  <2> HIDE DEF d3, f3, d2, f2
  <2>6. QED
    BY <2>4, <2>5
<1> HIDE DEF d2, f2
<1>12. SocketInv(s)'
  BY <1>2, <1>3, <1>4, <1>5, <1>11 DEF SocketInv, wire, p2
<1>13. sock'[s].open = sock[s].open
  BY <1>3, <1>10 DEF KeptIn
<1>14. QED
  BY <1>4, <1>5, <1>6, <1>7, <1>9, <1>11, <1>12, <1>13 DEF f2, c

LEMMA DeliverPacketKeeps ==
  ASSUME IInv, NEW s \in Sockets, DeliverPacket(s)
  PROVE  Kept
<1>1. SocketInv(s)' /\ StepOf(s) /\ CalmStack(stack')
  BY DeliverStep
<1>2. written' = written /\ crashed' = crashed /\ ops' = ops /\ dispatchers_' = dispatchers_
  BY DEF DeliverPacket
<1>3. ListOK(dispatchers_')
  BY <1>2, PartsOfIInv DEF Globals
<1>4. QED
  BY <1>1, <1>2, <1>3, StepKeeps

LEMMA BadHeaderStep ==
  ASSUME IInv, NEW s \in Sockets, BadHeader(s)
  PROVE  SocketInv(s)' /\ StepOf(s) /\ CalmStack(stack') /\ Faulty(faults[s])
<1>1. Globals /\ StackInv /\ AllSockets /\ FunctionsOK
  BY PartsOfIInv DEF Globals
<1> DEFINE fr == Front(stack)
           all == Append(fr, RunFrame)
           recv == sock[s].recv_buff_
           k2 == Closed(sock[s])
           fl == failures[s] + 1
           b == Top.buffer
<1>2. /\ Analysing(s) /\ HeaderComplete(recv, b) /\ ~HeaderGood(recv, b)
      /\ sock' = [sock EXCEPT ![s] = Closed(@)]
      /\ failures' = [failures EXCEPT ![s] = @ + 1]
      /\ stack' = all
      /\ UNCHANGED <<dispatchers_, crashed, wire, taken, sent, written, delivered, faults, ops>>
  BY DEF BadHeader
<1>3. stack # <<>> /\ IsAnalysis(Top, s) /\ sock[s].open
  BY <1>2, AnalysingFacts
<1>4. /\ CalmStack(all) /\ SamePending(fr, all)
      /\ \A r : r # s => Pending(fr, r) = Pending(stack, r)
  BY <1>1, <1>3, AnalysisEnds
<1>5. PICK j : Dropped(Pending(stack, s), Pending(fr, s), j, b)
  BY <1>1, <1>3, AnalysisEnds
<1> HIDE DEF fr, all
<1>6. Pending(all, s) = Pending(fr, s) /\ \A r : r # s => Pending(all, r) = Pending(stack, r)
  BY <1>4 DEF SamePending
<1>7. sock'[s] = k2 /\ failures'[s] = fl
  BY <1>1, <1>2 DEF FunctionsOK
<1>8. StepOf(s)
  BY <1>2, <1>6, OnlyOne DEF StepOf, wire
<1>9. /\ SocketOK(k2, sizes[s], faults[s], delivered[s], taken[s], Pending(all, s),
                  sent[s], written[s], arrived[s], peer[s], fl)
      /\ Faulty(faults[s])
  <2> DEFINE p2 == Pending(fr, s)
  <2>1. SocketInv(s)
    BY <1>1 DEF AllSockets
  <2>2. Dropped(Pending(stack, s), p2, j, b) /\ HeaderComplete(recv, b) /\ ~HeaderGood(recv, b)
    BY <1>2, <1>5
  <2> HIDE DEF p2, b
  <2>3. /\ SocketOK(k2, sizes[s], faults[s], delivered[s], taken[s], p2,
                    sent[s], written[s], arrived[s], peer[s], fl)
        /\ Faulty(faults[s])
    BY <1>3, <2>1, <2>2, BadHeaderKeeps DEF SocketInv
  <2>4. QED
    BY <1>6, <2>3 DEF p2
<1> HIDE DEF k2, fl
<1>10. SocketInv(s)'
  BY <1>2, <1>7, <1>9 DEF SocketInv, wire
<1>11. QED
  BY <1>2, <1>4, <1>8, <1>9, <1>10

LEMMA BadHeaderKeepsAll ==
  ASSUME IInv, NEW s \in Sockets, BadHeader(s)
  PROVE  Kept
<1>1. SocketInv(s)' /\ StepOf(s) /\ CalmStack(stack')
  BY BadHeaderStep
<1>2. written' = written /\ crashed' = crashed /\ ops' = ops /\ dispatchers_' = dispatchers_
  BY DEF BadHeader
<1>3. ListOK(dispatchers_')
  BY <1>2, PartsOfIInv DEF Globals
<1>4. QED
  BY <1>1, <1>2, <1>3, StepKeeps

-----------------------------------------------------------------------------
(* The invariant holds. *)

(* A uint32 can count a packet and a block more: AsyncWritePacket makes no *)
(* packet of more than 64K from a string (asyncpacketsocket.cpp:32-34);    *)
(* what a peer sends has no such limit.                                    *)
BodiesFit ==
  \A s \in Sockets : \A plan \in Plans[s] : \A i \in DOMAIN plan :
    plan[i] + DEFAULT_BLOCK_SIZE <= WordMod

LEMMA NothingBefore ==
  Outgoing(0) = <<>> /\ \A plan : Bodies(plan, 0) = <<>>
<1>1. [p \in 1 .. 0 |-> OutSize] = <<>>
  OBVIOUS
<1>2. StreamBytes(<<>>) = <<>>
  <2>1. [p \in 1 .. Len(<<>>) |-> PacketBytes(p, <<>>[p])] = <<>>
    OBVIOUS
  <2>2. QED
    BY <2>1, FlattenEmpty DEF StreamBytes
<1>3. Outgoing(0) = <<>>
  BY <1>1, <1>2 DEF Outgoing
<1>4. ASSUME NEW plan PROVE Bodies(plan, 0) = <<>>
  <2>1. [p \in 1 .. 0 |-> Body(p, plan[p])] = <<>>
    OBVIOUS
  <2>2. QED
    BY <2>1 DEF Bodies
<1>5. QED
  BY <1>3, <1>4

(* a connection before anything happened *)
LEMMA ConnectedIsOK ==
  /\ SockOK(ConnectedSocket) /\ ConnectedSocket.open
  /\ ConnectedSocket.recv_buff_ = EmptyBuffer /\ Unsent(ConnectedSocket) = <<>>
<1> DEFINE k == ConnectedSocket
<1>1. /\ k.open = TRUE /\ k.socket_writeable_ = TRUE /\ k.enabled_events_ = {DE_READ, DE_CLOSE}
      /\ k.write_buffers_ = EmptyBuffer /\ k.encode_buffer_ = <<>> /\ k.recv_buff_ = EmptyBuffer
  BY DEF ConnectedSocket
<1>2. Shape(k)
  BY DEF ConnectedSocket, Shape, FieldNames
<1> HIDE DEF k
<1>3. EmptyBuffer \in Buffers(OutBytes) /\ Bytes(EmptyBuffer) = <<>> /\ <<>> \in Seq(OutBytes)
  BY EmptyBufferExact, EmptySeq DEF IsExact
<1>4. SockOK(k)
  BY <1>1, <1>2, <1>3, SockShape
<1>5. Unsent(k) = <<>>
  <2>1. Unsent(k) = <<>> \o <<>>
    BY <1>1, <1>3 DEF Unsent
  <2>2. QED
    BY <2>1, <1>3, ConcatEmptySeq
<1>6. QED
  BY <1>1, <1>4, <1>5 DEF k

LEMMA InitialSocket ==
  ASSUME NEW plan, plan \in Seq(Nat), NEW pend, DOMAIN pend = {},
         \A p \in DOMAIN plan : plan[p] + DEFAULT_BLOCK_SIZE <= WordMod
  PROVE  SocketOK(ConnectedSocket, plan, {}, <<>>, 0, pend, <<>>, 0, 0, "open", 0)
<1> DEFINE k == ConnectedSocket
           S == BytesOf(plan)
<1>1. SockOK(k) /\ k.open /\ k.recv_buff_ = EmptyBuffer /\ Unsent(k) = <<>>
  BY ConnectedIsOK
<1>2. IsExact(EmptyBuffer, S) /\ Bytes(EmptyBuffer) = <<>> /\ EmptyBuffer.size_ = 0
  BY EmptyBufferExact
<1>3. Len(StreamBytes(plan)) \in Nat /\ StreamBytes(plan) \in Seq(S)
  <2>1. StreamBytes(plan) \in Seq(S)
    BY StreamTyped
  <2>2. QED
    BY <2>1, LenProperties
<1>4. HoldsNoPacket(EmptyBuffer, plan)
  BY <1>2, HeaderSizeHolds DEF HoldsNoPacket, HeaderSize
<1>5. ReceivedOK(EmptyBuffer, plan, {}, pend)
  BY <1>2, <1>4 DEF ReceivedOK, PendingOK
<1>6. Len(<<>>) = 0 /\ <<>> \in Seq(S) /\ <<>> \in Seq(OutBytes)
  BY EmptySeq
<1>7. Streaming(plan, 0, <<>>, 0)
  <2>1. CanCut(Nat, plan, 0)
    BY LenProperties DEF CanCut
  <2>2. Upto(plan, 0) = <<>>
    BY UptoEnds
  <2>3. FirstPart(StreamBytes(plan), 0) = <<>>
    <3> DEFINE x == StreamBytes(plan)
    <3>1. CanCut(S, x, 0)
      BY <1>3 DEF CanCut
    <3> HIDE DEF x
    <3>2. FirstPart(x, 0) \in Seq(S) /\ Len(FirstPart(x, 0)) = 0
      BY <3>1, CutParts
    <3>3. FirstPart(x, 0) = <<>>
      BY <3>2, EmptySeq
    <3>4. QED
      BY <3>3 DEF x
  <2>4. Upto(plan, 0) \o <<>> = FirstPart(StreamBytes(plan), 0)
    BY <1>6, <2>2, <2>3, ConcatEmptySeq
  <2>5. 0 \in 0 .. Len(StreamBytes(plan))
    BY <1>3
  <2>6. QED
    BY <1>6, <2>1, <2>4, <2>5 DEF Streaming
<1>8. StreamOK(EmptyBuffer, plan, <<>>, 0, pend)
  <2>1. Bodies(plan, 0) = <<>>
    BY NothingBefore
  <2>2. QED
    BY <1>2, <1>6, <1>7, <2>1 DEF StreamOK
<1>9. OutputOK(k, <<>>, 0)
  <2>1. <<>> \o <<>> = <<>>
    BY <1>6, ConcatEmptySeq
  <2>2. Outgoing(0) = <<>>
    BY NothingBefore
  <2> HIDE DEF k
  <2>3. QED
    BY <1>1, <1>6, <2>1, <2>2 DEF OutputOK
<1>10. WireOK(plan, 0, 0, "open", 0, {}, TRUE)
  BY <1>3 DEF WireOK, Faults
<1>11. EndOK(plan, 0, "open", 0, {}, <<>>)
  BY DEF EndOK
<1> HIDE DEF k
<1>12. WireOK(plan, 0, 0, "open", 0, {}, k.open)
  BY <1>1, <1>10 DEF WireOK
<1>13. SocketOK(k, plan, {}, <<>>, 0, pend, <<>>, 0, 0, "open", 0)
  BY <1>1, <1>5, <1>8, <1>9, <1>11, <1>12 DEF SocketOK
<1>14. QED
  BY <1>13 DEF k

LEMMA InitIInv == BodiesFit /\ Init => IInv
<1> SUFFICES ASSUME BodiesFit, Init PROVE IInv
  OBVIOUS
<1>1. /\ dispatchers_ = SetToSeq(Sockets) /\ sock = [s \in Sockets |-> ConnectedSocket]
      /\ stack = <<>> /\ crashed = FALSE
      /\ arrived = [s \in Sockets |-> 0] /\ taken = [s \in Sockets |-> 0]
      /\ peer = [s \in Sockets |-> "open"] /\ sent = [s \in Sockets |-> <<>>]
      /\ written = [s \in Sockets |-> 0] /\ delivered = [s \in Sockets |-> <<>>]
      /\ failures = [s \in Sockets |-> 0] /\ faults = [s \in Sockets |-> {}] /\ ops = 0
  BY DEF Init
<1>2. \A s \in Sockets : sizes[s] \in Plans[s]
  BY DEF Init
<1>3. MaxOps \in Nat
  BY NetworkServiceAssumption
<1>4. ListOK(dispatchers_)
  BY <1>1, InitialList DEF ListOK
<1>5. Globals
  <2>1. FunctionsOK
    BY <1>1 DEF FunctionsOK
  <2>2. crashed \in BOOLEAN /\ ops = 0 /\ \A s \in Sockets : written[s] = 0
    BY <1>1
  <2>3. ops \in 0 .. MaxOps /\ \A s \in Sockets : written[s] <= ops
    BY <1>3, <2>2
  <2>4. QED
    BY <1>4, <2>1, <2>2, <2>3 DEF Globals
<1>6. DOMAIN stack = {}
  BY <1>1
<1>7. StackInv
  <2>1. GoodStack(stack)
    BY InitGood
  <2>2. FramesOK(stack) /\ UrgentOK(stack, sock, peer)
    BY <1>6 DEF FramesOK, UrgentOK
  <2>3. QED
    BY <2>1, <2>2 DEF StackInv
<1>8. ASSUME NEW s \in Sockets PROVE SocketInv(s)
  <2> DEFINE pend == Pending(stack, s)
             plan == sizes[s]
  <2>1. DOMAIN pend = {}
    BY <1>6, PendingDomain DEF PendingAt
  <2>2. plan \in Plans[s]
    BY <1>2
  <2>3. plan \in Seq(Nat)
    BY <2>2, NetworkServiceAssumption
  <2>4. \A p \in DOMAIN plan : plan[p] + DEFAULT_BLOCK_SIZE <= WordMod
    BY <2>2 DEF BodiesFit
  <2> HIDE DEF pend, plan
  <2>5. SocketOK(ConnectedSocket, plan, {}, <<>>, 0, pend, <<>>, 0, 0, "open", 0)
    BY <2>1, <2>3, <2>4, InitialSocket
  <2>6. QED
    BY <1>1, <2>5 DEF SocketInv, pend, plan
<1>9. QED
  BY <1>5, <1>7, <1>8, PartsOfIInv DEF AllSockets

-----------------------------------------------------------------------------
(* Every step keeps the invariant. *)
LEMMA UnchangedKeeps == IInv /\ UNCHANGED vars => Kept
<1> SUFFICES ASSUME IInv, UNCHANGED vars PROVE Kept
  OBVIOUS
<1>1. Globals /\ StackInv /\ AllSockets
  BY PartsOfIInv
<1>2. /\ UNCHANGED StateOfSockets /\ crashed' = crashed /\ MayCount
      /\ dispatchers_' = dispatchers_ /\ stack' = stack /\ sock' = sock /\ peer' = peer
  BY DEF vars, StateOfSockets, wire, app, MayCount
<1>3. SamePending(stack, stack')
  BY <1>2 DEF SamePending
<1>4. ops' \in 0 .. MaxOps /\ ops <= ops'
  BY <1>1, <1>2, OpsKept
<1>5. Globals' /\ AllSockets'
  BY <1>1, <1>2, <1>3, <1>4, QuietStep DEF Globals
<1>6. FramesOK(stack') /\ UrgentOK(stack', sock', peer')
  BY <1>1, <1>2 DEF StackInv
<1>7. QED
  BY <1>5, <1>6 DEF Kept

LEMMA HandlerKeeps ==
  ASSUME IInv, NEW s \in Sockets, Handler(s)
  PROVE  Kept
<1>1. CASE ErrorEvent(s)
  BY <1>1, ErrorEventKeeps
<1>2. CASE WriteComplete(s)
  BY <1>2, WriteCompleteKeeps
<1>3. CASE WriteMore(s)
  BY <1>3, WriteMoreKeeps
<1>4. CASE ReadData(s)
  BY <1>4, ReadDataKeeps
<1>5. CASE ReadEnd(s)
  BY <1>5, ReadEndKeeps
<1>6. CASE ReadNothing(s)
  BY <1>6, ReadNothingKeeps
<1>7. CASE EndEvent(s)
  BY <1>7, EndEventKeeps
<1>8. CASE KeepBytes(s)
  BY <1>8, KeepBytesKeeps
<1>9. CASE DeliverPacket(s)
  BY <1>9, DeliverPacketKeeps
<1>10. CASE BadHeader(s)
  BY <1>10, BadHeaderKeepsAll
<1>11. CASE StopAnalysis(s)
  BY <1>11, StopAnalysisKeeps
<1>12. QED
  BY <1>1, <1>2, <1>3, <1>4, <1>5, <1>6, <1>7, <1>8, <1>9, <1>10, <1>11 DEF Handler

LEMMA LoopKeeps ==
  ASSUME IInv, Loop
  PROVE  Kept
<1>1. CASE Dispatch
  BY <1>1, DispatchKeeps
<1>2. CASE WaitReturns
  BY <1>2, WaitReturnsKeeps
<1>3. CASE InvalidIterator
  BY <1>3, InvalidIteratorKeeps
<1>4. CASE Finish
  BY <1>4, FinishKeeps
<1>5. ASSUME NEW wr, GetWaits(wr) PROVE Kept
  BY <1>5, GetWaitsKeeps
<1>6. ASSUME NEW wr, SelectAgain(wr) PROVE Kept
  BY <1>6, SelectAgainKeeps
<1>7. QED
  BY <1>1, <1>2, <1>3, <1>4, <1>5, <1>6 DEF Loop

LEMMA UserKeeps ==
  ASSUME IInv, User
  PROVE  Kept
<1>1. ASSUME NEW s \in Sockets, AsyncWritePacket(s) PROVE Kept
  BY <1>1, AsyncWritePacketKeeps
<1>2. ASSUME NEW s \in Sockets, AsyncRead(s) PROVE Kept
  BY <1>2, AsyncReadKeeps
<1>3. ASSUME NEW s \in Sockets, Close(s) PROVE Kept
  BY <1>3, CloseKeeps
<1>4. ASSUME NEW wr, WaitInside(wr) PROVE Kept
  BY <1>4, WaitInsideKeeps
<1>5. QED
  BY <1>1, <1>2, <1>3, <1>4 DEF User

LEMMA NextIInv == IInv /\ [Next]_vars => IInv'
<1> SUFFICES ASSUME IInv, [Next]_vars PROVE IInv'
  OBVIOUS
<1>1. ASSUME NEW s \in Sockets, Handler(s) PROVE Kept
  BY <1>1, HandlerKeeps
<1>2. ASSUME Loop PROVE Kept
  BY <1>2, LoopKeeps
<1>3. ASSUME User PROVE Kept
  BY <1>3, UserKeeps
<1>4. ASSUME NEW s \in Sockets, Arrive(s) PROVE Kept
  BY <1>4, ArriveKeeps
<1>5. ASSUME NEW s \in Sockets, NEW how \in {"eof", "reset"}, PeerGoes(s, how) PROVE Kept
  BY <1>5, PeerGoesKeeps
<1>6. ASSUME UNCHANGED vars PROVE Kept
  BY <1>6, UnchangedKeeps
<1>7. Kept
  BY <1>1, <1>2, <1>3, <1>4, <1>5, <1>6 DEF Next, Thread
<1>8. GoodStack(stack')
  BY NextKeepsGood DEF IInv
<1>9. QED
  BY <1>7, <1>8 DEF Kept, IInv, Globals, AllSockets, GoodStack, IsStack, GoodFrames,
        LowerOnesNested, FramesOK, UrgentOK

LEMMA InvariantHolds == BodiesFit /\ Spec => []IInv
<1>1. BodiesFit /\ Init => IInv
  BY InitIInv
<1>2. IInv /\ [Next]_vars => IInv'
  BY NextIInv
<1>3. QED
  BY <1>1, <1>2, PTL DEF Spec

-----------------------------------------------------------------------------
(* What the invariant implies. *)

LEMMA BufferIsTyped ==
  ASSUME NEW S, NEW buf, buf \in Buffers(S)
  PROVE  IsBuffer(buf, S)
<1> DEFINE b == buf.blocks_
<1>1. b \in Seq(Seq(S)) /\ buf.size_ \in Nat
  BY BytesTyped
<1>2. DOMAIN b = 1 .. Len(b) /\ \A i \in 1 .. Len(b) : b[i] \in Seq(S)
  BY <1>1, LenProperties, ElementOfSeq
<1>3. \A i \in DOMAIN b : Range(b[i]) \subseteq S
  BY <1>2, RangeOfSeq
<1>4. QED
  BY <1>1, <1>3 DEF IsBuffer

LEMMA SocketIsTyped ==
  ASSUME NEW k, NEW plan, NEW flt, NEW dlv, NEW tk, NEW pend, NEW snt, NEW wrt, NEW arr,
         NEW pr, NEW fl, SocketOK(k, plan, flt, dlv, tk, pend, snt, wrt, arr, pr, fl)
  PROVE  /\ k.enabled_events_ \subseteq {DE_READ, DE_WRITE, DE_CLOSE}
         /\ {k.open, k.socket_writeable_} \subseteq BOOLEAN
         /\ IsBuffer(k.write_buffers_, OutBytes)
         /\ Range(k.encode_buffer_) \subseteq OutBytes
         /\ "split" \notin flt =>
              /\ IsBuffer(k.recv_buff_, BytesOf(plan))
              /\ \A i \in DOMAIN pend : IsBuffer(pend[i], BytesOf(plan))
         /\ tk \in 0 .. arr /\ arr \in 0 .. Len(StreamBytes(plan))
         /\ pr \in {"open", "eof", "reset"}
         /\ fl \in 0 .. 1 /\ flt \subseteq Faults
<1>1. SockOK(k) /\ ReceivedOK(k.recv_buff_, plan, flt, pend)
      /\ WireOK(plan, arr, tk, pr, fl, flt, k.open)
  BY DEF SocketOK
<1>2. /\ k.open \in BOOLEAN /\ k.socket_writeable_ \in BOOLEAN
      /\ k.enabled_events_ \subseteq {DE_READ, DE_WRITE, DE_CLOSE}
      /\ k.write_buffers_ \in Buffers(OutBytes) /\ k.encode_buffer_ \in Seq(OutBytes)
  BY <1>1 DEF SockOK
<1>3. IsBuffer(k.write_buffers_, OutBytes) /\ Range(k.encode_buffer_) \subseteq OutBytes
  BY <1>2, BufferIsTyped, RangeOfSeq
<1>4. ASSUME "split" \notin flt
      PROVE  /\ IsBuffer(k.recv_buff_, BytesOf(plan))
             /\ \A i \in DOMAIN pend : IsBuffer(pend[i], BytesOf(plan))
  <2>1. /\ k.recv_buff_ \in Buffers(BytesOf(plan))
        /\ \A i \in DOMAIN pend : pend[i] \in Buffers(BytesOf(plan))
    BY <1>1, <1>4 DEF ReceivedOK, PendingOK, IsExact
  <2>2. QED
    BY <2>1, BufferIsTyped
<1>5. /\ tk \in Nat /\ arr \in Nat /\ tk <= arr /\ arr <= Len(StreamBytes(plan))
      /\ plan \in Seq(Nat)
      /\ pr \in {"open", "eof", "reset"} /\ fl \in 0 .. 1 /\ flt \subseteq Faults
  BY <1>1 DEF WireOK
<1>6. tk \in 0 .. arr
  BY <1>5
<1>7. arr \in 0 .. Len(StreamBytes(plan))
  <2>1. StreamBytes(plan) \in Seq(BytesOf(plan))
    BY <1>5, StreamTyped
  <2> DEFINE n == Len(StreamBytes(plan))
  <2>2. n \in Nat /\ arr \in Nat /\ arr <= n
    BY <1>5, <2>1, LenProperties
  <2> HIDE DEF n
  <2>3. arr \in 0 .. n
    BY <2>2
  <2>4. QED
    BY <2>3 DEF n
<1>8. QED
  BY <1>2, <1>3, <1>4, <1>5, <1>6, <1>7

LEMMA IInvTypes == IInv => TypeOK
<1> SUFFICES ASSUME IInv PROVE TypeOK
  OBVIOUS
<1>1. Globals /\ StackInv /\ AllSockets
  BY PartsOfIInv
<1>2. Range(dispatchers_) \subseteq Sockets /\ IsInjective(dispatchers_) /\ crashed \in BOOLEAN
  BY <1>1, RangeOfSeq DEF Globals, ListOK
<1>3. ASSUME NEW s \in Sockets
      PROVE  /\ sock[s].enabled_events_ \subseteq {DE_READ, DE_WRITE, DE_CLOSE}
             /\ {sock[s].open, sock[s].socket_writeable_} \subseteq BOOLEAN
             /\ IsBuffer(sock[s].write_buffers_, OutBytes)
             /\ Range(sock[s].encode_buffer_) \subseteq OutBytes
             /\ "split" \notin faults[s] =>
                  /\ IsBuffer(sock[s].recv_buff_, ByteSet(s))
                  /\ \A i \in DOMAIN Pending(stack, s) : IsBuffer(Pending(stack, s)[i], ByteSet(s))
             /\ taken[s] \in 0 .. arrived[s] /\ arrived[s] \in 0 .. Len(Incoming(s))
             /\ peer[s] \in {"open", "eof", "reset"}
             /\ failures[s] \in 0 .. 1
             /\ faults[s] \subseteq Faults
  <2>1. SocketInv(s)
    BY <1>1 DEF AllSockets
  <2>2. ByteSet(s) = BytesOf(sizes[s]) /\ Incoming(s) = StreamBytes(sizes[s])
    BY DEF ByteSet, BytesOf, Incoming
  <2>3. QED
    BY <2>1, <2>2, SocketIsTyped DEF SocketInv
<1>4. ASSUME NEW i \in DOMAIN stack
      PROVE  \/ stack[i].at = "wait" /\ stack[i].iter \in Sockets \union {None}
             \/ stack[i].at = "event" /\ stack[i].s \in Sockets /\ stack[i].ff \subseteq {DE_READ, DE_WRITE, "error"}
             \/ /\ stack[i].at = "analysis" /\ stack[i].s \in Sockets
                /\ "split" \notin faults[stack[i].s]
                     => IsBuffer(stack[i].buffer, ByteSet(stack[i].s))
             \/ stack[i] = RunFrame
  <2>1. FrameOK(stack[i])
    BY <1>1 DEF StackInv, FramesOK
  <2>2. CASE stack[i].at = "analysis" /\ stack[i].s \in Sockets
    <3> DEFINE s == stack[i].s
    <3>1. i \in PendingAt(stack, s)
      BY <2>2 DEF PendingAt, IsAnalysis
    <3>2. i \in DOMAIN Pending(stack, s) /\ Pending(stack, s)[i] = stack[i].buffer
      BY <3>1 DEF Pending
    <3>3. "split" \notin faults[s] => IsBuffer(Pending(stack, s)[i], ByteSet(s))
      BY <1>3, <2>2, <3>2
    <3>4. QED
      BY <2>2, <3>2, <3>3
  <2>3. CASE stack[i].at = "event" /\ stack[i].s \in Sockets
             /\ (stack[i].ff = {"error"} \/ stack[i].ff \subseteq {DE_READ, DE_WRITE})
    BY <2>3
  <2>4. QED
    BY <2>1, <2>2, <2>3 DEF FrameOK
<1>5. QED
  BY <1>2, <1>3, <1>4 DEF TypeOK

LEMMA IInvNothingLost == IInv => NothingLostAtEnd
<1> SUFFICES ASSUME IInv, NEW s \in Sockets,
                    peer[s] = "eof" /\ failures[s] > 0 /\ faults[s] = {}
             PROVE  Len(delivered[s]) = Complete(s)
  BY DEF NothingLostAtEnd
<1>1. EndOK(sizes[s], arrived[s], peer[s], failures[s], faults[s], delivered[s])
  BY PartsOfIInv DEF AllSockets, SocketInv, SocketOK
<1>2. Complete(s) = CompleteOf(sizes[s], arrived[s])
  BY DEF Complete, CompleteOf, Upto
<1>3. QED
  BY <1>1, <1>2 DEF EndOK

(* Every variable of the select loop holds a value the code could hold.     *)
THEOREM TypesHold == BodiesFit /\ Spec => []TypeOK
<1>1. BodiesFit /\ Spec => []IInv
  BY InvariantHolds
<1>2. IInv => TypeOK
  BY IInvTypes
<1>3. QED
  BY <1>1, <1>2, PTL

(* When the end of the stream is reported to the application of a          *)
(* connection without faults, every packet that arrived whole was          *)
(* delivered before, however its bytes were cut into reads, blocks and     *)
(* packets, and whatever callbacks did meanwhile: the end is found by a    *)
(* read of its own, after all that earlier reads brought was analysed.     *)
THEOREM NothingIsLost == BodiesFit /\ Spec => []NothingLostAtEnd
<1>1. BodiesFit /\ Spec => []IInv
  BY InvariantHolds
<1>2. IInv => NothingLostAtEnd
  BY IInvNothingLost
<1>3. QED
  BY <1>1, <1>2, PTL

-----------------------------------------------------------------------------
(* Connections as channels. *)

(* What of the state the channel sees. *)
OpenOf == [r \in Sockets |-> sock[r].open]
GoneOf == {r \in Sockets : peer[r] # "open"}
FaultyOf == {r \in Sockets : faults[r] \intersect {"split", "nested"} # {}}

LEMMA SameBytes ==
  /\ \A n : Channel!Outgoing(n) = Outgoing(n)
  /\ \A p, n : Channel!Body(p, n) = Body(p, n)
<1>1. \A p, n : Channel!PacketBytes(p, n) = PacketBytes(p, n)
  BY DEF Channel!PacketBytes, PacketBytes
<1>2. \A p, n : Channel!Body(p, n) = Body(p, n)
  BY <1>1 DEF Channel!Body, Body
<1>3. \A f : Channel!FlattenSeq(f) = FlattenSeq(f)
  BY Zenon DEF Channel!FlattenSeq, FlattenSeq
<1>4. ASSUME NEW plan PROVE Channel!StreamBytes(plan) = StreamBytes(plan)
  <2> DEFINE f == [p \in 1 .. Len(plan) |-> Channel!PacketBytes(p, plan[p])]
             g == [p \in 1 .. Len(plan) |-> PacketBytes(p, plan[p])]
  <2>1. f = g
    <3>1. DOMAIN f = DOMAIN g /\ \A p \in DOMAIN f : f[p] = g[p]
      BY <1>1
    <3>2. QED
      BY <1>1, Zenon
  <2>2. Channel!StreamBytes(plan) = Channel!FlattenSeq(f) /\ StreamBytes(plan) = FlattenSeq(g)
    BY DEF Channel!StreamBytes, StreamBytes
  <2> HIDE DEF f, g
  <2>3. QED
    BY <1>3, <2>1, <2>2
<1>5. \A n : Channel!Outgoing(n) = Outgoing(n)
  BY <1>4 DEF Channel!Outgoing, Outgoing
<1>6. QED
  BY <1>2, <1>5

LEMMA ViewMoves ==
  ASSUME NEW s \in Sockets, DOMAIN sock = Sockets, DOMAIN faults = Sockets
  PROVE  /\ Only(sock, sock', s) => OpenOf' = [OpenOf EXCEPT ![s] = sock'[s].open]
         /\ Only(sock, sock', s) /\ sock'[s].open = sock[s].open => OpenOf' = OpenOf
         /\ sock' = sock => OpenOf' = OpenOf
         /\ peer' = peer => GoneOf' = GoneOf
         /\ faults' = faults => FaultyOf' = FaultyOf
         /\ Only(faults, faults', s) /\ (Faulty(faults'[s]) <=> Faulty(faults[s]))
              => FaultyOf' = FaultyOf
         /\ Only(faults, faults', s) /\ Faulty(faults'[s]) => FaultyOf' = FaultyOf \union {s}
<1>1. \A f : Faulty(f) <=> f \intersect {"split", "nested"} # {}
  BY DEF Faulty
<1>2. Only(sock, sock', s) => OpenOf' = [OpenOf EXCEPT ![s] = sock'[s].open]
  BY DEF Only, OpenOf
<1>3. Only(sock, sock', s) /\ sock'[s].open = sock[s].open => OpenOf' = OpenOf
  BY DEF Only, OpenOf
<1>4. FaultyOf = {r \in Sockets : Faulty(faults[r])} /\ FaultyOf' = {r \in Sockets : Faulty(faults'[r])}
  BY <1>1 DEF FaultyOf
<1>5. Only(faults, faults', s) /\ (Faulty(faults'[s]) <=> Faulty(faults[s])) => FaultyOf' = FaultyOf
  BY <1>4 DEF Only
<1>6. Only(faults, faults', s) /\ Faulty(faults'[s]) => FaultyOf' = FaultyOf \union {s}
  BY <1>4 DEF Only
<1>7. QED
  BY <1>2, <1>3, <1>5, <1>6 DEF OpenOf, GoneOf, FaultyOf

(* nothing that the channel sees changes *)
Unseen ==
  /\ UNCHANGED <<sizes, delivered, written, sent, failures>>
  /\ OpenOf' = OpenOf /\ GoneOf' = GoneOf /\ FaultyOf' = FaultyOf

LEMMA UnseenStutters == Unseen => UNCHANGED Channel!vars
BY DEF Unseen, Channel!vars, OpenOf, GoneOf, FaultyOf

(* the channel sees a step of connection s only *)
SeenOnly(s) ==
  /\ sizes' = sizes /\ peer' = peer
  /\ Only(sock, sock', s) /\ Only(faults, faults', s) /\ Only(delivered, delivered', s)
  /\ Only(written, written', s) /\ Only(sent, sent', s) /\ Only(failures, failures', s)

LEMMA Misbehaves ==
  ASSUME NEW s \in Sockets, DOMAIN sock = Sockets, DOMAIN faults = Sockets,
         SeenOnly(s), Faulty(faults'[s])
  PROVE  Channel!Misbehave(s)
<1>1. FaultyOf' = FaultyOf \union {s} /\ GoneOf' = GoneOf
  BY ViewMoves DEF SeenOnly
<1>2. sizes' = sizes
  BY DEF SeenOnly
<1>3. ASSUME NEW r \in Sockets \ {s}
      PROVE  /\ delivered'[r] = delivered[r] /\ written'[r] = written[r] /\ sent'[r] = sent[r]
             /\ OpenOf'[r] = OpenOf[r] /\ failures'[r] = failures[r]
  BY DEF SeenOnly, Only, OpenOf
<1>4. QED
  BY <1>1, <1>2, <1>3 DEF Channel!Misbehave, OpenOf, GoneOf, FaultyOf

LEMMA Fails ==
  ASSUME NEW s \in Sockets, DOMAIN sock = Sockets, DOMAIN faults = Sockets,
         NEW frame, Fail(s, frame), sock[s].open, peer[s] # "open", peer' = peer, sizes' = sizes,
         sent' = sent, FaultyOf' = FaultyOf
  PROVE  Channel!Fail(s)
<1>1. /\ sock' = [sock EXCEPT ![s] = Closed(@)]
      /\ failures' = [failures EXCEPT ![s] = @ + 1]
      /\ UNCHANGED <<written, delivered>>
  BY DEF Fail
<1>2. Only(sock, sock', s) /\ sock'[s] = Closed(sock[s])
  BY <1>1, OnlyOne
<1>3. OpenOf' = [OpenOf EXCEPT ![s] = sock'[s].open] /\ GoneOf' = GoneOf
  BY <1>2, ViewMoves
<1>4. sock'[s].open = FALSE
  BY <1>2 DEF Closed
<1>5. OpenOf[s] /\ s \in GoneOf
  BY DEF OpenOf, GoneOf
<1>6. OpenOf' = [OpenOf EXCEPT ![s] = FALSE]
  BY <1>3, <1>4
<1>7. QED
  BY <1>1, <1>3, <1>5, <1>6 DEF Channel!Fail, OpenOf, GoneOf, FaultyOf

(* What the kernel took is a prefix of what was written. *)
LEMMA Transmits ==
  ASSUME NEW s \in Sockets, NEW n, DOMAIN sent = Sockets,
         sent' = [sent EXCEPT ![s] = sent'[s]],
         OutputOK(sock'[s], sent'[s], n), SockOK(sock'[s]), sock'[s].open,
         Len(sent[s]) \in Nat, Len(sent[s]) <= Len(sent'[s])
  PROVE  Channel!Transmit(s, n)
<1> DEFINE k == sock'[s]
           snt == sent'[s]
           u == Unsent(k)
           out == Outgoing(n)
<1>1. snt \in Seq(OutBytes) /\ snt \o u = out
  BY DEF OutputOK
<1>2. u \in Seq(OutBytes)
  BY PartsOf
<1> HIDE DEF k, snt, u, out
<1>3. /\ Len(snt) \in Nat /\ Len(u) \in Nat
      /\ Len(snt \o u) = Len(snt) + Len(u)
      /\ SubSeq(snt \o u, 1, Len(snt)) = snt
  BY <1>1, <1>2, CutAtJoint
<1>4. SubSeq(out, 1, Len(snt)) = snt
  BY <1>1, <1>3
<1>5. Len(out) = Len(snt) + Len(u)
  BY <1>1, <1>3
<1> DEFINE i == Len(snt)
           m == Len(out)
           l == Len(sent[s])
<1>6. i \in Nat /\ m \in Nat /\ i <= m /\ l \in Nat /\ l <= i
  BY <1>3, <1>5 DEF snt
<1> HIDE DEF i, m, l
<1>7. i \in l .. m
  BY <1>6
<1>8. sent' = [sent EXCEPT ![s] = SubSeq(out, 1, i)]
  <2>1. sent' = [sent EXCEPT ![s] = snt]
    BY DEF snt
  <2>2. QED
    BY <2>1, <1>4 DEF i
<1>9. out = Channel!Outgoing(n)
  BY SameBytes DEF out
<1>10. QED
  BY <1>7, <1>8, <1>9 DEF Channel!Transmit, l, m

-----------------------------------------------------------------------------
LEMMA InvFacts ==
  ASSUME IInv
  PROVE  /\ DOMAIN sock = Sockets /\ DOMAIN faults = Sockets /\ DOMAIN sent = Sockets
         /\ DOMAIN written = Sockets
         /\ FunctionsOK /\ StackInv
         /\ \A s \in Sockets : /\ SockOK(sock[s]) /\ OutputOK(sock[s], sent[s], written[s])
                               /\ sent[s] \in Seq(OutBytes) /\ Len(sent[s]) \in Nat
<1>1. FunctionsOK /\ AllSockets /\ StackInv
  BY PartsOfIInv DEF Globals
<1>2. ASSUME NEW s \in Sockets
      PROVE  /\ SockOK(sock[s]) /\ OutputOK(sock[s], sent[s], written[s])
             /\ sent[s] \in Seq(OutBytes)
  BY <1>1 DEF AllSockets, SocketInv, SocketOK, OutputOK
<1>3. \A s \in Sockets : Len(sent[s]) \in Nat
  BY <1>2, LenProperties
<1>4. QED
  BY <1>1, <1>2, <1>3 DEF FunctionsOK

(* Steps that the channel does not see. *)
LEMMA QuietIsUnseen ==
  ASSUME UNCHANGED <<sizes, delivered, written, sent, failures, peer, sock, faults>>
  PROVE  Unseen
BY DEF Unseen, OpenOf, GoneOf, FaultyOf

LEMMA LoopIsUnseen ==
  ASSUME Loop
  PROVE  Unseen
<1>1. UNCHANGED <<sizes, delivered, written, sent, failures, peer, sock, faults>>
  BY DEF Loop, Dispatch, WaitReturns, InvalidIterator, Finish, GetWaits, SelectAgain, wire, app
<1>2. QED
  BY <1>1, QuietIsUnseen

(* steps of one connection that leave what the channel sees of it *)
LEMMA SocketStepUnseen ==
  ASSUME IInv, NEW s \in Sockets, NEW k,
         UNCHANGED <<sizes, delivered, written, sent, failures, peer>>,
         sock' = [sock EXCEPT ![s] = k], k.open = sock[s].open,
         Only(faults, faults', s), Faulty(faults'[s]) <=> Faulty(faults[s])
  PROVE  Unseen
<1>1. Only(sock, sock', s) /\ sock'[s] = k
  BY OnlyOne, InvFacts
<1>2. OpenOf' = OpenOf /\ FaultyOf' = FaultyOf /\ GoneOf' = GoneOf
  BY <1>1, InvFacts, ViewMoves
<1>3. QED
  BY <1>2 DEF Unseen

LEMMA OpenStays ==
  ASSUME NEW k, SockOK(k)
  PROVE  /\ \A e : Enable(k, e).open = k.open /\ Disable(k, e).open = k.open
         /\ \A e : [Disable(k, e) EXCEPT !.socket_writeable_ = TRUE].open = k.open
         /\ \A e, b : [Enable(k, e) EXCEPT !.recv_buff_ = b].open = k.open
BY DEF Enable, Disable, SockOK, Shape, FieldNames

LEMMA AsyncReadIsUnseen ==
  ASSUME IInv, NEW s \in Sockets, AsyncRead(s)
  PROVE  Unseen
<1>1. /\ sock' = [sock EXCEPT ![s] = Enable(sock[s], DE_READ)]
      /\ UNCHANGED <<sizes, delivered, written, sent, failures, peer, faults>>
  BY DEF AsyncRead, wire, app
<1>2. Enable(sock[s], DE_READ).open = sock[s].open
  BY InvFacts, OpenStays
<1>3. Only(faults, faults', s)
  BY <1>1, OnlyOne
<1>4. QED
  BY <1>1, <1>2, <1>3, SocketStepUnseen

LEMMA WriteCompleteIsUnseen ==
  ASSUME IInv, NEW s \in Sockets, WriteComplete(s)
  PROVE  Unseen
<1> DEFINE k == [Disable(sock[s], DE_WRITE) EXCEPT !.socket_writeable_ = TRUE]
<1>1. /\ sock' = [sock EXCEPT ![s] = k]
      /\ UNCHANGED <<sizes, delivered, written, sent, failures, peer, faults>>
  BY DEF WriteComplete, wire, app
<1>2. k.open = sock[s].open
  BY InvFacts, OpenStays
<1>3. Only(faults, faults', s)
  BY <1>1, OnlyOne
<1> HIDE DEF k
<1>4. QED
  BY <1>1, <1>2, <1>3, SocketStepUnseen

LEMMA ReadNothingIsUnseen ==
  ASSUME IInv, NEW s \in Sockets, ReadNothing(s)
  PROVE  Unseen
<1> DEFINE k == Disable(sock[s], DE_READ)
           f == faults[s] \union {"starved"}
<1>1. /\ sock' = [sock EXCEPT ![s] = k] /\ faults' = [faults EXCEPT ![s] = f]
      /\ UNCHANGED <<sizes, delivered, written, sent, failures, peer>>
  BY DEF ReadNothing, wire, app
<1>2. k.open = sock[s].open
  BY InvFacts, OpenStays
<1>3. Only(faults, faults', s) /\ faults'[s] = f
  BY <1>1, InvFacts, OnlyOne
<1>4. Faulty(faults'[s]) <=> Faulty(faults[s])
  BY <1>3 DEF Faulty
<1> HIDE DEF k, f
<1>5. QED
  BY <1>1, <1>2, <1>3, <1>4, SocketStepUnseen

LEMMA KeepBytesIsUnseen ==
  ASSUME IInv, NEW s \in Sockets, KeepBytes(s)
  PROVE  Unseen
<1> DEFINE b == AppendBuffer(sock[s].recv_buff_, Top.buffer)
           k == [Enable(sock[s], DE_READ) EXCEPT !.recv_buff_ = b]
<1>1. /\ sock' = [sock EXCEPT ![s] = [Enable(@, DE_READ) EXCEPT !.recv_buff_ = b]]
      /\ UNCHANGED <<sizes, delivered, written, sent, failures, peer, faults>>
  BY DEF KeepBytes, wire, app
<1> HIDE DEF b
<1>2. sock' = [sock EXCEPT ![s] = k]
  BY <1>1
<1>3. k.open = sock[s].open
  BY InvFacts, OpenStays
<1>4. Only(faults, faults', s)
  BY <1>1, OnlyOne
<1> HIDE DEF k
<1>5. QED
  BY <1>1, <1>2, <1>3, <1>4, SocketStepUnseen

-----------------------------------------------------------------------------
(* Steps of the channel. *)
LEMMA CloseIsClose ==
  ASSUME IInv, NEW s \in Sockets, Close(s)
  PROVE  Channel!Close(s)
<1>1. /\ sock' = [sock EXCEPT ![s] = Closed(sock[s])]
      /\ UNCHANGED <<sizes, delivered, written, sent, failures, peer, faults>>
  BY DEF Close, wire, app
<1>2. Only(sock, sock', s) /\ sock'[s] = Closed(sock[s])
  BY <1>1, InvFacts, OnlyOne
<1>3. sock'[s].open = FALSE
  BY <1>2, InvFacts DEF Closed, SockOK, Shape, FieldNames
<1>4. OpenOf' = [OpenOf EXCEPT ![s] = sock'[s].open] /\ FaultyOf' = FaultyOf /\ GoneOf' = GoneOf
  BY <1>1, <1>2, InvFacts, ViewMoves
<1>5. OpenOf' = [OpenOf EXCEPT ![s] = FALSE]
  BY <1>3, <1>4
<1>6. QED
  BY <1>1, <1>4, <1>5 DEF Channel!Close, OpenOf, GoneOf, FaultyOf

LEMMA PeerGoesIsPeerGone ==
  ASSUME IInv, NEW s \in Sockets, NEW how \in {"eof", "reset"}, PeerGoes(s, how)
  PROVE  Channel!PeerGone(s)
<1>1. /\ peer' = [peer EXCEPT ![s] = how]
      /\ UNCHANGED <<sizes, delivered, written, sent, failures, sock, faults>>
  BY DEF PeerGoes, app
<1>2. DOMAIN peer = Sockets /\ how # "open"
  BY InvFacts DEF FunctionsOK
<1>3. GoneOf' = GoneOf \union {s}
  BY <1>1, <1>2 DEF GoneOf
<1>4. OpenOf' = OpenOf /\ FaultyOf' = FaultyOf
  BY <1>1 DEF OpenOf, FaultyOf
<1>5. QED
  BY <1>1, <1>3, <1>4 DEF Channel!PeerGone, OpenOf, GoneOf, FaultyOf

LEMMA ErrorEventFails ==
  ASSUME IInv, NEW s \in Sockets, ErrorEvent(s)
  PROVE  Channel!Fail(s)
<1>1. /\ Handling(s) /\ Top.ff = {"error"} /\ Fail(s, EventFrame(s, {}))
      /\ UNCHANGED <<sizes, peer, sent, faults>>
  BY DEF ErrorEvent, wire
<1>2. stack # <<>> /\ Top.at = "event" /\ Top.s = s
  BY <1>1 DEF Handling, At
<1>3. Urgent(Top) /\ "error" \in Top.ff
  BY <1>1, <1>2 DEF Urgent
<1>4. sock[s].open /\ peer[s] = "reset"
  BY <1>2, <1>3, InvFacts, PopsCalmly
<1>5. FaultyOf' = FaultyOf
  BY <1>1 DEF FaultyOf
<1>6. QED
  BY <1>1, <1>4, <1>5, InvFacts, Fails

LEMMA ReadDataMaps ==
  ASSUME IInv, NEW s \in Sockets, ReadData(s)
  PROVE  Unseen \/ Channel!Misbehave(s)
<1> DEFINE k == Disable(sock[s], DE_READ)
           f == faults[s] \union Nested(s)
<1>1. /\ sock' = [sock EXCEPT ![s] = k] /\ faults' = [faults EXCEPT ![s] = f]
      /\ UNCHANGED <<sizes, delivered, written, sent, failures, peer>>
  BY DEF ReadData, wire, app
<1>2. k.open = sock[s].open
  BY InvFacts, OpenStays
<1>3. Faulty(faults[s]) => Faulty(f)
  BY DEF Faulty
<1> HIDE DEF k, f
<1>4. Only(faults, faults', s) /\ faults'[s] = f /\ SeenOnly(s)
  BY <1>1, InvFacts, OnlyOne DEF SeenOnly
<1>5. CASE Faulty(f) <=> Faulty(faults[s])
  BY <1>1, <1>2, <1>4, <1>5, SocketStepUnseen
<1>6. CASE Faulty(f)
  BY <1>4, <1>6, InvFacts, Misbehaves
<1>7. QED
  BY <1>3, <1>5, <1>6

LEMMA ReadEndMaps ==
  ASSUME IInv, NEW s \in Sockets, ReadEnd(s)
  PROVE  Channel!Fail(s) \/ Channel!Misbehave(s)
<1> DEFINE f == faults[s] \union Nested(s) \union (IF Received(s) = <<>> THEN {} ELSE {"dropped"})
<1>1. /\ Fail(s, EventFrame(s, {})) /\ sock[s].open /\ peer[s] # "open"
      /\ faults' = [faults EXCEPT ![s] = f]
      /\ UNCHANGED <<sizes, sent, peer>>
  BY DEF ReadEnd, ReadReady, MeetsEnd, wire
<1>2. Faulty(faults[s]) => Faulty(f)
  BY DEF Faulty
<1> HIDE DEF f
<1>3. Only(faults, faults', s) /\ faults'[s] = f
  BY <1>1, InvFacts, OnlyOne
<1>4. SeenOnly(s)
  BY <1>1, <1>3, InvFacts, OnlyOne DEF SeenOnly, Fail
<1>5. CASE Faulty(f) <=> Faulty(faults[s])
  <2>1. FaultyOf' = FaultyOf
    BY <1>3, <1>5, InvFacts, ViewMoves
  <2>2. QED
    BY <1>1, <2>1, InvFacts, Fails
<1>6. CASE Faulty(f)
  BY <1>3, <1>4, <1>6, InvFacts, Misbehaves
<1>7. QED
  BY <1>2, <1>5, <1>6

LEMMA DeliverMaps ==
  ASSUME IInv, NEW s \in Sockets, DeliverPacket(s)
  PROVE  Channel!Deliver(s) \/ Channel!Misbehave(s)
<1> DEFINE c == Len(delivered[s])
           body == Body(c + 1, sizes[s][c + 1])
<1>1. /\ StepOf(s) /\ sock[s].open /\ sock'[s].open = sock[s].open
      /\ ~Faulty(faults'[s]) => c < Len(sizes[s]) /\ delivered'[s] = Append(delivered[s], body)
  BY DeliverStep
<1>2. UNCHANGED <<sizes, sent, written, failures, peer>>
  BY DEF DeliverPacket, wire
<1>3. SeenOnly(s)
  BY <1>1, <1>2 DEF SeenOnly, StepOf
<1>4. CASE Faulty(faults'[s])
  BY <1>3, <1>4, InvFacts, Misbehaves
<1>5. CASE ~Faulty(faults'[s])
  <2>1. ~Faulty(faults[s])
    BY <1>5, InvFacts DEF DeliverPacket, Faulty, FunctionsOK
  <2>2. OpenOf' = OpenOf /\ GoneOf' = GoneOf /\ FaultyOf' = FaultyOf
    BY <1>1, <1>2, <1>3, <1>5, <2>1, InvFacts, ViewMoves DEF SeenOnly
  <2>3. delivered' = [delivered EXCEPT ![s] = Append(@, body)]
    <3>1. PICK x : delivered' = [delivered EXCEPT ![s] = x]
      BY DEF DeliverPacket
    <3>2. x = delivered'[s]
      BY <3>1, InvFacts DEF FunctionsOK
    <3> HIDE DEF c, body
    <3>3. QED
      BY <1>1, <1>5, <3>1, <3>2
  <2>4. body = Channel!Body(c + 1, sizes[s][c + 1])
    BY SameBytes
  <2>5. OpenOf[s]
    BY <1>1 DEF OpenOf
  <2>6. delivered' = [delivered EXCEPT ![s] = Append(@, Channel!Body(Len(@) + 1, sizes[s][Len(@) + 1]))]
    BY <2>3, <2>4
  <2>7. QED
    BY <1>1, <1>2, <1>5, <2>2, <2>5, <2>6 DEF Channel!Deliver, OpenOf, GoneOf, FaultyOf
<1>6. QED
  BY <1>4, <1>5

LEMMA BadHeaderMisbehaves ==
  ASSUME IInv, NEW s \in Sockets, BadHeader(s)
  PROVE  Channel!Misbehave(s)
<1>1. StepOf(s) /\ Faulty(faults[s])
  BY BadHeaderStep
<1>2. UNCHANGED <<sizes, peer, faults>>
  BY DEF BadHeader, wire
<1>3. SeenOnly(s) /\ Faulty(faults'[s])
  BY <1>1, <1>2 DEF SeenOnly, StepOf
<1>4. QED
  BY <1>3, InvFacts, Misbehaves

-----------------------------------------------------------------------------
(* Steps that send. *)

LEMMA TakenBounded ==
  ASSUME NEW k, SockOK(k), NEW n, n \in {0} \union Taken(k)
  PROVE  n \in 0 .. Len(Unsent(k))
<1>1. Unsent(k) \in Seq(OutBytes)
  BY PartsOf
<1>2. Len(Unsent(k)) \in Nat
  BY <1>1, LenProperties
<1>3. QED
  BY <1>2, NetworkServiceAssumption DEF Taken

LEMMA MoreIsSent ==
  ASSUME NEW snt, snt \in Seq(OutBytes), NEW u, u \in Seq(OutBytes), NEW n, n \in 0 .. Len(u)
  PROVE  Len(snt) <= Len(snt \o SubSeq(u, 1, n))
<1> DEFINE f == SubSeq(u, 1, n)
<1>1. f \in Seq(OutBytes)
  BY LenProperties
<1> HIDE DEF f
<1>2. Len(snt \o f) = Len(snt) + Len(f) /\ Len(snt) \in Nat /\ Len(f) \in Nat
  BY <1>1, CutAtJoint
<1>3. QED
  BY <1>2

(* sent is a function, which Only does not say *)
SentOK == sent = [s \in Sockets |-> sent[s]]

LEMMA WriteDataOpen ==
  ASSUME NEW k, SockOK(k), NEW n, n \in 0 .. Len(Unsent(k))
  PROVE  WriteData(k, n).open = k.open
<1>1. SockOK(Sending(k, n)) /\ Sending(k, n).open = k.open
  BY SendingLeaves DEF Sends
<1> DEFINE m == Sending(k, n)
<1> HIDE DEF m
<1>2. WriteData(k, n) = WaitToWriteData(m)
  BY DEF WriteData, m
<1>3. WaitToWriteData(m).open = m.open
  BY <1>1 DEF WaitToWriteData, Enable, SockOK, Shape, FieldNames, m
<1>4. QED
  BY <1>1, <1>2, <1>3 DEF m

LEMMA AsyncWriteMaps ==
  ASSUME IInv, IInv', SentOK, NEW s \in Sockets, AsyncWritePacket(s)
  PROVE  Channel!Write(s)
<1> DEFINE wrt == written[s] + 1
<1>1. /\ sock[s].open /\ written' = [written EXCEPT ![s] = wrt]
      /\ UNCHANGED <<sizes, delivered, failures, peer, faults>>
  BY DEF AsyncWritePacket, wire
<1>2. PICK packet :
        LET k == [sock[s] EXCEPT !.write_buffers_ = AppendBuffer(@, packet)]
        IN  /\ packet \in PacketBuffers(wrt, OutSize)
            /\ IF ~k.socket_writeable_
                 THEN /\ sock' = [sock EXCEPT ![s] = k]
                      /\ UNCHANGED <<dispatchers_, sent>>
                 ELSE \E n \in IF peer[s] = "reset" THEN {0} ELSE {0} \union Taken(k) :
                        /\ sock' = [sock EXCEPT ![s] = WriteData(k, n)]
                        /\ sent' = [sent EXCEPT ![s] = @ \o SubSeq(Unsent(k), 1, n)]
                        /\ dispatchers_' = Add(dispatchers_, s)
  BY DEF AsyncWritePacket
<1> DEFINE k == [sock[s] EXCEPT !.write_buffers_ = AppendBuffer(@, packet)]
<1>3. \/ sock' = [sock EXCEPT ![s] = k] /\ sent' = sent
      \/ \E n \in {0} \union Taken(k) :
           /\ sock' = [sock EXCEPT ![s] = WriteData(k, n)]
           /\ sent' = [sent EXCEPT ![s] = @ \o SubSeq(Unsent(k), 1, n)]
  BY <1>2
<1>4. /\ DOMAIN sock = Sockets /\ DOMAIN sent = Sockets /\ DOMAIN written = Sockets
      /\ sent[s] \in Seq(OutBytes) /\ Len(sent[s]) \in Nat
      /\ SockOK(sock'[s]) /\ OutputOK(sock'[s], sent'[s], written'[s])
  <2>1. /\ DOMAIN sock = Sockets /\ DOMAIN sent = Sockets /\ DOMAIN written = Sockets
        /\ sent[s] \in Seq(OutBytes) /\ Len(sent[s]) \in Nat
    BY InvFacts
  <2>2. AllSockets'
    BY PartsOfIInv DEF AllSockets, SocketInv, IInv
  <2>3. SockOK(sock'[s]) /\ OutputOK(sock'[s], sent'[s], written'[s])
    BY <2>2 DEF AllSockets, SocketInv, SocketOK
  <2>4. QED
    BY <2>1, <2>3
<1>5. SockOK(k) /\ k.open
  <2>1. written[s] + 1 \in 1 .. MaxOps
    <3>1. written[s] \in Nat
      BY InvFacts DEF OutputOK
    <3>2. MaxOps \in Nat
      BY NetworkServiceAssumption
    <3>3. written[s] <= ops /\ ops \in Nat /\ ops < MaxOps
      BY <3>2, PartsOfIInv DEF Globals, AsyncWritePacket, MayCall
    <3>4. QED
      BY <3>1, <3>2, <3>3
  <2>2. SocketOK(sock[s], sizes[s], faults[s], delivered[s], taken[s], Pending(stack, s),
                 sent[s], written[s], arrived[s], peer[s], failures[s])
    BY PartsOfIInv DEF AllSockets, SocketInv
  <2>3. packet \in PacketBuffers(written[s] + 1, OutSize)
    BY <1>2
  <2>4. SocketOK(k, sizes[s], faults[s], delivered[s], taken[s], Pending(stack, s),
                 sent[s], wrt, arrived[s], peer[s], failures[s])
    BY <1>1, <2>1, <2>2, <2>3, WritingKeeps
  <2>5. SockOK(k)
    BY <2>4 DEF SocketOK
  <2>6. k.open = sock[s].open
    BY InvFacts DEF SockOK, Shape, FieldNames
  <2>7. QED
    BY <1>1, <2>5, <2>6
<1> HIDE DEF k
<1>6. /\ sock'[s].open /\ Only(sock, sock', s)
      /\ sent' = [sent EXCEPT ![s] = sent'[s]] /\ Len(sent[s]) <= Len(sent'[s])
  <2>1. CASE sock' = [sock EXCEPT ![s] = k] /\ sent' = sent
    <3>1. sock'[s] = k /\ Only(sock, sock', s)
      BY <1>4, <2>1, OnlyOne
    <3>2. sent' = [sent EXCEPT ![s] = sent'[s]]
      BY <2>1 DEF SentOK
    <3>3. QED
      BY <1>4, <1>5, <2>1, <3>1, <3>2
  <2>2. ASSUME NEW n \in {0} \union Taken(k),
               sock' = [sock EXCEPT ![s] = WriteData(k, n)],
               sent' = [sent EXCEPT ![s] = @ \o SubSeq(Unsent(k), 1, n)]
        PROVE  /\ sock'[s].open /\ Only(sock, sock', s)
               /\ sent' = [sent EXCEPT ![s] = sent'[s]] /\ Len(sent[s]) <= Len(sent'[s])
    <3> DEFINE k2 == WriteData(k, n)
               snt == sent[s] \o SubSeq(Unsent(k), 1, n)
    <3>1. n \in 0 .. Len(Unsent(k)) /\ Unsent(k) \in Seq(OutBytes)
      BY <1>5, TakenBounded, PartsOf
    <3>2. k2.open = k.open
      BY <1>5, <3>1, WriteDataOpen
    <3>3. Len(sent[s]) <= Len(snt)
      BY <1>4, <3>1, MoreIsSent
    <3> HIDE DEF k2, snt
    <3>4. sock' = [sock EXCEPT ![s] = k2] /\ sent' = [sent EXCEPT ![s] = snt]
      BY <2>2 DEF k2, snt
    <3>5. sock'[s] = k2 /\ Only(sock, sock', s) /\ sent'[s] = snt
      BY <1>4, <3>4, OnlyOne
    <3>6. sent' = [sent EXCEPT ![s] = sent'[s]]
      BY <3>4, <3>5
    <3>7. QED
      BY <1>5, <3>2, <3>3, <3>5, <3>6
  <2>3. QED
    BY <1>3, <2>1, <2>2
<1>7. written'[s] = wrt
  BY <1>1, <1>4
<1>8. Channel!Transmit(s, written'[s])
  <2> DEFINE n == written'[s]
  <2>1. OutputOK(sock'[s], sent'[s], n)
    BY <1>4
  <2> HIDE DEF n
  <2>2. QED
    BY <1>4, <1>6, <2>1, Transmits DEF n
<1>9. OpenOf[s] /\ OpenOf' = OpenOf /\ GoneOf' = GoneOf /\ FaultyOf' = FaultyOf
  <2>1. OpenOf[s]
    BY <1>1 DEF OpenOf
  <2>2. DOMAIN faults = Sockets
    BY InvFacts
  <2>3. sock'[s].open = sock[s].open
    <3>1. sock'[s].open \in BOOLEAN /\ sock[s].open \in BOOLEAN
      BY <1>4, InvFacts DEF SockOK
    <3>2. QED
      BY <1>1, <1>6, <3>1
  <2>4. QED
    BY <1>1, <1>4, <1>6, <2>1, <2>2, <2>3, ViewMoves
<1>10. QED
  BY <1>1, <1>7, <1>8, <1>9 DEF Channel!Write, OpenOf, GoneOf, FaultyOf

LEMMA WriteMoreMaps ==
  ASSUME IInv, IInv', NEW s \in Sockets, WriteMore(s)
  PROVE  Channel!Flush(s) \/ Channel!Fail(s)
<1>1. Handling(s) /\ DE_WRITE \in Top.ff /\ UNCHANGED <<sizes, peer, faults>>
  BY DEF WriteMore, wire
<1>2. sock[s].open
  BY <1>1, InvFacts, WritingIsOpen
<1>3. FaultyOf' = FaultyOf
  BY <1>1 DEF FaultyOf
<1>4. CASE peer[s] = "reset"
  <2>1. Fail(s, EventFrame(s, {})) /\ sent' = sent
    BY <1>4 DEF WriteMore
  <2>2. QED
    BY <1>1, <1>2, <1>3, <1>4, <2>1, InvFacts, Fails
<1>5. CASE peer[s] # "reset"
  <2>1. UNCHANGED <<delivered, written, failures>>
    BY <1>5 DEF WriteMore, app
  <2>2. PICK n : /\ n \in TakenNow(s)
                 /\ sock' = [sock EXCEPT ![s] = WriteData(@, n)]
                 /\ sent' = [sent EXCEPT ![s] = @ \o SubSeq(Unsent(sock[s]), 1, n)]
    BY <1>5 DEF WriteMore
  <2> DEFINE k == sock[s]
             k2 == WriteData(k, n)
             snt == sent[s] \o SubSeq(Unsent(k), 1, n)
  <2>3. /\ DOMAIN sock = Sockets /\ DOMAIN sent = Sockets /\ DOMAIN faults = Sockets /\ SockOK(k)
        /\ sent[s] \in Seq(OutBytes) /\ Len(sent[s]) \in Nat
    BY InvFacts
  <2>4. SockOK(sock'[s]) /\ OutputOK(sock'[s], sent'[s], written'[s])
    <3>1. AllSockets'
      BY PartsOfIInv DEF AllSockets, SocketInv, IInv
    <3>2. QED
      BY <3>1 DEF AllSockets, SocketInv, SocketOK
  <2> HIDE DEF k
  <2>5. n \in 0 .. Len(Unsent(k)) /\ Unsent(k) \in Seq(OutBytes)
    BY <2>2, <2>3, TakenBounded, PartsOf DEF k, TakenNow
  <2>6. k2.open = k.open
    BY <2>3, <2>5, WriteDataOpen
  <2>7. Len(sent[s]) <= Len(snt)
    BY <2>3, <2>5, MoreIsSent
  <2> HIDE DEF k2, snt
  <2>8. sock' = [sock EXCEPT ![s] = k2] /\ sent' = [sent EXCEPT ![s] = snt]
    BY <2>2 DEF k, k2, snt
  <2>9. sock'[s] = k2 /\ Only(sock, sock', s) /\ sent'[s] = snt
    BY <2>3, <2>8, OnlyOne
  <2>10. /\ sent' = [sent EXCEPT ![s] = sent'[s]] /\ sock'[s].open = sock[s].open
         /\ Len(sent[s]) <= Len(sent'[s])
    BY <2>6, <2>7, <2>8, <2>9 DEF k
  <2>11. Channel!Transmit(s, written'[s])
    <3> DEFINE w == written'[s]
    <3>1. OutputOK(sock'[s], sent'[s], w) /\ sock'[s].open
      BY <1>2, <2>4, <2>10
    <3> HIDE DEF w
    <3>2. QED
      BY <2>3, <2>4, <2>10, <3>1, Transmits DEF w
  <2>12. OpenOf[s] /\ OpenOf' = OpenOf /\ GoneOf' = GoneOf
    <3>1. OpenOf[s]
      BY <1>2 DEF OpenOf
    <3>2. QED
      BY <1>1, <2>3, <2>9, <2>10, <3>1, ViewMoves
  <2>13. QED
    BY <1>1, <1>3, <2>1, <2>11, <2>12 DEF Channel!Flush, OpenOf, GoneOf, FaultyOf
<1>6. QED
  BY <1>4, <1>5

-----------------------------------------------------------------------------
LEMMA SentStays == IInv /\ SentOK /\ [Next]_vars => SentOK'
<1> SUFFICES ASSUME IInv, SentOK, [Next]_vars PROVE SentOK'
  OBVIOUS
<1>1. DOMAIN sent = Sockets
  BY InvFacts
<1>2. ASSUME NEW s \in Sockets, AsyncWritePacket(s) PROVE SentOK'
  <2>1. sent' = sent \/ \E x : sent' = [sent EXCEPT ![s] = x]
    BY <1>2 DEF AsyncWritePacket
  <2>2. QED
    BY <1>1, <2>1 DEF SentOK
<1>3. ASSUME NEW s \in Sockets, WriteMore(s) PROVE SentOK'
  <2>1. sent' = sent \/ \E x : sent' = [sent EXCEPT ![s] = x]
    BY <1>3 DEF WriteMore
  <2>2. QED
    BY <1>1, <2>1 DEF SentOK
<1>4. CASE sent' = sent
  BY <1>4 DEF SentOK
<1>5. ASSUME Loop PROVE sent' = sent
  BY <1>5, LoopIsUnseen DEF Unseen
<1>6. ASSUME NEW s \in Sockets, Handler(s), ~WriteMore(s) PROVE sent' = sent
  BY <1>6 DEF Handler, ErrorEvent, WriteComplete, ReadData, ReadEnd, ReadNothing, EndEvent,
              KeepBytes, DeliverPacket, BadHeader, StopAnalysis
<1>7. ASSUME User, \A s \in Sockets : ~AsyncWritePacket(s) PROVE sent' = sent
  BY <1>7 DEF User, AsyncRead, Close, WaitInside
<1>8. ASSUME NEW s \in Sockets, Arrive(s) \/ \E how \in {"eof", "reset"} : PeerGoes(s, how)
      PROVE  sent' = sent
  BY <1>8 DEF Arrive, PeerGoes
<1>9. ASSUME UNCHANGED vars PROVE sent' = sent
  BY <1>9 DEF vars
<1>10. QED
  BY <1>2, <1>3, <1>4, <1>5, <1>6, <1>7, <1>8, <1>9 DEF Next, Thread

LEMMA HandlerMaps ==
  ASSUME IInv, IInv', NEW s \in Sockets, Handler(s)
  PROVE  Channel!Next \/ Unseen
<1>1. CASE ErrorEvent(s)
  BY <1>1, ErrorEventFails DEF Channel!Next
<1>2. CASE WriteComplete(s)
  BY <1>2, WriteCompleteIsUnseen
<1>3. CASE WriteMore(s)
  BY <1>3, WriteMoreMaps DEF Channel!Next
<1>4. CASE ReadData(s)
  BY <1>4, ReadDataMaps DEF Channel!Next
<1>5. CASE ReadEnd(s)
  BY <1>5, ReadEndMaps DEF Channel!Next
<1>6. CASE ReadNothing(s)
  BY <1>6, ReadNothingIsUnseen
<1>7. CASE EndEvent(s) \/ StopAnalysis(s)
  <2>1. UNCHANGED <<sizes, delivered, written, sent, failures, peer, sock, faults>>
    BY <1>7 DEF EndEvent, StopAnalysis, wire, app
  <2>2. QED
    BY <2>1, QuietIsUnseen
<1>8. CASE KeepBytes(s)
  BY <1>8, KeepBytesIsUnseen
<1>9. CASE DeliverPacket(s)
  BY <1>9, DeliverMaps DEF Channel!Next
<1>10. CASE BadHeader(s)
  BY <1>10, BadHeaderMisbehaves DEF Channel!Next
<1>11. QED
  BY <1>1, <1>2, <1>3, <1>4, <1>5, <1>6, <1>7, <1>8, <1>9, <1>10 DEF Handler

LEMMA StepMapsToChannel ==
  IInv /\ IInv' /\ SentOK /\ [Next]_vars => [Channel!Next]_Channel!vars
<1> SUFFICES ASSUME IInv, IInv', SentOK, [Next]_vars PROVE Channel!Next \/ Unseen
  BY UnseenStutters
<1>1. ASSUME NEW s \in Sockets, Handler(s) PROVE Channel!Next \/ Unseen
  BY <1>1, HandlerMaps
<1>2. CASE Loop
  BY <1>2, LoopIsUnseen
<1>3. ASSUME NEW s \in Sockets, AsyncWritePacket(s) PROVE Channel!Next
  BY <1>3, AsyncWriteMaps DEF Channel!Next
<1>4. ASSUME NEW s \in Sockets, AsyncRead(s) PROVE Unseen
  BY <1>4, AsyncReadIsUnseen
<1>5. ASSUME NEW s \in Sockets, Close(s) PROVE Channel!Next
  BY <1>5, CloseIsClose DEF Channel!Next
<1>6. ASSUME NEW s \in Sockets, NEW how \in {"eof", "reset"}, PeerGoes(s, how) PROVE Channel!Next
  BY <1>6, PeerGoesIsPeerGone DEF Channel!Next
<1>7. ASSUME \/ \E wr \in SUBSET Sockets : WaitInside(wr)
             \/ \E s \in Sockets : Arrive(s)
             \/ UNCHANGED vars
      PROVE  Unseen
  <2>1. UNCHANGED <<sizes, delivered, written, sent, failures, peer, sock, faults>>
    BY <1>7 DEF WaitInside, Arrive, vars, wire, app
  <2>2. QED
    BY <2>1, QuietIsUnseen
<1>8. QED
  BY <1>1, <1>2, <1>3, <1>4, <1>5, <1>6, <1>7 DEF Next, Thread, User

LEMMA InitMapsToChannel == Init => Channel!Init /\ SentOK
<1> SUFFICES ASSUME Init PROVE Channel!Init /\ SentOK
  OBVIOUS
<1>1. OpenOf = [s \in Sockets |-> TRUE]
  BY DEF OpenOf, Init, ConnectedSocket
<1>2. GoneOf = {} /\ FaultyOf = {}
  BY DEF Init, GoneOf, FaultyOf
<1>3. SentOK
  BY DEF Init, SentOK
<1>4. QED
  BY <1>1, <1>2, <1>3 DEF Init, Channel!Init, OpenOf, GoneOf, FaultyOf

(* Packet connections over select implement the abstract channel: each     *)
(* step of the loop, of a handler, the application or a peer is a step of  *)
(* PacketChannel or one that it does not see. Packets are delivered whole, *)
(* once and in order; what goes out is a prefix of what was written; a     *)
(* connection fails once, and for cause; and a connection that misbehaves  *)
(* concerns no other.                                                      *)
THEOREM ConnectionsAreChannels == BodiesFit /\ Spec => ImplementsChannel
<1>1. BodiesFit /\ Spec => []IInv
  BY InvariantHolds
<1>2. Init => Channel!Init /\ SentOK
  BY InitMapsToChannel
<1>3. IInv /\ SentOK /\ [Next]_vars => SentOK'
  BY SentStays
<1>4. IInv /\ IInv' /\ SentOK /\ [Next]_vars => [Channel!Next]_Channel!vars
  BY StepMapsToChannel
<1>5. QED
  BY <1>1, <1>2, <1>3, <1>4, PTL DEF Spec, ImplementsChannel, Channel!Spec
=============================================================================
