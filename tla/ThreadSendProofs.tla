-------------------------- MODULE ThreadSendProofs --------------------------
(***************************************************************************)
(* Theorems about ThreadSend for any threads and any number of sends,      *)
(* posts, socket events, Clear and Quit calls.                             *)
(*                                                                         *)
(* ReadyMeansServed is not inductive: the answer of a send is given by a   *)
(* frame that lies below the handler while the handler runs, and below     *)
(* whatever the handler calls.  The invariant says so: a frame that is to  *)
(* answer is on top and its handler is done, or has the handler right on   *)
(* top of itself.  NoLostWakeup has an argument of its own, at the end.    *)
(***************************************************************************)
EXTENDS ThreadSend, SequenceLemmas, TLAPS

(* the frames a thread can have: one without a Thread is in Send only *)
Numbered == {"push", "wakepeer", "test", "receive", "answer", "wakesender"}

AnyFrame == [at: Places, id: 0 .. MaxSends, peer: Threads \union {None},
             waited: BOOLEAN]

FrameOf(t) ==
  {f \in AnyFrame : /\ f.at \in Numbered => f.id # 0
                    /\ t \in Loops \/ (f.at \in InSend /\ f.id # 0)}

Sends == [id: SendIds, from: Threads]

StackTypeOK ==
  /\ stack = [t \in Threads |-> stack[t]]
  /\ \A t \in Threads : stack[t] \in Seq(FrameOf(t))

ListTypeOK == sendlist_ \in [Loops -> Seq(Sends)]

CountTypeOK ==
  /\ count.sends \in 0 .. MaxSends
  /\ count.posts \in 0 .. MaxPosts
  /\ count = [sends |-> count.sends, posts |-> count.posts,
              events |-> count.events, clears |-> count.clears,
              stops |-> count.stops]
  /\ msgq_ \in [Loops -> 0 .. count.posts]

FlagTypeOK ==
  /\ has_sends_ \in [Loops -> BOOLEAN]
  /\ crit_ \in [Loops -> Loops \union {None}]
  /\ signaled_ \in [Threads -> BOOLEAN]
  /\ fWait_ \in [Threads -> BOOLEAN]
  /\ fStop_ \in [Loops -> BOOLEAN]
  /\ ready \in [SendIds -> BOOLEAN]
  /\ served \subseteq SendIds /\ cleared \subseteq SendIds

(* what a frame that is to answer knows of its send *)
Answers(st, done) ==
  \A k \in 1 .. Len(st) : st[k].at = "answer" =>
    IF k = Len(st) THEN st[k].id \in done
    ELSE st[k + 1].at = "run" /\ st[k + 1].id = st[k].id

AnswersFollow == \A t \in Threads : Answers(stack[t], served)

StackOK == StackTypeOK /\ AnswersFollow

-----------------------------------------------------------------------------
(* Stacks. *)
LEMMA BecomeType ==
  ASSUME NEW S, NEW st \in Seq(S), st # <<>>, NEW f \in S, NEW g \in S
  PROVE  /\ Append(Front(st), f) \in Seq(S)
         /\ Append(Append(Front(st), f), g) \in Seq(S)
BY FrontOfSeq, AppendToSeq

(* a call: the frame below does not answer, nor does the new one *)
LEMMA CallKeepsAnswers ==
  ASSUME NEW S, NEW st \in Seq(S), NEW f \in S, NEW done,
         Answers(st, done), f.at # "answer",
         st = <<>> \/ Last(st).at # "answer"
  PROVE  Answers(Append(st, f), done)
<1> DEFINE new == Append(st, f)
<1>1. /\ Len(st) \in Nat /\ Len(new) = Len(st) + 1
      /\ \A i \in 1 .. Len(st) : new[i] = st[i]
      /\ new[Len(st) + 1] = f
  BY AppendToSeq
<1>2. st # <<>> => Last(st) = st[Len(st)]
  BY FrontOfSeq
<1>3. st = <<>> => Len(st) = 0
  BY EmptySeq
<1> HIDE DEF new
<1>4. ASSUME NEW k \in 1 .. Len(new), new[k].at = "answer"
      PROVE  /\ k # Len(new)
             /\ new[k + 1].at = "run" /\ new[k + 1].id = new[k].id
  <2>1. k \in 1 .. Len(st) /\ new[k] = st[k]
    BY <1>1, <1>4
  <2>2. k # Len(st)
    BY <1>1, <1>2, <1>3, <1>4, <2>1
  <2>3. k + 1 \in 1 .. Len(st) /\ new[k + 1] = st[k + 1]
    BY <1>1, <2>1, <2>2
  <2>4. QED
    BY <1>1, <1>4, <2>1, <2>2, <2>3 DEF Answers
<1>5. Answers(new, done)
  BY <1>4 DEF Answers
<1>6. QED
  BY <1>5 DEF new

(* a return: a handler is done, or what returns is not a handler *)
LEMMA ReturnKeepsAnswers ==
  ASSUME NEW S, NEW st \in Seq(S), st # <<>>, NEW done, NEW more,
         Answers(st, done), done \subseteq more,
         Last(st).at = "run" =>
           /\ Last(st).id \in more \union {0}
           /\ \A k \in 1 .. Len(st) : st[k].at = "answer" => st[k].id # 0
  PROVE  Answers(Front(st), more)
<1> DEFINE new == Front(st)
<1>1. /\ Len(st) \in Nat \ {0} /\ Len(new) = Len(st) - 1
      /\ \A i \in 1 .. Len(st) - 1 : new[i] = st[i]
      /\ Last(st) = st[Len(st)]
  BY FrontOfSeq
<1> HIDE DEF new
<1>2. ASSUME NEW k \in 1 .. Len(new), new[k].at = "answer"
      PROVE  IF k = Len(new) THEN new[k].id \in more
             ELSE new[k + 1].at = "run" /\ new[k + 1].id = new[k].id
  <2>1. /\ k \in 1 .. Len(st) /\ k # Len(st)
        /\ new[k] = st[k] /\ k \in Nat
    BY <1>1
  <2>2. st[k + 1].at = "run" /\ st[k + 1].id = st[k].id
    BY <1>2, <2>1 DEF Answers
  <2>3. CASE k = Len(new)
    <3>1. st[k + 1] = Last(st)
      BY <1>1, <2>3
    <3>2. QED
      BY <1>2, <2>1, <2>2, <2>3, <3>1
  <2>4. CASE k # Len(new)
    <3>1. new[k + 1] = st[k + 1]
      BY <1>1, <2>1, <2>4
    <3>2. QED
      BY <2>1, <2>2, <2>4, <3>1
  <2>5. QED
    BY <2>3, <2>4
<1>3. Answers(new, more)
  BY <1>2 DEF Answers
<1>4. QED
  BY <1>3 DEF new

(* a frame that is no handler moves on to something that does not answer *)
LEMMA BecomeKeepsAnswers ==
  ASSUME NEW S, NEW st \in Seq(S), st # <<>>, NEW f \in S, NEW done,
         Answers(st, done), Last(st).at # "run", f.at # "answer"
  PROVE  Answers(Append(Front(st), f), done)
<1>1. Front(st) \in Seq(S) /\ Answers(Front(st), done)
  BY FrontOfSeq, ReturnKeepsAnswers
<1>2. Front(st) = <<>> \/ Last(Front(st)).at # "answer"
  <2>1. /\ Len(st) \in Nat \ {0} /\ Len(Front(st)) = Len(st) - 1
        /\ \A i \in 1 .. Len(st) - 1 : Front(st)[i] = st[i]
        /\ Last(st) = st[Len(st)]
    BY FrontOfSeq
  <2>2. SUFFICES ASSUME Front(st) # <<>> PROVE Last(Front(st)).at # "answer"
    OBVIOUS
  <2>3. /\ Len(Front(st)) \in Nat \ {0}
        /\ Last(Front(st)) = Front(st)[Len(Front(st))]
    BY <1>1, <2>2, FrontOfSeq
  <2>4. Last(Front(st)) = st[Len(st) - 1] /\ Len(st) - 1 \in 1 .. Len(st)
        /\ Len(st) - 1 # Len(st) /\ Len(st) - 1 + 1 = Len(st)
    BY <2>1, <2>3
  <2>5. QED
    BY <2>1, <2>4 DEF Answers
<1>3. QED
  BY <1>1, <1>2, CallKeepsAnswers

(* a send that is taken from the list: its handler over its answer *)
LEMMA ServeKeepsAnswers ==
  ASSUME NEW S, NEW st \in Seq(S), st # <<>>, NEW f \in S, NEW g \in S, NEW done,
         Answers(st, done), Last(st).at # "run",
         g.at = "run", f.id = g.id
  PROVE  Answers(Append(Append(Front(st), f), g), done)
<1> DEFINE new == Append(Append(Front(st), f), g)
<1>1. /\ Len(st) \in Nat \ {0}
      /\ Front(st) \in Seq(S) /\ Len(Front(st)) = Len(st) - 1
      /\ \A i \in 1 .. Len(st) - 1 : Front(st)[i] = st[i]
      /\ Last(st) = st[Len(st)]
  BY FrontOfSeq
<1>2. /\ Len(new) = Len(st) + 1
      /\ \A i \in 1 .. Len(st) - 1 : new[i] = st[i]
      /\ new[Len(st)] = f
      /\ new[Len(st) + 1] = g
  <2>1. /\ Append(Front(st), f) \in Seq(S)
        /\ Len(Append(Front(st), f)) = Len(st)
        /\ \A i \in 1 .. Len(st) - 1 : Append(Front(st), f)[i] = st[i]
        /\ Append(Front(st), f)[Len(st)] = f
    BY <1>1, AppendToSeq
  <2>2. /\ Len(new) = Len(st) + 1
        /\ \A i \in 1 .. Len(st) : new[i] = Append(Front(st), f)[i]
        /\ new[Len(st) + 1] = g
    BY <2>1, AppendToSeq
  <2>3. QED
    BY <1>1, <2>1, <2>2
<1> HIDE DEF new
<1>3. ASSUME NEW k \in 1 .. Len(new), new[k].at = "answer"
      PROVE  /\ k # Len(new)
             /\ new[k + 1].at = "run" /\ new[k + 1].id = new[k].id
  <2>1. k \in 1 .. Len(st)
    BY <1>1, <1>2, <1>3
  <2>2. CASE k = Len(st)
    BY <1>1, <1>2, <2>2
  <2>3. CASE k # Len(st)
    <3>1. k \in 1 .. Len(st) - 1 /\ new[k] = st[k] /\ k # Len(new)
      BY <1>1, <1>2, <2>1, <2>3
    <3>2. st[k + 1].at = "run" /\ st[k + 1].id = st[k].id
      BY <1>3, <2>1, <2>3, <3>1 DEF Answers
    <3>3. k + 1 # Len(st)
      BY <1>1, <3>2
    <3>4. new[k + 1] = st[k + 1]
      BY <1>1, <1>2, <3>1, <3>3
    <3>5. QED
      BY <3>1, <3>2, <3>4
  <2>4. QED
    BY <2>2, <2>3
<1>4. Answers(new, done)
  BY <1>3 DEF Answers
<1>5. QED
  BY <1>4 DEF new

-----------------------------------------------------------------------------
(* Frames. *)
LEMMA NewFrameType ==
  ASSUME NEW t \in Threads, NEW at \in Places, NEW id \in 0 .. MaxSends,
         NEW peer \in Threads \union {None},
         at \in Numbered => id # 0,
         t \in Loops \/ (at \in InSend /\ id # 0)
  PROVE  /\ Frame(at, id, peer) \in FrameOf(t)
         /\ Frame(at, id, peer).at = at /\ Frame(at, id, peer).id = id
BY DEF Frame, FrameOf, AnyFrame

LEMMA MovedType ==
  ASSUME NEW t \in Threads, NEW f \in FrameOf(t), NEW at \in Places,
         at \in Numbered => f.id # 0,
         t \in Loops \/ at \in InSend
  PROVE  Moved(f, at) \in FrameOf(t) /\ Moved(f, at).at = at
<1>1. Moved(f, at) \in AnyFrame
  BY DEF Moved, FrameOf, AnyFrame
<1>2. Moved(f, at).at = at /\ Moved(f, at).id = f.id
  BY DEF Moved, FrameOf, AnyFrame
<1>3. QED
  BY <1>1, <1>2 DEF FrameOf

LEMMA TopType ==
  ASSUME StackTypeOK, NEW t \in Threads, stack[t] # <<>>
  PROVE  /\ Top(t) \in FrameOf(t)
         /\ Top(t).at \in Places /\ Top(t).id \in 0 .. MaxSends
         /\ Top(t).peer \in Threads \union {None}
         /\ Top(t).at \in Numbered => Top(t).id \in SendIds
         /\ t \in Loops \/ (Top(t).at \in InSend /\ Top(t).id # 0)
<1>1. Top(t) \in FrameOf(t)
  BY FrontOfSeq DEF StackTypeOK, Top
<1>2. MaxSends \in Nat
  BY ThreadSendAssumption
<1>3. QED
  BY <1>1, <1>2 DEF FrameOf, AnyFrame, SendIds

-----------------------------------------------------------------------------
(* What a step does to the stack of its thread leaves all stacks in order. *)
LEMMA AnswersMonotonic ==
  ASSUME NEW st, NEW done, NEW more, Answers(st, done), done \subseteq more
  PROVE  Answers(st, more)
BY DEF Answers

LEMMA StackOfOne ==
  ASSUME StackOK, NEW t \in Threads, NEW new \in Seq(FrameOf(t)),
         stack' = [stack EXCEPT ![t] = new],
         served \subseteq served', Answers(new, served')
  PROVE  StackOK'
<1>1. /\ stack' = [u \in Threads |-> stack'[u]]
      /\ stack'[t] = new
      /\ \A u \in Threads \ {t} : stack'[u] = stack[u]
  BY DEF StackOK, StackTypeOK
<1>2. StackTypeOK'
  BY <1>1 DEF StackOK, StackTypeOK
<1>3. ASSUME NEW u \in Threads
      PROVE  Answers(stack'[u], served')
  <2>1. CASE u = t
    BY <1>1, <2>1
  <2>2. CASE u # t
    BY <1>1, <2>2, AnswersMonotonic DEF StackOK, AnswersFollow
  <2>3. QED
    BY <2>1, <2>2
<1>4. AnswersFollow'
  BY <1>3 DEF AnswersFollow
<1>5. QED
  BY <1>2, <1>4 DEF StackOK

LEMMA SameStacks ==
  ASSUME StackOK, UNCHANGED <<stack, served>>
  PROVE  StackOK'
BY DEF StackOK, StackTypeOK, AnswersFollow

LEMMA CallStack ==
  ASSUME StackOK, NEW t \in Threads, NEW f \in FrameOf(t), f.at # "answer",
         stack[t] = <<>> \/ Top(t).at # "answer",
         Call(t, f), served' = served
  PROVE  StackOK'
<1>1. stack[t] \in Seq(FrameOf(t)) /\ Answers(stack[t], served)
  BY DEF StackOK, StackTypeOK, AnswersFollow
<1>2. Append(stack[t], f) \in Seq(FrameOf(t))
  BY <1>1, AppendToSeq
<1>3. Answers(Append(stack[t], f), served')
  BY <1>1, CallKeepsAnswers DEF Top
<1>4. stack' = [stack EXCEPT ![t] = Append(stack[t], f)]
  BY DEF Call
<1>5. QED
  BY <1>2, <1>3, <1>4, StackOfOne

LEMMA ReturnStack ==
  ASSUME StackOK, NEW t \in Threads, stack[t] # <<>>, Return(t),
         served \subseteq served',
         Top(t).at = "run" => Top(t).id \in served' \union {0}
  PROVE  StackOK'
<1>1. stack[t] \in Seq(FrameOf(t)) /\ Answers(stack[t], served)
  BY DEF StackOK, StackTypeOK, AnswersFollow
<1>2. Front(stack[t]) \in Seq(FrameOf(t))
  BY <1>1, FrontOfSeq
<1>3. \A k \in 1 .. Len(stack[t]) :
        stack[t][k].at = "answer" => stack[t][k].id # 0
  <2>1. \A k \in 1 .. Len(stack[t]) : stack[t][k] \in FrameOf(t)
    BY <1>1, ElementOfSeq
  <2>2. QED
    BY <2>1 DEF FrameOf, Numbered
<1>4. Answers(Front(stack[t]), served')
  BY <1>1, <1>3, ReturnKeepsAnswers DEF Top
<1>5. stack' = [stack EXCEPT ![t] = Front(stack[t])]
  BY DEF Return
<1>6. QED
  BY <1>2, <1>4, <1>5, StackOfOne

LEMMA BecomeStack ==
  ASSUME StackOK, NEW t \in Threads, stack[t] # <<>>, Top(t).at # "run",
         NEW f \in FrameOf(t), f.at # "answer",
         Become(t, f), served' = served
  PROVE  StackOK'
<1>1. stack[t] \in Seq(FrameOf(t)) /\ Answers(stack[t], served)
  BY DEF StackOK, StackTypeOK, AnswersFollow
<1>2. Append(Front(stack[t]), f) \in Seq(FrameOf(t))
  BY <1>1, BecomeType
<1>3. Answers(Append(Front(stack[t]), f), served')
  BY <1>1, BecomeKeepsAnswers DEF Top
<1>4. stack' = [stack EXCEPT ![t] = Append(Front(stack[t]), f)]
  BY DEF Become
<1>5. QED
  BY <1>2, <1>3, <1>4, StackOfOne

LEMMA BecomeCallStack ==
  ASSUME StackOK, NEW t \in Threads, stack[t] # <<>>, Top(t).at # "run",
         NEW f \in FrameOf(t), f.at # "answer",
         NEW g \in FrameOf(t), g.at # "answer",
         BecomeCall(t, f, g), served' = served
  PROVE  StackOK'
<1> DEFINE mid == Append(Front(stack[t]), f)
<1>1. stack[t] \in Seq(FrameOf(t)) /\ Answers(stack[t], served)
  BY DEF StackOK, StackTypeOK, AnswersFollow
<1>2. mid \in Seq(FrameOf(t)) /\ Append(mid, g) \in Seq(FrameOf(t))
  BY <1>1, BecomeType
<1>3. Answers(mid, served')
  BY <1>1, BecomeKeepsAnswers DEF Top
<1>4. Last(mid) = f
  <2>1. /\ Front(stack[t]) \in Seq(FrameOf(t))
        /\ mid # <<>> /\ Len(mid) = Len(Front(stack[t])) + 1
        /\ mid[Len(Front(stack[t])) + 1] = f
    BY <1>1, FrontOfSeq, AppendProperties
  <2> HIDE DEF mid
  <2>2. QED
    BY <1>2, <2>1, FrontOfSeq
<1>5. stack' = [stack EXCEPT ![t] = Append(mid, g)]
  BY DEF BecomeCall
<1> HIDE DEF mid
<1>6. Answers(Append(mid, g), served')
  BY <1>2, <1>3, <1>4, CallKeepsAnswers
<1>7. QED
  BY <1>2, <1>5, <1>6, StackOfOne

LEMMA ServeStack ==
  ASSUME StackOK, NEW t \in Threads, stack[t] # <<>>, Top(t).at # "run",
         NEW f \in FrameOf(t), NEW g \in FrameOf(t),
         g.at = "run", f.id = g.id,
         BecomeCall(t, f, g), served' = served
  PROVE  StackOK'
<1> DEFINE new == Append(Append(Front(stack[t]), f), g)
<1>1. stack[t] \in Seq(FrameOf(t)) /\ Answers(stack[t], served)
  BY DEF StackOK, StackTypeOK, AnswersFollow
<1>2. new \in Seq(FrameOf(t))
  BY <1>1, BecomeType
<1>3. Answers(new, served')
  BY <1>1, ServeKeepsAnswers DEF Top
<1>4. stack' = [stack EXCEPT ![t] = new]
  BY DEF BecomeCall
<1>5. QED
  BY <1>2, <1>3, <1>4, StackOfOne

LEMMA GotoStack ==
  ASSUME StackOK, NEW t \in Threads, stack[t] # <<>>, Top(t).at # "run",
         NEW at \in Places, at # "answer",
         at \in Numbered => Top(t).id # 0,
         t \in Loops \/ at \in InSend,
         Goto(t, at), served' = served
  PROVE  StackOK'
<1>1. Moved(Top(t), at) \in FrameOf(t) /\ Moved(Top(t), at).at = at
  BY TopType, MovedType DEF StackOK
<1>2. QED
  BY <1>1, BecomeStack DEF Goto

LEMMA GotoCallStack ==
  ASSUME StackOK, NEW t \in Loops, stack[t] # <<>>, Top(t).at # "run",
         NEW at \in Places \ Numbered,
         NEW g \in FrameOf(t), g.at # "answer",
         GotoCall(t, at, g), served' = served
  PROVE  StackOK'
<1>1. t \in Threads /\ at \in Places /\ at # "answer"
  BY DEF Threads, Numbered
<1>2. Moved(Top(t), at) \in FrameOf(t) /\ Moved(Top(t), at).at = at
  BY <1>1, TopType, MovedType DEF StackOK
<1>3. QED
  BY <1>1, <1>2, BecomeCallStack DEF GotoCall

-----------------------------------------------------------------------------
(* Steps. *)
(* Every action leaves the stacks in order. *)
LEMMA StackStep ==
  ASSUME StackOK, ListTypeOK, CountTypeOK, [Next]_vars
  PROVE  StackOK'
<1>1. ASSUME NEW t \in Threads, NEW r \in Loops, BeginSend(t, r)
      PROVE  StackOK'
  <2>1. t \in Loops \/ stack[t] = <<>>
    BY <1>1, TopType DEF BeginSend, Running, At, StackOK, InSend, Threads
  <2>2. stack[t] = <<>> \/ Top(t).at # "answer"
    BY <1>1 DEF BeginSend, Running, At
  <2>3. count.sends + 1 \in 0 .. MaxSends /\ count.sends + 1 # 0
    <3>1. count.sends \in 0 .. MaxSends /\ count.sends < MaxSends
      BY <1>1 DEF BeginSend, CountTypeOK
    <3>2. QED
      BY <3>1, ThreadSendAssumption
  <2>4. "run" \in Places \ Numbered /\ "push" \in Places \intersect InSend
    BY DEF Places, Numbered, InSend
  <2>5. r \in Threads
    BY DEF Threads
  <2>6. CASE r = t
    <3>1. LET f == Frame("run", count.sends + 1, None)
          IN  f \in FrameOf(t) /\ f.at = "run"
      BY <2>3, <2>4, <2>6, NewFrameType
    <3>2. Call(t, Frame("run", count.sends + 1, None)) /\ served' = served
      BY <1>1, <2>6 DEF BeginSend
    <3>3. QED
      BY <2>2, <3>1, <3>2, CallStack
  <2>7. CASE r # t
    <3>1. LET f == Frame("push", count.sends + 1, r)
          IN  f \in FrameOf(t) /\ f.at = "push"
      BY <2>3, <2>4, <2>5, NewFrameType
    <3>2. Call(t, Frame("push", count.sends + 1, r)) /\ served' = served
      BY <1>1, <2>7 DEF BeginSend
    <3>3. QED
      BY <2>2, <3>1, <3>2, CallStack
  <2>8. QED
    BY <2>6, <2>7
<1>2. ASSUME NEW t \in Threads, NEW r \in Loops, Post(t, r)
      PROVE  StackOK'
  BY <1>2, SameStacks DEF Post
<1>3. ASSUME NEW t \in Threads, NEW r \in Loops, Clear(t, r)
      PROVE  StackOK'
  BY <1>3, SameStacks DEF Clear
<1>4. ASSUME NEW t \in Threads, Finish(t)
      PROVE  StackOK'
  <2>1. stack[t] # <<>> /\ Return(t)
    BY <1>4 DEF Finish, At
  <2>2. served' = served \union ({Top(t).id} \ {0})
    BY <1>4 DEF Finish
  <2>3. QED
    BY <2>1, <2>2, ReturnStack
<1>5. ASSUME NEW t \in Threads, PushSend(t)
      PROVE  StackOK'
  <2>1. /\ stack[t] # <<>> /\ Top(t).at = "push"
        /\ Top(t).at \in Numbered => Top(t).id # 0
    BY <1>5, TopType DEF PushSend, At, StackOK, InSend, Numbered, SendIds
  <2>2. QED
    BY <1>5, <2>1, GotoStack DEF PushSend, Places, Numbered, InSend, flags
<1>6. ASSUME NEW t \in Threads, WakePeer(t)
      PROVE  StackOK'
  <2>1. /\ stack[t] # <<>> /\ Top(t).at = "wakepeer"
        /\ Top(t).at \in Numbered => Top(t).id # 0
    BY <1>6, TopType DEF WakePeer, At, StackOK, InSend, Numbered, SendIds
  <2>2. QED
    BY <1>6, <2>1, GotoStack DEF WakePeer, Places, Numbered, InSend, flags
<1>7. ASSUME NEW t \in Threads, NotReady(t)
      PROVE  StackOK'
  <2>1. /\ stack[t] # <<>> /\ Top(t).at = "test"
        /\ Top(t).at \in Numbered => Top(t).id # 0
    BY <1>7, TopType DEF NotReady, At, StackOK, InSend, Numbered, SendIds
  <2>2. QED
    BY <1>7, <2>1, GotoStack DEF NotReady, Places, Numbered, InSend, flags
<1>8. ASSUME NEW t \in Threads, ReturnFromSend(t)
      PROVE  StackOK'
  <2>1. stack[t] # <<>> /\ Top(t).at = "test"
    BY <1>8 DEF ReturnFromSend, At
  <2>2. QED
    BY <1>8, <2>1, ReturnStack DEF ReturnFromSend, flags
<1>9. ASSUME NEW t \in Threads, NothingSent(t)
      PROVE  StackOK'
  <2>1. stack[t] # <<>> /\ Top(t).at \in {"check", "receive"}
    BY <1>9 DEF NothingSent, Receives, At
  <2>2. t \in Loops \/ Top(t).at = "receive"
    BY <2>1, TopType DEF StackOK, InSend
  <2>3. /\ Resume(Top(t).at) \in Places \ Numbered
        /\ t \in Loops \/ Resume(Top(t).at) \in InSend
    BY <2>1, <2>2 DEF Resume, Places, Numbered, InSend
  <2>4. Goto(t, Resume(Top(t).at)) /\ served' = served
    BY <1>9 DEF NothingSent, flags
  <2>5. Resume(Top(t).at) # "answer"
    BY <2>3 DEF Numbered
  <2>6. QED
    BY <2>1, <2>3, <2>4, <2>5, GotoStack
<1>10. ASSUME NEW t \in Threads, SomethingSent(t)
       PROVE  StackOK'
  <2>1. stack[t] # <<>> /\ Top(t).at \in {"check", "receive"} /\ t \in Loops
    BY <1>10 DEF SomethingSent, Receives, At
  <2>2. Resume(Top(t).at) \in Places \ Numbered
    BY <2>1 DEF Resume, Places, Numbered
  <2>3. LET f == Frame("pop", 0, None) IN f \in FrameOf(t) /\ f.at = "pop"
    <3>1. "pop" \in Places \ Numbered /\ 0 \in 0 .. MaxSends
      BY ThreadSendAssumption DEF Places, Numbered
    <3>2. QED
      BY <2>1, <3>1, NewFrameType
  <2>4. /\ GotoCall(t, Resume(Top(t).at), Frame("pop", 0, None))
        /\ served' = served
    BY <1>10 DEF SomethingSent, flags
  <2>5. QED
    BY <2>1, <2>2, <2>3, <2>4, GotoCallStack
<1>11. ASSUME NEW t \in Threads, PopSend(t)
       PROVE  StackOK'
  <2>1. stack[t] # <<>> /\ Top(t).at = "pop" /\ t \in Loops
    BY <1>11, TopType DEF PopSend, At, StackOK, InSend
  <2> DEFINE smsg == Head(sendlist_[t])
             f == Frame("answer", smsg.id, smsg.from)
             g == Frame("run", smsg.id, None)
  <2>2. smsg.id \in 0 .. MaxSends /\ smsg.id # 0 /\ smsg.from \in Threads
    <3>1. sendlist_[t] \in Seq(Sends) /\ sendlist_[t] # <<>>
      BY <1>11, <2>1 DEF PopSend, ListTypeOK
    <3>2. smsg \in Sends
      BY <3>1, HeadTailProperties
    <3> HIDE DEF smsg
    <3>3. QED
      BY <3>2, ThreadSendAssumption DEF Sends, SendIds
  <2>3. BecomeCall(t, f, g) /\ served' = served
    BY <1>11 DEF PopSend, flags
  <2> HIDE DEF smsg
  <2>4. /\ f \in FrameOf(t) /\ f.id = smsg.id
        /\ g \in FrameOf(t) /\ g.id = smsg.id /\ g.at = "run"
    <3>1. "answer" \in Places /\ "run" \in Places
      BY DEF Places
    <3>2. QED
      BY <2>1, <2>2, <3>1, NewFrameType
  <2> HIDE DEF f, g
  <2>5. QED
    BY <2>1, <2>3, <2>4, ServeStack
<1>12. ASSUME NEW t \in Threads, Answer(t)
       PROVE  StackOK'
  <2>1. /\ stack[t] # <<>> /\ Top(t).at = "answer"
        /\ Top(t).at \in Numbered => Top(t).id # 0
        /\ t \in Loops
    BY <1>12, TopType DEF Answer, At, StackOK, InSend, Numbered, SendIds
  <2>2. QED
    BY <1>12, <2>1, GotoStack DEF Answer, Places, Numbered, InSend
<1>13. ASSUME NEW t \in Threads, WakeSender(t)
       PROVE  StackOK'
  <2>1. /\ stack[t] # <<>> /\ Top(t).at = "wakesender"
        /\ Top(t).at \in Numbered => Top(t).id # 0
        /\ t \in Loops
    BY <1>13, TopType DEF WakeSender, At, StackOK, InSend, Numbered, SendIds
  <2>2. QED
    BY <1>13, <2>1, GotoStack DEF WakeSender, Places, Numbered, InSend, flags
<1>14. ASSUME NEW t \in Threads, NoMoreSends(t)
       PROVE  StackOK'
  <2>1. stack[t] # <<>> /\ Top(t).at = "pop"
    BY <1>14 DEF NoMoreSends, At
  <2>2. QED
    BY <1>14, <2>1, ReturnStack DEF NoMoreSends, flags
<1>15. ASSUME NEW t \in Threads, EnterWait(t)
       PROVE  StackOK'
  <2>1. /\ stack[t] # <<>> /\ Top(t).at = "enterwait"
        /\ Top(t).at \in Numbered => Top(t).id # 0
    BY <1>15, TopType DEF EnterWait, At, StackOK, InSend, Numbered, SendIds
  <2>2. QED
    BY <1>15, <2>1, GotoStack DEF EnterWait, Places, Numbered, InSend, flags
<1>16. ASSUME NEW t \in Threads, Woken(t)
       PROVE  StackOK'
  BY <1>16, SameStacks DEF Woken, flags
<1>17. ASSUME NEW t \in Threads, LeaveWait(t)
       PROVE  StackOK'
  <2>1. stack[t] # <<>> /\ Top(t).at = "wait"
    BY <1>17 DEF LeaveWait, At
  <2>2. served' = served
    BY <1>17 DEF LeaveWait, flags
  <2>3. CASE Top(t).id = 0
    <3>1. t \in Loops
      BY <2>1, <2>3, TopType DEF StackOK
    <3>2. Goto(t, "check")
      BY <1>17, <2>3 DEF LeaveWait, Goto
    <3>3. "check" \in Places \ Numbered
      BY DEF Places, Numbered
    <3>4. QED
      BY <2>1, <2>2, <3>1, <3>2, <3>3, GotoStack
  <2>4. CASE Top(t).id # 0
    <3> DEFINE f == [at |-> "test", id |-> Top(t).id, peer |-> Top(t).peer,
                     waited |-> TRUE]
    <3>1. Become(t, f)
      BY <1>17, <2>4 DEF LeaveWait
    <3>2. /\ Top(t).id \in 0 .. MaxSends
          /\ Top(t).peer \in Threads \union {None}
      BY <2>1, TopType DEF StackOK
    <3>3. f \in FrameOf(t) /\ f.at = "test"
      BY <2>4, <3>2 DEF FrameOf, AnyFrame, Places, Numbered, InSend
    <3> HIDE DEF f
    <3>4. QED
      BY <2>1, <2>2, <3>1, <3>3, BecomeStack
  <2>5. QED
    BY <2>3, <2>4
<1>18. ASSUME NEW t \in Threads, TakePosted(t)
       PROVE  StackOK'
  <2>1. stack[t] # <<>> /\ Top(t).at = "scan" /\ t \in Loops
    BY <1>18, TopType DEF TakePosted, At, StackOK, InSend
  <2>2. "check" \in Places \ Numbered
    BY DEF Places, Numbered
  <2>3. LET f == Frame("run", 0, None) IN f \in FrameOf(t) /\ f.at = "run"
    <3>1. "run" \in Places \ Numbered /\ 0 \in 0 .. MaxSends
      BY ThreadSendAssumption DEF Places, Numbered
    <3>2. QED
      BY <2>1, <3>1, NewFrameType
  <2>4. GotoCall(t, "check", Frame("run", 0, None)) /\ served' = served
    BY <1>18 DEF TakePosted, flags
  <2>5. QED
    BY <2>1, <2>2, <2>3, <2>4, GotoCallStack
<1>19. ASSUME NEW t \in Threads, NothingPosted(t)
       PROVE  StackOK'
  <2>1. /\ stack[t] # <<>> /\ Top(t).at = "scan"
        /\ Top(t).at \in Numbered => Top(t).id # 0
        /\ t \in Loops
    BY <1>19, TopType DEF NothingPosted, At, StackOK, InSend, Numbered, SendIds
  <2>2. QED
    BY <1>19, <2>1, GotoStack DEF NothingPosted, Places, Numbered, InSend, flags
<1>20. ASSUME NEW t \in Threads, StopTest(t)
       PROVE  StackOK'
  <2>1. stack[t] # <<>> /\ Top(t).at = "stoptest" /\ t \in Loops
    BY <1>20, TopType DEF StopTest, At, StackOK, InSend
  <2>2. PICK at \in {"exit", "enterwait"} : Goto(t, at)
    BY <1>20 DEF StopTest
  <2>3. at \in Places /\ at # "answer" /\ at \notin Numbered
    BY <2>2 DEF Places, Numbered
  <2>4. QED
    BY <1>20, <2>1, <2>2, <2>3, GotoStack DEF StopTest, flags
<1>21. ASSUME NEW r \in Loops, SocketEvent(r)
       PROVE  StackOK'
  <2>1. stack[r] # <<>> /\ Top(r).at = "wait" /\ r \in Threads
    BY <1>21 DEF SocketEvent, At, Threads
  <2>2. LET f == Frame("run", 0, None) IN f \in FrameOf(r) /\ f.at = "run"
    <3>1. "run" \in Places \ Numbered /\ 0 \in 0 .. MaxSends
      BY ThreadSendAssumption DEF Places, Numbered
    <3>2. QED
      BY <2>1, <3>1, NewFrameType
  <2>3. Call(r, Frame("run", 0, None)) /\ served' = served
    BY <1>21 DEF SocketEvent
  <2>4. QED
    BY <2>1, <2>2, <2>3, CallStack
<1>22. ASSUME NEW r \in Loops, Quit(r)
       PROVE  StackOK'
  BY <1>22, SameStacks DEF Quit
<1>23. ASSUME NEW r \in Loops, Destroy(r)
       PROVE  StackOK'
  <2>1. stack[r] # <<>> /\ Top(r).at = "exit" /\ r \in Threads
    BY <1>23 DEF Destroy, At, Threads
  <2>2. Goto(r, "gone") /\ served' = served
    BY <1>23 DEF Destroy
  <2>3. "gone" \in Places \ Numbered
    BY DEF Places, Numbered
  <2>4. QED
    BY <2>1, <2>2, <2>3, GotoStack
<1>24. CASE UNCHANGED vars
  BY <1>24, SameStacks DEF vars
<1>25. QED
  BY <1>1, <1>2, <1>3, <1>4, <1>5, <1>6, <1>7, <1>8, <1>9, <1>10,
     <1>11, <1>12, <1>13, <1>14, <1>15, <1>16, <1>17, <1>18, <1>19, <1>20,
     <1>21, <1>22, <1>23, <1>24
     DEF Next, Internal

(* No more posted messages than Post calls. *)
LEMMA CountStep ==
  ASSUME CountTypeOK, [Next]_vars
  PROVE  CountTypeOK'
<1>1. ASSUME NEW t \in Threads, NEW r \in Loops, BeginSend(t, r)
      PROVE  CountTypeOK'
  BY <1>1, ThreadSendAssumption DEF BeginSend, CountTypeOK, lists
<1>2. ASSUME NEW t \in Threads, NEW r \in Loops, Post(t, r)
      PROVE  CountTypeOK'
  BY <1>2, ThreadSendAssumption DEF Post, CountTypeOK
<1>3. ASSUME NEW t \in Threads, NEW r \in Loops, Clear(t, r)
      PROVE  CountTypeOK'
  <2>1. msgq_' = [msgq_ EXCEPT ![r] = 0]
    BY <1>3 DEF Clear, ClearAll
  <2>2. count' = [count EXCEPT !.clears = count.clears + 1]
    BY <1>3 DEF Clear
  <2>3. count.posts \in Nat /\ 0 \in 0 .. count.posts
    BY ThreadSendAssumption DEF CountTypeOK
  <2>4. msgq_' \in [Loops -> 0 .. count.posts]
    BY <2>1, <2>3 DEF CountTypeOK
  <2>5. QED
    BY <2>2, <2>4 DEF CountTypeOK
<1>4. ASSUME NEW t \in Threads, Finish(t)
      PROVE  CountTypeOK'
  BY <1>4 DEF Finish, CountTypeOK, lists
<1>5. ASSUME NEW t \in Threads, PushSend(t)
      PROVE  CountTypeOK'
  BY <1>5 DEF PushSend, CountTypeOK, flags
<1>6. ASSUME NEW t \in Threads, WakePeer(t)
      PROVE  CountTypeOK'
  BY <1>6 DEF WakePeer, CountTypeOK, lists, flags
<1>7. ASSUME NEW t \in Threads, NotReady(t)
      PROVE  CountTypeOK'
  BY <1>7 DEF NotReady, CountTypeOK, lists, flags
<1>8. ASSUME NEW t \in Threads, ReturnFromSend(t)
      PROVE  CountTypeOK'
  BY <1>8 DEF ReturnFromSend, CountTypeOK, lists, flags
<1>9. ASSUME NEW t \in Threads, NothingSent(t)
      PROVE  CountTypeOK'
  BY <1>9 DEF NothingSent, CountTypeOK, lists, flags
<1>10. ASSUME NEW t \in Threads, SomethingSent(t)
       PROVE  CountTypeOK'
  BY <1>10 DEF SomethingSent, CountTypeOK, lists, flags
<1>11. ASSUME NEW t \in Threads, PopSend(t)
       PROVE  CountTypeOK'
  BY <1>11 DEF PopSend, CountTypeOK, flags
<1>12. ASSUME NEW t \in Threads, Answer(t)
       PROVE  CountTypeOK'
  BY <1>12 DEF Answer, CountTypeOK, lists
<1>13. ASSUME NEW t \in Threads, WakeSender(t)
       PROVE  CountTypeOK'
  BY <1>13 DEF WakeSender, CountTypeOK, lists, flags
<1>14. ASSUME NEW t \in Threads, NoMoreSends(t)
       PROVE  CountTypeOK'
  BY <1>14 DEF NoMoreSends, CountTypeOK, flags
<1>15. ASSUME NEW t \in Threads, EnterWait(t)
       PROVE  CountTypeOK'
  BY <1>15 DEF EnterWait, CountTypeOK, lists, flags
<1>16. ASSUME NEW t \in Threads, Woken(t)
       PROVE  CountTypeOK'
  BY <1>16 DEF Woken, CountTypeOK, lists, flags
<1>17. ASSUME NEW t \in Threads, LeaveWait(t)
       PROVE  CountTypeOK'
  BY <1>17 DEF LeaveWait, CountTypeOK, lists, flags
<1>18. ASSUME NEW t \in Threads, TakePosted(t)
       PROVE  CountTypeOK'
  <2>1. msgq_' = [msgq_ EXCEPT ![t] = msgq_[t] - 1]
    BY <1>18 DEF TakePosted
  <2>2. count' = count /\ msgq_[t] > 0
    BY <1>18 DEF TakePosted, flags
  <2>3. \A q \in Loops : msgq_[q] \in Nat /\ msgq_[q] <= count.posts
    BY DEF CountTypeOK
  <2>4. t \in Loops => msgq_[t] - 1 \in 0 .. count.posts
    BY <2>2, <2>3, ThreadSendAssumption DEF CountTypeOK
  <2>5. msgq_' \in [Loops -> 0 .. count.posts]
    BY <2>1, <2>4 DEF CountTypeOK
  <2>6. QED
    BY <2>2, <2>5 DEF CountTypeOK
<1>19. ASSUME NEW t \in Threads, NothingPosted(t)
       PROVE  CountTypeOK'
  BY <1>19 DEF NothingPosted, CountTypeOK, lists, flags
<1>20. ASSUME NEW t \in Threads, StopTest(t)
       PROVE  CountTypeOK'
  BY <1>20 DEF StopTest, CountTypeOK, lists, flags
<1>21. ASSUME NEW r \in Loops, SocketEvent(r)
       PROVE  CountTypeOK'
  BY <1>21, ThreadSendAssumption DEF SocketEvent, CountTypeOK, lists
<1>22. ASSUME NEW r \in Loops, Quit(r)
       PROVE  CountTypeOK'
  BY <1>22, ThreadSendAssumption DEF Quit, CountTypeOK, lists
<1>23. ASSUME NEW r \in Loops, Destroy(r)
       PROVE  CountTypeOK'
  BY <1>23 DEF Destroy, CountTypeOK, ClearAll
<1>24. CASE UNCHANGED vars
  BY <1>24, ThreadSendAssumption DEF CountTypeOK, vars, lists, flags
<1>25. QED
  BY <1>1, <1>2, <1>3, <1>4, <1>5, <1>6, <1>7, <1>8, <1>9, <1>10,
     <1>11, <1>12, <1>13, <1>14, <1>15, <1>16, <1>17, <1>18, <1>19, <1>20,
     <1>21, <1>22, <1>23, <1>24
     DEF Next, Internal

(* The flag is lowered under the lock, over an empty list, and raised with every push. *)
LEMMA ListStep ==
  ASSUME StackOK, ListTypeOK, FlagTypeOK, SendsAreFlagged, [Next]_vars
  PROVE  (ListTypeOK /\ SendsAreFlagged)'
<1>1. ASSUME NEW t \in Threads, NEW r \in Loops, BeginSend(t, r)
      PROVE  (ListTypeOK /\ SendsAreFlagged)'
  BY <1>1 DEF BeginSend, ListTypeOK, SendsAreFlagged, lists
<1>2. ASSUME NEW t \in Threads, NEW r \in Loops, Post(t, r)
      PROVE  (ListTypeOK /\ SendsAreFlagged)'
  BY <1>2 DEF Post, ListTypeOK, SendsAreFlagged
<1>3. ASSUME NEW t \in Threads, NEW r \in Loops, Clear(t, r)
      PROVE  (ListTypeOK /\ SendsAreFlagged)'
  <2>1. /\ sendlist_' = [sendlist_ EXCEPT ![r] = <<>>]
        /\ UNCHANGED has_sends_
    BY <1>3 DEF Clear, ClearAll
  <2>2. <<>> \in Seq(Sends)
    BY EmptySeq
  <2>3. ListTypeOK'
    BY <2>1, <2>2 DEF ListTypeOK
  <2>4. \A q \in Loops : sendlist_'[q] # <<>> => sendlist_[q] # <<>>
    BY <2>1 DEF ListTypeOK
  <2>5. SendsAreFlagged'
    BY <2>1, <2>4 DEF SendsAreFlagged
  <2>6. QED
    BY <2>3, <2>5
<1>4. ASSUME NEW t \in Threads, Finish(t)
      PROVE  (ListTypeOK /\ SendsAreFlagged)'
  BY <1>4 DEF Finish, ListTypeOK, SendsAreFlagged, lists
<1>5. ASSUME NEW t \in Threads, PushSend(t)
      PROVE  (ListTypeOK /\ SendsAreFlagged)'
  <2>1. stack[t] # <<>> /\ Top(t).at \in Numbered
    BY <1>5 DEF PushSend, At, Numbered
  <2> DEFINE r == Top(t).peer
             smsg == [id |-> Top(t).id, from |-> t]
  <2>2. smsg \in Sends
    BY <2>1, TopType DEF StackOK, Sends
  <2>3. /\ sendlist_' = [sendlist_ EXCEPT ![r] = Append(sendlist_[r], smsg)]
        /\ has_sends_' = [has_sends_ EXCEPT ![r] = TRUE]
    BY <1>5 DEF PushSend
  <2> HIDE DEF smsg, r
  <2>4. r \in Loops => Append(sendlist_[r], smsg) \in Seq(Sends)
    BY <2>2, AppendProperties DEF ListTypeOK
  <2>5. ListTypeOK'
    BY <2>3, <2>4 DEF ListTypeOK
  <2>6. ASSUME NEW q \in Loops, sendlist_'[q] # <<>>
        PROVE  has_sends_'[q]
    <3>1. CASE q = r
      BY <2>3, <3>1 DEF FlagTypeOK
    <3>2. CASE q # r
      <4>1. sendlist_'[q] = sendlist_[q] /\ has_sends_'[q] = has_sends_[q]
        BY <2>3, <3>2 DEF ListTypeOK, FlagTypeOK
      <4>2. QED
        BY <2>6, <4>1 DEF SendsAreFlagged
    <3>3. QED
      BY <3>1, <3>2
  <2>7. QED
    BY <2>5, <2>6 DEF SendsAreFlagged
<1>6. ASSUME NEW t \in Threads, WakePeer(t)
      PROVE  (ListTypeOK /\ SendsAreFlagged)'
  BY <1>6 DEF WakePeer, ListTypeOK, SendsAreFlagged, lists, flags
<1>7. ASSUME NEW t \in Threads, NotReady(t)
      PROVE  (ListTypeOK /\ SendsAreFlagged)'
  BY <1>7 DEF NotReady, ListTypeOK, SendsAreFlagged, lists, flags
<1>8. ASSUME NEW t \in Threads, ReturnFromSend(t)
      PROVE  (ListTypeOK /\ SendsAreFlagged)'
  BY <1>8 DEF ReturnFromSend, ListTypeOK, SendsAreFlagged, lists, flags
<1>9. ASSUME NEW t \in Threads, NothingSent(t)
      PROVE  (ListTypeOK /\ SendsAreFlagged)'
  BY <1>9 DEF NothingSent, ListTypeOK, SendsAreFlagged, lists, flags
<1>10. ASSUME NEW t \in Threads, SomethingSent(t)
       PROVE  (ListTypeOK /\ SendsAreFlagged)'
  BY <1>10 DEF SomethingSent, ListTypeOK, SendsAreFlagged, lists, flags
<1>11. ASSUME NEW t \in Threads, PopSend(t)
       PROVE  (ListTypeOK /\ SendsAreFlagged)'
  <2>1. /\ t \in Loops
        /\ sendlist_[t] # <<>>
        /\ sendlist_' = [sendlist_ EXCEPT ![t] = Tail(sendlist_[t])]
        /\ UNCHANGED has_sends_
    BY <1>11, TopType DEF PopSend, At, StackOK, InSend
  <2>2. Tail(sendlist_[t]) \in Seq(Sends)
    BY <2>1, HeadTailProperties DEF ListTypeOK
  <2>3. ListTypeOK'
    BY <2>1, <2>2 DEF ListTypeOK
  <2>4. \A q \in Loops : sendlist_'[q] # <<>> => sendlist_[q] # <<>>
    BY <2>1 DEF ListTypeOK
  <2>5. SendsAreFlagged'
    BY <2>1, <2>4 DEF SendsAreFlagged
  <2>6. QED
    BY <2>3, <2>5
<1>12. ASSUME NEW t \in Threads, Answer(t)
       PROVE  (ListTypeOK /\ SendsAreFlagged)'
  BY <1>12 DEF Answer, ListTypeOK, SendsAreFlagged, lists
<1>13. ASSUME NEW t \in Threads, WakeSender(t)
       PROVE  (ListTypeOK /\ SendsAreFlagged)'
  BY <1>13 DEF WakeSender, ListTypeOK, SendsAreFlagged, lists, flags
<1>14. ASSUME NEW t \in Threads, NoMoreSends(t)
       PROVE  (ListTypeOK /\ SendsAreFlagged)'
  <2>1. /\ sendlist_[t] = <<>>
        /\ has_sends_' = [has_sends_ EXCEPT ![t] = FALSE]
        /\ UNCHANGED sendlist_
    BY <1>14 DEF NoMoreSends
  <2>2. \A q \in Loops : q # t => has_sends_'[q] = has_sends_[q]
    BY <2>1 DEF FlagTypeOK
  <2>3. SendsAreFlagged'
    BY <2>1, <2>2 DEF SendsAreFlagged
  <2>4. QED
    BY <2>1, <2>3 DEF ListTypeOK
<1>15. ASSUME NEW t \in Threads, EnterWait(t)
       PROVE  (ListTypeOK /\ SendsAreFlagged)'
  BY <1>15 DEF EnterWait, ListTypeOK, SendsAreFlagged, lists, flags
<1>16. ASSUME NEW t \in Threads, Woken(t)
       PROVE  (ListTypeOK /\ SendsAreFlagged)'
  BY <1>16 DEF Woken, ListTypeOK, SendsAreFlagged, lists, flags
<1>17. ASSUME NEW t \in Threads, LeaveWait(t)
       PROVE  (ListTypeOK /\ SendsAreFlagged)'
  BY <1>17 DEF LeaveWait, ListTypeOK, SendsAreFlagged, lists, flags
<1>18. ASSUME NEW t \in Threads, TakePosted(t)
       PROVE  (ListTypeOK /\ SendsAreFlagged)'
  BY <1>18 DEF TakePosted, ListTypeOK, SendsAreFlagged, flags
<1>19. ASSUME NEW t \in Threads, NothingPosted(t)
       PROVE  (ListTypeOK /\ SendsAreFlagged)'
  BY <1>19 DEF NothingPosted, ListTypeOK, SendsAreFlagged, lists, flags
<1>20. ASSUME NEW t \in Threads, StopTest(t)
       PROVE  (ListTypeOK /\ SendsAreFlagged)'
  BY <1>20 DEF StopTest, ListTypeOK, SendsAreFlagged, lists, flags
<1>21. ASSUME NEW r \in Loops, SocketEvent(r)
       PROVE  (ListTypeOK /\ SendsAreFlagged)'
  BY <1>21 DEF SocketEvent, ListTypeOK, SendsAreFlagged, lists
<1>22. ASSUME NEW r \in Loops, Quit(r)
       PROVE  (ListTypeOK /\ SendsAreFlagged)'
  BY <1>22 DEF Quit, ListTypeOK, SendsAreFlagged, lists
<1>23. ASSUME NEW r \in Loops, Destroy(r)
       PROVE  (ListTypeOK /\ SendsAreFlagged)'
  <2>1. /\ sendlist_' = [sendlist_ EXCEPT ![r] = <<>>]
        /\ UNCHANGED has_sends_
    BY <1>23 DEF Destroy, ClearAll
  <2>2. <<>> \in Seq(Sends)
    BY EmptySeq
  <2>3. ListTypeOK'
    BY <2>1, <2>2 DEF ListTypeOK
  <2>4. \A q \in Loops : sendlist_'[q] # <<>> => sendlist_[q] # <<>>
    BY <2>1 DEF ListTypeOK
  <2>5. SendsAreFlagged'
    BY <2>1, <2>4 DEF SendsAreFlagged
  <2>6. QED
    BY <2>3, <2>5
<1>24. CASE UNCHANGED vars
  BY <1>24 DEF ListTypeOK, SendsAreFlagged, vars, lists, flags
<1>25. QED
  BY <1>1, <1>2, <1>3, <1>4, <1>5, <1>6, <1>7, <1>8, <1>9, <1>10,
     <1>11, <1>12, <1>13, <1>14, <1>15, <1>16, <1>17, <1>18, <1>19, <1>20,
     <1>21, <1>22, <1>23, <1>24
     DEF Next, Internal

(* Flags stay flags, and only sends that were begun are served or cleared. *)
LEMMA FlagStep ==
  ASSUME StackOK, ListTypeOK, FlagTypeOK, [Next]_vars
  PROVE  FlagTypeOK'
<1>1. ASSUME NEW t \in Threads, NEW r \in Loops, BeginSend(t, r)
      PROVE  FlagTypeOK'
  BY <1>1 DEF BeginSend, FlagTypeOK, lists
<1>2. ASSUME NEW t \in Threads, NEW r \in Loops, Post(t, r)
      PROVE  FlagTypeOK'
  BY <1>2 DEF Post, FlagTypeOK
<1>3. ASSUME NEW t \in Threads, NEW r \in Loops, Clear(t, r)
      PROVE  FlagTypeOK'
  <2> DEFINE doomed == Range(sendlist_[r])
  <2>1. ClearAll(r) /\ UNCHANGED <<crit_, fWait_, fStop_, served>>
    BY <1>3 DEF Clear
  <2>2. \A s \in doomed : s.id \in SendIds
    <3>1. sendlist_[r] \in Seq(Sends)
      BY DEF ListTypeOK
    <3>2. doomed \in SUBSET Sends
      BY <3>1, RangeOfSeq
    <3> HIDE DEF doomed
    <3>3. QED
      BY <3>2 DEF Sends
  <2>3. /\ has_sends_' = has_sends_
        /\ ready' = [k \in SendIds |-> ready[k] \/ \E s \in doomed : s.id = k]
        /\ cleared' = cleared \union {s.id : s \in doomed}
        /\ signaled_' = [u \in Threads |->
                          signaled_[u] \/ \E s \in doomed : s.from = u]
    BY <2>1 DEF ClearAll
  <2> HIDE DEF doomed
  <2>4. (ready' \in [SendIds -> BOOLEAN]) /\ (signaled_' \in [Threads -> BOOLEAN])
    BY <2>3
  <2>5. cleared' \subseteq SendIds
    BY <2>2, <2>3 DEF FlagTypeOK
  <2>6. QED
    BY <2>1, <2>3, <2>4, <2>5 DEF FlagTypeOK
<1>4. ASSUME NEW t \in Threads, Finish(t)
      PROVE  FlagTypeOK'
  <2>1. stack[t] # <<>> /\ SendIds = 1 .. MaxSends /\ MaxSends \in Nat
    BY <1>4, ThreadSendAssumption DEF Finish, At, SendIds
  <2>2. served' \subseteq SendIds
    BY <1>4, <2>1, TopType DEF Finish, StackOK, FlagTypeOK
  <2>3. QED
    BY <1>4, <2>2 DEF Finish, FlagTypeOK, lists
<1>5. ASSUME NEW t \in Threads, PushSend(t)
      PROVE  FlagTypeOK'
  BY <1>5 DEF PushSend, FlagTypeOK, flags
<1>6. ASSUME NEW t \in Threads, WakePeer(t)
      PROVE  FlagTypeOK'
  BY <1>6 DEF WakePeer, FlagTypeOK, lists, flags
<1>7. ASSUME NEW t \in Threads, NotReady(t)
      PROVE  FlagTypeOK'
  BY <1>7 DEF NotReady, FlagTypeOK, lists, flags
<1>8. ASSUME NEW t \in Threads, ReturnFromSend(t)
      PROVE  FlagTypeOK'
  BY <1>8 DEF ReturnFromSend, FlagTypeOK, lists, flags
<1>9. ASSUME NEW t \in Threads, NothingSent(t)
      PROVE  FlagTypeOK'
  BY <1>9 DEF NothingSent, FlagTypeOK, lists, flags
<1>10. ASSUME NEW t \in Threads, SomethingSent(t)
       PROVE  FlagTypeOK'
  BY <1>10 DEF SomethingSent, FlagTypeOK, lists, flags
<1>11. ASSUME NEW t \in Threads, PopSend(t)
       PROVE  FlagTypeOK'
  BY <1>11 DEF PopSend, FlagTypeOK, flags
<1>12. ASSUME NEW t \in Threads, Answer(t)
       PROVE  FlagTypeOK'
  BY <1>12 DEF Answer, FlagTypeOK, lists
<1>13. ASSUME NEW t \in Threads, WakeSender(t)
       PROVE  FlagTypeOK'
  BY <1>13 DEF WakeSender, FlagTypeOK, lists, flags
<1>14. ASSUME NEW t \in Threads, NoMoreSends(t)
       PROVE  FlagTypeOK'
  BY <1>14 DEF NoMoreSends, FlagTypeOK, flags
<1>15. ASSUME NEW t \in Threads, EnterWait(t)
       PROVE  FlagTypeOK'
  BY <1>15 DEF EnterWait, FlagTypeOK, lists, flags
<1>16. ASSUME NEW t \in Threads, Woken(t)
       PROVE  FlagTypeOK'
  BY <1>16 DEF Woken, FlagTypeOK, lists, flags
<1>17. ASSUME NEW t \in Threads, LeaveWait(t)
       PROVE  FlagTypeOK'
  BY <1>17 DEF LeaveWait, FlagTypeOK, lists, flags
<1>18. ASSUME NEW t \in Threads, TakePosted(t)
       PROVE  FlagTypeOK'
  BY <1>18 DEF TakePosted, FlagTypeOK, flags
<1>19. ASSUME NEW t \in Threads, NothingPosted(t)
       PROVE  FlagTypeOK'
  BY <1>19 DEF NothingPosted, FlagTypeOK, lists, flags
<1>20. ASSUME NEW t \in Threads, StopTest(t)
       PROVE  FlagTypeOK'
  BY <1>20 DEF StopTest, FlagTypeOK, lists, flags
<1>21. ASSUME NEW r \in Loops, SocketEvent(r)
       PROVE  FlagTypeOK'
  BY <1>21 DEF SocketEvent, FlagTypeOK, lists
<1>22. ASSUME NEW r \in Loops, Quit(r)
       PROVE  FlagTypeOK'
  BY <1>22 DEF Quit, FlagTypeOK, lists
<1>23. ASSUME NEW r \in Loops, Destroy(r)
       PROVE  FlagTypeOK'
  <2> DEFINE doomed == Range(sendlist_[r])
  <2>1. ClearAll(r) /\ UNCHANGED <<crit_, fWait_, fStop_, served>>
    BY <1>23 DEF Destroy
  <2>2. \A s \in doomed : s.id \in SendIds
    <3>1. sendlist_[r] \in Seq(Sends)
      BY DEF ListTypeOK
    <3>2. doomed \in SUBSET Sends
      BY <3>1, RangeOfSeq
    <3> HIDE DEF doomed
    <3>3. QED
      BY <3>2 DEF Sends
  <2>3. /\ has_sends_' = has_sends_
        /\ ready' = [k \in SendIds |-> ready[k] \/ \E s \in doomed : s.id = k]
        /\ cleared' = cleared \union {s.id : s \in doomed}
        /\ signaled_' = [u \in Threads |->
                          signaled_[u] \/ \E s \in doomed : s.from = u]
    BY <2>1 DEF ClearAll
  <2> HIDE DEF doomed
  <2>4. (ready' \in [SendIds -> BOOLEAN]) /\ (signaled_' \in [Threads -> BOOLEAN])
    BY <2>3
  <2>5. cleared' \subseteq SendIds
    BY <2>2, <2>3 DEF FlagTypeOK
  <2>6. QED
    BY <2>1, <2>3, <2>4, <2>5 DEF FlagTypeOK
<1>24. CASE UNCHANGED vars
  BY <1>24 DEF FlagTypeOK, vars, lists, flags
<1>25. QED
  BY <1>1, <1>2, <1>3, <1>4, <1>5, <1>6, <1>7, <1>8, <1>9, <1>10,
     <1>11, <1>12, <1>13, <1>14, <1>15, <1>16, <1>17, <1>18, <1>19, <1>20,
     <1>21, <1>22, <1>23, <1>24
     DEF Next, Internal

(* Only a frame that is to answer, on top, or Clear raises the flag of a send. *)
LEMMA ReadyStep ==
  ASSUME StackOK, FlagTypeOK, ReadyMeansServed, [Next]_vars
  PROVE  ReadyMeansServed'
<1>1. ASSUME NEW t \in Threads, NEW r \in Loops, BeginSend(t, r)
      PROVE  ReadyMeansServed'
  BY <1>1 DEF BeginSend, ReadyMeansServed, lists
<1>2. ASSUME NEW t \in Threads, NEW r \in Loops, Post(t, r)
      PROVE  ReadyMeansServed'
  BY <1>2 DEF Post, ReadyMeansServed
<1>3. ASSUME NEW t \in Threads, NEW r \in Loops, Clear(t, r)
      PROVE  ReadyMeansServed'
  <2> DEFINE doomed == Range(sendlist_[r])
  <2>1. ClearAll(r) /\ served' = served
    BY <1>3 DEF Clear
  <2>2. /\ ready' = [k \in SendIds |-> ready[k] \/ \E s \in doomed : s.id = k]
        /\ cleared' = cleared \union {s.id : s \in doomed}
    BY <2>1 DEF ClearAll
  <2> HIDE DEF doomed
  <2>3. QED
    BY <2>1, <2>2 DEF ReadyMeansServed
<1>4. ASSUME NEW t \in Threads, Finish(t)
      PROVE  ReadyMeansServed'
  BY <1>4 DEF Finish, ReadyMeansServed
<1>5. ASSUME NEW t \in Threads, PushSend(t)
      PROVE  ReadyMeansServed'
  BY <1>5 DEF PushSend, ReadyMeansServed, flags
<1>6. ASSUME NEW t \in Threads, WakePeer(t)
      PROVE  ReadyMeansServed'
  BY <1>6 DEF WakePeer, ReadyMeansServed, lists, flags
<1>7. ASSUME NEW t \in Threads, NotReady(t)
      PROVE  ReadyMeansServed'
  BY <1>7 DEF NotReady, ReadyMeansServed, lists, flags
<1>8. ASSUME NEW t \in Threads, ReturnFromSend(t)
      PROVE  ReadyMeansServed'
  BY <1>8 DEF ReturnFromSend, ReadyMeansServed, lists, flags
<1>9. ASSUME NEW t \in Threads, NothingSent(t)
      PROVE  ReadyMeansServed'
  BY <1>9 DEF NothingSent, ReadyMeansServed, lists, flags
<1>10. ASSUME NEW t \in Threads, SomethingSent(t)
       PROVE  ReadyMeansServed'
  BY <1>10 DEF SomethingSent, ReadyMeansServed, lists, flags
<1>11. ASSUME NEW t \in Threads, PopSend(t)
       PROVE  ReadyMeansServed'
  BY <1>11 DEF PopSend, ReadyMeansServed, flags
<1>12. ASSUME NEW t \in Threads, Answer(t)
       PROVE  ReadyMeansServed'
  <2>1. stack[t] # <<>> /\ Top(t).at = "answer"
    BY <1>12 DEF Answer, At
  <2>2. Top(t).id \in served
    <3>1. stack[t] \in Seq(FrameOf(t)) /\ Answers(stack[t], served)
      BY DEF StackOK, StackTypeOK, AnswersFollow
    <3>2. Len(stack[t]) \in Nat \ {0} /\ Top(t) = stack[t][Len(stack[t])]
      BY <2>1, <3>1, FrontOfSeq DEF Top
    <3>3. Len(stack[t]) \in 1 .. Len(stack[t])
      BY <3>2
    <3>4. QED
      BY <2>1, <3>1, <3>2, <3>3 DEF Answers
  <2>3. /\ ready' = [ready EXCEPT ![Top(t).id] = TRUE]
        /\ served' = served /\ cleared' = cleared
    BY <1>12 DEF Answer
  <2>4. \A k \in SendIds : k # Top(t).id => ready'[k] = ready[k]
    BY <2>3 DEF FlagTypeOK
  <2>5. QED
    BY <2>2, <2>3, <2>4 DEF ReadyMeansServed
<1>13. ASSUME NEW t \in Threads, WakeSender(t)
       PROVE  ReadyMeansServed'
  BY <1>13 DEF WakeSender, ReadyMeansServed, lists, flags
<1>14. ASSUME NEW t \in Threads, NoMoreSends(t)
       PROVE  ReadyMeansServed'
  BY <1>14 DEF NoMoreSends, ReadyMeansServed, flags
<1>15. ASSUME NEW t \in Threads, EnterWait(t)
       PROVE  ReadyMeansServed'
  BY <1>15 DEF EnterWait, ReadyMeansServed, lists, flags
<1>16. ASSUME NEW t \in Threads, Woken(t)
       PROVE  ReadyMeansServed'
  BY <1>16 DEF Woken, ReadyMeansServed, lists, flags
<1>17. ASSUME NEW t \in Threads, LeaveWait(t)
       PROVE  ReadyMeansServed'
  BY <1>17 DEF LeaveWait, ReadyMeansServed, lists, flags
<1>18. ASSUME NEW t \in Threads, TakePosted(t)
       PROVE  ReadyMeansServed'
  BY <1>18 DEF TakePosted, ReadyMeansServed, flags
<1>19. ASSUME NEW t \in Threads, NothingPosted(t)
       PROVE  ReadyMeansServed'
  BY <1>19 DEF NothingPosted, ReadyMeansServed, lists, flags
<1>20. ASSUME NEW t \in Threads, StopTest(t)
       PROVE  ReadyMeansServed'
  BY <1>20 DEF StopTest, ReadyMeansServed, lists, flags
<1>21. ASSUME NEW r \in Loops, SocketEvent(r)
       PROVE  ReadyMeansServed'
  BY <1>21 DEF SocketEvent, ReadyMeansServed, lists
<1>22. ASSUME NEW r \in Loops, Quit(r)
       PROVE  ReadyMeansServed'
  BY <1>22 DEF Quit, ReadyMeansServed, lists
<1>23. ASSUME NEW r \in Loops, Destroy(r)
       PROVE  ReadyMeansServed'
  <2> DEFINE doomed == Range(sendlist_[r])
  <2>1. ClearAll(r) /\ served' = served
    BY <1>23 DEF Destroy
  <2>2. /\ ready' = [k \in SendIds |-> ready[k] \/ \E s \in doomed : s.id = k]
        /\ cleared' = cleared \union {s.id : s \in doomed}
    BY <2>1 DEF ClearAll
  <2> HIDE DEF doomed
  <2>3. QED
    BY <2>1, <2>2 DEF ReadyMeansServed
<1>24. CASE UNCHANGED vars
  BY <1>24 DEF ReadyMeansServed, vars, lists, flags
<1>25. QED
  BY <1>1, <1>2, <1>3, <1>4, <1>5, <1>6, <1>7, <1>8, <1>9, <1>10,
     <1>11, <1>12, <1>13, <1>14, <1>15, <1>16, <1>17, <1>18, <1>19, <1>20,
     <1>21, <1>22, <1>23, <1>24
     DEF Next, Internal

-----------------------------------------------------------------------------
(* Theorems. *)
IInv ==
  /\ StackOK /\ ListTypeOK /\ CountTypeOK /\ FlagTypeOK
  /\ SendsAreFlagged /\ ReadyMeansServed

LEMMA InitIInv == Init => IInv
<1> SUFFICES ASSUME Init PROVE IInv
  OBVIOUS
<1>1. ASSUME NEW t \in Threads
      PROVE  stack[t] \in Seq(FrameOf(t)) /\ Answers(stack[t], served)
  <2>1. CASE t \in Loops
    <3> DEFINE f == Frame("check", 0, None)
    <3>1. f \in FrameOf(t) /\ f.at = "check"
      <4>1. "check" \in Places \ Numbered /\ 0 \in 0 .. MaxSends
        BY ThreadSendAssumption DEF Places, Numbered
      <4>2. QED
        BY <2>1, <4>1, NewFrameType
    <3>2. stack[t] = <<f>>
      BY <2>1 DEF Init
    <3> HIDE DEF f
    <3>3. <<f>> \in Seq(FrameOf(t)) /\ Len(<<f>>) = 1 /\ <<f>>[1] = f
      BY <3>1
    <3>4. \A k \in 1 .. Len(<<f>>) : <<f>>[k] = f
      BY <3>3
    <3>5. QED
      BY <3>1, <3>2, <3>3, <3>4 DEF Answers
  <2>2. CASE t \notin Loops
    <3>1. stack[t] = <<>>
      BY <2>2 DEF Init
    <3>2. <<>> \in Seq(FrameOf(t)) /\ Len(<<>>) = 0
      BY EmptySeq
    <3>3. QED
      BY <3>1, <3>2 DEF Answers
  <2>3. QED
    BY <2>1, <2>2
<1>2. stack = [t \in Threads |-> stack[t]]
  BY DEF Init
<1>3. StackOK
  BY <1>1, <1>2 DEF StackOK, StackTypeOK, AnswersFollow
<1>4. ListTypeOK /\ SendsAreFlagged
  <2>1. <<>> \in Seq(Sends)
    BY EmptySeq
  <2>2. QED
    BY <2>1 DEF Init, ListTypeOK, SendsAreFlagged
<1>5. CountTypeOK
  BY ThreadSendAssumption DEF Init, CountTypeOK
<1>6. FlagTypeOK
  BY DEF Init, FlagTypeOK
<1>7. ReadyMeansServed
  BY DEF Init, ReadyMeansServed
<1>8. QED
  BY <1>3, <1>4, <1>5, <1>6, <1>7 DEF IInv

LEMMA NextIInv == IInv /\ [Next]_vars => IInv'
<1> SUFFICES ASSUME IInv, [Next]_vars PROVE IInv'
  OBVIOUS
<1>1. StackOK' /\ CountTypeOK' /\ FlagTypeOK'
  BY StackStep, CountStep, FlagStep DEF IInv
<1>2. (ListTypeOK /\ SendsAreFlagged)'
  BY ListStep DEF IInv
<1>3. ReadyMeansServed'
  BY ReadyStep DEF IInv
<1>4. QED
  BY <1>1, <1>2, <1>3 DEF IInv

LEMMA IInvType == IInv => TypeOK
<1> SUFFICES ASSUME IInv PROVE TypeOK
  OBVIOUS
<1>1. ASSUME NEW t \in Threads, NEW i \in 1 .. Len(stack[t])
      PROVE  stack[t][i] \in AnyFrame
  <2>1. stack[t] \in Seq(FrameOf(t))
    BY DEF IInv, StackOK, StackTypeOK
  <2>2. stack[t][i] \in FrameOf(t)
    BY <2>1, ElementOfSeq
  <2>3. QED
    BY <2>2 DEF FrameOf
<1>2. ASSUME NEW r \in Loops, NEW i \in 1 .. Len(sendlist_[r])
      PROVE  sendlist_[r][i] \in Sends
  <2>1. sendlist_[r] \in Seq(Sends)
    BY DEF IInv, ListTypeOK
  <2>2. QED
    BY <2>1, ElementOfSeq
<1>3. msgq_ \in [Loops -> 0 .. MaxPosts]
  <2>1. MaxPosts \in Nat /\ count.posts \in 0 .. MaxPosts
    BY ThreadSendAssumption DEF IInv, CountTypeOK
  <2>2. QED
    BY <2>1 DEF IInv, CountTypeOK
<1>4. QED
  BY <1>1, <1>2, <1>3 DEF TypeOK, IInv, FlagTypeOK, AnyFrame, Sends

LEMMA InvariantHolds == Spec => []IInv
  BY InitIInv, NextIInv, PTL DEF Spec

(* Every variable holds a value the code could hold. *)
THEOREM TypesHold == Spec => []TypeOK
  BY InvariantHolds, IInvType, PTL

(* The flag that ReceiveSends tests without the lock never hides a pushed  *)
(* send (thread.cpp:448-471).                                              *)
THEOREM NoSendIsHidden == Spec => []SendsAreFlagged
<1>1. IInv => SendsAreFlagged
  BY DEF IInv
<1>2. QED
  BY <1>1, InvariantHolds, PTL

(* Send is synchronous, whatever handlers, sockets and other sends its     *)
(* receiver nests: the flag it waits for is up only when its handler has   *)
(* returned or the send was cleared.                                       *)
THEOREM SendsAreSynchronous == Spec => []ReadyMeansServed
<1>1. IInv => ReadyMeansServed
  BY DEF IInv
<1>2. QED
  BY <1>1, InvariantHolds, PTL

-----------------------------------------------------------------------------
(* No lost wake-up.                                                        *)
(*                                                                         *)
(* A frame that is about to wait has looked at its answer, at the sends    *)
(* and at the posts of its thread.  What came since is known: the pipe is  *)
(* signalled, or some thread stands right before signalling.  A frame that *)
(* does not know has a frame above it that waited too, took the signal and *)
(* gives it back when it returns.                                          *)

(* the frames of Get, at the bottom of a loop's stack *)
IsBase(f) ==
  \/ f.at \in {"check", "scan", "stoptest", "exit", "gone"}
  \/ f.at \in {"enterwait", "wait"} /\ f.id = 0

IsSend(f) == f.at \in InSend /\ f.id # 0
IsAnswer(f) == f.at \in {"answer", "wakesender"}
IsReceive(f) == f.at \in {"pop", "answer", "wakesender"}
IsBusy(f) == f.at \notin {"receive", "scan", "stoptest", "enterwait", "wait"}

(* a frame that signals its thread when it returns, or will wait until it is woken *)
Waits(f) == f.at = "wait" \/ f.waited

FrameOK(f) ==
  /\ f.waited => f.id # 0 /\ f.at \in {"test", "receive", "enterwait", "wait"}
  /\ f.at \in {"check", "scan", "stoptest"} => f.id = 0
  /\ IsAnswer(f) => f.peer # None

Shape(t, st) ==
  /\ \A k \in 1 .. Len(st) : IsBase(st[k]) => k = 1
  /\ \A k \in 1 .. Len(st) : FrameOK(st[k])
  /\ t \in Loops \/ Len(st) <= 1

(* frame k will not sleep before it has looked again: its Wait is over, or *)
(* a frame above it consumed the signal and will give it back              *)
Kept(st, k, known) ==
  \/ st[k].at = "wait" /\ "left" \in known
  \/ \E j \in k + 1 .. Len(st) : Waits(st[j])

(* what a frame would sleep over is known to whoever is about to signal *)
AnswerSeen(f, rd, known) ==
  f.at \in {"receive", "enterwait", "wait"} /\ f.id # 0 /\ f.id \in rd
    => "answers" \in known

PostSeen(f, known) ==
  f.at \in {"stoptest", "enterwait", "wait"} /\ f.id = 0 => "posts" \in known

(* the frame looked at the list of sends, and will not before it sleeps *)
Deaf(f) == f.at \in {"scan", "stoptest", "enterwait", "wait"}

SendSeen(st, k, known) ==
  Deaf(st[k]) =>
    \/ "sends" \in known
    \/ \E j \in 1 .. Len(st) : j = k + 1 /\ IsReceive(st[j])

Awake(st, rd, known) ==
  \A k \in 1 .. Len(st) :
    \/ Kept(st, k, known)
    \/ AnswerSeen(st[k], rd, known) /\ SendSeen(st, k, known) /\ PostSeen(st[k], known)

Wakeful(t, st, rd, known) == Shape(t, st) /\ Awake(st, rd, known)

Ready == {i \in SendIds : ready[i]}

AnswerKnown(t) ==
  signaled_[t] \/ \E r \in Threads : At(r, "wakesender") /\ Top(r).peer = t

SendKnown(t) ==
  \/ t \notin Loops \/ sendlist_[t] = <<>> \/ signaled_[t]
  \/ \E s \in Threads : At(s, "wakepeer") /\ Top(s).peer = t

PostKnown(t) == t \notin Loops \/ msgq_[t] = 0 \/ signaled_[t]

Known(t) ==
  {w \in {"answers", "sends", "posts", "left"} :
     /\ w = "answers" => AnswerKnown(t)
     /\ w = "sends" => SendKnown(t)
     /\ w = "posts" => PostKnown(t)
     /\ w = "left" => ~fWait_[t]}

AllWakeful == \A t \in Threads : Wakeful(t, stack[t], Ready, Known(t))

(* whose send number i is *)
Owns(t, i) ==
  \/ \E f \in Range(stack[t]) : IsSend(f) /\ f.id = i
  \/ \E r \in Loops : \E s \in Range(sendlist_[r]) : s.id = i /\ s.from = t
  \/ \E u \in Threads : \E f \in Range(stack[u]) : IsAnswer(f) /\ f.id = i /\ f.peer = t

Owners ==
  \A i \in SendIds, t \in Threads : Owns(t, i) =>
     i <= count.sends /\ \A u \in Threads : Owns(u, i) => t = u

LEMMA SameStackWakeful ==
  ASSUME NEW t, NEW st, NEW rd, NEW known, NEW more, NEW wider,
         Wakeful(t, st, rd, known), known \subseteq more,
         \A k \in 1 .. Len(st) : IsSend(st[k]) /\ st[k].id \in wider =>
           st[k].id \in rd \/ "answers" \in more
  PROVE  Wakeful(t, st, wider, more)
<1>1. ASSUME NEW k \in 1 .. Len(st)
      PROVE  \/ Kept(st, k, more)
             \/ AnswerSeen(st[k], wider, more) /\ SendSeen(st, k, more) /\ PostSeen(st[k], more)
  <2>1. CASE Kept(st, k, known)
    BY <2>1 DEF Kept
  <2>2. CASE AnswerSeen(st[k], rd, known) /\ SendSeen(st, k, known) /\ PostSeen(st[k], known)
    BY <2>2 DEF AnswerSeen, SendSeen, PostSeen, Deaf, IsSend, InSend
  <2>3. QED
    BY <2>1, <2>2 DEF Wakeful, Awake
<1>2. QED
  BY <1>1 DEF Wakeful, Awake

(* a Wait that is over: all frames will look again *)
LEMMA WokenWakeful ==
  ASSUME NEW t, NEW S, NEW st \in Seq(S), st # <<>>, NEW rd, NEW known, NEW other,
         Wakeful(t, st, rd, known), Last(st).at = "wait", "left" \in other
  PROVE  Wakeful(t, st, rd, other)
<1>1. Len(st) \in Nat \ {0} /\ Last(st) = st[Len(st)]
  BY FrontOfSeq
<1>2. ASSUME NEW k \in 1 .. Len(st)
      PROVE  Kept(st, k, other)
  <2>1. CASE k = Len(st)
    BY <1>1, <2>1 DEF Kept
  <2>2. CASE k # Len(st)
    <3>1. Len(st) \in k + 1 .. Len(st)
      BY <1>1, <2>2
    <3>2. QED
      BY <1>1, <3>1 DEF Kept, Waits
  <2>3. QED
    BY <2>1, <2>2
<1>3. QED
  BY <1>2 DEF Wakeful, Awake

LEMMA CallWakeful ==
  ASSUME NEW t, NEW S, NEW st \in Seq(S), NEW f \in S, NEW rd, NEW known,
         Wakeful(t, st, rd, known), ~IsBase(f), FrameOK(f), IsBusy(f),
         t \in Loops \/ st = <<>>
  PROVE  Wakeful(t, Append(st, f), rd, known)
<1> DEFINE new == Append(st, f)
<1>1. /\ Len(st) \in Nat /\ Len(new) = Len(st) + 1
      /\ \A i \in 1 .. Len(st) : new[i] = st[i]
      /\ new[Len(st) + 1] = f
  BY AppendToSeq
<1>2. st = <<>> => Len(st) = 0
  BY EmptySeq
<1> HIDE DEF new
<1>3. ASSUME NEW k \in 1 .. Len(new)
      PROVE  /\ k = Len(st) + 1 => new[k] = f
             /\ k # Len(st) + 1 => k \in 1 .. Len(st) /\ new[k] = st[k]
  BY <1>1
<1>4. Shape(t, new)
  BY <1>1, <1>2, <1>3 DEF Wakeful, Shape
<1>5. ASSUME NEW k \in 1 .. Len(new)
      PROVE  \/ Kept(new, k, known)
             \/ AnswerSeen(new[k], rd, known) /\ SendSeen(new, k, known) /\ PostSeen(new[k], known)
  <2>1. CASE k = Len(st) + 1
    BY <1>3, <2>1 DEF AnswerSeen, SendSeen, PostSeen, Deaf, IsBusy
  <2>2. CASE k # Len(st) + 1
    <3>1. k \in 1 .. Len(st) /\ new[k] = st[k]
      BY <1>3, <2>2
    <3>2. CASE Kept(st, k, known)
      <4>1. \A j \in k + 1 .. Len(st) : j \in k + 1 .. Len(new) /\ new[j] = st[j]
        BY <1>1, <3>1
      <4>2. QED
        BY <3>1, <3>2, <4>1 DEF Kept
    <3>3. CASE AnswerSeen(st[k], rd, known) /\ SendSeen(st, k, known) /\ PostSeen(st[k], known)
      <4>1. \A j \in 1 .. Len(st) : j \in 1 .. Len(new) /\ new[j] = st[j]
        BY <1>1
      <4>2. QED
        BY <3>1, <3>3, <4>1 DEF AnswerSeen, SendSeen, PostSeen, Deaf
    <3>4. QED
      BY <3>1, <3>2, <3>3 DEF Wakeful, Awake
  <2>3. QED
    BY <2>1, <2>2
<1>6. QED
  BY <1>4, <1>5 DEF Wakeful, Awake, new

LEMMA ReturnWakeful ==
  ASSUME NEW t, NEW S, NEW st \in Seq(S), st # <<>>, NEW rd, NEW known, NEW more,
         Wakeful(t, st, rd, known),
         t \in Loops => /\ known \subseteq more
                        /\ Waits(Last(st)) => {"answers", "sends", "posts"} \subseteq more
                        /\ IsReceive(Last(st)) => "sends" \in more
  PROVE  Wakeful(t, Front(st), rd, more)
<1> DEFINE new == Front(st)
<1>1. /\ Len(st) \in Nat \ {0} /\ Len(new) = Len(st) - 1
      /\ \A i \in 1 .. Len(st) - 1 : new[i] = st[i]
      /\ Last(st) = st[Len(st)]
  BY FrontOfSeq
<1> HIDE DEF new
<1>2. Shape(t, new)
  BY <1>1 DEF Wakeful, Shape
<1>3. ASSUME NEW k \in 1 .. Len(new)
      PROVE  \/ Kept(new, k, more)
             \/ AnswerSeen(new[k], rd, more) /\ SendSeen(new, k, more) /\ PostSeen(new[k], more)
  <2>1. /\ k \in 1 .. Len(st) /\ k < Len(st) /\ new[k] = st[k] /\ t \in Loops
    BY <1>1 DEF Wakeful, Shape
  <2>2. CASE Waits(Last(st))
    BY <2>1, <2>2 DEF AnswerSeen, SendSeen, PostSeen, Deaf
  <2>3. CASE ~Waits(Last(st)) /\ Kept(st, k, known)
    <3>1. CASE st[k].at = "wait" /\ "left" \in known
      BY <2>1, <3>1 DEF Kept
    <3>2. CASE \E j \in k + 1 .. Len(st) : Waits(st[j])
      <4>1. PICK j \in k + 1 .. Len(st) : Waits(st[j])
        BY <3>2
      <4>2. j \in k + 1 .. Len(new) /\ new[j] = st[j]
        BY <1>1, <2>1, <2>3, <4>1
      <4>3. QED
        BY <4>1, <4>2 DEF Kept
    <3>3. QED
      BY <2>3, <3>1, <3>2 DEF Kept
  <2>4. CASE AnswerSeen(st[k], rd, known) /\ SendSeen(st, k, known) /\ PostSeen(st[k], known)
    <3>1. AnswerSeen(new[k], rd, more) /\ PostSeen(new[k], more)
      BY <2>1, <2>4 DEF AnswerSeen, PostSeen
    <3>2. ASSUME NEW j \in 1 .. Len(st), j = k + 1, IsReceive(st[j])
          PROVE  SendSeen(new, k, more)
      <4>1. CASE j = Len(st)
        BY <1>1, <2>1, <3>2, <4>1 DEF SendSeen, Deaf
      <4>2. CASE j # Len(st)
        <5>1. j \in 1 .. Len(new) /\ new[j] = st[j]
          BY <1>1, <3>2, <4>2
        <5>2. QED
          BY <3>2, <5>1 DEF SendSeen, Deaf
      <4>3. QED
        BY <4>1, <4>2
    <3>3. SendSeen(new, k, more)
      BY <2>1, <2>4, <3>2 DEF SendSeen, Deaf
    <3>4. QED
      BY <3>1, <3>3
  <2>5. QED
    BY <2>1, <2>2, <2>3, <2>4 DEF Wakeful, Awake
<1>4. QED
  BY <1>2, <1>3 DEF Wakeful, Awake, new

(* the top frame f moves on, and may call g *)
LEMMA ReplaceWakeful ==
  ASSUME NEW t, NEW st, NEW new, NEW n \in Nat \ {0}, NEW f, NEW rd, NEW known, NEW more,
         Wakeful(t, st, rd, known), Len(st) = n, Len(new) \in {n, n + 1},
         \A k \in 1 .. n - 1 : new[k] = st[k],
         new[n] = f,
         IsBase(f) => IsBase(st[n]), FrameOK(f),
         Waits(st[n]) => Waits(f) \/ IsBase(st[n]),
         IsReceive(st[n]) => IsReceive(f),
         Waits(f) \/ known \subseteq more,
         Len(new) = n + 1 => /\ t \in Loops /\ IsBusy(new[n + 1])
                             /\ ~IsBase(new[n + 1]) /\ FrameOK(new[n + 1]),
         \/ f.at = "wait" /\ "left" \in more
         \/ AnswerSeen(f, rd, more) /\ SendSeen(new, n, more) /\ PostSeen(f, more)
  PROVE  Wakeful(t, new, rd, more)
<1>1. ASSUME NEW k \in 1 .. Len(new)
      PROVE  \/ k \in 1 .. n - 1 /\ k \in 1 .. Len(st) /\ new[k] = st[k]
             \/ k = n /\ new[k] = f
             \/ k = n + 1 /\ Len(new) = n + 1
  <2> DEFINE l == Len(new)
  <2>1. l \in {n, n + 1} /\ k \in 1 .. l /\ Len(st) = n
    OBVIOUS
  <2> HIDE DEF l
  <2>2. k \in 1 .. n - 1 \/ k = n \/ (k = n + 1 /\ l = n + 1)
    BY <2>1
  <2>3. k \in 1 .. n - 1 => k \in 1 .. Len(st)
    BY <2>1
  <2>4. QED
    BY <2>2, <2>3 DEF l
<1>2. n \in 1 .. Len(st) /\ n \in 1 .. Len(new)
  OBVIOUS
<1>3. Shape(t, new)
  <2>1. \A k \in 1 .. Len(new) : IsBase(new[k]) => k = 1
    BY <1>1, <1>2 DEF Wakeful, Shape
  <2>2. \A k \in 1 .. Len(new) : FrameOK(new[k])
    BY <1>1 DEF Wakeful, Shape
  <2>3. t \in Loops \/ Len(new) <= 1
    BY DEF Wakeful, Shape
  <2>4. QED
    BY <2>1, <2>2, <2>3 DEF Shape
<1>4. ASSUME NEW k \in 1 .. n - 1
      PROVE  \/ Kept(new, k, more)
             \/ AnswerSeen(new[k], rd, more) /\ SendSeen(new, k, more) /\ PostSeen(new[k], more)
  <2>0. k \in Nat /\ k < n /\ n # 1 /\ new[k] = st[k]
    OBVIOUS
  <2>1. k \in 1 .. Len(st) /\ n \in k + 1 .. Len(new)
    BY <1>2, <2>0
  <2>6. ~IsBase(st[n])
    BY <1>2, <2>0 DEF Wakeful, Shape
  <2>2. CASE Waits(f)
    BY <2>1, <2>2 DEF Kept
  <2>3. CASE ~Waits(f) /\ Kept(st, k, known)
    <3>1. CASE st[k].at = "wait" /\ "left" \in known
      BY <2>0, <2>3, <3>1 DEF Kept
    <3>2. CASE \E j \in k + 1 .. Len(st) : Waits(st[j])
      <4>1. PICK j \in k + 1 .. Len(st) : Waits(st[j])
        BY <3>2
      <4>2. j # n
        BY <2>6, <2>3, <4>1
      <4>3. j \in 1 .. n - 1 /\ k + 1 <= j
        BY <2>0, <4>1, <4>2
      <4>6. new[j] = st[j]
        BY <4>3
      <4>5. j \in k + 1 .. Len(new) /\ new[j] = st[j]
        BY <2>0, <4>3, <4>6
      <4>4. QED
        BY <4>1, <4>5 DEF Kept
    <3>3. QED
      BY <2>3, <3>1, <3>2 DEF Kept
  <2>4. CASE /\ ~Waits(f)
             /\ AnswerSeen(st[k], rd, known) /\ SendSeen(st, k, known) /\ PostSeen(st[k], known)
    <3>1. AnswerSeen(new[k], rd, more) /\ PostSeen(new[k], more)
      BY <2>0, <2>1, <2>4 DEF AnswerSeen, PostSeen
    <3>2. ASSUME NEW j \in 1 .. Len(st), j = k + 1, IsReceive(st[j])
          PROVE  j \in 1 .. Len(new) /\ IsReceive(new[j])
      <4>1. CASE j = n
        BY <3>2, <4>1
      <4>2. CASE j # n
        BY <3>2, <4>2
      <4>3. QED
        BY <4>1, <4>2
    <3>3. SendSeen(new, k, more)
      BY <2>0, <2>1, <2>4, <3>2 DEF SendSeen, Deaf
    <3>4. QED
      BY <3>1, <3>3
  <2>5. QED
    BY <2>1, <2>2, <2>3, <2>4 DEF Wakeful, Awake
<1>5. ASSUME Len(new) = n + 1
      PROVE  /\ AnswerSeen(new[n + 1], rd, more) /\ SendSeen(new, n + 1, more)
             /\ PostSeen(new[n + 1], more)
  BY <1>5 DEF AnswerSeen, SendSeen, PostSeen, Deaf, IsBusy
<1>6. f.at = "wait" /\ "left" \in more => Kept(new, n, more)
  BY DEF Kept
<1>7. QED
  BY <1>1, <1>3, <1>4, <1>5, <1>6 DEF Wakeful, Awake

-----------------------------------------------------------------------------
(* What a step does to the stack of its thread. *)

LEMMA TopSeen ==
  ASSUME NEW t, NEW S, NEW st \in Seq(S), st # <<>>, NEW rd, NEW known,
         Wakeful(t, st, rd, known)
  PROVE  /\ FrameOK(Last(st))
         /\ Last(st).at # "wait" \/ "left" \notin known =>
              /\ AnswerSeen(Last(st), rd, known) /\ PostSeen(Last(st), known)
              /\ Deaf(Last(st)) => "sends" \in known
<1>1. Len(st) \in Nat \ {0} /\ Last(st) = st[Len(st)] /\ Len(st) \in 1 .. Len(st)
  <2>1. Len(st) \in Nat \ {0} /\ Last(st) = st[Len(st)]
    BY FrontOfSeq
  <2>2. QED
    BY <2>1
<1>2. FrameOK(Last(st))
  BY <1>1 DEF Wakeful, Shape
<1>3. ASSUME Last(st).at # "wait" \/ "left" \notin known
      PROVE  /\ AnswerSeen(Last(st), rd, known) /\ PostSeen(Last(st), known)
             /\ Deaf(Last(st)) => "sends" \in known
  <2>1. ~Kept(st, Len(st), known)
    BY <1>1, <1>3 DEF Kept
  <2>2. \A j \in 1 .. Len(st) : j # Len(st) + 1
    BY <1>1
  <2>3. AnswerSeen(Last(st), rd, known) /\ PostSeen(Last(st), known)
        /\ SendSeen(st, Len(st), known)
    BY <1>1, <2>1 DEF Wakeful, Awake
  <2>4. QED
    BY <1>1, <2>2, <2>3 DEF SendSeen
<1>4. QED
  BY <1>2, <1>3

(* what frame g must keep of frame f, which it replaces *)
MovesOn(f, g, known, more) ==
  /\ IsBase(g) => IsBase(f)
  /\ FrameOK(g)
  /\ Waits(f) => Waits(g) \/ IsBase(f)
  /\ IsReceive(f) => IsReceive(g)
  /\ Waits(g) \/ known \subseteq more

LEMMA BecomeWakeful ==
  ASSUME NEW t, NEW S, NEW st \in Seq(S), st # <<>>, NEW f \in S,
         NEW rd, NEW known, NEW more, Wakeful(t, st, rd, known),
         MovesOn(Last(st), f, known, more),
         AnswerSeen(f, rd, more), PostSeen(f, more), Deaf(f) => "sends" \in more
  PROVE  Wakeful(t, Append(Front(st), f), rd, more)
<1> DEFINE new == Append(Front(st), f)
           n == Len(st)
<1>1. /\ n \in Nat \ {0} /\ Front(st) \in Seq(S) /\ Len(Front(st)) = n - 1
      /\ \A i \in 1 .. n - 1 : Front(st)[i] = st[i]
      /\ Last(st) = st[n]
  BY FrontOfSeq
<1>2. /\ Len(new) = n /\ new[n] = f
      /\ \A i \in 1 .. n - 1 : new[i] = st[i]
  BY <1>1, AppendToSeq
<1> HIDE DEF new
<1>3. SendSeen(new, n, more)
  BY <1>2 DEF SendSeen
<1>4. Wakeful(t, new, rd, more)
  <2> HIDE DEF n
  <2>1. n = Len(st) /\ Len(new) \in {n, n + 1}
    BY <1>1, <1>2 DEF n
  <2>2. Len(new) = n + 1 => /\ t \in Loops /\ IsBusy(new[n + 1])
                            /\ ~IsBase(new[n + 1]) /\ FrameOK(new[n + 1])
    BY <1>1, <1>2
  <2>3. \/ f.at = "wait" /\ "left" \in more
        \/ AnswerSeen(f, rd, more) /\ SendSeen(new, n, more) /\ PostSeen(f, more)
    BY <1>3
  <2>4. /\ IsBase(f) => IsBase(st[n])
        /\ Waits(st[n]) => Waits(f) \/ IsBase(st[n])
        /\ IsReceive(st[n]) => IsReceive(f)
    BY <1>1 DEF MovesOn
  <2>5. QED
    BY <1>1, <1>2, <2>1, <2>2, <2>3, <2>4, ReplaceWakeful DEF MovesOn
<1>5. QED
  BY <1>4 DEF new

LEMMA BecomeCallWakeful ==
  ASSUME NEW t \in Loops, NEW S, NEW st \in Seq(S), st # <<>>,
         NEW f \in S, NEW g \in S,
         NEW rd, NEW known, NEW more, Wakeful(t, st, rd, known),
         MovesOn(Last(st), f, known, more),
         IsBusy(g), ~IsBase(g), FrameOK(g),
         AnswerSeen(f, rd, more), PostSeen(f, more),
         Deaf(f) => "sends" \in more \/ IsReceive(g)
  PROVE  Wakeful(t, Append(Append(Front(st), f), g), rd, more)
<1> DEFINE mid == Append(Front(st), f)
           new == Append(mid, g)
           n == Len(st)
<1>1. /\ n \in Nat \ {0} /\ Front(st) \in Seq(S) /\ Len(Front(st)) = n - 1
      /\ \A i \in 1 .. n - 1 : Front(st)[i] = st[i]
      /\ Last(st) = st[n]
  BY FrontOfSeq
<1>2. /\ mid \in Seq(S) /\ Len(mid) = n /\ mid[n] = f
      /\ \A i \in 1 .. n - 1 : mid[i] = st[i]
  BY <1>1, AppendToSeq
<1> HIDE DEF mid
<1>3. /\ Len(new) = n + 1 /\ new[n + 1] = g
      /\ \A i \in 1 .. n : new[i] = mid[i]
  BY <1>2, AppendToSeq
<1>4. new[n] = f /\ \A i \in 1 .. n - 1 : new[i] = st[i]
  BY <1>1, <1>2, <1>3
<1> HIDE DEF new
<1>5. SendSeen(new, n, more)
  <2>1. n + 1 \in 1 .. Len(new)
    BY <1>1, <1>3
  <2>2. QED
    BY <1>3, <1>4, <2>1 DEF SendSeen
<1>6. Wakeful(t, new, rd, more)
  <2> HIDE DEF n
  <2>1. n = Len(st) /\ Len(new) \in {n, n + 1}
    BY <1>1, <1>3 DEF n
  <2>2. QED
    BY <1>1, <1>3, <1>4, <1>5, <2>1, ReplaceWakeful DEF MovesOn
<1>7. QED
  BY <1>6 DEF new, mid

-----------------------------------------------------------------------------
(* Who knows of what after a step of thread t. *)

LEMMA KnownGrows ==
  ASSUME NEW t \in Threads, NEW u \in Threads,
         \A v \in Threads \ {t} : stack'[v] = stack[v],
         stack'[t] = stack[t] \/
           ((At(t, "wakesender") \/ At(t, "wakepeer")) /\ Top(t).peer = u
              => signaled_'[u]),
         signaled_[u] => signaled_'[u],
         u \in Loops =>
           /\ sendlist_[u] = <<>> => sendlist_'[u] = <<>> \/ SendKnown(u)'
           /\ msgq_[u] = 0 => msgq_'[u] = 0 \/ signaled_'[u]
  PROVE  /\ Known(u) \ {"left"} \subseteq Known(u)'
         /\ fWait_'[u] = fWait_[u] => Known(u) \subseteq Known(u)'
<1>1. ASSUME NEW v \in Threads, NEW at \in {"wakesender", "wakepeer"},
             At(v, at), Top(v).peer = u
      PROVE  signaled_'[u] \/ (At(v, at)' /\ Top(v)'.peer = u)
  <2>1. stack'[v] = stack[v] \/ signaled_'[u]
    BY <1>1
  <2>2. QED
    BY <1>1, <2>1 DEF At, Top
<1>2. AnswerKnown(u) => AnswerKnown(u)'
  BY <1>1 DEF AnswerKnown
<1>3. SendKnown(u) => SendKnown(u)'
  <2>1. CASE u \in Loops /\ sendlist_[u] = <<>>
    BY <2>1 DEF SendKnown
  <2>2. CASE ~(u \in Loops /\ sendlist_[u] = <<>>)
    BY <1>1, <2>2 DEF SendKnown
  <2>3. QED
    BY <2>1, <2>2
<1>4. PostKnown(u) => PostKnown(u)'
  BY DEF PostKnown
<1>5. QED
  BY <1>2, <1>3, <1>4 DEF Known

(* a thread whose stack the step leaves alone *)
LEMMA OtherWakeful ==
  ASSUME StackTypeOK, NEW u \in Threads, Wakeful(u, stack[u], Ready, Known(u)),
         stack'[u] = stack[u], Known(u) \subseteq Known(u)',
         \A f \in Range(stack[u]) : IsSend(f) /\ f.id \in Ready' =>
           f.id \in Ready \/ "answers" \in Known(u)'
  PROVE  Wakeful(u, stack'[u], Ready', Known(u)')
<1>1. \A k \in 1 .. Len(stack[u]) : stack[u][k] \in Range(stack[u])
  <2>1. DOMAIN stack[u] = 1 .. Len(stack[u])
    BY LenProperties DEF StackTypeOK
  <2>2. QED
    BY <2>1 DEF Range
<1> DEFINE st == stack[u]
           more == Known(u)'
           wider == Ready'
<1>2. \A k \in 1 .. Len(st) : IsSend(st[k]) /\ st[k].id \in wider =>
           st[k].id \in Ready \/ "answers" \in more
  BY <1>1
<1>3. Wakeful(u, st, Ready, Known(u)) /\ Known(u) \subseteq more
  OBVIOUS
<1> HIDE DEF st, more, wider
<1>4. Wakeful(u, st, wider, more)
  BY <1>2, <1>3, SameStackWakeful
<1>5. QED
  BY <1>4 DEF st, more, wider

(* a step that answers no send, and takes no knowledge from other threads *)
LEMMA StepOthers ==
  ASSUME StackTypeOK, AllWakeful, NEW t \in Threads, ready' = ready,
         \A u \in Threads \ {t} :
           stack'[u] = stack[u] /\ Known(u) \subseteq Known(u)',
         Wakeful(t, stack'[t], Ready, Known(t)')
  PROVE  AllWakeful'
<1>1. Ready' = Ready
  BY DEF Ready
<1>2. ASSUME NEW u \in Threads, u # t
      PROVE  Wakeful(u, stack'[u], Ready', Known(u)')
  <2>1. Known(u) \subseteq Known(u)' /\ stack'[u] = stack[u]
    BY <1>2
  <2>2. Wakeful(u, stack[u], Ready, Known(u))
    BY DEF AllWakeful
  <2>3. QED
    BY <1>1, <2>1, <2>2, OtherWakeful
<1>3. \A u \in Threads : Wakeful(u, stack'[u], Ready', Known(u)')
  BY <1>1, <1>2
<1>4. QED
  BY <1>3 DEF AllWakeful

(* a step that wakes nobody and changes the lists of nobody else *)
QuietFor(t) ==
  /\ ~At(t, "wakesender") /\ ~At(t, "wakepeer")
  /\ \A u \in Threads \ {t} :
       /\ stack'[u] = stack[u]
       /\ signaled_'[u] = signaled_[u] /\ fWait_'[u] = fWait_[u]
       /\ u \in Loops => sendlist_'[u] = sendlist_[u] /\ msgq_'[u] = msgq_[u]
  /\ ready' = ready

LEMMA QuietOthers ==
  ASSUME StackTypeOK, AllWakeful, NEW t \in Threads, QuietFor(t),
         Wakeful(t, stack'[t], Ready, Known(t)')
  PROVE  AllWakeful'
<1>1. ASSUME NEW u \in Threads, u # t
      PROVE  stack'[u] = stack[u] /\ Known(u) \subseteq Known(u)'
  BY <1>1, KnownGrows DEF QuietFor
<1>2. ready' = ready
  BY DEF QuietFor
<1>3. QED
  BY <1>1, <1>2, StepOthers

(* and what its own thread knows *)
LEMMA QuietKnown ==
  ASSUME NEW t \in Threads, QuietFor(t),
         signaled_[t] => signaled_'[t],
         t \in Loops =>
           /\ sendlist_[t] = <<>> => sendlist_'[t] = <<>>
           /\ msgq_[t] = 0 => msgq_'[t] = 0
  PROVE  /\ Known(t) \ {"left"} \subseteq Known(t)'
         /\ fWait_'[t] = fWait_[t] => Known(t) \subseteq Known(t)'
BY KnownGrows DEF QuietFor

(* the knowledge of a thread *)
LEMMA KnownOf ==
  ASSUME NEW t
  PROVE  /\ "answers" \in Known(t) <=> AnswerKnown(t)
         /\ "sends" \in Known(t) <=> SendKnown(t)
         /\ "posts" \in Known(t) <=> PostKnown(t)
         /\ "left" \in Known(t) <=> ~fWait_[t]
         /\ signaled_[t] => {"answers", "sends", "posts"} \subseteq Known(t)
BY DEF Known, AnswerKnown, SendKnown, PostKnown

-----------------------------------------------------------------------------
(* The stack of the thread that makes a step. *)
LEMMA TopWakeful ==
  ASSUME StackTypeOK, AllWakeful, NEW t \in Threads, stack[t] # <<>>
  PROVE  /\ FrameOK(Top(t))
         /\ Top(t).at # "wait" \/ fWait_[t] =>
              /\ AnswerSeen(Top(t), Ready, Known(t)) /\ PostSeen(Top(t), Known(t))
              /\ Deaf(Top(t)) => "sends" \in Known(t)
<1>1. "left" \in Known(t) <=> ~fWait_[t]
  BY KnownOf
<1>2. QED
  BY <1>1, TopSeen DEF AllWakeful, StackTypeOK, Top

LEMMA CallStep ==
  ASSUME StackTypeOK, AllWakeful, NEW t \in Threads, NEW f \in FrameOf(t),
         f.at \in {"run", "push", "pop"}, ~f.waited, Call(t, f),
         Known(t) \subseteq Known(t)', t \in Loops \/ stack[t] = <<>>
  PROVE  Wakeful(t, stack'[t], Ready, Known(t)')
<1>1. Wakeful(t, stack[t], Ready, Known(t)) /\ stack[t] \in Seq(FrameOf(t))
  BY DEF AllWakeful, StackTypeOK
<1>2. ~IsBase(f) /\ IsBusy(f) /\ FrameOK(f)
  BY DEF IsBase, IsBusy, FrameOK, IsAnswer
<1>3. stack'[t] = Append(stack[t], f)
  BY DEF Call, StackTypeOK
<1>4. Wakeful(t, stack'[t], Ready, Known(t))
  BY <1>1, <1>2, <1>3, CallWakeful
<1> DEFINE more == Known(t)'
<1>5. Known(t) \subseteq more
  OBVIOUS
<1> HIDE DEF more
<1>6. Wakeful(t, stack'[t], Ready, more)
  BY <1>4, <1>5, SameStackWakeful
<1>7. QED
  BY <1>6 DEF more

LEMMA ReturnStep ==
  ASSUME StackTypeOK, AllWakeful, NEW t \in Threads, stack[t] # <<>>, Return(t),
         t \in Loops => /\ Known(t) \subseteq Known(t)'
                        /\ Waits(Top(t)) => signaled_'[t]
                        /\ IsReceive(Top(t)) => "sends" \in Known(t)'
  PROVE  Wakeful(t, stack'[t], Ready, Known(t)')
<1>1. Wakeful(t, stack[t], Ready, Known(t)) /\ stack[t] \in Seq(FrameOf(t))
  BY DEF AllWakeful, StackTypeOK
<1>2. stack'[t] = Front(stack[t])
  BY DEF Return, StackTypeOK
<1> DEFINE more == Known(t)'
<1>3. signaled_'[t] => {"answers", "sends", "posts"} \subseteq more
  BY DEF Known, AnswerKnown, SendKnown, PostKnown
<1>4. t \in Loops => /\ Known(t) \subseteq more
                     /\ Waits(Last(stack[t])) => {"answers", "sends", "posts"} \subseteq more
                     /\ IsReceive(Last(stack[t])) => "sends" \in more
  BY <1>3 DEF Top
<1> HIDE DEF more
<1>5. Wakeful(t, stack'[t], Ready, more)
  BY <1>1, <1>2, <1>4, ReturnWakeful
<1>6. QED
  BY <1>5 DEF more

LEMMA BecomeStep ==
  ASSUME StackTypeOK, AllWakeful, NEW t \in Threads, stack[t] # <<>>,
         NEW f \in FrameOf(t), Become(t, f), MovesOn(Top(t), f, Known(t), Known(t)'),
         AnswerSeen(f, Ready, Known(t)'), PostSeen(f, Known(t)'),
         Deaf(f) => "sends" \in Known(t)'
  PROVE  Wakeful(t, stack'[t], Ready, Known(t)')
<1>1. Wakeful(t, stack[t], Ready, Known(t)) /\ stack[t] \in Seq(FrameOf(t))
  BY DEF AllWakeful, StackTypeOK
<1>2. stack'[t] = Append(Front(stack[t]), f)
  BY DEF Become, StackTypeOK
<1> DEFINE more == Known(t)'
<1>3. /\ MovesOn(Last(stack[t]), f, Known(t), more)
      /\ AnswerSeen(f, Ready, more) /\ PostSeen(f, more)
      /\ Deaf(f) => "sends" \in more
  BY DEF Top
<1> HIDE DEF more
<1>4. Wakeful(t, stack'[t], Ready, more)
  BY <1>1, <1>2, <1>3, BecomeWakeful
<1>5. QED
  BY <1>4 DEF more

LEMMA BecomeCallStep ==
  ASSUME StackTypeOK, AllWakeful, NEW t \in Loops, stack[t] # <<>>,
         NEW f \in FrameOf(t), NEW g \in FrameOf(t), BecomeCall(t, f, g),
         MovesOn(Top(t), f, Known(t), Known(t)'),
         g.at \in {"run", "pop"}, ~g.waited,
         AnswerSeen(f, Ready, Known(t)'), PostSeen(f, Known(t)'),
         Deaf(f) => g.at = "pop"
  PROVE  Wakeful(t, stack'[t], Ready, Known(t)')
<1>1. Wakeful(t, stack[t], Ready, Known(t)) /\ stack[t] \in Seq(FrameOf(t))
  BY DEF AllWakeful, StackTypeOK, Threads
<1>2. stack'[t] = Append(Append(Front(stack[t]), f), g)
  BY DEF BecomeCall, StackTypeOK, Threads
<1> DEFINE more == Known(t)'
<1>3. /\ MovesOn(Last(stack[t]), f, Known(t), more)
      /\ AnswerSeen(f, Ready, more) /\ PostSeen(f, more)
      /\ Deaf(f) => "sends" \in more \/ IsReceive(g)
      /\ IsBusy(g) /\ ~IsBase(g) /\ FrameOK(g)
  BY DEF Top, IsReceive, IsBusy, IsBase, FrameOK, IsAnswer
<1> HIDE DEF more
<1>4. Wakeful(t, stack'[t], Ready, more)
  BY <1>1, <1>2, <1>3, BecomeCallWakeful
<1>5. QED
  BY <1>4 DEF more

(* the same, where the step also answers sends: f looks at nothing *)
LEMMA RaisingStep ==
  ASSUME StackTypeOK, AllWakeful, NEW t \in Threads, stack[t] # <<>>,
         NEW f \in FrameOf(t), Become(t, f), f.at \in {"wakesender", "gone"},
         MovesOn(Top(t), f, Known(t), Known(t)'), Known(t) \subseteq Known(t)',
         \A e \in Range(stack[t]) : IsSend(e) /\ e.id \in Ready' =>
           e.id \in Ready \/ "answers" \in Known(t)'
  PROVE  Wakeful(t, stack'[t], Ready', Known(t)')
<1>1. Wakeful(t, stack[t], Ready, Known(t)) /\ stack[t] \in Seq(FrameOf(t))
  BY DEF AllWakeful, StackTypeOK
<1>2. stack'[t] = Append(Front(stack[t]), f)
  BY DEF Become, StackTypeOK
<1>3. \A k \in 1 .. Len(stack[t]) : stack[t][k] \in Range(stack[t])
  BY <1>1, LenProperties DEF Range
<1> DEFINE more == Known(t)'
           wider == Ready'
<1>4. /\ MovesOn(Last(stack[t]), f, more, more)
      /\ AnswerSeen(f, wider, more) /\ PostSeen(f, more) /\ ~Deaf(f)
  BY DEF Top, MovesOn, AnswerSeen, PostSeen, Deaf
<1>5. /\ Known(t) \subseteq more
      /\ \A k \in 1 .. Len(stack[t]) :
           IsSend(stack[t][k]) /\ stack[t][k].id \in wider =>
             stack[t][k].id \in Ready \/ "answers" \in more
  BY <1>3
<1> HIDE DEF more, wider
<1>6. Wakeful(t, stack[t], wider, more)
  BY <1>1, <1>5, SameStackWakeful
<1>7. Wakeful(t, stack'[t], wider, more)
  BY <1>1, <1>2, <1>4, <1>6, BecomeWakeful
<1>8. QED
  BY <1>7 DEF more, wider

LEMMA BecomeTop ==
  ASSUME StackTypeOK, NEW t \in Threads, stack[t] # <<>>, NEW f \in FrameOf(t), Become(t, f)
  PROVE  /\ stack'[t] # <<>> /\ Top(t)' = f
         /\ \A u \in Threads \ {t} : stack'[u] = stack[u]
<1>1. Front(stack[t]) \in Seq(FrameOf(t))
  BY FrontOfSeq DEF StackTypeOK
<1>2. /\ stack'[t] = Append(Front(stack[t]), f)
      /\ \A u \in Threads \ {t} : stack'[u] = stack[u]
  BY DEF Become, StackTypeOK
<1> DEFINE s == Front(stack[t])
           e == Append(s, f)
<1>3. /\ e \in Seq(FrameOf(t)) /\ e # <<>> /\ Len(s) \in Nat
      /\ Len(e) = Len(s) + 1 /\ e[Len(s) + 1] = f
  BY <1>1, AppendProperties, LenProperties
<1> HIDE DEF s
<1> HIDE DEF e
<1>4. Last(e) = f
  BY <1>3, FrontOfSeq
<1>5. QED
  BY <1>2, <1>3, <1>4 DEF e, s, Top

(* Clear: whoever waits for a send that it answers is signalled *)
LEMMA ClearedAreTold ==
  ASSUME ListTypeOK, Owners, NEW r \in Loops, ClearAll(r), NEW u \in Threads
  PROVE  \A f \in Range(stack[u]) : IsSend(f) /\ f.id \in Ready' =>
           f.id \in Ready \/ "answers" \in Known(u)'
<1> SUFFICES ASSUME NEW f \in Range(stack[u]), IsSend(f), f.id \in Ready', f.id \notin Ready
             PROVE  "answers" \in Known(u)'
  OBVIOUS
<1> DEFINE doomed == Range(sendlist_[r])
<1>1. /\ ready' = [k \in SendIds |-> ready[k] \/ \E s \in doomed : s.id = k]
      /\ signaled_' = [v \in Threads |-> signaled_[v] \/ \E s \in doomed : s.from = v]
  BY DEF ClearAll
<1>2. doomed \in SUBSET Sends
  BY RangeOfSeq DEF ListTypeOK
<1> HIDE DEF doomed
<1>3. PICK s \in doomed : s.id = f.id
  BY <1>1 DEF Ready
<1>4. Owns(u, f.id) /\ Owns(s.from, f.id)
  BY <1>3 DEF Owns, doomed
<1>5. s.from \in Threads /\ f.id \in SendIds
  BY <1>2, <1>3 DEF Sends
<1>6. s.from = u
  BY <1>4, <1>5 DEF Owners
<1>7. signaled_'[u]
  BY <1>1, <1>6
<1>8. QED
  BY <1>7 DEF Known, AnswerKnown

LEMMA ClearKnown ==
  ASSUME FlagTypeOK, ListTypeOK, CountTypeOK, NEW r \in Loops, ClearAll(r), NEW u \in Threads,
         fWait_' = fWait_, \A v \in Threads \ {r} : stack'[v] = stack[v],
         stack'[r] = stack[r] \/ (~At(r, "wakesender") /\ ~At(r, "wakepeer"))
  PROVE  Known(u) \subseteq Known(u)'
<1>1. signaled_[u] => signaled_'[u]
  BY DEF ClearAll
<1>2. u \in Loops => /\ sendlist_[u] = <<>> => sendlist_'[u] = <<>>
                     /\ msgq_[u] = 0 => msgq_'[u] = 0
  BY DEF ClearAll, ListTypeOK, CountTypeOK
<1>3. r \in Threads
  BY DEF Threads
<1>4. QED
  BY <1>1, <1>2, <1>3, KnownGrows

(* the frame that moves keeps its send *)
LEMMA MovedFrame ==
  ASSUME NEW t, NEW f \in FrameOf(t), NEW at
  PROVE  /\ Moved(f, at).at = at /\ Moved(f, at).id = f.id
         /\ Moved(f, at).peer = f.peer /\ Moved(f, at).waited = f.waited
BY DEF Moved, FrameOf, AnyFrame

LEMMA StacksOf ==
  ASSUME StackTypeOK, NEW t \in Threads, NEW new, stack' = [stack EXCEPT ![t] = new]
  PROVE  stack'[t] = new /\ \A u \in Threads \ {t} : stack'[u] = stack[u]
BY DEF StackTypeOK

-----------------------------------------------------------------------------
(* No step lets a thread fall asleep over something it should have seen,   *)
(* or takes from it the signal it is about to sleep on.                    *)
LEMMA WakefulStep ==
  ASSUME StackOK, ListTypeOK, CountTypeOK, FlagTypeOK, SendsAreFlagged,
         AllWakeful, Owners, [Next]_vars
  PROVE  AllWakeful'
<1>1. ASSUME NEW t \in Threads, NEW r \in Loops, BeginSend(t, r)
      PROVE  AllWakeful'
  <2>1. t \in Loops \/ stack[t] = <<>>
    BY <1>1, TopType DEF BeginSend, Running, At, StackOK, InSend, Threads
  <2>2. PICK f \in FrameOf(t) : f.at \in {"run", "push"} /\ ~f.waited /\ Call(t, f)
    <3>1. count.sends + 1 \in 0 .. MaxSends /\ count.sends + 1 # 0
      <4>1. count.sends \in 0 .. MaxSends /\ count.sends < MaxSends
        BY <1>1 DEF BeginSend, CountTypeOK
      <4>2. QED
        BY <4>1, ThreadSendAssumption
    <3>2. "run" \in Places \ Numbered /\ "push" \in Places \intersect InSend /\ r \in Threads
      BY DEF Places, Numbered, InSend, Threads
    <3>3. CASE r = t
      <4>1. LET f == Frame("run", count.sends + 1, None)
            IN  f \in FrameOf(t) /\ f.at = "run" /\ ~f.waited
        BY <3>1, <3>2, <3>3, NewFrameType DEF Frame
      <4>2. QED
        BY <1>1, <3>3, <4>1 DEF BeginSend
    <3>4. CASE r # t
      <4>1. LET f == Frame("push", count.sends + 1, r)
            IN  f \in FrameOf(t) /\ f.at = "push" /\ ~f.waited
        BY <3>1, <3>2, NewFrameType DEF Frame
      <4>2. QED
        BY <1>1, <3>4, <4>1 DEF BeginSend
    <3>5. QED
      BY <3>3, <3>4
  <2>3. \A u \in Threads \ {t} : stack'[u] = stack[u]
    BY <2>2 DEF Call, StackOK, StackTypeOK
  <2>4. QuietFor(t)
    BY <1>1, <2>3 DEF BeginSend, Running, At, QuietFor, lists
  <2>5. Known(t) \subseteq Known(t)'
    BY <1>1, <2>4, QuietKnown DEF BeginSend, lists
  <2>6. Wakeful(t, stack'[t], Ready, Known(t)')
    BY <2>1, <2>2, <2>5, CallStep DEF StackOK
  <2>7. QED
    BY <2>4, <2>6, QuietOthers DEF StackOK
<1>2. ASSUME NEW t \in Threads, Finish(t)
      PROVE  AllWakeful'
  <2>1. stack[t] # <<>> /\ Top(t).at = "run" /\ Return(t)
    BY <1>2 DEF Finish, At
  <2>2. \A u \in Threads \ {t} : stack'[u] = stack[u]
    BY <2>1 DEF Return, StackOK, StackTypeOK
  <2>3. QuietFor(t)
    BY <1>2, <2>2 DEF Finish, At, QuietFor, lists
  <2>4. Known(t) \subseteq Known(t)'
    BY <1>2, <2>3, QuietKnown DEF Finish, lists
  <2>5. ~Waits(Top(t)) /\ ~IsReceive(Top(t))
    BY <2>1, TopWakeful DEF StackOK, FrameOK, Waits, IsReceive
  <2>6. Wakeful(t, stack'[t], Ready, Known(t)')
    BY <2>1, <2>4, <2>5, ReturnStep DEF StackOK
  <2>7. QED
    BY <2>3, <2>6, QuietOthers DEF StackOK
<1>3. ASSUME NEW t \in Threads, NotReady(t)
      PROVE  AllWakeful'
  <2>1. stack[t] # <<>> /\ Top(t).at = "test" /\ Goto(t, "receive") /\ ~ready[Top(t).id]
    BY <1>3 DEF NotReady, At
  <2> DEFINE f == Moved(Top(t), "receive")
  <2>2. \A u \in Threads \ {t} : stack'[u] = stack[u]
    BY <2>1 DEF Goto, Become, StackOK, StackTypeOK
  <2>3. QuietFor(t)
    BY <1>3, <2>2 DEF NotReady, At, QuietFor, lists, flags
  <2>4. Known(t) \subseteq Known(t)'
    BY <1>3, <2>3, QuietKnown DEF NotReady, lists
  <2>5. /\ f.at = "receive" /\ f.id = Top(t).id /\ f.waited = Top(t).waited
        /\ f \in FrameOf(t) /\ Become(t, f)
    <3>1. "receive" \in Places /\ "receive" \in InSend /\ Top(t).id # 0
      BY <2>1, TopType DEF Places, InSend, Numbered, SendIds, StackOK
    <3>2. QED
      BY <2>1, <3>1, TopType, MovedType, MovedFrame DEF Goto, StackOK
  <2> HIDE DEF f
  <2>6. MovesOn(Top(t), f, Known(t), Known(t)')
    BY <2>1, <2>4, <2>5, TopWakeful
       DEF MovesOn, IsBase, FrameOK, Waits, IsReceive, IsAnswer, StackOK
  <2>7. AnswerSeen(f, Ready, Known(t)') /\ PostSeen(f, Known(t)') /\ ~Deaf(f)
    BY <2>1, <2>5 DEF AnswerSeen, PostSeen, Deaf, Ready
  <2>8. Wakeful(t, stack'[t], Ready, Known(t)')
    BY <2>1, <2>5, <2>6, <2>7, BecomeStep DEF StackOK
  <2>9. QED
    BY <2>3, <2>8, QuietOthers DEF StackOK
<1>4. ASSUME NEW t \in Threads, NothingSent(t)
      PROVE  AllWakeful'
  <2> DEFINE at == Resume(Top(t).at)
             f == Moved(Top(t), at)
  <2>1. /\ stack[t] # <<>> /\ Top(t).at \in {"check", "receive"}
        /\ Goto(t, at) /\ (t \in Loops => ~has_sends_[t])
    BY <1>4 DEF NothingSent, Receives, At
  <2>2. \A u \in Threads \ {t} : stack'[u] = stack[u]
    BY <2>1 DEF Goto, GotoCall, Become, BecomeCall, StackOK, StackTypeOK
  <2>3. QuietFor(t)
    BY <1>4, <2>1, <2>2 DEF NothingSent, At, QuietFor, lists, flags
  <2>4. Known(t) \subseteq Known(t)'
    BY <1>4, <2>3, QuietKnown DEF NothingSent, lists
  <2>5. /\ f.at = at /\ f.id = Top(t).id /\ f.waited = Top(t).waited
        /\ f \in FrameOf(t) /\ Become(t, f)
        /\ at = IF Top(t).at = "check" THEN "scan" ELSE "enterwait"
    <3>1. t \in Loops \/ Top(t).at = "receive"
      BY <2>1, TopType DEF StackOK, InSend
    <3>2. at \in Places \ Numbered /\ (t \in Loops \/ at \in InSend)
      BY <2>1, <3>1 DEF Resume, Places, Numbered, InSend
    <3>3. at = IF Top(t).at = "check" THEN "scan" ELSE "enterwait"
      BY DEF Resume
    <3> HIDE DEF at
    <3>4. QED
      BY <2>1, <3>2, <3>3, TopType, MovedType, MovedFrame DEF Goto, StackOK
  <2> HIDE DEF f, at
  <2>6. /\ AnswerSeen(Top(t), Ready, Known(t)) /\ FrameOK(Top(t))
        /\ Top(t).at = "receive" => Top(t).id # 0
    BY <2>1, TopWakeful, TopType DEF StackOK, Numbered, SendIds
  <2>7. MovesOn(Top(t), f, Known(t), Known(t)')
    BY <2>1, <2>4, <2>5, <2>6 DEF MovesOn, IsBase, FrameOK, Waits, IsReceive, IsAnswer
  <2>10. AnswerSeen(f, Ready, Known(t)') /\ PostSeen(f, Known(t)')
    BY <2>1, <2>4, <2>5, <2>6 DEF AnswerSeen, PostSeen
  <2>11. "sends" \in Known(t)'
    <3>1. t \in Loops => sendlist_[t] = <<>>
      BY <2>1 DEF SendsAreFlagged
    <3>2. SendKnown(t)
      BY <3>1 DEF SendKnown
    <3>3. QED
      BY <2>4, <3>2, KnownOf
  <2>8. Wakeful(t, stack'[t], Ready, Known(t)')
    BY <2>1, <2>5, <2>7, <2>10, <2>11, BecomeStep DEF StackOK
  <2>9. QED
    BY <2>3, <2>8, QuietOthers DEF StackOK
<1>5. ASSUME NEW t \in Threads, SomethingSent(t)
      PROVE  AllWakeful'
  <2> DEFINE at == Resume(Top(t).at)
             f == Moved(Top(t), at)
             g == Frame("pop", 0, None)
  <2>1. /\ stack[t] # <<>> /\ Top(t).at \in {"check", "receive"} /\ t \in Loops
        /\ GotoCall(t, at, g)
    BY <1>5 DEF SomethingSent, Receives, At
  <2>2. \A u \in Threads \ {t} : stack'[u] = stack[u]
    BY <2>1 DEF Goto, GotoCall, Become, BecomeCall, StackOK, StackTypeOK
  <2>3. QuietFor(t)
    BY <1>5, <2>1, <2>2 DEF SomethingSent, At, QuietFor, lists, flags
  <2>4. Known(t) \subseteq Known(t)'
    BY <1>5, <2>3, QuietKnown DEF SomethingSent, lists
  <2>5. /\ f.at = at /\ f.id = Top(t).id /\ f.waited = Top(t).waited
        /\ f \in FrameOf(t) /\ BecomeCall(t, f, g)
        /\ at = IF Top(t).at = "check" THEN "scan" ELSE "enterwait"
    <3>1. at \in Places \ Numbered
      BY <2>1 DEF Resume, Places, Numbered
    <3>2. at = IF Top(t).at = "check" THEN "scan" ELSE "enterwait"
      BY DEF Resume
    <3> HIDE DEF at
    <3>3. QED
      BY <2>1, <3>1, <3>2, TopType, MovedType, MovedFrame DEF GotoCall, StackOK
  <2>12. g \in FrameOf(t) /\ g.at = "pop" /\ ~g.waited
    <3>1. "pop" \in Places \ Numbered /\ 0 \in 0 .. MaxSends
      BY ThreadSendAssumption DEF Places, Numbered
    <3>2. QED
      BY <2>1, <3>1, NewFrameType DEF Frame
  <2> HIDE DEF f, at, g
  <2>6. /\ AnswerSeen(Top(t), Ready, Known(t)) /\ FrameOK(Top(t))
        /\ Top(t).at = "receive" => Top(t).id # 0
    BY <2>1, TopWakeful, TopType DEF StackOK, Numbered, SendIds
  <2>7. MovesOn(Top(t), f, Known(t), Known(t)')
    BY <2>1, <2>4, <2>5, <2>6 DEF MovesOn, IsBase, FrameOK, Waits, IsReceive, IsAnswer
  <2>10. AnswerSeen(f, Ready, Known(t)') /\ PostSeen(f, Known(t)')
    BY <2>1, <2>4, <2>5, <2>6 DEF AnswerSeen, PostSeen
  <2>8. Wakeful(t, stack'[t], Ready, Known(t)')
    BY <2>1, <2>5, <2>7, <2>10, <2>12, BecomeCallStep DEF StackOK
  <2>9. QED
    BY <2>3, <2>8, QuietOthers DEF StackOK
<1>6. ASSUME NEW t \in Threads, PopSend(t)
      PROVE  AllWakeful'
  <2>1. stack[t] # <<>> /\ Top(t).at = "pop" /\ t \in Loops /\ sendlist_[t] # <<>>
    BY <1>6, TopType DEF PopSend, At, StackOK, InSend
  <2> DEFINE smsg == Head(sendlist_[t])
             f == Frame("answer", smsg.id, smsg.from)
             g == Frame("run", smsg.id, None)
  <2>13. BecomeCall(t, f, g)
    BY <1>6 DEF PopSend
  <2>14. \A u \in Loops \ {t} : sendlist_'[u] = sendlist_[u] /\ msgq_'[u] = msgq_[u]
    BY <1>6 DEF PopSend, ListTypeOK
  <2>2. \A u \in Threads \ {t} : stack'[u] = stack[u]
    BY <2>13 DEF BecomeCall, StackOK, StackTypeOK
  <2>3. QuietFor(t)
    BY <1>6, <2>1, <2>2, <2>14 DEF PopSend, At, QuietFor, flags
  <2>4. Known(t) \subseteq Known(t)'
    BY <1>6, <2>1, <2>3, QuietKnown DEF PopSend
  <2>5. /\ f \in FrameOf(t) /\ f.at = "answer" /\ ~f.waited /\ f.peer # None
        /\ g \in FrameOf(t) /\ g.at = "run" /\ ~g.waited
    <3>1. smsg \in Sends
      BY <2>1, HeadTailProperties DEF ListTypeOK
    <3> HIDE DEF smsg
    <3>2. smsg.id \in 0 .. MaxSends /\ smsg.id # 0 /\ smsg.from \in Threads
      BY <3>1, ThreadSendAssumption DEF Sends, SendIds
    <3>3. "answer" \in Places /\ "run" \in Places
      BY DEF Places
    <3>4. QED
      BY <2>1, <3>2, <3>3, NewFrameType, ThreadSendAssumption DEF Frame, Threads
  <2> HIDE DEF f, g
  <2>7. MovesOn(Top(t), f, Known(t), Known(t)')
    BY <2>1, <2>4, <2>5, TopWakeful
       DEF MovesOn, IsBase, FrameOK, Waits, IsReceive, IsAnswer, StackOK
  <2>10. AnswerSeen(f, Ready, Known(t)') /\ PostSeen(f, Known(t)') /\ ~Deaf(f)
    BY <2>5 DEF AnswerSeen, PostSeen, Deaf
  <2>8. Wakeful(t, stack'[t], Ready, Known(t)')
    BY <2>1, <2>5, <2>7, <2>10, <2>13, BecomeCallStep DEF StackOK
  <2>9. QED
    BY <2>3, <2>8, QuietOthers DEF StackOK
<1>7. ASSUME NEW t \in Threads, ReturnFromSend(t)
      PROVE  AllWakeful'
  <2>1. stack[t] # <<>> /\ Top(t).at = "test" /\ Return(t)
    BY <1>7 DEF ReturnFromSend, At
  <2>2. \A u \in Threads \ {t} : stack'[u] = stack[u]
    BY <2>1 DEF Return, StackOK, StackTypeOK
  <2>3. /\ signaled_'[t] = (t \in Loops /\ (signaled_[t] \/ Top(t).waited))
        /\ \A u \in Threads \ {t} : signaled_'[u] = signaled_[u]
    BY <1>7 DEF ReturnFromSend, FlagTypeOK
  <2>4. QuietFor(t)
    BY <1>7, <2>2, <2>3 DEF ReturnFromSend, At, QuietFor, lists, flags
  <2>5. t \in Loops => Known(t) \subseteq Known(t)'
    BY <1>7, <2>3, <2>4, QuietKnown DEF ReturnFromSend, lists
  <2>6. t \in Loops /\ Waits(Top(t)) => signaled_'[t]
    BY <2>1, <2>3 DEF Waits
  <2>7. ~IsReceive(Top(t))
    BY <2>1 DEF IsReceive
  <2>8. Wakeful(t, stack'[t], Ready, Known(t)')
    BY <2>1, <2>5, <2>6, <2>7, ReturnStep DEF StackOK
  <2>9. QED
    BY <2>4, <2>8, QuietOthers DEF StackOK
<1>8. ASSUME NEW t \in Threads, NoMoreSends(t)
      PROVE  AllWakeful'
  <2>1. stack[t] # <<>> /\ Top(t).at = "pop" /\ Return(t) /\ sendlist_[t] = <<>>
    BY <1>8 DEF NoMoreSends, At
  <2>2. \A u \in Threads \ {t} : stack'[u] = stack[u]
    BY <2>1 DEF Return, StackOK, StackTypeOK
  <2>3. QuietFor(t)
    BY <1>8, <2>2 DEF NoMoreSends, At, QuietFor, flags
  <2>4. Known(t) \subseteq Known(t)'
    BY <1>8, <2>3, QuietKnown DEF NoMoreSends
  <2>5. "sends" \in Known(t)
    BY <2>1, KnownOf DEF SendKnown
  <2>6. ~Waits(Top(t))
    BY <2>1, TopWakeful DEF StackOK, FrameOK, Waits
  <2>7. Wakeful(t, stack'[t], Ready, Known(t)')
    BY <2>1, <2>4, <2>5, <2>6, ReturnStep DEF StackOK
  <2>8. QED
    BY <2>3, <2>7, QuietOthers DEF StackOK
<1>9. ASSUME NEW t \in Threads, EnterWait(t)
      PROVE  AllWakeful'
  <2> DEFINE f == Moved(Top(t), "wait")
  <2>1. stack[t] # <<>> /\ Top(t).at = "enterwait" /\ Goto(t, "wait")
    BY <1>9 DEF EnterWait, At
  <2>2. \A u \in Threads \ {t} : stack'[u] = stack[u] /\ fWait_'[u] = fWait_[u]
    BY <1>9, <2>1 DEF EnterWait, Goto, Become, StackOK, StackTypeOK, FlagTypeOK
  <2>3. QuietFor(t)
    BY <1>9, <2>2 DEF EnterWait, At, QuietFor, lists, flags
  <2>4. Known(t) \ {"left"} \subseteq Known(t)'
    BY <1>9, <2>3, QuietKnown DEF EnterWait, lists
  <2>5. /\ f.at = "wait" /\ f.id = Top(t).id /\ f.waited = Top(t).waited
        /\ f \in FrameOf(t) /\ Become(t, f)
    <3>1. "wait" \in Places \ Numbered /\ "wait" \in InSend
      BY DEF Places, InSend, Numbered
    <3>2. QED
      BY <2>1, <3>1, TopType, MovedType, MovedFrame DEF Goto, StackOK
  <2> HIDE DEF f
  <2>6. /\ AnswerSeen(Top(t), Ready, Known(t)) /\ PostSeen(Top(t), Known(t))
        /\ "sends" \in Known(t) /\ FrameOK(Top(t))
    BY <2>1, TopWakeful DEF StackOK, Deaf
  <2>7. MovesOn(Top(t), f, Known(t), Known(t)')
    BY <2>1, <2>5, <2>6 DEF MovesOn, IsBase, FrameOK, Waits, IsReceive, IsAnswer
  <2>8. AnswerSeen(f, Ready, Known(t)') /\ PostSeen(f, Known(t)') /\ "sends" \in Known(t)'
    BY <2>1, <2>4, <2>5, <2>6 DEF AnswerSeen, PostSeen
  <2>9. Wakeful(t, stack'[t], Ready, Known(t)')
    BY <2>1, <2>5, <2>7, <2>8, BecomeStep DEF StackOK
  <2>10. QED
    BY <2>3, <2>9, QuietOthers DEF StackOK
<1>10. ASSUME NEW t \in Threads, Woken(t)
       PROVE  AllWakeful'
  <2>1. stack[t] # <<>> /\ Top(t).at = "wait" /\ stack' = stack
    BY <1>10 DEF Woken, At
  <2>2. /\ \A u \in Threads \ {t} : signaled_'[u] = signaled_[u] /\ fWait_'[u] = fWait_[u]
        /\ ~fWait_'[t]
    BY <1>10 DEF Woken, FlagTypeOK
  <2>3. QuietFor(t)
    BY <1>10, <2>1, <2>2 DEF Woken, At, QuietFor, lists, flags
  <2> DEFINE other == Known(t)'
  <2>4. "left" \in other
    BY <2>2 DEF Known
  <2>5. Wakeful(t, stack[t], Ready, Known(t)) /\ stack[t] \in Seq(FrameOf(t))
        /\ Last(stack[t]).at = "wait"
    BY <2>1 DEF AllWakeful, StackOK, StackTypeOK, Top
  <2> HIDE DEF other
  <2>6. Wakeful(t, stack[t], Ready, other)
    BY <2>1, <2>4, <2>5, WokenWakeful
  <2>7. QED
    BY <2>1, <2>3, <2>6, QuietOthers DEF StackOK, other
<1>11. ASSUME NEW t \in Threads, LeaveWait(t)
       PROVE  AllWakeful'
  <2>1. stack[t] # <<>> /\ Top(t).at = "wait"
    BY <1>11 DEF LeaveWait, At
  <2>2. PICK f \in FrameOf(t) :
          /\ Become(t, f) /\ f.id = Top(t).id
          /\ f.at = IF f.id = 0 THEN "check" ELSE "test"
          /\ f.waited = (f.id # 0 \/ Top(t).waited)
    <3>1. /\ Top(t) \in FrameOf(t)
          /\ t \in Loops \/ Top(t).id # 0
      BY <2>1, TopType DEF StackOK
    <3>2. CASE Top(t).id = 0
      <4>1. "check" \in Places \ Numbered
        BY DEF Places, Numbered
      <4>2. LET g == Moved(Top(t), "check")
            IN  /\ g \in FrameOf(t) /\ g.at = "check" /\ g.id = Top(t).id
                /\ g.waited = Top(t).waited
        BY <3>1, <3>2, <4>1, MovedType, MovedFrame
      <4>3. Top(t).waited \in BOOLEAN
        BY <3>1 DEF FrameOf, AnyFrame
      <4>4. QED
        BY <1>11, <3>2, <4>2, <4>3 DEF LeaveWait
    <3>3. CASE Top(t).id # 0
      <4> DEFINE g == [at |-> "test", id |-> Top(t).id, peer |-> Top(t).peer,
                       waited |-> TRUE]
      <4>1. Top(t).id \in 0 .. MaxSends /\ Top(t).peer \in Threads \union {None}
        BY <2>1, TopType DEF StackOK
      <4>2. g \in FrameOf(t) /\ g.at = "test" /\ g.id = Top(t).id /\ g.waited = TRUE
        BY <3>3, <4>1 DEF FrameOf, AnyFrame, Places, Numbered, InSend
      <4>3. Become(t, g)
        BY <1>11, <3>3 DEF LeaveWait
      <4> HIDE DEF g
      <4>4. QED
        BY <3>3, <4>2, <4>3
    <3>4. QED
      BY <3>2, <3>3
  <2>3. \A u \in Threads \ {t} : stack'[u] = stack[u]
    BY <2>2 DEF Become, StackOK, StackTypeOK
  <2>4. QuietFor(t)
    BY <1>11, <2>3 DEF LeaveWait, At, QuietFor, lists, flags
  <2>5. Known(t) \subseteq Known(t)'
    BY <1>11, <2>4, QuietKnown DEF LeaveWait, lists
  <2>6. MovesOn(Top(t), f, Known(t), Known(t)')
    BY <2>1, <2>2, <2>5, TopWakeful
       DEF MovesOn, IsBase, FrameOK, Waits, IsReceive, IsAnswer, StackOK
  <2>7. AnswerSeen(f, Ready, Known(t)') /\ PostSeen(f, Known(t)') /\ ~Deaf(f)
    BY <2>2 DEF AnswerSeen, PostSeen, Deaf
  <2>8. Wakeful(t, stack'[t], Ready, Known(t)')
    BY <2>1, <2>2, <2>6, <2>7, BecomeStep DEF StackOK
  <2>9. QED
    BY <2>4, <2>8, QuietOthers DEF StackOK
<1>12. ASSUME NEW t \in Threads, TakePosted(t)
       PROVE  AllWakeful'
  <2> DEFINE f == Moved(Top(t), "check")
             g == Frame("run", 0, None)
  <2>1. stack[t] # <<>> /\ Top(t).at = "scan" /\ t \in Loops /\ BecomeCall(t, f, g)
    BY <1>12, TopType DEF TakePosted, At, GotoCall, StackOK, InSend
  <2>2. /\ \A u \in Threads \ {t} : stack'[u] = stack[u]
        /\ \A u \in Loops \ {t} : msgq_'[u] = msgq_[u]
    BY <1>12, <2>1 DEF TakePosted, BecomeCall, StackOK, StackTypeOK, CountTypeOK
  <2>3. QuietFor(t)
    BY <1>12, <2>2 DEF TakePosted, At, QuietFor, flags
  <2>4. Known(t) \subseteq Known(t)'
    <3>1. msgq_[t] # 0
      BY <1>12 DEF TakePosted
    <3>2. QED
      BY <1>12, <2>3, <3>1, QuietKnown DEF TakePosted
  <2>5. /\ f.at = "check" /\ f.id = Top(t).id /\ f.waited = Top(t).waited
        /\ f \in FrameOf(t)
        /\ g \in FrameOf(t) /\ g.at = "run" /\ ~g.waited
    <3>1. {"check", "run"} \subseteq Places \ Numbered /\ 0 \in 0 .. MaxSends
      BY ThreadSendAssumption DEF Places, Numbered
    <3>2. QED
      BY <2>1, <3>1, TopType, MovedType, MovedFrame, NewFrameType DEF Frame, StackOK
  <2> HIDE DEF f, g
  <2>6. MovesOn(Top(t), f, Known(t), Known(t)')
    BY <2>1, <2>4, <2>5, TopWakeful
       DEF MovesOn, IsBase, FrameOK, Waits, IsReceive, IsAnswer, StackOK
  <2>7. AnswerSeen(f, Ready, Known(t)') /\ PostSeen(f, Known(t)') /\ ~Deaf(f)
    BY <2>5 DEF AnswerSeen, PostSeen, Deaf
  <2>8. Wakeful(t, stack'[t], Ready, Known(t)')
    BY <2>1, <2>5, <2>6, <2>7, BecomeCallStep DEF StackOK
  <2>9. QED
    BY <2>3, <2>8, QuietOthers DEF StackOK
<1>13. ASSUME NEW t \in Threads, NothingPosted(t)
       PROVE  AllWakeful'
  <2> DEFINE f == Moved(Top(t), "stoptest")
  <2>1. stack[t] # <<>> /\ Top(t).at = "scan" /\ t \in Loops /\ Become(t, f) /\ msgq_[t] = 0
    BY <1>13, TopType DEF NothingPosted, At, Goto, StackOK, InSend
  <2>2. \A u \in Threads \ {t} : stack'[u] = stack[u]
    BY <2>1 DEF Become, StackOK, StackTypeOK
  <2>3. QuietFor(t)
    BY <1>13, <2>2 DEF NothingPosted, At, QuietFor, lists, flags
  <2>4. Known(t) \subseteq Known(t)'
    BY <1>13, <2>3, QuietKnown DEF NothingPosted, lists
  <2>5. /\ f.at = "stoptest" /\ f.id = Top(t).id /\ f.waited = Top(t).waited
        /\ f \in FrameOf(t)
    <3>1. "stoptest" \in Places \ Numbered
      BY DEF Places, Numbered
    <3>2. QED
      BY <2>1, <3>1, TopType, MovedType, MovedFrame DEF StackOK
  <2> HIDE DEF f
  <2>6. "posts" \in Known(t)
    BY <2>1, KnownOf DEF PostKnown
  <2>7. "sends" \in Known(t) /\ FrameOK(Top(t))
    BY <2>1, TopWakeful DEF Deaf, StackOK
  <2>8. MovesOn(Top(t), f, Known(t), Known(t)')
    BY <2>1, <2>4, <2>5, <2>7
       DEF MovesOn, IsBase, FrameOK, Waits, IsReceive, IsAnswer, StackOK
  <2>9. AnswerSeen(f, Ready, Known(t)') /\ PostSeen(f, Known(t)')
    BY <2>4, <2>5, <2>6 DEF AnswerSeen, PostSeen
  <2>10. Wakeful(t, stack'[t], Ready, Known(t)')
    BY <2>1, <2>4, <2>5, <2>7, <2>8, <2>9, BecomeStep DEF StackOK
  <2>11. QED
    BY <2>3, <2>10, QuietOthers DEF StackOK
<1>14. ASSUME NEW t \in Threads, StopTest(t)
       PROVE  AllWakeful'
  <2>1. stack[t] # <<>> /\ Top(t).at = "stoptest" /\ t \in Loops
    BY <1>14, TopType DEF StopTest, At, StackOK, InSend
  <2>2. PICK at \in {"exit", "enterwait"} : Goto(t, at)
    BY <1>14 DEF StopTest
  <2> DEFINE f == Moved(Top(t), at)
  <2>3. \A u \in Threads \ {t} : stack'[u] = stack[u]
    BY <2>2 DEF Goto, Become, StackOK, StackTypeOK
  <2>4. QuietFor(t)
    BY <1>14, <2>3 DEF StopTest, At, QuietFor, lists, flags
  <2>5. Known(t) \subseteq Known(t)'
    BY <1>14, <2>4, QuietKnown DEF StopTest, lists
  <2>6. /\ f.at = at /\ f.id = Top(t).id /\ f.waited = Top(t).waited
        /\ f \in FrameOf(t) /\ Become(t, f)
    <3>1. at \in Places \ Numbered
      BY <2>2 DEF Places, Numbered
    <3>2. QED
      BY <2>1, <2>2, <3>1, TopType, MovedType, MovedFrame DEF Goto, StackOK
  <2> HIDE DEF f
  <2>7. /\ "sends" \in Known(t) /\ PostSeen(Top(t), Known(t)) /\ FrameOK(Top(t))
    BY <2>1, TopWakeful DEF Deaf, StackOK
  <2>8. MovesOn(Top(t), f, Known(t), Known(t)')
    BY <2>1, <2>2, <2>5, <2>6, <2>7
       DEF MovesOn, IsBase, FrameOK, Waits, IsReceive, IsAnswer, StackOK
  <2>9. AnswerSeen(f, Ready, Known(t)') /\ PostSeen(f, Known(t)')
    BY <2>1, <2>2, <2>5, <2>6, <2>7 DEF AnswerSeen, PostSeen, FrameOK
  <2>10. Wakeful(t, stack'[t], Ready, Known(t)')
    BY <2>1, <2>5, <2>6, <2>7, <2>8, <2>9, BecomeStep DEF StackOK
  <2>11. QED
    BY <2>4, <2>10, QuietOthers DEF StackOK
<1>15. ASSUME NEW r \in Loops, SocketEvent(r)
       PROVE  AllWakeful'
  <2> DEFINE f == Frame("run", 0, None)
  <2>1. stack[r] # <<>> /\ Top(r).at = "wait" /\ r \in Threads /\ Call(r, f)
    BY <1>15 DEF SocketEvent, At, Threads
  <2>2. \A u \in Threads \ {r} : stack'[u] = stack[u]
    BY <2>1 DEF Call, StackOK, StackTypeOK
  <2>3. QuietFor(r)
    BY <1>15, <2>2 DEF SocketEvent, At, QuietFor, lists
  <2>4. Known(r) \subseteq Known(r)'
    BY <1>15, <2>1, <2>3, QuietKnown DEF SocketEvent, lists
  <2>5. f \in FrameOf(r) /\ f.at = "run" /\ ~f.waited
    <3>1. "run" \in Places \ Numbered /\ 0 \in 0 .. MaxSends
      BY ThreadSendAssumption DEF Places, Numbered
    <3>2. QED
      BY <2>1, <3>1, NewFrameType DEF Frame
  <2> HIDE DEF f
  <2>6. Wakeful(r, stack'[r], Ready, Known(r)')
    BY <2>1, <2>4, <2>5, CallStep DEF StackOK
  <2>7. QED
    BY <2>1, <2>3, <2>6, QuietOthers DEF StackOK
<1>16. ASSUME NEW t \in Threads, PushSend(t)
       PROVE  AllWakeful'
  <2> DEFINE r == Top(t).peer
             f == Moved(Top(t), "wakepeer")
  <2>1. stack[t] # <<>> /\ Top(t).at = "push" /\ Become(t, f)
    BY <1>16 DEF PushSend, At, Goto
  <2>2. \A u \in Loops \ {r} : sendlist_'[u] = sendlist_[u]
    BY <1>16 DEF PushSend, ListTypeOK
  <2>3. /\ f.at = "wakepeer" /\ f.id = Top(t).id /\ f.waited = Top(t).waited
        /\ f.peer = r /\ f \in FrameOf(t)
    <3>1. "wakepeer" \in Places /\ "wakepeer" \in InSend /\ Top(t).id # 0
      BY <2>1, TopType DEF Places, InSend, Numbered, SendIds, StackOK
    <3>2. QED
      BY <2>1, <3>1, TopType, MovedType, MovedFrame DEF StackOK
  <2> HIDE DEF f
  <2>4. /\ At(t, "wakepeer")' /\ Top(t)'.peer = r
        /\ \A u \in Threads \ {t} : stack'[u] = stack[u]
    BY <2>1, <2>3, BecomeTop DEF StackOK, At
  <2> HIDE DEF r
  <2>5. ASSUME NEW u \in Threads
        PROVE  Known(u) \subseteq Known(u)'
    <3>1. u \in Loops /\ u = r => SendKnown(u)'
      BY <2>4 DEF SendKnown
    <3>2. u \in Loops /\ sendlist_[u] = <<>> => sendlist_'[u] = <<>> \/ SendKnown(u)'
      BY <2>2, <3>1
    <3>3. /\ UNCHANGED <<signaled_, msgq_, fWait_>>
          /\ ~At(t, "wakesender") /\ ~At(t, "wakepeer")
      BY <1>16, <2>1 DEF PushSend, At
    <3>4. QED
      BY <2>4, <3>2, <3>3, KnownGrows
  <2>6. MovesOn(Top(t), f, Known(t), Known(t)')
    BY <2>1, <2>3, <2>5, TopWakeful
       DEF MovesOn, IsBase, FrameOK, Waits, IsReceive, IsAnswer, StackOK
  <2>7. AnswerSeen(f, Ready, Known(t)') /\ PostSeen(f, Known(t)') /\ ~Deaf(f)
    BY <2>3 DEF AnswerSeen, PostSeen, Deaf
  <2>8. Wakeful(t, stack'[t], Ready, Known(t)')
    BY <2>1, <2>3, <2>6, <2>7, BecomeStep DEF StackOK
  <2>9. ready' = ready
    BY <1>16 DEF PushSend, flags
  <2>10. QED
    BY <2>4, <2>5, <2>8, <2>9, StepOthers DEF StackOK
<1>17. ASSUME NEW t \in Threads, WakePeer(t)
       PROVE  AllWakeful'
  <2> DEFINE f == Moved(Top(t), "test")
  <2>1. stack[t] # <<>> /\ Top(t).at = "wakepeer" /\ Become(t, f)
    BY <1>17 DEF WakePeer, At, Goto
  <2>2. signaled_' = [signaled_ EXCEPT ![Top(t).peer] = TRUE]
    BY <1>17 DEF WakePeer
  <2>3. /\ f.at = "test" /\ f.id = Top(t).id /\ f.waited = Top(t).waited
        /\ f \in FrameOf(t)
    <3>1. "test" \in Places /\ "test" \in InSend /\ Top(t).id # 0
      BY <2>1, TopType DEF Places, InSend, Numbered, SendIds, StackOK
    <3>2. QED
      BY <2>1, <3>1, TopType, MovedType, MovedFrame DEF StackOK
  <2> HIDE DEF f
  <2>4. \A u \in Threads \ {t} : stack'[u] = stack[u]
    BY <2>1, <2>3, BecomeTop DEF StackOK
  <2>5. ASSUME NEW u \in Threads
        PROVE  Known(u) \subseteq Known(u)'
    <3>1. (signaled_[u] => signaled_'[u]) /\ (Top(t).peer = u => signaled_'[u])
      BY <2>2 DEF FlagTypeOK
    <3>2. UNCHANGED <<sendlist_, msgq_, fWait_>>
      BY <1>17 DEF WakePeer, lists
    <3>3. QED
      BY <2>4, <3>1, <3>2, KnownGrows
  <2>6. MovesOn(Top(t), f, Known(t), Known(t)')
    BY <2>1, <2>3, <2>5, TopWakeful
       DEF MovesOn, IsBase, FrameOK, Waits, IsReceive, IsAnswer, StackOK
  <2>7. AnswerSeen(f, Ready, Known(t)') /\ PostSeen(f, Known(t)') /\ ~Deaf(f)
    BY <2>3 DEF AnswerSeen, PostSeen, Deaf
  <2>8. Wakeful(t, stack'[t], Ready, Known(t)')
    BY <2>1, <2>3, <2>6, <2>7, BecomeStep DEF StackOK
  <2>9. ready' = ready
    BY <1>17 DEF WakePeer, flags
  <2>10. QED
    BY <2>4, <2>5, <2>8, <2>9, StepOthers DEF StackOK
<1>18. ASSUME NEW t \in Threads, WakeSender(t)
       PROVE  AllWakeful'
  <2> DEFINE f == Moved(Top(t), "pop")
  <2>1. stack[t] # <<>> /\ Top(t).at = "wakesender" /\ t \in Loops /\ Become(t, f)
    BY <1>18, TopType DEF WakeSender, At, Goto, StackOK, InSend
  <2>2. signaled_' = [signaled_ EXCEPT ![Top(t).peer] = TRUE]
    BY <1>18 DEF WakeSender
  <2>3. /\ f.at = "pop" /\ f.id = Top(t).id /\ f.waited = Top(t).waited
        /\ f \in FrameOf(t)
    <3>1. "pop" \in Places \ Numbered
      BY DEF Places, Numbered
    <3>2. QED
      BY <2>1, <3>1, TopType, MovedType, MovedFrame DEF StackOK
  <2> HIDE DEF f
  <2>4. \A u \in Threads \ {t} : stack'[u] = stack[u]
    BY <2>1, <2>3, BecomeTop DEF StackOK
  <2>5. ASSUME NEW u \in Threads
        PROVE  Known(u) \subseteq Known(u)'
    <3>1. (signaled_[u] => signaled_'[u]) /\ (Top(t).peer = u => signaled_'[u])
      BY <2>2 DEF FlagTypeOK
    <3>2. UNCHANGED <<sendlist_, msgq_, fWait_>>
      BY <1>18 DEF WakeSender, lists
    <3>3. QED
      BY <2>4, <3>1, <3>2, KnownGrows
  <2>6. MovesOn(Top(t), f, Known(t), Known(t)')
    BY <2>1, <2>3, <2>5, TopWakeful
       DEF MovesOn, IsBase, FrameOK, Waits, IsReceive, IsAnswer, StackOK
  <2>7. AnswerSeen(f, Ready, Known(t)') /\ PostSeen(f, Known(t)') /\ ~Deaf(f)
    BY <2>3 DEF AnswerSeen, PostSeen, Deaf
  <2>8. Wakeful(t, stack'[t], Ready, Known(t)')
    BY <2>1, <2>3, <2>6, <2>7, BecomeStep DEF StackOK
  <2>9. ready' = ready
    BY <1>18 DEF WakeSender, flags
  <2>10. QED
    BY <2>4, <2>5, <2>8, <2>9, StepOthers DEF StackOK
<1>19. ASSUME NEW t \in Threads, Answer(t)
       PROVE  AllWakeful'
  <2> DEFINE i == Top(t).id
             f == Moved(Top(t), "wakesender")
  <2>1. stack[t] # <<>> /\ Top(t).at = "answer" /\ t \in Loops /\ Become(t, f)
    BY <1>19, TopType DEF Answer, At, Goto, StackOK, InSend
  <2>2. \A e \in Ready' : e \in Ready \/ e = i
    BY <1>19 DEF Answer, Ready, FlagTypeOK
  <2>3. /\ f.at = "wakesender" /\ f.id = i /\ f.waited = Top(t).waited
        /\ f.peer = Top(t).peer /\ f \in FrameOf(t) /\ i \in SendIds
    <3>1. "wakesender" \in Places /\ i # 0 /\ i \in SendIds
      BY <2>1, TopType DEF Places, Numbered, SendIds, StackOK
    <3>2. QED
      BY <2>1, <3>1, TopType, MovedType, MovedFrame DEF StackOK
  <2> HIDE DEF f
  <2>4. /\ At(t, "wakesender")' /\ Top(t)'.peer = Top(t).peer
        /\ \A u \in Threads \ {t} : stack'[u] = stack[u]
    BY <2>1, <2>3, BecomeTop DEF StackOK, At
  <2>5. ASSUME NEW u \in Threads
        PROVE  Known(u) \subseteq Known(u)'
    <3>1. /\ UNCHANGED <<signaled_, sendlist_, msgq_, fWait_>>
          /\ ~At(t, "wakesender") /\ ~At(t, "wakepeer")
      BY <1>19, <2>1 DEF Answer, At, lists
    <3>2. QED
      BY <2>4, <3>1, KnownGrows
  <2>6. Top(t).peer \in Threads /\ Owns(Top(t).peer, i)
    <3>1. FrameOK(Top(t)) /\ IsAnswer(Top(t))
      BY <2>1, TopWakeful DEF StackOK, IsAnswer
    <3>2. Top(t).peer \in Threads
      BY <2>1, <3>1, TopType DEF StackOK, FrameOK
    <3>3. Top(t) \in Range(stack[t])
      <4>1. stack[t] \in Seq(FrameOf(t))
        BY DEF StackOK, StackTypeOK
      <4>2. /\ Len(stack[t]) \in DOMAIN stack[t] /\ Top(t) = stack[t][Len(stack[t])]
        <5>1. Len(stack[t]) \in Nat \ {0} /\ DOMAIN stack[t] = 1 .. Len(stack[t])
          BY <2>1, <4>1, FrontOfSeq
        <5>2. Top(t) = stack[t][Len(stack[t])]
          BY <2>1, <4>1, FrontOfSeq DEF Top
        <5>3. QED
          BY <5>1, <5>2
      <4>3. QED
        BY <4>2 DEF Range
    <3>4. QED
      BY <3>1, <3>2, <3>3 DEF Owns
  <2>7. ASSUME NEW u \in Threads, NEW e \in Range(stack[u]), IsSend(e), e.id \in Ready'
        PROVE  e.id \in Ready \/ "answers" \in Known(u)'
    <3>1. CASE e.id = i
      <4>1. Owns(u, i)
        BY <2>7, <3>1 DEF Owns
      <4>2. u = Top(t).peer
        BY <2>3, <2>6, <4>1 DEF Owners
      <4>3. AnswerKnown(u)'
        BY <2>4, <4>2 DEF AnswerKnown
      <4>4. QED
        BY <4>3 DEF Known
    <3>2. CASE e.id # i
      BY <2>2, <2>7, <3>2
    <3>3. QED
      BY <3>1, <3>2
  <2>8. MovesOn(Top(t), f, Known(t), Known(t)')
    BY <2>1, <2>3, <2>5, TopWakeful
       DEF MovesOn, IsBase, FrameOK, Waits, IsReceive, IsAnswer, StackOK
  <2>9. Wakeful(t, stack'[t], Ready', Known(t)')
    BY <2>1, <2>3, <2>5, <2>7, <2>8, RaisingStep DEF StackOK
  <2>10. ASSUME NEW u \in Threads, u # t
         PROVE  Wakeful(u, stack'[u], Ready', Known(u)')
    <3>1. Wakeful(u, stack[u], Ready, Known(u)) /\ stack'[u] = stack[u]
      BY <2>4, <2>10 DEF AllWakeful
    <3>2. QED
      BY <2>5, <2>7, <3>1, OtherWakeful DEF StackOK
  <2>11. \A u \in Threads : Wakeful(u, stack'[u], Ready', Known(u)')
    BY <2>9, <2>10
  <2>12. QED
    BY <2>11 DEF AllWakeful
<1>20. ASSUME NEW t \in Threads, NEW r \in Loops, Post(t, r)
       PROVE  AllWakeful'
  <2>1. /\ UNCHANGED <<stack, sendlist_, fWait_, ready>>
        /\ signaled_' = [signaled_ EXCEPT ![r] = TRUE]
        /\ \A u \in Loops \ {r} : msgq_'[u] = msgq_[u]
    BY <1>20 DEF Post, CountTypeOK
  <2>2. ASSUME NEW u \in Threads
        PROVE  Wakeful(u, stack'[u], Ready', Known(u)')
    <3>1. (signaled_[u] => signaled_'[u]) /\ (u = r => signaled_'[u])
      BY <2>1 DEF FlagTypeOK
    <3>2. Known(u) \subseteq Known(u)'
      BY <2>1, <3>1, KnownGrows
    <3>3. Ready' = Ready /\ Wakeful(u, stack[u], Ready, Known(u))
      BY <2>1 DEF AllWakeful, Ready
    <3>4. QED
      BY <2>1, <3>2, <3>3, OtherWakeful DEF StackOK
  <2>3. QED
    BY <2>2 DEF AllWakeful
<1>21. ASSUME NEW r \in Loops, Quit(r)
       PROVE  AllWakeful'
  <2>1. /\ UNCHANGED <<stack, sendlist_, msgq_, fWait_, ready>>
        /\ signaled_' = [signaled_ EXCEPT ![r] = TRUE]
    BY <1>21 DEF Quit, lists
  <2>2. ASSUME NEW u \in Threads
        PROVE  Wakeful(u, stack'[u], Ready', Known(u)')
    <3>1. signaled_[u] => signaled_'[u]
      BY <2>1 DEF FlagTypeOK
    <3>2. Known(u) \subseteq Known(u)'
      BY <2>1, <3>1, KnownGrows
    <3>3. Ready' = Ready /\ Wakeful(u, stack[u], Ready, Known(u))
      BY <2>1 DEF AllWakeful, Ready
    <3>4. QED
      BY <2>1, <3>2, <3>3, OtherWakeful DEF StackOK
  <2>3. QED
    BY <2>2 DEF AllWakeful
<1>22. ASSUME NEW t \in Threads, NEW r \in Loops, Clear(t, r)
       PROVE  AllWakeful'
  <2>1. ClearAll(r) /\ UNCHANGED <<stack, fWait_>>
    BY <1>22 DEF Clear
  <2>2. ASSUME NEW u \in Threads
        PROVE  Wakeful(u, stack'[u], Ready', Known(u)')
    <3>1. Known(u) \subseteq Known(u)'
      BY <2>1, ClearKnown
    <3>2. Wakeful(u, stack[u], Ready, Known(u))
      BY DEF AllWakeful
    <3>3. \A f \in Range(stack[u]) : IsSend(f) /\ f.id \in Ready' =>
             f.id \in Ready \/ "answers" \in Known(u)'
      BY <2>1, ClearedAreTold
    <3>4. QED
      BY <2>1, <3>1, <3>2, <3>3, OtherWakeful DEF StackOK
  <2>3. QED
    BY <2>2 DEF AllWakeful
<1>23. ASSUME NEW r \in Loops, Destroy(r)
       PROVE  AllWakeful'
  <2> DEFINE f == Moved(Top(r), "gone")
  <2>1. /\ stack[r] # <<>> /\ Top(r).at = "exit" /\ r \in Threads
        /\ Become(r, f) /\ ClearAll(r) /\ fWait_' = fWait_
    BY <1>23 DEF Destroy, At, Goto, Threads
  <2>2. /\ f.at = "gone" /\ f.id = Top(r).id /\ f.waited = Top(r).waited
        /\ f \in FrameOf(r)
    <3>1. "gone" \in Places \ Numbered
      BY DEF Places, Numbered
    <3>2. QED
      BY <2>1, <3>1, TopType, MovedType, MovedFrame DEF StackOK
  <2> HIDE DEF f
  <2>3. \A u \in Threads \ {r} : stack'[u] = stack[u]
    BY <2>1, <2>2, BecomeTop DEF StackOK
  <2>4. ASSUME NEW u \in Threads
        PROVE  /\ Known(u) \subseteq Known(u)'
               /\ \A e \in Range(stack[u]) : IsSend(e) /\ e.id \in Ready' =>
                     e.id \in Ready \/ "answers" \in Known(u)'
    <3>1. ~At(r, "wakesender") /\ ~At(r, "wakepeer")
      BY <2>1 DEF At
    <3>2. QED
      BY <2>1, <2>3, <3>1, ClearKnown, ClearedAreTold
  <2>5. MovesOn(Top(r), f, Known(r), Known(r)')
    BY <2>1, <2>2, <2>4, TopWakeful
       DEF MovesOn, IsBase, FrameOK, Waits, IsReceive, IsAnswer, StackOK
  <2>6. Wakeful(r, stack'[r], Ready', Known(r)')
    BY <2>1, <2>2, <2>4, <2>5, RaisingStep DEF StackOK
  <2>7. ASSUME NEW u \in Threads, u # r
        PROVE  Wakeful(u, stack'[u], Ready', Known(u)')
    <3>1. Wakeful(u, stack[u], Ready, Known(u)) /\ stack'[u] = stack[u]
      BY <2>3, <2>7 DEF AllWakeful
    <3>2. QED
      BY <2>4, <3>1, OtherWakeful DEF StackOK
  <2>8. \A u \in Threads : Wakeful(u, stack'[u], Ready', Known(u)')
    BY <2>6, <2>7
  <2>9. QED
    BY <2>8 DEF AllWakeful
<1>24. CASE UNCHANGED vars
  <2>1. UNCHANGED <<stack, signaled_, sendlist_, msgq_, fWait_, ready>>
    BY <1>24 DEF vars
  <2>2. ASSUME NEW u \in Threads
        PROVE  Wakeful(u, stack'[u], Ready', Known(u)')
    <3>1. Known(u) \subseteq Known(u)'
      BY <2>1, KnownGrows
    <3>2. Ready' = Ready /\ Wakeful(u, stack[u], Ready, Known(u))
      BY <2>1 DEF AllWakeful, Ready
    <3>3. QED
      BY <2>1, <3>1, <3>2, OtherWakeful DEF StackOK
  <2>3. QED
    BY <2>2 DEF AllWakeful
<1>25. QED
  BY <1>1, <1>2, <1>3, <1>4, <1>5, <1>6, <1>7, <1>8, <1>9, <1>10,
     <1>11, <1>12, <1>13, <1>14, <1>15, <1>16, <1>17, <1>18, <1>19, <1>20,
     <1>21, <1>22, <1>23, <1>24
     DEF Next, Internal

-----------------------------------------------------------------------------
(* Owners.                                                                 *)
LEMMA RangeOfStacks ==
  ASSUME NEW S, NEW st \in Seq(S), st # <<>>, NEW f \in S, NEW g \in S
  PROVE  /\ Range(Front(st)) \subseteq Range(st) /\ Last(st) \in Range(st)
         /\ Range(Append(Front(st), f)) \subseteq Range(st) \union {f}
         /\ Range(Append(Append(Front(st), f), g)) \subseteq Range(st) \union {f, g}
<1>1. /\ Front(st) \in Seq(S) /\ Len(st) \in Nat \ {0} /\ DOMAIN st = 1 .. Len(st)
      /\ Len(Front(st)) = Len(st) - 1
      /\ \A i \in 1 .. Len(st) - 1 : Front(st)[i] = st[i]
      /\ Last(st) = st[Len(st)]
  BY FrontOfSeq
<1>2. DOMAIN Front(st) = 1 .. Len(st) - 1
  BY <1>1, LenProperties
<1>3. ASSUME NEW x \in Range(Front(st)) PROVE x \in Range(st)
  <2>1. PICK i \in 1 .. Len(st) - 1 : x = Front(st)[i]
    BY <1>2 DEF Range
  <2>2. i \in 1 .. Len(st) /\ x = st[i]
    BY <1>1, <2>1
  <2>3. QED
    BY <1>1, <2>2 DEF Range
<1>4. Last(st) \in Range(st)
  <2>1. Len(st) \in 1 .. Len(st)
    BY <1>1
  <2>2. QED
    BY <1>1, <2>1 DEF Range
<1>5. /\ Append(Front(st), f) \in Seq(S)
      /\ Range(Append(Front(st), f)) \subseteq Range(Front(st)) \union {f}
  BY <1>1, RangeOfAppend
<1>6. Range(Append(Append(Front(st), f), g)) \subseteq Range(Append(Front(st), f)) \union {g}
  BY <1>5, RangeOfAppend
<1>7. QED
  BY <1>3, <1>4, <1>5, <1>6

(* what a frame says of the send it is about *)
Owned(t, f) ==
  /\ IsSend(f) => Owns(t, f.id)
  /\ IsAnswer(f) => Owns(f.peer, f.id)

ListsOwned == \A r \in Loops : \A s \in Range(sendlist_'[r]) : Owns(s.from, s.id)

LEMMA OwnedNow ==
  /\ \A t \in Threads : \A f \in Range(stack[t]) : Owned(t, f)
  /\ \A r \in Loops : \A s \in Range(sendlist_[r]) : Owns(s.from, s.id)
BY DEF Owned, Owns

LEMMA SameOwners ==
  ASSUME Owners, NEW t \in Threads, count'.sends = count.sends, ListsOwned,
         \A u \in Threads \ {t} : stack'[u] = stack[u],
         \A f \in Range(stack'[t]) : Owned(t, f)
  PROVE  Owners'
<1>1. ASSUME NEW u \in Threads, NEW f \in Range(stack'[u])
      PROVE  Owned(u, f)
  <2>1. CASE u = t
    BY <1>1, <2>1
  <2>2. CASE u # t
    BY <1>1, <2>2, OwnedNow
  <2>3. QED
    BY <2>1, <2>2
<1>2. ASSUME NEW u \in Threads, NEW i, Owns(u, i)'
      PROVE  Owns(u, i)
  BY <1>1, <1>2 DEF Owns, ListsOwned, Owned
<1>3. QED
  BY <1>2 DEF Owners

LEMMA TopOwned ==
  ASSUME StackTypeOK, NEW t \in Threads, stack[t] # <<>>
  PROVE  Owned(t, Top(t))
<1>1. Last(stack[t]) \in Range(stack[t])
  <2>1. stack[t] \in Seq(FrameOf(t)) /\ Last(stack[t]) \in FrameOf(t)
    BY FrontOfSeq DEF StackTypeOK
  <2>2. QED
    BY <2>1, RangeOfStacks
<1>2. QED
  BY <1>1, OwnedNow DEF Top

LEMMA BecomeOwners ==
  ASSUME StackTypeOK, Owners, NEW t \in Threads, stack[t] # <<>>,
         NEW f \in FrameOf(t), Become(t, f), Owned(t, f),
         count'.sends = count.sends, ListsOwned
  PROVE  Owners'
<1>1. stack[t] \in Seq(FrameOf(t)) /\ stack'[t] = Append(Front(stack[t]), f)
      /\ \A u \in Threads \ {t} : stack'[u] = stack[u]
  BY DEF StackTypeOK, Become
<1>2. Range(stack'[t]) \subseteq Range(stack[t]) \union {f}
  BY <1>1, RangeOfStacks
<1>3. \A e \in Range(stack'[t]) : Owned(t, e)
  BY <1>2, OwnedNow
<1>4. QED
  BY <1>1, <1>3, SameOwners

LEMMA BecomeCallOwners ==
  ASSUME StackTypeOK, Owners, NEW t \in Threads, stack[t] # <<>>,
         NEW f \in FrameOf(t), NEW g \in FrameOf(t), BecomeCall(t, f, g),
         Owned(t, f), Owned(t, g), count'.sends = count.sends, ListsOwned
  PROVE  Owners'
<1>1. stack[t] \in Seq(FrameOf(t)) /\ stack'[t] = Append(Append(Front(stack[t]), f), g)
      /\ \A u \in Threads \ {t} : stack'[u] = stack[u]
  BY DEF StackTypeOK, BecomeCall
<1>2. Range(stack'[t]) \subseteq Range(stack[t]) \union {f, g}
  BY <1>1, RangeOfStacks
<1>3. \A e \in Range(stack'[t]) : Owned(t, e)
  BY <1>2, OwnedNow
<1>4. QED
  BY <1>1, <1>3, SameOwners

LEMMA ReturnOwners ==
  ASSUME StackTypeOK, Owners, NEW t \in Threads, stack[t] # <<>>, Return(t),
         count'.sends = count.sends, ListsOwned
  PROVE  Owners'
<1>1. stack[t] \in Seq(FrameOf(t)) /\ stack'[t] = Front(stack[t])
      /\ \A u \in Threads \ {t} : stack'[u] = stack[u]
  BY DEF StackTypeOK, Return
<1>2. Range(stack'[t]) \subseteq Range(stack[t])
  <2>1. Last(stack[t]) \in FrameOf(t)
    BY <1>1, FrontOfSeq
  <2>2. QED
    BY <1>1, <2>1, RangeOfStacks
<1>3. \A e \in Range(stack'[t]) : Owned(t, e)
  BY <1>2, OwnedNow
<1>4. QED
  BY <1>1, <1>3, SameOwners

(* a frame that moves within its call is about the same send *)
LEMMA GotoOwners ==
  ASSUME StackTypeOK, Owners, NEW t \in Threads, stack[t] # <<>>,
         NEW at \in Places, at \in Numbered => Top(t).id # 0,
         t \in Loops \/ at \in InSend,
         at \in InSend => Top(t).at \in InSend \/ Top(t).id = 0,
         at \in {"answer", "wakesender"} => Top(t).at \in {"answer", "wakesender"},
         Goto(t, at), count'.sends = count.sends, ListsOwned
  PROVE  Owners'
<1> DEFINE f == Moved(Top(t), at)
<1>1. /\ f \in FrameOf(t) /\ f.at = at /\ f.id = Top(t).id /\ f.peer = Top(t).peer
      /\ Become(t, f)
  BY TopType, MovedType, MovedFrame DEF Goto
<1> HIDE DEF f
<1>2. Owned(t, f)
  BY <1>1, TopOwned DEF Owned, IsSend, IsAnswer
<1>3. QED
  BY <1>1, <1>2, BecomeOwners

LEMMA ClearOwns ==
  ASSUME ListTypeOK, NEW r \in Loops, ClearAll(r)
  PROVE  ListsOwned
<1>1. \A q \in Loops : sendlist_'[q] = IF q = r THEN <<>> ELSE sendlist_[q]
  BY DEF ClearAll, ListTypeOK
<1>2. Range(<<>>) = {}
  BY EmptySeq DEF Range
<1>3. QED
  BY <1>1, <1>2, OwnedNow DEF ListsOwned

(* A send has one owner from its push until it is answered or given up,    *)
(* and a new one gets a number of its own.                                 *)
LEMMA OwnersStep ==
  ASSUME StackOK, ListTypeOK, CountTypeOK, AllWakeful, Owners, [Next]_vars
  PROVE  Owners'
<1>1. ASSUME NEW t \in Threads, NEW r \in Loops, BeginSend(t, r)
      PROVE  Owners'
  <2> DEFINE n == count.sends + 1
             f == IF r = t THEN Frame("run", n, None) ELSE Frame("push", n, r)
  <2>1. /\ count'.sends = n /\ count.sends \in Nat /\ n \in SendIds
        /\ sendlist_' = sendlist_
    <3>1. count.sends \in 0 .. MaxSends /\ count.sends < MaxSends
      BY <1>1 DEF BeginSend, CountTypeOK
    <3>2. count'.sends = n /\ sendlist_' = sendlist_
      BY <1>1 DEF BeginSend, CountTypeOK, lists
    <3>3. QED
      BY <3>1, <3>2, ThreadSendAssumption DEF SendIds
  <2>2. /\ stack'[t] = Append(stack[t], f)
        /\ \A u \in Threads \ {t} : stack'[u] = stack[u]
    BY <1>1 DEF BeginSend, Call, StackOK, StackTypeOK
  <2>3. ~IsAnswer(f) /\ f.id = n
    BY DEF IsAnswer, Frame
  <2>4. f \in FrameOf(t)
    <3>1. /\ "run" \in Places \ Numbered /\ "push" \in Places \intersect InSend
          /\ r \in Threads
      BY DEF Places, Numbered, InSend, Threads
    <3>2. n \in 0 .. MaxSends /\ n # 0
      BY <2>1, ThreadSendAssumption DEF SendIds
    <3> HIDE DEF n
    <3>3. CASE r = t
      BY <3>1, <3>2, <3>3, NewFrameType
    <3>4. CASE r # t
      BY <3>1, <3>2, <3>4, NewFrameType
    <3>5. QED
      BY <3>3, <3>4
  <2> HIDE DEF f
  <2>5. Range(stack'[t]) \subseteq Range(stack[t]) \union {f}
    BY <2>2, <2>4, RangeOfAppend DEF StackOK, StackTypeOK
  <2>6. ASSUME NEW u \in Threads, NEW i, Owns(u, i)'
        PROVE  Owns(u, i) \/ (u = t /\ i = n)
    <3>1. \A v \in Threads : \A e \in Range(stack'[v]) :
            e \in Range(stack[v]) \/ (v = t /\ e = f)
      BY <2>2, <2>5
    <3>2. QED
      BY <2>1, <2>3, <2>6, <3>1 DEF Owns
  <2>7. \A u \in Threads : ~Owns(u, n)
    BY <2>1 DEF Owners
  <2> HIDE DEF n
  <2>8. \A i \in SendIds : i <= count.sends => i <= n
    BY <2>1, ThreadSendAssumption DEF SendIds, n
  <2>9. n <= n
    BY <2>1, ThreadSendAssumption DEF SendIds
  <2>10. QED
    BY <2>1, <2>6, <2>7, <2>8, <2>9 DEF Owners
<1>2. ASSUME NEW t \in Threads, NEW r \in Loops, Post(t, r)
      PROVE  Owners'
  BY <1>2 DEF Post, Owners, Owns, CountTypeOK
<1>3. ASSUME NEW t \in Threads, NEW r \in Loops, Clear(t, r)
      PROVE  Owners'
  <2>1. count'.sends = count.sends /\ stack' = stack
    BY <1>3 DEF Clear, CountTypeOK
  <2>2. ListsOwned
    BY <1>3, ClearOwns DEF Clear
  <2>3. QED
    BY <2>1, <2>2, OwnedNow, SameOwners
<1>4. ASSUME NEW t \in Threads, Finish(t)
      PROVE  Owners'
  BY <1>4, ReturnOwners, OwnedNow DEF Finish, At, ListsOwned, lists, StackOK
<1>5. ASSUME NEW t \in Threads, PushSend(t)
      PROVE  Owners'
  <2>1. /\ stack[t] # <<>> /\ Top(t).at = "push" /\ Top(t).id \in SendIds
        /\ Top(t).id # 0 /\ Goto(t, "wakepeer") /\ count'.sends = count.sends
    BY <1>5, TopType DEF PushSend, At, Numbered, SendIds, StackOK, flags
  <2> DEFINE s == [id |-> Top(t).id, from |-> t]
  <2>2. s \in Sends /\ s.id = Top(t).id /\ s.from = t
    BY <2>1 DEF Sends
  <2>3. Owns(t, Top(t).id)
    BY <2>1, TopOwned DEF Owned, IsSend, InSend, StackOK
  <2>4. \A q \in Loops : sendlist_'[q] \in {sendlist_[q], Append(sendlist_[q], s)}
    BY <1>5 DEF PushSend, ListTypeOK
  <2> HIDE DEF s
  <2>5. ListsOwned
    <3>1. \A q \in Loops : Range(sendlist_'[q]) \subseteq Range(sendlist_[q]) \union {s}
      BY <2>2, <2>4, RangeOfAppend DEF ListTypeOK
    <3>2. QED
      BY <2>2, <2>3, <3>1, OwnedNow DEF ListsOwned
  <2>6. QED
    BY <2>1, <2>5, GotoOwners DEF Places, InSend, StackOK
<1>6. ASSUME NEW t \in Threads, WakePeer(t)
      PROVE  Owners'
  <2>1. /\ stack[t] # <<>> /\ Top(t).at = "wakepeer" /\ Top(t).id # 0
        /\ Goto(t, "test") /\ count'.sends = count.sends /\ sendlist_' = sendlist_
    BY <1>6, TopType DEF WakePeer, At, Numbered, SendIds, StackOK, flags, lists
  <2>2. QED
    BY <2>1, GotoOwners, OwnedNow DEF Places, InSend, StackOK, ListsOwned
<1>7. ASSUME NEW t \in Threads, NotReady(t)
      PROVE  Owners'
  <2>1. /\ stack[t] # <<>> /\ Top(t).at = "test" /\ Top(t).id # 0
        /\ Goto(t, "receive") /\ count'.sends = count.sends /\ sendlist_' = sendlist_
    BY <1>7, TopType DEF NotReady, At, Numbered, SendIds, StackOK, flags, lists
  <2>2. QED
    BY <2>1, GotoOwners, OwnedNow DEF Places, InSend, StackOK, ListsOwned
<1>8. ASSUME NEW t \in Threads, ReturnFromSend(t)
      PROVE  Owners'
  BY <1>8, ReturnOwners, OwnedNow DEF ReturnFromSend, At, ListsOwned, lists, flags, StackOK
<1>9. ASSUME NEW t \in Threads, NothingSent(t)
      PROVE  Owners'
  <2>1. /\ stack[t] # <<>> /\ Top(t).at \in {"check", "receive"}
        /\ Goto(t, Resume(Top(t).at)) /\ count'.sends = count.sends
        /\ sendlist_' = sendlist_
    BY <1>9 DEF NothingSent, Receives, At, flags, lists
  <2>2. t \in Loops \/ Top(t).at = "receive"
    BY <2>1, TopType DEF StackOK, InSend
  <2>3. /\ Resume(Top(t).at) \in Places \ Numbered
        /\ t \in Loops \/ Resume(Top(t).at) \in InSend
        /\ Resume(Top(t).at) \in InSend => Top(t).at \in InSend
        /\ Resume(Top(t).at) \notin {"answer", "wakesender"}
    BY <2>1, <2>2 DEF Resume, Places, Numbered, InSend
  <2>4. QED
    BY <2>1, <2>3, GotoOwners, OwnedNow DEF StackOK, ListsOwned
<1>10. ASSUME NEW t \in Threads, SomethingSent(t)
       PROVE  Owners'
  <2> DEFINE at == Resume(Top(t).at)
             f == Moved(Top(t), at)
             g == Frame("pop", 0, None)
  <2>1. /\ stack[t] # <<>> /\ Top(t).at \in {"check", "receive"} /\ t \in Loops
        /\ BecomeCall(t, f, g) /\ count'.sends = count.sends /\ sendlist_' = sendlist_
    BY <1>10 DEF SomethingSent, Receives, At, GotoCall, flags, lists
  <2>2. /\ at \in Places \ Numbered
        /\ at \in InSend => Top(t).at \in InSend
        /\ at \notin {"answer", "wakesender"}
    BY <2>1 DEF Resume, Places, Numbered, InSend
  <2>3. g \in FrameOf(t) /\ Owned(t, g)
    <3>1. "pop" \in Places \ Numbered /\ 0 \in 0 .. MaxSends /\ t \in Threads
      BY ThreadSendAssumption DEF Places, Numbered
    <3>2. g \in FrameOf(t) /\ g.at = "pop"
      BY <2>1, <3>1, NewFrameType
    <3> HIDE DEF g
    <3>3. QED
      BY <3>2 DEF Owned, IsSend, IsAnswer, InSend
  <2> HIDE DEF at
  <2>4. f \in FrameOf(t) /\ f.at = at /\ f.id = Top(t).id
    BY <2>1, <2>2, TopType, MovedType, MovedFrame DEF StackOK
  <2> HIDE DEF f, g
  <2>5. Owned(t, f)
    BY <2>1, <2>2, <2>4, TopOwned DEF Owned, IsSend, IsAnswer, StackOK
  <2>6. QED
    BY <2>1, <2>3, <2>4, <2>5, BecomeCallOwners, OwnedNow DEF StackOK, ListsOwned
<1>11. ASSUME NEW t \in Threads, PopSend(t)
       PROVE  Owners'
  <2> DEFINE smsg == Head(sendlist_[t])
             f == Frame("answer", smsg.id, smsg.from)
             g == Frame("run", smsg.id, None)
  <2>1. /\ stack[t] # <<>> /\ Top(t).at = "pop" /\ t \in Loops /\ sendlist_[t] # <<>>
        /\ BecomeCall(t, f, g) /\ count'.sends = count.sends
    BY <1>11, TopType DEF PopSend, At, StackOK, InSend, flags
  <2>2. \A q \in Loops : sendlist_'[q] = IF q = t THEN Tail(sendlist_[t]) ELSE sendlist_[q]
    BY <1>11 DEF PopSend, ListTypeOK
  <2>3. /\ smsg \in Sends /\ smsg \in Range(sendlist_[t])
        /\ Range(Tail(sendlist_[t])) \subseteq Range(sendlist_[t])
    BY <2>1, RangeOfTail DEF ListTypeOK
  <2>4. Owns(smsg.from, smsg.id)
    BY <2>1, <2>3, OwnedNow
  <2> HIDE DEF smsg
  <2>5. /\ f \in FrameOf(t) /\ f.at = "answer" /\ f.id = smsg.id /\ f.peer = smsg.from
        /\ g \in FrameOf(t) /\ g.at = "run"
    <3>1. smsg.id \in 0 .. MaxSends /\ smsg.id # 0 /\ smsg.from \in Threads
      BY <2>3, ThreadSendAssumption DEF Sends, SendIds
    <3>2. "answer" \in Places /\ "run" \in Places
      BY DEF Places
    <3>3. QED
      BY <2>1, <3>1, <3>2, NewFrameType DEF Frame
  <2> HIDE DEF f, g
  <2>6. Owned(t, f) /\ Owned(t, g)
    BY <2>4, <2>5 DEF Owned, IsSend, IsAnswer, InSend
  <2>7. ListsOwned
    BY <2>2, <2>3, OwnedNow DEF ListsOwned
  <2>8. QED
    BY <2>1, <2>5, <2>6, <2>7, BecomeCallOwners DEF StackOK
<1>12. ASSUME NEW t \in Threads, Answer(t)
       PROVE  Owners'
  <2>1. /\ stack[t] # <<>> /\ Top(t).at = "answer" /\ t \in Loops /\ Top(t).id # 0
        /\ Goto(t, "wakesender") /\ count'.sends = count.sends /\ sendlist_' = sendlist_
    BY <1>12, TopType DEF Answer, At, Numbered, SendIds, StackOK, InSend, lists
  <2>2. QED
    BY <2>1, GotoOwners, OwnedNow DEF Places, InSend, StackOK, ListsOwned
<1>13. ASSUME NEW t \in Threads, WakeSender(t)
       PROVE  Owners'
  <2>1. /\ stack[t] # <<>> /\ Top(t).at = "wakesender" /\ t \in Loops
        /\ Goto(t, "pop") /\ count'.sends = count.sends /\ sendlist_' = sendlist_
    BY <1>13, TopType DEF WakeSender, At, StackOK, InSend, lists, flags
  <2>2. QED
    BY <2>1, GotoOwners, OwnedNow DEF Places, Numbered, InSend, StackOK, ListsOwned
<1>14. ASSUME NEW t \in Threads, NoMoreSends(t)
       PROVE  Owners'
  BY <1>14, ReturnOwners, OwnedNow DEF NoMoreSends, At, ListsOwned, flags, StackOK
<1>15. ASSUME NEW t \in Threads, EnterWait(t)
       PROVE  Owners'
  <2>1. /\ stack[t] # <<>> /\ Top(t).at = "enterwait"
        /\ Goto(t, "wait") /\ count'.sends = count.sends /\ sendlist_' = sendlist_
    BY <1>15 DEF EnterWait, At, lists, flags
  <2>2. QED
    BY <2>1, GotoOwners, OwnedNow DEF Places, Numbered, InSend, StackOK, ListsOwned
<1>16. ASSUME NEW t \in Threads, Woken(t)
       PROVE  Owners'
  BY <1>16 DEF Woken, Owners, Owns, lists, flags
<1>17. ASSUME NEW t \in Threads, LeaveWait(t)
       PROVE  Owners'
  <2>1. /\ stack[t] # <<>> /\ Top(t).at = "wait" /\ count'.sends = count.sends
        /\ sendlist_' = sendlist_
    BY <1>17 DEF LeaveWait, At, lists, flags
  <2>2. CASE Top(t).id = 0
    <3>1. t \in Loops /\ Goto(t, "check")
      BY <1>17, <2>1, <2>2, TopType DEF LeaveWait, Goto, StackOK
    <3>2. QED
      BY <2>1, <3>1, GotoOwners, OwnedNow DEF Places, Numbered, InSend, StackOK, ListsOwned
  <2>3. CASE Top(t).id # 0
    <3> DEFINE f == [at |-> "test", id |-> Top(t).id, peer |-> Top(t).peer,
                     waited |-> TRUE]
    <3>1. Become(t, f)
      BY <1>17, <2>3 DEF LeaveWait
    <3>2. Top(t).id \in 0 .. MaxSends /\ Top(t).peer \in Threads \union {None}
      BY <2>1, TopType DEF StackOK
    <3>3. f \in FrameOf(t) /\ f.at = "test" /\ f.id = Top(t).id
      BY <2>3, <3>2 DEF FrameOf, AnyFrame, Places, Numbered, InSend
    <3> HIDE DEF f
    <3>4. Owned(t, f)
      BY <2>1, <2>3, <3>3, TopOwned DEF Owned, IsSend, IsAnswer, InSend, StackOK
    <3>5. QED
      BY <2>1, <3>1, <3>3, <3>4, BecomeOwners, OwnedNow DEF StackOK, ListsOwned
  <2>4. QED
    BY <2>2, <2>3
<1>18. ASSUME NEW t \in Threads, TakePosted(t)
       PROVE  Owners'
  <2> DEFINE f == Moved(Top(t), "check")
             g == Frame("run", 0, None)
  <2>1. /\ stack[t] # <<>> /\ Top(t).at = "scan" /\ t \in Loops /\ BecomeCall(t, f, g)
        /\ count'.sends = count.sends /\ sendlist_' = sendlist_
    BY <1>18, TopType DEF TakePosted, At, GotoCall, StackOK, InSend, flags
  <2>2. /\ f \in FrameOf(t) /\ f.at = "check" /\ g \in FrameOf(t) /\ g.at = "run"
    <3>1. {"check", "run"} \subseteq Places \ Numbered /\ 0 \in 0 .. MaxSends
      BY ThreadSendAssumption DEF Places, Numbered
    <3>2. QED
      BY <2>1, <3>1, TopType, MovedType, NewFrameType DEF StackOK
  <2> HIDE DEF f, g
  <2>3. Owned(t, f) /\ Owned(t, g)
    BY <2>2 DEF Owned, IsSend, IsAnswer, InSend
  <2>4. QED
    BY <2>1, <2>2, <2>3, BecomeCallOwners, OwnedNow DEF StackOK, ListsOwned
<1>19. ASSUME NEW t \in Threads, NothingPosted(t)
       PROVE  Owners'
  <2>1. /\ stack[t] # <<>> /\ Top(t).at = "scan" /\ t \in Loops
        /\ Goto(t, "stoptest") /\ count'.sends = count.sends /\ sendlist_' = sendlist_
    BY <1>19, TopType DEF NothingPosted, At, StackOK, InSend, lists, flags
  <2>2. QED
    BY <2>1, GotoOwners, OwnedNow DEF Places, Numbered, InSend, StackOK, ListsOwned
<1>20. ASSUME NEW t \in Threads, StopTest(t)
       PROVE  Owners'
  <2>1. /\ stack[t] # <<>> /\ Top(t).at = "stoptest" /\ t \in Loops
        /\ count'.sends = count.sends /\ sendlist_' = sendlist_
    BY <1>20, TopType DEF StopTest, At, StackOK, InSend, lists, flags
  <2>2. PICK at \in {"exit", "enterwait"} : Goto(t, at)
    BY <1>20 DEF StopTest
  <2>3. Top(t).id = 0
    BY <2>1, TopWakeful DEF FrameOK, StackOK
  <2>4. at \in Places \ Numbered /\ at \notin {"answer", "wakesender"}
    BY <2>2 DEF Places, Numbered
  <2>5. QED
    BY <2>1, <2>2, <2>3, <2>4, GotoOwners, OwnedNow DEF StackOK, ListsOwned
<1>21. ASSUME NEW r \in Loops, SocketEvent(r)
       PROVE  Owners'
  <2> DEFINE f == Frame("run", 0, None)
  <2>1. /\ r \in Threads /\ stack'[r] = Append(stack[r], f)
        /\ \A u \in Threads \ {r} : stack'[u] = stack[u]
        /\ count'.sends = count.sends /\ sendlist_' = sendlist_
    BY <1>21 DEF SocketEvent, Call, Threads, StackOK, StackTypeOK, CountTypeOK, lists
  <2>2. f \in FrameOf(r) /\ f.at = "run"
    <3>1. "run" \in Places \ Numbered /\ 0 \in 0 .. MaxSends
      BY ThreadSendAssumption DEF Places, Numbered
    <3>2. QED
      BY <2>1, <3>1, NewFrameType
  <2> HIDE DEF f
  <2>3. Owned(r, f)
    BY <2>2 DEF Owned, IsSend, IsAnswer, InSend
  <2>4. Range(stack'[r]) \subseteq Range(stack[r]) \union {f}
    BY <2>1, <2>2, RangeOfAppend DEF StackOK, StackTypeOK
  <2>5. \A e \in Range(stack'[r]) : Owned(r, e)
    BY <2>1, <2>3, <2>4, OwnedNow
  <2>6. QED
    BY <2>1, <2>5, SameOwners, OwnedNow DEF ListsOwned
<1>22. ASSUME NEW r \in Loops, Quit(r)
       PROVE  Owners'
  BY <1>22 DEF Quit, Owners, Owns, CountTypeOK, lists
<1>23. ASSUME NEW r \in Loops, Destroy(r)
       PROVE  Owners'
  <2>1. /\ stack[r] # <<>> /\ Top(r).at = "exit" /\ r \in Threads
        /\ Goto(r, "gone") /\ count'.sends = count.sends /\ ClearAll(r)
    BY <1>23 DEF Destroy, At, Threads
  <2>2. ListsOwned
    BY <2>1, ClearOwns
  <2>3. QED
    BY <2>1, <2>2, GotoOwners DEF Places, Numbered, InSend, StackOK
<1>24. CASE UNCHANGED vars
  BY <1>24 DEF vars, Owners, Owns
<1>25. QED
  BY <1>1, <1>2, <1>3, <1>4, <1>5, <1>6, <1>7, <1>8, <1>9, <1>10,
     <1>11, <1>12, <1>13, <1>14, <1>15, <1>16, <1>17, <1>18, <1>19, <1>20,
     <1>21, <1>22, <1>23, <1>24
     DEF Next, Internal

LEMMA InitWakeful == Init => AllWakeful /\ Owners
<1> SUFFICES ASSUME Init PROVE AllWakeful /\ Owners
  OBVIOUS
<1> DEFINE f == Frame("check", 0, None)
<1>1. ASSUME NEW t \in Threads
      PROVE  stack[t] = <<f>> \/ stack[t] = <<>>
  BY DEF Init
<1>2. f.at = "check" /\ f.id = 0 /\ ~f.waited
  BY DEF Frame
<1> HIDE DEF f
<1>3. Len(<<f>>) = 1 /\ Len(<<>>) = 0 /\ <<f>>[1] = f
      /\ Range(<<f>>) = {f} /\ Range(<<>>) = {}
  BY EmptySeq DEF Range
<1>4. ASSUME NEW t \in Threads, NEW st, st = <<f>> \/ st = <<>>, NEW rd, NEW known
      PROVE  Wakeful(t, st, rd, known)
  <2>1. \A k \in 1 .. Len(st) : k = 1 /\ st[k] = f
    <3>1. CASE st = <<f>>
      BY <1>3, <3>1
    <3>2. CASE st = <<>>
      BY <1>3, <3>2
    <3>3. QED
      BY <1>4, <3>1, <3>2
  <2>2. Len(st) <= 1
    <3>1. Len(st) = 1 \/ Len(st) = 0
      BY <1>3, <1>4
    <3>2. 0 <= 1 /\ 1 <= 1
      OBVIOUS
    <3>3. QED
      BY <3>1, <3>2, Zenon
  <2>3. Shape(t, st)
    BY <1>2, <2>1, <2>2 DEF Shape, FrameOK, IsAnswer
  <2>4. Awake(st, rd, known)
    BY <1>2, <2>1 DEF Awake, AnswerSeen, SendSeen, PostSeen, Deaf
  <2>5. QED
    BY <2>3, <2>4 DEF Wakeful
<1>5. \A r \in Loops : Range(sendlist_[r]) = {}
  BY <1>3 DEF Init
<1>6. ASSUME NEW t \in Threads, NEW e \in Range(stack[t])
      PROVE  ~IsSend(e) /\ ~IsAnswer(e)
  BY <1>1, <1>2, <1>3, <1>6 DEF IsSend, IsAnswer, InSend
<1>7. \A t \in Threads, i \in SendIds : ~Owns(t, i)
  BY <1>5, <1>6 DEF Owns
<1>8. QED
  BY <1>1, <1>4, <1>7 DEF AllWakeful, Owners

LEMMA WakefulSleep ==
  ASSUME StackOK, AllWakeful
  PROVE  NoLostWakeup
<1> SUFFICES ASSUME NEW t \in Threads, Asleep(t)
             PROVE  /\ Top(t).id # 0 /\ ready[Top(t).id]
                         => \E r \in Loops : At(r, "wakesender") /\ Top(r).peer = t
                    /\ t \in Loops /\ sendlist_[t] # <<>>
                         => \E s \in Threads : At(s, "wakepeer") /\ Top(s).peer = t
                    /\ t \in Loops /\ Top(t).id = 0 => msgq_[t] = 0
  BY DEF NoLostWakeup
<1>1. stack[t] # <<>> /\ Top(t).at = "wait" /\ fWait_[t] /\ ~signaled_[t]
  BY DEF Asleep, At
<1>2. /\ AnswerSeen(Top(t), Ready, Known(t)) /\ PostSeen(Top(t), Known(t))
      /\ "sends" \in Known(t)
  BY <1>1, TopWakeful DEF StackOK, Deaf
<1>3. Top(t).id # 0 /\ ready[Top(t).id] => AnswerKnown(t)
  <2>1. Top(t).id # 0 => Top(t).id \in SendIds
    BY <1>1, TopType, ThreadSendAssumption DEF StackOK, SendIds
  <2>2. QED
    BY <1>1, <1>2, <2>1, KnownOf DEF AnswerSeen, Ready
<1>4. SendKnown(t) /\ (Top(t).id = 0 => PostKnown(t))
  BY <1>1, <1>2, KnownOf DEF PostSeen
<1>5. \A r \in Threads : At(r, "wakesender") => r \in Loops
  BY TopType DEF StackOK, At, InSend
<1>6. QED
  BY <1>1, <1>3, <1>4, <1>5 DEF AnswerKnown, SendKnown, PostKnown

(* No thread sleeps over something to do, however its Waits nest and share *)
(* one pipe: a Send that consumed a wake-up gives it back when it returns. *)
THEOREM NoWakeupIsLost == Spec => []NoLostWakeup
<1>1. IInv /\ AllWakeful /\ Owners /\ [Next]_vars => (AllWakeful /\ Owners)'
  BY WakefulStep, OwnersStep DEF IInv
<1>2. IInv /\ AllWakeful /\ Owners => NoLostWakeup
  BY WakefulSleep DEF IInv
<1>3. QED
  BY <1>1, <1>2, InitWakeful, InvariantHolds, PTL DEF Spec
=============================================================================
