-------------------------- MODULE KvdbClientProofs --------------------------
(***************************************************************************)
(* Proofs about KvdbClient.                                                *)
(*                                                                         *)
(* Whatever signals are left over from calls that were given up, a call    *)
(* reports success only when its own request was executed with success:    *)
(* that needs what a request's res says, and no more.                      *)
(*                                                                         *)
(* That no straggler is executed later and no answer is missed needs the   *)
(* lock: requests of one client are numbered and queued by one caller at a *)
(* time, so that they go through the queue in order.                       *)
(***************************************************************************)
EXTENDS KvdbClient, SequenceLemmas, FiniteSetTheorems, TLAPS

(* The shapes of the two variables whose fields the argument reads. *)
Shapes ==
  /\ data \in [Requests -> [client: Clients \union {None},
                            res: {"timeout", "failed", "done"}]]
  /\ server \in [at: {"idle", "execute", "report", "trigger"}, id: Nat]
  /\ queue \in Seq(Nat)
  /\ mine \in [Callers -> Nat]
  /\ calls \in Nat

(* A request's res is "done", and the server is about to make it so, only  *)
(* after the KvdbService said yes: the one place a caller can read success *)
(* from.                                                                   *)
ResIsTrue ==
  /\ \A i \in Requests : data[i].res = "done" => i \in done
  /\ server.at = "report" => server.id \in done

IInv == Shapes /\ ResIsTrue /\ SuccessMeansExecuted

LEMMA InitIInv == Init => IInv
<1> SUFFICES ASSUME Init PROVE IInv
  OBVIOUS
<1>1. Shapes
  <2>1. queue \in Seq(Nat)
    BY DEF Init
  <2> QED
    BY <2>1, KvdbClientAssumption DEF Init, Shapes, Idle
<1>2. ResIsTrue
  BY DEF Init, ResIsTrue, Idle
<1> QED
  BY <1>1, <1>2 DEF Init, IInv, SuccessMeansExecuted

LEMMA CallerStepKeepsIInv ==
  ASSUME IInv, NEW t \in Callers, Call(t) \/ Enter(t) \/ CallStep(t)
  PROVE  IInv'
<1> USE DEF IInv, Shapes, ResIsTrue, SuccessMeansExecuted, serverVars
<1>1. CASE Call(t)
  BY <1>1 DEF Call
<1>2. CASE Enter(t)
  BY <1>2 DEF Enter
<1>3. CASE Post(t)
  <2>1. ClientOf[t] \in Clients
    BY KvdbClientAssumption
  <2>2. queue' \in Seq(Nat) /\ mine[t] \in Nat
    BY <1>3 DEF Post
  <2>3. UNCHANGED <<server, executed, done, answered, mine, calls, succeeded>>
    BY <1>3 DEF Post
  <2>4. data' = [data EXCEPT ![mine[t]] = [client |-> ClientOf[t], res |-> "timeout"]]
    BY <1>3 DEF Post
  <2>5. data' \in [Requests -> [client: Clients \union {None},
                                res: {"timeout", "failed", "done"}]]
    BY <2>1, <2>4
  <2>6. \A i \in Requests : data'[i].res = "done" => data[i].res = "done"
    BY <2>4
  <2> QED
    BY <2>2, <2>3, <2>5, <2>6
<1>4. CASE Signalled(t)
  BY <1>4 DEF Signalled
<1>5. CASE TimeOut(t)
  BY <1>5 DEF TimeOut
<1>6. CASE ReturnTimeout(t)
  BY <1>6 DEF ReturnTimeout, Leave
<1>7. CASE ReturnInterrupted(t)
  BY <1>7 DEF ReturnInterrupted, Leave
<1>8. CASE Return(t)
  BY <1>8 DEF Return, Leave
<1> QED
  BY <1>1, <1>2, <1>3, <1>4, <1>5, <1>6, <1>7, <1>8 DEF CallStep

LEMMA ServerStepKeepsIInv ==
  ASSUME IInv, ServerStep
  PROVE  IInv'
<1> USE DEF IInv, Shapes, ResIsTrue, SuccessMeansExecuted, callerVars
<1>1. CASE Take
  <2>1. Head(queue) \in Nat /\ Tail(queue) \in Seq(Nat)
    BY <1>1 DEF Take
  <2>2. data' = [data EXCEPT ![Head(queue)].res = "failed"]
    BY <1>1 DEF Take
  <2>3. data' \in [Requests -> [client: Clients \union {None},
                                res: {"timeout", "failed", "done"}]]
    BY <2>2
  <2>4. \A i \in Requests : data'[i].res = "done" => data[i].res = "done"
    BY <2>2
  <2> QED
    BY <1>1, <2>1, <2>3, <2>4 DEF Take
<1>2. CASE Execute
  BY <1>2 DEF Execute
<1>3. CASE Report
  <2>1. data' = [data EXCEPT ![server.id].res = "done"]
    BY <1>3 DEF Report
  <2>2. \A i \in Requests : data'[i].res = "done" => data[i].res = "done" \/ i = server.id
    BY <2>1
  <2>3. data' \in [Requests -> [client: Clients \union {None},
                                res: {"timeout", "failed", "done"}]]
    <3>1. data \in [Requests -> [client: Clients \union {None},
                                 res: {"timeout", "failed", "done"}]]
      BY DEF TypeOK
    <3> HIDE DEF IInv, Shapes, ResIsTrue, SuccessMeansExecuted, callerVars
    <3>2. QED
      BY <2>1, <3>1
  <2> QED
    BY <1>3, <2>2, <2>3 DEF Report
<1>4. CASE Trigger
  BY <1>4 DEF Trigger, Idle
<1> QED
  BY <1>1, <1>2, <1>3, <1>4, ServerStep DEF ServerStep

LEMMA NextIInv == IInv /\ [Next]_vars => IInv'
<1> SUFFICES ASSUME IInv, [Next]_vars PROVE IInv'
  OBVIOUS
<1>1. CASE Next
  BY <1>1, CallerStepKeepsIInv, ServerStepKeepsIInv DEF Next
<1>2. CASE UNCHANGED vars
  BY <1>2 DEF vars, IInv, Shapes, ResIsTrue, SuccessMeansExecuted
<1> QED
  BY <1>1, <1>2

(* A call that returns KVDB_SUCCEED had its own request executed with      *)
(* success, for any number of clients, threads and calls: WaitSignal may   *)
(* answer for another request, but the call then looks at its own res.     *)
THEOREM SuccessIsTrue == Spec => []SuccessMeansExecuted
<1>1. Init => IInv
  BY InitIInv
<1>2. IInv /\ [Next]_vars => IInv'
  <2> SUFFICES ASSUME IInv, [Next]_vars PROVE IInv'
    OBVIOUS
  <2>1. CASE Next
    BY <2>1, CallerStepKeepsIInv, ServerStepKeepsIInv DEF Next
  <2>2. CASE UNCHANGED vars
    BY <2>2 DEF vars, IInv, Shapes, ResIsTrue, SuccessMeansExecuted
  <2> QED
    BY <2>1, <2>2
<1>3. IInv => SuccessMeansExecuted
  BY DEF IInv
<1> QED
  BY <1>1, <1>2, <1>3, PTL DEF Spec

-----------------------------------------------------------------------------
(* The lock and the numbers it gives out. *)
Inside(t) == pc[t] \notin {"idle", "enter"}
Entering == {t \in Callers : pc[t] = "enter"}

LockOK ==
  /\ pc \in [Callers -> {"idle", "enter", "post", "wait", "timedout", "check"}]
  /\ crit_ \in [Clients -> Callers \union {None}]
  /\ \A t \in Callers : Inside(t) <=> crit_[ClientOf[t]] = t

(* every call that has begun and is not numbered stands before the lock *)
CountOK ==
  /\ begun \in 0 .. MaxCalls /\ calls \in Nat
  /\ IsFiniteSet(Entering) /\ calls + Cardinality(Entering) = begun

MineOK ==
  /\ mine \in [Callers -> 0 .. calls]
  /\ \A t \in Callers : Inside(t) => mine[t] # 0
  /\ \A t, u \in Callers : Inside(t) /\ Inside(u) /\ t # u => mine[t] # mine[u]

(* what is in the queue, with the server, or through *)
Waiting == Range(queue) \union (IF server.at = "execute" THEN {server.id} ELSE {})

PostedOK ==
  /\ queue \in Seq(Nat) /\ executed \in Seq(Nat)
  /\ Posted \subseteq 1 .. calls
  /\ server.at = "idle" => server = Idle
  /\ server.at \in {"report", "trigger"} => server.id \in Range(executed)
  /\ done \subseteq Range(executed) /\ answered \subseteq Range(executed)
  /\ \A t \in Callers : pc[t] = "post" => mine[t] \notin Posted
  /\ \A t \in Callers : pc[t] \in {"wait", "timedout", "check"} =>
       data[mine[t]].client = ClientOf[t]

SameClient(i, j) == data[i].client = data[j].client

(* the requests of one client go through in the order of their numbers *)
OrderOK ==
  /\ \A p, q \in 1 .. Len(queue) :
       p < q /\ SameClient(queue[p], queue[q]) => queue[p] < queue[q]
  /\ server.at = "execute" =>
       \A i \in Range(queue) : SameClient(server.id, i) => server.id < i
  /\ \A i \in Range(executed), j \in Waiting : SameClient(i, j) => i < j

(* and none of them is above the one whose caller holds the lock *)
NewestInside ==
  \A t \in Callers : Inside(t) =>
    \A i \in Posted : data[i].client = ClientOf[t] => i <= mine[t]

OInv ==
  /\ LockOK /\ CountOK /\ MineOK /\ PostedOK /\ OrderOK /\ NewestInside
  /\ signaled_ \in [Clients -> BOOLEAN]
  /\ AnswerWakesCaller

LEMMA OneInside ==
  ASSUME LockOK, NEW t \in Callers, NEW u \in Callers,
         Inside(t), Inside(u), ClientOf[t] = ClientOf[u]
  PROVE  t = u
BY DEF LockOK

LEMMA CallsBound == CountOK => 0 .. calls \subseteq 0 .. MaxCalls /\ 1 .. calls \subseteq Requests
<1> SUFFICES ASSUME CountOK
             PROVE  0 .. calls \subseteq 0 .. MaxCalls /\ 1 .. calls \subseteq Requests
  OBVIOUS
<1>1. Cardinality(Entering) \in Nat
  BY FS_CardinalityType DEF CountOK
<1>2. calls \in Nat /\ calls <= MaxCalls /\ MaxCalls \in Nat
  BY <1>1, KvdbClientAssumption DEF CountOK
<1>3. QED
  BY <1>2 DEF Requests

-----------------------------------------------------------------------------
(* Steps of callers that leave requests alone. *)
LEMMA SamePosted ==
  ASSUME UNCHANGED <<queue, server, executed>>
  PROVE  Posted' = Posted /\ Waiting' = Waiting
BY DEF Posted, Waiting

LEMMA SameOrder ==
  ASSUME OrderOK, UNCHANGED <<queue, server, executed, data>>
  PROVE  OrderOK'
BY SamePosted DEF OrderOK, SameClient

LEMMA SameRequests ==
  ASSUME PostedOK, UNCHANGED <<queue, serverVars, data, calls>>,
         \A t \in Callers : mine'[t] = mine[t] \/ pc'[t] = "idle",
         \A t \in Callers : pc'[t] = "post" => pc[t] = "post",
         \A t \in Callers : pc'[t] \in {"wait", "timedout", "check"} =>
                              pc[t] \in {"wait", "timedout", "check"}
  PROVE  PostedOK'
<1>1. Posted' = Posted
  BY SamePosted DEF serverVars
<1>2. \A t \in Callers : pc'[t] = "post" => mine'[t] \notin Posted'
  BY <1>1 DEF PostedOK
<1>3. \A t \in Callers : pc'[t] \in {"wait", "timedout", "check"} =>
        data'[mine'[t]].client = ClientOf[t]
  BY DEF PostedOK
<1>4. QED
  BY <1>1, <1>2, <1>3 DEF PostedOK, serverVars

LEMMA CallKeepsOrder ==
  ASSUME OInv, NEW t \in Callers, Call(t)
  PROVE  OInv'
<1>1. /\ pc[t] = "idle" /\ begun < MaxCalls /\ begun' = begun + 1
      /\ pc' = [pc EXCEPT ![t] = "enter"]
      /\ UNCHANGED <<crit_, signaled_, mine, calls, queue, data, serverVars, succeeded>>
  BY DEF Call, Goto
<1>2. /\ pc' \in [Callers -> {"idle", "enter", "post", "wait", "timedout", "check"}]
      /\ pc'[t] = "enter" /\ \A u \in Callers : u # t => pc'[u] = pc[u]
  BY <1>1 DEF OInv, LockOK
<1>3. \A u \in Callers : Inside(u)' <=> Inside(u)
  BY <1>1, <1>2 DEF Inside
<1>4. LockOK'
  BY <1>1, <1>2, <1>3 DEF OInv, LockOK
<1>5. CountOK'
  <2>1. Entering' = Entering \union {t} /\ t \notin Entering
    BY <1>1, <1>2 DEF Entering
  <2>2. /\ IsFiniteSet(Entering \union {t})
        /\ Cardinality(Entering \union {t}) = Cardinality(Entering) + 1
        /\ Cardinality(Entering) \in Nat
    BY <2>1, FS_AddElement, FS_CardinalityType DEF OInv, CountOK
  <2>3. begun \in Nat /\ MaxCalls \in Nat /\ calls \in Nat
        /\ calls + Cardinality(Entering) = begun
    BY KvdbClientAssumption DEF OInv, CountOK
  <2>4. begun + 1 \in 0 .. MaxCalls
    BY <1>1, <2>3
  <2>5. calls + (Cardinality(Entering) + 1) = begun + 1
    BY <2>2, <2>3
  <2>6. QED
    BY <1>1, <2>1, <2>2, <2>3, <2>4, <2>5 DEF CountOK
<1>6. MineOK'
  BY <1>1, <1>3 DEF OInv, MineOK
<1>7. PostedOK'
  BY <1>1, <1>2, SameRequests DEF OInv
<1>8. OrderOK'
  BY <1>1, SameOrder DEF OInv, serverVars
<1>9. NewestInside'
  BY <1>1, <1>3, SamePosted DEF OInv, NewestInside, serverVars
<1>10. AnswerWakesCaller'
  BY <1>1, <1>2 DEF OInv, AnswerWakesCaller, serverVars
<1>11. QED
  BY <1>1, <1>4, <1>5, <1>6, <1>7, <1>8, <1>9, <1>10 DEF OInv

(* the number is above all that are in use *)
LEMMA EnterKeepsOrder ==
  ASSUME OInv, NEW t \in Callers, Enter(t)
  PROVE  OInv'
<1>1. /\ pc[t] = "enter" /\ crit_[ClientOf[t]] = None
      /\ crit_' = [crit_ EXCEPT ![ClientOf[t]] = t]
      /\ calls' = calls + 1
      /\ mine' = [mine EXCEPT ![t] = calls + 1]
      /\ pc' = [pc EXCEPT ![t] = "post"]
      /\ UNCHANGED <<signaled_, begun, queue, data, serverVars, succeeded>>
  BY DEF Enter, Goto
<1>2. /\ pc' \in [Callers -> {"idle", "enter", "post", "wait", "timedout", "check"}]
      /\ pc'[t] = "post" /\ \A u \in Callers : u # t => pc'[u] = pc[u]
  BY <1>1 DEF OInv, LockOK
<1>3. /\ \A u \in Callers : u # t => (Inside(u)' <=> Inside(u))
      /\ Inside(t)' /\ ~Inside(t)
  BY <1>1, <1>2 DEF Inside
<1>4. calls \in Nat
  BY DEF OInv, CountOK
<1>5. LockOK'
  <2>1. \A u \in Callers : ClientOf[u] \in Clients /\ None # u
    BY KvdbClientAssumption
  <2>2. crit_' \in [Clients -> Callers \union {None}]
    BY <1>1, <2>1 DEF OInv, LockOK
  <2>3. ASSUME NEW u \in Callers PROVE Inside(u)' <=> crit_'[ClientOf[u]] = u
    <3>1. CASE u = t
      BY <1>1, <1>3, <2>1, <3>1 DEF OInv, LockOK
    <3>2. CASE u # t /\ ClientOf[u] = ClientOf[t]
      <4>1. crit_'[ClientOf[u]] = t /\ ~Inside(u)
        BY <1>1, <2>1, <3>2 DEF OInv, LockOK
      <4>2. QED
        BY <1>3, <3>2, <4>1
    <3>3. CASE u # t /\ ClientOf[u] # ClientOf[t]
      <4>1. crit_'[ClientOf[u]] = crit_[ClientOf[u]]
        BY <1>1, <2>1, <3>3 DEF OInv, LockOK
      <4>2. QED
        BY <1>3, <3>3, <4>1 DEF OInv, LockOK
    <3>4. QED
      BY <3>1, <3>2, <3>3
  <2>4. QED
    BY <1>2, <2>2, <2>3 DEF LockOK
<1>6. CountOK'
  <2>1. Entering' = Entering \ {t} /\ t \in Entering
    BY <1>1, <1>2 DEF Entering
  <2>2. /\ IsFiniteSet(Entering \ {t})
        /\ Cardinality(Entering \ {t}) = Cardinality(Entering) - 1
        /\ Cardinality(Entering) \in Nat
    BY <2>1, FS_RemoveElement, FS_CardinalityType DEF OInv, CountOK
  <2>3. (calls + 1) + (Cardinality(Entering) - 1) = begun
    BY <1>4, <2>2 DEF OInv, CountOK
  <2>4. QED
    BY <1>1, <1>4, <2>1, <2>2, <2>3 DEF OInv, CountOK
<1>7. MineOK'
  <2>1. /\ mine \in [Callers -> 0 .. calls]
        /\ 0 .. calls \subseteq 0 .. calls + 1
        /\ calls + 1 \in 0 .. calls + 1 /\ calls + 1 # 0 /\ calls + 1 \notin 0 .. calls
    BY <1>4 DEF OInv, MineOK
  <2>2. /\ mine' \in [Callers -> 0 .. calls + 1]
        /\ mine'[t] = calls + 1
        /\ \A u \in Callers : u # t => mine'[u] = mine[u] /\ mine[u] \in 0 .. calls
    BY <1>1, <2>1
  <2>3. \A u \in Callers : Inside(u)' => mine'[u] # 0
    BY <1>3, <2>1, <2>2 DEF OInv, MineOK
  <2>4. \A u, v \in Callers : Inside(u)' /\ Inside(v)' /\ u # v => mine'[u] # mine'[v]
    BY <1>3, <2>1, <2>2 DEF OInv, MineOK
  <2>5. QED
    BY <1>1, <2>2, <2>3, <2>4 DEF MineOK
<1>8. Posted' = Posted /\ Posted \subseteq 1 .. calls
  BY <1>1, SamePosted DEF OInv, PostedOK, serverVars
<1>9. /\ mine'[t] = calls + 1
      /\ \A u \in Callers : u # t => mine'[u] = mine[u]
  BY <1>1 DEF OInv, MineOK
<1>10. PostedOK'
  <2>1. 1 .. calls \subseteq 1 .. calls' /\ calls + 1 \notin 1 .. calls
    BY <1>1, <1>4
  <2>2. \A u \in Callers : pc'[u] = "post" => mine'[u] \notin Posted'
    BY <1>2, <1>8, <1>9, <2>1 DEF OInv, PostedOK
  <2>3. \A u \in Callers : pc'[u] \in {"wait", "timedout", "check"} =>
          data'[mine'[u]].client = ClientOf[u]
    BY <1>1, <1>2, <1>9 DEF OInv, PostedOK
  <2>4. QED
    BY <1>1, <1>8, <2>1, <2>2, <2>3 DEF OInv, PostedOK, serverVars
<1>11. OrderOK'
  BY <1>1, SameOrder DEF OInv, serverVars
<1>12. NewestInside'
  <2>1. \A i \in Posted : i <= calls + 1
    BY <1>4, <1>8
  <2>2. QED
    BY <1>1, <1>3, <1>8, <1>9, <2>1 DEF OInv, NewestInside
<1>13. AnswerWakesCaller'
  BY <1>1, <1>2, <1>9 DEF OInv, AnswerWakesCaller, serverVars
<1>14. QED
  BY <1>1, <1>5, <1>6, <1>7, <1>10, <1>11, <1>12, <1>13 DEF OInv

(* a wait that goes on, or ends: nobody enters or leaves *)
LEMMA MovesInside ==
  ASSUME OInv, NEW t \in Callers, pc[t] = "wait",
         NEW at \in {"check", "timedout"}, pc' = [pc EXCEPT ![t] = at],
         UNCHANGED <<crit_, mine, begun, calls, queue, data, serverVars>>
  PROVE  /\ LockOK' /\ CountOK' /\ MineOK' /\ PostedOK' /\ OrderOK' /\ NewestInside'
         /\ \A u \in Callers : pc'[u] = "wait" => pc[u] = "wait" /\ u # t
<1>1. /\ pc' \in [Callers -> {"idle", "enter", "post", "wait", "timedout", "check"}]
      /\ pc'[t] = at /\ \A u \in Callers : u # t => pc'[u] = pc[u]
  BY DEF OInv, LockOK
<1>2. \A u \in Callers : Inside(u)' <=> Inside(u)
  BY <1>1 DEF Inside
<1>3. LockOK'
  BY <1>1, <1>2 DEF OInv, LockOK
<1>4. CountOK'
  <2>1. Entering' = Entering
    BY <1>1 DEF Entering
  <2>2. QED
    BY <2>1 DEF OInv, CountOK
<1>5. MineOK'
  BY <1>2 DEF OInv, MineOK
<1>6. PostedOK'
  BY <1>1, SameRequests DEF OInv
<1>7. OrderOK'
  BY SameOrder DEF OInv, serverVars
<1>8. NewestInside'
  BY <1>2, SamePosted DEF OInv, NewestInside, serverVars
<1>9. \A u \in Callers : pc'[u] = "wait" => pc[u] = "wait" /\ u # t
  BY <1>1
<1>10. QED
  BY <1>3, <1>4, <1>5, <1>6, <1>7, <1>8, <1>9

(* emptying the pipe of t's client: no other caller waits on it *)
LEMMA EmptiedPipe ==
  ASSUME OInv, NEW t \in Callers, Inside(t),
         signaled_' = [signaled_ EXCEPT ![ClientOf[t]] = FALSE],
         answered' = answered,
         \A u \in Callers : pc'[u] = "wait" => pc[u] = "wait" /\ u # t /\ mine'[u] = mine[u]
  PROVE  AnswerWakesCaller' /\ signaled_' \in [Clients -> BOOLEAN]
<1>1. ASSUME NEW u \in Callers, pc'[u] = "wait", mine'[u] \in answered'
      PROVE  signaled_'[ClientOf[u]]
  <2>1. pc[u] = "wait" /\ u # t /\ mine[u] \in answered
    BY <1>1
  <2>2. Inside(u) /\ ClientOf[u] # ClientOf[t]
    BY <2>1, OneInside DEF OInv, Inside
  <2>3. ClientOf[u] \in Clients
    BY KvdbClientAssumption
  <2>4. signaled_[ClientOf[u]]
    BY <2>1 DEF OInv, AnswerWakesCaller
  <2>5. QED
    BY <2>2, <2>3, <2>4 DEF OInv
<1>2. signaled_' \in [Clients -> BOOLEAN]
  BY DEF OInv
<1>3. QED
  BY <1>1, <1>2 DEF AnswerWakesCaller

LEMMA SignalledKeepsOrder ==
  ASSUME OInv, NEW t \in Callers, Signalled(t)
  PROVE  OInv'
<1>1. /\ pc[t] = "wait" /\ pc' = [pc EXCEPT ![t] = "check"]
      /\ signaled_' = [signaled_ EXCEPT ![ClientOf[t]] = FALSE]
      /\ UNCHANGED <<crit_, mine, begun, calls, queue, data, serverVars>>
  BY DEF Signalled, Goto
<1>2. /\ LockOK' /\ CountOK' /\ MineOK' /\ PostedOK' /\ OrderOK' /\ NewestInside'
      /\ \A u \in Callers : pc'[u] = "wait" => pc[u] = "wait" /\ u # t
  BY <1>1, MovesInside
<1>3. AnswerWakesCaller' /\ signaled_' \in [Clients -> BOOLEAN]
  BY <1>1, <1>2, EmptiedPipe DEF Inside, serverVars
<1>4. QED
  BY <1>2, <1>3 DEF OInv

LEMMA TimeOutKeepsOrder ==
  ASSUME OInv, NEW t \in Callers, TimeOut(t)
  PROVE  OInv'
<1>1. /\ pc[t] = "wait" /\ pc' = [pc EXCEPT ![t] = "timedout"]
      /\ UNCHANGED <<crit_, signaled_, mine, begun, calls, queue, data, serverVars>>
  BY DEF TimeOut, Goto
<1>2. /\ LockOK' /\ CountOK' /\ MineOK' /\ PostedOK' /\ OrderOK' /\ NewestInside'
      /\ \A u \in Callers : pc'[u] = "wait" => pc[u] = "wait" /\ u # t
  BY <1>1, MovesInside
<1>3. AnswerWakesCaller'
  BY <1>1, <1>2 DEF OInv, AnswerWakesCaller, serverVars
<1>4. QED
  BY <1>1, <1>2, <1>3 DEF OInv

(* the three ways out of a call *)
LEMMA Leaves ==
  ASSUME OInv, NEW t \in Callers, Inside(t), Leave(t),
         UNCHANGED <<begun, calls, queue, data, serverVars>>
  PROVE  /\ LockOK' /\ CountOK' /\ MineOK' /\ PostedOK' /\ OrderOK' /\ NewestInside'
         /\ \A u \in Callers :
              pc'[u] = "wait" => pc[u] = "wait" /\ u # t /\ mine'[u] = mine[u]
<1>1. /\ crit_' = [crit_ EXCEPT ![ClientOf[t]] = None]
      /\ mine' = [mine EXCEPT ![t] = 0]
      /\ pc' = [pc EXCEPT ![t] = "idle"]
  BY DEF Leave, Goto
<1>2. /\ pc' \in [Callers -> {"idle", "enter", "post", "wait", "timedout", "check"}]
      /\ pc'[t] = "idle" /\ \A u \in Callers : u # t => pc'[u] = pc[u]
  BY <1>1 DEF OInv, LockOK
<1>3. /\ \A u \in Callers : u # t => (Inside(u)' <=> Inside(u))
      /\ ~Inside(t)'
  BY <1>2 DEF Inside
<1>4. calls \in Nat
  BY DEF OInv, CountOK
<1>5. /\ mine' \in [Callers -> 0 .. calls]
      /\ mine'[t] = 0 /\ \A u \in Callers : u # t => mine'[u] = mine[u]
  BY <1>1, <1>4 DEF OInv, MineOK
<1>6. LockOK'
  <2>1. \A u \in Callers : ClientOf[u] \in Clients /\ None # u
    BY KvdbClientAssumption
  <2>2. crit_' \in [Clients -> Callers \union {None}]
    BY <1>1, <2>1 DEF OInv, LockOK
  <2>3. ASSUME NEW u \in Callers PROVE Inside(u)' <=> crit_'[ClientOf[u]] = u
    <3>1. CASE ClientOf[u] = ClientOf[t]
      <4>1. crit_'[ClientOf[u]] = None
        BY <1>1, <2>1, <3>1 DEF OInv, LockOK
      <4>2. ~Inside(u)'
        BY <1>3, <3>1, OneInside DEF OInv
      <4>3. QED
        BY <2>1, <4>1, <4>2
    <3>2. CASE ClientOf[u] # ClientOf[t]
      <4>1. crit_'[ClientOf[u]] = crit_[ClientOf[u]] /\ u # t
        BY <1>1, <2>1, <3>2 DEF OInv, LockOK
      <4>2. QED
        BY <1>3, <4>1 DEF OInv, LockOK
    <3>3. QED
      BY <3>1, <3>2
  <2>4. QED
    BY <1>2, <2>2, <2>3 DEF LockOK
<1>7. CountOK'
  <2>1. Entering' = Entering
    BY <1>2 DEF Entering, Inside
  <2>2. QED
    BY <2>1 DEF OInv, CountOK
<1>8. MineOK'
  BY <1>3, <1>5 DEF OInv, MineOK
<1>9. PostedOK'
  BY <1>2, <1>5, SameRequests DEF OInv
<1>10. OrderOK'
  BY SameOrder DEF OInv, serverVars
<1>11. NewestInside'
  BY <1>3, <1>5, SamePosted DEF OInv, NewestInside, serverVars
<1>12. \A u \in Callers :
         pc'[u] = "wait" => pc[u] = "wait" /\ u # t /\ mine'[u] = mine[u]
  BY <1>2, <1>5
<1>13. QED
  BY <1>6, <1>7, <1>8, <1>9, <1>10, <1>11, <1>12

LEMMA ReturnKeepsOrder ==
  ASSUME OInv, NEW t \in Callers, ReturnTimeout(t) \/ ReturnInterrupted(t) \/ Return(t)
  PROVE  OInv'
<1>1. /\ Inside(t) /\ Leave(t)
      /\ UNCHANGED <<begun, calls, queue, data, serverVars>>
      /\ \/ signaled_' = [signaled_ EXCEPT ![ClientOf[t]] = FALSE]
         \/ signaled_' = signaled_
  BY DEF ReturnTimeout, ReturnInterrupted, Return, Inside
<1>2. /\ LockOK' /\ CountOK' /\ MineOK' /\ PostedOK' /\ OrderOK' /\ NewestInside'
      /\ \A u \in Callers :
           pc'[u] = "wait" => pc[u] = "wait" /\ u # t /\ mine'[u] = mine[u]
  BY <1>1, Leaves
<1>3. CASE signaled_' = [signaled_ EXCEPT ![ClientOf[t]] = FALSE]
  BY <1>1, <1>2, <1>3, EmptiedPipe DEF OInv, serverVars
<1>4. CASE signaled_' = signaled_
  <2>1. AnswerWakesCaller'
    BY <1>1, <1>2, <1>4 DEF OInv, AnswerWakesCaller, serverVars
  <2>2. QED
    BY <1>2, <1>4, <2>1 DEF OInv
<1>5. QED
  BY <1>1, <1>3, <1>4

-----------------------------------------------------------------------------
(* Steps on requests. *)
LEMMA ClientsStay ==
  ASSUME Shapes, NEW i, NEW res, data' = [data EXCEPT ![i].res = res]
  PROVE  \A j \in Requests : data'[j].client = data[j].client
BY DEF Shapes

LEMMA PostedAreRequests ==
  ASSUME OInv
  PROVE  Posted \subseteq Requests /\ \A t \in Callers : Inside(t) => mine[t] \in Requests
<1>1. 1 .. calls \subseteq Requests
  BY CallsBound DEF OInv
<1>2. calls \in Nat
  BY DEF OInv, CountOK
<1>3. \A t \in Callers : Inside(t) => mine[t] \in 1 .. calls
  BY <1>2 DEF OInv, MineOK
<1>4. QED
  BY <1>1, <1>3 DEF OInv, PostedOK

(* the new request is the newest of its client, at the end of the queue *)
LEMMA PostKeepsOrder ==
  ASSUME OInv, Shapes, NEW t \in Callers, Post(t)
  PROVE  OInv'
<1> DEFINE m == mine[t]
           c == ClientOf[t]
<1>1. /\ pc[t] = "post" /\ pc' = [pc EXCEPT ![t] = "wait"]
      /\ data' = [data EXCEPT ![m] = [client |-> c, res |-> "timeout"]]
      /\ queue' = Append(queue, m)
      /\ UNCHANGED <<crit_, signaled_, mine, begun, calls, serverVars, succeeded>>
  BY DEF Post, Goto
<1>2. /\ pc' \in [Callers -> {"idle", "enter", "post", "wait", "timedout", "check"}]
      /\ pc'[t] = "wait" /\ \A u \in Callers : u # t => pc'[u] = pc[u]
  BY <1>1 DEF OInv, LockOK
<1>3. Inside(t) /\ \A u \in Callers : Inside(u)' <=> Inside(u)
  BY <1>1, <1>2 DEF Inside
<1>4. /\ m \in Requests /\ m \in 1 .. calls /\ m \in Nat /\ m \notin Posted
      /\ Posted \subseteq Requests
  <2>1. calls \in Nat
    BY DEF OInv, CountOK
  <2>2. m \in 0 .. calls /\ m # 0
    BY <1>3 DEF OInv, MineOK
  <2>3. QED
    BY <1>1, <1>3, <2>1, <2>2, PostedAreRequests DEF OInv, PostedOK
<1>5. /\ data'[m].client = c
      /\ \A i \in Requests : i # m => data'[i] = data[i]
  BY <1>1, <1>4 DEF Shapes
<1>6. /\ queue' \in Seq(Nat) /\ Range(queue') \subseteq Range(queue) \union {m}
      /\ queue \in Seq(Nat) /\ Len(queue) \in Nat /\ Len(queue') = Len(queue) + 1
      /\ \A p \in 1 .. Len(queue) : queue'[p] = queue[p]
      /\ queue'[Len(queue) + 1] = m
  <2>1. queue \in Seq(Nat) /\ m \in Nat /\ queue' = Append(queue, m)
    BY <1>1, <1>4 DEF OInv, PostedOK
  <2> HIDE DEF m
  <2>2. /\ Append(queue, m) \in Seq(Nat)
        /\ Range(Append(queue, m)) \subseteq Range(queue) \union {m}
    BY <2>1, RangeOfAppend
  <2>3. /\ Len(queue) \in Nat /\ Len(Append(queue, m)) = Len(queue) + 1
        /\ \A p \in 1 .. Len(queue) : Append(queue, m)[p] = queue[p]
        /\ Append(queue, m)[Len(queue) + 1] = m
    BY <2>1, AppendToSeq
  <2>4. QED
    BY <2>1, <2>2, <2>3
<1>7. /\ Posted' \subseteq Posted \union {m}
      /\ Waiting' \subseteq Waiting \union {m} /\ Waiting \subseteq Posted
      /\ \A p \in 1 .. Len(queue) : queue[p] \in Posted
      /\ Range(executed) \subseteq Posted
      /\ server.at = "execute" => server.id \in Posted
  <2>1. \A p \in 1 .. Len(queue) : queue[p] \in Range(queue)
    BY <1>6, LenProperties DEF Range
  <2>2. QED
    BY <1>1, <1>6, <2>1 DEF Posted, Waiting, serverVars
<1>8. \A i \in Posted : data[i].client = c => i < m /\ i <= m
  <2>1. \A i \in Posted : i \in Nat /\ i # m
    BY <1>4 DEF Requests
  <2>2. \A i \in Posted : data[i].client = c => i <= m
    BY <1>3 DEF OInv, NewestInside
  <2>3. QED
    BY <1>4, <2>1, <2>2
<1> HIDE DEF m
<1>9. LockOK'
  BY <1>1, <1>2, <1>3 DEF OInv, LockOK
<1>10. CountOK'
  <2>1. Entering' = Entering
    BY <1>1, <1>2 DEF Entering
  <2>2. QED
    BY <1>1, <2>1 DEF OInv, CountOK
<1>11. MineOK'
  BY <1>1, <1>3 DEF OInv, MineOK
<1>12. PostedOK'
  <2>1. Posted' \subseteq 1 .. calls'
    BY <1>1, <1>4, <1>7 DEF OInv, PostedOK
  <2>2. ASSUME NEW u \in Callers, pc'[u] = "post" PROVE mine'[u] \notin Posted'
    <3>1. u # t /\ pc[u] = "post" /\ Inside(u)
      BY <1>2, <2>2 DEF Inside
    <3>2. mine[u] # m /\ mine[u] \notin Posted
      BY <1>3, <2>2, <3>1 DEF OInv, MineOK, PostedOK, m
    <3>3. QED
      BY <1>1, <1>7, <3>2
  <2>3. ASSUME NEW u \in Callers, pc'[u] \in {"wait", "timedout", "check"}
        PROVE  data'[mine'[u]].client = ClientOf[u]
    <3>1. CASE u = t
      BY <1>1, <1>5, <3>1 DEF m
    <3>2. CASE u # t
      <4>1. pc[u] = pc'[u] /\ Inside(u)
        BY <1>2, <2>3, <3>2 DEF Inside
      <4>2. mine[u] # m /\ mine[u] \in Requests
        BY <1>3, <3>2, <4>1, PostedAreRequests DEF OInv, MineOK, m
      <4>3. QED
        BY <1>1, <1>5, <2>3, <4>1, <4>2 DEF OInv, PostedOK
    <3>3. QED
      BY <3>1, <3>2
  <2>4. QED
    BY <1>1, <1>6, <2>1, <2>2, <2>3 DEF OInv, PostedOK, serverVars
<1>13. OrderOK'
  <2>1. ASSUME NEW p \in 1 .. Len(queue'), NEW q \in 1 .. Len(queue'), p < q,
               data'[queue'[p]].client = data'[queue'[q]].client
        PROVE  queue'[p] < queue'[q]
    <3>1. p \in 1 .. Len(queue) /\ queue'[p] = queue[p] /\ queue[p] \in Posted
      BY <1>6, <1>7, <2>1
    <3>2. data'[queue[p]] = data[queue[p]]
      BY <1>4, <1>5, <3>1
    <3>3. CASE q = Len(queue) + 1
      <4>1. queue'[q] = m
        BY <1>6, <3>3
      <4>2. data[queue[p]].client = c
        BY <1>5, <2>1, <3>1, <3>2, <4>1
      <4>3. QED
        BY <1>8, <3>1, <4>1, <4>2
    <3>4. CASE q # Len(queue) + 1
      <4>1. q \in 1 .. Len(queue) /\ queue'[q] = queue[q] /\ queue[q] \in Posted
        BY <1>6, <1>7, <3>4
      <4>2. data'[queue[q]] = data[queue[q]]
        BY <1>4, <1>5, <4>1
      <4>3. QED
        BY <2>1, <3>1, <3>2, <4>1, <4>2 DEF OInv, OrderOK, SameClient
    <3>5. QED
      BY <3>3, <3>4
  <2>2. ASSUME server'.at = "execute", NEW i \in Range(queue'),
               data'[server'.id].client = data'[i].client
        PROVE  server'.id < i
    <3>1. server' = server /\ server.id \in Posted
      BY <1>1, <1>7, <2>2 DEF serverVars
    <3>2. data'[server.id] = data[server.id]
      BY <1>4, <1>5, <3>1
    <3>3. CASE i = m
      BY <1>5, <1>8, <2>2, <3>1, <3>2, <3>3
    <3>4. CASE i # m
      <4>1. i \in Range(queue) /\ i \in Posted
        BY <1>6, <2>2, <3>4 DEF Posted
      <4>2. data'[i] = data[i]
        BY <1>4, <1>5, <4>1
      <4>3. QED
        BY <2>2, <3>1, <3>2, <4>1, <4>2 DEF OInv, OrderOK, SameClient
    <3>5. QED
      BY <3>3, <3>4
  <2>3. ASSUME NEW i \in Range(executed'), NEW j \in Waiting',
               data'[i].client = data'[j].client
        PROVE  i < j
    <3>1. i \in Range(executed) /\ i \in Posted
      BY <1>1, <1>7 DEF serverVars
    <3>2. data'[i] = data[i]
      BY <1>4, <1>5, <3>1
    <3>3. CASE j = m
      BY <1>5, <1>8, <2>3, <3>1, <3>2, <3>3
    <3>4. CASE j # m
      <4>1. j \in Waiting /\ j \in Posted
        BY <1>7, <3>4
      <4>2. data'[j] = data[j]
        BY <1>4, <1>5, <4>1
      <4>3. QED
        BY <2>3, <3>1, <3>2, <4>1, <4>2 DEF OInv, OrderOK, SameClient
    <3>5. QED
      BY <3>3, <3>4
  <2>4. QED
    BY <2>1, <2>2, <2>3 DEF OrderOK, SameClient
<1>14. NewestInside'
  <2>1. ASSUME NEW u \in Callers, Inside(u)', NEW i \in Posted',
               data'[i].client = ClientOf[u]
        PROVE  i <= mine'[u]
    <3>1. mine'[u] = mine[u] /\ Inside(u)
      BY <1>1, <1>3, <2>1
    <3>2. CASE i = m
      <4>1. u = t
        BY <1>3, <1>5, <2>1, <3>1, <3>2, OneInside DEF OInv
      <4>2. QED
        BY <1>4, <3>1, <3>2, <4>1 DEF m
    <3>3. CASE i # m
      <4>1. i \in Posted /\ data'[i] = data[i]
        BY <1>4, <1>5, <1>7, <3>3
      <4>2. QED
        BY <2>1, <3>1, <4>1 DEF OInv, NewestInside
    <3>4. QED
      BY <3>2, <3>3
  <2>2. QED
    BY <2>1 DEF NewestInside
<1>15. AnswerWakesCaller'
  <2>1. answered \subseteq Posted
    BY <1>7 DEF OInv, PostedOK
  <2>2. QED
    BY <1>1, <1>2, <1>4, <2>1 DEF OInv, AnswerWakesCaller, serverVars, m
<1>16. QED
  BY <1>1, <1>9, <1>10, <1>11, <1>12, <1>13, <1>14, <1>15 DEF OInv

(* what the server does leaves callers where they are *)
LEMMA ServerLeavesCallers ==
  ASSUME OInv, UNCHANGED callerVars
  PROVE  LockOK' /\ CountOK' /\ MineOK'
<1>1. (\A t \in Callers : Inside(t)' <=> Inside(t)) /\ Entering' = Entering
  BY DEF Inside, Entering, callerVars
<1>2. QED
  BY <1>1 DEF OInv, LockOK, CountOK, MineOK, callerVars

LEMMA ServerLeavesNewest ==
  ASSUME OInv, UNCHANGED callerVars, Posted' \subseteq Posted,
         \A j \in Requests : data'[j].client = data[j].client
  PROVE  /\ NewestInside'
         /\ Posted' \subseteq 1 .. calls'
         /\ \A t \in Callers : pc'[t] = "post" => mine'[t] \notin Posted'
         /\ \A t \in Callers : pc'[t] \in {"wait", "timedout", "check"} =>
              data'[mine'[t]].client = ClientOf[t]
<1>1. Posted \subseteq Requests /\ \A t \in Callers : Inside(t) => mine[t] \in Requests
  BY PostedAreRequests
<1>2. NewestInside'
  BY <1>1 DEF OInv, NewestInside, Inside, callerVars
<1>3. Posted' \subseteq 1 .. calls'
  BY DEF OInv, PostedOK, callerVars
<1>4. \A t \in Callers : pc'[t] = "post" => mine'[t] \notin Posted'
  BY DEF OInv, PostedOK, callerVars
<1>5. \A t \in Callers : pc'[t] \in {"wait", "timedout", "check"} =>
        data'[mine'[t]].client = ClientOf[t]
  BY <1>1 DEF OInv, PostedOK, Inside, callerVars
<1>6. QED
  BY <1>2, <1>3, <1>4, <1>5

LEMMA TakeKeepsOrder ==
  ASSUME OInv, Shapes, Take
  PROVE  OInv'
<1> DEFINE h == Head(queue)
<1>1. /\ server = Idle /\ queue # <<>> /\ queue' = Tail(queue)
      /\ data' = [data EXCEPT ![h].res = "failed"]
      /\ server' = [at |-> "execute", id |-> h]
      /\ UNCHANGED <<callerVars, signaled_, executed, done, answered>>
  BY DEF Take
<1>2. /\ queue \in Seq(Nat) /\ Tail(queue) \in Seq(Nat)
      /\ Range(Tail(queue)) \subseteq Range(queue) /\ h \in Range(queue)
  BY <1>1, RangeOfTail DEF OInv, PostedOK
<1>3. /\ Len(queue) \in Nat \ {0} /\ Len(Tail(queue)) = Len(queue) - 1
      /\ \A p \in 1 .. Len(queue) - 1 : Tail(queue)[p] = queue[p + 1]
      /\ h = queue[1] /\ DOMAIN Tail(queue) = 1 .. Len(queue) - 1
  BY <1>1, <1>2, HeadTailProperties, EmptySeq, LenProperties
<1>4. \A j \in Requests : data'[j].client = data[j].client
  BY <1>1, ClientsStay
<1> HIDE DEF h
<1>5. server'.at = "execute" /\ server'.id = h
  BY <1>1
<1>6. /\ Posted' \subseteq Posted /\ Waiting' \subseteq Waiting /\ Waiting \subseteq Posted
      /\ Range(executed) \subseteq Posted
  <2>1. Range(queue') \subseteq Range(queue) /\ executed' = executed
    BY <1>1, <1>2
  <2>2. Posted' = Range(queue') \union Range(executed') \union {h}
    BY <1>5 DEF Posted
  <2>3. Waiting' = Range(queue') \union {h}
    BY <1>5 DEF Waiting
  <2>4. QED
    BY <1>2, <2>1, <2>2, <2>3 DEF Posted, Waiting
<1>7. Posted \subseteq Requests
  BY PostedAreRequests
<1>8. LockOK' /\ CountOK' /\ MineOK' /\ NewestInside'
  BY <1>1, <1>4, <1>6, ServerLeavesCallers, ServerLeavesNewest
<1>9. PostedOK'
  <2>1. /\ Posted' \subseteq 1 .. calls'
        /\ \A t \in Callers : pc'[t] = "post" => mine'[t] \notin Posted'
        /\ \A t \in Callers : pc'[t] \in {"wait", "timedout", "check"} =>
             data'[mine'[t]].client = ClientOf[t]
    BY <1>1, <1>4, <1>6, ServerLeavesNewest
  <2>2. queue' \in Seq(Nat)
    BY <1>1, <1>2
  <2>3. QED
    BY <1>1, <1>5, <2>1, <2>2 DEF OInv, PostedOK
<1>10. OrderOK'
  <2>1. \A p \in 1 .. Len(queue) : queue[p] \in Requests
    <3>1. \A p \in 1 .. Len(queue) : queue[p] \in Range(queue)
      BY <1>2, LenProperties DEF Range
    <3>2. QED
      BY <1>6, <1>7, <3>1 DEF Waiting
  <2>2. ASSUME NEW p \in 1 .. Len(queue'), NEW q \in 1 .. Len(queue'), p < q,
               data'[queue'[p]].client = data'[queue'[q]].client
        PROVE  queue'[p] < queue'[q]
    <3>1. /\ p + 1 \in 1 .. Len(queue) /\ q + 1 \in 1 .. Len(queue) /\ p + 1 < q + 1
          /\ queue'[p] = queue[p + 1] /\ queue'[q] = queue[q + 1]
      BY <1>1, <1>3, <2>2
    <3>2. SameClient(queue[p + 1], queue[q + 1])
      BY <1>4, <2>1, <2>2, <3>1 DEF SameClient
    <3>3. QED
      BY <3>1, <3>2 DEF OInv, OrderOK
  <2>3. ASSUME NEW i \in Range(queue'), data'[server'.id].client = data'[i].client
        PROVE  server'.id < i
    <3>1. PICK p \in 1 .. Len(queue) - 1 : i = Tail(queue)[p]
      BY <1>1, <1>3 DEF Range
    <3>2. /\ i = queue[p + 1] /\ p + 1 \in 1 .. Len(queue) /\ 1 \in 1 .. Len(queue)
          /\ 1 < p + 1
      BY <1>3, <3>1
    <3>3. SameClient(queue[1], queue[p + 1])
      BY <1>3, <1>4, <1>5, <2>1, <2>3, <3>2 DEF SameClient
    <3>4. QED
      BY <1>3, <1>5, <3>2, <3>3 DEF OInv, OrderOK
  <2>4. ASSUME NEW i \in Range(executed'), NEW j \in Waiting',
               data'[i].client = data'[j].client
        PROVE  i < j
    <3>1. i \in Range(executed) /\ j \in Waiting /\ i \in Requests /\ j \in Requests
      BY <1>1, <1>6, <1>7
    <3>2. SameClient(i, j)
      BY <1>4, <2>4, <3>1 DEF SameClient
    <3>3. QED
      BY <3>1, <3>2 DEF OInv, OrderOK
  <2>5. QED
    BY <2>2, <2>3, <2>4 DEF OrderOK, SameClient
<1>11. AnswerWakesCaller'
  BY <1>1 DEF OInv, AnswerWakesCaller, callerVars
<1>12. QED
  BY <1>1, <1>8, <1>9, <1>10, <1>11 DEF OInv

LEMMA ExecuteKeepsOrder ==
  ASSUME OInv, Shapes, Execute
  PROVE  OInv'
<1> DEFINE s == server.id
<1>1. /\ server.at = "execute" /\ executed' = Append(executed, s)
      /\ server'.at \in {"report", "trigger"} /\ server'.id = s
      /\ done' \subseteq done \union {s}
      /\ UNCHANGED <<callerVars, signaled_, queue, data, answered>>
  BY DEF Execute, Shapes
<1>2. s \in Posted /\ s \in Nat
  BY <1>1 DEF Posted, Shapes
<1>3. /\ executed' \in Seq(Nat)
      /\ Range(executed') \subseteq Range(executed) \union {s}
      /\ s \in Range(executed') /\ Range(executed) \subseteq Range(executed')
  <2>1. executed \in Seq(Nat)
    BY DEF OInv, PostedOK
  <2> HIDE DEF s
  <2>2. /\ Append(executed, s) \in Seq(Nat)
        /\ Range(Append(executed, s)) \subseteq Range(executed) \union {s}
    BY <1>2, <2>1, RangeOfAppend
  <2>3. Range(Append(executed, s)) = Range(executed) \union {s}
    <3>1. /\ Len(executed) \in Nat /\ Len(Append(executed, s)) = Len(executed) + 1
          /\ \A i \in 1 .. Len(executed) : Append(executed, s)[i] = executed[i]
          /\ Append(executed, s)[Len(executed) + 1] = s
      BY <1>2, <2>1, AppendToSeq
    <3>2. /\ DOMAIN executed = 1 .. Len(executed)
          /\ DOMAIN Append(executed, s) = 1 .. Len(executed) + 1
      BY <2>1, <2>2, <3>1, LenProperties
    <3>3. /\ Len(executed) + 1 \in DOMAIN Append(executed, s)
          /\ DOMAIN executed \subseteq DOMAIN Append(executed, s)
      BY <3>1, <3>2
    <3>4. s \in Range(Append(executed, s))
      BY <3>1, <3>3 DEF Range
    <3>5. Range(executed) \subseteq Range(Append(executed, s))
      BY <3>1, <3>2, <3>3 DEF Range
    <3>6. QED
      BY <2>2, <3>4, <3>5
  <2>4. QED
    BY <1>1, <2>2, <2>3
<1> HIDE DEF s
<1>4. Posted' \subseteq Posted /\ Waiting' = Range(queue) /\ Waiting' \subseteq Waiting
  <2>1. queue' = queue /\ server'.at # "execute"
    BY <1>1
  <2>2. Posted' = Range(queue) \union Range(executed')
    BY <2>1 DEF Posted
  <2>3. QED
    BY <1>2, <1>3, <2>1, <2>2 DEF Posted, Waiting
<1>5. LockOK' /\ CountOK' /\ MineOK' /\ NewestInside'
  BY <1>1, <1>4, ServerLeavesCallers, ServerLeavesNewest
<1>6. PostedOK'
  <2>1. /\ Posted' \subseteq 1 .. calls'
        /\ \A t \in Callers : pc'[t] = "post" => mine'[t] \notin Posted'
        /\ \A t \in Callers : pc'[t] \in {"wait", "timedout", "check"} =>
             data'[mine'[t]].client = ClientOf[t]
    BY <1>1, <1>4, ServerLeavesNewest
  <2>2. done' \subseteq Range(executed') /\ answered' \subseteq Range(executed')
    BY <1>1, <1>3 DEF OInv, PostedOK
  <2>3. QED
    BY <1>1, <1>3, <2>1, <2>2 DEF OInv, PostedOK
<1>7. OrderOK'
  <2>1. ASSUME NEW i \in Range(executed'), NEW j \in Waiting', SameClient(i, j)
        PROVE  i < j
    <3>1. CASE i = s
      BY <1>1, <1>4, <2>1, <3>1 DEF OInv, OrderOK, s
    <3>2. CASE i # s
      BY <1>3, <1>4, <2>1, <3>2 DEF OInv, OrderOK
    <3>3. QED
      BY <3>1, <3>2
  <2>2. QED
    BY <1>1, <2>1 DEF OInv, OrderOK, SameClient
<1>8. AnswerWakesCaller'
  BY <1>1 DEF OInv, AnswerWakesCaller, callerVars
<1>9. QED
  BY <1>1, <1>5, <1>6, <1>7, <1>8 DEF OInv

LEMMA ReportKeepsOrder ==
  ASSUME OInv, Shapes, Report
  PROVE  OInv'
<1>1. /\ server.at = "report" /\ server'.at = "trigger" /\ server'.id = server.id
      /\ data' = [data EXCEPT ![server.id].res = "done"]
      /\ UNCHANGED <<callerVars, signaled_, queue, executed, done, answered>>
  BY DEF Report, Shapes
<1>2. \A j \in Requests : data'[j].client = data[j].client
  BY <1>1, ClientsStay
<1>3. Posted' = Posted /\ Waiting' = Waiting
  BY <1>1 DEF Posted, Waiting
<1>4. /\ Posted \subseteq Requests /\ Waiting \subseteq Posted
      /\ Range(executed) \subseteq Posted
      /\ \A p \in 1 .. Len(queue) : queue[p] \in Posted
  <2>1. queue \in Seq(Nat)
    BY DEF OInv, PostedOK
  <2>2. \A p \in 1 .. Len(queue) : queue[p] \in Range(queue)
    BY <2>1, LenProperties DEF Range
  <2>3. QED
    BY <2>2, PostedAreRequests DEF Posted, Waiting
<1>5. LockOK' /\ CountOK' /\ MineOK' /\ NewestInside'
  BY <1>1, <1>2, <1>3, ServerLeavesCallers, ServerLeavesNewest
<1>6. PostedOK'
  <2>1. /\ Posted' \subseteq 1 .. calls'
        /\ \A t \in Callers : pc'[t] = "post" => mine'[t] \notin Posted'
        /\ \A t \in Callers : pc'[t] \in {"wait", "timedout", "check"} =>
             data'[mine'[t]].client = ClientOf[t]
    BY <1>1, <1>2, <1>3, ServerLeavesNewest
  <2>2. QED
    BY <1>1, <2>1 DEF OInv, PostedOK
<1>7. OrderOK'
  <2>1. \A i, j \in Posted : SameClient(i, j)' <=> SameClient(i, j)
    BY <1>2, <1>4 DEF SameClient
  <2>2. ASSUME NEW p \in 1 .. Len(queue), NEW q \in 1 .. Len(queue), p < q,
               SameClient(queue[p], queue[q])'
        PROVE  queue[p] < queue[q]
    BY <1>1, <1>4, <2>1, <2>2 DEF OInv, OrderOK, SameClient
  <2>3. ASSUME NEW i \in Range(executed), NEW j \in Waiting, SameClient(i, j)'
        PROVE  i < j
    BY <1>1, <1>4, <2>1, <2>3 DEF OInv, OrderOK, SameClient
  <2>4. QED
    BY <1>1, <1>3, <2>2, <2>3 DEF OrderOK, SameClient
<1>8. AnswerWakesCaller'
  BY <1>1 DEF OInv, AnswerWakesCaller, callerVars
<1>9. QED
  BY <1>1, <1>5, <1>6, <1>7, <1>8 DEF OInv

(* whoever waits for the answer waits on the signal of the request's client *)
LEMMA TriggerKeepsOrder ==
  ASSUME OInv, Shapes, Trigger
  PROVE  OInv'
<1> DEFINE s == server.id
<1>1. /\ server.at = "trigger" /\ server' = Idle
      /\ signaled_' = [signaled_ EXCEPT ![data[s].client] = TRUE]
      /\ answered' = answered \union {s}
      /\ UNCHANGED <<callerVars, queue, data, executed, done>>
  BY DEF Trigger
<1>2. Idle.at = "idle"
  BY DEF Idle
<1>3. Posted' = Posted /\ Waiting' = Waiting
  BY <1>1, <1>2 DEF Posted, Waiting
<1>4. LockOK' /\ CountOK' /\ MineOK' /\ NewestInside'
  BY <1>1, <1>3, ServerLeavesCallers, ServerLeavesNewest
<1>5. PostedOK'
  <2>1. answered' \subseteq Range(executed)
    BY <1>1 DEF OInv, PostedOK
  <2>2. QED
    BY <1>1, <1>2, <1>3, <2>1 DEF OInv, PostedOK, callerVars
<1>6. OrderOK'
  BY <1>1, <1>2, <1>3 DEF OInv, OrderOK, SameClient
<1>7. signaled_' \in [Clients -> BOOLEAN]
  BY <1>1 DEF OInv
<1>8. AnswerWakesCaller'
  <2>1. ASSUME NEW t \in Callers, pc[t] = "wait", mine[t] \in answered \union {s}
        PROVE  signaled_'[ClientOf[t]]
    <3>1. ClientOf[t] \in Clients
      BY KvdbClientAssumption
    <3>2. CASE mine[t] = s
      <4>1. data[s].client = ClientOf[t]
        BY <2>1, <3>2 DEF OInv, PostedOK
      <4>2. QED
        BY <1>1, <3>1, <4>1 DEF OInv
    <3>3. CASE mine[t] # s
      <4>1. signaled_[ClientOf[t]]
        BY <2>1, <3>3 DEF OInv, AnswerWakesCaller
      <4>2. QED
        BY <1>1, <3>1, <4>1 DEF OInv
    <3>4. QED
      BY <3>2, <3>3
  <2>2. QED
    BY <1>1, <2>1 DEF AnswerWakesCaller, callerVars
<1>9. QED
  BY <1>4, <1>5, <1>6, <1>7, <1>8 DEF OInv

-----------------------------------------------------------------------------
(* Theorems. *)
LEMMA InitOInv == Init => OInv
<1> SUFFICES ASSUME Init PROVE OInv
  OBVIOUS
<1>1. \A t \in Callers : ~Inside(t) /\ None # t /\ ClientOf[t] \in Clients
  BY KvdbClientAssumption DEF Init, Inside
<1>2. LockOK
  BY <1>1 DEF Init, LockOK
<1>3. CountOK
  <2>1. Entering = {}
    BY DEF Init, Entering
  <2>2. IsFiniteSet(Entering) /\ Cardinality(Entering) = 0
    BY <2>1, FS_EmptySet
  <2>3. QED
    BY <2>2, KvdbClientAssumption DEF Init, CountOK
<1>4. MineOK
  BY <1>1 DEF Init, MineOK
<1>5. queue = <<>> /\ executed = <<>> /\ Range(queue) = {} /\ Range(executed) = {}
  <2>1. <<>> \in Seq(Nat) /\ Len(<<>>) = 0
    BY EmptySeq
  <2>2. Range(<<>>) = {<<>>[i] : i \in 1 .. Len(<<>>)}
    BY <2>1, RangeEquality
  <2>3. Range(<<>>) = {}
    BY <2>1, <2>2
  <2>4. QED
    BY <2>3 DEF Init
<1>6. server = Idle /\ Idle.at = "idle"
  BY DEF Init, Idle
<1>7. Posted = {} /\ Waiting = {}
  BY <1>5, <1>6 DEF Posted, Waiting
<1>8. PostedOK
  <2>1. <<>> \in Seq(Nat)
    BY EmptySeq
  <2>2. QED
    BY <1>5, <1>6, <1>7, <2>1 DEF Init, PostedOK
<1>9. OrderOK
  <2>1. Len(queue) = 0
    BY <1>5, EmptySeq
  <2>2. QED
    BY <1>5, <1>6, <2>1 DEF OrderOK
<1>10. NewestInside
  BY <1>1 DEF NewestInside
<1>11. AnswerWakesCaller /\ signaled_ \in [Clients -> BOOLEAN]
  BY DEF Init, AnswerWakesCaller
<1>12. QED
  BY <1>2, <1>3, <1>4, <1>8, <1>9, <1>10, <1>11 DEF OInv

LEMMA NextOInv == OInv /\ IInv /\ [Next]_vars => OInv'
<1> SUFFICES ASSUME OInv, IInv, [Next]_vars PROVE OInv'
  OBVIOUS
<1>1. Shapes
  BY DEF IInv
<1>2. CASE Next
  BY <1>1, <1>2, CallKeepsOrder, EnterKeepsOrder, PostKeepsOrder,
     SignalledKeepsOrder, TimeOutKeepsOrder, ReturnKeepsOrder, TakeKeepsOrder,
     ExecuteKeepsOrder, ReportKeepsOrder, TriggerKeepsOrder
     DEF Next, CallStep, ServerStep
<1>3. CASE UNCHANGED vars
  <2>1. UNCHANGED <<callerVars, queue, data, signaled_, serverVars>>
    BY <1>3 DEF vars, callerVars, serverVars
  <2>2. LockOK' /\ CountOK' /\ MineOK'
    BY <2>1, ServerLeavesCallers
  <2>3. Posted' = Posted
    BY <2>1, SamePosted DEF serverVars
  <2>4. NewestInside' /\ OrderOK'
    BY <2>1, <2>3, SameOrder, ServerLeavesNewest DEF OInv, serverVars
  <2>5. PostedOK'
    BY <2>1, SameRequests DEF OInv, callerVars
  <2>6. AnswerWakesCaller'
    BY <2>1 DEF OInv, AnswerWakesCaller, callerVars, serverVars
  <2>7. QED
    BY <2>1, <2>2, <2>4, <2>5, <2>6 DEF OInv
<1>4. QED
  BY <1>2, <1>3

LEMMA BothHold == Spec => [](OInv /\ IInv)
<1>1. Init => OInv /\ IInv
  BY InitOInv, InitIInv
<1>2. OInv /\ IInv /\ [Next]_vars => OInv' /\ IInv'
  BY NextOInv, NextIInv
<1>3. QED
  BY <1>1, <1>2, PTL DEF Spec

(* Every variable holds a value the code could hold, and the lock of a     *)
(* client is held by the one caller that is inside a call.                 *)
THEOREM TypesHold == Spec => []TypeOK
<1>1. OInv /\ IInv => TypeOK
  <2> SUFFICES ASSUME OInv, IInv PROVE TypeOK
    OBVIOUS
  <2>1. /\ 0 .. calls \subseteq 0 .. MaxCalls /\ 1 .. calls \subseteq Requests
        /\ Posted \subseteq Requests
    BY CallsBound, PostedAreRequests DEF OInv
  <2>2. Range(queue) \subseteq Requests /\ Range(executed) \subseteq Requests
    BY <2>1 DEF Posted
  <2>3. queue \in Seq(Requests) /\ executed \in Seq(Requests)
    BY <2>2, SeqOfRange, SeqMonotonic DEF OInv, PostedOK
  <2>4. mine \in [Callers -> 0 .. MaxCalls]
    BY <2>1 DEF OInv, MineOK
  <2>5. begun \in 0 .. MaxCalls /\ calls \in 0 .. begun
    <3>1. Cardinality(Entering) \in Nat /\ calls \in Nat
          /\ calls + Cardinality(Entering) = begun
      BY FS_CardinalityType DEF OInv, CountOK
    <3>2. QED
      BY <3>1 DEF OInv, CountOK
  <2>6. server \in [at: {"idle", "execute", "report", "trigger"}, id: 0 .. MaxCalls]
    <3>1. server \in [at: {"idle", "execute", "report", "trigger"}, id: Nat]
      BY DEF IInv, Shapes
    <3>2. server.at # "idle" => server.id \in Requests
      BY <2>1, <2>2, <3>1 DEF OInv, PostedOK, Posted
    <3>3. server.at = "idle" => server.id = 0
      BY DEF OInv, PostedOK, Idle
    <3>4. server.id \in 0 .. MaxCalls
      BY <3>1, <3>2, <3>3, KvdbClientAssumption DEF Requests
    <3>5. QED
      BY <3>1, <3>4
  <2>7. done \subseteq Requests /\ answered \subseteq Requests /\ succeeded \subseteq Requests
    BY <2>2 DEF OInv, PostedOK, IInv, SuccessMeansExecuted
  <2>8. \A t \in Callers : pc[t] \in {"idle", "enter"} <=> crit_[ClientOf[t]] # t
    BY DEF OInv, LockOK, Inside
  <2>9. QED
    BY <2>3, <2>4, <2>5, <2>6, <2>7, <2>8 DEF TypeOK, OInv, IInv, Shapes, LockOK
<1>2. QED
  BY <1>1, BothHold, PTL

(* The answer of a call is never missed: the signal of its client is not   *)
(* emptied by another call, since the lock is held until the call returns. *)
THEOREM AnswersAreHeard == Spec => []AnswerWakesCaller
<1>1. OInv /\ IInv => AnswerWakesCaller
  BY DEF OInv
<1>2. QED
  BY <1>1, BothHold, PTL

(* Once a call has succeeded no older request of its client is still to be *)
(* executed, for any number of clients, threads and calls that gave up.    *)
THEOREM NoneExecutedLate == Spec => []NoStragglers
<1>1. OInv /\ IInv => NoStragglers
  <2> SUFFICES ASSUME OInv, IInv, NEW i \in succeeded, NEW j \in Requests,
                      j < i, j \in Posted, data[j].client = data[i].client
               PROVE  j \in Range(executed)
    BY DEF NoStragglers
  <2>1. i \in Range(executed) /\ i \in Requests
    <3>1. i \in Range(executed)
      BY DEF OInv, PostedOK, IInv, SuccessMeansExecuted
    <3>2. QED
      BY <3>1, PostedAreRequests DEF Posted
  <2>2. CASE j \in Waiting
    <3>1. i < j
      BY <2>1, <2>2 DEF OInv, OrderOK, SameClient
    <3>2. QED
      BY <2>1, <3>1, KvdbClientAssumption DEF Requests
  <2>3. CASE j \notin Waiting
    BY <2>3 DEF Posted, Waiting
  <2>4. QED
    BY <2>2, <2>3
<1>2. QED
  BY <1>1, BothHold, PTL
=============================================================================
