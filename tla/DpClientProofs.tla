--------------------------- MODULE DpClientProofs ---------------------------
(***************************************************************************)
(* Theorems about DpClient for any clients, threads, loops and any number  *)
(* of requests, broadcasts, replies and changes of who listens.            *)
(*                                                                         *)
(* Neither property is inductive.  OneClientHears needs that a request the *)
(* manager still finds no client for is in no box, and that no two threads *)
(* send under one number; OneReplyOneSuccess needs that a thread that got  *)
(* past select finds the signal still there, which holds for a client that *)
(* only one thread uses.                                                   *)
(***************************************************************************)
EXTENDS DpClient, SequenceLemmas, FiniteSetTheorems, TLAPS

Made == 1 .. calls

SentOK ==
  /\ calls \in 0 .. MaxCalls
  /\ from \in Seq(Clients) /\ Len(from) = calls

BoxOK ==
  /\ box \in [Clients -> Seq(Made)]
  /\ kept \in [Clients -> SUBSET Made]

Steps == {"idle", "asks", "tells", "waits", "woken", "timedout"}

CallRecords == [at: Steps, id: 0 .. calls, next: 0 .. Len(dpclients_) + 1]

CallOK ==
  /\ call \in [Threads -> CallRecords]
  /\ \A t \in Threads : call[t].at # "idle" =>
       call[t].id \in Made /\ from[call[t].id] = ClientOf[t]
  /\ \A t \in Threads : Walks(t) => call[t].next >= 1

AnswerOK ==
  /\ method_set_ \in [Clients -> BOOLEAN]
  /\ signaled_ \in [Clients -> BOOLEAN]
  /\ replies \in [Clients -> Nat]
  /\ replied \subseteq Made /\ succeeded \subseteq Made

Types == SentOK /\ BoxOK /\ CallOK /\ AnswerOK

Has(d, id) == id \in kept[d] \union Range(box[d])

Alone(d) == Cardinality({t \in Threads : ClientOf[t] = d}) = 1

(* nobody else empties the pipe of a client that one thread uses *)
WokenIsSignalled ==
  \A t \in Threads :
    call[t].at = "woken" /\ Alone(ClientOf[t]) => signaled_[ClientOf[t]]

(* what a walk sends is its own: a request that is still looking for a     *)
(* client is with none                                                     *)
WalkOK ==
  /\ \A t \in Threads : call[t].at = "asks" =>
       \A d \in Clients : ~Has(d, call[t].id)
  /\ \A t \in Threads : call[t].at = "tells" => call[t].id \in broadcasts
  /\ \A t, u \in Threads :
       call[t].at # "idle" /\ call[u].at # "idle" /\ call[t].id = call[u].id
         => t = u

Successes(d) == {i \in succeeded : from[i] = d}

IInv == Types /\ WalkOK /\ OneClientHears /\ WokenIsSignalled /\ OneReplyOneSuccess

-----------------------------------------------------------------------------
(* What sending changes. *)
LEMMA SendEffect ==
  ASSUME SentOK, NEW t \in Threads, NEW at, Send(t, at)
  PROVE  /\ SentOK' /\ calls' = calls + 1 /\ calls \in Nat
         /\ Made \subseteq Made' /\ calls + 1 \in Made' /\ calls + 1 \notin Made
         /\ \A i \in Made : from'[i] = from[i]
         /\ from'[calls + 1] = ClientOf[t]
<1>1. /\ calls \in 0 .. MaxCalls /\ calls < MaxCalls /\ MaxCalls \in Nat
      /\ calls' = calls + 1
  BY DpClientAssumption DEF SentOK, Send
<1>2. /\ from' = Append(from, ClientOf[t])
      /\ ClientOf[t] \in Clients
      /\ from \in Seq(Clients) /\ Len(from) = calls
  BY DpClientAssumption DEF SentOK, Send, Clients
<1>3. /\ from' \in Seq(Clients) /\ Len(from') = calls + 1
      /\ \A i \in 1 .. calls : from'[i] = from[i]
      /\ from'[calls + 1] = ClientOf[t]
  BY <1>2, AppendProperties
<1>4. calls' \in 0 .. MaxCalls
  BY <1>1
<1>5. /\ calls \in Nat /\ 1 .. calls \subseteq 1 .. calls + 1
      /\ calls + 1 \in 1 .. calls + 1 /\ calls + 1 \notin 1 .. calls
  BY <1>1
<1>6. QED
  BY <1>1, <1>3, <1>4, <1>5 DEF SentOK, Made

(* a number that was not sent is nowhere *)
LEMMA NewIsNowhere ==
  ASSUME BoxOK, NEW d \in Clients, NEW id, Has(d, id)
  PROVE  id \in Made
<1>1. box[d] \in Seq(Made) /\ kept[d] \subseteq Made
  BY DEF BoxOK
<1>2. Range(box[d]) \in SUBSET Made
  BY <1>1, RangeOfSeq
<1>3. QED
  BY <1>1, <1>2 DEF Has

(* steps that send nothing and only take from boxes *)
LEMMA HearsLess ==
  ASSUME OneClientHears, UNCHANGED sent,
         \A d \in Clients, id \in Ids : Has(d, id)' => Has(d, id)
  PROVE  OneClientHears'
BY DEF OneClientHears, Has, sent

-----------------------------------------------------------------------------
(* Counting. *)
LEMMA SuccessesFinite ==
  ASSUME SentOK, AnswerOK, NEW d
  PROVE  IsFiniteSet(Successes(d)) /\ Cardinality(Successes(d)) \in Nat
<1>1. calls \in Int
  BY DpClientAssumption DEF SentOK
<1>2. IsFiniteSet(Made)
  BY <1>1, FS_Interval DEF Made
<1>3. Successes(d) \in SUBSET Made
  BY DEF Successes, AnswerOK
<1>4. IsFiniteSet(Successes(d))
  BY <1>2, <1>3, FS_Subset
<1>5. QED
  BY <1>4, FS_CardinalityType

LEMMA AloneMeans ==
  ASSUME NEW t \in Threads, NEW u \in Threads,
         ClientOf[t] = ClientOf[u], Alone(ClientOf[t])
  PROVE  t = u
<1> DEFINE users == {v \in Threads : ClientOf[v] = ClientOf[t]}
<1>1. IsFiniteSet(users)
  BY DpClientAssumption, FS_Subset
<1>2. Cardinality(users) = 1
  BY DEF Alone
<1>3. t \in users /\ u \in users
  OBVIOUS
<1> HIDE DEF users
<1>4. \E x : users = {x}
  BY <1>1, <1>2, FS_Singleton
<1>5. QED
  BY <1>3, <1>4

Bound(d) == Cardinality(Successes(d)) + (IF signaled_[d] THEN 1 ELSE 0) <= replies[d]

LEMMA BoundsMean ==
  OneReplyOneSuccess <=> \A d \in Clients : Alone(d) => Bound(d)
BY DEF OneReplyOneSuccess, Alone, Bound, Successes

LEMMA BoundsMeanNext ==
  OneReplyOneSuccess' <=> \A d \in Clients : Alone(d) => Bound(d)'
BY DEF OneReplyOneSuccess, Alone, Bound, Successes

LEMMA SameBounds ==
  ASSUME OneReplyOneSuccess, UNCHANGED <<succeeded, signaled_, replies>>,
         \A i \in succeeded : from'[i] = from[i]
  PROVE  OneReplyOneSuccess'
<1>1. \A d \in Clients : Successes(d)' = Successes(d)
  BY DEF Successes
<1>2. \A d \in Clients : Bound(d)' <=> Bound(d)
  BY <1>1 DEF Bound
<1>3. QED
  BY <1>2, BoundsMean, BoundsMeanNext

-----------------------------------------------------------------------------
(* Steps.  First how the record of a thread changes. *)
LEMMA ListIsFinite == Len(dpclients_) \in Nat
  BY DpClientAssumption

(* a thread's record becomes another with the same number, or is gone *)
Becomes(t, new) ==
  /\ call' = [call EXCEPT ![t] = new]
  /\ new \in CallRecords
  /\ new.at # "idle" => call[t].at # "idle" /\ new.id = call[t].id
  /\ new.at \in {"asks", "tells"} => new.at = call[t].at /\ new.next >= 1

LEMMA CallBecomes ==
  ASSUME CallOK, UNCHANGED sent, NEW t \in Threads, NEW new, Becomes(t, new)
  PROVE  /\ CallOK' /\ call'[t] = new
         /\ \A u \in Threads \ {t} : call'[u] = call[u]
<1>1. /\ call' \in [Threads -> CallRecords] /\ call'[t] = new
      /\ \A u \in Threads \ {t} : call'[u] = call[u]
  BY DEF CallOK, Becomes
<1>2. CallRecords' = CallRecords /\ Made' = Made /\ from' = from
  BY DEF CallRecords, Made, sent
<1>3. ASSUME NEW u \in Threads, call'[u].at # "idle"
      PROVE  call'[u].id \in Made /\ from[call'[u].id] = ClientOf[u]
  <2>1. CASE u = t
    BY <1>1, <1>3, <2>1 DEF CallOK, Becomes
  <2>2. CASE u # t
    BY <1>1, <1>3, <2>2 DEF CallOK
  <2>3. QED
    BY <2>1, <2>2
<1>4. ASSUME NEW u \in Threads, Walks(u)' PROVE call'[u].next >= 1
  <2>1. CASE u = t
    BY <1>1, <1>4, <2>1 DEF Becomes, Walks
  <2>2. CASE u # t
    BY <1>1, <1>4, <2>2 DEF CallOK, Walks
  <2>3. QED
    BY <2>1, <2>2
<1>5. CallOK'
  BY <1>1, <1>2, <1>3, <1>4 DEF CallOK
<1>6. QED
  BY <1>1, <1>5

(* who else walks keeps its number to itself, if what is posted has another *)
LEMMA WalksAsBefore ==
  ASSUME CallOK, WalkOK, UNCHANGED sent,
         NEW t \in Threads, NEW new, Becomes(t, new),
         \A d \in Clients, i \in Made :
           Has(d, i)' => \/ Has(d, i)
                         \/ i = call[t].id /\ call[t].at # "idle" /\ new.at # "asks"
  PROVE  WalkOK'
<1>1. /\ call'[t] = new /\ \A u \in Threads \ {t} : call'[u] = call[u]
  BY CallBecomes
<1>2. \A u \in Threads : call'[u].at # "idle" =>
        call[u].at # "idle" /\ call'[u].id = call[u].id /\ call[u].id \in Made
  <2>1. ASSUME NEW u \in Threads, call'[u].at # "idle"
        PROVE  call[u].at # "idle" /\ call'[u].id = call[u].id
    <3>1. CASE u = t
      BY <1>1, <2>1, <3>1 DEF Becomes
    <3>2. CASE u # t
      BY <1>1, <2>1, <3>2
    <3>3. QED
      BY <3>1, <3>2
  <2>2. QED
    BY <2>1 DEF CallOK
<1>3. \A u \in Threads : call'[u].at \in {"asks", "tells"} => call[u].at = call'[u].at
  <2>1. ASSUME NEW u \in Threads, call'[u].at \in {"asks", "tells"}
        PROVE  call[u].at = call'[u].at
    <3>1. CASE u = t
      BY <1>1, <2>1, <3>1 DEF Becomes
    <3>2. CASE u # t
      BY <1>1, <2>1, <3>2
    <3>3. QED
      BY <3>1, <3>2
  <2>2. QED
    BY <2>1
<1>4. ASSUME NEW u \in Threads, call'[u].at = "asks", NEW d \in Clients
      PROVE  ~Has(d, call[u].id)'
  <2>1. /\ call[u].at = "asks" /\ call'[u].id = call[u].id /\ call[u].id \in Made
        /\ ~Has(d, call[u].id)
    BY <1>2, <1>3, <1>4 DEF WalkOK
  <2>2. ~(call[u].id = call[t].id /\ call[t].at # "idle" /\ new.at # "asks")
    <3>1. CASE u = t
      BY <1>1, <1>4, <3>1
    <3>2. CASE u # t
      BY <2>1, <3>2 DEF WalkOK
    <3>3. QED
      BY <3>1, <3>2
  <2>3. QED
    BY <2>1, <2>2 DEF Has
<1>5. ASSUME NEW u \in Threads, call'[u].at = "tells"
      PROVE  call'[u].id \in broadcasts'
  BY <1>2, <1>3, <1>5 DEF WalkOK, sent
<1>6. ASSUME NEW u \in Threads, NEW v \in Threads,
             call'[u].at # "idle", call'[v].at # "idle", call'[u].id = call'[v].id
      PROVE  u = v
  BY <1>2, <1>6 DEF WalkOK
<1>7. QED
  BY <1>4, <1>5, <1>6 DEF WalkOK, Has

LEMMA SendStep ==
  ASSUME IInv, NEW t \in Threads, NEW at \in {"asks", "tells"}, Send(t, at),
         broadcasts \subseteq broadcasts', at = "tells" => calls + 1 \in broadcasts'
  PROVE  IInv'
<1> DEFINE new == [at |-> at, id |-> calls + 1, next |-> 1]
<1>1. /\ call[t] = Idle /\ call' = [call EXCEPT ![t] = new]
      /\ UNCHANGED <<method_set_, box, kept, signaled_, replies, replied, succeeded>>
  BY DEF Send, Free, answers
<1>2. /\ SentOK' /\ calls' = calls + 1 /\ calls \in Nat
      /\ Made \subseteq Made' /\ calls + 1 \in Made' /\ calls + 1 \notin Made
      /\ \A i \in Made : from'[i] = from[i]
      /\ from'[calls + 1] = ClientOf[t]
  BY SendEffect DEF IInv, Types
<1>3. new.at = at /\ new.id = calls + 1 /\ new.next = 1 /\ new \in CallRecords'
  <2>1. at \in Steps /\ calls + 1 \in 0 .. calls' /\ 1 \in 0 .. Len(dpclients_) + 1
    BY <1>2, ListIsFinite DEF Steps
  <2>2. QED
    BY <2>1 DEF CallRecords
<1> HIDE DEF new
<1>4. /\ call' \in [Threads -> CallRecords'] /\ call'[t] = new
      /\ \A u \in Threads \ {t} : call'[u] = call[u]
  <2>1. CallRecords \subseteq CallRecords'
    <3>1. 0 .. calls \subseteq 0 .. calls'
      BY <1>2
    <3>2. QED
      BY <3>1 DEF CallRecords
  <2>2. call \in [Threads -> CallRecords']
    BY <2>1 DEF IInv, Types, CallOK
  <2>3. QED
    BY <1>1, <1>3, <2>2
<1>5. \A u \in Threads \ {t} : call'[u].at # "idle" => call'[u].id \in Made
  BY <1>4 DEF IInv, Types, CallOK
<1>6. CallOK'
  <2>1. ASSUME NEW u \in Threads, call'[u].at # "idle"
        PROVE  call'[u].id \in Made' /\ from'[call'[u].id] = ClientOf[u]
    <3>1. CASE u = t
      BY <1>2, <1>3, <1>4, <3>1
    <3>2. CASE u # t
      BY <1>2, <1>4, <1>5, <2>1, <3>2 DEF IInv, Types, CallOK
    <3>3. QED
      BY <3>1, <3>2
  <2>2. ASSUME NEW u \in Threads, Walks(u)' PROVE call'[u].next >= 1
    <3>1. CASE u = t
      BY <1>3, <1>4, <3>1
    <3>2. CASE u # t
      BY <1>4, <2>2, <3>2 DEF IInv, Types, CallOK, Walks
    <3>3. QED
      BY <3>1, <3>2
  <2>3. QED
    BY <1>4, <2>1, <2>2 DEF CallOK
<1>7. BoxOK'
  <2>1. \A d \in Clients : box[d] \in Seq(Made')
    BY <1>2, SeqMonotonic DEF IInv, Types, BoxOK
  <2>2. QED
    BY <1>1, <1>2, <2>1 DEF IInv, Types, BoxOK
<1>8. AnswerOK'
  BY <1>1, <1>2 DEF IInv, Types, AnswerOK
<1>9. \A d \in Clients, i \in Ids : Has(d, i)' <=> Has(d, i)
  BY <1>1 DEF Has
<1>10. \A d \in Clients : \A i : Has(d, i) => i \in Made
  BY NewIsNowhere DEF IInv, Types
<1>11. WalkOK'
  <2>1. ASSUME NEW u \in Threads, call'[u].at = "asks", NEW d \in Clients
        PROVE  ~Has(d, call'[u].id)
    <3>1. CASE u = t
      BY <1>2, <1>3, <1>4, <1>10, <3>1
    <3>2. CASE u # t
      BY <1>4, <2>1, <3>2 DEF IInv, WalkOK
    <3>3. QED
      BY <3>1, <3>2
  <2>2. ASSUME NEW u \in Threads, call'[u].at = "tells"
        PROVE  call'[u].id \in broadcasts'
    <3>1. CASE u = t
      BY <1>3, <1>4, <2>2, <3>1
    <3>2. CASE u # t
      BY <1>4, <2>2, <3>2 DEF IInv, WalkOK
    <3>3. QED
      BY <3>1, <3>2
  <2>3. ASSUME NEW u \in Threads, NEW v \in Threads,
               call'[u].at # "idle", call'[v].at # "idle",
               call'[u].id = call'[v].id
        PROVE  u = v
    <3>1. CASE u = t \/ v = t
      BY <1>2, <1>3, <1>4, <1>5, <2>3, <3>1
    <3>2. CASE u # t /\ v # t
      BY <1>4, <2>3, <3>2 DEF IInv, WalkOK
    <3>3. QED
      BY <3>1, <3>2
  <2>4. QED
    BY <1>1, <2>1, <2>2, <2>3 DEF WalkOK, Has
<1>12. OneClientHears'
  <2>1. ASSUME NEW i \in Ids, i \notin broadcasts', NEW d \in Clients, Has(d, i)
        PROVE  d # from'[i] /\ \A e \in Clients : Has(e, i) => d = e
    <3>1. i \in Made /\ i \notin broadcasts
      BY <1>10, <2>1
    <3>2. QED
      BY <1>2, <2>1, <3>1 DEF IInv, OneClientHears, Has
  <2>2. QED
    BY <1>1, <2>1 DEF OneClientHears, Has
<1>13. WokenIsSignalled'
  <2>1. \A u \in Threads : call'[u].at = "woken" => call[u].at = "woken"
    BY <1>3, <1>4
  <2>2. QED
    BY <1>1, <2>1 DEF IInv, WokenIsSignalled, Alone
<1>14. OneReplyOneSuccess'
  <2>1. \A i \in succeeded : from'[i] = from[i]
    BY <1>2 DEF IInv, Types, AnswerOK
  <2>2. QED
    BY <1>1, <2>1, SameBounds DEF IInv
<1>15. QED
  BY <1>2, <1>6, <1>7, <1>8, <1>11, <1>12, <1>13, <1>14 DEF IInv, Types

LEMMA RequestStep ==
  ASSUME IInv, NEW t \in Threads, Request(t)
  PROVE  IInv'
<1>1. Send(t, "asks") /\ broadcasts' = broadcasts
  BY DEF Request
<1>2. QED
  BY <1>1, SendStep

LEMMA MessageStep ==
  ASSUME IInv, NEW t \in Threads, Message(t)
  PROVE  IInv'
<1>1. Send(t, "tells") /\ broadcasts' = broadcasts \union {calls + 1}
  BY DEF Message
<1>2. QED
  BY <1>1, SendStep

-----------------------------------------------------------------------------
(* Steps that post nothing. *)
LEMMA SameSent ==
  ASSUME SentOK, UNCHANGED sent
  PROVE  SentOK' /\ Made' = Made
BY DEF SentOK, Made, sent

LEMMA SameBoxes ==
  ASSUME IInv, UNCHANGED <<box, kept, sent>>
  PROVE  SentOK' /\ BoxOK' /\ OneClientHears' /\ Made' = Made
<1>1. SentOK' /\ Made' = Made
  BY SameSent DEF IInv, Types
<1>2. BoxOK'
  BY <1>1 DEF IInv, Types, BoxOK
<1>3. OneClientHears'
  BY HearsLess DEF IInv, Has
<1>4. QED
  BY <1>1, <1>2, <1>3

LEMMA NothingPosted ==
  ASSUME IInv, UNCHANGED <<box, kept, sent>>,
         NEW t \in Threads, NEW new, Becomes(t, new)
  PROVE  /\ CallOK' /\ WalkOK' /\ call'[t] = new
         /\ \A u \in Threads \ {t} : call'[u] = call[u]
<1>1. /\ CallOK' /\ call'[t] = new
      /\ \A u \in Threads \ {t} : call'[u] = call[u]
  BY CallBecomes DEF IInv, Types
<1>2. \A d \in Clients, i \in Made : Has(d, i)' => Has(d, i)
  BY DEF Has
<1>3. WalkOK'
  BY <1>2, WalksAsBefore DEF IInv, Types
<1>4. QED
  BY <1>1, <1>3

(* the caller's record moves on, or is gone *)
LEMMA CallMoves ==
  ASSUME IInv, UNCHANGED <<box, kept, sent>>, NEW t \in Threads,
         NEW at \in {"woken", "timedout"}, call[t].at # "idle",
         call' = [call EXCEPT ![t].at = at]
  PROVE  /\ CallOK' /\ WalkOK' /\ call'[t].at = at
         /\ \A u \in Threads \ {t} : call'[u] = call[u]
<1> DEFINE new == [call[t] EXCEPT !.at = at]
<1>1. call[t] \in CallRecords
  BY DEF IInv, Types, CallOK
<1>2. new \in CallRecords /\ new.at = at /\ new.id = call[t].id
  BY <1>1 DEF CallRecords, Steps
<1>3. call' = [call EXCEPT ![t] = new]
  OBVIOUS
<1> HIDE DEF new
<1>4. Becomes(t, new)
  BY <1>2, <1>3 DEF Becomes
<1>5. QED
  BY <1>2, <1>4, NothingPosted

LEMMA CallEnds ==
  ASSUME IInv, UNCHANGED <<box, kept, sent>>, NEW t \in Threads,
         call' = [call EXCEPT ![t] = Idle]
  PROVE  /\ CallOK' /\ WalkOK' /\ call'[t].at = "idle"
         /\ \A u \in Threads \ {t} : call'[u] = call[u]
<1>1. calls \in Nat
  BY DpClientAssumption DEF IInv, Types, SentOK
<1>2. Idle \in CallRecords /\ Idle.at = "idle"
  BY <1>1, ListIsFinite DEF Idle, CallRecords, Steps
<1>3. Becomes(t, Idle)
  BY <1>2 DEF Becomes
<1>4. QED
  BY <1>2, <1>3, NothingPosted

-----------------------------------------------------------------------------
(* Steps of a walk. *)

(* the walk goes on behind the client it looked at *)
LEMMA WalkGoes ==
  ASSUME IInv, NEW t \in Threads, Walks(t), call[t].next <= Len(dpclients_),
         call' = [call EXCEPT ![t].next = @ + 1]
  PROVE  /\ Becomes(t, [call[t] EXCEPT !.next = call[t].next + 1])
         /\ [call[t] EXCEPT !.next = call[t].next + 1].at = call[t].at
<1> DEFINE new == [call[t] EXCEPT !.next = call[t].next + 1]
<1>1. call[t] \in CallRecords /\ call[t].next >= 1
  BY DEF IInv, Types, CallOK
<1>2. call[t].next \in 0 .. Len(dpclients_) + 1
  BY <1>1 DEF CallRecords
<1>3. call[t].next + 1 \in 0 .. Len(dpclients_) + 1 /\ call[t].next + 1 >= 1
  BY <1>1, <1>2, ListIsFinite
<1>4. /\ new \in CallRecords /\ new.at = call[t].at /\ new.id = call[t].id
      /\ new.next >= 1
  BY <1>1, <1>3 DEF CallRecords
<1>5. call' = [call EXCEPT ![t] = new]
  OBVIOUS
<1> HIDE DEF new
<1>6. Becomes(t, new) /\ new.at = call[t].at
  BY <1>4, <1>5 DEF Becomes, Walks
<1>7. QED
  BY <1>6 DEF new

LEMMA PassOverStep ==
  ASSUME IInv, NEW t \in Threads, PassOver(t)
  PROVE  IInv'
<1> DEFINE new == [call[t] EXCEPT !.next = call[t].next + 1]
<1>1. /\ Walks(t) /\ call[t].next <= Len(dpclients_)
      /\ call' = [call EXCEPT ![t].next = @ + 1]
      /\ UNCHANGED <<method_set_, box, kept, signaled_, sent, changes, answers>>
  BY DEF PassOver
<1>2. Becomes(t, new) /\ new.at = call[t].at
  BY <1>1, WalkGoes
<1> HIDE DEF new
<1>3. SentOK' /\ BoxOK' /\ OneClientHears' /\ Made' = Made
  BY <1>1, SameBoxes
<1>4. /\ CallOK' /\ WalkOK' /\ call'[t] = new
      /\ \A u \in Threads \ {t} : call'[u] = call[u]
  BY <1>1, <1>2, NothingPosted
<1>5. AnswerOK'
  BY <1>1, <1>3 DEF IInv, Types, AnswerOK, answers
<1>6. WokenIsSignalled'
  BY <1>1, <1>2, <1>4 DEF IInv, WokenIsSignalled, Alone
<1>7. OneReplyOneSuccess'
  BY <1>1, SameBounds DEF IInv, answers, sent
<1>8. QED
  BY <1>3, <1>4, <1>5, <1>6, <1>7 DEF IInv, Types

LEMMA WalkOverStep ==
  ASSUME IInv, NEW t \in Threads, WalkOver(t)
  PROVE  IInv'
<1>1. /\ call' = [call EXCEPT ![t] = Idle]
      /\ UNCHANGED <<method_set_, box, kept, signaled_, sent, answers>>
  BY DEF WalkOver
<1>2. SentOK' /\ BoxOK' /\ OneClientHears' /\ Made' = Made
  BY <1>1, SameBoxes
<1>3. /\ CallOK' /\ WalkOK' /\ call'[t].at = "idle"
      /\ \A u \in Threads \ {t} : call'[u] = call[u]
  BY <1>1, CallEnds
<1>4. AnswerOK'
  BY <1>1, <1>2 DEF IInv, Types, AnswerOK, answers
<1>5. WokenIsSignalled'
  BY <1>1, <1>3 DEF IInv, WokenIsSignalled, Alone
<1>6. OneReplyOneSuccess'
  BY <1>1, SameBounds DEF IInv, answers, sent
<1>7. QED
  BY <1>2, <1>3, <1>4, <1>5, <1>6 DEF IInv, Types

(* what is posted has the number of the walk, and goes to one box *)
LEMMA PostedEffect ==
  ASSUME IInv, NEW d \in Clients, NEW id \in Made,
         box' = [box EXCEPT ![d] = Append(@, id)], UNCHANGED <<kept, sent>>
  PROVE  /\ BoxOK'
         /\ \A e \in Clients : \A i : Has(e, i)' => Has(e, i) \/ (e = d /\ i = id)
<1>1. Made' = Made
  BY DEF sent, Made
<1>2. box \in [Clients -> Seq(Made)] /\ kept \in [Clients -> SUBSET Made]
  BY DEF IInv, Types, BoxOK
<1>3. /\ Append(box[d], id) \in Seq(Made)
      /\ Range(Append(box[d], id)) \subseteq Range(box[d]) \union {id}
  BY <1>2, RangeOfAppend
<1>4. /\ box' \in [Clients -> Seq(Made)] /\ box'[d] = Append(box[d], id)
      /\ \A e \in Clients \ {d} : box'[e] = box[e]
  BY <1>2, <1>3
<1>5. BoxOK'
  BY <1>1, <1>2, <1>4 DEF BoxOK
<1>6. ASSUME NEW e \in Clients, NEW i, Has(e, i)', ~Has(e, i)
      PROVE  e = d /\ i = id
  <2>1. CASE e = d
    BY <1>3, <1>4, <1>6, <2>1 DEF Has
  <2>2. CASE e # d
    BY <1>4, <1>6, <2>2 DEF Has
  <2>3. QED
    BY <2>1, <2>2
<1>7. QED
  BY <1>5, <1>6

(* a request that was heard waits, a message goes on *)
LEMMA HeardEffect ==
  ASSUME IInv, NEW t \in Threads, Walks(t), call[t].next <= Len(dpclients_),
         call' = Heard(t)
  PROVE  \E new : Becomes(t, new) /\ new.at \in {"waits", "tells"}
<1>1. CASE call[t].at = "asks"
  <2> DEFINE new == [call[t] EXCEPT !.at = "waits", !.next = 0]
  <2>1. call[t] \in CallRecords /\ call \in [Threads -> CallRecords]
    BY DEF IInv, Types, CallOK
  <2>2. 0 \in 0 .. Len(dpclients_) + 1
    BY ListIsFinite
  <2>3. new \in CallRecords /\ new.at = "waits" /\ new.id = call[t].id
    BY <2>1, <2>2 DEF CallRecords, Steps
  <2>4. call' = [call EXCEPT ![t] = new]
    BY <1>1, <2>1 DEF Heard
  <2> HIDE DEF new
  <2>5. Becomes(t, new)
    BY <1>1, <2>3, <2>4 DEF Becomes
  <2>6. QED
    BY <2>3, <2>5
<1>2. CASE call[t].at # "asks"
  <2>1. call[t].at = "tells"
    BY <1>2 DEF Walks
  <2>2. call' = [call EXCEPT ![t].next = @ + 1]
    BY <1>2 DEF Heard
  <2>3. QED
    BY <2>1, <2>2, WalkGoes
<1>3. QED
  BY <1>1, <1>2

LEMMA PostStep ==
  ASSUME IInv, NEW t \in Threads, Post(t)
  PROVE  IInv'
<1> DEFINE d == NextClient(t)
           id == call[t].id
<1>1. /\ Walks(t) /\ call[t].next <= Len(dpclients_)
      /\ d # ClientOf[t]
      /\ box' = [box EXCEPT ![d] = Append(@, id)]
      /\ call' = Heard(t)
      /\ UNCHANGED <<method_set_, kept, signaled_, sent, changes, answers>>
  BY DEF Post, Listens
<1>2. call[t].at \in {"asks", "tells"} /\ id \in Made /\ from[id] = ClientOf[t]
  BY <1>1 DEF IInv, Types, CallOK, Walks
<1>3. d \in Clients
  <2>1. call[t] \in CallRecords /\ call[t].next >= 1
    BY <1>1 DEF IInv, Types, CallOK
  <2>2. call[t].next \in 0 .. Len(dpclients_) + 1
    BY <2>1 DEF CallRecords
  <2>3. call[t].next \in 1 .. Len(dpclients_)
    BY <1>1, <2>1, <2>2, ListIsFinite
  <2>4. dpclients_ \in Seq(Clients)
    BY DpClientAssumption DEF Clients
  <2>5. QED
    BY <2>3, <2>4, ElementOfSeq DEF NextClient
<1> HIDE DEF d
<1>4. PICK new : Becomes(t, new) /\ new.at \in {"waits", "tells"}
  BY <1>1, HeardEffect
<1>5. /\ BoxOK'
      /\ \A e \in Clients : \A i : Has(e, i)' => Has(e, i) \/ (e = d /\ i = id)
  BY <1>1, <1>2, <1>3, PostedEffect
<1>6. SentOK' /\ Made' = Made
  BY <1>1, SameSent DEF IInv, Types
<1>7. /\ CallOK' /\ call'[t] = new
      /\ \A u \in Threads \ {t} : call'[u] = call[u]
  BY <1>1, <1>4, CallBecomes DEF IInv, Types
<1>8. WalkOK'
  <2>1. \A e \in Clients, i \in Made :
          Has(e, i)' => \/ Has(e, i)
                        \/ i = call[t].id /\ call[t].at # "idle" /\ new.at # "asks"
    BY <1>2, <1>4, <1>5
  <2>2. QED
    BY <1>1, <1>4, <2>1, WalksAsBefore DEF IInv, Types
<1>9. OneClientHears'
  <2>1. ASSUME NEW i \in Ids, i \notin broadcasts, NEW e \in Clients, Has(e, i)'
        PROVE  e # from[i] /\ \A f \in Clients : Has(f, i)' => e = f
    <3>1. CASE i = id
      <4>1. call[t].at = "asks"
        BY <1>2, <2>1, <3>1 DEF IInv, WalkOK
      <4>2. \A f \in Clients : ~Has(f, id)
        BY <4>1 DEF IInv, WalkOK
      <4>3. \A f \in Clients : Has(f, i)' => f = d
        BY <1>5, <3>1, <4>2
      <4>4. QED
        BY <1>1, <1>2, <2>1, <3>1, <4>3
    <3>2. CASE i # id
      <4>1. \A f \in Clients : Has(f, i)' => Has(f, i)
        BY <1>5, <3>2
      <4>2. QED
        BY <2>1, <4>1 DEF IInv, OneClientHears, Has
    <3>3. QED
      BY <3>1, <3>2
  <2>2. from' = from /\ broadcasts' = broadcasts
    BY <1>1 DEF sent
  <2>3. QED
    BY <2>1, <2>2 DEF OneClientHears, Has
<1>10. AnswerOK'
  BY <1>1, <1>6 DEF IInv, Types, AnswerOK, answers
<1>11. WokenIsSignalled'
  <2>1. \A u \in Threads : call'[u].at = "woken" => call[u].at = "woken"
    BY <1>4, <1>7
  <2>2. QED
    BY <1>1, <2>1 DEF IInv, WokenIsSignalled, Alone
<1>12. OneReplyOneSuccess'
  BY <1>1, SameBounds DEF IInv, answers, sent
<1>13. QED
  BY <1>5, <1>6, <1>7, <1>8, <1>9, <1>10, <1>11, <1>12 DEF IInv, Types

-----------------------------------------------------------------------------
(* Steps that end a wait. *)
LEMMA WokenStep ==
  ASSUME IInv, NEW t \in Threads, Woken(t)
  PROVE  IInv'
<1>1. /\ call[t].at = "waits" /\ signaled_[ClientOf[t]]
      /\ call' = [call EXCEPT ![t].at = "woken"]
      /\ UNCHANGED <<method_set_, box, kept, signaled_, sent, answers>>
  BY DEF Woken
<1>2. SentOK' /\ BoxOK' /\ OneClientHears' /\ Made' = Made
  BY <1>1, SameBoxes
<1>3. CallOK' /\ WalkOK' /\ \A u \in Threads \ {t} : call'[u] = call[u]
  BY <1>1, CallMoves
<1>4. AnswerOK'
  BY <1>1, <1>2 DEF IInv, Types, AnswerOK, answers
<1>5. WokenIsSignalled'
  BY <1>1, <1>3 DEF IInv, WokenIsSignalled, Alone
<1>6. OneReplyOneSuccess'
  BY <1>1, SameBounds DEF IInv, answers, sent
<1>7. QED
  BY <1>2, <1>3, <1>4, <1>5, <1>6 DEF IInv, Types

LEMMA TimeOutStep ==
  ASSUME IInv, NEW t \in Threads, TimeOut(t)
  PROVE  IInv'
<1>1. /\ call[t].at = "waits"
      /\ call' = [call EXCEPT ![t].at = "timedout"]
      /\ UNCHANGED <<method_set_, box, kept, signaled_, sent, answers>>
  BY DEF TimeOut
<1>2. SentOK' /\ BoxOK' /\ OneClientHears' /\ Made' = Made
  BY <1>1, SameBoxes
<1>3. /\ CallOK' /\ WalkOK' /\ call'[t].at = "timedout"
      /\ \A u \in Threads \ {t} : call'[u] = call[u]
  BY <1>1, CallMoves
<1>4. AnswerOK'
  BY <1>1, <1>2 DEF IInv, Types, AnswerOK, answers
<1>5. WokenIsSignalled'
  BY <1>1, <1>3 DEF IInv, WokenIsSignalled, Alone
<1>6. OneReplyOneSuccess'
  BY <1>1, SameBounds DEF IInv, answers, sent
<1>7. QED
  BY <1>2, <1>3, <1>4, <1>5, <1>6 DEF IInv, Types

LEMMA ReturnInterruptedStep ==
  ASSUME IInv, NEW t \in Threads, ReturnInterrupted(t)
  PROVE  IInv'
<1>1. /\ call' = [call EXCEPT ![t] = Idle]
      /\ UNCHANGED <<method_set_, box, kept, signaled_, sent, answers>>
  BY DEF ReturnInterrupted
<1>2. SentOK' /\ BoxOK' /\ OneClientHears' /\ Made' = Made
  BY <1>1, SameBoxes
<1>3. /\ CallOK' /\ WalkOK' /\ call'[t].at = "idle"
      /\ \A u \in Threads \ {t} : call'[u] = call[u]
  BY <1>1, CallEnds
<1>4. AnswerOK'
  BY <1>1, <1>2 DEF IInv, Types, AnswerOK, answers
<1>5. WokenIsSignalled'
  BY <1>1, <1>3 DEF IInv, WokenIsSignalled, Alone
<1>6. OneReplyOneSuccess'
  BY <1>1, SameBounds DEF IInv, answers, sent
<1>7. QED
  BY <1>2, <1>3, <1>4, <1>5, <1>6 DEF IInv, Types

(* the pipe is emptied: whoever else is woken uses another client *)
LEMMA EmptiedPipe ==
  ASSUME IInv, NEW t \in Threads,
         signaled_' = [signaled_ EXCEPT ![ClientOf[t]] = FALSE],
         call'[t].at = "idle", \A u \in Threads \ {t} : call'[u] = call[u]
  PROVE  WokenIsSignalled'
<1> SUFFICES ASSUME NEW u \in Threads, call'[u].at = "woken", Alone(ClientOf[u])
             PROVE  signaled_'[ClientOf[u]]
  BY DEF WokenIsSignalled, Alone
<1>1. u # t /\ call'[u] = call[u]
  OBVIOUS
<1>2. ClientOf[u] # ClientOf[t]
  BY <1>1, AloneMeans
<1>3. ClientOf[u] \in Clients
  BY DpClientAssumption DEF Clients
<1>4. signaled_[ClientOf[u]]
  BY <1>1 DEF IInv, WokenIsSignalled
<1>5. QED
  BY <1>2, <1>3, <1>4 DEF IInv, Types, AnswerOK

LEMMA ReturnTimeoutStep ==
  ASSUME IInv, NEW t \in Threads, ReturnTimeout(t)
  PROVE  IInv'
<1>1. /\ call' = [call EXCEPT ![t] = Idle]
      /\ signaled_' = [signaled_ EXCEPT ![ClientOf[t]] = FALSE]
      /\ UNCHANGED <<method_set_, box, kept, sent, answers>>
  BY DEF ReturnTimeout
<1>2. SentOK' /\ BoxOK' /\ OneClientHears' /\ Made' = Made
  BY <1>1, SameBoxes
<1>3. /\ CallOK' /\ WalkOK' /\ call'[t].at = "idle"
      /\ \A u \in Threads \ {t} : call'[u] = call[u]
  BY <1>1, CallEnds
<1>4. AnswerOK'
  BY <1>1, <1>2 DEF IInv, Types, AnswerOK, answers
<1>5. WokenIsSignalled'
  BY <1>1, <1>3, EmptiedPipe
<1>6. ASSUME NEW d \in Clients, Alone(d) PROVE Bound(d)'
  <2>1. Successes(d)' = Successes(d) /\ replies' = replies
    BY <1>1 DEF Successes, answers, sent
  <2>2. /\ Cardinality(Successes(d)) \in Nat
        /\ Bound(d)
        /\ replies[d] \in Nat
    BY <1>6, SuccessesFinite, BoundsMean DEF IInv, Types, AnswerOK
  <2>3. signaled_'[d] => signaled_[d]
    BY <1>1 DEF IInv, Types, AnswerOK
  <2>4. QED
    BY <2>1, <2>2, <2>3 DEF Bound
<1>7. OneReplyOneSuccess'
  BY <1>6, BoundsMeanNext
<1>8. QED
  BY <1>2, <1>3, <1>4, <1>5, <1>7 DEF IInv, Types

(* the signal of the only thread of a client goes into its success *)
LEMMA SignalledStep ==
  ASSUME IInv, NEW t \in Threads, Signalled(t)
  PROVE  IInv'
<1> DEFINE c == ClientOf[t]
           id == call[t].id
<1>1. /\ call[t].at = "woken"
      /\ call' = [call EXCEPT ![t] = Idle]
      /\ signaled_' = [signaled_ EXCEPT ![c] = FALSE]
      /\ succeeded' = succeeded \union {id}
      /\ UNCHANGED <<method_set_, box, kept, sent, replies, replied>>
  BY DEF Signalled
<1>2. id \in Made /\ from[id] = c /\ c \in Clients
  BY <1>1, DpClientAssumption DEF IInv, Types, CallOK, Clients
<1>3. SentOK' /\ BoxOK' /\ OneClientHears' /\ Made' = Made
  BY <1>1, SameBoxes
<1>4. /\ CallOK' /\ WalkOK' /\ call'[t].at = "idle"
      /\ \A u \in Threads \ {t} : call'[u] = call[u]
  BY <1>1, CallEnds
<1>5. AnswerOK'
  BY <1>1, <1>2, <1>3 DEF IInv, Types, AnswerOK
<1>6. WokenIsSignalled'
  BY <1>1, <1>4, EmptiedPipe
<1>7. ASSUME NEW d \in Clients, Alone(d) PROVE Bound(d)'
  <2>1. /\ IsFiniteSet(Successes(d)) /\ Cardinality(Successes(d)) \in Nat
        /\ Bound(d)
        /\ replies[d] \in Nat
    BY <1>7, SuccessesFinite, BoundsMean DEF IInv, Types, AnswerOK
  <2>2. CASE d = c
    <3>1. signaled_[d]
      BY <1>1, <1>7, <2>2 DEF IInv, WokenIsSignalled
    <3>2. Successes(d)' = Successes(d) \union {id}
      BY <1>1, <1>2, <2>2 DEF Successes, sent
    <3>3. Cardinality(Successes(d) \union {id}) \in
            {Cardinality(Successes(d)), Cardinality(Successes(d)) + 1}
      BY <2>1, FS_AddElement
    <3>4. ~signaled_'[d]
      BY <1>1, <2>2 DEF IInv, Types, AnswerOK
    <3>5. Cardinality(Successes(d)) + 1 <= replies[d]
      BY <2>1, <3>1 DEF Bound
    <3>6. Cardinality(Successes(d) \union {id}) + 0 <= replies[d]
      BY <2>1, <3>3, <3>5
    <3>7. QED
      BY <1>1, <3>2, <3>4, <3>6 DEF Bound
  <2>3. CASE d # c
    <3>1. Successes(d)' = Successes(d)
      BY <1>1, <1>2, <2>3 DEF Successes, sent
    <3>2. signaled_'[d] = signaled_[d]
      BY <1>1, <2>3 DEF IInv, Types, AnswerOK
    <3>3. QED
      BY <1>1, <2>1, <3>1, <3>2 DEF Bound
  <2>4. QED
    BY <2>2, <2>3
<1>8. OneReplyOneSuccess'
  BY <1>7, BoundsMeanNext
<1>9. QED
  BY <1>3, <1>4, <1>5, <1>6, <1>8 DEF IInv, Types

-----------------------------------------------------------------------------
(* Steps of the other side. *)
LEMMA SameCalls ==
  ASSUME IInv, UNCHANGED <<call, sent>>
  PROVE  SentOK' /\ CallOK' /\ Made' = Made
<1>1. SentOK' /\ Made' = Made
  BY SameSent DEF IInv, Types
<1>2. CallOK'
  BY <1>1 DEF IInv, Types, CallOK, CallRecords, Walks, sent
<1>3. QED
  BY <1>1, <1>2

LEMMA SameWalks ==
  ASSUME IInv, UNCHANGED <<call, sent>>,
         \A d \in Clients, i \in Made : Has(d, i)' => Has(d, i)
  PROVE  WalkOK'
<1>1. \A t \in Threads : call[t].at # "idle" => call[t].id \in Made
  BY DEF IInv, Types, CallOK
<1>2. ASSUME NEW t \in Threads, call[t].at = "asks", NEW d \in Clients
      PROVE  ~Has(d, call[t].id)'
  <2>1. call[t].id \in Made /\ ~Has(d, call[t].id)
    BY <1>1, <1>2 DEF IInv, WalkOK
  <2>2. QED
    BY <2>1 DEF Has
<1>3. QED
  BY <1>2 DEF IInv, WalkOK, sent, Has

LEMMA MadeAreIds ==
  ASSUME IInv
  PROVE  Made \subseteq Ids
<1>1. calls \in 0 .. MaxCalls /\ MaxCalls \in Nat
  BY DpClientAssumption DEF IInv, Types, SentOK
<1>2. QED
  BY <1>1 DEF Made, Ids

LEMMA ChangeStep ==
  ASSUME IInv, NEW d \in Clients, Change(d)
  PROVE  IInv'
<1>1. /\ method_set_' = [method_set_ EXCEPT ![d] = ~method_set_[d]]
      /\ UNCHANGED <<box, kept, signaled_, call, sent, answers>>
  BY DEF Change
<1>2. SentOK' /\ BoxOK' /\ OneClientHears' /\ CallOK' /\ Made' = Made
  BY <1>1, SameBoxes, SameCalls
<1>w. WalkOK'
  BY <1>1, SameWalks DEF Has
<1>3. method_set_' \in [Clients -> BOOLEAN]
  BY <1>1 DEF IInv, Types, AnswerOK
<1>4. AnswerOK'
  BY <1>1, <1>2, <1>3 DEF IInv, Types, AnswerOK, answers
<1>5. WokenIsSignalled'
  BY <1>1 DEF IInv, WokenIsSignalled, Alone
<1>6. OneReplyOneSuccess'
  BY <1>1, SameBounds DEF IInv, answers, sent
<1>7. QED
  BY <1>2, <1>w, <1>4, <1>5, <1>6 DEF IInv, Types

LEMMA OnMessageStep ==
  ASSUME IInv, NEW d \in Clients, OnMessage(d)
  PROVE  IInv'
<1>1. /\ box[d] # <<>>
      /\ box' = [box EXCEPT ![d] = Tail(box[d])]
      /\ kept' = [kept EXCEPT ![d] = kept[d] \union {Head(box[d])}]
      /\ UNCHANGED <<method_set_, signaled_, call, sent, answers>>
  BY DEF OnMessage
<1>2. SentOK' /\ CallOK' /\ Made' = Made
  BY <1>1, SameCalls
<1>3. /\ box \in [Clients -> Seq(Made)] /\ kept \in [Clients -> SUBSET Made]
      /\ Tail(box[d]) \in Seq(Made) /\ Range(Tail(box[d])) \subseteq Range(box[d])
      /\ Head(box[d]) \in Made /\ Head(box[d]) \in Range(box[d])
  BY <1>1, RangeOfTail DEF IInv, Types, BoxOK
<1>4. BoxOK'
  <2>1. box' \in [Clients -> Seq(Made)]
    BY <1>1, <1>3
  <2>2. kept' \in [Clients -> SUBSET Made]
    BY <1>1, <1>3
  <2>3. QED
    BY <1>2, <2>1, <2>2 DEF BoxOK
<1>5. ASSUME NEW e \in Clients, NEW id \in Ids, Has(e, id)' PROVE Has(e, id)
  <2>1. CASE e = d
    <3>1. box'[e] = Tail(box[d]) /\ kept'[e] = kept[d] \union {Head(box[d])}
      BY <1>1, <1>3, <2>1
    <3>2. QED
      BY <1>3, <1>5, <2>1, <3>1 DEF Has
  <2>2. CASE e # d
    <3>1. box'[e] = box[e] /\ kept'[e] = kept[e]
      BY <1>1, <1>3, <2>2
    <3>2. QED
      BY <1>5, <3>1 DEF Has
  <2>3. QED
    BY <2>1, <2>2
<1>6. OneClientHears'
  BY <1>1, <1>5, HearsLess DEF IInv
<1>w. WalkOK'
  BY <1>1, <1>5, SameWalks, MadeAreIds
<1>7. AnswerOK'
  BY <1>1, <1>2 DEF IInv, Types, AnswerOK, answers
<1>8. WokenIsSignalled'
  BY <1>1 DEF IInv, WokenIsSignalled, Alone
<1>9. OneReplyOneSuccess'
  BY <1>1, SameBounds DEF IInv, answers, sent
<1>10. QED
  BY <1>2, <1>4, <1>6, <1>w, <1>7, <1>8, <1>9 DEF IInv, Types

LEMMA SendDpReplyStep ==
  ASSUME IInv, NEW d \in Clients, NEW id \in Ids, SendDpReply(d, id)
  PROVE  IInv'
<1> DEFINE c == from[id]
<1>1. /\ id \in kept[d]
      /\ kept' = [kept EXCEPT ![d] = kept[d] \ {id}]
      /\ signaled_' = [signaled_ EXCEPT ![c] = TRUE]
      /\ replies' = [replies EXCEPT ![c] = replies[c] + 1]
      /\ replied' = replied \union ({id} \ broadcasts)
      /\ UNCHANGED <<method_set_, box, call, sent, succeeded>>
  BY DEF SendDpReply
<1>2. id \in Made /\ kept \in [Clients -> SUBSET Made]
  BY <1>1 DEF IInv, Types, BoxOK
<1>3. c \in Clients
  BY <1>2, ElementOfSeq DEF IInv, Types, SentOK, Made
<1>4. SentOK' /\ CallOK' /\ Made' = Made
  BY <1>1, SameCalls
<1>5. kept' \in [Clients -> SUBSET Made] /\ \A e \in Clients : kept'[e] \subseteq kept[e]
  BY <1>1, <1>2
<1>6. BoxOK'
  BY <1>1, <1>4, <1>5 DEF IInv, Types, BoxOK
<1>7. OneClientHears'
  BY <1>1, <1>5, HearsLess DEF IInv, Has
<1>w. WalkOK'
  <2>1. \A e \in Clients, i \in Made : Has(e, i)' => Has(e, i)
    BY <1>1, <1>5 DEF Has
  <2>2. QED
    BY <1>1, <2>1, SameWalks
<1> HIDE DEF c
<1>8. AnswerOK'
  <2>1. replies' \in [Clients -> Nat]
    BY <1>1, <1>3 DEF IInv, Types, AnswerOK
  <2>2. signaled_' \in [Clients -> BOOLEAN]
    BY <1>1, <1>3 DEF IInv, Types, AnswerOK
  <2>3. QED
    BY <1>1, <1>2, <1>4, <2>1, <2>2 DEF IInv, Types, AnswerOK
<1>9. WokenIsSignalled'
  <2>1. \A e \in Clients : signaled_[e] => signaled_'[e]
    BY <1>1 DEF IInv, Types, AnswerOK
  <2>2. \A u \in Threads : ClientOf[u] \in Clients
    BY DpClientAssumption DEF Clients
  <2>3. QED
    BY <1>1, <2>1, <2>2 DEF IInv, WokenIsSignalled, Alone
<1>10. ASSUME NEW e \in Clients, Alone(e) PROVE Bound(e)'
  <2>1. Successes(e)' = Successes(e)
    BY <1>1 DEF Successes, sent
  <2>2. /\ Cardinality(Successes(e)) \in Nat
        /\ Bound(e)
        /\ replies[e] \in Nat
    BY <1>10, SuccessesFinite, BoundsMean DEF IInv, Types, AnswerOK
  <2>3. CASE e = c
    <3>1. replies'[e] = replies[e] + 1
      BY <1>1, <2>3 DEF IInv, Types, AnswerOK
    <3>2. Cardinality(Successes(e)) <= replies[e]
      BY <2>2 DEF Bound
    <3>3. QED
      BY <2>1, <2>2, <3>1, <3>2 DEF Bound
  <2>4. CASE e # c
    <3>1. replies'[e] = replies[e] /\ signaled_'[e] = signaled_[e]
      BY <1>1, <2>4 DEF IInv, Types, AnswerOK
    <3>2. QED
      BY <2>1, <2>2, <3>1 DEF Bound
  <2>5. QED
    BY <2>3, <2>4
<1>11. OneReplyOneSuccess'
  BY <1>10, BoundsMeanNext
<1>12. QED
  BY <1>4, <1>6, <1>7, <1>w, <1>8, <1>9, <1>11 DEF IInv, Types

-----------------------------------------------------------------------------
(* Theorems. *)
LEMMA InitIInv == Init => IInv
<1> SUFFICES ASSUME Init PROVE IInv
  OBVIOUS
<1>1. <<>> \in Seq(Clients) /\ Len(<<>>) = 0 /\ <<>> \in Seq(Made)
  BY EmptySeq
<1>2. SentOK
  BY <1>1, DpClientAssumption DEF Init, SentOK
<1>3. BoxOK
  BY <1>1 DEF Init, BoxOK
<1>4. CallOK
  <2>1. Idle \in CallRecords /\ Idle.at = "idle"
    <3>1. 0 \in 0 .. calls /\ 0 \in 0 .. Len(dpclients_) + 1
      BY ListIsFinite DEF Init
    <3>2. QED
      BY <3>1 DEF Idle, CallRecords, Steps
  <2>2. call \in [Threads -> CallRecords] /\ \A t \in Threads : call[t].at = "idle"
    BY <2>1 DEF Init
  <2>3. QED
    BY <2>2 DEF CallOK, Walks
<1>w. WalkOK
  BY DEF Init, WalkOK, Idle
<1>5. AnswerOK
  BY DEF Init, AnswerOK
<1>6. Types
  BY <1>2, <1>3, <1>4, <1>5 DEF Types
<1>7. OneClientHears
  <2>1. ASSUME NEW d \in Clients, NEW id \in Ids PROVE ~Has(d, id)
    <3>1. calls = 0
      BY DEF Init
    <3>2. Made = {}
      BY <3>1 DEF Made
    <3>3. QED
      BY <1>3, <3>2, NewIsNowhere
  <2>2. QED
    BY <2>1 DEF OneClientHears, Has
<1>8. WokenIsSignalled
  BY DEF Init, WokenIsSignalled, Idle
<1>9. ASSUME NEW d \in Clients PROVE Bound(d)
  <2>1. Successes(d) = {} /\ ~signaled_[d] /\ replies[d] = 0
    BY DEF Init, Successes
  <2>2. Cardinality(Successes(d)) = 0
    BY <2>1, FS_EmptySet
  <2>3. QED
    BY <2>1, <2>2 DEF Bound
<1>10. OneReplyOneSuccess
  BY <1>9, BoundsMean
<1>11. QED
  BY <1>6, <1>w, <1>7, <1>8, <1>10 DEF IInv

LEMMA NextIInv == IInv /\ [Next]_vars => IInv'
<1> SUFFICES ASSUME IInv, [Next]_vars PROVE IInv'
  OBVIOUS
<1>1. CASE UNCHANGED vars
  <2>1. UNCHANGED <<box, kept, sent, call, method_set_, signaled_, answers>>
    BY <1>1 DEF vars, sent, answers
  <2>2. SentOK' /\ BoxOK' /\ OneClientHears' /\ CallOK' /\ Made' = Made
    BY <2>1, SameBoxes, SameCalls
  <2>w. WalkOK'
    BY <2>1, SameWalks DEF Has
  <2>3. AnswerOK' /\ WokenIsSignalled'
    BY <2>1, <2>2 DEF IInv, Types, AnswerOK, answers, WokenIsSignalled, Alone
  <2>4. OneReplyOneSuccess'
    BY <2>1, SameBounds DEF IInv, answers, sent
  <2>5. QED
    BY <2>2, <2>w, <2>3, <2>4 DEF IInv, Types
<1>2. CASE Next
  BY <1>2, ChangeStep, OnMessageStep, SendDpReplyStep, RequestStep,
     MessageStep, PostStep, PassOverStep, WalkOverStep, WokenStep,
     SignalledStep, TimeOutStep, ReturnTimeoutStep, ReturnInterruptedStep
     DEF Next, WalkOn, WaitEnds
<1>3. QED
  BY <1>1, <1>2

LEMMA IInvType == IInv => TypeOK
<1> SUFFICES ASSUME IInv PROVE TypeOK
  OBVIOUS
<1>1. calls \in 0 .. MaxCalls /\ MaxCalls \in Nat
  BY DpClientAssumption DEF IInv, Types, SentOK
<1>2. Made \subseteq Ids /\ 0 .. calls \subseteq 0 .. MaxCalls
  BY <1>1 DEF Made, Ids
<1>3. \A d \in Clients : box[d] \in Seq(Ids) /\ kept[d] \subseteq Ids
  <2>1. ASSUME NEW d \in Clients PROVE box[d] \in Seq(Ids)
    BY <1>2, SeqMonotonic DEF IInv, Types, BoxOK
  <2>2. QED
    BY <1>2, <2>1 DEF IInv, Types, BoxOK
<1>4. call \in [Threads ->
        [at: Steps, id: 0 .. MaxCalls, next: 0 .. Len(dpclients_) + 1]]
  <2>1. CallRecords \subseteq
          [at: Steps, id: 0 .. MaxCalls, next: 0 .. Len(dpclients_) + 1]
    BY <1>2 DEF CallRecords
  <2>2. QED
    BY <2>1 DEF IInv, Types, CallOK
<1>5. QED
  BY <1>2, <1>3, <1>4 DEF TypeOK, IInv, Types, SentOK, CallOK, AnswerOK, Steps

LEMMA InvariantHolds == Spec => []IInv
  BY InitIInv, NextIInv, PTL DEF Spec

(* Every variable holds a value the code could hold. *)
THEOREM TypesHold == Spec => []TypeOK
  BY InvariantHolds, IInvType, PTL

(* A request is posted to one client only, and never to its sender         *)
(* (DpClientManager::ProcessDpRequest), whoever starts or stops listening. *)
THEOREM RequestsHaveOneHearer == Spec => []OneClientHears
<1>1. IInv => OneClientHears
  BY DEF IInv
<1>2. QED
  BY <1>1, InvariantHolds, PTL

(* For a client that one thread uses, no reply makes two requests return   *)
(* true, whatever times out or is interrupted (SignalEvent::WaitSignal).   *)
THEOREM RepliesAreSpentOnce == Spec => []OneReplyOneSuccess
<1>1. IInv => OneReplyOneSuccess
  BY DEF IInv
<1>2. QED
  BY <1>1, InvariantHolds, PTL
=============================================================================
