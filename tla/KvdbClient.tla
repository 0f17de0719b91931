----------------------------- MODULE KvdbClient -----------------------------
(***************************************************************************)
(* Blocking calls to the cache server: KvdbClientImpl                      *)
(* (filecache/kvdb/kvdbclient.cpp) and CacheClientImpl::Read on one side,  *)
(* CacheServer's handlers (filecache/server/cacheserver.cpp) on the other, *)
(* and the SignalEvent between them (eventservice/event/signalevent.cpp).  *)
(*                                                                         *)
(* A call posts a request that both sides share and waits for the client's *)
(* one signal, for so long and no longer.  The server answers every        *)
(* request, also one whose caller has given up, so that a signal can be    *)
(* for an earlier request than the one waited for.  SetKey, GetKey,        *)
(* DeleteKey, BackupDatabase and RestoreDatabase differ only in what the   *)
(* server executes, which is not modelled here.                            *)
(***************************************************************************)
EXTENDS Naturals, Sequences, SequencesExt

CONSTANTS
  Clients,    \* client objects, each with a lock and a signal of its own
  Callers,    \* threads
  ClientOf,   \* ClientOf[t]: the client that thread t calls
  None,
  MaxCalls    \* bound on the calls made

ASSUME KvdbClientAssumption ==
  /\ ClientOf \in [Callers -> Clients]
  /\ None \notin Callers
  /\ MaxCalls \in Nat

VARIABLES
  crit_,      \* crit_[c]: the caller inside client c
  signaled_,  \* signaled_[c]: the pipe of c's signal_event_ holds a signal
  pc,         \* pc[t]: where caller t is in its call
  mine,       \* mine[t]: the request of caller t's current call
  begun,      \* calls begun so far
  calls,      \* calls that got the lock so far: requests are numbered from 1
  queue,      \* the server's message queue
  data,       \* data[i]: the KvdbData of request i: its client and its res
  server,     \* what the server's thread is doing, with which request
  executed,   \* requests executed by a KvdbService, in that order
  done,       \* the requests of those for which it returned KVDB_ERR_OK
  answered,   \* requests whose signal was triggered
  succeeded   \* requests whose call returned KVDB_SUCCEED

vars == <<crit_, signaled_, pc, mine, begun, calls, queue, data, server, executed,
          done, answered, succeeded>>
callerVars == <<crit_, pc, mine, begun, calls, succeeded>>
serverVars == <<server, executed, done, answered>>

Requests == 1 .. MaxCalls
Idle == [at |-> "idle", id |-> 0]

Init ==
  /\ crit_ = [c \in Clients |-> None]
  /\ signaled_ = [c \in Clients |-> FALSE]
  /\ pc = [t \in Callers |-> "idle"]
  /\ mine = [t \in Callers |-> 0]
  /\ begun = 0
  /\ calls = 0
  /\ queue = <<>>
  /\ data = [i \in Requests |-> [client |-> None, res |-> "timeout"]]
  /\ server = Idle
  /\ executed = <<>>
  /\ done = {}
  /\ answered = {}
  /\ succeeded = {}

-----------------------------------------------------------------------------
(* The caller. *)

Goto(t, at) == pc' = [pc EXCEPT ![t] = at]

Call(t) ==
  /\ pc[t] = "idle"
  /\ begun < MaxCalls
  /\ begun' = begun + 1
  /\ Goto(t, "enter")
  /\ UNCHANGED <<crit_, signaled_, mine, calls, queue, data, serverVars, succeeded>>

(* a mutant: the lock is not taken (as in DpClientImpl::SendDpRequest) *)
EnterUnlocked(t) ==
  /\ pc[t] = "enter"
  /\ crit_' = [crit_ EXCEPT ![ClientOf[t]] = t]
  /\ calls' = calls + 1
  /\ mine' = [mine EXCEPT ![t] = calls + 1]
  /\ Goto(t, "post")
  /\ UNCHANGED <<signaled_, begun, queue, data, serverVars, succeeded>>

(* CritScope cr(&crit_), held until the call returns *)
Enter(t) ==
  /\ pc[t] = "enter"
  /\ crit_[ClientOf[t]] = None
  /\ crit_' = [crit_ EXCEPT ![ClientOf[t]] = t]
  /\ calls' = calls + 1
  /\ mine' = [mine EXCEPT ![t] = calls + 1]
  /\ Goto(t, "post")
  /\ UNCHANGED <<signaled_, begun, queue, data, serverVars, succeeded>>

(* a mutant: a request overtakes those already queued *)
PostUrgently(t) ==
  /\ pc[t] = "post"
  /\ data' = [data EXCEPT ![mine[t]] = [client |-> ClientOf[t], res |-> "timeout"]]
  /\ queue' = <<mine[t]>> \o queue
  /\ Goto(t, "wait")
  /\ UNCHANGED <<crit_, signaled_, mine, begun, calls, serverVars, succeeded>>

(* res starts as CACHE_ERROR_TIMEOUT *)
Post(t) ==
  /\ pc[t] = "post"
  /\ data' = [data EXCEPT ![mine[t]] = [client |-> ClientOf[t], res |-> "timeout"]]
  /\ queue' = Append(queue, mine[t])
  /\ Goto(t, "wait")
  /\ UNCHANGED <<crit_, signaled_, mine, begun, calls, serverVars, succeeded>>

(* WaitSignal: select finds the pipe readable and ResetWakeEvent empties it *)
Signalled(t) ==
  /\ pc[t] = "wait"
  /\ signaled_[ClientOf[t]]
  /\ signaled_' = [signaled_ EXCEPT ![ClientOf[t]] = FALSE]
  /\ Goto(t, "check")
  /\ UNCHANGED <<crit_, mine, begun, calls, queue, data, serverVars, succeeded>>

(* select times out; a signal may still come before ResetWakeEvent *)
TimeOut(t) ==
  /\ pc[t] = "wait"
  /\ ~signaled_[ClientOf[t]]
  /\ Goto(t, "timedout")
  /\ UNCHANGED <<crit_, signaled_, mine, begun, calls, queue, data, serverVars, succeeded>>

Leave(t) ==
  /\ crit_' = [crit_ EXCEPT ![ClientOf[t]] = None]
  /\ mine' = [mine EXCEPT ![t] = 0]
  /\ Goto(t, "idle")

(* a mutant: the lock is kept on the way out *)
ReturnTimeoutLocked(t) ==
  /\ pc[t] = "timedout"
  /\ signaled_' = [signaled_ EXCEPT ![ClientOf[t]] = FALSE]
  /\ mine' = [mine EXCEPT ![t] = 0]
  /\ Goto(t, "idle")
  /\ UNCHANGED <<crit_, begun, calls, queue, data, serverVars, succeeded>>

ReturnTimeout(t) ==
  /\ pc[t] = "timedout"
  /\ signaled_' = [signaled_ EXCEPT ![ClientOf[t]] = FALSE]
  /\ Leave(t)
  /\ UNCHANGED <<begun, calls, queue, data, serverVars, succeeded>>

(* select is interrupted: SIGNAL_EVENT_FAILURE, and the pipe is left alone *)
ReturnInterrupted(t) ==
  /\ pc[t] = "wait"
  /\ Leave(t)
  /\ UNCHANGED <<signaled_, begun, calls, queue, data, serverVars, succeeded>>

(* a mutant: res is not looked at (as in DpClientImpl::SendDpRequest) *)
ReturnUnchecked(t) ==
  /\ pc[t] = "check"
  /\ succeeded' = succeeded \union {mine[t]}
  /\ Leave(t)
  /\ UNCHANGED <<signaled_, begun, calls, queue, data, serverVars>>

(* KVDB_SUCCEED if res is CACHE_DONE by now *)
Return(t) ==
  /\ pc[t] = "check"
  /\ succeeded' = succeeded \union
                    {i \in Requests : i = mine[t] /\ data[i].res = "done"}
  /\ Leave(t)
  /\ UNCHANGED <<signaled_, begun, calls, queue, data, serverVars>>

-----------------------------------------------------------------------------
(* The server's thread: OnMessage and the handler of the request. *)

Take ==
  /\ server = Idle
  /\ queue # <<>>
  /\ queue' = Tail(queue)
  /\ data' = [data EXCEPT ![Head(queue)].res = "failed"]
  /\ server' = [at |-> "execute", id |-> Head(queue)]
  /\ UNCHANGED <<callerVars, signaled_, executed, done, answered>>

(* the call of the KvdbService *)
Execute ==
  /\ server.at = "execute"
  /\ executed' = Append(executed, server.id)
  /\ \/ /\ done' = done \union {server.id}
        /\ server' = [server EXCEPT !.at = "report"]
     \/ /\ UNCHANGED done
        /\ server' = [server EXCEPT !.at = "trigger"]
  /\ UNCHANGED <<callerVars, signaled_, queue, data, answered>>

Report ==
  /\ server.at = "report"
  /\ data' = [data EXCEPT ![server.id].res = "done"]
  /\ server' = [server EXCEPT !.at = "trigger"]
  /\ UNCHANGED <<callerVars, signaled_, queue, executed, done, answered>>

(* a signal that is up already stays one signal *)
Trigger ==
  /\ server.at = "trigger"
  /\ signaled_' = [signaled_ EXCEPT ![data[server.id].client] = TRUE]
  /\ answered' = answered \union {server.id}
  /\ server' = Idle
  /\ UNCHANGED <<callerVars, queue, data, executed, done>>

-----------------------------------------------------------------------------
CallStep(t) ==
  \/ Post(t)
  \/ Signalled(t) \/ TimeOut(t)
  \/ ReturnTimeout(t) \/ ReturnInterrupted(t) \/ Return(t)

ServerStep == Take \/ Execute \/ Report \/ Trigger

Next ==
  \/ \E t \in Callers : Call(t) \/ Enter(t) \/ CallStep(t)
  \/ ServerStep

Spec == Init /\ [][Next]_vars

(* The server's thread runs, a wait ends at the latest when its time is    *)
(* up, and the lock is handed on.  Nothing makes a thread call.            *)
FairSpec ==
  /\ Spec
  /\ WF_vars(ServerStep)
  /\ \A t \in Callers : WF_vars(Enter(t)) /\ WF_vars(CallStep(t))

-----------------------------------------------------------------------------
Posted == Range(queue) \union Range(executed)
            \union (IF server.at = "execute" THEN {server.id} ELSE {})

(* Every variable holds a value the code could hold, and the lock of a     *)
(* client is held by the one caller that is inside a call.                 *)
TypeOK ==
  /\ signaled_ \in [Clients -> BOOLEAN]
  /\ pc \in [Callers -> {"idle", "enter", "post", "wait", "timedout", "check"}]
  /\ mine \in [Callers -> 0 .. MaxCalls]
  /\ begun \in 0 .. MaxCalls /\ calls \in 0 .. begun
  /\ queue \in Seq(Requests) /\ executed \in Seq(Requests)
  /\ data \in [Requests -> [client: Clients \union {None},
                            res: {"timeout", "failed", "done"}]]
  /\ server \in [at: {"idle", "execute", "report", "trigger"}, id: 0 .. MaxCalls]
  /\ done \subseteq Requests
  /\ answered \subseteq Requests
  /\ succeeded \subseteq Requests
  /\ crit_ \in [Clients -> Callers \union {None}]
  /\ \A t \in Callers : pc[t] \in {"idle", "enter"} <=> crit_[ClientOf[t]] # t

(* A call that reports success has had its own request executed with       *)
(* success, even if the signal it woke up to was for an earlier one.       *)
SuccessMeansExecuted == succeeded \subseteq done

(* No straggler: once a call has succeeded, no older request of the same   *)
(* client, given up by its caller, is still to be executed and could undo  *)
(* what the call did.                                                      *)
NoStragglers ==
  \A i \in succeeded, j \in Requests :
    j < i /\ j \in Posted /\ data[j].client = data[i].client
      => j \in Range(executed)

(* An answer cannot be missed: whoever still waits for a request that was  *)
(* answered has a signal to wake up to.                                    *)
AnswerWakesCaller ==
  \A t \in Callers :
    pc[t] = "wait" /\ mine[t] \in answered => signaled_[ClientOf[t]]

(* Every call returns, whatever became of earlier calls on the client. *)
EveryCallReturns == \A t \in Callers : pc[t] = "enter" ~> pc[t] = "idle"
=============================================================================
