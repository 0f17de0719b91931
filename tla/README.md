# Verification of the event service and the cache server

TLA+ models of the C++ libraries under `src/src/lib`: the event service
(`eventservice/`: message queues, threads, signals, a select loop, sockets, the
DP request protocol) and the cache server built on it (`filecache/`: a
key-value database, a file cache, blocking clients). The modules are written
from the code; file and line numbers below refer to it. TLC checks the models on
small instances, TLAPS proves some of the properties for every instance.

## 1. The system

### Components

| component | state | operations | correct when |
|---|---|---|---|
| **MessageQueue** (`event/messagequeue.*`) | `msgq_` (ready), `dmsgq_` (priority queue of delayed messages), `msgPeek_`/`fPeekKeep_`, `fStop_`, `crit_`, its `ss_` (a select loop) | `Post`, `PostDelayed`, `Get`, `Peek`, `Clear`, `Quit`, `Restart`, `Dispatch` | no message lost, duplicated or early; order kept; no wake-up lost |
| **MessageQueueManager** (same files) | the list of all queues; deletes itself with the last one | `Add`, `Remove`, `Clear` of a handler in all queues | nobody uses a deleted manager; no lock order cycle |
| **Thread** (`event/thread.*`) | a queue plus `sendlist_`, `has_sends_` | `Send` (synchronous call), `ReceiveSends`, `Clear`, `Run`, `Stop` | every `Send` returns, once its handler has run, also in circles of threads |
| **SignalEvent** (`event/signalevent.cpp`) | a pipe and the flag `signaled_` | `WaitSignal(timeout)`, `TriggerSignal` | a trigger is not lost; a wait ends |
| **NetworkService** (`net/networkservice.cpp`) | list of dispatchers, `fWait_`, wake-up pipe | `Wait`, `WakeUp`, `Add`, `Remove` | wake-ups outlast the way into `select`; handlers may add, remove and wait again |
| **KvdbService** (`filecache/server/kvdbservice.cpp`) | folder with one file per key, preallocated cache nodes of a few sizes, backup folder | `Replace`, `Remove`, `Seek`, `Backup`, `Restore`, `Clear` | cache, files and what callers were told agree, also after failures and crashes |
| **CacheServer** (`filecache/server/cacheserver.cpp`) | one thread, databases by name | a handler per request | each request answered once, with the truth |
| **KvdbClient**, **CacheClient** (`filecache/kvdb`, `filecache/cache`) | lock, one signal per client | blocking `SetKey`, `GetKey`, `DeleteKey`, `BackupDatabase`, `RestoreDatabase`, `Read`; unacknowledged `Write`, `Delete` | success is never reported for what did not happen; calls return |
| **CachedService**, **CachedStanzaPool** (`filecache/server/cacheservice.cpp`, `cachestanzapool.cpp`) | deque of stanzas, pool of free ones, saves posted to the own queue | `GetFile`, `SaveFile`, `RemoveFile`, postponed save, eviction | an accepted write is readable and reaches the flash; no stanza is reused while in use |
| **DpClient**, **DpClientManager** (`dp/dpclient.cpp`) | list of clients, per client a set of methods and a signal | `ListenMessage`, `SendDpMessage`, `SendDpRequest`, `SendDpReply` | one client answers a request; true means an answer |
| **AsyncSocket**, **AsyncPacketSocket**, **MemBuffer** (`net/`, `mem/`) | send and receive buffers, one-shot events | `AsyncWrite`, `AsyncRead`, `Close`, framing | bytes in order, packets whole, each event rearmed, no use after `Close` |
| HTTP, TLS, base library, application framework, DP over the network | | | see "not modelled" |

### Interactions

A *thread* is a message queue whose loop is `Get` and `Dispatch`. `Get` drains the
queue under `crit_` and sleeps in its `NetworkService::Wait`; whoever pushes
calls `WakeUp` before it leaves the lock, which writes a byte into the loop's
pipe unless one is there. `Send` pushes onto the receiver's `sendlist_`, wakes
it outside the lock and then waits in the *sender's* `NetworkService`, serving what others send
to it. `Wait` takes a dispatcher off its list before it calls the handler, which adds it again
when it wants more events; handlers run application code, which may use any socket and `Wait`. Clients of the cache server post a request that holds their
`SignalEvent` and wait on that; the server's thread runs the request and
triggers the signal. DP clients do the same to each other.

### What is hard

* wake-ups and flags that are read or written outside the lock (`has_sends_`,
  `fStop_`, `fWait_`, `*smsg.ready`),
* nesting: a handler called from `ReceiveSends` or from inside `Wait` can send,
  receive and wait again on the same thread, over the same pipe and flags,
* timeouts that race with answers, and answers to requests that were given up,
* a cache in front of files where each file operation can fail half-way,
* clocks that wrap and clocks that are set.

`PROJECT.json` lists every such hazard at its line, with the properties that
guard against it or the reason why none does yet.

## 2. The modules

| module | models | builds on |
|---|---|---|
| `TimeUtils` | `TimeAfter`, `TimeIsBetween`, `TimeIsLater`, `TimeDiff` over clocks of `TimeMod` values | |
| `Mailbox` | abstract: what a queue promises to those who post | |
| `MessageQueue` | one queue, its reader, any number of posters | `TimeUtils`, refines `Mailbox` |
| `ThreadSend` | threads that send to each other, over lists, loops and nested waits | |
| `KvdbService` | one database: cache, folder, backup, failures, crashes | |
| `KvdbClient` | blocking calls, the signals they wait on, the server's thread | |
| `DpClient` | DP requests, broadcasts and replies in one process | |
| `FileCache` | cached files: stanzas, pool, postponed saves, eviction, the flash | |
| `MemBuffer` | lists of blocks with a separate count of bytes | |
| `PacketFraming` | one turn of `AnalysisPacket`: header, completeness, what is taken and what is left | `MemBuffer` |
| `AsyncSocket` | what is kept per connection, and what the methods do to it | `PacketFraming` |
| `NetworkService` | a thread's select loop, its connections, the application's callbacks | `AsyncSocket`, refines `PacketChannel` |
| `PacketChannel` | abstract: what packet connections promise their user | `PacketFraming` |
| `MC*` | small instances for TLC | the module named |
| `SequenceLemmas` | what the proofs need of sequences: front, tail, range, positions, no repetitions, cuts, `FlattenSeq` | |
| `*Proofs` | TLAPS proofs | the module named, `SequenceLemmas` |

`MessageQueue` counts messages one by one and leaves out sends; `ThreadSend` has
the sends and only counts posted messages; both have the same wake-up pipe.
`KvdbClient` treats the database as a call that succeeds or fails, `KvdbService`
is that call. `ThreadSend` has the wake-up of `NetworkService::Wait` and one
anonymous socket event; `NetworkService` has the list of dispatchers and the sockets.

### MessageQueue

| state | code |
|---|---|
| `msgPeek_`, `msgq_`, `dmsgq_`, `dmsgq_next_num_`, `fStop_`, `crit_` | the members of that name (`None` for `fPeekKeep_ == false`; list order is the field `pos`) |
| `signaled_` | the byte in the pipe of the queue's `SocketServer` |
| `now` | milliseconds since start; the code sees `now` modulo `TimeMod` |
| `op[t]` | how far thread t is in `Post`, `PostDelayed` or `Quit` |
| `get` | the locals of the one `Get` or `Peek` of the reader |

`Post` is `BeginPost` (the unlocked test of `fStop_`), `Push` (the critical
section) and `Wake`. `Get` is `BeginGet` or `GetPeeked`, then `Scan` (lock, read the clock), `MoveDue` for
each due timer, `PopFront` or `FoundEmpty` (unlock), `StopSeen`, `BeginWait`, `EndWait`. `Scan` to
`PopFront` hold `crit_`, so posters interleave only where the code lets them.
`Less` is `DelayedMessage::operator<` on the wrapped trigger times, `NotDue` is
`TimeIsLater(msCurrent, ...)`. `accepted`, `pushes` and `handled` are
history. Messages are numbered in the order in which they are accepted.

`Mailbox` is the abstract specification. Its state is mapped to: all that is in
`msgq_`, `dmsgq_` or `msgPeek_` is *pending*; the message `Get` took and has not
dispatched is *held*. `Mailbox` says when a message may be taken (due, in order
among undelayed ones), that it is taken once, and what `Clear` removes.

### ThreadSend

`stack[t]` is the thread's call stack, reduced to the frames that matter: the
message loop, a `Send`, a `ReceiveSends`, a handler; the field `at` says where it
stands. `Internal(t)` is the code of the library; `BeginSend`, `Post`, `Clear`,
`SocketEvent`, `Quit` and `Destroy` are what application code, or the outside, may
do, each bounded. A handler (`"run"`) may do any of these before it returns.
`crit_` is a variable because `ReceiveSends` keeps the lock from the answer over
the wake-up to the next turn of its loop; other critical sections are single
steps that need the lock free. `fWait_` is one flag per `NetworkService`, so that a
`Wait` inside a socket handler inside a `Wait` shares it with the outer one.
`Outsiders` have no `Thread`: their `Send` makes an `AutoThread`, whose pipe goes
with the call.

### KvdbService

A value is a sequence of buffers (the code compares files in pieces of
`KVDB_TMP_BUFFER_LEN`); a node is `Free` or a record with key, value, time of
the last write and `written`, which is no field of the code: it remembers whether this
value went to the file. `Replace` fills the node first and leaves the value in it when the write fails, so
readers see a value that is not in the file until the node is evicted or dropped by a `Backup`, and the file after that
(`FallsBack`). `CacheMatchesFile` excepts such nodes; `ViewChangesOnlyByWriting` names the fall back as the one way in which what a
reader sees changes without a call for its key. A call is one step, because one thread
makes them all, but with each outcome the file operations can have: `SeekFailed`,
`ReplaceFailed` (no open, a short write, a failing close that nobody looks at), `PartCopies` (a backup or
restore that stops after some files, the last one cut), `Crash` (any call cut short, the cache
gone). `SetClock` sets the wall clock to any value, because the choice of a node
to reuse compares it with `time(NULL)`.

### KvdbClient

One action per step between which the other side can run: `Call`, `Enter` (the
lock), `Post`, then `Signalled`, `TimeOut` + `ReturnTimeout` (select returned 0, and
then the pipe is emptied: two steps), or `ReturnInterrupted` (select failed: the
pipe is *not* emptied), then `Return`. The server `Take`s a request, `Execute`s,
`Report`s, `Trigger`s. The five methods of `KvdbClient` and `CacheClient::Read`
have the same shape.

### DpClient

The clients of one process, in the order in which the manager walks them;
threads, each of which sends with one client; the event service of each client.
`Request` and `Message` begin a walk over the list, of which each step is one client's `HandleDpMessage` under that client's lock:
`Post` (it listens) or `PassOver`; clients start and stop listening in between (`Change`). A request ends its walk at the first `Post`, a message at the end
of the list (`WalkOver`), where a request returns false. After its `Post` a request is in `WaitSignal`: `Woken` + `Signalled`, or `TimeOut` +
`ReturnTimeout`, or `ReturnInterrupted` (select fails, and the pipe is not emptied). `OnMessage` needs the loop thread to be free: it is not while its
own request blocks. A reply may come in the handler or any time later, from any
thread that is not blocked. There is no lock in `SendDpRequest`, so two threads may wait on one signal.

### FileCache

`cache` is the cache as a record: the deque `cached_stanzas_`, the pool `stanzas_`, the
stanzas and their buffers. Nothing counts references: a stanza is held by the deque and
by the message that will save it (`Saving`), and `Erased` and `Confirmed` recycle it when neither
does, as the deleter of its `shared_ptr` would. `Request` is what `CacheClient` posts; each
handler is one step, split by its early returns: `WriteRefused`, `WriteSkipped`, `WritePosted`;
`ReadCached`, `ReadRefused`, `ReadFailed`, `ReadFile`; `Delete`; and for the postponed save
`Saved`, `SavedEmpty`, `SaveFailed`. `Room` is `RemoveOutOfDataStanza`, which is part of
each write and of each read that misses. `held` is the buffer a reader got. `flashed` and `skipped` are no
members of the code: they remember what was saved, and what was marked as saved without being so.

### NetworkService, AsyncSocket, PacketFraming, MemBuffer

One thread with its connections. `dispatchers_` is the list of that name, `sock[s]` a record
of the members of `AsyncSocketImpl`, its `EventDispatcher` and the `AsyncPacketSocket` that
say something about the next step (`write_buffers_`, `encode_buffer_`, `socket_writeable_`,
`enabled_events_`, `recv_buff_`). The kernel's side is `arrived`, `taken`, `peer` and `sent`.

`stack` is the thread's call stack. A *wait* frame is a `NetworkService::Wait` with its
`fd_set`s and its iterator, which stands on a dispatcher and may become invalid; an *event*
frame is `OnSocketEvent` with the events not yet handled; an *analysis* frame is
`AnalysisPacket` with the bytes of this read; a *run* frame is a callback of the
application, which may write, read, close any connection and wait again.

| action | code |
|---|---|
| `GetWaits`, `WaitInside`, `SelectAgain` | a turn of `Wait` up to `select`: closed dispatchers are pruned, `fd_set`s filled (`networkservice.cpp:992-1021`) |
| `Dispatch` | the walk to the next dispatcher with an event, `erase(iter++)`, `OnEvent` (:1055-1112) |
| `InvalidIterator` | the walk goes on from a node that was erased below it |
| `ErrorEvent`, `WriteComplete`, `WriteMore` (where a nested `Wait` may have used up the room that `select` reported), `ReadData`, `ReadEnd`, `ReadNothing`, `EndEvent` | the branches of `OnSocketEvent` (`networktinterfaceimpl.cpp:134-292`) with `PhysicalSocket::Recv` |
| `KeepBytes`, `DeliverPacket`, `BadHeader`, `StopAnalysis` | the branches of `AnalysisPacket` (`asyncpacketsocket.cpp:124-254`) |
| `AsyncWritePacket`, `AsyncRead`, `Close` | the calls of the application |
| `Arrive`, `PeerGoes` | the network |

A byte is named after the packet and the place it was sent for, so that order, loss and
duplication show. A buffer is a list of blocks and a count, since
`AnalysisPacket` takes blocks out of one buffer and puts them into another by hand.

`faults` is history. It names four things this code does that no reliable channel may,
and on which the properties give no promise:

* **split**: a header lies in two blocks of one read and nothing is left of earlier
  reads. `length - PACKET_HEADER_SIZE` (`asyncpacketsocket.cpp:174`) wraps, the loop takes the first
  block for the last, and the packet is filled up with what a new block contains; the
  bytes after it are then taken for a header.
* **starved**: a nested `Wait` took the data an outer one was told of. The outer read event
  meets `EAGAIN` and returns (`networktinterfaceimpl.cpp:185-187`; its comment says that
  receiving goes on later), but `DE_READ` was removed at :153 and nobody adds it again.
* **dropped**: `Recv` meets the end of the stream, or an error, after blocks that came
  full, and returns 0 or -1: what it had received is given up (`networkservice.cpp:405-423`).
* **nested**: a callback called `AsyncRead` and waited, so a later read is analysed inside an earlier one.
  (The test `packet_server` calls `AsyncRead` in its packet handler; without a
  `Wait` in there nothing comes of it.)

`PacketChannel` is the abstract specification: packets of the peer are delivered whole, once,
in order, none after the connection closed; written packets go out in order; a
connection fails at most once, and only if its peer went. A faulty connection may do anything to itself and
nothing to the others.

## 3. The runs

| run | shows | instance |
|---|---|---|
| `mq` | `NoLostWakeup`, `TimersFireInOrder`, `ImplementsMailbox`, `EveryMessageTaken` | reader and one poster, both may call everything; 2 handlers, delays 0 and 1, waits 1 and forever, 3 clock values, 2 messages, 1 quit |
| `mq_stop` | violated: `StopDeliversReadyPosts` | 1 handler, 1 message, 1 quit |
| `send` | `NoLostWakeup`, `ReadyMeansServed`, `SendsAreFlagged`, `EverySendReturns` | 2 loops; 2 sends, 1 post, 1 socket event, 1 clear, 1 quit |
| `send_auto` | violated: `SenderOutlivesAnswer` | 1 loop, 1 outsider, 1 send |
| `kvdb` | `OneNodePerKey`, `CacheMatchesFile`, `ViewChangesOnlyByWriting`, `AcknowledgedIsStored` | 2 keys, 3 values (empty, one buffer, two buffers), nodes of 1 and 2 buffers, 2 seconds, 1 fault |
| `kvdb_long` | violated: `AcknowledgedIsStored` | 1 key, two values that differ in the second buffer, no faults |
| `kvdb_client` | `SuccessMeansExecuted`, `NoStragglers`, `AnswerWakesCaller`, `EveryCallReturns` | 3 threads, 2 of them on one client, 3 calls |
| `dp` | `OneClientHears`, `OneReplyOneSuccess`, `EveryRequestReturns` | 3 clients, 4 threads, 2 requests or messages, 2 changes of who listens |
| `dp_late` | violated: `TrueMeansResult` | 2 clients, 2 requests, no messages |
| `cached` | `OneStanzaPerPath`, `SavedOnce`, `CacheMatchesFlash`, `ViewChangesOnlyByRequests` | 2 paths, 2 contents and the empty one, 2 stanzas, 1 reader, 5 requests, 3 waiting at once, 2 failures or crashes |
| `cached_readers` | violated: `EvictionSparesReaders` | 4 requests, no failures |
| `net` | `WalkIsSafe`, `NothingLostAtEnd`, `ImplementsChannel`, `PacketsArrive`, `WritesGoOut` | 2 connections; one receives packets with bodies of 0, 1 and 0 bytes, cut at any of 3 places; blocks of 4 bytes, headers of 3; 2 calls of the application or peers that go |

Each module has one `TypeOK`, checked by its passing run. The properties are
stated and explained in the modules.

**Why the bounds are enough to be interesting.** A lost wake-up needs one reader
and one poster between two of its steps; a second message lets one post's byte be
consumed on behalf of the other. Two messages with delays 0 and 1 over three clock
values meet equal and different triggers, timers moved behind and before posts.
Two sends are enough for a circle (each loop sends to the other), for a send
nested in a handler, and for a list of two; the socket event puts a `Wait` inside a
`Wait`. In the database the larger value fits one node only and the smaller both,
so that keys evict each other; one fault is enough because each property is about
what a fault leaves behind, and two values of different length make short
writes visible. Three calls give a late answer, the call that meets it and a third
on the other client or by the other thread of the same one. In `dp`, three
clients make the order of the list matter and a circle of requests possible. Two stanzas
(the code has four) are the least with which one file is saved and the next one skipped; with
three requests waiting, a write or a delete stands between a write and its save, and five
requests fill the cache, evict a file and read it back. Paths are interchangeable in `cached`, and so are contents.

In `net`, a header of 3 bytes over blocks of 4 (8 and 768 in the code) lies in one block, in two blocks of
one read and in two reads; the cuts after 2, 6 and 10 bytes leave a header, or a header without its
body, in `recv_buff_`, and the stream can also come in one piece. The kernel takes 0, 2, 3 or all bytes of a packet of
4, so that it stops within and at the end of a block. Two calls are enough for a `Wait`
inside a callback that closes, reads or writes one of the connections, and for a peer that goes
while a packet is half sent. The second connection receives no packets: it writes, ends and
closes around the first, which suffices to erase the node a walk stands at.

**Deadlock** is looked for in `kvdb` and `kvdb_long`. The others may stop:
their numbers of calls are bounded, and so are the lives of the threads.

**Fairness.** `mq`: the clock runs, a thread inside `Post` or `Quit` finishes, the
reader comes back to `Get` (`Thread::ProcessMessages`), and nothing is assumed of who
posts, clears or stops. `send`: threads run, handlers return, a thread that
left its loop is destroyed, which clears its list. `kvdb_client`: the
server's thread runs, `select` returns at the latest when its time is up, the lock
is handed on. `dp`: walks over the list go on, waits end and event services run; nobody has to reply. All these
are weak fairness of single steps (or of disjoint alternatives of one step). `net`: the
thread runs and callbacks return (weak fairness of `Thread`, spelled out with the state
predicate `Idle`, because TLC evaluates the enabledness of that many actions slowly), and a
connection for which the loop asks again and again whether it is writable is reported
writable at some time (strong fairness: the kernel has room only now and then). Nothing is assumed
of peers and applications.

Under these, `EveryMessageTaken` allows for a stopped queue, and `EverySendReturns`
includes senders whose receiver is stopped under them: they wait until the
owner destroys the thread, when `Clear` lets them go.

## 4. What the violations say

* `mq_stop`: `messagequeue.h:216-218` promises that ready posts are delivered
  before `Get` returns false. `Post` tests `fStop_` without the lock, and
  `Get` tests it after the drain (`messagequeue.cpp:253`) without a second look at `msgq_`.
* `send_auto`: `thread.cpp:454-456` argues that a sender cannot exit before its
  `Send` completes. It can complete between `*smsg.ready = true` and
  `smsg.thread->socketserver()->WakeUp()` (:466-467), and an `AutoThread` is gone then.
* `kvdb_long`: `Replace` compares each piece of the file with the *start* of the value
  (`kvdbservice.cpp:195-213`). Values of several buffers that share the first
  can be taken for equal; the new one is then acknowledged, cached and not written.
* `dp_late`: `dpclient.h:84-85` says that a request either times out or has its
  result. In the trace a request is given up (its `select` is interrupted; a timeout that is over before the
  reply comes would do); the reply comes after that and triggers the client's one signal; the next request is posted,
  finds the signal up and returns true, and nobody has replied to it. A reply to a broadcast, whose
  message carries the signal too (`dpclient.cpp:233`), does the same: the run sends no messages, so that it shows the first case.
* `cached_readers`: `cacheservice.cpp:507-509` says that a file is evicted only when no user
  holds its `MemBuffer`. The code asks for the references to the *stanza*, which
  users do not hold; recycling it clears the buffer under the reader, and a later
  read of another file fills it again.

Two more facts show in `cached` as exceptions of its properties. A file written when the
cache is full is marked as saved and is not (`AddFile`, :235-244, which warns in the log): it is
readable until it is evicted, and an older version saved later may be what is left. And a file deleted before its save
stays in the cache and is created again by that save: `ViewChangesOnlyByRequests` holds there because readers
never stopped seeing it.

## 5. What is proved

| theorem | statement |
|---|---|
| `MessageQueueProofs!TypeCorrect` | `Spec => []TypeOK` |
| `MessageQueueProofs!NeverSleepsOverAMessage` | `Spec => []NoLostWakeup` |
| `MessageQueueProofs!QueueIsAMailbox` | `ClockFits` and `Spec` imply `ImplementsMailbox` |
| `MessageQueueProofs!TimersAreOrdered` | `ClockStraight`, `ClockFits` and `Spec` imply `TimersFireInOrder` |
| `KvdbServiceProofs!TypeCorrect`, `KeysAreUnique` | `Spec => []TypeOK`, `Spec => []OneNodePerKey` |
| `KvdbServiceProofs!CacheIsCoherent` | `ComparisonSound` and `Spec` imply `[]CacheMatchesFile` |
| `KvdbServiceProofs!AcknowledgedValuesAreStored`, `OnlyWritingChangesTheView` | under `ComparisonSound`, the two action properties of `kvdb` |
| `KvdbClientProofs!SuccessIsTrue`, `TypesHold` | `Spec => []SuccessMeansExecuted`, `Spec => []TypeOK` |
| `KvdbClientProofs!AnswersAreHeard`, `NoneExecutedLate` | `Spec => []AnswerWakesCaller`, `Spec => []NoStragglers` |
| `DpClientProofs!RequestsHaveOneHearer`, `RepliesAreSpentOnce`, `TypesHold` | `Spec => []OneClientHears`, `Spec => []OneReplyOneSuccess`, `Spec => []TypeOK` |
| `ThreadSendProofs!SendsAreSynchronous`, `NoSendIsHidden`, `TypesHold` | `Spec => []ReadyMeansServed`, `Spec => []SendsAreFlagged`, `Spec => []TypeOK` |
| `ThreadSendProofs!NoWakeupIsLost` | `Spec => []NoLostWakeup` |
| `FileCacheProofs!TypesHold`, `OneStanza`, `SavesHappenOnce` | `Spec => []TypeOK`, `Spec => []OneStanzaPerPath`, `Spec => []SavedOnce` |
| `FileCacheProofs!CacheAgrees`, `ViewIsStable` | `Spec => []CacheMatchesFlash`, `Spec => ViewChangesOnlyByRequests` |
| `NetworkServiceProofs!WalksAreSafe` | `Spec => []WalkIsSafe` |
| `NetworkServiceProofs!TypesHold`, `NothingIsLost` | `BodiesFit` and `Spec` imply `[]TypeOK`, `[]NothingLostAtEnd` |
| `NetworkServiceProofs!ConnectionsAreChannels` | `BodiesFit` and `Spec` imply `ImplementsChannel` |

They hold for any sets of threads, keys, values, node sizes, clients and bounds,
from the assumptions that the modules declare about their constants. Arguments:

* **MessageQueue.** `NoLostWakeup` is inductive given `TypeOK`: `msgq_` gets a
  message either from the reader (which then goes on to `PopFront`) or in `Push`, after which the
  poster stands before `Wake`; only `EndWait`, which sends the reader back to its scan,
  empties the pipe. `StopSeen`, `FoundEmpty` and `Clear` are the cases that need care:
  `FoundEmpty` reaches the unlocked part with `msgq_` empty, under the lock.
* **Mailbox.** The refinement needs to know what is in the lists (`IInv`): every message has one number and one
  place, all that is in `msgq_` is due, and messages posted without a delay stand in the order they were
  accepted, the peeked one before them. A step that touches no list is a stutter of the mailbox (`Quiet`); each
  other one has its own step. `MoveDue` is where the clock matters: that it moves only what is due is proved from the
  remainders (`NotDueAhead`), under `ClockFits`: no timer is set half the clock's range ahead. The order of timers needs
  `ClockStraight` as well, no wrap at all, since `operator<` compares raw trigger times. Both are
  hypotheses and not `ASSUME`s, as nothing in the code ensures them.
* **KvdbService.** The invariant is `TypeOK /\ OneNodePerKey`, and with it
  `CacheMatchesFile`. `CacheValueEffect` says what caching a value does to the nodes:
  at most one node changes to the new record, the old node of the key is freed
  and the new value fits. The order of the arguments matters: `OneNodePerKey` is needed
  for `CacheMatchesFile`, since `NodeFind` stops at the first node of a key. `ComparisonSound` (equal by the code's comparison
  means equal) is a hypothesis and not an `ASSUME`: it is true when no value is longer
  than one buffer, and the run `kvdb_long` is what happens without it. `Backup` and
  `Restore` empty the cache, so they keep coherence whatever they do to files. For the view of a key: its node stays, or is replaced
  by one with the same value, or goes; in the last case the file has that value when the node was written
  (`CacheMatchesFile`), and else it is `FallsBack`.
* **KvdbClient.** `SuccessMeansExecuted` is not inductive: `Return` reads
  `data[i].res`, so `ResIsTrue` is added (a request that carries `"done"`, or whose
  server step is about to report, was executed with success), and `Shapes` for the
  types of the variables the argument looks at. The signal does not occur in it: the result is in the request, and
  a caller looks at its own. The other two need the lock: one caller of a client at a time is inside a call (`LockOK`), so
  its requests are numbered and queued by one caller at a time and stand in the queue in order (`OrderOK`, `NewestInside`).
  Then no other call empties the signal that answers a waiting caller, and a request that
  succeeded has all older ones of its client behind it. `TypeOK` bounds the numbers by counting the callers that have begun and not entered.
* **DpClient.** `OneClientHears` needs that a request which is still looking for a client is in no box, and that
  no two threads are sending under one number: then its one `Post` puts it into one box, whoever
  starts or stops listening before and after. `OneReplyOneSuccess`
  needs that a thread which got past `select`, on a client that only it uses, still finds the signal: the pipe is emptied only by a thread
  that returns from its wait, and that is the thread itself.
* **ThreadSend.** `ReadyMeansServed` is not inductive: the frame that answers a send
  lies below the handler while it runs, and below whatever the handler calls. `AnswersFollow` says of
  every stack that a frame which is to answer is on top and its handler has returned, or has the running
  handler right on top of it. Lemmas say what calling, returning and moving on do
  to such a stack, and each action cites its own. `SendsAreFlagged` is inductive given the types: a push raises the
  flag in the same locked section, and it is lowered only there, over an empty list. `TypeOK` needs that a
  thread without a `Thread` has frames of `Send` only, and that no queue holds more messages than `Post` calls.
  `NoLostWakeup` speaks of the top frame only; `AllWakeful` says of every frame of a stack what would make it true
  once the frame is on top. A frame that is about to wait has looked at its answer, the sends and the posts, and what came since is
  *known*: the pipe is signalled, or a thread stands right before signalling it. A frame that does not know has a frame above it that waited
  too, took the signal, and gives it back when it returns (`ReturnFromSend`); a frame whose `Wait` is over looks again. `Owners` says
  that a send has one owner, so that `Answer` and `Clear` wake the thread whose flag they raise. Each action then cites what
  calling, returning and moving on do to such a stack.
* **FileCache.** Saves come late and may come out of order with deletes and evictions; that none leaves an old version of a
  file in front of a newer one rests on one fact about the queue, `LastSaveIsCached`: of the saves of a path that wait,
  the last is that of its cached stanza. (Replacing a stanza that waits takes it out of the deque and posts a newer save behind its own;
  a stanza that waits is neither evicted nor removed.) It fails once a write of the path was skipped, and the property excepts those paths.
  `WellFormed` has what recycling needs: deque, pool and waiting stanzas share nothing, and no two stanzas share a buffer, so
  clearing one leaves the others; `Flagged` and `SavesDiffer` are `SavedOnce`. The lemmas describe one change of the cache each
  (`Erased`, `Recycled`, `Replaced`, `Taken`) and the actions compose them. For `ViewIsStable`, what comes into the cache under a path by a read,
  or goes by an eviction, is what the flash has. `Fresh` needs a buffer that no stanza and no reader has: that there is one is counted, for any `CacheSize` and
  finite set of readers.
* **NetworkService.** `WalkIsSafe` says that a walk stands on a valid node unless a callback
  waited inside it. It is not inductive: pruning and dispatching invalidate frames anywhere below,
  so the invariant `GoodStack` adds that of any two `Wait`s on the stack the lower one
  is marked as nested. It speaks of the shape of the stack only, so it holds for every stream, buffer
  and list of dispatchers. Lemmas say how pushing, popping, erasing and marking change such a stack; the proof of
  a step then names the lemma for its new stack. That `Close` leaves the dispatcher in the
  list, for the next `select` to prune, is what makes it true.
* **What connections carry.** `IInv` is the invariant behind `TypesHold`, `NothingIsLost` and the refinement. In: while a connection
  is open and has neither fault that the channel excepts, what was delivered, then `recv_buff_`, then the bytes that are being analysed make up what
  was received of the peer's stream (`StreamOK`); unless a header was split, every buffer counts its bytes exactly and `recv_buff_` holds no whole packet
  (`ReceivedOK`), so a read that meets the end leaves nothing behind. Out: what the kernel took, then what is unsent is
  what was written (`OutputOK`). Of the stack: an event that is to write or to report an error is on top, and its connection is open
  (`UrgentOK`); at most one analysis of a connection stands there until a read was analysed inside another. The argument has four layers: facts about
  blocks and cuts of sequences (`SequenceLemmas`); one turn of `AnalysisPacket` on a prefix of a stream and one
  `TryToWriteData`; what each does to one connection (`SocketOK`); and the actions, each of which is shown to
  touch one connection only (`StepOf`). `TypeOK` excepts the received bytes of connections with a split header: its `TakePacket` makes
  `size_` count less than the blocks hold, and nothing bounds what later turns take.
  The hypothesis `BodiesFit`, that a body and a block more fit a `uint32`, is what the wrapping comparison in the inner loop of `AnalysisPacket`
  needs. It is no `ASSUME`, as only the sender of a string limits a body (`asyncpacketsocket.cpp:32-34`); the receiver does not.
* **PacketChannel.** Each step of the loop, of a handler, the application or a peer maps to a step of the channel or to none:
  `DeliverPacket` to `Deliver`, `WriteMore` to `Flush` or `Fail`, `ReadEnd` to `Fail`, and to `Misbehave` what makes a connection faulty or
  happens to a faulty one, which must leave all others alone. That a bad header is found only on a faulty connection is part of it:
  whoever writes well-formed packets is never cut off.

Induction over data is done without the induction theorems, whose operator parameter the provers cannot instantiate: a set of
counterexamples that is not empty has a least member (`LeastNatural`, from `WFMin`), and the one before it is not in the set.
`SelectSeq` and the like take operators too; where a proof needs them, the model describes the sequence by its positions or with `FlattenSeq`.

Not proved, only model-checked: the liveness properties (fairness and `ENABLED`
are beyond the prover), `PacketsArrive` and `WritesGoOut` of `NetworkService` among them.

## 6. What is not modelled

* `MessageQueueManager`, `MQID_DISPOSE` messages, `GetDelay`; a `select` that fails
  in the message loop; the torn outcomes of the unlocked `fPeekKeep_` in `Get` (one step
  here). The run keeps the clock away from its wrap (`ClockStart`, `MaxNow` and
  `TimeMod` allow a run next to it).
* In `ThreadSend`: starting, naming and priorities of threads, messages as data,
  `Clear` for one handler among several (a list is cleared whole).
* In `KvdbService`: read errors (the code takes them for the end of the file, so a
  cut value is cached as the whole), bytes within a buffer, `Seek` into a caller's
  buffer and `Clear` of the own folder (without callers), two databases of which one is
  named like the other's backup folder.
* In `DpClient`: registration and removal of clients, several methods, the bytes of results.
* In `FileCache`: the check of file limits (`CachedService::Start` is never called, so
  `CACHED_CHECK` is never posted), creating directories, read errors of a file that opened (one that does not open is `ReadFailed`), and readers that take bytes
  out of the buffer which they share with the cache.
* In `NetworkService` and the sockets: the Windows variant of `Wait`, a `select` that fails, accepting and
  connecting, UDP, other threads that add dispatchers (and wait for `crit_`, which is held while handlers run),
  descriptors that the system hands out again while a walk remembers them, the stop of the walk
  after as many events as `select` counted, Base64 encoding, the limit of the body size and the `flag` of a packet. The
  application keeps to sockets that are open: the `AsyncWritePacket` that takes a buffer would
  follow a null pointer (`asyncpacketsocket.cpp:112`).
* The HTTP socket, a second framing over a vendored parser.
* HTTP (formatting and a handler table over a vendored parser), the DP network
  server (empty handlers), TLS, the base library, the C wrapper of the client, the application
  framework (fixed start order): no interaction or state that a model would add to.

## 7. Plan

Modules:

1. The manager of the queues with two threads, and the clock near its wrap in `MessageQueue`.
2. `NetworkService` composed with `ThreadSend`: dispatchers added by other threads while handlers run under `crit_`.
3. Registration of DP clients while the list is walked; two databases, one named like the other's backup.

Theorems: all safety properties of the runs that hold are proved. Left are strengthenings: `NothingIsLost` and the
refinement without `BodiesFit` for connections whose bodies fit, one by one (the hypothesis is about all connections), and what of
`ImplementsChannel` still holds of a connection after a fault.

## 8. Running

    tlc -config MCMessageQueue.cfg MCMessageQueue     # and likewise the others
    tlapm MessageQueueProofs.tla
