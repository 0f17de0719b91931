--------------------------- MODULE NetworkService ---------------------------
(***************************************************************************)
(* The select loop of a thread (NetworkService::Wait, POSIX variant, and   *)
(* EventDispatcher in eventservice/net/networkservice.cpp) with packet     *)
(* connections in it (networktinterfaceimpl.cpp, asyncpacketsocket.cpp)    *)
(* and an application that is called back.                                 *)
(*                                                                         *)
(* One thread: its call stack is `stack`.  A callback may write, close and *)
(* read any connection, and wait again, which runs callbacks inside the    *)
(* callback.  Meanwhile bytes arrive and peers go.                         *)
(***************************************************************************)
EXTENDS AsyncSocket, FiniteSets

CONSTANTS
  Sockets,
  None,
  Plans,      \* Plans[s]: the sequences of body sizes that s's peer may send
  Cuts,       \* Cuts[s]: where the bytes that have arrived at s may end for a while
  OutSize,    \* the body size of the packets the application writes
  Partial,    \* how many bytes the kernel may take of more
  MaxOps      \* bound on the application's calls and on peers that go

ASSUME NetworkServiceAssumption ==
  /\ None \notin Sockets
  /\ IsFiniteSet(Sockets)
  /\ Plans \in [Sockets -> SUBSET Seq(Nat)]
  /\ Cuts \in [Sockets -> SUBSET Nat]
  /\ Partial \subseteq Nat
  /\ {OutSize, MaxOps} \subseteq Nat

VARIABLES
  dispatchers_,  \* the list of dispatchers, each that of one connection
  sock,          \* sock[s]: a record of AsyncSocket
  stack,         \* the thread's frames, the running one last
  crashed,       \* whether the thread used an iterator that was not valid
  sizes,         \* sizes[s]: the packets s's peer sends
  arrived,       \* arrived[s]: how many bytes of them have arrived
  taken,         \* taken[s]: how many of these the thread received
  peer,          \* peer[s]: "open", "eof" or "reset"
  sent,          \* sent[s]: the bytes the kernel took from the thread
  written,       \* written[s]: how many packets the application wrote
  delivered,     \* delivered[s]: the packets the application was given
  failures,      \* failures[s]: how often it was given an error
  faults,        \* faults[s]: what went wrong with s, see below
  ops            \* what the application and the peers did so far

wire == <<sizes, arrived, peer>>
app == <<written, delivered, failures>>
vars == <<dispatchers_, sock, stack, crashed, wire, taken, sent, app, faults, ops>>

(* The faults of this code, each of which is an exception to a property:   *)
(*   "split"    a header lay in two blocks of one read                     *)
(*   "starved"  a read event met no data, and reading is never armed again *)
(*   "dropped"  Recv gave up the bytes it had when it met the end          *)
(*   "nested"   a read was analysed while an earlier one still was         *)
Faults == {"split", "starved", "dropped", "nested"}

-----------------------------------------------------------------------------
(* Frames.  A Wait with the descriptors select reported and the node it    *)
(* will go to next; OnSocketEvent with the events left to handle;          *)
(* AnalysisPacket with the bytes left to analyse; application code.        *)
WaitFrame(rd, wr, iter) ==
  [at |-> "wait", rd |-> rd, wr |-> wr, iter |-> iter, valid |-> TRUE, nested |-> FALSE]
EventFrame(s, ff) == [at |-> "event", s |-> s, ff |-> ff]
AnalysisFrame(s, buffer) == [at |-> "analysis", s |-> s, buffer |-> buffer]
RunFrame == [at |-> "run"]

Top == Last(stack)
At(at) == ~crashed /\ stack # <<>> /\ Top.at = at
Replace(frame) == [stack EXCEPT ![Len(stack)] = frame]
ReplaceAndCall(frame, callee) == Append(Replace(frame), callee)
Running == ~crashed /\ (stack # <<>> => Top.at = "run")

(* nodes that leave the list are no longer valid for whoever stands there  *)
Erased(frames, gone) ==
  [i \in DOMAIN frames |->
     IF frames[i].at = "wait" /\ frames[i].iter \in gone
       THEN [frames[i] EXCEPT !.valid = FALSE] ELSE frames[i]]

Init ==
  /\ dispatchers_ = SetToSeq(Sockets)
  /\ sock = [s \in Sockets |-> ConnectedSocket]
  /\ stack = <<>>
  /\ crashed = FALSE
  /\ sizes \in {f \in [Sockets -> UNION {Plans[s] : s \in Sockets}] :
                  \A s \in Sockets : f[s] \in Plans[s]}
  /\ arrived = [s \in Sockets |-> 0]
  /\ taken = [s \in Sockets |-> 0]
  /\ peer = [s \in Sockets |-> "open"]
  /\ sent = [s \in Sockets |-> <<>>]
  /\ written = [s \in Sockets |-> 0]
  /\ delivered = [s \in Sockets |-> <<>>]
  /\ failures = [s \in Sockets |-> 0]
  /\ faults = [s \in Sockets |-> {}]
  /\ ops = 0

-----------------------------------------------------------------------------
(* The peers. *)
Incoming(s) == StreamBytes(sizes[s])

Arrive(s) ==
  /\ peer[s] = "open"
  /\ \E n \in Cuts[s] :
       /\ arrived[s] < n /\ n <= Len(Incoming(s))
       /\ arrived' = [arrived EXCEPT ![s] = n]
  /\ UNCHANGED <<dispatchers_, sock, stack, crashed, sizes, peer, taken, sent, app,
                 faults, ops>>

PeerGoes(s, how) ==
  /\ peer[s] = "open"
  /\ ops < MaxOps
  /\ ops' = ops + 1
  /\ peer' = [peer EXCEPT ![s] = how]
  /\ UNCHANGED <<dispatchers_, sock, stack, crashed, sizes, arrived, taken, sent, app,
                 faults>>

-----------------------------------------------------------------------------
(* The application. *)

(* a mutant: the list is not searched *)
AddBlindly(list, s) == Append(list, s)

Add(list, s) == IF s \in Range(list) THEN list ELSE Append(list, s)

(* what the kernel may take when it has room *)
Taken(k) == {n \in Partial : 0 < n /\ n < Len(Unsent(k))} \union {Len(Unsent(k))}

MayCall ==
  /\ Running
  /\ ops < MaxOps
  /\ ops' = ops + 1

(* AsyncWritePacket; AsyncWrite tries at once, if the last try did not end *)
(* with waiting, and reports no error.  The guard is the IsClose test of   *)
(* the overload that takes a string; the one that takes a buffer has none, *)
(* and the application uses it on open connections only.                   *)
AsyncWritePacket(s) ==
  /\ MayCall
  /\ sock[s].open
  /\ written' = [written EXCEPT ![s] = @ + 1]
  /\ \E packet \in PacketBuffers(written[s] + 1, OutSize) :
       LET k == [sock[s] EXCEPT !.write_buffers_ = AppendBuffer(@, packet)]
       IN  IF ~k.socket_writeable_
             THEN /\ sock' = [sock EXCEPT ![s] = k]
                  /\ UNCHANGED <<dispatchers_, sent>>
             ELSE \E n \in IF peer[s] = "reset" THEN {0} ELSE {0} \union Taken(k) :
                    /\ sock' = [sock EXCEPT ![s] = WriteData(k, n)]
                    /\ sent' = [sent EXCEPT ![s] = @ \o SubSeq(Unsent(k), 1, n)]
                    /\ dispatchers_' = Add(dispatchers_, s)
  /\ UNCHANGED <<stack, crashed, wire, taken, delivered, failures, faults>>

AsyncRead(s) ==
  /\ MayCall
  /\ sock[s].open
  /\ sock' = [sock EXCEPT ![s] = Enable(@, DE_READ)]
  /\ dispatchers_' = Add(dispatchers_, s)
  /\ UNCHANGED <<stack, crashed, wire, taken, sent, app, faults>>

(* a mutant: Remove erases the dispatcher from the list *)
CloseErasing(s) ==
  /\ MayCall
  /\ sock[s].open
  /\ sock' = [sock EXCEPT ![s] = Closed(@)]
  /\ dispatchers_' = SelectSeq(dispatchers_, LAMBDA r : r # s)
  /\ stack' = Erased(stack, {s})
  /\ UNCHANGED <<crashed, wire, taken, sent, app, faults>>

(* The dispatcher is only disabled: it stays in the list until a Wait      *)
(* prunes it, because another Wait may be walking the list.                *)
Close(s) ==
  /\ MayCall
  /\ sock[s].open
  /\ sock' = [sock EXCEPT ![s] = Closed(@)]
  /\ UNCHANGED <<dispatchers_, stack, crashed, wire, taken, sent, app, faults>>

Finish ==
  /\ At("run")
  /\ stack' = Front(stack)
  /\ UNCHANGED <<dispatchers_, sock, crashed, wire, taken, sent, app, faults, ops>>

-----------------------------------------------------------------------------
(* Wait. *)
Readable(s) == arrived[s] > taken[s] \/ peer[s] # "open"

FirstOf(list) == IF list = <<>> THEN None ELSE Head(list)

(* closed dispatchers are pruned *)
Pruned ==
  FlattenSeq([i \in DOMAIN dispatchers_ |->
                IF sock[dispatchers_[i]].open THEN <<dispatchers_[i]>> ELSE <<>>])

(* One turn up to select: the list is pruned, and the walk starts at its   *)
(* head.  All that is readable is reported, and what is writable as there  *)
(* is room.                                                                *)
Select(frames, wr) ==
  LET list == Pruned
      rd   == {s \in Range(list) : DE_READ \in sock[s].enabled_events_ /\ Readable(s)}
  IN  /\ wr \subseteq {s \in Range(list) : DE_WRITE \in sock[s].enabled_events_}
      /\ rd \union wr = {} => At("run")
      /\ dispatchers_' = list
      /\ stack' = Append(Erased(frames, Range(dispatchers_) \ Range(list)),
                         WaitFrame(rd, wr, FirstOf(list)))

(* Thread::Get waits again and again.  A Wait that is woken, and nothing   *)
(* else, changes nothing here.                                             *)
GetWaits(wr) ==
  /\ stack = <<>>
  /\ Select(stack, wr)
  /\ UNCHANGED <<sock, crashed, wire, taken, sent, app, faults, ops>>

(* a Wait inside a callback: to send to another thread, say *)
WaitInside(wr) ==
  /\ At("run")
  /\ MayCall
  /\ Select([i \in DOMAIN stack |->
               IF stack[i].at = "wait" THEN [stack[i] EXCEPT !.nested = TRUE] ELSE stack[i]],
            wr)
  /\ UNCHANGED <<sock, crashed, wire, taken, sent, app, faults>>

(* The node after the one at position i; the first dispatcher, from iter   *)
(* on, that has something to report and is not closed, or 0.               *)
NextNode(i) == IF i = Len(dispatchers_) THEN None ELSE dispatchers_[i + 1]
Reported(w) ==
  LET due == {i \in DOMAIN dispatchers_ :
                /\ \E j \in 1 .. i : dispatchers_[j] = w.iter
                /\ sock[dispatchers_[i]].open
                /\ dispatchers_[i] \in w.rd \union w.wr}
  IN  IF due = {} THEN 0 ELSE Min(due)

(* The dispatcher leaves the list before its handler runs.  A pending      *)
(* error of the socket, which getsockopt returns, goes with the events.    *)
Dispatch ==
  /\ At("wait")
  /\ Top.valid
  /\ Reported(Top) # 0
  /\ LET i  == Reported(Top)
         s  == dispatchers_[i]
         ff == (IF s \in Top.rd THEN {DE_READ} ELSE {})
                 \union (IF s \in Top.wr THEN {DE_WRITE} ELSE {})
         w  == [WaitFrame(Top.rd \ {s}, Top.wr \ {s}, NextNode(i)) EXCEPT !.nested = Top.nested]
     IN  /\ dispatchers_' = RemoveAt(dispatchers_, i)
         /\ stack' = Append(Append(Erased(Front(stack), {s}), w),
                            EventFrame(s, IF peer[s] = "reset" THEN {"error"} ELSE ff))
  /\ UNCHANGED <<sock, crashed, wire, taken, sent, app, faults, ops>>

(* The walk is over: Wait returns if it was woken, else selects again.     *)
(* (Get would come back at once: for it the two are the same.)             *)
WalkOver == At("wait") /\ Top.valid /\ Reported(Top) = 0

WaitReturns ==
  /\ WalkOver
  /\ stack' = Front(stack)
  /\ UNCHANGED <<dispatchers_, sock, crashed, wire, taken, sent, app, faults, ops>>

SelectAgain(wr) ==
  /\ WalkOver
  /\ Len(stack) > 1
  /\ Select(Front(stack), wr)
  /\ UNCHANGED <<sock, crashed, wire, taken, sent, app, faults, ops>>

(* A Wait inside its callback erased the node at which this one stands:    *)
(* the memory may have become the node of the same dispatcher, added again *)
(* at the end, or anything.                                                *)
InvalidIterator ==
  /\ At("wait")
  /\ ~Top.valid
  /\ \/ /\ crashed' = TRUE
        /\ UNCHANGED stack
     \/ /\ Top.iter \in Range(dispatchers_)
        /\ stack' = Replace([Top EXCEPT !.valid = TRUE])
        /\ UNCHANGED crashed
  /\ UNCHANGED <<dispatchers_, sock, wire, taken, sent, app, faults, ops>>

-----------------------------------------------------------------------------
(* AsyncSocketImpl::OnSocketEvent. *)
Handling(s) == At("event") /\ Top.s = s

(* SocketErrorEvent: the packet socket closes the connection and tells the *)
(* application                                                             *)
Fail(s, frame) ==
  /\ sock' = [sock EXCEPT ![s] = Closed(@)]
  /\ failures' = [failures EXCEPT ![s] = @ + 1]
  /\ stack' = ReplaceAndCall(frame, RunFrame)
  /\ UNCHANGED <<written, delivered>>

ErrorEvent(s) ==
  /\ Handling(s)
  /\ Top.ff = {"error"}
  /\ Fail(s, EventFrame(s, {}))
  /\ UNCHANGED <<dispatchers_, crashed, wire, taken, sent, faults, ops>>

(* All was sent before: the application is told. *)
WriteComplete(s) ==
  /\ Handling(s)
  /\ DE_WRITE \in Top.ff
  /\ Unsent(sock[s]) = <<>>
  /\ sock' = [sock EXCEPT ![s] = [Disable(@, DE_WRITE) EXCEPT !.socket_writeable_ = TRUE]]
  /\ stack' = ReplaceAndCall(EventFrame(s, Top.ff \ {DE_WRITE}), RunFrame)
  /\ UNCHANGED <<dispatchers_, crashed, wire, taken, sent, app, faults, ops>>

(* The kernel has room, unless a Wait inside a callback came first and used *)
(* it up: then Send meets EAGAIN.                                          *)
TakenNow(s) == Taken(sock[s]) \union (IF stack[Len(stack) - 1].nested THEN {0} ELSE {})

WriteMore(s) ==
  /\ Handling(s)
  /\ DE_WRITE \in Top.ff
  /\ Unsent(sock[s]) # <<>>
  /\ \/ /\ peer[s] # "reset"
        /\ \E n \in TakenNow(s) :
             /\ sock' = [sock EXCEPT ![s] = WriteData(@, n)]
             /\ sent' = [sent EXCEPT ![s] = @ \o SubSeq(Unsent(sock[s]), 1, n)]
        /\ dispatchers_' = Add(dispatchers_, s)
        /\ stack' = Replace(EventFrame(s, Top.ff \ {DE_WRITE}))
        /\ UNCHANGED app
     \/ /\ peer[s] = "reset"
        /\ Fail(s, EventFrame(s, {}))
        /\ UNCHANGED <<dispatchers_, sent>>
  /\ UNCHANGED <<crashed, wire, taken, faults, ops>>

(* Recv takes block after block while they come full.  If it then meets    *)
(* the end or an error, it reports only that.                              *)
Received(s) == SubSeq(Incoming(s), taken[s] + 1, arrived[s])
MeetsEnd(s) == peer[s] # "open" /\ Len(Received(s)) % DEFAULT_BLOCK_SIZE = 0

ReadReady(s) == Handling(s) /\ DE_READ \in Top.ff /\ DE_WRITE \notin Top.ff /\ sock[s].open

Nested(s) ==
  IF \E i \in DOMAIN stack : stack[i].at = "analysis" /\ stack[i].s = s
    THEN {"nested"} ELSE {}

(* SocketReadEvent, by what Recv returns *)
ReadData(s) ==
  /\ ReadReady(s)
  /\ Received(s) # <<>>
  /\ ~MeetsEnd(s)
  /\ taken' = [taken EXCEPT ![s] = arrived[s]]
  /\ sock' = [sock EXCEPT ![s] = Disable(@, DE_READ)]
  /\ stack' = ReplaceAndCall(EventFrame(s, {}), AnalysisFrame(s, BufferOf(Received(s))))
  /\ faults' = [faults EXCEPT ![s] = @ \union Nested(s)]
  /\ UNCHANGED <<dispatchers_, crashed, wire, sent, app, ops>>

ReadEnd(s) ==
  /\ ReadReady(s)
  /\ MeetsEnd(s)
  /\ taken' = [taken EXCEPT ![s] = arrived[s]]
  /\ Fail(s, EventFrame(s, {}))
  /\ faults' = [faults EXCEPT ![s] =
                  @ \union Nested(s) \union (IF Received(s) = <<>> THEN {} ELSE {"dropped"})]
  /\ UNCHANGED <<dispatchers_, crashed, wire, sent, ops>>

(* EAGAIN: the event was stale.  DE_READ stays off. *)
ReadNothing(s) ==
  /\ ReadReady(s)
  /\ Received(s) = <<>>
  /\ peer[s] = "open"
  /\ sock' = [sock EXCEPT ![s] = Disable(@, DE_READ)]
  /\ stack' = Replace(EventFrame(s, {}))
  /\ faults' = [faults EXCEPT ![s] = @ \union {"starved"}]
  /\ UNCHANGED <<dispatchers_, crashed, wire, taken, sent, app, ops>>

EndEvent(s) ==
  /\ Handling(s)
  /\ Top.ff = {} \/ ~sock[s].open
  /\ dispatchers_' = IF sock[s].enabled_events_ # {} THEN Add(dispatchers_, s) ELSE dispatchers_
  /\ stack' = Front(stack)
  /\ UNCHANGED <<sock, crashed, wire, taken, sent, app, faults, ops>>

-----------------------------------------------------------------------------
(* AsyncPacketSocket::OnAsyncSocketReadEvent with AnalysisPacket. *)
Analysing(s) == At("analysis") /\ Top.s = s /\ sock[s].open

Incomplete(s) ==
  LET recv == sock[s].recv_buff_
  IN  HeaderComplete(recv, Top.buffer)
        => HeaderGood(recv, Top.buffer) /\ ~PacketComplete(recv, Top.buffer, sizes[s])

(* a mutant: reading does not go on *)
KeepBytesDeaf(s) ==
  /\ Analysing(s)
  /\ Incomplete(s)
  /\ sock' = [sock EXCEPT ![s].recv_buff_ = AppendBuffer(@, Top.buffer)]
  /\ stack' = Front(stack)
  /\ UNCHANGED <<dispatchers_, crashed, wire, taken, sent, app, faults, ops>>

(* the bytes are kept, and reading goes on *)
KeepBytes(s) ==
  /\ Analysing(s)
  /\ Incomplete(s)
  /\ sock' = [sock EXCEPT ![s] = [Enable(@, DE_READ) EXCEPT
                                    !.recv_buff_ = AppendBuffer(sock[s].recv_buff_, Top.buffer)]]
  /\ dispatchers_' = Add(dispatchers_, s)
  /\ stack' = Front(stack)
  /\ UNCHANGED <<crashed, wire, taken, sent, app, faults, ops>>

DeliverPacket(s) ==
  /\ Analysing(s)
  /\ HeaderComplete(sock[s].recv_buff_, Top.buffer)
  /\ HeaderGood(sock[s].recv_buff_, Top.buffer)
  /\ PacketComplete(sock[s].recv_buff_, Top.buffer, sizes[s])
  /\ LET result == TakePacket(sock[s].recv_buff_, Top.buffer, sizes[s])
     IN  /\ delivered' = [delivered EXCEPT ![s] = Append(@, result.packet)]
         /\ stack' = ReplaceAndCall(AnalysisFrame(s, result.buffer), RunFrame)
  /\ sock' = [sock EXCEPT ![s].recv_buff_ = EmptyBuffer]
  /\ faults' = [faults EXCEPT ![s] = IF HeaderSplit(sock[s].recv_buff_, Top.buffer)
                                       THEN @ \union {"split"} ELSE @]
  /\ UNCHANGED <<dispatchers_, crashed, wire, taken, sent, written, failures, ops>>

BadHeader(s) ==
  /\ Analysing(s)
  /\ HeaderComplete(sock[s].recv_buff_, Top.buffer)
  /\ ~HeaderGood(sock[s].recv_buff_, Top.buffer)
  /\ sock' = [sock EXCEPT ![s] = Closed(@)]
  /\ failures' = [failures EXCEPT ![s] = @ + 1]
  /\ stack' = Append(Front(stack), RunFrame)
  /\ UNCHANGED <<dispatchers_, crashed, wire, taken, sent, written, delivered, faults, ops>>

(* the callback closed the connection *)
StopAnalysis(s) ==
  /\ At("analysis") /\ Top.s = s
  /\ ~sock[s].open
  /\ stack' = Front(stack)
  /\ UNCHANGED <<dispatchers_, sock, crashed, wire, taken, sent, app, faults, ops>>

-----------------------------------------------------------------------------
Handler(s) ==
  \/ ErrorEvent(s) \/ WriteComplete(s) \/ WriteMore(s)
  \/ ReadData(s) \/ ReadEnd(s) \/ ReadNothing(s) \/ EndEvent(s)
  \/ KeepBytes(s) \/ DeliverPacket(s) \/ BadHeader(s) \/ StopAnalysis(s)

Loop ==
  \/ Dispatch \/ WaitReturns \/ InvalidIterator \/ Finish
  \/ \E wr \in SUBSET Sockets : GetWaits(wr) \/ SelectAgain(wr)

User ==
  \/ \E s \in Sockets : AsyncWritePacket(s) \/ AsyncRead(s) \/ Close(s)
  \/ \E wr \in SUBSET Sockets : WaitInside(wr)

Thread == Loop \/ \E s \in Sockets : Handler(s)

Next ==
  \/ Thread
  \/ User
  \/ \E s \in Sockets : Arrive(s) \/ \E how \in {"eof", "reset"} : PeerGoes(s, how)

Spec == Init /\ [][Next]_vars

(* The thread runs, callbacks return, and a Wait inside one is woken when  *)
(* there is nothing left to do in it: weak fairness of Thread, spelled out *)
(* for the sake of TLC, since each of its steps changes the stack (or is   *)
(* the last).  The kernel has room again and again for each connection.    *)
(* Nothing makes peers send or the application call.                       *)
ToReport(s) ==
  /\ sock[s].open
  /\ \/ DE_WRITE \in sock[s].enabled_events_
     \/ DE_READ \in sock[s].enabled_events_ /\ Readable(s)
Idle ==
  \/ crashed
  \/ stack = <<>> /\ ~\E s \in Range(dispatchers_) : ToReport(s)

ReportWritable(s) == \E wr \in SUBSET Sockets : s \in wr /\ GetWaits(wr)

FairSpec ==
  /\ Spec
  /\ []<>Idle \/ []<><<stack' # stack>>_vars
  /\ \A s \in Sockets : SF_vars(ReportWritable(s))

-----------------------------------------------------------------------------
ByteSet(s) ==
  {Junk} \union ((DOMAIN sizes[s]) \X (1 .. Len(Incoming(s))))
OutBytes == (1 .. MaxOps) \X (1 .. PACKET_HEADER_SIZE + OutSize)

IsBuffer(buffer, bytes) ==
  /\ \A i \in DOMAIN buffer.blocks_ : Range(buffer.blocks_[i]) \subseteq bytes
  /\ buffer.size_ \in Nat

(* Every variable holds a value the code could hold: no dispatcher is in   *)
(* the list twice, and each frame fits the state of what it works on.  Of  *)
(* received bytes that holds until a header was split, which leaves counts *)
(* that no longer bound what TakePacket takes.                             *)
TypeOK ==
  /\ Range(dispatchers_) \subseteq Sockets /\ IsInjective(dispatchers_)
  /\ \A s \in Sockets :
       /\ sock[s].enabled_events_ \subseteq {DE_READ, DE_WRITE, DE_CLOSE}
       /\ {sock[s].open, sock[s].socket_writeable_} \subseteq BOOLEAN
       /\ IsBuffer(sock[s].write_buffers_, OutBytes)
       /\ Range(sock[s].encode_buffer_) \subseteq OutBytes
       /\ "split" \notin faults[s] => IsBuffer(sock[s].recv_buff_, ByteSet(s))
       /\ taken[s] \in 0 .. arrived[s] /\ arrived[s] \in 0 .. Len(Incoming(s))
       /\ peer[s] \in {"open", "eof", "reset"}
       /\ failures[s] \in 0 .. 1
       /\ faults[s] \subseteq Faults
  /\ \A i \in DOMAIN stack :
       \/ stack[i].at = "wait" /\ stack[i].iter \in Sockets \union {None}
       \/ stack[i].at = "event" /\ stack[i].s \in Sockets /\ stack[i].ff \subseteq {DE_READ, DE_WRITE, "error"}
       \/ /\ stack[i].at = "analysis" /\ stack[i].s \in Sockets
          /\ "split" \notin faults[stack[i].s]
               => IsBuffer(stack[i].buffer, ByteSet(stack[i].s))
       \/ stack[i] = RunFrame
  /\ crashed \in BOOLEAN

(* While a Wait walks the list of dispatchers, callbacks close and add     *)
(* connections, their own and others, before and behind the node where the *)
(* walk goes on; that node stays valid (networkservice.cpp:1105-1112).     *)
(* The exception is a Wait inside the callback, which does erase nodes.    *)
WalkIsSafe ==
  \A i \in DOMAIN stack :
    stack[i].at = "wait" => stack[i].valid \/ stack[i].nested

(* Packet connections over select, partial sends, arbitrary segments and   *)
(* callbacks implement the abstract channel: packets whole, once, in       *)
(* order, none after the end; bytes out in order; one failure, for cause.  *)
(* Exceptions: connections with a split header (asyncpacketsocket.cpp:174) *)
(* or with a read analysed inside another.                                 *)
Channel == INSTANCE PacketChannel WITH
  open   <- [s \in Sockets |-> sock[s].open],
  gone   <- {s \in Sockets : peer[s] # "open"},
  faulty <- {s \in Sockets : faults[s] \intersect {"split", "nested"} # {}}
ImplementsChannel == Channel!Spec

(* how many of s's packets have arrived whole *)
Complete(s) ==
  Cardinality({p \in DOMAIN sizes[s] :
                 Len(StreamBytes(SubSeq(sizes[s], 1, p))) <= arrived[s]})

(* When the end of the stream is reported, every packet that arrived whole *)
(* was delivered before.  Exceptions: what Recv drops because the bytes    *)
(* before the end filled whole blocks (networkservice.cpp:405-408), and    *)
(* the faults above.                                                       *)
NothingLostAtEnd ==
  \A s \in Sockets :
    peer[s] = "eof" /\ failures[s] > 0 /\ faults[s] = {}
      => Len(delivered[s]) = Complete(s)

(* Every packet that arrived whole is delivered, or the connection ends,   *)
(* although each event disarms the socket and takes it off the list.       *)
(* Exceptions: the faults above, one of which is a socket that a stale     *)
(* read event left deaf (networktinterfaceimpl.cpp:185-187).               *)
PacketsArrive ==
  \A s \in Sockets :
    Len(delivered[s]) < Complete(s)
      ~> Len(delivered[s]) = Complete(s) \/ ~sock[s].open \/ faults[s] # {} \/ crashed

(* Every packet written goes out whole, or the connection ends, although   *)
(* only one of several writes arms the socket for writing.                 *)
WritesGoOut ==
  \A s \in Sockets :
    Len(sent[s]) < written[s] * (PACKET_HEADER_SIZE + OutSize)
      ~> Len(sent[s]) = written[s] * (PACKET_HEADER_SIZE + OutSize) \/ ~sock[s].open \/ crashed
=============================================================================
