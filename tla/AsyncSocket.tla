----------------------------- MODULE AsyncSocket -----------------------------
(***************************************************************************)
(* What AsyncSocketImpl (eventservice/net/networktinterfaceimpl.cpp), its  *)
(* event dispatcher and the AsyncPacketSocket on top of it keep for one    *)
(* connection, as a record, and how their methods change it.               *)
(***************************************************************************)
EXTENDS PacketFraming

DE_READ  == "DE_READ"
DE_WRITE == "DE_WRITE"
DE_CLOSE == "DE_CLOSE"

(* Connected, and AsyncRead called: what a server does with a connection   *)
(* it accepted.  `open` stands for socket_, socket_event_ and              *)
(* async_socket_, which are given up together.                             *)
ConnectedSocket ==
  [open |-> TRUE, socket_writeable_ |-> TRUE,
   enabled_events_ |-> {DE_READ, DE_CLOSE},
   write_buffers_ |-> EmptyBuffer, encode_buffer_ |-> <<>>,
   recv_buff_ |-> EmptyBuffer]

(* SignalClose and Close: the received bytes and encode_buffer_ stay *)
Closed(k) ==
  [k EXCEPT !.open = FALSE, !.socket_writeable_ = FALSE,
            !.enabled_events_ = {}, !.write_buffers_ = EmptyBuffer]

Enable(k, event) == [k EXCEPT !.enabled_events_ = @ \union {event}]
Disable(k, event) == [k EXCEPT !.enabled_events_ = @ \ {event}]

(* a packet with a body of n bytes, written from a string or as a buffer   *)
HeaderThenBody(p, n) ==
  [blocks_ |-> <<SubSeq(PacketBytes(p, n), 1, PACKET_HEADER_SIZE)>>
                 \o BlocksOf(Body(p, n)),
   size_   |-> PACKET_HEADER_SIZE + n]
PacketBuffers(p, n) == {BufferOf(PacketBytes(p, n)), HeaderThenBody(p, n)}

(* what was written and not handed to the kernel *)
Unsent(k) == k.encode_buffer_ \o Bytes(k.write_buffers_)

(* The loop of TryToWriteData, when the kernel takes `sent` bytes in all.  *)
(* Each block goes through encode_buffer_, where the first one that is not *)
(* taken whole stays.                                                      *)
Parts(k) ==
  (IF k.encode_buffer_ = <<>> THEN <<>> ELSE <<k.encode_buffer_>>) \o k.write_buffers_.blocks_

WholeParts(parts, sent) ==
  CHOOSE n \in 0 .. Len(parts) :
    LengthOf(parts, n) <= sent /\ (n < Len(parts) => LengthOf(parts, n + 1) > sent)

Sending(k, sent) ==
  LET n    == WholeParts(Parts(k), sent)
      left == SubSeq(Parts(k), n + 2, Len(Parts(k)))
  IN  [k EXCEPT
         !.encode_buffer_ =
            IF n = Len(Parts(k)) THEN <<>>
            ELSE LET part == Parts(k)[n + 1]
                 IN  SubSeq(part, sent - LengthOf(Parts(k), n) + 1, Len(part)),
         !.write_buffers_ = [blocks_ |-> left, size_ |-> LengthOf(left, Len(left))]]

WaitToWriteData(k) == [Enable(k, DE_WRITE) EXCEPT !.socket_writeable_ = FALSE]

(* a mutant: a block sent in part is sent again from its start *)
WriteDataAgain(k, sent) ==
  LET n == WholeParts(Parts(k), sent)
  IN  [WaitToWriteData(Sending(k, sent)) EXCEPT
         !.encode_buffer_ = IF n = Len(Parts(k)) THEN <<>> ELSE Parts(k)[n + 1]]

(* a mutant: it does not wait when a block was sent in part *)
WriteDataUnarmed(k, sent) ==
  IF sent = Len(Unsent(k)) THEN WaitToWriteData(Sending(k, sent)) ELSE Sending(k, sent)

(* In the end the socket waits for DE_WRITE: to go on, or to report that   *)
(* all was sent.                                                           *)
WriteData(k, sent) == WaitToWriteData(Sending(k, sent))
=============================================================================
