---------------------------- MODULE PacketFraming ----------------------------
(***************************************************************************)
(* One turn of the loop of AsyncPacketSocket::AnalysisPacket               *)
(* (eventservice/net/asyncpacketsocket.cpp): given what earlier reads left *)
(* in recv_buff_ and the buffer of this read, is there a whole packet, and *)
(* what is left when it is taken out?                                      *)
(*                                                                         *)
(* A byte is a pair <<p, k>>: the k-th byte that the sender produced for   *)
(* its packet p, header first, or Junk, what a block happened to contain.  *)
(* The first two bytes of a header are 'V' and 'Z', its last one stands    *)
(* for data_size; no other byte looks like a 'V'.                          *)
(***************************************************************************)
EXTENDS MemBuffer

CONSTANTS
  PACKET_HEADER_SIZE,
  WordMod  \* a uint32 counts modulo WordMod

Junk == <<0, 0>>

ASSUME PacketFramingAssumption ==
  /\ PACKET_HEADER_SIZE \in 3 .. DEFAULT_BLOCK_SIZE
  /\ WordMod \in Nat \ {0}

(* packet number p with a body of n bytes, as it goes over the wire *)
PacketBytes(p, n) == [k \in 1 .. PACKET_HEADER_SIZE + n |-> <<p, k>>]

Body(p, n) == SubSeq(PacketBytes(p, n), PACKET_HEADER_SIZE + 1, PACKET_HEADER_SIZE + n)

(* the packets of a sequence of body sizes, one after the other *)
StreamBytes(sizes) ==
  FlattenSeq([p \in 1 .. Len(sizes) |-> PacketBytes(p, sizes[p])])

RecvSize(recv_buff, buffer) == recv_buff.size_ + buffer.size_

(* from recv_buff_, from the buffer, or partly from each *)
HeaderBytes(recv_buff, buffer) ==
  LET head_len == IF recv_buff.size_ >= PACKET_HEADER_SIZE
                    THEN PACKET_HEADER_SIZE ELSE recv_buff.size_
  IN  CopyBytes(recv_buff, head_len) \o CopyBytes(buffer, PACKET_HEADER_SIZE - head_len)

HeaderComplete(recv_buff, buffer) ==
  RecvSize(recv_buff, buffer) >= PACKET_HEADER_SIZE

HeaderGood(recv_buff, buffer) ==
  LET header == HeaderBytes(recv_buff, buffer)
  IN  header[1][2] = 1 /\ header[2][2] = 2

(* sizes: the body sizes of the sender's packets *)
DataSize(recv_buff, buffer, sizes) == sizes[HeaderBytes(recv_buff, buffer)[1][1]]

(* a mutant: off by one *)
PacketCompleteIfMore(recv_buff, buffer, sizes) ==
  DataSize(recv_buff, buffer, sizes)
    < RecvSize(recv_buff, buffer) - PACKET_HEADER_SIZE

PacketComplete(recv_buff, buffer, sizes) ==
  DataSize(recv_buff, buffer, sizes)
    <= RecvSize(recv_buff, buffer) - PACKET_HEADER_SIZE

(* The block at which the inner loop stops: the first one after which the  *)
(* uint32 `length - PACKET_HEADER_SIZE` is not below data_size.  When the  *)
(* header is not complete yet the difference is negative and wraps.        *)
LastBlock(start, blocks, data_size) ==
  Min({n \in 1 .. Len(blocks) :
         (start + LengthOf(blocks, n) - PACKET_HEADER_SIZE) % WordMod >= data_size})

(* The packet that is taken out, without its header, and the rest of the   *)
(* buffer.  Of the last block only what belongs to the packet is taken.  A *)
(* last block that ends too early stays in the list, empty, the bytes that *)
(* it lacks are what the new block contains, and size_ counts them.        *)
TakePacket(recv_buff, buffer, sizes) ==
  LET data_size == DataSize(recv_buff, buffer, sizes)
      needed    == data_size + PACKET_HEADER_SIZE - recv_buff.size_
      n         == LastBlock(recv_buff.size_, buffer.blocks_, data_size)
      searched  == FlattenSeq(SubSeq(buffer.blocks_, 1, n))
      missing   == [i \in 1 .. needed - Len(searched) |-> Junk]
      packet    == Bytes(recv_buff) \o SubSeq(searched, 1, Min({needed, Len(searched)})) \o missing
      rest      == SubSeq(searched, needed + 1, Len(searched))
  IN  [packet |-> SubSeq(packet, PACKET_HEADER_SIZE + 1, Len(packet)),
       buffer |-> [blocks_ |-> (IF needed = Len(searched) THEN <<>> ELSE <<rest>>)
                                 \o SubSeq(buffer.blocks_, n + 1, Len(buffer.blocks_)),
                   size_   |-> buffer.size_ - needed]]

(* The case in which TakePacket goes wrong: nothing from earlier reads and *)
(* a first block that does not hold the whole header.                      *)
HeaderSplit(recv_buff, buffer) ==
  LengthOf(buffer.blocks_, 1) + recv_buff.size_ < PACKET_HEADER_SIZE
=============================================================================
