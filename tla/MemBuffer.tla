------------------------------ MODULE MemBuffer ------------------------------
(***************************************************************************)
(* Buffers that are lists of blocks (eventservice/mem/membuffer.cpp).      *)
(*                                                                         *)
(* A block is the sequence of its bytes.  A buffer counts its bytes in     *)
(* size_, apart from the blocks: nothing keeps the two in agreement when   *)
(* someone works on blocks() directly, as AsyncPacketSocket does.          *)
(***************************************************************************)
EXTENDS Integers, Sequences, SequencesExt

CONSTANT DEFAULT_BLOCK_SIZE  \* bytes in a full block

ASSUME MemBufferAssumption == DEFAULT_BLOCK_SIZE \in Nat \ {0}

EmptyBuffer == [blocks_ |-> <<>>, size_ |-> 0]

Bytes(buffer) == FlattenSeq(buffer.blocks_)

AppendBuffer(buffer, other) ==
  [blocks_ |-> buffer.blocks_ \o other.blocks_, size_ |-> buffer.size_ + other.size_]

(* bytes as WriteBytes and Recv lay them out: full blocks and a last one    *)
BlocksOf(bytes) ==
  LET full == DEFAULT_BLOCK_SIZE
  IN  [i \in 1 .. (Len(bytes) + full - 1) \div full |->
         SubSeq(bytes, (i - 1) * full + 1,
                IF i * full <= Len(bytes) THEN i * full ELSE Len(bytes))]

BufferOf(bytes) == [blocks_ |-> BlocksOf(bytes), size_ |-> Len(bytes)]

(* CopyBytes from position 0, which is only asked for len <= size_ *)
CopyBytes(buffer, len) == SubSeq(Bytes(buffer), 1, len)

(* how many bytes the first n blocks hold *)
LengthOf(blocks, n) == Len(FlattenSeq(SubSeq(blocks, 1, n)))
=============================================================================
