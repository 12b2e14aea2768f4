------------------------------- MODULE Blocks -------------------------------
(***************************************************************************)
(* The blocks that async_client buffers (struct async_client::block) and   *)
(* the way call_data::send_block packs them into one WriteRequest.         *)
(*                                                                         *)
(* A block is one write() of the application: its path, its offset, its    *)
(* size and its fuse_file_info.  The field fi stands for the eleven fields *)
(* of fuse_file_info that block::is_mergeable compares; id numbers the     *)
(* writes in the order in which write() buffered them and identifies the   *)
(* bytes of the buffer: byte k of write id is the pair <<id, k>>.          *)
(***************************************************************************)
EXTENDS Integers, Sequences

CONSTANT
  MaxBlockSize  \* config::block_size_, the limit send_block merges up to

ASSUME MaxBlockSizeAssumption == MaxBlockSize \in Nat
-----------------------------------------------------------------------------
Buf(b) == [k \in 1 .. b.size |-> <<b.id, k>>]

\* A merge test that forgets to compare the file handles.
IsMergeableAnyHandle(b, c) ==
  /\ b.path = c.path
  /\ b.offset + b.size = c.offset

IsMergeable(b, c) ==
  /\ b.path = c.path
  /\ b.offset + b.size = c.offset
  /\ b.fi = c.fi

\* Number of bytes in the first n blocks of bs.
SizeOfFirst(bs, n) ==
  LET sum[i \in 0 .. n] == IF i = 0 THEN 0 ELSE sum[i - 1] + bs[i].size
  IN  sum[n]

SizeOf(bs) == SizeOfFirst(bs, Len(bs))

\* The limit tested on what the request already holds, without block i.
ContinuesLate(bs, i) ==
  /\ SizeOfFirst(bs, i - 1) <= MaxBlockSize
  /\ IsMergeable(bs[i - 1], bs[i])

\* The loop of send_block goes on past block i - 1: block i still fits in the
\* request and continues where block i - 1 ends.
Continues(bs, i) ==
  /\ SizeOfFirst(bs, i) <= MaxBlockSize
  /\ IsMergeable(bs[i - 1], bs[i])

\* n_blocks_sent_ = n after send_block: the loop took blocks 2 .. n and
\* stopped at the first block it could not take, or at the end.
IsMergeRun(bs, n) ==
  /\ n \in 1 .. Len(bs)
  /\ \A i \in 2 .. n : Continues(bs, i)
  /\ n < Len(bs) => ~ Continues(bs, n + 1)

\* The buffer of a merged request: the buffers of the first n blocks, copied
\* one after the other.
MergedBuf(bs, n) ==
  LET buf[i \in 0 .. n] == IF i = 0 THEN <<>> ELSE buf[i - 1] \o Buf(bs[i])
  IN  buf[n]

\* The WriteRequest of send_block: path, offset and file information of the
\* FIRST block, and the bytes of all n of them.
WriteRequest(bs, n) ==
  [path |-> bs[1].path, offset |-> bs[1].offset, fi |-> bs[1].fi,
   buf  |-> MergedBuf(bs, n), size |-> SizeOfFirst(bs, n)]
=============================================================================
