----------------------------- MODULE SendBlock ------------------------------
(***************************************************************************)
(* One call_data draining its deque of blocks through send_block, and the  *)
(* server applying each WriteRequest it receives on the stream with        *)
(* operations_.write.  The reference is the file the application asked     *)
(* for: every write() applied by itself, in the order of the calls.        *)
(*                                                                         *)
(* A file is a function from offsets to cells; a cell remembers the byte   *)
(* written and the fuse_file_info it was written through.                  *)
(***************************************************************************)
EXTENDS Blocks

CONSTANTS
  Paths,      \* the files
  Handles,    \* values of fuse_file_info
  Sizes,      \* sizes of one write()
  MaxOffset,  \* bound: the last offset that is written
  MaxWrites   \* bound: number of write() calls

ASSUME SendBlockAssumption ==
  /\ Sizes \subseteq Nat \ {0}
  /\ MaxOffset \in Nat
  /\ MaxWrites \in Nat

VARIABLES
  deque,      \* call_data::blocks_, the writes not sent yet
  disk,       \* the files of the server
  reference,  \* the files as the application wrote them
  written,    \* number of write() calls so far
  merged      \* size of the largest request so far that was made of several blocks

vars == <<deque, disk, reference, written, merged>>

Hole == <<>>
Cells == 0 .. MaxOffset

\* operations_.write of the server: size bytes of buf at offset, through fi.
Write(files, path, buf, size, offset, fi) ==
  [files EXCEPT ![path] =
     [o \in Cells |-> IF o \in offset .. offset + size - 1
                      THEN <<buf[o - offset + 1], fi>>
                      ELSE @[o]]]

WriteBlock(files, b) == Write(files, b.path, Buf(b), b.size, b.offset, b.fi)

\* The files after all blocks of bs were written one by one.
WriteAll(files, bs) ==
  LET after[i \in 0 .. Len(bs)] ==
        IF i = 0 THEN files ELSE WriteBlock(after[i - 1], bs[i])
  IN  after[Len(bs)]

Empty == [p \in Paths |-> [o \in Cells |-> Hole]]

Init ==
  /\ deque = <<>>
  /\ disk = Empty
  /\ reference = Empty
  /\ written = 0
  /\ merged = 0

\* async_client::write: the block enters the deque.
Push(path, offset, size, fi) ==
  /\ written < MaxWrites
  /\ offset + size - 1 <= MaxOffset
  /\ LET b == [id |-> written + 1, path |-> path, offset |-> offset,
               size |-> size, fi |-> fi]
     IN  /\ deque' = Append(deque, b)
         /\ reference' = WriteBlock(reference, b)
  /\ written' = written + 1
  /\ UNCHANGED <<disk, merged>>

\* send_block, the server's write of the request, and the pops of proceed.
Send ==
  \E n \in DOMAIN deque :
    /\ IsMergeRun(deque, n)
    /\ LET r == WriteRequest(deque, n)
       IN  /\ disk' = Write(disk, r.path, r.buf, r.size, r.offset, r.fi)
           /\ merged' = IF n > 1 /\ r.size > merged THEN r.size ELSE merged
    /\ deque' = SubSeq(deque, n + 1, Len(deque))
    /\ UNCHANGED <<reference, written>>

Next ==
  \/ \E p \in Paths, o \in Cells, s \in Sizes, fi \in Handles : Push(p, o, s, fi)
  \/ Send

Spec == Init /\ [][Next]_vars
-----------------------------------------------------------------------------
\* Whatever send_block merged, the files of the server plus the blocks still
\* in the deque are the files the application wrote: a merged request has the
\* effect of its blocks written one by one, through the handle each came with.
MergeKeepsContent == WriteAll(disk, deque) = reference

\* send_block never merges past config::block_size_; only a single write() that
\* is larger by itself makes a larger request.
RequestFits == merged <= MaxBlockSize
=============================================================================
