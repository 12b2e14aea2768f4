------------------------------ MODULE ReadAhead -----------------------------
(* The read-ahead layer: one buffer per open path, shared by the handles of   *)
(* the path, filled by a read it cannot answer and kept until a release.  A   *)
(* byte is the number of the version of the file it was read from.            *)
EXTENDS Naturals, Sequences, FiniteSets, Functions

CONSTANTS Paths,
          Ahead          \* config size_: the least a read of the next layer asks for

VARIABLES buffers,       \* buffers_: path to [offset, bytes]
          file           \* the next layer: path to [ver, len]

\* The bytes from offset on: n, or as many as there are.
Slice(bytes, offset, n) ==
    SubSeq(bytes, offset + 1, IF offset + n > Len(bytes) THEN Len(bytes) ELSE offset + n)
Content(p) == [i \in 1 .. file[p].len |-> file[p].ver]

NoBuffer == [set |-> FALSE, offset |-> 0, bytes |-> <<>>]
NoBuffers == [p \in {} |-> NoBuffer]

\* Mutation: no buffer is made.
ra_openForgets(p) == UNCHANGED buffers
\* cache::open: the buffer is made unless there is one.
ra_open(p) ==
    buffers' = [q \in DOMAIN buffers \cup {p} |->
                  IF q \in DOMAIN buffers THEN buffers[q] ELSE NoBuffer]

\* cache::release
ra_release(p) == buffers' = Restrict(buffers, DOMAIN buffers \ {p})

\* buffer::read: only a buffer with all of the bytes asked for answers.
ra_hit(p, offset, n) ==
    LET b == buffers[p]
    IN b.set /\ offset >= b.offset /\ offset + n <= b.offset + Len(b.bytes)
ra_bytes(p, offset, n) == Slice(buffers[p].bytes, offset - buffers[p].offset, n)

\* The read of the next layer, of at least Ahead bytes, and buffer::update.
ra_fetch(p, offset, n) == Slice(Content(p), offset, IF n > Ahead THEN n ELSE Ahead)
ra_update(p, offset, bytes) ==
    buffers' = [buffers EXCEPT ![p] = [set |-> TRUE, offset |-> offset, bytes |-> bytes]]
=============================================================================
