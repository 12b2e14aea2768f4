--------------------------- MODULE AsyncClientInv ---------------------------
(***************************************************************************)
(* The inductive invariant of AsyncClient and the refinement mapping to    *)
(* WriteBehind.  The numbers of the writes tie the queues together: every  *)
(* queue holds consecutive writes, and each queue begins where the one     *)
(* before it in the pipeline ends:                                         *)
(*                                                                         *)
(*   applied | stream of the call | its blocks | calls_ | blocks_          *)
(***************************************************************************)
EXTENDS AsyncClient

\* bs holds the writes number a + 1 .. b of ws.
Segment(ws, bs, a, b) ==
  /\ a \in Nat
  /\ b = a + Len(bs)
  /\ b <= Len(ws)
  /\ \A j \in 1 .. Len(bs) : bs[j] = ws[a + j]

\* The number of the last write before element k of the queue q, when the
\* queue begins after write number a.
Before(q, a, k) == IF k = 1 THEN a ELSE q[k - 1].upto

\* The elements of q hold consecutive segments, from write a + 1 to write b.
Chain(ws, q, a, b) ==
  /\ a \in Nat
  /\ \A k \in 1 .. Len(q) : Segment(ws, q[k].blocks, Before(q, a, k), q[k].upto)
  /\ b = Before(q, a, Len(q) + 1)

\* blocks_ begins after write number Taken, calls_ after write number Started
\* and the client's queues as a whole after write number Popped.
Taken == Len(issued) - Len(blocks)

Popped ==
  IF active # <<>> THEN active[1].upto - Len(active[1].blocks)
  ELSE IF calls # <<>> THEN calls[1].upto - Len(calls[1].blocks)
  ELSE Taken

Started == IF active # <<>> THEN active[1].upto ELSE Popped

\* Event e is in the queue s; it is there at most once.
Has(s, e) == \E i \in 1 .. Len(s) : s[i] = e
AtMostOnce(s, e) == \A i, j \in 1 .. Len(s) : s[i] = e /\ s[j] = e => i = j

\* scheduler(): flushing is one call under way or one CALL_ENDED on its way.
SchedulerInv ==
  /\ active = <<>> \/ Len(active) = 1
  /\ ~ flushing => active = <<>> /\ ~ Has(channel, "CALL_ENDED")
  /\ flushing /\ active # <<>> => ~ Has(channel, "CALL_ENDED")
  /\ flushing /\ active = <<>> => Has(channel, "CALL_ENDED")
  /\ AtMostOnce(channel, "CALL_ENDED")
  /\ scheduler = "running" /\ calls # <<>> /\ ~ flushing => Has(channel, "FLUSH_REQUEST")

\* The stages of a call under way.
CallInv ==
  active # <<>> =>
    LET c == active[1]
    IN  /\ c.sent <= Len(c.blocks)
        /\ c.status = "CREATE" => c.sent = 0 /\ c.blocks # <<>>
        /\ c.status \in {"WRITES_DONE", "FINISHED"} => c.blocks = <<>>
        /\ c.server = "FINISHED" => /\ c.stream = <<>>
                                    /\ c.status \in {"WRITES_DONE", "FINISHED"}

\* The queues of the client hold consecutive writes.
QueuesInv ==
  /\ Segment(issued, blocks, Taken, Len(issued))
  /\ active # <<>> => Segment(issued, active[1].blocks, Popped, active[1].upto)
  /\ Chain(issued, calls, Started, Taken)

\* Without faults, what the server applied ends where the stream begins, and
\* the stream ends with the blocks that were sent and not popped yet.
ServerInv ==
  NoFaults =>
    /\ late = <<>>
    /\ Segment(issued, applied, 0, Len(applied))
    /\ active = <<>> => Len(applied) = Popped
    /\ active # <<>> => /\ ~ active[1].broken
                        /\ Chain(issued, active[1].stream, Len(applied), Popped + active[1].sent)

IsPending(w, c) == future[w] = "pending" /\ span[w].upto = c.upto

\* The futures of the threads and of the destructor.
OwnerInv ==
  /\ \A t \in Threads :
       /\ pc[t] = "idle" => future[t] = "none"
       /\ pc[t] = "full" => arg[t] \in Shapes
       /\ pc[t] = "rpc" => future[t] \in {"true", "false"}
  /\ dtor = "alive" => future[Dtor] = "none"

\* A call knows its waiter, and no two calls have the same one.
WaiterInv ==
  /\ \A k \in 1 .. Len(calls) :
       calls[k].waiter # Nobody =>
         /\ IsPending(calls[k].waiter, calls[k])
         /\ \A j \in 1 .. Len(calls) : calls[j].waiter = calls[k].waiter => j = k
         /\ active # <<>> => active[1].waiter # calls[k].waiter
  /\ active # <<>> /\ active[1].waiter # Nobody =>
       IsPending(active[1].waiter, active[1])

\* A future that is ready covers what was issued before its call was made.
ReadyInv ==
  NoFaults => \A w \in Waiters :
                future[w] \in {"true", "false"} => span[w].upto <= Len(applied)

\* Destruction: nothing is written any more, and whatever is scheduled behind
\* the call of the destructor is empty.
DtorInv ==
  /\ dtor # "alive" => /\ \A t \in Threads : pc[t] = "idle"
                       /\ blocks = <<>>
                       /\ span[Dtor].upto = Len(issued)
  /\ dtor = "draining" => future[Dtor] # "none"
  /\ dtor \in {"joining", "shutdown", "destroyed"} =>
       future[Dtor] \in {"true", "false"}
  /\ Has(channel, "TERMINATED") \/ scheduler = "terminated" =>
       dtor \in {"joining", "shutdown", "destroyed"}
  /\ \A k \in 1 .. Len(calls) :
       calls[k].waiter = Dtor =>
         \A j \in k + 1 .. Len(calls) : calls[j].blocks = <<>>
  /\ active # <<>> /\ active[1].waiter = Dtor =>
       \A j \in 1 .. Len(calls) : calls[j].blocks = <<>>
  /\ future[Dtor] \in {"true", "false"} =>
       /\ active = <<>>
       /\ \A j \in 1 .. Len(calls) : calls[j].blocks = <<>>

\* The inductive invariant: the scheduler, the call under way, the order of
\* the queues, the server, the futures and the destructor.
IndInv ==
  /\ TypeOK
  /\ SchedulerInv
  /\ CallInv
  /\ QueuesInv
  /\ ServerInv
  /\ OwnerInv
  /\ WaiterInv
  /\ ReadyInv
  /\ DtorInv
-----------------------------------------------------------------------------
(* The bytes of the cache and the truth of the futures: what IndInv leaves  *)
(* out, inductive together with it.                                        *)

\* The writes are numbered, and each ends where its bytes end.  The counters
\* are differences of such ends: blocks_queue_size_ counts the writes after
\* Taken, cache_size_ those after Popped.
ByteInv ==
  /\ \A n \in 1 .. Len(issued) :
       issued[n].id = n /\ issued[n].end = Total(n - 1) + issued[n].size
  /\ blocksQueueSize = Total(Len(issued)) - Total(Taken)
  /\ cacheSize = Total(Len(issued)) - Total(Popped)

\* A write() that waits for room holds mtx_blocks_, so that nothing is buffered
\* behind its flush.
FullInv ==
  \A t \in Threads : pc[t] = "full" => mtxBlocks = t /\ span[t].upto = Len(issued)

\* A future that is ready says that the blocks of its call were popped.
PoppedInv ==
  \A w \in Waiters : future[w] \in {"true", "false"} => span[w].upto <= Popped

\* Write number n was applied; it is on its way in a stream.
IsApplied(n) == \E i \in 1 .. Len(applied) : applied[i].id = n
InStream(s, n) ==
  \E k \in 1 .. Len(s) : \E j \in 1 .. Len(s[k].blocks) : s[k].blocks[j].id = n

\* Unless the server dropped an error: what a call that was not broken has sent
\* so far was applied or is in its stream, and a future that is true tells that
\* all of it was applied.
TruthInv ==
  /\ \A k \in 1 .. Len(calls) :
       calls[k].waiter # Nobody =>
         span[calls[k].waiter].from = calls[k].upto - Len(calls[k].blocks)
  /\ errors = 0 =>
       /\ active # <<>> /\ ~ active[1].broken /\ active[1].waiter # Nobody =>
            \A n \in span[active[1].waiter].from + 1 .. Popped + active[1].sent :
              IsApplied(n) \/ InStream(active[1].stream, n)
       /\ \A w \in Waiters : future[w] = "true" =>
            \A n \in span[w].from + 1 .. span[w].upto : IsApplied(n)

\* cache_size_ and blocks_queue_size_ are exact at every step of write(), of the
\* timer and of the calls, nothing is buffered behind a write() that waits, and
\* a future is never ahead of what its call has sent and the server applied.
HeldInv == ByteInv /\ FullInv /\ PoppedInv /\ TruthInv
-----------------------------------------------------------------------------
WB == INSTANCE WriteBehind WITH
        Clients  <- Threads,
        Writes   <- Block,
        accepted <- issued,
        stored   <- applied,
        promise  <- [t \in Threads |-> IF pc[t] \in {"drain", "rpc"}
                                       THEN span[t].upto ELSE -1],
        closed   <- scheduler = "terminated"

\* Without faults the client behaves like the write-behind buffer it stands
\* for: async_client::write, flush, fsync and the destructor do what
\* WriteBehind says, whatever their threads do in between.
ImplementsWriteBehind == WB!Spec
=============================================================================
