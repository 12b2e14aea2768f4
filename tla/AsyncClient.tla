---------------------------- MODULE AsyncClient -----------------------------
(***************************************************************************)
(* The write-behind client (fuse_rpc::grpc::async_client) and the server   *)
(* side of its stream (server::ac_stream_write_data).                      *)
(*                                                                         *)
(* Threads of the program:                                                 *)
(*  - FUSE threads call write(), flush() and fsync();                      *)
(*  - the scheduler thread receives events from channel_ and starts at     *)
(*    most one call_data at a time;                                        *)
(*  - the completion-queue threads drive a started call_data through       *)
(*    CREATE, WRITE, WRITES_DONE and FINISHED;                             *)
(*  - the io_context thread runs the handler of the one-second timer;      *)
(*  - the thread that destroys the client;                                 *)
(*  - the server applies the requests of a stream in order.                *)
(*                                                                         *)
(* Critical sections are single steps.  mtx_blocks_ is a variable because  *)
(* write() keeps it while it waits for a future; mtx_calls_ is never kept  *)
(* across a wait.  The receive of an event and its handling are one step:  *)
(* the receive takes the head of a FIFO queue, which no other thread       *)
(* takes, so it can be delayed to the handling.  call_data::end is one     *)
(* step for the same reason: only the owner of the future sees set_value,  *)
(* and it wakes up in a later step of its own.                             *)
(***************************************************************************)
EXTENDS Blocks

CONSTANTS
  Threads,         \* FUSE threads
  Shapes,          \* the writes they may issue: [path, offset, size, fi]
  CacheSize,       \* config::cache_size_
  FlushThreshold,  \* config::flush_threshold_, in bytes after the constructor
  MaxWrites,       \* bound: number of write() calls
  MaxFlushes,      \* bound: number of flush() and fsync() calls
  MaxBreaks,       \* bound: number of streams that break
  MaxErrors        \* bound: number of requests whose write fails on the server

Dtor == "dtor"      \* the destructor, as the owner of a future
Nobody == "nobody"  \* the owner of a future that nobody waits for

ASSUME AsyncClientAssumption ==
  /\ Dtor \notin Threads
  /\ Nobody \notin Threads
  /\ \A w \in Shapes : w.size \in Nat
  /\ CacheSize \in Nat
  /\ FlushThreshold \in 0 .. CacheSize
  /\ MaxWrites \in Nat
  /\ MaxFlushes \in Nat
  /\ MaxBreaks \in Nat
  /\ MaxErrors \in Nat

VARIABLES
  pc,               \* what each FUSE thread is doing
  arg,              \* the write of a thread that waits for room
  mtxBlocks,        \* holder of mtx_blocks_ across steps
  blocks,           \* blocks_
  blocksQueueSize,  \* blocks_queue_size_
  cacheSize,        \* cache_size_
  calls,            \* calls_: call_data not started yet
  active,           \* call_data started and not ended
  channel,          \* channel_
  flushing,         \* local variable of scheduler()
  scheduler,        \* "running" or "terminated"
  timer,            \* "idle" or "armed"
  handler,          \* "none" or "ready": a timer handler to be run
  dtor,             \* progress of the destructor
  future,           \* the future each waiter holds
  issued,           \* history: every write() buffered, in order
  applied,          \* the writes the server applied, in order
  late,             \* requests the server still holds, per broken stream
  span,             \* history: the writes the call of each waiter carries
  flushes, breaks, errors  \* counters for the bounds

clientVars == <<blocks, blocksQueueSize, cacheSize, issued>>
threadVars == <<pc, arg, mtxBlocks>>
faultVars  == <<late, breaks, errors>>

vars == <<pc, arg, mtxBlocks, blocks, blocksQueueSize, cacheSize, calls, active,
          channel, flushing, scheduler, timer, handler, dtor, future, issued,
          applied, late, span, flushes, breaks, errors>>

Waiters == Threads \cup {Dtor}
NoSpan == [from |-> 0, upto |-> 0]

Init ==
  /\ pc = [t \in Threads |-> "idle"]
  /\ arg = [t \in Threads |-> <<>>]
  /\ mtxBlocks = Nobody
  /\ blocks = <<>>
  /\ blocksQueueSize = 0
  /\ cacheSize = 0
  /\ calls = <<>>
  /\ active = <<>>
  /\ channel = <<>>
  /\ flushing = FALSE
  /\ scheduler = "running"
  /\ timer = "idle"
  /\ handler = "none"
  /\ dtor = "alive"
  /\ future = [w \in Waiters |-> "none"]
  /\ issued = <<>>
  /\ applied = <<>>
  /\ late = <<>>
  /\ span = [w \in Waiters |-> NoSpan]
  /\ flushes = 0
  /\ breaks = 0
  /\ errors = 0
-----------------------------------------------------------------------------
(* Buffering and scheduling, under mtx_blocks_.                            *)

\* schedule_flush: a new call_data takes all of blocks_ and goes to the end
\* of calls_; w will wait for its future.  The caller resets blocks_.
ScheduleFlush(w) ==
  /\ calls' = Append(calls, [blocks |-> blocks, upto |-> Len(issued), waiter |-> w])
  /\ channel' = Append(channel, "FLUSH_REQUEST")
  /\ IF w = Nobody
     THEN UNCHANGED <<future, span>>
     ELSE /\ future' = [future EXCEPT ![w] = "pending"]
          /\ span' = [span EXCEPT ![w] = [from |-> Len(issued) - Len(blocks),
                                          upto |-> Len(issued)]]

\* future.get() that does not wait.
IsReadyNow(w) == future[w] # "none"

\* future.get(): the promise of the call of w has been set.
IsReady(w) == future[w] \in {"true", "false"}

\* A timer that is cancelled and not started again.
CancelTimer == timer' = "idle"

\* timer_.expires_after and async_wait.
RestartTimer == timer' = "armed"

\* History: the bytes of the first n writes, kept in the field end of block n.
Total(n) == IF n = 0 THEN 0 ELSE issued[n].end

\* The tail of write(): the block enters the buffer bs, which holds n bytes,
\* and the timer is started again.
Emplace(bs, n, w) ==
  LET b == [id |-> Len(issued) + 1, path |-> w.path, offset |-> w.offset,
            size |-> w.size, fi |-> w.fi, end |-> Total(Len(issued)) + w.size]
  IN  /\ blocks' = Append(bs, b)
      /\ blocksQueueSize' = n + w.size
      /\ cacheSize' = cacheSize + w.size
      /\ issued' = Append(issued, b)
      /\ RestartTimer

\* write() with room in the cache.
Write(t, w) ==
  /\ pc[t] = "idle" /\ dtor = "alive" /\ mtxBlocks = Nobody
  /\ Len(issued) < MaxWrites
  /\ cacheSize <= CacheSize
  /\ blocksQueueSize <= FlushThreshold
  /\ Emplace(blocks, blocksQueueSize, w)
  /\ UNCHANGED <<threadVars, faultVars, calls, active, channel, flushing, scheduler,
                 handler, dtor, future, applied, span, flushes>>

\* write() past the threshold: a flush is scheduled, nobody waits for it.
WriteAndSchedule(t, w) ==
  /\ pc[t] = "idle" /\ dtor = "alive" /\ mtxBlocks = Nobody
  /\ Len(issued) < MaxWrites
  /\ cacheSize <= CacheSize
  /\ blocksQueueSize > FlushThreshold
  /\ ScheduleFlush(Nobody)
  /\ Emplace(<<>>, 0, w)
  /\ UNCHANGED <<threadVars, faultVars, active, flushing, scheduler, handler, dtor,
                 applied, flushes>>

\* write() with the cache full: the timer is cancelled, a flush is scheduled
\* and the thread waits for it, holding mtx_blocks_.
WriteFull(t, w) ==
  /\ pc[t] = "idle" /\ dtor = "alive" /\ mtxBlocks = Nobody
  /\ Len(issued) < MaxWrites
  /\ cacheSize > CacheSize
  /\ ScheduleFlush(t)
  /\ blocks' = <<>>
  /\ blocksQueueSize' = 0
  /\ timer' = "idle"
  /\ mtxBlocks' = t
  /\ pc' = [pc EXCEPT ![t] = "full"]
  /\ arg' = [arg EXCEPT ![t] = w]
  /\ UNCHANGED <<faultVars, cacheSize, issued, active, flushing, scheduler, handler,
                 dtor, applied, flushes>>

\* The future is ready: write() buffers its block and releases mtx_blocks_.
WriteResume(t) ==
  /\ pc[t] = "full"
  /\ IsReady(t)
  /\ Emplace(blocks, blocksQueueSize, arg[t])
  /\ mtxBlocks' = Nobody
  /\ pc' = [pc EXCEPT ![t] = "idle"]
  /\ arg' = [arg EXCEPT ![t] = <<>>]
  /\ future' = [future EXCEPT ![t] = "none"]
  /\ span' = [span EXCEPT ![t] = NoSpan]
  /\ UNCHANGED <<faultVars, calls, active, channel, flushing, scheduler, handler,
                 dtor, applied, flushes>>

\* flush() and fsync(): schedule_flush().get() ...
Flush(t) ==
  /\ pc[t] = "idle" /\ dtor = "alive" /\ mtxBlocks = Nobody
  /\ flushes < MaxFlushes
  /\ flushes' = flushes + 1
  /\ ScheduleFlush(t)
  /\ blocks' = <<>>
  /\ blocksQueueSize' = 0
  /\ pc' = [pc EXCEPT ![t] = "drain"]
  /\ UNCHANGED <<faultVars, arg, mtxBlocks, cacheSize, issued, active, flushing,
                 scheduler, timer, handler, dtor, applied>>

\* ... whose value is ignored ...
FlushDrained(t) ==
  /\ pc[t] = "drain"
  /\ IsReady(t)
  /\ pc' = [pc EXCEPT ![t] = "rpc"]
  /\ UNCHANGED <<clientVars, faultVars, arg, mtxBlocks, calls, active, channel, flushing,
                 scheduler, timer, handler, dtor, future, applied, span, flushes>>

\* ... then the Flush or Fsync RPC of sync_client, whose result is returned.
FlushRPC(t) ==
  /\ pc[t] = "rpc"
  /\ pc' = [pc EXCEPT ![t] = "idle"]
  /\ future' = [future EXCEPT ![t] = "none"]
  /\ span' = [span EXCEPT ![t] = NoSpan]
  /\ UNCHANGED <<clientVars, faultVars, arg, mtxBlocks, calls, active, channel, flushing,
                 scheduler, timer, handler, dtor, applied, flushes>>
-----------------------------------------------------------------------------
(* The scheduler thread.                                                   *)

\* Resolve the future of waiter w with value v (promise_.set_value).
Resolve(w, v) ==
  future' = IF w = Nobody THEN future
            ELSE [future EXCEPT ![w] = IF v THEN "true" ELSE "false"]

\* Take the first call of calls_ and start() it.  A call without blocks ends
\* at once: CALL_ENDED is sent and its future is true.  rest is the channel
\* without the event that is being handled.
StartNext(rest) ==
  LET c == Head(calls)
  IN  /\ calls' = Tail(calls)
      /\ flushing' = TRUE
      /\ IF c.blocks = <<>>
         THEN /\ channel' = Append(rest, "CALL_ENDED")
              /\ Resolve(c.waiter, TRUE)
              /\ UNCHANGED active
         ELSE /\ channel' = rest
              /\ active' = Append(active,
                   [status |-> "CREATE", blocks |-> c.blocks, upto |-> c.upto,
                    waiter |-> c.waiter, sent |-> 0, stream |-> <<>>,
                    server |-> "READ", broken |-> FALSE])
              /\ UNCHANGED future

\* CALL_ENDED that leaves the next call to the next FLUSH_REQUEST.
OnCallEndedIdle ==
  /\ scheduler = "running"
  /\ channel # <<>> /\ Head(channel) = "CALL_ENDED"
  /\ channel' = Tail(channel)
  /\ flushing' = FALSE
  /\ UNCHANGED <<threadVars, clientVars, faultVars, calls, active, future, scheduler,
                 timer, handler, dtor, applied, span, flushes>>

OnCallEnded ==
  /\ scheduler = "running"
  /\ channel # <<>> /\ Head(channel) = "CALL_ENDED"
  /\ IF calls # <<>>
     THEN StartNext(Tail(channel))
     ELSE /\ channel' = Tail(channel)
          /\ flushing' = FALSE
          /\ UNCHANGED <<calls, active, future>>
  /\ UNCHANGED <<threadVars, clientVars, faultVars, scheduler, timer, handler, dtor,
                 applied, span, flushes>>

\* The test of FLUSH_REQUEST without flushing.
MayStartAlways == calls # <<>>

\* FLUSH_REQUEST starts a call only when none is under way.
MayStart == calls # <<>> /\ ~ flushing

OnFlushRequest ==
  /\ scheduler = "running"
  /\ channel # <<>> /\ Head(channel) = "FLUSH_REQUEST"
  /\ IF MayStart
     THEN StartNext(Tail(channel))
     ELSE /\ channel' = Tail(channel)
          /\ UNCHANGED <<calls, active, future, flushing>>
  /\ UNCHANGED <<threadVars, clientVars, faultVars, scheduler, timer, handler, dtor,
                 applied, span, flushes>>

\* TERMINATED that is dropped when events are pending.
OnTerminatedDropped ==
  /\ scheduler = "running"
  /\ channel # <<>> /\ Head(channel) = "TERMINATED"
  /\ channel' = Tail(channel)
  /\ scheduler' = IF Tail(channel) # <<>> THEN scheduler ELSE "terminated"
  /\ UNCHANGED <<threadVars, clientVars, faultVars, calls, active, flushing, timer,
                 handler, dtor, future, applied, span, flushes>>

\* TERMINATED goes to the back of the queue as long as events are pending.
OnTerminated ==
  /\ scheduler = "running"
  /\ channel # <<>> /\ Head(channel) = "TERMINATED"
  /\ IF Tail(channel) # <<>>
     THEN /\ channel' = Append(Tail(channel), "TERMINATED")
          /\ UNCHANGED scheduler
     ELSE /\ channel' = <<>>
          /\ scheduler' = "terminated"
  /\ UNCHANGED <<threadVars, clientVars, faultVars, calls, active, flushing, timer,
                 handler, dtor, future, applied, span, flushes>>
-----------------------------------------------------------------------------
(* call_data::proceed, run by the completion-queue threads.  A started     *)
(* call always has exactly one operation outstanding.  The parameter i is  *)
(* the position of the call in active.  The branch of CREATE for a call    *)
(* without blocks is never reached: start() ends such a call.              *)

\* send_block: a merged request of the first n blocks leaves on the stream of
\* c; a broken stream loses it.  upto numbers the last write of the request.
SendBlock(c, n) ==
  [c EXCEPT !.status = "WRITE", !.sent = n,
            !.stream = IF c.broken THEN @
                       ELSE Append(@, [blocks |-> SubSeq(c.blocks, 1, n),
                                       upto |-> c.upto - Len(c.blocks) + n])]

ProceedCreate(i) ==
  LET c == active[i]
  IN  /\ c.status = "CREATE"
      /\ \E n \in DOMAIN c.blocks :
           /\ IsMergeRun(c.blocks, n)
           /\ active' = [active EXCEPT ![i] = SendBlock(c, n)]
      /\ UNCHANGED <<threadVars, clientVars, faultVars, calls, channel, flushing,
                     scheduler, timer, handler, dtor, future, applied, span, flushes>>

\* A pop that forgets cache_size_.
UncountNothing(b) == UNCHANGED cacheSize

\* cache_size_ -= block.size_
Uncount(b) == cacheSize' = cacheSize - b.size

\* A request was handed over: its blocks are popped one by one, each leaving
\* the atomic cache_size_ that write() reads meanwhile.  The flag ok of the
\* completion is not looked at.
ProceedPop(i) ==
  LET c == active[i]
  IN  /\ c.status = "WRITE" /\ c.sent > 0
      /\ Uncount(Head(c.blocks))
      /\ active' = [active EXCEPT ![i] = [c EXCEPT !.blocks = Tail(@), !.sent = @ - 1]]
      /\ UNCHANGED <<threadVars, faultVars, blocks, blocksQueueSize, issued, calls,
                     channel, flushing, scheduler, timer, handler, dtor, future,
                     applied, span, flushes>>

\* All popped: the next request is sent ...
ProceedWrite(i) ==
  LET c == active[i]
  IN  /\ c.status = "WRITE" /\ c.sent = 0
      /\ \E n \in DOMAIN c.blocks :
           /\ IsMergeRun(c.blocks, n)
           /\ active' = [active EXCEPT ![i] = SendBlock(c, n)]
      /\ UNCHANGED <<threadVars, clientVars, faultVars, calls, channel, flushing,
                     scheduler, timer, handler, dtor, future, applied, span, flushes>>

\* ... or, with no block left, the client closes its side of the stream.
ProceedLast(i) ==
  LET c == active[i]
  IN  /\ c.status = "WRITE" /\ c.sent = 0 /\ c.blocks = <<>>
      /\ active' = [active EXCEPT ![i] = [c EXCEPT !.status = "WRITES_DONE"]]
      /\ UNCHANGED <<threadVars, clientVars, faultVars, calls, channel, flushing,
                     scheduler, timer, handler, dtor, future, applied, span, flushes>>

ProceedWritesDone(i) ==
  LET c == active[i]
  IN  /\ c.status = "WRITES_DONE"
      /\ active' = [active EXCEPT ![i] = [c EXCEPT !.status = "FINISHED"]]
      /\ UNCHANGED <<threadVars, clientVars, faultVars, calls, channel, flushing,
                     scheduler, timer, handler, dtor, future, applied, span, flushes>>

\* Finish that does not wait for the server, and a status nobody looks at.
IsFinishedEarly(c) == c.status = "FINISHED"
StatusIgnored(c) == TRUE

\* Finish completes with the status of the server, or with an error when the
\* stream broke.
IsFinished(c) == c.status = "FINISHED" /\ (c.broken \/ c.server = "FINISHED")
StatusOk(c) == ~ c.broken

\* end(): CALL_ENDED, set_value, delete.
ProceedFinished(i) ==
  LET c == active[i]
  IN  /\ IsFinished(c)
      /\ active' = SubSeq(active, 1, i - 1) \o SubSeq(active, i + 1, Len(active))
      /\ channel' = Append(channel, "CALL_ENDED")
      /\ Resolve(c.waiter, StatusOk(c))
      /\ UNCHANGED <<threadVars, clientVars, faultVars, calls, flushing, scheduler,
                     timer, handler, dtor, applied, span, flushes>>
-----------------------------------------------------------------------------
(* The server: ac_stream_write_data::proceed.                              *)

\* operations_.write of the next request of the stream.  fails: the write
\* returns an error, which the handler drops.
ServerWrite(i, fails) ==
  LET c == active[i]
  IN  /\ c.server = "READ" /\ c.stream # <<>>
      /\ active' = [active EXCEPT ![i] = [c EXCEPT !.stream = Tail(@)]]
      /\ IF fails
         THEN /\ errors < MaxErrors
              /\ errors' = errors + 1
              /\ UNCHANGED applied
         ELSE /\ applied' = applied \o Head(c.stream).blocks
              /\ UNCHANGED errors
      /\ UNCHANGED <<threadVars, clientVars, late, breaks, calls, channel, flushing,
                     scheduler, timer, handler, dtor, future, span, flushes>>

\* The client closed its side and every request was read: Finish(Status::OK).
ServerFinish(i) ==
  LET c == active[i]
  IN  /\ c.server = "READ" /\ c.stream = <<>> /\ ~ c.broken
      /\ c.status \in {"WRITES_DONE", "FINISHED"}
      /\ active' = [active EXCEPT ![i] = [c EXCEPT !.server = "FINISHED"]]
      /\ UNCHANGED <<threadVars, clientVars, faultVars, calls, channel, flushing,
                     scheduler, timer, handler, dtor, future, applied, span, flushes>>

\* The stream breaks.  The server may have received the first k requests in
\* flight already and apply them whenever it gets to them; the others are lost.
StreamBreak(i, k) ==
  LET c == active[i]
  IN  /\ breaks < MaxBreaks
      /\ ~ c.broken
      /\ k \in 0 .. Len(c.stream)
      /\ breaks' = breaks + 1
      /\ active' = [active EXCEPT ![i] = [c EXCEPT !.broken = TRUE, !.stream = <<>>]]
      /\ late' = Append(late, SubSeq(c.stream, 1, k))
      /\ UNCHANGED <<threadVars, clientVars, errors, calls, channel, flushing,
                     scheduler, timer, handler, dtor, future, applied, span, flushes>>

ServerLateWrite(j) ==
  /\ late[j] # <<>>
  /\ late' = [late EXCEPT ![j] = Tail(@)]
  /\ applied' = applied \o Head(late[j]).blocks
  /\ UNCHANGED <<threadVars, clientVars, breaks, errors, calls, active, channel,
                 flushing, scheduler, timer, handler, dtor, future, span, flushes>>
-----------------------------------------------------------------------------
(* The timer and the destructor.                                           *)

\* One second without a write(): the io_context thread takes the handler.
\* It takes no other one before it has run it.
TimerExpire ==
  /\ timer = "armed" /\ handler = "none" /\ dtor # "destroyed"
  /\ timer' = "idle"
  /\ handler' = "ready"
  /\ UNCHANGED <<threadVars, clientVars, faultVars, calls, active, channel, flushing,
                 scheduler, dtor, future, applied, span, flushes>>

\* The handler calls schedule_flush once it gets mtx_blocks_.
TimerHandler ==
  /\ handler = "ready" /\ mtxBlocks = Nobody /\ dtor # "destroyed"
  /\ handler' = "none"
  /\ ScheduleFlush(Nobody)
  /\ blocks' = <<>>
  /\ blocksQueueSize' = 0
  /\ UNCHANGED <<threadVars, faultVars, cacheSize, issued, active, flushing, scheduler,
                 timer, dtor, applied, flushes>>

\* ~async_client, called when no operation of FUSE is running:
\* schedule_flush().get() ...
Destroy ==
  /\ dtor = "alive"
  /\ \A t \in Threads : pc[t] = "idle"
  /\ dtor' = "draining"
  /\ ScheduleFlush(Dtor)
  /\ blocks' = <<>>
  /\ blocksQueueSize' = 0
  /\ UNCHANGED <<threadVars, faultVars, cacheSize, issued, active, flushing, scheduler,
                 timer, handler, applied, flushes>>

\* ... channel_.send(TERMINATED) ...
DestroySend ==
  /\ dtor = "draining"
  /\ IsReady(Dtor)
  /\ channel' = Append(channel, "TERMINATED")
  /\ dtor' = "joining"
  /\ UNCHANGED <<threadVars, clientVars, faultVars, calls, active, flushing, scheduler,
                 timer, handler, future, applied, span, flushes>>

\* ... scheduler_.join(), cq_.Shutdown() ...
DestroyJoin ==
  /\ dtor = "joining"
  /\ scheduler = "terminated"
  /\ dtor' = "shutdown"
  /\ UNCHANGED <<threadVars, clientVars, faultVars, calls, active, channel, flushing,
                 scheduler, timer, handler, future, applied, span, flushes>>

\* ... join of the completion-queue threads, which end when no operation is
\* outstanding, and io_context_.stop(), which drops the timer.
DestroyStop ==
  /\ dtor = "shutdown"
  /\ active = <<>>
  /\ dtor' = "destroyed"
  /\ timer' = "idle"
  /\ handler' = "none"
  /\ UNCHANGED <<threadVars, clientVars, faultVars, calls, active, channel, flushing,
                 scheduler, future, applied, span, flushes>>

Destroyed == dtor = "destroyed" /\ UNCHANGED vars
-----------------------------------------------------------------------------
Proceed(i) ==
  \/ ProceedCreate(i)
  \/ ProceedPop(i)
  \/ ProceedWrite(i)
  \/ ProceedLast(i)
  \/ ProceedWritesDone(i)
  \/ ProceedFinished(i)

Thread(t) ==
  \/ \E w \in Shapes : Write(t, w) \/ WriteAndSchedule(t, w) \/ WriteFull(t, w)
  \/ WriteResume(t)
  \/ Flush(t)
  \/ FlushDrained(t)
  \/ FlushRPC(t)

Scheduler == OnCallEnded \/ OnFlushRequest \/ OnTerminated

Server(i) == ServerWrite(i, FALSE) \/ ServerFinish(i)

Faults ==
  \/ \E i \in DOMAIN active : ServerWrite(i, TRUE)
  \/ \E i \in DOMAIN active : \E k \in 0 .. Len(active[i].stream) : StreamBreak(i, k)

Destructor == Destroy \/ DestroySend \/ DestroyJoin \/ DestroyStop

Next ==
  \/ \E t \in Threads : Thread(t)
  \/ Scheduler
  \/ \E i \in DOMAIN active : Proceed(i) \/ Server(i)
  \/ \E j \in DOMAIN late : ServerLateWrite(j)
  \/ TimerExpire
  \/ TimerHandler
  \/ Destructor
  \/ Faults
  \/ Destroyed

Spec == Init /\ [][Next]_vars

\* Every thread of the client and the server keeps running; the applications
\* call, the client is destroyed and streams fail at will.
Fairness ==
  /\ \A t \in Threads : WF_vars(WriteResume(t) \/ FlushDrained(t) \/ FlushRPC(t))
  /\ WF_vars(Scheduler)
  /\ WF_vars(\E i \in DOMAIN active : Proceed(i))
  /\ WF_vars(\E i \in DOMAIN active : Server(i))
  /\ WF_vars(\E j \in DOMAIN late : ServerLateWrite(j))
  /\ WF_vars(TimerExpire)
  /\ WF_vars(TimerHandler)
  /\ WF_vars(DestroySend \/ DestroyJoin \/ DestroyStop)

FairSpec == Spec /\ Fairness
-----------------------------------------------------------------------------
(* Properties.                                                             *)

Block == [id : Nat, path : {w.path : w \in Shapes}, offset : {w.offset : w \in Shapes},
          size : {w.size : w \in Shapes}, fi : {w.fi : w \in Shapes}, end : Nat]

Request == [blocks : Seq(Block), upto : Nat]

CallData ==
  [status : {"CREATE", "WRITE", "WRITES_DONE", "FINISHED"}, blocks : Seq(Block),
   upto : Nat, waiter : Waiters \cup {Nobody}, sent : Nat, stream : Seq(Request),
   server : {"READ", "FINISHED"}, broken : BOOLEAN]

TypeOK ==
  /\ pc \in [Threads -> {"idle", "full", "drain", "rpc"}]
  /\ arg \in [Threads -> Shapes \cup {<<>>}]
  /\ mtxBlocks \in Threads \cup {Nobody}
  /\ blocks \in Seq(Block)
  /\ blocksQueueSize \in Nat
  /\ cacheSize \in Int
  /\ calls \in Seq([blocks : Seq(Block), upto : Nat, waiter : Waiters \cup {Nobody}])
  /\ active \in Seq(CallData)
  /\ channel \in Seq({"FLUSH_REQUEST", "CALL_ENDED", "TERMINATED"})
  /\ flushing \in BOOLEAN
  /\ scheduler \in {"running", "terminated"}
  /\ timer \in {"idle", "armed"}
  /\ handler \in {"none", "ready"}
  /\ dtor \in {"alive", "draining", "joining", "shutdown", "destroyed"}
  /\ future \in [Waiters -> {"none", "pending", "true", "false"}]
  /\ issued \in Seq(Block)
  /\ applied \in Seq(Block)
  /\ late \in Seq(Seq(Request))
  /\ span \in [Waiters -> [from : Nat, upto : Nat]]
  /\ flushes \in Nat
  /\ breaks \in Nat
  /\ errors \in Nat

NoFaults == breaks = 0 /\ errors = 0

\* The server applies the writes in the order in which write() buffered them,
\* each once and none skipped: two calls are never under way at the same time
\* and blocks_, calls_ and the stream are first in, first out.
InOrder ==
  NoFaults => /\ Len(applied) <= Len(issued)
              /\ \A i \in DOMAIN applied : applied[i] = issued[i]

\* When flush() or fsync() goes on to its own RPC, every write buffered before
\* it was called has been applied by the server, those of other calls that were
\* already queued or under way included.
FlushCovers ==
  NoFaults => \A t \in Threads : pc[t] = "rpc" => Len(applied) >= span[t].upto

\* scheduler(): at most one call is under way, and flushing is true exactly
\* from the start of a call until its CALL_ENDED has been received.
OneCallAtATime ==
  /\ Len(active) <= 1
  /\ flushing <=> \/ active # <<>>
                  \/ \E i \in DOMAIN channel : channel[i] = "CALL_ENDED"
  /\ active # <<>> => \A i \in DOMAIN channel : channel[i] # "CALL_ENDED"

\* No wake-up is lost: while the scheduler runs, a call in calls_ is followed
\* by an event that will start it, also when its FLUSH_REQUEST was received
\* while another call was under way.
NoLostWakeup ==
  scheduler = "running" /\ calls # <<>> =>
    \/ active # <<>>
    \/ \E i \in DOMAIN channel : channel[i] \in {"FLUSH_REQUEST", "CALL_ENDED"}

\* cache_size_ counts the bytes of every block not yet handed to gRPC, and
\* blocks_queue_size_ those not yet taken by a call.
Accounting ==
  LET queued[i \in 0 .. Len(calls)] ==
        IF i = 0 THEN 0 ELSE queued[i - 1] + SizeOf(calls[i].blocks)
      started[i \in 0 .. Len(active)] ==
        IF i = 0 THEN 0 ELSE started[i - 1] + SizeOf(active[i].blocks)
  IN  /\ blocksQueueSize = SizeOf(blocks)
      /\ cacheSize = SizeOf(blocks) + queued[Len(calls)] + started[Len(active)]

\* The cache never exceeds its size by more than one write: a write() that
\* finds it full waits, with mtx_blocks_ held, until it has been drained.
CacheBound ==
  \/ cacheSize <= CacheSize
  \/ \E w \in Shapes : cacheSize <= CacheSize + w.size

\* A call reports success only when the server applied all its blocks; a
\* broken stream is reported, although proceed() ignores its ok flags.
StatusTruthful ==
  errors = 0 =>
    \A w \in Waiters : future[w] = "true" =>
      \A n \in span[w].from + 1 .. span[w].upto :
        \E i \in DOMAIN applied : applied[i].id = n

\* The scheduler thread ends only when no call is under way and nothing that
\* was written is left behind, whatever the timer handler scheduled meanwhile.
CleanTermination ==
  scheduler = "terminated" =>
    /\ active = <<>>
    /\ blocks = <<>>
    /\ \A i \in DOMAIN calls : calls[i].blocks = <<>>
    /\ NoFaults => applied = issued

\* What README.md says of cache_size: the client holds no more than that.
HeldWithinCacheSize == cacheSize <= CacheSize

\* What the NFS driver says of COMMIT: when fsync() returns, the data is stored.
\* Nothing after this point in flush() and fsync() looks at the writes again.
FsyncMeansStored ==
  \A t \in Threads : pc[t] = "rpc" =>
    \A n \in 1 .. span[t].upto : \E i \in DOMAIN applied : applied[i].id = n

\* Every flush(), fsync() and blocked write() returns, also when streams break.
CallsReturn == \A t \in Threads : pc[t] # "idle" ~> pc[t] = "idle"

\* Every write is eventually applied, without any flush() or fsync(): the
\* timer takes care of the last ones.
WritesReachServer ==
  \A n \in 1 .. MaxWrites : Len(issued) >= n ~> (Len(applied) >= n \/ ~ NoFaults)

\* The destructor comes to its end.
DestructorReturns == dtor # "alive" ~> dtor = "destroyed"
=============================================================================
