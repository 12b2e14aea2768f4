----------------------------- MODULE SyncClient -----------------------------
(* The streams of the synchronous client (sync_client.cpp) and the handlers   *)
(* that serve them (stream_read_data and stream_write_data of server.cpp).    *)
(*                                                                            *)
(* A path has at most one stream for reads and one for writes, shared by all  *)
(* threads and all handles of the path.  A thread finds its stream under the  *)
(* map's mutex and uses it after it released that mutex: it sends under       *)
(* mtx_write_, takes mtx_read_ before it gives mtx_write_ back, and receives  *)
(* under mtx_read_.  A stream that fails is removed and the request repeated  *)
(* as a unary call, which creates a new stream.                               *)
EXTENDS Naturals, Sequences, FiniteSets

CONSTANTS Threads,     \* FUSE threads
          Handles,     \* open files of the kernel
          Paths,
          Modes,       \* the access modes opens use: subset of {"r", "w", "rw"}
          MaxOps,      \* bound: operations of all threads
          MaxStreams,  \* bound: streams ever created
          MaxFaults,   \* bound: streams that break and unary calls that fail
          MaxErrors    \* bound: opens the server refuses

ASSUME SyncClientAssumption ==
    /\ MaxOps \in Nat /\ MaxStreams \in Nat /\ MaxFaults \in Nat /\ MaxErrors \in Nat
    /\ "nobody" \notin Threads
    /\ 0 \notin Paths /\ Paths # {}

Nobody == "nobody"
Kinds == {"read", "write"}
Streams == 1..MaxStreams
Ops == 1..MaxOps

VARIABLES pc,          \* where each thread is
          cur,         \* its operation: kind, handle, path and number
          str,         \* the stream it has a reference to
          rpc,         \* its unary call: "none", "sent", or how the server answered
          map,         \* read_streams_ and write_streams_: 0 or a stream
          mtxMap,      \* holders of mtx_read_streams_ and mtx_write_streams_
          nstreams,    \* streams created
          of,          \* the path of each
          mtxWrite, mtxRead,  \* holders of a stream's mutexes
          queue,       \* requests on a stream whose reply nobody received
          broken,      \* streams that fail
          dead,        \* streams on which Read has returned false
          erased,      \* streams destroyed
          undefined,   \* a destroyed stream was used: no step is modelled after it
          handle,      \* handles of the kernel
          log,         \* the writes the server applied to each path, in order
          late,        \* failed unary writes the server may still apply
          nops, faults, errors,
          \* history:
          retried,     \* operations whose stream failed
          returned,    \* writes that returned success
          shared,      \* paths with a release while another handle of them is in use
          left         \* paths with a refused open or a failed release

threadVars == <<pc, cur, str, rpc>>
mapVars == <<map, mtxMap, nstreams, of, erased>>
streamVars == <<mtxWrite, mtxRead, queue, broken, dead>>
history == <<retried, returned, shared, left>>
vars == <<threadVars, mapVars, streamVars, undefined, handle, log, late, nops, faults,
          errors, history>>

NoOp == [kind |-> "none", handle |-> 0, path |-> 0, id |-> 0]
NoHandle == [state |-> "free", path |-> CHOOSE p \in Paths : TRUE, mode |-> "r"]

\* The handles of a path from the start of open to the return of release.
Users(p) == {h \in Handles : handle[h].state # "free" /\ handle[h].path = p}
Uses(mode, kind) == mode = "rw" \/ mode = (IF kind = "read" THEN "r" ELSE "w")

Init ==
    /\ pc = [t \in Threads |-> "idle"]
    /\ cur = [t \in Threads |-> NoOp]
    /\ str = [t \in Threads |-> 0]
    /\ rpc = [t \in Threads |-> "none"]
    /\ map = [k \in Kinds |-> [p \in Paths |-> 0]]
    /\ mtxMap = [k \in Kinds |-> Nobody]
    /\ nstreams = 0
    /\ of = [s \in Streams |-> 0]
    /\ mtxWrite = [s \in Streams |-> Nobody]
    /\ mtxRead = [s \in Streams |-> Nobody]
    /\ queue = [s \in Streams |-> <<>>]
    /\ broken = {} /\ dead = {} /\ erased = {}
    /\ undefined = FALSE
    /\ handle = [h \in Handles |-> NoHandle]
    /\ log = [p \in Paths |-> <<>>]
    /\ late = {}
    /\ nops = 0 /\ faults = 0 /\ errors = 0
    /\ retried = {} /\ returned = {} /\ shared = {} /\ left = {}

-----------------------------------------------------------------------------
Begin(t, kind, h, p, next) ==
    /\ ~undefined /\ pc[t] = "idle" /\ nops < MaxOps
    /\ nops' = nops + 1
    /\ cur' = [cur EXCEPT ![t] = [kind |-> kind, handle |-> h, path |-> p, id |-> nops + 1]]
    /\ pc' = [pc EXCEPT ![t] = next]

\* open() and create(): a unary call first.
Open(t, h, p, mode) ==
    /\ handle[h] = NoHandle
    /\ Begin(t, "open", h, p, "rpc")
    /\ rpc' = [rpc EXCEPT ![t] = "sent"]
    /\ handle' = [handle EXCEPT ![h] = [state |-> "opening", path |-> p, mode |-> mode]]
    /\ shared' = IF \E g \in Users(p) : handle[g].state = "closing" THEN shared \cup {p}
                 ELSE shared
    /\ UNCHANGED <<str, mapVars, streamVars, undefined, log, late, faults, errors, retried,
                   returned, left>>

\* read() and write() on an open handle.
ReadWrite(t, kind, h) ==
    /\ handle[h].state = "open" /\ Uses(handle[h].mode, kind)
    /\ Begin(t, kind, h, handle[h].path, "find")
    /\ UNCHANGED <<str, rpc, mapVars, streamVars, undefined, handle, log, late, faults, errors,
                   retried, returned, shared, left>>

\* release(): the kernel sends it when no operation of the handle is under way.
Release(t, h) ==
    /\ handle[h].state = "open"
    /\ \A u \in Threads : pc[u] # "idle" => cur[u].handle # h
    /\ Begin(t, "release", h, handle[h].path, "rpc")
    /\ rpc' = [rpc EXCEPT ![t] = "sent"]
    /\ handle' = [handle EXCEPT ![h].state = "closing"]
    /\ shared' = IF Users(handle[h].path) = {h} THEN shared ELSE shared \cup {handle[h].path}
    /\ UNCHANGED <<str, mapVars, streamVars, undefined, log, late, faults, errors, retried,
                   returned, left>>

\* The operation returns.
Done(t, state) ==
    /\ cur' = [cur EXCEPT ![t] = NoOp]
    /\ str' = [str EXCEPT ![t] = 0]
    /\ rpc' = [rpc EXCEPT ![t] = "none"]
    /\ handle' = IF cur[t].kind \in {"open", "release"}
                 THEN [handle EXCEPT ![cur[t].handle] =
                          IF state = "open" THEN [@ EXCEPT !.state = "open"] ELSE NoHandle]
                 ELSE handle

-----------------------------------------------------------------------------
\* read() and write(): look up the stream under the map's mutex, then release it.
Find(t) ==
    LET s == map[cur[t].kind][cur[t].path]
    IN /\ ~undefined /\ pc[t] = "find"
       /\ mtxMap[cur[t].kind] = Nobody
       /\ str' = [str EXCEPT ![t] = s]
       /\ pc' = [pc EXCEPT ![t] = IF s = 0 THEN "rpc" ELSE "send"]
       /\ rpc' = [rpc EXCEPT ![t] = IF s = 0 THEN "sent" ELSE "none"]
       /\ UNCHANGED <<cur, mapVars, streamVars, undefined, handle, log, late, nops, faults,
                      errors, history>>

\* Mutation: mtx_write_ is given back before mtx_read_ is taken.
SendUnlocks(t) ==
    LET s == str[t]
    IN /\ ~undefined /\ pc[t] = "send" /\ s \notin erased
       /\ mtxWrite[s] = Nobody
       /\ IF s \in broken
          THEN /\ pc' = [pc EXCEPT ![t] = "remove_read"]
               /\ str' = [str EXCEPT ![t] = 0]
               /\ retried' = retried \cup {cur[t].id}
               /\ UNCHANGED <<mtxWrite, queue>>
          ELSE /\ pc' = [pc EXCEPT ![t] = "lock_read"]
               /\ UNCHANGED mtxWrite
               /\ queue' = [queue EXCEPT ![s] =
                      Append(@, [by |-> t, id |-> cur[t].id, kind |-> cur[t].kind,
                                 path |-> cur[t].path, served |-> FALSE])]
               /\ UNCHANGED <<str, retried>>
       /\ UNCHANGED <<cur, rpc, mapVars, mtxRead, broken, dead, undefined, handle, log, late,
                      nops, faults, errors, returned, shared, left>>

\* Mutation: a failed Write does not unlock mtx_write_.
SendKeepsLock(t) ==
    LET s == str[t]
    IN /\ ~undefined /\ pc[t] = "send" /\ s \notin erased
       /\ mtxWrite[s] = Nobody
       /\ IF s \in broken
          THEN /\ pc' = [pc EXCEPT ![t] = "remove_read"]
               /\ str' = [str EXCEPT ![t] = 0]
               /\ retried' = retried \cup {cur[t].id}
               /\ mtxWrite' = [mtxWrite EXCEPT ![s] = t] /\ UNCHANGED queue
          ELSE /\ pc' = [pc EXCEPT ![t] = "lock_read"]
               /\ mtxWrite' = [mtxWrite EXCEPT ![s] = t]
               /\ queue' = [queue EXCEPT ![s] =
                      Append(@, [by |-> t, id |-> cur[t].id, kind |-> cur[t].kind,
                                 path |-> cur[t].path, served |-> FALSE])]
               /\ UNCHANGED <<str, retried>>
       /\ UNCHANGED <<cur, rpc, mapVars, mtxRead, broken, dead, undefined, handle, log, late,
                      nops, faults, errors, returned, shared, left>>

\* Lock mtx_write_ and Write.  A failed Write unlocks and removes the streams.
Send(t) ==
    LET s == str[t]
    IN /\ ~undefined /\ pc[t] = "send" /\ s \notin erased
       /\ mtxWrite[s] = Nobody
       /\ IF s \in broken
          THEN /\ pc' = [pc EXCEPT ![t] = "remove_read"]
               /\ str' = [str EXCEPT ![t] = 0]
               /\ retried' = retried \cup {cur[t].id}
               /\ UNCHANGED <<mtxWrite, queue>>
          ELSE /\ pc' = [pc EXCEPT ![t] = "lock_read"]
               /\ mtxWrite' = [mtxWrite EXCEPT ![s] = t]
               /\ queue' = [queue EXCEPT ![s] =
                      Append(@, [by |-> t, id |-> cur[t].id, kind |-> cur[t].kind,
                                 path |-> cur[t].path, served |-> FALSE])]
               /\ UNCHANGED <<str, retried>>
       /\ UNCHANGED <<cur, rpc, mapVars, mtxRead, broken, dead, undefined, handle, log, late,
                      nops, faults, errors, returned, shared, left>>

\* Lock mtx_read_, then unlock mtx_write_.
LockRead(t) ==
    LET s == str[t]
    IN /\ ~undefined /\ pc[t] = "lock_read"
       /\ mtxRead[s] = Nobody
       /\ mtxRead' = [mtxRead EXCEPT ![s] = t]
       /\ mtxWrite' = [mtxWrite EXCEPT ![s] = Nobody]
       /\ pc' = [pc EXCEPT ![t] = "receive"]
       /\ UNCHANGED <<cur, str, rpc, mapVars, queue, broken, dead, undefined, handle, log, late,
                      nops, faults, errors, history>>

\* Read returns the oldest reply.  The operation returns with it.
Receive(t) ==
    LET s == str[t]
    IN /\ ~undefined /\ pc[t] = "receive" /\ s \notin dead
       /\ queue[s] # <<>> /\ Head(queue[s]).served
       /\ queue' = [queue EXCEPT ![s] = Tail(@)]
       /\ mtxRead' = [mtxRead EXCEPT ![s] = Nobody]
       /\ pc' = [pc EXCEPT ![t] = "idle"]
       /\ returned' = IF cur[t].kind = "write" THEN returned \cup {cur[t].id} ELSE returned
       /\ Done(t, "open")
       /\ UNCHANGED <<mapVars, mtxWrite, broken, dead, undefined, log, late, nops, faults,
                      errors, retried, shared, left>>

\* Mutation: a failed Read is taken for success.
ReceiveFailsIgnored(t) ==
    LET s == str[t]
    IN /\ ~undefined /\ pc[t] = "receive" /\ s \in broken
       /\ dead' = dead \cup {s}
       /\ mtxRead' = [mtxRead EXCEPT ![s] = Nobody]
       /\ pc' = [pc EXCEPT ![t] = "idle"]
       /\ returned' = IF cur[t].kind = "write" THEN returned \cup {cur[t].id} ELSE returned
       /\ Done(t, "open")
       /\ UNCHANGED <<mapVars, mtxWrite, queue, broken, undefined, log, late, nops, faults,
                      errors, retried, shared, left>>

\* Read fails on a broken stream, and on that stream from then on.
ReceiveFails(t) ==
    LET s == str[t]
    IN /\ ~undefined /\ pc[t] = "receive" /\ s \in broken
       /\ dead' = dead \cup {s}
       /\ mtxRead' = [mtxRead EXCEPT ![s] = Nobody]
       /\ pc' = [pc EXCEPT ![t] = "remove_read"]
       /\ str' = [str EXCEPT ![t] = 0]
       /\ retried' = retried \cup {cur[t].id}
       /\ UNCHANGED <<cur, rpc, mapVars, mtxWrite, queue, broken, undefined, handle, log, late,
                      nops, faults, errors, returned, shared, left>>

\* The stream was destroyed between Find and Send: the mutex locked, or waited for, is
\* gone.
Dangle(t) ==
    /\ ~undefined /\ pc[t] = "send" /\ str[t] \in erased
    /\ undefined' = TRUE
    /\ UNCHANGED <<threadVars, mapVars, streamVars, handle, log, late, nops, faults, errors,
                   history>>

-----------------------------------------------------------------------------
Removing(k) == IF k = "read" THEN "remove_read" ELSE "remove_write"
Erasing(k) == IF k = "read" THEN "erase_read" ELSE "erase_write"
Creating(k) == IF k = "read" THEN "create_read" ELSE "create_write"

\* Mutation: remove_streams leaves the write stream.
RemovedRead(t, k) ==
    IF cur[t].kind = "release"
    THEN pc' = [pc EXCEPT ![t] = "idle"] /\ Done(t, "free")
    ELSE /\ pc' = [pc EXCEPT ![t] = "rpc"]
         /\ rpc' = [rpc EXCEPT ![t] = "sent"]
         /\ UNCHANGED <<cur, str, handle>>

\* After the part of remove_streams for one kind: the other kind; then release()
\* returns, and read() and write() make a unary call.
Removed(t, k) ==
    IF k = "read"
    THEN pc' = [pc EXCEPT ![t] = "remove_write"] /\ UNCHANGED <<cur, str, rpc, handle>>
    ELSE IF cur[t].kind = "release"
    THEN pc' = [pc EXCEPT ![t] = "idle"] /\ Done(t, "free")
    ELSE /\ pc' = [pc EXCEPT ![t] = "rpc"]
         /\ rpc' = [rpc EXCEPT ![t] = "sent"]
         /\ UNCHANGED <<cur, str, handle>>

\* remove_streams: find the stream under the map's mutex, and keep the mutex.
RemoveFind(t, k) ==
    LET found == map[k][cur[t].path] # 0
    IN /\ ~undefined /\ pc[t] = Removing(k)
       /\ mtxMap[k] = Nobody
       /\ IF found
          THEN /\ mtxMap' = [mtxMap EXCEPT ![k] = t]
               /\ pc' = [pc EXCEPT ![t] = Erasing(k)]
               /\ UNCHANGED <<cur, str, rpc, handle>>
          ELSE Removed(t, k) /\ UNCHANGED mtxMap
       /\ UNCHANGED <<map, nstreams, of, erased, streamVars, undefined, log, late, nops, faults,
                      errors, history>>

\* remove_streams: both mutexes of the stream, WritesDone, erase.
Erase(t, k) ==
    LET s == map[k][cur[t].path]
    IN /\ ~undefined /\ pc[t] = Erasing(k)
       /\ mtxWrite[s] = Nobody /\ mtxRead[s] = Nobody
       /\ map' = [map EXCEPT ![k][cur[t].path] = 0]
       /\ erased' = erased \cup {s}
       /\ mtxMap' = [mtxMap EXCEPT ![k] = Nobody]
       /\ Removed(t, k)
       /\ UNCHANGED <<nstreams, of, streamVars, undefined, log, late, nops, faults, errors,
                      history>>

\* create_streams: try_emplace keeps a stream that is there.
Create(t, k) ==
    LET there == map[k][cur[t].path] # 0
        both == cur[t].kind = "open" /\ handle[cur[t].handle].mode = "rw" /\ k = "read"
    IN /\ ~undefined /\ pc[t] = Creating(k)
       /\ mtxMap[k] = Nobody
       /\ IF there THEN UNCHANGED <<map, nstreams, of>>
          ELSE /\ nstreams < MaxStreams
               /\ nstreams' = nstreams + 1
               /\ map' = [map EXCEPT ![k][cur[t].path] = nstreams + 1]
               /\ of' = [of EXCEPT ![nstreams + 1] = cur[t].path]
       /\ IF both
          THEN /\ pc' = [pc EXCEPT ![t] = "create_write"]
               /\ UNCHANGED <<cur, str, rpc, handle, returned>>
          ELSE /\ pc' = [pc EXCEPT ![t] = "idle"]
               /\ Done(t, IF rpc[t] = "ok" THEN "open" ELSE "free")
               /\ returned' = IF cur[t].kind = "write" THEN returned \cup {cur[t].id}
                              ELSE returned
       /\ UNCHANGED <<mtxMap, erased, streamVars, undefined, log, late, nops, faults, errors,
                      retried, shared, left>>

-----------------------------------------------------------------------------
\* The server answers a unary call.  It may refuse an open, with EPERM (-1) too.
ServeUnary(t) ==
    /\ ~undefined /\ pc[t] = "rpc" /\ rpc[t] = "sent"
    /\ \E answer \in IF cur[t].kind = "open" THEN {"ok", "refused", "eperm"} ELSE {"ok"} :
         /\ answer # "ok" => errors < MaxErrors
         /\ errors' = IF answer = "ok" THEN errors ELSE errors + 1
         /\ rpc' = [rpc EXCEPT ![t] = answer]
    /\ log' = IF cur[t].kind = "write" THEN [log EXCEPT ![cur[t].path] = Append(@, cur[t].id)]
              ELSE log
    /\ UNCHANGED <<pc, cur, str, mapVars, streamVars, undefined, handle, late, nops, faults,
                   history>>

\* Mutation: a refused open removes the streams of the path.
UnaryReturnsRemoving(t) ==
    LET next == CASE cur[t].kind = "release" \/ rpc[t] = "refused" -> "remove_read"
                  [] cur[t].kind \in Kinds -> Creating(cur[t].kind)
                  [] OTHER -> IF handle[cur[t].handle].mode = "w" THEN "create_write"
                              ELSE "create_read"
    IN /\ ~undefined /\ pc[t] = "rpc" /\ rpc[t] \in {"ok", "refused", "eperm"}
       /\ IF rpc[t] = "eperm"
          THEN pc' = [pc EXCEPT ![t] = "idle"] /\ Done(t, "free")
          ELSE pc' = [pc EXCEPT ![t] = next] /\ UNCHANGED <<cur, str, rpc, handle>>
       /\ UNCHANGED <<mapVars, streamVars, undefined, log, late, nops, faults, errors, retried,
                      returned, shared, left>>

\* The unary call returned: open, read and write create streams (open even when the
\* server refused, unless its result is -1), release removes them.
UnaryReturns(t) ==
    LET mode == handle[cur[t].handle].mode
        next == CASE cur[t].kind = "release" -> "remove_read"
                  [] cur[t].kind \in Kinds -> Creating(cur[t].kind)
                  [] OTHER -> IF mode = "w" THEN "create_write" ELSE "create_read"
    IN /\ ~undefined /\ pc[t] = "rpc" /\ rpc[t] \in {"ok", "refused", "eperm"}
       /\ IF rpc[t] = "eperm"
          THEN pc' = [pc EXCEPT ![t] = "idle"] /\ Done(t, "free")
          ELSE pc' = [pc EXCEPT ![t] = next] /\ UNCHANGED <<cur, str, rpc, handle>>
       /\ left' = IF rpc[t] = "refused" THEN left \cup {cur[t].path} ELSE left
       /\ UNCHANGED <<mapVars, streamVars, undefined, log, late, nops, faults, errors, retried,
                      returned, shared>>

\* !status.ok(): return -1, before or after the server ran the operation, or while it
\* still has to.
UnaryFails(t) ==
    /\ ~undefined /\ pc[t] = "rpc" /\ faults < MaxFaults
    /\ faults' = faults + 1
    /\ late' \in {late} \cup (IF cur[t].kind = "write" /\ rpc[t] = "sent"
                              THEN {late \cup {cur[t]}} ELSE {})
    /\ left' = IF cur[t].kind = "release" THEN left \cup {cur[t].path} ELSE left
    /\ pc' = [pc EXCEPT ![t] = "idle"]
    /\ Done(t, "free")
    /\ UNCHANGED <<mapVars, streamVars, undefined, log, nops, errors, retried, returned,
                   shared>>

Break(s) ==
    /\ ~undefined /\ faults < MaxFaults
    /\ s <= nstreams /\ s \notin broken
    /\ faults' = faults + 1
    /\ broken' = broken \cup {s}
    /\ UNCHANGED <<threadVars, mapVars, mtxWrite, mtxRead, queue, dead, undefined, handle, log,
                   late, nops, errors, history>>

\* stream_read_data and stream_write_data, READ with ok: run the oldest request that
\* is not served, write the reply.  They go on after the client saw the stream break.
Serve(s) ==
    \E i \in DOMAIN queue[s] :
      LET q == queue[s][i]
      IN /\ ~undefined
         /\ ~q.served /\ \A j \in 1..(i - 1) : queue[s][j].served
         /\ queue' = [queue EXCEPT ![s][i].served = TRUE]
         /\ log' = IF q.kind = "write" THEN [log EXCEPT ![q.path] = Append(@, q.id)] ELSE log
         /\ UNCHANGED <<threadVars, mapVars, mtxWrite, mtxRead, broken, dead, undefined, handle,
                        late, nops, faults, errors, history>>

\* The server runs a unary write whose client gave up.
ServeLate(w) ==
    /\ ~undefined
    /\ late' = late \ {w}
    /\ log' = [log EXCEPT ![w.path] = Append(@, w.id)]
    /\ UNCHANGED <<threadVars, mapVars, streamVars, undefined, handle, nops, faults, errors,
                   history>>

-----------------------------------------------------------------------------
ThreadStep(t) ==
    \/ Find(t) \/ Send(t) \/ LockRead(t) \/ Receive(t) \/ ReceiveFails(t) \/ Dangle(t)
    \/ \E k \in Kinds : RemoveFind(t, k) \/ Erase(t, k) \/ Create(t, k)
    \/ UnaryReturns(t)

Next ==
    \/ \E t \in Threads, h \in Handles, p \in Paths, m \in Modes : Open(t, h, p, m)
    \/ \E t \in Threads, h \in Handles : Release(t, h)
    \/ \E t \in Threads, h \in Handles, k \in Kinds : ReadWrite(t, k, h)
    \/ \E t \in Threads : ThreadStep(t) \/ ServeUnary(t) \/ UnaryFails(t)
    \/ \E s \in Streams : Break(s) \/ Serve(s)
    \/ \E w \in late : ServeLate(w)

\* Threads run, and the server answers unary calls and the streams that work: one of
\* these steps happens as long as one can.
Progress == \/ \E t \in Threads : ThreadStep(t) \/ ServeUnary(t)
            \/ \E s \in Streams \ broken : Serve(s)

Spec == Init /\ [][Next]_vars
FairSpec == Spec /\ WF_vars(Progress)

-----------------------------------------------------------------------------
\* The reply at the head of a stream belongs to the thread that reads it: mtx_read_
\* is taken before mtx_write_ is given back, so replies are received in the order in
\* which requests were sent.  Nothing in the messages would reveal a mix-up.
OwnReply ==
    \A t \in Threads :
        pc[t] = "receive" /\ str[t] \notin dead =>
            queue[str[t]] # <<>> /\ Head(queue[str[t]]).by = t

\* read() and write() use a reference into the map after they released the map's
\* mutex.  The stream behind it is destroyed under them only if a handle of the path
\* was released while another one was in use, or a stream of the path broke.
DanglesOnlyIfShared ==
    \A t \in Threads :
        pc[t] \in {"send", "lock_read", "receive"} /\ str[t] \in erased =>
            cur[t].path \in shared \cup {of[s] : s \in broken}

Count(sq, x) == Cardinality({i \in DOMAIN sq : sq[i] = x})

\* A write() that returned success was applied.  It was applied once; twice only if
\* its stream failed and it was repeated as a unary call.  So no write is undone by an
\* older one that had returned, unless that one was repeated.
AppliedOnce ==
    \A p \in Paths, w \in Ops :
        /\ Count(log[p], w) <= IF w \in retried THEN 2 ELSE 1
        /\ w \in returned => \E q \in Paths : Count(log[q], w) >= 1

\* release() leaves no stream behind: a path none of whose handles is in use has no
\* stream, unless the server refused an open of it (open() creates streams for any
\* result but -1) or its release failed.
StreamsReleased ==
    \A k \in Kinds, p \in Paths : map[k][p] # 0 => Users(p) # {} \/ p \in left

\* Every operation returns, although threads wait for each other's replies and
\* remove_streams waits for them with the map's mutex in hand.
OperationsReturn == \A t \in Threads : pc[t] # "idle" ~> pc[t] = "idle" \/ undefined
=============================================================================
