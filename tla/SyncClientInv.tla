--------------------------- MODULE SyncClientInv ----------------------------
(* The invariants of the synchronous client that are inductive: IInv orders   *)
(* the requests on a stream, HandleInv says which operations can be under way *)
(* together, PathInv and KeptInv which streams a path has and who removes     *)
(* them, IdInv, CreditInv and AppliedInv where a write is on its way to the   *)
(* log of its file.  Beside them, what a step does in their terms.            *)
EXTENDS SyncClient

Messages == [by : Threads, id : Nat, kind : Kinds, path : Paths, served : BOOLEAN]
HandleStates == {"free", "opening", "open", "closing"}

Types ==
    /\ DOMAIN pc = Threads /\ DOMAIN cur = Threads /\ DOMAIN str = Threads
    /\ DOMAIN mtxWrite = Streams /\ DOMAIN mtxRead = Streams
    /\ queue \in [Streams -> Seq(Messages)]
    /\ map \in [Kinds -> [Paths -> 0 .. MaxStreams]]
    /\ nstreams \in Nat /\ nops \in Nat
    /\ handle \in [Handles -> [state : HandleStates, path : Paths, mode : Modes \cup {"r"}]]

\* A thread on its way through a stream holds the mutex the code says it holds.
Holds(t) ==
    /\ pc[t] \in {"find", "send"} =>
         cur[t].kind \in Kinds /\ cur[t].path \in Paths /\ cur[t].id \in Nat
    /\ pc[t] \in {"send", "lock_read", "receive"} => str[t] \in Streams
    /\ pc[t] = "lock_read" => mtxWrite[str[t]] = t
    /\ pc[t] = "receive" => mtxRead[str[t]] = t

\* A mutex is held by a thread on its way; and unless the stream is dead its queue holds
\* the request of the reader, then that of the writer, and no other.
Ordered(s) ==
    /\ mtxWrite[s] # Nobody =>
         mtxWrite[s] \in Threads /\ pc[mtxWrite[s]] = "lock_read" /\ str[mtxWrite[s]] = s
    /\ mtxRead[s] # Nobody =>
         mtxRead[s] \in Threads /\ pc[mtxRead[s]] = "receive" /\ str[mtxRead[s]] = s
    /\ s \notin dead =>
         /\ Len(queue[s]) = (IF mtxRead[s] = Nobody THEN 0 ELSE 1)
                            + (IF mtxWrite[s] = Nobody THEN 0 ELSE 1)
         /\ mtxRead[s] # Nobody => queue[s][1].by = mtxRead[s]
         /\ mtxWrite[s] # Nobody => queue[s][Len(queue[s])].by = mtxWrite[s]

IInv == Types /\ (\A t \in Threads : Holds(t)) /\ (\A s \in Streams : Ordered(s))

-----------------------------------------------------------------------------
(* The handles of the kernel: which operations can be under way on a path at  *)
(* the same time.                                                             *)

OpKinds == Kinds \cup {"open", "release"}
StateOf(kind) == CASE kind = "open" -> "opening" [] kind = "release" -> "closing"
                   [] OTHER -> "open"
Busy(t) == pc[t] # "idle"

\* An operation is on a handle in the state that is for it.
Handled(t) == Busy(t) =>
    /\ cur[t].kind \in OpKinds /\ cur[t].handle \in Handles /\ cur[t].path \in Paths
    /\ handle[cur[t].handle].path = cur[t].path
    /\ handle[cur[t].handle].state = StateOf(cur[t].kind)

\* Only reads and writes share a handle.
Apart(t, u) ==
    t # u /\ Busy(t) /\ Busy(u) /\ cur[t].handle = cur[u].handle =>
        cur[t].kind \in Kinds /\ cur[u].kind \in Kinds

\* A release is of the only handle of its path, or the path is shared.
Sole(t) ==
    Busy(t) /\ cur[t].kind = "release" /\ cur[t].path \notin shared =>
        Users(cur[t].path) \subseteq {cur[t].handle}

HandleInv == /\ \A t \in Threads : Handled(t) /\ Sole(t)
             /\ \A t, u \in Threads : Apart(t, u)

\* An operation that returns.
Ends(t) == /\ Busy(t) /\ pc' = [pc EXCEPT ![t] = "idle"] /\ shared' = shared
           /\ \E state : Done(t, state)

\* A step that neither begins nor ends an operation.
Goes == /\ UNCHANGED <<cur, handle, shared>>
        /\ \A t \in Threads : Busy(t)' = Busy(t)

-----------------------------------------------------------------------------
(* The streams of a path: which of them a map holds and which a thread can    *)
(* have a reference to.                                                       *)

Failed == {of[s] : s \in broken}
Using == {"send", "lock_read", "receive"}
RemovePcs == {"remove_read", "remove_write", "erase_read", "erase_write"}

\* A stream in a map is of the path and was not destroyed.
Mapped(k, p) ==
    map[k][p] # 0 => map[k][p] \in 1 .. nstreams /\ of[map[k][p]] = p /\ map[k][p] \notin erased

\* A thread that uses a stream uses one of its path; one that removes streams releases
\* the path or saw a stream of it fail.
Route(t) ==
    /\ pc[t] \in Using \cup {"find"} => cur[t].kind \in Kinds
    /\ pc[t] \in Using => str[t] \in 1 .. nstreams /\ of[str[t]] = cur[t].path
    /\ pc[t] \in Using /\ str[t] \in erased => cur[t].path \in shared \cup Failed
    /\ pc[t] \in RemovePcs /\ cur[t].kind # "release" => cur[t].path \in Failed

StreamsInv ==
    /\ nstreams \in Nat /\ nstreams <= MaxStreams /\ DOMAIN of = Streams
    /\ broken \subseteq 1 .. nstreams /\ erased \subseteq 0 .. nstreams
    /\ \A p \in Paths : map["read"][p] = 0 \/ map["read"][p] # map["write"][p]
    /\ \A k \in Kinds, p \in Paths : Mapped(k, p)

PathInv == StreamsInv /\ \A t \in Threads : Route(t)

\* Nothing a thread's route depends on is taken back.
Grows == /\ nstreams' \in Nat /\ nstreams <= nstreams'
         /\ \A s \in 1 .. nstreams : of'[s] = of[s]
         /\ broken \subseteq broken' /\ shared \subseteq shared'

-----------------------------------------------------------------------------
(* Every stream has a handle that release() will remove it with.              *)

\* An operation that still has to remove a stream of kind k, or has just made one.
Removal(k) == {"rpc", "remove_read", "erase_read"}
              \cup (IF k = "write" THEN {"remove_write", "erase_write"} ELSE {})
Minds(t, k) ==
    /\ Busy(t)
    /\ \/ cur[t].kind = "release" /\ pc[t] \in Removal(k)
       \/ cur[t].kind = "open" /\ k = "read" /\ pc[t] = "create_write"

\* Handle h keeps the streams of kind k of path p.
Keeper(k, p, h) ==
    /\ handle[h].path = p
    /\ handle[h].state = "open" \/ \E t \in Threads : cur[t].handle = h /\ Minds(t, k)

Kept(k, p) == map[k][p] # 0 => p \in left \/ \E h \in Handles : Keeper(k, p, h)

\* The server refuses opens only, and a stream made for a refused one is left behind.
Makes(t) ==
    /\ pc[t] = "rpc" /\ rpc[t] \notin {"sent", "ok"} => cur[t].kind = "open"
    /\ pc[t] \in {"create_read", "create_write"} =>
         cur[t].kind # "release" /\ (rpc[t] # "ok" => cur[t].kind = "open" /\ cur[t].path \in left)

KeptInv == /\ DOMAIN rpc = Threads
           /\ \A k \in Kinds, p \in Paths : Kept(k, p)
           /\ \A t \in Threads : Makes(t)

-----------------------------------------------------------------------------
(* Writes are applied once: where each operation's number can be.             *)

\* The operations under way have numbers of their own, and one on a stream that has not
\* failed it was not repeated.
ThreadIds ==
    /\ \A t \in Threads : Busy(t) => cur[t].id \in 1 .. nops
    /\ \A t, u \in Threads : t # u /\ Busy(t) /\ Busy(u) => cur[t].id # cur[u].id
    /\ \A t \in Threads : pc[t] \in Using \cup {"find"} => cur[t].id \notin retried
    /\ retried \subseteq 1 .. nops

\* The unary writes whose client gave up are of operations that returned.
LateIds ==
    /\ \A r \in late : r.id \in 1 .. nops /\ r.path \in Paths
    /\ \A r, q \in late : r.id = q.id => r = q
    /\ \A t \in Threads, r \in late : Busy(t) => cur[t].id # r.id

\* An operation has at most one request on a stream, and none before it sends it.
QueueIds ==
    /\ \A s \in Streams : \A i \in DOMAIN queue[s] : queue[s][i].id \in 1 .. nops
    /\ \A s, r \in Streams : \A i \in DOMAIN queue[s], j \in DOMAIN queue[r] :
         queue[s][i].id = queue[r][j].id => s = r /\ i = j
    /\ \A t \in Threads : pc[t] \in {"find", "send"} =>
         \A s \in Streams : \A i \in DOMAIN queue[s] : queue[s][i].id # cur[t].id

LogIds ==
    /\ log \in [Paths -> Seq(Nat)]
    /\ \A p \in Paths : \A i \in DOMAIN log[p] : log[p][i] \in 1 .. nops

IdInv == DOMAIN rpc = Threads /\ ThreadIds /\ LateIds /\ QueueIds /\ LogIds

-----------------------------------------------------------------------------
\* A step that begins no operation: which labels it can lead to, and which operations it
\* repeats.
OnStream == Using \cup {"find"}
Moves ==
    /\ nops' = nops
    /\ \A u \in Threads : Busy(u)' => Busy(u) /\ cur'[u] = cur[u]
    /\ \A u \in Threads : pc'[u] \in OnStream => pc[u] \in OnStream
    /\ \A u \in Threads : pc'[u] \in {"find", "send"} => pc[u] \in {"find", "send"}
    /\ \A w \in retried' : w \in retried
         \/ \E t \in Threads : Busy(t) /\ cur[t].id = w /\ pc'[t] \notin OnStream

\* What is new among the late writes is of an operation that ends.
Retires == \A r \in late' : r \in late \/ \E t \in Threads : Busy(t) /\ r = cur[t] /\ ~Busy(t)'

\* No step makes a request that is not on a stream already.
Follows(s, d) == \A i \in DOMAIN queue'[s] :
    i + d \in DOMAIN queue[s] /\ queue'[s][i].id = queue[s][i + d].id

-----------------------------------------------------------------------------
\* Where a write is that the server has still to apply: in a request on a stream, with a
\* thread that will send it, or in a unary call whose client gave up.
Unserved(w) == \E s \in Streams : \E i \in DOMAIN queue[s] :
    queue[s][i].id = w /\ queue[s][i].kind = "write" /\ ~queue[s][i].served
Pends(t) ==
    /\ cur[t].kind = "write"
    /\ pc[t] \in {"find", "send"} \cup RemovePcs \/ (pc[t] = "rpc" /\ rpc[t] = "sent")
Pending(w) == \E t \in Threads : Pends(t) /\ cur[t].id = w
Late(w) == \E r \in late : r.id = w
One(b) == IF b THEN 1 ELSE 0

\* A write is applied or to be applied once; twice if it was repeated.
Credit(p, w) ==
    Count(log[p], w) + One(Unserved(w)) + One(Pending(w)) + One(Late(w))
        <= 1 + One(w \in retried)
CreditInv == \A p \in Paths, w \in 1 .. nops : Credit(p, w)

-----------------------------------------------------------------------------
\* A step of a thread does not touch the operations of the others.
OthersSame(t) == \A u \in Threads : u # t => pc'[u] = pc[u] /\ cur'[u] = cur[u] /\ rpc'[u] = rpc[u]

-----------------------------------------------------------------------------
(* What returned was applied.                                                 *)

Logged(w) == \E p \in Paths : \E i \in DOMAIN log[p] : log[p][i] = w
Logs(w) == \E p \in Paths : \E i \in DOMAIN log'[p] : log'[p][i] = w

\* The server answered the unary write of thread t.
Answered(t) == /\ cur[t].kind = "write"
               /\ \/ pc[t] \in {"create_read", "create_write"}
                  \/ pc[t] = "rpc" /\ rpc[t] # "sent"

\* The request of a thread that waits for its reply is that of its operation.
Mine(t) ==
    pc[t] \in {"lock_read", "receive"} /\ str[t] \notin dead =>
        \A i \in DOMAIN queue[str[t]] : queue[str[t]][i].by = t =>
            queue[str[t]][i].id = cur[t].id /\ queue[str[t]][i].kind = cur[t].kind

Replied(s) == \A i \in DOMAIN queue[s] :
    queue[s][i].kind = "write" /\ queue[s][i].served => Logged(queue[s][i].id)

AppliedInv ==
    /\ \A t \in Threads : Mine(t) /\ (Answered(t) => Logged(cur[t].id))
    /\ \A s \in Streams : Replied(s)
    /\ \A w \in returned : Logged(w)

\* A request comes from one that was there; if it is served now it was, or its write is
\* in the log.
Comes(s) == \A i \in DOMAIN queue'[s] : \E j \in DOMAIN queue[s] :
    /\ queue'[s][i].by = queue[s][j].by /\ queue'[s][i].id = queue[s][j].id
    /\ queue'[s][i].kind = queue[s][j].kind
    /\ queue'[s][i].kind = "write" /\ queue'[s][i].served =>
         queue[s][j].served \/ Logs(queue[s][j].id)

LogStays == \A w : Logged(w) => Logs(w)

\* A thread is not after a send, or stays where it is.
Keeps(u) ==
    \/ pc'[u] \notin {"lock_read", "receive"}
    \/ pc[u] \in {"lock_read", "receive"} /\ str'[u] = str[u] /\ cur'[u] = cur[u]

=============================================================================
