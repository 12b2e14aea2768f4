----------------------------- MODULE RemoteOps ------------------------------
(* A remote operation from end to end: FUSE calls the rpc_client layer, the   *)
(* client (sync_client.cpp) packs the arguments in a request and makes a      *)
(* unary call, a call object of the server (server.cpp) unpacks it, runs the  *)
(* operation of the layer below (LocalOps) and fills the reply, from which    *)
(* the client fills what FUSE gave it.  Calls may fail at any point; the      *)
(* server then goes on with what it has.                                      *)
EXTENDS LocalOps

CONSTANTS Clients,      \* client machines
          Listeners,    \* call objects the server registers per operation (20)
          Pollers,      \* threads in handle_async_requests
          Files,        \* the files at the start, in the order of their inodes
          Opener,       \* the client that holds the first of them and the directory open
          Workloads,    \* bounds: which operations are called, and how many times
          MaxFails,     \* bound on the calls that fail
          Rooms,        \* how many entries a readdir buffer of the kernel holds
          BlocksBits    \* width of the block counts on the wire (32)

VARIABLES fs, dirs,     \* the server's file system and directory streams
          up,           \* the server process runs
          listening,    \* call objects waiting for a call, per operation
          call,         \* the calls, by number
          handles,      \* what the kernel of each client holds open
          fails,        \* calls that failed so far
          load          \* the workload of this behaviour

vars == <<fs, dirs, up, listening, call, handles, fails, load>>

-----------------------------------------------------------------------------
\* What each method of sync_client puts into the request and takes from the reply.
AttrCalls ==
    [getattr |-> [sends |-> {"path"}, copies |-> {"st"}],
     fgetattr |-> [sends |-> {"path", "fi"}, copies |-> {"st", "fi"}],
     access |-> [sends |-> {"path", "val"}, copies |-> {}],
     readlink |-> [sends |-> {"path"}, copies |-> {"buf"}]]

DirCalls ==
    [opendir |-> [sends |-> {"path", "fi"}, copies |-> {"fi"}],
     readdir |-> [sends |-> {"path", "offset", "fi"}, copies |-> {"ents", "fi"}],
     releasedir |-> [sends |-> {"path", "fi"}, copies |-> {"fi"}]]

NameCalls ==
    [mknod |-> [sends |-> {"path", "val"}, copies |-> {}],
     mkdir |-> [sends |-> {"path", "val"}, copies |-> {}],
     symlink |-> [sends |-> {"path", "to"}, copies |-> {}],
     unlink |-> [sends |-> {"path"}, copies |-> {}],
     rmdir |-> [sends |-> {"path"}, copies |-> {}],
     rename |-> [sends |-> {"path", "to"}, copies |-> {}],
     link |-> [sends |-> {"path", "to"}, copies |-> {}]]

ChangeCalls ==
    [chmod |-> [sends |-> {"path", "val"}, copies |-> {}],
     chown |-> [sends |-> {"path", "val"}, copies |-> {}],
     truncate |-> [sends |-> {"path"}, copies |-> {}],
     ftruncate |-> [sends |-> {"path", "fi"}, copies |-> {"fi"}],
     utimens |-> [sends |-> {"path", "val"}, copies |-> {}]]

OpenCalls ==
    [create |-> [sends |-> {"path", "val", "fi"}, copies |-> {"fi"}],
     open |-> [sends |-> {"path", "fi"}, copies |-> {"fi"}]]

\* read and write outside a stream.
DataCalls ==
    [read |-> [sends |-> {"path", "offset", "fi"}, copies |-> {"buf", "fi"}],
     write |-> [sends |-> {"path", "val", "offset", "fi"}, copies |-> {"fi"}]]

EndCalls ==
    [statfs |-> [sends |-> {"path"}, copies |-> {"st"}],
     flush |-> [sends |-> {"path", "fi"}, copies |-> {"fi"}],
     release |-> [sends |-> {"path", "fi"}, copies |-> {"fi"}],
     fsync |-> [sends |-> {"path", "fi"}, copies |-> {"fi"}]]

\* What the rpc_client layer installs.
Offered == DOMAIN AttrCalls \cup DOMAIN DirCalls \cup DOMAIN NameCalls \cup DOMAIN ChangeCalls
           \cup DOMAIN OpenCalls \cup DOMAIN DataCalls \cup DOMAIN EndCalls

Calls == [op \in Offered |-> CASE op \in DOMAIN AttrCalls -> AttrCalls[op]
                               [] op \in DOMAIN DirCalls -> DirCalls[op]
                               [] op \in DOMAIN NameCalls -> NameCalls[op]
                               [] op \in DOMAIN ChangeCalls -> ChangeCalls[op]
                               [] op \in DOMAIN OpenCalls -> OpenCalls[op]
                               [] op \in DOMAIN DataCalls -> DataCalls[op]
                               [] op \in DOMAIN EndCalls -> EndCalls[op]]

-----------------------------------------------------------------------------
\* What each call object of the server takes from the request and puts into the
\* reply.
AttrHandlers ==
    [getattr |-> [uses |-> {"path"}, fills |-> {"st"}],
     fgetattr |-> [uses |-> {"path", "fi"}, fills |-> {"st", "fi"}],
     access |-> [uses |-> {"path", "val"}, fills |-> {}],
     readlink |-> [uses |-> {"path"}, fills |-> {"buf"}]]

DirHandlers ==
    [opendir |-> [uses |-> {"path", "fi"}, fills |-> {"fi"}],
     readdir |-> [uses |-> {"path", "offset", "fi"}, fills |-> {"ents", "fi"}],
     releasedir |-> [uses |-> {"path", "fi"}, fills |-> {"fi"}]]

MakeHandlers ==
    [mknod |-> [uses |-> {"path", "val"}, fills |-> {}],
     mkdir |-> [uses |-> {"path", "val"}, fills |-> {}],
     symlink |-> [uses |-> {"path", "to"}, fills |-> {}],
     unlink |-> [uses |-> {"path"}, fills |-> {}]]

MoveHandlers ==
    [rmdir |-> [uses |-> {"path"}, fills |-> {}],
     rename |-> [uses |-> {"path", "to"}, fills |-> {}],
     link |-> [uses |-> {"path", "to"}, fills |-> {}],
     chmod |-> [uses |-> {"path", "val"}, fills |-> {}]]

ChangeHandlers ==
    [chown |-> [uses |-> {"path", "val"}, fills |-> {}],
     truncate |-> [uses |-> {"path"}, fills |-> {}],
     ftruncate |-> [uses |-> {"path", "fi"}, fills |-> {"fi"}],
     utimens |-> [uses |-> {"path", "val"}, fills |-> {}]]

\* Mutation: open does not send the handle back.
OpenHandlersNoFi ==
    [create |-> [uses |-> {"path", "val", "fi"}, fills |-> {"fi"}],
     open |-> [uses |-> {"path", "fi"}, fills |-> {}],
     read |-> [uses |-> {"path", "offset", "fi"}, fills |-> {"buf", "fi"}],
     write |-> [uses |-> {"path", "val", "offset", "fi"}, fills |-> {"fi"}]]

OpenHandlers ==
    [create |-> [uses |-> {"path", "val", "fi"}, fills |-> {"fi"}],
     open |-> [uses |-> {"path", "fi"}, fills |-> {"fi"}],
     read |-> [uses |-> {"path", "offset", "fi"}, fills |-> {"buf", "fi"}],
     write |-> [uses |-> {"path", "val", "offset", "fi"}, fills |-> {"fi"}]]

EndHandlers ==
    [statfs |-> [uses |-> {"path"}, fills |-> {"st"}],
     flush |-> [uses |-> {"path", "fi"}, fills |-> {"fi"}],
     release |-> [uses |-> {"path", "fi"}, fills |-> {"fi"}],
     fsync |-> [uses |-> {"path", "fi"}, fills |-> {"fi"}]]

Handlers == [op \in Offered |-> CASE op \in DOMAIN AttrHandlers -> AttrHandlers[op]
                                  [] op \in DOMAIN DirHandlers -> DirHandlers[op]
                                  [] op \in DOMAIN MakeHandlers -> MakeHandlers[op]
                                  [] op \in DOMAIN MoveHandlers -> MoveHandlers[op]
                                  [] op \in DOMAIN ChangeHandlers -> ChangeHandlers[op]
                                  [] op \in DOMAIN OpenHandlers -> OpenHandlers[op]
                                  [] op \in DOMAIN EndHandlers -> EndHandlers[op]]
-----------------------------------------------------------------------------
NoArgs == [path |-> "", to |-> "", val |-> 0, offset |-> 0, fi |-> NoFi]
NoReply == [st |-> 0, fi |-> NoFi, buf |-> 0, ents |-> <<>>]
NoCall == [op |-> "none"]
Over == [op |-> "over"]
Numbers == 1..load.calls

\* A message with the given fields; the others keep the default of their type.
Message(r, fields, default) ==
    [f \in DOMAIN default |-> IF f \in fields THEN r[f] ELSE default[f]]

\* StructStatvfs holds the block counts in 32 bits.
fill_StructStatvfs(st) == st % 2^BlocksBits

\* The server's filler takes every entry; dir_info_entries keeps them in order.
rpc_filler_room == 1000000

ASSUME RemoteOpsAssumption ==
    /\ Opener \in Clients
    /\ Rooms \subseteq 1..rpc_filler_room
    /\ \A w \in Workloads : w.ops \subseteq Offered /\ w.calls \in Nat

Active == {n \in Numbers : call[n] \notin {NoCall, Over}}
Waiting == {n \in Active : call[n].waits}
Busy(c) == \E n \in Waiting : call[n].client = c
NewNumber == Min({n \in Numbers : call[n] = NoCall})
At(phase) == {n \in Active : call[n].phase = phase}

\* The arguments FUSE can give: any path, or an open handle of this client.
FileOps == {"fgetattr", "ftruncate", "read", "write", "flush", "release", "fsync"}
TwoPathOps == {"symlink", "rename", "link"}
FileArgs(h) == [NoArgs EXCEPT !.path = h.path, !.val = 1, !.fi = h.fi]
DirArgs(h) == [NoArgs EXCEPT !.path = h.path, !.offset = h.off, !.fi = h.fi]
TwoPaths(p, q) == [NoArgs EXCEPT !.path = p, !.to = q]
OnePath(p) == [NoArgs EXCEPT !.path = p, !.val = 1]
NewPath(p) == [NoArgs EXCEPT !.path = p, !.val = 1, !.fi.flags = "creat"]
RootPath == [NoArgs EXCEPT !.path = "/"]
Arguments(c, op) ==
    CASE op \in FileOps -> {FileArgs(h) : h \in {g \in handles[c] : g.kind = "file"}}
      [] op \in {"readdir", "releasedir"} ->
           {DirArgs(h) : h \in {g \in handles[c] : g.kind = "dir"}}
      [] op \in TwoPathOps -> {TwoPaths(p, q) : p \in Paths, q \in Paths}
      [] op = "opendir" -> {RootPath}
      [] op = "create" -> {NewPath(p) : p \in Paths}
      [] OTHER -> {OnePath(p) : p \in Paths}

\* The handle behind a fuse_file_info.
HandleOf(c, a) == {h \in handles[c] : h.fi.fh = a.fi.fh /\ a.fi.fh # 0}

-----------------------------------------------------------------------------
\* What the kernel keeps of an open file, of an open directory.
FileHandle(path, fi, ino) ==
    [kind |-> "file", path |-> path, fi |-> fi, ino |-> ino]
DirHandle(fi, all) ==
    [kind |-> "dir", path |-> "/", fi |-> fi, all |-> all, off |-> 0, got |-> <<>>,
     end |-> FALSE]

\* Files exist, and Opener has opened the first and the directory.
StartFS ==
    LET at(p) == {i \in DOMAIN Files : Files[i] = p}
    IN [EmptyFS EXCEPT
          !.names = [p \in Paths |-> IF at(p) = {} THEN 0 ELSE Min(at(p))],
          !.kind = [i \in Inodes |-> IF i \in DOMAIN Files THEN "file" ELSE "free"],
          !.fds[Min(Fds)] = 1]
StartDir == [NoDir EXCEPT !.ents = Listing(StartFS), !.offset = 0]

Init ==
    /\ fs = StartFS
    /\ dirs = [d \in Dirps |-> IF d = Min(Dirps) THEN StartDir ELSE NoDir]
    /\ handles = [c \in Clients |->
           IF c = Opener THEN {FileHandle(Files[1], [NoFi EXCEPT !.fh = Min(Fds)], 1),
                               DirHandle([NoFi EXCEPT !.fh = Min(Dirps)], StartDir.ents)}
           ELSE {}]
    /\ up = TRUE
    /\ load \in Workloads
    /\ listening = [op \in Offered |-> Listeners]
    /\ call = [n \in Numbers |-> NoCall]
    /\ fails = 0

\* FUSE calls rpc_client_<op>, the client sends the request.  The kernel forgets a
\* handle when it releases it.
Issue(c, op, a, room) ==
    /\ up                      \* a call to a dead server only fails
    /\ ~Busy(c)
    /\ \E n \in Numbers : call[n] = NoCall
    /\ call' = [call EXCEPT ![NewNumber] =
           [op |-> op, client |-> c, args |-> a, room |-> room, waits |-> TRUE,
            held |-> HandleOf(c, a), acted |-> 0, all |-> <<>>,
            request |-> Message(a, Calls[op].sends, NoArgs),
            phase |-> "sent", reply |-> NoReply, res |-> 0, want |-> <<>>]]
    /\ handles' = IF op \in {"release", "releasedir"}
                  THEN [handles EXCEPT ![c] = @ \ HandleOf(c, a)] ELSE handles
    /\ UNCHANGED <<fs, dirs, up, listening, fails, load>>

\* The runtime gives the call to a registered object and queues its tag.
Accept(n) ==
    /\ up /\ n \in At("sent")
    /\ listening[call[n].op] > 0
    /\ listening' = [listening EXCEPT ![call[n].op] = @ - 1]
    /\ call' = [call EXCEPT ![n].phase = "queued"]
    /\ UNCHANGED <<fs, dirs, up, handles, fails, load>>

\* Mutation: PROCESS does not register another object.
PollOnce(n) ==
    /\ up /\ n \in At("queued")
    /\ Cardinality(At("process")) < Pollers
    /\ call' = [call EXCEPT ![n].phase = "process"]
    /\ UNCHANGED <<fs, dirs, up, listening, handles, fails, load>>

\* A poller takes the tag: proceed in PROCESS registers another object.
Poll(n) ==
    /\ up /\ n \in At("queued")
    /\ Cardinality(At("process")) < Pollers
    /\ listening' = [listening EXCEPT ![call[n].op] = @ + 1]
    /\ call' = [call EXCEPT ![n].phase = "process"]
    /\ UNCHANGED <<fs, dirs, up, handles, fails, load>>

\* A call through a null pointer, or a fi->fh that is no live local_dirp.
Segfaults(op, a) ==
    \/ op \notin LocalInstalled
    \/ op \in {"readdir", "releasedir"} /\ a.fi.fh \notin LiveDirs(dirs)

\* The rest of PROCESS: run the operation, fill the reply, Finish.
Process(n) ==
    LET k == call[n]
        a == Message(k.request, Handlers[k.op].uses, NoArgs)
        o == LocalOp(k.op, fs, dirs, a, rpc_filler_room)
    IN /\ up /\ n \in At("process")
       /\ ~Segfaults(k.op, a)
       /\ fs' = o.fs
       /\ dirs' = o.dirs
       /\ call' = [call EXCEPT ![n].phase = "finished",
              ![n].reply = Message(IF k.op = "statfs" THEN [o EXCEPT !.st = fill_StructStatvfs(@)]
                                   ELSE o, Handlers[k.op].fills, NoReply),
              ![n].res = o.res,
              ![n].acted = CASE k.op \in FileOps /\ IsOpen(fs, a.fi.fh) -> fs.fds[a.fi.fh]
                             [] k.op \in {"open", "create"} /\ o.res = 0 -> o.fs.fds[o.fi.fh]
                             [] OTHER -> 0,
              ![n].all = IF k.op = "opendir" /\ o.res = 0 THEN o.dirs[o.fi.fh].ents ELSE <<>>,
              ![n].want = LET w == LocalOp(k.op, fs, dirs, k.args, k.room)
                          IN [res |-> w.res, st |-> w.st, fi |-> w.fi, buf |-> w.buf,
                              ents |-> w.ents]]
       /\ UNCHANGED <<up, listening, handles, fails, load>>

Crash(n) ==
    /\ up /\ n \in At("process")
    /\ Segfaults(call[n].op, Message(call[n].request, Handlers[call[n].op].uses, NoArgs))
    /\ up' = FALSE
    /\ fs' = Collect([fs EXCEPT !.fds = [d \in Fds |-> 0]])
    /\ dirs' = [d \in Dirps |-> NoDir]
    /\ UNCHANGED <<listening, call, handles, fails, load>>

\* A record both sides are done with.
Settle(k) == IF ~k.waits /\ k.phase \in {"deleted", "lost"} THEN Over ELSE k

\* The tag of Finish: proceed in FINISHED deletes the object.
Delete(n) ==
    /\ up /\ n \in At("finished")
    /\ call' = [call EXCEPT ![n] = Settle([@ EXCEPT !.phase = "deleted"])]
    /\ UNCHANGED <<fs, dirs, up, listening, handles, fails, load>>

\* What FUSE sees: the result, and the fields the client copies.
Seen(n) ==
    LET k == call[n]
        v == Message(k.reply, Calls[k.op].copies, NoReply)
    IN [res |-> k.res, st |-> v.st, buf |-> v.buf,
        fi |-> IF "fi" \in Calls[k.op].copies THEN v.fi ELSE k.args.fi,
        ents |-> SubSeq(v.ents, 1, Min({k.room, Len(v.ents)}))]

\* The kernel's side of a finished operation.
Kernel(held, k, seen) ==
    CASE k.op = "opendir" /\ seen.res = 0 ->
           held \cup {DirHandle(seen.fi, k.all)}
      [] k.op \in {"open", "create"} /\ seen.res = 0 ->
           held \cup {FileHandle(k.args.path, seen.fi, k.acted)}
      [] k.op = "readdir" ->
           {IF h \in k.held
            THEN [h EXCEPT !.off = IF seen.ents = <<>> THEN @ ELSE seen.ents[Len(seen.ents)].off,
                           !.got = @ \o [i \in DOMAIN seen.ents |-> seen.ents[i].name],
                           !.end = seen.ents = <<>>]
            ELSE h : h \in held}
      [] OTHER -> held

\* The reply arrives, the client returns.
Return(n) ==
    /\ n \in Waiting \cap (At("finished") \cup At("deleted"))
    /\ handles' = [handles EXCEPT ![call[n].client] = Kernel(@, call[n], Seen(n))]
    /\ call' = [call EXCEPT ![n] = Settle([@ EXCEPT !.waits = FALSE])]
    /\ UNCHANGED <<fs, dirs, up, listening, fails, load>>

\* !status.ok(): the client returns -1.  A request still on its way may be lost.
Fail(n) ==
    /\ n \in Waiting
    /\ fails < MaxFails \/ ~up
    /\ fails' = IF up THEN fails + 1 ELSE fails
    /\ \E phase \in IF call[n].phase = "sent" THEN {"sent", "lost"} ELSE {call[n].phase} :
           call' = [call EXCEPT ![n] = Settle([@ EXCEPT !.waits = FALSE, !.phase = phase])]
    /\ UNCHANGED <<fs, dirs, up, listening, handles, load>>

Next ==
    \/ \E c \in Clients, op \in load.ops : \E a \in Arguments(c, op) :
          \E room \in IF op = "readdir" THEN Rooms ELSE {0} : Issue(c, op, a, room)
    \/ \E n \in Numbers : Accept(n) \/ Poll(n) \/ Process(n) \/ Crash(n) \/ Delete(n)
                          \/ Return(n) \/ Fail(n)

\* Something the server, the runtime or a client's wait for its answer can do.  The
\* code has no timeout and no blocking beyond the system calls, so one of these
\* happens as long as one can.
Progress ==
    \E n \in Numbers : \/ Accept(n) \/ Poll(n) \/ Process(n) \/ Crash(n) \/ Delete(n)
                       \/ Return(n) \/ (~up /\ Fail(n))

Spec == Init /\ [][Next]_vars /\ WF_vars(Progress)
-----------------------------------------------------------------------------
\* An operation over RPC leaves FUSE with what the local layer would have given it
\* on the server: the result, the attributes, the data, the handle and the page of
\* directory entries.  Nothing is lost between the fields the client sends and
\* copies and those the handler uses and fills.  (Block counts wrap on the wire.)
Transparent ==
    \A n \in Waiting \cap (At("finished") \cup At("deleted")) :
        LET seen == Seen(n)  w == call[n].want
        IN /\ seen.res = w.res
           /\ w.res >= 0 =>
                /\ seen.fi = w.fi /\ seen.buf = w.buf /\ seen.ents = w.ents
                /\ seen.st = IF call[n].op = "statfs" THEN w.st % 2^BlocksBits ELSE w.st

\* fi->fh is a bare descriptor of the server, sent back and forth.  As long as the
\* client waits for a call, the call acts on the file its handle was opened for; and
\* two handles never share a descriptor.
RightFile ==
    /\ \A n \in Waiting : call[n].op \in FileOps /\ call[n].phase \in {"finished", "deleted"}
           => \A h \in call[n].held : call[n].acted = h.ino
    /\ \A c, d \in Clients : \A h \in handles[c], g \in handles[d] :
           h.kind = g.kind /\ h.fi.fh = g.fi.fh => c = d /\ h = g
    /\ up => \A c \in Clients : \A h \in handles[c] :
           IF h.kind = "file" THEN fs.fds[h.fi.fh] = h.ino ELSE h.fi.fh \in LiveDirs(dirs)

\* The descriptors somebody will still close.
Owned ==
    (UNION {{h.fi.fh : h \in handles[c]} : c \in Clients})
    \cup {call[n].reply.fi.fh : n \in {m \in Waiting : call[m].op \in {"open", "create"}}}
    \cup {call[n].args.fi.fh : n \in {m \in Active : call[m].op = "release"}}

\* A descriptor the server keeps open belongs to a handle, or to an open or a
\* release under way, except one for each call that failed: the handle of an open
\* whose reply was lost, or of a release whose request was lost.
DescriptorsOwned == Cardinality({d \in Fds : IsOpen(fs, d)} \ Owned) <= fails

\* A directory read page by page gives every entry once and in order, although the
\* server reads to the end at every call and the client gives up the entries that
\* did not fit.
PagesComplete ==
    \A c \in Clients : \A h \in handles[c] :
        h.kind = "dir" => h.got = SubSeq(h.all, 1, Len(h.got)) /\ (h.end => h.got = h.all)

\* The operation tables of the two sides differ in one entry: the server dies of a
\* call it has no function for only when a client sets the times of a file.
OnlyUtimensMissing ==
    up => \A n \in At("process") :
        Segfaults(call[n].op, Message(call[n].request, Handlers[call[n].op].uses, NoArgs))
            /\ call[n].waits => call[n].op = "utimens"

\* Every operation returns: a call is accepted although all objects of its operation
\* may be taken, and polled although all pollers may be busy.
Answered == \A c \in Clients : Busy(c) ~> ~Busy(c)
=============================================================================
