--------------------------- MODULE RemoteOpsSteps ---------------------------
(* What the tables, the operations of the local layer and the actions of   *)
(* RemoteOps do, in the terms of its invariant: the words of the proofs.   *)
EXTENDS RemoteOpsInv
-----------------------------------------------------------------------------
(* The tables of the two sides.                                            *)

ValOps == {"mknod", "mkdir", "chmod", "chown", "create", "write"}

\* The request holds what the operation needs and the reply what it gives, and the
\* two sides agree on both.
Row(op, s, c) ==
  /\ Calls[op].sends = s /\ Handlers[op].uses = s
  /\ Calls[op].copies = c /\ Handlers[op].fills = c

Fits(op, s, c) ==
  /\ Row(op, s, c)
  /\ "path" \in s
  /\ op \in TwoPathOps => "to" \in s
  /\ op \in ValOps => "val" \in s
  /\ op = "readdir" => "offset" \in s
  /\ op \in FileOps \cup DirOps \cup {"open", "create"} => "fi" \in s
  /\ op \in {"getattr", "fgetattr", "statfs"} => "st" \in c
  /\ op \in {"readlink", "read"} => "buf" \in c
  /\ op = "readdir" => "ents" \in c
  /\ op \in OpenOps => "fi" \in c
  /\ "fi" \in c => "fi" \in s
  /\ op # "utimens" => op \in LocalInstalled

-----------------------------------------------------------------------------
(* System calls and the descriptors.                                       *)

\* A change of names, kinds, attributes or contents leaves the descriptors alone.
Keeps(f, g) == IsFS(g) /\ g.fds = f.fds

\* A call that may give a new descriptor.
Opens(f, s) ==
  \/ s.ret = -1 /\ s.errno \in Nat \ {0} /\ Keeps(f, s.fs)
  \/ \E d \in FreeFds(f) : \E i : /\ i # 0 /\ s.ret = d /\ IsFS(s.fs)
                                  /\ s.fs.fds = [f.fds EXCEPT ![d] = i]

-----------------------------------------------------------------------------
(* The operations of the local layer.                                      *)

\* What an operation may change, and what it leaves in the caller's buffers.
Frame(op, f, ds, a, o) ==
  /\ o = [res |-> o.res, fs |-> o.fs, dirs |-> o.dirs, st |-> o.st, fi |-> o.fi, buf |-> o.buf,
          ents |-> o.ents]
  /\ IsFS(o.fs)
  /\ op \notin {"open", "create", "release"} => o.fs.fds = f.fds
  /\ op \notin DirOps => o.dirs = ds
  /\ op \notin OpenOps => o.fi = a.fi
  /\ op \notin {"getattr", "fgetattr", "statfs"} => o.st = 0
  /\ op \notin {"readlink", "read"} => o.buf = 0
  /\ op # "readdir" => o.ents = <<>>

\* open and create: a descriptor, or an error.
OpenResult(f, a, o) ==
  \/ o.res # 0 /\ o.fi = a.fi /\ o.fs.fds = f.fds
  \/ /\ o.res = 0
     /\ \E d \in FreeFds(f) : \E i : /\ i # 0 /\ o.fi = [a.fi EXCEPT !.fh = d]
                                     /\ o.fs.fds = [f.fds EXCEPT ![d] = i]

-----------------------------------------------------------------------------
(* The directory streams.                                                  *)

\* The entries a readdir with room for so many gives from offset on.
PageOf(all, offset, room) ==
  [i \in 1..Min({room, Len(all) - offset}) |-> [name |-> all[offset + i], off |-> offset + i]]

ReaddirResult(ds, a, room, o) ==
  /\ o.res = 0 /\ o.ents = PageOf(ds[a.fi.fh].ents, a.offset, room)
  /\ \E x : IsDir(x) /\ x.ents = ds[a.fi.fh].ents /\ o.dirs = [ds EXCEPT ![a.fi.fh] = x]

\* opendir: a new stream at the start, or no memory.
OpendirResult(f, ds, a, o) ==
  \/ o.res # 0 /\ o.fi = a.fi /\ o.dirs = ds
  \/ /\ o.res = 0
     /\ \E d \in Dirps \ LiveDirs(ds) : \E x :
           /\ IsDir(x) /\ o.fi = [a.fi EXCEPT !.fh = d] /\ o.dirs = [ds EXCEPT ![d] = x]

ReleasedirResult(ds, a, o) == o.dirs = [ds EXCEPT ![a.fi.fh] = NoDir]

-----------------------------------------------------------------------------
(* The operation on the server is the one FUSE asked for.                  *)

\* Arguments that agree wherever the operation looks.
Alike(op, a, b) ==
  /\ a.path = b.path /\ a.to = b.to /\ a.fi = b.fi
  /\ op \in ValOps => a.val = b.val
  /\ op = "readdir" => a.offset = b.offset

\* The arguments the handler takes from the request are those of FUSE.
Received(op, a) == Message(Message(a, Calls[op].sends, NoArgs), Handlers[op].uses, NoArgs)

\* The streams of a server.
IsDirs(ds) == ds = [d \in Dirps |-> ds[d]] /\ \A d \in LiveDirs(ds) : IsDir(ds[d])

\* What each operation does to the server, and gives.
Effect(op, f, ds, a, room, o) ==
  /\ Frame(op, f, ds, a, o)
  /\ op \in {"open", "create"} => OpenResult(f, a, o)
  /\ op \in DirOps => o.fs = f
  /\ op = "opendir" => OpendirResult(f, ds, a, o)
  /\ op = "readdir" => ReaddirResult(ds, a, room, o)
  /\ op = "releasedir" => ReleasedirResult(ds, a, o)
  /\ op = "release" => o.fs = close(f, a.fi.fh).fs

\* The reply, and what the client copies of it.
Reply(op, o) ==
  Message(IF op = "statfs" THEN [o EXCEPT !.st = fill_StructStatvfs(@)] ELSE o,
          Handlers[op].fills, NoReply)
Wrapped(op, st) == IF op = "statfs" THEN st % 2^BlocksBits ELSE st

Delivers(op, a, o) ==
  LET v == Message(Reply(op, o), Calls[op].copies, NoReply)
  IN /\ v.st = Wrapped(op, o.st) /\ v.buf = o.buf /\ v.ents = o.ents
     /\ (IF "fi" \in Calls[op].copies THEN v.fi ELSE a.fi) = o.fi
     /\ op \in OpenOps => Reply(op, o).fi = o.fi
     /\ op = "readdir" => Reply(op, o).ents = o.ents

-----------------------------------------------------------------------------
(* Steps that change one call.                                             *)

\* The step changes the record of call n to k.
Changes(n, k) == n \in Numbers /\ call' = [call EXCEPT ![n] = k] /\ load' = load

\* The handles of the kernels are handles.
HandlesOk == /\ handles = [c \in Clients |-> handles[c]]
             /\ \A c \in Clients : \A h \in handles[c] : IsHandle(h)

\* The step leaves alone what is open under d.
SameFh(d) ==
  /\ d \in Fds => fs'.fds[d] = fs.fds[d]
  /\ d \in LiveDirs(dirs) => d \in LiveDirs(dirs)' /\ dirs'[d].ents = dirs[d].ents

-----------------------------------------------------------------------------
(* What FUSE sees of a call.                                               *)

SeenOf(k) ==
  LET v == Message(k.reply, Calls[k.op].copies, NoReply)
  IN [res |-> k.res, st |-> v.st, buf |-> v.buf,
      fi |-> IF "fi" \in Calls[k.op].copies THEN v.fi ELSE k.args.fi,
      ents |-> SubSeq(v.ents, 1, Min({k.room, Len(v.ents)}))]

\* It is what the operation gives on the server.
Shows(k) ==
  LET seen == SeenOf(k)
      w == k.want
  IN /\ seen.res = w.res
     /\ w.res >= 0 =>
          /\ seen.fi = w.fi /\ seen.buf = w.buf /\ seen.ents = w.ents
          /\ seen.st = Wrapped(k.op, w.st)

AllShow == \A m \in Waiting : call[m].phase \in Done => Shows(call[m])

-----------------------------------------------------------------------------
(* The actions.                                                            *)

\* An open nobody waits for.
IsOrphan(k) == ~k.waits /\ k.op \in {"open", "create"} /\ k.phase \in Unserved

\* The record j with another phase and somebody or nobody waiting.
Put(j, w, p) ==
  [op |-> j.op, client |-> j.client, args |-> j.args, room |-> j.room, waits |-> w,
   held |-> j.held, acted |-> j.acted, all |-> j.all, request |-> j.request, phase |-> p,
   reply |-> j.reply, res |-> j.res, want |-> j.want]

Follows(j, k) ==
  /\ IsCall(k) /\ Fh(k) = Fh(j)
  /\ k.op = j.op /\ k.client = j.client /\ k.args = j.args /\ k.res = j.res
  /\ LiveCall(j) => LiveCall(k)
  /\ HeldBy(j) => HeldBy(k)
  /\ Shows(j) => Shows(k)
  /\ k.waits = j.waits => (Owner(k) <=> Owner(j)) /\ (IsOrphan(k) <=> IsOrphan(j))
  /\ k.waits = FALSE => (Owner(k) <=> j.op \in CloseOps /\ k.phase \in Unserved)
  /\ j.phase \in Unserved <=> k.phase \in Unserved

\* The record j of a call the server has executed.
Served(j, reply, res, acted, all, want) ==
  [op |-> j.op, client |-> j.client, args |-> j.args, room |-> j.room, waits |-> j.waits,
   held |-> j.held, acted |-> acted, all |-> all, request |-> j.request, phase |-> "finished",
   reply |-> reply, res |-> res, want |-> want]

Finishes(c, n, r, s, a, l, w) ==
  [c EXCEPT ![n].phase = "finished", ![n].reply = r, ![n].res = s, ![n].acted = a,
            ![n].all = l, ![n].want = w]
FinishesIs(c, n, r, s, a, l, w) ==
  Finishes(c, n, r, s, a, l, w) = [c EXCEPT ![n] = Served(c[n], r, s, a, l, w)]

Acted(op, a, o) ==
  CASE op \in FileOps /\ IsOpen(fs, a.fi.fh) -> fs.fds[a.fi.fh]
    [] op \in {"open", "create"} /\ o.res = 0 -> o.fs.fds[o.fi.fh]
    [] OTHER -> 0

\* The server runs call n, whose record is j, on the arguments a with outcome o, and the
\* record becomes k; w is what FUSE's own arguments give.
Executes(n, j, a, o, k, w) ==
  /\ n \in Active /\ j = call[n] /\ IsCall(j) /\ j.phase = "process"
  /\ Alike(j.op, a, j.args) /\ a.offset \in Nat
  /\ j.op \in LocalInstalled
  /\ j.op \in {"readdir", "releasedir"} => a.fi.fh \in LiveDirs(dirs)
  /\ o = LocalOp(j.op, fs, dirs, a, rpc_filler_room) /\ w = LocalOp(j.op, fs, dirs, j.args, j.room)
  /\ Effect(j.op, fs, dirs, a, rpc_filler_room, o)
  /\ Effect(j.op, fs, dirs, j.args, j.room, w)
  /\ fs' = o.fs /\ dirs' = o.dirs /\ handles' = handles /\ up /\ up' = up /\ fails' = fails
  /\ Changes(n, k)
  /\ k = Served(j, Reply(j.op, o), o.res, Acted(j.op, a, o),
                IF j.op = "opendir" /\ o.res = 0 THEN o.dirs[o.fi.fh].ents ELSE <<>>,
                [res |-> w.res, st |-> w.st, fi |-> w.fi, buf |-> w.buf, ents |-> w.ents])

\* The new record.
Finished(j, a, o, k, w) ==
  /\ k.op = j.op /\ k.client = j.client /\ k.args = j.args /\ k.room = j.room
  /\ k.waits = j.waits /\ k.held = j.held /\ k.request = j.request
  /\ k.phase = "finished" /\ k.reply = Reply(j.op, o) /\ k.res = o.res
  /\ k.acted = Acted(j.op, a, o)
  /\ k.all = IF j.op = "opendir" /\ o.res = 0 THEN o.dirs[o.fi.fh].ents ELSE <<>>
  /\ k.want = [res |-> w.res, st |-> w.st, fi |-> w.fi, buf |-> w.buf, ents |-> w.ents]
  /\ k = Served(k, k.reply, k.res, k.acted, k.all, k.want)

\* One stream changes.
IsSlot(x) == IsDir(x) \/ x = NoDir
SetsDir(e, ds, d, x) == IsSlot(x) /\ e = [ds EXCEPT ![d] = x]

OthersSame(e, ds, d, x) ==
  /\ e[d] = x /\ (IsDir(x) => d \in LiveDirs(e))
  /\ \A c \in LiveDirs(ds) : c # d => c \in LiveDirs(e) /\ e[c] = ds[c]

\* A descriptor or a stream that is open.
Claimed(d) == (d \in Fds /\ fs.fds[d] # 0) \/ d \in LiveDirs(dirs)

\* Nothing else gets a descriptor, and a release gives its own back.
Unopened(j, a, o, d) ==
  /\ fs.fds[d] = 0 => j.op \in {"open", "create"} /\ o.res = 0 /\ d = o.fi.fh
  /\ j.op = "release" => a.fi.fh # d

-----------------------------------------------------------------------------
(* Steps that change one call and the handles of one kernel.               *)

\* Every handle was there, or stands for what call n owned; the call may take over
\* what no handle stands for any more.
Moves(n, k) ==
  /\ \A c \in Clients : \A h \in handles'[c] :
        \/ \E g \in handles[c] : g.fi.fh = h.fi.fh
        \/ n \in Owners /\ c = call[n].client /\ h.fi.fh = Fh(call[n])
  /\ \A c \in Clients : \A h, g \in handles'[c] : h.fi.fh = g.fi.fh => h = g
  /\ k # Over /\ Owner(k) => /\ \A c \in Clients : \A h \in handles'[c] : h.fi.fh # Fh(k)
                             /\ \A m \in Owners : m # n => Fh(call[m]) # Fh(k)

\* What was owned still is.
Passes(n, k) ==
  /\ \A c \in Clients : \A h \in handles[c] :
        \/ \E g \in handles'[c] : g.fi.fh = h.fi.fh
        \/ k \notin {NoCall, Over} /\ Owner(k) /\ Fh(k) = h.fi.fh
  /\ n \in Owners => \/ \E c \in Clients : \E g \in handles'[c] : g.fi.fh = Fh(call[n])
                     \/ k \notin {NoCall, Over} /\ Owner(k) /\ Fh(k) = Fh(call[n])

\* The handles of client c become H.
Holds(c, H) == c \in Clients /\ handles' = [handles EXCEPT ![c] = H]

-----------------------------------------------------------------------------
(* FUSE calls an operation.                                                *)

Args(path, to, val, offset, fi) ==
  [path |-> path, to |-> to, val |-> val, offset |-> offset, fi |-> fi]

\* The arguments of every operation, in full.
Given(a, f, p, t, v, o) == a = Args(p, t, v, o, f)

From(c, op, a) ==
  /\ op \in FileOps => \E h \in handles[c] : h.kind = "file" /\ a = FileArgs(h)
  /\ op \in {"readdir", "releasedir"} => \E h \in handles[c] : h.kind = "dir" /\ a = DirArgs(h)
  /\ op \in TwoPathOps => \E p, q : a = TwoPaths(p, q)
  /\ op = "opendir" => a = RootPath
  /\ op = "create" => \E p : a = NewPath(p)
  /\ op \notin FileOps \cup {"readdir", "releasedir"} \cup TwoPathOps \cup {"opendir", "create"}
       => \E p : a = OnePath(p)

\* A call as the client sends it.
Sent(c, op, a, room, held) ==
  [op |-> op, client |-> c, args |-> a, room |-> room, waits |-> TRUE,
   held |-> held, acted |-> 0, all |-> <<>>,
   request |-> Message(a, Calls[op].sends, NoArgs),
   phase |-> "sent", reply |-> NoReply, res |-> 0, want |-> <<>>]

Starts(k, c, op, a, held) ==
  /\ IsCall(k) /\ k.waits /\ k.phase \notin Done
  /\ k.op = op /\ k.client = c /\ k.args = a /\ k.held = held
  /\ Owner(k) <=> op \in CloseOps
  /\ op \in CloseOps => Fh(k) = a.fi.fh
  /\ ~IsOrphan(k)

-----------------------------------------------------------------------------
(* The client returns.                                                     *)

\* The handles H follow from those client c has, and what call n opened is one of them.
Inherits(n, c, H) ==
  /\ \A h \in H : (\E g \in handles[c] : g.fi.fh = h.fi.fh) \/ (n \in Owners /\ h.fi.fh = Fh(call[n]))
  /\ \A g \in handles[c] : \E h \in H : h.fi.fh = g.fi.fh
  /\ n \in Owners => \E h \in H : h.fi.fh = Fh(call[n])
  /\ \A h, g \in H : h.fi.fh = g.fi.fh => h = g

Returns(n, c, H) ==
  /\ n \in Waiting /\ call[n].phase \in Done /\ c = call[n].client
  /\ Holds(c, H)
  /\ call' = [call EXCEPT ![n] = Settle([@ EXCEPT !.waits = FALSE])]
  /\ UNCHANGED <<fs, dirs, up, fails, load>>

\* A directory handle after another page.
Advanced(h, ents) ==
  [h EXCEPT !.off = IF ents = <<>> THEN @ ELSE ents[Len(ents)].off,
            !.got = @ \o [i \in DOMAIN ents |-> ents[i].name],
            !.end = ents = <<>>]

IsDirHandle(h, kind, path, fi, all, off, got, end) ==
  h = [kind |-> kind, path |-> path, fi |-> fi, all |-> all, off |-> off, got |-> got, end |-> end]
TurnsPage(ents, off, got, n, t, e) ==
  /\ n = IF ents = <<>> THEN off ELSE ents[Len(ents)].off
  /\ t = got \o [i \in DOMAIN ents |-> ents[i].name]
  /\ e = (ents = <<>>)

KernelGives(held, j, s, H) ==
  /\ j.op = "opendir" /\ s.res = 0 => H = held \cup {DirHandle(s.fi, j.all)}
  /\ j.op \in {"open", "create"} /\ s.res = 0 =>
       H = held \cup {FileHandle(j.args.path, s.fi, j.acted)}
  /\ j.op = "readdir" => H = {IF h \in j.held THEN Advanced(h, s.ents) ELSE h : h \in held}
  /\ ~(j.op \in OpenOps /\ s.res = 0) /\ j.op # "readdir" => H = held

\* What an open that succeeded gives the kernel.
NewHandle(j, s) ==
  IF j.op = "opendir" THEN DirHandle(s.fi, j.all) ELSE FileHandle(j.args.path, s.fi, j.acted)

-----------------------------------------------------------------------------
(* The client gives up.                                                    *)

GivesUp(j, k) ==
  \/ k = Over
  \/ /\ IsCall(k) /\ ~k.waits
     /\ Owner(k) => Owner(j) /\ Fh(k) = Fh(j) /\ (LiveCall(j) => LiveCall(k))
     /\ IsOrphan(k) => ~Owner(j)

-----------------------------------------------------------------------------
(* The first state.                                                        *)

\* A file system and a directory with one of each open.
FirstFS(names, kind) ==
  [EmptyFS EXCEPT !.names = names, !.kind = kind, !.fds[Min(Fds)] = 1]
FirstDir(ents) == [NoDir EXCEPT !.ents = ents, !.offset = 0]

\* The two handles of the first state.
FirstFile == FileHandle(Files[1], [NoFi EXCEPT !.fh = Min(Fds)], 1)
FirstRoot(ents) == DirHandle([NoFi EXCEPT !.fh = Min(Dirps)], ents)

\* Nothing is called yet, and what is open has a handle.
Starting(f, ents) ==
  /\ fs = f /\ ents \in Seq(Paths)
  /\ dirs = [d \in Dirps |-> IF d = Min(Dirps) THEN FirstDir(ents) ELSE NoDir]
  /\ handles = [c \in Clients |-> IF c = Opener THEN {FirstFile, FirstRoot(ents)} ELSE {}]
  /\ load \in Workloads
  /\ call = [n \in Numbers |-> NoCall]
  /\ fails = 0

-----------------------------------------------------------------------------
(* The invariant.                                                          *)

\* A server that died has nothing open.
Closed == ~up => \A d \in Fds : fs.fds[d] = 0

=============================================================================
