---------------------------- MODULE RemoteOpsInv ----------------------------
(* The inductive invariant of RemoteOps.  A descriptor or a directory stream  *)
(* of the server has at most one owner: a handle of some kernel, an open      *)
(* whose reply is on its way to a client that waits for it, or a release that *)
(* was sent and not executed yet.                                             *)
EXTENDS RemoteOps

Unserved == {"sent", "queued", "process"}
Done == {"finished", "deleted"}
OpenOps == {"open", "create", "opendir"}
CloseOps == {"release", "releasedir"}

IsFi(fi) == fi = [flags |-> fi.flags, fh |-> fi.fh]

\* The file system and the directory streams of the server.
IsFS(f) ==
    /\ f = [names |-> f.names, kind |-> f.kind, attr |-> f.attr, data |-> f.data,
            fds |-> f.fds]
    /\ f.fds = [d \in Fds |-> f.fds[d]]

\* The entry the stream gives next is the one its offset asks for.
IsDir(x) ==
    /\ x = [ents |-> x.ents, pos |-> x.pos, entry |-> x.entry, offset |-> x.offset]
    /\ x.ents \in Seq(Paths) /\ x.offset \in Nat
    /\ x.pos \in 0..Len(x.ents) /\ x.entry \in 0..Len(x.ents)
    /\ LET next == IF x.entry # 0 THEN x.entry - 1 ELSE x.pos
       IN next = IF x.offset <= Len(x.ents) THEN x.offset ELSE Len(x.ents)

ServerInv ==
    /\ IsFS(fs)
    /\ dirs = [d \in Dirps |-> dirs[d]]
    /\ \A d \in LiveDirs(dirs) : IsDir(dirs[d])

\* A handle of a file; of a directory, read up to off.
IsHandle(h) ==
    /\ IsFi(h.fi)
    /\ \/ /\ h.kind = "file"
          /\ h = [kind |-> "file", path |-> h.path, fi |-> h.fi, ino |-> h.ino]
          /\ h.fi.fh \in Fds
       \/ /\ h.kind = "dir"
          /\ h = [kind |-> "dir", path |-> h.path, fi |-> h.fi, all |-> h.all,
                  off |-> h.off, got |-> h.got, end |-> h.end]
          /\ h.fi.fh \in Dirps
          /\ h.all \in Seq(Paths) /\ h.off \in 0..Len(h.all)
          /\ h.got = SubSeq(h.all, 1, h.off)
          /\ h.end => h.off = Len(h.all)

IsArgs(op, a) ==
    /\ a = [path |-> a.path, to |-> a.to, val |-> a.val, offset |-> a.offset, fi |-> a.fi]
    /\ IsFi(a.fi) /\ a.offset \in Nat
    /\ op \notin TwoPathOps => a.to = ""
    /\ "fi" \notin Calls[op].sends => a.fi = NoFi
    /\ op \in OpenOps => a.fi.fh = 0
    /\ op = "release" => a.fi.fh \in Fds
    /\ op = "releasedir" => a.fi.fh \in Dirps

\* What is true of a call whatever the others do.
IsCall(k) ==
    /\ k = [op |-> k.op, client |-> k.client, args |-> k.args, room |-> k.room,
            waits |-> k.waits, held |-> k.held, acted |-> k.acted, all |-> k.all,
            request |-> k.request, phase |-> k.phase, reply |-> k.reply, res |-> k.res,
            want |-> k.want]
    /\ k.op \in Offered /\ k.client \in Clients /\ k.waits \in BOOLEAN
    /\ k.phase \in Unserved \cup Done
    /\ k.phase = "deleted" => k.waits
    /\ k.room \in (IF k.op = "readdir" THEN Rooms ELSE {0})
    /\ IsArgs(k.op, k.args)
    /\ k.request = Message(k.args, Calls[k.op].sends, NoArgs)
    /\ k.op \in OpenOps /\ k.phase \in Done /\ k.res = 0 =>
         /\ IsFi(k.reply.fi)
         /\ k.op = "opendir" => k.reply.fi.fh \in Dirps /\ k.all \in Seq(Paths)
         /\ k.op # "opendir" => k.reply.fi.fh \in Fds

CallsInv ==
    /\ load \in Workloads
    /\ call = [n \in Numbers |-> call[n]]
    /\ handles = [c \in Clients |-> handles[c]]
    /\ \A c \in Clients : \A h \in handles[c] : IsHandle(h)
    /\ \A n \in Active : IsCall(call[n])
    /\ \A n, m \in Waiting : call[n].client = call[m].client => n = m

\* The page a server's readdir gives of a directory from offset on.
Page(all, offset) ==
    [i \in 1..Min({rpc_filler_room, Len(all) - offset}) |->
        [name |-> all[offset + i], off |-> offset + i]]

\* The handle of a call a client waits for, and what the call did to it.
HeldBy(k) ==
    /\ k.op \notin CloseOps => k.held = HandleOf(k.client, k.args)
    /\ k.op \in FileOps \ CloseOps =>
         \E h \in handles[k.client] : h.kind = "file" /\ h.fi = k.args.fi
    /\ k.op = "readdir" =>
         \E h \in handles[k.client] : h.kind = "dir" /\ h.fi = k.args.fi /\ h.off = k.args.offset
    /\ k.op \in FileOps /\ k.phase \in Done => \A h \in k.held : k.acted = h.ino
    /\ k.op = "readdir" /\ k.phase \in Done =>
         \A h \in k.held : k.reply.ents = Page(h.all, k.args.offset)

HeldInv == \A n \in Waiting : HeldBy(call[n])

\* A call that owns a descriptor or a directory stream, and which.
Owner(k) ==
    \/ k.waits /\ k.op \in OpenOps /\ k.phase \in Done /\ k.res = 0
    \/ k.op \in CloseOps /\ k.phase \in Unserved
Fh(k) == IF k.op \in OpenOps THEN k.reply.fi.fh ELSE k.args.fi.fh
Owners == {n \in Active : Owner(call[n])}

UniqueInv ==
    /\ \A c, d \in Clients : \A h \in handles[c], g \in handles[d] :
           h.fi.fh = g.fi.fh => c = d /\ h = g
    /\ \A n \in Owners : \A c \in Clients : \A h \in handles[c] : h.fi.fh # Fh(call[n])
    /\ \A n, m \in Owners : Fh(call[n]) = Fh(call[m]) => n = m

\* What is owned is open, and is what it was opened for.
LiveHandle(h) ==
    IF h.kind = "file" THEN fs.fds[h.fi.fh] = h.ino /\ h.ino # 0
    ELSE h.fi.fh \in LiveDirs(dirs) /\ dirs[h.fi.fh].ents = h.all
LiveCall(k) ==
    /\ k.op \in {"open", "create"} => fs.fds[Fh(k)] = k.acted /\ k.acted # 0
    /\ k.op = "release" => fs.fds[Fh(k)] # 0 /\ \A h \in k.held : fs.fds[Fh(k)] = h.ino
    /\ k.op = "opendir" => Fh(k) \in LiveDirs(dirs) /\ dirs[Fh(k)].ents = k.all
    /\ k.op = "releasedir" => Fh(k) \in LiveDirs(dirs)
LiveInv ==
    up => /\ \A c \in Clients : \A h \in handles[c] : LiveHandle(h)
          /\ \A n \in Owners : LiveCall(call[n])

\* Descriptors without an owner, and the opens that will leave one: their clients
\* have given up.
Leaked == {d \in Fds : /\ fs.fds[d] # 0
                       /\ \A c \in Clients : \A h \in handles[c] : h.fi.fh # d
                       /\ \A n \in Owners : Fh(call[n]) # d}
Orphans == {n \in Active : /\ ~call[n].waits /\ call[n].op \in {"open", "create"}
                           /\ call[n].phase \in Unserved}
LeakInv == fails \in Nat /\ (up => Cardinality(Leaked) + Cardinality(Orphans) <= fails)

IndInv ==
    /\ ServerInv
    /\ CallsInv
    /\ HeldInv
    /\ UniqueInv
    /\ LiveInv
    /\ LeakInv
    /\ Transparent
=============================================================================
