------------------------------- MODULE NfsOps -------------------------------
(* The nfs mode of the local layer: an operation that changes the file system *)
(* syncs what it has changed before it returns.  Server threads run the calls *)
(* of clients side by side; the machine can crash between any two system      *)
(* calls, and keeps what was synced or written back.                          *)
EXTENDS Naturals, Sequences, FiniteSets, Functions

CONSTANTS Threads,
          Paths,
          DirOf,         \* DirOf[p]: the directory with the entry of p
          Requests,      \* the operations: [op, path, to]
          MaxCalls, MaxErrors, MaxCrashes   \* bounds

ASSUME NfsAssumption ==
    /\ MaxCalls \in Nat
    /\ DirOf \in [Paths -> Range(DirOf)]
    /\ \A r \in Requests :
         /\ r.op \in {"mknod", "mkfifo", "mkdir", "create", "unlink", "rmdir", "symlink",
                      "rename", "link"}
         /\ r.path \in Paths
         /\ r.op \in {"symlink", "rename", "link"} => r.to \in Paths

\* Inode n is made by call n, so numbers are not reused.  The machine's view, and the
\* disk's: an entry is on disk when its directory is synced, data when its inode is.
VARIABLES names, kind, data, target,
          diskNames, diskData,
          call,          \* of each thread
          opened,        \* inodes of descriptors the clients hold
          lost,          \* inodes of descriptors no one holds
          ncalls, nerrors, ncrashes,
          last,          \* history: the call that last changed a path
          promised,      \* history: what calls that succeeded have promised of an entry
          promisedData   \* and of data: that no older write than this is on disk

vars == <<names, kind, data, target, diskNames, diskData, call, opened, lost,
          ncalls, nerrors, ncrashes, last, promised, promisedData>>

Inodes == 1 .. MaxCalls
None == MaxCalls + 1     \* no promise
Idle == [op |-> "idle", id |-> 0, path |-> "", to |-> "", ino |-> 0, syncs |-> <<>>]
Dirs == Range(DirOf)

Init ==
    /\ names = [p \in Paths |-> 0]
    /\ kind = [i \in Inodes |-> "file"]
    /\ data = [i \in Inodes |-> 0]
    /\ target = [i \in Inodes |-> ""]
    /\ diskNames = names /\ diskData = data
    /\ call = [t \in Threads |-> Idle]
    /\ opened = {} /\ lost = {}
    /\ ncalls = 0 /\ nerrors = 0 /\ ncrashes = 0
    /\ last = [p \in Paths |-> 0]
    /\ promised = [p \in Paths |-> None]
    /\ promisedData = data

-----------------------------------------------------------------------------
(* The system calls: when they succeed, and the entries they change. *)

\* The inode open(p) gets to, or 0: a symbolic link is followed.
Resolve(p) ==
    IF names[p] # 0 /\ kind[names[p]] = "link" THEN names[target[names[p]]] ELSE names[p]
IsFile(i) == i # 0 /\ kind[i] = "file"

Succeeds(r) ==
    CASE r.op \in {"mknod", "mkfifo", "mkdir"} -> names[r.path] = 0
      [] r.op = "create" -> names[r.path] = 0 \/ IsFile(Resolve(r.path))   \* no O_EXCL
      [] r.op = "symlink" -> names[r.to] = 0
      [] r.op = "unlink" -> names[r.path] # 0 /\ kind[names[r.path]] # "dir"
      [] r.op = "rmdir" -> names[r.path] # 0 /\ kind[names[r.path]] = "dir"
      [] r.op = "rename" ->
           /\ names[r.path] # 0
           /\ names[r.to] # 0 =>
                (kind[names[r.path]] = "dir") = (kind[names[r.to]] = "dir")
      [] r.op = "link" ->
           names[r.path] # 0 /\ kind[names[r.path]] # "dir" /\ names[r.to] = 0
Entries(r, i) ==
    CASE r.op \in {"mknod", "mkfifo", "mkdir", "create"} ->
           IF names[r.path] = 0 THEN [names EXCEPT ![r.path] = i] ELSE names
      [] r.op = "symlink" -> [names EXCEPT ![r.to] = i]
      [] r.op \in {"unlink", "rmdir"} -> [names EXCEPT ![r.path] = 0]
      [] r.op = "rename" -> IF names[r.path] = names[r.to] THEN names
                            ELSE [names EXCEPT ![r.to] = names[r.path], ![r.path] = 0]
      [] r.op = "link" -> [names EXCEPT ![r.to] = names[r.path]]
KindOf(r) == CASE r.op = "mkfifo" -> "fifo" [] r.op = "mkdir" -> "dir"
               [] r.op = "symlink" -> "link" [] OTHER -> "file"

-----------------------------------------------------------------------------
(* What each operation syncs, in order: <<"path", p>>, <<"dir", d>>, <<"fd", i>>. *)

Path(p) == <<"path", p>>
Dir(p) == <<"dir", DirOf[p]>>
\* Mutation: mknod syncs the new node as mkdir does.
MakeSyncsNode(r) ==
    CASE r.op \in {"mknod", "mkfifo", "mkdir"} -> <<Path(r.path), Dir(r.path)>>
      [] OTHER -> <<Dir(r.path)>>
\* nfs_mknod, nfs_mkdir, nfs_unlink, nfs_rmdir
MakeSyncs(r) ==
    CASE r.op = "mkdir" -> <<Path(r.path), Dir(r.path)>>
      [] OTHER -> <<Dir(r.path)>>
\* Mutation: rename does not sync the directory it moves to.
MoveSyncsOne(r) ==
    CASE r.op = "symlink" -> <<Dir(r.to)>>
      [] r.op = "rename" -> <<Path(r.to), Dir(r.path)>>
      [] r.op = "link" -> <<Path(r.path), Path(r.to), Dir(r.path), Dir(r.to)>>
\* nfs_symlink, nfs_rename, nfs_link
MoveSyncs(r) ==
    CASE r.op = "symlink" -> <<Dir(r.to)>>
      [] r.op = "rename" -> <<Path(r.to), Dir(r.path), Dir(r.to)>>
      [] r.op = "link" -> <<Path(r.path), Path(r.to), Dir(r.path), Dir(r.to)>>
\* nfs_create
CreateSyncs(r, i) == <<<<"fd", i>>, Dir(r.path)>>
Syncs(r, i) == IF r.op = "create" THEN CreateSyncs(r, i)
               ELSE IF r.op \in {"symlink", "rename", "link"} THEN MoveSyncs(r)
               ELSE MakeSyncs(r)

\* The inode a call makes or moves.
Concerned(r, i) ==
    IF r.op \in {"rename", "link"} THEN names[r.path]
    ELSE IF r.op = "create" /\ names[r.path] # 0 THEN Resolve(r.path) ELSE i

\* A call that changes entries: its system call.
Change(t, r) ==
    LET i == ncalls + 1
        ino == Concerned(r, i)
        new == Entries(r, i)
        changed == {p \in Paths : new[p] # names[p]}
    IN /\ call[t] = Idle /\ ncalls < MaxCalls
       /\ Succeeds(r)
       /\ ncalls' = i
       /\ names' = new
       /\ kind' = [kind EXCEPT ![i] = KindOf(r)]
       /\ target' = [target EXCEPT ![i] = r.path]
       /\ last' = [p \in Paths |-> IF p \in changed THEN i ELSE last[p]]
       /\ promised' = [p \in Paths |-> IF p \in changed THEN None ELSE promised[p]]
       /\ call' = [call EXCEPT ![t] = [op |-> r.op, id |-> i, path |-> r.path, to |-> r.to,
                                       ino |-> ino, syncs |-> Syncs(r, ino)]]
       /\ UNCHANGED <<data, diskNames, diskData, opened, lost, nerrors, ncrashes, promisedData>>

OnFile == {"write", "unstable", "fsync"}

\* nfs_open, of a file
Open(t, p) ==
    /\ call[t] = Idle /\ IsFile(Resolve(p))
    /\ Resolve(p) \notin opened
    /\ opened' = opened \cup {Resolve(p)}
    /\ UNCHANGED <<names, kind, data, target, diskNames, diskData, call, lost,
                   ncalls, nerrors, ncrashes, last, promised, promisedData>>

\* nfs_write: pwrite, then fsync when the flush flag is set; sync_client::write sets it,
\* async_client::write does not.
Write(t, i, flush) ==
    /\ call[t] = Idle /\ i \in opened /\ ncalls < MaxCalls
    /\ ncalls' = ncalls + 1
    /\ data' = [data EXCEPT ![i] = ncalls + 1]
    /\ call' = [call EXCEPT ![t] =
         [Idle EXCEPT !.op = IF flush THEN "write" ELSE "unstable", !.id = ncalls + 1,
                      !.ino = i, !.syncs = IF flush THEN <<<<"fd", i>>>> ELSE <<>>]]
    /\ UNCHANGED <<names, kind, target, diskNames, diskData, opened, lost, nerrors, ncrashes,
                   last, promised, promisedData>>

\* nfs_flush and nfs_fsync
Flush(t, i) ==
    /\ call[t] = Idle /\ i \in opened /\ data[i] # diskData[i]
    /\ call' = [call EXCEPT ![t] = [Idle EXCEPT !.op = "fsync", !.id = data[i],
                                      !.ino = i, !.syncs = <<<<"fd", i>>>>]]
    /\ UNCHANGED <<names, kind, data, target, diskNames, diskData, opened, lost,
                   ncalls, nerrors, ncrashes, last, promised, promisedData>>

\* nfs_release: no call on the descriptor is under way.
Release(t, i) ==
    /\ call[t] = Idle /\ i \in opened
    /\ \A u \in Threads : call[u].op \in OnFile => call[u].ino # i
    /\ opened' = opened \ {i}
    /\ UNCHANGED <<names, kind, data, target, diskNames, diskData, call, lost,
                   ncalls, nerrors, ncrashes, last, promised, promisedData>>

-----------------------------------------------------------------------------
(* sync_path and fsync *)

InodeOf(s) == IF s[1] = "path" THEN Resolve(s[2]) ELSE IF s[1] = "fd" THEN s[2] ELSE 0

\* fsync of a directory puts its entries on disk, that of a file its data.
DoSync(s) ==
    /\ diskNames' = [p \in Paths |-> IF s = Dir(p) THEN names[p] ELSE diskNames[p]]
    /\ diskData' = [i \in Inodes |-> IF i = InodeOf(s) THEN data[i] ELSE diskData[i]]

Working(t) == call[t].syncs # <<>>
\* open of a FIFO for reading waits for a writer.
Blocked(t) ==
    /\ Working(t)
    /\ LET s == Head(call[t].syncs)
       IN s[1] = "path" /\ Resolve(s[2]) # 0 /\ kind[Resolve(s[2])] = "fifo"
Missing(t) == LET s == Head(call[t].syncs) IN s[1] = "path" /\ Resolve(s[2]) = 0

Sync(t) ==
    /\ Working(t) /\ ~Blocked(t) /\ ~Missing(t)
    /\ DoSync(Head(call[t].syncs))
    /\ call' = [call EXCEPT ![t].syncs = Tail(@)]
    /\ UNCHANGED <<names, kind, data, target, opened, lost,
                   ncalls, nerrors, ncrashes, last, promised, promisedData>>

\* open, fsync or close fails, and the call with it: what it did before stays.  nfs_create
\* then leaves its descriptor open.
SyncFails(t) ==
    /\ Working(t) /\ ~Blocked(t)
    /\ IF Missing(t) THEN UNCHANGED nerrors
       ELSE nerrors < MaxErrors /\ nerrors' = nerrors + 1
    /\ lost' = IF call[t].op = "create" THEN lost \cup {call[t].ino} ELSE lost
    /\ call' = [call EXCEPT ![t] = Idle]
    /\ UNCHANGED <<names, kind, data, target, diskNames, diskData, opened,
                   ncalls, ncrashes, last, promised, promisedData>>

\* The call returns 0, or the size written.
Return(t) ==
    LET c == call[t]
    IN /\ c.op # "idle" /\ c.syncs = <<>>
       /\ promised' = [p \in Paths |-> IF c.op \notin OnFile /\ last[p] = c.id
                                       THEN names[p] ELSE promised[p]]
       /\ promisedData' = IF c.op \in {"write", "fsync"} /\ c.id > promisedData[c.ino]
                          THEN [promisedData EXCEPT ![c.ino] = c.id] ELSE promisedData
       /\ opened' = IF c.op = "create" THEN opened \cup {c.ino} ELSE opened
       /\ call' = [call EXCEPT ![t] = Idle]
       /\ UNCHANGED <<names, kind, data, target, diskNames, diskData, lost,
                      ncalls, nerrors, ncrashes, last>>

-----------------------------------------------------------------------------
(* The machine: the kernel writes back when it likes, and can crash. *)

WriteBack(d) ==
    /\ DoSync(<<"dir", d>>)
    /\ diskNames' # diskNames
    /\ UNCHANGED <<names, kind, data, target, call, opened, lost,
                   ncalls, nerrors, ncrashes, last, promised, promisedData>>

Crash ==
    /\ ncrashes < MaxCrashes
    /\ ncrashes' = ncrashes + 1
    /\ names' = diskNames
    /\ data' = diskData
    /\ call' = [t \in Threads |-> Idle]
    /\ opened' = {} /\ lost' = {}
    /\ UNCHANGED <<kind, target, diskNames, diskData, ncalls, nerrors, last, promised, promisedData>>

Next ==
    \/ \E t \in Threads, r \in Requests : Change(t, r)
    \/ \E t \in Threads, p \in Paths : Open(t, p)
    \/ \E t \in Threads, i \in Inodes, flush \in BOOLEAN : Write(t, i, flush)
    \/ \E t \in Threads, i \in Inodes : Flush(t, i)
    \/ \E t \in Threads, i \in Inodes : Release(t, i)
    \/ \E t \in Threads : Sync(t)
    \/ \E t \in Threads : SyncFails(t)
    \/ \E t \in Threads : Return(t)
    \/ \E d \in Dirs : WriteBack(d)
    \/ Crash

Spec == Init /\ [][Next]_vars

-----------------------------------------------------------------------------
(* Properties *)

\* An operation of nfs mode that has succeeded survives a crash (nfs_operations.cpp: "the
\* operation has completed and any modified data associated with the request is now on
\* stable storage"): the entries it made, moved or removed are on disk as it left them
\* until another call changes them, and a write with the flush flag, flush and fsync have
\* their data, or newer data, on disk.
Durable ==
    /\ \A p \in Paths : promised[p] # None => /\ diskNames[p] = promised[p]
                                              /\ names[p] = promised[p]
    /\ \A i \in Inodes : diskData[i] >= promisedData[i]

\* sync_path opens what it syncs by name.  It gets stuck (a FIFO without a writer) or
\* fails (nothing there) after the system call has succeeded only where another call has
\* replaced the entry meanwhile, or rename and link moved a FIFO or a symbolic link;
\* mknod of a FIFO and symlink do not open what they make.
SyncsWhatItMade ==
    \A t \in Threads :
        Working(t) /\ Head(call[t].syncs)[1] = "path" /\ (Blocked(t) \/ Missing(t)) =>
            \/ names[Head(call[t].syncs)[2]] # call[t].ino
            \/ call[t].op \in {"rename", "link"} /\ kind[call[t].ino] \in {"fifo", "link"}
=============================================================================
