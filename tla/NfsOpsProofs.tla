---------------------------- MODULE NfsOpsProofs ----------------------------
(* Durable and SyncsWhatItMade hold for any threads, paths, directories and   *)
(* requests, and any number of calls, failures and crashes.                   *)
EXTENDS NfsOps, TLAPS, SequenceTheorems

USE Zenon

Items == {"path", "dir", "fd"} \X (Paths \cup Dirs \cup (0 .. MaxCalls))

\* Inodes are numbers, and links lead to paths.
Types ==
    /\ names \in [Paths -> 0 .. MaxCalls]
    /\ diskNames \in [Paths -> 0 .. MaxCalls]
    /\ data \in [Inodes -> Nat] /\ diskData \in [Inodes -> Nat]
    /\ promisedData \in [Inodes -> Nat]
    /\ promised \in [Paths -> Nat] /\ last \in [Paths -> Nat]
    /\ kind \in [Inodes -> {"file", "dir", "fifo", "link"}]
    /\ DOMAIN target = Inodes
    /\ \A i \in Inodes : kind[i] = "link" => target[i] \in Paths
    /\ ncalls \in Nat
    /\ DOMAIN call = Threads

\* What a call has changed and not yet synced is still in its list.
Pending(t) ==
    /\ call[t].id \in Nat /\ call[t].id <= ncalls
    /\ call[t].syncs \in Seq(Items)
    /\ call[t].ino \in 0 .. MaxCalls
    /\ call[t].op \notin OnFile \cup {"idle"} =>
         \A p \in Paths : last[p] = call[t].id =>
             Dir(p) \in Range(call[t].syncs) \/ diskNames[p] = names[p]
    /\ call[t].op \in {"write", "fsync"} =>
         /\ call[t].ino \in Inodes
         /\ call[t].id <= data[call[t].ino]
         /\ <<"fd", call[t].ino>> \in Range(call[t].syncs)
            \/ call[t].id <= diskData[call[t].ino]

IInv ==
    /\ Types
    /\ \A t \in Threads : Pending(t)
    /\ \A p \in Paths : last[p] <= ncalls
    /\ \A i \in Inodes : diskData[i] <= data[i]
    /\ \A i \in Inodes : data[i] <= ncalls
    /\ Durable

-----------------------------------------------------------------------------
(* Lists of syncs. *)

\* Taking the head of a list leaves the others in it.
LEMMA TailRange ==
  ASSUME NEW S, NEW q \in Seq(S), q # <<>>, NEW x \in Range(q), x # Head(q)
  PROVE  x \in Range(Tail(q))
<1>1. PICK i \in DOMAIN q : x = q[i]
  BY DEF Range
<1>2. i \in 1 .. Len(q) /\ i # 1
  BY <1>1, SMT
<1>3. i - 1 \in DOMAIN Tail(q) /\ Tail(q)[i - 1] = q[i]
  BY <1>2, SMT
<1> QED BY <1>1, <1>3 DEF Range

\* Members of the lists that operations are made of.
LEMMA ListRange ==
  ASSUME NEW a, NEW b, NEW c, NEW d
  PROVE  /\ a \in Range(<<a>>)
         /\ a \in Range(<<a, b>>) /\ b \in Range(<<a, b>>)
         /\ b \in Range(<<a, b, c>>) /\ c \in Range(<<a, b, c>>)
         /\ c \in Range(<<a, b, c, d>>) /\ d \in Range(<<a, b, c, d>>)
<1>1. <<a>>[1] = a /\ 1 \in DOMAIN <<a>>
  BY SMT
<1>2. <<a, b>>[1] = a /\ <<a, b>>[2] = b /\ 1 \in DOMAIN <<a, b>> /\ 2 \in DOMAIN <<a, b>>
  BY SMT
<1>3. <<a, b, c>>[2] = b /\ <<a, b, c>>[3] = c /\ 2 \in DOMAIN <<a, b, c>> /\ 3 \in DOMAIN <<a, b, c>>
  BY SMT
<1>4. <<a, b, c, d>>[3] = c /\ <<a, b, c, d>>[4] = d /\ 3 \in DOMAIN <<a, b, c, d>>
      /\ 4 \in DOMAIN <<a, b, c, d>>
  BY SMT
<1> QED BY <1>1, <1>2, <1>3, <1>4 DEF Range

\* The directory of every entry that a system call changes is in the list of its call:
\* what nfs_operations.cpp must get right for each operation.
LEMMA ChangeListed ==
  ASSUME NEW r \in Requests, NEW i, NEW j, NEW p \in Paths, names \in [Paths -> 0 .. MaxCalls],
         Succeeds(r), Entries(r, i)[p] # names[p]
  PROVE  Dir(p) \in Range(Syncs(r, j))
<1> USE NfsAssumption
<1>1. CASE r.op \in {"mknod", "mkfifo", "unlink", "rmdir"}
  <2>1. p = r.path
    BY <1>1, SMT DEF Entries
  <2>2. Syncs(r, j) = <<Dir(r.path)>>
    BY <1>1, SMT DEF Syncs, MakeSyncs
  <2> QED BY <2>1, <2>2, ListRange
<1>2. CASE r.op = "mkdir"
  <2>1. p = r.path
    BY <1>2, SMT DEF Entries
  <2>2. Syncs(r, j) = <<Path(r.path), Dir(r.path)>>
    BY <1>2, SMT DEF Syncs, MakeSyncs
  <2> QED BY <2>1, <2>2, ListRange
<1>3. CASE r.op = "create"
  <2>1. p = r.path
    BY <1>3, SMT DEF Entries
  <2>2. Syncs(r, j) = <<<<"fd", j>>, Dir(r.path)>>
    BY <1>3 DEF Syncs, CreateSyncs
  <2> QED BY <2>1, <2>2, ListRange
<1>4. CASE r.op = "symlink"
  <2>1. p = r.to
    BY <1>4, SMT DEF Entries
  <2>2. Syncs(r, j) = <<Dir(r.to)>>
    BY <1>4, SMT DEF Syncs, MoveSyncs
  <2> QED BY <2>1, <2>2, ListRange
<1>5. CASE r.op = "rename"
  <2>1. p = r.path \/ p = r.to
    BY <1>5, SMT DEF Entries
  <2>2. Syncs(r, j) = <<Path(r.to), Dir(r.path), Dir(r.to)>>
    BY <1>5, SMT DEF Syncs, MoveSyncs
  <2> QED BY <2>1, <2>2, ListRange
<1>6. CASE r.op = "link"
  <2>1. p = r.to
    BY <1>6, SMT DEF Entries
  <2>2. Syncs(r, j) = <<Path(r.path), Path(r.to), Dir(r.path), Dir(r.to)>>
    BY <1>6, SMT DEF Syncs, MoveSyncs
  <2> QED BY <2>1, <2>2, ListRange
<1> QED BY <1>1, <1>2, <1>3, <1>4, <1>5, <1>6

\* The types of what a call makes.
LEMMA ChangeTypes ==
  ASSUME Types, NEW r \in Requests, Succeeds(r), NEW i \in Inodes
  PROVE  /\ Entries(r, i) \in [Paths -> 0 .. MaxCalls]
         /\ Concerned(r, i) \in 0 .. MaxCalls
         /\ Syncs(r, Concerned(r, i)) \in Seq(Items)
         /\ KindOf(r) \in {"file", "dir", "fifo", "link"}
<1> USE NfsAssumption
<1> DEFINE j == Concerned(r, i)
<1>0. i \in 0 .. MaxCalls /\ 0 \in 0 .. MaxCalls
  BY SMT DEF Inodes
<1>1. \A p \in Paths : names[p] \in 0 .. MaxCalls
  BY DEF Types
<1>2. Entries(r, i) \in [Paths -> 0 .. MaxCalls]
  BY <1>0, <1>1, SMT DEF Entries, Types
<1>3. \A p \in Paths : Resolve(p) \in 0 .. MaxCalls
  <2> SUFFICES ASSUME NEW p \in Paths PROVE Resolve(p) \in 0 .. MaxCalls
    OBVIOUS
  <2>1. CASE names[p] # 0 /\ kind[names[p]] = "link"
    <3>1. names[p] \in Inodes
      BY <1>1, <2>1, SMT DEF Inodes
    <3>2. target[names[p]] \in Paths
      BY <2>1, <3>1 DEF Types
    <3> QED BY <1>1, <2>1, <3>2 DEF Resolve
  <2>2. CASE ~(names[p] # 0 /\ kind[names[p]] = "link")
    BY <1>1, <2>2 DEF Resolve
  <2> QED BY <2>1, <2>2
<1>4. j \in 0 .. MaxCalls
  BY <1>0, <1>1, <1>3 DEF Concerned
<1>5. \A p \in Paths : Path(p) \in Items /\ Dir(p) \in Items
  BY SMT DEF Items, Path, Dir, Dirs
<1>6. <<"fd", j>> \in Items
  BY <1>4, SMT DEF Items
<1>7. Syncs(r, j) \in Seq(Items)
  <2> HIDE DEF j
  <2>1. CASE r.op = "create"
    BY <1>5, <1>6, <2>1, SMT DEF Syncs, CreateSyncs
  <2>2. CASE r.op \in {"symlink", "rename", "link"}
    BY <1>5, <2>2, SMT DEF Syncs, MoveSyncs
  <2>3. CASE r.op \notin {"create", "symlink", "rename", "link"}
    BY <1>5, <2>3, SMT DEF Syncs, MakeSyncs
  <2> QED BY <2>1, <2>2, <2>3
<1>8. KindOf(r) \in {"file", "dir", "fifo", "link"}
  BY SMT DEF KindOf
<1> QED BY <1>2, <1>4, <1>7, <1>8
-----------------------------------------------------------------------------
(* The steps. *)

\* The record of a thread that has no call.
LEMMA IdleFields == Idle.id = 0 /\ Idle.syncs = <<>> /\ Idle.ino = 0 /\ Idle.op = "idle"
<1>1. Idle.id = 0
  BY DEF Idle
<1>2. Idle.syncs = <<>>
  BY DEF Idle
<1>3. Idle.ino = 0
  BY DEF Idle
<1>4. Idle.op = "idle"
  BY DEF Idle
<1> QED BY <1>1, <1>2, <1>3, <1>4

\* Every state in which nothing was done yet satisfies the invariant.
LEMMA InitStep == Init => IInv
<1> SUFFICES ASSUME Init PROVE IInv
  OBVIOUS
<1>0. /\ names = [p \in Paths |-> 0] /\ kind = [i \in Inodes |-> "file"]
      /\ data = [i \in Inodes |-> 0] /\ target = [i \in Inodes |-> ""]
      /\ diskNames = names /\ diskData = data /\ call = [t \in Threads |-> Idle]
      /\ ncalls = 0 /\ last = [p \in Paths |-> 0] /\ promised = [p \in Paths |-> None]
      /\ promisedData = data
  BY DEF Init
<1>z. 0 \in Nat /\ 0 <= 0 /\ 0 >= 0 /\ 0 \in 0 .. MaxCalls /\ None \in Nat
  BY ONLY NfsAssumption, SMT DEF None
<1>1. Types
  <2>1. \A i \in Inodes : kind[i] = "link" => target[i] \in Paths
    <3>1. "file" # "link"
      BY SMT
    <3> QED BY <1>0, <3>1
  <2> QED BY <1>0, <1>z, <2>1 DEF Types
<1>2. \A t \in Threads : Pending(t)
  <2> SUFFICES ASSUME NEW t \in Threads PROVE Pending(t)
    OBVIOUS
  <2>1. call[t] = Idle
    BY <1>0
  <2>2. /\ call[t].id = 0 /\ call[t].syncs = <<>> /\ call[t].ino = 0 /\ call[t].op = "idle"
    BY <2>1, IdleFields
  <2>3. <<>> \in Seq(Items) /\ "idle" \notin {"write", "fsync"}
    BY ONLY SMT
  <2> QED BY <1>0, <1>z, <2>2, <2>3 DEF Pending
<1>3. /\ \A p \in Paths : last[p] <= ncalls
      /\ \A i \in Inodes : diskData[i] <= data[i] /\ data[i] <= ncalls
  BY <1>0, <1>z
<1>4. Durable
  BY <1>0, <1>z DEF Durable
<1> QED BY <1>1, <1>2, <1>3, <1>4 DEF IInv

\* A thread without a call has nothing to sync.
LEMMA IdlePending ==
  ASSUME NEW t \in Threads, call'[t] = Idle, ncalls' \in Nat
  PROVE  Pending(t)'
<1>1. /\ call'[t].id = 0 /\ call'[t].syncs = <<>> /\ call'[t].ino = 0 /\ call'[t].op = "idle"
  BY IdleFields
<1>2. /\ <<>> \in Seq(Items) /\ 0 \in Nat /\ 0 <= ncalls' /\ 0 \in 0 .. MaxCalls
      /\ "idle" \notin {"write", "fsync"}
  BY NfsAssumption, SMT
<1> QED BY <1>1, <1>2 DEF Pending, Items

\* The system call of an operation that changes entries.
LEMMA ChangeStep ==
  ASSUME IInv, NEW t \in Threads, NEW r \in Requests, Change(t, r)
  PROVE  IInv'
<1> DEFINE i == ncalls + 1
           j == Concerned(r, i)
           new == Entries(r, i)
           changed == {p \in Paths : new[p] # names[p]}
<1> USE NfsAssumption
<1>0. /\ ncalls \in Nat /\ ncalls < MaxCalls /\ Succeeds(r) /\ ncalls' = i /\ names' = new
      /\ kind' = [kind EXCEPT ![i] = KindOf(r)]
      /\ target' = [target EXCEPT ![i] = r.path]
      /\ last' = [p \in Paths |-> IF p \in changed THEN i ELSE last[p]]
      /\ promised' = [p \in Paths |-> IF p \in changed THEN None ELSE promised[p]]
      /\ call' = [call EXCEPT ![t] = [op |-> r.op, id |-> i, path |-> r.path, to |-> r.to,
                                      ino |-> j, syncs |-> Syncs(r, j)]]
      /\ UNCHANGED <<data, diskNames, diskData, promisedData>>
  BY DEF Change, IInv, Types
<1>1. i \in Inodes /\ i \in Nat /\ ncalls <= i /\ ncalls < i /\ i <= i
  BY ONLY <1>0, NfsAssumption, SMT DEF Inodes
<1>2. /\ new \in [Paths -> 0 .. MaxCalls] /\ j \in 0 .. MaxCalls
      /\ Syncs(r, j) \in Seq(Items) /\ KindOf(r) \in {"file", "dir", "fifo", "link"}
  BY <1>0, <1>1, ChangeTypes DEF IInv
<1>3. \A p \in changed : Dir(p) \in Range(Syncs(r, j))
  BY <1>0, ChangeListed DEF IInv, Types
<1> HIDE DEF i, j, new
<1>4. Types'
  <2>1. /\ names' \in [Paths -> 0 .. MaxCalls] /\ diskNames' \in [Paths -> 0 .. MaxCalls]
        /\ data' \in [Inodes -> Nat] /\ diskData' \in [Inodes -> Nat]
        /\ promisedData' \in [Inodes -> Nat] /\ ncalls' \in Nat /\ DOMAIN call' = Threads
    BY <1>0, <1>1, <1>2 DEF IInv, Types
  <2>2. last' \in [Paths -> Nat] /\ promised' \in [Paths -> Nat]
    BY <1>0, <1>1, SMT DEF IInv, Types, None
  <2>3. kind' \in [Inodes -> {"file", "dir", "fifo", "link"}] /\ DOMAIN target' = Inodes
    BY <1>0, <1>2 DEF IInv, Types
  <2>4. ASSUME NEW k \in Inodes, kind'[k] = "link" PROVE target'[k] \in Paths
    <3>1. CASE k = i
      BY <1>0, <3>1 DEF IInv, Types
    <3>2. CASE k # i
      BY <1>0, <2>4, <3>2 DEF IInv, Types
    <3> QED BY <3>1, <3>2
  <2> QED BY <2>1, <2>2, <2>3, <2>4 DEF Types
<1>5. ASSUME NEW u \in Threads PROVE Pending(u)'
  <2>1. CASE u = t
    <3>1. /\ call'[u].op = r.op /\ call'[u].id = i /\ call'[u].ino = j
          /\ call'[u].syncs = Syncs(r, j)
      BY <1>0, <2>1 DEF IInv, Types
    <3>2. r.op \notin {"write", "fsync"}
      BY SMT
    <3>3. ASSUME NEW p \in Paths, last'[p] = i PROVE Dir(p) \in Range(Syncs(r, j))
      <4>1. p \in changed
        <5>1. last[p] # i
          BY <1>0, <1>1, SMT DEF IInv, Types
        <5> QED BY <1>0, <3>3, <5>1
      <4> QED BY <4>1, <1>3
    <3> QED BY <1>0, <1>1, <1>2, <3>1, <3>2, <3>3 DEF Pending, Dir, Items
  <2>2. CASE u # t
    <3>1. call'[u] = call[u] /\ Pending(u)
      BY <1>0, <2>2 DEF IInv, Types
    <3>2. call[u].id <= i /\ call[u].id # i
      BY ONLY <1>0, <1>1, <3>1, SMT DEF Pending
    <3>3. ASSUME NEW p \in Paths, last'[p] = call[u].id
          PROVE  last[p] = call[u].id /\ names'[p] = names[p]
      BY <1>0, <3>2, <3>3
    <3> QED BY <1>0, <3>1, <3>2, <3>3 DEF Pending, Dir, Items
  <2> QED BY <2>1, <2>2
<1>6. \A p \in Paths : last'[p] <= ncalls'
  BY <1>0, <1>1, SMT DEF IInv, Types
<1>7. \A k \in Inodes : diskData'[k] <= data'[k] /\ data'[k] <= ncalls'
  BY <1>0, <1>1, SMT DEF IInv, Types
<1>8. Durable'
  <2>1. ASSUME NEW p \in Paths, promised'[p] # None
        PROVE  diskNames'[p] = promised'[p] /\ names'[p] = promised'[p]
    BY <1>0, <2>1 DEF IInv, Durable
  <2>2. \A k \in Inodes : diskData'[k] >= promisedData'[k]
    BY <1>0 DEF IInv, Durable
  <2> QED BY <2>1, <2>2 DEF Durable, None
<1> QED BY <1>4, <1>5, <1>6, <1>7, <1>8 DEF IInv
\* Steps that change neither entries nor data nor the disk, and leave the calls or drop one.
LEMMA QuietStep ==
  ASSUME IInv, UNCHANGED <<names, kind, data, target, diskNames, diskData, ncalls, last,
                           promised, promisedData>>,
         DOMAIN call' = Threads, \A t \in Threads : call'[t] \in {call[t], Idle}
  PROVE  IInv'
<1>1. Types'
  BY DEF IInv, Types, Inodes
<1>2. ASSUME NEW t \in Threads PROVE Pending(t)'
  <2>1. CASE call'[t] = Idle
    BY <2>1, IdlePending, <1>1 DEF Types
  <2>2. CASE call'[t] = call[t]
    BY <2>2 DEF IInv, Pending, Items, Dir, Inodes, OnFile
  <2> QED BY <2>1, <2>2
<1>3. Durable'
  BY DEF IInv, Durable, None, Inodes
<1> QED BY <1>1, <1>2, <1>3 DEF IInv, Inodes

\* pwrite of nfs_write: the new data is newer than any on disk.
LEMMA WriteStep ==
  ASSUME IInv, NEW t \in Threads, NEW i \in Inodes, NEW flush \in BOOLEAN, Write(t, i, flush)
  PROVE  IInv'
<1> DEFINE n == ncalls + 1
           c == [Idle EXCEPT !.op = IF flush THEN "write" ELSE "unstable", !.id = n,
                             !.ino = i, !.syncs = IF flush THEN <<<<"fd", i>>>> ELSE <<>>]
<1> USE NfsAssumption
<1>0. /\ ncalls \in Nat /\ ncalls' = n /\ data' = [data EXCEPT ![i] = n]
      /\ call' = [call EXCEPT ![t] = c]
      /\ UNCHANGED <<names, kind, target, diskNames, diskData, last, promised, promisedData>>
  BY DEF Write, IInv, Types
<1>1. /\ c.id = n /\ c.ino = i
      /\ c.op = (IF flush THEN "write" ELSE "unstable")
      /\ c.syncs = (IF flush THEN <<<<"fd", i>>>> ELSE <<>>)
  BY DEF Idle
<1>2. n \in Nat /\ ncalls <= n /\ n <= n
  BY ONLY <1>0, SMT
<1>3. i \in 0 .. MaxCalls /\ <<"fd", i>> \in Items
  BY SMT DEF Inodes, Items
<1> HIDE DEF c, n
<1>4. Types'
  BY <1>0, <1>2 DEF IInv, Types, Inodes
<1>5. \A k \in Inodes : data[k] <= data'[k]
  <2>0. \A k \in Inodes : data[k] <= ncalls
    BY DEF IInv
  <2> QED BY <1>0, <1>2, <2>0, SMT DEF IInv, Types
<1>6. ASSUME NEW u \in Threads PROVE Pending(u)'
  <2>1. CASE u = t
    <3>1. call'[u] = c
      BY <1>0, <2>1 DEF IInv, Types
    <3>2. c.syncs \in Seq(Items)
      BY <1>1, <1>3, SMT
    <3>3. c.op \in OnFile
      BY <1>1 DEF OnFile
    <3>4. c.op \in {"write", "fsync"} => <<"fd", i>> \in Range(c.syncs)
      <4>1. CASE flush
        BY <1>1, <4>1, ListRange
      <4>2. CASE ~flush
        <5>1. "unstable" \notin {"write", "fsync"}
          BY SMT
        <5> QED BY <1>1, <4>2, <5>1
      <4> QED BY <4>1, <4>2
    <3>5. data'[i] = n
      BY <1>0 DEF IInv, Types
    <3> QED BY <1>0, <1>1, <1>2, <1>3, <3>1, <3>2, <3>3, <3>4, <3>5 DEF Pending, Items, Inodes, OnFile
  <2>2. CASE u # t
    <3>1. call'[u] = call[u] /\ Pending(u)
      BY <1>0, <2>2 DEF IInv, Types
    <3>2. call[u].id \in Nat /\ call[u].id <= ncalls'
      BY ONLY <1>0, <1>2, <3>1, SMT DEF Pending, n
    <3>3. call[u].op \in {"write", "fsync"} => call[u].id <= data'[call[u].ino]
      <4> SUFFICES ASSUME call[u].op \in {"write", "fsync"}
                   PROVE  call[u].id <= data'[call[u].ino]
        OBVIOUS
      <4>1. call[u].ino \in Inodes /\ call[u].id <= data[call[u].ino]
        BY <3>1 DEF Pending
      <4>2. data[call[u].ino] \in Nat /\ data'[call[u].ino] \in Nat
        BY <1>4, <4>1 DEF IInv, Types, Inodes
      <4>3. data[call[u].ino] <= data'[call[u].ino]
        BY <1>5, <4>1
      <4> QED BY ONLY <3>2, <4>1, <4>2, <4>3, SMT
    <3> QED BY <1>0, <3>1, <3>2, <3>3 DEF Pending, Items, Inodes, OnFile, Dir
  <2> QED BY <2>1, <2>2
<1>7. \A p \in Paths : last'[p] <= ncalls'
  BY <1>0, <1>2, SMT DEF IInv, Types
<1>8. \A k \in Inodes : diskData'[k] <= data'[k]
  BY <1>0, <1>4, <1>5, SMT DEF IInv, Types
<1>9. Durable'
  BY <1>0 DEF IInv, Durable, None, Inodes
<1>10. \A k \in Inodes : data'[k] <= ncalls'
  BY <1>0, <1>2, SMT DEF IInv, Types
<1> QED BY <1>4, <1>6, <1>7, <1>8, <1>9, <1>10 DEF IInv, Inodes
\* nfs_flush and nfs_fsync start.
LEMMA FlushStep ==
  ASSUME IInv, NEW t \in Threads, NEW i \in Inodes, Flush(t, i)
  PROVE  IInv'
<1> DEFINE c == [Idle EXCEPT !.op = "fsync", !.id = data[i], !.ino = i,
                             !.syncs = <<<<"fd", i>>>>]
<1> USE NfsAssumption
<1>0. /\ call' = [call EXCEPT ![t] = c]
      /\ UNCHANGED <<names, kind, data, target, diskNames, diskData, ncalls, last, promised,
                     promisedData>>
  BY DEF Flush
<1>1. c.id = data[i] /\ c.ino = i /\ c.op = "fsync" /\ c.syncs = <<<<"fd", i>>>>
  BY DEF Idle
<1>2. i \in 0 .. MaxCalls /\ <<"fd", i>> \in Items
  BY SMT DEF Inodes, Items
<1> HIDE DEF c
<1>3. Types'
  BY <1>0 DEF IInv, Types, Inodes
<1>4. ASSUME NEW u \in Threads PROVE Pending(u)'
  <2>1. CASE u = t
    <3>1. call'[u] = c
      BY <1>0, <2>1 DEF IInv, Types
    <3>2. c.syncs \in Seq(Items) /\ <<"fd", i>> \in Range(c.syncs)
      <4>1. c.syncs \in Seq(Items)
        BY <1>1, <1>2, SMT
      <4> QED BY <1>1, <4>1, ListRange
    <3>3. data[i] \in Nat /\ data[i] <= ncalls /\ data[i] <= data[i]
      <4>1. data[i] \in Nat /\ data[i] <= ncalls
        BY DEF IInv, Types
      <4> QED BY <4>1, SMT
    <3> QED BY <1>0, <1>1, <1>2, <3>1, <3>2, <3>3 DEF Pending, Items, Inodes, OnFile
  <2>2. CASE u # t
    <3>1. call'[u] = call[u] /\ Pending(u)
      BY <1>0, <2>2 DEF IInv, Types
    <3> QED BY <1>0, <3>1 DEF Pending, Items, Inodes, OnFile, Dir
  <2> QED BY <2>1, <2>2
<1>5. Durable'
  BY <1>0 DEF IInv, Durable, None, Inodes
<1> QED BY <1>0, <1>3, <1>4, <1>5 DEF IInv, Inodes

\* A sync brings entries and data of the disk up to date, never back.
LEMMA DoSyncEffect ==
  ASSUME IInv, NEW s, DoSync(s)
  PROVE  /\ diskNames' \in [Paths -> 0 .. MaxCalls]
         /\ diskData' \in [Inodes -> Nat]
         /\ \A p \in Paths : /\ diskNames'[p] \in {names[p], diskNames[p]}
                             /\ s = Dir(p) => diskNames'[p] = names[p]
         /\ \A i \in Inodes : /\ diskData[i] <= diskData'[i]
                              /\ diskData'[i] <= data[i]
                              /\ s = <<"fd", i>> => diskData'[i] = data[i]
<1>1. /\ diskNames' = [p \in Paths |-> IF s = Dir(p) THEN names[p] ELSE diskNames[p]]
      /\ diskData' = [i \in Inodes |-> IF i = InodeOf(s) THEN data[i] ELSE diskData[i]]
  BY DEF DoSync
<1>2. \A i \in Inodes : data[i] \in Nat /\ diskData[i] \in Nat /\ diskData[i] <= data[i]
  BY DEF IInv, Types
<1>3. \A i \in Inodes : data[i] <= data[i] /\ diskData[i] <= diskData[i]
  BY <1>2, SMT
<1>4. \A i \in Inodes : s = <<"fd", i>> => i = InodeOf(s)
  BY SMT DEF InodeOf
<1>5. \A i \in Inodes : /\ diskData[i] <= diskData'[i] /\ diskData'[i] <= data[i]
                        /\ s = <<"fd", i>> => diskData'[i] = data[i]
  <2> SUFFICES ASSUME NEW i \in Inodes
               PROVE  /\ diskData[i] <= diskData'[i] /\ diskData'[i] <= data[i]
                      /\ s = <<"fd", i>> => diskData'[i] = data[i]
    OBVIOUS
  <2>1. CASE i = InodeOf(s)
    BY <1>1, <1>2, <1>3, <2>1
  <2>2. CASE i # InodeOf(s)
    BY <1>1, <1>2, <1>3, <1>4, <2>2
  <2> QED BY <2>1, <2>2
<1>6. diskNames' \in [Paths -> 0 .. MaxCalls] /\ diskData' \in [Inodes -> Nat]
  BY <1>1 DEF IInv, Types
<1> QED BY <1>1, <1>5, <1>6

\* What a sync keeps, whoever makes it.
LEMMA SyncKeeps ==
  ASSUME IInv, NEW s, DoSync(s),
         UNCHANGED <<names, kind, data, target, ncalls, last, promised, promisedData>>,
         DOMAIN call' = Threads, \A t \in Threads : Pending(t)'
  PROVE  IInv'
<1>a. names' = names /\ data' = data
  OBVIOUS
<1>0. /\ diskNames' \in [Paths -> 0 .. MaxCalls]
      /\ diskData' \in [Inodes -> Nat]
      /\ \A p \in Paths : /\ diskNames'[p] \in {names[p], diskNames[p]}
                          /\ s = Dir(p) => diskNames'[p] = names[p]
      /\ \A i \in Inodes : /\ diskData[i] <= diskData'[i]
                           /\ diskData'[i] <= data[i]
                           /\ s = <<"fd", i>> => diskData'[i] = data[i]
  BY DoSyncEffect
<1>1. Types'
  BY <1>0 DEF IInv, Types, Inodes
<1>2. Durable'
  <2>1. ASSUME NEW p \in Paths, promised'[p] # None
        PROVE  diskNames'[p] = promised'[p] /\ names'[p] = promised'[p]
    <3>1. diskNames'[p] \in {names[p], diskNames[p]}
      BY <1>0, SMT
    <3> QED BY <2>1, <3>1 DEF IInv, Durable
  <2>2. ASSUME NEW i \in Inodes PROVE diskData'[i] >= promisedData'[i]
    <3>1. diskData[i] \in Nat /\ diskData'[i] \in Nat /\ promisedData[i] \in Nat
      BY <1>0 DEF IInv, Types
    <3>2. promisedData' = promisedData
      OBVIOUS
    <3>3. diskData[i] >= promisedData[i] /\ diskData[i] <= diskData'[i]
      BY <1>0 DEF IInv, Durable
    <3> QED BY ONLY <3>1, <3>2, <3>3, SMT
  <2> QED BY <2>1, <2>2 DEF Durable, None, Inodes
<1>3. \A i \in Inodes : diskData'[i] <= data'[i]
  BY <1>0, <1>a, SMT
<1> QED BY <1>1, <1>2, <1>3 DEF IInv, Inodes

\* A sync of anything keeps what the calls that have not changed rely on.
LEMMA SyncPending ==
  ASSUME IInv, NEW s, DoSync(s), UNCHANGED <<names, data, ncalls, last>>,
         NEW u \in Threads, call'[u] = call[u]
  PROVE  Pending(u)'
<1>a. names' = names /\ data' = data
  OBVIOUS
<1>0. /\ diskNames' \in [Paths -> 0 .. MaxCalls]
      /\ diskData' \in [Inodes -> Nat]
      /\ \A p \in Paths : /\ diskNames'[p] \in {names[p], diskNames[p]}
                          /\ s = Dir(p) => diskNames'[p] = names[p]
      /\ \A i \in Inodes : /\ diskData[i] <= diskData'[i]
                           /\ diskData'[i] <= data[i]
                           /\ s = <<"fd", i>> => diskData'[i] = data[i]
  BY DoSyncEffect
<1>1. Pending(u)
  BY DEF IInv
<1>2. ASSUME NEW p \in Paths, diskNames[p] = names[p] PROVE diskNames'[p] = names'[p]
  <2>1. diskNames'[p] \in {names[p], diskNames[p]}
    BY <1>0, SMT
  <2> QED BY <1>2, <2>1
<1>3. ASSUME NEW i \in Inodes, call[u].id <= diskData[i] PROVE call[u].id <= diskData'[i]
  <2>1. diskData[i] <= diskData'[i] /\ diskData'[i] \in Nat
    BY <1>0, SMT
  <2>2. call[u].id \in Nat /\ diskData[i] \in Nat
    BY <1>1 DEF Pending, IInv, Types
  <2> QED BY ONLY <1>3, <2>1, <2>2, SMT
<1> QED BY <1>1, <1>2, <1>3 DEF Pending, Items, Inodes, OnFile, Dir
\* One sync of a call.
LEMMA SyncStep ==
  ASSUME IInv, NEW t \in Threads, Sync(t)
  PROVE  IInv'
<1> DEFINE s == Head(call[t].syncs)
<1>0. /\ DoSync(s) /\ call[t].syncs # <<>>
      /\ call' = [call EXCEPT ![t].syncs = Tail(@)]
      /\ names' = names /\ kind' = kind /\ data' = data /\ target' = target
      /\ ncalls' = ncalls /\ last' = last /\ promised' = promised
      /\ promisedData' = promisedData
  BY DEF Sync, Working
<1>1. Pending(t) /\ DOMAIN call = Threads
  BY DEF IInv, Types
<1>2. /\ call'[t].id = call[t].id /\ call'[t].op = call[t].op /\ call'[t].ino = call[t].ino
      /\ call'[t].syncs = Tail(call[t].syncs)
  <2>1. call'[t] = [call[t] EXCEPT !.syncs = Tail(call[t].syncs)]
    BY <1>0, <1>1
  <2> QED BY <2>1, SMT
<1>3. call'[t].syncs \in Seq(Items)
  BY <1>0, <1>1, <1>2, SMT DEF Pending
<1>4. /\ diskNames' \in [Paths -> 0 .. MaxCalls]
      /\ diskData' \in [Inodes -> Nat]
      /\ \A p \in Paths : /\ diskNames'[p] \in {names[p], diskNames[p]}
                          /\ s = Dir(p) => diskNames'[p] = names[p]
      /\ \A i \in Inodes : /\ diskData[i] <= diskData'[i]
                           /\ diskData'[i] <= data[i]
                           /\ s = <<"fd", i>> => diskData'[i] = data[i]
  BY <1>0, DoSyncEffect
<1>5. \A x \in Range(call[t].syncs) : x = s \/ x \in Range(call'[t].syncs)
  BY <1>0, <1>1, <1>2, TailRange DEF Pending
<1> HIDE DEF s
<1>6. Pending(t)'
  <2>1. ASSUME call[t].op \notin OnFile \cup {"idle"}, NEW p \in Paths, last[p] = call[t].id
        PROVE  Dir(p) \in Range(call'[t].syncs) \/ diskNames'[p] = names[p]
    <3>1. Dir(p) \in Range(call[t].syncs) \/ diskNames[p] = names[p]
      BY <1>1, <2>1 DEF Pending
    <3>2. CASE Dir(p) \in Range(call[t].syncs)
      BY <1>4, <1>5, <3>2, SMT
    <3>3. CASE diskNames[p] = names[p]
      BY <1>4, <3>3, SMT
    <3> QED BY <3>1, <3>2, <3>3
  <2>2. ASSUME call[t].op \in {"write", "fsync"}
        PROVE  <<"fd", call[t].ino>> \in Range(call'[t].syncs)
               \/ call[t].id <= diskData'[call[t].ino]
    <3> DEFINE i == call[t].ino
    <3>1. /\ i \in Inodes /\ call[t].id \in Nat /\ call[t].id <= data[i]
          /\ <<"fd", i>> \in Range(call[t].syncs) \/ call[t].id <= diskData[i]
      BY <1>1, <2>2 DEF Pending
    <3>2. data[i] \in Nat /\ diskData[i] \in Nat
      BY <3>1 DEF IInv, Types
    <3>3. diskData[i] <= diskData'[i] /\ diskData'[i] \in Nat
      BY <1>4, <3>1, SMT
    <3> HIDE DEF i
    <3>4. CASE <<"fd", i>> \in Range(call[t].syncs)
      BY <1>4, <1>5, <3>1, <3>4, SMT DEF i
    <3>5. CASE call[t].id <= diskData[i]
      <4>1. call[t].id <= diskData'[i]
        BY ONLY <3>1, <3>2, <3>3, <3>5, SMT
      <4> QED BY <4>1 DEF i
    <3> QED BY <3>1, <3>4, <3>5
  <2> QED BY <1>0, <1>1, <1>2, <1>3, <2>1, <2>2 DEF Pending, Items, Inodes, OnFile, Dir
<1>7. \A u \in Threads : Pending(u)'
  <2> SUFFICES ASSUME NEW u \in Threads, u # t PROVE Pending(u)'
    BY <1>6
  <2>1. call'[u] = call[u]
    BY <1>0, <1>1
  <2> QED BY <1>0, <2>1, SyncPending
<1>8. DOMAIN call' = Threads
  BY <1>0, <1>1
<1> QED BY <1>0, <1>7, <1>8, SyncKeeps

\* The kernel writes a directory back.
LEMMA WriteBackStep ==
  ASSUME IInv, NEW d \in Dirs, WriteBack(d)
  PROVE  IInv'
<1> DEFINE s == <<"dir", d>>
<1>0. /\ DoSync(s) /\ call' = call
      /\ names' = names /\ kind' = kind /\ data' = data /\ target' = target
      /\ ncalls' = ncalls /\ last' = last /\ promised' = promised
      /\ promisedData' = promisedData
  BY DEF WriteBack
<1> HIDE DEF s
<1>1. \A u \in Threads : Pending(u)'
  <2> SUFFICES ASSUME NEW u \in Threads PROVE Pending(u)'
    OBVIOUS
  <2>1. call'[u] = call[u]
    BY <1>0
  <2> QED BY <1>0, <2>1, SyncPending
<1>2. DOMAIN call' = Threads
  BY <1>0 DEF IInv, Types
<1> QED BY <1>0, <1>1, <1>2, SyncKeeps
\* The operation returns: what it promises is on disk.
LEMMA ReturnStep ==
  ASSUME IInv, NEW t \in Threads, Return(t)
  PROVE  IInv'
<1> DEFINE c == call[t]
<1>0. /\ c.op # "idle" /\ c.syncs = <<>>
      /\ promised' = [p \in Paths |-> IF c.op \notin OnFile /\ last[p] = c.id
                                      THEN names[p] ELSE promised[p]]
      /\ promisedData' = IF c.op \in {"write", "fsync"} /\ c.id > promisedData[c.ino]
                         THEN [promisedData EXCEPT ![c.ino] = c.id] ELSE promisedData
      /\ call' = [call EXCEPT ![t] = Idle]
      /\ names' = names /\ kind' = kind /\ data' = data /\ target' = target
      /\ diskNames' = diskNames /\ diskData' = diskData /\ ncalls' = ncalls /\ last' = last
  BY DEF Return
<1>1. Pending(t) /\ Types /\ Durable
  BY DEF IInv
<1>2. \A x : x \notin Range(c.syncs)
  BY <1>0, SMT DEF Range
<1>3. c.op \in {"write", "fsync"} => /\ c.ino \in Inodes /\ c.id \in Nat
                                     /\ c.id <= diskData[c.ino]
  BY <1>1, <1>2 DEF Pending
<1>4. c.op \notin OnFile \cup {"idle"} =>
        \A p \in Paths : last[p] = c.id => diskNames[p] = names[p]
  BY <1>1, <1>2 DEF Pending
<1> HIDE DEF c
<1>6. Types'
  <2>1. promised' \in [Paths -> Nat]
    <3>1. \A p \in Paths : names[p] \in Nat /\ promised[p] \in Nat
      BY <1>1, NfsAssumption, SMT DEF Types
    <3> QED BY <1>0, <3>1
  <2>2. promisedData' \in [Inodes -> Nat]
    BY <1>0, <1>1, <1>3 DEF Types
  <2>3. DOMAIN call' = Threads
    BY <1>0, <1>1 DEF Types
  <2> QED BY <1>0, <1>1, <2>1, <2>2, <2>3 DEF Types, Inodes
<1>7. ASSUME NEW u \in Threads PROVE Pending(u)'
  <2>1. CASE u = t
    <3>1. call'[u] = Idle
      BY <1>0, <1>1, <2>1 DEF Types
    <3> QED BY <3>1, <1>6, IdlePending DEF Types
  <2>2. CASE u # t
    <3>1. call'[u] = call[u] /\ Pending(u)
      BY <1>0, <1>1, <2>2 DEF IInv, Types
    <3> QED BY <1>0, <3>1 DEF Pending, Items, Inodes, OnFile, Dir
  <2> QED BY <2>1, <2>2
<1>8. Durable'
  <2>1. ASSUME NEW p \in Paths, promised'[p] # None
        PROVE  diskNames'[p] = promised'[p] /\ names'[p] = promised'[p]
    <3>1. CASE c.op \notin OnFile /\ last[p] = c.id
      BY <1>0, <1>4, <3>1
    <3>2. CASE ~(c.op \notin OnFile /\ last[p] = c.id)
      BY <1>0, <1>1, <2>1, <3>2 DEF Durable
    <3> QED BY <3>1, <3>2
  <2>2. ASSUME NEW i \in Inodes PROVE diskData'[i] >= promisedData'[i]
    <3>0. diskData[i] \in Nat /\ promisedData[i] \in Nat /\ diskData[i] >= promisedData[i]
      BY <1>1 DEF Types, Durable
    <3>1. CASE c.op \in {"write", "fsync"} /\ c.id > promisedData[c.ino] /\ i = c.ino
      <4>1. promisedData'[i] = c.id /\ c.id \in Nat /\ c.id <= diskData[i]
        BY <1>0, <1>1, <1>3, <3>1 DEF Types
      <4>2. diskData[i] >= c.id
        BY ONLY <3>0, <4>1, SMT
      <4> QED BY <1>0, <4>1, <4>2
    <3>2. CASE ~(c.op \in {"write", "fsync"} /\ c.id > promisedData[c.ino] /\ i = c.ino)
      BY <1>0, <1>1, <3>0, <3>2 DEF Types
    <3> QED BY <3>1, <3>2
  <2> QED BY <2>1, <2>2 DEF Durable, None, Inodes
<1> QED BY <1>0, <1>6, <1>7, <1>8 DEF IInv, Inodes

\* A crash leaves what is on disk.
LEMMA CrashStep ==
  ASSUME IInv, Crash
  PROVE  IInv'
<1>0. /\ names' = diskNames /\ data' = diskData /\ call' = [t \in Threads |-> Idle]
      /\ kind' = kind /\ target' = target /\ diskNames' = diskNames /\ diskData' = diskData
      /\ ncalls' = ncalls /\ last' = last /\ promised' = promised
      /\ promisedData' = promisedData
  BY DEF Crash
<1>1. Types'
  BY <1>0 DEF IInv, Types, Inodes
<1>2. ASSUME NEW t \in Threads PROVE Pending(t)'
  <2>1. call'[t] = Idle
    BY <1>0
  <2> QED BY <1>1, <2>1, IdlePending DEF Types
<1>3. Durable'
  BY <1>0 DEF IInv, Durable, None, Inodes
<1>4. \A i \in Inodes : diskData'[i] <= data'[i] /\ data'[i] <= ncalls'
  <2> SUFFICES ASSUME NEW i \in Inodes
               PROVE  diskData'[i] <= data'[i] /\ data'[i] <= ncalls'
    OBVIOUS
  <2>1. /\ diskData[i] \in Nat /\ data[i] \in Nat /\ ncalls \in Nat
        /\ diskData[i] <= data[i] /\ data[i] <= ncalls
    BY DEF IInv, Types
  <2>2. diskData[i] <= diskData[i] /\ diskData[i] <= ncalls
    BY ONLY <2>1, SMT
  <2> QED BY <1>0, <2>2
<1> QED BY <1>0, <1>1, <1>2, <1>3, <1>4 DEF IInv, Inodes

\* Every step keeps the invariant.
LEMMA NextStep == IInv /\ [Next]_vars => IInv'
<1> SUFFICES ASSUME IInv, [Next]_vars PROVE IInv'
  OBVIOUS
<1>1. ASSUME NEW t \in Threads, NEW r \in Requests, Change(t, r) PROVE IInv'
  BY <1>1, ChangeStep
<1>2. ASSUME NEW t \in Threads, NEW i \in Inodes, NEW f \in BOOLEAN, Write(t, i, f) PROVE IInv'
  BY <1>2, WriteStep
<1>3. ASSUME NEW t \in Threads, NEW i \in Inodes, Flush(t, i) PROVE IInv'
  BY <1>3, FlushStep
<1>4. ASSUME NEW t \in Threads, Sync(t) PROVE IInv'
  BY <1>4, SyncStep
<1>5. ASSUME NEW t \in Threads, Return(t) PROVE IInv'
  BY <1>5, ReturnStep
<1>6. ASSUME NEW d \in Dirs, WriteBack(d) PROVE IInv'
  BY <1>6, WriteBackStep
<1>7. CASE Crash
  BY <1>7, CrashStep
<1>8. ASSUME NEW t \in Threads, SyncFails(t) PROVE IInv'
  <2>1. /\ call' = [call EXCEPT ![t] = Idle]
        /\ UNCHANGED <<names, kind, data, target, diskNames, diskData, ncalls, last, promised,
                       promisedData>>
    BY <1>8 DEF SyncFails
  <2>2. DOMAIN call' = Threads /\ \A u \in Threads : call'[u] \in {call[u], Idle}
    BY <2>1 DEF IInv, Types
  <2> QED BY <2>1, <2>2, QuietStep
<1>9. ASSUME UNCHANGED <<names, kind, data, target, diskNames, diskData, ncalls, last, promised,
                         promisedData>>, call' = call
      PROVE  IInv'
  <2>1. DOMAIN call' = Threads /\ \A u \in Threads : call'[u] \in {call[u], Idle}
    BY <1>9 DEF IInv, Types
  <2> QED BY <1>9, <2>1, QuietStep
<1>10. ASSUME NEW t \in Threads, NEW p \in Paths, Open(t, p) PROVE IInv'
  BY <1>9, <1>10 DEF Open
<1>11. ASSUME NEW t \in Threads, NEW i \in Inodes, Release(t, i) PROVE IInv'
  BY <1>9, <1>11 DEF Release
<1>12. CASE UNCHANGED vars
  BY <1>9, <1>12 DEF vars
<1> QED BY <1>1, <1>2, <1>3, <1>4, <1>5, <1>6, <1>7, <1>8, <1>10, <1>11, <1>12 DEF Next

\* nfs_operations.cpp keeps what it quotes from RFC 1813: whatever the threads, the
\* directories, the failures and the crashes, an operation that returned success is on
\* stable storage.
THEOREM DurableAlways == Spec => []Durable
<1>1. IInv => Durable
  BY DEF IInv
<1> QED BY InitStep, NextStep, <1>1, PTL DEF Spec

-----------------------------------------------------------------------------
(* What is synced by its name. *)

\* Only mkdir, of the directory it has made, rename and link sync by name.
Opens(t) ==
    (\E s \in Range(call[t].syncs) : s[1] = "path") =>
        \/ call[t].op \in {"rename", "link"} /\ call[t].ino # 0
        \/ call[t].op = "mkdir" /\ call[t].ino \in 1 .. ncalls /\ kind[call[t].ino] = "dir"

LEMMA OneItem == ASSUME NEW a PROVE Range(<<a>>) = {a}
<1>1. DOMAIN <<a>> = {1} /\ <<a>>[1] = a
  BY SMT
<1> QED BY <1>1 DEF Range

LEMMA TwoItems == ASSUME NEW a, NEW b PROVE Range(<<a, b>>) = {a, b}
<1>1. DOMAIN <<a, b>> = {1, 2} /\ <<a, b>>[1] = a /\ <<a, b>>[2] = b
  BY SMT
<1> QED BY <1>1 DEF Range

LEMMA NoItem == Range(<<>>) = {}
<1>1. DOMAIN <<>> = {}
  BY SMT
<1> QED BY <1>1 DEF Range

LEMMA IdleOpens == ASSUME NEW t \in Threads, call'[t] = Idle PROVE Opens(t)'
BY IdleFields, NoItem DEF Opens

LEMMA NotByName ==
  ASSUME NEW r \in Requests, NEW i, r.op \notin {"mkdir", "rename", "link"}
  PROVE  ~\E s \in Range(Syncs(r, i)) : s[1] = "path"
<1>1. "dir" # "path" /\ "fd" # "path"
  BY SMT
<1>2. Dir(r.path)[1] = "dir" /\ Dir(r.to)[1] = "dir" /\ <<"fd", i>>[1] = "fd"
  BY DEF Dir
<1>3. \/ Syncs(r, i) = <<Dir(r.path)>> \/ Syncs(r, i) = <<Dir(r.to)>>
      \/ Syncs(r, i) = <<<<"fd", i>>, Dir(r.path)>>
  BY SMT DEF Syncs, MakeSyncs, MoveSyncs, CreateSyncs
<1>4. CASE Syncs(r, i) = <<Dir(r.path)>>
  BY <1>1, <1>2, <1>4, OneItem
<1>5. CASE Syncs(r, i) = <<Dir(r.to)>>
  BY <1>1, <1>2, <1>5, OneItem
<1>6. CASE Syncs(r, i) = <<<<"fd", i>>, Dir(r.path)>>
  <2>1. PICK a, b : a = <<"fd", i>> /\ b = Dir(r.path)
    OBVIOUS
  <2>2. Range(<<a, b>>) = {a, b} /\ Syncs(r, i) = <<a, b>> /\ a[1] # "path" /\ b[1] # "path"
    BY <1>1, <1>2, <1>6, <2>1, TwoItems
  <2> QED BY <2>2
<1> QED BY <1>3, <1>4, <1>5, <1>6

LEMMA OpensNext ==
  ASSUME IInv, \A t \in Threads : Opens(t), [Next]_vars
  PROVE  \A t \in Threads : Opens(t)'
<1>0. Types /\ ncalls \in Nat
  BY DEF IInv, Types
<1>1. ASSUME UNCHANGED <<kind, ncalls>>, NEW u \in Threads,
             call'[u] = call[u] \/ call'[u] = Idle
      PROVE  Opens(u)'
  BY <1>1, IdleOpens DEF Opens
<1>2. ASSUME NEW t \in Threads, NEW r \in Requests, Change(t, r), NEW u \in Threads PROVE Opens(u)'
  <2> DEFINE i == ncalls + 1
             ino == Concerned(r, i)
  <2>0. /\ ncalls' = i /\ kind' = [kind EXCEPT ![i] = KindOf(r)] /\ Succeeds(r) /\ ncalls < MaxCalls
        /\ call' = [call EXCEPT ![t] = [op |-> r.op, id |-> i, path |-> r.path, to |-> r.to,
                                        ino |-> ino, syncs |-> Syncs(r, ino)]]
    BY <1>2 DEF Change
  <2>1. i \in Inodes /\ i \in 1 .. i /\ \A j \in 1 .. ncalls : j \in 1 .. i /\ j # i /\ j \in Inodes
    <3>1. MaxCalls \in Nat
      BY NfsAssumption
    <3> QED BY <1>0, <2>0, <3>1, SMT DEF Inodes
  <2>2. CASE u # t
    <3>1. call'[u] = call[u]
      BY <1>0, <2>0, <2>2 DEF Types
    <3>2. \A j \in 1 .. ncalls : kind'[j] = kind[j]
      BY <1>0, <2>0, <2>1 DEF Types
    <3> QED BY <2>0, <2>1, <3>1, <3>2 DEF Opens
  <2>3. CASE u = t
    <3>1. call'[t] = [op |-> r.op, id |-> i, path |-> r.path, to |-> r.to,
                      ino |-> ino, syncs |-> Syncs(r, ino)]
      BY <1>0, <2>0 DEF Types
    <3>2. call'[t].op = r.op /\ call'[t].ino = ino /\ call'[t].syncs = Syncs(r, ino)
      BY <3>1, SMT
    <3>3. CASE r.op \notin {"mkdir", "rename", "link"}
      BY <2>3, <3>2, <3>3, NotByName DEF Opens
    <3>4. CASE r.op \in {"rename", "link"}
      <4>1. ino = names[r.path] /\ names[r.path] # 0
        <5>1. ino = names[r.path]
          BY <3>4 DEF Concerned
        <5>2. Succeeds(r)
          BY <2>0
        <5>3. ASSUME r.op = "rename" PROVE names[r.path] # 0
          BY ONLY <5>2, <5>3, SMT DEF Succeeds
        <5>4. ASSUME r.op = "link" PROVE names[r.path] # 0
          BY ONLY <5>2, <5>4, SMT DEF Succeeds
        <5> QED BY <3>4, <5>1, <5>3, <5>4
      <4> QED BY <2>3, <3>2, <3>4, <4>1 DEF Opens
    <3>5. CASE r.op = "mkdir"
      <4>1. ino = i /\ KindOf(r) = "dir"
        BY <3>5, SMT DEF Concerned, KindOf
      <4>2. kind'[i] = "dir"
        BY <1>0, <2>0, <2>1, <4>1 DEF Types
      <4> QED BY <2>0, <2>1, <2>3, <3>2, <3>5, <4>1, <4>2 DEF Opens
    <3> QED BY <3>3, <3>4, <3>5
  <2> QED BY <2>2, <2>3
<1>3. ASSUME NEW t \in Threads, NEW i \in Inodes, NEW f \in BOOLEAN, Write(t, i, f) \/ Flush(t, i),
             NEW u \in Threads
      PROVE  Opens(u)'
  <2>1. kind' = kind /\ ncalls' \in Nat /\ ncalls <= ncalls'
    <3>1. kind' = kind /\ (ncalls' = ncalls \/ ncalls' = ncalls + 1)
      BY <1>3 DEF Write, Flush
    <3> QED BY <1>0, <3>1, SMT
  <2>2. \A v \in Threads : v # t => call'[v] = call[v]
    BY <1>0, <1>3 DEF Write, Flush, Types
  <2>3. CASE u # t
    <3>1. \A j \in 1 .. ncalls : j \in 1 .. ncalls'
      BY <1>0, <2>1, SMT
    <3> QED BY <2>1, <2>2, <2>3, <3>1 DEF Opens
  <2>4. CASE u = t
    <3>1. call'[t].syncs \in {<<>>, <<<<"fd", i>>>>}
      <4>1. CASE Write(t, i, f)
        <5>1. call'[t] = [Idle EXCEPT !.op = IF f THEN "write" ELSE "unstable", !.id = ncalls + 1,
                      !.ino = i, !.syncs = IF f THEN <<<<"fd", i>>>> ELSE <<>>]
          BY <1>0, <4>1 DEF Write, Types
        <5>2. call'[t].syncs = IF f THEN <<<<"fd", i>>>> ELSE <<>>
          BY <5>1 DEF Idle
        <5> QED BY <5>2
      <4>2. CASE Flush(t, i)
        <5>1. call'[t] = [Idle EXCEPT !.op = "fsync", !.id = data[i],
                                      !.ino = i, !.syncs = <<<<"fd", i>>>>]
          BY <1>0, <4>2 DEF Flush, Types
        <5>2. call'[t].syncs = <<<<"fd", i>>>>
          BY <5>1 DEF Idle
        <5> QED BY <5>2
      <4> QED BY <1>3, <4>1, <4>2
    <3>2. <<"fd", i>>[1] # "path"
      BY SMT
    <3>3. ~\E s \in Range(call'[t].syncs) : s[1] = "path"
      <4>1. CASE call'[t].syncs = <<>>
        BY <4>1, NoItem
      <4>2. CASE call'[t].syncs = <<<<"fd", i>>>>
        BY <3>2, <4>2, OneItem
      <4> QED BY <3>1, <4>1, <4>2
    <3> QED BY <2>4, <3>3 DEF Opens
  <2> QED BY <2>3, <2>4
<1>4. ASSUME NEW t \in Threads, Sync(t), NEW u \in Threads PROVE Opens(u)'
  <2>1. UNCHANGED <<kind, ncalls>> /\ call' = [call EXCEPT ![t].syncs = Tail(@)] /\ Working(t)
    BY <1>4 DEF Sync
  <2>2. CASE u # t
    <3>1. call'[u] = call[u]
      BY <1>0, <2>1, <2>2 DEF Types
    <3> QED BY <1>1, <2>1, <3>1
  <2>3. CASE u = t
    <3>1. call'[t] = [call[t] EXCEPT !.syncs = Tail(call[t].syncs)]
      BY <1>0, <2>1 DEF Types
    <3>2. call'[t].op = call[t].op /\ call'[t].ino = call[t].ino
      BY <3>1, SMT
    <3>3. call[t].syncs \in Seq(Items) /\ call[t].syncs # <<>>
      BY <2>1 DEF IInv, Pending, Working
    <3>4. call'[t].syncs = call[t].syncs \/ call'[t].syncs = Tail(call[t].syncs)
      BY <3>1, SMT
    <3>5. Range(call'[t].syncs) \subseteq Range(call[t].syncs)
      <4> DEFINE q == call[t].syncs
      <4>1. \A j \in DOMAIN Tail(q) : j + 1 \in DOMAIN q /\ Tail(q)[j] = q[j + 1]
        BY <3>3, SMT
      <4> QED BY <3>4, <4>1 DEF Range
    <3> QED BY <2>1, <2>3, <3>2, <3>5 DEF Opens
  <2> QED BY <2>2, <2>3
<1>5. ASSUME NEW t \in Threads, SyncFails(t) \/ Return(t), NEW u \in Threads PROVE Opens(u)'
  <2>1. UNCHANGED <<kind, ncalls>> /\ call' = [call EXCEPT ![t] = Idle]
    BY <1>5 DEF SyncFails, Return
  <2>2. call'[u] = call[u] \/ call'[u] = Idle
    BY <1>0, <2>1 DEF Types
  <2> QED BY <1>1, <2>1, <2>2
<1>6. ASSUME NEW u \in Threads,
             \/ \E t \in Threads, p \in Paths : Open(t, p)
             \/ \E t \in Threads, i \in Inodes : Release(t, i)
             \/ \E d \in Dirs : WriteBack(d)
             \/ UNCHANGED vars
      PROVE  Opens(u)'
  BY <1>1, <1>6 DEF Open, Release, WriteBack, vars
<1>7. ASSUME Crash, NEW u \in Threads PROVE Opens(u)'
  BY <1>7, IdleOpens DEF Crash
<1>8. ASSUME NEW t \in Threads, NEW i \in Inodes, Flush(t, i), NEW u \in Threads PROVE Opens(u)'
  BY <1>3, <1>8
<1> QED BY <1>2, <1>3, <1>4, <1>5, <1>6, <1>7, <1>8 DEF Next

\* A call that syncs by name finds what it has made, or moved: sync_path gets stuck or
\* fails only where another call has replaced the entry, or rename and link moved a FIFO
\* or a symbolic link.
THEOREM SyncsWhatItMadeAlways == Spec => []SyncsWhatItMade
<1> DEFINE AllOpen == \A t \in Threads : Opens(t)
<1>1. Init => AllOpen
  BY IdleFields, NoItem DEF Init, Opens
<1>2. IInv /\ AllOpen /\ [Next]_vars => AllOpen'
  BY OpensNext
<1>3. IInv /\ AllOpen => SyncsWhatItMade
  <2> SUFFICES ASSUME IInv, AllOpen, NEW t \in Threads, Working(t), Head(call[t].syncs)[1] = "path",
                      Blocked(t) \/ Missing(t), names[Head(call[t].syncs)[2]] = call[t].ino
               PROVE  call[t].op \in {"rename", "link"} /\ kind[call[t].ino] \in {"fifo", "link"}
    BY DEF SyncsWhatItMade
  <2> DEFINE s == Head(call[t].syncs)
  <2>1. s \in Range(call[t].syncs)
    <3>1. call[t].syncs \in Seq(Items) /\ call[t].syncs # <<>>
      BY DEF IInv, Pending, Working
    <3>2. 1 \in DOMAIN call[t].syncs /\ s = call[t].syncs[1]
      BY <3>1, SMT
    <3> QED BY <3>2 DEF Range
  <2>2. Opens(t) /\ ncalls \in Nat
    BY DEF IInv, Types
  <2>3. call[t].ino # 0
    <3>1. 0 \notin 1 .. ncalls
      BY <2>2, SMT
    <3> QED BY <2>1, <2>2, <3>1 DEF Opens
  <2>4. CASE kind[call[t].ino] \notin {"fifo", "link"}
    <3>1. Resolve(s[2]) = call[t].ino
      BY <2>4 DEF Resolve
    <3> QED BY <2>3, <2>4, <3>1 DEF Blocked, Missing
  <2>5. CASE kind[call[t].ino] \in {"fifo", "link"}
    <3>1. "dir" \notin {"fifo", "link"}
      BY SMT
    <3> QED BY <2>1, <2>2, <2>5, <3>1 DEF Opens
  <2> QED BY <2>4, <2>5
<1> HIDE DEF AllOpen
<1> QED BY InitStep, NextStep, <1>1, <1>2, <1>3, PTL DEF Spec
=============================================================================
