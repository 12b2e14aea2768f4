--------------------------- MODULE MetadataCache ----------------------------
(* The metadata cache layer: getattr and fgetattr answer from a cache of      *)
(* attributes; the operations that change attributes remove the entries they  *)
(* know of and then call the next layer.  Every access to the cache is one    *)
(* critical section of its mutex; between them, threads interleave.           *)
EXTENDS Policy, Sequences, FiniteSets, Functions

CONSTANTS Threads,
          Paths,
          Files,       \* the inode of each path at the start, 0 for none; others are larger
          Parent,      \* Parent[p]: p.parent_path(), the root for the root
          Below,       \* Below[p]: the paths below p
          Requests,    \* the operations issued: [op, path, to]
          Size,        \* config size_, compared with the number of entries
          TimeOut,     \* config time_out_, 0 for none
          MaxTime, MaxOps   \* bounds: on the clock, and on calls begun and changes made

ASSUME MetadataCacheAssumption ==
    /\ Size \in Nat /\ TimeOut \in Nat /\ MaxTime \in Nat /\ MaxOps \in Nat
    /\ Files \in [Paths -> Nat]
    /\ Parent \in [Paths -> Paths] /\ Below \in [Paths -> SUBSET Paths]
    \* One path, or two; a rename is to a path without known paths below it.
    /\ \A r \in Requests :
         /\ r.path \in Paths
         /\ \/ r.op \in {"mknod", "mkdir", "unlink", "rmdir", "create", "write", "utimens",
                         "chmod", "chown", "truncate", "ftruncate",
                         "open", "flush", "release", "fsync"}
            \/ r.op \in {"symlink", "link"} /\ r.to \in Paths
            \/ r.op = "rename" /\ r.to \in Paths /\ Below[r.to] = {}

VARIABLES cache,       \* cache_: path to [val, ts]
          keys,        \* the keys of the eviction policy
          attr,        \* the attributes the next layer would return
          inode,       \* the file each path names
          now,         \* the clock
          pc, req,     \* what each thread does, and for which request
          todo,        \* entries an operation still has to remove
          got,         \* attributes a getattr has fetched
          nops,
          excused      \* history: paths whose entry may be stale, see Coherent

vars == <<cache, keys, attr, inode, now, pc, req, todo, got, nops, excused>>

NoReq == [op |-> "none", path |-> "", to |-> ""]
Gone == 0
NoEntries == [p \in {} |-> 0]
Without(c, p) == Restrict(c, DOMAIN c \ {p})

\* Entries removed, in order, by each of the operations the layer intercepts.  write
\* is not intercepted, and metadata_cache_utimens is not installed.
OneAndParent == {"mknod", "mkdir", "unlink", "rmdir", "create"}
OneOnly == {"chmod", "chown", "truncate", "ftruncate", "open", "flush", "release", "fsync"}
\* Mutation: link and symlink leave the entry of the directory they add to.
RemovesNoParent(r) ==
    CASE r.op \in OneAndParent -> <<r.path, Parent[r.path]>>
      [] r.op \in {"symlink", "link"} -> <<r.path, r.to>>
      [] r.op = "rename" -> <<r.path, r.to, Parent[r.path], Parent[r.to]>>
      [] r.op \in OneOnly -> <<r.path>>
      [] r.op \in {"write", "utimens"} -> <<>>
Removes(r) ==
    CASE r.op \in OneAndParent -> <<r.path, Parent[r.path]>>
      [] r.op \in {"symlink", "link"} -> <<r.path, r.to, Parent[r.to]>>
      [] r.op = "rename" -> <<r.path, r.to, Parent[r.path], Parent[r.to]>>
      [] r.op \in OneOnly -> <<r.path>>
      [] r.op \in {"write", "utimens"} -> <<>>

\* What the next layer does: the paths that appear, disappear, or change.
Makes(r) == CASE r.op \in {"mknod", "mkdir", "create"} -> {r.path}
              [] r.op \in {"symlink", "link", "rename"} -> {r.to}
              [] OTHER -> {}
Unmakes(r) == CASE r.op \in {"unlink", "rmdir"} -> {r.path}
                [] r.op = "rename" -> {r.path} \cup Below[r.path]
                [] OTHER -> {}
Alters(r) ==
    CASE r.op \in OneAndParent -> {Parent[r.path]}
      [] r.op = "symlink" -> {Parent[r.to]}
      [] r.op = "link" -> {r.path, Parent[r.to]}
      [] r.op = "rename" -> {Parent[r.path], Parent[r.to]}
      [] r.op \in {"chmod", "chown", "truncate", "ftruncate", "write", "utimens"} -> {r.path}
      [] OTHER -> {}
Changes(r) == Makes(r) \cup Unmakes(r) \cup Alters(r)
Touches(r) == Changes(r) \cup Range(Removes(r))
\* Other names of the files at the paths S.
Aliases(S) == {q \in Paths \ S : \E p \in S : attr[p] # Gone /\ inode[q] = inode[p]}
\* The changes the layer is blind to, stated apart from Removes.
Blind(r) == Aliases(Changes(r)) \cup
            CASE r.op \in {"write", "utimens"} -> {r.path}
              [] r.op = "rename" -> Below[r.path]
              [] OTHER -> {}

\* Attributes are numbered; 0: there is no such path.
Altered(S) == [p \in Paths |-> IF attr[p] # Gone /\ p \in S \cup Aliases(S)
                                THEN nops + 1 ELSE attr[p]]
Applied(r) ==
    [p \in Paths |-> IF p \in Makes(r) THEN nops + 1
                     ELSE IF p \in Unmakes(r) THEN Gone
                     ELSE Altered(Changes(r))[p]]
Inodes(r) ==
    [p \in Paths |-> IF p \in Makes(r)
                     THEN IF r.op \in {"link", "rename"} THEN inode[r.path]
                          ELSE Cardinality(Paths) + nops
                     ELSE IF p \in Unmakes(r) THEN Gone ELSE inode[p]]
\* The operation fails when what it works on is missing, or what it makes is there.
Works(r) ==
    /\ r.op \notin {"mknod", "mkdir", "create", "symlink"} => attr[r.path] # Gone
    /\ r.op # "rename" => \A p \in Makes(r) : attr[p] = Gone

Getting(p) == {t \in Threads : pc[t] # "idle" /\ req[t].op = "getattr" /\ req[t].path = p}
Changing(p) == {t \in Threads : pc[t] # "idle" /\ req[t].op # "getattr" /\ p \in Touches(req[t])}

Init ==
    /\ cache = NoEntries
    /\ keys = NoKeys
    /\ attr = [p \in Paths |-> IF Files[p] = 0 THEN Gone ELSE 1]
    /\ inode = Files
    /\ now = 0
    /\ pc = [t \in Threads |-> "idle"]
    /\ req = [t \in Threads |-> NoReq]
    /\ todo = [t \in Threads |-> <<>>]
    /\ got = [t \in Threads |-> Gone]
    /\ nops = 1
    /\ excused = {}

-----------------------------------------------------------------------------
\* metadata::is_valid
is_valid(e) == TimeOut > 0 => now - e.ts < TimeOut

Step(t, next) == pc' = [pc EXCEPT ![t] = next]

\* metadata_cache_getattr and metadata_cache_fgetattr: cache->get.
Get(t, p) ==
    /\ pc[t] = "idle" /\ nops < MaxOps
    /\ nops' = nops + 1
    /\ req' = [req EXCEPT ![t] = [op |-> "getattr", path |-> p, to |-> ""]]
    /\ excused' = IF Changing(p) # {} THEN excused \cup {p}
                  ELSE IF Getting(p) = {} /\ p \notin DOMAIN cache THEN excused \ {p}
                  ELSE excused
    /\ \/ /\ p \notin DOMAIN cache
          /\ Step(t, "fetch") /\ UNCHANGED keys
       \/ /\ p \in DOMAIN cache /\ ~is_valid(cache[p])
          /\ Step(t, "drop") /\ UNCHANGED keys
       \/ /\ p \in DOMAIN cache /\ is_valid(cache[p])
          /\ keys' = touch(keys, p)
          /\ Step(t, "idle")
    /\ UNCHANGED <<cache, attr, inode, now, todo, got>>

\* Mutation: the eviction policy keeps the key of the entry.
DropKeepsKey(t) ==
    /\ pc[t] = "drop"
    /\ cache' = Without(cache, req[t].path)
    /\ Step(t, "fetch")
    /\ UNCHANGED <<keys, attr, inode, now, req, todo, got, nops, excused>>

\* get(), second critical section: the entry was out of date.
Drop(t) ==
    /\ pc[t] = "drop"
    /\ cache' = Without(cache, req[t].path)
    /\ keys' = remove(keys, req[t].path)
    /\ Step(t, "fetch")
    /\ UNCHANGED <<attr, inode, now, req, todo, got, nops, excused>>

\* next_layer.getattr
Fetch(t) ==
    /\ pc[t] = "fetch"
    /\ got' = [got EXCEPT ![t] = attr[req[t].path]]
    /\ Step(t, IF attr[req[t].path] = Gone THEN "idle" ELSE "put")
    /\ UNCHANGED <<cache, keys, attr, inode, now, req, todo, nops, excused>>

\* Evict one key when the cache is full, then emplace, which keeps an entry that is
\* there, and touch.
Insert(t, full) ==
    LET p == req[t].path
        outs == IF full /\ Victims(keys) # {} THEN {{v} : v \in Victims(keys)} ELSE {{}}
    IN \E out \in outs :
         LET rest == DOMAIN cache \ out
         IN /\ cache' = [q \in rest \cup {p} |->
                           IF q \in rest THEN cache[q] ELSE [val |-> got[t], ts |-> now]]
            /\ keys' = IF out = {} THEN touch(keys, p)
                       ELSE touch(remove(keys, CHOOSE v \in out : TRUE), p)

\* Mutation: the size is compared with >.
PutOneTooMany(t) ==
    /\ pc[t] = "put"
    /\ Insert(t, Cardinality(DOMAIN cache) > Size)
    /\ Step(t, "idle")
    /\ got' = [got EXCEPT ![t] = Gone]
    /\ UNCHANGED <<attr, inode, now, req, todo, nops, excused>>

\* cache->put
Put(t) ==
    /\ pc[t] = "put"
    /\ Insert(t, Cardinality(DOMAIN cache) >= Size)
    /\ Step(t, "idle")
    /\ got' = [got EXCEPT ![t] = Gone]
    /\ UNCHANGED <<attr, inode, now, req, todo, nops, excused>>

-----------------------------------------------------------------------------
\* An operation that changes attributes begins.
Start(t, r) ==
    /\ pc[t] = "idle" /\ nops < MaxOps
    /\ nops' = nops + 1
    /\ req' = [req EXCEPT ![t] = r]
    /\ todo' = [todo EXCEPT ![t] = Removes(r)]
    /\ Step(t, "change")
    /\ UNCHANGED <<cache, keys, attr, inode, now, got, excused>>

\* cache->remove
Remove(t) ==
    /\ pc[t] = "change" /\ todo[t] # <<>>
    /\ cache' = Without(cache, Head(todo[t]))
    /\ keys' = remove(keys, Head(todo[t]))
    /\ todo' = [todo EXCEPT ![t] = Tail(@)]
    /\ excused' = IF Getting(Head(todo[t])) = {} /\ Changing(Head(todo[t])) = {t}
                  THEN excused \ {Head(todo[t])} ELSE excused \cup {Head(todo[t])}
    /\ UNCHANGED <<attr, inode, now, pc, req, got, nops>>

\* next_layer.<op>
Apply(t) ==
    /\ pc[t] = "change" /\ todo[t] = <<>>
    /\ IF Works(req[t])
       THEN /\ attr' = Applied(req[t])
            /\ inode' = Inodes(req[t])
            /\ excused' = excused \cup Blind(req[t])
       ELSE UNCHANGED <<attr, inode, excused>>
    /\ nops' = nops + 1
    /\ Step(t, "idle")
    /\ UNCHANGED <<cache, keys, now, req, todo, got>>

\* Another client changes the attributes of a path.
Elsewhere(p) ==
    /\ nops < MaxOps
    /\ nops' = nops + 1
    /\ attr' = Altered({p})
    /\ excused' = excused \cup {p} \cup Aliases({p})
    /\ UNCHANGED <<cache, keys, inode, now, pc, req, todo, got>>

Tick == /\ now < MaxTime
        /\ now' = now + 1
        /\ UNCHANGED <<cache, keys, attr, inode, pc, req, todo, got, nops, excused>>

Next ==
    \/ \E t \in Threads : \/ \E p \in Paths : Get(t, p)
                          \/ Drop(t) \/ Fetch(t) \/ Put(t)
                          \/ \E r \in Requests : Start(t, r)
                          \/ Remove(t) \/ Apply(t)
    \/ \E p \in Paths : Elsewhere(p)
    \/ Tick

Spec == Init /\ [][Next]_vars

-----------------------------------------------------------------------------
\* An entry holds the attributes the next layer would return, unless: another client
\* changed them, or an operation that does not remove the entry did (a write, utimens,
\* a rename of a directory above, one on another name of the file), or a getattr of the
\* path ran during an operation on it.  The removals of each operation cover all it
\* changes otherwise, whatever the interleaving, and an excuse ends with the entry.
Coherent ==
    \A p \in DOMAIN cache : p \notin excused => cache[p].val = attr[p]

\* The eviction policy knows the entries of the cache, no less and no more: what is
\* evicted is an entry, and every entry can be evicted.
KeysMatch == DOMAIN keys = DOMAIN cache

\* One eviction per insertion is enough: the cache never holds more entries than its
\* size (one when the size is 0).
SizeBound == Cardinality(DOMAIN cache) <= IF Size = 0 THEN 1 ELSE Size
=============================================================================
