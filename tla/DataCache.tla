----------------------------- MODULE DataCache ------------------------------
(* The data cache layer on top of the read-ahead layer: blocks of files, each *)
(* tagged with the modification time an open of its path has seen.  Threads   *)
(* interleave between the critical sections of cache_mtx_, of the mutex of a  *)
(* block, of mtimes_mtx_ and of the eviction policy.                          *)
EXTENDS ReadAhead, Policy

CONSTANTS Threads, Handles,
          PathOf,        \* PathOf[h]: the path handle h is for
          BlockSize,     \* config block_size_
          Size,          \* config size_, in blocks
          TimeOut,       \* config time_out_, 0 for none
          SizeMod,       \* cache_size_ is unsigned: counted modulo SizeMod, in blocks
          Reads,         \* the reads issued: [offset, size]
          FirstLen, Lens,  \* the length of a file, and those it can get
          MaxTime, MaxOps, MaxChanges, MaxErrors   \* bounds

ASSUME DataCacheAssumption ==
    /\ PathOf \in [Handles -> Paths]
    /\ BlockSize \in Nat \ {0} /\ SizeMod \in Nat \ {0} /\ Ahead \in Nat
    /\ Reads \subseteq [offset : Nat, size : Nat]
    /\ FirstLen \in Nat /\ Lens \subseteq Nat
    /\ IsFiniteSet(Threads)

VARIABLES cache,         \* cache_: <<path, block_id>> to a block
          keys,          \* the keys of the eviction policy
          cache_size_, mtimes, now,
          state,         \* of each handle
          pc, op,        \* of each thread; op is what it works on
          nops, nerrors,
          shared,        \* history: paths two handles were in use for at once
          failed,        \* history: keys of blocks whose refresh has failed
          beyond,        \* history: a read started beyond the end of a block it found
          orphans,       \* history: blocks the policy was told to forget
          floor,         \* history: version of the file when the open began
          stale,         \* history: a read returned bytes older than that
          dangling       \* read-ahead looked up a buffer that is gone: the process is lost

vars == <<buffers, file, cache, keys, cache_size_, mtimes, now, state, pc, op,
          nops, nerrors, shared, failed, beyond, orphans, floor, stale, dangling>>

NoOp == [h |-> "none", offset |-> 0, size |-> 0, readed |-> 0, mtime |-> 0, ret |-> "none",
         at |-> 0, want |-> 0, bytes |-> <<>>, key |-> <<>>]
Zeros == [i \in 1 .. BlockSize |-> 0]
Huge == 1000          \* (size_t) of a negative result

Init ==
    /\ buffers = NoBuffers
    /\ file = [p \in Paths |-> [ver |-> 1, len |-> FirstLen]]
    /\ cache = [k \in {} |-> 0] /\ keys = NoKeys /\ cache_size_ = 0
    /\ mtimes = [p \in {} |-> 0]
    /\ now = 0
    /\ state = [h \in Handles |-> "closed"]
    /\ pc = [t \in Threads |-> "idle"]
    /\ op = [t \in Threads |-> NoOp]
    /\ nops = 0 /\ nerrors = 0
    /\ shared = {} /\ failed = {} /\ beyond = FALSE /\ orphans = {} /\ stale = FALSE /\ dangling = FALSE
    /\ floor = [h \in Handles |-> 0]

-----------------------------------------------------------------------------
path(t) == PathOf[op[t].h]
InUse(p) == {h \in Handles : PathOf[h] = p /\ state[h] # "closed"}
Step(t, next) == pc' = [pc EXCEPT ![t] = next]
Done(t) == Step(t, "idle") /\ op' = [op EXCEPT ![t] = NoOp]
Set(t, field, value) == op' = [op EXCEPT ![t][field] = value]

\* Threads inside a shared section of cache_mtx_, and those in one of read-ahead's mtx_.
Sharing == {t \in Threads : pc[t] # "idle" /\ op[t].ret = "refresh"}
Reading == {t \in Threads : pc[t] \in {"ra_remote", "ra_update"}}
\* Threads that hold the mutex of block k: a refresh under way.
Refreshing(k) == {t \in Threads : pc[t] \in {"ra", "ra_remote", "ra_update", "refreshed"}
                                    /\ op[t].ret = "refresh" /\ op[t].key = k}

\* Mutation: only the age of the block counts.
is_validByAge(b, mtime) == TimeOut > 0 => now - b.ts < TimeOut
\* block::is_valid
is_valid(b, mtime) == b.mtime = mtime /\ (TimeOut > 0 => now - b.ts < TimeOut)

-----------------------------------------------------------------------------
(* open and release *)

\* cache::open calls open of the next layer, where read-ahead makes a buffer.
Open(t, h) ==
    /\ pc[t] = "idle" /\ state[h] = "closed" /\ nops < MaxOps
    /\ nops' = nops + 1
    /\ op' = [op EXCEPT ![t] = [NoOp EXCEPT !.h = h]]
    /\ state' = [state EXCEPT ![h] = "opening"]
    /\ shared' = IF InUse(PathOf[h]) # {} THEN shared \cup {PathOf[h]} ELSE shared
    /\ floor' = [floor EXCEPT ![h] = file[PathOf[h]].ver]
    /\ Reading = {}
    /\ ra_open(PathOf[h])
    /\ Step(t, "open_attr")
    /\ UNCHANGED <<file, cache, keys, cache_size_, mtimes, now, nerrors, failed, beyond, orphans, stale, dangling>>

\* getattr of the next layer.
OpenAttr(t) ==
    /\ pc[t] = "open_attr"
    /\ Set(t, "mtime", file[path(t)].ver)
    /\ Step(t, "open_store")
    /\ UNCHANGED <<buffers, file, cache, keys, cache_size_, mtimes, now, state,
                   nops, nerrors, shared, failed, beyond, orphans, floor, stale, dangling>>

\* getattr fails: the call fails, the file stays open in the next layer.
OpenFails(t) ==
    /\ pc[t] = "open_attr" /\ nerrors < MaxErrors
    /\ nerrors' = nerrors + 1
    /\ state' = [state EXCEPT ![op[t].h] = "closed"]
    /\ floor' = [floor EXCEPT ![op[t].h] = 0]
    /\ Done(t)
    /\ UNCHANGED <<buffers, file, cache, keys, cache_size_, mtimes, now,
                   nops, shared, failed, beyond, orphans, stale, dangling>>

OpenStore(t) ==
    /\ pc[t] = "open_store"
    /\ mtimes' = [p \in DOMAIN mtimes \cup {path(t)} |->
                    IF p = path(t) THEN op[t].mtime ELSE mtimes[p]]
    /\ state' = [state EXCEPT ![op[t].h] = "open"]
    /\ Done(t)
    /\ UNCHANGED <<buffers, file, cache, keys, cache_size_, now,
                   nops, nerrors, shared, failed, beyond, orphans, floor, stale, dangling>>

\* cache::release: no call on the handle is under way.
Release(t, h) ==
    /\ pc[t] = "idle" /\ state[h] = "open"
    /\ \A u \in Threads : pc[u] # "idle" => op[u].h # h
    /\ op' = [op EXCEPT ![t] = [NoOp EXCEPT !.h = h]]
    /\ state' = [state EXCEPT ![h] = "releasing"]
    /\ mtimes' = Restrict(mtimes, DOMAIN mtimes \ {PathOf[h]})
    /\ Step(t, "release")
    /\ UNCHANGED <<buffers, file, cache, keys, cache_size_, now,
                   nops, nerrors, shared, failed, beyond, orphans, floor, stale, dangling>>

\* release of the next layer: read-ahead drops the buffer.
ReleaseNext(t) ==
    /\ pc[t] = "release" /\ Reading = {}
    /\ ra_release(path(t))
    /\ state' = [state EXCEPT ![op[t].h] = "closed"]
    /\ floor' = [floor EXCEPT ![op[t].h] = 0]
    /\ Done(t)
    /\ UNCHANGED <<file, cache, keys, cache_size_, mtimes, now,
                   nops, nerrors, shared, failed, beyond, orphans, stale, dangling>>

-----------------------------------------------------------------------------
(* read *)

\* cache::read: without a modification time the cache is not used.
Read(t, h, r) ==
    LET p == PathOf[h]
        o == [NoOp EXCEPT !.h = h, !.offset = r.offset, !.size = r.size]
    IN /\ pc[t] = "idle" /\ state[h] = "open" /\ nops < MaxOps
       /\ nops' = nops + 1
       /\ IF p \in DOMAIN mtimes
          THEN /\ op' = [op EXCEPT ![t] = [o EXCEPT !.mtime = mtimes[p]]]
               /\ Step(t, "loop")
          ELSE /\ op' = [op EXCEPT ![t] = [o EXCEPT !.ret = "direct",
                                           !.at = r.offset, !.want = r.size]]
               /\ Step(t, "ra")
       /\ UNCHANGED <<buffers, file, cache, keys, cache_size_, mtimes, now, state,
                      nerrors, shared, failed, beyond, orphans, floor, stale, dangling>>

Seeker(t) == op[t].offset + op[t].readed
Block(t) == <<path(t), Seeker(t) \div BlockSize>>

\* The read hands out bytes: are they all from the open on?
Hand(t, bytes) ==
    stale' = (stale \/ \E i \in DOMAIN bytes : bytes[i] < floor[op[t].h])

\* Copy from the block, or stop at its end.  The number of bytes is an unsigned difference.
Copied(t) ==
    LET b == cache[Block(t)]
        in == Seeker(t) % BlockSize
        left == op[t].size - op[t].readed
        there == IF in > b.size THEN Huge ELSE b.size - in
        n == IF left < there THEN left ELSE there
    IN [n |-> n, bytes |-> [i \in 1 .. n |-> IF in + i <= BlockSize THEN b.bytes[in + i] ELSE 0]]

Copy(t) ==
    /\ LET c == Copied(t)
       IN IF c.n = 0
          THEN Done(t) /\ UNCHANGED stale
          ELSE /\ op' = [op EXCEPT ![t].readed = @ + c.n, ![t].key = Block(t), ![t].ret = "none"]
               /\ Hand(t, c.bytes)
               /\ Step(t, "touch")
    /\ beyond' = (beyond \/ Seeker(t) % BlockSize > cache[Block(t)].size)
    /\ UNCHANGED <<buffers, file, cache, keys, cache_size_, mtimes, now, state,
                   nops, nerrors, shared, failed, orphans, floor, dangling>>

\* The block is there and valid.
Hit(t) ==
    /\ pc[t] = "loop" /\ op[t].readed # op[t].size
    /\ Block(t) \in DOMAIN cache /\ Refreshing(Block(t)) = {}
    /\ is_valid(cache[Block(t)], op[t].mtime)
    /\ Copy(t)

\* The block is out of date: it is to be read again, inside the shared section.
Invalid(t) ==
    /\ pc[t] = "loop" /\ op[t].readed # op[t].size
    /\ Block(t) \in DOMAIN cache /\ Refreshing(Block(t)) = {}
    /\ ~is_valid(cache[Block(t)], op[t].mtime)
    /\ op' = [op EXCEPT ![t].ret = "refresh", ![t].key = Block(t),
                        ![t].at = Block(t)[2] * BlockSize, ![t].want = BlockSize]
    /\ Step(t, "lock_block")
    /\ UNCHANGED <<buffers, file, cache, keys, cache_size_, mtimes, now, state,
                   nops, nerrors, shared, failed, beyond, orphans, floor, stale, dangling>>

LockBlock(t) ==
    /\ pc[t] = "lock_block" /\ Refreshing(op[t].key) = {}
    /\ Step(t, "ra")
    /\ UNCHANGED <<buffers, file, cache, keys, cache_size_, mtimes, now, state, op,
                   nops, nerrors, shared, failed, beyond, orphans, floor, stale, dangling>>

\* The bytes are in the block; what a shorter read leaves there stays.
Refreshed(t) ==
    LET new == op[t].bytes
    IN /\ pc[t] = "refreshed"
       /\ cache' = [cache EXCEPT ![op[t].key] =
                       [bytes |-> [i \in 1 .. BlockSize |->
                                     IF i <= Len(new) THEN new[i] ELSE @.bytes[i]],
                        size |-> Len(new), mtime |-> op[t].mtime, ts |-> now]]
       /\ Step(t, "copy")
       /\ UNCHANGED <<buffers, file, keys, cache_size_, mtimes, now, state, op,
                      nops, nerrors, shared, failed, beyond, orphans, floor, stale, dangling>>

CopyRefreshed(t) ==
    /\ pc[t] = "copy" /\ Refreshing(op[t].key) = {}
    /\ Copy(t)

\* Mutation: the size goes down whether or not the block is there.
remove_blockAlways(k) ==
    /\ Sharing = {}
    /\ cache' = Restrict(cache, DOMAIN cache \ {k})
    /\ cache_size_' = (cache_size_ + SizeMod - 1) % SizeMod
\* remove_block
remove_block(k) ==
    /\ Sharing = {}
    /\ cache' = Restrict(cache, DOMAIN cache \ {k})
    /\ cache_size_' = IF k \in DOMAIN cache THEN (cache_size_ + SizeMod - 1) % SizeMod
                      ELSE cache_size_

\* A refresh has failed: remove the block, then its key.
DropBlock(t) ==
    /\ pc[t] = "drop"
    /\ remove_block(op[t].key)
    /\ Step(t, "forget")
    /\ UNCHANGED <<buffers, file, keys, mtimes, now, state, op,
                   nops, nerrors, shared, failed, beyond, orphans, floor, stale, dangling>>
Forget(t) ==
    /\ pc[t] = "forget"
    /\ keys' = remove(keys, op[t].key)
    /\ orphans' = IF op[t].key \in DOMAIN cache THEN orphans \cup {op[t].key} ELSE orphans
    /\ Done(t)
    /\ UNCHANGED <<buffers, file, cache, cache_size_, mtimes, now, state,
                   nops, nerrors, shared, failed, beyond, floor, stale, dangling>>

\* No block: make room for one if there are too many, and read it.
Miss(t) ==
    /\ pc[t] = "loop" /\ op[t].readed # op[t].size
    /\ Block(t) \notin DOMAIN cache
    /\ IF cache_size_ > Size /\ Victims(keys) # {}
       THEN \E v \in Victims(keys) : /\ keys' = remove(keys, v)
                                     /\ Set(t, "key", v)
                                     /\ Step(t, "evict")
       ELSE /\ op' = [op EXCEPT ![t].ret = "miss", ![t].key = Block(t),
                                ![t].at = Block(t)[2] * BlockSize, ![t].want = BlockSize]
            /\ Step(t, "ra")
            /\ UNCHANGED keys
    /\ UNCHANGED <<buffers, file, cache, cache_size_, mtimes, now, state,
                   nops, nerrors, shared, failed, beyond, orphans, floor, stale, dangling>>
Evict(t) ==
    /\ pc[t] = "evict"
    /\ remove_block(op[t].key)
    /\ op' = [op EXCEPT ![t].ret = "miss", ![t].key = Block(t),
                        ![t].at = Block(t)[2] * BlockSize, ![t].want = BlockSize]
    /\ Step(t, "ra")
    /\ UNCHANGED <<buffers, file, keys, mtimes, now, state,
                   nops, nerrors, shared, failed, beyond, orphans, floor, stale, dangling>>

\* try_emplace keeps a block that is there.
Emplace(t) ==
    LET k == op[t].key
        new == op[t].bytes
    IN /\ pc[t] = "emplace"
       /\ IF new = <<>>
          THEN Done(t) /\ UNCHANGED cache
          ELSE /\ Sharing = {} /\ UNCHANGED op
               /\ IF k \in DOMAIN cache
                  THEN Step(t, "touch") /\ UNCHANGED cache
                  ELSE /\ Step(t, "count")
                       /\ cache' = [x \in DOMAIN cache \cup {k} |->
                            IF x # k THEN cache[x]
                            ELSE [bytes |-> [i \in 1 .. BlockSize |->
                                               IF i <= Len(new) THEN new[i] ELSE 0],
                                  size |-> Len(new), mtime |-> op[t].mtime, ts |-> now]]
       /\ UNCHANGED <<buffers, file, keys, cache_size_, mtimes, now, state,
                      nops, nerrors, shared, failed, beyond, orphans, floor, stale, dangling>>
\* Mutation: a block that was inserted is not touched.
CountNoTouch(t) ==
    /\ pc[t] = "count"
    /\ cache_size_' = (cache_size_ + 1) % SizeMod
    /\ Step(t, "loop")
    /\ UNCHANGED <<buffers, file, cache, keys, mtimes, now, state, op,
                   nops, nerrors, shared, failed, beyond, orphans, floor, stale, dangling>>
Count(t) ==
    /\ pc[t] = "count"
    /\ cache_size_' = (cache_size_ + 1) % SizeMod
    /\ Step(t, "touch")
    /\ UNCHANGED <<buffers, file, cache, keys, mtimes, now, state, op,
                   nops, nerrors, shared, failed, beyond, orphans, floor, stale, dangling>>
Touch(t) ==
    /\ pc[t] = "touch"
    /\ keys' = touch(keys, op[t].key)
    /\ orphans' = orphans \ {op[t].key}
    /\ IF op[t].readed = op[t].size THEN Done(t) ELSE Step(t, "loop") /\ UNCHANGED op
    /\ UNCHANGED <<buffers, file, cache, cache_size_, mtimes, now, state,
                   nops, nerrors, shared, failed, beyond, floor, stale, dangling>>

-----------------------------------------------------------------------------
(* read of the read-ahead layer, for a refresh, for a miss, or without the cache *)

\* The read of the next layer returns bytes to its caller.
Returns(t, bytes) ==
    IF op[t].ret = "direct"
    THEN Done(t) /\ Hand(t, bytes)
    ELSE /\ Set(t, "bytes", bytes)
         /\ Step(t, IF op[t].ret = "refresh" THEN "refreshed" ELSE "emplace")
         /\ UNCHANGED stale

RaRead(t) ==
    /\ pc[t] = "ra"
    /\ IF path(t) \notin DOMAIN buffers
       THEN dangling' = TRUE /\ Step(t, "lost") /\ UNCHANGED <<op, stale>>
       ELSE /\ UNCHANGED dangling
            /\ IF ra_hit(path(t), op[t].at, op[t].want)
               THEN Returns(t, ra_bytes(path(t), op[t].at, op[t].want))
               ELSE Step(t, "ra_remote") /\ UNCHANGED <<op, stale>>
    /\ UNCHANGED <<buffers, file, cache, keys, cache_size_, mtimes, now, state,
                   nops, nerrors, shared, failed, beyond, orphans, floor>>

RaRemote(t) ==
    /\ pc[t] = "ra_remote"
    /\ Set(t, "bytes", ra_fetch(path(t), op[t].at, op[t].want))
    /\ Step(t, "ra_update")
    /\ UNCHANGED <<buffers, file, cache, keys, cache_size_, mtimes, now, state,
                   nops, nerrors, shared, failed, beyond, orphans, floor, stale, dangling>>

RaUpdate(t) ==
    /\ pc[t] = "ra_update"
    /\ ra_update(path(t), op[t].at, op[t].bytes)
    /\ Returns(t, Slice(op[t].bytes, 0, op[t].want))
    /\ UNCHANGED <<file, cache, keys, cache_size_, mtimes, now, state,
                   nops, nerrors, shared, failed, beyond, orphans, floor, dangling>>

\* The read of the next layer fails.  A refresh writes the result into the block first.
RaFails(t) ==
    /\ pc[t] = "ra_remote" /\ nerrors < MaxErrors
    /\ nerrors' = nerrors + 1
    /\ IF op[t].ret = "refresh"
       THEN /\ cache' = [cache EXCEPT ![op[t].key].size = Huge,
                                      ![op[t].key].mtime = op[t].mtime,
                                      ![op[t].key].ts = now]
            /\ failed' = failed \cup {op[t].key}
            /\ Set(t, "ret", "none")
            /\ Step(t, "drop")
       ELSE Done(t) /\ UNCHANGED <<cache, failed>>
    /\ UNCHANGED <<buffers, file, keys, cache_size_, mtimes, now, state,
                   nops, shared, beyond, orphans, floor, stale, dangling>>

-----------------------------------------------------------------------------
\* The file changes: a write or a truncation, of this client or another.
Change(p) ==
    /\ file[p].ver <= MaxChanges
    /\ \E n \in Lens : file' = [file EXCEPT ![p] = [ver |-> @.ver + 1, len |-> n]]
    /\ UNCHANGED <<buffers, cache, keys, cache_size_, mtimes, now, state, pc, op,
                   nops, nerrors, shared, failed, beyond, orphans, floor, stale, dangling>>

Tick ==
    /\ now < MaxTime
    /\ now' = now + 1
    /\ UNCHANGED <<buffers, file, cache, keys, cache_size_, mtimes, state, pc, op,
                   nops, nerrors, shared, failed, beyond, orphans, floor, stale, dangling>>

ReadStep(t) ==
    \/ Hit(t) \/ Invalid(t) \/ LockBlock(t) \/ Refreshed(t) \/ CopyRefreshed(t)
    \/ DropBlock(t) \/ Forget(t)
    \/ Miss(t) \/ Evict(t) \/ Emplace(t) \/ Count(t) \/ Touch(t)
    \/ RaRead(t) \/ RaRemote(t) \/ RaUpdate(t) \/ RaFails(t)

Next ==
    \/ \E t \in Threads :
         \/ \E h \in Handles : \/ Open(t, h) \/ Release(t, h)
                               \/ \E r \in Reads : Read(t, h, r)
         \/ OpenAttr(t) \/ OpenFails(t) \/ OpenStore(t) \/ ReleaseNext(t)
         \/ ReadStep(t)
    \/ \E p \in Paths : Change(p)
    \/ Tick

Spec == Init /\ [][Next]_vars

-----------------------------------------------------------------------------
\* The size of the cache is the number of its blocks, less those whose insertion has
\* yet to count them: the two are not one step, and an unsigned count can be below
\* zero for a while, but no interleaving of misses, evictions and failed refreshes
\* makes it drift.
Accounting ==
    (cache_size_ + Cardinality({t \in Threads : pc[t] = "count"})) % SizeMod
        = Cardinality(DOMAIN cache) % SizeMod

\* Every block can be evicted: the policy knows its key, or a thread is about to tell
\* it, or to remove the block.  The exception: a failed refresh makes the policy forget
\* the key when another thread has put the block back.
Evictable ==
    \A k \in DOMAIN cache \ orphans :
        \/ k \in DOMAIN keys
        \/ \E t \in Threads : pc[t] \in {"count", "touch", "evict", "drop"} /\ op[t].key = k

\* Close-to-open: a read returns nothing older than the file was when the open of its
\* handle began, as long as the handles of a path are open one at a time, no refresh
\* of a block fails and no read starts beyond the end of a block, where the unsigned
\* difference of read wraps.
CloseToOpen == stale => shared # {} \/ failed # {} \/ beyond

\* Read-ahead finds the buffer of the path, unless two handles of it were in use at
\* once (the release of one takes the buffer from the other).
BufferThere == dangling => shared # {}
=============================================================================
