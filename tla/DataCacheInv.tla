---------------------------- MODULE DataCacheInv ----------------------------
(* The invariants of the data cache that are inductive.  Base holds the types *)
(* and where the calls are; AloneInv, AccountInv and FreshInv are proved on   *)
(* top of it.  Beside them, what a step does in their terms.                  *)
EXTENDS DataCache

Keys == (Paths \X Nat) \cup {<<>>}
Rets == {"none", "refresh", "miss", "direct"}
OpRecs == [h : Handles \cup {"none"}, offset : Nat, size : Nat, readed : Nat, mtime : Nat,
           ret : Rets, at : Nat, want : Nat, bytes : Seq(Nat), key : Keys]
Blocks == [bytes : [1 .. BlockSize -> Nat], size : Nat, mtime : Nat, ts : Nat]
Buffers == [set : BOOLEAN, offset : Nat, bytes : Seq(Nat)]

Types ==
    /\ DOMAIN pc = Threads /\ op \in [Threads -> OpRecs]
    /\ DOMAIN state = Handles /\ floor \in [Handles -> Nat]
    /\ file \in [Paths -> [ver : Nat, len : Nat]]
    /\ cache \in [DOMAIN cache -> Blocks] /\ DOMAIN cache \subseteq Keys
    /\ DOMAIN keys \subseteq Keys
    /\ cache_size_ \in Nat /\ now \in Nat
    /\ mtimes \in [DOMAIN mtimes -> Nat]
    /\ buffers \in [DOMAIN buffers -> Buffers]

-----------------------------------------------------------------------------
(* The calls under way on a handle.                                           *)

RaPcs == {"ra", "ra_remote", "ra_update"}
ReadPcs == {"loop", "lock_block", "refreshed", "copy", "drop", "forget", "evict", "emplace",
            "count", "touch", "lost"} \cup RaPcs
Busy(t) == pc[t] # "idle"
StateAt(label) == CASE label \in {"open_attr", "open_store"} -> "opening"
                    [] label = "release" -> "releasing"
                    [] OTHER -> "open"

\* A call is on a handle in the state that is for it, and only reads share one.
HandleInv ==
    /\ \A t \in Threads : Busy(t) =>
         /\ op[t].h \in Handles /\ state[op[t].h] = StateAt(pc[t])
         /\ pc[t] \in ReadPcs \cup {"open_attr", "open_store", "release"}
    /\ \A t, u \in Threads : t # u /\ Busy(t) /\ Busy(u) /\ op[t].h = op[u].h =>
         pc[t] \in ReadPcs /\ pc[u] \in ReadPcs

-----------------------------------------------------------------------------
(* What the updates of op are.                                                *)

Others(t) == \A u \in Threads : u # t => pc'[u] = pc[u] /\ op'[u] = op[u]

-----------------------------------------------------------------------------
(* Reads without their data: what a refresh works on stays in the cache.      *)

SharedPcs == {"lock_block", "refreshed", "copy", "lost"} \cup RaPcs

RetAt(t) ==
    /\ op[t].readed <= op[t].size
    /\ pc[t] \in {"lock_block", "refreshed", "copy"} => op[t].ret = "refresh"
    /\ pc[t] \in RaPcs => op[t].ret \in {"refresh", "miss", "direct"}
    /\ pc[t] = "emplace" => op[t].ret = "miss"
    /\ Busy(t) /\ op[t].ret = "refresh" =>
         pc[t] \in SharedPcs /\ op[t].key = Block(t) /\ op[t].key \in DOMAIN cache
RetInv == \A t \in Threads : RetAt(t)

Base == Types /\ HandleInv /\ RetInv

-----------------------------------------------------------------------------
(* What the steps of a read do to the thread.                                 *)

Goes(t, next) ==
    /\ pc'[t] = next /\ DOMAIN pc' = Threads /\ op' \in [Threads -> OpRecs] /\ Others(t)
    /\ op'[t].h = op[t].h /\ op'[t].mtime = op[t].mtime /\ op'[t].readed <= op'[t].size
Ends(t) ==
    /\ pc'[t] = "idle" /\ DOMAIN pc' = Threads /\ op' \in [Threads -> OpRecs] /\ Others(t)
    /\ op'[t] = NoOp
SameBlock(t) == op'[t].offset = op[t].offset /\ op'[t].readed = op[t].readed

ReadsOn(t) ==
    /\ pc[t] \in ReadPcs
    /\ Ends(t) \/ \E next \in ReadPcs : Goes(t, next)
    /\ RetAt(t)'
    /\ UNCHANGED <<file, mtimes, now, state, shared, floor>>
    /\ DOMAIN cache \subseteq DOMAIN cache' \/ Sharing = {}

-----------------------------------------------------------------------------
(* Types.                                                                     *)

CacheTypes ==
    /\ cache \in [DOMAIN cache -> Blocks] /\ DOMAIN cache \subseteq Keys
    /\ DOMAIN keys \subseteq Keys /\ cache_size_ \in Nat
    /\ buffers \in [DOMAIN buffers -> Buffers]

-----------------------------------------------------------------------------
(* Base is inductive.                                                         *)

\* A call that begins.
Begins(t, h, next) ==
    /\ pc[t] = "idle" /\ pc'[t] = next /\ DOMAIN pc' = Threads /\ op' \in [Threads -> OpRecs]
    /\ Others(t) /\ op'[t].h = h /\ op'[t].readed <= op'[t].size

-----------------------------------------------------------------------------
(* Read-ahead finds its buffer.                                               *)

Used(h) == state[h] # "closed"

\* Two handles in use for a path were noted, and a handle in use has its buffer otherwise.
AloneInv ==
    /\ \A h, g \in Handles : Used(h) /\ Used(g) /\ h # g /\ PathOf[h] = PathOf[g] =>
         PathOf[h] \in shared
    /\ \A h \in Handles : Used(h) => PathOf[h] \in DOMAIN buffers \cup shared
    /\ BufferThere

-----------------------------------------------------------------------------
(* Every block can be evicted.                                                *)

Tells(t, k) == pc[t] \in {"count", "touch", "evict", "drop"} /\ op[t].key = k

-----------------------------------------------------------------------------
(* The size of the cache.                                                     *)

Counting == {t \in Threads : pc[t] = "count"}
AccountInv == IsFiniteSet(DOMAIN cache) /\ Accounting

-----------------------------------------------------------------------------
(* Close-to-open.                                                             *)

Good == shared = {} /\ failed = {} /\ ~beyond

All(bytes, v) == \A i \in DOMAIN bytes : v <= bytes[i]

\* The open of a handle saw the file at floor or later, and it is what the cache knows.
HandleFresh(h) ==
    /\ state[h] = "opening" => floor[h] <= file[PathOf[h]].ver
    /\ state[h] = "open" => /\ PathOf[h] \in DOMAIN mtimes
                            /\ floor[h] <= mtimes[PathOf[h]]
                            /\ mtimes[PathOf[h]] <= file[PathOf[h]].ver

\* A read works with the time its open stored, and reads nothing older.
FreshAt(t) ==
    /\ pc[t] = "open_store" => floor[op[t].h] <= op[t].mtime /\ op[t].mtime <= file[path(t)].ver
    /\ pc[t] \in ReadPcs => op[t].mtime = mtimes[path(t)] /\ op[t].ret # "direct"
    /\ pc[t] \in {"ra_update", "refreshed", "emplace"} => All(op[t].bytes, op[t].mtime)
    /\ pc[t] \in {"refreshed", "emplace"} => Len(op[t].bytes) <= BlockSize
    /\ pc[t] \in RaPcs \cup {"lock_block"} => op[t].want = BlockSize
    /\ pc[t] = "copy" => cache[Block(t)].mtime = op[t].mtime

\* A buffer that is filled is of a handle that is open, or about to drop it.
BufferFresh(p) ==
    buffers[p].set => \E h \in Handles :
        /\ PathOf[h] = p
        /\ \/ state[h] = "releasing"
           \/ state[h] = "open" /\ All(buffers[p].bytes, mtimes[p])

\* The bytes of a block are from the version it is tagged with on.
BlockFresh(b) == b.size <= BlockSize /\ \A i \in 1 .. b.size : b.mtime <= b.bytes[i]

Fresh ==
    /\ ~stale
    /\ \A h \in Handles : HandleFresh(h)
    /\ \A t \in Threads : FreshAt(t)
    /\ \A p \in DOMAIN buffers : BufferFresh(p)
    /\ \A k \in DOMAIN cache : BlockFresh(cache[k])
FreshInv == Good => Fresh

Sound == Base /\ AloneInv /\ Good /\ Fresh

-----------------------------------------------------------------------------
(* The steps of a read.                                                       *)

KeepsData(t) ==
    /\ \A p \in DOMAIN buffers' : BufferFresh(p)'
    /\ \A k \in DOMAIN cache' : BlockFresh(cache'[k])
    /\ \A u \in Threads : u # t /\ pc[u] = "copy" => cache'[Block(u)].mtime = op[u].mtime
KeepsFresh(t) == ~stale' /\ FreshAt(t)' /\ KeepsData(t)

=============================================================================
