--------------------------- MODULE DataCacheProofs ---------------------------
(* The data cache for any threads, files, blocks and sizes: no count drifts,  *)
(* every block can be evicted, read-ahead finds its buffers and a read is     *)
(* close-to-open.  Base holds the types and where the calls are; each         *)
(* property adds an invariant to it.  Fresh says how new the bytes are in     *)
(* every place they pass through on their way from the server to a reply.     *)
EXTENDS DataCacheInv, FiniteSetTheorems, TLAPS

\* Leaves that need arithmetic or sequences cite SMT, the others go to Zenon.
USE Zenon
-----------------------------------------------------------------------------
(* What the updates of op are.                                                *)

LEMMA NoOpRec == NoOp \in OpRecs
<1>1. 0 \in Nat /\ <<>> \in Seq(Nat)
  BY SMT
<1> QED BY <1>1 DEF NoOp, OpRecs, Rets, Keys

LEMMA OpBegins ==
  ASSUME Types, NEW t \in Threads, NEW h \in Handles,
         op' = [op EXCEPT ![t] = [NoOp EXCEPT !.h = h]]
  PROVE  op' \in [Threads -> OpRecs] /\ op'[t].h = h
<1>1. [NoOp EXCEPT !.h = h] \in OpRecs
  BY NoOpRec DEF OpRecs
<1>2. [NoOp EXCEPT !.h = h].h = h
  BY SMT DEF NoOp
<1> QED BY <1>1, <1>2 DEF Types

\* Bytes are copied from a block.
LEMMA OpCopies ==
  ASSUME Types, NEW t \in Threads, NEW n \in Nat, NEW k \in Keys,
         op' = [op EXCEPT ![t].readed = @ + n, ![t].key = k, ![t].ret = "none"]
  PROVE  /\ op' \in [Threads -> OpRecs]
         /\ op'[t].ret = "none" /\ op'[t].key = k
         /\ op'[t].h = op[t].h /\ op'[t].mtime = op[t].mtime /\ op'[t].size = op[t].size
         /\ op'[t].readed = op[t].readed + n
<1> DEFINE q == [op[t] EXCEPT !.readed = op[t].readed + n, !.key = k, !.ret = "none"]
<1>0. op[t] \in OpRecs
  BY DEF Types
<1>1. op' = [op EXCEPT ![t] = q]
  BY DEF Types
<1>2. q \in OpRecs
  <2>1. op[t].readed \in Nat
    BY <1>0 DEF OpRecs
  <2>2. op[t].readed + n \in Nat
    BY <2>1, SMT
  <2> QED BY <1>0, <2>2 DEF OpRecs, Rets
<1>3. /\ q.ret = "none" /\ q.key = k /\ q.h = op[t].h /\ q.mtime = op[t].mtime
      /\ q.size = op[t].size /\ q.readed = op[t].readed + n
  BY <1>0, SMT DEF OpRecs
<1> HIDE DEF q
<1>4. op'[t] = q
  BY <1>1 DEF Types
<1> QED BY <1>1, <1>2, <1>3, <1>4 DEF Types

\* One field changes.
LEMMA OpMtime ==
  ASSUME Types, NEW t \in Threads, NEW v \in Nat, Set(t, "mtime", v)
  PROVE  /\ op' \in [Threads -> OpRecs] /\ op'[t].mtime = v /\ op'[t].h = op[t].h
         /\ op'[t].ret = op[t].ret /\ op'[t].size = op[t].size /\ op'[t].readed = op[t].readed
<1> DEFINE q == [op[t] EXCEPT !.mtime = v]
<1>0. op[t] \in OpRecs
  BY DEF Types
<1>1. op' = [op EXCEPT ![t] = q]
  BY DEF Types, Set
<1>2. q \in OpRecs
  BY <1>0 DEF OpRecs
<1>3. /\ q.mtime = v /\ q.h = op[t].h /\ q.ret = op[t].ret /\ q.size = op[t].size
      /\ q.readed = op[t].readed
  BY <1>0, SMT DEF OpRecs
<1> HIDE DEF q
<1>4. op'[t] = q
  BY <1>1 DEF Types
<1> QED BY <1>1, <1>2, <1>3, <1>4 DEF Types

LEMMA OpBytes ==
  ASSUME Types, NEW t \in Threads, NEW v \in Seq(Nat), Set(t, "bytes", v)
  PROVE  /\ op' \in [Threads -> OpRecs] /\ op'[t].bytes = v
         /\ op'[t].ret = op[t].ret /\ op'[t].key = op[t].key /\ op'[t].at = op[t].at
         /\ op'[t].want = op[t].want /\ op'[t].h = op[t].h /\ op'[t].offset = op[t].offset
         /\ op'[t].size = op[t].size /\ op'[t].readed = op[t].readed
         /\ op'[t].mtime = op[t].mtime
<1> DEFINE q == [op[t] EXCEPT !.bytes = v]
<1>0. op[t] \in OpRecs
  BY DEF Types
<1>1. op' = [op EXCEPT ![t] = q]
  BY DEF Types, Set
<1>2. q \in OpRecs
  BY <1>0 DEF OpRecs
<1>3. /\ q.bytes = v /\ q.ret = op[t].ret /\ q.key = op[t].key /\ q.at = op[t].at
      /\ q.want = op[t].want /\ q.h = op[t].h /\ q.offset = op[t].offset
      /\ q.size = op[t].size /\ q.readed = op[t].readed /\ q.mtime = op[t].mtime
  BY <1>0, SMT DEF OpRecs
<1> HIDE DEF q
<1>4. op'[t] = q
  BY <1>1 DEF Types
<1> QED BY <1>1, <1>2, <1>3, <1>4 DEF Types

LEMMA OpKey ==
  ASSUME Types, NEW t \in Threads, NEW k \in Keys, Set(t, "key", k)
  PROVE  /\ op' \in [Threads -> OpRecs] /\ op'[t].key = k
         /\ op'[t].ret = op[t].ret /\ op'[t].h = op[t].h /\ op'[t].offset = op[t].offset
         /\ op'[t].readed = op[t].readed /\ op'[t].mtime = op[t].mtime
         /\ op'[t].size = op[t].size
<1> DEFINE q == [op[t] EXCEPT !.key = k]
<1>0. op[t] \in OpRecs
  BY DEF Types
<1>1. op' = [op EXCEPT ![t] = q]
  BY DEF Types, Set
<1>2. q \in OpRecs
  BY <1>0 DEF OpRecs
<1>3. /\ q.key = k /\ q.ret = op[t].ret /\ q.h = op[t].h /\ q.offset = op[t].offset
      /\ q.readed = op[t].readed /\ q.mtime = op[t].mtime /\ q.size = op[t].size
  BY <1>0, SMT DEF OpRecs
<1> HIDE DEF q
<1>4. op'[t] = q
  BY <1>1 DEF Types
<1> QED BY <1>1, <1>2, <1>3, <1>4 DEF Types

LEMMA OpRet ==
  ASSUME Types, NEW t \in Threads, Set(t, "ret", "none")
  PROVE  /\ op' \in [Threads -> OpRecs] /\ op'[t].ret = "none"
         /\ op'[t].key = op[t].key /\ op'[t].h = op[t].h /\ op'[t].mtime = op[t].mtime
         /\ op'[t].size = op[t].size /\ op'[t].readed = op[t].readed
<1> DEFINE q == [op[t] EXCEPT !.ret = "none"]
<1>0. op[t] \in OpRecs
  BY DEF Types
<1>1. op' = [op EXCEPT ![t] = q]
  BY DEF Types, Set
<1>2. q \in OpRecs
  BY <1>0 DEF OpRecs, Rets
<1>3. /\ q.ret = "none" /\ q.key = op[t].key /\ q.h = op[t].h /\ q.mtime = op[t].mtime
      /\ q.size = op[t].size /\ q.readed = op[t].readed
  BY <1>0, SMT DEF OpRecs
<1> HIDE DEF q
<1>4. op'[t] = q
  BY <1>1 DEF Types
<1> QED BY <1>1, <1>2, <1>3, <1>4 DEF Types

LEMMA OpEnds ==
  ASSUME Types, NEW t \in Threads, Done(t)
  PROVE  op' \in [Threads -> OpRecs] /\ op'[t] = NoOp /\ pc'[t] = "idle"
BY NoOpRec DEF Types, Done, Step

-----------------------------------------------------------------------------
(* Reads without their data: what a refresh works on stays in the cache.      *)

LEMMA SliceFacts ==
  ASSUME NEW bytes \in Seq(Nat), NEW o \in Nat, NEW n \in Nat
  PROVE  /\ Slice(bytes, o, n) \in Seq(Nat) /\ Len(Slice(bytes, o, n)) <= n
         /\ \A i \in DOMAIN Slice(bytes, o, n) :
              \E j \in DOMAIN bytes : Slice(bytes, o, n)[i] = bytes[j]
<1> DEFINE m == IF o + n > Len(bytes) THEN Len(bytes) ELSE o + n
           s == SubSeq(bytes, o + 1, m)
<1>1. Len(bytes) \in Nat /\ DOMAIN bytes = 1 .. Len(bytes)
  BY SMT
<1>2. m \in Nat /\ m <= Len(bytes) /\ m <= o + n
  BY <1>1, SMT
<1> HIDE DEF m
<1>3. /\ s \in Seq(Nat) /\ Len(s) <= n
      /\ \A i \in DOMAIN s : o + i \in DOMAIN bytes /\ s[i] = bytes[o + i]
  <2> DEFINE a == o + 1
  <2>0. a = o + 1 /\ a \in Int /\ m \in Int
    BY <1>2, SMT
  <2>1. \A i \in a .. m : bytes[i] \in Nat
    BY <1>1, <1>2, SMT
  <2>2. s = SubSeq(bytes, a, m)
    OBVIOUS
  <2> HIDE DEF a, s
  <2>3. /\ s \in Seq(Nat)
        /\ Len(s) = IF a <= m THEN m - a + 1 ELSE 0
        /\ \A i \in 1 .. m - a + 1 : s[i] = bytes[a + i - 1]
    BY ONLY bytes \in Seq(Nat), o \in Nat, <1>1, <1>2, <2>0, <2>2, SMT
  <2>4. DOMAIN s = 1 .. Len(s) /\ Len(s) \in Nat
    BY ONLY <2>3, SMT
  <2>5. Len(s) <= n
    BY ONLY <1>1, <1>2, <2>0, <2>3, o \in Nat, n \in Nat, SMT
  <2>6. ASSUME NEW i \in DOMAIN s
        PROVE  o + i \in DOMAIN bytes /\ s[i] = bytes[o + i]
    <3>0. /\ i \in 1 .. Len(s) /\ Len(s) \in Nat /\ Len(bytes) \in Nat
          /\ Len(s) = IF a <= m THEN m - a + 1 ELSE 0
      BY <1>1, <2>3, <2>4
    <3>1. i \in 1 .. m - a + 1 /\ a + i - 1 = o + i /\ o + i \in 1 .. Len(bytes)
      <4>1. /\ o \in Nat /\ m \in Nat /\ m <= Len(bytes) /\ a \in Int /\ a = o + 1
        BY <1>2, <2>0
      <4> DEFINE l == Len(s)
                 z == Len(bytes)
      <4>2. /\ i \in 1 .. l /\ l \in Nat /\ z \in Nat /\ m <= z
            /\ l = IF a <= m THEN m - a + 1 ELSE 0
        BY <3>0, <4>1
      <4> HIDE DEF l, z
      <4>3. l = m - a + 1
        BY ONLY <4>1, <4>2, SMT
      <4>4. i \in Int /\ i >= 1 /\ i <= m - a + 1
        BY ONLY <4>2, <4>3, SMT
      <4>5. i \in 1 .. m - a + 1 /\ a + i - 1 = o + i /\ o + i \in 1 .. z
        BY ONLY <4>1, <4>2, <4>4, SMT
      <4> QED BY <4>5 DEF z
    <3> QED BY <1>1, <2>3, <3>1
  <2> QED BY <2>3, <2>5, <2>6
<1>4. Slice(bytes, o, n) = s
  BY DEF Slice, m
<1> HIDE DEF s
<1> QED BY <1>3, <1>4

LEMMA BlockKey ==
  ASSUME Types, HandleInv, NEW t \in Threads, Busy(t)
  PROVE  /\ path(t) \in Paths /\ Block(t) \in Keys /\ Block(t)[2] * BlockSize \in Nat
         /\ Seeker(t) % BlockSize \in Nat
<1>1. op[t].h \in Handles /\ op[t] \in OpRecs
  BY DEF Types, HandleInv
<1>2. path(t) \in Paths
  BY <1>1, DataCacheAssumption DEF path
<1>3. op[t].offset \in Nat /\ op[t].readed \in Nat
  BY <1>1 DEF OpRecs
<1>4. /\ Seeker(t) \div BlockSize \in Nat /\ Seeker(t) % BlockSize \in Nat
      /\ (Seeker(t) \div BlockSize) * BlockSize \in Nat
  <2> DEFINE x == op[t].offset + op[t].readed
  <2>1. x \in Nat /\ BlockSize \in Nat \ {0}
    BY <1>3, DataCacheAssumption, SMT
  <2> HIDE DEF x
  <2>2. x \div BlockSize \in Nat /\ x % BlockSize \in Nat
    BY <2>1, SMT
  <2>3. (x \div BlockSize) * BlockSize \in Nat
    BY <2>1, <2>2, SMT
  <2> QED BY <2>2, <2>3 DEF x, Seeker
<1>5. Block(t)[2] = Seeker(t) \div BlockSize
  BY DEF Block
<1> QED BY <1>2, <1>4, <1>5 DEF Block, Keys

\* How much is copied from a block that is there.
LEMMA CopiedType ==
  ASSUME Types, HandleInv, NEW t \in Threads, Busy(t), Block(t) \in DOMAIN cache,
         op[t].readed <= op[t].size
  PROVE  Copied(t).n \in Nat /\ op[t].readed + Copied(t).n <= op[t].size
<1>1. Seeker(t) % BlockSize \in Nat /\ op[t] \in OpRecs /\ cache[Block(t)] \in Blocks
  BY BlockKey DEF Types
<1>2. op[t].size \in Nat /\ op[t].readed \in Nat /\ cache[Block(t)].size \in Nat
  BY <1>1 DEF OpRecs, Blocks
<1> DEFINE in == Seeker(t) % BlockSize
           left == op[t].size - op[t].readed
           there == IF in > cache[Block(t)].size THEN Huge ELSE cache[Block(t)].size - in
<1>3. Copied(t).n = IF left < there THEN left ELSE there
  BY DEF Copied
<1>4. left \in Nat /\ there \in Nat /\ op[t].readed + left = op[t].size
  BY <1>1, <1>2, SMT DEF Huge
<1> HIDE DEF left, there
<1> QED BY <1>2, <1>3, <1>4, SMT

-----------------------------------------------------------------------------
(* What the steps of a read do to the thread.                                 *)

LEMMA DoneEnds == ASSUME Types, NEW t \in Threads, Done(t) PROVE Ends(t)
BY OpEnds DEF Ends, Others, Types, Done, Step

LEMMA StepGoes ==
  ASSUME Base, NEW t \in Threads, NEW next, Step(t, next), op' = op
  PROVE  Goes(t, next) /\ SameBlock(t)
BY DEF Base, RetInv, RetAt, Goes, Others, Types, Step, SameBlock

LEMMA AskGoes ==
  ASSUME Base, NEW t \in Threads, Busy(t), NEW next, Step(t, next), NEW ret \in Rets,
         op' = [op EXCEPT ![t].ret = ret, ![t].key = Block(t),
                          ![t].at = Block(t)[2] * BlockSize, ![t].want = BlockSize]
  PROVE  /\ Goes(t, next) /\ SameBlock(t)
         /\ op'[t].ret = ret /\ op'[t].key = Block(t) /\ op'[t].want = BlockSize
<1>0. Types /\ HandleInv /\ RetInv /\ Block(t) \in Keys /\ Block(t)[2] * BlockSize \in Nat
  BY BlockKey DEF Base
<1> DEFINE q == [op[t] EXCEPT !.ret = ret, !.key = Block(t), !.at = Block(t)[2] * BlockSize,
                              !.want = BlockSize]
<1>1. op' = [op EXCEPT ![t] = q]
  BY <1>0 DEF Types
<1>2. op[t] \in OpRecs /\ BlockSize \in Nat
  BY <1>0, DataCacheAssumption DEF Types
<1>3. q \in OpRecs
  BY <1>0, <1>2 DEF OpRecs
<1>4. /\ q.ret = ret /\ q.key = Block(t) /\ q.want = BlockSize
      /\ q.h = op[t].h /\ q.offset = op[t].offset /\ q.size = op[t].size
      /\ q.readed = op[t].readed /\ q.mtime = op[t].mtime
  BY <1>2, SMT DEF OpRecs
<1> HIDE DEF q
<1>5. op'[t] = q /\ \A u \in Threads : u # t => op'[u] = op[u]
  BY <1>0, <1>1 DEF Types
<1>6. op' \in [Threads -> OpRecs]
  BY <1>0, <1>1, <1>3 DEF Types
<1> QED BY <1>0, <1>4, <1>5, <1>6 DEF RetInv, RetAt, Goes, SameBlock, Others, Types, Step

LEMMA SetGoes ==
  ASSUME Base, NEW t \in Threads, NEW next, Step(t, next)
  PROVE  /\ \A v \in Seq(Nat) : Set(t, "bytes", v) =>
              /\ Goes(t, next) /\ SameBlock(t) /\ op'[t].bytes = v
              /\ op'[t].ret = op[t].ret /\ op'[t].key = op[t].key /\ op'[t].want = op[t].want
         /\ \A k \in Keys : Set(t, "key", k) =>
              Goes(t, next) /\ SameBlock(t) /\ op'[t].key = k /\ op'[t].ret = op[t].ret
         /\ Set(t, "ret", "none") =>
              Goes(t, next) /\ op'[t].ret = "none" /\ op'[t].key = op[t].key
<1>0. Types /\ op[t].readed <= op[t].size /\ pc'[t] = next /\ DOMAIN pc' = Threads
      /\ \A u \in Threads : u # t => pc'[u] = pc[u]
  BY DEF Base, RetInv, RetAt, Step, Types
<1>1. ASSUME NEW f, NEW v, Set(t, f, v) PROVE \A u \in Threads : u # t => op'[u] = op[u]
  BY <1>0, <1>1 DEF Set, Types
<1>2. ASSUME NEW v \in Seq(Nat), Set(t, "bytes", v)
      PROVE  /\ Goes(t, next) /\ SameBlock(t) /\ op'[t].bytes = v
             /\ op'[t].ret = op[t].ret /\ op'[t].key = op[t].key /\ op'[t].want = op[t].want
  BY <1>0, <1>1, <1>2, OpBytes DEF Goes, SameBlock, Others
<1>3. ASSUME NEW k \in Keys, Set(t, "key", k)
      PROVE  Goes(t, next) /\ SameBlock(t) /\ op'[t].key = k /\ op'[t].ret = op[t].ret
  BY <1>0, <1>1, <1>3, OpKey DEF Goes, SameBlock, Others
<1>4. ASSUME Set(t, "ret", "none")
      PROVE  Goes(t, next) /\ op'[t].ret = "none" /\ op'[t].key = op[t].key
  BY <1>0, <1>1, <1>4, OpRet DEF Goes, Others
<1> QED BY <1>2, <1>3, <1>4

LEMMA CopyGoes ==
  ASSUME Base, NEW t \in Threads, Busy(t), Block(t) \in DOMAIN cache, Copy(t)
  PROVE  \/ Ends(t) /\ stale' = stale
         \/ Goes(t, "touch") /\ op'[t].ret = "none" /\ op'[t].key = Block(t)
<1>0. Types /\ HandleInv /\ RetInv /\ Block(t) \in Keys /\ op[t].readed <= op[t].size
  BY BlockKey DEF Base, RetInv, RetAt
<1>1. CASE Copied(t).n = 0
  BY <1>0, <1>1, DoneEnds DEF Copy
<1>2. CASE Copied(t).n # 0
  <2>1. PICK n \in Nat : n = Copied(t).n /\ op[t].readed + n <= op[t].size
    BY <1>0, CopiedType
  <2>2. PICK k \in Keys : k = Block(t)
    BY <1>0
  <2>3. /\ op' = [op EXCEPT ![t].readed = @ + n, ![t].key = k, ![t].ret = "none"]
        /\ Step(t, "touch")
    BY <1>2, <2>1, <2>2 DEF Copy
  <2>4. /\ op' \in [Threads -> OpRecs]
        /\ op'[t].ret = "none" /\ op'[t].key = k
        /\ op'[t].h = op[t].h /\ op'[t].mtime = op[t].mtime /\ op'[t].size = op[t].size
        /\ op'[t].readed = op[t].readed + n
    BY <1>0, <2>3, OpCopies
  <2>5. \A u \in Threads : u # t => op'[u] = op[u]
    BY <1>0, <2>3 DEF Types
  <2> QED BY <1>0, <2>1, <2>2, <2>3, <2>4, <2>5 DEF Goes, Others, Types, Step
<1> QED BY <1>1, <1>2

LEMMA ReturnsGoes ==
  ASSUME Base, NEW t \in Threads, NEW bytes \in Seq(Nat), Returns(t, bytes)
  PROVE  \/ Ends(t) /\ op[t].ret = "direct"
         \/ /\ op[t].ret # "direct" /\ stale' = stale
            /\ Goes(t, IF op[t].ret = "refresh" THEN "refreshed" ELSE "emplace")
            /\ SameBlock(t) /\ op'[t].bytes = bytes
            /\ op'[t].ret = op[t].ret /\ op'[t].key = op[t].key
<1>1. CASE op[t].ret = "direct"
  BY <1>1, DoneEnds DEF Returns, Base
<1>2. CASE op[t].ret # "direct"
  BY <1>2, SetGoes DEF Returns
<1> QED BY <1>1, <1>2

\* The bytes a read of the read-ahead layer returns.
LEMMA RaTypes ==
  ASSUME Base, NEW t \in Threads, Busy(t)
  PROVE  /\ ra_fetch(path(t), op[t].at, op[t].want) \in Seq(Nat)
         /\ Slice(op[t].bytes, 0, op[t].want) \in Seq(Nat)
         /\ path(t) \in DOMAIN buffers /\ ra_hit(path(t), op[t].at, op[t].want) =>
              ra_bytes(path(t), op[t].at, op[t].want) \in Seq(Nat)
<1>0. /\ path(t) \in Paths /\ op[t] \in OpRecs /\ file[path(t)] \in [ver : Nat, len : Nat]
      /\ Ahead \in Nat
  BY BlockKey, DataCacheAssumption DEF Base, Types
<1>1. op[t].at \in Nat /\ op[t].want \in Nat /\ op[t].bytes \in Seq(Nat)
  BY <1>0 DEF OpRecs
<1>2. file[path(t)].ver \in Nat /\ file[path(t)].len \in Nat
  BY <1>0
<1>3. Content(path(t)) \in Seq(Nat)
  BY <1>2, SMT DEF Content
<1>4. ra_fetch(path(t), op[t].at, op[t].want) \in Seq(Nat)
  BY <1>0, <1>1, <1>3, SliceFacts DEF ra_fetch
<1>5. Slice(op[t].bytes, 0, op[t].want) \in Seq(Nat)
  <2>1. 0 \in Nat
    BY SMT
  <2> QED BY <1>1, <2>1, SliceFacts
<1>6. ASSUME path(t) \in DOMAIN buffers, ra_hit(path(t), op[t].at, op[t].want)
      PROVE  ra_bytes(path(t), op[t].at, op[t].want) \in Seq(Nat)
  <2>1. buffers[path(t)] \in Buffers
    BY <1>6 DEF Base, Types
  <2>2. buffers[path(t)].bytes \in Seq(Nat) /\ buffers[path(t)].offset \in Nat
    BY <2>1 DEF Buffers
  <2>3. op[t].at - buffers[path(t)].offset \in Nat
    BY <1>1, <1>6, <2>2, SMT DEF ra_hit
  <2> QED BY <1>1, <2>2, <2>3, SliceFacts DEF ra_bytes
<1> QED BY <1>4, <1>5, <1>6

LEMMA RetEnds == ASSUME NEW t \in Threads, Ends(t) PROVE RetAt(t)'
<1>1. /\ NoOp.readed = 0 /\ NoOp.size = 0 /\ 0 <= 0
      /\ "idle" \notin {"lock_block", "refreshed", "copy", "emplace"} \cup RaPcs
  BY SMT DEF NoOp, RaPcs
<1> QED BY <1>1 DEF Ends, RetAt, Busy

\* A thread that is not in a shared section after the step.
LEMMA RetGoes ==
  ASSUME NEW t \in Threads, NEW next, Goes(t, next),
         next \notin {"lock_block", "refreshed", "copy"}, op'[t].ret # "refresh",
         next \in RaPcs => op'[t].ret \in {"miss", "direct"}, next = "emplace" => op'[t].ret = "miss"
  PROVE  RetAt(t)'
BY DEF Goes, RetAt

\* A thread that is.
LEMMA RetShared ==
  ASSUME NEW t \in Threads, NEW next, Goes(t, next), next \in SharedPcs, op'[t].ret = "refresh",
         SameBlock(t), op'[t].key = Block(t), op'[t].key \in DOMAIN cache'
  PROVE  RetAt(t)'
<1>1. Block(t)' = Block(t)
  BY DEF Goes, SameBlock, Block, Seeker, path
<1>2. "emplace" \notin SharedPcs
  BY SMT DEF SharedPcs, RaPcs
<1> QED BY <1>1, <1>2 DEF Goes, RetAt

\* Every step of a read goes on with it or ends it.
LEMMA ReadGoes ==
  ASSUME Base, NEW t \in Threads, ReadStep(t)
  PROVE  ReadsOn(t)
<1>0. Types /\ HandleInv /\ RetAt(t)
  BY DEF Base, RetInv
<1>1. /\ \A l \in ReadPcs : l # "idle"
      /\ {"loop", "lock_block", "refreshed", "copy", "drop", "forget", "evict", "emplace", "count",
          "touch", "lost", "ra", "ra_remote", "ra_update"} \subseteq ReadPcs
      /\ {"loop", "drop", "forget", "evict", "emplace", "count", "touch"} \cap SharedPcs = {}
      /\ {"lock_block", "refreshed", "copy", "ra", "lost"} \subseteq SharedPcs
      /\ "ra_remote" \in RaPcs /\ "ra_update" \in RaPcs /\ "ra" \in RaPcs
      /\ {"loop", "drop", "forget", "evict", "count", "touch", "emplace", "refreshed"}
           \cap RaPcs = {}
      /\ {"miss", "refresh"} \subseteq Rets /\ "none" # "refresh" /\ "miss" # "refresh"
      /\ {"loop", "drop", "forget", "evict", "count", "touch", "emplace", "ra", "ra_remote",
          "ra_update"} \cap {"lock_block", "refreshed", "copy"} = {}
      /\ {"loop", "drop", "forget", "evict", "count", "touch", "ra", "ra_remote",
          "ra_update"} \cap {"emplace"} = {}
  BY SMT DEF ReadPcs, RaPcs, SharedPcs, Rets
<1>2. ASSUME UNCHANGED <<file, mtimes, now, state, shared, floor>>, pc[t] \in ReadPcs,
             DOMAIN cache \subseteq DOMAIN cache' \/ Sharing = {},
             Ends(t) \/ \E next \in ReadPcs : Goes(t, next) /\ RetAt(t)'
      PROVE  ReadsOn(t)
  BY <1>2, RetEnds DEF ReadsOn
<1>3. ASSUME NEW l, pc[t] = l, l \in ReadPcs \ SharedPcs PROVE op[t].ret # "refresh" /\ Busy(t)
  BY <1>0, <1>1, <1>3 DEF RetAt, Busy
<1>4. CASE Hit(t) \/ CopyRefreshed(t)
  <2>1. Copy(t) /\ pc[t] \in {"loop", "copy"} /\ Block(t) \in DOMAIN cache
    BY <1>0, <1>4 DEF Hit, CopyRefreshed, RetAt, Busy
  <2>2. Busy(t)
    BY <1>1, <2>1 DEF Busy
  <2>3. UNCHANGED <<file, mtimes, now, state, shared, floor, cache>>
    BY <2>1 DEF Copy
  <2>4. CASE Ends(t)
    BY <1>1, <1>2, <2>1, <2>3, <2>4
  <2>5. CASE Goes(t, "touch") /\ op'[t].ret = "none" /\ op'[t].key = Block(t)
    <3>1. RetAt(t)'
      BY <1>1, <2>5, RetGoes
    <3> QED BY <1>1, <1>2, <2>1, <2>3, <2>5, <3>1
  <2> QED BY <2>1, <2>2, <2>4, <2>5, CopyGoes
<1>5. CASE Invalid(t)
  <2>1. /\ Goes(t, "lock_block") /\ SameBlock(t)
        /\ op'[t].ret = "refresh" /\ op'[t].key = Block(t)
    BY <1>1, <1>3, <1>5, AskGoes DEF Invalid
  <2>2. RetAt(t)'
    BY <1>1, <1>5, <2>1, RetShared DEF Invalid
  <2> QED BY <1>1, <1>2, <1>5, <2>1, <2>2 DEF Invalid
<1>6. CASE LockBlock(t) \/ Refreshed(t)
  <2>1. PICK next \in {"ra", "copy"} : Step(t, next) /\ op' = op
    BY <1>6 DEF LockBlock, Refreshed
  <2>2. Goes(t, next) /\ SameBlock(t)
    BY <2>1, StepGoes
  <2>3. pc[t] \in {"lock_block", "refreshed"}
    BY <1>6 DEF LockBlock, Refreshed
  <2>4. op[t].ret = "refresh" /\ op[t].key = Block(t) /\ op[t].key \in DOMAIN cache
    BY <1>0, <1>1, <2>3 DEF RetAt, Busy
  <2>5. DOMAIN cache' = DOMAIN cache
    BY <1>0, <1>6 DEF LockBlock, Refreshed
  <2>6. RetAt(t)'
    BY <1>1, <2>1, <2>2, <2>4, <2>5, RetShared
  <2> QED BY <1>1, <1>2, <1>6, <2>1, <2>2, <2>3, <2>5, <2>6 DEF LockBlock, Refreshed
<1>7. CASE DropBlock(t) \/ Forget(t)
  <2>1. CASE Forget(t)
    BY <1>0, <1>1, <1>2, <2>1, DoneEnds DEF Forget
  <2>2. CASE DropBlock(t)
    <3>1. Goes(t, "forget") /\ op' = op
      BY <2>2, StepGoes DEF DropBlock
    <3>2. RetAt(t)'
      BY <1>1, <1>3, <2>2, <3>1, RetGoes DEF DropBlock
    <3> QED BY <1>1, <1>2, <2>2, <3>1, <3>2 DEF DropBlock, remove_block
  <2> QED BY <1>7, <2>1, <2>2
<1>8. CASE Miss(t)
  <2>0. op[t].ret # "refresh" /\ Busy(t) /\ pc[t] \in ReadPcs
        /\ UNCHANGED <<file, mtimes, now, state, shared, floor, cache>>
    BY <1>1, <1>3, <1>8 DEF Miss
  <2>1. CASE cache_size_ > Size /\ Victims(keys) # {}
    <3>1. PICK v \in Victims(keys) : Set(t, "key", v) /\ Step(t, "evict")
      BY <1>8, <2>1 DEF Miss
    <3>2. v \in Keys
      BY <1>0, <3>1 DEF Victims, Types
    <3>3. Goes(t, "evict") /\ op'[t].ret = op[t].ret
      BY <3>1, <3>2, SetGoes
    <3>4. RetAt(t)'
      BY <1>1, <2>0, <3>3, RetGoes
    <3> QED BY <1>1, <1>2, <2>0, <3>3, <3>4
  <2>2. CASE ~(cache_size_ > Size /\ Victims(keys) # {})
    <3>1. Goes(t, "ra") /\ op'[t].ret = "miss"
      BY <1>1, <1>8, <2>0, <2>2, AskGoes DEF Miss
    <3>2. RetAt(t)'
      BY <1>1, <3>1, RetGoes
    <3> QED BY <1>1, <1>2, <2>0, <3>1, <3>2
  <2> QED BY <2>1, <2>2
<1>9. CASE Evict(t)
  <2>0. Busy(t) /\ pc[t] \in ReadPcs
    BY <1>1, <1>9 DEF Evict, Busy
  <2>1. Goes(t, "ra") /\ op'[t].ret = "miss"
    BY <1>1, <1>9, <2>0, AskGoes DEF Evict
  <2>2. RetAt(t)'
    BY <1>1, <2>1, RetGoes
  <2> QED BY <1>1, <1>2, <1>9, <2>0, <2>1, <2>2 DEF Evict, remove_block
<1>10. CASE Emplace(t) \/ Count(t) \/ Touch(t)
  <2>0. /\ UNCHANGED <<file, mtimes, now, state, shared, floor>>
        /\ pc[t] \in {"emplace", "count", "touch"} /\ DOMAIN cache \subseteq DOMAIN cache'
    BY <1>10 DEF Emplace, Count, Touch
  <2>1. Ends(t) \/ \E next \in {"touch", "count", "loop"} : Step(t, next) /\ op' = op
    BY <1>0, <1>10, DoneEnds DEF Emplace, Count, Touch
  <2>2. ASSUME NEW next \in {"touch", "count", "loop"}, Step(t, next), op' = op
        PROVE  Goes(t, next) /\ RetAt(t)' /\ next \in ReadPcs
    <3>1. Goes(t, next)
      BY <2>2, StepGoes
    <3>2. op[t].ret # "refresh"
      BY <1>1, <1>3, <2>0
    <3>3. RetAt(t)'
      BY <1>1, <2>2, <3>1, <3>2, RetGoes
    <3> QED BY <1>1, <3>1, <3>3
  <2> QED BY <1>1, <1>2, <2>0, <2>1, <2>2
<1>11. ASSUME NEW bytes \in Seq(Nat), Returns(t, bytes), pc[t] \in RaPcs, cache' = cache
       PROVE  Ends(t) \/ \E next \in ReadPcs : Goes(t, next) /\ RetAt(t)'
  <2>0. Busy(t) /\ op[t].ret \in {"refresh", "miss", "direct"}
    BY <1>0, <1>1, <1>11 DEF RetAt, Busy, ReadPcs
  <2>1. CASE Ends(t)
    BY <2>1
  <2>2. CASE ~Ends(t)
    <3>0. /\ op[t].ret # "direct"
          /\ Goes(t, IF op[t].ret = "refresh" THEN "refreshed" ELSE "emplace")
          /\ SameBlock(t) /\ op'[t].ret = op[t].ret /\ op'[t].key = op[t].key
      BY <1>11, <2>2, ReturnsGoes
    <3>1. CASE op[t].ret = "refresh"
      <4>1. Goes(t, "refreshed")
        BY <3>0, <3>1
      <4>2. op[t].key = Block(t) /\ op[t].key \in DOMAIN cache
        BY <1>0, <2>0, <3>1 DEF RetAt
      <4>3. RetAt(t)'
        BY <1>1, <1>11, <3>0, <3>1, <4>1, <4>2, RetShared
      <4> QED BY <1>1, <4>1, <4>3
    <3>2. CASE op[t].ret = "miss"
      <4>1. Goes(t, "emplace")
        BY <1>1, <3>0, <3>2
      <4>2. RetAt(t)'
        BY <1>1, <3>0, <3>2, <4>1, RetGoes
      <4> QED BY <1>1, <4>1, <4>2
    <3> QED BY <2>0, <3>0, <3>1, <3>2
  <2> QED BY <2>1, <2>2
<1>12. ASSUME NEW next \in {"ra_remote", "ra_update", "lost"}, Goes(t, next), SameBlock(t),
              op'[t].ret = op[t].ret, op'[t].key = op[t].key, cache' = cache, pc[t] \in RaPcs
       PROVE  Goes(t, next) /\ RetAt(t)' /\ next \in ReadPcs
  <2>0. Busy(t) /\ op[t].ret \in {"refresh", "miss", "direct"}
    BY <1>0, <1>1, <1>12 DEF RetAt, Busy, ReadPcs
  <2>1. next \in ReadPcs \cap SharedPcs
    BY <1>1, <1>12 DEF SharedPcs
  <2>2. CASE op[t].ret = "refresh"
    <3>1. op[t].key = Block(t) /\ op[t].key \in DOMAIN cache
      BY <1>0, <2>0, <2>2 DEF RetAt
    <3>2. RetAt(t)'
      BY <1>12, <2>1, <2>2, <3>1, RetShared
    <3> QED BY <1>12, <2>1, <3>2
  <2>3. CASE op[t].ret # "refresh"
    <3>1. next \notin {"lock_block", "refreshed", "copy", "emplace"}
      BY <1>12
    <3>2. RetAt(t)'
      BY <1>12, <2>0, <2>3, <3>1, RetGoes
    <3> QED BY <1>12, <2>1, <3>2
  <2> QED BY <2>2, <2>3
<1>13. CASE RaRead(t)
  <2>0. /\ UNCHANGED <<file, mtimes, now, state, shared, floor, cache>>
        /\ pc[t] \in RaPcs /\ pc[t] \in ReadPcs /\ Busy(t)
    BY <1>1, <1>13 DEF RaRead, Busy
  <2>1. CASE \E next \in {"ra_remote", "lost"} : Step(t, next) /\ op' = op
    <3>1. PICK next \in {"ra_remote", "lost"} : Step(t, next) /\ op' = op
      BY <2>1
    <3>2. Goes(t, next) /\ SameBlock(t)
      BY <3>1, StepGoes
    <3>3. RetAt(t)' /\ next \in ReadPcs
      BY <1>12, <2>0, <3>1, <3>2
    <3> QED BY <1>2, <2>0, <3>2, <3>3
  <2>2. CASE /\ path(t) \in DOMAIN buffers /\ ra_hit(path(t), op[t].at, op[t].want)
             /\ Returns(t, ra_bytes(path(t), op[t].at, op[t].want))
    <3>1. ra_bytes(path(t), op[t].at, op[t].want) \in Seq(Nat)
      BY <2>0, <2>2, RaTypes
    <3> QED BY <1>2, <1>11, <2>0, <2>2, <3>1
  <2> QED BY <1>13, <2>1, <2>2 DEF RaRead
<1>14. CASE RaRemote(t)
  <2>0. /\ UNCHANGED <<file, mtimes, now, state, shared, floor, cache>>
        /\ pc[t] \in RaPcs /\ pc[t] \in ReadPcs /\ Busy(t)
    BY <1>1, <1>14 DEF RaRemote, Busy
  <2>1. ra_fetch(path(t), op[t].at, op[t].want) \in Seq(Nat)
    BY <2>0, RaTypes
  <2>2. /\ Goes(t, "ra_update") /\ SameBlock(t)
        /\ op'[t].ret = op[t].ret /\ op'[t].key = op[t].key
    BY <1>14, <2>1, SetGoes DEF RaRemote
  <2> QED BY <1>1, <1>2, <1>12, <2>0, <2>2
<1>15. CASE RaUpdate(t)
  <2>0. /\ UNCHANGED <<file, mtimes, now, state, shared, floor, cache>>
        /\ pc[t] \in RaPcs /\ pc[t] \in ReadPcs /\ Busy(t)
    BY <1>1, <1>15 DEF RaUpdate, Busy
  <2>1. Slice(op[t].bytes, 0, op[t].want) \in Seq(Nat)
    BY <2>0, RaTypes
  <2> QED BY <1>2, <1>11, <1>15, <2>0, <2>1 DEF RaUpdate
<1>16. CASE RaFails(t)
  <2>0. /\ UNCHANGED <<file, mtimes, now, state, shared, floor>> /\ pc[t] \in ReadPcs
    BY <1>1, <1>16 DEF RaFails
  <2>1. CASE op[t].ret = "refresh"
    <3>1. Goes(t, "drop") /\ op'[t].ret = "none"
      BY <1>16, <2>1, SetGoes DEF RaFails
    <3>2. DOMAIN cache \subseteq DOMAIN cache'
      BY <1>16, <2>1 DEF RaFails
    <3>3. RetAt(t)'
      BY <1>1, <3>1, RetGoes
    <3> QED BY <1>1, <1>2, <2>0, <3>1, <3>2, <3>3
  <2>2. CASE op[t].ret # "refresh"
    BY <1>0, <1>2, <1>16, <2>0, <2>2, DoneEnds DEF RaFails
  <2> QED BY <2>1, <2>2
<1> QED BY <1>4, <1>5, <1>6, <1>7, <1>8, <1>9, <1>10, <1>13, <1>14, <1>15, <1>16 DEF ReadStep

-----------------------------------------------------------------------------
(* Types.                                                                     *)

LEMMA KeysOf ==
  ASSUME NEW k
  PROVE  DOMAIN touch(keys, k) = DOMAIN keys \cup {k} /\ DOMAIN remove(keys, k) = DOMAIN keys \ {k}
BY DEF touch, remove

LEMMA Restricted ==
  ASSUME NEW f, NEW S, S \subseteq DOMAIN f
  PROVE  /\ DOMAIN Restrict(f, S) = S /\ \A x \in S : Restrict(f, S)[x] = f[x]
         /\ \A V : f \in [DOMAIN f -> V] => Restrict(f, S) \in [S -> V]
BY DEF Restrict

\* remove_block and the counter keep the size a number.
LEMMA SizeNat ==
  ASSUME cache_size_ \in Nat
  PROVE  (cache_size_ + SizeMod - 1) % SizeMod \in Nat /\ (cache_size_ + 1) % SizeMod \in Nat
BY ONLY cache_size_ \in Nat, DataCacheAssumption, SMT

LEMMA RemoveTypes ==
  ASSUME Types, NEW k, remove_block(k)
  PROVE  /\ cache' \in [DOMAIN cache' -> Blocks] /\ DOMAIN cache' = DOMAIN cache \ {k}
         /\ cache_size_' \in Nat /\ \A x \in DOMAIN cache' : cache'[x] = cache[x]
<1>1. cache \in [DOMAIN cache -> Blocks] /\ DOMAIN cache \ {k} \subseteq DOMAIN cache
  BY DEF Types
<1>2. cache' = Restrict(cache, DOMAIN cache \ {k})
  BY DEF remove_block
<1>3. DOMAIN cache' = DOMAIN cache \ {k} /\ cache' \in [DOMAIN cache \ {k} -> Blocks]
  BY <1>1, <1>2, Zenon DEF Restrict
<1>4. \A x \in DOMAIN cache \ {k} : cache'[x] = cache[x]
  BY <1>1, <1>2, Zenon DEF Restrict
<1>5. cache_size_' \in Nat
  BY SizeNat DEF remove_block, Types
<1> QED BY <1>3, <1>4, <1>5

-----------------------------------------------------------------------------
(* Base is inductive.                                                         *)

LEMMA CallBegins ==
  ASSUME Types, NEW t \in Threads, NEW h \in Handles, pc[t] = "idle", NEW next, Step(t, next),
         op' = [op EXCEPT ![t] = [NoOp EXCEPT !.h = h]]
  PROVE  Begins(t, h, next) /\ op'[t].ret = "none"
<1>1. op' \in [Threads -> OpRecs] /\ op'[t].h = h
  BY OpBegins
<1>2. op'[t] = [NoOp EXCEPT !.h = h]
  BY DEF Types
<1>3. LET q == [NoOp EXCEPT !.h = h] IN q.readed <= q.size /\ q.ret = "none"
  BY SMT DEF NoOp
<1> QED BY <1>1, <1>2, <1>3 DEF Begins, Others, Types, Step

LEMMA ReadBegins ==
  ASSUME Types, NEW t \in Threads, NEW h \in Handles, NEW r \in Reads, Read(t, h, r)
  PROVE  \/ /\ Begins(t, h, "loop") /\ op'[t].ret = "none"
            /\ PathOf[h] \in DOMAIN mtimes /\ op'[t].mtime = mtimes[PathOf[h]]
         \/ Begins(t, h, "ra") /\ op'[t].ret = "direct" /\ PathOf[h] \notin DOMAIN mtimes
<1>0. /\ r.offset \in Nat /\ r.size \in Nat /\ 0 \in Nat
      /\ PathOf[h] \in DOMAIN mtimes => mtimes[PathOf[h]] \in Nat
  <2>1. r \in [offset : Nat, size : Nat]
    BY DataCacheAssumption
  <2> QED BY <2>1, SMT DEF Types
<1> DEFINE o == [NoOp EXCEPT !.h = h, !.offset = r.offset, !.size = r.size]
<1>1. o \in OpRecs
  BY <1>0, NoOpRec DEF OpRecs
<1>2. o.h = h /\ o.readed = 0 /\ o.size = r.size /\ o.ret = "none"
  BY SMT DEF NoOp
<1> HIDE DEF o
<1>3. CASE PathOf[h] \in DOMAIN mtimes
  <2> DEFINE q == [o EXCEPT !.mtime = mtimes[PathOf[h]]]
  <2>1. q \in OpRecs
    BY <1>0, <1>1, <1>3 DEF OpRecs
  <2>2. q.h = h /\ q.readed = 0 /\ q.size = r.size /\ q.ret = "none" /\ q.mtime = mtimes[PathOf[h]]
    BY <1>1, <1>2, SMT DEF OpRecs
  <2>3. op' = [op EXCEPT ![t] = q] /\ Step(t, "loop") /\ pc[t] = "idle"
    BY <1>3 DEF Read, o
  <2> HIDE DEF q
  <2>4. op' \in [Threads -> OpRecs] /\ op'[t] = q /\ \A u \in Threads : u # t => op'[u] = op[u]
    BY <2>1, <2>3 DEF Types
  <2>5. 0 <= r.size
    BY <1>0, SMT
  <2> QED BY <1>3, <2>2, <2>3, <2>4, <2>5 DEF Begins, Others, Types, Step
<1>4. CASE PathOf[h] \notin DOMAIN mtimes
  <2> DEFINE q == [o EXCEPT !.ret = "direct", !.at = r.offset, !.want = r.size]
  <2>1. q \in OpRecs
    BY <1>0, <1>1 DEF OpRecs, Rets
  <2>2. q.h = h /\ q.readed = 0 /\ q.size = r.size /\ q.ret = "direct"
    BY <1>1, <1>2, SMT DEF OpRecs
  <2>3. op' = [op EXCEPT ![t] = q] /\ Step(t, "ra") /\ pc[t] = "idle"
    BY <1>4 DEF Read, o
  <2> HIDE DEF q
  <2>4. op' \in [Threads -> OpRecs] /\ op'[t] = q /\ \A u \in Threads : u # t => op'[u] = op[u]
    BY <2>1, <2>3 DEF Types
  <2>5. 0 <= r.size
    BY <1>0, SMT
  <2> QED BY <1>4, <2>2, <2>3, <2>4, <2>5 DEF Begins, Others, Types, Step
<1> QED BY <1>3, <1>4

\* A call that fetches the attributes.
LEMMA AttrGoes ==
  ASSUME Base, NEW t \in Threads, OpenAttr(t)
  PROVE  /\ pc'[t] = "open_store" /\ DOMAIN pc' = Threads /\ op' \in [Threads -> OpRecs]
         /\ Others(t) /\ op'[t].h = op[t].h /\ op'[t].mtime = file[path(t)].ver
         /\ op'[t].ret = op[t].ret /\ op'[t].readed <= op'[t].size
<1>0. Types /\ HandleInv /\ RetAt(t) /\ Busy(t)
  BY DEF Base, RetInv, OpenAttr, Busy
<1>1. file[path(t)].ver \in Nat
  <2>1. file[path(t)] \in [ver : Nat, len : Nat]
    BY <1>0, BlockKey DEF Types
  <2> QED BY <2>1
<1>2. Set(t, "mtime", file[path(t)].ver) /\ Step(t, "open_store")
  BY DEF OpenAttr
<1>3. /\ op' \in [Threads -> OpRecs] /\ op'[t].mtime = file[path(t)].ver /\ op'[t].h = op[t].h
      /\ op'[t].ret = op[t].ret /\ op'[t].size = op[t].size /\ op'[t].readed = op[t].readed
  BY <1>0, <1>1, <1>2, OpMtime
<1> QED BY <1>0, <1>2, <1>3 DEF Set, Step, Others, Types, RetAt

LEMMA Labels ==
  /\ \A l \in ReadPcs : StateAt(l) = "open" /\ l # "idle"
  /\ {"open_attr", "open_store", "release"} \cap (ReadPcs \cup {"idle"}) = {}
  /\ "loop" \in ReadPcs /\ "ra" \in ReadPcs /\ "ra" \in RaPcs
  /\ StateAt("open_attr") = "opening" /\ StateAt("open_store") = "opening"
  /\ StateAt("release") = "releasing"
  /\ "closed" # "opening" /\ "closed" # "releasing" /\ "closed" # "open" /\ "open" # "opening"
  /\ "open" # "releasing" /\ "opening" # "releasing"
  /\ {"open_attr", "open_store", "release", "loop", "idle"}
       \cap ({"lock_block", "refreshed", "copy", "emplace"} \cup RaPcs) = {}
  /\ "none" # "refresh" /\ "direct" # "refresh" /\ "ra" \notin {"lock_block", "refreshed", "copy", "emplace"}
BY SMT DEF ReadPcs, RaPcs, StateAt

\* The state of a handle is not closed while a call is on it.
LEMMA StateOf ==
  ASSUME HandleInv, NEW t \in Threads, Busy(t)
  PROVE  /\ op[t].h \in Handles /\ state[op[t].h] # "closed"
         /\ state[op[t].h] = "open" <=> pc[t] \in ReadPcs
<1>1. /\ op[t].h \in Handles /\ state[op[t].h] = StateAt(pc[t])
      /\ pc[t] \in ReadPcs \cup {"open_attr", "open_store", "release"}
  BY DEF HandleInv
<1>2. CASE pc[t] \in ReadPcs
  BY <1>1, <1>2, Labels
<1>3. CASE pc[t] \in {"open_attr", "open_store", "release"}
  <2>1. StateAt(pc[t]) \in {"opening", "releasing"} /\ pc[t] \notin ReadPcs
    BY <1>3, Labels
  <2> QED BY <1>1, <2>1, Labels
<1> QED BY <1>1, <1>2, <1>3

\* A call that is not a read has its handle for itself.
LEMMA AloneOn ==
  ASSUME HandleInv, NEW t \in Threads, pc[t] \in {"open_attr", "open_store", "release"},
         NEW u \in Threads, u # t, Busy(u)
  PROVE  op[u].h # op[t].h
<1>1. Busy(t) /\ pc[t] \notin ReadPcs
  BY Labels DEF Busy
<1> QED BY <1>1 DEF HandleInv

LEMMA BaseInit == Init => Base
<1> SUFFICES ASSUME Init PROVE Base
  OBVIOUS
<1>0. 0 \in Nat /\ 1 \in Nat
  BY SMT
<1>1. \A t \in Threads : pc[t] = "idle" /\ op[t] = NoOp
  BY DEF Init
<1>2. Types
  <2>1. op \in [Threads -> OpRecs]
    BY NoOpRec DEF Init
  <2>2. file \in [Paths -> [ver : Nat, len : Nat]]
    BY <1>0, DataCacheAssumption DEF Init
  <2> QED BY <1>0, <2>1, <2>2 DEF Types, Init, NoKeys, NoBuffers
<1>3. HandleInv
  BY <1>1 DEF HandleInv, Busy
<1>4. RetInv
  <2>1. NoOp.readed <= NoOp.size
    BY SMT DEF NoOp
  <2> QED BY <1>1, <2>1, Labels DEF RetInv, RetAt, Busy
<1> QED BY <1>2, <1>3, <1>4 DEF Base

LEMMA BaseNext == Base /\ [Next]_vars => Base'
  <1>RetOthers.
      ASSUME Base, NEW t \in Threads, Others(t), DOMAIN cache \subseteq DOMAIN cache' \/ Sharing = {},
             NEW u \in Threads, u # t
      PROVE  RetAt(u)'
    <2> USE <1>RetOthers
    <2>1. pc'[u] = pc[u] /\ op'[u] = op[u] /\ Block(u)' = Block(u) /\ RetAt(u)
      BY DEF Others, Block, Seeker, path, Base, RetInv
    <2>2. Busy(u) /\ op[u].ret = "refresh" => op[u].key \in DOMAIN cache'
      BY <2>1 DEF RetAt, Sharing, Busy
    <2> QED BY <2>1, <2>2 DEF RetAt, Busy
  <1>RetStep.
      ASSUME Base, NEW t \in Threads, Others(t), RetAt(t)',
             DOMAIN cache \subseteq DOMAIN cache' \/ Sharing = {}
      PROVE  RetInv'
    BY <1>RetStep, <1>RetOthers DEF RetInv
  \* A block that is read.
  <1>NewBlock.
      ASSUME NEW new \in Seq(Nat), NEW old \in [1 .. BlockSize -> Nat], NEW m \in Nat, NEW ts \in Nat
      PROVE  [bytes |-> [i \in 1 .. BlockSize |-> IF i <= Len(new) THEN new[i] ELSE old[i]],
              size |-> Len(new), mtime |-> m, ts |-> ts] \in Blocks
    <2> USE <1>NewBlock
    <2>1. Len(new) \in Nat /\ \A i \in 1 .. BlockSize : i <= Len(new) => new[i] \in Nat
      BY DataCacheAssumption, SMT
    <2> QED BY <2>1 DEF Blocks
  <1>ReadTypes.
      ASSUME Base, NEW t \in Threads, ReadStep(t)
      PROVE  CacheTypes'
    <2> USE <1>ReadTypes
    <2>0. Types /\ HandleInv /\ RetAt(t) /\ CacheTypes /\ op[t] \in OpRecs
      BY DEF Base, RetInv, CacheTypes, Types
    <2>1. op[t].key \in Keys /\ op[t].bytes \in Seq(Nat) /\ op[t].mtime \in Nat /\ now \in Nat
          /\ op[t].at \in Nat
      BY <2>0 DEF OpRecs, Types
    <2>2. CASE Hit(t) \/ CopyRefreshed(t) \/ Invalid(t) \/ LockBlock(t) \/ RaRead(t) \/ RaRemote(t)
      BY <2>0, <2>2 DEF Hit, CopyRefreshed, Copy, Invalid, LockBlock, RaRead, RaRemote, CacheTypes
    <2>3. ASSUME pc[t] = "refreshed" \/ (pc[t] = "ra_remote" /\ op[t].ret = "refresh")
          PROVE  op[t].key \in DOMAIN cache /\ cache[op[t].key] \in Blocks
      <3>1. op[t].ret = "refresh" /\ Busy(t)
        BY <2>0, <2>3 DEF RetAt, Busy
      <3> QED BY <2>0, <3>1 DEF RetAt, Types
    <2>4. CASE Refreshed(t)
      <3> DEFINE old == cache[op[t].key].bytes
                 b == [bytes |-> [i \in 1 .. BlockSize |->
                                    IF i <= Len(op[t].bytes) THEN op[t].bytes[i] ELSE old[i]],
                       size |-> Len(op[t].bytes), mtime |-> op[t].mtime, ts |-> now]
      <3>1. op[t].key \in DOMAIN cache /\ cache[op[t].key] \in Blocks
        BY <2>3, <2>4 DEF Refreshed
      <3>2. old \in [1 .. BlockSize -> Nat]
        BY <3>1 DEF Blocks
      <3>3. b \in Blocks
        BY <2>1, <3>2, <1>NewBlock
      <3>4. cache' = [cache EXCEPT ![op[t].key] = b]
        BY <2>4, <3>1 DEF Refreshed
      <3> HIDE DEF b
      <3>5. cache' \in [DOMAIN cache' -> Blocks] /\ DOMAIN cache' = DOMAIN cache
        BY <2>0, <3>1, <3>3, <3>4 DEF Types
      <3> QED BY <2>0, <2>4, <3>5 DEF Refreshed, CacheTypes
    <2>5. CASE DropBlock(t) \/ Evict(t)
      <3>1. UNCHANGED <<keys, buffers>> /\ remove_block(op[t].key)
        BY <2>5 DEF DropBlock, Evict
      <3> QED BY <2>0, <3>1, RemoveTypes DEF CacheTypes
    <2>6. CASE Forget(t) \/ Touch(t) \/ Miss(t)
      <3>1. UNCHANGED <<cache, cache_size_, buffers>>
        BY <2>6 DEF Forget, Touch, Miss
      <3>2. DOMAIN keys' \subseteq DOMAIN keys \cup {op[t].key}
        BY <2>6, KeysOf DEF Forget, Touch, Miss
      <3> QED BY <2>0, <2>1, <3>1, <3>2 DEF CacheTypes
    <2>7. CASE Count(t)
      BY <2>0, <2>7, SizeNat DEF Count, CacheTypes
    <2>8. CASE Emplace(t)
      <3> DEFINE zero == [i \in 1 .. BlockSize |-> 0]
                 b == [bytes |-> [i \in 1 .. BlockSize |->
                                    IF i <= Len(op[t].bytes) THEN op[t].bytes[i] ELSE zero[i]],
                       size |-> Len(op[t].bytes), mtime |-> op[t].mtime, ts |-> now]
                 k == op[t].key
      <3>1. zero \in [1 .. BlockSize -> Nat]
        BY SMT
      <3>2. b \in Blocks
        BY <2>1, <3>1, <1>NewBlock
      <3>3. cache' = cache \/ cache' = [x \in DOMAIN cache \cup {k} |->
                                          IF x # k THEN cache[x] ELSE b]
        BY <2>8 DEF Emplace
      <3> HIDE DEF b
      <3>4. cache' \in [DOMAIN cache' -> Blocks] /\ DOMAIN cache' \subseteq Keys
        BY <2>0, <2>1, <3>2, <3>3 DEF Types
      <3> QED BY <2>0, <2>8, <3>4 DEF Emplace, CacheTypes
    <2>9. CASE RaUpdate(t)
      <3>1. [set |-> TRUE, offset |-> op[t].at, bytes |-> op[t].bytes] \in Buffers
        BY <2>1 DEF Buffers
      <3>2. buffers' \in [DOMAIN buffers' -> Buffers]
        BY <2>0, <2>9, <3>1 DEF RaUpdate, ra_update, Types
      <3> QED BY <2>0, <2>9, <3>2 DEF RaUpdate, CacheTypes
    <2>10. CASE RaFails(t)
      <3>1. CASE op[t].ret # "refresh"
        BY <2>0, <2>10, <3>1 DEF RaFails, CacheTypes
      <3>2. CASE op[t].ret = "refresh"
        <4> DEFINE k == op[t].key
                   b == [cache[k] EXCEPT !.size = Huge, !.mtime = op[t].mtime, !.ts = now]
        <4>1. k \in DOMAIN cache /\ cache[k] \in Blocks
          BY <2>3, <2>10, <3>2 DEF RaFails
        <4>2. Huge \in Nat
          BY SMT DEF Huge
        <4>3. b \in Blocks
          BY <2>1, <4>1, <4>2 DEF Blocks
        <4>4. cache' = [cache EXCEPT ![k] = b]
          BY <2>10, <3>2, <4>1 DEF RaFails
        <4> HIDE DEF b
        <4>5. cache' \in [DOMAIN cache' -> Blocks] /\ DOMAIN cache' = DOMAIN cache
          BY <2>0, <4>1, <4>3, <4>4 DEF Types
        <4> QED BY <2>0, <2>10, <4>5 DEF RaFails, CacheTypes
      <3> QED BY <3>1, <3>2
    <2> QED BY <2>2, <2>4, <2>5, <2>6, <2>7, <2>8, <2>9, <2>10 DEF ReadStep
  \* What a step must show of its own thread, and of the handles it leaves to others.
  <1>HandleStep.
      ASSUME Base, NEW t \in Threads, Others(t),
             pc'[t] # "idle" => /\ op'[t].h \in Handles /\ state'[op'[t].h] = StateAt(pc'[t])
                                /\ pc'[t] \in ReadPcs \cup {"open_attr", "open_store", "release"},
             \A u \in Threads : u # t /\ Busy(u) =>
               /\ state'[op[u].h] = state[op[u].h]
               /\ pc'[t] # "idle" /\ op'[t].h = op[u].h => pc'[t] \in ReadPcs /\ pc[u] \in ReadPcs
      PROVE  HandleInv'
    <2> USE <1>HandleStep
    <2>1. ASSUME NEW u \in Threads, pc'[u] # "idle"
          PROVE  /\ op'[u].h \in Handles /\ state'[op'[u].h] = StateAt(pc'[u])
                 /\ pc'[u] \in ReadPcs \cup {"open_attr", "open_store", "release"}
      <3>1. CASE u = t
        BY <2>1, <3>1
      <3>2. CASE u # t
        BY <2>1, <3>2 DEF Others, Base, HandleInv, Busy
      <3> QED BY <3>1, <3>2
    <2>2. ASSUME NEW u \in Threads, NEW w \in Threads, u # w, pc'[u] # "idle", pc'[w] # "idle",
                 op'[u].h = op'[w].h
          PROVE  pc'[u] \in ReadPcs /\ pc'[w] \in ReadPcs
      <3>1. CASE u = t
        BY <2>2, <3>1 DEF Others, Busy
      <3>2. CASE w = t
        BY <2>2, <3>2 DEF Others, Busy
      <3>3. CASE u # t /\ w # t
        <4>1. pc'[u] = pc[u] /\ pc'[w] = pc[w] /\ op'[u] = op[u] /\ op'[w] = op[w]
          BY <3>3 DEF Others
        <4>2. Busy(u) /\ Busy(w) /\ op[u].h = op[w].h
          BY <2>2, <4>1 DEF Busy
        <4> QED BY <2>2, <4>1, <4>2 DEF Base, HandleInv
      <3> QED BY <3>1, <3>2, <3>3
    <2> QED BY <2>1, <2>2 DEF HandleInv, Busy
  \* A thread that is on no block.
  <1>RetNone.
      ASSUME NEW t \in Threads, op'[t].readed <= op'[t].size, op'[t].ret # "refresh",
             \/ pc'[t] \in {"open_attr", "open_store", "release", "loop", "idle"}
             \/ pc'[t] = "ra" /\ op'[t].ret = "direct"
      PROVE  RetAt(t)'
    BY <1>RetNone, Labels DEF RetAt
  <1>BaseOpen.
      ASSUME Base, NEW t \in Threads, NEW h \in Handles, Open(t, h)
      PROVE  Base'
    <2> USE <1>BaseOpen
    <2>0. Types /\ HandleInv /\ PathOf[h] \in Paths
      BY DataCacheAssumption DEF Base
    <2>1. Begins(t, h, "open_attr") /\ op'[t].ret = "none"
      BY <2>0, CallBegins DEF Open
    <2>2. /\ state' = [state EXCEPT ![h] = "opening"] /\ state[h] = "closed"
          /\ UNCHANGED <<file, cache, keys, cache_size_, mtimes, now>>
      BY DEF Open
    <2>3. DOMAIN state' = Handles /\ state'[h] = "opening" /\ \A g \in Handles : g # h => state'[g] = state[g]
      BY <2>0, <2>2 DEF Types
    <2>4. HandleInv'
      <3>1. /\ op'[t].h \in Handles /\ state'[op'[t].h] = StateAt(pc'[t])
            /\ pc'[t] \in ReadPcs \cup {"open_attr", "open_store", "release"}
        BY <2>1, <2>3, Labels DEF Begins
      <3>2. ASSUME NEW u \in Threads, u # t, Busy(u)
            PROVE  state'[op[u].h] = state[op[u].h] /\ op'[t].h # op[u].h
        <4>1. op[u].h \in Handles /\ op[u].h # h
          BY <2>0, <2>2, <3>2, StateOf
        <4> QED BY <2>1, <2>3, <4>1 DEF Begins
      <3> QED BY <2>1, <3>1, <3>2, <1>HandleStep DEF Begins
    <2>5. RetInv'
      <3>1. RetAt(t)'
        BY <2>1, Labels, <1>RetNone DEF Begins
      <3> QED BY <2>1, <2>2, <3>1, <1>RetStep DEF Begins
    <2>6. floor' \in [Handles -> Nat]
      <3>1. file[PathOf[h]].ver \in Nat
        <4>1. file[PathOf[h]] \in [ver : Nat, len : Nat]
          BY <2>0 DEF Types
        <4> QED BY <4>1
      <3> QED BY <2>0, <3>1 DEF Open, Types
    <2>7. buffers' \in [DOMAIN buffers' -> Buffers]
      <3>1. NoBuffer \in Buffers
        <4>1. 0 \in Nat /\ <<>> \in Seq(Nat)
          BY SMT
        <4> QED BY <4>1 DEF NoBuffer, Buffers
      <3> QED BY <2>0, <3>1 DEF Open, ra_open, Types
    <2> QED BY <2>0, <2>1, <2>2, <2>3, <2>4, <2>5, <2>6, <2>7 DEF Base, Types, Begins
  <1>BaseRelease.
      ASSUME Base, NEW t \in Threads, NEW h \in Handles, Release(t, h)
      PROVE  Base'
    <2> USE <1>BaseRelease
    <2>0. Types /\ HandleInv
      BY DEF Base
    <2>1. Begins(t, h, "release") /\ op'[t].ret = "none"
      BY <2>0, CallBegins DEF Release
    <2>2. /\ state' = [state EXCEPT ![h] = "releasing"]
          /\ \A u \in Threads : Busy(u) => op[u].h # h
          /\ UNCHANGED <<file, cache, keys, cache_size_, now, floor, buffers>>
      BY DEF Release, Busy
    <2>3. DOMAIN state' = Handles /\ state'[h] = "releasing" /\ \A g \in Handles : g # h => state'[g] = state[g]
      BY <2>0, <2>2 DEF Types
    <2>4. HandleInv'
      <3>1. /\ op'[t].h \in Handles /\ state'[op'[t].h] = StateAt(pc'[t])
            /\ pc'[t] \in ReadPcs \cup {"open_attr", "open_store", "release"}
        BY <2>1, <2>3, Labels DEF Begins
      <3>2. ASSUME NEW u \in Threads, u # t, Busy(u)
            PROVE  state'[op[u].h] = state[op[u].h] /\ op'[t].h # op[u].h
        <4>1. op[u].h \in Handles /\ op[u].h # h
          BY <2>0, <2>2, <3>2, StateOf
        <4> QED BY <2>1, <2>3, <4>1 DEF Begins
      <3> QED BY <2>1, <3>1, <3>2, <1>HandleStep DEF Begins
    <2>5. RetInv'
      <3>1. RetAt(t)'
        BY <2>1, Labels, <1>RetNone DEF Begins
      <3> QED BY <2>1, <2>2, <3>1, <1>RetStep DEF Begins
    <2>6. mtimes' \in [DOMAIN mtimes' -> Nat]
      <3>1. DOMAIN mtimes \ {PathOf[h]} \subseteq DOMAIN mtimes /\ mtimes \in [DOMAIN mtimes -> Nat]
        BY <2>0 DEF Types
      <3>2. mtimes' = Restrict(mtimes, DOMAIN mtimes \ {PathOf[h]})
        BY DEF Release
      <3> QED BY <3>1, <3>2, Restricted
    <2> QED BY <2>0, <2>1, <2>2, <2>3, <2>4, <2>5, <2>6 DEF Base, Types, Begins
  <1>BaseRead.
      ASSUME Base, NEW t \in Threads, NEW h \in Handles, NEW r \in Reads, Read(t, h, r)
      PROVE  Base'
    <2> USE <1>BaseRead
    <2>0. Types /\ HandleInv
      BY DEF Base
    <2>1. PICK next \in {"loop", "ra"} :
            Begins(t, h, next) /\ op'[t].ret # "refresh" /\ (next = "ra" => op'[t].ret = "direct")
      BY <2>0, ReadBegins, Labels
    <2>2. /\ state[h] = "open"
          /\ UNCHANGED <<state, file, cache, keys, cache_size_, mtimes, now, floor, buffers>>
      BY DEF Read
    <2>3. HandleInv'
      <3>1. /\ op'[t].h \in Handles /\ state'[op'[t].h] = StateAt(pc'[t]) /\ pc'[t] \in ReadPcs
        BY <2>1, <2>2, Labels DEF Begins
      <3>2. ASSUME NEW u \in Threads, u # t, Busy(u)
            PROVE  state'[op[u].h] = state[op[u].h] /\ (op'[t].h = op[u].h => pc[u] \in ReadPcs)
        BY <2>0, <2>1, <2>2, <3>2, StateOf DEF Begins
      <3> QED BY <2>1, <3>1, <3>2, <1>HandleStep DEF Begins
    <2>4. RetInv'
      <3>1. RetAt(t)'
        BY <2>1, Labels, <1>RetNone DEF Begins
      <3> QED BY <2>1, <2>2, <3>1, <1>RetStep DEF Begins
    <2> QED BY <2>0, <2>1, <2>2, <2>3, <2>4 DEF Base, Types, Begins
  <1>BaseAttr.
      ASSUME Base, NEW t \in Threads, OpenAttr(t)
      PROVE  Base'
    <2> USE <1>BaseAttr
    <2>0. Types /\ HandleInv /\ RetAt(t) /\ pc[t] = "open_attr" /\ Busy(t)
      BY DEF Base, RetInv, OpenAttr, Busy
    <2>1. /\ pc'[t] = "open_store" /\ DOMAIN pc' = Threads /\ op' \in [Threads -> OpRecs]
          /\ Others(t) /\ op'[t].h = op[t].h /\ op'[t].ret = op[t].ret
          /\ op'[t].readed <= op'[t].size
      BY AttrGoes
    <2>2. UNCHANGED <<state, file, cache, keys, cache_size_, mtimes, now, floor, buffers>>
      BY DEF OpenAttr
    <2>3. HandleInv'
      <3>1. op[t].h \in Handles /\ state[op[t].h] = "opening"
        BY <2>0, Labels DEF HandleInv
      <3>2. /\ op'[t].h \in Handles /\ state'[op'[t].h] = StateAt(pc'[t])
            /\ pc'[t] \in ReadPcs \cup {"open_attr", "open_store", "release"}
        BY <2>1, <2>2, <3>1, Labels
      <3>3. ASSUME NEW u \in Threads, u # t, Busy(u)
            PROVE  state'[op[u].h] = state[op[u].h] /\ op'[t].h # op[u].h
        BY <2>0, <2>1, <2>2, <3>3, AloneOn
      <3> QED BY <2>1, <3>2, <3>3, <1>HandleStep
    <2>4. RetInv'
      <3>1. op[t].ret # "refresh"
        <4>1. "open_attr" \notin SharedPcs
          BY SMT DEF SharedPcs, RaPcs
        <4> QED BY <2>0, <4>1 DEF RetAt
      <3>2. RetAt(t)'
        BY <2>1, <3>1, <1>RetNone
      <3> QED BY <2>1, <2>2, <3>2, <1>RetStep
    <2> QED BY <2>0, <2>1, <2>2, <2>3, <2>4 DEF Base, Types
  \* A call that ends with another state of its handle.
  <1>BaseEnds.
      ASSUME Base, NEW t \in Threads, OpenFails(t) \/ OpenStore(t) \/ ReleaseNext(t)
      PROVE  Base'
    <2> USE <1>BaseEnds
    <2>0. /\ Types /\ HandleInv /\ Ends(t)
          /\ pc[t] \in {"open_attr", "open_store", "release"} /\ Busy(t)
      BY DoneEnds DEF Base, OpenFails, OpenStore, ReleaseNext, Busy
    <2>1. UNCHANGED <<file, cache, keys, cache_size_, now>>
      BY DEF OpenFails, OpenStore, ReleaseNext
    <2>2. /\ DOMAIN state' = Handles
          /\ \A g \in Handles : g # op[t].h => state'[g] = state[g]
      BY <2>0 DEF Types, OpenFails, OpenStore, ReleaseNext
    <2>3. HandleInv'
      <3>1. ASSUME NEW u \in Threads, u # t, Busy(u)
            PROVE  state'[op[u].h] = state[op[u].h]
        <4>1. op[u].h \in Handles /\ op[u].h # op[t].h
          BY <2>0, <3>1, AloneOn, StateOf
        <4> QED BY <2>2, <4>1
      <3> QED BY <2>0, <3>1, <1>HandleStep DEF Ends
    <2>4. RetInv'
      BY <2>0, <2>1, RetEnds, <1>RetStep DEF Ends
    <2>5. op[t] \in OpRecs /\ op[t].mtime \in Nat /\ 0 \in Nat
      <3>1. op[t] \in OpRecs /\ 0 \in Nat
        BY <2>0, SMT DEF Types
      <3> QED BY <3>1 DEF OpRecs
    <2>6. floor' \in [Handles -> Nat]
      <3>1. floor' = floor \/ floor' = [floor EXCEPT ![op[t].h] = 0]
        BY DEF OpenFails, OpenStore, ReleaseNext
      <3> QED BY <2>0, <2>5, <3>1 DEF Types
    <2>7. mtimes' \in [DOMAIN mtimes' -> Nat]
      <3>1. \/ mtimes' = mtimes
            \/ mtimes' = [p \in DOMAIN mtimes \cup {path(t)} |->
                            IF p = path(t) THEN op[t].mtime ELSE mtimes[p]]
        BY DEF OpenFails, OpenStore, ReleaseNext
      <3> QED BY <2>0, <2>5, <3>1 DEF Types
    <2>8. buffers' \in [DOMAIN buffers' -> Buffers]
      <3>1. buffers' = buffers \/ buffers' = Restrict(buffers, DOMAIN buffers \ {path(t)})
        BY DEF OpenFails, OpenStore, ReleaseNext, ra_release
      <3>2. DOMAIN buffers \ {path(t)} \subseteq DOMAIN buffers /\ buffers \in [DOMAIN buffers -> Buffers]
        BY <2>0 DEF Types
      <3>3. CASE buffers' = Restrict(buffers, DOMAIN buffers \ {path(t)})
        BY <3>2, <3>3, Restricted
      <3> QED BY <3>1, <3>2, <3>3
    <2> QED BY <2>0, <2>1, <2>2, <2>3, <2>4, <2>6, <2>7, <2>8 DEF Base, Types, Ends
  <1>BaseReadStep.
      ASSUME Base, NEW t \in Threads, ReadStep(t)
      PROVE  Base'
    <2> USE <1>BaseReadStep
    <2>0. Types /\ HandleInv /\ ReadsOn(t) /\ CacheTypes'
      BY ReadGoes, <1>ReadTypes DEF Base
    <2>1. DOMAIN pc' = Threads /\ op' \in [Threads -> OpRecs] /\ Others(t)
          /\ (pc'[t] # "idle" => pc'[t] \in ReadPcs /\ op'[t].h = op[t].h)
      BY <2>0 DEF ReadsOn, Ends, Goes
    <2>2. HandleInv'
      <3>0. pc[t] \in ReadPcs /\ Busy(t) /\ state' = state
        BY <2>0, Labels DEF ReadsOn, Busy
      <3>1. pc'[t] # "idle" => /\ op'[t].h \in Handles /\ state'[op'[t].h] = StateAt(pc'[t])
                               /\ pc'[t] \in ReadPcs \cup {"open_attr", "open_store", "release"}
        BY <2>0, <2>1, <3>0, StateOf, Labels
      <3>2. ASSUME NEW u \in Threads, u # t, Busy(u)
            PROVE  /\ state'[op[u].h] = state[op[u].h]
                   /\ pc'[t] # "idle" /\ op'[t].h = op[u].h => pc'[t] \in ReadPcs /\ pc[u] \in ReadPcs
        BY <2>0, <2>1, <3>0, <3>2 DEF HandleInv
      <3> QED BY <2>1, <3>1, <3>2, <1>HandleStep
    <2>3. RetInv'
      BY <2>0, <2>1, <1>RetStep DEF ReadsOn
    <2> QED BY <2>0, <2>1, <2>2, <2>3 DEF Base, Types, CacheTypes, ReadsOn
  \* A step of the world: no thread moves.
  <1>BaseWorld.
      ASSUME Base, Tick \/ (\E p \in Paths : Change(p)) \/ UNCHANGED vars
      PROVE  Base'
    <2> USE <1>BaseWorld
    <2>0. Types /\ HandleInv /\ RetInv
      BY DEF Base
    <2>1. UNCHANGED <<cache, keys, cache_size_, mtimes, state, pc, op, floor, buffers>>
      BY DEF Tick, Change, vars
    <2>2. HandleInv' /\ RetInv'
      BY <2>0, <2>1 DEF HandleInv, RetInv, RetAt, Busy, Block, Seeker, path
    <2>3. now' \in Nat
      <3>1. now \in Nat
        BY <2>0 DEF Types
      <3>2. now + 1 \in Nat
        BY <3>1, SMT
      <3> QED BY <3>1, <3>2 DEF Tick, Change, vars
    <2>4. file' \in [Paths -> [ver : Nat, len : Nat]]
      <3>1. CASE \E p \in Paths : Change(p)
        <4>1. PICK p \in Paths : Change(p)
          BY <3>1
        <4>2. PICK n \in Lens : file' = [file EXCEPT ![p] = [ver |-> @.ver + 1, len |-> n]]
          BY <4>1 DEF Change
        <4>3. file[p] \in [ver : Nat, len : Nat] /\ n \in Nat
          BY <2>0, DataCacheAssumption DEF Types
        <4>4. file[p].ver + 1 \in Nat
          BY <4>3, SMT
        <4>5. [ver |-> file[p].ver + 1, len |-> n] \in [ver : Nat, len : Nat]
          BY <4>3, <4>4
        <4> QED BY <2>0, <4>2, <4>5 DEF Types
      <3>2. CASE file' = file
        BY <2>0, <3>2 DEF Types
      <3> QED BY <3>1, <3>2 DEF Tick, vars
    <2> QED BY <2>0, <2>1, <2>2, <2>3, <2>4 DEF Base, Types
  <1> QED
    BY <1>BaseOpen, <1>BaseRelease, <1>BaseRead, <1>BaseAttr, <1>BaseEnds, <1>BaseReadStep, <1>BaseWorld DEF Next

-----------------------------------------------------------------------------
(* Read-ahead finds its buffer.                                               *)

LEMMA AloneInit == Init => AloneInv
BY DEF Init, AloneInv, Used, BufferThere

LEMMA AloneNext == Base /\ AloneInv /\ [Next]_vars => AloneInv'
<1> SUFFICES ASSUME Base, AloneInv, [Next]_vars PROVE AloneInv'
  OBVIOUS
<1>0. Types /\ HandleInv
  BY DEF Base
<1>1. ASSUME UNCHANGED <<state, shared, dangling>>, DOMAIN buffers' = DOMAIN buffers
      PROVE  AloneInv'
  BY <1>1 DEF AloneInv, Used, BufferThere
<1>2. ASSUME NEW t \in Threads, NEW h \in Handles, Open(t, h)
      PROVE  AloneInv'
  <2>1. /\ dangling' = dangling /\ state[h] = "closed" /\ shared \subseteq shared'
        /\ InUse(PathOf[h]) # {} => PathOf[h] \in shared'
    BY <1>2 DEF Open
  <2>2. \A g \in Handles : g # h => state'[g] = state[g]
    BY <1>0, <1>2 DEF Open, Types
  <2>3. DOMAIN buffers' = DOMAIN buffers \cup {PathOf[h]}
    BY <1>2 DEF Open, ra_open
  <2>4. ASSUME NEW g \in Handles, NEW f \in Handles, Used(g)', Used(f)', g # f, PathOf[g] = PathOf[f]
        PROVE  PathOf[g] \in shared'
    <3>1. CASE g # h /\ f # h
      BY <2>1, <2>2, <2>4, <3>1 DEF AloneInv, Used
    <3>2. CASE g = h
      <4>1. f \in InUse(PathOf[h])
        BY <2>2, <2>4, <3>2 DEF Used, InUse
      <4> QED BY <2>1, <3>2, <4>1
    <3>3. CASE f = h
      <4>1. g \in InUse(PathOf[h])
        BY <2>2, <2>4, <3>3 DEF Used, InUse
      <4> QED BY <2>1, <2>4, <3>3, <4>1
    <3> QED BY <3>1, <3>2, <3>3
  <2>5. ASSUME NEW g \in Handles, Used(g)' PROVE PathOf[g] \in DOMAIN buffers' \cup shared'
    BY <2>1, <2>2, <2>3, <2>5 DEF AloneInv, Used
  <2> QED BY <2>1, <2>4, <2>5 DEF AloneInv, BufferThere
<1>3. ASSUME NEW t \in Threads, OpenFails(t) \/ OpenStore(t) \/ ReleaseNext(t)
      PROVE  AloneInv'
  <2>0. /\ Busy(t) /\ op[t].h \in Handles /\ Used(op[t].h)
        /\ UNCHANGED <<shared, dangling>> /\ path(t) = PathOf[op[t].h]
    <3>1. Busy(t)
      BY <1>3 DEF OpenFails, OpenStore, ReleaseNext, Busy
    <3> QED BY <1>0, <1>3, <3>1, StateOf DEF OpenFails, OpenStore, ReleaseNext, Used, path
  <2>1. \A g \in Handles : g # op[t].h => state'[g] = state[g]
    BY <1>0, <1>3 DEF OpenFails, OpenStore, ReleaseNext, Types
  <2>2. \A g \in Handles : Used(g)' => Used(g)
    BY <2>0, <2>1 DEF Used
  <2>3. \/ buffers' = buffers
        \/ state'[op[t].h] = "closed" /\ DOMAIN buffers' = DOMAIN buffers \ {path(t)}
    <3>1. CASE ReleaseNext(t)
      <4>1. buffers' = Restrict(buffers, DOMAIN buffers \ {path(t)})
        BY <3>1 DEF ReleaseNext, ra_release
      <4> QED BY <1>0, <2>0, <3>1, <4>1, Restricted DEF ReleaseNext, Types
    <3> QED BY <1>3, <3>1 DEF OpenFails, OpenStore
  <2>4. ASSUME NEW g \in Handles, Used(g)' PROVE PathOf[g] \in DOMAIN buffers' \cup shared'
    <3>1. PathOf[g] \in DOMAIN buffers \cup shared
      BY <2>2, <2>4 DEF AloneInv
    <3>2. CASE buffers' = buffers
      BY <2>0, <3>1, <3>2
    <3>3. CASE state'[op[t].h] = "closed" /\ DOMAIN buffers' = DOMAIN buffers \ {path(t)}
      <4>1. g # op[t].h
        BY <2>4, <3>3 DEF Used
      <4>2. PathOf[g] = path(t) => PathOf[g] \in shared
        BY <2>0, <2>2, <2>4, <4>1 DEF AloneInv
      <4> QED BY <2>0, <3>1, <3>3, <4>2
    <3> QED BY <2>3, <3>2, <3>3
  <2> QED BY <2>0, <2>2, <2>4 DEF AloneInv, BufferThere
<1>4. ASSUME NEW t \in Threads, NEW h \in Handles, Release(t, h)
      PROVE  AloneInv'
  <2>1. UNCHANGED <<shared, dangling, buffers>> /\ state[h] = "open"
    BY <1>4 DEF Release
  <2>2. \A g \in Handles : g # h => state'[g] = state[g]
    BY <1>0, <1>4 DEF Release, Types
  <2>3. \A g \in Handles : Used(g)' => Used(g)
    BY <2>1, <2>2, Labels DEF Used
  <2> QED BY <2>1, <2>3 DEF AloneInv, BufferThere
<1>5. ASSUME NEW t \in Threads, ReadStep(t)
      PROVE  AloneInv'
  <2>0. UNCHANGED <<state, shared>> /\ pc[t] \in ReadPcs /\ Busy(t)
    BY <1>5, ReadGoes, Labels DEF ReadsOn, Busy
  <2>1. DOMAIN buffers' = DOMAIN buffers
    BY <1>0, <1>5 DEF ReadStep, Hit, CopyRefreshed, Copy, Invalid, LockBlock, Refreshed, DropBlock,
          Forget, Miss, Evict, Emplace, Count, Touch, RaRead, RaRemote, RaUpdate, RaFails, ra_update
  <2>2. dangling' = dangling \/ path(t) \notin DOMAIN buffers
    BY <1>5 DEF ReadStep, Hit, CopyRefreshed, Copy, Invalid, LockBlock, Refreshed, DropBlock,
          Forget, Miss, Evict, Emplace, Count, Touch, RaRead, RaRemote, RaUpdate, RaFails
  <2>3. CASE path(t) \notin DOMAIN buffers
    <3>1. path(t) \in shared
      BY <1>0, <2>0, <2>3, StateOf DEF AloneInv, Used, path
    <3> QED BY <2>0, <2>1, <3>1 DEF AloneInv, Used, BufferThere
  <2> QED BY <1>1, <2>0, <2>1, <2>2, <2>3
<1>6. ASSUME NEW t \in Threads, NEW h \in Handles, NEW r \in Reads, Read(t, h, r)
      PROVE  AloneInv'
  BY <1>1, <1>6 DEF Read
<1>7. ASSUME NEW t \in Threads, OpenAttr(t) PROVE AloneInv'
  BY <1>1, <1>7 DEF OpenAttr
<1>8. ASSUME Tick \/ (\E p \in Paths : Change(p)) \/ UNCHANGED vars PROVE AloneInv'
  BY <1>1, <1>8 DEF Tick, Change, vars
<1> QED BY <1>2, <1>3, <1>4, <1>5, <1>6, <1>7, <1>8 DEF Next

-----------------------------------------------------------------------------
(* Every block can be evicted.                                                *)

LEMMA EvictableInit == Init => Evictable
BY DEF Init, Evictable

\* The steps outside of the loop of read leave the blocks and the policy alone.
LEMMA OutsideLoop ==
  ASSUME Base, [Next]_vars, \A t \in Threads : ~ReadStep(t)
  PROVE  /\ UNCHANGED <<cache, keys, cache_size_, orphans>>
         /\ \/ UNCHANGED <<pc, op>>
            \/ \E t \in Threads :
                 /\ Others(t)
                 /\ {pc[t], pc'[t]} \subseteq
                      {"idle", "open_attr", "open_store", "release", "loop", "ra"}
<1>0. Types
  BY DEF Base
<1>1. ASSUME NEW t \in Threads, NEW next, Step(t, next)
      PROVE  pc'[t] = next /\ \A u \in Threads : u # t => pc'[u] = pc[u]
  BY <1>0, <1>1 DEF Step, Types
<1>2. ASSUME NEW t \in Threads, NEW h \in Handles, Open(t, h) \/ Release(t, h)
      PROVE  /\ UNCHANGED <<cache, keys, cache_size_, orphans>> /\ Others(t)
             /\ pc[t] = "idle" /\ pc'[t] \in {"open_attr", "release"}
  BY <1>0, <1>1, <1>2 DEF Open, Release, Others, Types
<1>3. ASSUME NEW t \in Threads, NEW h \in Handles, NEW r \in Reads, Read(t, h, r)
      PROVE  /\ UNCHANGED <<cache, keys, cache_size_, orphans>> /\ Others(t)
             /\ pc[t] = "idle" /\ pc'[t] \in {"loop", "ra"}
  BY <1>0, <1>3, ReadBegins DEF Read, Begins
<1>4. ASSUME NEW t \in Threads, OpenAttr(t)
      PROVE  /\ UNCHANGED <<cache, keys, cache_size_, orphans>> /\ Others(t)
             /\ pc[t] = "open_attr" /\ pc'[t] = "open_store"
  BY <1>4, AttrGoes DEF OpenAttr
<1>5. ASSUME NEW t \in Threads, OpenFails(t) \/ OpenStore(t) \/ ReleaseNext(t)
      PROVE  /\ UNCHANGED <<cache, keys, cache_size_, orphans>> /\ Others(t)
             /\ pc[t] \in {"open_attr", "open_store", "release"} /\ pc'[t] = "idle"
  BY <1>0, <1>5, DoneEnds DEF OpenFails, OpenStore, ReleaseNext, Ends
<1>6. ASSUME Tick \/ (\E p \in Paths : Change(p)) \/ UNCHANGED vars
      PROVE  UNCHANGED <<cache, keys, cache_size_, orphans, pc, op>>
  BY <1>6 DEF Tick, Change, vars
<1>7. ASSUME NEW t \in Threads, Others(t), UNCHANGED <<cache, keys, cache_size_, orphans>>,
             {pc[t], pc'[t]} \subseteq {"idle", "open_attr", "open_store", "release", "loop", "ra"}
      PROVE  /\ UNCHANGED <<cache, keys, cache_size_, orphans>>
             /\ \E u \in Threads :
                 /\ Others(u)
                 /\ {pc[u], pc'[u]} \subseteq
                      {"idle", "open_attr", "open_store", "release", "loop", "ra"}
  BY <1>7
<1>8. CASE \E t \in Threads, h \in Handles : Open(t, h) \/ Release(t, h)
  BY <1>2, <1>7, <1>8
<1>9. CASE \E t \in Threads, h \in Handles, r \in Reads : Read(t, h, r)
  BY <1>3, <1>7, <1>9
<1>10. CASE \E t \in Threads : OpenAttr(t)
  BY <1>4, <1>7, <1>10
<1>11. CASE \E t \in Threads : OpenFails(t) \/ OpenStore(t) \/ ReleaseNext(t)
  BY <1>5, <1>7, <1>11
<1> QED BY <1>6, <1>8, <1>9, <1>10, <1>11 DEF Next

LEMMA EvictableNext == Base /\ Evictable /\ [Next]_vars => Evictable'
  <1>EvictableStep.
      ASSUME Evictable, NEW t \in Threads, Others(t),
             \A k \in DOMAIN cache' \ orphans' :
               \/ k \in DOMAIN keys' \/ Tells(t, k)'
               \/ k \in DOMAIN cache \ orphans /\ k \notin DOMAIN keys /\ ~Tells(t, k)
      PROVE  Evictable'
    <2> USE <1>EvictableStep
    <2> SUFFICES ASSUME NEW k \in DOMAIN cache' \ orphans'
                 PROVE  k \in DOMAIN keys' \/ \E u \in Threads : Tells(u, k)'
      BY DEF Evictable, Tells
    <2>1. CASE k \in DOMAIN cache \ orphans /\ k \notin DOMAIN keys /\ ~Tells(t, k)
      <3>1. PICK u \in Threads : Tells(u, k)
        BY <2>1 DEF Evictable, Tells
      <3>2. u # t
        BY <2>1, <3>1
      <3> QED BY <3>1, <3>2 DEF Others, Tells
    <2> QED BY <2>1
  <1>EvictableSame.
      ASSUME Evictable, NEW t \in Threads, Others(t), UNCHANGED <<keys, orphans>>,
             DOMAIN cache' = DOMAIN cache, \A k : Tells(t, k) => Tells(t, k)'
      PROVE  Evictable'
    BY <1>EvictableSame, <1>EvictableStep
  <1>EvictableRead.
      ASSUME Base, Evictable, NEW t \in Threads, ReadStep(t)
      PROVE  Evictable'
    <2> USE <1>EvictableRead
    <2>0. Types /\ HandleInv /\ Others(t) /\ RetAt(t)
      BY ReadGoes DEF Base, RetInv, ReadsOn, Ends, Goes
    <2>1. CASE Hit(t) \/ CopyRefreshed(t) \/ Invalid(t) \/ LockBlock(t) \/ Refreshed(t)
               \/ RaRead(t) \/ RaRemote(t) \/ RaUpdate(t) \/ RaFails(t)
      <3>1. UNCHANGED <<keys, orphans>> /\ DOMAIN cache' = DOMAIN cache
        BY <2>0, <2>1 DEF Hit, CopyRefreshed, Copy, Invalid, LockBlock, Refreshed, RaRead, RaRemote,
           RaUpdate, RaFails
      <3>2. pc[t] \notin {"count", "touch", "evict", "drop"}
        BY <2>1 DEF Hit, CopyRefreshed, Invalid, LockBlock, Refreshed, RaRead, RaRemote,
           RaUpdate, RaFails
      <3> QED BY <2>0, <3>1, <3>2, <1>EvictableSame DEF Tells
    <2>2. CASE DropBlock(t) \/ Evict(t)
      <3>1. UNCHANGED <<keys, orphans>> /\ remove_block(op[t].key)
        BY <2>2 DEF DropBlock, Evict
      <3>2. DOMAIN cache' = DOMAIN cache \ {op[t].key}
        BY <2>0, <3>1, RemoveTypes
      <3> QED BY <2>0, <3>1, <3>2, <1>EvictableStep DEF Tells
    <2>3. CASE Forget(t)
      <3>1. /\ cache' = cache /\ DOMAIN keys' = DOMAIN keys \ {op[t].key}
            /\ orphans' = IF op[t].key \in DOMAIN cache THEN orphans \cup {op[t].key} ELSE orphans
            /\ pc[t] \notin {"count", "touch", "evict", "drop"}
        BY <2>3, KeysOf DEF Forget
      <3> QED BY <2>0, <3>1, <1>EvictableStep DEF Tells
    <2>4. CASE Miss(t)
      <3>0. pc[t] \notin {"count", "touch", "evict", "drop"} /\ UNCHANGED <<cache, orphans>>
        BY <2>4 DEF Miss
      <3>1. CASE cache_size_ > Size /\ Victims(keys) # {}
        <4>1. PICK v \in Victims(keys) : keys' = remove(keys, v) /\ Set(t, "key", v) /\ Step(t, "evict")
          BY <2>4, <3>1 DEF Miss
        <4>2. v \in Keys
          BY <2>0, <4>1 DEF Victims, Types
        <4>3. op'[t].key = v /\ pc'[t] = "evict"
          BY <4>1, <4>2, SetGoes DEF Goes
        <4>4. DOMAIN keys' = DOMAIN keys \ {v}
          BY <4>1, KeysOf
        <4> QED BY <2>0, <3>0, <4>3, <4>4, <1>EvictableStep DEF Tells
      <3>2. CASE ~(cache_size_ > Size /\ Victims(keys) # {})
        BY <2>0, <2>4, <3>0, <3>2, <1>EvictableSame DEF Tells, Miss
      <3> QED BY <3>1, <3>2
    <2>5. CASE Emplace(t)
      <3>0. pc[t] \notin {"count", "touch", "evict", "drop"} /\ UNCHANGED <<keys, orphans>>
        BY <2>5 DEF Emplace
      <3>1. CASE cache' = cache
        BY <2>0, <3>0, <3>1, <1>EvictableSame DEF Tells
      <3>2. CASE cache' # cache
        <4>1. op' = op /\ Step(t, "count") /\ DOMAIN cache' = DOMAIN cache \cup {op[t].key}
          BY <2>5, <3>2 DEF Emplace
        <4>2. pc'[t] = "count"
          BY <2>0, <4>1 DEF Step, Types
        <4> QED BY <2>0, <3>0, <4>1, <4>2, <1>EvictableStep DEF Tells
      <3> QED BY <3>1, <3>2
    <2>6. CASE Count(t)
      <3>1. UNCHANGED <<keys, orphans, cache, op>> /\ pc'[t] = "touch"
        BY <2>0, <2>6 DEF Count, Step, Types
      <3> QED BY <2>0, <3>1, <1>EvictableSame DEF Tells
    <2>7. CASE Touch(t)
      <3>1. cache' = cache /\ DOMAIN keys' = DOMAIN keys \cup {op[t].key} /\ orphans' = orphans \ {op[t].key}
        BY <2>7, KeysOf DEF Touch
      <3> QED BY <2>0, <3>1, <1>EvictableStep DEF Tells
    <2> QED BY <2>1, <2>2, <2>3, <2>4, <2>5, <2>6, <2>7 DEF ReadStep
  <1> SUFFICES ASSUME Base, Evictable, [Next]_vars PROVE Evictable'
    OBVIOUS
  <1>1. CASE \E t \in Threads : ReadStep(t)
    BY <1>1, <1>EvictableRead
  <1>2. CASE \A t \in Threads : ~ReadStep(t)
    <2>1. UNCHANGED <<cache, keys, orphans>>
      BY <1>2, OutsideLoop
    <2>2. CASE UNCHANGED <<pc, op>>
      BY <2>1, <2>2 DEF Evictable
    <2>3. ASSUME NEW t \in Threads, Others(t),
                 {pc[t], pc'[t]} \subseteq {"idle", "open_attr", "open_store", "release", "loop", "ra"}
          PROVE  Evictable'
      <3>1. pc[t] \notin {"count", "touch", "evict", "drop"}
        BY <2>3
      <3> QED BY <2>1, <2>3, <3>1, <1>EvictableSame DEF Tells
    <2> QED BY <1>2, <2>2, <2>3, OutsideLoop
  <1> QED BY <1>1, <1>2

-----------------------------------------------------------------------------
(* The size of the cache.                                                     *)

LEMMA AccountIs ==
  Accounting <=> (cache_size_ + Cardinality(Counting)) % SizeMod = Cardinality(DOMAIN cache) % SizeMod
BY DEF Accounting, Counting

LEMMA AccountInit == Init => AccountInv
<1> SUFFICES ASSUME Init PROVE AccountInv
  OBVIOUS
<1>1. DOMAIN cache = {} /\ Counting = {} /\ cache_size_ = 0
  BY DEF Init, Counting
<1>2. IsFiniteSet(DOMAIN cache) /\ Cardinality(DOMAIN cache) = 0 /\ Cardinality(Counting) = 0
  BY <1>1, FS_EmptySet
<1>3. 0 + 0 = 0
  BY SMT
<1> QED BY <1>1, <1>2, <1>3, AccountIs DEF AccountInv

LEMMA AccountNext == Base /\ AccountInv /\ [Next]_vars => AccountInv'
  \* Numbers that differ by a multiple of m have the same remainder.
  <1>SameRemainder.
      ASSUME NEW m \in Nat \ {0}, NEW x \in Int, NEW y \in Int, NEW q \in Int, x = y + m * q
      PROVE  x % m = y % m
    <2> USE <1>SameRemainder
    <2>1. /\ x % m \in 0 .. m - 1 /\ y % m \in 0 .. m - 1 /\ x \div m \in Int /\ y \div m \in Int
          /\ x = m * (x \div m) + (x % m) /\ y = m * (y \div m) + (y % m)
      <3>1. ASSUME NEW w \in Int
            PROVE  w % m \in 0 .. m - 1 /\ w \div m \in Int /\ w = m * (w \div m) + (w % m)
        BY ONLY m \in Nat \ {0}, w \in Int, SMT
      <3> QED BY <3>1
    <2> DEFINE a == x % m
               b == y % m
               z == q + (y \div m) - (x \div m)
    <2>2. z \in Int /\ a \in 0 .. m - 1 /\ b \in 0 .. m - 1
      BY <2>1, SMT
    <2>3. a - b = m * z
      <3> DEFINE c == x \div m
                 d == y \div m
      <3>1. c \in Int /\ d \in Int /\ a \in Int /\ b \in Int /\ x = m * c + a /\ y = m * d + b
        BY <2>1, <2>2, SMT
      <3>2. z = q + d - c
        OBVIOUS
      <3> HIDE DEF a, b, c, d, z
      <3>3. m * z = m * q + m * d - m * c
        BY ONLY <3>1, <3>2, m \in Nat \ {0}, q \in Int, SMT
      <3>4. m * q \in Int /\ m * d \in Int /\ m * c \in Int
        BY ONLY <3>1, m \in Nat \ {0}, q \in Int, SMT
      <3> DEFINE mq == m * q
                 md == m * d
                 mc == m * c
                 mz == m * z
      <3>5. /\ mz = mq + md - mc /\ x = mc + a /\ y = md + b /\ x = y + mq
            /\ mq \in Int /\ md \in Int /\ mc \in Int /\ a \in Int /\ b \in Int
        BY <3>1, <3>3, <3>4
      <3> HIDE DEF mq, md, mc, mz
      <3>6. a - b = mz
        BY ONLY <3>5, SMT
      <3> QED BY <3>6 DEF mz
    <2> HIDE DEF a, b, z
    <2>4. z = 0
      <3>1. CASE z >= 1
        <4>1. m * z >= m
          BY ONLY <2>2, <3>1, m \in Nat \ {0}, SMT
        <4> QED BY ONLY <2>2, <2>3, <4>1, m \in Nat \ {0}, SMT
      <3>2. CASE z <= -1
        <4>1. m * z <= -m
          BY ONLY <2>2, <3>2, m \in Nat \ {0}, SMT
        <4> QED BY ONLY <2>2, <2>3, <4>1, m \in Nat \ {0}, SMT
      <3> QED BY ONLY <2>2, <3>1, <3>2, SMT
    <2>5. a = b
      BY ONLY <2>2, <2>3, <2>4, m \in Nat \ {0}, SMT
    <2> QED BY <2>5 DEF a, b
  <1>RemainderPlus.
      ASSUME NEW m \in Nat \ {0}, NEW x \in Int, NEW y \in Int, NEW d \in Int, x % m = y % m
      PROVE  (x + d) % m = (y + d) % m
    <2> USE <1>RemainderPlus
    <2>1. ASSUME NEW w \in Int
          PROVE  w % m \in Int /\ w \div m \in Int /\ w = m * (w \div m) + (w % m)
      BY ONLY m \in Nat \ {0}, w \in Int, SMT
    <2> DEFINE a == x \div m
               b == y \div m
               r == x % m
    <2>2. a \in Int /\ b \in Int /\ r \in Int /\ x = m * a + r /\ y = m * b + r
      BY <2>1
    <2> HIDE DEF a, b, r
    <2>3. x + d = y + d + m * (a - b) /\ x + d \in Int /\ y + d \in Int /\ a - b \in Int
      BY ONLY <2>2, m \in Nat \ {0}, d \in Int, SMT
    <2> DEFINE X == x + d
               Y == y + d
               Q == a - b
    <2>4. X = Y + m * Q /\ X \in Int /\ Y \in Int /\ Q \in Int
      BY <2>3
    <2> HIDE DEF X, Y, Q
    <2>5. X % m = Y % m
      BY ONLY <2>4, m \in Nat \ {0}, <1>SameRemainder
    <2> QED BY <2>5 DEF X, Y
  \* A remainder may be taken of a part of a sum.
  <1>RemainderInside.
      ASSUME NEW m \in Nat \ {0}, NEW x \in Int, NEW d \in Int
      PROVE  ((x % m) + d) % m = (x + d) % m
    <2> USE <1>RemainderInside
    <2>1. x % m \in Int /\ (x % m) % m = x % m
      BY ONLY m \in Nat \ {0}, x \in Int, SMT
    <2> QED BY <2>1, <1>RemainderPlus
  <1>CountingFinite. IsFiniteSet(Counting) /\ Cardinality(Counting) \in Nat
    BY DataCacheAssumption, FS_Subset, FS_CardinalityType DEF Counting
  <1>AccountSame.
      ASSUME AccountInv, DOMAIN cache' = DOMAIN cache, cache_size_' = cache_size_, Counting' = Counting
      PROVE  AccountInv'
    BY <1>AccountSame, AccountIs DEF AccountInv, Accounting, Counting
  <1>CountingStep.
      ASSUME NEW t \in Threads, Others(t)
      PROVE  /\ pc[t] # "count" /\ pc'[t] # "count" => Counting' = Counting
             /\ pc[t] # "count" /\ pc'[t] = "count" => Counting' = Counting \cup {t} /\ t \notin Counting
             /\ pc[t] = "count" /\ pc'[t] # "count" => Counting' = Counting \ {t} /\ t \in Counting
    <2> USE <1>CountingStep
    <2>1. \A u \in Threads : u # t => (u \in Counting' <=> u \in Counting)
      BY DEF Others, Counting
    <2>2. Counting \subseteq Threads /\ Counting' \subseteq Threads
      BY DEF Counting
    <2>3. (t \in Counting <=> pc[t] = "count") /\ (t \in Counting' <=> pc'[t] = "count")
      BY DEF Counting
    <2>4. ASSUME pc[t] # "count", pc'[t] # "count" PROVE Counting' = Counting
      <3>1. \A u \in Threads : u \in Counting' <=> u \in Counting
        BY <2>1, <2>3, <2>4
      <3> QED BY <2>2, <3>1
    <2>5. ASSUME pc[t] # "count", pc'[t] = "count" PROVE Counting' = Counting \cup {t} /\ t \notin Counting
      BY <2>1, <2>2, <2>3, <2>5
    <2>6. ASSUME pc[t] = "count", pc'[t] # "count" PROVE Counting' = Counting \ {t} /\ t \in Counting
      BY <2>1, <2>2, <2>3, <2>6
    <2> QED BY <2>4, <2>5, <2>6
  \* A block is removed.
  <1>AccountRemove.
      ASSUME Base, AccountInv, NEW k, remove_block(k), Counting' = Counting
      PROVE  AccountInv'
    <2> USE <1>AccountRemove
    <2> DEFINE s == cache_size_
               c == Cardinality(Counting)
               d == Cardinality(DOMAIN cache)
    <2>0. /\ Types /\ SizeMod \in Nat \ {0} /\ s \in Nat /\ c \in Nat /\ d \in Nat
          /\ IsFiniteSet(DOMAIN cache) /\ (s + c) % SizeMod = d % SizeMod
      BY DataCacheAssumption, <1>CountingFinite, FS_CardinalityType, AccountIs DEF Base, Types, AccountInv
    <2>1. DOMAIN cache' = DOMAIN cache \ {k}
      BY <2>0, RemoveTypes
    <2>2. CASE k \notin DOMAIN cache
      BY <2>1, <2>2, <1>AccountSame DEF remove_block
    <2>3. CASE k \in DOMAIN cache
      <3>1. cache_size_' = (s + SizeMod - 1) % SizeMod
        BY <2>3 DEF remove_block
      <3>2. IsFiniteSet(DOMAIN cache') /\ Cardinality(DOMAIN cache') = d - 1
        BY <2>0, <2>1, <2>3, FS_RemoveElement
      <3> HIDE DEF s, c, d
      <3>3. (cache_size_' + c) % SizeMod = (s + SizeMod - 1 + c) % SizeMod
        <4>1. s + SizeMod - 1 \in Int /\ c \in Int
          BY ONLY <2>0, SMT
        <4> QED BY <2>0, <3>1, <4>1, <1>RemainderInside
      <3>4. (s + SizeMod - 1 + c) % SizeMod = (s + c - 1) % SizeMod
        <4>1. /\ s + SizeMod - 1 + c \in Int /\ s + c - 1 \in Int /\ 1 \in Int
              /\ s + SizeMod - 1 + c = s + c - 1 + SizeMod * 1
          BY ONLY <2>0, SMT
        <4> DEFINE X == s + SizeMod - 1 + c
                   Y == s + c - 1
        <4>2. X = Y + SizeMod * 1 /\ X \in Int /\ Y \in Int /\ 1 \in Int /\ SizeMod \in Nat \ {0}
          BY <2>0, <4>1
        <4> HIDE DEF X, Y
        <4>3. X % SizeMod = Y % SizeMod
          BY ONLY <4>2, <1>SameRemainder
        <4> QED BY <4>3 DEF X, Y
      <3>5. (s + c - 1) % SizeMod = (d - 1) % SizeMod
        <4>1. s + c \in Int /\ d \in Int /\ -1 \in Int /\ s + c + -1 = s + c - 1 /\ d + -1 = d - 1
          BY ONLY <2>0, SMT
        <4>2. (s + c + -1) % SizeMod = (d + -1) % SizeMod
          BY <2>0, <4>1, <1>RemainderPlus
        <4> QED BY <4>1, <4>2
      <3>6. (cache_size_' + Cardinality(Counting')) % SizeMod = Cardinality(DOMAIN cache') % SizeMod
        BY <3>2, <3>3, <3>4, <3>5 DEF c
      <3> QED BY <3>2, <3>6 DEF AccountInv, Accounting, Counting
    <2> QED BY <2>2, <2>3
  <1>AccountRead.
      ASSUME Base, AccountInv, NEW t \in Threads, ReadStep(t)
      PROVE  AccountInv'
    <2> USE <1>AccountRead
    <2> DEFINE s == cache_size_
               c == Cardinality(Counting)
               d == Cardinality(DOMAIN cache)
    <2>0. /\ Types /\ SizeMod \in Nat \ {0} /\ s \in Nat /\ c \in Nat /\ d \in Nat
          /\ IsFiniteSet(DOMAIN cache) /\ (s + c) % SizeMod = d % SizeMod /\ IsFiniteSet(Counting)
      BY DataCacheAssumption, <1>CountingFinite, FS_CardinalityType, AccountIs DEF Base, Types, AccountInv
    <2>1. Others(t) /\ (\A next : Step(t, next) => pc'[t] = next)
      BY <2>0, ReadGoes DEF ReadsOn, Ends, Goes, Types, Step
    <2>2. CASE Hit(t) \/ CopyRefreshed(t) \/ Invalid(t) \/ LockBlock(t) \/ Refreshed(t) \/ Forget(t)
               \/ Miss(t) \/ Touch(t) \/ RaRead(t) \/ RaRemote(t) \/ RaUpdate(t) \/ RaFails(t)
      <3>1. DOMAIN cache' = DOMAIN cache /\ cache_size_' = cache_size_
        BY <2>0, <2>2 DEF Hit, CopyRefreshed, Copy, Invalid, LockBlock, Refreshed, Forget, Miss, Touch,
           RaRead, RaRemote, RaUpdate, RaFails
      <3>2. pc[t] # "count"
        BY <2>2 DEF Hit, CopyRefreshed, Invalid, LockBlock, Refreshed, Forget, Miss, Touch,
           RaRead, RaRemote, RaUpdate, RaFails
      <3>3. pc'[t] # "count"
        BY <2>1, <2>2 DEF Hit, CopyRefreshed, Copy, Invalid, LockBlock, Refreshed, Forget, Miss, Touch,
           RaRead, RaRemote, RaUpdate, RaFails, Done, Returns
      <3> QED BY <2>1, <3>1, <3>2, <3>3, <1>AccountSame, <1>CountingStep
    <2>3. CASE DropBlock(t) \/ Evict(t)
      <3>1. remove_block(op[t].key) /\ pc[t] # "count" /\ pc'[t] # "count"
        BY <2>1, <2>3 DEF DropBlock, Evict
      <3> QED BY <2>1, <3>1, <1>CountingStep, <1>AccountRemove
    <2>4. CASE Emplace(t)
      <3>0. pc[t] # "count" /\ cache_size_' = cache_size_
        BY <2>4 DEF Emplace
      <3>1. CASE cache' = cache /\ pc'[t] # "count"
        BY <2>1, <3>0, <3>1, <1>AccountSame, <1>CountingStep
      <3>2. CASE ~(cache' = cache /\ pc'[t] # "count")
        <4>1. /\ pc'[t] = "count" /\ op[t].key \notin DOMAIN cache
              /\ DOMAIN cache' = DOMAIN cache \cup {op[t].key}
          BY <2>1, <2>4, <3>2 DEF Emplace, Done
        <4>2. IsFiniteSet(DOMAIN cache') /\ Cardinality(DOMAIN cache') = d + 1
          <5>1. PICK k : k = op[t].key
            OBVIOUS
          <5>2. /\ IsFiniteSet(DOMAIN cache) /\ DOMAIN cache' = DOMAIN cache \cup {k}
                /\ k \notin DOMAIN cache
            BY <2>0, <4>1, <5>1
          <5> QED BY <5>2, FS_AddElement
        <4>3. Counting' = Counting \cup {t} /\ t \notin Counting
          BY <2>1, <3>0, <4>1, <1>CountingStep
        <4>4. Cardinality(Counting') = c + 1
          BY <2>0, <4>3, FS_AddElement
        <4> HIDE DEF s, c, d
        <4>5. s + c \in Int /\ d \in Int /\ 1 \in Int /\ s + (c + 1) = s + c + 1
          BY ONLY <2>0, SMT
        <4>6. (s + c + 1) % SizeMod = (d + 1) % SizeMod
          BY <2>0, <4>5, <1>RemainderPlus
        <4>7. (cache_size_' + Cardinality(Counting')) % SizeMod = Cardinality(DOMAIN cache') % SizeMod
          BY <3>0, <4>2, <4>4, <4>5, <4>6 DEF s
        <4> QED BY <4>2, <4>7 DEF AccountInv, Accounting, Counting
      <3> QED BY <3>1, <3>2
    <2>5. CASE Count(t)
      <3>1. /\ cache' = cache /\ cache_size_' = (s + 1) % SizeMod /\ pc[t] = "count" /\ pc'[t] # "count"
        BY <2>1, <2>5 DEF Count
      <3>2. Counting' = Counting \ {t} /\ t \in Counting
        BY <2>1, <3>1, <1>CountingStep
      <3>3. Cardinality(Counting') = c - 1
        BY <2>0, <3>2, FS_RemoveElement
      <3> HIDE DEF s, c, d
      <3>4. s + 1 \in Int /\ c - 1 \in Int /\ s + 1 + (c - 1) = s + c
        BY ONLY <2>0, SMT
      <3>5. (cache_size_' + (c - 1)) % SizeMod = (s + 1 + (c - 1)) % SizeMod
        BY <2>0, <3>1, <3>4, <1>RemainderInside
      <3>6. (cache_size_' + Cardinality(Counting')) % SizeMod = Cardinality(DOMAIN cache') % SizeMod
        BY <2>0, <3>1, <3>3, <3>4, <3>5 DEF d
      <3> QED BY <2>0, <3>1, <3>6 DEF AccountInv, Accounting, Counting
    <2> QED BY <2>2, <2>3, <2>4, <2>5 DEF ReadStep
  <1> SUFFICES ASSUME Base, AccountInv, [Next]_vars PROVE AccountInv'
    OBVIOUS
  <1>1. CASE \E t \in Threads : ReadStep(t)
    BY <1>1, <1>AccountRead
  <1>2. CASE \A t \in Threads : ~ReadStep(t)
    <2>1. UNCHANGED <<cache, cache_size_>>
      BY <1>2, OutsideLoop
    <2>2. CASE UNCHANGED <<pc, op>>
      BY <2>1, <2>2, <1>AccountSame DEF Counting
    <2>3. ASSUME NEW t \in Threads, Others(t),
                 {pc[t], pc'[t]} \subseteq {"idle", "open_attr", "open_store", "release", "loop", "ra"}
          PROVE  AccountInv'
      <3>1. pc[t] # "count" /\ pc'[t] # "count"
        BY <2>3
      <3> QED BY <2>1, <2>3, <3>1, <1>AccountSame, <1>CountingStep
    <2> QED BY <1>2, <2>2, <2>3, OutsideLoop
  <1> QED BY <1>1, <1>2

-----------------------------------------------------------------------------
(* The theorems that need no data.                                            *)

\* Read-ahead finds the buffer of the path it reads, unless two handles of the path
\* were in use at once: whatever the threads do between the sections of the mutexes.
THEOREM BufferThereAlways == Spec => []BufferThere
<1>1. AloneInv => BufferThere
  BY DEF AloneInv
<1> QED BY <1>1, BaseInit, BaseNext, AloneInit, AloneNext, PTL DEF Spec

\* The policy knows the key of every block, or a thread is about to tell it or to
\* remove the block, except for the keys that a failed refresh made it forget.
THEOREM EvictableAlways == Spec => []Evictable
BY BaseInit, BaseNext, EvictableInit, EvictableNext, PTL DEF Spec

\* cache_size_ counts the blocks, less those about to be counted, modulo its width.
THEOREM AccountingAlways == Spec => []Accounting
<1>1. AccountInv => Accounting
  BY DEF AccountInv
<1> QED BY <1>1, BaseInit, BaseNext, AccountInit, AccountNext, PTL DEF Spec

-----------------------------------------------------------------------------
(* Close-to-open.                                                             *)

LEMMA FreshInit == Init => FreshInv
<1> SUFFICES ASSUME Init PROVE Fresh
  BY DEF FreshInv
<1>1. \A h \in Handles : HandleFresh(h)
  BY Labels DEF Init, HandleFresh
<1>2. \A t \in Threads : FreshAt(t)
  <2>1. "idle" \notin ReadPcs /\ "idle" \notin RaPcs
    BY SMT DEF ReadPcs, RaPcs
  <2> QED BY <2>1 DEF Init, FreshAt
<1> QED BY <1>1, <1>2 DEF Init, Fresh, NoBuffers

LEMMA FreshNext == Base /\ AloneInv /\ FreshInv /\ [Next]_vars => FreshInv'
  <1>GoodBefore. [Next]_vars /\ Good' => Good
    <2> SUFFICES ASSUME [Next]_vars, Good' PROVE Good
      OBVIOUS
    <2> DEFINE Grows == shared \subseteq shared' /\ failed \subseteq failed' /\ (beyond => beyond')
    <2>1. ASSUME NEW t \in Threads, ReadStep(t) PROVE Grows
      <3>1. shared' = shared
        BY <2>1 DEF ReadStep, Hit, CopyRefreshed, Copy, Invalid, LockBlock, Refreshed, DropBlock,
              Forget, Miss, Evict, Emplace, Count, Touch, RaRead, RaRemote, RaUpdate, RaFails
      <3>2. failed \subseteq failed'
        BY <2>1 DEF ReadStep, Hit, CopyRefreshed, Copy, Invalid, LockBlock, Refreshed, DropBlock,
              Forget, Miss, Evict, Emplace, Count, Touch, RaRead, RaRemote, RaUpdate, RaFails
      <3>3. beyond => beyond'
        BY <2>1 DEF ReadStep, Hit, CopyRefreshed, Copy, Invalid, LockBlock, Refreshed, DropBlock,
              Forget, Miss, Evict, Emplace, Count, Touch, RaRead, RaRemote, RaUpdate, RaFails
      <3> QED BY <3>1, <3>2, <3>3
    <2>2. ASSUME NEW t \in Threads, NEW h \in Handles,
                 Open(t, h) \/ Release(t, h) \/ \E r \in Reads : Read(t, h, r)
          PROVE  Grows
      <3>1. shared \subseteq shared'
        BY <2>2 DEF Open, Release, Read
      <3>2. failed' = failed
        BY <2>2 DEF Open, Release, Read
      <3>3. beyond => beyond'
        BY <2>2 DEF Open, Release, Read
      <3> QED BY <3>1, <3>2, <3>3
    <2>3. ASSUME NEW t \in Threads, OpenAttr(t) \/ OpenFails(t) \/ OpenStore(t) \/ ReleaseNext(t)
          PROVE  Grows
      <3>1. shared \subseteq shared'
        BY <2>3 DEF OpenAttr, OpenFails, OpenStore, ReleaseNext
      <3>2. failed' = failed
        BY <2>3 DEF OpenAttr, OpenFails, OpenStore, ReleaseNext
      <3>3. beyond => beyond'
        BY <2>3 DEF OpenAttr, OpenFails, OpenStore, ReleaseNext
      <3> QED BY <3>1, <3>2, <3>3
    <2>4. ASSUME Tick \/ (\E p \in Paths : Change(p)) \/ UNCHANGED vars PROVE Grows
      <3>1. shared \subseteq shared'
        BY <2>4 DEF Tick, Change, vars
      <3>2. failed' = failed
        BY <2>4 DEF Tick, Change, vars
      <3>3. beyond => beyond'
        BY <2>4 DEF Tick, Change, vars
      <3> QED BY <3>1, <3>2, <3>3
    <2>5. Grows
      BY <2>1, <2>2, <2>3, <2>4 DEF Next
    <2> QED BY <2>5 DEF Good
  \* No other handle is in use for the path of one that is.
  <1>OnePerPath.
      ASSUME AloneInv, Good, NEW h \in Handles, NEW g \in Handles, Used(h), Used(g),
             PathOf[h] = PathOf[g]
      PROVE  h = g
    BY <1>OnePerPath DEF AloneInv, Good
  <1>ReadSees.
      ASSUME Sound, NEW t \in Threads, pc[t] \in ReadPcs
      PROVE  /\ op[t] \in OpRecs /\ op[t].h \in Handles /\ state[op[t].h] = "open" /\ Used(op[t].h)
             /\ path(t) = PathOf[op[t].h] /\ path(t) \in Paths /\ path(t) \in DOMAIN mtimes
             /\ op[t].mtime = mtimes[path(t)] /\ op[t].ret # "direct"
             /\ floor[op[t].h] <= op[t].mtime /\ op[t].mtime <= file[path(t)].ver
             /\ floor[op[t].h] \in Nat /\ op[t].mtime \in Nat /\ file[path(t)].ver \in Nat
             /\ file[path(t)].len \in Nat /\ op[t].bytes \in Seq(Nat) /\ op[t].at \in Nat
             /\ op[t].want \in Nat /\ Busy(t)
    <2> USE <1>ReadSees
    <2>0. Types /\ HandleInv /\ Busy(t) /\ FreshAt(t)
      BY Labels DEF Sound, Base, Fresh, Busy
    <2>1. op[t] \in OpRecs /\ op[t].h \in Handles /\ state[op[t].h] = "open" /\ Used(op[t].h)
      BY <2>0, StateOf DEF Types, Used
    <2>2. path(t) = PathOf[op[t].h] /\ path(t) \in Paths
      BY <2>0, BlockKey DEF path
    <2>3. HandleFresh(op[t].h)
      BY <2>1 DEF Sound, Fresh
    <2>4. op[t].mtime \in Nat /\ op[t].bytes \in Seq(Nat) /\ op[t].at \in Nat /\ op[t].want \in Nat
      BY <2>1 DEF OpRecs
    <2>5. floor[op[t].h] \in Nat /\ file[path(t)] \in [ver : Nat, len : Nat]
      BY <2>0, <2>1, <2>2 DEF Types
    <2>6. file[path(t)].ver \in Nat /\ file[path(t)].len \in Nat
      BY <2>5
    <2> QED BY <2>0, <2>1, <2>2, <2>3, <2>4, <2>5, <2>6 DEF HandleFresh, FreshAt
  <1>FreshEnds. ASSUME NEW t \in Threads, Ends(t) PROVE FreshAt(t)'
    <2> USE <1>FreshEnds
    <2>1. /\ "idle" \notin ReadPcs \cup RaPcs \cup {"lock_block", "ra_update", "refreshed", "emplace", "copy", "open_store"}
      BY SMT DEF ReadPcs, RaPcs
    <2> QED BY <2>1 DEF Ends, FreshAt
  <1>FreshGoes.
      ASSUME Sound, NEW t \in Threads, pc[t] \in ReadPcs, NEW next \in ReadPcs, Goes(t, next),
             mtimes' = mtimes, op'[t].ret # "direct",
             next \in {"ra_update", "refreshed", "emplace"} => All(op'[t].bytes, op[t].mtime),
             next \in {"refreshed", "emplace"} => Len(op'[t].bytes) <= BlockSize,
             next \in RaPcs \cup {"lock_block"} => op'[t].want = BlockSize,
             next = "copy" => cache'[Block(t)'].mtime = op[t].mtime
      PROVE  FreshAt(t)'
    <2> USE <1>FreshGoes
    <2>1. path(t)' = path(t) /\ op[t].mtime = mtimes[path(t)] /\ op'[t].mtime = op[t].mtime /\ pc'[t] = next
      BY <1>ReadSees DEF Goes, path
    <2>2. next # "open_store"
      BY Labels
    <2> QED BY <2>1, <2>2 DEF FreshAt
  \* A thread that stays where it is.
  <1>FreshStays.
      ASSUME Sound, NEW u \in Threads, pc'[u] = pc[u], op'[u] = op[u],
             pc[u] = "open_store" => /\ floor'[op[u].h] = floor[op[u].h]
                                     /\ op[u].mtime <= file[path(u)].ver => op[u].mtime <= file'[path(u)].ver,
             pc[u] \in ReadPcs => mtimes'[path(u)] = mtimes[path(u)],
             pc[u] = "copy" => cache'[Block(u)].mtime = op[u].mtime
      PROVE  FreshAt(u)'
    <2> USE <1>FreshStays
    <2>1. FreshAt(u) /\ path(u)' = path(u) /\ Block(u)' = Block(u)
      BY DEF Sound, Fresh, path, Block, Seeker
    <2> QED BY <2>1 DEF FreshAt
  <1>CopyOf.
      ASSUME Sound, NEW t \in Threads, pc[t] = "copy"
      PROVE  Block(t) \in DOMAIN cache /\ cache[Block(t)].mtime = op[t].mtime /\ t \in Sharing
    <2> USE <1>CopyOf
    <2>1. RetAt(t) /\ FreshAt(t) /\ Busy(t)
      BY DEF Sound, Base, RetInv, Fresh, Busy
    <2> QED BY <2>1 DEF RetAt, FreshAt, Sharing, Busy
  <1>SameData.
      ASSUME Sound, NEW t \in Threads, UNCHANGED <<buffers, cache, state, mtimes>>
      PROVE  KeepsData(t)
    <2> USE <1>SameData
    <2>1. \A p \in DOMAIN buffers' : BufferFresh(p)'
      BY DEF Sound, Fresh, BufferFresh
    <2>2. \A k \in DOMAIN cache' : BlockFresh(cache'[k])
      BY DEF Sound, Fresh
    <2> QED BY <2>1, <2>2, <1>CopyOf DEF KeepsData
  \* The buffers stay, a block changes to one with the same time.
  <1>OtherCache.
      ASSUME Sound, NEW t \in Threads, UNCHANGED <<buffers, state, mtimes>>,
             \A k \in DOMAIN cache' : BlockFresh(cache'[k]),
             \A u \in Threads : u # t /\ pc[u] = "copy" => cache'[Block(u)].mtime = op[u].mtime
      PROVE  KeepsData(t)
    <2> USE <1>OtherCache
    <2>1. \A p \in DOMAIN buffers' : BufferFresh(p)'
      BY DEF Sound, Fresh, BufferFresh
    <2> QED BY <2>1 DEF KeepsData
  \* What is copied from a block of the right time is not stale.
  <1>CopyFresh.
      ASSUME Sound, NEW t \in Threads, pc[t] \in ReadPcs, Block(t) \in DOMAIN cache,
             cache[Block(t)].mtime = op[t].mtime, Copy(t), ~beyond'
      PROVE  ~stale'
    <2> USE <1>CopyFresh
    <2> DEFINE b == cache[Block(t)]
               in == Seeker(t) % BlockSize
               c == Copied(t)
               v == floor[op[t].h]
    <2>0. /\ Types /\ HandleInv /\ Busy(t) /\ b \in Blocks /\ BlockFresh(b) /\ b.mtime = op[t].mtime
          /\ ~stale /\ op[t].readed <= op[t].size
      BY <1>ReadSees DEF Sound, Base, Types, Fresh, RetInv, RetAt
    <2>1. v <= op[t].mtime /\ v \in Nat /\ op[t].mtime \in Nat
      BY <1>ReadSees
    <2>2. in \in Nat /\ c.n \in Nat /\ op[t].size \in Nat /\ op[t].readed \in Nat
      <3>1. op[t] \in OpRecs
        BY <1>ReadSees
      <3> QED BY <2>0, <3>1, BlockKey, CopiedType DEF OpRecs
    <2>3. b.size \in Nat /\ b.bytes \in [1 .. BlockSize -> Nat] /\ b.size <= BlockSize
      BY <2>0 DEF Blocks, BlockFresh
    <2>4. ~(in > b.size)
      BY DEF Copy
    <2>5. CASE c.n = 0
      BY <2>0, <2>5 DEF Copy
    <2>6. CASE c.n # 0
      <3> DEFINE left == op[t].size - op[t].readed
                 there == IF in > b.size THEN Huge ELSE b.size - in
      <3>1. /\ c.n = (IF left < there THEN left ELSE there)
            /\ c.bytes = [i \in 1 .. c.n |-> IF in + i <= BlockSize THEN b.bytes[in + i] ELSE 0]
        BY DEF Copied
      <3>2. c.n <= b.size - in
        <4>1. left \in Int /\ there = b.size - in /\ there \in Int
          BY <2>2, <2>3, <2>4, SMT
        <4> HIDE DEF left, there
        <4> QED BY ONLY <3>1, <4>1, <2>2, SMT
      <3>3. ASSUME NEW i \in DOMAIN c.bytes PROVE ~(c.bytes[i] < v)
        <4> HIDE DEF b, in, c, v
        <4>1. i \in 1 .. c.n /\ c.bytes[i] = IF in + i <= BlockSize THEN b.bytes[in + i] ELSE 0
          BY <3>1, <3>3
        <4>2. in + i \in 1 .. b.size /\ in + i <= BlockSize /\ in + i \in 1 .. BlockSize
          <5>1. BlockSize \in Nat
            BY DataCacheAssumption
          <5> QED BY ONLY <2>2, <2>3, <3>2, <4>1, <5>1, SMT
        <4>3. b.mtime <= b.bytes[in + i] /\ b.bytes[in + i] \in Nat /\ c.bytes[i] = b.bytes[in + i]
          BY <2>0, <2>3, <4>1, <4>2 DEF BlockFresh
        <4>4. b.mtime \in Nat /\ v <= b.mtime /\ v \in Nat
          BY <2>0, <2>1
        <4> QED BY ONLY <4>3, <4>4, SMT
      <3>4. Hand(t, c.bytes)
        BY <2>6 DEF Copy
      <3> QED BY <2>0, <3>3, <3>4 DEF Hand
    <2> QED BY <2>5, <2>6
  <1>PcFacts.
      /\ {"loop", "lock_block", "refreshed", "copy", "drop", "forget", "evict", "emplace", "count",
          "touch", "lost", "ra", "ra_remote", "ra_update"} \subseteq ReadPcs
      /\ {"loop", "copy", "drop", "forget", "evict", "emplace", "count", "touch", "lost", "refreshed"}
           \cap (RaPcs \cup {"lock_block"}) = {}
      /\ {"loop", "lock_block", "drop", "forget", "evict", "count", "touch", "lost", "copy", "ra",
          "ra_remote"} \cap {"ra_update", "refreshed", "emplace"} = {}
      /\ {"ra", "ra_remote", "ra_update"} \subseteq RaPcs
      /\ "none" # "direct" /\ "miss" # "direct" /\ "refresh" # "direct"
    BY SMT DEF ReadPcs, RaPcs
  \* The bytes of a block that is read, and of one that is read again.
  <1>NewFresh.
      ASSUME NEW new \in Seq(Nat), NEW old, NEW m \in Nat, NEW ts, NEW bytes,
             All(new, m), Len(new) <= BlockSize,
             bytes = [i \in 1 .. BlockSize |-> IF i <= Len(new) THEN new[i] ELSE old[i]]
      PROVE  BlockFresh([bytes |-> bytes, size |-> Len(new), mtime |-> m, ts |-> ts])
    <2> USE <1>NewFresh
    <2>1. DOMAIN new = 1 .. Len(new) /\ Len(new) \in Nat /\ BlockSize \in Nat
      BY DataCacheAssumption, SMT
    <2>2. \A i \in 1 .. Len(new) : i \in 1 .. BlockSize /\ i <= Len(new)
      BY ONLY <2>1, Len(new) <= BlockSize, SMT
    <2>3. \A i \in 1 .. Len(new) : m <= bytes[i]
      BY <2>1, <2>2 DEF All
    <2> QED BY <2>3 DEF BlockFresh
  \* Steps without data.
  <1>FreshControl.
      ASSUME Sound, NEW t \in Threads,
             \/ Invalid(t) \/ LockBlock(t) \/ Forget(t) \/ Miss(t) \/ Count(t) \/ Touch(t)
      PROVE  KeepsFresh(t)
    <2> USE <1>FreshControl
    <2>0. /\ Base /\ Types /\ ReadsOn(t) /\ pc[t] \in ReadPcs /\ Busy(t) /\ op[t].ret # "direct"
          /\ FreshAt(t) /\ ~stale
      <3>1. Base /\ ReadStep(t)
        BY DEF Sound, ReadStep
      <3> QED BY <3>1, ReadGoes, <1>ReadSees DEF Base, ReadsOn, Sound, Fresh
    <2>1. ~stale' /\ UNCHANGED <<cache, buffers, state, mtimes>>
      <3>1. UNCHANGED <<stale, cache, buffers, state, mtimes>>
        BY DEF Invalid, LockBlock, Forget, Miss, Count, Touch
      <3> QED BY <2>0, <3>1
    <2>2. KeepsData(t)
      BY <2>1, <1>SameData
    <2>3. ASSUME NEW next \in ReadPcs, Goes(t, next), op'[t].ret # "direct",
                 next \notin {"ra_update", "refreshed", "emplace", "copy"},
                 next \in RaPcs \cup {"lock_block"} => op'[t].want = BlockSize
          PROVE  KeepsFresh(t)
      BY <2>0, <2>1, <2>2, <2>3, <1>FreshGoes DEF KeepsFresh
    <2>4. ASSUME Ends(t) PROVE KeepsFresh(t)
      BY <2>1, <2>2, <2>4, <1>FreshEnds DEF KeepsFresh
    <2>5. CASE Invalid(t)
      <3>1. Goes(t, "lock_block") /\ op'[t].ret = "refresh" /\ op'[t].want = BlockSize
        <4>1. "refresh" \in Rets
          BY DEF Rets
        <4> QED BY <2>0, <2>5, <4>1, AskGoes DEF Invalid
      <3> QED BY <2>3, <3>1, <1>PcFacts
    <2>6. CASE LockBlock(t)
      <3>1. Goes(t, "ra") /\ op' = op /\ pc[t] = "lock_block"
        BY <2>0, <2>6, StepGoes DEF LockBlock
      <3>2. op[t].want = BlockSize
        BY <2>0, <3>1 DEF FreshAt
      <3> QED BY <2>0, <2>3, <3>1, <3>2, <1>PcFacts
    <2>7. CASE Forget(t)
      BY <2>0, <2>4, <2>7, DoneEnds DEF Forget
    <2>8. CASE Miss(t)
      <3>1. CASE cache_size_ > Size /\ Victims(keys) # {}
        <4>1. PICK v \in Victims(keys) : Set(t, "key", v) /\ Step(t, "evict")
          BY <2>8, <3>1 DEF Miss
        <4>2. v \in Keys
          BY <2>0, <4>1 DEF Victims, Types
        <4>3. Goes(t, "evict") /\ op'[t].ret = op[t].ret
          BY <2>0, <4>1, <4>2, SetGoes
        <4> QED BY <2>0, <2>3, <4>3, <1>PcFacts
      <3>2. CASE ~(cache_size_ > Size /\ Victims(keys) # {})
        <4>1. "miss" \in Rets
          BY DEF Rets
        <4>2. Goes(t, "ra") /\ op'[t].ret = "miss" /\ op'[t].want = BlockSize
          BY <2>0, <2>8, <3>2, <4>1, AskGoes DEF Miss
        <4> QED BY <2>3, <4>2, <1>PcFacts
      <3> QED BY <3>1, <3>2
    <2>9. CASE Count(t) \/ Touch(t)
      <3>1. Ends(t) \/ \E next \in {"touch", "loop"} : Step(t, next) /\ op' = op
        BY <2>0, <2>9, DoneEnds DEF Count, Touch
      <3>2. ASSUME NEW next \in {"touch", "loop"}, Step(t, next), op' = op PROVE KeepsFresh(t)
        <4>1. Goes(t, next)
          BY <2>0, <3>2, StepGoes
        <4> QED BY <2>0, <2>3, <3>2, <4>1, <1>PcFacts
      <3> QED BY <2>4, <3>1, <3>2
    <2> QED BY <2>5, <2>6, <2>7, <2>8, <2>9
  \* A block is copied from.
  <1>FreshCopy.
      ASSUME Sound, NEW t \in Threads, Hit(t) \/ CopyRefreshed(t), Good'
      PROVE  KeepsFresh(t)
    <2> USE <1>FreshCopy
    <2>0. /\ Base /\ pc[t] \in ReadPcs /\ Busy(t) /\ Copy(t) /\ Block(t) \in DOMAIN cache
          /\ cache[Block(t)].mtime = op[t].mtime /\ UNCHANGED <<cache, buffers, state, mtimes>>
      <3>1. Base /\ Copy(t) /\ UNCHANGED <<cache, buffers, state, mtimes>> /\ pc[t] \in {"loop", "copy"}
        BY DEF Sound, Hit, CopyRefreshed, Copy
      <3>2. ASSUME Hit(t) PROVE Block(t) \in DOMAIN cache /\ cache[Block(t)].mtime = op[t].mtime
        BY <3>2 DEF Hit, is_valid
      <3>3. ASSUME CopyRefreshed(t)
            PROVE  Block(t) \in DOMAIN cache /\ cache[Block(t)].mtime = op[t].mtime
        BY <3>3, <1>CopyOf DEF CopyRefreshed
      <3>4. pc[t] \in ReadPcs
        BY <3>1, <1>PcFacts
      <3> QED BY <3>1, <3>2, <3>3, <3>4, <1>ReadSees
    <2>1. ~stale' /\ KeepsData(t)
      BY <2>0, <1>CopyFresh, <1>SameData DEF Good
    <2>2. CASE Ends(t)
      BY <2>1, <2>2, <1>FreshEnds DEF KeepsFresh
    <2>3. CASE Goes(t, "touch") /\ op'[t].ret = "none"
      <3>1. FreshAt(t)'
        BY <2>0, <2>3, <1>FreshGoes, <1>PcFacts
      <3> QED BY <2>1, <3>1 DEF KeepsFresh
    <2> QED BY <2>0, <2>2, <2>3, CopyGoes
  \* The blocks change.
  <1>FreshBlocks.
      ASSUME Sound, NEW t \in Threads, Refreshed(t) \/ DropBlock(t) \/ Evict(t) \/ Emplace(t)
      PROVE  KeepsFresh(t)
    <2> USE <1>FreshBlocks
    <2>0. /\ Base /\ Types /\ ReadsOn(t) /\ pc[t] \in ReadPcs /\ Busy(t) /\ op[t].ret # "direct"
          /\ FreshAt(t) /\ ~stale /\ RetAt(t) /\ op[t].bytes \in Seq(Nat) /\ op[t].mtime \in Nat
      <3>1. Base /\ ReadStep(t)
        BY DEF Sound, ReadStep
      <3> QED BY <3>1, ReadGoes, <1>ReadSees DEF Base, ReadsOn, Sound, Fresh, RetInv
    <2>1. ~stale' /\ UNCHANGED <<buffers, state, mtimes>>
      <3>1. UNCHANGED <<stale, buffers, state, mtimes>>
        BY DEF Refreshed, DropBlock, Evict, Emplace
      <3> QED BY <2>0, <3>1
    <2>2. CASE Refreshed(t)
      <3> DEFINE k == op[t].key
                 new == op[t].bytes
                 old == cache[k].bytes
                 bytes == [i \in 1 .. BlockSize |-> IF i <= Len(new) THEN new[i] ELSE old[i]]
                 b == [bytes |-> bytes, size |-> Len(new), mtime |-> op[t].mtime, ts |-> now]
      <3>0. pc[t] = "refreshed" /\ k = Block(t) /\ k \in DOMAIN cache
        BY <2>0, <2>2 DEF Refreshed, RetAt
      <3>1. BlockFresh(b)
        BY <2>0, <3>0, <1>NewFresh DEF FreshAt
      <3>2. cache' = [cache EXCEPT ![k] = b] /\ b.mtime = op[t].mtime
        BY <2>2, <3>0 DEF Refreshed
      <3> HIDE DEF b
      <3>3. DOMAIN cache' = DOMAIN cache /\ cache'[k] = b /\ \A x \in DOMAIN cache : x # k => cache'[x] = cache[x]
        BY <2>0, <3>0, <3>2 DEF Types
      <3>4. \A x \in DOMAIN cache' : BlockFresh(cache'[x])
        BY <3>1, <3>3 DEF Sound, Fresh
      <3>5. ASSUME NEW u \in Threads, u # t, pc[u] = "copy" PROVE cache'[Block(u)].mtime = op[u].mtime
        <4>1. Block(u) \in DOMAIN cache /\ cache[Block(u)].mtime = op[u].mtime
          BY <3>5, <1>CopyOf
        <4>2. CASE Block(u) = k
          <5>1. path(u) = path(t)
            <6>1. Block(u)[1] = path(u) /\ Block(t)[1] = path(t)
              BY DEF Block
            <6> QED BY <3>0, <4>2, <6>1
          <5>2. pc[u] \in ReadPcs
            BY <3>5, <1>PcFacts
          <5>3. op[u].mtime = op[t].mtime
            BY <2>0, <5>1, <5>2, <1>ReadSees
          <5> QED BY <3>2, <3>3, <4>2, <5>3
        <4> QED BY <3>3, <4>1, <4>2
      <3>6. KeepsData(t)
        BY <2>1, <3>4, <3>5, <1>OtherCache
      <3>7. Goes(t, "copy") /\ op' = op /\ SameBlock(t)
        BY <2>0, <2>2, StepGoes DEF Refreshed
      <3>8. Block(t)' = Block(t)
        BY <3>7 DEF Block, Seeker, path
      <3>9. FreshAt(t)'
        BY <2>0, <2>1, <3>0, <3>2, <3>3, <3>7, <3>8, <1>FreshGoes, <1>PcFacts
      <3> QED BY <2>1, <3>6, <3>9 DEF KeepsFresh
    <2>3. CASE DropBlock(t) \/ Evict(t)
      <3>1. remove_block(op[t].key) /\ Sharing = {}
        BY <2>3 DEF DropBlock, Evict, remove_block
      <3>2. \A x \in DOMAIN cache' : x \in DOMAIN cache /\ cache'[x] = cache[x]
        BY <2>0, <3>1, RemoveTypes
      <3>3. \A x \in DOMAIN cache' : BlockFresh(cache'[x])
        BY <3>2 DEF Sound, Fresh
      <3>4. \A u \in Threads : pc[u] # "copy"
        BY <3>1, <1>CopyOf
      <3>5. KeepsData(t)
        BY <2>1, <3>3, <3>4, <1>OtherCache
      <3>6. CASE DropBlock(t)
        <4>1. Goes(t, "forget") /\ op' = op
          BY <2>0, <3>6, StepGoes DEF DropBlock
        <4>2. FreshAt(t)'
          BY <2>0, <2>1, <4>1, <1>FreshGoes, <1>PcFacts
        <4> QED BY <2>1, <3>5, <4>2 DEF KeepsFresh
      <3>7. CASE Evict(t)
        <4>1. "miss" \in Rets
          BY DEF Rets
        <4>2. Goes(t, "ra") /\ op'[t].ret = "miss" /\ op'[t].want = BlockSize
          BY <2>0, <3>7, <4>1, AskGoes DEF Evict
        <4>3. FreshAt(t)'
          BY <2>0, <2>1, <4>2, <1>FreshGoes, <1>PcFacts
        <4> QED BY <2>1, <3>5, <4>3 DEF KeepsFresh
      <3> QED BY <2>3, <3>6, <3>7
    <2>4. CASE Emplace(t)
      <3>0. pc[t] = "emplace"
        BY <2>4 DEF Emplace
      <3>1. FreshAt(t)'
        <4>1. CASE Ends(t)
          BY <4>1, <1>FreshEnds
        <4>2. ASSUME NEW next \in {"touch", "count"}, Step(t, next), op' = op PROVE FreshAt(t)'
          <5>1. Goes(t, next)
            BY <2>0, <4>2, StepGoes
          <5>2. /\ next \in ReadPcs /\ next \notin RaPcs \cup {"lock_block"}
                /\ next \notin {"ra_update", "refreshed", "emplace", "copy"}
            BY <1>PcFacts
          <5> QED BY <2>0, <2>1, <4>2, <5>1, <5>2, <1>FreshGoes
        <4> QED BY <2>0, <2>4, <4>1, <4>2, DoneEnds DEF Emplace
      <3>2. CASE cache' = cache
        BY <2>1, <3>1, <3>2, <1>SameData DEF KeepsFresh
      <3>3. CASE cache' # cache
        <4> DEFINE k == op[t].key
                   new == op[t].bytes
                   old == Zeros
                   bytes == [i \in 1 .. BlockSize |-> IF i <= Len(new) THEN new[i] ELSE old[i]]
                   b == [bytes |-> bytes, size |-> Len(new), mtime |-> op[t].mtime, ts |-> now]
        <4>1. BlockFresh(b)
          BY <2>0, <3>0, <1>NewFresh DEF FreshAt
        <4>2. bytes = [i \in 1 .. BlockSize |-> IF i <= Len(new) THEN new[i] ELSE 0]
          BY DEF Zeros
        <4>3. k \notin DOMAIN cache /\ cache' = [x \in DOMAIN cache \cup {k} |-> IF x # k THEN cache[x] ELSE b]
          BY <2>4, <3>3, <4>2 DEF Emplace
        <4> HIDE DEF b
        <4>4. \A x \in DOMAIN cache' : BlockFresh(cache'[x])
          BY <4>1, <4>3 DEF Sound, Fresh
        <4>5. \A x \in DOMAIN cache : cache'[x] = cache[x]
          BY <4>3
        <4>6. \A u \in Threads : u # t /\ pc[u] = "copy" => cache'[Block(u)].mtime = op[u].mtime
          BY <4>5, <1>CopyOf
        <4>7. KeepsData(t)
          BY <2>1, <4>4, <4>6, <1>OtherCache
        <4> QED BY <2>1, <3>1, <4>7 DEF KeepsFresh
      <3> QED BY <3>2, <3>3
    <2> QED BY <2>2, <2>3, <2>4
  \* A part of bytes that are not stale is not stale.
  <1>SliceFresh.
      ASSUME NEW bytes \in Seq(Nat), NEW o \in Nat, NEW n \in Nat, NEW v, All(bytes, v)
      PROVE  /\ Slice(bytes, o, n) \in Seq(Nat) /\ Len(Slice(bytes, o, n)) <= n
             /\ All(Slice(bytes, o, n), v)
    <2> USE <1>SliceFresh
    <2>1. /\ Slice(bytes, o, n) \in Seq(Nat) /\ Len(Slice(bytes, o, n)) <= n
          /\ \A i \in DOMAIN Slice(bytes, o, n) :
               \E j \in DOMAIN bytes : Slice(bytes, o, n)[i] = bytes[j]
      BY SliceFacts
    <2> QED BY <2>1 DEF All
  \* What the next layer returns is from the open on.
  <1>FetchFresh.
      ASSUME Sound, NEW t \in Threads, pc[t] \in RaPcs
      PROVE  /\ ra_fetch(path(t), op[t].at, op[t].want) \in Seq(Nat)
             /\ All(ra_fetch(path(t), op[t].at, op[t].want), op[t].mtime)
    <2> USE <1>FetchFresh
    <2>0. /\ op[t].mtime <= file[path(t)].ver /\ op[t].mtime \in Nat /\ file[path(t)].ver \in Nat
          /\ file[path(t)].len \in Nat /\ op[t].at \in Nat /\ op[t].want \in Nat
      <3>1. pc[t] \in ReadPcs
        BY DEF ReadPcs
      <3> QED BY <3>1, <1>ReadSees
    <2>1. Content(path(t)) \in Seq(Nat)
      BY <2>0, SMT DEF Content
    <2>2. All(Content(path(t)), op[t].mtime)
      BY <2>0 DEF All, Content
    <2>3. (IF op[t].want > Ahead THEN op[t].want ELSE Ahead) \in Nat
      BY <2>0, DataCacheAssumption
    <2> QED BY <2>0, <2>1, <2>2, <2>3, <1>SliceFresh DEF ra_fetch
  \* What a buffer answers is from the open on.
  <1>HitFresh.
      ASSUME Sound, NEW t \in Threads, pc[t] \in RaPcs, path(t) \in DOMAIN buffers,
             ra_hit(path(t), op[t].at, op[t].want)
      PROVE  /\ ra_bytes(path(t), op[t].at, op[t].want) \in Seq(Nat)
             /\ All(ra_bytes(path(t), op[t].at, op[t].want), op[t].mtime)
             /\ Len(ra_bytes(path(t), op[t].at, op[t].want)) <= op[t].want
    <2> USE <1>HitFresh
    <2>0. /\ op[t].h \in Handles /\ state[op[t].h] = "open" /\ Used(op[t].h) /\ path(t) = PathOf[op[t].h]
          /\ op[t].mtime = mtimes[path(t)] /\ op[t].at \in Nat /\ op[t].want \in Nat
      <3>1. pc[t] \in ReadPcs
        BY DEF ReadPcs
      <3> QED BY <3>1, <1>ReadSees
    <2>1. buffers[path(t)] \in Buffers
      BY DEF Sound, Base, Types
    <2>2. buffers[path(t)].bytes \in Seq(Nat) /\ buffers[path(t)].offset \in Nat
      BY <2>1 DEF Buffers
    <2>3. All(buffers[path(t)].bytes, op[t].mtime)
      <3>1. PICK h \in Handles :
              /\ PathOf[h] = path(t)
              /\ \/ state[h] = "releasing"
                 \/ state[h] = "open" /\ All(buffers[path(t)].bytes, mtimes[path(t)])
        BY DEF ra_hit, Sound, Fresh, BufferFresh
      <3>2. h = op[t].h
        <4>1. Used(h)
          BY <3>1, Labels DEF Used
        <4> QED BY <2>0, <3>1, <4>1, <1>OnePerPath DEF Sound
      <3> QED BY <2>0, <3>1, <3>2, Labels
    <2>4. op[t].at - buffers[path(t)].offset \in Nat
      BY <2>0, <2>2, SMT DEF ra_hit
    <2> QED BY <2>0, <2>2, <2>3, <2>4, <1>SliceFresh DEF ra_bytes
  <1>ReturnsFresh.
      ASSUME Sound, NEW t \in Threads, pc[t] \in RaPcs, NEW bytes \in Seq(Nat), Returns(t, bytes),
             mtimes' = mtimes, All(bytes, op[t].mtime), Len(bytes) <= BlockSize
      PROVE  ~stale' /\ FreshAt(t)'
    <2> USE <1>ReturnsFresh
    <2>0. Base /\ pc[t] \in ReadPcs /\ op[t].ret # "direct" /\ ~stale
      <3>1. pc[t] \in ReadPcs
        BY DEF ReadPcs
      <3> QED BY <3>1, <1>ReadSees DEF Sound, Fresh
    <2>1. PICK next \in {"refreshed", "emplace"} :
            stale' = stale /\ Goes(t, next) /\ op'[t].bytes = bytes /\ op'[t].ret = op[t].ret
      BY <2>0, ReturnsGoes
    <2>2. next \in ReadPcs /\ next \notin RaPcs \cup {"lock_block"} /\ next # "copy"
      BY <1>PcFacts
    <2>3. FreshAt(t)'
      BY <2>0, <2>1, <2>2, <1>FreshGoes
    <2> QED BY <2>0, <2>1, <2>3
  <1>FreshRa.
      ASSUME Sound, NEW t \in Threads, RaRead(t) \/ RaRemote(t) \/ RaUpdate(t) \/ RaFails(t), Good'
      PROVE  KeepsFresh(t)
    <2> USE <1>FreshRa
    <2>0. /\ Base /\ Types /\ pc[t] \in RaPcs /\ pc[t] \in ReadPcs /\ op[t].ret # "direct" /\ FreshAt(t)
          /\ ~stale /\ op[t].want = BlockSize /\ op[t].bytes \in Seq(Nat)
          /\ mtimes' = mtimes /\ state' = state
      <3>1. pc[t] \in RaPcs
        BY <1>PcFacts DEF RaRead, RaRemote, RaUpdate, RaFails
      <3>2. pc[t] \in ReadPcs /\ FreshAt(t)
        BY <3>1 DEF ReadPcs, Sound, Fresh
      <3>3. op[t].want = BlockSize /\ mtimes' = mtimes /\ state' = state
        BY <3>1, <3>2 DEF FreshAt, RaRead, RaRemote, RaUpdate, RaFails
      <3> QED BY <3>1, <3>2, <3>3, <1>ReadSees DEF Sound, Base, Fresh
    <2>1. CASE RaRead(t)
      <3>0. KeepsData(t)
        BY <2>0, <2>1, <1>SameData DEF RaRead
      <3>1. CASE /\ path(t) \in DOMAIN buffers /\ ra_hit(path(t), op[t].at, op[t].want)
                 /\ Returns(t, ra_bytes(path(t), op[t].at, op[t].want))
        <4>1. ~stale' /\ FreshAt(t)'
          BY <2>0, <3>1, <1>HitFresh, <1>ReturnsFresh
        <4> QED BY <3>0, <4>1 DEF KeepsFresh
      <3>2. ASSUME NEW next \in {"ra_remote", "lost"}, Step(t, next), op' = op, stale' = stale
            PROVE  KeepsFresh(t)
        <4>1. Goes(t, next)
          BY <2>0, <3>2, StepGoes
        <4>2. next \in ReadPcs /\ next \notin {"ra_update", "refreshed", "emplace", "copy"}
          BY <1>PcFacts
        <4>3. FreshAt(t)'
          BY <2>0, <3>2, <4>1, <4>2, <1>FreshGoes
        <4> QED BY <2>0, <3>0, <3>2, <4>3 DEF KeepsFresh
      <3> QED BY <2>1, <3>1, <3>2 DEF RaRead
    <2>2. CASE RaRemote(t)
      <3>0. KeepsData(t) /\ ~stale'
        <4>1. UNCHANGED <<buffers, cache, state, mtimes, stale>>
          BY <2>2 DEF RaRemote
        <4> QED BY <2>0, <4>1, <1>SameData
      <3>1. PICK v \in Seq(Nat) : v = ra_fetch(path(t), op[t].at, op[t].want) /\ All(v, op[t].mtime)
        BY <2>0, <1>FetchFresh
      <3>2. /\ Goes(t, "ra_update") /\ op'[t].bytes = v
            /\ op'[t].ret = op[t].ret /\ op'[t].want = op[t].want
        BY <2>0, <2>2, <3>1, SetGoes DEF RaRemote
      <3>3. "ra_update" \in ReadPcs /\ "ra_update" \notin {"refreshed", "emplace", "copy"}
        BY <1>PcFacts
      <3>4. FreshAt(t)'
        BY <2>0, <3>1, <3>2, <3>3, <1>FreshGoes
      <3> QED BY <3>0, <3>4 DEF KeepsFresh
    <2>3. CASE RaUpdate(t)
      <3>1. /\ pc[t] = "ra_update" /\ cache' = cache /\ All(op[t].bytes, op[t].mtime)
            /\ buffers' = [buffers EXCEPT ![path(t)] =
                             [set |-> TRUE, offset |-> op[t].at, bytes |-> op[t].bytes]]
        BY <2>0, <2>3 DEF RaUpdate, ra_update, FreshAt
      <3>2. PICK v \in Seq(Nat) : v = Slice(op[t].bytes, 0, op[t].want) /\ All(v, op[t].mtime)
                                  /\ Len(v) <= BlockSize
        <4>1. 0 \in Nat /\ op[t].want \in Nat
          BY <2>0, <1>ReadSees, SMT
        <4> QED BY <2>0, <3>1, <4>1, <1>SliceFresh
      <3>3. ~stale' /\ FreshAt(t)'
        BY <2>0, <2>3, <3>2, <1>ReturnsFresh DEF RaUpdate
      <3>4. ASSUME NEW p \in DOMAIN buffers' PROVE BufferFresh(p)'
        <4>0. p \in DOMAIN buffers
          BY <3>1
        <4>1. CASE p # path(t)
          <5>1. buffers'[p] = buffers[p]
            BY <3>1, <4>0, <4>1
          <5>2. BufferFresh(p)
            BY <4>0 DEF Sound, Fresh
          <5> QED BY <2>0, <5>1, <5>2 DEF BufferFresh
        <4>2. CASE p = path(t)
          <5>1. buffers'[p] = [set |-> TRUE, offset |-> op[t].at, bytes |-> op[t].bytes]
            BY <3>1, <4>0, <4>2
          <5>2. buffers'[p].bytes = op[t].bytes
            BY <5>1, SMT
          <5>3. op[t].h \in Handles /\ state[op[t].h] = "open" /\ PathOf[op[t].h] = p
                /\ op[t].mtime = mtimes[p]
            BY <2>0, <4>2, <1>ReadSees
          <5> QED BY <2>0, <3>1, <5>2, <5>3 DEF BufferFresh
        <4> QED BY <4>1, <4>2
      <3>5. KeepsData(t)
        BY <3>1, <3>4, <1>CopyOf DEF KeepsData, Sound, Fresh
      <3> QED BY <3>3, <3>5 DEF KeepsFresh
    <2>4. CASE RaFails(t)
      <3>1. op[t].ret # "refresh"
        BY <2>4 DEF RaFails, Good
      <3>2. UNCHANGED <<buffers, cache, stale>> /\ Done(t)
        BY <2>4, <3>1 DEF RaFails
      <3>3. KeepsData(t) /\ ~stale'
        BY <2>0, <3>2, <1>SameData
      <3> QED BY <2>0, <3>2, <3>3, DoneEnds, <1>FreshEnds DEF KeepsFresh
    <2> QED BY <2>1, <2>2, <2>3, <2>4
  <1>FreshReadStep.
      ASSUME Sound, NEW t \in Threads, ReadStep(t), Good'
      PROVE  Fresh'
    <2> USE <1>FreshReadStep
    <2>0. KeepsFresh(t) /\ ReadsOn(t)
      BY <1>FreshControl, <1>FreshCopy, <1>FreshBlocks, <1>FreshRa, ReadGoes DEF ReadStep, Sound
    <2>1. Others(t) /\ UNCHANGED <<file, mtimes, state, floor>>
      BY <2>0 DEF ReadsOn, Ends, Goes
    <2>2. \A h \in Handles : HandleFresh(h)'
      BY <2>1 DEF HandleFresh, Sound, Fresh
    <2>3. ASSUME NEW u \in Threads, u # t PROVE FreshAt(u)'
      BY <2>0, <2>1, <2>3, <1>FreshStays DEF Others, KeepsFresh, KeepsData
    <2> QED BY <2>0, <2>2, <2>3 DEF Fresh, KeepsFresh, KeepsData
  <1>FreshStep.
      ASSUME Sound, UNCHANGED <<cache, stale>>,
             \A h \in Handles : HandleFresh(h)',
             \A t \in Threads : FreshAt(t)',
             \A p \in DOMAIN buffers' : BufferFresh(p)'
      PROVE  Fresh'
    BY <1>FreshStep DEF Sound, Fresh
  <1>FreshOpen.
      ASSUME Sound, NEW t \in Threads, NEW h \in Handles, Open(t, h)
      PROVE  Fresh'
    <2> USE <1>FreshOpen
    <2>0. Types /\ HandleInv /\ Base /\ PathOf[h] \in Paths /\ file[PathOf[h]] \in [ver : Nat, len : Nat]
      BY DataCacheAssumption DEF Sound, Base, Types
    <2>1. Begins(t, h, "open_attr")
      BY <2>0, CallBegins DEF Open
    <2>2. UNCHANGED <<cache, stale, mtimes, file>> /\ state[h] = "closed" /\ ra_open(PathOf[h])
      BY DEF Open
    <2>3. /\ state'[h] = "opening" /\ floor'[h] = file[PathOf[h]].ver
          /\ \A g \in Handles : g # h => state'[g] = state[g] /\ floor'[g] = floor[g]
      BY <2>0 DEF Open, Types
    <2>5. ASSUME NEW g \in Handles PROVE HandleFresh(g)'
      <3>1. CASE g = h
        <4>1. file[PathOf[h]].ver \in Nat
          BY <2>0
        <4>2. file[PathOf[h]].ver <= file[PathOf[h]].ver
          BY <4>1, SMT
        <4> QED BY <2>2, <2>3, <3>1, <4>2, Labels DEF HandleFresh
      <3>2. CASE g # h
        BY <2>2, <2>3, <3>2 DEF HandleFresh, Sound, Fresh
      <3> QED BY <3>1, <3>2
    <2>6. ASSUME NEW u \in Threads PROVE FreshAt(u)'
      <3>1. CASE u = t
        <4>1. pc'[u] = "open_attr"
          BY <2>1, <3>1 DEF Begins
        <4>2. "open_attr" \notin ReadPcs /\ "open_attr" \notin RaPcs
          BY SMT DEF ReadPcs, RaPcs
        <4> QED BY <4>1, <4>2 DEF FreshAt
      <3>2. CASE u # t
        <4>1. pc'[u] = pc[u] /\ op'[u] = op[u]
          BY <2>1, <3>2 DEF Begins, Others
        <4>2. pc[u] = "open_store" => floor'[op[u].h] = floor[op[u].h]
          <5>1. pc[u] = "open_store" => Busy(u)
            BY DEF Busy
          <5> QED BY <2>0, <2>2, <2>3, <5>1, StateOf
        <4> QED BY <2>2, <4>1, <4>2, <1>FreshStays, <1>CopyOf
      <3> QED BY <3>1, <3>2
    <2>7. ASSUME NEW p \in DOMAIN buffers' PROVE BufferFresh(p)'
      <3>1. CASE p \in DOMAIN buffers
        <4>1. buffers'[p] = buffers[p] /\ BufferFresh(p)
          BY <2>2, <3>1 DEF ra_open, Sound, Fresh
        <4>2. \A g \in Handles : state[g] # "closed" => state'[g] = state[g]
          BY <2>2, <2>3
        <4> QED BY <2>2, <4>1, <4>2, Labels DEF BufferFresh
      <3>2. CASE p \notin DOMAIN buffers
        <4>1. buffers'[p] = NoBuffer
          BY <2>2, <2>7, <3>2 DEF ra_open
        <4>2. ~NoBuffer.set
          BY DEF NoBuffer
        <4> QED BY <4>1, <4>2 DEF BufferFresh
      <3> QED BY <3>1, <3>2
    <2> QED BY <2>2, <2>5, <2>6, <2>7, <1>FreshStep
  <1>FreshRelease.
      ASSUME Sound, NEW t \in Threads, NEW h \in Handles, Release(t, h)
      PROVE  Fresh'
    <2> USE <1>FreshRelease
    <2>0. Types /\ HandleInv /\ Base /\ AloneInv /\ Good
      BY DEF Sound, Base
    <2>1. Begins(t, h, "release")
      BY <2>0, CallBegins DEF Release
    <2>2. /\ UNCHANGED <<cache, stale, file, floor, buffers>> /\ state[h] = "open" /\ Used(h)
          /\ \A u \in Threads : Busy(u) => op[u].h # h
      BY Labels DEF Release, Busy, Used
    <2>3. state'[h] = "releasing" /\ \A g \in Handles : g # h => state'[g] = state[g]
      BY <2>0 DEF Release, Types
    <2>4. DOMAIN mtimes' = DOMAIN mtimes \ {PathOf[h]} /\ \A p \in DOMAIN mtimes' : mtimes'[p] = mtimes[p]
      <3> DEFINE S == DOMAIN mtimes \ {PathOf[h]}
      <3>1. mtimes' = Restrict(mtimes, S) /\ S \subseteq DOMAIN mtimes
        BY DEF Release
      <3> HIDE DEF S
      <3>2. DOMAIN mtimes' = S /\ \A p \in S : mtimes'[p] = mtimes[p]
        BY <3>1 DEF Restrict
      <3> QED BY <3>2 DEF S
    <2>5. ASSUME NEW g \in Handles, g # h, state[g] = "open"
          PROVE  /\ PathOf[g] # PathOf[h] /\ PathOf[g] \in DOMAIN mtimes'
                 /\ mtimes'[PathOf[g]] = mtimes[PathOf[g]]
      <3>1. Used(g) /\ HandleFresh(g)
        BY <2>5, Labels DEF Used, Sound, Fresh
      <3>2. PathOf[g] # PathOf[h]
        BY <2>0, <2>2, <2>5, <3>1, <1>OnePerPath
      <3> QED BY <2>4, <2>5, <3>1, <3>2 DEF HandleFresh
    <2>6. ASSUME NEW g \in Handles PROVE HandleFresh(g)'
      <3>1. CASE g = h
        BY <2>3, <3>1, Labels DEF HandleFresh
      <3>2. CASE g # h
        <4>1. HandleFresh(g) /\ state'[g] = state[g]
          BY <2>3, <3>2 DEF Sound, Fresh
        <4> QED BY <2>2, <2>5, <3>2, <4>1 DEF HandleFresh
      <3> QED BY <3>1, <3>2
    <2>7. ASSUME NEW u \in Threads PROVE FreshAt(u)'
      <3>1. CASE u = t
        <4>1. pc'[u] = "release"
          BY <2>1, <3>1 DEF Begins
        <4>2. "release" \notin ReadPcs /\ "release" \notin RaPcs
          BY SMT DEF ReadPcs, RaPcs
        <4> QED BY <4>1, <4>2 DEF FreshAt
      <3>2. CASE u # t
        <4>1. pc'[u] = pc[u] /\ op'[u] = op[u]
          BY <2>1, <3>2 DEF Begins, Others
        <4>2. pc[u] \in ReadPcs => mtimes'[path(u)] = mtimes[path(u)]
          BY <2>2, <2>5, <1>ReadSees
        <4> QED BY <2>2, <4>1, <4>2, <1>FreshStays, <1>CopyOf
      <3> QED BY <3>1, <3>2
    <2>8. ASSUME NEW p \in DOMAIN buffers' PROVE BufferFresh(p)'
      <3>1. SUFFICES ASSUME buffers[p].set
                     PROVE  \E g \in Handles : /\ PathOf[g] = p
                              /\ \/ state'[g] = "releasing"
                                 \/ state'[g] = "open" /\ All(buffers[p].bytes, mtimes'[p])
        BY <2>2 DEF BufferFresh
      <3>2. PICK g \in Handles : /\ PathOf[g] = p
                                 /\ \/ state[g] = "releasing"
                                    \/ state[g] = "open" /\ All(buffers[p].bytes, mtimes[p])
        BY <2>2, <2>8, <3>1 DEF BufferFresh, Sound, Fresh
      <3>3. CASE g = h
        BY <2>3, <3>2, <3>3
      <3>4. CASE g # h /\ state[g] = "releasing"
        BY <2>3, <3>2, <3>4
      <3>5. CASE g # h /\ state[g] = "open" /\ All(buffers[p].bytes, mtimes[p])
        <4>1. state'[g] = "open" /\ mtimes'[p] = mtimes[p]
          BY <2>3, <2>5, <3>2, <3>5
        <4> QED BY <3>2, <3>5, <4>1
      <3> QED BY <3>2, <3>3, <3>4, <3>5
    <2> QED BY <2>2, <2>6, <2>7, <2>8, <1>FreshStep
  <1>FreshBegins.
      ASSUME Sound, NEW t \in Threads, NEW h \in Handles, NEW r \in Reads, Read(t, h, r)
      PROVE  Fresh'
    <2> USE <1>FreshBegins
    <2>0. Types /\ HandleFresh(h)
      BY DEF Sound, Base, Fresh
    <2>1. UNCHANGED <<cache, stale, file, floor, buffers, mtimes, state>> /\ state[h] = "open"
      BY DEF Read
    <2>2. Begins(t, h, "loop") /\ op'[t].ret = "none" /\ op'[t].mtime = mtimes[PathOf[h]]
      BY <2>0, <2>1, ReadBegins DEF HandleFresh
    <2>3. ASSUME NEW u \in Threads PROVE FreshAt(u)'
      <3>1. CASE u = t
        <4>1. pc'[u] = "loop" /\ path(u)' = PathOf[h]
          BY <2>2, <3>1 DEF Begins, path
        <4>2. "loop" \notin {"ra_update", "refreshed", "emplace", "copy", "open_store"}
              /\ "loop" \notin RaPcs \cup {"lock_block"}
          BY <1>PcFacts
        <4> QED BY <2>1, <2>2, <3>1, <4>1, <4>2, <1>PcFacts DEF FreshAt
      <3>2. CASE u # t
        <4>1. pc'[u] = pc[u] /\ op'[u] = op[u]
          BY <2>2, <3>2 DEF Begins, Others
        <4> QED BY <2>1, <4>1, <1>FreshStays, <1>CopyOf
      <3> QED BY <3>1, <3>2
    <2>4. \A g \in Handles : HandleFresh(g)'
      BY <2>1 DEF HandleFresh, Sound, Fresh
    <2>5. \A p \in DOMAIN buffers' : BufferFresh(p)'
      BY <2>1 DEF BufferFresh, Sound, Fresh
    <2> QED BY <2>1, <2>3, <2>4, <2>5, <1>FreshStep
  <1>FreshAttr.
      ASSUME Sound, NEW t \in Threads, OpenAttr(t)
      PROVE  Fresh'
    <2> USE <1>FreshAttr
    <2>0. Types /\ HandleInv /\ Base /\ pc[t] = "open_attr" /\ Busy(t)
      BY DEF Sound, Base, OpenAttr, Busy
    <2>1. UNCHANGED <<cache, stale, file, floor, buffers, mtimes, state>>
      BY DEF OpenAttr
    <2>2. /\ pc'[t] = "open_store" /\ Others(t) /\ op'[t].h = op[t].h
          /\ op'[t].mtime = file[path(t)].ver
      BY <2>0, AttrGoes
    <2>3. ASSUME NEW u \in Threads PROVE FreshAt(u)'
      <3>1. CASE u = t
        <4>1. path(t)' = path(t) /\ path(t) = PathOf[op[t].h] /\ path(t) \in Paths
          BY <2>0, <2>2, BlockKey DEF path
        <4>2. floor[op[t].h] <= file[path(t)].ver
          <5>1. op[t].h \in Handles /\ state[op[t].h] = "opening"
            BY <2>0, Labels DEF HandleInv
          <5>2. HandleFresh(op[t].h)
            BY <5>1 DEF Sound, Fresh
          <5> QED BY <4>1, <5>1, <5>2 DEF HandleFresh
        <4>3. file[path(t)].ver <= file[path(t)].ver
          <5>1. file[path(t)] \in [ver : Nat, len : Nat]
            BY <2>0, <4>1 DEF Types
          <5>2. file[path(t)].ver \in Nat
            BY <5>1
          <5> QED BY <5>2, SMT
        <4>4. /\ "open_store" \notin {"ra_update", "refreshed", "emplace", "copy"}
              /\ "open_store" \notin ReadPcs /\ "open_store" \notin RaPcs \cup {"lock_block"}
          BY SMT DEF ReadPcs, RaPcs
        <4> QED BY <2>1, <2>2, <3>1, <4>1, <4>2, <4>3, <4>4 DEF FreshAt
      <3>2. CASE u # t
        <4>1. pc'[u] = pc[u] /\ op'[u] = op[u]
          BY <2>2, <3>2 DEF Others
        <4> QED BY <2>1, <4>1, <1>FreshStays, <1>CopyOf
      <3> QED BY <3>1, <3>2
    <2>4. \A g \in Handles : HandleFresh(g)'
      BY <2>1 DEF HandleFresh, Sound, Fresh
    <2>5. \A p \in DOMAIN buffers' : BufferFresh(p)'
      BY <2>1 DEF BufferFresh, Sound, Fresh
    <2> QED BY <2>1, <2>3, <2>4, <2>5, <1>FreshStep
  <1>FreshOpened.
      ASSUME Sound, NEW t \in Threads, OpenFails(t) \/ OpenStore(t) \/ ReleaseNext(t)
      PROVE  Fresh'
    <2> USE <1>FreshOpened
    <2> DEFINE h == op[t].h
    <2>0. /\ Types /\ HandleInv /\ Base /\ AloneInv /\ Good /\ Ends(t) /\ Busy(t)
          /\ pc[t] \in {"open_attr", "open_store", "release"} /\ FreshAt(t)
          /\ h \in Handles /\ path(t) = PathOf[h] /\ Used(h)
      <3>1. /\ Types /\ HandleInv /\ Base /\ AloneInv /\ Good /\ FreshAt(t)
            /\ pc[t] \in {"open_attr", "open_store", "release"} /\ Busy(t)
        BY DEF Sound, Base, Fresh, OpenFails, OpenStore, ReleaseNext, Busy
      <3>2. Ends(t)
        BY <3>1, DoneEnds DEF OpenFails, OpenStore, ReleaseNext
      <3> QED BY <3>1, <3>2, StateOf DEF path, Used
    <2>1. UNCHANGED <<cache, stale, file>>
      BY DEF OpenFails, OpenStore, ReleaseNext
    <2>2. /\ state'[h] \in {"open", "closed"}
          /\ \A g \in Handles : g # h => state'[g] = state[g] /\ floor'[g] = floor[g]
      BY <2>0 DEF Types, OpenFails, OpenStore, ReleaseNext
    <2>3. /\ DOMAIN mtimes \subseteq DOMAIN mtimes'
          /\ \A p \in DOMAIN mtimes' : p # path(t) => p \in DOMAIN mtimes /\ mtimes'[p] = mtimes[p]
      BY DEF OpenFails, OpenStore, ReleaseNext
    <2>4. ASSUME state'[h] = "open"
          PROVE  /\ pc[t] = "open_store" /\ path(t) \in DOMAIN mtimes' /\ mtimes'[path(t)] = op[t].mtime
                 /\ floor' = floor
      <3>1. OpenStore(t)
        BY <2>0, <2>4, Labels DEF Types, OpenFails, ReleaseNext
      <3> QED BY <3>1 DEF OpenStore
    <2>5. ASSUME NEW g \in Handles, g # h, Used(g) PROVE PathOf[g] # path(t)
      BY <2>0, <2>5, <1>OnePerPath
    <2>6. ASSUME NEW g \in Handles PROVE HandleFresh(g)'
      <3>1. CASE g = h
        <4>1. CASE state'[h] = "open"
          BY <2>0, <2>1, <2>4, <3>1, <4>1, Labels DEF FreshAt, HandleFresh
        <4>2. CASE state'[h] = "closed"
          BY <3>1, <4>2, Labels DEF HandleFresh
        <4> QED BY <2>2, <4>1, <4>2
      <3>2. CASE g # h
        <4>1. state'[g] = state[g] /\ floor'[g] = floor[g] /\ HandleFresh(g)
          BY <2>2, <3>2 DEF Sound, Fresh
        <4>2. state[g] = "open" => PathOf[g] # path(t)
          BY <2>5, <3>2, Labels DEF Used
        <4> QED BY <2>1, <2>3, <4>1, <4>2 DEF HandleFresh
      <3> QED BY <3>1, <3>2
    <2>7. ASSUME NEW u \in Threads PROVE FreshAt(u)'
      <3>1. CASE u = t
        BY <2>0, <3>1, <1>FreshEnds
      <3>2. CASE u # t
        <4>1. pc'[u] = pc[u] /\ op'[u] = op[u]
          BY <2>0, <3>2 DEF Ends, Others
        <4>2. ASSUME Busy(u) PROVE op[u].h \in Handles /\ op[u].h # h /\ Used(op[u].h)
          BY <2>0, <3>2, <4>2, AloneOn, StateOf DEF Used
        <4>3. pc[u] = "open_store" => floor'[op[u].h] = floor[op[u].h]
          <5>1. pc[u] = "open_store" => Busy(u)
            BY DEF Busy
          <5> QED BY <2>2, <4>2, <5>1
        <4>4. ASSUME pc[u] \in ReadPcs PROVE mtimes'[path(u)] = mtimes[path(u)]
          <5>1. path(u) \in DOMAIN mtimes /\ path(u) = PathOf[op[u].h] /\ Busy(u)
            BY <4>4, <1>ReadSees
          <5>2. path(u) # path(t)
            BY <2>5, <4>2, <5>1
          <5> QED BY <2>3, <5>1, <5>2
        <4> QED BY <2>1, <4>1, <4>3, <4>4, <1>FreshStays, <1>CopyOf
      <3> QED BY <3>1, <3>2
    <2>8. ASSUME NEW p \in DOMAIN buffers' PROVE BufferFresh(p)'
      <3>0. p \in DOMAIN buffers /\ buffers'[p] = buffers[p] /\ (ReleaseNext(t) => p # path(t))
        <4>1. CASE ReleaseNext(t)
          <5> DEFINE S == DOMAIN buffers \ {path(t)}
          <5>1. buffers' = Restrict(buffers, S) /\ S \subseteq DOMAIN buffers
            BY <4>1 DEF ReleaseNext, ra_release
          <5> HIDE DEF S
          <5>2. p \in S /\ buffers'[p] = buffers[p]
            BY <2>8, <5>1 DEF Restrict
          <5> QED BY <5>2 DEF S
        <4>2. CASE ~ReleaseNext(t)
          BY <2>8, <4>2 DEF OpenFails, OpenStore
        <4> QED BY <4>1, <4>2
      <3>1. SUFFICES ASSUME buffers[p].set
                     PROVE  \E g \in Handles : /\ PathOf[g] = p
                              /\ \/ state'[g] = "releasing"
                                 \/ state'[g] = "open" /\ All(buffers[p].bytes, mtimes'[p])
        BY <3>0 DEF BufferFresh
      <3>2. PICK g \in Handles : /\ PathOf[g] = p
                                 /\ \/ state[g] = "releasing"
                                    \/ state[g] = "open" /\ All(buffers[p].bytes, mtimes[p])
        BY <3>0, <3>1 DEF BufferFresh, Sound, Fresh
      <3>3. g # h /\ Used(g)
        <4>1. CASE ReleaseNext(t)
          BY <2>0, <3>0, <3>2, <4>1, Labels DEF Used
        <4>2. CASE ~ReleaseNext(t)
          <5>1. pc[t] \in {"open_attr", "open_store"}
            BY <4>2 DEF OpenFails, OpenStore
          <5>2. state[h] = "opening"
            BY <2>0, <5>1, Labels DEF HandleInv
          <5> QED BY <3>2, <5>2, Labels DEF Used
        <4> QED BY <4>1, <4>2
      <3>4. state'[g] = state[g] /\ p # path(t)
        BY <2>2, <2>5, <3>2, <3>3
      <3>5. CASE state[g] = "releasing"
        BY <3>2, <3>4, <3>5
      <3>6. CASE state[g] = "open" /\ All(buffers[p].bytes, mtimes[p])
        <4>1. p \in DOMAIN mtimes
          BY <3>2, <3>6 DEF Sound, Fresh, HandleFresh
        <4>2. mtimes'[p] = mtimes[p]
          BY <2>3, <3>4, <4>1
        <4> QED BY <3>2, <3>4, <3>6, <4>2
      <3> QED BY <3>2, <3>5, <3>6
    <2> QED BY <2>1, <2>6, <2>7, <2>8, <1>FreshStep
  <1>FreshWorld.
      ASSUME Sound, Tick \/ (\E p \in Paths : Change(p)) \/ UNCHANGED vars
      PROVE  Fresh'
    <2> USE <1>FreshWorld
    <2>0. Types /\ HandleInv
      BY DEF Sound, Base
    <2>1. UNCHANGED <<cache, stale, floor, buffers, mtimes, state, pc, op>>
      BY DEF Tick, Change, vars
    <2>2. ASSUME NEW p \in Paths
          PROVE  /\ file[p].ver \in Nat /\ file'[p].ver \in Nat /\ file[p].ver <= file'[p].ver
      <3>0. file[p] \in [ver : Nat, len : Nat]
        BY <2>0 DEF Types
      <3>1. file[p].ver \in Nat /\ file[p].ver <= file[p].ver
        BY <3>0, SMT
      <3>2. CASE file'[p] = file[p]
        BY <3>1, <3>2
      <3>3. CASE file'[p] # file[p]
        <4>1. PICK q \in Paths : Change(q)
          BY <3>3 DEF Tick, vars
        <4>2. PICK n \in Lens : file' = [file EXCEPT ![q] = [ver |-> @.ver + 1, len |-> n]]
          BY <4>1 DEF Change
        <4>3. file'[p] = [ver |-> file[p].ver + 1, len |-> n]
          BY <2>0, <3>3, <4>2 DEF Types
        <4>4. file'[p].ver = file[p].ver + 1
          BY <4>3, SMT
        <4> QED BY ONLY <3>1, <4>4, SMT
      <3> QED BY <3>2, <3>3
    <2>3. ASSUME NEW p \in Paths, NEW v \in Nat, v <= file[p].ver PROVE v <= file'[p].ver
      <3>1. /\ file[p].ver \in Nat /\ file'[p].ver \in Nat /\ file[p].ver <= file'[p].ver
        BY <2>2
      <3> QED BY ONLY <2>3, <3>1, SMT
    <2>4. ASSUME NEW h \in Handles PROVE HandleFresh(h)'
      <3>1. HandleFresh(h) /\ PathOf[h] \in Paths /\ floor[h] \in Nat
            /\ (PathOf[h] \in DOMAIN mtimes => mtimes[PathOf[h]] \in Nat)
        BY <2>0, DataCacheAssumption DEF Sound, Fresh, Types
      <3> QED BY <2>1, <2>3, <3>1 DEF HandleFresh
    <2>5. ASSUME NEW t \in Threads PROVE FreshAt(t)'
      <3>1. ASSUME pc[t] = "open_store", op[t].mtime <= file[path(t)].ver
            PROVE  op[t].mtime <= file'[path(t)].ver
        <4>1. path(t) \in Paths /\ op[t] \in OpRecs
          BY <2>0, <3>1, BlockKey DEF Busy, Types
        <4>2. op[t].mtime \in Nat
          BY <4>1 DEF OpRecs
        <4> QED BY <2>3, <3>1, <4>1, <4>2
      <3> QED BY <2>1, <3>1, <1>FreshStays, <1>CopyOf
    <2>6. \A p \in DOMAIN buffers' : BufferFresh(p)'
      BY <2>1 DEF BufferFresh, Sound, Fresh
    <2> QED BY <2>1, <2>4, <2>5, <2>6, <1>FreshStep
  <1> SUFFICES ASSUME Base, AloneInv, FreshInv, [Next]_vars, Good' PROVE Fresh'
    BY DEF FreshInv
  <1>1. Sound
    BY <1>GoodBefore DEF Sound, FreshInv
  <1> QED BY <1>1, <1>FreshOpen, <1>FreshRelease, <1>FreshBegins, <1>FreshAttr, <1>FreshOpened, <1>FreshReadStep,
             <1>FreshWorld DEF Next

\* A read returns nothing older than the open of its handle, with one handle in use for a
\* path at a time, no failed refresh and no read that starts beyond the end of a block.
THEOREM CloseToOpenAlways == Spec => []CloseToOpen
<1>1. FreshInv => CloseToOpen
  BY DEF FreshInv, Fresh, Good, CloseToOpen
<1> QED BY <1>1, BaseInit, BaseNext, AloneInit, AloneNext, FreshInit, FreshNext, PTL DEF Spec
=============================================================================
