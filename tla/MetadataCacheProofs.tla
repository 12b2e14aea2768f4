------------------------ MODULE MetadataCacheProofs -------------------------
(* Proofs about the metadata cache, for any threads, paths, requests and      *)
(* sizes: the eviction policy and the cache agree, the cache keeps to its     *)
(* size, and an entry is stale only for a reason MetadataCache names.         *)
EXTENDS MetadataCache, TLAPS, FiniteSetTheorems, WellFoundedInduction

USE Zenon

-----------------------------------------------------------------------------
(* The eviction policy.                                                       *)

\* The positions of the keys are numbers with a bound.
Positions(K) == /\ K \in [DOMAIN K -> Nat]
                /\ \E b \in Nat : \A x \in DOMAIN K : K[x] <= b

\* touch adds the key, and keeps the positions bounded.
LEMMA TouchKeys ==
  ASSUME NEW K, Positions(K), NEW k
  PROVE  DOMAIN touch(K, k) = DOMAIN K \cup {k} /\ Positions(touch(K, k))
<1>1. PICK b \in Nat : \A x \in DOMAIN K : K[x] <= b
  BY DEF Positions
<1>2. DOMAIN touch(K, k) = DOMAIN K \cup {k}
  BY DEF touch
<1>3. \A x \in DOMAIN touch(K, k) : touch(K, k)[x] \in Nat /\ touch(K, k)[x] <= b + 1
  BY <1>1, SMT DEF touch, Positions
<1>4. touch(K, k) \in [DOMAIN touch(K, k) -> Nat]
  <2>1. touch(K, k) = [x \in DOMAIN touch(K, k) |-> touch(K, k)[x]]
    BY DEF touch
  <2> QED BY <1>3, <2>1
<1>5. b + 1 \in Nat
  BY <1>1, SMT
<1> QED BY <1>2, <1>3, <1>4, <1>5 DEF Positions

\* remove takes the key away, and keeps the positions bounded.
LEMMA RemoveKeys ==
  ASSUME NEW K, Positions(K), NEW k
  PROVE  DOMAIN remove(K, k) = DOMAIN K \ {k} /\ Positions(remove(K, k))
<1>1. PICK b \in Nat : \A x \in DOMAIN K : K[x] <= b
  BY DEF Positions
<1>2. DOMAIN remove(K, k) = DOMAIN K \ {k}
  BY DEF remove
<1>3. \A x \in DOMAIN remove(K, k) : remove(K, k)[x] \in Nat /\ remove(K, k)[x] <= b
  BY <1>1, SMT DEF remove, Positions
<1>4. remove(K, k) \in [DOMAIN remove(K, k) -> Nat]
  BY <1>3, SMT DEF remove
<1> QED BY <1>1, <1>2, <1>3, <1>4 DEF Positions

\* evict() finds a key whenever there is one.
LEMMA VictimExists ==
  ASSUME NEW K, Positions(K), DOMAIN K # {}
  PROVE  Victims(K) # {} /\ Victims(K) \subseteq DOMAIN K
<1>1. Victims(K) \subseteq DOMAIN K
  BY DEF Victims
<1>2. CASE EvictionPolicy = "rnd"
  BY <1>1, <1>2 DEF Victims
<1>3. CASE EvictionPolicy # "rnd"
  <2>1. PICK b \in Nat : \A x \in DOMAIN K : K[x] <= b
    BY DEF Positions
  <2> DEFINE Less == OpToRel(<, Nat)
             Gaps == {b - K[x] : x \in DOMAIN K}
  <2>2. \A x \in DOMAIN K : K[x] \in Nat
    BY DEF Positions
  <2>3. Gaps \subseteq Nat
    BY <2>1, <2>2, SMT
  <2>4. Gaps # {}
    OBVIOUS
  <2>5. PICK g \in Gaps : \A h \in Gaps : <<h, g>> \notin Less
    <3> HIDE DEF Gaps
    <3> QED BY <2>3, <2>4, NatLessThanWellFounded, WFMin
  <2>6. PICK m \in DOMAIN K : g = b - K[m]
    OBVIOUS
  <2>7. ASSUME NEW x \in DOMAIN K PROVE K[x] <= K[m]
    <3>1. ~ (b - K[x] < g)
      <4>1. b - K[x] \in Gaps
        OBVIOUS
      <4>2. <<b - K[x], g>> \notin Less
        BY <2>5, <4>1
      <4>3. b - K[x] \in Nat /\ g \in Nat
        BY <2>3, <2>5, <4>1
      <4> QED BY <4>2, <4>3, SMT DEF OpToRel
    <3> QED BY ONLY <3>1, <2>6, <2>2, <2>1, SMT
  <2> QED BY <1>1, <1>3, <2>7 DEF Victims
<1> QED BY <1>2, <1>3

-----------------------------------------------------------------------------
(* The cache and the policy agree, and the cache keeps to its size.           *)

Agree == /\ KeysMatch
         /\ SizeBound
         /\ IsFiniteSet(DOMAIN cache)
         /\ Positions(keys)

\* An entry and its key are removed together.
LEMMA RemoveAgrees ==
  ASSUME Agree, NEW p, cache' = Without(cache, p), keys' = remove(keys, p)
  PROVE  Agree'
<1>1. DOMAIN cache' = DOMAIN cache \ {p}
  BY DEF Without, Restrict
<1>2. DOMAIN keys' = DOMAIN keys \ {p} /\ Positions(keys')
  BY RemoveKeys DEF Agree
<1>3. IsFiniteSet(DOMAIN cache') /\ Cardinality(DOMAIN cache') <= Cardinality(DOMAIN cache)
  BY <1>1, FS_Subset DEF Agree
<1>4. Cardinality(DOMAIN cache) \in Nat /\ Cardinality(DOMAIN cache') \in Nat
  BY <1>3, FS_CardinalityType DEF Agree
<1>5. SizeBound'
  BY <1>3, <1>4, MetadataCacheAssumption, SMT DEF Agree, SizeBound
<1>6. KeysMatch'
  BY <1>1, <1>2 DEF Agree, KeysMatch
<1> QED BY <1>2, <1>3, <1>5, <1>6 DEF Agree

\* An insertion that evicts when the cache is full keeps to the size.
LEMMA InsertAgrees ==
  ASSUME Agree, NEW t, Insert(t, Cardinality(DOMAIN cache) >= Size)
  PROVE  Agree'
<1> DEFINE p == req[t].path
           n == Cardinality(DOMAIN cache)
<1>1. n \in Nat /\ Size \in Nat
  BY FS_CardinalityType, MetadataCacheAssumption DEF Agree
<1>2. CASE n >= Size /\ Victims(keys) # {}
  <2>1. PICK v \in Victims(keys) :
          /\ cache' = [q \in (DOMAIN cache \ {v}) \cup {p} |->
                        IF q \in DOMAIN cache \ {v} THEN cache[q]
                        ELSE [val |-> got[t], ts |-> now]]
          /\ keys' = touch(remove(keys, v), p)
    <3>1. PICK out \in {{v} : v \in Victims(keys)} :
            /\ cache' = [q \in (DOMAIN cache \ out) \cup {p} |->
                          IF q \in DOMAIN cache \ out THEN cache[q]
                          ELSE [val |-> got[t], ts |-> now]]
            /\ keys' = IF out = {} THEN touch(keys, p)
                       ELSE touch(remove(keys, CHOOSE v \in out : TRUE), p)
      BY <1>2 DEF Insert
    <3>2. PICK v \in Victims(keys) : out = {v}
      BY <3>1
    <3>3. (CHOOSE w \in out : TRUE) = v /\ out # {}
      BY <3>2
    <3> QED BY <3>1, <3>2, <3>3
  <2>2. v \in DOMAIN cache
    BY <2>1 DEF Victims, Agree, KeysMatch
  <2> DEFINE rest == DOMAIN cache \ {v}
  <2>3. DOMAIN cache' = rest \cup {p}
    BY <2>1
  <2>4. DOMAIN keys' = rest \cup {p} /\ Positions(keys')
    <3>1. DOMAIN remove(keys, v) = rest /\ Positions(remove(keys, v))
      BY RemoveKeys DEF Agree, KeysMatch
    <3> QED BY <3>1, <2>1, TouchKeys
  <2>5. IsFiniteSet(rest) /\ Cardinality(rest) = n - 1
    BY <2>2, FS_RemoveElement DEF Agree
  <2>6. IsFiniteSet(DOMAIN cache') /\ Cardinality(DOMAIN cache') <= n
    <3>1. /\ IsFiniteSet(rest \cup {p})
          /\ Cardinality(rest \cup {p}) = IF p \in rest THEN Cardinality(rest) ELSE Cardinality(rest) + 1
      BY <2>5, FS_AddElement
    <3> HIDE DEF rest, n
    <3> QED BY <3>1, <2>3, <2>5, <1>1, SMT
  <2>7. SizeBound'
    <3>1. Cardinality(DOMAIN cache') \in Nat
      BY <2>6, FS_CardinalityType
    <3> QED BY <3>1, <2>6, <1>1, SMT DEF Agree, SizeBound
  <2> QED BY <2>3, <2>4, <2>6, <2>7 DEF Agree, KeysMatch
<1>3. CASE ~ (n >= Size /\ Victims(keys) # {})
  <2>1. /\ cache' = [q \in DOMAIN cache \cup {p} |->
                      IF q \in DOMAIN cache THEN cache[q]
                      ELSE [val |-> got[t], ts |-> now]]
        /\ keys' = touch(keys, p)
    <3>1. PICK out \in {{}} :
            /\ cache' = [q \in (DOMAIN cache \ out) \cup {p} |->
                          IF q \in DOMAIN cache \ out THEN cache[q]
                          ELSE [val |-> got[t], ts |-> now]]
            /\ keys' = IF out = {} THEN touch(keys, p)
                       ELSE touch(remove(keys, CHOOSE v \in out : TRUE), p)
      BY <1>3 DEF Insert
    <3>2. out = {} /\ DOMAIN cache \ out = DOMAIN cache
      BY <3>1
    <3> QED BY <3>1, <3>2
  <2>2. DOMAIN cache' = DOMAIN cache \cup {p}
    BY <2>1
  <2>3. DOMAIN keys' = DOMAIN cache' /\ Positions(keys')
    <3>1. DOMAIN keys = DOMAIN cache /\ Positions(keys)
      BY DEF Agree, KeysMatch
    <3>2. DOMAIN touch(keys, p) = DOMAIN keys \cup {p} /\ Positions(touch(keys, p))
      BY <3>1, TouchKeys
    <3> QED BY <2>1, <2>2, <3>1, <3>2
  <2>4. IsFiniteSet(DOMAIN cache') /\ Cardinality(DOMAIN cache') <= n + 1
    <3>1. /\ IsFiniteSet(DOMAIN cache \cup {p})
          /\ Cardinality(DOMAIN cache \cup {p}) = IF p \in DOMAIN cache THEN n ELSE n + 1
      BY FS_AddElement DEF Agree
    <3> HIDE DEF n
    <3> QED BY <3>1, <2>2, <1>1, SMT
  <2>5. n < Size \/ n = 0
    <3>1. CASE n >= Size
      <4>1. DOMAIN keys = {}
        BY <1>3, <3>1, VictimExists DEF Agree
      <4> QED BY <4>1, FS_EmptySet DEF Agree, KeysMatch
    <3>2. CASE ~ (n >= Size)
      BY <3>2, <1>1, SMT
    <3> QED BY <3>1, <3>2
  <2>6. SizeBound'
    <3>1. Cardinality(DOMAIN cache') \in Nat
      BY <2>4, FS_CardinalityType
    <3> QED BY <3>1, <2>4, <2>5, <1>1, SMT DEF SizeBound
  <2> QED BY <2>3, <2>4, <2>6 DEF Agree, KeysMatch
<1> QED BY <1>2, <1>3

\* Whatever the threads do, the eviction policy holds exactly the keys of the cache
\* and the cache holds at most the configured number of entries (put, get, remove).
THEOREM AgreeInvariant == Spec => [](KeysMatch /\ SizeBound)
<1>1. Init => Agree
  <2> SUFFICES ASSUME Init PROVE Agree
    OBVIOUS
  <2>1. DOMAIN cache = {} /\ DOMAIN keys = {}
    BY DEF Init, NoEntries, NoKeys
  <2>2. Positions(keys)
    <3>1. keys \in [DOMAIN keys -> Nat] /\ 0 \in Nat
      BY <2>1, SMT DEF Init, NoKeys
    <3> QED BY <3>1, <2>1 DEF Positions
  <2>3. SizeBound
    BY <2>1, FS_EmptySet, MetadataCacheAssumption, SMT DEF SizeBound
  <2> QED BY <2>1, <2>2, <2>3, FS_EmptySet DEF Agree, KeysMatch
<1>2. Agree /\ [Next]_vars => Agree'
  <2> SUFFICES ASSUME Agree, [Next]_vars PROVE Agree'
    OBVIOUS
  <2>0. ASSUME UNCHANGED <<cache, keys>> PROVE Agree'
    BY <2>0 DEF Agree, KeysMatch, SizeBound, Positions
  <2>1. ASSUME NEW t \in Threads, NEW p \in Paths, Get(t, p) PROVE Agree'
    <3>1. CASE UNCHANGED keys
      BY <2>1, <3>1, <2>0 DEF Get
    <3>2. CASE p \in DOMAIN cache /\ keys' = touch(keys, p)
      <4>1. cache' = cache
        BY <2>1 DEF Get
      <4>2. DOMAIN keys' = DOMAIN keys \cup {p} /\ Positions(keys')
        BY <3>2, TouchKeys DEF Agree
      <4>3. KeysMatch'
        BY <4>1, <4>2, <3>2 DEF Agree, KeysMatch
      <4> QED BY <4>1, <4>2, <4>3 DEF Agree, SizeBound
    <3> QED BY <2>1, <3>1, <3>2 DEF Get
  <2>2. ASSUME NEW t \in Threads, Drop(t) \/ Remove(t) PROVE Agree'
    BY <2>2, RemoveAgrees DEF Drop, Remove
  <2>3. ASSUME NEW t \in Threads, Put(t) PROVE Agree'
    BY <2>3, InsertAgrees DEF Put
  <2>4. ASSUME \/ \E t \in Threads : \/ Fetch(t) \/ Apply(t)
                                    \/ \E r \in Requests : Start(t, r)
               \/ \E p \in Paths : Elsewhere(p)
               \/ Tick
               \/ UNCHANGED vars
        PROVE  Agree'
    BY <2>4, <2>0 DEF Fetch, Apply, Start, Elsewhere, Tick, vars
  <2> QED BY <2>1, <2>2, <2>3, <2>4 DEF Next
<1> QED BY <1>1, <1>2, PTL DEF Spec, Agree

\* The cache never holds more than the configured number of entries: put makes room
\* for one entry, and under either policy the key it evicts has one.
THEOREM SizeBoundAlways == Spec => []SizeBound
BY AgreeInvariant, PTL

-----------------------------------------------------------------------------
(* An entry is stale only for a reason.                                       *)

\* What the threads hold: a getattr its path, an operation its request.
Held ==
  /\ DOMAIN cache \subseteq Paths
  /\ DOMAIN attr = Paths
  /\ pc \in [Threads -> {"idle", "fetch", "drop", "put", "change"}]
  /\ DOMAIN req = Threads /\ DOMAIN got = Threads
  /\ todo \in [Threads -> Seq(Paths)]
  /\ \A t \in Threads : pc[t] \in {"fetch", "drop", "put"} =>
                          req[t].op = "getattr" /\ req[t].path \in Paths
  /\ \A t \in Threads : pc[t] = "change" => req[t] \in Requests

\* Nobody holds, or is about to hold, attributes of p.
Quiet(p) == p \notin DOMAIN cache /\ Getting(p) = {}

\* Of a path without an excuse: the entry and what a getattr is about to put are the
\* attributes; an operation has still to remove the entry, or there is none to come.
Fresh(p) ==
  /\ p \in DOMAIN cache => cache[p].val = attr[p]
  /\ \A t \in Threads : pc[t] = "put" /\ req[t].path = p => got[t] = attr[p]
  /\ \A t \in Threads : pc[t] = "change" /\ p \in Range(Removes(req[t]))
                            => p \in Range(todo[t]) \/ Quiet(p)

Reasons == Held /\ \A p \in Paths : p \notin excused => Fresh(p)

\* The entries an operation removes are of known paths, and no request is a getattr.
LEMMA RemovesPaths ==
  ASSUME NEW r \in Requests
  PROVE  Removes(r) \in Seq(Paths) /\ r.op # "getattr"
<1>1. r.path \in Paths /\ Parent[r.path] \in Paths
  BY MetadataCacheAssumption
<1>2. CASE r.op \in OneAndParent
  BY <1>1, <1>2, SMT DEF Removes, OneAndParent
<1>3. CASE r.op \in {"symlink", "link", "rename"}
  <2>1. r.to \in Paths /\ Parent[r.to] \in Paths
    BY <1>3, MetadataCacheAssumption
  <2> QED BY <1>1, <1>3, <2>1, SMT DEF Removes, OneAndParent
<1>4. CASE r.op \in OneOnly \cup {"write", "utimens"}
  BY <1>1, <1>4, SMT DEF Removes, OneAndParent, OneOnly
<1> QED BY <1>2, <1>3, <1>4, MetadataCacheAssumption DEF OneAndParent, OneOnly

\* Each operation removes the entries of all it changes, what it is blind to apart.
LEMMA ChangesCovered ==
  ASSUME NEW r \in Requests
  PROVE  Changes(r) \subseteq Range(Removes(r)) \cup Blind(r)
<1> USE DEF Changes, Makes, Unmakes, Alters, Blind, Range
<1>1. CASE r.op \in OneAndParent
  <2>1. Removes(r) = <<r.path, Parent[r.path]>>
    BY <1>1, SMT DEF Removes, OneAndParent, OneOnly
  <2>2. r.path \in Range(Removes(r)) /\ Parent[r.path] \in Range(Removes(r))
    BY <2>1, SMT
  <2>3. Changes(r) \subseteq {r.path, Parent[r.path]}
    BY <1>1, SMT DEF OneAndParent
  <2> QED BY <2>2, <2>3
<1>2. CASE r.op \in {"symlink", "link"}
  <2>1. Removes(r) = <<r.path, r.to, Parent[r.to]>>
    BY <1>2, SMT DEF Removes, OneAndParent, OneOnly
  <2>2. {r.path, r.to, Parent[r.to]} \subseteq Range(Removes(r))
    BY <2>1, SMT
  <2>3. Changes(r) \subseteq {r.path, r.to, Parent[r.to]}
    BY <1>2, SMT DEF OneAndParent
  <2> QED BY <2>2, <2>3
<1>3. CASE r.op = "rename"
  <2>1. Removes(r) = <<r.path, r.to, Parent[r.path], Parent[r.to]>>
    BY <1>3, SMT DEF Removes, OneAndParent, OneOnly
  <2>2. {r.path, r.to, Parent[r.path], Parent[r.to]} \subseteq Range(Removes(r))
    BY <2>1, SMT
  <2>3. Changes(r) \subseteq {r.path, r.to, Parent[r.path], Parent[r.to]} \cup Below[r.path]
    BY <1>3, SMT DEF OneAndParent
  <2>4. Below[r.path] \subseteq Blind(r)
    BY <1>3, SMT
  <2> QED BY <2>2, <2>3, <2>4
<1>4. CASE r.op \in OneOnly
  <2>1. Removes(r) = <<r.path>>
    BY <1>4, SMT DEF Removes, OneAndParent, OneOnly
  <2>2. r.path \in Range(Removes(r))
    BY <2>1, SMT
  <2>3. Changes(r) \subseteq {r.path}
    BY <1>4, SMT DEF OneAndParent, OneOnly
  <2> QED BY <2>2, <2>3
<1>5. CASE r.op \in {"write", "utimens"}
  <2>1. Changes(r) \subseteq {r.path}
    BY <1>5, SMT DEF OneAndParent
  <2>2. r.path \in Blind(r)
    BY <1>5, SMT
  <2> QED BY <2>1, <2>2
<1> QED BY <1>1, <1>2, <1>3, <1>4, <1>5, MetadataCacheAssumption DEF OneAndParent, OneOnly

\* Attributes change only at paths the operation changes, or at other names of these.
LEMMA AppliedCovered ==
  ASSUME NEW r \in Requests, DOMAIN attr = Paths, NEW p \in Paths, Applied(r)[p] # attr[p]
  PROVE  p \in Range(Removes(r)) \cup Blind(r)
<1>1. p \in Changes(r) \/ p \in Aliases(Changes(r))
  BY DEF Applied, Altered, Changes
<1>2. Aliases(Changes(r)) \subseteq Blind(r)
  BY DEF Blind
<1> QED BY <1>1, <1>2, ChangesCovered

\* The first entry to remove is taken off the list.
LEMMA TailRange ==
  ASSUME NEW S, NEW s \in Seq(S), s # <<>>
  PROVE  /\ Head(s) \in S /\ Tail(s) \in Seq(S)
         /\ \A x \in Range(s) : x = Head(s) \/ x \in Range(Tail(s))
<1>1. Head(s) \in S /\ Tail(s) \in Seq(S)
  BY SMT
<1>2. ASSUME NEW i \in DOMAIN s, s[i] # Head(s) PROVE s[i] \in Range(Tail(s))
  <2>1. i - 1 \in DOMAIN Tail(s) /\ Tail(s)[i - 1] = s[i]
    BY <1>2, SMT
  <2> QED BY <2>1 DEF Range
<1> QED BY <1>1, <1>2 DEF Range

\* What the threads hold is kept by every step.
LEMMA HeldKept == Held /\ [Next]_vars => Held'
<1> SUFFICES ASSUME Held, [Next]_vars PROVE Held'
  OBVIOUS
<1> USE DEF Held, Step
<1>1. ASSUME NEW t \in Threads, NEW p \in Paths, Get(t, p) PROVE Held'
  <2>1. PICK n \in {"idle", "fetch", "drop"} : pc' = [pc EXCEPT ![t] = n]
    BY <1>1 DEF Get
  <2>2. /\ req' = [req EXCEPT ![t] = [op |-> "getattr", path |-> p, to |-> ""]]
        /\ UNCHANGED <<cache, attr, todo, got>>
    BY <1>1 DEF Get
  <2>3. /\ req'[t].op = "getattr" /\ req'[t].path = p /\ DOMAIN req' = Threads
        /\ \A u \in Threads \ {t} : req'[u] = req[u]
    BY <2>2
  <2>4. /\ pc' \in [Threads -> {"idle", "fetch", "drop", "put", "change"}]
        /\ pc'[t] # "change" /\ \A u \in Threads \ {t} : pc'[u] = pc[u]
    BY <2>1
  <2> QED BY <2>2, <2>3, <2>4
<1>2. ASSUME NEW t \in Threads, Drop(t) PROVE Held'
  BY <1>2, SMT DEF Drop, Without, Restrict
<1>3. ASSUME NEW t \in Threads, Fetch(t) PROVE Held'
  BY <1>3, SMT DEF Fetch
<1>4. ASSUME NEW t \in Threads, Put(t) PROVE Held'
  <2>1. req[t].path \in Paths
    BY <1>4 DEF Put
  <2>2. DOMAIN cache' \subseteq DOMAIN cache \cup {req[t].path}
    BY <1>4 DEF Put, Insert
  <2>3. /\ pc' = [pc EXCEPT ![t] = "idle"]
        /\ got' = [got EXCEPT ![t] = Gone]
        /\ UNCHANGED <<attr, req, todo>>
    BY <1>4 DEF Put
  <2> QED BY <2>1, <2>2, <2>3, SMT
<1>5. ASSUME NEW t \in Threads, NEW r \in Requests, Start(t, r) PROVE Held'
  <2>1. Removes(r) \in Seq(Paths)
    BY RemovesPaths
  <2> QED BY <1>5, <2>1, SMT DEF Start
<1>6. ASSUME NEW t \in Threads, Remove(t) PROVE Held'
  <2>1. Tail(todo[t]) \in Seq(Paths)
    BY <1>6, TailRange DEF Remove
  <2> QED BY <1>6, <2>1, SMT DEF Remove, Without, Restrict
<1>7. ASSUME NEW t \in Threads, Apply(t) PROVE Held'
  <2>1. DOMAIN attr' = Paths
    BY <1>7 DEF Apply, Applied
  <2> QED BY <1>7, <2>1, SMT DEF Apply
<1>8. ASSUME NEW p \in Paths, Elsewhere(p) PROVE Held'
  <2>1. DOMAIN attr' = Paths
    BY <1>8 DEF Elsewhere, Altered
  <2> QED BY <1>8, <2>1 DEF Elsewhere
<1>9. CASE Tick \/ UNCHANGED vars
  BY <1>9 DEF Tick, vars
<1> QED BY <1>1, <1>2, <1>3, <1>4, <1>5, <1>6, <1>7, <1>8, <1>9 DEF Next

\* A step keeps paths fresh, or gives them an excuse.
LEMMA FreshKept ==
  ASSUME Reasons, [Next]_vars, NEW p \in Paths, p \notin excused'
  PROVE  Fresh(p)'
<1> USE DEF Step
<1>0. Held /\ Held' /\ (p \notin excused => Fresh(p))
  BY HeldKept DEF Reasons
<1>1. ASSUME NEW t \in Threads, NEW q \in Paths, Get(t, q) PROVE Fresh(p)'
  <2>1. /\ pc[t] = "idle"
        /\ pc'[t] \in {"idle", "fetch", "drop"}
        /\ \A u \in Threads \ {t} : pc'[u] = pc[u] /\ req'[u] = req[u]
        /\ req'[t].op = "getattr" /\ req'[t].path = q
        /\ UNCHANGED <<cache, attr, got, todo>>
    BY <1>0, <1>1 DEF Get, Held
  <2>2. p \in excused => p = q /\ Changing(q) = {} /\ Getting(q) = {} /\ q \notin DOMAIN cache
    BY <1>1 DEF Get
  <2>3. p = q => Changing(q) = {}
    BY <1>1 DEF Get
  <2>4. p \in DOMAIN cache' => cache'[p].val = attr'[p]
    BY <1>0, <2>1, <2>2 DEF Fresh
  <2>5. ASSUME NEW u \in Threads, pc'[u] = "put", req'[u].path = p PROVE got'[u] = attr'[p]
    <3>1. u # t /\ pc[u] = "put" /\ req[u].path = p
      BY <2>1, <2>5
    <3>2. u \in Getting(p)
      BY <3>1, <1>0 DEF Getting, Held
    <3> QED BY <3>1, <3>2, <2>1, <2>2, <1>0 DEF Fresh
  <2>6. ASSUME NEW u \in Threads, pc'[u] = "change", p \in Range(Removes(req'[u]))
        PROVE  p \in Range(todo'[u]) \/ Quiet(p)'
    <3>1. u # t /\ pc[u] = "change" /\ p \in Range(Removes(req[u]))
      BY <2>1, <2>6
    <3>2. u \in Changing(p)
      BY <3>1, <1>0, RemovesPaths DEF Changing, Touches, Held
    <3>3. p # q /\ p \notin excused
      BY <3>2, <2>2, <2>3
    <3>4. Getting(p)' \subseteq Getting(p)
      BY <3>3, <2>1 DEF Getting
    <3> QED BY <3>1, <3>3, <3>4, <2>1, <1>0 DEF Fresh, Quiet
  <2> QED BY <2>4, <2>5, <2>6 DEF Fresh
<1>2. ASSUME NEW t \in Threads, Drop(t) PROVE Fresh(p)'
  <2>1. /\ DOMAIN cache' \subseteq DOMAIN cache
        /\ \A q \in DOMAIN cache' : cache'[q] = cache[q]
        /\ pc[t] = "drop" /\ pc'[t] = "fetch"
        /\ \A u \in Threads \ {t} : pc'[u] = pc[u]
        /\ UNCHANGED <<attr, got, todo, req, excused>>
    BY <1>0, <1>2 DEF Drop, Without, Restrict, Held
  <2>2. Getting(p)' \subseteq Getting(p)
    BY <2>1 DEF Getting
  <2> QED BY <1>0, <2>1, <2>2 DEF Fresh, Quiet
<1>3. ASSUME NEW t \in Threads, Fetch(t) PROVE Fresh(p)'
  <2>1. /\ pc[t] = "fetch" /\ pc'[t] \in {"idle", "put"}
        /\ got'[t] = attr[req[t].path]
        /\ \A u \in Threads \ {t} : pc'[u] = pc[u] /\ got'[u] = got[u]
        /\ UNCHANGED <<cache, attr, todo, req, excused>>
    BY <1>0, <1>3 DEF Fetch, Held
  <2>2. Getting(p)' \subseteq Getting(p)
    BY <2>1 DEF Getting
  <2>3. p \in DOMAIN cache' => cache'[p].val = attr'[p]
    BY <1>0, <2>1 DEF Fresh
  <2>4. ASSUME NEW u \in Threads, pc'[u] = "put", req'[u].path = p PROVE got'[u] = attr'[p]
    BY <1>0, <2>1, <2>4 DEF Fresh
  <2>5. ASSUME NEW u \in Threads, pc'[u] = "change", p \in Range(Removes(req'[u]))
        PROVE  p \in Range(todo'[u]) \/ Quiet(p)'
    <3>1. u # t
      BY <2>1, <2>5
    <3> QED BY <1>0, <2>1, <2>2, <2>5, <3>1 DEF Fresh, Quiet
  <2> QED BY <2>3, <2>4, <2>5 DEF Fresh
<1>4. ASSUME NEW t \in Threads, Put(t) PROVE Fresh(p)'
  <2>1. /\ pc[t] = "put" /\ pc'[t] = "idle"
        /\ \A u \in Threads \ {t} : pc'[u] = pc[u] /\ got'[u] = got[u]
        /\ UNCHANGED <<attr, todo, req, excused>>
    BY <1>0, <1>4 DEF Put, Held
  <2>2. \A q \in DOMAIN cache' :
          \/ q \in DOMAIN cache /\ cache'[q] = cache[q]
          \/ q = req[t].path /\ cache'[q].val = got[t]
    <3>1. PICK out : cache' = [q \in (DOMAIN cache \ out) \cup {req[t].path} |->
                                 IF q \in DOMAIN cache \ out THEN cache[q]
                                 ELSE [val |-> got[t], ts |-> now]]
      BY <1>4 DEF Put, Insert
    <3>2. [val |-> got[t], ts |-> now].val = got[t]
      OBVIOUS
    <3> QED BY <3>1, <3>2
  <2>3. p \notin excused /\ Fresh(p)
    BY <1>0, <2>1
  <2>4. p \in DOMAIN cache' => cache'[p].val = attr'[p]
    BY <2>1, <2>2, <2>3 DEF Fresh
  <2>5. ASSUME NEW u \in Threads, pc'[u] = "put", req'[u].path = p PROVE got'[u] = attr'[p]
    BY <2>1, <2>3, <2>5 DEF Fresh
  <2>6. ASSUME NEW u \in Threads, pc'[u] = "change", p \in Range(Removes(req'[u]))
        PROVE  p \in Range(todo'[u]) \/ Quiet(p)'
    <3>1. u # t /\ pc[u] = "change"
      BY <2>1, <2>6
    <3>2. CASE p = req[t].path
      <4>1. t \in Getting(p)
        BY <3>2, <2>1, <1>0 DEF Getting, Held
      <4> QED BY <4>1, <3>1, <2>1, <2>3, <2>6 DEF Fresh, Quiet
    <3>3. CASE p # req[t].path
      <4>1. Getting(p)' \subseteq Getting(p)
        BY <2>1 DEF Getting
      <4>2. p \in DOMAIN cache' => p \in DOMAIN cache
        BY <3>3, <2>2
      <4> QED BY <4>1, <4>2, <3>1, <2>1, <2>3, <2>6 DEF Fresh, Quiet
    <3> QED BY <3>2, <3>3
  <2> QED BY <2>4, <2>5, <2>6 DEF Fresh
<1>5. ASSUME NEW t \in Threads, NEW r \in Requests, Start(t, r) PROVE Fresh(p)'
  <2>1. /\ pc[t] = "idle" /\ pc'[t] = "change" /\ req'[t] = r /\ todo'[t] = Removes(r)
        /\ \A u \in Threads \ {t} : pc'[u] = pc[u] /\ req'[u] = req[u] /\ todo'[u] = todo[u]
        /\ UNCHANGED <<cache, attr, got, excused>>
    BY <1>0, <1>5 DEF Start, Held
  <2>2. Getting(p)' \subseteq Getting(p)
    BY <2>1, RemovesPaths DEF Getting
  <2>3. p \in DOMAIN cache' => cache'[p].val = attr'[p]
    BY <1>0, <2>1 DEF Fresh
  <2>4. ASSUME NEW u \in Threads, pc'[u] = "put", req'[u].path = p PROVE got'[u] = attr'[p]
    <3>1. u # t
      BY <2>1, <2>4
    <3> QED BY <1>0, <2>1, <2>4, <3>1 DEF Fresh
  <2>5. ASSUME NEW u \in Threads, pc'[u] = "change", p \in Range(Removes(req'[u]))
        PROVE  p \in Range(todo'[u]) \/ Quiet(p)'
    BY <1>0, <2>1, <2>2, <2>5 DEF Fresh, Quiet
  <2> QED BY <2>3, <2>4, <2>5 DEF Fresh
<1>6. ASSUME NEW t \in Threads, Remove(t) PROVE Fresh(p)'
  <2> DEFINE h == Head(todo[t])
  <2>1. /\ pc[t] = "change" /\ todo'[t] = Tail(todo[t]) /\ todo[t] # <<>>
        /\ \A u \in Threads \ {t} : todo'[u] = todo[u]
        /\ DOMAIN cache' = DOMAIN cache \ {h}
        /\ \A q \in DOMAIN cache' : cache'[q] = cache[q]
        /\ UNCHANGED <<attr, pc, req, got>>
    BY <1>0, <1>6 DEF Remove, Without, Restrict, Held
  <2>2. Getting(p)' = Getting(p)
    BY <2>1 DEF Getting
  <2>3. CASE p = h
    <3>1. Getting(p) = {} /\ p \notin DOMAIN cache'
      BY <1>6, <2>1, <2>3 DEF Remove
    <3>2. ASSUME NEW u \in Threads, pc'[u] = "put", req'[u].path = p PROVE FALSE
      <4>1. u \in Getting(p)
        BY <3>2, <2>1, <1>0 DEF Getting, Held
      <4> QED BY <4>1, <3>1
    <3> QED BY <3>1, <3>2, <2>2 DEF Fresh, Quiet
  <2>4. CASE p # h
    <3>1. p \notin excused /\ Fresh(p)
      BY <1>0, <1>6, <2>4 DEF Remove
    <3>2. p \in Range(todo[t]) => p \in Range(todo'[t])
      <4>1. todo[t] \in Seq(Paths)
        BY <1>0 DEF Held
      <4> QED BY <4>1, <2>1, <2>4, TailRange
    <3>3. ASSUME NEW u \in Threads, pc'[u] = "change", p \in Range(Removes(req'[u]))
          PROVE  p \in Range(todo'[u]) \/ Quiet(p)'
      BY <3>1, <3>2, <3>3, <2>1, <2>2 DEF Fresh, Quiet
    <3> QED BY <3>1, <3>3, <2>1 DEF Fresh
  <2> QED BY <2>3, <2>4
<1>7. ASSUME NEW t \in Threads, Apply(t) PROVE Fresh(p)'
  <2>1. /\ pc[t] = "change" /\ pc'[t] = "idle" /\ todo[t] = <<>>
        /\ \A u \in Threads \ {t} : pc'[u] = pc[u]
        /\ UNCHANGED <<cache, req, todo, got>>
    BY <1>0, <1>7 DEF Apply, Held
  <2>2. p \notin excused /\ Fresh(p)
    BY <1>0, <1>7 DEF Apply
  <2>3. Getting(p)' \subseteq Getting(p)
    BY <2>1 DEF Getting
  <2>4. attr'[p] = attr[p] \/ Quiet(p)
    <3>1. SUFFICES ASSUME attr'[p] # attr[p] PROVE Quiet(p)
      OBVIOUS
    <3>2. attr' = Applied(req[t]) /\ p \notin Blind(req[t])
      BY <1>7, <3>1 DEF Apply
    <3>3. req[t] \in Requests /\ DOMAIN attr = Paths
      BY <1>0, <2>1 DEF Held
    <3>4. p \in Range(Removes(req[t]))
      BY <3>1, <3>2, <3>3, AppliedCovered
    <3>5. p \notin Range(todo[t])
      BY <2>1, SMT DEF Range
    <3> QED BY <3>4, <3>5, <2>1, <2>2 DEF Fresh
  <2>5. p \in DOMAIN cache' => cache'[p].val = attr'[p]
    BY <2>1, <2>2, <2>4 DEF Fresh, Quiet
  <2>6. ASSUME NEW u \in Threads, pc'[u] = "put", req'[u].path = p PROVE got'[u] = attr'[p]
    <3>1. pc[u] = "put" /\ req[u].path = p /\ got'[u] = got[u]
      BY <2>1, <2>6
    <3>2. u \in Getting(p)
      BY <3>1, <1>0 DEF Getting, Held
    <3> QED BY <3>1, <3>2, <2>2, <2>4 DEF Fresh, Quiet
  <2>7. ASSUME NEW u \in Threads, pc'[u] = "change", p \in Range(Removes(req'[u]))
        PROVE  p \in Range(todo'[u]) \/ Quiet(p)'
    <3>1. u # t
      BY <2>1, <2>7
    <3> QED BY <2>1, <2>2, <2>3, <2>7, <3>1 DEF Fresh, Quiet
  <2> QED BY <2>5, <2>6, <2>7 DEF Fresh
<1>8. ASSUME NEW q \in Paths, Elsewhere(q) PROVE Fresh(p)'
  <2>1. p \notin excused /\ Fresh(p) /\ p \notin {q} \cup Aliases({q})
    BY <1>0, <1>8 DEF Elsewhere
  <2>2. attr'[p] = attr[p] /\ UNCHANGED <<cache, pc, req, todo, got>>
    BY <1>8, <2>1 DEF Elsewhere, Altered
  <2> QED BY <2>1, <2>2 DEF Fresh, Quiet, Getting
<1>9. CASE Tick \/ UNCHANGED vars
  <2>1. UNCHANGED <<cache, attr, pc, req, todo, got, excused>>
    BY <1>9 DEF Tick, vars
  <2> QED BY <1>0, <2>1 DEF Fresh, Quiet, Getting
<1> QED BY <1>1, <1>2, <1>3, <1>4, <1>5, <1>6, <1>7, <1>8, <1>9 DEF Next, Reasons

\* The cache never holds attributes that differ from the next layer's, except for the
\* reasons Coherent names: the removals of metadata_cache_mknod ... metadata_cache_fsync
\* cover the changes of the operations, in any interleaving with getattr.
THEOREM CoherentInvariant == Spec => []Coherent
<1>1. Init => Reasons
  <2> SUFFICES ASSUME Init PROVE Reasons
    OBVIOUS
  <2>1. DOMAIN cache = {} /\ \A t \in Threads : pc[t] = "idle"
    BY DEF Init, NoEntries
  <2>2. todo \in [Threads -> Seq(Paths)]
    BY SMT DEF Init
  <2>3. Held
    BY <2>1, <2>2 DEF Init, Held
  <2> QED BY <2>1, <2>3 DEF Reasons, Fresh
<1>2. Reasons /\ [Next]_vars => Reasons'
  BY FreshKept, HeldKept DEF Reasons
<1>3. Reasons => Coherent
  BY DEF Reasons, Held, Fresh, Coherent
<1> QED BY <1>1, <1>2, <1>3, PTL DEF Spec
=============================================================================
