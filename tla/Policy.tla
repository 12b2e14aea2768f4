------------------------------- MODULE Policy -------------------------------
(* The eviction policies of the caches: lru_cache_manager keeps the keys in a *)
(* list, most recently used first; rnd_cache_manager keeps a set.  The keys   *)
(* of a policy are a function to the position in the list, or to 0.           *)
EXTENDS Naturals

CONSTANT EvictionPolicy    \* "lru" or "rnd"

ASSUME PolicyAssumption == EvictionPolicy \in {"lru", "rnd"}

NoKeys == [k \in {} |-> 0]

\* lru: the key goes to the front.  rnd: the key is inserted.
touch(keys, k) ==
    [x \in DOMAIN keys \cup {k} |->
        IF x = k \/ EvictionPolicy = "rnd" THEN 0
        ELSE IF k \notin DOMAIN keys \/ keys[x] < keys[k] THEN keys[x] + 1 ELSE keys[x]]

remove(keys, k) ==
    [x \in DOMAIN keys \ {k} |->
        IF k \in DOMAIN keys /\ keys[x] > keys[k] THEN keys[x] - 1 ELSE keys[x]]

\* The keys evict() may return, and erases: the last of the list, or any.
Victims(keys) ==
    IF EvictionPolicy = "rnd" THEN DOMAIN keys
    ELSE {k \in DOMAIN keys : \A x \in DOMAIN keys : keys[x] <= keys[k]}
=============================================================================
