-------------------------- MODULE SyncClientProofs --------------------------
(* The streams of the synchronous client, for any threads, handles, paths,    *)
(* streams and faults: replies are not mixed up (OwnReply), what is released  *)
(* is not in use (DanglesOnlyIfShared), none is kept (StreamsReleased) and a  *)
(* write is applied once (AppliedOnce).                                       *)
EXTENDS SyncClientInv, FiniteSetTheorems, TLAPS

USE Zenon
-----------------------------------------------------------------------------
\* At the start no mutex is held and no request is under way.
LEMMA InitStep == Init => IInv
<1> SUFFICES ASSUME Init PROVE IInv
  OBVIOUS
<1> USE SyncClientAssumption
<1>1. Types
  <2>1. (CHOOSE p \in Paths : TRUE) \in Paths
    OBVIOUS
  <2>2. NoHandle \in [state : HandleStates, path : Paths, mode : Modes \cup {"r"}]
    BY <2>1 DEF NoHandle, HandleStates
  <2>3. handle \in [Handles -> [state : HandleStates, path : Paths, mode : Modes \cup {"r"}]]
    BY <2>2 DEF Init
  <2>4. 0 \in 0 .. MaxStreams /\ 0 \in Nat /\ <<>> \in Seq(Messages)
    BY SMT
  <2> QED BY <2>3, <2>4 DEF Init, Types
<1>2. \A t \in Threads : Holds(t)
  <2>1. \A t \in Threads : pc[t] = "idle"
    BY DEF Init
  <2>2. "idle" \notin {"find", "send", "lock_read", "receive"}
    BY SMT
  <2> QED BY <2>1, <2>2 DEF Holds
<1>3. \A s \in Streams : Ordered(s)
  <2> SUFFICES ASSUME NEW s \in Streams PROVE Ordered(s)
    OBVIOUS
  <2>1. mtxWrite[s] = Nobody /\ mtxRead[s] = Nobody /\ queue[s] = <<>>
    BY DEF Init
  <2>2. Len(<<>>) = 0 + 0
    BY SMT
  <2> QED BY <2>1, <2>2 DEF Ordered
<1> QED BY <1>1, <1>2, <1>3 DEF IInv

-----------------------------------------------------------------------------
\* Every step of the client, the server and the network keeps the invariant.
LEMMA NextStep == IInv /\ [Next]_vars => IInv'
  \* A step of a thread that is at no mutex of a stream, and does not take one.
  <1>OutsideStep.
      ASSUME IInv, Types', NEW t \in Threads,
             pc[t] \notin {"lock_read", "receive"}, pc'[t] \notin {"lock_read", "receive"},
             Holds(t)',
             \A u \in Threads : u # t => pc'[u] = pc[u] /\ cur'[u] = cur[u] /\ str'[u] = str[u],
             mtxWrite' = mtxWrite, mtxRead' = mtxRead, queue' = queue, dead' = dead
      PROVE  IInv'
    <2> USE <1>OutsideStep
    <2>1. ASSUME NEW u \in Threads PROVE Holds(u)'
      <3>1. CASE u = t
        BY <3>1
      <3>2. CASE u # t
        BY <3>2 DEF IInv, Holds, Kinds, Streams
      <3> QED BY <3>1, <3>2
    <2>2. ASSUME NEW s \in Streams PROVE Ordered(s)'
      <3>0. Ordered(s)
        BY DEF IInv
      <3>1. mtxWrite[s] # Nobody =>
              mtxWrite[s] \in Threads /\ pc'[mtxWrite[s]] = "lock_read" /\ str'[mtxWrite[s]] = s
        BY <3>0 DEF Ordered
      <3>2. mtxRead[s] # Nobody =>
              mtxRead[s] \in Threads /\ pc'[mtxRead[s]] = "receive" /\ str'[mtxRead[s]] = s
        BY <3>0 DEF Ordered
      <3> QED BY <3>0, <3>1, <3>2 DEF Ordered, Nobody
    <2> QED BY <2>1, <2>2 DEF IInv, Streams
  \* What a returning operation leaves behind.
  <1>DoneTypes.
      ASSUME Types, NEW t \in Threads, NEW state, Done(t, state)
      PROVE  /\ handle' \in [Handles -> [state : HandleStates, path : Paths, mode : Modes \cup {"r"}]]
             /\ DOMAIN cur' = Threads /\ DOMAIN str' = Threads
             /\ \A u \in Threads : u # t => cur'[u] = cur[u] /\ str'[u] = str[u]
    <2> USE <1>DoneTypes
    <2> DEFINE H == [state : HandleStates, path : Paths, mode : Modes \cup {"r"}]
    <2>1. NoHandle \in H
      <3>1. (CHOOSE p \in Paths : TRUE) \in Paths
        BY SyncClientAssumption
      <3> QED BY <3>1 DEF NoHandle, HandleStates
    <2>2. handle \in [Handles -> H]
      BY DEF Types
    <2>3. \A r \in H : [r EXCEPT !.state = "open"] \in H
      BY SMT DEF HandleStates
    <2>4. ASSUME NEW h
          PROVE [handle EXCEPT ![h] = IF state = "open" THEN [@ EXCEPT !.state = "open"]
                                      ELSE NoHandle] \in [Handles -> H]
      <3> DEFINE New(r) == IF state = "open" THEN [r EXCEPT !.state = "open"] ELSE NoHandle
      <3>1. \A g \in Handles : New(handle[g]) \in H
        BY <2>1, <2>2, <2>3
      <3> HIDE DEF H
      <3>2. [handle EXCEPT ![h] = New(handle[h])] \in [Handles -> H]
        <4> HIDE DEF New
        <4> QED BY <2>2, <3>1
      <3> QED BY <3>2
    <2>5. handle' \in [Handles -> H]
      BY <2>2, <2>4 DEF Done
    <2> QED BY <2>5, SMT DEF Types, Done
  \* The operation of a thread begins.
  <1>BeginStep.
      ASSUME IInv, NEW t \in Threads, NEW kind, NEW h, NEW p, NEW next, Begin(t, kind, h, p, next),
             next \in {"rpc", "find"}, next = "find" => kind \in Kinds /\ p \in Paths,
             handle' \in [Handles -> [state : HandleStates, path : Paths, mode : Modes \cup {"r"}]],
             UNCHANGED <<str, mapVars, streamVars>>
      PROVE  IInv'
    <2> USE <1>BeginStep
    <2>1. /\ pc'[t] = next /\ pc[t] = "idle"
          /\ cur'[t] = [kind |-> kind, handle |-> h, path |-> p, id |-> nops + 1]
          /\ DOMAIN pc' = Threads /\ DOMAIN cur' = Threads
          /\ \A u \in Threads : u # t => pc'[u] = pc[u] /\ cur'[u] = cur[u]
      BY SMT DEF Begin, IInv, Types
    <2>2. nops' \in Nat /\ nops + 1 \in Nat
      BY SMT DEF Begin, IInv, Types
    <2>3. Types'
      BY <2>1, <2>2 DEF IInv, Types, Streams, Kinds, Messages, mapVars, streamVars
    <2>4. Holds(t)'
      BY <2>1, <2>2, SMT DEF Holds
    <2>5. pc[t] \notin {"lock_read", "receive"} /\ pc'[t] \notin {"lock_read", "receive"}
      BY <2>1, SMT
    <2> QED BY <2>1, <2>3, <2>4, <2>5, <1>OutsideStep DEF streamVars
  <1>OpenStep.
      ASSUME IInv, NEW t \in Threads, NEW h \in Handles, NEW p \in Paths, NEW m \in Modes,
             Open(t, h, p, m)
      PROVE  IInv'
    <2> USE <1>OpenStep
    <2>1. handle' \in [Handles -> [state : HandleStates, path : Paths, mode : Modes \cup {"r"}]]
      BY SMT DEF Open, IInv, Types, HandleStates
    <2> QED BY <2>1, <1>BeginStep, SMT DEF Open
  <1>ReleaseStep.
      ASSUME IInv, NEW t \in Threads, NEW h \in Handles, Release(t, h)
      PROVE  IInv'
    <2> USE <1>ReleaseStep
    <2> DEFINE H == [state : HandleStates, path : Paths, mode : Modes \cup {"r"}]
    <2>1. handle' \in [Handles -> H]
      <3>1. handle \in [Handles -> H]
        BY DEF IInv, Types
      <3>2. \A r \in H : [r EXCEPT !.state = "closing"] \in H
        BY SMT DEF HandleStates
      <3>3. [handle[h] EXCEPT !.state = "closing"] \in H
        BY <3>1, <3>2
      <3>4. handle' = [handle EXCEPT ![h] = [handle[h] EXCEPT !.state = "closing"]]
        BY DEF Release
      <3> HIDE DEF H
      <3> QED BY <3>1, <3>3, <3>4
    <2> QED BY <2>1, <1>BeginStep, SMT DEF Release
  <1>ReadWriteStep.
      ASSUME IInv, NEW t \in Threads, NEW k \in Kinds, NEW h \in Handles, ReadWrite(t, k, h)
      PROVE  IInv'
    <2> USE <1>ReadWriteStep
    <2>1. handle[h].path \in Paths
      BY DEF IInv, Types
    <2>2. handle' \in [Handles -> [state : HandleStates, path : Paths, mode : Modes \cup {"r"}]]
      BY DEF ReadWrite, IInv, Types
    <2> QED BY <2>1, <2>2, <1>BeginStep DEF ReadWrite
  \* A thread moves between labels at which it holds no mutex of a stream.
  <1>MoveStep.
      ASSUME IInv, NEW t \in Threads, NEW next,
             pc[t] \notin {"lock_read", "receive"},
             next \notin {"find", "send", "lock_read", "receive"},
             pc' = [pc EXCEPT ![t] = next],
             DOMAIN cur' = Threads, DOMAIN str' = Threads,
             \A u \in Threads : u # t => cur'[u] = cur[u] /\ str'[u] = str[u],
             handle' \in [Handles -> [state : HandleStates, path : Paths, mode : Modes \cup {"r"}]],
             map' \in [Kinds -> [Paths -> 0 .. MaxStreams]], nstreams' \in Nat,
             UNCHANGED <<nops, streamVars>>
      PROVE  IInv'
    <2> USE <1>MoveStep
    <2>1. /\ pc'[t] = next /\ DOMAIN pc' = Threads
          /\ \A u \in Threads : u # t => pc'[u] = pc[u]
      BY DEF IInv, Types
    <2>2. Types'
      BY <2>1 DEF IInv, Types, Streams, Kinds, Messages, streamVars
    <2>3. Holds(t)'
      BY <2>1 DEF Holds
    <2> QED BY <2>1, <2>2, <2>3, <1>OutsideStep DEF streamVars
  <1>FindStep.
      ASSUME IInv, NEW t \in Threads, Find(t)
      PROVE  IInv'
    <2> USE <1>FindStep
    <2> DEFINE s == map[cur[t].kind][cur[t].path]
    <2>1. pc[t] = "find"
      BY DEF Find
    <2>2. cur[t].kind \in Kinds /\ cur[t].path \in Paths /\ cur[t].id \in Nat
      BY <2>1 DEF IInv, Holds
    <2>3. s \in 0 .. MaxStreams
      BY <2>2 DEF IInv, Types
    <2>4. /\ pc'[t] = IF s = 0 THEN "rpc" ELSE "send"
          /\ str'[t] = s /\ cur' = cur
          /\ DOMAIN pc' = Threads /\ DOMAIN str' = Threads
          /\ \A u \in Threads : u # t => pc'[u] = pc[u] /\ str'[u] = str[u]
      BY DEF Find, IInv, Types
    <2>5. Types'
      BY <2>4 DEF Find, IInv, Types, Streams, Kinds, Messages, mapVars, streamVars
    <2>6. s # 0 => s \in Streams
      BY ONLY <2>3, SyncClientAssumption, SMT DEF Streams
    <2>7. pc[t] \notin {"lock_read", "receive"} /\ pc'[t] \notin {"lock_read", "receive"}
      <3> HIDE DEF s
      <3> QED BY <2>1, <2>4, SMT
    <2>8. Holds(t)'
      <3>1. CASE s = 0
        <4>1. pc'[t] = "rpc"
          BY <2>4, <3>1
        <4> QED BY <4>1, SMT DEF Holds
      <3>2. CASE s # 0
        <4>1. pc'[t] = "send" /\ str'[t] \in Streams
          BY <2>4, <2>6, <3>2
        <4>2. "send" # "lock_read" /\ "send" # "receive"
          BY SMT
        <4> QED BY <2>2, <2>4, <4>1, <4>2 DEF Holds, Kinds, Streams
      <3> QED BY <3>1, <3>2
    <2> QED BY <2>4, <2>5, <2>7, <2>8, <1>OutsideStep DEF Find, streamVars
  \* remove_streams goes on to the other kind, returns, or is followed by a unary call.
  <1>RemovedStep.
      ASSUME IInv, NEW t \in Threads, NEW k \in Kinds, Removed(t, k),
             pc[t] \notin {"lock_read", "receive"},
             map' \in [Kinds -> [Paths -> 0 .. MaxStreams]], nstreams' \in Nat,
             UNCHANGED <<nops, streamVars>>
      PROVE  IInv'
    <2> USE <1>RemovedStep
    <2>0. /\ "remove_write" \notin {"find", "send", "lock_read", "receive"}
          /\ "idle" \notin {"find", "send", "lock_read", "receive"}
          /\ "rpc" \notin {"find", "send", "lock_read", "receive"}
      BY SMT
    <2>1. CASE k = "read"
      BY <2>0, <2>1, <1>MoveStep DEF Removed, IInv, Types
    <2>2. CASE k # "read" /\ cur[t].kind = "release"
      <3>1. pc' = [pc EXCEPT ![t] = "idle"] /\ Done(t, "free")
        BY <2>2 DEF Removed
      <3>2. Types
        BY DEF IInv
      <3> QED BY <2>0, <3>1, <3>2, <1>DoneTypes, <1>MoveStep
    <2>3. CASE k # "read" /\ cur[t].kind # "release"
      <3>1. pc' = [pc EXCEPT ![t] = "rpc"] /\ UNCHANGED <<cur, str, handle>>
        BY <2>3 DEF Removed
      <3> QED BY <2>0, <3>1, <1>MoveStep DEF IInv, Types
    <2> QED BY <2>1, <2>2, <2>3
  <1>Labels.
      ASSUME NEW k \in Kinds
      PROVE  /\ Removing(k) \notin {"find", "send", "lock_read", "receive"}
             /\ Erasing(k) \notin {"find", "send", "lock_read", "receive"}
             /\ Creating(k) \notin {"find", "send", "lock_read", "receive"}
    BY <1>Labels, SMT DEF Kinds, Removing, Erasing, Creating
  <1>RemoveFindStep.
      ASSUME IInv, NEW t \in Threads, NEW k \in Kinds, RemoveFind(t, k)
      PROVE  IInv'
    <2> USE <1>RemoveFindStep
    <2>1. pc[t] \notin {"lock_read", "receive"}
      BY <1>Labels DEF RemoveFind
    <2>2. map' \in [Kinds -> [Paths -> 0 .. MaxStreams]] /\ nstreams' \in Nat
      BY DEF RemoveFind, IInv, Types
    <2>3. UNCHANGED <<nops, streamVars>>
      BY DEF RemoveFind
    <2>4. CASE map[k][cur[t].path] # 0
      <3>1. pc' = [pc EXCEPT ![t] = Erasing(k)] /\ UNCHANGED <<cur, str, handle>>
        BY <2>4 DEF RemoveFind
      <3> QED BY <2>1, <2>2, <2>3, <3>1, <1>Labels, <1>MoveStep DEF IInv, Types
    <2>5. CASE ~(map[k][cur[t].path] # 0)
      <3>1. Removed(t, k)
        BY <2>5 DEF RemoveFind
      <3> QED BY <2>1, <2>2, <2>3, <3>1, <1>RemovedStep
    <2> QED BY <2>4, <2>5
  \* One entry of a stream map changes.
  <1>MapTypes.
      ASSUME Types, NEW k \in Kinds, NEW p, NEW s \in 0 .. MaxStreams
      PROVE  [map EXCEPT ![k][p] = s] \in [Kinds -> [Paths -> 0 .. MaxStreams]]
    <2> USE <1>MapTypes
    <2>1. map \in [Kinds -> [Paths -> 0 .. MaxStreams]]
      BY DEF Types
    <2>2. [map[k] EXCEPT ![p] = s] \in [Paths -> 0 .. MaxStreams]
      BY <2>1
    <2> QED BY <2>1, <2>2
  <1>EraseStep.
      ASSUME IInv, NEW t \in Threads, NEW k \in Kinds, Erase(t, k)
      PROVE  IInv'
    <2> USE <1>EraseStep
    <2>1. pc[t] \notin {"lock_read", "receive"}
      BY <1>Labels DEF Erase
    <2>2. 0 \in 0 .. MaxStreams
      BY SyncClientAssumption, SMT
    <2>3. map' \in [Kinds -> [Paths -> 0 .. MaxStreams]] /\ nstreams' \in Nat
      BY <2>2, <1>MapTypes DEF Erase, IInv, Types
    <2> QED BY <2>1, <2>3, <1>RemovedStep DEF Erase
  <1>CreateStep.
      ASSUME IInv, NEW t \in Threads, NEW k \in Kinds, Create(t, k)
      PROVE  IInv'
    <2> USE <1>CreateStep
    <2> DEFINE both == cur[t].kind = "open" /\ handle[cur[t].handle].mode = "rw" /\ k = "read"
    <2>1. pc[t] \notin {"lock_read", "receive"}
      BY <1>Labels DEF Create
    <2>2. map' \in [Kinds -> [Paths -> 0 .. MaxStreams]] /\ nstreams' \in Nat
      <3>1. CASE map[k][cur[t].path] # 0
        BY <3>1 DEF Create, IInv, Types
      <3>2. CASE ~(map[k][cur[t].path] # 0)
        <4>1. /\ nstreams < MaxStreams /\ nstreams' = nstreams + 1
              /\ map' = [map EXCEPT ![k][cur[t].path] = nstreams + 1]
          BY <3>2 DEF Create
        <4>2. nstreams \in Nat /\ Types
          BY DEF IInv, Types
        <4>3. nstreams + 1 \in 0 .. MaxStreams /\ nstreams + 1 \in Nat
          BY ONLY <4>1, <4>2, SyncClientAssumption, SMT
        <4> QED BY <4>1, <4>2, <4>3, <1>MapTypes
      <3> QED BY <3>1, <3>2
    <2>3. UNCHANGED <<nops, streamVars>>
      BY DEF Create
    <2>4. CASE both
      <3>1. pc' = [pc EXCEPT ![t] = "create_write"] /\ UNCHANGED <<cur, str, handle>>
        BY <2>4 DEF Create
      <3>2. "create_write" \notin {"find", "send", "lock_read", "receive"}
        BY SMT
      <3> QED BY <2>1, <2>2, <2>3, <3>1, <3>2, <1>MoveStep DEF IInv, Types
    <2>5. CASE ~both
      <3>1. pc' = [pc EXCEPT ![t] = "idle"] /\ Done(t, IF rpc[t] = "ok" THEN "open" ELSE "free")
        BY <2>5 DEF Create
      <3>2. "idle" \notin {"find", "send", "lock_read", "receive"}
        BY SMT
      <3>3. Types
        BY DEF IInv
      <3> QED BY <2>1, <2>2, <2>3, <3>1, <3>2, <3>3, <1>DoneTypes, <1>MoveStep
    <2> QED BY <2>4, <2>5
  <1>UnaryReturnsStep.
      ASSUME IInv, NEW t \in Threads, UnaryReturns(t)
      PROVE  IInv'
    <2> USE <1>UnaryReturnsStep
    <2>1. pc[t] \notin {"lock_read", "receive"}
      BY SMT DEF UnaryReturns
    <2>2. map' \in [Kinds -> [Paths -> 0 .. MaxStreams]] /\ nstreams' \in Nat
      BY DEF UnaryReturns, mapVars, IInv, Types
    <2>3. UNCHANGED <<nops, streamVars>>
      BY DEF UnaryReturns
    <2>4. CASE rpc[t] = "eperm"
      <3>1. pc' = [pc EXCEPT ![t] = "idle"] /\ Done(t, "free")
        BY <2>4 DEF UnaryReturns
      <3>2. "idle" \notin {"find", "send", "lock_read", "receive"}
        BY SMT
      <3>3. Types
        BY DEF IInv
      <3> QED BY <2>1, <2>2, <2>3, <3>1, <3>2, <3>3, <1>DoneTypes, <1>MoveStep
    <2>5. CASE rpc[t] # "eperm"
      <3> DEFINE next == CASE cur[t].kind = "release" -> "remove_read"
                           [] cur[t].kind \in Kinds -> Creating(cur[t].kind)
                           [] OTHER -> IF handle[cur[t].handle].mode = "w" THEN "create_write"
                                       ELSE "create_read"
      <3>1. pc' = [pc EXCEPT ![t] = next] /\ UNCHANGED <<cur, str, handle>>
        BY <2>5, SMT DEF UnaryReturns
      <3>2. next \notin {"find", "send", "lock_read", "receive"}
        BY SMT DEF Kinds, Creating
      <3> HIDE DEF next
      <3> QED BY <2>1, <2>2, <2>3, <3>1, <3>2, <1>MoveStep DEF IInv, Types
    <2> QED BY <2>4, <2>5
  <1>UnaryFailsStep.
      ASSUME IInv, NEW t \in Threads, UnaryFails(t)
      PROVE  IInv'
    <2> USE <1>UnaryFailsStep
    <2>1. /\ pc[t] \notin {"lock_read", "receive"}
          /\ "idle" \notin {"find", "send", "lock_read", "receive"}
      BY SMT DEF UnaryFails
    <2>2. map' \in [Kinds -> [Paths -> 0 .. MaxStreams]] /\ nstreams' \in Nat
      BY DEF UnaryFails, mapVars, IInv, Types
    <2>3. UNCHANGED <<nops, streamVars>> /\ pc' = [pc EXCEPT ![t] = "idle"] /\ Done(t, "free")
      BY DEF UnaryFails
    <2>4. Types
      BY DEF IInv
    <2> QED BY <2>1, <2>2, <2>3, <2>4, <1>DoneTypes, <1>MoveStep
  \* Steps that touch nothing the invariant speaks of.
  <1>QuietStep.
      ASSUME IInv, UNCHANGED <<pc, cur, str, map, nstreams, mtxWrite, mtxRead, queue, dead, handle,
                               nops>>
      PROVE  IInv'
    <2> USE <1>QuietStep
    <2>1. Types'
      BY DEF IInv, Types, Streams, Kinds, Messages, HandleStates
    <2>2. ASSUME NEW t \in Threads PROVE Holds(t)'
      BY DEF IInv, Holds, Streams, Kinds
    <2>3. ASSUME NEW s \in Streams PROVE Ordered(s)'
      <3>1. Ordered(s)
        BY DEF IInv
      <3> QED BY <3>1 DEF Ordered, Nobody
    <2> QED BY <2>1, <2>2, <2>3 DEF IInv, Streams
  \* The steps that move a request or a mutex of stream s leave the other threads and the
  \* other streams alone.
  <1>StreamStep.
      ASSUME IInv, Types', NEW t \in Threads, NEW s \in Streams,
             pc[t] \in {"send", "lock_read", "receive"}, str[t] = s,
             Holds(t)', Ordered(s)',
             \A u \in Threads : u # t => pc'[u] = pc[u] /\ cur'[u] = cur[u] /\ str'[u] = str[u],
             \A r \in Streams : r # s => /\ mtxWrite'[r] = mtxWrite[r] /\ mtxRead'[r] = mtxRead[r]
                                         /\ queue'[r] = queue[r] /\ (r \in dead' <=> r \in dead),
             mtxWrite'[s] = mtxWrite[s] \/ mtxWrite[s] \in {t, Nobody},
             mtxRead'[s] = mtxRead[s] \/ mtxRead[s] \in {t, Nobody}
      PROVE  IInv'
    <2> USE <1>StreamStep
    <2>0. t # Nobody
      BY SyncClientAssumption DEF Nobody
    <2>1. ASSUME NEW u \in Threads PROVE Holds(u)'
      <3>1. CASE u = t
        BY <3>1
      <3>2. CASE u # t
        <4>0. u # Nobody
          BY SyncClientAssumption DEF Nobody
        <4>1. Holds(u)
          BY DEF IInv
        <4>2. pc'[u] = pc[u] /\ cur'[u] = cur[u] /\ str'[u] = str[u]
          BY <3>2
        <4>3. pc[u] = "lock_read" => mtxWrite'[str[u]] = u
          <5>1. SUFFICES ASSUME pc[u] = "lock_read" PROVE mtxWrite'[str[u]] = u
            OBVIOUS
          <5>2. str[u] \in Streams /\ mtxWrite[str[u]] = u
            BY <4>1, <5>1 DEF Holds
          <5>3. CASE str[u] = s
            BY <3>2, <4>0, <5>2, <5>3
          <5>4. CASE str[u] # s
            BY <5>2, <5>4
          <5> QED BY <5>3, <5>4
        <4>4. pc[u] = "receive" => mtxRead'[str[u]] = u
          <5>1. SUFFICES ASSUME pc[u] = "receive" PROVE mtxRead'[str[u]] = u
            OBVIOUS
          <5>2. str[u] \in Streams /\ mtxRead[str[u]] = u
            BY <4>1, <5>1 DEF Holds
          <5>3. CASE str[u] = s
            BY <3>2, <4>0, <5>2, <5>3
          <5>4. CASE str[u] # s
            BY <5>2, <5>4
          <5> QED BY <5>3, <5>4
        <4> QED BY <4>1, <4>2, <4>3, <4>4 DEF Holds, Kinds, Streams
      <3> QED BY <3>1, <3>2
    <2>2. ASSUME NEW r \in Streams PROVE Ordered(r)'
      <3>1. CASE r = s
        BY <3>1
      <3>2. CASE r # s
        <4>1. Ordered(r)
          BY DEF IInv
        <4>2. /\ mtxWrite'[r] = mtxWrite[r] /\ mtxRead'[r] = mtxRead[r]
              /\ queue'[r] = queue[r] /\ (r \in dead' <=> r \in dead)
          BY <3>2
        <4>3. mtxWrite[r] # Nobody =>
                mtxWrite[r] \in Threads /\ pc'[mtxWrite[r]] = "lock_read" /\ str'[mtxWrite[r]] = r
          BY <3>2, <4>1 DEF Ordered
        <4>4. mtxRead[r] # Nobody =>
                mtxRead[r] \in Threads /\ pc'[mtxRead[r]] = "receive" /\ str'[mtxRead[r]] = r
          BY <3>2, <4>1 DEF Ordered
        <4> QED BY ONLY <4>1, <4>2, <4>3, <4>4, SMT DEF Ordered, Nobody
      <3> QED BY <3>1, <3>2
    <2> QED BY <2>1, <2>2 DEF IInv, Streams
  <1>SendStep.
      ASSUME IInv, NEW t \in Threads, Send(t)
      PROVE  IInv'
    <2> USE <1>SendStep
    <2> DEFINE q == [by |-> t, id |-> cur[t].id, kind |-> cur[t].kind, path |-> cur[t].path,
                     served |-> FALSE]
    <2>0. pc[t] = "send"
      BY DEF Send
    <2>2. /\ str[t] \in Streams
          /\ cur[t].kind \in Kinds /\ cur[t].path \in Paths /\ cur[t].id \in Nat
      BY <2>0 DEF IInv, Holds
    <2> PICK s \in Streams : str[t] = s
      BY <2>2
    <2>1. pc[t] = "send" /\ mtxWrite[s] = Nobody
      BY DEF Send
    <2>3. CASE s \in broken
      <3>1. /\ pc' = [pc EXCEPT ![t] = "remove_read"] /\ str' = [str EXCEPT ![t] = 0]
            /\ UNCHANGED <<cur, handle, map, nstreams, nops, streamVars>>
        BY <2>3 DEF Send, mapVars, streamVars
      <3>2. /\ "remove_read" \notin {"find", "send", "lock_read", "receive"}
            /\ pc[t] \notin {"lock_read", "receive"}
        BY <2>1, SMT
      <3> QED BY <3>1, <3>2, <1>MoveStep DEF IInv, Types
    <2>4. CASE s \notin broken
      <3>1. /\ pc' = [pc EXCEPT ![t] = "lock_read"] /\ mtxWrite' = [mtxWrite EXCEPT ![s] = t]
            /\ queue' = [queue EXCEPT ![s] = Append(queue[s], q)]
            /\ UNCHANGED <<cur, str, handle, map, nstreams, nops, mtxRead, dead>>
        BY <2>4 DEF Send, mapVars
      <3>2. q \in Messages
        BY <2>2 DEF Messages
      <3>3. queue[s] \in Seq(Messages)
        BY <2>2 DEF IInv, Types
      <3> HIDE DEF q
      <3>4. /\ Append(queue[s], q) \in Seq(Messages)
            /\ Len(Append(queue[s], q)) = Len(queue[s]) + 1
            /\ Append(queue[s], q)[Len(queue[s]) + 1] = q
            /\ Len(queue[s]) = 1 => Append(queue[s], q)[1] = queue[s][1]
        BY ONLY <3>2, <3>3, SMT
      <3>5. Types'
        <4>1. queue' \in [Streams -> Seq(Messages)]
          BY <3>1, <3>4 DEF IInv, Types
        <4> QED BY <3>1, <4>1 DEF IInv, Types, Streams, Kinds, Messages, HandleStates
      <3>6. pc'[t] = "lock_read" /\ mtxWrite'[s] = t /\ queue'[s] = Append(queue[s], q)
        BY <2>2, <3>1 DEF IInv, Types
      <3>7. Holds(t)'
        <4>1. "lock_read" \notin {"find", "send"} /\ "lock_read" # "receive"
          BY SMT
        <4> QED BY <2>2, <3>1, <3>6, <4>1 DEF Holds, Streams
      <3>8. Ordered(s)'
        <4>1. Ordered(s)
          BY <2>2 DEF IInv
        <4>2. t # Nobody /\ q.by = t
          BY SyncClientAssumption DEF Nobody, q
        <4>3. mtxRead[s] # Nobody =>
                mtxRead[s] \in Threads /\ pc'[mtxRead[s]] = "receive" /\ str[mtxRead[s]] = s
          <5>1. "receive" # "send"
            BY SMT
          <5> QED BY <2>1, <3>1, <4>1, <5>1 DEF Ordered, IInv, Types
        <4>4. s \notin dead =>
                Len(queue[s]) = (IF mtxRead[s] = Nobody THEN 0 ELSE 1) + 0
          BY <2>1, <4>1 DEF Ordered
        <4>5. mtxWrite'[s] # Nobody =>
                mtxWrite'[s] \in Threads /\ pc'[mtxWrite'[s]] = "lock_read" /\ str[mtxWrite'[s]] = s
          BY <3>6
        <4>6. s \notin dead =>
                Len(queue'[s]) = (IF mtxRead[s] = Nobody THEN 0 ELSE 1)
                                 + (IF mtxWrite'[s] = Nobody THEN 0 ELSE 1)
          <5>1. mtxWrite'[s] # Nobody
            BY <3>6, <4>2
          <5> QED BY ONLY <3>4, <3>6, <4>4, <5>1, SMT
        <4>7. s \notin dead /\ mtxRead[s] # Nobody => queue'[s][1].by = mtxRead[s]
          <5>1. s \notin dead /\ mtxRead[s] # Nobody => Len(queue[s]) = 1
            BY ONLY <4>4, SMT
          <5>2. s \notin dead /\ mtxRead[s] # Nobody => queue[s][1].by = mtxRead[s]
            BY <4>1 DEF Ordered
          <5> QED BY <3>4, <3>6, <5>1, <5>2
        <4>8. queue'[s][Len(queue'[s])].by = mtxWrite'[s]
          BY <3>4, <3>6, <4>2
        <4>9. str' = str /\ mtxRead' = mtxRead /\ dead' = dead
          BY <3>1
        <4> QED BY ONLY <4>3, <4>5, <4>6, <4>7, <4>8, <4>9, SMT DEF Ordered, Nobody
      <3>9. /\ \A u \in Threads : u # t => pc'[u] = pc[u] /\ cur'[u] = cur[u] /\ str'[u] = str[u]
            /\ \A r \in Streams : r # s => mtxWrite'[r] = mtxWrite[r] /\ queue'[r] = queue[r]
        BY <2>2, <3>1 DEF IInv, Types
      <3> QED BY <2>1, <2>2, <3>1, <3>5, <3>7, <3>8, <3>9, <1>StreamStep
    <2> QED BY <2>3, <2>4
  <1>LockReadStep.
      ASSUME IInv, NEW t \in Threads, LockRead(t)
      PROVE  IInv'
    <2> USE <1>LockReadStep
    <2>0. pc[t] = "lock_read" /\ t # Nobody
      BY SyncClientAssumption DEF LockRead, Nobody
    <2>1. str[t] \in Streams /\ mtxWrite[str[t]] = t
      BY <2>0 DEF IInv, Holds
    <2> PICK s \in Streams : str[t] = s
      BY <2>1
    <2>2. /\ mtxRead[s] = Nobody /\ mtxWrite[s] = t
          /\ pc' = [pc EXCEPT ![t] = "receive"]
          /\ mtxRead' = [mtxRead EXCEPT ![s] = t] /\ mtxWrite' = [mtxWrite EXCEPT ![s] = Nobody]
          /\ UNCHANGED <<cur, str, handle, map, nstreams, nops, queue, dead>>
      BY <2>1 DEF LockRead, mapVars
    <2>3. pc'[t] = "receive" /\ mtxRead'[s] = t /\ mtxWrite'[s] = Nobody
      BY <2>2 DEF IInv, Types
    <2>4. Types'
      BY <2>2 DEF IInv, Types, Streams, Kinds, Messages, HandleStates
    <2>5. Holds(t)'
      <3>1. "receive" \notin {"find", "send"} /\ "receive" # "lock_read"
        BY SMT
      <3> QED BY <2>2, <2>3, <3>1 DEF Holds, Streams
    <2>6. Ordered(s)'
      <3>1. Ordered(s)
        BY DEF IInv
      <3>2. s \notin dead => Len(queue[s]) = 1 /\ queue[s][Len(queue[s])].by = t
        BY ONLY <2>0, <2>2, <3>1, SMT DEF Ordered
      <3>3. queue' = queue /\ dead' = dead /\ str'[t] = s
        BY <2>2
      <3> QED BY ONLY <2>0, <2>3, <3>2, <3>3, t \in Threads, SMT DEF Ordered, Nobody
    <2>7. /\ \A u \in Threads : u # t => pc'[u] = pc[u] /\ cur'[u] = cur[u] /\ str'[u] = str[u]
          /\ \A r \in Streams : r # s => mtxWrite'[r] = mtxWrite[r] /\ mtxRead'[r] = mtxRead[r]
      BY <2>2 DEF IInv, Types
    <2> QED BY <2>0, <2>2, <2>4, <2>5, <2>6, <2>7, <1>StreamStep
  <1>ReceiveStep.
      ASSUME IInv, NEW t \in Threads, Receive(t)
      PROVE  IInv'
    <2> USE <1>ReceiveStep
    <2>0. pc[t] = "receive" /\ t # Nobody
      BY SyncClientAssumption DEF Receive, Nobody
    <2>1. str[t] \in Streams /\ mtxRead[str[t]] = t
      BY <2>0 DEF IInv, Holds
    <2> PICK s \in Streams : str[t] = s
      BY <2>1
    <2>2. /\ mtxRead[s] = t /\ queue[s] # <<>> /\ s \notin dead
          /\ pc' = [pc EXCEPT ![t] = "idle"] /\ Done(t, "open")
          /\ mtxRead' = [mtxRead EXCEPT ![s] = Nobody]
          /\ queue' = [queue EXCEPT ![s] = Tail(queue[s])]
          /\ UNCHANGED <<map, nstreams, nops, mtxWrite, dead>>
      BY <2>1 DEF Receive, mapVars
    <2>3. Types /\ Ordered(s)
      BY DEF IInv
    <2>4. /\ handle' \in [Handles -> [state : HandleStates, path : Paths, mode : Modes \cup {"r"}]]
          /\ DOMAIN cur' = Threads /\ DOMAIN str' = Threads
          /\ \A u \in Threads : u # t => cur'[u] = cur[u] /\ str'[u] = str[u]
      BY <2>2, <2>3, <1>DoneTypes
    <2>5. pc'[t] = "idle" /\ mtxRead'[s] = Nobody /\ queue'[s] = Tail(queue[s])
      BY <2>2, <2>3 DEF Types
    <2>6. queue[s] \in Seq(Messages)
      BY <2>3 DEF Types
    <2>7. /\ Tail(queue[s]) \in Seq(Messages)
          /\ Len(Tail(queue[s])) = Len(queue[s]) - 1
          /\ Len(queue[s]) = 2 => Tail(queue[s])[1] = queue[s][2]
      BY ONLY <2>2, <2>6, SMT
    <2>8. Types'
      <3>1. queue' \in [Streams -> Seq(Messages)]
        BY <2>2, <2>3, <2>7 DEF Types
      <3> QED BY <2>2, <2>3, <2>4, <3>1 DEF Types, Streams, Kinds, Messages, HandleStates
    <2>9. Holds(t)'
      <3>1. "idle" \notin {"find", "send", "lock_read", "receive"}
        BY SMT
      <3> QED BY <2>5, <3>1 DEF Holds
    <2>10. Ordered(s)'
      <3>1. mtxWrite[s] # Nobody =>
              mtxWrite[s] \in Threads /\ pc'[mtxWrite[s]] = "lock_read" /\ str'[mtxWrite[s]] = s
        <4>1. "receive" # "lock_read"
          BY SMT
        <4> QED BY <2>0, <2>2, <2>3, <2>4, <4>1 DEF Ordered, Types
      <3>2. mtxWrite[s] = Nobody => Len(queue[s]) = 1
        BY ONLY <2>0, <2>2, <2>3, SMT DEF Ordered
      <3>3. mtxWrite[s] # Nobody => Len(queue[s]) = 2 /\ queue[s][2].by = mtxWrite[s]
        BY ONLY <2>0, <2>2, <2>3, SMT DEF Ordered
      <3>4. mtxWrite' = mtxWrite
        BY <2>2
      <3>5. mtxWrite[s] = Nobody => Len(queue'[s]) = 0
        BY ONLY <2>5, <2>7, <3>2, SMT
      <3>6. mtxWrite[s] # Nobody => Len(queue'[s]) = 1 /\ queue'[s][1].by = mtxWrite[s]
        BY ONLY <2>5, <2>7, <3>3, SMT
      <3>7. Len(queue'[s]) = 0 + (IF mtxWrite[s] = Nobody THEN 0 ELSE 1)
        <4>1. 0 + 0 = 0 /\ 0 + 1 = 1
          BY SMT
        <4>2. CASE mtxWrite[s] = Nobody
          BY <3>5, <4>1, <4>2
        <4>3. CASE mtxWrite[s] # Nobody
          BY <3>6, <4>1, <4>3
        <4> QED BY <4>2, <4>3
      <3> QED BY <2>5, <3>1, <3>4, <3>6, <3>7 DEF Ordered, Nobody
    <2>11. /\ \A u \in Threads : u # t => pc'[u] = pc[u]
           /\ \A r \in Streams : r # s => mtxRead'[r] = mtxRead[r] /\ queue'[r] = queue[r]
      BY <2>2, <2>3 DEF Types
    <2> QED BY <2>0, <2>2, <2>4, <2>8, <2>9, <2>10, <2>11, <1>StreamStep
  <1>ReceiveFailsStep.
      ASSUME IInv, NEW t \in Threads, ReceiveFails(t)
      PROVE  IInv'
    <2> USE <1>ReceiveFailsStep
    <2>0. pc[t] = "receive" /\ t # Nobody
      BY SyncClientAssumption DEF ReceiveFails, Nobody
    <2>1. str[t] \in Streams /\ mtxRead[str[t]] = t
      BY <2>0 DEF IInv, Holds
    <2> PICK s \in Streams : str[t] = s
      BY <2>1
    <2>2. /\ mtxRead[s] = t /\ dead' = dead \cup {s}
          /\ pc' = [pc EXCEPT ![t] = "remove_read"] /\ str' = [str EXCEPT ![t] = 0]
          /\ mtxRead' = [mtxRead EXCEPT ![s] = Nobody]
          /\ UNCHANGED <<cur, handle, map, nstreams, nops, mtxWrite, queue>>
      BY <2>1 DEF ReceiveFails, mapVars
    <2>3. Types /\ Ordered(s)
      BY DEF IInv
    <2>4. pc'[t] = "remove_read" /\ mtxRead'[s] = Nobody
      BY <2>2, <2>3 DEF Types
    <2>5. Types'
      BY <2>2, <2>3 DEF Types, Streams, Kinds, Messages, HandleStates
    <2>6. Holds(t)'
      <3>1. "remove_read" \notin {"find", "send", "lock_read", "receive"}
        BY SMT
      <3> QED BY <2>4, <3>1 DEF Holds
    <2>7. Ordered(s)'
      <3>1. mtxWrite[s] # Nobody =>
              mtxWrite[s] \in Threads /\ pc'[mtxWrite[s]] = "lock_read" /\ str'[mtxWrite[s]] = s
        <4>1. "receive" # "lock_read"
          BY SMT
        <4> QED BY <2>0, <2>2, <2>3, <4>1 DEF Ordered, Types
      <3>2. mtxWrite' = mtxWrite /\ s \in dead'
        BY <2>2
      <3> QED BY <2>4, <3>1, <3>2 DEF Ordered, Nobody
    <2>8. /\ \A u \in Threads : u # t => pc'[u] = pc[u] /\ cur'[u] = cur[u] /\ str'[u] = str[u]
          /\ \A r \in Streams : r # s => mtxRead'[r] = mtxRead[r] /\ (r \in dead' <=> r \in dead)
      BY <2>2, <2>3 DEF Types
    <2> QED BY <2>0, <2>2, <2>5, <2>6, <2>7, <2>8, <1>StreamStep
  \* The server serves a request: the order of the queue stays.
  <1>ServeStep.
      ASSUME IInv, NEW s \in Streams, Serve(s)
      PROVE  IInv'
    <2> USE <1>ServeStep
    <2>1. PICK i \in DOMAIN queue[s] :
            /\ queue' = [queue EXCEPT ![s][i].served = TRUE]
            /\ UNCHANGED <<pc, cur, str, map, nstreams, mtxWrite, mtxRead, dead, handle, nops>>
      BY DEF Serve, threadVars, mapVars
    <2> DEFINE new == [queue[s] EXCEPT ![i] = [queue[s][i] EXCEPT !.served = TRUE]]
    <2>2. queue[s] \in Seq(Messages)
      BY DEF IInv, Types
    <2>3. queue[s][i] \in Messages
      BY <2>2, SMT
    <2>4. /\ [queue[s][i] EXCEPT !.served = TRUE] \in Messages
          /\ [queue[s][i] EXCEPT !.served = TRUE].by = queue[s][i].by
      <3>1. \A m \in Messages : [m EXCEPT !.served = TRUE] \in Messages
        BY DEF Messages
      <3>2. \A m \in Messages : [m EXCEPT !.served = TRUE].by = m.by
        BY SMT DEF Messages
      <3> QED BY <2>3, <3>1, <3>2
    <2>5. new \in Seq(Messages) /\ Len(new) = Len(queue[s])
      BY <2>2, <2>4, SMT
    <2>6. \A j \in 1 .. Len(queue[s]) : new[j].by = queue[s][j].by
      BY <2>2, <2>4, SMT
    <2>7. queue' = [queue EXCEPT ![s] = new]
      BY <2>1
    <2>8. queue'[s] = new /\ \A r \in Streams : r # s => queue'[r] = queue[r]
      BY <2>7 DEF IInv, Types
    <2> HIDE DEF new
    <2>9. Types'
      <3>1. queue' \in [Streams -> Seq(Messages)]
        BY <2>5, <2>7 DEF IInv, Types
      <3> QED BY <2>1, <3>1 DEF IInv, Types, Streams, Kinds, Messages, HandleStates
    <2>10. ASSUME NEW t \in Threads PROVE Holds(t)'
      BY <2>1 DEF IInv, Holds, Streams, Kinds
    <2>11. ASSUME NEW r \in Streams PROVE Ordered(r)'
      <3>1. Ordered(r)
        BY DEF IInv
      <3>2. CASE r # s
        BY <2>1, <2>8, <3>1, <3>2 DEF Ordered, Nobody
      <3>3. CASE r = s
        <4>1. s \notin dead /\ mtxRead[s] # Nobody => new[1].by = mtxRead[s]
          <5>1. s \notin dead /\ mtxRead[s] # Nobody => 1 \in 1 .. Len(queue[s])
            BY ONLY <3>1, <3>3, SMT DEF Ordered
          <5> QED BY <2>6, <3>1, <3>3, <5>1 DEF Ordered
        <4>2. s \notin dead /\ mtxWrite[s] # Nobody => new[Len(new)].by = mtxWrite[s]
          <5>1. s \notin dead /\ mtxWrite[s] # Nobody => Len(queue[s]) \in 1 .. Len(queue[s])
            BY ONLY <3>1, <3>3, SMT DEF Ordered
          <5> QED BY <2>5, <2>6, <3>1, <3>3, <5>1 DEF Ordered
        <4> QED BY <2>1, <2>5, <2>8, <3>1, <3>3, <4>1, <4>2 DEF Ordered, Nobody
      <3> QED BY <3>2, <3>3
    <2> QED BY <2>9, <2>10, <2>11 DEF IInv, Streams
  <1> SUFFICES ASSUME IInv, [Next]_vars PROVE IInv'
    OBVIOUS
  <1>1. CASE UNCHANGED vars
    BY <1>1, <1>QuietStep DEF vars, threadVars, mapVars, streamVars
  <1>2. ASSUME NEW t \in Threads, ThreadStep(t) PROVE IInv'
    <2>1. CASE Dangle(t)
      BY <2>1, <1>QuietStep DEF Dangle, threadVars, mapVars, streamVars
    <2> QED BY <1>2, <2>1, <1>FindStep, <1>SendStep, <1>LockReadStep, <1>ReceiveStep, <1>ReceiveFailsStep,
               <1>RemoveFindStep, <1>EraseStep, <1>CreateStep, <1>UnaryReturnsStep DEF ThreadStep
  <1>3. ASSUME NEW t \in Threads, ServeUnary(t) PROVE IInv'
    BY <1>3, <1>QuietStep DEF ServeUnary, mapVars, streamVars
  <1>4. ASSUME NEW s \in Streams, Break(s) PROVE IInv'
    BY <1>4, <1>QuietStep DEF Break, threadVars, mapVars
  <1>5. ASSUME NEW w \in late, ServeLate(w) PROVE IInv'
    BY <1>5, <1>QuietStep DEF ServeLate, threadVars, mapVars, streamVars
  <1> QED BY <1>1, <1>2, <1>3, <1>4, <1>5, <1>OpenStep, <1>ReleaseStep, <1>ReadWriteStep, <1>UnaryFailsStep,
             <1>ServeStep DEF Next

\* The reader of a stream that did not fail has the oldest request on it.
LEMMA OwnHead == IInv => OwnReply
<1> SUFFICES ASSUME IInv, NEW t \in Threads, pc[t] = "receive", str[t] \notin dead
             PROVE  queue[str[t]] # <<>> /\ Head(queue[str[t]]).by = t
  BY DEF OwnReply
<1>1. str[t] \in Streams /\ mtxRead[str[t]] = t /\ t # Nobody
  BY SyncClientAssumption DEF IInv, Holds, Nobody
<1>2. Ordered(str[t]) /\ queue[str[t]] \in Seq(Messages)
  BY <1>1 DEF IInv, Types
<1>3. queue[str[t]][1].by = t
  BY <1>1, <1>2 DEF Ordered
<1>4. Len(queue[str[t]]) >= 1
  BY <1>1, <1>2, SMT DEF Ordered
<1> QED BY <1>2, <1>3, <1>4, SMT

\* No read() or write() returns the reply to another thread's request: while Read has not
\* failed on a stream, the oldest request whose reply is still to come is the reader's.
THEOREM OwnReplyAlways == Spec => []OwnReply
BY OwnHead, InitStep, NextStep, PTL DEF Spec

-----------------------------------------------------------------------------
(* The handles of the kernel: which operations can be under way on a path at  *)
(* the same time.                                                             *)

\* What the return of an operation does to the handles.
LEMMA EndsEffect ==
  ASSUME Types, NEW t \in Threads, Handled(t), Ends(t)
  PROVE  /\ ~Busy(t)'
         /\ \A u \in Threads : u # t => Busy(u)' = Busy(u) /\ cur'[u] = cur[u]
         /\ \A g \in Handles : g # cur[t].handle \/ cur[t].kind \in Kinds => handle'[g] = handle[g]
         /\ \A p : Users(p)' \subseteq Users(p)
<1> PICK state : Done(t, state)
  BY DEF Ends
<1>1. pc' = [pc EXCEPT ![t] = "idle"] /\ DOMAIN pc = Threads /\ DOMAIN cur = Threads
  BY DEF Ends, Types
<1>2. /\ ~Busy(t)'
      /\ \A u \in Threads : u # t => Busy(u)' = Busy(u) /\ cur'[u] = cur[u]
  BY <1>1 DEF Busy, Done
<1> DEFINE h == cur[t].handle
<1>3. h \in Handles /\ handle[h].state # "free" /\ DOMAIN handle = Handles
  <2>1. Busy(t) /\ StateOf(cur[t].kind) # "free"
    BY SMT DEF Ends, StateOf
  <2> QED BY <2>1 DEF Handled, Types
<1>4. \A g \in Handles : g # h \/ cur[t].kind \in Kinds => handle'[g] = handle[g]
  <2>1. cur[t].kind \in Kinds => cur[t].kind \notin {"open", "release"}
    BY SMT DEF Kinds
  <2> QED BY <1>3, <2>1 DEF Done
<1>5. handle'[h].state # "free" => handle'[h].path = handle[h].path
  <2>1. CASE cur[t].kind \notin {"open", "release"}
    BY <2>1 DEF Done
  <2>2. CASE cur[t].kind \in {"open", "release"}
    <3>1. handle'[h] = IF state = "open" THEN [handle[h] EXCEPT !.state = "open"] ELSE NoHandle
      BY <1>3, <2>2 DEF Done
    <3>2. handle[h] \in [state : HandleStates, path : Paths, mode : Modes \cup {"r"}]
      BY <1>3 DEF Types
    <3> QED BY <3>1, <3>2, SMT DEF NoHandle
  <2> QED BY <2>1, <2>2
<1>6. ASSUME NEW p, NEW g \in Users(p)' PROVE g \in Users(p)
  <2>1. g \in Handles /\ handle'[g].state # "free" /\ handle'[g].path = p
    BY <1>6 DEF Users
  <2>2. CASE g = h
    BY <1>3, <1>5, <2>1, <2>2 DEF Users
  <2>3. CASE g # h
    <3>1. handle'[g] = handle[g]
      BY <1>4, <2>1, <2>3
    <3> QED BY <2>1, <3>1, SMT DEF Users
  <2> QED BY <2>2, <2>3
<1> QED BY <1>2, <1>4, <1>6

\* A thread goes from one label of its operation to another.
LEMMA Continues ==
  ASSUME Types, NEW t \in Threads, NEW next, Busy(t), next # "idle",
         pc' = [pc EXCEPT ![t] = next], UNCHANGED <<cur, handle, shared>>
  PROVE  Goes
<1>1. DOMAIN pc = Threads
  BY DEF Types
<1> QED BY <1>1 DEF Goes, Busy

\* Every step of a thread ends its operation or goes on with it.
LEMMA ThreadGoes ==
  ASSUME Types, NEW t \in Threads, ThreadStep(t) \/ UnaryFails(t)
  PROVE  Ends(t) \/ Goes
<1>0. "idle" \notin {"find", "send", "lock_read", "receive", "rpc", "remove_read", "remove_write",
                     "erase_read", "erase_write", "create_read", "create_write"}
  BY SMT
<1>1. CASE Find(t) \/ Send(t) \/ LockRead(t) \/ ReceiveFails(t)
  <2>1. Busy(t) /\ UNCHANGED <<cur, handle, shared>>
    BY <1>0, <1>1 DEF Busy, Find, Send, LockRead, ReceiveFails, history
  <2>2. \E next \in {"rpc", "send", "remove_read", "lock_read", "receive"} :
            pc' = [pc EXCEPT ![t] = next]
    BY <1>1 DEF Find, Send, LockRead, ReceiveFails
  <2> QED BY <1>0, <2>1, <2>2, Continues
<1>2. CASE Receive(t) \/ UnaryFails(t)
  BY <1>0, <1>2 DEF Ends, Busy, Receive, UnaryFails
<1>3. CASE Dangle(t)
  BY <1>3 DEF Dangle, Goes, Busy, threadVars, history
<1>4. ASSUME NEW k \in Kinds, RemoveFind(t, k) \/ Erase(t, k) \/ Create(t, k)
      PROVE  Ends(t) \/ Goes
  <2>1. /\ Removing(k) # "idle" /\ Erasing(k) # "idle" /\ Creating(k) # "idle"
    BY SMT DEF Removing, Erasing, Creating
  <2>2. Busy(t) /\ UNCHANGED shared
    BY <1>4, <2>1 DEF Busy, RemoveFind, Erase, Create, history
  <2>3. Removed(t, k) => Ends(t) \/ Goes
    <3>1. CASE k # "read" /\ cur[t].kind = "release"
      BY <2>2, <3>1 DEF Removed, Ends
    <3>2. CASE k = "read" \/ cur[t].kind # "release"
      <4>1. Removed(t, k) => UNCHANGED <<cur, handle>>
                /\ \E next \in {"remove_write", "rpc"} : pc' = [pc EXCEPT ![t] = next]
        BY <3>2 DEF Removed
      <4> QED BY <1>0, <2>2, <4>1, Continues
    <3> QED BY <3>1, <3>2
  <2>4. CASE Erase(t, k)
    BY <2>3, <2>4 DEF Erase
  <2>5. CASE RemoveFind(t, k)
    <3>1. CASE map[k][cur[t].path] # 0
      <4>1. pc' = [pc EXCEPT ![t] = Erasing(k)] /\ UNCHANGED <<cur, handle>>
        BY <2>5, <3>1 DEF RemoveFind
      <4> QED BY <2>1, <2>2, <4>1, Continues
    <3>2. CASE ~(map[k][cur[t].path] # 0)
      BY <2>3, <2>5, <3>2 DEF RemoveFind
    <3> QED BY <3>1, <3>2
  <2>6. CASE Create(t, k)
    <3> DEFINE both == cur[t].kind = "open" /\ handle[cur[t].handle].mode = "rw" /\ k = "read"
    <3>1. CASE both
      <4>1. pc' = [pc EXCEPT ![t] = "create_write"] /\ UNCHANGED <<cur, handle>>
        BY <2>6, <3>1 DEF Create
      <4> QED BY <1>0, <2>2, <4>1, Continues
    <3>2. CASE ~both
      BY <2>2, <2>6, <3>2 DEF Create, Ends
    <3> QED BY <3>1, <3>2
  <2> QED BY <1>4, <2>4, <2>5, <2>6
<1>5. CASE UnaryReturns(t)
  <2>1. Busy(t) /\ UNCHANGED shared
    BY <1>0, <1>5 DEF Busy, UnaryReturns
  <2>2. CASE rpc[t] = "eperm"
    BY <1>5, <2>1, <2>2 DEF UnaryReturns, Ends
  <2>3. CASE rpc[t] # "eperm"
    <3>1. \E next : next # "idle" /\ pc' = [pc EXCEPT ![t] = next] /\ UNCHANGED <<cur, handle>>
      BY <1>5, <2>3, SMT DEF UnaryReturns, Creating
    <3> QED BY <2>1, <3>1, Continues
  <2> QED BY <2>2, <2>3
<1> QED BY <1>1, <1>2, <1>3, <1>4, <1>5 DEF ThreadStep

LEMMA HandleNext == IInv /\ HandleInv /\ [Next]_vars => HandleInv'
  <1>HandleOpen.
      ASSUME IInv, HandleInv, NEW t \in Threads, NEW h \in Handles, NEW p \in Paths, NEW m \in Modes,
             Open(t, h, p, m)
      PROVE  HandleInv'
    <2> USE <1>HandleOpen
    <2> DEFINE new == [kind |-> "open", handle |-> h, path |-> p, id |-> nops + 1]
    <2>1. /\ handle[h].state = "free" /\ h \in Handles /\ ~Busy(t)
          /\ cur' = [cur EXCEPT ![t] = new] /\ pc' = [pc EXCEPT ![t] = "rpc"]
          /\ handle' = [handle EXCEPT ![h] = [state |-> "opening", path |-> p, mode |-> m]]
      BY SMT DEF Open, Begin, NoHandle, Busy
    <2>2. /\ DOMAIN pc = Threads /\ DOMAIN cur = Threads /\ DOMAIN handle = Handles
          /\ "rpc" # "idle" /\ "open" # "release" /\ "open" \in OpKinds /\ StateOf("open") = "opening"
      BY SMT DEF IInv, Types, OpKinds, StateOf
    <2>3. /\ cur'[t] = new /\ Busy(t)'
          /\ handle'[h].state = "opening" /\ handle'[h].path = p
          /\ \A u \in Threads : u # t => Busy(u)' = Busy(u) /\ cur'[u] = cur[u]
          /\ \A g \in Handles : g # h => handle'[g] = handle[g]
      BY <2>1, <2>2 DEF Busy
    <2>4. \A u \in Threads : Busy(u) => cur[u].handle # h
      <3>1. \A k : StateOf(k) # "free"
        BY SMT DEF StateOf
      <3> QED BY <2>1, <3>1 DEF HandleInv, Handled
    <2>5. ASSUME NEW u \in Threads PROVE Handled(u)'
      <3>1. CASE u = t
        BY <2>2, <2>3, <3>1, SMT DEF Handled
      <3>2. CASE u # t
        <4>1. Handled(u) /\ (Busy(u) => handle'[cur[u].handle] = handle[cur[u].handle])
          BY <2>3, <2>4 DEF HandleInv, Handled
        <4> QED BY <2>3, <3>2, <4>1, SMT DEF Handled
      <3> QED BY <3>1, <3>2
    <2>6. ASSUME NEW u \in Threads PROVE Sole(u)'
      <3>1. CASE u = t
        BY <2>2, <2>3, <3>1, SMT DEF Sole
      <3>2. CASE u # t
        <4>1. SUFFICES ASSUME Busy(u), cur[u].kind = "release", cur[u].path \notin shared'
                       PROVE  Users(cur[u].path)' \subseteq {cur[u].handle}
          BY <2>3, <3>2 DEF Sole
        <4>2. /\ cur[u].handle \in Handles /\ handle[cur[u].handle].path = cur[u].path
              /\ handle[cur[u].handle].state = "closing" /\ Sole(u)
          BY <4>1, SMT DEF HandleInv, Handled, StateOf
        <4>3. "closing" # "free"
          BY SMT
        <4>4. cur[u].path # p /\ cur[u].path \notin shared
          <5>1. cur[u].path = p => \E g \in Users(p) : handle[g].state = "closing"
            BY <4>2, <4>3 DEF Users
          <5> QED BY <4>1, <5>1 DEF Open
        <4>5. ASSUME NEW g \in Users(cur[u].path)' PROVE g \in Users(cur[u].path)
          <5>1. g \in Handles /\ handle'[g].state # "free" /\ handle'[g].path = cur[u].path
            BY <2>3, <3>2, <4>5 DEF Users
          <5>2. g # h
            BY <2>3, <4>4, <5>1
          <5>3. handle'[g] = handle[g]
            BY <2>3, <5>1, <5>2
          <5> QED BY <5>1, <5>3 DEF Users
        <4> QED BY <4>1, <4>2, <4>4, <4>5 DEF Sole
      <3> QED BY <3>1, <3>2
    <2>7. ASSUME NEW u \in Threads, NEW v \in Threads PROVE Apart(u, v)'
      <3>1. CASE u # t /\ v # t
        BY <2>3, <3>1 DEF HandleInv, Apart, Kinds
      <3>2. CASE u = t \/ v = t
        BY <2>3, <2>4, <3>2, SMT DEF Apart
      <3> QED BY <3>1, <3>2
    <2> QED BY <2>5, <2>6, <2>7 DEF HandleInv
  <1>HandleRelease.
      ASSUME IInv, HandleInv, NEW t \in Threads, NEW h \in Handles, Release(t, h)
      PROVE  HandleInv'
    <2> USE <1>HandleRelease
    <2> DEFINE p == handle[h].path
               new == [kind |-> "release", handle |-> h, path |-> p, id |-> nops + 1]
    <2>1. /\ handle[h].state = "open" /\ ~Busy(t)
          /\ cur' = [cur EXCEPT ![t] = new] /\ pc' = [pc EXCEPT ![t] = "rpc"]
          /\ handle' = [handle EXCEPT ![h].state = "closing"]
          /\ \A u \in Threads : Busy(u) => cur[u].handle # h
      BY DEF Release, Begin, Busy
    <2>2. /\ DOMAIN pc = Threads /\ DOMAIN cur = Threads
          /\ handle \in [Handles -> [state : HandleStates, path : Paths, mode : Modes \cup {"r"}]]
          /\ "rpc" # "idle" /\ "release" \in OpKinds /\ StateOf("release") = "closing"
          /\ "open" # "free" /\ "closing" # "free"
      BY SMT DEF IInv, Types, OpKinds, StateOf
    <2>3. /\ cur'[t] = new /\ Busy(t)' /\ p \in Paths
          /\ handle'[h].state = "closing" /\ handle'[h].path = p
          /\ \A u \in Threads : u # t => Busy(u)' = Busy(u) /\ cur'[u] = cur[u]
          /\ \A g \in Handles : g # h => handle'[g] = handle[g]
      BY <2>1, <2>2, SMT DEF Busy
    <2>4. \A q : Users(q)' = Users(q)
      <3>1. \A g \in Handles : /\ handle'[g].path = handle[g].path
                               /\ handle'[g].state # "free" <=> handle[g].state # "free"
        BY <2>1, <2>2, <2>3
      <3> QED BY <3>1, SMT DEF Users
    <2> HIDE DEF p
    <2>5. ASSUME NEW u \in Threads PROVE Handled(u)'
      <3>1. CASE u = t
        BY <2>2, <2>3, <3>1, SMT DEF Handled
      <3>2. CASE u # t
        <4>1. Handled(u) /\ (Busy(u) => handle'[cur[u].handle] = handle[cur[u].handle])
          BY <2>1, <2>3 DEF HandleInv, Handled
        <4> QED BY <2>3, <3>2, <4>1, SMT DEF Handled
      <3> QED BY <3>1, <3>2
    <2>6. ASSUME NEW u \in Threads PROVE Sole(u)'
      <3>1. CASE u = t
        <4>1. p \notin shared' => Users(p) = {h}
          BY DEF Release, p
        <4> QED BY <2>3, <2>4, <3>1, <4>1, SMT DEF Sole
      <3>2. CASE u # t
        <4>1. shared \subseteq shared' /\ Sole(u)
          BY DEF Release, HandleInv
        <4> QED BY <2>3, <2>4, <3>2, <4>1 DEF Sole
      <3> QED BY <3>1, <3>2
    <2>7. ASSUME NEW u \in Threads, NEW v \in Threads PROVE Apart(u, v)'
      <3>1. CASE u # t /\ v # t
        BY <2>3, <3>1 DEF HandleInv, Apart, Kinds
      <3>2. CASE u = t \/ v = t
        BY <2>1, <2>3, <3>2, SMT DEF Apart
      <3> QED BY <3>1, <3>2
    <2> QED BY <2>5, <2>6, <2>7 DEF HandleInv
  <1>HandleReadWrite.
      ASSUME IInv, HandleInv, NEW t \in Threads, NEW k \in Kinds, NEW h \in Handles, ReadWrite(t, k, h)
      PROVE  HandleInv'
    <2> USE <1>HandleReadWrite
    <2> DEFINE p == handle[h].path
               new == [kind |-> k, handle |-> h, path |-> p, id |-> nops + 1]
    <2>1. /\ handle[h].state = "open" /\ ~Busy(t) /\ handle' = handle /\ shared' = shared
          /\ cur' = [cur EXCEPT ![t] = new] /\ pc' = [pc EXCEPT ![t] = "find"]
      BY DEF ReadWrite, Begin, Busy
    <2>2. /\ DOMAIN pc = Threads /\ DOMAIN cur = Threads /\ p \in Paths
          /\ "find" # "idle" /\ k \in OpKinds /\ StateOf(k) = "open" /\ k # "release"
      BY SMT DEF IInv, Types, OpKinds, Kinds, StateOf
    <2>3. /\ cur'[t] = new /\ Busy(t)'
          /\ \A u \in Threads : u # t => Busy(u)' = Busy(u) /\ cur'[u] = cur[u]
      BY <2>1, <2>2 DEF Busy
    <2> HIDE DEF p
    <2>5. ASSUME NEW u \in Threads PROVE Handled(u)'
      <3>1. CASE u = t
        BY <2>1, <2>2, <2>3, <3>1, SMT DEF Handled, p
      <3>2. CASE u # t
        BY <2>1, <2>3, <3>2, SMT DEF HandleInv, Handled
      <3> QED BY <3>1, <3>2
    <2>6. ASSUME NEW u \in Threads PROVE Sole(u)'
      <3>1. CASE u = t
        BY <2>2, <2>3, <3>1, SMT DEF Sole
      <3>2. CASE u # t
        BY <2>1, <2>3, <3>2, SMT DEF HandleInv, Sole, Users
      <3> QED BY <3>1, <3>2
    <2>7. ASSUME NEW u \in Threads, NEW v \in Threads PROVE Apart(u, v)'
      <3>1. CASE u # t /\ v # t
        BY <2>3, <3>1 DEF HandleInv, Apart, Kinds
      <3>2. ASSUME NEW w \in Threads, Busy(w), cur[w].handle = h PROVE cur[w].kind \in Kinds
        <4>1. Handled(w)
          BY DEF HandleInv
        <4> QED BY <2>1, <3>2, <4>1, SMT DEF Handled, OpKinds, StateOf
      <3>3. CASE u = t \/ v = t
        BY <2>3, <3>2, <3>3, SMT DEF Apart
      <3> QED BY <3>1, <3>3
    <2> QED BY <2>5, <2>6, <2>7 DEF HandleInv
  <1>HandleEnds.
      ASSUME IInv, HandleInv, NEW t \in Threads, Ends(t)
      PROVE  HandleInv'
    <2> USE <1>HandleEnds
    <2>0. Types /\ Handled(t)
      BY DEF IInv, HandleInv
    <2>1. /\ ~Busy(t)' /\ shared' = shared
          /\ \A u \in Threads : u # t => Busy(u)' = Busy(u) /\ cur'[u] = cur[u]
          /\ \A g \in Handles : g # cur[t].handle \/ cur[t].kind \in Kinds => handle'[g] = handle[g]
          /\ \A p : Users(p)' \subseteq Users(p)
      BY <2>0, EndsEffect DEF Ends
    <2>2. ASSUME NEW u \in Threads PROVE Handled(u)' /\ Sole(u)'
      <3>1. CASE u = t
        BY <2>1, <3>1 DEF Handled, Sole
      <3>2. CASE u # t
        <4>1. Handled(u) /\ Sole(u) /\ Apart(t, u)
          BY DEF HandleInv
        <4>2. Busy(u) => handle'[cur[u].handle] = handle[cur[u].handle]
          BY <2>1, <3>2, <4>1 DEF Handled, Apart, Ends
        <4> QED BY <2>1, <3>2, <4>1, <4>2, SMT DEF Handled, Sole
      <3> QED BY <3>1, <3>2
    <2>3. ASSUME NEW u \in Threads, NEW v \in Threads PROVE Apart(u, v)'
      BY <2>1 DEF HandleInv, Apart, Kinds
    <2> QED BY <2>2, <2>3 DEF HandleInv
  <1>HandleGoes.
      ASSUME HandleInv, Goes
      PROVE  HandleInv'
    <2> USE <1>HandleGoes
    <2>1. ASSUME NEW u \in Threads PROVE Handled(u)' /\ Sole(u)'
      BY SMT DEF HandleInv, Handled, Sole, Goes, Users
    <2>2. ASSUME NEW u \in Threads, NEW v \in Threads PROVE Apart(u, v)'
      BY DEF HandleInv, Apart, Kinds, Goes
    <2> QED BY <2>1, <2>2 DEF HandleInv
  <1> SUFFICES ASSUME IInv, HandleInv, [Next]_vars PROVE HandleInv'
    OBVIOUS
  <1>0. Types
    BY DEF IInv
  <1>1. CASE UNCHANGED vars
    BY <1>1, <1>HandleGoes DEF Goes, Busy, vars, threadVars, history
  <1>2. ASSUME NEW t \in Threads, ThreadStep(t) \/ UnaryFails(t) PROVE HandleInv'
    BY <1>0, <1>2, ThreadGoes, <1>HandleEnds, <1>HandleGoes
  <1>3. ASSUME NEW t \in Threads, ServeUnary(t) PROVE HandleInv'
    BY <1>3, <1>HandleGoes DEF ServeUnary, Goes, Busy, history
  <1>4. ASSUME NEW s \in Streams, Break(s) \/ Serve(s) PROVE HandleInv'
    BY <1>4, <1>HandleGoes DEF Break, Serve, Goes, Busy, threadVars, history
  <1>5. ASSUME NEW w \in late, ServeLate(w) PROVE HandleInv'
    BY <1>5, <1>HandleGoes DEF ServeLate, Goes, Busy, threadVars, history
  <1> QED BY <1>1, <1>2, <1>3, <1>4, <1>5, <1>HandleOpen, <1>HandleRelease, <1>HandleReadWrite DEF Next

LEMMA HandleInit == Init => HandleInv
<1> SUFFICES ASSUME Init PROVE HandleInv
  OBVIOUS
<1>1. \A t \in Threads : ~Busy(t)
  BY DEF Init, Busy
<1> QED BY <1>1 DEF HandleInv, Handled, Sole, Apart

-----------------------------------------------------------------------------
(* The streams of a path: which of them a map holds and which a thread can    *)
(* have a reference to.                                                       *)

\* What an operation that returns leaves to the other threads.
LEMMA DoneOthers ==
  ASSUME Types, NEW t \in Threads, NEW state, Done(t, state), pc' = [pc EXCEPT ![t] = "idle"]
  PROVE  /\ pc'[t] = "idle"
         /\ \A u \in Threads : u # t => pc'[u] = pc[u] /\ cur'[u] = cur[u] /\ str'[u] = str[u]
BY DEF Types, Done

LEMMA PathNext == IInv /\ HandleInv /\ PathInv /\ [Next]_vars => PathInv'
  \* Two operations on a path one of which is the release of another handle.
  <1>Rivals.
      ASSUME HandleInv, NEW t \in Threads, NEW u \in Threads, t # u, Busy(t), Busy(u),
             cur[u].kind = "release", cur[t].path = cur[u].path
      PROVE  cur[u].path \in shared
    <2> USE <1>Rivals
    <2>1. SUFFICES ASSUME cur[u].path \notin shared PROVE FALSE
      OBVIOUS
    <2>2. Handled(t) /\ Sole(u) /\ Apart(t, u)
      BY DEF HandleInv
    <2>3. StateOf(cur[t].kind) # "free" /\ "release" \notin Kinds
      BY SMT DEF StateOf, Kinds
    <2>4. cur[t].handle \in Users(cur[t].path)
      BY <2>2, <2>3 DEF Handled, Users
    <2>5. cur[t].handle = cur[u].handle
      BY <2>1, <2>2, <2>4 DEF Sole
    <2> QED BY <2>2, <2>3, <2>5 DEF Apart
  <1>FailedGrows.
      ASSUME StreamsInv, Grows
      PROVE  Failed \subseteq Failed' /\ 1 .. nstreams \subseteq 1 .. nstreams'
    <2> USE <1>FailedGrows
    <2>1. 1 .. nstreams \subseteq 1 .. nstreams'
      BY SMT DEF StreamsInv, Grows
    <2>2. ASSUME NEW s \in broken PROVE of[s] \in Failed'
      <3>1. s \in 1 .. nstreams /\ s \in broken'
        BY DEF StreamsInv, Grows
      <3>2. of[s] = of'[s]
        BY <3>1 DEF Grows
      <3> QED BY <3>1, <3>2 DEF Failed
    <2> QED BY <2>1, <2>2 DEF Failed
  \* A thread that stays where it is keeps its route, unless its stream is destroyed.
  <1>RouteKept.
      ASSUME StreamsInv, Grows, NEW t \in Threads, Route(t),
             pc'[t] = pc[t], cur'[t] = cur[t], str'[t] = str[t],
             pc[t] \in Using /\ str[t] \in erased' /\ str[t] \notin erased
                 => cur[t].path \in shared \cup Failed
      PROVE  Route(t)'
    <2> USE <1>RouteKept
    <2>1. Failed \subseteq Failed' /\ 1 .. nstreams \subseteq 1 .. nstreams' /\ shared \subseteq shared'
      BY <1>FailedGrows DEF Grows
    <2>2. pc[t] \in Using => str[t] \in 1 .. nstreams' /\ of'[str[t]] = cur[t].path
      BY <2>1 DEF Route, Grows
    <2>3. pc[t] \in Using /\ str[t] \in erased' => cur[t].path \in shared' \cup Failed'
      BY <2>1 DEF Route
    <2>4. pc[t] \in RemovePcs /\ cur[t].kind # "release" => cur[t].path \in Failed'
      BY <2>1 DEF Route
    <2> HIDE DEF Failed
    <2> QED BY <2>2, <2>3, <2>4 DEF Route, Using, RemovePcs, Kinds
  \* A step of a thread that changes no map.
  <1>PathMove.
      ASSUME PathInv, NEW t \in Threads, Route(t)',
             \A u \in Threads : u # t => pc'[u] = pc[u] /\ cur'[u] = cur[u] /\ str'[u] = str[u],
             UNCHANGED <<map, nstreams, of, erased, broken>>, shared \subseteq shared'
      PROVE  PathInv'
    <2> USE <1>PathMove
    <2>1. StreamsInv'
      BY DEF PathInv, StreamsInv, Mapped, Kinds, Streams
    <2>2. Grows
      BY SMT DEF Grows, PathInv, StreamsInv
    <2>3. \A u \in Threads : u # t => Route(u)'
      BY <2>2, <1>RouteKept DEF PathInv
    <2> QED BY <2>1, <2>3 DEF PathInv
  \* A thread at a label of no stream has nothing to show.
  <1>OffRoute.
      ASSUME NEW t \in Threads,
             pc'[t] \in {"idle", "rpc", "create_read", "create_write"} \/ pc'[t] \in RemovePcs,
             pc'[t] \in RemovePcs => cur'[t].kind = "release" \/ cur'[t].path \in Failed'
      PROVE  Route(t)'
    <2> USE <1>OffRoute
    <2>1. pc'[t] \notin Using \cup {"find"} /\ pc'[t] \notin Using
      BY SMT DEF Using, RemovePcs
    <2> HIDE DEF Failed
    <2> QED BY <2>1 DEF Route, Using, RemovePcs
  <1>PathBegin.
      ASSUME IInv, PathInv, NEW t \in Threads, NEW kind, NEW h, NEW p, NEW next,
             Begin(t, kind, h, p, next), next = "rpc" \/ (next = "find" /\ kind \in Kinds),
             UNCHANGED <<str, map, nstreams, of, erased, broken>>, shared \subseteq shared'
      PROVE  PathInv'
    <2> USE <1>PathBegin
    <2>0. DOMAIN pc = Threads /\ DOMAIN cur = Threads
      BY DEF IInv, Types
    <2>2. /\ pc' = [pc EXCEPT ![t] = next]
          /\ cur' = [cur EXCEPT ![t] = [kind |-> kind, handle |-> h, path |-> p, id |-> nops + 1]]
      BY DEF Begin
    <2>3. Route(t)'
      <3>1. CASE next = "rpc"
        <4>1. pc'[t] = "rpc" /\ "rpc" \notin RemovePcs
          BY <2>0, <2>2, <3>1, SMT DEF RemovePcs
        <4> QED BY <4>1, <1>OffRoute
      <3>2. CASE next = "find" /\ kind \in Kinds
        <4>1. pc'[t] = "find" /\ "find" \notin RemovePcs /\ "find" \notin Using
          BY <2>0, <2>2, <3>2, SMT DEF RemovePcs, Using
        <4>2. cur'[t].kind \in Kinds
          BY <2>0, <2>2, <3>2
        <4> HIDE DEF Failed
        <4> QED BY <4>1, <4>2 DEF Route, Kinds, RemovePcs, Using
      <3> QED BY <3>1, <3>2
    <2>4. \A u \in Threads : u # t => pc'[u] = pc[u] /\ cur'[u] = cur[u] /\ str'[u] = str[u]
      BY <2>0, <2>2
    <2> QED BY <2>3, <2>4, <1>PathMove
  <1>PathFind.
      ASSUME IInv, PathInv, NEW t \in Threads, Find(t)
      PROVE  PathInv'
    <2> USE <1>PathFind
    <2> DEFINE s == map[cur[t].kind][cur[t].path]
    <2>0. Types /\ DOMAIN pc = Threads /\ DOMAIN str = Threads /\ pc[t] = "find"
      BY DEF IInv, Types, Find
    <2>1. cur[t].kind \in Kinds /\ cur[t].path \in Paths
      BY <2>0 DEF IInv, Holds
    <2>2. /\ pc' = [pc EXCEPT ![t] = IF s = 0 THEN "rpc" ELSE "send"]
          /\ str' = [str EXCEPT ![t] = s] /\ cur' = cur
          /\ UNCHANGED <<map, nstreams, of, erased, broken, shared>>
      BY DEF Find, mapVars, streamVars, history
    <2>3. \A u \in Threads : u # t => pc'[u] = pc[u] /\ cur'[u] = cur[u] /\ str'[u] = str[u]
      BY <2>0, <2>2
    <2>4. Route(t)'
      <3>1. CASE s = 0
        <4>1. pc'[t] = "rpc" /\ "rpc" \notin RemovePcs
          BY <2>0, <2>2, <3>1, SMT DEF RemovePcs
        <4> QED BY <4>1, <1>OffRoute
      <3>2. CASE s # 0
        <4>1. pc'[t] = "send" /\ str'[t] = s /\ "send" \notin RemovePcs
          BY <2>0, <2>2, <3>2, SMT DEF RemovePcs
        <4>2. s \in 1 .. nstreams /\ of[s] = cur[t].path /\ s \notin erased
          BY <2>1, <3>2 DEF PathInv, StreamsInv, Mapped
        <4>3. /\ str'[t] \in 1 .. nstreams' /\ of'[str'[t]] = cur'[t].path /\ str'[t] \notin erased'
              /\ cur'[t].kind \in Kinds
          BY <2>1, <2>2, <4>1, <4>2, SMT
        <4> HIDE DEF Failed, s
        <4> QED BY <4>1, <4>3 DEF Route, Kinds, RemovePcs, Using
      <3> QED BY <3>1, <3>2
    <2> QED BY <2>2, <2>3, <2>4, <1>PathMove
  \* A use of a stream that fails: the stream is broken, and of the thread's path.
  <1>BrokenPath.
      ASSUME PathInv, NEW t \in Threads, pc[t] \in Using, str[t] \in broken
      PROVE  cur[t].path \in Failed
    <2> USE <1>BrokenPath
    <2>1. of[str[t]] = cur[t].path
      BY DEF PathInv, Route
    <2> QED BY <2>1 DEF Failed
  <1>PathUse.
      ASSUME IInv, PathInv, NEW t \in Threads,
             Send(t) \/ LockRead(t) \/ Receive(t) \/ ReceiveFails(t)
      PROVE  PathInv'
    <2> USE <1>PathUse
    <2>0. Types /\ DOMAIN pc = Threads /\ DOMAIN str = Threads /\ Route(t)
      BY DEF IInv, Types, PathInv
    <2>1. /\ pc[t] \in Using /\ "remove_read" \in RemovePcs
          /\ {"lock_read", "receive"} \subseteq Using
      BY SMT DEF Send, LockRead, Receive, ReceiveFails, Using, RemovePcs
    <2>2. UNCHANGED <<map, nstreams, of, erased, broken, shared>>
      BY DEF Send, LockRead, Receive, ReceiveFails, mapVars, streamVars, history
    <2>3. CASE Receive(t)
      <3>1. /\ pc'[t] = "idle" /\ "idle" \notin RemovePcs
            /\ \A u \in Threads : u # t => pc'[u] = pc[u] /\ cur'[u] = cur[u] /\ str'[u] = str[u]
        <4>1. "idle" \notin RemovePcs
          BY SMT DEF RemovePcs
        <4> QED BY <2>0, <2>3, <4>1, DoneOthers DEF Receive
      <3> QED BY <2>2, <3>1, <1>OffRoute, <1>PathMove
    <2>4. CASE ReceiveFails(t) \/ (Send(t) /\ str[t] \in broken)
      <3>1. /\ pc' = [pc EXCEPT ![t] = "remove_read"] /\ str' = [str EXCEPT ![t] = 0] /\ cur' = cur
            /\ str[t] \in broken
        BY <2>4 DEF ReceiveFails, Send
      <3>2. /\ pc'[t] = "remove_read"
            /\ \A u \in Threads : u # t => pc'[u] = pc[u] /\ cur'[u] = cur[u] /\ str'[u] = str[u]
        BY <2>0, <3>1
      <3>3. cur'[t].path \in Failed'
        BY <2>1, <2>2, <3>1, <1>BrokenPath DEF Failed
      <3> QED BY <2>1, <2>2, <3>2, <3>3, <1>OffRoute, <1>PathMove
    <2>5. CASE LockRead(t) \/ (Send(t) /\ str[t] \notin broken)
      <3>1. /\ pc' = [pc EXCEPT ![t] = "lock_read"] \/ pc' = [pc EXCEPT ![t] = "receive"]
            /\ UNCHANGED <<str, cur>>
        BY <2>5 DEF LockRead, Send
      <3>2. /\ pc'[t] \in Using
            /\ \A u \in Threads : u # t => pc'[u] = pc[u] /\ cur'[u] = cur[u] /\ str'[u] = str[u]
        BY <2>0, <2>1, <3>1
      <3>3. pc'[t] \notin RemovePcs
        BY <3>2, SMT DEF Using, RemovePcs
      <3>4. Route(t)'
        <4>1. Failed' = Failed
          BY <2>2 DEF Failed
        <4> HIDE DEF Failed
        <4> QED BY <2>0, <2>1, <2>2, <3>1, <3>2, <3>3, <4>1 DEF Route, Using, RemovePcs, Kinds
      <3> QED BY <2>2, <3>2, <3>4, <1>PathMove
    <2> QED BY <2>3, <2>4, <2>5
  \* remove_streams goes on, and the thread keeps its reason to remove streams.
  <1>RemovedRoute.
      ASSUME Types, NEW t \in Threads, NEW k \in Kinds, Removed(t, k),
             cur[t].kind = "release" \/ cur[t].path \in Failed'
      PROVE  /\ Route(t)'
             /\ \A u \in Threads : u # t => pc'[u] = pc[u] /\ cur'[u] = cur[u] /\ str'[u] = str[u]
    <2> USE <1>RemovedRoute
    <2>0. /\ DOMAIN pc = Threads /\ "idle" \notin RemovePcs /\ "rpc" \notin RemovePcs
          /\ "remove_write" \in RemovePcs
      BY SMT DEF Types, RemovePcs
    <2>1. CASE k # "read" /\ cur[t].kind = "release"
      <3>1. pc' = [pc EXCEPT ![t] = "idle"] /\ Done(t, "free")
        BY <2>1 DEF Removed
      <3> QED BY <2>0, <3>1, DoneOthers, <1>OffRoute
    <2>2. CASE k = "read" \/ cur[t].kind # "release"
      <3>1. /\ pc' = [pc EXCEPT ![t] = "remove_write"] \/ pc' = [pc EXCEPT ![t] = "rpc"]
            /\ cur' = cur /\ str' = str
        BY <2>2 DEF Removed
      <3>2. /\ pc'[t] = "remove_write" \/ pc'[t] = "rpc"
            /\ \A u \in Threads : u # t => pc'[u] = pc[u] /\ cur'[u] = cur[u] /\ str'[u] = str[u]
        BY <2>0, <3>1
      <3>3. cur'[t].kind = "release" \/ cur'[t].path \in Failed'
        BY <3>1
      <3> HIDE DEF Failed
      <3> QED BY <2>0, <3>2, <3>3, <1>OffRoute
    <2> QED BY <2>1, <2>2
  <1>PathRemoveFind.
      ASSUME IInv, PathInv, NEW t \in Threads, NEW k \in Kinds, RemoveFind(t, k)
      PROVE  PathInv'
    <2> USE <1>PathRemoveFind
    <2>0. /\ Types /\ DOMAIN pc = Threads /\ Route(t)
          /\ Removing(k) \in RemovePcs /\ Erasing(k) \in RemovePcs
      BY SMT DEF IInv, Types, PathInv, RemovePcs, Removing, Erasing
    <2>1. UNCHANGED <<map, nstreams, of, erased, broken, shared>>
      BY DEF RemoveFind, streamVars, history
    <2>2. cur[t].kind = "release" \/ cur[t].path \in Failed'
      <3>1. Failed' = Failed
        BY <2>1 DEF Failed
      <3> QED BY <2>0, <3>1 DEF Route, RemoveFind
    <2>3. CASE map[k][cur[t].path] # 0
      <3>1. pc' = [pc EXCEPT ![t] = Erasing(k)] /\ cur' = cur /\ str' = str
        BY <2>3 DEF RemoveFind
      <3>2. /\ pc'[t] = Erasing(k)
            /\ \A u \in Threads : u # t => pc'[u] = pc[u] /\ cur'[u] = cur[u] /\ str'[u] = str[u]
        BY <2>0, <3>1
      <3>3. Route(t)'
        BY <2>0, <2>2, <3>1, <3>2, <1>OffRoute
      <3> QED BY <2>1, <3>2, <3>3, <1>PathMove
    <2>4. CASE ~(map[k][cur[t].path] # 0)
      <3>1. Removed(t, k)
        BY <2>4 DEF RemoveFind
      <3> QED BY <2>0, <2>1, <2>2, <3>1, <1>RemovedRoute, <1>PathMove
    <2> QED BY <2>3, <2>4
  <1>PathErase.
      ASSUME IInv, HandleInv, PathInv, NEW t \in Threads, NEW k \in Kinds, Erase(t, k)
      PROVE  PathInv'
    <2> USE <1>PathErase
    <2> DEFINE p == cur[t].path
               s == map[k][p]
    <2>0. /\ Types /\ StreamsInv /\ Route(t)
          /\ pc[t] \in RemovePcs /\ Busy(t) /\ pc[t] \notin Using
      BY SMT DEF IInv, PathInv, Erase, Busy, RemovePcs, Erasing, Using
    <2>1. p \in Paths
      BY <2>0 DEF HandleInv, Handled
    <2>2. /\ map' = [map EXCEPT ![k][p] = 0] /\ erased' = erased \cup {s} /\ Removed(t, k)
          /\ UNCHANGED <<nstreams, of, broken, shared>>
      BY DEF Erase, streamVars, history
    <2>3. /\ map'[k][p] = 0
          /\ \A j \in Kinds, q \in Paths : j # k \/ q # p => map'[j][q] = map[j][q]
      <3> HIDE DEF p, s
      <3>1. DOMAIN map = Kinds /\ \A j \in Kinds : DOMAIN map[j] = Paths
        BY <2>0 DEF Types
      <3>2. map'[k] = [map[k] EXCEPT ![p] = 0] /\ \A j \in Kinds : j # k => map'[j] = map[j]
        BY <2>2, <3>1
      <3> QED BY <2>1, <3>1, <3>2
    <2>4. s # 0 => s \in 1 .. nstreams /\ of[s] = p
      BY <2>0, <2>1 DEF StreamsInv, Mapped
    <2>5. /\ Grows /\ Failed' = Failed /\ "read" \in Kinds /\ "write" \in Kinds
          /\ \A j \in Kinds : j = "read" \/ j = "write"
      BY <2>0, <2>2, SMT DEF Grows, StreamsInv, Failed, Kinds
    <2> HIDE DEF p, s
    <2>6. StreamsInv'
      <3>1. erased' \subseteq 0 .. nstreams
        <4>1. 0 \in 0 .. nstreams /\ 1 .. nstreams \subseteq 0 .. nstreams
          BY ONLY <2>0, SMT DEF StreamsInv
        <4> QED BY <2>0, <2>2, <2>4, <4>1 DEF StreamsInv
      <3>2. ASSUME NEW q \in Paths PROVE map'["read"][q] = 0 \/ map'["read"][q] # map'["write"][q]
        BY <2>0, <2>3, <2>5 DEF StreamsInv
      <3>3. ASSUME NEW j \in Kinds, NEW q \in Paths, map'[j][q] # 0
            PROVE  /\ map'[j][q] \in 1 .. nstreams /\ of[map'[j][q]] = q
                   /\ map'[j][q] \notin erased'
        <4>1. map'[j][q] = map[j][q] /\ (j # k \/ q # p)
          BY <2>3, <3>3
        <4>2. map[j][q] \in 1 .. nstreams /\ of[map[j][q]] = q /\ map[j][q] \notin erased
          BY <2>0, <3>3, <4>1 DEF StreamsInv, Mapped
        <4>3. map[j][q] # s
          <5>1. SUFFICES ASSUME map[j][q] = s PROVE FALSE
            OBVIOUS
          <5>2. q = p /\ j # k
            BY <2>4, <3>3, <4>1, <4>2, <5>1
          <5>3. map["read"][p] # 0 /\ map["read"][p] = map["write"][p]
            BY <2>5, <3>3, <4>1, <5>1, <5>2 DEF s
          <5> QED BY <2>0, <2>1, <5>3 DEF StreamsInv
        <4> QED BY <2>2, <4>1, <4>2, <4>3, SMT
      <3>4. nstreams' = nstreams /\ of' = of /\ broken' = broken
        BY <2>2
      <3> QED BY <2>0, <3>1, <3>2, <3>3, <3>4 DEF StreamsInv, Mapped, Kinds, Streams
    <2>7. /\ Route(t)'
          /\ \A u \in Threads : u # t => pc'[u] = pc[u] /\ cur'[u] = cur[u] /\ str'[u] = str[u]
      <3>1. cur[t].kind = "release" \/ cur[t].path \in Failed'
        BY <2>0, <2>5 DEF Route
      <3> QED BY <2>0, <2>2, <3>1, <1>RemovedRoute
    <2>8. ASSUME NEW u \in Threads, u # t PROVE Route(u)'
      <3>1. ASSUME pc[u] \in Using, str[u] \in erased', str[u] \notin erased
            PROVE  cur[u].path \in shared \cup Failed
        <4>1. str[u] = s /\ str[u] \in 1 .. nstreams /\ of[s] = cur[u].path /\ Route(u)
          BY <2>2, <3>1 DEF PathInv, Route
        <4>2. s # 0
          <5>1. 0 \notin 1 .. nstreams
            BY SMT
          <5> QED BY <4>1, <5>1
        <4>3. cur[u].path = p /\ Busy(u)
          <5>1. "idle" \notin Using
            BY SMT DEF Using
          <5> QED BY <2>4, <3>1, <4>1, <4>2, <5>1 DEF Busy
        <4>4. CASE cur[t].kind = "release"
          BY <2>0, <2>8, <4>3, <4>4, <1>Rivals DEF p
        <4>5. CASE cur[t].kind # "release"
          BY <2>0, <4>3, <4>5 DEF Route, p
        <4> QED BY <4>4, <4>5
      <3> QED BY <2>0, <2>5, <2>7, <2>8, <3>1, <1>RouteKept DEF PathInv
    <2> QED BY <2>6, <2>7, <2>8 DEF PathInv
  \* Where create_streams leaves its thread.
  <1>CreateRoute.
      ASSUME Types, NEW t \in Threads, NEW k \in Kinds, Create(t, k)
      PROVE  /\ Route(t)'
             /\ \A u \in Threads : u # t => pc'[u] = pc[u] /\ cur'[u] = cur[u] /\ str'[u] = str[u]
    <2> USE <1>CreateRoute
    <2> DEFINE both == cur[t].kind = "open" /\ handle[cur[t].handle].mode = "rw" /\ k = "read"
    <2>0. DOMAIN pc = Threads /\ "idle" \notin RemovePcs /\ "create_write" \notin RemovePcs
      BY SMT DEF Types, RemovePcs
    <2>1. CASE both
      <3>1. pc' = [pc EXCEPT ![t] = "create_write"] /\ cur' = cur /\ str' = str
        BY <2>1 DEF Create
      <3> QED BY <2>0, <3>1, <1>OffRoute
    <2>2. CASE ~both
      <3>1. pc' = [pc EXCEPT ![t] = "idle"] /\ Done(t, IF rpc[t] = "ok" THEN "open" ELSE "free")
        BY <2>2 DEF Create
      <3> QED BY <2>0, <3>1, DoneOthers, <1>OffRoute
    <2> QED BY <2>1, <2>2
  <1>PathCreate.
      ASSUME IInv, HandleInv, PathInv, NEW t \in Threads, NEW k \in Kinds, Create(t, k)
      PROVE  PathInv'
    <2> USE <1>PathCreate
    <2> DEFINE p == cur[t].path
               n == nstreams + 1
    <2>0. Types /\ StreamsInv /\ Busy(t)
      BY SMT DEF IInv, PathInv, Create, Busy, Creating
    <2>1. p \in Paths
      BY <2>0 DEF HandleInv, Handled
    <2>2. UNCHANGED <<erased, broken, shared>>
      BY DEF Create, streamVars
    <2>3. /\ Route(t)'
          /\ \A u \in Threads : u # t => pc'[u] = pc[u] /\ cur'[u] = cur[u] /\ str'[u] = str[u]
      BY <2>0, <1>CreateRoute
    <2>4. CASE map[k][p] # 0
      <3>1. UNCHANGED <<map, nstreams, of>>
        BY <2>4 DEF Create
      <3> QED BY <2>2, <2>3, <3>1, <1>PathMove
    <2>5. CASE ~(map[k][p] # 0)
      <3>1. /\ nstreams < MaxStreams /\ nstreams' = n
            /\ map' = [map EXCEPT ![k][p] = n] /\ of' = [of EXCEPT ![n] = p]
        BY <2>5 DEF Create
      <3>2. /\ n \in Nat /\ n <= MaxStreams /\ n \in Streams /\ n # 0 /\ n \in 1 .. n
            /\ 1 .. nstreams \subseteq 1 .. n /\ 1 .. nstreams \subseteq Streams
            /\ 0 .. nstreams \subseteq 0 .. n /\ n \notin 0 .. nstreams /\ n \notin 1 .. nstreams
            /\ nstreams <= n
        BY <2>0, <3>1, SyncClientAssumption, SMT DEF StreamsInv, Streams
      <3> HIDE DEF p, n
      <3>3. of'[n] = p /\ DOMAIN of' = Streams /\ \A s \in 1 .. nstreams : of'[s] = of[s]
        BY <2>0, <3>1, <3>2 DEF StreamsInv
      <3>4. /\ map'[k][p] = n
            /\ \A j \in Kinds, q \in Paths : j # k \/ q # p => map'[j][q] = map[j][q]
        <4>1. DOMAIN map = Kinds /\ \A j \in Kinds : DOMAIN map[j] = Paths
          BY <2>0 DEF Types
        <4>2. map'[k] = [map[k] EXCEPT ![p] = n] /\ \A j \in Kinds : j # k => map'[j] = map[j]
          BY <3>1, <4>1
        <4> QED BY <2>1, <4>1, <4>2
      <3>5. Grows
        BY <2>2, <3>1, <3>2, <3>3 DEF Grows
      <3>6. StreamsInv'
        <4>1. ASSUME NEW j \in Kinds, NEW q \in Paths, map[j][q] # 0
              PROVE  map[j][q] \in 1 .. nstreams /\ of[map[j][q]] = q /\ map[j][q] \notin erased
          BY <2>0, <4>1 DEF StreamsInv, Mapped
        <4>2. ASSUME NEW j \in Kinds, NEW q \in Paths, map'[j][q] # 0
              PROVE  map'[j][q] \in 1 .. n /\ of'[map'[j][q]] = q /\ map'[j][q] \notin erased
          <5>1. CASE j = k /\ q = p
            BY <2>0, <3>2, <3>3, <3>4, <5>1 DEF StreamsInv
          <5>2. CASE j # k \/ q # p
            <6>1. map'[j][q] = map[j][q]
              BY <3>4, <5>2
            <6>2. map[j][q] \in 1 .. nstreams /\ of[map[j][q]] = q /\ map[j][q] \notin erased
              BY <4>1, <4>2, <6>1
            <6>3. map[j][q] \in 1 .. n /\ of'[map[j][q]] = of[map[j][q]]
              BY <3>2, <3>3, <6>2
            <6> QED BY <6>1, <6>2, <6>3
          <5> QED BY <5>1, <5>2
        <4>3. ASSUME NEW q \in Paths PROVE map'["read"][q] = 0 \/ map'["read"][q] # map'["write"][q]
          <5>1. "read" \in Kinds /\ "write" \in Kinds /\ "read" # "write" /\ k \in {"read", "write"}
            BY SMT DEF Kinds
          <5>2. CASE q # p
            BY <2>0, <3>4, <5>1, <5>2 DEF StreamsInv
          <5>3. CASE q = p
            <6>1. ASSUME NEW j \in Kinds, j # k PROVE map'[j][q] # n
              <7>1. map'[j][q] = map[j][q]
                BY <3>4, <6>1
              <7>2. map[j][q] = 0 \/ map[j][q] \in 1 .. nstreams
                BY <4>1
              <7> QED BY <3>2, <7>1, <7>2
            <6> QED BY <3>4, <5>1, <5>3, <6>1
          <5> QED BY <5>2, <5>3
        <4>4. broken' \subseteq 1 .. n /\ erased' \subseteq 0 .. n
          BY <2>0, <2>2, <3>2 DEF StreamsInv
        <4>5. nstreams' = n /\ erased' = erased
          BY <2>2, <3>1
        <4> QED BY <3>2, <3>3, <4>2, <4>3, <4>4, <4>5 DEF StreamsInv, Mapped, Kinds, Streams
      <3>7. ASSUME NEW u \in Threads, u # t PROVE Route(u)'
        BY <2>0, <2>2, <2>3, <3>5, <3>7, <1>RouteKept DEF PathInv
      <3> QED BY <2>3, <3>6, <3>7 DEF PathInv
    <2> QED BY <2>4, <2>5
  <1>PathUnary.
      ASSUME IInv, PathInv, NEW t \in Threads, UnaryReturns(t) \/ UnaryFails(t)
      PROVE  PathInv'
    <2> USE <1>PathUnary
    <2>0. Types /\ DOMAIN pc = Threads
      BY DEF IInv, Types
    <2>1. UNCHANGED <<map, nstreams, of, erased, broken, shared>>
      BY DEF UnaryReturns, UnaryFails, mapVars, streamVars
    <2>2. CASE UnaryFails(t) \/ (UnaryReturns(t) /\ rpc[t] = "eperm")
      <3>1. pc' = [pc EXCEPT ![t] = "idle"] /\ Done(t, "free") /\ "idle" \notin RemovePcs
        <4>1. "idle" \notin RemovePcs
          BY SMT DEF RemovePcs
        <4> QED BY <2>2, <4>1 DEF UnaryFails, UnaryReturns
      <3> QED BY <2>0, <2>1, <3>1, DoneOthers, <1>OffRoute, <1>PathMove
    <2>3. CASE UnaryReturns(t) /\ rpc[t] # "eperm"
      <3>1. \E next \in {"remove_read", "create_read", "create_write"} :
                /\ pc' = [pc EXCEPT ![t] = next] /\ UNCHANGED <<cur, str>>
                /\ next = "remove_read" => cur[t].kind = "release"
        BY <2>3, SMT DEF UnaryReturns, Creating
      <3>2. /\ pc'[t] \in {"remove_read", "create_read", "create_write"}
            /\ pc'[t] = "remove_read" => cur'[t].kind = "release"
            /\ \A u \in Threads : u # t => pc'[u] = pc[u] /\ cur'[u] = cur[u] /\ str'[u] = str[u]
        BY <2>0, <3>1
      <3>3. /\ "remove_read" \in RemovePcs /\ "create_read" \notin RemovePcs
            /\ "create_write" \notin RemovePcs
        BY SMT DEF RemovePcs
      <3>4. Route(t)'
        BY <3>2, <3>3, <1>OffRoute
      <3> QED BY <2>1, <3>2, <3>4, <1>PathMove
    <2> QED BY <2>2, <2>3
  <1>PathBreak.
      ASSUME PathInv, NEW s \in Streams, Break(s)
      PROVE  PathInv'
    <2> USE <1>PathBreak
    <2>1. /\ UNCHANGED <<pc, cur, str, map, nstreams, of, erased, shared>>
          /\ broken' = broken \cup {s} /\ s <= nstreams
      BY DEF Break, threadVars, mapVars, history
    <2>2. StreamsInv /\ s \in 1 .. nstreams /\ nstreams <= nstreams
      BY <2>1, SMT DEF PathInv, StreamsInv, Streams
    <2>3. Grows
      BY <2>1, <2>2 DEF Grows, StreamsInv
    <2>4. StreamsInv'
      BY <2>1, <2>2 DEF StreamsInv, Mapped, Kinds, Streams
    <2>5. \A t \in Threads : Route(t)'
      BY <2>1, <2>2, <2>3, <1>RouteKept DEF PathInv
    <2> QED BY <2>4, <2>5 DEF PathInv
  <1> SUFFICES ASSUME IInv, HandleInv, PathInv, [Next]_vars PROVE PathInv'
    OBVIOUS
  <1>0. ASSUME UNCHANGED <<pc, cur, str, map, nstreams, of, erased, broken, shared>> PROVE PathInv'
    <2>1. StreamsInv'
      BY <1>0 DEF PathInv, StreamsInv, Mapped, Kinds, Streams
    <2>2. Grows /\ StreamsInv
      BY <1>0, SMT DEF PathInv, Grows, StreamsInv
    <2>3. \A t \in Threads : Route(t)'
      BY <1>0, <2>2, <1>RouteKept DEF PathInv
    <2> QED BY <2>1, <2>3 DEF PathInv
  <1>1. CASE UNCHANGED vars
    BY <1>0, <1>1 DEF vars, threadVars, mapVars, streamVars, history
  <1>2. ASSUME NEW t \in Threads, ThreadStep(t) PROVE PathInv'
    <2>1. CASE Dangle(t)
      BY <1>0, <2>1 DEF Dangle, threadVars, mapVars, streamVars, history
    <2> QED BY <1>2, <2>1, <1>PathFind, <1>PathUse, <1>PathRemoveFind, <1>PathErase, <1>PathCreate, <1>PathUnary
            DEF ThreadStep
  <1>3. ASSUME NEW t \in Threads, ServeUnary(t) PROVE PathInv'
    BY <1>0, <1>3 DEF ServeUnary, mapVars, streamVars, history
  <1>4. ASSUME NEW s \in Streams, Serve(s) PROVE PathInv'
    BY <1>0, <1>4 DEF Serve, threadVars, mapVars, history
  <1>5. ASSUME NEW w \in late, ServeLate(w) PROVE PathInv'
    BY <1>0, <1>5 DEF ServeLate, threadVars, mapVars, streamVars, history
  <1>6. ASSUME NEW t \in Threads, NEW h \in Handles, NEW p \in Paths, NEW m \in Modes,
               Open(t, h, p, m)
        PROVE  PathInv'
    <2>1. Begin(t, "open", h, p, "rpc") /\ shared \subseteq shared'
      BY <1>6 DEF Open
    <2>2. UNCHANGED <<str, map, nstreams, of, erased, broken>>
      BY <1>6 DEF Open, mapVars, streamVars
    <2> QED BY <2>1, <2>2, <1>PathBegin
  <1>7. ASSUME NEW t \in Threads, NEW h \in Handles, Release(t, h) PROVE PathInv'
    <2>1. Begin(t, "release", h, handle[h].path, "rpc") /\ shared \subseteq shared'
      BY <1>7 DEF Release
    <2>2. UNCHANGED <<str, map, nstreams, of, erased, broken>>
      BY <1>7 DEF Release, mapVars, streamVars
    <2> QED BY <2>1, <2>2, <1>PathBegin
  <1>8. ASSUME NEW t \in Threads, NEW k \in Kinds, NEW h \in Handles, ReadWrite(t, k, h)
        PROVE  PathInv'
    BY <1>8, <1>PathBegin DEF ReadWrite, mapVars, streamVars
  <1> QED BY <1>1, <1>2, <1>3, <1>4, <1>5, <1>6, <1>7, <1>8, <1>PathUnary, <1>PathBreak DEF Next

LEMMA PathInit == Init => PathInv
<1> SUFFICES ASSUME Init PROVE PathInv
  OBVIOUS
<1>1. ASSUME NEW t \in Threads PROVE Route(t)
  <2>1. pc[t] = "idle" /\ "idle" \notin Using \cup {"find"} /\ "idle" \notin Using
        /\ "idle" \notin RemovePcs
    BY SMT DEF Init, Using, RemovePcs
  <2> QED BY <2>1 DEF Route
<1>2. \A k \in Kinds, p \in Paths : map[k][p] = 0
  BY DEF Init
<1>3. "read" \in Kinds /\ 0 \in Nat /\ 0 <= MaxStreams
  BY SyncClientAssumption, SMT DEF Kinds
<1> QED BY <1>1, <1>2, <1>3 DEF PathInv, StreamsInv, Mapped, Init

\* read() and write() use a stream destroyed under them only if a handle of the path was
\* released while another was in use, or a stream of the path failed.
THEOREM DanglesOnlyIfSharedAlways == Spec => []DanglesOnlyIfShared
<1>1. PathInv => DanglesOnlyIfShared
  BY DEF PathInv, Route, DanglesOnlyIfShared, Failed, Using
<1> QED BY <1>1, InitStep, NextStep, HandleInit, HandleNext, PathInit, PathNext, PTL DEF Spec

-----------------------------------------------------------------------------
(* Every stream has a handle that release() will remove it with.              *)

LEMMA KeptNext ==
  IInv /\ HandleInv /\ HandleInv' /\ PathInv /\ KeptInv /\ [Next]_vars => KeptInv'
  \* A keeper stays one unless it is the handle of the thread that takes the step.
  <1>KeeperStays.
      ASSUME HandleInv, NEW t \in Threads, Busy(t), NEW k \in Kinds, NEW p \in Paths, NEW h \in Handles,
             Keeper(k, p, h),
             \A u \in Threads : u # t => pc'[u] = pc[u] /\ cur'[u] = cur[u],
             \A g \in Handles : g # cur[t].handle \/ cur[t].kind \in Kinds => handle'[g] = handle[g]
      PROVE  Keeper(k, p, h)' \/ (cur[t].handle = h /\ cur[t].path = p /\ Minds(t, k))
    <2> USE <1>KeeperStays
    <2>0. "open" \notin Kinds /\ "release" \notin Kinds
      BY SMT DEF Kinds
    <2>1. CASE handle[h].state = "open"
      <3>1. cur[t].handle = h => cur[t].kind \in Kinds
        <4>1. Handled(t)
          BY DEF HandleInv
        <4> QED BY <2>1, <4>1, SMT DEF Handled, OpKinds, StateOf
      <3>2. handle'[h] = handle[h]
        BY <3>1
      <3> QED BY <2>1, <3>2 DEF Keeper
    <2>2. ASSUME NEW u \in Threads, cur[u].handle = h, Minds(u, k)
          PROVE  Keeper(k, p, h)' \/ (cur[t].handle = h /\ cur[t].path = p /\ Minds(t, k))
      <3>1. CASE u = t
        BY <2>2, <3>1 DEF HandleInv, Handled, Keeper
      <3>2. CASE u # t
        <4>1. cur[t].handle # h
          <5>1. Busy(u) /\ cur[u].kind \notin Kinds
            BY <2>0, <2>2 DEF Minds
          <5> QED BY <2>2, <3>2, <5>1 DEF HandleInv, Apart
        <4>2. handle'[h] = handle[h] /\ pc'[u] = pc[u] /\ cur'[u] = cur[u]
          BY <3>2, <4>1
        <4>3. Minds(u, k)' /\ cur'[u].handle = h
          BY <2>2, <4>2 DEF Minds, Busy, Removal
        <4> QED BY <4>2, <4>3 DEF Keeper
      <3> QED BY <3>1, <3>2
    <2> QED BY <2>1, <2>2 DEF Keeper
  \* A step of a thread: what it has to show for the streams of its own path.
  <1>KeptMove.
      ASSUME HandleInv, KeptInv, NEW t \in Threads, Busy(t), NEW k \in Kinds, NEW p \in Paths,
             \A u \in Threads : u # t => pc'[u] = pc[u] /\ cur'[u] = cur[u],
             \A g \in Handles : g # cur[t].handle \/ cur[t].kind \in Kinds => handle'[g] = handle[g],
             left \subseteq left', map'[k][p] # 0 => map[k][p] # 0,
             p = cur[t].path /\ Minds(t, k) /\ map'[k][p] # 0 =>
                 p \in left' \/ \E h \in Handles : Keeper(k, p, h)'
      PROVE  Kept(k, p)'
    <2> USE <1>KeptMove
    <2> SUFFICES ASSUME map'[k][p] # 0 PROVE p \in left' \/ \E h \in Handles : Keeper(k, p, h)'
      BY DEF Kept
    <2>1. CASE p \in left
      BY <2>1
    <2>2. ASSUME NEW h \in Handles, Keeper(k, p, h)
          PROVE  p \in left' \/ \E g \in Handles : Keeper(k, p, g)'
      BY <2>2, <1>KeeperStays
    <2> QED BY <2>1, <2>2 DEF KeptInv, Kept
  \* A thread that is still to remove streams keeps them with its handle.
  <1>MindsKeeper.
      ASSUME HandleInv', NEW t \in Threads, NEW k, Minds(t, k)'
      PROVE  \E h \in Handles : Keeper(k, cur[t].path, h)'
    <2> USE <1>MindsKeeper
    <2>1. /\ cur'[t].handle \in Handles /\ Busy(t)'
          /\ handle'[cur'[t].handle].path = cur'[t].path
      BY DEF HandleInv, Handled, Minds
    <2> QED BY <2>1 DEF Keeper
  <1>MakesKept.
      ASSUME NEW t \in Threads, Makes(t), pc'[t] = pc[t], cur'[t] = cur[t], rpc'[t] = rpc[t],
             left \subseteq left'
      PROVE  Makes(t)'
    BY <1>MakesKept DEF Makes
  \* A step of a thread, for all threads and paths.
  <1>KeptStep.
      ASSUME HandleInv, KeptInv, NEW t \in Threads, Busy(t),
             \A u \in Threads : u # t => pc'[u] = pc[u] /\ cur'[u] = cur[u] /\ rpc'[u] = rpc[u],
             \A g \in Handles : g # cur[t].handle \/ cur[t].kind \in Kinds => handle'[g] = handle[g],
             DOMAIN rpc' = Threads, left \subseteq left', Makes(t)',
             \A k \in Kinds, p \in Paths : map'[k][p] # 0 => map[k][p] # 0,
             \A k \in Kinds, p \in Paths :
                 p = cur[t].path /\ Minds(t, k) /\ map'[k][p] # 0 =>
                     p \in left' \/ \E h \in Handles : Keeper(k, p, h)'
      PROVE  KeptInv'
    <2> USE <1>KeptStep
    <2>1. \A k \in Kinds, p \in Paths : Kept(k, p)'
      BY <1>KeptMove
    <2>2. \A u \in Threads : Makes(u)'
      BY <1>MakesKept DEF KeptInv
    <2> QED BY <2>1, <2>2 DEF KeptInv, Kinds
  \* What an operation that returns leaves to the other threads and handles.
  <1>DoneHandles.
      ASSUME Types, HandleInv, KeptInv, NEW t \in Threads, NEW state, Done(t, state), Busy(t),
             pc' = [pc EXCEPT ![t] = "idle"], shared' = shared
      PROVE  /\ \A u \in Threads : u # t => pc'[u] = pc[u] /\ cur'[u] = cur[u] /\ rpc'[u] = rpc[u]
             /\ \A g \in Handles : g # cur[t].handle \/ cur[t].kind \in Kinds => handle'[g] = handle[g]
             /\ DOMAIN rpc' = Threads /\ Makes(t)'
    <2> USE <1>DoneHandles
    <2>1. \A u \in Threads : u # t => pc'[u] = pc[u] /\ cur'[u] = cur[u]
      BY DoneOthers
    <2>2. DOMAIN rpc' = Threads /\ \A u \in Threads : u # t => rpc'[u] = rpc[u]
      BY DEF KeptInv, Done
    <2>3. \A g \in Handles : g # cur[t].handle \/ cur[t].kind \in Kinds => handle'[g] = handle[g]
      BY EndsEffect DEF Ends, HandleInv
    <2>4. Makes(t)'
      <3>1. pc'[t] = "idle" /\ "idle" \notin {"rpc", "create_read", "create_write"}
        BY SMT DEF Types
      <3> QED BY <3>1 DEF Makes
    <2> QED BY <2>1, <2>2, <2>3, <2>4
  \* A thread on the way through a stream has a read or a write: it keeps nothing.
  <1>KeptUse.
      ASSUME IInv, HandleInv, PathInv, KeptInv, NEW t \in Threads,
             Find(t) \/ Send(t) \/ LockRead(t) \/ Receive(t) \/ ReceiveFails(t)
      PROVE  KeptInv'
    <2> USE <1>KeptUse
    <2>0. Types /\ DOMAIN pc = Threads /\ DOMAIN rpc = Threads
      BY DEF IInv, Types, KeptInv
    <2>1. pc[t] \in Using \cup {"find"} /\ Busy(t)
      <3>1. "idle" \notin Using \cup {"find"} /\ {"send", "lock_read", "receive"} \subseteq Using
        BY SMT DEF Using
      <3> QED BY <3>1 DEF Find, Send, LockRead, Receive, ReceiveFails, Busy
    <2>2. cur[t].kind \in Kinds
      BY <2>1 DEF PathInv, Route
    <2>3. \A k : ~Minds(t, k)
      <3>1. "release" \notin Kinds /\ "open" \notin Kinds
        BY SMT DEF Kinds
      <3> QED BY <2>2, <3>1 DEF Minds
    <2>4. UNCHANGED <<map, left>> /\ (Receive(t) => shared' = shared)
      BY DEF Find, Send, LockRead, Receive, ReceiveFails, mapVars, history
    <2>5. CASE Receive(t)
      BY <2>0, <2>1, <2>3, <2>4, <2>5, <1>DoneHandles, <1>KeptStep DEF Receive
    <2>6. CASE Find(t) \/ Send(t) \/ LockRead(t) \/ ReceiveFails(t)
      <3>1. PICK next \in {"rpc", "send", "remove_read", "lock_read", "receive"} :
                pc' = [pc EXCEPT ![t] = next]
        BY <2>6 DEF Find, Send, LockRead, ReceiveFails
      <3>2. /\ UNCHANGED <<cur, handle>> /\ DOMAIN rpc' = Threads
            /\ \A u \in Threads : u # t => rpc'[u] = rpc[u]
        BY <2>0, <2>6 DEF Find, Send, LockRead, ReceiveFails
      <3>3. pc'[t] = "rpc" => rpc'[t] = "sent"
        <4>1. "remove_read" # "rpc" /\ "lock_read" # "rpc" /\ "receive" # "rpc" /\ "send" # "rpc"
          BY SMT
        <4> QED BY <2>0, <2>6, <4>1 DEF Find, Send, LockRead, ReceiveFails
      <3>4. pc'[t] \notin {"create_read", "create_write"}
        BY <2>0, <3>1, SMT
      <3>5. Makes(t)'
        BY <3>3, <3>4 DEF Makes
      <3>6. \A u \in Threads : u # t => pc'[u] = pc[u] /\ cur'[u] = cur[u] /\ rpc'[u] = rpc[u]
        BY <2>0, <3>1, <3>2
      <3> QED BY <2>1, <2>3, <2>4, <3>2, <3>5, <3>6, <1>KeptStep
    <2> QED BY <2>5, <2>6
  \* Once the stream of one kind is removed, only the other kind is left to remove.
  <1>KeptRemoved.
      ASSUME Types, HandleInv, HandleInv', KeptInv, NEW t \in Threads, NEW k \in Kinds, Removed(t, k),
             pc[t] \in {Removing(k), Erasing(k)}, shared' = shared, left' = left,
             map'[k][cur[t].path] = 0,
             \A j \in Kinds, p \in Paths : map'[j][p] # 0 => map[j][p] # 0
      PROVE  KeptInv'
    <2> USE <1>KeptRemoved
    <2>0. DOMAIN pc = Threads /\ DOMAIN rpc = Threads
      BY DEF Types, KeptInv
    <2>1. Busy(t) /\ pc[t] # "create_write"
      BY SMT DEF Busy, Removing, Erasing
    <2>2. ASSUME NEW j \in Kinds, Minds(t, j), map'[j][cur[t].path] # 0
          PROVE  k = "read" /\ j = "write" /\ cur[t].kind = "release"
      <3>1. j # k /\ cur[t].kind = "release" /\ pc[t] \in Removal(j)
        BY <2>1, <2>2 DEF Minds
      <3>2. k # "write"
        <4>1. SUFFICES ASSUME k = "write" PROVE FALSE
          OBVIOUS
        <4>2. j = "read"
          BY <3>1, <4>1 DEF Kinds
        <4> QED BY <3>1, <4>1, <4>2, SMT DEF Removal, Removing, Erasing
      <3> QED BY <3>1, <3>2 DEF Kinds
    <2>3. CASE k # "read" /\ cur[t].kind = "release"
      <3>1. pc' = [pc EXCEPT ![t] = "idle"] /\ Done(t, "free")
        BY <2>3 DEF Removed
      <3> QED BY <2>1, <2>2, <2>3, <3>1, <1>DoneHandles, <1>KeptStep
    <2>4. CASE k # "read" /\ cur[t].kind # "release"
      <3>1. /\ pc' = [pc EXCEPT ![t] = "rpc"] /\ rpc' = [rpc EXCEPT ![t] = "sent"]
            /\ cur' = cur /\ handle' = handle
        BY <2>4 DEF Removed
      <3>2. Makes(t)'
        <4>1. pc'[t] = "rpc" /\ rpc'[t] = "sent" /\ "rpc" \notin {"create_read", "create_write"}
          BY <2>0, <3>1, SMT
        <4> QED BY <4>1 DEF Makes
      <3>3. /\ \A u \in Threads : u # t => pc'[u] = pc[u] /\ cur'[u] = cur[u] /\ rpc'[u] = rpc[u]
            /\ DOMAIN rpc' = Threads
        BY <2>0, <3>1
      <3> QED BY <2>1, <2>2, <2>4, <3>1, <3>2, <3>3, <1>KeptStep
    <2>5. CASE k = "read"
      <3>1. pc' = [pc EXCEPT ![t] = "remove_write"] /\ UNCHANGED <<cur, rpc, handle>>
        BY <2>5 DEF Removed
      <3>2. pc'[t] = "remove_write"
        BY <2>0, <3>1
      <3>3. Makes(t)'
        <4>1. "remove_write" \notin {"rpc", "create_read", "create_write"}
          BY SMT
        <4> QED BY <3>2, <4>1 DEF Makes
      <3>4. /\ \A u \in Threads : u # t => pc'[u] = pc[u] /\ cur'[u] = cur[u] /\ rpc'[u] = rpc[u]
            /\ DOMAIN rpc' = Threads
        BY <2>0, <3>1
      <3>5. ASSUME NEW j \in Kinds, NEW p \in Paths, p = cur[t].path, Minds(t, j), map'[j][p] # 0
            PROVE  \E h \in Handles : Keeper(j, p, h)'
        <4>1. j = "write" /\ cur[t].kind = "release"
          BY <2>2, <3>5
        <4>2. Minds(t, j)' /\ cur'[t].path = p
          BY <3>1, <3>2, <3>5, <4>1, SMT DEF Minds, Busy, Removal
        <4> QED BY <4>2, <1>MindsKeeper
      <3> QED BY <2>1, <3>1, <3>3, <3>4, <3>5, <1>KeptStep
    <2> QED BY <2>3, <2>4, <2>5
  <1>KeptRemoveFind.
      ASSUME IInv, HandleInv, HandleInv', KeptInv, NEW t \in Threads, NEW k \in Kinds, RemoveFind(t, k)
      PROVE  KeptInv'
    <2> USE <1>KeptRemoveFind
    <2>0. Types /\ DOMAIN pc = Threads /\ DOMAIN rpc = Threads /\ pc[t] = Removing(k)
      BY DEF IInv, Types, KeptInv, RemoveFind
    <2>1. UNCHANGED <<map, left, shared>>
      BY DEF RemoveFind, history
    <2>2. CASE map[k][cur[t].path] # 0
      <3>1. pc' = [pc EXCEPT ![t] = Erasing(k)] /\ UNCHANGED <<cur, rpc, handle>>
        BY <2>2 DEF RemoveFind
      <3>2. pc'[t] = Erasing(k)
        BY <2>0, <3>1
      <3>3. Makes(t)'
        <4>1. Erasing(k) \notin {"rpc", "create_read", "create_write"}
          BY SMT DEF Erasing
        <4> QED BY <3>2, <4>1 DEF Makes
      <3>4. /\ \A u \in Threads : u # t => pc'[u] = pc[u] /\ cur'[u] = cur[u] /\ rpc'[u] = rpc[u]
            /\ DOMAIN rpc' = Threads
        BY <2>0, <3>1
      <3>5. ASSUME NEW j \in Kinds, NEW p \in Paths, p = cur[t].path, Minds(t, j)
            PROVE  \E h \in Handles : Keeper(j, p, h)'
        <4>1. cur[t].kind = "release" /\ pc[t] \in Removal(j)
          <5>1. Removing(k) # "create_write"
            BY SMT DEF Removing
          <5> QED BY <2>0, <3>5, <5>1 DEF Minds
        <4>2. Erasing(k) \in Removal(j) /\ Erasing(k) # "idle"
          BY <2>0, <4>1, SMT DEF Removal, Removing, Erasing
        <4>3. Minds(t, j)' /\ cur'[t].path = p
          BY <3>1, <3>2, <3>5, <4>1, <4>2 DEF Minds, Busy, Removal
        <4> QED BY <4>3, <1>MindsKeeper
      <3>6. Busy(t)
        <4>1. Removing(k) # "idle"
          BY SMT DEF Removing
        <4> QED BY <2>0, <4>1 DEF Busy
      <3> QED BY <2>1, <3>1, <3>3, <3>4, <3>5, <3>6, <1>KeptStep
    <2>3. CASE ~(map[k][cur[t].path] # 0)
      <3>1. Removed(t, k)
        BY <2>3 DEF RemoveFind
      <3> QED BY <2>0, <2>1, <2>3, <3>1, <1>KeptRemoved
    <2> QED BY <2>2, <2>3
  <1>KeptErase.
      ASSUME IInv, HandleInv, HandleInv', KeptInv, NEW t \in Threads, NEW k \in Kinds, Erase(t, k)
      PROVE  KeptInv'
    <2> USE <1>KeptErase
    <2> DEFINE p == cur[t].path
    <2>0. Types /\ pc[t] = Erasing(k) /\ Busy(t)
      BY SMT DEF IInv, Erase, Erasing, Busy
    <2>1. p \in Paths
      BY <2>0 DEF HandleInv, Handled
    <2>2. /\ map' = [map EXCEPT ![k][p] = 0] /\ Removed(t, k) /\ UNCHANGED <<left, shared>>
      BY DEF Erase, history
    <2> HIDE DEF p
    <2>3. /\ map'[k][p] = 0
          /\ \A j \in Kinds, q \in Paths : j # k \/ q # p => map'[j][q] = map[j][q]
      <3>1. DOMAIN map = Kinds /\ \A j \in Kinds : DOMAIN map[j] = Paths
        BY <2>0 DEF Types
      <3>2. map'[k] = [map[k] EXCEPT ![p] = 0] /\ \A j \in Kinds : j # k => map'[j] = map[j]
        BY <2>2, <3>1
      <3> QED BY <2>1, <3>1, <3>2
    <2>4. \A j \in Kinds, q \in Paths : map'[j][q] # 0 => map[j][q] # 0
      BY <2>3
    <2> QED BY <2>0, <2>2, <2>3, <2>4, <1>KeptRemoved DEF p
  \* A stream is created for a handle that is open, or stays with a path that is marked.
  <1>KeptCreate.
      ASSUME IInv, HandleInv, HandleInv', KeptInv, NEW t \in Threads, NEW k \in Kinds, Create(t, k)
      PROVE  KeptInv'
    <2> USE <1>KeptCreate
    <2> DEFINE p == cur[t].path
               h == cur[t].handle
               both == cur[t].kind = "open" /\ handle[h].mode = "rw" /\ k = "read"
    <2>0. /\ Types /\ DOMAIN pc = Threads /\ DOMAIN rpc = Threads /\ pc[t] = Creating(k)
          /\ Creating(k) \in {"create_read", "create_write"} /\ Busy(t)
      BY SMT DEF IInv, Types, KeptInv, Create, Creating, Busy
    <2>1. /\ p \in Paths /\ h \in Handles /\ handle[h].path = p /\ cur[t].kind \in OpKinds
          /\ handle[h].state = StateOf(cur[t].kind)
      BY <2>0 DEF HandleInv, Handled
    <2>2. cur[t].kind # "release" /\ (rpc[t] # "ok" => cur[t].kind = "open" /\ p \in left)
      BY <2>0 DEF KeptInv, Makes
    <2>3. UNCHANGED <<left, shared>>
      BY DEF Create
    <2>4. \A j \in Kinds, q \in Paths : q # p => map'[j][q] = map[j][q]
      <3>1. DOMAIN map = Kinds /\ \A j \in Kinds : DOMAIN map[j] = Paths
        BY <2>0 DEF Types
      <3>2. map' = map \/ map' = [map EXCEPT ![k][p] = nstreams + 1]
        BY DEF Create
      <3>3. /\ \A j \in Kinds : j # k => map'[j] = map[j]
            /\ map'[k] = map[k] \/ map'[k] = [map[k] EXCEPT ![p] = nstreams + 1]
        BY <3>1, <3>2
      <3> QED BY <3>1, <3>3
    <2>5. CASE both
      <3>1. pc' = [pc EXCEPT ![t] = "create_write"] /\ UNCHANGED <<cur, rpc, handle>>
        BY <2>5 DEF Create
      <3>2. /\ pc'[t] = "create_write"
            /\ \A u \in Threads : u # t => pc'[u] = pc[u] /\ cur'[u] = cur[u] /\ rpc'[u] = rpc[u]
        BY <2>0, <3>1
      <3>3. \A j \in Kinds, q \in Paths : j # k => map'[j][q] = map[j][q]
        <4>1. DOMAIN map = Kinds /\ \A j \in Kinds : DOMAIN map[j] = Paths
          BY <2>0 DEF Types
        <4>2. map' = map \/ map' = [map EXCEPT ![k][p] = nstreams + 1]
          BY DEF Create
        <4> QED BY <4>1, <4>2
      <3>4. Makes(t)'
        <4>1. pc'[t] # "rpc"
          BY <3>2, SMT
        <4> QED BY <2>2, <2>3, <3>1, <4>1 DEF Makes
      <3>5. Minds(t, "read")'
        BY <2>5, <3>1, <3>2, SMT DEF Minds, Busy
      <3>6. \E g \in Handles : Keeper("read", cur[t].path, g)'
        BY <3>5, <1>MindsKeeper
      <3>7. ASSUME NEW j \in Kinds, NEW q \in Paths PROVE Kept(j, q)'
        <4>1. CASE j = "read" /\ q = p
          BY <3>1, <3>6, <4>1 DEF Kept
        <4>2. CASE ~(j = "read" /\ q = p)
          <5>1. map'[j][q] = map[j][q]
            BY <2>4, <2>5, <3>3, <4>2
          <5>2. ~Minds(t, j) \/ q # p
            <6>1. pc[t] = "create_read" /\ "create_read" # "create_write"
              BY <2>0, <2>5, SMT DEF Creating
            <6> QED BY <2>2, <6>1 DEF Minds
          <5>3. left \subseteq left' /\ \A g \in Handles : handle'[g] = handle[g]
            BY <2>3, <3>1
          <5>4. ~(q = cur[t].path /\ Minds(t, j)) /\ Busy(t)
            BY <2>0, <5>2
          <5> QED BY <3>2, <5>1, <5>3, <5>4, <1>KeptMove, SMT
        <4> QED BY <4>1, <4>2
      <3>8. \A u \in Threads : Makes(u)'
        BY <2>3, <3>2, <3>4, <1>MakesKept DEF KeptInv
      <3> QED BY <2>0, <3>1, <3>7, <3>8 DEF KeptInv, Kinds
    <2>6. CASE ~both
      <3> DEFINE state == IF rpc[t] = "ok" THEN "open" ELSE "free"
      <3>1. pc' = [pc EXCEPT ![t] = "idle"] /\ Done(t, state)
        BY <2>6 DEF Create
      <3>2. /\ \A u \in Threads : u # t => pc'[u] = pc[u] /\ cur'[u] = cur[u] /\ rpc'[u] = rpc[u]
            /\ \A g \in Handles : g # h \/ cur[t].kind \in Kinds => handle'[g] = handle[g]
            /\ DOMAIN rpc' = Threads /\ Makes(t)'
        BY <2>0, <2>3, <3>1, <1>DoneHandles
      <3>3. p \in left' \/ (handle'[h].path = p /\ handle'[h].state = "open")
        <4>1. CASE cur[t].kind \in Kinds
          <5>1. handle'[h] = handle[h]
            BY <2>1, <3>2, <4>1
          <5>2. StateOf(cur[t].kind) = "open"
            BY <4>1, SMT DEF Kinds, StateOf
          <5> QED BY <2>1, <5>1, <5>2
        <4>2. CASE cur[t].kind \notin Kinds
          <5>1. cur[t].kind = "open"
            BY <2>1, <2>2, <4>2 DEF OpKinds
          <5>2. CASE rpc[t] = "ok"
            <6>1. handle'[h] = [handle[h] EXCEPT !.state = "open"]
              BY <2>0, <2>1, <3>1, <5>1, <5>2 DEF Done, Types
            <6>2. handle[h] \in [state : HandleStates, path : Paths, mode : Modes \cup {"r"}]
              BY <2>0, <2>1 DEF Types
            <6> QED BY <2>1, <6>1, <6>2, SMT
          <5>3. CASE rpc[t] # "ok"
            BY <2>2, <2>3, <5>3
          <5> QED BY <5>2, <5>3
        <4> QED BY <4>1, <4>2
      <3>4. ASSUME NEW j \in Kinds, NEW q \in Paths PROVE Kept(j, q)'
        <4>1. CASE q = p
          <5>1. ASSUME NEW g, g = h, handle'[g].path = p, handle'[g].state = "open"
                PROVE  Keeper(j, q, g)'
            BY <4>1, <5>1 DEF Keeper
          <5>2. q \in left' \/ \E g \in Handles : Keeper(j, q, g)'
            BY <2>1, <3>3, <4>1, <5>1
          <5> QED BY <5>2 DEF Kept
        <4>2. CASE q # p
          BY <2>0, <2>3, <2>4, <3>2, <4>2, <1>KeptMove
        <4> QED BY <4>1, <4>2
      <3>5. \A u \in Threads : Makes(u)'
        BY <2>3, <3>2, <1>MakesKept DEF KeptInv
      <3> QED BY <3>2, <3>4, <3>5 DEF KeptInv, Kinds
    <2> QED BY <2>5, <2>6
  <1>KeptUnary.
      ASSUME IInv, HandleInv, HandleInv', KeptInv, NEW t \in Threads, UnaryReturns(t) \/ UnaryFails(t)
      PROVE  KeptInv'
    <2> USE <1>KeptUnary
    <2>0. /\ Types /\ DOMAIN pc = Threads /\ DOMAIN rpc = Threads /\ pc[t] = "rpc" /\ Makes(t)
          /\ "rpc" # "create_write" /\ Busy(t)
      BY SMT DEF IInv, Types, KeptInv, UnaryReturns, UnaryFails, Busy
    <2>1. UNCHANGED <<map, shared>> /\ left \subseteq left'
      BY DEF UnaryReturns, UnaryFails, mapVars
    <2>2. \A k : Minds(t, k) => cur[t].kind = "release"
      BY <2>0 DEF Minds
    <2>3. CASE UnaryFails(t)
      <3>1. cur[t].kind = "release" => cur[t].path \in left'
        BY <2>3 DEF UnaryFails
      <3> QED BY <2>0, <2>1, <2>2, <2>3, <3>1, <1>DoneHandles, <1>KeptStep DEF UnaryFails
    <2>4. CASE UnaryReturns(t) /\ rpc[t] = "eperm"
      <3>1. cur[t].kind # "release"
        BY <2>0, <2>4, SMT DEF Makes
      <3>2. pc' = [pc EXCEPT ![t] = "idle"] /\ Done(t, "free")
        BY <2>4 DEF UnaryReturns
      <3> QED BY <2>0, <2>1, <2>2, <3>1, <3>2, <1>DoneHandles, <1>KeptStep
    <2>5. CASE UnaryReturns(t) /\ rpc[t] # "eperm"
      <3> DEFINE next == CASE cur[t].kind = "release" -> "remove_read"
                           [] cur[t].kind \in Kinds -> Creating(cur[t].kind)
                           [] OTHER -> IF handle[cur[t].handle].mode = "w" THEN "create_write"
                                       ELSE "create_read"
      <3>0. pc' = [pc EXCEPT ![t] = next] /\ UNCHANGED <<cur, rpc, handle>>
        BY <2>5, SMT DEF UnaryReturns
      <3>1. /\ next \in {"remove_read", "create_read", "create_write"}
            /\ next = "remove_read" <=> cur[t].kind = "release"
        BY SMT DEF Kinds, Creating
      <3> HIDE DEF next
      <3>2. /\ pc'[t] \in {"remove_read", "create_read", "create_write"}
            /\ cur' = cur /\ rpc' = rpc /\ handle' = handle
            /\ pc'[t] = "remove_read" <=> cur[t].kind = "release"
            /\ \A u \in Threads : u # t => pc'[u] = pc[u] /\ cur'[u] = cur[u] /\ rpc'[u] = rpc[u]
        BY <2>0, <3>0, <3>1
      <3>3. Makes(t)'
        <4>1. pc'[t] # "rpc" /\ (pc'[t] \in {"create_read", "create_write"} => pc'[t] # "remove_read")
          BY <3>2, SMT
        <4>2. rpc[t] # "ok" => cur[t].kind = "open" /\ cur[t].path \in left'
          <5>1. rpc[t] # "ok" => rpc[t] = "refused" /\ "refused" # "sent"
            BY <2>5, SMT DEF UnaryReturns
          <5> QED BY <2>0, <2>5, <5>1 DEF Makes, UnaryReturns
        <4> QED BY <3>2, <4>1, <4>2 DEF Makes
      <3>4. ASSUME NEW k \in Kinds, NEW p \in Paths, p = cur[t].path, Minds(t, k)
            PROVE  \E h \in Handles : Keeper(k, p, h)'
        <4>1. cur[t].kind = "release" /\ pc'[t] = "remove_read"
          BY <2>2, <3>2, <3>4
        <4>2. Minds(t, k)' /\ cur'[t].path = p
          BY <3>2, <3>4, <4>1, SMT DEF Minds, Busy, Removal
        <4> QED BY <4>2, <1>MindsKeeper
      <3> QED BY <2>0, <2>1, <3>2, <3>3, <3>4, <1>KeptStep
    <2> QED BY <2>3, <2>4, <2>5
  \* An operation begins: no keeper is lost.
  <1>KeptBegin.
      ASSUME HandleInv, KeptInv, NEW t \in Threads, ~Busy(t), Makes(t)', DOMAIN rpc' = Threads,
             \A u \in Threads : u # t => pc'[u] = pc[u] /\ cur'[u] = cur[u] /\ rpc'[u] = rpc[u],
             map' = map, left' = left,
             \A g \in Handles : handle[g].state # "free" =>
                 /\ handle'[g].path = handle[g].path
                 /\ handle[g].state = "open" => \/ handle'[g].state = "open"
                                                \/ cur'[t].handle = g /\ \A k \in Kinds : Minds(t, k)'
      PROVE  KeptInv'
    <2> USE <1>KeptBegin
    <2>1. ASSUME NEW k \in Kinds, NEW p \in Paths, NEW g \in Handles, Keeper(k, p, g)
          PROVE  Keeper(k, p, g)'
      <3>1. CASE handle[g].state = "open"
        <4>1. handle[g].state # "free"
          BY <3>1, SMT
        <4> QED BY <2>1, <3>1, <4>1 DEF Keeper
      <3>2. ASSUME NEW u \in Threads, cur[u].handle = g, Minds(u, k) PROVE Keeper(k, p, g)'
        <4>1. u # t /\ Busy(u)
          BY <3>2 DEF Minds
        <4>2. handle[g].state # "free"
          <5>1. StateOf(cur[u].kind) # "free"
            BY SMT DEF StateOf
          <5> QED BY <3>2, <4>1, <5>1 DEF HandleInv, Handled
        <4>3. Minds(u, k)' /\ cur'[u].handle = g
          BY <3>2, <4>1 DEF Minds, Busy, Removal
        <4> QED BY <2>1, <4>2, <4>3 DEF Keeper
      <3> QED BY <2>1, <3>1, <3>2 DEF Keeper
    <2>2. \A k \in Kinds, p \in Paths : Kept(k, p)'
      BY <2>1 DEF KeptInv, Kept
    <2>3. \A u \in Threads : Makes(u)'
      BY <1>MakesKept DEF KeptInv
    <2> QED BY <2>2, <2>3 DEF KeptInv, Kinds
  <1>KeptBegins.
      ASSUME IInv, HandleInv, HandleInv', KeptInv, NEW t \in Threads,
             \/ \E h \in Handles, p \in Paths, m \in Modes : Open(t, h, p, m)
             \/ \E h \in Handles : Release(t, h)
             \/ \E h \in Handles, k \in Kinds : ReadWrite(t, k, h)
      PROVE  KeptInv'
    <2> USE <1>KeptBegins
    <2>0. /\ DOMAIN pc = Threads /\ DOMAIN cur = Threads /\ DOMAIN rpc = Threads
          /\ DOMAIN handle = Handles /\ ~Busy(t)
      BY DEF IInv, Types, KeptInv, Open, Release, ReadWrite, Begin, Busy
    <2>1. map' = map /\ left' = left
      BY DEF Open, Release, ReadWrite, mapVars
    <2>2. ASSUME NEW h \in Handles, NEW p \in Paths, NEW m \in Modes, Open(t, h, p, m) PROVE KeptInv'
      <3>1. handle[h].state = "free" /\ \A g \in Handles : g # h => handle'[g] = handle[g]
        BY <2>0, <2>2, SMT DEF Open, NoHandle
      <3>2. /\ pc'[t] = "rpc" /\ rpc'[t] = "sent" /\ DOMAIN rpc' = Threads
            /\ \A u \in Threads : u # t => pc'[u] = pc[u] /\ cur'[u] = cur[u] /\ rpc'[u] = rpc[u]
        BY <2>0, <2>2 DEF Open, Begin
      <3>3. Makes(t)'
        BY <3>2, SMT DEF Makes
      <3> QED BY <2>0, <2>1, <3>1, <3>2, <3>3, <1>KeptBegin
    <2>3. ASSUME NEW h \in Handles, NEW k \in Kinds, ReadWrite(t, k, h) PROVE KeptInv'
      <3>1. handle' = handle
        BY <2>3 DEF ReadWrite
      <3>2. /\ pc'[t] = "find" /\ DOMAIN rpc' = Threads
            /\ \A u \in Threads : u # t => pc'[u] = pc[u] /\ cur'[u] = cur[u] /\ rpc'[u] = rpc[u]
        BY <2>0, <2>3 DEF ReadWrite, Begin
      <3>3. Makes(t)'
        BY <3>2, SMT DEF Makes
      <3> QED BY <2>0, <2>1, <3>1, <3>2, <3>3, <1>KeptBegin
    <2>4. ASSUME NEW h \in Handles, Release(t, h) PROVE KeptInv'
      <3>1. /\ handle'[h] = [handle[h] EXCEPT !.state = "closing"]
            /\ \A g \in Handles : g # h => handle'[g] = handle[g]
        BY <2>0, <2>4 DEF Release
      <3>2. handle'[h].path = handle[h].path
        <4>1. handle[h] \in [state : HandleStates, path : Paths, mode : Modes \cup {"r"}]
          BY DEF IInv, Types
        <4> QED BY <3>1, <4>1, SMT
      <3>3. /\ pc'[t] = "rpc" /\ rpc'[t] = "sent" /\ DOMAIN rpc' = Threads
            /\ cur'[t] = [kind |-> "release", handle |-> h, path |-> handle[h].path, id |-> nops + 1]
            /\ \A u \in Threads : u # t => pc'[u] = pc[u] /\ cur'[u] = cur[u] /\ rpc'[u] = rpc[u]
        BY <2>0, <2>4 DEF Release, Begin
      <3>4. Makes(t)'
        BY <3>3, SMT DEF Makes
      <3>5. cur'[t].handle = h /\ \A k \in Kinds : Minds(t, k)'
        BY <3>3, SMT DEF Minds, Busy, Removal
      <3> QED BY <2>0, <2>1, <3>1, <3>2, <3>3, <3>4, <3>5, <1>KeptBegin
    <2> QED BY <2>2, <2>3, <2>4
  <1> SUFFICES ASSUME IInv, HandleInv, HandleInv', PathInv, KeptInv, [Next]_vars PROVE KeptInv'
    OBVIOUS
  <1>0. ASSUME UNCHANGED <<pc, cur, handle, map, left>>, DOMAIN rpc' = Threads,
               \A t \in Threads : Makes(t)'
        PROVE  KeptInv'
    <2>1. ASSUME NEW k \in Kinds, NEW p \in Paths, NEW h \in Handles PROVE Keeper(k, p, h)' = Keeper(k, p, h)
      <3>1. \A t \in Threads : Minds(t, k)' = Minds(t, k)
        BY <1>0 DEF Minds, Busy, Removal
      <3> QED BY <1>0, <3>1 DEF Keeper
    <2> QED BY <1>0, <2>1 DEF KeptInv, Kept, Kinds
  <1>1. CASE UNCHANGED <<pc, cur, handle, map, left, rpc>>
    BY <1>0, <1>1 DEF KeptInv, Makes
  <1>2. ASSUME NEW t \in Threads, ThreadStep(t) PROVE KeptInv'
    <2>1. CASE Dangle(t)
      BY <1>1, <2>1 DEF Dangle, threadVars, mapVars, history
    <2> QED BY <1>2, <2>1, <1>KeptUse, <1>KeptRemoveFind, <1>KeptErase, <1>KeptCreate, <1>KeptUnary DEF ThreadStep
  <1>3. ASSUME NEW t \in Threads, ServeUnary(t) PROVE KeptInv'
    <2>1. PICK answer : /\ answer # "ok" => cur[t].kind = "open"
                        /\ rpc' = [rpc EXCEPT ![t] = answer]
      BY <1>3 DEF ServeUnary
    <2>2. UNCHANGED <<pc, cur, handle, map, left>> /\ pc[t] = "rpc"
      BY <1>3 DEF ServeUnary, mapVars, history
    <2>3. ASSUME NEW u \in Threads PROVE Makes(u)'
      <3>1. CASE u = t
        <4>1. rpc'[t] = answer /\ pc'[t] = "rpc" /\ "rpc" \notin {"create_read", "create_write"}
          BY <2>1, <2>2, SMT DEF KeptInv
        <4> QED BY <2>1, <2>2, <3>1, <4>1 DEF Makes
      <3>2. CASE u # t
        BY <2>1, <2>2, <3>2, <1>MakesKept DEF KeptInv
      <3> QED BY <3>1, <3>2
    <2> QED BY <1>0, <2>1, <2>2, <2>3 DEF KeptInv
  <1>4. ASSUME NEW s \in Streams, Break(s) \/ Serve(s) PROVE KeptInv'
    BY <1>1, <1>4 DEF Break, Serve, threadVars, mapVars, history
  <1>5. ASSUME NEW w \in late, ServeLate(w) PROVE KeptInv'
    BY <1>1, <1>5 DEF ServeLate, threadVars, mapVars, history
  <1>6. CASE UNCHANGED vars
    BY <1>1, <1>6 DEF vars, threadVars, mapVars, history
  <1> QED BY <1>2, <1>3, <1>4, <1>5, <1>6, <1>KeptUnary, <1>KeptBegins DEF Next

\* release() leaves no stream behind: a path with a stream has a handle in use, or the
\* server refused an open of it or its release failed.
THEOREM StreamsReleasedAlways == Spec => []StreamsReleased
<1>1. Init => KeptInv
  <2> SUFFICES ASSUME Init PROVE KeptInv
    OBVIOUS
  <2>1. ASSUME NEW t \in Threads PROVE Makes(t)
    BY SMT DEF Init, Makes
  <2> QED BY <2>1 DEF KeptInv, Kept, Init
<1>2. HandleInv /\ KeptInv => StreamsReleased
  <2> SUFFICES ASSUME HandleInv, KeptInv, NEW k \in Kinds, NEW p \in Paths, map[k][p] # 0,
                      p \notin left
               PROVE  Users(p) # {}
    BY DEF StreamsReleased
  <2>1. PICK h \in Handles : Keeper(k, p, h)
    BY DEF KeptInv, Kept
  <2>2. handle[h].state # "free"
    <3>1. "open" # "free" /\ \A kind : StateOf(kind) # "free"
      BY SMT DEF StateOf
    <3> QED BY <2>1, <3>1 DEF Keeper, Minds, HandleInv, Handled
  <2> QED BY <2>1, <2>2 DEF Keeper, Users
<1> QED BY <1>1, <1>2, InitStep, NextStep, HandleInit, HandleNext, PathInit, PathNext, KeptNext,
           PTL DEF Spec

-----------------------------------------------------------------------------
(* Writes are applied once: where each operation's number can be.             *)

\* Counting in a log.
LEMMA CountAppend ==
  ASSUME NEW sq \in Seq(Nat), NEW x \in Nat, NEW w
  PROVE  /\ Count(sq, w) \in Nat
         /\ Count(Append(sq, x), w) = Count(sq, w) + (IF w = x THEN 1 ELSE 0)
         /\ Count(sq, w) >= 1 <=> \E i \in DOMAIN sq : sq[i] = w
<1> DEFINE S == {i \in DOMAIN sq : sq[i] = w}
           T == {i \in DOMAIN Append(sq, x) : Append(sq, x)[i] = w}
           n == Len(sq) + 1
<1>1. DOMAIN sq = 1 .. Len(sq) /\ Len(sq) \in Nat
  BY SMT
<1>2. IsFiniteSet(1 .. Len(sq))
  <2>1. 1 \in Int /\ Len(sq) \in Int
    BY <1>1, SMT
  <2> QED BY <2>1, FS_Interval
<1>3. S \in SUBSET (1 .. Len(sq))
  BY <1>1
<1>4. IsFiniteSet(S)
  BY <1>2, <1>3, FS_Subset
<1>5. Cardinality(S) \in Nat /\ (Cardinality(S) = 0 <=> S = {})
  BY <1>4, FS_CardinalityType, FS_EmptySet
<1>6. T = (IF w = x THEN S \cup {n} ELSE S) /\ n \notin S
  BY <1>1, SMT
<1>7. Cardinality(S \cup {n}) = Cardinality(S) + 1
  <2>1. n \notin S
    BY <1>6
  <2> HIDE DEF S, n
  <2> QED BY <1>4, <2>1, FS_AddElement
<1>8. Cardinality(T) = Cardinality(S) + (IF w = x THEN 1 ELSE 0)
  <2> HIDE DEF S, T, n
  <2>1. CASE w = x
    BY <1>6, <1>7, <2>1
  <2>2. CASE w # x
    <3>1. Cardinality(S) + 0 = Cardinality(S)
      BY <1>5, SMT
    <3> QED BY <1>6, <2>2, <3>1
  <2> QED BY <2>1, <2>2
<1>9. Cardinality(S) >= 1 <=> \E i \in DOMAIN sq : sq[i] = w
  <2>1. S # {} <=> \E i \in DOMAIN sq : sq[i] = w
    OBVIOUS
  <2> HIDE DEF S
  <2>2. Cardinality(S) >= 1 <=> Cardinality(S) # 0
    BY <1>5, SMT
  <2> QED BY <1>5, <2>1, <2>2
<1> QED BY <1>5, <1>8, <1>9 DEF Count

\* An operation on its way is under way.
LEMMA OnStreamBusy == \A t \in Threads : pc[t] \in OnStream \cup {"rpc"} \cup RemovePcs => Busy(t)
BY SMT DEF OnStream, Using, RemovePcs, Busy

\* A thread that moves to a label off the streams, or on along its stream.
LEMMA MovesLabel ==
  ASSUME Types, NEW t \in Threads, NEW next, pc' = [pc EXCEPT ![t] = next],
         \/ next \notin OnStream
         \/ next \in OnStream \ {"find", "send"} /\ pc[t] \in OnStream
         \/ next = "send" /\ pc[t] = "find"
  PROVE  /\ \A u \in Threads : pc'[u] \in OnStream => pc[u] \in OnStream
         /\ \A u \in Threads : pc'[u] \in {"find", "send"} => pc[u] \in {"find", "send"}
<1>1. pc'[t] = next /\ \A u \in Threads : u # t => pc'[u] = pc[u]
  BY DEF Types
<1>2. {"find", "send"} \subseteq OnStream
  BY SMT DEF OnStream, Using
<1> QED BY <1>1, <1>2

LEMMA OffStream ==
  /\ "rpc" \notin OnStream /\ "idle" \notin OnStream /\ "create_write" \notin OnStream
  /\ "create_read" \notin OnStream /\ "remove_read" \notin OnStream
  /\ "remove_write" \notin OnStream
  /\ \A k \in Kinds : Erasing(k) \notin OnStream
BY SMT DEF OnStream, Using, Erasing

LEMMA ThreadLabels ==
  ASSUME Types, NEW t \in Threads, ThreadStep(t) \/ UnaryFails(t)
  PROVE  /\ \A u \in Threads : pc'[u] \in OnStream => pc[u] \in OnStream
         /\ \A u \in Threads : pc'[u] \in {"find", "send"} => pc[u] \in {"find", "send"}
<1> USE OffStream
<1>1. CASE Find(t)
  <2>1. pc[t] = "find" /\ (pc' = [pc EXCEPT ![t] = "rpc"] \/ pc' = [pc EXCEPT ![t] = "send"])
    BY <1>1 DEF Find
  <2> QED BY <2>1, MovesLabel
<1>2. CASE Send(t) \/ LockRead(t) \/ ReceiveFails(t)
  <2>1. {"lock_read", "receive"} \subseteq OnStream \ {"find", "send"} /\ pc[t] \in OnStream
    BY <1>2, SMT DEF OnStream, Using, Send, LockRead, ReceiveFails
  <2>2. \E next \in {"lock_read", "receive", "remove_read"} : pc' = [pc EXCEPT ![t] = next]
    BY <1>2 DEF Send, LockRead, ReceiveFails
  <2> QED BY <2>1, <2>2, MovesLabel
<1>3. CASE Receive(t) \/ UnaryFails(t)
  BY <1>3, MovesLabel DEF Receive, UnaryFails
<1>4. CASE Dangle(t)
  BY <1>4 DEF Dangle, threadVars
<1>5. ASSUME NEW k \in Kinds, RemoveFind(t, k) \/ Erase(t, k) \/ Create(t, k)
      PROVE  \E next : next \notin OnStream /\ pc' = [pc EXCEPT ![t] = next]
  BY <1>5 DEF RemoveFind, Erase, Create, Removed
<1>6. CASE UnaryReturns(t)
  <2>1. \E next : next \notin OnStream /\ pc' = [pc EXCEPT ![t] = next]
    BY <1>6, SMT DEF UnaryReturns, Creating, OnStream, Using
  <2> QED BY <2>1, MovesLabel
<1> QED BY <1>1, <1>2, <1>3, <1>4, <1>5, <1>6, MovesLabel DEF ThreadStep

\* A thread's step begins no operation, and repeats at most its own.
LEMMA ThreadMoves ==
  ASSUME IInv, HandleInv, NEW t \in Threads, ThreadStep(t) \/ UnaryFails(t)
  PROVE  Moves /\ Retires
<1>0. Types /\ Handled(t) /\ DOMAIN pc = Threads
  BY DEF IInv, Types, HandleInv
<1>1. Ends(t) \/ Goes
  BY <1>0, ThreadGoes
<1>2. \A u \in Threads : Busy(u)' => Busy(u) /\ cur'[u] = cur[u]
  <2>1. CASE Ends(t)
    BY <1>0, <2>1, EndsEffect DEF Ends
  <2>2. CASE Goes
    BY <2>2 DEF Goes
  <2> QED BY <1>1, <2>1, <2>2
<1>3. /\ \A u \in Threads : pc'[u] \in OnStream => pc[u] \in OnStream
      /\ \A u \in Threads : pc'[u] \in {"find", "send"} => pc[u] \in {"find", "send"}
  BY <1>0, ThreadLabels
<1>4. nops' = nops
  BY DEF ThreadStep, Find, Send, LockRead, Receive, ReceiveFails, Dangle, RemoveFind, Erase, Create,
         UnaryReturns, UnaryFails
<1>5. \/ retried' = retried
      \/ /\ retried' = retried \cup {cur[t].id} /\ pc' = [pc EXCEPT ![t] = "remove_read"]
         /\ pc[t] \in OnStream
  <2>1. "send" \in OnStream /\ "receive" \in OnStream
    BY SMT DEF OnStream, Using
  <2> QED BY <2>1 DEF ThreadStep, Find, Send, LockRead, Receive, ReceiveFails, Dangle, RemoveFind,
                      Erase, Create, UnaryReturns, UnaryFails, history
<1>6. \A w \in retried' : w \in retried
         \/ \E u \in Threads : Busy(u) /\ cur[u].id = w /\ pc'[u] \notin OnStream
  BY <1>0, <1>5, OnStreamBusy, OffStream
<1>7. Retires
  <2>1. CASE UnaryFails(t)
    <3>1. Busy(t) /\ ~Busy(t)' /\ late' \subseteq late \cup {cur[t]}
      <4>1. pc[t] = "rpc" /\ pc'[t] = "idle" /\ "rpc" # "idle"
        BY <1>0, <2>1, "rpc" # "idle" DEF UnaryFails
      <4> QED BY <2>1, <4>1 DEF UnaryFails, Busy
    <3> QED BY <3>1 DEF Retires
  <2>2. CASE ThreadStep(t)
    <3>1. late' = late
      BY <2>2 DEF ThreadStep, Find, Send, LockRead, Receive, ReceiveFails, Dangle, RemoveFind, Erase,
                  Create, UnaryReturns
    <3> QED BY <3>1 DEF Retires
  <2> QED BY <2>1, <2>2
<1> QED BY <1>2, <1>3, <1>4, <1>6, <1>7 DEF Moves

\* What the steps do to the queue of a stream.
LEMMA QueueShape ==
  ASSUME Types, NEW s \in Streams
  PROVE  /\ queue[s] \in Seq(Messages)
         /\ DOMAIN queue[s] = 1 .. Len(queue[s]) /\ Len(queue[s]) \in Nat
         /\ \A i \in DOMAIN queue[s] : queue[s][i] \in Messages /\ i \in Nat
<1>1. queue[s] \in Seq(Messages)
  BY DEF Types
<1> QED BY ONLY <1>1, SMT

LEMMA FollowsSame ==
  ASSUME Types, NEW s \in Streams, queue'[s] = queue[s]
  PROVE  Follows(s, 0)
<1>1. \A i \in DOMAIN queue[s] : i + 0 = i
  BY QueueShape, SMT
<1> QED BY <1>1 DEF Follows

LEMMA FollowsReceive ==
  ASSUME IInv, NEW t \in Threads, Receive(t)
  PROVE  /\ str[t] \in Streams
         /\ \A i \in DOMAIN queue'[str[t]] :
              i + 1 \in DOMAIN queue[str[t]] /\ queue'[str[t]][i] = queue[str[t]][i + 1]
         /\ \A s \in Streams : s # str[t] => queue'[s] = queue[s]
         /\ \A s \in Streams : \E d \in {0, 1} : Follows(s, d)
<1>0. Types /\ str[t] \in Streams
  BY DEF IInv, Holds, Receive
<1> PICK s \in Streams : s = str[t]
  BY <1>0
<1>1. queue' = [queue EXCEPT ![s] = Tail(queue[s])] /\ queue[s] # <<>>
  BY DEF Receive
<1>2. queue'[s] = Tail(queue[s]) /\ \A r \in Streams : r # s => queue'[r] = queue[r]
  BY <1>0, <1>1 DEF Types
<1>3. \A i \in DOMAIN queue'[s] : i + 1 \in DOMAIN queue[s] /\ queue'[s][i] = queue[s][i + 1]
  <2>1. queue[s] \in Seq(Messages)
    BY <1>0, QueueShape
  <2>2. queue[s] # <<>> /\ queue'[s] = Tail(queue[s])
    BY <1>1, <1>2
  <2>3. Len(queue[s]) \in Nat /\ DOMAIN queue[s] = 1 .. Len(queue[s])
    BY <1>0, QueueShape
  <2>4. /\ DOMAIN Tail(queue[s]) = 1 .. (Len(queue[s]) - 1)
        /\ \A i \in 1 .. (Len(queue[s]) - 1) : Tail(queue[s])[i] = queue[s][i + 1]
    BY ONLY <2>1, <2>2, SMT
  <2>5. \A i \in 1 .. (Len(queue[s]) - 1) : i + 1 \in 1 .. Len(queue[s])
    BY ONLY <2>3, SMT
  <2> QED BY <2>2, <2>3, <2>4, <2>5
<1>4. Follows(s, 1)
  BY <1>3 DEF Follows
<1>5. \A r \in Streams : r # s => Follows(r, 0)
  BY <1>0, <1>2, FollowsSame
<1> QED BY <1>0, <1>2, <1>3, <1>4, <1>5

\* The request the server runs, and what else it leaves as it is.
LEMMA FollowsServe ==
  ASSUME IInv, NEW s \in Streams, Serve(s)
  PROVE  /\ \E i \in DOMAIN queue[s] :
              /\ queue[s][i] \in Messages /\ ~queue[s][i].served
              /\ queue'[s][i] = [queue[s][i] EXCEPT !.served = TRUE]
              /\ \A j \in DOMAIN queue[s] : j # i => queue'[s][j] = queue[s][j]
              /\ log' = IF queue[s][i].kind = "write"
                        THEN [log EXCEPT ![queue[s][i].path] = Append(@, queue[s][i].id)]
                        ELSE log
         /\ DOMAIN queue'[s] = DOMAIN queue[s]
         /\ \A r \in Streams : r # s => queue'[r] = queue[r]
         /\ \A r \in Streams : Follows(r, 0)
<1>0. Types
  BY DEF IInv
<1>1. PICK i \in DOMAIN queue[s] :
        /\ ~queue[s][i].served
        /\ queue' = [queue EXCEPT ![s][i].served = TRUE]
        /\ log' = IF queue[s][i].kind = "write"
                  THEN [log EXCEPT ![queue[s][i].path] = Append(@, queue[s][i].id)]
                  ELSE log
  BY DEF Serve
<1>2. /\ queue'[s] = [queue[s] EXCEPT ![i] = [queue[s][i] EXCEPT !.served = TRUE]]
      /\ \A r \in Streams : r # s => queue'[r] = queue[r]
  BY <1>0, <1>1 DEF Types
<1>3. /\ DOMAIN queue'[s] = DOMAIN queue[s]
      /\ queue'[s][i] = [queue[s][i] EXCEPT !.served = TRUE]
      /\ \A j \in DOMAIN queue[s] : j # i => queue'[s][j] = queue[s][j]
  BY <1>2
<1>4. queue[s][i] \in Messages /\ queue'[s][i].id = queue[s][i].id
  <2>1. queue[s][i] \in Messages
    BY <1>0, QueueShape
  <2>2. \A m \in Messages : [m EXCEPT !.served = TRUE].id = m.id
    BY SMT DEF Messages
  <2> QED BY <1>3, <2>1, <2>2
<1>5. Follows(s, 0)
  <2>1. \A j \in DOMAIN queue[s] : j + 0 = j
    BY <1>0, QueueShape, SMT
  <2>2. \A j \in DOMAIN queue[s] : queue'[s][j].id = queue[s][j].id
    BY <1>3, <1>4
  <2> QED BY <1>3, <2>1, <2>2 DEF Follows
<1>6. \A r \in Streams : r # s => Follows(r, 0)
  BY <1>0, <1>2, FollowsSame
<1> QED BY <1>1, <1>2, <1>3, <1>4, <1>5, <1>6

\* A request is sent: it is the last of its stream, and new.
LEMMA SendEffect ==
  ASSUME IInv, NEW t \in Threads, Send(t), str[t] \notin broken
  PROVE  LET n == Len(queue[str[t]]) + 1
         IN /\ str[t] \in Streams
            /\ DOMAIN queue'[str[t]] = 1 .. n /\ n \in Nat /\ DOMAIN queue[str[t]] = 1 .. (n - 1)
            /\ queue'[str[t]][n] = [by |-> t, id |-> cur[t].id, kind |-> cur[t].kind,
                                    path |-> cur[t].path, served |-> FALSE]
            /\ \A i \in DOMAIN queue[str[t]] : queue'[str[t]][i] = queue[str[t]][i]
            /\ \A s \in Streams : s # str[t] => queue'[s] = queue[s]
<1>0. Types /\ str[t] \in Streams
  BY DEF IInv, Holds, Send
<1> DEFINE s == str[t]
           q == [by |-> t, id |-> cur[t].id, kind |-> cur[t].kind, path |-> cur[t].path,
                 served |-> FALSE]
<1>1. queue' = [queue EXCEPT ![s] = Append(queue[s], q)]
  BY DEF Send
<1>2. queue'[s] = Append(queue[s], q) /\ \A r \in Streams : r # s => queue'[r] = queue[r]
  BY <1>0, <1>1 DEF Types
<1>3. queue[s] \in Seq(Messages)
  BY <1>0, QueueShape
<1> HIDE DEF q
<1>4. /\ DOMAIN queue'[s] = 1 .. (Len(queue[s]) + 1) /\ Len(queue[s]) + 1 \in Nat
      /\ DOMAIN queue[s] = 1 .. ((Len(queue[s]) + 1) - 1)
      /\ queue'[s][Len(queue[s]) + 1] = q
      /\ \A i \in DOMAIN queue[s] : queue'[s][i] = queue[s][i]
  <2>1. queue'[s] = Append(queue[s], q)
    BY <1>2
  <2> QED BY ONLY <1>3, <2>1, SMT
<1> QED BY <1>0, <1>2, <1>4 DEF q

\* The server appends a number that was given out.
LEMMA LogAppend ==
  ASSUME LogIds, NEW p \in Paths, NEW w \in 1 .. nops, nops \in Nat, nops' = nops,
         log' = [log EXCEPT ![p] = Append(@, w)]
  PROVE  /\ LogIds'
         /\ log[p] \in Seq(Nat) /\ log'[p] = Append(log[p], w)
         /\ \A q \in Paths : q # p => log'[q] = log[q]
<1>1. log[p] \in Seq(Nat) /\ log'[p] = Append(log[p], w) /\ DOMAIN log = Paths
      /\ \A q \in Paths : q # p => log'[q] = log[q]
  BY DEF LogIds
<1>2. w \in Nat
  BY SMT
<1>3. Append(log[p], w) \in Seq(Nat)
  BY <1>1, <1>2, SMT
<1>4. log' \in [Paths -> Seq(Nat)]
  BY <1>1, <1>3 DEF LogIds
<1>5. \A i \in DOMAIN Append(log[p], w) : Append(log[p], w)[i] \in 1 .. nops
  <2>1. \A i \in DOMAIN log[p] : log[p][i] \in 1 .. nops
    BY DEF LogIds
  <2> QED BY ONLY <1>1, <1>2, <2>1, w \in 1 .. nops, SMT
<1>6. \A q \in Paths : \A i \in DOMAIN log'[q] : log'[q][i] \in 1 .. nops'
  BY <1>1, <1>5 DEF LogIds
<1> QED BY <1>1, <1>4, <1>6 DEF LogIds

\* A step that leaves the threads where they are.
LEMMA QuietMoves ==
  ASSUME UNCHANGED <<pc, cur, nops, retried>>
  PROVE  Moves
BY DEF Moves, Busy

LEMMA IdNext == IInv /\ IInv' /\ HandleInv /\ IdInv /\ [Next]_vars => IdInv'
  <1>MovesThreads.
      ASSUME ThreadIds, Moves
      PROVE  ThreadIds'
    <2> USE <1>MovesThreads
    <2>1. \A t \in Threads : Busy(t)' => cur'[t].id \in 1 .. nops'
      BY DEF ThreadIds, Moves
    <2>2. \A t, u \in Threads : t # u /\ Busy(t)' /\ Busy(u)' => cur'[t].id # cur'[u].id
      BY DEF ThreadIds, Moves
    <2>3. retried' \subseteq 1 .. nops'
      BY DEF ThreadIds, Moves
    <2>4. ASSUME NEW t \in Threads, pc'[t] \in OnStream PROVE cur'[t].id \notin retried'
      <3>1. Busy(t)'
        BY <2>4, SMT DEF OnStream, Using, Busy
      <3>2. Busy(t) /\ cur'[t] = cur[t] /\ pc[t] \in OnStream
        BY <2>4, <3>1 DEF Moves
      <3>3. cur[t].id \notin retried
        BY <3>2 DEF ThreadIds, OnStream
      <3>4. ASSUME NEW u \in Threads, Busy(u), pc'[u] \notin OnStream PROVE cur[u].id # cur[t].id
        BY <2>4, <3>2, <3>4 DEF ThreadIds
      <3> QED BY <3>2, <3>3, <3>4 DEF Moves
    <2> QED BY <2>1, <2>2, <2>3, <2>4 DEF ThreadIds, OnStream, Using
  <1>MovesLate.
      ASSUME HandleInv, ThreadIds, LateIds, Moves, Retires
      PROVE  LateIds'
    <2> USE <1>MovesLate
    <2>1. ASSUME NEW r \in late' PROVE r.id \in 1 .. nops' /\ r.path \in Paths
      <3>1. \A t \in Threads : Busy(t) => cur[t].id \in 1 .. nops /\ cur[t].path \in Paths
        BY DEF HandleInv, Handled, ThreadIds
      <3> QED BY <3>1 DEF LateIds, Moves, Retires
    <2>2. ASSUME NEW r \in late', NEW q \in late', r.id = q.id PROVE r = q
      <3>2. CASE r \in late /\ q \in late
        BY <2>2, <3>2 DEF LateIds
      <3>3. ASSUME NEW t \in Threads, Busy(t), r = cur[t] PROVE r = q
        <4>1. CASE q \in late
          BY <2>2, <3>3, <4>1 DEF LateIds
        <4>2. ASSUME NEW u \in Threads, Busy(u), q = cur[u] PROVE r = q
          BY <2>2, <3>3, <4>2 DEF ThreadIds
        <4> QED BY <4>1, <4>2 DEF Retires
      <3>4. ASSUME NEW t \in Threads, Busy(t), q = cur[t], r \in late PROVE r = q
        BY <2>2, <3>4 DEF LateIds
      <3> QED BY <3>2, <3>3, <3>4 DEF Retires
    <2>3. ASSUME NEW t \in Threads, NEW r \in late', Busy(t)' PROVE cur'[t].id # r.id
      <3>1. Busy(t) /\ cur'[t] = cur[t]
        BY <2>3 DEF Moves
      <3>2. CASE r \in late
        BY <3>1, <3>2 DEF LateIds
      <3>3. ASSUME NEW u \in Threads, Busy(u), r = cur[u], ~Busy(u)' PROVE cur'[t].id # r.id
        BY <2>3, <3>1, <3>3 DEF ThreadIds
      <3> QED BY <3>2, <3>3 DEF Retires
    <2> QED BY <2>1, <2>2, <2>3 DEF LateIds
  <1>MovesQueue.
      ASSUME Types, Types', QueueIds, Moves, \A s \in Streams : \E d \in {0, 1} : Follows(s, d)
      PROVE  QueueIds'
    <2> USE <1>MovesQueue
    <2>0. \A s \in Streams : DOMAIN queue'[s] = 1 .. Len(queue'[s]) /\ Len(queue'[s]) \in Nat
      BY SMT DEF Types
    <2>1. ASSUME NEW s \in Streams, NEW i \in DOMAIN queue'[s]
          PROVE  \E j \in DOMAIN queue[s] : queue'[s][i].id = queue[s][j].id
      BY DEF Follows
    <2>2. ASSUME NEW s \in Streams, NEW r \in Streams, NEW i \in DOMAIN queue'[s],
                 NEW j \in DOMAIN queue'[r], queue'[s][i].id = queue'[r][j].id
          PROVE  s = r /\ i = j
      <3>1. s = r
        BY <2>1, <2>2, SMT DEF QueueIds
      <3>2. PICK d \in {0, 1} : Follows(s, d)
        OBVIOUS
      <3>3. /\ i + d \in DOMAIN queue[s] /\ queue'[s][i].id = queue[s][i + d].id
            /\ j + d \in DOMAIN queue[s] /\ queue'[s][j].id = queue[s][j + d].id
        BY <3>1, <3>2 DEF Follows
      <3>4. i + d = j + d
        BY <2>2, <3>1, <3>3, SMT DEF QueueIds
      <3>5. i \in Nat /\ j \in Nat
        BY <2>0, SMT
      <3> QED BY <3>1, <3>4, <3>5, SMT
    <2>3. ASSUME NEW t \in Threads, pc'[t] \in {"find", "send"}, NEW s \in Streams,
                 NEW i \in DOMAIN queue'[s]
          PROVE  queue'[s][i].id # cur'[t].id
      <3>1. Busy(t)'
        BY <2>3, SMT DEF Busy
      <3>2. cur'[t] = cur[t] /\ pc[t] \in {"find", "send"}
        BY <2>3, <3>1 DEF Moves
      <3> QED BY <2>1, <3>2, SMT DEF QueueIds
    <2>4. \A s \in Streams : \A i \in DOMAIN queue'[s] : queue'[s][i].id \in 1 .. nops'
      BY <2>1, SMT DEF QueueIds, Moves
    <2> QED BY <2>2, <2>3, <2>4 DEF QueueIds, Streams
  <1>SendIds.
      ASSUME IInv, ThreadIds, QueueIds, Moves, NEW t \in Threads, Send(t), str[t] \notin broken
      PROVE  QueueIds'
    <2> USE <1>SendIds
    <2>0. pc[t] = "send" /\ pc'[t] = "lock_read" /\ Types /\ cur' = cur
      BY DEF IInv, Types, Send
    <2>1. Busy(t) /\ pc[t] \in {"find", "send"}
      BY <2>0, SMT DEF Busy
    <2> DEFINE s0 == str[t]
               n == Len(queue[s0]) + 1
    <2>2. /\ s0 \in Streams /\ DOMAIN queue'[s0] = 1 .. n /\ n \in Nat
          /\ DOMAIN queue[s0] = 1 .. (n - 1)
          /\ queue'[s0][n] = [by |-> t, id |-> cur[t].id, kind |-> cur[t].kind,
                              path |-> cur[t].path, served |-> FALSE]
          /\ \A i \in DOMAIN queue[s0] : queue'[s0][i] = queue[s0][i]
          /\ \A s \in Streams : s # s0 => queue'[s] = queue[s]
      BY SendEffect
    <2> HIDE DEF s0, n
    <2>3. queue'[s0][n].id = cur[t].id
      BY <2>2, SMT
    <2>4. ASSUME NEW s \in Streams, NEW i \in DOMAIN queue'[s]
          PROVE  \/ s = s0 /\ i = n
                 \/ i \in DOMAIN queue[s] /\ queue'[s][i] = queue[s][i]
      <3>1. CASE s = s0
        <4>1. \A j \in 1 .. n : j = n \/ j \in 1 .. (n - 1)
          BY <2>2, SMT
        <4> QED BY <2>2, <3>1, <4>1
      <3>2. CASE s # s0
        BY <2>2, <3>2
      <3> QED BY <3>1, <3>2
    <2>5. \A s \in Streams : \A i \in DOMAIN queue[s] : queue[s][i].id # cur[t].id
      BY <2>1 DEF QueueIds
    <2>6. nops' = nops /\ cur[t].id \in 1 .. nops
      BY <2>1 DEF Moves, ThreadIds
    <2>7. \A s \in Streams : \A i \in DOMAIN queue'[s] : queue'[s][i].id \in 1 .. nops'
      BY <2>3, <2>4, <2>6, SMT DEF QueueIds
    <2>8. ASSUME NEW s \in Streams, NEW r \in Streams, NEW i \in DOMAIN queue'[s],
                 NEW j \in DOMAIN queue'[r], queue'[s][i].id = queue'[r][j].id
          PROVE  s = r /\ i = j
      BY <2>3, <2>4, <2>5, <2>8, SMT DEF QueueIds
    <2>9. ASSUME NEW u \in Threads, pc'[u] \in {"find", "send"}, NEW s \in Streams,
                 NEW i \in DOMAIN queue'[s]
          PROVE  queue'[s][i].id # cur'[u].id
      <3>1. pc[u] \in {"find", "send"} /\ u # t /\ Busy(u)
        <4>1. "lock_read" \notin {"find", "send"}
          BY SMT
        <4>2. pc[u] \in {"find", "send"} => Busy(u)
          BY SMT DEF Busy
        <4> QED BY <2>0, <2>9, <4>1, <4>2 DEF Moves
      <3>2. cur[u].id # cur[t].id
        BY <2>1, <3>1 DEF ThreadIds
      <3>3. \A j \in DOMAIN queue[s] : queue[s][j].id # cur[u].id
        BY <3>1 DEF QueueIds
      <3> QED BY <2>0, <2>3, <2>4, <3>2, <3>3, SMT
    <2> QED BY <2>7, <2>8, <2>9 DEF QueueIds, Streams
  \* An operation begins with the next number.
  <1>BeginIds.
      ASSUME IInv, IdInv, NEW t \in Threads, NEW kind, NEW h, NEW p, NEW next,
             Begin(t, kind, h, p, next), UNCHANGED <<queue, log, late, retried>>,
             DOMAIN rpc' = Threads
      PROVE  IdInv'
    <2> USE <1>BeginIds
    <2> DEFINE w == nops + 1
    <2>1. /\ DOMAIN pc = Threads /\ DOMAIN cur = Threads /\ nops \in Nat /\ ~Busy(t)
          /\ pc' = [pc EXCEPT ![t] = next] /\ nops' = w
          /\ cur' = [cur EXCEPT ![t] = [kind |-> kind, handle |-> h, path |-> p, id |-> w]]
      BY DEF IInv, Types, Begin, Busy
    <2>2. 1 .. nops \subseteq 1 .. w /\ w \notin 1 .. nops /\ w \in 1 .. w
      BY <2>1, SMT
    <2> HIDE DEF w
    <2>3. /\ cur'[t].id = w
          /\ \A u \in Threads : u # t => pc'[u] = pc[u] /\ cur'[u] = cur[u] /\ Busy(u)' = Busy(u)
      BY <2>1 DEF Busy
    <2>4. pc[t] = "idle"
      BY <2>1 DEF Busy
    <2>5. /\ retried \subseteq 1 .. nops
          /\ \A r \in late : r.id \in 1 .. nops
          /\ \A s \in Streams : \A i \in DOMAIN queue[s] : queue[s][i].id \in 1 .. nops
          /\ \A u \in Threads : Busy(u) => cur[u].id \in 1 .. nops
      BY DEF IdInv, ThreadIds, LateIds, QueueIds
    <2>6. ThreadIds'
      <3>1. ASSUME NEW u \in Threads PROVE Busy(u)' => cur'[u].id \in 1 .. w
        BY <2>2, <2>3, <2>5
      <3>2. ASSUME NEW u \in Threads, NEW v \in Threads, u # v, Busy(u)', Busy(v)'
            PROVE  cur'[u].id # cur'[v].id
        <4>1. CASE u # t /\ v # t
          BY <2>3, <3>2, <4>1 DEF IdInv, ThreadIds
        <4>2. CASE u = t \/ v = t
          BY <2>2, <2>3, <2>5, <3>2, <4>2
        <4> QED BY <4>1, <4>2
      <3>3. ASSUME NEW u \in Threads, pc'[u] \in OnStream PROVE cur'[u].id \notin retried
        <4>1. CASE u = t
          BY <2>2, <2>3, <2>5, <4>1
        <4>2. CASE u # t
          BY <2>3, <3>3, <4>2 DEF IdInv, ThreadIds, OnStream
        <4> QED BY <4>1, <4>2
      <3> QED BY <2>1, <2>2, <2>5, <3>1, <3>2, <3>3 DEF ThreadIds, OnStream, Using
    <2>7. LateIds'
      <3>1. ASSUME NEW u \in Threads, NEW r \in late, Busy(u)' PROVE cur'[u].id # r.id
        <4>1. CASE u = t
          BY <2>2, <2>3, <2>5, <4>1
        <4>2. CASE u # t
          BY <2>3, <3>1, <4>2 DEF IdInv, LateIds
        <4> QED BY <4>1, <4>2
      <3> QED BY <2>1, <2>2, <3>1 DEF IdInv, LateIds
    <2>8. QueueIds'
      <3>1. ASSUME NEW u \in Threads, pc'[u] \in {"find", "send"}, NEW s \in Streams,
                   NEW i \in DOMAIN queue[s]
            PROVE  queue[s][i].id # cur'[u].id
        <4>1. CASE u = t
          BY <2>2, <2>3, <2>5, <4>1
        <4>2. CASE u # t
          <5>1. pc[u] \in {"find", "send"} /\ cur'[u] = cur[u]
            BY <2>3, <3>1, <4>2
          <5>2. \A r \in Streams : \A j \in DOMAIN queue[r] : queue[r][j].id # cur[u].id
            BY <5>1 DEF IdInv, QueueIds
          <5> QED BY <5>1, <5>2, SMT
        <4> QED BY <4>1, <4>2
      <3>2. queue' = queue /\ \A s \in Streams : \A i \in DOMAIN queue[s] : queue[s][i].id \in 1 .. w
        BY <2>2, <2>5
      <3>3. \A s, r \in Streams : \A i \in DOMAIN queue[s], j \in DOMAIN queue[r] :
              queue[s][i].id = queue[r][j].id => s = r /\ i = j
        BY DEF IdInv, QueueIds
      <3> QED BY ONLY <2>1, <3>1, <3>2, <3>3, SMT DEF QueueIds
    <2>9. LogIds'
      BY <2>1, <2>2 DEF IdInv, LogIds
    <2> QED BY <2>6, <2>7, <2>8, <2>9 DEF IdInv
  <1> SUFFICES ASSUME IInv, IInv', HandleInv, IdInv, [Next]_vars PROVE IdInv'
    OBVIOUS
  <1>0. /\ Types /\ Types' /\ nops \in Nat /\ DOMAIN rpc = Threads
        /\ ThreadIds /\ LateIds /\ QueueIds /\ LogIds
    BY DEF IInv, Types, IdInv
  <1>1. ASSUME Moves, Retires, \A s \in Streams : \E d \in {0, 1} : Follows(s, d), LogIds',
               DOMAIN rpc' = Threads
        PROVE  IdInv'
    BY <1>0, <1>1, <1>MovesThreads, <1>MovesLate, <1>MovesQueue DEF IdInv
  <1>2. queue' = queue => \A s \in Streams : \E d \in {0, 1} : Follows(s, d)
    BY <1>0, FollowsSame
  <1>3. nops' = nops /\ log' = log => LogIds'
    BY <1>0 DEF LogIds
  <1>4. late' \subseteq late => Retires
    BY DEF Retires
  <1>5. CASE UNCHANGED vars
    BY <1>0, <1>1, <1>2, <1>3, <1>4, <1>5, QuietMoves DEF vars, threadVars, streamVars, history
  <1>6. ASSUME NEW s \in Streams, Break(s) PROVE IdInv'
    BY <1>0, <1>1, <1>2, <1>3, <1>4, <1>6, QuietMoves DEF Break, threadVars, history
  <1>7. ASSUME NEW s \in Streams, Serve(s) PROVE IdInv'
    <2>1. Moves /\ Retires /\ nops' = nops /\ rpc' = rpc
      BY <1>4, <1>7, QuietMoves DEF Serve, threadVars, history
    <2>2. PICK i \in DOMAIN queue[s] :
             /\ queue[s][i] \in Messages
             /\ log' = IF queue[s][i].kind = "write"
                       THEN [log EXCEPT ![queue[s][i].path] = Append(@, queue[s][i].id)]
                       ELSE log
      BY <1>7, FollowsServe
    <2>3. \A r \in Streams : Follows(r, 0)
      BY <1>7, FollowsServe
    <2>4. queue[s][i].path \in Paths /\ queue[s][i].id \in 1 .. nops
      BY <1>0, <2>2 DEF Messages, QueueIds
    <2>5. LogIds'
      BY <1>0, <1>3, <2>1, <2>2, <2>4, LogAppend
    <2> QED BY <1>0, <1>1, <2>1, <2>3, <2>5
  <1>8. ASSUME NEW r \in late, ServeLate(r) PROVE IdInv'
    <2>1. Moves /\ Retires /\ nops' = nops /\ rpc' = rpc /\ queue' = queue
      BY <1>4, <1>8, QuietMoves DEF ServeLate, threadVars, streamVars, history
    <2>2. LogIds'
      BY <1>0, <1>8, <2>1, LogAppend DEF LateIds, ServeLate
    <2> QED BY <1>0, <1>1, <1>2, <2>1, <2>2
  <1>9. ASSUME NEW t \in Threads, ServeUnary(t) PROVE IdInv'
    <2>1. Moves /\ Retires /\ nops' = nops /\ queue' = queue /\ DOMAIN rpc' = Threads
      BY <1>0, <1>4, <1>9, QuietMoves DEF ServeUnary, streamVars, history
    <2>2. Busy(t)
      BY <1>9, SMT DEF ServeUnary, Busy
    <2>3. cur[t].path \in Paths /\ cur[t].id \in 1 .. nops
      BY <1>0, <2>2 DEF HandleInv, Handled, ThreadIds
    <2>4. LogIds'
      BY <1>0, <1>3, <1>9, <2>1, <2>3, LogAppend DEF ServeUnary
    <2> QED BY <1>1, <1>2, <2>1, <2>4
  <1>10. ASSUME NEW t \in Threads, ThreadStep(t) \/ UnaryFails(t) PROVE IdInv'
    <2>1. Moves /\ Retires
      BY <1>10, ThreadMoves
    <2>2. log' = log /\ DOMAIN rpc' = Threads
      BY <1>0, <1>10 DEF ThreadStep, Find, Send, LockRead, Receive, ReceiveFails, Dangle, RemoveFind,
            Erase, Create, Removed, Done, UnaryReturns, UnaryFails, threadVars
    <2>3. LogIds'
      BY <1>3, <2>1, <2>2 DEF Moves
    <2>4. CASE Receive(t)
      BY <1>1, <2>1, <2>2, <2>3, <2>4, FollowsReceive
    <2>5. CASE Send(t) /\ str[t] \notin broken
      BY <1>0, <2>1, <2>2, <2>3, <2>5, <1>SendIds, <1>MovesThreads, <1>MovesLate DEF IdInv
    <2>6. CASE ~Receive(t) /\ ~(Send(t) /\ str[t] \notin broken)
      <3>1. queue' = queue
        BY <1>10, <2>6 DEF ThreadStep, Find, Send, LockRead, ReceiveFails, Dangle, RemoveFind, Erase,
              Create, UnaryReturns, UnaryFails, streamVars
      <3> QED BY <1>1, <1>2, <2>1, <2>2, <2>3, <3>1
    <2> QED BY <2>4, <2>5, <2>6
  <1>11. ASSUME NEW t \in Threads, NEW h \in Handles, NEW p \in Paths, NEW m \in Modes,
                Open(t, h, p, m)
         PROVE  IdInv'
    BY <1>0, <1>11, <1>BeginIds DEF Open, streamVars
  <1>12. ASSUME NEW t \in Threads, NEW h \in Handles, Release(t, h) PROVE IdInv'
    BY <1>0, <1>12, <1>BeginIds DEF Release, streamVars
  <1>13. ASSUME NEW t \in Threads, NEW k \in Kinds, NEW h \in Handles, ReadWrite(t, k, h)
         PROVE  IdInv'
    BY <1>0, <1>13, <1>BeginIds DEF ReadWrite, streamVars
  <1> QED BY <1>5, <1>6, <1>7, <1>8, <1>9, <1>10, <1>11, <1>12, <1>13 DEF Next

\* A step of a thread does not touch the operations of the others.
LEMMA ThreadOthers ==
  ASSUME Types, DOMAIN rpc = Threads, NEW t \in Threads,
         ThreadStep(t) \/ UnaryFails(t) \/ ServeUnary(t)
  PROVE  OthersSame(t)
<1> USE DEF OthersSame, Types
<1>1. ASSUME NEW state, Done(t, state), pc' = [pc EXCEPT ![t] = "idle"] PROVE OthersSame(t)
  BY <1>1 DEF Done
<1>2. CASE Receive(t) \/ UnaryFails(t)
  BY <1>1, <1>2 DEF Receive, UnaryFails
<1>3. CASE Find(t) \/ Send(t) \/ LockRead(t) \/ ReceiveFails(t) \/ Dangle(t) \/ ServeUnary(t)
  BY <1>3 DEF Find, Send, LockRead, ReceiveFails, Dangle, ServeUnary, threadVars
<1>4. ASSUME NEW k \in Kinds, RemoveFind(t, k) \/ Erase(t, k) \/ Create(t, k)
      PROVE  OthersSame(t)
  BY <1>1, <1>4 DEF RemoveFind, Erase, Create, Removed
<1>5. CASE UnaryReturns(t)
  BY <1>1, <1>5 DEF UnaryReturns
<1> QED BY <1>2, <1>3, <1>4, <1>5 DEF ThreadStep

LEMMA CreditNext == IInv /\ HandleInv /\ IdInv /\ CreditInv /\ [Next]_vars => CreditInv'
  <1>CountNat.
      ASSUME NEW sq \in Seq(Nat), NEW w
      PROVE  Count(sq, w) \in Nat
    <2> USE <1>CountNat
    <2>1. 0 \in Nat
      BY SMT
    <2> QED BY <2>1, CountAppend
  <1>LogCount.
      ASSUME LogIds, NEW p \in Paths, NEW w
      PROVE  Count(log[p], w) \in Nat
    BY <1>LogCount, <1>CountNat DEF LogIds
  \* Nothing is added for write w.
  <1>Calm.
      ASSUME LogIds, NEW p \in Paths, NEW w, Credit(p, w), Count(log'[p], w) = Count(log[p], w),
             Unserved(w)' => Unserved(w), Pending(w)' => Pending(w), Late(w)' => Late(w),
             w \in retried => w \in retried'
      PROVE  Credit(p, w)'
    <2> USE <1>Calm
    <2>1. Count(log[p], w) \in Nat
      BY <1>LogCount
    <2>2. /\ Count(log'[p], w) = Count(log[p], w)
          /\ Unserved(w)' => Unserved(w)
          /\ Pending(w)' => Pending(w)
          /\ Late(w)' => Late(w)
          /\ w \in retried => w \in retried'
          /\ Credit(p, w)
      OBVIOUS
    <2> QED BY ONLY <2>1, <2>2, SMT DEF Credit, One
  \* The server applies write w: it was to be applied, and no longer is.
  <1>Applies.
      ASSUME LogIds, NEW p \in Paths, NEW w, Credit(p, w), Count(log'[p], w) = Count(log[p], w) + 1,
             Unserved(w)' => Unserved(w), Pending(w)' => Pending(w), Late(w)' => Late(w),
             \/ Unserved(w) /\ ~Unserved(w)'
             \/ Pending(w) /\ ~Pending(w)'
             \/ Late(w) /\ ~Late(w)',
             w \in retried => w \in retried'
      PROVE  Credit(p, w)'
    <2> USE <1>Applies
    <2>1. Count(log[p], w) \in Nat
      BY <1>LogCount
    <2>2. /\ Count(log'[p], w) = Count(log[p], w) + 1
          /\ Unserved(w)' => Unserved(w)
          /\ Pending(w)' => Pending(w)
          /\ Late(w)' => Late(w)
          /\ \/ Unserved(w) /\ ~Unserved(w)'
             \/ Pending(w) /\ ~Pending(w)'
             \/ Late(w) /\ ~Late(w)'
          /\ w \in retried => w \in retried'
          /\ Credit(p, w)
      OBVIOUS
    <2> QED BY ONLY <2>1, <2>2, SMT DEF Credit, One
  \* The thread of a write hands it over, or it is repeated for the first time.
  <1>HandsOver.
      ASSUME LogIds, NEW p \in Paths, NEW w, Credit(p, w), log' = log,
             \/ /\ Pending(w) /\ ~Pending(w)' /\ (w \in retried => w \in retried')
                /\ (Unserved(w)' => Unserved(w)) \/ (Late(w)' => Late(w))
             \/ /\ w \notin retried /\ w \in retried'
                /\ (Unserved(w)' => Unserved(w)) /\ (Late(w)' => Late(w))
      PROVE  Credit(p, w)'
    <2> USE <1>HandsOver
    <2>1. Count(log[p], w) \in Nat /\ Count(log'[p], w) = Count(log[p], w)
      BY <1>LogCount
    <2>2. /\ \/ /\ Pending(w) /\ ~Pending(w)' /\ (w \in retried => w \in retried')
                /\ (Unserved(w)' => Unserved(w)) \/ (Late(w)' => Late(w))
             \/ /\ w \notin retried /\ w \in retried'
                /\ (Unserved(w)' => Unserved(w)) /\ (Late(w)' => Late(w))
          /\ Credit(p, w)
      OBVIOUS
    <2> QED BY ONLY <2>1, <2>2, SMT DEF Credit, One
  <1>PendsBusy. ASSUME NEW t \in Threads PROVE (Pends(t) => Busy(t)) /\ (Pends(t)' => Busy(t)')
    BY <1>PendsBusy, SMT DEF Pends, Busy, RemovePcs
  \* What a step of thread t can change for the pending writes.
  <1>PendingStep.
      ASSUME ThreadIds, Moves, NEW t \in Threads, Busy(t), OthersSame(t), NEW w
      PROVE  /\ w # cur[t].id \/ (Pends(t)' => Pends(t)) => (Pending(w)' => Pending(w))
             /\ w = cur[t].id /\ ~Pends(t)' => ~Pending(w)'
    <2> USE <1>PendingStep
    <2>1. ASSUME NEW u \in Threads, u # t, Pends(u)', cur'[u].id = w
          PROVE  Pending(w) /\ w # cur[t].id
      <3>1. Busy(u) /\ cur'[u] = cur[u]
        BY <2>1, <1>PendsBusy DEF Moves
      <3>2. Pends(u)
        BY <2>1, <3>1 DEF Pends, OthersSame, RemovePcs
      <3> QED BY <2>1, <3>1, <3>2 DEF Pending, ThreadIds
    <2>2. ASSUME Pends(t)', cur'[t].id = w PROVE w = cur[t].id
      BY <2>2, <1>PendsBusy DEF Moves
    <2> QED BY <2>1, <2>2 DEF Pending
  <1>CalmStep.
      ASSUME IdInv, CreditInv, Moves, NEW t \in Threads, Busy(t), OthersSame(t), Pends(t)' => Pends(t),
             \A w : Unserved(w)' => Unserved(w), late' \subseteq late, log' = log,
             retried \subseteq retried'
      PROVE  CreditInv'
    <2> USE <1>CalmStep
    <2>1. nops' = nops /\ LogIds /\ ThreadIds
      BY DEF Moves, IdInv
    <2>2. \A w : Pending(w)' => Pending(w)
      BY <2>1, <1>PendingStep
    <2>3. \A w : Late(w)' => Late(w)
      BY DEF Late
    <2>4. ASSUME NEW p \in Paths, NEW w \in 1 .. nops PROVE Credit(p, w)'
      BY <2>1, <2>2, <2>3, <1>Calm DEF CreditInv
    <2> QED BY <2>1, <2>4 DEF CreditInv
  \* The steps of a thread that neither send a write nor repeat it.
  <1>CalmLabels.
      ASSUME IInv, HandleInv, IdInv, Moves, NEW t \in Threads, ThreadStep(t) \/ UnaryFails(t), ~ReceiveFails(t)
      PROVE  Pends(t)' => Pends(t)
    <2> USE <1>CalmLabels
    <2>0. Types /\ DOMAIN pc = Threads /\ DOMAIN rpc = Threads
      BY DEF IInv, Types, IdInv
    <2>1. SUFFICES ASSUME Pends(t)' PROVE Pends(t)
      OBVIOUS
    <2>2. Busy(t)' /\ cur'[t] = cur[t] /\ cur[t].kind = "write"
      <3>1. Busy(t)' /\ cur'[t] = cur[t]
        BY <2>1, <1>PendsBusy DEF Moves
      <3> QED BY <2>1, <3>1 DEF Pends
    <2>3. pc'[t] # "idle"
      BY <2>2 DEF Busy
    <2>4. /\ pc'[t] \notin {"receive", "create_read", "create_write"}
      BY <2>1, SMT DEF Pends, RemovePcs
    <2>5. CASE pc[t] \in {"find", "send"} \cup RemovePcs
      BY <2>2, <2>5 DEF Pends
    <2>6. CASE Dangle(t)
      BY <2>1, <2>6 DEF Dangle, threadVars, Pends, RemovePcs
    <2>7. CASE LockRead(t) \/ Receive(t) \/ UnaryFails(t)
      BY <2>0, <2>3, <2>4, <2>7 DEF LockRead, Receive, UnaryFails
    <2>8. ASSUME NEW k \in Kinds, Create(t, k) PROVE FALSE
      BY <2>0, <2>3, <2>4, <2>8 DEF Create
    <2>9. CASE UnaryReturns(t)
      BY <2>0, <2>2, <2>3, <2>4, <2>9, SMT DEF UnaryReturns, Kinds, Creating
    <2>10. CASE Find(t) \/ Send(t)
      BY <2>5, <2>10 DEF Find, Send
    <2>11. ASSUME NEW k \in Kinds, RemoveFind(t, k) \/ Erase(t, k) PROVE Pends(t)
      <3>1. Removing(k) \in RemovePcs /\ Erasing(k) \in RemovePcs
        BY SMT DEF Removing, Erasing, RemovePcs
      <3> QED BY <2>5, <2>11, <3>1 DEF RemoveFind, Erase
    <2> QED BY <2>6, <2>7, <2>8, <2>9, <2>10, <2>11 DEF ThreadStep
  <1>UnservedReceive.
      ASSUME IInv, NEW t \in Threads, Receive(t), NEW w, Unserved(w)'
      PROVE  Unserved(w)
    <2> USE <1>UnservedReceive
    <2>1. PICK s \in Streams : \E i \in DOMAIN queue'[s] :
             queue'[s][i].id = w /\ queue'[s][i].kind = "write" /\ ~queue'[s][i].served
      BY DEF Unserved
    <2>2. PICK i \in DOMAIN queue'[s] :
             queue'[s][i].id = w /\ queue'[s][i].kind = "write" /\ ~queue'[s][i].served
      BY <2>1
    <2>3. CASE s = str[t]
      <3>1. i + 1 \in DOMAIN queue[s] /\ queue'[s][i] = queue[s][i + 1]
        BY <2>3, FollowsReceive
      <3> QED BY <2>2, <3>1 DEF Unserved
    <2>4. CASE s # str[t]
      BY <2>2, <2>4, FollowsReceive DEF Unserved
    <2> QED BY <2>3, <2>4
  <1>UnservedSend.
      ASSUME IInv, NEW t \in Threads, Send(t), NEW w, Unserved(w)',
             str[t] \in broken \/ w # cur[t].id \/ cur[t].kind # "write"
      PROVE  Unserved(w)
    <2> USE <1>UnservedSend
    <2>0. CASE str[t] \in broken
      BY <2>0 DEF Send, Unserved
    <2> SUFFICES ASSUME str[t] \notin broken, w # cur[t].id \/ cur[t].kind # "write" PROVE Unserved(w)
      BY <2>0
    <2> DEFINE n == Len(queue[str[t]]) + 1
               m == [by |-> t, id |-> cur[t].id, kind |-> cur[t].kind, path |-> cur[t].path,
                     served |-> FALSE]
    <2>1. /\ DOMAIN queue'[str[t]] = 1 .. n /\ n \in Nat /\ DOMAIN queue[str[t]] = 1 .. (n - 1)
          /\ queue'[str[t]][n] = m
          /\ \A i \in DOMAIN queue[str[t]] : queue'[str[t]][i] = queue[str[t]][i]
          /\ \A s \in Streams : s # str[t] => queue'[s] = queue[s]
      BY SendEffect
    <2>2. m.id = cur[t].id /\ m.kind = cur[t].kind
      BY SMT
    <2> HIDE DEF n, m
    <2>3. \A i \in DOMAIN queue'[str[t]] : i = n \/ i \in DOMAIN queue[str[t]]
      BY ONLY <2>1, SMT
    <2>4. PICK s \in Streams : \E i \in DOMAIN queue'[s] :
             queue'[s][i].id = w /\ queue'[s][i].kind = "write" /\ ~queue'[s][i].served
      BY DEF Unserved
    <2>5. PICK i \in DOMAIN queue'[s] :
             queue'[s][i].id = w /\ queue'[s][i].kind = "write" /\ ~queue'[s][i].served
      BY <2>4
    <2>6. i \in DOMAIN queue[s] /\ queue'[s][i] = queue[s][i]
      BY <2>1, <2>2, <2>3, <2>5
    <2> QED BY <2>5, <2>6 DEF Unserved
  <1>CreditThread.
      ASSUME IInv, HandleInv, IdInv, CreditInv, NEW t \in Threads, ThreadStep(t) \/ UnaryFails(t)
      PROVE  CreditInv'
    <2> USE <1>CreditThread
    <2>0. /\ Types /\ DOMAIN rpc = Threads /\ ThreadIds /\ LogIds /\ Moves /\ OthersSame(t)
          /\ nops' = nops
      BY ThreadMoves, ThreadOthers DEF IInv, IdInv, Moves
    <2>1. Busy(t)
      <3>1. \A k \in Kinds : Removing(k) # "idle" /\ Erasing(k) # "idle" /\ Creating(k) # "idle"
        BY SMT DEF Removing, Erasing, Creating
      <3>2. \A k \in Kinds : RemoveFind(t, k) \/ Erase(t, k) \/ Create(t, k) => Busy(t)
        BY <3>1 DEF RemoveFind, Erase, Create, Busy
      <3>3. Find(t) \/ Send(t) \/ LockRead(t) \/ Receive(t) \/ ReceiveFails(t) \/ Dangle(t) => Busy(t)
        BY DEF Find, Send, LockRead, Receive, ReceiveFails, Dangle, Busy
      <3>4. UnaryReturns(t) \/ UnaryFails(t) => Busy(t)
        BY DEF UnaryReturns, UnaryFails, Busy
      <3> QED BY <3>2, <3>3, <3>4 DEF ThreadStep
    <2>2. \A w : w # cur[t].id => (Pending(w)' => Pending(w))
      BY <2>0, <2>1, <1>PendingStep
    <2>3. queue' = queue => \A w : Unserved(w)' => Unserved(w)
      BY DEF Unserved
    <2>4. late' = late => \A w : Late(w)' => Late(w)
      BY DEF Late
    <2>5. CASE ReceiveFails(t)
      <3>1. log' = log /\ queue' = queue /\ late' = late /\ retried' = retried \cup {cur[t].id}
        BY <2>5 DEF ReceiveFails
      <3>2. cur[t].id \notin retried
        BY <2>0, <2>5 DEF ReceiveFails, ThreadIds, Using
      <3>3. ASSUME NEW p \in Paths, NEW w \in 1 .. nops, w = cur[t].id PROVE Credit(p, w)'
        BY <2>0, <2>3, <2>4, <3>1, <3>2, <3>3, <1>HandsOver DEF CreditInv
      <3>4. ASSUME NEW p \in Paths, NEW w \in 1 .. nops, w # cur[t].id PROVE Credit(p, w)'
        BY <2>0, <2>2, <2>3, <2>4, <3>1, <3>4, <1>Calm DEF CreditInv
      <3> QED BY <2>0, <3>3, <3>4 DEF CreditInv
    <2>6. ASSUME ~ReceiveFails(t), \A w : Unserved(w)' => Unserved(w), late' \subseteq late, log' = log,
                 retried \subseteq retried'
          PROVE  CreditInv'
      BY <2>0, <2>1, <2>6, <1>CalmLabels, <1>CalmStep
    <2>7. CASE Send(t)
      <3>1. log' = log /\ late' = late /\ retried \subseteq retried' /\ ~ReceiveFails(t)
        BY <2>7, SMT DEF Send, ReceiveFails
      <3>2. CASE str[t] \in broken \/ cur[t].kind # "write"
        BY <2>6, <2>7, <3>1, <3>2, <1>UnservedSend
      <3>3. CASE str[t] \notin broken /\ cur[t].kind = "write"
        <4>1. pc'[t] = "lock_read" /\ pc[t] = "send"
          BY <2>0, <2>7, <3>3 DEF Send, Types
        <4>2. Pends(t) /\ ~Pends(t)'
          BY ONLY <3>3, <4>1, SMT DEF Pends, RemovePcs
        <4>3. ASSUME NEW p \in Paths, NEW w \in 1 .. nops, w = cur[t].id PROVE Credit(p, w)'
          <5>1. Pending(w) /\ ~Pending(w)'
            <6>1. Pending(w)
              BY <4>2, <4>3 DEF Pending
            <6> QED BY <2>0, <2>1, <4>2, <4>3, <6>1, <1>PendingStep
          <5> QED BY <2>0, <2>4, <3>1, <5>1, <1>HandsOver DEF CreditInv
        <4>4. ASSUME NEW p \in Paths, NEW w \in 1 .. nops, w # cur[t].id PROVE Credit(p, w)'
          BY <2>0, <2>2, <2>4, <2>7, <3>1, <4>4, <1>UnservedSend, <1>Calm DEF CreditInv
        <4> QED BY <2>0, <4>3, <4>4 DEF CreditInv
      <3> QED BY <3>2, <3>3
    <2>8. CASE UnaryFails(t)
      <3>0. pc[t] = "rpc" /\ log' = log /\ queue' = queue /\ retried' = retried
        BY <2>8 DEF UnaryFails, streamVars
      <3>1. log' = log /\ queue' = queue /\ retried' = retried /\ ~ReceiveFails(t)
        BY <3>0, "rpc" # "receive" DEF ReceiveFails
      <3>2. CASE late' = late
        BY <2>3, <2>6, <3>1, <3>2
      <3>3. CASE late' # late
        <4>1. late' = late \cup {cur[t]} /\ cur[t].kind = "write" /\ rpc[t] = "sent"
              /\ pc[t] = "rpc" /\ pc'[t] = "idle"
          BY <2>0, <2>8, <3>3 DEF UnaryFails, Types
        <4>2. Pends(t) /\ ~Pends(t)'
          BY <4>1, SMT DEF Pends, RemovePcs
        <4>3. ASSUME NEW p \in Paths, NEW w \in 1 .. nops, w = cur[t].id PROVE Credit(p, w)'
          <5>1. Pending(w) /\ ~Pending(w)'
            <6>1. Pending(w)
              BY <4>2, <4>3 DEF Pending
            <6> QED BY <2>0, <2>1, <4>2, <4>3, <6>1, <1>PendingStep
          <5> QED BY <2>0, <2>3, <3>1, <5>1, <1>HandsOver DEF CreditInv
        <4>4. ASSUME NEW p \in Paths, NEW w \in 1 .. nops, w # cur[t].id PROVE Credit(p, w)'
          <5>1. Late(w)' => Late(w)
            BY <4>1, <4>4 DEF Late
          <5> QED BY <2>0, <2>2, <2>3, <3>1, <4>4, <5>1, <1>Calm DEF CreditInv
        <4> QED BY <2>0, <4>3, <4>4 DEF CreditInv
      <3> QED BY <3>2, <3>3
    <2>9. CASE Receive(t)
      <3>1. log' = log /\ late' = late /\ retried' = retried
        BY <2>9 DEF Receive
      <3>2. CASE ReceiveFails(t)
        BY <2>5, <3>2
      <3> QED BY <2>6, <2>9, <3>1, <3>2, <1>UnservedReceive
    <2>10. ASSUME queue' = queue, late' = late, log' = log, retried' = retried PROVE CreditInv'
      BY <2>3, <2>5, <2>6, <2>10
    <2>11. CASE Find(t) \/ LockRead(t) \/ Dangle(t) \/ UnaryReturns(t)
      BY <2>10, <2>11 DEF Find, LockRead, Dangle, UnaryReturns, streamVars, history
    <2>12. ASSUME NEW k \in Kinds, RemoveFind(t, k) \/ Erase(t, k) \/ Create(t, k) PROVE CreditInv'
      BY <2>10, <2>12 DEF RemoveFind, Erase, Create, streamVars, history
    <2> QED BY <2>5, <2>7, <2>8, <2>9, <2>11, <2>12 DEF ThreadStep
  \* The server applies write w to file q.
  <1>ApplyStep.
      ASSUME LogIds, CreditInv, nops \in Nat, nops' = nops, retried' = retried,
             NEW q \in Paths, NEW x \in 1 .. nops, log' = [log EXCEPT ![q] = Append(@, x)],
             \A w : /\ Unserved(w)' => Unserved(w)
                    /\ Pending(w)' => Pending(w)
                    /\ Late(w)' => Late(w),
             \/ Unserved(x) /\ ~Unserved(x)'
             \/ Pending(x) /\ ~Pending(x)'
             \/ Late(x) /\ ~Late(x)'
      PROVE  CreditInv'
    <2> USE <1>ApplyStep
    <2>1. /\ log[q] \in Seq(Nat) /\ log'[q] = Append(log[q], x)
          /\ \A p \in Paths : p # q => log'[p] = log[p]
      BY LogAppend
    <2>2. x \in Nat
      BY SMT
    <2>3. Count(log'[q], x) = Count(log[q], x) + 1
      <3>1. Count(Append(log[q], x), x) = Count(log[q], x) + (IF x = x THEN 1 ELSE 0)
        BY ONLY <2>1, <2>2, CountAppend, SMT
      <3> QED BY <2>1, <3>1, SMT
    <2>4. ASSUME NEW w, w # x PROVE Count(log'[q], w) = Count(log[q], w)
      <3>1. /\ Count(Append(log[q], x), w) = Count(log[q], w) + (IF w = x THEN 1 ELSE 0)
            /\ Count(log[q], w) \in Nat
        BY ONLY <2>1, <2>2, CountAppend, SMT
      <3> QED BY ONLY <2>1, <2>4, <3>1, SMT
    <2>5. ASSUME NEW p \in Paths, NEW w \in 1 .. nops PROVE Credit(p, w)'
      <3>1. Credit(p, w)
        BY DEF CreditInv
      <3>2. CASE p = q /\ w = x
        BY <2>3, <3>1, <3>2, <1>Applies
      <3>3. CASE ~(p = q /\ w = x)
        <4>1. Count(log'[p], w) = Count(log[p], w)
          BY <2>1, <2>4, <3>3
        <4> QED BY <3>1, <4>1, <1>Calm
      <3> QED BY <3>2, <3>3
    <2> QED BY <2>5 DEF CreditInv
  <1>CreditServeUnary.
      ASSUME IInv, HandleInv, IdInv, CreditInv, NEW t \in Threads, ServeUnary(t)
      PROVE  CreditInv'
    <2> USE <1>CreditServeUnary
    <2>0. /\ Types /\ DOMAIN rpc = Threads /\ ThreadIds /\ LogIds /\ OthersSame(t) /\ nops \in Nat
          /\ UNCHANGED <<pc, cur, nops, retried, queue, late>>
          /\ pc[t] = "rpc" /\ rpc[t] = "sent" /\ Moves
      BY ThreadOthers, QuietMoves DEF IInv, Types, IdInv, ServeUnary, streamVars, history
    <2>1. Busy(t)
      BY <2>0, SMT DEF Busy
    <2>2. rpc'[t] # "sent"
      <3>1. PICK answer \in {"ok", "refused", "eperm"} : rpc' = [rpc EXCEPT ![t] = answer]
        BY DEF ServeUnary
      <3>2. rpc'[t] = answer
        BY <2>0, <3>1
      <3> QED BY ONLY <3>2, SMT
    <2>3. ~Pends(t)'
      BY <2>0, <2>2, SMT DEF Pends, RemovePcs
    <2>4. \A w : /\ Unserved(w)' => Unserved(w)
                 /\ Pending(w)' => Pending(w)
                 /\ Late(w)' => Late(w)
      BY <2>0, <2>1, <2>3, <1>PendingStep DEF Unserved, Late
    <2>5. CASE cur[t].kind = "write"
      <3>1. cur[t].path \in Paths /\ cur[t].id \in 1 .. nops
        BY <2>0, <2>1 DEF HandleInv, Handled, ThreadIds
      <3>2. Pending(cur[t].id)
        BY <2>0, <2>5 DEF Pending, Pends
      <3>3. \A w : w = cur[t].id => ~Pending(w)'
        BY <2>0, <2>1, <2>3, <1>PendingStep
      <3>4. PICK x \in 1 .. nops : x = cur[t].id
        BY <3>1
      <3>5. log' = [log EXCEPT ![cur[t].path] = Append(@, x)]
        BY <2>5, <3>4 DEF ServeUnary
      <3>6. Pending(x) /\ ~Pending(x)'
        BY <3>2, <3>3, <3>4
      <3> QED BY <2>0, <2>4, <3>1, <3>5, <3>6, <1>ApplyStep
    <2>6. CASE cur[t].kind # "write"
      <3>1. log' = log
        BY <2>6 DEF ServeUnary
      <3>2. ASSUME NEW p \in Paths, NEW w \in 1 .. nops PROVE Credit(p, w)'
        BY <2>0, <2>4, <3>1, <1>Calm DEF CreditInv
      <3> QED BY <2>0, <3>2 DEF CreditInv
    <2> QED BY <2>5, <2>6
  <1>CreditServe.
      ASSUME IInv, IdInv, CreditInv, NEW s \in Streams, Serve(s)
      PROVE  CreditInv'
    <2> USE <1>CreditServe
    <2>0. /\ Types /\ LogIds /\ QueueIds /\ nops \in Nat
          /\ UNCHANGED <<pc, cur, rpc, nops, retried, late>>
      BY DEF IInv, Types, IdInv, Serve, threadVars, history
    <2>1. PICK i \in DOMAIN queue[s] :
             /\ queue[s][i] \in Messages /\ ~queue[s][i].served
             /\ queue'[s][i] = [queue[s][i] EXCEPT !.served = TRUE]
             /\ \A j \in DOMAIN queue[s] : j # i => queue'[s][j] = queue[s][j]
             /\ log' = IF queue[s][i].kind = "write"
                       THEN [log EXCEPT ![queue[s][i].path] = Append(@, queue[s][i].id)]
                       ELSE log
      BY FollowsServe
    <2>2. DOMAIN queue'[s] = DOMAIN queue[s] /\ \A r \in Streams : r # s => queue'[r] = queue[r]
      BY FollowsServe
    <2>3. queue'[s][i].served
      BY <2>1, SMT DEF Messages
    <2>4. ASSUME NEW r \in Streams, NEW j \in DOMAIN queue'[r], ~queue'[r][j].served
          PROVE  j \in DOMAIN queue[r] /\ queue'[r][j] = queue[r][j] /\ ~(r = s /\ j = i)
      BY <2>1, <2>2, <2>3, <2>4
    <2>5. ASSUME NEW w, Unserved(w)'
          PROVE  Unserved(w) /\ w # queue[s][i].id
      <3>1. PICK r \in Streams : \E j \in DOMAIN queue'[r] :
               queue'[r][j].id = w /\ queue'[r][j].kind = "write" /\ ~queue'[r][j].served
        BY <2>5 DEF Unserved
      <3>2. PICK j \in DOMAIN queue'[r] :
               queue'[r][j].id = w /\ queue'[r][j].kind = "write" /\ ~queue'[r][j].served
        BY <3>1
      <3>3. j \in DOMAIN queue[r] /\ queue'[r][j] = queue[r][j] /\ ~(r = s /\ j = i)
        BY <2>4, <3>2
      <3>4. Unserved(w)
        BY <3>2, <3>3 DEF Unserved
      <3>5. queue[r][j].id = queue[s][i].id => r = s /\ j = i
        BY ONLY <2>0, <3>3, i \in DOMAIN queue[s], SMT DEF QueueIds
      <3> QED BY <3>2, <3>3, <3>4, <3>5
    <2>6. \A w : /\ Unserved(w)' => Unserved(w)
                 /\ Pending(w)' => Pending(w)
                 /\ Late(w)' => Late(w)
      BY <2>0, <2>5 DEF Pending, Pends, Late
    <2>7. CASE queue[s][i].kind = "write"
      <3>1. queue[s][i].path \in Paths
        BY <2>1, SMT DEF Messages
      <3>2. PICK x \in 1 .. nops : x = queue[s][i].id
        BY <2>0 DEF QueueIds
      <3>3. log' = [log EXCEPT ![queue[s][i].path] = Append(@, x)]
        BY <2>1, <2>7, <3>2
      <3>4. Unserved(x)
        BY <2>1, <2>7, <3>2 DEF Unserved
      <3>5. ~Unserved(x)'
        BY <2>5, <3>2
      <3> QED BY <2>0, <2>6, <3>1, <3>3, <3>4, <3>5, <1>ApplyStep
    <2>8. CASE queue[s][i].kind # "write"
      <3>1. log' = log
        BY <2>1, <2>8
      <3>2. ASSUME NEW p \in Paths, NEW w \in 1 .. nops PROVE Credit(p, w)'
        BY <2>0, <2>6, <3>1, <1>Calm DEF CreditInv
      <3> QED BY <2>0, <3>2 DEF CreditInv
    <2> QED BY <2>7, <2>8
  <1>CreditLate.
      ASSUME IInv, IdInv, CreditInv, NEW r \in late, ServeLate(r)
      PROVE  CreditInv'
    <2> USE <1>CreditLate
    <2>0. /\ LogIds /\ LateIds /\ nops \in Nat
          /\ UNCHANGED <<pc, cur, rpc, queue, nops, retried>>
          /\ late' = late \ {r} /\ log' = [log EXCEPT ![r.path] = Append(@, r.id)]
      BY DEF IInv, Types, IdInv, ServeLate, threadVars, streamVars, history
    <2>1. \A w : /\ Unserved(w)' => Unserved(w)
                 /\ Pending(w)' => Pending(w)
                 /\ Late(w)' => Late(w)
      BY <2>0 DEF Unserved, Pending, Pends, Late
    <2>2. PICK x \in 1 .. nops : x = r.id
      BY <2>0 DEF LateIds
    <2>3. Late(x) /\ ~Late(x)'
      BY <2>0, <2>2 DEF Late, LateIds
    <2>4. r.path \in Paths /\ log' = [log EXCEPT ![r.path] = Append(@, x)]
      BY <2>0, <2>2 DEF LateIds
    <2> QED BY <2>0, <2>1, <2>3, <2>4, <1>ApplyStep
  \* A new operation has a number that nothing carries.
  <1>CreditBegin.
      ASSUME IInv, IdInv, CreditInv, NEW t \in Threads, NEW kind, NEW h, NEW p0, NEW next,
             Begin(t, kind, h, p0, next), UNCHANGED <<queue, log, late, retried>>,
             \A u \in Threads : u # t => rpc'[u] = rpc[u]
      PROVE  CreditInv'
    <2> USE <1>CreditBegin
    <2>0. /\ Types /\ LogIds /\ QueueIds /\ LateIds /\ nops \in Nat /\ nops' = nops + 1
          /\ DOMAIN pc = Threads /\ DOMAIN cur = Threads
          /\ pc' = [pc EXCEPT ![t] = next]
          /\ cur' = [cur EXCEPT ![t] = [kind |-> kind, handle |-> h, path |-> p0, id |-> nops + 1]]
      BY DEF IInv, Types, IdInv, Begin
    <2>1. \A u \in Threads : u # t => pc'[u] = pc[u] /\ cur'[u] = cur[u]
      BY <2>0
    <2>2. cur'[t].id = nops + 1
      BY <2>0, SMT
    <2>3. nops + 1 \notin 1 .. nops /\ \A w \in 1 .. nops' : w \in 1 .. nops \/ w = nops + 1
      BY <2>0, SMT
    <2>4. \A w : (Unserved(w)' => Unserved(w)) /\ (Late(w)' => Late(w))
      BY DEF Unserved, Late
    <2>5. ASSUME NEW w \in 1 .. nops PROVE Pending(w)' => Pending(w)
      BY <2>1, <2>2, <2>3 DEF Pending, Pends, RemovePcs
    <2>6. ASSUME NEW p \in Paths, NEW w \in 1 .. nops PROVE Credit(p, w)'
      BY <2>0, <2>4, <2>5, <1>Calm DEF CreditInv
    <2>7. ASSUME NEW p \in Paths, NEW w, w = nops + 1 PROVE Credit(p, w)'
      <3>1. ~Unserved(w)' /\ ~Late(w)'
        <4>1. ~Unserved(w) /\ ~Late(w)
          <5>1. ~Unserved(w)
            BY ONLY <2>0, <2>3, <2>7, SMT DEF Unserved, QueueIds
          <5> QED BY <2>0, <2>3, <2>7, <5>1 DEF Late, LateIds
        <4> QED BY <2>4, <4>1
      <3>2. Count(log'[p], w) = 0
        <4>1. log[p] \in Seq(Nat) /\ ~ \E i \in DOMAIN log[p] : log[p][i] = w
          BY <2>0, <2>3, <2>7 DEF LogIds
        <4>2. Count(log[p], w) \in Nat /\ ~(Count(log[p], w) >= 1)
          <5>1. 0 \in Nat
            BY SMT
          <5> QED BY <4>1, <5>1, CountAppend
        <4>3. Count(log[p], w) = 0
          BY ONLY <4>2, SMT
        <4> QED BY <4>3
      <3> QED BY ONLY <3>1, <3>2, SMT DEF Credit, One
    <2> QED BY <2>3, <2>6, <2>7 DEF CreditInv
  <1> SUFFICES ASSUME IInv, HandleInv, IdInv, CreditInv, [Next]_vars PROVE CreditInv'
    OBVIOUS
  <1>0. DOMAIN rpc = Threads /\ LogIds
    BY DEF IdInv
  <1>1. ASSUME UNCHANGED <<pc, cur, rpc, queue, log, late, nops, retried>> PROVE CreditInv'
    <2>1. \A w : /\ Unserved(w)' => Unserved(w)
                 /\ Pending(w)' => Pending(w)
                 /\ Late(w)' => Late(w)
      BY <1>1 DEF Unserved, Pending, Pends, Late
    <2>2. ASSUME NEW p \in Paths, NEW w \in 1 .. nops PROVE Credit(p, w)'
      BY <1>0, <1>1, <2>1, <1>Calm DEF CreditInv
    <2> QED BY <1>1, <2>2 DEF CreditInv
  <1>2. CASE UNCHANGED vars
    BY <1>1, <1>2 DEF vars, threadVars, streamVars, history
  <1>3. ASSUME NEW s \in Streams, Break(s) PROVE CreditInv'
    BY <1>1, <1>3 DEF Break, threadVars, history
  <1>4. ASSUME NEW t \in Threads, NEW h \in Handles, NEW p \in Paths, NEW m \in Modes, Open(t, h, p, m)
        PROVE  CreditInv'
    <2>1. /\ Begin(t, "open", h, p, "rpc") /\ UNCHANGED <<queue, log, late, retried>>
          /\ \A u \in Threads : u # t => rpc'[u] = rpc[u]
      BY <1>0, <1>4 DEF Open, streamVars
    <2> QED BY <2>1, <1>CreditBegin
  <1>5. ASSUME NEW t \in Threads, NEW k \in Kinds, NEW h \in Handles, ReadWrite(t, k, h)
        PROVE  CreditInv'
    <2>1. /\ Begin(t, k, h, handle[h].path, "find") /\ UNCHANGED <<queue, log, late, retried>>
          /\ \A u \in Threads : u # t => rpc'[u] = rpc[u]
      BY <1>5 DEF ReadWrite, streamVars
    <2> QED BY <2>1, <1>CreditBegin
  <1>6. ASSUME NEW t \in Threads, NEW h \in Handles, Release(t, h) PROVE CreditInv'
    <2>1. /\ Begin(t, "release", h, handle[h].path, "rpc")
          /\ UNCHANGED <<queue, log, late, retried>>
          /\ \A u \in Threads : u # t => rpc'[u] = rpc[u]
      BY <1>0, <1>6 DEF Release, streamVars
    <2> QED BY <2>1, <1>CreditBegin
  <1> QED BY <1>2, <1>3, <1>4, <1>5, <1>6, <1>CreditThread, <1>CreditServeUnary, <1>CreditServe, <1>CreditLate
          DEF Next

-----------------------------------------------------------------------------
(* What returned was applied.                                                 *)

LEMMA AppliedNext == IInv /\ HandleInv /\ IdInv /\ AppliedInv /\ [Next]_vars => AppliedInv'
  <1>ComesReplied.
      ASSUME NEW s, Replied(s), Comes(s), LogStays
      PROVE  Replied(s)'
    <2> USE <1>ComesReplied
    <2> SUFFICES ASSUME NEW i \in DOMAIN queue'[s], queue'[s][i].kind = "write", queue'[s][i].served
                 PROVE  Logs(queue'[s][i].id)
      BY DEF Replied, Logged, Logs
    <2>1. PICK j \in DOMAIN queue[s] :
             /\ queue'[s][i].by = queue[s][j].by /\ queue'[s][i].id = queue[s][j].id
             /\ queue'[s][i].kind = queue[s][j].kind
             /\ queue[s][j].served \/ Logs(queue[s][j].id)
      BY DEF Comes
    <2>2. CASE queue[s][j].served
      <3>1. Logged(queue[s][j].id)
        BY <2>1, <2>2 DEF Replied
      <3> QED BY <2>1, <3>1 DEF LogStays
    <2>3. CASE Logs(queue[s][j].id)
      BY <2>1, <2>3
    <2> QED BY <2>1, <2>2, <2>3
  <1>ComesMine.
      ASSUME NEW t, Mine(t), Comes(str[t]), dead \subseteq dead', str'[t] = str[t], cur'[t] = cur[t],
             pc'[t] \in {"lock_read", "receive"} => pc[t] \in {"lock_read", "receive"}
      PROVE  Mine(t)'
    <2> USE <1>ComesMine
    <2> SUFFICES ASSUME pc'[t] \in {"lock_read", "receive"}, str[t] \notin dead,
                        NEW i \in DOMAIN queue'[str[t]], queue'[str[t]][i].by = t
                 PROVE  queue'[str[t]][i].id = cur[t].id /\ queue'[str[t]][i].kind = cur[t].kind
      BY DEF Mine
    <2>1. PICK j \in DOMAIN queue[str[t]] :
             /\ queue'[str[t]][i].by = queue[str[t]][j].by
             /\ queue'[str[t]][i].id = queue[str[t]][j].id
             /\ queue'[str[t]][i].kind = queue[str[t]][j].kind
      BY DEF Comes
    <2>2. queue[str[t]][j].id = cur[t].id /\ queue[str[t]][j].kind = cur[t].kind
      BY <2>1 DEF Mine
    <2> QED BY <2>1, <2>2
  <1>AppliedMove.
      ASSUME IInv, AppliedInv, LogStays, dead \subseteq dead', \A s \in Streams : Comes(s),
             \A u \in Threads : Keeps(u),
             \A u \in Threads : Answered(u)' => cur'[u] = cur[u] /\ (Answered(u) \/ Logs(cur[u].id)),
             \A w \in returned' : w \in returned \/ Logged(w)
      PROVE  AppliedInv'
    <2> USE <1>AppliedMove
    <2>1. ASSUME NEW u \in Threads PROVE Mine(u)'
      <3>1. Keeps(u) /\ Mine(u)
        BY DEF AppliedInv
      <3>2. CASE pc'[u] \notin {"lock_read", "receive"}
        BY <3>2 DEF Mine
      <3>3. CASE pc[u] \in {"lock_read", "receive"} /\ str'[u] = str[u] /\ cur'[u] = cur[u]
        <4>1. str[u] \in Streams
          BY <3>3 DEF IInv, Holds
        <4> QED BY <3>1, <3>3, <4>1, <1>ComesMine
      <3> QED BY <3>1, <3>2, <3>3 DEF Keeps
    <2>2. ASSUME NEW u \in Threads, Answered(u)' PROVE Logs(cur'[u].id)
      BY <2>2 DEF AppliedInv, LogStays
    <2>3. ASSUME NEW s \in Streams PROVE Replied(s)'
      BY <1>ComesReplied DEF AppliedInv
    <2>4. ASSUME NEW w \in returned' PROVE Logged(w)'
      BY DEF AppliedInv, LogStays, Logged, Logs
    <2>5. \A u \in Threads : Answered(u)' => Logged(cur[u].id)'
      BY <2>2 DEF Logged, Logs
    <2> QED BY <2>1, <2>3, <2>4, <2>5 DEF AppliedInv
  <1>QueueComes. ASSUME NEW s, queue'[s] = queue[s] PROVE Comes(s)
    BY <1>QueueComes DEF Comes
  <1>LogSame. ASSUME log' = log PROVE LogStays
    BY <1>LogSame DEF LogStays, Logged, Logs
  <1>LogGrows.
      ASSUME LogIds, NEW q \in Paths, NEW x \in 1 .. nops, nops \in Nat, nops' = nops,
             log' = [log EXCEPT ![q] = Append(@, x)]
      PROVE  LogStays /\ Logs(x)
    <2> USE <1>LogGrows
    <2>1. /\ log[q] \in Seq(Nat) /\ log'[q] = Append(log[q], x)
          /\ \A p \in Paths : p # q => log'[p] = log[p]
      BY LogAppend
    <2>2. /\ \A i \in DOMAIN log[q] : i \in DOMAIN log'[q] /\ log'[q][i] = log[q][i]
          /\ \E i \in DOMAIN log'[q] : log'[q][i] = x
      <3>1. /\ DOMAIN log[q] = 1 .. Len(log[q]) /\ Len(log[q]) \in Nat
            /\ DOMAIN log'[q] = 1 .. (Len(log[q]) + 1)
            /\ log'[q][Len(log[q]) + 1] = x
            /\ \A i \in 1 .. Len(log[q]) : log'[q][i] = log[q][i]
        BY ONLY <2>1, SMT
      <3>2. Len(log[q]) + 1 \in 1 .. (Len(log[q]) + 1)
            /\ \A i \in 1 .. Len(log[q]) : i \in 1 .. (Len(log[q]) + 1)
        BY ONLY <3>1, SMT
      <3> QED BY <3>1, <3>2
    <2>3. Logs(x)
      BY <2>2 DEF Logs
    <2>4. ASSUME NEW w, Logged(w) PROVE Logs(w)
      <3>1. PICK p \in Paths : \E i \in DOMAIN log[p] : log[p][i] = w
        BY <2>4 DEF Logged
      <3>2. \E i \in DOMAIN log'[p] : log'[p][i] = w
        BY <2>1, <2>2, <3>1
      <3> QED BY <3>2 DEF Logs
    <2> QED BY <2>3, <2>4 DEF LogStays
  <1>ThreadKeeps.
      ASSUME IInv, IdInv, NEW t \in Threads, ThreadStep(t) \/ UnaryFails(t),
             ~Send(t) \/ str[t] \in broken
      PROVE  \A u \in Threads : Keeps(u)
    <2> USE <1>ThreadKeeps
    <2>0. Types /\ DOMAIN pc = Threads /\ DOMAIN rpc = Threads /\ OthersSame(t)
      BY ThreadOthers DEF IInv, Types, IdInv
    <2>1. \A u \in Threads : u # t => str'[u] = str[u]
      <3> USE DEF Types
      <3>1. ASSUME NEW state, Done(t, state) PROVE \A u \in Threads : u # t => str'[u] = str[u]
        BY <2>0, <3>1 DEF Done
      <3>2. CASE Find(t) \/ Send(t) \/ LockRead(t) \/ ReceiveFails(t) \/ Dangle(t)
        BY <2>0, <3>2 DEF Find, Send, LockRead, ReceiveFails, Dangle, threadVars
      <3>3. CASE Receive(t) \/ UnaryFails(t) \/ UnaryReturns(t)
        BY <3>1, <3>3 DEF Receive, UnaryFails, UnaryReturns
      <3>4. ASSUME NEW k \in Kinds, RemoveFind(t, k) \/ Erase(t, k) \/ Create(t, k)
            PROVE  \A u \in Threads : u # t => str'[u] = str[u]
        BY <3>1, <3>4 DEF RemoveFind, Erase, Create, Removed
      <3> QED BY <3>2, <3>3, <3>4 DEF ThreadStep
    <2>2. \A u \in Threads : u # t => Keeps(u)
      BY <2>0, <2>1 DEF Keeps, OthersSame
    <2>3. Keeps(t)
      <3> DEFINE W == {"lock_read", "receive"}
      <3>0. /\ "idle" \notin W /\ "rpc" \notin W /\ "send" \notin W /\ "remove_read" \notin W
            /\ "remove_write" \notin W /\ "create_read" \notin W /\ "create_write" \notin W
            /\ \A k : Erasing(k) \notin W /\ Creating(k) \notin W
        BY SMT DEF Erasing, Creating
      <3>1. CASE Find(t) \/ Send(t) \/ LockRead(t) \/ ReceiveFails(t) \/ Dangle(t)
        BY <2>0, <3>0, <3>1 DEF Find, Send, LockRead, ReceiveFails, Dangle, threadVars, Keeps
      <3>2. CASE Receive(t) \/ UnaryFails(t)
        BY <2>0, <3>0, <3>2 DEF Receive, UnaryFails, Keeps
      <3>3. ASSUME NEW k \in Kinds, RemoveFind(t, k) \/ Erase(t, k) \/ Create(t, k)
            PROVE  Keeps(t)
        BY <2>0, <3>0, <3>3 DEF RemoveFind, Erase, Create, Removed, Keeps
      <3>4. CASE UnaryReturns(t)
        <4> DEFINE next == CASE cur[t].kind = "release" -> "remove_read"
                             [] cur[t].kind \in Kinds -> Creating(cur[t].kind)
                             [] OTHER -> IF handle[cur[t].handle].mode = "w" THEN "create_write"
                                         ELSE "create_read"
        <4>1. next \notin W
          BY <3>0, SMT
        <4>2. pc' = [pc EXCEPT ![t] = "idle"] \/ pc' = [pc EXCEPT ![t] = next]
          BY <3>4 DEF UnaryReturns
        <4> HIDE DEF next
        <4> QED BY <2>0, <3>0, <4>1, <4>2 DEF Keeps
      <3> QED BY <3>1, <3>2, <3>3, <3>4 DEF ThreadStep
    <2> QED BY <2>2, <2>3
  <1>ThreadAnswered.
      ASSUME IInv, HandleInv, IdInv, NEW t \in Threads, ThreadStep(t) \/ UnaryFails(t)
      PROVE  \A u \in Threads : Answered(u)' => Answered(u) /\ cur'[u] = cur[u]
    <2> USE <1>ThreadAnswered
    <2>0. Types /\ DOMAIN pc = Threads /\ DOMAIN rpc = Threads /\ OthersSame(t) /\ Moves
      BY ThreadOthers, ThreadMoves DEF IInv, Types, IdInv
    <2>1. \A u \in Threads : u # t => (Answered(u)' => Answered(u) /\ cur'[u] = cur[u])
      BY <2>0 DEF OthersSame, Answered
    <2>2. ASSUME Answered(t)' PROVE Answered(t) /\ cur'[t] = cur[t]
      <3>1. Busy(t)'
        BY <2>2, SMT DEF Answered, Busy
      <3>2. cur'[t] = cur[t] /\ cur[t].kind = "write" /\ pc'[t] # "idle"
        BY <2>0, <2>2, <3>1 DEF Moves, Busy, Answered
      <3>3. pc'[t] \in {"create_read", "create_write"} \/ (pc'[t] = "rpc" /\ rpc'[t] # "sent")
        BY <2>2 DEF Answered
      <3>4. /\ "send" \notin {"create_read", "create_write", "rpc"}
            /\ "remove_read" \notin {"create_read", "create_write", "rpc"}
            /\ "remove_write" \notin {"create_read", "create_write", "rpc"}
            /\ "lock_read" \notin {"create_read", "create_write", "rpc"}
            /\ "receive" \notin {"create_read", "create_write", "rpc"}
            /\ \A k : Erasing(k) \notin {"create_read", "create_write", "rpc"}
            /\ "rpc" \notin {"create_read", "create_write"}
        BY SMT DEF Erasing
      <3>5. CASE Dangle(t)
        BY <3>2, <3>3, <3>5 DEF Dangle, threadVars, Answered
      <3>6. CASE UnaryReturns(t)
        <4>1. rpc[t] # "sent" /\ pc[t] = "rpc"
          BY <3>6, SMT DEF UnaryReturns
        <4> QED BY <3>2, <4>1 DEF Answered
      <3>7. ASSUME NEW k \in Kinds, Create(t, k) PROVE Answered(t)
        <4>1. pc[t] \in {"create_read", "create_write"}
          BY <3>7 DEF Create, Creating
        <4> QED BY <3>2, <4>1 DEF Answered
      <3>8. CASE Find(t) \/ Send(t)
        BY <2>0, <3>3, <3>4, <3>8 DEF Find, Send
      <3>9. CASE LockRead(t) \/ Receive(t) \/ ReceiveFails(t) \/ UnaryFails(t)
        BY <2>0, <3>2, <3>3, <3>4, <3>9 DEF LockRead, Receive, ReceiveFails, UnaryFails
      <3>10. ASSUME NEW k \in Kinds, RemoveFind(t, k) \/ Erase(t, k) PROVE FALSE
        BY <2>0, <3>2, <3>3, <3>4, <3>10 DEF RemoveFind, Erase, Removed
      <3> QED BY <3>2, <3>5, <3>6, <3>7, <3>8, <3>9, <3>10 DEF ThreadStep
    <2> QED BY <2>1, <2>2
  \* The reply that is received is to the request of the thread's operation.
  <1>ReceiveLogged.
      ASSUME IInv, AppliedInv, NEW t \in Threads, Receive(t), cur[t].kind = "write"
      PROVE  Logged(cur[t].id)
    <2> USE <1>ReceiveLogged
    <2>1. str[t] \in Streams /\ pc[t] = "receive" /\ str[t] \notin dead
      BY DEF IInv, Holds, Receive
    <2>2. queue[str[t]] # <<>> /\ Head(queue[str[t]]).by = t /\ Head(queue[str[t]]).served
      BY <2>1, OwnHead DEF OwnReply, Receive
    <2>3. 1 \in DOMAIN queue[str[t]] /\ Head(queue[str[t]]) = queue[str[t]][1]
      <3>1. queue[str[t]] \in Seq(Messages)
        BY <2>1 DEF IInv, Types
      <3> QED BY ONLY <2>2, <3>1, SMT
    <2>4. queue[str[t]][1].id = cur[t].id /\ queue[str[t]][1].kind = cur[t].kind
      BY <2>1, <2>2, <2>3 DEF AppliedInv, Mine
    <2>5. Replied(str[t])
      BY <2>1 DEF AppliedInv
    <2> QED BY <2>2, <2>3, <2>4, <2>5 DEF Replied
  <1>AppliedThread.
      ASSUME IInv, HandleInv, IdInv, AppliedInv, NEW t \in Threads, ThreadStep(t) \/ UnaryFails(t),
             ~Send(t) \/ str[t] \in broken
      PROVE  AppliedInv'
    <2> USE <1>AppliedThread
    <2>0. /\ \A u \in Threads : Keeps(u)
          /\ \A u \in Threads : Answered(u)' => Answered(u) /\ cur'[u] = cur[u]
      BY <1>ThreadKeeps, <1>ThreadAnswered
    <2>1. ASSUME log' = log, dead \subseteq dead', \A s \in Streams : Comes(s),
                 \A w \in returned' : w \in returned \/ Logged(w)
          PROVE  AppliedInv'
      BY <2>0, <2>1, <1>LogSame, <1>AppliedMove
    <2>2. queue' = queue => \A s \in Streams : Comes(s)
      BY <1>QueueComes
    <2>3. CASE Receive(t)
      <3>1. log' = log /\ dead' = dead
        BY <2>3 DEF Receive
      <3>2. \A w \in returned' : w \in returned \/ Logged(w)
        BY <2>3, <1>ReceiveLogged DEF Receive
      <3>3. ASSUME NEW s \in Streams PROVE Comes(s)
        <4>1. CASE s # str[t]
          BY <2>3, <4>1, FollowsReceive, <1>QueueComes
        <4>2. CASE s = str[t]
          BY <2>3, <4>2, FollowsReceive DEF Comes
        <4> QED BY <4>1, <4>2
      <3> QED BY <2>1, <3>1, <3>2, <3>3
    <2>4. CASE Send(t)
      <3>1. str[t] \in broken
        BY <2>4
      <3> QED BY <2>1, <2>2, <2>4, <3>1 DEF Send
    <2>5. CASE Find(t) \/ LockRead(t) \/ ReceiveFails(t) \/ Dangle(t)
      BY <2>1, <2>2, <2>5 DEF Find, LockRead, ReceiveFails, Dangle, streamVars, history
    <2>6. CASE UnaryReturns(t) \/ UnaryFails(t)
      BY <2>1, <2>2, <2>6 DEF UnaryReturns, UnaryFails, streamVars
    <2>7. ASSUME NEW k \in Kinds, RemoveFind(t, k) \/ Erase(t, k) PROVE AppliedInv'
      BY <2>1, <2>2, <2>7 DEF RemoveFind, Erase, streamVars, history
    <2>8. ASSUME NEW k \in Kinds, Create(t, k) PROVE AppliedInv'
      <3>1. pc[t] \in {"create_read", "create_write"}
        BY <2>8 DEF Create, Creating
      <3>2. cur[t].kind = "write" => Logged(cur[t].id)
        BY <3>1 DEF AppliedInv, Answered
      <3>3. \A w \in returned' : w \in returned \/ Logged(w)
        BY <2>8, <3>2 DEF Create
      <3> QED BY <2>1, <2>2, <2>8, <3>3 DEF Create, streamVars
    <2> QED BY <2>3, <2>4, <2>5, <2>6, <2>7, <2>8 DEF ThreadStep
  \* On a stream that did not fail only the threads after their send have requests.
  <1>NoneOf.
      ASSUME IInv, NEW t \in Threads, NEW s \in Streams, s \notin dead,
             pc[t] \notin {"lock_read", "receive"}, NEW i \in DOMAIN queue[s]
      PROVE  queue[s][i].by # t
    <2> USE <1>NoneOf
    <2>0. Ordered(s)
      BY DEF IInv
    <2>1. DOMAIN queue[s] = 1 .. Len(queue[s]) /\ Len(queue[s]) \in Nat
      BY QueueShape DEF IInv
    <2>2. /\ Len(queue[s]) = (IF mtxRead[s] = Nobody THEN 0 ELSE 1)
                             + (IF mtxWrite[s] = Nobody THEN 0 ELSE 1)
          /\ mtxRead[s] # Nobody => queue[s][1].by = mtxRead[s]
          /\ mtxWrite[s] # Nobody => queue[s][Len(queue[s])].by = mtxWrite[s]
      BY <2>0 DEF Ordered
    <2>3. mtxWrite[s] # t \/ mtxWrite[s] = Nobody
      BY <2>0 DEF Ordered
    <2>4. mtxRead[s] # t \/ mtxRead[s] = Nobody
      BY <2>0 DEF Ordered
    <2>5. \/ i = 1 /\ mtxRead[s] # Nobody
          \/ i = Len(queue[s]) /\ mtxWrite[s] # Nobody
      BY ONLY <2>1, <2>2, i \in DOMAIN queue[s], SMT
    <2> QED BY <2>2, <2>3, <2>4, <2>5
  <1>AppliedSend.
      ASSUME IInv, HandleInv, IdInv, AppliedInv, NEW t \in Threads, Send(t), str[t] \notin broken
      PROVE  AppliedInv'
    <2> USE <1>AppliedSend
    <2> DEFINE s0 == str[t]
               n == Len(queue[s0]) + 1
               m == [by |-> t, id |-> cur[t].id, kind |-> cur[t].kind, path |-> cur[t].path,
                     served |-> FALSE]
    <2>1. /\ DOMAIN queue'[s0] = 1 .. n /\ n \in Nat /\ DOMAIN queue[s0] = 1 .. (n - 1)
          /\ queue'[s0][n] = m /\ s0 \in Streams
          /\ \A i \in DOMAIN queue[s0] : queue'[s0][i] = queue[s0][i]
          /\ \A s \in Streams : s # s0 => queue'[s] = queue[s]
      BY SendEffect
    <2>2. m.id = cur[t].id /\ m.kind = cur[t].kind /\ m.by = t /\ ~m.served
      BY SMT
    <2>3. /\ pc' = [pc EXCEPT ![t] = "lock_read"] /\ pc[t] = "send" /\ DOMAIN pc = Threads
          /\ UNCHANGED <<str, cur, rpc, dead, log, returned>>
      BY DEF Send, IInv, Types
    <2> HIDE DEF n, m, s0
    <2>4. \A i \in DOMAIN queue'[s0] : i = n \/ i \in DOMAIN queue[s0]
      BY ONLY <2>1, SMT
    <2>5. LogStays /\ \A w : Logged(w) <=> Logged(w)'
      BY <2>3, <1>LogSame DEF Logged
    <2>6. ASSUME NEW s \in Streams PROVE Replied(s)'
      <3>0. Replied(s)
        BY DEF AppliedInv
      <3>1. CASE s # s0
        BY <2>1, <2>5, <3>0, <3>1, <1>QueueComes, <1>ComesReplied
      <3>2. CASE s = s0
        <4> SUFFICES ASSUME NEW i \in DOMAIN queue'[s0], queue'[s0][i].kind = "write",
                            queue'[s0][i].served
                     PROVE  Logs(queue'[s0][i].id)
          BY <3>2 DEF Replied, Logged, Logs
        <4>1. i \in DOMAIN queue[s0] /\ queue'[s0][i] = queue[s0][i]
          BY <2>1, <2>2, <2>4
        <4>2. Logged(queue[s0][i].id)
          BY <3>0, <3>2, <4>1 DEF Replied
        <4> QED BY <2>5, <4>1, <4>2 DEF LogStays
      <3> QED BY <3>1, <3>2
    <2>7. ASSUME NEW u \in Threads PROVE Mine(u)'
      <3>0. Mine(u)
        BY DEF AppliedInv
      <3>1. CASE u = t
        <4> SUFFICES ASSUME s0 \notin dead, NEW i \in DOMAIN queue'[s0], queue'[s0][i].by = t
                     PROVE  queue'[s0][i].id = cur[t].id /\ queue'[s0][i].kind = cur[t].kind
          BY <2>3, <3>1 DEF Mine, s0
        <4>1. pc[t] \notin {"lock_read", "receive"}
          BY <2>3, SMT
        <4>2. i \notin DOMAIN queue[s0]
          BY <2>1, <4>1, <1>NoneOf
        <4> QED BY <2>1, <2>2, <2>4, <4>2
      <3>2. CASE u # t
        <4> SUFFICES ASSUME pc[u] \in {"lock_read", "receive"}, str[u] \notin dead,
                            NEW i \in DOMAIN queue'[str[u]], queue'[str[u]][i].by = u
                     PROVE  /\ queue'[str[u]][i].id = cur[u].id
                            /\ queue'[str[u]][i].kind = cur[u].kind
          BY <2>3, <3>2 DEF Mine
        <4>1. str[u] \in Streams
          BY DEF IInv, Holds
        <4>2. i \in DOMAIN queue[str[u]] /\ queue'[str[u]][i] = queue[str[u]][i]
          BY <2>1, <2>2, <2>4, <3>2, <4>1
        <4> QED BY <3>0, <4>2 DEF Mine
      <3> QED BY <3>1, <3>2
    <2>8. ASSUME NEW u \in Threads, Answered(u)' PROVE Logged(cur[u].id)'
      <3>1. Answered(u) /\ cur'[u] = cur[u]
        BY <2>8, <1>ThreadAnswered DEF ThreadStep
      <3> QED BY <2>3, <3>1 DEF AppliedInv, Logged
    <2>9. \A w \in returned' : Logged(w)'
      BY <2>3, <2>5 DEF AppliedInv
    <2> QED BY <2>6, <2>7, <2>8, <2>9 DEF AppliedInv
  <1>AppliedServeUnary.
      ASSUME IInv, HandleInv, IdInv, AppliedInv, NEW t \in Threads, ServeUnary(t)
      PROVE  AppliedInv'
    <2> USE <1>AppliedServeUnary
    <2>0. /\ Types /\ DOMAIN rpc = Threads /\ ThreadIds /\ LogIds /\ OthersSame(t) /\ nops \in Nat
          /\ UNCHANGED <<pc, cur, str, nops, queue, dead, returned>> /\ pc[t] = "rpc"
      BY ThreadOthers DEF IInv, Types, IdInv, ServeUnary, streamVars, history
    <2>1. (\A s \in Streams : Comes(s)) /\ \A u \in Threads : Keeps(u)
      BY <2>0, <1>QueueComes DEF Keeps
    <2>2. Busy(t)
      BY <2>0, SMT DEF Busy
    <2>3. CASE cur[t].kind = "write"
      <3>1. cur[t].path \in Paths /\ cur[t].id \in 1 .. nops
        BY <2>0, <2>2 DEF HandleInv, Handled, ThreadIds
      <3>2. PICK x \in 1 .. nops : x = cur[t].id
        BY <3>1
      <3>3. log' = [log EXCEPT ![cur[t].path] = Append(@, x)]
        BY <2>3, <3>2 DEF ServeUnary
      <3>4. LogStays /\ Logs(cur[t].id)
        BY <2>0, <3>1, <3>2, <3>3, <1>LogGrows
      <3>5. \A u \in Threads : Answered(u)' => cur'[u] = cur[u] /\ (Answered(u) \/ Logs(cur[u].id))
        BY <2>0, <3>4 DEF Answered, OthersSame
      <3> QED BY <2>0, <2>1, <3>4, <3>5, <1>AppliedMove
    <2>4. CASE cur[t].kind # "write"
      <3>1. LogStays
        BY <2>4, <1>LogSame DEF ServeUnary
      <3>2. \A u \in Threads : Answered(u)' => cur'[u] = cur[u] /\ (Answered(u) \/ Logs(cur[u].id))
        BY <2>0, <2>4 DEF Answered, OthersSame
      <3> QED BY <2>0, <2>1, <3>1, <3>2, <1>AppliedMove
    <2> QED BY <2>3, <2>4
  \* A step that leaves the threads where they are.
  <1>AppliedQuiet.
      ASSUME IInv, AppliedInv, UNCHANGED <<pc, cur, str, rpc, dead, returned>>, LogStays,
             \A s \in Streams : Comes(s)
      PROVE  AppliedInv'
    <2> USE <1>AppliedQuiet
    <2>1. \A u \in Threads : Keeps(u)
      BY DEF Keeps
    <2>2. \A u \in Threads : Answered(u)' => cur'[u] = cur[u] /\ Answered(u)
      BY DEF Answered
    <2> QED BY <2>1, <2>2, <1>AppliedMove
  <1>AppliedServe.
      ASSUME IInv, IdInv, AppliedInv, NEW s \in Streams, Serve(s)
      PROVE  AppliedInv'
    <2> USE <1>AppliedServe
    <2>0. /\ Types /\ LogIds /\ QueueIds /\ nops \in Nat
          /\ UNCHANGED <<pc, cur, str, rpc, nops, dead, returned>>
      BY DEF IInv, Types, IdInv, Serve, threadVars, history
    <2>1. PICK i \in DOMAIN queue[s] :
             /\ queue[s][i] \in Messages /\ ~queue[s][i].served
             /\ queue'[s][i] = [queue[s][i] EXCEPT !.served = TRUE]
             /\ \A j \in DOMAIN queue[s] : j # i => queue'[s][j] = queue[s][j]
             /\ log' = IF queue[s][i].kind = "write"
                       THEN [log EXCEPT ![queue[s][i].path] = Append(@, queue[s][i].id)]
                       ELSE log
      BY FollowsServe
    <2>2. DOMAIN queue'[s] = DOMAIN queue[s] /\ \A r \in Streams : r # s => queue'[r] = queue[r]
      BY FollowsServe
    <2>3. /\ queue'[s][i].by = queue[s][i].by /\ queue'[s][i].id = queue[s][i].id
          /\ queue'[s][i].kind = queue[s][i].kind
      BY <2>1, SMT DEF Messages
    <2>4. LogStays /\ (queue[s][i].kind = "write" => Logs(queue[s][i].id))
      <3>1. CASE queue[s][i].kind = "write"
        <4>1. queue[s][i].path \in Paths
          BY <2>1, SMT DEF Messages
        <4>2. PICK x \in 1 .. nops : x = queue[s][i].id
          BY <2>0 DEF QueueIds
        <4>3. log' = [log EXCEPT ![queue[s][i].path] = Append(@, x)]
          BY <2>1, <3>1, <4>2
        <4> QED BY <2>0, <4>1, <4>2, <4>3, <1>LogGrows
      <3>2. CASE queue[s][i].kind # "write"
        BY <2>1, <3>2, <1>LogSame
      <3> QED BY <3>1, <3>2
    <2>5. ASSUME NEW r \in Streams PROVE Comes(r)
      <3>1. CASE r # s
        BY <2>2, <3>1, <1>QueueComes
      <3>2. CASE r = s
        <4> SUFFICES ASSUME NEW j \in DOMAIN queue[s]
                     PROVE  /\ queue'[s][j].by = queue[s][j].by /\ queue'[s][j].id = queue[s][j].id
                            /\ queue'[s][j].kind = queue[s][j].kind
                            /\ queue'[s][j].kind = "write" /\ queue'[s][j].served =>
                                 queue[s][j].served \/ Logs(queue[s][j].id)
          BY <2>2, <3>2 DEF Comes
        <4>1. CASE j = i
          BY <2>3, <2>4, <4>1
        <4>2. CASE j # i
          BY <2>1, <4>2
        <4> QED BY <4>1, <4>2
      <3> QED BY <3>1, <3>2
    <2> QED BY <2>0, <2>4, <2>5, <1>AppliedQuiet
  <1>AppliedBegin.
      ASSUME IInv, AppliedInv, NEW t \in Threads, NEW kind, NEW h, NEW p, NEW next,
             Begin(t, kind, h, p, next), UNCHANGED <<str, queue, dead, log, returned>>,
             \A u \in Threads : u # t => rpc'[u] = rpc[u],
             next = "find" \/ (next = "rpc" /\ rpc'[t] = "sent")
      PROVE  AppliedInv'
    <2> USE <1>AppliedBegin
    <2>0. /\ DOMAIN pc = Threads /\ DOMAIN cur = Threads
          /\ pc' = [pc EXCEPT ![t] = next]
          /\ \A u \in Threads : u # t => cur'[u] = cur[u] /\ pc'[u] = pc[u]
      BY DEF Begin, IInv, Types
    <2>1. next \notin {"lock_read", "receive", "create_read", "create_write"}
      BY SMT
    <2>2. \A u \in Threads : Keeps(u)
      BY <2>0, <2>1 DEF Keeps
    <2>3. \A u \in Threads : Answered(u)' => cur'[u] = cur[u] /\ Answered(u)
      BY <2>0, <2>1, SMT DEF Answered
    <2>4. LogStays /\ \A s \in Streams : Comes(s)
      BY <1>LogSame, <1>QueueComes
    <2> QED BY <2>2, <2>3, <2>4, <1>AppliedMove
  <1> SUFFICES ASSUME IInv, HandleInv, IdInv, AppliedInv, [Next]_vars PROVE AppliedInv'
    OBVIOUS
  <1>0. DOMAIN rpc = Threads /\ LogIds /\ LateIds /\ nops \in Nat
    BY DEF IdInv, IInv, Types
  <1>1. queue' = queue => \A s \in Streams : Comes(s)
    BY <1>QueueComes
  <1>2. CASE UNCHANGED vars
    BY <1>1, <1>2, <1>LogSame, <1>AppliedQuiet DEF vars, threadVars, streamVars, history
  <1>3. ASSUME NEW s \in Streams, Break(s) PROVE AppliedInv'
    BY <1>1, <1>3, <1>LogSame, <1>AppliedQuiet DEF Break, threadVars, history
  <1>4. ASSUME NEW r \in late, ServeLate(r) PROVE AppliedInv'
    <2>1. LogStays
      BY <1>0, <1>4, <1>LogGrows DEF ServeLate, LateIds
    <2> QED BY <1>1, <1>4, <2>1, <1>AppliedQuiet DEF ServeLate, threadVars, streamVars, history
  <1>5. ASSUME NEW t \in Threads, NEW h \in Handles, NEW p \in Paths, NEW m \in Modes, Open(t, h, p, m)
        PROVE  AppliedInv'
    <2>1. /\ Begin(t, "open", h, p, "rpc") /\ UNCHANGED <<str, queue, dead, log, returned>>
          /\ rpc'[t] = "sent" /\ \A u \in Threads : u # t => rpc'[u] = rpc[u]
      BY <1>0, <1>5 DEF Open, streamVars
    <2> QED BY <2>1, <1>AppliedBegin
  <1>6. ASSUME NEW t \in Threads, NEW k \in Kinds, NEW h \in Handles, ReadWrite(t, k, h)
        PROVE  AppliedInv'
    <2>1. /\ Begin(t, k, h, handle[h].path, "find") /\ UNCHANGED <<str, queue, dead, log, returned>>
          /\ \A u \in Threads : u # t => rpc'[u] = rpc[u]
      BY <1>6 DEF ReadWrite, streamVars
    <2> QED BY <2>1, <1>AppliedBegin
  <1>7. ASSUME NEW t \in Threads, NEW h \in Handles, Release(t, h) PROVE AppliedInv'
    <2>1. /\ Begin(t, "release", h, handle[h].path, "rpc")
          /\ UNCHANGED <<str, queue, dead, log, returned>>
          /\ rpc'[t] = "sent" /\ \A u \in Threads : u # t => rpc'[u] = rpc[u]
      BY <1>0, <1>7 DEF Release, streamVars
    <2> QED BY <2>1, <1>AppliedBegin
  <1> QED BY <1>2, <1>3, <1>4, <1>5, <1>6, <1>7, <1>AppliedThread, <1>AppliedSend, <1>AppliedServeUnary,
             <1>AppliedServe DEF Next

LEMMA WritesInit == Init => IdInv /\ CreditInv /\ AppliedInv
<1> SUFFICES ASSUME Init PROVE IdInv /\ CreditInv /\ AppliedInv
  OBVIOUS
<1>1. /\ \A t \in Threads : pc[t] = "idle" /\ ~Busy(t)
      /\ nops = 0 /\ DOMAIN rpc = Threads /\ late = {} /\ retried = {} /\ returned = {}
      /\ \A s \in Streams : queue[s] = <<>>
      /\ log = [p \in Paths |-> <<>>]
  BY DEF Init, Busy
<1>2. /\ DOMAIN <<>> = {} /\ <<>> \in Seq(Nat) /\ 1 .. 0 = {}
      /\ "idle" \notin {"find", "send", "lock_read", "receive", "create_read", "create_write", "rpc"}
  BY SMT
<1>3. \A s \in Streams : DOMAIN queue[s] = {}
  BY <1>1, <1>2
<1>4. \A p \in Paths : DOMAIN log[p] = {}
  BY <1>1, <1>2
<1>5. ThreadIds
  BY <1>1, <1>2, SMT DEF ThreadIds, Using
<1>6. LateIds /\ QueueIds
  BY <1>1, <1>2, <1>3 DEF LateIds, QueueIds
<1>7. LogIds
  BY <1>1, <1>2, <1>4 DEF LogIds
<1>8. CreditInv
  BY <1>1, <1>2 DEF CreditInv
<1>9. AppliedInv
  BY <1>1, <1>2, <1>3 DEF AppliedInv, Mine, Answered, Replied
<1> QED BY <1>1, <1>5, <1>6, <1>7, <1>8, <1>9 DEF IdInv

\* Every write() that returned success was applied, and no write() was applied more than
\* once, or twice if its stream failed and it was repeated as a unary call.
THEOREM AppliedOnceAlways == Spec => []AppliedOnce
<1>1. IInv /\ IdInv /\ CreditInv /\ AppliedInv => AppliedOnce
  <2> SUFFICES ASSUME IInv, IdInv, CreditInv, AppliedInv, NEW p \in Paths, NEW w \in Ops
               PROVE  /\ Count(log[p], w) <= IF w \in retried THEN 2 ELSE 1
                      /\ w \in returned => \E q \in Paths : Count(log[q], w) >= 1
    BY DEF AppliedOnce
  <2>0. LogIds /\ 0 \in Nat
    BY SMT DEF IdInv
  <2>1. \A q \in Paths : /\ Count(log[q], w) \in Nat
                         /\ Count(log[q], w) >= 1 <=> \E i \in DOMAIN log[q] : log[q][i] = w
    BY <2>0, CountAppend DEF LogIds
  <2>2. CASE w \in 1 .. nops
    <3>1. Credit(p, w)
      BY <2>2 DEF CreditInv
    <3> QED BY <2>1, <3>1, SMT DEF Credit, One, AppliedInv, Logged
  <2>3. CASE w \notin 1 .. nops
    <3>1. ~(Count(log[p], w) >= 1)
      BY <2>0, <2>1, <2>3 DEF LogIds
    <3>2. w \in returned => \E q \in Paths : Count(log[q], w) >= 1
      BY <2>1 DEF AppliedInv, Logged
    <3>3. Count(log[p], w) <= IF w \in retried THEN 2 ELSE 1
      BY ONLY <2>1, <3>1, p \in Paths, SMT
    <3> QED BY <3>2, <3>3
  <2> QED BY <2>2, <2>3
<1> QED BY <1>1, InitStep, NextStep, HandleInit, HandleNext, WritesInit, IdNext, CreditNext,
           AppliedNext, PTL DEF Spec
=============================================================================
