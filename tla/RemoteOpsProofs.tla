--------------------------- MODULE RemoteOpsProofs --------------------------
(***************************************************************************)
(* Remote operations, for any clients, files, descriptors, workloads and   *)
(* failing calls: the steps of the clients, the first state and the        *)
(* theorems.                                                               *)
(***************************************************************************)
EXTENDS RemoteOpsServerProofs

USE Zenon
-----------------------------------------------------------------------------
(* Steps that change one call and the handles of one kernel.               *)

LEMMA UniqueMove ==
  ASSUME CallsInv, UniqueInv, NEW n, NEW k, Changes(n, k), Moves(n, k)
  PROVE  UniqueInv'
  <1>1. /\ call'[n] = k
        /\ \A m \in Numbers : m # n => call'[m] = call[m]
        /\ n \in Active' <=> k \notin {NoCall, Over}
        /\ \A m : m # n => (m \in Owners' <=> m \in Owners)
    BY ONLY CallsInv, Changes(n, k), OnlyOne, Zenon
  <1>2. \A m \in Owners' : m # n => m \in Owners /\ Fh(call'[m]) = Fh(call[m])
    BY <1>1, SetsAre
  <1>3. n \in Owners' => k # Over /\ Owner(k)
    BY <1>1 DEF Owners
  <1>4. \A c, d \in Clients : \A h \in handles[c], g \in handles[d] :
           h.fi.fh = g.fi.fh => c = d
    BY DEF UniqueInv
  <1>5. \A m \in Owners : \A c \in Clients : \A h \in handles[c] : h.fi.fh # Fh(call[m])
    BY DEF UniqueInv
  <1>6. \A m, q \in Owners : Fh(call[m]) = Fh(call[q]) => m = q
    BY DEF UniqueInv
  <1>7. ASSUME NEW c \in Clients, NEW d \in Clients, NEW h \in handles'[c], NEW g \in handles'[d],
               h.fi.fh = g.fi.fh
        PROVE  c = d /\ h = g
    <2>1. \/ \E x \in handles[c] : x.fi.fh = h.fi.fh
          \/ n \in Owners /\ c = call[n].client /\ h.fi.fh = Fh(call[n])
      BY DEF Moves
    <2>2. \/ \E x \in handles[d] : x.fi.fh = g.fi.fh
          \/ n \in Owners /\ d = call[n].client /\ g.fi.fh = Fh(call[n])
      BY DEF Moves
    <2>3. c = d
      BY <1>4, <1>5, <1>7, <2>1, <2>2
    <2> QED
      BY <1>7, <2>3 DEF Moves
  <1>8. ASSUME NEW m \in Owners', NEW c \in Clients, NEW h \in handles'[c]
        PROVE  h.fi.fh # Fh(call'[m])
    <2>1. CASE m = n
      BY <1>1, <1>3, <2>1 DEF Moves
    <2>2. CASE m # n
      <3>1. m \in Owners /\ Fh(call'[m]) = Fh(call[m])
        BY <1>2, <2>2
      <3>2. \/ \E x \in handles[c] : x.fi.fh = h.fi.fh
            \/ (n \in Owners /\ h.fi.fh = Fh(call[n]))
        BY DEF Moves
      <3> QED
        BY <1>5, <1>6, <2>2, <3>1, <3>2
    <2> QED
      BY <2>1, <2>2
  <1>9. ASSUME NEW m \in Owners', NEW q \in Owners', Fh(call'[m]) = Fh(call'[q]) PROVE m = q
    <2>1. CASE m # n /\ q # n
      BY <1>2, <1>6, <1>9, <2>1
    <2>2. CASE m = n /\ q # n
      BY <1>1, <1>2, <1>3, <1>9, <2>2 DEF Moves
    <2>3. CASE m # n /\ q = n
      BY <1>1, <1>2, <1>3, <1>9, <2>3 DEF Moves
    <2> QED
      BY <2>1, <2>2, <2>3
  <1> QED
    BY <1>7, <1>8, <1>9 DEF UniqueInv, Fh

LEMMA LeakedMove ==
  ASSUME CallsInv, NEW n, NEW k, Changes(n, k), fs' = fs, Passes(n, k)
  PROVE  Leaked' \subseteq Leaked
  <1> SUFFICES ASSUME NEW d \in Leaked' PROVE d \in Leaked
    OBVIOUS
  <1>1. /\ call'[n] = k
        /\ \A m \in Numbers : m # n => call'[m] = call[m]
        /\ n \in Active' <=> k \notin {NoCall, Over}
        /\ \A m : m # n => (m \in Owners' <=> m \in Owners)
    BY ONLY CallsInv, Changes(n, k), OnlyOne, Zenon
  <1>2. /\ d \in Fds /\ fs.fds[d] # 0
        /\ \A c \in Clients : \A h \in handles'[c] : h.fi.fh # d
        /\ \A m \in Owners' : Fh(call'[m]) # d
    BY DEF Leaked, Fh
  <1>3. k \notin {NoCall, Over} /\ Owner(k) => Fh(k) # d
    BY <1>1, <1>2 DEF Owners
  <1>4. \A c \in Clients : \A h \in handles[c] : h.fi.fh # d
    BY <1>2, <1>3 DEF Passes
  <1>5. ASSUME NEW m \in Owners PROVE Fh(call[m]) # d
    <2>1. CASE m = n
      BY <1>2, <1>3, <2>1 DEF Passes
    <2>2. CASE m # n
      BY <1>1, <1>2, <2>2, SetsAre
    <2> QED
      BY <2>1, <2>2
  <1> QED
    BY <1>2, <1>4, <1>5 DEF Leaked

LEMMA HoldsIs ==
  ASSUME CallsInv, NEW c, NEW H, Holds(c, H)
  PROVE  /\ c \in Clients /\ handles'[c] = H
         /\ \A d \in Clients : d # c => handles'[d] = handles[d]
         /\ (\A h \in H : IsHandle(h)) => HandlesOk'
  <1>1. handles = [d \in Clients |-> handles[d]]
    BY DEF CallsInv
  <1>2. c \in Clients /\ handles' = [handles EXCEPT ![c] = H]
    BY DEF Holds
  <1>3. /\ handles' = [d \in Clients |-> handles'[d]] /\ handles'[c] = H
        /\ \A d \in Clients : d # c => handles'[d] = handles[d]
    BY ONLY <1>1, <1>2, SMT
  <1>4. ASSUME \A h \in H : IsHandle(h), NEW d \in Clients, NEW h \in handles'[d] PROVE IsHandle(h)
    BY <1>3, <1>4 DEF CallsInv
  <1> QED
    BY <1>2, <1>3, <1>4 DEF HandlesOk

\* A call ends or starts, the server does nothing.
LEMMA Move ==
  ASSUME IndInv, NEW n, NEW k, Changes(n, k), k = Over \/ IsCall(k),
         fs' = fs, dirs' = dirs, up' = up, fails' = fails,
         NEW c, NEW H, Holds(c, H), \A h \in H : IsHandle(h) /\ (up => LiveHandle(h)),
         \A m \in Waiting : m # n => call[m].client # c,
         k # Over /\ k.waits => k.client = c /\ HeldBy(k)' /\ k.phase \notin Done,
         k # Over /\ Owner(k) => (up => LiveCall(k)),
         k # Over => ~IsOrphan(k),
         Moves(n, k), Passes(n, k)
  PROVE  IndInv'
  <1>0. ServerInv /\ CallsInv /\ HeldInv /\ UniqueInv /\ LiveInv /\ LeakInv /\ Transparent
    BY DEF IndInv
  <1>1. /\ handles'[c] = H /\ c \in Clients
        /\ \A d \in Clients : d # c => handles'[d] = handles[d]
        /\ HandlesOk'
    BY <1>0, HoldsIs
  <1>2. ServerInv'
    BY <1>0 DEF ServerInv, LiveDirs
  <1>3. CallsInv'
    <2>1. ASSUME k # Over, k.waits, NEW m \in Waiting, call[m].client = k.client PROVE m = n
      BY <2>1
    <2> QED
      BY <1>0, <1>1, <2>1, CallsStep
  <1>4. HeldInv'
    <2>1. ASSUME NEW m \in Waiting, m # n PROVE handles'[call[m].client] = handles[call[m].client]
      <3>1. call[m].client \in Clients /\ call[m].client # c
        BY <1>0, <2>1, SetsAre DEF CallsInv, IsCall
      <3> QED
        BY <1>1, <3>1
    <2>2. \A m \in Waiting : m # n => handles'[call[m].client] = handles[call[m].client]
      BY <2>1
    <2>3. k # Over /\ k.waits => HeldBy(k)'
      OBVIOUS
    <2> QED
      BY ONLY <1>0, <2>2, <2>3, Changes(n, k), HeldStep, Zenon
  <1>5. UniqueInv'
    BY <1>0, UniqueMove
  <1>6. LiveInv'
    <2> SUFFICES ASSUME up' PROVE /\ \A d \in Clients : \A h \in handles'[d] : LiveHandle(h)'
                                  /\ \A m \in Owners' : LiveCall(call[m])'
      BY DEF LiveInv
    <2>0. up
      OBVIOUS
    <2>1. \A h : LiveHandle(h) => LiveHandle(h)'
      BY DEF LiveHandle, LiveDirs
    <2>2. \A d : SameFh(d)
      BY DEF SameFh, LiveDirs
    <2>3. k # Over /\ Owner(k) => LiveCall(k)'
      <3>1. LiveCall(k) => LiveCall(k)'
        BY DEF LiveCall, LiveDirs
      <3> QED
        BY <2>0, <3>1
    <2>4. ASSUME NEW d \in Clients, NEW h \in handles'[d] PROVE LiveHandle(h)'
      <3>1. LiveHandle(h)
        BY <1>0, <1>1, <2>0 DEF LiveInv
      <3> QED
        BY <2>1, <3>1
    <2>5. \A m \in Owners' : LiveCall(call[m])'
      BY ONLY <1>0, <2>0, <2>2, <2>3, Changes(n, k), OwnersStep, Zenon
    <2> QED
      BY <2>4, <2>5
  <1>7. LeakInv'
    <2>1. Leaked' \subseteq Leaked
      BY <1>0, LeakedMove
    <2>2. Orphans' \subseteq Orphans
      BY <1>0, OrphanStep
    <2>3. fails \in Nat /\ fails' \in Nat /\ fails' >= fails
      BY <1>0, SMT DEF LeakInv
    <2> QED
      BY ONLY <1>0, <2>1, <2>2, <2>3, up' = up, LeakStep, Zenon
  <1>8. Transparent'
    BY <1>0, TransparentStep
  <1> QED
    BY <1>2, <1>3, <1>4, <1>5, <1>6, <1>7, <1>8 DEF IndInv

-----------------------------------------------------------------------------
(* FUSE calls an operation.                                                *)

LEMMA ArgsFields ==
  ASSUME NEW a, NEW f, NEW p, NEW t, NEW v, NEW o, Given(a, f, p, t, v, o)
  PROVE  a.path = p /\ a.to = t /\ a.val = v /\ a.offset = o /\ a.fi = f
  BY SMT DEF Given, Args

LEMMA ArgsExcept ==
  ASSUME NEW p, NEW q, NEW h
  PROVE  /\ p = h.path => Given(FileArgs(h), h.fi, p, "", 1, 0)
         /\ p = h.path => Given(DirArgs(h), h.fi, p, "", 0, h.off)
         /\ Given(TwoPaths(p, q), NoFi, p, q, 0, 0)
         /\ p = "/" => Given(RootPath, NoFi, p, "", 0, 0)
         /\ Given(OnePath(p), NoFi, p, "", 1, 0)
         /\ Given(NewPath(p), [NoFi EXCEPT !.flags = "creat"], p, "", 1, 0)
  <1>0. PICK e, z, y, g, b, s, o, f : /\ e = "" /\ z = 0 /\ y = 1 /\ g = NoFi /\ b = NoArgs
                                       /\ s = "creat" /\ o = h.off /\ f = h.fi
    OBVIOUS
  <1>1. b = Args(e, e, z, z, g)
    BY <1>0 DEF NoArgs, Args
  <1> DEFINE i == [b EXCEPT !.path = p]
  <1>2. i = Args(p, e, z, z, g)
    BY ONLY <1>1, SMT DEF Args
  <1>3. [b EXCEPT !.path = p, !.to = q] = [i EXCEPT !.to = q]
    BY ONLY SMT
  <1> DEFINE j == [i EXCEPT !.val = y]
  <1>4. [b EXCEPT !.path = p, !.val = y] = j
    BY ONLY SMT
  <1>5. [b EXCEPT !.path = p, !.val = y, !.fi = f] = [j EXCEPT !.fi = f]
    BY ONLY SMT
  <1>6. [b EXCEPT !.path = p, !.val = y, !.fi.flags = s] = [j EXCEPT !.fi = [j.fi EXCEPT !.flags = s]]
    BY ONLY SMT
  <1> DEFINE l == [i EXCEPT !.offset = o]
  <1>7. [b EXCEPT !.path = p, !.offset = o, !.fi = f] = [l EXCEPT !.fi = f]
    BY ONLY SMT
  <1> HIDE DEF i
  <1>8. j = Args(p, e, y, z, g) /\ l = Args(p, e, z, o, g) /\ [i EXCEPT !.to = q] = Args(p, q, z, z, g)
    BY ONLY <1>2, SMT DEF Args
  <1> HIDE DEF j, l
  <1>9. [j EXCEPT !.fi = f] = Args(p, e, y, z, f) /\ [l EXCEPT !.fi = f] = Args(p, e, z, o, f)
    BY ONLY <1>8, SMT DEF Args
  <1>10. [j EXCEPT !.fi = [j.fi EXCEPT !.flags = s]] = Args(p, e, y, z, [g EXCEPT !.flags = s])
    <2>1. PICK x : x = [j.fi EXCEPT !.flags = s]
      OBVIOUS
    <2>2. j.fi = g
      BY ONLY <1>8, SMT DEF Args
    <2>3. [j EXCEPT !.fi = x] = Args(p, e, y, z, x)
      BY ONLY <1>8, SMT DEF Args
    <2> QED
      BY ONLY <2>1, <2>2, <2>3, Zenon
  <1>11. /\ Given([b EXCEPT !.path = p, !.val = y, !.fi = f], f, p, e, y, z)
         /\ Given([b EXCEPT !.path = p, !.offset = o, !.fi = f], f, p, e, z, o)
         /\ Given([b EXCEPT !.path = p, !.to = q], g, p, q, z, z)
         /\ Given([b EXCEPT !.path = p], g, p, e, z, z)
         /\ Given([b EXCEPT !.path = p, !.val = y], g, p, e, y, z)
         /\ Given([b EXCEPT !.path = p, !.val = y, !.fi.flags = s], [g EXCEPT !.flags = s], p, e, y, z)
    BY ONLY <1>2, <1>3, <1>4, <1>5, <1>6, <1>7, <1>8, <1>9, <1>10, Zenon DEF i, Given
  <1> QED
    BY ONLY <1>0, <1>11, Zenon DEF FileArgs, DirArgs, TwoPaths, RootPath, OnePath, NewPath

LEMMA ArgumentsFrom ==
  ASSUME NEW c, NEW op, NEW a, a \in Arguments(c, op)
  PROVE  From(c, op, a)
  <1>1. CASE op \in FileOps
    BY <1>1, SMT DEF From, Arguments, FileOps, TwoPathOps
  <1>2. CASE op \in {"readdir", "releasedir"}
    BY <1>2, SMT DEF From, Arguments, FileOps, TwoPathOps
  <1>3. CASE op \in TwoPathOps
    BY <1>3, SMT DEF From, Arguments, FileOps, TwoPathOps
  <1>4. CASE op \notin FileOps \cup {"readdir", "releasedir"} \cup TwoPathOps
    BY <1>4, SMT DEF From, Arguments, FileOps, TwoPathOps
  <1> QED
    BY <1>1, <1>2, <1>3, <1>4 DEF From

LEMMA ArgumentsAre ==
  ASSUME CallsInv, NEW c \in Clients, NEW op \in Offered, NEW a \in Arguments(c, op)
  PROVE  /\ IsArgs(op, a)
         /\ op \in FileOps => \E h \in handles[c] : h.kind = "file" /\ h.fi = a.fi
         /\ op \in {"readdir", "releasedir"} =>
              \E h \in handles[c] : h.kind = "dir" /\ h.fi = a.fi /\ h.off = a.offset
  <1>0. /\ "fi" \notin Calls[op].sends => op \notin FileOps \cup DirOps \cup {"open", "create"}
        /\ {"readdir", "releasedir"} \subseteq DirOps
        /\ "release" \in FileOps
    BY Table DEF Fits, Row, FileOps, DirOps
  <1>1. ASSUME NEW p, NEW t, NEW v, NEW o, NEW f, Given(a, f, p, t, v, o), IsFi(f), o \in Nat,
               op \notin TwoPathOps => t = "",
               "fi" \notin Calls[op].sends => f = NoFi, op \in OpenOps => f.fh = 0,
               op = "release" => f.fh \in Fds, op = "releasedir" => f.fh \in Dirps
        PROVE  IsArgs(op, a)
    <2>1. a.path = p /\ a.to = t /\ a.val = v /\ a.offset = o /\ a.fi = f
      BY <1>1, ArgsFields
    <2> QED
      BY <1>1, <2>1 DEF IsArgs, Args, Given
  <1>a. From(c, op, a)
    BY ArgumentsFrom
  <1>2. IsFi(NoFi) /\ NoFi.fh = 0 /\ 0 \in Nat
    BY SMT DEF IsFi, NoFi
  <1>3. CASE op \in FileOps
    <2>0. op \notin OpenOps /\ op \notin TwoPathOps /\ op \notin {"readdir", "releasedir"} /\ "fi" \in Calls[op].sends
      BY <1>0, <1>3 DEF FileOps, OpenOps, TwoPathOps
    <2>1. PICK h \in handles[c] : h.kind = "file" /\ a = FileArgs(h)
      BY ONLY <1>3, <1>a, Zenon DEF From
    <2>3. Given(a, h.fi, h.path, "", 1, 0)
      BY <2>1, ArgsExcept
    <2>4. a.fi = h.fi
      BY <2>3, ArgsFields
    <2>5. IsFi(h.fi) /\ h.fi.fh \in Fds
      BY <2>1, "file" # "dir" DEF CallsInv, IsHandle
    <2>6. IsArgs(op, a)
      BY <1>1, <1>2, <2>0, <2>3, <2>5
    <2> QED
      BY <2>0, <2>1, <2>4, <2>6
  <1>4. CASE op \in {"readdir", "releasedir"}
    <2>0. op \notin FileOps /\ op \notin OpenOps /\ op \notin TwoPathOps /\ "fi" \in Calls[op].sends /\ op # "release"
      BY <1>0, <1>4 DEF FileOps, OpenOps, TwoPathOps
    <2>1. PICK h \in handles[c] : h.kind = "dir" /\ a = DirArgs(h)
      BY ONLY <1>4, <1>a, Zenon DEF From
    <2>3. Given(a, h.fi, h.path, "", 0, h.off)
      BY <2>1, ArgsExcept
    <2>4. a.fi = h.fi /\ a.offset = h.off
      BY <2>3, ArgsFields
    <2>5. IsFi(h.fi) /\ h.fi.fh \in Dirps /\ h.off \in 0..Len(h.all) /\ h.all \in Seq(Paths)
      BY <2>1, "file" # "dir" DEF CallsInv, IsHandle
    <2>6. h.off \in Nat
      BY ONLY <2>5, SMT
    <2>7. IsArgs(op, a)
      BY <1>1, <2>0, <2>3, <2>5, <2>6
    <2> QED
      BY <2>0, <2>1, <2>4, <2>7
  <1>5. CASE op \notin FileOps \cup {"readdir", "releasedir"}
    <2>0. op # "release" /\ op # "releasedir"
      BY <1>0, <1>5
    <2>1. \E p, t, v, f : /\ Given(a, f, p, t, v, 0) /\ IsFi(f) /\ f.fh = 0
                          /\ op \notin TwoPathOps => t = ""
                          /\ "fi" \notin Calls[op].sends => f = NoFi
      <3>1. CASE op \in TwoPathOps
        <4>2. PICK p, q : a = TwoPaths(p, q)
          BY ONLY <3>1, <1>a, Zenon DEF From
        <4>3. Given(a, NoFi, p, q, 0, 0)
          BY <4>2, ArgsExcept
        <4> QED
          BY <1>2, <3>1, <4>3
      <3>2. CASE op = "opendir"
        <4>2. a = RootPath
          BY ONLY <3>2, <1>a, Zenon DEF From
        <4>3. Given(a, NoFi, "/", "", 0, 0)
          BY <4>2, ArgsExcept
        <4> QED
          BY <1>2, <4>3
      <3>3. CASE op = "create"
        <4>2. PICK p : a = NewPath(p)
          BY ONLY <3>3, <1>a, Zenon DEF From
        <4>3. PICK f : f = [NoFi EXCEPT !.flags = "creat"]
          OBVIOUS
        <4>4. Given(a, f, p, "", 1, 0)
          BY <4>2, <4>3, ArgsExcept
        <4>5. IsFi(f) /\ f.fh = 0
          BY ONLY <4>3, SMT DEF IsFi, NoFi
        <4> QED
          BY <1>0, <3>3, <4>4, <4>5
      <3>4. CASE op \notin TwoPathOps \cup {"opendir", "create"}
        <4>2. PICK p : a = OnePath(p)
          BY <1>5, <3>4, <1>a DEF From
        <4>3. Given(a, NoFi, p, "", 1, 0)
          BY <4>2, ArgsExcept
        <4> QED
          BY <1>2, <4>3
      <3> QED
        BY <3>1, <3>2, <3>3, <3>4
    <2>2. IsArgs(op, a)
      BY <1>1, <1>2, <2>0, <2>1
    <2> QED
      BY <1>5, <2>2
  <1> QED
    BY <1>3, <1>4, <1>5

LEMMA SentIs ==
  ASSUME NEW c \in Clients, NEW op \in Offered, NEW a, IsArgs(op, a),
         NEW room \in (IF op = "readdir" THEN Rooms ELSE {0}), NEW held, NEW k,
         k = Sent(c, op, a, room, held)
  PROVE  Starts(k, c, op, a, held)
  <1>1. /\ k.op = op /\ k.client = c /\ k.args = a /\ k.room = room /\ k.waits = TRUE
        /\ k.held = held /\ k.acted = 0 /\ k.all = <<>>
        /\ k.request = Message(a, Calls[op].sends, NoArgs)
        /\ k.phase = "sent" /\ k.reply = NoReply /\ k.res = 0 /\ k.want = <<>>
    <2>1. PICK z, e, s, r, m, t : /\ z = 0 /\ e = <<>> /\ s = "sent" /\ r = NoReply
                                  /\ m = Message(a, Calls[op].sends, NoArgs) /\ t = TRUE
      OBVIOUS
    <2>2. k = [op |-> op, client |-> c, args |-> a, room |-> room, waits |-> t,
               held |-> held, acted |-> z, all |-> e, request |-> m,
               phase |-> s, reply |-> r, res |-> z, want |-> e]
      BY <2>1 DEF Sent
    <2>3. /\ k.op = op /\ k.client = c /\ k.args = a /\ k.room = room /\ k.waits = t
          /\ k.held = held /\ k.acted = z /\ k.all = e /\ k.request = m
          /\ k.phase = s /\ k.reply = r /\ k.res = z /\ k.want = e
      BY ONLY <2>2, SMT
    <2> QED
      BY <2>1, <2>3
  <1>3. "sent" \in Unserved /\ "sent" \notin Done /\ "sent" # "deleted"
    BY DEF Unserved, Done
  <1>4. k = [op |-> k.op, client |-> k.client, args |-> k.args, room |-> k.room,
             waits |-> k.waits, held |-> k.held, acted |-> k.acted, all |-> k.all,
             request |-> k.request, phase |-> k.phase, reply |-> k.reply, res |-> k.res,
             want |-> k.want]
    BY <1>1 DEF Sent
  <1>5. IsCall(k)
    BY <1>1, <1>3, <1>4 DEF IsCall
  <1>6. Owner(k) <=> op \in CloseOps
    BY <1>1, <1>3 DEF Owner
  <1>7. op \in CloseOps => Fh(k) = a.fi.fh
    BY <1>1 DEF Fh, CloseOps, OpenOps
  <1>8. ~IsOrphan(k)
    BY <1>1 DEF IsOrphan
  <1> QED
    BY <1>1, <1>3, <1>5, <1>6, <1>7, <1>8 DEF Starts

\* The next number.
LEMMA NewNumberIs ==
  ASSUME CallsInv, NEW m \in Numbers, call[m] = NoCall
  PROVE  /\ NewNumber \in Numbers /\ NewNumber \notin Active
         /\ NewNumber \notin Owners /\ NewNumber \notin Waiting
  <1> DEFINE S == {i \in Numbers : call[i] = NoCall}
  <1>1. S \subseteq Nat /\ S # {}
    BY Finite
  <1>2. Min(S) \in S
    BY <1>1, MinIs
  <1>3. NewNumber \in Numbers /\ call[NewNumber] = NoCall
    BY <1>2 DEF NewNumber
  <1> QED
    BY <1>3 DEF Active, Owners, Waiting

LEMMA IssueKeeps ==
  ASSUME IndInv, NEW c \in Clients, NEW op \in load.ops, NEW a \in Arguments(c, op),
         NEW room \in (IF op = "readdir" THEN Rooms ELSE {0}), Issue(c, op, a, room)
  PROVE  IndInv'
  <1>0. ServerInv /\ CallsInv /\ HeldInv /\ UniqueInv /\ LiveInv /\ LeakInv /\ Transparent
    BY DEF IndInv
  <1>1. op \in Offered
    BY <1>0, RemoteOpsAssumption DEF CallsInv
  <1>2. /\ IsArgs(op, a)
        /\ op \in FileOps => \E h \in handles[c] : h.kind = "file" /\ h.fi = a.fi
        /\ op \in {"readdir", "releasedir"} =>
             \E h \in handles[c] : h.kind = "dir" /\ h.fi = a.fi /\ h.off = a.offset
    BY <1>0, <1>1, ArgumentsAre
  <1>3. PICK n : n = NewNumber
    OBVIOUS
  <1>4. n \in Numbers /\ n \notin Active /\ n \notin Owners /\ n \notin Waiting
    BY <1>0, <1>3, NewNumberIs DEF Issue
  <1>5. PICK G : G = HandleOf(c, a)
    OBVIOUS
  <1>6. PICK k : k = Sent(c, op, a, room, G)
    OBVIOUS
  <1>7. Changes(n, k) /\ fs' = fs /\ dirs' = dirs /\ up /\ up' = up /\ fails' = fails
    BY <1>3, <1>4, <1>5, <1>6 DEF Issue, Sent, Changes
  <1>8. /\ IsCall(k) /\ k.waits /\ k.phase \notin Done
        /\ k.op = op /\ k.client = c /\ k.args = a /\ k.held = G
        /\ Owner(k) <=> op \in CloseOps
        /\ op \in CloseOps => Fh(k) = a.fi.fh
        /\ ~IsOrphan(k)
    <2>1. Starts(k, c, op, a, G)
      BY <1>1, <1>2, <1>6, SentIs
    <2> QED
      BY <2>1 DEF Starts
  <1>9. PICK H : H = IF op \in CloseOps THEN handles[c] \ G ELSE handles[c]
    OBVIOUS
  <1>10. Holds(c, H)
    <2>0. handles = [d \in Clients |-> handles[d]]
      BY <1>0 DEF CallsInv
    <2>1. handles = [handles EXCEPT ![c] = handles[c]]
      BY ONLY <2>0, SMT
    <2>2. CASE op \in CloseOps
      BY <1>5, <1>9, <2>2 DEF Issue, Holds, CloseOps
    <2>3. CASE op \notin CloseOps
      BY <1>9, <2>1, <2>3 DEF Issue, Holds, CloseOps
    <2> QED
      BY <2>2, <2>3
  <1>11. /\ handles'[c] = H /\ H \subseteq handles[c]
         /\ \A d \in Clients : d # c => handles'[d] = handles[d]
    BY <1>0, <1>9, <1>10, HoldsIs
  <1>12. \A h \in handles[c] : IsHandle(h) /\ LiveHandle(h)
    BY <1>0, <1>7 DEF CallsInv, LiveInv
  <1>13. \A m \in Waiting : call[m].client # c
    BY DEF Issue, Busy
  <1>14. \A d \in Clients : \A h \in handles[d], g \in handles[c] : h.fi.fh = g.fi.fh => d = c /\ h = g
    BY <1>0 DEF UniqueInv
  <1>15. \A m \in Owners : \A h \in handles[c] : h.fi.fh # Fh(call[m])
    BY <1>0 DEF UniqueInv
  <1>16. ASSUME op \in CloseOps
         PROVE  \E h \in handles[c] : /\ h.fi.fh = a.fi.fh /\ a.fi.fh # 0 /\ G = {h}
                                      /\ h.kind = IF op = "release" THEN "file" ELSE "dir"
    <2>1. PICK h \in handles[c] : h.fi = a.fi /\ h.kind = IF op = "release" THEN "file" ELSE "dir"
      BY <1>2, <1>16 DEF CloseOps, FileOps
    <2>2. h.fi.fh \in Fds \/ h.fi.fh \in Dirps
      BY <1>12 DEF IsHandle
    <2>3. a.fi.fh # 0
      BY <2>1, <2>2, FileSystemAssumption, LocalOpsAssumption
    <2>4. \A g \in handles[c] : g.fi.fh = h.fi.fh => g = h
      BY <1>14
    <2> QED
      BY <1>5, <2>1, <2>3, <2>4 DEF HandleOf
  <1>17. HeldBy(k)'
    <2>1. op \notin CloseOps => handles'[c] = handles[c]
      BY <1>9, <1>11
    <2>2. op \notin CloseOps => G = HandleOf(c, a)'
      BY <1>5, <2>1 DEF HandleOf
    <2>3. op \in FileOps \ CloseOps => \E h \in handles'[c] : h.kind = "file" /\ h.fi = a.fi
      BY <1>2, <2>1
    <2>4. op = "readdir" => \E h \in handles'[c] : h.kind = "dir" /\ h.fi = a.fi /\ h.off = a.offset
      BY <1>2, <2>1 DEF CloseOps
    <2> QED
      BY <1>8, <2>2, <2>3, <2>4 DEF HeldBy, HandleOf
  <1>18. Owner(k) => LiveCall(k)
    <2> SUFFICES ASSUME op \in CloseOps PROVE LiveCall(k)
      BY <1>8
    <2>1. PICK h \in handles[c] : /\ h.fi.fh = a.fi.fh /\ G = {h}
                                  /\ h.kind = IF op = "release" THEN "file" ELSE "dir"
      BY <1>16
    <2>2. Fh(k) = h.fi.fh /\ LiveHandle(h)
      BY <1>8, <1>12, <2>1
    <2>3. CASE op = "release"
      BY <1>8, <2>1, <2>2, <2>3 DEF LiveCall, LiveHandle
    <2>4. CASE op = "releasedir"
      <3>1. Fh(k) \in LiveDirs(dirs)
        BY <2>1, <2>2, <2>4, "file" # "dir" DEF LiveHandle
      <3> QED
        BY <1>8, <2>4, <3>1 DEF LiveCall
    <2> QED
      BY <2>3, <2>4 DEF CloseOps
  <1>19. Moves(n, k)
    <2>1. \A d \in Clients : handles'[d] \subseteq handles[d]
      BY <1>11
    <2>2. ASSUME Owner(k), NEW d \in Clients, NEW h \in handles'[d] PROVE h.fi.fh # Fh(k)
      <3>1. PICK g \in handles[c] : g.fi.fh = Fh(k) /\ G = {g}
        BY <1>8, <1>16, <2>2
      <3>2. CASE d = c
        <4>1. h \in handles[c] /\ h # g
          BY <1>8, <1>9, <1>11, <2>2, <3>1, <3>2
        <4> QED
          BY <1>14, <3>1, <4>1
      <3>3. CASE d # c
        <4>1. h \in handles[d]
          BY <2>1, <2>2
        <4> QED
          BY <1>14, <2>2, <3>1, <3>3, <4>1
      <3> QED
        BY <3>2, <3>3
    <2>3. ASSUME Owner(k), NEW m \in Owners PROVE Fh(call[m]) # Fh(k)
      <3>1. PICK g \in handles[c] : g.fi.fh = Fh(k)
        BY <1>8, <1>16, <2>3
      <3> QED
        BY <1>15, <2>3, <3>1
    <2>4. \A d \in Clients : \A h, g \in handles'[d] : h.fi.fh = g.fi.fh => h = g
      BY <1>0, <2>1 DEF UniqueInv
    <2> QED
      BY <2>1, <2>2, <2>3, <2>4 DEF Moves
  <1>20. Passes(n, k)
    <2>1. ASSUME NEW d \in Clients, NEW h \in handles[d]
          PROVE  (\E g \in handles'[d] : g.fi.fh = h.fi.fh) \/ (Owner(k) /\ Fh(k) = h.fi.fh)
      <3>1. CASE h \in handles'[d]
        BY <3>1
      <3>2. CASE h \notin handles'[d]
        <4>1. d = c /\ op \in CloseOps /\ h \in G
          BY <1>9, <1>11, <3>2
        <4> QED
          BY <1>8, <1>16, <4>1
      <3> QED
        BY <3>1, <3>2
    <2>2. k \notin {NoCall, Over}
      BY <1>8, CallIsActive
    <2> QED
      BY <1>4, <2>1, <2>2 DEF Passes
  <1>21. \A h \in H : IsHandle(h) /\ (up => LiveHandle(h))
    BY <1>11, <1>12
  <1> QED
    BY <1>7, <1>8, <1>10, <1>13, <1>17, <1>18, <1>19, <1>20, <1>21, Move

-----------------------------------------------------------------------------
(* The client returns.                                                     *)

LEMMA ReturnStep ==
  ASSUME IndInv, NEW n, NEW c, NEW H, Returns(n, c, H), Inherits(n, c, H),
         \A h \in H : IsHandle(h) /\ (up => LiveHandle(h))
  PROVE  IndInv'
  <1>0. ServerInv /\ CallsInv /\ HeldInv /\ UniqueInv /\ LiveInv /\ LeakInv /\ Transparent
    BY DEF IndInv
  <1>1. PICK j : j = call[n]
    OBVIOUS
  <1>2. /\ n \in Active /\ n \in Waiting /\ j.waits /\ j.phase \in Done /\ c = j.client /\ Holds(c, H)
        /\ fs' = fs /\ dirs' = dirs /\ up' = up /\ fails' = fails
    BY <1>1, SetsAre DEF Returns
  <1>3. IsCall(j)
    BY <1>0, <1>1, <1>2 DEF CallsInv
  <1>4. PICK i : i = Put(j, FALSE, j.phase)
    OBVIOUS
  <1>5. PICK k : k = Settle(i)
    OBVIOUS
  <1>6. Changes(n, k)
    <2>1. call' = [call EXCEPT ![n] = Settle([j EXCEPT !.waits = FALSE])]
      BY <1>1 DEF Returns
    <2>2. [j EXCEPT !.waits = FALSE] = i
      BY <1>3, <1>4, PutIs
    <2> QED
      BY <1>2, <1>5, <2>1, <2>2, SetsAre DEF Changes, Returns
  <1>7. i.waits = FALSE /\ i.phase = j.phase
    BY ONLY <1>4, SMT DEF Put
  <1>8. k = Over \/ (IsCall(k) /\ ~k.waits /\ ~Owner(k) /\ ~IsOrphan(k))
    <2>1. CASE j.phase = "deleted"
      BY <1>5, <1>7, <2>1 DEF Settle
    <2>2. CASE j.phase # "deleted"
      <3>1. j.phase = "finished"
        BY <1>2, <2>2 DEF Done
      <3>2. k = i
        BY <1>5, <1>7, <3>1 DEF Settle
      <3>3. "finished" \in Unserved \cup Done /\ "finished" \notin Unserved /\ FALSE \in BOOLEAN
        BY DEF Done, Unserved
      <3>4. Follows(j, i)
        BY <1>2, <1>3, <1>4, <2>2, <3>1, <3>3, PutKeeps
      <3>5. IsCall(i) /\ ~Owner(i)
        BY <1>7, <3>1, <3>3, <3>4 DEF Follows
      <3>6. ~IsOrphan(i)
        BY <1>7, <3>1, <3>3 DEF IsOrphan
      <3> QED
        BY <1>7, <3>2, <3>5, <3>6
    <2> QED
      BY <2>1, <2>2
  <1>9. /\ handles'[c] = H /\ c \in Clients
        /\ \A d \in Clients : d # c => handles'[d] = handles[d]
    <2>1. CallsInv /\ Holds(c, H)
      BY <1>0, <1>2
    <2> QED
      BY ONLY <2>1, HoldsIs, Zenon
  <1>10. Moves(n, k)
    <2>1. ASSUME NEW d \in Clients, NEW h \in handles'[d]
          PROVE  \/ \E g \in handles[d] : g.fi.fh = h.fi.fh
                 \/ n \in Owners /\ d = call[n].client /\ h.fi.fh = Fh(call[n])
      <3>1. CASE d = c
        <4>1. (\E g \in handles[c] : g.fi.fh = h.fi.fh) \/ (n \in Owners /\ h.fi.fh = Fh(call[n]))
          BY <1>9, <2>1, <3>1 DEF Inherits
        <4> QED
          BY <1>1, <1>2, <3>1, <4>1
      <3>2. CASE d # c
        BY <1>9, <2>1, <3>2
      <3> QED
        BY <3>1, <3>2
    <2>2. \A d \in Clients : \A h, g \in handles[d] : h.fi.fh = g.fi.fh => h = g
      BY <1>0 DEF UniqueInv
    <2>3. \A h, g \in H : h.fi.fh = g.fi.fh => h = g
      BY DEF Inherits
    <2>4. \A d \in Clients : \A h, g \in handles'[d] : h.fi.fh = g.fi.fh => h = g
      BY <1>9, <2>2, <2>3
    <2> QED
      BY <1>8, <2>1, <2>4 DEF Moves
  <1>11. Passes(n, k)
    <2>1. \A d \in Clients : \A h \in handles[d] : \E g \in handles'[d] : g.fi.fh = h.fi.fh
      BY <1>9 DEF Inherits
    <2>2. n \in Owners => \E g \in handles'[c] : g.fi.fh = Fh(call[n])
      BY <1>9 DEF Inherits
    <2> QED
      BY <1>9, <2>1, <2>2 DEF Passes
  <1>12. \A m \in Waiting : m # n => call[m].client # c
    BY <1>0, <1>1, <1>2 DEF CallsInv
  <1> QED
    BY <1>2, <1>6, <1>8, <1>10, <1>11, <1>12, Move

\* A page after what was read before it.
LEMMA Reads ==
  ASSUME NEW S, NEW all \in Seq(S), NEW off \in 0..Len(all), NEW l \in Nat, off + l <= Len(all)
  PROVE  SubSeq(all, 1, off) \o [i \in 1..l |-> all[off + i]] = SubSeq(all, 1, off + l)
  <1> DEFINE x == SubSeq(all, 1, off)
             y == [i \in 1..l |-> all[off + i]]
             z == SubSeq(all, 1, off + l)
  <1>1. x \in Seq(S) /\ Len(x) = off /\ \A i \in 1..off : x[i] = all[i]
    BY SMT
  <1>2. y \in Seq(S) /\ Len(y) = l /\ \A i \in 1..l : y[i] = all[off + i]
    BY SMT
  <1>3. z \in Seq(S) /\ Len(z) = off + l /\ \A i \in 1..(off + l) : z[i] = all[i]
    BY SMT
  <1> HIDE DEF x, y, z
  <1>4. x \o y \in Seq(S) /\ Len(x \o y) = off + l
    <2>1. x \in Seq(S) /\ y \in Seq(S) /\ Len(x) = off /\ Len(y) = l
      BY <1>1, <1>2
    <2>2. Len(x \o y) = Len(x) + Len(y) /\ x \o y \in Seq(S)
      BY ONLY <2>1, SMT
    <2> QED
      BY <2>1, <2>2
  <1>5. ASSUME NEW i \in 1..(off + l) PROVE (x \o y)[i] = z[i]
    <2>1. x \in Seq(S) /\ y \in Seq(S) /\ i \in 1..(Len(x) + Len(y)) /\ Len(x) = off
      BY <1>1, <1>2
    <2>2. (x \o y)[i] = IF i <= off THEN x[i] ELSE y[i - off]
      BY ONLY <2>1, SMT
    <2>3. off \in Nat
      BY SMT
    <2>4. CASE i <= off
      BY ONLY <1>1, <1>3, <1>5, <2>2, <2>3, <2>4, l \in Nat, SMT
    <2>5. CASE ~(i <= off)
      <3>1. i - off \in 1..l /\ off + (i - off) = i
        BY ONLY <1>5, <2>3, <2>5, l \in Nat, SMT
      <3> QED
        BY <1>2, <1>3, <1>5, <2>2, <2>5, <3>1
    <2> QED
      BY <2>4, <2>5
  <1> QED
    <2>1. PICK w : w = x \o y
      OBVIOUS
    <2>2. w \in Seq(S) /\ z \in Seq(S) /\ Len(w) = Len(z) /\ \A i \in 1..Len(z) : w[i] = z[i]
      BY <1>3, <1>4, <1>5, <2>1
    <2>3. w = z
      BY ONLY <2>2, SMT
    <2> QED
      BY <2>1, <2>3 DEF x, y, z

LEMMA AdvancedIs ==
  ASSUME NEW h, NEW kind, NEW path, NEW fi, NEW all, NEW off, NEW got, NEW end, NEW ents,
         IsDirHandle(h, kind, path, fi, all, off, got, end),
         NEW n, NEW t, NEW e, TurnsPage(ents, off, got, n, t, e)
  PROVE  IsDirHandle(Advanced(h, ents), kind, path, fi, all, n, t, e)
  <1>1. h = [kind |-> kind, path |-> path, fi |-> fi, all |-> all, off |-> off, got |-> got, end |-> end]
    BY DEF IsDirHandle
  <1>2. h.off = off /\ h.got = got
    BY ONLY <1>1, SMT
  <1> DEFINE i == [h EXCEPT !.off = n]
             j == [i EXCEPT !.got = t]
  <1>3. i.got = h.got
    BY ONLY <1>1, SMT
  <1>4. Advanced(h, ents) = [j EXCEPT !.end = e]
    BY <1>2, <1>3 DEF Advanced, TurnsPage
  <1>5. i = [kind |-> kind, path |-> path, fi |-> fi, all |-> all, off |-> n, got |-> got, end |-> end]
    BY ONLY <1>1, SMT
  <1> HIDE DEF i
  <1>6. j = [kind |-> kind, path |-> path, fi |-> fi, all |-> all, off |-> n, got |-> t, end |-> end]
    BY ONLY <1>5, SMT
  <1> HIDE DEF j
  <1>7. [j EXCEPT !.end = e] =
          [kind |-> kind, path |-> path, fi |-> fi, all |-> all, off |-> n, got |-> t, end |-> e]
    BY ONLY <1>6, SMT
  <1> QED
    BY <1>4, <1>7 DEF IsDirHandle

LEMMA PageHandle ==
  ASSUME NEW h, IsHandle(h), h.kind = "dir", NEW room \in Rooms, NEW ents,
         ents = PageOf(h.all, h.off, room), NEW g, g = Advanced(h, ents)
  PROVE  IsHandle(g) /\ g.kind = "dir" /\ g.fi = h.fi /\ g.all = h.all
  <1>1. /\ h = [kind |-> "dir", path |-> h.path, fi |-> h.fi, all |-> h.all,
                off |-> h.off, got |-> h.got, end |-> h.end]
        /\ IsFi(h.fi) /\ h.fi.fh \in Dirps
        /\ h.all \in Seq(Paths) /\ h.off \in 0..Len(h.all)
        /\ h.got = SubSeq(h.all, 1, h.off)
    BY "file" # "dir" DEF IsHandle
  <1>2. PICK kind, path, fi, all, off, got, end :
          /\ kind = "dir" /\ path = h.path /\ fi = h.fi /\ all = h.all /\ off = h.off
          /\ got = h.got /\ end = h.end
    OBVIOUS
  <1>3. PICK l : l = Len(ents)
    OBVIOUS
  <1>4. /\ l \in Nat /\ l <= Len(all) - off /\ DOMAIN ents = 1..l
        /\ ents = <<>> => off = Len(all)
        /\ \A i \in 1..l : ents[i].name = all[off + i] /\ ents[i].off = off + i
    BY <1>1, <1>2, <1>3, PageCut
  <1>5. all \in Seq(Paths) /\ off \in 0..Len(all) /\ off + l <= Len(all) /\ off + l \in 0..Len(all)
    <2>1. all \in Seq(Paths) /\ off \in 0..Len(all) /\ l \in Nat /\ l <= Len(all) - off
      BY <1>1, <1>2, <1>4
    <2> QED
      BY ONLY <2>1, SMT
  <1>6. (IF ents = <<>> THEN off ELSE ents[Len(ents)].off) = off + l
    <2>1. CASE l = 0
      <3>1. ents = <<>>
        <4>1. DOMAIN ents = 1..0 /\ ents = PageOf(all, off, room)
          BY <1>2, <1>4, <2>1
        <4>2. ents = [i \in 1..0 |-> [name |-> all[off + i], off |-> off + i]]
          BY <4>1 DEF PageOf
        <4> QED
          BY ONLY <4>2, SMT
      <3>2. off + 0 = off
        BY ONLY <1>5, SMT
      <3> QED
        BY <2>1, <3>1, <3>2
    <2>2. CASE l # 0
      <3>1. ents # <<>>
        BY ONLY <1>3, <2>2, SMT
      <3>2. l \in 1..l
        BY ONLY <1>4, <2>2, SMT
      <3> QED
        BY <1>3, <1>4, <3>1, <3>2
    <2> QED
      BY <2>1, <2>2
  <1>7. got \o [i \in DOMAIN ents |-> ents[i].name] = SubSeq(all, 1, off + l)
    <2>1. [i \in DOMAIN ents |-> ents[i].name] = [i \in 1..l |-> all[off + i]]
      BY <1>4
    <2>2. got = SubSeq(all, 1, off)
      BY <1>1, <1>2
    <2>3. SubSeq(all, 1, off) \o [i \in 1..l |-> all[off + i]] = SubSeq(all, 1, off + l)
      BY <1>4, <1>5, Reads
    <2> QED
      BY <2>1, <2>2, <2>3
  <1>8. PICK n, t, e : n = off + l /\ t = SubSeq(all, 1, off + l) /\ e = (ents = <<>>)
    OBVIOUS
  <1>9. g = [kind |-> kind, path |-> path, fi |-> fi, all |-> all, off |-> n, got |-> t, end |-> e]
    <2>1. TurnsPage(ents, off, got, n, t, e)
      BY <1>6, <1>7, <1>8 DEF TurnsPage
    <2>2. IsDirHandle(h, kind, path, fi, all, off, got, end)
      BY <1>1, <1>2 DEF IsDirHandle
    <2>3. IsDirHandle(g, kind, path, fi, all, n, t, e)
      BY <2>1, <2>2, AdvancedIs
    <2> QED
      BY <2>3 DEF IsDirHandle
  <1>10. /\ g.kind = kind /\ g.path = path /\ g.fi = fi /\ g.all = all /\ g.off = n /\ g.got = t
         /\ g.end = e
    BY ONLY <1>9, SMT
  <1>11. e => n = Len(all)
    <2>1. ASSUME ents = <<>> PROVE off + l = Len(all)
      <3>1. off = Len(all) /\ l <= Len(all) - off /\ l \in Nat
        BY <1>4, <2>1
      <3> QED
        BY ONLY <1>5, <3>1, SMT
    <2> QED
      BY <1>8, <2>1
  <1>12. IsHandle(g)
    BY <1>1, <1>2, <1>5, <1>8, <1>9, <1>10, <1>11 DEF IsHandle
  <1> QED
    BY <1>2, <1>10, <1>12

\* What the client takes of the reply.
LEMMA SeenFields ==
  ASSUME NEW j, IsCall(j), NEW s, s = SeenOf(j)
  PROVE  /\ s.res = j.res
         /\ j.op \in OpenOps => s.fi = j.reply.fi
         /\ j.op = "readdir" => s.ents = SubSeq(j.reply.ents, 1, Min({j.room, Len(j.reply.ents)}))
  <1>1. PICK u, c : Fits(j.op, u, c)
    BY Table DEF IsCall
  <1>2. PICK v : v = Message(j.reply, c, NoReply)
    OBVIOUS
  <1>3. DOMAIN NoReply = {"st", "fi", "buf", "ents"}
    BY SMT DEF NoReply
  <1>4. ("fi" \in c => v.fi = j.reply.fi) /\ ("ents" \in c => v.ents = j.reply.ents)
    BY <1>2, <1>3 DEF Message
  <1>5. PICK fi, ents : /\ fi = IF "fi" \in c THEN v.fi ELSE j.args.fi
                        /\ ents = SubSeq(v.ents, 1, Min({j.room, Len(v.ents)}))
    OBVIOUS
  <1>6. s = [res |-> j.res, st |-> v.st, buf |-> v.buf, fi |-> fi, ents |-> ents]
    BY <1>1, <1>2, <1>5 DEF SeenOf, Fits, Row
  <1>7. s.res = j.res /\ s.fi = fi /\ s.ents = ents
    BY ONLY <1>6, SMT
  <1>8. (j.op \in OpenOps => "fi" \in c) /\ (j.op = "readdir" => "ents" \in c)
    BY <1>1 DEF Fits
  <1> QED
    BY <1>4, <1>5, <1>7, <1>8

LEMMA KernelIs ==
  ASSUME NEW held, NEW j, NEW s
  PROVE  KernelGives(held, j, s, Kernel(held, j, s))
  <1>0. PICK A, B, C : /\ A = held \cup {DirHandle(s.fi, j.all)}
                       /\ B = held \cup {FileHandle(j.args.path, s.fi, j.acted)}
                       /\ C = {IF h \in j.held THEN Advanced(h, s.ents) ELSE h : h \in held}
    OBVIOUS
  <1>1. Kernel(held, j, s) =
          CASE j.op = "opendir" /\ s.res = 0 -> A
            [] j.op \in {"open", "create"} /\ s.res = 0 -> B
            [] j.op = "readdir" -> C
            [] OTHER -> held
    BY <1>0 DEF Kernel, Advanced
  <1> HIDE DEF Kernel
  <1>2. /\ j.op = "opendir" /\ s.res = 0 => Kernel(held, j, s) = A
        /\ j.op \in {"open", "create"} /\ s.res = 0 => Kernel(held, j, s) = B
        /\ j.op = "readdir" => Kernel(held, j, s) = C
        /\ ~(j.op \in OpenOps /\ s.res = 0) /\ j.op # "readdir" => Kernel(held, j, s) = held
    BY ONLY <1>1, SMT DEF OpenOps
  <1> QED
    BY <1>0, <1>2 DEF KernelGives

LEMMA NewHandleIs ==
  ASSUME NEW j, IsCall(j), j.op \in OpenOps, j.phase \in Done, j.res = 0,
         NEW s, s = SeenOf(j), NEW g, g = NewHandle(j, s)
  PROVE  IsHandle(g) /\ g.fi.fh = Fh(j) /\ (LiveCall(j) => LiveHandle(g))
  <1>1. s.fi = j.reply.fi
    BY SeenFields
  <1>2. Fh(j) = s.fi.fh
    BY <1>1 DEF Fh
  <1>3. CASE j.op = "opendir"
    <2>1. IsFi(s.fi) /\ s.fi.fh \in Dirps /\ j.all \in Seq(Paths)
      BY <1>1, <1>3 DEF IsCall
    <2>2. PICK kind, path, fi, all, off, got, end :
            /\ kind = "dir" /\ path = "/" /\ fi = s.fi /\ all = j.all /\ off = 0
            /\ got = <<>> /\ end = FALSE
      OBVIOUS
    <2>3. g = [kind |-> kind, path |-> path, fi |-> fi, all |-> all, off |-> off, got |-> got, end |-> end]
      BY <1>3, <2>2 DEF NewHandle, DirHandle
    <2>4. /\ g.kind = kind /\ g.path = path /\ g.fi = fi /\ g.all = all /\ g.off = off /\ g.got = got
          /\ g.end = end
      BY ONLY <2>3, SMT
    <2>5. all \in Seq(Paths)
      BY <2>1, <2>2
    <2>6. 0 \in 0..Len(all) /\ <<>> = SubSeq(all, 1, 0)
      BY ONLY <2>5, SMT
    <2>7. IsHandle(g)
      BY <2>1, <2>2, <2>3, <2>4, <2>6 DEF IsHandle
    <2>8. LiveCall(j) => LiveHandle(g)
      BY <1>2, <1>3, <2>2, <2>4, "file" # "dir" DEF LiveCall, LiveHandle
    <2> QED
      BY <1>2, <2>2, <2>4, <2>7, <2>8
  <1>4. CASE j.op # "opendir"
    <2>1. IsFi(s.fi) /\ s.fi.fh \in Fds
      BY <1>1, <1>4 DEF IsCall
    <2>2. PICK kind, path, fi, ino : kind = "file" /\ path = j.args.path /\ fi = s.fi /\ ino = j.acted
      OBVIOUS
    <2>3. g = [kind |-> kind, path |-> path, fi |-> fi, ino |-> ino]
      BY <1>4, <2>2 DEF NewHandle, FileHandle
    <2>4. g.kind = kind /\ g.path = path /\ g.fi = fi /\ g.ino = ino
      BY ONLY <2>3, SMT
    <2>5. IsHandle(g)
      BY <2>1, <2>2, <2>3, <2>4 DEF IsHandle
    <2>6. LiveCall(j) => LiveHandle(g)
      BY <1>2, <1>4, <2>2, <2>4 DEF LiveCall, LiveHandle, OpenOps
    <2> QED
      BY <1>2, <2>2, <2>4, <2>5, <2>6
  <1> QED
    BY <1>3, <1>4

\* The page a readdir that finished gives its handle.
LEMMA SeenPage ==
  ASSUME NEW j, IsCall(j), j.op = "readdir", NEW h, IsHandle(h), h.kind = "dir", h.off = j.args.offset,
         j.reply.ents = Page(h.all, j.args.offset), NEW s, s = SeenOf(j)
  PROVE  j.room \in Rooms /\ s.ents = PageOf(h.all, h.off, j.room)
  <1>1. j.room \in Rooms
    BY DEF IsCall
  <1>2. j.reply.ents = PageOf(h.all, h.off, rpc_filler_room)
    BY DEF Page, PageOf
  <1>3. h.all \in Seq(Paths) /\ h.off \in 0..Len(h.all)
    BY "file" # "dir" DEF IsHandle
  <1>4. s.ents = SubSeq(j.reply.ents, 1, Min({j.room, Len(j.reply.ents)}))
    BY SeenFields
  <1>5. PICK all, off, room, whole : /\ all = h.all /\ off = h.off /\ room = j.room
                                     /\ whole = PageOf(all, off, rpc_filler_room)
    OBVIOUS
  <1>6. SubSeq(whole, 1, Min({room, Len(whole)})) = PageOf(all, off, room)
    BY <1>1, <1>3, <1>5, PageCut
  <1> QED
    BY <1>1, <1>2, <1>4, <1>5, <1>6

LEMMA ReturnKeeps == ASSUME IndInv, NEW n \in Numbers, Return(n) PROVE IndInv'
  <1>0. ServerInv /\ CallsInv /\ HeldInv /\ UniqueInv /\ LiveInv /\ LeakInv /\ Transparent
    BY DEF IndInv
  <1>1. n \in Waiting /\ n \in Active /\ call[n].phase \in Done
    BY SetsAre DEF Return, At, Done
  <1>2. PICK j : j = call[n]
    OBVIOUS
  <1>3. PICK c : c = j.client
    OBVIOUS
  <1>4. IsCall(j) /\ j.phase \in Done /\ j.waits /\ HeldBy(j) /\ c \in Clients
    BY <1>0, <1>1, <1>2, <1>3, SetsAre DEF CallsInv, HeldInv, IsCall
  <1>5. PICK s : s = SeenOf(j)
    OBVIOUS
  <1>6. Seen(n) = s
    BY <1>2, <1>5 DEF Seen, SeenOf
  <1>7. PICK H : H = Kernel(handles[c], j, s)
    OBVIOUS
  <1>a. KernelGives(handles[c], j, s, H)
    BY <1>7, KernelIs
  <1>8. Returns(n, c, H)
    BY <1>1, <1>2, <1>3, <1>4, <1>6, <1>7 DEF Return, Returns, Holds
  <1>9. \A h \in handles[c] : IsHandle(h) /\ (up => LiveHandle(h))
    BY <1>0, <1>4 DEF CallsInv, LiveInv
  <1>10. \A h, g \in handles[c] : h.fi.fh = g.fi.fh => h = g
    BY <1>0, <1>4 DEF UniqueInv
  <1>11. n \in Owners <=> j.op \in OpenOps /\ j.res = 0
    <2>1. j.phase \notin Unserved
      BY <1>4 DEF Unserved, Done
    <2> QED
      BY <1>1, <1>2, <1>4, <2>1 DEF Owners, Owner
  <1>12. s.res = j.res
    BY <1>4, <1>5, SeenFields
  <1>13. CASE j.op \in OpenOps /\ j.res = 0
    <2>1. PICK g : g = NewHandle(j, s)
      OBVIOUS
    <2>2. H = handles[c] \cup {g}
      BY <1>a, <1>12, <1>13, <2>1 DEF KernelGives, NewHandle, OpenOps
    <2>3. IsHandle(g) /\ g.fi.fh = Fh(j) /\ (LiveCall(j) => LiveHandle(g))
      BY <1>4, <1>5, <1>13, <2>1, NewHandleIs
    <2>4. up => LiveCall(j)
      BY <1>0, <1>2, <1>11, <1>13 DEF LiveInv
    <2>5. \A h \in handles[c] : h.fi.fh # g.fi.fh
      BY <1>0, <1>2, <1>4, <1>11, <1>13, <2>3 DEF UniqueInv
    <2>6. Inherits(n, c, H)
      <3>1. \A h, i \in H : h.fi.fh = i.fi.fh => h = i
        BY <1>10, <2>2, <2>5
      <3>2. n \in Owners /\ g \in H /\ g.fi.fh = Fh(call[n])
        BY <1>2, <1>11, <1>13, <2>2, <2>3
      <3>3. \A h \in H : (\E i \in handles[c] : i.fi.fh = h.fi.fh) \/ (n \in Owners /\ h.fi.fh = Fh(call[n]))
        BY <2>2, <3>2
      <3>4. \A i \in handles[c] : \E h \in H : h.fi.fh = i.fi.fh
        BY <2>2
      <3> QED
        BY <3>1, <3>2, <3>3, <3>4 DEF Inherits
    <2>7. \A h \in H : IsHandle(h) /\ (up => LiveHandle(h))
      BY <1>9, <2>2, <2>3, <2>4
    <2> QED
      BY <1>8, <2>6, <2>7, ReturnStep
  <1>14. CASE j.op = "readdir"
    <2>1. PICK h \in handles[c] : h.kind = "dir" /\ h.fi = j.args.fi /\ h.off = j.args.offset
      BY <1>3, <1>4, <1>14 DEF HeldBy
    <2>2. j.args.fi.fh # 0
      <3>1. h.fi.fh \in Dirps
        BY <1>9, <2>1, "file" # "dir" DEF IsHandle
      <3> QED
        BY <2>1, <3>1, LocalOpsAssumption
    <2>3. j.held = {h}
      <3>1. j.held = HandleOf(c, j.args)
        BY <1>3, <1>4, <1>14 DEF HeldBy, CloseOps
      <3> QED
        BY <1>10, <2>1, <2>2, <3>1 DEF HandleOf
    <2>4. j.reply.ents = Page(h.all, j.args.offset)
      BY <1>4, <1>14, <2>3 DEF HeldBy
    <2>5. j.room \in Rooms /\ s.ents = PageOf(h.all, h.off, j.room)
      BY <1>4, <1>5, <1>9, <1>14, <2>1, <2>4, SeenPage
    <2>6. PICK g : g = Advanced(h, s.ents)
      OBVIOUS
    <2>7. IsHandle(g) /\ g.kind = "dir" /\ g.fi = h.fi /\ g.all = h.all
      <3>1. PICK ents, room : ents = s.ents /\ room = j.room
        OBVIOUS
      <3>2. IsHandle(h) /\ h.kind = "dir" /\ room \in Rooms /\ ents = PageOf(h.all, h.off, room) /\ g = Advanced(h, ents)
        BY <1>9, <2>1, <2>5, <2>6, <3>1
      <3> QED
        BY ONLY <3>2, PageHandle, Zenon
    <2>8. LiveHandle(h) => LiveHandle(g)
      BY <2>1, <2>7 DEF LiveHandle
    <2>9. H = {IF x \in {h} THEN g ELSE x : x \in handles[c]}
      <3>1. H = {IF x \in j.held THEN Advanced(x, s.ents) ELSE x : x \in handles[c]}
        BY <1>a, <1>14 DEF KernelGives
      <3>2. \A x : (IF x \in j.held THEN Advanced(x, s.ents) ELSE x) = IF x \in {h} THEN g ELSE x
        BY <2>3, <2>6
      <3> QED
        BY <3>1, <3>2
    <2>10. \A y : y \in H <=> y = g \/ (y \in handles[c] /\ y # h)
      BY <2>1, <2>9
    <2>11. n \notin Owners
      BY <1>11, <1>14 DEF OpenOps
    <2>12. Inherits(n, c, H)
      <3>1. ASSUME NEW x \in H, NEW y \in H, x.fi.fh = y.fi.fh PROVE x = y
        <4>1. (x = g \/ (x \in handles[c] /\ x # h)) /\ (y = g \/ (y \in handles[c] /\ y # h))
          BY <2>10, <3>1
        <4>2. g.fi.fh = h.fi.fh
          BY <2>7
        <4>3. ASSUME NEW z \in handles[c], z # h PROVE z.fi.fh # g.fi.fh
          BY <1>10, <2>1, <4>2, <4>3
        <4> QED
          BY <1>10, <3>1, <4>1, <4>3
      <3>2. \A x \in H : (\E y \in handles[c] : y.fi.fh = x.fi.fh) \/ (n \in Owners /\ x.fi.fh = Fh(call[n]))
        BY <2>1, <2>7, <2>10
      <3>3. \A y \in handles[c] : \E x \in H : x.fi.fh = y.fi.fh
        BY <2>7, <2>10
      <3> QED
        BY <2>11, <3>1, <3>2, <3>3 DEF Inherits
    <2>13. \A x \in H : IsHandle(x) /\ (up => LiveHandle(x))
      BY <1>9, <2>1, <2>7, <2>8, <2>10
    <2> QED
      BY <1>8, <2>12, <2>13, ReturnStep
  <1>15. CASE ~(j.op \in OpenOps /\ j.res = 0) /\ j.op # "readdir"
    <2>1. H = handles[c]
      BY <1>a, <1>12, <1>15 DEF KernelGives
    <2>2. Inherits(n, c, H)
      <3>1. n \notin Owners
        BY <1>11, <1>15
      <3>2. \A x \in H : (\E y \in handles[c] : y.fi.fh = x.fi.fh) \/ (n \in Owners /\ x.fi.fh = Fh(call[n]))
        BY <2>1
      <3> QED
        BY <1>10, <2>1, <3>1, <3>2 DEF Inherits
    <2> QED
      BY <1>8, <1>9, <2>1, <2>2, ReturnStep
  <1> QED
    BY <1>13, <1>14, <1>15

-----------------------------------------------------------------------------
(* The client gives up.                                                    *)

LEMMA FailIs ==
  ASSUME CallsInv, NEW n \in Numbers, Fail(n), NEW j, j = call[n]
  PROVE  IsCall(j) /\ \E k : Changes(n, k) /\ GivesUp(j, k)
  <1>1. n \in Active /\ j.waits /\ IsCall(j)
    BY SetsAre DEF Fail, CallsInv
  <1>2. PICK p \in (IF j.phase = "sent" THEN {"sent", "lost"} ELSE {j.phase}) :
          call' = [call EXCEPT ![n] = Settle([j EXCEPT !.waits = FALSE, !.phase = p])]
    BY DEF Fail
  <1>3. PICK i : i = Put(j, FALSE, p)
    OBVIOUS
  <1>4. PICK k : k = Settle(i)
    OBVIOUS
  <1>5. Changes(n, k)
    <2>1. [j EXCEPT !.waits = FALSE, !.phase = p] = i
      <3>1. IsCall(j)
        BY <1>1
      <3>2. /\ [j EXCEPT !.phase = p] = Put(j, j.waits, p)
            /\ [j EXCEPT !.waits = FALSE] = Put(j, FALSE, j.phase)
            /\ [j EXCEPT !.waits = FALSE, !.phase = p] = Put(j, FALSE, p)
        BY ONLY <3>1, PutIs, Zenon
      <3> QED
        BY ONLY <1>3, <3>2, Zenon
    <2> QED
      BY <1>2, <1>4, <2>1 DEF Changes, Fail
  <1>6. i.waits = FALSE /\ i.phase = p
    BY ONLY <1>3, SMT DEF Put
  <1>7. GivesUp(j, k)
    <2>1. CASE p \in {"deleted", "lost"}
      BY <1>4, <1>6, <2>1 DEF Settle, GivesUp
    <2>2. CASE p \notin {"deleted", "lost"}
      <3>1. k = i
        BY <1>4, <1>6, <2>2 DEF Settle
      <3>2. p = j.phase
        BY <1>2, <2>2
      <3>3. p \in Unserved \cup Done /\ FALSE \in BOOLEAN /\ p # "deleted"
        BY <1>1, <2>2, <3>2 DEF IsCall
      <3>4. Follows(j, i)
        BY <1>1, <1>3, <3>2, <3>3, PutKeeps
      <3>5. IsCall(i) /\ Fh(i) = Fh(j) /\ i.op = j.op /\ (LiveCall(j) => LiveCall(i))
            /\ (Owner(i) <=> j.op \in CloseOps /\ p \in Unserved)
        BY <1>6, <3>4 DEF Follows
      <3>6. Owner(i) => Owner(j)
        BY <3>2, <3>5 DEF Owner
      <3>7. ASSUME IsOrphan(i) PROVE ~Owner(j)
        BY <1>6, <3>2, <3>5, <3>7 DEF IsOrphan, Owner, CloseOps, Unserved, Done
      <3> QED
        BY <1>6, <3>1, <3>5, <3>6, <3>7 DEF GivesUp
    <2> QED
      BY <2>1, <2>2
  <1> QED
    BY <1>1, <1>5, <1>7

LEMMA FailKeeps == ASSUME IndInv, NEW n \in Numbers, Fail(n) PROVE IndInv'
  <1>0. /\ fs' = fs /\ dirs' = dirs /\ up' = up /\ handles' = handles
        /\ fails' = (IF up THEN fails + 1 ELSE fails) /\ n \in Waiting /\ n \in Active
        /\ ServerInv /\ CallsInv /\ HeldInv /\ UniqueInv /\ LiveInv /\ LeakInv /\ Transparent
    BY SetsAre DEF IndInv, Fail
  <1>1. PICK j : j = call[n]
    OBVIOUS
  <1>2. PICK k : Changes(n, k) /\ GivesUp(j, k)
    BY <1>0, <1>1, FailIs
  <1>3. /\ k = Over \/ IsCall(k)
        /\ k # Over => ~k.waits
        /\ k # Over /\ Owner(k) => n \in Owners /\ Fh(k) = Fh(j) /\ (LiveCall(j) => LiveCall(k))
        /\ k # Over /\ IsOrphan(k) => n \notin Owners
    BY <1>0, <1>1, <1>2 DEF GivesUp, Owners
  <1>4. ServerInv'
    BY <1>0 DEF ServerInv, LiveDirs
  <1>5. CallsInv'
    <2>1. HandlesOk'
      BY <1>0 DEF CallsInv, HandlesOk
    <2> QED
      BY <1>0, <1>2, <1>3, <2>1, CallsStep
  <1>6. HeldInv'
    BY <1>0, <1>2, <1>3, HeldStep
  <1>7. UniqueInv'
    <2>1. k # Over /\ Owner(k) => n \in Owners /\ Fh(k) = Fh(call[n])
      BY <1>1, <1>3
    <2> QED
      BY <1>0, <1>2, <2>1, UniqueStep
  <1>8. LiveInv'
    <2>1. \A d : SameFh(d)
      BY <1>0 DEF SameFh, LiveDirs
    <2>2. ASSUME up, k # Over, Owner(k) PROVE LiveCall(k)'
      <3>1. LiveCall(k)
        BY <1>0, <1>1, <1>3, <2>2 DEF LiveInv
      <3> QED
        BY <1>0, <3>1 DEF LiveCall, LiveDirs
    <2>3. /\ up' => up
          /\ up => \A c \in Clients : \A h \in handles[c] : SameFh(h.fi.fh)
          /\ up => \A m \in Owners : m # n => SameFh(Fh(call[m]))
      BY ONLY <1>0, <2>1, Zenon
    <2>4. up /\ k # Over /\ Owner(k) => LiveCall(k)'
      BY ONLY <2>2, Zenon
    <2> QED
      BY ONLY <1>0, <1>2, <2>3, <2>4, LiveStep, Zenon
  <1>9. LeakInv'
    <2>1. fails \in Nat /\ fails' \in Nat /\ (up => fails' = fails + 1)
      BY <1>0, SMT DEF LeakInv
    <2>2. CASE n \in Owners
      <3>1. PICK x : x = Fh(call[n])
        OBVIOUS
      <3>2. ASSUME NEW d \in Leaked' PROVE d \in Leaked \cup {x}
        <4>1. fs.fds[d] # 0
          BY <1>0 DEF Leaked
        <4>2. fs.fds[d] # 0 => d \in Leaked \/ (n \in Owners /\ Fh(call[n]) = d)
          BY <1>0, <1>2, LeakedStep
        <4> QED
          BY <3>1, <4>1, <4>2
      <3>3. Orphans' \subseteq Orphans
        BY <1>0, <1>2, <1>3, <2>2, OrphanStep
      <3>4. Leaked' \subseteq Leaked \cup {x}
        BY <3>2
      <3>5. up' => up
        BY <1>0
      <3> QED
        BY ONLY <1>0, <2>1, <3>3, <3>4, <3>5, LeakStep, Zenon
    <2>3. CASE n \notin Owners
      <3>1. ASSUME NEW d \in Leaked' PROVE d \in Leaked
        <4>1. fs.fds[d] # 0
          BY <1>0 DEF Leaked
        <4>2. fs.fds[d] # 0 => d \in Leaked \/ (n \in Owners /\ Fh(call[n]) = d)
          BY <1>0, <1>2, LeakedStep
        <4> QED
          BY <2>3, <4>1, <4>2
      <3>2. Orphans' \subseteq Orphans \cup {n}
        BY <1>0, <1>2, OrphanStep
      <3>3. Leaked' \subseteq Leaked
        BY <3>1
      <3>4. up' => up
        BY <1>0
      <3> QED
        BY ONLY <1>0, <2>1, <3>2, <3>3, <3>4, LeakStep, Zenon
    <2> QED
      BY <2>2, <2>3
  <1>10. Transparent'
    BY <1>0, <1>2, <1>3, TransparentStep
  <1> QED
    BY <1>4, <1>5, <1>6, <1>7, <1>8, <1>9, <1>10 DEF IndInv

-----------------------------------------------------------------------------
(* The first state.                                                        *)

LEMMA FirstFSIs ==
  ASSUME NEW names, NEW kind, NEW f, f = FirstFS(names, kind)
  PROVE  IsFS(f) /\ Min(Fds) \in Fds /\ f.fds = [d \in Fds |-> IF d = Min(Fds) THEN 1 ELSE 0]
  <1>1. Min(Fds) \in Fds
    BY FileSystemAssumption, MinIs
  <1>2. PICK n, k, a, d, s, m, x :
          /\ n = EmptyFS.names /\ k = EmptyFS.kind /\ a = EmptyFS.attr /\ d = EmptyFS.data
          /\ s = EmptyFS.fds /\ m = Min(Fds) /\ x = [s EXCEPT ![m] = 1]
    OBVIOUS
  <1>3. EmptyFS = [names |-> n, kind |-> k, attr |-> a, data |-> d, fds |-> s]
    BY <1>2, SMT DEF EmptyFS
  <1>4. s = [e \in Fds |-> 0]
    BY <1>2, SMT DEF EmptyFS
  <1>5. PICK b : b = EmptyFS
    OBVIOUS
  <1> DEFINE i == [b EXCEPT !.names = names]
             j == [i EXCEPT !.kind = kind]
  <1>6. b = [names |-> n, kind |-> k, attr |-> a, data |-> d, fds |-> s]
    BY <1>3, <1>5
  <1>7. i = [names |-> names, kind |-> k, attr |-> a, data |-> d, fds |-> s]
    BY ONLY <1>6, SMT
  <1> HIDE DEF i
  <1>8. j = [names |-> names, kind |-> kind, attr |-> a, data |-> d, fds |-> s]
    BY ONLY <1>7, SMT
  <1> HIDE DEF j
  <1>9. j.fds = s
    BY ONLY <1>8, SMT
  <1>10. f = [j EXCEPT !.fds = x]
    BY <1>2, <1>5, <1>9 DEF FirstFS, i, j
  <1>11. f = [names |-> names, kind |-> kind, attr |-> a, data |-> d, fds |-> x]
    BY ONLY <1>8, <1>10, SMT
  <1>12. f.names = names /\ f.kind = kind /\ f.attr = a /\ f.data = d /\ f.fds = x
    BY ONLY <1>11, SMT
  <1>13. x = [e \in Fds |-> IF e = m THEN 1 ELSE 0]
    BY ONLY <1>2, <1>4, SMT
  <1>14. x = [e \in Fds |-> x[e]]
    BY ONLY <1>13, SMT
  <1>15. IsFS(f)
    BY <1>11, <1>12, <1>14 DEF IsFS
  <1> QED
    BY <1>1, <1>2, <1>12, <1>13, <1>15

LEMMA FirstDirIs ==
  ASSUME NEW ents \in Seq(Paths), NEW x, x = FirstDir(ents)
  PROVE  IsDir(x) /\ x.ents = ents
  <1>1. PICK e, p, n, o, z : e = <<>> /\ p = 0 /\ n = 0 /\ o = -1 /\ z = 0
    OBVIOUS
  <1>2. PICK b : b = NoDir
    OBVIOUS
  <1>3. b = [ents |-> e, pos |-> p, entry |-> n, offset |-> o]
    BY <1>1, <1>2 DEF NoDir
  <1> DEFINE i == [b EXCEPT !.ents = ents]
  <1>4. x = [i EXCEPT !.offset = z]
    BY <1>1, <1>2 DEF FirstDir
  <1>5. i = [ents |-> ents, pos |-> p, entry |-> n, offset |-> o]
    BY ONLY <1>3, SMT
  <1> HIDE DEF i
  <1>6. x = [ents |-> ents, pos |-> p, entry |-> n, offset |-> z]
    BY ONLY <1>4, <1>5, SMT
  <1>7. x.ents = ents /\ x.pos = p /\ x.entry = n /\ x.offset = z
    BY ONLY <1>6, SMT
  <1>8. 0 \in Nat /\ 0 \in 0..Len(ents) /\ 0 <= Len(ents)
    BY ONLY ents \in Seq(Paths), SMT
  <1> QED
    BY <1>1, <1>6, <1>7, <1>8 DEF IsDir

LEMMA FirstHandles ==
  ASSUME NEW ents \in Seq(Paths), NEW h, h = FirstFile, NEW g, g = FirstRoot(ents)
  PROVE  /\ IsHandle(h) /\ h.kind = "file" /\ h.ino = 1 /\ h.fi.fh = Min(Fds)
         /\ IsHandle(g) /\ g.kind = "dir" /\ g.all = ents /\ g.fi.fh = Min(Dirps)
         /\ h.fi.fh \in Fds /\ g.fi.fh \in Dirps /\ h.fi.fh # g.fi.fh
  <1>1. Min(Fds) \in Fds /\ Min(Dirps) \in Dirps
    BY FileSystemAssumption, LocalOpsAssumption, MinIs
  <1>2. ASSUME NEW x, NEW fi, fi = [NoFi EXCEPT !.fh = x] PROVE IsFi(fi) /\ fi.fh = x
    <2>1. PICK f, z : NoFi = [flags |-> f, fh |-> z]
      BY DEF NoFi
    <2>2. PICK b : b = NoFi
      OBVIOUS
    <2>3. b = [flags |-> f, fh |-> z] /\ fi = [b EXCEPT !.fh = x]
      BY <1>2, <2>1, <2>2
    <2>4. fi = [flags |-> f, fh |-> x]
      BY ONLY <2>3, SMT
    <2>5. fi.flags = f /\ fi.fh = x
      BY ONLY <2>4, SMT
    <2> QED
      BY <2>4, <2>5 DEF IsFi
  <1>3. PICK hfi, gfi : hfi = [NoFi EXCEPT !.fh = Min(Fds)] /\ gfi = [NoFi EXCEPT !.fh = Min(Dirps)]
    OBVIOUS
  <1>4. IsFi(hfi) /\ hfi.fh = Min(Fds) /\ IsFi(gfi) /\ gfi.fh = Min(Dirps)
    BY <1>2, <1>3
  <1>5. IsHandle(h) /\ h.kind = "file" /\ h.ino = 1 /\ h.fi = hfi
    <2>1. PICK kind, path, ino : kind = "file" /\ path = Files[1] /\ ino = 1
      OBVIOUS
    <2>2. h = [kind |-> kind, path |-> path, fi |-> hfi, ino |-> ino]
      BY <1>3, <2>1 DEF FirstFile, FileHandle
    <2>3. h.kind = kind /\ h.path = path /\ h.fi = hfi /\ h.ino = ino
      BY ONLY <2>2, SMT
    <2> QED
      BY <1>1, <1>4, <2>1, <2>2, <2>3 DEF IsHandle
  <1>6. IsHandle(g) /\ g.kind = "dir" /\ g.all = ents /\ g.fi = gfi
    <2>1. PICK kind, path, off, got, end :
            kind = "dir" /\ path = "/" /\ off = 0 /\ got = <<>> /\ end = FALSE
      OBVIOUS
    <2>2. g = [kind |-> kind, path |-> path, fi |-> gfi, all |-> ents, off |-> off, got |-> got, end |-> end]
      BY <1>3, <2>1 DEF FirstRoot, DirHandle
    <2>3. /\ g.kind = kind /\ g.path = path /\ g.fi = gfi /\ g.all = ents /\ g.off = off /\ g.got = got
          /\ g.end = end
      BY ONLY <2>2, SMT
    <2>4. 0 \in 0..Len(ents) /\ <<>> = SubSeq(ents, 1, 0)
      BY ONLY ents \in Seq(Paths), SMT
    <2> QED
      BY <1>1, <1>4, <2>1, <2>2, <2>3, <2>4 DEF IsHandle
  <1> QED
    BY <1>1, <1>4, <1>5, <1>6, LocalOpsAssumption

LEMMA InitStarts == ASSUME Init PROVE \E names, kind, ents : Starting(FirstFS(names, kind), ents)
  <1> DEFINE at(p) == {i \in DOMAIN Files : Files[i] = p}
  <1>1. PICK names, kind :
          /\ names = [p \in Paths |-> IF at(p) = {} THEN 0 ELSE Min(at(p))]
          /\ kind = [i \in Inodes |-> IF i \in DOMAIN Files THEN "file" ELSE "free"]
    OBVIOUS
  <1>2. StartFS = FirstFS(names, kind)
    BY <1>1 DEF StartFS, FirstFS
  <1>3. PICK ents : ents = Listing(StartFS)
    OBVIOUS
  <1>4. ents \in Seq(Paths)
    BY <1>3, ListsPaths
  <1>5. StartDir = FirstDir(ents)
    BY <1>3 DEF StartDir, FirstDir
  <1>6. StartDir.ents = ents
    BY <1>4, <1>5, FirstDirIs
  <1>7. Starting(StartFS, ents)
    BY <1>4, <1>5, <1>6 DEF Init, Starting, FirstFile, FirstRoot
  <1> QED
    BY <1>2, <1>7

LEMMA InitHolds == Init => IndInv
  <1> SUFFICES ASSUME Init PROVE IndInv
    OBVIOUS
  <1>1. PICK f, ents, names, kind : f = FirstFS(names, kind) /\ Starting(f, ents)
    BY InitStarts
  <1>2. IsFS(f) /\ Min(Fds) \in Fds /\ f.fds = [d \in Fds |-> IF d = Min(Fds) THEN 1 ELSE 0]
    BY <1>1, FirstFSIs
  <1>3. PICK x : x = FirstDir(ents)
    OBVIOUS
  <1>4. IsDir(x) /\ x.ents = ents /\ x # NoDir
    BY <1>1, <1>3, FirstDirIs, DirIsLive DEF Starting
  <1>5. PICK h, g : h = FirstFile /\ g = FirstRoot(ents)
    OBVIOUS
  <1>6. /\ IsHandle(h) /\ h.kind = "file" /\ h.ino = 1 /\ h.fi.fh = Min(Fds)
        /\ IsHandle(g) /\ g.kind = "dir" /\ g.all = ents /\ g.fi.fh = Min(Dirps)
        /\ h.fi.fh \in Fds /\ g.fi.fh \in Dirps /\ h.fi.fh # g.fi.fh
    <2>1. ents \in Seq(Paths)
      BY <1>1 DEF Starting
    <2> QED
      BY ONLY <1>5, <2>1, FirstHandles
  <1>7. /\ handles = [c \in Clients |-> handles[c]]
        /\ \A c \in Clients : handles[c] = IF c = Opener THEN {h, g} ELSE {}
    BY <1>1, <1>5 DEF Starting
  <1>8. /\ dirs = [d \in Dirps |-> dirs[d]] /\ dirs[g.fi.fh] = x
        /\ \A d \in Dirps : dirs[d] # NoDir => d = g.fi.fh
    BY <1>1, <1>3, <1>6 DEF Starting
  <1>9. fs = f /\ call = [n \in Numbers |-> call[n]] /\ \A n \in Numbers : call[n] = NoCall
    BY <1>1 DEF Starting
  <1>10. Active = {} /\ Waiting = {} /\ Owners = {} /\ Orphans = {}
    BY <1>9 DEF Active, Waiting, Owners, Orphans
  <1>11. ServerInv
    BY <1>2, <1>4, <1>8, <1>9 DEF ServerInv, LiveDirs
  <1>12. CallsInv
    <2>1. \A c \in Clients : \A e \in handles[c] : IsHandle(e)
      BY <1>6, <1>7
    <2> QED
      BY <1>1, <1>7, <1>9, <1>10, <2>1 DEF CallsInv, Starting
  <1>13. HeldInv
    BY <1>10 DEF HeldInv
  <1>14. UniqueInv
    <2>1. ASSUME NEW c \in Clients, NEW d \in Clients, NEW e \in handles[c], NEW i \in handles[d],
                 e.fi.fh = i.fi.fh
          PROVE  c = d /\ e = i
      <3>1. c = Opener /\ d = Opener /\ e \in {h, g} /\ i \in {h, g}
        BY <1>7, <2>1
      <3> QED
        BY <1>6, <2>1, <3>1
    <2> QED
      BY <1>10, <2>1 DEF UniqueInv
  <1>15. LiveInv
    <2>1. LiveHandle(h)
      <3>1. f.fds[h.fi.fh] = 1
        BY <1>2, <1>6
      <3>2. 1 # 0
        BY ONLY SMT
      <3> QED
        BY <1>6, <1>9, <3>1, <3>2 DEF LiveHandle
    <2>2. LiveHandle(g)
      BY <1>4, <1>6, <1>8, "file" # "dir" DEF LiveHandle, LiveDirs
    <2> QED
      BY <1>7, <1>10, <2>1, <2>2 DEF LiveInv
  <1>16. LeakInv
    <2>1. Leaked = {}
      <3>1. ASSUME NEW d \in Leaked PROVE FALSE
        <4>1. d \in Fds /\ fs.fds[d] # 0 /\ \A c \in Clients : \A e \in handles[c] : e.fi.fh # d
          BY DEF Leaked
        <4>2. d = Min(Fds)
          BY <1>2, <1>9, <4>1
        <4> QED
          BY <1>6, <1>7, <4>1, <4>2, RemoteOpsAssumption
      <3> QED
        BY <3>1
    <2>2. fails = 0 /\ Cardinality(Leaked) = 0 /\ Cardinality(Orphans) = 0
      BY <1>1, <1>10, <2>1, FS_EmptySet DEF Starting
    <2> QED
      BY ONLY <2>2, SMT DEF LeakInv
  <1>17. Transparent
    BY <1>10 DEF Transparent
  <1> QED
    BY <1>11, <1>12, <1>13, <1>14, <1>15, <1>16, <1>17 DEF IndInv

-----------------------------------------------------------------------------
(* The invariant.                                                          *)

LEMMA NextKeeps == IndInv /\ [Next]_vars => IndInv'
  <1> SUFFICES ASSUME IndInv, [Next]_vars PROVE IndInv'
    OBVIOUS
  <1>1. ASSUME NEW c \in Clients, NEW op \in load.ops, NEW a \in Arguments(c, op),
               NEW room \in (IF op = "readdir" THEN Rooms ELSE {0}), Issue(c, op, a, room)
        PROVE  IndInv'
    BY <1>1, IssueKeeps
  <1>2. ASSUME NEW n \in Numbers, Accept(n) PROVE IndInv'
    BY <1>2, AcceptKeeps
  <1>3. ASSUME NEW n \in Numbers, Poll(n) PROVE IndInv'
    BY <1>3, PollKeeps
  <1>4. ASSUME NEW n \in Numbers, Process(n) PROVE IndInv'
    BY <1>4, ProcessKeeps
  <1>5. ASSUME NEW n \in Numbers, Crash(n) PROVE IndInv'
    BY <1>5, CrashKeeps
  <1>6. ASSUME NEW n \in Numbers, Delete(n) PROVE IndInv'
    BY <1>6, DeleteKeeps
  <1>7. ASSUME NEW n \in Numbers, Return(n) PROVE IndInv'
    BY <1>7, ReturnKeeps
  <1>8. ASSUME NEW n \in Numbers, Fail(n) PROVE IndInv'
    BY <1>8, FailKeeps
  <1>9. CASE UNCHANGED vars
    <2>0. /\ fs' = fs /\ dirs' = dirs /\ up' = up /\ call' = call /\ handles' = handles
          /\ fails' = fails /\ load' = load
      BY <1>9 DEF vars
    <2>1. Active' = Active /\ Waiting' = Waiting /\ Owners' = Owners /\ Orphans' = Orphans /\ Numbers' = Numbers
      BY <2>0 DEF Active, Waiting, Owners, Orphans, Numbers
    <2>2. ServerInv' /\ CallsInv'
      BY <2>0, <2>1 DEF IndInv, ServerInv, CallsInv, LiveDirs
    <2>3. HeldInv'
      <3>1. HeldInv
        BY DEF IndInv
      <3> QED
        BY ONLY <2>0, <2>1, <3>1, SMT DEF HeldInv, HeldBy, HandleOf
    <2>4. UniqueInv'
      <3>1. UniqueInv
        BY DEF IndInv
      <3> QED
        BY ONLY <2>0, <2>1, <3>1, SMT DEF UniqueInv, Fh
    <2>5. LiveInv'
      BY <2>0, <2>1 DEF IndInv, LiveInv, LiveHandle, LiveCall, LiveDirs
    <2>6. LeakInv'
      <3>1. Leaked' = Leaked
        BY <2>0, <2>1 DEF Leaked
      <3> QED
        BY <2>0, <2>1, <3>1 DEF IndInv, LeakInv
    <2>7. Transparent'
      <3>1. AllShow
        BY TransparentIs DEF IndInv
      <3>2. AllShow'
        BY <2>0, <2>1, <3>1 DEF AllShow
      <3>3. Transparent' <=> AllShow'
        BY TransparentIs, PTL
      <3> QED
        BY <3>2, <3>3
    <2> QED
      BY <2>2, <2>3, <2>4, <2>5, <2>6, <2>7 DEF IndInv
  <1>10. CASE Next
    BY <1>1, <1>2, <1>3, <1>4, <1>5, <1>6, <1>7, <1>8, <1>10 DEF Next
  <1> QED
    BY <1>9, <1>10

\* Every reachable state satisfies the invariant.
THEOREM RemoteOpsInvariant == Spec => []IndInv
  BY InitHolds, NextKeeps, PTL DEF Spec

\* What the operation gives on the server reaches FUSE: the request holds all it
\* needs and the reply all it leaves.
THEOREM TransparentAlways == Spec => []Transparent
  <1>1. IndInv => Transparent
    BY DEF IndInv
  <1> QED
    BY <1>1, RemoteOpsInvariant, PTL

LEMMA RightFileHolds == IndInv => RightFile
  <1> SUFFICES ASSUME IndInv PROVE RightFile
    OBVIOUS
  <1>1. ASSUME NEW n \in Waiting, call[n].op \in FileOps, call[n].phase \in {"finished", "deleted"},
               NEW h \in call[n].held
        PROVE  call[n].acted = h.ino
    <2>1. HeldBy(call[n]) /\ call[n].phase \in Done
      BY <1>1 DEF IndInv, HeldInv, Done
    <2> QED
      BY <1>1, <2>1 DEF HeldBy
  <1>2. \A c, d \in Clients : \A h \in handles[c], g \in handles[d] : h.fi.fh = g.fi.fh => c = d /\ h = g
    BY DEF IndInv, UniqueInv
  <1>3. ASSUME up, NEW c \in Clients, NEW h \in handles[c]
        PROVE  IF h.kind = "file" THEN fs.fds[h.fi.fh] = h.ino ELSE h.fi.fh \in LiveDirs(dirs)
    BY <1>3 DEF IndInv, LiveInv, LiveHandle
  <1> QED
    BY <1>1, <1>2, <1>3 DEF RightFile

\* A call acts on the file its handle was opened for, no two handles share a
\* descriptor, and what a kernel holds open is open on the server as long as it runs.
THEOREM RightFileAlways == Spec => []RightFile
  BY RightFileHolds, RemoteOpsInvariant, PTL

LEMMA PagesCompleteHolds == IndInv => PagesComplete
  <1> SUFFICES ASSUME IndInv, NEW c \in Clients, NEW h \in handles[c], h.kind = "dir"
               PROVE  h.got = SubSeq(h.all, 1, Len(h.got)) /\ (h.end => h.got = h.all)
    BY DEF PagesComplete
  <1>1. /\ h.all \in Seq(Paths) /\ h.off \in 0..Len(h.all) /\ h.got = SubSeq(h.all, 1, h.off)
        /\ h.end => h.off = Len(h.all)
    BY "file" # "dir" DEF IndInv, CallsInv, IsHandle
  <1>2. PICK all, off, got : all = h.all /\ off = h.off /\ got = h.got
    OBVIOUS
  <1>3. all \in Seq(Paths) /\ off \in 0..Len(all) /\ got = SubSeq(all, 1, off)
    BY <1>1, <1>2
  <1>4. Len(got) = off /\ (off = Len(all) => got = all)
    BY ONLY <1>3, SMT
  <1> QED
    BY <1>1, <1>2, <1>3, <1>4

\* A directory read page by page, in buffers of any size, gives every entry once and
\* in order.
THEOREM PagesCompleteAlways == Spec => []PagesComplete
  BY PagesCompleteHolds, RemoteOpsInvariant, PTL

LEMMA OnlyUtimensMissingHolds == IndInv => OnlyUtimensMissing
  <1> SUFFICES ASSUME IndInv, up, NEW n \in At("process"),
                      Segfaults(call[n].op, Message(call[n].request, Handlers[call[n].op].uses, NoArgs)),
                      call[n].waits, call[n].op # "utimens"
               PROVE  FALSE
    BY DEF OnlyUtimensMissing
  <1>1. PICK j : j = call[n]
    OBVIOUS
  <1>2. n \in Active /\ n \in Waiting /\ j.phase = "process" /\ IsCall(j) /\ HeldBy(j)
    BY <1>1 DEF At, Waiting, IndInv, CallsInv, HeldInv
  <1>3. PICK a : a = Received(j.op, j.args)
    OBVIOUS
  <1>4. j.op \in Offered /\ IsArgs(j.op, j.args) /\ Segfaults(j.op, a)
    BY <1>1, <1>2, <1>3 DEF IsCall, Received
  <1>5. a.fi = j.args.fi
    BY <1>3, <1>4, ReceivedAlike DEF Alike
  <1>6. j.op \in LocalInstalled
    BY <1>1, <1>4, Table DEF Fits
  <1>7. j.op \in {"readdir", "releasedir"} /\ j.args.fi.fh \notin LiveDirs(dirs)
    BY <1>4, <1>5, <1>6 DEF Segfaults
  <1>8. CASE j.op = "readdir"
    <2>1. PICK h \in handles[j.client] : h.kind = "dir" /\ h.fi = j.args.fi
      BY <1>2, <1>8 DEF HeldBy
    <2>2. LiveHandle(h)
      BY <1>2, <2>1 DEF IndInv, LiveInv, IsCall
    <2> QED
      BY <1>7, <2>1, <2>2, "file" # "dir" DEF LiveHandle
  <1>9. CASE j.op = "releasedir"
    <2>1. n \in Owners
      BY <1>1, <1>2, <1>9 DEF Owners, Owner, CloseOps, Unserved
    <2>2. LiveCall(j)
      BY <1>1, <2>1 DEF IndInv, LiveInv
    <2>3. Fh(j) = j.args.fi.fh
      BY <1>9 DEF Fh, OpenOps
    <2> QED
      BY <1>7, <1>9, <2>2, <2>3 DEF LiveCall
  <1> QED
    BY <1>7, <1>8, <1>9

\* The server dies of a call only when a client sets the times of a file: a directory
\* stream a client waits on is live.
THEOREM OnlyUtimensMissingAlways == Spec => []OnlyUtimensMissing
  BY OnlyUtimensMissingHolds, RemoteOpsInvariant, PTL

LEMMA ClosedKeeps == IndInv /\ Closed /\ [Next]_vars => Closed'
  <1> SUFFICES ASSUME IndInv, Closed, [Next]_vars PROVE Closed'
    OBVIOUS
  <1>1. ASSUME NEW n \in Numbers, Crash(n) PROVE Closed'
    <2> DEFINE z == [d \in Fds |-> 0]
               g == [fs EXCEPT !.fds = z]
    <2>0. fs = [names |-> fs.names, kind |-> fs.kind, attr |-> fs.attr, data |-> fs.data, fds |-> fs.fds]
      BY DEF IndInv, ServerInv, IsFS
    <2>1. IsFS(g) /\ g.fds = z
      BY <2>0, SMT DEF IsFS
    <2>2. fs' = Collect(g)
      BY <1>1 DEF Crash
    <2> HIDE DEF g
    <2>3. fs'.fds = z
      BY <2>1, <2>2, CollectKeeps DEF Keeps
    <2> QED
      BY <2>3 DEF Closed
  <1>2. ASSUME fs' = fs, up' = up PROVE Closed'
    BY <1>2 DEF Closed
  <1>3. ASSUME NEW n \in Numbers, Process(n) PROVE Closed'
    BY <1>3 DEF Process, Closed
  <1>4. \/ fs' = fs /\ up' = up
        \/ \E n \in Numbers : Process(n) \/ Crash(n)
    BY DEF Next, Issue, Accept, Poll, Delete, Return, Fail, vars
  <1> QED
    BY <1>1, <1>2, <1>3, <1>4

LEMMA OwnedIs ==
    /\ \A c \in Clients : \A h \in handles[c] : h.fi.fh \in Owned
    /\ \A n \in Waiting : call[n].op \in {"open", "create"} => call[n].reply.fi.fh \in Owned
    /\ \A n \in Active : call[n].op = "release" => call[n].args.fi.fh \in Owned
  <1> DEFINE Held == UNION {{h.fi.fh : h \in handles[c]} : c \in Clients}
             N == {m \in Waiting : call[m].op \in {"open", "create"}}
             M == {m \in Active : call[m].op = "release"}
             Opening == {call[n].reply.fi.fh : n \in N}
             Closing == {call[n].args.fi.fh : n \in M}
  <1>1. Owned = Held \cup Opening \cup Closing
    BY DEF Owned
  <1>2. ASSUME NEW c \in Clients, NEW h \in handles[c] PROVE h.fi.fh \in Held
    <2>1. h.fi.fh \in {g.fi.fh : g \in handles[c]}
      OBVIOUS
    <2>2. {g.fi.fh : g \in handles[c]} \in {{g.fi.fh : g \in handles[d]} : d \in Clients}
      OBVIOUS
    <2> QED
      BY <2>1, <2>2
  <1>3. ASSUME NEW n \in Waiting, call[n].op \in {"open", "create"} PROVE n \in N
    BY <1>3
  <1>4. ASSUME NEW n \in Active, call[n].op = "release" PROVE n \in M
    BY <1>4
  <1> HIDE DEF Held, N, M
  <1>5. \A n \in N : call[n].reply.fi.fh \in Opening
    OBVIOUS
  <1>6. \A n \in M : call[n].args.fi.fh \in Closing
    OBVIOUS
  <1> HIDE DEF Opening, Closing
  <1> QED
    BY <1>1, <1>2, <1>3, <1>4, <1>5, <1>6

LEMMA DescriptorsOwnedHolds == IndInv /\ Closed => DescriptorsOwned
  <1> SUFFICES ASSUME IndInv, Closed PROVE DescriptorsOwned
    OBVIOUS
  <1> DEFINE S == {d \in Fds : IsOpen(fs, d)} \ Owned
  <1>0. fails \in Nat /\ IsFiniteSet(Leaked) /\ IsFiniteSet(Orphans)
    BY Finite DEF IndInv, LeakInv
  <1>1. CASE ~up
    <2>1. S = {}
      BY <1>1 DEF Closed, IsOpen
    <2>2. Cardinality(S) = 0
      BY <2>1, FS_EmptySet
    <2> HIDE DEF S
    <2>3. Cardinality(S) <= fails
      BY ONLY <1>0, <2>2, SMT
    <2> QED
      BY <2>3 DEF S, DescriptorsOwned
  <1>2. CASE up
    <2>1. ASSUME NEW d \in S, NEW n \in Owners, Fh(call[n]) = d PROVE FALSE
      <3>1. n \in Active /\ Owner(call[n]) /\ IsCall(call[n])
        BY SetsAre DEF IndInv, CallsInv
      <3>2. d \in Fds /\ d \notin Dirps
        BY LocalOpsAssumption
      <3>3. CASE call[n].op \in {"open", "create"}
        <4>1. n \in Waiting
          BY <3>1, <3>3 DEF Waiting, Owner, CloseOps
        <4>2. d = call[n].reply.fi.fh
          BY <2>1, <3>3 DEF Fh, OpenOps
        <4> QED
          BY <3>3, <4>1, <4>2, OwnedIs
      <3>4. CASE call[n].op = "release"
        <4>1. d = call[n].args.fi.fh
          BY <2>1, <3>4 DEF Fh, OpenOps
        <4> QED
          BY <3>1, <3>4, <4>1, OwnedIs
      <3>5. CASE call[n].op = "opendir"
        <4>1. call[n].reply.fi.fh \in Dirps
          BY <3>1, <3>5 DEF IsCall, Owner, CloseOps, OpenOps
        <4> QED
          BY <2>1, <3>2, <3>5, <4>1 DEF Fh, OpenOps
      <3>6. CASE call[n].op = "releasedir"
        <4>1. call[n].args.fi.fh \in Dirps
          BY <3>1, <3>6 DEF IsCall, IsArgs
        <4> QED
          BY <2>1, <3>2, <3>6, <4>1 DEF Fh, OpenOps
      <3> QED
        BY <3>1, <3>3, <3>4, <3>5, <3>6 DEF Owner, OpenOps, CloseOps
    <2>2. ASSUME NEW d \in S, NEW c \in Clients, NEW h \in handles[c] PROVE h.fi.fh # d
      BY OwnedIs
    <2>3. S \subseteq Leaked
      BY <2>1, <2>2 DEF Leaked, IsOpen
    <2>4. Cardinality(Leaked) + Cardinality(Orphans) <= fails
      BY <1>2 DEF IndInv, LeakInv
    <2> HIDE DEF S
    <2>5. /\ Cardinality(S) \in Nat /\ Cardinality(Leaked) \in Nat /\ Cardinality(Orphans) \in Nat
          /\ Cardinality(S) <= Cardinality(Leaked)
      BY <1>0, <2>3, FS_Subset, FS_CardinalityType
    <2>6. Cardinality(S) <= fails
      BY ONLY <1>0, <2>4, <2>5, SMT
    <2> QED
      BY <2>6 DEF S, DescriptorsOwned
  <1> QED
    BY <1>1, <1>2

\* The server never keeps open more descriptors that nobody will close than calls
\* have failed.
THEOREM DescriptorsOwnedAlways == Spec => []DescriptorsOwned
  <1>1. Init => Closed
    BY DEF Init, Closed
  <1> QED
    BY <1>1, InitHolds, NextKeeps, ClosedKeeps, DescriptorsOwnedHolds, PTL DEF Spec
=============================================================================
