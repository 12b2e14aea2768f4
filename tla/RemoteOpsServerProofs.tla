------------------------ MODULE RemoteOpsServerProofs -----------------------
(***************************************************************************)
(* Remote operations, the server's side: the two tables agree, what each   *)
(* operation of the local layer does to descriptors and streams, and that  *)
(* the steps of the server keep the invariant.                             *)
(***************************************************************************)
EXTENDS RemoteOpsSteps, FiniteSetTheorems, WellFoundedInduction, TLAPS

\* Leaves that need arithmetic, sequences or records cite SMT, the others go to Zenon.
USE Zenon
-----------------------------------------------------------------------------
(* The tables of the two sides.                                            *)

LEMMA CallDomains ==
  /\ DOMAIN AttrCalls = {"getattr", "fgetattr", "access", "readlink"}
  /\ DOMAIN DirCalls = {"opendir", "readdir", "releasedir"}
  /\ DOMAIN NameCalls = {"mknod", "mkdir", "symlink", "unlink", "rmdir", "rename", "link"}
  /\ DOMAIN ChangeCalls = {"chmod", "chown", "truncate", "ftruncate", "utimens"}
  /\ DOMAIN OpenCalls = {"create", "open"}
  /\ DOMAIN DataCalls = {"read", "write"}
  /\ DOMAIN EndCalls = {"statfs", "flush", "release", "fsync"}
  BY SMT DEF AttrCalls, DirCalls, NameCalls, ChangeCalls, OpenCalls, DataCalls, EndCalls

LEMMA HandlerDomains ==
  /\ DOMAIN AttrHandlers = {"getattr", "fgetattr", "access", "readlink"}
  /\ DOMAIN DirHandlers = {"opendir", "readdir", "releasedir"}
  /\ DOMAIN MakeHandlers = {"mknod", "mkdir", "symlink", "unlink"}
  /\ DOMAIN MoveHandlers = {"rmdir", "rename", "link", "chmod"}
  /\ DOMAIN ChangeHandlers = {"chown", "truncate", "ftruncate", "utimens"}
  /\ DOMAIN OpenHandlers = {"create", "open", "read", "write"}
  /\ DOMAIN EndHandlers = {"statfs", "flush", "release", "fsync"}
  BY SMT DEF AttrHandlers, DirHandlers, MakeHandlers, MoveHandlers, ChangeHandlers,
             OpenHandlers, EndHandlers

LEMMA CallsAre ==
  /\ \A op \in DOMAIN AttrCalls : Calls[op] = AttrCalls[op]
  /\ \A op \in DOMAIN DirCalls : Calls[op] = DirCalls[op]
  /\ \A op \in DOMAIN NameCalls : Calls[op] = NameCalls[op]
  /\ \A op \in DOMAIN ChangeCalls : Calls[op] = ChangeCalls[op]
  /\ \A op \in DOMAIN OpenCalls : Calls[op] = OpenCalls[op]
  /\ \A op \in DOMAIN DataCalls : Calls[op] = DataCalls[op]
  /\ \A op \in DOMAIN EndCalls : Calls[op] = EndCalls[op]
  BY CallDomains, SMT DEF Calls, Offered

LEMMA HandlersAre ==
  /\ \A op \in DOMAIN AttrHandlers : Handlers[op] = AttrHandlers[op]
  /\ \A op \in DOMAIN DirHandlers : Handlers[op] = DirHandlers[op]
  /\ \A op \in DOMAIN MakeHandlers : Handlers[op] = MakeHandlers[op]
  /\ \A op \in DOMAIN MoveHandlers : Handlers[op] = MoveHandlers[op]
  /\ \A op \in DOMAIN ChangeHandlers : Handlers[op] = ChangeHandlers[op]
  /\ \A op \in DOMAIN OpenHandlers : Handlers[op] = OpenHandlers[op]
  /\ \A op \in DOMAIN EndHandlers : Handlers[op] = EndHandlers[op]
  BY CallDomains, HandlerDomains, SMT DEF Handlers, Offered

\* No field is lost between sync_client and the call objects of the server.
LEMMA Table == ASSUME NEW op \in Offered PROVE \E s, c : Fits(op, s, c)
  <1> DEFINE P(r) == \E s, c : Fits(r, s, c)
  <1>1. /\ P("getattr")
        /\ P("fgetattr")
        /\ P("access")
        /\ P("readlink")
    <2>1. /\ Row("getattr", {"path"}, {"st"})
          /\ Row("fgetattr", {"path", "fi"}, {"st", "fi"})
          /\ Row("access", {"path", "val"}, {})
          /\ Row("readlink", {"path"}, {"buf"})
      BY CallsAre, HandlersAre, CallDomains, HandlerDomains, SMT DEF Row, AttrCalls, AttrHandlers
    <2>2. /\ Fits("getattr", {"path"}, {"st"})
          /\ Fits("fgetattr", {"path", "fi"}, {"st", "fi"})
          /\ Fits("access", {"path", "val"}, {})
          /\ Fits("readlink", {"path"}, {"buf"})
      BY <2>1 DEF Fits, TwoPathOps, ValOps, FileOps, DirOps, OpenOps, LocalInstalled,
                  AttrOps, NameOps, ChangeOps
    <2> QED
      BY <2>2
  <1>2. /\ P("opendir")
        /\ P("readdir")
        /\ P("releasedir")
    <2>1. /\ Row("opendir", {"path", "fi"}, {"fi"})
          /\ Row("readdir", {"path", "offset", "fi"}, {"ents", "fi"})
          /\ Row("releasedir", {"path", "fi"}, {"fi"})
      BY CallsAre, HandlersAre, CallDomains, HandlerDomains, SMT DEF Row, DirCalls, DirHandlers
    <2>2. /\ Fits("opendir", {"path", "fi"}, {"fi"})
          /\ Fits("readdir", {"path", "offset", "fi"}, {"ents", "fi"})
          /\ Fits("releasedir", {"path", "fi"}, {"fi"})
      BY <2>1 DEF Fits, TwoPathOps, ValOps, FileOps, DirOps, OpenOps, LocalInstalled,
                  AttrOps, NameOps, ChangeOps
    <2> QED
      BY <2>2
  <1>3. /\ P("mknod")
        /\ P("mkdir")
        /\ P("symlink")
        /\ P("unlink")
    <2>1. /\ Row("mknod", {"path", "val"}, {})
          /\ Row("mkdir", {"path", "val"}, {})
          /\ Row("symlink", {"path", "to"}, {})
          /\ Row("unlink", {"path"}, {})
      BY CallsAre, HandlersAre, CallDomains, HandlerDomains, SMT DEF Row, NameCalls, MakeHandlers
    <2>2. /\ Fits("mknod", {"path", "val"}, {})
          /\ Fits("mkdir", {"path", "val"}, {})
          /\ Fits("symlink", {"path", "to"}, {})
          /\ Fits("unlink", {"path"}, {})
      BY <2>1 DEF Fits, TwoPathOps, ValOps, FileOps, DirOps, OpenOps, LocalInstalled,
                  AttrOps, NameOps, ChangeOps
    <2> QED
      BY <2>2
  <1>4. /\ P("rmdir")
        /\ P("rename")
        /\ P("link")
    <2>1. /\ Row("rmdir", {"path"}, {})
          /\ Row("rename", {"path", "to"}, {})
          /\ Row("link", {"path", "to"}, {})
      BY CallsAre, HandlersAre, CallDomains, HandlerDomains, SMT DEF Row, NameCalls, MoveHandlers
    <2>2. /\ Fits("rmdir", {"path"}, {})
          /\ Fits("rename", {"path", "to"}, {})
          /\ Fits("link", {"path", "to"}, {})
      BY <2>1 DEF Fits, TwoPathOps, ValOps, FileOps, DirOps, OpenOps, LocalInstalled,
                  AttrOps, NameOps, ChangeOps
    <2> QED
      BY <2>2
  <1>5. /\ P("chmod")
    <2>1. /\ Row("chmod", {"path", "val"}, {})
      BY CallsAre, HandlersAre, CallDomains, HandlerDomains, SMT DEF Row, ChangeCalls, MoveHandlers
    <2>2. /\ Fits("chmod", {"path", "val"}, {})
      BY <2>1 DEF Fits, TwoPathOps, ValOps, FileOps, DirOps, OpenOps, LocalInstalled,
                  AttrOps, NameOps, ChangeOps
    <2> QED
      BY <2>2
  <1>6. /\ P("chown")
        /\ P("truncate")
        /\ P("ftruncate")
        /\ P("utimens")
    <2>1. /\ Row("chown", {"path", "val"}, {})
          /\ Row("truncate", {"path"}, {})
          /\ Row("ftruncate", {"path", "fi"}, {"fi"})
          /\ Row("utimens", {"path", "val"}, {})
      BY CallsAre, HandlersAre, CallDomains, HandlerDomains, SMT DEF Row, ChangeCalls, ChangeHandlers
    <2>2. /\ Fits("chown", {"path", "val"}, {})
          /\ Fits("truncate", {"path"}, {})
          /\ Fits("ftruncate", {"path", "fi"}, {"fi"})
          /\ Fits("utimens", {"path", "val"}, {})
      BY <2>1 DEF Fits, TwoPathOps, ValOps, FileOps, DirOps, OpenOps, LocalInstalled,
                  AttrOps, NameOps, ChangeOps
    <2> QED
      BY <2>2
  <1>7. /\ P("create")
        /\ P("open")
    <2>1. /\ Row("create", {"path", "val", "fi"}, {"fi"})
          /\ Row("open", {"path", "fi"}, {"fi"})
      BY CallsAre, HandlersAre, CallDomains, HandlerDomains, SMT DEF Row, OpenCalls, OpenHandlers
    <2>2. /\ Fits("create", {"path", "val", "fi"}, {"fi"})
          /\ Fits("open", {"path", "fi"}, {"fi"})
      BY <2>1 DEF Fits, TwoPathOps, ValOps, FileOps, DirOps, OpenOps, LocalInstalled,
                  AttrOps, NameOps, ChangeOps
    <2> QED
      BY <2>2
  <1>8. /\ P("read")
        /\ P("write")
    <2>1. /\ Row("read", {"path", "offset", "fi"}, {"buf", "fi"})
          /\ Row("write", {"path", "val", "offset", "fi"}, {"fi"})
      BY CallsAre, HandlersAre, CallDomains, HandlerDomains, SMT DEF Row, DataCalls, OpenHandlers
    <2>2. /\ Fits("read", {"path", "offset", "fi"}, {"buf", "fi"})
          /\ Fits("write", {"path", "val", "offset", "fi"}, {"fi"})
      BY <2>1 DEF Fits, TwoPathOps, ValOps, FileOps, DirOps, OpenOps, LocalInstalled,
                  AttrOps, NameOps, ChangeOps
    <2> QED
      BY <2>2
  <1>9. /\ P("statfs")
        /\ P("flush")
        /\ P("release")
        /\ P("fsync")
    <2>1. /\ Row("statfs", {"path"}, {"st"})
          /\ Row("flush", {"path", "fi"}, {"fi"})
          /\ Row("release", {"path", "fi"}, {"fi"})
          /\ Row("fsync", {"path", "fi"}, {"fi"})
      BY CallsAre, HandlersAre, CallDomains, HandlerDomains, SMT DEF Row, EndCalls, EndHandlers
    <2>2. /\ Fits("statfs", {"path"}, {"st"})
          /\ Fits("flush", {"path", "fi"}, {"fi"})
          /\ Fits("release", {"path", "fi"}, {"fi"})
          /\ Fits("fsync", {"path", "fi"}, {"fi"})
      BY <2>1 DEF Fits, TwoPathOps, ValOps, FileOps, DirOps, OpenOps, LocalInstalled,
                  AttrOps, NameOps, ChangeOps
    <2> QED
      BY <2>2
  <1> HIDE DEF P
  <1>10. P(op)
    BY CallDomains, <1>1, <1>2, <1>3, <1>4, <1>5, <1>6, <1>7, <1>8, <1>9 DEF Offered
  <1> QED
    BY <1>10 DEF P

-----------------------------------------------------------------------------
(* Smallest elements.                                                      *)

LEMMA MinIs ==
  ASSUME NEW S, S \subseteq Nat, S # {}
  PROVE  Min(S) \in S /\ \A m \in S : Min(S) <= m
  <1> DEFINE R == {ss \in Nat \X Nat : ss[1] < ss[2]}
  <1>1. IsWellFoundedOn(R, Nat)
    BY NatLessThanWellFounded DEF OpToRel
  <1> HIDE DEF R
  <1>2. PICK n \in S : \A m \in S : <<m, n>> \notin R
    BY <1>1, WFMin
  <1>3. ASSUME NEW m \in S PROVE n <= m
    <2>1. m \in Nat /\ n \in Nat
      OBVIOUS
    <2>2. m < n => <<m, n>> \in R
      BY <2>1, SMT DEF R
    <2> QED
      BY <1>2, <2>1, <2>2, SMT
  <1>4. \E x \in S : \A y \in S : x <= y
    BY <1>3
  <1> QED
    BY <1>4 DEF Min

LEMMA MinOfTwo ==
  ASSUME NEW a \in Int, NEW b \in Int
  PROVE  Min({a, b}) = IF a <= b THEN a ELSE b
  <1>1. \E x \in {a, b} : \A y \in {a, b} : x <= y
    BY SMT
  <1>2. Min({a, b}) \in {a, b} /\ \A y \in {a, b} : Min({a, b}) <= y
    BY <1>1 DEF Min
  <1> HIDE DEF Min
  <1> QED
    BY <1>2, SMT

-----------------------------------------------------------------------------
(* System calls and the descriptors.                                       *)

LEMMA FieldsKeep ==
  ASSUME NEW f, IsFS(f), NEW v
  PROVE  /\ Keeps(f, [f EXCEPT !.names = v]) /\ [f EXCEPT !.names = v].names = v
         /\ Keeps(f, [f EXCEPT !.kind = v])
         /\ Keeps(f, [f EXCEPT !.attr = v])
         /\ Keeps(f, [f EXCEPT !.data = v])
  BY SMT DEF Keeps, IsFS

LEMMA KeepsTrans == ASSUME NEW f, NEW g, NEW h, Keeps(f, g), Keeps(g, h) PROVE Keeps(f, h)
  BY DEF Keeps

LEMMA CollectKeeps == ASSUME NEW f, IsFS(f) PROVE Keeps(f, Collect(f))
  BY FieldsKeep DEF Collect

LEMMA NamesKeep ==
  ASSUME NEW f, IsFS(f), NEW p, NEW i
  PROVE  /\ Keeps(f, [f EXCEPT !.names[p] = i])
         /\ Keeps(f, Collect([f EXCEPT !.names[p] = i]))
  <1> DEFINE g == [f EXCEPT !.names[p] = i]
  <1>1. Keeps(f, g)
    BY SMT DEF Keeps, IsFS
  <1> HIDE DEF g
  <1>2. Keeps(f, Collect(g))
    BY <1>1, CollectKeeps, KeepsTrans DEF Keeps
  <1> QED
    BY <1>1, <1>2 DEF g

LEMMA EnterKeeps ==
  ASSUME NEW f, IsFS(f), NEW p, NEW kind, NEW attr, NEW data
  PROVE  Keeps(f, Enter(f, p, kind, attr, data).fs)
  <1> DEFINE i == Min(FreeInodes(f))
             g == [f EXCEPT !.names[p] = i, !.kind[i] = kind, !.attr[i] = attr, !.data[i] = data]
  <1>1. Keeps(f, g)
    <2> HIDE DEF i
    <2> DEFINE g1 == [f EXCEPT !.names = [f.names EXCEPT ![p] = i]]
               g2 == [g1 EXCEPT !.kind = [f.kind EXCEPT ![i] = kind]]
               g3 == [g2 EXCEPT !.attr = [f.attr EXCEPT ![i] = attr]]
    <2>1. g = [g3 EXCEPT !.data = [f.data EXCEPT ![i] = data]]
      BY SMT DEF IsFS
    <2> HIDE DEF g
    <2>2. Keeps(f, g1)
      BY FieldsKeep
    <2> HIDE DEF g1
    <2>3. Keeps(f, g2)
      BY <2>2, FieldsKeep, KeepsTrans DEF Keeps
    <2> HIDE DEF g2
    <2>4. Keeps(f, g3)
      BY <2>3, FieldsKeep, KeepsTrans DEF Keeps
    <2> HIDE DEF g3
    <2>5. Keeps(g3, [g3 EXCEPT !.data = [f.data EXCEPT ![i] = data]])
      BY <2>4, FieldsKeep DEF Keeps
    <2> QED
      BY <2>1, <2>4, <2>5, KeepsTrans
  <1>2. Keeps(f, f)
    BY DEF Keeps
  <1>3. Enter(f, p, kind, attr, data).fs \in {f, g}
    BY SMT DEF Enter, Fails, Gives
  <1> QED
    BY <1>1, <1>2, <1>3

LEMMA ReadsKeep ==
  ASSUME NEW f, NEW p, NEW d
  PROVE  /\ lstat(f, p).fs = f /\ fstat(f, d).fs = f /\ access(f, p).fs = f
         /\ readlink(f, p).fs = f /\ pread(f, d).fs = f /\ fsync(f, d).fs = f
  BY SMT DEF lstat, fstat, access, readlink, pread, fsync, OnPath, OnFd, Fails, Gives

LEMMA CutKeeps == ASSUME NEW f, IsFS(f), NEW i PROVE Keeps(f, Cut(f, i).fs)
  <1> DEFINE g == [f EXCEPT !.data[i] = 0]
  <1>1. Keeps(f, f)
    BY DEF Keeps
  <1>2. Keeps(f, g)
    BY SMT DEF Keeps, IsFS
  <1> HIDE DEF g
  <1>3. Cut(f, i).fs \in {f, g}
    BY SMT DEF Cut, Fails, Gives, g
  <1> QED
    BY <1>1, <1>2, <1>3

LEMMA RenameKeeps ==
  ASSUME NEW f, IsFS(f), NEW from, NEW to
  PROVE  Keeps(f, rename(f, from, to).fs)
  <1> DEFINE g == [f EXCEPT !.names[from] = 0, !.names[to] = f.names[from]]
  <1>1. Keeps(f, f)
    BY DEF Keeps
  <1>2. Keeps(f, g)
    <2> DEFINE g1 == [f EXCEPT !.names[from] = 0]
    <2>1. g = [g1 EXCEPT !.names[to] = f.names[from]]
      BY SMT DEF IsFS
    <2>2. Keeps(f, g1)
      BY NamesKeep
    <2> HIDE DEF g, g1
    <2>3. IsFS(g1)
      BY <2>2 DEF Keeps
    <2>4. Keeps(g1, [g1 EXCEPT !.names[to] = f.names[from]])
      BY <2>3, NamesKeep
    <2> QED
      BY <2>1, <2>2, <2>4, KeepsTrans
  <1> HIDE DEF g
  <1>3. Keeps(f, Collect(g))
    BY <1>2, CollectKeeps, KeepsTrans DEF Keeps
  <1>4. rename(f, from, to).fs \in {f, Collect(g)}
    BY SMT DEF rename, OnPath, Fails, Gives, g
  <1> QED
    BY <1>1, <1>3, <1>4

LEMMA WritesKeep ==
  ASSUME NEW f, IsFS(f), NEW p, NEW q, NEW v, NEW d
  PROVE  /\ Keeps(f, mknod(f, p, v).fs) /\ Keeps(f, mkdir(f, p, v).fs)
         /\ Keeps(f, symlink(f, v, q).fs) /\ Keeps(f, unlink(f, p).fs) /\ Keeps(f, rmdir(f, p).fs)
         /\ Keeps(f, link(f, p, q).fs) /\ Keeps(f, setattr(f, p, v).fs)
         /\ Keeps(f, truncate(f, p).fs) /\ Keeps(f, ftruncate(f, d).fs)
         /\ Keeps(f, pwrite(f, d, v).fs)
  <1>0. Keeps(f, f)
    BY DEF Keeps
  <1>1. Keeps(f, mknod(f, p, v).fs) /\ Keeps(f, mkdir(f, p, v).fs) /\ Keeps(f, symlink(f, v, q).fs)
    BY EnterKeeps DEF mknod, mkdir, symlink
  <1>2. Keeps(f, unlink(f, p).fs) /\ Keeps(f, rmdir(f, p).fs)
    <2> DEFINE g == Collect([f EXCEPT !.names[p] = 0])
    <2>1. Keeps(f, g)
      BY NamesKeep
    <2> HIDE DEF g
    <2>2. unlink(f, p).fs \in {f, g} /\ rmdir(f, p).fs \in {f, g}
      BY SMT DEF unlink, rmdir, OnPath, Fails, Gives, g
    <2> QED
      BY <1>0, <2>1, <2>2
  <1>3. Keeps(f, link(f, p, q).fs)
    <2> DEFINE g == [f EXCEPT !.names[q] = f.names[p]]
    <2>1. Keeps(f, g)
      BY NamesKeep
    <2> HIDE DEF g
    <2>2. link(f, p, q).fs \in {f, g}
      BY SMT DEF link, OnPath, Fails, Gives, g
    <2> QED
      BY <1>0, <2>1, <2>2
  <1>4. Keeps(f, setattr(f, p, v).fs)
    <2> DEFINE g == [f EXCEPT !.attr[f.names[p]] = v]
    <2>1. Keeps(f, g)
      BY SMT DEF Keeps, IsFS
    <2> HIDE DEF g
    <2>2. setattr(f, p, v).fs \in {f, g}
      BY SMT DEF setattr, OnPath, Fails, Gives, g
    <2> QED
      BY <1>0, <2>1, <2>2
  <1>5. Keeps(f, truncate(f, p).fs) /\ Keeps(f, ftruncate(f, d).fs)
    <2>1. Keeps(f, Cut(f, f.names[p]).fs) /\ Keeps(f, Cut(f, f.fds[d]).fs)
      BY CutKeeps
    <2>2. truncate(f, p).fs \in {f, Cut(f, f.names[p]).fs} /\ ftruncate(f, d).fs \in {f, Cut(f, f.fds[d]).fs}
      BY SMT DEF truncate, ftruncate, OnPath, OnFd, Fails
    <2> QED
      BY <1>0, <2>1, <2>2
  <1>6. Keeps(f, pwrite(f, d, v).fs)
    <2> DEFINE g == [f EXCEPT !.data[f.fds[d]] = v]
    <2>1. Keeps(f, g)
      BY SMT DEF Keeps, IsFS
    <2> HIDE DEF g
    <2>2. pwrite(f, d, v).fs \in {f, g}
      BY SMT DEF pwrite, OnFd, Fails, Gives, g
    <2> QED
      BY <1>0, <2>1, <2>2
  <1> QED
    BY <1>1, <1>2, <1>3, <1>4, <1>5, <1>6


LEMMA OpenOpens == ASSUME NEW f, IsFS(f), NEW p PROVE Opens(f, open(f, p))
  <1>0. Keeps(f, f)
    BY DEF Keeps
  <1> DEFINE s == open(f, p)
             d == Min(FreeFds(f))
             g == [f EXCEPT !.fds[d] = f.names[p]]
  <1>1. CASE f.names[p] # 0 /\ f.kind[f.names[p]] = "file" /\ FreeFds(f) # {}
    <2>1. d \in FreeFds(f)
      <3>1. FreeFds(f) \subseteq Nat
        BY FileSystemAssumption DEF FreeFds
      <3> QED
        BY <1>1, <3>1, MinIs
    <2>2. s.ret = d /\ s.fs = g
      BY <1>1, SMT DEF open, OnPath, Descriptor, Gives
    <2>3. IsFS(g) /\ g.fds = [f.fds EXCEPT ![d] = f.names[p]]
      <3> HIDE DEF d
      <3> QED
        BY SMT DEF IsFS
    <2> HIDE DEF s, d, g
    <2> QED
      BY <1>1, <2>1, <2>2, <2>3 DEF Opens, s
  <1>2. CASE ~ (f.names[p] # 0 /\ f.kind[f.names[p]] = "file" /\ FreeFds(f) # {})
    <2>1. s.ret = -1 /\ s.errno \in {ENOENT, EISDIR, EMFILE} /\ s.fs = f
      BY <1>2, SMT DEF open, OnPath, Descriptor, Fails
    <2>2. \A e \in {ENOENT, EISDIR, EMFILE} : e \in Nat \ {0}
      BY SMT DEF ENOENT, EISDIR, EMFILE
    <2> HIDE DEF s
    <2> QED
      BY <1>0, <2>1, <2>2 DEF Opens, s
  <1> QED
    BY <1>1, <1>2

LEMMA CreateOpens == ASSUME NEW f, IsFS(f), NEW p, NEW v PROVE Opens(f, openCreate(f, p, v))
  <1> DEFINE s == Enter(f, p, "file", v, 0)
  <1>1. CASE f.names[p] # 0
    BY <1>1, OpenOpens DEF openCreate
  <1>2. CASE f.names[p] = 0 /\ s.ret = -1
    <2>1. Keeps(f, s.fs)
      BY EnterKeeps
    <2>2. s.errno \in {EEXIST, ENOSPC}
      <3> DEFINE g == [f EXCEPT !.names[p] = Min(FreeInodes(f)), !.kind[Min(FreeInodes(f))] = "file",
                          !.attr[Min(FreeInodes(f))] = v, !.data[Min(FreeInodes(f))] = 0]
      <3>1. s = Fails(f, EEXIST) \/ s = Fails(f, ENOSPC) \/ s = Gives(g, 0, 0)
        BY DEF Enter
      <3> HIDE DEF g, s
      <3> QED
        BY <1>2, <3>1, SMT DEF Fails, Gives
    <2>3. \A e \in {EEXIST, ENOSPC} : e \in Nat \ {0}
      BY SMT DEF EEXIST, ENOSPC
    <2>4. openCreate(f, p, v) = s
      BY <1>2 DEF openCreate
    <2> HIDE DEF s
    <2> QED
      BY <1>2, <2>1, <2>2, <2>3, <2>4 DEF Opens
  <1>3. CASE f.names[p] = 0 /\ s.ret # -1
    <2>1. Keeps(f, s.fs)
      BY EnterKeeps
    <2>2. openCreate(f, p, v) = open(s.fs, p)
      BY <1>3 DEF openCreate
    <2> HIDE DEF s
    <2>3. Opens(s.fs, open(s.fs, p))
      BY <2>1, OpenOpens DEF Keeps
    <2>4. FreeFds(s.fs) = FreeFds(f)
      BY <2>1 DEF Keeps, FreeFds
    <2> DEFINE r == open(s.fs, p)
    <2> HIDE DEF r
    <2>5. CASE r.ret = -1 /\ r.errno \in Nat \ {0} /\ Keeps(s.fs, r.fs)
      <3>1. Keeps(f, r.fs)
        BY <2>1, <2>5, KeepsTrans
      <3> QED
        BY <2>2, <2>5, <3>1 DEF Opens, r
    <2>6. CASE \E d \in FreeFds(f) : \E i : /\ i # 0 /\ r.ret = d /\ IsFS(r.fs)
                                            /\ r.fs.fds = [s.fs.fds EXCEPT ![d] = i]
      BY <2>1, <2>2, <2>6 DEF Opens, Keeps, r
    <2> QED
      BY <2>3, <2>4, <2>5, <2>6 DEF Opens, r
  <1> QED
    BY <1>1, <1>2, <1>3

LEMMA CloseIs ==
  ASSUME NEW f, IsFS(f), NEW d
  PROVE  /\ IsFS(close(f, d).fs)
         /\ close(f, d).fs.fds = IF IsOpen(f, d) THEN [f.fds EXCEPT ![d] = 0] ELSE f.fds
  <1> DEFINE g == [f EXCEPT !.fds[d] = 0]
  <1>1. IsFS(g) /\ g.fds = [f.fds EXCEPT ![d] = 0]
    BY SMT DEF IsFS
  <1>2. close(f, d).fs = IF IsOpen(f, d) THEN Collect(g) ELSE f
    BY SMT DEF close, OnFd, Gives, Fails
  <1> HIDE DEF g
  <1>3. Keeps(g, Collect(g))
    BY <1>1, CollectKeeps
  <1> QED
    BY <1>1, <1>2, <1>3 DEF Keeps

-----------------------------------------------------------------------------
(* The operations of the local layer.                                      *)

LEMMA AttrFrame ==
  ASSUME NEW f, IsFS(f), NEW ds, NEW a, NEW op \in AttrOps
  PROVE  Frame(op, f, ds, a, LocalAttr(op, f, ds, a))
  <1> DEFINE s == CASE op = "getattr" -> lstat(f, a.path)
                    [] op = "fgetattr" -> fstat(f, a.fi.fh)
                    [] op = "access" -> access(f, a.path)
                    [] op = "readlink" -> readlink(f, a.path)
                    [] op = "flush" -> IF FreeFds(f) = {} THEN Fails(f, EBADF)
                                       ELSE fstat(f, a.fi.fh)
             o == Checked(s, ds, a)
  <1>1. s.fs = f
    <2>1. Fails(f, EBADF).fs = f
      BY DEF Fails
    <2> QED
      BY <2>1, ReadsKeep, SMT DEF AttrOps
  <1>2. LocalAttr(op, f, ds, a) = IF op = "readlink" THEN [o EXCEPT !.buf = s.out]
                                  ELSE IF op \in {"getattr", "fgetattr"} THEN [o EXCEPT !.st = s.out]
                                  ELSE o
    BY DEF LocalAttr
  <1> HIDE DEF s
  <1> QED
    BY <1>1, <1>2, SMT DEF Frame, Checked, Outcome, AttrOps, DirOps, OpenOps

LEMMA CheckedFrame ==
  ASSUME NEW f, NEW ds, NEW a, NEW op, NEW s, Keeps(f, s.fs)
  PROVE  Frame(op, f, ds, a, Checked(s, ds, a))
  BY SMT DEF Frame, Checked, Outcome, Keeps

LEMMA NamesFrame ==
  ASSUME NEW f, IsFS(f), NEW ds, NEW a, NEW op \in NameOps
  PROVE  Frame(op, f, ds, a, LocalNames(op, f, ds, a))
  <1> DEFINE s == CASE op = "mknod" -> IF FreeFds(f) = {} THEN Fails(f, EMFILE)
                                       ELSE mknod(f, a.path, a.val)
                    [] op = "mkdir" -> mkdir(f, a.path, a.val)
                    [] op = "unlink" -> unlink(f, a.path)
                    [] op = "rmdir" -> rmdir(f, a.path)
                    [] op = "symlink" -> symlink(f, Rooted(a.path), a.to)
                    [] op = "rename" -> rename(f, a.path, a.to)
                    [] op = "link" -> link(f, a.path, a.to)
  <1>1. Fails(f, EMFILE).fs = f /\ Keeps(f, f)
    BY DEF Fails, Keeps
  <1>2. Keeps(f, s.fs)
    BY <1>1, WritesKeep, RenameKeeps, SMT DEF NameOps
  <1>3. LocalNames(op, f, ds, a) = Checked(s, ds, a)
    BY DEF LocalNames
  <1> HIDE DEF s
  <1> QED
    BY <1>2, <1>3, CheckedFrame

LEMMA ChangesFrame ==
  ASSUME NEW f, IsFS(f), NEW ds, NEW a, NEW op \in ChangeOps
  PROVE  Frame(op, f, ds, a, LocalChanges(op, f, ds, a))
  <1> DEFINE s == CASE op \in {"chmod", "chown"} -> setattr(f, a.path, a.val)
                    [] op = "ftruncate" -> ftruncate(f, a.fi.fh)
                    [] op = "truncate" -> truncate(f, a.path)
  <1>1. Keeps(f, s.fs)
    BY WritesKeep, SMT DEF ChangeOps
  <1>2. LocalChanges(op, f, ds, a) = Checked(s, ds, a)
    BY DEF LocalChanges
  <1> HIDE DEF s
  <1> QED
    BY <1>1, <1>2, CheckedFrame

LEMMA DataFrame ==
  ASSUME NEW f, IsFS(f), NEW ds, NEW a, NEW op \in {"read", "write"}
  PROVE  Frame(op, f, ds, a, LocalData(op, f, ds, a))
  <1> DEFINE s == IF op = "read" THEN pread(f, a.fi.fh) ELSE pwrite(f, a.fi.fh, a.val)
             y == IF op = "write" THEN fsync(s.fs, a.fi.fh) ELSE s
             r == IF y.ret = -1 THEN -y.errno ELSE IF s.ret = -1 THEN -s.errno ELSE s.ret
             o == Outcome(r, s.fs, ds, a)
  <1>1. Keeps(f, s.fs)
    <2>1. Keeps(f, f)
      BY DEF Keeps
    <2>2. pread(f, a.fi.fh).fs = f /\ Keeps(f, pwrite(f, a.fi.fh, a.val).fs)
      BY WritesKeep, ReadsKeep
    <2> QED
      BY <2>1, <2>2
  <1>2. LocalData(op, f, ds, a) = IF op = "read" THEN [o EXCEPT !.buf = s.out] ELSE o
    BY DEF LocalData
  <1> HIDE DEF s, r
  <1> QED
    BY <1>1, <1>2, SMT DEF Frame, Outcome, Keeps

LEMMA EndFrame ==
  ASSUME NEW f, IsFS(f), NEW ds, NEW a, NEW op \in {"statfs", "release", "fsync"}
  PROVE  /\ Frame(op, f, ds, a, LocalEnd(op, f, ds, a))
         /\ op = "release" => LocalEnd(op, f, ds, a).fs = close(f, a.fi.fh).fs
         /\ LocalEnd(op, f, ds, a).res = 0
  <1> DEFINE g == close(f, a.fi.fh).fs
             st == Cardinality(FreeInodes(f))
  <1>1. IsFS(g)
    BY CloseIs
  <1>2. fsync(f, a.fi.fh).fs = f
    BY ReadsKeep
  <1>3. LocalEnd(op, f, ds, a) = CASE op = "statfs" -> [Outcome(0, f, ds, a) EXCEPT !.st = st]
                                   [] op = "release" -> Outcome(0, g, ds, a)
                                   [] op = "fsync" -> Outcome(0, f, ds, a)
    BY <1>2 DEF LocalEnd
  <1> HIDE DEF g, st
  <1>4. \/ op = "statfs" /\ LocalEnd(op, f, ds, a) = [Outcome(0, f, ds, a) EXCEPT !.st = st]
        \/ op = "release" /\ LocalEnd(op, f, ds, a) = Outcome(0, g, ds, a)
        \/ op = "fsync" /\ LocalEnd(op, f, ds, a) = Outcome(0, f, ds, a)
    BY <1>3, SMT
  <1> QED
    BY <1>1, <1>4, SMT DEF Frame, Outcome, g

LEMMA OpenFrame ==
  ASSUME NEW f, IsFS(f), NEW ds, NEW a, NEW op \in {"open", "create"}
  PROVE  LET o == LocalOpen(op, f, ds, a) IN Frame(op, f, ds, a, o) /\ OpenResult(f, a, o)
  <1> DEFINE s == IF op = "create" /\ a.fi.flags = "creat" THEN openCreate(f, a.path, a.val)
                  ELSE open(f, a.path)
             c == Checked(s, ds, a)
             o == LocalOpen(op, f, ds, a)
  <1>1. Opens(f, s)
    BY OpenOpens, CreateOpens
  <1>2. o = IF s.ret = -1 THEN c ELSE [c EXCEPT !.fi.fh = s.ret]
    BY DEF LocalOpen
  <1> HIDE DEF s, o
  <1>3. CASE s.ret = -1 /\ s.errno \in Nat \ {0} /\ Keeps(f, s.fs)
    <2>1. Frame(op, f, ds, a, c)
      BY <1>3, CheckedFrame
    <2>2. o.res # 0 /\ o.fi = a.fi /\ o.fs.fds = f.fds
      BY <1>2, <1>3, SMT DEF Checked, Outcome, Keeps
    <2> QED
      BY <1>2, <1>3, <2>1, <2>2 DEF OpenResult, o
  <1>4. CASE \E d \in FreeFds(f) : \E i : /\ i # 0 /\ s.ret = d /\ IsFS(s.fs)
                                          /\ s.fs.fds = [f.fds EXCEPT ![d] = i]
    <2>0. PICK d \in FreeFds(f) : \E i : /\ i # 0 /\ s.ret = d /\ IsFS(s.fs)
                                          /\ s.fs.fds = [f.fds EXCEPT ![d] = i]
      BY <1>4
    <2>1. PICK i : /\ i # 0 /\ s.ret = d /\ IsFS(s.fs)
                   /\ s.fs.fds = [f.fds EXCEPT ![d] = i]
      BY <2>0
    <2>2. d \in Nat
      BY FileSystemAssumption DEF FreeFds
    <2>3. o = [c EXCEPT !.fi.fh = d]
      BY <1>2, <2>1, <2>2, SMT
    <2>4. /\ Frame(op, f, ds, a, o) /\ o.res = 0 /\ o.fi = [a.fi EXCEPT !.fh = d]
          /\ o.fs = s.fs
      BY <2>1, <2>2, <2>3, SMT DEF Frame, Checked, Outcome, OpenOps
    <2>5. i # 0 /\ o.fs.fds = [f.fds EXCEPT ![d] = i]
      BY <2>1, <2>4
    <2>6. OpenResult(f, a, o)
      BY <2>4, <2>5 DEF OpenResult
    <2> QED
      BY <2>4, <2>6 DEF o
  <1> QED
    BY <1>1, <1>3, <1>4 DEF Opens

-----------------------------------------------------------------------------
(* The directory streams.                                                  *)

LEMMA ListsPaths == ASSUME NEW f PROVE Listing(f) \in Seq(Paths)
  <1> DEFINE S == Present(f)
             n == Cardinality(S)
  <1>1. S \subseteq Paths
    BY DEF Present
  <1>2. IsFiniteSet(S)
    BY <1>1, FileSystemAssumption, FS_Subset
  <1> HIDE DEF S
  <1>3. n \in Nat /\ ExistsBijection(1..n, S)
    BY <1>2, FS_CardinalityType
  <1>4. \E g \in [1..n -> S] : IsInjective(g)
    BY <1>3 DEF ExistsBijection, Bijection, Injection
  <1>5. Listing(f) \in [1..n -> S]
    BY <1>4 DEF Listing, S
  <1> HIDE DEF n
  <1> QED
    BY <1>1, <1>3, <1>5, SMT DEF S

\* Wherever the stream stands, readdir gives the entries from the offset on and
\* leaves a stream that gives the entries its own offset asks for.
LEMMA ReaddirIs ==
  ASSUME NEW f, IsFS(f), NEW ds, NEW a, NEW room \in Nat \ {0}, a.offset \in Nat,
         ds = [d \in Dirps |-> ds[d]], a.fi.fh \in Dirps, IsDir(ds[a.fi.fh])
  PROVE  LET o == LocalReaddir(f, ds, a, room)
         IN Frame("readdir", f, ds, a, o) /\ o.fs = f /\ ReaddirResult(ds, a, room, o)
  <1> DEFINE x == ds[a.fi.fh]
             k == Len(x.ents)
             start == IF a.offset # x.offset THEN a.offset
                      ELSE IF x.entry # 0 THEN x.entry - 1 ELSE x.pos
             n == Min({room, k - start})
             m == Min({room, k - a.offset})
             refused == IF start + n < k THEN start + n + 1 ELSE 0
             p == IF refused # 0 THEN refused ELSE k
             q == IF n > 0 THEN start + n ELSE a.offset
             x2 == [x EXCEPT !.pos = p, !.entry = refused, !.offset = q]
             ds2 == [ds EXCEPT ![a.fi.fh] = x2]
             page == [i \in 1..n |-> [name |-> x.ents[start + i], off |-> start + i]]
             o == LocalReaddir(f, ds, a, room)
  <1>1. k \in Nat /\ x.pos \in 0..k /\ x.entry \in 0..k /\ x.offset \in Nat /\ x.ents \in Seq(Paths)
    <2>1. IsDir(x)
      OBVIOUS
    <2> HIDE DEF x
    <2>2. /\ x.ents \in Seq(Paths) /\ x.offset \in Nat
          /\ x.pos \in 0..Len(x.ents) /\ x.entry \in 0..Len(x.ents)
      BY <2>1 DEF IsDir
    <2> QED
      BY ONLY <2>2, SMT
  <1>2. (IF x.entry # 0 THEN x.entry - 1 ELSE x.pos) = IF x.offset <= k THEN x.offset ELSE k
    BY DEF IsDir
  <1>3. x = [ents |-> x.ents, pos |-> x.pos, entry |-> x.entry, offset |-> x.offset]
    BY DEF IsDir
  <1>4. o = [Outcome(0, f, ds2, a) EXCEPT !.ents = page]
    BY DEF LocalReaddir
  <1> HIDE DEF x, k, o
  <1>5. start \in Nat /\ (start = a.offset \/ (a.offset > k /\ start = k))
    BY <1>1, <1>2, SMT
  <1> HIDE DEF start
  <1>6. n = IF room <= k - start THEN room ELSE k - start
    BY <1>1, <1>5, MinOfTwo, SMT
  <1>7. m = IF room <= k - a.offset THEN room ELSE k - a.offset
    BY <1>1, MinOfTwo, SMT
  <1> HIDE DEF n, m
  <1>8. page = [i \in 1..m |-> [name |-> x.ents[a.offset + i], off |-> a.offset + i]]
    <2>1. CASE start = a.offset
      BY <1>6, <1>7, <2>1
    <2>2. CASE a.offset > k /\ start = k
      <3>1. 1..n = {} /\ 1..m = {}
        BY <1>1, <1>6, <1>7, <2>2, SMT
      <3> QED
        BY <3>1
    <2> QED
      BY <1>5, <2>1, <2>2
  <1> HIDE DEF page
  <1>9. p \in 0..k /\ refused \in 0..k /\ q \in Nat
    BY <1>1, <1>5, <1>6, SMT
  <1>10. (IF refused # 0 THEN refused - 1 ELSE p) = IF q <= k THEN q ELSE k
    BY <1>1, <1>5, <1>6, SMT
  <1>11. x2 = [ents |-> x.ents, pos |-> p, entry |-> refused, offset |-> q]
    <2> HIDE DEF p, q, refused
    <2> DEFINE y == [x EXCEPT !.pos = p]
               z == [y EXCEPT !.entry = refused]
    <2>1. x2 = [z EXCEPT !.offset = q]
      BY ONLY SMT
    <2>2. PICK e, p0, n0, q0 : /\ x = [ents |-> e, pos |-> p0, entry |-> n0, offset |-> q0]
                               /\ x.ents = e
      BY <1>3
    <2>3. y = [ents |-> e, pos |-> p, entry |-> n0, offset |-> q0]
      BY ONLY <2>2, SMT
    <2> HIDE DEF y
    <2>4. z = [ents |-> e, pos |-> p, entry |-> refused, offset |-> q0]
      BY ONLY <2>3, SMT
    <2> HIDE DEF z
    <2> QED
      BY ONLY <2>1, <2>2, <2>4, SMT
  <1> HIDE DEF p, q, refused, x2, ds2
  <1>12. IsDir(x2) /\ x2.ents = x.ents
    BY <1>1, <1>9, <1>10, <1>11, SMT DEF IsDir, k
  <1>13. /\ Frame("readdir", f, ds, a, o) /\ o.fs = f /\ o.res = 0 /\ o.ents = page
         /\ o.dirs = ds2
    BY <1>4, SMT DEF Frame, Outcome, OpenOps, DirOps
  <1>14. o.ents = PageOf(x.ents, a.offset, room)
    BY <1>8, <1>13 DEF PageOf, m, k
  <1>15. ReaddirResult(ds, a, room, o)
    BY <1>12, <1>13, <1>14 DEF x, ds2, ReaddirResult
  <1> QED
    BY <1>13, <1>15 DEF o

LEMMA OpendirIs ==
  ASSUME NEW f, IsFS(f), NEW ds, NEW a
  PROVE  LET o == LocalOpendir(f, ds, a)
         IN Frame("opendir", f, ds, a, o) /\ o.fs = f /\ OpendirResult(f, ds, a, o)
  <1> DEFINE free == Dirps \ LiveDirs(ds)
             ents == Listing(f)
             d == Min(free)
             x == [ents |-> ents, pos |-> 0, entry |-> 0, offset |-> 0]
             o == LocalOpendir(f, ds, a)
  <1>1. ents \in Seq(Paths)
    BY ListsPaths
  <1>2. o = IF free = {} THEN Outcome(-ENOMEM, f, ds, a)
            ELSE [Outcome(0, f, [ds EXCEPT ![d] = x], a) EXCEPT !.fi.fh = d]
    BY DEF LocalOpendir
  <1> HIDE DEF ents, o
  <1>3. IsDir(x)
    BY <1>1, SMT DEF IsDir
  <1>4. CASE free = {}
    <2>1. o = Outcome(-ENOMEM, f, ds, a)
      BY <1>2, <1>4
    <2>2. Frame("opendir", f, ds, a, o) /\ o.fs = f /\ o.res # 0 /\ o.fi = a.fi /\ o.dirs = ds
      BY <2>1, SMT DEF Frame, Outcome, ENOMEM
    <2> QED
      BY <2>2 DEF OpendirResult, o
  <1>5. CASE free # {}
    <2>1. d \in free
      <3>1. free \subseteq Nat
        BY LocalOpsAssumption
      <3> QED
        BY <1>5, <3>1, MinIs
    <2> HIDE DEF d, x
    <2>2. o = [Outcome(0, f, [ds EXCEPT ![d] = x], a) EXCEPT !.fi.fh = d]
      BY <1>2, <1>5 DEF x
    <2>3. /\ Frame("opendir", f, ds, a, o) /\ o.fs = f /\ o.res = 0
          /\ o.fi = [a.fi EXCEPT !.fh = d] /\ o.dirs = [ds EXCEPT ![d] = x]
      BY <2>2, SMT DEF Frame, Outcome, OpenOps, DirOps
    <2>4. OpendirResult(f, ds, a, o)
      BY <1>3, <2>1, <2>3 DEF OpendirResult, x
    <2> QED
      BY <2>3, <2>4 DEF o
  <1> QED
    BY <1>4, <1>5

LEMMA ReleasedirIs ==
  ASSUME NEW f, IsFS(f), NEW ds, NEW a
  PROVE  LET o == LocalReleasedir(f, ds, a)
         IN Frame("releasedir", f, ds, a, o) /\ o.fs = f /\ ReleasedirResult(ds, a, o)
  BY SMT DEF LocalReleasedir, ReleasedirResult, Frame, Outcome, OpenOps, DirOps

-----------------------------------------------------------------------------
(* The operation on the server is the one FUSE asked for.                  *)

LEMMA NamesAlike ==
  ASSUME NEW f, NEW ds, NEW a, NEW b, NEW op \in NameOps, Alike(op, a, b)
  PROVE  LocalNames(op, f, ds, a) = LocalNames(op, f, ds, b)
  <1>0. a.path = b.path /\ a.to = b.to /\ a.fi = b.fi
    BY DEF Alike
  <1>1. \A s : Checked(s, ds, a) = Checked(s, ds, b)
    BY <1>0 DEF Checked, Outcome
  <1> DEFINE s(x) == CASE op = "mknod" -> IF FreeFds(f) = {} THEN Fails(f, EMFILE)
                                          ELSE mknod(f, x.path, x.val)
                       [] op = "mkdir" -> mkdir(f, x.path, x.val)
                       [] op = "unlink" -> unlink(f, x.path)
                       [] op = "rmdir" -> rmdir(f, x.path)
                       [] op = "symlink" -> symlink(f, Rooted(x.path), x.to)
                       [] op = "rename" -> rename(f, x.path, x.to)
                       [] op = "link" -> link(f, x.path, x.to)
  <1>2. s(a) = s(b)
    <2>1. CASE op \in {"mknod", "mkdir"}
      <3>1. a.val = b.val
        BY <2>1 DEF Alike, ValOps
      <3> QED
        BY <1>0, <3>1
    <2>2. CASE op \notin {"mknod", "mkdir"}
      BY <1>0, <2>2, SMT DEF NameOps
    <2> QED
      BY <2>1, <2>2
  <1>3. LocalNames(op, f, ds, a) = Checked(s(a), ds, a) /\ LocalNames(op, f, ds, b) = Checked(s(b), ds, b)
    BY DEF LocalNames
  <1> HIDE DEF s
  <1> QED
    BY <1>1, <1>2, <1>3

LEMMA ChangesAlike ==
  ASSUME NEW f, NEW ds, NEW a, NEW b, NEW op \in ChangeOps, Alike(op, a, b)
  PROVE  LocalChanges(op, f, ds, a) = LocalChanges(op, f, ds, b)
  <1>0. a.path = b.path /\ a.fi = b.fi
    BY DEF Alike
  <1>1. \A s : Checked(s, ds, a) = Checked(s, ds, b)
    BY <1>0 DEF Checked, Outcome
  <1> DEFINE s(x) == CASE op \in {"chmod", "chown"} -> setattr(f, x.path, x.val)
                       [] op = "ftruncate" -> ftruncate(f, x.fi.fh)
                       [] op = "truncate" -> truncate(f, x.path)
  <1>2. s(a) = s(b)
    <2>1. CASE op \in {"chmod", "chown"}
      <3>1. a.val = b.val
        BY <2>1 DEF Alike, ValOps
      <3> QED
        BY <1>0, <3>1
    <2>2. CASE op \notin {"chmod", "chown"}
      BY <1>0, <2>2, SMT DEF ChangeOps
    <2> QED
      BY <2>1, <2>2
  <1>3. LocalChanges(op, f, ds, a) = Checked(s(a), ds, a) /\ LocalChanges(op, f, ds, b) = Checked(s(b), ds, b)
    BY DEF LocalChanges
  <1> HIDE DEF s
  <1> QED
    BY <1>1, <1>2, <1>3

LEMMA OthersAlike ==
  ASSUME NEW f, NEW ds, NEW a, NEW b, NEW op, NEW room, Alike(op, a, b)
  PROVE  /\ LocalAttr(op, f, ds, a) = LocalAttr(op, f, ds, b)
         /\ op \in {"open", "create"} => LocalOpen(op, f, ds, a) = LocalOpen(op, f, ds, b)
         /\ op \in {"read", "write"} => LocalData(op, f, ds, a) = LocalData(op, f, ds, b)
         /\ LocalEnd(op, f, ds, a) = LocalEnd(op, f, ds, b)
         /\ LocalOpendir(f, ds, a) = LocalOpendir(f, ds, b)
         /\ op = "readdir" => LocalReaddir(f, ds, a, room) = LocalReaddir(f, ds, b, room)
         /\ LocalReleasedir(f, ds, a) = LocalReleasedir(f, ds, b)
  <1>0. a.path = b.path /\ a.fi = b.fi
    BY DEF Alike
  <1>1. \A r, g, d : Outcome(r, g, d, a) = Outcome(r, g, d, b)
    BY <1>0 DEF Outcome
  <1>2. \A s : Checked(s, ds, a) = Checked(s, ds, b)
    BY <1>1 DEF Checked
  <1>3. LocalAttr(op, f, ds, a) = LocalAttr(op, f, ds, b)
    BY <1>0, <1>2 DEF LocalAttr
  <1>4. ASSUME op \in {"open", "create"} PROVE LocalOpen(op, f, ds, a) = LocalOpen(op, f, ds, b)
    <2> DEFINE S(x) == IF op = "create" /\ x.fi.flags = "creat" THEN openCreate(f, x.path, x.val)
                       ELSE open(f, x.path)
               R(s, c) == IF s.ret = -1 THEN c ELSE [c EXCEPT !.fi.fh = s.ret]
    <2>1. S(a) = S(b)
      <3>1. CASE op = "create"
        <4>1. a.val = b.val
          BY <3>1 DEF Alike, ValOps
        <4> QED
          BY <1>0, <4>1
      <3>2. CASE op = "open"
        BY <1>0, <3>2
      <3> QED
        BY <1>4, <3>1, <3>2
    <2>2. /\ LocalOpen(op, f, ds, a) = R(S(a), Checked(S(a), ds, a))
          /\ LocalOpen(op, f, ds, b) = R(S(b), Checked(S(b), ds, b))
      BY DEF LocalOpen
    <2> HIDE DEF S, R
    <2> QED
      BY <1>2, <2>1, <2>2
  <1>5. ASSUME op \in {"read", "write"} PROVE LocalData(op, f, ds, a) = LocalData(op, f, ds, b)
    <2> DEFINE S(x) == IF op = "read" THEN pread(f, x.fi.fh) ELSE pwrite(f, x.fi.fh, x.val)
               Y(s, h) == IF op = "write" THEN fsync(s.fs, h) ELSE s
               R(s, y) == IF y.ret = -1 THEN -y.errno ELSE IF s.ret = -1 THEN -s.errno ELSE s.ret
               B(s, o) == IF op = "read" THEN [o EXCEPT !.buf = s.out] ELSE o
    <2>1. S(a) = S(b)
      <3>1. CASE op = "write"
        <4>1. a.val = b.val
          BY <3>1 DEF Alike, ValOps
        <4> QED
          BY <1>0, <4>1
      <3>2. CASE op = "read"
        BY <1>0, <3>2
      <3> QED
        BY <1>5, <3>1, <3>2
    <2>2. /\ LocalData(op, f, ds, a) = B(S(a), Outcome(R(S(a), Y(S(a), a.fi.fh)), S(a).fs, ds, a))
          /\ LocalData(op, f, ds, b) = B(S(b), Outcome(R(S(b), Y(S(b), b.fi.fh)), S(b).fs, ds, b))
      BY DEF LocalData
    <2> HIDE DEF S, Y, R, B
    <2> QED
      BY <1>0, <1>1, <2>1, <2>2
  <1>6. LocalEnd(op, f, ds, a) = LocalEnd(op, f, ds, b)
    BY <1>0, <1>1 DEF LocalEnd
  <1>7. LocalOpendir(f, ds, a) = LocalOpendir(f, ds, b)
    BY <1>1 DEF LocalOpendir
  <1>8. ASSUME op = "readdir" PROVE LocalReaddir(f, ds, a, room) = LocalReaddir(f, ds, b, room)
    <2> DEFINE start(h, off) == IF off # ds[h].offset THEN off
                                ELSE IF ds[h].entry # 0 THEN ds[h].entry - 1 ELSE ds[h].pos
               k(h) == Len(ds[h].ents)
               n(h, s) == Min({room, k(h) - s})
               r(h, s) == IF s + n(h, s) < k(h) THEN s + n(h, s) + 1 ELSE 0
               D(h, off, s) == [ds EXCEPT ![h] =
                                  [ds[h] EXCEPT !.pos = IF r(h, s) # 0 THEN r(h, s) ELSE k(h),
                                                !.entry = r(h, s),
                                                !.offset = IF n(h, s) > 0 THEN s + n(h, s) ELSE off]]
               E(h, s) == [i \in 1..n(h, s) |-> [name |-> ds[h].ents[s + i], off |-> s + i]]
               L(x, s) == [Outcome(0, f, D(x.fi.fh, x.offset, s), x) EXCEPT !.ents = E(x.fi.fh, s)]
    <2>1. a.offset = b.offset
      BY <1>8 DEF Alike
    <2>2. /\ LocalReaddir(f, ds, a, room) = L(a, start(a.fi.fh, a.offset))
          /\ LocalReaddir(f, ds, b, room) = L(b, start(b.fi.fh, b.offset))
      BY DEF LocalReaddir
    <2> HIDE DEF start, D, E
    <2> QED
      BY <1>0, <1>1, <2>1, <2>2
  <1>9. LocalReleasedir(f, ds, a) = LocalReleasedir(f, ds, b)
    BY <1>0, <1>1 DEF LocalReleasedir
  <1> QED
    BY <1>3, <1>4, <1>5, <1>6, <1>7, <1>8, <1>9

LEMMA OpsAlike ==
  ASSUME NEW f, NEW ds, NEW a, NEW b, NEW op, NEW room, Alike(op, a, b)
  PROVE  LocalOp(op, f, ds, a, room) = LocalOp(op, f, ds, b, room)
  <1>1. ASSUME op \in NameOps PROVE LocalNames(op, f, ds, a) = LocalNames(op, f, ds, b)
    BY ONLY Alike(op, a, b), <1>1, NamesAlike, SMT
  <1>2. ASSUME op \in ChangeOps PROVE LocalChanges(op, f, ds, a) = LocalChanges(op, f, ds, b)
    BY ONLY Alike(op, a, b), <1>2, ChangesAlike, SMT
  <1>3. /\ LocalAttr(op, f, ds, a) = LocalAttr(op, f, ds, b)
        /\ op \in {"open", "create"} => LocalOpen(op, f, ds, a) = LocalOpen(op, f, ds, b)
        /\ op \in {"read", "write"} => LocalData(op, f, ds, a) = LocalData(op, f, ds, b)
        /\ LocalEnd(op, f, ds, a) = LocalEnd(op, f, ds, b)
        /\ LocalOpendir(f, ds, a) = LocalOpendir(f, ds, b)
        /\ op = "readdir" => LocalReaddir(f, ds, a, room) = LocalReaddir(f, ds, b, room)
        /\ LocalReleasedir(f, ds, a) = LocalReleasedir(f, ds, b)
    BY ONLY Alike(op, a, b), OthersAlike, SMT
  <1> QED
    BY ONLY <1>1, <1>2, <1>3, SMT DEF LocalOp


LEMMA ReceivedAlike ==
  ASSUME NEW op \in Offered, NEW a, IsArgs(op, a)
  PROVE  Alike(op, Received(op, a), a) /\ Received(op, a).offset \in Nat
  <1>0. PICK s, c : Fits(op, s, c)
    BY Table
  <1> DEFINE b == Received(op, a)
             d == DOMAIN NoArgs
  <1>1. d = {"path", "to", "val", "offset", "fi"}
    BY SMT DEF NoArgs
  <1>2. b = [f \in d |-> IF f \in s THEN a[f] ELSE NoArgs[f]]
    BY <1>0 DEF Received, Message, Fits, Row
  <1> HIDE DEF b, d
  <1>3. /\ b.path = IF "path" \in s THEN a.path ELSE NoArgs.path
        /\ b.to = IF "to" \in s THEN a.to ELSE NoArgs.to
        /\ b.val = IF "val" \in s THEN a.val ELSE NoArgs.val
        /\ b.offset = IF "offset" \in s THEN a.offset ELSE NoArgs.offset
        /\ b.fi = IF "fi" \in s THEN a.fi ELSE NoArgs.fi
    BY <1>1, <1>2
  <1>4. NoArgs.to = "" /\ NoArgs.fi = NoFi /\ NoArgs.offset \in Nat
    BY SMT DEF NoArgs
  <1>5. b.path = a.path
    BY <1>0, <1>3 DEF Fits
  <1>6. b.to = a.to
    BY <1>0, <1>3, <1>4 DEF Fits, IsArgs
  <1>7. b.fi = a.fi
    BY <1>0, <1>3, <1>4 DEF Fits, Row, IsArgs
  <1>8. op \in ValOps => b.val = a.val
    BY <1>0, <1>3 DEF Fits
  <1>9. op = "readdir" => b.offset = a.offset
    BY <1>0, <1>3 DEF Fits
  <1>10. b.offset \in Nat
    BY <1>3, <1>4 DEF IsArgs
  <1> QED
    BY <1>5, <1>6, <1>7, <1>8, <1>9, <1>10 DEF Alike, b

LEMMA OpEffect ==
  ASSUME NEW op \in LocalInstalled, NEW f, IsFS(f), NEW ds, IsDirs(ds), NEW a, a.offset \in Nat,
         NEW room, op = "readdir" => room \in Nat \ {0},
         op \in {"readdir", "releasedir"} => a.fi.fh \in LiveDirs(ds)
  PROVE  Effect(op, f, ds, a, room, LocalOp(op, f, ds, a, room))
  <1> DEFINE o == LocalOp(op, f, ds, a, room)
  <1>0. /\ op \in AttrOps => o = LocalAttr(op, f, ds, a)
        /\ op \in NameOps => o = LocalNames(op, f, ds, a)
        /\ op \in ChangeOps => o = LocalChanges(op, f, ds, a)
        /\ op \in {"open", "create"} => o = LocalOpen(op, f, ds, a)
        /\ op \in {"read", "write"} => o = LocalData(op, f, ds, a)
        /\ op \in {"statfs", "release", "fsync"} => o = LocalEnd(op, f, ds, a)
        /\ op = "opendir" => o = LocalOpendir(f, ds, a)
        /\ op = "readdir" => o = LocalReaddir(f, ds, a, room)
        /\ op = "releasedir" => o = LocalReleasedir(f, ds, a)
    BY SMT DEF LocalOp, AttrOps, NameOps, ChangeOps
  <1> HIDE DEF o
  <1>1. CASE op \in AttrOps
    <2>1. Frame(op, f, ds, a, o)
      BY <1>0, <1>1, AttrFrame
    <2>2. op \notin {"open", "create", "release"} \cup DirOps
      BY <1>1 DEF AttrOps, DirOps
    <2> QED
      BY <2>1, <2>2 DEF Effect, DirOps, o
  <1>2. CASE op \in NameOps
    <2>1. Frame(op, f, ds, a, o)
      BY <1>0, <1>2, NamesFrame
    <2>2. op \notin {"open", "create", "release"} \cup DirOps
      BY <1>2 DEF NameOps, DirOps
    <2> QED
      BY <2>1, <2>2 DEF Effect, DirOps, o
  <1>3. CASE op \in ChangeOps
    <2>1. Frame(op, f, ds, a, o)
      BY <1>0, <1>3, ChangesFrame
    <2>2. op \notin {"open", "create", "release"} \cup DirOps
      BY <1>3 DEF ChangeOps, DirOps
    <2> QED
      BY <2>1, <2>2 DEF Effect, DirOps, o
  <1>4. CASE op \in {"open", "create"}
    <2>1. Frame(op, f, ds, a, o) /\ OpenResult(f, a, o)
      BY <1>0, <1>4, OpenFrame
    <2>2. op \notin {"release"} \cup DirOps
      BY <1>4 DEF DirOps
    <2> QED
      BY <2>1, <2>2 DEF Effect, DirOps, o
  <1>5. CASE op \in {"read", "write"}
    <2>1. Frame(op, f, ds, a, o)
      BY <1>0, <1>5, DataFrame
    <2>2. op \notin {"open", "create", "release"} \cup DirOps
      BY <1>5 DEF DirOps
    <2> QED
      BY <2>1, <2>2 DEF Effect, DirOps, o
  <1>6. CASE op \in {"statfs", "release", "fsync"}
    <2>1. Frame(op, f, ds, a, o) /\ (op = "release" => o.fs = close(f, a.fi.fh).fs)
      BY <1>0, <1>6, EndFrame
    <2>2. op \notin {"open", "create"} \cup DirOps
      BY <1>6 DEF DirOps
    <2> QED
      BY <2>1, <2>2 DEF Effect, DirOps, o
  <1>7. CASE op = "opendir"
    <2>1. Frame(op, f, ds, a, o) /\ o.fs = f /\ OpendirResult(f, ds, a, o)
      BY <1>0, <1>7, OpendirIs
    <2> QED
      BY <1>7, <2>1 DEF Effect, o
  <1>8. CASE op = "readdir"
    <2>1. a.fi.fh \in Dirps /\ IsDir(ds[a.fi.fh]) /\ ds = [d \in Dirps |-> ds[d]]
      BY <1>8 DEF IsDirs, LiveDirs
    <2>2. o = LocalReaddir(f, ds, a, room) /\ room \in Nat \ {0}
      BY <1>0, <1>8
    <2>3. Frame("readdir", f, ds, a, o) /\ o.fs = f /\ ReaddirResult(ds, a, room, o)
      BY <2>1, <2>2, ReaddirIs
    <2> QED
      BY <1>8, <2>3 DEF Effect, o
  <1>9. CASE op = "releasedir"
    <2>0. o = LocalReleasedir(f, ds, a)
      BY <1>0, <1>9
    <2>1. Frame("releasedir", f, ds, a, o) /\ o.fs = f /\ ReleasedirResult(ds, a, o)
      BY <2>0, ReleasedirIs
    <2> QED
      BY <1>9, <2>1 DEF Effect, o
  <1> QED
    BY <1>1, <1>2, <1>3, <1>4, <1>5, <1>6, <1>7, <1>8, <1>9 DEF LocalInstalled, DirOps


LEMMA ReplyGives ==
  ASSUME NEW op \in Offered, NEW f, NEW ds, NEW a, NEW o, Frame(op, f, ds, a, o)
  PROVE  Delivers(op, a, o)
  <1>0. PICK s, c : Fits(op, s, c)
    BY Table
  <1> DEFINE p == IF op = "statfs" THEN [o EXCEPT !.st = fill_StructStatvfs(@)] ELSE o
             r == Reply(op, o)
             v == Message(r, Calls[op].copies, NoReply)
             d == DOMAIN NoReply
  <1>1. d = {"st", "fi", "buf", "ents"}
    BY SMT DEF NoReply
  <1>2. p.st = Wrapped(op, o.st) /\ p.buf = o.buf /\ p.ents = o.ents /\ p.fi = o.fi
    <2>1. PICK q : q = [o EXCEPT !.st = o.st % 2^BlocksBits]
      OBVIOUS
    <2>2. q.st = o.st % 2^BlocksBits /\ q.buf = o.buf /\ q.ents = o.ents /\ q.fi = o.fi
      BY <2>1, SMT DEF Frame
    <2> QED
      BY <2>1, <2>2 DEF Wrapped, fill_StructStatvfs
  <1>3. r = [x \in d |-> IF x \in c THEN p[x] ELSE NoReply[x]]
    <2>1. r = Message(p, Handlers[op].fills, NoReply)
      BY DEF Reply
    <2>2. Handlers[op].fills = c
      BY <1>0 DEF Fits, Row
    <2> HIDE DEF p, r
    <2> QED
      BY <2>1, <2>2 DEF Message
  <1>4. v = [x \in d |-> IF x \in c THEN r[x] ELSE NoReply[x]]
    BY <1>0 DEF Message, Fits, Row
  <1> HIDE DEF p, r, v, d
  <1>5. /\ r.st = IF "st" \in c THEN p.st ELSE NoReply.st
        /\ r.fi = IF "fi" \in c THEN p.fi ELSE NoReply.fi
        /\ r.buf = IF "buf" \in c THEN p.buf ELSE NoReply.buf
        /\ r.ents = IF "ents" \in c THEN p.ents ELSE NoReply.ents
    BY <1>1, <1>3
  <1>6. /\ v.st = IF "st" \in c THEN r.st ELSE NoReply.st
        /\ v.fi = IF "fi" \in c THEN r.fi ELSE NoReply.fi
        /\ v.buf = IF "buf" \in c THEN r.buf ELSE NoReply.buf
        /\ v.ents = IF "ents" \in c THEN r.ents ELSE NoReply.ents
    BY <1>1, <1>4
  <1>7. NoReply.st = 0 /\ NoReply.buf = 0 /\ NoReply.ents = <<>>
    BY SMT DEF NoReply
  <1>8. v.st = Wrapped(op, o.st)
    <2>1. CASE "st" \in c
      BY <1>2, <1>5, <1>6, <2>1
    <2>2. CASE "st" \notin c
      <3>1. op \notin {"getattr", "fgetattr", "statfs"}
        BY <1>0, <2>2 DEF Fits
      <3> QED
        BY <1>6, <1>7, <2>2, <3>1 DEF Frame, Wrapped
    <2> QED
      BY <2>1, <2>2
  <1>9. v.buf = o.buf
    BY <1>0, <1>2, <1>5, <1>6, <1>7 DEF Fits, Frame
  <1>10. v.ents = o.ents
    BY <1>0, <1>2, <1>5, <1>6, <1>7 DEF Fits, Frame
  <1>11. (IF "fi" \in Calls[op].copies THEN v.fi ELSE a.fi) = o.fi
    <2>1. Calls[op].copies = c
      BY <1>0 DEF Fits, Row
    <2>2. "fi" \notin c => a.fi = o.fi
      BY <1>0 DEF Fits, Frame
    <2> QED
      BY <1>2, <1>5, <1>6, <2>1, <2>2
  <1>12. op \in OpenOps => r.fi = o.fi
    BY <1>0, <1>2, <1>5 DEF Fits
  <1>13. op = "readdir" => r.ents = o.ents
    BY <1>0, <1>2, <1>5 DEF Fits
  <1> QED
    BY <1>8, <1>9, <1>10, <1>11, <1>12, <1>13 DEF r, v, Delivers

\* The client keeps as many entries of a page as the kernel's buffer holds.
LEMMA PageCut ==
  ASSUME NEW all \in Seq(Paths), NEW offset \in 0..Len(all), NEW room \in Rooms
  PROVE  LET whole == PageOf(all, offset, rpc_filler_room)
             part == PageOf(all, offset, room)
         IN /\ SubSeq(whole, 1, Min({room, Len(whole)})) = part
            /\ Len(part) \in Nat /\ Len(part) <= Len(all) - offset /\ DOMAIN part = 1..Len(part)
            /\ part = <<>> => offset = Len(all)
            /\ \A i \in 1..Len(part) : /\ part[i].name = all[offset + i]
                                       /\ part[i].off = offset + i
  <1> DEFINE k == Len(all) - offset
             m == Min({rpc_filler_room, k})
             n == Min({room, k})
             E(i) == [name |-> all[offset + i], off |-> offset + i]
             whole == [i \in 1..m |-> E(i)]
             part == [i \in 1..n |-> E(i)]
  <1>1. k \in Nat /\ room \in Nat \ {0} /\ room <= rpc_filler_room /\ rpc_filler_room \in Nat
    <2>1. room \in 1..rpc_filler_room
      BY RemoteOpsAssumption
    <2>2. rpc_filler_room \in Nat
      BY SMT DEF rpc_filler_room
    <2>3. k \in Nat
      BY ONLY all \in Seq(Paths), offset \in 0..Len(all), SMT
    <2> QED
      BY ONLY <2>1, <2>2, <2>3, SMT
  <1>2. m = (IF rpc_filler_room <= k THEN rpc_filler_room ELSE k) /\ m \in Nat
    BY <1>1, MinOfTwo, SMT
  <1>3. n = (IF room <= k THEN room ELSE k) /\ n \in Nat
    BY <1>1, MinOfTwo, SMT
  <1>4. whole = PageOf(all, offset, rpc_filler_room) /\ part = PageOf(all, offset, room)
    BY DEF PageOf
  <1>5. \A i \in 1..n : E(i).name = all[offset + i] /\ E(i).off = offset + i
    BY SMT
  <1> HIDE DEF m, n, E
  <1>6. Len(whole) = m /\ Len(part) = n /\ DOMAIN part = 1..n /\ \A i \in 1..n : part[i] = E(i)
    BY <1>2, <1>3, SMT
  <1>7. Min({room, Len(whole)}) = n
    <2>0. Len(whole) = m
      BY <1>6
    <2>1. Min({room, m}) = IF room <= m THEN room ELSE m
      BY <1>1, <1>2, MinOfTwo, SMT
    <2> HIDE DEF whole, k
    <2>2. (IF room <= m THEN room ELSE m) = n
      BY ONLY <1>1, <1>2, <1>3, SMT
    <2> QED
      BY ONLY <2>0, <2>1, <2>2, Zenon
  <1>8. SubSeq(whole, 1, n) = part
    <2>1. n <= m
      BY <1>1, <1>2, <1>3, SMT
    <2> QED
      BY ONLY <1>2, <1>3, <2>1, SMT
  <1>9. part = <<>> => offset = Len(all)
    <2>0. Len(part) = n
      BY <1>6
    <2> HIDE DEF part
    <2>1. part = <<>> => n = 0
      BY ONLY <2>0, SMT
    <2> QED
      BY ONLY <1>1, <1>3, <2>1, offset \in 0..Len(all), all \in Seq(Paths), SMT
  <1>10. n <= k
    BY <1>1, <1>3, SMT
  <1> HIDE DEF whole, part
  <1> QED
    BY <1>3, <1>4, <1>5, <1>6, <1>7, <1>8, <1>9, <1>10

-----------------------------------------------------------------------------
(* Steps that change one call.                                             *)

LEMMA CallIsActive == ASSUME NEW k, IsCall(k) PROVE k \notin {NoCall, Over}
  <1>1. k.op \in Offered
    BY DEF IsCall
  <1>2. "none" \notin Offered /\ "over" \notin Offered
    BY CallDomains, SMT DEF Offered
  <1>3. NoCall.op = "none" /\ Over.op = "over"
    BY SMT DEF NoCall, Over
  <1> QED
    BY <1>1, <1>2, <1>3

LEMMA OnlyOne ==
  ASSUME CallsInv, NEW n, NEW k, Changes(n, k)
  PROVE  /\ Numbers' = Numbers
         /\ call' = [m \in Numbers |-> call'[m]]
         /\ call'[n] = k
         /\ \A m \in Numbers : m # n => call'[m] = call[m]
         /\ n \in Active' <=> k \notin {NoCall, Over}
         /\ \A m : m # n => /\ m \in Active' <=> m \in Active
                            /\ m \in Waiting' <=> m \in Waiting
                            /\ m \in Owners' <=> m \in Owners
                            /\ m \in Orphans' <=> m \in Orphans
  <1>1. Numbers' = Numbers
    BY DEF Changes, Numbers
  <1>2. call = [m \in Numbers |-> call[m]]
    BY DEF CallsInv
  <1>3. n \in Numbers /\ call' = [call EXCEPT ![n] = k]
    BY DEF Changes
  <1>4. /\ call' = [m \in Numbers |-> call'[m]] /\ call'[n] = k
        /\ \A m \in Numbers : m # n => call'[m] = call[m]
    BY ONLY <1>2, <1>3, SMT
  <1>5. n \in Active' <=> k \notin {NoCall, Over}
    BY <1>1, <1>3, <1>4 DEF Active
  <1>6. \A m : m # n => (m \in Active' <=> m \in Active)
    BY <1>1, <1>4 DEF Active
  <1>7. \A m \in Active : m \in Numbers
    BY DEF Active
  <1>8. \A m : m # n => (m \in Waiting' <=> m \in Waiting)
    BY <1>4, <1>6, <1>7 DEF Waiting
  <1>9. \A m : m # n => (m \in Owners' <=> m \in Owners)
    BY <1>4, <1>6, <1>7 DEF Owners
  <1>10. \A m : m # n => (m \in Orphans' <=> m \in Orphans)
    BY <1>4, <1>6, <1>7 DEF Orphans
  <1> QED
    BY <1>1, <1>3, <1>4, <1>5, <1>6, <1>8, <1>9, <1>10

LEMMA SetsAre ==
  /\ \A m \in Active : m \in Numbers /\ call[m] \notin {NoCall, Over}
  /\ \A m \in Waiting : m \in Active /\ call[m].waits
  /\ \A m \in Owners : m \in Active /\ Owner(call[m])
  /\ \A m \in Orphans : m \in Active
  BY DEF Active, Waiting, Owners, Orphans

LEMMA CallsStep ==
  ASSUME CallsInv, NEW n, NEW k, Changes(n, k), k = Over \/ IsCall(k), HandlesOk',
         k # Over /\ k.waits => \A m \in Waiting : call[m].client = k.client => m = n
  PROVE  CallsInv'
  <1>1. /\ Numbers' = Numbers
        /\ call' = [m \in Numbers |-> call'[m]]
        /\ call'[n] = k
        /\ \A m \in Numbers : m # n => call'[m] = call[m]
        /\ n \in Active' <=> k \notin {NoCall, Over}
        /\ \A m : m # n => (m \in Active' <=> m \in Active) /\ (m \in Waiting' <=> m \in Waiting)
    BY OnlyOne
  <1>2. load' \in Workloads
    BY DEF CallsInv, Changes
  <1>3. \A m \in Active' : IsCall(call'[m])
    <2> SUFFICES ASSUME NEW m \in Active' PROVE IsCall(call'[m])
      OBVIOUS
    <2>1. CASE m = n
      BY <1>1, <2>1
    <2>2. CASE m # n
      BY <1>1, <2>2, SetsAre DEF CallsInv
    <2> QED
      BY <2>1, <2>2
  <1>4. ASSUME NEW m \in Waiting', NEW q \in Waiting', call'[m].client = call'[q].client
        PROVE  m = q
    <2>1. \A i \in Waiting' : i # n => i \in Waiting /\ call'[i] = call[i]
      BY <1>1, SetsAre
    <2>2. n \in Waiting' => k # Over /\ k.waits
      BY <1>1 DEF Waiting
    <2>3. CASE m # n /\ q # n
      BY <1>4, <2>1, <2>3 DEF CallsInv
    <2>4. CASE m = n /\ q # n
      BY <1>1, <1>4, <2>1, <2>2, <2>4
    <2>5. CASE m # n /\ q = n
      BY <1>1, <1>4, <2>1, <2>2, <2>5
    <2> QED
      BY <2>3, <2>4, <2>5
  <1> QED
    BY <1>1, <1>2, <1>3, <1>4 DEF CallsInv, HandlesOk

LEMMA HeldStep ==
  ASSUME CallsInv, HeldInv, NEW n, NEW k, Changes(n, k),
         k # Over /\ k.waits => HeldBy(k)',
         \A m \in Waiting : m # n => handles'[call[m].client] = handles[call[m].client]
  PROVE  HeldInv'
  <1>1. /\ call'[n] = k
        /\ \A m \in Numbers : m # n => call'[m] = call[m]
        /\ n \in Active' <=> k \notin {NoCall, Over}
        /\ \A m : m # n => (m \in Waiting' <=> m \in Waiting)
    BY ONLY CallsInv, Changes(n, k), OnlyOne, Zenon
  <1> SUFFICES ASSUME NEW m \in Waiting' PROVE HeldBy(call[m])'
    BY DEF HeldInv
  <1>2. CASE m = n
    <2>1. k # Over /\ k.waits
      BY <1>1, <1>2 DEF Waiting
    <2>2. HeldBy(k)'
      BY <2>1
    <2> QED
      BY <1>1, <1>2, <2>2 DEF HeldBy
  <1>3. CASE m # n
    <2>1. m \in Waiting /\ call'[m] = call[m]
      BY <1>1, <1>3, SetsAre
    <2>2. PICK j : j = call[m]
      OBVIOUS
    <2>3. HeldBy(j)
      BY <2>1, <2>2 DEF HeldInv
    <2>4. handles'[j.client] = handles[j.client]
      BY <1>3, <2>1, <2>2
    <2>5. HeldBy(j)'
      BY <2>3, <2>4 DEF HeldBy, HandleOf
    <2>6. call'[m] = j
      BY <2>1, <2>2
    <2> QED
      BY ONLY <2>5, <2>6, Zenon DEF HeldBy, HandleOf
  <1> QED
    BY <1>2, <1>3


\* Nothing new is owned.
LEMMA UniqueStep ==
  ASSUME CallsInv, UniqueInv, NEW n, NEW k, Changes(n, k), handles' = handles,
         k # Over /\ Owner(k) => n \in Owners /\ Fh(k) = Fh(call[n])
  PROVE  UniqueInv'
  <1>1. /\ call'[n] = k
        /\ \A m \in Numbers : m # n => call'[m] = call[m]
        /\ n \in Active' <=> k \notin {NoCall, Over}
        /\ \A m : m # n => (m \in Owners' <=> m \in Owners)
    BY ONLY CallsInv, Changes(n, k), OnlyOne, Zenon
  <1>2. \A m \in Owners' : m \in Owners /\ Fh(call'[m]) = Fh(call[m])
    <2> SUFFICES ASSUME NEW m \in Owners' PROVE m \in Owners /\ Fh(call'[m]) = Fh(call[m])
      OBVIOUS
    <2>1. CASE m = n
      <3>1. k # Over /\ Owner(k)
        BY <1>1, <2>1 DEF Owners
      <3> QED
        BY <1>1, <2>1, <3>1
    <2>2. CASE m # n
      BY <1>1, <2>2, SetsAre
    <2> QED
      BY <2>1, <2>2
  <1>3. \A c, d \in Clients : \A h \in handles'[c], g \in handles'[d] :
           h.fi.fh = g.fi.fh => c = d /\ h = g
    BY ONLY UniqueInv, handles' = handles, SMT DEF UniqueInv
  <1>4. \A m \in Owners' : \A c \in Clients : \A h \in handles'[c] : h.fi.fh # Fh(call'[m])
    BY <1>2 DEF UniqueInv
  <1>5. \A m, q \in Owners' : Fh(call'[m]) = Fh(call'[q]) => m = q
    BY <1>2 DEF UniqueInv
  <1> QED
    BY <1>3, <1>4, <1>5 DEF UniqueInv, Fh

LEMMA SameLive ==
  ASSUME NEW d, SameFh(d)
  PROVE  /\ \A h : IsHandle(h) /\ h.fi.fh = d /\ LiveHandle(h) => LiveHandle(h)'
         /\ \A k : IsCall(k) /\ Owner(k) /\ Fh(k) = d /\ LiveCall(k) => LiveCall(k)'
  <1>1. ASSUME NEW h, IsHandle(h), h.fi.fh = d, LiveHandle(h) PROVE LiveHandle(h)'
    <2>1. CASE h.kind = "file"
      <3>1. h.fi.fh \in Fds
        BY <1>1, <2>1 DEF IsHandle
      <3> QED
        BY <1>1, <2>1, <3>1 DEF LiveHandle, SameFh
    <2>2. CASE h.kind # "file"
      BY <1>1, <2>2 DEF LiveHandle, SameFh
    <2> QED
      BY <2>1, <2>2
  <1>2. ASSUME NEW k, IsCall(k), Owner(k), Fh(k) = d, LiveCall(k) PROVE LiveCall(k)'
    <2>1. k.op \in {"open", "create", "release"} => d \in Fds
      <3>1. k.op = "release" => d \in Fds
        BY <1>2 DEF IsCall, IsArgs, Fh, OpenOps
      <3>2. k.op \in {"open", "create"} => k.op \in OpenOps /\ k.op \notin CloseOps /\ k.op # "opendir"
        BY DEF OpenOps, CloseOps
      <3>3. k.op \in {"open", "create"} => d \in Fds
        BY <1>2, <3>2 DEF IsCall, Fh, Owner
      <3> QED
        BY <3>1, <3>3
    <2>2. k.op \in {"open", "create"} => fs'.fds[d] = k.acted /\ k.acted # 0
      BY <1>2, <2>1 DEF LiveCall, SameFh
    <2>3. k.op = "release" => fs'.fds[d] # 0 /\ \A h \in k.held : fs'.fds[d] = h.ino
      BY <1>2, <2>1 DEF LiveCall, SameFh
    <2>4. k.op = "opendir" => d \in LiveDirs(dirs)' /\ dirs'[d].ents = k.all
      BY <1>2 DEF LiveCall, SameFh
    <2>5. k.op = "releasedir" => d \in LiveDirs(dirs)'
      BY <1>2 DEF LiveCall, SameFh
    <2> QED
      BY <1>2, <2>2, <2>3, <2>4, <2>5 DEF LiveCall, Fh
  <1> QED
    BY <1>1, <1>2

\* What the other calls own is left alone.
LEMMA OwnersStep ==
  ASSUME CallsInv, LiveInv, NEW n, NEW k, Changes(n, k), up,
         \A m \in Owners : m # n => SameFh(Fh(call[m])),
         k # Over /\ Owner(k) => LiveCall(k)'
  PROVE  \A m \in Owners' : LiveCall(call[m])'
  <1>1. /\ call'[n] = k
        /\ \A m \in Numbers : m # n => call'[m] = call[m]
        /\ n \in Active' <=> k \notin {NoCall, Over}
        /\ \A m : m # n => (m \in Owners' <=> m \in Owners)
    BY ONLY CallsInv, Changes(n, k), OnlyOne, Zenon
  <1>2. ASSUME NEW m \in Owners' PROVE LiveCall(call[m])'
    <2>0. PICK j : j = call'[m]
      OBVIOUS
    <2>1. CASE m = n
      <3>1. k # Over /\ Owner(k)
        BY <1>1, <2>1 DEF Owners
      <3>2. LiveCall(k)' /\ j = k
        BY <1>1, <2>0, <2>1, <3>1
      <3> QED
        BY <2>0, <3>2 DEF LiveCall, Fh
    <2>2. CASE m # n
      <3>1. m \in Owners /\ m \in Active /\ call[m] = j
        BY <1>1, <2>0, <2>2, SetsAre
      <3>2. IsCall(j) /\ Owner(j) /\ LiveCall(j) /\ SameFh(Fh(j))
        BY <2>2, <3>1, SetsAre DEF CallsInv, LiveInv
      <3>3. LiveCall(j)'
        BY <3>2, SameLive
      <3> QED
        BY <2>0, <3>3 DEF LiveCall, Fh
    <2> QED
      BY <2>1, <2>2
  <1> QED
    BY <1>2

LEMMA LiveStep ==
  ASSUME CallsInv, LiveInv, NEW n, NEW k, Changes(n, k), handles' = handles, up' => up,
         up => \A c \in Clients : \A h \in handles[c] : SameFh(h.fi.fh),
         up => \A m \in Owners : m # n => SameFh(Fh(call[m])),
         up /\ k # Over /\ Owner(k) => LiveCall(k)'
  PROVE  LiveInv'
  <1> SUFFICES ASSUME up' PROVE /\ \A c \in Clients : \A h \in handles'[c] : LiveHandle(h)'
                                /\ \A m \in Owners' : LiveCall(call[m])'
    BY DEF LiveInv
  <1>0. up
    OBVIOUS
  <1>1. ASSUME NEW c \in Clients, NEW h \in handles'[c] PROVE LiveHandle(h)'
    <2>1. h \in handles[c]
      OBVIOUS
    <2>2. IsHandle(h) /\ LiveHandle(h) /\ SameFh(h.fi.fh)
      BY <1>0, <2>1 DEF CallsInv, LiveInv
    <2> QED
      BY <2>2, SameLive
  <1>2. \A m \in Owners' : LiveCall(call[m])'
    <2>1. /\ \A m \in Owners : m # n => SameFh(Fh(call[m]))
          /\ k # Over /\ Owner(k) => LiveCall(k)'
      BY <1>0
    <2> QED
      BY ONLY CallsInv, LiveInv, Changes(n, k), <1>0, <2>1, OwnersStep, Zenon
  <1> QED
    BY <1>1, <1>2

\* Counting what is leaked and what will be.
LEMMA CountStep ==
  ASSUME NEW S, IsFiniteSet(S), NEW T, IsFiniteSet(T), NEW U, NEW V, NEW x, NEW y,
         NEW f \in Nat, NEW g \in Nat, Cardinality(S) + Cardinality(T) <= f,
         \/ U \subseteq S /\ V \subseteq T /\ g >= f
         \/ U \subseteq S \cup {x} /\ V \subseteq T /\ g = f + 1
         \/ U \subseteq S /\ V \subseteq T \cup {x} /\ g = f + 1
         \/ U \subseteq S \cup {x} /\ y \in T /\ V \subseteq T \ {y} /\ g = f
  PROVE  Cardinality(U) + Cardinality(V) <= g
  <1>1. /\ Cardinality(S) \in Nat /\ Cardinality(T) \in Nat
        /\ IsFiniteSet(S \cup {x}) /\ IsFiniteSet(T \cup {x}) /\ IsFiniteSet(T \ {y})
    BY FS_CardinalityType, FS_AddElement, FS_RemoveElement
  <1>2. /\ Cardinality(S \cup {x}) = IF x \in S THEN Cardinality(S) ELSE Cardinality(S) + 1
        /\ Cardinality(T \cup {x}) = IF x \in T THEN Cardinality(T) ELSE Cardinality(T) + 1
        /\ Cardinality(T \ {y}) = IF y \in T THEN Cardinality(T) - 1 ELSE Cardinality(T)
    BY FS_AddElement, FS_RemoveElement
  <1>3. CASE U \subseteq S /\ V \subseteq T /\ g >= f
    <2>1. /\ IsFiniteSet(U) /\ IsFiniteSet(V)
          /\ Cardinality(U) <= Cardinality(S) /\ Cardinality(V) <= Cardinality(T)
      BY <1>3, FS_Subset
    <2>2. Cardinality(U) \in Nat /\ Cardinality(V) \in Nat
      BY <2>1, FS_CardinalityType
    <2> QED
      BY <1>1, <1>3, <2>1, <2>2, SMT
  <1>4. CASE U \subseteq S \cup {x} /\ V \subseteq T /\ g = f + 1
    <2>1. /\ IsFiniteSet(U) /\ IsFiniteSet(V)
          /\ Cardinality(U) <= Cardinality(S \cup {x}) /\ Cardinality(V) <= Cardinality(T)
      BY <1>1, <1>4, FS_Subset
    <2>2. Cardinality(U) \in Nat /\ Cardinality(V) \in Nat
      BY <2>1, FS_CardinalityType
    <2> QED
      BY <1>1, <1>2, <1>4, <2>1, <2>2, SMT
  <1>5. CASE U \subseteq S /\ V \subseteq T \cup {x} /\ g = f + 1
    <2>1. /\ IsFiniteSet(U) /\ IsFiniteSet(V)
          /\ Cardinality(U) <= Cardinality(S) /\ Cardinality(V) <= Cardinality(T \cup {x})
      BY <1>1, <1>5, FS_Subset
    <2>2. Cardinality(U) \in Nat /\ Cardinality(V) \in Nat
      BY <2>1, FS_CardinalityType
    <2> QED
      BY <1>1, <1>2, <1>5, <2>1, <2>2, SMT
  <1>6. CASE U \subseteq S \cup {x} /\ y \in T /\ V \subseteq T \ {y} /\ g = f
    <2>1. /\ IsFiniteSet(U) /\ IsFiniteSet(V)
          /\ Cardinality(U) <= Cardinality(S \cup {x}) /\ Cardinality(V) <= Cardinality(T \ {y})
      BY <1>1, <1>6, FS_Subset
    <2>2. Cardinality(U) \in Nat /\ Cardinality(V) \in Nat
      BY <2>1, FS_CardinalityType
    <2> QED
      BY <1>1, <1>2, <1>6, <2>1, <2>2, SMT
  <1> QED
    BY <1>3, <1>4, <1>5, <1>6

LEMMA Finite == ASSUME CallsInv PROVE IsFiniteSet(Leaked) /\ IsFiniteSet(Orphans) /\ Numbers \subseteq Nat
  <1>1. Leaked \subseteq Fds /\ Orphans \subseteq Numbers
    BY DEF Leaked, Orphans, Active
  <1>2. load.calls \in Nat
    BY RemoteOpsAssumption DEF CallsInv
  <1>3. IsFiniteSet(Numbers)
    <2>1. 1 \in Int /\ load.calls \in Int
      BY <1>2, SMT
    <2> QED
      BY <2>1, FS_Interval DEF Numbers
  <1>4. Numbers \subseteq Nat
    BY <1>2, SMT DEF Numbers
  <1> QED
    BY <1>1, <1>3, <1>4, FileSystemAssumption, FS_Subset

LEMMA LeakStep ==
  ASSUME CallsInv, LeakInv, up' => up, fails' \in Nat, NEW x, NEW y,
         up' => \/ Leaked' \subseteq Leaked /\ Orphans' \subseteq Orphans /\ fails' >= fails
                \/ Leaked' \subseteq Leaked \cup {x} /\ Orphans' \subseteq Orphans /\ fails' = fails + 1
                \/ Leaked' \subseteq Leaked /\ Orphans' \subseteq Orphans \cup {x} /\ fails' = fails + 1
                \/ /\ Leaked' \subseteq Leaked \cup {x} /\ y \in Orphans
                   /\ Orphans' \subseteq Orphans \ {y} /\ fails' = fails
  PROVE  LeakInv'
  <1> SUFFICES ASSUME up' PROVE Cardinality(Leaked') + Cardinality(Orphans') <= fails'
    BY DEF LeakInv
  <1>1. IsFiniteSet(Leaked) /\ IsFiniteSet(Orphans)
    BY Finite
  <1>2. fails \in Nat /\ Cardinality(Leaked) + Cardinality(Orphans) <= fails
    BY DEF LeakInv
  <1> QED
    BY <1>1, <1>2, CountStep

-----------------------------------------------------------------------------
(* What FUSE sees of a call.                                               *)

LEMMA TransparentIs == Transparent <=> AllShow
  <1>1. \A m : Seen(m) = SeenOf(call[m])
    BY DEF Seen, SeenOf
  <1>2. \A m \in Waiting : m \in At("finished") \cup At("deleted") <=> call[m].phase \in Done
    BY DEF At, Done, Waiting
  <1> QED
    BY <1>1, <1>2 DEF Transparent, AllShow, Shows, Wrapped

LEMMA TransparentStep ==
  ASSUME CallsInv, Transparent, NEW n, NEW k, Changes(n, k),
         k # Over /\ k.waits /\ k.phase \in Done => Shows(k)
  PROVE  Transparent'
  <1>1. /\ call'[n] = k
        /\ \A m \in Numbers : m # n => call'[m] = call[m]
        /\ n \in Active' <=> k \notin {NoCall, Over}
        /\ \A m : m # n => (m \in Waiting' <=> m \in Waiting)
    BY ONLY CallsInv, Changes(n, k), OnlyOne, Zenon
  <1>2. ASSUME NEW m \in Waiting', call'[m].phase \in Done PROVE Shows(call'[m])
    <2>1. CASE m = n
      <3>1. k # Over /\ k.waits
        BY <1>1, <2>1 DEF Waiting
      <3> QED
        BY <1>1, <1>2, <2>1, <3>1
    <2>2. CASE m # n
      BY <1>1, <1>2, <2>2, SetsAre, TransparentIs DEF AllShow
    <2> QED
      BY <2>1, <2>2
  <1>3. AllShow'
    BY <1>2 DEF AllShow
  <1> QED
    BY <1>3, TransparentIs, PTL

-----------------------------------------------------------------------------
(* The actions.                                                            *)

LEMMA LeakedStep ==
  ASSUME CallsInv, NEW n, NEW k, Changes(n, k), handles' = handles, NEW d \in Leaked'
  PROVE  /\ fs.fds[d] # 0 => d \in Leaked \/ (n \in Owners /\ Fh(call[n]) = d)
         /\ k \notin {NoCall, Over} /\ Owner(k) => Fh(k) # d
  <1>1. /\ call'[n] = k
        /\ \A m \in Numbers : m # n => call'[m] = call[m]
        /\ n \in Active' <=> k \notin {NoCall, Over}
        /\ \A m : m # n => (m \in Owners' <=> m \in Owners)
    BY ONLY CallsInv, Changes(n, k), OnlyOne, Zenon
  <1>2. /\ d \in Fds
        /\ \A c \in Clients : \A h \in handles'[c] : h.fi.fh # d
        /\ \A m \in Owners' : Fh(call'[m]) # d
    BY DEF Leaked, Fh
  <1>3. \A m \in Owners : m # n => Fh(call[m]) # d
    BY <1>1, <1>2, SetsAre
  <1>4. fs.fds[d] # 0 => d \in Leaked \/ (n \in Owners /\ Fh(call[n]) = d)
    BY <1>2, <1>3 DEF Leaked
  <1>5. ASSUME k \notin {NoCall, Over}, Owner(k) PROVE Fh(k) # d
    <2>1. n \in Owners'
      BY <1>1, <1>5 DEF Owners
    <2> QED
      BY <1>1, <1>2, <2>1
  <1> QED
    BY <1>4, <1>5

LEMMA OrphanStep ==
  ASSUME CallsInv, NEW n, NEW k, Changes(n, k)
  PROVE  /\ n \in Orphans' <=> k \notin {NoCall, Over} /\ IsOrphan(k)
         /\ n \in Orphans <=> n \in Active /\ IsOrphan(call[n])
         /\ Orphans' \subseteq Orphans \cup {n}
  <1>1. /\ call'[n] = k
        /\ n \in Active' <=> k \notin {NoCall, Over}
        /\ \A m : m # n => (m \in Orphans' <=> m \in Orphans)
    BY ONLY CallsInv, Changes(n, k), OnlyOne, Zenon
  <1> QED
    BY <1>1 DEF Orphans, IsOrphan

\* A step that does not touch the server or the kernels, and keeps what is owned.
LEMMA Quiet ==
  ASSUME IndInv, NEW n \in Active, NEW k, Changes(n, k),
         UNCHANGED <<fs, dirs, up, handles, fails>>,
         k = Over \/ IsCall(k),
         Owner(call[n]) => k # Over /\ Owner(k),
         k # Over => /\ Owner(k) => Owner(call[n])
                     /\ Fh(k) = Fh(call[n]) /\ k.client = call[n].client
                     /\ LiveCall(call[n]) => LiveCall(k)
                     /\ IsOrphan(k) => IsOrphan(call[n])
                     /\ k.waits => call[n].waits /\ (HeldBy(call[n]) => HeldBy(k))
                     /\ k.phase \in Done => call[n].phase \in Done /\ (Shows(call[n]) => Shows(k))
  PROVE  IndInv'
  <1>0. /\ fs' = fs /\ dirs' = dirs /\ up' = up /\ handles' = handles /\ fails' = fails
        /\ ServerInv /\ CallsInv /\ HeldInv /\ UniqueInv /\ LiveInv /\ LeakInv /\ Transparent
    BY DEF IndInv
  <1>1. ServerInv'
    BY <1>0 DEF ServerInv, LiveDirs
  <1>2. CallsInv'
    <2>1. HandlesOk'
      BY <1>0 DEF CallsInv, HandlesOk
    <2>2. ASSUME k # Over, k.waits, NEW m \in Waiting, call[m].client = k.client PROVE m = n
      BY <1>0, <2>2 DEF CallsInv, Waiting
    <2> QED
      BY <1>0, <2>1, <2>2, CallsStep
  <1>3. HeldInv'
    <2>1. ASSUME k # Over, k.waits PROVE HeldBy(k)'
      <3>1. HeldBy(k)
        BY <1>0, <2>1 DEF HeldInv, Waiting
      <3> QED
        BY <1>0, <3>1 DEF HeldBy, HandleOf
    <2> QED
      BY <1>0, <2>1, HeldStep
  <1>4. UniqueInv'
    <2>1. k # Over /\ Owner(k) => n \in Owners /\ Fh(k) = Fh(call[n])
      BY DEF Owners
    <2> QED
      BY <1>0, <2>1, UniqueStep
  <1>5. LiveInv'
    <2>1. \A d : SameFh(d)
      BY <1>0 DEF SameFh, LiveDirs
    <2>2. ASSUME up, k # Over, Owner(k) PROVE LiveCall(k)'
      <3>1. LiveCall(k)
        BY <1>0, <2>2 DEF LiveInv, Owners
      <3> QED
        BY <1>0, <3>1 DEF LiveCall, LiveDirs
    <2>3. /\ up' => up
          /\ up => \A c \in Clients : \A h \in handles[c] : SameFh(h.fi.fh)
          /\ up => \A m \in Owners : m # n => SameFh(Fh(call[m]))
      BY ONLY <1>0, <2>1, Zenon
    <2>4. up /\ k # Over /\ Owner(k) => LiveCall(k)'
      BY ONLY <2>2, Zenon
    <2> QED
      BY ONLY <1>0, <2>3, <2>4, Changes(n, k), LiveStep, Zenon
  <1>6. LeakInv'
    <2>1. ASSUME NEW d \in Leaked' PROVE d \in Leaked
      <3>1. fs.fds[d] # 0
        BY <1>0 DEF Leaked
      <3>2. /\ fs.fds[d] # 0 => d \in Leaked \/ (n \in Owners /\ Fh(call[n]) = d)
            /\ k \notin {NoCall, Over} /\ Owner(k) => Fh(k) # d
        BY <1>0, LeakedStep
      <3>3. k # Over => k \notin {NoCall, Over}
        BY CallIsActive
      <3> QED
        BY <3>1, <3>2, <3>3 DEF Owners
    <2>2. Orphans' \subseteq Orphans
      BY <1>0, OrphanStep
    <2>3. fails \in Nat /\ fails' \in Nat /\ fails' >= fails
      BY <1>0, SMT DEF LeakInv
    <2>4. Leaked' \subseteq Leaked
      BY <2>1
    <2> QED
      BY ONLY <1>0, <2>2, <2>3, <2>4, LeakStep, Zenon
  <1>7. Transparent'
    <2>1. ASSUME k # Over, k.waits, k.phase \in Done PROVE Shows(k)
      BY <1>0, <2>1, TransparentIs DEF AllShow, Waiting
    <2> QED
      BY <1>0, <2>1, TransparentStep
  <1> QED
    BY <1>1, <1>2, <1>3, <1>4, <1>5, <1>6, <1>7 DEF IndInv


LEMMA PutIs ==
  ASSUME NEW j, IsCall(j), NEW w, NEW p
  PROVE  /\ [j EXCEPT !.phase = p] = Put(j, j.waits, p)
         /\ [j EXCEPT !.waits = w] = Put(j, w, j.phase)
         /\ [j EXCEPT !.waits = w, !.phase = p] = Put(j, w, p)
  <1>1. j = Put(j, j.waits, j.phase)
    BY DEF IsCall, Put
  <1> DEFINE P(op, client, args, room, waits, held, acted, all, request, phase, reply, res, want) ==
               [op |-> op, client |-> client, args |-> args, room |-> room, waits |-> waits,
                held |-> held, acted |-> acted, all |-> all, request |-> request, phase |-> phase,
                reply |-> reply, res |-> res, want |-> want]
  <1>2. PICK op, client, args, room, waits, held, acted, all, request, phase, reply, res, want :
          /\ j = P(op, client, args, room, waits, held, acted, all, request, phase, reply, res, want)
          /\ \A v, q : Put(j, v, q) = P(op, client, args, room, v, held, acted, all, request, q,
                                        reply, res, want)
    BY <1>1 DEF Put
  <1>3. j.waits = waits /\ j.phase = phase
    BY ONLY <1>2, SMT
  <1>4. [j EXCEPT !.phase = p] =
          P(op, client, args, room, waits, held, acted, all, request, p, reply, res, want)
    BY ONLY <1>2, SMT
  <1> DEFINE i == [j EXCEPT !.waits = w]
  <1>5. i = P(op, client, args, room, w, held, acted, all, request, phase, reply, res, want)
    BY ONLY <1>2, SMT
  <1>6. [j EXCEPT !.waits = w, !.phase = p] = [i EXCEPT !.phase = p]
    BY ONLY SMT
  <1> HIDE DEF i
  <1>7. [i EXCEPT !.phase = p] =
          P(op, client, args, room, w, held, acted, all, request, p, reply, res, want)
    BY ONLY <1>5, SMT
  <1> HIDE DEF P
  <1>8. Put(j, j.waits, p) =
          P(op, client, args, room, waits, held, acted, all, request, p, reply, res, want)
    BY ONLY <1>2, <1>3, Zenon
  <1>9. Put(j, w, j.phase) =
          P(op, client, args, room, w, held, acted, all, request, phase, reply, res, want)
    BY ONLY <1>2, <1>3, Zenon
  <1>10. Put(j, w, p) =
          P(op, client, args, room, w, held, acted, all, request, p, reply, res, want)
    BY ONLY <1>2, Zenon
  <1> QED
    BY ONLY <1>4, <1>5, <1>6, <1>7, <1>8, <1>9, <1>10, Zenon DEF i

LEMMA PutKeeps ==
  ASSUME NEW j, IsCall(j), NEW w \in BOOLEAN, NEW p \in Unserved \cup Done,
         p \in Done <=> j.phase \in Done, p = "deleted" => w = TRUE
  PROVE  /\ Follows(j, Put(j, w, p))
         /\ Put(j, w, p).waits = w /\ Put(j, w, p).phase = p
  <1>0. PICK k : k = Put(j, w, p)
    OBVIOUS
  <1>1. /\ k.op = j.op /\ k.client = j.client /\ k.args = j.args /\ k.room = j.room
        /\ k.waits = w /\ k.held = j.held /\ k.acted = j.acted /\ k.all = j.all
        /\ k.request = j.request /\ k.phase = p /\ k.reply = j.reply /\ k.res = j.res
        /\ k.want = j.want
    BY ONLY <1>0, SMT DEF Put
  <1>2. k = Put(k, k.waits, k.phase)
    BY <1>0, <1>1 DEF Put
  <1>3. j.phase \in Unserved \cup Done
    BY DEF IsCall
  <1>4. j.phase \in Unserved <=> p \in Unserved
    BY <1>3 DEF Unserved, Done
  <1>5. IsCall(k)
    <2>1. k.waits \in BOOLEAN /\ (k.phase = "deleted" => k.waits)
      BY <1>1
    <2> QED
      BY <1>1, <1>2, <2>1 DEF IsCall, Put
  <1>6. Fh(k) = Fh(j)
    BY <1>1 DEF Fh
  <1>7. LiveCall(j) => LiveCall(k)
    BY <1>1, <1>6 DEF LiveCall
  <1>8. HeldBy(j) => HeldBy(k)
    BY <1>1 DEF HeldBy
  <1>9. Shows(j) => Shows(k)
    <2>1. SeenOf(k) = SeenOf(j)
      BY <1>1 DEF SeenOf
    <2> QED
      BY <1>1, <2>1 DEF Shows
  <1>10. ASSUME w = j.waits PROVE (Owner(k) <=> Owner(j)) /\ (IsOrphan(k) <=> IsOrphan(j))
    BY <1>1, <1>4, <1>10 DEF Owner, IsOrphan
  <1>11. ASSUME w = FALSE PROVE Owner(k) <=> j.op \in CloseOps /\ p \in Unserved
    BY <1>1, <1>11 DEF Owner
  <1>12. Follows(j, k)
    BY ONLY <1>1, <1>4, <1>5, <1>6, <1>7, <1>8, <1>9, <1>10, <1>11, Zenon DEF Follows
  <1> QED
    BY <1>0, <1>1, <1>12


LEMMA PhaseStep ==
  ASSUME IndInv, NEW n \in Active, NEW p \in Unserved \cup Done,
         call' = [call EXCEPT ![n] = Put(call[n], call[n].waits, p)],
         UNCHANGED <<fs, dirs, up, handles, fails, load>>,
         p \in Done <=> call[n].phase \in Done, p = "deleted" => call[n].waits
  PROVE  IndInv'
  <1>0. PICK j : j = call[n]
    OBVIOUS
  <1>1. IsCall(j) /\ j.waits \in BOOLEAN
    BY <1>0 DEF IndInv, CallsInv, IsCall
  <1>2. PICK k : k = Put(j, j.waits, p)
    OBVIOUS
  <1>3. Changes(n, k)
    BY <1>0, <1>2, SetsAre DEF Changes
  <1>4. Follows(j, k) /\ k.waits = j.waits /\ k.phase = p
    <2>1. (p \in Done <=> j.phase \in Done) /\ (p = "deleted" => j.waits = TRUE)
      BY <1>0, <1>1
    <2> QED
      BY <1>1, <1>2, <2>1, PutKeeps
  <1>5. IsCall(k) /\ k # Over
    BY <1>4, CallIsActive DEF Follows
  <1>6. /\ Owner(k) <=> Owner(j)
        /\ Fh(k) = Fh(j) /\ k.client = j.client
        /\ LiveCall(j) => LiveCall(k)
        /\ IsOrphan(k) <=> IsOrphan(j)
        /\ HeldBy(j) => HeldBy(k)
        /\ Shows(j) => Shows(k)
    BY <1>4 DEF Follows
  <1> QED
    BY <1>0, <1>3, <1>4, <1>5, <1>6, Quiet

LEMMA AcceptKeeps == ASSUME IndInv, NEW n \in Numbers, Accept(n) PROVE IndInv'
  <1>1. n \in Active /\ call[n].phase = "sent"
    BY DEF Accept, At
  <1>2. IsCall(call[n])
    BY <1>1 DEF IndInv, CallsInv
  <1>3. call' = [call EXCEPT ![n] = Put(call[n], call[n].waits, "queued")]
    BY <1>2, PutIs DEF Accept
  <1>4. "queued" \in Unserved /\ "queued" \notin Done /\ "sent" \notin Done
    BY DEF Unserved, Done
  <1> QED
    BY <1>1, <1>3, <1>4, PhaseStep DEF Accept

LEMMA PollKeeps == ASSUME IndInv, NEW n \in Numbers, Poll(n) PROVE IndInv'
  <1>1. n \in Active /\ call[n].phase = "queued"
    BY DEF Poll, At
  <1>2. IsCall(call[n])
    BY <1>1 DEF IndInv, CallsInv
  <1>3. call' = [call EXCEPT ![n] = Put(call[n], call[n].waits, "process")]
    BY <1>2, PutIs DEF Poll
  <1>4. "process" \in Unserved /\ "process" \notin Done /\ "queued" \notin Done
    BY DEF Unserved, Done
  <1> QED
    BY <1>1, <1>3, <1>4, PhaseStep DEF Poll

\* A finished call nobody waits for owns nothing.
LEMMA DeleteKeeps == ASSUME IndInv, NEW n \in Numbers, Delete(n) PROVE IndInv'
  <1>1. n \in Active /\ call[n].phase = "finished"
    BY DEF Delete, At
  <1>2. IsCall(call[n]) /\ call[n].waits \in BOOLEAN
    BY <1>1 DEF IndInv, CallsInv, IsCall
  <1>3. PICK k : k = Put(call[n], call[n].waits, "deleted")
    OBVIOUS
  <1>4. /\ call' = [call EXCEPT ![n] = Settle(k)]
        /\ UNCHANGED <<fs, dirs, up, handles, fails, load>>
    BY <1>2, <1>3, PutIs DEF Delete
  <1>5. k.waits = call[n].waits /\ k.phase = "deleted"
    BY ONLY <1>3, SMT DEF Put
  <1>6. "deleted" \in Done /\ "finished" \in Done /\ "finished" \notin Unserved
    BY DEF Unserved, Done
  <1>7. CASE call[n].waits
    <2>1. Settle(k) = k
      BY <1>5, <1>7 DEF Settle
    <2> QED
      BY <1>1, <1>3, <1>4, <1>6, <1>7, <2>1, PhaseStep
  <1>8. CASE ~call[n].waits
    <2>1. Settle(k) = Over
      BY <1>5, <1>8 DEF Settle
    <2>2. Changes(n, Over)
      BY <1>4, <2>1 DEF Changes
    <2>3. ~Owner(call[n])
      BY <1>1, <1>6, <1>8 DEF Owner
    <2> QED
      BY <1>1, <1>4, <2>2, <2>3, Quiet
  <1> QED
    BY <1>7, <1>8

\* All descriptors and streams are gone with the server.
LEMMA CrashKeeps == ASSUME IndInv, NEW n \in Numbers, Crash(n) PROVE IndInv'
  <1>1. /\ up' = FALSE /\ dirs' = [d \in Dirps |-> NoDir]
        /\ fs' = Collect([fs EXCEPT !.fds = [d \in Fds |-> 0]])
        /\ call' = call /\ handles' = handles /\ fails' = fails /\ load' = load
    BY DEF Crash
  <1>2. IsFS(fs')
    <2> DEFINE g == [fs EXCEPT !.fds = [d \in Fds |-> 0]]
    <2>1. IsFS(g)
      BY SMT DEF IndInv, ServerInv, IsFS
    <2> HIDE DEF g
    <2>2. Keeps(g, Collect(g))
      BY <2>1, CollectKeeps
    <2> QED
      BY <1>1, <2>2 DEF Keeps, g
  <1>3. ServerInv'
    <2>1. LiveDirs(dirs)' = {} /\ dirs' = [d \in Dirps |-> dirs'[d]]
      BY <1>1 DEF LiveDirs
    <2> QED
      BY <1>2, <2>1 DEF ServerInv, IsFS
  <1>4. CallsInv'
    BY <1>1 DEF IndInv, CallsInv, Active, Waiting, Numbers
  <1>0. Waiting' = Waiting /\ Owners' = Owners
    BY <1>1 DEF Waiting, Owners, Active, Numbers
  <1>5. HeldInv'
    <2>1. HeldInv
      BY DEF IndInv
    <2> QED
      BY ONLY <1>0, <1>1, <2>1, SMT DEF HeldInv, HeldBy, HandleOf
  <1>6. UniqueInv'
    <2>1. UniqueInv
      BY DEF IndInv
    <2> QED
      BY ONLY <1>0, <1>1, <2>1, SMT DEF UniqueInv, Fh
  <1>7. LiveInv' /\ LeakInv'
    BY <1>1 DEF IndInv, LiveInv, LeakInv
  <1>8. Transparent'
    <2>1. AllShow
      BY TransparentIs DEF IndInv
    <2>2. AllShow'
      BY <1>0, <1>1, <2>1 DEF AllShow
    <2> QED
      BY <2>2, TransparentIs, PTL
  <1> QED
    BY <1>3, <1>4, <1>5, <1>6, <1>7, <1>8 DEF IndInv


LEMMA Again ==
  ASSUME NEW N, NEW c, c = [m \in N |-> c[m]], NEW n \in N, NEW v, NEW u
  PROVE  [c EXCEPT ![n] = v][n] = v /\ [[c EXCEPT ![n] = v] EXCEPT ![n] = u] = [c EXCEPT ![n] = u]
  <1>0. PICK d : d = [c EXCEPT ![n] = v]
    OBVIOUS
  <1>1. d = [m \in N |-> IF m = n THEN v ELSE c[m]]
    BY <1>0, SMT
  <1>2. [d EXCEPT ![n] = u] = [m \in N |-> IF m = n THEN u ELSE c[m]]
    BY ONLY <1>1, n \in N, SMT
  <1>3. [c EXCEPT ![n] = u] = [m \in N |-> IF m = n THEN u ELSE c[m]]
    BY SMT
  <1> QED
    BY <1>0, <1>1, <1>2, <1>3

LEMMA ServedIs ==
  ASSUME NEW N, NEW c, c = [m \in N |-> c[m]], NEW n \in N, IsCall(c[n]),
         NEW r, NEW s, NEW a, NEW l, NEW w
  PROVE  FinishesIs(c, n, r, s, a, l, w)
  <1> DEFINE P(op, client, args, room, waits, held, acted, all, request, phase, reply, res, want) ==
               [op |-> op, client |-> client, args |-> args, room |-> room, waits |-> waits,
                held |-> held, acted |-> acted, all |-> all, request |-> request, phase |-> phase,
                reply |-> reply, res |-> res, want |-> want]
             j1 == [c[n] EXCEPT !.phase = "finished"]
             j2 == [j1 EXCEPT !.reply = r]
             j3 == [j2 EXCEPT !.res = s]
             j4 == [j3 EXCEPT !.acted = a]
             j5 == [j4 EXCEPT !.all = l]
             j6 == [j5 EXCEPT !.want = w]
  <1>1. PICK op, client, args, room, waits, held, acted, all, request, phase, reply, res, want :
          /\ c[n] = P(op, client, args, room, waits, held, acted, all, request, phase, reply, res, want)
          /\ Served(c[n], r, s, a, l, w) =
               P(op, client, args, room, waits, held, a, l, request, "finished", r, s, w)
    BY DEF Served, IsCall
  <1>2. Finishes(c, n, r, s, a, l, w) = [c EXCEPT ![n] = j6]
    <2> HIDE DEF P
    <2> DEFINE c1 == [c EXCEPT ![n].phase = "finished"]
               c2 == [c1 EXCEPT ![n].reply = r]
               c3 == [c2 EXCEPT ![n].res = s]
               c4 == [c3 EXCEPT ![n].acted = a]
               c5 == [c4 EXCEPT ![n].all = l]
               c6 == [c5 EXCEPT ![n].want = w]
    <2>0. c = [m \in N |-> c[m]] /\ n \in N
      OBVIOUS
    <2>1. Finishes(c, n, r, s, a, l, w) = c6
      BY ONLY SMT DEF Finishes
    <2>2. c1 = [c EXCEPT ![n] = j1]
      OBVIOUS
    <2> HIDE DEF c1, j1
    <2>3. c2 = [c EXCEPT ![n] = j2]
      <3>1. c1[n] = j1 /\ [c1 EXCEPT ![n] = j2] = [c EXCEPT ![n] = j2]
        BY ONLY <2>0, <2>2, Again, Zenon
      <3>2. c2 = [c1 EXCEPT ![n] = [c1[n] EXCEPT !.reply = r]]
        OBVIOUS
      <3> QED
        BY ONLY <3>1, <3>2, Zenon
    <2> HIDE DEF c2, j2
    <2>4. c3 = [c EXCEPT ![n] = j3]
      <3>1. c2[n] = j2 /\ [c2 EXCEPT ![n] = j3] = [c EXCEPT ![n] = j3]
        BY ONLY <2>0, <2>3, Again, Zenon
      <3>2. c3 = [c2 EXCEPT ![n] = [c2[n] EXCEPT !.res = s]]
        OBVIOUS
      <3> QED
        BY ONLY <3>1, <3>2, Zenon
    <2> HIDE DEF c3, j3
    <2>5. c4 = [c EXCEPT ![n] = j4]
      <3>1. c3[n] = j3 /\ [c3 EXCEPT ![n] = j4] = [c EXCEPT ![n] = j4]
        BY ONLY <2>0, <2>4, Again, Zenon
      <3>2. c4 = [c3 EXCEPT ![n] = [c3[n] EXCEPT !.acted = a]]
        OBVIOUS
      <3> QED
        BY ONLY <3>1, <3>2, Zenon
    <2> HIDE DEF c4, j4
    <2>6. c5 = [c EXCEPT ![n] = j5]
      <3>1. c4[n] = j4 /\ [c4 EXCEPT ![n] = j5] = [c EXCEPT ![n] = j5]
        BY ONLY <2>0, <2>5, Again, Zenon
      <3>2. c5 = [c4 EXCEPT ![n] = [c4[n] EXCEPT !.all = l]]
        OBVIOUS
      <3> QED
        BY ONLY <3>1, <3>2, Zenon
    <2> HIDE DEF c5, j5
    <2>7. c6 = [c EXCEPT ![n] = j6]
      <3>1. c5[n] = j5 /\ [c5 EXCEPT ![n] = j6] = [c EXCEPT ![n] = j6]
        BY ONLY <2>0, <2>6, Again, Zenon
      <3>2. c6 = [c5 EXCEPT ![n] = [c5[n] EXCEPT !.want = w]]
        OBVIOUS
      <3> QED
        BY ONLY <3>1, <3>2, Zenon
    <2> QED
      BY ONLY <2>1, <2>7, Zenon
  <1>3. j1 = P(op, client, args, room, waits, held, acted, all, request, "finished", reply, res, want)
    BY ONLY <1>1, SMT
  <1> HIDE DEF j1
  <1>4. j2 = P(op, client, args, room, waits, held, acted, all, request, "finished", r, res, want)
    BY ONLY <1>3, SMT
  <1> HIDE DEF j2
  <1>5. j3 = P(op, client, args, room, waits, held, acted, all, request, "finished", r, s, want)
    BY ONLY <1>4, SMT
  <1> HIDE DEF j3
  <1>6. j4 = P(op, client, args, room, waits, held, a, all, request, "finished", r, s, want)
    BY ONLY <1>5, SMT
  <1> HIDE DEF j4
  <1>7. j5 = P(op, client, args, room, waits, held, a, l, request, "finished", r, s, want)
    BY ONLY <1>6, SMT
  <1> HIDE DEF j5
  <1>8. j6 = P(op, client, args, room, waits, held, a, l, request, "finished", r, s, w)
    BY ONLY <1>7, SMT
  <1> HIDE DEF j6, P
  <1> QED
    BY ONLY <1>1, <1>2, <1>8, Zenon DEF FinishesIs


LEMMA ProcessIs ==
  ASSUME IndInv, NEW n \in Numbers, Process(n)
  PROVE  \E j, a, o, k, w : Executes(n, j, a, o, k, w)
  <1>0. PICK j : j = call[n]
    OBVIOUS
  <1>1. n \in Active /\ j.phase = "process" /\ up
    BY <1>0 DEF Process, At
  <1>2. IsCall(j)
    BY <1>0, <1>1 DEF IndInv, CallsInv
  <1>3. j.op \in Offered /\ IsArgs(j.op, j.args) /\ j.request = Message(j.args, Calls[j.op].sends, NoArgs)
    BY <1>2 DEF IsCall
  <1>4. PICK a : a = Received(j.op, j.args)
    OBVIOUS
  <1>5. a = Message(j.request, Handlers[j.op].uses, NoArgs)
    BY <1>3, <1>4 DEF Received
  <1>6. Alike(j.op, a, j.args) /\ a.offset \in Nat /\ j.args.offset \in Nat
    BY <1>3, <1>4, ReceivedAlike DEF IsArgs
  <1>7. /\ j.op \in LocalInstalled
        /\ j.op \in {"readdir", "releasedir"} => a.fi.fh \in LiveDirs(dirs)
    BY <1>0, <1>5 DEF Process, Segfaults
  <1>8. PICK o : o = LocalOp(j.op, fs, dirs, a, rpc_filler_room)
    OBVIOUS
  <1>9. PICK w : w = LocalOp(j.op, fs, dirs, j.args, j.room)
    OBVIOUS
  <1>10. IsFS(fs) /\ IsDirs(dirs)
    BY DEF IndInv, ServerInv, IsDirs
  <1>11. Effect(j.op, fs, dirs, a, rpc_filler_room, o)
    <2>1. rpc_filler_room \in Nat \ {0}
      BY SMT DEF rpc_filler_room
    <2> QED
      BY <1>6, <1>7, <1>8, <1>10, <2>1, OpEffect
  <1>12. Effect(j.op, fs, dirs, j.args, j.room, w)
    <2>1. j.op = "readdir" => j.room \in Nat \ {0}
      <3>1. j.op = "readdir" => j.room \in 1..rpc_filler_room
        BY <1>2, RemoteOpsAssumption DEF IsCall
      <3>2. \A r \in 1..rpc_filler_room : r \in Nat \ {0}
        BY SMT
      <3> QED
        BY <3>1, <3>2
    <2>2. j.op \in {"readdir", "releasedir"} => j.args.fi.fh \in LiveDirs(dirs)
      BY <1>6, <1>7 DEF Alike
    <2> QED
      BY <1>6, <1>7, <1>9, <1>10, <2>1, <2>2, OpEffect
  <1> DEFINE r == Reply(j.op, o)
             c == Acted(j.op, a, o)
             l == IF j.op = "opendir" /\ o.res = 0 THEN o.dirs[o.fi.fh].ents ELSE <<>>
             v == [res |-> w.res, st |-> w.st, fi |-> w.fi, buf |-> w.buf, ents |-> w.ents]
  <1>13. PICK k : k = Served(j, r, o.res, c, l, v)
    OBVIOUS
  <1>14. call' = Finishes(call, n, r, o.res, c, l, v)
    BY <1>0, <1>5, <1>8, <1>9 DEF Process, Acted, Reply, Finishes
  <1> HIDE DEF r, c, l, v
  <1>15. call = [m \in Numbers |-> call[m]]
    BY DEF IndInv, CallsInv
  <1>16. call' = [call EXCEPT ![n] = k]
    <2>1. FinishesIs(call, n, r, o.res, c, l, v)
      BY ONLY <1>0, <1>2, <1>15, n \in Numbers, ServedIs, Zenon
    <2> QED
      BY ONLY <1>0, <1>13, <1>14, <2>1, Zenon DEF FinishesIs
  <1>17. /\ fs' = o.fs /\ dirs' = o.dirs /\ handles' = handles /\ up' = up /\ fails' = fails
         /\ load' = load
    BY <1>0, <1>5, <1>8 DEF Process
  <1>18. Changes(n, k)
    BY <1>16, <1>17 DEF Changes
  <1>19. Executes(n, j, a, o, k, w)
    BY <1>0, <1>1, <1>2, <1>6, <1>7, <1>8, <1>9, <1>11, <1>12, <1>13, <1>17, <1>18
       DEF Executes, r, c, l, v
  <1> QED
    BY <1>19

LEMMA ExecutesFields ==
  ASSUME NEW n, NEW j, NEW a, NEW o, NEW k, NEW w, Executes(n, j, a, o, k, w)
  PROVE  Finished(j, a, o, k, w)
  <1> DEFINE r == Reply(j.op, o)
             c == Acted(j.op, a, o)
             l == IF j.op = "opendir" /\ o.res = 0 THEN o.dirs[o.fi.fh].ents ELSE <<>>
             v == [res |-> w.res, st |-> w.st, fi |-> w.fi, buf |-> w.buf, ents |-> w.ents]
  <1>1. k = Served(j, r, o.res, c, l, v)
    BY DEF Executes
  <1> HIDE DEF r, c, l, v
  <1>2. /\ k.op = j.op /\ k.client = j.client /\ k.args = j.args /\ k.room = j.room
        /\ k.waits = j.waits /\ k.held = j.held /\ k.acted = c /\ k.all = l
        /\ k.request = j.request /\ k.phase = "finished" /\ k.reply = r /\ k.res = o.res
        /\ k.want = v /\ k = Served(k, k.reply, k.res, k.acted, k.all, k.want)
    BY ONLY <1>1, SMT DEF Served
  <1> QED
    BY <1>2 DEF r, c, l, v, Finished


LEMMA DirIsLive == ASSUME NEW x, IsDir(x) PROVE x # NoDir
  <1>1. x.offset \in Nat
    BY DEF IsDir
  <1>2. NoDir.offset \notin Nat
    BY SMT DEF NoDir
  <1> QED
    BY <1>1, <1>2

LEMMA OneDir ==
  ASSUME NEW ds, IsDirs(ds), NEW d \in Dirps, NEW x, NEW e, SetsDir(e, ds, d, x)
  PROVE  IsDirs(e) /\ OthersSame(e, ds, d, x)
  <1>1. ds = [c \in Dirps |-> ds[c]]
    BY DEF IsDirs
  <1>2. e = [c \in Dirps |-> e[c]] /\ e[d] = x /\ \A c \in Dirps : c # d => e[c] = ds[c]
    BY <1>1, SMT DEF SetsDir
  <1>3. \A c \in LiveDirs(e) : IsDir(e[c])
    <2> SUFFICES ASSUME NEW c \in LiveDirs(e) PROVE IsDir(e[c])
      OBVIOUS
    <2>1. CASE c = d
      BY <1>2, <2>1 DEF LiveDirs, SetsDir, IsSlot
    <2>2. CASE c # d
      BY <1>2, <2>2 DEF LiveDirs, IsDirs
    <2> QED
      BY <2>1, <2>2
  <1>4. IsDir(x) => d \in LiveDirs(e)
    BY <1>2, DirIsLive DEF LiveDirs
  <1>5. \A c \in LiveDirs(ds) : c # d => c \in LiveDirs(e) /\ e[c] = ds[c]
    BY <1>2 DEF LiveDirs
  <1> QED
    BY <1>2, <1>3, <1>4, <1>5 DEF IsDirs, OthersSame

LEMMA ProcessServer ==
  ASSUME IndInv, NEW n, NEW j, NEW a, NEW o, NEW k, NEW w, Executes(n, j, a, o, k, w)
  PROVE  ServerInv'
  <1>0. IsDirs(dirs) /\ fs' = o.fs /\ dirs' = o.dirs /\ Effect(j.op, fs, dirs, a, rpc_filler_room, o)
    BY DEF IndInv, ServerInv, IsDirs, Executes
  <1>1. IsFS(o.fs)
    BY <1>0 DEF Effect, Frame
  <1>2. IsDirs(o.dirs)
    <2>1. CASE j.op \notin DirOps
      BY <1>0, <2>1 DEF Effect, Frame
    <2>2. CASE j.op = "opendir"
      <3>1. OpendirResult(fs, dirs, a, o)
        BY <1>0, <2>2 DEF Effect
      <3>2. CASE o.dirs = dirs
        BY <1>0, <3>2
      <3>3. CASE \E d \in Dirps \ LiveDirs(dirs) : \E x : IsDir(x) /\ SetsDir(o.dirs, dirs, d, x)
        BY <1>0, <3>3, OneDir
      <3> QED
        BY <3>1, <3>2, <3>3 DEF OpendirResult, SetsDir, IsSlot
    <2>3. CASE j.op \in {"readdir", "releasedir"}
      <3>1. a.fi.fh \in Dirps
        BY <2>3 DEF Executes, LiveDirs
      <3>2. \E x : SetsDir(o.dirs, dirs, a.fi.fh, x)
        BY <1>0, <2>3 DEF Effect, ReaddirResult, ReleasedirResult, SetsDir, IsSlot
      <3> QED
        BY <1>0, <3>1, <3>2, OneDir
    <2> QED
      BY <2>1, <2>2, <2>3 DEF DirOps
  <1> QED
    BY <1>0, <1>1, <1>2 DEF ServerInv, IsDirs, IsFS, LiveDirs

\* What the call does not close, and what is open before it, is left alone.
LEMMA ProcessSame ==
  ASSUME IndInv, NEW n, NEW j, NEW a, NEW o, NEW k, NEW w, Executes(n, j, a, o, k, w),
         NEW d, j.op \in CloseOps => d # a.fi.fh, d \in Fds => fs.fds[d] # 0
  PROVE  SameFh(d)
  <1>0. /\ IsFS(fs) /\ IsDirs(dirs) /\ fs' = o.fs /\ dirs' = o.dirs
        /\ Effect(j.op, fs, dirs, a, rpc_filler_room, o)
    BY DEF IndInv, ServerInv, IsDirs, Executes
  <1>1. ASSUME d \in Fds PROVE o.fs.fds[d] = fs.fds[d]
    <2>0. fs.fds = [c \in Fds |-> fs.fds[c]]
      BY <1>0 DEF IsFS
    <2>1. CASE j.op \notin {"open", "create", "release"}
      BY <1>0, <2>1 DEF Effect, Frame
    <2>2. CASE j.op \in {"open", "create"}
      <3>1. OpenResult(fs, a, o)
        BY <1>0, <2>2 DEF Effect
      <3>2. CASE o.fs.fds = fs.fds
        BY <3>2
      <3>3. CASE \E e \in FreeFds(fs) : \E i : o.fs.fds = [fs.fds EXCEPT ![e] = i]
        <4>1. PICK e \in FreeFds(fs) : \E i : o.fs.fds = [fs.fds EXCEPT ![e] = i]
          BY <3>3
        <4>2. PICK i : o.fs.fds = [fs.fds EXCEPT ![e] = i]
          BY <4>1
        <4>3. e # d
          BY <1>1 DEF FreeFds
        <4> QED
          BY ONLY <1>1, <2>0, <4>2, <4>3, SMT
      <3> QED
        BY <3>1, <3>2, <3>3 DEF OpenResult
    <2>3. CASE j.op = "release"
      <3>1. o.fs = close(fs, a.fi.fh).fs
        BY <1>0, <2>3 DEF Effect
      <3>2. o.fs.fds = IF IsOpen(fs, a.fi.fh) THEN [fs.fds EXCEPT ![a.fi.fh] = 0] ELSE fs.fds
        BY <1>0, <3>1, CloseIs
      <3>3. d # a.fi.fh
        BY <2>3 DEF CloseOps
      <3> QED
        BY ONLY <1>1, <2>0, <3>2, <3>3, SMT
    <2> QED
      BY <2>1, <2>2, <2>3
  <1>2. ASSUME d \in LiveDirs(dirs) PROVE d \in LiveDirs(o.dirs) /\ o.dirs[d].ents = dirs[d].ents
    <2>1. CASE j.op \notin DirOps
      BY <1>0, <1>2, <2>1 DEF Effect, Frame
    <2>2. CASE j.op = "opendir"
      <3>1. OpendirResult(fs, dirs, a, o)
        BY <1>0, <2>2 DEF Effect
      <3>2. CASE o.dirs = dirs
        BY <1>2, <3>2
      <3>3. CASE \E e \in Dirps \ LiveDirs(dirs) : \E x : IsDir(x) /\ SetsDir(o.dirs, dirs, e, x)
        <4>1. PICK e \in Dirps \ LiveDirs(dirs) : \E x : IsDir(x) /\ SetsDir(o.dirs, dirs, e, x)
          BY <3>3
        <4>2. PICK x : IsDir(x) /\ SetsDir(o.dirs, dirs, e, x)
          BY <4>1
        <4>3. OthersSame(o.dirs, dirs, e, x)
          BY <1>0, <4>2, OneDir
        <4> QED
          BY <1>2, <4>3 DEF OthersSame
      <3> QED
        BY <3>1, <3>2, <3>3 DEF OpendirResult, SetsDir, IsSlot
    <2>3. CASE j.op = "readdir"
      <3>1. a.fi.fh \in Dirps
        BY <2>3 DEF Executes, LiveDirs
      <3>2. PICK x : IsDir(x) /\ x.ents = dirs[a.fi.fh].ents /\ SetsDir(o.dirs, dirs, a.fi.fh, x)
        BY <1>0, <2>3 DEF Effect, ReaddirResult, SetsDir, IsSlot
      <3>3. OthersSame(o.dirs, dirs, a.fi.fh, x)
        BY <1>0, <3>1, <3>2, OneDir
      <3> QED
        BY <1>2, <3>2, <3>3 DEF OthersSame
    <2>4. CASE j.op = "releasedir"
      <3>1. a.fi.fh \in Dirps /\ d # a.fi.fh
        BY <2>4 DEF Executes, LiveDirs, CloseOps
      <3>2. SetsDir(o.dirs, dirs, a.fi.fh, NoDir)
        BY <1>0, <2>4 DEF Effect, ReleasedirResult, SetsDir, IsSlot
      <3>3. OthersSame(o.dirs, dirs, a.fi.fh, NoDir)
        BY <1>0, <3>1, <3>2, OneDir
      <3> QED
        BY <1>2, <3>1, <3>3 DEF OthersSame
    <2> QED
      BY <2>1, <2>2, <2>3, <2>4 DEF DirOps
  <1> QED
    BY <1>0, <1>1, <1>2 DEF SameFh, LiveDirs


\* What is owned is open.
LEMMA Claims ==
  ASSUME IndInv, up
  PROVE  /\ \A c \in Clients : \A h \in handles[c] : Claimed(h.fi.fh)
         /\ \A m \in Owners : Claimed(Fh(call[m]))
  <1>1. ASSUME NEW c \in Clients, NEW h \in handles[c] PROVE Claimed(h.fi.fh)
    <2>1. IsHandle(h) /\ LiveHandle(h)
      BY DEF IndInv, CallsInv, LiveInv
    <2>2. h.kind = "file" => h.fi.fh \in Fds
      BY <2>1 DEF IsHandle
    <2> QED
      BY <2>1, <2>2 DEF LiveHandle, Claimed
  <1>2. ASSUME NEW m \in Owners PROVE Claimed(Fh(call[m]))
    <2>0. PICK k : k = call[m]
      OBVIOUS
    <2>1. IsCall(k) /\ Owner(k) /\ LiveCall(k)
      BY <2>0, SetsAre DEF IndInv, CallsInv, LiveInv
    <2>2. k.op \in {"open", "create", "opendir", "release", "releasedir"}
      BY <2>1 DEF Owner, OpenOps, CloseOps
    <2>3. CASE k.op \in {"opendir", "releasedir"}
      BY <2>0, <2>1, <2>3 DEF LiveCall, Claimed
    <2>4. CASE k.op = "release"
      <3>1. Fh(k) = k.args.fi.fh /\ k.args.fi.fh \in Fds
        BY <2>1, <2>4 DEF Fh, OpenOps, IsCall, IsArgs
      <3> QED
        BY <2>0, <2>1, <2>4, <3>1 DEF LiveCall, Claimed
    <2>5. CASE k.op \in {"open", "create"}
      <3>1. k.op \in OpenOps /\ k.op \notin CloseOps /\ k.op # "opendir"
        BY <2>5 DEF OpenOps, CloseOps
      <3>2. Fh(k) \in Fds
        BY <2>1, <3>1 DEF Fh, IsCall, Owner
      <3> QED
        BY <2>0, <2>1, <2>5, <3>2 DEF LiveCall, Claimed
    <2> QED
      BY <2>2, <2>3, <2>4, <2>5
  <1> QED
    BY <1>1, <1>2

\* What an open gives was not open before.
LEMMA Opened ==
  ASSUME IndInv, NEW n, NEW j, NEW a, NEW o, NEW k, NEW w, Executes(n, j, a, o, k, w),
         j.op \in OpenOps, o.res = 0
  PROVE  /\ IsFi(o.fi) /\ ~Claimed(o.fi.fh)
         /\ j.op = "opendir" => o.fi.fh \in LiveDirs(o.dirs) /\ o.dirs[o.fi.fh].ents \in Seq(Paths)
         /\ j.op # "opendir" => o.fi.fh \in Fds /\ o.fs.fds[o.fi.fh] # 0
  <1>0. /\ IsFS(fs) /\ IsDirs(dirs)
        /\ Effect(j.op, fs, dirs, a, rpc_filler_room, o)
    BY DEF IndInv, ServerInv, IsDirs, Executes
  <1>1. a.fi = [flags |-> a.fi.flags, fh |-> a.fi.fh]
    BY DEF Executes, Alike, IsCall, IsArgs, IsFi
  <1>2. \A d : d \in Dirps => d \notin Fds
    BY LocalOpsAssumption
  <1>3. ASSUME NEW d, o.fi = [a.fi EXCEPT !.fh = d] PROVE IsFi(o.fi) /\ o.fi.fh = d
    <2>1. PICK fl, h : a.fi = [flags |-> fl, fh |-> h]
      BY <1>1
    <2>2. o.fi = [flags |-> fl, fh |-> d]
      BY ONLY <1>3, <2>1, SMT
    <2> QED
      BY ONLY <2>2, SMT DEF IsFi
  <1>4. CASE j.op = "opendir"
    <2>1. PICK d \in Dirps \ LiveDirs(dirs) : \E x : /\ IsDir(x) /\ o.fi = [a.fi EXCEPT !.fh = d]
                                                     /\ SetsDir(o.dirs, dirs, d, x)
      BY <1>0, <1>4 DEF Effect, OpendirResult, SetsDir, IsSlot
    <2>2. PICK x : IsDir(x) /\ o.fi = [a.fi EXCEPT !.fh = d] /\ SetsDir(o.dirs, dirs, d, x)
      BY <2>1
    <2>3. OthersSame(o.dirs, dirs, d, x)
      BY <1>0, <2>2, OneDir
    <2>4. IsFi(o.fi) /\ o.fi.fh = d
      BY <1>3, <2>2
    <2>5. x.ents \in Seq(Paths)
      BY <2>2 DEF IsDir
    <2> QED
      BY <1>2, <1>4, <2>2, <2>3, <2>4, <2>5 DEF OthersSame, Claimed
  <1>5. CASE j.op # "opendir"
    <2>0. j.op \in {"open", "create"}
      BY <1>5 DEF OpenOps
    <2>1. PICK d \in FreeFds(fs) : \E i : /\ i # 0 /\ o.fi = [a.fi EXCEPT !.fh = d]
                                     /\ o.fs.fds = [fs.fds EXCEPT ![d] = i]
      BY <1>0, <2>0 DEF Effect, OpenResult
    <2>2. PICK i : i # 0 /\ o.fi = [a.fi EXCEPT !.fh = d] /\ o.fs.fds = [fs.fds EXCEPT ![d] = i]
      BY <2>1
    <2>3. IsFi(o.fi) /\ o.fi.fh = d
      BY <1>3, <2>2
    <2>4. d \in Fds /\ fs.fds[d] = 0
      BY DEF FreeFds
    <2>5. fs.fds = [c \in Fds |-> fs.fds[c]]
      BY <1>0 DEF IsFS
    <2>6. o.fs.fds[d] # 0
      BY ONLY <2>2, <2>4, <2>5, SMT
    <2>7. d \notin LiveDirs(dirs)
      BY <1>2, <2>4 DEF LiveDirs
    <2> QED
      BY <1>5, <2>3, <2>4, <2>6, <2>7 DEF Claimed
  <1> QED
    BY <1>4, <1>5

LEMMA OnlyOpened ==
  ASSUME IndInv, NEW n, NEW j, NEW a, NEW o, NEW k, NEW w, Executes(n, j, a, o, k, w),
         NEW d, IsOpen(o.fs, d)
  PROVE  Unopened(j, a, o, d)
  <1> SUFFICES /\ fs.fds[d] = 0 => j.op \in {"open", "create"} /\ o.res = 0 /\ d = o.fi.fh
               /\ j.op = "release" => a.fi.fh # d
    BY DEF Unopened
  <1>9. d \in Fds /\ o.fs.fds[d] # 0
    BY DEF IsOpen
  <1>0. IsFS(fs) /\ Effect(j.op, fs, dirs, a, rpc_filler_room, o)
    BY DEF IndInv, ServerInv, Executes
  <1>1. a.fi = [flags |-> a.fi.flags, fh |-> a.fi.fh]
    BY DEF Executes, Alike, IsCall, IsArgs, IsFi
  <1>2. fs.fds = [c \in Fds |-> fs.fds[c]]
    BY <1>0 DEF IsFS
  <1>3. CASE j.op \notin {"open", "create", "release"}
    BY <1>0, <1>3, <1>9 DEF Effect, Frame
  <1>4. CASE j.op = "release"
    <2>1. o.fs = close(fs, a.fi.fh).fs
      BY <1>0, <1>4 DEF Effect
    <2>2. o.fs.fds = IF IsOpen(fs, a.fi.fh) THEN [fs.fds EXCEPT ![a.fi.fh] = 0] ELSE fs.fds
      BY <1>0, <2>1, CloseIs
    <2>3. fs.fds[d] # 0 /\ a.fi.fh # d
      BY ONLY <1>9, <1>2, <2>2, SMT DEF IsOpen
    <2> QED
      BY <2>3
  <1>5. CASE j.op \in {"open", "create"}
    <2>0. OpenResult(fs, a, o) /\ j.op # "release"
      BY <1>0, <1>5 DEF Effect
    <2>1. CASE o.fs.fds = fs.fds
      BY <1>9, <2>0, <2>1
    <2>2. CASE \E c \in FreeFds(fs) : \E i : /\ o.res = 0 /\ o.fi = [a.fi EXCEPT !.fh = c]
                                             /\ o.fs.fds = [fs.fds EXCEPT ![c] = i]
      <3>1. PICK c, i : /\ o.res = 0 /\ o.fi = [a.fi EXCEPT !.fh = c]
                        /\ o.fs.fds = [fs.fds EXCEPT ![c] = i]
        BY <2>2
      <3>2. o.fi.fh = c
        BY ONLY <1>1, <3>1, SMT
      <3>3. fs.fds[d] = 0 => c = d
        BY ONLY <1>9, <1>2, <3>1, SMT
      <3> QED
        BY <1>5, <2>0, <3>1, <3>2, <3>3
    <2> QED
      BY <2>0, <2>1, <2>2 DEF OpenResult
  <1> QED
    BY <1>3, <1>4, <1>5

LEMMA UniqueNew ==
  ASSUME CallsInv, UniqueInv, NEW n, NEW k, Changes(n, k), handles' = handles,
         \A c \in Clients : \A h \in handles[c] : h.fi.fh # Fh(k),
         \A m \in Owners : m # n => Fh(call[m]) # Fh(k)
  PROVE  UniqueInv'
  <1>1. /\ call'[n] = k
        /\ \A m \in Numbers : m # n => call'[m] = call[m]
        /\ \A m : m # n => (m \in Owners' <=> m \in Owners)
    BY ONLY CallsInv, Changes(n, k), OnlyOne, Zenon
  <1>2. \A m \in Owners' : m # n => m \in Owners /\ Fh(call'[m]) = Fh(call[m])
    BY <1>1, SetsAre
  <1>3. \A c, d \in Clients : \A h \in handles'[c], g \in handles'[d] :
           h.fi.fh = g.fi.fh => c = d /\ h = g
    BY ONLY UniqueInv, handles' = handles, SMT DEF UniqueInv
  <1>4. \A m \in Owners' : \A c \in Clients : \A h \in handles'[c] : h.fi.fh # Fh(call'[m])
    <2> SUFFICES ASSUME NEW m \in Owners', NEW c \in Clients, NEW h \in handles'[c]
                 PROVE h.fi.fh # Fh(call'[m])
      OBVIOUS
    <2>1. CASE m = n
      BY <1>1, <2>1
    <2>2. CASE m # n
      BY <1>2, <2>2 DEF UniqueInv
    <2> QED
      BY <2>1, <2>2
  <1>5. \A m, q \in Owners' : Fh(call'[m]) = Fh(call'[q]) => m = q
    <2> SUFFICES ASSUME NEW m \in Owners', NEW q \in Owners', Fh(call'[m]) = Fh(call'[q])
                 PROVE m = q
      OBVIOUS
    <2>1. CASE m # n /\ q # n
      BY <1>2, <2>1 DEF UniqueInv
    <2>2. CASE m = n \/ q = n
      BY <1>1, <1>2, <2>2
    <2> QED
      BY <2>1, <2>2
  <1> QED
    BY <1>3, <1>4, <1>5 DEF UniqueInv, Fh


\* A release under way owns what it closes; nothing else executed owns anything.
LEMMA Closes ==
  ASSUME IndInv, NEW n, NEW j, NEW a, NEW o, NEW k, NEW w, Executes(n, j, a, o, k, w)
  PROVE  /\ Owner(j) <=> j.op \in CloseOps
         /\ n \in Owners <=> j.op \in CloseOps
         /\ j.op \in CloseOps =>
              /\ Fh(j) = a.fi.fh
              /\ \A c \in Clients : \A h \in handles[c] : h.fi.fh # a.fi.fh
              /\ \A m \in Owners : m # n => Fh(call[m]) # a.fi.fh
  <1>0. n \in Active /\ j = call[n] /\ j.phase \in Unserved /\ j.phase \notin Done
    BY DEF Executes, Unserved, Done
  <1>1. Owner(j) <=> j.op \in CloseOps
    BY <1>0 DEF Owner
  <1>2. n \in Owners <=> j.op \in CloseOps
    BY <1>0, <1>1 DEF Owners
  <1>3. ASSUME j.op \in CloseOps
        PROVE  /\ Fh(j) = a.fi.fh
               /\ \A c \in Clients : \A h \in handles[c] : h.fi.fh # a.fi.fh
               /\ \A m \in Owners : m # n => Fh(call[m]) # a.fi.fh
    <2>1. Fh(j) = a.fi.fh
      BY <1>3 DEF Fh, OpenOps, CloseOps, Executes, Alike
    <2> QED
      BY <1>0, <1>2, <1>3, <2>1 DEF IndInv, UniqueInv
  <1> QED
    BY <1>1, <1>2, <1>3

LEMMA ProcessCalls ==
  ASSUME IndInv, NEW n, NEW j, NEW a, NEW o, NEW k, NEW w, Executes(n, j, a, o, k, w)
  PROVE  CallsInv' /\ IsCall(k)
  <1>0. /\ n \in Active /\ j = call[n] /\ IsCall(j) /\ Changes(n, k) /\ handles' = handles
        /\ CallsInv /\ Effect(j.op, fs, dirs, a, rpc_filler_room, o)
    BY DEF Executes, IndInv
  <1>1. /\ k.op = j.op /\ k.client = j.client /\ k.args = j.args /\ k.room = j.room
        /\ k.waits = j.waits /\ k.request = j.request
        /\ k.phase = "finished" /\ k.reply = Reply(j.op, o) /\ k.res = o.res
        /\ k.all = IF j.op = "opendir" /\ o.res = 0 THEN o.dirs[o.fi.fh].ents ELSE <<>>
        /\ k = Served(k, k.reply, k.res, k.acted, k.all, k.want)
    <2>1. Finished(j, a, o, k, w)
      BY ExecutesFields
    <2> QED
      BY <2>1 DEF Finished
  <1>2. k = [op |-> k.op, client |-> k.client, args |-> k.args, room |-> k.room,
             waits |-> k.waits, held |-> k.held, acted |-> k.acted, all |-> k.all,
             request |-> k.request, phase |-> k.phase, reply |-> k.reply, res |-> k.res,
             want |-> k.want]
    BY <1>1 DEF Served
  <1>3. /\ k.op \in Offered /\ k.client \in Clients /\ k.waits \in BOOLEAN
        /\ k.room \in (IF k.op = "readdir" THEN Rooms ELSE {0})
        /\ IsArgs(k.op, k.args)
        /\ k.request = Message(k.args, Calls[k.op].sends, NoArgs)
    BY <1>0, <1>1 DEF IsCall
  <1>4. k.phase \in Unserved \cup Done /\ k.phase # "deleted"
    BY <1>1 DEF Done
  <1>5. ASSUME k.op \in OpenOps, k.res = 0
        PROVE  /\ IsFi(k.reply.fi)
               /\ k.op = "opendir" => k.reply.fi.fh \in Dirps /\ k.all \in Seq(Paths)
               /\ k.op # "opendir" => k.reply.fi.fh \in Fds
    <2>1. k.reply.fi = o.fi
      <3>1. j.op \in Offered /\ Frame(j.op, fs, dirs, a, o)
        BY <1>0, <1>1, <1>3 DEF Effect
      <3>2. Delivers(j.op, a, o)
        BY <3>1, ReplyGives
      <3> QED
        BY <1>1, <1>5, <3>2 DEF Delivers
    <2>2. /\ IsFi(o.fi)
          /\ j.op = "opendir" => o.fi.fh \in LiveDirs(o.dirs) /\ o.dirs[o.fi.fh].ents \in Seq(Paths)
          /\ j.op # "opendir" => o.fi.fh \in Fds
      BY <1>1, <1>5, Opened
    <2>3. k.op = "opendir" => k.all = o.dirs[o.fi.fh].ents
      BY <1>1, <1>5
    <2> QED
      BY <1>1, <2>1, <2>2, <2>3 DEF LiveDirs
  <1>6. IsCall(k)
    BY <1>2, <1>3, <1>4, <1>5 DEF IsCall
  <1>7. HandlesOk'
    BY <1>0 DEF CallsInv, HandlesOk
  <1>8. ASSUME k.waits, NEW m \in Waiting, call[m].client = k.client PROVE m = n
    <2>1. n \in Waiting
      BY <1>0, <1>1, <1>8 DEF Waiting
    <2> QED
      BY <1>0, <1>1, <1>8, <2>1 DEF CallsInv
  <1> QED
    BY <1>0, <1>6, <1>7, <1>8, CallsStep

LEMMA ProcessHeld ==
  ASSUME IndInv, NEW n, NEW j, NEW a, NEW o, NEW k, NEW w, Executes(n, j, a, o, k, w)
  PROVE  HeldInv'
  <1>0. /\ n \in Active /\ j = call[n] /\ IsCall(j) /\ Changes(n, k) /\ handles' = handles /\ up
        /\ CallsInv /\ HeldInv /\ UniqueInv /\ Alike(j.op, a, j.args)
        /\ Effect(j.op, fs, dirs, a, rpc_filler_room, o)
    BY DEF Executes, IndInv
  <1>1. /\ k.op = j.op /\ k.client = j.client /\ k.args = j.args /\ k.held = j.held
        /\ k.waits = j.waits /\ k.reply = Reply(j.op, o) /\ k.acted = Acted(j.op, a, o)
    <2>1. Finished(j, a, o, k, w)
      BY ExecutesFields
    <2> QED
      BY <2>1 DEF Finished
  <1>2. j.op \in Offered /\ j.client \in Clients
    BY <1>0 DEF IsCall
  <1>3. a.fi = j.args.fi /\ (j.op = "readdir" => a.offset = j.args.offset)
    BY <1>0 DEF Alike
  <1>4. ASSUME k.waits PROVE HeldBy(k)'
    <2>0. HeldBy(j)
      BY <1>0, <1>1, <1>4 DEF HeldInv, Waiting
    <2>01. UniqueInv
      BY <1>0
    <2>1. \A g \in handles[j.client] : \A h \in HandleOf(j.client, j.args) :
              g.fi = j.args.fi => g = h
      BY ONLY <1>2, <2>01, SMT DEF UniqueInv, HandleOf
    <2>2. ASSUME j.op \in FileOps, NEW h \in j.held PROVE k.acted = h.ino
      <3>1. a.fi.fh \in Fds /\ fs.fds[a.fi.fh] = h.ino /\ fs.fds[a.fi.fh] # 0
        <4>1. CASE j.op = "release"
          <5>1. j.op \in CloseOps
            BY <4>1 DEF CloseOps
          <5>2. LiveCall(j) /\ Fh(j) = a.fi.fh
            BY <1>0, <5>1, Closes DEF IndInv, LiveInv
          <5>3. a.fi.fh \in Fds
            BY <1>0, <1>3, <4>1 DEF IsCall, IsArgs
          <5> QED
            BY <2>2, <4>1, <5>2, <5>3 DEF LiveCall
        <4>2. CASE j.op # "release"
          <5>1. j.op \notin CloseOps
            BY <2>2, <4>2 DEF FileOps, CloseOps
          <5>2. PICK g \in handles[j.client] : g.kind = "file" /\ g.fi = j.args.fi
            BY <2>0, <2>2, <5>1 DEF HeldBy
          <5>3. g = h
            BY <2>0, <2>1, <2>2, <5>1, <5>2 DEF HeldBy
          <5>4. IsHandle(g) /\ LiveHandle(g)
            BY <1>0, <1>2 DEF IndInv, CallsInv, LiveInv
          <5>5. g.fi.fh \in Fds
            BY <5>2, <5>4 DEF IsHandle
          <5> QED
            BY <1>3, <5>2, <5>3, <5>4, <5>5 DEF LiveHandle
        <4> QED
          BY <4>1, <4>2
      <3>2. IsOpen(fs, a.fi.fh)
        BY <3>1 DEF IsOpen
      <3>3. j.op \notin {"open", "create"}
        BY <2>2 DEF FileOps
      <3>4. Acted(j.op, a, o) = fs.fds[a.fi.fh]
        BY <2>2, <3>2, <3>3 DEF Acted
      <3> QED
        BY <1>1, <3>1, <3>4
    <2>3. ASSUME j.op = "readdir", NEW h \in j.held PROVE k.reply.ents = Page(h.all, k.args.offset)
      <3>1. j.op \notin CloseOps
        BY <2>3 DEF CloseOps
      <3>2. PICK g \in handles[j.client] : g.kind = "dir" /\ g.fi = j.args.fi
        BY <2>0, <2>3 DEF HeldBy
      <3>3. g = h
        BY <2>0, <2>1, <2>3, <3>1, <3>2 DEF HeldBy
      <3>4. LiveHandle(g)
        BY <1>0, <1>2 DEF IndInv, LiveInv
      <3>5. dirs[a.fi.fh].ents = h.all
        BY <1>3, <3>2, <3>3, <3>4 DEF LiveHandle
      <3>6. k.reply.ents = o.ents
        <4>1. Frame(j.op, fs, dirs, a, o)
          BY <1>0 DEF Effect
        <4>2. Delivers(j.op, a, o)
          BY <1>2, <4>1, ReplyGives
        <4> QED
          BY <1>1, <2>3, <4>2 DEF Delivers
      <3>7. o.ents = PageOf(h.all, a.offset, rpc_filler_room)
        BY <1>0, <2>3, <3>5 DEF Effect, ReaddirResult
      <3> QED
        BY <1>1, <1>3, <2>3, <3>6, <3>7 DEF Page, PageOf
    <2>4. \A h \in k.held : k.op \in FileOps => k.acted = h.ino
      BY <1>1, <2>2
    <2>5. \A h \in k.held : k.op = "readdir" => k.reply.ents = Page(h.all, k.args.offset)
      BY <1>1, <2>3
    <2>6. HandleOf(k.client, k.args)' = HandleOf(j.client, j.args) /\ handles'[k.client] = handles[j.client]
      BY <1>0, <1>1 DEF HandleOf
    <2>7. /\ k.op \notin CloseOps => k.held = HandleOf(k.client, k.args)'
          /\ k.op \in FileOps \ CloseOps =>
               \E h \in handles'[k.client] : h.kind = "file" /\ h.fi = k.args.fi
          /\ k.op = "readdir" =>
               \E h \in handles'[k.client] : h.kind = "dir" /\ h.fi = k.args.fi /\ h.off = k.args.offset
      BY ONLY <1>1, <2>0, <2>6, Zenon DEF HeldBy
    <2> QED
      BY ONLY <2>4, <2>5, <2>7, Zenon DEF HeldBy
  <1> QED
    BY <1>0, <1>4, HeldStep

LEMMA ProcessUnique ==
  ASSUME IndInv, NEW n, NEW j, NEW a, NEW o, NEW k, NEW w, Executes(n, j, a, o, k, w)
  PROVE  UniqueInv' /\ (Owner(k) => k.op \in OpenOps /\ o.res = 0 /\ Fh(k) = o.fi.fh)
  <1>0. /\ j.op \in Offered /\ Changes(n, k) /\ handles' = handles /\ up
        /\ CallsInv /\ UniqueInv /\ Effect(j.op, fs, dirs, a, rpc_filler_room, o)
    BY DEF Executes, IndInv, IsCall
  <1>1. k.op = j.op /\ k.phase = "finished" /\ k.reply = Reply(j.op, o) /\ k.res = o.res
    <2>1. Finished(j, a, o, k, w)
      BY ExecutesFields
    <2> QED
      BY <2>1 DEF Finished
  <1>2. ASSUME Owner(k) PROVE k.op \in OpenOps /\ o.res = 0 /\ Fh(k) = o.fi.fh
    <2>1. k.op \in OpenOps /\ o.res = 0
      BY <1>1, <1>2 DEF Owner, Unserved
    <2>2. k.reply.fi = o.fi
      <3>1. Frame(j.op, fs, dirs, a, o)
        BY <1>0 DEF Effect
      <3>2. Delivers(j.op, a, o)
        BY <1>0, <3>1, ReplyGives
      <3> QED
        BY <1>1, <2>1, <3>2 DEF Delivers
    <2> QED
      BY <2>1, <2>2 DEF Fh
  <1>3. CASE ~Owner(k)
    <2>1. UniqueInv'
      BY <1>0, <1>3, UniqueStep
    <2> QED
      BY <1>3, <2>1
  <1>4. CASE Owner(k)
    <2>1. ~Claimed(Fh(k))
      BY <1>1, <1>2, <1>4, Opened
    <2>2. /\ \A c \in Clients : \A h \in handles[c] : h.fi.fh # Fh(k)
          /\ \A m \in Owners : m # n => Fh(call[m]) # Fh(k)
      BY <1>0, <2>1, Claims
    <2>3. UniqueInv'
      BY <1>0, <2>2, UniqueNew
    <2> QED
      BY <1>2, <1>4, <2>3
  <1> QED
    BY <1>3, <1>4


LEMMA ProcessLive ==
  ASSUME IndInv, NEW n, NEW j, NEW a, NEW o, NEW k, NEW w, Executes(n, j, a, o, k, w)
  PROVE  LiveInv'
  <1>0. /\ j.op \in Offered /\ Changes(n, k) /\ handles' = handles /\ up /\ up' = up
        /\ fs' = o.fs /\ dirs' = o.dirs /\ CallsInv /\ LiveInv
    BY DEF Executes, IndInv, IsCall
  <1>1. Finished(j, a, o, k, w)
    BY ExecutesFields
  <1>2. \A d : d \in LiveDirs(dirs) => d \notin Fds
    BY LocalOpsAssumption DEF LiveDirs
  <1>3. ASSUME NEW d, Claimed(d), j.op \in CloseOps => d # a.fi.fh PROVE SameFh(d)
    <2>1. d \in Fds => fs.fds[d] # 0
      BY <1>2, <1>3 DEF Claimed
    <2> QED
      BY <1>3, <2>1, ProcessSame
  <1>4. /\ \A c \in Clients : \A h \in handles[c] : SameFh(h.fi.fh)
        /\ \A m \in Owners : m # n => SameFh(Fh(call[m]))
    <2>1. /\ \A c \in Clients : \A h \in handles[c] : Claimed(h.fi.fh)
          /\ \A m \in Owners : Claimed(Fh(call[m]))
      BY <1>0, Claims
    <2>2. j.op \in CloseOps => /\ \A c \in Clients : \A h \in handles[c] : h.fi.fh # a.fi.fh
                               /\ \A m \in Owners : m # n => Fh(call[m]) # a.fi.fh
      BY Closes
    <2>3. ASSUME NEW c \in Clients, NEW h \in handles[c] PROVE SameFh(h.fi.fh)
      BY <1>3, <2>1, <2>2
    <2>4. ASSUME NEW m \in Owners, m # n PROVE SameFh(Fh(call[m]))
      BY <1>3, <2>1, <2>2, <2>4
    <2> QED
      BY <2>3, <2>4
  <1>5. ASSUME Owner(k) PROVE LiveCall(k)'
    <2>0. k.op \in OpenOps /\ k.op = j.op /\ o.res = 0 /\ Fh(k) = o.fi.fh
      BY <1>1, <1>5, ProcessUnique DEF Finished
    <2>1. /\ j.op = "opendir" => o.fi.fh \in LiveDirs(o.dirs)
          /\ j.op # "opendir" => o.fs.fds[o.fi.fh] # 0
      BY <2>0, Opened
    <2>2. k.op \in {"open", "create"} => k.acted = o.fs.fds[o.fi.fh]
      <3>1. k.op \notin FileOps
        BY <2>0 DEF OpenOps, FileOps
      <3> QED
        BY <1>1, <2>0, <3>1 DEF Finished, Acted
    <2>3. k.op = "opendir" => k.all = o.dirs[o.fi.fh].ents
      BY <1>1, <2>0 DEF Finished
    <2>4. k.op \notin {"release", "releasedir"}
      BY <2>0 DEF OpenOps
    <2>5. k.op \in {"open", "create"} => fs'.fds[Fh(k)] = k.acted /\ k.acted # 0
      BY <1>0, <2>0, <2>1, <2>2
    <2>6. k.op = "opendir" => Fh(k) \in LiveDirs(dirs)' /\ dirs'[Fh(k)].ents = k.all
      BY <1>0, <2>0, <2>1, <2>3 DEF LiveDirs
    <2> QED
      BY ONLY <2>4, <2>5, <2>6, Zenon DEF LiveCall, Fh
  <1> QED
    BY ONLY <1>0, <1>4, <1>5, LiveStep, Zenon

\* An open whose client has given up leaves a descriptor behind.
LEMMA ProcessLeak ==
  ASSUME IndInv, NEW n, NEW j, NEW a, NEW o, NEW k, NEW w, Executes(n, j, a, o, k, w)
  PROVE  LeakInv'
  <1>0. /\ j = call[n] /\ n \in Active /\ IsCall(j) /\ j.phase = "process"
        /\ Changes(n, k) /\ handles' = handles /\ up /\ up' = up /\ fails' = fails
        /\ fs' = o.fs /\ CallsInv /\ LeakInv
    BY DEF Executes, IndInv
  <1>1. Finished(j, a, o, k, w)
    BY ExecutesFields
  <1>2. IsCall(k) /\ k \notin {NoCall, Over}
    BY ProcessCalls, CallIsActive
  <1>3. ASSUME NEW d \in Leaked' PROVE d \in Leaked \/ (d = o.fi.fh /\ IsOrphan(j))
    <2>0. d \in Fds /\ o.fs.fds[d] # 0
      BY <1>0 DEF Leaked
    <2>1. /\ fs.fds[d] # 0 => d \in Leaked \/ (n \in Owners /\ Fh(j) = d)
          /\ Owner(k) => Fh(k) # d
      BY <1>0, <1>2, LeakedStep
    <2>2. /\ fs.fds[d] = 0 => j.op \in {"open", "create"} /\ o.res = 0 /\ d = o.fi.fh
          /\ j.op = "release" => a.fi.fh # d
      <3>1. IsOpen(o.fs, d)
        BY <2>0 DEF IsOpen
      <3>2. Unopened(j, a, o, d)
        BY <3>1, OnlyOpened
      <3> QED
        BY <3>2 DEF Unopened
    <2>3. CASE fs.fds[d] = 0
      <3>1. j.op \in OpenOps /\ j.op \in {"open", "create"} /\ o.res = 0 /\ d = o.fi.fh
        BY <2>2, <2>3 DEF OpenOps
      <3>2. ~j.waits
        <4>1. SUFFICES ASSUME j.waits PROVE FALSE
          OBVIOUS
        <4>2. Owner(k)
          BY <1>1, <3>1, <4>1 DEF Finished, Owner, Done
        <4>3. Fh(k) = o.fi.fh
          BY <4>2, ProcessUnique
        <4> QED
          BY <2>1, <3>1, <4>2, <4>3
      <3> QED
        BY <1>0, <3>1, <3>2 DEF IsOrphan, Unserved
    <2>4. CASE fs.fds[d] # 0
      <3>1. ASSUME n \in Owners, Fh(j) = d PROVE FALSE
        <4>1. j.op \in CloseOps /\ Fh(j) = a.fi.fh
          BY <3>1, Closes
        <4>2. j.op # "release"
          BY <2>2, <3>1, <4>1
        <4>3. j.op = "releasedir"
          BY <4>1, <4>2 DEF CloseOps
        <4>4. d \in Dirps
          BY <1>0, <3>1, <4>3 DEF IsCall, IsArgs, Fh, OpenOps
        <4> QED
          BY <2>0, <4>4, LocalOpsAssumption
      <3> QED
        BY <2>1, <2>4, <3>1
    <2> QED
      BY <2>3, <2>4
  <1>4. Orphans' \subseteq Orphans \ {n} /\ (n \in Orphans <=> IsOrphan(j))
    <2>1. ~IsOrphan(k)
      BY <1>1 DEF Finished, IsOrphan, Unserved
    <2> QED
      BY <1>0, <2>1, OrphanStep
  <1>5. fails \in Nat /\ fails' \in Nat /\ fails' >= fails
    BY <1>0, SMT DEF LeakInv
  <1>6. CASE IsOrphan(j)
    <2>1. Leaked' \subseteq Leaked \cup {o.fi.fh}
      BY <1>3
    <2> QED
      BY ONLY <1>0, <1>4, <1>5, <1>6, <2>1, LeakStep, Zenon
  <1>7. CASE ~IsOrphan(j)
    <2>1. Leaked' \subseteq Leaked /\ Orphans' \subseteq Orphans
      BY <1>3, <1>4, <1>7
    <2> QED
      BY ONLY <1>0, <1>5, <2>1, LeakStep, Zenon
  <1> QED
    BY <1>6, <1>7

\* Only readdir has a buffer of entries.
LEMMA RoomIgnored ==
  ASSUME NEW op, op # "readdir", NEW f, NEW ds, NEW a, NEW r, NEW s
  PROVE  LocalOp(op, f, ds, a, r) = LocalOp(op, f, ds, a, s)
  BY SMT DEF LocalOp

\* What the client hands to FUSE is what the operation gives on the server.
LEMMA ProcessShows ==
  ASSUME IndInv, NEW n, NEW j, NEW a, NEW o, NEW k, NEW w, Executes(n, j, a, o, k, w)
  PROVE  Transparent'
  <1>0. /\ j = call[n] /\ n \in Active /\ IsCall(j) /\ Changes(n, k) /\ up
        /\ CallsInv /\ HeldInv /\ LiveInv /\ Transparent
        /\ Alike(j.op, a, j.args)
        /\ o = LocalOp(j.op, fs, dirs, a, rpc_filler_room)
        /\ w = LocalOp(j.op, fs, dirs, j.args, j.room)
        /\ Effect(j.op, fs, dirs, a, rpc_filler_room, o)
        /\ Effect(j.op, fs, dirs, j.args, j.room, w)
    BY DEF Executes, IndInv
  <1>1. Finished(j, a, o, k, w)
    BY ExecutesFields
  <1>2. /\ j.op \in Offered /\ j.client \in Clients /\ a.fi = j.args.fi
        /\ Frame(j.op, fs, dirs, a, o) /\ Frame(j.op, fs, dirs, j.args, w)
    BY <1>0 DEF IsCall, Alike, Effect
  <1>3. Delivers(j.op, a, o)
    BY <1>2, ReplyGives
  <1> DEFINE v == Message(k.reply, Calls[k.op].copies, NoReply)
             cut == SubSeq(v.ents, 1, Min({k.room, Len(v.ents)}))
  <1>4. /\ v.st = Wrapped(j.op, o.st) /\ v.buf = o.buf /\ v.ents = o.ents
        /\ (IF "fi" \in Calls[k.op].copies THEN v.fi ELSE k.args.fi) = o.fi
    BY <1>1, <1>2, <1>3 DEF Delivers, Finished
  <1>5. /\ SeenOf(k).res = o.res /\ SeenOf(k).st = Wrapped(k.op, o.st) /\ SeenOf(k).buf = o.buf
        /\ SeenOf(k).fi = o.fi /\ SeenOf(k).ents = cut
    <2>1. SeenOf(k) = [res |-> k.res, st |-> v.st, buf |-> v.buf,
                       fi |-> IF "fi" \in Calls[k.op].copies THEN v.fi ELSE k.args.fi,
                       ents |-> cut]
      BY DEF SeenOf
    <2>2. SeenOf(k) = [res |-> o.res, st |-> Wrapped(k.op, o.st), buf |-> o.buf, fi |-> o.fi,
                       ents |-> cut]
      BY <1>1, <1>4, <2>1 DEF Finished
    <2> HIDE DEF v, cut
    <2> QED
      BY ONLY <2>2, SMT
  <1>6. /\ k.want.res = w.res /\ k.want.st = w.st /\ k.want.fi = w.fi /\ k.want.buf = w.buf
        /\ k.want.ents = w.ents
    <2>1. k.want = [res |-> w.res, st |-> w.st, fi |-> w.fi, buf |-> w.buf, ents |-> w.ents]
      BY <1>1 DEF Finished
    <2> QED
      BY ONLY <2>1, SMT
  <1>7. k.op = j.op /\ k.room = j.room /\ k.waits = j.waits
    BY <1>1 DEF Finished
  <1>8. ASSUME j.waits PROVE o.res = w.res /\ o.st = w.st /\ o.fi = w.fi /\ o.buf = w.buf /\ cut = w.ents
    <2>1. CASE j.op # "readdir"
      <3>1. w = LocalOp(j.op, fs, dirs, a, j.room)
        <4>1. Alike(j.op, a, j.args)
          BY <1>0
        <4>2. LocalOp(j.op, fs, dirs, a, j.room) = LocalOp(j.op, fs, dirs, j.args, j.room)
          BY ONLY <4>1, OpsAlike, SMT
        <4> QED
          BY <1>0, <4>2
      <3>2. w = o
        <4>1. LocalOp(j.op, fs, dirs, a, j.room) = LocalOp(j.op, fs, dirs, a, rpc_filler_room)
          BY ONLY <2>1, RoomIgnored, SMT
        <4> QED
          BY <1>0, <3>1, <4>1
      <3>3. v.ents = <<>> /\ k.room = 0 /\ w.ents = <<>>
        BY <1>0, <1>2, <1>4, <1>7, <2>1, <3>2 DEF Frame, IsCall
      <3>4. cut = <<>>
        <4>1. Min({0, 0}) = 0
          BY MinOfTwo, SMT
        <4>2. cut = SubSeq(<<>>, 1, Min({0, Len(<<>>)}))
          BY <3>3
        <4> HIDE DEF cut
        <4>3. Len(<<>>) = 0 /\ SubSeq(<<>>, 1, 0) = <<>>
          BY ONLY SMT
        <4> QED
          BY ONLY <4>1, <4>2, <4>3, Zenon
      <3> QED
        BY <3>2, <3>3, <3>4
    <2>2. CASE j.op = "readdir"
      <3>1. PICK h \in handles[j.client] : h.kind = "dir" /\ h.fi = j.args.fi /\ h.off = j.args.offset
        BY <1>0, <1>8, <2>2 DEF HeldInv, HeldBy, Waiting
      <3>2. IsHandle(h) /\ LiveHandle(h)
        BY <1>0, <1>2 DEF CallsInv, LiveInv
      <3>3. h.all \in Seq(Paths) /\ h.off \in 0..Len(h.all)
        BY <3>1, <3>2 DEF IsHandle
      <3>4. dirs[a.fi.fh].ents = h.all /\ a.offset = h.off /\ j.args.offset = h.off
        BY <1>0, <1>2, <2>2, <3>1, <3>2 DEF LiveHandle, Alike
      <3>5. ReaddirResult(dirs, a, rpc_filler_room, o) /\ ReaddirResult(dirs, j.args, j.room, w)
        BY <1>0, <2>2 DEF Effect
      <3>6. /\ o.res = 0 /\ w.res = 0 /\ o.ents = PageOf(h.all, h.off, rpc_filler_room)
            /\ w.ents = PageOf(h.all, h.off, j.room)
        BY <1>2, <3>4, <3>5 DEF ReaddirResult
      <3>7. j.room \in Rooms
        BY <1>0, <2>2 DEF IsCall
      <3>8. SubSeq(o.ents, 1, Min({j.room, Len(o.ents)})) = w.ents
        <4> DEFINE whole == PageOf(h.all, h.off, rpc_filler_room)
                   part == PageOf(h.all, h.off, j.room)
        <4>1. SubSeq(whole, 1, Min({j.room, Len(whole)})) = part
          BY ONLY <3>3, <3>7, PageCut, Zenon
        <4> HIDE DEF whole, part
        <4> QED
          BY <3>6, <4>1 DEF whole, part
      <3>9. o.st = w.st /\ o.fi = w.fi /\ o.buf = w.buf
        BY <1>2, <2>2 DEF Frame, OpenOps
      <3> QED
        BY <1>4, <1>7, <3>6, <3>8, <3>9
    <2> QED
      BY <2>1, <2>2
  <1>9. k.waits => Shows(k)
    BY <1>5, <1>6, <1>7, <1>8 DEF Shows
  <1> QED
    BY ONLY <1>0, <1>9, TransparentStep, Zenon

LEMMA ProcessKeeps == ASSUME IndInv, NEW n \in Numbers, Process(n) PROVE IndInv'
  <1>1. PICK j, a, o, k, w : Executes(n, j, a, o, k, w)
    BY ProcessIs
  <1> QED
    BY <1>1, ProcessServer, ProcessCalls, ProcessHeld, ProcessUnique, ProcessLive, ProcessLeak,
       ProcessShows DEF IndInv
=============================================================================
