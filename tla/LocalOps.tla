------------------------------ MODULE LocalOps ------------------------------
(* The local layer in mode "local" (local_operations.cpp): every operation is *)
(* one or two system calls on the exported directory, with errno returned as  *)
(* a negative result.  An operation maps the file system, the directory       *)
(* streams held in memory and the arguments to an outcome.                    *)
EXTENDS FileSystem, Sequences, Functions

CONSTANTS Dirps       \* addresses of struct local_dirp, n..m

\* fi->fh holds a descriptor or an address, and one is never taken for the other.
ASSUME LocalOpsAssumption ==
    Dirps # {} /\ Dirps \subseteq Nat \ {0} /\ Dirps \cap Fds = {}

ENOMEM == 12

NoFi == [flags |-> "none", fh |-> 0]
NoDir == [ents |-> <<>>, pos |-> 0, entry |-> 0, offset |-> -1]
LiveDirs(dirs) == {d \in Dirps : dirs[d] # NoDir}

\* st, buf and ents are what the operation leaves in the caller's buffers.
Outcome(res, fs, dirs, a) ==
    [res |-> res, fs |-> fs, dirs |-> dirs, st |-> 0, fi |-> a.fi, buf |-> 0,
     ents |-> <<>>]

\* if (res == -1) return -errno; return 0;
Checked(s, dirs, a) ==
    Outcome(IF s.ret = -1 THEN -s.errno ELSE 0, s.fs, dirs, a)

\* root_path + from
Rooted(path) == <<"root", path>>

\* Mutation: flush closes the descriptor itself.
LocalAttrCloses(op, fs, dirs, a) ==
    LET s == CASE op = "getattr" -> lstat(fs, a.path)
               [] op = "fgetattr" -> fstat(fs, a.fi.fh)
               [] op = "access" -> access(fs, a.path)
               [] op = "readlink" -> readlink(fs, a.path)
               [] op = "flush" -> close(fs, a.fi.fh)
        o == Checked(s, dirs, a)
    IN IF op = "readlink" THEN [o EXCEPT !.buf = s.out]
       ELSE IF op \in {"getattr", "fgetattr"} THEN [o EXCEPT !.st = s.out] ELSE o

LocalAttr(op, fs, dirs, a) ==
    LET s == CASE op = "getattr" -> lstat(fs, a.path)
               [] op = "fgetattr" -> fstat(fs, a.fi.fh)
               [] op = "access" -> access(fs, a.path)
               [] op = "readlink" -> readlink(fs, a.path)
               \* close(dup(fh)); a failed dup closes -1
               [] op = "flush" -> IF FreeFds(fs) = {} THEN Fails(fs, EBADF)
                                  ELSE fstat(fs, a.fi.fh)
        o == Checked(s, dirs, a)
    IN IF op = "readlink" THEN [o EXCEPT !.buf = s.out]
       ELSE IF op \in {"getattr", "fgetattr"} THEN [o EXCEPT !.st = s.out] ELSE o

LocalNames(op, fs, dirs, a) ==
    \* a regular file is made by open with O_EXCL and close
    Checked(CASE op = "mknod" -> IF FreeFds(fs) = {} THEN Fails(fs, EMFILE)
                                 ELSE mknod(fs, a.path, a.val)
              [] op = "mkdir" -> mkdir(fs, a.path, a.val)
              [] op = "unlink" -> unlink(fs, a.path)
              [] op = "rmdir" -> rmdir(fs, a.path)
              [] op = "symlink" -> symlink(fs, Rooted(a.path), a.to)
              [] op = "rename" -> rename(fs, a.path, a.to)
              [] op = "link" -> link(fs, a.path, a.to), dirs, a)

LocalChanges(op, fs, dirs, a) ==
    Checked(CASE op \in {"chmod", "chown"} -> setattr(fs, a.path, a.val)
              [] op = "ftruncate" -> ftruncate(fs, a.fi.fh)
              [] op = "truncate" -> truncate(fs, a.path), dirs, a)

\* fi->fh is set only when the file was opened.  The flags of create hold O_CREAT.
LocalOpen(op, fs, dirs, a) ==
    LET s == IF op = "create" /\ a.fi.flags = "creat" THEN openCreate(fs, a.path, a.val)
             ELSE open(fs, a.path)
        o == Checked(s, dirs, a)
    IN IF s.ret = -1 THEN o ELSE [o EXCEPT !.fi.fh = s.ret]

\* The result is the number of bytes.  A failed fsync overrides that of pwrite.
LocalData(op, fs, dirs, a) ==
    LET s == IF op = "read" THEN pread(fs, a.fi.fh) ELSE pwrite(fs, a.fi.fh, a.val)
        y == IF op = "write" THEN fsync(s.fs, a.fi.fh) ELSE s
        o == Outcome(IF y.ret = -1 THEN -y.errno
                     ELSE IF s.ret = -1 THEN -s.errno ELSE s.ret, s.fs, dirs, a)
    IN IF op = "read" THEN [o EXCEPT !.buf = s.out] ELSE o

\* Mutation: release does not close.
LocalEndKeeps(op, fs, dirs, a) ==
    IF op = "statfs" THEN [Outcome(0, fs, dirs, a) EXCEPT !.st = Cardinality(FreeInodes(fs))]
    ELSE Outcome(0, fsync(fs, a.fi.fh).fs, dirs, a)

\* The results of close and of fsync are ignored.
LocalEnd(op, fs, dirs, a) ==
    CASE op = "statfs" -> [Outcome(0, fs, dirs, a) EXCEPT !.st = Cardinality(FreeInodes(fs))]
      [] op = "release" -> Outcome(0, close(fs, a.fi.fh).fs, dirs, a)
      [] op = "fsync" -> Outcome(0, fsync(fs, a.fi.fh).fs, dirs, a)

\* The entries in the order the file system lists them in.
Listing(fs) ==
    LET names == Present(fs)
    IN CHOOSE s \in [1..Cardinality(names) -> names] : IsInjective(s)

LocalOpendir(fs, dirs, a) ==
    LET free == Dirps \ LiveDirs(dirs)
        ents == Listing(fs)
    IN IF free = {} THEN Outcome(-ENOMEM, fs, dirs, a)
       ELSE LET d == Min(free)
            IN [Outcome(0, fs, [dirs EXCEPT ![d] = [ents |-> ents, pos |-> 0,
                                                    entry |-> 0, offset |-> 0]], a)
                EXCEPT !.fi.fh = d]

\* Mutation: no seek, the next entry of the stream is always the next to give.
LocalReaddirNoSeek(fs, dirs, a, room) ==
    LET d == dirs[a.fi.fh]
        n == Min({room, Len(d.ents) - d.pos})
    IN [Outcome(0, fs, [dirs EXCEPT ![a.fi.fh].pos = @ + n], a)
        EXCEPT !.ents = [i \in 1..n |-> [name |-> d.ents[d.pos + i], off |-> d.pos + i]]]

\* local_readdir with a filler that accepts room entries: the entry it refused is
\* kept for the next call, which seeks when it asks for another offset.
LocalReaddir(fs, dirs, a, room) ==
    LET d == dirs[a.fi.fh]
        k == Len(d.ents)
        start == IF a.offset # d.offset THEN a.offset
                 ELSE IF d.entry # 0 THEN d.entry - 1 ELSE d.pos
        n == Min({room, k - start})
        refused == IF start + n < k THEN start + n + 1 ELSE 0
        d2 == [d EXCEPT !.pos = IF refused # 0 THEN refused ELSE k,
                        !.entry = refused,
                        !.offset = IF n > 0 THEN start + n ELSE a.offset]
    IN [Outcome(0, fs, [dirs EXCEPT ![a.fi.fh] = d2], a)
        EXCEPT !.ents = [i \in 1..n |-> [name |-> d.ents[start + i], off |-> start + i]]]

LocalReleasedir(fs, dirs, a) == Outcome(0, fs, [dirs EXCEPT ![a.fi.fh] = NoDir], a)

AttrOps == {"getattr", "fgetattr", "access", "readlink", "flush"}
NameOps == {"mknod", "mkdir", "unlink", "rmdir", "symlink", "rename", "link"}
ChangeOps == {"chmod", "chown", "truncate", "ftruncate"}
DirOps == {"opendir", "readdir", "releasedir"}

\* Mutation: ftruncate is forgotten.
LocalInstalledLess == (AttrOps \cup NameOps \cup ChangeOps \cup DirOps
                       \cup {"open", "create", "read", "write", "statfs", "release", "fsync"})
                      \ {"ftruncate"}

\* assign_local_operations.  HAVE_UTIMENSAT is defined nowhere: no utimens.
LocalInstalled == AttrOps \cup NameOps \cup ChangeOps \cup DirOps
                  \cup {"open", "create", "read", "write", "statfs", "release", "fsync"}

\* readdir's filler accepts room entries.
LocalOp(op, fs, dirs, a, room) ==
    CASE op \in AttrOps -> LocalAttr(op, fs, dirs, a)
      [] op \in NameOps -> LocalNames(op, fs, dirs, a)
      [] op \in ChangeOps -> LocalChanges(op, fs, dirs, a)
      [] op \in {"open", "create"} -> LocalOpen(op, fs, dirs, a)
      [] op \in {"read", "write"} -> LocalData(op, fs, dirs, a)
      [] op \in {"statfs", "release", "fsync"} -> LocalEnd(op, fs, dirs, a)
      [] op = "opendir" -> LocalOpendir(fs, dirs, a)
      [] op = "readdir" -> LocalReaddir(fs, dirs, a, room)
      [] op = "releasedir" -> LocalReleasedir(fs, dirs, a)
=============================================================================
