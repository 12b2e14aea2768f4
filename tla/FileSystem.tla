----------------------------- MODULE FileSystem -----------------------------
(* The file system a server exports, as the system calls of the local layer  *)
(* see it: one directory whose entries are Paths.  It is not part of         *)
(* RSafeFS.  Attributes and contents are small values, since no layer looks   *)
(* into them.                                                                *)
EXTENDS Integers, FiniteSets, FiniteSetsExt

CONSTANTS Paths,      \* the names in the exported directory
          Inodes,     \* numbers of files, 1..n
          Fds         \* numbers of descriptors, m..n

ASSUME FileSystemAssumption ==
    /\ IsFiniteSet(Paths)
    /\ IsFiniteSet(Fds) /\ Fds # {} /\ Fds \subseteq Nat \ {0}

EPERM == 1
ENOENT == 2
EBADF == 9
EEXIST == 17
ENOTDIR == 20
EISDIR == 21
EINVAL == 22
EMFILE == 24
ENOSPC == 28

\* names: the inode of a path, 0 when there is none.  fds: that of a descriptor.
EmptyFS == [names |-> [p \in Paths |-> 0],
            kind |-> [i \in Inodes |-> "free"],
            attr |-> [i \in Inodes |-> 0],
            data |-> [i \in Inodes |-> 0],
            fds |-> [d \in Fds |-> 0]]

\* What a call returns: -1 and errno, or a value; and what it reads.
Fails(fs, e) == [ret |-> -1, errno |-> e, fs |-> fs, out |-> 0]
Gives(fs, r, o) == [ret |-> r, errno |-> 0, fs |-> fs, out |-> o]

Present(fs) == {p \in Paths : fs.names[p] # 0}
FreeInodes(fs) == {i \in Inodes : fs.kind[i] = "free"}
FreeFds(fs) == {d \in Fds : fs.fds[d] = 0}
IsOpen(fs, fd) == fd \in Fds /\ fs.fds[fd] # 0
Stat(fs, i) == <<i, fs.kind[i], fs.attr[i], fs.data[i]>>

\* An inode without a name and without a descriptor is gone.
Collect(fs) ==
    [fs EXCEPT !.kind = [i \in Inodes |->
        IF (\E p \in Paths : fs.names[p] = i) \/ (\E d \in Fds : fs.fds[d] = i)
        THEN fs.kind[i] ELSE "free"]]

\* A new inode with a name.
Enter(fs, p, kind, attr, data) ==
    IF fs.names[p] # 0 THEN Fails(fs, EEXIST)
    ELSE IF FreeInodes(fs) = {} THEN Fails(fs, ENOSPC)
    ELSE LET i == Min(FreeInodes(fs))
         IN Gives([fs EXCEPT !.names[p] = i, !.kind[i] = kind, !.attr[i] = attr,
                             !.data[i] = data], 0, 0)

\* A call on the file of a path, of a descriptor.
OnPath(fs, p, s) == IF fs.names[p] = 0 THEN Fails(fs, ENOENT) ELSE s
OnFd(fs, fd, s) == IF ~IsOpen(fs, fd) THEN Fails(fs, EBADF) ELSE s

lstat(fs, p) == OnPath(fs, p, Gives(fs, 0, Stat(fs, fs.names[p])))
fstat(fs, fd) == OnFd(fs, fd, Gives(fs, 0, Stat(fs, fs.fds[fd])))
access(fs, p) == OnPath(fs, p, Gives(fs, 0, 0))
readlink(fs, p) ==
    OnPath(fs, p, LET i == fs.names[p]
                  IN IF fs.kind[i] # "link" THEN Fails(fs, EINVAL)
                     ELSE Gives(fs, 1, fs.data[i]))
mknod(fs, p, v) == Enter(fs, p, "file", v, 0)
mkdir(fs, p, v) == Enter(fs, p, "dir", v, 0)
symlink(fs, from, to) == Enter(fs, to, "link", 0, from)
unlink(fs, p) ==
    OnPath(fs, p, IF fs.kind[fs.names[p]] = "dir" THEN Fails(fs, EISDIR)
                  ELSE Gives(Collect([fs EXCEPT !.names[p] = 0]), 0, 0))
rmdir(fs, p) ==
    OnPath(fs, p, IF fs.kind[fs.names[p]] # "dir" THEN Fails(fs, ENOTDIR)
                  ELSE Gives(Collect([fs EXCEPT !.names[p] = 0]), 0, 0))
rename(fs, from, to) ==
    OnPath(fs, from,
        LET i == fs.names[from]  j == fs.names[to]
        IN IF i = j THEN Gives(fs, 0, 0)
           ELSE IF j # 0 /\ fs.kind[i] = "dir" /\ fs.kind[j] # "dir" THEN Fails(fs, ENOTDIR)
           ELSE IF j # 0 /\ fs.kind[i] # "dir" /\ fs.kind[j] = "dir" THEN Fails(fs, EISDIR)
           ELSE Gives(Collect([fs EXCEPT !.names[from] = 0, !.names[to] = i]), 0, 0))
link(fs, from, to) ==
    OnPath(fs, from,
        IF fs.names[to] # 0 THEN Fails(fs, EEXIST)
        ELSE IF fs.kind[fs.names[from]] = "dir" THEN Fails(fs, EPERM)
        ELSE Gives([fs EXCEPT !.names[to] = fs.names[from]], 0, 0))
\* chmod, lchown, utimensat
setattr(fs, p, v) == OnPath(fs, p, Gives([fs EXCEPT !.attr[fs.names[p]] = v], 0, 0))
Cut(fs, i) == IF fs.kind[i] = "dir" THEN Fails(fs, EISDIR)
              ELSE Gives([fs EXCEPT !.data[i] = 0], 0, 0)
truncate(fs, p) == OnPath(fs, p, Cut(fs, fs.names[p]))
ftruncate(fs, fd) == OnFd(fs, fd, Cut(fs, fs.fds[fd]))
\* The descriptor is the smallest free one.
Descriptor(fs, i) ==
    IF FreeFds(fs) = {} THEN Fails(fs, EMFILE)
    ELSE LET d == Min(FreeFds(fs)) IN Gives([fs EXCEPT !.fds[d] = i], d, 0)
open(fs, p) ==
    OnPath(fs, p, IF fs.kind[fs.names[p]] # "file" THEN Fails(fs, EISDIR)
                  ELSE Descriptor(fs, fs.names[p]))
\* open with O_CREAT
openCreate(fs, p, v) ==
    IF fs.names[p] # 0 THEN open(fs, p)
    ELSE LET s == Enter(fs, p, "file", v, 0) IN IF s.ret = -1 THEN s ELSE open(s.fs, p)
pread(fs, fd) == OnFd(fs, fd, Gives(fs, 1, fs.data[fs.fds[fd]]))
pwrite(fs, fd, v) == OnFd(fs, fd, Gives([fs EXCEPT !.data[fs.fds[fd]] = v], 1, 0))
fsync(fs, fd) == OnFd(fs, fd, Gives(fs, 0, 0))
close(fs, fd) == OnFd(fs, fd, Gives(Collect([fs EXCEPT !.fds[fd] = 0]), 0, 0))
=============================================================================
