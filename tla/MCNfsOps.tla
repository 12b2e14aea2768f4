------------------------------ MODULE MCNfsOps ------------------------------
(* Two server threads, two directories, three names. *)
EXTENDS NfsOps, TLC

MCDirOf == [p \in Paths |-> IF p = "b/y" THEN "b" ELSE "a"]
MCRequests ==
    {[op |-> o, path |-> "a/x", to |-> ""] :
        o \in {"mknod", "mkfifo", "mkdir", "create", "unlink", "rmdir"}}
    \cup {[op |-> "mkfifo", path |-> "a/z", to |-> ""], [op |-> "unlink", path |-> "b/y", to |-> ""]}
    \cup {[op |-> o, path |-> "a/x", to |-> "b/y"] : o \in {"rename", "link"}}
    \cup {[op |-> "symlink", path |-> "a/z", to |-> "a/x"]}
Symmetry == Permutations(Threads)
=============================================================================
