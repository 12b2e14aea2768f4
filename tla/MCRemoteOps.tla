---- MODULE MCRemoteOps ----
(* A small instance of RemoteOps: two names, two clients, one of which holds a *)
(* file and the directory open.                                                *)
EXTENDS RemoteOps

MCPaths == {"a", "b"}
MCFiles == <<"a", "b">>
MCInodes == 1..3
MCFds == 3..4
MCDirps == 101..102

\* Descriptors reused over several calls; a directory read in pages; what is done to
\* an open file; what changes names and attributes.
MCWorkloads ==
    {[ops |-> {"open", "write", "release"}, calls |-> 3],
     [ops |-> {"readdir"}, calls |-> 3],
     [ops |-> {"opendir", "readdir", "releasedir"}, calls |-> 2],
     [ops |-> {"create", "fgetattr", "read", "write", "ftruncate", "flush", "fsync", "release"},
      calls |-> 2],
     [ops |-> {"mknod", "symlink", "readlink", "unlink", "link"}, calls |-> 2],
     [ops |-> {"getattr", "mkdir", "rmdir", "rename"}, calls |-> 2],
     [ops |-> {"access", "chmod", "truncate", "unlink"}, calls |-> 2],
     [ops |-> {"getattr", "chown", "utimens", "statfs"}, calls |-> 2]}
====
