---- MODULE MCMetadataCache ----
(* A small instance of MetadataCache: a directory with a file, and a path to *)
(* which the directory can be renamed.                                       *)
EXTENDS MetadataCache, TLC
MCPaths == {"/", "/d", "/d/f", "/e"}
MCFiles == ("/" :> 1) @@ ("/d" :> 2) @@ ("/d/f" :> 3) @@ ("/e" :> 0)
MCParent == [p \in MCPaths |-> IF p = "/d/f" THEN "/d" ELSE "/"]
MCBelow == [p \in MCPaths |-> IF p = "/d" THEN {"/d/f"} ELSE {}]
One(op, p) == [op |-> op, path |-> p, to |-> ""]
MCRequests ==
    {One("unlink", "/d/f"), One("create", "/d/f"), One("write", "/d/f"),
     [op |-> "rename", path |-> "/d", to |-> "/e"],
     [op |-> "link", path |-> "/d/f", to |-> "/e"]}
Symmetry == Permutations(Threads)
====
