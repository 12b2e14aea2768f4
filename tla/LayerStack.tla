----------------------------- MODULE LayerStack -----------------------------
(* The stack of layers: config reads the layers from the configuration file,   *)
(* lets each install its operations over those of the layers before it, checks *)
(* the stack, and starts a client or a server, whose requests enter at the top.*)
EXTENDS Naturals, Sequences, SequencesExt

CONSTANT MaxLayers   \* bound: layers in a configuration file

Caches == {"metadata_cache", "data_cache", "read_ahead"}
Layers == Caches \cup {"local", "nfs", "rpc_client", "rpc_server"}   \* nfs: local, mode nfs

VARIABLES layers_,      \* the configuration file's layers, in order
          composed,     \* how many of them are initialised
          operations_,  \* the layer whose function each operation calls, "null" at first
          next_layer,   \* of each caching layer: the operations below it
          state,        \* "composing", "client", "server", "refused"
          request       \* [op, path]: the layers a request has passed

vars == <<layers_, composed, operations_, next_layer, state, request>>

Installed ==    \* by rpc_client and by local in nfs mode
    {"init", "destroy", "getattr", "fgetattr", "access", "readlink", "opendir", "readdir",
     "releasedir", "mknod", "mkdir", "symlink", "unlink", "rmdir", "rename", "link", "chmod",
     "chown", "truncate", "ftruncate", "utimens", "create", "open", "read", "write", "statfs",
     "flush", "release", "fsync"}
InstalledBy(l) == IF l = "local" THEN Installed \ {"utimens"} ELSE Installed

\* The operations a caching layer stacks.
StackedMetadata ==
    {"init", "destroy", "getattr", "fgetattr", "mknod", "mkdir", "symlink", "unlink", "rmdir",
     "rename", "link", "chmod", "chown", "truncate", "ftruncate", "create", "open", "flush",
     "release", "fsync"}
StackedData == {"init", "destroy", "open", "read", "release"}
StackedAhead == {"init", "destroy", "open", "read", "release"}
Stacked(l) == CASE l = "metadata_cache" -> StackedMetadata
                [] l = "data_cache" -> StackedData
                [] l = "read_ahead" -> StackedAhead
                [] OTHER -> {}
Handles(l, o) == IF l \in Caches THEN o \in Stacked(l)
                 ELSE l # "rpc_server" /\ o \in InstalledBy(l)

Init ==
    /\ layers_ \in UNION {[1 .. n -> Layers] : n \in 0 .. MaxLayers}
    /\ composed = 0
    /\ operations_ = [o \in Installed |-> "null"]
    /\ next_layer = [l \in Caches |-> operations_]
    /\ state = "composing"
    /\ request = [op |-> "", path |-> <<>>]

Layer == layers_[composed + 1]
Composing == state = "composing" /\ composed < Len(layers_)

\* init_layer of rpc_client and local: assigns the table.
Install ==
    /\ Composing /\ Layer \in {"local", "nfs", "rpc_client"}
    /\ operations_' = [o \in Installed |-> IF o \in InstalledBy(Layer) THEN Layer ELSE operations_[o]]
    /\ composed' = composed + 1
    /\ UNCHANGED <<layers_, next_layer, state, request>>

\* stack_operation_(top, bottom) assigns top to its own copy of the pointer bottom: what
\* the caller's table holds afterwards.
stack_operation_(top, bottom) == bottom

\* init_layer of a caching layer; a null operation below throws stack_operation_exception.
Stack ==
    /\ Composing /\ Layer \in Caches
    /\ next_layer' = [next_layer EXCEPT ![Layer] = operations_]
    /\ IF \E o \in Stacked(Layer) : operations_[o] = "null"
       THEN state' = "refused" /\ UNCHANGED <<operations_, composed>>
       ELSE /\ operations_' = [o \in Installed |->
                 IF o \in Stacked(Layer) THEN stack_operation_(Layer, operations_[o])
                 ELSE operations_[o]]
            /\ composed' = composed + 1
            /\ UNCHANGED state
    /\ UNCHANGED <<layers_, request>>

\* init_layer of rpc_server
InitServer ==
    /\ Composing /\ Layer = "rpc_server"
    /\ composed' = composed + 1
    /\ UNCHANGED <<layers_, operations_, next_layer, state, request>>

Count(l) == Len(SelectSeq(layers_, LAMBDA x : x = l))
is_valid ==
    /\ layers_ # <<>>
    /\ Count("rpc_server") <= 1 /\ Count("rpc_client") <= 1
    /\ Count("rpc_client") = 1 => Head(layers_) = "rpc_client"
    /\ Count("rpc_server") = 1 => Last(layers_) = "rpc_server"
    /\ ~(Count("rpc_server") = 1 /\ Count("rpc_client") = 1)

\* config::make, then main
Start ==
    /\ state = "composing" /\ composed = Len(layers_)
    /\ state' = IF ~is_valid THEN "refused"
                ELSE IF Count("rpc_server") = 0 THEN "client" ELSE "server"
    /\ UNCHANGED <<layers_, composed, operations_, next_layer, request>>

\* A request of FUSE or of a client enters at the top ...
Request(o) ==
    /\ state \in {"client", "server"} /\ request.op = ""
    /\ operations_[o] # "null"
    /\ request' = [op |-> o, path |-> <<operations_[o]>>]
    /\ UNCHANGED <<layers_, composed, operations_, next_layer, state>>

\* ... and a caching layer that cannot answer passes it to the next.
Forward ==
    /\ request.path # <<>> /\ Last(request.path) \in Caches
    /\ request' = [request EXCEPT !.path = Append(@, next_layer[Last(@)][request.op])]
    /\ UNCHANGED <<layers_, composed, operations_, next_layer, state>>

Next == Install \/ Stack \/ InitServer \/ Start \/ Forward \/ \E o \in Installed : Request(o)

Spec == Init /\ [][Next]_vars

-----------------------------------------------------------------------------
\* README.md: "The request generated by FUSE is propagated through the client layers and
\* then transmitted to the server to do the same in its layers."  A request that has come
\* to the bottom of a started stack has passed every layer that handles its operation,
\* the top one first (of a stack that has one bottom layer and no layer twice).
PropagatedThroughTheLayers ==
    /\ request.path # <<>> /\ Last(request.path) \notin Caches
    /\ \A l \in Layers : Count(l) <= 1
    /\ Count("local") + Count("nfs") + Count("rpc_client") = 1
    =>
        request.path = Reverse(SelectSeq(layers_, LAMBDA l : Handles(l, request.op)))
=============================================================================
