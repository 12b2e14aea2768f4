# RSafeFS in TLA+

RSafeFS is a stackable FUSE file system with remote storage. A client process
mounts a stack of layers whose lowest one (`rpc_client`) talks gRPC to a server
process; the server runs the operations through its own stack, which ends in the
`local` layer. This directory models the parts of it in which several threads,
two processes or failures meet, checks the models with TLC and proves the most
important properties with TLAPS.

## The system

| Part | Code | What can go wrong in it | Here |
| --- | --- | --- | --- |
| Asynchronous client | `lib/fuse_rpc/grpc/async_client.cpp` | write-behind buffer shared by FUSE threads, a scheduler thread, completion-queue threads, a timer thread and the destructor | `Blocks`, `AsyncClient`, `SendBlock` |
| Its stream on the server | `ac_stream_write_data` in `lib/fuse_rpc/grpc/server.cpp` | errors dropped, requests applied late | `AsyncClient` |
| Channel | `include/.../grpc/channel.hpp` | wake-ups of the scheduler | a FIFO queue in `AsyncClient` |
| Synchronous client: unary calls | `lib/fuse_rpc/grpc/sync_client.cpp` | fields lost between the two sides, calls that fail after the server acted | `RemoteOps` |
| Synchronous client: streams | the same, and `stream_read_data`, `stream_write_data` of `server.cpp` | a stream per path, removed and replaced while other threads use it | `SyncClient` |
| RPC server | `lib/fuse_rpc/grpc/server.cpp` | life of the call objects, pollers, handlers | `RemoteOps` |
| Local layer, local mode | `lib/layers/local/local_operations.cpp` | descriptors, directory pages, operations it does not install | `LocalOps` over `FileSystem` |
| Local layer, nfs mode | `lib/layers/local/nfs_operations.cpp` | what a crash leaves on disk | `NfsOps` |
| Metadata cache | `lib/layers/metadata_cache/` | stale attributes, eviction | `MetadataCache` |
| Data cache, read-ahead | `lib/layers/data_cache/`, `lib/layers/read_ahead/` | two levels of locks, accounting, eviction, stale buffers, buffers removed while in use | `DataCache`, `ReadAhead` |
| Eviction policies | `include/rsafefs/common/cache/` | keys without entries and entries without keys | `Policy` |
| Configuration, layer stack, entry points | `lib/config.cpp`, `include/rsafefs/utils/utils.hpp`, `src/rsafefs.cpp` | order and installation of layers | `LayerStack` |

A FUSE request enters the client's stack at the top (`LayerStack`), may be answered by
a cache (`MetadataCache`, `DataCache` over `ReadAhead`), and goes to the server as a
unary call (`RemoteOps`), over a stream of the path (`SyncClient`), or, a write of
the asynchronous client, through the buffer (`AsyncClient`). The server runs it in
its local layer (`LocalOps` or `NfsOps`).

The models of the caching layers describe those layers as they are written. As they
are wired they are never called: see the finding `layer_stack`.

`PROJECT.json` lists the same parts with their files, the hazards of the code at
the line where they bite, and for every definition the lines it models.

## Modules

* `Blocks`: the blocks `write()` buffers, `block::is_mergeable`, and how
  `send_block` packs the first blocks of a call into one `WriteRequest`.
* `SendBlock`: one call draining its deque through `send_block` into a small file
  system; the reference is every write applied by itself. Bytes are pairs of the
  number of the write and a position, so that a merged buffer is compared byte
  by byte.
* `AsyncClient`: the asynchronous client and its stream on the server. `WriteBehind`:
  what it promises, in four variables. `AsyncClientInv`: the inductive invariant and
  the refinement mapping.
* `FileSystem` (external): the system calls the local layer uses, on a few inodes,
  descriptors and names. `LocalOps`: the operations of the local layer over it.
* `RemoteOps`: a call from FUSE to the local layer and back. `RemoteOpsInv`: its
  inductive invariant.
* `SyncClient`: the streams of the synchronous client.
* `Policy`, `MetadataCache`, `ReadAhead`, `DataCache`: the caching layers.
* `NfsOps`: the nfs mode, with a disk and crashes.
* `LayerStack`: composition of the layers and the way of a request through them.
* `AsyncClientProofs`, `SendBlockProofs`, `RemoteOpsServerProofs`, `RemoteOpsProofs`,
  `SyncClientProofs`, `MetadataCacheProofs`, `DataCacheProofs`, `NfsOpsProofs`: the proofs.
  `SyncClientInv` and `DataCacheInv` hold the invariants they use, `AsyncClientSteps` and
  `RemoteOpsSteps` what the actions do in the terms of the invariants. A lemma that only
  one other needs is a step of its proof, under a name: `<1>Least` in `AccountingExact`.
* `MC...` and the `.cfg` files: instances for TLC. An operator whose name extends that
  of the definition after it, with the comment "Mutation", is a wrong variant of it
  under which the property it is for fails; no specification uses it.

### State and actions of AsyncClient

| Variable | Code |
| --- | --- |
| `blocks`, `blocksQueueSize`, `cacheSize` | `blocks_`, `blocks_queue_size_`, the atomic `cache_size_` |
| `mtxBlocks` | the holder of `mtx_blocks_` while `write()` waits for a future |
| `calls`, `active` | `calls_`; the `call_data` that was started and has not ended |
| `channel`, `flushing`, `scheduler` | `channel_`, the local variable of `scheduler()`, whether its thread has ended |
| `timer`, `handler` | `timer_` is running; its handler is about to run |
| `future` | per waiter, the future it holds: none, pending, true or false |
| `pc`, `arg`, `dtor` | where each FUSE thread and the destructor are |
| `applied`, `late` | what the server wrote; requests of a broken stream it still holds |
| `issued`, `span` | history: the writes in the order of `blocks_`; the writes before each flush |

One action is one critical section. `write()` is four actions, one per branch:
`Write` (room), `WriteAndSchedule` (threshold passed), `WriteFull` (wait, with
`mtx_blocks_` held) and `WriteResume`. `flush()` and `fsync()` are `Flush`,
`FlushDrained` and `FlushRPC`. `OnCallEnded`, `OnFlushRequest` and `OnTerminated`
are the branches of `scheduler()`; the `Proceed...` actions those of
`call_data::proceed`, where the loop that pops the sent blocks is one action per
block because `write()` reads `cache_size_` meanwhile. `ServerWrite` and
`ServerFinish` are `ac_stream_write_data::proceed`. `TimerExpire`, `TimerHandler`
and the `Destroy...` actions are the timer and the destructor.

Abstractions. The receive of an event and its handling are one step: only the
scheduler receives, so the receive can be delayed to the handling. `end()` is
one step: the owner of the future sees it in a later step of its own. The number
of completion-queue threads does not matter: a call has exactly one operation
outstanding, and at most one call is under way, which is proved. The branch of
`CREATE` for a call without blocks is left out, since `start()` ends such a call.
The constructor is `Init`: its threads touch nothing of the object before the
first operation. FUSE calls `destroy` when no operation is running, so `Destroy`
waits for all threads to be idle. The sizes are natural numbers: `cache_size_`
would wrap only below zero, and `Accounting` shows that it never gets there.

Faults. `StreamBreak`: a stream fails at any time; what the server had received
may be applied at any later time (`ServerLateWrite`), the rest is lost, and the
client drives the call to its end because `proceed()` ignores `ok`. A failing
`operations_.write` is `ServerWrite(i, TRUE)`: the handler drops the error.
Properties that cannot survive a fault say `NoFaults`.

### RemoteOps and LocalOps

`Calls` says for each method of `sync_client` which arguments it puts in the request
and what it copies from the reply; `Handlers` says for each call object of the server
what it uses and fills. `Message` gives a field that was not set the default of its
type, as protocol buffers do. A call goes through `Issue`, `Accept` (the runtime hands
it to a registered call object), `Poll` (a poller takes the tag; `PROCESS` first
registers another object), `Process` (the operation, the reply, `Finish`), `Delete`
(the tag of `Finish`) and `Return`. `Fail` ends it for the client at any point; the
server goes on with what it has. `Crash` is the call through a null pointer, or of a
dead `local_dirp`. The kernel's open files and directories are `handles`; they live as
long as FUSE guarantees, so that a released handle is not used again. `LocalOps` maps
file system, directory streams and arguments to an outcome; `readdir` keeps the entry
the filler refused and seeks when another offset is asked for. `utimens` is missing
there: it is installed under `HAVE_UTIMENSAT`, which nothing defines.

Attributes, data and flags are small numbers. A directory is flat. `statfs` is modelled
with its 32-bit counts (`BlocksBits`, 1 in the run so that they wrap).

### SyncClient

One action is one critical section or one blocking call: `Find` (map mutex), `Send`
(`mtx_write_`), `LockRead` (`mtx_read_` before `mtx_write_` is given back), `Receive`
or `ReceiveFails`, `RemoveFind` and `Erase` per kind (the map mutex is held while both
stream mutexes are awaited), `Create` per kind, and the unary call with its outcomes.
`Break` makes a stream fail at any time; requests already on it may still be served.
A thread that uses an erased stream (`Dangle`) is undefined behaviour: `undefined`
stops the model. The kernel releases a handle only when no call of it is running.
`ServeLate` applies a unary write whose client gave up.

### MetadataCache, Policy

`Get`, `Drop` and `Put` are the critical sections of `getattr`; `Fetch` asks the next
layer. Every other operation is `Start`, one `Remove` per entry it removes, in the
order of the code, and `Apply`. Attributes are version numbers; inodes tell apart hard
links. `write` and `utimens` are in the model as operations of the next layer the
cache does not see. `excused` is a history variable: the paths whose entry the
design lets be stale (changed by another client, by a write or by utimens, below a renamed
directory, through another name, or fetched while an operation on the path was
running); an excuse ends when the entry is gone and nobody fetches. `Coherent` says
that nothing else makes an entry stale.

### DataCache, ReadAhead

One action per critical section of `cache_mtx_`, of a block's mutex, of `mtimes_mtx_`
and of the policy; a refresh keeps the shared lock and the block's lock across the
read of the next layer. A byte is the version of the file it was read from. An
unsigned difference or a negative result in a `size_t` is `Huge`. The read-ahead
buffer is looked up, compared, filled and replaced in the steps `Ra...`; looking up a
buffer that is gone sets `dangling`. The history variables `shared`, `failed`, `beyond`
and `orphans` record the four situations in which the code gives up a promise:
two handles of a path at once (a release takes the modification time and the buffer
of the other), a failed refresh (the block is valid with a huge size until it is
removed), a read beyond the end of a short block (the difference wraps), and a block
put back between the removal of a block and of its key. An open whose `getattr` fails
returns an error and leaves the handle of the next layer open.

### NfsOps

`Change` is the system call of an operation; `MakeSyncs`, `MoveSyncs` and `CreateSyncs`
list what it then syncs, and `Sync` or `SyncFails` is `sync_path` (or `fsync`) of
the next item, by name. Names and data have two copies, the machine's and the disk's;
an entry gets to disk when its directory is synced or written back, data when its
inode is synced, and `Crash` forgets the machine's copy. `promised` and `promisedData`
record what calls that returned success have promised.

### LayerStack

`Install`, `Stack` and `InitServer` are the `init_layer` functions in the order of the
file, `Start` is validation and the choice of `main`, `Request` and `Forward` the
way of a request from layer to layer. `stack_operation_` returns what the caller's
table holds afterwards.

## Runs

| Run | Checks | Instance |
| --- | --- | --- |
| `async_safety` | `IndInv`, `InOrder`, `FlushCovers`, `OneCallAtATime`, `NoLostWakeup`, `Accounting`, `CacheBound`, `CleanTermination`, `ImplementsWriteBehind` | 2 threads, 3 writes of sizes 1 and 2 that may merge, 2 flushes, cache size 2, threshold 1; 1,199,887 states |
| `async_faults` | `HeldInv`, `OneCallAtATime`, `Accounting`, `CacheBound`, `StatusTruthful`, `CleanTermination` | cache size 1, threshold 0, 3 writes, 1 flush, 1 broken stream, 1 failed write; 1,806,837 states |
| `async_liveness` | `CallsReturn`, `WritesReachServer`, `DestructorReturns` | 3 writes of one byte, 1 flush, 1 broken stream; 209,127 states |
| `send_block` | `MergeKeepsContent`, `RequestFits` | 3 writes over 2 files, 2 handles, sizes 1, 2 and 4, offsets 0 to 3, block size 3; 115,093 states |
| `remote_ops` | `Transparent`, `RightFile`, `DescriptorsOwned`, `PagesComplete`, `OnlyUtimensMissing`, `Answered` | 2 clients, 2 names, 2 descriptors, 1 call object per operation, 1 poller, 1 failed call, 8 workloads that together call every operation; 222,635 states |
| `sync_client` | `OwnReply`, `DanglesOnlyIfShared`, `AppliedOnce`, `StreamsReleased`, `OperationsReturn` | 2 threads, 2 handles of one path, 4 operations, 1 broken stream or failed call, 1 refused open; 484,553 states |
| `metadata_cache` | `Coherent`, `KeysMatch`, `SizeBound` | 2 threads, 4 paths, size 2, time-out 1, least recently used; 2,558,931 states |
| `data_cache` | `Accounting`, `Evictable`, `CloseToOpen`, `BufferThere` | 2 threads, 2 handles of a file of up to 3 bytes in blocks of 2, size 0, 1 change, 1 failure, 4 calls; 1,213,683 states |
| `nfs_crash` | `Durable`, `SyncsWhatItMade` | 2 threads, 3 names in 2 directories, 4 calls, 1 failure, 1 crash; 997,799 states |
| `cache_size_overshoot` | `HeldWithinCacheSize`, violated | `AsyncClient` with 3 writes, 1 flush, no faults |
| `fsync_after_error` | `FsyncMeansStored`, violated | the same with 1 failed write |
| `layer_stack` | `PropagatedThroughTheLayers`, violated | all configurations of up to 3 layers |

What they show, beyond the names:
* `Transparent`: an operation over RPC gives FUSE what the local layer gave the server;
  block counts of `statfs` modulo 2^32. `RightFile`: a bare descriptor number never
  stands for the wrong file while its client waits. `DescriptorsOwned`: a descriptor
  without an owner is paid for by a failed call, one for one. `OnlyUtimensMissing`: the
  only operation a server in local mode dies of is `utimens`.
* `OwnReply`: replies on a shared stream are not mixed up. `DanglesOnlyIfShared`: the
  reference used after the map's unlock dangles only when another handle of
  the path is released, or a stream of it breaks. `AppliedOnce`: a write is applied
  twice only when it was repeated after its stream failed. `StreamsReleased`: the only
  streams left behind are those of opens the server refused with something else than
  -1 and of failed releases.
* `Accounting` of `DataCache`: the unsigned size may pass through zero for a moment but
  never drifts. `CloseToOpen`: a read is never older than its open, with the
  exceptions named above. `BufferThere`: the read-ahead buffer is missing only when two
  handles of a path overlap.
* `Durable`: what an operation of nfs mode has reported is on disk, for entries and for
  data. `SyncsWhatItMade`: `sync_path` blocks on a FIFO or misses its target only
  when another call replaced the entry, or a FIFO or a link is renamed or linked.

Bounds. Two threads make every pair of operations concurrent. In `AsyncClient`, with
three writes a cache of size 2 fills, the threshold is passed, blocks are merged,
several calls queue up behind one another and the timer has something left to flush.
Two flushes let both threads wait at the same time. One broken stream is followed
by a second call on a new stream while the server still holds requests of the
first. In `send_block` three writes make all pairs and triples of neighbours; size
4 is larger than the block size by itself, sizes 1 and 2 meet it exactly and
exceed it. In `remote_ops` one call object per operation and one poller can all be
taken by another client's call; two descriptors are reused by the third call of a workload; rooms
of 1 and 2 entries make pages of a directory of two. In `sync_client` four operations
are enough for two handles of a path to be opened and one of them released while the
other is read or written, and for a broken stream to be removed by one thread while
the other waits on it. In `metadata_cache` four
paths compete for two entries, the clock makes entries expire, and six operations let a
getattr overlap with an operation on its path more than once. In
`data_cache` a size of 0 makes every insertion after the first evict, the file has a full block
and a short one, and the change may truncate to nothing. In `nfs_crash` four calls allow
an entry to be made, moved, replaced and removed around a crash.

Symmetry of threads (and handles) is used in `async_faults`, `metadata_cache`,
`data_cache` and `nfs_crash`, which check invariants only. Deadlock is checked in all
runs of `AsyncClient`: it may stop only when it is destroyed. The others may stop: the
bounds on calls are used up, an undefined step was taken, or (`nfs_crash`) a
`sync_path` waits for the writer of a FIFO for ever.

Fairness. `AsyncClient`: weak fairness of the scheduler, completion-queue, timer and
server threads, of a thread that waits for a future and of the rest of the
destructor: each is a thread that runs whenever it can. Nothing is assumed of
the applications, which may stop writing, never flush and never unmount, nor of
the faults. `WritesReachServer` therefore rests on the timer alone. `RemoteOps` and
`SyncClient`: weak fairness of `Progress`, the disjunction of the steps of threads in a
call and of the server: some thread that can run does. The number of steps is
bounded, so this is enough for every call that is not blocked. Nothing is assumed of
new calls, of breaks and of failures.

Findings.
* `cache_size_overshoot`: `write()` tests `cache_size_` before it adds its block,
  so the client holds more than the `cache_size` of README.md. `CacheBound` is
  what does hold: at most one write more.
* `fsync_after_error`: the server drops the error of a write and reports OK, and
  `fsync()` ignores the future anyway: it returns success although a write
  before it is lost.
* `layer_stack`: `stack_operation_` assigns to its own copy of the pointer, so the
  operations of the caching layers are never installed and requests go straight to
  the bottom layer.

## Proofs

TLAPS checks the following for every value of the constants: any sets of threads, writes,
paths, handles and requests, any sizes, and any bounds on calls, flushes, breaks, errors
and crashes.

| Theorem | States |
| --- | --- |
| `Inductive` | `Spec => []IndInv` |
| `TypeCorrect` | `Spec => []TypeOK` |
| `OrderPreserved` | `Spec => []InOrder` |
| `FlushDurable` | `Spec => []FlushCovers` |
| `SingleCall` | `Spec => []OneCallAtATime` |
| `WakeupKept` | `Spec => []NoLostWakeup` |
| `TerminationClean` | `Spec => []CleanTermination` |
| `Refinement` | `Spec => ImplementsWriteBehind` when the bounds allow no fault |
| `HeldAlways` | `Spec => []HeldInv` |
| `CacheBounded` | `Spec => []CacheBound` |
| `StatusIsTrue` | `Spec => []StatusTruthful` |
| `AccountingExact` | `Spec => []Accounting` |
| `MergeKeepsContentAlways` | `SendBlock`: `Spec => []MergeKeepsContent` |
| `RequestFitsAlways` | `SendBlock`: `Spec => []RequestFits` |
| `RemoteOpsInvariant` | `RemoteOps`: `Spec => []IndInv`, the one of `RemoteOpsInv` |
| `TransparentAlways` | `RemoteOps`: `Spec => []Transparent` |
| `RightFileAlways` | `RemoteOps`: `Spec => []RightFile` |
| `DescriptorsOwnedAlways` | `RemoteOps`: `Spec => []DescriptorsOwned` |
| `PagesCompleteAlways` | `RemoteOps`: `Spec => []PagesComplete` |
| `OnlyUtimensMissingAlways` | `RemoteOps`: `Spec => []OnlyUtimensMissing` |
| `OwnReplyAlways` | `SyncClient`: `Spec => []OwnReply` |
| `DanglesOnlyIfSharedAlways` | `SyncClient`: `Spec => []DanglesOnlyIfShared` |
| `StreamsReleasedAlways` | `SyncClient`: `Spec => []StreamsReleased` |
| `AppliedOnceAlways` | `SyncClient`: `Spec => []AppliedOnce` |
| `AgreeInvariant` | `MetadataCache`: `Spec => [](KeysMatch /\ SizeBound)`, for both eviction policies |
| `SizeBoundAlways` | `MetadataCache`: `Spec => []SizeBound` |
| `CoherentInvariant` | `MetadataCache`: `Spec => []Coherent` |
| `AccountingAlways` | `DataCache`: `Spec => []Accounting` |
| `EvictableAlways` | `DataCache`: `Spec => []Evictable` |
| `BufferThereAlways` | `DataCache`: `Spec => []BufferThere` |
| `CloseToOpenAlways` | `DataCache`: `Spec => []CloseToOpen` |
| `DurableAlways` | `NfsOps`: `Spec => []Durable` |
| `SyncsWhatItMadeAlways` | `NfsOps`: `Spec => []SyncsWhatItMade` |

The first twelve are about `AsyncClient`. The assumptions are those of the modules:
`AsyncClientAssumption` (constants are numbers, the names of the destructor and of
nobody are no threads, the threshold is within the cache size),
`MaxBlockSizeAssumption`, `SendBlockAssumption` (bounds are numbers, no write is empty),
`FileSystemAssumption` (finitely many names and descriptors; a descriptor is a positive
number: 0 to 2 are taken when a server starts), `LocalOpsAssumption` (a `local_dirp` has an
address that is not null and not a descriptor number; `fi->fh` holds either),
`RemoteOpsAssumption` (workloads are of operations the layer offers; the kernel's buffer
holds at least one entry, and no more than the server's, which takes every entry),
`SyncClientAssumption` (bounds are numbers, there is a path),
`PolicyAssumption`, `MetadataCacheAssumption` (requests are of known operations and
paths; a directory is not renamed over one with known paths below it),
`DataCacheAssumption` (a handle has a path, the block size and the modulus of the counter
are positive, sizes are numbers, there are finitely many threads) and `NfsAssumption`. TLC evaluates all of them in the runs.

### AsyncClient

None of the properties is inductive: that the server stores the
writes in order depends on every queue they pass. `IndInv` numbers the writes and
says that each queue holds consecutive ones and begins where the one before it
in the pipeline ends:

    applied | stream of the call | blocks of the call | calls_ | blocks_

`Segment` says that a sequence holds the writes a+1 to b, `Chain` that the elements
of a queue hold consecutive segments. `SchedulerInv` says that `flushing` is one
call under way or one `CALL_ENDED` in the channel, never both, so that there is
only one stream to speak of. `CallInv` ties the stages of the two ends of a call
together. `OwnerInv`, `WaiterInv` and `ReadyInv` say which call resolves which
future, and that a ready future covers what was issued before it was
scheduled. `DtorInv` says that whatever is scheduled behind the call of the
destructor is empty. Each conjunct has a lemma with one step per action or group of
actions; the lemmas about `Segment` and `Chain` (append, concatenate, take the
head or a prefix) come first.
The leaves go to Zenon; those that need arithmetic or sequences cite SMT.

`HeldInv` is inductive together with `IndInv`. `ByteInv` says where the bytes of each
write end in the history of all writes, and that the two counters are differences of
such ends: what a queue holds is the bytes from its first write to its last, and no
sum over the queue is needed. `CacheBound` follows from how `write()` waits: `FullInv`
says that it holds `mtx_blocks_`, so that nothing is buffered behind its flush, and
`PoppedInv` that a ready future is about blocks that left the cache; so the cache is
empty when the write goes on. `TruthInv` follows each write of a call from the
stream to the server: what a call that has not been broken has sent was applied or is
in its stream, which is empty when the server says OK. It speaks of behaviours without
an error of the server's own write, which the server does not report.

`Accounting` defines the same counters by recursive sums over the queues. The library's
induction rules cannot be used here, but that every non-empty set of numbers has a
smallest element can (step `Least` of the proof): two solutions of the equation of a sum would differ at
a first place (`SumUnique`), and the ends of `ByteInv` are a solution, so
`SegmentSize` and `ChainSize` give the sums and `AccountingExact` follows.

For `Refinement`, a `write()` that buffers its block is `Accept`, a write of the
server is `Store`, `Flush` and `FlushRPC` are `BeginFlush` and `EndFlush`, and the
end of the scheduler thread is `Close`; all other steps stutter.

### SendBlock

The size, the buffer and the effect of the first n blocks are recursive functions. For
each there is a lemma that a function with its equation exists and one that it is the only
one (`SumExists`, `SumAgrees`, `BufExists`, `AfterExists`, ...), by the induction over
sets of numbers of `SetInduction`. `WriteTwice` is the fact about files: writing one buffer
and then one behind it is writing both at once. `MergeFollows` says what `IsMergeRun`
demands of the blocks of a request, so `MergedWrite`, that a request has the effect of
its blocks one by one, is an induction over the blocks, and `AfterShift` splits the
deque where the request ends.

### RemoteOps

`RightFile` depends on who may close a descriptor. The invariant gives every descriptor
and every directory stream of the server at most one owner: a handle of some kernel, an
open that was executed and whose client waits for the reply, or a release that was sent and
not executed (`UniqueInv`). What is owned is open and is what it was opened for, as
long as the server runs (`LiveInv`): so an open, which takes a free descriptor, makes a
new owner and not a second one, and a release closes nothing of anyone else. `LeakInv`
counts: descriptors without an owner and opens under way whose clients have given up are
together at most the failed calls, since only `Fail` makes either, one at a time. It
speaks of a running server; `Closed` adds that a dead one has no descriptors.

`Transparent` rests on the two tables. `Table` says of each operation that the request
has the arguments the operation looks at, that the handler uses what was sent and that
the reply holds what the operation leaves; `OpsAlike` that arguments which agree there
give the same outcome of the local layer. `Transparent` itself is a conjunct of the
invariant, because it compares the reply with what the operation gave when it was
executed.

For `PagesComplete`, `IsDir` says that the entry a stream gives next is the one its
offset asks for, whether it was read before and refused by the filler or not, and
`IsHandle` that the kernel has read the directory up to its offset. `ReaddirIs` says
that the page is then the rest of the directory, and `PageCut` that the client keeps as
much of it as the kernel has room for.

The lemmas about tables, system calls, operations and the steps of the server are in
`RemoteOpsServerProofs`; those about the steps of the clients, and the theorems, in
`RemoteOpsProofs`.

### SyncClient

`OwnReply` needs to know who stands in the queue of a stream. `Holds` says that the
mutexes of a stream are held by exactly the threads whose program counter says so, and
`Ordered` that the queue of a live stream is the request of the holder of `mtx_read_`,
if there is one, followed by that of the holder of `mtx_write_`, if it has sent. Since
`mtx_read_` is taken before `mtx_write_` is given back, the writer becomes the
reader and nobody gets between. Each action has a step of the proof.

`HandleInv` says which operations can be under way on a handle at the same time, and
`PathInv` which streams a map can hold and a thread refer to; a thread with a destroyed
stream is then on a path that is shared or whose stream failed. `KeptInv` names, for
every stream in a map, the handle whose release will remove it. For `AppliedOnce`,
`IdInv` says where the number of an operation can be, and `CreditInv` counts for each
write how often it is in the log, on a stream, with a thread that will send it and
in a unary call nobody waits for: together once, or twice if it was repeated.
`AppliedInv` says that what was answered is in the log.

### MetadataCache

`Agree` adds to `KeysMatch` and `SizeBound` that the cache is finite and that the
positions of the lru list are bounded numbers, so that a non-empty policy always has
a victim: then one eviction makes room for one insertion. For `Coherent`, `Fresh(p)` says
of a path without an excuse that the entry is current, that what a getattr is about
to put is current, and that an operation which will change the path still has to remove
its entry, or there is none and nobody fetches it. `ChangesCovered` is the fact about the
code: what an operation changes it removes, or it is `Blind` to it.

### DataCache

`Base` holds the types, which calls share a handle (`HandleInv`), and that a block
under refresh stays in the cache (`RetInv`). `AloneInv` says that a handle in use has its
buffer, unless two handles of a path were in use at once. `Evictable` is inductive with
`Base`, and `Accounting` with the set of cached blocks being finite. For `CloseToOpen`,
`Fresh` follows the bytes from the server through the buffer of read-ahead and the block
to the reply: `HandleFresh` says what an open has seen, `BufferFresh` and `BlockFresh`
that the bytes are from the version they are tagged with on, and `FreshAt` that a read
only copies from a block whose tag is that of its open.

### NfsOps

`Pending(t)` says that what a call has changed is on disk or still in its list of
syncs: the directory of each entry it was the last to change, and the descriptor it
wrote through. `ChangeListed` is the fact about the code: the list holds the
directory of every entry the system call changes. A sync by another call, a write-back
and a crash only bring disk and machine closer. For `SyncsWhatItMade`, `Opens(t)` says
that only mkdir, rename and link have an entry to sync by name, mkdir the directory it has
made.

### Only model-checked

Liveness (`CallsReturn`, `WritesReachServer`, `DestructorReturns`, `Answered`,
`OperationsReturn`): fairness is out of reach of the prover. Every safety property of a
passing run is proved.

## Not modelled

* Extended attributes and `fallocate`, on both sides: no layer installs them, so no
  request for them exists.
* Shutdown of the server: `run()` waits for ever and nothing shuts the server down. The
  pollers would fail their assertion if something did.
* Start of the server: the pollers run before `operations_.init`. In a server over the
  local layer that `init` does nothing, and the caching layers' is not installed
  because of the finding `layer_stack`.
* The construction and deletion of the cache objects in `init` and `destroy`, which FUSE
  calls before and after everything else, and the parsing of their YAML options.
* Attribute and read operations of the nfs mode: the system calls of the local mode
  without a sync. `utime` of the local layer: the server has no request for it.
* Time stamps, permissions, sizes and contents in `FileSystem`: attributes and data are
  version numbers.
* The metadata cache compares its number of entries with a size that README.md gives
  in bytes: `Size` is the number the code compares with.
* Reads of the asynchronous client, which overtake its buffered writes: the repository
  promises nothing about them.
* Logging.
