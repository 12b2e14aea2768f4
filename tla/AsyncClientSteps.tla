-------------------------- MODULE AsyncClientSteps --------------------------
(* What the actions of AsyncClient do, in the terms of its invariant: the  *)
(* words of the proofs.                                                    *)
EXTENDS AsyncClientInv

Event == {"FLUSH_REQUEST", "CALL_ENDED", "TERMINATED"}

-----------------------------------------------------------------------------
(* Segments and chains.                                                    *)

Call == [blocks : Seq(Block), upto : Nat, waiter : Waiters \cup {Nobody}]

\* q is a queue of calls or of requests.
IsQueue(q) ==
  /\ q \in Seq(Call) \/ q \in Seq(Request)
  /\ Len(q) \in Nat
  /\ \A k \in 1 .. Len(q) : q[k].blocks \in Seq(Block) /\ q[k].upto \in Nat

-----------------------------------------------------------------------------
(* Types.                                                                  *)

\* The call that is under way after start() of c.
NewCall(c) ==
  [status |-> "CREATE", blocks |-> c.blocks, upto |-> c.upto, waiter |-> c.waiter,
   sent |-> 0, stream |-> <<>>, server |-> "READ", broken |-> FALSE]

-----------------------------------------------------------------------------
(* Steps grouped by what they do.                                          *)

\* A step of the call under way, on either side, that does not end it.
CallStep(i) ==
  \/ ProceedCreate(i)
  \/ ProceedPop(i)
  \/ ProceedWrite(i)
  \/ ProceedLast(i)
  \/ ProceedWritesDone(i)
  \/ \E fails \in BOOLEAN : ServerWrite(i, fails)
  \/ ServerFinish(i)
  \/ \E k \in 0 .. Len(active[i].stream) : StreamBreak(i, k)

-----------------------------------------------------------------------------
(* The stages of a call, and the queues.                                   *)

\* A step of the scheduler that starts the first call of calls_.
StartStep ==
  /\ active = <<>> /\ calls # <<>>
  /\ StartNext(Tail(channel))
  /\ UNCHANGED <<pc, arg, mtxBlocks, blocks, blocksQueueSize, cacheSize, issued, dtor,
                 applied, late, breaks, errors, span>>

\* The kinds of step of the call under way, c before and d after the step.
Sends(c, d) ==
  /\ c.sent = 0
  /\ \E n \in DOMAIN c.blocks :
       /\ d.sent = n
       /\ d.stream = IF c.broken THEN c.stream
                     ELSE Append(c.stream, [blocks |-> SubSeq(c.blocks, 1, n),
                                            upto |-> c.upto - Len(c.blocks) + n])
  /\ d.blocks = c.blocks
  /\ d.broken = c.broken
  /\ UNCHANGED <<cacheSize, applied, late, breaks, errors>>

Pops(c, d) ==
  /\ c.sent > 0
  /\ d.sent = c.sent - 1
  /\ d.blocks = Tail(c.blocks)
  /\ d.stream = c.stream
  /\ d.broken = c.broken
  /\ cacheSize' = cacheSize - Head(c.blocks).size
  /\ UNCHANGED <<applied, late, breaks, errors>>

Advances(c, d) ==
  /\ d.sent = c.sent /\ d.blocks = c.blocks /\ d.stream = c.stream /\ d.broken = c.broken
  /\ UNCHANGED <<cacheSize, applied, late, breaks, errors>>

Applies(c, d) ==
  /\ c.stream # <<>>
  /\ d.stream = Tail(c.stream)
  /\ d.sent = c.sent /\ d.blocks = c.blocks /\ d.broken = c.broken
  /\ applied' = applied \o Head(c.stream).blocks
  /\ UNCHANGED <<cacheSize, late, breaks, errors>>

Fails(c, d) ==
  /\ d.sent = c.sent /\ d.blocks = c.blocks
  /\ (breaks' = breaks + 1 /\ d.broken /\ errors' = errors) \/ errors' = errors + 1
  /\ UNCHANGED <<cacheSize, applied>>

-----------------------------------------------------------------------------
(* The futures.                                                            *)

FutureInv == OwnerInv /\ WaiterInv /\ ReadyInv

-----------------------------------------------------------------------------
(* The refinement: without faults AsyncClient implements WriteBehind.      *)

\* What the flush of thread t waits for, as WriteBehind sees it.
Promise == [t \in Threads |-> IF pc[t] \in {"drain", "rpc"} THEN span[t].upto ELSE -1]

-----------------------------------------------------------------------------
(* The bytes of the cache and the truth of the futures.                    *)

\* The bytes of the first n writes of ws: Total for any history.
TotalIn(ws, n) == IF n = 0 THEN 0 ELSE ws[n].end

-----------------------------------------------------------------------------
(* The counters are the sums that Accounting defines by recursion.         *)

\* f is the sequence of the sums of s[1], ..., s[n], the empty sum first.
IsSum(f, s, n) == f = [i \in 0 .. n |-> IF i = 0 THEN 0 ELSE f[i - 1] + s[i]]

\* The bytes in a queue of calls, as Accounting counts them.
SizeOfQueue(q) ==
  LET sum[i \in 0 .. Len(q)] == IF i = 0 THEN 0 ELSE sum[i - 1] + SizeOf(q[i].blocks)
  IN  sum[Len(q)]

\* Every write ends where its bytes end.
IsHistory(ws) ==
  /\ ws \in Seq(Block)
  /\ \A n \in 1 .. Len(ws) : ws[n].end = TotalIn(ws, n - 1) + ws[n].size

=============================================================================
