------------------------- MODULE AsyncClientProofs --------------------------
(***************************************************************************)
(* AsyncClient for any threads, handles and bounds: its steps keep the     *)
(* types; IndInv is inductive, one lemma per conjunct and in it one step   *)
(* per action or group of actions; the theorems about AsyncClient; the     *)
(* refinement of WriteBehind, through the mapping WB of AsyncClientInv;    *)
(* and, from HeldInv beside IndInv, the byte counters, the bound of the    *)
(* cache and the truth of the futures.                                     *)
(***************************************************************************)
EXTENDS AsyncClientSteps, SequenceTheorems, TLAPS

\* The tests and updates that actions are made of are expanded everywhere.
\* Leaves that need arithmetic or sequences cite SMT, the others go to Zenon.
USE Zenon DEF IsReady, RestartTimer, MayStart, Uncount, IsFinished, StatusOk
-----------------------------------------------------------------------------
(* The channel and the queues.                                             *)

\* channel::send: what an event added at the end of the channel changes.
LEMMA AppendEvent ==
  ASSUME NEW s \in Seq(Event), NEW e \in Event, NEW x
  PROVE  /\ Append(s, e) \in Seq(Event)
         /\ Has(Append(s, e), x) <=> Has(s, x) \/ x = e
         /\ AtMostOnce(s, x) /\ (Has(s, x) => x # e) => AtMostOnce(Append(s, e), x)
  <1> DEFINE a == Append(s, e)
  <1>1. /\ a \in Seq(Event)
        /\ Len(s) \in Nat
        /\ Len(a) = Len(s) + 1
        /\ \A i \in 1 .. Len(s) : a[i] = s[i]
        /\ a[Len(s) + 1] = e
    BY AppendProperties, SMT
  <1> HIDE DEF a
  <1>2. Has(a, x) <=> Has(s, x) \/ x = e
    <2>1. \A i \in 1 .. Len(a) : i \in 1 .. Len(s) \/ i = Len(s) + 1
      BY <1>1, SMT
    <2>2. Has(a, x) => Has(s, x) \/ x = e
      BY <1>1, <2>1 DEF Has
    <2>3. Has(s, x) => Has(a, x)
      BY <1>1, SMT DEF Has
    <2>4. x = e => Has(a, x)
      BY <1>1, SMT DEF Has
    <2> QED
      BY <2>2, <2>3, <2>4
  <1>3. AtMostOnce(s, x) /\ (Has(s, x) => x # e) => AtMostOnce(a, x)
    BY <1>1, SMT DEF Has, AtMostOnce
  <1> QED
    BY <1>1, <1>2, <1>3 DEF a

\* channel::receive: what taking the first event from the channel changes.
LEMMA TailEvent ==
  ASSUME NEW s \in Seq(Event), s # <<>>, NEW x
  PROVE  /\ Tail(s) \in Seq(Event)
         /\ Has(s, x) <=> Has(Tail(s), x) \/ x = Head(s)
         /\ AtMostOnce(s, x) => AtMostOnce(Tail(s), x)
         /\ AtMostOnce(s, x) /\ x = Head(s) => ~ Has(Tail(s), x)
  <1> DEFINE r == Tail(s)
  <1>1. /\ r \in Seq(Event)
        /\ Len(s) \in Nat
        /\ Len(r) = Len(s) - 1
        /\ \A i \in 1 .. Len(r) : r[i] = s[i + 1]
        /\ Head(s) = s[1]
        /\ Len(s) > 0
    BY HeadTailProperties, EmptySeq, SMT
  <1> HIDE DEF r
  <1>2. Has(s, x) <=> Has(r, x) \/ x = Head(s)
    <2>1. \A i \in 1 .. Len(s) : i = 1 \/ (i - 1 \in 1 .. Len(r) /\ r[i - 1] = s[i])
      BY <1>1, SMT
    <2>2. Has(s, x) => Has(r, x) \/ x = Head(s)
      BY <1>1, <2>1 DEF Has
    <2>3. \A i \in 1 .. Len(r) : i + 1 \in 1 .. Len(s) /\ s[i + 1] = r[i]
      BY <1>1, SMT
    <2>4. Has(r, x) => Has(s, x)
      BY <2>3 DEF Has
    <2>5. x = Head(s) => Has(s, x)
      BY <1>1, SMT DEF Has
    <2> QED
      BY <2>2, <2>4, <2>5
  <1>3. AtMostOnce(s, x) => AtMostOnce(r, x)
    BY <1>1, SMT DEF AtMostOnce
  <1>4. AtMostOnce(s, x) /\ x = Head(s) => ~ Has(r, x)
    BY <1>1, SMT DEF AtMostOnce, Has
  <1> QED
    BY <1>1, <1>2, <1>3, <1>4 DEF r

-----------------------------------------------------------------------------
(* Segments and chains.                                                    *)

\* calls_ and the streams are queues of records with blocks and upto.
LEMMA QueueType ==
  ASSUME NEW q, q \in Seq(Call) \/ q \in Seq(Request)
  PROVE  IsQueue(q)
  <1>0. \A c : c \in Call \/ c \in Request => c.blocks \in Seq(Block) /\ c.upto \in Nat
    BY DEF Call, Request
  <1>1. CASE q \in Seq(Call)
    <2>1. Len(q) \in Nat /\ \A k \in 1 .. Len(q) : q[k] \in Call
      BY <1>1, ElementOfSeq, SMT
    <2> QED
      BY <1>0, <1>1, <2>1 DEF IsQueue
  <1>2. CASE q \in Seq(Request)
    <2>1. Len(q) \in Nat /\ \A k \in 1 .. Len(q) : q[k] \in Request
      BY <1>2, ElementOfSeq, SMT
    <2> QED
      BY <1>0, <1>2, <2>1 DEF IsQueue
  <1> QED
    BY <1>1, <1>2

\* write(): numbers of writes stay what they are when another one is issued.
LEMMA SegmentMore ==
  ASSUME NEW ws \in Seq(Block), NEW x \in Block, NEW bs \in Seq(Block), NEW a, NEW b,
         Segment(ws, bs, a, b)
  PROVE  Segment(Append(ws, x), bs, a, b)
  <1> DEFINE vs == Append(ws, x)
  <1>1. /\ Len(ws) \in Nat
        /\ Len(vs) = Len(ws) + 1
        /\ \A i \in 1 .. Len(ws) : vs[i] = ws[i]
    BY AppendProperties, SMT
  <1>2. Len(bs) \in Nat
    BY SMT
  <1> HIDE DEF vs
  <1>3. \A j \in 1 .. Len(bs) : a + j \in 1 .. Len(ws)
    BY <1>1, <1>2, SMT DEF Segment
  <1>4. Segment(vs, bs, a, b)
    BY <1>1, <1>2, <1>3, SMT DEF Segment
  <1> QED
    BY <1>4 DEF vs

\* write(): a block added to blocks_ is the newest write.
LEMMA SegmentAppend ==
  ASSUME NEW ws \in Seq(Block), NEW x \in Block, NEW bs \in Seq(Block), NEW a,
         Segment(ws, bs, a, Len(ws))
  PROVE  Segment(Append(ws, x), Append(bs, x), a, Len(ws) + 1)
  <1> DEFINE vs == Append(ws, x)
             cs == Append(bs, x)
  <1>1. /\ Len(ws) \in Nat
        /\ Len(vs) = Len(ws) + 1
        /\ \A i \in 1 .. Len(ws) : vs[i] = ws[i]
        /\ vs[Len(ws) + 1] = x
    BY AppendProperties, SMT
  <1>2. /\ Len(bs) \in Nat
        /\ Len(cs) = Len(bs) + 1
        /\ \A i \in 1 .. Len(bs) : cs[i] = bs[i]
        /\ cs[Len(bs) + 1] = x
    BY AppendProperties, SMT
  <1> HIDE DEF vs, cs
  <1>3. a \in Nat /\ Len(ws) = a + Len(bs) /\ \A j \in 1 .. Len(bs) : bs[j] = ws[a + j]
    BY DEF Segment
  <1>4. \A j \in 1 .. Len(cs) : cs[j] = vs[a + j]
    <2> TAKE j \in 1 .. Len(cs)
    <2>1. CASE j \in 1 .. Len(bs)
      BY <1>1, <1>2, <1>3, <2>1, SMT
    <2>2. CASE j = Len(bs) + 1
      BY <1>1, <1>2, <1>3, <2>2, SMT
    <2> QED
      BY <1>2, <2>1, <2>2, SMT
  <1>5. Segment(vs, cs, a, Len(ws) + 1)
    BY <1>1, <1>2, <1>3, <1>4, SMT DEF Segment
  <1> QED
    BY <1>5 DEF vs, cs

\* Popping the first block of a queue.
LEMMA SegmentTail ==
  ASSUME NEW ws \in Seq(Block), NEW bs \in Seq(Block), bs # <<>>, NEW a, NEW b,
         Segment(ws, bs, a, b)
  PROVE  Segment(ws, Tail(bs), a + 1, b)
  <1> DEFINE cs == Tail(bs)
  <1>1. /\ Len(bs) \in Nat /\ Len(bs) > 0
        /\ Len(cs) = Len(bs) - 1
        /\ \A i \in 1 .. Len(cs) : cs[i] = bs[i + 1]
    BY HeadTailProperties, EmptySeq, SMT
  <1> HIDE DEF cs
  <1>2. a \in Nat /\ b = a + Len(bs) /\ \A j \in 1 .. Len(bs) : bs[j] = ws[a + j]
    BY DEF Segment
  <1>3. \A j \in 1 .. Len(cs) : j + 1 \in 1 .. Len(bs) /\ a + (j + 1) = (a + 1) + j
    BY <1>1, <1>2, SMT
  <1>4. Segment(ws, cs, a + 1, b)
    BY <1>1, <1>2, <1>3, SMT DEF Segment
  <1> QED
    BY <1>4 DEF cs

\* write(): a chain stays one when another write is issued.
LEMMA ChainMore ==
  ASSUME NEW ws \in Seq(Block), NEW x \in Block, NEW q, IsQueue(q), NEW a, NEW b,
         Chain(ws, q, a, b)
  PROVE  Chain(Append(ws, x), q, a, b)
  <1>1. \A k \in 1 .. Len(q) : Segment(Append(ws, x), q[k].blocks, Before(q, a, k), q[k].upto)
    BY SegmentMore DEF Chain, IsQueue
  <1> QED
    BY <1>1 DEF Chain

\* An empty queue ends where it begins.
LEMMA ChainEmpty ==
  ASSUME NEW ws, NEW a \in Nat
  PROVE  Chain(ws, <<>>, a, a) /\ \A b : Chain(ws, <<>>, a, b) => a = b
  BY SMT DEF Chain, Before

\* schedule_flush and send_block: an element that begins where the queue ends
\* prolongs the queue.
LEMMA ChainAppend ==
  ASSUME NEW ws \in Seq(Block), NEW q, NEW r, NEW a, NEW m, NEW b,
         \/ q \in Seq(Call) /\ r \in Call
         \/ q \in Seq(Request) /\ r \in Request,
         Chain(ws, q, a, m), Segment(ws, r.blocks, m, b), r.upto = b
  PROVE  Chain(ws, Append(q, r), a, b)
  <1> DEFINE p == Append(q, r)
  <1>1. /\ Len(q) \in Nat
        /\ Len(p) = Len(q) + 1
        /\ \A i \in 1 .. Len(q) : p[i] = q[i]
        /\ p[Len(q) + 1] = r
    BY AppendProperties, SMT
  <1> HIDE DEF p
  <1>2. \A k \in 1 .. Len(q) + 1 : Before(p, a, k) = Before(q, a, k)
    BY <1>1, SMT DEF Before
  <1>3. m = Before(p, a, Len(q) + 1) /\ b = Before(p, a, Len(p) + 1)
    BY <1>1, <1>2, SMT DEF Chain, Before
  <1>4. \A k \in 1 .. Len(p) : Segment(ws, p[k].blocks, Before(p, a, k), p[k].upto)
    <2> TAKE k \in 1 .. Len(p)
    <2>1. CASE k \in 1 .. Len(q)
      BY <1>1, <1>2, <2>1 DEF Chain
    <2>2. CASE k = Len(q) + 1
      BY <1>1, <1>3, <2>2
    <2> QED
      BY <1>1, <2>1, <2>2, SMT
  <1>5. Chain(ws, p, a, b)
    BY <1>3, <1>4 DEF Chain
  <1> QED
    BY <1>5 DEF p

\* Taking the first element: the rest of the queue begins where it ends.
LEMMA ChainTail ==
  ASSUME NEW ws \in Seq(Block), NEW q, q \in Seq(Call) \/ q \in Seq(Request), q # <<>>,
         NEW a, NEW b, Chain(ws, q, a, b)
  PROVE  /\ Head(q) = q[1]
         /\ Segment(ws, q[1].blocks, a, q[1].upto)
         /\ Chain(ws, Tail(q), q[1].upto, b)
  <1> DEFINE p == Tail(q)
  <1>0. Head(q) = q[1]
    BY SMT
  <1>1. /\ Len(q) \in Nat /\ Len(q) > 0
        /\ Len(p) = Len(q) - 1
        /\ \A i \in 1 .. Len(p) : p[i] = q[i + 1]
    BY HeadTailProperties, EmptySeq, SMT
  <1>2. 1 \in 1 .. Len(q) /\ q[1].upto \in Nat
    BY <1>1, QueueType, SMT DEF IsQueue
  <1>3. Segment(ws, q[1].blocks, a, q[1].upto)
    BY <1>2 DEF Chain, Before
  <1> HIDE DEF p
  <1>4. \A k \in 1 .. Len(p) + 1 : Before(p, q[1].upto, k) = Before(q, a, k + 1)
    <2> TAKE k \in 1 .. Len(p) + 1
    <2>1. CASE k = 1
      BY <2>1, SMT DEF Before
    <2>2. CASE k # 1
      <3>1. k - 1 \in 1 .. Len(p) /\ k + 1 # 1 /\ (k - 1) + 1 = k /\ (k + 1) - 1 = k
        BY <1>1, <2>2, SMT
      <3>2. p[k - 1] = q[k]
        BY <1>1, <3>1
      <3> QED
        BY <2>2, <3>1, <3>2 DEF Before
    <2> QED
      BY <2>1, <2>2
  <1>5. \A k \in 1 .. Len(p) : Segment(ws, p[k].blocks, Before(p, q[1].upto, k), p[k].upto)
    <2> TAKE k \in 1 .. Len(p)
    <2>1. k + 1 \in 1 .. Len(q) /\ k \in 1 .. Len(p) + 1
      BY <1>1, SMT
    <2>2. Segment(ws, q[k + 1].blocks, Before(q, a, k + 1), q[k + 1].upto)
      BY <2>1 DEF Chain
    <2> QED
      BY <1>1, <1>4, <2>1, <2>2
  <1>6. b = Before(p, q[1].upto, Len(p) + 1)
    <2>1. Len(p) + 1 \in 1 .. Len(p) + 1 /\ (Len(p) + 1) + 1 = Len(q) + 1
      BY <1>1, SMT
    <2> QED
      BY <1>4, <2>1 DEF Chain
  <1>7. Chain(ws, p, q[1].upto, b)
    BY <1>2, <1>5, <1>6 DEF Chain
  <1> QED
    BY <1>0, <1>3, <1>7 DEF p

\* Where the queue of calls begins can be read off its first call.
LEMMA ChainStart ==
  ASSUME NEW ws \in Seq(Block), NEW q \in Seq(Call), NEW a, NEW b, Chain(ws, q, a, b)
  PROVE  /\ a \in Nat
         /\ q # <<>> => a = q[1].upto - Len(q[1].blocks)
         /\ q = <<>> => a = b
  <1>1. a \in Nat
    BY DEF Chain
  <1>2. CASE q = <<>>
    BY <1>1, <1>2, ChainEmpty
  <1>3. CASE q # <<>>
    <2>1. Segment(ws, q[1].blocks, a, q[1].upto) /\ Len(q[1].blocks) \in Nat
      <3>1. Len(q) \in Nat /\ 1 \in 1 .. Len(q)
        BY <1>3, SMT
      <3> QED
        BY <1>3, <3>1, ChainTail, QueueType, SMT DEF IsQueue
    <2> QED
      BY <1>1, <1>3, <2>1, SMT DEF Segment
  <1> QED
    BY <1>1, <1>2, <1>3

-----------------------------------------------------------------------------
(* Types.                                                                  *)

\* The block that write() makes of its arguments is well typed.
LEMMA NewBlock ==
  ASSUME NEW w \in Shapes, TypeOK
  PROVE  [id |-> Len(issued) + 1, path |-> w.path, offset |-> w.offset,
          size |-> w.size, fi |-> w.fi, end |-> Total(Len(issued)) + w.size] \in Block
  <1>1. w.size \in Nat
    BY AsyncClientAssumption
  <1>2. Total(Len(issued)) \in Nat
    <2>1. CASE Len(issued) = 0
      BY <2>1 DEF Total
    <2>2. CASE Len(issued) # 0
      <3>1. issued \in Seq(Block)
        BY DEF TypeOK
      <3>2. Len(issued) \in 1 .. Len(issued)
        BY <2>2, <3>1, SMT
      <3>3. issued[Len(issued)] \in Block
        BY <3>1, <3>2, ElementOfSeq
      <3> QED
        BY <2>2, <3>3 DEF Total, Block
    <2> QED
      BY <2>1, <2>2
  <1> QED
    BY <1>1, <1>2, SMT DEF TypeOK, Block

\* A call under way is the only one.
LEMMA ActiveOne ==
  ASSUME TypeOK, SchedulerInv, NEW i \in DOMAIN active
  PROVE  i = 1 /\ Len(active) = 1 /\ active # <<>> /\ active[1] \in CallData
  <1>1. active \in Seq(CallData)
    BY DEF TypeOK
  <1>2. active # <<>> /\ Len(active) = 1
    BY <1>1, SMT DEF SchedulerInv
  <1> QED
    BY <1>1, <1>2, ElementOfSeq, SMT

\* end() of the only call under way leaves none.
LEMMA ActiveRemove ==
  ASSUME TypeOK, SchedulerInv, NEW i \in DOMAIN active,
         active' = SubSeq(active, 1, i - 1) \o SubSeq(active, i + 1, Len(active))
  PROVE  active' = <<>>
  <1>1. active \in Seq(CallData) /\ i = 1 /\ Len(active) = 1
    BY ActiveOne DEF TypeOK
  <1>2. SubSeq(active, 1, 0) = <<>> /\ SubSeq(active, 2, 1) = <<>>
    BY SubSeqEmpty, SMT
  <1>3. active' = SubSeq(active, 1, 0) \o SubSeq(active, 2, 1)
    BY <1>1, SMT
  <1>4. <<>> \o <<>> = <<>>
    BY ConcatEmptySeq, EmptySeq
  <1> QED
    BY <1>2, <1>3, <1>4

\* What start() does to the first call of calls_: a call without blocks ends
\* at once, any other one comes under way.
LEMMA StartNextType ==
  ASSUME TypeOK, SchedulerInv, active = <<>>, calls # <<>>, NEW rest \in Seq(Event), StartNext(rest)
  PROVE  /\ Head(calls) \in Call
         /\ calls' \in Seq(Call)
         /\ flushing' = TRUE
         /\ \/ /\ Head(calls).blocks = <<>>
               /\ channel' = Append(rest, "CALL_ENDED")
               /\ Resolve(Head(calls).waiter, TRUE)
               /\ active' = <<>>
            \/ /\ Head(calls).blocks # <<>>
               /\ channel' = rest
               /\ active' = <<NewCall(Head(calls))>>
               /\ NewCall(Head(calls)) \in CallData
               /\ future' = future
         /\ channel' \in Seq(Event)
         /\ active' \in Seq(CallData)
         /\ future' \in [Waiters -> {"none", "pending", "true", "false"}]
  <1> DEFINE c == Head(calls)
  <1>1. c \in Call /\ calls' \in Seq(Call)
    BY HeadTailProperties DEF StartNext, TypeOK, Call
  <1>2. CASE c.blocks = <<>>
    <2>1. /\ channel' = Append(rest, "CALL_ENDED")
          /\ Resolve(c.waiter, TRUE)
          /\ active' = active
          /\ flushing' = TRUE
      BY <1>2 DEF StartNext
    <2>2. channel' \in Seq(Event)
      BY <2>1, AppendProperties DEF Event
    <2>3. future' \in [Waiters -> {"none", "pending", "true", "false"}]
      BY <1>1, <2>1 DEF Resolve, TypeOK, Call
    <2> QED
      BY <1>1, <1>2, <2>1, <2>2, <2>3 DEF TypeOK
  <1>3. CASE c.blocks # <<>>
    <2>1. NewCall(c) \in CallData
      BY <1>1, SMT DEF NewCall, CallData, Call
    <2>2. channel' = rest /\ active' = Append(active, NewCall(c)) /\ future' = future /\ flushing' = TRUE
      BY <1>3 DEF StartNext, NewCall
    <2>3. active' = <<NewCall(c)>>
      BY <2>2, SMT
    <2>4. active' \in Seq(CallData)
      BY <2>1, <2>3, SMT
    <2> QED
      BY <1>1, <1>3, <2>1, <2>2, <2>3, <2>4 DEF TypeOK
  <1> QED
    BY <1>2, <1>3

\* Every step of the client and of the server keeps the types.
LEMMA TypeStep == IndInv /\ [Next]_vars => TypeOK'
  \* schedule_flush leaves calls_, channel_ and the futures well typed.
  <1>ScheduleFlushType.
      ASSUME TypeOK, NEW w \in Waiters \cup {Nobody}, Len(blocks) <= Len(issued), ScheduleFlush(w)
      PROVE  /\ calls' \in Seq([blocks : Seq(Block), upto : Nat, waiter : Waiters \cup {Nobody}])
             /\ channel' \in Seq({"FLUSH_REQUEST", "CALL_ENDED", "TERMINATED"})
             /\ future' \in [Waiters -> {"none", "pending", "true", "false"}]
             /\ span' \in [Waiters -> [from : Nat, upto : Nat]]
    <2> USE <1>ScheduleFlushType
    <2>1. calls' \in Seq([blocks : Seq(Block), upto : Nat, waiter : Waiters \cup {Nobody}])
      BY SMT DEF TypeOK, ScheduleFlush
    <2>2. channel' \in Seq({"FLUSH_REQUEST", "CALL_ENDED", "TERMINATED"})
      BY SMT DEF TypeOK, ScheduleFlush
    <2>3. future' \in [Waiters -> {"none", "pending", "true", "false"}]
      BY DEF TypeOK, ScheduleFlush
    <2>4. span' \in [Waiters -> [from : Nat, upto : Nat]]
      <3>1. CASE w = Nobody
        BY <3>1 DEF TypeOK, ScheduleFlush
      <3>2. CASE w # Nobody
        <4>1. Len(issued) - Len(blocks) \in Nat /\ Len(issued) \in Nat
          BY SMT DEF TypeOK
        <4> DEFINE r == [from |-> Len(issued) - Len(blocks), upto |-> Len(issued)]
        <4>2. r \in [from : Nat, upto : Nat]
          BY <4>1
        <4>3. span' = [span EXCEPT ![w] = r]
          BY <3>2 DEF ScheduleFlush
        <4> HIDE DEF r
        <4> QED
          BY <3>2, <4>2, <4>3 DEF TypeOK
      <3> QED
        BY <3>1, <3>2
    <2> QED
      BY <2>1, <2>2, <2>3, <2>4
  \* The tail of write() leaves the buffer and its counters well typed.
  <1>EmplaceType.
      ASSUME TypeOK, NEW w \in Shapes, NEW bs \in Seq(Block), NEW n \in Nat,
             Emplace(bs, n, w)
      PROVE  /\ blocks' \in Seq(Block)
             /\ blocksQueueSize' \in Nat
             /\ cacheSize' \in Int
             /\ issued' \in Seq(Block)
             /\ timer' \in {"idle", "armed"}
    <2> USE <1>EmplaceType
    <2> DEFINE b == [id |-> Len(issued) + 1, path |-> w.path, offset |-> w.offset,
              size |-> w.size, fi |-> w.fi, end |-> Total(Len(issued)) + w.size]
    <2>1. b \in Block
      BY NewBlock
    <2>2. /\ blocks' = Append(bs, b)
          /\ blocksQueueSize' = n + w.size
          /\ cacheSize' = cacheSize + w.size
          /\ issued' = Append(issued, b)
          /\ timer' = "armed"
      BY DEF Emplace
    <2>3. w.size \in Nat
      BY AsyncClientAssumption
    <2> HIDE DEF b
    <2>4. Append(bs, b) \in Seq(Block) /\ Append(issued, b) \in Seq(Block)
      BY <2>1, AppendProperties DEF TypeOK
    <2>5. n + w.size \in Nat /\ cacheSize + w.size \in Int
      <3>1. cacheSize \in Int
        BY DEF TypeOK
      <3> QED
        BY ONLY n \in Nat, <2>3, <3>1, SMT
    <2> QED
      BY <2>2, <2>4, <2>5
  \* A step of the call under way replaces its record by another one.
  <1>ActiveUpdate.
      ASSUME TypeOK, SchedulerInv, NEW i \in DOMAIN active, NEW d \in CallData,
             active' = [active EXCEPT ![i] = d]
      PROVE  active' \in Seq(CallData) /\ active' # <<>> /\ Len(active') = 1 /\ active'[1] = d
    <2> USE <1>ActiveUpdate
    <2>1. active \in Seq(CallData) /\ i = 1 /\ Len(active) = 1
      BY ActiveOne DEF TypeOK
    <2>2. i \in 1 .. Len(active)
      BY <2>1, SMT
    <2>3. active' \in Seq(CallData) /\ Len(active') = 1 /\ active'[1] = d
      <3>1. \A seq \in Seq(CallData) : \A k \in 1 .. Len(seq) :
              /\ [seq EXCEPT ![k] = d] \in Seq(CallData)
              /\ Len([seq EXCEPT ![k] = d]) = Len(seq)
              /\ [seq EXCEPT ![k] = d][k] = d
        BY ExceptSeq, SMT
      <3> QED
        BY <2>1, <2>2, <3>1
    <2>4. active' # <<>>
      BY <2>3, EmptySeq, SMT
    <2> QED
      BY <2>3, <2>4
  \* schedule_flush under the inductive invariant.
  <1>ScheduleType.
      ASSUME IndInv, NEW w \in Waiters \cup {Nobody}, ScheduleFlush(w)
      PROVE  /\ calls' \in Seq(Call)
             /\ channel' \in Seq(Event)
             /\ future' \in [Waiters -> {"none", "pending", "true", "false"}]
             /\ span' \in [Waiters -> [from : Nat, upto : Nat]]
    <2> USE <1>ScheduleType
    <2>1. Len(blocks) <= Len(issued)
      BY SMT DEF IndInv, TypeOK, QueuesInv, Segment, Taken
    <2> QED
      BY <2>1, <1>ScheduleFlushType DEF IndInv, Call, Event
  \* send_block puts a well typed request on the stream.
  <1>SendBlockType.
      ASSUME IndInv, NEW c \in CallData, active # <<>>, c = active[1], NEW n \in DOMAIN c.blocks
      PROVE  /\ SendBlock(c, n) \in CallData
             /\ n \in 1 .. Len(c.blocks)
             /\ [blocks |-> SubSeq(c.blocks, 1, n), upto |-> c.upto - Len(c.blocks) + n] \in Request
    <2> USE <1>SendBlockType
    <2>1. n \in 1 .. Len(c.blocks) /\ c.blocks \in Seq(Block)
      BY SMT DEF CallData
    <2>2. c.upto - Len(c.blocks) \in Nat
      BY <2>1 DEF IndInv, QueuesInv, Segment, CallData, Popped
    <2>3. SubSeq(c.blocks, 1, n) \in Seq(Block)
      BY <2>1, SubSeqProperties, ElementOfSeq, SMT
    <2> DEFINE r == [blocks |-> SubSeq(c.blocks, 1, n), upto |-> c.upto - Len(c.blocks) + n]
    <2>4. r \in Request
      BY <2>1, <2>2, <2>3, SMT DEF Request
    <2>5. SendBlock(c, n) = [c EXCEPT !.status = "WRITE", !.sent = n,
                               !.stream = IF c.broken THEN @ ELSE Append(@, r)]
      BY DEF SendBlock
    <2> HIDE DEF r
    <2>6. Append(c.stream, r) \in Seq(Request)
      BY <2>4, SMT DEF CallData
    <2> DEFINE st == IF c.broken THEN c.stream ELSE Append(c.stream, r)
    <2>7. st \in Seq(Request) /\ n \in Nat
      BY <2>1, <2>6, SMT DEF CallData
    <2>8. SendBlock(c, n) = [c EXCEPT !.status = "WRITE", !.sent = n, !.stream = st]
      BY <2>5 DEF CallData
    <2> HIDE DEF st
    <2>9. SendBlock(c, n) \in CallData
      BY <2>7, <2>8 DEF CallData
    <2> QED
      BY <2>1, <2>4, <2>9 DEF r
  <1> SUFFICES ASSUME IndInv, [Next]_vars PROVE TypeOK'
    OBVIOUS
  <1> USE DEF threadVars, clientVars, faultVars, Call, Event
  <1>0. TypeOK /\ SchedulerInv /\ CallInv /\ OwnerInv
    BY DEF IndInv
  <1>e. <<>> \in Seq(Block) /\ <<>> \in Seq(Request) /\ <<>> \in Seq(CallData)
    BY EmptySeq
  <1>1. ASSUME NEW t \in Threads, NEW w \in Shapes, Write(t, w) PROVE TypeOK'
    <2>1. Emplace(blocks, blocksQueueSize, w)
      BY <1>1 DEF Write
    <2>2. blocks \in Seq(Block) /\ blocksQueueSize \in Nat
      BY <1>0 DEF TypeOK
    <2> QED
      BY <1>0, <1>1, <2>1, <2>2, <1>EmplaceType DEF TypeOK, Write
  <1>2. ASSUME NEW t \in Threads, NEW w \in Shapes, WriteAndSchedule(t, w) PROVE TypeOK'
    <2>1. Emplace(<<>>, 0, w) /\ ScheduleFlush(Nobody)
      BY <1>2 DEF WriteAndSchedule
    <2>2. <<>> \in Seq(Block)
      BY SMT
    <2> QED
      BY <1>0, <1>2, <2>1, <2>2, <1>EmplaceType, <1>ScheduleType DEF TypeOK, WriteAndSchedule
  <1>3. ASSUME NEW t \in Threads, NEW w \in Shapes, WriteFull(t, w) PROVE TypeOK'
    <2>1. ScheduleFlush(t) /\ t \in Waiters
      BY <1>3 DEF WriteFull, Waiters
    <2> QED
      BY <1>0, <1>e, <1>3, <2>1, <1>ScheduleType DEF TypeOK, WriteFull
  <1>4. ASSUME NEW t \in Threads, WriteResume(t) PROVE TypeOK'
    <2>1. Emplace(blocks, blocksQueueSize, arg[t]) /\ arg[t] \in Shapes
      BY <1>0, <1>4 DEF WriteResume, OwnerInv
    <2>2. blocks \in Seq(Block) /\ blocksQueueSize \in Nat
      BY <1>0 DEF TypeOK
    <2>3. t \in Waiters /\ NoSpan \in [from : Nat, upto : Nat]
      BY DEF Waiters, NoSpan
    <2> QED
      BY <1>0, <1>4, <2>1, <2>2, <2>3, <1>EmplaceType DEF TypeOK, WriteResume
  <1>5. ASSUME NEW t \in Threads, Flush(t) PROVE TypeOK'
    <2>1. ScheduleFlush(t) /\ t \in Waiters
      BY <1>5 DEF Flush, Waiters
    <2>2. pc' \in [Threads -> {"idle", "full", "drain", "rpc"}] /\ flushes' \in Nat
      BY <1>0, <1>5, SMT DEF TypeOK, Flush
    <2>3. blocks' \in Seq(Block) /\ blocksQueueSize' \in Nat
      BY <1>e, <1>5 DEF Flush
    <2> QED
      BY <1>0, <1>e, <1>5, <2>1, <2>2, <2>3, <1>ScheduleType DEF TypeOK, Flush
  <1>6. ASSUME NEW t \in Threads, FlushDrained(t) PROVE TypeOK'
    BY <1>0, <1>6 DEF TypeOK, FlushDrained
  <1>7. ASSUME NEW t \in Threads, FlushRPC(t) PROVE TypeOK'
    <2>1. t \in Waiters /\ NoSpan \in [from : Nat, upto : Nat]
      BY DEF Waiters, NoSpan
    <2> QED
      BY <1>0, <1>7, <2>1 DEF TypeOK, FlushRPC
  <1>8. CASE OnCallEnded
    <2>1. Tail(channel) \in Seq(Event)
      BY <1>0, <1>8, HeadTailProperties DEF TypeOK, OnCallEnded
    <2>2. CASE calls = <<>>
      BY <1>0, <1>8, <2>1, <2>2 DEF TypeOK, OnCallEnded
    <2>3. CASE calls # <<>>
      <3>1. active = <<>>
        <4>1. channel[1] = "CALL_ENDED" /\ 1 \in 1 .. Len(channel)
          BY <1>0, <1>8, SMT DEF OnCallEnded, TypeOK
        <4> QED
          BY <1>0, <4>1 DEF SchedulerInv, Has, TypeOK
      <3>2. StartNext(Tail(channel))
        BY <1>8, <2>3 DEF OnCallEnded
      <3> QED
        BY <1>0, <1>8, <2>1, <2>3, <3>1, <3>2, StartNextType DEF TypeOK, OnCallEnded
    <2> QED
      BY <2>2, <2>3
  <1>9. CASE OnFlushRequest
    <2>1. Tail(channel) \in Seq(Event)
      BY <1>0, <1>9, HeadTailProperties DEF TypeOK, OnFlushRequest
    <2>2. CASE calls = <<>> \/ flushing
      BY <1>0, <1>9, <2>1, <2>2 DEF TypeOK, OnFlushRequest
    <2>3. CASE calls # <<>> /\ ~ flushing
      <3>1. active = <<>>
        BY <1>0, <2>3 DEF SchedulerInv
      <3>2. StartNext(Tail(channel))
        BY <1>9, <2>3 DEF OnFlushRequest
      <3> QED
        BY <1>0, <1>9, <2>1, <2>3, <3>1, <3>2, StartNextType DEF TypeOK, OnFlushRequest
    <2> QED
      BY <2>2, <2>3
  <1>10. CASE OnTerminated
    <2>1. Tail(channel) \in Seq(Event)
      BY <1>0, <1>10, HeadTailProperties DEF TypeOK, OnTerminated
    <2>2. Append(Tail(channel), "TERMINATED") \in Seq(Event) /\ <<>> \in Seq(Event)
      BY <2>1, SMT
    <2> QED
      BY <1>0, <1>10, <2>2 DEF TypeOK, OnTerminated
  <1>11. ASSUME NEW i \in DOMAIN active, ProceedCreate(i) \/ ProceedWrite(i) PROVE TypeOK'
    <2>1. i = 1 /\ active[i] \in CallData /\ active # <<>>
      BY <1>0, ActiveOne
    <2>2. PICK n \in DOMAIN active[i].blocks :
                 active' = [active EXCEPT ![i] = SendBlock(active[i], n)]
      BY <1>11 DEF ProceedCreate, ProceedWrite
    <2>3. SendBlock(active[i], n) \in CallData
      BY <2>1, <1>SendBlockType
    <2>4. active' \in Seq(CallData)
      BY <1>0, <2>2, <2>3, <1>ActiveUpdate
    <2> QED
      BY <1>0, <1>11, <2>4 DEF TypeOK, ProceedCreate, ProceedWrite
  <1>12. ASSUME NEW i \in DOMAIN active, ProceedPop(i) PROVE TypeOK'
    <2> DEFINE c == active[i]
               d == [c EXCEPT !.blocks = Tail(@), !.sent = @ - 1]
    <2>1. i = 1 /\ c \in CallData /\ active # <<>>
      BY <1>0, ActiveOne
    <2>2. c.blocks \in Seq(Block) /\ c.blocks # <<>> /\ c.sent \in Nat /\ c.sent > 0
      BY <1>0, <1>12, <2>1, SMT DEF ProceedPop, CallInv, CallData
    <2>3. d \in CallData
      <3>1. Tail(c.blocks) \in Seq(Block) /\ c.sent - 1 \in Nat
        BY <2>2, HeadTailProperties, SMT
      <3> QED
        BY <2>1, <3>1 DEF CallData
    <2>4. active' = [active EXCEPT ![i] = d]
      BY <1>12 DEF ProceedPop
    <2>5. Head(c.blocks) \in Block
      BY <2>2, HeadTailProperties
    <2>6. Head(c.blocks).size \in Nat
      BY <2>5, AsyncClientAssumption DEF Block
    <2>7. cacheSize' \in Int
      <3>1. cacheSize' = cacheSize - Head(c.blocks).size
        BY <1>12 DEF ProceedPop
      <3>2. cacheSize \in Int
        BY <1>0 DEF TypeOK
      <3> QED
        BY <2>6, <3>1, <3>2, SMT
    <2> HIDE DEF d
    <2>8. active' \in Seq(CallData)
      BY <1>0, <2>3, <2>4, <1>ActiveUpdate
    <2> QED
      BY <1>0, <1>12, <2>7, <2>8 DEF TypeOK, ProceedPop
  <1>13. ASSUME NEW i \in DOMAIN active, ProceedLast(i) \/ ProceedWritesDone(i) \/ ServerFinish(i)
         PROVE TypeOK'
    <2>1. active[i] \in CallData
      BY <1>0, ActiveOne
    <2>2. \E d \in CallData : active' = [active EXCEPT ![i] = d]
      BY <1>13, <2>1 DEF ProceedLast, ProceedWritesDone, ServerFinish, CallData
    <2>3. active' \in Seq(CallData)
      BY <1>0, <2>2, <1>ActiveUpdate
    <2> QED
      BY <1>0, <1>13, <2>3 DEF TypeOK, ProceedLast, ProceedWritesDone, ServerFinish
  <1>14. ASSUME NEW i \in DOMAIN active, ProceedFinished(i) PROVE TypeOK'
    <2>1. active[i] \in CallData
      BY <1>0, ActiveOne
    <2>2. active' \in Seq(CallData)
      BY <1>0, <1>e, <1>14, ActiveRemove DEF ProceedFinished
    <2>3. future' \in [Waiters -> {"none", "pending", "true", "false"}]
      BY <1>0, <1>14, <2>1 DEF ProceedFinished, Resolve, TypeOK, CallData
    <2>4. channel' \in Seq(Event)
      BY <1>0, <1>14, SMT DEF ProceedFinished, TypeOK
    <2> QED
      BY <1>0, <1>14, <2>2, <2>3, <2>4 DEF TypeOK, ProceedFinished
  <1>15. ASSUME NEW i \in DOMAIN active, NEW fails \in BOOLEAN, ServerWrite(i, fails) PROVE TypeOK'
    <2> DEFINE c == active[i]
               d == [c EXCEPT !.stream = Tail(@)]
    <2>1. c \in CallData
      BY <1>0, ActiveOne
    <2>2. Head(c.stream) \in Request /\ Tail(c.stream) \in Seq(Request)
      BY <1>15, <2>1, HeadTailProperties DEF ServerWrite, CallData
    <2>3. d \in CallData /\ active' = [active EXCEPT ![i] = d]
      BY <1>15, <2>1, <2>2 DEF ServerWrite, CallData
    <2>4. applied \o Head(c.stream).blocks \in Seq(Block)
      BY <1>0, <2>2, ConcatProperties DEF TypeOK, Request
    <2>5. applied' \in Seq(Block) /\ errors' \in Nat
      <3>1. \/ applied' = applied \o Head(c.stream).blocks /\ errors' = errors
            \/ applied' = applied /\ errors' = errors + 1
        BY <1>15 DEF ServerWrite
      <3>2. applied \in Seq(Block) /\ errors \in Nat
        BY <1>0 DEF TypeOK
      <3>3. applied' \in Seq(Block)
        BY <2>4, <3>1, <3>2, Zenon
      <3>4. errors' \in Nat
        BY <3>1, <3>2, SMT
      <3> QED
        BY <3>3, <3>4
    <2> HIDE DEF d
    <2>6. active' \in Seq(CallData)
      BY <1>0, <2>3, <1>ActiveUpdate
    <2> QED
      BY <1>0, <1>15, <2>5, <2>6 DEF TypeOK, ServerWrite
  <1>16. ASSUME NEW i \in DOMAIN active, NEW k \in 0 .. Len(active[i].stream), StreamBreak(i, k)
         PROVE TypeOK'
    <2> DEFINE c == active[i]
               d == [c EXCEPT !.broken = TRUE, !.stream = <<>>]
    <2>1. c \in CallData
      BY <1>0, ActiveOne
    <2>2. d \in CallData
      BY <1>e, <2>1 DEF CallData
    <2>3. active' = [active EXCEPT ![i] = d]
      BY <1>16 DEF StreamBreak
    <2>4. SubSeq(c.stream, 1, k) \in Seq(Request)
      <3>1. c.stream \in Seq(Request) /\ k \in 0 .. Len(c.stream)
        BY <2>1 DEF CallData
      <3> QED
        BY <3>1, SubSeqProperties, ElementOfSeq, SMT
    <2>5. late' \in Seq(Seq(Request)) /\ breaks' \in Nat
      <3>1. late' = Append(late, SubSeq(c.stream, 1, k)) /\ breaks' = breaks + 1
        BY <1>16 DEF StreamBreak
      <3>2. late \in Seq(Seq(Request)) /\ breaks \in Nat
        BY <1>0 DEF TypeOK
      <3>3. late' \in Seq(Seq(Request))
        BY <2>4, <3>1, <3>2, AppendProperties
      <3> QED
        BY <3>1, <3>2, <3>3, SMT
    <2> HIDE DEF d
    <2>6. active' \in Seq(CallData)
      BY <1>0, <2>2, <2>3, <1>ActiveUpdate
    <2> QED
      BY <1>0, <1>16, <2>5, <2>6 DEF TypeOK, StreamBreak
  <1>17. ASSUME NEW j \in DOMAIN late, ServerLateWrite(j) PROVE TypeOK'
    <2>1. late \in Seq(Seq(Request)) /\ late[j] \in Seq(Request)
      BY <1>0, ElementOfSeq, SMT DEF TypeOK
    <2>2. Head(late[j]) \in Request /\ Tail(late[j]) \in Seq(Request)
      BY <1>17, <2>1, HeadTailProperties DEF ServerLateWrite
    <2>3. applied' \in Seq(Block)
      BY <1>0, <1>17, <2>2, ConcatProperties DEF TypeOK, ServerLateWrite, Request
    <2>4. late' \in Seq(Seq(Request))
      BY <1>17, <2>1, <2>2, ExceptSeq, SMT DEF ServerLateWrite
    <2> QED
      BY <1>0, <1>17, <2>3, <2>4 DEF TypeOK, ServerLateWrite
  <1>18. CASE TimerExpire
    BY <1>0, <1>18 DEF TypeOK, TimerExpire
  <1>19. CASE TimerHandler
    BY <1>0, <1>e, <1>19, <1>ScheduleType DEF TypeOK, TimerHandler
  <1>20. CASE Destroy
    <2>1. Dtor \in Waiters
      BY DEF Waiters
    <2> QED
      BY <1>0, <1>e, <1>20, <2>1, <1>ScheduleType DEF TypeOK, Destroy
  <1>21. CASE DestroySend
    BY <1>0, <1>21, SMT DEF TypeOK, DestroySend
  <1>22. CASE DestroyJoin \/ DestroyStop
    BY <1>0, <1>22 DEF TypeOK, DestroyJoin, DestroyStop
  <1>23. CASE UNCHANGED vars
    BY <1>0, <1>23 DEF TypeOK, vars
  <1> QED
    BY <1>1, <1>2, <1>3, <1>4, <1>5, <1>6, <1>7, <1>8, <1>9, <1>10, <1>11, <1>12, <1>13,
       <1>14, <1>15, <1>16, <1>17, <1>18, <1>19, <1>20, <1>21, <1>22, <1>23
    DEF Next, Thread, Scheduler, Proceed, Server, Faults, Destructor, Destroyed

-----------------------------------------------------------------------------
(* Steps grouped by what they do.                                          *)

\* What a step of the call under way leaves alone: everything of the client but
\* the call and the byte counter.
LEMMA CallStepFrame ==
  ASSUME IndInv, NEW i \in DOMAIN active, CallStep(i)
  PROVE  /\ i = 1 /\ Len(active) = 1 /\ active # <<>> /\ active[1] \in CallData
         /\ Len(active') = 1 /\ active' # <<>>
         /\ UNCHANGED <<pc, arg, mtxBlocks, blocks, blocksQueueSize, issued, calls, channel,
                        flushing, scheduler, dtor, future, span>>
  <1>1. i = 1 /\ Len(active) = 1 /\ active # <<>> /\ active[1] \in CallData
    BY ActiveOne DEF IndInv
  <1>2. /\ \E d : active' = [active EXCEPT ![i] = d]
        /\ UNCHANGED <<pc, arg, mtxBlocks, blocks, blocksQueueSize, issued, calls, channel,
                       flushing, scheduler, dtor, future, span>>
    BY DEF CallStep, ProceedCreate, ProceedPop, ProceedWrite, ProceedLast,
           ProceedWritesDone, ServerWrite, ServerFinish, StreamBreak,
           threadVars, clientVars, faultVars
  <1>3. active \in Seq(CallData)
    BY DEF IndInv, TypeOK
  <1>4. Len(active') = 1
    BY <1>1, <1>2, <1>3, SMT
  <1>5. active' # <<>>
    BY <1>4, SMT
  <1> QED
    BY <1>1, <1>2, <1>4, <1>5

\* Every step keeps the scheduler's invariant.
LEMMA SchedulerStep == IndInv /\ [Next]_vars => SchedulerInv'
  \* schedule_flush keeps the scheduler's invariant: it adds a FLUSH_REQUEST.
  <1>ScheduleEvent.
      ASSUME IndInv, NEW w, ScheduleFlush(w), UNCHANGED <<active, flushing, scheduler>>
      PROVE  SchedulerInv'
    <2> USE <1>ScheduleEvent
    <2>1. channel \in Seq(Event) /\ channel' = Append(channel, "FLUSH_REQUEST")
      BY DEF IndInv, TypeOK, Event, ScheduleFlush
    <2>2. /\ Has(channel', "CALL_ENDED") <=> Has(channel, "CALL_ENDED")
          /\ Has(channel', "FLUSH_REQUEST")
          /\ AtMostOnce(channel, "CALL_ENDED") => AtMostOnce(channel', "CALL_ENDED")
      BY <2>1, AppendEvent DEF Event
    <2> QED
      BY <2>2 DEF IndInv, SchedulerInv
  \* Starting a call keeps the scheduler's invariant: the call is under way, or its
  \* CALL_ENDED is in the channel.
  <1>StartEvent.
      ASSUME IndInv, active = <<>>, calls # <<>>, channel # <<>>,
             ~ Has(Tail(channel), "CALL_ENDED"), StartNext(Tail(channel)), UNCHANGED scheduler
      PROVE  SchedulerInv'
    <2> USE <1>StartEvent
    <2>1. TypeOK /\ SchedulerInv /\ Tail(channel) \in Seq(Event)
      BY TailEvent DEF IndInv, TypeOK, Event
    <2>2. flushing' = TRUE
      BY DEF StartNext
    <2>3. CASE Head(calls).blocks = <<>>
      <3>1. channel' = Append(Tail(channel), "CALL_ENDED") /\ active' = <<>>
        BY <2>3 DEF StartNext
      <3>2. AtMostOnce(Tail(channel), "CALL_ENDED")
        BY DEF Has, AtMostOnce
      <3>3. Has(channel', "CALL_ENDED") /\ AtMostOnce(channel', "CALL_ENDED")
        BY <2>1, <3>1, <3>2, AppendEvent DEF Event
      <3> QED
        BY <2>2, <3>1, <3>3 DEF SchedulerInv
    <2>4. CASE Head(calls).blocks # <<>>
      <3>1. channel' = Tail(channel) /\ active' = <<NewCall(Head(calls))>>
        BY <2>1, <2>4, StartNextType
      <3>2. active' # <<>> /\ Len(active') = 1
        BY <3>1
      <3>3. AtMostOnce(channel', "CALL_ENDED") /\ ~ Has(channel', "CALL_ENDED")
        BY <3>1 DEF Has, AtMostOnce
      <3> QED
        BY <2>2, <3>2, <3>3 DEF SchedulerInv
    <2> QED
      BY <2>3, <2>4
  <1> SUFFICES ASSUME IndInv, [Next]_vars PROVE SchedulerInv'
    OBVIOUS
  <1> USE DEF threadVars, clientVars, faultVars
  <1>0. TypeOK /\ SchedulerInv /\ channel \in Seq(Event)
    BY DEF IndInv, TypeOK, Event
  <1>1. CASE UNCHANGED <<calls, active, channel, flushing, scheduler>>
    BY <1>0, <1>1 DEF SchedulerInv, Has, AtMostOnce
  <1>2. ASSUME NEW w, ScheduleFlush(w), UNCHANGED <<active, flushing, scheduler>>
        PROVE  SchedulerInv'
    BY <1>2, <1>ScheduleEvent
  <1>3. ASSUME NEW i \in DOMAIN active, CallStep(i) PROVE SchedulerInv'
    BY <1>0, <1>3, CallStepFrame DEF SchedulerInv, Has, AtMostOnce
  <1>4. ASSUME NEW i \in DOMAIN active, ProceedFinished(i) PROVE SchedulerInv'
    <2>1. active # <<>> /\ active' = <<>> /\ channel' = Append(channel, "CALL_ENDED")
          /\ UNCHANGED <<calls, flushing, scheduler>>
      BY <1>0, <1>4, ActiveOne, ActiveRemove DEF ProceedFinished
    <2>2. flushing /\ ~ Has(channel, "CALL_ENDED")
      BY <1>0, <2>1 DEF SchedulerInv, TypeOK
    <2>3. Has(channel', "CALL_ENDED") /\ AtMostOnce(channel', "CALL_ENDED")
      BY <1>0, <2>1, <2>2, AppendEvent DEF SchedulerInv, Event
    <2> QED
      BY <2>1, <2>2, <2>3 DEF SchedulerInv
  <1>5. CASE OnCallEnded
    <2>1. channel # <<>> /\ Has(channel, "CALL_ENDED") /\ ~ Has(Tail(channel), "CALL_ENDED")
      BY <1>0, <1>5, TailEvent DEF OnCallEnded, SchedulerInv
    <2>2. active = <<>>
      BY <1>0, <2>1 DEF SchedulerInv, TypeOK
    <2>3. CASE calls # <<>>
      BY <1>0, <1>5, <2>1, <2>2, <2>3, <1>StartEvent DEF OnCallEnded
    <2>4. CASE calls = <<>>
      <3>1. channel' = Tail(channel) /\ ~ flushing' /\ UNCHANGED <<calls, active>>
        BY <1>5, <2>4 DEF OnCallEnded
      <3>2. AtMostOnce(channel', "CALL_ENDED")
        BY <1>0, <2>1, <3>1, TailEvent DEF SchedulerInv
      <3> QED
        BY <2>1, <2>2, <2>4, <3>1, <3>2 DEF SchedulerInv
    <2> QED
      BY <2>3, <2>4
  <1>6. CASE OnFlushRequest
    <2>1. channel # <<>> /\ Head(channel) = "FLUSH_REQUEST"
      BY <1>6 DEF OnFlushRequest
    <2>2. Has(Tail(channel), "CALL_ENDED") <=> Has(channel, "CALL_ENDED")
      BY <1>0, <2>1, TailEvent
    <2>3. CASE calls # <<>> /\ ~ flushing
      <3>1. active = <<>> /\ ~ Has(Tail(channel), "CALL_ENDED")
        BY <1>0, <2>2, <2>3 DEF SchedulerInv
      <3> QED
        BY <1>0, <1>6, <2>1, <2>3, <3>1, <1>StartEvent DEF OnFlushRequest
    <2>4. CASE calls = <<>> \/ flushing
      <3>1. channel' = Tail(channel) /\ UNCHANGED <<calls, active, flushing, scheduler>>
        BY <1>6, <2>4 DEF OnFlushRequest
      <3>2. AtMostOnce(channel', "CALL_ENDED")
        BY <1>0, <2>1, <3>1, TailEvent DEF SchedulerInv
      <3> QED
        BY <1>0, <2>2, <2>4, <3>1, <3>2 DEF SchedulerInv
    <2> QED
      BY <2>3, <2>4
  <1>7. CASE OnTerminated
    <2>1. channel # <<>> /\ Head(channel) = "TERMINATED" /\ UNCHANGED <<calls, active, flushing>>
      BY <1>7 DEF OnTerminated
    <2>2. CASE Tail(channel) # <<>>
      <3>1. channel' = Append(Tail(channel), "TERMINATED") /\ UNCHANGED scheduler
        BY <1>7, <2>2 DEF OnTerminated
      <3>2. \A e \in {"CALL_ENDED", "FLUSH_REQUEST"} : Has(channel', e) <=> Has(channel, e)
        BY <1>0, <2>1, <3>1, TailEvent, AppendEvent DEF Event
      <3>3. AtMostOnce(channel', "CALL_ENDED")
        BY <1>0, <2>1, <3>1, TailEvent, AppendEvent DEF Event, SchedulerInv
      <3> QED
        BY <1>0, <2>1, <3>1, <3>2, <3>3 DEF SchedulerInv
    <2>3. CASE Tail(channel) = <<>>
      <3>1. channel' = <<>> /\ scheduler' = "terminated"
        BY <1>7, <2>3 DEF OnTerminated
      <3>2. ~ Has(channel', "CALL_ENDED") /\ AtMostOnce(channel', "CALL_ENDED")
        BY <3>1, SMT DEF Has, AtMostOnce
      <3>3. ~ Has(channel, "CALL_ENDED")
        <4>1. ~ Has(Tail(channel), "CALL_ENDED")
          <5>1. Len(Tail(channel)) = 0
            BY <1>0, <2>1, <2>3, TailEvent, EmptySeq
          <5> QED
            BY <5>1, SMT DEF Has
        <4> QED
          BY <1>0, <2>1, <4>1, TailEvent
      <3> QED
        BY <1>0, <2>1, <3>1, <3>2, <3>3 DEF SchedulerInv
    <2> QED
      BY <2>2, <2>3
  <1>8. CASE DestroySend
    <2>1. channel' = Append(channel, "TERMINATED") /\ UNCHANGED <<calls, active, flushing, scheduler>>
      BY <1>8 DEF DestroySend
    <2>2. \A e \in {"CALL_ENDED", "FLUSH_REQUEST"} : Has(channel', e) <=> Has(channel, e)
      BY <1>0, <2>1, AppendEvent DEF Event
    <2>3. AtMostOnce(channel', "CALL_ENDED")
      BY <1>0, <2>1, AppendEvent DEF Event, SchedulerInv
    <2> QED
      BY <1>0, <2>1, <2>2, <2>3 DEF SchedulerInv
  <1> QED
    <2>1. ASSUME NEW t \in Threads, Thread(t) PROVE SchedulerInv'
      BY <1>1, <1>2, <2>1
      DEF Thread, Write, WriteAndSchedule, WriteFull, WriteResume, Flush, FlushDrained, FlushRPC
    <2>2. CASE TimerExpire \/ TimerHandler \/ Destructor
      BY <1>1, <1>2, <1>8, <2>2
      DEF TimerExpire, TimerHandler, Destructor, Destroy, DestroyJoin, DestroyStop
    <2>3. ASSUME NEW i \in DOMAIN active, Proceed(i) \/ Server(i) PROVE SchedulerInv'
      BY <1>3, <1>4, <2>3 DEF Proceed, Server, CallStep
    <2>4. CASE Faults
      BY <1>3, <2>4 DEF Faults, CallStep
    <2>5. ASSUME NEW j \in DOMAIN late, ServerLateWrite(j) PROVE SchedulerInv'
      BY <1>1, <2>5 DEF ServerLateWrite
    <2>6. CASE UNCHANGED vars
      BY <1>1, <2>6 DEF vars
    <2> QED
      BY <1>5, <1>6, <1>7, <2>1, <2>2, <2>3, <2>4, <2>5, <2>6
      DEF Next, Scheduler, Destroyed

-----------------------------------------------------------------------------
(* The stages of a call, and the queues.                                   *)

\* CALL_ENDED and FLUSH_REQUEST: a call is started only when none is under way.
LEMMA SchedulerCases ==
  ASSUME IndInv, OnCallEnded \/ OnFlushRequest
  PROVE  /\ channel # <<>>
         /\ UNCHANGED <<pc, arg, mtxBlocks, blocks, blocksQueueSize, cacheSize, issued, dtor,
                        applied, late, breaks, errors, span>>
         /\ \/ StartStep
            \/ channel' = Tail(channel) /\ UNCHANGED <<calls, active, future>>
  <1>0. TypeOK /\ SchedulerInv /\ channel \in Seq(Event)
    BY DEF IndInv, TypeOK, Event
  <1> USE DEF threadVars, clientVars, faultVars
  <1>1. CASE OnCallEnded
    <2>1. channel # <<>> /\ Has(channel, "CALL_ENDED")
      BY <1>0, <1>1, TailEvent DEF OnCallEnded
    <2>2. active = <<>>
      BY <1>0, <2>1 DEF SchedulerInv, TypeOK
    <2> QED
      BY <1>1, <2>1, <2>2 DEF OnCallEnded, StartStep
  <1>2. CASE OnFlushRequest
    <2>1. ~ flushing => active = <<>>
      BY <1>0 DEF SchedulerInv
    <2> QED
      BY <1>2, <2>1 DEF OnFlushRequest, StartStep
  <1> QED
    BY <1>1, <1>2

\* The first call of calls_ ends at once or is the call under way.
LEMMA StartStepCalls ==
  ASSUME IndInv, StartStep, channel # <<>>
  PROVE  /\ Head(calls) = calls[1] /\ calls[1] \in Call /\ calls' = Tail(calls)
         /\ \/ /\ calls[1].blocks = <<>>
               /\ active' = <<>>
               /\ Resolve(calls[1].waiter, TRUE)
            \/ /\ calls[1].blocks # <<>>
               /\ active' # <<>>
               /\ active' = <<NewCall(calls[1])>>
               /\ active'[1] = NewCall(calls[1])
               /\ future' = future
  <1>1. TypeOK /\ SchedulerInv /\ Tail(channel) \in Seq(Event)
    BY TailEvent DEF IndInv, TypeOK, Event
  <1>2. calls \in Seq(Call) /\ calls # <<>> /\ active = <<>> /\ StartNext(Tail(channel))
    BY <1>1 DEF TypeOK, Call, StartStep
  <1>3. Head(calls) = calls[1] /\ Head(calls) \in Call /\ calls' = Tail(calls)
    BY <1>2, HeadTailProperties, SMT DEF StartNext
  <1>4. \/ /\ Head(calls).blocks = <<>>
           /\ active' = <<>>
           /\ Resolve(Head(calls).waiter, TRUE)
        \/ /\ Head(calls).blocks # <<>>
           /\ active' = <<NewCall(Head(calls))>>
           /\ future' = future
    BY <1>1, <1>2, StartNextType
  <1>5. ASSUME NEW x PROVE <<x>> # <<>> /\ <<x>>[1] = x
    OBVIOUS
  <1> QED
    BY <1>3, <1>4, <1>5

\* Every step keeps the stages of the call under way.
LEMMA CallInvStep == IndInv /\ [Next]_vars => CallInv'
  <1> SUFFICES ASSUME IndInv, [Next]_vars PROVE CallInv'
    OBVIOUS
  <1> USE DEF threadVars, clientVars, faultVars
  <1>0. TypeOK /\ SchedulerInv /\ CallInv
    BY DEF IndInv
  <1>1. CASE UNCHANGED active \/ active' = <<>>
    BY <1>0, <1>1 DEF CallInv
  <1>2. ASSUME NEW i \in DOMAIN active, CallStep(i) PROVE CallInv'
    <2> DEFINE c == active[1]
    <2>1. i = 1 /\ active # <<>> /\ c \in CallData /\ Len(active) = 1 /\ active \in Seq(CallData)
      BY <1>0, ActiveOne DEF TypeOK
    <2>2. /\ c.sent \in Nat /\ Len(c.blocks) \in Nat /\ c.blocks \in Seq(Block)
          /\ c.sent <= Len(c.blocks)
          /\ c.status = "CREATE" => c.sent = 0 /\ c.blocks # <<>>
          /\ c.status \in {"WRITES_DONE", "FINISHED"} => c.blocks = <<>>
          /\ c.server = "FINISHED" => /\ c.stream = <<>>
                                      /\ c.status \in {"WRITES_DONE", "FINISHED"}
      BY <1>0, <2>1, SMT DEF CallInv, CallData
    <2>3. ASSUME NEW d, active' = [active EXCEPT ![i] = d],
                 d.sent <= Len(d.blocks),
                 d.status = "CREATE" => d.sent = 0 /\ d.blocks # <<>>,
                 d.status \in {"WRITES_DONE", "FINISHED"} => d.blocks = <<>>,
                 d.server = "FINISHED" => /\ d.stream = <<>>
                                          /\ d.status \in {"WRITES_DONE", "FINISHED"}
          PROVE  CallInv'
      <3>1. active'[1] = d
        BY <2>1, <2>3
      <3> QED
        BY <2>3, <3>1 DEF CallInv
    <2>4. CASE ProceedCreate(i) \/ ProceedWrite(i)
      <3>1. PICK n \in DOMAIN c.blocks : active' = [active EXCEPT ![i] = SendBlock(c, n)]
                                         /\ c.status \in {"CREATE", "WRITE"}
        BY <2>1, <2>4 DEF ProceedCreate, ProceedWrite
      <3> DEFINE d == SendBlock(c, n)
      <3>2. d.sent = n /\ d.blocks = c.blocks /\ d.status = "WRITE" /\ d.server = c.server
        BY <2>1 DEF SendBlock, CallData
      <3>3. n <= Len(c.blocks)
        BY <2>2, SMT
      <3> HIDE DEF d
      <3> QED
        BY <2>2, <2>3, <3>1, <3>2, <3>3 DEF d
    <2>5. CASE ProceedPop(i)
      <3> DEFINE d == [c EXCEPT !.blocks = Tail(@), !.sent = @ - 1]
      <3>1. active' = [active EXCEPT ![i] = d] /\ c.status = "WRITE" /\ c.sent > 0
        BY <2>1, <2>5 DEF ProceedPop
      <3>2. /\ d.sent = c.sent - 1 /\ d.blocks = Tail(c.blocks) /\ d.status = "WRITE"
            /\ d.server = c.server
        BY <2>1, <3>1 DEF CallData
      <3>3. c.blocks # <<>>
        BY <2>2, <3>1, SMT
      <3>4. Len(Tail(c.blocks)) = Len(c.blocks) - 1
        BY <2>2, <3>3, SMT
      <3>5. d.sent <= Len(d.blocks)
        BY <2>2, <3>2, <3>4, SMT
      <3> HIDE DEF d
      <3> QED
        BY <2>2, <2>3, <3>1, <3>2, <3>5
    <2>6. CASE ProceedLast(i)
      <3> DEFINE d == [c EXCEPT !.status = "WRITES_DONE"]
      <3>1. active' = [active EXCEPT ![i] = d] /\ c.blocks = <<>>
        BY <2>1, <2>6 DEF ProceedLast
      <3>2. /\ d.sent = c.sent /\ d.blocks = c.blocks /\ d.status = "WRITES_DONE"
            /\ d.server = c.server /\ d.stream = c.stream
        BY <2>1 DEF CallData
      <3> HIDE DEF d
      <3> QED
        BY <2>2, <2>3, <3>1, <3>2
    <2>7. CASE ProceedWritesDone(i)
      <3> DEFINE d == [c EXCEPT !.status = "FINISHED"]
      <3>1. active' = [active EXCEPT ![i] = d] /\ c.status = "WRITES_DONE"
        BY <2>1, <2>7 DEF ProceedWritesDone
      <3>2. /\ d.sent = c.sent /\ d.blocks = c.blocks /\ d.status = "FINISHED"
            /\ d.server = c.server /\ d.stream = c.stream
        BY <2>1 DEF CallData
      <3> HIDE DEF d
      <3> QED
        BY <2>2, <2>3, <3>1, <3>2
    <2>8. ASSUME NEW fails \in BOOLEAN, ServerWrite(i, fails) PROVE CallInv'
      <3> DEFINE d == [c EXCEPT !.stream = Tail(@)]
      <3>1. active' = [active EXCEPT ![i] = d] /\ c.server = "READ"
        BY <2>1, <2>8 DEF ServerWrite
      <3>2. /\ d.sent = c.sent /\ d.blocks = c.blocks /\ d.status = c.status
            /\ d.server = c.server
        BY <2>1 DEF CallData
      <3> HIDE DEF d
      <3> QED
        BY <2>2, <2>3, <3>1, <3>2
    <2>9. CASE ServerFinish(i)
      <3> DEFINE d == [c EXCEPT !.server = "FINISHED"]
      <3>1. /\ active' = [active EXCEPT ![i] = d] /\ c.stream = <<>>
            /\ c.status \in {"WRITES_DONE", "FINISHED"}
        BY <2>1, <2>9 DEF ServerFinish
      <3>2. /\ d.sent = c.sent /\ d.blocks = c.blocks /\ d.status = c.status
            /\ d.stream = c.stream
        BY <2>1 DEF CallData
      <3> HIDE DEF d
      <3> QED
        BY <2>2, <2>3, <3>1, <3>2
    <2>10. ASSUME NEW k \in 0 .. Len(active[i].stream), StreamBreak(i, k) PROVE CallInv'
      <3> DEFINE d == [c EXCEPT !.broken = TRUE, !.stream = <<>>]
      <3>1. active' = [active EXCEPT ![i] = d]
        BY <2>1, <2>10 DEF StreamBreak
      <3>2. /\ d.sent = c.sent /\ d.blocks = c.blocks /\ d.status = c.status
            /\ d.server = c.server /\ d.stream = <<>>
        BY <2>1 DEF CallData
      <3> HIDE DEF d
      <3> QED
        BY <2>2, <2>3, <3>1, <3>2
    <2> QED
      BY <1>2, <2>4, <2>5, <2>6, <2>7, <2>8, <2>9, <2>10 DEF CallStep
  <1>3. ASSUME NEW i \in DOMAIN active, ProceedFinished(i) PROVE CallInv'
    BY <1>0, <1>1, <1>3, ActiveRemove DEF ProceedFinished
  <1>4. CASE OnCallEnded \/ OnFlushRequest
    <2>1. CASE StartStep
      <3>1. \/ active' = <<>>
            \/ calls[1].blocks # <<>> /\ active'[1] = NewCall(calls[1]) /\ calls[1] \in Call
        BY <1>4, <2>1, SchedulerCases, StartStepCalls
      <3> QED
        BY <1>1, <3>1, SMT DEF CallInv, NewCall, Call
    <2> QED
      BY <1>1, <1>4, <2>1, SchedulerCases
  <1> QED
    <2>1. ASSUME NEW t \in Threads, Thread(t) PROVE CallInv'
      BY <1>1, <2>1
      DEF Thread, Write, WriteAndSchedule, WriteFull, WriteResume, Flush, FlushDrained, FlushRPC
    <2>2. CASE OnTerminated \/ TimerExpire \/ TimerHandler \/ Destructor
      BY <1>1, <2>2
      DEF OnTerminated, TimerExpire, TimerHandler, Destructor, Destroy, DestroySend, DestroyJoin,
          DestroyStop
    <2>3. ASSUME NEW i \in DOMAIN active, Proceed(i) \/ Server(i) PROVE CallInv'
      BY <1>2, <1>3, <2>3 DEF Proceed, Server, CallStep
    <2>4. CASE Faults
      BY <1>2, <2>4 DEF Faults, CallStep
    <2>5. ASSUME NEW j \in DOMAIN late, ServerLateWrite(j) PROVE CallInv'
      BY <1>1, <2>5 DEF ServerLateWrite
    <2>6. CASE UNCHANGED vars
      BY <1>1, <2>6 DEF vars
    <2> QED
      BY <1>4, <2>1, <2>2, <2>3, <2>4, <2>5, <2>6 DEF Next, Scheduler, Destroyed

\* What the invariant says of the queues and of the numbers they begin with.
LEMMA QueueFacts ==
  ASSUME IndInv
  PROVE  /\ issued \in Seq(Block) /\ blocks \in Seq(Block) /\ calls \in Seq(Call)
         /\ Len(issued) \in Nat /\ Len(blocks) \in Nat
         /\ Taken \in Nat /\ Popped \in Nat /\ Started \in Nat
         /\ Segment(issued, blocks, Taken, Len(issued))
         /\ active # <<>> => Segment(issued, active[1].blocks, Popped, active[1].upto)
         /\ Chain(issued, calls, Started, Taken)
  <1>1. issued \in Seq(Block) /\ blocks \in Seq(Block) /\ calls \in Seq(Call)
    BY DEF IndInv, TypeOK, Call
  <1>2. Len(issued) \in Nat /\ Len(blocks) \in Nat
    BY <1>1, SMT
  <1>3. /\ Segment(issued, blocks, Taken, Len(issued))
        /\ active # <<>> => Segment(issued, active[1].blocks, Popped, active[1].upto)
        /\ Chain(issued, calls, Started, Taken)
    BY DEF IndInv, QueuesInv
  <1>4. Taken \in Nat /\ Started \in Nat
    BY <1>3 DEF Segment, Chain
  <1>5. Popped \in Nat
    <2>1. CASE active = <<>>
      BY <1>4, <2>1 DEF Started
    <2>2. CASE active # <<>>
      BY <1>3, <2>2 DEF Segment
    <2> QED
      BY <2>1, <2>2
  <1> QED
    BY <1>1, <1>2, <1>3, <1>4, <1>5

\* The queues follow each other when the call under way does not change, whatever
\* was buffered or scheduled.
LEMMA QueuesFrame ==
  ASSUME IndInv, TypeOK', active' = active,
         issued' = issued \/ \E x \in Block : issued' = Append(issued, x),
         Segment(issued', blocks', Taken', Len(issued')),
         Chain(issued', calls', Started, Taken')
  PROVE  QueuesInv' /\ Popped' = Popped
  <1>1. issued' \in Seq(Block) /\ calls' \in Seq(Call)
    BY DEF TypeOK, Call
  <1>2. CASE active = <<>>
    <2>1. /\ calls' # <<>> => Started = calls'[1].upto - Len(calls'[1].blocks)
          /\ calls' = <<>> => Started = Taken'
      BY <1>1, ChainStart, SMT
    <2>2. Popped' = Popped /\ Started' = Started
      BY <1>2, <2>1 DEF Popped, Started
    <2> QED
      BY <1>2, <2>2 DEF QueuesInv
  <1>3. CASE active # <<>>
    <2>1. Popped' = Popped /\ Started' = Started
      BY <1>3 DEF Popped, Started
    <2>2. Segment(issued, active[1].blocks, Popped, active[1].upto)
          /\ active[1].blocks \in Seq(Block) /\ issued \in Seq(Block)
      <3>1. active[1] \in CallData
        <4>1. active \in Seq(CallData)
          BY DEF IndInv, TypeOK
        <4> QED
          BY <1>3, <4>1, ElementOfSeq, SMT
      <3> QED
        BY <1>3, <3>1, QueueFacts DEF CallData
    <2>3. Segment(issued', active[1].blocks, Popped, active[1].upto)
      BY <2>2, SegmentMore
    <2> QED
      BY <1>3, <2>1, <2>3 DEF QueuesInv
  <1> QED
    BY <1>2, <1>3

\* write() appends one and the same block to the buffer and to the history.
LEMMA EmplaceFacts ==
  ASSUME IndInv, NEW w \in Shapes, NEW bs, NEW n, Emplace(bs, n, w)
  PROVE  \E x \in Block : blocks' = Append(bs, x) /\ issued' = Append(issued, x)
  BY NewBlock DEF IndInv, Emplace

\* write() without a flush keeps the order of the queues.
LEMMA QueuesBuffer ==
  ASSUME IndInv, TypeOK', NEW w \in Shapes, NEW n, Emplace(blocks, n, w),
         UNCHANGED <<calls, active>>
  PROVE  QueuesInv' /\ Popped' = Popped
  <1>1. PICK x \in Block : blocks' = Append(blocks, x) /\ issued' = Append(issued, x)
    BY EmplaceFacts
  <1>2. /\ issued \in Seq(Block) /\ blocks \in Seq(Block) /\ calls \in Seq(Call)
        /\ Len(issued) \in Nat /\ Len(blocks) \in Nat
        /\ Segment(issued, blocks, Taken, Len(issued))
        /\ Chain(issued, calls, Started, Taken)
    BY QueueFacts
  <1>3. Len(issued') = Len(issued) + 1 /\ Len(blocks') = Len(blocks) + 1
    BY <1>1, <1>2, AppendProperties
  <1>4. Taken' = Taken
    BY <1>2, <1>3, SMT DEF Taken
  <1>5. Segment(issued', blocks', Taken', Len(issued'))
    BY <1>1, <1>2, <1>3, <1>4, SegmentAppend
  <1>6. Chain(issued', calls', Started, Taken')
    BY <1>1, <1>2, <1>4, ChainMore, QueueType
  <1> QED
    BY <1>1, <1>5, <1>6, QueuesFrame

\* schedule_flush: the new call begins where calls_ ended and takes all of blocks_.
LEMMA ScheduledChain ==
  ASSUME IndInv, TypeOK', NEW w, ScheduleFlush(w)
  PROVE  Chain(issued, calls', Started, Len(issued))
  <1> DEFINE r == [blocks |-> blocks, upto |-> Len(issued), waiter |-> w]
  <1>1. /\ issued \in Seq(Block) /\ calls \in Seq(Call) /\ Len(calls) \in Nat
        /\ Segment(issued, blocks, Taken, Len(issued))
        /\ Chain(issued, calls, Started, Taken)
    BY QueueFacts, SMT
  <1>2. calls' = Append(calls, r) /\ r.blocks = blocks /\ r.upto = Len(issued)
    BY DEF ScheduleFlush
  <1> HIDE DEF r
  <1>3. r \in Call
    <2>1. calls' \in Seq(Call)
      BY DEF TypeOK, Call
    <2>2. calls'[Len(calls) + 1] = r /\ Len(calls') = Len(calls) + 1
      BY <1>1, <1>2, SMT
    <2>3. Len(calls) + 1 \in 1 .. Len(calls')
      BY <1>1, <2>2, SMT
    <2> QED
      BY <2>1, <2>2, <2>3, ElementOfSeq
  <1> QED
    BY <1>1, <1>2, <1>3, ChainAppend

\* schedule_flush keeps the order of the queues.
LEMMA QueuesSchedule ==
  ASSUME IndInv, TypeOK', NEW w, ScheduleFlush(w), blocks' = <<>>, UNCHANGED <<issued, active>>
  PROVE  QueuesInv' /\ Popped' = Popped
  <1>1. Len(issued) \in Nat /\ Taken' = Len(issued)
    BY QueueFacts, SMT DEF Taken
  <1>2. Segment(issued', blocks', Taken', Len(issued'))
    BY <1>1, SMT DEF Segment
  <1>3. Chain(issued', calls', Started, Taken')
    BY <1>1, ScheduledChain
  <1> QED
    BY <1>2, <1>3, QueuesFrame

\* write() past the threshold keeps the order of the queues.
LEMMA QueuesScheduleBuffer ==
  ASSUME IndInv, TypeOK', NEW v, ScheduleFlush(v), NEW w \in Shapes, NEW n, Emplace(<<>>, n, w),
         UNCHANGED active
  PROVE  QueuesInv' /\ Popped' = Popped
  <1>1. PICK x \in Block : blocks' = Append(<<>>, x) /\ issued' = Append(issued, x)
    BY EmplaceFacts
  <1>2. /\ issued \in Seq(Block) /\ Len(issued) \in Nat
        /\ <<>> \in Seq(Block) /\ Len(<<>>) = 0
    BY QueueFacts, EmptySeq
  <1>3. Len(issued') = Len(issued) + 1 /\ Len(blocks') = 1
    BY <1>1, <1>2, AppendProperties, SMT
  <1>4. Taken' = Len(issued)
    BY <1>2, <1>3, SMT DEF Taken
  <1>5. Segment(issued', blocks', Taken', Len(issued'))
    <2>1. Segment(issued, <<>>, Len(issued), Len(issued))
      BY <1>2, SMT DEF Segment
    <2> QED
      BY <1>1, <1>2, <1>3, <1>4, <2>1, SegmentAppend
  <1>6. Chain(issued', calls', Started, Taken')
    <2>1. calls' \in Seq(Call)
      BY DEF TypeOK, Call
    <2> QED
      BY <1>1, <1>2, <1>4, <2>1, ScheduledChain, ChainMore, QueueType
  <1> QED
    BY <1>1, <1>5, <1>6, QueuesFrame

\* Every step of the call under way is of one of these kinds.
LEMMA CallStepFields ==
  ASSUME IndInv, NEW i \in DOMAIN active, CallStep(i)
  PROVE  LET c == active[1]
             d == active'[1]
         IN  /\ d.upto = c.upto /\ d.waiter = c.waiter
             /\ Sends(c, d) \/ Pops(c, d) \/ Advances(c, d) \/ Applies(c, d) \/ Fails(c, d)
  <1> DEFINE c == active[1]
  <1> USE DEF faultVars, clientVars
  <1>0. TypeOK /\ SchedulerInv /\ CallInv
    BY DEF IndInv
  <1>1. i = 1 /\ active # <<>> /\ c \in CallData /\ Len(active) = 1 /\ active \in Seq(CallData)
    BY <1>0, ActiveOne DEF TypeOK
  <1>2. ASSUME NEW d, active' = [active EXCEPT ![i] = d]
        PROVE  active'[1] = d
    BY <1>1, <1>2
  <1>3. CASE ProceedCreate(i) \/ ProceedWrite(i)
    <2>1. PICK n \in DOMAIN c.blocks : active' = [active EXCEPT ![i] = SendBlock(c, n)]
      BY <1>1, <1>3 DEF ProceedCreate, ProceedWrite
    <2>2. c.sent = 0 /\ UNCHANGED <<cacheSize, applied, late, breaks, errors>>
      BY <1>0, <1>1, <1>3 DEF ProceedCreate, ProceedWrite, CallInv
    <2> DEFINE d == SendBlock(c, n)
    <2>3. /\ d.sent = n /\ d.blocks = c.blocks /\ d.broken = c.broken
          /\ d.upto = c.upto /\ d.waiter = c.waiter
          /\ d.stream = IF c.broken THEN c.stream
                        ELSE Append(c.stream, [blocks |-> SubSeq(c.blocks, 1, n),
                                               upto |-> c.upto - Len(c.blocks) + n])
      BY <1>1 DEF SendBlock, CallData
    <2>4. active'[1] = d
      BY <1>2, <2>1
    <2> HIDE DEF d
    <2> QED
      BY <2>2, <2>3, <2>4 DEF Sends
  <1>4. CASE ProceedPop(i)
    <2> DEFINE d == [c EXCEPT !.blocks = Tail(@), !.sent = @ - 1]
    <2>1. active'[1] = d
      BY <1>1, <1>2, <1>4 DEF ProceedPop
    <2>2. c.sent > 0 /\ UNCHANGED <<applied, late, breaks, errors>>
          /\ cacheSize' = cacheSize - Head(c.blocks).size
      BY <1>1, <1>4 DEF ProceedPop
    <2>3. /\ d.sent = c.sent - 1 /\ d.blocks = Tail(c.blocks) /\ d.stream = c.stream
          /\ d.broken = c.broken /\ d.upto = c.upto /\ d.waiter = c.waiter
      BY <1>1 DEF CallData
    <2> HIDE DEF d
    <2> QED
      BY <2>1, <2>2, <2>3 DEF Pops
  <1>5. CASE ProceedLast(i) \/ ProceedWritesDone(i) \/ ServerFinish(i)
    <2>1. PICK d \in {[c EXCEPT !.status = "WRITES_DONE"], [c EXCEPT !.status = "FINISHED"],
                      [c EXCEPT !.server = "FINISHED"]} : active' = [active EXCEPT ![i] = d]
      BY <1>1, <1>5 DEF ProceedLast, ProceedWritesDone, ServerFinish
    <2>2. UNCHANGED <<cacheSize, applied, late, breaks, errors>>
      BY <1>5 DEF ProceedLast, ProceedWritesDone, ServerFinish
    <2>3. /\ d.sent = c.sent /\ d.blocks = c.blocks /\ d.stream = c.stream
          /\ d.broken = c.broken /\ d.upto = c.upto /\ d.waiter = c.waiter
      BY <1>1, <2>1 DEF CallData
    <2> QED
      BY <1>2, <2>1, <2>2, <2>3 DEF Advances
  <1>6. ASSUME NEW fails \in BOOLEAN, ServerWrite(i, fails)
        PROVE  LET d == active'[1]
               IN  d.upto = c.upto /\ d.waiter = c.waiter /\ (Applies(c, d) \/ Fails(c, d))
    <2> DEFINE d == [c EXCEPT !.stream = Tail(@)]
    <2>1. active'[1] = d
      BY <1>1, <1>2, <1>6 DEF ServerWrite
    <2>2. /\ c.stream # <<>> /\ cacheSize' = cacheSize
          /\ \/ applied' = applied \o Head(c.stream).blocks /\ UNCHANGED <<late, breaks, errors>>
             \/ applied' = applied /\ errors' = errors + 1
      BY <1>1, <1>6 DEF ServerWrite
    <2>3. /\ d.sent = c.sent /\ d.blocks = c.blocks /\ d.stream = Tail(c.stream)
          /\ d.broken = c.broken /\ d.upto = c.upto /\ d.waiter = c.waiter
      BY <1>1 DEF CallData
    <2> HIDE DEF d
    <2> QED
      BY <2>1, <2>2, <2>3 DEF Applies, Fails
  <1>7. ASSUME NEW k \in 0 .. Len(active[i].stream), StreamBreak(i, k)
        PROVE  LET d == active'[1]
               IN  d.upto = c.upto /\ d.waiter = c.waiter /\ Fails(c, d)
    <2> DEFINE d == [c EXCEPT !.broken = TRUE, !.stream = <<>>]
    <2>1. active'[1] = d
      BY <1>1, <1>2, <1>7 DEF StreamBreak
    <2>2. breaks' = breaks + 1 /\ errors' = errors /\ applied' = applied /\ cacheSize' = cacheSize
      BY <1>7 DEF StreamBreak
    <2>3. /\ d.sent = c.sent /\ d.blocks = c.blocks /\ d.upto = c.upto /\ d.waiter = c.waiter
          /\ d.broken
      BY <1>1 DEF CallData
    <2> HIDE DEF d
    <2> QED
      BY <2>1, <2>2, <2>3 DEF Fails
  <1> QED
    BY <1>3, <1>4, <1>5, <1>6, <1>7 DEF CallStep

\* proceed() and the server keep the order of the queues; only a popped block
\* moves their beginning.
LEMMA QueuesCall ==
  ASSUME IndInv, NEW i \in DOMAIN active, CallStep(i)
  PROVE  /\ QueuesInv'
         /\ Pops(active[1], active'[1]) => Popped' = Popped + 1
         /\ ~ Pops(active[1], active'[1]) => Popped' = Popped
  <1> DEFINE c == active[1]
             d == active'[1]
  <1>1. /\ active # <<>> /\ active' # <<>> /\ UNCHANGED <<blocks, issued, calls>>
        /\ c \in CallData
    BY CallStepFrame
  <1>2. /\ d.upto = c.upto
        /\ Pops(c, d) \/ (~ Pops(c, d) /\ d.blocks = c.blocks)
    BY CallStepFields DEF Sends, Advances, Applies, Fails
  <1>3. /\ Popped \in Nat /\ Segment(issued, c.blocks, Popped, c.upto)
        /\ Chain(issued, calls, Started, Taken) /\ Segment(issued, blocks, Taken, Len(issued))
        /\ issued \in Seq(Block)
    BY <1>1, QueueFacts
  <1>4. c.upto \in Nat /\ c.blocks \in Seq(Block) /\ Len(c.blocks) \in Nat /\ c.sent \in Nat
    BY <1>1, SMT DEF CallData
  <1>5. Popped = c.upto - Len(c.blocks) /\ Popped' = d.upto - Len(d.blocks)
    BY <1>1 DEF Popped
  <1>6. Taken' = Taken /\ Started' = Started
    BY <1>1, <1>2 DEF Taken, Started
  <1> HIDE DEF c, d
  <1>7. CASE ~ Pops(c, d)
    <2>1. Popped' = Popped /\ Segment(issued, d.blocks, Popped, d.upto)
      BY <1>2, <1>3, <1>5, <1>7
    <2> QED
      BY <1>1, <1>3, <1>6, <1>7, <2>1 DEF QueuesInv, d, c
  <1>8. CASE Pops(c, d)
    <2>1. c.sent > 0 /\ d.blocks = Tail(c.blocks)
      BY <1>8 DEF Pops
    <2>2. c.blocks # <<>>
      <3>1. c.sent <= Len(c.blocks)
        BY <1>1 DEF IndInv, CallInv, c
      <3> QED
        BY <1>4, <2>1, <3>1, SMT
    <2>3. Len(d.blocks) = Len(c.blocks) - 1
      BY <1>4, <2>1, <2>2, SMT
    <2>4. Popped' = Popped + 1
      BY <1>2, <1>4, <1>5, <2>3, SMT
    <2>5. Segment(issued, d.blocks, Popped + 1, d.upto)
      BY <1>2, <1>3, <1>4, <2>1, <2>2, SegmentTail
    <2> QED
      BY <1>1, <1>3, <1>6, <1>8, <2>4, <2>5 DEF QueuesInv, d, c
  <1> QED
    BY <1>7, <1>8 DEF c, d

\* end() keeps the order of the queues: all blocks of the call were popped.
LEMMA QueuesFinished ==
  ASSUME IndInv, TypeOK', NEW i \in DOMAIN active, ProceedFinished(i)
  PROVE  QueuesInv' /\ Popped' = Popped
  <1> DEFINE c == active[1]
  <1> USE DEF clientVars
  <1>0. TypeOK /\ SchedulerInv /\ CallInv
    BY DEF IndInv
  <1>1. /\ i = 1 /\ active # <<>> /\ c \in CallData /\ active' = <<>>
        /\ UNCHANGED <<blocks, issued, calls>> /\ c.status = "FINISHED"
    BY <1>0, ActiveOne, ActiveRemove DEF ProceedFinished
  <1>2. c.blocks = <<>>
    BY <1>0, <1>1 DEF CallInv
  <1>3. /\ Popped \in Nat /\ Segment(issued, c.blocks, Popped, c.upto)
        /\ Chain(issued, calls, Started, Taken) /\ Segment(issued, blocks, Taken, Len(issued))
        /\ issued \in Seq(Block) /\ calls \in Seq(Call)
    BY <1>1, QueueFacts
  <1>4. Started = Popped
    <2>1. Started = c.upto
      BY <1>1 DEF Started
    <2> QED
      BY <1>2, <1>3, <2>1, SMT DEF Segment
  <1>5. /\ calls # <<>> => Started = calls[1].upto - Len(calls[1].blocks)
        /\ calls = <<>> => Started = Taken
    BY <1>3, ChainStart
  <1>6. Taken' = Taken /\ Popped' = Started /\ Started' = Started
    BY <1>1, <1>5 DEF Taken, Popped, Started
  <1> QED
    BY <1>1, <1>3, <1>4, <1>6 DEF QueuesInv

\* start() keeps the order of the queues.
LEMMA QueuesStart ==
  ASSUME IndInv, TypeOK', channel # <<>>, StartStep
  PROVE  QueuesInv' /\ Popped' = Popped
  <1>1. /\ Popped \in Nat /\ Started = Popped /\ active = <<>> /\ calls # <<>>
        /\ Chain(issued, calls, Popped, Taken) /\ Segment(issued, blocks, Taken, Len(issued))
        /\ issued \in Seq(Block) /\ calls \in Seq(Call) /\ calls' \in Seq(Call)
        /\ UNCHANGED <<blocks, issued>> /\ Taken' = Taken
    BY QueueFacts DEF StartStep, Started, Taken, TypeOK, Call
  <1>2. calls[1] \in Call /\ calls' = Tail(calls)
    BY StartStepCalls
  <1>3. Segment(issued, calls[1].blocks, Popped, calls[1].upto)
        /\ Chain(issued, calls', calls[1].upto, Taken)
    BY <1>1, <1>2, ChainTail
  <1>4. CASE calls[1].blocks = <<>> /\ active' = <<>>
    <2>1. calls[1].upto = Popped
      BY <1>1, <1>3, <1>4, SMT DEF Segment
    <2>2. /\ calls' # <<>> => Popped = calls'[1].upto - Len(calls'[1].blocks)
          /\ calls' = <<>> => Popped = Taken
      BY <1>1, <1>3, <2>1, ChainStart, SMT
    <2>3. Popped' = Popped /\ Started' = Popped
      BY <1>1, <1>4, <2>2 DEF Popped, Started
    <2> QED
      BY <1>1, <1>3, <1>4, <2>1, <2>3 DEF QueuesInv
  <1>5. CASE active' # <<>> /\ active'[1] = NewCall(calls[1])
    <2>1. active'[1].upto = calls[1].upto /\ active'[1].blocks = calls[1].blocks
      BY <1>5, SMT DEF NewCall
    <2>2. Started' = calls[1].upto
      BY <1>5, <2>1 DEF Started
    <2>3. Popped' = Popped
      <3>1. Popped' = calls[1].upto - Len(calls[1].blocks)
        BY <1>5, <2>1 DEF Popped
      <3>2. Len(calls[1].blocks) \in Nat
        BY <1>2, SMT DEF Call
      <3> QED
        BY <1>1, <1>3, <3>1, <3>2, SMT DEF Segment
    <2> QED
      BY <1>1, <1>3, <1>5, <2>1, <2>2, <2>3 DEF QueuesInv
  <1> QED
    BY <1>4, <1>5, StartStepCalls

\* A step that touches no queue keeps their order.
LEMMA QueuesQuiet ==
  ASSUME IndInv, UNCHANGED <<blocks, issued, calls, active>>
  PROVE  QueuesInv' /\ Popped' = Popped
  <1>1. Popped' = Popped /\ Started' = Started /\ Taken' = Taken
    BY DEF Popped, Started, Taken
  <1> QED
    BY <1>1, QueueFacts DEF QueuesInv

-----------------------------------------------------------------------------
(* The server.                                                             *)

\* Without faults a call ends only when the server applied all it was sent.
LEMMA FinishedApplied ==
  ASSUME IndInv, NEW i \in DOMAIN active, ProceedFinished(i)
  PROVE  /\ active # <<>> /\ active' = <<>> /\ i = 1 /\ active[1] \in CallData
         /\ NoFaults => ~ active[1].broken /\ Len(applied) = Popped
         /\ active[1].upto = Popped
         /\ UNCHANGED <<pc, arg, mtxBlocks, blocks, blocksQueueSize, cacheSize, issued, calls, dtor,
                        applied, late, breaks, errors, span>>
  <1> DEFINE c == active[1]
  <1> USE DEF clientVars, threadVars, faultVars
  <1>0. TypeOK /\ SchedulerInv /\ CallInv
    BY DEF IndInv
  <1>1. /\ i = 1 /\ active # <<>> /\ c \in CallData /\ active' = <<>>
        /\ UNCHANGED <<pc, arg, mtxBlocks, blocks, blocksQueueSize, cacheSize, issued, calls, dtor,
                        applied, late, breaks, errors, span>>
        /\ c.status = "FINISHED" /\ (c.broken \/ c.server = "FINISHED")
    BY <1>0, ActiveOne, ActiveRemove DEF ProceedFinished
  <1>2. c.blocks = <<>> /\ c.sent <= Len(c.blocks) /\ (c.server = "FINISHED" => c.stream = <<>>)
    BY <1>0, <1>1 DEF CallInv
  <1>3. Popped \in Nat /\ Segment(issued, c.blocks, Popped, c.upto)
    BY <1>1, QueueFacts
  <1>4. c.upto = Popped
    BY <1>2, <1>3, SMT DEF Segment
  <1>5. c.sent = 0
    BY <1>1, <1>2, SMT DEF CallData
  <1>6. ASSUME NoFaults PROVE ~ c.broken /\ Len(applied) = Popped
    <2>1. ~ c.broken /\ Chain(issued, c.stream, Len(applied), Popped + c.sent)
      BY <1>1, <1>6 DEF IndInv, ServerInv
    <2>2. c.stream = <<>> /\ Len(applied) \in Nat
      <3>1. applied \in Seq(Block)
        BY <1>0 DEF TypeOK
      <3> QED
        BY <1>1, <1>2, <2>1, <3>1, LenProperties
    <2>3. Len(applied) = Popped + c.sent
      <3>1. Chain(issued, <<>>, Len(applied), Popped + c.sent)
        BY <2>1, <2>2
      <3> QED
        BY <2>2, <3>1, ChainEmpty
    <2> QED
      BY <1>3, <1>5, <2>1, <2>3, SMT
  <1> QED
    BY <1>1, <1>4, <1>6

\* A request of a broken stream is applied only after a fault.
LEMMA ServerLate ==
  ASSUME IndInv, NEW j \in DOMAIN late, ServerLateWrite(j)
  PROVE  ServerInv' /\ ~ NoFaults /\ ~ NoFaults'
  <1>1. late # <<>>
    BY EmptySeq, SMT DEF IndInv, TypeOK
  <1>2. ~ NoFaults /\ UNCHANGED <<breaks, errors>>
    BY <1>1 DEF IndInv, ServerInv, ServerLateWrite
  <1> QED
    BY <1>2 DEF ServerInv, NoFaults

\* Every step keeps the order of the queues, from write() to the server.
LEMMA QueuesStep == IndInv /\ [Next]_vars => QueuesInv' /\ ServerInv'
  \* Two segments that follow each other make one.
  <1>SegmentConcat.
      ASSUME NEW ws \in Seq(Block), NEW bs \in Seq(Block), NEW cs \in Seq(Block),
             NEW a, NEW m, NEW b, Segment(ws, bs, a, m), Segment(ws, cs, m, b)
      PROVE  Segment(ws, bs \o cs, a, b)
    <2> USE <1>SegmentConcat
    <2> DEFINE ds == bs \o cs
    <2>1. /\ Len(bs) \in Nat /\ Len(cs) \in Nat /\ Len(ws) \in Nat
          /\ Len(ds) = Len(bs) + Len(cs)
          /\ \A i \in 1 .. Len(bs) + Len(cs) :
               ds[i] = IF i <= Len(bs) THEN bs[i] ELSE cs[i - Len(bs)]
      BY ConcatProperties, SMT
    <2> HIDE DEF ds
    <2>2. /\ a \in Nat /\ m = a + Len(bs) /\ b = m + Len(cs) /\ b <= Len(ws)
          /\ \A j \in 1 .. Len(bs) : bs[j] = ws[a + j]
          /\ \A j \in 1 .. Len(cs) : cs[j] = ws[m + j]
      BY DEF Segment
    <2>3. \A j \in 1 .. Len(ds) : ds[j] = ws[a + j]
      <3> TAKE j \in 1 .. Len(ds)
      <3>1. CASE j <= Len(bs)
        BY <2>1, <2>2, <3>1, SMT
      <3>2. CASE ~ (j <= Len(bs))
        <4>1. j - Len(bs) \in 1 .. Len(cs) /\ m + (j - Len(bs)) = a + j
          BY <2>1, <2>2, <3>2, SMT
        <4> QED
          BY <2>1, <2>2, <3>2, <4>1
      <3> QED
        BY <3>1, <3>2
    <2>4. Segment(ws, ds, a, b)
      BY <2>1, <2>2, <2>3, SMT DEF Segment
    <2> QED
      BY <2>4 DEF ds
  \* The first n blocks of a queue, as send_block takes them.
  <1>SegmentPrefix.
      ASSUME NEW ws \in Seq(Block), NEW bs \in Seq(Block), NEW n \in 0 .. Len(bs), NEW a, NEW b,
             Segment(ws, bs, a, b)
      PROVE  Segment(ws, SubSeq(bs, 1, n), a, a + n)
    <2> USE <1>SegmentPrefix
    <2> DEFINE cs == SubSeq(bs, 1, n)
    <2>1. Len(bs) \in Nat /\ n \in Nat /\ Len(ws) \in Nat
      BY SMT
    <2>2. Len(cs) = n /\ \A i \in 1 .. n : cs[i] = bs[i]
      <3>1. \A i \in 1 .. n : bs[i] \in Block
        BY <2>1, ElementOfSeq, SMT
      <3> QED
        BY <2>1, <3>1, SubSeqProperties, SMT
    <2> HIDE DEF cs
    <2>3. a \in Nat /\ b = a + Len(bs) /\ b <= Len(ws) /\ \A j \in 1 .. Len(bs) : bs[j] = ws[a + j]
      BY DEF Segment
    <2>4. a + n <= Len(ws) /\ \A j \in 1 .. n : j \in 1 .. Len(bs)
      BY <2>1, <2>3, SMT
    <2>5. Segment(ws, cs, a, a + n)
      BY <2>1, <2>2, <2>3, <2>4 DEF Segment
    <2> QED
      BY <2>5 DEF cs
  \* What the client does without sending keeps the server's part of the invariant.
  <1>ServerFrame.
      ASSUME IndInv, UNCHANGED <<active, applied, late, breaks, errors>>,
             issued' = issued \/ \E x \in Block : issued' = Append(issued, x),
             Popped' = Popped
      PROVE  ServerInv'
    <2> USE <1>ServerFrame
    <2> SUFFICES ASSUME NoFaults PROVE ServerInv'
      BY DEF ServerInv, NoFaults
    <2>1. /\ late = <<>>
          /\ Segment(issued, applied, 0, Len(applied))
          /\ active = <<>> => Len(applied) = Popped
          /\ active # <<>> => /\ ~ active[1].broken
                              /\ Chain(issued, active[1].stream, Len(applied), Popped + active[1].sent)
      BY DEF IndInv, ServerInv
    <2>2. issued \in Seq(Block) /\ applied \in Seq(Block)
      BY DEF IndInv, TypeOK
    <2>3. Segment(issued', applied, 0, Len(applied))
      BY <2>1, <2>2, SegmentMore
    <2>4. ASSUME active # <<>>
          PROVE  Chain(issued', active[1].stream, Len(applied), Popped + active[1].sent)
      <3>1. active[1] \in CallData
        <4>1. active \in Seq(CallData)
          BY DEF IndInv, TypeOK
        <4> QED
          BY <2>4, <4>1, ElementOfSeq, SMT
      <3>2. IsQueue(active[1].stream)
        BY <3>1, QueueType DEF CallData
      <3> QED
        BY <2>1, <2>2, <2>4, <3>2, ChainMore
    <2> QED
      BY <2>1, <2>3, <2>4 DEF ServerInv
  \* proceed() and the server: the stream carries the blocks in order, and the
  \* server applies them in order.
  <1>ServerCall.
      ASSUME IndInv, NEW i \in DOMAIN active, CallStep(i)
      PROVE  ServerInv'
    <2> USE <1>ServerCall
    <2> DEFINE c == active[1]
               d == active'[1]
    <2>1. /\ active # <<>> /\ active' # <<>> /\ c \in CallData /\ issued' = issued
      BY CallStepFrame
    <2>2. breaks \in Nat /\ errors \in Nat /\ issued \in Seq(Block) /\ applied \in Seq(Block)
          /\ Len(applied) \in Nat
      BY SMT DEF IndInv, TypeOK
    <2>3. /\ c.upto \in Nat /\ c.blocks \in Seq(Block) /\ Len(c.blocks) \in Nat /\ c.sent \in Nat
          /\ c.stream \in Seq(Request)
      BY <2>1, SMT DEF CallData
    <2>4. c.sent <= Len(c.blocks)
      BY <2>1 DEF IndInv, CallInv
    <2>5. Popped \in Nat /\ Segment(issued, c.blocks, Popped, c.upto)
      BY <2>1, QueueFacts
    <2>6. /\ Sends(c, d) \/ Pops(c, d) \/ Advances(c, d) \/ Applies(c, d) \/ Fails(c, d)
          /\ Pops(c, d) => Popped' = Popped + 1
          /\ ~ Pops(c, d) => Popped' = Popped
      BY CallStepFields, QueuesCall
    <2>7. NoFaults =>
            /\ late = <<>>
            /\ Segment(issued, applied, 0, Len(applied))
            /\ ~ c.broken
            /\ Chain(issued, c.stream, Len(applied), Popped + c.sent)
      BY <2>1 DEF IndInv, ServerInv
    <2> HIDE DEF c, d
    <2>8. SUFFICES ASSUME NoFaults'
                   PROVE  /\ late' = <<>>
                          /\ Segment(issued, applied', 0, Len(applied'))
                          /\ ~ d.broken
                          /\ Chain(issued, d.stream, Len(applied'), Popped' + d.sent)
      BY <2>1 DEF ServerInv, d
    <2>9. CASE Sends(c, d)
      <3>1. NoFaults /\ late' = late /\ applied' = applied /\ ~ Pops(c, d) /\ c.sent = 0
            /\ d.broken = c.broken
        BY <2>8, <2>9, <2>3, SMT DEF Sends, Pops, NoFaults
      <3>2. PICK n \in DOMAIN c.blocks :
               /\ d.sent = n
               /\ d.stream = Append(c.stream, [blocks |-> SubSeq(c.blocks, 1, n),
                                               upto |-> c.upto - Len(c.blocks) + n])
        BY <2>7, <2>9, <3>1 DEF Sends
      <3> DEFINE r == [blocks |-> SubSeq(c.blocks, 1, n), upto |-> c.upto - Len(c.blocks) + n]
      <3>3. n \in 0 .. Len(c.blocks) /\ n \in Nat
        BY <2>3, SMT
      <3>4. Segment(issued, SubSeq(c.blocks, 1, n), Popped, Popped + n)
        BY <2>2, <2>3, <2>5, <3>3, <1>SegmentPrefix
      <3>5. r.upto = Popped + n /\ r.blocks = SubSeq(c.blocks, 1, n)
        BY <2>3, <2>5, <3>3, SMT DEF Segment
      <3>6. r \in Request
        <4>1. SubSeq(c.blocks, 1, n) \in Seq(Block)
          BY <2>3, <3>3, SubSeqProperties, ElementOfSeq, SMT
        <4>2. c.upto - Len(c.blocks) + n \in Nat
          BY <2>5, <3>3, <3>5, SMT
        <4> QED
          BY <4>1, <4>2 DEF Request
      <3>7. Popped + c.sent = Popped
        BY <2>5, <3>1, SMT
      <3>8. d.stream = Append(c.stream, r)
        BY <3>2
      <3> HIDE DEF r
      <3>9. Chain(issued, d.stream, Len(applied), Popped + n)
        BY <2>2, <2>3, <2>7, <3>1, <3>4, <3>5, <3>6, <3>7, <3>8, ChainAppend
      <3> QED
        BY <2>6, <2>7, <3>1, <3>2, <3>9
    <2>10. CASE Pops(c, d)
      <3>1. NoFaults /\ late' = late /\ applied' = applied /\ d.stream = c.stream
            /\ d.sent = c.sent - 1 /\ d.broken = c.broken
        BY <2>8, <2>10 DEF Pops, NoFaults
      <3>2. Popped' + d.sent = Popped + c.sent
        <4>1. Popped' = Popped + 1 /\ d.sent = c.sent - 1 /\ c.sent \in Nat /\ Popped \in Nat
          BY <2>3, <2>5, <2>6, <2>10, <3>1
        <4> QED
          BY ONLY <4>1, SMT
      <3> QED
        BY <2>7, <3>1, <3>2
    <2>11. CASE Advances(c, d)
      <3>1. NoFaults /\ late' = late /\ applied' = applied /\ d.stream = c.stream
            /\ d.sent = c.sent /\ d.broken = c.broken
        BY <2>8, <2>11 DEF Advances, NoFaults
      <3>2. ~ Pops(c, d)
        BY <2>3, <3>1, SMT DEF Pops
      <3> QED
        BY <2>6, <2>7, <3>1, <3>2
    <2>12. CASE Applies(c, d)
      <3>1. NoFaults /\ late' = late /\ applied' = applied \o Head(c.stream).blocks
            /\ d.stream = Tail(c.stream) /\ d.sent = c.sent /\ d.broken = c.broken
            /\ c.stream # <<>>
        BY <2>8, <2>12 DEF Applies, NoFaults
      <3>2. ~ Pops(c, d)
        BY <2>3, <3>1, SMT DEF Pops
      <3>3. /\ Head(c.stream) = c.stream[1]
            /\ Segment(issued, c.stream[1].blocks, Len(applied), c.stream[1].upto)
            /\ Chain(issued, d.stream, c.stream[1].upto, Popped + c.sent)
        BY <2>2, <2>3, <2>7, <3>1, ChainTail
      <3>4. c.stream[1].blocks \in Seq(Block)
        <4>1. Head(c.stream) \in Request
          BY <2>3, <3>1, HeadTailProperties
        <4> QED
          BY <3>3, <4>1 DEF Request
      <3>5. Segment(issued, applied', 0, c.stream[1].upto)
        BY <2>2, <2>7, <3>1, <3>3, <3>4, <1>SegmentConcat
      <3>6. Len(applied') = c.stream[1].upto
        <4>1. applied' \in Seq(Block)
          BY <2>2, <3>1, <3>3, <3>4, ConcatProperties
        <4> QED
          BY <3>5, <4>1, SMT DEF Segment
      <3> QED
        BY <2>6, <2>7, <3>1, <3>2, <3>3, <3>5, <3>6
    <2>13. CASE Fails(c, d)
      BY <2>2, <2>8, <2>13, SMT DEF Fails, NoFaults
    <2> QED
      BY <2>6, <2>9, <2>10, <2>11, <2>12, <2>13
  \* start() keeps the server's part of the invariant: the new stream is empty.
  <1>ServerStart.
      ASSUME IndInv, channel # <<>>, StartStep, Popped' = Popped
      PROVE  ServerInv'
    <2> USE <1>ServerStart
    <2>0. /\ active = <<>> /\ calls # <<>>
          /\ UNCHANGED <<issued, applied, late, breaks, errors>>
      BY DEF StartStep
    <2> SUFFICES ASSUME NoFaults PROVE ServerInv'
      BY <2>0 DEF ServerInv, NoFaults
    <2>1. /\ late = <<>>
          /\ Segment(issued, applied, 0, Len(applied))
          /\ Len(applied) = Popped
          /\ Popped \in Nat
      BY <2>0, QueueFacts DEF IndInv, ServerInv
    <2>2. CASE active' = <<>>
      BY <2>0, <2>1, <2>2 DEF ServerInv
    <2>3. CASE active' # <<>> /\ active'[1] = NewCall(calls[1])
      <3>1. ~ active'[1].broken /\ active'[1].stream = <<>> /\ active'[1].sent = 0
        BY <2>3, SMT DEF NewCall
      <3>2. Chain(issued, <<>>, Len(applied), Popped)
        BY <2>1, ChainEmpty
      <3>3. Popped + 0 = Popped
        BY <2>1, SMT
      <3> QED
        BY <2>0, <2>1, <2>3, <3>1, <3>2, <3>3 DEF ServerInv
    <2> QED
      BY <2>2, <2>3, StartStepCalls
  <1> SUFFICES ASSUME IndInv, [Next]_vars PROVE QueuesInv' /\ ServerInv'
    OBVIOUS
  <1> USE DEF threadVars, clientVars, faultVars
  <1>0. TypeOK /\ TypeOK'
    BY TypeStep DEF IndInv
  <1>1. CASE UNCHANGED <<blocks, issued, calls, active, applied, late, breaks, errors>>
    BY <1>1, QueuesQuiet, <1>ServerFrame
  <1>2. ASSUME NEW w \in Shapes, NEW n, Emplace(blocks, n, w),
               UNCHANGED <<calls, active, applied, late, breaks, errors>>
        PROVE  QueuesInv' /\ ServerInv'
    BY <1>0, <1>2, QueuesBuffer, <1>ServerFrame, EmplaceFacts
  <1>3. ASSUME NEW v, ScheduleFlush(v), NEW w \in Shapes, NEW n, Emplace(<<>>, n, w),
               UNCHANGED <<active, applied, late, breaks, errors>>
        PROVE  QueuesInv' /\ ServerInv'
    BY <1>0, <1>3, QueuesScheduleBuffer, <1>ServerFrame, EmplaceFacts
  <1>4. ASSUME NEW v, ScheduleFlush(v), blocks' = <<>>,
               UNCHANGED <<issued, active, applied, late, breaks, errors>>
        PROVE  QueuesInv' /\ ServerInv'
    BY <1>0, <1>4, QueuesSchedule, <1>ServerFrame
  <1>5. ASSUME NEW i \in DOMAIN active, CallStep(i) PROVE QueuesInv' /\ ServerInv'
    BY <1>5, QueuesCall, <1>ServerCall
  <1>6. ASSUME NEW i \in DOMAIN active, ProceedFinished(i) PROVE QueuesInv' /\ ServerInv'
    <2>1. QueuesInv' /\ Popped' = Popped
      BY <1>0, <1>6, QueuesFinished
    <2>2. ServerInv'
      BY <1>6, <2>1, FinishedApplied DEF IndInv, ServerInv, NoFaults
    <2> QED
      BY <2>1, <2>2
  <1>7. CASE OnCallEnded \/ OnFlushRequest
    <2>1. CASE StartStep
      BY <1>0, <1>7, <2>1, SchedulerCases, QueuesStart, <1>ServerStart
    <2> QED
      BY <1>1, <1>7, <2>1, SchedulerCases
  <1>8. ASSUME NEW j \in DOMAIN late, ServerLateWrite(j) PROVE QueuesInv' /\ ServerInv'
    BY <1>8, QueuesQuiet, ServerLate DEF ServerLateWrite
  <1> QED
    <2>1. ASSUME NEW t \in Threads, Thread(t) PROVE QueuesInv' /\ ServerInv'
      <3>1. CASE \E w \in Shapes : Write(t, w)
        BY <1>2, <3>1 DEF Write
      <3>2. CASE \E w \in Shapes : WriteAndSchedule(t, w)
        BY <1>3, <3>2 DEF WriteAndSchedule
      <3>3. CASE WriteResume(t)
        <4>1. arg[t] \in Shapes
          BY <3>3 DEF WriteResume, IndInv, OwnerInv
        <4> QED
          BY <1>2, <3>3, <4>1 DEF WriteResume
      <3>4. CASE (\E w \in Shapes : WriteFull(t, w)) \/ Flush(t)
        BY <1>4, <3>4 DEF WriteFull, Flush
      <3>5. CASE FlushDrained(t) \/ FlushRPC(t)
        BY <1>1, <3>5 DEF FlushDrained, FlushRPC
      <3> QED
        BY <2>1, <3>1, <3>2, <3>3, <3>4, <3>5 DEF Thread
    <2>2. CASE TimerHandler \/ Destroy
      BY <1>4, <2>2 DEF TimerHandler, Destroy
    <2>3. CASE OnTerminated \/ TimerExpire \/ DestroySend \/ DestroyJoin \/ DestroyStop
      BY <1>1, <2>3 DEF OnTerminated, TimerExpire, DestroySend, DestroyJoin, DestroyStop
    <2>4. ASSUME NEW i \in DOMAIN active, Proceed(i) \/ Server(i) PROVE QueuesInv' /\ ServerInv'
      BY <1>5, <1>6, <2>4 DEF Proceed, Server, CallStep
    <2>5. CASE Faults
      BY <1>5, <2>5 DEF Faults, CallStep
    <2>6. CASE UNCHANGED vars
      BY <1>1, <2>6 DEF vars
    <2> QED
      BY <1>7, <1>8, <2>1, <2>2, <2>3, <2>4, <2>5, <2>6 DEF Next, Scheduler, Destructor, Destroyed

-----------------------------------------------------------------------------
(* The futures.                                                            *)

\* What the invariant says of the futures, with the types it needs.
LEMMA FutureFacts ==
  ASSUME IndInv
  PROVE  /\ FutureInv
         /\ pc \in [Threads -> {"idle", "full", "drain", "rpc"}]
         /\ arg \in [Threads -> Shapes \cup {<<>>}]
         /\ future \in [Waiters -> {"none", "pending", "true", "false"}]
         /\ span \in [Waiters -> [from : Nat, upto : Nat]]
         /\ calls \in Seq(Call) /\ Len(calls) \in Nat
         /\ \A k \in 1 .. Len(calls) : calls[k] \in Call
         /\ active # <<>> => active[1] \in CallData
         /\ Len(applied) \in Nat /\ Len(issued) \in Nat
  <1>1. calls \in Seq(Call) /\ active \in Seq(CallData) /\ applied \in Seq(Block)
        /\ issued \in Seq(Block)
    BY DEF IndInv, TypeOK, Call
  <1>2. \A k \in 1 .. Len(calls) : calls[k] \in Call
    BY <1>1, ElementOfSeq
  <1>3. active # <<>> => active[1] \in CallData
    BY <1>1, ElementOfSeq, SMT
  <1>4. /\ FutureInv
        /\ pc \in [Threads -> {"idle", "full", "drain", "rpc"}]
        /\ arg \in [Threads -> Shapes \cup {<<>>}]
        /\ future \in [Waiters -> {"none", "pending", "true", "false"}]
        /\ span \in [Waiters -> [from : Nat, upto : Nat]]
    BY DEF IndInv, TypeOK, FutureInv
  <1> QED
    BY <1>1, <1>2, <1>3, <1>4, SMT

\* Every step keeps the futures' invariant.
LEMMA FutureStep == IndInv /\ [Next]_vars => FutureInv'
  \* A step that touches no future, call or thread keeps the futures' invariant.
  <1>FutureFrame.
      ASSUME IndInv, UNCHANGED <<pc, arg, calls, active, future, span, applied, breaks, errors>>,
             dtor' = dtor \/ dtor' # "alive"
      PROVE  FutureInv'
    BY <1>FutureFrame, FutureFacts DEF FutureInv, OwnerInv, WaiterInv, ReadyInv, IsPending, NoFaults
  \* write() and flush() give up a future that is ready: no call knows it any more.
  <1>FutureRelease.
      ASSUME IndInv, NEW t \in Threads, future[t] \in {"true", "false"},
             pc' = [pc EXCEPT ![t] = "idle"],
             future' = [future EXCEPT ![t] = "none"],
             span' = [span EXCEPT ![t] = NoSpan],
             arg' = arg \/ arg' = [arg EXCEPT ![t] = <<>>],
             UNCHANGED <<calls, active, dtor, applied, breaks, errors>>
      PROVE  FutureInv'
    <2> USE <1>FutureRelease
    <2>0. t # Dtor /\ t \in Waiters
      BY AsyncClientAssumption DEF Waiters
    <2>1. /\ \A w \in Waiters : w # t => future'[w] = future[w] /\ span'[w] = span[w]
          /\ \A u \in Threads : u # t => pc'[u] = pc[u] /\ arg'[u] = arg[u]
          /\ future'[t] = "none" /\ pc'[t] = "idle"
          /\ Dtor \in Waiters
      BY <2>0, FutureFacts DEF Waiters
    <2>2. OwnerInv'
      BY <2>0, <2>1, FutureFacts DEF FutureInv, OwnerInv, Waiters
    <2>3. /\ \A k \in 1 .. Len(calls) : calls[k].waiter # t /\ calls[k].waiter \in Waiters \cup {Nobody}
          /\ active # <<>> => active[1].waiter # t /\ active[1].waiter \in Waiters \cup {Nobody}
      <3>1. t # Nobody /\ future[t] # "pending"
        BY AsyncClientAssumption
      <3>2. /\ \A k \in 1 .. Len(calls) : calls[k].waiter \in Waiters \cup {Nobody}
            /\ active # <<>> => active[1].waiter \in Waiters \cup {Nobody}
        BY FutureFacts DEF Call, CallData
      <3> QED
        BY <3>1, <3>2, FutureFacts, SMT DEF FutureInv, WaiterInv, IsPending
    <2>4. WaiterInv'
      BY <2>1, <2>3, FutureFacts DEF FutureInv, WaiterInv, IsPending
    <2>5. ReadyInv'
      BY <2>1, FutureFacts DEF FutureInv, ReadyInv, NoFaults
    <2> QED
      BY <2>2, <2>4, <2>5 DEF FutureInv
  \* A step of the call under way keeps the futures' invariant: the server only
  \* adds to what it applied.
  <1>FutureCall.
      ASSUME IndInv, NEW i \in DOMAIN active, CallStep(i), ServerInv', TypeOK'
      PROVE  FutureInv'
    <2> USE <1>FutureCall
    <2>1. /\ active # <<>> /\ active' # <<>> /\ UNCHANGED <<pc, arg, calls, dtor, future, span>>
          /\ active'[1].upto = active[1].upto /\ active'[1].waiter = active[1].waiter
      BY CallStepFrame, CallStepFields
    <2>2. OwnerInv' /\ WaiterInv'
      BY <2>1, FutureFacts, SMT DEF FutureInv, OwnerInv, WaiterInv, IsPending
    <2>3. NoFaults' => NoFaults /\ Len(applied) <= Len(applied')
      <3> DEFINE c == active[1]
                 d == active'[1]
      <3>1. breaks \in Nat /\ errors \in Nat /\ applied \in Seq(Block)
        BY DEF IndInv, TypeOK
      <3>2. ASSUME Applies(c, d) PROVE Len(applied) <= Len(applied')
        <4>1. c.stream \in Seq(Request) /\ c.stream # <<>>
          BY <2>1, <3>2, FutureFacts DEF CallData, Applies
        <4>2. Head(c.stream) \in Request
          BY <4>1, HeadTailProperties
        <4>3. Head(c.stream).blocks \in Seq(Block)
          BY <4>2 DEF Request
        <4>4. Len(applied') = Len(applied) + Len(Head(c.stream).blocks)
          BY <3>1, <3>2, <4>3, ConcatProperties DEF Applies
        <4>5. Len(applied) \in Nat /\ Len(Head(c.stream).blocks) \in Nat
          BY <3>1, <4>3, LenProperties
        <4>6. PICK n \in Nat : Len(applied') = Len(applied) + n
          BY <4>4, <4>5
        <4> QED
          BY ONLY n \in Nat, <4>5, <4>6, SMT
      <3>3. Sends(c, d) \/ Pops(c, d) \/ Advances(c, d) \/ Applies(c, d) \/ Fails(c, d)
        BY CallStepFields
      <3> HIDE DEF c, d
      <3>4. CASE Fails(c, d)
        BY <3>1, <3>4, SMT DEF Fails, NoFaults
      <3>5. CASE Applies(c, d)
        BY <3>2, <3>5 DEF Applies, NoFaults
      <3>6. CASE Sends(c, d) \/ Pops(c, d) \/ Advances(c, d)
        BY <3>1, <3>6, SMT DEF Sends, Pops, Advances, NoFaults
      <3> QED
        BY <3>3, <3>4, <3>5, <3>6
    <2>4. ReadyInv'
      <3>1. applied' \in Seq(Block) /\ \A w \in Waiters : span[w].upto \in Nat
        BY FutureFacts DEF TypeOK
      <3> QED
        BY <2>1, <2>3, <3>1, FutureFacts, SMT DEF FutureInv, ReadyInv
    <2> QED
      BY <2>2, <2>4 DEF FutureInv
  \* schedule_flush: the new call is the only one with its waiter.
  <1>FutureSchedule.
      ASSUME IndInv, NEW v \in Waiters \cup {Nobody}, ScheduleFlush(v),
             v # Nobody => future[v] = "none",
             \A t \in Threads : t # v => pc'[t] = pc[t] /\ arg'[t] = arg[t],
             v \in Threads => /\ pc'[v] \in {"full", "drain"}
                              /\ pc'[v] = "full" => arg'[v] \in Shapes,
             v = Dtor \/ dtor' = dtor, v = Dtor => dtor' # "alive",
             UNCHANGED <<active, applied, breaks, errors>>
      PROVE  FutureInv'
    <2> USE <1>FutureSchedule
    <2> DEFINE r == [blocks |-> blocks, upto |-> Len(issued), waiter |-> v]
    <2>0. Nobody \notin Waiters /\ Dtor \in Waiters /\ Threads \subseteq Waiters /\ Dtor \notin Threads
      BY AsyncClientAssumption DEF Waiters, Nobody, Dtor
    <2>1. /\ \A w \in Waiters : w # v => future'[w] = future[w] /\ span'[w] = span[w]
          /\ v # Nobody => future'[v] = "pending" /\ span'[v].upto = Len(issued)
      BY <2>0, FutureFacts, SMT DEF ScheduleFlush
    <2>2. /\ Len(calls') = Len(calls) + 1
          /\ \A k \in 1 .. Len(calls) : calls'[k] = calls[k]
          /\ calls'[Len(calls) + 1] = r
      BY FutureFacts, SMT DEF ScheduleFlush
    <2>3. r.upto = Len(issued) /\ r.waiter = v
      OBVIOUS
    <2> HIDE DEF r
    <2>4. OwnerInv'
      BY <2>0, <2>1, FutureFacts DEF FutureInv, OwnerInv
    <2>5. /\ \A k \in 1 .. Len(calls) : calls[k].waiter \in Waiters \cup {Nobody}
          /\ active # <<>> => active[1].waiter \in Waiters \cup {Nobody}
      BY FutureFacts DEF Call, CallData
    <2>6. v # Nobody => /\ \A k \in 1 .. Len(calls) : calls[k].waiter # v
                        /\ active # <<>> => active[1].waiter # v
      BY FutureFacts, SMT DEF FutureInv, WaiterInv, IsPending
    <2>7. WaiterInv'
      <3>1. ASSUME NEW k \in 1 .. Len(calls'), calls'[k].waiter # Nobody
            PROVE  /\ (IsPending(calls[k].waiter, calls[k]))'
                   /\ \A j \in 1 .. Len(calls') : calls'[j].waiter = calls'[k].waiter => j = k
                   /\ active' # <<>> => active'[1].waiter # calls'[k].waiter
        <4>1. CASE k \in 1 .. Len(calls)
          <5>1. calls'[k] = calls[k] /\ calls[k].waiter # v /\ calls[k].waiter \in Waiters
            BY <2>2, <2>5, <2>6, <3>1, <4>1
          <5>2. (IsPending(calls[k].waiter, calls[k]))'
            <6>1. future[calls[k].waiter] = "pending" /\ span[calls[k].waiter].upto = calls[k].upto
              BY <2>0, <4>1, <5>1, FutureFacts DEF FutureInv, WaiterInv, IsPending
            <6> QED
              BY <2>1, <5>1, <6>1 DEF IsPending
          <5>3. ASSUME NEW j \in 1 .. Len(calls'), calls'[j].waiter = calls'[k].waiter PROVE j = k
            <6>1. j \in 1 .. Len(calls)
              BY <2>2, <2>3, <5>1, <5>3, FutureFacts, SMT
            <6> QED
              BY <2>2, <3>1, <4>1, <5>1, <5>3, <6>1, FutureFacts DEF FutureInv, WaiterInv
          <5>4. active' # <<>> => active'[1].waiter # calls'[k].waiter
            BY <3>1, <4>1, <5>1, FutureFacts DEF FutureInv, WaiterInv
          <5> QED
            BY <5>2, <5>3, <5>4
        <4>2. CASE k = Len(calls) + 1
          <5>1. calls'[k] = r /\ v # Nobody
            BY <2>2, <2>3, <3>1, <4>2
          <5>2. (IsPending(calls[k].waiter, calls[k]))'
            BY <2>1, <2>3, <5>1 DEF IsPending
          <5>3. ASSUME NEW j \in 1 .. Len(calls'), calls'[j].waiter = calls'[k].waiter PROVE j = k
            <6>1. j \notin 1 .. Len(calls)
              BY <2>2, <2>3, <2>6, <5>1, <5>3
            <6> QED
              BY <2>2, <4>2, <6>1, FutureFacts, SMT
          <5> QED
            BY <2>3, <2>6, <5>1, <5>2, <5>3
        <4> QED
          BY <2>2, <4>1, <4>2, FutureFacts, SMT
      <3>2. ASSUME active' # <<>>, active'[1].waiter # Nobody
            PROVE  (IsPending(active[1].waiter, active[1]))'
        BY <2>0, <2>1, <2>5, <2>6, <3>2, FutureFacts DEF FutureInv, WaiterInv, IsPending
      <3> QED
        BY <3>1, <3>2 DEF WaiterInv
    <2>8. ReadyInv'
      BY <2>0, <2>1, FutureFacts DEF FutureInv, ReadyInv, NoFaults
    <2> QED
      BY <2>4, <2>7, <2>8 DEF FutureInv
  \* set_value: the future of an ended call covers what the server applied.
  <1>FutureResolve.
      ASSUME IndInv, NEW v \in Waiters \cup {Nobody}, NEW value \in BOOLEAN, Resolve(v, value),
             v # Nobody => /\ future[v] = "pending"
                           /\ NoFaults => span[v].upto <= Len(applied),
             active' = <<>>,
             NEW s \in {0, 1}, Len(calls') = Len(calls) - s,
             \A k \in 1 .. Len(calls') : calls'[k] = calls[k + s],
             \A k \in s + 1 .. Len(calls) : calls[k].waiter # v \/ v = Nobody,
             UNCHANGED <<pc, arg, dtor, applied, breaks, errors, span>>
      PROVE  FutureInv'
    <2> USE <1>FutureResolve
    <2>0. Nobody \notin Waiters /\ Dtor \in Waiters /\ Threads \subseteq Waiters
      BY AsyncClientAssumption DEF Waiters, Nobody, Dtor
    <2>1. /\ \A w \in Waiters : w # v => future'[w] = future[w]
          /\ v # Nobody => future'[v] \in {"true", "false"}
      BY <2>0, FutureFacts DEF Resolve
    <2>2. OwnerInv'
      BY <2>0, <2>1, FutureFacts DEF FutureInv, OwnerInv
    <2>3. \A k \in 1 .. Len(calls') : k + s \in 1 .. Len(calls) /\ k + s \in s + 1 .. Len(calls)
      <3>1. Len(calls) \in Nat /\ Len(calls') \in Int
        BY FutureFacts, SMT
      <3>2. CASE s = 0
        BY <3>1, <3>2, SMT
      <3>3. CASE s = 1
        BY <3>1, <3>3, SMT
      <3> QED
        BY <3>2, <3>3
    <2>4. ASSUME NEW k \in 1 .. Len(calls'), calls'[k].waiter # Nobody
          PROVE  /\ (IsPending(calls[k].waiter, calls[k]))'
                 /\ \A j \in 1 .. Len(calls') : calls'[j].waiter = calls'[k].waiter => j = k
      <3>1. /\ calls'[k] = calls[k + s] /\ calls[k + s].waiter # v
            /\ calls[k + s].waiter \in Waiters
        <4>1. k + s \in 1 .. Len(calls) /\ k + s \in s + 1 .. Len(calls)
          BY <2>3
        <4>2. calls'[k] = calls[k + s] /\ calls[k + s].waiter # Nobody
          BY <2>4
        <4>3. calls[k + s].waiter \in Waiters \cup {Nobody}
          BY <4>1, FutureFacts, SMT DEF Call
        <4> QED
          BY <4>1, <4>2, <4>3
      <3>2. /\ future[calls[k + s].waiter] = "pending"
            /\ span[calls[k + s].waiter].upto = calls[k + s].upto
            /\ \A j \in 1 .. Len(calls) : calls[j].waiter = calls[k + s].waiter => j = k + s
        BY <2>0, <2>3, <3>1, FutureFacts DEF FutureInv, WaiterInv, IsPending
      <3>3. (IsPending(calls[k].waiter, calls[k]))'
        BY <2>1, <3>1, <3>2 DEF IsPending
      <3>4. ASSUME NEW j \in 1 .. Len(calls'), calls'[j].waiter = calls'[k].waiter PROVE j = k
        <4>1. j + s = k + s
          BY <2>3, <3>1, <3>2, <3>4
        <4>2. j \in Int /\ k \in Int /\ s \in Int
          BY SMT
        <4> QED
          BY ONLY <4>1, <4>2, SMT
      <3> QED
        BY <3>3, <3>4
    <2>5. WaiterInv'
      BY <2>4 DEF WaiterInv
    <2>6. ReadyInv'
      BY <2>0, <2>1, FutureFacts DEF FutureInv, ReadyInv, NoFaults
    <2> QED
      BY <2>2, <2>5, <2>6 DEF FutureInv
  \* start() keeps the futures' invariant.
  <1>FutureStart.
      ASSUME IndInv, channel # <<>>, StartStep
      PROVE  FutureInv'
    <2> USE <1>FutureStart
    <2> DEFINE c == calls[1]
    <2>0. /\ active = <<>> /\ calls # <<>> /\ calls \in Seq(Call) /\ Len(calls) \in Nat
          /\ UNCHANGED <<pc, arg, dtor, applied, breaks, errors, span>>
          /\ c \in Call /\ calls' = Tail(calls)
      BY FutureFacts, StartStepCalls DEF StartStep
    <2>1. /\ Len(calls') = Len(calls) - 1 /\ Len(calls) > 0
          /\ \A k \in 1 .. Len(calls') : calls'[k] = calls[k + 1]
      BY <2>0, SMT
    <2>2. /\ c.waiter \in Waiters \cup {Nobody}
          /\ c.waiter # Nobody =>
               /\ future[c.waiter] = "pending" /\ span[c.waiter].upto = c.upto
               /\ \A j \in 1 .. Len(calls) : calls[j].waiter = c.waiter => j = 1
      BY <2>0, <2>1, FutureFacts, SMT DEF FutureInv, WaiterInv, IsPending, Call
    <2>3. CASE c.blocks = <<>> /\ active' = <<>> /\ Resolve(c.waiter, TRUE)
      <3>1. NoFaults => c.upto <= Len(applied)
        <4>1. Popped \in Nat /\ Chain(issued, calls, Popped, Taken) /\ issued \in Seq(Block)
          BY <2>0, QueueFacts DEF Started
        <4>2. Segment(issued, c.blocks, Popped, c.upto)
          BY <2>0, <4>1, ChainTail
        <4>3. c.upto = Popped
          BY <2>3, <4>1, <4>2, SMT DEF Segment
        <4>4. NoFaults => Len(applied) = Popped
          BY <2>0 DEF IndInv, ServerInv
        <4> QED
          BY <4>1, <4>3, <4>4, SMT
      <3>2. \A k \in 1 + 1 .. Len(calls) : calls[k].waiter # c.waiter \/ c.waiter = Nobody
        BY <2>1, <2>2, SMT
      <3> QED
        BY <2>0, <2>1, <2>2, <2>3, <3>1, <3>2, <1>FutureResolve
    <2>4. CASE active' # <<>> /\ active'[1] = NewCall(c) /\ future' = future
      <3>0. active'[1].waiter = c.waiter /\ active'[1].upto = c.upto
        BY <2>4, SMT DEF NewCall
      <3>1. OwnerInv' /\ ReadyInv'
        BY <2>0, <2>4, FutureFacts DEF FutureInv, OwnerInv, ReadyInv, NoFaults
      <3>2. ASSUME NEW k \in 1 .. Len(calls'), calls'[k].waiter # Nobody
            PROVE  /\ (IsPending(calls[k].waiter, calls[k]))'
                   /\ \A j \in 1 .. Len(calls') : calls'[j].waiter = calls'[k].waiter => j = k
                   /\ active'[1].waiter # calls'[k].waiter
        <4>1. calls'[k] = calls[k + 1] /\ k + 1 \in 1 .. Len(calls) /\ k + 1 # 1
          BY <2>0, <2>1, SMT
        <4>2. /\ future[calls[k + 1].waiter] = "pending"
              /\ span[calls[k + 1].waiter].upto = calls[k + 1].upto
              /\ \A j \in 1 .. Len(calls) : calls[j].waiter = calls[k + 1].waiter => j = k + 1
          BY <3>2, <4>1, FutureFacts DEF FutureInv, WaiterInv, IsPending
        <4>3. (IsPending(calls[k].waiter, calls[k]))'
          BY <2>0, <2>4, <4>1, <4>2 DEF IsPending
        <4>4. ASSUME NEW j \in 1 .. Len(calls'), calls'[j].waiter = calls'[k].waiter PROVE j = k
          <5>1. calls'[j] = calls[j + 1] /\ j + 1 \in 1 .. Len(calls)
            BY <2>0, <2>1, SMT
          <5>2. j + 1 = k + 1
            BY <4>1, <4>2, <4>4, <5>1
          <5> QED
            BY <5>2, SMT
        <4>5. active'[1].waiter # calls'[k].waiter
          <5>1. 1 \in 1 .. Len(calls)
            BY <2>0, <2>1, SMT
          <5> QED
            BY <3>0, <4>1, <4>2, <5>1
        <4> QED
          BY <4>3, <4>4, <4>5
      <3>3. active'[1].waiter # Nobody => (IsPending(active[1].waiter, active[1]))'
        BY <2>0, <2>2, <2>4, <3>0 DEF IsPending
      <3>4. WaiterInv'
        BY <3>2, <3>3 DEF WaiterInv
      <3> QED
        BY <3>1, <3>4 DEF FutureInv
    <2> QED
      BY <2>3, <2>4, StartStepCalls
  \* end() keeps the futures' invariant.
  <1>FutureFinished.
      ASSUME IndInv, NEW i \in DOMAIN active, ProceedFinished(i)
      PROVE  FutureInv'
    <2> USE <1>FutureFinished
    <2> DEFINE c == active[1]
    <2>1. /\ active # <<>> /\ active' = <<>> /\ i = 1 /\ c \in CallData
          /\ NoFaults => Len(applied) = Popped
          /\ c.upto = Popped
          /\ UNCHANGED <<pc, arg, calls, dtor, applied, breaks, errors, span>>
      BY FinishedApplied
    <2>2. Resolve(c.waiter, ~ c.broken)
      BY <2>1 DEF ProceedFinished
    <2>3. c.waiter \in Waiters \cup {Nobody} /\ (~ c.broken) \in BOOLEAN
      BY <2>1 DEF CallData
    <2>4. c.waiter # Nobody => future[c.waiter] = "pending" /\ span[c.waiter].upto = c.upto
      BY <2>1, FutureFacts DEF FutureInv, WaiterInv, IsPending
    <2>5. NoFaults => c.upto <= Len(applied)
      BY <2>1, QueueFacts, SMT
    <2>6. /\ Len(calls') = Len(calls) - 0
          /\ \A k \in 1 .. Len(calls') : calls'[k] = calls[k + 0]
          /\ \A k \in 0 + 1 .. Len(calls) : calls[k].waiter # c.waiter \/ c.waiter = Nobody
      BY <2>1, FutureFacts, SMT DEF FutureInv, WaiterInv
    <2> QED
      BY <2>1, <2>2, <2>3, <2>4, <2>5, <2>6, <1>FutureResolve
  <1> SUFFICES ASSUME IndInv, [Next]_vars PROVE FutureInv'
    OBVIOUS
  <1> USE DEF threadVars, clientVars, faultVars
  <1>0. /\ TypeOK' /\ ServerInv'
        /\ Nobody \notin Waiters /\ Nobody \notin Threads /\ Dtor \in Waiters
        /\ Threads \subseteq Waiters /\ Dtor \notin Threads
        /\ pc \in [Threads -> {"idle", "full", "drain", "rpc"}]
        /\ arg \in [Threads -> Shapes \cup {<<>>}]
        /\ OwnerInv
    BY TypeStep, QueuesStep, AsyncClientAssumption, FutureFacts
    DEF Waiters, Nobody, Dtor, FutureInv
  <1>1. CASE UNCHANGED <<pc, arg, calls, active, future, span, applied, breaks, errors>>
             /\ (dtor' = dtor \/ dtor' # "alive")
    BY <1>1, <1>FutureFrame
  <1>2. CASE ScheduleFlush(Nobody) /\ UNCHANGED <<pc, arg, dtor, active, applied, breaks, errors>>
    <2>1. /\ \A t \in Threads : t # Nobody => pc'[t] = pc[t] /\ arg'[t] = arg[t]
          /\ Nobody \notin Threads /\ Nobody # Dtor
      BY <1>0, <1>2
    <2> QED
      BY <1>2, <2>1, <1>FutureSchedule
  <1>3. ASSUME NEW t \in Threads, NEW w \in Shapes, WriteFull(t, w) PROVE FutureInv'
    <2>1. /\ ScheduleFlush(t) /\ UNCHANGED <<dtor, active, applied, breaks, errors>>
          /\ pc' = [pc EXCEPT ![t] = "full"] /\ arg' = [arg EXCEPT ![t] = w] /\ pc[t] = "idle"
      BY <1>3 DEF WriteFull
    <2>2. /\ \A u \in Threads : u # t => pc'[u] = pc[u] /\ arg'[u] = arg[u]
          /\ pc'[t] \in {"full", "drain"} /\ arg'[t] \in Shapes
          /\ future[t] = "none" /\ t # Dtor /\ t \in Waiters
      BY <1>0, <2>1 DEF OwnerInv
    <2> QED
      BY <2>1, <2>2, <1>FutureSchedule
  <1>4. ASSUME NEW t \in Threads, Flush(t) PROVE FutureInv'
    <2>1. /\ ScheduleFlush(t) /\ UNCHANGED <<arg, dtor, active, applied, breaks, errors>>
          /\ pc' = [pc EXCEPT ![t] = "drain"] /\ pc[t] = "idle"
      BY <1>4 DEF Flush
    <2>2. /\ \A u \in Threads : u # t => pc'[u] = pc[u] /\ arg'[u] = arg[u]
          /\ pc'[t] = "drain"
          /\ future[t] = "none" /\ t # Dtor /\ t \in Waiters
      BY <1>0, <2>1 DEF OwnerInv
    <2> QED
      BY <2>1, <2>2, <1>FutureSchedule
  <1>5. CASE Destroy
    <2>1. /\ ScheduleFlush(Dtor) /\ UNCHANGED <<pc, arg, active, applied, breaks, errors>>
          /\ dtor = "alive" /\ dtor' = "draining" /\ future[Dtor] = "none"
      BY <1>0, <1>5 DEF Destroy, OwnerInv
    <2> QED
      BY <1>0, <2>1, <1>FutureSchedule
  <1>6. ASSUME NEW t \in Threads, FlushDrained(t) PROVE FutureInv'
    <2>1. /\ pc' = [pc EXCEPT ![t] = "rpc"] /\ future[t] \in {"true", "false"}
          /\ UNCHANGED <<arg, calls, active, future, span, dtor, applied, breaks, errors>>
      BY <1>6 DEF FlushDrained
    <2>2. OwnerInv'
      BY <1>0, <2>1 DEF OwnerInv
    <2>3. WaiterInv' /\ ReadyInv'
      BY <2>1, FutureFacts DEF FutureInv, WaiterInv, ReadyInv, IsPending, NoFaults
    <2> QED
      BY <2>2, <2>3 DEF FutureInv
  <1>7. ASSUME NEW t \in Threads, WriteResume(t) \/ FlushRPC(t) PROVE FutureInv'
    <2>1. future[t] \in {"true", "false"}
      BY <1>0, <1>7 DEF WriteResume, FlushRPC, OwnerInv
    <2> QED
      BY <1>7, <2>1, <1>FutureRelease DEF WriteResume, FlushRPC
  <1>8. ASSUME NEW i \in DOMAIN active, CallStep(i) PROVE FutureInv'
    BY <1>0, <1>8, <1>FutureCall
  <1>9. ASSUME NEW i \in DOMAIN active, ProceedFinished(i) PROVE FutureInv'
    BY <1>9, <1>FutureFinished
  <1>10. CASE OnCallEnded \/ OnFlushRequest
    <2>1. CASE StartStep
      BY <1>10, <2>1, SchedulerCases, <1>FutureStart
    <2> QED
      BY <1>1, <1>10, <2>1, SchedulerCases
  <1>11. ASSUME NEW j \in DOMAIN late, ServerLateWrite(j) PROVE FutureInv'
    <2>1. ~ NoFaults' /\ UNCHANGED <<pc, arg, calls, active, future, span, dtor>>
      BY <1>11, ServerLate DEF ServerLateWrite
    <2> QED
      BY <2>1, FutureFacts DEF FutureInv, OwnerInv, WaiterInv, ReadyInv, IsPending
  <1> QED
    <2>1. ASSUME NEW t \in Threads, Thread(t) PROVE FutureInv'
      <3>1. CASE \E w \in Shapes : Write(t, w)
        BY <1>1, <3>1 DEF Write
      <3>2. CASE \E w \in Shapes : WriteAndSchedule(t, w)
        BY <1>2, <3>2 DEF WriteAndSchedule
      <3> QED
        BY <1>3, <1>4, <1>6, <1>7, <2>1, <3>1, <3>2 DEF Thread
    <2>2. CASE TimerHandler
      BY <1>2, <2>2 DEF TimerHandler
    <2>3. CASE OnTerminated \/ TimerExpire \/ DestroySend \/ DestroyJoin \/ DestroyStop
      BY <1>1, <2>3 DEF OnTerminated, TimerExpire, DestroySend, DestroyJoin, DestroyStop
    <2>4. ASSUME NEW i \in DOMAIN active, Proceed(i) \/ Server(i) PROVE FutureInv'
      BY <1>8, <1>9, <2>4 DEF Proceed, Server, CallStep
    <2>5. CASE Faults
      BY <1>8, <2>5 DEF Faults, CallStep
    <2>6. CASE UNCHANGED vars
      BY <1>1, <2>6 DEF vars
    <2> QED
      BY <1>5, <1>10, <1>11, <2>1, <2>2, <2>3, <2>4, <2>5, <2>6
      DEF Next, Scheduler, Destructor, Destroyed

-----------------------------------------------------------------------------
(* The destructor.                                                         *)

\* Every step keeps the destructor's invariant.
LEMMA DtorStep == IndInv /\ [Next]_vars => DtorInv'
  \* A step that sends no TERMINATED and touches no call or future.
  <1>DtorFrame.
      ASSUME IndInv, UNCHANGED <<pc, blocks, issued, calls, active, future, span, dtor>>,
             scheduler' = scheduler,
             Has(channel', "TERMINATED") => Has(channel, "TERMINATED")
      PROVE  DtorInv'
    BY <1>DtorFrame DEF IndInv, DtorInv
  \* Before the destructor runs there is nothing to keep.
  <1>DtorAlive.
      ASSUME IndInv, dtor = "alive", dtor' = "alive", scheduler' = scheduler,
             future'[Dtor] = "none",
             \A k \in 1 .. Len(calls') : calls'[k].waiter # Dtor,
             active' = active,
             Has(channel', "TERMINATED") => Has(channel, "TERMINATED")
      PROVE  DtorInv'
    <2> USE <1>DtorAlive
    <2>1. ~ Has(channel, "TERMINATED") /\ scheduler # "terminated"
      BY DEF IndInv, DtorInv
    <2>2. active # <<>> => active[1].waiter # Dtor
      BY AsyncClientAssumption DEF IndInv, OwnerInv, WaiterInv, IsPending, Dtor, Nobody
    <2> QED
      BY <2>1, <2>2 DEF DtorInv
  \* write(), flush() and fsync() run only before the destructor.
  <1>DtorThread.
      ASSUME IndInv, NEW t \in Threads, Thread(t)
      PROVE  DtorInv'
    <2> USE <1>DtorThread
    <2> USE DEF threadVars, clientVars, faultVars
    <2>0. /\ Dtor \in Waiters /\ t # Dtor /\ Nobody # Dtor /\ t \in Waiters
          /\ channel \in Seq(Event) /\ OwnerInv
      BY AsyncClientAssumption DEF IndInv, TypeOK, Waiters, Dtor, Nobody, Event
    <2>1. dtor = "alive" /\ UNCHANGED <<dtor, scheduler, active>>
      <3>1. pc[t] # "idle" => dtor = "alive"
        BY DEF IndInv, DtorInv
      <3> QED
        BY <3>1
        DEF Thread, Write, WriteAndSchedule, WriteFull, WriteResume, Flush, FlushDrained, FlushRPC
    <2>2. future[Dtor] = "none" /\ \A k \in 1 .. Len(calls) : calls[k].waiter # Dtor
      BY <2>0, <2>1 DEF IndInv, OwnerInv, WaiterInv, IsPending
    <2>3. CASE UNCHANGED calls /\ UNCHANGED channel
               /\ (future' = future \/ future' = [future EXCEPT ![t] = "none"])
      <3>1. future'[Dtor] = "none"
        BY <2>0, <2>2, <2>3, FutureFacts
      <3> QED
        BY <2>1, <2>2, <2>3, <3>1, <1>DtorAlive
    <2>4. ASSUME NEW v \in {t, Nobody}, ScheduleFlush(v) PROVE DtorInv'
      <3>1. future'[Dtor] = "none"
        BY <2>0, <2>2, <2>4, FutureFacts DEF ScheduleFlush
      <3>2. Has(channel', "TERMINATED") => Has(channel, "TERMINATED")
        BY <2>0, <2>4, AppendEvent DEF ScheduleFlush, Event
      <3>3. /\ Len(calls') = Len(calls) + 1
            /\ \A k \in 1 .. Len(calls) : calls'[k] = calls[k]
            /\ calls'[Len(calls) + 1].waiter = v
        BY <2>4, FutureFacts, SMT DEF ScheduleFlush
      <3>4. \A k \in 1 .. Len(calls') : calls'[k].waiter # Dtor
        <4> TAKE k \in 1 .. Len(calls')
        <4>1. k \in 1 .. Len(calls) \/ k = Len(calls) + 1
          BY <3>3, FutureFacts, SMT
        <4>2. v # Dtor
          BY <2>0
        <4> QED
          BY <2>2, <3>3, <4>1, <4>2
      <3> QED
        BY <2>1, <3>1, <3>2, <3>4, <1>DtorAlive
    <2> QED
      <3>1. CASE (\E w \in Shapes : Write(t, w)) \/ WriteResume(t) \/ FlushDrained(t) \/ FlushRPC(t)
        BY <2>3, <3>1 DEF Write, WriteResume, FlushDrained, FlushRPC
      <3>2. CASE (\E w \in Shapes : WriteAndSchedule(t, w) \/ WriteFull(t, w)) \/ Flush(t)
        BY <2>4, <3>2 DEF WriteAndSchedule, WriteFull, Flush
      <3> QED
        BY <3>1, <3>2 DEF Thread
  \* The timer handler schedules an empty call once the destructor runs.
  <1>DtorTimer.
      ASSUME IndInv, TimerHandler
      PROVE  DtorInv'
    <2> USE <1>DtorTimer
    <2> USE DEF threadVars, clientVars, faultVars
    <2>1. /\ ScheduleFlush(Nobody) /\ blocks' = <<>>
          /\ UNCHANGED <<pc, issued, active, dtor, scheduler, future, span>>
      BY DEF TimerHandler, ScheduleFlush
    <2>2. Nobody # Dtor /\ channel \in Seq(Event)
      BY DEF Dtor, Nobody, IndInv, TypeOK, Event
    <2>3. Has(channel', "TERMINATED") => Has(channel, "TERMINATED")
      BY <2>1, <2>2, AppendEvent DEF ScheduleFlush, Event
    <2>4. /\ Len(calls') = Len(calls) + 1 /\ Len(calls) \in Nat
          /\ \A k \in 1 .. Len(calls) : calls'[k] = calls[k]
          /\ calls'[Len(calls) + 1].waiter = Nobody
          /\ calls'[Len(calls) + 1].blocks = blocks
      BY <2>1, FutureFacts, SMT DEF ScheduleFlush
    <2>5. \A k \in 1 .. Len(calls') : k \in 1 .. Len(calls) \/ k = Len(calls) + 1
      BY <2>4, SMT
    <2>6. CASE dtor = "alive"
      <3>1. \A k \in 1 .. Len(calls) : calls[k].waiter # Dtor
        BY <2>2, <2>6 DEF IndInv, OwnerInv, WaiterInv, IsPending
      <3>2. \A k \in 1 .. Len(calls') : calls'[k].waiter # Dtor
        BY <2>2, <2>4, <2>5, <3>1
      <3>3. future'[Dtor] = "none"
        BY <2>1, <2>6 DEF IndInv, OwnerInv
      <3> QED
        BY <2>1, <2>3, <2>6, <3>2, <3>3, <1>DtorAlive
    <2>7. CASE dtor # "alive"
      <3>0. DtorInv /\ blocks = <<>>
        BY <2>7 DEF IndInv, DtorInv
      <3>1. calls'[Len(calls) + 1].blocks = <<>>
        BY <2>4, <3>0
      <3>2. ASSUME NEW k \in 1 .. Len(calls'), calls'[k].waiter = Dtor,
                   NEW j \in k + 1 .. Len(calls')
            PROVE  calls'[j].blocks = <<>>
        <4>1. k \in 1 .. Len(calls) /\ calls[k].waiter = Dtor
          BY <2>2, <2>4, <2>5, <3>2
        <4>2. j \in k + 1 .. Len(calls) \/ j = Len(calls) + 1
          BY <2>4, <4>1, SMT
        <4>3. CASE j \in k + 1 .. Len(calls)
          <5>1. calls[j].blocks = <<>> /\ j \in 1 .. Len(calls)
            BY <2>4, <3>0, <4>1, <4>3, SMT DEF DtorInv
          <5> QED
            BY <2>4, <5>1
        <4> QED
          BY <3>1, <4>2, <4>3
      <3>3. (\A j \in 1 .. Len(calls) : calls[j].blocks = <<>>)
            => \A j \in 1 .. Len(calls') : calls'[j].blocks = <<>>
        BY <2>4, <2>5, <3>1
      <3> QED
        BY <2>1, <2>3, <3>0, <3>2, <3>3 DEF DtorInv
    <2> QED
      BY <2>6, <2>7
  \* The destructor's call is the last one that carries blocks.
  <1>DtorDestroy.
      ASSUME IndInv, Destroy
      PROVE  DtorInv'
    <2> USE <1>DtorDestroy
    <2> USE DEF threadVars, clientVars, faultVars
    <2>0. Dtor \in Waiters /\ Nobody # Dtor /\ channel \in Seq(Event)
      BY DEF Waiters, Dtor, Nobody, IndInv, TypeOK, Event
    <2>1. /\ ScheduleFlush(Dtor) /\ blocks' = <<>> /\ dtor = "alive" /\ dtor' = "draining"
          /\ UNCHANGED <<pc, issued, active, scheduler>>
          /\ \A t \in Threads : pc[t] = "idle"
      BY DEF Destroy
    <2>2. future'[Dtor] = "pending" /\ span'[Dtor].upto = Len(issued)
      BY <2>0, <2>1, FutureFacts, SMT DEF ScheduleFlush
    <2>3. ~ Has(channel', "TERMINATED") /\ scheduler # "terminated"
      <3>1. ~ Has(channel, "TERMINATED") /\ scheduler # "terminated"
        BY <2>1 DEF IndInv, DtorInv
      <3> QED
        BY <2>0, <2>1, <3>1, AppendEvent DEF ScheduleFlush, Event
    <2>4. /\ Len(calls') = Len(calls) + 1 /\ Len(calls) \in Nat
          /\ \A k \in 1 .. Len(calls) : calls'[k] = calls[k]
      BY <2>1, FutureFacts, SMT DEF ScheduleFlush
    <2>5. /\ \A k \in 1 .. Len(calls) : calls[k].waiter # Dtor
          /\ active # <<>> => active[1].waiter # Dtor
      BY <2>0, <2>1 DEF IndInv, OwnerInv, WaiterInv, IsPending
    <2>6. ASSUME NEW k \in 1 .. Len(calls'), calls'[k].waiter = Dtor
          PROVE  k + 1 .. Len(calls') = {}
      <3>1. k = Len(calls) + 1
        BY <2>4, <2>5, <2>6, SMT
      <3> QED
        BY <2>4, <3>1, SMT
    <2> QED
      BY <2>1, <2>2, <2>3, <2>5, <2>6 DEF DtorInv
  \* A call that comes under way keeps its waiter.
  <1>NewCallWaiter.
      ASSUME NEW c
      PROVE  NewCall(c).waiter = c.waiter
    BY <1>NewCallWaiter DEF NewCall
  \* start(): what follows the destructor's call is empty.
  <1>DtorStart.
      ASSUME IndInv, OnCallEnded \/ OnFlushRequest, StartStep
      PROVE  DtorInv'
    <2> USE <1>DtorStart
    <2>0. /\ Dtor \in Waiters /\ Nobody # Dtor /\ channel \in Seq(Event) /\ channel # <<>>
          /\ DtorInv
      BY SchedulerCases DEF Waiters, Dtor, Nobody, IndInv, TypeOK, Event
    <2>1. /\ active = <<>> /\ calls # <<>> /\ calls \in Seq(Call) /\ Len(calls) \in Nat
          /\ UNCHANGED <<pc, dtor, span, blocks, issued>>
          /\ calls' = Tail(calls) /\ scheduler' = scheduler
      BY <2>0, FutureFacts, StartStepCalls DEF StartStep, OnCallEnded, OnFlushRequest
    <2>2. /\ Len(calls') = Len(calls) - 1 /\ Len(calls) > 0
          /\ \A k \in 1 .. Len(calls') : calls'[k] = calls[k + 1]
      BY <2>1, SMT
    <2>3. Has(channel', "TERMINATED") => Has(channel, "TERMINATED")
      <3>1. Tail(channel) \in Seq(Event) /\ (Has(Tail(channel), "TERMINATED") => Has(channel, "TERMINATED"))
        BY <2>0, TailEvent
      <3>2. channel' = Tail(channel) \/ channel' = Append(Tail(channel), "CALL_ENDED")
        BY DEF StartStep, StartNext
      <3>3. Has(Append(Tail(channel), "CALL_ENDED"), "TERMINATED") => Has(Tail(channel), "TERMINATED")
        BY <3>1, AppendEvent DEF Event
      <3> QED
        BY <3>1, <3>2, <3>3
    <2>4. \A k \in 1 .. Len(calls') : k + 1 \in 1 .. Len(calls) /\ k + 1 \in 1 + 1 .. Len(calls)
      BY <2>1, <2>2, SMT
    <2>5. \A k \in 1 .. Len(calls') : calls'[k].waiter = Dtor =>
            \A j \in k + 1 .. Len(calls') : calls'[j].blocks = <<>>
      <3> SUFFICES ASSUME NEW k \in 1 .. Len(calls'), calls'[k].waiter = Dtor,
                          NEW j \in k + 1 .. Len(calls')
                   PROVE  calls'[j].blocks = <<>>
        OBVIOUS
      <3>1. calls[k + 1].waiter = Dtor /\ k + 1 \in 1 .. Len(calls)
        BY <2>2, <2>4
      <3>2. j + 1 \in (k + 1) + 1 .. Len(calls) /\ j \in 1 .. Len(calls')
        BY <2>1, <2>2, SMT
      <3>3. calls[j + 1].blocks = <<>>
        BY <2>0, <3>1, <3>2 DEF DtorInv
      <3> QED
        BY <2>2, <3>2, <3>3
    <2>6. calls[1].waiter = Dtor => \A j \in 1 .. Len(calls') : calls'[j].blocks = <<>>
      <3>1. 1 \in 1 .. Len(calls)
        BY <2>1, <2>2, SMT
      <3> QED
        BY <2>0, <2>2, <2>4, <3>1 DEF DtorInv
    <2>7. future[Dtor] \in {"true", "false"} =>
            calls[1].blocks = <<>> /\ \A j \in 1 .. Len(calls') : calls'[j].blocks = <<>>
      <3>1. 1 \in 1 .. Len(calls)
        BY <2>1, <2>2, SMT
      <3> QED
        BY <2>0, <2>2, <2>4, <3>1 DEF DtorInv
    <2>8. CASE active' = <<>> /\ Resolve(calls[1].waiter, TRUE)
      <3>1. \/ calls[1].waiter # Dtor /\ future'[Dtor] = future[Dtor]
            \/ calls[1].waiter = Dtor /\ future'[Dtor] = "true"
        BY <2>0, <2>8, FutureFacts DEF Resolve
      <3>2. calls[1].waiter = Dtor => dtor = "draining"
        <4>1. calls[1].waiter = Dtor => future[Dtor] = "pending"
          BY <2>0, <2>1, <2>2, FutureFacts, SMT DEF FutureInv, WaiterInv, IsPending
        <4> QED
          BY <2>0, <4>1 DEF IndInv, TypeOK, DtorInv, OwnerInv
      <3> QED
        BY <2>0, <2>1, <2>3, <2>5, <2>6, <2>7, <2>8, <3>1, <3>2 DEF DtorInv
    <2>9. CASE calls[1].blocks # <<>> /\ active' # <<>> /\ active'[1] = NewCall(calls[1])
               /\ future' = future
      <3>1. active'[1].waiter = calls[1].waiter
        <4>1. active'[1] = NewCall(calls[1])
          BY <2>9
        <4> QED
          BY <4>1, <1>NewCallWaiter, Zenon
      <3> QED
        BY <2>0, <2>1, <2>3, <2>5, <2>6, <2>7, <2>9, <3>1 DEF DtorInv
    <2> QED
      BY <2>0, <2>8, <2>9, StartStepCalls
  \* end(): when the destructor's call ends no call with blocks is left.
  <1>DtorFinished.
      ASSUME IndInv, NEW i \in DOMAIN active, ProceedFinished(i)
      PROVE  DtorInv'
    <2> USE <1>DtorFinished
    <2> DEFINE c == active[1]
    <2>0. /\ Dtor \in Waiters /\ Nobody # Dtor /\ channel \in Seq(Event) /\ DtorInv
      BY DEF Waiters, Dtor, Nobody, IndInv, TypeOK, Event
    <2>1. /\ active # <<>> /\ active' = <<>> /\ i = 1 /\ c \in CallData
          /\ UNCHANGED <<pc, blocks, issued, calls, dtor, span>>
      BY FinishedApplied
    <2>2. /\ Resolve(c.waiter, ~ c.broken) /\ scheduler' = scheduler
          /\ channel' = Append(channel, "CALL_ENDED")
      BY <2>1 DEF ProceedFinished
    <2>3. Has(channel', "TERMINATED") => Has(channel, "TERMINATED")
      BY <2>0, <2>2, AppendEvent DEF Event
    <2>4. \/ c.waiter # Dtor /\ future'[Dtor] = future[Dtor]
          \/ c.waiter = Dtor /\ future'[Dtor] \in {"true", "false"}
      BY <2>0, <2>2, FutureFacts DEF Resolve
    <2>5. future[Dtor] \notin {"true", "false"}
      BY <2>0, <2>1 DEF DtorInv
    <2>6. c.waiter = Dtor => dtor = "draining"
      <3>1. c.waiter = Dtor => future[Dtor] = "pending"
        BY <2>0, <2>1, FutureFacts DEF FutureInv, WaiterInv, IsPending
      <3> QED
        BY <2>0, <3>1 DEF IndInv, TypeOK, DtorInv, OwnerInv
    <2> QED
      BY <2>0, <2>1, <2>2, <2>3, <2>4, <2>5, <2>6 DEF DtorInv
  \* A step of the call under way does not concern the destructor.
  <1>DtorCall.
      ASSUME IndInv, NEW i \in DOMAIN active, CallStep(i)
      PROVE  DtorInv'
    <2> USE <1>DtorCall
    <2>1. /\ active # <<>> /\ active' # <<>> /\ active'[1].waiter = active[1].waiter
          /\ UNCHANGED <<pc, blocks, issued, calls, channel, scheduler, dtor, future, span>>
      BY CallStepFrame, CallStepFields
    <2> QED
      BY <2>1 DEF IndInv, DtorInv
  <1> SUFFICES ASSUME IndInv, [Next]_vars PROVE DtorInv'
    OBVIOUS
  <1> USE DEF threadVars, clientVars, faultVars
  <1>0. channel \in Seq(Event) /\ DtorInv /\ TypeOK
    BY DEF IndInv, TypeOK, Event
  <1>1. CASE UNCHANGED <<pc, blocks, issued, calls, active, future, span, dtor, scheduler, channel>>
    BY <1>1, <1>DtorFrame
  <1>2. CASE OnCallEnded \/ OnFlushRequest
    <2>1. CASE StartStep
      BY <1>2, <2>1, <1>DtorStart
    <2>2. CASE ~ StartStep
      <3>1. channel # <<>> /\ UNCHANGED <<pc, blocks, issued, calls, active, future, span, dtor>>
        BY <1>2, <2>2, SchedulerCases
      <3>2. scheduler' = scheduler /\ channel' = Tail(channel)
        BY <1>2, <2>2, SchedulerCases DEF OnCallEnded, OnFlushRequest
      <3>3. Has(channel', "TERMINATED") => Has(channel, "TERMINATED")
        BY <1>0, <3>1, <3>2, TailEvent
      <3> QED
        BY <3>1, <3>2, <3>3, <1>DtorFrame
    <2> QED
      BY <2>1, <2>2
  <1>3. CASE OnTerminated
    <2>1. channel # <<>> /\ Head(channel) = "TERMINATED"
          /\ UNCHANGED <<pc, blocks, issued, calls, active, future, span, dtor>>
      BY <1>3 DEF OnTerminated
    <2>2. Has(channel, "TERMINATED")
      BY <1>0, <2>1, TailEvent
    <2> QED
      BY <1>0, <2>1, <2>2 DEF DtorInv
  <1>4. CASE DestroySend
    <2>1. /\ dtor = "draining" /\ future[Dtor] \in {"true", "false"} /\ dtor' = "joining"
          /\ UNCHANGED <<pc, blocks, issued, calls, active, future, span, scheduler>>
      BY <1>4 DEF DestroySend
    <2> QED
      BY <1>0, <2>1 DEF DtorInv
  <1>5. CASE DestroyJoin \/ DestroyStop
    <2>1. /\ dtor \in {"joining", "shutdown"} /\ dtor' \in {"shutdown", "destroyed"}
          /\ UNCHANGED <<pc, blocks, issued, calls, active, future, span, scheduler, channel>>
      BY <1>5 DEF DestroyJoin, DestroyStop
    <2> QED
      BY <1>0, <2>1 DEF DtorInv
  <1>6. ASSUME NEW i \in DOMAIN active, Proceed(i) \/ Server(i) PROVE DtorInv'
    BY <1>6, <1>DtorFinished, <1>DtorCall DEF Proceed, Server, CallStep
  <1>7. CASE Faults
    BY <1>7, <1>DtorCall DEF Faults, CallStep
  <1>8. ASSUME NEW j \in DOMAIN late, ServerLateWrite(j) PROVE DtorInv'
    BY <1>1, <1>8 DEF ServerLateWrite
  <1>9. CASE TimerExpire
    BY <1>1, <1>9 DEF TimerExpire
  <1>10. CASE UNCHANGED vars
    BY <1>1, <1>10 DEF vars
  <1> QED
    BY <1>2, <1>3, <1>4, <1>5, <1>6, <1>7, <1>8, <1>9, <1>10, <1>DtorThread, <1>DtorTimer, <1>DtorDestroy
    DEF Next, Scheduler, Destructor, Destroyed

-----------------------------------------------------------------------------
(* The theorems.                                                           *)

\* The constructor establishes the inductive invariant.
LEMMA InitInv == Init => IndInv
  <1> SUFFICES ASSUME Init PROVE IndInv
    OBVIOUS
  <1>0. Dtor \in Waiters /\ Threads \subseteq Waiters /\ <<>> \in Seq(Block) /\ Len(<<>>) = 0
    BY EmptySeq DEF Waiters
  <1>1. TypeOK
    <2>1. /\ \A S : <<>> \in Seq(S)
          /\ NoSpan \in [from : Nat, upto : Nat]
      BY EmptySeq DEF NoSpan
    <2>2. /\ pc \in [Threads -> {"idle", "full", "drain", "rpc"}]
          /\ arg \in [Threads -> Shapes \cup {<<>>}]
          /\ future \in [Waiters -> {"none", "pending", "true", "false"}]
          /\ span \in [Waiters -> [from : Nat, upto : Nat]]
      BY <2>1 DEF Init
    <2>3. /\ blocks \in Seq(Block) /\ issued \in Seq(Block) /\ applied \in Seq(Block)
          /\ calls \in Seq([blocks : Seq(Block), upto : Nat, waiter : Waiters \cup {Nobody}])
          /\ active \in Seq(CallData) /\ late \in Seq(Seq(Request))
          /\ channel \in Seq({"FLUSH_REQUEST", "CALL_ENDED", "TERMINATED"})
      BY <2>1, Zenon DEF Init
    <2>4. /\ mtxBlocks \in Threads \cup {Nobody}
          /\ blocksQueueSize \in Nat /\ cacheSize \in Int
          /\ scheduler \in {"running", "terminated"} /\ timer \in {"idle", "armed"}
          /\ handler \in {"none", "ready"}
          /\ dtor \in {"alive", "draining", "joining", "shutdown", "destroyed"}
          /\ flushes \in Nat /\ breaks \in Nat /\ errors \in Nat
      BY SMT DEF Init
    <2>5. flushing \in BOOLEAN
      BY Zenon DEF Init
    <2> QED
      BY <2>2, <2>3, <2>4, <2>5, Zenon DEF TypeOK
  <1>2. SchedulerInv
    BY SMT DEF Init, SchedulerInv, Has, AtMostOnce
  <1>3. CallInv
    BY DEF Init, CallInv
  <1>4. Taken = 0 /\ Popped = 0 /\ Started = 0
    BY <1>0, SMT DEF Init, Taken, Popped, Started
  <1>5. Segment(<<>>, <<>>, 0, 0) /\ Chain(<<>>, <<>>, 0, 0)
    BY <1>0, ChainEmpty, SMT DEF Segment
  <1>6. QueuesInv
    BY <1>0, <1>4, <1>5 DEF Init, QueuesInv
  <1>7. ServerInv
    BY <1>0, <1>4, <1>5 DEF Init, ServerInv
  <1>8. OwnerInv /\ WaiterInv /\ ReadyInv
    BY <1>0, SMT DEF Init, OwnerInv, WaiterInv, ReadyInv
  <1>9. DtorInv
    BY <1>0, SMT DEF Init, DtorInv, Has
  <1> QED
    BY <1>1, <1>2, <1>3, <1>6, <1>7, <1>8, <1>9 DEF IndInv

\* The inductive invariant holds of every state of async_client and of the server
\* side of its stream, for any number of threads, writes and faults.
THEOREM Inductive == Spec => []IndInv
  <1>1. IndInv /\ [Next]_vars => IndInv'
    BY TypeStep, SchedulerStep, CallInvStep, QueuesStep, FutureStep, DtorStep DEF IndInv, FutureInv
  <1> QED
    BY InitInv, <1>1, PTL DEF Spec

\* Every variable of async_client keeps its type, and blocks_queue_size_ never
\* wraps below zero.
THEOREM TypeCorrect == Spec => []TypeOK
  <1>1. IndInv => TypeOK
    BY DEF IndInv
  <1> QED
    BY Inductive, <1>1, PTL

\* Without faults the server applies the writes of async_client::write in the
\* order in which they were buffered, each once and none skipped.
THEOREM OrderPreserved == Spec => []InOrder
  <1>1. IndInv => InOrder
    <2> SUFFICES ASSUME IndInv, NoFaults PROVE InOrder
      BY DEF InOrder
    <2>1. Segment(issued, applied, 0, Len(applied))
      BY DEF IndInv, ServerInv
    <2>2. applied \in Seq(Block)
      BY DEF IndInv, TypeOK
    <2>3. DOMAIN applied = 1 .. Len(applied) /\ Len(applied) \in Nat
      BY <2>2, SMT
    <2> QED
      BY <2>1, <2>3, SMT DEF InOrder, Segment
  <1> QED
    BY Inductive, <1>1, PTL

\* Without faults async_client::flush and fsync go on to their own RPC only when
\* the server has applied every write buffered before they were called.
THEOREM FlushDurable == Spec => []FlushCovers
  <1>1. IndInv => FlushCovers
    <2> SUFFICES ASSUME IndInv, NoFaults, NEW t \in Threads, pc[t] = "rpc"
                 PROVE  Len(applied) >= span[t].upto
      BY DEF FlushCovers
    <2>1. future[t] \in {"true", "false"} /\ t \in Waiters
      BY DEF IndInv, OwnerInv, Waiters
    <2>2. span[t].upto <= Len(applied)
      BY <2>1 DEF IndInv, ReadyInv
    <2>3. span[t].upto \in Nat /\ Len(applied) \in Nat
      BY <2>1, FutureFacts
    <2> QED
      BY <2>2, <2>3
  <1> QED
    BY Inductive, <1>1, PTL

\* async_client::scheduler has at most one call_data under way, and its local
\* variable flushing says so exactly; faults make no difference.
THEOREM SingleCall == Spec => []OneCallAtATime
  <1>1. IndInv => OneCallAtATime
    <2> SUFFICES ASSUME IndInv PROVE OneCallAtATime
      OBVIOUS
    <2>1. SchedulerInv /\ flushing \in BOOLEAN /\ channel \in Seq(Event) /\ active \in Seq(CallData)
      BY DEF IndInv, TypeOK, Event
    <2>2. DOMAIN channel = 1 .. Len(channel)
      BY <2>1, SMT
    <2>3. Len(active) <= 1
      <3>1. CASE active = <<>>
        BY <3>1, SMT
      <3>2. CASE Len(active) = 1
        BY <3>2, SMT
      <3> QED
        BY <2>1, <3>1, <3>2 DEF SchedulerInv
    <2> QED
      BY <2>1, <2>2, <2>3 DEF OneCallAtATime, SchedulerInv, Has
  <1> QED
    BY Inductive, <1>1, PTL

\* async_client::scheduler never forgets a call_data of calls_; faults make no
\* difference.
THEOREM WakeupKept == Spec => []NoLostWakeup
  <1>1. IndInv => NoLostWakeup
    <2> SUFFICES ASSUME IndInv PROVE NoLostWakeup
      OBVIOUS
    <2>1. SchedulerInv /\ flushing \in BOOLEAN /\ channel \in Seq(Event)
      BY DEF IndInv, TypeOK, Event
    <2>2. DOMAIN channel = 1 .. Len(channel)
      BY <2>1, SMT
    <2> QED
      BY <2>1, <2>2 DEF NoLostWakeup, SchedulerInv, Has
  <1> QED
    BY Inductive, <1>1, PTL

\* When TERMINATED was sent, all writes were applied, unless something failed.
LEMMA AllApplied ==
  ASSUME IndInv, NoFaults, scheduler = "terminated" \/ Has(channel, "TERMINATED")
  PROVE  applied = issued
  <1>1. /\ future[Dtor] \in {"true", "false"} /\ span[Dtor].upto = Len(issued) /\ Dtor \in Waiters
    BY DEF IndInv, DtorInv, Waiters
  <1>2. Len(issued) <= Len(applied)
    BY <1>1 DEF IndInv, ReadyInv
  <1>3. /\ applied \in Seq(Block) /\ issued \in Seq(Block)
        /\ Segment(issued, applied, 0, Len(applied))
    BY DEF IndInv, TypeOK, ServerInv
  <1>4. Len(applied) = Len(issued) /\ \A i \in 1 .. Len(applied) : applied[i] = issued[i]
    BY <1>2, <1>3, SMT DEF Segment
  <1> QED
    BY <1>3, <1>4, SeqEqual

\* The scheduler thread of async_client ends only when nothing that was written is
\* left in the client, also when the timer fires during destruction.
THEOREM TerminationClean == Spec => []CleanTermination
  <1>1. IndInv => CleanTermination
    <2> SUFFICES ASSUME IndInv, scheduler = "terminated" PROVE CleanTermination
      BY DEF CleanTermination
    <2>1. /\ DtorInv /\ dtor \in {"joining", "shutdown", "destroyed"}
          /\ DOMAIN calls = 1 .. Len(calls)
      <3>1. DtorInv /\ dtor \in {"joining", "shutdown", "destroyed"}
        BY DEF IndInv, DtorInv
      <3>2. calls \in Seq(Call)
        BY FutureFacts
      <3> QED
        BY <3>1, <3>2, SMT
    <2>2. active = <<>> /\ blocks = <<>> /\ \A i \in DOMAIN calls : calls[i].blocks = <<>>
      BY <2>1 DEF DtorInv
    <2> QED
      BY <2>2, AllApplied DEF CleanTermination
  <1> QED
    BY Inductive, <1>1, PTL

-----------------------------------------------------------------------------
(* The refinement: without faults AsyncClient implements WriteBehind.      *)

\* A step of async_client that buffers no write, applies none, ends no scheduler
\* and leaves the flushes where they are is no step of WriteBehind.
LEMMA Stutters ==
  ASSUME UNCHANGED <<issued, applied, scheduler>>, Promise' = Promise
  PROVE  [WB!Next]_(WB!vars)
  BY DEF WB!vars, Promise

\* write(), once it buffers its block, is an Accept.
LEMMA Accepts ==
  ASSUME IndInv, TypeOK', dtor = "alive", NEW bs, NEW n, NEW w, Emplace(bs, n, w),
         UNCHANGED <<applied, scheduler>>, Promise' = Promise
  PROVE  WB!Accept
  <1>1. scheduler # "terminated" /\ issued \in Seq(Block)
    BY DEF IndInv, DtorInv, TypeOK
  <1>2. PICK b : issued' = Append(issued, b)
    BY DEF Emplace
  <1>3. issued' \in Seq(Block)
    BY DEF TypeOK
  <1>4. Len(issued') = Len(issued) + 1 /\ issued'[Len(issued')] = b /\ issued' # <<>>
    BY <1>1, <1>2, SMT
  <1>5. b \in Block
    BY <1>1, <1>3, <1>4, ElementOfSeq, SMT
  <1> QED
    BY <1>1, <1>2, <1>4, <1>5 DEF WB!Accept, Promise

\* A write of the server is a Store.
LEMMA Stores ==
  ASSUME IndInv, IndInv', NoFaults', UNCHANGED <<issued, scheduler>>, Promise' = Promise,
         NEW bs \in Seq(Block), applied' = applied \o bs
  PROVE  WB!Store
  <1>1. /\ applied \in Seq(Block) /\ issued \in Seq(Block) /\ applied' \in Seq(Block)
        /\ Segment(issued, applied', 0, Len(applied'))
    <2>1. applied \in Seq(Block) /\ issued \in Seq(Block)
      BY DEF IndInv, TypeOK
    <2>2. applied' \in Seq(Block) /\ Segment(issued', applied', 0, Len(applied'))
      BY DEF IndInv, TypeOK, ServerInv
    <2> QED
      BY <2>1, <2>2
  <1>2. Len(applied) <= Len(applied') /\ Len(applied') <= Len(issued)
        /\ Len(applied) \in Nat /\ Len(applied') \in Nat /\ Len(issued) \in Nat
    BY <1>1, SMT DEF Segment
  <1>3. applied' = SubSeq(issued, 1, Len(applied'))
    <2> DEFINE s == SubSeq(issued, 1, Len(applied'))
    <2>1. s \in Seq(Block) /\ Len(s) = Len(applied')
          /\ \A k \in 1 .. Len(applied') : s[k] = issued[k]
      BY <1>1, <1>2, SubSeqProperties, SMT
    <2>2. \A k \in 1 .. Len(applied') : applied'[k] = issued[k]
      BY <1>1, SMT DEF Segment
    <2> HIDE DEF s
    <2>3. applied' = s
      BY <1>1, <2>1, <2>2, SeqEqual
    <2> QED
      BY <2>3 DEF s
  <1>4. \E n \in Len(applied) .. Len(issued) : applied' = SubSeq(issued, 1, n)
    BY <1>2, <1>3, SMT
  <1> QED
    BY <1>4 DEF WB!Store, Promise

\* Without breaks and errors in the bounds there are never faults.
LEMMA NoFaultsStep ==
  ASSUME MaxBreaks = 0, MaxErrors = 0, NoFaults, [Next]_vars
  PROVE  NoFaults'
  <1> USE DEF clientVars, threadVars, faultVars
  <1>0. breaks = 0 /\ errors = 0
    BY DEF NoFaults
  <1>1. ASSUME NEW t \in Threads, Thread(t) PROVE UNCHANGED <<breaks, errors>>
    BY <1>1 DEF Thread, Write, WriteAndSchedule, WriteFull, WriteResume, Flush, FlushDrained, FlushRPC
  <1>2. CASE Scheduler \/ TimerExpire \/ TimerHandler \/ Destructor \/ Destroyed
    BY <1>2 DEF NoFaults, Scheduler, OnCallEnded, OnFlushRequest, OnTerminated, TimerExpire,
       TimerHandler, Destructor, Destroy, DestroySend, DestroyJoin, DestroyStop, Destroyed, vars
  <1>3. ASSUME NEW i, Proceed(i) PROVE UNCHANGED <<breaks, errors>>
    BY <1>3 DEF Proceed, ProceedCreate, ProceedPop, ProceedWrite, ProceedLast,
       ProceedWritesDone, ProceedFinished
  <1>4. ASSUME NEW i, Server(i) PROVE UNCHANGED <<breaks, errors>>
    BY <1>4 DEF Server, ServerWrite, ServerFinish
  <1>5. ASSUME NEW j, ServerLateWrite(j) PROVE UNCHANGED <<breaks, errors>>
    BY <1>5 DEF ServerLateWrite
  <1>6. CASE Faults
    BY <1>0, <1>6, SMT DEF Faults, ServerWrite, StreamBreak
  <1>7. CASE UNCHANGED vars
    BY <1>7 DEF NoFaults, vars
  <1> QED
    BY <1>0, <1>1, <1>2, <1>3, <1>4, <1>5, <1>6, <1>7 DEF Next, NoFaults

\* A step of thread t moves no flush but its own.
LEMMA PromiseOf ==
  ASSUME IndInv, NEW t \in Threads, NEW p, NEW v, pc' = [pc EXCEPT ![t] = p],
         span' = span \/ \E r : span' = [span EXCEPT ![t] = r],
         v = IF p \in {"drain", "rpc"} THEN span'[t].upto ELSE -1
  PROVE  Promise' = [Promise EXCEPT ![t] = v]
  <1>1. /\ pc \in [Threads -> {"idle", "full", "drain", "rpc"}]
        /\ span \in [Waiters -> [from : Nat, upto : Nat]] /\ Threads \subseteq Waiters
    BY FutureFacts DEF Waiters
  <1>2. pc'[t] = p /\ \A u \in Threads : u # t => pc'[u] = pc[u] /\ span'[u] = span[u]
    BY <1>1
  <1> QED
    BY <1>2 DEF Promise

\* The steps of write(), flush() and fsync().
LEMMA ThreadRefines ==
  ASSUME IndInv, TypeOK', NoFaults, NEW t \in Threads, Thread(t)
  PROVE  [WB!Next]_(WB!vars)
  <1> USE DEF clientVars, threadVars, faultVars
  <1>0. /\ pc \in [Threads -> {"idle", "full", "drain", "rpc"}] /\ t \in Waiters
        /\ span \in [Waiters -> [from : Nat, upto : Nat]] /\ t # Nobody
        /\ future \in [Waiters -> {"none", "pending", "true", "false"}]
        /\ Promise[t] = IF pc[t] \in {"drain", "rpc"} THEN span[t].upto ELSE -1
    BY FutureFacts, AsyncClientAssumption DEF Waiters, Promise
  <1>1. pc[t] # "idle" => dtor = "alive"
    BY <1>0 DEF IndInv, DtorInv, TypeOK
  <1>2. dtor = "alive" => scheduler # "terminated"
    BY DEF IndInv, DtorInv
  <1>3. ASSUME NEW w \in Shapes, Write(t, w) \/ WriteAndSchedule(t, w) PROVE WB!Accept
    <2>1. /\ dtor = "alive" /\ UNCHANGED <<applied, scheduler>>
          /\ \E bs, n : Emplace(bs, n, w)
          /\ UNCHANGED <<pc, span>>
      BY <1>3 DEF Write, WriteAndSchedule, ScheduleFlush
    <2>2. Promise' = Promise
      BY <2>1 DEF Promise
    <2> QED
      BY <2>1, <2>2, Accepts
  <1>4. ASSUME NEW w \in Shapes, WriteFull(t, w) PROVE [WB!Next]_(WB!vars)
    <2>1. /\ pc[t] = "idle" /\ pc' = [pc EXCEPT ![t] = "full"]
          /\ \E r : span' = [span EXCEPT ![t] = r]
          /\ UNCHANGED <<issued, applied, scheduler>>
      BY <1>0, <1>4 DEF WriteFull, ScheduleFlush
    <2>2. Promise' = [Promise EXCEPT ![t] = -1]
      BY <2>1, PromiseOf
    <2>3. Promise' = Promise
      BY <1>0, <2>1, <2>2 DEF Promise
    <2> QED
      BY <2>1, <2>3, Stutters
  <1>5. CASE WriteResume(t)
    <2>1. /\ pc[t] = "full" /\ pc' = [pc EXCEPT ![t] = "idle"]
          /\ \E r : span' = [span EXCEPT ![t] = r]
          /\ UNCHANGED <<applied, scheduler>>
          /\ Emplace(blocks, blocksQueueSize, arg[t])
      BY <1>5 DEF WriteResume
    <2>2. Promise' = [Promise EXCEPT ![t] = -1]
      BY <2>1, PromiseOf
    <2>3. Promise' = Promise
      BY <1>0, <2>1, <2>2 DEF Promise
    <2>4. WB!Accept
      BY <1>1, <2>1, <2>3, Accepts
    <2> QED
      BY <2>4 DEF WB!Next
  <1>6. CASE Flush(t)
    <2>1. /\ pc[t] = "idle" /\ dtor = "alive" /\ pc' = [pc EXCEPT ![t] = "drain"]
          /\ span' = [span EXCEPT ![t] = [from |-> Len(issued) - Len(blocks), upto |-> Len(issued)]]
          /\ UNCHANGED <<issued, applied, scheduler>>
      BY <1>0, <1>6 DEF Flush, ScheduleFlush
    <2>2. span'[t].upto = Len(issued)
      BY <1>0, <2>1
    <2>3. Promise' = [Promise EXCEPT ![t] = Len(issued)]
      BY <2>1, <2>2, PromiseOf
    <2>4. WB!BeginFlush(t)
      BY <1>0, <1>2, <2>1, <2>3 DEF WB!BeginFlush, Promise
    <2> QED
      BY <2>4 DEF WB!Next
  <1>7. CASE FlushDrained(t)
    <2>1. /\ pc[t] = "drain" /\ pc' = [pc EXCEPT ![t] = "rpc"]
          /\ UNCHANGED <<issued, applied, scheduler, span>>
      BY <1>7 DEF FlushDrained
    <2>2. Promise' = [Promise EXCEPT ![t] = span[t].upto]
      BY <2>1, PromiseOf
    <2>3. Promise' = Promise
      BY <1>0, <2>1, <2>2 DEF Promise
    <2> QED
      BY <2>1, <2>3, Stutters
  <1>8. CASE FlushRPC(t)
    <2>1. /\ pc[t] = "rpc" /\ pc' = [pc EXCEPT ![t] = "idle"]
          /\ \E r : span' = [span EXCEPT ![t] = r]
          /\ UNCHANGED <<issued, applied, scheduler>>
      BY <1>8 DEF FlushRPC
    <2>2. Promise' = [Promise EXCEPT ![t] = -1]
      BY <2>1, PromiseOf
    <2>3. span[t].upto <= Len(applied) /\ span[t].upto \in Nat
      BY <1>0, <2>1 DEF IndInv, OwnerInv, ReadyInv
    <2>4. Promise[t] = span[t].upto /\ Promise[t] # -1
      BY <1>0, <2>1, <2>3, SMT
    <2>5. WB!EndFlush(t)
      BY <2>1, <2>2, <2>3, <2>4 DEF WB!EndFlush, Promise
    <2> QED
      BY <2>5 DEF WB!Next
  <1> QED
    BY <1>3, <1>4, <1>5, <1>6, <1>7, <1>8 DEF Thread, WB!Next

\* Without faults every step of the client and of the server is a step of
\* WriteBehind or leaves it alone.
LEMMA StepRefines ==
  ASSUME IndInv, IndInv', NoFaults, NoFaults', [Next]_vars
  PROVE  [WB!Next]_(WB!vars)
  <1> USE DEF clientVars, threadVars, faultVars
  <1>0. TypeOK /\ TypeOK'
    BY DEF IndInv
  <1>p. UNCHANGED <<pc, span>> => Promise' = Promise
    BY DEF Promise
  <1>1. ASSUME NEW t \in Threads, Thread(t) PROVE [WB!Next]_(WB!vars)
    BY <1>0, <1>1, ThreadRefines
  <1>2. CASE OnCallEnded \/ OnFlushRequest
    BY <1>2, <1>p, Stutters DEF OnCallEnded, OnFlushRequest
  <1>3. CASE OnTerminated
    <2>1. CASE UNCHANGED scheduler
      BY <1>3, <1>p, <2>1, Stutters DEF OnTerminated
    <2>2. CASE scheduler' = "terminated" /\ scheduler # "terminated"
      <3>1. channel \in Seq(Event)
        BY <1>0 DEF TypeOK, Event
      <3>2. Has(channel, "TERMINATED")
        BY <1>3, <3>1, TailEvent DEF OnTerminated
      <3>3. applied = issued
        BY <3>2, AllApplied
      <3>4. UNCHANGED <<issued, applied, pc, span>>
        BY <1>3 DEF OnTerminated
      <3>5. WB!Close
        BY <1>p, <2>2, <3>3, <3>4 DEF WB!Close, Promise
      <3> QED
        BY <3>5 DEF WB!Next
    <2> QED
      BY <1>3, <2>1, <2>2 DEF OnTerminated
  <1>4. ASSUME NEW i \in DOMAIN active, Proceed(i) \/ ServerFinish(i) PROVE [WB!Next]_(WB!vars)
    <2>1. UNCHANGED <<issued, applied, scheduler, pc, span>>
      BY <1>4 DEF Proceed, ProceedCreate, ProceedPop, ProceedWrite, ProceedLast,
                  ProceedWritesDone, ProceedFinished, ServerFinish
    <2> QED
      BY <1>p, <2>1, Stutters
  <1>5. ASSUME NEW i \in DOMAIN active, ServerWrite(i, FALSE) PROVE [WB!Next]_(WB!vars)
    <2>1. active[i] \in CallData
      BY ActiveOne DEF IndInv
    <2>2. active[i].stream \in Seq(Request) /\ active[i].stream # <<>>
      BY <1>5, <2>1 DEF ServerWrite, CallData
    <2>3. Head(active[i].stream) \in Request
      BY <2>2, HeadTailProperties
    <2>4. Head(active[i].stream).blocks \in Seq(Block)
      BY <2>3 DEF Request
    <2>5. /\ UNCHANGED <<issued, scheduler, pc, span>>
          /\ applied' = applied \o Head(active[i].stream).blocks
      BY <1>5 DEF ServerWrite
    <2>6. WB!Store
      BY <1>p, <2>4, <2>5, Stores
    <2> QED
      BY <2>6 DEF WB!Next
  <1>6. ASSUME NEW j \in DOMAIN late PROVE FALSE
    <2>1. late = <<>>
      BY DEF IndInv, ServerInv
    <2> QED
      BY <1>6, <2>1, SMT
  <1>7. CASE Faults
    <2>1. breaks \in Nat /\ errors \in Nat
      BY <1>0 DEF TypeOK
    <2> QED
      BY <1>7, <2>1, SMT DEF Faults, ServerWrite, StreamBreak, NoFaults
  <1>8. CASE TimerExpire \/ TimerHandler \/ DestroySend \/ DestroyJoin \/ DestroyStop
    <2>1. UNCHANGED <<issued, applied, scheduler, pc, span>>
      BY <1>8 DEF TimerExpire, TimerHandler, ScheduleFlush, DestroySend, DestroyJoin, DestroyStop
    <2> QED
      BY <1>p, <2>1, Stutters
  <1>9. CASE Destroy
    <2>1. UNCHANGED <<issued, applied, scheduler, pc>> /\ \E r : span' = [span EXCEPT ![Dtor] = r]
      BY <1>9 DEF Destroy, ScheduleFlush, Dtor, Nobody
    <2>2. \A t \in Threads : span'[t] = span[t]
      <3>1. span \in [Waiters -> [from : Nat, upto : Nat]]
        BY FutureFacts
      <3> QED
        BY <2>1, <3>1, AsyncClientAssumption DEF Waiters
    <2>3. Promise' = Promise
      BY <2>1, <2>2 DEF Promise
    <2> QED
      BY <2>1, <2>3, Stutters
  <1>10. CASE UNCHANGED vars
    <2>1. UNCHANGED <<issued, applied, scheduler, pc, span>>
      BY <1>10 DEF vars
    <2> QED
      BY <1>p, <2>1, Stutters
  <1> QED
    BY <1>1, <1>2, <1>3, <1>4, <1>5, <1>6, <1>7, <1>8, <1>9, <1>10
       DEF Next, Scheduler, Server, Destructor, Destroyed

\* When no stream breaks and no write fails on the server, async_client
\* implements WriteBehind: for every number of threads, writes and flushes, any
\* cache size, threshold and block size.
THEOREM Refinement ==
  ASSUME MaxBreaks = 0, MaxErrors = 0
  PROVE  Spec => ImplementsWriteBehind
  <1>1. Init => WB!Init /\ NoFaults
    <2> SUFFICES ASSUME Init PROVE WB!Init /\ NoFaults
      OBVIOUS
    <2>1. Promise = [t \in Threads |-> -1]
      BY DEF Init, Promise
    <2> QED
      BY <2>1 DEF Init, WB!Init, NoFaults, Promise
  <1>2. NoFaults /\ [Next]_vars => NoFaults'
    BY NoFaultsStep
  <1>3. Spec => []NoFaults
    BY <1>1, <1>2, PTL DEF Spec
  <1>4. IndInv /\ IndInv' /\ NoFaults /\ NoFaults' /\ [Next]_vars => [WB!Next]_(WB!vars)
    BY StepRefines
  <1> QED
    BY <1>1, <1>3, <1>4, Inductive, PTL DEF Spec, ImplementsWriteBehind, WB!Spec

-----------------------------------------------------------------------------
(* The bytes of the cache and the truth of the futures.                    *)

\* The queues begin within the history.
LEMMA PoppedInside ==
  ASSUME IndInv
  PROVE  /\ Popped \in 0 .. Len(issued) /\ Taken \in 0 .. Len(issued)
         /\ 0 \in 0 .. Len(issued) /\ Len(issued) \in 0 .. Len(issued)
  <1>1. /\ issued \in Seq(Block) /\ calls \in Seq(Call)
        /\ Len(issued) \in Nat /\ Len(blocks) \in Nat /\ Popped \in Nat /\ Taken \in Nat
        /\ Segment(issued, blocks, Taken, Len(issued))
        /\ active # <<>> => Segment(issued, active[1].blocks, Popped, active[1].upto)
        /\ Chain(issued, calls, Started, Taken)
    BY QueueFacts
  <1>2. Taken <= Len(issued)
    BY <1>1, SMT DEF Segment
  <1>3. ASSUME NEW bs \in Seq(Block), NEW b, Segment(issued, bs, Popped, b)
        PROVE  Popped <= Len(issued)
    BY <1>1, <1>3, SMT DEF Segment
  <1>4. Popped <= Len(issued)
    <2>1. CASE active # <<>>
      <3>1. active[1].blocks \in Seq(Block)
        BY <2>1, FutureFacts DEF CallData
      <3> QED
        BY <1>1, <1>3, <2>1, <3>1
    <2>2. CASE active = <<>> /\ calls # <<>>
      <3>1. Chain(issued, calls, Popped, Taken)
        BY <1>1, <2>2 DEF Started
      <3>2. Segment(issued, calls[1].blocks, Popped, calls[1].upto)
        BY <1>1, <2>2, <3>1, ChainTail
      <3>3. calls[1] \in Call
        BY <1>1, <2>2, ElementOfSeq, SMT
      <3> QED
        BY <1>3, <3>2, <3>3 DEF Call
    <2>3. CASE active = <<>> /\ calls = <<>>
      BY <1>2, <2>3 DEF Popped
    <2> QED
      BY <2>1, <2>2, <2>3
  <1> QED
    BY <1>1, <1>2, <1>4, SMT

\* What ByteInv says, in terms of the history.
LEMMA ByteFacts ==
  ASSUME IndInv, ByteInv
  PROVE  /\ \A n \in 1 .. Len(issued) :
              issued[n].id = n /\ issued[n].end = TotalIn(issued, n - 1) + issued[n].size
         /\ blocksQueueSize = TotalIn(issued, Len(issued)) - TotalIn(issued, Taken)
         /\ cacheSize = TotalIn(issued, Len(issued)) - TotalIn(issued, Popped)
  BY DEF ByteInv, Total, TotalIn

\* Every step keeps the counters exact: cache_size_ loses a block when it is
\* popped, blocks_queue_size_ is reset when a call takes the blocks.
LEMMA ByteStep == IndInv /\ ByteInv /\ [Next]_vars => ByteInv'
  \* A write more does not change the bytes of the ones before it.
  <1>TotalKept.
      ASSUME IndInv, issued' = issued \/ \E x \in Block : issued' = Append(issued, x),
             NEW n \in 0 .. Len(issued)
      PROVE  /\ TotalIn(issued', n) = TotalIn(issued, n) /\ TotalIn(issued, n) \in Nat
             /\ n \in Nat /\ (n # 0 => issued'[n] = issued[n])
    <2> USE <1>TotalKept
    <2>1. issued \in Seq(Block) /\ Len(issued) \in Nat
      BY QueueFacts
    <2>2. n \in Nat /\ (n # 0 => n \in 1 .. Len(issued))
      BY <2>1, SMT
    <2>3. n # 0 => issued'[n] = issued[n] /\ issued[n] \in Block
      <3>1. n # 0 => issued[n] \in Block
        BY <2>1, <2>2, ElementOfSeq
      <3>2. ASSUME n # 0, NEW x \in Block, issued' = Append(issued, x) PROVE issued'[n] = issued[n]
        <4>1. \A i \in 1 .. Len(issued) : Append(issued, x)[i] = issued[i]
          BY <2>1, AppendProperties
        <4> QED
          BY <2>2, <3>2, <4>1
      <3>3. n # 0 => issued'[n] = issued[n]
        BY <3>2
      <3> QED
        BY <3>1, <3>3
    <2>4. n # 0 => issued[n].end \in Nat
      BY <2>3 DEF Block
    <2> QED
      BY <2>2, <2>3, <2>4 DEF TotalIn
  \* A step that buffers no write keeps what the counters count.
  <1>ByteFrame.
      ASSUME IndInv, ByteInv, issued' = issued,
             blocksQueueSize' = TotalIn(issued, Len(issued)) - TotalIn(issued, Taken'),
             cacheSize' = TotalIn(issued, Len(issued)) - TotalIn(issued, Popped')
      PROVE  ByteInv'
    BY <1>ByteFrame, ByteFacts DEF ByteInv, Total, TotalIn
  \* write(): the block enters the buffer and both counters.
  <1>ByteEmplace.
      ASSUME IndInv, ByteInv, NEW bs, NEW m, NEW w \in Shapes, Emplace(bs, m, w), Popped' = Popped,
             Taken' \in 0 .. Len(issued),
             m = TotalIn(issued, Len(issued)) - TotalIn(issued, Taken')
      PROVE  ByteInv'
    <2> USE <1>ByteEmplace
    <2> DEFINE l == Len(issued)
               b == [id |-> Len(issued) + 1, path |-> w.path, offset |-> w.offset,
                     size |-> w.size, fi |-> w.fi, end |-> Total(Len(issued)) + w.size]
    <2>1. /\ b \in Block /\ issued' = Append(issued, b) /\ blocksQueueSize' = m + w.size
          /\ cacheSize' = cacheSize + w.size /\ w.size \in Nat
      BY NewBlock, AsyncClientAssumption DEF Emplace, IndInv
    <2>2. b.id = l + 1 /\ b.size = w.size /\ b.end = TotalIn(issued, l) + w.size
      BY SMT DEF Total, TotalIn
    <2> HIDE DEF b
    <2>3. issued \in Seq(Block) /\ l \in Nat
      BY QueueFacts
    <2>4. Len(issued') = l + 1 /\ issued'[l + 1] = b
      BY <2>1, <2>3, AppendProperties
    <2>5. \A n \in 0 .. l : /\ TotalIn(issued', n) = TotalIn(issued, n) /\ TotalIn(issued, n) \in Nat
                            /\ (n # 0 => issued'[n] = issued[n])
      BY <2>1, <1>TotalKept
    <2> HIDE DEF l
    <2>6. TotalIn(issued', l + 1) = TotalIn(issued, l) + w.size
      <3>1. l + 1 # 0
        BY <2>3, SMT
      <3> QED
        BY <2>2, <2>4, <3>1 DEF TotalIn
    <2>7. /\ l \in 0 .. l /\ Popped' \in 0 .. l /\ Taken' \in 0 .. l
      BY PoppedInside, <2>3 DEF l
    <2>8. blocksQueueSize' = TotalIn(issued', Len(issued')) - TotalIn(issued', Taken')
      <3>1. /\ TotalIn(issued', Len(issued')) = TotalIn(issued, l) + w.size
            /\ TotalIn(issued', Taken') = TotalIn(issued, Taken')
            /\ TotalIn(issued, l) \in Nat /\ TotalIn(issued, Taken') \in Nat
            /\ m = TotalIn(issued, l) - TotalIn(issued, Taken')
        BY <2>4, <2>5, <2>6, <2>7 DEF l
      <3>2. PICK x \in Nat, y \in Nat, z \in Nat :
              x = TotalIn(issued, l) /\ y = TotalIn(issued, Taken') /\ z = w.size
        BY <2>1, <3>1
      <3>3. (x - y) + z = (x + z) - y
        BY ONLY <3>2, SMT
      <3> QED
        BY <2>1, <3>1, <3>2, <3>3
    <2>9. cacheSize' = TotalIn(issued', Len(issued')) - TotalIn(issued', Popped')
      <3>1. /\ TotalIn(issued', Len(issued')) = TotalIn(issued, l) + w.size
            /\ TotalIn(issued', Popped') = TotalIn(issued, Popped)
            /\ TotalIn(issued, l) \in Nat /\ TotalIn(issued, Popped) \in Nat
            /\ cacheSize = TotalIn(issued, l) - TotalIn(issued, Popped)
        BY <2>4, <2>5, <2>6, <2>7, ByteFacts DEF l
      <3>2. PICK x \in Nat, y \in Nat, z \in Nat :
              x = TotalIn(issued, l) /\ y = TotalIn(issued, Popped) /\ z = w.size
        BY <2>1, <3>1
      <3>3. (x - y) + z = (x + z) - y
        BY ONLY <3>2, SMT
      <3> QED
        BY <2>1, <3>1, <3>2, <3>3
    <2>10. ASSUME NEW n \in 1 .. Len(issued')
           PROVE  issued'[n].id = n /\ issued'[n].end = TotalIn(issued', n - 1) + issued'[n].size
      <3>1. CASE n = l + 1
        <4>1. n - 1 = l
          BY <2>3, <3>1, SMT
        <4> QED
          BY <2>2, <2>4, <2>5, <2>7, <3>1, <4>1
      <3>2. CASE n # l + 1
        <4>1. n \in 1 .. l /\ n \in 0 .. l /\ n # 0 /\ n - 1 \in 0 .. l
          BY <2>3, <2>4, <3>2, SMT
        <4> QED
          BY <2>5, <4>1, ByteFacts DEF l
      <3> QED
        BY <3>1, <3>2
    <2> QED
      BY <2>8, <2>9, <2>10 DEF ByteInv, Total, TotalIn
  <1> SUFFICES ASSUME IndInv, ByteInv, [Next]_vars PROVE ByteInv'
    OBVIOUS
  <1> USE DEF threadVars, clientVars, faultVars
  <1>0. /\ TypeOK /\ TypeOK' /\ Len(issued) \in Nat /\ Len(blocks) \in Nat
        /\ Popped \in 0 .. Len(issued) /\ Taken \in 0 .. Len(issued)
        /\ Len(issued) \in 0 .. Len(issued)
    BY TypeStep, PoppedInside, QueueFacts DEF IndInv
  <1>1. CASE UNCHANGED <<blocks, blocksQueueSize, cacheSize, issued>> /\ Popped' = Popped
    <2>1. Taken' = Taken
      BY <1>1 DEF Taken
    <2> QED
      BY <1>1, <2>1, ByteFacts, <1>ByteFrame
  <1>2. TotalIn(issued, Len(issued)) - TotalIn(issued, Len(issued)) = 0
    <2>1. TotalIn(issued, Len(issued)) \in Nat
      <3>1. issued \in Seq(Block) /\ (Len(issued) # 0 => Len(issued) \in 1 .. Len(issued))
        BY <1>0, SMT DEF TypeOK
      <3>2. Len(issued) # 0 => issued[Len(issued)] \in Block
        BY <3>1, ElementOfSeq
      <3> QED
        BY <3>2 DEF TotalIn, Block
    <2> QED
      BY <2>1, SMT
  <1>3. ASSUME NEW v, ScheduleFlush(v), blocks' = <<>>, blocksQueueSize' = 0,
               UNCHANGED <<cacheSize, issued, active>>
        PROVE  ByteInv'
    <2>1. Popped' = Popped
      BY <1>0, <1>3, QueuesSchedule
    <2>2. Taken' = Len(issued)
      BY <1>0, <1>3, SMT DEF Taken
    <2> QED
      BY <1>2, <1>3, <2>1, <2>2, ByteFacts, <1>ByteFrame
  <1>4. ASSUME NEW w \in Shapes, Emplace(blocks, blocksQueueSize, w), UNCHANGED <<calls, active>>
        PROVE  ByteInv'
    <2>1. Popped' = Popped
      BY <1>0, <1>4, QueuesBuffer
    <2>2. Taken' = Taken
      <3>1. PICK x \in Block : blocks' = Append(blocks, x) /\ issued' = Append(issued, x)
        BY <1>4, EmplaceFacts
      <3>2. Len(issued') = Len(issued) + 1 /\ Len(blocks') = Len(blocks) + 1
        BY <3>1, QueueFacts, AppendProperties
      <3> QED
        BY <1>0, <3>2, SMT DEF Taken
    <2> QED
      BY <1>0, <1>4, <2>1, <2>2, ByteFacts, <1>ByteEmplace
  <1>5. ASSUME NEW v, ScheduleFlush(v), NEW w \in Shapes, Emplace(<<>>, 0, w), UNCHANGED active
        PROVE  ByteInv'
    <2>1. Popped' = Popped
      BY <1>0, <1>5, QueuesScheduleBuffer
    <2>2. Taken' = Len(issued)
      <3>1. PICK x \in Block : blocks' = Append(<<>>, x) /\ issued' = Append(issued, x)
        BY <1>5, EmplaceFacts
      <3>2. Len(issued') = Len(issued) + 1
        BY <3>1, QueueFacts, AppendProperties
      <3>3. Len(blocks') = 1
        BY <3>1, SMT
      <3> QED
        BY <1>0, <3>2, <3>3, SMT DEF Taken
    <2> QED
      BY <1>0, <1>2, <1>5, <2>1, <2>2, <1>ByteEmplace
  <1>6. ASSUME NEW i \in DOMAIN active, CallStep(i) PROVE ByteInv'
    <2> DEFINE c == active[1]
               d == active'[1]
    <2>1. /\ UNCHANGED <<blocks, blocksQueueSize, issued>> /\ c \in CallData /\ active # <<>>
          /\ Sends(c, d) \/ Pops(c, d) \/ Advances(c, d) \/ Applies(c, d) \/ Fails(c, d)
          /\ Pops(c, d) => Popped' = Popped + 1
          /\ ~ Pops(c, d) => Popped' = Popped
      BY <1>6, CallStepFrame, CallStepFields, QueuesCall
    <2>2. CASE ~ Pops(c, d)
      BY <1>1, <2>1, <2>2 DEF Sends, Advances, Applies, Fails
    <2>3. CASE Pops(c, d)
      <3>1. c.blocks \in Seq(Block) /\ Segment(issued, c.blocks, Popped, c.upto)
            /\ c.sent \in Nat /\ c.sent <= Len(c.blocks) /\ c.sent > 0
            /\ cacheSize' = cacheSize - Head(c.blocks).size
        BY <2>1, <2>3, QueueFacts DEF CallData, IndInv, CallInv, Pops
      <3>2. Head(c.blocks) = issued[Popped + 1] /\ Popped + 1 \in 1 .. Len(issued)
            /\ Popped + 1 - 1 = Popped /\ Popped \in Nat /\ Popped + 1 # 0
        <4>1. Len(c.blocks) \in Nat /\ Len(c.blocks) > 0 /\ Popped \in Nat
          BY <1>0, <3>1, SMT
        <4>2. Head(c.blocks) = c.blocks[1] /\ 1 \in 1 .. Len(c.blocks)
          BY <3>1, <4>1, SMT
        <4>3. c.blocks[1] = issued[Popped + 1]
          BY <3>1, <4>2 DEF Segment
        <4>4. Popped + Len(c.blocks) <= Len(issued)
          BY <3>1 DEF Segment
        <4> QED
          BY <1>0, <4>1, <4>2, <4>3, <4>4, SMT
      <3>3. TotalIn(issued, Popped + 1) = TotalIn(issued, Popped) + Head(c.blocks).size
        <4>1. issued[Popped + 1].end = TotalIn(issued, Popped) + issued[Popped + 1].size
          <5>1. PICK n \in 1 .. Len(issued) : n = Popped + 1
            BY <3>2
          <5>2. n - 1 = Popped
            BY ONLY <3>2, <5>1, SMT
          <5>3. issued[n].end = TotalIn(issued, n - 1) + issued[n].size
            BY ByteFacts
          <5> QED
            BY <5>1, <5>2, <5>3
        <4> QED
          BY <3>2, <4>1 DEF TotalIn
      <3>4. /\ TotalIn(issued, Popped) \in Nat /\ TotalIn(issued, Len(issued)) \in Nat
        BY <1>0, <2>1, <1>TotalKept
      <3>5. Head(c.blocks).size \in Nat
        <4>1. issued[Popped + 1] \in Block
          BY <3>2, QueueFacts, ElementOfSeq
        <4> QED
          BY <3>2, <4>1, AsyncClientAssumption DEF Block
      <3>6. PICK x \in Nat, y \in Nat, z \in Nat :
              x = TotalIn(issued, Len(issued)) /\ y = TotalIn(issued, Popped) /\ z = Head(c.blocks).size
        BY <3>4, <3>5
      <3>7. (x - y) - z = x - (y + z)
        BY ONLY <3>6, SMT
      <3>8. cacheSize' = TotalIn(issued, Len(issued)) - TotalIn(issued, Popped')
        BY <2>1, <2>3, <3>1, <3>3, <3>6, <3>7, ByteFacts
      <3>9. Taken' = Taken
        BY <2>1 DEF Taken
      <3> QED
        BY <2>1, <3>8, <3>9, ByteFacts, <1>ByteFrame
    <2> QED
      BY <2>2, <2>3
  <1>7. ASSUME NEW i \in DOMAIN active, ProceedFinished(i) PROVE ByteInv'
    BY <1>0, <1>1, <1>7, QueuesFinished, FinishedApplied
  <1>8. CASE OnCallEnded \/ OnFlushRequest
    <2>1. CASE StartStep
      BY <1>0, <1>1, <1>8, <2>1, SchedulerCases, QueuesStart
    <2> QED
      BY <1>1, <1>8, <2>1, SchedulerCases, QueuesQuiet
  <1>9. CASE UNCHANGED <<blocks, blocksQueueSize, cacheSize, issued, calls, active>>
    BY <1>1, <1>9, QueuesQuiet
  <1> QED
    <2>1. ASSUME NEW t \in Threads, Thread(t) PROVE ByteInv'
      <3>1. CASE \E w \in Shapes : Write(t, w)
        BY <1>4, <3>1 DEF Write
      <3>2. CASE \E w \in Shapes : WriteAndSchedule(t, w)
        BY <1>5, <3>2 DEF WriteAndSchedule
      <3>3. CASE WriteResume(t)
        <4>1. arg[t] \in Shapes
          BY <3>3 DEF WriteResume, IndInv, OwnerInv
        <4> QED
          BY <1>4, <3>3, <4>1 DEF WriteResume
      <3>4. CASE (\E w \in Shapes : WriteFull(t, w)) \/ Flush(t)
        BY <1>3, <3>4 DEF WriteFull, Flush
      <3>5. CASE FlushDrained(t) \/ FlushRPC(t)
        BY <1>9, <3>5 DEF FlushDrained, FlushRPC
      <3> QED
        BY <2>1, <3>1, <3>2, <3>3, <3>4, <3>5 DEF Thread
    <2>2. CASE TimerHandler \/ Destroy
      BY <1>3, <2>2 DEF TimerHandler, Destroy
    <2>3. CASE OnTerminated \/ TimerExpire \/ DestroySend \/ DestroyJoin \/ DestroyStop
      BY <1>9, <2>3 DEF OnTerminated, TimerExpire, DestroySend, DestroyJoin, DestroyStop
    <2>4. ASSUME NEW i \in DOMAIN active, Proceed(i) \/ Server(i) PROVE ByteInv'
      BY <1>6, <1>7, <2>4 DEF Proceed, Server, CallStep
    <2>5. CASE Faults
      BY <1>6, <2>5 DEF Faults, CallStep
    <2>6. ASSUME NEW j \in DOMAIN late, ServerLateWrite(j) PROVE ByteInv'
      BY <1>9, <2>6 DEF ServerLateWrite
    <2>7. CASE UNCHANGED vars
      BY <1>9, <2>7 DEF vars
    <2> QED
      BY <1>8, <2>1, <2>2, <2>3, <2>4, <2>5, <2>6, <2>7 DEF Next, Scheduler, Destructor, Destroyed

\* Every step keeps a waiting write() alone with the buffer.
LEMMA FullStep == IndInv /\ FullInv /\ [Next]_vars => FullInv'
  <1> SUFFICES ASSUME IndInv, FullInv, [Next]_vars PROVE FullInv'
    OBVIOUS
  <1> USE DEF threadVars, clientVars, faultVars
  <1>0. /\ Nobody \notin Threads /\ Threads \subseteq Waiters
        /\ pc \in [Threads -> {"idle", "full", "drain", "rpc"}]
        /\ span \in [Waiters -> [from : Nat, upto : Nat]]
    BY AsyncClientAssumption, FutureFacts DEF Waiters
  <1>1. CASE UNCHANGED <<pc, mtxBlocks, issued, span>>
    BY <1>1 DEF FullInv
  <1>2. CASE \A t \in Threads : pc'[t] # "full"
    BY <1>2 DEF FullInv
  <1>3. mtxBlocks = Nobody => \A t \in Threads : pc[t] # "full"
    BY <1>0 DEF FullInv
  <1>4. ASSUME NEW t \in Threads, NEW w \in Shapes, WriteFull(t, w) PROVE FullInv'
    <2>1. /\ mtxBlocks = Nobody /\ mtxBlocks' = t /\ pc' = [pc EXCEPT ![t] = "full"]
          /\ issued' = issued /\ ScheduleFlush(t) /\ t # Nobody /\ t \in Waiters
      BY <1>0, <1>4 DEF WriteFull
    <2>2. span'[t].upto = Len(issued)
      BY <1>0, <2>1, SMT DEF ScheduleFlush
    <2> QED
      BY <1>0, <1>3, <2>1, <2>2 DEF FullInv
  <1>5. ASSUME NEW t \in Threads, WriteResume(t) PROVE FullInv'
    <2>1. pc[t] = "full" /\ pc' = [pc EXCEPT ![t] = "idle"]
      BY <1>5 DEF WriteResume
    <2>2. \A u \in Threads : u # t => pc[u] # "full"
      BY <2>1 DEF FullInv
    <2> QED
      BY <1>0, <1>2, <2>1, <2>2
  <1>6. ASSUME NEW t \in Threads, FlushDrained(t) \/ FlushRPC(t) PROVE FullInv'
    <2>1. /\ pc[t] # "full" /\ (pc' = [pc EXCEPT ![t] = "rpc"] \/ pc' = [pc EXCEPT ![t] = "idle"])
          /\ (span' = span \/ span' = [span EXCEPT ![t] = NoSpan])
          /\ UNCHANGED <<mtxBlocks, issued>>
      BY <1>6 DEF FlushDrained, FlushRPC
    <2> QED
      BY <1>0, <2>1 DEF FullInv
  <1>7. ASSUME NEW t \in Threads, Thread(t) PROVE FullInv'
    <2>1. CASE \E w \in Shapes : Write(t, w) \/ WriteAndSchedule(t, w)
      BY <1>2, <1>3, <2>1 DEF Write, WriteAndSchedule
    <2>2. CASE Flush(t)
      <3>1. mtxBlocks = Nobody /\ pc' = [pc EXCEPT ![t] = "drain"]
        BY <2>2 DEF Flush
      <3> QED
        BY <1>0, <1>2, <1>3, <3>1
    <2> QED
      BY <1>4, <1>5, <1>6, <1>7, <2>1, <2>2 DEF Thread
  <1>8. CASE TimerHandler
    BY <1>1, <1>8 DEF TimerHandler, ScheduleFlush
  <1>9. CASE Destroy
    BY <1>2, <1>9 DEF Destroy
  <1>10. CASE OnTerminated \/ TimerExpire \/ DestroySend \/ DestroyJoin \/ DestroyStop
    BY <1>1, <1>10 DEF OnTerminated, TimerExpire, DestroySend, DestroyJoin, DestroyStop
  <1>11. ASSUME NEW i \in DOMAIN active, CallStep(i) \/ ProceedFinished(i) PROVE FullInv'
    BY <1>1, <1>11, CallStepFrame, FinishedApplied
  <1>12. CASE OnCallEnded \/ OnFlushRequest
    BY <1>1, <1>12, SchedulerCases
  <1>13. ASSUME NEW j \in DOMAIN late, ServerLateWrite(j) PROVE FullInv'
    BY <1>1, <1>13 DEF ServerLateWrite
  <1>14. CASE UNCHANGED vars
    BY <1>1, <1>14 DEF vars
  <1> QED
    <2>1. ASSUME NEW i \in DOMAIN active, Proceed(i) \/ Server(i) PROVE FullInv'
      BY <1>11, <2>1 DEF Proceed, Server, CallStep
    <2>2. CASE Faults
      BY <1>11, <2>2 DEF Faults, CallStep
    <2> QED
      BY <1>7, <1>8, <1>9, <1>10, <1>12, <1>13, <1>14, <2>1, <2>2
      DEF Next, Scheduler, Destructor, Destroyed

\* Every step keeps the futures behind what was popped.
LEMMA PoppedStep == IndInv /\ PoppedInv /\ [Next]_vars => PoppedInv'
  \* set_value and start(): the call whose future becomes ready has no block left.
  <1>PoppedResolve.
      ASSUME IndInv, PoppedInv, NEW v \in Waiters \cup {Nobody}, NEW value \in BOOLEAN,
             Resolve(v, value), v # Nobody => span[v].upto <= Popped, span' = span, Popped' = Popped
      PROVE  PoppedInv'
    <2> USE <1>PoppedResolve
    <2>1. \A w \in Waiters : w # v => future'[w] = future[w]
      BY FutureFacts DEF Resolve
    <2>2. Nobody \notin Waiters
      BY AsyncClientAssumption DEF Waiters, Nobody, Dtor
    <2> QED
      BY <2>1, <2>2 DEF PoppedInv
  <1> SUFFICES ASSUME IndInv, PoppedInv, [Next]_vars PROVE PoppedInv'
    OBVIOUS
  <1> USE DEF threadVars, clientVars, faultVars
  <1>0. /\ TypeOK' /\ Nobody \notin Waiters /\ Threads \subseteq Waiters /\ Dtor \in Waiters
        /\ future \in [Waiters -> {"none", "pending", "true", "false"}]
        /\ span \in [Waiters -> [from : Nat, upto : Nat]] /\ Popped \in Nat
    BY TypeStep, AsyncClientAssumption, FutureFacts, QueueFacts DEF Waiters, Nobody, Dtor
  <1>1. CASE UNCHANGED <<future, span>> /\ Popped' = Popped
    BY <1>1 DEF PoppedInv
  <1>2. ASSUME NEW v \in Waiters \cup {Nobody}, ScheduleFlush(v), Popped' = Popped
        PROVE  PoppedInv'
    <2>1. /\ \A w \in Waiters : w # v => future'[w] = future[w] /\ span'[w] = span[w]
          /\ v # Nobody => future'[v] = "pending"
      BY <1>0, <1>2 DEF ScheduleFlush
    <2> QED
      BY <1>0, <1>2, <2>1 DEF PoppedInv
  <1>3. ASSUME NEW v \in Waiters \cup {Nobody}, ScheduleFlush(v), blocks' = <<>>,
               UNCHANGED <<issued, active>>
        PROVE  PoppedInv'
    BY <1>0, <1>2, <1>3, QueuesSchedule
  <1>4. ASSUME NEW t \in Threads, future' = [future EXCEPT ![t] = "none"],
               span' = [span EXCEPT ![t] = NoSpan], Popped' = Popped
        PROVE  PoppedInv'
    <2>1. /\ \A w \in Waiters : w # t => future'[w] = future[w] /\ span'[w] = span[w]
          /\ future'[t] = "none"
      BY <1>0, <1>4
    <2> QED
      BY <1>4, <2>1 DEF PoppedInv
  <1>5. ASSUME NEW i \in DOMAIN active, CallStep(i) PROVE PoppedInv'
    <2>1. UNCHANGED <<future, span>> /\ (Popped' = Popped \/ Popped' = Popped + 1)
      BY <1>5, CallStepFrame, QueuesCall
    <2>2. \A w \in Waiters : span[w].upto \in Nat
      BY <1>0
    <2>3. \A n \in Nat : n <= Popped => n <= Popped'
      BY <1>0, <2>1, SMT
    <2> QED
      BY <2>1, <2>2, <2>3 DEF PoppedInv
  <1>6. ASSUME NEW i \in DOMAIN active, ProceedFinished(i) PROVE PoppedInv'
    <2> DEFINE c == active[1]
    <2>1. /\ active # <<>> /\ i = 1 /\ c \in CallData /\ c.upto = Popped /\ span' = span
      BY <1>6, FinishedApplied
    <2>2. Resolve(c.waiter, ~ c.broken) /\ Popped' = Popped
      BY <1>0, <1>6, <2>1, QueuesFinished DEF ProceedFinished
    <2>3. c.waiter \in Waiters \cup {Nobody} /\ (~ c.broken) \in BOOLEAN
      BY <2>1 DEF CallData
    <2>4. c.waiter # Nobody => span[c.waiter].upto = Popped
      BY <2>1, FutureFacts DEF FutureInv, WaiterInv, IsPending
    <2>5. Popped <= Popped
      BY <1>0, SMT
    <2> QED
      BY <2>1, <2>2, <2>3, <2>4, <2>5, <1>PoppedResolve
  <1>7. ASSUME StartStep, channel # <<>> PROVE PoppedInv'
    <2> DEFINE c == calls[1]
    <2>1. /\ Popped' = Popped /\ span' = span /\ active = <<>> /\ calls # <<>>
          /\ issued \in Seq(Block) /\ calls \in Seq(Call)
          /\ Chain(issued, calls, Popped, Taken) /\ c \in Call
      BY <1>0, <1>7, QueuesStart, QueueFacts, StartStepCalls DEF StartStep, Started
    <2>2. CASE c.blocks = <<>> /\ Resolve(c.waiter, TRUE)
      <3>1. Segment(issued, c.blocks, Popped, c.upto)
        BY <2>1, ChainTail
      <3>2. c.upto = Popped /\ Popped <= Popped
        BY <1>0, <2>2, <3>1, SMT DEF Segment
      <3>3. 1 \in 1 .. Len(calls)
        BY <2>1, SMT
      <3>4. c.waiter # Nobody => span[c.waiter].upto = Popped
        BY <3>2, <3>3, FutureFacts DEF FutureInv, WaiterInv, IsPending
      <3>5. c.waiter \in Waiters \cup {Nobody} /\ TRUE \in BOOLEAN
        BY <2>1 DEF Call
      <3> QED
        BY <2>1, <2>2, <3>2, <3>4, <3>5, <1>PoppedResolve
    <2> QED
      BY <1>1, <1>7, <2>1, <2>2, StartStepCalls
  <1>8. CASE OnCallEnded \/ OnFlushRequest
    BY <1>1, <1>7, <1>8, SchedulerCases, QueuesQuiet
  <1>9. CASE UNCHANGED <<blocks, issued, calls, active, future, span>>
    BY <1>1, <1>9, QueuesQuiet
  <1>10. ASSUME NEW t \in Threads, Thread(t) PROVE PoppedInv'
    <2>1. CASE \E w \in Shapes : Write(t, w)
      BY <1>0, <1>1, <2>1, QueuesBuffer DEF Write
    <2>2. CASE \E w \in Shapes : WriteAndSchedule(t, w)
      BY <1>0, <1>2, <2>2, QueuesScheduleBuffer DEF WriteAndSchedule
    <2>3. CASE WriteResume(t)
      <3>1. arg[t] \in Shapes
        BY <2>3 DEF WriteResume, IndInv, OwnerInv
      <3> QED
        BY <1>0, <1>4, <2>3, <3>1, QueuesBuffer DEF WriteResume
    <2>4. CASE (\E w \in Shapes : WriteFull(t, w)) \/ Flush(t)
      BY <1>0, <1>3, <2>4 DEF WriteFull, Flush
    <2>5. CASE FlushDrained(t)
      BY <1>9, <2>5 DEF FlushDrained
    <2>6. CASE FlushRPC(t)
      BY <1>4, <2>6, QueuesQuiet DEF FlushRPC
    <2> QED
      BY <1>10, <2>1, <2>2, <2>3, <2>4, <2>5, <2>6 DEF Thread
  <1>11. CASE TimerHandler \/ Destroy
    BY <1>0, <1>3, <1>11 DEF TimerHandler, Destroy
  <1>12. CASE OnTerminated \/ TimerExpire \/ DestroySend \/ DestroyJoin \/ DestroyStop
    BY <1>9, <1>12 DEF OnTerminated, TimerExpire, DestroySend, DestroyJoin, DestroyStop
  <1>13. ASSUME NEW j \in DOMAIN late, ServerLateWrite(j) PROVE PoppedInv'
    BY <1>9, <1>13 DEF ServerLateWrite
  <1>14. CASE UNCHANGED vars
    BY <1>9, <1>14 DEF vars
  <1> QED
    <2>1. ASSUME NEW i \in DOMAIN active, Proceed(i) \/ Server(i) PROVE PoppedInv'
      BY <1>5, <1>6, <2>1 DEF Proceed, Server, CallStep
    <2>2. CASE Faults
      BY <1>5, <2>2 DEF Faults, CallStep
    <2> QED
      BY <1>8, <1>10, <1>11, <1>12, <1>13, <1>14, <2>1, <2>2
      DEF Next, Scheduler, Destructor, Destroyed

\* Every step keeps the cache within one write of its size: write() adds to a
\* cache that is not full, or to one that its own flush has drained.
LEMMA BoundStep ==
  IndInv /\ ByteInv /\ FullInv /\ PoppedInv /\ CacheBound /\ [Next]_vars => CacheBound'
  <1> SUFFICES ASSUME IndInv, ByteInv, FullInv, PoppedInv, CacheBound, [Next]_vars PROVE CacheBound'
    OBVIOUS
  <1> USE DEF threadVars, clientVars, faultVars
  <1>0. cacheSize \in Int /\ CacheSize \in Nat /\ \A w \in Shapes : w.size \in Nat
    BY AsyncClientAssumption DEF IndInv, TypeOK
  <1>1. CASE cacheSize' = cacheSize
    BY <1>1 DEF CacheBound
  <1>2. ASSUME NEW w \in Shapes, NEW bs, NEW n, Emplace(bs, n, w), cacheSize <= CacheSize
        PROVE  CacheBound'
    <2>1. cacheSize' = cacheSize + w.size
      BY <1>2 DEF Emplace
    <2>2. w.size \in Nat
      BY <1>0
    <2>3. cacheSize + w.size <= CacheSize + w.size
      BY ONLY <1>0, <1>2, <2>2, SMT
    <2> QED
      BY <2>1, <2>3 DEF CacheBound
  <1>3. ASSUME NEW t \in Threads, WriteResume(t) PROVE CacheBound'
    <2>1. /\ arg[t] \in Shapes /\ Emplace(blocks, blocksQueueSize, arg[t])
          /\ future[t] \in {"true", "false"} /\ pc[t] = "full" /\ t \in Waiters
      BY <1>3 DEF WriteResume, IndInv, OwnerInv, Waiters
    <2>2. Len(issued) <= Popped
      BY <2>1 DEF FullInv, PoppedInv
    <2>3. Popped = Len(issued) /\ Len(issued) \in 0 .. Len(issued)
      <3>1. Popped \in 0 .. Len(issued) /\ Len(issued) \in 0 .. Len(issued) /\ Len(issued) \in Nat
        BY PoppedInside, QueueFacts
      <3> QED
        BY <2>2, <3>1, SMT
    <2>4. TotalIn(issued, Len(issued)) \in Nat
      <3>1. issued \in Seq(Block) /\ (Len(issued) # 0 => Len(issued) \in 1 .. Len(issued))
        BY <2>3, QueueFacts, SMT
      <3>2. Len(issued) # 0 => issued[Len(issued)] \in Block
        BY <3>1, ElementOfSeq
      <3> QED
        BY <3>2 DEF TotalIn, Block
    <2>5. cacheSize = 0
      <3>1. cacheSize = TotalIn(issued, Len(issued)) - TotalIn(issued, Len(issued))
        BY <2>3, ByteFacts
      <3> QED
        BY <2>4, <3>1, SMT
    <2>6. cacheSize <= CacheSize
      BY <1>0, <2>5, SMT
    <2> QED
      BY <1>2, <2>1, <2>6
  <1>4. ASSUME NEW i \in DOMAIN active, CallStep(i) PROVE CacheBound'
    <2> DEFINE c == active[1]
               d == active'[1]
    <2>1. /\ c \in CallData /\ active # <<>>
          /\ Sends(c, d) \/ Pops(c, d) \/ Advances(c, d) \/ Applies(c, d) \/ Fails(c, d)
      BY <1>4, CallStepFrame, CallStepFields
    <2>2. CASE Pops(c, d)
      <3>1. c.blocks \in Seq(Block) /\ c.sent \in Nat /\ c.sent <= Len(c.blocks) /\ c.sent > 0
            /\ cacheSize' = cacheSize - Head(c.blocks).size
        BY <2>1, <2>2 DEF CallData, IndInv, CallInv, Pops
      <3>2. c.blocks # <<>>
        BY <3>1, SMT
      <3>3. Head(c.blocks) \in Block
        BY <3>1, <3>2, HeadTailProperties
      <3>4. Head(c.blocks).size \in Nat
        BY <1>0, <3>3 DEF Block
      <3>5. cacheSize' <= cacheSize /\ cacheSize' \in Int
        <4>1. PICK z \in Nat : cacheSize' = cacheSize - z
          BY <3>1, <3>4
        <4> QED
          BY ONLY <1>0, <4>1, SMT
      <3>6. CASE cacheSize <= CacheSize
        <4>1. cacheSize' <= CacheSize
          BY ONLY <1>0, <3>5, <3>6, SMT
        <4> QED
          BY <4>1 DEF CacheBound
      <3>7. ASSUME NEW w \in Shapes, cacheSize <= CacheSize + w.size PROVE CacheBound'
        <4>1. w.size \in Nat
          BY <1>0
        <4>2. cacheSize' <= CacheSize + w.size
          BY ONLY <1>0, <3>5, <3>7, <4>1, SMT
        <4> QED
          BY <4>2 DEF CacheBound
      <3> QED
        BY <3>6, <3>7 DEF CacheBound
    <2> QED
      BY <1>1, <2>1, <2>2 DEF Sends, Advances, Applies, Fails
  <1> QED
    <2>1. ASSUME NEW t \in Threads, Thread(t) PROVE CacheBound'
      <3>1. CASE \E w \in Shapes : Write(t, w) \/ WriteAndSchedule(t, w)
        BY <1>2, <3>1 DEF Write, WriteAndSchedule
      <3>2. CASE (\E w \in Shapes : WriteFull(t, w)) \/ Flush(t) \/ FlushDrained(t) \/ FlushRPC(t)
        BY <1>1, <3>2 DEF WriteFull, Flush, FlushDrained, FlushRPC
      <3> QED
        BY <1>3, <2>1, <3>1, <3>2 DEF Thread
    <2>2. CASE TimerHandler \/ Destroy
      BY <1>1, <2>2 DEF TimerHandler, Destroy
    <2>3. CASE OnCallEnded \/ OnFlushRequest \/ OnTerminated \/ TimerExpire \/ DestroySend
               \/ DestroyJoin \/ DestroyStop
      BY <1>1, <2>3 DEF OnCallEnded, OnFlushRequest, OnTerminated, TimerExpire, DestroySend,
         DestroyJoin, DestroyStop
    <2>4. ASSUME NEW i \in DOMAIN active, Proceed(i) \/ Server(i) PROVE CacheBound'
      <3>1. CASE ProceedFinished(i)
        BY <1>1, <3>1 DEF ProceedFinished
      <3> QED
        BY <1>4, <2>4, <3>1 DEF Proceed, Server, CallStep
    <2>5. CASE Faults
      BY <1>4, <2>5 DEF Faults, CallStep
    <2>6. ASSUME NEW j \in DOMAIN late, ServerLateWrite(j) PROVE CacheBound'
      BY <1>1, <2>6 DEF ServerLateWrite
    <2>7. CASE UNCHANGED vars
      BY <1>1, <2>7 DEF vars
    <2> QED
      BY <2>1, <2>2, <2>3, <2>4, <2>5, <2>6, <2>7 DEF Next, Scheduler, Destructor, Destroyed

-----------------------------------------------------------------------------
(* What a future tells its waiter.                                         *)

\* Every step keeps the truth of the futures.
LEMMA TruthStep == IndInv /\ ByteInv /\ TruthInv /\ [Next]_vars => TruthInv'
  \* What was applied stays so, and the server adds what it reads from a stream.
  <1>AppliedGrows.
      ASSUME applied \in Seq(Block), NEW bs \in Seq(Block), applied' = applied \o bs
      PROVE  /\ \A n : IsApplied(n) => IsApplied(n)'
             /\ \A n : (\E j \in 1 .. Len(bs) : bs[j].id = n) => IsApplied(n)'
    <2> USE <1>AppliedGrows
    <2>1. Len(applied) \in Nat /\ Len(bs) \in Nat /\ Len(applied') = Len(applied) + Len(bs)
      BY LenProperties, ConcatProperties
    <2>2. \A i \in 1 .. Len(applied) + Len(bs) :
            applied'[i] = IF i <= Len(applied) THEN applied[i] ELSE bs[i - Len(applied)]
      BY ConcatProperties
    <2>3. \A i \in 1 .. Len(applied) : applied'[i] = applied[i] /\ i \in 1 .. Len(applied')
      BY <2>1, <2>2, SMT
    <2>4. \A j \in 1 .. Len(bs) : /\ applied'[Len(applied) + j] = bs[j]
                                  /\ Len(applied) + j \in 1 .. Len(applied')
      BY <2>1, <2>2, SMT
    <2> QED
      BY <2>3, <2>4 DEF IsApplied
  \* What the two parts of TruthInv about the server need of a step.
  <1>TruthParts.
      ASSUME IndInv, [Next]_vars,
             \A k \in 1 .. Len(calls') : calls'[k].waiter # Nobody =>
               span'[calls'[k].waiter].from = calls'[k].upto - Len(calls'[k].blocks),
             errors = 0 /\ errors' = 0 =>
               /\ active' # <<>> /\ ~ active'[1].broken /\ active'[1].waiter # Nobody =>
                    \A n \in span'[active'[1].waiter].from + 1 .. Popped' + active'[1].sent :
                      IsApplied(n)' \/ InStream(active'[1].stream, n)
               /\ \A w \in Waiters : future'[w] = "true" =>
                    \A n \in span'[w].from + 1 .. span'[w].upto : IsApplied(n)'
      PROVE  TruthInv'
    <2> USE <1>TruthParts
    <2>1. errors \in Nat
      BY DEF IndInv, TypeOK
    <2>2. errors' = errors \/ errors' = errors + 1
      BY DEF Next, Thread, Scheduler, Proceed, Server, Faults, Destructor, Destroyed, vars,
         Write, WriteAndSchedule, WriteFull, WriteResume, Flush, FlushDrained, FlushRPC,
         OnCallEnded, OnFlushRequest, OnTerminated, ProceedCreate, ProceedPop, ProceedWrite,
         ProceedLast, ProceedWritesDone, ProceedFinished, ServerWrite, ServerFinish,
         StreamBreak, ServerLateWrite, TimerExpire, TimerHandler, Destroy, DestroySend,
         DestroyJoin, DestroyStop, faultVars
    <2>3. errors' = 0 => errors = 0
      BY <2>1, <2>2, SMT
    <2> QED
      BY <2>3 DEF TruthInv, InStream
  \* A step that schedules, starts and sends nothing keeps the truth of the futures.
  <1>TruthFrame.
      ASSUME IndInv, TruthInv, [Next]_vars, UNCHANGED <<calls, active, future, span>>,
             Popped' = Popped, \A n : IsApplied(n) => IsApplied(n)'
      PROVE  TruthInv'
    BY <1>TruthFrame, <1>TruthParts DEF TruthInv
  \* schedule_flush: the span of the new call begins where its blocks do.
  <1>TruthSchedule.
      ASSUME IndInv, TruthInv, [Next]_vars, NEW v \in Waiters \cup {Nobody}, ScheduleFlush(v),
             v # Nobody => future[v] = "none", UNCHANGED <<active, applied>>, Popped' = Popped
      PROVE  TruthInv'
    <2> USE <1>TruthSchedule
    <2>0. Nobody \notin Waiters /\ Len(issued) \in Nat /\ Len(blocks) \in Nat
      BY AsyncClientAssumption, QueueFacts DEF Waiters, Nobody, Dtor
    <2>1. /\ \A w \in Waiters : w # v => future'[w] = future[w] /\ span'[w] = span[w]
          /\ v # Nobody => future'[v] = "pending" /\ span'[v].from = Len(issued) - Len(blocks)
      BY <2>0, FutureFacts, SMT DEF ScheduleFlush
    <2>2. /\ Len(calls') = Len(calls) + 1
          /\ \A k \in 1 .. Len(calls) : calls'[k] = calls[k]
          /\ calls'[Len(calls) + 1] = [blocks |-> blocks, upto |-> Len(issued), waiter |-> v]
      BY FutureFacts, SMT DEF ScheduleFlush
    <2>3. /\ \A k \in 1 .. Len(calls) : calls[k].waiter \in Waiters \cup {Nobody}
          /\ active # <<>> => active[1].waiter \in Waiters \cup {Nobody}
      BY FutureFacts DEF Call, CallData
    <2>4. v # Nobody => /\ \A k \in 1 .. Len(calls) : calls[k].waiter # v
                        /\ active # <<>> => active[1].waiter # v
      BY FutureFacts, SMT DEF FutureInv, WaiterInv, IsPending
    <2>5. ASSUME NEW k \in 1 .. Len(calls'), calls'[k].waiter # Nobody
          PROVE  span'[calls'[k].waiter].from = calls'[k].upto - Len(calls'[k].blocks)
      <3>1. CASE k \in 1 .. Len(calls)
        <4>1. calls'[k] = calls[k] /\ calls[k].waiter \in Waiters /\ calls[k].waiter # v
          BY <2>2, <2>3, <2>4, <2>5, <3>1
        <4> QED
          BY <2>1, <2>5, <3>1, <4>1 DEF TruthInv
      <3>2. CASE k = Len(calls) + 1
        <4>1. calls'[k].waiter = v /\ calls'[k].upto = Len(issued) /\ calls'[k].blocks = blocks
          BY <2>2, <3>2, SMT
        <4> QED
          BY <2>1, <2>5, <4>1
      <3> QED
        BY <2>2, <3>1, <3>2, FutureFacts, SMT
    <2>6. \A n : IsApplied(n)' <=> IsApplied(n)
      BY DEF IsApplied
    <2>7. ASSUME active' # <<>>, active'[1].waiter # Nobody
          PROVE  span'[active'[1].waiter] = span[active[1].waiter]
      BY <2>1, <2>3, <2>4, <2>7
    <2>8. \A w \in Waiters : future'[w] = "true" => future[w] = "true" /\ span'[w] = span[w]
      BY <2>0, <2>1
    <2> QED
      BY <2>5, <2>6, <2>7, <2>8, <1>TruthParts DEF TruthInv
  \* write() and flush() give up a future that is ready: no call knows it any more.
  <1>TruthRelease.
      ASSUME IndInv, TruthInv, [Next]_vars, NEW t \in Threads, future[t] \in {"true", "false"},
             future' = [future EXCEPT ![t] = "none"],
             span' = [span EXCEPT ![t] = NoSpan],
             UNCHANGED <<calls, active, applied>>, Popped' = Popped
      PROVE  TruthInv'
    <2> USE <1>TruthRelease
    <2>0. t \in Waiters /\ t # Nobody
      BY AsyncClientAssumption DEF Waiters
    <2>1. /\ \A w \in Waiters : w # t => future'[w] = future[w] /\ span'[w] = span[w]
          /\ future'[t] = "none"
      BY <2>0, FutureFacts
    <2>2. /\ \A k \in 1 .. Len(calls) : calls[k].waiter \in Waiters \cup {Nobody}
          /\ active # <<>> => active[1].waiter \in Waiters \cup {Nobody}
      BY FutureFacts DEF Call, CallData
    <2>3. /\ \A k \in 1 .. Len(calls) : calls[k].waiter # t
          /\ active # <<>> => active[1].waiter # t
      <3>1. future[t] # "pending"
        OBVIOUS
      <3> QED
        BY <2>0, <2>2, <3>1, FutureFacts, SMT DEF FutureInv, WaiterInv, IsPending
    <2>4. \A n : IsApplied(n)' <=> IsApplied(n)
      BY DEF IsApplied
    <2>5. \A k \in 1 .. Len(calls') : calls'[k].waiter # Nobody =>
            span'[calls'[k].waiter].from = calls'[k].upto - Len(calls'[k].blocks)
      <3> SUFFICES ASSUME NEW k \in 1 .. Len(calls), calls[k].waiter # Nobody
                   PROVE  span'[calls[k].waiter].from = calls[k].upto - Len(calls[k].blocks)
        OBVIOUS
      <3>1. span'[calls[k].waiter] = span[calls[k].waiter]
        BY <2>1, <2>2, <2>3
      <3>2. span[calls[k].waiter].from = calls[k].upto - Len(calls[k].blocks)
        BY DEF TruthInv
      <3> QED
        BY <3>1, <3>2
    <2>6. ASSUME active' # <<>>, active'[1].waiter # Nobody
          PROVE  span'[active'[1].waiter] = span[active[1].waiter]
      BY <2>1, <2>2, <2>3, <2>6
    <2>7. \A w \in Waiters : future'[w] = "true" => future[w] = "true" /\ span'[w] = span[w]
      BY <2>1
    <2> QED
      BY <2>4, <2>5, <2>6, <2>7, <1>TruthParts DEF TruthInv
  \* start(): nothing is sent yet, and a call without blocks has nothing to tell.
  <1>TruthStart.
      ASSUME IndInv, TruthInv, [Next]_vars, channel # <<>>, StartStep, Popped' = Popped
      PROVE  TruthInv'
    <2> USE <1>TruthStart
    <2> DEFINE c == calls[1]
    <2>0. /\ active = <<>> /\ calls # <<>> /\ calls \in Seq(Call) /\ Len(calls) \in Nat
          /\ UNCHANGED <<applied, span>> /\ c \in Call /\ calls' = Tail(calls)
          /\ Chain(issued, calls, Popped, Taken) /\ issued \in Seq(Block) /\ Popped \in Nat
      BY FutureFacts, QueueFacts, StartStepCalls DEF StartStep, Started
    <2>1. /\ Len(calls') = Len(calls) - 1 /\ 1 \in 1 .. Len(calls)
          /\ \A k \in 1 .. Len(calls') : calls'[k] = calls[k + 1] /\ k + 1 \in 1 .. Len(calls)
      BY <2>0, SMT
    <2>2. Segment(issued, c.blocks, Popped, c.upto)
      BY <2>0, ChainTail
    <2>3. c.waiter # Nobody => /\ span[c.waiter].from = Popped /\ span[c.waiter].upto = c.upto
                               /\ c.waiter \in Waiters
      <3>1. c.waiter # Nobody => span[c.waiter].from = c.upto - Len(c.blocks)
        BY <2>1 DEF TruthInv
      <3>2. c.upto - Len(c.blocks) = Popped
        <4>1. Len(c.blocks) \in Nat /\ c.upto = Popped + Len(c.blocks)
          BY <2>0, <2>2, LenProperties DEF Segment, Call
        <4> QED
          BY <2>0, <4>1, SMT
      <3> QED
        BY <2>0, <2>1, <3>1, <3>2, FutureFacts DEF FutureInv, WaiterInv, IsPending, Call
    <2>4. \A k \in 1 .. Len(calls') : calls'[k].waiter # Nobody =>
            span'[calls'[k].waiter].from = calls'[k].upto - Len(calls'[k].blocks)
      BY <2>0, <2>1 DEF TruthInv
    <2>5. \A n : IsApplied(n)' <=> IsApplied(n)
      BY <2>0 DEF IsApplied
    <2>6. Popped + 1 .. Popped = {}
      BY <2>0, SMT
    <2>7. CASE c.blocks = <<>> /\ active' = <<>> /\ Resolve(c.waiter, TRUE)
      <3>1. c.upto = Popped
        BY <2>0, <2>2, <2>7, SMT DEF Segment
      <3>2. \A w \in Waiters : w # c.waiter => future'[w] = future[w]
        BY <2>7, FutureFacts DEF Resolve
      <3>3. ASSUME NEW w \in Waiters, w = c.waiter
            PROVE  span'[w].from + 1 .. span'[w].upto = {}
        <4>1. w # Nobody
          BY AsyncClientAssumption DEF Waiters, Nobody, Dtor
        <4> QED
          BY <2>0, <2>3, <2>6, <3>1, <3>3, <4>1
      <3>4. ASSUME errors = 0, NEW w \in Waiters, future'[w] = "true"
            PROVE  \A n \in span'[w].from + 1 .. span'[w].upto : IsApplied(n)'
        <4>1. CASE w = c.waiter
          BY <3>3, <4>1
        <4>2. CASE w # c.waiter
          BY <2>0, <2>5, <3>2, <3>4, <4>2 DEF TruthInv
        <4> QED
          BY <4>1, <4>2
      <3> QED
        BY <2>4, <2>7, <3>4, <1>TruthParts
    <2>8. CASE active' # <<>> /\ active'[1] = NewCall(c) /\ future' = future
      <3>1. active'[1].waiter = c.waiter /\ active'[1].sent = 0
        BY <2>8, SMT DEF NewCall
      <3>2. active'[1].waiter # Nobody =>
              span'[active'[1].waiter].from + 1 .. Popped' + active'[1].sent = {}
        <4>1. Popped + 0 = Popped
          BY <2>0, SMT
        <4> QED
          BY <2>0, <2>3, <2>6, <3>1, <4>1
      <3>3. errors = 0 => \A w \in Waiters : future'[w] = "true" =>
              \A n \in span'[w].from + 1 .. span'[w].upto : IsApplied(n)'
        BY <2>0, <2>5, <2>8 DEF TruthInv
      <3> QED
        BY <2>4, <3>2, <3>3, <1>TruthParts
    <2> QED
      BY <2>7, <2>8, StartStepCalls
  \* end(): a call that was not broken ends when the server has read its stream.
  <1>TruthFinished.
      ASSUME IndInv, TruthInv, [Next]_vars, NEW i \in DOMAIN active, ProceedFinished(i)
      PROVE  TruthInv'
    <2> USE <1>TruthFinished
    <2> DEFINE c == active[1]
    <2>1. /\ active # <<>> /\ active' = <<>> /\ i = 1 /\ c \in CallData /\ c.upto = Popped
          /\ UNCHANGED <<calls, applied, errors, span>> /\ Popped \in Nat
      BY FinishedApplied, QueueFacts
    <2>2. /\ Resolve(c.waiter, ~ c.broken) /\ c.status = "FINISHED"
          /\ c.broken \/ c.server = "FINISHED"
      BY <2>1 DEF ProceedFinished
    <2>3. c.sent \in Nat /\ c.sent <= Len(c.blocks) /\ c.blocks = <<>>
          /\ (~ c.broken => c.stream = <<>>)
      BY <2>1, <2>2 DEF IndInv, CallInv, CallData
    <2>4. Popped + c.sent = Popped
      BY <2>1, <2>3, SMT
    <2>5. \A n : IsApplied(n)' <=> IsApplied(n)
      BY <2>1 DEF IsApplied
    <2>6. \A w \in Waiters : w # c.waiter => future'[w] = future[w]
      BY <2>2, FutureFacts DEF Resolve
    <2>7. ASSUME errors = 0, NEW w \in Waiters, future'[w] = "true",
                 NEW n \in span'[w].from + 1 .. span'[w].upto
          PROVE  IsApplied(n)'
      <3>1. CASE w # c.waiter
        BY <2>1, <2>5, <2>6, <2>7, <3>1 DEF TruthInv
      <3>2. CASE w = c.waiter
        <4>1. w # Nobody
          BY AsyncClientAssumption DEF Waiters, Nobody, Dtor
        <4>2. ~ c.broken
          BY <2>2, <2>7, <3>2, <4>1, FutureFacts DEF Resolve
        <4>3. span[w].upto = Popped
          BY <2>1, <3>2, <4>1, FutureFacts DEF FutureInv, WaiterInv, IsPending
        <4>4. IsApplied(n) \/ InStream(c.stream, n)
          BY <2>1, <2>4, <2>7, <3>2, <4>1, <4>2, <4>3 DEF TruthInv
        <4>5. ~ InStream(<<>>, n)
          BY SMT DEF InStream
        <4> QED
          BY <2>3, <2>5, <4>2, <4>4, <4>5
      <3> QED
        BY <3>1, <3>2
    <2>8. \A k \in 1 .. Len(calls') : calls'[k].waiter # Nobody =>
            span'[calls'[k].waiter].from = calls'[k].upto - Len(calls'[k].blocks)
      BY <2>1 DEF TruthInv
    <2> QED
      BY <2>1, <2>7, <2>8, <1>TruthParts
  \* send_block: what is sent enters the stream.
  <1>StreamSends.
      ASSUME NEW s \in Seq(Request), NEW r \in Request
      PROVE  /\ \A n : InStream(s, n) => InStream(Append(s, r), n)
             /\ \A j \in 1 .. Len(r.blocks) : InStream(Append(s, r), r.blocks[j].id)
    <2> USE <1>StreamSends
    <2>1. /\ Len(s) \in Nat /\ Len(Append(s, r)) = Len(s) + 1 /\ Append(s, r)[Len(s) + 1] = r
          /\ \A k \in 1 .. Len(s) : Append(s, r)[k] = s[k]
      BY SMT
    <2>2. /\ \A k \in 1 .. Len(s) : k \in 1 .. Len(s) + 1
          /\ Len(s) + 1 \in 1 .. Len(s) + 1
      BY <2>1, SMT
    <2> QED
      BY <2>1, <2>2 DEF InStream
  \* operations_.write of the server: what leaves the stream is applied.
  <1>StreamReads.
      ASSUME NEW s \in Seq(Request), s # <<>>, NEW n, InStream(s, n)
      PROVE  InStream(Tail(s), n) \/ \E j \in 1 .. Len(Head(s).blocks) : Head(s).blocks[j].id = n
    <2> USE <1>StreamReads
    <2>1. /\ Len(s) \in Nat /\ Len(s) > 0 /\ Head(s) = s[1] /\ Len(Tail(s)) = Len(s) - 1
          /\ \A k \in 1 .. Len(Tail(s)) : Tail(s)[k] = s[k + 1]
      BY SMT
    <2>2. PICK k \in 1 .. Len(s) : \E j \in 1 .. Len(s[k].blocks) : s[k].blocks[j].id = n
      BY DEF InStream
    <2>3. CASE k = 1
      BY <2>1, <2>2, <2>3
    <2>4. CASE k # 1
      <3>1. k - 1 \in 1 .. Len(Tail(s)) /\ k - 1 + 1 = k
        BY <2>1, <2>4, SMT
      <3>2. Tail(s)[k - 1] = s[k]
        BY <2>1, <3>1
      <3> QED
        BY <2>2, <3>1, <3>2 DEF InStream
    <2> QED
      BY <2>3, <2>4
  \* proceed() and the server: what a call has sent is in its stream until the server
  \* applies it, unless the stream breaks or the server drops an error.
  <1>TruthCall.
      ASSUME IndInv, ByteInv, TruthInv, [Next]_vars, NEW i \in DOMAIN active, CallStep(i)
      PROVE  TruthInv'
    <2> USE <1>TruthCall
    <2> DEFINE c == active[1]
               d == active'[1]
               f == span[c.waiter].from
    <2>1. /\ active # <<>> /\ active' # <<>> /\ c \in CallData
          /\ UNCHANGED <<issued, calls, future, span>>
          /\ d.upto = c.upto /\ d.waiter = c.waiter
          /\ Sends(c, d) \/ Pops(c, d) \/ Advances(c, d) \/ Applies(c, d) \/ Fails(c, d)
          /\ Pops(c, d) => Popped' = Popped + 1
          /\ ~ Pops(c, d) => Popped' = Popped
      BY CallStepFrame, CallStepFields, QueuesCall
    <2>2. /\ c.stream \in Seq(Request) /\ c.blocks \in Seq(Block) /\ c.sent \in Nat
          /\ Popped \in Nat /\ Segment(issued, c.blocks, Popped, c.upto) /\ issued \in Seq(Block)
          /\ applied \in Seq(Block) /\ errors \in Nat
      BY <2>1, QueueFacts DEF CallData, IndInv, TypeOK
    <2>3. \A k \in 1 .. Len(calls') : calls'[k].waiter # Nobody =>
            span'[calls'[k].waiter].from = calls'[k].upto - Len(calls'[k].blocks)
      BY <2>1 DEF TruthInv
    <2>4. ASSUME Applies(c, d)
          PROVE  /\ Head(c.stream).blocks \in Seq(Block) /\ applied' = applied \o Head(c.stream).blocks
                 /\ c.stream # <<>> /\ d.stream = Tail(c.stream)
      <3>1. c.stream # <<>> /\ d.stream = Tail(c.stream) /\ applied' = applied \o Head(c.stream).blocks
        BY <2>4 DEF Applies
      <3>2. Head(c.stream) \in Request
        BY <2>2, <3>1, HeadTailProperties
      <3> QED
        BY <3>1, <3>2 DEF Request
    <2>5. \A n : IsApplied(n) => IsApplied(n)'
      <3>1. CASE Applies(c, d)
        BY <2>2, <2>4, <3>1, <1>AppliedGrows
      <3>2. CASE ~ Applies(c, d)
        <4>1. applied' = applied
          BY <2>1, <3>2 DEF Sends, Pops, Advances, Fails
        <4> QED
          BY <4>1 DEF IsApplied
      <3> QED
        BY <3>1, <3>2
    <2>6. errors = 0 => \A w \in Waiters : future'[w] = "true" =>
            \A n \in span'[w].from + 1 .. span'[w].upto : IsApplied(n)'
      BY <2>1, <2>5 DEF TruthInv
    <2>7. ASSUME errors = 0, errors' = 0, ~ d.broken, d.waiter # Nobody,
                 NEW n \in span'[d.waiter].from + 1 .. Popped' + d.sent
          PROVE  IsApplied(n)' \/ InStream(d.stream, n)
      <3>0. c.waiter # Nobody /\ n \in f + 1 .. Popped' + d.sent
        BY <2>1, <2>7
      <3>1. ~ Fails(c, d) /\ ~ c.broken
        <4>1. ~ Fails(c, d)
          BY <2>2, <2>7, SMT DEF Fails
        <4> QED
          BY <2>1, <2>7, <4>1 DEF Sends, Pops, Advances, Applies
      <3>2. \A m \in f + 1 .. Popped + c.sent : IsApplied(m) \/ InStream(c.stream, m)
        BY <2>1, <2>7, <3>0, <3>1 DEF TruthInv
      <3> HIDE DEF c, d, f
      <3>3. CASE Sends(c, d)
        <4>1. c.sent = 0 /\ ~ Pops(c, d)
          BY <2>2, <3>3, SMT DEF Sends, Pops
        <4>2. PICK k \in DOMAIN c.blocks :
                 /\ d.sent = k
                 /\ d.stream = Append(c.stream, [blocks |-> SubSeq(c.blocks, 1, k),
                                                 upto |-> c.upto - Len(c.blocks) + k])
          BY <3>1, <3>3 DEF Sends
        <4> DEFINE r == [blocks |-> SubSeq(c.blocks, 1, k), upto |-> c.upto - Len(c.blocks) + k]
        <4>3. k \in 1 .. Len(c.blocks) /\ k \in 0 .. Len(c.blocks) /\ k \in Nat
              /\ Len(c.blocks) \in Nat
          BY <2>2, SMT
        <4>4. SubSeq(c.blocks, 1, k) \in Seq(Block) /\ Len(SubSeq(c.blocks, 1, k)) = k
              /\ \A j \in 1 .. k : SubSeq(c.blocks, 1, k)[j] = c.blocks[j]
          BY <2>2, <4>3, SMT
        <4>5. r \in Request
          <5>1. c.upto - Len(c.blocks) + k \in Nat
            BY <2>2, <4>3, SMT DEF Segment
          <5> QED
            BY <4>4, <5>1 DEF Request
        <4>6. r.blocks = SubSeq(c.blocks, 1, k) /\ d.stream = Append(c.stream, r)
          BY <4>2, SMT
        <4> HIDE DEF r
        <4>7. CASE n \in f + 1 .. Popped + c.sent
          BY <2>2, <2>5, <3>2, <4>5, <4>6, <4>7, <1>StreamSends
        <4>8. CASE n \notin f + 1 .. Popped + c.sent
          <5>1. n \in Int /\ n > Popped /\ n <= Popped + k
            <6>1. n \in f + 1 .. Popped + k /\ Popped + c.sent = Popped
              BY <2>1, <2>2, <3>0, <4>1, <4>2, SMT DEF c, d
            <6> QED
              BY <2>2, <4>3, <4>8, <6>1, SMT
          <5>2. n - Popped \in 1 .. k /\ Popped + (n - Popped) = n
            BY <2>2, <4>3, <5>1, SMT
          <5>3. n - Popped \in 1 .. Len(c.blocks) /\ n \in 1 .. Len(issued)
            BY <2>2, <4>3, <5>1, SMT DEF Segment
          <5>4. r.blocks[n - Popped] = issued[n]
            <6>1. c.blocks[n - Popped] = issued[Popped + (n - Popped)]
              BY <2>2, <5>3 DEF Segment
            <6> QED
              BY <4>4, <4>6, <5>2, <6>1
          <5>5. issued[n].id = n
            BY <5>3, ByteFacts
          <5>6. InStream(Append(c.stream, r), r.blocks[n - Popped].id)
            BY <2>2, <4>4, <4>5, <4>6, <5>2, <1>StreamSends
          <5> QED
            BY <4>6, <5>4, <5>5, <5>6
        <4> QED
          BY <4>7, <4>8
      <3>4. CASE Pops(c, d) \/ Advances(c, d)
        <4>1. d.stream = c.stream
          BY <3>4 DEF Pops, Advances
        <4>2. Popped' + d.sent = Popped + c.sent
          <5>1. CASE Pops(c, d)
            <6>1. Popped' = Popped + 1 /\ d.sent = c.sent - 1
              BY <2>1, <5>1 DEF Pops, c, d
            <6> QED
              BY ONLY <2>2, <6>1, SMT
          <5>2. CASE Advances(c, d)
            <6>1. d.sent = c.sent
              BY <5>2 DEF Advances
            <6>2. ~ Pops(c, d)
              BY <2>2, <6>1, SMT DEF Pops
            <6> QED
              BY <2>1, <6>1, <6>2 DEF c, d
          <5> QED
            BY <3>4, <5>1, <5>2
        <4> QED
          BY <2>5, <3>0, <3>2, <4>1, <4>2
      <3>5. CASE Applies(c, d)
        <4>1. d.sent = c.sent
          BY <3>5 DEF Applies
        <4>2. ~ Pops(c, d)
          BY <2>2, <4>1, SMT DEF Pops
        <4>3. Popped' + d.sent = Popped + c.sent
          BY <2>1, <4>1, <4>2 DEF c, d
        <4>4. IsApplied(n) \/ InStream(c.stream, n)
          BY <3>0, <3>2, <4>3
        <4>5. CASE IsApplied(n)
          BY <2>5, <4>5
        <4>6. CASE InStream(c.stream, n)
          <5>1. c.stream # <<>> /\ d.stream = Tail(c.stream) /\ Head(c.stream).blocks \in Seq(Block)
                /\ applied' = applied \o Head(c.stream).blocks
            BY <2>4, <3>5 DEF c, d
          <5>2. InStream(Tail(c.stream), n)
                \/ \E j \in 1 .. Len(Head(c.stream).blocks) : Head(c.stream).blocks[j].id = n
            BY <2>2, <4>6, <5>1, <1>StreamReads
          <5> QED
            BY <2>2, <5>1, <5>2, <1>AppliedGrows
        <4> QED
          BY <4>4, <4>5, <4>6
      <3> QED
        BY <2>1, <3>1, <3>3, <3>4, <3>5 DEF c, d
    <2> QED
      BY <2>1, <2>3, <2>6, <2>7, <1>TruthParts
  <1> SUFFICES ASSUME IndInv, ByteInv, TruthInv, [Next]_vars PROVE TruthInv'
    OBVIOUS
  <1> USE DEF threadVars, clientVars, faultVars
  <1>0. /\ TypeOK' /\ Nobody \notin Waiters /\ Threads \subseteq Waiters /\ Dtor \in Waiters
        /\ OwnerInv
    BY TypeStep, AsyncClientAssumption DEF Waiters, Nobody, Dtor, IndInv
  <1>1. ASSUME UNCHANGED <<calls, active, future, span, applied>>, Popped' = Popped
        PROVE  TruthInv'
    <2>1. \A n : IsApplied(n) => IsApplied(n)'
      BY <1>1 DEF IsApplied
    <2> QED
      BY <1>1, <2>1, <1>TruthFrame
  <1>2. ASSUME NEW v \in Waiters \cup {Nobody}, ScheduleFlush(v), v # Nobody => future[v] = "none",
               blocks' = <<>>, UNCHANGED <<issued, active, applied>>
        PROVE  TruthInv'
    BY <1>0, <1>2, QueuesSchedule, <1>TruthSchedule
  <1>3. CASE OnCallEnded \/ OnFlushRequest
    <2>1. CASE StartStep
      BY <1>0, <1>3, <2>1, SchedulerCases, QueuesStart, <1>TruthStart
    <2> QED
      BY <1>1, <1>3, <2>1, SchedulerCases, QueuesQuiet
  <1>4. CASE UNCHANGED <<blocks, issued, calls, active, future, span, applied>>
    BY <1>1, <1>4, QueuesQuiet
  <1>5. ASSUME NEW t \in Threads, Thread(t) PROVE TruthInv'
    <2>1. CASE \E w \in Shapes : Write(t, w)
      BY <1>0, <1>1, <2>1, QueuesBuffer DEF Write
    <2>2. CASE \E w \in Shapes : WriteAndSchedule(t, w)
      BY <1>0, <2>2, QueuesScheduleBuffer, <1>TruthSchedule DEF WriteAndSchedule
    <2>3. CASE WriteResume(t)
      <3>1. arg[t] \in Shapes
        BY <2>3 DEF WriteResume, IndInv, OwnerInv
      <3> QED
        BY <1>0, <2>3, <3>1, QueuesBuffer, <1>TruthRelease DEF WriteResume
    <2>4. CASE (\E w \in Shapes : WriteFull(t, w)) \/ Flush(t)
      <3>1. future[t] = "none"
        BY <1>0, <2>4 DEF WriteFull, Flush, OwnerInv
      <3> QED
        BY <1>0, <1>2, <2>4, <3>1 DEF WriteFull, Flush
    <2>5. CASE FlushDrained(t)
      BY <1>4, <2>5 DEF FlushDrained
    <2>6. CASE FlushRPC(t)
      <3>1. future[t] \in {"true", "false"}
        BY <1>0, <2>6 DEF FlushRPC, OwnerInv
      <3> QED
        BY <2>6, <3>1, QueuesQuiet, <1>TruthRelease DEF FlushRPC
    <2> QED
      BY <1>5, <2>1, <2>2, <2>3, <2>4, <2>5, <2>6 DEF Thread
  <1>6. CASE TimerHandler \/ Destroy
    <2>1. CASE TimerHandler
      BY <1>0, <1>2, <2>1 DEF TimerHandler
    <2>2. CASE Destroy
      BY <1>0, <1>2, <2>2 DEF Destroy, OwnerInv
    <2> QED
      BY <1>6, <2>1, <2>2
  <1>7. CASE OnTerminated \/ TimerExpire \/ DestroySend \/ DestroyJoin \/ DestroyStop
    BY <1>4, <1>7 DEF OnTerminated, TimerExpire, DestroySend, DestroyJoin, DestroyStop
  <1>8. ASSUME NEW j \in DOMAIN late, ServerLateWrite(j) PROVE TruthInv'
    <2>1. /\ late[j] # <<>> /\ applied' = applied \o Head(late[j]).blocks
          /\ UNCHANGED <<blocks, issued, calls, active, future, span>>
      BY <1>8 DEF ServerLateWrite
    <2>2. late[j] \in Seq(Request) /\ applied \in Seq(Block)
      <3>1. late \in Seq(Seq(Request)) /\ applied \in Seq(Block)
        BY DEF IndInv, TypeOK
      <3>2. j \in 1 .. Len(late)
        BY <3>1, SMT
      <3> QED
        BY <3>1, <3>2, ElementOfSeq
    <2>3. Head(late[j]) \in Request
      BY <2>1, <2>2, HeadTailProperties
    <2>4. \A n : IsApplied(n) => IsApplied(n)'
      BY <2>1, <2>2, <2>3, <1>AppliedGrows DEF Request
    <2> QED
      BY <2>1, <2>4, QueuesQuiet, <1>TruthFrame
  <1>9. CASE UNCHANGED vars
    BY <1>4, <1>9 DEF vars
  <1> QED
    <2>1. ASSUME NEW i \in DOMAIN active, Proceed(i) \/ Server(i) PROVE TruthInv'
      BY <2>1, <1>TruthCall, <1>TruthFinished DEF Proceed, Server, CallStep
    <2>2. CASE Faults
      BY <2>2, <1>TruthCall DEF Faults, CallStep
    <2> QED
      BY <1>3, <1>5, <1>6, <1>7, <1>8, <1>9, <2>1, <2>2 DEF Next, Scheduler, Destructor, Destroyed

\* The constructor establishes the counters, the futures and the bound.
LEMMA HeldInit == Init => HeldInv /\ CacheBound
  <1> SUFFICES ASSUME Init PROVE HeldInv /\ CacheBound
    OBVIOUS
  <1>1. Len(<<>>) = 0 /\ 1 .. 0 = {} /\ 0 - 0 = 0
    BY SMT
  <1>2. Taken = 0 /\ Popped = 0 /\ Len(issued) = 0 /\ Len(calls) = 0
    BY <1>1 DEF Init, Taken, Popped
  <1>3. ByteInv
    BY <1>1, <1>2 DEF Init, ByteInv, Total
  <1>4. FullInv /\ PoppedInv
    BY SMT DEF Init, FullInv, PoppedInv, Waiters
  <1>5. TruthInv
    BY <1>1, <1>2, SMT DEF Init, TruthInv
  <1>6. CacheBound
    BY AsyncClientAssumption, SMT DEF Init, CacheBound
  <1> QED
    BY <1>3, <1>4, <1>5, <1>6 DEF HeldInv

\* The counters of async_client are exact, whatever fails: cache_size_ is the number
\* of bytes that were buffered and not handed to gRPC, blocks_queue_size_ of those
\* that no call took.  Nothing is buffered behind a write() that waits for room, and
\* a future that is ready is about blocks that were handed over.
THEOREM HeldAlways == Spec => []HeldInv
  <1>1. Init => ByteInv /\ FullInv /\ PoppedInv /\ TruthInv
    BY HeldInit DEF HeldInv
  <1>2. HeldInv <=> ByteInv /\ FullInv /\ PoppedInv /\ TruthInv
    BY DEF HeldInv
  <1> QED
    BY <1>1, <1>2, Inductive, ByteStep, FullStep, PoppedStep, TruthStep, PTL DEF Spec

\* async_client::write keeps the cache within one write of its configured size,
\* for any threads, sizes, shapes of writes and faults.
THEOREM CacheBounded == Spec => []CacheBound
  <1>1. Init => CacheBound
    BY HeldInit
  <1>2. IndInv /\ HeldInv /\ CacheBound /\ [Next]_vars => CacheBound'
    BY BoundStep DEF HeldInv
  <1> QED
    BY <1>1, <1>2, Inductive, HeldAlways, PTL DEF Spec

\* A future that flush() or a full write() reads as true is about writes the server
\* applied, every one of them, also when streams break; as long as no write failed at
\* the server itself (errors = 0), an error that its stream handler drops.
THEOREM StatusIsTrue == Spec => []StatusTruthful
  <1>1. IndInv /\ HeldInv => StatusTruthful
    <2> SUFFICES ASSUME IndInv, HeldInv PROVE StatusTruthful
      OBVIOUS
    <2>1. DOMAIN applied = 1 .. Len(applied)
      BY SMT DEF IndInv, TypeOK
    <2> QED
      BY <2>1 DEF HeldInv, TruthInv, StatusTruthful, IsApplied
  <1> QED
    BY <1>1, Inductive, HeldAlways, PTL

-----------------------------------------------------------------------------
(* The counters are the sums that Accounting defines by recursion.         *)

WF == INSTANCE WellFoundedInduction

\* cache_size_ is the number of bytes in blocks_, in the calls of calls_ and in the
\* call under way, and blocks_queue_size_ of those in blocks_, for any threads,
\* shapes of writes and faults.
THEOREM AccountingExact == Spec => []Accounting
  <1>Least.
      ASSUME NEW S, S \subseteq Nat, S # {}
      PROVE  \E n \in S : \A m \in S : ~ (m < n)
    <2> USE <1>Least
    <2> DEFINE R == {ss \in Nat \X Nat : ss[1] < ss[2]}
    <2>1. WF!IsWellFoundedOn(R, Nat)
      BY WF!NatLessThanWellFounded DEF WF!OpToRel
    <2> HIDE DEF R
    <2>2. PICK n \in S : \A m \in S : <<m, n>> \notin R
      BY <2>1, WF!WFMin
    <2>3. ASSUME NEW m \in S PROVE ~ (m < n)
      <3> SUFFICES ASSUME m < n PROVE FALSE
        OBVIOUS
      <3>1. m \in Nat /\ n \in Nat
        OBVIOUS
      <3>2. <<m, n>> \in R
        BY <3>1, SMT DEF R
      <3> QED
        BY <2>2, <3>2
    <2> QED
      BY <2>3
  \* The equation of a sum has one solution: two of them agree before the first
  \* place where they would differ.
  <1>SumUnique.
      ASSUME NEW n \in Nat, NEW s, NEW f, NEW g, IsSum(f, s, n), IsSum(g, s, n)
      PROVE  f[n] = g[n]
    <2> USE <1>SumUnique
    <2> DEFINE S == {i \in Nat : i <= n /\ f[i] # g[i]}
    <2>1. S = {}
      <3> SUFFICES ASSUME S # {} PROVE FALSE
        OBVIOUS
      <3>1. S \subseteq Nat
        OBVIOUS
      <3> HIDE DEF S
      <3>2. PICK i \in S : \A m \in S : ~ (m < i)
        BY <3>1, <1>Least
      <3>3. i \in Nat /\ i <= n /\ f[i] # g[i]
        BY DEF S
      <3>4. i # 0
        BY <3>3, SMT DEF IsSum
      <3>5. i - 1 \in Nat /\ i - 1 <= n /\ i - 1 < i /\ i \in 0 .. n
        BY <3>3, <3>4, SMT
      <3>6. f[i - 1] = g[i - 1]
        BY <3>2, <3>5 DEF S
      <3>7. f[i] = f[i - 1] + s[i] /\ g[i] = g[i - 1] + s[i]
        BY <3>4, <3>5 DEF IsSum
      <3> QED
        BY <3>3, <3>6, <3>7
    <2>2. n <= n
      BY SMT
    <2> QED
      BY <2>1, <2>2
  \* SizeOfFirst adds up the sizes of blocks.
  <1>SizeIs.
      ASSUME NEW bs, NEW n \in Nat, NEW f,
             IsSum(f, [i \in 1 .. n |-> bs[i].size], n)
      PROVE  SizeOfFirst(bs, n) = f[n]
    <2> USE <1>SizeIs
    <2> DEFINE s == [i \in 1 .. n |-> bs[i].size]
               h == CHOOSE g : g = [i \in 0 .. n |-> IF i = 0 THEN 0 ELSE g[i - 1] + bs[i].size]
    <2>1. \A i \in 0 .. n : i # 0 => i \in 1 .. n
      BY SMT
    <2>2. ASSUME NEW g PROVE IsSum(g, s, n) <=>
                 g = [i \in 0 .. n |-> IF i = 0 THEN 0 ELSE g[i - 1] + bs[i].size]
      <3>1. \A i \in 0 .. n : (IF i = 0 THEN 0 ELSE g[i - 1] + bs[i].size)
                              = (IF i = 0 THEN 0 ELSE g[i - 1] + s[i])
        BY <2>1
      <3>2. [i \in 0 .. n |-> IF i = 0 THEN 0 ELSE g[i - 1] + bs[i].size]
            = [i \in 0 .. n |-> IF i = 0 THEN 0 ELSE g[i - 1] + s[i]]
        BY <3>1
      <3> QED
        BY <3>2 DEF IsSum
    <2>3. \E g : g = [i \in 0 .. n |-> IF i = 0 THEN 0 ELSE g[i - 1] + bs[i].size]
      BY <2>2
    <2>4. h = [i \in 0 .. n |-> IF i = 0 THEN 0 ELSE h[i - 1] + bs[i].size]
      BY ONLY <2>3
    <2>5. SizeOfFirst(bs, n) = h[n]
      BY DEF SizeOfFirst
    <2> HIDE DEF h
    <2>6. IsSum(h, s, n)
      BY <2>2, <2>4
    <2> HIDE DEF s
    <2>7. IsSum(f, s, n)
      BY DEF s
    <2> QED
      BY <2>5, <2>6, <2>7, <1>SumUnique
  <1>QueueSizeIs.
      ASSUME NEW q, Len(q) \in Nat, NEW f,
             IsSum(f, [i \in 1 .. Len(q) |-> SizeOf(q[i].blocks)], Len(q))
      PROVE  SizeOfQueue(q) = f[Len(q)]
    <2> USE <1>QueueSizeIs
    <2> DEFINE n == Len(q)
               s == [i \in 1 .. n |-> SizeOf(q[i].blocks)]
               h == CHOOSE g : g = [i \in 0 .. n |-> IF i = 0 THEN 0 ELSE g[i - 1] + SizeOf(q[i].blocks)]
    <2>1. \A i \in 0 .. n : i # 0 => i \in 1 .. n
      BY SMT
    <2>2. ASSUME NEW g PROVE IsSum(g, s, n) <=>
                 g = [i \in 0 .. n |-> IF i = 0 THEN 0 ELSE g[i - 1] + SizeOf(q[i].blocks)]
      <3>1. \A i \in 0 .. n : (IF i = 0 THEN 0 ELSE g[i - 1] + SizeOf(q[i].blocks))
                              = (IF i = 0 THEN 0 ELSE g[i - 1] + s[i])
        BY <2>1
      <3>2. [i \in 0 .. n |-> IF i = 0 THEN 0 ELSE g[i - 1] + SizeOf(q[i].blocks)]
            = [i \in 0 .. n |-> IF i = 0 THEN 0 ELSE g[i - 1] + s[i]]
        BY <3>1
      <3> QED
        BY <3>2 DEF IsSum
    <2>3. \E g : g = [i \in 0 .. n |-> IF i = 0 THEN 0 ELSE g[i - 1] + SizeOf(q[i].blocks)]
      BY <2>2
    <2>4. h = [i \in 0 .. n |-> IF i = 0 THEN 0 ELSE h[i - 1] + SizeOf(q[i].blocks)]
      BY ONLY <2>3
    <2>5. SizeOfQueue(q) = h[n]
      BY DEF SizeOfQueue
    <2> HIDE DEF h
    <2>6. IsSum(h, s, n)
      BY <2>2, <2>4
    <2> HIDE DEF s
    <2>7. IsSum(f, s, n)
      BY DEF s
    <2> QED
      BY <2>5, <2>6, <2>7, <1>SumUnique
  <1>HistoryTotal.
      ASSUME NEW ws, IsHistory(ws), NEW n \in 0 .. Len(ws)
      PROVE  TotalIn(ws, n) \in Nat /\ (n # 0 => TotalIn(ws, n) = TotalIn(ws, n - 1) + ws[n].size)
    <2> USE <1>HistoryTotal
    <2>1. n = 0 \/ n \in 1 .. Len(ws)
      BY SMT
    <2>2. ASSUME n \in 1 .. Len(ws) PROVE ws[n].end \in Nat
      <3>1. ws[n] \in Block
        BY <2>2, ElementOfSeq DEF IsHistory
      <3> QED
        BY <3>1 DEF Block
    <2>3. 0 \in Nat
      BY SMT
    <2> QED
      BY <2>1, <2>2, <2>3 DEF IsHistory, TotalIn
  \* The blocks of a segment hold the bytes between its ends.
  <1>SegmentSize.
      ASSUME NEW ws, IsHistory(ws), NEW bs \in Seq(Block), NEW a, NEW b, Segment(ws, bs, a, b)
      PROVE  SizeOf(bs) = TotalIn(ws, b) - TotalIn(ws, a)
    <2> USE <1>SegmentSize
    <2> DEFINE n == Len(bs)
               s == [i \in 1 .. n |-> bs[i].size]
               f == [i \in 0 .. n |-> TotalIn(ws, a + i) - TotalIn(ws, a)]
    <2>1. n \in Nat /\ Len(ws) \in Nat /\ a \in Nat /\ b = a + n /\ b <= Len(ws)
      BY SMT DEF Segment, IsHistory
    <2> HIDE DEF n
    <2>2. \A i \in 0 .. n : /\ a + i \in 0 .. Len(ws)
                            /\ i # 0 => /\ i \in 1 .. n /\ i - 1 \in 0 .. n
                                        /\ a + i # 0 /\ (a + i) - 1 = a + (i - 1)
      BY <2>1, SMT
    <2>3. a + 0 = a /\ 0 \in 0 .. n /\ n \in 0 .. n
      BY <2>1, SMT
    <2>4. ASSUME NEW i \in 0 .. n PROVE f[i] = IF i = 0 THEN 0 ELSE f[i - 1] + s[i]
      <3>0. a \in 0 .. Len(ws)
        BY <2>2, <2>3
      <3>1. TotalIn(ws, a) \in Nat /\ TotalIn(ws, a + i) \in Nat
        BY <2>2, <3>0, <1>HistoryTotal
      <3>2. CASE i = 0
        <4>1. TotalIn(ws, a) - TotalIn(ws, a) = 0
          BY <3>1, SMT
        <4> QED
          BY <2>3, <3>2, <4>1
      <3>3. CASE i # 0
        <4>1. TotalIn(ws, a + i) = TotalIn(ws, a + (i - 1)) + ws[a + i].size
          <5>1. TotalIn(ws, a + i) = TotalIn(ws, (a + i) - 1) + ws[a + i].size
            BY <2>2, <3>3, <1>HistoryTotal
          <5> QED
            BY <2>2, <3>3, <5>1
        <4>2. ws[a + i] = bs[i]
          BY <2>2, <3>3 DEF Segment, n
        <4>3. TotalIn(ws, a + (i - 1)) \in Nat
          BY <2>2, <3>3, <1>HistoryTotal
        <4>4. bs[i].size \in Nat
          <5>1. bs[i] \in Block
            BY <2>2, <3>3, ElementOfSeq DEF n
          <5>2. bs[i].size \in {w.size : w \in Shapes}
            BY <5>1 DEF Block
          <5> QED
            BY <5>2, AsyncClientAssumption
        <4>5. /\ f[i] = TotalIn(ws, a + i) - TotalIn(ws, a) /\ s[i] = bs[i].size
              /\ f[i - 1] = TotalIn(ws, a + (i - 1)) - TotalIn(ws, a)
          BY <2>2, <3>3
        <4>6. f[i] = f[i - 1] + s[i]
          BY ONLY <3>1, <4>1, <4>2, <4>3, <4>4, <4>5, SMT
        <4> QED
          BY <3>3, <4>6
      <3> QED
        BY <3>2, <3>3
    <2>5. IsSum(f, s, n)
      BY <2>4 DEF IsSum
    <2>6. SizeOfFirst(bs, n) = f[n]
      BY <2>1, <2>5, <1>SizeIs
    <2> QED
      BY <2>1, <2>3, <2>6 DEF SizeOf, n
  \* The calls of a chain hold the bytes between its ends.
  <1>ChainSize.
      ASSUME NEW ws, IsHistory(ws), NEW q, Len(q) \in Nat, NEW a, NEW b, Chain(ws, q, a, b),
             \A k \in 1 .. Len(q) : q[k].blocks \in Seq(Block) /\ q[k].upto \in Nat, a <= Len(ws)
      PROVE  SizeOfQueue(q) = TotalIn(ws, b) - TotalIn(ws, a)
    <2> USE <1>ChainSize
    <2> DEFINE n == Len(q)
               s == [i \in 1 .. n |-> SizeOf(q[i].blocks)]
               e == [i \in 0 .. n |-> Before(q, a, i + 1)]
               f == [i \in 0 .. n |-> TotalIn(ws, e[i]) - TotalIn(ws, a)]
    <2>1. Len(ws) \in Nat /\ a \in Nat /\ a \in 0 .. Len(ws)
      BY SMT DEF Chain, IsHistory
    <2>2. \A i \in 0 .. n : i # 0 => i \in 1 .. n /\ i - 1 \in 0 .. n /\ i + 1 # 1 /\ (i + 1) - 1 = i
                                     /\ (i - 1) + 1 = i
      BY SMT
    <2>3. 0 \in 0 .. n /\ n \in 0 .. n /\ 0 + 1 = 1
      BY SMT
    <2>4. e[0] = a /\ e[n] = b
      BY <2>3 DEF Before, Chain
    <2>5. \A i \in 1 .. n : i \in 0 .. n /\ i # 0
      BY SMT
    <2>6. ASSUME NEW i \in 1 .. n
          PROVE e[i] = q[i].upto /\ Segment(ws, q[i].blocks, e[i - 1], e[i])
      <3>1. e[i] = q[i].upto
        BY <2>2, <2>5 DEF Before
      <3>2. e[i - 1] = Before(q, a, i)
        BY <2>2, <2>5
      <3> QED
        BY <3>1, <3>2 DEF Chain
    <2> HIDE DEF e
    <2>7. ASSUME NEW i \in 0 .. n PROVE e[i] \in 0 .. Len(ws)
      <3>1. CASE i = 0
        BY <2>1, <2>4, <3>1
      <3>2. CASE i # 0
        <4>1. i \in 1 .. n
          BY <2>2, <3>2
        <4>2. e[i] \in Nat /\ e[i] <= Len(ws)
          BY <2>6, <4>1 DEF Segment
        <4> QED
          BY <2>1, <4>2, SMT
      <3> QED
        BY <3>1, <3>2
    <2>8. ASSUME NEW i \in 0 .. n PROVE f[i] = IF i = 0 THEN 0 ELSE f[i - 1] + s[i]
      <3>1. TotalIn(ws, a) \in Nat /\ TotalIn(ws, e[i]) \in Nat
        BY <2>1, <2>7, <1>HistoryTotal
      <3>2. CASE i = 0
        <4>1. TotalIn(ws, a) - TotalIn(ws, a) = 0
          BY <3>1, SMT
        <4> QED
          BY <2>3, <2>4, <3>2, <4>1
      <3>3. CASE i # 0
        <4>1. i \in 1 .. n /\ i - 1 \in 0 .. n
          BY <2>2, <3>3
        <4>2. s[i] = TotalIn(ws, e[i]) - TotalIn(ws, e[i - 1])
          <5>1. SizeOf(q[i].blocks) = TotalIn(ws, e[i]) - TotalIn(ws, e[i - 1])
            BY <2>6, <4>1, <1>SegmentSize
          <5> QED
            BY <4>1, <5>1
        <4>3. TotalIn(ws, e[i - 1]) \in Nat
          BY <2>7, <4>1, <1>HistoryTotal
        <4>4. /\ f[i] = TotalIn(ws, e[i]) - TotalIn(ws, a)
              /\ f[i - 1] = TotalIn(ws, e[i - 1]) - TotalIn(ws, a)
          BY <4>1
        <4>5. f[i] = f[i - 1] + s[i]
          BY ONLY <3>1, <4>2, <4>3, <4>4, SMT
        <4> QED
          BY <3>3, <4>5
      <3> QED
        BY <3>2, <3>3
    <2>9. IsSum(f, s, n)
      BY <2>8 DEF IsSum
    <2>10. SizeOfQueue(q) = f[n]
      <3> HIDE DEF f
      <3> QED
        BY <2>9, <1>QueueSizeIs
    <2> QED
      BY <2>3, <2>4, <2>10
  <1>1. ASSUME IndInv, HeldInv PROVE Accounting
    <2>1. /\ issued \in Seq(Block) /\ blocks \in Seq(Block) /\ calls \in Seq(Call)
          /\ Segment(issued, blocks, Taken, Len(issued)) /\ Chain(issued, calls, Started, Taken)
          /\ active # <<>> => Segment(issued, active[1].blocks, Popped, active[1].upto)
          /\ Len(issued) \in Nat /\ Popped \in Nat
      BY <1>1, QueueFacts
    <2>2. /\ \A n \in 1 .. Len(issued) : issued[n].end = TotalIn(issued, n - 1) + issued[n].size
          /\ blocksQueueSize = TotalIn(issued, Len(issued)) - TotalIn(issued, Taken)
          /\ cacheSize = TotalIn(issued, Len(issued)) - TotalIn(issued, Popped)
      BY <1>1, ByteFacts DEF HeldInv
    <2>3. IsHistory(issued)
      BY <2>1, <2>2 DEF IsHistory
    <2>4. /\ Popped \in 0 .. Len(issued) /\ Taken \in 0 .. Len(issued)
          /\ Len(issued) \in 0 .. Len(issued)
      BY <1>1, PoppedInside
    <2>5. SizeOf(blocks) = TotalIn(issued, Len(issued)) - TotalIn(issued, Taken)
      BY <2>1, <2>3, <1>SegmentSize
    <2>6. active \in Seq(CallData) /\ (active # <<>> => Len(active) = 1)
      BY <1>1 DEF IndInv, TypeOK, SchedulerInv
    <2>7. Chain(issued, active, Popped, Started)
      <3>1. CASE active = <<>>
        <4>1. Len(active) = 0 /\ 1 .. 0 = {} /\ 0 + 1 = 1
          BY <3>1, SMT
        <4> QED
          BY <2>1, <3>1, <4>1 DEF Chain, Started, Before
      <3>2. CASE active # <<>>
        <4>1. 1 .. 1 = {1} /\ 1 + 1 # 1 /\ (1 + 1) - 1 = 1
          BY SMT
        <4> QED
          BY <2>1, <2>6, <3>2, <4>1 DEF Chain, Started, Before
      <3> QED
        BY <3>1, <3>2
    <2>8. Started \in 0 .. Len(issued)
      <3>1. CASE active = <<>>
        BY <2>4, <3>1 DEF Started
      <3>2. CASE active # <<>>
        <4>1. active[1].upto \in Nat /\ active[1].upto <= Len(issued)
          <5>1. active[1] \in CallData
            BY <2>6, <3>2, ElementOfSeq, SMT
          <5> QED
            BY <2>1, <3>2, <5>1 DEF Segment, CallData
        <4> QED
          BY <2>1, <3>2, <4>1, SMT DEF Started
      <3> QED
        BY <3>1, <3>2
    <2>9. SizeOfQueue(calls) = TotalIn(issued, Taken) - TotalIn(issued, Started)
      <3>1. IsQueue(calls)
        BY <2>1, QueueType
      <3>2. Started <= Len(issued)
        BY <2>1, <2>8, SMT
      <3> QED
        BY <2>1, <2>3, <3>1, <3>2, <1>ChainSize DEF IsQueue
    <2>10. SizeOfQueue(active) = TotalIn(issued, Started) - TotalIn(issued, Popped)
      <3>1. Len(active) \in Nat /\ \A k \in 1 .. Len(active) : active[k] \in CallData
        BY <2>6, ElementOfSeq, SMT
      <3>2. \A k \in 1 .. Len(active) : active[k].blocks \in Seq(Block) /\ active[k].upto \in Nat
        BY <3>1 DEF CallData
      <3>3. Popped <= Len(issued)
        BY <2>1, <2>4, SMT
      <3> QED
        BY <2>3, <2>7, <3>1, <3>2, <3>3, <1>ChainSize
    <2>11. cacheSize = SizeOf(blocks) + SizeOfQueue(calls) + SizeOfQueue(active)
      <3>1. /\ TotalIn(issued, Len(issued)) \in Nat /\ TotalIn(issued, Taken) \in Nat
            /\ TotalIn(issued, Started) \in Nat /\ TotalIn(issued, Popped) \in Nat
        BY <2>3, <2>4, <2>8, <1>HistoryTotal
      <3> QED
        BY ONLY <2>2, <2>5, <2>9, <2>10, <3>1, SMT
    <2> QED
      BY <2>2, <2>5, <2>11 DEF Accounting, SizeOfQueue
  <1> QED
    BY <1>1, Inductive, HeldAlways, PTL
=============================================================================
