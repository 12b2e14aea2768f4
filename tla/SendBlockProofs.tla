-------------------------- MODULE SendBlockProofs ---------------------------
(***************************************************************************)
(* Merged requests, for any files, handles, sizes, offsets and number of   *)
(* writes: they stay within the block size and have the effect of their    *)
(* blocks one by one.  The sums, buffers and files that Blocks and         *)
(* SendBlock define by recursion are reasoned about by induction over      *)
(* sets of numbers.                                                        *)
(***************************************************************************)
EXTENDS SendBlock, SequenceTheorems, WellFoundedInduction, TLAPS

\* Leaves that need arithmetic or sequences cite SMT, the others go to Zenon.
USE Zenon
-----------------------------------------------------------------------------
(* Induction.                                                              *)

LEMMA Least ==
  ASSUME NEW S, S \subseteq Nat, S # {}
  PROVE  \E n \in S : \A m \in S : n <= m
  <1> DEFINE R == {ss \in Nat \X Nat : ss[1] < ss[2]}
  <1>1. IsWellFoundedOn(R, Nat)
    BY NatLessThanWellFounded DEF OpToRel
  <1> HIDE DEF R
  <1>2. PICK n \in S : \A m \in S : <<m, n>> \notin R
    BY <1>1, WFMin
  <1>3. ASSUME NEW m \in S PROVE ~ (m < n)
    <2> SUFFICES ASSUME m < n PROVE FALSE
      OBVIOUS
    <2>1. m \in Nat /\ n \in Nat
      OBVIOUS
    <2>2. <<m, n>> \in R
      BY <2>1, SMT DEF R
    <2> QED
      BY <1>2, <2>2
  <1> QED
    BY <1>3, SMT

\* A set of numbers that holds 0 and the successors of its elements holds them all.
LEMMA SetInduction ==
  ASSUME NEW S, 0 \in S, \A n \in Nat : n \in S => n + 1 \in S
  PROVE  Nat \subseteq S
  <1> SUFFICES ASSUME Nat \ S # {} PROVE FALSE
    OBVIOUS
  <1>1. Nat \ S \subseteq Nat
    OBVIOUS
  <1>2. PICK n \in Nat \ S : \A m \in Nat \ S : n <= m
    BY <1>1, Least
  <1>3. n # 0
    BY <1>2
  <1>4. n - 1 \in Nat /\ (n - 1) + 1 = n /\ ~ (n <= n - 1)
    BY <1>2, <1>3, SMT
  <1>5. n - 1 \notin S
    BY <1>2, <1>4
  <1> QED
    BY <1>2, <1>4, <1>5
-----------------------------------------------------------------------------
(* The bytes of the first blocks.                                          *)

IsSum(f, bs, n) ==
  f = [i \in 0 .. n |-> IF i = 0 THEN 0 ELSE f[i - 1] + bs[i].size]

LEMMA SumExists ==
  ASSUME NEW bs, NEW n \in Nat PROVE \E f : IsSum(f, bs, n)
  <1> DEFINE S == {k \in Nat : \E f : IsSum(f, bs, k)}
  <1>1. 0 \in S
    <2>1. IsSum([i \in 0 .. 0 |-> 0], bs, 0)
      BY SMT DEF IsSum
    <2> QED
      BY <2>1
  <1>2. ASSUME NEW k \in Nat, k \in S PROVE k + 1 \in S
    <2>1. PICK f : IsSum(f, bs, k)
      BY <1>2
    <2> DEFINE g == [i \in 0 .. k + 1 |-> IF i = k + 1 THEN f[k] + bs[k + 1].size ELSE f[i]]
    <2>2. IsSum(g, bs, k + 1)
      BY <2>1, SMT DEF IsSum
    <2>3. k + 1 \in Nat
      BY SMT
    <2> QED
      BY <2>2, <2>3
  <1> HIDE DEF S
  <1>3. n \in S
    BY <1>1, <1>2, SetInduction
  <1> QED
    BY <1>3 DEF S

\* What SizeOfFirst(bs, n) is made of.
LEMMA SumIs ==
  ASSUME NEW bs, NEW n \in Nat
  PROVE  \E f : IsSum(f, bs, n) /\ SizeOfFirst(bs, n) = f[n]
  <1> DEFINE f == CHOOSE h : h = [i \in 0 .. n |-> IF i = 0 THEN 0 ELSE h[i - 1] + bs[i].size]
  <1>1. IsSum(f, bs, n)
    BY SumExists DEF IsSum
  <1>2. SizeOfFirst(bs, n) = f[n]
    BY DEF SizeOfFirst
  <1> HIDE DEF f
  <1> QED
    BY <1>1, <1>2

\* Sums over the same blocks are the same as far as both go.
LEMMA SumAgrees ==
  ASSUME NEW bs, NEW cs, NEW n \in Nat, NEW m \in Nat, NEW f, NEW g,
         IsSum(f, bs, n), IsSum(g, cs, m),
         NEW k \in Nat, k <= n, k <= m, \A i \in 1 .. k : bs[i] = cs[i]
  PROVE  f[k] = g[k]
  <1> DEFINE S == {i \in Nat : i <= k => f[i] = g[i]}
  <1>1. 0 \in S
    BY SMT DEF IsSum
  <1>2. ASSUME NEW i \in Nat, i \in S PROVE i + 1 \in S
    <2>1. CASE i + 1 <= k
      <3>1. f[i] = g[i] /\ bs[i + 1] = cs[i + 1]
        BY <1>2, <2>1, SMT
      <3>2. f[i + 1] = f[i] + bs[i + 1].size /\ g[i + 1] = g[i] + cs[i + 1].size
        BY <2>1, SMT DEF IsSum
      <3> QED
        BY <3>1, <3>2, SMT
    <2> QED
      BY <2>1, SMT
  <1> HIDE DEF S
  <1>3. k \in S
    BY <1>1, <1>2, SetInduction
  <1> QED
    BY <1>3, SMT DEF S

\* SizeOfFirst adds up the sizes.
LEMMA SumStep ==
  ASSUME NEW bs, NEW n \in Nat
  PROVE  /\ SizeOfFirst(bs, 0) = 0
         /\ SizeOfFirst(bs, n + 1) = SizeOfFirst(bs, n) + bs[n + 1].size
  <1>0. n + 1 \in Nat /\ 0 \in Nat /\ n <= n + 1 /\ n <= n
    BY SMT
  <1>1. PICK z : IsSum(z, bs, 0) /\ SizeOfFirst(bs, 0) = z[0]
    BY <1>0, SumIs
  <1>2. PICK f : IsSum(f, bs, n) /\ SizeOfFirst(bs, n) = f[n]
    BY SumIs
  <1>3. PICK g : IsSum(g, bs, n + 1) /\ SizeOfFirst(bs, n + 1) = g[n + 1]
    BY <1>0, SumIs
  <1>4. z[0] = 0
    BY <1>1, SMT DEF IsSum
  <1>5. g[n + 1] = g[n] + bs[n + 1].size
    BY <1>3, SMT DEF IsSum
  <1>6. f[n] = g[n]
    <2>1. \A i \in 1 .. n : bs[i] = bs[i]
      OBVIOUS
    <2>2. \A h : IsSum(h, bs, n + 1) => f[n] = h[n]
      BY ONLY n \in Nat, <1>0, <1>2, <2>1, SumAgrees, SMT
    <2> QED
      BY <1>3, <2>2
  <1> QED
    BY <1>1, <1>2, <1>3, <1>4, <1>5, <1>6

LEMMA SumType ==
  ASSUME NEW bs, NEW n \in Nat, \A i \in 1 .. n : bs[i].size \in Nat
  PROVE  \A k \in 0 .. n : SizeOfFirst(bs, k) \in Nat
  <1> DEFINE S == {i \in Nat : i <= n => SizeOfFirst(bs, i) \in Nat}
  <1>1. 0 \in S
    BY SumStep, SMT
  <1>2. ASSUME NEW i \in Nat, i \in S PROVE i + 1 \in S
    <2>1. SizeOfFirst(bs, i + 1) = SizeOfFirst(bs, i) + bs[i + 1].size
      BY SumStep
    <2> QED
      BY <1>2, <2>1, SMT
  <1> HIDE DEF S
  <1>3. Nat \subseteq S
    BY <1>1, <1>2, SetInduction
  <1> QED
    BY <1>3, SMT DEF S

\* A request of several blocks stays within the block size.
LEMMA RequestWithin ==
  ASSUME NEW bs, NEW n, IsMergeRun(bs, n), n > 1
  PROVE  SizeOfFirst(bs, n) <= MaxBlockSize
  <1>1. n \in 2 .. n
    BY SMT DEF IsMergeRun
  <1> QED
    BY <1>1 DEF IsMergeRun, Continues
-----------------------------------------------------------------------------
(* The buffer of a merged request.                                         *)

IsBuf(f, bs, n) ==
  f = [i \in 0 .. n |-> IF i = 0 THEN <<>> ELSE f[i - 1] \o Buf(bs[i])]

LEMMA BufExists ==
  ASSUME NEW bs, NEW n \in Nat PROVE \E f : IsBuf(f, bs, n)
  <1> DEFINE S == {k \in Nat : \E f : IsBuf(f, bs, k)}
  <1>1. 0 \in S
    <2>1. IsBuf([i \in 0 .. 0 |-> <<>>], bs, 0)
      BY SMT DEF IsBuf
    <2> QED
      BY <2>1
  <1>2. ASSUME NEW k \in Nat, k \in S PROVE k + 1 \in S
    <2>1. PICK f : IsBuf(f, bs, k)
      BY <1>2
    <2> DEFINE g == [i \in 0 .. k + 1 |-> IF i = k + 1 THEN f[k] \o Buf(bs[k + 1]) ELSE f[i]]
    <2>2. ASSUME NEW i \in 0 .. k + 1
          PROVE  g[i] = IF i = 0 THEN <<>> ELSE g[i - 1] \o Buf(bs[i])
      <3>1. CASE i = k + 1
        <4>1. i # 0 /\ i - 1 = k /\ k \in 0 .. k + 1 /\ k # k + 1
          BY <3>1, SMT
        <4> QED
          BY <3>1, <4>1
      <3>2. CASE i # k + 1
        <4>1. i \in 0 .. k /\ (i # 0 => i - 1 \in 0 .. k + 1 /\ i - 1 # k + 1)
          BY <3>2, SMT
        <4>2. f[i] = IF i = 0 THEN <<>> ELSE f[i - 1] \o Buf(bs[i])
          BY <2>1, <4>1 DEF IsBuf
        <4> QED
          BY <3>2, <4>1, <4>2
      <3> QED
        BY <3>1, <3>2
    <2>3. IsBuf(g, bs, k + 1)
      BY <2>2 DEF IsBuf
    <2>4. k + 1 \in Nat
      BY SMT
    <2> QED
      BY <2>3, <2>4
  <1> HIDE DEF S
  <1>3. n \in S
    BY <1>1, <1>2, SetInduction
  <1> QED
    BY <1>3 DEF S

LEMMA BufIs ==
  ASSUME NEW bs, NEW n \in Nat
  PROVE  \E f : IsBuf(f, bs, n) /\ MergedBuf(bs, n) = f[n]
  <1> DEFINE f == CHOOSE h : h = [i \in 0 .. n |-> IF i = 0 THEN <<>> ELSE h[i - 1] \o Buf(bs[i])]
  <1>1. IsBuf(f, bs, n)
    BY BufExists DEF IsBuf
  <1>2. MergedBuf(bs, n) = f[n]
    BY DEF MergedBuf
  <1> HIDE DEF f
  <1> QED
    BY <1>1, <1>2

LEMMA BufAgrees ==
  ASSUME NEW bs, NEW n \in Nat, NEW f, NEW g, IsBuf(f, bs, n), IsBuf(g, bs, n + 1)
  PROVE  f[n] = g[n]
  <1> DEFINE S == {i \in Nat : i <= n => f[i] = g[i]}
  <1>1. 0 \in S
    BY SMT DEF IsBuf
  <1>2. ASSUME NEW i \in Nat, i \in S PROVE i + 1 \in S
    <2>1. CASE i + 1 <= n
      <3>1. f[i] = g[i]
        BY <1>2, <2>1, SMT
      <3>2. f[i + 1] = f[i] \o Buf(bs[i + 1]) /\ g[i + 1] = g[i] \o Buf(bs[i + 1])
        BY <2>1, SMT DEF IsBuf
      <3>3. i + 1 \in Nat
        BY SMT
      <3> QED
        BY <3>1, <3>2, <3>3
    <2> QED
      BY <2>1, SMT
  <1> HIDE DEF S
  <1>3. n \in S
    BY <1>1, <1>2, SetInduction
  <1> QED
    BY <1>3, SMT DEF S

\* MergedBuf puts the buffers of the blocks one after the other.
LEMMA BufStep ==
  ASSUME NEW bs, NEW n \in Nat
  PROVE  /\ MergedBuf(bs, 0) = <<>>
         /\ MergedBuf(bs, n + 1) = MergedBuf(bs, n) \o Buf(bs[n + 1])
  <1>0. n + 1 \in Nat /\ 0 \in Nat
    BY SMT
  <1>1. PICK z : IsBuf(z, bs, 0) /\ MergedBuf(bs, 0) = z[0]
    BY <1>0, BufIs
  <1>2. PICK f : IsBuf(f, bs, n) /\ MergedBuf(bs, n) = f[n]
    BY BufIs
  <1>3. PICK g : IsBuf(g, bs, n + 1) /\ MergedBuf(bs, n + 1) = g[n + 1]
    BY <1>0, BufIs
  <1>4. z[0] = <<>>
    BY <1>1, SMT DEF IsBuf
  <1>5. g[n + 1] = g[n] \o Buf(bs[n + 1])
    BY <1>3, SMT DEF IsBuf
  <1>6. f[n] = g[n]
    BY <1>2, <1>3, BufAgrees
  <1> QED
    BY <1>1, <1>2, <1>3, <1>4, <1>5, <1>6

Byte == Nat \X Nat
Block == [id : Nat, path : Paths, offset : Nat, size : Nat, fi : Handles]

LEMMA BufType == ASSUME NEW b \in Block PROVE Buf(b) \in Seq(Byte) /\ Len(Buf(b)) = b.size
  <1>1. b.size \in Nat /\ b.id \in Nat
    BY DEF Block
  <1>2. Buf(b) \in [1 .. b.size -> Byte]
    BY <1>1, SMT DEF Buf, Byte
  <1> QED
    BY <1>1, <1>2, SMT

LEMMA ConcatBytes ==
  ASSUME NEW s \in Seq(Byte), NEW t \in Seq(Byte)
  PROVE  s \o t \in Seq(Byte) /\ Len(s \o t) = Len(s) + Len(t)
  BY ConcatProperties

\* The buffer of a merged request holds as many bytes as its size says.
LEMMA MergedBufType ==
  ASSUME NEW bs \in Seq(Block), NEW n \in 0 .. Len(bs)
  PROVE  MergedBuf(bs, n) \in Seq(Byte) /\ Len(MergedBuf(bs, n)) = SizeOfFirst(bs, n)
  <1> DEFINE S == {i \in Nat : i <= Len(bs) =>
                     MergedBuf(bs, i) \in Seq(Byte) /\ Len(MergedBuf(bs, i)) = SizeOfFirst(bs, i)}
  <1>1. 0 \in S
    <2>1. MergedBuf(bs, 0) = <<>> /\ SizeOfFirst(bs, 0) = 0
      BY BufStep, SumStep, SMT
    <2>2. <<>> \in Seq(Byte) /\ Len(<<>>) = 0 /\ 0 \in Nat
      BY SMT
    <2> QED
      BY <2>1, <2>2
  <1>2. ASSUME NEW i \in Nat, i \in S PROVE i + 1 \in S
    <2>1. CASE i + 1 <= Len(bs)
      <3>1. /\ MergedBuf(bs, i + 1) = MergedBuf(bs, i) \o Buf(bs[i + 1])
            /\ SizeOfFirst(bs, i + 1) = SizeOfFirst(bs, i) + bs[i + 1].size
        BY BufStep, SumStep
      <3>2. i + 1 \in 1 .. Len(bs) /\ i <= Len(bs) /\ i + 1 \in Nat
        BY <2>1, SMT
      <3>3. bs[i + 1] \in Block
        BY <3>2, ElementOfSeq
      <3>4. Buf(bs[i + 1]) \in Seq(Byte) /\ Len(Buf(bs[i + 1])) = bs[i + 1].size
        BY <3>3, BufType
      <3>5. MergedBuf(bs, i) \in Seq(Byte) /\ Len(MergedBuf(bs, i)) = SizeOfFirst(bs, i)
        BY <1>2, <3>2
      <3>6. /\ MergedBuf(bs, i) \o Buf(bs[i + 1]) \in Seq(Byte)
            /\ Len(MergedBuf(bs, i) \o Buf(bs[i + 1])) = SizeOfFirst(bs, i) + bs[i + 1].size
        BY <3>4, <3>5, ConcatBytes
      <3> QED
        BY <3>1, <3>2, <3>6
    <2>2. i + 1 \in Nat
      BY SMT
    <2> QED
      BY <2>1, <2>2
  <1> HIDE DEF S
  <1>3. n \in S /\ n <= Len(bs)
    <2>1. n \in Nat /\ n <= Len(bs)
      BY SMT
    <2> QED
      BY <1>1, <1>2, <2>1, SetInduction
  <1> QED
    BY <1>3 DEF S
-----------------------------------------------------------------------------
(* The files.                                                              *)

IsFiles(files) == files = [p \in Paths |-> [o \in Cells |-> files[p][o]]]

\* What a write leaves in the cell o of p.
Cell(files, path, buf, size, offset, fi, p, o) ==
  IF p = path /\ o \in offset .. offset + size - 1
  THEN <<buf[o - offset + 1], fi>> ELSE files[p][o]

LEMMA WriteIs ==
  ASSUME NEW files, IsFiles(files), NEW path \in Paths, NEW buf, NEW size, NEW offset, NEW fi
  PROVE  /\ IsFiles(Write(files, path, buf, size, offset, fi))
         /\ \A p \in Paths, o \in Cells :
              Write(files, path, buf, size, offset, fi)[p][o]
                = Cell(files, path, buf, size, offset, fi, p, o)
  <1> DEFINE w == Write(files, path, buf, size, offset, fi)
             row == [o \in Cells |-> IF o \in offset .. offset + size - 1
                                     THEN <<buf[o - offset + 1], fi>> ELSE files[path][o]]
  <1>1. DOMAIN files = Paths
    BY DEF IsFiles
  <1>2. w = [p \in Paths |-> IF p = path THEN row ELSE files[p]]
    BY <1>1 DEF Write
  <1>3. \A p \in Paths : files[p] = [o \in Cells |-> files[p][o]]
    BY DEF IsFiles
  <1> HIDE DEF w
  <1>4. \A p \in Paths : w[p] = [o \in Cells |-> w[p][o]]
    BY <1>2, <1>3
  <1>5. IsFiles(w)
    BY <1>2, <1>4 DEF IsFiles
  <1>6. \A p \in Paths, o \in Cells : w[p][o] = Cell(files, path, buf, size, offset, fi, p, o)
    BY <1>2 DEF Cell
  <1> QED
    BY <1>5, <1>6 DEF w

LEMMA WriteCell ==
  ASSUME NEW files, IsFiles(files), NEW path \in Paths, NEW buf, NEW size, NEW offset, NEW fi,
         NEW p \in Paths, NEW o \in Cells
  PROVE  Write(files, path, buf, size, offset, fi)[p][o]
         = Cell(files, path, buf, size, offset, fi, p, o)
  BY WriteIs, SMT

\* Files are the same when their cells are.
LEMMA SameFiles ==
  ASSUME NEW f, NEW g, IsFiles(f), IsFiles(g),
         \A p \in Paths, o \in Cells : f[p][o] = g[p][o]
  PROVE  f = g
  BY DEF IsFiles

\* Writing a and then b behind it is writing the bytes of both.
WritesJoin(files, path, a, b, offset, fi) ==
  Write(files, path, a \o b, Len(a) + Len(b), offset, fi)
  = Write(Write(files, path, a, Len(a), offset, fi), path, b, Len(b), offset + Len(a), fi)

\* A write of two buffers is the write of the first and then that of the second.
LEMMA WriteTwice ==
  ASSUME NEW files, IsFiles(files), NEW path \in Paths, NEW fi, NEW offset \in Nat,
         NEW a \in Seq(Byte), NEW b \in Seq(Byte)
  PROVE  WritesJoin(files, path, a, b, offset, fi)
  <1> DEFINE one == Write(files, path, a, Len(a), offset, fi)
             two == Write(one, path, b, Len(b), offset + Len(a), fi)
             all == Write(files, path, a \o b, Len(a) + Len(b), offset, fi)
  <1>1. IsFiles(one) /\ IsFiles(two) /\ IsFiles(all)
    BY WriteIs
  <1>2. ASSUME NEW p \in Paths, NEW o \in Cells PROVE all[p][o] = two[p][o]
    <2>1. all[p][o] = Cell(files, path, a \o b, Len(a) + Len(b), offset, fi, p, o)
      BY WriteCell, SMT
    <2>2. one[p][o] = Cell(files, path, a, Len(a), offset, fi, p, o)
      BY WriteCell, SMT
    <2>3. two[p][o] = Cell(one, path, b, Len(b), offset + Len(a), fi, p, o)
      BY <1>1, WriteCell, SMT
    <2>4. o \in Nat /\ Len(a) \in Nat /\ Len(b) \in Nat
      BY SendBlockAssumption, SMT DEF Cells
    <2> HIDE DEF one, two, all
    <2>5. CASE o \in offset .. offset + Len(a) - 1
      <3>1. /\ o \in offset .. offset + (Len(a) + Len(b)) - 1
            /\ o \notin offset + Len(a) .. offset + Len(a) + Len(b) - 1
            /\ o - offset + 1 \in 1 .. Len(a)
        BY ONLY offset \in Nat, <2>4, <2>5, SMT
      <3>2. (a \o b)[o - offset + 1] = a[o - offset + 1]
        BY <2>4, <3>1, SMT
      <3> QED
        BY <2>1, <2>2, <2>3, <2>5, <3>1, <3>2 DEF Cell
    <2>6. CASE o \in offset + Len(a) .. offset + Len(a) + Len(b) - 1
      <3>1. /\ o \in offset .. offset + (Len(a) + Len(b)) - 1
            /\ o \notin offset .. offset + Len(a) - 1
            /\ o - offset + 1 \in Len(a) + 1 .. Len(a) + Len(b)
            /\ o - (offset + Len(a)) + 1 = (o - offset + 1) - Len(a)
        BY ONLY offset \in Nat, <2>4, <2>6, SMT
      <3>2. (a \o b)[o - offset + 1] = b[o - (offset + Len(a)) + 1]
        BY <2>4, <3>1, SMT
      <3> QED
        BY <2>1, <2>2, <2>3, <2>6, <3>1, <3>2 DEF Cell
    <2>7. CASE /\ o \notin offset .. offset + Len(a) - 1
               /\ o \notin offset + Len(a) .. offset + Len(a) + Len(b) - 1
      <3>1. o \notin offset .. offset + (Len(a) + Len(b)) - 1
        BY ONLY offset \in Nat, <2>4, <2>7, SMT
      <3> QED
        BY <2>1, <2>2, <2>3, <2>7, <3>1 DEF Cell
    <2> QED
      BY <2>5, <2>6, <2>7
  <1> HIDE DEF one, two, all
  <1>3. all = two
    BY <1>1, <1>2, SameFiles
  <1> QED
    BY <1>3 DEF one, two, all, WritesJoin
-----------------------------------------------------------------------------
(* The files after the first blocks were written one by one.               *)

IsAfter(f, files, bs, n) ==
  f = [i \in 0 .. n |-> IF i = 0 THEN files ELSE WriteBlock(f[i - 1], bs[i])]

WriteFirst(files, bs, n) ==
  LET after[i \in 0 .. n] == IF i = 0 THEN files ELSE WriteBlock(after[i - 1], bs[i])
  IN  after[n]

LEMMA AfterExists ==
  ASSUME NEW files, NEW bs, NEW n \in Nat PROVE \E f : IsAfter(f, files, bs, n)
  <1> DEFINE S == {k \in Nat : \E f : IsAfter(f, files, bs, k)}
  <1>1. 0 \in S
    <2>1. IsAfter([i \in 0 .. 0 |-> files], files, bs, 0)
      BY SMT DEF IsAfter
    <2> QED
      BY <2>1
  <1>2. ASSUME NEW k \in Nat, k \in S PROVE k + 1 \in S
    <2>1. PICK f : IsAfter(f, files, bs, k)
      BY <1>2
    <2> DEFINE g == [i \in 0 .. k + 1 |-> IF i = k + 1 THEN WriteBlock(f[k], bs[k + 1]) ELSE f[i]]
    <2>2. ASSUME NEW i \in 0 .. k + 1
          PROVE  g[i] = IF i = 0 THEN files ELSE WriteBlock(g[i - 1], bs[i])
      <3>1. CASE i = k + 1
        <4>1. i # 0 /\ i - 1 = k /\ k \in 0 .. k + 1 /\ k # k + 1
          BY <3>1, SMT
        <4> QED
          BY <3>1, <4>1
      <3>2. CASE i # k + 1
        <4>1. i \in 0 .. k /\ (i # 0 => i - 1 \in 0 .. k + 1 /\ i - 1 # k + 1)
          BY <3>2, SMT
        <4>2. f[i] = IF i = 0 THEN files ELSE WriteBlock(f[i - 1], bs[i])
          BY <2>1, <4>1 DEF IsAfter
        <4> QED
          BY <3>2, <4>1, <4>2
      <3> QED
        BY <3>1, <3>2
    <2>3. IsAfter(g, files, bs, k + 1)
      BY <2>2 DEF IsAfter
    <2>4. k + 1 \in Nat
      BY SMT
    <2> QED
      BY <2>3, <2>4
  <1> HIDE DEF S
  <1>3. n \in S
    BY <1>1, <1>2, SetInduction
  <1> QED
    BY <1>3 DEF S

LEMMA AfterIs ==
  ASSUME NEW files, NEW bs, NEW n \in Nat
  PROVE  \E f : IsAfter(f, files, bs, n) /\ WriteFirst(files, bs, n) = f[n]
  <1> DEFINE f == CHOOSE h : h = [i \in 0 .. n |-> IF i = 0 THEN files
                                                  ELSE WriteBlock(h[i - 1], bs[i])]
  <1>1. IsAfter(f, files, bs, n)
    <2>1. PICK g : IsAfter(g, files, bs, n)
      BY AfterExists
    <2>2. \E h : h = [i \in 0 .. n |-> IF i = 0 THEN files ELSE WriteBlock(h[i - 1], bs[i])]
      BY <2>1 DEF IsAfter
    <2> QED
      BY ONLY <2>2 DEF IsAfter
  <1>2. WriteFirst(files, bs, n) = f[n]
    BY DEF WriteFirst
  <1> HIDE DEF f
  <1> QED
    BY <1>1, <1>2

LEMMA AfterAgrees ==
  ASSUME NEW files, NEW bs, NEW n \in Nat, NEW f, NEW g,
         IsAfter(f, files, bs, n), IsAfter(g, files, bs, n + 1)
  PROVE  f[n] = g[n]
  <1> DEFINE S == {i \in Nat : i <= n => f[i] = g[i]}
  <1>1. 0 \in S
    BY SMT DEF IsAfter
  <1>2. ASSUME NEW i \in Nat, i \in S PROVE i + 1 \in S
    <2>1. CASE i + 1 <= n
      <3>1. f[i] = g[i]
        BY <1>2, <2>1, SMT
      <3>2. f[i + 1] = WriteBlock(f[i], bs[i + 1]) /\ g[i + 1] = WriteBlock(g[i], bs[i + 1])
        BY <2>1, SMT DEF IsAfter
      <3>3. i + 1 \in Nat
        BY SMT
      <3> QED
        BY <3>1, <3>2, <3>3
    <2> QED
      BY <2>1, SMT
  <1> HIDE DEF S
  <1>3. n \in S
    BY <1>1, <1>2, SetInduction
  <1> QED
    BY <1>3, SMT DEF S

\* WriteFirst writes one block after the other.
LEMMA AfterStep ==
  ASSUME NEW files, NEW bs, NEW n \in Nat
  PROVE  /\ WriteFirst(files, bs, 0) = files
         /\ WriteFirst(files, bs, n + 1) = WriteBlock(WriteFirst(files, bs, n), bs[n + 1])
  <1>0. n + 1 \in Nat /\ 0 \in Nat
    BY SMT
  <1>1. PICK z : IsAfter(z, files, bs, 0) /\ WriteFirst(files, bs, 0) = z[0]
    BY <1>0, AfterIs
  <1>2. PICK f : IsAfter(f, files, bs, n) /\ WriteFirst(files, bs, n) = f[n]
    BY AfterIs
  <1>3. PICK g : IsAfter(g, files, bs, n + 1) /\ WriteFirst(files, bs, n + 1) = g[n + 1]
    BY <1>0, AfterIs
  <1>4. z[0] = files
    BY <1>1, SMT DEF IsAfter
  <1>5. g[n + 1] = WriteBlock(g[n], bs[n + 1])
    BY <1>3, SMT DEF IsAfter
  <1>6. f[n] = g[n]
    BY ONLY n \in Nat, <1>2, <1>3, AfterAgrees, SMT
  <1> QED
    BY <1>1, <1>2, <1>3, <1>4, <1>5, <1>6

\* Only the blocks that are written matter.
LEMMA AfterSame ==
  ASSUME NEW files, NEW bs, NEW cs, NEW n \in Nat, \A i \in 1 .. n : bs[i] = cs[i]
  PROVE  WriteFirst(files, bs, n) = WriteFirst(files, cs, n)
  <1> DEFINE S == {i \in Nat : i <= n => WriteFirst(files, bs, i) = WriteFirst(files, cs, i)}
  <1>1. 0 \in S
    <2>1. WriteFirst(files, bs, 0) = files /\ WriteFirst(files, cs, 0) = files /\ 0 \in Nat
      BY AfterStep
    <2> QED
      BY <2>1
  <1>2. ASSUME NEW i \in Nat, i \in S PROVE i + 1 \in S
    <2>0. i + 1 \in Nat
      BY SMT
    <2>1. CASE i + 1 <= n
      <3>1. i <= n /\ i + 1 \in 1 .. n
        BY <2>1, SMT
      <3>2. WriteFirst(files, bs, i + 1) = WriteBlock(WriteFirst(files, bs, i), bs[i + 1])
        BY ONLY i \in Nat, AfterStep, SMT
      <3>3. WriteFirst(files, cs, i + 1) = WriteBlock(WriteFirst(files, cs, i), cs[i + 1])
        BY ONLY i \in Nat, AfterStep, SMT
      <3>4. bs[i + 1] = cs[i + 1] /\ WriteFirst(files, bs, i) = WriteFirst(files, cs, i)
        BY <1>2, <3>1
      <3> QED
        BY <2>0, <3>2, <3>3, <3>4
    <2> QED
      BY <2>0, <2>1
  <1> HIDE DEF S
  <1>3. n \in S /\ n <= n
    <2>1. n <= n
      BY SMT
    <2> QED
      BY <1>1, <1>2, <2>1, SetInduction
  <1> QED
    BY <1>3 DEF S

LEMMA AfterFiles ==
  ASSUME NEW files, IsFiles(files), NEW bs \in Seq(Block), NEW n \in 0 .. Len(bs)
  PROVE  IsFiles(WriteFirst(files, bs, n))
  <1> DEFINE S == {i \in Nat : i <= Len(bs) => IsFiles(WriteFirst(files, bs, i))}
  <1>1. 0 \in S
    <2>1. WriteFirst(files, bs, 0) = files /\ 0 \in Nat
      BY AfterStep
    <2> QED
      BY <2>1
  <1>2. ASSUME NEW i \in Nat, i \in S PROVE i + 1 \in S
    <2>0. i + 1 \in Nat
      BY SMT
    <2>1. CASE i + 1 <= Len(bs)
      <3>1. i <= Len(bs) /\ i + 1 \in 1 .. Len(bs)
        BY <2>1, SMT
      <3>2. WriteFirst(files, bs, i + 1) = WriteBlock(WriteFirst(files, bs, i), bs[i + 1])
        BY AfterStep
      <3>3. bs[i + 1] \in Block /\ IsFiles(WriteFirst(files, bs, i))
        BY <1>2, <3>1, ElementOfSeq
      <3>4. bs[i + 1].path \in Paths
        BY <3>3 DEF Block
      <3>5. IsFiles(WriteBlock(WriteFirst(files, bs, i), bs[i + 1]))
        BY <3>3, <3>4, WriteIs DEF WriteBlock
      <3> QED
        BY <2>0, <3>2, <3>5
    <2> QED
      BY <2>0, <2>1
  <1> HIDE DEF S
  <1>3. n \in S /\ n <= Len(bs)
    <2>1. n <= Len(bs) /\ n \in Nat
      BY SMT
    <2> QED
      BY <1>1, <1>2, <2>1, SetInduction
  <1> QED
    BY <1>3 DEF S

\* The blocks after the first n are written on top of those.
LEMMA AfterShift ==
  ASSUME NEW files, NEW bs \in Seq(Block), NEW n \in 1 .. Len(bs), NEW k \in 0 .. Len(bs) - n
  PROVE  WriteFirst(WriteFirst(files, bs, n), SubSeq(bs, n + 1, Len(bs)), k)
         = WriteFirst(files, bs, n + k)
  <1> DEFINE cs == SubSeq(bs, n + 1, Len(bs))
             start == WriteFirst(files, bs, n)
             S == {i \in Nat : i <= Len(bs) - n =>
                     WriteFirst(start, cs, i) = WriteFirst(files, bs, n + i)}
  <1>0. Len(bs) \in Nat /\ n \in Nat /\ n + 0 = n
    BY SMT
  <1>c. \A i \in 1 .. Len(bs) - n : cs[i] = bs[n + i]
    BY <1>0, SMT
  <1> HIDE DEF cs, start
  <1>1. 0 \in S
    <2>1. WriteFirst(start, cs, 0) = start /\ 0 \in Nat
      BY AfterStep
    <2> QED
      BY <1>0, <2>1 DEF start
  <1>2. ASSUME NEW i \in Nat, i \in S PROVE i + 1 \in S
    <2>0. i + 1 \in Nat /\ n + i \in Nat /\ (n + i) + 1 = n + (i + 1)
      BY <1>0, SMT
    <2>1. CASE i + 1 <= Len(bs) - n
      <3>1. i <= Len(bs) - n /\ i + 1 \in 1 .. Len(bs) - n
        BY <1>0, <2>1, SMT
      <3>2. WriteFirst(start, cs, i + 1) = WriteBlock(WriteFirst(start, cs, i), cs[i + 1])
        BY AfterStep
      <3>3. WriteFirst(files, bs, (n + i) + 1)
            = WriteBlock(WriteFirst(files, bs, n + i), bs[(n + i) + 1])
        BY <2>0, AfterStep
      <3>4. cs[i + 1] = bs[n + (i + 1)] /\ WriteFirst(start, cs, i) = WriteFirst(files, bs, n + i)
        BY <1>2, <1>c, <3>1
      <3> QED
        BY <2>0, <3>2, <3>3, <3>4
    <2> QED
      BY <2>0, <2>1
  <1> HIDE DEF S
  <1>3. k \in S /\ k <= Len(bs) - n
    <2>1. k <= Len(bs) - n /\ k \in Nat
      BY <1>0, SMT
    <2> QED
      BY <1>1, <1>2, <2>1, SetInduction
  <1> QED
    BY <1>3 DEF S, cs, start
-----------------------------------------------------------------------------
(* A merged request.                                                       *)

\* The blocks of a request follow each other in one file, through one handle.
LEMMA MergeFollows ==
  ASSUME NEW bs \in Seq(Block), NEW n, IsMergeRun(bs, n), NEW k \in 1 .. n
  PROVE  /\ bs[k].path = bs[1].path /\ bs[k].fi = bs[1].fi
         /\ bs[k].offset = bs[1].offset + SizeOfFirst(bs, k - 1)
  <1> DEFINE Follows(i) == /\ bs[i].path = bs[1].path /\ bs[i].fi = bs[1].fi
                           /\ bs[i].offset = bs[1].offset + SizeOfFirst(bs, i - 1)
             S == {i \in Nat : i + 1 <= n => Follows(i + 1)}
  <1>0. n \in 1 .. Len(bs) /\ Len(bs) \in Nat /\ n \in Nat
    BY SMT DEF IsMergeRun
  <1>b. \A i \in 1 .. n : bs[i] \in Block
    <2>1. \A i \in 1 .. n : i \in 1 .. Len(bs)
      BY <1>0, SMT
    <2> QED
      BY <2>1, ElementOfSeq
  <1>1. 0 \in S
    <2>1. 0 + 1 = 1 /\ 1 - 1 = 0 /\ 0 \in Nat /\ 1 \in 1 .. n
      BY <1>0, SMT
    <2>2. SizeOfFirst(bs, 0) = 0 /\ bs[1].offset \in Nat
      BY <1>b, <2>1, SumStep DEF Block
    <2>3. bs[1].offset = bs[1].offset + SizeOfFirst(bs, 0)
      BY <2>2, SMT
    <2> QED
      BY <2>1, <2>3
  <1>2. ASSUME NEW i \in Nat, i \in S PROVE i + 1 \in S
    <2>0. i + 1 \in Nat /\ (i + 1) - 1 = i /\ ((i + 1) + 1) - 1 = i + 1
      BY SMT
    <2>1. CASE (i + 1) + 1 <= n
      <3>1. (i + 1) + 1 \in 2 .. n /\ i + 1 <= n /\ i + 1 \in 1 .. n
        BY <1>0, <2>1, SMT
      <3>2. IsMergeable(bs[i + 1], bs[(i + 1) + 1])
        BY <2>0, <3>1 DEF IsMergeRun, Continues
      <3>3. Follows(i + 1)
        BY <1>2, <3>1
      <3>4. SizeOfFirst(bs, i + 1) = SizeOfFirst(bs, i) + bs[i + 1].size
        BY SumStep
      <3>5. /\ bs[1].offset \in Nat /\ bs[i + 1].size \in Nat /\ SizeOfFirst(bs, i) \in Nat
        <4>1. \A j \in 1 .. n : bs[j].size \in Nat
          BY <1>b DEF Block
        <4>2. 1 \in 1 .. n /\ i \in 0 .. n
          BY <3>1, <1>0, SMT
        <4> QED
          BY <1>0, <1>b, <3>1, <4>1, <4>2, SumType DEF Block
      <3>6. bs[(i + 1) + 1].offset = bs[1].offset + SizeOfFirst(bs, i + 1)
        <4>1. /\ bs[(i + 1) + 1].offset = bs[i + 1].offset + bs[i + 1].size
              /\ bs[i + 1].offset = bs[1].offset + SizeOfFirst(bs, i)
          BY <2>0, <3>2, <3>3 DEF IsMergeable
        <4> QED
          BY ONLY <3>4, <3>5, <4>1, SMT
      <3> QED
        BY <2>0, <3>2, <3>3, <3>6 DEF IsMergeable
    <2> QED
      BY <2>0, <2>1
  <1> HIDE DEF S
  <1>3. k - 1 \in S /\ (k - 1) + 1 = k /\ k <= n
    <2>1. k <= n /\ k - 1 \in Nat /\ (k - 1) + 1 = k
      BY <1>0, SMT
    <2> QED
      BY <1>1, <1>2, <2>1, SetInduction
  <1> QED
    BY <1>3 DEF S

\* A request has the effect of its blocks written one by one.
LEMMA MergedWrite ==
  ASSUME NEW files, IsFiles(files), NEW bs \in Seq(Block), NEW n, IsMergeRun(bs, n)
  PROVE  Write(files, bs[1].path, MergedBuf(bs, n), SizeOfFirst(bs, n), bs[1].offset, bs[1].fi)
         = WriteFirst(files, bs, n)
  <1> DEFINE Req(i) == Write(files, bs[1].path, MergedBuf(bs, i), SizeOfFirst(bs, i),
                             bs[1].offset, bs[1].fi)
             S == {i \in Nat : i <= n => Req(i) = WriteFirst(files, bs, i)}
  <1>0. n \in 1 .. Len(bs) /\ Len(bs) \in Nat /\ n \in Nat /\ n <= n /\ 1 \in 1 .. Len(bs)
    BY SMT DEF IsMergeRun
  <1>b. bs[1] \in Block
    BY <1>0, ElementOfSeq
  <1>c. bs[1].path \in Paths /\ bs[1].offset \in Nat
    BY <1>b DEF Block
  <1>1. 0 \in S
    <2>1. MergedBuf(bs, 0) = <<>> /\ SizeOfFirst(bs, 0) = 0 /\ WriteFirst(files, bs, 0) = files
      <3>1. 0 \in Nat
        BY SMT
      <3> QED
        BY <3>1, BufStep, SumStep, AfterStep
    <2> DEFINE w == Write(files, bs[1].path, <<>>, 0, bs[1].offset, bs[1].fi)
    <2>2. IsFiles(w)
      BY <1>c, WriteIs
    <2>3. ASSUME NEW p \in Paths, NEW o \in Cells PROVE w[p][o] = files[p][o]
      <3>1. w[p][o] = Cell(files, bs[1].path, <<>>, 0, bs[1].offset, bs[1].fi, p, o)
        BY <1>c, WriteCell, SMT
      <3>2. o \notin bs[1].offset .. bs[1].offset + 0 - 1
        BY <1>c, SMT
      <3> QED
        BY <3>1, <3>2 DEF Cell
    <2> HIDE DEF w
    <2>4. w = files
      BY <2>2, <2>3, SameFiles
    <2> QED
      BY <2>1, <2>4 DEF w
  <1>2. ASSUME NEW i \in Nat, i \in S PROVE i + 1 \in S
    <2>0. i + 1 \in Nat /\ (i + 1) - 1 = i
      BY SMT
    <2>1. CASE i + 1 <= n
      <3>1. i + 1 \in 1 .. n /\ i + 1 \in 1 .. Len(bs) /\ i <= n /\ i \in 0 .. Len(bs)
        BY <1>0, <2>1, SMT
      <3>2. bs[i + 1] \in Block
        BY <3>1, ElementOfSeq
      <3> DEFINE x == MergedBuf(bs, i)
                 y == Buf(bs[i + 1])
      <3>3. x \in Seq(Byte) /\ Len(x) = SizeOfFirst(bs, i)
        BY <3>1, MergedBufType
      <3>4. y \in Seq(Byte) /\ Len(y) = bs[i + 1].size
        BY <3>2, BufType
      <3>5. MergedBuf(bs, i + 1) = x \o y /\ SizeOfFirst(bs, i + 1) = Len(x) + Len(y)
        BY <3>3, <3>4, BufStep, SumStep
      <3>6. /\ bs[i + 1].path = bs[1].path /\ bs[i + 1].fi = bs[1].fi
            /\ bs[i + 1].offset = bs[1].offset + Len(x)
        BY <2>0, <3>1, <3>3, MergeFollows
      <3>7. Req(i) = WriteFirst(files, bs, i)
        BY <1>2, <3>1
      <3>8. WriteFirst(files, bs, i + 1) = WriteBlock(WriteFirst(files, bs, i), bs[i + 1])
        BY AfterStep
      <3>9. WriteBlock(Req(i), bs[i + 1])
            = Write(Req(i), bs[1].path, y, Len(y), bs[1].offset + Len(x), bs[1].fi)
        BY <3>4, <3>6 DEF WriteBlock
      <3>10. Req(i) = Write(files, bs[1].path, x, Len(x), bs[1].offset, bs[1].fi)
        BY <3>3
      <3> HIDE DEF x, y, Req
      <3>11. Write(files, bs[1].path, x \o y, Len(x) + Len(y), bs[1].offset, bs[1].fi)
             = Write(Req(i), bs[1].path, y, Len(y), bs[1].offset + Len(x), bs[1].fi)
        <4>1. WritesJoin(files, bs[1].path, x, y, bs[1].offset, bs[1].fi)
          BY <1>c, <3>3, <3>4, WriteTwice
        <4> QED
          BY <3>10, <4>1 DEF WritesJoin
      <3>12. Req(i + 1) = Write(files, bs[1].path, x \o y, Len(x) + Len(y), bs[1].offset, bs[1].fi)
        BY <3>5 DEF Req
      <3> QED
        BY <2>0, <3>7, <3>8, <3>9, <3>11, <3>12
    <2> QED
      BY <2>0, <2>1
  <1> HIDE DEF S
  <1>3. n \in S
    BY <1>0, <1>1, <1>2, SetInduction
  <1> QED
    BY <1>0, <1>3 DEF S
-----------------------------------------------------------------------------
(* The theorems.                                                           *)

Inv == /\ deque \in Seq(Block) /\ written \in Nat
       /\ IsFiles(disk) /\ MergeKeepsContent /\ merged \in Int

LEMMA WriteAllIs == ASSUME NEW files, NEW bs PROVE WriteAll(files, bs) = WriteFirst(files, bs, Len(bs))
  BY DEF WriteAll, WriteFirst

LEMMA InitInv == Init => Inv
  <1> SUFFICES ASSUME Init PROVE Inv
    OBVIOUS
  <1>1. /\ deque = <<>> /\ <<>> \in Seq(Block) /\ Len(<<>>) = 0 /\ 0 \in Nat /\ 0 \in Int
    BY SMT DEF Init
  <1>2. WriteAll(disk, deque) = disk
    BY <1>1, WriteAllIs, AfterStep
  <1>3. IsFiles(Empty)
    BY DEF IsFiles, Empty
  <1> QED
    BY <1>1, <1>2, <1>3 DEF Init, Inv, MergeKeepsContent

LEMMA PushKeeps ==
  ASSUME Inv, NEW p \in Paths, NEW o \in Cells, NEW s \in Sizes, NEW fi \in Handles,
         Push(p, o, s, fi)
  PROVE  Inv'
  <1> DEFINE b == [id |-> written + 1, path |-> p, offset |-> o, size |-> s, fi |-> fi]
             n == Len(deque)
  <1>1. deque' = Append(deque, b) /\ reference' = WriteBlock(reference, b) /\ disk' = disk
        /\ written' = written + 1 /\ merged' = merged
    BY DEF Push
  <1>2. b \in Block /\ written + 1 \in Nat
    BY SendBlockAssumption, SMT DEF Inv, Block, Cells
  <1> HIDE DEF b
  <1>3. /\ deque' \in Seq(Block) /\ Len(deque') = n + 1 /\ n \in Nat /\ deque'[n + 1] = b
        /\ \A i \in 1 .. n : deque'[i] = deque[i]
    BY <1>1, <1>2, SMT DEF Inv
  <1>4. WriteFirst(disk, deque', n + 1) = WriteBlock(WriteFirst(disk, deque', n), deque'[n + 1])
    BY <1>3, AfterStep
  <1>5. WriteFirst(disk, deque', n) = WriteFirst(disk, deque, n)
    BY <1>3, AfterSame
  <1>6. WriteAll(disk, deque) = reference
    BY DEF Inv, MergeKeepsContent
  <1>7. WriteAll(disk, deque') = WriteBlock(reference, b)
    BY <1>3, <1>4, <1>5, <1>6, WriteAllIs
  <1> QED
    BY <1>1, <1>2, <1>3, <1>7 DEF Inv, MergeKeepsContent

LEMMA SendKeeps == ASSUME Inv, Send PROVE Inv'
  <1>1. PICK n \in DOMAIN deque :
          /\ IsMergeRun(deque, n)
          /\ disk' = Write(disk, deque[1].path, MergedBuf(deque, n), SizeOfFirst(deque, n),
                           deque[1].offset, deque[1].fi)
          /\ merged' = IF n > 1 /\ SizeOfFirst(deque, n) > merged
                       THEN SizeOfFirst(deque, n) ELSE merged
          /\ deque' = SubSeq(deque, n + 1, Len(deque))
          /\ reference' = reference /\ written' = written
    BY DEF Send, WriteRequest
  <1>2. /\ n \in 1 .. Len(deque) /\ n \in Nat /\ Len(deque) \in Nat /\ n \in 0 .. Len(deque)
        /\ Len(deque) - n \in 0 .. Len(deque) - n /\ n + (Len(deque) - n) = Len(deque)
    <2>1. n \in 1 .. Len(deque)
      BY <1>1 DEF IsMergeRun
    <2>2. Len(deque) \in Nat
      BY LenProperties DEF Inv
    <2>3. \A m \in Nat : \A j \in 1 .. m : /\ j \in Nat /\ j \in 0 .. m /\ m - j \in 0 .. m - j
                                          /\ j + (m - j) = m
      BY SMT
    <2> QED
      BY <2>1, <2>2, <2>3
  <1>3. deque' \in Seq(Block) /\ Len(deque') = Len(deque) - n
    BY <1>1, <1>2, SMT DEF Inv
  <1>4. disk' = WriteFirst(disk, deque, n)
    BY <1>1, MergedWrite DEF Inv
  <1>5. IsFiles(disk')
    BY <1>2, <1>4, AfterFiles DEF Inv
  <1>6. WriteFirst(disk', deque', Len(deque) - n) = WriteFirst(disk, deque, Len(deque))
    <2>1. WriteFirst(WriteFirst(disk, deque, n), SubSeq(deque, n + 1, Len(deque)), Len(deque) - n)
          = WriteFirst(disk, deque, n + (Len(deque) - n))
      BY <1>2, AfterShift DEF Inv
    <2> QED
      BY <1>1, <1>2, <1>4, <2>1
  <1>7. MergeKeepsContent'
    BY <1>1, <1>3, <1>6, WriteAllIs DEF Inv, MergeKeepsContent
  <1>8. merged' \in Int
    <2>1. \A i \in 1 .. n : deque[i].size \in Nat
      <3>1. \A i \in 1 .. n : i \in 1 .. Len(deque)
        BY <1>2, SMT
      <3>2. \A i \in 1 .. n : deque[i] \in Block
        BY <3>1, ElementOfSeq DEF Inv
      <3> QED
        BY <3>2 DEF Block
    <2>2. n \in 0 .. n
      BY <1>2, SMT
    <2>3. SizeOfFirst(deque, n) \in Nat
      BY <1>2, <2>1, <2>2, SumType
    <2> QED
      BY <1>1, <2>3, SMT DEF Inv
  <1> QED
    BY <1>1, <1>3, <1>5, <1>7, <1>8 DEF Inv

LEMMA StepInv == Inv /\ [Next]_vars => Inv'
  <1> SUFFICES ASSUME Inv, [Next]_vars PROVE Inv'
    OBVIOUS
  <1>1. CASE UNCHANGED vars
    BY <1>1 DEF vars, Inv, MergeKeepsContent
  <1> QED
    BY <1>1, PushKeeps, SendKeeps DEF Next

\* Whatever send_block merges, the server's files and the blocks that are left hold what
\* the application wrote, byte by byte and through the handle of each write(): for any
\* files, handles, sizes and offsets, and any number of writes.
THEOREM MergeKeepsContentAlways == Spec => []MergeKeepsContent
  <1>1. Inv => MergeKeepsContent
    BY DEF Inv
  <1> QED
    BY <1>1, InitInv, StepInv, PTL DEF Spec

\* send_block never merges past config::block_size_.
THEOREM RequestFitsAlways == Spec => []RequestFits
  <1>1. Init => RequestFits
    BY MaxBlockSizeAssumption, SMT DEF Init, RequestFits
  <1>2. Inv /\ RequestFits /\ [Next]_vars => RequestFits'
    <2> SUFFICES ASSUME RequestFits, [Next]_vars PROVE RequestFits'
      OBVIOUS
    <2>1. CASE Send
      <3>1. PICK n \in DOMAIN deque :
              /\ IsMergeRun(deque, n)
              /\ merged' = IF n > 1 /\ SizeOfFirst(deque, n) > merged
                           THEN SizeOfFirst(deque, n) ELSE merged
        BY <2>1 DEF Send, WriteRequest
      <3> QED
        BY <3>1, RequestWithin DEF RequestFits
    <2> QED
      BY <2>1 DEF Next, Push, vars, RequestFits
  <1> QED
    BY <1>1, <1>2, InitInv, StepInv, PTL DEF Spec
=============================================================================
