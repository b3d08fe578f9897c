----------------------------- MODULE HostLinear -----------------------------
(***************************************************************************)
(* The matrix products of the host: which cells of y a thread computes,    *)
(* in which blocks, and in which strips a dot product walks over the       *)
(* inputs.  The x86-64 and AArch64 kernels (tensor.c of the backends), the *)
(* plain ones, and the products with quantized rows (weight.c).            *)
(*                                                                         *)
(* A product p has integer weights p.w[o][i], inputs p.x[t][i] and the     *)
(* sizes p.nTok, p.nOut, p.nIn: floats without their rounding.  A block is *)
(* [cells, strips]: a set of <<token, output>> that is computed together,  *)
(* and the widths of the loops of its dot products.                        *)
(***************************************************************************)
EXTENDS Integers, Sequences, SequencesExt, FiniteSetsExt

\* The sum of a[i] * b[i] for i in from .. to - 1, in four parts.
PartSum(a, b, from, to) ==
  LET sum[i \in from .. to] == IF i = from THEN 0 ELSE sum[i - 1] + a[i - 1] * b[i - 1]
  IN sum[to]
HalfSum(a, b, from, to) ==
  LET mid == (from + to) \div 2 IN PartSum(a, b, from, mid) + PartSum(a, b, mid, to)
DotRange(a, b, from, to) ==
  LET mid == (from + to) \div 2 IN HalfSum(a, b, from, mid) + HalfSum(a, b, mid, to)

\* The loops `for (; j + w <= n; j += w)`, one for each width in turn.
StripDot(widths, a, b, n) ==
  FoldLeft(LAMBDA s, w : LET to == s.j + w * ((n - s.j) \div w)
                         IN [j |-> to, sum |-> s.sum + DotRange(a, b, s.j, to)],
           [j |-> 0, sum |-> 0], widths).sum

\* A kernel's strips: of one row, of a block of rows, of a block of tokens; and
\* those of weight.c for one token and for four.  `block` is how many rows or
\* tokens a block has, `fused` whether Q8_0 rows are used as they are for many
\* tokens.
X86Dot    == <<16, 8, 1>>
X86Rows   == <<16, 8, 1>>
X86Tokens == <<8, 1>>
X86WeightDot   == <<16, 8, 1>>
X86WeightDots4 == <<8, 1>>
X86Q8     == <<32>>
X86 == [dot |-> X86Dot, rows |-> X86Rows, tokens |-> X86Tokens, block |-> 4,
        wdot |-> X86WeightDot, wdots |-> X86WeightDots4, q8 |-> X86Q8,
        fused |-> TRUE]

ArmDot    == <<16, 4, 1>>
ArmRows   == <<8, 1>>
ArmTokens == <<16, 8, 1>>
ArmWeightDot   == <<16, 4, 1>>
ArmWeightDots4 == <<16, 8, 1>>
ArmQ8     == <<32>>
ArmQ8Dots4 == <<32>>
Arm == [dot |-> ArmDot, rows |-> ArmRows, tokens |-> ArmTokens, block |-> 4,
        wdot |-> ArmWeightDot, wdots |-> ArmWeightDots4, q8 |-> ArmQ8,
        fused |-> TRUE]

PlainDot == <<1>>
PlainQ8  == <<32>>
Plain == [dot |-> PlainDot, rows |-> PlainDot, tokens |-> PlainDot, block |-> 1,
          wdot |-> PlainDot, wdots |-> PlainDot, q8 |-> PlainQ8, fused |-> FALSE]

\* Mutant: a remainder of rows is left to nobody.
RowSliceFloor(tid, nThreads, nOut) ==
  LET n == Max({1, Min({nThreads, nOut})})
  IN IF tid >= n THEN <<0, 0>> ELSE <<(nOut \div n) * tid, (nOut \div n) * (tid + 1)>>

\* Mutant: the end of a share is rounded up, its start down.
RowSliceWide(tid, nThreads, nOut) ==
  LET n == Max({1, Min({nThreads, nOut})})
  IN IF tid >= n THEN <<0, 0>> ELSE <<(nOut * tid) \div n, (nOut * (tid + 1) + n - 1) \div n>>

\* row_slice: the outputs i0 .. i1 - 1 of a thread.
RowSlice(tid, nThreads, nOut) ==
  LET n == Max({1, Min({nThreads, nOut})})
  IN IF tid >= n THEN <<0, 0>> ELSE <<(nOut * tid) \div n, (nOut * (tid + 1)) \div n>>

\* How a loop over i0 .. i1 - 1 in blocks of n is cut: the blocks and the rest.
Blocks(i0, i1, n) == LET k == (i1 - i0) \div n
                     IN [b \in 1 .. k |-> i0 + n * (b - 1) .. i0 + n * b - 1]
Rest(i0, i1, n)   == LET j == i0 + n * ((i1 - i0) \div n)
                     IN [b \in 1 .. i1 - j |-> j + b - 1]

\* linear_range: token t, four rows at a time.
LinearRange(k, t, i0, i1) ==
  LET quads == Blocks(i0, i1, k.block)
      ones  == Rest(i0, i1, k.block)
  IN [b \in DOMAIN quads |-> [cells |-> {t} \X quads[b], strips |-> k.rows]]
     \o [b \in DOMAIN ones |-> [cells |-> {<<t, ones[b]>>}, strips |-> k.dot]]

\* linear_rows_range: four tokens at a time, a row at a time; the rest of the
\* tokens one by one.
LinearRowsRange(k, nTok, i0, i1) ==
  LET quads == Blocks(0, nTok, k.block)
      ones  == Rest(0, nTok, k.block)
      row(q) == [i \in 1 .. i1 - i0 |->
                   [cells |-> q \X {i0 + i - 1}, strips |-> k.tokens]]
  IN FlattenSeq([b \in DOMAIN quads |-> row(quads[b])])
     \o FlattenSeq([b \in DOMAIN ones |-> LinearRange(k, ones[b], i0, i1)])

\* linear_job
LinearJob(k, p, tid, nThreads) ==
  LET s == RowSlice(tid, nThreads, p.nOut)
  IN IF p.nTok > 1 THEN LinearRowsRange(k, p.nTok, s[1], s[2])
     ELSE LinearRange(k, 0, s[1], s[2])

\* The plain kernel does every row of a token in turn.
PlainJob(p) ==
  LET one(n) == <<n \div p.nOut, n % p.nOut>>
  IN [n \in 1 .. p.nTok * p.nOut |-> [cells |-> {one(n - 1)}, strips |-> PlainDot]]

\* qlinear_job: rows are walked one by one; a Q8_0 row is used as it is, for
\* one token or for four; a row of another type is dequantized first.
QLinearJob(k, p, tid, nThreads) ==
  LET s == RowSlice(tid, nThreads, p.nOut)
      q8 == p.type = "q8" /\ p.nIn % 32 = 0
      raw == q8 /\ (p.nTok = 1 \/ k.fused)
      one == IF raw THEN k.q8 ELSE k.wdot
      many == IF raw THEN k.q8 ELSE k.wdots
      quads == Blocks(0, p.nTok, 4)
      ones  == Rest(0, p.nTok, 4)
      row(i) == [b \in DOMAIN quads |-> [cells |-> quads[b] \X {i}, strips |-> many]]
                \o [b \in DOMAIN ones |-> [cells |-> {<<ones[b], i>>}, strips |-> one]]
  IN FlattenSeq([i \in 1 .. s[2] - s[1] |-> row(s[1] + i - 1)])

\* What a block adds to its cells.
Sums(p, b) ==
  [c \in b.cells |-> StripDot(b.strips, p.w[c[2]], p.x[c[1]], p.nIn)]
=============================================================================
