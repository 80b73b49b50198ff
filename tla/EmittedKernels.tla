--------------------------- MODULE EmittedKernels ---------------------------
(***************************************************************************)
(* The kernel bodies emit.cpp writes in place of a recognised kernel: row  *)
(* sum, online softmax, RMS norm, gather, gemv, sgemm (with the unrolled   *)
(* search variant), 16x16x32 half GEMM, RoPE, decode attention and the     *)
(* linear-state scan.                                                      *)
(*                                                                         *)
(* One thread block runs.  Its warps interleave freely between barriers;   *)
(* the lanes of a warp run in lockstep, so that a shuffle is one step.     *)
(* Floating-point values are kept as the terms they are the sum of: a      *)
(* number is a bag of pairs <<e, tag>> standing for exp(e) * tag, which    *)
(* tells apart a lost, a repeated and a wrongly scaled term and is blind   *)
(* to rounding.  Not-a-number and memory nobody wrote have tags of their   *)
(* own.                                                                    *)
(***************************************************************************)
EXTENDS Integers, SequencesExt

CONSTANTS
    Lanes,      \* lanes of a warp: 32 in the code, a power of two here
    Bounds,     \* the launch bounds T a kernel may have
    Shapes,     \* records [M, N, K] of the integer arguments
    Elements,   \* sequences the floating-point inputs are read from
    Steps       \* unroll factors of emitSgemm: 1, and 4 for the search variant

VARIABLES
    job,        \* the kernel, its launch bound, block index, shape and input
    at,         \* the stage each warp has reached
    reg,        \* the registers of each thread that outlive a stage
    shared,     \* the block's shared memory
    out         \* what was stored in each cell of device memory, in order

evars == <<job, at, reg, shared, out>>

\* Minus infinity: below every sum of the inputs.
NegInf == -1000
Number(bag) == [tag |-> "number", bag |-> bag]
Nothing == Number(EmptyBag)
NaN == [tag |-> "nan", bag |-> EmptyBag]
Undef == [tag |-> "undef", bag |-> EmptyBag]
Term(e, name) == Number(SetToBag({<<e, name>>}))

Add(a, b) ==
    IF a.tag # "number" THEN a ELSE IF b.tag # "number" THEN b ELSE Number(a.bag (+) b.bag)

\* a * exp(from - to).
Rescale(a, from, to) ==
    CASE a.tag # "number" -> a
      [] from = NegInf /\ to = NegInf -> NaN
      [] from = NegInf -> Nothing
      [] OTHER -> LET Moved == {<<p[1] + from - to, p[2]>> : p \in DOMAIN a.bag}
                  IN  Number([p \in Moved |-> a.bag[<<p[1] - from + to, p[2]>>]])

Larger(a, b) == IF a >= b THEN a ELSE b

Data(i) == job.data[1 + (i % Len(job.data))]

-----------------------------------------------------------------------------
(* Threads, warps and the loops they run.                                  *)

Threads == 0 .. job.T - 1
Warps == 0 .. (job.T \div Lanes) - 1
WarpOf(t) == t \div Lanes
LanesOf(w) == {t \in Threads : WarpOf(t) = w}
row == job.cta
K == job.shape.K
N == job.shape.N

\* for (k = first; k < bound; k += step)
Strided(first, bound, step) == {k \in first .. bound - 1 : (k - first) % step = 0}

SumOver(S, Item(_)) == FoldSet(LAMBDA k, acc : Add(acc, Item(k)), Nothing, S)

Partner(t, off) == IF (t \div off) % 2 = 0 THEN t + off ELSE t - off

RECURSIVE Halvings(_)
Halvings(n) == IF n = 0 THEN <<>> ELSE <<n>> \o Halvings(n \div 2)

\* The rounds of a butterfly over the lanes: off = 16, 8, 4, 2, 1.
Rounds == Halvings(Lanes \div 2)

Butterfly(Merge(_, _), v) ==
    FoldLeft(LAMBDA u, off : [t \in DOMAIN v |-> Merge(u[t], u[Partner(t, off)])], v, Rounds)

\* One step of the online (max, sum) recurrence over two partial results.
MergeOnline(a, b) ==
    LET mn == Larger(a.m, b.m)
    IN  [m |-> mn, l |-> Add(Rescale(a.l, a.m, mn), Rescale(b.l, b.m, mn))]

Stored(cells) ==
    [c \in DOMAIN out \cup DOMAIN cells |->
        (IF c \in DOMAIN out THEN out[c] ELSE <<>>) \o
        (IF c \in DOMAIN cells THEN <<cells[c]>> ELSE <<>>)]

Goto(w, s) == at' = [at EXCEPT ![w] = s]

-----------------------------------------------------------------------------
(* The row reductions: emitRowSum, emitSoftmax, emitRmsNorm.               *)

RowKernels == {"rowsum", "softmax_row", "rmsnorm"}

InputOf(t) == {row * K + k : k \in Strided(t, K, job.T)}

\* The strided loop of one thread: the sum, the sum of squares (a term of its
\* own kind) or the online pair (m, l).
RECURSIVE Online(_, _)
Online(S, acc) ==
    IF S = {} THEN acc
    ELSE LET i == Min(S)
             v == Data(i)
             mn == Larger(acc.m, v)
         IN  Online(S \ {i}, [m |-> mn, l |-> Add(Rescale(acc.l, acc.m, mn), Term(v - mn, i))])

Accumulate(t) ==
    CASE job.kernel = "rowsum"      -> [m |-> 0, l |-> SumOver(InputOf(t), LAMBDA i : Term(0, i))]
      [] job.kernel = "rmsnorm"     -> [m |-> 0, l |-> SumOver(InputOf(t), LAMBDA i : Term(0, i))]
      [] job.kernel = "softmax_row" -> Online(InputOf(t), [m |-> NegInf, l |-> Nothing])

Loop(w) ==
    /\ job.kernel \in RowKernels
    /\ at[w] = "loop"
    /\ reg' = [t \in Threads |-> IF WarpOf(t) = w THEN Accumulate(t) ELSE reg[t]]
    /\ Goto(w, "exchange")
    /\ UNCHANGED <<job, shared, out>>

\* The shuffles, then lane 0 stores the warp's partial result.
ExchangeMerge(a, b) ==
    IF job.kernel = "softmax_row" THEN MergeOnline(a, b) ELSE [a EXCEPT !.l = Add(a.l, b.l)]

warpXorReduce(w) == Butterfly(ExchangeMerge, [t \in LanesOf(w) |-> reg[t]])

\* Mutant: the barrier after the store is missing.
ExchangeUnfenced(w) ==
    /\ job.kernel \in RowKernels
    /\ at[w] = "exchange"
    /\ LET v == warpXorReduce(w)
       IN  /\ reg' = [t \in Threads |-> IF WarpOf(t) = w THEN v[t] ELSE reg[t]]
           /\ shared' = [shared EXCEPT !.part[w] = v[w * Lanes]]
    /\ Goto(w, "head")
    /\ UNCHANGED <<job, out>>
Exchange(w) ==
    /\ job.kernel \in RowKernels
    /\ at[w] = "exchange"
    /\ LET v == warpXorReduce(w)
       IN  /\ reg' = [t \in Threads |-> IF WarpOf(t) = w THEN v[t] ELSE reg[t]]
           /\ shared' = [shared EXCEPT !.part[w] = v[w * Lanes]]
    /\ Goto(w, "bar")
    /\ UNCHANGED <<job, out>>

AfterBar(s) == IF s = "bar" THEN "head" ELSE "out"

\* The barrier opens when every warp of the block waits at it.
Barrier ==
    /\ \E s \in {"bar", "bar2"} :
         /\ \A w \in Warps : at[w] = s
         /\ at' = [w \in Warps |-> AfterBar(s)]
    /\ UNCHANGED <<job, reg, shared, out>>

RECURSIVE MergeParts(_, _)
MergeParts(w, acc) ==
    IF w \notin Warps THEN acc ELSE MergeParts(w + 1, ExchangeMerge(acc, shared.part[w]))

Total == MergeParts(0, [m |-> IF job.kernel = "softmax_row" THEN NegInf ELSE 0, l |-> Nothing])

\* Thread 0 of a row sum adds the partials and stores the row's result.
HeadRowSum(w) ==
    /\ job.kernel = "rowsum"
    /\ at[w] = "head"
    /\ out' = IF w = 0 THEN Stored([c \in {row} |-> <<"sum", Total.l>>]) ELSE out
    /\ Goto(w, "done")
    /\ UNCHANGED <<job, reg, shared>>

\* Warp 0 of a softmax merges the partials and writes the whole row, its
\* lanes a warp apart; the other warps are finished.
HeadSoftmax(w) ==
    /\ job.kernel = "softmax_row"
    /\ at[w] = "head"
    /\ LET tot == Total
           Cells == UNION {{row * K + d : d \in Strided(t, K, Lanes)} : t \in LanesOf(0)}
       IN  out' = IF w = 0
                  THEN Stored([c \in Cells |-> <<"share", Data(c) - tot.m, tot.l>>])
                  ELSE out
    /\ Goto(w, "done")
    /\ UNCHANGED <<job, reg, shared>>

\* Thread 0 of an RMS norm stores the scale; a second barrier publishes it.
HeadRmsNorm(w) ==
    /\ job.kernel = "rmsnorm"
    /\ at[w] = "head"
    /\ shared' = IF w = 0 THEN [shared EXCEPT !.inv = Total.l] ELSE shared
    /\ Goto(w, "bar2")
    /\ UNCHANGED <<job, reg, out>>

OutRmsNorm(w) ==
    /\ at[w] = "out"
    /\ LET Cells == UNION {{row * K + d : d \in Strided(t, K, job.T)} : t \in LanesOf(w)}
       IN  out' = Stored([c \in Cells |-> <<"scaled", c - row * K, shared.inv>>])
    /\ Goto(w, "done")
    /\ UNCHANGED <<job, reg, shared>>

-----------------------------------------------------------------------------
(* The kernels whose threads do not talk to each other.  Each operator     *)
(* gives the cells one thread stores, as a function.                       *)

Flat(t) == job.cta * job.T + t
NoCells == [c \in {} |-> Nothing]

emitGather(t) ==
    [c \in {row * K + d : d \in Strided(t, K, job.T)} |->
        <<"copy", Data(row) * K + (c - row * K), Nothing>>]

emitGemv(t) ==
    LET n == Flat(t)
    IN  IF n < N
        THEN [c \in {n} |-> <<"sum", SumOver(Strided(0, K, 1), LAMBDA k : Term(0, <<n * K + k, k>>))>>]
        ELSE NoCells

\* k + kStep <= K picks the unrolled body; the tail loop takes what is left.
RECURSIVE SgemmK(_)
SgemmK(k) ==
    LET s == job.kStep
    IN  IF (s = 1 /\ k < K) \/ (s > 1 /\ k + s <= K)
        THEN [j \in 1 .. s |-> k + j - 1] \o SgemmK(k + s)
        ELSE IF s > 1 THEN [j \in 1 .. K - k |-> k + j - 1] ELSE <<>>

emitSgemm(t) ==
    LET o == Flat(t)
        m == o \div N
        n == o % N
    IN  IF o < job.shape.M * N
        THEN [c \in {o} |-> <<"sum", FoldLeft(LAMBDA acc, k : Add(acc, Term(0, <<m * K + k, k * N + n>>)),
                                               Nothing, SgemmK(0))>>]
        ELSE NoCells

emitRope(t) ==
    LET half == K \div 2
        i0 == row * K + t
    IN  IF t < half
        THEN [c \in {i0, i0 + half} |->
                <<IF c = i0 THEN "minus" ELSE "plus", <<i0, i0 + half, t>>, Nothing>>]
        ELSE NoCells

Score(n) == MapThenSumSet(LAMBDA k : Data(n * K + k) * (k + 1), 0 .. K - 1)

\* Online over the cached keys: (m, l, acc) rescaled together.
RECURSIVE Attend(_, _, _)
Attend(n, d, st) ==
    IF n = N THEN st
    ELSE LET s == Score(n)
             mn == Larger(st.m, s)
         IN  Attend(n + 1, d,
                [m   |-> mn,
                 l   |-> Add(Rescale(st.l, st.m, mn), Term(s - mn, n)),
                 acc |-> Add(Rescale(st.acc, st.m, mn), Term(s - mn, n * K + d))])

emitAttn(t) ==
    LET d == Flat(t)
        r == Attend(0, d, [m |-> NegInf, l |-> Nothing, acc |-> Nothing])
    IN  IF d < K THEN [c \in {d} |-> <<"ratio", r.acc, r.l>>] ELSE NoCells

\* h = a[t] * h + B[t, d], kept as the sequence of its steps.
RECURSIVE Scan(_, _, _)
Scan(s, d, h) == IF s < K THEN Scan(s + 1, d, Append(h, <<s, s * N + d>>)) ELSE h

emitGdn(t) ==
    LET d == Flat(t) IN IF d < N THEN [c \in {d} |-> <<"state", Scan(0, d, <<>>)>>] ELSE NoCells

ThreadCells(t) ==
    CASE job.kernel = "gather" -> emitGather(t)
      [] job.kernel = "gemv"   -> emitGemv(t)
      [] job.kernel = "sgemm"  -> emitSgemm(t)
      [] job.kernel = "rope"   -> emitRope(t)
      [] job.kernel = "attn"   -> emitAttn(t)
      [] job.kernel = "gdn"    -> emitGdn(t)

ScalarKernels == {"gather", "gemv", "sgemm", "rope", "attn", "gdn"}

\* Every lane of one warp runs to the end.  Two lanes that stored the same
\* cell would leave two values there.
Scalar(w) ==
    /\ job.kernel \in ScalarKernels
    /\ at[w] = "loop"
    /\ out' = LET S == {<<t, c>> : t \in LanesOf(w), c \in UNION {DOMAIN ThreadCells(u) : u \in LanesOf(w)}}
                  Written(c) == {t \in LanesOf(w) : c \in DOMAIN ThreadCells(t)}
                  Cells == {p[2] : p \in S}
              IN  [c \in DOMAIN out \cup Cells |->
                     (IF c \in DOMAIN out THEN out[c] ELSE <<>>) \o
                     (IF c \in Cells
                      THEN FoldSet(LAMBDA t, q : Append(q, ThreadCells(t)[c]), <<>>, Written(c))
                      ELSE <<>>)]
    /\ Goto(w, "done")
    /\ UNCHANGED <<job, reg, shared>>

-----------------------------------------------------------------------------
(* The tensor-op tile: a 16x16x32 product over 32 lanes.                   *)

TileLanes == 32
tileM == 16
tileN == 16
tileK == 32
BitAt(v, k) == (v \div 2^k) % 2

\* br and bc, the row and the column of slot s of lane l inside a 16x16 base.
LawBr(l, s) == ((l \div 2) % 4) + 4 * (l \div 16) + 8 * BitAt(s, 2)
LawBc(l, s) == (s % 4) + 4 * (l % 2) + 8 * BitAt(l, 3)

lawRowIR(l, s, tr, R, C) ==
    (IF tr THEN LawBc(l, s) ELSE LawBr(l, s)) +
    (IF C = 32 /\ R = 32 THEN 16 * BitAt(s, 4) ELSE IF R = 32 THEN 16 * BitAt(s, 3) ELSE 0)

lawColIR(l, s, tr, R, C) ==
    (IF tr THEN LawBr(l, s) ELSE LawBc(l, s)) + (IF C = 32 THEN 16 * BitAt(s, 3) ELSE 0)

Slots(R, C) == 0 .. ((R * C) \div TileLanes) - 1

\* The element of device memory loadPacked puts in slot s of lane l.
Loaded(l, s, R, C) == lawRowIR(l, s, FALSE, R, C) * C + lawColIR(l, s, FALSE, R, C)

\* What the multiply sees at (r, c) of an R x C operand: the elements of every
\* slot the layout law places there.
TileOperand(R, C) ==
    [p \in (0 .. R - 1) \X (0 .. C - 1) |->
        {Loaded(l, s, R, C) : <<l, s>> \in
            {q \in (0 .. TileLanes - 1) \X Slots(R, C) :
                <<lawRowIR(q[1], q[2], FALSE, R, C), lawColIR(q[1], q[2], FALSE, R, C)>> = p}}]

\* Every lane fills its words of A and B.
LoadTiles ==
    /\ job.kernel = "hgemm16"
    /\ at[0] = "loop"
    /\ reg' = [A |-> TileOperand(tileM, tileK), B |-> TileOperand(tileK, tileN)]
    /\ Goto(0, "exchange")
    /\ UNCHANGED <<job, shared, out>>

\* The multiply, the bias of the column, and the store of every slot.
emitHgemm16 ==
    /\ job.kernel = "hgemm16"
    /\ at[0] = "exchange"
    /\ LET Slot == (0 .. TileLanes - 1) \X Slots(tileM, tileN)
           Cell(q) == Loaded(q[1], q[2], tileM, tileN)
           Row(q) == lawRowIR(q[1], q[2], FALSE, tileM, tileN)
           Col(q) == lawColIR(q[1], q[2], FALSE, tileM, tileN)
           Product(q) == [k \in 0 .. tileK - 1 |-> <<reg.A[<<Row(q), k>>], reg.B[<<k, Col(q)>>]>>]
       IN  out' = [c \in {Cell(q) : q \in Slot} |->
                     FoldSet(LAMBDA q, v : Append(v, <<"tile", Product(q), Col(q)>>),
                             <<>>, {q \in Slot : Cell(q) = c})]
    /\ Goto(0, "done")
    /\ UNCHANGED <<job, reg, shared>>

-----------------------------------------------------------------------------
\* The shape tests at the head of the emitters: what they refuse keeps its body.
Accepts(k, T) ==
    CASE k \in RowKernels -> T >= Lanes /\ T % Lanes = 0
      [] k = "hgemm16"    -> T = Lanes
      [] OTHER            -> T > 0

NoParts(T) == [w \in 0 .. (T \div Lanes) - 1 |-> [m |-> 0, l |-> Undef]]

Job(Ks, Us) ==
    {[kernel |-> k, T |-> T, cta |-> c, shape |-> s, data |-> d, kStep |-> u] :
        k \in Ks, T \in Bounds, c \in {0, 1}, s \in Shapes, d \in Elements, u \in Us}

TileJob ==
    [kernel |-> "hgemm16", T |-> Lanes, cta |-> 0, shape |-> [M |-> tileM, N |-> tileN, K |-> tileK],
     data |-> <<0>>, kStep |-> 1]

EInit ==
    /\ job \in Job(RowKernels \cup (ScalarKernels \ {"sgemm"}), {1}) \cup Job({"sgemm"}, Steps) \cup {TileJob}
    /\ Accepts(job.kernel, job.T)
    /\ at = [w \in Warps |-> "loop"]
    /\ reg = [t \in Threads |-> [m |-> 0, l |-> Undef]]
    /\ shared = [part |-> NoParts(job.T), inv |-> Undef]
    /\ out = NoCells

ENext ==
    \/ \E w \in Warps :
         \/ Loop(w) \/ Exchange(w)
         \/ HeadRowSum(w) \/ HeadSoftmax(w) \/ HeadRmsNorm(w) \/ OutRmsNorm(w)
         \/ Scalar(w)
    \/ Barrier
    \/ LoadTiles
    \/ emitHgemm16

ESpec == EInit /\ [][ENext]_evars

-----------------------------------------------------------------------------
(* What the source kernels of tests/kernels/stir_ops.cu compute.           *)

RowCells == {row * K + d : d \in 0 .. K - 1}
RowMax == Max({Data(c) : c \in RowCells})
RowSum == SumOver(RowCells, LAMBDA i : Term(0, i))

\* The source's softmax is not a number when two threads a half-warp apart
\* have both no element: exp(-inf - -inf).
Starved == \E t \in Threads : t % Lanes < Lanes \div 2 /\ t >= K

Exact(k) ==
    LET Owned(bound) == {o \in 0 .. bound - 1 : o \div job.T = job.cta}
        Best == Max({Score(n) : n \in 0 .. N - 1})
    IN  CASE k = "rowsum"      -> [c \in {row} |-> <<"sum", RowSum>>]
          [] k = "rmsnorm"     -> [c \in RowCells |-> <<"scaled", c - row * K, RowSum>>]
          [] k = "softmax_row" ->
               [c \in RowCells |->
                  <<"share", Data(c) - RowMax,
                    IF Starved THEN NaN ELSE SumOver(RowCells, LAMBDA i : Term(Data(i) - RowMax, i))>>]
          [] k = "gather"      -> [c \in RowCells |-> <<"copy", Data(row) * K + c - row * K, Nothing>>]
          [] k = "gemv"        ->
               [c \in Owned(N) |-> <<"sum", SumOver(0 .. K - 1, LAMBDA j : Term(0, <<c * K + j, j>>))>>]
          [] k = "sgemm"       ->
               [c \in Owned(job.shape.M * N) |->
                  <<"sum", SumOver(0 .. K - 1,
                                   LAMBDA j : Term(0, <<(c \div N) * K + j, j * N + (c % N)>>))>>]
          [] k = "rope"        ->
               [c \in {row * K + d : d \in {e \in 0 .. 2 * (K \div 2) - 1 : e % (K \div 2) < job.T}} |->
                  LET d == (c - row * K) % (K \div 2)
                  IN  <<IF c - row * K < K \div 2 THEN "minus" ELSE "plus",
                        <<row * K + d, row * K + d + K \div 2, d>>, Nothing>>]
          [] k = "attn"        ->
               [c \in Owned(K) |->
                  <<"ratio", SumOver(0 .. N - 1, LAMBDA n : Term(Score(n) - Best, n * K + c)),
                             SumOver(0 .. N - 1, LAMBDA n : Term(Score(n) - Best, n))>>]
          [] k = "gdn"         ->
               [c \in Owned(N) |-> <<"state", [s \in 1 .. K |-> <<s - 1, (s - 1) * N + c>>]>>]
          [] k = "hgemm16"     ->
               [c \in 0 .. tileM * tileN - 1 |->
                  <<"tile", [j \in 0 .. tileK - 1 |->
                               <<{(c \div tileN) * tileK + j}, {j * tileN + (c % tileN)}>>],
                    c % tileN>>]

\* When the block has run, every cell it owns was stored exactly once, with
\* what the source kernel computes for it, whatever order the warps ran in:
\* no term lost or counted twice across lanes, partials and loop tails, no
\* partial read before its warp stored it (emit.cpp 424-1052).
BlockComputesSource ==
    (\A w \in Warps : at[w] = "done") =>
        LET want == Exact(job.kernel)
        IN  /\ DOMAIN out = DOMAIN want
            /\ \A c \in DOMAIN out : out[c] = <<want[c]>>

=============================================================================
