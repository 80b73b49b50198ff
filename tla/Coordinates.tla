---------------------------- MODULE Coordinates ----------------------------
(***************************************************************************)
(* Coordinate discovery (coords.cpp) and the tensor program built on it    *)
(* (stir.cpp), from what a few probed threads touched and under which      *)
(* conditions.                                                             *)
(*                                                                         *)
(* A point of the block is <<simdgroup, lane, iteration>>.  A value - an   *)
(* address without its tensor's pointer, the two sides of a comparison     *)
(* subtracted - is a polynomial: the non-zero coefficient of each of its   *)
(* monomials.  A monomial is the constant, a product of launch parameters, *)
(* an opaque node (a division or a loaded index: its shape, and the        *)
(* constant term of its only integer operand at this point) or, once the   *)
(* nodes are classified, a derived quantity that stands for them.          *)
(* Left out: addresses that are a choice of several (pieces), nodes inside *)
(* nodes, and sites where a sample could not be followed at all.           *)
(***************************************************************************)
EXTENDS Integers, Sequences, FiniteSets, FiniteSetsExt, SequencesExt

CONSTANTS
  Warp,          \* threads of a simdgroup (32 in the code)
  Threads,       \* threads of the block
  Iters,         \* probed iterations of the traversal loop
  Kernels,       \* what may be analysed: sequences of access sites
  ManyLoops      \* whether a kernel may have more than 8 loops (lane mode)

ASSUME BlockAssumption == Warp \in Nat \ {0} /\ Threads \in Nat \ {0} /\ Iters \in Nat \ {0}

VARIABLES
  kernel, lanes, \* the sites analysed, and the probing mode
  phase,         \* sample, derive, fold, fit, basis, build, done
  samples,       \* per site, the set of [x, val] recorded
  literals,      \* per predicate and monomial support, the set of [x, val] recorded
  classes,       \* derived quantities: sequence of [shape, at: point -> operand]
  fits,          \* the site maps: accesses, then guards, then operands of derived quantities
  basis,         \* [d, H, V, cols] of the stride matrix
  access         \* per fitted access, its index maps in its tensor

cvars == <<kernel, lanes, phase, samples, literals, classes, fits, basis, access>>

Axes == 1..3
Points == {<<t \div Warp, t % Warp, i>> : t \in 0..(Threads - 1), i \in 0..(Iters - 1)}
NoBasis == [d |-> 0, H |-> <<>>, V |-> <<>>, cols |-> <<>>]
Unfitted == [ok |-> FALSE]

\* Monomials, and the polynomials over them.
Param(name) == <<"param", name, 0>>
One == Param("one")
OpaqueNode(shape, arg) == <<"node", shape, arg>>
Quantity(c) == <<"class", "", c>>
IsNode(t) == t[1] = "node"
IsClass(t) == t[1] = "class"

Abs(n) == IF n < 0 THEN -n ELSE n
ZeroP == <<>>
Coef(p, t) == IF t \in DOMAIN p THEN p[t] ELSE 0
NonZero(p) == Restrict(p, {t \in DOMAIN p : p[t] # 0})
PlusP(p, q) == NonZero([t \in DOMAIN p \cup DOMAIN q |-> Coef(p, t) + Coef(q, t)])
TimesP(k, p) == NonZero([t \in DOMAIN p |-> k * p[t]])
MinusP(p, q) == PlusP(p, TimesP(-1, q))
Const(n) == NonZero([t \in {One} |-> n])
SumP(Q(_), S) == FoldSet(LAMBDA a, acc : PlusP(acc, Q(a)), ZeroP, S)
Listed(S) == FoldSet(LAMBDA e, acc : Append(acc, e), <<>>, S)
Part(p, Keep(_)) == Restrict(p, {t \in DOMAIN p : Keep(t)})

-----------------------------------------------------------------------------
(* Probing.  The first simdgroup's threads and the powers of two above it;   *)
(* with many loops one thread of every simdgroup and the powers of two below *)
(* its size.                                                                 *)

PowersOfTwo == {2^i : i \in 0..10}
runSigProbes ==
  IF lanes THEN {t \in 0..(Threads - 1) : t % Warp = 0 \/ (t \in PowersOfTwo /\ t < Warp)}
  ELSE {t \in 0..(Threads - 1) : t < Warp \/ t \in PowersOfTwo}
ProbedPoints == {x \in Points : x[1] * Warp + x[2] \in runSigProbes}

CInit ==
  /\ kernel \in Kernels /\ lanes \in ManyLoops
  /\ phase = "sample" /\ samples = <<>> /\ literals = <<>> /\ classes = <<>> /\ fits = <<>>
  /\ basis = NoBasis /\ access = <<>>

\* The literals of the sites' conditions, keyed by predicate and by the monomials
\* of their value, whichever site they guard.
PredKey(pred, val) == <<pred, DOMAIN val \ {One}>>
Met == UNION {{[key |-> PredKey(g.pred, g.lhs[x]), x |-> x, val |-> g.lhs[x]] :
                 g \in kernel[s].guards, x \in ProbedPoints} : s \in DOMAIN kernel}
gather ==
  /\ phase = "sample" /\ phase' = "derive"
  /\ samples' = [s \in DOMAIN kernel |->
       {[x |-> x, val |-> kernel[s].addr[x]] : x \in ProbedPoints}]
  /\ literals' = [k \in {l.key : l \in Met} |->
       {[x |-> l.x, val |-> l.val] : l \in {l \in Met : l.key = k}}]
  /\ UNCHANGED <<kernel, lanes, classes, fits, basis, access>>

-----------------------------------------------------------------------------
(* Derived quantities.  A node seen at several points is one member; members *)
(* of one shape seen at disjoint points are one quantity, members that occur *)
(* together are different ones.                                              *)

Recorded == UNION (Range(samples) \cup Range(literals))
Nodes == {t \in UNION {DOMAIN e.val : e \in Recorded} : IsNode(t)}
SeenAt(n) == {e.x : e \in {e \in Recorded : n \in DOMAIN e.val}}

joinClass(cs, n) ==
  LET seen == SeenAt(n)
      mine == [x \in seen |-> n[3]]
      disjoint == {c \in DOMAIN cs : cs[c].shape = n[2] /\ DOMAIN cs[c].at \cap seen = {}}
  IN IF disjoint = {} THEN Append(cs, [shape |-> n[2], at |-> mine])
     ELSE [cs EXCEPT ![Min(disjoint)].at = [x \in DOMAIN @ \cup seen |-> IF x \in seen THEN n[3] ELSE @[x]]]

\* Members are visited in the order they were met; any order of them.
classify ==
  /\ phase = "derive" /\ phase' = "fold"
  /\ \E order \in SetToSeqs(Nodes) : classes' = FoldLeft(joinClass, <<>>, order)
  /\ UNCHANGED <<kernel, lanes, samples, literals, fits, basis, access>>

\* A quantity whose operand is the same wherever it was seen is a launch
\* parameter: its node stays in the values as one more monomial.  The others
\* are axes of their own, and stand in the values for their members.
IsUniform(c) == Cardinality(Range(classes[c].at)) = 1
DerivedAxes == {c \in DOMAIN classes : ~IsUniform(c)}
ClassOf(n) == CHOOSE c \in DOMAIN classes : classes[c].shape = n[2] /\ n[3] \in Range(classes[c].at)
substituted(p) ==
  LET To(t) == IF IsNode(t) /\ ~IsUniform(ClassOf(t)) THEN Quantity(ClassOf(t)) ELSE t
  IN SumP(LAMBDA t : [u \in {To(t)} |-> p[t]], DOMAIN p)
foldUniform ==
  /\ phase = "fold" /\ phase' = "fit"
  /\ samples' = [s \in DOMAIN samples |-> {[e EXCEPT !.val = substituted(@)] : e \in samples[s]}]
  /\ literals' = [k \in DOMAIN literals |-> {[e EXCEPT !.val = substituted(@)] : e \in literals[k]}]
  /\ UNCHANGED <<kernel, lanes, classes, fits, basis, access>>

-----------------------------------------------------------------------------
(* The affine fit of one set of samples.  The stride along an axis is the    *)
(* first exact difference quotient of two samples that differ along it       *)
(* alone; every sample is then checked against the map.                      *)

OnlyAlong(a, x, y) == x[a] # y[a] /\ \A b \in Axes \ {a} : x[b] = y[b]
Differences(S, a) == {[by |-> p[2].x[a] - p[1].x[a], val |-> MinusP(p[2].val, p[1].val)] :
                        p \in {p \in S \X S : OnlyAlong(a, p[1].x, p[2].x) /\ p[2].x[a] > p[1].x[a]}}
Quotients(S, a) ==
  {[t \in DOMAIN d.val |-> d.val[t] \div d.by] : d \in {d \in Differences(S, a) : \A t \in DOMAIN d.val : d.val[t] % d.by = 0}}
Lowest(S) == CHOOSE e \in S : \A f \in S :
               \/ e.x[1] < f.x[1]
               \/ e.x[1] = f.x[1] /\ e.x[2] < f.x[2]
               \/ e.x[1] = f.x[1] /\ e.x[2] = f.x[2] /\ e.x[3] <= f.x[3]
EachAxis(F(_)) == <<F(1), F(2), F(3)>>
Along(stride, x) == SumP(LAMBDA a : TimesP(x[a], stride[a]), Axes)

AnyOr(S, default) == IF S = {} THEN default ELSE CHOOSE q \in S : TRUE
fit(S) ==
  LET o == Lowest(S)
      quotients == EachAxis(LAMBDA a : Quotients(S, a))
      stride == EachAxis(LAMBDA a : AnyOr(quotients[a], ZeroP))
      base == MinusP(o.val, Along(stride, o.x))
  IN IF /\ \A a \in Axes : quotients[a] = {} => \A e \in S : e.x[a] = o.x[a]
        /\ \A e \in S : PlusP(base, Along(stride, e.x)) = e.val
     THEN [ok |-> TRUE, base |-> base, stride |-> stride, derived |-> ZeroP]
     ELSE Unfitted

\* The rest of the value, with the coefficients of derived quantities taken out.
PhysicalPart(S) == {[e EXCEPT !.val = Part(@, LAMBDA t : ~IsClass(t))] : e \in S}
DerivedParts(S) == {Part(e.val, IsClass) : e \in S}
\* The coefficient of each derived axis must be the same at every sample.
fitExtended(S) ==
  LET f == fit(PhysicalPart(S))
  IN IF f.ok /\ Cardinality(DerivedParts(S)) = 1
     THEN [f EXCEPT !.derived = CHOOSE p \in DerivedParts(S) : TRUE]
     ELSE Unfitted

\* Samples that fit no one map are split by what is left of the whole value when
\* the commonest step along every axis is taken out.
UnitSteps(S, a) == {[from |-> p[1], to |-> p[2], val |-> MinusP(p[2].val, p[1].val)] :
                      p \in {p \in S \X S : OnlyAlong(a, p[1].x, p[2].x) /\ p[2].x[a] - p[1].x[a] = 1}}
Commonest(steps) ==
  LET Votes(q) == Cardinality({d \in steps : d.val = q})
  IN CHOOSE d \in steps : \A e \in steps : Votes(e.val) <= Votes(d.val)
splitFamilies(S) ==
  LET steps == EachAxis(LAMBDA a : UnitSteps(S, a))
      st == EachAxis(LAMBDA a : IF steps[a] = {} THEN ZeroP ELSE Commonest(steps[a]).val)
      rests == {[e |-> e, left |-> MinusP(e.val, Along(st, e.x))] : e \in S}
  IN IF fit(S).ok THEN {S} ELSE {{r.e : r \in {r \in rests : r.left = l}} : l \in {r.left : r \in rests}}

\* The operand of a derived quantity is a uniform part, a parameter of its own
\* here, plus the constant term seen at each point.
OperandSamples(c) == {[x |-> x, val |-> Const(classes[c].at[x])] : x \in DOMAIN classes[c].at}
uniformPart(shape) == [t \in {Param(shape)} |-> 1]
operandMap(m, c) == IF m.ok THEN [m EXCEPT !.base = PlusP(@, uniformPart(classes[c].shape))] ELSE m

\* Every access, every predicate's literals, every operand of a derived quantity
\* in turn; each may become several families.
Families(S) == Listed(splitFamilies(S))
fitted(kind, site, pred, c, S) ==
  LET fams == Families(S)
  IN [i \in DOMAIN fams |-> [kind |-> kind, site |-> site, pred |-> pred, class |-> c, points |-> fams[i],
                             map |-> fitExtended(fams[i])]]
accessMaps == FlattenSeq([s \in DOMAIN kernel |-> fitted("access", s, "", 0, samples[s])])
guardMaps == LET keys == Listed(DOMAIN literals)
             IN FlattenSeq([k \in DOMAIN keys |-> fitted("guard", 0, keys[k][1], 0, literals[keys[k]])])
operandMaps ==
  LET Maps(c) == LET fs == fitted("operand", 0, "", c, OperandSamples(c))
                 IN [i \in DOMAIN fs |-> [fs[i] EXCEPT !.map = operandMap(@, c)]]
  IN FlattenSeq([c \in DOMAIN classes |-> IF IsUniform(c) THEN <<>> ELSE Maps(c)])
fitSites ==
  /\ phase = "fit" /\ phase' = "basis"
  /\ fits' = accessMaps \o guardMaps \o operandMaps
  /\ UNCHANGED <<kernel, lanes, samples, literals, classes, basis, access>>

-----------------------------------------------------------------------------
(* The Hermite normal form of the stride matrix, rows the physical axes. The *)
(* transform U is carried as further columns of the rows.                    *)

Trunc(a, b) == IF (a < 0) = (b < 0) \/ a = 0 THEN Abs(a) \div Abs(b) ELSE -(Abs(a) \div Abs(b))
RowOp(A, dst, src, q) == [A EXCEPT ![dst] = [j \in DOMAIN A[dst] |-> A[dst][j] - q * A[src][j]]]
SwapRows(A, i, j) == [A EXCEPT ![i] = A[j], ![j] = A[i]]

\* The least non-zero entry of a column, subtracted from the rows below it, until those are zero.
Below(B, p, col) == [i \in DOMAIN B |-> IF i <= p THEN B[i] ELSE RowOp(B, i, p, Trunc(B[i][col], B[p][col]))[i]]
Least(A, live, col) == Min({i \in live : \A k \in live : Abs(A[i][col]) <= Abs(A[k][col])})
RECURSIVE Eliminate(_, _, _)
UntilZero(C, p, col) == IF \A i \in (p + 1)..Len(C) : C[i][col] = 0 THEN C ELSE Eliminate(C, p, col)
EliminateIn(A, live, p, col) ==
  IF live = {} THEN A ELSE UntilZero(Below(SwapRows(A, p, Least(A, live, col)), p, col), p, col)
Eliminate(A, p, col) == EliminateIn(A, {i \in p..Len(A) : A[i][col] # 0}, p, col)

\* The pivot made positive, the entries above it reduced.
Positive(B, p, col) == IF B[p][col] < 0 THEN [B EXCEPT ![p] = [j \in DOMAIN B[p] |-> -B[p][j]]] ELSE B
Above(C, p, col) == [i \in DOMAIN C |-> IF i >= p THEN C[i] ELSE RowOp(C, i, p, C[i][col] \div C[p][col])[i]]
RECURSIVE Echelon(_, _, _, _)
EchelonAt(B, p, col, ncols) == IF B[p][col] = 0 THEN Echelon(B, p, col + 1, ncols)
                               ELSE Echelon(Above(Positive(B, p, col), p, col), p + 1, col + 1, ncols)
Echelon(A, p, col, ncols) ==
  IF col > ncols \/ p > Len(A) THEN [rank |-> p - 1, A |-> A]
  ELSE EchelonAt(Eliminate(A, p, col), p, col, ncols)

Split(r, n, ncols) == [d |-> r.rank, H |-> [i \in 1..n |-> SubSeq(r.A[i], 1, ncols)],
                       U |-> [i \in 1..n |-> SubSeq(r.A[i], ncols + 1, ncols + n)]]
hnf(M, ncols) ==
  LET n == Len(M)
  IN Split(Echelon([i \in 1..n |-> M[i] \o [j \in 1..n |-> IF i = j THEN 1 ELSE 0]], 1, 1, ncols), n, ncols)
inverse(U) == hnf(U, Len(U)).U

\* Columns in the order stores, then guards and operands, then loads; one for
\* each monomial of a stride, along a derived axis too.  The rows are the
\* physical axes alone.
Fitted == {i \in DOMAIN fits : fits[i].map.ok}
PassOf(f) == CASE f.kind # "access" -> 1 [] f.kind = "access" /\ kernel[f.site].store -> 0 [] OTHER -> 2
Moves(m) == UNION {DOMAIN m.stride[a] : a \in Axes} \cup (IF m.derived = ZeroP THEN {} ELSE {One})
Columns ==
  LET ColsOf(i) == LET ms == Listed(Moves(fits[i].map)) IN [k \in DOMAIN ms |-> [fit |-> i, mono |-> ms[k]]]
      Pass(turn) == FlattenSeq([i \in DOMAIN fits |-> IF i \in Fitted /\ PassOf(fits[i]) = turn THEN ColsOf(i) ELSE <<>>])
  IN Pass(0) \o Pass(1) \o Pass(2)

StrideMatrix(cols) == [a \in Axes |-> [c \in DOMAIN cols |-> Coef(fits[cols[c].fit].map.stride[a], cols[c].mono)]]
BasisOf(h, cols) == [d |-> h.d, H |-> h.H, V |-> inverse(h.U), cols |-> cols]
coordStrideIn(b, i, j) ==
  SumP(LAMBDA c : NonZero([m \in {b.cols[c].mono} |-> b.H[j][c]]), {c \in DOMAIN b.cols : b.cols[c].fit = i})
\* A map that the coordinates do not give back counts as not fitted.
Reproduces(b, i) ==
  \A a \in Axes : SumP(LAMBDA j : TimesP(b.V[a][j], coordStrideIn(b, i, j)), 1..b.d) = fits[i].map.stride[a]
changeBasis ==
  /\ phase = "basis" /\ phase' = "build"
  /\ \E cols \in {Columns} : basis' = IF cols = <<>> THEN NoBasis ELSE BasisOf(hnf(StrideMatrix(cols), Len(cols)), cols)
  /\ fits' = [i \in DOMAIN fits |-> IF i \in Fitted /\ ~Reproduces(basis', i) THEN [fits[i] EXCEPT !.map = Unfitted] ELSE fits[i]]
  /\ UNCHANGED <<kernel, lanes, samples, literals, classes, access>>

Coord(j, x) == MapThenSumSet(LAMBDA a : basis.V[a][j] * x[a], Axes)
coordStride(i, j) == coordStrideIn(basis, i, j)

-----------------------------------------------------------------------------
(* The tensor program.  A tensor has one dimension for each monomial of its  *)
(* strides, whose unit is the gcd of every coefficient along it, and the     *)
(* contiguous one last; all the sites here are offsets from one tensor.      *)

RECURSIVE Gcd(_, _)
Gcd(a, b) == IF b = 0 THEN Abs(a) ELSE Gcd(b, Abs(a) % b)
GcdOf(S) == FoldSet(LAMBDA v, g : Gcd(g, Abs(v)), 0, S)

\* N divides N and N*blockIdx; the constant divides everything.
Divides(d, m) == d = One \/ d = m \/ (d = Param("N") /\ m = Param("NB"))
Degree(m) == CASE m = One -> 0 [] m = Param("NB") -> 2 [] OTHER -> 1
Accesses == {i \in Fitted : fits[i].kind = "access"}
Dims == {One} \cup UNION {DOMAIN coordStride(i, j) : i \in Accesses, j \in 1..basis.d}
dimOf(dims, m) == CHOOSE k \in dims : /\ Divides(k, m)
                                      /\ \A l \in dims : Divides(l, m) => Degree(l) <= Degree(k)
Unit(dims, k) ==
  LET g == GcdOf({Coef(coordStride(i, j), k) : i \in Accesses, j \in 1..basis.d}
                 \cup UNION {{fits[i].map.base[m] : m \in {m \in DOMAIN fits[i].map.base : dimOf(dims, m) = k}} : i \in Accesses}
                 \cup (IF k = One THEN {kernel[fits[i].site].bytes : i \in Accesses} ELSE {}))
      elem == kernel[1].elem
  IN IF k = One /\ elem # 0 /\ g % elem = 0 THEN elem ELSE IF g = 0 THEN 1 ELSE g

build ==
  /\ phase = "build" /\ phase' = "done"
  /\ \E dims \in {Dims} : \E unit \in {[k \in dims |-> Unit(dims, k)]} :
       access' = [i \in Accesses |->
         LET base == fits[i].map.base
             U(m) == unit[dimOf(dims, m)]
         IN [unit |-> unit,
             coef |-> [k \in dims |-> [j \in 1..basis.d |-> Trunc(Coef(coordStride(i, j), k), unit[k])]],
             offset |-> [m \in DOMAIN base |-> IF base[m] % U(m) = 0 THEN Trunc(base[m], U(m)) ELSE 0],
             leftover |-> NonZero([m \in DOMAIN base |-> IF base[m] % U(m) = 0 THEN 0 ELSE base[m]])]]
  /\ UNCHANGED <<kernel, lanes, samples, literals, classes, fits, basis>>

CNext == gather \/ classify \/ foldUniform \/ fitSites \/ changeBasis \/ build
CSpec == CInit /\ [][CNext]_cvars

-----------------------------------------------------------------------------
(* Properties. *)

\* What a map stands for at a point: an access of the built program through its
\* tensor's dimensions, a guard or an operand through the coordinates; and the
\* derived quantities it is affine in.
ThroughTensor(i, x) ==
  LET q == access[i]
      dims == DOMAIN q.unit
      index == [k \in dims |-> MapThenSumSet(LAMBDA j : q.coef[k][j] * Coord(j, x), 1..basis.d)]
  IN PlusP(NonZero([k \in dims |-> q.unit[k] * index[k]]),
           PlusP(q.leftover, NonZero([m \in DOMAIN q.offset |-> q.unit[dimOf(dims, m)] * q.offset[m]])))
ThroughCoords(i, x) == PlusP(fits[i].map.base, SumP(LAMBDA j : TimesP(Coord(j, x), coordStride(i, j)), 1..basis.d))
Recovered(i, x) == PlusP(fits[i].map.derived, IF fits[i].kind = "access" THEN ThroughTensor(i, x) ELSE ThroughCoords(i, x))

\* Nodes and derived quantities by their shape, the operand apart.
Shaped(p) == SumP(LAMBDA t : [u \in {IF IsNode(t) THEN <<"shape", t[2], 0>>
                                     ELSE IF IsClass(t) THEN <<"shape", classes[t[3]].shape, 0>> ELSE t} |-> p[t]], DOMAIN p)
ShapesIn(p) == {t[2] : t \in {t \in DOMAIN p : IsNode(t)}}

\* Affine over the whole block: f is given by its values at the origin and one
\* step along each axis.
Unity(a) == EachAxis(LAMBDA b : IF b = a THEN 1 ELSE 0)
IsAffine(f) ==
  \E origin \in {f[<<0, 0, 0>>]} :
  \E stride \in {EachAxis(LAMBDA a : IF Unity(a) \in Points THEN MinusP(f[Unity(a)], origin) ELSE ZeroP)} :
     \A x \in Points : f[x] = PlusP(origin, Along(stride, x))

\* A shape the kernel uses in one way: with one operand everywhere (a launch
\* parameter), or with one operand at each point that is affine in the block.
ValuesAt(x) == UNION {{kernel[s].addr[x]} \cup {g.lhs[x] : g \in kernel[s].guards} : s \in DOMAIN kernel}
OperandsAt(shape, x) == {t[3] : t \in {t \in UNION {DOMAIN p : p \in ValuesAt(x)} : IsNode(t) /\ t[2] = shape}}
OneOperand(shape) == Cardinality(UNION {OperandsAt(shape, x) : x \in Points}) = 1
AffineOperand(shape) == /\ \A x \in Points : Cardinality(OperandsAt(shape, x)) = 1
                        /\ IsAffine([x \in Points |-> Const(CHOOSE n \in OperandsAt(shape, x) : TRUE)])
Tracked(f) ==
  /\ IsAffine([x \in Points |-> Shaped(f[x])])
  /\ \A shape \in UNION {ShapesIn(f[x]) : x \in Points} :
        \/ OneOperand(shape)
        \/ /\ AffineOperand(shape)
           /\ Cardinality({Coef(Shaped(f[x]), <<"shape", shape, 0>>) : x \in Points}) = 1
Everywhere(i, f) == \A x \in Points : Shaped(Recovered(i, x)) = Shaped(f[x])

\* A site whose address is affine in the block, and in quantities the kernel uses
\* in one way, is recovered: its access in the built program is right at every
\* thread and iteration of the block, probed or not, and so are the guard of an
\* affine comparison that is alone of its predicate and keeps its monomials, and
\* the operand map of an affine operand.
RecoversAffine ==
  /\ \A s \in DOMAIN kernel : Tracked(kernel[s].addr) =>
        \E i \in Accesses : fits[i].site = s /\ Everywhere(i, kernel[s].addr)
  /\ \A s \in DOMAIN kernel : \A g \in kernel[s].guards :
        (/\ Tracked(g.lhs)
         /\ \A x \in Points : PredKey("", Shaped(g.lhs[x])) = PredKey("", Shaped(g.lhs[<<0, 0, 0>>]))
         /\ \A x \in Points : \A shape \in ShapesIn(g.lhs[x]) : OneOperand(shape)
         /\ \A z \in DOMAIN kernel : \A h \in kernel[z].guards : h.pred = g.pred => h = g)
          => \E i \in Fitted : fits[i].kind = "guard" /\ fits[i].pred = g.pred /\ Everywhere(i, g.lhs)
  /\ \A c \in DerivedAxes : AffineOperand(classes[c].shape) =>
        \E i \in Fitted : /\ fits[i].kind = "operand" /\ fits[i].class = c
                          /\ \A x \in Points : \A n \in OperandsAt(classes[c].shape, x) :
                               Recovered(i, x) = PlusP(uniformPart(classes[c].shape), Const(n))

\* The logical coordinates tell two points of the block apart exactly when some
\* fitted map does: the basis change of the Hermite normal form neither merges
\* points nor invents coordinates.
CoordsSeparate ==
  \A x, y \in Points :
     (\A j \in 1..basis.d : Coord(j, x) = Coord(j, y))
       <=> \A i \in Fitted : Along(fits[i].map.stride, x) = Along(fits[i].map.stride, y)

\* Whatever is fitted, affine or not, by itself or as a family, gives back what
\* the kernel had at every sampled point: an access its address, through the
\* tensor's dimensions with nothing left over, a guard a comparison made there,
\* with the derived quantities having the operands of that point, and an operand
\* map the operand.
Unfolded(p, x) == SumP(LAMBDA t : [u \in {IF IsClass(t) THEN OpaqueNode(classes[t[3]].shape, classes[t[3]].at[x]) ELSE t} |-> p[t]],
                       DOMAIN p)
ComparedAt(pred, x) == UNION {{g.lhs[x] : g \in {g \in kernel[s].guards : g.pred = pred}} : s \in DOMAIN kernel}
RoundTrip ==
  \A i \in Fitted : \A x \in {e.x : e \in fits[i].points} :
     \/ /\ fits[i].kind = "access" /\ access[i].leftover = ZeroP
        /\ Unfolded(Recovered(i, x), x) = kernel[fits[i].site].addr[x]
     \/ fits[i].kind = "guard" /\ Unfolded(Recovered(i, x), x) \in ComparedAt(fits[i].pred, x)
     \/ /\ fits[i].kind = "operand"
        /\ Recovered(i, x) = PlusP(uniformPart(classes[fits[i].class].shape), Const(classes[fits[i].class].at[x]))

=============================================================================
