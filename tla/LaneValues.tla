----------------------------- MODULE LaneValues -----------------------------
(* What tensor recovery knows of the values the lanes of a warp compute (tensor_recovery.cpp): DevEval writes a *)
(* value as a polynomial over values every lane shares, with the thread index concrete, and proves from it that *)
(* register fragments are a row-major tile; laneHalfDiffBit bounds how lanes l and l^16 differ.  A program is a *)
(* sequence of nodes [op, a, loop]: operands a are positions or, for "const", the number; loop says the node is *)
(* in the kernel's loop.  "phi" is a loop header's (first and carried value), "merge" a join of two paths       *)
(* (values and the condition), "load" reads device and "sload" shared memory.                                   *)
EXTENDS Naturals, Integers, Sequences, FiniteSets, FiniteSetsExt, SequencesExt, Bitwise, TLC

CONSTANTS Prelude,    \* the nodes every grown program starts from
          NodeShapes,     \* the <<op, operands>> that may be appended; an operand 0 is the newest node, 1 the one before
          MaxNodes,   \* bound on the nodes of a grown program
          Blocks,     \* programs with four word addresses: [prog, words, kind, type]
          Args,       \* values of the kernel argument and of the block index
          Tids,       \* the threads whose values are compared
          Iterations  \* iterations of the loop that are compared

ASSUME BoundIsNatural == MaxNodes \in Nat

VARIABLES prog,    \* the program
          lanes,   \* the nodes that can differ between the lanes of a warp (laneVarying)
          block    \* the block whose words are its addresses, or no block

lvars == <<prog, lanes, block>>
NoBlock == [prog |-> <<>>, words |-> <<>>, kind |-> 0, type |-> "half"]

-----------------------------------------------------------------------------
(* What a thread computes: node n of thread tid in iteration i, the argument being arg. *)

Bin(op, x, y) ==
    CASE op = "add" -> x + y
      [] op = "mul" -> x * y
      [] op = "shl" -> x * 2^y
      [] op = "lshr" -> x \div 2^y
      [] op = "and" -> x & y
      [] op = "or" -> x | y
      [] op = "ordis" -> x | y
      [] op = "xor" -> x ^^ y
      [] op = "udiv" -> x \div y
      [] op = "urem" -> x % y
      [] op = "lt" -> IF x < y THEN 1 ELSE 0

RECURSIVE Val(_, _, _, _)
Val(n, tid, i, arg) ==
    LET d == prog[n]
        V(k) == Val(d.a[k], tid, i, arg)
    IN  CASE d.op = "const" -> d.a[1]
          [] d.op = "arg" -> arg
          [] d.op = "ctaid" -> arg + 1
          [] d.op = "tid" -> tid
          [] d.op = "laneid" -> tid % 32
          [] d.op = "load" -> (3 * V(1) + (IF d.loop THEN i ELSE 0)) % 7
          [] d.op = "sload" -> (3 * V(1) + tid) % 7
          [] d.op = "select" -> IF V(1) # 0 THEN V(2) ELSE V(3)
          [] d.op = "cast" -> V(1)
          [] d.op = "merge" -> IF V(3) # 0 THEN V(1) ELSE V(2)
          [] d.op = "phi" -> IF i = 0 THEN Val(d.a[1], tid, 0, arg) ELSE Val(d.a[2], tid, i - 1, arg)
          [] OTHER -> Bin(d.op, V(1), V(2))
\* An or marked disjoint of values that share a bit is poison: such a program computes nothing.
Poisoned == \E n \in DOMAIN prog : prog[n].op = "ordis" /\
               \E t \in Tids, i \in Iterations, x \in Args : Val(prog[n].a[1], t, i, x) & Val(prog[n].a[2], t, i, x) # 0

-----------------------------------------------------------------------------
(* Which values differ between threads, and between the lanes of a warp. *)

IsLeaf(op) == op \in {"const", "arg", "ctaid", "tid", "laneid"}
Uses(p, n) == IF IsLeaf(p[n].op) THEN {} ELSE ToSet(p[n].a)
\* A join of two different values is decided by the path taken, a shared load by what threads stored.
LaneSources(p) == {n \in DOMAIN p : p[n].op \in {"tid", "laneid", "sload"} \/ (p[n].op = "merge" /\ p[n].a[1] # p[n].a[2])}
\* Mutant: tid >> 4 counts as the warp's index.
WarpIndexOfHalves(p, n) ==
    /\ p[n].op \in {"lshr", "udiv", "and"} /\ p[p[n].a[1]].op = "tid" /\ p[p[n].a[2]].op = "const"
    /\ LET c == p[p[n].a[2]].a[1]
       IN  CASE p[n].op = "lshr" -> c >= 4
             [] p[n].op = "udiv" -> c # 0 /\ c % 32 = 0
             [] p[n].op = "and" -> c & 31 = 0
\* tid >> 5, tid / 32k and tid & ~31 are the same in every lane of a warp.
WarpIndex(p, n) ==
    /\ p[n].op \in {"lshr", "udiv", "and"} /\ p[p[n].a[1]].op = "tid" /\ p[p[n].a[2]].op = "const"
    /\ LET c == p[p[n].a[2]].a[1]
       IN  CASE p[n].op = "lshr" -> c >= 5
             [] p[n].op = "udiv" -> c # 0 /\ c % 32 = 0
             [] p[n].op = "and" -> c & 31 = 0
RECURSIVE taint(_, _)
taint(p, S) ==
    LET more == {n \in (DOMAIN p) \ S : Uses(p, n) \cap S # {} /\ ~WarpIndex(p, n)}
    IN  IF more = {} THEN S ELSE taint(p, S \cup more)
LaneVarying(p) == taint(p, LaneSources(p))

-----------------------------------------------------------------------------
(* Polynomials: functions from monomials (sorted sequences of atoms) to coefficients, none zero.  An atom is a  *)
(* node, or 0, the number of the loop's iteration.  No polynomial: <<"no">>.                                    *)

No == [ok |-> FALSE, t |-> <<>>]
Poly(t) == [ok |-> TRUE, t |-> t]
Constant(c) == Poly(IF c = 0 THEN <<>> ELSE (<<>> :> c))
Atom(a) == Poly(<<a>> :> 1)
Coef(p, m) == IF m \in DOMAIN p.t THEN p.t[m] ELSE 0
Sum(p, q) ==
    LET ms == {m \in (DOMAIN p.t) \cup (DOMAIN q.t) : Coef(p, m) + Coef(q, m) # 0}
    IN  [ok |-> p.ok /\ q.ok, t |-> [m \in ms |-> Coef(p, m) + Coef(q, m)]]
scaled(p, c) == IF c = 0 THEN [p EXCEPT !.t = <<>>] ELSE [p EXCEPT !.t = [m \in DOMAIN p.t |-> c * p.t[m]]]
Minus(p, q) == Sum(p, scaled(q, -1))
Times(p, q) ==
    FoldSet(LAMBDA xy, acc : Sum(acc, Poly(SortSeq(xy[1] \o xy[2], <) :> p.t[xy[1]] * q.t[xy[2]])),
            [ok |-> p.ok /\ q.ok, t |-> <<>>], (DOMAIN p.t) \X (DOMAIN q.t))
isConst(p) == p.ok /\ DOMAIN p.t \subseteq {<<>>}
ConstOf(p) == Coef(p, <<>>)
samePoly(p, q) == p.ok /\ q.ok /\ DOMAIN p.t = DOMAIN q.t /\ \A m \in DOMAIN p.t : p.t[m] = q.t[m]
divExact(p, d) == IF p.ok /\ \A m \in DOMAIN p.t : p.t[m] % d = 0
                  THEN [p EXCEPT !.t = [m \in DOMAIN p.t |-> p.t[m] \div d]] ELSE No
Atoms(p) == UNION {ToSet(m) : m \in DOMAIN p.t}

\* The value of a node for a thread.  stepping: the header phis whose step is being computed, each an atom.
\* A node that cannot be taken apart is an atom, unless it can differ between the lanes of a warp.
RECURSIVE Eval(_, _, _)
Eval(n, tid, stepping) ==
    LET d == prog[n]
        opaque == IF n \in lanes THEN No ELSE Atom(n)
        P(k) == Eval(d.a[k], tid, stepping)
        a == P(1)
        b == P(2)
        Binary ==
            IF ~a.ok \/ ~b.ok THEN opaque
            ELSE IF isConst(a) /\ isConst(b)
                 THEN IF d.op \in {"udiv", "urem"} /\ ConstOf(b) = 0 THEN opaque
                      ELSE Constant(Bin(d.op, ConstOf(a), ConstOf(b)))
            ELSE CASE d.op \in {"add", "ordis"} -> Sum(a, b)
                   [] d.op = "mul" -> Times(a, b)
                   [] d.op = "shl" /\ isConst(b) -> scaled(a, 2^ConstOf(b))
                   [] OTHER -> opaque
        Else(p) == IF p.ok THEN p ELSE opaque
        step == Minus(Eval(d.a[2], tid, stepping \cup {n}), Atom(n))
        variant == \E x \in Atoms(step) : x = 0 \/ prog[x].loop
    IN  CASE d.op = "const" -> Constant(d.a[1])
          [] d.op = "tid" -> Constant(tid)
          [] d.op = "laneid" -> Constant(tid % 32)
          [] d.op \in {"arg", "ctaid", "load", "sload"} -> opaque
          [] d.op = "cast" -> Else(a)
          [] d.op = "select" -> IF isConst(a) THEN Else(IF ConstOf(a) # 0 THEN b ELSE P(3)) ELSE opaque
          [] d.op = "merge" -> IF d.a[1] = d.a[2] THEN Else(a) ELSE opaque
          [] d.op = "phi" ->
               IF n \in stepping THEN Atom(n)
               ELSE IF d.a[1] = d.a[2] THEN Else(a)
               ELSE IF a.ok /\ step.ok /\ ~variant THEN Sum(a, Times(step, Atom(0)))
               ELSE opaque
          [] OTHER -> Binary

-----------------------------------------------------------------------------
(* How lanes l and l^16 differ: -1 not at all, b >= 0 in bit b at most, -2 unknown. *)

Join(a, b) == CASE a = -2 \/ b = -2 -> -2 [] a = -1 -> b [] b = -1 -> a [] OTHER -> IF a = b THEN a ELSE -2
RECURSIVE laneHalfDiffBit(_, _)
laneHalfDiffBit(n, visiting) ==
    LET d == prog[n]
        H(k) == laneHalfDiffBit(d.a[k], visiting)
        a == H(1)
        b == H(2)
        c == prog[d.a[2]].op = "const"
        k == prog[d.a[2]].a[1]
        log == CHOOSE e \in 0..30 : 2^e = k
        pow2 == \E e \in 0..30 : 2^e = k
        same == IF a = -1 /\ b = -1 THEN -1 ELSE -2
        Bit(x) == (k \div 2^x) % 2
        Down(by) == IF a >= by THEN a - by ELSE -1
    IN  CASE d.op \in {"const", "arg", "ctaid"} -> -1
          [] d.op \in {"tid", "laneid"} -> 4
          [] d.op \in {"load", "sload"} -> -2
          [] d.op = "cast" -> a
          [] d.op = "phi" -> IF n \in visiting THEN -1
                             ELSE IF \A e \in 1..2 : laneHalfDiffBit(d.a[e], visiting \cup {n}) = -1 THEN -1 ELSE -2
          [] d.op = "merge" -> same
          [] d.op = "select" -> IF a # -1 THEN -2 ELSE Join(b, H(3))
          [] d.op = "and" -> IF Join(a, b) >= 0 /\ c /\ Bit(Join(a, b)) = 0 THEN -1 ELSE Join(a, b)
          [] d.op \in {"or", "ordis"} -> IF Join(a, b) >= 0 /\ c /\ Bit(Join(a, b)) = 1 THEN -1 ELSE Join(a, b)
          [] d.op = "xor" -> Join(a, b)
          [] d.op = "shl" -> IF c /\ a >= 0 THEN a + k ELSE same
          [] d.op = "mul" -> IF c /\ pow2 /\ a >= 0 THEN a + log ELSE same
          [] d.op = "lshr" -> IF c /\ a >= 0 THEN Down(k) ELSE same
          [] d.op = "udiv" -> IF c /\ pow2 /\ a >= 0 THEN Down(log) ELSE same
          [] d.op = "urem" -> IF c /\ pow2 /\ a >= 0 THEN (IF a < log THEN a ELSE -1) ELSE same
          [] OTHER -> same

-----------------------------------------------------------------------------
(* Four words as the mma.sync fragment of a row-major tile: word r of lane 4g + t is in row g + 8 (r odd bit)   *)
(* and column kw t + half, for A; the roles of the two bits of r are exchanged for B.                           *)

Element(type) == IF type = "int" THEN 1 ELSE 2
Row(kind, l, r) == (l \div 4) + 8 * (IF kind = 0 THEN r % 2 ELSE r \div 2)
Col(kind, type, l, r) == LET es == Element(type)
                         IN  (4 \div es) * (l % 4) + (16 \div es) * (IF kind = 0 THEN r \div 2 ELSE r % 2)

proveDeviceBlock(blk, w) ==
    LET es == Element(blk.type)
        Addr(l, r) == Eval(blk.words[r + 1], 32 * w + l, {})
        base == Addr(0, 0)
        pitch == divExact(Minus(Addr(4, 0), base), es)
        Want(l, r) == Sum(Sum(base, scaled(pitch, Row(blk.kind, l, r) * es)), Constant(Col(blk.kind, blk.type, l, r) * es))
    IN  pitch.ok /\ \A l \in 0..31, r \in 0..3 : samePoly(Addr(l, r), Want(l, r))

-----------------------------------------------------------------------------
LInit == \/ prog = Prelude /\ block = NoBlock /\ lanes = {}
         \/ block \in Blocks /\ prog = block.prog /\ lanes = LaneVarying(block.prog)

\* The program grows by a node.
Grow == \E sh \in NodeShapes :
    /\ block = NoBlock /\ Len(prog) < MaxNodes
    /\ LET newest == Len(prog)
           node == [op |-> sh[1], a |-> [k \in DOMAIN sh[2] |-> IF sh[2][k] = 0 THEN newest ELSE sh[2][k]], loop |-> TRUE]
       IN  prog' = Append(prog, node)
    /\ lanes' = LaneVarying(prog')
    /\ UNCHANGED block
LSpec == LInit /\ [][Grow]_lvars

Complete == \A n \in DOMAIN prog : Uses(prog, n) \subseteq DOMAIN prog
\* The value of a polynomial whose atoms are the values they have in a thread.
ValueOf(p, tid, i, arg) ==
    LET At(a) == IF a = 0 THEN i ELSE Val(a, tid, i, arg)
        Mono(m) == FoldLeft(LAMBDA acc, a : acc * At(a), 1, m)
    IN  FoldSet(LAMBDA m, acc : acc + p.t[m] * Mono(m), 0, DOMAIN p.t)

\* The polynomial of a value for a thread is what that thread computes, in every iteration, and its atoms are the
\* same in every lane of the warp.
PolynomialsExact ==
    block = NoBlock /\ Complete /\ ~Poisoned =>
        \A t \in Tids :
            LET p == Eval(Len(prog), t, {})
            IN  p.ok => \A i \in Iterations, x \in Args :
                          /\ ValueOf(p, t, i, x) = Val(Len(prog), t, i, x)
                          /\ \A a \in Atoms(p) \ {0}, u \in Tids : u \div 32 = t \div 32 => Val(a, u, i, x) = Val(a, t, i, x)

\* A node is made from a join of different values whose lanes arrive on different ways.
RECURSIVE Slice(_)
Slice(S) == LET more == S \cup UNION {Uses(prog, n) : n \in S} IN IF more = S THEN S ELSE Slice(more)
LanesPart(n) == \E j \in Slice({n}) : prog[j].op = "merge" /\ prog[j].a[1] # prog[j].a[2] /\ prog[j].a[3] \in lanes

\* Lanes l and l^16 differ as laneHalfDiffBit says, where all lanes take one way to each join.
HalvesSound ==
    block = NoBlock /\ Complete /\ ~Poisoned /\ ~LanesPart(Len(prog)) =>
        LET h == laneHalfDiffBit(Len(prog), {})
        IN  h # -2 => \A t \in Tids, i \in Iterations, x \in Args :
                        LET v == Val(Len(prog), t, i, x)
                            u == Val(Len(prog), t ^^ 16, i, x)
                        IN  v = u \/ (h >= 0 /\ v ^^ u = 2^h)

\* A block proven to be a tile is one: every lane's words are at the tile's place, whatever the arguments are.
BlocksAreTiles ==
    block # NoBlock =>
        \A w \in 0..1 : proveDeviceBlock(block, w) =>
            \A i \in Iterations, x \in Args :
                LET Addr(l, r) == Val(block.words[r + 1], 32 * w + l, i, x)
                    es == Element(block.type)
                    pitch == (Addr(4, 0) - Addr(0, 0)) \div es
                IN  \A l \in 0..31, r \in 0..3 :
                        Addr(l, r) = Addr(0, 0) + (Row(block.kind, l, r) * pitch + Col(block.kind, block.type, l, r)) * es

\* What tensor recovery concludes of a value is so in every thread, iteration and launch: its polynomial is its value
\* and mentions only values the warp shares (DevEval::eval), lanes l and l^16 differ as laneHalfDiffBit says, so one
\* lane's address may stand for the other's, and a block taken to be a tile in memory is that tile (proveDeviceBlocks).
LaneValuesSound == PolynomialsExact /\ HalvesSound /\ BlocksAreTiles
=============================================================================
