---------------------------- MODULE Recurrences ----------------------------
(***************************************************************************)
(* The recurrence algebra of sig.cpp.  A value carried around a loop has a *)
(* next expression over itself ("phi"), another value carried by the same  *)
(* loop ("sib") and what the iteration brings ("v").  The classifier reads *)
(* the expression and names its algebra; the algebra says what a schedule  *)
(* may do to the loop: partition it, run it in another order, run an       *)
(* iteration twice.  A loop grants what all its classified values grant.   *)
(*                                                                         *)
(* Expressions are trees [k, op, a]; a value is a number below Modulus and *)
(* floating point is exact, because reassociation is what Sum allows.      *)
(***************************************************************************)
EXTENDS Integers, Sequences, FiniteSets

CONSTANTS
  Modulus,  \* values are 0 .. Modulus - 1
  MaxPhis   \* values one loop carries

ASSUME ModulusAssumption == Modulus \in Nat /\ Modulus > 1

VARIABLES
  phis,         \* the recurrences of the loop visited so far, in order
  algebra,      \* the algebras tallied for the loop
  loopPermits,  \* the permissions the loop grants
  anyData       \* some recurrence was data, not loop control

rvars == <<phis, algebra, loopPermits, anyData>>

Values == 0 .. Modulus - 1

-----------------------------------------------------------------------------
(* Expressions.  "poly" is an integer in the arena's normal form, coef * phi *)
(* plus a constant or a term of the iteration; the others are operations     *)
(* and calls.                                                                *)

Leaf(op) == [k |-> "sym", op |-> op, a |-> <<>>]
Poly(coef, rest) == [k |-> "poly", op |-> "poly", a |-> <<>>, coef |-> coef, rest |-> rest]
Op(op, a) == [k |-> "op", op |-> op, a |-> a]
Call(op, a) == [k |-> "call", op |-> op, a |-> a]
Cmp(pred, l, r) == [k |-> "cmp", op |-> pred, a |-> <<l, r>>]
Ite(c, t, f) == [k |-> "ite", op |-> "ite", a |-> <<c, t, f>>]

phi == Leaf("phi")
opaque == Leaf("opaque")

RECURSIVE Reads(_, _)
Reads(e, sym) ==
  \/ e.k = "sym" /\ e.op = sym
  \/ e.k = "poly" /\ \/ sym = "phi" /\ e.coef # 0
                     \/ sym = e.rest
  \/ \E i \in DOMAIN e.a : Reads(e.a[i], sym)

IsPhi(e) == e = phi
Free(e) == ~Reads(e, "phi")

-----------------------------------------------------------------------------
(* What an expression computes. *)

PickMax(a, b) == IF a > b THEN a ELSE b
PickMin(a, b) == IF a > b THEN b ELSE a

RECURSIVE BitOp(_, _, _, _)
BitOp(op, a, b, w) ==
  IF w = 0 THEN 0
  ELSE LET x == a % 2  y == b % 2
           bit == CASE op = "and" -> x * y
                    [] op = "or" -> PickMax(x, y)
                    [] op = "xor" -> (x + y) % 2
       IN bit + 2 * BitOp(op, a \div 2, b \div 2, w - 1)

\* x, y and v are the values of phi, the sibling and the iteration.
RECURSIVE Eval(_, _, _, _)
Eval(e, x, y, v) ==
  LET R(i) == Eval(e.a[i], x, y, v)
      Sym(s) == CASE s = "phi" -> x [] s = "sib" -> y [] s = "v" -> v [] s = "one" -> 1 [] s = "zero" -> 0
  IN CASE e.k = "sym" -> Sym(e.op)
       [] e.k = "poly" -> (e.coef * x + Sym(e.rest)) % Modulus
       [] e.k = "ite" -> IF R(1) = 1 THEN R(2) ELSE R(3)
       [] e.k = "cmp" -> IF (IF e.op = "gt" THEN R(1) > R(2) ELSE R(1) < R(2)) THEN 1 ELSE 0
       [] e.op = "fadd" -> (R(1) + R(2)) % Modulus
       [] e.op = "fsub" -> (R(1) - R(2)) % Modulus
       [] e.op = "fmul" -> (R(1) * R(2)) % Modulus
       [] e.op \in {"fma", "mma"} -> (R(1) * R(2) + R(3)) % Modulus
       [] e.op = "exp" -> 2 ^ R(1) % Modulus
       [] e.op = "max" -> PickMax(R(1), R(2))
       [] e.op = "min" -> PickMin(R(1), R(2))
       [] e.op \in {"and", "or", "xor"} -> BitOp(e.op, R(1), R(2), 2)

-----------------------------------------------------------------------------
(* The classifier.  A tree combine is granted exactly when a partition is. *)

Nothing == [partition |-> FALSE, reorder |-> FALSE, duplicate |-> FALSE]
Everything == [partition |-> TRUE, reorder |-> TRUE, duplicate |-> TRUE]

permissionsOf(alg) ==
  CASE alg \in {"sum", "tensor-sum", "xor"} -> [Everything EXCEPT !.duplicate = FALSE]
    [] alg \in {"max", "min", "and", "or", "invariant", "induction"} -> Everything
    [] alg = "permutation" -> [Nothing EXCEPT !.duplicate = TRUE]
    [] OTHER -> Nothing

\* Down a chain of additions to the phi, every other operand free of it.
RECURSIVE additiveChain(_)
additiveChain(e) ==
  \/ e.k = "poly" /\ e.coef = 1 /\ e.rest # "phi"
  \/ /\ e.op = "fma" /\ Free(e.a[1]) /\ Free(e.a[2])
     /\ IsPhi(e.a[3]) \/ additiveChain(e.a[3])
  \/ /\ e.op = "fadd"
     /\ IF Free(e.a[2]) THEN IsPhi(e.a[1]) \/ additiveChain(e.a[1])
        ELSE Free(e.a[1]) /\ (IsPhi(e.a[2]) \/ additiveChain(e.a[2]))
  \/ /\ e.op = "fsub" /\ Free(e.a[2])
     /\ IsPhi(e.a[1]) \/ additiveChain(e.a[1])

\* ite(phi > t, phi, t) and its seven mirror images.
SelectsExtreme(e) ==
  /\ e.k = "ite" /\ e.a[1].k = "cmp"
  /\ \E other \in {e.a[2], e.a[3]} :
       /\ {e.a[2], e.a[3]} = {phi, other} /\ Free(other)
       /\ {e.a[1].a[1], e.a[1].a[2]} = {phi, other}
SelectsMax(e) ==
  LET keepsPhi == IsPhi(e.a[2])  leftIsPhi == IsPhi(e.a[1].a[1])
  IN IF e.a[1].op = "gt" THEN leftIsPhi <=> keepsPhi ELSE leftIsPhi # keepsPhi

OneSidedPhi(e) ==
  /\ Len(e.a) = 2
  /\ \E i \in 1..2 : IsPhi(e.a[i]) /\ Free(e.a[3 - i])

\* A tree of selections whose conditions never read the phi.
RECURSIVE OnlySelects(_)
OnlySelects(e) ==
  IF e.k = "ite" THEN Free(e.a[1]) /\ OnlySelects(e.a[2]) /\ OnlySelects(e.a[3])
  ELSE IsPhi(e) \/ Free(e)

\* l' = a*l + b with a and b free of l composes associatively; with a an
\* exponential of the sibling (the online softmax) it also commutes.
Scales(e) ==
  LET Other(m) == {m.a[3 - i] : i \in {i \in 1..2 : IsPhi(m.a[i]) /\ Free(m.a[3 - i])}}
  IN CASE e.op = "fma" -> IF Free(e.a[3]) THEN Other(e) ELSE {}
       [] e.op = "fadd" -> UNION {Other(e.a[i]) :
                            i \in {i \in 1..2 : e.a[i].op = "fmul" /\ Free(e.a[3 - i])}}
       [] OTHER -> {}
ExpOfSibling(e) == e.op = "exp" /\ Reads(e, "sib")
Linear(e) == [Nothing EXCEPT !.partition = Scales(e) # {},
                             !.reorder = \E a \in Scales(e) : ExpOfSibling(a)]

Class(kind, predicated) == [kind |-> kind, predicated |-> predicated, permits |-> permissionsOf(kind)]

RECURSIVE classifyOne(_)
classifyOne(e) ==
  LET predicatedBy(i) == /\ e.k = "ite" /\ Free(e.a[1])
                         /\ IsPhi(e.a[5 - i]) /\ ~IsPhi(e.a[i])
  IN CASE IsPhi(e) -> Class("invariant", FALSE)
       [] \E i \in {2, 3} : predicatedBy(i) ->
            [classifyOne(e.a[CHOOSE i \in {2, 3} : predicatedBy(i)]) EXCEPT !.predicated = TRUE]
       [] SelectsExtreme(e) -> Class(IF SelectsMax(e) THEN "max" ELSE "min", FALSE)
       [] e.op = "mma" /\ ~Free(e) -> Class("tensor-sum", FALSE)
       [] e.op \in {"max", "min", "and", "or", "xor"} /\ OneSidedPhi(e) -> Class(e.op, FALSE)
       [] additiveChain(e) ->
            Class(IF e.k = "poly" /\ e.rest \in {"one", "zero"} THEN "induction" ELSE "sum", FALSE)
       [] e.k = "ite" /\ OnlySelects(e) -> Class("permutation", FALSE)
       [] Reads(e, "sib") ->
            [Class("tuple", FALSE) EXCEPT !.permits = Linear(e)]
       [] e = opaque -> Class("unknown", FALSE)
       [] Free(e) -> Class("permutation", FALSE)
       [] OTHER -> Class("order-sensitive", FALSE)

\* The search of the instructions themselves for a path to the phi: through
\* either operand of an addition or subtraction, either arm of a select, any
\* operand of a matrix multiply, the addend of a fused multiply-add.
RECURSIVE irFeedsPhi(_)
irFeedsPhi(e) ==
  \/ IsPhi(e)
  \/ e.k = "ite" /\ \E i \in {2, 3} : irFeedsPhi(e.a[i])
  \/ e.op \in {"fadd", "fsub", "mma"} /\ \E i \in DOMAIN e.a : irFeedsPhi(e.a[i])
  \/ e.op = "fma" /\ irFeedsPhi(e.a[3])

RECURSIVE ThroughMma(_)
ThroughMma(e) == e.op = "mma" \/ \E i \in DOMAIN e.a : ThroughMma(e.a[i])

\* What the expression leaves unknown or order sensitive the instructions may
\* still show to be a sum.  lost: the executor has no expression for the value.
Upgraded(one, e) ==
  CASE one.kind \in {"unknown", "order-sensitive"} /\ irFeedsPhi(e) ->
         Class(IF ThroughMma(e) THEN "tensor-sum" ELSE "sum", one.predicated)
    [] one.kind = "unknown" /\ ~irFeedsPhi(e) -> Class("permutation", one.predicated)
    [] OTHER -> one
classifyRecurrence(e, lost) == Upgraded(classifyOne(IF lost THEN opaque ELSE e), e)

-----------------------------------------------------------------------------
(* The permissions of a loop, one recurrence at a time. *)

\* Mutant: what one recurrence of the loop allows is allowed.
EitherPermits(p, q) == [f \in DOMAIN p |-> p[f] \/ q[f]]
BothPermit(p, q) == [f \in DOMAIN p |-> p[f] /\ q[f]]
IsControl(kind) == kind \in {"invariant", "induction", "permutation"}

RInit == /\ phis = <<>> /\ algebra = {} /\ loopPermits = Nothing /\ anyData = FALSE

fillLoopStmts(e, lost) ==
  /\ Len(phis) < MaxPhis
  /\ \E c \in {classifyRecurrence(e, lost)} :
       /\ phis' = Append(phis, [next |-> e, lost |-> lost, class |-> c])
       /\ algebra' = algebra \cup {c.kind}
       /\ loopPermits' = IF IsControl(c.kind) THEN loopPermits
                     ELSE IF anyData THEN BothPermit(loopPermits, c.permits) ELSE c.permits
       /\ anyData' = (anyData \/ ~IsControl(c.kind))

-----------------------------------------------------------------------------
(* The recurrences a loop may carry.  A matrix multiply takes the phi in its *)
(* addend only: the other operands have another type.                        *)

Leaves == {Leaf(s) : s \in {"phi", "sib", "v", "one"}}
Polys == {Poly(c, r) : c \in {1, 2}, r \in {"v", "one", "sib"}}
Binary == {Op(o, <<x, y>>) : o \in {"fadd", "fsub", "fmul", "and", "or", "xor"}, x \in Leaves, y \in Leaves}
          \cup {Call(o, <<x, y>>) : o \in {"max", "min"}, x \in Leaves, y \in Leaves}
Ternary == {Call("fma", <<x, y, z>>) : x \in Leaves, y \in Leaves, z \in Leaves}
           \cup {Call("mma", <<x, y, z>>) : x \in Leaves \ {phi}, y \in Leaves \ {phi}, z \in Leaves}
Chains == {Op(o, <<x, y>>) : o \in {"fadd", "fsub"}, x \in Binary \cup Ternary, y \in Leaves}
          \cup {Op("fadd", <<Op("fmul", <<phi, Call("exp", <<Leaf("sib")>>)>>), Leaf("v")>>)}
Arms == Leaves \cup {Poly(1, "one"), Op("fadd", <<phi, Leaf("v")>>), Op("fsub", <<Leaf("v"), phi>>)}
Selects == {Ite(Cmp(p, l, r), x, y) : p \in {"gt", "lt"}, l \in Leaves, r \in Leaves, x \in Arms, y \in Arms}
Nexts == Leaves \cup Polys \cup Binary \cup Ternary \cup Chains \cup Selects
Companions == {Leaf("v"), Op("fadd", <<phi, Leaf("v")>>), Op("fmul", <<phi, Leaf("v")>>), Call("max", <<phi, Leaf("v")>>)}

RNext == \E e \in IF phis = <<>> THEN Nexts ELSE Companions, lost \in BOOLEAN : fillLoopStmts(e, lost)
RSpec == RInit /\ [][RNext]_rvars

-----------------------------------------------------------------------------
(* Properties. *)

\* An algebra's own way to combine two partial results, and where a part starts.
Combine(kind, a, b) ==
  CASE kind \in {"sum", "tensor-sum"} -> (a + b) % Modulus
    [] kind = "max" -> PickMax(a, b) [] kind = "min" -> PickMin(a, b)
    [] OTHER -> BitOp(kind, a, b, 2)
Combines(kind) == kind \in {"sum", "tensor-sum", "max", "min", "and", "or", "xor"}
Identity(kind) == IF kind \in {"min", "and"} THEN Modulus - 1 ELSE 0

\* What running the recurrence itself says of a set of permissions.
Runs(e) == [x \in Values |-> [v \in Values |-> Eval(e, x, 0, v)]]
JustifiedBy(F, granted, kind) ==
  \A x \in Values, v \in Values :
    /\ granted.duplicate => F[F[x][v]][v] = F[x][v]
    /\ \A w \in Values :
         /\ granted.reorder => F[F[x][v]][w] = F[F[x][w]][v]
         /\ granted.partition => Combines(kind) /\ F[F[x][v]][w] = Combine(kind, F[x][v], F[Identity(kind)][w])
Justified(granted, kind, e) == JustifiedBy(Runs(e), granted, kind)

\* Data the expression alone classifies, and that no other phi decides.
ReadOff(p) == /\ ~p.lost /\ ~IsControl(p.class.kind) /\ ~Reads(p.next, "sib")
              /\ classifyOne(p.next) = p.class

\* The permissions a loop grants hold of every data recurrence the classifier
\* (classifyOne, permissionsOf) read off its expression: run in another order,
\* twice, or in parts combined by the algebra it then has to have, it ends with
\* the same value.
GrantsSound ==
  \A i \in DOMAIN phis : ReadOff(phis[i]) => Justified(loopPermits, phis[i].class.kind, phis[i].next)
=============================================================================
