---------------------------- MODULE Conditions ----------------------------
(***************************************************************************)
(* The path conditions of the symbolic executor (symexec.cpp, Arena): kept *)
(* in disjunctive normal form, simplified as they are built, and compared  *)
(* by syntactic tests that callers take as proofs.                         *)
(*                                                                         *)
(* A condition is a set of clauses, a clause a set of literals; {} is      *)
(* false and {{}} true.  A literal compares k * atom + c with 0 (signed)   *)
(* or with q (unsigned); the atoms are an integer x, min(x, Clamp),        *)
(* max(x, Clamp), x / Clamp, and an opaque Boolean p.  A guard is a literal *)
(* that stands for a disjunction, guards[i].                               *)
(***************************************************************************)
EXTENDS Integers, Sequences, FiniteSets, FiniteSetsExt, SequencesExt

CONSTANTS Sources,             \* comparisons the program makes: [pred, at, a, b, q]
          Xs, Clamp,           \* the integers x ranges over; the clamps' constant
          kGuardExpandLimit, ShallowGuard, MaxBuild,
          kUnderDepth, MaxLits,  \* the simplification's depth, the decisions' number
          Selectors, SelectSteps \* the tests and the steps of conditions that selections are built on

VARIABLES semantic,            \* bound-aware simplification, set once
          guards,              \* definitions of the guards
          acc, other,          \* two conditions under construction
          accIs, otherIs,      \* the environments in which they hold
          built

cnvars == <<semantic, guards, acc, other, accIs, otherIs, built>>

True == {{}}
False == {}
Bool(b) == IF b THEN True ELSE False
isOr(c) == Cardinality(c) > 1
Clause(c) == CHOOSE cl \in c : TRUE

-----------------------------------------------------------------------------
(* What literals and conditions say in an environment.                       *)

Envs == [x : Xs, p : BOOLEAN]
Quot(a, b) == IF a >= 0 THEN a \div b ELSE -((-a) \div b)
AtomVal(at, e) == CASE at = "x" -> e.x
                    [] at = "min" -> IF e.x < Clamp THEN e.x ELSE Clamp
                    [] at = "max" -> IF e.x > Clamp THEN e.x ELSE Clamp
                    [] at = "div" -> Quot(e.x, Clamp)
\* A negative number read as unsigned is beyond every other.
UnsignedLess(a, b) == IF (a < 0) = (b < 0) THEN a < b ELSE b < 0
Compares(op, v, q) == CASE op = "gt" -> v > q [] op = "lt" -> v < q [] op = "ge" -> v >= q [] op = "le" -> v <= q
                        [] op = "eq" -> v = q [] op = "ne" -> v # q
                        [] op = "ult" -> UnsignedLess(v, q) [] op = "uge" -> ~UnsignedLess(v, q)
                        [] op = "ugt" -> UnsignedLess(q, v) [] op = "ule" -> ~UnsignedLess(q, v)

RECURSIVE Holds(_, _)
LitHolds(l, e) == CASE l.at = "p" -> e.p = (l.op = "is")
                    [] l.at = "guard" -> Holds(guards[l.k], e) = (l.op = "is")
                    [] OTHER -> Compares(l.op, l.k * AtomVal(l.at, e) + l.c, l.q)
Holds(c, e) == \E cl \in c : \A l \in cl : LitHolds(l, e)

-----------------------------------------------------------------------------
(* Literals.                                                                 *)

Lit(at, k, c, op, q) == [at |-> at, k |-> k, c |-> c, op |-> op, q |-> q]
isCmp(l) == l.at \notin {"p", "guard"}
isUnsigned(op) == op \in {"ult", "ule", "ugt", "uge"}
isGuard(l) == l.at = "guard" /\ l.op = "is"

FloorDiv(a, b) == a \div b
\* Mutant: the quotient of an upper bound is rounded down.
CeilDivDown(a, b) == a \div b
CeilDiv(a, b) == -((-a) \div b)
Magnitude(a) == IF a < 0 THEN -a ELSE a

\* a + k atom compared with q: signed orders become P > 0 or P < 0 with a
\* leading coefficient of one, other comparisons keep the constant on the left.
BoundLit(at, low, t, g) == IF low THEN Lit(at, 1, -FloorDiv(t, g), "gt", 0) ELSE Lit(at, 1, -CeilDiv(t, g), "lt", 0)
Ordered(op, at, k, t) == BoundLit(at, (op \in {"ge", "gt"}) = (k > 0), IF k > 0 THEN t ELSE -t, Magnitude(k))
StrictBound(op, t) == CASE op = "le" -> t + 1 [] op = "ge" -> t - 1 [] OTHER -> t
cmpLit(op, at, k, c, q) ==
  CASE op \in {"le", "lt", "ge", "gt"} -> Ordered(op, at, k, StrictBound(op, q - c))
    [] op \in {"eq", "ne"} -> Lit(at, k, c - q, op, 0)
    [] OTHER -> Lit(at, k, c, op, q)
cmp(op, at, k, c, q) == IF k = 0 THEN Bool(Compares(op, c, q)) ELSE {{cmpLit(op, at, k, c, q)}}

InverseOp(op) == CASE op = "gt" -> "le" [] op = "lt" -> "ge" [] op = "eq" -> "ne" [] op = "ne" -> "eq"
                  [] op = "ult" -> "uge" [] op = "uge" -> "ult" [] op = "ule" -> "ugt" [] op = "ugt" -> "ule"
                  [] op = "is" -> "not" [] op = "not" -> "is"
Neg(l) == IF isCmp(l) THEN cmpLit(InverseOp(l.op), l.at, l.k, l.c, l.q)
          ELSE [l EXCEPT !.op = InverseOp(@)]

Inf == 1000
\* The bounds a fact f puts on k * atom of a literal about the same polynomial.
FactRange(f) ==
  LET op == IF f.q = 0 /\ f.op = "ule" THEN "eq" ELSE f.op
  IN CASE f.q # 0 /\ op \in {"ult", "ule"} /\ f.q > 0 -> <<-f.c, f.q - f.c - (IF op = "ult" THEN 1 ELSE 0)>>
       [] f.q = 0 /\ op = "gt" -> <<1 - f.c, Inf>>
       [] f.q = 0 /\ op = "lt" -> <<-Inf, -f.c - 1>>
       [] f.q = 0 /\ op = "eq" -> <<-f.c, -f.c>>
       [] OTHER -> <<Inf, -Inf>>
Bounding(f, l) == isCmp(f) /\ f.at = l.at /\ f.k = l.k /\ FactRange(f) # <<Inf, -Inf>>

Say(t, f) == IF t THEN "true" ELSE IF f THEN "false" ELSE "open"
\* An unsigned value between lo and hi, and q.
BelowQ(lo, hi, q) == IF q >= 0 THEN lo >= 0 /\ hi < q ELSE lo >= 0 \/ hi < q
NotBelowQ(lo, hi, q) == IF q >= 0 THEN lo >= q \/ hi < 0 ELSE lo >= q /\ hi < 0
AtMostQ(lo, hi, q) == IF q >= 0 THEN lo >= 0 /\ hi <= q ELSE lo >= 0 \/ hi <= q
BeyondQ(lo, hi, q) == IF q >= 0 THEN lo > q \/ hi < 0 ELSE lo > q /\ hi < 0
DecideIn(op, q, lo, hi) ==
  CASE op = "gt" -> Say(lo > 0, hi <= 0)
    [] op = "lt" -> Say(hi < 0, lo >= 0)
    [] op = "eq" -> Say(lo = 0 /\ hi = 0, lo > 0 \/ hi < 0)
    [] op = "ne" -> Say(lo > 0 \/ hi < 0, lo = 0 /\ hi = 0)
    [] op = "ult" -> Say(BelowQ(lo, hi, q), NotBelowQ(lo, hi, q))
    [] op = "uge" -> Say(NotBelowQ(lo, hi, q), BelowQ(lo, hi, q))
    [] op = "ule" -> Say(AtMostQ(lo, hi, q), BeyondQ(lo, hi, q))
    [] op = "ugt" -> Say(BeyondQ(lo, hi, q), AtMostQ(lo, hi, q))
DecideBy(l, F) ==
  CASE ~isCmp(l) -> "open"
    [] isCmp(l) /\ l.q = 0 /\ l.op = "uge" -> "true"
    [] isCmp(l) /\ l.q = 0 /\ l.op = "ult" -> "false"
    [] isCmp(l) /\ ~(l.q = 0 /\ l.op \in {"uge", "ult"}) /\ F = {} -> "open"
    [] OTHER -> DecideIn(l.op, l.q, Max({r[1] : r \in F}) + l.c, Min({r[2] : r \in F}) + l.c)
\* What the facts say of l: "true", "false" or "open".
decideLit(l, facts) == DecideBy(l, {FactRange(f) : f \in {f \in facts : Bounding(f, l)}})

litImplies(x, y) ==
  \/ x = y
  \/ /\ isCmp(x) /\ isCmp(y) /\ x.q = y.q /\ x.at = y.at /\ x.k = y.k
     /\ \/ x.op = "gt" /\ y.op = "gt" /\ x.c <= y.c
        \/ x.op = "lt" /\ y.op = "lt" /\ x.c >= y.c
  \/ /\ semantic /\ isCmp(x) /\ isCmp(y) /\ x.q = y.q /\ y.op \in {"eq", "ne"}
     /\ decideLit(y, {x}) = "true"

-----------------------------------------------------------------------------
(* A conjunction no integer satisfies: the bounds its literals put on one    *)
(* polynomial leave a range that its inequalities exclude point by point.    *)

Impossible == Lit("x", 0, 0, "eq", 1)
\* min(x, K) or max(x, K) compared for equality with a constant decides x.
ClampEq(l) ==
  LET v == -l.c
      mn == l.at = "min"
      past == IF mn THEN v > Clamp ELSE v < Clamp
  IN CASE l.op = "ne" /\ v = Clamp -> {Lit("x", 1, -Clamp, IF mn THEN "lt" ELSE "gt", 0)}
       [] l.op = "ne" /\ v # Clamp /\ ~past -> {Lit("x", 1, -v, "ne", 0)}
       [] l.op = "eq" /\ past -> {Impossible}
       [] l.op = "eq" /\ v = Clamp -> {Lit("x", 1, -Clamp, IF mn THEN "ge" ELSE "le", 0)}
       [] l.op = "eq" /\ v # Clamp /\ ~past -> {Lit("x", 1, -v, "eq", 0)}
       [] OTHER -> {}
\* With clamps on, a bound on a clamp or a quotient bounds what is clamped.
ClampBound(l) ==
  LET t == -l.c
      both == (l.at = "min") = (l.op = "gt")
      kHolds == Compares(l.op, Clamp, t)
      m == IF l.op = "gt" THEN t + 1 ELSE t - 1
  IN CASE l.at = "div" /\ l.op = "gt" -> {Lit("x", 1, -(IF m >= 1 THEN m * Clamp ELSE (m - 1) * Clamp + 1), "ge", 0)}
       [] l.at = "div" /\ l.op = "lt" -> {Lit("x", 1, -(IF m >= 0 THEN (m + 1) * Clamp - 1 ELSE m * Clamp), "le", 0)}
       [] l.at # "div" /\ both /\ ~kHolds -> {Impossible}
       [] l.at # "div" /\ (both = kHolds) /\ (both \/ ~kHolds) -> {Lit("x", 1, l.c, l.op, 0)}
       [] OTHER -> {}
Derived(l, clamps) ==
  {l} \cup (IF l.k = 1 /\ l.at \in {"min", "max"} /\ l.op \in {"eq", "ne"} THEN ClampEq(l) ELSE {})
      \cup (IF clamps /\ l.k = 1 /\ l.at # "x" /\ l.op \in {"gt", "lt"} THEN ClampBound(l) ELSE {})

\* The range a signed literal leaves its atom, the common factor divided out.
LowOf(l) == LET g == Magnitude(l.k)
                t == IF l.k < 0 THEN l.c ELSE -l.c
                op == IF l.k > 0 THEN l.op ELSE CASE l.op = "gt" -> "lt" [] l.op = "ge" -> "le" [] OTHER -> l.op
            IN CASE op = "gt" -> FloorDiv(t, g) + 1 [] op = "ge" -> CeilDiv(t, g)
                 [] op = "eq" -> (IF t % g # 0 THEN Inf ELSE t \div g) [] OTHER -> -Inf
HighOf(l) == LET g == Magnitude(l.k)
                 t == IF l.k < 0 THEN l.c ELSE -l.c
                 op == IF l.k > 0 THEN l.op ELSE CASE l.op = "lt" -> "gt" [] l.op = "le" -> "ge" [] OTHER -> l.op
             IN CASE op = "lt" -> CeilDiv(t, g) - 1 [] op = "le" -> FloorDiv(t, g)
                  [] op = "eq" -> (IF t % g # 0 THEN -Inf ELSE t \div g) [] OTHER -> Inf
Excluded(l) == IF l.op = "ne" /\ l.c % Magnitude(l.k) = 0 THEN {(IF l.k < 0 THEN l.c ELSE -l.c) \div Magnitude(l.k)} ELSE {}

MapAtom(at, v) == AtomVal(at, [x |-> v, p |-> TRUE])
On(L, at) == {l \in L : l.at = at /\ l.k # 0}
Lo(L, at) == Max({-Inf} \cup {LowOf(l) : l \in On(L, at)})
Hi(L, at) == Min({Inf} \cup {HighOf(l) : l \in On(L, at)})
\* Bounds on x bound its clamps and its quotient, which are monotone.
TightLow(lo, at, xlo) == IF at # "x" /\ xlo > -Inf THEN Max({lo, MapAtom(at, xlo)}) ELSE lo
TightHigh(hi, at, xhi) == IF at # "x" /\ xhi < Inf THEN Min({hi, MapAtom(at, xhi)}) ELSE hi
Emptied(low, high, ne) == low > high \/ (high - low + 1 <= Cardinality(ne) /\ low..high \subseteq ne)
NoRoom(L, clamps) ==
  \/ Impossible \in L
  \/ \E at \in {l.at : l \in {l \in L : l.k # 0}} :
       Emptied(TightLow(Lo(L, at), at, IF clamps THEN Lo(L, "x") ELSE -Inf),
               TightHigh(Hi(L, at), at, IF clamps THEN Hi(L, "x") ELSE Inf),
               UNION {Excluded(l) : l \in On(L, at)})
contradictory(lits, clamps) ==
  NoRoom(UNION {Derived(l, clamps) : l \in {l \in lits : isCmp(l) /\ ~isUnsigned(l.op)}}, clamps)

-----------------------------------------------------------------------------
(* Implication and disjointness.  d counts the guards expanded on the way:   *)
(* past the limit the question stays open.                                   *)

\* The first guard of a clause replaced by its definition.
HasGuard(cl) == \E l \in cl : isGuard(l)
expandGuard(cl) == LET g == CHOOSE l \in cl : isGuard(l) /\ \A m \in cl : isGuard(m) => l.k <= m.k
                   IN {def \cup (cl \ {g}) : def \in guards[g.k]}

RECURSIVE implies(_, _, _), disjoint(_, _, _)
LitFollows(ca, l, d) ==
  \/ \E m \in ca : litImplies(m, l)
  \/ l.at = "guard" /\ l.op = "is" /\ implies({ca}, guards[l.k], d)
  \/ l.at = "guard" /\ l.op = "not" /\ disjoint({ca}, guards[l.k], d)
  \/ contradictory(ca \cup {Neg(l)}, FALSE)
implies(a, b, d) ==
  \/ b = True \/ a = b \/ a = False
  \/ isOr(a) /\ \A cl \in a : implies({cl}, b, d)
  \/ ~isOr(a) /\ isOr(b) /\ \E cl \in b : implies(a, {cl}, d)
  \/ /\ ~isOr(a) /\ ~isOr(b) /\ a # False /\ b # False
     /\ \/ \A l \in Clause(b) : LitFollows(Clause(a), l, d)
        \/ /\ HasGuard(Clause(a)) /\ d < kGuardExpandLimit
           /\ implies(expandGuard(Clause(a)), b, d + 1)
disjoint(a, b, d) ==
  \/ a = False \/ b = False
  \/ isOr(a) /\ \A cl \in a : disjoint({cl}, b, d)
  \/ ~isOr(a) /\ isOr(b) /\ \A cl \in b : disjoint(a, {cl}, d)
  \/ /\ ~isOr(a) /\ ~isOr(b) /\ a # False /\ b # False
     /\ LET la == Clause(a)
            lb == Clause(b)
        IN \/ \E x \in la, y \in lb : litImplies(y, Neg(x))
           \/ contradictory(la \cup lb, FALSE)
           \/ HasGuard(la) /\ d < kGuardExpandLimit /\ disjoint(expandGuard(la), b, d + 1)
           \/ ~HasGuard(la) /\ HasGuard(lb) /\ d < kGuardExpandLimit /\ disjoint(a, expandGuard(lb), d + 1)
Implies(a, b) == implies(a, b, 0)
Disjoint(a, b) == disjoint(a, b, 0)

-----------------------------------------------------------------------------
(* The constructors.                                                         *)

\* A clause without the literals that others of it imply.
Reduced(cl) == {l \in cl : ~\E m \in cl : m # l /\ litImplies(m, l)}

complementary(x, y) == Neg(x) = y
covering(x, y) == complementary(x, y) \/ litImplies(Neg(x), y) \/ litImplies(Neg(y), x)

RECURSIVE andb(_, _), orb(_, _, _), OrOver(_, _)
AndLits(cl) == FoldSet(LAMBDA l, c : andb(c, {{l}}), True, cl)
\* Which of the two implies the other.
Stronger(ab) == {i \in 1..2 : Implies(ab[i], ab[3 - i])}
AndOf(a, b, stronger) ==
  IF 1 \in stronger THEN a ELSE IF 2 \in stronger THEN b
  ELSE IF Disjoint(a, b) THEN False
  ELSE IF ~isOr(a) /\ ~isOr(b) THEN {Reduced(Clause(a) \cup Clause(b))}
  ELSE OrOver(IF isOr(b) THEN {andb(a, {cl}) : cl \in b} ELSE {andb({cl}, b) : cl \in a}, False)
andb(a, b) ==
  IF a = True THEN b ELSE IF b = True THEN a
  ELSE IF a = False \/ b = False THEN False
  ELSE AndOf(a, b, Stronger(<<a, b>>))
OrOver(S, r) == IF S = {} THEN r ELSE LET c == CHOOSE c \in S : TRUE IN OrOver(S \ {c}, orb(r, c, 0))

\* Guards with a short definition of plain literals are expanded in place.
shallowGuard(l) == isGuard(l) /\ Cardinality(guards[l.k]) <= ShallowGuard /\ \A cl \in guards[l.k] : ~HasGuard(cl)
RECURSIVE flat(_)
FlatOne(one, S) == LET g == CHOOSE l \in S : TRUE
                   IN UNION {UNION {flat(x) : x \in andb(AndLits(one \ {g}), {d})} : d \in guards[g.k]}
FlatCond(c) ==
  IF c = False THEN {}
  ELSE IF isOr(c) THEN UNION {flat(x) : x \in c}
  ELSE IF ~\E l \in Clause(c) : shallowGuard(l) THEN c
  ELSE FlatOne(Clause(c), {l \in Clause(c) : shallowGuard(l)})
flat(cl) == FlatCond(AndLits(cl))

\* One simplification of a set of clauses: absorption, resolution of two
\* literals that cover everything, and dropping such a literal from a clause.
subsumed(by, cl) == \A m \in by : \E l \in cl : litImplies(l, m)
redundant(cl, l) == Implies(AndLits(cl \ {l}), {{l}})
ResolvePair(cls, ci, cj, di, dj) ==
  LET x == CHOOSE l \in di : TRUE
      Drops(l) == covering(x, l)
  IN IF ci = cj THEN {}
     ELSE IF di = {} \/ (semantic /\ subsumed(ci, cj)) THEN {cls \ {cj}}
     ELSE IF Cardinality(di) # 1 THEN {}
     ELSE IF Cardinality(dj) = 1 /\ \E y \in dj : Drops(y) THEN {(cls \ {ci, cj}) \cup {ci \cap cj}}
     ELSE {(cls \ {cj}) \cup {cj \ {l}} : l \in {l \in cj : Drops(l) /\ (l \in dj \/ redundant(cj, l))}}
Resolvents(cls) == UNION {ResolvePair(cls, ci, cj, ci \ cj, cj \ ci) : ci \in cls, cj \in cls}
RECURSIVE Resolve(_)
ResolveBy(cls, R) == IF R = {} THEN cls ELSE Resolve(CHOOSE r \in R : TRUE)
Resolve(cls) == ResolveBy(cls, Resolvents(cls))

\* A disjunction that simplification changed is built again.
OrAgain(r, last, depth) == orb(r \ {last}, {last}, depth + 1)
OrRebuilt(r, res, depth) == IF r # res /\ depth < 4 /\ isOr(r) THEN OrAgain(r, CHOOSE cl \in r : TRUE, depth) ELSE r
OrParts(parts, res, depth) == IF True \in parts THEN True ELSE OrRebuilt(UNION parts, res, depth)
OrResolved(res, depth) == OrParts({AndLits(cl) : cl \in res}, res, depth)
OrClauses(cls, depth) == IF {} \in cls THEN True ELSE OrResolved(Resolve(cls), depth)
OrOf(a, b, stronger, depth) ==
  IF 1 \in stronger THEN b ELSE IF 2 \in stronger THEN a
  ELSE OrClauses(UNION {flat(cl) : cl \in a \cup b}, depth)
orb(a, b, depth) ==
  IF a = False THEN b ELSE IF b = False THEN a
  ELSE IF a = True \/ b = True THEN True
  ELSE OrOf(a, b, Stronger(<<a, b>>), depth)

NotClause(cl) == OrOver({{{Neg(l)}} : l \in cl}, False)
RECURSIVE notb(_)
notb(c) == IF c = False THEN True
           ELSE LET cl == Clause(c) IN andb(NotClause(cl), notb(c \ {cl}))

\* c where ctx holds.
RECURSIVE given(_, _, _)
GivenLit(l, ctx, d) ==
  IF Implies(ctx, {{l}}) THEN True
  ELSE IF Disjoint(ctx, {{l}}) THEN False
  ELSE IF isGuard(l) /\ d > 0 THEN given(guards[l.k], ctx, d - 1)
  ELSE {{l}}
given(c, ctx, d) ==
  IF c \in {True, False} THEN c
  ELSE IF Implies(ctx, c) THEN True
  ELSE IF isOr(c) THEN OrOver({given({cl}, ctx, d) : cl \in c}, False)
  ELSE FoldSet(LAMBDA l, r : andb(r, GivenLit(l, ctx, d)), True, Clause(c))

-----------------------------------------------------------------------------
(* The executor's prover: do the facts contradict e?  Guards are read        *)
(* through their definitions and cases are split where no literal decides.   *)
(* F are the facts that are no guards, pending the definitions of those that *)
(* are.  (Its budget of 20000 steps, after which the answer is no, is beyond *)
(* these conditions; the depth of the splits is counted.)                    *)

kSplitDepth == 16
FactLits(F) == IF isOr(F) \/ F = False THEN {} ELSE Clause(F)
Dead(F) == F = False \/ contradictory(FactLits(F), TRUE)
isLit(x) == ~isOr(x) /\ x # False /\ Cardinality(Clause(x)) = 1
TheLit(x) == CHOOSE l \in Clause(x) : TRUE
Parts(x) == IF isOr(x) THEN {{cl} : cl \in x} ELSE {{{l}} : l \in Clause(x)}
isNot(l) == l.op = "not"
\* notb of a literal.
NotLit(c) == {{Neg(TheLit(c))}}
\* What a guard or a negation is read as: a guard's definition, what is negated.
Read(l) == IF l.at = "guard" THEN guards[l.k] ELSE {{Neg(l)}}

litStatus(F, l) ==
  IF Implies(F, {{l}}) THEN 1 ELSE IF Disjoint(F, {{l}}) THEN -1
  ELSE IF contradictory(FactLits(F) \cup {l}, TRUE) THEN -1
  ELSE IF contradictory(FactLits(F) \cup {Neg(l)}, TRUE) THEN 1 ELSE 0
\* What the facts say of x, and the literals of x they leave open.
RECURSIVE undecided(_, _)
UndecidedOf(parts, F, decides) ==
  LET sub == {undecided(a, F) : a \in parts}
  IN IF \E u \in sub : u.st = decides THEN [st |-> decides, open |-> {}]
     ELSE IF \A u \in sub : u.st # 0 THEN [st |-> -decides, open |-> {}]
     ELSE [st |-> 0, open |-> UNION {u.open : u \in sub}]
undecided(x, F) ==
  IF x = True THEN [st |-> 1, open |-> {}] ELSE IF x = False THEN [st |-> -1, open |-> {}]
  ELSE IF ~isLit(x) THEN UndecidedOf(Parts(x), F, IF isOr(x) THEN 1 ELSE -1)
  ELSE LET l == TheLit(x)
           u == undecided(Read(l), F)
           st == litStatus(F, l)
       IN IF isGuard(l) THEN u ELSE IF isNot(l) THEN [u EXCEPT !.st = -@]
          ELSE [st |-> st, open |-> IF st = 0 THEN {l} ELSE {}]

\* Does F entail x (prove), or contradict it?
RECURSIVE go(_, _, _, _, _)
BothCases(F, pending, x, prove, depth, u) ==
  IF u.st # 0 THEN (u.st > 0) = prove
  ELSE LET l == CHOOSE l \in u.open : TRUE
       IN \A b \in {l, Neg(l)} : LET F2 == andb(F, {{b}}) IN Dead(F2) \/ go(F2, pending, x, prove, depth + 1)
GoParts(F, pending, x, prove, depth) ==
  IF prove # isOr(x) THEN \A a \in Parts(x) : go(F, pending, a, prove, depth)
  ELSE \/ \E a \in Parts(x) : go(F, pending, a, prove, depth)
       \/ depth < kSplitDepth /\ BothCases(F, pending, x, prove, depth, undecided(x, F))
\* Every case of the last pending guard: its literals join F, its guards wait in turn.
EveryCase(F, pending, x, prove, depth) ==
  \A d \in Last(pending) :
    LET F2 == andb(F, AndLits({l \in d : ~isGuard(l)}))
        more == SetToSeq({guards[l.k] : l \in {l \in d : isGuard(l)}})
    IN Dead(F2) \/ go(F2, Front(pending) \o more, x, prove, depth)
GoLit(F, pending, l, prove, depth) ==
  \/ IF prove THEN Implies(F, {{l}}) ELSE Disjoint(F, {{l}})
  \/ contradictory(FactLits(F) \cup {IF prove THEN Neg(l) ELSE l}, TRUE)
  \/ pending # <<>> /\ EveryCase(F, pending, {{l}}, prove, depth)
go(F, pending, x, prove, depth) ==
  IF x = True THEN prove ELSE IF x = False THEN ~prove
  ELSE IF ~isLit(x) THEN GoParts(F, pending, x, prove, depth)
  ELSE LET l == TheLit(x)
       IN IF l.at = "guard" \/ isNot(l) THEN go(F, pending, Read(l), prove # isNot(l), depth)
          ELSE GoLit(F, pending, l, prove, depth)

\* Negated guards among the facts join what is to be refuted.
refutes(facts, e) ==
  LET fl == FactLits(facts)
      pos == {l \in fl : isGuard(l)}
      neg == {l \in fl : l.at = "guard" /\ isNot(l)}
      F == IF isOr(facts) THEN facts ELSE IF facts = False THEN False ELSE AndLits(fl \ (pos \cup neg))
  IN F = False \/ go(F, SetToSeq({guards[l.k] : l \in pos}), FoldSet(LAMBDA l, c : andb(c, {{l}}), e, neg), FALSE, 0)

\* A clause with its guards read through their definitions: of a negated guard
\* the disjuncts that are literals, of a positive one nothing below the first level.
RECURSIVE expandGuards(_, _)
ExpandLit(l, positive) ==
  IF isGuard(l) THEN IF positive THEN guards[l.k] ELSE True
  ELSE IF l.at # "guard" THEN {{l}}
  ELSE FoldSet(LAMBDA d, r : andb(r, notb(expandGuards(d, FALSE))), True, {d \in guards[l.k] : Cardinality(d) = 1})
expandGuards(cl, positive) == FoldSet(LAMBDA l, r : andb(r, ExpandLit(l, positive)), True, cl)

\* What holds where none of the ways was taken, as far as literals say it.
FactsOf(ex) ==
  IF isOr(ex) THEN FoldSet(LAMBDA m, r : andb(r, NotLit({m})), True, {m \in ex : Cardinality(m) = 1})
  ELSE IF ex # False /\ Cardinality(Clause(ex)) > 1 THEN True ELSE notb(ex)
factsAt(ways) == FoldSet(LAMBDA w, r : andb(r, FactsOf(expandGuards(w, TRUE))), True, ways)

-----------------------------------------------------------------------------
(* Selections between values, simplified under the conditions of the ones    *)
(* around them.  A value of len bytes is a leaf, a constant, undefined, a     *)
(* selection, the concatenation of values, len bytes of one from lo on, or an *)
(* operation; its type is abstracted.  A byte of a constant is one bit here.  *)

Node(k, n, c, args, lo, len) == [k |-> k, n |-> n, c |-> c, args |-> args, lo |-> lo, len |-> len]
LeafValue(n, len) == Node("leaf", n, False, <<>>, 0, len)
ConstValue(n, len) == Node("const", n, False, <<>>, 0, len)
UndefValue(len) == Node("undef", 0, False, <<>>, 0, len)
OpValue(n, args, len) == Node("op", n, False, args, 0, len)
IteValue(c, a, b) == Node("ite", 0, c, <<a, b>>, 0, a.len)
isUndef(v) == v.k = "undef"

canonicalPred(op) == op \notin {"ne", "ge", "uge", "gt", "ugt", "not"}
\* What an arm is where c = b is known of it: a selection on c again is decided.
ArmOf(v, c, b) == IF v.k = "ite" /\ v.c = c THEN v.args[IF b THEN 1 ELSE 2] ELSE v
Select(c, a, b) == IF a = b THEN a ELSE IteValue(c, a, b)
iteCanonical(c, a, b) == IF isUndef(a) THEN b ELSE IF isUndef(b) THEN a
                         ELSE Select(c, ArmOf(a, c, TRUE), ArmOf(b, c, FALSE))
ite(c, a, b) ==
  IF c = True \/ a = b THEN a ELSE IF c = False THEN b
  ELSE IF isLit(c) /\ ~canonicalPred(TheLit(c).op) THEN iteCanonical(NotLit(c), b, a)
  ELSE iteCanonical(c, a, b)

\* Bytes of a value, and the value of bytes: runs that are consecutive bytes of
\* one value, constant, undefined, or selected on one condition are one part.
RECURSIVE bytes(_, _, _), toBytes(_), fromBytes(_)
Size(ps) == FoldSeq(LAMBDA p, s : p.len + s, 0, ps)
concat(ps) == IF Len(ps) = 1 THEN ps[1] ELSE Node("concat", 0, False, ps, 0, Size(ps))
Offset(ps, i) == Size(SubSeq(ps, 1, i - 1))
Whole(ps, lo, len) == {i \in DOMAIN ps : Offset(ps, i) <= lo /\ lo + len <= Offset(ps, i) + ps[i].len}
bytes(x, lo, len) ==
  CASE lo = 0 /\ len = x.len -> x
    [] ~(lo = 0 /\ len = x.len) /\ isUndef(x) -> UndefValue(len)
    [] x.k = "const" /\ len < x.len -> ConstValue((x.n \div 2 ^ lo) % 2 ^ len, len)
    [] x.k = "bytes" /\ len < x.len -> bytes(x.args[1], x.lo + lo, len)
    [] x.k = "ite" /\ len < x.len -> ite(x.c, bytes(x.args[1], lo, len), bytes(x.args[2], lo, len))
    [] x.k = "concat" /\ len < x.len ->
         IF Whole(x.args, lo, len) = {} THEN fromBytes(SubSeq(toBytes(x), lo + 1, lo + len))
         ELSE LET i == Min(Whole(x.args, lo, len)) IN bytes(x.args[i], lo - Offset(x.args, i), len)
    [] OTHER -> Node("bytes", 0, False, <<x>>, lo, len)
toBytes(v) == IF v.k = "concat" THEN FlattenSeq([i \in DOMAIN v.args |-> toBytes(v.args[i])])
              ELSE [i \in 1..v.len |-> bytes(v, i - 1, 1)]

ArmBytes(bs, a) == fromBytes([i \in DOMAIN bs |-> bs[i].args[a]])
OneRun(bs) ==
  CASE bs[1].k = "bytes" -> \A i \in DOMAIN bs : bs[i].k = "bytes" /\ bs[i].args = bs[1].args /\ bs[i].lo = bs[1].lo + i - 1
    [] bs[1].k \in {"const", "undef"} -> \A i \in DOMAIN bs : bs[i].k = bs[1].k
    [] bs[1].k = "ite" -> /\ \A i \in DOMAIN bs : bs[i].k = "ite" /\ bs[i].c = bs[1].c
                          /\ "concat" \notin {ArmBytes(bs, 1).k, ArmBytes(bs, 2).k}
    [] OTHER -> Len(bs) = 1
PartOf(bs) ==
  CASE Len(bs) = 1 -> bs[1]
    [] Len(bs) > 1 /\ bs[1].k = "bytes" -> bytes(bs[1].args[1], bs[1].lo, Len(bs))
    [] Len(bs) > 1 /\ bs[1].k = "const" -> ConstValue(FoldSeq(LAMBDA b, r : b.n + 2 * r, 0, bs), Len(bs))
    [] Len(bs) > 1 /\ bs[1].k = "undef" -> UndefValue(Len(bs))
    [] Len(bs) > 1 /\ bs[1].k = "ite" -> ite(bs[1].c, ArmBytes(bs, 1), ArmBytes(bs, 2))
RECURSIVE parts(_)
FirstRun(bs) == Max({1} \cup {j \in DOMAIN bs : OneRun(SubSeq(bs, 1, j))})
parts(bs) == IF bs = <<>> THEN <<>>
             ELSE LET j == FirstRun(bs) IN <<PartOf(SubSeq(bs, 1, j))>> \o parts(SubSeq(bs, j + 1, Len(bs)))
fromBytes(bs) == concat(parts(bs))

\* What is known of conditions: a truth value for each, the last one said.
isCmpCond(c) == isLit(c) /\ isCmp(TheLit(c))
Known(c, val, f) == {x \in f : x.c # c} \cup {[c |-> c, val |-> val]}
KnownBoth(c, val, f) == IF isCmpCond(c) THEN Known(NotLit(c), ~val, Known(c, val, f)) ELSE Known(c, val, f)
addFact(c, val, f) ==
  FoldSet(LAMBDA p, g : KnownBoth(p, val, g), KnownBoth(c, val, f),
          IF isLit(c) \/ isOr(c) = val THEN {} ELSE Parts(c))

\* The facts that can take part in a decision about these conditions: of a node
\* of theirs, or a bound on a polynomial they compare.
conditionKeys(c) == {c} \cup {{cl} : cl \in c} \cup {{{l}} : l \in UNION c}
polyClass(c) == <<TheLit(c).at, TheLit(c).k>>
RECURSIVE selectionConds(_)
selectionConds(e) == (IF e.k = "ite" THEN {e.c} ELSE {}) \cup UNION {selectionConds(e.args[i]) : i \in DOMAIN e.args}
selectionKeys(e) == UNION {conditionKeys(c) : c \in selectionConds(e)}
Relevant(f, e) ==
  LET keys == selectionKeys(e)
      classes == {polyClass(c) : c \in {c \in keys : isCmpCond(c)}}
  IN {x \in f : x.c \in keys \/ (x.val /\ isCmpCond(x.c) /\ polyClass(x.c) \in classes)}

TrueLits(f) == {TheLit(x.c) : x \in {x \in f : x.val /\ isCmpCond(x.c)}}
\* A condition with the parts the facts decide, as literals or by bounds, replaced.
Said(c, f, otherwise) == IF \E x \in f : x.c = c THEN Bool([c |-> c, val |-> TRUE] \in f) ELSE otherwise
ByBounds(l, said) == IF said = "open" THEN {{l}} ELSE Bool(said = "true")
DecidedLit(l, f) == Said({{l}}, f, ByBounds(l, IF isCmp(l) THEN decideLit(l, TrueLits(f)) ELSE "open"))
decideCond(c, f) ==
  Said(c, f, OrOver({Said({cl}, f, FoldSet(LAMBDA l, r : andb(r, DecidedLit(l, f)), True, cl)) : cl \in c}, False))

\* At the value level (an arm, a part of the bytes) every decided selection
\* folds; below, in an operation, those on the conditions in fold, by literals
\* and bounds as above.  (The results are cached by e, the relevant facts, the
\* depth and the level; every cache serves one fold.)
RECURSIVE simplifyUnderRec(_, _, _, _, _)
simplifyUnderArm(v, fold, f, depth, valueLevel) ==
  IF selectionConds(v) = {} THEN v ELSE simplifyUnderRec(v, fold, Relevant(f, v), depth, valueLevel)
SelectionUnder(e, fold, f, depth, valueLevel) ==
  LET d == IF f # {} /\ (valueLevel \/ e.c \in fold) THEN decideCond(e.c, f) ELSE e.c
      Arm(i, val) == simplifyUnderArm(e.args[i], fold, addFact(e.c, val, f), depth + 1, valueLevel)
  IN CASE d = True -> simplifyUnderRec(e.args[1], fold, f, depth + 1, valueLevel)
       [] d = False -> simplifyUnderRec(e.args[2], fold, f, depth + 1, valueLevel)
       [] OTHER -> ite(e.c, Arm(1, TRUE), Arm(2, FALSE))
simplifyUnderRec(e, fold, f, depth, valueLevel) ==
  LET up == valueLevel /\ e.k \in {"concat", "bytes"}
  IN IF depth > kUnderDepth \/ selectionConds(e) = {} THEN e
     ELSE IF e.k = "ite" THEN SelectionUnder(e, fold, f, depth, valueLevel)
     ELSE [e EXCEPT !.args = [i \in DOMAIN @ |-> simplifyUnderRec(@[i], fold, f, IF up THEN depth + 1 ELSE depth, up)]]
simplifyUnder(e, fold) == simplifyUnderArm(e, fold, {}, 0, TRUE)

\* The same value as a tree of decisions, one comparison after the other; what
\* a decision implies or excludes is settled with it.  (Nothing calls it yet;
\* the order is its caller's, here any.)
Comparisons(e) == {l \in UNION UNION selectionConds(e) : isCmp(l)}
Keyed(l) == IF canonicalPred(l.op) THEN l ELSE Neg(l)
Settled(n, l) == IF n = l \/ (isCmp(n) /\ litImplies(l, n)) THEN True
                 ELSE IF isCmp(n) /\ (n = Neg(l) \/ litImplies(l, Neg(n))) THEN False ELSE {{n}}
SettledCond(c, l) == OrOver({FoldSet(LAMBDA n, r : andb(r, Settled(n, l)), True, cl) : cl \in c}, False)
RECURSIVE settle(_, _), decisions(_, _)
settle(e, l) ==
  LET args == [i \in DOMAIN e.args |-> settle(e.args[i], l)]
  IN IF e.k = "ite" THEN ite(SettledCond(e.c, l), args[1], args[2]) ELSE [e EXCEPT !.args = args]
Decision(l, t, f) == IF t = f \/ isUndef(f) THEN t ELSE IF isUndef(t) THEN f ELSE IteValue({{l}}, t, f)
decisions(e, ls) ==
  IF ls = <<>> \/ Comparisons(e) = {} THEN e
  ELSE LET l == Head(ls)
       IN IF {l, Neg(l)} \cap Comparisons(e) = {} THEN decisions(e, Tail(ls))
          ELSE Decision(l, decisions(settle(e, l), Tail(ls)), decisions(settle(e, Neg(l)), Tail(ls)))
\* Past maxLits comparisons there is no answer.
shannon(e, maxLits) ==
  IF Cardinality(Comparisons(e)) > maxLits THEN {}
  ELSE {decisions(e, SetToSeq({Keyed(l) : l \in Comparisons(e)}))}

-----------------------------------------------------------------------------
\* The literals common to every clause, and a guard for the rest.
Common(c) == {l \in UNION c : \A cl \in c : l \in cl}
Rest(c) == UNION {AndLits(cl \ Common(c)) : cl \in c}
GuardFor(rest) == IF \E i \in DOMAIN guards : guards[i] = rest
                  THEN CHOOSE i \in DOMAIN guards : guards[i] = rest ELSE Len(guards) + 1

-----------------------------------------------------------------------------

Literal(s) == IF s.at = "p" THEN {{Lit("p", 0, 0, "is", 0)}} ELSE cmp(s.pred, s.at, s.k, s.c, s.q)
Says(s) == {e \in Envs : IF s.at = "p" THEN e.p ELSE Compares(s.pred, s.k * AtomVal(s.at, e) + s.c, s.q)}

CNInit ==
  /\ semantic \in BOOLEAN /\ guards = <<>>
  /\ \E s \in Sources : acc = Literal(s) /\ accIs = Says(s)
  /\ other = True /\ otherIs = Envs
  /\ built = 0

Building == built < MaxBuild /\ built' = built + 1 /\ UNCHANGED semantic

AndLiteral ==
  /\ Building /\ UNCHANGED <<guards, other, otherIs>>
  /\ \E s \in Sources : acc' = andb(acc, Literal(s)) /\ accIs' = accIs \cap Says(s)
OrLiteral ==
  /\ Building /\ UNCHANGED <<guards, other, otherIs>>
  /\ \E s \in Sources : acc' = orb(acc, Literal(s), 0) /\ accIs' = accIs \cup Says(s)
NotIt ==
  /\ Building /\ UNCHANGED <<guards, other, otherIs>>
  /\ acc' = notb(acc) /\ accIs' = Envs \ accIs
\* The other path starts; later the two meet at a join.
OtherPath ==
  /\ Building /\ UNCHANGED guards
  /\ other' = acc /\ otherIs' = accIs
  /\ acc' = notb(acc) /\ accIs' = Envs \ accIs
Join ==
  /\ Building /\ UNCHANGED <<guards, other, otherIs>>
  /\ acc' = orb(acc, other, 0) /\ accIs' = accIs \cup otherIs
BothPaths ==
  /\ Building /\ UNCHANGED <<guards, other, otherIs>>
  /\ acc' = andb(acc, other) /\ accIs' = accIs \cap otherIs
\* At an edge a disjunction is factored through a guard.
Factored(rest, i) ==
  IF True \subseteq rest
  THEN guards' = guards /\ acc' = AndLits(Common(acc))
  ELSE /\ guards' = IF i > Len(guards) THEN Append(guards, rest) ELSE guards
       /\ acc' = {Common(acc) \cup {Lit("guard", i, 0, "is", 0)}}
factor ==
  /\ Building /\ isOr(acc) /\ UNCHANGED <<other, otherIs, accIs>>
  /\ \E rest \in {Rest(acc)} : Factored(rest, GuardFor(rest))

CNNext == AndLiteral \/ OrLiteral \/ NotIt \/ OtherPath \/ Join \/ BothPaths \/ factor
CNSpec == CNInit /\ [][CNNext]_cnvars

-----------------------------------------------------------------------------
\* However a condition was built, negated, joined and factored, what the
\* simplifying constructors returned holds exactly where the program takes the
\* paths it stands for.
MeaningKept == {e \in Envs : Holds(acc, e)} = accIs

\* What the prover is asked: of both paths and, before the second starts, of each test.
Questions ==
  LET A == [c |-> acc, is |-> accIs]
      B == [c |-> other, is |-> otherIs]
  IN IF other # True THEN {<<A, B>>, <<B, A>>}
     ELSE {<<A, [c |-> Literal(s), is |-> Says(s)]>> : s \in IF guards = <<>> THEN {} ELSE Sources}

\* The syntactic tests never claim what is not so: the executor drops writes,
\* branches and residues on their word.
TestsSound ==
  /\ Implies(acc, other) => accIs \subseteq otherIs
  /\ Implies(other, acc) => otherIs \subseteq accIs
  /\ Disjoint(acc, other) => accIs \cap otherIs = {}
  /\ \A q \in Questions : refutes(q[1].c, q[2].c) => q[1].is \cap q[2].is = {}
  /\ \A cl \in acc : (contradictory(cl, TRUE) => {e \in Envs : \A l \in cl : LitHolds(l, e)} = {})
  /\ \A cl \in acc, s \in Sources : \A l \in UNION Literal(s) :
       /\ decideLit(l, cl) = "true" => \A e \in Envs : (\A m \in cl : LitHolds(m, e)) => LitHolds(l, e)
       /\ decideLit(l, cl) = "false" => \A e \in Envs : (\A m \in cl : LitHolds(m, e)) => ~LitHolds(l, e)

\* Guards read through their definitions: a clause becomes no stronger, and what
\* the executor takes as facts of a thread that has not returned on these paths
\* is so, when no path has a negated guard.  (With one it need not be: of
\* ~(a /\ b \/ c) only ~c is kept, and its negation c is taken as a fact.)
GuardsRead ==
  /\ (\A i \in DOMAIN guards : \A cl \in guards[i] : ~HasGuard(cl)) =>
       \A cl \in acc, e \in Envs : (\A l \in cl : LitHolds(l, e)) => Holds(expandGuards(cl, TRUE), e)
  /\ (\A cl \in acc : \A l \in cl : ~(l.at = "guard" /\ isNot(l))) => \A e \in Envs \ accIs : Holds(factsAt(acc), e)

\* A condition read where another holds agrees with it there.
GivenAgrees == LET g == given(acc, other, Len(guards)) IN {e \in otherIs : Holds(g, e)} = accIs \cap otherIs

\* The bytes of a value in an environment: of n at i, of a constant (n = -1), of
\* an operation on the values of; an undefined one (n = -2) may be any.
Byte(n, i, of) == [n |-> n, i |-> i, of |-> of]
RECURSIVE BytesIn(_, _), Agree(_, _)
BytesIn(v, e) ==
  CASE v.k = "ite" -> BytesIn(v.args[IF Holds(v.c, e) THEN 1 ELSE 2], e)
    [] v.k = "concat" -> FlattenSeq([i \in DOMAIN v.args |-> BytesIn(v.args[i], e)])
    [] v.k = "bytes" -> SubSeq(BytesIn(v.args[1], e), v.lo + 1, v.lo + v.len)
    [] v.k = "const" -> [i \in 1..v.len |-> Byte(-1, (v.n \div 2 ^ (i - 1)) % 2, <<>>)]
    [] isUndef(v) -> [i \in 1..v.len |-> Byte(-2, 0, <<>>)]
    [] OTHER -> [i \in 1..v.len |-> Byte(v.n, i, [j \in DOMAIN v.args |-> BytesIn(v.args[j], e)])]
Agree(bs, cs) ==
  /\ Len(bs) = Len(cs)
  /\ \A i \in DOMAIN cs : \/ cs[i].n = -2
                         \/ /\ bs[i].n = cs[i].n /\ bs[i].i = cs[i].i
                            /\ \A j \in DOMAIN cs[i].of : Agree(bs[i].of[j], cs[i].of[j])

\* Selections on both paths and on a test s, nested at the value level and below.
Nested(s) ==
  LET Test(a, b) == ite(Literal(s), a, b)
  IN ite(acc, concat(<<Test(LeafValue(1, 2), LeafValue(2, 2)), OpValue(20, <<ite(other, Test(LeafValue(3, 1), LeafValue(4, 1)), LeafValue(5, 1))>>, 2)>>),
              Test(OpValue(21, <<ite(acc, LeafValue(6, 1), LeafValue(7, 1)), Test(LeafValue(1, 2), UndefValue(2))>>, 4),
                   ite(other, LeafValue(8, 4), Test(UndefValue(4), ConstValue(5, 4)))))
SameBytes(w, v, Of(_)) == \A e \in Envs : Agree(BytesIn(w, e), Of(BytesIn(v, e)))
\* The bytes of a value in another order, some twice, some never.
Picks == {<<1, 2, 3, 4, 5, 6>>, <<4, 3, 2, 1>>, <<3, 4, 5, 6, 1, 1>>, <<2, 6, 3>>}
Picked(bs, p) == [i \in DOMAIN p |-> bs[p[i]]]

\* A value rewritten under the conditions around it, as a tree of decisions, or
\* taken apart and put together anew is the program's value, byte by byte,
\* wherever that is defined.
SelectionsKept ==
  built <= SelectSteps => \A s \in Selectors :
    LET v == Nested(s)
        vu == concat(<<v, ite(Literal(s), LeafValue(8, 2), LeafValue(9, 2))>>)
        Rewritten(w, fold, lo, len) == [v |-> w, fold |-> fold, lo |-> lo, len |-> len]
    IN /\ \A r \in {Rewritten(v, {}, 0, v.len), Rewritten(v, selectionConds(v), 0, v.len)}
                   \cup {Rewritten(bytes(bytes(v, 1, 3), lo, 2), {}, lo + 1, 2) : lo \in 0..1} :
            SameBytes(simplifyUnder(r.v, r.fold), v, LAMBDA bs : SubSeq(bs, r.lo + 1, r.lo + r.len))
       /\ \A w \in shannon(v, MaxLits) : SameBytes(w, v, LAMBDA bs : bs)
       /\ \A p \in Picks : SameBytes(fromBytes(Picked(toBytes(vu), p)), vu, LAMBDA bs : Picked(bs, p))

\* The executor may rely on its conditions: however they were built they mean
\* what the program tests, and no test or simplification says more.
ConditionsSound == MeaningKept /\ TestsSound /\ GuardsRead /\ GivenAgrees /\ SelectionsKept
=============================================================================
