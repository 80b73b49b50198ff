---------------------------- MODULE WideVectors ----------------------------
(***************************************************************************)
(* Scalarization of the vectors MSL has no type for (wide_vectors.cpp).    *)
(*                                                                         *)
(* A function is the body of one loop in reverse post order: a sequence of *)
(* SSA instructions, id by position.  A value is a sequence of lanes, each *)
(* an integer of the value's lane width; a scalar is a value of one lane.  *)
(* env gives the values that phis and other inputs have in this iteration. *)
(***************************************************************************)
EXTENDS Integers, Sequences, FiniteSets, FiniteSetsExt, SequencesExt

CONSTANTS
  Bodies,        \* loop bodies that may be scalarized
  Envs(_),       \* the values a body's phis and inputs may have
  MaxLanes,      \* lanes an MSL vector has at most (4 in the code)
  MaxBits        \* bits a lane may be resliced through (64 in the code)

VARIABLES body, env, pos, parts, scalars, lanePhis, err

wvars == <<body, env, pos, parts, scalars, lanePhis, err>>

\* Types are [n, bits, fp64]; doubles have no vector form at all.
isWideTy(t) == t.n > MaxLanes \/ (t.fp64 /\ t.n > 1)
TypeOf(o) == body[o].ty

-----------------------------------------------------------------------------
(* What an instruction means on whole vectors: lane by lane, or the bits of  *)
(* the operand read again at another width, lane 0 lowest.                   *)

BitsOf(v, w) == [k \in 1..(Len(v) * w) |-> (v[((k - 1) \div w) + 1] \div 2^((k - 1) % w)) % 2]
FromBits(bs, w) == [j \in 1..(Len(bs) \div w) |-> FoldFunction(+, 0, [k \in 1..w |-> bs[(j - 1) * w + k] * 2^(k - 1)])]

Means(i, Arg(_)) ==
  LET a == Arg(1)
      b == Arg(2)
      w == 2^i.ty.bits
  IN CASE i.op = "bin" -> [k \in DOMAIN a |-> (a[k] + b[k]) % w]
       [] i.op = "select" -> [k \in DOMAIN a |-> IF Arg(3)[IF Len(Arg(3)) = 1 THEN 1 ELSE k] # 0 THEN a[k] ELSE b[k]]
       [] i.op = "shuffle" -> [k \in DOMAIN i.mask |-> (a \o b)[i.mask[k] + 1]]
       [] i.op = "insert" -> [a EXCEPT ![Arg(3)[1] + 1] = b[1]]
       [] i.op = "extract" -> <<a[b[1] + 1]>>
       [] i.op = "bitcast" -> FromBits(BitsOf(a, i.from), i.ty.bits)
       [] i.op = "reduce" -> <<FoldLeft(LAMBDA x, y : (x + y) % w, 0, a)>>

RECURSIVE Meaning(_)
Meaning(o) == LET i == body[o]
              IN IF i.op \in {"phi", "input"} THEN env[o]
                 ELSE Means(i, LAMBDA k : IF k \in DOMAIN i.args THEN Meaning(i.args[k]) ELSE <<>>)

-----------------------------------------------------------------------------
WInit ==
  /\ body \in Bodies /\ env \in Envs(body)
  /\ pos = 1 /\ parts = [o \in {} |-> <<>>] /\ scalars = [o \in {} |-> <<>>] /\ lanePhis = [o \in {} |-> <<>>]
  /\ err = FALSE

Put(f, o, v) == [x \in DOMAIN f \cup {o} |-> IF x = o THEN v ELSE f[x]]

\* The lanes of a value: those made for it, the value's own when it is narrow,
\* a wide phi's once its lane phis exist; no other wide value has any yet.
lanesOf(o, made) ==
  CASE o \in DOMAIN made -> made[o]
    [] o \in DOMAIN scalars -> scalars[o]
    [] o \notin DOMAIN made \cup DOMAIN scalars /\ body[o].op \in {"phi", "input"} -> env[o]
    [] OTHER -> <<>>
HasLanes(o) == o \in DOMAIN parts \cup DOMAIN scalars \/ body[o].op \in {"phi", "input"}

\* Mutant: the words of a wider lane are put together in the wrong order.
resliceSwapped(src, sb, db, count) ==
  [j \in 1..count |->
     IF db <= sb
     THEN LET bit == (j - 1) * db IN (src[(bit \div sb) + 1] \div 2^(bit % sb)) % 2^db
     ELSE FoldFunction(+, 0, [k \in 1..(db \div sb) |-> src[((j - 1) * db) \div sb + k] * 2^(db - k * sb)])]
\* Integer lanes of sb bits read again as count lanes of db bits.
reslice(src, sb, db, count) ==
  [j \in 1..count |->
     IF db <= sb
     THEN LET bit == (j - 1) * db IN (src[(bit \div sb) + 1] \div 2^(bit % sb)) % 2^db
     ELSE FoldFunction(+, 0, [k \in 1..(db \div sb) |-> src[((j - 1) * db) \div sb + k] * 2^((k - 1) * sb)])]
Resliceable(i) == i.op = "bitcast" => i.from <= MaxBits /\ i.ty.bits <= MaxBits

\* Lanes of an instruction from the lanes of its operands; an index that is no
\* constant becomes a chain of selects.
Lanes(i, made) ==
  LET A(k) == lanesOf(i.args[k], made)
      a == A(1)
      Const(o) == body[o].op = "input" /\ body[o].const
  IN CASE i.op = "bin" -> [k \in 1..i.ty.n |-> (a[k] + A(2)[k]) % 2^i.ty.bits]
       [] i.op = "select" -> [k \in 1..i.ty.n |-> IF A(3)[IF TypeOf(i.args[3]).n > 1 THEN k ELSE 1] # 0 THEN a[k] ELSE A(2)[k]]
       [] i.op = "shuffle" -> [k \in DOMAIN i.mask |-> IF i.mask[k] < Len(a) THEN a[i.mask[k] + 1] ELSE A(2)[i.mask[k] - Len(a) + 1]]
       [] i.op = "insert" -> IF Const(i.args[3]) THEN [a EXCEPT ![A(3)[1] + 1] = A(2)[1]]
                             ELSE [k \in DOMAIN a |-> IF A(3)[1] = k - 1 THEN A(2)[1] ELSE a[k]]
       [] i.op = "extract" -> IF Const(i.args[2]) THEN <<a[A(2)[1] + 1]>>
                              ELSE <<FoldLeft(LAMBDA r, k : IF A(2)[1] = k - 1 THEN a[k] ELSE r, a[1], [k \in 1..(Len(a) - 1) |-> k + 1])>>
       [] i.op = "bitcast" -> reslice(a, i.from, i.ty.bits, i.ty.n)
       [] i.op = "reduce" -> <<FoldLeft(LAMBDA x, y : (x + y) % 2^i.ty.bits, a[1], Tail(a))>>

\* One instruction: a wide result becomes lanes, a narrow one that reads wide
\* values is replaced, everything else stays; the walk ends at what it cannot do.
visit ==
  LET i == body[pos]
      wideIn == \E o \in Range(i.args) : isWideTy(TypeOf(o))
      fails == ~Resliceable(i) \/ i.op = "call" \/ \E o \in Range(i.args) : ~HasLanes(o)
  IN /\ ~err /\ pos <= Len(body)
     /\ \/ /\ i.op = "phi" /\ isWideTy(i.ty)
           /\ parts' = Put(parts, pos, env[pos]) /\ lanePhis' = Put(lanePhis, pos, <<>>)
           /\ UNCHANGED <<scalars, err>>
        \/ /\ i.op \notin {"phi", "input"} /\ (isWideTy(i.ty) \/ wideIn) /\ fails
           /\ err' = TRUE /\ UNCHANGED <<parts, scalars, lanePhis>>
        \/ /\ i.op \notin {"phi", "input"} /\ isWideTy(i.ty) /\ ~fails
           /\ parts' = Put(parts, pos, Lanes(i, parts)) /\ UNCHANGED <<scalars, lanePhis, err>>
        \/ /\ i.op \notin {"phi", "input"} /\ ~isWideTy(i.ty) /\ wideIn /\ ~fails
           /\ scalars' = Put(scalars, pos, Lanes(i, parts)) /\ UNCHANGED <<parts, lanePhis, err>>
        \/ /\ i.op \notin {"phi", "input"} /\ ~isWideTy(i.ty) /\ ~wideIn
           /\ scalars' = Put(scalars, pos, Means(i, LAMBDA k : IF k \in DOMAIN i.args THEN lanesOf(i.args[k], parts) ELSE <<>>))
           /\ UNCHANGED <<parts, lanePhis, err>>
        \/ /\ (i.op = "phi" /\ ~isWideTy(i.ty)) \/ i.op = "input"
           /\ UNCHANGED <<parts, scalars, lanePhis, err>>
     /\ pos' = pos + 1
     /\ UNCHANGED <<body, env>>

\* After the walk the lane phis take the lanes of what the wide phi takes.
fillPhis ==
  /\ ~err /\ pos = Len(body) + 1
  /\ \A p \in DOMAIN lanePhis : HasLanes(body[p].back)
  /\ lanePhis' = [p \in DOMAIN lanePhis |-> lanesOf(body[p].back, parts)]
  /\ pos' = pos + 1
  /\ UNCHANGED <<body, env, parts, scalars, err>>

WNext == visit \/ fillPhis
WSpec == WInit /\ [][WNext]_wvars

-----------------------------------------------------------------------------
\* "No value changes bits": every value that was split into lanes, every value
\* recomputed from lanes and every lane phi's next value is what the vector
\* program has, bitcasts between lane widths included; and when the walk ends
\* no wide value is left unsplit, in whatever order phis and their users come.
SameBits ==
  /\ \A o \in DOMAIN parts : parts[o] = Meaning(o)
  /\ \A o \in DOMAIN scalars : scalars[o] = Meaning(o)
  /\ pos = Len(body) + 2 => \A p \in DOMAIN lanePhis : lanePhis[p] = Meaning(body[p].back)
  /\ pos = Len(body) + 2 => \A o \in DOMAIN body : isWideTy(TypeOf(o)) => o \in DOMAIN parts \/ body[o].op = "input"
=============================================================================
