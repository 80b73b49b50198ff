----------------------------- MODULE Schedules -----------------------------
(***************************************************************************)
(* Schedules of a recovered kernel: the language (schedule.cpp), the       *)
(* obligations a schedule must discharge (legality.cpp), the search for a  *)
(* cheaper one and the choice the engine makes (engine.cpp).               *)
(*                                                                         *)
(* A program is what stir.h keeps of a kernel, cut down to what schedules  *)
(* read: for each coordinate, whether it is an output and which physical   *)
(* axes carry it; the algebra and permissions of its loops; whether it has *)
(* guards, effects and sites that were not fitted.  Costs are picoseconds. *)
(***************************************************************************)
EXTENDS Integers, Sequences, FiniteSets, FiniteSetsExt, SequencesExt

CONSTANTS
  KernelPrograms,  \* the kernels that may be compiled
  Databases,       \* what MVCC_SCHED_DB may hold: [prefer, measured]
  Texts(_, _),     \* the schedule files a user may supply for a program
  Depth,           \* edits in a row the search tries (3 in the code)
  Width            \* candidates it keeps (8 in the code)

ASSUME SearchAssumption == Depth \in Nat /\ Width \in Nat \ {0}

VARIABLES
  prog, db,     \* the kernel and the measurements at hand
  searchPhase,  \* search, judge, done
  depth,        \* edits already tried in a row
  frontier,     \* schedules the last round of edits made
  found,        \* well-formed candidates with their costs
  todo,         \* candidates not judged yet
  best, dbHit   \* the choice so far, and whether the database asked for it

scvars == <<prog, db, searchPhase, depth, frontier, found, todo, best, dbHit>>

Binds == {"lane", "simdgroup", "block.x", "block.y", "block.z", "unroll", "time", "replicate", "launch", "device"}
Storages == {"device", "threadgroup", "register", "coop-tensor", "recompute"}
Engines == {"tensor-op", "scalar-fma", "simd-vector"}
Exchanges == {"none", "shuffle-tree", "threadgroup-buffer", "atomic", "collective"}
Predicates == {"branch", "select+clamp", "zero-page", "none"}
Prefetches == {"at-use", "iteration-start", "rotate"}

\* A freshly declared StageSchedule.
NewStage == [factors |-> <<>>, order |-> <<>>, storage |-> <<>>, exchange |-> "none",
             engine |-> "scalar-fma", prefetch |-> "at-use", predicate |-> "branch",
             fusedWith |-> {}, threadScale |-> 1, smem |-> 0]

Splits == {0, 3} \cup {2^i : i \in 0..17}

wellFormed(P, S) ==
  /\ S.stages # <<>>
  /\ \A s \in Range(S.stages) :
       LET names == {f.name : f \in Range(s.factors)}
       IN /\ P.coords # <<>> => \A f \in Range(s.factors) : f.coord \in DOMAIN P.coords
          /\ Cardinality(names) = Len(s.factors)
          /\ \A f \in Range(s.factors) : f.size \in Splits
          /\ DOMAIN P.coords \subseteq {f.coord : f \in Range(s.factors)}
          /\ Range(s.order) \subseteq names
          /\ s.threadScale \in 1..32
          /\ s.smem <= 232448

-----------------------------------------------------------------------------
(* The schedule the source has. *)

Algebras(P) == UNION {l.algebra : l \in Range(P.loops)}
DataLoops(P) == {l \in Range(P.loops) : l.data}
Granted(P, what) == \A l \in DataLoops(P) : l.permits[what]

\* Without a data loop everything is granted here; permits says the opposite.
programPermits(P, what) == Granted(P, what)

Factor(c, tag, size, bind) == [name |-> <<c, tag>>, coord |-> c, size |-> size, bind |-> bind]
AtMost5(n) == IF n > 5 THEN 5 ELSE n

\* The factors of one coordinate: thread bits below 5 are lanes, the others
\* simdgroups; an iteration is time, a derived value an unroll.
factorsOf(P, c) ==
  LET x == P.coords[c]
      some == (IF x.lo > 0 THEN <<Factor(c, "lane", 2^AtMost5(x.lo), "lane")>> ELSE <<>>)
           \o (IF x.hi > 0 THEN <<Factor(c, "sg", 2^AtMost5(x.hi), "simdgroup")>> ELSE <<>>)
           \o (IF x.iter THEN <<Factor(c, "k", 0, "time")>> ELSE <<>>)
           \o (IF x.der THEN <<Factor(c, "u", 0, "unroll")>> ELSE <<>>)
  IN IF some # <<>> THEN some
     ELSE IF x.out THEN <<Factor(c, "blk", 1, "block.x")>> ELSE <<Factor(c, "r", 1, "time")>>

sourceSchedule(P) ==
  LET factors == IF P.coords = <<>> THEN <<Factor(1, "lane", 32, "lane")>>
                 ELSE FlattenSeq([c \in DOMAIN P.coords |-> factorsOf(P, c)])
      reduces == \E c \in DOMAIN P.coords : ~P.coords[c].out
      timed == SelectSeq(factors, LAMBDA f : f.bind = "time")
  IN [kernel |-> P.kernel, why |-> "source",
      stages |-> <<[NewStage EXCEPT
        !.factors = factors,
        !.order = [i \in DOMAIN timed |-> timed[i].name],
        !.storage = [t \in 1..P.tensors |-> [tensor |-> t, kind |-> "device", ring |-> 0]],
        !.engine = IF "tensor-sum" \in Algebras(P) THEN "tensor-op" ELSE "scalar-fma",
        !.prefetch = "iteration-start",
        !.predicate = IF P.guards THEN "branch" ELSE "none",
        !.exchange = IF reduces /\ programPermits(P, "partition") THEN "shuffle-tree" ELSE "none"]>>]

-----------------------------------------------------------------------------
(* Edits. *)

Edit(S, why, E(_)) == [S EXCEPT !.why = why, !.stages = [i \in DOMAIN S.stages |-> E(S.stages[i])]]
Restore(s, from, to) ==
  [i \in DOMAIN s.storage |-> IF s.storage[i].kind = from THEN [s.storage[i] EXCEPT !.kind = to] ELSE s.storage[i]]

\* bind the first factor with property P to b
Rebind(s, P(_), b) ==
  LET hits == {i \in DOMAIN s.factors : P(s.factors[i])}
  IN IF hits = {} THEN s ELSE [s EXCEPT !.factors[Min(hits)].bind = b]

editEngineTensorOp(S) ==
  Edit(S, "engine:tensor-op",
       LAMBDA s : [s EXCEPT !.engine = "tensor-op", !.storage = Restore(s, "register", "coop-tensor")])
editRestage2(S) ==
  Edit(S, "restage:2",
       LAMBDA s : [s EXCEPT !.smem = IF s.smem = 0 THEN 16384 ELSE Min({s.smem, 32768}),
                            !.storage = [i \in DOMAIN s.storage |->
                               IF s.storage[i].kind = "threadgroup" THEN [s.storage[i] EXCEPT !.ring = 2]
                               ELSE s.storage[i]]])
\* Every unrolled factor goes to the simdgroups, or else the first timed one
\* that iterates; its name stays in order.
editSimdSplit(S, F) ==
  Edit(S, IF F = 2 THEN "split:simdgroup*2" ELSE "split:simdgroup*4",
       LAMBDA s :
         LET t == [s EXCEPT !.threadScale = F]
         IN IF \E f \in Range(s.factors) : f.bind = "unroll"
            THEN [t EXCEPT !.factors = [i \in DOMAIN s.factors |->
                    IF s.factors[i].bind = "unroll" THEN [s.factors[i] EXCEPT !.bind = "simdgroup"]
                    ELSE s.factors[i]]]
            ELSE Rebind(t, LAMBDA f : f.bind = "time" /\ f.size # 1, "simdgroup"))
editDeviceStream(S) ==
  Edit(S, "storage:device-stream",
       LAMBDA s : [s EXCEPT !.storage = Restore(s, "threadgroup", "device"),
                            !.prefetch = "iteration-start", !.smem = 0])
editGuardedZeroPage(S) == Edit(S, "predicate:zero-page", LAMBDA s : [s EXCEPT !.predicate = "zero-page"])
editReplicate(S) == Edit(S, "bind:replicate", LAMBDA s : Rebind(s, LAMBDA f : f.bind = "lane", "replicate"))
editBindDevice(S) ==
  Edit(S, "bind:device",
       LAMBDA s : [Rebind(s, LAMBDA f : f.bind = "block.x", "device") EXCEPT !.exchange = "collective"])

SearchEdits(S) == {editEngineTensorOp(S), editRestage2(S), editSimdSplit(S, 2), editSimdSplit(S, 4),
                   editDeviceStream(S), editGuardedZeroPage(S)}

-----------------------------------------------------------------------------
(* Schedules as text.  A kernel's name is a sequence of words: the reader    *)
(* takes the first for the name and expects why= to follow.                  *)

dump(S) ==
  LET Lines(s) == <<[line |-> "stage", engine |-> s.engine, exchange |-> s.exchange, prefetch |-> s.prefetch,
                     predicate |-> s.predicate, threadScale |-> s.threadScale, smem |-> s.smem]>>
               \o [i \in DOMAIN s.factors |-> [line |-> "split", factor |-> s.factors[i]]]
               \o (IF s.order = <<>> THEN <<>> ELSE <<[line |-> "order", names |-> s.order]>>)
               \o [i \in DOMAIN s.storage |-> [line |-> "storage", storage |-> s.storage[i]]]
  IN <<[line |-> "schedule", words |-> S.kernel, why |-> S.why]>>
     \o FlattenSeq([i \in DOMAIN S.stages |-> Lines(S.stages[i])])

\* An unknown engine, exchange, prefetch or predicate leaves the default;
\* an unknown bind or storage, or a factor before any stage, is an error.
parseLine(r, l) ==
  LET n == Len(r.S.stages)
      Known(tok, all, default) == IF tok \in all THEN tok ELSE default
      Err == [r EXCEPT !.ok = FALSE]
  IN CASE ~r.ok -> r
       [] l.line = "schedule" ->
            [r EXCEPT !.S.kernel = <<Head(l.words)>>, !.S.why = IF Len(l.words) = 1 THEN l.why ELSE ""]
       [] l.line = "stage" ->
            [r EXCEPT !.S.stages = Append(@, [NewStage EXCEPT
               !.engine = Known(l.engine, Engines, "scalar-fma"), !.exchange = Known(l.exchange, Exchanges, "none"),
               !.prefetch = Known(l.prefetch, Prefetches, "at-use"),
               !.predicate = Known(l.predicate, Predicates, "branch"),
               !.threadScale = l.threadScale, !.smem = l.smem])]
       [] n = 0 -> Err
       [] l.line = "split" ->
            IF l.factor.bind \in Binds THEN [r EXCEPT !.S.stages[n].factors = Append(@, l.factor)] ELSE Err
       [] l.line = "order" -> [r EXCEPT !.S.stages[n].order = @ \o l.names]
       [] l.line = "storage" ->
            IF l.storage.kind \in Storages THEN [r EXCEPT !.S.stages[n].storage = Append(@, l.storage)] ELSE Err
       [] OTHER -> Err

parse(lines) ==
  LET r == FoldLeft(parseLine, [ok |-> TRUE, S |-> [kernel |-> <<>>, why |-> "", stages |-> <<>>]], lines)
  IN [r EXCEPT !.ok = r.ok /\ r.S.stages # <<>>]

-----------------------------------------------------------------------------
(* Cost: the larger of the memory, tensor and scalar times, plus barriers;   *)
(* eightfold when a threadgroup ring spills.                                 *)

costOf(P, S) ==
  LET stages == DOMAIN S.stages
      st(i) == S.stages[i]
      Rings(i) == {a \in Range(st(i).storage) : a.kind = "threadgroup"}
      Count(Q(_)) == Cardinality({i \in stages : Q(i)})
      anySmem == \E i \in stages : Rings(i) # {}
      smem == Max({0} \cup {st(i).smem : i \in stages}
                  \cup (IF anySmem \/ \E i \in stages : st(i).exchange = "threadgroup-buffer" THEN {8192} ELSE {}))
      bytes == IF \E i \in stages : \E a \in Range(st(i).storage) : a.kind = "device" THEN 128 * P.samples ELSE 0
      tensor == (Count(LAMBDA i : st(i).engine = "tensor-op") * 131072 * Max({smem \div 1024, 16})) \div 592
      scalar == 100 * (P.samples * Count(LAMBDA i : st(i).engine = "scalar-fma")
                       + 32 * Count(LAMBDA i : st(i).exchange = "shuffle-tree"))
      barriers == 2 * Count(LAMBDA i : st(i).exchange = "threadgroup-buffer")
                  + Count(LAMBDA i : st(i).smem # 0 \/ \E j \in 1..i : Rings(j) # {})
  IN (Max({bytes, tensor, scalar}) + 200000 * barriers) * (IF anySmem /\ smem > 32768 THEN 8 ELSE 1)

-----------------------------------------------------------------------------
(* Legality: the numbers of the obligations that fail. *)

ParallelBinds == {"lane", "simdgroup", "block.x", "block.y", "block.z", "launch", "device"}
permits(P, what) == DataLoops(P) # {} /\ Granted(P, what)
IsReduction(P, f) == f.coord \in DOMAIN P.coords /\ ~P.coords[f.coord].out
Replicates(s) == \E f \in Range(s.factors) : f.bind = "replicate"

Covers(P, s) ==
  \A c \in DOMAIN P.coords : \E f \in Range(s.factors) : f.coord = c /\ f.bind # "replicate"
\* Mutant: partial results are exchanged whatever the recurrence allows.
CombinesPartialsUnasked(P, s) ==
  \A f \in Range(s.factors) : IsReduction(P, f) /\ f.bind \in ParallelBinds => s.exchange # "none"
CombinesPartials(P, s) ==
  \A f \in Range(s.factors) :
     IsReduction(P, f) /\ f.bind \in ParallelBinds =>
       /\ permits(P, "partition")
       /\ s.exchange # "none"
       /\ s.exchange = "atomic" => Algebras(P) \cap {"sum", "and", "or", "xor"} # {}
SharesTime(S, s) ==
  \A o \in s.fusedWith :
     /\ o \in DOMAIN S.stages
     /\ \/ Range(s.order) \cap Range(S.stages[o].order) # {}
        \/ s.order = <<>> \/ S.stages[o].order = <<>>
KeepsNumbers(P, s) ==
  /\ s.engine = "tensor-op" => Algebras(P) \cap {"sum", "tensor-sum"} # {}
  /\ (\E f \in Range(s.factors) : IsReduction(P, f) /\ f.bind = "unroll") => permits(P, "reorder")

check(P, S) ==
  LET Every(Q(_)) == \A s \in Range(S.stages) : Q(s)
      holds == [n \in {1, 2, 3, 4, 5, 6, 7, 8, 10, 13} |->
        CASE n = 1 -> Every(LAMBDA s : Covers(P, s))
          [] n = 2 -> Every(LAMBDA s : Replicates(s) => permits(P, "duplicate"))
          [] n = 3 -> Every(LAMBDA s : CombinesPartials(P, s))
          [] n = 4 -> Every(LAMBDA s : SharesTime(S, s))
          [] n = 5 -> P.effects => Every(LAMBDA s : ~Replicates(s))
          [] n = 6 -> P.guards => Every(LAMBDA s : s.predicate # "none")
          [] n = 7 -> Every(LAMBDA s : KeepsNumbers(P, s))
          [] n = 8 -> Every(LAMBDA s : s.smem <= 32768 /\ s.threadScale <= 32)
          [] n = 10 -> ~P.unfitted
          [] n = 13 -> P.precision \in {"inherit", "explicit-budget"}]
  IN IF ~wellFormed(P, S) THEN {1} ELSE {n \in DOMAIN holds : ~holds[n]}

-----------------------------------------------------------------------------
(* Search and choice. *)

Candidate(S) == [S |-> S, cost |-> costOf(prog, S)]
NoChoice == [S |-> [kernel |-> <<>>, why |-> "", stages |-> <<>>], cost |-> 0, failed |-> {}]

SInit ==
  /\ prog \in KernelPrograms /\ db \in Databases
  /\ searchPhase = "search" /\ depth = 0
  /\ frontier = {sourceSchedule(prog)}
  /\ found = {Candidate(S) : S \in {S \in frontier : wellFormed(prog, S)}}
  /\ todo = {} /\ best = NoChoice /\ dbHit = FALSE

\* One more round of the six edits on every schedule of the last round.
candidates ==
  /\ searchPhase = "search" /\ depth < Depth
  /\ frontier' = UNION {SearchEdits(S) : S \in frontier}
  /\ found' = found \cup {Candidate(S) : S \in {S \in frontier' : wellFormed(prog, S)}}
  /\ depth' = depth + 1
  /\ UNCHANGED <<prog, db, searchPhase, todo, best, dbHit>>

\* Sorted by cost, equal costs in any order; cut to Width; the source put back
\* in the last place if it was cut off.
Cheapest(C) ==
  LET k == Min({Width, Cardinality(C)})
      sure == {c \in C : Cardinality({d \in C : d.cost <= c.cost}) <= k}
      ties == {c \in C \ sure : Cardinality({d \in C : d.cost < c.cost}) < k}
  IN {sure \cup T : T \in kSubset(k - Cardinality(sure), ties)}
Rank ==
  /\ searchPhase = "search" /\ depth = Depth
  /\ \E kept \in Cheapest(found) :
       LET src == Candidate(sourceSchedule(prog))
           last == {c \in kept : \A d \in kept : d.cost <= c.cost}
       IN IF \/ \E c \in kept : c.S.why = "source"
             \/ ~wellFormed(prog, src.S)
          THEN todo' = kept
          ELSE IF Cardinality(kept) = Width THEN \E c \in last : todo' = (kept \ {c}) \cup {src}
          ELSE todo' = kept \cup {src}
  /\ searchPhase' = "judge" /\ found' = {} /\ frontier' = {}
  /\ UNCHANGED <<prog, db, depth, best, dbHit>>

dbPreferredWhy == db.prefer
dbMeasured(c, b) == {c.S.why, b.S.why} \subseteq DOMAIN db.measured
\* What a measurement adds to the estimate; it counts only when both sides were measured.
dbResidual(c, b) == IF dbMeasured(c, b) THEN db.measured[c.S.why] - c.cost ELSE 0
\* Mutant: of two that cost the same the one looked at last is taken.
CheaperOrSame(c, b) == c.cost + dbResidual(c, b) <= b.cost + dbResidual(b, c)
Cheaper(c, b) ==
  LET sC == c.cost + dbResidual(c, b)
      sB == b.cost + dbResidual(b, c)
  IN sC < sB \/ (sC = sB /\ c.S.why = "source")

\* One pass of the loop: an illegal candidate is skipped, the first legal one
\* taken, then one the database asks for, then a cheaper one.
choose ==
  /\ searchPhase = "judge"
  /\ \E c \in todo :
       LET failed == check(prog, c.S)
           have == best # NoChoice
           thisDb == dbPreferredWhy # "" /\ c.S.why = dbPreferredWhy
           take == \/ ~have
                   \/ thisDb /\ ~dbHit
                   \/ thisDb = dbHit /\ Cheaper(c, best)
       IN /\ \A d \in todo : c.cost <= d.cost
          /\ todo' = todo \ {c}
          /\ IF failed = {} /\ take
             THEN best' = [S |-> c.S, cost |-> c.cost, failed |-> failed] /\ dbHit' = thisDb
             ELSE UNCHANGED <<best, dbHit>>
  /\ UNCHANGED <<prog, db, searchPhase, depth, frontier, found>>

Choice(S) == [S |-> S, cost |-> costOf(prog, S), failed |-> check(prog, S)]
Chosen ==
  /\ searchPhase = "judge" /\ todo = {} /\ searchPhase' = "done"
  /\ best' = IF best # NoChoice THEN best ELSE Choice(sourceSchedule(prog))
  /\ UNCHANGED <<prog, db, depth, frontier, found, todo, dbHit>>

\* A schedule the user wrote, instead of the search; unreadable text changes
\* nothing.
stirIn ==
  /\ searchPhase = "search" /\ depth = 0
  /\ \E lines \in Texts(prog, sourceSchedule(prog)) :
       LET r == parse(lines)
       IN r.ok /\ best' = Choice(r.S)
  /\ searchPhase' = "done"
  /\ UNCHANGED <<prog, db, depth, frontier, found, todo, dbHit>>

SNext == candidates \/ Rank \/ choose \/ Chosen \/ stirIn
SSpec == SInit /\ [][SNext]_scvars

planEmit == searchPhase = "done" /\ best.failed = {}

-----------------------------------------------------------------------------
(* Properties. *)

\* The fold a loop's algebra stands for, over the two terms 1 and 2, and the
\* values a scheduled execution may end with: an unrolled reduction runs in any
\* order, a replicated factor runs every iteration twice, a parallel one leaves
\* two partial results, of which one survives without an exchange.
Step(alg, x, v) == IF alg = "max" THEN Max({x, v}) ELSE IF alg = "order-sensitive" THEN 2 * x + v ELSE x + v
FoldTerms(alg, seq) == FoldLeft(LAMBDA x, v : Step(alg, x, v), 0, seq)
Outcomes(alg, P, s) ==
  LET On(binds) == \E f \in Range(s.factors) : IsReduction(P, f) /\ f.bind \in binds
      orders == IF On({"unroll"}) THEN {<<1, 2>>, <<2, 1>>} ELSE {<<1, 2>>}
      twice == IF Replicates(s) THEN {<<q[1], q[1], q[2], q[2]>> : q \in orders} \cup {q \o q : q \in orders}
               ELSE orders
      Part(v) == FoldTerms(alg, IF Replicates(s) THEN <<v, v>> ELSE <<v>>)
  IN IF ~On(ParallelBinds) THEN {FoldTerms(alg, q) : q \in twice}
     ELSE IF s.exchange = "none" THEN {Part(1), Part(2)}
     ELSE {Step(alg, Part(1), Part(2)), Step(alg, Part(2), Part(1))}

\* A schedule that passes legality and is planned for emission computes what
\* the source loop computes, whether the search or a file supplied it.
EmitsSameValue ==
  planEmit =>
    \A alg \in UNION {l.algebra : l \in DataLoops(prog)}, s \in Range(best.S.stages) :
       Outcomes(alg, prog, s) = {FoldTerms(alg, <<1, 2>>)}

\* The search never does worse than the source: when the source schedule is
\* legal, the choice is legal, and costs no more than the source unless the
\* measurements (MVCC_SCHED_DB) said otherwise, and a tie is the source's.
NeverWorseThanSource ==
  LET src == sourceSchedule(prog)
  IN searchPhase = "done" /\ depth = Depth /\ check(prog, src) = {} =>
       /\ best.failed = {}
       /\ db.prefer = "" /\ DOMAIN db.measured = {} =>
            \/ best.S = src
            \/ best.cost < costOf(prog, src)

\* What is written to a schedule file and read back passes and fails the same
\* obligations, and does the same under the same cost.
TextKeepsMeaning ==
  \A c \in found :
    LET r == parse(dump(c.S))
    IN /\ r.ok
       /\ r.S.stages = c.S.stages
       /\ check(prog, r.S) = check(prog, c.S)

\* What the search settles on stands: it is no worse than the source, and every
\* candidate means the same once it was written to a file and read back.
ChoiceStands == NeverWorseThanSource /\ TextKeepsMeaning
=============================================================================
