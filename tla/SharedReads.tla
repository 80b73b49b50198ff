---------------------------- MODULE SharedReads ----------------------------
(***************************************************************************)
(* How the symbolic executor (symexec.cpp) decides what a read of shared   *)
(* memory returns.  The executor runs the threads of a block one AFTER     *)
(* another, each from the first instruction to the last, and records every *)
(* write and read of a shared byte with the path condition it happens      *)
(* under, the number of barriers passed (phase) and a sequence number;     *)
(* resolve() then matches each read with the writes it can see.  The block *)
(* really runs its threads together, ordered only by the barriers.         *)
(*                                                                         *)
(* One shared byte is followed.  A program is three lists of operations:   *)
(* before the loop, the body of the loop, after it.  In retile mode the    *)
(* body is executed iterCount times; in epilogue mode the loop is skipped  *)
(* and only what follows is recorded.                                      *)
(*                                                                         *)
(* Path conditions are exact here, so that no part of what is left of a    *)
(* read's condition lies on a path its thread had left by a return, and    *)
(* every store is at a known offset.  A byte left uncovered is reported;   *)
(* that nothing stored to device memory needs it is asked by the caller.   *)
(***************************************************************************)
EXTENDS Integers, Sequences, FiniteSets, FiniteSetsExt, SequencesExt, Functions

CONSTANTS T,          \* the threads of the block are 1 .. T
          iterCount,  \* iterations of the loop that are executed
          Programs,   \* the programs considered
          Modes       \* which modes: TRUE is retile, FALSE the epilogue

ThreadIds == 1..T

\* A condition is a disjunction of clauses, a clause a conjunction of literals <<variable, value>>.  What the
\* arena's constructors do to conditions is the subject of module Conditions; here they keep the meaning.
TrueC == {{}}
FalseC == {}
Opposite(l) == <<l[1], ~l[2]>>
Clash(C) == \E l \in C : Opposite(l) \in C
Absorb(x) == {C \in x : ~Clash(C) /\ ~\E D \in x : D # C /\ D \subseteq C}
andC(x, y) == Absorb({C \cup D : C \in x, D \in y})
notC(x) == FoldSet(LAMBDA C, acc : andC(acc, {{Opposite(l)} : l \in C}), TrueC, x)
impliesC(x, y) == \A C \in x : \E D \in y : D \subseteq C
disjointC(x, y) == \A C \in x, D \in y : Clash(C \cup D)
conjuncts(x) == IF Cardinality(x) = 1 THEN {{{l}} : l \in UNION x} ELSE {x}
givenC(c, ctx) ==
    LET known == {l \in UNION ctx : \A C \in ctx : l \in C}
    IN  Absorb({C \ known : C \in {D \in c : ~Clash(D \cup known)}})
HoldsC(c, env) == \E C \in c : \A l \in C : env[l[1]] = l[2]

\* A variable is an argument ("arg": the same for every thread and iteration), a value of the loop ("loop", one
\* per iteration), a value of one thread ("data"), or whether the loop goes on after an iteration ("stay").
Variable(kind, t, it) == <<kind, IF kind = "data" THEN t ELSE -1, IF kind \in {"loop", "stay"} THEN it ELSE -1>>
Variables == {Variable(k, t, it) : k \in {"arg", "loop", "data", "stay"}, t \in ThreadIds, it \in 0..(iterCount - 1)}
Environments == [Variables -> BOOLEAN]
When(o, t) == {{<<Variable(l[1], t, o.it), l[2]>> : l \in o.when}}

argsOnly(c) == \A l \in UNION c : l[1][1] = "arg"
uniformAcrossBlock(c) == \A l \in UNION c : l[1][1] # "data"

At(ops, it, sec) == [k \in 1..Len(ops) |-> ops[k] @@ [it |-> it, sec |-> sec, site |-> k]]
Marker(op, it, sec) == <<[op |-> op, it |-> it, sec |-> sec, site |-> 0]>>

\* The instructions one thread executes: the iterated loop is left in its last iteration only.
iterLoop(body) ==
    FoldLeft(LAMBDA s, it : s \o At(body, it, "body") \o Marker(IF it = iterCount - 1 THEN "exit" ELSE "stay", it, "body"),
             <<>>, [k \in 1..iterCount |-> k - 1])
skipLoop == Marker("skip", 0, "body")
Instructions(p, retile) ==
    At(p.pre, 0, "pre") \o (IF retile THEN iterLoop(p.body) ELSE skipLoop) \o At(p.post, 0, "post")

VARIABLES program, retile, done, writes, reads, why, resolved, assumptions, uncovered

srvars == <<program, retile, done, writes, reads, why, resolved, assumptions, uncovered>>

\* What a write puts there: a constant zero, or a value of its own named by the instruction that made it.
Zero == <<"zero", 0, 0, 0>>
Unwritten == <<"unwritten", 0, 0, 0>>
Stored(o, t) == IF o.val = "zero" THEN Zero ELSE <<o.sec, o.site, o.it, t>>

isConstant(v) == v = Zero
crossesLanes(o) == o.val = "lane"

\* The executor's state while it runs one thread: path condition, barrier phase, sequence number.
storeBytes(st, o, t, R) ==
    IF ~retile /\ ~st.afterSkip THEN st
    ELSE [st EXCEPT !.seq = @ + 1,
                    !.writes = Append(@, [cond |-> R, phase |-> st.phase, t |-> t, seq |-> st.seq, val |-> Stored(o, t),
                                          lane |-> crossesLanes(o), key |-> <<o.sec, o.site, o.it>>])]

\* In the epilogue a load takes the last write recorded so far that a barrier separates from it.
Folded(st) ==
    LET before == {k \in DOMAIN st.writes : st.writes[k].phase < st.phase}
    IN  IF retile \/ before = {} THEN <<>> ELSE <<st.writes[Max(before)].val>>
loadBytes(st, o, t, R) ==
    IF ~retile /\ ~st.afterSkip THEN st
    ELSE [st EXCEPT !.seq = @ + 1,
                    !.reads = Append(@, [cond |-> R, phase |-> st.phase, t |-> t, seq |-> st.seq,
                                         folded |-> Folded(st), key |-> <<o.sec, o.site, o.it>>])]

\* `if (when) return`: what follows runs under the rest of the path condition.
Return(st, o, t, R) ==
    IF ~retile /\ R # TrueC /\ ~uniformAcrossBlock(R) THEN [st EXCEPT !.why = "return"]
    ELSE [st EXCEPT !.R = andC(@, notC(When(o, t)))]

Barrier(st, R) ==
    IF ~retile /\ R # TrueC /\ ~uniformAcrossBlock(R) THEN [st EXCEPT !.why = "barrier"] ELSE [st EXCEPT !.phase = @ + 1]

evalInst(st, o, t) ==
    LET stay == <<Variable("stay", t, o.it), TRUE>>
        R == andC(st.R, IF o.site = 0 THEN TrueC ELSE When(o, t))
    IN  CASE st.why # "" -> st
          [] o.op = "stay" -> [st EXCEPT !.R = andC(@, {{stay}})]
          [] o.op = "exit" -> [st EXCEPT !.R = andC(@, {{Opposite(stay)}})]
          [] o.op = "skip" -> [st EXCEPT !.afterSkip = TRUE, !.phase = @ + 1]
          [] o.site # 0 /\ (R = FalseC \/ t \notin o.who) -> st
          [] o.op = "store" -> storeBytes(st, o, t, R)
          [] o.op = "load" -> loadBytes(st, o, t, R)
          [] o.op = "barrier" -> Barrier(st, R)
          [] o.op = "ret" -> Return(st, o, t, R)

\* run / runRetile: one thread, from an empty path condition, on top of what the threads before it recorded.
Run ==
    /\ done < T /\ why = ""
    /\ \E st \in {FoldLeft(LAMBDA s, o : evalInst(s, o, done + 1),
                           [R |-> TrueC, phase |-> 0, seq |-> 0, afterSkip |-> FALSE, why |-> "",
                            writes |-> writes, reads |-> reads],
                           Instructions(program, retile))} :
         writes' = st.writes /\ reads' = st.reads /\ why' = st.why
    /\ done' = done + 1
    /\ UNCHANGED <<program, retile, resolved, assumptions, uncovered>>

-----------------------------------------------------------------------------

\* resolve().  The writes in program order: by phase, then by sequence number, then as recorded.
Before(a, b) ==
    \/ writes[a].phase < writes[b].phase
    \/ writes[a].phase = writes[b].phase /\ writes[a].seq < writes[b].seq
    \/ writes[a].phase = writes[b].phase /\ writes[a].seq = writes[b].seq /\ a < b
Latest(S) == CHOOSE a \in S : \A b \in S : b = a \/ Before(b, a)

\* Mutant: a later write of the reading thread is among them.
CandidatesLater(r) == {k \in DOMAIN writes : writes[k].phase <= r.phase}
\* Writes a read may see at all, and whether a write is ordered before it.
Candidates(r) ==
    {k \in DOMAIN writes : /\ writes[k].phase <= r.phase
                           /\ ~(writes[k].phase = r.phase /\ writes[k].t = r.t /\ writes[k].seq >= r.seq)}
IsOrdered(k, r) == writes[k].phase < r.phase \/ writes[k].t = r.t

Value(chain) == [how |-> "value", chain |-> chain]
Seen(k) == Value(<<[cond |-> TrueC, val |-> writes[k].val]>>)
Answer(res, as, un) == [res |-> res, as |-> as, un |-> un]
Race == Answer([how |-> "race"], {}, {})

\* The latest write's condition where the read's does not imply it, if it speaks of the arguments alone.
Difference(r, k) == conjuncts(writes[k].cond) \ conjuncts(r.cond)
Conjunction(S) == FoldSet(LAMBDA l, acc : andC(acc, l), TrueC, S)

\* An earlier store of a constant covers the read: a selection of the program, not a condition to assume.
ConstantBefore(r, k) ==
    LET earlier == {q \in DOMAIN writes \ {k} :
                       /\ writes[q].phase <= writes[k].phase
                       /\ writes[q].phase = writes[k].phase => writes[q].t = writes[k].t /\ writes[q].seq < writes[k].seq
                       /\ isConstant(writes[q].val)}
    IN  earlier # {} /\ impliesC(r.cond, writes[Latest(earlier)].cond)

\* Latest write first, until the conditions of the writes cover the read's: the writes used, what is left of the
\* read's condition, and whether a write not ordered before the read could hold too.
Covering(r) ==
    FoldLeft(LAMBDA c, k :
               CASE c.race \/ c.rem = FalseC \/ disjointC(c.rem, writes[k].cond) -> c
                 [] ~IsOrdered(k, r) -> [c EXCEPT !.race = TRUE]
                 [] OTHER -> [c EXCEPT !.by = Append(@, k),
                                       !.rem = IF impliesC(@, writes[k].cond) THEN FalseC ELSE andC(@, notC(writes[k].cond))],
             [by |-> <<>>, rem |-> r.cond, race |-> FALSE],
             SetToSortSeq(Candidates(r), LAMBDA a, b : Before(b, a)))

\* The selection over the writes used; the last one is the default, or zero where nothing was written.
Selection(r, by) ==
    [j \in DOMAIN by |-> [cond |-> IF retile THEN givenC(writes[by[j]].cond, r.cond) ELSE writes[by[j]].cond,
                          val |-> writes[by[j]].val]]
CoveredBy(r, c) ==
    CASE c.race -> Race
      [] ~c.race /\ c.rem # FalseC ->
            Answer(Value(Append(Selection(r, c.by), [cond |-> TrueC, val |-> Zero])), {}, {c.rem})
      [] OTHER -> Answer(Value([Selection(r, c.by) EXCEPT ![Len(c.by)].cond = TrueC]), {}, {})
CoverAnswer(r) == CoveredBy(r, Covering(r))

\* In the epilogue the latest write of an earlier phase is taken, whatever its condition.
EpilogueAnswer(r) ==
    LET before == {k \in DOMAIN writes : writes[k].phase < r.phase}
    IN  IF before # {} THEN Answer(Seen(Latest(before)), {}, {}) ELSE CoverAnswer(r)

\* In retile mode the latest write that can hold together with the read is taken if the read's condition implies
\* its own, or if the difference can be assumed of the launch.
Assumable(r, k) == (\A l \in Difference(r, k) : argsOnly(l)) /\ ~ConstantBefore(r, k)
Assumption(r, k) == [P |-> Conjunction({l \in conjuncts(r.cond) : argsOnly(l)}), D |-> Conjunction(Difference(r, k))]
AnswerBy(r, k) ==
    CASE ~IsOrdered(k, r) -> Race
      [] IsOrdered(k, r) /\ writes[k].lane -> Answer([how |-> "stays"], {}, {})
      [] OTHER -> IF impliesC(r.cond, writes[k].cond) THEN Answer(Seen(k), {}, {})
                  ELSE IF Assumable(r, k) THEN Answer(Seen(k), {Assumption(r, k)}, {})
                       ELSE CoverAnswer(r)
AnswerAmong(r, able) == IF able = {} THEN CoverAnswer(r) ELSE AnswerBy(r, Latest(able))
RetileAnswer(r) == AnswerAmong(r, {k \in Candidates(r) : ~disjointC(r.cond, writes[k].cond)})

AnswerFor(r) ==
    IF retile THEN RetileAnswer(r)
    ELSE IF r.folded # <<>> THEN Answer(Value(<<[cond |-> TrueC, val |-> r.folded[1]]>>), {}, {})
         ELSE EpilogueAnswer(r)

ResolveReads ==
    /\ done = T /\ why = "" /\ resolved = <<>> /\ reads # <<>>
    /\ \E answers \in {[j \in DOMAIN reads |-> AnswerFor(reads[j])]} :
         IF \E j \in DOMAIN reads : answers[j].res.how = "race"
         THEN why' = "race" /\ UNCHANGED <<resolved, assumptions, uncovered>>
         ELSE /\ resolved' = [j \in DOMAIN reads |-> answers[j].res]
              /\ assumptions' = UNION {answers[j].as : j \in DOMAIN reads}
              /\ uncovered' = [j \in DOMAIN reads |-> answers[j].un]
              /\ why' = why
    /\ UNCHANGED <<program, retile, done, writes, reads>>

SRInit ==
    /\ program \in Programs /\ retile \in Modes
    /\ done = 0 /\ writes = <<>> /\ reads = <<>> /\ why = ""
    /\ resolved = <<>> /\ assumptions = {} /\ uncovered = <<>>

SRNext == Run \/ ResolveReads

SRSpec == SRInit /\ [][SRNext]_srvars

-----------------------------------------------------------------------------
\* What the block does in an environment: every thread's accesses, with the barriers it has really passed.  The
\* loop runs while "stay" holds; past iterCount iterations nothing more is followed.

Real(p, t, env) ==
    FoldLeft(LAMBDA st, o :
               CASE st.gone -> st
                 [] o.op = "stay" -> [st EXCEPT !.gone = ~env[Variable("stay", t, o.it)]]
                 [] o.op = "exit" -> [st EXCEPT !.gone = env[Variable("stay", t, o.it)]]
                 [] o.site # 0 /\ (t \notin o.who \/ ~HoldsC(When(o, t), env)) -> st
                 [] o.op = "barrier" -> [st EXCEPT !.phase = @ + 1]
                 [] o.op = "ret" -> [st EXCEPT !.gone = TRUE]
                 [] OTHER -> [st EXCEPT !.acc = Append(@, [op |-> o.op, t |-> t, phase |-> st.phase, key |-> <<o.sec, o.site, o.it>>,
                                                           val |-> IF o.op = "store" THEN Stored(o, t) ELSE Unwritten])],
             [gone |-> FALSE, phase |-> 0, acc |-> <<>>], Instructions(p, TRUE)).acc

Conflict(a, b) == a.t # b.t /\ a.phase = b.phase /\ "store" \in {a.op, b.op}
RaceFree(acc) == \A t, u \in ThreadIds : \A a \in Range(acc[t]), b \in Range(acc[u]) : ~Conflict(a, b)

\* The value a read returns: the last store ordered before it, its own or an earlier phase's.
Returned(acc, t, j) ==
    LET r == acc[t][j]
        own == {k \in 1..(j - 1) : acc[t][k].op = "store" /\ acc[t][k].phase = r.phase}
        earlier == {<<u, k>> \in UNION {{u} \X DOMAIN acc[u] : u \in ThreadIds} : acc[u][k].op = "store" /\ acc[u][k].phase < r.phase}
        last == CHOOSE w \in earlier : \A v \in earlier : \/ acc[v[1]][v[2]].phase < acc[w[1]][w[2]].phase
                                                          \/ acc[v[1]][v[2]].phase = acc[w[1]][w[2]].phase /\ v[2] <= w[2]
    IN  IF own # {} THEN acc[t][Max(own)].val ELSE IF earlier # {} THEN acc[last[1]][last[2]].val ELSE Unwritten

Evaluated(res, env) ==
    LET j == CHOOSE j \in DOMAIN res.chain : HoldsC(res.chain[j].cond, env) /\ \A i \in 1..(j - 1) : ~HoldsC(res.chain[i].cond, env)
    IN  res.chain[j].val
Assumed(env) == \A a \in assumptions : HoldsC(a.P, env) => HoldsC(a.D, env)

\* The epilogue takes a write as it is (EpilogueAnswer, Folded): the write a read was given was really made.
WasMade(val, env) == \E k \in DOMAIN writes : writes[k].val = val /\ HoldsC(writes[k].cond, env)

\* A load of shared memory is resolved to the value the block reads: in every race-free execution that meets the
\* assumptions recorded for the launch, the expression resolve() gives a read evaluates to the value of the last
\* barrier-ordered write, unless the read was reported as uncovered there or left in shared memory, or, in the
\* epilogue, is reached where the write it was given is not.
ReadsResolved ==
    resolved # <<>> =>
      \A env \in Environments :
        LET acc == FoldLeft(LAMBDA s, t : Append(s, Real(program, t, env)), <<>>, [t \in ThreadIds |-> t])
        IN  (Assumed(env) /\ RaceFree(acc)) =>
              \A t \in ThreadIds : \A j \in DOMAIN acc[t] : acc[t][j].op = "load" =>
                \A i \in DOMAIN reads :
                  /\ reads[i].t = t /\ reads[i].key = acc[t][j].key /\ resolved[i].how = "value"
                  /\ \A u \in uncovered[i] : ~HoldsC(u, env)
                  /\ retile \/ WasMade(Evaluated(resolved[i], env), env)
                  => Evaluated(resolved[i], env) = Returned(acc, t, j)

=============================================================================
