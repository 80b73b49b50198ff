------------------------------ MODULE MCAnalysis -----------------------------
(* What is computed about a kernel before it is rewritten, one analysis at a time: schedules, coordinates,       *)
(* recurrences, conditions and the reads of shared memory.  The variables of the others keep an idle value.      *)
EXTENDS MCSchedules, Coordinates, Recurrences, Conditions, SharedReads

------------------------------------------------------------------------------
(* Kernels for Coordinates: a store with a choice of affine addresses, and a load that is affine, clamped,       *)
(* wrapped, or goes through a quotient or a loaded index; and sites under comparisons.                           *)
P(one, n, nb) == PlusP(Const(one), NonZero([t \in {Param("N"), Param("NB")} |-> IF t = Param("N") THEN n ELSE nb]))
Affine(base, s1, s2, s3) ==
  [x \in Points |-> PlusP(base, PlusP(TimesP(x[1], s1), PlusP(TimesP(x[2], s2), TimesP(x[3], s3))))]
Through(f, shape, k, Of(_)) == [x \in Points |-> PlusP(f[x], [t \in {OpaqueNode(shape, Of(x))} |-> k])]
Guard(pred, lhs) == [pred |-> pred, lhs |-> lhs]
GuardedSite(store, f, gs) == [store |-> store, bytes |-> 8, elem |-> 4, addr |-> f, guards |-> gs]
Site(store, f) == GuardedSite(store, f, {})

Base == P(8, 0, 4)
Strides == {P(0, 0, 0), P(4, 0, 0), P(-8, 4, 0)}
Simple == Affine(P(0, 0, 4), P(16, 0, 0), P(4, 0, 0), P(0, 4, 0))

Stores == {Affine(Base, P(16, 0, 0), s2, s3) : s2 \in Strides, s3 \in {P(0, 0, 0), P(6, 0, 0)}}
          \cup {Affine(Base, P(0, 0, 0), P(4, 0, 0), P(0, 0, 0))}
Loads == {Affine(Base, s1, s2, s3) : s1 \in Strides, s2 \in {P(4, 0, 0), P(0, 8, 0)}, s3 \in Strides \ {P(-8, 4, 0)}}
         \cup {[x \in Points |-> P(4 * (IF x[2] = 0 THEN 1 ELSE x[2]) * (x[1] + 1), 0, 0)],
               [x \in Points |-> P(4 * ((x[1] + x[3]) % 2), 0, 0)],
               [x \in Points |-> P(4 * x[2] + (IF x[1] > 0 THEN 64 ELSE 0), 0, 0)]}
         \cup {Through(Simple, "div", 4, LAMBDA x : x[2]), Through(Simple, "div", 4, LAMBDA x : 3),
               Through(Simple, "div", 8, LAMBDA x : x[2] + x[3]), Through(Simple, "load", 4, LAMBDA x : x[1] + 1),
               \* a row pitch that is a quotient of launch parameters; an index read by the upper simdgroups only;
               \* two indices, of which the second is the same everywhere
               [x \in Points |-> PlusP(Simple[x], TimesP(4 * x[2], [t \in {OpaqueNode("div", 3)} |-> 1]))],
               [x \in Points |-> IF x[1] = 0 THEN Simple[x] ELSE PlusP(Simple[x], [t \in {OpaqueNode("load", x[2] + 1)} |-> 4])],
               Through(Through(Simple, "load", 4, LAMBDA x : x[1] + 1), "div", 8, LAMBDA x : 5)}

\* GuardSets: affine, with a coefficient that vanishes at lane 0, clamped, of a quotient, and two of one predicate.
Limit == P(0, -1, 0)
GuardSets ==
  {{Guard("slt", Affine(Limit, P(12, 0, 0), P(4, 0, 0), P(0, 0, 0)))},
   {Guard("slt", Affine(Limit, P(0, 0, 0), P(0, 1, 0), P(4, 0, 0)))},
   {Guard("slt", [x \in Points |-> P(IF x[2] = 2 THEN 1 ELSE x[2], -1, 0)])},
   {Guard("slt", Through(Affine(Limit, P(0, 0, 0), P(1, 0, 0), P(0, 0, 0)), "div", 1, LAMBDA x : x[2])),
    Guard("ult", Through(Affine(Limit, P(3, 0, 0), P(1, 0, 0), P(0, 0, 0)), "div", 1, LAMBDA x : 3))},
   {Guard("slt", Affine(Limit, P(0, 0, 0), P(1, 0, 0), P(0, 0, 0))), Guard("slt", Affine(Limit, P(0, 0, 0), P(4, 0, 0), P(2, 0, 0)))}}
GuardedLoads == {Affine(Base, P(4, 0, 0), P(0, 8, 0), P(0, 0, 0)), Through(Simple, "div", 4, LAMBDA x : x[2])}

MCKernels ==
  {<<Site(TRUE, f), Site(FALSE, g)>> : f \in Stores, g \in Loads}
  \cup {<<Site(TRUE, Simple), Site(FALSE, Through(Simple, "div", 4, LAMBDA x : x[2])),
          Site(FALSE, Through(Simple, "div", k, LAMBDA x : x[2] + c))>> : k \in {4, 8}, c \in {0, 1, 5}}
  \cup {<<GuardedSite(TRUE, f, gs), GuardedSite(FALSE, g, hs)>> :
          f \in {Simple, Affine(Base, P(0, 0, 0), P(4, 0, 0), P(0, 0, 0))}, g \in GuardedLoads,
          gs \in GuardSets, hs \in {{}} \cup GuardSets}

------------------------------------------------------------------------------
(* The tests a program makes, for Conditions: a flag, and comparisons of each kind of polynomial atom, on values  *)
(* on both sides of every bound; and the one a selection tests.                                                  *)
Src(pred, at, k, c, q) == [pred |-> pred, at |-> at, k |-> k, c |-> c, q |-> q]
MCSources == {Src("is", "p", 0, 0, 0), Src("ge", "x", -2, 2, 0), Src("eq", "x", 1, 0, 2),
              Src("ne", "min", 1, 0, 2), Src("gt", "div", 1, 0, 0), Src("ult", "x", 1, -1, 2), Src("le", "max", 1, 0, 2)}
MCSelectors == {Src("ult", "x", 1, -1, 2)}
MCXs == -3..4

------------------------------------------------------------------------------
(* Programs for SharedReads: two threads, a loop probed twice; up to four operations.                             *)
Store(val, who, when) == [op |-> "store", val |-> val, who |-> who, when |-> when]
Load(who, when) == [op |-> "load", val |-> "none", who |-> who, when |-> when]
Bar == [op |-> "barrier", val |-> "none", who |-> ThreadIds, when |-> {}]
Ret(when) == [op |-> "ret", val |-> "none", who |-> ThreadIds, when |-> when]

Up(S, n) == UNION {[1..k -> S] : k \in 0..n}
Arg == {<<"arg", TRUE>>}
NotArg == {<<"arg", FALSE>>}
Data == {<<"data", TRUE>>}
Turn == {<<"loop", TRUE>>}

PreOps == {Store("zero", {1}, {}), Store("own", {2}, Arg), Bar, Ret(Data), Ret(Arg)}
BodyOps == {Store("own", {1}, {}), Store("own", {1}, Arg), Store("zero", {2}, NotArg), Store("own", {2}, Turn),
            Store("lane", {2}, Data), Load({1}, {}), Load({2}, Arg), Bar}
PostOps == {Load({2}, {}), Load({1}, Data), Bar}
HasLoad(s) == \E k \in DOMAIN s : s[k].op = "load"
MCTiled == {p \in [pre : Up(PreOps, 1), body : Up(BodyOps, 3), post : Up(PostOps, 1)] :
                 /\ HasLoad(p.body) \/ HasLoad(p.post)
                 /\ Len(p.pre) + Len(p.body) + Len(p.post) <= 4}

\* The end of a kernel that stages its result in shared memory once: stores, a barrier, then loads.
EpilogueOps == {Store("zero", {1}, {}), Store("own", {2}, {}), Store("own", {2}, Arg), Store("own", {1}, NotArg),
                Store("own", {1}, Data), Load({1}, {}), Load({2}, {}), Load({2}, Arg), Load({1}, Data), Bar}
MCEpilogues == {p \in [pre : {<<>>}, body : {<<>>}, post : Up(EpilogueOps, 4)] :
                 \E b \in DOMAIN p.post : /\ p.post[b] = Bar /\ b > 1 /\ HasLoad(p.post)
                                          /\ \A k \in DOMAIN p.post : IF k < b THEN p.post[k].op = "store" ELSE p.post[k].op # "store"}
MCPrograms == MCTiled \cup MCEpilogues

------------------------------------------------------------------------------
VARIABLE part  \* the analysis that runs

IdleSchedules == /\ prog = <<>> /\ db = <<>> /\ searchPhase = "idle" /\ depth = 0 /\ frontier = {} /\ found = {} /\ todo = {}
                 /\ best = NoChoice /\ dbHit = FALSE
IdleCoordinates == /\ kernel = <<>> /\ lanes = FALSE /\ phase = "idle" /\ samples = <<>> /\ literals = <<>> /\ classes = <<>>
                   /\ fits = <<>> /\ basis = NoBasis /\ access = <<>>
IdleConditions == /\ semantic = FALSE /\ guards = <<>> /\ acc = False /\ accIs = {} /\ other = False /\ otherIs = {} /\ built = MaxBuild
IdleReads == /\ program = <<>> /\ retile = FALSE /\ done = 0 /\ writes = <<>> /\ reads = <<>> /\ why = "" /\ resolved = <<>>
             /\ assumptions = {} /\ uncovered = <<>>

\* The staging of a result is followed by the epilogue, everything else by retiling.
Mode == retile <=> program \notin MCEpilogues

AnalysisInit ==
    \/ part = "schedules" /\ SInit /\ IdleCoordinates /\ RInit /\ IdleConditions /\ IdleReads
    \/ part = "coordinates" /\ CInit /\ IdleSchedules /\ RInit /\ IdleConditions /\ IdleReads
    \/ part = "recurrences" /\ RInit /\ IdleSchedules /\ IdleCoordinates /\ IdleConditions /\ IdleReads
    \/ part = "conditions" /\ CNInit /\ IdleSchedules /\ IdleCoordinates /\ RInit /\ IdleReads
    \/ part = "reads" /\ SRInit /\ Mode /\ IdleSchedules /\ IdleCoordinates /\ RInit /\ IdleConditions
AnalysisNext ==
    /\ UNCHANGED part
    /\ \/ part = "schedules" /\ SNext /\ UNCHANGED <<cvars, rvars, cnvars, srvars>>
       \/ part = "coordinates" /\ CNext /\ UNCHANGED <<scvars, rvars, cnvars, srvars>>
       \/ part = "recurrences" /\ RNext /\ UNCHANGED <<scvars, cvars, cnvars, srvars>>
       \/ part = "conditions" /\ CNNext /\ UNCHANGED <<scvars, cvars, rvars, srvars>>
       \/ part = "reads" /\ SRNext /\ UNCHANGED <<scvars, cvars, rvars, cnvars>>
AnalysisSpec == AnalysisInit /\ [][AnalysisNext]_<<part, scvars, cvars, rvars, cnvars, srvars>>
==============================================================================
