------------------------------ MODULE Emission ------------------------------
(***************************************************************************)
(* The emission pass over one module (emit.cpp runModule, apply): which    *)
(* kernels it takes, what program it believes a kernel to be, whether it   *)
(* admits the source schedule, rewrites the index of an elementwise map or *)
(* replaces the whole body, which twins and search variants it registers,  *)
(* and which kernels the launch graph deletes.                             *)
(*                                                                         *)
(* A kernel is its instructions (expression trees over the thread          *)
(* registers) and its argument counts.  The bodies the emitters write are  *)
(* the subject of EmittedKernels, dot-product recovery of DotRecovery, the *)
(* choice of a schedule of Schedules: here they are outcomes.              *)
(***************************************************************************)
EXTENDS Integers, SequencesExt

CONSTANTS
    Corpus,      \* the kernels a module may hold
    MaxKernels,  \* how many
    Programs,    \* what the symbolic executor may report of a kernel
    GraphFiles,  \* contents of MVCC_GRAPH: sequences of edges between names
    Occurs,      \* pairs <<kernel name, text>> : the name contains the text
    DotModes,    \* whether MVCC_DOT_GEMV is on
    Launches     \* [tid, cta, ntid, arg]: one thread of a launch

VARIABLES
    module,    \* the kernels, in module order
    env,       \* the environment: dot recovery, graph file
    body,      \* the current body of each kernel
    twins,     \* exactVariants: pairs <<position, body>>
    search,    \* searchVariants
    relayout,  \* positions layoutRelayout marks
    db,        \* lines appended to MVCC_SCHED_DB
    result,    \* what apply answered for each kernel
    deleted,   \* positions whose body the graph deleted
    next       \* next position, or Len(module) + 1, or "done"

emvars == <<module, env, body, twins, search, relayout, db, result, deleted, next>>

-----------------------------------------------------------------------------
(* Instructions.                                                           *)

Node(op, n, kids) == [op |-> op, n |-> n, kids |-> kids]
Sregs == {"tid.x", "ctaid.x", "ntid.x", "nctaid.x"}
BinaryOps == {"add", "or", "mul", "shl", "lshr"}
Kids(v) == ToSet(v.kids)
Insts(k) == ToSet(k.insts)

RECURSIVE stripCast(_)
stripCast(v) == IF v.op = "cast" THEN stripCast(v.kids[1]) ELSE v

isSreg(v, name) == stripCast(v).op = name

RECURSIVE derivesFromSreg(_, _)
derivesFromSreg(v, name) == isSreg(v, name) \/ \E x \in Kids(v) : derivesFromSreg(x, name)

derivesFromCtaid(v) == derivesFromSreg(v, "ctaid.x")

RECURSIVE exprUsesSreg(_, _)
exprUsesSreg(v, name) ==
    \/ isSreg(v, name)
    \/ v.op \in BinaryOps \cup {"cast"} /\ \E x \in Kids(v) : exprUsesSreg(x, name)

tidLike(v) ==
    \/ isSreg(v, "tid.x")
    \/ stripCast(v).op = "lshr" /\ isSreg(stripCast(v).kids[1], "tid.x")

\* Strides the index cta * C + tid is recognised with; 0 stands for "take T".
IndexStrides(mulV, tidV) ==
    LET b == stripCast(mulV)
        Const(v) == stripCast(v).op = "const"
    IN  CASE ~tidLike(tidV) -> {}
          [] tidLike(tidV) /\ b.op \notin BinaryOps -> IF derivesFromCtaid(mulV) THEN {0} ELSE {}
          [] OTHER ->
               {s \in {IF b.op = "shl" THEN 2 ^ stripCast(b.kids[2]).n
                       ELSE LET c == IF derivesFromCtaid(b.kids[1]) THEN b.kids[2] ELSE b.kids[1]
                            IN  IF Const(c) THEN stripCast(c).n ELSE 0} :
                  /\ b.op \in {"shl", "mul"}
                  /\ b.op = "shl" => derivesFromCtaid(b.kids[1]) /\ Const(b.kids[2])
                  /\ b.op = "mul" => \E x \in Kids(b) : derivesFromCtaid(x)}

\* Either operand may be the block's part: the first is tried first.
StridesOf(v, a) == IF a # {} THEN a ELSE IndexStrides(v.kids[2], v.kids[1])
SumStrides(v) == IF v.op \in {"add", "or"} THEN StridesOf(v, IndexStrides(v.kids[1], v.kids[2])) ELSE {}

NoIndex == [at |-> 0, stride |-> 0]

FirstOf(strides) ==
    LET found == {i \in DOMAIN strides : strides[i] # {}}
    IN  IF found = {} THEN NoIndex ELSE [at |-> Min(found), stride |-> CHOOSE s \in strides[Min(found)] : TRUE]
findSourceIndex(k) == FirstOf([i \in DOMAIN k.insts |-> SumStrides(k.insts[i])])

-----------------------------------------------------------------------------
(* What the instructions say of the launch.                                *)

hasCallPrefix(k, name) == \E v \in Insts(k) : v.op = name
hasRawMma(k) == hasCallPrefix(k, "mma.sync")
hasTpMma(k) == hasCallPrefix(k, "tp_mma")
hasTileMma(k) == hasCallPrefix(k, "tile_mma")
hasMmaAsm(k) == hasRawMma(k) \/ hasTpMma(k)
shfl(k) == hasCallPrefix(k, "shfl")
hasNarrowLoad(k) == \E v \in Insts(k) : v.op = "load" /\ v.n = 2
hasAtomic(k) == hasCallPrefix(k, "atomic")

Pointer(v) == IF v.op = "store" THEN v.kids[2] ELSE v.kids[1]

memOpUsesBlockIndex(k) ==
    \E v \in Insts(k) : v.op \in {"load", "store", "atomic"} /\ derivesFromCtaid(Pointer(v))

\* The registers are named as the code names them: the front end emits ntid.x
\* and nctaid.x, which these tests do not look for.
UsesSreg(v, name) == exprUsesSreg(v, name)
StridedBy(k, Test(_)) == \E v \in Insts(k) : v.op = "add" /\ \E x \in Kids(v) : Test(x)
isGridStrideStep(v) ==
    LET b == stripCast(v) IN b.op = "mul" /\ UsesSreg(b, "blockDim.x") /\ UsesSreg(b, "gridDim.x")
isBlockStrideStep(v) ==
    LET b == stripCast(v) IN b.op = "mul" /\ UsesSreg(b, "blockDim.x") /\ ~UsesSreg(b, "gridDim.x")
isBlockDimStep(v) == isBlockStrideStep(v) \/ (UsesSreg(v, "blockDim.x") /\ ~UsesSreg(v, "gridDim.x"))
isBlockParallelConstStep(v) == stripCast(v).op = "const" /\ stripCast(v).n \in 32 .. 1024

icmpThreadZero(v) ==
    /\ v.op = "icmp eq"
    /\ \E i \in {1, 2} : isSreg(v.kids[i], "tid.x") /\ v.kids[3 - i].op = "const" /\ v.kids[3 - i].n = 0

irBlockLocalStride(k) ==
    /\ ~memOpUsesBlockIndex(k)
    /\ \E v \in Insts(k) : exprUsesSreg(v, "tid.x")
    /\ StridedBy(k, LAMBDA x : isBlockDimStep(x) \/ isBlockParallelConstStep(x))

irThreadZeroSerialKernel(k) ==
    /\ ~memOpUsesBlockIndex(k) /\ ~hasAtomic(k)
    /\ findSourceIndex(k) = NoIndex
    /\ \E v \in Insts(k) : icmpThreadZero(v)
    /\ ~StridedBy(k, isGridStrideStep)

irBlockCollectiveKernel(k) ==
    /\ ~memOpUsesBlockIndex(k) /\ ~hasTileMma(k)
    /\ shfl(k) \/ hasCallPrefix(k, "barrier")
    /\ irBlockLocalStride(k) \/ \E v \in Insts(k) : exprUsesSreg(v, "blockDim.x")

irParallelMapKernel(k) ==
    \/ findSourceIndex(k) # NoIndex
    \/ StridedBy(k, isGridStrideStep)
    \/ \E v \in Insts(k) : exprUsesSreg(v, "ctaid.x") /\ exprUsesSreg(v, "gridDim.x")
    \/ memOpUsesBlockIndex(k)
    \/ irBlockLocalStride(k) \/ irThreadZeroSerialKernel(k) \/ irBlockCollectiveKernel(k)

fpOnlineSoftmaxWarpKernel(k, T) ==
    /\ T <= 32 /\ shfl(k)
    /\ hasCallPrefix(k, "exp") \/ hasCallPrefix(k, "fmax")

RECURSIVE pointerIsSharedMem(_)
pointerIsSharedMem(v) ==
    \/ v.op = "shared"
    \/ v.op \in {"gep", "cast"} /\ pointerIsSharedMem(v.kids[1])

AtomicPointers(k) == {Pointer(v) : v \in {u \in Insts(k) : u.op = "atomic"}}
atomicTargetsSharedOnly(k) == hasAtomic(k) /\ \A p \in AtomicPointers(k) : pointerIsSharedMem(p)
atomicHasBlockOwner(k) == hasAtomic(k) /\ \A p \in AtomicPointers(k) : derivesFromCtaid(p)
atomicAllNonCtaTargets(k) ==
    hasAtomic(k) /\ ~memOpUsesBlockIndex(k) /\ \A p \in AtomicPointers(k) : ~derivesFromCtaid(p)
atomicHasSafeOwner(k) ==
    \/ atomicHasBlockOwner(k) \/ atomicTargetsSharedOnly(k)
    \/ atomicAllNonCtaTargets(k) /\ (irBlockLocalStride(k) \/ irBlockCollectiveKernel(k))

isNoOpKernel(k) ==
    \A v \in Insts(k) : v.op \in Sregs \cup BinaryOps \cup {"cast", "const", "icmp eq", "icmp lt"}

-----------------------------------------------------------------------------
(* Programs: what the pass believes a kernel computes.                     *)

LoopStmt(algebra, data) == [algebra |-> algebra, data |-> data]
Prog(loops, outs, accesses) ==
    [built |-> TRUE, unfitted |-> FALSE, mismatch |-> FALSE, outs |-> outs, loops |-> loops,
     accesses |-> accesses]

parallelMapHeuristicProgram(k) ==
    Prog(IF hasAtomic(k) THEN {LoopStmt({"Induction"}, FALSE)} ELSE {}, TRUE, FALSE)

Arity(k, p, i) == k.ptrs = p /\ k.ints = i

heuristicProgram(k) ==
    LET Red(algebras) == Prog({LoopStmt({a}, TRUE) : a \in algebras}, FALSE, FALSE)
    IN  CASE irParallelMapKernel(k) /\ ~hasMmaAsm(k) -> parallelMapHeuristicProgram(k)
          [] hasAtomic(k) -> Prog({LoopStmt({"Induction"}, FALSE)}, TRUE, FALSE)
          [] shfl(k) /\ Arity(k, 2, 1) ->
               IF hasCallPrefix(k, "exp") THEN Red({"Max", "Tuple"}) ELSE Red({"Sum"})
          [] Arity(k, 4, 2) -> Red({"Tuple", "Sum"})
          [] Arity(k, 3, 3) -> Red({"TensorSum"})
          [] Arity(k, 3, 2) -> IF hasNarrowLoad(k) THEN Red({"Sum"}) ELSE Red({"OrderSensitive"})
          [] Arity(k, 3, 1) -> Prog({LoopStmt({"Induction"}, FALSE)}, TRUE, FALSE)
          [] k.ptrs \in {3, 4} /\ k.ints = 0 /\ hasNarrowLoad(k) -> Red({"TensorSum"})
          [] OTHER -> Prog({}, TRUE, FALSE)

DataLoops(P) == {l \in P.loops : l.data}
programHasAlgebra(P, a) == \E l \in P.loops : a \in l.algebra

elementwise(P) == ~P.unfitted /\ ~P.mismatch /\ P.outs /\ DataLoops(P) = {}

isLayoutRelayoutKernel(P) ==
    /\ P.built /\ ~P.unfitted /\ ~P.mismatch /\ elementwise(P) /\ P.accesses
    /\ \A l \in DataLoops(P) : l.algebra \cap {"Sum", "Max", "TensorSum", "Tuple"} = {}

programIsStandaloneContraction(P, k) ==
    /\ ~irParallelMapKernel(k) /\ ~irThreadZeroSerialKernel(k) /\ ~irBlockCollectiveKernel(k)
    /\ DataLoops(P) # {}
    /\ \/ programHasAlgebra(P, "TensorSum")
       \/ programHasAlgebra(P, "Sum") /\ ~shfl(k) /\ k.ptrs >= 3 /\ k.ints >= 2

shflCompatibleWithProgram(k, P, T) ==
    \/ ~shfl(k) \/ fpOnlineSoftmaxWarpKernel(k, T) \/ irBlockCollectiveKernel(k)
    \/ irParallelMapKernel(k) /\ \A l \in DataLoops(P) : l.algebra \subseteq {"Induction"}
    \/ ~irParallelMapKernel(k) /\ \E l \in DataLoops(P) : l.algebra \cap {"Max", "Tuple", "Sum"} # {}

sigSourceScheduleCandidate(k, P, T) ==
    /\ ~hasMmaAsm(k)
    /\ ~programIsStandaloneContraction(P, k)
    /\ shflCompatibleWithProgram(k, P, T)
    /\ \/ fpOnlineSoftmaxWarpKernel(k, T)
       \/ irParallelMapKernel(k) /\ ~P.mismatch /\ (~P.unfitted \/ P.built)
       \/ ~irParallelMapKernel(k) /\ P.built /\ ~P.unfitted /\ ~P.mismatch

classifySigSourceSchedule(P, k, T) ==
    LET Data(S) == \E l \in DataLoops(P) : S \subseteq l.algebra
    IN  CASE fpOnlineSoftmaxWarpKernel(k, T) -> "softmax"
          [] Data({"Max", "Sum", "Tuple"}) -> "attention"
          [] Data({"Max", "Tuple"}) -> "softmax"
          [] Data({"OrderSensitive"}) -> "scan"
          [] shfl(k) /\ Data({"Sum"}) -> "rmsnorm"
          [] irThreadZeroSerialKernel(k) -> "serial"
          [] irBlockCollectiveKernel(k) /\ shfl(k) -> "merge"
          [] irBlockLocalStride(k) -> "block-stride"
          [] OTHER -> "grid-stride"

\* The reasons that contain the text "source schedule, SIG".
PlainSig == {"serial", "block-stride", "grid-stride"}

-----------------------------------------------------------------------------
(* Bodies, and what a thread does when it runs one.                        *)

Body(k) == [kind |-> "insts", insts |-> k.insts, does |-> "nothing"]
Written(what) == [kind |-> "written", insts |-> <<>>, does |-> what]
Dead == [kind |-> "dead", insts |-> <<>>, does |-> "nothing"]
Broken == [kind |-> "broken", insts |-> <<>>, does |-> "nothing"]

RECURSIVE EvalIR(_, _)
EvalIR(v, t) ==
    CASE v.op = "tid.x" -> t.tid
      [] v.op = "ctaid.x" -> t.cta
      [] v.op = "ntid.x" -> t.ntid
      [] v.op = "nctaid.x" -> t.nctaid
      [] v.op = "const" -> v.n
      [] v.op = "arg" -> t.arg
      [] v.op = "cast" -> EvalIR(v.kids[1], t)
      [] v.op \in {"add", "or"} -> EvalIR(v.kids[1], t) + EvalIR(v.kids[2], t)
      [] v.op = "mul" -> EvalIR(v.kids[1], t) * EvalIR(v.kids[2], t)
      [] v.op = "shl" -> EvalIR(v.kids[1], t) * 2 ^ v.kids[2].n
      [] v.op = "lshr" -> EvalIR(v.kids[1], t) \div 2 ^ v.kids[2].n
      [] v.op = "gep" -> EvalIR(v.kids[2], t)
      [] v.op = "icmp lt" -> IF EvalIR(v.kids[1], t) < EvalIR(v.kids[2], t) THEN 1 ELSE 0
      [] v.op = "zsel" -> IF EvalIR(v.kids[1], t) = 1 THEN EvalIR(v.kids[2], t) ELSE -1
      [] OTHER -> 0

\* What one thread does: the operator it computes a part of, and the accesses.
Touched(insts, t) ==
    {<<v.op, EvalIR(Pointer(v), t)>> :
        v \in {u \in ToSet(insts) : u.op \in {"load", "store", "atomic"}}}

Effects(k, b, t) ==
    CASE b.kind = "insts"   -> [does |-> k.does, touched |-> Touched(b.insts, t)]
      [] b.kind = "written" -> [does |-> b.does, touched |-> Touched(k.insts, t)]
      [] OTHER              -> [does |-> b.kind, touched |-> {}]

RECURSIVE Subst(_, _, _)
Subst(v, old, new) ==
    IF v = old THEN new ELSE [v EXCEPT !.kids = [i \in DOMAIN v.kids |-> Subst(v.kids[i], old, new)]]

emitO(T) == Node("add", 0, <<Node("mul", 0, <<Node("ctaid.x", 0, <<>>), Node("const", T, <<>>)>>),
                             Node("tid.x", 0, <<>>)>>)

\* Every load, guarded by the predicate or not, reads through a selected pointer.
ifConvertZeroPage(insts, pred) ==
    [i \in DOMAIN insts |->
        IF insts[i].op = "load" THEN [insts[i] EXCEPT !.kids[1] = Node("zsel", 0, <<pred, insts[i].kids[1]>>)]
        ELSE insts[i]]

Guarded(moved, o, zeroPage) ==
    LET Preds == {v \in ToSet(moved) : v.op = "icmp lt" /\ o \in Kids(v)}
    IN  [kind |-> "insts", does |-> "nothing",
         insts |-> IF zeroPage /\ Preds # {} THEN ifConvertZeroPage(moved, CHOOSE v \in Preds : TRUE) ELSE moved]
Reindexed(k, s, o, zeroPage) == Guarded([i \in DOMAIN k.insts |-> Subst(k.insts[i], k.insts[s.at], o)], o, zeroPage)
RewrittenAt(k, s, T, zeroPage) == Reindexed(k, s, emitO(IF s.stride # 0 THEN s.stride ELSE T), zeroPage)
Rewritten(k, T, zeroPage) == RewrittenAt(k, findSourceIndex(k), T, zeroPage)

-----------------------------------------------------------------------------
(* apply: one kernel.  An outcome is the answer, the new body and whether  *)
(* the old one was cloned as a twin.                                       *)

KeptAs(k, why) == [emitted |-> FALSE, why |-> why, body |-> Body(k), twin |-> FALSE]
Admitted(k, why) == [emitted |-> TRUE, why |-> why, body |-> Body(k), twin |-> FALSE]

\* finish and failIR: the verifier accepts the new body or it does not.
ReplacedBy(k, why, b) ==
    {[emitted |-> TRUE, why |-> why, body |-> b, twin |-> TRUE],
     [emitted |-> FALSE, why |-> "invalid IR", body |-> Broken, twin |-> TRUE]}

BoundOf(k) == IF k.bound = 0 THEN 256 ELSE k.bound

\* admitSourceSchedule tells whether the body is left as it is; wantExactTwin
\* is false, so that no twin is cloned.
admitSourceSchedule(k, P) ==
    /\ ~hasRawMma(k) /\ ~hasTpMma(k)
    /\ sigSourceScheduleCandidate(k, P, BoundOf(k)) \/ irParallelMapKernel(k) \/ irBlockCollectiveKernel(k)

Admission(k, P) == Admitted(k, classifySigSourceSchedule(P, k, BoundOf(k)))

AdmitOr(k, P, why) == IF admitSourceSchedule(k, P) THEN Admission(k, P) ELSE KeptAs(k, why)

blockMergeHeuristicProgram(k) == Prog({LoopStmt({"Max"}, TRUE), LoopStmt({"Tuple"}, TRUE)}, FALSE, FALSE)

stirClient(k, want) == k.name = want

\* The emitter a named kernel of the right arity is sent to.
Clients(k) ==
    {c \in {"softmax_row", "rowsum", "rmsnorm", "attn", "sgemm", "gemv", "gdn", "gather", "hgemm16", "hgemm16b"} :
        /\ stirClient(k, c)
        /\ CASE c \in {"softmax_row", "rowsum"} -> shfl(k) /\ Arity(k, 2, 1)
             [] c = "rmsnorm" -> shfl(k) /\ Arity(k, 3, 1)
             [] c = "attn" -> Arity(k, 4, 2)
             [] c = "sgemm" -> Arity(k, 3, 3)
             [] c \in {"gemv", "gdn"} -> Arity(k, 3, 2)
             [] c = "gather" -> Arity(k, 3, 1)
             [] c = "hgemm16" -> Arity(k, 3, 0) /\ hasNarrowLoad(k) /\ BoundOf(k) = 32
             [] c = "hgemm16b" -> Arity(k, 4, 0) /\ hasNarrowLoad(k) /\ BoundOf(k) = 32}

tryBlockScopeSourceSchedule(k) ==
    CASE irBlockCollectiveKernel(k) /\ shfl(k) /\ admitSourceSchedule(k, blockMergeHeuristicProgram(k)) ->
           Admission(k, blockMergeHeuristicProgram(k))
      [] irParallelMapKernel(k) /\ ~hasMmaAsm(k) /\ admitSourceSchedule(k, parallelMapHeuristicProgram(k)) ->
           Admission(k, IF irThreadZeroSerialKernel(k)
                        THEN Prog({LoopStmt({"OrderSensitive"}, TRUE)}, TRUE, FALSE)
                        ELSE parallelMapHeuristicProgram(k))
      [] OTHER -> KeptAs(k, "traversal loop unrecognized shape")

applyLoops(k, P) ==
    IF hasAtomic(k)
    THEN {AdmitOr(k, IF atomicHasSafeOwner(k) \/ irParallelMapKernel(k) THEN parallelMapHeuristicProgram(k) ELSE P,
                  "waits on owner predicate")}
    ELSE IF Clients(k) # {} THEN ReplacedBy(k, "client", Written(CHOOSE c \in Clients(k) : TRUE))
         ELSE {tryBlockScopeSourceSchedule(k)}

\* L is "ok", "L10" (only unfitted accesses) or "refused".
apply(k, P, zeroPage, L, dot) ==
    CASE isNoOpKernel(k) -> {Admitted(k, "no-op")}
      [] dot /\ k.dot -> {[emitted |-> TRUE, why |-> "dot", body |-> Written(k.does), twin |-> TRUE]}
      [] hasRawMma(k) -> {KeptAs(k, "mma.sync not recovered")}
      [] hasTpMma(k) -> {Admitted(k, "tensor-op")}
      [] admitSourceSchedule(k, P) -> {Admission(k, P)}
      [] L = "refused" -> {KeptAs(k, "illegal")}
      [] k.loop -> applyLoops(k, P)
      [] Arity(k, 4, 1) /\ stirClient(k, "rope") -> ReplacedBy(k, "client", Written("rope"))
      [] ~elementwise(P) -> {KeptAs(k, "Program is not elementwise")}
      [] findSourceIndex(k) = NoIndex -> {KeptAs(k, "no affine cta*T+tid index")}
      [] OTHER -> ReplacedBy(k, "elementwise", Rewritten(k, BoundOf(k), zeroPage))

-----------------------------------------------------------------------------
(* runModule.                                                              *)

\* Kernels recovered earlier or built on tensor ops get a note and no more.
Selected(k) == ~k.recovered /\ ~hasTpMma(k) /\ ~hasTileMma(k) /\ ~hasRawMma(k)

Skip ==
    /\ next \in DOMAIN module
    /\ ~Selected(module[next])
    /\ result' = [result EXCEPT ![next] = "noted"]
    /\ next' = next + 1
    /\ UNCHANGED <<module, env, body, twins, search, relayout, db, deleted>>

\* The program of a kernel: read off the executed kernel (sig), or guessed.
\* The pair tells whether layoutRelayout was asked.
ProgramsOf(k) ==
    LET forceSig == irBlockCollectiveKernel(k) /\ ~shfl(k)
        fastMap == ~forceSig /\ irParallelMapKernel(k) /\ ~hasMmaAsm(k)
        FromSig == {<<P, TRUE>> : P \in Programs}
    IN  IF fastMap THEN {<<parallelMapHeuristicProgram(k), FALSE>>}
        ELSE FromSig \cup {<<IF forceSig /\ irParallelMapKernel(k) /\ ~hasMmaAsm(k)
                             THEN parallelMapHeuristicProgram(k) ELSE heuristicProgram(k), FALSE>>}

\* Mutant: every twin is searched as an unrolled sgemm.
SearchBodyAny(k, r, hasTwin) == IF hasTwin THEN Written("sgemm") ELSE r.body
\* A search variant is registered when another legal schedule exists; with three
\* pointers and three integers it is the twin rewritten as an unrolled sgemm.
SearchBody(k, r, hasTwin) ==
    IF Arity(k, 3, 3) /\ hasTwin THEN Written("sgemm") ELSE r.body

Emit ==
    /\ next \in DOMAIN module
    /\ Selected(module[next])
    /\ LET k == module[next]
       IN  \E pr \in ProgramsOf(k), L \in {"ok", "L10", "refused"}, zp, other \in BOOLEAN :
             \E r \in apply(k, pr[1], zp, L, env.dot) :
               LET tuned == r.emitted /\ r.why # "no-op" /\ r.why \notin PlainSig
               IN  /\ body' = [body EXCEPT ![next] = r.body]
                   /\ twins' = IF r.twin THEN twins \cup {<<next, Body(k)>>} ELSE twins
                   /\ search' = IF tuned /\ other THEN search \cup {<<next, SearchBody(k, r, r.twin)>>} ELSE search
                   /\ db' = IF tuned THEN Append(db, next) ELSE db
                   /\ relayout' = IF pr[2] /\ isLayoutRelayoutKernel(pr[1]) THEN relayout \cup {next} ELSE relayout
                   /\ result' = [result EXCEPT ![next] = IF r.emitted THEN "emitted" ELSE r.why]
    /\ next' = next + 1
    /\ UNCHANGED <<module, env, deleted>>

-----------------------------------------------------------------------------
(* The launch graph.                                                       *)

Edge(a, b, same, host) == [from |-> a, to |-> b, sameBlock |-> same, hostVisible |-> host]

\* The first kernel whose name is, or contains, the text of the file.
kernIndex(text) ==
    LET S == {i \in DOMAIN module : module[i].name = text \/ <<module[i].name, text>> \in Occurs}
    IN  IF S = {} THEN 0 ELSE Min(S)

\* Stops at an unknown kernel; the edges read before it stay in the graph.
RECURSIVE loadGraphFile(_, _)
loadGraphFile(lines, edges) ==
    IF lines = <<>> THEN [ok |-> TRUE, edges |-> edges]
    ELSE LET l == Head(lines)
             a == kernIndex(l.src)
             b == kernIndex(l.dst)
         IN  IF a = 0 \/ b = 0 THEN [ok |-> FALSE, edges |-> edges]
             ELSE loadGraphFile(Tail(lines), Append(edges, Edge(a, b, l.same, l.host)))

inferModuleSequentialEdges == [i \in 1 .. Len(module) - 1 |-> Edge(i, i + 1, TRUE, FALSE)]

GraphEdges ==
    LET file == loadGraphFile(env.graph, <<>>)
        inferred == ~env.hasGraph \/ ~file.ok
        read == IF env.hasGraph THEN file.edges ELSE <<>>
    IN  IF inferred /\ read = <<>> /\ Len(module) >= 2 THEN inferModuleSequentialEdges ELSE read

\* All kernels are on device 0 of the world, so that L14 and L15 hold.
checkGraph(edges) == \A e \in ToSet(edges) : e.sameBlock /\ ~e.hostVisible

Graph ==
    /\ next = Len(module) + 1
    /\ LET edges == GraphEdges
           consumed == IF checkGraph(edges) THEN {e.to : e \in ToSet(edges)} ELSE {}
       IN  deleted' = consumed \cap relayout
    /\ body' = [i \in DOMAIN body |-> IF i \in deleted' THEN Dead ELSE body[i]]
    /\ next' = next + 1
    /\ UNCHANGED <<module, env, twins, search, relayout, db, result>>

EMInit ==
    /\ module \in UNION {[1 .. n -> Corpus] : n \in 1 .. MaxKernels}
    /\ env \in {[dot |-> d, hasGraph |-> h, graph |-> g] :
                  d \in DotModes, h \in BOOLEAN, g \in GraphFiles}
    /\ ~env.hasGraph => env.graph = <<>>
    /\ body = [i \in DOMAIN module |-> Body(module[i])]
    /\ twins = {} /\ search = {} /\ relayout = {} /\ db = <<>> /\ deleted = {}
    /\ result = [i \in DOMAIN module |-> "pending"]
    /\ next = 1

EMNext == Skip \/ Emit \/ Graph

EMSpec == EMInit /\ [][EMNext]_emvars

-----------------------------------------------------------------------------
Same(i, b) == \A t \in Launches : Effects(module[i], b, t) = Effects(module[i], Body(module[i]), t)

\* Whatever the pass answers, each kernel that the graph did not delete and the
\* verifier did not refuse does for every thread of every launch what its source
\* did, and so do its exact twin and its search variant: the index is never
\* rewritten with a stride the launch does not have, no loop is replaced by
\* another operator (emit.cpp apply 1464-1560, runModule 1597-1655).
EveryBodySame ==
    /\ \A i \in DOMAIN module : i \in deleted \/ result[i] = "invalid IR" \/ Same(i, body[i])
    /\ \A p \in twins \cup search : Same(p[1], p[2])

=============================================================================
