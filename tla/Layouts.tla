------------------------------- MODULE Layouts -------------------------------
(* Where the emitter puts a kernel's shared objects, its parameters and the module's variables                  *)
(* (msl_emitter.cpp): offsets the emitted program, the runtime and the initial image must agree on.             *)
(* An object is [size, align, init, kind]; objects are in name order.  kind is "static" or "dynamic" for a      *)
(* shared object, "struct" or "scalar" for a parameter, "device", "constant" (not const) or "table" (const) for *)
(* a module's variable.  init is the sequence of a variable's words: 0 for data, or the variable pointed at.    *)
EXTENDS Naturals, Integers, Sequences, FiniteSets, FiniteSetsExt, SequencesExt

CONSTANTS SharedJobs,   \* kernels: [objs, conversions, maxThreads, alias]
          ParamJobs,    \* parameter lists
          GlobalJobs,   \* the variables of modules
          DefaultMaxThreads,   \* kTpDefaultMaxThreads
          ScratchPerSg         \* bytes a simdgroup's accumulator conversions use

VARIABLES todo, laid
lyvars == <<todo, laid>>
Nothing == [part |-> "none"]
PointerBytes == 8

Up(n, a) == ((n + a - 1) \div a) * a
\* Objects one after the other in the order given, each at its alignment: [off, end].
Place(objs, order, Align(_), from) ==
    FoldLeft(LAMBDA acc, i : LET o == Up(acc.end, Align(objs[i]))
                             IN  [off |-> [acc.off EXCEPT ![i] = o], end |-> o + objs[i].size],
             [off |-> [i \in DOMAIN objs |-> -1], end |-> from], order)
All(objs) == [i \in DOMAIN objs |-> i]

\* Two extern arrays are refused.  The conversions' scratch takes the first bytes of the dynamic object where the
\* kernel says so.
layoutSharedMemory ==
    /\ todo.part = "shared"
    /\ LET objs == todo.job.objs
           dyn == {i \in DOMAIN objs : objs[i].kind = "dynamic"}
           static == Place(objs, SelectSeq(All(objs), LAMBDA i : i \notin dyn), LAMBDA o : Max({16, o.align}), 0)
           sgs == IF ~todo.job.conversions THEN 0
                  ELSE (IF todo.job.maxThreads = 0 THEN DefaultMaxThreads ELSE todo.job.maxThreads) \div 32
           scratch == Up(static.end, 16)
           end == IF dyn # {} /\ todo.job.alias THEN scratch ELSE scratch + ScratchPerSg * sgs
       IN  laid' = IF Cardinality(dyn) > 1 THEN [part |-> "failed"]
                   ELSE [part |-> "shared", off |-> [i \in DOMAIN objs |-> IF i \in dyn THEN end ELSE static.off[i]],
                         scratch |-> scratch, sgs |-> sgs, size |-> end,
                         \* a larger block runs the exact twin
                         threads |-> IF todo.job.conversions THEN sgs * 32 ELSE 1024]
    /\ UNCHANGED todo

\* Padding to the ABI offset is explicit: MSL gives the packed struct of an aggregate no alignment.
emitParams ==
    /\ todo.part = "params"
    /\ LET placed == Place(todo.job, All(todo.job), LAMBDA p : p.align, 0)
           pads == [i \in DOMAIN todo.job |-> placed.off[i] - IF i = 1 THEN 0 ELSE placed.off[i - 1] + todo.job[i - 1].size]
       IN  laid' = [part |-> "params", off |-> placed.off, pads |-> pads, size |-> Max({8, Up(placed.end, 8)})]
    /\ UNCHANGED todo

Targets(g) == ToSet(g.init) \ {0}
\* Mutant: a global another one points at is not counted.
BufferedOwn(gs) == {i \in DOMAIN gs : gs[i].kind \in {"device", "constant"} \/ Targets(gs[i]) # {}}
Buffered(gs) == {i \in DOMAIN gs : \/ gs[i].kind \in {"device", "constant"}
                                   \/ Targets(gs[i]) # {}
                                   \/ \E j \in DOMAIN gs : i \in Targets(gs[j])}
layoutGlobals ==
    /\ todo.part = "globals"
    /\ LET gs == todo.job
           in == Buffered(gs)
           order == SortSeq(SelectSeq(All(gs), LAMBDA i : i \in in),
                            LAMBDA i, j : gs[i].align > gs[j].align \/ (gs[i].align = gs[j].align /\ i < j))
           placed == Place(gs, order, LAMBDA g : g.align, 0)
           \* serializeInit: a pointer is a relocation, patched by the runtime
           relocs == UNION {{<<placed.off[i] + PointerBytes * (w - 1), placed.off[gs[i].init[w]]>> :
                               w \in {w \in DOMAIN gs[i].init : gs[i].init[w] # 0}} : i \in in}
       IN  laid' = [part |-> "globals", off |-> placed.off, relocs |-> relocs, size |-> Up(placed.end, 16)]
    /\ UNCHANGED todo

LYInit == /\ laid = Nothing
          /\ todo \in {[part |-> "shared", job |-> j] : j \in SharedJobs} \cup {[part |-> "params", job |-> j] : j \in ParamJobs}
                      \cup {[part |-> "globals", job |-> j] : j \in GlobalJobs}
LYNext == laid = Nothing /\ (layoutSharedMemory \/ emitParams \/ layoutGlobals)
LYSpec == LYInit /\ [][LYNext]_lyvars

-----------------------------------------------------------------------------
\* Ranges [first, end) that do not meet.
Apart(S) == \A x, y \in S : x # y => x[2] + x[3] <= y[2] \/ y[2] + y[3] <= x[2]
\* What every simdgroup of a launched block uses of its shared memory, and the objects.
SharedRanges ==
    {<<i, laid.off[i], todo.job.objs[i].size>> : i \in DOMAIN todo.job.objs}
    \cup {<<-1 - sg, laid.scratch + sg * ScratchPerSg, ScratchPerSg>> :
            sg \in IF todo.job.conversions /\ ~todo.job.alias THEN 0..((laid.threads + 31) \div 32 - 1) ELSE {}}
\* The offsets MSL gives the fields of the parameter struct.
MslOffset ==
    FoldLeft(LAMBDA acc, i : LET start == acc.end + laid.pads[i]
                                 o == IF todo.job[i].kind = "struct" THEN start ELSE Up(start, todo.job[i].align)
                             IN  [off |-> Append(acc.off, o), end |-> o + todo.job[i].size],
             [off |-> <<>>, end |-> 0], [i \in DOMAIN todo.job |-> i])

\* No two objects a kernel uses share a byte, its simdgroups' scratch included, each is at its alignment, the
\* program reads a parameter where the runtime writes it, and after relocation every pointer of the initial image
\* points at its variable (layoutSharedMemory, emitKernel, layoutGlobals).
LaidOutRight ==
    CASE laid.part = "shared" -> /\ Apart(SharedRanges)
                                 /\ \A i \in DOMAIN todo.job.objs :
                                      LET o == todo.job.objs[i]
                                      IN  laid.off[i] % (IF o.kind = "dynamic" THEN 16 ELSE Max({16, o.align})) = 0
      [] laid.part = "params" -> MslOffset.off = laid.off /\ MslOffset.end <= laid.size
      [] laid.part = "globals" ->
           LET in == {i \in DOMAIN todo.job : laid.off[i] # -1}
           IN  /\ Apart({<<i, laid.off[i], todo.job[i].size>> : i \in in})
               /\ \A i \in in : laid.off[i] % todo.job[i].align = 0 /\ laid.off[i] + todo.job[i].size <= laid.size
               /\ \A i \in DOMAIN todo.job : \A w \in DOMAIN todo.job[i].init :
                    todo.job[i].init[w] # 0 => /\ {i, todo.job[i].init[w]} \subseteq in
                                               /\ <<laid.off[i] + PointerBytes * (w - 1), laid.off[todo.job[i].init[w]]>> \in laid.relocs
      [] OTHER -> TRUE
=============================================================================
