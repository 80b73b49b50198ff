---------------------------- MODULE MCSchedules ----------------------------
(***************************************************************************)
(* Schedules for TLC: kernels of up to two coordinates, one output and one *)
(* reduction, on every kind of axis, with the loops the recurrence algebra *)
(* can report, and schedule files that differ from the source in one       *)
(* factor's bind, the exchange or the predicate.                           *)
(***************************************************************************)
EXTENDS Schedules

OnAxes(lo, hi, iter, der) == [lo |-> lo, hi |-> hi, iter |-> iter, der |-> der]
CoordOn(out, x) == [out |-> out, lo |-> x.lo, hi |-> x.hi, iter |-> x.iter, der |-> x.der]
Perm(p, r, d) == [partition |-> p, reorder |-> r, duplicate |-> d]
DataLoop(alg, p) == [data |-> TRUE, algebra |-> {alg}, permits |-> p]

SumLoop == DataLoop("sum", Perm(TRUE, TRUE, FALSE))
MaxLoop == DataLoop("max", Perm(TRUE, TRUE, TRUE))
OrderedLoop == DataLoop("order-sensitive", Perm(FALSE, FALSE, FALSE))
ControlLoop == [data |-> FALSE, algebra |-> {"induction"}, permits |-> Perm(FALSE, FALSE, FALSE)]

Spread == CoordOn(TRUE, OnAxes(5, 2, FALSE, FALSE))
Outputs == {Spread, CoordOn(TRUE, OnAxes(0, 0, FALSE, FALSE))}
Reductions == {CoordOn(FALSE, x) : x \in {OnAxes(0, 0, TRUE, FALSE), OnAxes(0, 0, FALSE, TRUE),
                                       OnAxes(3, 0, TRUE, FALSE), OnAxes(0, 0, FALSE, FALSE)}}
\* The reductions that every list of loops goes with.
OverLoops == {r \in Reductions : r.lo = 0 /\ (r.iter \/ r.der)}
LoopLists == {<<>>, <<ControlLoop>>, <<SumLoop>>, <<MaxLoop>>, <<OrderedLoop>>, <<SumLoop, OrderedLoop>>,
              <<DataLoop("tensor-sum", Perm(TRUE, TRUE, FALSE))>>}

Kernel(cs, ls, guards, effects, unfitted, precision, name) ==
  [coords |-> cs, loops |-> ls, guards |-> guards, effects |-> effects, unfitted |-> unfitted,
   precision |-> precision, kernel |-> name, tensors |-> 1, samples |-> 128]

MCKernelPrograms ==
  {Kernel(<<Spread, r>>, ls, FALSE, TRUE, FALSE, "inherit", <<"k">>) : r \in OverLoops, ls \in LoopLists}
  \cup {Kernel(<<o, r>>, <<SumLoop>>, FALSE, FALSE, FALSE, "inherit", <<"k">>) : o \in Outputs, r \in Reductions}
  \cup {Kernel(<<o>>, <<>>, TRUE, TRUE, FALSE, "inherit", <<"k", "arguments">>) : o \in Outputs}
  \cup {Kernel(<<>>, <<>>, FALSE, TRUE, u, p, <<"k">>) : u \in BOOLEAN, p \in {"inherit", "int8"}}

MCDatabases ==
  {[prefer |-> p, measured |-> <<>>] : p \in {"", "storage:device-stream"}}
  \cup {[prefer |-> "engine:tensor-op", measured |-> m] : m \in {[w \in {"source", "engine:tensor-op"} |-> 5000]}}

MCTexts(P, S) ==
  {dump([S EXCEPT !.stages[1].factors[i].bind = b, !.stages[1].exchange = x]) :
      i \in DOMAIN S.stages[1].factors, b \in Binds \cup {"bad"}, x \in {"none", "shuffle-tree", "atomic"}}
  \cup {dump([S EXCEPT !.stages[1].exchange = "bad"]), dump([S EXCEPT !.stages[1].predicate = "none"]),
        dump([S EXCEPT !.stages[1].predicate = "branch"])}
  \cup {dump(editReplicate(S)), dump(editBindDevice(S)), Tail(dump(S)), Tail(Tail(dump(S))),
        dump([S EXCEPT !.stages[1].smem = 40000]), dump([S EXCEPT !.stages = <<>>])}
=============================================================================
