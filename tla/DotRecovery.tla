---------------------------- MODULE DotRecovery ----------------------------
(***************************************************************************)
(* Recovery of a decode dot product onto more threads (dot_recovery.cpp):  *)
(* recognition, the choice of thread scale, the twin that keeps the source *)
(* body, and the emitted body run by the simdgroups of one threadgroup.    *)
(* The recovery is switched off in the code (kGemvDotRecovery); the model  *)
(* says what it does when it is on.                                        *)
(*                                                                         *)
(* A simdgroup runs as one process: its lanes meet in simd_sum.  A sum is  *)
(* the bag of loop indices whose products it holds, so an index that is    *)
(* missed or counted twice shows.                                          *)
(***************************************************************************)
EXTENDS Integers, Sequences, FiniteSets, FiniteSetsExt, SequencesExt, Bags

CONSTANTS
  DotKernels,  \* kernels that may be compiled
  Enabled,     \* kGemvDotRecovery
  Wrap         \* the loop index wraps around here (2^32 in the code)

VARIABLES
  dotKernel, stage,     \* what is compiled and how far: in, matched, cloned, out, run
  scale,                \* copies of the host block in a threadgroup
  twin,                 \* whether a twin with the source body is registered
  dotBody,              \* source or emitted: the body the kernel has
  dpc, dotRow, k, acc,  \* per simdgroup <<h, w>>: where it is, its row, index and sum
  xchg,                 \* the exchange buffer, a sum per simdgroup
  arrived,              \* simdgroups waiting at the current barrier
  sums                  \* row -> set of sums written

kvars == <<dotKernel, stage, scale, twin, dotBody>>
rvars == <<dpc, dotRow, k, acc, xchg, arrived, sums>>
dvars == <<dotKernel, stage, scale, twin, dotBody, dpc, dotRow, k, acc, xchg, arrived, sums>>

MaxThreads == 256
ZeroSum == EmptyBag
\* A sum with one more product; a third copy of one is as wrong as the second.
PlusProduct(s, i) == IF CopiesIn(i, s) < 2 THEN s (+) SetToBag({i}) ELSE s

Groups == (0..(scale - 1)) \X (1..dotKernel.warps)

DInit ==
  /\ dotKernel \in DotKernels /\ stage = "in" /\ scale = 1 /\ twin = FALSE /\ dotBody = "source"
  /\ dpc = <<>> /\ dotRow = <<>> /\ k = <<>> /\ acc = <<>> /\ xchg = <<>> /\ arrived = {} /\ sums = <<>>

-----------------------------------------------------------------------------
(* Recognition.  A loop of products of two arrays, one of them unpacked,     *)
(* into an accumulator that starts at zero, whose only use outside is a full *)
(* butterfly of the simdgroup that no test of the first 32 threads guards.   *)

accFromZero(l) == l.zero
nextIsSum(l) == l.sum
xorTree(l) == l.deltas = <<16, 8, 4, 2, 1>>
tidControlDep(l) == l.warpFilter
DotLoop(l) ==
  /\ l.latch /\ ~l.exp /\ ~l.fmax /\ ~l.store /\ ~l.atomic /\ l.product /\ l.unpack
  /\ accFromZero(l) /\ nextIsSum(l) /\ xorTree(l) /\ ~tidControlDep(l)
Matched == {i \in DOMAIN dotKernel.loops : DotLoop(dotKernel.loops[i])}

recognize ==
  /\ stage = "in"
  /\ stage' = IF Enabled /\ ~dotKernel.twinName /\ ~dotKernel.mma /\ Matched # {} THEN "matched" ELSE "out"
  /\ UNCHANGED <<dotKernel, scale, twin, dotBody>> /\ UNCHANGED rvars

\* Twice the threads when every matched loop can be split and the block stays
\* within limits; one copy when the schedule is not legal at two.
Splittable == \A i \in Matched : dotKernel.loops[i].step # 0 /\ dotKernel.loops[i].uniqueExit
metalSchedule ==
  /\ stage = "matched"
  /\ \E legalTwo, legalOne \in BOOLEAN :
       LET two == dotKernel.threads <= 128 /\ dotKernel.threads * 2 <= MaxThreads /\ Splittable
       IN /\ scale' = IF two /\ legalTwo THEN 2 ELSE 1
          /\ stage' = IF (two /\ legalTwo) \/ legalOne THEN "cloned" ELSE "out"
          /\ twin' = ((two /\ legalTwo) \/ legalOne)
  /\ UNCHANGED <<dotKernel, dotBody>> /\ UNCHANGED rvars

\* Emission rewrites the body; when it fails, or its result is not valid IR,
\* the body is copied back from the twin and the twin is erased.
emitBody ==
  /\ stage = "cloned" /\ stage' = "out"
  /\ \/ dotBody' = "emitted" /\ UNCHANGED <<twin, scale>>
     \/ dotBody' = "source" /\ twin' = FALSE /\ scale' = 1
  /\ UNCHANGED dotKernel /\ UNCHANGED rvars

-----------------------------------------------------------------------------
(* The body runs.  Simdgroup w of the source takes rows w, w + warps, ...;   *)
(* every row runs the loop, sums its lanes and writes.                       *)

RowLoop == dotKernel.loops[1]
Step == IF dotBody = "emitted" THEN RowLoop.step * scale ELSE RowLoop.step
\* Mutant: every copy of the block starts at the source's first index.
FirstZero(g) == 0
First(g) == IF dotBody = "emitted" THEN g[1] * RowLoop.step ELSE 0
\* Mutant: the loop's exit tests for the bound itself.
AgainUnequal(i) == i # dotKernel.K
Again(i) == IF RowLoop.test = "lt" THEN i < dotKernel.K ELSE i # dotKernel.K
FirstRow(g) == IF g[2] <= dotKernel.rows THEN g[2] ELSE 0
NextRow(g) == IF dotRow[g] + dotKernel.warps <= dotKernel.rows THEN dotRow[g] + dotKernel.warps ELSE 0

\* A loop the compiler rotated tests the source's first index before it and
\* each next index after the body.
Enters(g) == IF RowLoop.rotated THEN Again(0) ELSE Again(First(g))

StartRow(g, r) ==
  /\ dotRow' = [dotRow EXCEPT ![g] = r] /\ k' = [k EXCEPT ![g] = First(g)] /\ acc' = [acc EXCEPT ![g] = ZeroSum]
  /\ dpc' = [dpc EXCEPT ![g] = IF r = 0 THEN "done" ELSE IF Enters(g) THEN "loop" ELSE "sum"]

launch ==
  /\ stage = "out" /\ stage' = "run"
  /\ dotRow' = [g \in Groups |-> FirstRow(g)] /\ k' = [g \in Groups |-> First(g)]
  /\ acc' = [g \in Groups |-> ZeroSum] /\ xchg' = [g \in Groups |-> ZeroSum]
  /\ arrived' = {} /\ sums' = [r \in 1..dotKernel.rows |-> {}]
  /\ dpc' = [g \in Groups |-> IF FirstRow(g) = 0 THEN "done" ELSE IF Enters(g) THEN "loop" ELSE "sum"]
  /\ UNCHANGED <<dotKernel, scale, twin, dotBody>>

IterateGroup(g) ==
  /\ stage = "run" /\ dpc[g] = "loop"
  /\ acc' = [acc EXCEPT ![g] = PlusProduct(@, k[g])]
  /\ k' = [k EXCEPT ![g] = (@ + Step) % Wrap]
  /\ dpc' = [dpc EXCEPT ![g] = IF Again(k'[g]) THEN "loop" ELSE "sum"]
  /\ UNCHANGED <<dotRow, xchg, arrived, sums>> /\ UNCHANGED kvars

\* simd_sum alone, or a store to the exchange buffer and a barrier.
simdSum(g) ==
  /\ stage = "run" /\ dpc[g] = "sum" /\ UNCHANGED kvars
  /\ \/ /\ scale = 1
        /\ sums' = [sums EXCEPT ![dotRow[g]] = @ \cup {acc[g]}]
        /\ StartRow(g, NextRow(g)) /\ UNCHANGED <<xchg, arrived>>
     \/ /\ scale > 1
        /\ xchg' = [xchg EXCEPT ![g] = acc[g]]
        /\ arrived' = arrived \cup {g} /\ dpc' = [dpc EXCEPT ![g] = "barrier1"]
        /\ UNCHANGED <<dotRow, k, acc, sums>>

\* A barrier opens when every simdgroup that has not returned is at it: so Apple's
\* GPUs do it; the Metal language asks that all simdgroups of the block reach it.
Live == {g \in Groups : dpc[g] # "done"}
Opens(b) == \A g \in Live : dpc[g] = b
exchange ==
  /\ stage = "run" /\ Live # {} /\ Opens("barrier1")
  /\ dpc' = [g \in Groups |-> IF dpc[g] = "done" THEN "done" ELSE "total"]
  /\ arrived' = {} /\ UNCHANGED <<dotRow, k, acc, xchg, sums>> /\ UNCHANGED kvars

TotalOf(g) == FoldSet(LAMBDA h, s : s (+) xchg[<<h, g[2]>>], ZeroSum, 0..(scale - 1))
total(g) ==
  /\ stage = "run" /\ dpc[g] = "total"
  /\ acc' = [acc EXCEPT ![g] = TotalOf(g)] /\ dpc' = [dpc EXCEPT ![g] = "barrier2"]
  /\ UNCHANGED <<dotRow, k, xchg, arrived, sums>> /\ UNCHANGED kvars

writeBack(g) ==
  /\ stage = "run" /\ dpc[g] = "write"
  /\ sums' = [sums EXCEPT ![dotRow[g]] = @ \cup {acc[g]}]
  /\ StartRow(g, NextRow(g)) /\ UNCHANGED <<xchg, arrived>> /\ UNCHANGED kvars

secondBarrier ==
  /\ stage = "run" /\ Live # {} /\ Opens("barrier2")
  /\ dpc' = [g \in Groups |-> IF dpc[g] = "done" THEN "done" ELSE "write"]
  /\ UNCHANGED <<dotRow, k, acc, xchg, arrived, sums>> /\ UNCHANGED kvars

DNext ==
  \/ recognize \/ metalSchedule \/ emitBody \/ launch
  \/ exchange \/ secondBarrier
  \/ \E g \in Groups : IterateGroup(g) \/ simdSum(g) \/ total(g) \/ writeBack(g)
\* The GPU runs every simdgroup that can move.
DSpec == DInit /\ [][DNext]_dvars /\ WF_dvars(DNext)

-----------------------------------------------------------------------------
\* "Same F": every sum that is written for a row holds every product of that row
\* once, however the loop was split over copies of the block and however the rows
\* fall to the simdgroups.  A rotated loop is entered on the source's first index,
\* so over a row too short for every copy it adds the product that each copy
\* starts with, past the end of the row.
RowProducts == {i \in 0..(dotKernel.K - 1) : i % RowLoop.step = 0}
PastEnd == IF RowLoop.rotated /\ dotKernel.K # 0 THEN {h * RowLoop.step : h \in 0..(scale - 1)} \ RowProducts ELSE {}
SameSum == stage = "run" => \A r \in DOMAIN sums : sums[r] \subseteq {SetToBag(RowProducts \cup PastEnd)}

\* The launched kernel ends and every row has its result: no simdgroup waits at a barrier the others never reach, also
\* when they own different numbers of rows, and no split loop that ends on an order comparison steps past its end.
\* A loop that ends on equality does step past it once it is split, and then the kernel never ends.
StepsOver == dotBody = "emitted" /\ scale > 1 /\ RowLoop.test = "ne" /\ (RowLoop.rotated => dotKernel.K # 0)
Ended == stage = "run" /\ Live = {} /\ \A r \in DOMAIN sums : sums[r] # {}
DotFinishes == /\ stage = "in" ~> Ended \/ (stage = "run" /\ StepsOver)
               /\ [](Ended => ~StepsOver)
=============================================================================
