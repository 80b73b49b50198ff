------------------------------- MODULE Guards -------------------------------
(***************************************************************************)
(* If-conversion of guarded loads and copies (msl_guarded.cpp) and the     *)
(* rewriting of predicated copies, on small loop-free functions.           *)
(*                                                                         *)
(* A block is a record of phis, instructions and terminator: <<>> returns, *)
(* <<b>> branches, <<c, b1, b2>> branches on register c.  An instruction   *)
(* has an operation, a destination register and argument registers.        *)
(* Register ZeroPage holds the address of the zero page.                   *)
(***************************************************************************)
EXTENDS Integers, Sequences, FiniteSets, FiniteSetsExt, SequencesExt

CONSTANTS
  Sources,       \* functions that may be converted
  Inputs,        \* register files a thread may enter them with
  Memory,        \* device memory: address -> value
  MaxArm,        \* instructions an arm may have (128 in the code)
  Rounds         \* passes over the blocks (8 in the code)

ASSUME RoundsAssumption == Rounds \in Nat \ {0} /\ MaxArm \in Nat

VARIABLES
  original,        \* the function as it came
  fn,          \* the function as it is now
  dead,          \* deleted blocks
  passNo, queue,   \* the pass, and the blocks it has still to try
  changed

gvars == <<original, fn, dead, passNo, queue, changed>>

ZeroPage == 0
Freed == -1      \* a register whose instruction was deleted
PageAddress == 99

Speculatable == {"add", "load", "mma", "select", "copy"}
Regs(c) == UNION {{i.d : i \in Range(c[b].insts)} \cup {p.d : p \in Range(c[b].phis)} : b \in DOMAIN c}
Fresh(c) == Max(Regs(c) \cup {50}) + 1

GInit ==
  /\ original \in Sources /\ fn = original
  /\ dead = {} /\ passNo = 0 /\ queue = <<>> /\ changed = TRUE

-----------------------------------------------------------------------------
(* An arm of a guard holds speculatable arithmetic, device loads, mma and at *)
(* most one copy of a whole or an empty source; a barrier, a store, another  *)
(* call, a division or a load that is volatile or not of device memory       *)
(* rejects it.                                                               *)

CopiesOf(b) == SelectSeq(fn[b].insts, LAMBDA i : i.op = "copy")
analyzeArm(b) ==
  /\ Len(fn[b].insts) <= MaxArm
  /\ fn[b].phis = <<>>
  /\ \A i \in Range(fn[b].insts) : i.op \in Speculatable
  /\ Len(CopiesOf(b)) <= 1

Succs(c, b) == IF Len(c[b].term) = 3 THEN {c[b].term[2], c[b].term[3]} ELSE Range(c[b].term)
Preds(c, b) == {p \in DOMAIN c \ dead : b \in Succs(c, p)}
isArm(p, b) == /\ Preds(fn, b) = {p} /\ Len(fn[b].term) = 1
               /\ fn[b].term[1] \notin {b, p}

\* Loads of a hoisted arm read the zero page when the arm is not taken.
hoist(insts, c, taken, next) ==
  LET Step(acc, i) ==
        IF i.op = "copy" THEN acc
        ELSE IF i.op # "load" THEN [acc EXCEPT !.out = Append(@, i)]
        ELSE [out |-> acc.out \o
                <<[op |-> "select", d |-> acc.next, args |-> IF taken THEN <<c, i.args[1], ZeroPage>> ELSE <<c, ZeroPage, i.args[1]>>],
                  [i EXCEPT !.args = <<acc.next>>]>>,
              next |-> acc.next + 1]
  IN FoldLeft(Step, [out |-> <<>>, next |-> next], insts)

RenameIn(insts, old, new) == [k \in DOMAIN insts |->
  [insts[k] EXCEPT !.args = [j \in DOMAIN @ |-> IF @[j] = old THEN new ELSE @[j]]]]

\* Computations of the second arm that the first arm also has are deleted and
\* their uses renamed: [insts, renamed], renamed the deleted registers.
cse(keep, drop) ==
  LET Same(i) == {k \in DOMAIN keep : keep[k].op = i.op /\ keep[k].args = i.args}
      RECURSIVE Go(_, _, _)
      Go(left, out, gone) ==
        IF left = <<>> THEN [insts |-> out, renamed |-> gone]
        ELSE LET i == Head(left)
             IN IF i.op = "load" \/ Same(i) = {} THEN Go(Tail(left), Append(out, i), gone)
                ELSE LET j == keep[Min(Same(i))]
                     IN Go(RenameIn(Tail(left), i.d, j.d), out, Append(gone, <<i.d, j.d>>))
  IN Go(drop, <<>>, <<>>)
Renamed(gone, r) == LET hit == {k \in DOMAIN gone : gone[k][1] = r}
                    IN IF hit = {} THEN r ELSE gone[Min(hit)][2]

\* The copies of both arms become one.  Their operands were noted before the
\* common computations were deleted.
mergeCopies(t, f, gone, c, next) ==
  LET Noted(r) == IF \E k \in DOMAIN gone : gone[k][1] = r THEN Freed ELSE r
      Pick(k, a, b) == IF a = b THEN [reg |-> a, ins |-> <<>>]
                       ELSE [reg |-> k, ins |-> <<[op |-> "select", d |-> k, args |-> <<c, a, b>>]>>]
      dst == Pick(next, t.args[1], Noted(f.args[1]))
      src == Pick(next + 1, t.args[2], Noted(f.args[2]))
      valid == CASE t.valid /\ f.valid -> "always" [] t.valid /\ ~f.valid -> "if" [] OTHER -> "unless"
  IN dst.ins \o src.ins \o <<[op |-> "zsel", d |-> 0, args |-> <<dst.reg, src.reg, c>>, valid |-> valid]>>

\* The phis of the join take a select of the two incoming values.
PhiSelects(j, p, bt, bf, gone, c, next) ==
  LET ph == fn[j].phis
      At(k, b) == Renamed(gone, ph[k].from[b])
      Differs(k) == At(k, bt) # At(k, bf)
  IN [ins |-> FlattenSeq([k \in DOMAIN ph |->
                IF Differs(k) THEN <<[op |-> "select", d |-> next + k, args |-> <<c, At(k, bt), At(k, bf)>>]>> ELSE <<>>]),
      phis |-> [k \in DOMAIN ph |->
                [ph[k] EXCEPT !.from = [b \in (DOMAIN @ \ {bt, bf}) \cup {p} |->
                   IF b # p THEN @[b] ELSE IF Differs(k) THEN next + k ELSE At(k, bt)]]]]

Diamond(p) ==
  LET c == fn[p].term[1]
      bt == fn[p].term[2]
      bf == fn[p].term[3]
      j == fn[bt].term[1]
      ct == CopiesOf(bt)
      cf == CopiesOf(bf)
      ht == hoist(fn[bt].insts, c, TRUE, Fresh(fn))
      hf == hoist(fn[bf].insts, c, FALSE, ht.next)
      cs == cse(ht.out, hf.out)
      merged == IF ct = <<>> THEN <<>> ELSE mergeCopies(ct[1], cf[1], cs.renamed, c, hf.next)
      sel == PhiSelects(j, p, bt, bf, cs.renamed, c, hf.next + 2)
  IN [fn EXCEPT ![p].insts = @ \o ht.out \o cs.insts \o merged \o sel.ins,
                  ![p].term = <<j>>, ![j].phis = sel.phis]
DiamondOk(p) ==
  LET bt == fn[p].term[2]
      bf == fn[p].term[3]
      ct == CopiesOf(bt)
      cf == CopiesOf(bf)
  IN /\ isArm(p, bt) /\ isArm(p, bf) /\ fn[bt].term = fn[bf].term
     /\ analyzeArm(bt) /\ analyzeArm(bf)
     /\ Len(ct) = Len(cf)
     /\ ct # <<>> => ct[1].bytes = cf[1].bytes /\ (ct[1].valid \/ cf[1].valid)

\* A guarded accumulation keeps its chain: the operands of an mma whose result
\* and accumulator meet in the join's phi are zeroed when the arm is skipped.
Used(r) == \E b \in DOMAIN fn : \E i \in Range(fn[b].insts) : r \in Range(i.args)
AccumPhis(j, p, a, i) == {k \in DOMAIN fn[j].phis : fn[j].phis[k].from[a] = i.d /\ fn[j].phis[k].from[p] = i.args[3]}
Accumulates(j, p, a, i) ==
  /\ i.op = "mma" /\ ~Used(i.d)
  /\ Cardinality({k \in DOMAIN fn[j].phis : i.d \in Range(fn[j].phis[k].from)}) <= 1
  /\ {k \in DOMAIN fn[j].phis : i.d \in Range(fn[j].phis[k].from)} = AccumPhis(j, p, a, i)
  /\ \A b \in DOMAIN fn \ {j} : \A k \in DOMAIN fn[b].phis : i.d \notin Range(fn[b].phis[k].from)

ZeroOperands(insts, c, taken, next, Chained(_)) ==
  LET Step(acc, i) ==
        IF ~Chained(i) THEN [acc EXCEPT !.out = Append(@, i)]
        ELSE [out |-> acc.out \o
                [k \in 1..2 |-> [op |-> "mask", d |-> acc.next + k, args |-> <<c, i.args[k]>>, keep |-> taken]]
                \o <<[i EXCEPT !.args = <<acc.next + 1, acc.next + 2, i.args[3]>>]>>,
              next |-> acc.next + 2]
  IN FoldLeft(Step, [out |-> <<>>, next |-> next], insts)

TriangleArm(p) ==
  LET bt == fn[p].term[2]
      bf == fn[p].term[3]
  IN CASE isArm(p, bt) /\ fn[bt].term[1] = bf -> bt
       [] ~(isArm(p, bt) /\ fn[bt].term[1] = bf) /\ isArm(p, bf) /\ fn[bf].term[1] = bt -> bf
       [] OTHER -> 0
\* Mutant: an arm with a copy is hoisted too.
TriangleOkCopies(p) == TriangleArm(p) # 0 /\ analyzeArm(TriangleArm(p))
TriangleOk(p) == TriangleArm(p) # 0 /\ analyzeArm(TriangleArm(p)) /\ CopiesOf(TriangleArm(p)) = <<>>
Triangle(p) ==
  LET c == fn[p].term[1]
      a == TriangleArm(p)
      taken == a = fn[p].term[2]
      j == fn[a].term[1]
      h == hoist(fn[a].insts, c, taken, Fresh(fn))
      Chained(i) == Accumulates(j, p, a, i)
      z == ZeroOperands(h.out, c, taken, h.next, Chained)
      ph == fn[j].phis
      Settled(k) == \E i \in Range(fn[a].insts) : Chained(i) /\ k \in AccumPhis(j, p, a, i)
      Differs(k) == ~Settled(k) /\ ph[k].from[a] # ph[k].from[p]
      V(k, b) == ph[k].from[b]
      sel == FlattenSeq([k \in DOMAIN ph |->
               IF Differs(k) THEN <<[op |-> "select", d |-> z.next + k + 1,
                                     args |-> IF taken THEN <<c, V(k, a), V(k, p)>> ELSE <<c, V(k, p), V(k, a)>>]>> ELSE <<>>])
      phis == [k \in DOMAIN ph |->
                [ph[k] EXCEPT !.from = [b \in DOMAIN @ \ {a} |->
                   IF b # p THEN @[b] ELSE IF Differs(k) THEN z.next + k + 1 ELSE V(k, a)]]]
  IN [fn EXCEPT ![p].insts = @ \o z.out \o sel, ![p].term = <<j>>, ![j].phis = phis]

Branches(p) == p \notin dead /\ Len(fn[p].term) = 3 /\ Cardinality({p} \cup Succs(fn, p)) = 3

tryBranch ==
  /\ queue # <<>> /\ queue' = Tail(queue)
  /\ LET p == Head(queue)
     IN \/ /\ Branches(p) /\ DiamondOk(p)
           /\ fn' = Diamond(p) /\ dead' = dead \cup Succs(fn, p) /\ changed' = TRUE
        \/ /\ Branches(p) /\ TriangleOk(p)
           /\ fn' = Triangle(p) /\ dead' = dead \cup {TriangleArm(p)} /\ changed' = TRUE
        \/ /\ ~(Branches(p) /\ (DiamondOk(p) \/ TriangleOk(p)))
           /\ UNCHANGED <<fn, dead, changed>>
  /\ UNCHANGED <<original, passNo>>

\* A pass over the blocks that are left, until one changes nothing.
ifConvertGuardedLoads ==
  /\ queue = <<>> /\ changed /\ passNo < Rounds
  /\ passNo' = passNo + 1 /\ changed' = FALSE
  /\ queue' = SetToSortSeq(DOMAIN fn \ dead, <)
  /\ UNCHANGED <<original, fn, dead>>

\* setp and a copy that ignores its source: one copy that selects zeros.
lowerPredicatedCopies ==
  /\ passNo = 0 /\ fn = original
  /\ \E b \in DOMAIN fn : \E k \in DOMAIN fn[b].insts : fn[b].insts[k].op = "pcopy"
  /\ fn' = [b \in DOMAIN fn |-> [fn[b] EXCEPT !.insts = FlattenSeq([k \in DOMAIN @ |->
       IF @[k].op # "pcopy" THEN <<@[k]>>
       ELSE <<[op |-> @[k].cmp, d |-> @[k].d, args |-> <<@[k].args[3], @[k].args[4]>>],
              [op |-> "zsel", d |-> 0, args |-> <<@[k].args[1], @[k].args[2], @[k].d>>, valid |-> "unless"]>>])]]
  /\ UNCHANGED <<original, dead, passNo, queue, changed>>

GNext == lowerPredicatedCopies \/ ifConvertGuardedLoads \/ tryBranch
GSpec == GInit /\ [][GNext]_gvars

-----------------------------------------------------------------------------
(* One thread runs a function: registers, shared memory, addresses read.     *)

Load(a) == IF a \in DOMAIN Memory THEN Memory[a] ELSE 0
Copied(s, dst, src, ok) ==
  [s EXCEPT !.shared = [x \in DOMAIN @ \cup {s.reg[dst]} |-> IF x # s.reg[dst] THEN @[x] ELSE IF ok THEN Load(s.reg[src]) ELSE 0],
            !.read = IF ok THEN @ \cup {s.reg[src]} ELSE @]
Set(s, d, v) == [s EXCEPT !.reg = [r \in DOMAIN @ \cup {d} |-> IF r = d THEN v ELSE @[r]]]
Step1(s, i) ==
  LET A(k) == s.reg[i.args[k]]
  IN CASE i.op = "add" -> Set(s, i.d, A(1) + A(2))
       [] i.op = "eq" -> Set(s, i.d, IF A(1) = A(2) THEN 1 ELSE 0)
       [] i.op = "lt" -> Set(s, i.d, IF A(1) < A(2) THEN 1 ELSE 0)
       [] i.op = "select" -> Set(s, i.d, IF A(1) # 0 THEN A(2) ELSE A(3))
       [] i.op = "mask" -> Set(s, i.d, IF (A(1) # 0) = i.keep THEN A(2) ELSE 0)
       [] i.op = "mma" -> Set(s, i.d, A(1) * A(2) + A(3))
       [] i.op \in {"load", "vload"} -> [Set(s, i.d, Load(A(1))) EXCEPT !.read = @ \cup {A(1)}]
       [] i.op = "copy" -> Copied(s, i.args[1], i.args[2], i.valid)
       [] i.op = "pcopy" -> Copied(s, i.args[1], i.args[2],
                              ~(IF i.cmp = "eq" THEN A(3) = A(4) ELSE A(3) < A(4)))
       [] i.op = "zsel" -> Copied(s, i.args[1], i.args[2],
                              CASE i.valid = "always" -> TRUE [] i.valid = "if" -> A(3) # 0 [] OTHER -> A(3) = 0)
       [] i.op = "barrier" -> s

RECURSIVE RunFrom(_, _, _, _)
RunFrom(c, b, from, s) ==
  LET ph == c[b].phis
      In == FoldLeft(LAMBDA t, p : Set(t, p.d, s.reg[p.from[from]]), s, ph)
      Out == FoldLeft(Step1, In, c[b].insts)
  IN CASE c[b].term = <<>> -> [Out EXCEPT !.reg = [k \in DOMAIN ph |-> Out.reg[ph[k].d]]]
       [] Len(c[b].term) = 1 -> RunFrom(c, c[b].term[1], b, Out)
       [] OTHER -> RunFrom(c, IF Out.reg[c[b].term[1]] # 0 THEN c[b].term[2] ELSE c[b].term[3], b, Out)
Run(c, in) == RunFrom(c, 1, 0, [reg |-> Set(Set([reg |-> in], ZeroPage, PageAddress), Freed, PageAddress + 1).reg,
                                shared |-> [x \in {} |-> 0], read |-> {}])

\* After every step of the pass the function leaves the results and the shared
\* memory that the source leaves, and reads device memory at the addresses the
\* source reads and the zero page alone: a guard that kept a thread from a bad
\* address still does.
SameEffect ==
  \A in \in Inputs :
    LET was == Run(original, in)
        now == Run(fn, in)
    IN /\ now.reg = was.reg /\ now.shared = was.shared
       /\ now.read \subseteq was.read \cup {PageAddress}
=============================================================================
