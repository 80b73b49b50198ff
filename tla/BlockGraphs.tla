---------------------------- MODULE BlockGraphs ----------------------------
(***************************************************************************)
(* The control-flow graph of a kernel and what LLVM's dominator trees and  *)
(* loop information say of it.  A graph gives each block its successors:   *)
(* <<>> for the return block, <<b>>, or <<t, f>> for a branch on the       *)
(* block's own condition.  Block 1 is the entry.                           *)
(***************************************************************************)
EXTENDS Integers, Sequences, FiniteSets, FiniteSetsExt, SequencesExt

Succ(g, b) == Range(g[b])
Pred(g, b) == {a \in DOMAIN g : b \in Succ(g, a)}

RECURSIVE ReachFrom(_, _, _)
ReachFrom(g, seen, bad) ==
  LET more == UNION {Succ(g, b) : b \in seen} \ (seen \cup bad)
  IN IF more = {} THEN seen ELSE ReachFrom(g, seen \cup more, bad)
ReachAvoiding(g, b, bad) == IF b \in bad THEN {} ELSE ReachFrom(g, {b}, bad)
Reach(g, b) == ReachAvoiding(g, b, {})

Dom(g, a, b) == a = b \/ b \notin ReachAvoiding(g, 1, {a})
\* Of each set of blocks that never leave it, the last block is a root too.
Roots(g) == {b \in DOMAIN g : g[b] = <<>>} \cup
            {b \in DOMAIN g : /\ \A c \in Reach(g, b) : g[c] # <<>> /\ c <= b}
PDom(g, a, b) == a = b \/ ReachAvoiding(g, b, {a}) \cap Roots(g) = {}
\* The immediate post-dominator, 0 when it is the virtual root.
IPDom(g, b) == LET S == {a \in DOMAIN g \ {b} : PDom(g, a, b)}
               IN IF S = {} THEN 0 ELSE CHOOSE a \in S : \A c \in S : PDom(g, c, a)

Latches(g, h) == {u \in Pred(g, h) : Dom(g, h, u)}
LoopOf(g, h) == {h} \cup {u \in DOMAIN g : Dom(g, h, u) /\ Latches(g, h) \cap ReachAvoiding(g, u, {h}) # {}}
Headers(g) == {h \in DOMAIN g : Latches(g, h) # {}}
LoopFor(g, b) == LET S == {h \in Headers(g) : b \in LoopOf(g, h)}
                 IN IF S = {} THEN 0 ELSE CHOOSE h \in S : \A k \in S : LoopOf(g, h) \subseteq LoopOf(g, k)
ExitEdges(g, h) == {e \in LoopOf(g, h) \X (DOMAIN g \ LoopOf(g, h)) : e[2] \in Succ(g, e[1])}

\* The graph without its back edges.
Forward(g) == [b \in DOMAIN g |-> SelectSeq(g[b], LAMBDA s : ~Dom(g, s, b))]

\* What FixIrreducible, LoopSimplify and UnifyLoopExits leave: every cycle has
\* a header that dominates it, a preheader, one latch, and exits of its own;
\* StructurizeCFG moves the exit to the latch.
Reducible(g) == LET f == Forward(g) IN \A b \in DOMAIN g : \A s \in Succ(f, b) : b \notin Reach(f, s)
Simplified(g) == \A h \in Headers(g) :
  /\ Cardinality(Latches(g, h)) = 1
  /\ \E p \in Pred(g, h) \ Latches(g, h) : Pred(g, h) \ Latches(g, h) = {p} /\ Len(g[p]) = 1
  /\ \A e \in ExitEdges(g, h) : e[1] \in Latches(g, h) /\ Pred(g, e[2]) \subseteq LoopOf(g, h)
=============================================================================
