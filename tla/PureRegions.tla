---------------------------- MODULE PureRegions ----------------------------
(***************************************************************************)
(* IfConvertPureRegionsPass (msl_emitter.cpp): a single-entry, loop-free   *)
(* region of blocks without memory access or calls is collapsed into its   *)
(* entry; its phis become selects over the conditions of the edges.        *)
(*                                                                         *)
(* trees is the graph the dominator trees were computed from, now the one  *)
(* the sweep has made of it.  The value a phi has is the path that control *)
(* took: inc[b][p] is what the edge p -> b appends to p's value, and is    *)
(* evaluated under one assignment `cond` of the branch conditions.  A      *)
(* condition of a block that was not reached may be poison.                *)
(***************************************************************************)
EXTENDS BlockGraphs, TLC

CONSTANTS Regions, kMaxBlocks, MaxRounds

VARIABLES source, trees, now, cond, pure, inc, order, round

prvars == <<source, trees, now, cond, pure, inc, order, round>>

Poison == <<0>>
Poisoned(v) == v = Poison
False == <<1>>
True == <<2>>
Bool(b) == IF b THEN True ELSE False
Select(c, a, b) == IF Poisoned(c) THEN Poison ELSE IF c = True THEN a ELSE b
NotV(c) == Select(c, False, True)

\* Control in a graph under the conditions: the blocks entered after b.
RECURSIVE Walk(_, _, _)
Walk(g, b, fuel) ==
  IF g[b] = <<>> \/ fuel = 0 THEN <<>>
  ELSE LET s == IF Len(g[b]) = 2 /\ ~cond[b] THEN g[b][2] ELSE g[b][1] IN <<s>> \o Walk(g, s, fuel - 1)
Steps == 2 * Len(source)

\* The phi values along a walk from block p, whose value is v.
RECURSIVE ValueOf(_, _, _)
ValueOf(p, v, w) ==
  IF w = <<>> THEN v
  ELSE LET d == inc[Head(w)][p]
       IN IF Poisoned(d) THEN Poison ELSE ValueOf(Head(w), v \o d, Tail(w))

\* What a branch condition is when E has been entered.
CondAt(E, b) == IF b = E \/ b \in Range(Walk(source, E, Steps)) THEN Bool(cond[b]) ELSE Poison

pureBlock(b) == b \in pure /\ now[b] # <<>>

\* What E reaches before X.
RegionOf(E, X) == IF X = 0 THEN {} ELSE ReachFrom(now, Succ(now, E) \ {X}, {X})

Candidate(E, X) ==
  LET R == RegionOf(E, X)
  IN /\ E \in DOMAIN now /\ Len(now[E]) = 2 /\ now[E][1] # now[E][2]
     /\ X # 0 /\ R # {} /\ E \notin R /\ Cardinality(R) <= kMaxBlocks
     /\ \A b \in R : /\ Dom(trees, E, b) /\ b \notin Headers(trees)
                     /\ LoopFor(trees, b) = LoopFor(trees, E)
                     /\ pureBlock(b)
                     /\ Pred(now, b) \subseteq R \cup {E}

\* Mutant: whether P itself is reached is forgotten.
edgeCondAlone(E, pred, P, S) ==
  LET c == CondAt(E, P)
  IN IF Len(now[P]) = 1 \/ now[P][1] = now[P][2] THEN True ELSE IF now[P][2] = S THEN NotV(c) ELSE c
\* The condition under which P goes to S, pred being the conditions of blocks.
edgeCond(E, pred, P, S) ==
  LET c == CondAt(E, P)
  IN IF Len(now[P]) = 1 \/ now[P][1] = now[P][2] THEN pred[P]
     ELSE Select(pred[P], IF now[P][2] = S THEN NotV(c) ELSE c, False)

RECURSIVE selectChain(_, _, _, _, _, _)
selectChain(E, pred, val, S, froms, v) ==
  LET P == Head(froms)
      d == IF Poisoned(val[P]) THEN Poison ELSE val[P] \o inc[S][P]
  IN IF froms = <<>> THEN v
     ELSE selectChain(E, pred, val, S, Tail(froms), IF v = <<>> THEN d ELSE Select(edgeCond(E, pred, P, S), d, v))

RECURSIVE AnyEdge(_, _, _, _, _)
AnyEdge(E, pred, B, froms, p) ==
  IF froms = <<>> THEN p
  ELSE LET c == edgeCond(E, pred, Head(froms), B)
       IN AnyEdge(E, pred, B, Tail(froms), IF p = <<>> THEN c ELSE Select(p, True, c))

Ascending(S) == SetToSortSeq(S, <)

\* The region's blocks in topological order: [pred, val] of each.
RECURSIVE Collapsed(_, _, _, _)
Collapsed(E, R, pred, val) ==
  LET ready == {b \in R \ DOMAIN pred : Pred(now, b) \subseteq DOMAIN pred}
  IN IF ready = {} THEN [pred |-> pred, val |-> val]
     ELSE LET B == Min(ready)
              froms == Ascending(Pred(now, B))
          IN Collapsed(E, R, (B :> AnyEdge(E, pred, B, froms, <<>>)) @@ pred,
                       (B :> selectChain(E, pred, val, B, froms, <<>>)) @@ val)

collapse(E) ==
  LET X == IPDom(trees, E)
      R == RegionOf(E, X)
      c == Collapsed(E, R, E :> True, E :> <<>>)
      froms == Ascending(Pred(now, X) \cap R) \o (IF X \in Succ(now, E) THEN <<E>> ELSE <<>>)
      live == DOMAIN now \ R
  IN /\ Candidate(E, X)
     /\ R \subseteq DOMAIN c.pred
     /\ now' = [b \in live |-> IF b = E THEN <<X>> ELSE now[b]]
     /\ inc' = [b \in live |-> IF b = X
                 THEN (E :> selectChain(E, c.pred, c.val, X, froms, <<>>))
                      @@ [p \in (DOMAIN inc[X] \ R) \ {E} |-> inc[X][p]]
                 ELSE inc[b]]

\* The next block of the sweep.
sweep ==
  /\ order # <<>>
  /\ order' = Tail(order)
  /\ LET E == Head(order)
         able == E \in DOMAIN now /\ Candidate(E, IPDom(trees, E))
     IN \/ able /\ collapse(E)
        \/ ~able /\ UNCHANGED <<now, inc>>
  /\ UNCHANGED <<source, trees, cond, pure, round>>

\* Another sweep, with fresh trees, while the last one changed something.
run ==
  /\ order = <<>> /\ now # trees /\ round < MaxRounds
  /\ trees' = now /\ round' = round + 1
  /\ order' = Ascending(DOMAIN now)
  /\ UNCHANGED <<source, now, cond, pure, inc>>

PRInit ==
  /\ source \in Regions /\ trees = source /\ now = source
  /\ cond \in [{b \in DOMAIN source : Len(source[b]) = 2} -> BOOLEAN]
  /\ pure \in SUBSET (2..Len(source) - 1)
  /\ inc = [b \in DOMAIN source |-> [p \in Pred(source, b) |-> <<b>>]]
  /\ order = Ascending(DOMAIN source) /\ round = 1
PRNext == sweep \/ run
PRSpec == PRInit /\ [][PRNext]_prvars

-----------------------------------------------------------------------------
\* "A select takes the value of the path the branches would have taken":
\* whatever has been collapsed, in whatever order the sweep met the regions,
\* the phis hold what they held in the source, and no condition of a block
\* that was not reached poisons them.
SamePath ==
  LET w == Walk(source, 1, Steps)
  IN w # <<>> /\ source[Last(w)] = <<>> => ValueOf(1, <<>>, Walk(now, 1, Steps)) = w
=============================================================================
