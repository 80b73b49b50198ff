---------------------------- MODULE ControlFlow ----------------------------
(***************************************************************************)
(* Control flow from LLVM blocks to MSL statements (msl_emitter.cpp): the  *)
(* recursive structured emission and the state machine it falls back to.   *)
(*                                                                         *)
(* Every block is taken to have phis, so every edge carries a copy.  The   *)
(* last block of a graph is its one return.                                *)
(***************************************************************************)
EXTENDS BlockGraphs

CONSTANT Graphs

VARIABLES graph, mode, code

cfvars == <<graph, mode, code>>

Blocks == DOMAIN graph
uniqueRet == Len(graph)

-----------------------------------------------------------------------------
(* Joins.                                                                    *)

\* Distance of every block from s on paths that avoid bb.
RECURSIVE Layers(_, _, _, _)
Layers(dist, front, d, bb) ==
  LET next == (UNION {Succ(graph, b) : b \in front} \ DOMAIN dist) \ {bb}
  IN IF next = {} THEN dist
     ELSE Layers([b \in DOMAIN dist \cup next |-> IF b \in next THEN d ELSE dist[b]], next, d + 1, bb)
DistFrom(s, bb) == Layers([b \in {s} |-> 0], {s}, 1, bb)

\* Where the two arms of bb meet first; the return only when nothing else.
nearestJoin(bb, t, e) ==
  LET dt == DistFrom(t, bb)
      de == DistFrom(e, bb)
      both == DOMAIN dt \cap DOMAIN de
      cand == IF both \subseteq {uniqueRet} THEN both ELSE both \ {uniqueRet}
  IN IF t = e THEN t
     ELSE IF cand = {} THEN uniqueRet
     ELSE CHOOSE b \in cand : \A c \in cand : dt[b] + de[b] <= dt[c] + de[c]

InLoop(m, loop, exit) == IF loop # 0 /\ m \notin LoopOf(graph, loop) /\ m # exit THEN exit ELSE m
MergeOf(bb, m) == IF m # 0 THEN m ELSE nearestJoin(bb, graph[bb][1], graph[bb][2])
branchMerge(bb, loop, exit) == InLoop(MergeOf(bb, IPDom(graph, bb)), loop, exit)

\* Reachability that takes no back edge.
forwardReachable(a, b) == b \in Reach(Forward(graph), a)

-----------------------------------------------------------------------------
(* Structured emission.  st is [ok, done, out]: whether emission has not     *)
(* failed, the blocks emitted, and the statements.                           *)

NoLoop == [head |-> 0, exit |-> 0]
Say(st, s) == [st EXCEPT !.out = Append(@, s)]
FailSt(st) == [st EXCEPT !.ok = FALSE]
Inner(st) == [st EXCEPT !.out = <<>>]
emitPhiCopies(st, from, to) == Say(st, [s |-> "copy", from |-> from, to |-> to])
Jump(st, kind) == Say(st, [s |-> kind])
emitBlockInstrs(st, b) == IF b \in st.done THEN FailSt(st)
                          ELSE [Say(st, [s |-> "block", b |-> b]) EXCEPT !.done = @ \cup {b}]
IfElse(st, b, t, f) == [ok |-> t.ok /\ f.ok, done |-> t.done \cup f.done,
                        out |-> Append(st.out, [s |-> "if", b |-> b, then |-> t.out, else |-> f.out])]

RECURSIVE emitChain(_, _, _, _)
RECURSIVE gotoTarget(_, _, _, _, _)

gotoTarget(st, from, s, stopAt, ctx) ==
  LET cp == emitPhiCopies(st, from, s)
  IN IF ~st.ok THEN st
     ELSE IF s = stopAt THEN cp
     ELSE IF stopAt # 0 /\ forwardReachable(stopAt, s) THEN st
     ELSE IF ctx.head # 0 /\ s = ctx.head THEN Jump(cp, "continue")
     ELSE IF ctx.head # 0 /\ s = ctx.exit THEN Jump(cp, "break")
     ELSE IF ctx.head # 0 /\ s \notin LoopOf(graph, ctx.head) THEN FailSt(st)
     ELSE emitChain(cp, s, stopAt, ctx)

\* Mutant: the arm that is the edge to the merge is left empty.
ArmBare(st, b, s, m, ctx, toMerge) == IF toMerge THEN Inner(st) ELSE gotoTarget(Inner(st), b, s, m, ctx)
\* if (c) { arm } else { arm } up to the merge m; the arm that is the edge to
\* the merge itself holds that edge's copies alone.
Arm(st, b, s, m, ctx, toMerge) ==
  IF toMerge THEN emitPhiCopies(Inner(st), b, m) ELSE gotoTarget(Inner(st), b, s, m, ctx)
ElseArm(st, b, m, ctx, then) ==
  IfElse(st, b, then, Arm(then, b, graph[b][2], m, ctx, graph[b][2] = m /\ graph[b][1] # m))
emitBranch(st, b, m, ctx) == ElseArm(st, b, m, ctx, Arm(st, b, graph[b][1], m, ctx, graph[b][1] = m))

LoopExit(b) == LET edges == ExitEdges(graph, b)
               IN IF Cardinality(edges) = 1 THEN (CHOOSE e \in edges : TRUE)[2] ELSE 0
\* What follows a branch of the header b within its loop.
AfterTest(br, b, m, inner) ==
  IF m # 0 /\ m # inner.exit
  THEN IF m = b THEN Jump(br, "continue") ELSE IF br.ok THEN emitChain(br, m, 0, inner) ELSE br
  ELSE IF inner.exit # 0 THEN Jump(br, "break") ELSE br
LoopTest(top, b, m, inner) == AfterTest(emitBranch(top, b, m, inner), b, m, inner)
LoopBody(top, b, inner) ==
  CASE Len(graph[b]) = 0 -> Jump(top, "return")
    [] Len(graph[b]) = 1 -> gotoTarget(top, b, graph[b][1], 0, inner)
    [] OTHER -> LoopTest(top, b, branchMerge(b, b, inner.exit), inner)
Looped(st, body) == [ok |-> body.ok, done |-> body.done, out |-> Append(st.out, [s |-> "loop", body |-> body.out])]
\* What follows the loop of b.
AfterLoop(st, b, exit, stopAt, ctx) ==
  IF ~st.ok \/ exit = 0 \/ exit = stopAt THEN st
  ELSE IF ctx.head # 0 /\ exit = ctx.head THEN Jump(emitPhiCopies(st, b, exit), "continue")
  ELSE IF ctx.head # 0 /\ exit = ctx.exit THEN Jump(st, "break")
  ELSE emitChain(st, exit, stopAt, ctx)
LoopTo(st, b, exit, stopAt, ctx) ==
  IF exit = 0 /\ ExitEdges(graph, b) # {} THEN FailSt(st)
  ELSE AfterLoop(Looped(st, LoopBody(emitBlockInstrs(Inner(st), b), b, [head |-> b, exit |-> exit])), b, exit, stopAt, ctx)
emitLoop(st, b, stopAt, ctx) == LoopTo(st, b, LoopExit(b), stopAt, ctx)

\* The merge of a branch, unless the end of the chain comes first.
EndFirst(m, stopAt) == IF stopAt # 0 /\ m # stopAt /\ m # 0 /\ PDom(graph, m, stopAt) THEN stopAt ELSE m
NotReturn(m, stopAt) == IF stopAt # 0 /\ m = uniqueRet THEN stopAt ELSE m
AfterBranch(br, m, stopAt, ctx) ==
  IF ~br.ok \/ m = stopAt THEN br
  ELSE IF ctx.head # 0 /\ m = ctx.head THEN Jump(br, "continue")
  ELSE IF ctx.head # 0 /\ m = ctx.exit THEN Jump(br, "break")
  ELSE emitChain(br, m, stopAt, ctx)
BranchTo(top, b, m, stopAt, ctx) == AfterBranch(emitBranch(top, b, m, ctx), m, stopAt, ctx)
Branch(top, b, m0, stopAt, ctx) ==
  IF m0 = 0 THEN FailSt(top) ELSE BranchTo(top, b, NotReturn(EndFirst(m0, stopAt), stopAt), stopAt, ctx)
FromBlock(top, b, stopAt, ctx) ==
  IF ~top.ok THEN top
  ELSE IF Len(graph[b]) = 0 THEN Jump(top, "return")
  ELSE IF Len(graph[b]) = 1 THEN gotoTarget(top, b, graph[b][1], stopAt, ctx)
  ELSE Branch(top, b, branchMerge(b, ctx.head, ctx.exit), stopAt, ctx)

emitChain(st, b, stopAt, ctx) ==
  IF ~st.ok \/ (stopAt # 0 /\ b # stopAt /\ forwardReachable(stopAt, b)) THEN st
  ELSE IF b \in Headers(graph) /\ ctx.head # b THEN emitLoop(st, b, stopAt, ctx)
  ELSE FromBlock(emitBlockInstrs(st, b), b, stopAt, ctx)

AllEmitted(st) == IF Reach(graph, 1) \subseteq st.done THEN st ELSE FailSt(st)
emitBodyStructured == AllEmitted(emitChain([ok |-> TRUE, done |-> {}, out |-> <<>>], 1, 0, NoLoop))

\* One case per block, which copies for its edge and sets the next block.
emitBodyStateMachine ==
  [b \in Reach(graph, 1) |->
     [i \in DOMAIN graph[b] |-> emitPhiCopies(Inner([out |-> <<>>]), b, graph[b][i]).out
                               \o <<[s |-> "block", b |-> graph[b][i]]>>]]

CFInit == graph \in Graphs /\ mode = "in" /\ code = <<>>

\* Structured when asked for and when it can be, else a switch over the blocks.
emitKernel ==
  /\ mode = "in" /\ graph' = graph
  /\ \E structured \in BOOLEAN, st \in {emitBodyStructured} :
       \/ structured /\ st.ok /\ mode' = "structured" /\ code' = st.out
       \/ ~(structured /\ st.ok) /\ mode' = "machine" /\ code' = emitBodyStateMachine
CFNext == emitKernel
CFSpec == CFInit /\ [][CFNext]_cfvars

-----------------------------------------------------------------------------
(* What the statements do.  From the end of a block under a decision control *)
(* passes copies and jumps to the next block; Lost is falling off the end.   *)

To(b) == [copies |-> <<>>, to |-> b]
Lost == [copies |-> <<>>, to |-> 0]
RECURSIVE Enter(_, _, _, _)
Enter(ss, k, brk, cnt) ==
  IF ss = <<>> THEN k
  ELSE LET h == Head(ss)
           rest == Enter(Tail(ss), k, brk, cnt)
       IN CASE h.s = "block" -> To(h.b)
            [] h.s = "copy" -> [rest EXCEPT !.copies = <<<<h.from, h.to>>>> \o @]
            [] h.s = "continue" -> cnt
            [] h.s = "break" -> brk
            [] h.s = "loop" -> Enter(h.body, Lost, Lost, Lost)
            [] OTHER -> Lost

RECURSIVE Flow(_, _, _, _)
Flow(ss, k, brk, cnt) ==
  IF ss = <<>> THEN {}
  ELSE LET h == Head(ss)
           t == Tail(ss)
           after == Enter(t, k, brk, cnt)
           head1 == IF h.s = "loop" THEN Enter(h.body, Lost, Lost, Lost) ELSE Lost
       IN Flow(t, k, brk, cnt) \cup
          CASE h.s = "block" ->
                 IF t # <<>> /\ Head(t).s = "if" THEN {}
                 ELSE IF graph[h.b] = <<>> THEN {} ELSE {<<h.b, 1, after>>}
            [] h.s = "if" ->
                 {<<h.b, 1, Enter(h.then, after, brk, cnt)>>, <<h.b, 2, Enter(h.else, after, brk, cnt)>>}
                 \cup Flow(h.then, after, brk, cnt) \cup Flow(h.else, after, brk, cnt)
            [] h.s = "loop" -> Flow(h.body, head1, after, head1)
            [] OTHER -> {}

\* The edges of the emitted body: block, decision, copies made, block entered.
Edges ==
  CASE mode = "structured" -> Flow(code, Lost, Lost, Lost)
    [] mode = "machine" -> UNION {{<<b, i, Enter(code[b][i], Lost, Lost, Lost)>> : i \in DOMAIN code[b]} : b \in DOMAIN code}
    [] OTHER -> {}

\* The emitted body goes from block to block as the blocks themselves do,
\* under every decision, and each edge runs its own phi copies and no others:
\* what the structured form would duplicate or skip is refused and left to the
\* state machine.
EdgesKept ==
  mode \in {"structured", "machine"} =>
    Edges = UNION {{<<b, i, [copies |-> <<<<b, graph[b][i]>>>>, to |-> graph[b][i]]>> : i \in DOMAIN graph[b]} : b \in Blocks}
=============================================================================
