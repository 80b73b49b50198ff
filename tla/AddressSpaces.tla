---------------------------- MODULE AddressSpaces ----------------------------
(* Which memory a pointer of the emitted program points to (msl_emitter.cpp): MSL has no generic pointers, so   *)
(* the emitter gives every pointer one space, found by walking back to the objects it is made from, through     *)
(* private memory that pointers were stored to; a pointer of several spaces carries a tag.  A phi of pointers   *)
(* of several spaces is first taken apart into loads, where that is possible.                                   *)
(* A program is a sequence of nodes [op, a]: objects; gep, select and phi of pointers; "int" and "ptr", the     *)
(* conversions; "vec" of two integers and "elem", one of them; "store" of a value to a slot of one private      *)
(* object (value, slot) and "load", "loadi", "loadv" of a pointer, an integer or two of them from a slot.       *)
EXTENDS Naturals, Integers, Sequences, FiniteSets, SequencesExt

CONSTANTS Objects,    \* the nodes of the objects, which every program starts with
          Stored,     \* the stores that may follow them: sequences of nodes
          Shapes,     \* the nodes that may be appended; an operand 0 is the newest node, -1 the next one
          MaxGrown,   \* bound on the nodes appended
          Joins       \* blocks with a phi of pointers: [ins, body]

VARIABLES nodes, grown,
          join        \* the block whose phi is split, or no block
asvars == <<nodes, grown, join>>
NoJoin == [ins |-> <<>>, body |-> <<>>]

-----------------------------------------------------------------------------
(* ptrAS.  A walk returns the space found and the nodes visited; NoOpinion: nothing is known of it. *)

NoOpinion == -1
Device == 0
Shared == 3
Table == 4
Private == 5
Mixed == 6
\* Mutant: the first opinion wins.
mergeASFirst(a, b) == IF a = NoOpinion THEN b ELSE a
mergeAS(a, b) == CASE a = NoOpinion -> b [] b = NoOpinion -> a [] OTHER -> IF a = b THEN a ELSE Mixed
R(as, vis) == [as |-> as, vis |-> vis]

IsInt(n) == nodes[n].op \in {"int", "elem", "loadi", "num", "iselect", "iphi"}
IsVec(n) == nodes[n].op \in {"vec", "loadv"}
AnySlot == 2   \* a slot whose offset is not constant
\* The stores that can reach a slot, in program order.  A store of a vector covers both slots.
StoresAt(slot) == SelectSeq([n \in DOMAIN nodes |-> n],
    LAMBDA n : nodes[n].op = "store" /\ (slot = AnySlot \/ nodes[n].a[2] \in {slot, AnySlot} \/ IsVec(nodes[n].a[1])))

RECURSIVE ptrAS(_, _), intPtrAS(_, _), storedPtrAS(_, _), storedElemAS(_, _, _), slotStoresAS(_, _)
ptrAS(p, vis) ==
    LET d == nodes[p]
    IN  CASE d.op \in {"device", "shared", "table", "private"} ->
               R([device |-> Device, shared |-> Shared, table |-> Table, private |-> Private][d.op], vis)
          [] d.op = "null" -> R(NoOpinion, vis)
          [] d.op = "gep" -> ptrAS(d.a[1], vis)
          [] d.op = "ptr" -> LET r == intPtrAS(d.a[1], vis) IN R(IF r.as = NoOpinion THEN Device ELSE r.as, r.vis)
          [] d.op \in {"select", "phi"} ->
               IF p \in vis THEN R(NoOpinion, vis)
               ELSE LET x == ptrAS(d.a[1], vis \cup {p})
                        y == ptrAS(d.a[2], x.vis)
                    IN  R(mergeAS(x.as, y.as), y.vis)
          [] d.op = "load" -> IF p \in vis THEN R(NoOpinion, vis) ELSE slotStoresAS(d.a[1], vis \cup {p})
slotStoresAS(slot, vis) ==
    FoldLeft(LAMBDA acc, n :
                 LET v == nodes[n].a[1]
                     r == IF slot # AnySlot /\ nodes[n].a[2] # AnySlot /\ IsVec(v) THEN storedElemAS(v, slot, acc.vis)
                          ELSE storedPtrAS(v, acc.vis)
                 IN  R(mergeAS(acc.as, r.as), r.vis), R(NoOpinion, vis), StoresAt(slot))
storedElemAS(v, k, vis) == IF nodes[v].op = "vec" THEN storedPtrAS(nodes[v].a[k + 1], vis) ELSE storedPtrAS(v, vis)
\* An integer or a vector that is not seen to be made from pointers: a phi, a select or a load is taken to hold
\* device pointers, anything else none.
storedPtrAS(v, vis) ==
    LET d == nodes[v]
    IN  CASE d.op = "int" -> ptrAS(d.a[1], vis)
          [] d.op = "vec" -> LET x == storedPtrAS(d.a[1], vis)
                                 y == storedPtrAS(d.a[2], x.vis)
                             IN  R(mergeAS(x.as, y.as), y.vis)
          [] d.op \in {"iphi", "iselect", "loadi", "loadv"} -> R(Device, vis)
          [] d.op \in {"elem", "num"} -> R(NoOpinion, vis)
          [] OTHER -> ptrAS(v, vis)
intPtrAS(v, vis) ==
    LET d == nodes[v]
        from == d.a[1]
    IN  CASE d.op = "int" -> ptrAS(from, vis)
          [] d.op = "loadi" -> IF v \in vis THEN R(NoOpinion, vis) ELSE slotStoresAS(from, vis \cup {v})
          [] d.op = "elem" -> IF nodes[from].op # "loadv" THEN storedElemAS(from, d.a[2], vis)
                              ELSE IF from \in vis THEN R(NoOpinion, vis)
                              ELSE slotStoresAS(d.a[2], vis \cup {from})
          [] d.op \in {"iphi", "iselect"} ->
               IF v \in vis THEN R(NoOpinion, vis)
               ELSE LET x == intPtrAS(d.a[1], vis \cup {v})
                        y == intPtrAS(d.a[2], x.vis)
                    IN  R(mergeAS(x.as, y.as), y.vis)
          [] OTHER -> R(NoOpinion, vis)
SpaceOf(p) == LET r == ptrAS(p, {}) IN IF r.as = NoOpinion THEN Device ELSE r.as

-----------------------------------------------------------------------------
(* SplitMixedPtrPhiPass: ins gives the pointers that come in, [space, ptr]; body is the block after the phi: a  *)
(* "load" of the phi, a "write" to memory, an "other" use of the phi.                                           *)

Splittable(j) ==
    /\ \E i \in DOMAIN j.ins : j.ins[i].space # j.ins[1].space
    /\ "load" \in ToSet(j.body) /\ "other" \notin ToSet(j.body)
    /\ \A l \in DOMAIN j.body : j.body[l] = "load" => \A k \in 1..l - 1 : j.body[k] # "write"
\* What the loads read, coming from ins[i]: the pointer and the writes before it.  Sunk, they run before the block.
ReadAt(j, i, l) == <<j.ins[i].ptr, Cardinality({k \in 1..l - 1 : j.body[k] = "write"})>>
Loads(j) == {l \in DOMAIN j.body : j.body[l] = "load"}
SplitPhi(j, i) == [l \in Loads(j) |-> IF Splittable(j) THEN <<j.ins[i].ptr, 0>> ELSE ReadAt(j, i, l)]

-----------------------------------------------------------------------------
ASInit == \/ join = NoJoin /\ grown = 0 /\ \E st \in Stored : nodes = Objects \o st
          \/ join \in Joins /\ grown = 0 /\ nodes = <<>>

Uses(n) == CASE nodes[n].op \in {"load", "loadi", "loadv", "num"} -> {}
             [] nodes[n].op \in {"elem", "store"} -> {nodes[n].a[1]}
             [] OTHER -> ToSet(nodes[n].a)
Typed == \A n \in DOMAIN nodes : \A x \in Uses(n) \cap DOMAIN nodes :
    CASE nodes[n].op \in {"ptr", "iselect", "iphi", "vec"} -> IsInt(x)
      [] nodes[n].op = "elem" -> IsVec(x)
      [] nodes[n].op = "store" -> TRUE
      [] OTHER -> ~IsInt(x) /\ ~IsVec(x) /\ nodes[x].op # "store"
\* The program grows by a node.
AddNode == \E sh \in Shapes :
    /\ join = NoJoin /\ grown < MaxGrown
    /\ LET At(x) == CASE x = 0 -> Len(nodes) [] x = -1 -> Len(nodes) + 2 [] OTHER -> x
           ref == CASE sh.op \in {"load", "loadi", "loadv"} -> {} [] sh.op = "elem" -> {1} [] OTHER -> DOMAIN sh.a
       IN  nodes' = Append(nodes, [sh EXCEPT !.a = [k \in DOMAIN sh.a |-> IF k \in ref THEN At(sh.a[k]) ELSE sh.a[k]]])
    /\ Typed'
    /\ grown' = grown + 1
    /\ UNCHANGED join
ASNext == AddNode
ASSpec == ASInit /\ [][ASNext]_asvars

\* No operand is missing.
Complete == \A n \in DOMAIN nodes : Uses(n) \subseteq DOMAIN nodes

\* Where the values can point when the program runs: <<node, element, space>>.
RECURSIVE Reaching(_)
Reaching(S) ==
    LET More(n) ==
            LET d == nodes[n]
                Of(x, e, k) == {<<n, k, t[3]>> : t \in {t \in S : t[1] = x /\ t[2] = e}}
                Slot(s, k) == UNION {IF IsVec(nodes[m].a[1])
                                     THEN UNION {Of(nodes[m].a[1], e, k) : e \in IF AnySlot \in {s, nodes[m].a[2]} THEN {0, 1} ELSE {s}}
                                     ELSE Of(nodes[m].a[1], 0, k) : m \in ToSet(StoresAt(s))}
            IN  CASE d.op \in {"device", "shared", "table", "private"} -> {<<n, 0, SpaceOf(n)>>}
                  [] d.op \in {"gep", "int", "ptr"} -> Of(d.a[1], 0, 0)
                  [] d.op \in {"select", "phi", "iselect", "iphi"} -> Of(d.a[1], 0, 0) \cup Of(d.a[2], 0, 0)
                  [] d.op = "vec" -> Of(d.a[1], 0, 0) \cup Of(d.a[2], 0, 1)
                  [] d.op = "elem" -> Of(d.a[1], d.a[2], 0)
                  [] d.op \in {"load", "loadi"} -> Slot(d.a[1], 0)
                  [] d.op = "loadv" -> Slot(0, 0) \cup Slot(1, 1)
                  [] OTHER -> {}
        all == S \cup UNION {More(n) : n \in DOMAIN nodes}
    IN  IF all = S THEN S ELSE Reaching(all)

\* A node is made from both elements of one vector that was read from private memory.
RECURSIVE Slice(_)
Slice(S) == LET more == S \cup UNION {Uses(n) : n \in S} IN IF more = S THEN S ELSE Slice(more)
BothRead(n) == LET s == Slice({n}) IN \E x, y \in s : /\ nodes[x].op = "elem" /\ nodes[y].op = "elem" /\ nodes[x].a[1] = nodes[y].a[1]
                                                      /\ nodes[x].a[2] # nodes[y].a[2] /\ nodes[nodes[x].a[1]].op = "loadv"

\* The space of a pointer holds everything it can point to, unless it is a tagged pointer or both elements of a
\* vector read back from private memory go into it.
SpacesCover ==
    join = NoJoin /\ Complete =>
        LET reach == Reaching({})
        IN  \A n \in DOMAIN nodes :
               ~IsInt(n) /\ ~IsVec(n) /\ nodes[n].op # "store" /\ ~BothRead(n) =>
                   LET as == SpaceOf(n) IN as = Mixed \/ \A t \in reach : t[1] = n => t[3] = as

\* Loads moved before the join read what they read after it, along each way in.
SunkSame == \A i \in DOMAIN join.ins : SplitPhi(join, i) = [l \in Loads(join) |-> ReadAt(join, i, l)]

\* A pointer is emitted as a pointer of the space it points to, or as a tagged one, whatever path made it, private
\* memory included (ptrAS), and splitting a phi of pointers changes no value read (SplitMixedPtrPhiPass): an access
\* in another space would read other memory.
PointersRight == SpacesCover /\ SunkSame
=============================================================================
