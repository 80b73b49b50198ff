--------------------------- MODULE TensorRecovery ---------------------------
(* Recovery of mma.sync warp tiles (tensor_recovery.cpp, KernelRecovery): the mmas of a kernel are chained by  *)
(* their accumulators, their fragments traced to the ldmatrix instructions or register blocks they come from,  *)
(* two n8 tiles paired into one 16-wide block, the complete grids fused into matmul2d operations, and the      *)
(* kernel rewritten so that fragments and accumulators travel in the operation's own slot order.               *)
(*                                                                                                             *)
(* A kernel is straight-line code with at most one loop: blocks "pre", "body" and "exit", so one instruction   *)
(* dominates another exactly when it comes first.  A value is <<"x", i, f>> (field f of the result of          *)
(* instruction i), <<"w", i>> (a word computed or loaded by i), <<"phi", k>> (the loop's k-th phi), an         *)
(* argument or zero.  wr marks an instruction before which memory is written.  Fields, matrices and blocks     *)
(* count from 1.  The expected results are bags of products, as a matmul is free in the order of its sums.     *)
EXTENDS Naturals, Integers, Sequences, FiniteSets, Bags, SequencesExt, FiniteSetsExt, TLC

CONSTANTS Kernels,   \* the kernels given to the pass
          GroupM, GroupN, GroupK   \* fusion caps in blocks along M, N and in k-steps (0: the default)

ASSUME CapsAreNaturals == GroupM \in Nat /\ GroupN \in Nat /\ GroupK \in Nat

VARIABLES kernel,   \* [code, phi, trips]: the kernel being recovered
          pc,       \* the pass about to run
          mma,      \* the record of each mma, by its position in the code (MmaRec)
          ld,       \* the record of each operand block, by its identity (LdRec)
          ops,      \* the fused operations (FusedOp)
          slots,    \* [groups, padIn]: bundles of values in slot order (SlotGroup) and the padding phis' inputs
          code      \* the rewritten code and phis

trvars == <<kernel, pc, mma, ld, ops, slots, code>>

None == <<"none">>
Zero == <<"0">>
Poison == <<"poison">>
X(i, f) == <<"x", i, f>>
Inst(i) == kernel.code[i]
Phi(k) == kernel.phi[k]
At(id) == id[2]
\* A set of positions in program order.
InOrder(S) == SelectSeq([i \in DOMAIN kernel.code |-> i], LAMBDA i : i \in S)
MmaOrder == InOrder({i \in DOMAIN kernel.code : Inst(i).op = "mma"})
IsPhi(v) == v[1] = "phi"
IsField(v, op) == v[1] = "x" /\ Inst(v[2]).op = op

Operands(i) == CASE i.op = "mma" -> i.a \o i.b \o i.c [] i.op = "use" -> i.vs [] OTHER -> <<>>
InstUses(v) == {<<j, n>> \in UNION {{j} \X DOMAIN Operands(Inst(j)) : j \in DOMAIN kernel.code} :
                   Operands(Inst(j))[n] = v}
PhiUses(v) == {k \in DOMAIN kernel.phi : v \in {Phi(k).init, Phi(k).next}}

-----------------------------------------------------------------------------
(* Collection. *)

\* An ldmatrix.x1 and an mma of another shape or type are recorded, but cannot be recovered.
NewLd(nx, trans) ==
    [ok |-> nx # 1, nx |-> nx, trans |-> trans, kind |-> -1, blocks |-> <<0, 0, 0, 0>>, merged |-> None,
     parts |-> <<>>, reg |-> FALSE, solo |-> FALSE, words |-> <<>>, devUsed |-> FALSE, first |-> 0]
NewMma(i) ==
    [ok |-> Inst(i).type # "other", aSrc |-> <<>>, bSrc |-> <<>>, aPerm |-> <<>>, bPerm |-> <<>>, prev |-> 0,
     next |-> 0, level |-> 0, pair |-> 0, nh |-> 0, solo |-> FALSE]

collect ==
    /\ pc = "collect"
    /\ mma' = [i \in ToSet(MmaOrder) |-> NewMma(i)]
    /\ ld' = [id \in {<<"ld", i>> : i \in {i \in DOMAIN kernel.code : Inst(i).op = "ld"}} |-> NewLd(Inst(At(id)).nx, Inst(At(id)).trans)]
    /\ pc' = IF MmaOrder = <<>> THEN "exact" ELSE "analyzeChains"
    /\ UNCHANGED <<kernel, ops, slots, code>>

-----------------------------------------------------------------------------
(* Chains of mmas through their accumulators. *)

\* The mma all of whose results, in order, are the accumulator of y, and nothing else's operands.
ChainedTo(s, y) ==
    LET c == Inst(y).c
        x == c[1][2]
    IN  IF /\ \A r \in 1..4 : IsField(c[r], "mma") /\ c[r] = X(x, r)
           /\ s[x].ok /\ s[x].next = 0 /\ x < y
           /\ \A r \in 1..4 : PhiUses(X(x, r)) = {} /\ InstUses(X(x, r)) = {<<y, 6 + r>>}
        THEN x ELSE 0

Chain(s, y) ==
    LET x == IF s[y].ok THEN ChainedTo(s, y) ELSE 0
    IN  IF x = 0 THEN s
        ELSE [s EXCEPT ![x].next = y, ![y].prev = x]

RECURSIVE LevelOf(_, _)
LevelOf(s, m) == IF s[m].prev = 0 THEN 0 ELSE 1 + LevelOf(s, s[m].prev)

analyzeChains ==
    /\ pc = "analyzeChains"
    /\ LET s == FoldLeft(Chain, mma, MmaOrder)
       IN  mma' = [m \in DOMAIN s |-> [s[m] EXCEPT !.level = LevelOf(s, m)]]
    /\ pc' = "analyzeOperands"
    /\ UNCHANGED <<kernel, ld, ops, slots, code>>

-----------------------------------------------------------------------------
(* Where the fragments come from.  s = [mma, ld] is the state the helpers change. *)

Fail(s, S) == [s EXCEPT !.mma = [m \in DOMAIN s.mma |-> IF m \in S THEN [s.mma[m] EXCEPT !.ok = FALSE] ELSE s.mma[m]]]
SetLd(s, id, rec) == [s EXCEPT !.ld = (id :> rec) @@ s.ld]

\* Two ldmatrix.x2 of one block become one four-matrix block filled at the first of them, whose position the
\* leaves of the second's address must dominate.  The memory read between the two is not looked at.
fuseX2(s, p, q) ==
    LET a == IF At(p) <= At(q) THEN p ELSE q
        b == IF At(p) <= At(q) THEN q ELSE p
        comp == <<"x2", At(a), At(b)>>
        no == [s |-> s, id |-> None]
        A == s.ld[a]
        B == s.ld[b]
    IN  CASE a = b \/ A.nx # 2 \/ B.nx # 2 -> no
          [] A.merged # None \/ B.merged # None ->
               IF A.merged = B.merged THEN [s |-> s, id |-> A.merged] ELSE no
          [] ~A.ok \/ ~B.ok \/ A.trans # B.trans \/ Inst(At(b)).addr > At(a) -> no
          [] OTHER ->
               [id |-> comp,
                s |-> [SetLd(s, comp, [NewLd(4, A.trans) EXCEPT !.parts = <<a, b>>])
                         EXCEPT !.ld[a].merged = comp, !.ld[b].merged = comp]]

\* The tuples of ldmatrix fields a tuple of registers can hold, followed through phis as tuples.
RECURSIVE Leaves(_, _)
Leaves(vs, seen) ==
    IF vs \in seen THEN <<>>
    ELSE IF ~IsPhi(vs[1]) THEN <<vs>>
    ELSE IF \E n \in DOMAIN vs : ~IsPhi(vs[n]) THEN <<[n \in DOMAIN vs |-> None]>>
    ELSE LET in == [n \in DOMAIN vs |-> Phi(vs[n][2]).init]
             nx == [n \in DOMAIN vs |-> Phi(vs[n][2]).next]
         IN  Leaves(in, seen \cup {vs}) \o Leaves(nx, seen \cup {vs, in})

\* One leaf: extracts of one ldmatrix, or of two x2 that fuse; the fields in the same order on every path.
Leaf(t, vs) ==
    LET n == Len(vs)
        recs == [k \in 1..n |-> <<"ld", vs[k][2]>>]
        first == recs[1]
        others == ToSet(recs) \ {first}
        no == [t EXCEPT !.ok = FALSE]
        Take(s, id, p) ==
            IF t.perm # <<>> /\ t.perm # p THEN [t EXCEPT !.ok = FALSE, !.s = s]
            ELSE [t EXCEPT !.s = s, !.perm = p, !.srcs = IF id \in ToSet(@) THEN @ ELSE Append(@, id)]
        fields == [k \in 1..n |-> vs[k][3]]
    IN  IF ~t.ok THEN t
        ELSE IF \E k \in 1..n : ~IsField(vs[k], "ld") THEN no
        ELSE IF ~t.s.ld[first].ok THEN no
        ELSE IF others = {} THEN Take(t.s, first, fields)
        ELSE IF Cardinality(others) > 1 \/ n # 4 THEN no
        ELSE LET f == fuseX2(t.s, first, CHOOSE o \in others : TRUE)
             IN  IF f.id = None THEN no
                 ELSE Take(f.s, f.id, [k \in 1..n |-> fields[k] + (IF recs[k] = f.s.ld[f.id].parts[1] THEN 0 ELSE 2)])

Resolved(t, n) ==
    LET distinct == IF n = 4 THEN ToSet(t.perm) = 1..4 ELSE t.perm[1] # t.perm[2]
    IN  [t EXCEPT !.ok = t.ok /\ t.srcs # <<>> /\ distinct]
resolveTuple(s, vs) ==
    Resolved(FoldLeft(Leaf, [ok |-> TRUE, s |-> s, srcs |-> <<>>, perm |-> <<>>], Leaves(vs, {})), Len(vs))

\* No ldmatrix field reaches any of the words: a block the kernel assembled in registers.
isRegTuple(vs) == \A n \in DOMAIN vs : \A t \in ToSet(Leaves(<<vs[n]>>, {})) : ~IsField(t[1], "ld")

regBlock(s, words, kind) ==
    LET id == <<"reg", words>>
    IN  [id |-> id,
         s |-> IF id \in DOMAIN s.ld THEN s
               ELSE SetLd(s, id, [NewLd(4, FALSE) EXCEPT !.reg = TRUE, !.words = words, !.kind = kind,
                                                         !.blocks = <<1, 2, 3, 4>>])]

\* An ldmatrix feeds one operand, and its fields the same 8x8 blocks in every mma.
Claim(s, m, id, kind, blocks) ==
    LET rec == s.ld[id]
        clash == \E r \in 1..4 : rec.blocks[r] # 0 /\ rec.blocks[r] # blocks[r]
    IN  IF rec.kind = 1 - kind THEN Fail(s, {m})
        ELSE IF clash THEN Fail(SetLd(s, id, [rec EXCEPT !.kind = kind]), {m})
        ELSE SetLd(s, id, [rec EXCEPT !.kind = kind, !.blocks = blocks])

OperandA(s, words) ==
    IF isRegTuple(words)
    THEN LET block == regBlock(s, words, 0) IN [ok |-> TRUE, s |-> block.s, srcs |-> <<block.id>>, perm |-> <<1, 2, 3, 4>>]
    ELSE resolveTuple(s, words)
OperandB(s, words) == IF isRegTuple(words) THEN [ok |-> TRUE, s |-> s, srcs |-> <<>>, perm |-> <<>>] ELSE resolveTuple(s, words)
ClaimA(s, m) == FoldLeft(LAMBDA t, id : Claim(t, m, id, 0, s.mma[m].aPerm), s, s.mma[m].aSrc)
ClaimB(s, m) == FoldLeft(LAMBDA t, id : IF t.ld[id].kind = 0 THEN Fail(t, {m}) ELSE [t EXCEPT !.ld[id].kind = 1], s, s.mma[m].bSrc)
WithB(A, B, m) ==
    IF ~B.ok THEN Fail(B.s, {m})
    ELSE ClaimB(ClaimA([B.s EXCEPT !.mma[m].aSrc = A.srcs, !.mma[m].aPerm = A.perm,
                                   !.mma[m].bSrc = B.srcs, !.mma[m].bPerm = B.perm], m), m)
WithA(A, m) == IF ~A.ok THEN Fail(A.s, {m}) ELSE WithB(A, OperandB(A.s, Inst(m).b), m)
Operand(s, m) == IF ~s.mma[m].ok THEN s ELSE WithA(OperandA(s, Inst(m).a), m)

\* The register block of a B tuple, and the half of the block the tuple is (table: tuple -> <<block, half>>).
PutB(s, x, id, half, solo) ==
    [s EXCEPT !.mma[x].bSrc = <<id>>, !.mma[x].bPerm = <<2 * half + 1, 2 * half + 2>>, !.mma[x].solo = solo]
FreeB(s, c) == s.mma[c].ok /\ s.mma[c].bSrc = <<>>
Alone(t, m, b, block) ==
    [t EXCEPT !.s = PutB([block.s EXCEPT !.ld[block.id].solo = TRUE], m, block.id, 0, TRUE),
              !.table = (b :> <<block.id, 0>>) @@ @]
Together(t, m, o, block) ==
    [t EXCEPT !.s = PutB(PutB(block.s, m, block.id, 0, FALSE), o, block.id, 1, FALSE),
              !.table = (Inst(m).b :> <<block.id, 0>>) @@ (Inst(o).b :> <<block.id, 1>>) @@ @]
Known(t, m, entry) == [t EXCEPT !.s = PutB(@, m, entry[1], entry[2], t.s.ld[entry[1]].solo)]
Paired(t, m, partners) ==
    LET b == Inst(m).b
        o == Min(partners)
    IN  IF partners = {} THEN Alone(t, m, b, regBlock(t.s, b \o <<Zero, Zero>>, 1))
        ELSE Together(t, m, o, regBlock(t.s, b \o Inst(o).b, 1))
RegisterB(t, m) ==
    LET b == Inst(m).b
        Fits(c) == /\ c > m /\ FreeB(t.s, c) /\ t.s.mma[c].level = t.s.mma[m].level
                   /\ Inst(c).blk = Inst(m).blk /\ Inst(c).a = Inst(m).a
                   /\ Inst(c).b # b /\ Inst(c).b \notin DOMAIN t.table
    IN  IF ~FreeB(t.s, m) THEN t
        ELSE IF b \in DOMAIN t.table THEN Known(t, m, t.table[b])
        ELSE Paired(t, m, {c \in t.regs : Fits(c)})

RegisterBlocks(s, regs) == FoldLeft(RegisterB, [s |-> s, regs |-> regs, table |-> <<>>], InOrder(regs)).s
analyzeOperands ==
    /\ pc = "analyzeOperands"
    /\ \E s \in {FoldLeft(Operand, [mma |-> mma, ld |-> ld], MmaOrder)} :
         \E t \in {RegisterBlocks(s, {m \in DOMAIN mma : s.mma[m].ok /\ isRegTuple(Inst(m).b)})} :
           mma' = t.mma /\ ld' = t.ld
    /\ pc' = "pairMmas"
    /\ UNCHANGED <<kernel, ops, slots, code>>

-----------------------------------------------------------------------------
(* Two n8 tiles of one A block and one B block form a 16-wide tile. *)

\* The two sides come from ldmatrix.x2 instructions: they fuse block by block, in the same order on every path.
FuseOne(t, l, f) ==
    LET off == IF f.s.ld[f.id].parts[1] = l THEN 0 ELSE 2
    IN  IF f.id = None \/ (t.comps # <<>> /\ t.off # off) THEN [t EXCEPT !.ok = FALSE, !.s = f.s]
        ELSE [ok |-> TRUE, off |-> off, comps |-> Append(t.comps, f.id), s |-> [f.s EXCEPT !.ld[f.id].kind = 1]]
Shifted(perm, by) == [n \in 1..2 |-> perm[n] + by]
MovePair(t, m, o) ==
    IF ~t.ok THEN t
    ELSE [t EXCEPT !.s = [t.s EXCEPT !.mma[m].bSrc = t.comps, !.mma[o].bSrc = t.comps,
                                     !.mma[m].bPerm = Shifted(@, t.off), !.mma[o].bPerm = Shifted(@, 2 - t.off)]]
FusePairs(s, m, o) ==
    LET ms == s.mma[m].bSrc
        os == s.mma[o].bSrc
        x2 == \A id \in ToSet(ms) \cup ToSet(os) : s.ld[id].nx = 2 /\ s.ld[id].parts = <<>>
        Partners(l) == {c \in ToSet(os) : Inst(At(c)).blk = Inst(At(l)).blk}
        Partner(l) == CHOOSE c \in Partners(l) : TRUE
        paired == \A l \in ToSet(ms) : /\ Cardinality(Partners(l)) = 1
                                      /\ s.ld[l].merged \in {None, s.ld[Partner(l)].merged}
        One(t, l) == IF t.ok THEN FuseOne(t, l, fuseX2(t.s, l, Partner(l))) ELSE t
        start == [ok |-> TRUE, s |-> s, off |-> 0, comps |-> <<>>]
    IN  IF Len(ms) # Len(os) \/ ~x2 \/ ~paired THEN [start EXCEPT !.ok = FALSE]
        ELSE MovePair(FoldLeft(One, start, ms), m, o)

\* Try o as the partner of m; the x2 fusions of a failed attempt stay.
Tried(f, m, o) ==
    LET four == Cardinality(ToSet(f.s.mma[m].bPerm) \cup ToSet(f.s.mma[o].bPerm)) = 4
    IN  [s |-> f.s, best |-> IF f.ok /\ four THEN o ELSE 0]
TryPartner(t, m, o) ==
    LET s == t.s
        eligible == /\ t.best = 0 /\ o # m /\ s.mma[o].ok /\ s.mma[o].pair = 0 /\ ~s.mma[o].solo
                    /\ s.mma[o].level = s.mma[m].level /\ Inst(o).blk = Inst(m).blk /\ Inst(o).a = Inst(m).a
    IN  IF ~eligible THEN t
        ELSE Tried(IF s.mma[m].bSrc = s.mma[o].bSrc THEN [ok |-> TRUE, s |-> s] ELSE FusePairs(s, m, o), m, o)

\* The fields of the shared block, lower half first; a block another pair has in another order fails both.
PutBlocks(s, id, blocks, failing) ==
    LET clash == \E r \in 1..4 : s.ld[id].blocks[r] # 0 /\ s.ld[id].blocks[r] # blocks[r]
    IN  Fail([s EXCEPT !.ld[id].blocks = blocks], IF clash THEN failing ELSE {})
JoinTiles(s, m, o, mh) ==
    LET pm == s.mma[m].bPerm
        po == s.mma[o].bPerm
    IN  FoldLeft(LAMBDA u, id : PutBlocks(u, id, IF mh = 0 THEN pm \o po ELSE po \o pm, {m, o}),
                 [s EXCEPT !.mma[m].nh = mh, !.mma[o].nh = 1 - mh, !.mma[m].pair = o, !.mma[o].pair = m],
                 s.mma[m].bSrc)
Chosen(t, m) ==
    IF t.best = 0 THEN Fail(t.s, {m})
    ELSE JoinTiles(t.s, m, t.best, IF Min(ToSet(t.s.mma[m].bPerm)) < Min(ToSet(t.s.mma[t.best].bPerm)) THEN 0 ELSE 1)
PairOne(s, m) ==
    IF ~s.mma[m].ok \/ s.mma[m].pair # 0 \/ s.mma[m].solo THEN s
    ELSE Chosen(FoldLeft(LAMBDA u, o : TryPartner(u, m, o), [s |-> s, best |-> 0], MmaOrder), m)

pairMmas ==
    /\ pc = "pairMmas"
    /\ \E s \in {FoldLeft(PairOne, [mma |-> mma, ld |-> ld], MmaOrder)} : mma' = s.mma /\ ld' = s.ld
    /\ pc' = "buildGrids"
    /\ UNCHANGED <<kernel, ops, slots, code>>

-----------------------------------------------------------------------------
(* Complete grids of accumulator tiles become fused operations. *)

\* Which register blocks are the fragment of one row-major tile in memory (proveDeviceBlocks, DeviceEval): here
\* their four words are the tile's words in order.  A tile is <<"tile", matrix, row, column, shared>>, in blocks.
Tile(id) == Inst(ld[id].words[1][2]).tile
IsDevice(id) ==
    /\ ld[id].reg /\ ~ld[id].solo /\ \A r \in 1..4 : ld[id].words[r][1] = "w"
    /\ Tile(id) # None
    /\ \A r \in 1..4 : LET w == Inst(ld[id].words[r][2]) IN w.tile = Tile(id) /\ w.r = r
    /\ LET users == {m \in DOMAIN mma : mma[m].ok /\ id \in ToSet(mma[m].aSrc) \cup ToSet(mma[m].bSrc)}
       IN  \A m, n \in users : Inst(m).type = Inst(n).type

RECURSIVE ChainOf(_)
ChainOf(m) == IF m = 0 THEN <<>> ELSE <<m>> \o ChainOf(mma[m].next)

Linked(x, y) ==
    /\ Inst(x).blk = Inst(y).blk
    /\ Inst(x).a = Inst(y).a \/ mma[x].bSrc = mma[y].bSrc \/ mma[x].pair = y
RECURSIVE Spread(_, _)
Spread(S, heads) ==
    LET more == {y \in heads \ S : \E x \in S : Linked(x, y)}
    IN  IF more = {} THEN S ELSE Spread(S \cup more, heads)

\* The distinct values of f over a sequence, in order of first appearance.
Keys(seq, f(_)) == FoldLeft(LAMBDA acc, x : IF f(x) \in ToSet(acc) THEN acc ELSE Append(acc, f(x)), <<>>, seq)
Index(seq, x) == CHOOSE n \in DOMAIN seq : seq[n] = x

\* The grid of a component: [ok, MT, NP, L, cell], cell[mt, nt, lv] the mma of the tile at a k-step (0: padding).
GridOf(heads) ==
    LET seq == InOrder(heads)
        chains == [h \in heads |-> ChainOf(h)]
        L == Len(chains[seq[1]])
        mts == Keys(seq, LAMBDA h : Inst(h).a)
        nps == Keys(seq, LAMBDA h : mma[h].bSrc)
        Solo(k) == Len(k) = 1 /\ ld[k[1]].solo
        expect == MapThenSumSet(LAMBDA n : IF Solo(nps[n]) THEN Len(mts) ELSE 2 * Len(mts), DOMAIN nps)
        Place(h) == <<Index(mts, Inst(h).a), 2 * Index(nps, mma[h].bSrc) - 1 + mma[h].nh>>
        cell == [c \in (1..Len(mts)) \X (1..2 * Len(nps)) \X (1..L) |->
                    IF \E h \in heads : Place(h) = <<c[1], c[2]>>
                    THEN chains[CHOOSE h \in heads : Place(h) = <<c[1], c[2]>>][c[3]] ELSE 0]
        Half(nt) == (nt + 1) \div 2
        consistent ==
            \A c, d \in DOMAIN cell : c[3] = d[3] /\ c[3] > 1 /\ cell[c] # 0 /\ cell[d] # 0 =>
                LET m == cell[c]
                    o == cell[d]
                IN  /\ mma[m].nh = (c[2] + 1) % 2
                    /\ (Inst(m).a = Inst(o).a) = (c[1] = d[1])
                    /\ (mma[m].bSrc = mma[o].bSrc) = (Half(c[2]) = Half(d[2]))
                    /\ c[1] = d[1] /\ Half(c[2]) = Half(d[2]) /\ c[2] # d[2] => mma[m].pair = o
        all == UNION {ToSet(chains[h]) : h \in heads}
        SameTrans(src(_)) == \A m, n \in all : \A x \in ToSet(src(m)), y \in ToSet(src(n)) : ld[x].trans = ld[y].trans
        ok == /\ \A h \in heads : Len(chains[h]) = L
              /\ \A lv \in 1..L, h \in heads :
                    mma[chains[h][lv]].ok /\ Inst(chains[h][lv]).blk = Inst(chains[seq[1]][lv]).blk
              /\ Len(seq) = expect
              /\ \A g, h \in heads : g # h => Place(g) # Place(h)
              /\ consistent
              /\ \A m, n \in all : Inst(m).type = Inst(n).type
              /\ SameTrans(LAMBDA m : mma[m].aSrc) /\ SameTrans(LAMBDA m : mma[m].bSrc)
    IN  [ok |-> ok, all |-> all, MT |-> Len(mts), NP |-> Len(nps), L |-> L, cell |-> cell]

\* Consecutive runs of at most n of 1..len.
Runs(len, n) == [k \in 1..(len + n - 1) \div n |-> <<(k - 1) * n + 1, Min({len, k * n})>>]
Width(g) == g[2] - g[1] + 1
Clamp(x, lo, hi) == Max({lo, Min({x, hi})})

\* The operations over groups of A blocks, B blocks and k-steps of a grid.
form(g, dev, gK) ==
    LET any == g.cell[<<1, 1, 1>>]
        ms == Runs(g.MT, Clamp(GroupM, 1, 2))
        ns == Runs(g.NP, Clamp(GroupN, 1, 2))
        ls == Runs(g.L, gK)
        Op(a, b, l) ==
            [mt |-> Width(a), nt |-> 2 * Width(b), lv |-> Width(l), dev |-> dev, type |-> Inst(any).type,
             tl |-> ld[mma[any].aSrc[1]].trans, tr |-> ~ld[mma[any].bSrc[1]].trans,
             m |-> [c \in (1..Width(a)) \X (1..2 * Width(b)) \X (1..Width(l)) |->
                       g.cell[<<a[1] + c[1] - 1, 2 * b[1] + c[2] - 2, l[1] + c[3] - 1>>]]]
        Index3 == [k \in 1..Len(ms) * Len(ns) * Len(ls) |->
                      <<((k - 1) \div (Len(ns) * Len(ls))) + 1, (((k - 1) \div Len(ls)) % Len(ns)) + 1, ((k - 1) % Len(ls)) + 1>>]
    IN  [k \in DOMAIN Index3 |-> Op(ms[Index3[k][1]], ns[Index3[k][2]], ls[Index3[k][3]])]

Mmas(op) == Range(op.m) \ {0}
kstep(type) == IF type = "int" THEN 32 ELSE 16

\* The blocks of a device operation are one tile of memory, nothing written between its loads and itself.
devOpOk(op) ==
    LET Src(m, kind) == IF kind = 0 THEN mma[m].aSrc[1] ELSE mma[m].bSrc[1]
        Moved(t, row, col) == [t EXCEPT ![3] = @ + row, ![4] = @ + col]
        first == op.m[<<1, 1, 1>>]
        spots == Mmas(op) \cup UNION {{w[2] : w \in ToSet(ld[Src(m, k)].words)} : m \in Mmas(op), k \in 0..1}
    IN  /\ \A c \in DOMAIN op.m :
            /\ Tile(Src(op.m[c], 0)) = Moved(Tile(Src(first, 0)), c[1] - 1, c[3] - 1)
            /\ Tile(Src(op.m[c], 1)) = Moved(Tile(Src(first, 1)), (c[2] - 1) \div 2, c[3] - 1)
        /\ \A i, j \in spots : Inst(i).blk = Inst(j).blk
        /\ \A i \in Min(spots) + 1..Max(spots) : ~Inst(i).wr

OpsOf(g) ==
    LET k == kstep(Inst(g.cell[<<1, 1, 1>>]).type)
        devAll == \A m \in g.all : \A id \in ToSet(mma[m].aSrc) \cup ToSet(mma[m].bSrc) : IsDevice(id)
        deep == form(g, TRUE, IF GroupK = 0 THEN 128 \div k ELSE Clamp(GroupK, 1, 128 \div k))
        coop == form(g, FALSE, IF GroupK = 0 THEN 2 ELSE Clamp(GroupK, 1, 2))
    IN  IF devAll /\ \A n \in DOMAIN deep : devOpOk(deep[n]) THEN deep
        ELSE IF k = 32 THEN <<>>
        ELSE IF \A n \in DOMAIN coop : coop[n].mt = 2 \/ coop[n].nt = 4 \/ coop[n].lv = 2 THEN coop
        ELSE <<>>

GridsMade(grids) == [n \in DOMAIN grids |-> IF grids[n].ok THEN OpsOf(grids[n]) ELSE <<>>]
BlocksRead(all) == UNION {{mma[m].aSrc[1], mma[m].bSrc[1]} : m \in UNION {Mmas(all[n]) : n \in {n \in DOMAIN all : all[n].dev}}}
buildGrids ==
    /\ pc = "buildGrids"
    /\ LET heads == {m \in DOMAIN mma : mma[m].ok /\ mma[m].prev = 0}
           comps == Keys(InOrder(heads), LAMBDA h : Spread({h}, heads))
       IN  \E grids \in {[n \in DOMAIN comps |-> GridOf(comps[n])]} : \E made \in {GridsMade(grids)} :
             /\ ops' = FlattenSeq(made)
             /\ mma' = Fail([mma |-> mma], UNION {grids[n].all : n \in {n \in DOMAIN grids : made[n] = <<>>}}).mma
             /\ ld' = [id \in DOMAIN ld |-> [ld[id] EXCEPT !.devUsed = id \in BlocksRead(FlattenSeq(made))]]
    /\ pc' = "validateFixpoint"
    /\ UNCHANGED <<kernel, slots, code>>

-----------------------------------------------------------------------------
(* What may be rewritten: an ldmatrix only with all its consumers, an operation only with all its mmas. *)

\* The users of a value, through phis: mmas, and whether anything else reads it.
RECURSIVE Reach(_, _)
Reach(vs, seen) ==
    LET new == {<<"phi", k>> : k \in UNION {PhiUses(v) : v \in vs}} \ seen
    IN  IF new = {} THEN seen ELSE Reach(new, seen \cup new)
UsersOf(id) ==
    LET parts == IF ld[id].parts = <<>> THEN {id} ELSE ToSet(ld[id].parts)
        fields == {X(At(p), f) : p \in parts, f \in 1..4}
    IN  {u[1] : u \in UNION {InstUses(v) : v \in Reach(fields, fields)}}
Judged(id) == ld[id].ok /\ ~ld[id].reg /\ ld[id].merged = None

\* One round: a block fails with a consumer, an mma with a block, an operation with an mma.
Sources(m) == ToSet(mma[m].aSrc) \cup ToSet(mma[m].bSrc)
Round(s, feeds) ==
    LET lds == {id \in s.lds : \A e \in feeds : e[1] = id => e[2] \in s.mmas}
        one == {m \in s.mmas : Sources(m) \subseteq lds}
    IN  [lds |-> lds, mmas |-> one \ UNION {Mmas(ops[n]) : n \in {n \in DOMAIN ops : ~(Mmas(ops[n]) \subseteq one)}}]
RECURSIVE Settle(_, _)
Settle(s, feeds) == LET t == Round(s, feeds) IN IF t = s THEN s ELSE Settle(t, feeds)

lastMma(op) == Max({op.m[c] : c \in {c \in DOMAIN op.m : c[3] = op.lv}})

\* A register block is converted at the operation that dominates its other consumers; with none, all are dropped.
Readers(id, kept) == {n \in DOMAIN kept : \E m \in Mmas(kept[n]) : id \in Sources(m)}
FirstUse(id, kept) ==
    IF ~ld[id].reg \/ ld[id].devUsed \/ Readers(id, kept) = {} THEN 0
    ELSE Min({lastMma(kept[n]) : n \in Readers(id, kept)})

validateFixpoint ==
    /\ pc = "validateFixpoint"
    /\ LET feeds == UNION {{id} \X UsersOf(id) : id \in {id \in DOMAIN ld : Judged(id)}}
           escapes == {e[1] : e \in {e \in feeds : e[2] \notin DOMAIN mma}}
           idle == {id \in DOMAIN ld : Judged(id) /\ ld[id].kind < 0}
           inOps == {m \in UNION {Mmas(ops[n]) : n \in DOMAIN ops} : mma[m].ok}
           s == Settle([lds |-> {id \in DOMAIN ld : ld[id].ok} \ (escapes \cup idle), mmas |-> inOps], feeds)
           kept == SelectSeq(ops, LAMBDA op : Mmas(op) \subseteq s.mmas)
       IN  /\ mma' = [m \in DOMAIN mma |-> [mma[m] EXCEPT !.ok = m \in s.mmas]]
           /\ ops' = kept
           /\ ld' = [id \in DOMAIN ld |-> [ld[id] EXCEPT !.ok = id \in s.lds, !.first = FirstUse(id, kept)]]
           /\ pc' = IF kept = <<>> THEN "exact" ELSE "typeAccumulators"
    /\ UNCHANGED <<kernel, slots, code>>

-----------------------------------------------------------------------------
(* Which accumulators travel in slot order. *)

cap(op) == 4 * op.mt * op.nt
\* Position p of an operation's accumulators: field r of tile (mt, nt).
TileOf(op, p) == <<(((p - 1) \div 4) \div op.nt) + 1, (((p - 1) \div 4) % op.nt) + 1>>
FieldOf(p) == ((p - 1) % 4) + 1
MmaAt(op, p, lv) == op.m[TileOf(op, p) \o <<lv>>]
cList(n) == [p \in 1..cap(ops[n]) |-> LET m == MmaAt(ops[n], p, 1) IN IF m = 0 THEN None ELSE Inst(m).c[FieldOf(p)]]
dList(n) == [p \in 1..cap(ops[n]) |->
                LET m == MmaAt(ops[n], p, ops[n].lv) IN IF m = 0 THEN <<"pad", n, p>> ELSE X(m, FieldOf(p))]

\* The valid group whose first values are the list, position by position (0: none); None positions are free.
listSource(groups, vals) ==
    LET S == {g \in DOMAIN groups : /\ groups[g].valid /\ Len(vals) <= Len(groups[g].vals)
                                    /\ \A p \in DOMAIN vals : vals[p] \in {None, groups[g].vals[p]}}
    IN  IF S = {} \/ \A p \in DOMAIN vals : vals[p] = None THEN 0 ELSE Min(S)
allZero(vals) == \A p \in DOMAIN vals : vals[p] \in {None, Zero}

Slotted(groups) == UNION {ToSet(groups[g].vals) : g \in DOMAIN groups}
PadPhi(g, p) == <<"padphi", g, p>>
Incoming(vals, edge(_)) == [p \in DOMAIN vals |-> IF vals[p] = None THEN None ELSE edge(Phi(vals[p][2]))]

\* The group of a list of phis, made with the groups of its incoming lists; padding gets phis of its own.
RECURSIVE phiGroup(_, _)
phiGroup(st, vals) ==
    LET live == {p \in DOMAIN vals : vals[p] # None}
        fits == /\ \A p \in live : IsPhi(vals[p]) /\ vals[p] \notin Slotted(st.groups)
                /\ \A p, q \in live : p # q => vals[p] # vals[q]
        g == Len(st.groups) + 1
        named == [p \in DOMAIN vals |-> IF p \in live THEN vals[p] ELSE PadPhi(g, p)]
        made == [st EXCEPT !.groups = Append(@, [phi |-> TRUE, op |-> 0, vals |-> named, valid |-> TRUE])]
        PadFrom(s2, in) ==
            LET src == listSource(s2.groups, in)
            IN  [p \in DOMAIN vals \ live |->
                    IF allZero(in) THEN Zero ELSE IF src = 0 THEN Poison ELSE s2.groups[src].vals[p]]
        Edge(s2, in) == IF IsPhi(in[1]) THEN phiGroup(s2, in) ELSE s2
        in1 == Incoming(vals, LAMBDA f : f.init)
        in2 == Incoming(vals, LAMBDA f : f.next)
        s1 == Edge(made, in1)
        s3 == Edge(s1, in2)
        pads == [v \in {named[p] : p \in DOMAIN vals \ live} |->
                    [init |-> PadFrom(s1, in1)[v[3]], next |-> PadFrom(s3, in2)[v[3]]]]
    IN  IF vals[1] = None \/ ~fits THEN st ELSE [s3 EXCEPT !.padIn = pads @@ @]

PhiOf(padIn, v) == IF v[1] = "padphi" THEN padIn[v] ELSE Phi(v[2])
\* A phi group is valid when each incoming list is zero or a valid group (greatest fixpoint).
RECURSIVE Shrink(_, _)
Shrink(groups, padIn) ==
    LET In(g, edge(_)) == [p \in DOMAIN groups[g].vals |-> edge(PhiOf(padIn, groups[g].vals[p]))]
        fine(in) == allZero(in) \/ listSource(groups, in) # 0
        bad == {g \in DOMAIN groups : /\ groups[g].phi /\ groups[g].valid
                                      /\ ~(fine(In(g, LAMBDA f : f.init)) /\ fine(In(g, LAMBDA f : f.next)))}
    IN  IF bad = {} THEN groups
        ELSE Shrink([g \in DOMAIN groups |-> [groups[g] EXCEPT !.valid = @ /\ g \notin bad]], padIn)

typeAccumulators ==
    /\ pc = "typeAccumulators"
    /\ LET made == [n \in DOMAIN ops |-> [phi |-> FALSE, op |-> n, vals |-> dList(n), valid |-> TRUE]]
           st == FoldLeft(phiGroup, [groups |-> made, padIn |-> <<>>], [n \in DOMAIN ops |-> cList(n)])
       IN  slots' = [st EXCEPT !.groups = Shrink(st.groups, st.padIn)]
    /\ pc' = "rewrite"
    /\ UNCHANGED <<kernel, mma, ld, ops, code>>

-----------------------------------------------------------------------------
(* The rewriting.  New instructions: "fill" (a block's words in slot order from memory), "f2s" (the same from   *)
(* registers), "p2a" and "a2p" (accumulators into and out of slot order), "fused" (matmul2d).                   *)

Words(id) == [r \in 1..4 |-> <<"s", id, r>>]
GroupOf(v) == LET S == {g \in DOMAIN slots.groups : slots.groups[g].valid /\ v \in ToSet(slots.groups[g].vals)}
              IN  IF S = {} THEN 0 ELSE Min(S)
PosIn(g, v) == Index(slots.groups[g].vals, v)
cIsSlots(n) == allZero(cList(n)) \/ listSource(slots.groups, cList(n)) # 0
\* A value of a group in slot order: the operation's new result, or the phi itself.
SlotV(g, p) == IF slots.groups[g].phi THEN slots.groups[g].vals[p] ELSE <<"d", slots.groups[g].op, p>>
GroupBlk(g) == IF slots.groups[g].phi THEN "body" ELSE Inst(lastMma(ops[slots.groups[g].op])).blk
\* A conversion of a tile of the loop read after it runs once, at the exit; otherwise right after its definition.
ConvAt(g, useBlk) == IF GroupBlk(g) = "body" /\ useBlk = "exit" THEN "exit" ELSE "def"
Conv(g, p, useBlk) == <<"ptx", g, p, ConvAt(g, useBlk)>>

UsedLds == UNION {UNION {Sources(m) : m \in Mmas(ops[n])} : n \in DOMAIN ops}
\* The extracts of a fused x2 pair read the composite's words.
Unmerged(v) ==
    LET id == IF IsField(v, "ld") THEN ld[<<"ld", v[2]>>].merged ELSE None
    IN  IF id = None \/ id \notin UsedLds THEN v
        ELSE Words(id)[v[3] + (IF ld[id].parts[1] = <<"ld", v[2]>> THEN 0 ELSE 2)]

DeadMmas == UNION {Mmas(ops[n]) : n \in DOMAIN ops}
\* An operand of an instruction that stays.  A surviving mma keeps its operands, and those that were results of
\* a fused one become poison; any other reader of a group takes the converted value.
Kept(i, v) ==
    LET g == GroupOf(v)
    IN  IF g # 0 /\ i.op # "mma" THEN Conv(g, PosIn(g, v), i.blk)
        ELSE IF v[1] = "x" /\ v[2] \in DeadMmas THEN Poison ELSE Unmerged(v)
\* An incoming value of phi v from a block: slot order into a slot phi at the same position.
IntoPhi(v, in, blk) ==
    LET g == GroupOf(in)
        h == GroupOf(v)
    IN  IF g = 0 THEN Unmerged(in)
        ELSE IF h # 0 /\ PosIn(h, v) = PosIn(g, in) THEN SlotV(g, PosIn(g, in)) ELSE Conv(g, PosIn(g, in), blk)

\* The words of the blocks of an operation, in the order of the fused tile's slot bits: k fastest in A when K is
\* 32, n fastest in B when N is 32.
wordsOf(op, kind, b, l) ==
    LET m == IF kind = 0 THEN op.m[<<b, 1, l>>] ELSE op.m[<<1, 2 * b - 1, l>>]
        o == mma[m].pair
        id == IF kind = 0 THEN mma[m].aSrc[1] ELSE mma[m].bSrc[1]
        vals == IF kind = 0 THEN Inst(m).a ELSE Inst(m).b \o Inst(o).b
        perm == IF kind = 0 THEN mma[m].aPerm ELSE mma[m].bPerm \o mma[o].bPerm
    IN  IF ld[id].reg THEN Words(id) ELSE [f \in 1..4 |-> Unmerged(vals[Index(perm, f)])]
\* Mutant: the words of a tile two columns deep are taken column by column.
subAByColumn(op) == [k \in 1..op.mt * op.lv |->
                IF op.lv = 2 THEN wordsOf(op, 0, ((k - 1) % op.mt) + 1, ((k - 1) \div op.mt) + 1) ELSE wordsOf(op, 0, k, 1)]
subA(op) == [k \in 1..op.mt * op.lv |->
                IF op.lv = 2 THEN wordsOf(op, 0, ((k - 1) \div 2) + 1, ((k - 1) % 2) + 1) ELSE wordsOf(op, 0, k, 1)]
subB(op) == LET np == op.nt \div 2
            IN  [k \in 1..np * op.lv |->
                    IF np = 2 THEN wordsOf(op, 1, ((k - 1) % 2) + 1, ((k - 1) \div 2) + 1) ELSE wordsOf(op, 1, 1, k)]

Fill(id) ==
    [op |-> "fill", id |-> id, blocks |-> ld[id].blocks,
     from |-> IF ld[id].parts = <<>> THEN [m \in 1..4 |-> <<At(id), m>>]
              ELSE [m \in 1..4 |-> <<At(ld[id].parts[((m - 1) \div 2) + 1]), ((m - 1) % 2) + 1>>]]
Fused(n) ==
    LET op == ops[n]
        src == listSource(slots.groups, cList(n))
        c == [p \in 1..cap(op) |->
                 IF ~cIsSlots(n) THEN <<"c", n, p>>
                 ELSE IF allZero(cList(n)) THEN Zero ELSE SlotV(src, p)]
        Ptx(v) == IF GroupOf(v) # 0 THEN Conv(GroupOf(v), PosIn(GroupOf(v), v), Inst(lastMma(op)).blk) ELSE IF v = None THEN Zero ELSE v
        first == op.m[<<1, 1, 1>>]
    IN  (IF cIsSlots(n) THEN <<>> ELSE <<[op |-> "p2a", n |-> n, vs |-> [p \in 1..cap(op) |-> Ptx(cList(n)[p])]]>>)
        \o <<[op |-> "fused", n |-> n, c |-> c, dev |-> op.dev,
              A |-> IF op.dev THEN Tile(mma[first].aSrc[1]) ELSE subA(op),
              B |-> IF op.dev THEN Tile(mma[first].bSrc[1]) ELSE subB(op)]>>

\* The conversions some reader needs, among all groups and both places.
Needed ==
    LET stay == {i \in DOMAIN kernel.code : Inst(i).op = "use"}
        byUse == {Kept(Inst(i), v) : <<i, v>> \in UNION {{i} \X ToSet(Inst(i).vs) : i \in stay}}
        byPhi == UNION {{IntoPhi(<<"phi", k>>, Phi(k).init, "pre"), IntoPhi(<<"phi", k>>, Phi(k).next, "body")} :
                           k \in DOMAIN kernel.phi}
        byOp == UNION {UNION {ToSet(f.vs) : f \in {f \in ToSet(Fused(n)) : f.op = "p2a"}} : n \in DOMAIN ops}
    IN  {<<v[2], v[4]>> : v \in {v \in byUse \cup byPhi \cup byOp : v[1] = "ptx"}}
A2p(g, where) ==
    [op |-> "a2p", g |-> g, where |-> where,
     vs |-> [p \in DOMAIN slots.groups[g].vals |-> SlotV(g, p)]]
Convs(S, where) == LET seq == SetToSeq(S) IN [k \in DOMAIN seq |-> A2p(seq[k], where)]

\* What stands where instruction i stood.
Replaced(i) ==
    LET inst == Inst(i)
        fills == {id \in UsedLds : ~ld[id].reg /\ At(id) = i}
        regs == {id \in UsedLds : ld[id].reg /\ ~ld[id].devUsed /\ ld[id].first = i}
        merged == inst.op = "ld" /\ \E id \in UsedLds : <<"ld", i>> \in ToSet(ld[id].parts)
        here == SelectSeq([n \in DOMAIN ops |-> n], LAMBDA n : lastMma(ops[n]) = i)
        New(n) == Fused(n) \o Convs({g \in DOMAIN slots.groups : slots.groups[g].op = n /\ <<g, "def">> \in Needed}, "def")
        old == CASE inst.op = "mma" /\ i \in DeadMmas -> <<>>
                 [] inst.op = "ld" /\ (merged \/ fills # {}) -> <<>>
                 [] inst.op = "mma" ->
                      <<[inst EXCEPT !.a = [r \in 1..4 |-> Kept(inst, inst.a[r])], !.b = [r \in 1..2 |-> Kept(inst, inst.b[r])],
                                     !.c = [r \in 1..4 |-> Kept(inst, inst.c[r])]] @@ [at |-> i]>>
                 [] inst.op = "use" -> <<[inst EXCEPT !.vs = [k \in DOMAIN inst.vs |-> Kept(inst, inst.vs[k])]] @@ [at |-> i]>>
                 [] OTHER -> <<inst @@ [at |-> i]>>
    IN  (IF inst.wr THEN <<[op |-> "write"]>> ELSE <<>>)
        \o SetToSeq({Fill(id) : id \in fills}) \o SetToSeq({[op |-> "f2s", id |-> id, vs |-> ld[id].words] : id \in regs})
        \o FlattenSeq([k \in DOMAIN here |-> New(here[k])]) \o old

BlockCode(b) ==
    FlattenSeq([k \in 1..Len(kernel.code) |-> IF Inst(k).blk = b THEN Replaced(k) ELSE <<>>])
NewPhis ==
    [v \in {<<"phi", k>> : k \in DOMAIN kernel.phi} \cup {v \in DOMAIN slots.padIn : GroupOf(v) # 0} |->
        [init |-> IntoPhi(v, PhiOf(slots.padIn, v).init, "pre"), next |-> IntoPhi(v, PhiOf(slots.padIn, v).next, "body")]]

rewrite ==
    /\ pc = "rewrite"
    /\ LET phiConvs == {g \in DOMAIN slots.groups : slots.groups[g].phi /\ <<g, "def">> \in Needed}
           exits == {g \in DOMAIN slots.groups : <<g, "exit">> \in Needed}
       IN  code' = [pre |-> BlockCode("pre"), body |-> Convs(phiConvs, "def") \o BlockCode("body"),
                    exit |-> Convs(exits, "exit") \o BlockCode("exit"), phi |-> NewPhis]
    /\ pc' = "verify"
    /\ UNCHANGED <<kernel, mma, ld, ops, slots>>

-----------------------------------------------------------------------------
(* What the code means.  A register holds [lay |-> "ptx", of |-> content] or, in slot order, one position of a  *)
(* whole bundle: [lay |-> "slot", of |-> contents, p |-> position].  A word's content names the memory it was   *)
(* read from and when; an accumulator's is the bag of the products summed into it.                              *)

Reg(c) == [lay |-> "ptx", of |-> c, p |-> 1]
Slot(cs, p) == [lay |-> "slot", of |-> cs, p |-> p]
BadWord == <<"bad", 0, 0, 0, 0, 0, 0>>
BadSum == SetToBag({[a |-> <<>>, b |-> <<>>, r |-> 0]})
WordAt(st, v) == CASE v = Zero -> <<"zero", 0, 0, 0, 0, 0, 0>>
                   [] v = Poison -> BadWord
                   [] OTHER -> IF st.env[v].lay = "ptx" THEN st.env[v].of ELSE BadWord
SumAt(st, v) == CASE v = Zero -> EmptyBag
                  [] v = Poison -> BadSum
                  [] v[1] = "arg" -> SetToBag({[a |-> <<>>, b |-> <<>>, r |-> v[2]]})
                  [] OTHER -> IF st.env[v].lay = "ptx" THEN st.env[v].of ELSE BadSum
\* The bundle whose positions, in order, are the registers.
Whole(st, vs, bad) ==
    LET b == st.env[vs[1]]
    IN  IF /\ b.lay = "slot" /\ Len(b.of) = Len(vs)
           /\ \A p \in DOMAIN vs : st.env[vs[p]].lay = "slot" /\ st.env[vs[p]].p = p /\ st.env[vs[p]].of = b.of
        THEN b.of ELSE [p \in DOMAIN vs |-> bad]
Bundle(st, vs) == IF \A p \in DOMAIN vs : vs[p] = Zero THEN [p \in DOMAIN vs |-> EmptyBag] ELSE Whole(st, vs, BadSum)

\* The time that distinguishes what an address of the loop reads from one iteration to the next.
When(st, i) == IF Inst(i).addr > 0 THEN st.t ELSE 0
Matrix(st, i, f, trans) == <<IF trans THEN "ldt" ELSE "ld", i, 0, 0, f, st.ver, When(st, i)>>
TileWord(st, tile, row, col, r) == <<"tile", tile[2], tile[3] + row, tile[4] + col, r, st.ver, st.t>>
Turned(c, trans) == IF ~trans THEN c ELSE IF c[1] = "ld" THEN <<"ldt">> \o Tail(c) ELSE BadWord

\* The products a matmul2d adds to each position: blocks from its words, or from the tile in memory.
Products(st, inst) ==
    LET op == ops[inst.n]
        A(b, l) == IF inst.dev THEN [r \in 1..4 |-> TileWord(st, inst.A, b - 1, l - 1, r)]
                   ELSE Whole(st, inst.A[IF op.lv = 2 THEN 2 * b - 2 + l ELSE b], BadWord)
        B(b, l) == IF inst.dev THEN [r \in 1..4 |-> TileWord(st, inst.B, b - 1, l - 1, r)]
                   ELSE Whole(st, inst.B[IF op.nt = 4 THEN 2 * l - 2 + b ELSE l], BadWord)
        As == [c \in (1..op.mt) \X (1..op.lv) |-> [r \in 1..4 |-> Turned(A(c[1], c[2])[r], op.tl)]]
        Bs == [c \in (1..op.nt) \X (1..op.lv) |->
                  [r \in 1..2 |-> Turned(B((c[1] + 1) \div 2, c[2])[2 * ((c[1] + 1) % 2) + r], ~op.tr)]]
        Term(p, l) == [a |-> As[<<TileOf(op, p)[1], l>>], b |-> Bs[<<TileOf(op, p)[2], l>>], r |-> FieldOf(p)]
    IN  [p \in 1..cap(op) |-> FoldLeft(LAMBDA bag, l : bag (+) SetToBag({Term(p, l)}), EmptyBag, [l \in 1..op.lv |-> l])]

\* The registers an instruction defines, with their contents.
Defines(st, i) ==
    CASE i.op = "ld" -> [v \in {X(i.at, f) : f \in 1..i.nx} |-> Reg(Matrix(st, i.at, v[3], i.trans))]
      [] i.op = "word" ->
           <<"w", i.at>> :> Reg(IF i.tile = None THEN <<"w", i.at, 0, 0, 0, 0, When(st, i.at)>> ELSE TileWord(st, i.tile, 0, 0, i.r))
      [] i.op = "mma" ->
           [v \in {X(i.at, r) : r \in 1..4} |->
               Reg(SumAt(st, i.c[v[3]]) (+) SetToBag({[a |-> [r \in 1..4 |-> WordAt(st, i.a[r])],
                                                       b |-> [r \in 1..2 |-> WordAt(st, i.b[r])], r |-> v[3]]}))]
      [] i.op = "fill" ->
           LET of == [r \in 1..4 |-> Matrix(st, i.from[i.blocks[r]][1], i.from[i.blocks[r]][2], FALSE)]
           IN  [v \in IF i.id[1] = "ld" THEN {X(At(i.id), f) : f \in 1..4} ELSE ToSet(Words(i.id)) |-> Slot(of, v[3])]
      [] i.op = "f2s" -> [v \in ToSet(Words(i.id)) |-> Slot([r \in 1..4 |-> WordAt(st, i.vs[r])], v[3])]
      [] i.op = "p2a" -> [v \in {<<"c", i.n, p>> : p \in DOMAIN i.vs} |-> Slot([p \in DOMAIN i.vs |-> SumAt(st, i.vs[p])], v[3])]
      [] i.op = "fused" ->
           LET c == Bundle(st, i.c)
               more == Products(st, i)
               of == [p \in DOMAIN c |-> c[p] (+) more[p]]
           IN  [v \in {<<"d", i.n, p>> : p \in DOMAIN c} |-> Slot(of, v[3])]
      [] i.op = "a2p" -> LET of == Bundle(st, i.vs) IN [v \in {<<"ptx", i.g, p, i.where>> : p \in DOMAIN i.vs} |-> Reg(of[v[3]])]
      [] OTHER -> <<>>

Exec(st, i) ==
    CASE i.op = "write" -> [st EXCEPT !.ver = @ + 1]
      [] i.op = "use" ->
           [st EXCEPT !.seen = Append(@, [k \in DOMAIN i.vs |-> IF i.words THEN WordAt(st, i.vs[k]) ELSE SumAt(st, i.vs[k])])]
      [] OTHER -> [st EXCEPT !.env = Defines(st, i) @@ @]

Hold(st, v) == IF v = Zero THEN Reg(EmptyBag) ELSE IF v = Poison THEN Reg(BadSum)
               ELSE IF v[1] = "arg" THEN Reg(SumAt(st, v)) ELSE st.env[v]
\* A slot phi that starts from zero holds the zero tile.
HoldPhi(st, v, in, g) == IF in = Zero /\ g # 0 THEN Slot([p \in DOMAIN slots.groups[g].vals |-> EmptyBag], PosIn(g, v)) ELSE Hold(st, in)
Iterate(c, slotted, st, t) ==
    LET edge(v) == IF t = 1 THEN c.phi[v].init ELSE c.phi[v].next
        phis == [v \in DOMAIN c.phi |-> HoldPhi(st, v, edge(v), IF slotted THEN GroupOf(v) ELSE 0)]
    IN  FoldLeft(Exec, [st EXCEPT !.t = t, !.env = phis @@ @], c.body)
\* What the uses of the code see, in order.
Seen(c, slotted) ==
    LET pre == FoldLeft(Exec, [env |-> <<>>, ver |-> 0, t |-> 0, seen |-> <<>>], c.pre)
        looped == FoldLeft(LAMBDA st, t : Iterate(c, slotted, st, t), pre, [t \in 1..kernel.trips |-> t])
    IN  FoldLeft(Exec, looped, c.exit).seen

\* The kernel as it was.
Source ==
    LET Block(b) == FlattenSeq([k \in 1..Len(kernel.code) |->
                                   IF Inst(k).blk # b THEN <<>>
                                   ELSE (IF Inst(k).wr THEN <<[op |-> "write"]>> ELSE <<>>) \o <<Inst(k) @@ [at |-> k]>>])
    IN  [pre |-> Block("pre"), body |-> Block("body"), exit |-> Block("exit"),
         phi |-> [v \in {<<"phi", k>> : k \in DOMAIN kernel.phi} |-> Phi(v[2])]]

-----------------------------------------------------------------------------
(* The module verifier that runs after the pass: every operand is defined before it is used. *)

Results(i) ==
    CASE i.op = "ld" -> {X(i.at, f) : f \in 1..i.nx}
      [] i.op = "word" -> {<<"w", i.at>>}
      [] i.op = "mma" -> {X(i.at, r) : r \in 1..4}
      [] i.op = "fill" -> IF i.id[1] = "ld" THEN {X(At(i.id), f) : f \in 1..4} ELSE ToSet(Words(i.id))
      [] i.op = "f2s" -> ToSet(Words(i.id))
      [] i.op = "p2a" -> {<<"c", i.n, p>> : p \in DOMAIN i.vs}
      [] i.op = "fused" -> {<<"d", i.n, p>> : p \in DOMAIN i.c}
      [] i.op = "a2p" -> {<<"ptx", i.g, p, i.where>> : p \in DOMAIN i.vs}
      [] OTHER -> {}
Reads(i) ==
    CASE i.op = "mma" -> ToSet(i.a \o i.b \o i.c)
      [] i.op \in {"use", "f2s", "p2a", "a2p"} -> ToSet(i.vs)
      [] i.op = "fused" -> ToSet(i.c) \cup IF i.dev THEN {} ELSE UNION {ToSet(w) : w \in ToSet(i.A) \cup ToSet(i.B)}
      [] OTHER -> {}
Fixed(v) == v[1] \in {"0", "poison", "arg"}
\* The values defined after a block, or None when one of its instructions reads an undefined one.
Defined(have, insts) ==
    FoldLeft(LAMBDA h, i : IF None \in h \/ \E v \in Reads(i) : ~Fixed(v) /\ v \notin h THEN {None} ELSE h \cup Results(i),
             have, insts)
WellFormed(c) ==
    LET pre == Defined({}, c.pre)
        body == Defined(pre \cup DOMAIN c.phi, c.body)
        exit == Defined(body, c.exit)
    IN  /\ None \notin pre \cup body \cup exit
        /\ \A v \in DOMAIN c.phi : /\ Fixed(c.phi[v].init) \/ c.phi[v].init \in pre
                                   /\ Fixed(c.phi[v].next) \/ c.phi[v].next \in body

verify ==
    /\ pc = "verify"
    /\ pc' = IF WellFormed(code) THEN "recovered" ELSE "error"
    /\ UNCHANGED <<kernel, mma, ld, ops, slots, code>>

-----------------------------------------------------------------------------
TRInit ==
    /\ kernel \in Kernels
    /\ pc = "collect"
    /\ mma = <<>> /\ ld = <<>> /\ ops = <<>> /\ code = <<>>
    /\ slots = [groups |-> <<>>, padIn |-> <<>>]

TRNext == collect \/ analyzeChains \/ analyzeOperands \/ pairMmas \/ buildGrids \/ validateFixpoint
            \/ typeAccumulators \/ rewrite \/ verify

TRSpec == TRInit /\ [][TRNext]_trvars

\* Memory is written between the two halves of a block that is loaded in two, where they become one load.
HalvesApart ==
    \E id \in DOMAIN ld : id[1] = "x2" /\ ld[id].ok /\ \E w \in (id[2] + 1)..id[3] : Inst(w).wr

\* An mma that stays goes on from one that does not.
StaysOnFused ==
    \E i \in DOMAIN mma \ DeadMmas : \E v \in ToSet(Inst(i).c) : v[1] = "x" /\ v[2] \in DeadMmas

\* A kernel whose tiles were recovered is a valid program in which every reader, the mmas left as they were
\* included, sees the same products summed as in the source (rewrite, KernelRecovery::run), except where the
\* halves of a block were read before and after a write, or an mma that stays goes on from a fused one.
RecoveredSame == pc # "error" /\ (pc = "recovered" /\ ~HalvesApart /\ ~StaysOnFused => Seen(code, TRUE) = Seen(Source, FALSE))
=============================================================================
