-------------------------- MODULE MCTensorRecovery --------------------------
(* Kernels for TensorRecovery: warp tiles of MT x NP blocks and L k-steps whose A and B blocks are loaded in    *)
(* one of the ways kernels do it (one ldmatrix.x4, two x2, registers, a tile in memory, a lone n8 tile), with   *)
(* the mmas in a loop or not, the fragments double-buffered through phis or not, and one disturbance.           *)
EXTENDS TensorRecovery

Plain == [MT |-> 2, NP |-> 1, L |-> 1, A |-> "x4", B |-> "x4", loop |-> TRUE, ahead |-> FALSE, acc |-> "zero",
          type |-> "half", extra |-> "none", wr |-> 0, aTrans |-> FALSE, bTrans |-> FALSE]

Ld(nx, trans, blk, addr) == [op |-> "ld", blk |-> blk, nx |-> nx, trans |-> trans, addr |-> addr, wr |-> FALSE]
Wd(tile, r, blk, addr) == [op |-> "word", blk |-> blk, tile |-> tile, r |-> r, addr |-> addr, wr |-> FALSE]
Use(vs, words, blk) == [op |-> "use", blk |-> blk, vs |-> vs, words |-> words, wr |-> FALSE]
W(i) == <<"w", i>>

\* Load block key = <<kind, index, level>> in a style.
Load(b, key, style, trans, blk) ==
    LET n == Len(b.code)
        addr == IF blk = "body" THEN b.body ELSE 0
        tile == <<"tile", key[1], key[2], key[3], TRUE>>
        Put(insts, vs) == [b EXCEPT !.code = @ \o insts, !.vals = (key :> vs) @@ @]
        ws(t) == [r \in 1..4 |-> Wd(t, r, blk, addr)]
        four == [r \in 1..4 |-> W(n + r)]
    IN  CASE style = "x4" -> Put(<<Ld(4, trans, blk, addr)>>, [f \in 1..4 |-> X(n + 1, f)])
          [] style = "x1" -> Put(<<Ld(1, trans, blk, addr)>>, [f \in 1..4 |-> X(n + 1, 1)])
          [] style = "x2" -> Put(<<Ld(2, trans, blk, addr), Ld(2, trans, blk, addr)>>,
                                 <<X(n + 1, 1), X(n + 1, 2), X(n + 2, 1), X(n + 2, 2)>>)
          [] style = "x2late" -> Put(<<Ld(2, trans, blk, addr), Ld(2, trans, blk, n + 2)>>,
                                     <<X(n + 1, 1), X(n + 1, 2), X(n + 2, 1), X(n + 2, 2)>>)
          [] style = "reg" -> Put(ws(None), four)
          [] style = "mem" -> Put(ws(tile), four)
          [] style = "solo" -> Put(SubSeq(ws(None), 1, 2), SubSeq(four, 1, 2))
LoadAll(b, k, blk, lv) ==
    LET c == FoldLeft(LAMBDA u, mt : Load(u, <<0, mt, lv>>, k.A, k.aTrans, blk), b, [n \in 1..k.MT |-> n])
    IN  FoldLeft(LAMBDA u, np : Load(u, <<1, np, lv>>, k.B, k.bTrans, blk), c, [n \in 1..k.NP |-> n])

Half(k) == IF k.B = "solo" THEN 1 ELSE 2
NTiles(k) == k.NP * Half(k)
Tiles(k) == [n \in 1..k.MT * NTiles(k) |-> <<((n - 1) \div NTiles(k)) + 1, ((n - 1) % NTiles(k)) + 1>>]
TileNo(k, t) == (t[1] - 1) * NTiles(k) + t[2]
\* The fragments an mma reads: as loaded, or through the phis of a double-buffered kernel (numbered after 4 per tile).
FragPhi(k, key, f) == <<"phi", 4 * Len(Tiles(k)) + 4 * ((IF key[1] = 0 THEN 0 ELSE k.MT) + key[2] - 1 + (k.MT + k.NP) * (key[3] - 1)) + f>>
DirectFrag(b, k, key) == IF k.ahead THEN [f \in DOMAIN b.vals[key] |-> FragPhi(k, key, f)] ELSE b.vals[key]

\* The mma of a tile at a k-step; its result is the accumulator of the next.
MmaStep(b, k, t, lv) ==
    LET n == Len(b.code)
        h == (t[2] - 1) % Half(k)
        B == DirectFrag(b, k, <<1, ((t[2] - 1) \div Half(k)) + 1, lv>>)
        no == TileNo(k, t)
        first == IF k.loop THEN [r \in 1..4 |-> <<"phi", 4 * (no - 1) + r>>]
                 ELSE IF k.acc = "zero" THEN <<Zero, Zero, Zero, Zero>> ELSE [r \in 1..4 |-> <<"arg", 4 * no + r>>]
        bs == SubSeq(B, 2 * h + 1, 2 * h + 2)
        i == [op |-> "mma", blk |-> "body", type |-> IF k.extra = "mixed" /\ no = 2 THEN "bf16" ELSE k.type,
              a |-> DirectFrag(b, k, <<0, t[1], lv>>), b |-> IF k.extra = "swap" /\ lv = 1 THEN <<bs[2], bs[1]>> ELSE bs,
              c |-> IF b.last[no] = 0 THEN first ELSE [r \in 1..4 |-> X(b.last[no], r)], wr |-> FALSE]
        early == Use([r \in 1..4 |-> X(n + 1, r)], FALSE, "body")
        skip == k.extra = "drop" /\ lv = k.L /\ no = Len(Tiles(k))
    IN  IF skip THEN b
        ELSE [b EXCEPT !.last[no] = n + 1,
                       !.code = @ \o <<i>> \o (IF k.extra = "early" /\ no = 1 /\ lv = k.L THEN <<early>>
                                              ELSE IF k.extra = "mid" /\ no = 1 /\ lv < k.L THEN <<early>> ELSE <<>>)]
Level(b, k, lv) ==
    LET loaded == IF k.ahead THEN b ELSE LoadAll(b, k, "body", lv)
        escaped == IF k.extra = "escape" /\ lv = k.L
                   THEN [loaded EXCEPT !.code = Append(@, Use(<<loaded.vals[<<0, 1, lv>>][1]>>, TRUE, "body"))] ELSE loaded
    IN  FoldLeft(LAMBDA u, t : MmaStep(u, k, t, lv), escaped, Tiles(k))

\* The kernel of a description, from the code before the loop, the loop's and that of its next fragments.
Out(body, n, r) == IF body.last[n] = 0 THEN Zero ELSE X(body.last[n], r)
Outs(k, body) == FlattenSeq([n \in 1..Len(Tiles(k)) |-> [r \in 1..4 |-> Out(body, n, r)]])
KeptMma(outs) == [op |-> "mma", blk |-> "exit", type |-> "other", a |-> <<Zero, Zero, Zero, Zero>>, b |-> <<Zero, Zero>>,
               c |-> SubSeq(outs, 1, 4), wr |-> FALSE]
Finish(k, all, outs) ==
    all \o (IF k.extra = "inloop" THEN <<Use(outs, FALSE, "body")>> ELSE <<>>)
         \o (IF k.extra = "kept" THEN <<KeptMma(outs), Use([r \in 1..4 |-> X(Len(all) + 1, r)], FALSE, "exit")>>
             ELSE <<Use(outs, FALSE, "exit")>>)
AccPhis(k, body) ==
    FlattenSeq([n \in 1..Len(Tiles(k)) |-> [r \in 1..4 |->
        [init |-> IF k.acc = "zero" THEN Zero ELSE <<"arg", 4 * n + r>>, next |-> Out(body, n, r)]]])
FragPhis(k, pre, next) ==
    LET keys == FlattenSeq([l \in 1..k.L |-> [m \in 1..k.MT |-> <<0, m, l>>] \o [p \in 1..k.NP |-> <<1, p, l>>]])
    IN  FlattenSeq([n \in DOMAIN keys |-> [f \in 1..4 |-> [init |-> pre.vals[keys[n]][f], next |-> next.vals[keys[n]][f]]]])
MarkWrite(all, wr) == [n \in DOMAIN all |-> [all[n] EXCEPT !.wr = (n = wr)]]
Assembled(k, pre, body, next) ==
    [code |-> MarkWrite(Finish(k, next.code, Outs(k, body)), k.wr),
     phi |-> IF ~k.loop THEN <<>> ELSE IF k.ahead THEN AccPhis(k, body) \o FragPhis(k, pre, next) ELSE AccPhis(k, body),
     trips |-> IF k.loop THEN 2 ELSE 1]
Levels(k) == [l \in 1..k.L |-> l]
AllLevels(b, k, blk) == IF k.ahead THEN FoldLeft(LAMBDA u, l : LoadAll(u, k, blk, l), b, Levels(k)) ELSE b
WithBody(k, pre, body) == Assembled(k, pre, body, AllLevels(body, k, "body"))
WithPre(k, pre) == WithBody(k, pre, FoldLeft(LAMBDA u, l : Level(u, k, l), [pre EXCEPT !.body = Len(pre.code) + 1], Levels(k)))
Build(k) ==
    WithPre(k, AllLevels([code |-> <<>>, vals |-> <<>>, last |-> [n \in 1..Len(Tiles(k)) |-> 0], body |-> 0], k, "pre"))

\* Every way of loading, every accumulator, each disturbance and each place of a write, on small tiles; and tiles
\* that make several operations in a chain or in parallel, or none.
Shaped(S) == {[Plain EXCEPT !.MT = d[1], !.NP = d[2], !.L = d[3]] : d \in S}
LoadedWith(S, A, B) == {[k EXCEPT !.A = a, !.B = b] : k \in Shaped(S), a \in A, b \in B}
Tall == <<2, 1, 1>>
Deep == <<1, 1, 2>>
Wide == <<1, 2, 1>>
Long == <<2, 1, 3>>
MCKernels ==
    LET styles == LoadedWith({Tall, Deep}, {"x4", "x2", "reg", "mem"}, {"x4", "x2", "reg", "solo", "mem"})
        accs == {[k EXCEPT !.loop = l, !.acc = a] : k \in LoadedWith({Tall, Wide}, {"x4"}, {"x4", "solo", "x2"}), l \in BOOLEAN, a \in {"zero", "arg"}}
        ahead == {[k EXCEPT !.ahead = TRUE] : k \in LoadedWith({Tall, Deep}, {"x4", "x2"}, {"x4", "x2"})}
        odd == {[k EXCEPT !.extra = e] : k \in LoadedWith({Wide}, {"x4", "mem"}, {"x4", "x2", "mem"}) \cup LoadedWith({Deep}, {"x4"}, {"x4"}),
                                         e \in {"escape", "mid", "swap", "drop", "inloop", "mixed"}}
        turned == {[k EXCEPT !.aTrans = a, !.bTrans = b] : k \in LoadedWith({Tall}, {"x4", "reg"}, {"x4", "x2", "reg"}),
                                                           a \in BOOLEAN, b \in BOOLEAN}
        poor == {[k EXCEPT !.A = s] : k \in LoadedWith({Tall}, {"x4"}, {"x4"}), s \in {"x1", "x2late"}}
        ints == {[k EXCEPT !.type = "int"] : k \in LoadedWith({Deep}, {"x4", "mem"}, {"mem"})}
        written == {[k EXCEPT !.wr = w] : k \in LoadedWith({Deep}, {"x4", "mem"}, {"x4", "mem"})
                                                \cup LoadedWith({Tall}, {"x2"}, {"x4", "x2"}), w \in 1..12}
        left == {[k EXCEPT !.extra = "escape"] : k \in LoadedWith({Long}, {"x4"}, {"x4", "solo"})}
        large == LoadedWith({Long, <<2, 2, 1>>, <<3, 1, 1>>, <<1, 1, 1>>}, {"x4"}, {"x4", "solo"}) \cup LoadedWith({Long}, {"mem"}, {"mem"})
    IN  {Build(k) : k \in styles \cup accs \cup ahead \cup odd \cup turned \cup poor \cup ints \cup written \cup left \cup large}
(* A kernel the recovery run leaves out: with it in place of MCKernels RecoveredSame does not hold.             *)
\* The first tile's result is read before the last mma of its grid.
ReadEarly == {Build([Plain EXCEPT !.extra = "early"])}
=============================================================================
