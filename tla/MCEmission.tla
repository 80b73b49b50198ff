----------------------------- MODULE MCEmission -----------------------------
(* Modules of up to two kernels for Emission: maps with every kind of index, loops the emitters know by name,     *)
(* collectives, atomics, a serial kernel, a dot product and kernels with matrix operations.                       *)
EXTENDS Emission

L(op) == Node(op, 0, <<>>)
C(n) == Node("const", n, <<>>)
tid == L("tid.x")
cta == L("ctaid.x")
arg == L("arg")
Mul(a, b) == Node("mul", 0, <<a, b>>)
AddIR(a, b) == Node("add", 0, <<a, b>>)
ElemAt(i) == Node("gep", 0, <<arg, i>>)
Map(i) == <<i, Node("icmp lt", 0, <<i, arg>>), Node("load", 4, <<ElemAt(i)>>), Node("store", 4, <<C(0), ElemAt(i)>>)>>
Kern(name, insts, p, n, loop, T) ==
    [name |-> name, insts |-> insts, ptrs |-> p, ints |-> n, loop |-> loop, bound |-> T,
     dot |-> FALSE, recovered |-> FALSE, does |-> name]
ArgStride == Kern("rows", Map(AddIR(Mul(cta, arg), tid)), 2, 1, FALSE, 8)
NtidStride == Kern("map", Map(AddIR(tid, Mul(cta, L("ntid.x")))), 2, 1, FALSE, 0)
ConstStride == Kern("silu", Map(AddIR(Mul(cta, C(4)), tid)), 3, 1, FALSE, 8)
Halved == Kern("pairs", Map(Node("or", 0, <<Node("shl", 0, <<Node("cast", 0, <<cta>>), C(2)>>),
                                            Node("lshr", 0, <<tid, C(1)>>)>>)), 2, 1, FALSE, 8)
OneBlock == Kern("relu", <<Node("load", 4, <<ElemAt(tid)>>), Node("store", 4, <<C(0), ElemAt(tid)>>)>>, 2, 0, FALSE, 8)
Serial == Kern("gemv", <<Node("load", 2, <<ElemAt(C(0))>>), Node("store", 4, <<C(0), ElemAt(C(0))>>)>>, 3, 2, TRUE, 0)
RowSumKernel == Kern("rowsum", <<AddIR(tid, C(128)), L("shfl"), L("barrier"), Node("load", 4, <<ElemAt(AddIR(cta, L("phi")))>>),
                           Node("store", 4, <<C(0), ElemAt(cta)>>)>>, 2, 1, TRUE, 128)
Transpose == Kern("transpose", <<AddIR(tid, C(32)), L("barrier"), Node("load", 4, <<ElemAt(tid)>>),
                                 Node("store", 4, <<C(0), ElemAt(AddIR(tid, C(32)))>>)>>, 2, 0, TRUE, 32)
Histogram == Kern("hist", <<Node("atomic", 4, <<Node("gep", 0, <<L("shared"), tid>>), C(1)>>)>>, 2, 1, TRUE, 64)
FirstThread == Kern("scan", <<Node("icmp eq", 0, <<tid, C(0)>>), Node("load", 4, <<ElemAt(C(0))>>),
                              Node("store", 4, <<C(0), ElemAt(C(1))>>)>>, 2, 1, TRUE, 32)
Dot == [Kern("dots", <<Node("load", 2, <<ElemAt(tid)>>), Node("store", 4, <<C(0), ElemAt(tid)>>)>>, 3, 2, TRUE, 64)
          EXCEPT !.dot = TRUE]
Batched == [Dot EXCEPT !.ints = 3, !.name = "batched", !.does = "batched"]
Empty == Kern("empty", <<tid>>, 1, 0, FALSE, 0)
Mma == Kern("mma", <<L("mma.sync")>>, 3, 3, TRUE, 32)
Recovered == [Mma EXCEPT !.recovered = TRUE, !.insts = <<L("tp_mma")>>, !.name = "tp", !.does = "tp"]

MCCorpus == {ArgStride, NtidStride, ConstStride, Halved, OneBlock, Serial, RowSumKernel, Transpose, Histogram,
             FirstThread, Dot, Empty, Mma, Recovered}
MCPrograms ==
    {Prog({}, TRUE, TRUE), Prog({LoopStmt({"Sum"}, TRUE)}, FALSE, TRUE),
     Prog({LoopStmt({"Max", "Tuple"}, TRUE)}, FALSE, TRUE),
     [Prog({}, TRUE, TRUE) EXCEPT !.unfitted = TRUE], [Prog({}, TRUE, TRUE) EXCEPT !.mismatch = TRUE]}
Line(a, b, s, h) == [src |-> a, dst |-> b, same |-> s, host |-> h]
MCGraphFiles == {<<>>, <<Line("relu", "transpose", TRUE, FALSE)>>, <<Line("transpose", "relu", TRUE, TRUE)>>,
                 <<Line("rel", "rel", TRUE, FALSE), Line("relu", "lost", TRUE, FALSE)>>}
MCOccurs == {<<"relu", "rel">>}
MCLaunches == [tid : {0, 3}, cta : {0, 2}, ntid : {4}, nctaid : {3}, arg : {5}]
\* A kernel the recovery run leaves out: its search variant is an sgemm (EveryBodySame).
BatchedOnly == {Batched}
=============================================================================
