---------------------------- MODULE MCLaneValues ----------------------------
(* Programs for LaneValues: values grown from the thread index, the lane, the argument, the block index and a   *)
(* loop-carried value, and the address arithmetic of fragment loads, right and slightly wrong.                  *)
EXTENDS LaneValues

Nd(op, a) == [op |-> op, a |-> a, loop |-> FALSE]
\* 1 tid, 2 laneid, 3 arg, 4 ctaid, then constants 1, 4, 5, 15, 16, 32 at 5..10, the loop's phi at 11.
MCPrelude == <<Nd("tid", <<>>), Nd("laneid", <<>>), Nd("arg", <<>>), Nd("ctaid", <<>>), Nd("const", <<1>>), Nd("const", <<4>>),
               Nd("const", <<5>>), Nd("const", <<15>>), Nd("const", <<16>>), Nd("const", <<32>>),
               [op |-> "phi", a |-> <<3, 12>>, loop |-> TRUE]>>
\* Operand 0 is the newest node: of the first step, the phi itself.
MCNodeShapes ==
    {<<op, <<0, y>>>> : op \in {"add", "mul"}, y \in {1, 2, 3, 4, 6, 11}}
    \cup {<<op, <<x, c>>>> : op \in {"udiv", "urem", "and"}, x \in {0, 1}, c \in {7, 8, 9, 10}}
    \cup {<<"lshr", <<x, c>>>> : x \in {0, 1}, c \in {5, 6, 7}}
    \cup {<<"shl", <<0, c>>>> : c \in {5, 6}}
    \cup {<<op, <<0, y>>>> : op \in {"or", "ordis", "xor", "lt"}, y \in {1, 3, 9}}
    \cup {<<"select", <<0, 3, 4>>>>, <<"select", <<0, 1, 3>>>>, <<"select", <<3, 0, 1>>>>,
          <<"load", <<0>>>>, <<"sload", <<0>>>>, <<"cast", <<0>>>>, <<"merge", <<0, 4, 3>>>>,
          <<"merge", <<3, 4, 1>>>>}

\* Addresses arg + (row * pitch + col) * es of the four words of a fragment, the pitch being the block index + 8.
Frag(kind, off, scale) ==
    LET p == <<Nd("tid", <<>>), Nd("arg", <<>>), Nd("ctaid", <<>>), Nd("const", <<31>>), Nd("const", <<2>>), Nd("const", <<3>>),
               Nd("and", <<1, 4>>),      \* 7 lane
               Nd("lshr", <<7, 5>>),     \* 8 g
               Nd("and", <<7, 6>>),      \* 9 t
               Nd("const", <<8>>),       \* 10
               Nd("add", <<3, 10>>),     \* 11 pitch
               Nd("const", <<scale>>), Nd("mul", <<9, 12>>),   \* 13 bytes of the column
               Nd("mul", <<8, 11>>), Nd("shl", <<14, 16>>), Nd("const", <<1>>),   \* 15 bytes of the row
               Nd("add", <<2, 15>>), Nd("add", <<17, 13>>),    \* 18 word 0
               Nd("mul", <<11, 19>>), Nd("const", <<16>>),     \* 19 eight rows of two bytes
               Nd("add", <<18, 19>>),                         \* 21
               Nd("const", <<16 + off>>),
               Nd("add", <<18, 22>>), Nd("add", <<21, 22>>)>>  \* 23, 24
    IN  [prog |-> [p EXCEPT ![19] = Nd("mul", <<11, 20>>)], kind |-> kind, type |-> "half",
         words |-> IF kind = 0 THEN <<18, 21, 23, 24>> ELSE <<18, 23, 21, 24>>]
MCBlocks == {Frag(kind, off, s) : kind \in {0, 1}, off \in {0, 2}, s \in {4, 2}}
            \cup {[Frag(0, 0, 4) EXCEPT !.kind = 1]}
MCTids == {0, 1, 4, 17, 37, 48}
=============================================================================
