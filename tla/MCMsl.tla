-------------------------------- MODULE MCMsl --------------------------------
(* The passes of the MSL back end, one kernel and one pass at a time: control flow, pure regions, guarded       *)
(* copies, wide vectors, address spaces and layouts.  The variables of the other passes keep an idle value.     *)
EXTENDS ControlFlow, PureRegions, Guards, WideVectors, AddressSpaces, Layouts

------------------------------------------------------------------------------
(* Kernels of five blocks: every graph the normalising passes can leave goes *)
(* through the emitter, and every connected graph of RegionBlocks blocks,    *)
(* with every set of pure blocks, through the collapse of pure regions.      *)
CONSTANT RegionBlocks

Ends(n) == {<<s>> : s \in 2..n} \cup {p \in (2..n) \X (2..n) : p[1] # p[2]}
AllGraphs(n) == {Append(g, <<>>) : g \in [1..n - 1 -> Ends(n)]}
Connected(n) == {g \in AllGraphs(n) : Reach(g, 1) = 1..n}
Normalised == {g \in Connected(5) : Reducible(g) /\ Simplified(g)}
MCGraphs == {g \in Normalised : \A b \in 1..5 : 5 \in Reach(g, b)}
Descending(n) == {g \in AllGraphs(n) : \A b \in DOMAIN g : \A s \in Range(g[b]) : s > b}
MCRegions == {g \in Descending(RegionBlocks) : Reach(g, 1) = 1..RegionBlocks}

Idle == graph = <<>> /\ mode = "off" /\ code = <<>>
IdlePass == /\ source = <<<<>>>> /\ trees = source /\ now = source /\ cond = <<>> /\ pure = {}
            /\ inc = <<>> /\ order = <<>> /\ round = 0
Init == (CFInit /\ IdlePass) \/ (PRInit /\ Idle)
Next == \/ CFNext /\ UNCHANGED prvars
        \/ PRNext /\ UNCHANGED cfvars
Spec == Init /\ [][Next]_<<cfvars, prvars>>

------------------------------------------------------------------------------
(***************************************************************************)
(* If-conversion for TLC: triangles, diamonds and a guard inside a guard,  *)
(* with arms of up to two instructions.  Registers 1 and 2 hold the        *)
(* conditions, 3 and 4 device pointers, 5 a shared address, 6 an           *)
(* accumulator and 7 the constant one.                                     *)
(***************************************************************************)
MCMemory == 10 :> 2 @@ 11 :> 3 @@ 12 :> 10 @@ PageAddress :> 0
MCInputs == {[r \in 1..7 |-> <<p, q, a, 12, 5, 6, 1>>[r]] : p \in {0, 1}, q \in {0, 1}, a \in {10, 12, 77}}

I(op, d, args) == [op |-> op, d |-> d, args |-> args]
Cp(d, s, ok) == [op |-> "copy", d |-> 0, args |-> <<d, s>>, valid |-> ok, bytes |-> 16]
Block(phis, insts, term) == [phis |-> phis, insts |-> insts, term |-> term]
Phi(d, from) == [d |-> d, from |-> from]

\* Arm bodies over the registers above n; n + 1 is what the join takes.
GuardBodies(n) ==
  {<<>>, <<I("load", n + 1, <<3>>)>>,
   <<I("load", n + 2, <<4>>), I("load", n + 1, <<n + 2>>)>>,
   <<I("load", n + 2, <<3>>), I("mma", n + 1, <<n + 2, 7, 6>>)>>,
   <<I("mma", n + 2, <<7, 7, 6>>), I("mma", n + 1, <<7, 7, n + 2>>)>>,
   <<I("mma", n + 1, <<7, 7, 6>>), I("add", n + 2, <<n + 1, 7>>)>>,
   <<I("add", n + 2, <<6, 7>>), I("add", n + 1, <<n + 2, 7>>)>>,
   <<I("add", n + 1, <<6, 7>>), Cp(5, 3, TRUE)>>, <<I("load", n + 1, <<4>>), Cp(5, 4, FALSE)>>,
   <<I("vload", n + 1, <<3>>)>>, <<I("add", n + 1, <<6, 7>>), [op |-> "barrier", d |-> 0, args |-> <<>>]>>}
Result(n, b) == IF b = <<>> THEN 6 ELSE n + 1

Triangles ==
  {<<Block(<<>>, <<>>, IF t THEN <<1, 2, 3>> ELSE <<1, 3, 2>>),
     Block(<<>>, b, <<3>>),
     Block(<<Phi(40, 1 :> r @@ 2 :> Result(10, b)), Phi(41, 1 :> 7 @@ 2 :> s)>>, <<>>, <<>>)>> :
       t \in BOOLEAN, b \in GuardBodies(10), r \in {6, 7}, s \in {6, 7}}
Diamonds ==
  {<<Block(<<>>, <<>>, <<1, 2, 3>>), Block(<<>>, b1, <<4>>), Block(<<>>, b2, <<4>>),
     Block(<<Phi(40, 2 :> Result(10, b1) @@ 3 :> Result(20, b2))>>, <<>>, <<>>)>> :
       b1 \in GuardBodies(10), b2 \in GuardBodies(20)}
\* A guard on 2 inside the arm of a guard on 1.
Nested ==
  {<<Block(<<>>, <<>>, <<1, 2, 5>>), Block(<<>>, b1, <<2, 3, 4>>), Block(<<>>, b2, <<4>>),
     Block(<<Phi(40, 2 :> Result(10, b1) @@ 3 :> Result(20, b2))>>, <<>>, <<5>>),
     Block(<<Phi(41, 1 :> 6 @@ 4 :> 40)>>, <<>>, <<>>)>> : b1 \in GuardBodies(10), b2 \in GuardBodies(20)}
\* The join of the inner guard is the join of the outer one.
SharedArms ==
  {<<Block(<<>>, <<>>, <<1, 2, 4>>), Block(<<>>, b1, <<2, 3, 4>>), Block(<<>>, b2, <<4>>),
     Block(<<Phi(40, 1 :> 7 @@ 2 :> Result(10, b1) @@ 3 :> Result(20, b2))>>, <<>>, <<>>)>> :
       b1 \in GuardBodies(10), b2 \in GuardBodies(20)}
Predicated ==
  {<<Block(<<>>, <<[op |-> "pcopy", d |-> 10, args |-> <<5, 3, 6, r>>, cmp |-> cmp]>>, <<1, 2, 3>>),
     Block(<<>>, b, <<3>>), Block(<<Phi(40, 1 :> 6 @@ 2 :> Result(20, b))>>, <<>>, <<>>)>> :
       r \in {6, 7}, cmp \in {"eq", "lt"}, b \in GuardBodies(20)}
MCSources == Triangles \cup Diamonds \cup Nested \cup SharedArms \cup Predicated

\* Both arms compute the destination of their copy.  The msl run leaves it out: one of the two values is erased
\* while its copy still needs it (SameEffect).
Recomputed ==
  {<<Block(<<>>, <<>>, <<1, 2, 3>>),
     Block(<<>>, <<I("add", 11, <<5, 7>>), Cp(11, 3, TRUE)>>, <<4>>),
     Block(<<>>, <<I("add", 21, <<5, 7>>), Cp(21, 3, FALSE)>>, <<4>>),
     Block(<<Phi(40, 2 :> 6 @@ 3 :> 7)>>, <<>>, <<>>)>>}

------------------------------------------------------------------------------
(***************************************************************************)
(* Scalarization for TLC, with vectors of more than two lanes wide: a loop *)
(* body that carries a wide phi through two operations to its back edge.   *)
(***************************************************************************)
Ty(n, b) == [n |-> n, bits |-> b, fp64 |-> FALSE]
In(ty, const) == [op |-> "input", ty |-> ty, args |-> <<>>, const |-> const]
Op(op, ty, args) == [op |-> op, ty |-> ty, args |-> args]

\* 1: the wide phi (4 x 1 bit), 2: a scalar of 2 bits, 3: an index, 4: a narrow
\* vector of 2 x 2 bits, 5: another wide vector.
Phi0 == [op |-> "phi", ty |-> Ty(4, 1), args |-> <<>>, back |-> 7]
Prefix(const) == <<Phi0, In(Ty(1, 1), FALSE), In(Ty(1, 2), const), In(Ty(2, 2), FALSE), In(Ty(4, 1), FALSE)>>
Firsts == {Op("bin", Ty(4, 1), <<1, 5>>), [op |-> "shuffle", ty |-> Ty(4, 1), args |-> <<1, 5>>, mask |-> <<4, 0, 7, 3>>],
           Op("insert", Ty(4, 1), <<1, 2, 3>>), Op("select", Ty(4, 1), <<1, 5, 2>>), Op("select", Ty(4, 1), <<1, 5, 5>>),
           [op |-> "bitcast", ty |-> Ty(4, 1), args |-> <<4>>, from |-> 2],
           [op |-> "bitcast", ty |-> Ty(2, 2), args |-> <<1>>, from |-> 1],
           [op |-> "bitcast", ty |-> Ty(1, 4), args |-> <<1>>, from |-> 1],
           Op("extract", Ty(1, 1), <<1, 3>>), Op("reduce", Ty(1, 1), <<1>>), Op("call", Ty(4, 1), <<1>>)}
Seconds(f) == {Op("bin", Ty(4, 1), <<1, 5>>)}
              \cup (IF f.ty = Ty(4, 1) THEN {Op("bin", Ty(4, 1), <<6, 1>>), Op("insert", Ty(4, 1), <<6, 2, 3>>),
                                             [op |-> "shuffle", ty |-> Ty(4, 1), args |-> <<6, 1>>, mask |-> <<3, 2, 5, 4>>]} ELSE {})
              \cup (IF f.ty = Ty(2, 2) THEN {[op |-> "bitcast", ty |-> Ty(4, 1), args |-> <<6>>, from |-> 2]} ELSE {})
              \cup (IF f.ty = Ty(1, 4) THEN {[op |-> "bitcast", ty |-> Ty(4, 1), args |-> <<6>>, from |-> 4]} ELSE {})
MCBodies == UNION {{Prefix(c) \o <<f, g>> : g \in Seconds(f)} : f \in Firsts, c \in BOOLEAN}

W4 == {<<1, 0, 0, 1>>, <<0, 1, 1, 1>>, <<0, 0, 1, 0>>}
MCEnvs(b) == {<<p, <<1>>, <<i>>, n, q>> : p \in W4, i \in {0, 2, 3}, n \in {<<1, 2>>, <<3, 0>>}, q \in W4}

------------------------------------------------------------------------------
(* Programs for AddressSpaces: pointers to device, shared, private and constant memory, stored to private       *)
(* memory one by one or as a vector, joined and read back.                                                      *)
A(op, a) == [op |-> op, a |-> a]
\* 1 device, 2 shared, 3 private, 4 constant table, 5 null, 6 and 7 the device and the shared pointer as integers.
MCObjects == <<A("device", <<>>), A("shared", <<>>), A("private", <<>>), A("table", <<>>), A("null", <<>>),
               A("int", <<1>>), A("int", <<2>>), A("vec", <<6, 7>>), A("num", <<>>)>>
St(v, s) == A("store", <<v, s>>)
MCStored == {<<St(1, 0), St(w, t)>> : w \in {2, 4, 6, 9}, t \in {0, 1}}
            \cup {<<St(7, 2), St(w, 0)>> : w \in {4, 9}} \cup {<<St(8, 0), St(2, t)>> : t \in {0, 2}}
            \cup {<<St(8, 0), A("loadv", <<0>>), A("elem", <<11, 0>>), A("elem", <<11, 1>>)>>}
MCShapes ==
    {A(op, <<x, y>>) : op \in {"select", "phi"}, x \in {0, 1, 2}, y \in {0, 5, -1}}
    \cup {A(op, <<0>>) : op \in {"gep", "int", "ptr"}}
    \cup {A(op, <<s>>) : op \in {"load", "loadi"}, s \in {0, 1, 2}}
    \cup {A("loadv", <<0>>), A("iselect", <<0, 7>>), A("iphi", <<6, -1>>), A("iphi", <<0, 9>>),
          A("iselect", <<12, 13>>)}
    \cup {A("elem", <<x, 1>>) : x \in {0, 8}}
Way(s, p) == [space |-> s, ptr |-> p]
MCJoins == {[ins |-> <<Way(s, 1), Way(t, 2)>>, body |-> b] :
              s \in {Device, Private}, t \in {Device, Shared}, b \in SeqOf({"load", "write", "other"}, 3)}

------------------------------------------------------------------------------
(* Kernels and modules for Layouts: two or three objects of sizes and alignments that do not fit one another.   *)
O(size, align, kind, init) == [size |-> size, align |-> align, kind |-> kind, init |-> init]
Shared1 == {O(4, 4, "static", <<>>), O(20, 16, "static", <<>>), O(64, 32, "static", <<>>), O(40, 4, "dynamic", <<>>)}
MCSharedJobs == [objs : {<<a, b, c>> : a, b, c \in Shared1}, conversions : BOOLEAN, maxThreads : {0, 48, 128}, alias : BOOLEAN]
MCParams == {O(1, 1, "scalar", <<>>), O(4, 4, "scalar", <<>>), O(8, 8, "scalar", <<>>), O(12, 4, "struct", <<>>), O(24, 8, "struct", <<>>)}
MCParamJobs == {<<a, b, c>> : a, b, c \in MCParams} \cup {<<a>> : a \in MCParams} \cup {<<>>}
Global(others) == {O(4, 4, "device", <<0>>), O(2, 2, "constant", <<0>>), O(12, 4, "table", <<0, 0>>)}
                  \cup {O(8, 8, "table", <<t>>) : t \in others} \cup {O(16, 8, "device", <<0, t>>) : t \in others}
MCGlobalJobs == {<<a, b, c>> : a \in Global({1, 2}), b \in Global({3}), c \in Global({1, 3})}

------------------------------------------------------------------------------
IdleGuards == original = <<[insts |-> <<>>, phis |-> <<>>, term |-> <<>>]>> /\ fn = original /\ dead = {} /\ passNo = 0 /\ queue = <<>> /\ changed = FALSE
IdleVectors == body = <<>> /\ env = <<>> /\ pos = 2 /\ parts = <<>> /\ scalars = <<>> /\ lanePhis = <<>> /\ err = FALSE
IdleSpaces == nodes = <<>> /\ grown = MaxGrown /\ join = NoJoin
IdleLayout == todo = Nothing /\ laid = Nothing
MslInit == \/ Init /\ IdleGuards /\ IdleVectors /\ IdleSpaces /\ IdleLayout
           \/ GInit /\ Idle /\ IdlePass /\ IdleVectors /\ IdleSpaces /\ IdleLayout
           \/ WInit /\ Idle /\ IdlePass /\ IdleGuards /\ IdleSpaces /\ IdleLayout
           \/ ASInit /\ Idle /\ IdlePass /\ IdleGuards /\ IdleVectors /\ IdleLayout
           \/ LYInit /\ Idle /\ IdlePass /\ IdleGuards /\ IdleVectors /\ IdleSpaces
MslNext == \/ Next /\ UNCHANGED <<gvars, wvars, asvars, lyvars>>
           \/ GNext /\ UNCHANGED <<cfvars, prvars, wvars, asvars, lyvars>>
           \/ WNext /\ UNCHANGED <<cfvars, prvars, gvars, asvars, lyvars>>
           \/ ASNext /\ UNCHANGED <<cfvars, prvars, gvars, wvars, lyvars>>
           \/ LYNext /\ UNCHANGED <<cfvars, prvars, gvars, wvars, asvars>>
MslSpec == MslInit /\ [][MslNext]_<<cfvars, prvars, gvars, wvars, asvars, lyvars>>
==============================================================================
