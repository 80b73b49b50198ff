------------------------------ MODULE MCRecovery -----------------------------
(* Kernels rewritten for the GPU's matrix units and kernels emitted from a schedule, one at a time: emission,   *)
(* the emitted bodies, dot recovery, tensor recovery and the lane analysis it rests on; and what kernels share  *)
(* through the prelude.  The variables of the other parts keep an idle value, in which none of their actions is *)
(* enabled.                                                                                                     *)
EXTENDS MCEmission, EmittedKernels, MCDotRecovery, MCTensorRecovery, MCLaneValues, DevicePrelude

------------------------------------------------------------------------------
(* Launches for EmittedKernels: rows shorter and longer than a block, with and without a tail, and data with a   *)
(* maximum first, in the middle and last.                                                                        *)
MCShapes == {[M |-> 2, N |-> 3, K |-> 5], [M |-> 1, N |-> 5, K |-> 4], [M |-> 3, N |-> 2, K |-> 11]}
MCElements == {<<0, 2, 1>>, <<3, 0>>}

------------------------------------------------------------------------------
(* Kernels for DevicePrelude: two warps of two lanes, two of whose three addresses have the same lock.           *)
Atomic(op, a) == [op |-> op, cell |-> a, v |-> 1, cmp |-> 0]
MCAtomics == {[l \in {1, 2} \X {1, 2} |-> c[2 * l[1] + l[2] - 2]] :
                c \in {Atomic("ADD", 0), Atomic("CAS", 0)} \X {Atomic("ADD", 0), Atomic("UMAX", 2)}
                        \X {Atomic("ADD", 1), [Atomic("XCHG", 0) EXCEPT !.v = 5]}
                        \X {Atomic("ADD", 0), Atomic("ADD", 1), Atomic("UMAX", 2), Atomic("XCHG", 0)}}

------------------------------------------------------------------------------
IdleEmission == /\ module = <<>> /\ env = [dot |-> FALSE, hasGraph |-> FALSE, graph |-> <<>>] /\ body = <<>> /\ twins = {}
                /\ search = {} /\ relayout = {} /\ db = <<>> /\ result = <<>> /\ deleted = {} /\ next = 2
IdleEmitted == job = TileJob /\ at = [w \in {0} |-> "idle"] /\ reg = <<>> /\ shared = <<>> /\ out = NoCells
IdleDot == /\ dotKernel = Kernel(DotLoop0, 64, 1, 2) /\ stage = "idle" /\ scale = 1 /\ twin = FALSE /\ dotBody = "source"
           /\ dpc = <<>> /\ dotRow = <<>> /\ k = <<>> /\ acc = <<>> /\ xchg = <<>> /\ arrived = {} /\ sums = <<>>
IdleTensor == /\ kernel = <<>> /\ pc = "idle" /\ mma = <<>> /\ ld = <<>> /\ ops = <<>> /\ code = <<>>
              /\ slots = [groups |-> <<>>, padIn |-> <<>>]
\* A program of the greatest length whose nodes use a node that is not there.
IdleLanes == prog = [n \in 1..MaxNodes |-> [op |-> "add", a |-> <<MaxNodes + 1, MaxNodes + 1>>, loop |-> TRUE]] /\ lanes = {} /\ block = NoBlock
IdlePrelude == /\ NoSlots /\ atomics = (<<1, 1>> :> Atomic("ADD", 0)) /\ warpAt = <<"try">> /\ locks = <<>> /\ cell = <<>>
               /\ lane = (<<1, 1>> :> [won |-> FALSE, done |-> TRUE, old |-> 0])

RecInit == \/ EMInit /\ IdleEmitted /\ IdleDot /\ IdleTensor /\ IdleLanes /\ IdlePrelude
           \/ EInit /\ IdleEmission /\ IdleDot /\ IdleTensor /\ IdleLanes /\ IdlePrelude
           \/ DInit /\ IdleEmission /\ IdleEmitted /\ IdleTensor /\ IdleLanes /\ IdlePrelude
           \/ TRInit /\ IdleEmission /\ IdleEmitted /\ IdleDot /\ IdleLanes /\ IdlePrelude
           \/ LInit /\ IdleEmission /\ IdleEmitted /\ IdleDot /\ IdleTensor /\ IdlePrelude
           \/ PreludeInit /\ IdleEmission /\ IdleEmitted /\ IdleDot /\ IdleTensor /\ IdleLanes
RecNext == \/ EMNext /\ UNCHANGED <<evars, dvars, trvars, lvars, pvars>>
           \/ ENext /\ UNCHANGED <<emvars, dvars, trvars, lvars, pvars>>
           \/ DNext /\ UNCHANGED <<emvars, evars, trvars, lvars, pvars>>
           \/ TRNext /\ UNCHANGED <<emvars, evars, dvars, lvars, pvars>>
           \/ Grow /\ UNCHANGED <<emvars, evars, dvars, trvars, pvars>>
           \/ PreludeNext /\ UNCHANGED <<emvars, evars, dvars, trvars, lvars>>
RecSpec == RecInit /\ [][RecNext]_<<emvars, evars, dvars, trvars, lvars, pvars>> /\ WF_dvars(DNext) /\ PreludeFairness
==============================================================================
