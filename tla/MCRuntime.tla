------------------------------ MODULE MCRuntime ------------------------------
(* The parts of the runtime beside the streams, one at a time: the allocator, the collectives of a process and   *)
(* stream capture.  They share no state; the variables of the other parts keep their initial values.             *)
EXTENDS HostMemory, MCNccl, Capture, FiniteSets

------------------------------------------------------------------------------
(***************************************************************************)
(* The allocator for TLC.  Its two halves share no state, so programs that *)
(* use one of them at a time show all there is.                            *)
(***************************************************************************)
NoDeviceMemory == chunks = <<>> /\ DOMAIN device = {}
NoHostMemory == DOMAIN host = {} /\ DOMAIN pinned = {} /\ DOMAIN claims = {} /\ ~strayed

MemoryNext ==
  \/ NoHostMemory /\ MemNext /\ UNCHANGED hvars
  \/ NoDeviceMemory /\ HostNext /\ UNCHANGED mvars

------------------------------------------------------------------------------
(***************************************************************************)
(* Capture.tla for TLC.  Streams other than the legacy one are             *)
(* interchangeable, so the first capture begins on a fixed one.  A program *)
(* with one capture records MaxOps operations; once a second one begins,   *)
(* no stream is destroyed, both together stay an operation short of that,  *)
(* as does every graph, and so do the levels.                              *)
(***************************************************************************)
Begun == {k \in Sessions : sessions[k].state # "new"}
FirstStream == CHOOSE s \in Streams \ {Legacy} : TRUE
Total(c) == Len(c[1].ops) + Len(c[2].ops)

Small ==
  /\ sessions[1].origin \in {Legacy, FirstStream}
  /\ \/ Cardinality(Begun) <= 1
     \/ /\ alive = Streams /\ Total(sessions) < MaxOps
        /\ \A g \in graphs : Len(g) < MaxOps
        /\ \A k \in Sessions, s \in Streams : NextLevel(sessions[k], s) < MaxOps

------------------------------------------------------------------------------
CaptureUnused == Begun = {} /\ alive = Streams
RuntimeInit == MemoryInit /\ NcclInit /\ CaptureInit
\* A program that makes no collective call uses the allocator or capture.
RuntimeNext ==
    \/ prog # NoCalls /\ NcclNext /\ UNCHANGED <<mvars, hvars, cvars>>
    \/ prog = NoCalls /\ CaptureUnused /\ MemoryNext /\ UNCHANGED <<nvars, cvars>>
    \/ prog = NoCalls /\ NoDeviceMemory /\ NoHostMemory /\ CaptureNext /\ Small' /\ UNCHANGED <<mvars, hvars, nvars>>
RuntimeSpec == RuntimeInit /\ [][RuntimeNext]_<<mvars, hvars, nvars, cvars>> /\ NcclFairness
==============================================================================
