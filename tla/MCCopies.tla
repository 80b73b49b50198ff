------------------------------ MODULE MCCopies ------------------------------
(***************************************************************************)
(* Copies.tla for TLC: kernels, host functions and copies of every kind,   *)
(* in programs that make no waiting copy and free nothing once they have   *)
(* queued a host function (the runtime's waits pass over it).              *)
(***************************************************************************)
EXTENDS Copies

HostFuncQueued == \E s \in Streams : str[s].hostValue > 0

Calls ==
  \/ \E s \in Streams : \/ \E nb \in BOOLEAN : CreateStream(s, nb)
                        \/ Launch(s, {}) \/ LaunchHostFunc(s) \/ QueryStream(s) \/ SyncStream(s)
  \/ CopyAsyncCall
  \/ ~HostFuncQueued /\ CopySyncCall

Copying == Calls \/ CopyProgress \/ HostProgress \/ Gpu
CopyingSpec == Init /\ [][Copying]_vars

(* The same with stream destruction. *)
DestroySpec == Init /\ [][Copying \/ \E s \in Streams : DestroyStream(s)]_vars
=============================================================================
