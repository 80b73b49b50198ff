----------------------------- MODULE HostMemory -----------------------------
(***************************************************************************)
(* The registry of pinned host memory (crates/mvcc-cudart/src/memory.rs):  *)
(* cudaHostAlloc, cudaFreeHost, cudaHostRegister and cudaHostUnregister.   *)
(* It decides whether cudaMemcpy treats a host pointer as pinned.  It is   *)
(* the half of Allocator that DeviceMemory.tla leaves out.                 *)
(*                                                                         *)
(* Addresses and lengths count 4 KiB pages, to which register_host rounds. *)
(* The program registers memory it owns: its claims overlap no other claim *)
(* and no pinned allocation.                                               *)
(***************************************************************************)
EXTENDS DeviceMemory

CONSTANTS
  WrapPages,  \* mvccm_buffer_wrap_host wraps multiples of this many pages
  Pages,      \* bound: addresses
  Lengths     \* lengths of host allocations and registrations

ASSUME HostAssumption ==
  WrapPages \in Nat \ {0} /\ Pages \subseteq Nat /\ Lengths \subseteq Nat \ {0}

VARIABLES
  host,    \* Allocator.host: first page -> length
  pinned,  \* history: what cudaHostAlloc returned, first page -> length
  claims,  \* history: what the program has registered, page -> length
  strayed  \* history: has it ended a registration that was not wrapped?

hvars == <<host, pinned, claims, strayed>>

HostTypeOK ==
  /\ \A f \in {host, pinned, claims} : IsMap(f, Lengths) /\ DOMAIN f \subseteq Pages
  /\ strayed \in BOOLEAN

(* The pages p, p+1, ... p+n-1 are in nobody's hands. *)
Apart(f, p, n) == \A q \in DOMAIN f : p + n <= q \/ q + f[q] <= p
Unused(p, n) == Apart(pinned, p, n) /\ Apart(claims, p, n)
-----------------------------------------------------------------------------
Empty == [p \in {} |-> 0]
HostInit == host = Empty /\ pinned = Empty /\ claims = Empty /\ strayed = FALSE

HostAlloc(p, n) ==
  /\ Unused(p, n)
  /\ host' = Put(host, p, n)
  /\ pinned' = Put(pinned, p, n)
  /\ UNCHANGED <<claims, strayed>>

(* free_host: only the address of an entry is accepted. *)
HostFree(p) ==
  /\ p \in DOMAIN pinned
  /\ host' = Drop(host, p)
  /\ pinned' = Drop(pinned, p)
  /\ UNCHANGED <<claims, strayed>>

(* Memory Metal cannot wrap is accepted and left out of the registry. *)
Wraps(p, n) == p % WrapPages = 0 /\ n % WrapPages = 0

HostRegister(p, n) ==
  /\ Unused(p, n)
  /\ host' = IF Wraps(p, n) THEN Put(host, p, n) ELSE host
  /\ claims' = Put(claims, p, n)
  /\ UNCHANGED <<pinned, strayed>>

(* The entry at or below p goes, whether it holds p or not. *)
AtOrBelow(p) == {k \in DOMAIN host : k <= p /\ \A q \in DOMAIN host : q <= p => q <= k}

HostUnregister(p) ==
  /\ p \in DOMAIN claims
  /\ host' = [k \in DOMAIN host \ AtOrBelow(p) |-> host[k]]
  /\ claims' = Drop(claims, p)
  /\ strayed' = (strayed \/ ~Wraps(p, claims[p]))
  /\ UNCHANGED pinned

(* The entry a host pointer lies in: the nearest one, if it reaches far    *)
(* enough; none means pageable memory.                                     *)
ResolveHost(p) == {k \in AtOrBelow(p) : p < k + host[k]}

HostNext ==
  \/ \E p \in Pages, n \in Lengths : HostAlloc(p, n) \/ HostRegister(p, n)
  \/ \E p \in Pages : HostFree(p) \/ HostUnregister(p)

(* The allocator: both halves of it, in any order. *)
MemoryInit == MemInit /\ HostInit
MemorySpec ==
  MemoryInit /\ [][(MemNext /\ UNCHANGED hvars) \/ (HostNext /\ UNCHANGED mvars)]_<<mvars, hvars>>
HostSpec == MemInit /\ HostInit /\ [][HostNext /\ UNCHANGED mvars]_<<mvars, hvars>>
-----------------------------------------------------------------------------
(* Properties *)

(* register_host, "accepted as no-ops": a registration or its end changes  *)
(* what the registry says about that memory only.  Every pinned allocation *)
(* and every wrapped registration in force is in the registry.             *)
RegistryKept ==
  /\ \A p \in DOMAIN pinned : p \in DOMAIN host
  /\ \A p \in DOMAIN claims : Wraps(p, claims[p]) => p \in DOMAIN host

(* resolve_host: a pointer is pinned exactly when it lies in a pinned      *)
(* allocation or a wrapped registration, and resolves to that one.         *)
PinnedAt(p) ==
  {q \in DOMAIN pinned : q <= p /\ p < q + pinned[q]}
    \cup {q \in DOMAIN claims : Wraps(q, claims[q]) /\ q <= p /\ p < q + claims[q]}
ResolvesPinned == \A p \in Pages : ResolveHost(p) = PinnedAt(p)

(* The registry never calls memory pinned that is not, whatever the        *)
(* program registers; and it says of every address what the program did    *)
(* with it until the end of a registration that was not wrapped            *)
(* (unregister_host) takes another's entry out.                            *)
HostSound ==
  /\ HostTypeOK
  /\ \A p \in Pages : ResolveHost(p) \subseteq PinnedAt(p)
  /\ ~strayed => RegistryKept /\ ResolvesPinned

(* malloc, free, register_host and the rest, in any order: device memory   *)
(* is neither lost nor handed out twice, free ranges are merged, every     *)
(* device address resolves to its own allocation and every host address as *)
(* HostSound says.                                                         *)
MemorySound == HeapSound /\ HostSound
=============================================================================
