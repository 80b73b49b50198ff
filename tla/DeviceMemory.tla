---------------------------- MODULE DeviceMemory ----------------------------
(***************************************************************************)
(* The device allocator (crates/mvcc-cudart/src/memory.rs) behind          *)
(* cudaMalloc and cudaFree: first-fit suballocation from chunks of shared  *)
(* MTLBuffers, buffers of their own for large requests, and the registry   *)
(* that resolves a device pointer to its allocation.                       *)
(*                                                                         *)
(* A BTreeMap is a function whose domain is the set of its keys.  Where    *)
(* Metal puts a buffer is not the runtime's choice: any address of Bases   *)
(* where it overlaps no live buffer.                                       *)
(***************************************************************************)
EXTENDS Integers, Sequences, FiniteSets

CONSTANTS
  Align,         \* ALIGN
  ChunkSize,     \* CHUNK_SIZE
  DedicatedMin,  \* DEDICATED_MIN
  Sizes,         \* sizes the program asks for
  Bases          \* addresses Metal may give a buffer

ASSUME MemoryAssumption ==
  /\ Align \in Nat \ {0} /\ ChunkSize \in Nat /\ DedicatedMin \in Nat \ {0}
  /\ DedicatedMin <= ChunkSize
  /\ Sizes \subseteq Nat /\ Bases \subseteq Nat

VARIABLES
  chunks,  \* Allocator.chunks
  device,  \* Allocator.device: address -> allocation
  inUse    \* Allocator.bytes_in_use

mvars == <<chunks, device, inUse>>

(* BTreeMap insert and remove. *)
Put(f, k, v) == [x \in DOMAIN f \cup {k} |-> IF x = k THEN v ELSE f[x]]
Drop(f, k) == [x \in DOMAIN f \ {k} |-> f[x]]

IsMap(f, S) == f = [x \in DOMAIN f |-> f[x]] /\ DOMAIN f \subseteq Nat /\ \A x \in DOMAIN f : f[x] \in S

(* free: offset -> length of the free ranges, none of them empty. *)
IsChunk(c) ==
  /\ c = [base |-> c.base, free |-> c.free, used |-> c.used]
  /\ c.base \in Nat /\ IsMap(c.free, Nat \ {0}) /\ c.used \in Int

(* chunk: index into chunks, 0 for a buffer of its own. *)
Allocation == [chunk : Nat, offset : Nat, size : Nat \ {0}]

MemTypeOK ==
  /\ chunks \in Seq({chunks[i] : i \in DOMAIN chunks}) /\ \A i \in DOMAIN chunks : IsChunk(chunks[i])
  /\ IsMap(device, Allocation)
  /\ inUse \in Int
-----------------------------------------------------------------------------
(* A chunk *)

NewChunk(base) == [base |-> base, free |-> [o \in {0} |-> ChunkSize], used |-> 0]

(* First fit: the free range of least offset that is long enough. *)
Fits(c, n) == {o \in DOMAIN c.free : c.free[o] >= n}
IsFirstFit(c, n, o) == o \in Fits(c, n) /\ \A q \in Fits(c, n) : o <= q

(* Take n bytes from the front of the free range at o. *)
ChunkAlloc(c, n, o) ==
  LET rest == Drop(c.free, o)
  IN  [c EXCEPT !.free = IF c.free[o] > n THEN Put(rest, o + n, c.free[o] - n) ELSE rest,
                !.used = @ + n]

(* The free range right before off, if it ends there; and right after. *)
Before(f, off) ==
  {p \in DOMAIN f : /\ p < off /\ \A q \in DOMAIN f : q < off => q <= p
                    /\ p + f[p] = off}
Behind(f, end) == {end} \cap DOMAIN f

(* Mutant: the next range is not merged. *)
ReleasePrevOnly(c, off, n) ==
  LET prev == Before(c.free, off)
      start == IF prev = {} THEN off ELSE CHOOSE p \in prev : TRUE
      kept == [x \in DOMAIN c.free \ prev |-> c.free[x]]
  IN  [c EXCEPT !.free = Put(kept, start, (off - start) + n), !.used = @ - n]

(* Give a range back, merged with the free ranges that touch it. *)
Release(c, off, n) ==
  LET prev == Before(c.free, off)
      next == Behind(c.free, off + n)
      start == IF prev = {} THEN off ELSE CHOOSE p \in prev : TRUE
      tail == IF next = {} THEN 0 ELSE c.free[off + n]
      kept == [x \in DOMAIN c.free \ (prev \cup next) |-> c.free[x]]
  IN  [c EXCEPT !.free = Put(kept, start, (off - start) + n + tail), !.used = @ - n]
-----------------------------------------------------------------------------
(* The allocator *)

Overlap(a, n, b, k) == a < b + k /\ b < a + n

(* Metal can put a buffer of n bytes at base (external). *)
Vacant(base, n) ==
  /\ base \in Bases
  /\ \A i \in DOMAIN chunks : ~Overlap(base, n, chunks[i].base, ChunkSize)
  /\ \A a \in DOMAIN device : device[a].chunk = 0 => ~Overlap(base, n, a, device[a].size)

Rounded(size) == (((IF size = 0 THEN 1 ELSE size) + Align - 1) \div Align) * Align

(* The entry of the registry and the total. *)
Registers(addr, chunk, offset, n) ==
  /\ device' = Put(device, addr, [chunk |-> chunk, offset |-> offset, size |-> n])
  /\ inUse' = inUse + n

MemInit == chunks = <<>> /\ device = [a \in {} |-> 0] /\ inUse = 0

AllocDedicated(size, base) ==
  LET n == Rounded(size)
  IN  /\ n >= DedicatedMin
      /\ Vacant(base, n)
      /\ Registers(base, 0, 0, n)
      /\ UNCHANGED chunks

(* The first chunk with room. *)
AllocFromChunk(size, i, o) ==
  LET n == Rounded(size)
  IN  /\ n < DedicatedMin
      /\ \A j \in 1..(i - 1) : Fits(chunks[j], n) = {}
      /\ IsFirstFit(chunks[i], n, o)
      /\ chunks' = [chunks EXCEPT ![i] = ChunkAlloc(@, n, o)]
      /\ Registers(chunks[i].base + o, i, o, n)

AllocNewChunk(size, base) ==
  LET n == Rounded(size)
  IN  /\ n < DedicatedMin
      /\ \A j \in DOMAIN chunks : Fits(chunks[j], n) = {}
      /\ Vacant(base, ChunkSize)
      /\ chunks' = Append(chunks, ChunkAlloc(NewChunk(base), n, 0))
      /\ Registers(base, Len(chunks) + 1, 0, n)

(* The allocation a pointer lies in: the nearest one at or below it, if it *)
(* reaches that far.                                                       *)
Nearest(addr) == {a \in DOMAIN device : a <= addr /\ \A b \in DOMAIN device : b <= addr => b <= a}
Resolve(addr) == {a \in Nearest(addr) : addr < a + device[a].size}

(* cudaFree, once the device is quiet (Copies.tla, Free): only the address *)
(* of an allocation is accepted.                                           *)
FreeDevice(addr) ==
  /\ Resolve(addr) = {addr}
  /\ device' = Drop(device, addr)
  /\ inUse' = inUse - device[addr].size
  /\ LET a == device[addr]
     IN  chunks' = IF a.chunk = 0 THEN chunks
                   ELSE [chunks EXCEPT ![a.chunk] = Release(@, a.offset, a.size)]

MemNext ==
  \/ \E size \in Sizes : \/ \E base \in Bases : AllocDedicated(size, base) \/ AllocNewChunk(size, base)
                         \/ \E i \in DOMAIN chunks : \E o \in DOMAIN chunks[i].free :
                              AllocFromChunk(size, i, o)
  \/ \E addr \in DOMAIN device : FreeDevice(addr)

MemSpec == MemInit /\ [][MemNext]_mvars
-----------------------------------------------------------------------------
(* Properties *)

InChunk(i) == {a \in DOMAIN device : device[a].chunk = i}
Within(x, o, n) == o <= x /\ x < o + n

(* alloc, release: nothing of a chunk is lost and nothing is handed out    *)
(* twice.  Every byte is in one free range or in one allocation, and never *)
(* in two of them.                                                         *)
NothingLost ==
  \A i \in DOMAIN chunks : \A x \in 0..(ChunkSize - 1) :
    \/ \E o \in DOMAIN chunks[i].free : Within(x, o, chunks[i].free[o])
    \/ \E a \in InChunk(i) : Within(x, device[a].offset, device[a].size)
FreeIsFree ==
  \A i \in DOMAIN chunks : \A o \in DOMAIN chunks[i].free :
    \A a \in InChunk(i) : ~Overlap(o, chunks[i].free[o], device[a].offset, device[a].size)

(* cudaMalloc: no two live allocations share an address. *)
Disjoint ==
  \A a, b \in DOMAIN device : a # b => ~Overlap(a, device[a].size, b, device[b].size)

(* release merges on both sides: no two free ranges touch or overlap, so a *)
(* chunk whose allocations are all freed can serve any size again.         *)
Coalesced ==
  \A i \in DOMAIN chunks : LET f == chunks[i].free
                          IN  \A o, q \in DOMAIN f : o < q => o + f[o] < q

(* The counters agree with the registry, after any sequence of calls: they *)
(* count the addresses that live allocations hold.                         *)
Span(A) == UNION {a..(a + device[a].size - 1) : a \in A}
Accounting ==
  /\ inUse = Cardinality(Span(DOMAIN device))
  /\ \A i \in DOMAIN chunks : chunks[i].used = Cardinality(Span(InChunk(i)))

(* resolve_device looks only at the nearest allocation below a pointer,    *)
(* and still finds the allocation that holds it, and no other.             *)
Holding(x) == {a \in DOMAIN device : Within(x, a, device[a].size)}
ResolveExact ==
  \A a \in DOMAIN device : \A x \in a..(a + device[a].size) : Resolve(x) = Holding(x)

(* alloc, free_device: after any sequence of calls the heap is whole and   *)
(* every pointer resolves to the allocation it lies in.                    *)
HeapSound == MemTypeOK /\ NothingLost /\ FreeIsFree /\ Disjoint /\ Coalesced /\ Accounting /\ ResolveExact
=============================================================================
