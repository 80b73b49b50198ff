--------------------------- MODULE DevicePrelude ---------------------------
(***************************************************************************)
(* The two lock-free parts of the device prelude (msl/mvcc_prelude.metal). *)
(*                                                                         *)
(* Spill slots: a kernel whose shared memory does not fit in threadgroup   *)
(* memory keeps that of each block in a slot of a pool in device memory.   *)
(* The first thread of a block takes a slot by writing the block's number  *)
(* of threads over a zero counter, each thread subtracts one as it         *)
(* returns.  Pools outlive their kernels, and kernels of several streams   *)
(* share one.                                                              *)
(*                                                                         *)
(* 64-bit atomics: a plain read and write under a spinlock chosen by the   *)
(* address.  The lanes of a warp run in lockstep: those that do not get    *)
(* their lock wait for the others at the end of the loop's iteration.      *)
(***************************************************************************)
EXTENDS Naturals, SequencesExt, FiniteSetsExt

CONSTANTS
  Needs,       \* bytes of shared memory a kernel may ask for
  BlockSizes,  \* threads of a block
  Grid,        \* blocks of a kernel
  MaxLaunches, \* kernels launched
  Room,        \* blocks the GPU holds at a time
  PoolSlots,   \* slots of a pool
  Places,      \* device addresses where a pool's slots may begin
  Unit,        \* a stride is a multiple of this
  Window,      \* reach of a 32-bit shared address
  Atomics,     \* kernels that use atomics: each maps <<warp, lane>> to an operation
  Addresses,   \* addresses they use
  LockCount    \* locks in the table

Stride(need) == ((need + Unit - 1) \div Unit) * Unit

\* A pool is smaller than the reach of an address, so that one of its slots at most crosses a boundary.
ASSUME PreludeAssumption ==
  /\ PoolSlots \in Nat /\ PoolSlots > 1 /\ \A n \in Needs : PoolSlots * Stride(n) <= Window
  /\ Needs \subseteq Nat /\ Places \subseteq Nat /\ Grid \in Nat
  /\ Unit \in Nat \ {0} /\ Window \in Nat \ {0}
  /\ IsFiniteSet(BlockSizes) /\ BlockSizes # {} /\ BlockSizes \subseteq Nat \ {0}
  /\ LockCount \in Nat \ {0} /\ Addresses \subseteq Nat
  /\ \A P \in Atomics : IsFiniteSet(DOMAIN P)
                        /\ \A l \in DOMAIN P : /\ P[l].op \in {"ADD", "XCHG", "UMAX", "CAS"} /\ P[l].cell \in Addresses
                                               /\ P[l].v \in Nat /\ P[l].cmp \in Nat

VARIABLES
  pools,   \* Runtime::spill_pools: [stride, base, count], one counter for each slot
  blocks,  \* the blocks of the kernels launched: [st, start, pool, need, threads, at, slot, live]
  atomics, \* the kernel that uses atomics
  warpAt,  \* where each of its warps is in __mvcc_atomic64
  lane,    \* each lane's [won, done, old]
  locks,   \* the lock table: TRUE where taken
  cell     \* the 64-bit values

svars == <<pools, blocks>>
avars == <<atomics, warpAt, lane, locks, cell>>
pvars == <<svars, avars>>

-----------------------------------------------------------------------------
(* Spill slots *)

\* The mark of a slot nobody may take: greater than the threads of any block.
Marked == 1 + Max(BlockSizes)
SlotAt(p, i) == p.base + i * p.stride
High(a) == (a \div Window) * Window
Crosses(p, i) == High(SlotAt(p, i)) # High(SlotAt(p, i) + p.stride - 1)

NewPool(stride, base) ==
  LET p == [stride |-> stride, base |-> base, count |-> <<>>]
  IN  [p EXCEPT !.count = [i \in 0..(PoolSlots - 1) |-> IF Crosses(p, i) THEN Marked ELSE 0]]

\* The pools with one for a kernel that needs `need` bytes, and which it is.
spill_pool(need, base) ==
  LET fit == {n \in DOMAIN pools : pools[n].stride >= Stride(need)}
  IN  IF fit # {} THEN [all |-> pools, n |-> Min(fit)]
      ELSE [all |-> Append(pools, NewPool(Stride(need), base)), n |-> Len(pools) + 1]

Resident == {b \in DOMAIN blocks : blocks[b].st \in {"probing", "running"}}

encode_kernel(need, threads, base) ==
  LET p == spill_pool(need, base)
  IN  /\ Len(blocks) < MaxLaunches * Grid
      /\ pools' = p.all
      /\ blocks' = blocks \o [b \in 1..Grid |-> [st |-> "queued", start |-> b - 1, pool |-> p.n, need |-> need,
                                                 threads |-> threads, at |-> 0, slot |-> 0, live |-> 0]]

\* The GPU starts a block when it has room.
Dispatch(b) ==
  /\ blocks[b].st = "queued" /\ Cardinality(Resident) < Room
  /\ blocks' = [blocks EXCEPT ![b] = [@ EXCEPT !.st = "probing", !.at = blocks[b].start % PoolSlots]]
  /\ UNCHANGED pools

\* The first thread gets the slot it looks at; the barrier lets the others go on.
spill_acquire(b) ==
  LET me == blocks[b]
  IN  /\ me.st = "probing" /\ pools[me.pool].count[me.at] = 0
      /\ pools' = [pools EXCEPT ![me.pool].count[me.at] = me.threads]
      /\ blocks' = [blocks EXCEPT ![b] = [me EXCEPT !.st = "running", !.slot = me.at, !.live = me.threads]]

\* Or looks at the next one: the slot is taken, or the weak exchange failed.
ProbeOn(b) ==
  /\ blocks[b].st = "probing"
  /\ blocks' = [blocks EXCEPT ![b].at = IF @ + 1 = PoolSlots THEN 0 ELSE @ + 1]
  /\ UNCHANGED pools

\* Mutant: the first thread to return frees the slot.
ReleaseWhole(b) ==
  LET me == blocks[b]
  IN  /\ me.st = "running"
      /\ pools' = [pools EXCEPT ![me.pool].count[me.slot] = 0]
      /\ blocks' = [blocks EXCEPT ![b] = [me EXCEPT !.live = @ - 1, !.st = IF me.live = 1 THEN "done" ELSE @]]
\* __MVCC_RETURN: a thread gives back its share and is gone.
spill_release(b) ==
  LET me == blocks[b]
  IN  /\ me.st = "running"
      /\ pools' = [pools EXCEPT ![me.pool].count[me.slot] = @ - 1]
      /\ blocks' = [blocks EXCEPT ![b] = [me EXCEPT !.live = @ - 1, !.st = IF me.live = 1 THEN "done" ELSE @]]

BlockStep(b) == Dispatch(b) \/ spill_release(b)
SpillNext ==
  /\ \/ \E need \in Needs, threads \in BlockSizes, base \in Places : encode_kernel(need, threads, base)
     \/ \E b \in DOMAIN blocks : BlockStep(b) \/ spill_acquire(b) \/ ProbeOn(b)
  /\ UNCHANGED avars

-----------------------------------------------------------------------------
(* 64-bit atomics *)

LockOf(a) == a % LockCount
Of(w) == {l \in DOMAIN atomics : l[1] = w}
Pending(w) == {l \in Of(w) : ~lane[l].done}
Winners(w) == {l \in Of(w) : lane[l].won}

\* Of the lanes of a warp that try the same free lock one gets it.
Winning(w) ==
  {S \in SUBSET Pending(w) :
     /\ S # {} /\ \A l \in S : ~locks[LockOf(atomics[l].cell)]
     /\ \A l, m \in S : LockOf(atomics[l].cell) = LockOf(atomics[m].cell) => l = m}
Lock(w, S, at) ==
  /\ locks' = [h \in DOMAIN locks |-> locks[h] \/ \E l \in S : LockOf(atomics[l].cell) = h]
  /\ lane' = [l \in DOMAIN lane |-> IF l \in S THEN [lane[l] EXCEPT !.won = TRUE] ELSE lane[l]]
  /\ warpAt' = [warpAt EXCEPT ![w] = at]

\* Mutant: a loop of its own takes the lock, and the warp leaves it when all its lanes have theirs.
TakeLocksApart(w) ==
  /\ warpAt[w] = "try"
  /\ \E S \in Winning(w) :
       Lock(w, S, IF Pending(w) \subseteq S \cup Winners(w) THEN "read" ELSE "try")
  /\ UNCHANGED <<atomics, cell>>
\* An iteration in which some lane of the warp gets its lock (in the others nothing changes).
TakeLocks(w) ==
  /\ warpAt[w] = "try"
  /\ \E S \in Winning(w) : Lock(w, S, "read")
  /\ UNCHANGED <<atomics, cell>>

ReadCells(w) ==
  /\ warpAt[w] = "read"
  /\ lane' = [l \in DOMAIN lane |-> IF l \in Winners(w) THEN [lane[l] EXCEPT !.old = cell[atomics[l].cell]] ELSE lane[l]]
  /\ warpAt' = [warpAt EXCEPT ![w] = "write"]
  /\ UNCHANGED <<atomics, locks, cell>>

\* What an operation makes of the old value; values stay far below 2^64 here.
NewValue(o, old) ==
  CASE o.op = "ADD" -> old + o.v
    [] o.op = "XCHG" -> o.v
    [] o.op = "UMAX" -> Max({old, o.v})
    [] o.op = "CAS" -> IF old = o.cmp THEN o.v ELSE old

WriteCells(w) ==
  /\ warpAt[w] = "write"
  /\ cell' = [a \in DOMAIN cell |->
                LET here == {l \in Winners(w) : atomics[l].cell = a}
                IN  IF here = {} THEN cell[a] ELSE LET l == CHOOSE l \in here : TRUE IN NewValue(atomics[l], lane[l].old)]
  /\ warpAt' = [warpAt EXCEPT ![w] = "unlock"]
  /\ UNCHANGED <<atomics, locks, lane>>

Unlock(w) ==
  /\ warpAt[w] = "unlock"
  /\ locks' = [h \in DOMAIN locks |-> locks[h] /\ \A l \in Winners(w) : LockOf(atomics[l].cell) # h]
  /\ lane' = [l \in DOMAIN lane |-> IF l \in Winners(w) THEN [lane[l] EXCEPT !.won = FALSE, !.done = TRUE] ELSE lane[l]]
  /\ warpAt' = [warpAt EXCEPT ![w] = "try"]
  /\ UNCHANGED <<atomics, cell>>

WarpStep(w) == TakeLocks(w) \/ ReadCells(w) \/ WriteCells(w) \/ Unlock(w)
AtomicNext == (\E w \in DOMAIN warpAt : WarpStep(w)) /\ UNCHANGED svars

-----------------------------------------------------------------------------
NoSlots == pools = <<>> /\ blocks = <<>>
AtomicInit(P) ==
  /\ atomics = P /\ warpAt = [w \in {l[1] : l \in DOMAIN P} |-> "try"]
  /\ lane = [l \in DOMAIN P |-> [won |-> FALSE, done |-> FALSE, old |-> 0]]
  /\ locks = [h \in 0..(LockCount - 1) |-> FALSE] /\ cell = [a \in Addresses |-> 0]
PreludeInit == NoSlots /\ \E P \in Atomics \cup {<<>>} : AtomicInit(P)
\* One kernel at a time is enough for the atomics, so those that spill run without them.
PreludeNext == AtomicNext \/ (atomics = <<>> /\ SpillNext)

(* The GPU starts the blocks it has room for and runs every thread it      *)
(* holds; an exchange that keeps finding its slot free succeeds in the end.*)
BlockIds == 1..(MaxLaunches * Grid)
AtomicWarps == {l[1] : l \in UNION {DOMAIN P : P \in Atomics}}
PreludeFairness ==
  /\ \A b \in BlockIds : /\ WF_pvars(b \in DOMAIN blocks /\ BlockStep(b) /\ UNCHANGED avars)
                         /\ WF_pvars(b \in DOMAIN blocks /\ ProbeOn(b) /\ UNCHANGED avars)
                         /\ SF_pvars(b \in DOMAIN blocks /\ spill_acquire(b) /\ UNCHANGED avars)
  /\ \A w \in AtomicWarps : WF_pvars(w \in DOMAIN warpAt /\ WarpStep(w) /\ UNCHANGED svars)
PreludeSpec == PreludeInit /\ [][PreludeNext]_pvars /\ PreludeFairness

-----------------------------------------------------------------------------
(* Properties *)

(* __mvcc_spill_acquire and __mvcc_spill_release: while a thread of a      *)
(* block may touch its slot no other block holds it, and the slot is large *)
(* enough.                                                                 *)
Running == {b \in DOMAIN blocks : blocks[b].st = "running"}
SlotsExclusive ==
  \A b \in Running :
    /\ blocks[b].need <= pools[blocks[b].pool].stride
    /\ \A c \in Running \ {b} : blocks[b].pool = blocks[c].pool => blocks[b].slot # blocks[c].slot

(* __MVCC_SMEM_ADDR: the address rebuilt from the low half of a byte's     *)
(* address and the high half of the slot's is that byte's.                 *)
AddressesRebuilt ==
  \A b \in Running :
    LET smem == SlotAt(pools[blocks[b].pool], blocks[b].slot)
    IN  \A n \in 0..(blocks[b].need - 1) : High(smem) + ((smem + n) % Window) = smem + n

(* __mvcc_atomic64: between operations the values in memory, and the old   *)
(* value each finished operation returned, are those of the same           *)
(* operations made one after another in some order.                        *)
Finished64 == {l \in DOMAIN lane : lane[l].done}
OfCell(order, a, i) == atomics[order[i]].cell = a
\* v is the value of a once the first k operations of order are made: what the last of them on a left.
Stands(order, a, k, v) ==
  \/ v = 0 /\ \A i \in 1..k : ~OfCell(order, a, i)
  \/ \E i \in 1..k : /\ OfCell(order, a, i) /\ v = NewValue(atomics[order[i]], lane[order[i]].old)
                     /\ \A j \in (i + 1)..k : ~OfCell(order, a, j)
OneAfterAnother ==
  (\A w \in DOMAIN warpAt : warpAt[w] = "try") =>
    \E order \in SetToSeqs(Finished64) :
      /\ \A i \in DOMAIN order : Stands(order, atomics[order[i]].cell, i - 1, lane[order[i]].old)
      /\ \A a \in DOMAIN cell : Stands(order, a, Cardinality(Finished64), cell[a])

(* Memory that threads of the GPU share through the prelude is theirs      *)
(* alone while they use it, in every interleaving.                         *)
PreludeSound == SlotsExclusive /\ AddressesRebuilt /\ OneAfterAnother

(* The prelude's comments, "so it terminates" and "cannot starve the       *)
(* holder": every block launched gets a slot and ends, and every atomic    *)
(* operation is made.                                                      *)
AllEnded == /\ \A b \in DOMAIN blocks : blocks[b].st = "done"
            /\ \A l \in DOMAIN lane : lane[l].done
KernelsFinish == []<>AllEnded
=============================================================================
