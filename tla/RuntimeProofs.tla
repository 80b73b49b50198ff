---------------------------- MODULE RuntimeProofs ---------------------------
(***************************************************************************)
(* Proofs about the parts of the runtime beside the streams.               *)
(*                                                                         *)
(* The allocator (DeviceMemory.tla and HostMemory.tla), for any alignment, *)
(* chunk size, sizes asked for and addresses Metal gives.  The heap is     *)
(* looked at byte by byte: the free ranges of a chunk and the allocations  *)
(* in it are two ways to tell which of its bytes are free.  Whether two    *)
(* ranges overlap then becomes whether they share a byte.                  *)
(*                                                                         *)
(* Stream capture (Capture.tla), for any streams, events, sessions and     *)
(* bounds: a captured operation is on a higher level than everything CUDA  *)
(* orders before it, and the tables of the capture agree.  LevelsSound     *)
(* says nothing of what is not recorded yet; the inductive invariant adds  *)
(* what the next operation of a stream will depend on, and what an event   *)
(* passes on to the stream that waits for it.                              *)
(*                                                                         *)
(* Collectives (Nccl.tla), for any ranks, threads and programs that are    *)
(* Usable.  That a polling thread takes its own post, and no other, rests  *)
(* on how the posts of a call differ.  PostsKept says nothing of what is   *)
(* still on the list; the invariant adds that no set there is complete and *)
(* that, class by class, the numbers there are the ones not yet taken.     *)
(***************************************************************************)
EXTENDS HostMemory, Capture, Nccl, SequenceTheorems, FiniteSetTheorems, WellFoundedInduction, TLAPS

(* The free map f of a chunk has byte x in one of its ranges. *)
FreeAt(f, x) == \E o \in DOMAIN f : Within(x, o, f[o])

(* Free ranges are not empty, lie in the chunk and do not touch. *)
GoodFree(f) ==
  /\ IsMap(f, Nat \ {0})
  /\ \A o \in DOMAIN f : o + f[o] <= ChunkSize
  /\ \A o, q \in DOMAIN f : o < q => o + f[o] < q
-----------------------------------------------------------------------------
(* Maps, ranges and sizes *)

(* Two ranges that are not empty overlap where they share an address. *)
LEMMA OverlapShares ==
  ASSUME NEW a \in Nat, NEW n \in Nat \ {0}, NEW b \in Nat, NEW k \in Nat \ {0}
  PROVE  Overlap(a, n, b, k) <=> \E x \in Nat : Within(x, a, n) /\ Within(x, b, k)
<1>1. ASSUME Overlap(a, n, b, k)
      PROVE  \E x \in Nat : Within(x, a, n) /\ Within(x, b, k)
  <2>1. CASE a <= b
    BY <1>1, <2>1 DEF Overlap, Within
  <2>2. CASE b <= a
    BY <1>1, <2>2 DEF Overlap, Within
  <2>3. QED
    BY <2>1, <2>2
<1>2. ASSUME NEW x \in Nat, Within(x, a, n), Within(x, b, k)
      PROVE  Overlap(a, n, b, k)
  BY <1>2 DEF Overlap, Within
<1>3. QED
  BY <1>1, <1>2

LEMMA SharedOverlaps ==
  ASSUME NEW base \in Nat, NEW o \in Nat, NEW n \in Nat, NEW q \in Nat, NEW k \in Nat, NEW x \in Nat,
         Within(x, o, n), Within(x, q, k)
  PROVE  Overlap(base + o, n, base + q, k)
BY DEF Overlap, Within

(* A request is rounded up to at least one unit of alignment. *)
LEMMA RoundedFacts ==
  ASSUME NEW size \in Nat
  PROVE  Rounded(size) \in Nat \ {0}
<1> DEFINE x == IF size = 0 THEN 1 ELSE size
           q == (x + Align - 1) \div Align
<1>1. x \in Nat \ {0} /\ Align \in Nat \ {0}
  BY MemoryAssumption
<1> HIDE DEF x
<1>2. q \in Int /\ x + Align - 1 >= Align
  BY <1>1
<1>3. q >= 1
  BY <1>1, <1>2
<1> HIDE DEF q
<1>4. q * Align \in Nat \ {0}
  BY <1>1, <1>2, <1>3
<1>5. QED
  BY <1>4 DEF Rounded, q, x
-----------------------------------------------------------------------------
(* A chunk's free map *)

(* alloc takes bytes that were free, and no others. *)
LEMMA ChunkAllocFree ==
  ASSUME NEW c, IsChunk(c), GoodFree(c.free), NEW n \in Nat \ {0}, NEW o \in Fits(c, n)
  PROVE  /\ IsChunk(ChunkAlloc(c, n, o)) /\ GoodFree(ChunkAlloc(c, n, o).free)
         /\ ChunkAlloc(c, n, o).base = c.base /\ ChunkAlloc(c, n, o).used = c.used + n
         /\ o \in Nat /\ o + n <= ChunkSize
         /\ \A x \in Nat : Within(x, o, n) => FreeAt(c.free, x)
         /\ \A x \in Nat : FreeAt(ChunkAlloc(c, n, o).free, x) <=> FreeAt(c.free, x) /\ ~Within(x, o, n)
<1> DEFINE f == c.free
           len == c.free[o]
           rest == Drop(c.free, o)
           g == IF len > n THEN Put(rest, o + n, len - n) ELSE rest
           d == ChunkAlloc(c, n, o)
<1>1. /\ o \in DOMAIN f /\ o \in Nat /\ len \in Nat \ {0} /\ len >= n /\ o + len <= ChunkSize
      /\ IsMap(f, Nat \ {0}) /\ ChunkSize \in Nat
  BY MemoryAssumption DEF Fits, GoodFree, IsMap
<1>2. /\ IsMap(rest, Nat \ {0}) /\ DOMAIN rest = DOMAIN f \ {o} /\ \A x \in DOMAIN f \ {o} : rest[x] = f[x]
  BY <1>1 DEF IsMap, Drop
<1>3. d = [c EXCEPT !.free = g, !.used = c.used + n]
  BY DEF ChunkAlloc
<1>4. /\ \A p \in DOMAIN f : p \in Nat /\ f[p] \in Nat \ {0} /\ p + f[p] <= ChunkSize
      /\ \A p, q \in DOMAIN f : p < q => p + f[p] < q
  BY DEF GoodFree, IsMap
<1> HIDE DEF rest, f, len
<1>5. GoodFree(g) /\ \A x \in Nat : FreeAt(g, x) <=> FreeAt(f, x) /\ ~Within(x, o, n)
  <2>1. CASE len > n
    <3>1. o + n \in Nat /\ len - n \in Nat \ {0} /\ g = Put(rest, o + n, len - n)
      BY <1>1, <2>1
    <3> HIDE DEF g
    <3>2. /\ IsMap(g, Nat \ {0}) /\ DOMAIN g = (DOMAIN f \ {o}) \cup {o + n} /\ g[o + n] = len - n
          /\ \A x \in (DOMAIN f \ {o}) \ {o + n} : g[x] = f[x]
      BY <1>2, <3>1 DEF IsMap, Put
    <3>3. o + n \notin DOMAIN f
      BY <1>1, <1>4, <2>1 DEF f, len
    <3>4. GoodFree(g)
      BY <1>1, <1>4, <2>1, <3>2, <3>3 DEF GoodFree, f, len
    <3>5. ASSUME NEW x \in Nat
          PROVE  FreeAt(g, x) <=> FreeAt(f, x) /\ ~Within(x, o, n)
      BY <1>1, <1>4, <2>1, <3>2, <3>3 DEF FreeAt, Within, f, len
    <3>6. QED
      BY <3>4, <3>5
  <2>2. CASE ~(len > n)
    <3>1. g = rest /\ len = n
      BY <1>1, <2>2
    <3>2. GoodFree(g)
      BY <1>2, <1>4, <3>1 DEF GoodFree
    <3>3. ASSUME NEW x \in Nat
          PROVE  FreeAt(g, x) <=> FreeAt(f, x) /\ ~Within(x, o, n)
      BY <1>1, <1>2, <1>4, <3>1 DEF FreeAt, Within, f, len
    <3>4. QED
      BY <3>2, <3>3
  <2>3. QED
    BY <2>1, <2>2
<1> HIDE DEF g, d
<1>6. /\ IsChunk(d) /\ d.free = g /\ d.base = c.base /\ d.used = c.used + n
  <2>1. /\ c = [base |-> c.base, free |-> c.free, used |-> c.used] /\ c.base \in Nat /\ c.used \in Int
    BY DEF IsChunk
  <2>2. d = [base |-> c.base, free |-> g, used |-> c.used + n]
    BY <1>3, <2>1
  <2>3. IsMap(g, Nat \ {0})
    BY <1>5 DEF GoodFree
  <2>4. QED
    BY <2>1, <2>2, <2>3 DEF IsChunk
<1>7. o + n <= ChunkSize /\ \A x \in Nat : Within(x, o, n) => FreeAt(f, x)
  BY <1>1 DEF FreeAt, Within, f, len
<1>8. QED
  BY <1>1, <1>5, <1>6, <1>7 DEF d, f
(* release makes its bytes free again, and no others: it merges the range  *)
(* with the ones it touches, and leaves no two that touch.                 *)
LEMMA ReleaseFree ==
  ASSUME NEW c, IsChunk(c), GoodFree(c.free), NEW off \in Nat, NEW n \in Nat \ {0}, off + n <= ChunkSize,
         \A x \in Nat : Within(x, off, n) => ~FreeAt(c.free, x)
  PROVE  /\ IsChunk(Release(c, off, n)) /\ GoodFree(Release(c, off, n).free)
         /\ Release(c, off, n).base = c.base /\ Release(c, off, n).used = c.used - n
         /\ \A x \in Nat : FreeAt(Release(c, off, n).free, x) <=> FreeAt(c.free, x) \/ Within(x, off, n)
<1> DEFINE f == c.free
           prev == Before(f, off)
           next == Behind(f, off + n)
           start == IF prev = {} THEN off ELSE CHOOSE p \in prev : TRUE
           tail == IF next = {} THEN 0 ELSE f[off + n]
           kept == [x \in DOMAIN f \ (prev \cup next) |-> f[x]]
           len == (off - start) + n + tail
           g == Put(kept, start, len)
           d == Release(c, off, n)
<1>1. d = [c EXCEPT !.free = g, !.used = c.used - n]
  BY DEF Release
<1>2. /\ \A p \in DOMAIN f : p \in Nat /\ f[p] \in Nat \ {0} /\ p + f[p] <= ChunkSize
      /\ \A p, q \in DOMAIN f : p < q => p + f[p] < q
      /\ ChunkSize \in Nat
  BY MemoryAssumption DEF GoodFree, IsMap
\* No free range overlaps the bytes given back.
<1>3. \A p \in DOMAIN f : p + f[p] <= off \/ p >= off + n
  <2> SUFFICES ASSUME NEW p \in DOMAIN f PROVE ~Overlap(p, f[p], off, n)
    BY <1>2 DEF Overlap
  <2>1. ~\E x \in Nat : Within(x, p, f[p]) /\ Within(x, off, n)
    BY DEF FreeAt
  <2>2. QED
    BY <1>2, <2>1, OverlapShares
<1> HIDE DEF f
\* What is merged: the range that ends at off, and the one that begins at off + n.
<1>4. prev = {p \in DOMAIN f : p + f[p] = off}
  <2>1. ASSUME NEW p \in DOMAIN f, p + f[p] = off, NEW q \in DOMAIN f, q < off
        PROVE  q <= p
    BY <1>2, <2>1
  <2>2. \A p \in DOMAIN f : p + f[p] = off => p < off
    BY <1>2
  <2>3. QED
    BY <2>1, <2>2 DEF Before
<1>5. next = {p \in DOMAIN f : p = off + n}
  BY DEF Behind
<1> HIDE DEF prev, next
<1>6. \/ start = off /\ prev = {}
      \/ start \in DOMAIN f /\ start + f[start] = off /\ prev = {start}
  <2>1. CASE prev = {}
    BY <2>1
  <2>2. CASE prev # {}
    <3>1. start \in prev
      BY <2>2
    <3> HIDE DEF start
    <3>2. start \in DOMAIN f /\ start + f[start] = off
      BY <1>4, <3>1
    <3>3. ASSUME NEW p \in prev PROVE p = start
      BY <1>2, <1>4, <3>2, <3>3
    <3>4. QED
      BY <3>1, <3>2, <3>3
  <2>3. QED
    BY <2>1, <2>2
<1>7. \/ tail = 0 /\ next = {} /\ off + n \notin DOMAIN f
      \/ off + n \in DOMAIN f /\ tail = f[off + n] /\ next = {off + n}
  BY <1>5
<1> HIDE DEF start, tail
<1>8. /\ start \in Nat /\ tail \in Nat /\ start <= off /\ len \in Nat \ {0} /\ start + len = off + n + tail
      /\ start + len <= ChunkSize
  <2>1. start \in Nat /\ start <= off
    BY <1>2, <1>6
  <2>2. tail \in Nat /\ off + n + tail <= ChunkSize
    BY <1>2, <1>7
  <2>3. QED
    BY <2>1, <2>2
<1> HIDE DEF len
\* The ranges that are kept are clear of the merged one.
<1>9. ASSUME NEW p \in DOMAIN f \ (prev \cup next)
      PROVE  p + f[p] < start \/ start + len < p
  <2>1. p + f[p] # off /\ p # off + n
    BY <1>4, <1>5, <1>9
  <2>2. CASE p + f[p] <= off
    <3>1. CASE start = off
      BY <1>2, <2>1, <2>2, <3>1
    <3>2. CASE start \in DOMAIN f /\ start + f[start] = off
      BY <1>2, <2>1, <2>2, <3>2
    <3>3. QED
      BY <1>6, <3>1, <3>2
  <2>3. CASE p >= off + n
    <3>1. CASE tail = 0
      BY <1>2, <1>8, <2>1, <2>3, <3>1
    <3>2. CASE off + n \in DOMAIN f /\ tail = f[off + n]
      BY <1>2, <1>8, <2>1, <2>3, <3>2
    <3>3. QED
      BY <1>7, <3>1, <3>2
  <2>4. QED
    BY <1>3, <2>2, <2>3
<1>10. /\ DOMAIN g = (DOMAIN f \ (prev \cup next)) \cup {start} /\ g[start] = len
       /\ \A p \in DOMAIN f \ (prev \cup next) : p # start /\ g[p] = f[p]
       /\ g = [x \in DOMAIN g |-> g[x]]
  <2>1. \A p \in DOMAIN f \ (prev \cup next) : p # start
    BY <1>2, <1>8, <1>9
  <2>2. QED
    BY <2>1 DEF Put
<1> HIDE DEF g, kept
<1>11. GoodFree(g)
  <2>1. IsMap(g, Nat \ {0})
    BY <1>2, <1>8, <1>10 DEF IsMap
  <2>2. \A o \in DOMAIN g : o + g[o] <= ChunkSize
    BY <1>2, <1>8, <1>10
  <2>3. ASSUME NEW o \in DOMAIN g, NEW q \in DOMAIN g, o < q
        PROVE  o + g[o] < q
    <3>1. CASE o = start
      BY <1>2, <1>8, <1>9, <1>10, <2>3, <3>1
    <3>2. CASE q = start
      BY <1>2, <1>8, <1>9, <1>10, <2>3, <3>2
    <3>3. CASE o # start /\ q # start
      BY <1>2, <1>10, <2>3, <3>3
    <3>4. QED
      BY <3>1, <3>2, <3>3
  <2>4. QED
    BY <2>1, <2>2, <2>3 DEF GoodFree
<1>12. ASSUME NEW x \in Nat
       PROVE  FreeAt(g, x) <=> FreeAt(f, x) \/ Within(x, off, n)
  <2>1. ASSUME NEW o \in DOMAIN g, Within(x, o, g[o]) PROVE FreeAt(f, x) \/ Within(x, off, n)
    <3>1. CASE o # start
      BY <1>10, <2>1, <3>1 DEF FreeAt
    <3>2. CASE o = start
      <4>1. start <= x /\ x < off + n + tail
        BY <1>8, <1>10, <2>1, <3>2 DEF Within
      <4>2. CASE x < off
        BY <1>6, <1>8, <4>1, <4>2 DEF FreeAt, Within
      <4>3. CASE off + n <= x
        BY <1>7, <1>8, <4>1, <4>3 DEF FreeAt, Within
      <4>4. CASE off <= x /\ x < off + n
        BY <4>4 DEF Within
      <4>5. QED
        BY <1>8, <4>2, <4>3, <4>4
    <3>3. QED
      BY <3>1, <3>2
  <2>2. ASSUME Within(x, off, n) PROVE FreeAt(g, x)
    BY <1>8, <1>10, <2>2 DEF FreeAt, Within
  <2>3. ASSUME NEW o \in DOMAIN f, Within(x, o, f[o]) PROVE FreeAt(g, x)
    <3>1. CASE o \in prev
      <4>1. o + f[o] = off /\ start = o
        BY <1>4, <1>6, <3>1
      <4>2. QED
        BY <1>2, <1>8, <1>10, <2>3, <4>1 DEF FreeAt, Within
    <3>2. CASE o \in next
      <4>1. o = off + n /\ tail = f[o]
        BY <1>5, <1>7, <3>2
      <4>2. QED
        BY <1>2, <1>8, <1>10, <2>3, <4>1 DEF FreeAt, Within
    <3>3. CASE o \notin prev \cup next
      BY <1>10, <2>3, <3>3 DEF FreeAt
    <3>4. QED
      BY <3>1, <3>2, <3>3
  <2>4. QED
    BY <2>1, <2>2, <2>3 DEF FreeAt
<1> HIDE DEF d
<1>13. IsChunk(d) /\ d.free = g /\ d.base = c.base /\ d.used = c.used - n
  <2>1. /\ c = [base |-> c.base, free |-> c.free, used |-> c.used] /\ c.base \in Nat /\ c.used \in Int
    BY DEF IsChunk
  <2>2. d = [base |-> c.base, free |-> g, used |-> c.used - n]
    BY <1>1, <2>1
  <2>3. IsMap(g, Nat \ {0})
    BY <1>11 DEF GoodFree
  <2>4. QED
    BY <2>1, <2>2, <2>3 DEF IsChunk
<1>14. QED
  BY <1>11, <1>12, <1>13 DEF d, f
-----------------------------------------------------------------------------
(* The addresses allocations hold, and how many they are *)

SpanOf(f, A) == UNION {a..(a + f[a].size - 1) : a \in A}

(* One more allocation, clear of the others, holds as many addresses more  *)
(* as its size says.                                                       *)
LEMMA SpanAdd ==
  ASSUME NEW f, NEW g, NEW A, NEW addr \in Nat, NEW n \in Nat \ {0},
         \A a \in A : a \in Nat /\ f[a].size \in Nat \ {0} /\ g[a] = f[a],
         \A a \in A : ~Overlap(addr, n, a, f[a].size),
         g[addr].size = n, IsFiniteSet(SpanOf(f, A))
  PROVE  /\ SpanOf(g, A \cup {addr}) = SpanOf(f, A) \cup addr..(addr + n - 1)
         /\ IsFiniteSet(SpanOf(g, A \cup {addr}))
         /\ Cardinality(SpanOf(g, A \cup {addr})) = Cardinality(SpanOf(f, A)) + n
         /\ Cardinality(SpanOf(f, A)) \in Nat
<1> DEFINE S == SpanOf(f, A)
           T == addr..(addr + n - 1)
<1>1. SpanOf(g, A \cup {addr}) = S \cup T
  <2>1. ASSUME NEW x, x \in SpanOf(g, A \cup {addr}) PROVE x \in S \cup T
    BY <2>1 DEF SpanOf
  <2>2. ASSUME NEW x, x \in S PROVE x \in SpanOf(g, A \cup {addr})
    BY <2>2 DEF SpanOf
  <2>3. ASSUME NEW x \in T PROVE x \in SpanOf(g, A \cup {addr})
    BY <2>3 DEF SpanOf
  <2>4. QED
    BY <2>1, <2>2, <2>3
<1>2. S \cap T = {}
  <2> SUFFICES ASSUME NEW a \in A, NEW x, x \in a..(a + f[a].size - 1), x \in T PROVE FALSE
    BY DEF SpanOf
  <2>1. QED
    BY DEF Overlap
<1>3. IsFiniteSet(T) /\ Cardinality(T) = n
  <2>1. addr \in Int /\ addr + n - 1 \in Int /\ ~(addr > addr + n - 1) /\ (addr + n - 1) - addr + 1 = n
    OBVIOUS
  <2>2. QED
    BY <2>1, FS_Interval
<1> HIDE DEF S, T
<1>4. IsFiniteSet(S) /\ Cardinality(S) \in Nat
  BY FS_CardinalityType DEF S
<1>5. /\ IsFiniteSet(S \cup T) /\ Cardinality(S \cup T) = Cardinality(S) + Cardinality(T) - Cardinality(S \cap T)
  BY <1>3, <1>4, FS_Union
<1>6. Cardinality(S \cap T) = 0
  BY <1>2, FS_EmptySet
<1>7. Cardinality(S \cup T) = Cardinality(S) + n
  BY <1>3, <1>4, <1>5, <1>6
<1>8. QED
  BY <1>1, <1>4, <1>5, <1>7, Zenon DEF S, T
-----------------------------------------------------------------------------
(* The inductive invariant *)

(* The free ranges of every chunk are in order. *)
ChunksGood == \A i \in DOMAIN chunks : GoodFree(chunks[i].free)

(* An allocation of a chunk is where its offset says, inside the chunk. *)
Placed ==
  \A a \in DOMAIN device : LET d == device[a]
    IN  d.chunk # 0 => /\ d.chunk \in DOMAIN chunks /\ a = chunks[d.chunk].base + d.offset
                       /\ d.offset + d.size <= ChunkSize

(* Metal's buffers, chunks and those of large requests, do not overlap. *)
BuffersApart ==
  /\ \A i, j \in DOMAIN chunks : i # j => ~Overlap(chunks[i].base, ChunkSize, chunks[j].base, ChunkSize)
  /\ \A i \in DOMAIN chunks : \A a \in DOMAIN device :
       device[a].chunk = 0 => ~Overlap(a, device[a].size, chunks[i].base, ChunkSize)

(* A byte of a chunk is free when no allocation holds it, and only then. *)
Taken(i, x) == \E a \in InChunk(i) : Within(x, device[a].offset, device[a].size)
BytesSplit ==
  \A i \in DOMAIN chunks : \A x \in 0..(ChunkSize - 1) : FreeAt(chunks[i].free, x) <=> ~Taken(i, x)

Counted == IsFiniteSet(Span(DOMAIN device)) /\ Accounting

HInv == MemTypeOK /\ ChunksGood /\ Placed /\ BuffersApart /\ Disjoint /\ BytesSplit /\ Counted

(* What the type invariant says of an entry. *)
LEMMA TypeFacts ==
  ASSUME MemTypeOK
  PROVE  /\ Len(chunks) \in Nat /\ DOMAIN chunks = 1..Len(chunks)
         /\ \A i \in DOMAIN chunks : IsChunk(chunks[i]) /\ chunks[i].base \in Nat
         /\ DOMAIN device \subseteq Nat /\ IsMap(device, Allocation)
         /\ \A a \in DOMAIN device : /\ device[a] \in Allocation /\ device[a].size \in Nat \ {0}
                                     /\ device[a].offset \in Nat /\ device[a].chunk \in Nat
         /\ ChunkSize \in Nat \ {0} /\ inUse \in Int
<1>1. Len(chunks) \in Nat /\ DOMAIN chunks = 1..Len(chunks)
  BY DEF MemTypeOK
<1>2. \A i \in DOMAIN chunks : IsChunk(chunks[i]) /\ chunks[i].base \in Nat
  BY DEF MemTypeOK, IsChunk
<1>3. DOMAIN device \subseteq Nat /\ IsMap(device, Allocation) /\ \A a \in DOMAIN device : device[a] \in Allocation
  BY DEF MemTypeOK, IsMap
<1>4. \A a \in DOMAIN device : /\ device[a].size \in Nat \ {0}
                               /\ device[a].offset \in Nat /\ device[a].chunk \in Nat
  BY <1>3 DEF Allocation
<1>5. ChunkSize \in Nat \ {0} /\ inUse \in Int
  BY MemoryAssumption DEF MemTypeOK
<1>6. QED
  BY <1>1, <1>2, <1>3, <1>4, <1>5

(* The nearest allocation at or below a pointer is the only one that can   *)
(* hold it, since no two overlap.                                          *)
LEMMA NearestHolds ==
  ASSUME MemTypeOK, Disjoint
  PROVE  ResolveExact
<1> SUFFICES ASSUME NEW x \in Nat PROVE Resolve(x) = Holding(x)
  <2>1. \A a \in DOMAIN device : \A x \in a..(a + device[a].size) : x \in Nat
    BY TypeFacts
  <2>2. QED
    BY <2>1 DEF ResolveExact
<1>1. ASSUME NEW a \in Resolve(x) PROVE a \in Holding(x)
  BY <1>1 DEF Resolve, Nearest, Holding, Within
<1>2. ASSUME NEW a \in Holding(x), NEW b \in DOMAIN device, b <= x PROVE b <= a
  <2>1. a \in DOMAIN device /\ a <= x /\ x < a + device[a].size
    BY <1>2 DEF Holding, Within
  <2>2. /\ a \in Nat /\ b \in Nat /\ device[a].size \in Nat \ {0} /\ device[b].size \in Nat \ {0}
    BY <2>1, TypeFacts
  <2>3. SUFFICES ASSUME a < b PROVE FALSE
    BY <2>2
  <2>4. Overlap(a, device[a].size, b, device[b].size)
    BY <1>2, <2>1, <2>2, <2>3 DEF Overlap
  <2>5. QED
    BY <2>1, <2>2, <2>3, <2>4 DEF Disjoint
<1>3. QED
  BY <1>1, <1>2 DEF Resolve, Nearest, Holding, Within

(* The invariant is strong enough. *)
LEMMA HInvSound == HInv => HeapSound
<1> SUFFICES ASSUME HInv PROVE HeapSound
  OBVIOUS
<1>1. MemTypeOK /\ Disjoint /\ Accounting /\ ResolveExact
  BY NearestHolds DEF HInv, Counted
<1>2. NothingLost
  BY DEF HInv, BytesSplit, Taken, FreeAt, NothingLost
<1>3. FreeIsFree
  <2> SUFFICES ASSUME NEW i \in DOMAIN chunks, NEW o \in DOMAIN chunks[i].free, NEW a \in InChunk(i),
                      Overlap(o, chunks[i].free[o], device[a].offset, device[a].size)
               PROVE  FALSE
    BY DEF FreeIsFree
  <2>1. /\ o \in Nat /\ chunks[i].free[o] \in Nat \ {0} /\ o + chunks[i].free[o] <= ChunkSize
    BY DEF HInv, ChunksGood, GoodFree, IsMap
  <2>2. a \in DOMAIN device /\ device[a].offset \in Nat /\ device[a].size \in Nat \ {0} /\ ChunkSize \in Nat
    BY <1>1, TypeFacts DEF InChunk
  <2>3. PICK x \in Nat : Within(x, o, chunks[i].free[o]) /\ Within(x, device[a].offset, device[a].size)
    BY <2>1, <2>2, OverlapShares
  <2>4. x \in 0..(ChunkSize - 1)
    BY <2>1, <2>2, <2>3 DEF Within
  <2>5. QED
    BY <2>3, <2>4 DEF HInv, BytesSplit, Taken, FreeAt
<1>4. Coalesced
  BY DEF HInv, ChunksGood, GoodFree, Coalesced
<1>5. QED
  BY <1>1, <1>2, <1>3, <1>4 DEF HeapSound

LEMMA HeapInit == MemInit => HInv
<1> SUFFICES ASSUME MemInit PROVE HInv
  OBVIOUS
<1>1. DOMAIN chunks = {} /\ DOMAIN device = {} /\ Len(chunks) = 0
  BY DEF MemInit
<1>2. MemTypeOK
  BY <1>1 DEF MemInit, MemTypeOK, IsMap
<1>3. Span(DOMAIN device) = {}
  BY <1>1 DEF Span
<1>4. Counted
  BY <1>1, <1>3, FS_EmptySet DEF Counted, Accounting, MemInit
<1>5. QED
  BY <1>1, <1>2, <1>4 DEF HInv, ChunksGood, Placed, BuffersApart, Disjoint, BytesSplit
-----------------------------------------------------------------------------
(* The actions *)

(* What an entry added to the registry changes, when it is clear of all    *)
(* the others.                                                             *)
LEMMA Registered ==
  ASSUME HInv, NEW addr \in Nat, NEW al \in Allocation,
         device' = Put(device, addr, al),
         \A b \in DOMAIN device : ~Overlap(addr, al.size, b, device[b].size)
  PROVE  /\ addr \notin DOMAIN device /\ IsMap(device', Allocation)
         /\ DOMAIN device' = DOMAIN device \cup {addr} /\ device'[addr] = al
         /\ \A b \in DOMAIN device : device'[b] = device[b]
         /\ Disjoint'
         /\ IsFiniteSet(Span(DOMAIN device)')
         /\ Cardinality(Span(DOMAIN device)') = Cardinality(Span(DOMAIN device)) + al.size
         /\ \A i \in Nat : /\ i # al.chunk => InChunk(i)' = InChunk(i) /\ Span(InChunk(i))' = Span(InChunk(i))
                           /\ i = al.chunk =>
                                /\ InChunk(i)' = InChunk(i) \cup {addr}
                                /\ Cardinality(Span(InChunk(i))') = Cardinality(Span(InChunk(i))) + al.size
<1>1. MemTypeOK
  BY DEF HInv
<1>2. al.size \in Nat \ {0} /\ al.chunk \in Nat
  BY DEF Allocation
<1>3. \A b \in DOMAIN device : b \in Nat /\ device[b].size \in Nat \ {0}
  BY <1>1, TypeFacts
<1>4. addr \notin DOMAIN device
  BY <1>2, <1>3 DEF Overlap
<1>5. /\ IsMap(device', Allocation) /\ DOMAIN device' = DOMAIN device \cup {addr} /\ device'[addr] = al
      /\ \A b \in DOMAIN device : device'[b] = device[b]
  BY <1>1, <1>4 DEF MemTypeOK, IsMap, Put
<1>6. Disjoint'
  <2> SUFFICES ASSUME NEW a \in DOMAIN device', NEW b \in DOMAIN device', a # b
               PROVE  ~Overlap(a, device'[a].size, b, device'[b].size)
    BY DEF Disjoint
  <2>1. CASE a = addr
    BY <1>5, <2>1
  <2>2. CASE b = addr
    BY <1>2, <1>3, <1>5, <2>2 DEF Overlap
  <2>3. CASE a # addr /\ b # addr
    BY <1>5, <2>3 DEF HInv, Disjoint
  <2>4. QED
    BY <2>1, <2>2, <2>3
<1>7. /\ IsFiniteSet(SpanOf(device', DOMAIN device'))
      /\ Cardinality(SpanOf(device', DOMAIN device')) = Cardinality(SpanOf(device, DOMAIN device)) + al.size
  <2>1. IsFiniteSet(SpanOf(device, DOMAIN device))
    BY DEF HInv, Counted, Span, SpanOf
  <2>2. QED
    BY <1>2, <1>3, <1>5, <2>1, SpanAdd
<1>8. ASSUME NEW i \in Nat, i # al.chunk
      PROVE  InChunk(i)' = InChunk(i) /\ Span(InChunk(i))' = Span(InChunk(i))
  <2>1. InChunk(i)' = InChunk(i)
    BY <1>5, <1>8 DEF InChunk
  <2>2. \A a \in InChunk(i) : device'[a] = device[a]
    BY <1>5 DEF InChunk
  <2>3. QED
    BY <2>1, <2>2 DEF Span
<1>9. ASSUME NEW i \in Nat, i = al.chunk
      PROVE  /\ InChunk(i)' = InChunk(i) \cup {addr}
             /\ Cardinality(Span(InChunk(i))') = Cardinality(Span(InChunk(i))) + al.size
  <2> DEFINE A == InChunk(i)
  <2>1. InChunk(i)' = A \cup {addr}
    BY <1>5, <1>9 DEF InChunk
  <2>2. A \subseteq DOMAIN device
    BY DEF InChunk
  <2>3. Span(A) \subseteq Span(DOMAIN device) /\ IsFiniteSet(Span(DOMAIN device))
    BY <2>2 DEF Span, HInv, Counted
  <2>4. IsFiniteSet(SpanOf(device, A))
    BY <2>3, FS_Subset DEF Span, SpanOf
  <2> HIDE DEF A
  <2>5. Cardinality(SpanOf(device', A \cup {addr})) = Cardinality(SpanOf(device, A)) + al.size
    BY <1>2, <1>3, <1>5, <2>2, <2>4, SpanAdd
  <2>6. QED
    BY <2>1, <2>5 DEF Span, SpanOf, A
<1>10. QED
  BY <1>4, <1>5, <1>6, <1>7, <1>8, <1>9 DEF Span, SpanOf
(* And what an entry taken out changes. *)
LEMMA Unregistered ==
  ASSUME HInv, NEW addr \in DOMAIN device, device' = Drop(device, addr)
  PROVE  /\ IsMap(device', Allocation)
         /\ DOMAIN device' = DOMAIN device \ {addr}
         /\ \A b \in DOMAIN device' : device'[b] = device[b]
         /\ Disjoint'
         /\ IsFiniteSet(Span(DOMAIN device)')
         /\ Cardinality(Span(DOMAIN device)') = Cardinality(Span(DOMAIN device)) - device[addr].size
         /\ \A i \in Nat : /\ i # device[addr].chunk =>
                                InChunk(i)' = InChunk(i) /\ Span(InChunk(i))' = Span(InChunk(i))
                           /\ i = device[addr].chunk =>
                                /\ InChunk(i)' = InChunk(i) \ {addr}
                                /\ Cardinality(Span(InChunk(i))') =
                                     Cardinality(Span(InChunk(i))) - device[addr].size
<1> DEFINE n == device[addr].size
<1>1. MemTypeOK
  BY DEF HInv
<1>2. /\ \A b \in DOMAIN device : b \in Nat /\ device[b].size \in Nat \ {0}
      /\ n \in Nat \ {0} /\ addr \in Nat
  BY <1>1, TypeFacts
<1>3. /\ IsMap(device', Allocation) /\ DOMAIN device' = DOMAIN device \ {addr}
      /\ \A b \in DOMAIN device' : device'[b] = device[b]
  BY <1>1 DEF MemTypeOK, IsMap, Drop
<1>4. Disjoint'
  BY <1>3 DEF HInv, Disjoint
<1>5. \A b \in DOMAIN device' : ~Overlap(addr, n, b, device'[b].size)
  BY <1>3 DEF HInv, Disjoint
\* Put back, the entry adds its size: the other way round it takes it away.
<1>6. ASSUME NEW A \in SUBSET DOMAIN device, addr \in A
      PROVE  /\ IsFiniteSet(SpanOf(device', A \ {addr}))
             /\ Cardinality(SpanOf(device', A \ {addr})) = Cardinality(SpanOf(device, A)) - n
  <2> DEFINE B == A \ {addr}
  <2>1. A = B \cup {addr} /\ B \subseteq DOMAIN device'
    BY <1>3, <1>6
  <2>2. \A a \in B : device[a] = device'[a] /\ a \in Nat /\ device'[a].size \in Nat \ {0}
    BY <1>2, <1>3, <2>1
  <2>3. SpanOf(device', B) \subseteq SpanOf(device, DOMAIN device)
    BY <1>3, <2>1, <2>2 DEF SpanOf
  <2>4. IsFiniteSet(SpanOf(device', B))
    BY <2>3, FS_Subset DEF HInv, Counted, Span, SpanOf
  <2> HIDE DEF B, n
  <2>5. /\ Cardinality(SpanOf(device, B \cup {addr})) = Cardinality(SpanOf(device', B)) + n
        /\ Cardinality(SpanOf(device', B)) \in Nat
    <3>1. device[addr].size = n
      BY DEF n
    <3>2. \A a \in B : ~Overlap(addr, n, a, device'[a].size)
      BY <1>5, <2>1
    <3> DEFINE h == device'
    <3>3. \A a \in B : a \in Nat /\ h[a].size \in Nat \ {0} /\ device[a] = h[a] /\ ~Overlap(addr, n, a, h[a].size)
      BY <2>2, <3>2
    <3>4. IsFiniteSet(SpanOf(h, B))
      BY <2>4
    <3> HIDE DEF h
    <3>5. /\ Cardinality(SpanOf(device, B \cup {addr})) = Cardinality(SpanOf(h, B)) + n
          /\ Cardinality(SpanOf(h, B)) \in Nat
      BY <1>2, <3>1, <3>3, <3>4, SpanAdd
    <3>6. QED
      BY <3>5 DEF h
  <2>6. Cardinality(SpanOf(device', B)) = Cardinality(SpanOf(device, B \cup {addr})) - n
    BY <1>2, <2>5
  <2>7. QED
    BY <2>1, <2>4, <2>6 DEF B
<1>7. /\ IsFiniteSet(SpanOf(device', DOMAIN device'))
      /\ Cardinality(SpanOf(device', DOMAIN device')) = Cardinality(SpanOf(device, DOMAIN device)) - n
  BY <1>3, <1>6
<1>8. ASSUME NEW i \in Nat, i # device[addr].chunk
      PROVE  InChunk(i)' = InChunk(i) /\ Span(InChunk(i))' = Span(InChunk(i))
  <2>1. InChunk(i)' = InChunk(i)
    BY <1>3, <1>8 DEF InChunk
  <2>2. \A a \in InChunk(i) : device'[a] = device[a]
    BY <1>3, <1>8 DEF InChunk
  <2>3. QED
    BY <2>1, <2>2 DEF Span
<1>9. ASSUME NEW i \in Nat, i = device[addr].chunk
      PROVE  /\ InChunk(i)' = InChunk(i) \ {addr}
             /\ Cardinality(Span(InChunk(i))') = Cardinality(Span(InChunk(i))) - n
  <2>1. InChunk(i)' = InChunk(i) \ {addr}
    BY <1>3 DEF InChunk
  <2>2. InChunk(i) \in SUBSET DOMAIN device /\ addr \in InChunk(i)
    BY <1>9 DEF InChunk
  <2>3. Cardinality(SpanOf(device', InChunk(i) \ {addr})) = Cardinality(SpanOf(device, InChunk(i))) - n
    BY <1>6, <2>2
  <2>4. QED
    BY <2>1, <2>3 DEF Span, SpanOf
<1>10. QED
  BY <1>3, <1>4, <1>7, <1>8, <1>9 DEF Span, SpanOf

(* Where Metal finds room for a buffer no allocation is. *)
LEMMA VacantClear ==
  ASSUME HInv, NEW base \in Nat, NEW n \in Nat \ {0}, Vacant(base, n)
  PROVE  \A b \in DOMAIN device : ~Overlap(base, n, b, device[b].size)
<1> SUFFICES ASSUME NEW b \in DOMAIN device, Overlap(base, n, b, device[b].size) PROVE FALSE
  OBVIOUS
<1>1. device[b].chunk # 0
  BY DEF Vacant
<1> DEFINE i == device[b].chunk
<1>2. /\ i \in DOMAIN chunks /\ b = chunks[i].base + device[b].offset
      /\ device[b].offset + device[b].size <= ChunkSize
  BY <1>1 DEF HInv, Placed
<1>3. /\ chunks[i].base \in Nat /\ device[b].offset \in Nat /\ device[b].size \in Nat /\ ChunkSize \in Nat
  BY <1>2, TypeFacts DEF HInv
<1>4. ~Overlap(base, n, chunks[i].base, ChunkSize)
  BY <1>2 DEF Vacant
<1>5. QED
  BY <1>2, <1>3, <1>4 DEF Overlap

LEMMA SeqSelf ==
  ASSUME NEW S, NEW c \in Seq(S)
  PROVE  c \in Seq({c[i] : i \in DOMAIN c})
<1>1. c \in [1..Len(c) -> {c[i] : i \in DOMAIN c}] /\ Len(c) \in Nat
  OBVIOUS
<1>2. QED
  BY <1>1

LEMMA AllocDedicatedInv ==
  ASSUME HInv, NEW size \in Sizes, NEW base \in Bases, AllocDedicated(size, base)
  PROVE  HInv'
<1> DEFINE n == Rounded(size)
           al == [chunk |-> 0, offset |-> 0, size |-> n]
<1>1. n \in Nat \ {0} /\ base \in Nat
  BY RoundedFacts, MemoryAssumption
<1> HIDE DEF n
<1>2. /\ Vacant(base, n) /\ device' = Put(device, base, al) /\ inUse' = inUse + n /\ chunks' = chunks
  BY DEF AllocDedicated, Registers, n
<1>3. al \in Allocation /\ al.size = n /\ al.chunk = 0
  BY <1>1 DEF Allocation
<1> HIDE DEF al
<1>4. \A b \in DOMAIN device : ~Overlap(base, al.size, b, device[b].size)
  BY <1>1, <1>2, <1>3, VacantClear
<1>5. /\ IsMap(device', Allocation) /\ DOMAIN device' = DOMAIN device \cup {base} /\ device'[base] = al
      /\ base \notin DOMAIN device
      /\ \A b \in DOMAIN device : device'[b] = device[b]
      /\ Disjoint'
      /\ IsFiniteSet(Span(DOMAIN device)')
      /\ Cardinality(Span(DOMAIN device)') = Cardinality(Span(DOMAIN device)) + n
      /\ \A i \in Nat \ {0} : InChunk(i)' = InChunk(i) /\ Span(InChunk(i))' = Span(InChunk(i))
  <2>1. base \in Nat /\ device' = Put(device, base, al)
    BY <1>1, <1>2
  <2>2. /\ base \notin DOMAIN device /\ IsMap(device', Allocation)
        /\ DOMAIN device' = DOMAIN device \cup {base} /\ device'[base] = al
        /\ \A b \in DOMAIN device : device'[b] = device[b]
        /\ Disjoint'
        /\ IsFiniteSet(Span(DOMAIN device)')
        /\ Cardinality(Span(DOMAIN device)') = Cardinality(Span(DOMAIN device)) + al.size
        /\ \A j \in Nat : /\ j # al.chunk => InChunk(j)' = InChunk(j) /\ Span(InChunk(j))' = Span(InChunk(j))
                          /\ j = al.chunk =>
                               /\ InChunk(j)' = InChunk(j) \cup {base}
                               /\ Cardinality(Span(InChunk(j))') = Cardinality(Span(InChunk(j))) + al.size
    BY <2>1, <1>3, <1>4, Registered
  <2>3. \A i \in Nat \ {0} : InChunk(i)' = InChunk(i) /\ Span(InChunk(i))' = Span(InChunk(i))
    BY <2>2, <1>3
  <2>4. QED
    BY <2>2, <2>3, <1>3
<1>6. /\ MemTypeOK /\ DOMAIN chunks \subseteq Nat \ {0} /\ inUse \in Int /\ ChunkSize \in Nat
      /\ \A i \in DOMAIN chunks : chunks[i].base \in Nat
  BY TypeFacts DEF HInv
<1>7. MemTypeOK'
  BY <1>1, <1>2, <1>5, <1>6 DEF MemTypeOK
<1>8. ChunksGood' /\ Placed'
  BY <1>2, <1>3, <1>5 DEF HInv, ChunksGood, Placed
<1>9. BuffersApart'
  <2>1. \A i \in DOMAIN chunks : ~Overlap(base, n, chunks[i].base, ChunkSize)
    BY <1>2 DEF Vacant
  <2>2. QED
    BY <1>2, <1>3, <1>5, <2>1 DEF HInv, BuffersApart
<1>10. BytesSplit'
  <2>1. ASSUME NEW i \in DOMAIN chunks, NEW x PROVE Taken(i, x)' <=> Taken(i, x)
    BY <1>5, <1>6 DEF Taken, InChunk
  <2>2. QED
    BY <1>2, <2>1 DEF HInv, BytesSplit
<1>11. Counted'
  <2>1. Accounting /\ IsFiniteSet(Span(DOMAIN device))
    BY DEF HInv, Counted
  <2>2. inUse' = Cardinality(Span(DOMAIN device)')
    BY <1>2, <1>5, <2>1 DEF Accounting
  <2>3. \A i \in DOMAIN chunks : chunks'[i].used = Cardinality(Span(InChunk(i))')
    BY <1>2, <1>5, <1>6, <2>1 DEF Accounting
  <2>4. QED
    BY <1>2, <1>5, <2>2, <2>3 DEF Counted, Accounting
<1>12. QED
  BY <1>5, <1>7, <1>8, <1>9, <1>10, <1>11 DEF HInv
(* Free bytes of a chunk are the address of no allocation. *)
LEMMA FreeClear ==
  ASSUME HInv, NEW i \in DOMAIN chunks, NEW o \in Nat, NEW n \in Nat \ {0}, o + n <= ChunkSize,
         \A x \in Nat : Within(x, o, n) => FreeAt(chunks[i].free, x)
  PROVE  \A b \in DOMAIN device : ~Overlap(chunks[i].base + o, n, b, device[b].size)
<1> SUFFICES ASSUME NEW b \in DOMAIN device, Overlap(chunks[i].base + o, n, b, device[b].size) PROVE FALSE
  OBVIOUS
<1> DEFINE j == device[b].chunk
           q == device[b].offset
           k == device[b].size
<1>1. /\ j \in Nat /\ q \in Nat /\ k \in Nat \ {0} /\ ChunkSize \in Nat /\ b \in Nat /\ chunks[i].base \in Nat
  BY TypeFacts DEF HInv
<1>2. CASE j = 0
  <2>1. ~Overlap(b, k, chunks[i].base, ChunkSize)
    BY <1>2 DEF HInv, BuffersApart
  <2>2. QED
    BY <1>1, <2>1 DEF Overlap
<1>3. CASE j = i /\ j # 0
  <2>1. b = chunks[i].base + q /\ q + k <= ChunkSize /\ b \in InChunk(i)
    BY <1>3 DEF HInv, Placed, InChunk
  <2>2. Overlap(o, n, q, k)
    BY <1>1, <2>1 DEF Overlap
  <2>3. PICK x \in Nat : Within(x, o, n) /\ Within(x, q, k)
    BY <1>1, <2>2, OverlapShares
  <2>4. x \in 0..(ChunkSize - 1)
    BY <1>1, <2>1, <2>3 DEF Within
  <2>5. QED
    BY <2>1, <2>3, <2>4 DEF HInv, BytesSplit, Taken
<1>4. CASE j # i /\ j # 0
  <2>1. j \in DOMAIN chunks /\ b = chunks[j].base + q /\ q + k <= ChunkSize
    BY <1>4 DEF HInv, Placed
  <2>2. ~Overlap(chunks[i].base, ChunkSize, chunks[j].base, ChunkSize) /\ chunks[j].base \in Nat
    BY <1>4, <2>1, TypeFacts DEF HInv, BuffersApart
  <2>3. QED
    BY <1>1, <2>1, <2>2 DEF Overlap
<1>5. QED
  BY <1>2, <1>3, <1>4

LEMMA ChunkReplaced ==
  ASSUME MemTypeOK, NEW i \in DOMAIN chunks, NEW d, IsChunk(d), chunks' = [chunks EXCEPT ![i] = d]
  PROVE  /\ DOMAIN chunks' = DOMAIN chunks /\ chunks'[i] = d
         /\ \A j \in DOMAIN chunks \ {i} : chunks'[j] = chunks[j]
         /\ chunks' \in Seq({chunks'[j] : j \in DOMAIN chunks'})
         /\ \A j \in DOMAIN chunks' : IsChunk(chunks'[j])
<1> DEFINE S == {chunks[j] : j \in DOMAIN chunks}
<1>1. chunks \in Seq(S \cup {d})
  BY DEF MemTypeOK
<1> HIDE DEF S
<1>2. chunks' \in Seq(S \cup {d})
  BY <1>1
<1>3. chunks' \in Seq({chunks'[j] : j \in DOMAIN chunks'})
  <2> DEFINE h == chunks'
  <2>1. h \in Seq(S \cup {d})
    BY <1>2
  <2> HIDE DEF h
  <2>2. h \in Seq({h[j] : j \in DOMAIN h})
    BY <2>1, SeqSelf
  <2>3. QED
    BY <2>2 DEF h
<1>4. /\ DOMAIN chunks' = DOMAIN chunks /\ chunks'[i] = d
      /\ \A j \in DOMAIN chunks \ {i} : chunks'[j] = chunks[j]
  BY <1>1
<1>5. QED
  BY <1>3, <1>4 DEF MemTypeOK

LEMMA AllocFromChunkInv ==
  ASSUME HInv, NEW size \in Sizes, NEW i \in DOMAIN chunks, NEW o \in DOMAIN chunks[i].free,
         AllocFromChunk(size, i, o)
  PROVE  HInv'
<1> DEFINE n == Rounded(size)
           al == [chunk |-> i, offset |-> o, size |-> n]
           c == chunks[i]
           d == ChunkAlloc(c, n, o)
           addr == c.base + o
<1>1. n \in Nat \ {0}
  BY RoundedFacts, MemoryAssumption
<1> HIDE DEF n
<1>2. /\ o \in Fits(c, n) /\ device' = Put(device, addr, al) /\ inUse' = inUse + n
      /\ chunks' = [chunks EXCEPT ![i] = d]
  BY DEF AllocFromChunk, IsFirstFit, Registers, n
<1>3. /\ MemTypeOK /\ DOMAIN chunks \subseteq Nat \ {0} /\ inUse \in Int /\ ChunkSize \in Nat
      /\ IsChunk(c) /\ GoodFree(c.free) /\ c.base \in Nat /\ c.used \in Int
  BY TypeFacts DEF HInv, ChunksGood, IsChunk
<1>4. /\ IsChunk(d) /\ GoodFree(d.free) /\ d.base = c.base /\ d.used = c.used + n
      /\ o \in Nat /\ o + n <= ChunkSize
      /\ \A x \in Nat : Within(x, o, n) => FreeAt(c.free, x)
      /\ \A x \in Nat : FreeAt(d.free, x) <=> FreeAt(c.free, x) /\ ~Within(x, o, n)
  BY <1>1, <1>2, <1>3, ChunkAllocFree
<1> HIDE DEF d
<1>5. addr \in Nat /\ al \in Allocation /\ al.size = n /\ al.chunk = i /\ al.offset = o
  BY <1>1, <1>3, <1>4 DEF Allocation
<1> HIDE DEF al
<1>6. \A b \in DOMAIN device : ~Overlap(addr, al.size, b, device[b].size)
  BY <1>1, <1>4, <1>5, FreeClear
<1> HIDE DEF c
<1>7. /\ IsMap(device', Allocation) /\ DOMAIN device' = DOMAIN device \cup {addr} /\ device'[addr] = al
      /\ addr \notin DOMAIN device
      /\ \A b \in DOMAIN device : device'[b] = device[b]
      /\ Disjoint'
      /\ IsFiniteSet(Span(DOMAIN device)')
      /\ Cardinality(Span(DOMAIN device)') = Cardinality(Span(DOMAIN device)) + n
      /\ \A j \in Nat : /\ j # i => InChunk(j)' = InChunk(j) /\ Span(InChunk(j))' = Span(InChunk(j))
                        /\ j = i => /\ InChunk(j)' = InChunk(j) \cup {addr}
                                    /\ Cardinality(Span(InChunk(j))') = Cardinality(Span(InChunk(j))) + n
  <2> HIDE DEF addr
  <2>1. QED
    BY <1>2, <1>5, <1>6, Registered
<1>8. /\ DOMAIN chunks' = DOMAIN chunks /\ chunks'[i] = d
      /\ \A j \in DOMAIN chunks \ {i} : chunks'[j] = chunks[j]
      /\ chunks' \in Seq({chunks'[j] : j \in DOMAIN chunks'})
      /\ \A j \in DOMAIN chunks' : IsChunk(chunks'[j])
  BY <1>2, <1>3, <1>4, ChunkReplaced
<1>9. \A j \in DOMAIN chunks : chunks'[j].base = chunks[j].base
  BY <1>4, <1>8 DEF c
<1>10. MemTypeOK'
  BY SMTT(20), <1>1, <1>2, <1>3, <1>7, <1>8 DEF MemTypeOK
<1>11. ChunksGood'
  BY <1>4, <1>8 DEF HInv, ChunksGood
<1>12. Placed'
  <2> SUFFICES ASSUME NEW a \in DOMAIN device', device'[a].chunk # 0
               PROVE  /\ device'[a].chunk \in DOMAIN chunks'
                      /\ a = chunks'[device'[a].chunk].base + device'[a].offset
                      /\ device'[a].offset + device'[a].size <= ChunkSize
    BY DEF Placed
  <2>1. CASE a = addr
    BY <1>4, <1>5, <1>7, <1>8, <2>1
  <2>2. CASE a # addr
    BY <1>7, <1>8, <1>9, <2>2 DEF HInv, Placed
  <2>3. QED
    BY <2>1, <2>2
<1>13. BuffersApart'
  <2>1. \A j, k \in DOMAIN chunks' : j # k => ~Overlap(chunks'[j].base, ChunkSize, chunks'[k].base, ChunkSize)
    BY <1>8, <1>9 DEF HInv, BuffersApart
  <2>2. ASSUME NEW j \in DOMAIN chunks', NEW a \in DOMAIN device', device'[a].chunk = 0
        PROVE  ~Overlap(a, device'[a].size, chunks'[j].base, ChunkSize)
    <3>1. a # addr
      BY <1>3, <1>5, <1>7, <2>2
    <3>2. QED
      BY <1>7, <1>8, <1>9, <2>2, <3>1 DEF HInv, BuffersApart
  <2>3. QED
    BY <2>1, <2>2 DEF BuffersApart
<1>14. BytesSplit'
  <2> SUFFICES ASSUME NEW j \in DOMAIN chunks, NEW x \in 0..(ChunkSize - 1)
               PROVE  FreeAt(chunks'[j].free, x) <=> ~Taken(j, x)'
    BY <1>8 DEF BytesSplit
  <2>1. x \in Nat /\ j \in Nat
    BY <1>3
  <2>2. FreeAt(chunks[j].free, x) <=> ~Taken(j, x)
    BY DEF HInv, BytesSplit
  <2>3. CASE j # i
    <3>1. Taken(j, x)' <=> Taken(j, x)
      BY <1>7, <2>1, <2>3 DEF Taken, InChunk
    <3>2. QED
      BY <1>8, <2>2, <2>3, <3>1
  <2>4. CASE j = i
    <3>1. \A a \in InChunk(i) : a \in DOMAIN device /\ device'[a] = device[a]
      BY <1>7 DEF InChunk
    <3>2. Taken(i, x)' <=> Taken(i, x) \/ Within(x, o, n)
      BY <1>5, <1>7, <2>1, <2>4, <3>1 DEF Taken
    <3>3. QED
      BY <1>4, <1>8, <2>1, <2>2, <2>4, <3>2 DEF c
  <2>5. QED
    BY <2>3, <2>4
<1>15. Counted'
  <2>1. Accounting /\ IsFiniteSet(Span(DOMAIN device))
    BY DEF HInv, Counted
  <2>2. inUse' = Cardinality(Span(DOMAIN device)')
    BY <1>2, <1>7, <2>1 DEF Accounting
  <2>3. ASSUME NEW j \in DOMAIN chunks PROVE chunks'[j].used = Cardinality(Span(InChunk(j))')
    <3>1. chunks[j].used = Cardinality(Span(InChunk(j))) /\ j \in Nat
      BY <1>3, <2>1 DEF Accounting
    <3>2. CASE j = i
      BY <1>4, <1>7, <1>8, <3>1, <3>2 DEF c
    <3>3. CASE j # i
      BY <1>7, <1>8, <3>1, <3>3
    <3>4. QED
      BY <3>2, <3>3
  <2>4. QED
    BY <1>7, <1>8, <2>2, <2>3 DEF Counted, Accounting
<1>16. QED
  BY <1>7, <1>10, <1>11, <1>12, <1>13, <1>14, <1>15 DEF HInv
(* A new chunk is all free. *)
LEMMA NewChunkFacts ==
  ASSUME NEW base \in Nat, NEW n \in Nat, n <= ChunkSize
  PROVE  /\ IsChunk(NewChunk(base)) /\ GoodFree(NewChunk(base).free) /\ 0 \in Fits(NewChunk(base), n)
         /\ NewChunk(base).base = base /\ NewChunk(base).used = 0
         /\ \A x \in 0..(ChunkSize - 1) : FreeAt(NewChunk(base).free, x)
<1> DEFINE f == [o \in {0} |-> ChunkSize]
<1>1. ChunkSize \in Nat \ {0}
  BY MemoryAssumption
<1>2. IsMap(f, Nat \ {0}) /\ DOMAIN f = {0} /\ f[0] = ChunkSize
  BY <1>1 DEF IsMap
<1> HIDE DEF f
<1>3. NewChunk(base) = [base |-> base, free |-> f, used |-> 0]
  BY DEF NewChunk, f
<1>4. GoodFree(f) /\ \A x \in 0..(ChunkSize - 1) : FreeAt(f, x)
  BY <1>1, <1>2 DEF GoodFree, FreeAt, Within
<1>5. QED
  BY <1>2, <1>3, <1>4 DEF IsChunk, Fits

LEMMA AllocNewChunkInv ==
  ASSUME HInv, NEW size \in Sizes, NEW base \in Bases, AllocNewChunk(size, base)
  PROVE  HInv'
<1> DEFINE n == Rounded(size)
           i == Len(chunks) + 1
           al == [chunk |-> i, offset |-> 0, size |-> n]
           c == NewChunk(base)
           d == ChunkAlloc(c, n, 0)
<1>1. n \in Nat \ {0} /\ base \in Nat
  BY RoundedFacts, MemoryAssumption
<1> HIDE DEF n
<1>2. /\ n < DedicatedMin /\ Vacant(base, ChunkSize) /\ device' = Put(device, base, al) /\ inUse' = inUse + n
      /\ chunks' = Append(chunks, d)
  BY DEF AllocNewChunk, Registers, n
<1>3. /\ MemTypeOK /\ DOMAIN chunks = 1..Len(chunks) /\ Len(chunks) \in Nat /\ inUse \in Int
      /\ ChunkSize \in Nat \ {0} /\ n <= ChunkSize /\ \A j \in DOMAIN chunks : chunks[j].base \in Nat
      /\ \A b \in DOMAIN device : b \in Nat /\ device[b].size \in Nat \ {0}
  BY <1>1, <1>2, TypeFacts, MemoryAssumption DEF HInv
<1>4. /\ IsChunk(c) /\ GoodFree(c.free) /\ 0 \in Fits(c, n) /\ c.base = base /\ c.used = 0
      /\ \A x \in 0..(ChunkSize - 1) : FreeAt(c.free, x)
  BY <1>1, <1>3, NewChunkFacts
<1> HIDE DEF c
<1>5. /\ IsChunk(d) /\ GoodFree(d.free) /\ d.base = base /\ d.used = n
      /\ \A x \in Nat : FreeAt(d.free, x) <=> FreeAt(c.free, x) /\ ~Within(x, 0, n)
  BY <1>1, <1>4, ChunkAllocFree
<1> HIDE DEF d
<1>6. al \in Allocation /\ al.size = n /\ al.chunk = i /\ al.offset = 0 /\ i \in Nat \ {0}
  BY <1>1, <1>3 DEF Allocation
<1> HIDE DEF al
<1>7. \A b \in DOMAIN device : ~Overlap(base, al.size, b, device[b].size)
  <2>1. \A b \in DOMAIN device : ~Overlap(base, ChunkSize, b, device[b].size)
    BY <1>1, <1>2, <1>3, VacantClear
  <2>2. QED
    BY <1>1, <1>3, <1>6, <2>1 DEF Overlap
<1>8. /\ IsMap(device', Allocation) /\ DOMAIN device' = DOMAIN device \cup {base} /\ device'[base] = al
      /\ base \notin DOMAIN device
      /\ \A b \in DOMAIN device : device'[b] = device[b]
      /\ Disjoint'
      /\ IsFiniteSet(Span(DOMAIN device)')
      /\ Cardinality(Span(DOMAIN device)') = Cardinality(Span(DOMAIN device)) + n
      /\ \A j \in Nat : /\ j # i => InChunk(j)' = InChunk(j) /\ Span(InChunk(j))' = Span(InChunk(j))
                        /\ j = i => /\ InChunk(j)' = InChunk(j) \cup {base}
                                    /\ Cardinality(Span(InChunk(j))') = Cardinality(Span(InChunk(j))) + n
  <2> HIDE DEF i
  <2>1. /\ base \notin DOMAIN device /\ IsMap(device', Allocation)
        /\ DOMAIN device' = DOMAIN device \cup {base} /\ device'[base] = al
        /\ \A b \in DOMAIN device : device'[b] = device[b]
        /\ Disjoint'
        /\ IsFiniteSet(Span(DOMAIN device)')
        /\ Cardinality(Span(DOMAIN device)') = Cardinality(Span(DOMAIN device)) + al.size
        /\ \A j \in Nat : /\ j # al.chunk => InChunk(j)' = InChunk(j) /\ Span(InChunk(j))' = Span(InChunk(j))
                          /\ j = al.chunk =>
                               /\ InChunk(j)' = InChunk(j) \cup {base}
                               /\ Cardinality(Span(InChunk(j))') = Cardinality(Span(InChunk(j))) + al.size
    BY <1>1, <1>2, <1>6, <1>7, Registered
  <2>2. al.size = n /\ al.chunk = i
    BY <1>6
  <2> QED
    BY <2>1, <2>2
<1>9. /\ DOMAIN chunks' = DOMAIN chunks \cup {i} /\ chunks'[i] = d /\ i \notin DOMAIN chunks
      /\ \A j \in DOMAIN chunks : chunks'[j] = chunks[j]
      /\ chunks' \in Seq({chunks'[j] : j \in DOMAIN chunks'})
  <2> DEFINE S == {chunks[j] : j \in DOMAIN chunks}
             h == chunks'
  <2>1. chunks \in Seq(S \cup {d})
    BY <1>3 DEF MemTypeOK
  <2> HIDE DEF S
  <2>2. h \in Seq(S \cup {d}) /\ DOMAIN h = 1..i /\ h[i] = d /\ \A j \in 1..Len(chunks) : h[j] = chunks[j]
    BY <1>2, <1>3, <2>1
  <2>3. 1..i = (1..Len(chunks)) \cup {i} /\ i \notin 1..Len(chunks)
    BY <1>3
  <2> HIDE DEF h
  <2>4. h \in Seq({h[j] : j \in DOMAIN h})
    BY <2>2, SeqSelf
  <2>5. QED
    BY <1>3, <2>2, <2>3, <2>4 DEF h
\* No allocation is in a chunk that was not there.
<1>10. InChunk(i) = {}
  BY <1>6, <1>9 DEF InChunk, HInv, Placed
<1> HIDE DEF i
<1>11. MemTypeOK'
  BY <1>1, <1>2, <1>3, <1>5, <1>8, <1>9 DEF MemTypeOK
<1>12. ChunksGood'
  BY <1>5, <1>9 DEF HInv, ChunksGood
<1>13. Placed'
  <2> SUFFICES ASSUME NEW a \in DOMAIN device', device'[a].chunk # 0
               PROVE  /\ device'[a].chunk \in DOMAIN chunks'
                      /\ a = chunks'[device'[a].chunk].base + device'[a].offset
                      /\ device'[a].offset + device'[a].size <= ChunkSize
    BY DEF Placed
  <2>1. CASE a = base
    BY <1>1, <1>3, <1>5, <1>6, <1>8, <1>9, <2>1
  <2>2. CASE a # base
    BY <1>8, <1>9, <2>2 DEF HInv, Placed
  <2>3. QED
    BY <2>1, <2>2
<1>14. BuffersApart'
  <2>1. /\ \A j \in DOMAIN chunks : ~Overlap(base, ChunkSize, chunks[j].base, ChunkSize)
        /\ \A a \in DOMAIN device : device[a].chunk = 0 => ~Overlap(base, ChunkSize, a, device[a].size)
    BY <1>2 DEF Vacant
  <2>2. ASSUME NEW j \in DOMAIN chunks', NEW k \in DOMAIN chunks', j # k
        PROVE  ~Overlap(chunks'[j].base, ChunkSize, chunks'[k].base, ChunkSize)
    <3>1. CASE j = i
      BY <1>5, <1>9, <2>1, <2>2, <3>1
    <3>2. CASE k = i
      <4>1. j \in DOMAIN chunks /\ chunks'[j] = chunks[j] /\ chunks'[k].base = base
        BY <1>5, <1>9, <2>2, <3>2
      <4>2. QED
        BY <2>1, <4>1 DEF Overlap
    <3>3. CASE j # i /\ k # i
      BY <1>9, <2>2, <3>3 DEF HInv, BuffersApart
    <3>4. QED
      BY <3>1, <3>2, <3>3
  <2>3. ASSUME NEW j \in DOMAIN chunks', NEW a \in DOMAIN device', device'[a].chunk = 0
        PROVE  ~Overlap(a, device'[a].size, chunks'[j].base, ChunkSize)
    <3>1. a \in DOMAIN device /\ device'[a] = device[a]
      BY <1>6, <1>8, <2>3
    <3>2. CASE j = i
      BY <1>5, <1>9, <2>1, <2>3, <3>1, <3>2 DEF Overlap
    <3>3. CASE j # i
      BY <1>9, <2>3, <3>1, <3>3 DEF HInv, BuffersApart
    <3>4. QED
      BY <3>2, <3>3
  <2>4. QED
    BY <2>2, <2>3 DEF BuffersApart
<1>15. BytesSplit'
  <2> SUFFICES ASSUME NEW j \in DOMAIN chunks', NEW x \in 0..(ChunkSize - 1)
               PROVE  FreeAt(chunks'[j].free, x) <=> ~Taken(j, x)'
    BY DEF BytesSplit
  <2>1. x \in Nat /\ j \in Nat
    BY <1>3, <1>6, <1>9
  <2>2. CASE j # i
    <3>1. FreeAt(chunks[j].free, x) <=> ~Taken(j, x)
      BY <1>9, <2>2 DEF HInv, BytesSplit
    <3>2. Taken(j, x)' <=> Taken(j, x)
      BY <1>8, <2>1, <2>2 DEF Taken, InChunk
    <3>3. QED
      BY <1>9, <2>2, <3>1, <3>2
  <2>3. CASE j = i
    <3>1. Taken(j, x)' <=> Within(x, 0, n)
      BY <1>6, <1>8, <1>10, <2>1, <2>3 DEF Taken
    <3>2. QED
      BY <1>4, <1>5, <1>9, <2>1, <2>3, <3>1
  <2>4. QED
    BY <2>2, <2>3
<1>16. Counted'
  <2>1. Accounting /\ IsFiniteSet(Span(DOMAIN device))
    BY DEF HInv, Counted
  <2>2. inUse' = Cardinality(Span(DOMAIN device)')
    BY <1>2, <1>8, <2>1 DEF Accounting
  <2>3. ASSUME NEW j \in DOMAIN chunks' PROVE chunks'[j].used = Cardinality(Span(InChunk(j))')
    <3>1. CASE j = i
      <4>1. Span(InChunk(i)) = {}
        BY <1>10 DEF Span
      <4>2. Cardinality(Span(InChunk(j))') = 0 + n
        BY <1>6, <1>8, <3>1, <4>1, FS_EmptySet
      <4>3. QED
        BY <1>1, <1>5, <1>9, <3>1, <4>2
    <3>2. CASE j # i
      <4>1. j \in DOMAIN chunks /\ j \in Nat
        BY <1>3, <1>9, <3>2
      <4>2. QED
        BY <1>8, <1>9, <2>1, <3>2, <4>1 DEF Accounting
    <3>3. QED
      BY <3>1, <3>2
  <2>4. QED
    BY <1>8, <2>2, <2>3 DEF Counted, Accounting
<1>17. QED
  BY <1>8, <1>11, <1>12, <1>13, <1>14, <1>15, <1>16 DEF HInv

LEMMA FreeDeviceInv ==
  ASSUME HInv, NEW addr \in DOMAIN device, FreeDevice(addr)
  PROVE  HInv'
<1> DEFINE i == device[addr].chunk
           off == device[addr].offset
           n == device[addr].size
           c == chunks[i]
           d == Release(c, off, n)
<1>1. /\ device' = Drop(device, addr) /\ inUse' = inUse - n
      /\ chunks' = IF i = 0 THEN chunks ELSE [chunks EXCEPT ![i] = d]
  BY DEF FreeDevice
<1>2. /\ MemTypeOK /\ DOMAIN chunks = 1..Len(chunks) /\ Len(chunks) \in Nat /\ inUse \in Int
      /\ ChunkSize \in Nat \ {0} /\ \A j \in DOMAIN chunks : chunks[j].base \in Nat /\ IsChunk(chunks[j])
      /\ \A b \in DOMAIN device : /\ b \in Nat /\ device[b].size \in Nat \ {0} /\ device[b].offset \in Nat
      /\ i \in Nat /\ off \in Nat /\ n \in Nat \ {0}
  BY TypeFacts DEF HInv
<1>3. /\ IsMap(device', Allocation)
      /\ DOMAIN device' = DOMAIN device \ {addr}
      /\ \A b \in DOMAIN device' : device'[b] = device[b]
      /\ Disjoint'
      /\ IsFiniteSet(Span(DOMAIN device)')
      /\ Cardinality(Span(DOMAIN device)') = Cardinality(Span(DOMAIN device)) - n
      /\ \A j \in Nat : /\ j # i => InChunk(j)' = InChunk(j) /\ Span(InChunk(j))' = Span(InChunk(j))
                        /\ j = i => /\ InChunk(j)' = InChunk(j) \ {addr}
                                    /\ Cardinality(Span(InChunk(j))') = Cardinality(Span(InChunk(j))) - n
  BY <1>1, Unregistered
<1>4. Accounting /\ IsFiniteSet(Span(DOMAIN device))
  BY DEF HInv, Counted
<1>5. inUse' = Cardinality(Span(DOMAIN device)')
  BY <1>1, <1>3, <1>4 DEF Accounting
<1>6. CASE i = 0
  <2>1. chunks' = chunks
    BY <1>1, <1>6
  <2>2. MemTypeOK'
    <3>1. inUse' \in Int
      BY <1>1, <1>2
    <3>2. QED
      BY <1>2, <1>3, <2>1, <3>1 DEF MemTypeOK
  <2>3. ChunksGood' /\ Placed' /\ BuffersApart'
    BY <1>3, <2>1 DEF HInv, ChunksGood, Placed, BuffersApart
  <2>4. BytesSplit'
    <3>1. ASSUME NEW j \in DOMAIN chunks, NEW x PROVE Taken(j, x)' <=> Taken(j, x)
      <4>1. InChunk(j)' = InChunk(j)
        BY <1>2, <1>3, <1>6
      <4>2. \A a \in InChunk(j) : device'[a] = device[a]
        BY <1>3, <4>1 DEF InChunk
      <4>3. QED
        BY <4>1, <4>2 DEF Taken
    <3>2. QED
      BY <2>1, <3>1 DEF HInv, BytesSplit
  <2>5. \A j \in DOMAIN chunks : chunks'[j].used = Cardinality(Span(InChunk(j))')
    BY <1>2, <1>3, <1>4, <1>6, <2>1 DEF Accounting
  <2>6. Counted'
    BY <1>3, <1>5, <2>1, <2>5 DEF Counted, Accounting
  <2>7. QED
    BY <1>3, <2>2, <2>3, <2>4, <2>6 DEF HInv
<1>7. CASE i # 0
  <2>1. /\ chunks' = [chunks EXCEPT ![i] = d] /\ i \in DOMAIN chunks /\ addr = c.base + off /\ off + n <= ChunkSize
        /\ IsChunk(c) /\ GoodFree(c.free) /\ addr \in InChunk(i) /\ c.used \in Int /\ c.base \in Nat
    BY <1>1, <1>2, <1>7 DEF HInv, Placed, ChunksGood, InChunk, IsChunk
  <2>2. \A x \in Nat : Within(x, off, n) => x \in 0..(ChunkSize - 1) /\ ~FreeAt(c.free, x)
    <3> SUFFICES ASSUME NEW x \in Nat, Within(x, off, n) PROVE x \in 0..(ChunkSize - 1) /\ ~FreeAt(c.free, x)
      OBVIOUS
    <3>1. x \in 0..(ChunkSize - 1)
      BY <1>2, <2>1 DEF Within
    <3>2. Taken(i, x)
      BY <2>1 DEF Taken
    <3>3. QED
      BY <2>1, <3>1, <3>2 DEF HInv, BytesSplit
  <2>3. /\ IsChunk(d) /\ GoodFree(d.free) /\ d.base = c.base /\ d.used = c.used - n
        /\ \A x \in Nat : FreeAt(d.free, x) <=> FreeAt(c.free, x) \/ Within(x, off, n)
    BY ZenonT(40), <1>2, <2>1, <2>2, ReleaseFree
  <2> HIDE DEF d
  <2>4. /\ DOMAIN chunks' = DOMAIN chunks /\ chunks'[i] = d
        /\ \A j \in DOMAIN chunks \ {i} : chunks'[j] = chunks[j]
        /\ chunks' \in Seq({chunks'[j] : j \in DOMAIN chunks'})
        /\ \A j \in DOMAIN chunks' : IsChunk(chunks'[j])
    BY <1>2, <2>1, <2>3, ChunkReplaced
  <2>5. \A j \in DOMAIN chunks : chunks'[j].base = chunks[j].base
    BY <2>3, <2>4
  <2>6. MemTypeOK'
    <3>1. inUse' \in Int
      BY <1>1, <1>2
    <3>2. QED
      BY <1>3, <2>4, <3>1 DEF MemTypeOK
  <2>7. ChunksGood'
    BY <2>3, <2>4 DEF HInv, ChunksGood
  <2>8. Placed' /\ BuffersApart'
    BY <1>3, <2>4, <2>5 DEF HInv, Placed, BuffersApart
  <2>9. BytesSplit'
    <3> SUFFICES ASSUME NEW j \in DOMAIN chunks, NEW x \in 0..(ChunkSize - 1)
                 PROVE  FreeAt(chunks'[j].free, x) <=> ~Taken(j, x)'
      BY <2>4 DEF BytesSplit
    <3>1. x \in Nat /\ j \in Nat
      BY <1>2
    <3>2. FreeAt(chunks[j].free, x) <=> ~Taken(j, x)
      BY DEF HInv, BytesSplit
    <3>3. CASE j # i
      <4>1. InChunk(j)' = InChunk(j)
        BY <1>3, <3>1, <3>3
      <4>2. \A a \in InChunk(j) : device'[a] = device[a]
        BY <1>3, <4>1 DEF InChunk
      <4>3. Taken(j, x)' <=> Taken(j, x)
        BY <4>1, <4>2 DEF Taken
      <4>4. QED
        BY <2>4, <3>2, <3>3, <4>3
    <3>4. CASE j = i
      <4>1. \A a \in InChunk(i) \ {addr} : device'[a] = device[a] /\ a \in DOMAIN device
        BY <1>3 DEF InChunk
      \* No other allocation of the chunk holds a byte of this one.
      <4>2. ASSUME NEW a \in InChunk(i) \ {addr}, Within(x, device[a].offset, device[a].size), Within(x, off, n)
            PROVE  FALSE
        <5>1. a \in DOMAIN device /\ a = c.base + device[a].offset
          BY <1>7, <4>2 DEF InChunk, HInv, Placed
        <5>2. ~Overlap(addr, n, a, device[a].size)
          BY <4>2, <5>1 DEF HInv, Disjoint
        <5>3. device[a].offset \in Nat /\ device[a].size \in Nat
          BY <1>2, <5>1
        <5> HIDE DEF off, n, c
        <5>4. Overlap(c.base + off, n, c.base + device[a].offset, device[a].size)
          BY <1>2, <2>1, <3>1, <4>2, <5>3, SharedOverlaps
        <5>5. QED
          BY <2>1, <5>1, <5>2, <5>4
      <4>3. Taken(j, x)' <=> \E a \in InChunk(i) \ {addr} : Within(x, device[a].offset, device[a].size)
        BY <1>2, <1>3, <3>4, <4>1 DEF Taken
      <4>4. Taken(i, x) <=> Within(x, off, n) \/ \E a \in InChunk(i) \ {addr} : Within(x, device[a].offset, device[a].size)
        BY <2>1 DEF Taken
      <4>5. Taken(j, x)' <=> Taken(i, x) /\ ~Within(x, off, n)
        BY <4>2, <4>3, <4>4
      <4>6. QED
        BY <2>3, <2>4, <3>1, <3>2, <3>4, <4>5
    <3>5. QED
      BY <3>3, <3>4
  <2>10. ASSUME NEW j \in DOMAIN chunks PROVE chunks'[j].used = Cardinality(Span(InChunk(j))')
    <3>1. chunks[j].used = Cardinality(Span(InChunk(j))) /\ j \in Nat
      BY <1>2, <1>4 DEF Accounting
    <3>2. CASE j = i
      BY <1>3, <2>3, <2>4, <3>1, <3>2
    <3>3. CASE j # i
      BY <1>3, <2>4, <3>1, <3>3
    <3>4. QED
      BY <3>2, <3>3
  <2>11. Counted'
    BY <1>3, <1>5, <2>4, <2>10 DEF Counted, Accounting
  <2>12. QED
    BY <1>3, <2>6, <2>7, <2>8, <2>9, <2>11 DEF HInv
<1>8. QED
  BY <1>6, <1>7

LEMMA HeapNext == HInv /\ [MemNext]_mvars => HInv'
<1> SUFFICES ASSUME HInv, [MemNext]_mvars PROVE HInv'
  OBVIOUS
<1>1. CASE UNCHANGED mvars
  BY SMTT(20), <1>1 DEF mvars, HInv, MemTypeOK, ChunksGood, Placed, BuffersApart, Disjoint, BytesSplit, Taken, InChunk,
              Counted, Accounting, Span
<1>2. CASE MemNext
  BY <1>2, AllocDedicatedInv, AllocFromChunkInv, AllocNewChunkInv, FreeDeviceInv DEF MemNext
<1>3. QED
  BY <1>1, <1>2

(* alloc, release, free_device and resolve_device, after any sequence of   *)
(* calls: no byte of a chunk is lost or handed out twice, free ranges are  *)
(* merged, the counters are right, and every pointer resolves to the       *)
(* allocation it lies in.                                                  *)
THEOREM HeapIsSound == MemSpec => []HeapSound
<1>1. QED
  BY HeapInit, HeapNext, HInvSound, PTL DEF MemSpec
-----------------------------------------------------------------------------
(* Pinned host memory *)

(* Every entry of the registry is a pinned allocation or a wrapped         *)
(* registration, and until an end went astray all of them are entries; no  *)
(* two claims of the program overlap.                                      *)
HeldAs(p, n) ==
  \/ p \in DOMAIN pinned /\ pinned[p] = n
  \/ p \in DOMAIN claims /\ claims[p] = n /\ Wraps(p, n)
RangesApart(f) == \A p, q \in DOMAIN f : p # q => p + f[p] <= q \/ q + f[q] <= p
Registry ==
  /\ \A p \in DOMAIN host : HeldAs(p, host[p])
  /\ RangesApart(pinned) /\ RangesApart(claims)
  /\ \A p \in DOMAIN pinned, q \in DOMAIN claims : p + pinned[p] <= q \/ q + claims[q] <= p

HostInv == HostTypeOK /\ Registry /\ (~strayed => RegistryKept)

LEMMA HostFacts ==
  ASSUME HostTypeOK
  PROVE  /\ IsMap(host, Lengths) /\ IsMap(pinned, Lengths) /\ IsMap(claims, Lengths)
         /\ DOMAIN host \subseteq Pages /\ DOMAIN pinned \subseteq Pages /\ DOMAIN claims \subseteq Pages
         /\ \A p \in DOMAIN host : p \in Nat /\ host[p] \in Nat \ {0}
         /\ \A p \in DOMAIN pinned : p \in Nat /\ pinned[p] \in Nat \ {0}
         /\ \A p \in DOMAIN claims : p \in Nat /\ claims[p] \in Nat \ {0}
<1>1. \A f \in {host, pinned, claims} : IsMap(f, Lengths) /\ DOMAIN f \subseteq Pages
  BY DEF HostTypeOK
<1>2. \A f \in {host, pinned, claims} : \A p \in DOMAIN f : p \in Nat /\ f[p] \in Nat \ {0}
  BY <1>1, HostAssumption DEF IsMap
<1>3. QED
  BY <1>1, <1>2

(* No two entries overlap, and none overlaps memory that is not its own.   *)
LEMMA EntriesApart ==
  ASSUME HostInv, NEW k \in DOMAIN host, NEW q, NEW n, HeldAs(q, n), k # q
  PROVE  k + host[k] <= q \/ q + n <= k
<1>1. HeldAs(k, host[k]) /\ Registry
  BY DEF HostInv, Registry
<1>2. CASE k \in DOMAIN pinned /\ pinned[k] = host[k] /\ q \in DOMAIN pinned /\ pinned[q] = n
  BY <1>1, <1>2 DEF Registry, RangesApart
<1>3. CASE k \in DOMAIN pinned /\ pinned[k] = host[k] /\ q \in DOMAIN claims /\ claims[q] = n
  BY <1>1, <1>3 DEF Registry
<1>4. CASE k \in DOMAIN claims /\ claims[k] = host[k] /\ q \in DOMAIN pinned /\ pinned[q] = n
  BY <1>1, <1>4 DEF Registry
<1>5. CASE k \in DOMAIN claims /\ claims[k] = host[k] /\ q \in DOMAIN claims /\ claims[q] = n
  BY <1>1, <1>5 DEF Registry, RangesApart
<1>6. QED
  BY <1>1, <1>2, <1>3, <1>4, <1>5 DEF HeldAs

(* resolve_host looks at the nearest entry only, which is the one that     *)
(* holds the pointer if any does.                                          *)
LEMMA HostInvSound ==
  ASSUME HostInv
  PROVE  HostSound
<1>1. HostTypeOK
  BY DEF HostInv
<1>2. ASSUME NEW p \in Pages PROVE ResolveHost(p) \subseteq PinnedAt(p)
  BY DEF ResolveHost, AtOrBelow, PinnedAt, HostInv, Registry, HeldAs
<1>3. ASSUME RegistryKept, NEW p \in Pages, NEW q \in PinnedAt(p) PROVE q \in ResolveHost(p)
  <2>1. p \in Nat
    BY HostAssumption
  <2>2. q \in DOMAIN host /\ q <= p
    BY <1>3 DEF PinnedAt, RegistryKept
  <2>3. HeldAs(q, host[q])
    BY <2>2 DEF HostInv, Registry
  <2>4. PICK n : HeldAs(q, n) /\ p < q + n
    BY <1>3 DEF PinnedAt, HeldAs
  <2>5. p < q + host[q]
    <3>1. CASE q \in DOMAIN pinned /\ q \in DOMAIN claims
      <4>1. q + pinned[q] <= q \/ q + claims[q] <= q
        BY <3>1 DEF HostInv, Registry
      <4>2. q \in Nat /\ pinned[q] \in Nat \ {0} /\ claims[q] \in Nat \ {0}
        BY <1>1, <3>1, HostFacts
      <4>3. QED
        BY <4>1, <4>2
    <3>2. CASE ~(q \in DOMAIN pinned /\ q \in DOMAIN claims)
      BY <2>3, <2>4, <3>2 DEF HeldAs
    <3>3. QED
      BY <3>1, <3>2
  <2>6. ASSUME NEW r \in DOMAIN host, r <= p PROVE r <= q
    <3>1. q \in Nat /\ r \in Nat /\ host[q] \in Nat \ {0} /\ host[r] \in Nat \ {0}
      BY <1>1, <2>2, HostFacts
    <3>2. q = r \/ r + host[r] <= q \/ q + host[q] <= r
      BY <2>3, EntriesApart
    <3>3. QED
      BY <2>1, <2>5, <2>6, <3>1, <3>2
  <2>7. QED
    BY <2>2, <2>5, <2>6 DEF ResolveHost, AtOrBelow
<1>4. ~strayed => RegistryKept /\ ResolvesPinned
  <2>1. ASSUME RegistryKept PROVE ResolvesPinned
    BY <1>2, <1>3, <2>1 DEF ResolvesPinned
  <2>2. QED
    BY <2>1 DEF HostInv
<1>5. QED
  BY <1>1, <1>2, <1>4 DEF HostSound

LEMMA HostInitInv == HostInit => HostInv
BY DEF HostInit, HostInv, HostTypeOK, Registry, RangesApart, RegistryKept, Empty, IsMap

(* An entry is put in, or some are taken out. *)
LEMMA PutFacts ==
  ASSUME NEW f, IsMap(f, Lengths), DOMAIN f \subseteq Pages, NEW p \in Pages, NEW n \in Lengths
  PROVE  /\ IsMap(Put(f, p, n), Lengths) /\ DOMAIN Put(f, p, n) = DOMAIN f \cup {p}
         /\ DOMAIN Put(f, p, n) \subseteq Pages
         /\ Put(f, p, n)[p] = n /\ \A q \in DOMAIN f \ {p} : Put(f, p, n)[q] = f[q]
<1>1. p \in Nat
  BY HostAssumption
<1>2. /\ IsMap(Put(f, p, n), Lengths) /\ DOMAIN Put(f, p, n) = DOMAIN f \cup {p}
      /\ Put(f, p, n)[p] = n /\ \A q \in DOMAIN f \ {p} : Put(f, p, n)[q] = f[q]
  <2>1. DOMAIN Put(f, p, n) = DOMAIN f \cup {p}
    BY DEF Put
  <2>2. Put(f, p, n)[p] = n /\ \A q \in DOMAIN f \ {p} : Put(f, p, n)[q] = f[q]
    BY DEF Put
  <2>3. Put(f, p, n) = [q \in DOMAIN Put(f, p, n) |-> Put(f, p, n)[q]]
    BY DEF Put
  <2>4. QED
    BY <1>1, <2>1, <2>2, <2>3 DEF IsMap
<1>3. QED
  BY <1>2

LEMMA DropFacts ==
  ASSUME NEW f, IsMap(f, Lengths), DOMAIN f \subseteq Pages, NEW S
  PROVE  /\ IsMap([k \in DOMAIN f \ S |-> f[k]], Lengths)
         /\ DOMAIN [k \in DOMAIN f \ S |-> f[k]] = DOMAIN f \ S
         /\ \A q \in DOMAIN f \ S : [k \in DOMAIN f \ S |-> f[k]][q] = f[q]
BY DEF IsMap

(* Unused pages are nobody's first page. *)
LEMMA UnusedNew ==
  ASSUME HostInv, NEW p \in Pages, NEW n \in Lengths, Unused(p, n)
  PROVE  p \notin DOMAIN pinned /\ p \notin DOMAIN claims /\ p \notin DOMAIN host
<1>1. p \in Nat /\ n \in Nat \ {0}
  BY HostAssumption
<1>2. /\ \A q \in DOMAIN pinned : q \in Nat /\ pinned[q] \in Nat \ {0}
      /\ \A q \in DOMAIN claims : q \in Nat /\ claims[q] \in Nat \ {0}
  BY HostFacts DEF HostInv
<1>3. p \notin DOMAIN pinned /\ p \notin DOMAIN claims
  BY <1>1, <1>2 DEF Unused, Apart
<1>4. QED
  BY <1>3 DEF HostInv, Registry, HeldAs

LEMMA HostAllocInv ==
  ASSUME HostInv, NEW p \in Pages, NEW n \in Lengths, HostAlloc(p, n)
  PROVE  HostInv'
<1>1. /\ Unused(p, n) /\ host' = Put(host, p, n) /\ pinned' = Put(pinned, p, n)
      /\ claims' = claims /\ strayed' = strayed
  BY DEF HostAlloc
<1>2. /\ IsMap(host, Lengths) /\ IsMap(pinned, Lengths) /\ IsMap(claims, Lengths)
      /\ DOMAIN host \subseteq Pages /\ DOMAIN pinned \subseteq Pages /\ DOMAIN claims \subseteq Pages
  BY HostFacts DEF HostInv
<1>3. p \notin DOMAIN pinned /\ p \notin DOMAIN claims /\ p \notin DOMAIN host
  BY <1>1, UnusedNew
<1>4. /\ IsMap(host', Lengths) /\ DOMAIN host' = DOMAIN host \cup {p} /\ DOMAIN host' \subseteq Pages
      /\ host'[p] = n /\ \A q \in DOMAIN host : host'[q] = host[q]
  <2>1. /\ IsMap(Put(host, p, n), Lengths) /\ DOMAIN Put(host, p, n) = DOMAIN host \cup {p}
        /\ DOMAIN Put(host, p, n) \subseteq Pages
        /\ Put(host, p, n)[p] = n /\ \A q \in DOMAIN host \ {p} : Put(host, p, n)[q] = host[q]
    BY <1>2, PutFacts
  <2>2. QED
    BY <1>1, <1>3, <2>1
<1>5. /\ IsMap(pinned', Lengths) /\ DOMAIN pinned' = DOMAIN pinned \cup {p} /\ DOMAIN pinned' \subseteq Pages
      /\ pinned'[p] = n /\ \A q \in DOMAIN pinned : pinned'[q] = pinned[q]
  <2>1. /\ IsMap(Put(pinned, p, n), Lengths) /\ DOMAIN Put(pinned, p, n) = DOMAIN pinned \cup {p}
        /\ DOMAIN Put(pinned, p, n) \subseteq Pages
        /\ Put(pinned, p, n)[p] = n /\ \A q \in DOMAIN pinned \ {p} : Put(pinned, p, n)[q] = pinned[q]
    BY <1>2, PutFacts
  <2>2. QED
    BY <1>1, <1>3, <2>1
<1>6. HostTypeOK'
  BY <1>1, <1>2, <1>4, <1>5 DEF HostInv, HostTypeOK
<1>7. \A q \in DOMAIN host' : HeldAs(q, host[q])'
  BY <1>1, <1>3, <1>4, <1>5 DEF HostInv, Registry, HeldAs
<1>8. RangesApart(pinned)' /\ RangesApart(claims)'
      /\ \A q \in DOMAIN pinned', r \in DOMAIN claims' : q + pinned'[q] <= r \/ r + claims'[r] <= q
  BY <1>1, <1>5 DEF HostInv, Registry, RangesApart, Unused, Apart
<1>9. ~strayed' => RegistryKept'
  BY <1>1, <1>4, <1>5 DEF HostInv, RegistryKept
<1>10. QED
  BY <1>6, <1>7, <1>8, <1>9 DEF HostInv, Registry, RangesApart, HeldAs

LEMMA HostRegisterInv ==
  ASSUME HostInv, NEW p \in Pages, NEW n \in Lengths, HostRegister(p, n)
  PROVE  HostInv'
<1>1. /\ Unused(p, n) /\ claims' = Put(claims, p, n) /\ pinned' = pinned /\ strayed' = strayed
      /\ Wraps(p, n) => host' = Put(host, p, n)
      /\ ~Wraps(p, n) => host' = host
  BY DEF HostRegister
<1>2. /\ IsMap(host, Lengths) /\ IsMap(pinned, Lengths) /\ IsMap(claims, Lengths)
      /\ DOMAIN host \subseteq Pages /\ DOMAIN pinned \subseteq Pages /\ DOMAIN claims \subseteq Pages
  BY HostFacts DEF HostInv
<1>3. p \notin DOMAIN pinned /\ p \notin DOMAIN claims /\ p \notin DOMAIN host
  BY <1>1, UnusedNew
<1>4. /\ IsMap(host', Lengths) /\ DOMAIN host' \subseteq Pages
      /\ DOMAIN host \subseteq DOMAIN host' /\ \A q \in DOMAIN host : host'[q] = host[q]
      /\ \A q \in DOMAIN host' \ DOMAIN host : q = p /\ host'[q] = n /\ Wraps(p, n)
      /\ Wraps(p, n) => p \in DOMAIN host'
  <2>1. CASE Wraps(p, n)
    <3>1. host' = Put(host, p, n)
      BY <1>1, <2>1
    <3>2. /\ IsMap(host', Lengths) /\ DOMAIN host' = DOMAIN host \cup {p} /\ DOMAIN host' \subseteq Pages
          /\ host'[p] = n /\ \A q \in DOMAIN host \ {p} : host'[q] = host[q]
      BY <1>2, <3>1, PutFacts
    <3>3. QED
      BY <1>3, <2>1, <3>2
  <2>2. CASE ~Wraps(p, n)
    BY <1>1, <1>2, <2>2
  <2>3. QED
    BY <2>1, <2>2
<1>5. /\ IsMap(claims', Lengths) /\ DOMAIN claims' = DOMAIN claims \cup {p} /\ DOMAIN claims' \subseteq Pages
      /\ claims'[p] = n /\ \A q \in DOMAIN claims : claims'[q] = claims[q]
  BY <1>1, <1>2, <1>3, PutFacts
<1>6. HostTypeOK'
  BY <1>1, <1>2, <1>4, <1>5 DEF HostInv, HostTypeOK
<1>7. ASSUME NEW q \in DOMAIN host' PROVE HeldAs(q, host[q])'
  <2>1. CASE q \in DOMAIN host
    <3>1. HeldAs(q, host[q]) /\ host'[q] = host[q]
      BY <1>4, <2>1 DEF HostInv, Registry
    <3>2. QED
      BY <1>1, <1>5, <3>1 DEF HeldAs, Wraps
  <2>2. CASE q \notin DOMAIN host
    <3>1. q = p /\ host'[q] = n /\ Wraps(p, n)
      BY <1>4, <2>2
    <3>2. QED
      BY <1>5, <3>1 DEF HeldAs, Wraps
  <2>3. QED
    BY <2>1, <2>2
<1>8. RangesApart(pinned)' /\ RangesApart(claims)'
      /\ \A q \in DOMAIN pinned', r \in DOMAIN claims' : q + pinned'[q] <= r \/ r + claims'[r] <= q
  BY <1>1, <1>5 DEF HostInv, Registry, RangesApart, Unused, Apart
<1>9. ~strayed' => RegistryKept'
  <2>1. ASSUME RegistryKept PROVE RegistryKept'
    <3>1. \A q \in DOMAIN pinned' : q \in DOMAIN host'
      BY <1>1, <1>4, <2>1 DEF RegistryKept
    <3>2. ASSUME NEW q \in DOMAIN claims', Wraps(q, claims'[q]) PROVE q \in DOMAIN host'
      <4>1. CASE q = p
        BY <1>4, <1>5, <3>2, <4>1
      <4>2. CASE q \in DOMAIN claims
        BY <1>4, <1>5, <2>1, <3>2, <4>2 DEF RegistryKept
      <4>3. QED
        BY <1>5, <3>2, <4>1, <4>2
    <3>3. QED
      BY <3>1, <3>2 DEF RegistryKept, Wraps
  <2>2. QED
    BY <1>1, <2>1 DEF HostInv
<1>10. QED
  BY <1>6, <1>7, <1>8, <1>9 DEF HostInv, Registry, RangesApart, HeldAs

(* free_host takes its own entry out, if it is still there. *)
LEMMA HostFreeInv ==
  ASSUME HostInv, NEW p \in Pages, HostFree(p)
  PROVE  HostInv'
<1>1. /\ p \in DOMAIN pinned /\ claims' = claims /\ strayed' = strayed
      /\ host' = [k \in DOMAIN host \ {p} |-> host[k]]
      /\ pinned' = [k \in DOMAIN pinned \ {p} |-> pinned[k]]
  BY DEF HostFree, Drop
<1>2. /\ IsMap(host, Lengths) /\ IsMap(pinned, Lengths) /\ IsMap(claims, Lengths)
      /\ DOMAIN host \subseteq Pages /\ DOMAIN pinned \subseteq Pages /\ DOMAIN claims \subseteq Pages
      /\ \A q \in DOMAIN pinned : q \in Nat /\ pinned[q] \in Nat \ {0}
      /\ \A q \in DOMAIN claims : q \in Nat /\ claims[q] \in Nat \ {0}
  BY HostFacts DEF HostInv
<1>3. IsMap(host', Lengths) /\ DOMAIN host' = DOMAIN host \ {p} /\ \A q \in DOMAIN host' : host'[q] = host[q]
  BY <1>1, <1>2, DropFacts
<1>4. IsMap(pinned', Lengths) /\ DOMAIN pinned' = DOMAIN pinned \ {p} /\ \A q \in DOMAIN pinned' : pinned'[q] = pinned[q]
  BY <1>1, <1>2, DropFacts
<1>5. p \notin DOMAIN claims
  <2>1. p \in DOMAIN claims => p + pinned[p] <= p \/ p + claims[p] <= p
    BY <1>1 DEF HostInv, Registry
  <2>2. QED
    BY <1>1, <1>2, <2>1
<1>6. HostTypeOK'
  BY <1>1, <1>2, <1>3, <1>4 DEF HostInv, HostTypeOK
<1>7. \A q \in DOMAIN host' : HeldAs(q, host[q])'
  BY <1>1, <1>3, <1>4 DEF HostInv, Registry, HeldAs
<1>8. RangesApart(pinned)' /\ RangesApart(claims)'
      /\ \A q \in DOMAIN pinned', r \in DOMAIN claims' : q + pinned'[q] <= r \/ r + claims'[r] <= q
  BY <1>1, <1>4 DEF HostInv, Registry, RangesApart
<1>9. ~strayed' => RegistryKept'
  BY <1>1, <1>3, <1>4, <1>5 DEF HostInv, RegistryKept
<1>10. QED
  BY <1>6, <1>7, <1>8, <1>9 DEF HostInv, Registry, RangesApart, HeldAs

(* unregister_host takes out the nearest entry at or below: that of the    *)
(* registration if it has one.                                             *)
LEMMA HostUnregisterInv ==
  ASSUME HostInv, NEW p \in Pages, HostUnregister(p)
  PROVE  HostInv'
<1>1. /\ p \in DOMAIN claims /\ pinned' = pinned
      /\ host' = [k \in DOMAIN host \ AtOrBelow(p) |-> host[k]]
      /\ claims' = [k \in DOMAIN claims \ {p} |-> claims[k]]
      /\ strayed' = (strayed \/ ~Wraps(p, claims[p])) /\ strayed \in BOOLEAN
  BY DEF HostUnregister, Drop, HostInv, HostTypeOK
<1>2. /\ IsMap(host, Lengths) /\ IsMap(pinned, Lengths) /\ IsMap(claims, Lengths)
      /\ DOMAIN host \subseteq Pages /\ DOMAIN pinned \subseteq Pages /\ DOMAIN claims \subseteq Pages
      /\ \A q \in DOMAIN host : q \in Nat
      /\ \A q \in DOMAIN pinned : q \in Nat /\ pinned[q] \in Nat \ {0}
      /\ \A q \in DOMAIN claims : q \in Nat /\ claims[q] \in Nat \ {0}
  BY HostFacts DEF HostInv
<1>3. IsMap(host', Lengths) /\ DOMAIN host' = DOMAIN host \ AtOrBelow(p) /\ \A q \in DOMAIN host' : host'[q] = host[q]
  BY <1>1, <1>2, DropFacts
<1>4. IsMap(claims', Lengths) /\ DOMAIN claims' = DOMAIN claims \ {p} /\ \A q \in DOMAIN claims' : claims'[q] = claims[q]
  BY <1>1, <1>2, DropFacts
<1>5. p \notin DOMAIN pinned
  <2>1. p \in DOMAIN pinned => p + pinned[p] <= p \/ p + claims[p] <= p
    BY <1>1 DEF HostInv, Registry
  <2>2. QED
    BY <1>1, <1>2, <2>1
<1>6. p \in DOMAIN host => AtOrBelow(p) = {p}
  BY <1>2 DEF AtOrBelow
<1>7. p \notin DOMAIN host'
  BY <1>3, <1>6
<1>8. HostTypeOK'
  <2>1. strayed' \in BOOLEAN
    BY <1>1
  <2>2. DOMAIN host' \subseteq Pages /\ DOMAIN claims' \subseteq Pages
    BY <1>2, <1>3, <1>4
  <2>3. QED
    BY <1>1, <1>2, <1>3, <1>4, <2>1, <2>2 DEF HostTypeOK
<1>9. ASSUME NEW q \in DOMAIN host' PROVE HeldAs(q, host[q])'
  <2>1. q # p /\ HeldAs(q, host[q]) /\ host'[q] = host[q]
    BY <1>3, <1>7, <1>9 DEF HostInv, Registry
  <2>2. QED
    BY <1>1, <1>4, <2>1 DEF HeldAs, Wraps
<1>10. RangesApart(pinned)' /\ RangesApart(claims)'
       /\ \A q \in DOMAIN pinned', r \in DOMAIN claims' : q + pinned'[q] <= r \/ r + claims'[r] <= q
  BY <1>1, <1>4 DEF HostInv, Registry, RangesApart
<1>11. ASSUME ~strayed' PROVE RegistryKept'
  <2>1. ~strayed /\ Wraps(p, claims[p])
    BY <1>1, <1>11
  <2>2. RegistryKept /\ p \in DOMAIN host
    BY <1>1, <2>1 DEF HostInv, RegistryKept
  <2>3. DOMAIN host' = DOMAIN host \ {p}
    BY <1>3, <1>6, <2>2
  <2>4. QED
    BY <1>1, <1>4, <1>5, <2>2, <2>3 DEF RegistryKept, Wraps
<1>12. QED
  BY <1>8, <1>9, <1>10, <1>11 DEF HostInv, Registry

LEMMA HostNextInv == HostInv /\ [HostNext]_hvars => HostInv'
<1> SUFFICES ASSUME HostInv, [HostNext]_hvars PROVE HostInv'
  OBVIOUS
<1>1. CASE UNCHANGED hvars
  <2>1. UNCHANGED <<host, pinned, claims, strayed>>
    BY <1>1 DEF hvars
  <2>2. HostTypeOK'
    BY <2>1 DEF HostInv, HostTypeOK
  <2>3. Registry' /\ (~strayed' => RegistryKept')
    BY <2>1 DEF HostInv, Registry, RangesApart, HeldAs, RegistryKept, Wraps
  <2>4. QED
    BY <2>2, <2>3 DEF HostInv
<1>2. CASE HostNext
  BY <1>2, HostAllocInv, HostRegisterInv, HostFreeInv, HostUnregisterInv DEF HostNext
<1>3. QED
  BY <1>1, <1>2

(* malloc, free, cudaHostAlloc, cudaHostRegister and their ends, in any    *)
(* order and for any page size Metal wraps by: device memory is neither    *)
(* lost nor handed out twice, every device address resolves to its own     *)
(* allocation, no host address is ever taken for pinned memory it is not   *)
(* in, and until the program ends a registration that was not wrapped      *)
(* every host address resolves to its own entry.                           *)
THEOREM MemoryIsSound == MemorySpec => []MemorySound
<1>1. MemoryInit => HInv /\ HostInv
  BY HeapInit, HostInitInv DEF MemoryInit
<1>2. HInv /\ HostInv /\ [(MemNext /\ UNCHANGED hvars) \/ (HostNext /\ UNCHANGED mvars)]_<<mvars, hvars>>
        => HInv' /\ HostInv'
  <2> SUFFICES ASSUME HInv, HostInv,
                      [(MemNext /\ UNCHANGED hvars) \/ (HostNext /\ UNCHANGED mvars)]_<<mvars, hvars>>
               PROVE  HInv' /\ HostInv'
    OBVIOUS
  <2>1. [MemNext]_mvars /\ [HostNext]_hvars
    OBVIOUS
  <2>2. QED
    BY <2>1, HeapNext, HostNextInv
<1>3. HInv /\ HostInv => MemorySound
  BY HInvSound, HostInvSound DEF MemorySound
<1>4. QED
  BY <1>1, <1>2, <1>3, PTL DEF MemorySpec
-----------------------------------------------------------------------------
(***************************************************************************)
(* Stream capture                                                          *)
(***************************************************************************)

(* F names operations of session c, each on a level below b. *)
Recorded(c, F, b) == \A d \in F : d \in DOMAIN c.ops /\ c.ops[d].level < b

(* What a stream's next operation depends on is below the level it gets.   *)
FrontsBelow ==
  \A s \in Streams :
    /\ capture[s] = 0 => front[s] = {}
    /\ capture[s] # 0 => Recorded(sessions[capture[s]], front[s], NextLevel(sessions[capture[s]], s))

(* What a captured event stands for is below the bound it carries. *)
MarksBelow ==
  \A e \in Events : captured[e].session # 0 =>
    Recorded(sessions[captured[e].session], mark[e], captured[e].bound)

CInv == CaptureSound /\ FrontsBelow /\ MarksBelow

(* Session d has recorded all that session c has, and maybe more. *)
Grown(c, d) == \A i \in DOMAIN c.ops : i \in DOMAIN d.ops /\ d.ops[i] = c.ops[i]
-----------------------------------------------------------------------------
(* The operators of the model *)

(* A level is a natural number, above the last operation and the joins.    *)
LEMMA NextLevelFacts ==
  ASSUME NEW c \in Session, NEW s \in Streams
  PROVE  /\ NextLevel(c, s) \in Nat
         /\ c.last[s] \in Nat /\ c.join[s] \in Nat
         /\ c.last[s] <= NextLevel(c, s) /\ c.join[s] <= NextLevel(c, s)
BY DEF Session, NextLevel, Most

LEMMA OpFields ==
  ASSUME NEW o \in Op
  PROVE  o.level \in Nat /\ o.deps \in SUBSET Nat
BY DEF Op

(* The operations of a sequence, and the numbers they have. *)
LEMMA OpsFields ==
  ASSUME NEW g \in Seq(Op)
  PROVE  /\ Len(g) \in Nat /\ DOMAIN g = 1..Len(g)
         /\ \A i \in 1..Len(g) : g[i].level \in Nat /\ g[i].deps \in SUBSET Nat
<1>1. Len(g) \in Nat /\ DOMAIN g = 1..Len(g) /\ \A i \in 1..Len(g) : g[i] \in Op
  OBVIOUS
<1>2. QED
  BY <1>1, OpFields

(* The order of levels is transitive where the proofs below need it. *)
LEMMA RecordedRaise ==
  ASSUME NEW c \in Session, NEW d \in Session, NEW F \in SUBSET Nat, NEW a \in Nat, NEW b \in Nat,
         Grown(c, d), a <= b, Recorded(c, F, a)
  PROVE  Recorded(d, F, b)
<1> SUFFICES ASSUME NEW i \in F PROVE i \in DOMAIN d.ops /\ d.ops[i].level < b
  BY DEF Recorded
<1>1. i \in DOMAIN c.ops /\ c.ops[i].level < a
  BY DEF Recorded
<1>2. i \in DOMAIN d.ops /\ d.ops[i] = c.ops[i]
  BY <1>1 DEF Grown
<1>3. c.ops[i].level \in Nat
  BY <1>1, OpsFields DEF Session
<1>4. QED
  BY <1>1, <1>2, <1>3

(* capture_push appends one operation, above what it depends on. *)
LEMMA PushFacts ==
  ASSUME NEW c \in Session, NEW s \in Streams, NEW deps \in SUBSET Nat,
         Below(c.ops), Recorded(c, deps, NextLevel(c, s))
  PROVE  LET p == Push(c, s, deps)
             n == Len(c.ops) + 1
         IN  /\ p \in Session /\ Grown(c, p) /\ Below(p.ops)
             /\ p.state = c.state /\ p.streams = c.streams
             /\ Recorded(p, {n}, NextLevel(p, s)) /\ n \in Nat
             /\ \A t \in Streams \ {s} : NextLevel(p, t) = NextLevel(c, t)
<1> DEFINE p == Push(c, s, deps)
           n == Len(c.ops) + 1
           l == NextLevel(c, s)
           o == [level |-> l, deps |-> deps]
<1>1. l \in Nat
  BY NextLevelFacts
<1>2. o \in Op
  BY <1>1 DEF Op
<1>3. c.ops \in Seq(Op) /\ c.last \in [Streams -> Nat] /\ c.join \in [Streams -> Nat]
  BY DEF Session
<1> DEFINE x == Append(c.ops, o)
           y == [c.last EXCEPT ![s] = l + 1]
           z == [c.join EXCEPT ![s] = 0]
<1>4. x \in Seq(Op) /\ y \in [Streams -> Nat] /\ z \in [Streams -> Nat]
  BY <1>1, <1>2, <1>3
<1>5. p = [c EXCEPT !.ops = x, !.last = y, !.join = z]
  BY DEF Push
<1>a. /\ p \in Session /\ p.ops = x /\ p.last = y /\ p.join = z
      /\ p.state = c.state /\ p.streams = c.streams
  <2> HIDE DEF x, y, z, p
  <2> QED BY <1>4, <1>5 DEF Session
<1> HIDE DEF p, l
<1>6. /\ DOMAIN p.ops = 1..n /\ n \in Nat /\ DOMAIN c.ops = 1..(n - 1)
      /\ p.ops[n] = o /\ \A i \in 1..(n - 1) : p.ops[i] = c.ops[i]
  BY <1>2, <1>3, <1>a
<1>7. Grown(c, p)
  BY <1>6 DEF Grown
<1>8. Below(p.ops)
  <2> SUFFICES ASSUME NEW i \in DOMAIN p.ops, NEW d \in p.ops[i].deps
               PROVE  d \in 1..(i - 1) /\ p.ops[d].level < p.ops[i].level
    BY DEF Below
  <2>1. CASE i = n
    <3>1. d \in deps /\ p.ops[i].level = l
      BY <1>6, <2>1
    <3>2. d \in 1..(n - 1) /\ c.ops[d].level < l
      BY <1>6, <3>1 DEF Recorded, l
    <3>3. QED
      BY <1>6, <2>1, <3>1, <3>2
  <2>2. CASE i # n
    <3>1. i \in 1..(n - 1) /\ d \in c.ops[i].deps /\ p.ops[i] = c.ops[i]
      BY <1>6, <2>2
    <3>2. d \in 1..(i - 1) /\ c.ops[d].level < c.ops[i].level
      BY <1>6, <3>1 DEF Below
    <3>3. QED
      BY <1>6, <3>1, <3>2
  <2>3. QED
    BY <2>1, <2>2
<1>9. Recorded(p, {n}, NextLevel(p, s))
  <2>1. NextLevel(p, s) = l + 1
    BY <1>1, <1>3, <1>a DEF NextLevel, Most
  <2>2. QED
    BY <1>1, <1>6, <2>1 DEF Recorded
<1>10. \A t \in Streams \ {s} : NextLevel(p, t) = NextLevel(c, t)
  BY <1>3, <1>a DEF NextLevel
<1>11. QED
  BY <1>a, <1>6, <1>7, <1>8, <1>9, <1>10 DEF p

(* graph_launch into a capture appends a graph, all of it above what the   *)
(* stream has recorded, and keeps the graph's own order.                   *)
LEMMA InlineFacts ==
  ASSUME NEW c \in Session, NEW s \in Streams, NEW g \in Seq(Op), NEW top \in Nat, NEW deps \in SUBSET Nat,
         Below(c.ops), Below(g), IsTop(g, top), Recorded(c, deps, NextLevel(c, s)),
         NEW p, p = Inline(c, s, g, top, deps)
  PROVE  /\ p \in Session /\ Grown(c, p) /\ Below(p.ops)
         /\ p.state = c.state /\ p.streams = c.streams
         /\ Recorded(p, (Len(c.ops) + 1)..(Len(c.ops) + Len(g)), NextLevel(p, s))
         /\ Len(c.ops) \in Nat /\ Len(g) \in Nat
         /\ NextLevel(c, s) <= NextLevel(p, s)
         /\ \A t \in Streams \ {s} : NextLevel(p, t) = NextLevel(c, t)
<1> DEFINE n == Len(c.ops)
           l == NextLevel(c, s)
           h == [i \in DOMAIN g |-> [level |-> l + g[i].level, deps |-> {n + d : d \in g[i].deps} \cup deps]]
           x == c.ops \o h
           y == [c.last EXCEPT ![s] = 0]
           z == [c.join EXCEPT ![s] = l + top + 1]
<1>1. l \in Nat
  BY NextLevelFacts
<1>2. c.ops \in Seq(Op) /\ c.last \in [Streams -> Nat] /\ c.join \in [Streams -> Nat] /\ n \in Nat
  BY DEF Session
<1> HIDE DEF l, n
<1>3. /\ Len(g) \in Nat /\ DOMAIN g = 1..Len(g)
      /\ \A i \in DOMAIN g : g[i].level \in Nat /\ g[i].deps \in SUBSET Nat
  BY OpsFields
<1>4. \A i \in DOMAIN g : [level |-> l + g[i].level, deps |-> {n + d : d \in g[i].deps} \cup deps] \in Op
  <2> SUFFICES ASSUME NEW i \in DOMAIN g
               PROVE  [level |-> l + g[i].level, deps |-> {n + d : d \in g[i].deps} \cup deps] \in Op
    OBVIOUS
  <2>1. l + g[i].level \in Nat
    BY <1>1, <1>3
  <2>2. {n + d : d \in g[i].deps} \cup deps \in SUBSET Nat
    <3>1. \A d \in g[i].deps : d \in Nat /\ n + d \in Nat
      BY <1>2, <1>3
    <3>2. QED
      BY <3>1
  <2>3. QED
    BY <2>1, <2>2 DEF Op
<1>5. h \in Seq(Op) /\ Len(h) = Len(g) /\ DOMAIN h = 1..Len(g)
  <2>1. h \in [1..Len(g) -> Op]
    BY <1>3, <1>4
  <2>2. QED
    BY <2>1, <1>3
<1>6. x \in Seq(Op) /\ y \in [Streams -> Nat] /\ z \in [Streams -> Nat]
  BY <1>1, <1>2, <1>5
<1>7. p = [c EXCEPT !.ops = x, !.last = y, !.join = z]
  BY DEF Inline, l, n
<1>8. /\ p \in Session /\ p.ops = x /\ p.last = y /\ p.join = z
      /\ p.state = c.state /\ p.streams = c.streams
  <2> HIDE DEF x, y, z
  <2> QED BY <1>6, <1>7 DEF Session
<1>9. /\ DOMAIN p.ops = 1..(n + Len(g)) /\ DOMAIN c.ops = 1..n
      /\ \A i \in 1..n : p.ops[i] = c.ops[i]
      /\ \A i \in 1..Len(g) : p.ops[n + i] = h[i]
  <2> HIDE DEF h, y, z
  <2>1. c.ops \in Seq(Op) /\ h \in Seq(Op) /\ Len(c.ops) = n /\ Len(h) = Len(g)
    BY <1>2, <1>5 DEF n
  <2>2. p.ops = c.ops \o h
    BY <1>8
  <2>3. /\ Len(p.ops) = n + Len(g) /\ p.ops \in Seq(Op)
        /\ \A i \in 1..(n + Len(g)) : p.ops[i] = IF i <= n THEN c.ops[i] ELSE h[i - n]
    <3>1. /\ Len(c.ops \o h) = Len(c.ops) + Len(h) /\ c.ops \o h \in Seq(Op)
          /\ \A i \in 1..(Len(c.ops) + Len(h)) :
               (c.ops \o h)[i] = IF i <= Len(c.ops) THEN c.ops[i] ELSE h[i - Len(c.ops)]
      BY <2>1, ConcatProperties, Zenon
    <3>2. QED
      BY <2>1, <2>2, <3>1, Zenon
  <2>4. \A i \in 1..Len(g) : n + i \in 1..(n + Len(g)) /\ ~(n + i <= n) /\ (n + i) - n = i
    BY <1>2, <1>3
  <2>5. DOMAIN p.ops = 1..(n + Len(g)) /\ DOMAIN c.ops = 1..n
    BY <2>1, <2>3
  <2>6. \A i \in 1..n : i \in 1..(n + Len(g)) /\ i <= n
    BY <1>2, <1>3
  <2> QED BY <2>3, <2>4, <2>5, <2>6
<1>10. Grown(c, p)
  BY <1>2, <1>3, <1>9 DEF Grown
<1>11. \A i \in 1..Len(g) : /\ p.ops[n + i].level = l + g[i].level
                            /\ p.ops[n + i].deps = {n + d : d \in g[i].deps} \cup deps
  <2>1. \A i \in 1..Len(g) : h[i] = [level |-> l + g[i].level, deps |-> {n + d : d \in g[i].deps} \cup deps]
    BY <1>3
  <2> HIDE DEF h
  <2> SUFFICES ASSUME NEW i \in 1..Len(g)
               PROVE  /\ p.ops[n + i].level = l + g[i].level
                      /\ p.ops[n + i].deps = {n + d : d \in g[i].deps} \cup deps
    OBVIOUS
  <2> DEFINE D == {n + d : d \in g[i].deps} \cup deps
  <2>2. p.ops[n + i] = [level |-> l + g[i].level, deps |-> D]
    BY <1>9, <2>1
  <2> HIDE DEF D
  <2>3. p.ops[n + i].level = l + g[i].level /\ p.ops[n + i].deps = D
    BY <2>2
  <2>4. QED
    BY <2>3 DEF D
<1> HIDE DEF h
<1>12. Below(p.ops)
  <2> SUFFICES ASSUME NEW i \in DOMAIN p.ops, NEW d \in p.ops[i].deps
               PROVE  d \in 1..(i - 1) /\ p.ops[d].level < p.ops[i].level
    BY DEF Below
  <2>1. CASE i \in 1..n
    <3>1. d \in c.ops[i].deps /\ p.ops[i] = c.ops[i]
      BY <1>9, <2>1
    <3>2. d \in 1..(i - 1) /\ c.ops[d].level < c.ops[i].level
      BY <1>9, <2>1, <3>1 DEF Below
    <3>3. QED
      BY <1>2, <1>9, <2>1, <3>1, <3>2
  <2>2. CASE i \notin 1..n
    <3> DEFINE j == i - n
    <3>1. j \in 1..Len(g) /\ i = n + j
      BY <1>2, <1>3, <1>9, <2>2
    <3> HIDE DEF j
    <3>2. p.ops[i].level = l + g[j].level /\ g[j].level \in Nat
      BY <1>3, <1>11, <3>1
    <3>3. CASE d \in deps
      <4>1. d \in 1..n /\ c.ops[d].level < l
        BY <1>9, <3>3 DEF Recorded, l
      <4>2. c.ops[d].level \in Nat
        BY <1>2, <1>9, <4>1, OpsFields
      <4>3. QED
        BY SMTT(20), <1>1, <1>2, <1>3, <1>9, <3>1, <3>2, <4>1, <4>2
    <3>4. CASE d \notin deps
      <4>1. PICK b \in g[j].deps : d = n + b
        BY <1>11, <3>1, <3>4
      <4>2. b \in 1..(j - 1) /\ g[b].level < g[j].level
        BY <1>3, <3>1 DEF Below
      <4>3. b \in 1..Len(g) /\ g[b].level \in Nat
        BY <1>3, <3>1, <4>2
      <4>4. p.ops[d].level = l + g[b].level
        BY <1>11, <4>1, <4>3
      <4>5. d \in 1..(i - 1)
        BY <1>2, <1>3, <3>1, <4>1, <4>2
      <4>6. QED
        BY <1>1, <3>2, <4>2, <4>3, <4>4, <4>5
    <3>5. QED
      BY <3>3, <3>4
  <2>3. QED
    BY <2>1, <2>2
<1>13. NextLevel(p, s) = l + top + 1
  BY <1>1, <1>2, <1>8 DEF NextLevel, Most
<1>14. Recorded(p, (n + 1)..(n + Len(g)), NextLevel(p, s))
  <2> SUFFICES ASSUME NEW i \in (n + 1)..(n + Len(g))
               PROVE  i \in DOMAIN p.ops /\ p.ops[i].level < l + top + 1
    BY <1>13 DEF Recorded
  <2> DEFINE j == i - n
  <2>1. j \in 1..Len(g) /\ i = n + j /\ g # <<>>
    BY <1>2, <1>3
  <2> HIDE DEF j
  <2>2. g[j].level <= top /\ g[j].level \in Nat
    BY <1>3, <2>1 DEF IsTop
  <2>3. p.ops[i].level = l + g[j].level
    BY <1>11, <2>1
  <2>4. i \in DOMAIN p.ops
    BY <1>2, <1>3, <1>9
  <2>5. QED
    BY <1>1, <1>2, <1>3, <2>2, <2>3, <2>4
<1>15. \A t \in Streams \ {s} : NextLevel(p, t) = NextLevel(c, t)
  BY <1>2, <1>8 DEF NextLevel
<1>16. QED
  BY <1>1, <1>2, <1>3, <1>8, <1>10, <1>12, <1>13, <1>14, <1>15 DEF l, n
-----------------------------------------------------------------------------
(* The invariant holds at first *)

LEMMA NoSessionFacts ==
  ASSUME NEW st \in {"new", "active", "ended"}
  PROVE  /\ NoSession(st) \in Session /\ NoSession(st).ops = <<>>
         /\ NoSession(st).state = st /\ NoSession(st).streams = {}
BY CaptureAssumption DEF NoSession, Session

LEMMA EmptyBelow == Below(<<>>)
BY DEF Below

LEMMA CaptureInitInv == CaptureInit => CInv
<1> SUFFICES ASSUME CaptureInit PROVE CInv
  OBVIOUS
<1>1. CaptureTypeOK
  <2>1. NoSession("new") \in Session
    BY NoSessionFacts
  <2>2. QED
    BY <2>1 DEF CaptureInit, CaptureTypeOK
<1>2. LevelsSound
  BY NoSessionFacts, EmptyBelow DEF CaptureInit, LevelsSound
<1>3. SessionsThere /\ FrontsBelow /\ MarksBelow
  BY DEF CaptureInit, SessionsThere, FrontsBelow, MarksBelow
<1>4. QED
  BY <1>1, <1>2, <1>3 DEF CInv, CaptureSound
-----------------------------------------------------------------------------
(* and every action keeps it. *)

(* A stream s of session k' records or joins: session k grows to d, and    *)
(* only s has a new front.                                                 *)
LEMMA Recording ==
  ASSUME CInv, NEW s \in Streams, NEW k \in Sessions, NEW d \in Session,
         sessions' = [sessions EXCEPT ![k] = d],
         Grown(sessions[k], d), Below(d.ops),
         d.state = sessions[k].state, sessions[k].streams \subseteq d.streams,
         \A t \in Streams \ {s} : NextLevel(d, t) = NextLevel(sessions[k], t),
         capture' \in [Streams -> Sessions \cup {0}], front' \in [Streams -> SUBSET Nat],
         \A t \in Streams \ {s} : capture'[t] = capture[t] /\ front'[t] = front[t],
         capture'[s] # 0, sessions'[capture'[s]].state = "active", s \in sessions'[capture'[s]].streams,
         Recorded(sessions'[capture'[s]], front'[s], NextLevel(sessions'[capture'[s]], s)),
         UNCHANGED <<alive, captured, graphs, mark>>
  PROVE  CInv'
<1>1. /\ sessions \in [Sessions -> Session] /\ front \in [Streams -> SUBSET Nat] /\ mark \in [Events -> SUBSET Nat]
      /\ capture \in [Streams -> Sessions \cup {0}] /\ 0 \notin Sessions
      /\ captured \in [Events -> [session : Sessions \cup {0}, bound : Nat]]
  BY CaptureAssumption DEF CInv, CaptureSound, CaptureTypeOK
<1>2. /\ sessions' \in [Sessions -> Session] /\ sessions'[k] = d
      /\ \A j \in Sessions \ {k} : sessions'[j] = sessions[j]
  BY <1>1
<1>3. CaptureTypeOK'
  BY <1>2 DEF CInv, CaptureSound, CaptureTypeOK
<1>4. \A j \in Sessions : /\ Grown(sessions[j], sessions'[j]) /\ sessions'[j].state = sessions[j].state
                          /\ sessions[j].streams \subseteq sessions'[j].streams
  <2> TAKE j \in Sessions
  <2>1. CASE j = k
    BY <1>2, <2>1
  <2>2. CASE j # k
    BY <1>2, <2>2 DEF Grown
  <2>3. QED
    BY <2>1, <2>2
<1>5. LevelsSound'
  <2>1. \A j \in Sessions : Below(sessions'[j].ops)
    BY <1>2 DEF CInv, CaptureSound, LevelsSound
  <2>2. QED
    BY <2>1 DEF CInv, CaptureSound, LevelsSound
<1>6. SessionsThere'
  <2>1. \A t \in Streams \ {s} : capture'[t] # 0 =>
          sessions'[capture'[t]].state = "active" /\ t \in sessions'[capture'[t]].streams
    BY <1>1, <1>4 DEF CInv, CaptureSound, SessionsThere
  <2>2. \A e \in Events : captured'[e].session # 0 => sessions'[captured'[e].session].state = "active"
    BY <1>1, <1>4 DEF CInv, CaptureSound, SessionsThere
  <2>3. QED
    BY <2>1, <2>2 DEF SessionsThere
<1>7. FrontsBelow'
  <2>1. ASSUME NEW t \in Streams \ {s}, capture'[t] # 0
        PROVE  Recorded(sessions'[capture'[t]], front'[t], NextLevel(sessions'[capture'[t]], t))
    <3> DEFINE j == capture[t]
    <3>1. j \in Sessions /\ j = capture'[t]
      BY <1>1, <2>1
    <3>2. Recorded(sessions[j], front[t], NextLevel(sessions[j], t))
      BY <2>1, <3>1 DEF CInv, FrontsBelow
    <3>3. NextLevel(sessions'[j], t) = NextLevel(sessions[j], t)
      BY <1>2, <3>1
    <3>4. NextLevel(sessions[j], t) \in Nat /\ front[t] \in SUBSET Nat
      BY <1>1, <3>1, NextLevelFacts
    <3>5. Recorded(sessions'[j], front[t], NextLevel(sessions[j], t))
      BY <1>1, <1>2, <1>4, <3>1, <3>2, <3>4, RecordedRaise
    <3>6. QED
      BY <3>1, <3>3, <3>5
  <2>2. \A t \in Streams \ {s} : capture'[t] = 0 => front'[t] = {}
    BY DEF CInv, FrontsBelow
  <2>3. QED
    BY <2>1, <2>2 DEF FrontsBelow
<1>8. MarksBelow'
  <2> SUFFICES ASSUME NEW e \in Events, captured[e].session # 0
               PROVE  Recorded(sessions'[captured[e].session], mark[e], captured[e].bound)
    BY DEF MarksBelow
  <2> DEFINE j == captured[e].session
             b == captured[e].bound
  <2>1. j \in Sessions /\ b \in Nat /\ mark[e] \in SUBSET Nat
    BY <1>1
  <2>2. Recorded(sessions[j], mark[e], b)
    BY DEF CInv, MarksBelow
  <2> HIDE DEF j, b
  <2>3. Recorded(sessions'[j], mark[e], b)
    BY <1>1, <1>2, <1>4, <2>1, <2>2, RecordedRaise
  <2>4. QED
    BY <2>3 DEF j, b
<1>9. QED
  BY <1>3, <1>5, <1>6, <1>7, <1>8 DEF CInv, CaptureSound
(* The session that records a stream: it is there, and its types. *)
LEMMA RecordingSession ==
  ASSUME CInv, NEW s \in Streams, capture[s] # 0
  PROVE  /\ capture[s] \in Sessions /\ sessions[capture[s]] \in Session /\ front[s] \in SUBSET Nat
         /\ sessions[capture[s]].state = "active" /\ s \in sessions[capture[s]].streams
         /\ Below(sessions[capture[s]].ops)
         /\ Recorded(sessions[capture[s]], front[s], NextLevel(sessions[capture[s]], s))
BY DEF CInv, CaptureSound, CaptureTypeOK, LevelsSound, SessionsThere, FrontsBelow

LEMMA CaptureOpInv ==
  ASSUME CInv, NEW s \in Streams, CaptureOp(s)
  PROVE  CInv'
<1> DEFINE k == capture[s]
           n == Len(sessions[k].ops) + 1
           d == Push(sessions[k], s, front[s])
<1>1. k # 0 /\ sessions' = [sessions EXCEPT ![k] = d] /\ front' = [front EXCEPT ![s] = {n}]
  BY DEF CaptureOp
<1>2. /\ k \in Sessions /\ sessions[k] \in Session /\ front[s] \in SUBSET Nat
      /\ sessions[k].state = "active" /\ s \in sessions[k].streams /\ Below(sessions[k].ops)
      /\ Recorded(sessions[k], front[s], NextLevel(sessions[k], s))
  BY <1>1, RecordingSession
<1> HIDE DEF k
<1>3. /\ d \in Session /\ Grown(sessions[k], d) /\ Below(d.ops)
      /\ d.state = sessions[k].state /\ d.streams = sessions[k].streams
      /\ Recorded(d, {n}, NextLevel(d, s)) /\ n \in Nat
      /\ \A t \in Streams \ {s} : NextLevel(d, t) = NextLevel(sessions[k], t)
  BY <1>2, PushFacts
<1> HIDE DEF n, d
<1>4. /\ sessions \in [Sessions -> Session] /\ front \in [Streams -> SUBSET Nat]
      /\ capture \in [Streams -> Sessions \cup {0}]
  BY DEF CInv, CaptureSound, CaptureTypeOK
<1>5. /\ capture' = capture /\ capture'[s] = k /\ sessions'[k] = d
      /\ front'[s] = {n} /\ \A t \in Streams \ {s} : front'[t] = front[t]
      /\ UNCHANGED <<alive, captured, graphs, mark>>
  BY <1>1, <1>2, <1>4 DEF CaptureOp, k
<1>6. front' \in [Streams -> SUBSET Nat]
  BY <1>1, <1>3, <1>4
<1>7. QED
  BY <1>1, <1>2, <1>3, <1>4, <1>5, <1>6, Recording

LEMMA LaunchIntoCaptureInv ==
  ASSUME CInv, NEW s \in Streams, NEW g \in graphs, NEW top \in 0..MaxOps, LaunchIntoCapture(s, g, top)
  PROVE  CInv'
<1> DEFINE k == capture[s]
           n == Len(sessions[k].ops)
           d == Inline(sessions[k], s, g, top, front[s])
           F == IF g = <<>> THEN front[s] ELSE (n + 1)..(n + Len(g))
<1>1. k # 0 /\ sessions' = [sessions EXCEPT ![k] = d] /\ front' = [front EXCEPT ![s] = F] /\ IsTop(g, top)
  BY DEF LaunchIntoCapture
<1>2. /\ k \in Sessions /\ sessions[k] \in Session /\ front[s] \in SUBSET Nat
      /\ sessions[k].state = "active" /\ s \in sessions[k].streams /\ Below(sessions[k].ops)
      /\ Recorded(sessions[k], front[s], NextLevel(sessions[k], s))
  BY <1>1, RecordingSession
<1>3. g \in Seq(Op) /\ Below(g) /\ top \in Nat
  BY CaptureAssumption DEF CInv, CaptureSound, CaptureTypeOK, LevelsSound
<1> HIDE DEF k
<1>4. /\ d \in Session /\ Grown(sessions[k], d) /\ Below(d.ops)
      /\ d.state = sessions[k].state /\ d.streams = sessions[k].streams
      /\ Recorded(d, (n + 1)..(n + Len(g)), NextLevel(d, s)) /\ n \in Nat /\ Len(g) \in Nat
      /\ NextLevel(sessions[k], s) <= NextLevel(d, s)
      /\ \A t \in Streams \ {s} : NextLevel(d, t) = NextLevel(sessions[k], t)
  <2> DEFINE c == sessions[k]
             f == front[s]
  <2>1. d = Inline(c, s, g, top, f) /\ n = Len(c.ops)
    OBVIOUS
  <2>2. c \in Session /\ f \in SUBSET Nat /\ Below(c.ops) /\ Recorded(c, f, NextLevel(c, s)) /\ IsTop(g, top)
    BY <1>1, <1>2
  <2> HIDE DEF d, n, c, f, F
  <2>3. /\ d \in Session /\ Grown(c, d) /\ Below(d.ops)
        /\ d.state = c.state /\ d.streams = c.streams
        /\ Recorded(d, (Len(c.ops) + 1)..(Len(c.ops) + Len(g)), NextLevel(d, s))
        /\ Len(c.ops) \in Nat /\ Len(g) \in Nat
        /\ NextLevel(c, s) <= NextLevel(d, s)
        /\ \A t \in Streams \ {s} : NextLevel(d, t) = NextLevel(c, t)
    BY <1>3, <2>1, <2>2, InlineFacts
  <2>4. QED
    BY <2>1, <2>3 DEF c
<1> HIDE DEF n, d
<1>5. F \in SUBSET Nat /\ Recorded(d, F, NextLevel(d, s))
  <2>1. CASE g = <<>>
    <3>1. NextLevel(sessions[k], s) \in Nat /\ NextLevel(d, s) \in Nat
      BY <1>2, <1>4, NextLevelFacts
    <3>2. Recorded(d, front[s], NextLevel(d, s))
      BY <1>2, <1>4, <3>1, RecordedRaise
    <3>3. QED
      BY <1>2, <2>1, <3>2
  <2>2. CASE g # <<>>
    BY <1>4, <2>2
  <2>3. QED
    BY <2>1, <2>2
<1> HIDE DEF F
<1>6. /\ sessions \in [Sessions -> Session] /\ front \in [Streams -> SUBSET Nat]
      /\ capture \in [Streams -> Sessions \cup {0}]
  BY DEF CInv, CaptureSound, CaptureTypeOK
<1>7. /\ capture' = capture /\ capture'[s] = k /\ sessions'[k] = d
      /\ front'[s] = F /\ \A t \in Streams \ {s} : front'[t] = front[t]
      /\ UNCHANGED <<alive, captured, graphs, mark>>
  BY <1>1, <1>2, <1>6 DEF LaunchIntoCapture, k
<1>8. front' \in [Streams -> SUBSET Nat]
  BY <1>1, <1>5, <1>6
<1>9. QED
  BY <1>1, <1>2, <1>4, <1>5, <1>6, <1>7, <1>8, Recording

(* What stream_wait_event changes of a session: it may get a stream, and   *)
(* one level is raised.                                                    *)
LEMMA JoinFacts ==
  ASSUME NEW c \in Session, NEW s \in Streams, NEW b \in Nat
  PROVE  \E d \in Session :
           /\ d = Join(c, s, b) /\ d.ops = c.ops /\ d.state = c.state
           /\ d.streams = IF capture[s] = 0 THEN c.streams \cup {s} ELSE c.streams
           /\ NextLevel(c, s) <= NextLevel(d, s) /\ b <= NextLevel(d, s) /\ NextLevel(d, s) \in Nat
           /\ \A t \in Streams \ {s} : NextLevel(d, t) = NextLevel(c, t)
<1> DEFINE d == Join(c, s, b)
<1> DEFINE z == [c.join EXCEPT ![s] = Most(c.join[s], b)]
           S == IF capture[s] = 0 THEN c.streams \cup {s} ELSE c.streams
<1>1. c.last \in [Streams -> Nat] /\ c.join \in [Streams -> Nat] /\ S \in SUBSET Streams
  BY DEF Session
<1>2. z \in [Streams -> Nat] /\ z[s] >= c.join[s] /\ z[s] >= b /\ \A t \in Streams \ {s} : z[t] = c.join[t]
  BY <1>1 DEF Most
<1>3. d = [c EXCEPT !.streams = S, !.join = z]
  BY DEF Join
<1> HIDE DEF d, z, S
<1>4. /\ d \in Session /\ d.ops = c.ops /\ d.state = c.state /\ d.streams = S
      /\ d.last = c.last /\ d.join = z
  BY <1>1, <1>2, <1>3 DEF Session
<1>5. QED
  <2>1. /\ NextLevel(c, s) <= NextLevel(d, s) /\ b <= NextLevel(d, s) /\ NextLevel(d, s) \in Nat
        /\ \A t \in Streams \ {s} : NextLevel(d, t) = NextLevel(c, t)
    BY <1>1, <1>2, <1>4 DEF NextLevel, Most
  <2>2. d = Join(c, s, b) /\ S = IF capture[s] = 0 THEN c.streams \cup {s} ELSE c.streams
    BY DEF d, S
  <2>3. QED
    BY <1>4, <2>1, <2>2

LEMMA StreamWaitEventInv ==
  ASSUME CInv, NEW s \in Streams, NEW e \in Events, StreamWaitEvent(s, e)
  PROVE  CInv'
<1> DEFINE k == captured[e].session
           b == captured[e].bound
           c == sessions[k]
           S == IF capture[s] = 0 THEN c.streams \cup {s} ELSE c.streams
           d == Join(c, s, b)
<1>1. /\ sessions \in [Sessions -> Session] /\ front \in [Streams -> SUBSET Nat]
      /\ capture \in [Streams -> Sessions \cup {0}] /\ mark \in [Events -> SUBSET Nat] /\ 0 \notin Sessions
      /\ captured[e].session \in Sessions \cup {0} /\ captured[e].bound \in Nat
  BY CaptureAssumption DEF CInv, CaptureSound, CaptureTypeOK
<1>2. k \in Sessions /\ b \in Nat /\ c \in Session /\ S \in SUBSET Streams
  <2>1. k \in Sessions /\ c \in Session
    BY <1>1 DEF StreamWaitEvent
  <2>2. c.streams \in SUBSET Streams
    BY <2>1 DEF Session
  <2>3. QED
    BY <1>1, <2>1, <2>2
<1>3. c.state = "active" /\ Below(c.ops) /\ Recorded(c, mark[e], b)
  BY <1>1, <1>2 DEF CInv, CaptureSound, LevelsSound, SessionsThere, MarksBelow
<1>4. sessions' = [sessions EXCEPT ![k] = d]
  BY DEF StreamWaitEvent
<1>5. /\ d \in Session /\ d.ops = c.ops /\ d.state = c.state /\ d.streams = S
      /\ NextLevel(c, s) <= NextLevel(d, s) /\ b <= NextLevel(d, s) /\ NextLevel(d, s) \in Nat
      /\ \A t \in Streams \ {s} : NextLevel(d, t) = NextLevel(c, t)
  <2>1. d = Join(c, s, b) /\ S = IF capture[s] = 0 THEN c.streams \cup {s} ELSE c.streams
    OBVIOUS
  <2> HIDE DEF S, b, c, d
  <2>2. c \in Session /\ b \in Nat
    BY <1>2
  <2>3. PICK j \in Session :
               /\ j = Join(c, s, b) /\ j.ops = c.ops /\ j.state = c.state
               /\ j.streams = IF capture[s] = 0 THEN c.streams \cup {s} ELSE c.streams
               /\ NextLevel(c, s) <= NextLevel(j, s) /\ b <= NextLevel(j, s) /\ NextLevel(j, s) \in Nat
               /\ \A t \in Streams \ {s} : NextLevel(j, t) = NextLevel(c, t)
    BY <2>2, JoinFacts
  <2>4. d = j /\ j.streams = S
    BY <2>1, <2>3
  <2>5. QED
    BY <2>3, <2>4
<1> DEFINE F == IF capture[s] = 0 THEN mark[e] ELSE IF capture[s] = k THEN front[s] \cup mark[e] ELSE front[s]
           j == IF capture[s] = 0 THEN k ELSE capture[s]
<1>6. /\ capture' = [capture EXCEPT ![s] = j] /\ front' = [front EXCEPT ![s] = F]
      /\ UNCHANGED <<alive, captured, graphs, mark>>
  BY <1>1 DEF StreamWaitEvent
<1>7. Grown(c, d) /\ c.streams \subseteq d.streams /\ Below(d.ops)
  BY <1>3, <1>5 DEF Grown
<1> HIDE DEF d, b
<1>8. Recorded(d, mark[e], NextLevel(d, s))
  BY <1>1, <1>2, <1>3, <1>5, <1>7, RecordedRaise
<1>9. j \in Sessions /\ j # 0 /\ F \in SUBSET Nat
  BY <1>1, <1>2
<1>10. /\ sessions'[j].state = "active" /\ s \in sessions'[j].streams
       /\ Recorded(sessions'[j], F, NextLevel(sessions'[j], s))
  <2>1. CASE capture[s] = 0
    BY <1>1, <1>2, <1>3, <1>4, <1>5, <1>8, <2>1
  <2>2. CASE capture[s] = k
    <3>1. capture[s] # 0 /\ j = k /\ F = front[s] \cup mark[e] /\ sessions'[j] = d
      BY <1>1, <1>2, <1>4, <2>2
    <3>2. Recorded(c, front[s], NextLevel(c, s)) /\ s \in c.streams
      BY <2>2, <3>1, RecordingSession
    <3>3. NextLevel(c, s) \in Nat
      BY <1>2, NextLevelFacts
    <3>4. Recorded(d, front[s], NextLevel(d, s))
      BY <1>1, <1>2, <1>5, <1>7, <3>2, <3>3, RecordedRaise
    <3>5. Recorded(d, F, NextLevel(d, s))
      BY <1>8, <3>1, <3>4 DEF Recorded
    <3>6. QED
      BY <1>3, <1>5, <1>7, <3>1, <3>2, <3>5
  <2>3. CASE capture[s] # 0 /\ capture[s] # k
    <3>1. j = capture[s] /\ F = front[s] /\ sessions'[j] = sessions[j]
      BY <1>1, <1>2, <1>4, <1>9, <2>3
    <3>2. QED
      BY <2>3, <3>1, RecordingSession
  <2>4. QED
    BY <2>1, <2>2, <2>3
<1> HIDE DEF F, j
<1>11. /\ capture' \in [Streams -> Sessions \cup {0}] /\ front' \in [Streams -> SUBSET Nat]
       /\ capture'[s] = j /\ front'[s] = F
       /\ \A t \in Streams \ {s} : capture'[t] = capture[t] /\ front'[t] = front[t]
  BY <1>1, <1>6, <1>9
<1>12. QED
  BY <1>2, <1>4, <1>5, <1>6, <1>7, <1>9, <1>10, <1>11, Recording
LEMMA BeginCaptureInv ==
  ASSUME CInv, NEW s \in Streams, NEW k \in Sessions, BeginCapture(s, k)
  PROVE  CInv'
<1> DEFINE d == [sessions[k] EXCEPT !.state = "active", !.origin = s, !.streams = {s}]
<1>1. /\ sessions \in [Sessions -> Session] /\ front \in [Streams -> SUBSET Nat]
      /\ capture \in [Streams -> Sessions \cup {0}] /\ 0 \notin Sessions
      /\ captured \in [Events -> [session : Sessions \cup {0}, bound : Nat]]
  BY CaptureAssumption DEF CInv, CaptureSound, CaptureTypeOK
<1>2. /\ d \in Session /\ d.ops = sessions[k].ops /\ d.state = "active" /\ d.streams = {s}
  BY ZenonT(40), <1>1 DEF Session
<1>3. /\ sessions' = [sessions EXCEPT ![k] = d] /\ capture' = [capture EXCEPT ![s] = k]
      /\ capture[s] = 0 /\ sessions[k].state = "new" /\ UNCHANGED <<alive, captured, graphs, front, mark>>
  BY DEF BeginCapture
<1> HIDE DEF d
<1>4. /\ sessions' \in [Sessions -> Session] /\ sessions'[k] = d
      /\ \A j \in Sessions \ {k} : sessions'[j] = sessions[j]
      /\ capture' \in [Streams -> Sessions \cup {0}] /\ capture'[s] = k
      /\ \A t \in Streams \ {s} : capture'[t] = capture[t]
  BY <1>1, <1>2, <1>3
<1>5. CaptureTypeOK'
  BY <1>3, <1>4 DEF CInv, CaptureSound, CaptureTypeOK
<1>6. LevelsSound'
  BY <1>2, <1>3, <1>4 DEF CInv, CaptureSound, LevelsSound
\* No stream and no event names a session that has not begun.
<1>7. /\ \A t \in Streams : capture[t] # k
      /\ \A e \in Events : captured[e].session # k
  BY <1>1, <1>3 DEF CInv, CaptureSound, SessionsThere
<1>8. SessionsThere'
  BY <1>1, <1>2, <1>3, <1>4, <1>7 DEF CInv, CaptureSound, SessionsThere
<1>9. FrontsBelow'
  <2>1. front[s] = {}
    BY <1>3 DEF CInv, FrontsBelow
  <2>2. Recorded(sessions'[k], front'[s], NextLevel(sessions'[k], s))
    BY <1>3, <2>1 DEF Recorded
  <2>3. \A t \in Streams \ {s} : capture'[t] # 0 => sessions'[capture'[t]] = sessions[capture[t]]
    BY <1>1, <1>4, <1>7
  <2>4. QED
    BY <1>1, <1>3, <1>4, <2>2, <2>3 DEF CInv, FrontsBelow
<1>10. MarksBelow'
  <2>1. \A e \in Events : captured[e].session # 0 => sessions'[captured[e].session] = sessions[captured[e].session]
    BY <1>1, <1>4, <1>7
  <2>2. QED
    BY <1>3, <2>1 DEF CInv, MarksBelow
<1>11. QED
  BY <1>5, <1>6, <1>8, <1>9, <1>10 DEF CInv, CaptureSound

LEMMA EndCaptureInv ==
  ASSUME CInv, NEW s \in Streams, EndCapture(s)
  PROVE  CInv'
<1> DEFINE k == capture[s]
           S == sessions[k].streams
           d == NoSession("ended")
<1>1. /\ sessions \in [Sessions -> Session] /\ front \in [Streams -> SUBSET Nat]
      /\ capture \in [Streams -> Sessions \cup {0}] /\ mark \in [Events -> SUBSET Nat] /\ 0 \notin Sessions
      /\ captured \in [Events -> [session : Sessions \cup {0}, bound : Nat]] /\ graphs \in SUBSET Seq(Op)
  BY CaptureAssumption DEF CInv, CaptureSound, CaptureTypeOK
<1>2. k \in Sessions /\ k # 0
  BY <1>1 DEF EndCapture
<1>3. d \in Session /\ d.ops = <<>>
  BY NoSessionFacts
<1>4. sessions[k].ops \in Seq(Op) /\ Below(sessions[k].ops)
  BY <1>1, <1>2 DEF Session, CInv, CaptureSound, LevelsSound
<1>5. /\ capture' = [t \in Streams |-> IF t \in S THEN 0 ELSE capture[t]]
      /\ captured' = [e \in Events |-> IF captured[e].session = k THEN [session |-> 0, bound |-> 0] ELSE captured[e]]
      /\ sessions' = [sessions EXCEPT ![k] = d] /\ graphs' = graphs \cup {sessions[k].ops}
      /\ front' = [t \in Streams |-> IF t \in S THEN {} ELSE front[t]]
      /\ mark' = [e \in Events |-> IF captured[e].session = k THEN {} ELSE mark[e]]
      /\ alive' = alive
  BY DEF EndCapture
<1> HIDE DEF k, S, d
<1>6. /\ sessions' \in [Sessions -> Session] /\ sessions'[k] = d
      /\ \A j \in Sessions \ {k} : sessions'[j] = sessions[j]
  BY <1>1, <1>2, <1>3, <1>5
<1>7. /\ \A t \in Streams : capture'[t] # 0 => /\ capture'[t] = capture[t] /\ capture[t] \in Sessions \ {k}
                                               /\ front'[t] = front[t]
      /\ \A t \in Streams : capture'[t] = 0 => front'[t] = {}
  <2>1. \A t \in Streams : capture[t] = k => t \in S
    BY <1>2 DEF CInv, CaptureSound, SessionsThere, S
  <2>2. QED
    BY <1>1, <1>5, <2>1 DEF CInv, FrontsBelow
<1>8. \A e \in Events : captured'[e].session # 0 =>
        /\ captured'[e] = captured[e] /\ captured[e].session \in Sessions \ {k} /\ mark'[e] = mark[e]
  BY <1>1, <1>5
<1>9. CaptureTypeOK'
  <2>1. capture' \in [Streams -> Sessions \cup {0}] /\ front' \in [Streams -> SUBSET Nat]
    BY <1>1, <1>5
  <2>2. captured' \in [Events -> [session : Sessions \cup {0}, bound : Nat]] /\ mark' \in [Events -> SUBSET Nat]
    BY <1>1, <1>5
  <2>3. graphs' \in SUBSET Seq(Op) /\ alive' \in SUBSET Streams
    BY <1>1, <1>4, <1>5 DEF CInv, CaptureSound, CaptureTypeOK
  <2>4. QED
    BY <1>6, <2>1, <2>2, <2>3 DEF CaptureTypeOK
<1>10. LevelsSound'
  BY <1>3, <1>4, <1>5, <1>6, EmptyBelow DEF CInv, CaptureSound, LevelsSound
<1>11. SessionsThere'
  BY <1>6, <1>7, <1>8 DEF CInv, CaptureSound, SessionsThere
<1>12. FrontsBelow'
  BY <1>6, <1>7 DEF CInv, FrontsBelow
<1>13. MarksBelow'
  BY <1>6, <1>8 DEF CInv, MarksBelow
<1>14. QED
  BY <1>9, <1>10, <1>11, <1>12, <1>13 DEF CInv, CaptureSound

LEMMA RecordEventInv ==
  ASSUME CInv, NEW s \in Streams, NEW e \in Events, RecordEvent(e, s)
  PROVE  CInv'
<1> DEFINE k == capture[s]
           b == IF k = 0 THEN 0 ELSE NextLevel(sessions[k], s)
           F == IF k = 0 THEN {} ELSE front[s]
<1>1. /\ sessions \in [Sessions -> Session] /\ front \in [Streams -> SUBSET Nat]
      /\ capture \in [Streams -> Sessions \cup {0}] /\ mark \in [Events -> SUBSET Nat] /\ 0 \notin Sessions
      /\ captured \in [Events -> [session : Sessions \cup {0}, bound : Nat]]
  BY CaptureAssumption DEF CInv, CaptureSound, CaptureTypeOK
<1>2. k \in Sessions \cup {0} /\ b \in Nat /\ F \in SUBSET Nat
  BY <1>1, NextLevelFacts
<1>3. k # 0 => sessions[k].state = "active" /\ Recorded(sessions[k], F, b)
  BY RecordingSession
<1>4. /\ captured' = [captured EXCEPT ![e] = [session |-> k, bound |-> b]] /\ mark' = [mark EXCEPT ![e] = F]
      /\ UNCHANGED <<capture, alive, sessions, graphs, front>>
  BY DEF RecordEvent
<1> HIDE DEF k, b, F
<1>5. /\ captured' \in [Events -> [session : Sessions \cup {0}, bound : Nat]] /\ mark' \in [Events -> SUBSET Nat]
      /\ captured'[e].session = k /\ captured'[e].bound = b /\ mark'[e] = F
      /\ \A f \in Events \ {e} : captured'[f] = captured[f] /\ mark'[f] = mark[f]
  BY <1>1, <1>2, <1>4
<1>6. CaptureTypeOK' /\ LevelsSound' /\ FrontsBelow'
  BY <1>4, <1>5 DEF CInv, CaptureSound, CaptureTypeOK, LevelsSound, FrontsBelow
<1>7. SessionsThere'
  BY <1>3, <1>4, <1>5 DEF CInv, CaptureSound, SessionsThere
<1>8. MarksBelow'
  BY <1>3, <1>4, <1>5 DEF CInv, MarksBelow
<1>9. QED
  BY <1>6, <1>7, <1>8 DEF CInv, CaptureSound

LEMMA DestroyStreamInv ==
  ASSUME CInv, NEW s \in Streams, DestroyStream(s)
  PROVE  CInv'
<1>1. /\ capture \in [Streams -> Sessions \cup {0}] /\ front \in [Streams -> SUBSET Nat]
  BY DEF CInv, CaptureSound, CaptureTypeOK
<1>2. /\ capture' = [capture EXCEPT ![s] = 0] /\ front' = [front EXCEPT ![s] = {}] /\ alive' = alive \ {s}
      /\ UNCHANGED <<sessions, captured, graphs, mark>>
  BY DEF DestroyStream
<1>3. /\ capture' \in [Streams -> Sessions \cup {0}] /\ front' \in [Streams -> SUBSET Nat]
      /\ capture'[s] = 0 /\ front'[s] = {}
      /\ \A t \in Streams \ {s} : capture'[t] = capture[t] /\ front'[t] = front[t]
  BY <1>1, <1>2
<1>4. CaptureTypeOK' /\ LevelsSound' /\ MarksBelow'
  BY <1>2, <1>3 DEF CInv, CaptureSound, CaptureTypeOK, LevelsSound, MarksBelow
<1>5. SessionsThere' /\ FrontsBelow'
  BY <1>2, <1>3 DEF CInv, CaptureSound, SessionsThere, FrontsBelow
<1>6. QED
  BY <1>4, <1>5 DEF CInv, CaptureSound

LEMMA CaptureNextInv == CInv /\ [CaptureNext]_cvars => CInv'
<1> SUFFICES ASSUME CInv, [CaptureNext]_cvars PROVE CInv'
  OBVIOUS
<1>1. CASE UNCHANGED cvars
  BY <1>1 DEF cvars, CInv, CaptureSound, CaptureTypeOK, LevelsSound, SessionsThere, FrontsBelow, MarksBelow
<1>2. CASE CaptureNext
  BY <1>2, BeginCaptureInv, EndCaptureInv, CaptureOpInv, LaunchIntoCaptureInv, RecordEventInv, StreamWaitEventInv,
     DestroyStreamInv DEF CaptureNext
<1>3. QED
  BY <1>1, <1>2
-----------------------------------------------------------------------------
(* capture_next_level, capture_push, graph_launch, stream_wait_event and   *)
(* end_capture, whatever program calls them: an operation of a capture or  *)
(* of a graph is on a higher level than everything CUDA orders before it,  *)
(* and every session a stream or an event names is there.                  *)
THEOREM CaptureIsSound == CaptureSpec => []CaptureSound
<1>1. CaptureInit => CInv
  BY CaptureInitInv
<1>2. CInv /\ [CaptureNext]_cvars => CInv'
  BY CaptureNextInv
<1>3. CInv => CaptureSound
  BY DEF CInv
<1>4. QED
  BY <1>1, <1>2, <1>3, PTL DEF CaptureSpec
-----------------------------------------------------------------------------
(* Collectives: what is on the list and in the calls. *)

ProperPosts == {p \in Post : Proper(p)}
Pending == ToSet(pending)

(* What is left of a call: the posts s to make and the parked ones l.      *)
InCall(P, t, s, l) ==
  /\ \A p \in ToSet(s) \cup {q.post : q \in ToSet(l)} : p \in PostsOf(P, t)
  /\ Differ(s) /\ \A p \in ToSet(s) : \A q \in ToSet(l) : ~Same(p, q.post)
  /\ \A j, k \in DOMAIN l : Same(l[j].post, l[k].post) => j = k
  /\ SinglePosts(P) => Len(s) + Len(l) <= 1
Threading == \A t \in Threads : at[t] >= 1 /\ InCall(prog, t, todo[t], parked[t])

Numbers == \A q \in Pending \cup UNION Sets : q.n <= posted[Class(q.post)]
PendingDiffer == \A i, j \in DOMAIN pending : pending[i] = pending[j] => i = j

(* Order *)
CanMeet(Q, p) == \A r \in Partners(p) : \E q \in Q : Serves(q.post, p, r)
NoneMeets == \A q \in Pending : ~CanMeet(Pending, q.post)
InLine == \A i, j \in DOMAIN pending :
            i < j /\ Class(pending[i].post) = Class(pending[j].post) => pending[i].n < pending[j].n
Stuck == \E t \in Threads : /\ running[t] = {} /\ todo[t] = <<>> /\ parked[t] # <<>> /\ Still(t)
                            /\ \A u \in Threads \ {t} : prog[u] = <<>>
Chan(p) == IF p.kind \in Collectives THEN <<p.kind>>
           ELSE IF p.kind = "Send" THEN <<p.rank, p.peer>> ELSE <<p.peer, p.rank>>
Chans == {Chan(p) : p \in ProperPosts}
Tallied(F) ==
  \A p \in ProperPosts :
    /\ F[Chan(p)] <= posted[Class(p)]
    /\ {q.n : q \in {x \in Pending : Class(x.post) = Class(p)}} = (F[Chan(p)] + 1)..posted[Class(p)]
Lined == /\ \E F \in [Chans -> Nat] : Tallied(F)
         /\ NoneMeets /\ (InLine \/ Stuck) /\ MatchedInOrder

PostInv ==
  /\ NcclTypeOK /\ prog \in Programs /\ (\A q \in Pending : q.post \in ProperPosts)
  /\ Threading /\ Numbers /\ PendingDiffer
  /\ EachOnce /\ NoneLost /\ NoOrphans
NcclInv == PostInv /\ (OneAtATime => Lined)
-----------------------------------------------------------------------------
(* Lists *)

LEMMA WithoutView ==
  ASSUME NEW S, NEW L \in Seq(S), NEW I, NEW W, W = Without(L, I)
  PROVE  /\ W \in Seq(S)
         /\ \E f \in [DOMAIN W -> DOMAIN L \ I] :
              /\ \A k \in DOMAIN W : W[k] = L[f[k]]
              /\ \A j, k \in DOMAIN W : j < k => f[j] < f[k]
              /\ \A i \in DOMAIN L \ I : \E k \in DOMAIN W : f[k] = i
<1> DEFINE keep == DOMAIN L \ I
           n == Cardinality(keep)
           upTo(i) == {j \in keep : j <= i}
           place == [i \in keep |-> Cardinality(upTo(i))]
           f == [k \in 1..n |-> CHOOSE i \in keep : place[i] = k]
<1>1. DOMAIN L = 1..Len(L) /\ Len(L) \in Nat /\ \A i \in DOMAIN L : L[i] \in S
  OBVIOUS
<1>2. IsFiniteSet(keep) /\ n \in Nat
  <2>1. IsFiniteSet(1..Len(L))
    BY <1>1, FS_Interval
  <2>2. keep \in SUBSET (1..Len(L))
    BY <1>1
  <2>3. IsFiniteSet(keep)
    BY <2>1, <2>2, FS_Subset
  <2> QED BY <2>3, FS_CardinalityType
<1>3. ASSUME NEW i \in keep
      PROVE  IsFiniteSet(upTo(i)) /\ Cardinality(upTo(i)) \in 1..n
  <2>1. IsFiniteSet(upTo(i)) /\ Cardinality(upTo(i)) <= n
    BY <1>2, FS_Subset
  <2>2. Cardinality(upTo(i)) \in Nat
    BY <2>1, FS_CardinalityType
  <2>3. i \in upTo(i)
    BY <1>1
  <2>4. Cardinality(upTo(i)) # 0
    BY <2>1, <2>3, FS_EmptySet
  <2> QED BY <1>2, <2>1, <2>2, <2>4
<1>4. ASSUME NEW i \in keep, NEW j \in keep, i < j
      PROVE  place[i] < place[j]
  <2>1. upTo(i) \in SUBSET upTo(j) /\ j \in upTo(j) /\ j \notin upTo(i)
    <3>1. i \in Nat /\ j \in Nat /\ \A x \in keep : x \in Nat
      BY <1>1
    <3> QED BY <1>4, <3>1
  <2>2. /\ Cardinality(upTo(i)) <= Cardinality(upTo(j))
        /\ Cardinality(upTo(i)) = Cardinality(upTo(j)) => upTo(j) = upTo(i)
    BY <1>3, <2>1, FS_Subset
  <2>3. place[i] = Cardinality(upTo(i)) /\ place[j] = Cardinality(upTo(j))
    <3> HIDE DEF upTo, keep
    <3> QED OBVIOUS
  <2>4. Cardinality(upTo(i)) \in Nat /\ Cardinality(upTo(j)) \in Nat
    <3> HIDE DEF upTo, keep, n
    <3> QED BY <1>2, <1>3
  <2> HIDE DEF upTo, place
  <2> QED BY <2>1, <2>2, <2>3, <2>4
<1>5. place \in Surjection(keep, 1..n)
  <2>1. place \in [keep -> 1..n]
    <3> HIDE DEF upTo, keep, n
    <3> QED BY <1>3
  <2>2. \A i, j \in keep : place[i] = place[j] => i = j
    <3>1. \A i \in keep : i \in Nat
      BY <1>1
    <3> HIDE DEF place, keep, n
    <3>2. \A i \in keep : place[i] \in 1..n
      BY <2>1
    <3>3. SUFFICES ASSUME NEW i \in keep, NEW j \in keep, i # j PROVE place[i] # place[j]
      OBVIOUS
    <3>4. i < j \/ j < i
      BY <3>1, <3>3
    <3>5. place[i] < place[j] \/ place[j] < place[i]
      BY <1>4, <3>4
    <3> QED BY <1>2, <3>2, <3>5
  <2>3. place \in Injection(keep, 1..n)
    BY <2>1, <2>2 DEF Injection, IsInjective
  <2>4. IsFiniteSet(1..n) /\ Cardinality(1..n) = n
    BY <1>2, FS_Interval
  <2> QED BY <2>3, <2>4, FS_Injection
<1>6. \A k \in 1..n : \E i \in keep : place[i] = k
  BY <1>5 DEF Surjection
<1>7. f \in [1..n -> keep] /\ \A k \in 1..n : place[f[k]] = k
  BY <1>6
<1>8. W = [k \in 1..n |-> L[f[k]]]
  BY DEF Without
<1> HIDE DEF keep, n, place, f
<1>9. DOMAIN W = 1..n /\ W \in Seq(S)
  <2>1. W \in [1..n -> S]
    BY <1>1, <1>7, <1>8 DEF keep
  <2> QED BY <1>2, <2>1
<1>10. \A i \in keep : i \in Nat
  BY <1>1 DEF keep
<1>11. \A j, k \in 1..n : j < k => f[j] < f[k]
  <2> SUFFICES ASSUME NEW j \in 1..n, NEW k \in 1..n, j < k, ~(f[j] < f[k]) PROVE FALSE
    OBVIOUS
  <2>1. f[j] \in keep /\ f[k] \in keep /\ place[f[j]] = j /\ place[f[k]] = k
    BY <1>7
  <2>2. f[k] = f[j] \/ f[k] < f[j]
    BY <1>10, <2>1
  <2> QED BY <1>2, <1>4, <2>1, <2>2
<1>12. \A i \in keep : \E k \in 1..n : f[k] = i
  <2> SUFFICES ASSUME NEW i \in keep PROVE \E k \in 1..n : f[k] = i
    OBVIOUS
  <2>1. place[i] \in 1..n
    BY <1>5 DEF Surjection
  <2>2. f[place[i]] \in keep /\ place[f[place[i]]] = place[i]
    BY <1>7, <2>1
  <2>3. ~(f[place[i]] < i) /\ ~(i < f[place[i]])
    BY <1>2, <1>4, <2>1, <2>2
  <2> QED BY <1>10, <2>1, <2>2, <2>3
<1> QED BY <1>7, <1>8, <1>9, <1>11, <1>12 DEF keep

LEMMA WithoutSet ==
  ASSUME NEW S, NEW L \in Seq(S), NEW I
  PROVE  /\ Without(L, I) \in Seq(S)
         /\ ToSet(Without(L, I)) = {L[i] : i \in DOMAIN L \ I}
         /\ (\A i, j \in DOMAIN L : L[i] = L[j] => i = j)
            => \A i, j \in DOMAIN Without(L, I) : Without(L, I)[i] = Without(L, I)[j] => i = j
<1> DEFINE W == Without(L, I)
<1> HIDE DEF W
<1>1. W \in Seq(S)
  BY WithoutView DEF W
<1>2. PICK f \in [DOMAIN W -> DOMAIN L \ I] :
             /\ \A k \in DOMAIN W : W[k] = L[f[k]]
             /\ \A j, k \in DOMAIN W : j < k => f[j] < f[k]
             /\ \A i \in DOMAIN L \ I : \E k \in DOMAIN W : f[k] = i
  BY WithoutView DEF W
<1>3. ToSet(W) = {L[i] : i \in DOMAIN L \ I}
  BY <1>2 DEF ToSet
<1>4. ASSUME \A i, j \in DOMAIN L : L[i] = L[j] => i = j, NEW i \in DOMAIN W, NEW j \in DOMAIN W, W[i] = W[j]
      PROVE  i = j
  <2>1. f[i] = f[j] /\ f[i] \in Nat /\ f[j] \in Nat
    BY <1>2, <1>4
  <2>2. i \in Nat /\ j \in Nat
    BY <1>1
  <2> QED BY <1>2, <2>1, <2>2
<1> QED BY <1>1, <1>3, <1>4 DEF W

LEMMA EarliestNat ==
  ASSUME NEW T \in SUBSET Nat, T # {}
  PROVE  \E x \in T : \A y \in T : x <= y
<1> DEFINE Less == {ss \in Nat \X Nat : ss[1] < ss[2]}
<1>1. IsWellFoundedOn(Less, Nat)
  BY NatLessThanWellFounded DEF OpToRel
<1> HIDE DEF Less
<1>2. PICK x \in T : \A y \in T : ~(<<y, x>> \in Less)
  BY <1>1, WFMin
<1>3. ASSUME NEW y \in T PROVE x <= y
  <2>1. <<y, x>> \in Nat \X Nat /\ ~(<<y, x>> \in Less) /\ x \in Nat /\ y \in Nat
    BY <1>2
  <2>2. ~(y < x)
    BY <2>1 DEF Less
  <2> QED BY <2>1, <2>2
<1> QED BY <1>3

LEMMA FirstExists ==
  ASSUME NEW L \in Seq(Numbered), NEW p, NEW r, NEW j \in DOMAIN L, Serves(L[j].post, p, r)
  PROVE  \E i \in DOMAIN L : FirstServing(L, p, r) = {i} /\ Serves(L[i].post, p, r) /\ i <= j
<1> DEFINE T == {i \in DOMAIN L : Serves(L[i].post, p, r)}
<1>1. T \in SUBSET Nat /\ j \in T
  OBVIOUS
<1>2. PICK i \in T : \A k \in T : i <= k
  BY <1>1, EarliestNat
<1>3. \A k \in 1..(i - 1) : k \in DOMAIN L /\ ~(i <= k)
  BY <1>2
<1>4. i \in FirstServing(L, p, r)
  BY <1>2, <1>3 DEF FirstServing
<1>5. ASSUME NEW k \in FirstServing(L, p, r) PROVE k = i
  <2>1. k \in T /\ \A m \in 1..(k - 1) : m \notin T
    BY DEF FirstServing
  <2>2. i <= k /\ i \in Nat /\ k \in Nat /\ i >= 1
    BY <1>1, <1>2, <2>1
  <2>3. ~(i < k)
    BY <1>2, <2>1, <2>2
  <2> QED BY <2>2, <2>3
<1> QED BY <1>1, <1>2, <1>4, <1>5

LEMMA ServingFirst ==
  ASSUME NEW L \in Seq(Numbered), NEW p, NEW r, FirstServing(L, p, r) # {}
  PROVE  \E i \in DOMAIN L : FirstServing(L, p, r) = {i} /\ Serves(L[i].post, p, r)
<1>1. PICK j \in FirstServing(L, p, r) : TRUE
  OBVIOUS
<1>2. j \in DOMAIN L /\ Serves(L[j].post, p, r)
  BY <1>1 DEF FirstServing
<1> QED BY <1>2, FirstExists

(* What is on a list can complete a set of p, wherever it stands.          *)
LEMMA CompletesMeets ==
  ASSUME NEW L \in Seq(Numbered), NEW p
  PROVE  Completes(L, p) <=> CanMeet(ToSet(L), p)
<1>1. ASSUME NEW r, FirstServing(L, p, r) # {} PROVE \E q \in ToSet(L) : Serves(q.post, p, r)
  BY <1>1, ServingFirst DEF ToSet
<1>2. ASSUME NEW r, NEW q \in ToSet(L), Serves(q.post, p, r) PROVE FirstServing(L, p, r) # {}
  <2>1. PICK j \in DOMAIN L : q = L[j]
    BY DEF ToSet
  <2>2. PICK i \in DOMAIN L : FirstServing(L, p, r) = {i}
    BY <1>2, <2>1, FirstExists
  <2> QED BY <2>2
<1> QED BY <1>1, <1>2 DEF Completes, CanMeet

-----------------------------------------------------------------------------
(* Sets *)

LEMMA ServesFacts ==
  ASSUME NEW p \in ProperPosts, NEW q \in ProperPosts, NEW r, Serves(q, p, r)
  PROVE  /\ q.rank = r /\ (r \in Partners(p) => Chan(q) = Chan(p))
         /\ p.kind \in Collectives => q.kind = p.kind
         /\ p.kind = "Send" => q.kind = "Recv" /\ q.peer = p.rank
         /\ p.kind = "Recv" => q.kind = "Send" /\ q.peer = p.rank
         /\ r \in Partners(p) => q.kind \in Collectives \/ (q.rank = p.peer)
         /\ r \in Partners(p) => Serves(p, q, p.rank) /\ p.rank \in Partners(q)
         /\ r \in Partners(p) => Class(q) # Class(p)
<1>1. p.kind \in Kinds /\ q.kind \in Kinds /\ p.rank \in Ranks /\ q.rank = r
  BY DEF ProperPosts, Post, Serves
<1>2. CASE p.kind \in Collectives
  <2>1. q.kind = p.kind
    BY <1>2 DEF Serves
  <2>2. r \in Partners(p) => r # p.rank
    BY <1>2 DEF Partners
  <2> QED BY <1>1, <1>2, <2>1, <2>2 DEF Serves, Chan, Partners, Class, Collectives
<1>3. CASE p.kind \notin Collectives
  <2>1. /\ p.kind \in {"Send", "Recv"} /\ q.peer = p.rank /\ q.kind \notin Collectives
        /\ q.kind = IF p.kind = "Send" THEN "Recv" ELSE "Send"
    BY <1>1, <1>3 DEF Serves, Kinds, Collectives
  <2>2. r \in Partners(p) => r = p.peer
    BY <1>3 DEF Partners
  <2>3. r \in Partners(p) => Chan(q) = Chan(p)
    BY <1>1, <1>3, <2>1, <2>2 DEF Chan
  <2>4. r \in Partners(p) => Serves(p, q, p.rank) /\ p.rank \in Partners(q)
    BY <1>1, <1>3, <2>1, <2>2 DEF Serves, Partners
  <2>5. r \in Partners(p) => Class(q) # Class(p)
    BY <2>1 DEF Class
  <2> QED BY <1>1, <1>3, <2>1, <2>2, <2>3, <2>4, <2>5
<1> QED BY <1>2, <1>3

(* The classes that meet p's are those of its partners.                    *)
LEMMA ChanClasses ==
  ASSUME NEW p \in ProperPosts, NEW o \in ProperPosts, Chan(o) = Chan(p), Class(o) # Class(p)
  PROVE  /\ o.rank \in Partners(p)
         /\ \A q \in ProperPosts : Serves(q, p, o.rank) <=> Class(q) = Class(o)
<1>1. p.kind \in Collectives <=> o.kind \in Collectives
  BY DEF ProperPosts, Post, Proper, Chan, Class, Kinds, Collectives
<1>2. CASE p.kind \in Collectives
  <2>1. o.kind = p.kind /\ o.rank # p.rank
    BY <1>1, <1>2 DEF ProperPosts, Post, Proper, Chan, Class, Kinds, Collectives
  <2> QED BY <1>1, <1>2, <2>1 DEF ProperPosts, Post, Proper, Chan, Class, Partners, Serves
<1>3. CASE p.kind \notin Collectives
  <2>1. p.kind \in {"Send", "Recv"} /\ o.kind \in {"Send", "Recv"}
    BY <1>1, <1>3 DEF ProperPosts, Post, Kinds
  <2>2. p.kind # o.kind /\ o.rank = p.peer /\ o.peer = p.rank
    BY <1>1, <1>3, <2>1 DEF ProperPosts, Post, Chan, Class
  <2> QED BY <1>1, <1>3, <2>1, <2>2 DEF ProperPosts, Post, Class, Partners, Serves, Collectives
<1> QED BY <1>2, <1>3

LEMMA SameClassMeets ==
  ASSUME NEW p \in ProperPosts, NEW q \in ProperPosts, Class(p) = Class(q), NEW Q, CanMeet(Q, p)
  PROVE  CanMeet(Q, q)
<1>1. p.kind = q.kind /\ p.rank = q.rank /\ p.peer = q.peer
  BY DEF Class
<1> QED BY <1>1 DEF CanMeet, Partners, Serves

(* A set that is taken.                                                    *)
LEMMA TakenFacts ==
  ASSUME NEW L \in Seq(Numbered), \A q \in ToSet(L) : q.post \in ProperPosts,
         NEW np \in Numbered, np.post \in ProperPosts, Completes(L, np.post)
  PROVE  /\ TakenSet(L, np) \in SUBSET Numbered /\ TakenSet(L, np) \subseteq ToSet(L) \cup {np}
         /\ np \in TakenSet(L, np) /\ WholeSet(TakenSet(L, np))
         /\ RestOf(L, np) \in Seq(Numbered)
         /\ ToSet(RestOf(L, np)) = {L[i] : i \in DOMAIN L \ Chosen(L, np.post)}
         /\ ToSet(L) \subseteq ToSet(RestOf(L, np)) \cup TakenSet(L, np)
         /\ (\A i, j \in DOMAIN L : L[i] = L[j] => i = j)
            => /\ \A i, j \in DOMAIN RestOf(L, np) : RestOf(L, np)[i] = RestOf(L, np)[j] => i = j
               /\ ToSet(RestOf(L, np)) \cap TakenSet(L, np) \subseteq {np}
<1> DEFINE p == np.post
<1>1. \A i \in DOMAIN L : L[i] \in Numbered /\ L[i].post \in ProperPosts
  BY DEF ToSet
<1>2. Chosen(L, p) \subseteq DOMAIN L
  BY DEF Chosen, FirstServing
<1>3. TakenSet(L, np) \in SUBSET Numbered /\ TakenSet(L, np) \subseteq ToSet(L) \cup {np} /\ np \in TakenSet(L, np)
  BY <1>1, <1>2 DEF TakenSet, ToSet
<1>4. WholeSet(TakenSet(L, np))
  <2>1. ASSUME NEW r \in Partners(p)
        PROVE  \E i \in DOMAIN L : FirstServing(L, p, r) = {i} /\ Serves(L[i].post, p, r)
    BY <2>1, ServingFirst DEF Completes
  <2>2. \A q \in TakenSet(L, np) \ {np} :
          \E r \in Partners(p) : \E i \in DOMAIN L : q = L[i] /\ FirstServing(L, p, r) = {i} /\ Serves(q.post, p, r)
    <3> SUFFICES ASSUME NEW i \in Chosen(L, p)
                 PROVE \E r \in Partners(p) : FirstServing(L, p, r) = {i} /\ Serves(L[i].post, p, r)
      BY <1>2 DEF TakenSet
    <3>1. PICK r \in Partners(p) : i \in FirstServing(L, p, r)
      BY DEF Chosen
    <3> QED BY <2>1, <3>1
  <2>3. \A r \in Partners(p) : \E q \in TakenSet(L, np) : Serves(q.post, p, r)
    BY <2>1 DEF TakenSet, Chosen
  <2>4. p.kind \in Kinds /\ p.rank \in Ranks /\ p.peer \in Ranks
    BY DEF ProperPosts, Post
  <2>5. CASE p.kind \in Collectives
    <3>1. Partners(p) = Ranks \ {p.rank}
      BY <2>5 DEF Partners
    <3>2. \A q \in TakenSet(L, np) : q.post.kind = p.kind
      BY <2>2, <2>5 DEF Serves
    <3>3. {x \in TakenSet(L, np) : x.post.rank = p.rank} = {np}
      <4>1. \A q \in TakenSet(L, np) \ {np} : q.post.rank # p.rank
        BY <2>2, <3>1 DEF Serves
      <4> QED BY <1>3, <4>1
    <3>4. ASSUME NEW r \in Ranks \ {p.rank}
          PROVE  \E q \in TakenSet(L, np) : {x \in TakenSet(L, np) : x.post.rank = r} = {q}
      <4>1. PICK q \in TakenSet(L, np) : Serves(q.post, p, r)
        BY <2>3, <3>1
      <4>2. q.post.rank = r
        BY <4>1 DEF Serves
      <4>3. ASSUME NEW x \in TakenSet(L, np), x.post.rank = r PROVE x = q
        <5>1. x # np /\ q # np
          BY <3>4, <4>2, <4>3
        <5>2. PICK a \in Partners(p), i \in DOMAIN L : x = L[i] /\ FirstServing(L, p, a) = {i} /\ Serves(x.post, p, a)
          BY <2>2, <5>1
        <5>3. PICK b \in Partners(p), j \in DOMAIN L : q = L[j] /\ FirstServing(L, p, b) = {j} /\ Serves(q.post, p, b)
          BY <2>2, <5>1
        <5>4. a = r /\ b = r
          BY <4>2, <4>3, <5>2, <5>3 DEF Serves
        <5> QED BY <5>2, <5>3, <5>4
      <4> QED BY <4>1, <4>2, <4>3
    <3> QED BY <1>3, <2>4, <2>5, <3>2, <3>3, <3>4 DEF WholeSet
  <2>6. CASE p.kind \notin Collectives
    <3>1. Partners(p) = {p.peer} /\ p.kind \in {"Send", "Recv"}
      BY <2>4, <2>6 DEF Partners, Kinds
    <3>2. PICK i \in DOMAIN L : FirstServing(L, p, p.peer) = {i} /\ Serves(L[i].post, p, p.peer)
      BY <2>1, <3>1
    <3>3. TakenSet(L, np) = {L[i], np}
      BY <3>1, <3>2 DEF TakenSet, Chosen
    <3>4. /\ L[i].post.rank = p.peer /\ L[i].post.peer = p.rank
          /\ L[i].post.kind = IF p.kind = "Send" THEN "Recv" ELSE "Send"
      BY <2>6, <3>2 DEF Serves
    <3>5. CASE p.kind = "Send"
      BY <3>3, <3>4, <3>5 DEF WholeSet
    <3>6. CASE p.kind = "Recv"
      <4>1. TakenSet(L, np) = {L[i], np} /\ L[i].post.kind = "Send" /\ L[i].post.peer = np.post.rank
            /\ np.post.peer = L[i].post.rank
        BY <3>3, <3>4, <3>6
      <4> QED BY <3>6, <4>1 DEF WholeSet
    <3> QED BY <3>1, <3>5, <3>6
  <2> QED BY <2>5, <2>6
<1>5. RestOf(L, np) \in Seq(Numbered) /\ ToSet(RestOf(L, np)) = {L[i] : i \in DOMAIN L \ Chosen(L, p)}
  BY WithoutSet DEF RestOf
<1>6. ToSet(L) \subseteq ToSet(RestOf(L, np)) \cup TakenSet(L, np)
  BY <1>5 DEF TakenSet, ToSet
<1>7. ASSUME \A i, j \in DOMAIN L : L[i] = L[j] => i = j
      PROVE  /\ \A i, j \in DOMAIN RestOf(L, np) : RestOf(L, np)[i] = RestOf(L, np)[j] => i = j
             /\ ToSet(RestOf(L, np)) \cap TakenSet(L, np) \subseteq {np}
  <2>1. \A i, j \in DOMAIN RestOf(L, np) : RestOf(L, np)[i] = RestOf(L, np)[j] => i = j
    BY <1>7, WithoutSet DEF RestOf
  <2>2. ToSet(RestOf(L, np)) \cap TakenSet(L, np) \subseteq {np}
    BY <1>2, <1>5, <1>7 DEF TakenSet
  <2> QED BY <2>1, <2>2
<1> QED BY <1>3, <1>4, <1>5, <1>6, <1>7

-----------------------------------------------------------------------------
(* Calls *)

LEMMA Programmed ==
  ASSUME NEW P \in Programs, NEW t \in Threads
  PROVE  /\ P[t] \in Seq(Seq(Post)) /\ PostsOf(P, t) \subseteq ProperPosts
<1>1. P[t] \in Seq(Seq(Post)) /\ \A c \in DOMAIN P[t] : \A k \in DOMAIN P[t][c] : Proper(P[t][c][k])
  BY NcclAssumption
<1>2. \A c \in DOMAIN P[t] : P[t][c] \in Seq(Post)
  BY <1>1
<1>3. \A c \in DOMAIN P[t] : \A k \in DOMAIN P[t][c] : P[t][c][k] \in Post
  BY <1>2
<1> QED BY <1>1, <1>3 DEF PostsOf, ToSet, ProperPosts

LEMMA MakeOne ==
  ASSUME NEW P, NEW t, NEW s \in Seq(Post), NEW l \in Seq(Numbered), InCall(P, t, s, l), s # <<>>,
         NEW np \in Numbered, np.post = Head(s)
  PROVE  /\ Head(s) \in PostsOf(P, t) /\ InCall(P, t, Tail(s), l)
         /\ InCall(P, t, Tail(s), Append(l, np))
         /\ SinglePosts(P) => l = <<>> /\ Tail(s) = <<>>
<1>1. /\ Len(s) \in Nat /\ Len(s) >= 1 /\ Tail(s) \in Seq(Post) /\ Len(Tail(s)) = Len(s) - 1
      /\ Head(s) = s[1] /\ 1 \in DOMAIN s
      /\ \A i \in DOMAIN Tail(s) : i + 1 \in DOMAIN s /\ Tail(s)[i] = s[i + 1] /\ i + 1 # 1
  OBVIOUS
<1>2. /\ Append(l, np) \in Seq(Numbered) /\ Len(l) \in Nat /\ Len(Append(l, np)) = Len(l) + 1
      /\ Append(l, np)[Len(l) + 1] = np
      /\ \A i \in DOMAIN l : Append(l, np)[i] = l[i]
      /\ DOMAIN Append(l, np) = DOMAIN l \cup {Len(l) + 1}
  OBVIOUS
<1>3. ToSet(Tail(s)) \subseteq ToSet(s) /\ Head(s) \in ToSet(s)
  BY <1>1 DEF ToSet
<1>4. ToSet(Append(l, np)) = ToSet(l) \cup {np}
  BY <1>2 DEF ToSet
<1>5. Differ(Tail(s)) /\ \A p \in ToSet(Tail(s)) : ~Same(p, Head(s))
  <2>1. ASSUME NEW j \in DOMAIN Tail(s), NEW k \in DOMAIN Tail(s), Same(Tail(s)[j], Tail(s)[k]) PROVE j = k
    <3>1. j + 1 = k + 1 /\ j \in Nat /\ k \in Nat
      BY <1>1, <2>1 DEF InCall, Differ
    <3> QED BY <3>1
  <2>2. ASSUME NEW j \in DOMAIN Tail(s) PROVE ~Same(Tail(s)[j], Head(s))
    BY <1>1 DEF InCall, Differ
  <2> QED BY <2>1, <2>2 DEF Differ, ToSet
<1>6. SinglePosts(P) => Len(s) + Len(l) <= 1
  BY DEF InCall
<1>7. InCall(P, t, Tail(s), l)
  BY <1>1, <1>2, <1>3, <1>5, <1>6 DEF InCall
<1>8. \A j, k \in DOMAIN Append(l, np) : Same(Append(l, np)[j].post, Append(l, np)[k].post) => j = k
  <2>1. \A j \in DOMAIN l : ~Same(l[j].post, np.post) /\ ~Same(np.post, l[j].post)
    <3>1. \A q \in ToSet(l) : ~Same(Head(s), q.post)
      BY <1>3 DEF InCall
    <3> QED BY <3>1 DEF ToSet, Same
  <2> QED BY <1>2, <2>1 DEF InCall
<1>9. InCall(P, t, Tail(s), Append(l, np))
  <2>1. \A p \in ToSet(Tail(s)) \cup {q.post : q \in ToSet(Append(l, np))} : p \in PostsOf(P, t)
    BY <1>3, <1>4 DEF InCall
  <2>2. \A p \in ToSet(Tail(s)) : \A q \in ToSet(Append(l, np)) : ~Same(p, q.post)
    BY <1>3, <1>4, <1>5 DEF InCall
  <2>3. SinglePosts(P) => Len(Tail(s)) + Len(Append(l, np)) <= 1
    BY <1>1, <1>2, <1>6
  <2> QED BY <1>5, <1>8, <2>1, <2>2, <2>3 DEF InCall
<1>10. SinglePosts(P) => l = <<>> /\ Tail(s) = <<>>
  BY <1>1, <1>2, <1>6
<1> QED BY <1>3, <1>7, <1>9, <1>10 DEF InCall

LEMMA WaitOne ==
  ASSUME NEW P, NEW t, NEW s \in Seq(Post), NEW l \in Seq(Numbered), InCall(P, t, s, l), l # <<>>
  PROVE  /\ InCall(P, t, s, Tail(l))
         /\ Head(l) \in ToSet(l) /\ ToSet(l) = ToSet(Tail(l)) \cup {Head(l)}
         /\ \A q \in ToSet(Tail(l)) : ~Same(q.post, Head(l).post)
<1>1. /\ Len(l) \in Nat /\ Len(l) >= 1 /\ Tail(l) \in Seq(Numbered) /\ Len(Tail(l)) = Len(l) - 1
      /\ Head(l) = l[1] /\ 1 \in DOMAIN l /\ \A i \in DOMAIN l : i = 1 \/ i - 1 \in DOMAIN Tail(l)
      /\ \A i \in DOMAIN Tail(l) : i \in Nat /\ i + 1 \in DOMAIN l /\ Tail(l)[i] = l[i + 1] /\ i + 1 # 1
  OBVIOUS
<1>2. Len(s) \in Nat
  OBVIOUS
<1>3. ToSet(l) = ToSet(Tail(l)) \cup {Head(l)}
  <2>1. \A i \in DOMAIN l : l[i] = Head(l) \/ \E j \in DOMAIN Tail(l) : l[i] = Tail(l)[j]
    <3>1. \A i \in DOMAIN l : i \in Nat /\ (i - 1) + 1 = i
      OBVIOUS
    <3> QED BY <1>1, <3>1
  <2>2. \A j \in DOMAIN Tail(l) : \E i \in DOMAIN l : l[i] = Tail(l)[j]
    BY <1>1
  <2>3. ToSet(l) \subseteq ToSet(Tail(l)) \cup {Head(l)}
    <3> SUFFICES ASSUME NEW i \in DOMAIN l PROVE l[i] \in ToSet(Tail(l)) \cup {Head(l)}
      BY DEF ToSet
    <3> QED BY <2>1 DEF ToSet
  <2>4. ToSet(Tail(l)) \subseteq ToSet(l) /\ Head(l) \in ToSet(l)
    BY <1>1 DEF ToSet
  <2> QED BY <2>3, <2>4
<1>4. \A j, k \in DOMAIN Tail(l) : Same(Tail(l)[j].post, Tail(l)[k].post) => j = k
  <2>1. ASSUME NEW j \in DOMAIN Tail(l), NEW k \in DOMAIN Tail(l), Same(Tail(l)[j].post, Tail(l)[k].post)
        PROVE  j = k
    <3>1. j + 1 = k + 1 /\ j \in Nat /\ k \in Nat
      BY <1>1, <2>1 DEF InCall
    <3> QED BY <3>1
  <2> QED BY <2>1
<1>5. \A q \in ToSet(Tail(l)) : ~Same(q.post, Head(l).post)
  BY <1>1 DEF InCall, ToSet
<1> QED BY <1>1, <1>2, <1>3, <1>4, <1>5 DEF InCall

-----------------------------------------------------------------------------
(* Steps: types, sets, and who waits for what *)

LEMMA ThreadTypes ==
  ASSUME NcclTypeOK, NEW t \in Threads
  PROVE  /\ todo[t] \in Seq(Post) /\ parked[t] \in Seq(Numbered) /\ at[t] \in Nat
         /\ running[t] \in SUBSET Numbered
  BY DEF NcclTypeOK

(* park_or_run, for a new post.                                            *)
LEMMA NewPost ==
  ASSUME PostInv, NEW t \in Threads, todo[t] # <<>>, NEW np, np = Number(Head(todo[t]))
  PROVE  /\ np \in Numbered /\ np.post = Head(todo[t]) /\ np.post \in ProperPosts /\ np.post \in PostsOf(prog, t)
         /\ np.n = posted[Class(np.post)] + 1 /\ Class(np.post) \in Kinds \X Ranks \X Ranks
         /\ np \notin Pending \cup UNION Sets
<1>1. todo[t] \in Seq(Post) /\ parked[t] \in Seq(Numbered)
  BY ThreadTypes DEF PostInv
<1>2. Head(todo[t]) \in Post /\ Head(todo[t]) \in ToSet(todo[t])
  BY <1>1 DEF ToSet
<1>3. Head(todo[t]) \in PostsOf(prog, t)
  BY <1>2 DEF PostInv, Threading, InCall
<1>4. Head(todo[t]) \in ProperPosts
  BY <1>3, Programmed DEF PostInv
<1>5. Class(Head(todo[t])) \in Kinds \X Ranks \X Ranks
  BY <1>2 DEF Class, Post
<1>6. posted[Class(Head(todo[t]))] \in Nat
  BY <1>5 DEF PostInv, NcclTypeOK
<1>7. np \in Numbered /\ np.post = Head(todo[t]) /\ np.n = posted[Class(np.post)] + 1
  BY <1>2, <1>6 DEF Number, Numbered
<1>8. np \notin Pending \cup UNION Sets
  BY <1>6, <1>7 DEF PostInv, Numbers
<1> QED BY <1>3, <1>4, <1>5, <1>7, <1>8

LEMMA WithoutPending ==
  ASSUME PostInv, NEW I, NEW L, L = Without(pending, I)
  PROVE  /\ L \in Seq(Numbered) /\ ToSet(L) = {pending[i] : i \in DOMAIN pending \ I}
         /\ \A j, k \in DOMAIN L : L[j] = L[k] => j = k
<1>1. pending \in Seq(Numbered) /\ \A j, k \in DOMAIN pending : pending[j] = pending[k] => j = k
  BY DEF PostInv, NcclTypeOK, PendingDiffer
<1>2. L \in Seq(Numbered) /\ ToSet(L) = {pending[i] : i \in DOMAIN pending \ I}
  BY <1>1, WithoutSet
<1>3. \A j, k \in DOMAIN L : L[j] = L[k] => j = k
  <2>1. PICK f \in [DOMAIN L -> DOMAIN pending \ I] :
               /\ \A k \in DOMAIN L : L[k] = pending[f[k]]
               /\ \A j, k \in DOMAIN L : j < k => f[j] < f[k]
    BY <1>1, WithoutView
  <2>2. DOMAIN L \subseteq Nat /\ DOMAIN pending \subseteq Nat
    BY <1>1, <1>2
  <2> SUFFICES ASSUME NEW j \in DOMAIN L, NEW k \in DOMAIN L, L[j] = L[k], j # k PROVE FALSE
    OBVIOUS
  <2>3. f[j] = f[k] /\ f[j] \in Nat
    BY <1>1, <2>1, <2>2
  <2>4. j < k \/ k < j
    BY <2>2
  <2> QED BY <2>1, <2>3, <2>4
<1> QED BY <1>2, <1>3

(* The list without the post a thread polls for.                           *)
LEMMA PolledList ==
  ASSUME PostInv, NEW i \in DOMAIN pending, NEW L, L = Without(pending, {i})
  PROVE  /\ L \in Seq(Numbered) /\ ToSet(L) = Pending \ {pending[i]}
         /\ \A j, k \in DOMAIN L : L[j] = L[k] => j = k
<1>1. ToSet(L) = {pending[j] : j \in DOMAIN pending \ {i}}
  BY WithoutPending
<1>2. {pending[j] : j \in DOMAIN pending \ {i}} = Pending \ {pending[i]}
  BY DEF Pending, ToSet, PostInv, PendingDiffer
<1> QED BY <1>1, <1>2, WithoutPending

LEMMA AppendSet ==
  ASSUME NEW L \in Seq(Numbered), NEW q \in Numbered
  PROVE  /\ Append(L, q) \in Seq(Numbered) /\ ToSet(Append(L, q)) = ToSet(L) \cup {q}
         /\ DOMAIN Append(L, q) = DOMAIN L \cup {Len(L) + 1} /\ Len(L) \in Nat
         /\ Append(L, q)[Len(L) + 1] = q /\ \A i \in DOMAIN L : i \in Nat /\ i <= Len(L) /\ Append(L, q)[i] = L[i]
         /\ (\A i, j \in DOMAIN L : L[i] = L[j] => i = j) /\ q \notin ToSet(L)
            => \A i, j \in DOMAIN Append(L, q) : Append(L, q)[i] = Append(L, q)[j] => i = j
<1>1. /\ Append(L, q) \in Seq(Numbered) /\ DOMAIN Append(L, q) = DOMAIN L \cup {Len(L) + 1} /\ Len(L) \in Nat
      /\ Append(L, q)[Len(L) + 1] = q /\ \A i \in DOMAIN L : i \in Nat /\ i <= Len(L) /\ Append(L, q)[i] = L[i]
  OBVIOUS
<1>2. ToSet(Append(L, q)) = ToSet(L) \cup {q}
  BY <1>1 DEF ToSet
<1>3. q \notin ToSet(L) => \A i \in DOMAIN L : L[i] # q
  BY DEF ToSet
<1> QED BY <1>1, <1>2, <1>3

(* Taking a set off the list L for a post np that is not on it.            *)
LEMMA Taking ==
  ASSUME PostInv, NEW L \in Seq(Numbered), ToSet(L) \subseteq Pending,
         \A j, k \in DOMAIN L : L[j] = L[k] => j = k,
         NEW np \in Numbered, np.post \in ProperPosts, np \notin ToSet(L), Completes(L, np.post)
  PROVE  /\ TakenSet(L, np) \in SUBSET Numbered /\ TakenSet(L, np) \subseteq ToSet(L) \cup {np}
         /\ np \in TakenSet(L, np) /\ WholeSet(TakenSet(L, np))
         /\ RestOf(L, np) \in Seq(Numbered)
         /\ ToSet(RestOf(L, np)) = ToSet(L) \ TakenSet(L, np)
         /\ \A i, j \in DOMAIN RestOf(L, np) : RestOf(L, np)[i] = RestOf(L, np)[j] => i = j
<1>1. \A q \in ToSet(L) : q.post \in ProperPosts
  BY DEF PostInv
<1>2. ToSet(RestOf(L, np)) \subseteq ToSet(L)
  <2>1. ToSet(RestOf(L, np)) = {L[i] : i \in DOMAIN L \ Chosen(L, np.post)}
    BY <1>1, TakenFacts
  <2>2. {L[i] : i \in DOMAIN L \ Chosen(L, np.post)} \subseteq ToSet(L)
    BY DEF ToSet
  <2> QED BY <2>1, <2>2
<1>3. np \notin ToSet(RestOf(L, np))
  BY <1>2
<1>4. /\ ToSet(L) \subseteq ToSet(RestOf(L, np)) \cup TakenSet(L, np)
      /\ ToSet(RestOf(L, np)) \cap TakenSet(L, np) \subseteq {np}
  BY <1>1, TakenFacts
<1>5. ToSet(RestOf(L, np)) = ToSet(L) \ TakenSet(L, np)
  BY <1>2, <1>3, <1>4
<1> QED BY <1>1, <1>5, TakenFacts

LEMMA UnionWith == ASSUME NEW O, NEW X PROVE UNION (O \cup {X}) = (UNION O) \cup X
  OBVIOUS

LEMMA TakeOnce ==
  ASSUME EachOnce, NcclTypeOK, NEW t \in Threads, running[t] = {}, NEW X, WholeSet(X),
         running' = [running EXCEPT ![t] = X], ran' = ran,
         ToSet(pending') \subseteq Pending \ X, X \cap UNION Sets = {}
  PROVE  EachOnce' /\ UNION Sets' = (UNION Sets) \cup X
<1>1. running'[t] = X /\ \A u \in Threads \ {t} : running'[u] = running[u]
  BY DEF NcclTypeOK
<1>2. Sets' = ran \cup {running[u] : u \in Threads \ {t}} \cup {X}
  <2>1. {running'[u] : u \in Threads} = {running[u] : u \in Threads \ {t}} \cup {X}
    BY <1>1
  <2> QED BY <2>1 DEF Sets
<1>3. Sets = ran \cup {running[u] : u \in Threads \ {t}} \cup {{}}
  BY DEF Sets
<1>4. UNION Sets' = (UNION Sets) \cup X
  <2> DEFINE Others == ran \cup {running[u] : u \in Threads \ {t}}
  <2>1. Sets' = Others \cup {X} /\ Sets = Others \cup {{}}
    BY <1>2, <1>3
  <2> HIDE DEF Others
  <2>2. UNION Sets' = (UNION Others) \cup X /\ UNION Sets = UNION Others
    BY <2>1, UnionWith
  <2> QED BY <2>2
<1>5. \A S \in Sets : X \cap S = {}
  OBVIOUS
<1>6. \A S \in Sets' \ {{}} : WholeSet(S)
  BY <1>2, <1>3 DEF EachOnce
<1>7. \A u, v \in Threads : u = v \/ running'[u] \cap running'[v] = {}
  <2>1. \A u \in Threads \ {t} : X \cap running[u] = {}
    BY <1>3, <1>5
  <2> QED BY <1>1, <2>1 DEF EachOnce
<1>8. \A u \in Threads : \A S \in ran' : running'[u] \cap S = {}
  BY <1>1, <1>3, <1>5 DEF EachOnce
<1>9. \A S \in Sets' : S \cap ToSet(pending') = {}
  BY <1>2, <1>3 DEF EachOnce, Pending
<1> QED BY <1>4, <1>6, <1>7, <1>8, <1>9 DEF EachOnce

LEMMA SameOnce ==
  ASSUME EachOnce, UNCHANGED <<running, ran>>, ToSet(pending') \cap UNION Sets = {}
  PROVE  EachOnce' /\ Sets' = Sets
<1>1. Sets' = Sets
  BY DEF Sets
<1>2. \A S \in Sets' : S \cap ToSet(pending') = {}
  BY <1>1
<1> QED BY <1>1, <1>2 DEF EachOnce, WholeSet

LEMMA PendingOnce == ASSUME EachOnce PROVE Pending \cap UNION Sets = {}
  BY DEF EachOnce, Pending

(* The post a thread polls for is the one it waits for.                    *)
LEMMA ParkedApart ==
  ASSUME PostInv, Usable, NEW t \in Threads, NEW u \in Threads,
         NEW p \in ToSet(parked[t]), NEW q \in ToSet(parked[u]), Same(p.post, q.post)
  PROVE  t = u /\ p = q
<1>1. p.post \in PostsOf(prog, t) /\ q.post \in PostsOf(prog, u)
  BY DEF PostInv, Threading, InCall
<1>2. p.post.rank = q.post.rank
  BY DEF Same
<1>3. t = u
  BY <1>1, <1>2 DEF PostInv, Usable, OneThreadEach
<1>4. PICK j \in DOMAIN parked[t], k \in DOMAIN parked[t] : p = parked[t][j] /\ q = parked[t][k]
  BY <1>3 DEF ToSet
<1>5. j = k
  BY <1>4 DEF PostInv, Threading, InCall
<1> QED BY <1>3, <1>4, <1>5

LEMMA MineIsHead ==
  ASSUME PostInv, Usable, NEW t \in Threads, Waiting(t), NEW i \in DOMAIN pending, Mine(t, pending[i])
  PROVE  pending[i] = Head(parked[t]) /\ Head(parked[t]) \in ToSet(parked[t])
<1>1. PICK u \in Threads : pending[i] \in ToSet(parked[u])
  BY DEF PostInv, NoOrphans
<1>2. parked[t] \in Seq(Numbered) /\ parked[t] # <<>> /\ todo[t] \in Seq(Post)
  BY ThreadTypes DEF PostInv, Waiting
<1>3. Head(parked[t]) \in ToSet(parked[t])
  BY <1>2 DEF ToSet
<1> QED BY <1>1, <1>3, ParkedApart DEF Mine

LEMMA OneThreadMoves ==
  ASSUME PostInv, NEW t \in Threads, prog' = prog,
         \A u \in Threads \ {t} : at'[u] = at[u] /\ todo'[u] = todo[u] /\ parked'[u] = parked[u],
         at'[t] >= 1, InCall(prog, t, todo'[t], parked'[t])
  PROVE  Threading'
<1>1. ASSUME NEW u \in Threads PROVE at'[u] >= 1 /\ InCall(prog, u, todo'[u], parked'[u])
  <2>1. CASE u = t
    BY <2>1
  <2>2. CASE u # t
    BY <2>2 DEF PostInv, Threading
  <2> QED BY <2>1, <2>2
<1> QED BY <1>1 DEF Threading

(* A step that makes no set and no post.                                   *)
LEMMA NothingNew ==
  ASSUME PostInv, prog' = prog, NcclTypeOK', Threading', posted' = posted, UNION Sets' = UNION Sets,
         Pending' \subseteq Pending, PendingDiffer', EachOnce', NoneLost', NoOrphans'
  PROVE  PostInv'
<1>1. Numbers'
  BY DEF PostInv, Numbers
<1> QED BY <1>1 DEF PostInv

LEMMA ListsStay ==
  ASSUME PostInv, UNCHANGED <<pending, running, ran>>
  PROVE  Pending' = Pending /\ Sets' = Sets /\ PendingDiffer' /\ EachOnce'
<1>1. Pending' = Pending /\ Sets' = Sets
  BY DEF Pending, Sets
<1>2. PendingDiffer'
  BY DEF PostInv, PendingDiffer
<1>3. ToSet(pending') \cap UNION Sets = {}
  BY <1>1, PendingOnce DEF PostInv, Pending
<1> QED BY <1>1, <1>2, <1>3, SameOnce DEF PostInv

LEMMA CallBegins ==
  ASSUME NEW P, NEW t, NEW s \in Seq(Post), ToSet(s) \subseteq PostsOf(P, t), Differ(s), SinglePosts(P) => Len(s) = 1
  PROVE  InCall(P, t, s, <<>>)
<1>1. ToSet(<<>>) = {} /\ DOMAIN <<>> = {} /\ Len(<<>>) = 0
  BY DEF ToSet
<1>2. ASSUME SinglePosts(P) PROVE Len(s) + Len(<<>>) <= 1
  <2>1. Len(s) = 1 /\ Len(<<>>) = 0
    BY <1>1, <1>2
  <2> QED BY <2>1
<1> QED BY <1>1, <1>2 DEF InCall

LEMMA EnterPosts ==
  ASSUME PostInv, Usable, NEW t \in Threads, Enter(t)
  PROVE  PostInv'
<1>1. /\ todo \in [Threads -> Seq(Post)] /\ at \in [Threads -> Nat] /\ at[t] >= 1 /\ at[t] <= Len(prog[t])
      /\ prog' = prog /\ todo[t] = <<>> /\ parked[t] = <<>> /\ parked' = parked
      /\ todo'[t] = prog[t][at[t]] /\ at'[t] = at[t] + 1
      /\ \A u \in Threads \ {t} : todo'[u] = todo[u] /\ at'[u] = at[u]
  BY DEF PostInv, NcclTypeOK, Threading, Enter, Inside
<1>2. prog[t] \in Seq(Seq(Post))
  BY Programmed DEF PostInv
<1>3. at[t] \in DOMAIN prog[t] /\ prog[t][at[t]] \in Seq(Post)
  BY <1>1, <1>2
<1>4. InCall(prog, t, todo'[t], parked'[t])
  <2>1. ToSet(todo'[t]) \subseteq PostsOf(prog, t)
    BY <1>1, <1>3 DEF PostsOf
  <2>2. Differ(todo'[t])
    BY <1>1, <1>3 DEF PostInv, Usable, CallsDiffer
  <2>3. SinglePosts(prog) => Len(todo'[t]) = 1
    BY <1>1, <1>3 DEF SinglePosts
  <2>4. parked'[t] = <<>>
    BY <1>1
  <2>5. todo'[t] \in Seq(Post)
    BY <1>1, <1>3
  <2> QED BY <2>1, <2>2, <2>3, <2>4, <2>5, CallBegins
<1>5. Threading'
  BY <1>1, <1>4, OneThreadMoves
<1>6. NcclTypeOK'
  BY <1>1, <1>3 DEF PostInv, NcclTypeOK, Enter
<1>7. UNCHANGED <<pending, running, ran, parked, posted>>
  BY DEF Enter
<1>8. Pending' = Pending /\ Sets' = Sets /\ PendingDiffer' /\ EachOnce'
  BY <1>7, ListsStay
<1>9. NoneLost' /\ NoOrphans'
  BY <1>7, <1>8 DEF PostInv, NoneLost, NoOrphans
<1> QED BY <1>1, <1>5, <1>6, <1>7, <1>8, <1>9, NothingNew

LEMMA RunPosts ==
  ASSUME PostInv, NEW t \in Threads, RunReturns(t)
  PROVE  PostInv'
<1>1. /\ running[t] # {} /\ ran' = ran \cup {running[t]} /\ running' = [running EXCEPT ![t] = {}]
      /\ UNCHANGED <<prog, pending, at, todo, parked, posted>>
  BY DEF RunReturns
<1>2. running'[t] = {} /\ \A u \in Threads \ {t} : running'[u] = running[u]
  BY <1>1 DEF PostInv, NcclTypeOK
<1>3. NcclTypeOK'
  <2>1. rc' \in [Threads -> {"success", "invalidUsage", "unhandledCudaError"}]
    BY DEF PostInv, NcclTypeOK, RunReturns
  <2>2. running' \in [Threads -> SUBSET Numbered] /\ ran' \in SUBSET SUBSET Numbered
    BY <1>1 DEF PostInv, NcclTypeOK
  <2> QED BY <1>1, <2>1, <2>2 DEF PostInv, NcclTypeOK
<1>4. \A S : S \in Sets' <=> S \in Sets \/ S = {}
  BY <1>1, <1>2 DEF Sets
<1>5. UNION Sets' = UNION Sets
  BY <1>4
<1>6. EachOnce'
  <2>1. \A S \in Sets' \ {{}} : WholeSet(S)
    BY <1>4 DEF PostInv, EachOnce
  <2>2. \A S1, S2 \in ran' : S1 = S2 \/ S1 \cap S2 = {}
    BY <1>1 DEF PostInv, EachOnce
  <2>3. \A u, v \in Threads : u = v \/ running'[u] \cap running'[v] = {}
    BY <1>2 DEF PostInv, EachOnce
  <2>4. \A u \in Threads : \A S \in ran' : running'[u] \cap S = {}
    BY <1>1, <1>2 DEF PostInv, EachOnce
  <2>5. \A S \in Sets' : S \cap ToSet(pending') = {}
    BY <1>1, <1>4 DEF PostInv, EachOnce
  <2> QED BY <2>1, <2>2, <2>3, <2>4, <2>5 DEF EachOnce
<1>7. NoneLost' /\ NoOrphans' /\ PendingDiffer' /\ Pending' = Pending /\ Threading'
  BY <1>1, <1>4 DEF PostInv, NoneLost, NoOrphans, PendingDiffer, Pending, Threading
<1> QED BY <1>1, <1>3, <1>5, <1>6, <1>7, NothingNew

LEMMA EndPosts ==
  ASSUME PostInv, Usable, NEW t \in Threads, WaitEnds(t)
  PROVE  PostInv'
<1>1. /\ Waiting(t) /\ ~Still(t) /\ parked' = [parked EXCEPT ![t] = Tail(@)]
      /\ UNCHANGED <<prog, pending, at, todo, running, rc, posted, ran>>
  BY DEF WaitEnds, Waited
<1>2. todo[t] \in Seq(Post) /\ parked[t] \in Seq(Numbered) /\ parked[t] # <<>>
  BY <1>1, ThreadTypes DEF PostInv, Waiting
<1>3. parked'[t] = Tail(parked[t]) /\ \A u \in Threads \ {t} : parked'[u] = parked[u]
  BY <1>1 DEF PostInv, NcclTypeOK
<1>4. InCall(prog, t, todo[t], parked[t]) /\ at[t] >= 1
  BY DEF PostInv, Threading
<1>5. /\ InCall(prog, t, todo'[t], parked'[t])
      /\ ToSet(parked[t]) = ToSet(parked'[t]) \cup {Head(parked[t])}
  <2>1. InCall(prog, t, todo[t], Tail(parked[t])) /\ ToSet(parked[t]) = ToSet(Tail(parked[t])) \cup {Head(parked[t])}
    BY <1>2, <1>4, WaitOne
  <2> QED BY <1>1, <1>3, <2>1
<1>6. Threading'
  BY <1>1, <1>3, <1>4, <1>5, OneThreadMoves
<1>7. NcclTypeOK'
  BY <1>1, <1>2 DEF PostInv, NcclTypeOK
<1>8. Pending' = Pending /\ PendingDiffer' /\ EachOnce' /\ Sets' = Sets
  BY <1>1, ListsStay
<1>9. NoneLost'
  BY <1>1, <1>3, <1>5, <1>8 DEF PostInv, NoneLost
<1>10. NoOrphans'
  <2> SUFFICES ASSUME NEW i \in DOMAIN pending PROVE \E u \in Threads : pending[i] \in ToSet(parked'[u])
    BY <1>1 DEF NoOrphans
  <2>1. PICK u \in Threads : pending[i] \in ToSet(parked[u])
    BY DEF PostInv, NoOrphans
  <2>2. CASE u # t
    BY <1>3, <2>1, <2>2
  <2>3. CASE u = t
    <3>1. pending[i] # Head(parked[t])
      BY <1>1 DEF Still, Mine, Same
    <3> QED BY <1>5, <2>1, <2>3, <3>1
  <2> QED BY <2>2, <2>3
<1> QED BY <1>1, <1>6, <1>7, <1>8, <1>9, <1>10, NothingNew

LEMMA NoneLostSets == NoneLost <=> \A t \in Threads : ToSet(parked[t]) \subseteq Pending \cup UNION Sets
<1>1. \A p : (p \in ToSet(pending) \/ \E S \in Sets : p \in S) <=> p \in Pending \cup UNION Sets
  BY DEF Pending
<1> QED BY <1>1 DEF NoneLost

LEMMA NoOrphansSets == NoOrphans <=> \A q \in Pending : \E t \in Threads : q \in ToSet(parked[t])
  BY DEF NoOrphans, Pending, ToSet

LEMMA NumberedClass == ASSUME NEW q \in Numbered PROVE Class(q.post) \in Kinds \X Ranks \X Ranks /\ q.n \in Nat
  BY DEF Numbered, Post, Class

LEMMA NumbersGrow ==
  ASSUME PostInv, NEW np, np \in Numbered, np.n = posted[Class(np.post)] + 1,
         posted' = [posted EXCEPT ![Class(np.post)] = @ + 1],
         Pending' \cup UNION Sets' \subseteq (Pending \cup UNION Sets) \cup {np}
  PROVE  Numbers'
<1>1. Class(np.post) \in Kinds \X Ranks \X Ranks /\ posted \in [Kinds \X Ranks \X Ranks -> Nat]
  BY NumberedClass DEF PostInv, NcclTypeOK
<1>2. Pending \cup UNION Sets \subseteq Numbered
  BY DEF PostInv, NcclTypeOK, Pending, ToSet, Sets
<1>3. ASSUME NEW q \in Pending \cup UNION Sets PROVE q.n <= posted'[Class(q.post)]
  <2>1. q.n <= posted[Class(q.post)]
    BY DEF PostInv, Numbers
  <2>2. Class(q.post) \in Kinds \X Ranks \X Ranks /\ q.n \in Nat
    BY <1>2, NumberedClass
  <2>3. posted[Class(q.post)] \in Nat /\ posted'[Class(q.post)] >= posted[Class(q.post)]
    BY <1>1, <2>2
  <2>4. posted'[Class(q.post)] \in Nat
    BY <1>1, <2>2
  <2> HIDE DEF Class
  <2> QED BY <2>1, <2>2, <2>3, <2>4
<1>4. np.n <= posted'[Class(np.post)]
  BY <1>1
<1> QED BY <1>3, <1>4 DEF Numbers

LEMMA ParkPosts ==
  ASSUME PostInv, Usable, NEW t \in Threads, ParkOrRun(t)
  PROVE  PostInv'
<1> DEFINE np == Number(Head(todo[t]))
           X == TakenSet(pending, np)
<1>1. /\ running[t] = {} /\ todo[t] # <<>> /\ todo' = [todo EXCEPT ![t] = Tail(@)]
      /\ posted' = [posted EXCEPT ![Class(Head(todo[t]))] = @ + 1] /\ UNCHANGED <<prog, at, rc, ran>>
      /\ IF Completes(pending, np.post)
         THEN running' = [running EXCEPT ![t] = X] /\ pending' = RestOf(pending, np) /\ UNCHANGED parked
         ELSE pending' = Append(pending, np) /\ parked' = [parked EXCEPT ![t] = Append(@, np)] /\ UNCHANGED running
  BY DEF ParkOrRun
<1>2. /\ np \in Numbered /\ np.post = Head(todo[t]) /\ np.post \in ProperPosts
      /\ np.n = posted[Class(np.post)] + 1 /\ np \notin Pending \cup UNION Sets
  BY <1>1, NewPost
<1> HIDE DEF np
<1>3. /\ todo[t] \in Seq(Post) /\ parked[t] \in Seq(Numbered) /\ NcclTypeOK
      /\ InCall(prog, t, todo[t], parked[t]) /\ at[t] >= 1
  BY ThreadTypes DEF PostInv, Threading
<1>4. InCall(prog, t, Tail(todo[t]), parked[t]) /\ InCall(prog, t, Tail(todo[t]), Append(parked[t], np))
  BY <1>1, <1>2, <1>3, MakeOne
<1>5. todo'[t] = Tail(todo[t]) /\ \A u \in Threads \ {t} : todo'[u] = todo[u]
  BY <1>1 DEF PostInv, NcclTypeOK
<1>6. todo' \in [Threads -> Seq(Post)] /\ posted' \in [Kinds \X Ranks \X Ranks -> Nat]
  <2>1. todo' \in [Threads -> Seq(Post)]
    BY <1>1, <1>3 DEF NcclTypeOK
  <2>2. Class(Head(todo[t])) \in Kinds \X Ranks \X Ranks
    BY <1>2, NumberedClass
  <2>3. posted \in [Kinds \X Ranks \X Ranks -> Nat]
    BY <1>3 DEF NcclTypeOK
  <2>4. posted[Class(Head(todo[t]))] + 1 \in Nat
    BY <2>2, <2>3
  <2>5. posted' \in [Kinds \X Ranks \X Ranks -> Nat]
    <3> HIDE DEF Class
    <3> QED BY <1>1, <2>3, <2>4
  <2> QED BY <2>1, <2>5
<1>7. Pending \cap UNION Sets = {}
  BY PendingOnce DEF PostInv
<1>8. CASE Completes(pending, np.post)
  <2>1. running' = [running EXCEPT ![t] = X] /\ pending' = RestOf(pending, np) /\ parked' = parked
    BY <1>1, <1>8
  <2>2. /\ X \in SUBSET Numbered /\ X \subseteq Pending \cup {np} /\ np \in X /\ WholeSet(X)
        /\ pending' \in Seq(Numbered) /\ Pending' = Pending \ X /\ PendingDiffer'
    BY <1>2, <1>3, <1>8, <2>1, Taking DEF Pending, PendingDiffer, PostInv, NcclTypeOK
  <2> HIDE DEF X
  <2>3. X \cap UNION Sets = {}
    BY <1>2, <1>7, <2>2
  <2>4. EachOnce' /\ UNION Sets' = (UNION Sets) \cup X
    BY <1>1, <1>3, <2>1, <2>2, <2>3, TakeOnce DEF PostInv, Pending
  <2>5. NcclTypeOK'
    BY <1>1, <1>3, <1>6, <2>1, <2>2 DEF NcclTypeOK
  <2>6. Threading'
    BY <1>1, <1>3, <1>4, <1>5, <2>1, OneThreadMoves
  <2>7. Numbers'
    <3>1. Pending' \cup UNION Sets' \subseteq (Pending \cup UNION Sets) \cup {np}
      BY <2>2, <2>4
    <3> QED BY <1>1, <1>2, <3>1, NumbersGrow
  <2>8. NoneLost'
    <3>1. Pending \cup UNION Sets \subseteq Pending' \cup UNION Sets'
      BY <2>2, <2>4
    <3> QED BY <2>1, <3>1, NoneLostSets DEF PostInv, NoneLost, Pending
  <2>9. NoOrphans'
    BY <2>1, <2>2, NoOrphansSets DEF PostInv, NoOrphans, Pending, ToSet
  <2>10. \A q \in Pending' : q.post \in ProperPosts
    BY <2>2 DEF PostInv
  <2> QED BY <1>1, <2>2, <2>4, <2>5, <2>6, <2>7, <2>8, <2>9, <2>10 DEF PostInv
<1>9. CASE ~Completes(pending, np.post)
  <2>1. pending' = Append(pending, np) /\ parked' = [parked EXCEPT ![t] = Append(@, np)] /\ running' = running
    BY <1>1, <1>9
  <2>2. pending' \in Seq(Numbered) /\ Pending' = Pending \cup {np} /\ PendingDiffer'
    <3>1. pending \in Seq(Numbered) /\ np \notin ToSet(pending)
      BY <1>2, <1>3 DEF NcclTypeOK, Pending
    <3>2. pending' \in Seq(Numbered) /\ Pending' = Pending \cup {np}
      BY <1>2, <2>1, <3>1, AppendSet DEF Pending
    <3>3. \A i, j \in DOMAIN pending : pending[i] = pending[j] => i = j
      BY DEF PostInv, PendingDiffer
    <3>4. PendingDiffer'
      BY <1>2, <2>1, <3>1, <3>3, AppendSet DEF PendingDiffer
    <3> QED BY <3>2, <3>4
  <2>3. /\ parked'[t] = Append(parked[t], np) /\ \A u \in Threads \ {t} : parked'[u] = parked[u]
        /\ parked' \in [Threads -> Seq(Numbered)]
    BY <1>2, <1>3, <2>1 DEF NcclTypeOK
  <2>4. ToSet(parked'[t]) = ToSet(parked[t]) \cup {np}
    BY <1>2, <1>3, <2>3, AppendSet
  <2>5. EachOnce' /\ Sets' = Sets
    <3>1. ToSet(pending') \cap UNION Sets = {}
      BY <1>2, <1>7, <2>2 DEF Pending
    <3> QED BY <1>1, <2>1, <3>1, SameOnce DEF PostInv
  <2>6. NcclTypeOK'
    BY <1>1, <1>3, <1>6, <2>1, <2>2, <2>3 DEF NcclTypeOK
  <2>7. Threading'
    BY <1>1, <1>3, <1>4, <1>5, <2>3, OneThreadMoves
  <2>8. Numbers'
    BY <1>1, <1>2, <2>2, <2>5, NumbersGrow
  <2>9. NoneLost'
    <3>1. \A u \in Threads : ToSet(parked'[u]) \subseteq Pending' \cup UNION Sets'
      BY <2>2, <2>3, <2>4, <2>5, NoneLostSets DEF PostInv
    <3> QED BY <3>1 DEF NoneLost, Pending
  <2>10. NoOrphans'
    <3>1. \A q \in Pending' : \E u \in Threads : q \in ToSet(parked'[u])
      BY <2>2, <2>3, <2>4, NoOrphansSets DEF PostInv
    <3> QED BY <3>1 DEF NoOrphans, Pending, ToSet
  <2>11. \A q \in Pending' : q.post \in ProperPosts
    BY <1>2, <2>2 DEF PostInv
  <2> QED BY <1>1, <2>2, <2>5, <2>6, <2>7, <2>8, <2>9, <2>10, <2>11 DEF PostInv
<1> QED BY <1>8, <1>9

(* A wait is over for the post at the head of what t waits for.            *)
LEMMA WaitMoves ==
  ASSUME PostInv, NEW t \in Threads, Waiting(t), Waited(t), UNCHANGED <<prog, at, todo>>
  PROVE  /\ Threading' /\ parked' \in [Threads -> Seq(Numbered)]
         /\ \A u \in Threads \ {t} : parked'[u] = parked[u]
         /\ ToSet(parked[t]) = ToSet(parked'[t]) \cup {Head(parked[t])}
<1>1. todo[t] \in Seq(Post) /\ parked[t] \in Seq(Numbered) /\ parked[t] # <<>>
  BY ThreadTypes DEF PostInv, Waiting
<1>2. parked'[t] = Tail(parked[t]) /\ \A u \in Threads \ {t} : parked'[u] = parked[u]
  BY DEF PostInv, NcclTypeOK, Waited
<1>3. InCall(prog, t, todo[t], parked[t]) /\ at[t] >= 1
  BY DEF PostInv, Threading
<1>4. InCall(prog, t, todo[t], Tail(parked[t])) /\ ToSet(parked[t]) = ToSet(Tail(parked[t])) \cup {Head(parked[t])}
  BY <1>1, <1>3, WaitOne
<1>5. InCall(prog, t, todo'[t], parked'[t])
  BY <1>2, <1>4
<1>6. Threading'
  BY <1>2, <1>3, <1>5, OneThreadMoves
<1>7. parked' \in [Threads -> Seq(Numbered)]
  BY <1>1 DEF PostInv, NcclTypeOK, Waited
<1> QED BY <1>2, <1>4, <1>6, <1>7

LEMMA PollPosts ==
  ASSUME PostInv, Usable, NEW t \in Threads, Poll(t)
  PROVE  PostInv'
<1>1. Waiting(t) /\ UNCHANGED <<prog, at, todo, rc, posted, ran>>
  BY DEF Poll
<1>2. PICK i \in DOMAIN pending :
             /\ Mine(t, pending[i])
             /\ LET me == pending[i]
                    L == Without(pending, {i})
                IN  IF Completes(L, me.post)
                    THEN /\ running' = [running EXCEPT ![t] = TakenSet(L, me)]
                         /\ pending' = RestOf(L, me)
                         /\ Waited(t)
                    ELSE /\ pending' = Append(L, me)
                         /\ UNCHANGED <<running, parked>>
  BY DEF Poll
<1> DEFINE me == pending[i]
           L == Without(pending, {i})
           X == TakenSet(L, me)
<1>3. /\ L \in Seq(Numbered) /\ ToSet(L) = Pending \ {me}
      /\ \A j, k \in DOMAIN L : L[j] = L[k] => j = k
  BY PolledList
<1>4. me = Head(parked[t]) /\ me \in Pending
  <2>1. me = Head(parked[t])
    BY <1>1, <1>2, MineIsHead
  <2> QED BY <2>1 DEF Pending, ToSet
<1>5. me \in Numbered /\ me.post \in ProperPosts
  BY <1>4 DEF PostInv, NcclTypeOK
<1>6. NcclTypeOK /\ running[t] = {} /\ Pending \cap UNION Sets = {}
  BY <1>1, PendingOnce DEF PostInv, Waiting
<1>7. IF Completes(L, me.post)
      THEN running' = [running EXCEPT ![t] = X] /\ pending' = RestOf(L, me) /\ Waited(t)
      ELSE pending' = Append(L, me) /\ UNCHANGED <<running, parked>>
  BY <1>2
<1> HIDE DEF L, me
<1>8. CASE Completes(L, me.post)
  <2>1. running' = [running EXCEPT ![t] = X] /\ pending' = RestOf(L, me) /\ Waited(t)
    BY <1>7, <1>8
  <2>2. /\ X \in SUBSET Numbered /\ X \subseteq ToSet(L) \cup {me} /\ me \in X /\ WholeSet(X)
        /\ RestOf(L, me) \in Seq(Numbered) /\ ToSet(RestOf(L, me)) = ToSet(L) \ X
        /\ \A j, k \in DOMAIN RestOf(L, me) : RestOf(L, me)[j] = RestOf(L, me)[k] => j = k
    BY <1>3, <1>5, <1>8, Taking
  <2> HIDE DEF X
  <2>3. pending' \in Seq(Numbered) /\ Pending' = Pending \ X /\ PendingDiffer'
    <3>1. Pending' = ToSet(L) \ X
      BY <2>1, <2>2 DEF Pending
    <3> QED BY <1>3, <2>1, <2>2, <3>1 DEF PendingDiffer
  <2>4. X \cap UNION Sets = {}
    BY <1>3, <1>4, <1>6, <2>2
  <2>5. EachOnce' /\ UNION Sets' = (UNION Sets) \cup X
    BY <1>1, <1>6, <2>1, <2>2, <2>3, <2>4, TakeOnce DEF PostInv, Pending
  <2>6. /\ Threading' /\ parked' \in [Threads -> Seq(Numbered)]
        /\ \A u \in Threads \ {t} : parked'[u] = parked[u]
        /\ ToSet(parked[t]) = ToSet(parked'[t]) \cup {me}
    BY <1>1, <1>4, <2>1, WaitMoves
  <2>7. NcclTypeOK'
    BY <1>1, <1>6, <2>1, <2>2, <2>3, <2>6 DEF NcclTypeOK
  <2>8. Numbers'
    <3>1. Pending' \cup UNION Sets' \subseteq Pending \cup UNION Sets
      BY <1>3, <1>4, <2>2, <2>3, <2>5
    <3> QED BY <1>1, <3>1 DEF PostInv, Numbers
  <2>9. NoneLost'
    <3>1. Pending \cup UNION Sets \subseteq Pending' \cup UNION Sets'
      BY <2>3, <2>5
    <3>2. \A u \in Threads : ToSet(parked'[u]) \subseteq ToSet(parked[u])
      BY <2>6
    <3>3. \A u \in Threads : ToSet(parked[u]) \subseteq Pending \cup UNION Sets
      BY NoneLostSets DEF PostInv
    <3>4. \A u \in Threads : ToSet(parked'[u]) \subseteq Pending' \cup UNION Sets'
      BY <3>1, <3>2, <3>3
    <3> QED BY <3>4 DEF NoneLost, Pending
  <2>10. NoOrphans'
    <3>1. ASSUME NEW q \in Pending' PROVE \E u \in Threads : q \in ToSet(parked'[u])
      <4>1. q \in Pending /\ q # me
        BY <2>2, <2>3, <3>1
      <4>2. PICK u \in Threads : q \in ToSet(parked[u])
        BY <4>1, NoOrphansSets DEF PostInv
      <4>3. q \in ToSet(parked'[u])
        BY <2>6, <4>1, <4>2
      <4> QED BY <4>3
    <3> QED BY <3>1 DEF NoOrphans, Pending, ToSet
  <2>11. \A q \in Pending' : q.post \in ProperPosts
    BY <2>3 DEF PostInv
  <2> QED BY <1>1, <2>3, <2>5, <2>6, <2>7, <2>8, <2>9, <2>10, <2>11 DEF PostInv
<1>9. CASE ~Completes(L, me.post)
  <2>1. pending' = Append(L, me) /\ UNCHANGED <<running, parked>>
    BY <1>7, <1>9
  <2>2. pending' \in Seq(Numbered) /\ Pending' = Pending /\ PendingDiffer'
    <3>1. me \notin ToSet(L)
      BY <1>3
    <3>2. pending' \in Seq(Numbered) /\ Pending' = ToSet(L) \cup {me}
      BY <1>3, <1>5, <2>1, AppendSet DEF Pending
    <3>3. PendingDiffer'
      BY <1>3, <1>5, <2>1, <3>1, AppendSet DEF PendingDiffer
    <3> QED BY <1>3, <1>4, <3>2, <3>3
  <2>3. EachOnce' /\ Sets' = Sets
    <3>1. ToSet(pending') \cap UNION Sets = {}
      BY <1>6, <2>2 DEF Pending
    <3> QED BY <1>1, <2>1, <3>1, SameOnce DEF PostInv
  <2>4. NcclTypeOK'
    BY <1>1, <1>6, <2>1, <2>2 DEF NcclTypeOK
  <2>5. Threading' /\ NoneLost'
    BY <1>1, <2>1, <2>2, <2>3 DEF PostInv, Threading, NoneLost, Pending
  <2>6. NoOrphans'
    <3>1. \A q \in Pending' : \E u \in Threads : q \in ToSet(parked'[u])
      BY <2>1, <2>2, NoOrphansSets DEF PostInv
    <3> QED BY <3>1 DEF NoOrphans, Pending, ToSet
  <2> QED BY <1>1, <2>2, <2>3, <2>4, <2>5, <2>6, NothingNew
<1> QED BY <1>8, <1>9

LEMMA TimeoutPosts ==
  ASSUME PostInv, Usable, NEW t \in Threads, WaitTimesOut(t)
  PROVE  PostInv'
<1> DEFINE I == {i \in DOMAIN pending : Mine(t, pending[i])}
           L == Without(pending, I)
<1>1. /\ Waiting(t) /\ Waited(t) /\ pending' = L /\ rc' = [rc EXCEPT ![t] = "invalidUsage"]
      /\ UNCHANGED <<prog, at, todo, running, posted, ran>>
  BY DEF WaitTimesOut
<1>2. L \in Seq(Numbered) /\ ToSet(L) = {pending[i] : i \in DOMAIN pending \ I} /\ \A j, k \in DOMAIN L : L[j] = L[k] => j = k
  BY WithoutPending
<1>3. Pending' = Pending \ {Head(parked[t])}
  <2>1. \A i \in DOMAIN pending : i \in I <=> pending[i] = Head(parked[t])
    <3>1. \A i \in I : pending[i] = Head(parked[t])
      BY <1>1, MineIsHead
    <3>2. \A i \in DOMAIN pending : pending[i] = Head(parked[t]) => i \in I
      BY DEF Mine, Same
    <3> QED BY <3>1, <3>2
  <2>2. Pending' = {pending[i] : i \in DOMAIN pending \ I}
    BY <1>1, <1>2 DEF Pending
  <2> HIDE DEF I
  <2> QED BY <2>1, <2>2 DEF Pending, ToSet
<1> HIDE DEF I, L
<1>4. PendingDiffer' /\ pending' \in Seq(Numbered)
  BY <1>1, <1>2 DEF PendingDiffer
<1>5. /\ Threading' /\ parked' \in [Threads -> Seq(Numbered)]
      /\ \A u \in Threads \ {t} : parked'[u] = parked[u]
      /\ ToSet(parked[t]) = ToSet(parked'[t]) \cup {Head(parked[t])}
  BY <1>1, WaitMoves
<1>6. EachOnce' /\ Sets' = Sets
  <2>1. Pending \cap UNION Sets = {}
    BY PendingOnce DEF PostInv
  <2>2. ToSet(pending') \cap UNION Sets = {}
    BY <1>3, <2>1 DEF Pending
  <2> QED BY <1>1, <2>2, SameOnce DEF PostInv
<1>7. NcclTypeOK'
  BY <1>1, <1>4, <1>5 DEF PostInv, NcclTypeOK
<1>8. NoneLost'
  <2>1. ASSUME NEW u \in Threads, NEW q \in ToSet(parked'[u]) PROVE q \in Pending' \cup UNION Sets'
    <3>1. q \in ToSet(parked[u])
      BY <1>5, <2>1
    <3>2. q \in Pending \cup UNION Sets
      BY <3>1, NoneLostSets DEF PostInv
    <3>3. q # Head(parked[t])
      <4>1. CASE u = t
        <5>1. \A p \in ToSet(parked'[t]) : ~Same(p.post, Head(parked[t]).post)
          <6>1. todo[t] \in Seq(Post) /\ parked[t] \in Seq(Numbered) /\ parked[t] # <<>>
            BY <1>1, ThreadTypes DEF PostInv, Waiting
          <6>2. InCall(prog, t, todo[t], parked[t])
            BY DEF PostInv, Threading
          <6>3. parked'[t] = Tail(parked[t])
            BY <1>1 DEF PostInv, NcclTypeOK, Waited
          <6> QED BY <6>1, <6>2, <6>3, WaitOne
        <5>2. ~Same(q.post, Head(parked[t]).post)
          BY <2>1, <4>1, <5>1
        <5> QED BY <5>2 DEF Same
      <4>2. CASE u # t
        <5>1. Head(parked[t]) \in ToSet(parked[t])
          BY <1>5
        <5>2. q = Head(parked[t]) => Same(q.post, Head(parked[t]).post)
          BY DEF Same
        <5> QED BY <3>1, <4>2, <5>1, <5>2, ParkedApart
      <4> QED BY <4>1, <4>2
    <3> QED BY <1>3, <1>6, <3>2, <3>3
  <2> QED BY <2>1 DEF NoneLost, Pending
<1>9. NoOrphans'
  <2>1. ASSUME NEW q \in Pending' PROVE \E u \in Threads : q \in ToSet(parked'[u])
    <3>1. q \in Pending /\ q # Head(parked[t])
      BY <1>3, <2>1
    <3>2. PICK u \in Threads : q \in ToSet(parked[u])
      BY <3>1, NoOrphansSets DEF PostInv
    <3>3. q \in ToSet(parked'[u])
      BY <1>5, <3>1, <3>2
    <3> QED BY <3>3
  <2> QED BY <2>1 DEF NoOrphans, Pending, ToSet
<1> QED BY <1>1, <1>3, <1>4, <1>5, <1>6, <1>7, <1>8, <1>9, NothingNew

LEMMA PostsBegin == ASSUME NcclInit PROVE PostInv
<1>1. /\ prog \in Programs /\ pending = <<>> /\ at = [t \in Threads |-> 1] /\ todo = [t \in Threads |-> <<>>]
      /\ parked = [t \in Threads |-> <<>>] /\ running = [t \in Threads |-> {}] /\ rc = [t \in Threads |-> "success"]
      /\ posted = [c \in Kinds \X Ranks \X Ranks |-> 0] /\ ran = {}
  BY DEF NcclInit
<1>2. DOMAIN prog = Threads
  BY <1>1, NcclAssumption
<1>3. NcclTypeOK
  BY <1>1, <1>2 DEF NcclTypeOK
<1>4. DOMAIN pending = {} /\ Pending = {} /\ ToSet(pending) = {}
  BY <1>1 DEF Pending, ToSet
<1>5. \A S \in Sets : S = {}
  BY <1>1 DEF Sets
<1>6. UNION Sets = {}
  BY <1>5
<1>7. Threading
  <2>1. ASSUME NEW t \in Threads PROVE at[t] >= 1 /\ InCall(prog, t, todo[t], parked[t])
    <3>1. at[t] = 1 /\ todo[t] = <<>> /\ parked[t] = <<>>
      BY <1>1
    <3>2. ToSet(<<>>) = {} /\ DOMAIN <<>> = {} /\ Len(<<>>) = 0
      BY DEF ToSet
    <3>3. Len(<<>>) + Len(<<>>) <= 1
      BY <3>2
    <3> QED BY <3>1, <3>2, <3>3 DEF InCall, Differ
  <2> QED BY <2>1 DEF Threading
<1>8. Numbers /\ PendingDiffer
  BY <1>4, <1>6 DEF Numbers, PendingDiffer
<1>9. EachOnce
  BY <1>1, <1>4, <1>5 DEF EachOnce
<1>10. NoneLost /\ NoOrphans
  <2>1. \A t \in Threads : ToSet(parked[t]) = {}
    BY <1>1 DEF ToSet
  <2> QED BY <1>4, <2>1 DEF NoneLost, NoOrphans
<1> QED BY <1>1, <1>3, <1>4, <1>7, <1>8, <1>9, <1>10 DEF PostInv

LEMMA PostsStay == ASSUME PostInv, UNCHANGED nvars PROVE PostInv'
<1>1. UNCHANGED <<prog, pending, at, todo, parked, running, rc, posted, ran>>
  BY DEF nvars
<1>2. Pending' = Pending /\ Sets' = Sets /\ PendingDiffer' /\ EachOnce'
  BY <1>1, ListsStay
<1>3. NcclTypeOK' /\ Threading' /\ NoneLost' /\ NoOrphans'
  BY <1>1, <1>2 DEF PostInv, NcclTypeOK, Threading, NoneLost, NoOrphans
<1> QED BY <1>1, <1>2, <1>3, NothingNew

LEMMA PostsStep == ASSUME PostInv, Usable, [NcclNext]_nvars PROVE PostInv'
<1>1. ASSUME NEW t \in Threads, Enter(t) PROVE PostInv'
  BY <1>1, EnterPosts
<1>2. ASSUME NEW t \in Threads, Step(t) PROVE PostInv'
  BY <1>2, ParkPosts, RunPosts, EndPosts, PollPosts DEF Step
<1>3. ASSUME NEW t \in Threads, WaitTimesOut(t) PROVE PostInv'
  BY <1>3, TimeoutPosts
<1>4. ASSUME UNCHANGED nvars PROVE PostInv'
  BY <1>4, PostsStay
<1> QED BY <1>1, <1>2, <1>3, <1>4 DEF NcclNext, Done

-----------------------------------------------------------------------------
(* Order *)

LEMMA ChanFacts ==
  ASSUME NEW F \in [Chans -> Nat], NEW p \in ProperPosts
  PROVE  Chan(p) \in Chans /\ F[Chan(p)] \in Nat /\ Class(p) \in Kinds \X Ranks \X Ranks
<1>1. Chan(p) \in Chans
  BY DEF Chans
<1> QED BY <1>1 DEF ProperPosts, Post, Class

LEMMA ClassChan == ASSUME NEW p, NEW q, Class(p) = Class(q) PROVE Chan(p) = Chan(q)
  BY DEF Class, Chan

LEMMA ClassServes == ASSUME NEW x, NEW y, NEW p, NEW r, Class(x) = Class(y), Serves(x, p, r) PROVE Serves(y, p, r)
  BY DEF Class, Serves

(* The one who serves first is the oldest of its class.                    *)
LEMMA FirstIsNext ==
  ASSUME PostInv, NEW F \in [Chans -> Nat], Tallied(F), InLine,
         NEW p \in ProperPosts, NEW r \in Partners(p), NEW i \in DOMAIN pending,
         FirstServing(pending, p, r) = {i}, Serves(pending[i].post, p, r)
  PROVE  /\ Chan(pending[i].post) = Chan(p) /\ pending[i].n = F[Chan(p)] + 1
         /\ pending[i] \in Pending /\ pending[i].post \in ProperPosts
         /\ \A y \in Pending : Class(y.post) = Class(pending[i].post) /\ y.n = F[Chan(p)] + 1 => y = pending[i]
<1> DEFINE x == pending[i]
           f == F[Chan(p)]
<1>1. pending \in Seq(Numbered) /\ i \in Nat /\ x \in Pending /\ x \in Numbered
  BY DEF PostInv, NcclTypeOK, Pending, ToSet
<1>2. x.post \in ProperPosts
  BY <1>1 DEF PostInv
<1>3. Chan(x.post) = Chan(p)
  BY <1>2, ServesFacts
<1>4. f \in Nat /\ posted[Class(x.post)] \in Nat
  <2>1. Class(x.post) \in Kinds \X Ranks \X Ranks
    BY <1>2, ChanFacts
  <2>2. posted[Class(x.post)] \in Nat
    BY <2>1 DEF PostInv, NcclTypeOK
  <2> QED BY <2>2, ChanFacts
<1>5. {q.n : q \in {z \in Pending : Class(z.post) = Class(x.post)}} = (f + 1)..posted[Class(x.post)]
  BY <1>2, <1>3 DEF Tallied
<1> HIDE DEF x, f
<1>6. x.n \in (f + 1)..posted[Class(x.post)]
  BY <1>1, <1>5
<1>7. ASSUME NEW y \in Pending, Class(y.post) = Class(x.post), y.n = f + 1 PROVE y = x
  <2>1. PICK j \in DOMAIN pending : y = pending[j]
    BY DEF Pending, ToSet
  <2>2. Serves(y.post, p, r)
    BY <1>7, ClassServes DEF x
  <2>3. ~(j < i)
    <3>1. \A k \in 1..(i - 1) : ~Serves(pending[k].post, p, r)
      BY DEF FirstServing
    <3>2. j \in Nat /\ j >= 1
      BY <1>1, <2>1
    <3>3. j < i => j \in 1..(i - 1)
      BY <1>1, <3>2
    <3> QED BY <2>1, <2>2, <3>1, <3>3
  <2>4. ~(i < j)
    <3>1. SUFFICES ASSUME i < j PROVE FALSE
      OBVIOUS
    <3>2. x.n < y.n
      BY <1>7, <2>1, <3>1 DEF InLine, x
    <3> QED BY <1>4, <1>6, <1>7, <3>2
  <2>5. i = j
    <3>1. j \in Nat
      BY <1>1, <2>1
    <3> QED BY <1>1, <2>3, <2>4, <3>1
  <2> QED BY <2>1, <2>5 DEF x
<1>8. x.n = f + 1
  <2>1. f + 1 \in (f + 1)..posted[Class(x.post)]
    BY <1>4, <1>6
  <2>2. PICK y \in Pending : Class(y.post) = Class(x.post) /\ y.n = f + 1
    BY <1>5, <2>1
  <2> QED BY <1>7, <2>2
<1> QED BY <1>1, <1>2, <1>3, <1>7, <1>8 DEF x, f

(* A post that completes a set is the next of its class.                   *)
LEMMA NewIsNext ==
  ASSUME PostInv, NEW F \in [Chans -> Nat], Tallied(F), NoneMeets,
         NEW p \in ProperPosts, CanMeet(Pending, p)
  PROVE  /\ posted[Class(p)] = F[Chan(p)] /\ \A q \in Pending : Class(q.post) # Class(p)
<1>1. ASSUME NEW q \in Pending, Class(q.post) = Class(p) PROVE FALSE
  <2>1. q.post \in ProperPosts
    BY DEF PostInv
  <2>2. CanMeet(Pending, q.post)
    BY <1>1, <2>1, SameClassMeets
  <2> QED BY <2>2 DEF NoneMeets
<1>2. F[Chan(p)] <= posted[Class(p)] /\ {q.n : q \in {z \in Pending : Class(z.post) = Class(p)}} = (F[Chan(p)] + 1)..posted[Class(p)]
  BY DEF Tallied
<1>3. {q.n : q \in {z \in Pending : Class(z.post) = Class(p)}} = {}
  BY <1>1
<1>4. Class(p) \in Kinds \X Ranks \X Ranks /\ F[Chan(p)] \in Nat
  BY ChanFacts
<1>5. posted[Class(p)] \in Nat
  BY <1>4 DEF PostInv, NcclTypeOK
<1>6. ~(F[Chan(p)] + 1 <= posted[Class(p)])
  <2>1. F[Chan(p)] + 1 \notin (F[Chan(p)] + 1)..posted[Class(p)]
    BY <1>2, <1>3
  <2> QED BY <1>4, <1>5, <2>1
<1> QED BY <1>1, <1>2, <1>4, <1>5, <1>6

LEMMA OneCalls ==
  ASSUME PostInv, NEW t \in Threads, NEW p, p \in ToSet(todo[t]) \cup {q.post : q \in ToSet(parked[t])}
  PROVE  prog[t] # <<>>
<1>1. p \in PostsOf(prog, t)
  BY DEF PostInv, Threading, InCall
<1>2. DOMAIN <<>> = {}
  OBVIOUS
<1> QED BY <1>1, <1>2 DEF PostsOf

LEMMA StuckParks == ASSUME PostInv, Stuck, NEW t \in Threads, todo[t] # <<>> PROVE FALSE
<1>1. PICK u \in Threads : todo[u] = <<>> /\ \A v \in Threads \ {u} : prog[v] = <<>>
  BY DEF Stuck
<1>2. prog[t] = <<>>
  BY <1>1
<1>3. todo[t] \in Seq(Post)
  BY ThreadTypes DEF PostInv
<1>4. todo[t][1] \in ToSet(todo[t])
  BY <1>3 DEF ToSet
<1> QED BY <1>2, <1>4, OneCalls

(* Single posts are always in line: a rank has one.                        *)
LEMMA SinglesInLine ==
  ASSUME PostInv', Usable, SinglePosts(prog)'
  PROVE  InLine'
<1> SUFFICES ASSUME NEW i \in DOMAIN pending', NEW j \in DOMAIN pending', i < j,
                    Class(pending'[i].post) = Class(pending'[j].post)
             PROVE FALSE
  BY DEF InLine
<1>1. PICK t \in Threads : pending'[i] \in ToSet(parked'[t])
  BY DEF PostInv, NoOrphans
<1>2. PICK u \in Threads : pending'[j] \in ToSet(parked'[u])
  BY DEF PostInv, NoOrphans
<1>3. pending'[i].post.rank = pending'[j].post.rank
  BY DEF Class
<1>4. pending'[i].post \in PostsOf(prog', t) /\ pending'[j].post \in PostsOf(prog', u)
  BY <1>1, <1>2 DEF PostInv, Threading, InCall
<1>5. t = u
  BY <1>3, <1>4 DEF PostInv, Usable, OneThreadEach
<1>6. parked'[t] \in Seq(Numbered) /\ todo'[t] \in Seq(Post) /\ Len(todo'[t]) + Len(parked'[t]) <= 1
  BY DEF PostInv, NcclTypeOK, Threading, InCall
<1>7. Len(parked'[t]) <= 1
  <2> DEFINE a == Len(todo'[t])
             b == Len(parked'[t])
  <2>1. a \in Nat /\ b \in Nat /\ a + b <= 1
    <3>1. todo'[t] \in Seq(Post)
      BY <1>6
    <3>2. a \in Nat
      BY <3>1
    <3>3. parked'[t] \in Seq(Numbered)
      BY <1>6
    <3>4. b \in Nat
      BY <3>3
    <3>5. a + b <= 1
      BY <1>6
    <3> QED BY <3>2, <3>4, <3>5
  <2> HIDE DEF a, b
  <2>2. b <= 1
    BY <2>1
  <2> QED BY <2>2 DEF b
<1>8. PICK a \in DOMAIN parked'[t], b \in DOMAIN parked'[t] : pending'[i] = parked'[t][a] /\ pending'[j] = parked'[t][b]
  BY <1>1, <1>2, <1>5 DEF ToSet
<1>9. a = 1 /\ b = 1
  BY <1>6, <1>7, <1>8
<1>10. i = j
  BY <1>8, <1>9 DEF PostInv, PendingDiffer
<1>11. i \in Nat
  BY DEF PostInv, NcclTypeOK
<1> QED BY <1>10, <1>11

LEMMA MeetsMore == ASSUME NEW Q, NEW R, Q \subseteq R, NEW p, CanMeet(Q, p) PROVE CanMeet(R, p)
  BY DEF CanMeet

LEMMA FewerMeet == ASSUME NoneMeets, NEW Q, Q \subseteq Pending PROVE \A q \in Q : ~CanMeet(Q, q.post)
  BY MeetsMore DEF NoneMeets

(* A post that completes no set lets no other complete one.                *)
LEMMA OneMoreMeets ==
  ASSUME PostInv, NoneMeets, NEW np, np.post \in ProperPosts, ~CanMeet(Pending, np.post)
  PROVE  \A q \in Pending \cup {np} : ~CanMeet(Pending \cup {np}, q.post)
<1> DEFINE Q == Pending \cup {np}
           p == np.post
<1>1. \A q \in Q : q.post \in ProperPosts
  BY DEF PostInv
<1>2. ~CanMeet(Q, p)
  <2> SUFFICES ASSUME CanMeet(Q, p), NEW r \in Partners(p) PROVE \E q \in Pending : Serves(q.post, p, r)
    BY DEF CanMeet
  <2>1. PICK q \in Q : Serves(q.post, p, r)
    BY DEF CanMeet
  <2>2. Class(q.post) # Class(p)
    BY <1>1, <2>1, ServesFacts
  <2>3. q \in Pending
    BY <2>2
  <2> QED BY <2>1, <2>3
<1>3. ASSUME NEW q \in Pending, CanMeet(Q, q.post) PROVE FALSE
  <2> DEFINE o == q.post
  <2>1. o \in ProperPosts /\ ~CanMeet(Pending, o)
    BY DEF PostInv, NoneMeets
  <2>2. PICK s \in Partners(o) : \A z \in Pending : ~Serves(z.post, o, s)
    BY <2>1 DEF CanMeet
  <2>3. Serves(p, o, s)
    BY <1>3, <2>2 DEF CanMeet
  <2>4. Serves(o, p, o.rank) /\ o.rank \in Partners(p) /\ s = p.rank
    BY <2>1, <2>3, ServesFacts
  <2>5. CanMeet(Pending, p)
    <3> SUFFICES ASSUME NEW r \in Partners(p) PROVE \E z \in Pending : Serves(z.post, p, r)
      BY DEF CanMeet
    <3>1. CASE r = o.rank
      BY <2>4, <3>1
    <3>2. CASE r # o.rank
      <4>1. p.kind \in Collectives /\ o.kind = p.kind
        BY <2>4, <3>2 DEF Partners, Serves
      <4>2. r \in Ranks \ {p.rank} /\ r \in Partners(o)
        BY <3>2, <4>1 DEF Partners
      <4>3. PICK z \in Q : Serves(z.post, o, r)
        BY <1>3, <4>2 DEF CanMeet
      <4>4. z.post.rank = r /\ z.post.kind = o.kind
        BY <4>1, <4>3 DEF Serves
      <4>5. z \in Pending
        BY <4>2, <4>4
      <4> QED BY <4>1, <4>4, <4>5 DEF Serves
    <3> QED BY <3>1, <3>2
  <2> QED BY <2>5
<1> QED BY <1>2, <1>3

LEMMA WithoutInLine ==
  ASSUME PostInv, InLine, NEW I, pending' = Without(pending, I)
  PROVE  InLine'
<1>1. pending \in Seq(Numbered)
  BY DEF PostInv, NcclTypeOK
<1>2. pending' \in Seq(Numbered)
  BY <1>1, WithoutView
<1>3. PICK f \in [DOMAIN pending' -> DOMAIN pending \ I] :
             /\ \A k \in DOMAIN pending' : pending'[k] = pending[f[k]]
             /\ \A j, k \in DOMAIN pending' : j < k => f[j] < f[k]
  BY <1>1, WithoutView
<1>4. ASSUME NEW i \in DOMAIN pending', NEW j \in DOMAIN pending', i < j,
             Class(pending'[i].post) = Class(pending'[j].post)
      PROVE  pending'[i].n < pending'[j].n
  <2>1. /\ f[i] \in DOMAIN pending /\ f[j] \in DOMAIN pending /\ f[i] < f[j]
        /\ pending'[i] = pending[f[i]] /\ pending'[j] = pending[f[j]]
    BY <1>3, <1>4
  <2> QED BY <1>4, <2>1 DEF InLine
<1> QED BY <1>4 DEF InLine

(* A step of another thread leaves the one that is stuck where it is.      *)
LEMMA StuckStays ==
  ASSUME Stuck, prog' = prog, pending' = pending, NEW t \in Threads,
         \A u \in Threads \ {t} : /\ running'[u] = running[u] /\ todo'[u] = todo[u] /\ parked'[u] = parked[u],
         ~(running[t] = {} /\ todo[t] = <<>> /\ parked[t] # <<>> /\ Still(t))
  PROVE  Stuck'
<1>1. PICK u \in Threads : /\ running[u] = {} /\ todo[u] = <<>> /\ parked[u] # <<>> /\ Still(u)
                           /\ \A v \in Threads \ {u} : prog[v] = <<>>
  BY DEF Stuck
<1>2. u # t
  BY <1>1
<1>3. running'[u] = running[u] /\ todo'[u] = todo[u] /\ parked'[u] = parked[u]
  BY <1>2
<1>4. Still(u)'
  BY <1>1, <1>3 DEF Still, Mine
<1> QED BY <1>1, <1>3, <1>4 DEF Stuck

LEMMA SameSets ==
  ASSUME MatchedInOrder, \A S \in Sets' : S \in Sets \/ S = {}
  PROVE  MatchedInOrder'
  BY DEF MatchedInOrder

(* A step that leaves the list and the counts alone.                       *)
LEMMA ListKept ==
  ASSUME Lined, UNCHANGED <<prog, pending, posted>>, NEW t \in Threads,
         \A u \in Threads \ {t} : /\ running'[u] = running[u] /\ todo'[u] = todo[u] /\ parked'[u] = parked[u],
         ~(running[t] = {} /\ todo[t] = <<>> /\ parked[t] # <<>> /\ Still(t)),
         \A S \in Sets' : S \in Sets \/ S = {}
  PROVE  Lined'
<1>1. PICK F \in [Chans -> Nat] : Tallied(F)
  BY DEF Lined
<1>2. Pending' = Pending
  BY DEF Pending
<1>3. Tallied(F)'
  BY <1>1, <1>2 DEF Tallied
<1>4. NoneMeets'
  BY <1>2 DEF Lined, NoneMeets
<1>5. InLine => InLine'
  BY DEF InLine
<1>6. MatchedInOrder'
  BY SameSets DEF Lined
<1> QED BY <1>1, <1>3, <1>4, <1>5, <1>6, StuckStays DEF Lined

LEMMA EnterLined == ASSUME PostInv, Lined, NEW t \in Threads, Enter(t) PROVE Lined'
<1>1. /\ UNCHANGED <<prog, pending, posted>> /\ UNCHANGED <<parked, running, ran>>
      /\ ~Inside(t) /\ \A u \in Threads \ {t} : todo'[u] = todo[u]
  BY DEF Enter, PostInv, NcclTypeOK
<1>2. Sets' = Sets
  BY <1>1 DEF Sets
<1> QED BY <1>1, <1>2, ListKept DEF Inside

LEMMA RunLined == ASSUME PostInv, Lined, NEW t \in Threads, RunReturns(t) PROVE Lined'
<1>1. /\ UNCHANGED <<prog, pending, posted>> /\ UNCHANGED <<parked, todo>> /\ running[t] # {}
      /\ ran' = ran \cup {running[t]} /\ running'[t] = {} /\ \A u \in Threads \ {t} : running'[u] = running[u]
  BY DEF RunReturns, PostInv, NcclTypeOK
<1>2. \A S \in Sets' : S \in Sets \/ S = {}
  BY <1>1 DEF Sets
<1> QED BY <1>1, <1>2, ListKept

LEMMA EndLined == ASSUME PostInv, Lined, NEW t \in Threads, WaitEnds(t) PROVE Lined'
<1>1. /\ UNCHANGED <<prog, pending, posted>> /\ UNCHANGED <<todo, running, ran>> /\ ~Still(t)
      /\ \A u \in Threads \ {t} : parked'[u] = parked[u]
  BY DEF WaitEnds, Waited, PostInv, NcclTypeOK
<1>2. Sets' = Sets
  BY <1>1 DEF Sets
<1> QED BY <1>1, <1>2, ListKept

LEMMA PollLined ==
  ASSUME PostInv, PostInv', Usable, OneAtATime, Lined, NEW t \in Threads, Poll(t)
  PROVE  Lined'
<1>1. Waiting(t) /\ UNCHANGED <<prog, at, todo, rc, posted, ran>>
  BY DEF Poll
<1>2. PICK i \in DOMAIN pending :
             /\ Mine(t, pending[i])
             /\ LET me == pending[i]
                    L == Without(pending, {i})
                IN  IF Completes(L, me.post)
                    THEN /\ running' = [running EXCEPT ![t] = TakenSet(L, me)]
                         /\ pending' = RestOf(L, me)
                         /\ Waited(t)
                    ELSE /\ pending' = Append(L, me)
                         /\ UNCHANGED <<running, parked>>
  BY DEF Poll
<1> DEFINE me == pending[i]
           L == Without(pending, {i})
<1>3. L \in Seq(Numbered) /\ ToSet(L) = Pending \ {me}
  BY PolledList
<1>4. me \in Pending /\ me \in Numbered
  BY DEF Pending, ToSet, PostInv, NcclTypeOK
<1>5. ~Completes(L, me.post)
  <2>1. ~CanMeet(Pending, me.post)
    BY <1>4 DEF Lined, NoneMeets
  <2>2. ToSet(L) \subseteq Pending
    BY <1>3
  <2> QED BY <1>3, <2>1, <2>2, MeetsMore, CompletesMeets
<1>6. pending' = Append(L, me) /\ UNCHANGED <<running, parked>>
  BY <1>2, <1>5
<1> HIDE DEF L
<1>7. Pending' = Pending /\ me \in ToSet(pending') /\ pending' \in Seq(Numbered)
  <2>1. pending' \in Seq(Numbered) /\ ToSet(pending') = ToSet(L) \cup {me}
    BY <1>3, <1>4, <1>6, AppendSet
  <2> QED BY <1>3, <1>4, <2>1 DEF Pending
<1>8. PICK F \in [Chans -> Nat] : Tallied(F)
  BY DEF Lined
<1>9. Tallied(F)'
  BY <1>1, <1>7, <1>8 DEF Tallied
<1>10. NoneMeets'
  BY <1>7 DEF Lined, NoneMeets
<1>11. MatchedInOrder'
  <2>1. Sets' = Sets
    BY <1>1, <1>6 DEF Sets
  <2> QED BY <2>1, SameSets DEF Lined
<1>12. CASE SinglePosts(prog)
  <2>1. SinglePosts(prog)'
    BY <1>1, <1>12 DEF SinglePosts
  <2>2. InLine'
    BY <2>1, SinglesInLine
  <2> QED BY <1>8, <1>9, <1>10, <1>11, <2>2 DEF Lined
<1>13. CASE OneCaller(prog)
  <2>1. PICK u \in Threads : \A v \in Threads \ {u} : prog[v] = <<>>
    BY <1>13 DEF OneCaller
  <2>2. prog[t] # <<>>
    <3>1. Head(parked[t]) \in ToSet(parked[t])
      BY <1>1, <1>2, MineIsHead
    <3> QED BY <3>1, OneCalls
  <2>3. \A v \in Threads \ {t} : prog[v] = <<>>
    BY <2>1, <2>2
  <2>4. Still(t)'
    <3>1. PICK k \in DOMAIN pending' : pending'[k] = me
      BY <1>7 DEF ToSet
    <3>2. Same(me.post, Head(parked'[t]).post)
      BY <1>2, <1>6 DEF Mine
    <3>3. Mine(t, pending[k])'
      BY <3>1, <3>2 DEF Mine
    <3> QED BY <3>1, <3>3 DEF Still
  <2>5. Stuck'
    BY <1>1, <1>6, <2>3, <2>4 DEF Stuck, Waiting
  <2> QED BY <1>8, <1>9, <1>10, <1>11, <2>5 DEF Lined
<1> QED BY <1>12, <1>13 DEF OneAtATime

(* park_or_run takes the oldest of each class its post meets.              *)
LEMMA TakenAreNext ==
  ASSUME PostInv, NEW F \in [Chans -> Nat], Tallied(F), NoneMeets, InLine,
         NEW np \in Numbered, np.post \in ProperPosts, np.n = posted[Class(np.post)] + 1,
         Completes(pending, np.post), NEW X, X = TakenSet(pending, np)
  PROVE  /\ posted[Class(np.post)] = F[Chan(np.post)] /\ \A q \in Pending : Class(q.post) # Class(np.post)
         /\ \A x \in X : x.n = F[Chan(np.post)] + 1 /\ Chan(x.post) = Chan(np.post)
         /\ \A o \in ProperPosts : Chan(o) = Chan(np.post) /\ Class(o) # Class(np.post) =>
              \E x \in X \cap Pending :
                /\ Class(x.post) = Class(o)
                /\ \A y \in Pending : Class(y.post) = Class(o) /\ y.n = F[Chan(np.post)] + 1 => y = x
<1> DEFINE p == np.post
<1>1. pending \in Seq(Numbered)
  BY DEF PostInv, NcclTypeOK
<1>2. posted[Class(p)] = F[Chan(p)] /\ \A q \in Pending : Class(q.post) # Class(p)
  <2>1. CanMeet(Pending, p)
    BY <1>1, CompletesMeets DEF Pending
  <2> QED BY <2>1, NewIsNext
<1>3. ASSUME NEW r \in Partners(p)
      PROVE  \E i \in DOMAIN pending :
               /\ FirstServing(pending, p, r) = {i} /\ Serves(pending[i].post, p, r)
               /\ Chan(pending[i].post) = Chan(p) /\ pending[i].n = F[Chan(p)] + 1 /\ pending[i] \in Pending
               /\ \A y \in Pending : Class(y.post) = Class(pending[i].post) /\ y.n = F[Chan(p)] + 1 => y = pending[i]
  <2>1. FirstServing(pending, p, r) # {}
    BY DEF Completes
  <2>2. PICK i \in DOMAIN pending : FirstServing(pending, p, r) = {i} /\ Serves(pending[i].post, p, r)
    BY <1>1, <2>1, ServingFirst
  <2> QED BY <2>2, FirstIsNext
<1>4. X = {pending[i] : i \in Chosen(pending, p)} \cup {np}
  BY DEF TakenSet
<1>5. ASSUME NEW x \in X PROVE x.n = F[Chan(p)] + 1 /\ Chan(x.post) = Chan(p)
  <2>1. CASE x = np
    BY <1>2, <2>1
  <2>2. CASE x # np
    <3>1. PICK j \in Chosen(pending, p) : x = pending[j]
      BY <1>4, <2>2
    <3>2. PICK r \in Partners(p) : j \in FirstServing(pending, p, r)
      BY <3>1 DEF Chosen
    <3>3. PICK i \in DOMAIN pending : /\ FirstServing(pending, p, r) = {i}
                                      /\ Chan(pending[i].post) = Chan(p) /\ pending[i].n = F[Chan(p)] + 1
      BY <1>3
    <3> QED BY <3>1, <3>2, <3>3
  <2> QED BY <2>1, <2>2
<1>6. ASSUME NEW o \in ProperPosts, Chan(o) = Chan(p), Class(o) # Class(p)
      PROVE  \E x \in X \cap Pending :
               /\ Class(x.post) = Class(o)
               /\ \A y \in Pending : Class(y.post) = Class(o) /\ y.n = F[Chan(p)] + 1 => y = x
  <2>1. o.rank \in Partners(p) /\ \A q \in ProperPosts : Serves(q, p, o.rank) <=> Class(q) = Class(o)
    BY <1>6, ChanClasses
  <2>2. PICK i \in DOMAIN pending :
               /\ FirstServing(pending, p, o.rank) = {i} /\ Serves(pending[i].post, p, o.rank)
               /\ pending[i] \in Pending
               /\ \A y \in Pending : Class(y.post) = Class(pending[i].post) /\ y.n = F[Chan(p)] + 1 => y = pending[i]
    BY <1>3, <2>1
  <2>3. Class(pending[i].post) = Class(o)
    BY <2>1, <2>2 DEF PostInv
  <2>4. pending[i] \in X
    BY <1>4, <2>1, <2>2 DEF Chosen
  <2> QED BY <2>2, <2>3, <2>4
<1> QED BY <1>2, <1>5, <1>6

LEMMA ParkLined ==
  ASSUME PostInv, Lined, NEW t \in Threads, ParkOrRun(t)
  PROVE  Lined'
<1> DEFINE np == Number(Head(todo[t]))
           X == TakenSet(pending, np)
           c == Class(np.post)
           h == Chan(np.post)
<1>1. /\ running[t] = {} /\ todo[t] # <<>>
      /\ posted' = [posted EXCEPT ![Class(Head(todo[t]))] = @ + 1] /\ UNCHANGED <<prog, ran>>
      /\ IF Completes(pending, np.post)
         THEN running' = [running EXCEPT ![t] = X] /\ pending' = RestOf(pending, np)
         ELSE pending' = Append(pending, np) /\ UNCHANGED running
  BY DEF ParkOrRun
<1>2. /\ np \in Numbered /\ np.post = Head(todo[t]) /\ np.post \in ProperPosts
      /\ np.n = posted[c] + 1 /\ np \notin Pending /\ c \in Kinds \X Ranks \X Ranks
  BY <1>1, NewPost
<1>3. posted' = [posted EXCEPT ![c] = @ + 1]
  BY <1>1, <1>2
<1> HIDE DEF np
<1>4. pending \in Seq(Numbered) /\ posted \in [Kinds \X Ranks \X Ranks -> Nat] /\ NcclTypeOK
  BY DEF PostInv, NcclTypeOK
<1>5. InLine
  BY <1>1, StuckParks DEF Lined
<1>6. PICK F \in [Chans -> Nat] : Tallied(F)
  BY DEF Lined
<1>7. NoneMeets
  BY DEF Lined
<1>8. h \in Chans /\ F[h] \in Nat /\ posted[c] \in Nat /\ posted'[c] = posted[c] + 1
  BY <1>2, <1>3, <1>4, ChanFacts
<1>9. ASSUME NEW o \in ProperPosts, Class(o) # c PROVE posted'[Class(o)] = posted[Class(o)]
  <2>1. Class(o) \in Kinds \X Ranks \X Ranks
    BY <1>6, ChanFacts
  <2> HIDE DEF c
  <2> QED BY <1>3, <1>4, <1>9, <2>1
<1>10. CASE Completes(pending, np.post)
  <2>1. running' = [running EXCEPT ![t] = X] /\ pending' = RestOf(pending, np)
    BY <1>1, <1>10
  <2>2. Pending' = Pending \ X
    <3>1. \A j, k \in DOMAIN pending : pending[j] = pending[k] => j = k
      BY DEF PostInv, PendingDiffer
    <3> QED BY <1>2, <1>4, <1>10, <2>1, <3>1, Taking DEF Pending
  <2>3. InLine'
    BY <1>5, <2>1, WithoutInLine DEF RestOf
  <2>4. NoneMeets'
    <3>1. Pending' \subseteq Pending
      BY <2>2
    <3> QED BY <1>7, <3>1, FewerMeet DEF NoneMeets
  <2> HIDE DEF X
  <2>5. /\ posted[c] = F[h] /\ \A q \in Pending : Class(q.post) # c
        /\ \A x \in X : x.n = F[h] + 1 /\ Chan(x.post) = h
        /\ \A o \in ProperPosts : Chan(o) = h /\ Class(o) # c =>
             \E x \in X \cap Pending :
               /\ Class(x.post) = Class(o)
               /\ \A y \in Pending : Class(y.post) = Class(o) /\ y.n = F[h] + 1 => y = x
    BY <1>2, <1>5, <1>6, <1>7, <1>10, TakenAreNext DEF X
  <2>6. MatchedInOrder'
    <3>1. \A S \in Sets' : S \in Sets \/ S = X
      BY <1>1, <1>4, <2>1 DEF Sets, NcclTypeOK
    <3>2. \A p, q \in X : p.n = q.n
      BY <2>5
    <3> QED BY <3>1, <3>2 DEF MatchedInOrder, Lined
  <2>7. PICK G \in [Chans -> Nat] : G[h] = F[h] + 1 /\ \A x \in Chans : x # h => G[x] = F[x]
    <3> DEFINE E == [F EXCEPT ![h] = F[h] + 1]
    <3>1. E \in [Chans -> Nat] /\ E[h] = F[h] + 1 /\ \A x \in Chans : x # h => E[x] = F[x]
      BY <1>8
    <3> QED BY <3>1
  <2>8. ASSUME NEW o \in ProperPosts
        PROVE  /\ G[Chan(o)] <= posted'[Class(o)]
               /\ {q.n : q \in {x \in Pending' : Class(x.post) = Class(o)}} = (G[Chan(o)] + 1)..posted'[Class(o)]
    <3> DEFINE Q == {x \in Pending : Class(x.post) = Class(o)}
    <3>1. /\ F[Chan(o)] <= posted[Class(o)] /\ {q.n : q \in Q} = (F[Chan(o)] + 1)..posted[Class(o)]
          /\ Chan(o) \in Chans /\ F[Chan(o)] \in Nat /\ posted[Class(o)] \in Nat
      <4>1. Class(o) \in Kinds \X Ranks \X Ranks
        BY <1>6, ChanFacts
      <4>2. posted[Class(o)] \in Nat
        BY <1>4, <4>1
      <4> QED BY <1>6, <4>2, ChanFacts DEF Tallied
    <3>2. {x \in Pending' : Class(x.post) = Class(o)} = Q \ X
      BY <2>2
    <3>3. CASE Chan(o) # h
      <4>1. Class(o) # c
        BY <3>3, ClassChan
      <4>2. Q \ X = Q
        <5>1. \A x \in Q : Chan(x.post) = Chan(o)
          BY ClassChan
        <5> QED BY <2>5, <3>3, <5>1
      <4>3. G[Chan(o)] = F[Chan(o)] /\ posted'[Class(o)] = posted[Class(o)]
        BY <1>9, <2>7, <3>1, <3>3, <4>1
      <4> HIDE DEF Q
      <4> QED BY <3>1, <3>2, <4>2, <4>3
    <3>4. CASE Class(o) = c
      <4>1. Chan(o) = h
        BY <3>4, ClassChan
      <4>2. Q = {}
        BY <2>5, <3>4
      <4>3. G[Chan(o)] = F[h] + 1 /\ posted'[Class(o)] = F[h] + 1
        <5>1. posted'[Class(o)] = posted'[c]
          BY <3>4
        <5> QED BY <1>8, <2>5, <2>7, <4>1, <5>1
      <4>4. {q.n : q \in Q \ X} = {}
        BY <4>2
      <4>5. (F[h] + 1 + 1)..(F[h] + 1) = {}
        BY <1>8
      <4> HIDE DEF Q
      <4>6. F[h] + 1 <= F[h] + 1
        BY <1>8
      <4> QED BY <3>2, <4>3, <4>4, <4>5, <4>6
    <3>5. CASE Chan(o) = h /\ Class(o) # c
      <4>1. PICK x \in X \cap Pending :
                   /\ Class(x.post) = Class(o)
                   /\ \A y \in Pending : Class(y.post) = Class(o) /\ y.n = F[h] + 1 => y = x
        BY <2>5, <3>5
      <4>2. x.n = F[h] + 1 /\ \A y \in X : y.n = F[h] + 1
        BY <2>5, <4>1
      <4>3. x \in Q /\ \A y \in Q : y.n = F[h] + 1 => y = x
        BY <4>1
      <4>4. {q.n : q \in Q} = (F[h] + 1)..posted[Class(o)]
        BY <3>1, <3>5
      <4>5. G[Chan(o)] = F[h] + 1 /\ posted'[Class(o)] = posted[Class(o)]
        BY <1>9, <2>7, <3>5
      <4> HIDE DEF Q
      <4>6. F[h] + 1 <= posted[Class(o)]
        <5>1. x.n \in (F[h] + 1)..posted[Class(o)]
          BY <4>3, <4>4
        <5> QED BY <1>8, <3>1, <4>2, <5>1
      <4>7. {q.n : q \in Q \ X} = {q.n : q \in Q} \ {F[h] + 1}
        <5>1. \A q \in Q : q \in X <=> q.n = F[h] + 1
          BY <4>1, <4>2, <4>3
        <5> QED BY <5>1
      <4>8. ((F[h] + 1)..posted[Class(o)]) \ {F[h] + 1} = (F[h] + 1 + 1)..posted[Class(o)]
        BY <1>8, <3>1
      <4>9. {q.n : q \in Q \ X} = (F[h] + 1 + 1)..posted[Class(o)]
        BY <4>4, <4>7, <4>8
      <4> QED BY <3>2, <4>5, <4>6, <4>9
    <3> QED BY <3>3, <3>4, <3>5
  <2>9. Tallied(G)'
    BY <2>8 DEF Tallied
  <2> QED BY <2>3, <2>4, <2>6, <2>7, <2>9 DEF Lined
<1>11. CASE ~Completes(pending, np.post)
  <2>1. pending' = Append(pending, np) /\ running' = running
    BY <1>1, <1>11
  <2>2. Pending' = Pending \cup {np}
    BY <1>2, <1>4, <2>1, AppendSet DEF Pending
  <2>3. NoneMeets'
    <3>1. ~CanMeet(Pending, np.post)
      BY <1>4, <1>11, CompletesMeets DEF Pending
    <3> QED BY <1>2, <1>7, <2>2, <3>1, OneMoreMeets DEF NoneMeets
  <2>4. ASSUME NEW q \in Pending, Class(q.post) = c PROVE q.n < np.n /\ q.n \in Nat
    <3>1. q.n <= posted[c] /\ q \in Numbered
      <4>1. q.n <= posted[Class(q.post)]
        BY DEF PostInv, Numbers
      <4>2. q \in Numbered
        BY <1>4 DEF Pending, ToSet
      <4> QED BY <2>4, <4>1, <4>2
    <3>2. q.n \in Nat
      BY <3>1 DEF Numbered
    <3> QED BY <1>2, <1>8, <3>1, <3>2
  <2>5. InLine'
    <3>1. /\ DOMAIN pending' = DOMAIN pending \cup {Len(pending) + 1} /\ Len(pending) \in Nat
          /\ pending'[Len(pending) + 1] = np
          /\ \A i \in DOMAIN pending : i \in Nat /\ i <= Len(pending) /\ pending'[i] = pending[i]
      BY <1>2, <1>4, <2>1, AppendSet
    <3>2. SUFFICES ASSUME NEW i \in DOMAIN pending', NEW j \in DOMAIN pending', i < j,
                          Class(pending'[i].post) = Class(pending'[j].post)
                   PROVE  pending'[i].n < pending'[j].n
      BY DEF InLine
    <3>3. i \in DOMAIN pending
      <4>1. i # Len(pending) + 1
        <5>1. j \in Nat /\ j <= Len(pending) + 1
          BY <3>1
        <5> QED BY <3>1, <3>2, <5>1
      <4> QED BY <3>1, <4>1
    <3>4. CASE j \in DOMAIN pending
      BY <1>5, <3>1, <3>2, <3>3, <3>4 DEF InLine
    <3>5. CASE j = Len(pending) + 1
      <4>1. pending[i] \in Pending
        BY <3>3 DEF Pending, ToSet
      <4> QED BY <2>4, <3>1, <3>2, <3>3, <3>5, <4>1
    <3> QED BY <3>1, <3>4, <3>5
  <2>6. MatchedInOrder'
    <3>1. Sets' = Sets
      BY <1>1, <2>1 DEF Sets
    <3> QED BY <3>1, SameSets DEF Lined
  <2>7. ASSUME NEW o \in ProperPosts
        PROVE  /\ F[Chan(o)] <= posted'[Class(o)]
               /\ {q.n : q \in {x \in Pending' : Class(x.post) = Class(o)}} = (F[Chan(o)] + 1)..posted'[Class(o)]
    <3> DEFINE Q == {x \in Pending : Class(x.post) = Class(o)}
               R == {x \in Pending' : Class(x.post) = Class(o)}
    <3>1. /\ F[Chan(o)] <= posted[Class(o)] /\ {q.n : q \in Q} = (F[Chan(o)] + 1)..posted[Class(o)]
          /\ F[Chan(o)] \in Nat
      BY <1>6, ChanFacts DEF Tallied
    <3>2. CASE Class(o) # c
      <4>1. R = Q
        BY <2>2, <3>2
      <4>2. posted'[Class(o)] = posted[Class(o)]
        BY <1>9, <3>2
      <4> HIDE DEF Q, R
      <4>3. {q.n : q \in R} = (F[Chan(o)] + 1)..posted'[Class(o)]
        BY <3>1, <4>1, <4>2
      <4> QED BY <3>1, <4>2, <4>3 DEF R
    <3>3. CASE Class(o) = c
      <4>1. R = Q \cup {np}
        BY <2>2, <3>3
      <4>2. {q.n : q \in R} = {q.n : q \in Q} \cup {posted[c] + 1}
        <5> HIDE DEF Q, R
        <5> QED BY <1>2, <4>1
      <4>3. posted'[Class(o)] = posted[c] + 1 /\ posted[Class(o)] = posted[c]
        BY <1>8, <3>3
      <4> HIDE DEF Q, R, c
      <4>4. ((F[Chan(o)] + 1)..posted[c]) \cup {posted[c] + 1} = (F[Chan(o)] + 1)..(posted[c] + 1)
        BY <1>8, <3>1, <4>3
      <4>5. {q.n : q \in R} = (F[Chan(o)] + 1)..posted'[Class(o)]
        BY <3>1, <4>2, <4>3, <4>4
      <4>6. F[Chan(o)] <= posted[c] + 1
        BY <1>8, <3>1, <4>3
      <4>7. F[Chan(o)] <= posted'[Class(o)]
        BY <4>3, <4>6
      <4> QED BY <4>5, <4>7 DEF R
    <3> QED BY <3>2, <3>3
  <2>8. Tallied(F)'
    BY <2>7 DEF Tallied
  <2> QED BY <1>6, <2>3, <2>5, <2>6, <2>8 DEF Lined
<1> QED BY <1>10, <1>11

LEMMA LinedBegin == ASSUME NcclInit, PostInv PROVE Lined
<1>1. pending = <<>> /\ posted = [x \in Kinds \X Ranks \X Ranks |-> 0] /\ \A S \in Sets : S = {}
  BY DEF NcclInit, Sets
<1>2. DOMAIN pending = {} /\ Pending = {}
  BY <1>1 DEF Pending, ToSet
<1>3. PICK F \in [Chans -> Nat] : \A x \in Chans : F[x] = 0
  <2> DEFINE Z == [x \in Chans |-> 0]
  <2>1. Z \in [Chans -> Nat] /\ \A x \in Chans : Z[x] = 0
    OBVIOUS
  <2> QED BY <2>1
<1>4. Tallied(F)
  <2> SUFFICES ASSUME NEW p \in ProperPosts
               PROVE  /\ F[Chan(p)] <= posted[Class(p)]
                      /\ {q.n : q \in {x \in Pending : Class(x.post) = Class(p)}} = (F[Chan(p)] + 1)..posted[Class(p)]
    BY DEF Tallied
  <2>1. Chan(p) \in Chans /\ Class(p) \in Kinds \X Ranks \X Ranks
    BY ChanFacts
  <2>2. F[Chan(p)] = 0 /\ posted[Class(p)] = 0
    BY <1>1, <1>3, <2>1
  <2>3. {q.n : q \in {x \in Pending : Class(x.post) = Class(p)}} = {}
    BY <1>2
  <2>4. 0 <= 0 /\ (0 + 1)..0 = {}
    OBVIOUS
  <2> QED BY <2>2, <2>3, <2>4
<1> QED BY <1>1, <1>2, <1>4 DEF Lined, NoneMeets, InLine, MatchedInOrder

LEMMA LinedStays == ASSUME Lined, UNCHANGED nvars PROVE Lined'
<1>1. UNCHANGED <<prog, pending, at, todo, parked, running, rc, posted, ran>>
  BY DEF nvars
<1>2. Pending' = Pending /\ Sets' = Sets
  BY <1>1 DEF Pending, Sets
<1>3. PICK F \in [Chans -> Nat] : Tallied(F)
  BY DEF Lined
<1>4. Tallied(F)'
  BY <1>1, <1>2, <1>3 DEF Tallied
<1>5. NoneMeets' /\ MatchedInOrder'
  BY <1>2 DEF Lined, NoneMeets, MatchedInOrder
<1>6. InLine' \/ Stuck'
  BY <1>1 DEF Lined, InLine, Stuck, Still, Mine
<1> QED BY <1>4, <1>5, <1>6 DEF Lined

LEMMA ProgStays == ASSUME [NcclNext]_nvars PROVE prog' = prog
  BY DEF NcclNext, Done, Step, Enter, ParkOrRun, RunReturns, WaitEnds, Poll, WaitTimesOut, nvars

LEMMA LinedStep ==
  ASSUME PostInv, PostInv', Usable, OneAtATime, Lined, [NcclNext]_nvars
  PROVE  Lined'
<1>1. ASSUME NEW t \in Threads, Enter(t) PROVE Lined'
  BY <1>1, EnterLined
<1>2. ASSUME NEW t \in Threads, Step(t) PROVE Lined'
  BY <1>2, ParkLined, RunLined, EndLined, PollLined DEF Step
<1>3. ASSUME NEW t \in Threads, WaitTimesOut(t) PROVE FALSE
  BY <1>3 DEF WaitTimesOut, OneAtATime
<1>4. ASSUME UNCHANGED nvars PROVE Lined'
  BY <1>4, LinedStays
<1> QED BY <1>1, <1>2, <1>3, <1>4 DEF NcclNext, Done

(* Whatever programs keep to Usable, in whatever order their threads make  *)
(* posts, take sets, poll and give up: sets are whole and disjoint, a      *)
(* pending post is one a thread waits for, none is lost, and single posts  *)
(* meet in the order they were made.                                       *)
THEOREM PostsAreKept ==
  ASSUME Usable
  PROVE  NcclSpec => []PostsKept
<1>1. NcclInit => NcclInv
  BY PostsBegin, LinedBegin DEF NcclInv
<1>2. NcclInv /\ [NcclNext]_nvars => NcclInv'
  <2> SUFFICES ASSUME NcclInv, [NcclNext]_nvars PROVE NcclInv'
    OBVIOUS
  <2>1. PostInv'
    BY PostsStep DEF NcclInv
  <2>2. OneAtATime' => OneAtATime
    BY ProgStays DEF OneAtATime, MayFail, SinglePosts, OneCaller
  <2>3. OneAtATime => Lined'
    BY <2>1, LinedStep DEF NcclInv
  <2> QED BY <2>1, <2>2, <2>3 DEF NcclInv
<1>3. NcclInv => PostsKept
  BY DEF NcclInv, PostInv, Lined, PostsKept, SinglesInOrder
<1> QED BY <1>1, <1>2, <1>3, PTL DEF NcclSpec
=============================================================================
