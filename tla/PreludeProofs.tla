--------------------------- MODULE PreludeProofs ---------------------------
(***************************************************************************)
(* Proofs about DevicePrelude.tla: spill slots are exclusive and their     *)
(* addresses can be rebuilt, and the 64-bit atomics can be put in an order *)
(* that explains every value they read and left.                           *)
(***************************************************************************)
EXTENDS DevicePrelude, FiniteSetTheorems, SequenceTheorems, WellFoundedInduction, TLAPS

-----------------------------------------------------------------------------
(* Spill slots *)

SlotIds == 0..(PoolSlots - 1)
Pool == [stride : Nat, base : Nat, count : [SlotIds -> Nat]]
Block == [st : {"queued", "probing", "running", "done"}, start : Nat, pool : Nat, need : Nat,
          threads : BlockSizes, at : SlotIds, slot : SlotIds, live : Nat]
SpillTypes == pools \in Seq(Pool) /\ blocks \in Seq(Block)

PoolOf(b) == pools[blocks[b].pool]
(* The slots of a block's pool are large enough for it. *)
Fits == \A b \in DOMAIN blocks : blocks[b].pool \in DOMAIN pools /\ Stride(blocks[b].need) <= PoolOf(b).stride
(* The counter of a slot in use is that of the block's threads that have   *)
(* not returned; a slot across a boundary is never in use.                 *)
Counted ==
  \A b \in Running : /\ PoolOf(b).count[blocks[b].slot] = blocks[b].live /\ blocks[b].live > 0
                     /\ ~Crosses(PoolOf(b), blocks[b].slot)
CrossingMarked == \A n \in DOMAIN pools : \A i \in SlotIds : Crosses(pools[n], i) => pools[n].count[i] = Marked
SlotApart == \A b, c \in Running : b # c /\ blocks[b].pool = blocks[c].pool => blocks[b].slot # blocks[c].slot

SpillInv == SpillTypes /\ Fits /\ Counted /\ CrossingMarked /\ SlotApart

-----------------------------------------------------------------------------
(* 64-bit atomics *)

Lane == [won : BOOLEAN, done : BOOLEAN, old : Nat]
AtomicTypes ==
  /\ atomics \in Atomics \cup {<<>>}
  /\ warpAt \in [{l[1] : l \in DOMAIN atomics} -> {"try", "read", "write", "unlock"}]
  /\ lane \in [DOMAIN atomics -> Lane]
  /\ locks \in [0..(LockCount - 1) -> BOOLEAN]
  /\ cell \in [Addresses -> Nat]

LaneLock(l) == LockOf(atomics[l].cell)
Won == {l \in DOMAIN lane : lane[l].won}
(* A lane that has a lock is the only one, and its warp is past the try.   *)
LocksHeld ==
  /\ \A l \in Won : ~lane[l].done /\ locks[LaneLock(l)] /\ warpAt[l[1]] # "try"
  /\ \A l, m \in Won : LaneLock(l) = LaneLock(m) => l = m
(* Between its read and its write nobody changes the value a lane has read.*)
ReadsKept == \A l \in Won : warpAt[l[1]] = "write" => lane[l].old = cell[atomics[l].cell]

(* The operations whose result is in memory. *)
Made == {l \in DOMAIN lane : lane[l].done \/ (lane[l].won /\ warpAt[l[1]] = "unlock")}
Explains(order) ==
  /\ \A i \in DOMAIN order : Stands(order, atomics[order[i]].cell, i - 1, lane[order[i]].old)
  /\ \A a \in DOMAIN cell : Stands(order, a, Cardinality(Made), cell[a])
Explained == \E order \in SetToSeqs(Made) : Explains(order)

AtomicInv == AtomicTypes /\ LocksHeld /\ ReadsKept /\ Explained
PreludeInv == SpillInv /\ AtomicInv
-----------------------------------------------------------------------------
(* Arithmetic *)

LEMMA MaxExists ==
  ASSUME NEW S \in SUBSET Nat, IsFiniteSet(S), S # {}
  PROVE  Max(S) \in S /\ \A y \in S : Max(S) >= y
<1> DEFINE HasMax(T) == \E x \in T : \A y \in T : x >= y
<1> DEFINE Bad == {T \in SUBSET S : T # {} /\ ~HasMax(T)}
<1>1. IsWellFoundedOn(StrictSubsetOrdering(S), FiniteSubsetsOf(S))
  BY FS_StrictSubsetOrderingWellFounded
<1>2. FiniteSubsetsOf(S) = SUBSET S
  BY FS_FiniteSubsetsOfFinite
<1>3. Bad = {}
  <2>1. SUFFICES ASSUME Bad # {} PROVE FALSE
    OBVIOUS
  <2>2. Bad \subseteq FiniteSubsetsOf(S)
    BY <1>2
  <2>3. PICK T \in Bad : \A U \in Bad : <<U, T>> \notin StrictSubsetOrdering(S)
    <3> HIDE DEF Bad
    <3> QED BY <1>1, <2>1, <2>2, WFMin
  <2>4. PICK x \in T : TRUE
    BY <2>3
  <2>5. T \ {x} \notin Bad
    <3>1. T \ {x} \in SUBSET S /\ T \in SUBSET S /\ T \ {x} # T
      BY <2>3, <2>4
    <3> QED BY <2>3, <3>1 DEF StrictSubsetOrdering
  <2>6. CASE T = {x}
    <3>1. x \in Nat
      BY <2>3, <2>4
    <3> QED BY <2>3, <2>6, <3>1
  <2>7. CASE T # {x}
    <3>1. T \ {x} # {} /\ T \ {x} \in SUBSET S
      BY <2>3, <2>4, <2>7
    <3>2. PICK y \in T \ {x} : \A z \in T \ {x} : y >= z
      BY <2>5, <3>1
    <3>3. x \in Nat /\ y \in Nat /\ T \subseteq Nat
      BY <2>3, <2>4, <3>2
    <3>4. CASE x >= y
      <4>1. \A z \in T : x >= z
        BY <3>2, <3>3, <3>4
      <4> QED BY <2>3, <2>4, <4>1
    <3>5. CASE y >= x
      <4>1. \A z \in T : y >= z
        BY <3>2, <3>3, <3>5
      <4> QED BY <2>3, <3>2, <4>1
    <3> QED BY <3>3, <3>4, <3>5
  <2> QED BY <2>6, <2>7
<1>4. HasMax(S)
  BY <1>3
<1> QED BY <1>4 DEF Max

LEMMA MarkedPositive == Marked \in Nat /\ Marked > 0
<1>1. BlockSizes \in SUBSET Nat /\ IsFiniteSet(BlockSizes) /\ BlockSizes # {}
  BY PreludeAssumption
<1>2. Max(BlockSizes) \in Nat
  BY <1>1, MaxExists
<1> QED BY <1>2 DEF Marked

LEMMA MaxOfTwo ==
  ASSUME NEW a \in Nat, NEW b \in Nat
  PROVE  Max({a, b}) \in Nat
<1>1. \E x \in {a, b} : \A y \in {a, b} : x >= y
  OBVIOUS
<1> QED BY <1>1 DEF Max

(* Division by a positive number: the quotient and what is left. *)
LEMMA Divided ==
  ASSUME NEW a \in Nat, NEW n \in Nat, n > 0
  PROVE  /\ a \div n \in Nat /\ a % n \in 0..(n - 1)
         /\ a = n * (a \div n) + (a % n)
OBVIOUS

LEMMA StrideEnough ==
  ASSUME NEW need \in Nat
  PROVE  Stride(need) \in Nat /\ need <= Stride(need)
<1>1. Unit \in Nat /\ Unit > 0
  BY PreludeAssumption
<1> DEFINE q == (need + Unit - 1) \div Unit
<1>2. need + Unit - 1 \in Nat
  BY <1>1
<1>3. /\ q \in Nat /\ (need + Unit - 1) % Unit \in 0..(Unit - 1)
      /\ need + Unit - 1 = Unit * q + ((need + Unit - 1) % Unit)
  BY <1>1, <1>2, Divided
<1>4. q * Unit \in Nat /\ Unit * q = q * Unit
  BY <1>1, <1>3
<1>5. need <= q * Unit
  <2> HIDE DEF q
  <2> QED BY <1>1, <1>3, <1>4
<1> QED BY <1>4, <1>5 DEF Stride

LEMMA TimesNext ==
  ASSUME NEW x \in Nat, NEW y \in Nat, NEW w \in Nat, x < y
  PROVE  x * w + w <= y * w
<1> DEFINE d == y - x - 1
<1>1. d \in Nat /\ y = x + 1 + d
  OBVIOUS
<1>2. (x + 1 + d) * w = x * w + w + d * w /\ d * w \in Nat /\ x * w \in Nat
  <2> HIDE DEF d
  <2> QED BY <1>1
<1> QED BY <1>1, <1>2

LEMMA TimesInjective ==
  ASSUME NEW x \in Nat, NEW y \in Nat, NEW w \in Nat, w > 0, x * w = y * w
  PROVE  x = y
<1>1. x * w \in Nat /\ y * w \in Nat
  OBVIOUS
<1>2. ~(x < y) /\ ~(y < x)
  BY <1>1, TimesNext
<1> QED BY <1>2

(* A number with a smaller quotient is smaller. *)
LEMMA TimesBelow ==
  ASSUME NEW x \in Nat, NEW y \in Nat, NEW w \in Nat, x < y,
         NEW r \in 0..(w - 1), NEW s \in 0..(w - 1)
  PROVE  w * x + r < w * y + s
<1>1. x * w + w <= y * w /\ x * w \in Nat /\ y * w \in Nat /\ w * x = x * w /\ w * y = y * w
  BY TimesNext
<1> QED BY <1>1

(* Two addresses with the same high half: the high half of the first and   *)
(* the low half of the second are the second, and so for all in between.   *)
LEMMA HighSame ==
  ASSUME NEW a \in Nat, NEW n \in Nat, NEW m \in Nat, n <= m, High(a) = High(a + m)
  PROVE  High(a) + ((a + n) % Window) = a + n
<1>1. Window \in Nat /\ Window > 0
  BY PreludeAssumption
<1> DEFINE qa == a \div Window  qn == (a + n) \div Window  qm == (a + m) \div Window
<1>2. qa \in Nat /\ a % Window \in 0..(Window - 1) /\ a = Window * qa + (a % Window)
  BY <1>1, Divided
<1>3. qn \in Nat /\ (a + n) % Window \in 0..(Window - 1) /\ a + n = Window * qn + ((a + n) % Window)
  BY <1>1, Divided
<1>4. qm \in Nat /\ (a + m) % Window \in 0..(Window - 1) /\ a + m = Window * qm + ((a + m) % Window)
  BY <1>1, Divided
<1>5. qa * Window = qm * Window
  BY DEF High
<1>6. qa = qm
  <2> HIDE DEF qa, qm
  <2> QED BY <1>1, <1>2, <1>4, <1>5, TimesInjective
<1>7. qn = qa
  <2>1. Window * qm <= a + m /\ a + n <= a + m /\ a <= a + n
    <3> HIDE DEF qa, qm, qn
    <3>1. Window * qm \in Nat
      BY <1>1, <1>4
    <3> QED BY <1>4, <3>1
  <2>2. ~(qn < qa)
    <3> HIDE DEF qa, qm, qn
    <3> QED BY <1>1, <1>2, <1>3, <2>1, TimesBelow
  <2>3. ~(qm < qn)
    <3> HIDE DEF qa, qm, qn
    <3> QED BY <1>1, <1>3, <1>4, <2>1, TimesBelow
  <2> HIDE DEF qa, qm, qn
  <2> QED BY <1>2, <1>3, <1>4, <1>6, <2>2, <2>3
<1>8. High(a) = Window * qn
  BY <1>1, <1>2, <1>7 DEF High
<1> QED BY <1>3, <1>8
LEMMA MinExists ==
  ASSUME NEW S \in SUBSET Nat, S # {}
  PROVE  Min(S) \in S
<1> DEFINE Less == {ss \in Nat \X Nat : ss[1] < ss[2]}
<1>1. IsWellFoundedOn(Less, Nat)
  BY NatLessThanWellFounded DEF OpToRel
<1> HIDE DEF Less
<1>2. PICK x \in S : \A y \in S : ~(<<y, x>> \in Less)
  BY <1>1, WFMin
<1>3. ASSUME NEW y \in S PROVE x <= y
  <2>1. <<y, x>> \in Nat \X Nat /\ ~(<<y, x>> \in Less) /\ x \in Nat /\ y \in Nat
    BY <1>2
  <2>2. ~(y < x)
    BY <2>1 DEF Less
  <2> QED BY <2>1, <2>2
<1> QED BY <1>2, <1>3 DEF Min

-----------------------------------------------------------------------------
(* Spill slots: every step keeps SpillInv *)

LEMMA PreludeNumbers ==
  /\ PoolSlots \in Nat /\ PoolSlots > 1 /\ Grid \in Nat /\ 0 \in SlotIds
  /\ Needs \subseteq Nat /\ Places \subseteq Nat /\ BlockSizes \subseteq Nat \ {0}
BY PreludeAssumption DEF SlotIds

LEMMA NewPoolGood ==
  ASSUME NEW stride \in Nat, NEW base \in Nat
  PROVE  /\ NewPool(stride, base) \in Pool /\ NewPool(stride, base).stride = stride
         /\ \A i \in SlotIds : Crosses(NewPool(stride, base), i) => NewPool(stride, base).count[i] = Marked
<1> DEFINE p == [stride |-> stride, base |-> base, count |-> <<>>]
           q == NewPool(stride, base)
<1>1. q = [stride |-> stride, base |-> base,
           count |-> [i \in SlotIds |-> IF Crosses(p, i) THEN Marked ELSE 0]]
  <2> DEFINE f == [i \in SlotIds |-> IF Crosses(p, i) THEN Marked ELSE 0]
  <2>1. q = [p EXCEPT !.count = f]
    BY Zenon DEF NewPool, SlotIds
  <2> HIDE DEF f, q
  <2>2. [p EXCEPT !.count = f] = [stride |-> stride, base |-> base, count |-> f]
    OBVIOUS
  <2> QED BY <2>1, <2>2 DEF f
<1>2. \A i \in SlotIds : Crosses(q, i) = Crosses(p, i)
  BY <1>1 DEF Crosses, SlotAt
<1>3. [i \in SlotIds |-> IF Crosses(p, i) THEN Marked ELSE 0] \in [SlotIds -> Nat]
  BY MarkedPositive
<1> HIDE DEF p
<1>4. q \in Pool
  BY <1>1, <1>3 DEF Pool
<1> QED BY <1>1, <1>2, <1>4

(* The pool found for a kernel, or made for it, is large enough. *)
LEMMA PoolFound ==
  ASSUME SpillInv, NEW need \in Nat, NEW base \in Nat
  PROVE  LET p == spill_pool(need, base)
         IN  /\ p.all \in Seq(Pool) /\ p.n \in DOMAIN p.all /\ p.n \in Nat
             /\ Stride(need) <= p.all[p.n].stride
             /\ \A n \in DOMAIN pools : n \in DOMAIN p.all /\ p.all[n] = pools[n]
             /\ \A n \in DOMAIN p.all : \A i \in SlotIds : Crosses(p.all[n], i) => p.all[n].count[i] = Marked
<1> DEFINE p == spill_pool(need, base)
           fit == {n \in DOMAIN pools : pools[n].stride >= Stride(need)}
           new == NewPool(Stride(need), base)
<1>1. pools \in Seq(Pool) /\ DOMAIN pools = 1..Len(pools) /\ Len(pools) \in Nat
  BY DEF SpillInv, SpillTypes
<1>2. Stride(need) \in Nat
  BY StrideEnough
<1>3. CASE fit # {}
  <2>1. fit \in SUBSET Nat
    BY <1>1
  <2>2. Min(fit) \in fit
    BY <1>3, <2>1, MinExists
  <2>3. p.all = pools /\ p.n = Min(fit)
    BY <1>3 DEF spill_pool
  <2>4. p.n \in DOMAIN pools /\ p.n \in Nat /\ pools[p.n].stride >= Stride(need) /\ pools[p.n].stride \in Nat
    <3>1. \A n \in DOMAIN pools : n \in Nat /\ pools[n] \in Pool
      BY <1>1
    <3>2. \A n \in DOMAIN pools : pools[n].stride \in Nat
      BY <3>1 DEF Pool
    <3> HIDE DEF p
    <3> QED BY <2>2, <2>3, <3>1, <3>2
  <2> HIDE DEF p, fit
  <2> QED BY <1>1, <1>2, <2>3, <2>4 DEF SpillInv, CrossingMarked, p
<1>4. CASE fit = {}
  <2>1. p.all = Append(pools, new) /\ p.n = Len(pools) + 1
    BY <1>4 DEF spill_pool
  <2>2. /\ new \in Pool /\ new.stride = Stride(need)
        /\ \A i \in SlotIds : Crosses(new, i) => new.count[i] = Marked
    BY <1>2, NewPoolGood
  <2> HIDE DEF p, fit, new
  <2>3. /\ p.all \in Seq(Pool) /\ Len(p.all) = Len(pools) + 1 /\ p.all[p.n] = new
        /\ \A n \in 1..Len(pools) : p.all[n] = pools[n]
    BY <1>1, <2>1, <2>2, AppendProperties
  <2>4. DOMAIN p.all = 1..(Len(pools) + 1)
    BY <2>3
  <2>5. \A n \in DOMAIN p.all : n \in DOMAIN pools \/ n = p.n
    BY <1>1, <2>1, <2>4
  <2>6. p.n \in DOMAIN p.all /\ p.n \in Nat /\ Stride(need) <= p.all[p.n].stride
    BY <1>1, <1>2, <2>1, <2>2, <2>3, <2>4
  <2>7. \A n \in DOMAIN pools : n \in DOMAIN p.all /\ p.all[n] = pools[n]
    BY <1>1, <2>3, <2>4
  <2> QED BY <2>2, <2>3, <2>5, <2>6, <2>7 DEF SpillInv, CrossingMarked, p
<1> QED BY <1>3, <1>4

LEMMA EncodeKeeps ==
  ASSUME SpillInv, NEW need \in Needs, NEW threads \in BlockSizes, NEW base \in Places, encode_kernel(need, threads, base)
  PROVE  SpillInv'
<1> DEFINE p == spill_pool(need, base)
           more == [b \in 1..Grid |-> [st |-> "queued", start |-> b - 1, pool |-> p.n, need |-> need,
                                       threads |-> threads, at |-> 0, slot |-> 0, live |-> 0]]
<1>1. pools' = p.all /\ blocks' = blocks \o more
  BY DEF encode_kernel
<1>2. need \in Nat /\ base \in Nat /\ Grid \in Nat /\ 0 \in SlotIds
  BY PreludeNumbers
<1>3. /\ p.all \in Seq(Pool) /\ p.n \in DOMAIN p.all /\ p.n \in Nat
      /\ Stride(need) <= p.all[p.n].stride
      /\ \A n \in DOMAIN pools : n \in DOMAIN p.all /\ p.all[n] = pools[n]
      /\ \A n \in DOMAIN p.all : \A i \in SlotIds : Crosses(p.all[n], i) => p.all[n].count[i] = Marked
  BY <1>2, PoolFound
<1> HIDE DEF p
<1>4. /\ more \in Seq(Block) /\ Len(more) = Grid
      /\ \A b \in 1..Grid : more[b].st = "queued" /\ more[b].pool = p.n /\ more[b].need = need
  <2>1. more \in [1..Grid -> Block]
    <3>1. \A b \in 1..Grid : b - 1 \in Nat
      BY <1>2
    <3> QED BY <1>2, <1>3, <3>1 DEF Block
  <2> QED BY <1>2, <2>1
<1> HIDE DEF more
<1>5. blocks \in Seq(Block) /\ DOMAIN blocks = 1..Len(blocks) /\ Len(blocks) \in Nat
  BY DEF SpillInv, SpillTypes
<1>6. /\ blocks' \in Seq(Block) /\ Len(blocks') = Len(blocks) + Grid
      /\ \A b \in 1..(Len(blocks) + Grid) :
            blocks'[b] = IF b <= Len(blocks) THEN blocks[b] ELSE more[b - Len(blocks)]
  BY <1>1, <1>4, <1>5, ConcatProperties
<1>7. DOMAIN blocks' = 1..(Len(blocks) + Grid)
  BY <1>6
<1>8. \A b \in DOMAIN blocks' :
        \/ b \in DOMAIN blocks /\ blocks'[b] = blocks[b]
        \/ blocks'[b].st = "queued" /\ blocks'[b].pool = p.n /\ blocks'[b].need = need
  <2> TAKE b \in DOMAIN blocks'
  <2>1. CASE b <= Len(blocks)
    BY <1>2, <1>5, <1>6, <1>7, <2>1
  <2>2. CASE ~(b <= Len(blocks))
    <3>1. b - Len(blocks) \in 1..Grid /\ blocks'[b] = more[b - Len(blocks)]
      BY <1>2, <1>5, <1>6, <1>7, <2>2
    <3> QED BY <1>4, <3>1
  <2> QED BY <2>1, <2>2
<1>9. \A b \in Running' : b \in Running /\ blocks'[b] = blocks[b] /\ blocks[b].pool \in DOMAIN pools
                          /\ PoolOf(b)' = PoolOf(b)
  <2>1. \A b \in Running' : b \in Running /\ blocks'[b] = blocks[b]
    BY <1>8 DEF Running
  <2> QED BY <1>1, <1>3, <2>1 DEF Running, PoolOf, SpillInv, Fits
<1>10. SpillTypes'
  BY <1>1, <1>3, <1>6 DEF SpillTypes
<1>11. Fits'
  BY <1>1, <1>3, <1>8 DEF SpillInv, Fits, PoolOf
<1>12. Counted'
  BY <1>9 DEF SpillInv, Counted, Crosses, SlotAt, High
<1>13. CrossingMarked'
  BY <1>1, <1>3 DEF CrossingMarked, Crosses, SlotAt, High
<1>14. SlotApart'
  BY <1>9 DEF SpillInv, SlotApart
<1> QED BY <1>10, <1>11, <1>12, <1>13, <1>14 DEF SpillInv
(* A step that changes one block, and the counter of one slot. *)
LEMMA BlockMember ==
  ASSUME SpillInv, NEW b \in DOMAIN blocks
  PROVE  /\ blocks[b] \in Block /\ blocks[b].pool \in DOMAIN pools /\ PoolOf(b) \in Pool
         /\ Stride(blocks[b].need) <= PoolOf(b).stride
<1>1. blocks[b] \in Block
  BY DEF SpillInv, SpillTypes
<1>2. blocks[b].pool \in DOMAIN pools /\ Stride(blocks[b].need) <= PoolOf(b).stride
  BY DEF SpillInv, Fits
<1>3. PoolOf(b) \in Pool
  BY <1>2 DEF SpillInv, SpillTypes, PoolOf
<1> QED BY <1>1, <1>2, <1>3

LEMMA RunningMember ==
  ASSUME SpillInv, NEW x \in Running
  PROVE  x \in DOMAIN blocks /\ blocks[x].pool \in DOMAIN pools /\ blocks[x].slot \in SlotIds
<1>1. x \in DOMAIN blocks
  BY DEF Running
<1>2. blocks[x] \in Block /\ blocks[x].pool \in DOMAIN pools
  BY <1>1, BlockMember
<1> QED BY <1>1, <1>2 DEF Block

(* A step of one block that is not running keeps the pools. *)
LEMMA WaitingKeeps ==
  ASSUME SpillInv, NEW b \in DOMAIN blocks, NEW c \in Block, UNCHANGED pools,
         blocks[b].st # "running", c.st # "running", c.pool = blocks[b].pool, c.need = blocks[b].need,
         blocks' = [blocks EXCEPT ![b] = c]
  PROVE  SpillInv'
<1>1. DOMAIN blocks' = DOMAIN blocks /\ blocks'[b] = c /\ \A x \in DOMAIN blocks : x # b => blocks'[x] = blocks[x]
  BY DEF SpillInv, SpillTypes
<1>2. blocks' \in Seq(Block)
  <2>1. blocks \in Seq(Block)
    BY DEF SpillInv, SpillTypes
  <2> QED BY <2>1
<1>3. \A x \in Running' : x \in Running /\ blocks'[x] = blocks[x]
  BY <1>1 DEF Running
<1>4. SpillTypes'
  BY <1>2 DEF SpillInv, SpillTypes
<1>5. Fits'
  BY <1>1 DEF SpillInv, Fits, PoolOf
<1>6. Counted'
  BY <1>3 DEF SpillInv, Counted, PoolOf, Crosses, SlotAt, High
<1>7. CrossingMarked'
  BY DEF SpillInv, CrossingMarked, Crosses, SlotAt, High
<1>8. SlotApart'
  BY <1>3 DEF SpillInv, SlotApart
<1> QED BY <1>4, <1>5, <1>6, <1>7, <1>8 DEF SpillInv

LEMMA DispatchKeeps ==
  ASSUME SpillInv, NEW b \in DOMAIN blocks, Dispatch(b)
  PROVE  SpillInv'
<1> DEFINE c == [blocks[b] EXCEPT !.st = "probing", !.at = blocks[b].start % PoolSlots]
<1>1. blocks[b] \in Block
  BY BlockMember
<1>2. blocks[b].start % PoolSlots \in SlotIds
  <2>1. blocks[b].start \in Nat /\ PoolSlots \in Nat /\ PoolSlots > 0
    BY <1>1, PreludeNumbers DEF Block
  <2> QED BY <2>1 DEF SlotIds
<1>3. c \in Block /\ c.st # "running" /\ c.pool = blocks[b].pool /\ c.need = blocks[b].need
  <2> DEFINE at == blocks[b].start % PoolSlots
  <2>1. at \in SlotIds
    BY <1>2
  <2> HIDE DEF at
  <2>2. c = [blocks[b] EXCEPT !.st = "probing", !.at = at]
    BY DEF at
  <2> QED BY <1>1, <2>1, <2>2 DEF Block
<1>4. UNCHANGED pools /\ blocks[b].st # "running" /\ blocks' = [blocks EXCEPT ![b] = c]
  BY DEF Dispatch
<1> HIDE DEF c
<1> QED BY <1>3, <1>4, WaitingKeeps

LEMMA ProbeKeeps ==
  ASSUME SpillInv, NEW b \in DOMAIN blocks, ProbeOn(b)
  PROVE  SpillInv'
<1> DEFINE at == IF blocks[b].at + 1 = PoolSlots THEN 0 ELSE blocks[b].at + 1
           c == [blocks[b] EXCEPT !.at = at]
<1>1. blocks[b] \in Block
  BY BlockMember
<1>2. at \in SlotIds
  <2>1. blocks[b].at \in SlotIds
    BY <1>1 DEF Block
  <2> QED BY <2>1, PreludeNumbers DEF SlotIds
<1>3. UNCHANGED pools /\ blocks[b].st # "running" /\ blocks' = [blocks EXCEPT ![b] = c] /\ blocks[b].st = "probing"
  BY DEF ProbeOn
<1> HIDE DEF at
<1>4. c \in Block /\ c.st # "running" /\ c.pool = blocks[b].pool /\ c.need = blocks[b].need
  BY <1>1, <1>2, <1>3 DEF Block
<1> HIDE DEF c
<1> QED BY <1>3, <1>4, WaitingKeeps
CountBecomes(n, i, k) ==
  /\ pools' \in Seq(Pool) /\ DOMAIN pools' = DOMAIN pools
  /\ \A m \in DOMAIN pools : pools'[m].stride = pools[m].stride /\ pools'[m].base = pools[m].base
  /\ \A m \in DOMAIN pools : \A j \in SlotIds :
        pools'[m].count[j] = IF m = n /\ j = i THEN k ELSE pools[m].count[j]

LEMMA CountChanged ==
  ASSUME pools \in Seq(Pool), NEW n \in DOMAIN pools, NEW i \in SlotIds, NEW k \in Nat,
         pools' = [pools EXCEPT ![n].count[i] = k]
  PROVE  CountBecomes(n, i, k)
<1> DEFINE f == [pools[n].count EXCEPT ![i] = k]
           q == [pools[n] EXCEPT !.count = f]
<1>1. pools[n] \in Pool
  OBVIOUS
<1>2. pools[n].count \in [SlotIds -> Nat]
  BY <1>1 DEF Pool
<1>3. f \in [SlotIds -> Nat] /\ \A j \in SlotIds : f[j] = IF j = i THEN k ELSE pools[n].count[j]
  BY <1>2
<1>4. pools' = [pools EXCEPT ![n] = q]
  OBVIOUS
<1> HIDE DEF f
<1>5. q \in Pool /\ q.stride = pools[n].stride /\ q.base = pools[n].base /\ q.count = f
  BY <1>1, <1>3 DEF Pool
<1> HIDE DEF q
<1>6. pools' \in Seq(Pool) /\ DOMAIN pools' = DOMAIN pools
  BY <1>4, <1>5
<1>7. \A m \in DOMAIN pools : pools'[m] = IF m = n THEN q ELSE pools[m]
  BY <1>4
<1> QED BY <1>3, <1>5, <1>6, <1>7 DEF CountBecomes

LEMMA AcquireKeeps ==
  ASSUME SpillInv, NEW b \in DOMAIN blocks, spill_acquire(b)
  PROVE  SpillInv'
<1> DEFINE n == blocks[b].pool  i == blocks[b].at  k == blocks[b].threads
           c == [blocks[b] EXCEPT !.st = "running", !.slot = i, !.live = k]
<1>1. blocks[b] \in Block /\ n \in DOMAIN pools /\ Stride(blocks[b].need) <= PoolOf(b).stride
  BY BlockMember
<1>2. i \in SlotIds /\ k \in Nat /\ k > 0
  <2>1. i \in SlotIds /\ k \in BlockSizes
    BY <1>1 DEF Block
  <2> HIDE DEF i, k
  <2> QED BY <2>1, PreludeNumbers
<1>3. blocks[b].st = "probing" /\ pools[n].count[i] = 0
  BY DEF spill_acquire
<1>4. pools' = [pools EXCEPT ![n].count[i] = k] /\ blocks' = [blocks EXCEPT ![b] = c]
  BY DEF spill_acquire
<1> HIDE DEF i, k
<1>5. c \in Block /\ c.st = "running" /\ c.pool = n /\ c.need = blocks[b].need /\ c.slot = i /\ c.live = k
  BY <1>1, <1>2 DEF Block
<1> HIDE DEF n, c
<1>6. /\ pools' \in Seq(Pool) /\ DOMAIN pools' = DOMAIN pools
      /\ \A m \in DOMAIN pools : pools'[m].stride = pools[m].stride /\ pools'[m].base = pools[m].base
      /\ \A m \in DOMAIN pools : \A j \in SlotIds :
            pools'[m].count[j] = IF m = n /\ j = i THEN k ELSE pools[m].count[j]
  <2>1. pools \in Seq(Pool)
    BY DEF SpillInv, SpillTypes
  <2>2. n \in DOMAIN pools /\ i \in SlotIds /\ k \in Nat /\ pools' = [pools EXCEPT ![n].count[i] = k]
    BY <1>1, <1>2, <1>4
  <2>3. CountBecomes(n, i, k)
    BY <2>1, <2>2, CountChanged
  <2> QED BY <2>3 DEF CountBecomes
<1>7. blocks \in Seq(Block)
  BY DEF SpillInv, SpillTypes
<1>8. blocks' \in Seq(Block) /\ DOMAIN blocks' = DOMAIN blocks
  BY <1>4, <1>5, <1>7
<1>9. \A x \in DOMAIN blocks : blocks'[x] = IF x = b THEN c ELSE blocks[x]
  BY <1>4, <1>7
<1>10. b \notin Running /\ Running' = Running \cup {b}
  BY <1>3, <1>5, <1>8, <1>9 DEF Running
(* A slot whose counter is 0 is nobody's, and crosses no boundary. *)
<1>11. \A x \in Running : ~(blocks[x].pool = n /\ blocks[x].slot = i)
  BY <1>3 DEF SpillInv, Counted, PoolOf
<1>12. ~Crosses(pools[n], i)
  BY <1>1, <1>2, <1>3, MarkedPositive DEF SpillInv, CrossingMarked
<1>13. \A m \in DOMAIN pools : \A j \in SlotIds : Crosses(pools'[m], j) = Crosses(pools[m], j)
  BY <1>6 DEF Crosses, SlotAt
<1>14. \A x \in Running : x \in DOMAIN blocks /\ blocks[x].pool \in DOMAIN pools /\ blocks[x].slot \in SlotIds /\ blocks'[x] = blocks[x]
  BY <1>9, <1>10, RunningMember
<1>15. SpillTypes'
  BY <1>6, <1>8 DEF SpillTypes
<1>16. Fits'
  BY <1>1, <1>5, <1>6, <1>8, <1>9 DEF SpillInv, Fits, PoolOf, n
<1>17. Counted'
  <2>1. \A x \in Running : /\ PoolOf(x).count[blocks[x].slot] = blocks[x].live /\ blocks[x].live > 0
                           /\ ~Crosses(PoolOf(x), blocks[x].slot)
    BY DEF SpillInv, Counted
  <2>2. \A x \in Running : /\ (PoolOf(x).count[blocks[x].slot] = blocks[x].live /\ blocks[x].live > 0)'
                           /\ ~Crosses(PoolOf(x), blocks[x].slot)'
    <3> TAKE x \in Running
    <3> DEFINE m == blocks[x].pool  j == blocks[x].slot
    <3>1. m \in DOMAIN pools /\ j \in SlotIds /\ blocks'[x] = blocks[x] /\ ~(m = n /\ j = i)
      BY <1>11, <1>14
    <3>2. PoolOf(x)' = pools'[m] /\ PoolOf(x) = pools[m]
      BY <3>1 DEF PoolOf
    <3>3. pools'[m].count[j] = pools[m].count[j] /\ Crosses(pools'[m], j) = Crosses(pools[m], j)
      BY <1>6, <1>13, <3>1
    <3>4. Crosses(PoolOf(x), blocks[x].slot)' = Crosses(pools'[m], j)
      BY <3>1, <3>2 DEF Crosses, SlotAt, High
    <3> QED BY <2>1, <3>1, <3>2, <3>3, <3>4
  <2>3. /\ (PoolOf(b).count[blocks[b].slot] = blocks[b].live /\ blocks[b].live > 0)'
        /\ ~Crosses(PoolOf(b), blocks[b].slot)'
    <3>1. PoolOf(b)' = pools'[n] /\ blocks'[b] = c
      BY <1>5, <1>9 DEF PoolOf
    <3>2. Crosses(PoolOf(b), blocks[b].slot)' = Crosses(pools'[n], i)
      BY <1>5, <3>1 DEF Crosses, SlotAt, High
    <3> QED BY <1>1, <1>2, <1>5, <1>6, <1>12, <1>13, <3>1, <3>2
  <2> QED BY <1>10, <2>2, <2>3 DEF Counted
<1>18. CrossingMarked'
  <2>1. \A m \in DOMAIN pools : \A j \in SlotIds : Crosses(pools'[m], j) => pools'[m].count[j] = Marked
    BY <1>6, <1>12, <1>13 DEF SpillInv, CrossingMarked
  <2> QED BY <1>6, <2>1 DEF CrossingMarked, Crosses, SlotAt, High
<1>19. SlotApart'
  BY <1>5, <1>9, <1>10, <1>11, <1>14 DEF SpillInv, SlotApart
<1> QED BY <1>15, <1>16, <1>17, <1>18, <1>19 DEF SpillInv

LEMMA ReleaseKeeps ==
  ASSUME SpillInv, NEW b \in DOMAIN blocks, spill_release(b)
  PROVE  SpillInv'
<1> DEFINE n == blocks[b].pool  i == blocks[b].slot  k == blocks[b].live - 1
           c == [blocks[b] EXCEPT !.live = k, !.st = IF blocks[b].live = 1 THEN "done" ELSE @]
<1>1. blocks[b] \in Block /\ n \in DOMAIN pools /\ pools[n] \in Pool /\ Stride(blocks[b].need) <= PoolOf(b).stride
  BY BlockMember DEF PoolOf
<1>2. b \in Running
  BY DEF spill_release, Running
<1>3. pools[n].count[i] = blocks[b].live /\ blocks[b].live > 0 /\ ~Crosses(pools[n], i)
  BY <1>2 DEF SpillInv, Counted, PoolOf
<1>4. i \in SlotIds /\ k \in Nat /\ (blocks[b].live # 1 => k > 0)
  BY <1>1, <1>3 DEF Block
<1>5. pools' = [pools EXCEPT ![n].count[i] = k]
  <2>1. pools' = [pools EXCEPT ![n].count[i] = @ - 1]
    BY DEF spill_release
  <2>2. pools' = [pools EXCEPT ![n].count[i] = pools[n].count[i] - 1]
    BY <2>1
  <2> QED BY <1>3, <2>2
<1>6. blocks' = [blocks EXCEPT ![b] = c]
  BY DEF spill_release
<1> HIDE DEF i, k
<1>7. /\ c \in Block /\ c.pool = n /\ c.need = blocks[b].need /\ c.slot = i /\ c.live = k
      /\ (c.st = "running" => k > 0)
  <2> DEFINE st == IF blocks[b].live = 1 THEN "done" ELSE blocks[b].st
  <2>1. c = [blocks[b] EXCEPT !.live = k, !.st = st]
    OBVIOUS
  <2>2. st \in {"queued", "probing", "running", "done"} /\ (st = "running" => k > 0)
    BY <1>1, <1>4 DEF Block
  <2> HIDE DEF st, c
  <2> QED BY <1>1, <1>4, <2>1, <2>2 DEF Block, n, i
<1> HIDE DEF n, c
<1>8. /\ pools' \in Seq(Pool) /\ DOMAIN pools' = DOMAIN pools
      /\ \A m \in DOMAIN pools : pools'[m].stride = pools[m].stride /\ pools'[m].base = pools[m].base
      /\ \A m \in DOMAIN pools : \A j \in SlotIds :
            pools'[m].count[j] = IF m = n /\ j = i THEN k ELSE pools[m].count[j]
  <2>1. pools \in Seq(Pool)
    BY DEF SpillInv, SpillTypes
  <2>2. n \in DOMAIN pools /\ i \in SlotIds /\ k \in Nat /\ pools' = [pools EXCEPT ![n].count[i] = k]
    BY <1>1, <1>4, <1>5
  <2>3. CountBecomes(n, i, k)
    BY <2>1, <2>2, CountChanged
  <2> QED BY <2>3 DEF CountBecomes
<1>9. blocks \in Seq(Block)
  BY DEF SpillInv, SpillTypes
<1>10. blocks' \in Seq(Block) /\ DOMAIN blocks' = DOMAIN blocks
  BY <1>6, <1>7, <1>9
<1>11. \A x \in DOMAIN blocks : blocks'[x] = IF x = b THEN c ELSE blocks[x]
  BY <1>6, <1>9
<1>12. Running' \subseteq Running /\ (b \in Running' => k > 0)
  BY <1>2, <1>7, <1>10, <1>11 DEF Running
<1>13. \A x \in Running : x # b => ~(blocks[x].pool = n /\ blocks[x].slot = i)
  BY <1>2 DEF SpillInv, SlotApart, n, i
<1>14. \A m \in DOMAIN pools : \A j \in SlotIds : Crosses(pools'[m], j) = Crosses(pools[m], j)
  BY <1>8 DEF Crosses, SlotAt
<1>15. \A x \in Running : x \in DOMAIN blocks /\ blocks[x].pool \in DOMAIN pools /\ blocks[x].slot \in SlotIds
  BY RunningMember
<1>16. SpillTypes'
  BY <1>8, <1>10 DEF SpillTypes
<1>17. Fits'
  BY <1>1, <1>7, <1>8, <1>10, <1>11 DEF SpillInv, Fits, PoolOf, n
<1>18. Counted'
  <2> SUFFICES ASSUME NEW x \in Running'
               PROVE  /\ (PoolOf(x).count[blocks[x].slot] = blocks[x].live /\ blocks[x].live > 0)'
                      /\ ~Crosses(PoolOf(x), blocks[x].slot)'
    BY DEF Counted
  <2> DEFINE m == blocks[x].pool  j == blocks[x].slot
  <2>1. /\ PoolOf(x).count[j] = blocks[x].live /\ blocks[x].live > 0
        /\ ~Crosses(PoolOf(x), j)
    BY <1>12 DEF SpillInv, Counted
  <2>2. m \in DOMAIN pools /\ j \in SlotIds /\ blocks'[x].pool = m /\ blocks'[x].slot = j
    BY <1>7, <1>11, <1>12, <1>15 DEF n, i
  <2>3. PoolOf(x)' = pools'[m] /\ PoolOf(x) = pools[m]
    BY <2>2 DEF PoolOf
  <2>4. Crosses(pools'[m], j) = Crosses(pools[m], j)
    BY <1>14, <2>2
  <2>5. Crosses(PoolOf(x), blocks[x].slot)' = Crosses(pools'[m], j)
    BY <2>2, <2>3 DEF Crosses, SlotAt, High
  <2> HIDE DEF m, j
  <2>6. CASE x = b
    <3>1. m = n /\ j = i /\ blocks'[x].live = k /\ k > 0
      BY <1>7, <1>11, <1>12, <1>15, <2>6 DEF m, j, n, i
    <3> QED BY <1>8, <2>1, <2>2, <2>3, <2>4, <2>5, <3>1
  <2>7. CASE x # b
    <3>1. ~(m = n /\ j = i) /\ blocks'[x].live = blocks[x].live
      BY <1>11, <1>12, <1>13, <1>15, <2>7 DEF m, j
    <3> QED BY <1>8, <2>1, <2>2, <2>3, <2>4, <2>5, <3>1
  <2> QED BY <2>6, <2>7
<1>19. CrossingMarked'
  <2>1. \A m \in DOMAIN pools : \A j \in SlotIds : Crosses(pools'[m], j) => pools'[m].count[j] = Marked
    BY <1>3, <1>8, <1>14 DEF SpillInv, CrossingMarked, n, i
  <2> QED BY <1>8, <2>1 DEF CrossingMarked, Crosses, SlotAt, High
<1>20. SlotApart'
  BY <1>7, <1>11, <1>12, <1>15 DEF SpillInv, SlotApart, n, i
<1> QED BY <1>16, <1>17, <1>18, <1>19, <1>20 DEF SpillInv

LEMMA SpillStep == ASSUME SpillInv, [SpillNext]_svars PROVE SpillInv'
<1>1. CASE UNCHANGED svars
  BY <1>1 DEF svars, SpillInv, SpillTypes, Fits, Counted, CrossingMarked, SlotApart, Running, PoolOf,
              Crosses, SlotAt, High
<1>2. ASSUME NEW need \in Needs, NEW threads \in BlockSizes, NEW base \in Places, encode_kernel(need, threads, base)
      PROVE  SpillInv'
  BY <1>2, EncodeKeeps
<1>3. ASSUME NEW b \in DOMAIN blocks, BlockStep(b) \/ spill_acquire(b) \/ ProbeOn(b)
      PROVE  SpillInv'
  BY <1>3, DispatchKeeps, AcquireKeeps, ProbeKeeps, ReleaseKeeps DEF BlockStep
<1> QED BY <1>1, <1>2, <1>3 DEF SpillNext

(* What SpillInv says of the two spill properties. *)
LEMMA SpillSound == ASSUME SpillInv PROVE SlotsExclusive /\ AddressesRebuilt
<1>1. ASSUME NEW b \in Running
      PROVE  /\ blocks[b].need \in Nat /\ PoolOf(b) \in Pool /\ blocks[b].slot \in SlotIds
             /\ blocks[b].need <= PoolOf(b).stride /\ ~Crosses(PoolOf(b), blocks[b].slot)
  <2>1. /\ b \in DOMAIN blocks /\ blocks[b] \in Block /\ PoolOf(b) \in Pool
        /\ Stride(blocks[b].need) <= PoolOf(b).stride
    BY BlockMember DEF Running
  <2>2. blocks[b].need \in Nat /\ blocks[b].slot \in SlotIds /\ PoolOf(b).stride \in Nat
    BY <2>1 DEF Block, Pool
  <2>3. Stride(blocks[b].need) \in Nat /\ blocks[b].need <= Stride(blocks[b].need)
    BY <2>2, StrideEnough
  <2> QED BY <2>1, <2>2, <2>3 DEF SpillInv, Counted
<1>2. SlotsExclusive
  BY <1>1 DEF SlotsExclusive, PoolOf, SpillInv, SlotApart
<1>3. AddressesRebuilt
  <2> SUFFICES ASSUME NEW b \in Running, NEW n \in 0..(blocks[b].need - 1)
               PROVE  LET smem == SlotAt(PoolOf(b), blocks[b].slot)
                      IN  High(smem) + ((smem + n) % Window) = smem + n
    BY DEF AddressesRebuilt, PoolOf
  <2> DEFINE q == PoolOf(b)  a == SlotAt(q, blocks[b].slot)  m == q.stride - 1
  <2>1. q.stride \in Nat /\ q.base \in Nat /\ blocks[b].slot \in Nat /\ blocks[b].need \in Nat /\ blocks[b].need <= q.stride
    BY <1>1, PreludeNumbers DEF Pool, SlotIds
  <2>2. a \in Nat
    BY <2>1 DEF SlotAt
  <2>3. High(a) = High(a + q.stride - 1)
    BY <1>1 DEF Crosses
  <2> HIDE DEF q, a
  <2>4. n \in Nat /\ m \in Nat /\ n <= m /\ a + q.stride - 1 = a + m
    BY <2>1, <2>2
  <2>5. High(a) = High(a + m)
    BY <2>3, <2>4
  <2> HIDE DEF m
  <2>6. High(a) + ((a + n) % Window) = a + n
    BY <2>2, <2>4, <2>5, HighSame
  <2> QED BY <2>6 DEF a, q
<1> QED BY <1>2, <1>3

-----------------------------------------------------------------------------
(* 64-bit atomics: every step keeps AtomicInv *)

LEMMA LanesGood ==
  ASSUME AtomicTypes
  PROVE  /\ IsFiniteSet(DOMAIN atomics) /\ DOMAIN lane = DOMAIN atomics
         /\ \A l \in DOMAIN atomics :
              /\ atomics[l].op \in {"ADD", "XCHG", "UMAX", "CAS"} /\ atomics[l].cell \in Addresses
              /\ atomics[l].v \in Nat /\ atomics[l].cmp \in Nat
              /\ LaneLock(l) \in 0..(LockCount - 1) /\ l[1] \in DOMAIN warpAt /\ lane[l] \in Lane
<1>1. DOMAIN lane = DOMAIN atomics /\ (\A l \in DOMAIN atomics : lane[l] \in Lane /\ l[1] \in DOMAIN warpAt)
  BY DEF AtomicTypes
<1>2. CASE atomics = <<>>
  <2>1. DOMAIN atomics = {}
    BY <1>2
  <2> QED BY <1>1, <2>1, FS_EmptySet
<1>3. CASE atomics \in Atomics
  <2>1. /\ IsFiniteSet(DOMAIN atomics)
        /\ \A l \in DOMAIN atomics : /\ atomics[l].op \in {"ADD", "XCHG", "UMAX", "CAS"} /\ atomics[l].cell \in Addresses
                                     /\ atomics[l].v \in Nat /\ atomics[l].cmp \in Nat
    BY <1>3, PreludeAssumption
  <2>2. LockCount \in Nat /\ LockCount > 0 /\ Addresses \subseteq Nat
    BY PreludeAssumption
  <2>3. \A l \in DOMAIN atomics : LaneLock(l) \in 0..(LockCount - 1)
    <3> TAKE l \in DOMAIN atomics
    <3> DEFINE a == atomics[l].cell
    <3>1. a \in Nat
      BY <2>1, <2>2
    <3> HIDE DEF a
    <3>2. a % LockCount \in 0..(LockCount - 1)
      BY <2>2, <3>1
    <3> QED BY <3>2 DEF LaneLock, LockOf, a
  <2> QED BY <1>1, <2>1, <2>3
<1> QED BY <1>2, <1>3 DEF AtomicTypes

LEMMA NewValueType ==
  ASSUME AtomicTypes, NEW l \in DOMAIN atomics, NEW old \in Nat
  PROVE  NewValue(atomics[l], old) \in Nat
<1>1. atomics[l].op \in {"ADD", "XCHG", "UMAX", "CAS"} /\ atomics[l].v \in Nat /\ atomics[l].cmp \in Nat
  BY LanesGood
<1>2. Max({old, atomics[l].v}) \in Nat
  BY <1>1, MaxOfTwo
<1> DEFINE o == atomics[l]  top == Max({old, atomics[l].v})
<1>3. NewValue(atomics[l], old) = CASE o.op = "ADD" -> old + o.v
                                    [] o.op = "XCHG" -> o.v
                                    [] o.op = "UMAX" -> top
                                    [] o.op = "CAS" -> IF old = o.cmp THEN o.v ELSE old
  BY DEF NewValue
<1>4. top \in Nat
  BY <1>2
<1> HIDE DEF o, top
<1>5. o.op \in {"ADD", "XCHG", "UMAX", "CAS"} /\ o.v \in Nat
  BY <1>1 DEF o
<1> QED BY <1>3, <1>4, <1>5

(* What an order says of a cell depends on its first k operations only.    *)
LEMMA LeavesPrefix ==
  ASSUME NEW order, NEW longer, NEW a, NEW k \in Nat, NEW v, Stands(order, a, k, v),
         \A i \in 1..k : longer[i] = order[i]
  PROVE  Stands(longer, a, k, v)
<1>1. CASE v = 0 /\ \A i \in 1..k : ~OfCell(order, a, i)
  BY <1>1 DEF Stands, OfCell
<1>2. ASSUME NEW i \in 1..k, OfCell(order, a, i), v = NewValue(atomics[order[i]], lane[order[i]].old),
             \A j \in (i + 1)..k : ~OfCell(order, a, j)
      PROVE  Stands(longer, a, k, v)
  <2>1. \A j \in (i + 1)..k : ~OfCell(longer, a, j)
    <3>1. \A j \in (i + 1)..k : j \in 1..k
      OBVIOUS
    <3> QED BY <1>2, <3>1 DEF OfCell
  <2>2. OfCell(longer, a, i) /\ v = NewValue(atomics[longer[i]], lane[longer[i]].old)
    BY <1>2 DEF OfCell
  <2> QED BY <2>1, <2>2 DEF Stands
<1> QED BY <1>1, <1>2 DEF Stands

LEMMA LeavesLater ==
  ASSUME NEW order, NEW a, NEW k \in Nat, NEW k2 \in Nat, k <= k2, NEW v, Stands(order, a, k, v),
         \A j \in (k + 1)..k2 : ~OfCell(order, a, j)
  PROVE  Stands(order, a, k2, v)
<1>1. \A j \in 1..k2 : j \in 1..k \/ j \in (k + 1)..k2
  OBVIOUS
<1>2. CASE v = 0 /\ \A i \in 1..k : ~OfCell(order, a, i)
  BY <1>1, <1>2 DEF Stands
<1>3. ASSUME NEW i \in 1..k, OfCell(order, a, i), v = NewValue(atomics[order[i]], lane[order[i]].old),
             \A j \in (i + 1)..k : ~OfCell(order, a, j)
      PROVE  Stands(order, a, k2, v)
  <2>1. \A j \in (i + 1)..k2 : j \in (i + 1)..k \/ j \in (k + 1)..k2
    OBVIOUS
  <2>2. i \in 1..k2
    OBVIOUS
  <2> QED BY <1>3, <2>1, <2>2 DEF Stands
<1> QED BY <1>2, <1>3 DEF Stands

(* An order of a set is a function from 1..n onto it. *)
LEMMA Orders ==
  ASSUME NEW S, NEW order
  PROVE  order \in SetToSeqs(S) <=>
           /\ order \in [1..Cardinality(S) -> S]
           /\ \A i, j \in 1..Cardinality(S) : i # j => order[i] # order[j]
BY DEF SetToSeqs

LEMMA OrderExists ==
  ASSUME NEW S, IsFiniteSet(S)
  PROVE  /\ Cardinality(S) \in Nat
         /\ \E order \in SetToSeqs(S) : \A x \in S : \E i \in 1..Cardinality(S) : order[i] = x
<1>1. Cardinality(S) \in Nat /\ ExistsBijection(1..Cardinality(S), S)
  BY FS_CardinalityType
<1>2. PICK f \in Bijection(1..Cardinality(S), S) : TRUE
  BY <1>1 DEF ExistsBijection
<1>3. /\ f \in [1..Cardinality(S) -> S]
      /\ \A i, j \in 1..Cardinality(S) : f[i] = f[j] => i = j
      /\ \A x \in S : \E i \in 1..Cardinality(S) : f[i] = x
  BY <1>2 DEF Bijection, Injection, Surjection, IsInjective
<1>4. f \in SetToSeqs(S)
  BY <1>3, Orders
<1> QED BY <1>1, <1>3, <1>4

LEMMA MadeFinite ==
  ASSUME AtomicTypes
  PROVE  /\ IsFiniteSet(Made) /\ Cardinality(Made) \in Nat /\ Made \subseteq DOMAIN lane
         /\ \A w : IsFiniteSet(Winners(w)) /\ Cardinality(Winners(w)) \in Nat
<1>1. Made \in SUBSET DOMAIN atomics /\ IsFiniteSet(DOMAIN atomics) /\ Made \subseteq DOMAIN lane
  BY LanesGood DEF Made
<1>2. \A w : Winners(w) \in SUBSET DOMAIN atomics
  BY DEF Winners, Of
<1> QED BY <1>1, <1>2, FS_Subset, FS_CardinalityType

(* A step that writes no cell and makes no operation. *)
LEMMA ExplainedStays ==
  ASSUME AtomicTypes, Explained, Made' = Made, UNCHANGED <<atomics, cell>>,
         \A l \in Made : lane'[l].old = lane[l].old
  PROVE  Explained'
<1>1. PICK order \in SetToSeqs(Made) : Explains(order)
  BY DEF Explained
<1> DEFINE n == Cardinality(Made)
<1>2. n \in Nat /\ order \in [1..n -> Made] /\ DOMAIN order = 1..n
  BY <1>1, MadeFinite, Orders
<1> HIDE DEF n
<1>3. ASSUME NEW a, NEW k \in 0..n, NEW v, Stands(order, a, k, v)
      PROVE  Stands(order, a, k, v)'
  <2>1. \A i \in 1..k : OfCell(order, a, i)' = OfCell(order, a, i) /\ lane'[order[i]].old = lane[order[i]].old
    BY <1>2 DEF OfCell
  <2>2. \A i, j : i \in 1..k /\ j \in (i + 1)..k => j \in 1..k
    BY <1>2
  <2>3. \A i \in 1..k : NewValue(atomics'[order[i]], lane'[order[i]].old) = NewValue(atomics[order[i]], lane[order[i]].old)
    BY <2>1
  <2> QED BY <1>3, <2>1, <2>2, <2>3 DEF Stands
<1>4. \A i \in DOMAIN order : Stands(order, atomics[order[i]].cell, i - 1, lane[order[i]].old)'
  <2> TAKE i \in DOMAIN order
  <2>1. Stands(order, atomics[order[i]].cell, i - 1, lane[order[i]].old) /\ i - 1 \in 0..n /\ order[i] \in Made
    BY <1>1, <1>2 DEF Explains
  <2>2. PICK a, v : a = atomics[order[i]].cell /\ v = lane[order[i]].old
    OBVIOUS
  <2>3. Stands(order, a, i - 1, v)'
    BY <1>3, <2>1, <2>2
  <2>4. a = atomics'[order[i]].cell /\ v = lane'[order[i]].old
    BY <2>1, <2>2
  <2> QED BY <2>3, <2>4
<1>5. \A a \in DOMAIN cell : Stands(order, a, n, cell[a])
  BY <1>1 DEF Explains, n
<1>6. \A a \in DOMAIN cell : Stands(order, a, n, cell[a])'
  <2>1. n' = n
    BY DEF n
  <2> TAKE a \in DOMAIN cell
  <2>2. PICK v : v = cell[a]
    OBVIOUS
  <2>3. Stands(order, a, n, v)' /\ v = cell'[a]
    BY <1>2, <1>3, <1>5, <2>1, <2>2
  <2> QED BY <2>3
<1>7. Explains(order)'
  BY <1>4, <1>6 DEF Explains, n
<1> QED BY <1>1, <1>7 DEF Explained

LEMMA TakeLocksKeeps ==
  ASSUME AtomicInv, NEW w \in DOMAIN warpAt, TakeLocks(w)
  PROVE  AtomicInv'
<1>1. AtomicTypes /\ LocksHeld /\ ReadsKept /\ Explained
  BY DEF AtomicInv
<1>2. PICK S \in Winning(w) : Lock(w, S, "read")
  BY DEF TakeLocks
<1>3. /\ warpAt[w] = "try" /\ UNCHANGED <<atomics, cell>>
      /\ locks' = [h \in DOMAIN locks |-> locks[h] \/ \E l \in S : LaneLock(l) = h]
      /\ lane' = [l \in DOMAIN lane |-> IF l \in S THEN [lane[l] EXCEPT !.won = TRUE] ELSE lane[l]]
      /\ warpAt' = [warpAt EXCEPT ![w] = "read"]
  BY <1>2 DEF TakeLocks, Lock, LaneLock
<1>4. /\ \A l \in S : l \in DOMAIN atomics /\ l[1] = w /\ ~lane[l].done /\ ~locks[LaneLock(l)]
      /\ \A l, m \in S : LaneLock(l) = LaneLock(m) => l = m
  BY <1>2 DEF Winning, Pending, Of, LaneLock
<1>5. /\ DOMAIN lane = DOMAIN atomics /\ DOMAIN locks = 0..(LockCount - 1)
      /\ \A l \in DOMAIN atomics : LaneLock(l) \in 0..(LockCount - 1) /\ l[1] \in DOMAIN warpAt /\ lane[l] \in Lane
  BY <1>1, LanesGood DEF AtomicTypes
<1>6. \A l \in DOMAIN atomics :
        /\ lane'[l] \in Lane /\ lane'[l].done = lane[l].done /\ lane'[l].old = lane[l].old
        /\ lane'[l].won = (lane[l].won \/ l \in S)
  <2> TAKE l \in DOMAIN atomics
  <2>1. lane[l] \in Lane /\ lane'[l] = IF l \in S THEN [lane[l] EXCEPT !.won = TRUE] ELSE lane[l]
    BY <1>3, <1>5
  <2> QED BY <2>1 DEF Lane
<1>7. \A x \in DOMAIN warpAt : warpAt'[x] = IF x = w THEN "read" ELSE warpAt[x]
  BY <1>3
<1>8. \A l \in DOMAIN atomics : LaneLock(l)' = LaneLock(l) /\ (locks'[LaneLock(l)] <=> (locks[LaneLock(l)] \/ \E m \in S : LaneLock(m) = LaneLock(l)))
  BY <1>3, <1>5 DEF LaneLock
<1>9. DOMAIN lane' = DOMAIN atomics /\ Won' = Won \cup S /\ Won \subseteq DOMAIN atomics
  BY <1>3, <1>4, <1>5, <1>6 DEF Won
<1>10. AtomicTypes'
  <2>1. lane' \in [DOMAIN atomics -> Lane]
    BY <1>3, <1>5, <1>6
  <2>2. locks' \in [0..(LockCount - 1) -> BOOLEAN]
    BY <1>1, <1>3, <1>5 DEF AtomicTypes
  <2>3. warpAt' \in [{l[1] : l \in DOMAIN atomics} -> {"try", "read", "write", "unlock"}]
    BY <1>1, <1>3 DEF AtomicTypes
  <2> QED BY <1>1, <1>3, <2>1, <2>2, <2>3 DEF AtomicTypes
<1>11. \A l \in Won : l \in DOMAIN atomics /\ ~lane[l].done /\ locks[LaneLock(l)] /\ l[1] # w /\ warpAt[l[1]] # "try"
  BY <1>1, <1>3, <1>9 DEF LocksHeld
<1>12. LocksHeld'
  <2>1. \A l \in Won' : ~lane'[l].done /\ locks'[LaneLock(l)] /\ warpAt'[l[1]] # "try"
    BY <1>4, <1>5, <1>6, <1>7, <1>8, <1>9, <1>11
  <2>2. \A l, m \in Won' : LaneLock(l) = LaneLock(m) => l = m
    BY <1>1, <1>4, <1>9, <1>11 DEF LocksHeld
  <2> QED BY <1>4, <1>8, <1>9, <1>11, <2>1, <2>2 DEF LocksHeld
<1>13. ReadsKept'
  <2>1. \A l \in Won' : warpAt'[l[1]] = "write" => l \in Won /\ warpAt[l[1]] = "write"
    BY <1>4, <1>5, <1>7, <1>9
  <2> QED BY <1>1, <1>3, <1>6, <1>9, <2>1 DEF ReadsKept
<1>14. Made' = Made
  <2>1. \A l \in DOMAIN atomics :
          (lane'[l].won /\ warpAt'[l[1]] = "unlock") <=> (lane[l].won /\ warpAt[l[1]] = "unlock")
    BY <1>3, <1>4, <1>5, <1>6, <1>7
  <2> QED BY <1>5, <1>6, <1>9, <2>1 DEF Made
<1>15. Explained'
  BY <1>1, <1>3, <1>5, <1>6, <1>14, ExplainedStays DEF Made
<1> QED BY <1>10, <1>12, <1>13, <1>15 DEF AtomicInv

LEMMA ReadCellsKeeps ==
  ASSUME AtomicInv, NEW w \in DOMAIN warpAt, ReadCells(w)
  PROVE  AtomicInv'
<1>1. AtomicTypes /\ LocksHeld /\ ReadsKept /\ Explained
  BY DEF AtomicInv
<1>2. /\ warpAt[w] = "read" /\ UNCHANGED <<atomics, locks, cell>>
      /\ lane' = [l \in DOMAIN lane |-> IF l \in Winners(w) THEN [lane[l] EXCEPT !.old = cell[atomics[l].cell]] ELSE lane[l]]
      /\ warpAt' = [warpAt EXCEPT ![w] = "write"]
  BY DEF ReadCells
<1>3. /\ DOMAIN lane = DOMAIN atomics
      /\ \A l \in DOMAIN atomics : l[1] \in DOMAIN warpAt /\ lane[l] \in Lane /\ cell[atomics[l].cell] \in Nat
  BY <1>1, LanesGood DEF AtomicTypes
<1>4. \A l \in DOMAIN atomics : l \in Winners(w) <=> l[1] = w /\ lane[l].won
  BY DEF Winners, Of
<1>5. \A l \in DOMAIN atomics :
        /\ lane'[l] \in Lane /\ lane'[l].done = lane[l].done /\ lane'[l].won = lane[l].won
        /\ lane'[l].old = IF l \in Winners(w) THEN cell[atomics[l].cell] ELSE lane[l].old
  <2> TAKE l \in DOMAIN atomics
  <2> DEFINE v == cell[atomics[l].cell]
  <2>1. lane[l] \in Lane /\ v \in Nat /\ lane'[l] = IF l \in Winners(w) THEN [lane[l] EXCEPT !.old = v] ELSE lane[l]
    BY <1>2, <1>3
  <2> HIDE DEF v
  <2>2. /\ lane'[l] \in Lane /\ lane'[l].done = lane[l].done /\ lane'[l].won = lane[l].won
        /\ lane'[l].old = IF l \in Winners(w) THEN v ELSE lane[l].old
    BY <2>1 DEF Lane
  <2> QED BY <2>2 DEF v
<1>6. \A x \in DOMAIN warpAt : warpAt'[x] = IF x = w THEN "write" ELSE warpAt[x]
  BY <1>2
<1>7. DOMAIN lane' = DOMAIN atomics /\ Won' = Won /\ Won \subseteq DOMAIN atomics
  BY <1>2, <1>3, <1>5 DEF Won
<1>8. AtomicTypes'
  <2>1. lane' \in [DOMAIN atomics -> Lane]
    BY <1>2, <1>3, <1>5
  <2>2. warpAt' \in [{l[1] : l \in DOMAIN atomics} -> {"try", "read", "write", "unlock"}]
    BY <1>1, <1>2 DEF AtomicTypes
  <2> QED BY <1>1, <1>2, <2>1, <2>2 DEF AtomicTypes
<1>9. LocksHeld'
  <2>1. \A l \in Won : LaneLock(l)' = LaneLock(l) /\ lane'[l].done = lane[l].done /\ warpAt'[l[1]] # "try"
    BY <1>1, <1>2, <1>3, <1>5, <1>6, <1>7 DEF LocksHeld, LaneLock
  <2>2. \A l \in Won : ~lane[l].done /\ locks[LaneLock(l)]
    BY <1>1 DEF LocksHeld
  <2>3. \A l, m \in Won : LaneLock(l) = LaneLock(m) => l = m
    BY <1>1 DEF LocksHeld
  <2>4. \A l \in Won' : (~lane[l].done /\ locks[LaneLock(l)] /\ warpAt[l[1]] # "try")'
    BY <1>2, <1>7, <2>1, <2>2
  <2>5. \A l, m \in Won' : (LaneLock(l) = LaneLock(m))' => l = m
    BY <1>7, <2>1, <2>3
  <2> QED BY <2>4, <2>5 DEF LocksHeld
<1>10. ReadsKept'
  <2> SUFFICES ASSUME NEW l \in Won, warpAt'[l[1]] = "write"
               PROVE  lane'[l].old = cell[atomics[l].cell]
    BY <1>2, <1>7 DEF ReadsKept
  <2>1. l \in DOMAIN atomics /\ lane[l].won
    BY <1>7 DEF Won
  <2>2. CASE l[1] = w
    BY <1>4, <1>5, <2>1, <2>2
  <2>3. CASE l[1] # w
    <3>1. warpAt[l[1]] = "write" /\ lane'[l].old = lane[l].old
      BY <1>3, <1>4, <1>5, <1>6, <2>1, <2>3
    <3> QED BY <1>1, <3>1 DEF ReadsKept
  <2> QED BY <2>2, <2>3
<1>11. Made' = Made
  <2>1. \A l \in DOMAIN atomics :
          (lane'[l].won /\ warpAt'[l[1]] = "unlock") <=> (lane[l].won /\ warpAt[l[1]] = "unlock")
    BY <1>2, <1>3, <1>5, <1>6
  <2> QED BY <1>3, <1>5, <1>7, <2>1 DEF Made
<1>12. \A l \in Made : lane'[l].old = lane[l].old
  <2>1. \A l \in Made : l \in DOMAIN atomics /\ l \notin Winners(w)
    BY <1>1, <1>2, <1>3, <1>4 DEF Made, LocksHeld, Won
  <2> QED BY <1>5, <2>1
<1>13. Explained'
  BY <1>1, <1>2, <1>11, <1>12, ExplainedStays
<1> QED BY <1>8, <1>9, <1>10, <1>13 DEF AtomicInv

LEMMA UnlockKeeps ==
  ASSUME AtomicInv, NEW w \in DOMAIN warpAt, Unlock(w)
  PROVE  AtomicInv'
<1>1. AtomicTypes /\ LocksHeld /\ ReadsKept /\ Explained
  BY DEF AtomicInv
<1>2. /\ warpAt[w] = "unlock" /\ UNCHANGED <<atomics, cell>>
      /\ locks' = [h \in DOMAIN locks |-> locks[h] /\ \A l \in Winners(w) : LaneLock(l) # h]
      /\ lane' = [l \in DOMAIN lane |-> IF l \in Winners(w) THEN [lane[l] EXCEPT !.won = FALSE, !.done = TRUE] ELSE lane[l]]
      /\ warpAt' = [warpAt EXCEPT ![w] = "try"]
  BY DEF Unlock, LaneLock
<1>3. /\ DOMAIN lane = DOMAIN atomics /\ DOMAIN locks = 0..(LockCount - 1)
      /\ \A l \in DOMAIN atomics : LaneLock(l) \in 0..(LockCount - 1) /\ l[1] \in DOMAIN warpAt /\ lane[l] \in Lane
  BY <1>1, LanesGood DEF AtomicTypes
<1>4. \A l \in DOMAIN atomics : l \in Winners(w) <=> l[1] = w /\ lane[l].won
  BY DEF Winners, Of
<1>5. \A l \in DOMAIN atomics :
        /\ lane'[l] \in Lane /\ lane'[l].old = lane[l].old
        /\ lane'[l].won = (lane[l].won /\ l \notin Winners(w))
        /\ lane'[l].done = (lane[l].done \/ l \in Winners(w))
  <2> TAKE l \in DOMAIN atomics
  <2>1. lane[l] \in Lane /\ lane'[l] = IF l \in Winners(w) THEN [lane[l] EXCEPT !.won = FALSE, !.done = TRUE] ELSE lane[l]
    BY <1>2, <1>3
  <2> QED BY <2>1 DEF Lane
<1>6. \A x \in DOMAIN warpAt : warpAt'[x] = IF x = w THEN "try" ELSE warpAt[x]
  BY <1>2
<1>7. DOMAIN lane' = DOMAIN atomics /\ Won \subseteq DOMAIN atomics /\ \A l : l \in Won' <=> l \in Won /\ l[1] # w
  BY <1>2, <1>3, <1>4, <1>5 DEF Won
<1>8. AtomicTypes'
  <2>1. lane' \in [DOMAIN atomics -> Lane]
    BY <1>2, <1>3, <1>5
  <2>2. warpAt' \in [{l[1] : l \in DOMAIN atomics} -> {"try", "read", "write", "unlock"}]
    BY <1>1, <1>2 DEF AtomicTypes
  <2>3. locks' \in [0..(LockCount - 1) -> BOOLEAN]
    BY <1>1, <1>2, <1>3 DEF AtomicTypes
  <2> QED BY <1>1, <1>2, <2>1, <2>2, <2>3 DEF AtomicTypes
<1>9. LocksHeld'
  <2>1. \A l \in Won' : LaneLock(l)' = LaneLock(l) /\ ~lane'[l].done /\ locks[LaneLock(l)] /\ warpAt'[l[1]] # "try"
    BY <1>1, <1>2, <1>3, <1>4, <1>5, <1>6, <1>7 DEF LocksHeld, LaneLock
  <2>2. \A l \in Won' : \A m \in Winners(w) : LaneLock(m) # LaneLock(l)
    <3>1. \A m \in Winners(w) : m \in Won /\ m[1] = w
      BY <1>3 DEF Winners, Of, Won
    <3> QED BY <1>1, <1>7, <3>1 DEF LocksHeld
  <2>3. \A l \in Won' : locks'[LaneLock(l)]
    BY <1>2, <1>3, <1>7, <2>1, <2>2
  <2>4. \A l, m \in Won' : LaneLock(l) = LaneLock(m) => l = m
    BY <1>1, <1>7 DEF LocksHeld
  <2> QED BY <2>1, <2>3, <2>4 DEF LocksHeld
<1>10. ReadsKept'
  <2>1. \A l \in Won' : l \in Won /\ warpAt'[l[1]] = warpAt[l[1]]
    BY <1>3, <1>6, <1>7
  <2> QED BY <1>1, <1>2, <1>5, <1>7, <2>1 DEF ReadsKept
<1>11. Made' = Made
  <2>1. \A l \in DOMAIN atomics :
          (lane'[l].done \/ (lane'[l].won /\ warpAt'[l[1]] = "unlock")) <=> (lane[l].done \/ (lane[l].won /\ warpAt[l[1]] = "unlock"))
    BY <1>2, <1>3, <1>4, <1>5, <1>6
  <2> QED BY <1>3, <1>7, <2>1 DEF Made
<1>12. \A l \in Made : lane'[l].old = lane[l].old
  BY <1>3, <1>5 DEF Made
<1>13. Explained'
  BY <1>1, <1>2, <1>11, <1>12, ExplainedStays
<1> QED BY <1>8, <1>9, <1>10, <1>13 DEF AtomicInv

LEMMA LeavesSame ==
  ASSUME UNCHANGED <<atomics, lane>>, NEW order, NEW a, NEW k, NEW v
  PROVE  Stands(order, a, k, v)' <=> Stands(order, a, k, v)
<1>1. \A i : OfCell(order, a, i)' <=> OfCell(order, a, i)
  BY DEF OfCell
<1>2. \A i : NewValue(atomics'[order[i]], lane'[order[i]].old) = NewValue(atomics[order[i]], lane[order[i]].old)
  OBVIOUS
<1> QED BY <1>1, <1>2 DEF Stands

(* Memory and old values: the operations written now come after the others. *)
LEMMA WriteExplained ==
  ASSUME AtomicInv, NEW w \in DOMAIN warpAt, WriteCells(w)
  PROVE  Made' = Made \cup Winners(w) /\ cell' \in [Addresses -> Nat] /\ Explained'
         /\ \A l \in Won : l[1] # w => cell'[atomics[l].cell] = cell[atomics[l].cell]
<1> DEFINE W == Winners(w)
<1>1. AtomicTypes /\ LocksHeld /\ ReadsKept /\ Explained
  BY DEF AtomicInv
<1>2. warpAt[w] = "write" /\ warpAt' = [warpAt EXCEPT ![w] = "unlock"] /\ UNCHANGED <<atomics, locks, lane>>
  BY DEF WriteCells
<1>3. /\ DOMAIN lane = DOMAIN atomics /\ DOMAIN cell = Addresses
      /\ \A l \in DOMAIN atomics : l[1] \in DOMAIN warpAt /\ lane[l].old \in Nat /\ atomics[l].cell \in Addresses
  BY <1>1, LanesGood DEF AtomicTypes, Lane
<1>4. /\ W \subseteq Won /\ W \subseteq DOMAIN atomics /\ Won \subseteq DOMAIN atomics
      /\ \A l \in Won : l \in W <=> l[1] = w
  BY <1>3 DEF Winners, Of, Won
(* Lanes that hold locks work on different cells. *)
<1>5. \A l, m \in Won : atomics[l].cell = atomics[m].cell => l = m
  BY <1>1 DEF LocksHeld, LaneLock
<1>6. \A l \in W : lane[l].old = cell[atomics[l].cell]
  BY <1>1, <1>2, <1>4 DEF ReadsKept
<1>7. \A l \in W : cell'[atomics[l].cell] = NewValue(atomics[l], lane[l].old)
  <2> TAKE l \in W
  <2> DEFINE a == atomics[l].cell
             here == {m \in W : atomics[m].cell = a}
  <2>1. here = {l}
    BY <1>4, <1>5
  <2>2. a \in DOMAIN cell
    BY <1>3, <1>4
  <2>3. cell'[a] = IF here = {} THEN cell[a] ELSE LET m == CHOOSE m \in here : TRUE IN NewValue(atomics[m], lane[m].old)
    BY <2>2 DEF WriteCells
  <2>4. (CHOOSE m \in here : TRUE) = l /\ here # {}
    BY <2>1
  <2> QED BY <2>3, <2>4
<1>8. \A a \in Addresses : (\A l \in W : atomics[l].cell # a) => cell'[a] = cell[a]
  <2> SUFFICES ASSUME NEW a \in Addresses, \A l \in W : atomics[l].cell # a
               PROVE  cell'[a] = cell[a]
    OBVIOUS
  <2> DEFINE here == {m \in W : atomics[m].cell = a}
  <2>1. here = {}
    OBVIOUS
  <2>2. cell'[a] = IF here = {} THEN cell[a] ELSE LET m == CHOOSE m \in here : TRUE IN NewValue(atomics[m], lane[m].old)
    BY <1>3 DEF WriteCells
  <2> QED BY <2>1, <2>2
<1>9. cell' \in [Addresses -> Nat]
  <2>1. \A a \in Addresses : cell'[a] \in Nat
    <3> TAKE a \in Addresses
    <3>1. CASE \E l \in W : atomics[l].cell = a
      BY <1>1, <1>3, <1>4, <1>7, <3>1, NewValueType
    <3>2. CASE \A l \in W : atomics[l].cell # a
      BY <1>1, <1>8, <3>2 DEF AtomicTypes
    <3> QED BY <3>1, <3>2
  <2>2. cell' = [a \in Addresses |-> cell'[a]]
    BY <1>3 DEF WriteCells
  <2> QED BY <2>1, <2>2
<1>10. Made' = Made \cup W /\ Made \cap W = {}
  <2>1. \A l \in DOMAIN atomics : warpAt'[l[1]] = IF l[1] = w THEN "unlock" ELSE warpAt[l[1]]
    BY <1>2, <1>3
  <2>2. \A l \in DOMAIN atomics : l \in W <=> lane[l].won /\ l[1] = w
    BY DEF Winners, Of
  <2>3. \A l \in W : ~lane[l].done
    BY <1>1, <1>4 DEF LocksHeld
  <2> QED BY <1>2, <1>3, <1>4, <2>1, <2>2, <2>3 DEF Made
<1>11. \A l \in Won : l[1] # w => cell'[atomics[l].cell] = cell[atomics[l].cell]
  BY <1>3, <1>4, <1>5, <1>8
<1>12. Explained'
  <2>0. PICK n, m : n = Cardinality(Made) /\ m = Cardinality(W)
    OBVIOUS
  <2>1. PICK order \in SetToSeqs(Made) : Explains(order)
    BY <1>1 DEF Explained
  <2>2. IsFiniteSet(Made) /\ IsFiniteSet(W) /\ n \in Nat /\ m \in Nat
    BY <1>1, <2>0, MadeFinite
  <2>3. PICK last \in SetToSeqs(W) : \A x \in W : \E i \in 1..m : last[i] = x
    BY <2>0, <2>2, OrderExists
  <2>4. Cardinality(Made \cup W) = n + m
    <3> HIDE DEF W
    <3>1. Cardinality(Made \cup W) = Cardinality(Made) + Cardinality(W) - Cardinality(Made \cap W)
      BY <2>2, FS_Union
    <3>2. Made \cap W = {}
      BY <1>10 DEF W
    <3>3. Cardinality({}) = 0
      BY FS_EmptySet
    <3>4. Cardinality(Made \cup W) = n + m - 0
      BY <2>0, <3>1, <3>2, <3>3
    <3> QED BY <2>2, <3>4
  <2>5. order \in [1..n -> Made] /\ (\A i, j \in 1..n : i # j => order[i] # order[j])
    BY <2>0, <2>1, Orders
  <2>6. last \in [1..m -> W] /\ (\A i, j \in 1..m : i # j => last[i] # last[j])
    BY <2>0, <2>3, Orders
  <2> HIDE DEF W
  <2>. PICK all : all = [i \in 1..(n + m) |-> IF i <= n THEN order[i] ELSE last[i - n]]
    OBVIOUS
  <2>7. \A i \in 1..(n + m) :
          \/ i \in 1..n /\ all[i] = order[i] /\ all[i] \in Made
          \/ i \in (n + 1)..(n + m) /\ i - n \in 1..m /\ all[i] = last[i - n] /\ all[i] \in W
    <3> TAKE i \in 1..(n + m)
    <3>1. CASE i <= n
      BY <2>2, <2>5, <3>1
    <3>2. CASE ~(i <= n)
      <4>1. i - n \in 1..m /\ i \in (n + 1)..(n + m)
        BY <2>2, <3>2
      <4> QED BY <2>6, <3>2, <4>1
    <3> QED BY <3>1, <3>2
  <2>8. \A i \in 1..n : i \in 1..(n + m) /\ all[i] = order[i]
    BY <2>2
  <2>9. all \in [1..(n + m) -> Made \cup W] /\ DOMAIN all = 1..(n + m)
    BY <2>7
  <2>10. \A i, j \in 1..(n + m) : i # j => all[i] # all[j]
    <3> SUFFICES ASSUME NEW i \in 1..(n + m), NEW j \in 1..(n + m), i # j
                 PROVE  all[i] # all[j]
      OBVIOUS
    <3>1. CASE i \in 1..n /\ j \in 1..n
      BY <2>5, <2>8, <3>1
    <3>2. CASE i \notin 1..n /\ j \notin 1..n
      <4>1. i - n \in 1..m /\ j - n \in 1..m /\ all[i] = last[i - n] /\ all[j] = last[j - n] /\ i - n # j - n
        BY <2>2, <2>7, <3>2
      <4> QED BY <2>6, <4>1
    <3>3. CASE i \in 1..n /\ j \notin 1..n
      <4>1. all[i] \in Made /\ all[j] \in W
        BY <2>2, <2>7, <3>3
      <4> QED BY <1>10, <4>1 DEF W
    <3>4. CASE i \notin 1..n /\ j \in 1..n
      <4>1. all[j] \in Made /\ all[i] \in W
        BY <2>2, <2>7, <3>4
      <4> QED BY <1>10, <4>1 DEF W
    <3> QED BY <3>1, <3>2, <3>3, <3>4
  <2>11. all \in SetToSeqs(Made \cup W)
    BY <2>4, <2>9, <2>10, Orders
  (* Two of the operations written now are on different cells. *)
  <2>12. \A i, j \in (n + 1)..(n + m) : atomics[all[i]].cell = atomics[all[j]].cell => i = j
    <3> SUFFICES ASSUME NEW i \in (n + 1)..(n + m), NEW j \in (n + 1)..(n + m), atomics[all[i]].cell = atomics[all[j]].cell
                 PROVE  i = j
      OBVIOUS
    <3>1. i \in 1..(n + m) /\ j \in 1..(n + m) /\ i \notin 1..n /\ j \notin 1..n
      BY <2>2
    <3>2. all[i] \in W /\ all[j] \in W
      BY <2>7, <3>1
    <3>3. all[i] = all[j]
      BY <1>4, <1>5, <3>2 DEF W
    <3> QED BY <2>10, <3>1, <3>3
  <2>13. \A a \in DOMAIN cell : Stands(all, a, n, cell[a])
    <3> TAKE a \in DOMAIN cell
    <3>1. Stands(order, a, n, cell[a])
      BY <2>0, <2>1 DEF Explains
    <3> QED BY <2>2, <2>8, <3>1, LeavesPrefix
  <2>14. \A i \in DOMAIN all : Stands(all, atomics[all[i]].cell, i - 1, lane[all[i]].old)
    <3> SUFFICES ASSUME NEW i \in 1..(n + m) PROVE Stands(all, atomics[all[i]].cell, i - 1, lane[all[i]].old)
      BY <2>9
    <3>1. CASE i \in 1..n
      <4>1. Stands(order, atomics[order[i]].cell, i - 1, lane[order[i]].old) /\ all[i] = order[i]
        BY <2>1, <2>5, <2>8, <3>1 DEF Explains
      <4>2. i - 1 \in Nat /\ \A j \in 1..(i - 1) : all[j] = order[j]
        BY <2>2, <2>8, <3>1
      <4> QED BY <4>1, <4>2, LeavesPrefix
    <3>2. CASE i \notin 1..n
      <4>1. i \in (n + 1)..(n + m) /\ all[i] \in W
        BY <2>2, <2>7, <3>2
      <4>2. atomics[all[i]].cell \in DOMAIN cell /\ lane[all[i]].old = cell[atomics[all[i]].cell]
        BY <1>3, <1>4, <1>6, <4>1 DEF W
      <4>3. i - 1 \in Nat /\ n <= i - 1 /\ \A j \in (n + 1)..(i - 1) : j \in (n + 1)..(n + m) /\ j # i
        BY <2>2, <4>1
      <4>4. \A j \in (n + 1)..(i - 1) : ~OfCell(all, atomics[all[i]].cell, j)
        BY <2>12, <4>1, <4>3 DEF OfCell
      <4>5. Stands(all, atomics[all[i]].cell, n, lane[all[i]].old)
        BY <2>13, <4>2
      <4> QED BY <2>2, <4>3, <4>4, <4>5, LeavesLater
    <3> QED BY <3>1, <3>2
  <2>15. \A a \in Addresses : Stands(all, a, n + m, cell'[a])
    <3> TAKE a \in Addresses
    <3>1. CASE \E l \in W : atomics[l].cell = a
      <4>1. PICK l \in W : atomics[l].cell = a
        BY <3>1
      <4>2. PICK j \in 1..m : last[j] = l
        BY <2>3 DEF W
      <4>3. n + j \in 1..(n + m) /\ n + j \in (n + 1)..(n + m) /\ n + j \notin 1..n /\ (n + j) - n = j
        BY <2>2
      <4>4. all[n + j] = l
        BY <2>7, <4>2, <4>3
      <4>5. OfCell(all, a, n + j) /\ cell'[a] = NewValue(atomics[all[n + j]], lane[all[n + j]].old)
        BY <1>7, <4>1, <4>4 DEF OfCell, W
      <4>6. \A i \in ((n + j) + 1)..(n + m) : i \in (n + 1)..(n + m) /\ i # n + j
        BY <2>2, <4>3
      <4>7. \A i \in ((n + j) + 1)..(n + m) : ~OfCell(all, a, i)
        BY <2>12, <4>3, <4>5, <4>6 DEF OfCell
      <4> QED BY <4>3, <4>5, <4>7 DEF Stands
    <3>2. CASE \A l \in W : atomics[l].cell # a
      <4>1. cell'[a] = cell[a] /\ a \in DOMAIN cell
        BY <1>3, <1>8, <3>2 DEF W
      <4>2. \A j \in (n + 1)..(n + m) : j \in 1..(n + m) /\ j \notin 1..n
        BY <2>2
      <4>3. \A j \in (n + 1)..(n + m) : ~OfCell(all, a, j)
        BY <2>7, <3>2, <4>2 DEF OfCell
      <4>4. n + m \in Nat /\ n <= n + m
        BY <2>2
      <4>5. Stands(all, a, n, cell'[a])
        BY <2>13, <4>1
      <4> QED BY <2>2, <4>3, <4>4, <4>5, LeavesLater
    <3> QED BY <3>1, <3>2
  <2>16. (\A i \in DOMAIN all : Stands(all, atomics[all[i]].cell, i - 1, lane[all[i]].old))'
    <3> TAKE i \in DOMAIN all
    <3>1. PICK a, v : a = atomics[all[i]].cell /\ v = lane[all[i]].old
      OBVIOUS
    <3>2. Stands(all, a, i - 1, v)'
      BY <1>2, <2>14, <3>1, LeavesSame
    <3>3. a = atomics'[all[i]].cell /\ v = lane'[all[i]].old
      BY <1>2, <3>1
    <3> QED BY <3>2, <3>3
  <2>17. (\A a \in DOMAIN cell : Stands(all, a, Cardinality(Made), cell[a]))'
    <3>1. DOMAIN cell' = Addresses /\ Cardinality(Made') = n + m
      BY <1>9, <1>10, <2>4 DEF W
    <3> TAKE a \in DOMAIN cell'
    <3>2. PICK v : v = cell'[a]
      OBVIOUS
    <3>3. Stands(all, a, n + m, v)
      BY <2>15, <3>1, <3>2
    <3>4. Stands(all, a, n + m, v)'
      BY <1>2, <3>3, LeavesSame
    <3>5. Cardinality(Made)' = n + m
      BY <3>1
    <3> QED BY <3>2, <3>4, <3>5
  <2>18. Explains(all)' /\ all \in SetToSeqs(Made')
    BY <1>10, <2>11, <2>16, <2>17 DEF Explains, W
  <2> QED BY <2>18 DEF Explained
<1> QED BY <1>9, <1>10, <1>11, <1>12

LEMMA WriteCellsKeeps ==
  ASSUME AtomicInv, NEW w \in DOMAIN warpAt, WriteCells(w)
  PROVE  AtomicInv'
<1>1. AtomicTypes /\ LocksHeld /\ ReadsKept
  BY DEF AtomicInv
<1>2. warpAt[w] = "write" /\ warpAt' = [warpAt EXCEPT ![w] = "unlock"] /\ UNCHANGED <<atomics, locks, lane>>
  BY DEF WriteCells
<1>3. /\ cell' \in [Addresses -> Nat] /\ Explained'
      /\ \A l \in Won : l[1] # w => cell'[atomics[l].cell] = cell[atomics[l].cell]
  BY WriteExplained
<1>4. AtomicTypes'
  <2>1. warpAt' \in [{l[1] : l \in DOMAIN atomics} -> {"try", "read", "write", "unlock"}]
    BY <1>1, <1>2 DEF AtomicTypes
  <2> QED BY <1>1, <1>2, <1>3, <2>1 DEF AtomicTypes
<1>5. Won' = Won /\ \A l \in Won : warpAt'[l[1]] = IF l[1] = w THEN "unlock" ELSE warpAt[l[1]]
  <2>1. \A l \in Won : l[1] \in DOMAIN warpAt
    BY <1>1, LanesGood DEF Won
  <2> QED BY <1>2, <2>1 DEF Won
<1>6. LocksHeld'
  BY <1>1, <1>2, <1>5 DEF LocksHeld, LaneLock
<1>7. ReadsKept'
  BY <1>1, <1>2, <1>3, <1>5 DEF ReadsKept
<1> QED BY <1>3, <1>4, <1>6, <1>7 DEF AtomicInv

LEMMA AtomicStep == ASSUME AtomicInv, [AtomicNext]_avars PROVE AtomicInv'
<1>1. CASE UNCHANGED avars
  <2>1. AtomicTypes' /\ LocksHeld' /\ ReadsKept' /\ Made' = Made
    BY <1>1 DEF avars, AtomicInv, AtomicTypes, LocksHeld, ReadsKept, Made, Won, LaneLock
  <2>2. Explained'
    BY <1>1, <2>1, ExplainedStays DEF avars, AtomicInv
  <2> QED BY <2>1, <2>2 DEF AtomicInv
<1>2. ASSUME NEW w \in DOMAIN warpAt, WarpStep(w) PROVE AtomicInv'
  BY <1>2, TakeLocksKeeps, ReadCellsKeeps, WriteCellsKeeps, UnlockKeeps DEF WarpStep
<1> QED BY <1>1, <1>2 DEF AtomicNext

(* Between operations the ones made are those that have finished. *)
LEMMA AtomicSound == ASSUME AtomicInv PROVE OneAfterAnother
<1> SUFFICES ASSUME \A w \in DOMAIN warpAt : warpAt[w] = "try"
             PROVE  \E order \in SetToSeqs(Finished64) :
                      /\ \A i \in DOMAIN order : Stands(order, atomics[order[i]].cell, i - 1, lane[order[i]].old)
                      /\ \A a \in DOMAIN cell : Stands(order, a, Cardinality(Finished64), cell[a])
  BY DEF OneAfterAnother
<1>1. \A l \in DOMAIN lane : l[1] \in DOMAIN warpAt
  BY LanesGood DEF AtomicInv
<1>2. Made = Finished64
  BY <1>1 DEF Made, Finished64
<1> QED BY <1>2 DEF AtomicInv, Explained, Explains

-----------------------------------------------------------------------------
(* Both parts together *)

LEMMA PreludeStarts == ASSUME PreludeInit PROVE PreludeInv
<1>1. SpillInv
  <2>1. pools = <<>> /\ blocks = <<>>
    BY DEF PreludeInit, NoSlots
  <2>2. DOMAIN pools = {} /\ DOMAIN blocks = {} /\ pools \in Seq(Pool) /\ blocks \in Seq(Block)
    BY <2>1
  <2> QED BY <2>2 DEF SpillInv, SpillTypes, Fits, Counted, CrossingMarked, SlotApart, Running
<1>2. PICK P \in Atomics \cup {<<>>} : AtomicInit(P)
  BY DEF PreludeInit
<1>3. /\ atomics = P /\ warpAt = [w \in {l[1] : l \in DOMAIN P} |-> "try"]
      /\ lane = [l \in DOMAIN P |-> [won |-> FALSE, done |-> FALSE, old |-> 0]]
      /\ locks = [h \in 0..(LockCount - 1) |-> FALSE] /\ cell = [a \in Addresses |-> 0]
  BY <1>2 DEF AtomicInit
<1>4. AtomicTypes
  BY <1>3 DEF AtomicTypes, Lane
<1>5. Won = {} /\ Made = {}
  BY <1>3 DEF Won, Made
<1>6. Explained
  <2>1. Cardinality(Made) = 0
    BY <1>5, FS_EmptySet
  <2>2. PICK none : none = [i \in 1..0 |-> 0]
    OBVIOUS
  <2>3. DOMAIN none = {} /\ 1..0 = {} /\ none \in [1..0 -> {}]
    BY <2>2
  <2>4. none \in SetToSeqs(Made)
    BY <1>5, <2>1, <2>3, Orders
  <2>5. \A a \in DOMAIN cell : Stands(none, a, 0, cell[a])
    BY <1>3 DEF Stands
  <2>6. Explains(none)
    BY <2>1, <2>3, <2>5 DEF Explains
  <2> QED BY <2>4, <2>6 DEF Explained
<1> QED BY <1>1, <1>4, <1>5, <1>6 DEF PreludeInv, AtomicInv, LocksHeld, ReadsKept

LEMMA PreludeStep == ASSUME PreludeInv, [PreludeNext]_pvars PROVE PreludeInv'
<1>1. [SpillNext]_svars /\ [AtomicNext]_avars
  BY DEF PreludeNext, SpillNext, AtomicNext, pvars
<1> QED BY <1>1, SpillStep, AtomicStep DEF PreludeInv

(* Spill slots and 64-bit atomics of the prelude: a running block has its  *)
(* slot to itself and rebuilds the addresses of its shared memory, and the *)
(* atomic operations are those of some order, for every pool, every number *)
(* of blocks, and every operation of every kernel that uses atomics.       *)
THEOREM PreludeIsSound == PreludeSpec => []PreludeSound
<1>1. PreludeInit => PreludeInv
  BY PreludeStarts
<1>2. PreludeInv /\ [PreludeNext]_pvars => PreludeInv'
  BY PreludeStep
<1>3. PreludeInv => PreludeSound
  BY SpillSound, AtomicSound DEF PreludeInv, PreludeSound
<1> QED BY <1>1, <1>2, <1>3, PTL DEF PreludeSpec
=============================================================================
