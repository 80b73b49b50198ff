--------------------------- MODULE ProgressProofs ---------------------------
(***************************************************************************)
(* Proof that fences alone never stop the GPU: for any streams, events,    *)
(* commit thresholds and number of operations, and kernels that spin until *)
(* earlier operations have run, some command buffer can move as long as    *)
(* one is unfinished, none is open and none has faulted.                   *)
(*                                                                         *)
(* What a buffer waits for was there first.  The model keeps no clock, so  *)
(* the invariant says that one could be kept: some function gives a time   *)
(* to every item encoded and every buffer committed, and an item comes     *)
(* after the commits its waits ask for and the operations its kernel spins *)
(* on.  The earliest item that is left can then run.                       *)
(***************************************************************************)
EXTENDS RefinementProofs, WellFoundedInduction

(* The times of the items (s, i, m), m > 0, and of the commits (s, i, 0).  *)
Times == [Streams \X Nat \X Nat -> Nat]

(* The buffer or handler that ends wait w was committed before time t. *)
Due(R, T, w, t) ==
  \/ signal[w[1]] >= w[2]
  \/ \E p \in Streams : /\ w[1] = Dev(p) /\ w[2] \in DOMAIN T[p].sent
                        /\ R[<<p, w[2], 0>>] < t
  \/ \E p \in Streams : /\ w[1] = Host(p)
                        /\ \E j \in DOMAIN T[p].sent :
                             /\ T[p].sent[j].handler.op # 0 /\ T[p].sent[j].handler.value >= w[2]
                             /\ R[<<p, j, 0>>] < t

(* Operation o has run, or was issued before time t. *)
Issued(R, T, o, t) ==
  \/ o \in done
  \/ \E p \in Streams : \E j \in DOMAIN Bufs(T[p]) : \E k \in DOMAIN Bufs(T[p])[j] :
       Bufs(T[p])[j][k].op = o /\ R[<<p, j, k>>] < t
  \/ \E p \in Streams : \E j \in DOMAIN T[p].sent : T[p].sent[j].handler.op = o /\ R[<<p, j, 0>>] < t

(* R gives times before n to what table T holds, each after what it waits for. *)
ItemStamped(R, n, T, s, i, m) ==
  LET t == R[<<s, i, m>>]
  IN  /\ t < n
      /\ m > 1 => R[<<s, i, m - 1>>] < t
      /\ i \in DOMAIN T[s].sent => t < R[<<s, i, 0>>]
      /\ \A w \in Bufs(T[s])[i][m].waits : Due(R, T, w, t)
      /\ \A o \in Bufs(T[s])[i][m].needs : o # 0 /\ Issued(R, T, o, t)
Stamped(R, n, T) ==
  /\ R \in Times /\ n \in Nat
  /\ \A s \in Streams : \A i \in DOMAIN Bufs(T[s]) : \A m \in DOMAIN Bufs(T[s])[i] : ItemStamped(R, n, T, s, i, m)
  /\ \A s \in Streams : \A i \in DOMAIN T[s].sent : R[<<s, i, 0>>] < n
Clocked(T) == \E R \in Times : \E n \in Nat : Stamped(R, n, T)

(* A host fence that is short of the last value promised has a completion  *)
(* handler to bring it there, and every operation issued and not run is in *)
(* a buffer or a handler.                                                  *)
HostOwed(T) ==
  \A p \in Streams : signal[Host(p)] < T[p].hostValue =>
    \E j \in DOMAIN T[p].sent : T[p].sent[j].handler.op # 0 /\ T[p].sent[j].handler.value = T[p].hostValue
Present(T, o) ==
  \E p \in Streams : \/ \E j \in DOMAIN Bufs(T[p]) : \E k \in DOMAIN Bufs(T[p])[j] : Bufs(T[p])[j][k].op = o
                     \/ \E j \in DOMAIN T[p].sent : T[p].sent[j].handler.op = o
OpsPresent(T, L) == \A o \in DOMAIN L : o \in done \/ Present(T, o)

Timely(T, L) == HostOwed(T) /\ OpsPresent(T, L) /\ Clocked(T)

PInv == OInv /\ Timely(str, log)

-----------------------------------------------------------------------------
(* Times *)

LEMMA LeastTime ==
  ASSUME NEW X, X \subseteq Nat, X # {}
  PROVE  \E x \in X : \A y \in X : x <= y
<1> DEFINE Less == {ss \in Nat \X Nat : ss[1] < ss[2]}
<1>1. IsWellFoundedOn(Less, Nat)
  BY NatLessThanWellFounded DEF OpToRel
<1> HIDE DEF Less
<1>2. PICK x \in X : \A y \in X : ~(<<y, x>> \in Less)
  BY <1>1, WFMin
<1>3. ASSUME NEW y \in X PROVE x <= y
  <2>1. <<y, x>> \in Nat \X Nat /\ ~(<<y, x>> \in Less) /\ x \in Nat /\ y \in Nat
    BY <1>2
  <2>2. ~(y < x)
    BY <2>1 DEF Less
  <2> QED BY <2>1, <2>2
<1> QED BY <1>3

(* Items and buffers stay, with what the calls add. *)
Has(T, p, i, m) == i \in DOMAIN Bufs(T[p]) /\ m \in DOMAIN Bufs(T[p])[i]

(* The one item a call has added: it comes after the one before it, waits  *)
(* for what is committed, and spins on what has been issued.               *)
Fresh(T, U, L, s, r, k) ==
  /\ r \notin DOMAIN T[s].sent
  /\ k > 1 => Has(T, s, r, k - 1)
  /\ Bufs(U[s])[r][k].waits # {} => r \notin DOMAIN U[s].sent
  /\ Bufs(U[s])[r][k].needs \subseteq DOMAIN L /\ 0 \notin Bufs(U[s])[r][k].needs
  /\ \A p \in Streams : U[p].hostValue = T[p].hostValue
AtMostOne(T, U, L, s, r, k) ==
  \A p \in Streams : \A i \in DOMAIN Bufs(U[p]) : \A m \in DOMAIN Bufs(U[p])[i] :
    Has(T, p, i, m) \/ (p = s /\ i = r /\ m = k /\ Fresh(T, U, L, s, r, k))

LEMMA PlaceTypes ==
  ASSUME NEW T, Good(T), NEW p \in Streams
  PROVE  /\ \A i \in DOMAIN Bufs(T[p]) : i \in Nat /\ \A m \in DOMAIN Bufs(T[p])[i] : m \in Nat /\ m # 0
         /\ \A i \in DOMAIN T[p].sent : i \in Nat /\ i # 0 /\ i \in DOMAIN Bufs(T[p])
                                        /\ Bufs(T[p])[i] = T[p].sent[i].body
         /\ T[p].fenceValue \in Nat /\ DOMAIN T[p].sent = 1..T[p].fenceValue /\ T[p].hostValue \in Nat
<1>1. T[p] \in Stream /\ Own(T[p])
  BY DEF Good
<1>2. Reach(T[p]) \in Nat /\ DOMAIN T[p].sent = 1..T[p].fenceValue /\ T[p].fenceValue \in Nat
  BY <1>1, SentFacts
<1>3. DOMAIN Bufs(T[p]) = 1..Reach(T[p]) /\ \A i \in DOMAIN Bufs(T[p]) : Bufs(T[p])[i] \in Seq(Item)
  BY <1>1, ViewFacts
<1>4. \A i \in DOMAIN T[p].sent : i \in DOMAIN Bufs(T[p]) /\ Bufs(T[p])[i] = T[p].sent[i].body
  BY <1>1, ViewFacts
<1>5. \A i \in DOMAIN Bufs(T[p]) : DOMAIN Bufs(T[p])[i] = 1..Len(Bufs(T[p])[i]) /\ Len(Bufs(T[p])[i]) \in Nat
  BY <1>3
<1>6. \A i \in DOMAIN Bufs(T[p]) : i \in Nat /\ \A m \in DOMAIN Bufs(T[p])[i] : m \in Nat /\ m # 0
  BY <1>2, <1>3, <1>5
<1> QED BY <1>1, <1>2, <1>4, <1>6, StreamFields

LEMMA ItemPlace ==
  ASSUME NEW T, Good(T), NEW p \in Streams, NEW i, NEW m, Has(T, p, i, m)
  PROVE  i \in Nat /\ m \in Nat /\ m # 0
<1>1. \A j \in DOMAIN Bufs(T[p]) : j \in Nat /\ \A k \in DOMAIN Bufs(T[p])[j] : k \in Nat /\ k # 0
  BY PlaceTypes
<1> QED BY <1>1 DEF Has

(* A wait encoded now is for what is committed now. *)
LEMMA DueNow ==
  ASSUME NEW T, Good(T), NEW U, Kept(T, U), HostOwed(T), \A p \in Streams : U[p].hostValue = T[p].hostValue,
         signal \in [Fence -> Nat], NEW w \in Wait, Reaches(U, w), NEW Q, NEW t,
         \A p \in Streams : \A i \in DOMAIN U[p].sent : w = <<Dev(p), i>> => Q[<<p, i, 0>>] < t,
         \A p \in Streams : \A i \in DOMAIN T[p].sent : Q[<<p, i, 0>>] < t, Good(U)
  PROVE  Due(Q, U, w, t)
<1>1. w = <<w[1], w[2]>> /\ w[1] \in Fence /\ w[2] \in Nat /\ signal[w[1]] \in Nat
  BY DEF Wait
<1>2. PICK p \in Streams : w[1] = Dev(p) \/ w[1] = Host(p)
  BY <1>1 DEF Fence, Dev, Host
<1>3. CASE w[1] = Dev(p)
  <2>1. w[2] <= U[p].fenceValue
    BY <1>3 DEF Reaches, Dev
  <2>2. w[2] = 0 \/ w[2] \in DOMAIN U[p].sent
    BY <1>1, <2>1, PlaceTypes
  <2>3. w[2] = 0 => signal[w[1]] >= w[2]
    BY <1>1
  <2>4. w[2] \in DOMAIN U[p].sent => Q[<<p, w[2], 0>>] < t
    BY <1>1, <1>3
  <2> QED BY <1>3, <2>2, <2>3, <2>4 DEF Due
<1>4. CASE w[1] = Host(p)
  <2>1. w[2] <= T[p].hostValue
    BY <1>4 DEF Reaches, Host
  <2>2. T[p].hostValue \in Nat
    BY PlaceTypes
  <2>3. CASE signal[w[1]] >= T[p].hostValue
    <3>1. signal[w[1]] >= w[2]
      BY <1>1, <2>1, <2>2, <2>3
    <3> QED BY <3>1 DEF Due
  <2>4. CASE signal[Host(p)] < T[p].hostValue
    <3>1. PICK j \in DOMAIN T[p].sent : /\ T[p].sent[j].handler.op # 0
                                        /\ T[p].sent[j].handler.value = T[p].hostValue
      BY <2>4 DEF HostOwed
    <3>2. j \in DOMAIN U[p].sent /\ U[p].sent[j] = T[p].sent[j] /\ Q[<<p, j, 0>>] < t
      BY DEF Kept, KeptSt
    <3>3. U[p].sent[j].handler.value >= w[2]
      BY <1>1, <2>1, <2>2, <3>1, <3>2
    <3> QED BY <1>4, <3>1, <3>2, <3>3 DEF Due
  <2> QED BY <1>1, <1>4, <2>2, <2>3, <2>4
<1> QED BY <1>2, <1>3, <1>4

LEMMA DueStays ==
  ASSUME NEW T, NEW U, Kept(T, U), NEW R, NEW Q, NEW w, NEW t, Due(R, T, w, t),
         \A p \in Streams : \A i \in DOMAIN T[p].sent : Q[<<p, i, 0>>] = R[<<p, i, 0>>]
  PROVE  Due(Q, U, w, t)
<1>1. CASE signal[w[1]] >= w[2]
  BY <1>1 DEF Due
<1>2. ASSUME NEW p \in Streams, w[1] = Dev(p), w[2] \in DOMAIN T[p].sent, R[<<p, w[2], 0>>] < t
      PROVE  Due(Q, U, w, t)
  BY <1>2 DEF Due, Kept, KeptSt
<1>3. ASSUME NEW p \in Streams, w[1] = Host(p), NEW j \in DOMAIN T[p].sent, T[p].sent[j].handler.op # 0,
             T[p].sent[j].handler.value >= w[2], R[<<p, j, 0>>] < t
      PROVE  Due(Q, U, w, t)
  <2>1. j \in DOMAIN U[p].sent /\ U[p].sent[j] = T[p].sent[j] /\ Q[<<p, j, 0>>] < t
    BY <1>3 DEF Kept, KeptSt
  <2> QED BY <1>3, <2>1 DEF Due
<1> QED BY <1>1, <1>2, <1>3 DEF Due

LEMMA IssuedStays ==
  ASSUME NEW T, NEW U, Longer(T, U), NEW R, NEW Q, NEW o, NEW t, Issued(R, T, o, t),
         \A p \in Streams : \A i \in DOMAIN T[p].sent : Q[<<p, i, 0>>] = R[<<p, i, 0>>],
         \A p \in Streams : \A i \in DOMAIN Bufs(T[p]) : \A m \in DOMAIN Bufs(T[p])[i] :
           Q[<<p, i, m>>] = R[<<p, i, m>>]
  PROVE  Issued(Q, U, o, t)
<1>1. CASE o \in done
  BY <1>1 DEF Issued
<1>2. ASSUME NEW p \in Streams, NEW j \in DOMAIN Bufs(T[p]), NEW k \in DOMAIN Bufs(T[p])[j],
             Bufs(T[p])[j][k].op = o, R[<<p, j, k>>] < t
      PROVE  Issued(Q, U, o, t)
  <2>1. j \in DOMAIN Bufs(U[p]) /\ k \in DOMAIN Bufs(U[p])[j] /\ Bufs(U[p])[j][k] = Bufs(T[p])[j][k]
    BY DEF Longer, Ext, BufsOf
  <2> QED BY <1>2, <2>1 DEF Issued
<1>3. ASSUME NEW p \in Streams, NEW j \in DOMAIN T[p].sent, T[p].sent[j].handler.op = o, R[<<p, j, 0>>] < t
      PROVE  Issued(Q, U, o, t)
  <2>1. j \in DOMAIN U[p].sent /\ U[p].sent[j] = T[p].sent[j] /\ Q[<<p, j, 0>>] < t
    BY <1>3 DEF Longer, Kept, KeptSt
  <2> QED BY <1>3, <2>1 DEF Issued
<1> QED BY <1>1, <1>2, <1>3 DEF Issued

LEMMA IssuedNow ==
  ASSUME NEW T, NEW U, Longer(T, U), NEW Q, NEW t, NEW o, o \in done \/ Present(T, o),
         \A p \in Streams : \A i \in DOMAIN T[p].sent : Q[<<p, i, 0>>] < t,
         \A p \in Streams : \A i \in DOMAIN Bufs(T[p]) : \A m \in DOMAIN Bufs(T[p])[i] : Q[<<p, i, m>>] < t
  PROVE  Issued(Q, U, o, t)
<1>1. Issued(Q, T, o, t)
  BY DEF Present, Issued
<1> QED BY <1>1, IssuedStays

(* Time goes on: what is committed first, then the new item, then what its *)
(* buffer's own commit adds.                                               *)
LEMMA ClockGrows ==
  ASSUME NEW T, Good(T), NEW U, Good(U), Longer(T, U), HostOwed(T), NEW L, OpsPresent(T, L), Clocked(T),
         signal \in [Fence -> Nat], NEW s \in Streams, NEW r, NEW k, AtMostOne(T, U, L, s, r, k)
  PROVE  Clocked(U)
<1>1. PICK R \in Times, n \in Nat : Stamped(R, n, T)
  BY DEF Clocked
<1> DEFINE Was(x) == \/ Has(T, x[1], x[2], x[3])
                     \/ x[3] = 0 /\ x[2] \in DOMAIN T[x[1]].sent
           Now(x) == IF x[3] # 0 THEN n + 1 ELSE IF x[1] = s /\ x[2] = r THEN n + 2 ELSE n
           Q == [x \in Streams \X Nat \X Nat |-> IF Was(x) THEN R[x] ELSE Now(x)]
<1>2. Q \in Times /\ n + 1 \in Nat /\ n + 3 \in Nat
  BY <1>1 DEF Times
<1>3. ASSUME NEW p \in Streams, NEW i, NEW m, Has(T, p, i, m)
      PROVE  /\ Q[<<p, i, m>>] = R[<<p, i, m>>] /\ Q[<<p, i, m>>] < n /\ Q[<<p, i, m>>] \in Nat
             /\ ItemStamped(R, n, T, p, i, m) /\ i \in Nat /\ m \in Nat /\ m # 0
  <2>1. i \in Nat /\ m \in Nat /\ m # 0
    BY <1>3, ItemPlace
  <2>2. <<p, i, m>> \in Streams \X Nat \X Nat /\ Was(<<p, i, m>>)
    BY <1>3, <2>1
  <2>3. Q[<<p, i, m>>] = R[<<p, i, m>>]
    BY <2>2
  <2>4. ItemStamped(R, n, T, p, i, m)
    BY <1>1, <1>3 DEF Stamped, Has
  <2>5. R[<<p, i, m>>] < n /\ R[<<p, i, m>>] \in Nat
    BY <2>2, <2>4, <1>1 DEF ItemStamped, Times
  <2> QED BY <2>1, <2>3, <2>4, <2>5
<1>4. ASSUME NEW p \in Streams, NEW i \in DOMAIN T[p].sent
      PROVE  Q[<<p, i, 0>>] = R[<<p, i, 0>>] /\ Q[<<p, i, 0>>] < n /\ Q[<<p, i, 0>>] \in Nat
  <2>1. <<p, i, 0>> \in Streams \X Nat \X Nat /\ Was(<<p, i, 0>>)
    BY PlaceTypes
  <2>2. R[<<p, i, 0>>] < n /\ R[<<p, i, 0>>] \in Nat
    BY <1>1, <2>1 DEF Stamped, Times
  <2> QED BY <2>1, <2>2
<1>5. ASSUME NEW p \in Streams, NEW i \in DOMAIN U[p].sent, i \notin DOMAIN T[p].sent
      PROVE  Q[<<p, i, 0>>] = IF p = s /\ i = r THEN n + 2 ELSE n
  <2>1. <<p, i, 0>> \in Streams \X Nat \X Nat
    BY PlaceTypes
  <2>2. ~Has(T, p, i, 0)
    BY PlaceTypes DEF Has
  <2>3. ~Was(<<p, i, 0>>)
    BY <1>5, <2>2
  <2> QED BY <2>1, <2>3
<1>6. ASSUME NEW p \in Streams, NEW i, NEW m, Has(U, p, i, m), ~Has(T, p, i, m)
      PROVE  /\ Q[<<p, i, m>>] = n + 1
             /\ p = s /\ i = r /\ m = k /\ Fresh(T, U, L, s, r, k)
  <2>1. i \in Nat /\ m \in Nat /\ m # 0
    BY <1>6, ItemPlace
  <2>2. <<p, i, m>> \in Streams \X Nat \X Nat /\ ~Was(<<p, i, m>>)
    BY <1>6, <2>1
  <2>3. p = s /\ i = r /\ m = k /\ Fresh(T, U, L, s, r, k)
    BY <1>6 DEF AtMostOne, Has
  <2> QED BY <2>1, <2>2, <2>3
<1> HIDE DEF Q, Was, Now
<1>7. \A p \in Streams : \A i \in DOMAIN T[p].sent : Q[<<p, i, 0>>] = R[<<p, i, 0>>] /\ Q[<<p, i, 0>>] < n + 1
  <2> SUFFICES ASSUME NEW p \in Streams, NEW i \in DOMAIN T[p].sent
               PROVE  Q[<<p, i, 0>>] = R[<<p, i, 0>>] /\ Q[<<p, i, 0>>] < n + 1
    OBVIOUS
  <2>1. Q[<<p, i, 0>>] = R[<<p, i, 0>>] /\ Q[<<p, i, 0>>] < n /\ Q[<<p, i, 0>>] \in Nat
    BY <1>4
  <2> QED BY <1>1, <2>1
<1>8. \A p \in Streams : \A i \in DOMAIN Bufs(T[p]) : \A m \in DOMAIN Bufs(T[p])[i] :
        Q[<<p, i, m>>] = R[<<p, i, m>>] /\ Q[<<p, i, m>>] < n + 1
  <2> SUFFICES ASSUME NEW p \in Streams, NEW i \in DOMAIN Bufs(T[p]), NEW m \in DOMAIN Bufs(T[p])[i]
               PROVE  Q[<<p, i, m>>] = R[<<p, i, m>>] /\ Q[<<p, i, m>>] < n + 1
    OBVIOUS
  <2>1. Has(T, p, i, m)
    BY DEF Has
  <2>2. Q[<<p, i, m>>] = R[<<p, i, m>>] /\ Q[<<p, i, m>>] < n /\ Q[<<p, i, m>>] \in Nat
    BY <1>3, <2>1
  <2> QED BY <1>1, <2>2
<1>9. ASSUME NEW p \in Streams, NEW i \in DOMAIN U[p].sent
      PROVE  Q[<<p, i, 0>>] < n + 3
  BY <1>1, <1>4, <1>5
<1>10. ASSUME NEW p \in Streams, NEW i, NEW m, Has(T, p, i, m)
       PROVE  ItemStamped(Q, n + 3, U, p, i, m)
  <2> DEFINE t == Q[<<p, i, m>>]
  <2>0. /\ ItemStamped(R, n, T, p, i, m) /\ t = R[<<p, i, m>>] /\ t < n /\ t \in Nat
        /\ i \in Nat /\ m \in Nat /\ m # 0
    BY <1>3, <1>10
  <2>1. t < n + 3
    BY <1>1, <2>0
  <2>2. m > 1 => Q[<<p, i, m - 1>>] < t
    <3> SUFFICES ASSUME m > 1 PROVE Q[<<p, i, m - 1>>] < t
      OBVIOUS
    <3>1. Bufs(T[p])[i] \in Seq(Item)
      BY <1>10, ViewFacts DEF Has, Good
    <3>2. m - 1 \in DOMAIN Bufs(T[p])[i]
      BY <1>10, <2>0, <3>1 DEF Has
    <3>3. Q[<<p, i, m - 1>>] = R[<<p, i, m - 1>>]
      BY <1>10, <3>2, <1>3 DEF Has
    <3> QED BY <2>0, <3>3 DEF ItemStamped
  <2>3. i \in DOMAIN U[p].sent => t < Q[<<p, i, 0>>]
    <3>1. i \in DOMAIN T[p].sent => t < Q[<<p, i, 0>>]
      BY <2>0, <1>4 DEF ItemStamped
    <3>2. i \in DOMAIN U[p].sent /\ i \notin DOMAIN T[p].sent => t < Q[<<p, i, 0>>]
      BY <1>1, <1>5, <2>0
    <3> QED BY <3>1, <3>2
  <2>4. Bufs(U[p])[i][m] = Bufs(T[p])[i][m]
    BY <1>10 DEF Longer, Ext, BufsOf, Has
  <2>5. \A w \in Bufs(U[p])[i][m].waits : Due(Q, U, w, t)
    BY <2>0, <2>4, <1>7, DueStays DEF ItemStamped, Longer
  <2>6. ASSUME NEW o \in Bufs(U[p])[i][m].needs PROVE o # 0 /\ Issued(Q, U, o, t)
    <3>1. o # 0 /\ Issued(R, T, o, t)
      BY <2>0, <2>4, <2>6 DEF ItemStamped
    <3>2. Issued(Q, U, o, t)
      BY <1>7, <1>8, <3>1, IssuedStays
    <3> QED BY <3>1, <3>2
  <2> QED BY <2>1, <2>2, <2>3, <2>5, <2>6 DEF ItemStamped
<1>11. ASSUME NEW p \in Streams, NEW i, NEW m, Has(U, p, i, m), ~Has(T, p, i, m)
       PROVE  ItemStamped(Q, n + 3, U, p, i, m)
  <2> DEFINE item == Bufs(U[s])[r][k]
  <2>0. p = s /\ i = r /\ m = k /\ Fresh(T, U, L, s, r, k) /\ Q[<<s, r, k>>] = n + 1 /\ k \in Nat
    <3>1. p = s /\ i = r /\ m = k /\ Fresh(T, U, L, s, r, k) /\ Q[<<p, i, m>>] = n + 1
      BY <1>6, <1>11
    <3>2. m \in Nat
      BY <1>11, ItemPlace
    <3> QED BY <3>1, <3>2
  <2>1. n + 1 < n + 3
    BY <1>1
  <2>2. k > 1 => Q[<<s, r, k - 1>>] < n + 1
    BY <1>1, <2>0, <1>3 DEF Fresh
  <2>3. r \in DOMAIN U[s].sent => n + 1 < Q[<<s, r, 0>>]
    BY <1>1, <2>0, <1>5 DEF Fresh
  <2>4. ASSUME NEW w \in item.waits PROVE Due(Q, U, w, n + 1)
    <3>1. r \notin DOMAIN U[s].sent
      BY <2>0, <2>4 DEF Fresh
    <3>2. r \in DOMAIN Bufs(U[s]) /\ k \in DOMAIN Bufs(U[s])[r]
      BY <1>11, <2>0 DEF Has
    <3>3. U[s] \in Stream /\ Own(U[s])
      BY DEF Good
    <3>4. Bufs(U[s])[r] = U[s].body /\ U[s].body \in Seq(Item)
      BY <3>1, <3>2, <3>3, StreamFields DEF Bufs
    <3>5. w \in WaitsOf(U[s].body)
      BY <3>2, <3>4 DEF WaitsOf
    <3>6. Reaches(U, w)
      BY <3>5 DEF Good, StWaits
    <3>7. w \in Wait
      <4>1. item \in Item
        BY <3>2, <3>4
      <4> QED BY <4>1 DEF Item
    <3>8. \A q \in Streams : \A j \in DOMAIN U[q].sent : Q[<<q, j, 0>>] < n + 1
      <4>1. n < n + 1
        BY <1>1
      <4> QED BY <1>7, <1>5, <3>1, <4>1
    <3> HIDE DEF item
    <3> QED BY <1>7, <2>0, <3>6, <3>7, <3>8, DueNow DEF Fresh, Longer
  <2>5. ASSUME NEW o \in item.needs PROVE o # 0 /\ Issued(Q, U, o, n + 1)
    <3>1. (o \in done \/ Present(T, o)) /\ o # 0
      BY <2>0, <2>5 DEF Fresh, OpsPresent
    <3> QED BY <1>7, <1>8, <3>1, IssuedNow
  <2> QED BY <2>0, <2>1, <2>2, <2>3, <2>4, <2>5 DEF ItemStamped
<1>12. \A p \in Streams : \A i \in DOMAIN Bufs(U[p]) : \A m \in DOMAIN Bufs(U[p])[i] :
         ItemStamped(Q, n + 3, U, p, i, m)
  BY <1>10, <1>11 DEF Has
<1>13. Stamped(Q, n + 3, U)
  BY <1>2, <1>9, <1>12 DEF Stamped
<1> QED BY <1>2, <1>13 DEF Clocked

-----------------------------------------------------------------------------
(* The calls of the program *)

LEMMA OwedStays ==
  ASSUME NEW T, NEW U, Kept(T, U), HostOwed(T), \A p \in Streams : U[p].hostValue = T[p].hostValue
  PROVE  HostOwed(U)
<1> SUFFICES ASSUME NEW p \in Streams, signal[Host(p)] < U[p].hostValue
             PROVE  \E j \in DOMAIN U[p].sent :
                      U[p].sent[j].handler.op # 0 /\ U[p].sent[j].handler.value = U[p].hostValue
  BY DEF HostOwed
<1>1. PICK j \in DOMAIN T[p].sent : T[p].sent[j].handler.op # 0 /\ T[p].sent[j].handler.value = T[p].hostValue
  BY DEF HostOwed
<1>2. j \in DOMAIN U[p].sent /\ U[p].sent[j] = T[p].sent[j]
  BY DEF Kept, KeptSt
<1> QED BY <1>1, <1>2

LEMMA PresentStays ==
  ASSUME NEW T, NEW U, Longer(T, U), NEW o, Present(T, o)
  PROVE  Present(U, o)
<1>1. ASSUME NEW p \in Streams, NEW j \in DOMAIN Bufs(T[p]), NEW k \in DOMAIN Bufs(T[p])[j],
             Bufs(T[p])[j][k].op = o
      PROVE  Present(U, o)
  <2>1. j \in DOMAIN Bufs(U[p]) /\ k \in DOMAIN Bufs(U[p])[j] /\ Bufs(U[p])[j][k] = Bufs(T[p])[j][k]
    BY DEF Longer, Ext, BufsOf
  <2> QED BY <1>1, <2>1 DEF Present
<1>2. ASSUME NEW p \in Streams, NEW j \in DOMAIN T[p].sent, T[p].sent[j].handler.op = o PROVE Present(U, o)
  <2>1. j \in DOMAIN U[p].sent /\ U[p].sent[j] = T[p].sent[j]
    BY DEF Longer, Kept, KeptSt
  <2> QED BY <1>2, <2>1 DEF Present
<1> QED BY <1>1, <1>2 DEF Present

LEMMA OpsStay ==
  ASSUME NEW T, NEW U, Longer(T, U), NEW L, OpsPresent(T, L)
  PROVE  OpsPresent(U, L)
  BY PresentStays DEF OpsPresent

(* A call that adds no item. *)
LEMMA SameClock ==
  ASSUME NEW T, Good(T), NEW U, Good(U), Longer(T, U), BufsOf(U) = BufsOf(T), signal \in [Fence -> Nat],
         NEW L, Timely(T, L)
  PROVE  Clocked(U) /\ OpsPresent(U, L)
<1>1. \A p \in Streams : Bufs(U[p]) = Bufs(T[p])
  BY DEF BufsOf
<1>2. AtMostOne(T, U, L, Legacy, 0, 0)
  BY <1>1 DEF AtMostOne, Has
<1>3. Clocked(U)
  BY <1>2, ClockGrows, StreamsAssumption DEF Timely
<1> QED BY <1>3, OpsStay DEF Timely

LEMMA SameTimely ==
  ASSUME NEW T, Good(T), NEW U, Good(U), Longer(T, U), BufsOf(U) = BufsOf(T), signal \in [Fence -> Nat],
         NEW L, Timely(T, L), \A p \in Streams : U[p].hostValue = T[p].hostValue
  PROVE  Timely(U, L)
<1>1. HostOwed(U)
  BY OwedStays DEF Timely, Longer
<1> QED BY <1>1, SameClock DEF Timely

LEMMA CommitSetTimely ==
  ASSUME NEW T, Good(T), signal \in [Fence -> Nat], NEW L, Timely(T, L), NEW S, NEW U, U = CommitSet(T, S)
  PROVE  Timely(U, L)
<1>1. Good(U) /\ Longer(T, U) /\ BufsOf(U) = BufsOf(T)
  BY CommitSetGood, CommitSetView, CommitSetLonger
<1>2. \A p \in Streams : U[p].hostValue = T[p].hostValue
  BY CommitSetView
<1> QED BY <1>1, <1>2, SameTimely

LEMMA OpenTimely ==
  ASSUME NEW T, Good(T), signal \in [Fence -> Nat], NEW L, Timely(T, L), NEW s \in Streams,
         T[s].state = "live", NEW U, U = Open(T, s)
  PROVE  Timely(U, L)
<1>0. Good(U) /\ Longer(T, U)
  BY OpenGood, OpenLonger
<1>1. CASE U = T
  BY <1>1
<1>2. ASSUME NEW first, Opened(T, U, s, first) PROVE Timely(U, L)
  <2> DEFINE v == Reach(T[s])
             r == v + 1
  <2>1. T[s] \in Stream /\ Own(T[s]) /\ U[s] \in Stream /\ Own(U[s])
    BY <1>0 DEF Good
  <2>a. ~T[s].open /\ U[s].open
    BY <1>2 DEF Opened
  <2>2. v \in Nat /\ DOMAIN T[s].sent = 1..v /\ DOMAIN Bufs(T[s]) = 1..v
    <3>1. DOMAIN Bufs(T[s]) = 1..v
      BY <2>1, ViewFacts
    <3> QED BY <2>1, <2>a, <3>1, SentFacts
  <2>3. DOMAIN Bufs(U[s]) = 1..Reach(U[s]) /\ Reach(U[s]) \in Nat /\ DOMAIN U[s].sent = 1..(Reach(U[s]) - 1)
    <3>1. DOMAIN Bufs(U[s]) = 1..Reach(U[s])
      BY <2>1, ViewFacts
    <3>2. /\ Reach(U[s]) = U[s].fenceValue + 1 /\ U[s].fenceValue \in Nat
          /\ DOMAIN U[s].sent = 1..U[s].fenceValue
      BY <2>1, <2>a, SentFacts
    <3>3. Reach(U[s]) - 1 = U[s].fenceValue /\ Reach(U[s]) \in Nat
      BY <3>2
    <3> QED BY <3>1, <3>2, <3>3
  <2>4. Bufs(U[s]) = [i \in 1..(v + 1) |-> IF i = v + 1 THEN <<first>> ELSE Bufs(T[s])[i]]
    BY <1>2 DEF Opened
  <2>5. /\ first.needs = {} /\ \A p \in Streams : U[p].hostValue = T[p].hostValue
        /\ \A p \in Streams \ {s} : Bufs(U[p]) = Bufs(T[p])
    BY <1>2 DEF Opened
  <2> HIDE DEF v
  <2>6. Reach(U[s]) = r
    BY <2>2, <2>3, <2>4
  <2>7. r \notin DOMAIN T[s].sent /\ r \notin DOMAIN U[s].sent
    BY <2>2, <2>3, <2>6
  <2>8. Bufs(U[s])[r] = <<first>> /\ \A i \in 1..v : Bufs(U[s])[i] = Bufs(T[s])[i]
    BY <2>2, <2>4
  <2>9. Fresh(T, U, L, s, r, 1)
    <3>1. Bufs(U[s])[r][1].needs = {}
      BY <2>5, <2>8
    <3> QED BY <2>5, <2>7, <3>1 DEF Fresh
  <2>10. AtMostOne(T, U, L, s, r, 1)
    <3> SUFFICES ASSUME NEW p \in Streams, NEW i \in DOMAIN Bufs(U[p]), NEW m \in DOMAIN Bufs(U[p])[i]
                 PROVE  Has(T, p, i, m) \/ (p = s /\ i = r /\ m = 1)
      BY <2>9 DEF AtMostOne
    <3>1. CASE p # s
      BY <2>5, <3>1 DEF Has
    <3>2. CASE p = s /\ i # r
      <4>1. i \in 1..v
        BY <2>2, <2>3, <2>6, <3>2
      <4> QED BY <2>2, <2>8, <3>2, <4>1 DEF Has
    <3>3. CASE p = s /\ i = r
      <4>1. DOMAIN Bufs(U[s])[r] = {1}
        BY <2>8
      <4> QED BY <3>3, <4>1
    <3> QED BY <3>1, <3>2, <3>3
  <2>11. Clocked(U)
    BY <1>0, <2>10, ClockGrows DEF Timely
  <2>12. HostOwed(U)
    BY <1>0, <2>5, OwedStays DEF Timely, Longer
  <2> QED BY <1>0, <2>11, <2>12, OpsStay DEF Timely
<1> QED BY <1>1, <1>2, OpenView

(* An item added to the open buffer of s. *)
LEMMA AppendTimely ==
  ASSUME NEW T, Good(T), NEW U, Good(U), signal \in [Fence -> Nat], NEW L, Timely(T, L),
         NEW s \in Streams, T[s].open, NEW item \in Item, Appended(T[s], U[s], item),
         \A p \in Streams \ {s} : U[p] = T[p],
         item.needs \subseteq DOMAIN L, 0 \notin item.needs, item.waits # {} => U[s].open
  PROVE  /\ Timely(U, L)
         /\ \E i \in DOMAIN Bufs(U[s]) : \E m \in DOMAIN Bufs(U[s])[i] : Bufs(U[s])[i][m] = item
<1> DEFINE B == BufsOf(T)
           C == BufsOf(U)
           r == Reach(T[s])
           n == Len(B[s][r])
           k == n + 1
<1>1. Longer(T, U)
  BY AppendedLonger
<1>2. /\ r \in Nat \ {0} /\ DOMAIN B[s] = 1..r /\ DOMAIN C[s] = 1..r
      /\ \A p \in Streams \ {s} : C[p] = B[p]
      /\ \A i \in 1..(r - 1) : C[s][i] = B[s][i]
      /\ n \in Nat /\ DOMAIN B[s][r] = 1..n /\ DOMAIN C[s][r] = 1..(n + 1)
      /\ C[s][r][n + 1] = item
  BY AppendedBufs
<1>3. \A p \in Streams : B[p] = Bufs(T[p]) /\ C[p] = Bufs(U[p])
  BY DEF BufsOf
<1>4. T[s] \in Stream /\ Own(T[s]) /\ U[s] \in Stream /\ Own(U[s]) /\ Reach(U[s]) = r
  BY DEF Good, Appended
<1>5. \A p \in Streams : U[p].hostValue = T[p].hostValue
  BY DEF Appended
<1> HIDE DEF B, C, r, n
<1>6. r \notin DOMAIN T[s].sent /\ (U[s].open => r \notin DOMAIN U[s].sent)
  BY <1>4, SentFacts DEF r
<1>7. Fresh(T, U, L, s, r, k)
  <2>1. k > 1 => Has(T, s, r, k - 1)
    <3>1. k > 1 => k - 1 \in 1..n /\ r \in 1..r
      BY <1>2
    <3> QED BY <1>2, <1>3, <3>1 DEF Has
  <2>2. Bufs(U[s])[r][k] = item
    BY <1>2, <1>3
  <2> QED BY <1>5, <1>6, <2>1, <2>2 DEF Fresh
<1>8. AtMostOne(T, U, L, s, r, k)
  <2> SUFFICES ASSUME NEW p \in Streams, NEW i \in DOMAIN C[p], NEW m \in DOMAIN C[p][i]
               PROVE  Has(T, p, i, m) \/ (p = s /\ i = r /\ m = k)
    BY <1>3, <1>7 DEF AtMostOne
  <2>1. CASE p # s
    BY <1>2, <1>3, <2>1 DEF Has
  <2>2. CASE p = s /\ i # r
    <3>1. i \in 1..(r - 1) /\ i \in 1..r
      BY <1>2, <2>2
    <3> QED BY <1>2, <1>3, <2>2, <3>1 DEF Has
  <2>3. CASE p = s /\ i = r
    <3>1. m \in 1..n \/ m = k
      BY <1>2, <2>3
    <3> QED BY <1>2, <1>3, <2>3, <3>1 DEF Has
  <2> QED BY <2>1, <2>2, <2>3
<1>9. Clocked(U)
  BY <1>1, <1>8, ClockGrows DEF Timely
<1>10. HostOwed(U)
  BY <1>1, <1>5, OwedStays DEF Timely, Longer
<1>11. r \in DOMAIN C[s] /\ k \in DOMAIN C[s][r] /\ C[s][r][k] = item
  BY <1>2
<1> QED BY <1>1, <1>3, <1>9, <1>10, <1>11, OpsStay DEF Timely

(* The operation issued by a call is in the table. *)
LEMMA IssuedPresent ==
  ASSUME NEW U, NEW L, NEW x, L \in Seq(x), NEW y \in x, OpsPresent(U, L), Present(U, Len(L) + 1)
  PROVE  OpsPresent(U, Append(L, y))
<1>1. \A o \in DOMAIN Append(L, y) : o \in DOMAIN L \/ o = Len(L) + 1
  OBVIOUS
<1> QED BY <1>1 DEF OpsPresent

LEMMA LaunchTimely ==
  ASSUME OInv, IInv', Timely(str, log), NEW s \in Streams, NEW needs, Launch(s, needs)
  PROVE  Timely(str', log')
<1> DEFINE O == Open(str, s)
           o == CO!NewOp
           item == KernelItem(o, needs)
<1>0. IInv /\ Good(str) /\ Good(str') /\ str[s].state = "live" /\ signal \in [Fence -> Nat]
  BY DEF OInv, EInv, IInv, Launch, On
<1>1. /\ item \in Item /\ item.waits = {} /\ Appended(O[s], str'[s], item)
      /\ \A p \in Streams \ {s} : str'[p] = O[p]
      /\ Longer(O, str')
  BY <1>0, LaunchView
<1>2. Good(O) /\ O[s].open /\ Timely(O, log)
  BY <1>0, OpenGood, OpenTimely
<1>3. item.needs = needs /\ item.op = o
  BY DEF KernelItem
<1>4. log \in Seq([stream : Streams, after : SUBSET Nat])
  BY <1>0 DEF IInv, Hist_OK
<1>5. needs \subseteq DOMAIN log /\ 0 \notin DOMAIN log
  BY <1>4 DEF Launch
<1> HIDE DEF O, item
<1>6. /\ Timely(str', log)
      /\ \E i \in DOMAIN Bufs(str'[s]) : \E m \in DOMAIN Bufs(str'[s])[i] : Bufs(str'[s])[i][m] = item
  BY <1>0, <1>1, <1>2, <1>3, <1>5, AppendTimely
<1>7. Present(str', o)
  BY <1>3, <1>6 DEF Present
<1> DEFINE y == [stream |-> s, after |-> CO!After(s)]
<1>8. log' = Append(log, y) /\ o = Len(log) + 1
  BY DEF Launch, CO!Issue, CO!Logged, CO!NewOp
<1>9. y \in [stream : Streams, after : SUBSET Nat]
  BY <1>0, AfterType
<1> HIDE DEF o, y
<1>10. OpsPresent(str', Append(log, y))
  BY <1>4, <1>6, <1>7, <1>8, <1>9, IssuedPresent DEF Timely
<1> QED BY <1>6, <1>8, <1>10 DEF Timely

LEMMA HandTimely ==
  ASSUME NEW T, Good(T), NEW U, Good(U), signal \in [Fence -> Nat], NEW L, Timely(T, L), Longer(T, U),
         NEW s \in Streams, T[s].open, NEW h \in Handler, h.op # 0, Handed(T[s], U[s], h),
         \A p \in Streams \ {s} : U[p] = T[p]
  PROVE  Timely(U, L) /\ Present(U, h.op)
<1>1. BufsOf(U) = BufsOf(T)
  <2>1. \A p \in Streams : Bufs(U[p]) = Bufs(T[p])
    BY DEF Handed
  <2> QED BY <2>1 DEF BufsOf
<1>2. Clocked(U) /\ OpsPresent(U, L)
  BY <1>1, SameClock
<1> DEFINE r == Reach(T[s])
<1>3. T[s] \in Stream /\ Own(T[s]) /\ U[s] \in Stream /\ Own(U[s])
  BY DEF Good
<1>4. ~U[s].open /\ Reach(U[s]) = r /\ U[s].hostValue = h.value /\ Hnds(U[s]) = [Hnds(T[s]) EXCEPT ![r] = h]
  BY DEF Handed
<1>5. DOMAIN U[s].sent = 1..r /\ r \in Nat
  BY <1>3, <1>4, SentFacts
<1>6. r # 0
  BY <1>3, SentFacts
<1>7. DOMAIN Hnds(T[s]) = 1..r
  BY <1>3, ViewFacts
<1> HIDE DEF r
<1>8. r \in DOMAIN U[s].sent /\ r \in 1..r
  BY <1>5, <1>6
<1>9. U[s].sent[r].handler = Hnds(U[s])[r]
  BY <1>3, <1>8, ViewFacts
<1>10. U[s].sent[r].handler = h
  BY <1>4, <1>7, <1>8, <1>9
<1>11. Present(U, h.op)
  BY <1>8, <1>10 DEF Present
<1>12. HostOwed(U)
  <2> SUFFICES ASSUME NEW p \in Streams, signal[Host(p)] < U[p].hostValue
               PROVE  \E j \in DOMAIN U[p].sent :
                        U[p].sent[j].handler.op # 0 /\ U[p].sent[j].handler.value = U[p].hostValue
    BY DEF HostOwed
  <2>1. CASE p = s
    BY <1>4, <1>8, <1>10, <2>1
  <2>2. CASE p # s
    <3>1. U[p] = T[p]
      BY <2>2
    <3> QED BY <3>1 DEF Timely, HostOwed
  <2> QED BY <2>1, <2>2
<1> QED BY <1>2, <1>11, <1>12 DEF Timely

LEMMA LaunchHostFuncTimely ==
  ASSUME OInv, IInv', Timely(str, log), NEW s \in Streams, LaunchHostFunc(s)
  PROVE  Timely(str', log')
<1> DEFINE O == Open(str, s)
           o == CO!NewOp
           h == [op |-> o, value |-> str[s].hostValue + 1]
<1>0. IInv /\ Good(str) /\ Good(str') /\ str[s].state = "live" /\ signal \in [Fence -> Nat]
  BY DEF OInv, EInv, IInv, LaunchHostFunc, On
<1>1. /\ h \in Handler /\ Handed(O[s], str'[s], h)
      /\ \A p \in Streams \ {s} : str'[p] = O[p]
      /\ Longer(O, str')
  BY <1>0, LaunchHostFuncView
<1>2. Good(O) /\ O[s].open /\ Timely(O, log)
  BY <1>0, OpenGood, OpenTimely
<1>3. h.op = o /\ o # 0
  BY <1>0, NewOpType
<1>4. log \in Seq([stream : Streams, after : SUBSET Nat])
  BY <1>0 DEF IInv, Hist_OK
<1> HIDE DEF O, h
<1>5. Timely(str', log) /\ Present(str', o)
  BY <1>0, <1>1, <1>2, <1>3, HandTimely
<1> DEFINE y == [stream |-> s, after |-> CO!After(s)]
<1>6. log' = Append(log, y) /\ o = Len(log) + 1
  BY DEF LaunchHostFunc, CO!IssueHost, CO!Logged, CO!NewOp
<1>7. y \in [stream : Streams, after : SUBSET Nat]
  BY <1>0, AfterType
<1> HIDE DEF o, y
<1>8. OpsPresent(str', Append(log, y))
  BY <1>4, <1>5, <1>6, <1>7, IssuedPresent DEF Timely
<1> QED BY <1>5, <1>6, <1>8 DEF Timely

LEMMA StreamWaitEventTimely ==
  ASSUME OInv, IInv', Timely(str, log), NEW s \in Streams, NEW e \in Events, StreamWaitEvent(s, e)
  PROVE  Timely(str', log')
<1> DEFINE F == FlushEvent(str, e)
           w == <<Dev(ev[e].stream), ev[e].value>>
           item == WaitItem({w})
           d == [F[s] EXCEPT !.pending = @ \cup {w}]
<1>0. IInv /\ Good(str) /\ Good(str') /\ signal \in [Fence -> Nat] /\ log' = log
  BY DEF OInv, EInv, IInv, StreamWaitEvent, CO!Wait
<1>1. /\ Longer(F, str') /\ Good(F) /\ item \in Item /\ item.needs = {}
      /\ \/ str' = F
         \/ /\ F[s].open /\ Appended(F[s], str'[s], item)
            /\ str' = [F EXCEPT ![s] = Encode(F[s], item)]
         \/ str' = [F EXCEPT ![s] = d]
  <2>1. item.needs = {}
    BY DEF WaitItem
  <2> QED BY <1>0, <2>1, WaitEventView
<1>2. Timely(F, log)
  BY <1>0, FlushEventIsSet, CommitSetTimely
<1>3. F \in [Streams -> Stream] /\ F[s] \in Stream
  BY <1>1 DEF Good
<1>4. /\ d.sent = F[s].sent /\ d.open = F[s].open /\ d.body = F[s].body /\ d.fenceValue = F[s].fenceValue
      /\ d.hostValue = F[s].hostValue
  <2> HIDE DEF F, w
  <2> QED BY <1>3 DEF Stream
<1>5. Encode(F[s], item).open = F[s].open
  BY <1>3 DEF Encode, Stream
<1> HIDE DEF F, w, item, d
<1>6. CASE str' = F
  BY <1>0, <1>2, <1>6
<1>7. CASE F[s].open /\ Appended(F[s], str'[s], item) /\ str' = [F EXCEPT ![s] = Encode(F[s], item)]
  <2>1. str'[s] = Encode(F[s], item) /\ \A p \in Streams \ {s} : str'[p] = F[p]
    BY <1>3, <1>7
  <2>2. str'[s].open
    BY <1>5, <1>7, <2>1
  <2>3. item.needs \subseteq DOMAIN log /\ 0 \notin item.needs
    BY <1>1
  <2>4. /\ Good(F) /\ item \in Item /\ F[s].open /\ Appended(F[s], str'[s], item)
        /\ \A p \in Streams \ {s} : str'[p] = F[p]
    BY <1>1, <1>7, <2>1
  <2>5. Timely(str', log)
    BY <1>0, <1>2, <2>2, <2>3, <2>4, AppendTimely
  <2> QED BY <1>0, <2>5
<1>8. CASE str' = [F EXCEPT ![s] = d]
  <2>1. str'[s] = d /\ \A p \in Streams \ {s} : str'[p] = F[p]
    BY <1>3, <1>8
  <2>2. Bufs(d) = Bufs(F[s])
    BY <1>4 DEF Bufs, Reach
  <2>3. BufsOf(str') = BufsOf(F)
    BY <2>1, <2>2 DEF BufsOf
  <2>4. \A p \in Streams : str'[p].hostValue = F[p].hostValue
    BY <1>4, <2>1
  <2> QED BY <1>0, <1>1, <1>2, <2>3, <2>4, SameTimely
<1> QED BY <1>1, <1>6, <1>7, <1>8

LEMMA StreamComesOrGoesTimely ==
  ASSUME OInv, IInv', Timely(str, log), NEW s \in Streams,
         (\E nb \in BOOLEAN : CreateStream(s, nb)) \/ DestroyStream(s)
  PROVE  Timely(str', log')
<1>0. IInv /\ Good(str) /\ Good(str') /\ str[s] \in Stream /\ signal \in [Fence -> Nat] /\ log' = log
  BY DEF OInv, EInv, IInv, Good, CreateStream, DestroyStream, hist
<1>1. PICK d : str' = [str EXCEPT ![s] = d] /\ d.hostValue = str[s].hostValue /\ Longer(str, str')
               /\ Bufs(d) = Bufs(str[s])
  <2>1. ASSUME NEW nb \in BOOLEAN, CreateStream(s, nb)
        PROVE  \E d : str' = [str EXCEPT ![s] = d] /\ d.hostValue = str[s].hostValue /\ Longer(str, str')
                      /\ Bufs(d) = Bufs(str[s])
    <3> DEFINE st == NewStream("live", nb)
    <3>1. Longer(str, str') /\ str' = [str EXCEPT ![s] = st] /\ Reach(str[s]) = 0
      BY <1>0, <2>1, CreateLonger
    <3>2. str[s].state = "new" /\ st.hostValue = 0 /\ Reach(st) = 0
      BY <2>1, NewStreamFacts DEF CreateStream, NewStream
    <3>3. str[s].hostValue = 0
      BY <1>0, <3>2 DEF Good, Own
    <3> HIDE DEF st
    <3>4. Bufs(st) = Bufs(str[s])
      BY <3>1, <3>2 DEF Bufs
    <3> QED BY <3>1, <3>2, <3>3, <3>4
  <2>2. CASE DestroyStream(s)
    <3> DEFINE c == CommitWith(str[s], NoHandler)
               d == [c EXCEPT !.state = "gone", !.retired = {}, !.pending = {}]
    <3>1. str' = [str EXCEPT ![s] = d]
      BY <1>0, <2>2 DEF DestroyStream, Commit, Good
    <3>2. Longer(str, str')
      BY <1>0, <2>2, DestroyLonger
    <3>3. c \in Stream /\ c.hostValue = str[s].hostValue /\ Bufs(c) = Bufs(str[s])
      BY <1>0, CommitType, CommitFacts, CommitView, NoHandlerType DEF Good
    <3> HIDE DEF c
    <3>4. d.open = c.open /\ d.sent = c.sent /\ d.body = c.body /\ d.fenceValue = c.fenceValue
          /\ d.hostValue = c.hostValue
      BY <3>3 DEF Stream
    <3> HIDE DEF d
    <3>5. Bufs(d) = Bufs(c)
      BY <3>4 DEF Bufs, Reach
    <3> QED BY <3>1, <3>2, <3>3, <3>4, <3>5
  <2> QED BY <2>1, <2>2
<1>2. str'[s] = d /\ \A p \in Streams \ {s} : str'[p] = str[p]
  BY <1>0, <1>1 DEF Good
<1>3. BufsOf(str') = BufsOf(str)
  BY <1>1, <1>2 DEF BufsOf
<1>4. \A p \in Streams : str'[p].hostValue = str[p].hostValue
  BY <1>1, <1>2
<1>5. Longer(str, str')
  BY <1>1
<1>6. Timely(str', log)
  BY <1>0, <1>3, <1>4, <1>5, SameTimely
<1> QED BY <1>0, <1>6

(* Calls that commit buffers and issue nothing. *)
LEMMA CommitsTimely ==
  ASSUME OInv, Timely(str, log), NEW T, T = str \/ \E e \in Events : T = FlushEvent(str, e),
         \E S : str' = CommitSet(T, S)
  PROVE  Timely(str', log)
<1>0. IInv /\ Good(str) /\ signal \in [Fence -> Nat]
  BY DEF OInv, EInv, IInv
<1>1. \E S : T = CommitSet(str, S)
  <2>1. CommitSet(str, {}) = str
    BY <1>0 DEF CommitSet, Good
  <2> QED BY <1>0, <2>1, FlushEventIsSet
<1>2. Good(T) /\ Timely(T, log)
  BY <1>0, <1>1, CommitSetGood, CommitSetTimely
<1> QED BY <1>0, <1>2, CommitSetTimely

LEMMA PollsTimely ==
  ASSUME OInv, Timely(str, log),
         \/ \E s \in Streams : QueryStream(s) \/ SyncStream(s) \/ \E e \in Events : RecordEvent(e, s)
         \/ \E e \in Events : QueryEvent(e) \/ SyncEvent(e)
         \/ SyncDevice
  PROVE  Timely(str', log')
<1>0. IInv /\ str \in [Streams -> Stream]
  BY DEF OInv, EInv, IInv, Good
<1>1. log' = log
  BY DEF RecordEvent, QueryStream, SyncStream, QueryEvent, SyncEvent, SyncDevice, Await, CO!Record, hist
<1>2. str = CommitSet(str, {})
  BY <1>0 DEF CommitSet
<1>3. \/ \E S : str' = CommitSet(str, S)
      \/ \E e \in Events : \E S : str' = CommitSet(FlushEvent(str, e), S)
  <2>1. ASSUME NEW s \in Streams, NEW e \in Events, RecordEvent(e, s)
        PROVE  \E S : str' = CommitSet(str, S)
    BY <1>0, <2>1, RecordLonger
  <2>2. ASSUME NEW s \in Streams, QueryStream(s) \/ SyncStream(s) \/ SyncDevice
        PROVE  \E S : str' = CommitSet(str, S)
    BY <1>2, <2>2 DEF QueryStream, SyncStream, SyncDevice, Await, CommitAll
  <2>3. ASSUME NEW e \in Events, QueryEvent(e) \/ SyncEvent(e)
        PROVE  \E S : str' = CommitSet(FlushEvent(str, e), S)
    BY <2>3 DEF QueryEvent, SyncEvent, CommitAll
  <2> QED BY <2>1, <2>2, <2>3, StreamsAssumption
<1>4. Timely(str', log)
  BY <1>3, CommitsTimely
<1> QED BY <1>1, <1>4

(* What is timely stays so while fences and operations are left alone. *)
LEMMA TimelyNext ==
  ASSUME UNCHANGED <<signal, done>>, Timely(str', log')
  PROVE  Timely(str, log)'
<1>1. HostOwed(str)' /\ OpsPresent(str, log)'
  BY DEF Timely, HostOwed, OpsPresent, Present
<1>2. PICK R \in Times, n \in Nat : Stamped(R, n, str')
  BY DEF Timely, Clocked
<1>3. ASSUME NEW w, NEW t, Due(R, str', w, t) PROVE Due(R, str, w, t)'
  BY <1>3 DEF Due
<1>4. ASSUME NEW o, NEW t, Issued(R, str', o, t) PROVE Issued(R, str, o, t)'
  BY <1>4 DEF Issued
<1>5. Stamped(R, n, str)'
  BY <1>2, <1>3, <1>4 DEF Stamped, ItemStamped
<1> QED BY <1>1, <1>5 DEF Timely, Clocked

LEMMA CallTimely ==
  ASSUME PInv, OInv', Call
  PROVE  PInv'
<1>0. OInv /\ Timely(str, log) /\ IInv'
  BY DEF PInv, OInv, EInv
<1>1. UNCHANGED <<signal, done>>
  BY DEF Call, CreateStream, DestroyStream, Launch, LaunchRefused, LaunchHostFunc, QueryStream, SyncStream,
         CreateEvent, DestroyEvent, RecordEvent, StreamWaitEvent, QueryEvent, SyncEvent, SyncDevice, Await,
         CO!Issue, CO!IssueHost, CO!Record, CO!Wait, hist
<1>2. ASSUME NEW s \in Streams, (\E nb \in BOOLEAN : CreateStream(s, nb)) \/ DestroyStream(s)
      PROVE  Timely(str', log')
  BY <1>0, <1>2, StreamComesOrGoesTimely
<1>3. ASSUME NEW s \in Streams, NEW needs, Launch(s, needs) PROVE Timely(str', log')
  BY <1>0, <1>3, LaunchTimely
<1>4. ASSUME NEW s \in Streams, LaunchHostFunc(s) PROVE Timely(str', log')
  BY <1>0, <1>4, LaunchHostFuncTimely
<1>5. ASSUME NEW s \in Streams, NEW e \in Events, StreamWaitEvent(s, e) PROVE Timely(str', log')
  BY <1>0, <1>5, StreamWaitEventTimely
<1>6. ASSUME \/ \E s \in Streams : QueryStream(s) \/ SyncStream(s) \/ \E e \in Events : RecordEvent(e, s)
             \/ \E e \in Events : QueryEvent(e) \/ SyncEvent(e)
             \/ SyncDevice
      PROVE  Timely(str', log')
  BY <1>0, <1>6, PollsTimely
<1>7. ASSUME \/ \E s \in Streams : LaunchRefused(s)
             \/ \E e \in Events : DestroyEvent(e) \/ \E t \in BOOLEAN : CreateEvent(e, t)
      PROVE  Timely(str', log')
  <2>1. UNCHANGED <<str, log>>
    BY <1>7 DEF LaunchRefused, DestroyEvent, CreateEvent, hist
  <2> QED BY <1>0, <2>1
<1>8. Timely(str', log')
  BY <1>2, <1>3, <1>4, <1>5, <1>6, <1>7 DEF Call
<1> QED BY <1>1, <1>8, TimelyNext DEF PInv

-----------------------------------------------------------------------------
(* The GPU and the completion handlers *)

(* A buffer keeps its handler, or the handler has run.                     *)
HandlerKept(s, h, b) == b.handler = h \/ (h.op \in done' /\ signal'[Host(s)] >= h.value)

LEMMA GpuTimely ==
  ASSUME IInv, IInv', Timely(str, log), NEW s \in Streams, NEW i \in Buffers(s), NEW b, Replaced(s, i, b),
         BufsOf(str') = BufsOf(str), HandlerKept(s, str[s].sent[i].handler, b), UNCHANGED log,
         done \subseteq done', \A f \in Fence : signal'[f] >= signal[f]
  PROVE  Timely(str, log)'
<1>1. signal \in [Fence -> Nat] /\ signal' \in [Fence -> Nat]
  BY DEF IInv
<1>2. \A p \in Streams : Bufs(str'[p]) = Bufs(str[p])
  BY DEF BufsOf
<1>3. \A p \in Streams : /\ DOMAIN str'[p].sent = DOMAIN str[p].sent /\ str'[p].hostValue = str[p].hostValue
                         /\ str[p].hostValue \in Nat
  BY StreamFields DEF Replaced, IInv, Good
<1>4. ASSUME NEW p \in Streams, NEW j \in DOMAIN str[p].sent
      PROVE  /\ str'[p].sent[j].handler = str[p].sent[j].handler
                \/ (/\ str[p].sent[j].handler.op \in done'
                    /\ signal'[Host(p)] >= str[p].sent[j].handler.value)
             /\ str[p].sent[j].handler.value \in Nat
  <2>1. str[p].sent[j].handler.value \in Nat
    BY <1>4, BufferType, ItemTypes DEF Buffers
  <2>2. str'[p].sent[j] = IF p = s /\ j = i THEN b ELSE str[p].sent[j]
    BY <1>4 DEF Replaced
  <2> QED BY <2>1, <2>2 DEF HandlerKept
<1>5. HostOwed(str)'
  <2> SUFFICES ASSUME NEW p \in Streams, signal'[Host(p)] < str'[p].hostValue
               PROVE  \E j \in DOMAIN str'[p].sent :
                        str'[p].sent[j].handler.op # 0 /\ str'[p].sent[j].handler.value = str'[p].hostValue
    BY DEF HostOwed
  <2>1. /\ signal[Host(p)] \in Nat /\ signal'[Host(p)] \in Nat /\ signal'[Host(p)] >= signal[Host(p)]
        /\ str'[p].hostValue = str[p].hostValue /\ str[p].hostValue \in Nat
    BY <1>1, <1>3, FenceTypes
  <2>2. signal[Host(p)] < str[p].hostValue
    BY <2>1
  <2>3. PICK j \in DOMAIN str[p].sent :
          str[p].sent[j].handler.op # 0 /\ str[p].sent[j].handler.value = str[p].hostValue
    BY <2>2 DEF Timely, HostOwed
  <2>4. str'[p].sent[j].handler = str[p].sent[j].handler
    BY <1>4, <2>1, <2>3
  <2> QED BY <1>3, <2>1, <2>3, <2>4
<1>6. OpsPresent(str, log)'
  <2> SUFFICES ASSUME NEW o \in DOMAIN log, o \notin done' PROVE Present(str', o)
    BY DEF OpsPresent, Present
  <2>1. Present(str, o)
    BY DEF Timely, OpsPresent
  <2>2. ASSUME NEW p \in Streams, NEW j \in DOMAIN str[p].sent, str[p].sent[j].handler.op = o
        PROVE  Present(str', o)
    <3>1. str'[p].sent[j].handler = str[p].sent[j].handler /\ j \in DOMAIN str'[p].sent
      BY <1>3, <1>4, <2>2
    <3> QED BY <2>2, <3>1 DEF Present
  <2> QED BY <1>2, <2>1, <2>2 DEF Present
<1>7. PICK R \in Times, n \in Nat : Stamped(R, n, str)
  BY DEF Timely, Clocked
<1>8. ASSUME NEW w \in Wait, NEW t, Due(R, str, w, t) PROVE Due(R, str, w, t)'
  <2>1. /\ signal[w[1]] \in Nat /\ signal'[w[1]] \in Nat /\ w[2] \in Nat /\ signal'[w[1]] >= signal[w[1]]
    BY <1>1 DEF Wait
  <2>2. CASE signal[w[1]] >= w[2]
    <3>1. signal'[w[1]] >= w[2]
      BY <2>1, <2>2
    <3> QED BY <3>1 DEF Due
  <2>3. ASSUME NEW p \in Streams, w[1] = Dev(p), w[2] \in DOMAIN str[p].sent, R[<<p, w[2], 0>>] < t
        PROVE  Due(R, str, w, t)'
    BY <1>3, <2>3 DEF Due
  <2>4. ASSUME NEW p \in Streams, w[1] = Host(p), NEW j \in DOMAIN str[p].sent,
               str[p].sent[j].handler.op # 0, str[p].sent[j].handler.value >= w[2], R[<<p, j, 0>>] < t
        PROVE  Due(R, str, w, t)'
    <3>1. CASE str'[p].sent[j].handler = str[p].sent[j].handler
      BY <1>3, <2>4, <3>1 DEF Due
    <3>2. CASE signal'[Host(p)] >= str[p].sent[j].handler.value
      <4>1. signal'[w[1]] >= w[2]
        BY <1>4, <2>1, <2>4, <3>2
      <4> QED BY <4>1 DEF Due
    <3> QED BY <1>4, <3>1, <3>2
  <2> QED BY <1>8, <2>2, <2>3, <2>4 DEF Due
<1>9. ASSUME NEW o, NEW t, Issued(R, str, o, t) PROVE Issued(R, str, o, t)'
  <2>1. CASE o \in done
    BY <2>1 DEF Issued
  <2>2. ASSUME NEW p \in Streams, NEW j \in DOMAIN Bufs(str[p]), NEW k \in DOMAIN Bufs(str[p])[j],
               Bufs(str[p])[j][k].op = o, R[<<p, j, k>>] < t
        PROVE  Issued(R, str, o, t)'
    BY <1>2, <2>2 DEF Issued
  <2>3. ASSUME NEW p \in Streams, NEW j \in DOMAIN str[p].sent, str[p].sent[j].handler.op = o, R[<<p, j, 0>>] < t
        PROVE  Issued(R, str, o, t)'
    BY <1>3, <1>4, <2>3 DEF Issued
  <2> QED BY <1>9, <2>1, <2>2, <2>3 DEF Issued
<1>10. ASSUME NEW p \in Streams, NEW j \in DOMAIN Bufs(str[p]), NEW m \in DOMAIN Bufs(str[p])[j]
       PROVE  ItemStamped(R, n, str, p, j, m)'
  <2>1. ItemStamped(R, n, str, p, j, m)
    BY <1>7, <1>10 DEF Stamped
  <2>2. Bufs(str[p])[j][m].waits \subseteq Wait
    <3>1. Bufs(str[p])[j] \in Seq(Item)
      BY <1>10, ViewFacts DEF IInv, Good
    <3>2. Bufs(str[p])[j][m] \in Item
      BY <1>10, <3>1
    <3> QED BY <3>2 DEF Item
  <2> DEFINE t == R[<<p, j, m>>]
  <2>3. /\ t < n /\ (m > 1 => R[<<p, j, m - 1>>] < t) /\ (j \in DOMAIN str'[p].sent => t < R[<<p, j, 0>>])
    BY <1>3, <2>1 DEF ItemStamped
  <2>4. \A w \in Bufs(str'[p])[j][m].waits : Due(R, str, w, t)'
    BY <1>2, <1>8, <2>1, <2>2 DEF ItemStamped
  <2>5. \A o \in Bufs(str'[p])[j][m].needs : o # 0 /\ Issued(R, str, o, t)'
    BY <1>2, <1>9, <2>1 DEF ItemStamped
  <2> QED BY <2>3, <2>4, <2>5 DEF ItemStamped
<1>11. Stamped(R, n, str)'
  <2>1. \A p \in Streams : \A j \in DOMAIN str'[p].sent : R[<<p, j, 0>>] < n
    BY <1>3, <1>7 DEF Stamped
  <2>2. \A p \in Streams : \A j \in DOMAIN Bufs(str'[p]) : \A m \in DOMAIN Bufs(str'[p])[j] :
          ItemStamped(R, n, str, p, j, m)'
    BY <1>2, <1>10
  <2> QED BY <1>7, <2>1, <2>2 DEF Stamped
<1> QED BY <1>5, <1>6, <1>11 DEF Timely, Clocked

LEMMA FencesUp ==
  ASSUME IInv, NEW f \in Fence, NEW v \in Nat, v >= signal[f], signal' = [signal EXCEPT ![f] = v]
  PROVE  \A g \in Fence : signal'[g] >= signal[g]
<1>1. signal \in [Fence -> Nat]
  BY DEF IInv
<1>2. \A g \in Fence : signal[g] \in Nat /\ signal'[g] = IF g = f THEN v ELSE signal[g]
  BY <1>1
<1> QED BY <1>2

LEMMA GpuStepTimely ==
  ASSUME PInv, OInv', NEW s \in Streams, NEW i \in Buffers(s), GpuStep(s, i)
  PROVE  PInv'
<1> DEFINE a == str[s].sent[i]
           b == [a EXCEPT !.at = @ + 1]
<1>0. IInv /\ IInv' /\ Timely(str, log)
  BY DEF PInv, OInv, EInv
<1>1. a \in CmdBuf /\ a.at \in Nat
  BY <1>0, BufferType, ItemTypes
<1>2. b \in CmdBuf /\ b.body = a.body /\ b.handler = a.handler
  BY <1>1 DEF CmdBuf
<1>3. str' = [str EXCEPT ![s] = [str[s] EXCEPT !.sent = [str[s].sent EXCEPT ![i] = b]]]
  BY DEF GpuStep
<1> HIDE DEF b
<1>4. Replaced(s, i, b) /\ BufsOf(str') = BufsOf(str)
  BY <1>0, <1>2, <1>3, BufferView
<1>5. done \subseteq done' /\ UNCHANGED <<log, signal>>
  BY DEF GpuStep
<1>6. \A f \in Fence : signal'[f] >= signal[f]
  BY <1>0, <1>5 DEF IInv
<1>7. HandlerKept(s, a.handler, b)
  BY <1>2 DEF HandlerKept
<1> QED BY <1>0, <1>4, <1>5, <1>6, <1>7, GpuTimely DEF PInv

(* The fence of a stream goes from one buffer to the next. *)
LEMMA SignalsNext ==
  ASSUME EInv, NEW s \in Streams, NEW i \in Buffers(s), GpuSignal(s, i)
  PROVE  signal' = [signal EXCEPT ![Dev(s)] = i] /\ i \in Nat /\ i >= signal[Dev(s)]
<1> DEFINE a == str[s].sent[i]
<1>0. IInv
  BY DEF EInv
<1>1. a.value = i /\ i \in Nat
  BY <1>0, BufferIs
<1>2. a.status = "committed" /\ BufSignalled(a, i, signal[Dev(s)])
  BY DEF GpuSignal, Signallable, EInv, Executed, Buffers
<1>3. signal[Dev(s)] \in Nat
  BY <1>0, FenceTypes
<1>4. ~(i <= signal[Dev(s)])
  BY <1>2 DEF BufSignalled
<1> QED BY <1>1, <1>3, <1>4 DEF GpuSignal

LEMMA GpuStatusTimely ==
  ASSUME PInv, OInv', NEW s \in Streams, NEW i \in Buffers(s), GpuSignal(s, i) \/ GpuComplete(s, i)
  PROVE  PInv'
<1> DEFINE a == str[s].sent[i]
<1>0. EInv /\ IInv /\ IInv' /\ Timely(str, log)
  BY DEF PInv, OInv, EInv
<1>1. a \in CmdBuf
  BY <1>0, BufferType
<1>2. PICK status \in {"signalled", "completed"} :
        str' = [str EXCEPT ![s] = [str[s] EXCEPT !.sent = [str[s].sent EXCEPT ![i] = [a EXCEPT !.status = status]]]]
  BY DEF GpuSignal, GpuComplete
<1> DEFINE b == [a EXCEPT !.status = status]
<1>3. b \in CmdBuf /\ b.body = a.body /\ b.handler = a.handler
  BY <1>1 DEF CmdBuf
<1>4. str' = [str EXCEPT ![s] = [str[s] EXCEPT !.sent = [str[s].sent EXCEPT ![i] = b]]]
  BY <1>2
<1> HIDE DEF b
<1>5. Replaced(s, i, b) /\ BufsOf(str') = BufsOf(str)
  BY <1>0, <1>3, <1>4, BufferView
<1>6. UNCHANGED <<log, done>>
  BY DEF GpuSignal, GpuComplete, hist
<1>7. \A f \in Fence : signal'[f] >= signal[f]
  <2>1. CASE GpuSignal(s, i)
    BY <1>0, <2>1, SignalsNext, FencesUp, FenceTypes
  <2>2. CASE GpuComplete(s, i)
    BY <1>0, <2>2 DEF GpuComplete, IInv
  <2> QED BY <2>1, <2>2
<1>8. HandlerKept(s, a.handler, b)
  BY <1>3 DEF HandlerKept
<1> QED BY <1>0, <1>5, <1>6, <1>7, <1>8, GpuTimely DEF PInv

LEMMA HandlerRunsTimely ==
  ASSUME PInv, OInv', NEW s \in Streams, NEW i \in Buffers(s), HandlerRuns(s, i)
  PROVE  PInv'
<1> DEFINE a == str[s].sent[i]
           b == [a EXCEPT !.handler = NoHandler]
           h == a.handler
<1>0. IInv /\ IInv' /\ Timely(str, log) /\ HostFences(str)
  BY DEF PInv, OInv, EInv, InOrder
<1>1. a \in CmdBuf /\ h.value \in Nat
  BY <1>0, BufferType, ItemTypes
<1>2. b \in CmdBuf /\ b.body = a.body
  BY <1>1, NoHandlerType DEF CmdBuf
<1>3. str' = [str EXCEPT ![s] = [str[s] EXCEPT !.sent = [str[s].sent EXCEPT ![i] = b]]]
  BY DEF HandlerRuns
<1> HIDE DEF b
<1>4. Replaced(s, i, b) /\ BufsOf(str') = BufsOf(str)
  BY <1>0, <1>2, <1>3, BufferView
<1>5. /\ h.op # 0 /\ signal' = [signal EXCEPT ![Host(s)] = h.value] /\ UNCHANGED log
      /\ done' = done \cup {h.op}
  BY DEF HandlerRuns, Handles
<1>6. signal[Host(s)] < h.value
  <2>1. Hnds(str[s])[i] = h /\ i \in DOMAIN Hnds(str[s])
    BY <1>0, BufferIs, HandlerViewType DEF HndsOf, BufsOf
  <2> QED BY <1>0, <1>5, <2>1 DEF HostFences, HostFence
<1> HIDE DEF h
<1>7. signal[Host(s)] \in Nat /\ Host(s) \in Fence /\ signal \in [Fence -> Nat]
  BY <1>0, FenceTypes DEF IInv
<1>8. \A f \in Fence : signal'[f] >= signal[f]
  <2>1. h.value >= signal[Host(s)]
    BY <1>1, <1>6, <1>7
  <2> QED BY <1>0, <1>1, <1>5, <1>7, <2>1, FencesUp
<1>9. HandlerKept(s, h, b)
  <2>1. signal'[Host(s)] = h.value
    BY <1>5, <1>7
  <2>2. signal'[Host(s)] >= h.value
    BY <1>1, <2>1
  <2> QED BY <1>5, <2>2 DEF HandlerKept
<1> QED BY <1>0, <1>4, <1>5, <1>8, <1>9, GpuTimely DEF PInv, h

-----------------------------------------------------------------------------
(* The theorem *)

LEMMA InitPInv == Init => PInv
<1> SUFFICES ASSUME Init PROVE PInv
  OBVIOUS
<1>1. OInv
  BY InitOInv
<1>2. ASSUME NEW s \in Streams
      PROVE  DOMAIN Bufs(str[s]) = {} /\ str[s].hostValue = 0 /\ DOMAIN str[s].sent = {}
  <2>1. PICK state \in {"new", "live"} : str[s] = NewStream(state, FALSE)
    BY DEF Init
  <2>2. Reach(str[s]) = 0 /\ str[s].hostValue = 0
    BY <2>1, NewStreamFacts
  <2>3. str[s].sent = <<>>
    BY <2>1 DEF NewStream
  <2> QED BY <2>2, <2>3 DEF Bufs
<1>3. HostOwed(str)
  <2> SUFFICES ASSUME NEW p \in Streams PROVE ~(signal[Host(p)] < str[p].hostValue)
    BY DEF HostOwed
  <2>1. signal[Host(p)] = 0
    BY DEF Init, Fence, Host
  <2> QED BY <1>2, <2>1
<1>4. OpsPresent(str, log)
  BY DEF Init, OpsPresent
<1>5. Clocked(str)
  <2> DEFINE R == [x \in Streams \X Nat \X Nat |-> 0]
  <2>1. R \in Times
    BY DEF Times
  <2>2. Stamped(R, 0, str)
    BY <1>2, <2>1 DEF Stamped
  <2> QED BY <2>1, <2>2 DEF Clocked
<1> QED BY <1>1, <1>3, <1>4, <1>5 DEF PInv, Timely

LEMMA NextPInv ==
  ASSUME PInv, [Next]_vars, ~WaitsVisible, MaxFaults = 0
  PROVE  PInv'
<1>1. OInv'
  BY NextRuns DEF PInv
<1>2. CASE Call
  BY <1>1, <1>2, CallTimely
<1>3. CASE Gpu
  BY <1>1, <1>3, GpuStepTimely, GpuStatusTimely, HandlerRunsTimely DEF Gpu
<1>4. CASE HostProgress \/ WaitTimesOut \/ UNCHANGED vars
  <2>1. UNCHANGED <<str, signal, log, done>>
    BY <1>4 DEF HostProgress, AwaitReturns, EventAwaitReturns, EntryReturns, WaitTimesOut, vars, hist
  <2>2. Timely(str', log')
    BY <2>1 DEF PInv
  <2> QED BY <1>1, <2>1, <2>2, TimelyNext DEF PInv
<1>5. ~\E s \in Streams : \E i \in Buffers(s) : GpuFault(s, i)
  <2>1. faults \in Nat
    BY DEF PInv, OInv, EInv, IInv
  <2> QED BY <2>1 DEF GpuFault
<1> QED BY <1>2, <1>3, <1>4, <1>5 DEF Next

(* Every committed buffer is in the list, and one that cannot move waits   *)
(* for something: if it is done, so is all it stands for.                  *)
Waiting(s, i) == str[s].sent[i].status = "committed"
LEMMA StuckBuffer ==
  ASSUME PInv, NEW s \in Streams, NEW i \in Buffers(s), ~CanMove(str[s].sent[i]),
         NEW b, b = str[s].sent[i]
  PROVE  /\ b \in CmdBuf /\ i \in DOMAIN Bufs(str[s]) /\ Bufs(str[s])[i] = b.body
         /\ \A m \in 1..b.at : b.body[m].op \in done \cup {0}
         /\ Waiting(s, i) => b.at < Len(b.body)
         /\ ~Waiting(s, i) => i <= signal[Dev(s)] /\ b.at = Len(b.body) /\ b.handler.op = 0
<1>0. EInv /\ IInv /\ HostWaited
  BY DEF PInv, OInv, EInv
<1>1. b \in CmdBuf /\ i \in DOMAIN Bufs(str[s]) /\ Bufs(str[s])[i] = b.body
  BY <1>0, BufferType, BufferIs DEF BufsOf
<1>2. BufRan(b, done) /\ BufSignalled(b, i, signal[Dev(s)])
  BY <1>0 DEF EInv, Executed, Buffers
<1>3. b.status \in {"committed", "signalled", "completed"}
  BY <1>0, <1>1 DEF CmdBuf, HostWaited, Buffers
<1>4. b.status # "signalled" /\ (b.status = "completed" => b.handler.op = 0)
  BY DEF CanMove, Handles
<1>5. b.status = "committed" => b.at # Len(b.body)
  BY DEF CanMove, Signallable
<1>6. b.at \in Nat /\ Len(b.body) \in Nat /\ b.at <= Len(b.body)
  BY <1>1, <1>2, ItemTypes DEF BufRan
<1>7. Waiting(s, i) => b.at < Len(b.body)
  BY <1>5, <1>6 DEF Waiting
<1>8. ~Waiting(s, i) => i <= signal[Dev(s)] /\ b.at = Len(b.body) /\ b.handler.op = 0
  BY <1>2, <1>3, <1>4 DEF Waiting, BufSignalled
<1> QED BY <1>1, <1>2, <1>7, <1>8 DEF BufRan

(* What is left of the buffers that are not done, by its time. *)
Left(s, i, m) ==
  /\ s \in Streams /\ i \in Buffers(s) /\ Waiting(s, i)
  /\ m \in DOMAIN str[s].sent[i].body /\ m > str[s].sent[i].at

LEMMA SomethingMoves ==
  ASSUME PInv, \A s \in Streams : ~str[s].open,
         NEW s0 \in Streams, NEW i0 \in Buffers(s0), InFlight(str[s0].sent[i0])
  PROVE  \E s \in Streams : \E i \in Buffers(s) : CanMove(str[s].sent[i])
<1> SUFFICES ASSUME \A s \in Streams : \A i \in Buffers(s) : ~CanMove(str[s].sent[i]) PROVE FALSE
  OBVIOUS
<1>0. IInv /\ Good(str) /\ signal \in [Fence -> Nat]
  BY DEF PInv, OInv, EInv, IInv
<1>1. PICK R \in Times, n \in Nat : Stamped(R, n, str)
  BY DEF PInv, Timely, Clocked
<1>2. ASSUME NEW s \in Streams, NEW i \in Buffers(s)
      PROVE  /\ str[s].sent[i] \in CmdBuf /\ i \in DOMAIN Bufs(str[s]) /\ Bufs(str[s])[i] = str[s].sent[i].body
             /\ \A m \in 1..str[s].sent[i].at : str[s].sent[i].body[m].op \in done \cup {0}
             /\ Waiting(s, i) => str[s].sent[i].at < Len(str[s].sent[i].body)
             /\ ~Waiting(s, i) => /\ i <= signal[Dev(s)] /\ str[s].sent[i].at = Len(str[s].sent[i].body)
                                  /\ str[s].sent[i].handler.op = 0
  BY <1>2, StuckBuffer
<1>3. ASSUME NEW s \in Streams, NEW i \in DOMAIN Bufs(str[s]) PROVE i \in Buffers(s)
  <2>1. str[s] \in Stream /\ Own(str[s]) /\ ~str[s].open
    BY <1>0 DEF Good
  <2>2. DOMAIN Bufs(str[s]) = 1..Reach(str[s])
    BY <2>1, ViewFacts
  <2>3. DOMAIN str[s].sent = 1..Reach(str[s])
    BY <2>1, SentFacts
  <2> QED BY <2>2, <2>3 DEF Buffers
(* A buffer that is not done has something left, before its commit. *)
<1>4. ASSUME NEW s \in Streams, NEW i \in Buffers(s), Waiting(s, i)
      PROVE  \E m : Left(s, i, m) /\ R[<<s, i, m>>] < R[<<s, i, 0>>]
  <2> DEFINE b == str[s].sent[i]
             m == b.at + 1
  <2>1. b \in CmdBuf /\ b.at < Len(b.body) /\ i \in DOMAIN Bufs(str[s]) /\ Bufs(str[s])[i] = b.body
    BY <1>2, <1>4
  <2>2. m \in DOMAIN b.body /\ m > b.at
    BY <2>1, ItemTypes
  <2> HIDE DEF b, m
  <2>3. ItemStamped(R, n, str, s, i, m)
    BY <1>1, <2>1, <2>2 DEF Stamped
  <2>4. i \in DOMAIN str[s].sent
    BY DEF Buffers
  <2> QED BY <1>4, <2>2, <2>3, <2>4 DEF ItemStamped, Left, b
<1> DEFINE X == {t \in Nat : \E s, i, m : Left(s, i, m) /\ t = R[<<s, i, m>>]}
<1>5. ASSUME NEW s, NEW i, NEW m, Left(s, i, m)
      PROVE  R[<<s, i, m>>] \in X /\ i \in Nat /\ m \in Nat /\ m # 0
  <2>1. s \in Streams /\ i \in Buffers(s) /\ m \in DOMAIN str[s].sent[i].body
    BY <1>5 DEF Left
  <2>2. Has(str, s, i, m)
    BY <1>2, <2>1 DEF Has
  <2>3. i \in Nat /\ m \in Nat /\ m # 0
    BY <1>0, <2>1, <2>2, ItemPlace
  <2>4. R[<<s, i, m>>] \in Nat
    BY <1>1, <2>1, <2>3 DEF Times
  <2> QED BY <1>5, <2>3, <2>4
<1>6. X # {} /\ X \subseteq Nat
  <2>1. Waiting(s0, i0)
    <3>1. str[s0].sent[i0].status # "signalled" /\ ~Handles(str[s0].sent[i0])
      BY DEF CanMove
    <3> QED BY <3>1 DEF InFlight, Waiting
  <2>2. PICK m : Left(s0, i0, m)
    BY <1>4, <2>1
  <2>3. R[<<s0, i0, m>>] \in X
    BY <1>5, <2>2
  <2> QED BY <2>3
<1>7. PICK t \in X : \A y \in X : t <= y
  BY <1>6, LeastTime
<1>8. PICK s, i, m : Left(s, i, m) /\ t = R[<<s, i, m>>]
  BY <1>7
<1>9. \A p, j, k : Left(p, j, k) => ~(R[<<p, j, k>>] < t)
  <2> SUFFICES ASSUME NEW p, NEW j, NEW k, Left(p, j, k) PROVE ~(R[<<p, j, k>>] < t)
    OBVIOUS
  <2>1. R[<<p, j, k>>] \in X
    BY <1>5
  <2>2. R[<<p, j, k>>] \in Nat /\ t \in Nat /\ t <= R[<<p, j, k>>]
    BY <1>6, <1>7, <2>1
  <2> QED BY <2>2
<1>10. t \in Nat
  BY <1>6, <1>7
<1> HIDE DEF X
(* All that was committed before t is done. *)
<1>11. ASSUME NEW p \in Streams, NEW j \in Buffers(p), R[<<p, j, 0>>] < t
       PROVE  ~Waiting(p, j)
  <2> SUFFICES ASSUME Waiting(p, j) PROVE FALSE
    OBVIOUS
  <2>1. PICK k : Left(p, j, k) /\ R[<<p, j, k>>] < R[<<p, j, 0>>]
    BY <1>4
  <2>2. j \in Nat /\ k \in Nat
    BY <1>5, <2>1
  <2>3. R[<<p, j, k>>] \in Nat /\ R[<<p, j, 0>>] \in Nat
    BY <1>1, <2>2 DEF Times
  <2>4. R[<<p, j, k>>] < t
    BY <1>10, <1>11, <2>1, <2>3
  <2> QED BY <1>9, <2>1, <2>4
<1> DEFINE b == str[s].sent[i]
<1>12. /\ s \in Streams /\ i \in Buffers(s) /\ Waiting(s, i) /\ m \in DOMAIN b.body /\ m > b.at
       /\ m \in Nat /\ m # 0
  BY <1>5, <1>8 DEF Left
<1>13. /\ b \in CmdBuf /\ i \in DOMAIN Bufs(str[s]) /\ Bufs(str[s])[i] = b.body /\ b.at < Len(b.body)
       /\ b.at \in Nat /\ DOMAIN b.body = 1..Len(b.body) /\ Len(b.body) \in Nat /\ ~CanMove(b)
  BY <1>2, <1>12, ItemTypes
<1>14. b.status = "committed"
  BY <1>12 DEF Waiting
<1>15. ItemStamped(R, n, str, s, i, m)
  BY <1>1, <1>12, <1>13 DEF Stamped
<1> HIDE DEF b
<1>16. m = b.at + 1
  <2> SUFFICES ASSUME m # b.at + 1 PROVE FALSE
    OBVIOUS
  <2>1. m > 1 /\ m - 1 > b.at /\ m - 1 \in 1..Len(b.body)
    BY <1>12, <1>13
  <2>2. Left(s, i, m - 1)
    BY <1>12, <1>13, <2>1 DEF Left, b
  <2>3. R[<<s, i, m - 1>>] < t
    BY <1>8, <1>15, <2>1 DEF ItemStamped
  <2> QED BY <1>9, <2>2, <2>3
<1>17. b.body[m].waits \subseteq Wait
  <2>1. b.body[m] \in Item
    BY <1>12, <1>13, ItemTypes
  <2> QED BY <2>1 DEF Item
<1>18. ASSUME NEW w \in b.body[m].waits PROVE signal[w[1]] >= w[2]
  <2>1. Due(R, str, w, t)
    BY <1>8, <1>13, <1>15, <1>18 DEF ItemStamped
  <2>2. ASSUME NEW p \in Streams, w[1] = Dev(p), w[2] \in DOMAIN str[p].sent, R[<<p, w[2], 0>>] < t
        PROVE  signal[w[1]] >= w[2]
    <3>1. w[2] \in Buffers(p)
      BY <2>2 DEF Buffers
    <3>2. w[2] <= signal[Dev(p)]
      BY <1>2, <1>11, <2>2, <3>1
    <3>3. signal[Dev(p)] \in Nat /\ w[2] \in Nat
      BY <1>0, <1>17, <1>18, FenceTypes DEF Wait
    <3> QED BY <2>2, <3>2, <3>3
  <2>3. ASSUME NEW p \in Streams, NEW j \in DOMAIN str[p].sent,
               str[p].sent[j].handler.op # 0, R[<<p, j, 0>>] < t
        PROVE  FALSE
    BY <1>2, <1>11, <2>3 DEF Buffers
  <2> QED BY <2>1, <2>2, <2>3 DEF Due
<1>19. ASSUME NEW o \in b.body[m].needs PROVE o \in done
  <2>1. o # 0 /\ Issued(R, str, o, t)
    BY <1>8, <1>13, <1>15, <1>19 DEF ItemStamped
  <2>2. ASSUME NEW p \in Streams, NEW j \in DOMAIN Bufs(str[p]), NEW k \in DOMAIN Bufs(str[p])[j],
               Bufs(str[p])[j][k].op = o, R[<<p, j, k>>] < t
        PROVE  o \in done
    <3> DEFINE c == str[p].sent[j]
    <3>1. j \in Buffers(p)
      BY <1>3, <2>2
    <3>2. /\ c \in CmdBuf /\ Bufs(str[p])[j] = c.body
          /\ \A x \in 1..c.at : c.body[x].op \in done \cup {0}
          /\ ~Waiting(p, j) => c.at = Len(c.body)
      BY <1>2, <3>1
    <3>3. k \in DOMAIN c.body /\ c.body[k].op = o
      BY <2>2, <3>2
    <3>4. /\ DOMAIN c.body = 1..Len(c.body) /\ Len(c.body) \in Nat /\ c.at \in Nat
      BY <3>2, ItemTypes
    <3>5. Waiting(p, j) => ~(k > c.at)
      BY <1>9, <2>2, <3>1, <3>3 DEF Left
    <3> HIDE DEF c
    <3>6. k \in 1..c.at
      BY <3>2, <3>3, <3>4, <3>5
    <3> QED BY <2>1, <3>2, <3>3, <3>6
  <2>3. ASSUME NEW p \in Streams, NEW j \in DOMAIN str[p].sent, str[p].sent[j].handler.op = o,
               R[<<p, j, 0>>] < t
        PROVE  FALSE
    BY <1>2, <1>11, <2>1, <2>3 DEF Buffers
  <2> QED BY <2>1, <2>2, <2>3 DEF Issued
<1>20. Runnable(b)
  BY <1>13, <1>14, <1>16, <1>18, <1>19 DEF Runnable, NextItem
<1> QED BY <1>13, <1>20 DEF CanMove

(* commit_all, flush_event, legacy_dependencies: with nothing left open,   *)
(* fences, host functions and spinning kernels never bring the GPU to a    *)
(* stop: while no buffer has faulted, one that is unfinished can move.  A  *)
(* model in which buffers fault adds nothing, the property is about states *)
(* before a fault.                                                         *)
THEOREM GpuNeverStuckHolds == ASSUME ~WaitsVisible, MaxFaults = 0 PROVE Spec => []GpuNeverStuck
<1>1. PInv /\ [Next]_vars => PInv'
  BY NextPInv
<1>2. PInv => GpuNeverStuck
  BY SomethingMoves DEF GpuNeverStuck
<1> QED BY <1>1, <1>2, InitPInv, PTL DEF Spec
=============================================================================
