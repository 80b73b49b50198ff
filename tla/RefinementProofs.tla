-------------------------- MODULE RefinementProofs --------------------------
(***************************************************************************)
(* Proof that command buffers, fences and completion handlers run device   *)
(* work in the order CudaOrder asks for, for any streams, events, commit   *)
(* thresholds and number of operations, spinning kernels and host waits    *)
(* that time out included, while no command buffer faults.                 *)
(*                                                                         *)
(* Order is read off the lists of OrderProofs: whatever an operation has   *)
(* to run after stands earlier in its own stream's list, or behind a wait  *)
(* that does.                                                              *)
(***************************************************************************)
EXTENDS OrderProofs

(* The completion handlers of s that give the host fence a value up to v   *)
(* include operation a's.                                                  *)
Handled(H, s, v, a) == \E i \in DOMAIN H[s] : H[s][i].value <= v /\ H[s][i].op = a

(* Operation a runs before the fence of w reaches the value of w. *)
Behind(B, H, w, a) ==
  \E p \in Streams : \/ w[1] = Dev(p) /\ Holds(B, p, w[2], a)
                     \/ w[1] = Host(p) /\ Handled(H, p, w[2], a)
WaitsFor(B, H, item, a) == \E w \in item.waits : Behind(B, H, w, a)

(* a is, or is behind a wait of, an item of s before the m-th of buffer i  *)
(* (for a wait: or that one itself); or any item of s.                     *)
Before(B, H, s, i, m, a) ==
  \E j \in DOMAIN B[s] : \E n \in DOMAIN B[s][j] :
    \/ (j < i \/ (j = i /\ n < m)) /\ B[s][j][n].op = a
    \/ (j < i \/ (j = i /\ n <= m)) /\ WaitsFor(B, H, B[s][j][n], a)
Rests(B, H, s, a) ==
  \E j \in DOMAIN B[s] : \E n \in DOMAIN B[s][j] :
    B[s][j][n].op = a \/ WaitsFor(B, H, B[s][j][n], a)

(* What an operation runs after is before it in the lists: for one in a    *)
(* buffer, before its item; for a host function, in the buffers up to its  *)
(* own.  L is the log and D what has run.                                  *)
ItemOrdered(B, H, s, i, m, L, D) ==
  \/ B[s][i][m].op = 0
  \/ /\ B[s][i][m].op \in DOMAIN L
     /\ \A a \in L[B[s][i][m].op].after : a \in D \/ Before(B, H, s, i, m, a)
HandlerOrdered(B, H, s, i, L, D) ==
  \/ H[s][i].op = 0
  \/ /\ H[s][i].op \in DOMAIN L
     /\ \A a \in L[H[s][i].op].after : a \in D \/ Before(B, H, s, i + 1, 0, a)
ListsOrdered(B, H, L, D) ==
  /\ \A s \in Streams : \A i \in DOMAIN B[s] : \A m \in DOMAIN B[s][i] : ItemOrdered(B, H, s, i, m, L, D)
  /\ \A s \in Streams : \A i \in DOMAIN H[s] : HandlerOrdered(B, H, s, i, L, D)

(* What a live stream has joined is in its list, or behind a wait that the *)
(* next buffer will begin with.                                            *)
Joined(T, B, H, s, a) == Rests(B, H, s, a) \/ \E w \in T[s].pending : Behind(B, H, w, a)
JoinsQueued(T, J, D) ==
  \A s \in Streams : T[s].state = "live" =>
    \A a \in J[s] : a \in D \/ Joined(T, BufsOf(T), HndsOf(T), s, a)

(* waited: the stream's list has a wait for the value it says. *)
Awaits(x, f, v) ==
  \E j \in DOMAIN x : \E n \in DOMAIN x[j] : \E w \in x[j][n].waits : w[1] = f /\ w[2] >= v
WaitedKept(T) ==
  \A s \in Streams : \A p \in Streams :
    T[s].waited[p] = 0 \/ Awaits(Bufs(T[s]), Dev(p), T[s].waited[p])

(* An open buffer has taken the pending waits, and everything its peers    *)
(* have is committed and waited for.                                       *)
OpenAlone(T) ==
  \A s \in Streams : T[s].open =>
    /\ T[s].pending = {}
    /\ \A p \in LegacyPeers(T, s) : ~T[p].open /\ T[p].fenceValue <= T[s].waited[p]

(* The host fence of s has value v: the completion handlers still to run   *)
(* give it higher ones, one after the other, and the buffer after a        *)
(* handler's waits for it.                                                 *)
HostFence(s, st, v) ==
  /\ v <= st.hostValue
  /\ \A i \in DOMAIN Hnds(st) : Hnds(st)[i].op # 0 =>
       /\ v < Hnds(st)[i].value /\ Hnds(st)[i].value <= st.hostValue
       /\ \A j \in DOMAIN Hnds(st) : i < j /\ Hnds(st)[j].op # 0 => Hnds(st)[i].value < Hnds(st)[j].value
       /\ i + 1 \in DOMAIN Bufs(st) => <<Host(s), Hnds(st)[i].value>> \in Bufs(st)[i + 1][1].waits
       /\ i + 1 \notin DOMAIN Bufs(st) /\ st.state = "live" => <<Host(s), Hnds(st)[i].value>> \in st.pending
HostFences(T) == \A s \in Streams : HostFence(s, T[s], signal[Host(s)])

(* The table in order with what has been issued. *)
InOrder(T) ==
  /\ ListsOrdered(BufsOf(T), HndsOf(T), log, done)
  /\ JoinsQueued(T, joins, done)
  /\ WaitedKept(T) /\ OpenAlone(T) /\ HostFences(T)

(* Host waits of items that have been executed had been reached. *)
HostWaited ==
  \A s \in Streams : \A i \in DOMAIN str[s].sent :
    str[s].sent[i].status # "error" /\ BufWaited(str[s].sent[i], signal, "host")

Unused == \A s \in Streams : str[s].state = "new" => joins[s] = {}

OInv == EInv /\ Positive /\ InOrder(str) /\ HostWaited /\ Unused

-----------------------------------------------------------------------------
(* Lists that get longer keep their order *)

(* A completion handler stays until its operation has run. *)
HandlersStay(H, G, D) ==
  \A s \in Streams : \A i \in DOMAIN H[s] :
    H[s][i].op # 0 /\ H[s][i].op \notin D => i \in DOMAIN G[s] /\ G[s][i] = H[s][i]

LEMMA BehindStays ==
  ASSUME NEW B, NEW C, Ext(B, C), NEW H, NEW G, NEW D, HandlersStay(H, G, D),
         NEW w, NEW a, a \notin D, a # 0, Behind(B, H, w, a)
  PROVE  Behind(C, G, w, a)
<1>1. PICK p \in Streams : \/ w[1] = Dev(p) /\ Holds(B, p, w[2], a)
                           \/ w[1] = Host(p) /\ Handled(H, p, w[2], a)
  BY DEF Behind
<1>2. Holds(B, p, w[2], a) => Holds(C, p, w[2], a)
  BY HoldsExt
<1>3. Handled(H, p, w[2], a) => Handled(G, p, w[2], a)
  BY DEF Handled, HandlersStay
<1> QED BY <1>1, <1>2, <1>3 DEF Behind

LEMMA WaitsStay ==
  ASSUME NEW B, NEW C, Ext(B, C), NEW H, NEW G, NEW D, HandlersStay(H, G, D),
         NEW item, NEW a, a \notin D, a # 0, WaitsFor(B, H, item, a)
  PROVE  WaitsFor(C, G, item, a)
  BY BehindStays DEF WaitsFor

LEMMA BeforeStays ==
  ASSUME NEW B, NEW C, Ext(B, C), NEW H, NEW G, NEW D, HandlersStay(H, G, D),
         NEW s \in Streams, NEW i, NEW m, NEW a, a \notin D, a # 0, Before(B, H, s, i, m, a)
  PROVE  Before(C, G, s, i, m, a)
<1>0. PICK j \in DOMAIN B[s] : \E n \in DOMAIN B[s][j] :
        \/ (j < i \/ (j = i /\ n < m)) /\ B[s][j][n].op = a
        \/ (j < i \/ (j = i /\ n <= m)) /\ WaitsFor(B, H, B[s][j][n], a)
  BY DEF Before
<1>1. PICK n \in DOMAIN B[s][j] :
        \/ (j < i \/ (j = i /\ n < m)) /\ B[s][j][n].op = a
        \/ (j < i \/ (j = i /\ n <= m)) /\ WaitsFor(B, H, B[s][j][n], a)
  BY <1>0
<1>2. j \in DOMAIN C[s] /\ n \in DOMAIN C[s][j] /\ C[s][j][n] = B[s][j][n]
  BY DEF Ext
<1>3. WaitsFor(B, H, B[s][j][n], a) => WaitsFor(C, G, B[s][j][n], a)
  BY WaitsStay
<1> QED BY <1>1, <1>2, <1>3 DEF Before

LEMMA RestsStays ==
  ASSUME NEW B, NEW C, Ext(B, C), NEW H, NEW G, NEW D, HandlersStay(H, G, D),
         NEW s \in Streams, NEW a, a \notin D, a # 0, Rests(B, H, s, a)
  PROVE  Rests(C, G, s, a)
<1>0. PICK j \in DOMAIN B[s] : \E n \in DOMAIN B[s][j] :
        B[s][j][n].op = a \/ WaitsFor(B, H, B[s][j][n], a)
  BY DEF Rests
<1>1. PICK n \in DOMAIN B[s][j] : B[s][j][n].op = a \/ WaitsFor(B, H, B[s][j][n], a)
  BY <1>0
<1>2. j \in DOMAIN C[s] /\ n \in DOMAIN C[s][j] /\ C[s][j][n] = B[s][j][n]
  BY DEF Ext
<1>3. WaitsFor(B, H, B[s][j][n], a) => WaitsFor(C, G, B[s][j][n], a)
  BY WaitsStay
<1> QED BY <1>1, <1>2, <1>3 DEF Rests

(* The entries of log L are those of log M. *)
Prefix(L, M) == \A o \in DOMAIN L : o \in DOMAIN M /\ M[o] = L[o]

(* Longer lists are in order if what is new in them is. *)
LEMMA ListsStay ==
  ASSUME NEW B, NEW C, Ext(B, C), NEW H, NEW G, NEW D, NEW E, D \subseteq E, HandlersStay(H, G, E),
         NEW L, NEW M, Prefix(L, M), \A o \in DOMAIN L : 0 \notin L[o].after,
         ListsOrdered(B, H, L, D),
         \A s \in Streams : \A i \in DOMAIN C[s] : \A m \in DOMAIN C[s][i] :
           (i \in DOMAIN B[s] /\ m \in DOMAIN B[s][i]) \/ ItemOrdered(C, G, s, i, m, M, E),
         \A s \in Streams : \A i \in DOMAIN G[s] :
           (i \in DOMAIN H[s] /\ G[s][i] = H[s][i]) \/ HandlerOrdered(C, G, s, i, M, E)
  PROVE  ListsOrdered(C, G, M, E)
<1>1. ASSUME NEW s \in Streams, NEW i \in DOMAIN C[s], NEW m \in DOMAIN C[s][i],
             i \in DOMAIN B[s], m \in DOMAIN B[s][i]
      PROVE  ItemOrdered(C, G, s, i, m, M, E)
  <2>1. C[s][i][m] = B[s][i][m] /\ ItemOrdered(B, H, s, i, m, L, D)
    BY <1>1 DEF Ext, ListsOrdered
  <2> DEFINE o == B[s][i][m].op
  <2>2. CASE o = 0
    BY <2>1, <2>2 DEF ItemOrdered
  <2>3. CASE o # 0
    <3>1. o \in DOMAIN L /\ \A a \in L[o].after : a \in D \/ Before(B, H, s, i, m, a)
      BY <2>1, <2>3 DEF ItemOrdered
    <3>2. o \in DOMAIN M /\ M[o] = L[o] /\ 0 \notin L[o].after
      BY <3>1 DEF Prefix
    <3>3. \A a \in L[o].after : a \in E \/ Before(C, G, s, i, m, a)
      BY <3>1, <3>2, BeforeStays
    <3> QED BY <2>1, <3>2, <3>3 DEF ItemOrdered
  <2> QED BY <2>2, <2>3
<1>2. ASSUME NEW s \in Streams, NEW i \in DOMAIN G[s], i \in DOMAIN H[s], G[s][i] = H[s][i]
      PROVE  HandlerOrdered(C, G, s, i, M, E)
  <2>1. HandlerOrdered(B, H, s, i, L, D)
    BY <1>2 DEF ListsOrdered
  <2> DEFINE o == H[s][i].op
  <2>2. CASE o = 0
    BY <1>2, <2>2 DEF HandlerOrdered
  <2>3. CASE o # 0
    <3>1. o \in DOMAIN L /\ \A a \in L[o].after : a \in D \/ Before(B, H, s, i + 1, 0, a)
      BY <2>1, <2>3 DEF HandlerOrdered
    <3>2. o \in DOMAIN M /\ M[o] = L[o] /\ 0 \notin L[o].after
      BY <3>1 DEF Prefix
    <3>3. \A a \in L[o].after : a \in E \/ Before(C, G, s, i + 1, 0, a)
      BY <3>1, <3>2, BeforeStays
    <3> QED BY <1>2, <3>2, <3>3 DEF HandlerOrdered
  <2> QED BY <2>2, <2>3
<1> QED BY <1>1, <1>2 DEF ListsOrdered

LEMMA ExtRefl == ASSUME NEW B PROVE Ext(B, B)
  BY DEF Ext

LEMMA StayRefl == ASSUME NEW H, NEW D PROVE HandlersStay(H, H, D)
  BY DEF HandlersStay

LEMMA PrefixRefl == ASSUME NEW L PROVE Prefix(L, L)
  BY DEF Prefix

-----------------------------------------------------------------------------
(* What the GPU runs may run *)

LEMMA HandlerViewType ==
  ASSUME IInv, NEW s \in Streams
  PROVE  /\ BufsOf(str)[s] = Bufs(str[s]) /\ HndsOf(str)[s] = Hnds(str[s])
         /\ DOMAIN Hnds(str[s]) = 1..Reach(str[s]) /\ DOMAIN Bufs(str[s]) = 1..Reach(str[s])
         /\ Reach(str[s]) \in Nat
         /\ \A i \in DOMAIN Hnds(str[s]) : Hnds(str[s])[i].op \in Nat /\ Hnds(str[s])[i].value \in Nat
<1>1. str[s] \in Stream /\ Own(str[s])
  BY DEF IInv, Good
<1>2. DOMAIN Hnds(str[s]) = 1..Reach(str[s]) /\ DOMAIN Bufs(str[s]) = 1..Reach(str[s])
      /\ Reach(str[s]) \in Nat
  BY <1>1, SentFacts, ViewFacts
<1>3. \A i \in DOMAIN Hnds(str[s]) : Hnds(str[s])[i] \in Handler
  BY <1>1, <1>2, ViewFacts
<1> QED BY <1>2, <1>3 DEF BufsOf, HndsOf, Handler

(* A wait that is over has behind it only what has run. *)
LEMMA WaitReached ==
  ASSUME EInv, HostFences(str), NEW w \in Wait, signal[w[1]] >= w[2],
         NEW a, a # 0, Behind(BufsOf(str), HndsOf(str), w, a)
  PROVE  a \in done
<1>0. IInv
  BY DEF EInv
<1>1. PICK p \in Streams : \/ w[1] = Dev(p) /\ Holds(BufsOf(str), p, w[2], a)
                           \/ w[1] = Host(p) /\ Handled(HndsOf(str), p, w[2], a)
  BY DEF Behind
<1>2. w[2] \in Nat /\ signal[Dev(p)] \in Nat /\ signal[Host(p)] \in Nat
  BY <1>0, FenceTypes DEF Wait
<1>3. CASE w[1] = Dev(p) /\ Holds(BufsOf(str), p, w[2], a)
  BY <1>2, <1>3, ReachedDone
<1>4. CASE w[1] = Host(p) /\ Handled(HndsOf(str), p, w[2], a)
  <2> DEFINE h == Hnds(str[p])
  <2>0. HndsOf(str)[p] = h /\ \A i \in DOMAIN h : h[i].value \in Nat
    BY <1>0, HandlerViewType
  <2>1. PICK i \in DOMAIN h : h[i].value <= w[2] /\ h[i].op = a
    BY <1>4, <2>0 DEF Handled
  <2>2. signal[Host(p)] < h[i].value
    BY <2>1 DEF HostFences, HostFence
  <2>3. h[i].value \in Nat
    BY <2>0
  <2> HIDE DEF h
  <2> QED BY <1>2, <1>4, <2>1, <2>2, <2>3
<1> QED BY <1>1, <1>3, <1>4

LEMMA ExecutedItem ==
  ASSUME EInv, HostWaited, NEW s \in Streams, NEW j \in Buffers(s), NEW n \in 1..str[s].sent[j].at
  PROVE  /\ n \in DOMAIN str[s].sent[j].body
         /\ str[s].sent[j].body[n].op \in done \cup {0}
         /\ \A w \in str[s].sent[j].body[n].waits : w \in Wait /\ signal[w[1]] >= w[2]
<1> DEFINE b == str[s].sent[j]
<1>1. b \in CmdBuf /\ BufRan(b, done) /\ BufWaited(b, signal, "dev") /\ BufWaited(b, signal, "host")
  BY BufferType DEF EInv, Executed, HostWaited, Buffers
<1> HIDE DEF b
<1>2. n \in DOMAIN b.body /\ b.body[n].op \in done \cup {0}
  BY <1>1, ItemTypes DEF BufRan, b
<1>3. ASSUME NEW w \in b.body[n].waits PROVE w \in Wait /\ signal[w[1]] >= w[2]
  <2>1. w \in Wait /\ w[1][1] \in {"dev", "host"}
    BY <1>1, <1>2, BodyWaits
  <2> QED BY <1>1, <2>1 DEF BufWaited, b
<1> QED BY <1>2, <1>3 DEF b

(* Everything before a position of the lists has run, when the buffers     *)
(* before it have signalled, the items before it in its buffer have been   *)
(* executed and its waits are over.                                        *)
LEMMA BeforeDone ==
  ASSUME OInv, NEW s \in Streams, NEW i \in Nat, i - 1 <= signal[Dev(s)], NEW m \in Nat,
         i \in Buffers(s) => m <= str[s].sent[i].at + 1,
         m > 0 => i \in Buffers(s) /\ m \in DOMAIN str[s].sent[i].body
                  /\ \A w \in str[s].sent[i].body[m].waits : signal[w[1]] >= w[2],
         NEW a, a # 0, Before(BufsOf(str), HndsOf(str), s, i, m, a)
  PROVE  a \in done
<1> DEFINE B == BufsOf(str)
           H == HndsOf(str)
           Over(n, j) == \A w \in B[s][j][n].waits : w \in Wait /\ signal[w[1]] >= w[2]
<1>0. EInv /\ IInv /\ HostFences(str) /\ HostWaited
  BY DEF OInv, EInv, InOrder
<1>1. DOMAIN B[s] = 1..Reach(str[s]) /\ Reach(str[s]) \in Nat
  BY <1>0, HandlerViewType
<1>2. signal[Dev(s)] \in Nat /\ signal[Dev(s)] <= Len(str[s].sent) /\ Len(str[s].sent) \in Nat
      /\ Buffers(s) = 1..Len(str[s].sent)
  <2>1. str[s] \in Stream /\ Own(str[s])
    BY <1>0 DEF IInv, Good
  <2> QED BY <1>0, <2>1, FenceTypes, SentFacts DEF EInv, Executed, Buffers
<1>3. ASSUME NEW j \in DOMAIN B[s], NEW n \in DOMAIN B[s][j], j < i
      PROVE  B[s][j][n].op \in done \cup {0} /\ Over(n, j)
  <2>1. j \in Buffers(s) /\ j <= signal[Dev(s)]
    BY <1>1, <1>2, <1>3
  <2>2. B[s][j] = str[s].sent[j].body /\ str[s].sent[j] \in CmdBuf
    BY <1>0, <2>1, BufferIs, BufferType
  <2>3. str[s].sent[j].at = Len(str[s].sent[j].body)
    BY <1>0, <2>1 DEF EInv, Executed, BufSignalled, Buffers
  <2>4. n \in 1..str[s].sent[j].at
    BY <2>2, <2>3, ItemTypes
  <2> QED BY <1>0, <2>1, <2>2, <2>4, ExecutedItem
<1>4. ASSUME NEW n \in DOMAIN B[s][i], i \in DOMAIN B[s], n < m
      PROVE  B[s][i][n].op \in done \cup {0} /\ Over(n, i)
  <2>0. n \in Nat \ {0}
    <3>1. Bufs(str[s])[i] \in Seq(Item) /\ B[s] = Bufs(str[s])
      BY <1>0, <1>4, ViewFacts, HandlerViewType DEF IInv, Good
    <3> QED BY <3>1
  <2>1. i \in Buffers(s) /\ m <= str[s].sent[i].at + 1
    BY <1>4, <2>0
  <2>2. B[s][i] = str[s].sent[i].body /\ str[s].sent[i] \in CmdBuf
    BY <1>0, <2>1, BufferIs, BufferType
  <2>3. n \in 1..str[s].sent[i].at
    BY <1>4, <2>0, <2>1, <2>2, ItemTypes
  <2> QED BY <1>0, <2>1, <2>2, <2>3, ExecutedItem
<1>5. ASSUME NEW n \in DOMAIN B[s][i], i \in DOMAIN B[s], n = m
      PROVE  Over(n, i)
  <2>0. n \in Nat \ {0}
    <3>1. Bufs(str[s])[i] \in Seq(Item) /\ B[s] = Bufs(str[s])
      BY <1>0, <1>5, ViewFacts, HandlerViewType DEF IInv, Good
    <3> QED BY <3>1
  <2>1. i \in Buffers(s) /\ m \in DOMAIN str[s].sent[i].body
        /\ \A w \in str[s].sent[i].body[m].waits : signal[w[1]] >= w[2]
    BY <1>5, <2>0
  <2>2. B[s][i] = str[s].sent[i].body /\ str[s].sent[i] \in CmdBuf
    BY <1>0, <2>1, BufferIs, BufferType
  <2> QED BY <1>5, <2>1, <2>2, BodyWaits
<1>6. PICK j \in DOMAIN B[s] : \E n \in DOMAIN B[s][j] :
        \/ (j < i \/ (j = i /\ n < m)) /\ B[s][j][n].op = a
        \/ (j < i \/ (j = i /\ n <= m)) /\ WaitsFor(B, H, B[s][j][n], a)
  BY DEF Before
<1>7. PICK n \in DOMAIN B[s][j] :
        \/ (j < i \/ (j = i /\ n < m)) /\ B[s][j][n].op = a
        \/ (j < i \/ (j = i /\ n <= m)) /\ WaitsFor(B, H, B[s][j][n], a)
  BY <1>6
<1>8. CASE (j < i \/ (j = i /\ n < m)) /\ B[s][j][n].op = a
  BY <1>3, <1>4, <1>8
<1>9. CASE (j < i \/ (j = i /\ n <= m)) /\ WaitsFor(B, H, B[s][j][n], a)
  <2>0. n \in Nat
    <3>1. Bufs(str[s])[j] \in Seq(Item) /\ B[s] = Bufs(str[s])
      BY <1>0, ViewFacts, HandlerViewType DEF IInv, Good
    <3> QED BY <3>1
  <2>1. Over(n, j)
    <3>1. j < i \/ (j = i /\ n < m) \/ (j = i /\ n = m)
      BY <1>9, <2>0
    <3> QED BY <1>3, <1>4, <1>5, <3>1
  <2>2. PICK w \in B[s][j][n].waits : Behind(B, H, w, a)
    BY <1>9 DEF WaitsFor
  <2> QED BY <1>0, <2>1, <2>2, WaitReached
<1> QED BY <1>7, <1>8, <1>9

(* The GPU runs the next operation of a buffer.                            *)
LEMMA GpuStepRuns ==
  ASSUME OInv, NEW s \in Streams, NEW i \in Buffers(s), GpuStep(s, i), UNCHANGED Blocking
  PROVE  [CO!Next]_(CO!ovars)
<1> DEFINE b == str[s].sent[i]
           m == b.at + 1
           o == b.body[m].op
<1>0. EInv /\ IInv /\ Positive
  BY DEF OInv, EInv
<1>1. /\ b \in CmdBuf /\ b.at \in Nat /\ m \in DOMAIN b.body /\ m \in Nat
      /\ BufsOf(str)[s][i] = b.body /\ i \in DOMAIN BufsOf(str)[s] /\ i \in Nat \ {0}
  <2>1. b \in CmdBuf /\ b.at < Len(b.body)
    BY <1>0, BufferType DEF GpuStep, Runnable
  <2> QED BY <1>0, <2>1, ItemTypes, BufferIs
<1>2. \A w \in b.body[m].waits : signal[w[1]] >= w[2]
  BY DEF GpuStep, Runnable, NextItem
<1>3. done' = done \cup ({o} \ {0}) /\ UNCHANGED <<log, last, joins, mark, Blocking>>
  BY DEF GpuStep, NextItem
<1>4. CASE o = 0 \/ o \in done
  BY <1>3, <1>4 DEF CO!ovars
<1>5. CASE o # 0 /\ o \notin done
  <2>1. o \in DOMAIN log /\ \A a \in log[o].after : a \in done \/ Before(BufsOf(str), HndsOf(str), s, i, m, a)
    <3>1. ItemOrdered(BufsOf(str), HndsOf(str), s, i, m, log, done)
      BY <1>1 DEF OInv, InOrder, ListsOrdered
    <3> QED BY <1>1, <1>5, <3>1 DEF ItemOrdered
  <2>2. i - 1 <= signal[Dev(s)]
    <3>0. signal[Dev(s)] \in Nat
      BY <1>0, FenceTypes
    <3>1. CASE b.at > 0
      BY <1>0, <1>1, <3>0, <3>1, BegunAfter
    <3>2. CASE b.at = 0 /\ i > 1
      <4>1. <<Dev(s), i - 1>> \in b.body[m].waits
        BY <1>0, <1>1, <3>2 DEF EInv, Chained
      <4> QED BY <1>1, <1>2, <3>0, <4>1
    <3>3. CASE i = 1
      BY <3>0, <3>3
    <3> QED BY <1>1, <3>1, <3>2, <3>3
  <2>3. \A a \in log[o].after : a # 0
    BY <1>0, <2>1 DEF Positive
  <2>4. log[o].after \subseteq done
    <3> SUFFICES ASSUME NEW a \in log[o].after, a \notin done PROVE FALSE
      OBVIOUS
    <3>1. Before(BufsOf(str), HndsOf(str), s, i, m, a) /\ a # 0
      BY <2>1, <2>3
    <3> HIDE DEF o
    <3> QED BY <1>1, <1>2, <2>2, <3>1, BeforeDone
  <2>5. CO!Run(o)
    BY <1>3, <1>5, <2>1, <2>4 DEF CO!Run
  <2> QED BY <2>1, <2>5 DEF CO!Next
<1> QED BY <1>4, <1>5

(* A completion handler runs its host function. *)
LEMMA HandlerRunsRuns ==
  ASSUME OInv, NEW s \in Streams, NEW i \in Buffers(s), HandlerRuns(s, i), UNCHANGED Blocking
  PROVE  [CO!Next]_(CO!ovars)
<1> DEFINE b == str[s].sent[i]
           o == b.handler.op
<1>0. EInv /\ IInv /\ Positive
  BY DEF OInv, EInv
<1>1. /\ b \in CmdBuf /\ HndsOf(str)[s][i] = b.handler /\ i \in DOMAIN HndsOf(str)[s] /\ i \in Nat
  BY <1>0, BufferType, BufferIs, HandlerViewType
<1>2. b.status \in {"completed", "error"} /\ o # 0
  BY DEF HandlerRuns, Handles
<1>3. done' = done \cup {o} /\ UNCHANGED <<log, last, joins, mark, Blocking>>
  BY DEF HandlerRuns
<1>4. CASE o \in done
  BY <1>3, <1>4 DEF CO!ovars
<1>5. CASE o \notin done
  <2>1. o \in DOMAIN log /\ \A a \in log[o].after : a \in done \/ Before(BufsOf(str), HndsOf(str), s, i + 1, 0, a)
    <3>1. HandlerOrdered(BufsOf(str), HndsOf(str), s, i, log, done)
      BY <1>1 DEF OInv, InOrder, ListsOrdered
    <3> QED BY <1>1, <1>2, <3>1 DEF HandlerOrdered
  <2>2. (i + 1) - 1 <= signal[Dev(s)]
    <3>1. b.status # "error" /\ BufSignalled(b, i, signal[Dev(s)])
      BY DEF OInv, HostWaited, EInv, Executed, Buffers
    <3> QED BY <1>1, <1>2, <3>1 DEF BufSignalled
  <2>3. \A a \in log[o].after : a # 0
    BY <1>0, <2>1 DEF Positive
  <2>4. log[o].after \subseteq done
    <3> SUFFICES ASSUME NEW a \in log[o].after, a \notin done PROVE FALSE
      OBVIOUS
    <3>1. Before(BufsOf(str), HndsOf(str), s, i + 1, 0, a) /\ a # 0
      BY <2>1, <2>3
    <3>2. i + 1 \in Nat /\ (i + 1 \in Buffers(s) => 0 <= str[s].sent[i + 1].at + 1)
      BY <1>0, <1>1, BufferType, ItemTypes
    <3> HIDE DEF o
    <3> QED BY <2>2, <3>1, <3>2, BeforeDone
  <2>5. CO!Run(o)
    BY <1>3, <1>5, <2>1, <2>4 DEF CO!Run
  <2> QED BY <2>1, <2>5 DEF CO!Next
<1> QED BY <1>4, <1>5

-----------------------------------------------------------------------------
(* Committing and opening command buffers *)

LEMMA HostFenceSame ==
  ASSUME NEW s, NEW st, NEW c, NEW v, HostFence(s, st, v), Bufs(c) = Bufs(st), Hnds(c) = Hnds(st),
         c.hostValue = st.hostValue, c.state = "live" => st.state = "live" /\ st.pending \subseteq c.pending
  PROVE  HostFence(s, c, v)
  BY DEF HostFence

(* The same buffers and handlers, committed or not. *)
LEMMA SameInOrder ==
  ASSUME NEW T, NEW U, InOrder(T), BufsOf(U) = BufsOf(T), HndsOf(U) = HndsOf(T),
         \A s \in Streams : /\ U[s].state = T[s].state /\ U[s].pending = T[s].pending
                            /\ U[s].waited = T[s].waited /\ U[s].hostValue = T[s].hostValue,
         OpenAlone(U)
  PROVE  InOrder(U)
<1>1. \A s \in Streams : Bufs(U[s]) = Bufs(T[s]) /\ Hnds(U[s]) = Hnds(T[s])
  <2> SUFFICES ASSUME NEW s \in Streams PROVE Bufs(U[s]) = Bufs(T[s]) /\ Hnds(U[s]) = Hnds(T[s])
    OBVIOUS
  <2>1. BufsOf(U)[s] = BufsOf(T)[s] /\ HndsOf(U)[s] = HndsOf(T)[s]
    OBVIOUS
  <2> QED BY <2>1 DEF BufsOf, HndsOf
<1>2. ListsOrdered(BufsOf(U), HndsOf(U), log, done)
  BY DEF InOrder
<1>3. JoinsQueued(U, joins, done)
  BY DEF InOrder, JoinsQueued, Joined
<1>4. WaitedKept(U)
  BY <1>1 DEF InOrder, WaitedKept
<1>5. HostFences(U)
  BY <1>1, HostFenceSame DEF InOrder, HostFences
<1> QED BY <1>2, <1>3, <1>4, <1>5 DEF InOrder

LEMMA CommitSetOpen ==
  ASSUME NEW T, Good(T), NEW S, NEW U, U = CommitSet(T, S), NEW s \in Streams
  PROVE  /\ U[s].state = T[s].state /\ U[s].nonBlocking = T[s].nonBlocking
         /\ ~T[s].open => U[s] = T[s]
         /\ U[s].open => U[s] = T[s] /\ s \notin S
<1>1. T[s] \in Stream /\ Own(T[s])
  BY DEF Good
<1>2. CASE s \notin S
  BY <1>2 DEF CommitSet
<1>3. CASE s \in S
  <2>1. U[s] = CommitWith(T[s], NoHandler)
    BY <1>3 DEF CommitSet, Commit
  <2>2. U[s].state = T[s].state /\ U[s].nonBlocking = T[s].nonBlocking /\ ~U[s].open
    BY <1>1, <2>1, CommitFacts, NoHandlerType
  <2>3. ~T[s].open => U[s] = T[s]
    BY <2>1 DEF CommitWith
  <2> QED BY <2>2, <2>3
<1> QED BY <1>2, <1>3

LEMMA SamePeers ==
  ASSUME NEW T, NEW U, \A p \in Streams : U[p].state = T[p].state /\ U[p].nonBlocking = T[p].nonBlocking,
         NEW s \in Streams
  PROVE  LegacyPeers(U, s) = LegacyPeers(T, s) /\ LegacyPeers(T, s) \subseteq Streams \ {s}
  BY StreamsAssumption DEF LegacyPeers, LiveStreams

LEMMA CommitSetInOrder ==
  ASSUME NEW T, Good(T), InOrder(T), NEW S, NEW U, U = CommitSet(T, S)
  PROVE  InOrder(U)
<1>1. /\ BufsOf(U) = BufsOf(T) /\ HndsOf(U) = HndsOf(T)
      /\ \A s \in Streams : /\ U[s].pending = T[s].pending /\ U[s].waited = T[s].waited
                            /\ U[s].hostValue = T[s].hostValue
  BY CommitSetView
<1>2. \A s \in Streams : /\ U[s].state = T[s].state /\ U[s].nonBlocking = T[s].nonBlocking
                         /\ ~T[s].open => U[s] = T[s]
                         /\ U[s].open => U[s] = T[s]
  BY CommitSetOpen
<1>3. OpenAlone(U)
  <2> SUFFICES ASSUME NEW s \in Streams, U[s].open
               PROVE  /\ U[s].pending = {}
                      /\ \A p \in LegacyPeers(U, s) : ~U[p].open /\ U[p].fenceValue <= U[s].waited[p]
    BY DEF OpenAlone
  <2>1. U[s] = T[s] /\ LegacyPeers(U, s) = LegacyPeers(T, s) /\ LegacyPeers(T, s) \subseteq Streams
    BY <1>2, SamePeers
  <2>2. /\ T[s].pending = {}
        /\ \A p \in LegacyPeers(T, s) : ~T[p].open /\ T[p].fenceValue <= T[s].waited[p]
    BY <2>1 DEF InOrder, OpenAlone
  <2> QED BY <1>2, <2>1, <2>2
<1> QED BY <1>1, <1>2, <1>3, SameInOrder

(* A new first item: what is pending, and the stream's last buffer, stand  *)
(* behind it.                                                              *)
OneMore(B, C, H, G, s, r, first) ==
  /\ r \in Nat /\ DOMAIN B[s] = 1..r /\ DOMAIN H[s] = 1..r
  /\ DOMAIN C[s] = 1..(r + 1) /\ DOMAIN G[s] = 1..(r + 1)
  /\ \A i \in 1..r : i \in 1..(r + 1) /\ C[s][i] = B[s][i] /\ G[s][i] = H[s][i]
  /\ C[s][r + 1] = <<first>> /\ G[s][r + 1] = NoHandler
  /\ \A p \in Streams \ {s} : C[p] = B[p] /\ G[p] = H[p]

LEMMA OpenedLists ==
  ASSUME NEW T, Good(T), NEW s \in Streams, NEW first, NEW U, Opened(T, U, s, first),
         NEW B, B = BufsOf(T), NEW C, C = BufsOf(U), NEW H, H = HndsOf(T), NEW G, G = HndsOf(U),
         NEW r, r = Reach(T[s])
  PROVE  OneMore(B, C, H, G, s, r, first)
<1>1. T[s] \in Stream /\ Own(T[s])
  BY DEF Good
<1>2. r \in Nat /\ DOMAIN B[s] = 1..r /\ DOMAIN H[s] = 1..r
  BY <1>1, SentFacts, ViewFacts DEF BufsOf, HndsOf
<1>3. \A p \in Streams \ {s} : C[p] = B[p] /\ G[p] = H[p]
  BY DEF Opened, BufsOf, HndsOf
<1>4. /\ C[s] = [i \in 1..(r + 1) |-> IF i = r + 1 THEN <<first>> ELSE B[s][i]]
      /\ G[s] = [i \in 1..(r + 1) |-> IF i = r + 1 THEN NoHandler ELSE H[s][i]]
  BY DEF Opened, BufsOf, HndsOf
<1>5. /\ DOMAIN C[s] = 1..(r + 1) /\ DOMAIN G[s] = 1..(r + 1)
      /\ C[s][r + 1] = <<first>> /\ G[s][r + 1] = NoHandler
  BY <1>2, <1>4
<1>6. \A i \in 1..r : i \in 1..(r + 1) /\ C[s][i] = B[s][i] /\ G[s][i] = H[s][i]
  <2> SUFFICES ASSUME NEW i \in 1..r
               PROVE  i \in 1..(r + 1) /\ C[s][i] = B[s][i] /\ G[s][i] = H[s][i]
    OBVIOUS
  <2>1. i \in 1..(r + 1) /\ i # r + 1
    BY <1>2
  <2> QED BY <1>4, <2>1
<1> QED BY <1>2, <1>3, <1>5, <1>6 DEF OneMore

LEMMA OpenedInOrder ==
  ASSUME NEW T, Good(T), InOrder(T), Positive, NEW s \in Streams, NEW first, NEW U,
         Opened(T, U, s, first), Longer(T, U), Good(U), Chained(BufsOf(T))
  PROVE  InOrder(U)
<1> DEFINE B == BufsOf(T)
           C == BufsOf(U)
           H == HndsOf(T)
           G == HndsOf(U)
           r == Reach(T[s])
<1>1. /\ r \in Nat /\ DOMAIN B[s] = 1..r /\ DOMAIN H[s] = 1..r
      /\ DOMAIN C[s] = 1..(r + 1) /\ DOMAIN G[s] = 1..(r + 1)
      /\ \A i \in 1..r : i \in 1..(r + 1) /\ C[s][i] = B[s][i] /\ G[s][i] = H[s][i]
      /\ C[s][r + 1] = <<first>> /\ G[s][r + 1] = NoHandler
      /\ \A p \in Streams \ {s} : C[p] = B[p] /\ G[p] = H[p]
  <2>1. OneMore(B, C, H, G, s, r, first)
    BY OpenedLists
  <2> HIDE DEF B, C, H, G, r
  <2> QED BY <2>1 DEF OneMore
<1>2. Ext(B, C)
  BY DEF Longer
<1>3. ListsOrdered(B, H, log, done) /\ JoinsQueued(T, joins, done) /\ WaitedKept(T) /\ OpenAlone(T) /\ HostFences(T)
  BY DEF InOrder
<1>4. /\ first.op = 0 /\ T[s].pending \subseteq first.waits /\ U[s].pending = {}
      /\ \A p \in Streams : /\ U[p].state = T[p].state /\ U[p].nonBlocking = T[p].nonBlocking
                            /\ U[p].hostValue = T[p].hostValue
                            /\ U[s].waited[p] = T[s].waited[p] \/ <<Dev(p), U[s].waited[p]>> \in first.waits
      /\ \A p \in Streams \ {s} : U[p].pending = T[p].pending /\ U[p].waited = T[p].waited
                                  /\ (~T[p].open => U[p] = T[p])
      /\ \A p \in LegacyPeers(T, s) : ~U[p].open /\ U[p].fenceValue <= U[s].waited[p]
  BY DEF Opened
<1> HIDE DEF B, C, H, G, r
<1>5. \A i \in 1..(r + 1) : i \in 1..r \/ i = r + 1
  BY <1>1
<1>6. <<first>>[1] = first /\ DOMAIN <<first>> = {1}
  OBVIOUS
<1>7. HandlersStay(H, G, done)
  BY <1>1 DEF HandlersStay
<1>8. ListsOrdered(C, G, log, done)
  <2>1. ASSUME NEW p \in Streams, NEW i \in DOMAIN C[p], NEW m \in DOMAIN C[p][i]
        PROVE  (i \in DOMAIN B[p] /\ m \in DOMAIN B[p][i]) \/ ItemOrdered(C, G, p, i, m, log, done)
    <3>1. CASE p = s /\ i = r + 1
      BY <1>1, <1>4, <1>6, <3>1 DEF ItemOrdered
    <3>2. CASE p = s /\ i \in 1..r
      BY <1>1, <3>2
    <3>3. CASE p # s
      BY <1>1, <3>3
    <3> QED BY <1>1, <1>5, <3>1, <3>2, <3>3
  <2>2. ASSUME NEW p \in Streams, NEW i \in DOMAIN G[p]
        PROVE  (i \in DOMAIN H[p] /\ G[p][i] = H[p][i]) \/ HandlerOrdered(C, G, p, i, log, done)
    <3>1. CASE p = s /\ i = r + 1
      BY <1>1, <3>1 DEF HandlerOrdered, NoHandler
    <3>2. CASE p = s /\ i \in 1..r
      BY <1>1, <3>2
    <3>3. CASE p # s
      BY <1>1, <3>3
    <3> QED BY <1>1, <1>5, <3>1, <3>2, <3>3
  <2> QED BY <1>2, <1>3, <1>7, <2>1, <2>2, PrefixRefl, ListsStay DEF Positive
<1>9. JoinsQueued(U, joins, done)
  <2> SUFFICES ASSUME NEW p \in Streams, U[p].state = "live", NEW a \in joins[p], a \notin done
               PROVE  Joined(U, C, G, p, a)
    BY DEF JoinsQueued, C, G
  <2>1. a # 0 /\ Joined(T, B, H, p, a)
    BY <1>3, <1>4 DEF Positive, JoinsQueued, B, H
  <2>2. CASE Rests(B, H, p, a)
    BY <1>2, <1>7, <2>1, <2>2, RestsStays DEF Joined
  <2>3. ASSUME NEW w \in T[p].pending, Behind(B, H, w, a) PROVE Joined(U, C, G, p, a)
    <3>1. Behind(C, G, w, a)
      BY <1>2, <1>7, <2>1, <2>3, BehindStays
    <3>2. CASE p # s
      BY <1>4, <2>3, <3>1, <3>2 DEF Joined
    <3>3. CASE p = s
      <4>1. WaitsFor(C, G, C[s][r + 1][1], a)
        BY <1>1, <1>4, <1>6, <2>3, <3>1, <3>3 DEF WaitsFor
      <4>2. r + 1 \in DOMAIN C[s] /\ 1 \in DOMAIN C[s][r + 1]
        BY <1>1, <1>6
      <4>3. Rests(C, G, s, a)
        BY <4>1, <4>2 DEF Rests
      <4> QED BY <3>3, <4>3 DEF Joined
    <3> QED BY <3>2, <3>3
  <2> QED BY <2>1, <2>2, <2>3 DEF Joined
<1>10. WaitedKept(U)
  <2> SUFFICES ASSUME NEW q \in Streams, NEW p \in Streams, U[q].waited[p] # 0
               PROVE  Awaits(C[q], Dev(p), U[q].waited[p])
    BY DEF WaitedKept, C, BufsOf
  <2>1. CASE q # s
    BY <1>1, <1>3, <1>4, <2>1 DEF WaitedKept, B, BufsOf
  <2>2. CASE q = s /\ U[s].waited[p] = T[s].waited[p]
    <3>1. Awaits(B[s], Dev(p), U[s].waited[p])
      BY <1>3, <2>2 DEF WaitedKept, B, BufsOf
    <3> QED BY <1>2, <2>2, <3>1 DEF Awaits, Ext
  <2>3. CASE q = s /\ <<Dev(p), U[s].waited[p]>> \in first.waits
    <3>0. U[s].waited[p] \in Nat
      BY StreamFields DEF Good
    <3> DEFINE w == <<Dev(p), U[s].waited[p]>>
    <3>1. w[1] = Dev(p) /\ w[2] >= U[s].waited[p]
      BY <3>0
    <3>2. r + 1 \in DOMAIN C[s] /\ 1 \in DOMAIN C[s][r + 1] /\ w \in C[s][r + 1][1].waits
      BY <1>1, <1>6, <2>3
    <3> QED BY <2>3, <3>1, <3>2 DEF Awaits
  <2> QED BY <1>4, <2>1, <2>2, <2>3
<1>11. OpenAlone(U)
  <2> SUFFICES ASSUME NEW q \in Streams, U[q].open
               PROVE  /\ U[q].pending = {}
                      /\ \A p \in LegacyPeers(U, q) : ~U[p].open /\ U[p].fenceValue <= U[q].waited[p]
    BY DEF OpenAlone
  <2>0. \A p \in Streams : U[p].state = T[p].state /\ U[p].nonBlocking = T[p].nonBlocking
    BY <1>4
  <2>1. \A p \in Streams : LegacyPeers(U, p) = LegacyPeers(T, p) /\ LegacyPeers(T, p) \subseteq Streams \ {p}
    BY <2>0, SamePeers
  <2>2. CASE q = s
    BY <1>4, <2>1, <2>2
  <2>3. CASE q # s
    <3>1. T[q].open /\ U[q].pending = T[q].pending /\ U[q].waited = T[q].waited
      BY <1>4, <2>3
    <3>2. /\ T[q].pending = {}
          /\ \A p \in LegacyPeers(T, q) : ~T[p].open /\ T[p].fenceValue <= T[q].waited[p]
      BY <1>3, <3>1 DEF OpenAlone
    <3>3. s \notin LegacyPeers(T, q)
      <4>1. q \notin LegacyPeers(T, s)
        BY <1>4
      <4>2. U[q].state = "live"
        BY DEF Good, Own
      <4>3. T[q].state = "live" /\ T[Legacy].state = "live" /\ ~T[Legacy].nonBlocking
        BY <1>4, <4>2 DEF Good
      <4> QED BY <2>3, <4>1, <4>3 DEF LegacyPeers, LiveStreams
    <3>4. \A p \in LegacyPeers(T, q) : p \in Streams \ {s} /\ U[p] = T[p]
      BY <1>4, <2>1, <3>2, <3>3
    <3> QED BY <2>1, <3>1, <3>2, <3>4
  <2> QED BY <2>2, <2>3
<1>12. HostFences(U)
  <2>1. ASSUME NEW p \in Streams, p # s PROVE HostFence(p, U[p], signal[Host(p)])
    <3>1. Bufs(U[p]) = Bufs(T[p]) /\ Hnds(U[p]) = Hnds(T[p])
      BY <2>1 DEF Opened
    <3> QED BY <1>3, <1>4, <2>1, <3>1, HostFenceSame DEF HostFences
  <2>2. HostFence(s, U[s], signal[Host(s)])
    <3> DEFINE v == signal[Host(s)]
               h == H[s]
               g == G[s]
    <3>1. B[s] = Bufs(T[s]) /\ C[s] = Bufs(U[s]) /\ h = Hnds(T[s]) /\ g = Hnds(U[s])
      BY DEF B, C, H, G, BufsOf, HndsOf
    <3>2. HostFence(s, T[s], v)
      BY <1>3 DEF HostFences
    <3>3. v <= U[s].hostValue
      BY <1>4, <3>2 DEF HostFence
    <3> HIDE DEF v
    <3>4. ASSUME NEW i \in DOMAIN g, g[i].op # 0
          PROVE  /\ v < g[i].value /\ g[i].value <= U[s].hostValue
                 /\ \A j \in DOMAIN g : i < j /\ g[j].op # 0 => g[i].value < g[j].value
                 /\ i + 1 \in DOMAIN C[s] => <<Host(s), g[i].value>> \in C[s][i + 1][1].waits
                 /\ i + 1 \notin DOMAIN C[s] /\ U[s].state = "live" => <<Host(s), g[i].value>> \in U[s].pending
      <4>1. \A j \in DOMAIN g : g[j].op # 0 => j \in 1..r /\ j \in DOMAIN h /\ g[j] = h[j]
        BY <1>1, <1>5 DEF NoHandler
      <4>2. i \in 1..r /\ g[i] = h[i] /\ h[i].op # 0 /\ i \in DOMAIN h
        BY <3>4, <4>1
      <4>3. /\ v < h[i].value /\ h[i].value <= T[s].hostValue
            /\ \A j \in DOMAIN h : i < j /\ h[j].op # 0 => h[i].value < h[j].value
            /\ i + 1 \in DOMAIN B[s] => <<Host(s), h[i].value>> \in B[s][i + 1][1].waits
            /\ i + 1 \notin DOMAIN B[s] /\ T[s].state = "live" => <<Host(s), h[i].value>> \in T[s].pending
        BY <3>1, <3>2, <4>2 DEF HostFence
      <4>4. T[s].state = "live"
        <5>1. U[s].open /\ U[s].state = T[s].state
          BY DEF Opened
        <5> QED BY <5>1 DEF Good, Own
      <4>5. i + 1 \in DOMAIN C[s]
        BY <1>1, <4>2
      <4>6. <<Host(s), g[i].value>> \in C[s][i + 1][1].waits
        <5>1. CASE i + 1 \in DOMAIN B[s]
          BY <1>1, <4>2, <4>3, <5>1
        <5>2. CASE i + 1 \notin DOMAIN B[s]
          <6>1. i = r
            BY <1>1, <4>2, <5>2
          <6> QED BY <1>1, <1>4, <1>6, <4>2, <4>3, <4>4, <5>2, <6>1
        <5> QED BY <5>1, <5>2
      <4> QED BY <1>4, <4>1, <4>2, <4>3, <4>5, <4>6
    <3> QED BY <3>1, <3>3, <3>4 DEF HostFence, v
  <2> QED BY <2>1, <2>2 DEF HostFences
<1> QED BY <1>8, <1>9, <1>10, <1>11, <1>12 DEF InOrder, C, G

LEMMA OpenInOrder ==
  ASSUME NEW T, Good(T), InOrder(T), Positive, signal \in [Fence -> Nat], Chained(BufsOf(T)),
         NEW s \in Streams, T[s].state = "live", NEW U, U = Open(T, s)
  PROVE  InOrder(U)
<1>1. U = T \/ \E first : Opened(T, U, s, first)
  BY OpenView
<1>2. Longer(T, U) /\ Good(U)
  BY OpenLonger, OpenGood
<1> QED BY <1>1, <1>2, OpenedInOrder

-----------------------------------------------------------------------------
(* Adding items and handlers *)

LEMMA HostFenceKept ==
  ASSUME NEW s, NEW st, NEW c, NEW v, HostFence(s, st, v), Hnds(c) = Hnds(st),
         DOMAIN Bufs(c) = DOMAIN Bufs(st), \A i \in DOMAIN Bufs(st) : Bufs(c)[i][1] = Bufs(st)[i][1],
         c.hostValue = st.hostValue, c.state = "live" => st.state = "live" /\ st.pending \subseteq c.pending
  PROVE  HostFence(s, c, v)
<1> DEFINE g == Hnds(st)
           x == Bufs(st)
           y == Bufs(c)
<1>1. /\ v <= st.hostValue
      /\ \A i \in DOMAIN g : g[i].op # 0 =>
           /\ v < g[i].value /\ g[i].value <= st.hostValue
           /\ \A j \in DOMAIN g : i < j /\ g[j].op # 0 => g[i].value < g[j].value
           /\ i + 1 \in DOMAIN x => <<Host(s), g[i].value>> \in x[i + 1][1].waits
           /\ i + 1 \notin DOMAIN x /\ st.state = "live" => <<Host(s), g[i].value>> \in st.pending
  BY DEF HostFence
<1>2. DOMAIN y = DOMAIN x /\ \A i \in DOMAIN x : y[i][1] = x[i][1]
  OBVIOUS
<1> HIDE DEF g, x, y
<1>3. /\ v <= c.hostValue
      /\ \A i \in DOMAIN g : g[i].op # 0 =>
           /\ v < g[i].value /\ g[i].value <= c.hostValue
           /\ \A j \in DOMAIN g : i < j /\ g[j].op # 0 => g[i].value < g[j].value
           /\ i + 1 \in DOMAIN y => <<Host(s), g[i].value>> \in y[i + 1][1].waits
           /\ i + 1 \notin DOMAIN y /\ c.state = "live" => <<Host(s), g[i].value>> \in c.pending
  BY <1>1, <1>2
<1> QED BY <1>3 DEF HostFence, g, x, y

LEMMA JoinedStays ==
  ASSUME NEW T, NEW U, NEW B, NEW C, Ext(B, C), NEW H, NEW G, NEW D, HandlersStay(H, G, D),
         NEW s \in Streams, T[s].pending \subseteq U[s].pending,
         NEW a, a \notin D, a # 0, Joined(T, B, H, s, a)
  PROVE  Joined(U, C, G, s, a)
<1>1. Rests(B, H, s, a) => Rests(C, G, s, a)
  BY RestsStays
<1>2. \A w \in T[s].pending : Behind(B, H, w, a) => Behind(C, G, w, a)
  BY BehindStays
<1> QED BY <1>1, <1>2 DEF Joined

LEMMA WaitedStays ==
  ASSUME NEW T, NEW U, WaitedKept(T), Ext(BufsOf(T), BufsOf(U)),
         \A s \in Streams : U[s].waited = T[s].waited
  PROVE  WaitedKept(U)
<1> SUFFICES ASSUME NEW s \in Streams, NEW p \in Streams, U[s].waited[p] # 0
             PROVE  Awaits(BufsOf(U)[s], Dev(p), U[s].waited[p])
  BY DEF WaitedKept, BufsOf
<1>1. Awaits(BufsOf(T)[s], Dev(p), T[s].waited[p])
  BY DEF WaitedKept, BufsOf
<1> QED BY <1>1 DEF Awaits, Ext

(* Whatever happens to the open buffer of s, no other open buffer answers  *)
(* for s.                                                                  *)
LEMMA OpenStays ==
  ASSUME NEW T, OpenAlone(T), NEW s \in Streams, T[s].open, NEW U,
         \A p \in Streams \ {s} : U[p] = T[p],
         U[s].state = T[s].state, U[s].nonBlocking = T[s].nonBlocking, U[s].waited = T[s].waited,
         U[s].open => U[s].pending = T[s].pending
  PROVE  OpenAlone(U)
<1> SUFFICES ASSUME NEW q \in Streams, U[q].open
             PROVE  /\ U[q].pending = {}
                    /\ \A p \in LegacyPeers(U, q) : ~U[p].open /\ U[p].fenceValue <= U[q].waited[p]
  BY DEF OpenAlone
<1>0. \A p \in Streams : U[p].state = T[p].state /\ U[p].nonBlocking = T[p].nonBlocking
  OBVIOUS
<1>1. LegacyPeers(U, q) = LegacyPeers(T, q) /\ LegacyPeers(T, q) \subseteq Streams \ {q}
  BY <1>0, SamePeers
<1>2. T[q].open /\ U[q].pending = T[q].pending /\ U[q].waited = T[q].waited
  OBVIOUS
<1>3. /\ T[q].pending = {}
      /\ \A p \in LegacyPeers(T, q) : ~T[p].open /\ T[p].fenceValue <= T[q].waited[p]
  BY <1>2 DEF OpenAlone
<1>4. \A p \in LegacyPeers(T, q) : U[p] = T[p]
  BY <1>1, <1>3
<1> QED BY <1>1, <1>2, <1>3, <1>4

LEMMA AppendedStays ==
  ASSUME NEW T, Good(T), WaitedKept(T), OpenAlone(T), HostFences(T), Chained(BufsOf(T)),
         NEW s \in Streams, T[s].open, NEW item \in Item, NEW U,
         Appended(T[s], U[s], item), \A p \in Streams \ {s} : U[p] = T[p]
  PROVE  WaitedKept(U) /\ OpenAlone(U) /\ HostFences(U)
<1>1. Ext(BufsOf(T), BufsOf(U))
  BY AppendedLonger DEF Longer
<1>2. /\ U[s].pending = T[s].pending /\ U[s].waited = T[s].waited /\ U[s].hostValue = T[s].hostValue
      /\ U[s].state = T[s].state /\ U[s].nonBlocking = T[s].nonBlocking /\ Hnds(U[s]) = Hnds(T[s])
  BY DEF Appended
<1>3. \A p \in Streams : U[p].waited = T[p].waited
  BY <1>2
<1>4. WaitedKept(U)
  BY <1>1, <1>3, WaitedStays
<1>5. OpenAlone(U)
  BY <1>2, OpenStays
<1>6. HostFence(s, U[s], signal[Host(s)])
  <2> DEFINE x == Bufs(T[s])
             y == Bufs(U[s])
             r == Reach(T[s])
  <2>0. T[s] \in Stream /\ Own(T[s])
    BY DEF Good
  <2>1. DOMAIN x = 1..r /\ r \in Nat \ {0} /\ \A i \in DOMAIN x : x[i] \in Seq(Item)
    BY <2>0, ViewFacts, SentFacts
  <2>2. y = [x EXCEPT ![r] = Append(x[r], item)]
    BY DEF Appended
  <2>3. x[r] # <<>>
    <3>1. r \in DOMAIN BufsOf(T)[s] /\ BufsOf(T)[s] = x
      BY <2>1 DEF BufsOf
    <3> QED BY <3>1 DEF Chained
  <2> HIDE DEF x, y, r
  <2>4. DOMAIN y = DOMAIN x /\ \A i \in DOMAIN x : y[i][1] = x[i][1]
    <3>1. Append(x[r], item)[1] = x[r][1]
      BY <2>1, <2>3
    <3> QED BY <2>1, <2>2, <3>1
  <2>5. HostFence(s, T[s], signal[Host(s)])
    BY DEF HostFences
  <2>6. DOMAIN Bufs(U[s]) = DOMAIN Bufs(T[s]) /\ \A i \in DOMAIN Bufs(T[s]) : Bufs(U[s])[i][1] = Bufs(T[s])[i][1]
    BY <2>4 DEF x, y
  <2> QED BY <1>2, <2>5, <2>6, HostFenceKept
<1>7. HostFences(U)
  BY <1>6 DEF HostFences
<1> QED BY <1>4, <1>5, <1>7

LEMMA HandedFence ==
  ASSUME NEW s, NEW st \in Stream, Own(st), st.open, NEW v \in Nat, HostFence(s, st, v),
         NEW h \in Handler, h.value = st.hostValue + 1, NEW d, Handed(st, d, h),
         <<Host(s), h.value>> \in d.pending
  PROVE  HostFence(s, d, v)
<1> DEFINE x == Bufs(st)
           k == Hnds(st)
           g == Hnds(d)
           r == Reach(st)
           w == <<Host(s), h.value>>
<1>1. DOMAIN x = 1..r /\ DOMAIN k = 1..r /\ r \in Nat \ {0} /\ k[r] = NoHandler /\ Bufs(d) = x
  BY ViewFacts, SentFacts DEF Handed
<1>2. g = [k EXCEPT ![r] = h] /\ d.hostValue = h.value
  BY DEF Handed
<1>3. st.hostValue \in Nat /\ h.value \in Nat
  BY StreamFields DEF Handler
<1>4. \A i \in DOMAIN k : k[i].value \in Nat
  <2>1. \A i \in DOMAIN k : k[i] \in Handler
    BY <1>1, ViewFacts
  <2> QED BY <2>1 DEF Handler
<1>5. /\ v <= st.hostValue
      /\ \A i \in DOMAIN k : k[i].op # 0 =>
           /\ v < k[i].value /\ k[i].value <= st.hostValue
           /\ \A j \in DOMAIN k : i < j /\ k[j].op # 0 => k[i].value < k[j].value
           /\ i + 1 \in DOMAIN x => <<Host(s), k[i].value>> \in x[i + 1][1].waits
  BY DEF HostFence
<1>6. w \in d.pending
  OBVIOUS
<1> HIDE DEF x, k, g, r, w
<1>7. /\ DOMAIN g = 1..r /\ g[r] = h /\ \A i \in 1..r : i # r => g[i] = k[i]
  BY <1>1, <1>2
<1>8. ASSUME NEW i \in DOMAIN g, g[i].op # 0
      PROVE  /\ v < g[i].value /\ g[i].value <= d.hostValue
             /\ \A j \in DOMAIN g : i < j /\ g[j].op # 0 => g[i].value < g[j].value
             /\ i + 1 \in DOMAIN x => <<Host(s), g[i].value>> \in x[i + 1][1].waits
             /\ i + 1 \notin DOMAIN x => <<Host(s), g[i].value>> \in d.pending
  <2>1. CASE i = r
    <3>1. g[i] = h /\ i + 1 \notin DOMAIN x /\ \A j \in DOMAIN g : ~(i < j)
      BY <1>1, <1>7, <2>1
    <3> QED BY <1>2, <1>3, <1>5, <1>6, <3>1 DEF w
  <2>2. CASE i # r
    <3>1. g[i] = k[i] /\ i \in DOMAIN k /\ k[i].op # 0 /\ i + 1 \in DOMAIN x
      BY <1>1, <1>7, <1>8, <2>2
    <3>2. /\ v < k[i].value /\ k[i].value <= st.hostValue /\ k[i].value \in Nat
          /\ \A j \in DOMAIN k : i < j /\ k[j].op # 0 => k[i].value < k[j].value
          /\ <<Host(s), k[i].value>> \in x[i + 1][1].waits
      BY <1>4, <1>5, <3>1
    <3>3. k[i].value < h.value
      BY <1>3, <3>2
    <3>4. \A j \in DOMAIN g : i < j /\ g[j].op # 0 => g[i].value < g[j].value
      <4> SUFFICES ASSUME NEW j \in DOMAIN g, i < j, g[j].op # 0 PROVE g[i].value < g[j].value
        OBVIOUS
      <4>1. j \in DOMAIN k /\ (j = r \/ g[j] = k[j])
        BY <1>1, <1>7
      <4> QED BY <1>7, <3>1, <3>2, <3>3, <4>1
    <3> QED BY <1>2, <1>3, <3>1, <3>2, <3>3, <3>4
  <2> QED BY <2>1, <2>2
<1>9. v <= d.hostValue
  BY <1>2, <1>3, <1>5
<1> QED BY <1>1, <1>8, <1>9 DEF HostFence, x, k, g

-----------------------------------------------------------------------------
(* Issuing an operation *)

LEMMA OpenStates ==
  ASSUME IInv, NEW s \in Streams, str[s].state = "live", NEW O, O = Open(str, s), NEW p \in Streams
  PROVE  O[p].state = str[p].state /\ O[p].nonBlocking = str[p].nonBlocking
<1>1. O = str \/ \E first : Opened(str, O, s, first)
  BY OpenView DEF IInv
<1> QED BY <1>1 DEF Opened

(* All that an operation issued on s runs after is in the list of s once a *)
(* buffer is open for it.                                                  *)
LEMMA AfterRests ==
  ASSUME OInv, ~WaitsVisible, NEW s \in Streams, str[s].state = "live", NEW O, O = Open(str, s),
         NEW a \in CO!After(s), a \notin done
  PROVE  a # 0 /\ Rests(BufsOf(O), HndsOf(O), s, a)
<1> DEFINE B == BufsOf(O)
           H == HndsOf(O)
<1>0. EInv /\ IInv /\ Positive /\ Good(str) /\ signal \in [Fence -> Nat] /\ Chained(BufsOf(str))
  BY DEF OInv, EInv, IInv
<1>1. Good(O) /\ O[s].open /\ Longer(str, O)
  BY <1>0, OpenGood, OpenLonger
<1>2. InOrder(O)
  BY <1>0, OpenInOrder DEF OInv
<1>3. O[s].pending = {} /\ \A p \in LegacyPeers(O, s) : ~O[p].open /\ O[p].fenceValue <= O[s].waited[p]
  BY <1>1, <1>2 DEF InOrder, OpenAlone
<1>4. a # 0
  BY <1>0, SeenPositive
<1>5. \A p \in Streams : a \in last[p] => Queues(B, p, a)
  <2> SUFFICES ASSUME NEW p \in Streams, a \in last[p] PROVE Queues(B, p, a)
    OBVIOUS
  <2>1. Queues(BufsOf(str), p, a)
    BY <1>0 DEF EInv, LastHeld
  <2> QED BY <1>1, <2>1, QueuesExt DEF Longer
<1>6. CASE a \in last[s]
  BY <1>4, <1>5, <1>6 DEF Queues, InBuf, Rests
<1>7. CASE a \in joins[s]
  <2>1. O[s].state = "live"
    BY <1>0, OpenStates
  <2>2. Joined(O, B, H, s, a)
    BY <1>2, <1>7, <2>1 DEF InOrder, JoinsQueued
  <2> QED BY <1>3, <1>4, <2>2 DEF Joined
<1>8. ASSUME NEW p \in CO!Peers(s), a \in last[p] PROVE Rests(B, H, s, a)
  <2>1. p \in LegacyPeers(O, s) /\ p \in Streams
    <3>1. \A q \in Streams : O[q].state = str[q].state /\ O[q].nonBlocking = str[q].nonBlocking
      BY <1>0, OpenStates
    <3> QED BY <3>1, StreamsAssumption DEF CO!Peers, Blocking, LegacyPeers, LiveStreams
  <2> DEFINE v == O[s].waited[p]
  <2>2. O[p] \in Stream /\ Own(O[p]) /\ O[s] \in Stream /\ Own(O[s])
    BY <1>1, <2>1 DEF Good
  <2>3. v \in Nat /\ O[p].fenceValue <= v /\ ~O[p].open
    BY <1>3, <2>1, <2>2, StreamFields
  <2>4. DOMAIN B[p] = 1..O[p].fenceValue /\ O[p].fenceValue \in Nat
    BY <2>1, <2>2, <2>3, SentFacts, ViewFacts DEF BufsOf
  <2> HIDE DEF v, B, H
  <2>5. PICK i \in DOMAIN B[p] : InBuf(B[p][i], a)
    BY <1>5, <1>8, <2>1 DEF Queues
  <2>6. i \in Nat /\ i <= v /\ v # 0
    BY <2>3, <2>4, <2>5
  <2>7. Awaits(B[s], Dev(p), v)
    BY <1>2, <2>1, <2>6 DEF InOrder, WaitedKept, v, B, BufsOf
  <2>8. PICK j \in DOMAIN B[s] : \E n \in DOMAIN B[s][j] : \E w \in B[s][j][n].waits : w[1] = Dev(p) /\ w[2] >= v
    BY <2>7 DEF Awaits
  <2>9. PICK n \in DOMAIN B[s][j] : \E w \in B[s][j][n].waits : w[1] = Dev(p) /\ w[2] >= v
    BY <2>8
  <2>10. PICK w \in B[s][j][n].waits : w[1] = Dev(p) /\ w[2] >= v
    BY <2>9
  <2>11. w[2] \in Nat
    <3>1. B[s][j] \in Seq(Item)
      BY <2>2, ViewFacts DEF B, BufsOf
    <3>2. B[s][j][n] \in Item
      BY <3>1
    <3> QED BY <3>2 DEF Item, Wait
  <2>12. Holds(B, p, w[2], a)
    BY <2>3, <2>5, <2>6, <2>10, <2>11 DEF Holds
  <2>13. WaitsFor(B, H, B[s][j][n], a)
    BY <2>1, <2>10, <2>12 DEF WaitsFor, Behind
  <2> QED BY <2>13 DEF Rests
<1>9. a \in last[s] \/ a \in joins[s] \/ \E p \in CO!Peers(s) : a \in last[p]
  BY DEF CO!After, CO!Front, CO!Seen
<1> QED BY <1>4, <1>6, <1>7, <1>8, <1>9

LEMMA LogGrows ==
  ASSUME IInv, NEW s \in Streams, CO!Logged(s)
  PROVE  Prefix(log, log') /\ CO!NewOp \in DOMAIN log' /\ log'[CO!NewOp].after = CO!After(s)
<1> DEFINE entry == [stream |-> s, after |-> CO!After(s)]
<1>1. log \in Seq([stream : Streams, after : SUBSET Nat]) /\ log' = Append(log, entry)
  BY DEF IInv, Hist_OK, CO!Logged
<1>2. entry.after = CO!After(s)
  OBVIOUS
<1> HIDE DEF entry
<1> QED BY <1>1, <1>2 DEF Prefix, CO!NewOp

(* Everything in the list of s is before what is added at its end.         *)
LEMMA RestsBefore ==
  ASSUME NEW B, NEW H, NEW s \in Streams, NEW r \in Nat, DOMAIN B[s] = 1..r, NEW n \in Nat,
         \A j \in 1..r : DOMAIN B[s][j] \subseteq Nat, DOMAIN B[s][r] = 1..n,
         NEW a, Rests(B, H, s, a)
  PROVE  Before(B, H, s, r, n + 1, a) /\ Before(B, H, s, r + 1, 0, a)
<1>1. PICK j \in DOMAIN B[s] : \E k \in DOMAIN B[s][j] : B[s][j][k].op = a \/ WaitsFor(B, H, B[s][j][k], a)
  BY DEF Rests
<1>2. PICK k \in DOMAIN B[s][j] : B[s][j][k].op = a \/ WaitsFor(B, H, B[s][j][k], a)
  BY <1>1
<1>3. j < r \/ (j = r /\ k < n + 1 /\ k <= n + 1)
  <2>1. j \in 1..r /\ k \in Nat
    OBVIOUS
  <2>2. CASE j = r
    BY <2>2
  <2>3. CASE j # r
    BY <2>1, <2>3
  <2> QED BY <2>2, <2>3
<1>4. j < r + 1
  OBVIOUS
<1> QED BY <1>2, <1>3, <1>4 DEF Before

LEMMA ListTypes ==
  ASSUME NEW T, Good(T), NEW s \in Streams, T[s].open
  PROVE  /\ Reach(T[s]) \in Nat \ {0} /\ DOMAIN BufsOf(T)[s] = 1..Reach(T[s])
         /\ DOMAIN HndsOf(T)[s] = 1..Reach(T[s]) /\ HndsOf(T)[s][Reach(T[s])] = NoHandler
         /\ \A j \in 1..Reach(T[s]) : BufsOf(T)[s][j] \in Seq(Item) /\ DOMAIN BufsOf(T)[s][j] \subseteq Nat
<1>1. T[s] \in Stream /\ Own(T[s])
  BY DEF Good
<1>2. BufsOf(T)[s] = Bufs(T[s]) /\ HndsOf(T)[s] = Hnds(T[s])
  BY DEF BufsOf, HndsOf
<1> QED BY <1>1, <1>2, SentFacts, ViewFacts

(* An operation encoded in the open buffer of s. *)
LEMMA IssueInOrder ==
  ASSUME OInv, ~WaitsVisible, NEW s \in Streams, str[s].state = "live", NEW O, O = Open(str, s),
         NEW item \in Item, item.op = CO!NewOp, Appended(O[s], str'[s], item),
         \A p \in Streams \ {s} : str'[p] = O[p], Longer(O, str'), CO!Issue(s), UNCHANGED signal
  PROVE  InOrder(str)'
<1> DEFINE o == CO!NewOp
           B == BufsOf(O)
           C == BufsOf(str')
           H == HndsOf(O)
           G == HndsOf(str')
           r == Reach(O[s])
           n == Len(B[s][r])
<1>0. /\ EInv /\ IInv /\ Positive /\ Good(str) /\ signal \in [Fence -> Nat] /\ Chained(BufsOf(str))
      /\ str[s].state = "live" /\ InOrder(str)
  BY DEF OInv, EInv, IInv
<1>1. Good(O) /\ O[s].open /\ InOrder(O) /\ Chained(B)
  BY <1>0, OpenGood, OpenInOrder, OpenLonger DEF Longer
<1>2. /\ item.op = o
      /\ Appended(O[s], str'[s], item) /\ \A p \in Streams \ {s} : str'[p] = O[p]
  OBVIOUS
<1>3. /\ r \in Nat \ {0} /\ DOMAIN B[s] = 1..r /\ DOMAIN C[s] = 1..r
      /\ \A p \in Streams \ {s} : C[p] = B[p]
      /\ \A i \in 1..(r - 1) : C[s][i] = B[s][i]
      /\ n \in Nat /\ DOMAIN B[s][r] = 1..n /\ DOMAIN C[s][r] = 1..(n + 1)
      /\ \A m \in 1..n : C[s][r][m] = B[s][r][m]
      /\ C[s][r][n + 1] = item /\ G = H
  BY <1>1, <1>2, AppendedBufs
<1>4. Ext(B, C)
  BY DEF Longer
<1>5. CO!Logged(s) /\ joins' = [joins EXCEPT ![s] = {}] /\ UNCHANGED <<signal, done>>
  BY DEF CO!Issue
<1>6. Prefix(log, log') /\ o \in DOMAIN log' /\ log'[o].after = CO!After(s)
  BY <1>0, <1>5, LogGrows
<1>7. \A a \in CO!After(s) : a \in done \/ (a # 0 /\ Rests(B, H, s, a))
  BY <1>0, AfterRests
<1>8. WaitedKept(str') /\ OpenAlone(str') /\ HostFences(str')
  BY <1>1, <1>2, AppendedStays DEF InOrder
<1>9. ListsOrdered(B, H, log, done) /\ JoinsQueued(O, joins, done)
  BY <1>1 DEF InOrder
<1>10. \A j \in 1..r : DOMAIN B[s][j] \subseteq Nat
  BY <1>1, ListTypes
<1>a. /\ str'[s].pending = O[s].pending /\ str'[s].state = O[s].state
  BY <1>2 DEF Appended
<1> HIDE DEF o, B, C, H, G, r, n
<1>11. HandlersStay(H, G, done)
  BY <1>3, StayRefl
<1>12. ItemOrdered(C, G, s, r, n + 1, log', done)
  <2>1. C[s][r][n + 1].op = o
    BY <1>2, <1>3
  <2>2. ASSUME NEW a \in log'[o].after, a \notin done PROVE Before(C, G, s, r, n + 1, a)
    <3>1. a # 0 /\ Rests(B, H, s, a)
      BY <1>6, <1>7, <2>2
    <3>2. Before(B, H, s, r, n + 1, a)
      BY <1>3, <1>10, <3>1, RestsBefore
    <3> QED BY <1>4, <1>11, <2>2, <3>1, <3>2, BeforeStays
  <2> QED BY <1>6, <2>1, <2>2 DEF ItemOrdered
<1>13. ListsOrdered(C, G, log', done)
  <2>1. ASSUME NEW p \in Streams, NEW i \in DOMAIN C[p], NEW m \in DOMAIN C[p][i]
        PROVE  (i \in DOMAIN B[p] /\ m \in DOMAIN B[p][i]) \/ ItemOrdered(C, G, p, i, m, log', done)
    <3>1. CASE p # s
      BY <1>3, <3>1
    <3>2. CASE p = s /\ i # r
      <4>1. i \in 1..(r - 1)
        BY <1>3, <3>2
      <4> QED BY <1>3, <3>2, <4>1
    <3>3. CASE p = s /\ i = r
      <4>1. m \in 1..n \/ m = n + 1
        BY <1>3, <3>3
      <4> QED BY <1>3, <1>12, <3>3, <4>1
    <3> QED BY <3>1, <3>2, <3>3
  <2>2. ASSUME NEW p \in Streams, NEW i \in DOMAIN G[p]
        PROVE  (i \in DOMAIN H[p] /\ G[p][i] = H[p][i]) \/ HandlerOrdered(C, G, p, i, log', done)
    BY <1>3
  <2> QED BY <1>0, <1>4, <1>6, <1>9, <1>11, <2>1, <2>2, ListsStay DEF Positive
<1>14. JoinsQueued(str', joins', done)
  <2> SUFFICES ASSUME NEW p \in Streams, str'[p].state = "live", NEW a \in joins'[p], a \notin done
               PROVE  Joined(str', C, G, p, a)
    BY DEF JoinsQueued, C, G
  <2>1. p # s /\ a \in joins[p]
    BY <1>0, <1>5 DEF IInv, Hist_OK
  <2>2. a # 0 /\ Joined(O, B, H, p, a) /\ str'[p] = O[p]
    BY <1>0, <1>2, <1>9, <2>1 DEF Positive, JoinsQueued, B, H
  <2> QED BY <1>4, <1>11, <2>2, JoinedStays
<1>15. HostFences(str)'
  BY <1>5, <1>8 DEF HostFences
<1> QED BY <1>5, <1>8, <1>13, <1>14, <1>15 DEF InOrder, C, G

LEMMA LaunchHostFuncInOrder ==
  ASSUME OInv, ~WaitsVisible, NEW s \in Streams, LaunchHostFunc(s)
  PROVE  InOrder(str)'
<1> DEFINE O == Open(str, s)
           o == CO!NewOp
           h == [op |-> o, value |-> str[s].hostValue + 1]
           w == <<Host(s), h.value>>
           B == BufsOf(O)
           C == BufsOf(str')
           H == HndsOf(O)
           G == HndsOf(str')
           r == Reach(O[s])
           n == Len(B[s][r])
<1>0. /\ EInv /\ IInv /\ Positive /\ Good(str) /\ signal \in [Fence -> Nat] /\ Chained(BufsOf(str))
      /\ str[s].state = "live" /\ InOrder(str)
  BY DEF OInv, EInv, IInv, LaunchHostFunc, On
<1>1. Good(O) /\ O[s].open /\ InOrder(O) /\ Chained(B)
  BY <1>0, OpenGood, OpenInOrder, OpenLonger DEF Longer
<1>2. /\ h \in Handler /\ Handed(O[s], str'[s], h) /\ h.op = o
      /\ str'[s].pending = O[s].pending \cup {w}
      /\ \A p \in Streams \ {s} : str'[p] = O[p]
      /\ Longer(O, str')
  BY <1>0, LaunchHostFuncView
<1>3. h.value = O[s].hostValue + 1
  <2>1. O = str \/ \E first : Opened(str, O, s, first)
    BY <1>0, OpenView
  <2> QED BY <2>1 DEF Opened
<1> HIDE DEF h
<1>4. /\ r \in Nat \ {0} /\ DOMAIN B[s] = 1..r /\ DOMAIN H[s] = 1..r /\ H[s][r] = NoHandler
      /\ \A j \in 1..r : B[s][j] \in Seq(Item) /\ DOMAIN B[s][j] \subseteq Nat
  BY <1>1, ListTypes
<1>5. C = B /\ G[s] = [H[s] EXCEPT ![r] = h] /\ \A p \in Streams \ {s} : G[p] = H[p]
  <2>1. Bufs(str'[s]) = Bufs(O[s]) /\ Hnds(str'[s]) = [Hnds(O[s]) EXCEPT ![r] = h]
    BY <1>2 DEF Handed
  <2> QED BY <1>2, <2>1 DEF BufsOf, HndsOf
<1>6. CO!Logged(s) /\ joins' = [joins EXCEPT ![s] = @ \cup {o}] /\ UNCHANGED <<signal, done>>
  BY DEF LaunchHostFunc, CO!IssueHost
<1>7. Prefix(log, log') /\ o \in DOMAIN log' /\ log'[o].after = CO!After(s) /\ o # 0
  BY <1>0, <1>6, LogGrows, NewOpType
<1>8. \A a \in CO!After(s) : a \in done \/ (a # 0 /\ Rests(B, H, s, a))
  BY <1>0, AfterRests
<1>9. ListsOrdered(B, H, log, done) /\ JoinsQueued(O, joins, done) /\ WaitedKept(O) /\ OpenAlone(O) /\ HostFences(O)
  BY <1>1 DEF InOrder
<1>a. /\ ~str'[s].open /\ str'[s].state = O[s].state /\ str'[s].nonBlocking = O[s].nonBlocking
      /\ str'[s].waited = O[s].waited
  BY <1>2 DEF Handed
<1>b. \A p \in Streams : O[p].pending \subseteq str'[p].pending /\ str'[p].state = O[p].state
                         /\ str'[p].waited = O[p].waited
  BY <1>2, <1>a
<1>10. WaitedKept(str') /\ OpenAlone(str')
  BY <1>1, <1>2, <1>9, <1>a, <1>b, WaitedStays, OpenStays DEF Longer
<1>11. HostFences(str')
  <2>1. signal[Host(s)] \in Nat
    BY <1>0, FenceTypes
  <2>2. HostFence(s, O[s], signal[Host(s)]) /\ O[s] \in Stream /\ Own(O[s])
    BY <1>1, <1>9 DEF HostFences, Good
  <2>3. HostFence(s, str'[s], signal[Host(s)])
    BY <1>1, <1>2, <1>3, <2>1, <2>2, HandedFence
  <2> QED BY <1>2, <1>9, <2>3 DEF HostFences
<1>12. n \in Nat /\ DOMAIN B[s][r] = 1..n
  BY <1>4
<1>d. w[1] = Host(s) /\ w[2] = h.value /\ w \in str'[s].pending
  BY <1>2
<1> HIDE DEF O, o, B, C, H, G, r, n, w
<1>c. /\ DOMAIN G[s] = 1..r /\ G[s][r] = h /\ r \in 1..r /\ \A i \in 1..r : i # r => G[s][i] = H[s][i]
  BY <1>4, <1>5
<1>13. HandlersStay(H, G, done)
  <2> SUFFICES ASSUME NEW p \in Streams, NEW i \in DOMAIN H[p], H[p][i].op # 0
               PROVE  i \in DOMAIN G[p] /\ G[p][i] = H[p][i]
    BY DEF HandlersStay
  <2>1. CASE p # s
    BY <1>5, <2>1
  <2>2. CASE p = s
    <3>1. i \in 1..r /\ H[s][i].op # 0
      BY <1>4, <2>2
    <3>2. i # r
      BY <1>4, <3>1 DEF NoHandler
    <3> QED BY <1>c, <2>2, <3>1, <3>2
  <2> QED BY <2>1, <2>2
<1>14. Ext(B, C)
  BY <1>5, ExtRefl
<1>15. HandlerOrdered(C, G, s, r, log', done)
  <2>1. ASSUME NEW a \in log'[o].after, a \notin done PROVE Before(C, G, s, r + 1, 0, a)
    <3>1. a # 0 /\ Rests(B, H, s, a)
      BY <1>7, <1>8, <2>1
    <3>2. Before(B, H, s, r + 1, 0, a)
      BY <1>4, <1>12, <3>1, RestsBefore
    <3> QED BY <1>13, <1>14, <2>1, <3>1, <3>2, BeforeStays
  <2> QED BY <1>2, <1>7, <1>c, <2>1 DEF HandlerOrdered
<1>16. ListsOrdered(C, G, log', done)
  <2>1. ASSUME NEW p \in Streams, NEW i \in DOMAIN C[p], NEW m \in DOMAIN C[p][i]
        PROVE  (i \in DOMAIN B[p] /\ m \in DOMAIN B[p][i]) \/ ItemOrdered(C, G, p, i, m, log', done)
    BY <1>5
  <2>2. ASSUME NEW p \in Streams, NEW i \in DOMAIN G[p]
        PROVE  (i \in DOMAIN H[p] /\ G[p][i] = H[p][i]) \/ HandlerOrdered(C, G, p, i, log', done)
    BY <1>4, <1>5, <1>15, <1>c
  <2> QED BY <1>0, <1>7, <1>9, <1>13, <1>14, <2>1, <2>2, ListsStay DEF Positive
<1>17. JoinsQueued(str', joins', done)
  <2> SUFFICES ASSUME NEW p \in Streams, str'[p].state = "live", NEW a \in joins'[p], a \notin done
               PROVE  Joined(str', C, G, p, a)
    BY DEF JoinsQueued, C, G
  <2>1. CASE a \in joins[p]
    <3>1. a # 0 /\ Joined(O, B, H, p, a)
      BY <1>0, <1>9, <1>b, <2>1 DEF Positive, JoinsQueued, B, H
    <3> QED BY <1>13, <1>14, <1>b, <3>1, JoinedStays
  <2>2. CASE p = s /\ a = o
    <3>1. h.value \in Nat
      BY <1>2 DEF Handler
    <3>2. Handled(G, s, h.value, o)
      BY <1>2, <1>c, <3>1 DEF Handled
    <3>3. Behind(C, G, w, o)
      BY <1>d, <3>2 DEF Behind
    <3> QED BY <1>d, <2>2, <3>3 DEF Joined
  <2>3. a \in joins[p] \/ (p = s /\ a = o)
    BY <1>0, <1>6 DEF IInv, Hist_OK
  <2> QED BY <2>1, <2>2, <2>3
<1>18. HostFences(str)'
  BY <1>6, <1>11 DEF HostFences
<1> QED BY <1>6, <1>10, <1>16, <1>17, <1>18 DEF InOrder, C, G

-----------------------------------------------------------------------------
(* The other calls *)

(* What is marked is in the buffers the event stands for. *)
LEMMA MarkBehind ==
  ASSUME EInv, NEW e \in Events, NEW a \in mark[e], a \notin done, NEW C, Ext(BufsOf(str), C)
  PROVE  ev[e].recorded /\ ev[e].stream \in Streams /\ Holds(C, ev[e].stream, ev[e].value, a)
<1>1. ev[e].recorded /\ Holds(BufsOf(str), ev[e].stream, ev[e].value, a)
  BY DEF EInv, MarkHeld
<1>2. ev[e].stream \in Streams
  BY EventStream DEF EInv
<1> QED BY <1>1, <1>2, HoldsExt

(* A wait is added to the open buffer, or to those of the next one. *)
LEMMA StreamWaitEventInOrder ==
  ASSUME OInv, NEW s \in Streams, NEW e \in Events, StreamWaitEvent(s, e)
  PROVE  InOrder(str)'
<1> DEFINE F == FlushEvent(str, e)
           w == <<Dev(ev[e].stream), ev[e].value>>
           item == WaitItem({w})
           B == BufsOf(F)
           C == BufsOf(str')
           H == HndsOf(F)
           G == HndsOf(str')
<1>0. EInv /\ IInv /\ Positive /\ InOrder(str) /\ Good(str) /\ Chained(BufsOf(str))
  BY DEF OInv, EInv, IInv
<1>1. /\ Longer(str, F) /\ Longer(F, str') /\ Longer(str, str') /\ G = H
      /\ Good(F) /\ item \in Item /\ item.waits = {w} /\ item.op = 0
      /\ \/ (~ev[e].recorded \/ ev[e].stream = s) /\ str' = F
         \/ /\ ev[e].recorded /\ F[s].open
            /\ Appended(F[s], str'[s], item)
            /\ str' = [F EXCEPT ![s] = Encode(F[s], item)]
         \/ /\ ev[e].recorded /\ ~F[s].open
            /\ str' = [F EXCEPT ![s] = [F[s] EXCEPT !.pending = @ \cup {w}]]
  BY <1>0, WaitEventView
<1>2. InOrder(F)
  BY <1>0, FlushEventIsSet, CommitSetInOrder
<1>3. ListsOrdered(B, H, log, done) /\ JoinsQueued(F, joins, done) /\ WaitedKept(F) /\ OpenAlone(F)
      /\ HostFences(F)
  BY <1>2 DEF InOrder
<1>4. Ext(B, C) /\ Ext(BufsOf(str), C) /\ Chained(B)
  BY <1>0, <1>1 DEF Longer
<1>5. joins' = [joins EXCEPT ![s] = @ \cup mark[e]] /\ UNCHANGED <<signal, done, log>>
  BY DEF StreamWaitEvent, CO!Wait
<1>6. HandlersStay(H, G, done)
  BY <1>1, StayRefl
<1>7. \A a \in mark[e] : a \in done \/ (a # 0 /\ ev[e].recorded /\ ev[e].stream \in Streams
                                        /\ Holds(C, ev[e].stream, ev[e].value, a))
  BY <1>0, <1>4, MarkBehind DEF Positive
<1>8. w[1] = Dev(ev[e].stream) /\ w[2] = ev[e].value
  OBVIOUS
<1>9. F \in [Streams -> Stream]
  BY <1>1 DEF Good
<1>10. \A a \in mark[e] : a \in done \/ Behind(C, G, w, a)
  BY <1>7, <1>8 DEF Behind
<1> DEFINE Goal == /\ ListsOrdered(C, G, log, done)
                   /\ \A a \in mark[e] : a \in done \/ Joined(str', C, G, s, a)
                   /\ \A p \in Streams : F[p].pending \subseteq str'[p].pending /\ str'[p].state = F[p].state
                   /\ WaitedKept(str') /\ OpenAlone(str') /\ HostFences(str')
<1>11. ASSUME ~ev[e].recorded \/ ev[e].stream = s, str' = F PROVE Goal
  <2>1. \A a \in mark[e] : a \in done \/ Joined(str', C, G, s, a)
    <3> HIDE DEF C, G
    <3> QED BY <1>7, <1>11 DEF Holds, InBuf, Rests, Joined
  <2> QED BY <1>3, <1>11, <2>1
<1>12. ASSUME ev[e].recorded, F[s].open, Appended(F[s], str'[s], item),
              str' = [F EXCEPT ![s] = Encode(F[s], item)]
       PROVE  Goal
  <2> DEFINE r == Reach(F[s])
             n == Len(B[s][r])
  <2>1. \A p \in Streams \ {s} : str'[p] = F[p]
    <3> HIDE DEF F, item, w
    <3> QED BY <1>9, <1>12
  <2>2. /\ r \in Nat \ {0} /\ DOMAIN B[s] = 1..r /\ DOMAIN C[s] = 1..r
        /\ \A p \in Streams \ {s} : C[p] = B[p]
        /\ \A i \in 1..(r - 1) : C[s][i] = B[s][i]
        /\ n \in Nat /\ DOMAIN B[s][r] = 1..n /\ DOMAIN C[s][r] = 1..(n + 1)
        /\ \A m \in 1..n : C[s][r][m] = B[s][r][m]
        /\ C[s][r][n + 1] = item
    <3>1. r = Reach(F[s]) /\ n = Len(B[s][r]) /\ B = BufsOf(F) /\ C = BufsOf(str')
      OBVIOUS
    <3>2. Good(F) /\ item \in Item /\ F[s].open /\ Appended(F[s], str'[s], item)
      BY <1>1, <1>12
    <3> HIDE DEF F, item, w, B, C, r, n
    <3> QED BY <2>1, <3>1, <3>2, AppendedBufs
  <2>3. WaitedKept(str') /\ OpenAlone(str') /\ HostFences(str')
    <3>1. /\ WaitedKept(F) /\ OpenAlone(F) /\ HostFences(F)
          /\ Good(F) /\ item \in Item /\ F[s].open /\ Appended(F[s], str'[s], item)
          /\ Chained(BufsOf(F))
      BY <1>1, <1>3, <1>4, <1>12
    <3> HIDE DEF F, item, w
    <3> QED BY <2>1, <3>1, AppendedStays
  <2>4. str'[s].pending = F[s].pending /\ str'[s].state = F[s].state
    BY <1>12 DEF Appended
  <2> HIDE DEF r, n, B, C, G, H, F, item, w
  <2>5. ListsOrdered(C, G, log, done)
    <3>1. ASSUME NEW p \in Streams, NEW i \in DOMAIN C[p], NEW m \in DOMAIN C[p][i]
          PROVE  (i \in DOMAIN B[p] /\ m \in DOMAIN B[p][i]) \/ ItemOrdered(C, G, p, i, m, log, done)
      <4>1. CASE p # s
        BY <2>2, <4>1
      <4>2. CASE p = s /\ i # r
        <5>1. i \in 1..(r - 1)
          BY <2>2, <4>2
        <5> QED BY <2>2, <4>2, <5>1
      <4>3. CASE p = s /\ i = r
        <5>1. m \in 1..n \/ m = n + 1
          BY <2>2, <4>3
        <5> QED BY <1>1, <2>2, <4>3, <5>1 DEF ItemOrdered
      <4> QED BY <4>1, <4>2, <4>3
    <3>2. ASSUME NEW p \in Streams, NEW i \in DOMAIN G[p]
          PROVE  (i \in DOMAIN H[p] /\ G[p][i] = H[p][i]) \/ HandlerOrdered(C, G, p, i, log, done)
      BY <1>1
    <3> QED BY <1>0, <1>3, <1>4, <1>6, <3>1, <3>2, PrefixRefl, ListsStay DEF Positive
  <2>6. \A a \in mark[e] : a \in done \/ Joined(str', C, G, s, a)
    <3> SUFFICES ASSUME NEW a \in mark[e], a \notin done PROVE Joined(str', C, G, s, a)
      OBVIOUS
    <3>1. WaitsFor(C, G, C[s][r][n + 1], a)
      BY <1>1, <1>10, <2>2 DEF WaitsFor
    <3>2. r \in DOMAIN C[s] /\ n + 1 \in DOMAIN C[s][r]
      BY <2>2
    <3> QED BY <3>1, <3>2 DEF Rests, Joined
  <2> QED BY <2>1, <2>3, <2>4, <2>5, <2>6
<1>13. ASSUME ev[e].recorded, ~F[s].open,
              str' = [F EXCEPT ![s] = [F[s] EXCEPT !.pending = @ \cup {w}]]
       PROVE  Goal
  <2> DEFINE c == [F[s] EXCEPT !.pending = @ \cup {w}]
  <2> HIDE DEF F, w
  <2>1. F[s] \in Stream
    BY <1>9
  <2>2. /\ c.open = F[s].open /\ c.state = F[s].state /\ c.nonBlocking = F[s].nonBlocking
        /\ c.waited = F[s].waited /\ c.hostValue = F[s].hostValue /\ c.fenceValue = F[s].fenceValue
        /\ c.sent = F[s].sent /\ c.body = F[s].body /\ c.pending = F[s].pending \cup {w}
    BY <2>1 DEF Stream
  <2>3. str'[s] = c /\ \A p \in Streams \ {s} : str'[p] = F[p]
    BY <1>9, <1>13
  <2> HIDE DEF c
  <2>4. Bufs(c) = Bufs(F[s]) /\ Hnds(c) = Hnds(F[s])
    BY <2>2 DEF Bufs, Hnds, Reach
  <2>5. C = B
    BY <2>3, <2>4 DEF BufsOf
  <2>6. WaitedKept(str')
    BY <1>3, <1>4, <2>2, <2>3, WaitedStays
  <2>7. HostFences(str')
    <3>1. HostFence(s, c, signal[Host(s)])
      BY <1>3, <2>2, <2>4, HostFenceSame DEF HostFences
    <3> QED BY <1>3, <2>3, <3>1 DEF HostFences
  <2>8. OpenAlone(str')
    <3>1. \A p \in Streams : /\ str'[p].state = F[p].state /\ str'[p].nonBlocking = F[p].nonBlocking
                             /\ str'[p].open = F[p].open /\ str'[p].fenceValue = F[p].fenceValue
                             /\ str'[p].waited = F[p].waited
                             /\ str'[p].open => str'[p].pending = F[p].pending
      BY <1>13, <2>2, <2>3
    <3>2. \A p \in Streams : LegacyPeers(str', p) = LegacyPeers(F, p) /\ LegacyPeers(F, p) \subseteq Streams
      BY <3>1, SamePeers
    <3> QED BY <1>3, <3>1, <3>2 DEF OpenAlone
  <2>9. \A a \in mark[e] : a \in done \/ Joined(str', C, G, s, a)
    BY <1>10, <2>2, <2>3 DEF Joined
  <2>10. \A p \in Streams : F[p].pending \subseteq str'[p].pending /\ str'[p].state = F[p].state
    BY <2>2, <2>3
  <2> QED BY <1>1, <1>3, <2>5, <2>6, <2>7, <2>8, <2>9, <2>10
<1>14. Goal
  BY <1>1, <1>11, <1>12, <1>13
<1> HIDE DEF F, w, item, C, G, B, H
<1>15. JoinsQueued(str', joins', done)
  <2> SUFFICES ASSUME NEW p \in Streams, str'[p].state = "live", NEW a \in joins'[p], a \notin done
               PROVE  Joined(str', C, G, p, a)
    BY DEF JoinsQueued, C, G
  <2>1. CASE a \in joins[p]
    <3>1. a # 0 /\ Joined(F, B, H, p, a)
      BY <1>0, <1>3, <1>14, <2>1 DEF Positive, JoinsQueued, B, H
    <3> QED BY <1>4, <1>6, <1>14, <3>1, JoinedStays
  <2>2. a \in joins[p] \/ (p = s /\ a \in mark[e])
    BY <1>0, <1>5 DEF IInv, Hist_OK
  <2> QED BY <1>14, <2>1, <2>2
<1>16. HostFences(str)'
  BY <1>5, <1>14 DEF HostFences
<1> QED BY <1>5, <1>14, <1>15, <1>16 DEF InOrder, C, G

LEMMA CreateInOrder ==
  ASSUME OInv, NEW s \in Streams, NEW nb \in BOOLEAN, CreateStream(s, nb)
  PROVE  InOrder(str)'
<1> DEFINE st == NewStream("live", nb)
<1>0. EInv /\ IInv /\ Good(str) /\ Unused /\ InOrder(str)
  BY DEF OInv, EInv, IInv
<1>1. /\ HndsOf(str') = HndsOf(str) /\ str' = [str EXCEPT ![s] = st]
      /\ Longer(str, str')
  BY <1>0, CreateLonger
<1>2. BufsOf(str') = BufsOf(str)
  <2>1. str \in [Streams -> Stream] /\ Reach(str[s]) = 0
    BY <1>0, CreateLonger DEF Good
  <2>2. Reach(st) = 0
    BY NewStreamFacts
  <2>3. Bufs(st) = Bufs(str[s])
    BY <2>1, <2>2 DEF Bufs
  <2> QED BY <1>1, <2>1, <2>3 DEF BufsOf
<1>3. /\ st.state = "live" /\ st.pending = {} /\ ~st.open /\ st.hostValue = 0 /\ st.fenceValue = 0
      /\ st.waited = [p \in Streams |-> 0]
  BY DEF NewStream
<1> HIDE DEF st
<1>4. str'[s] = st /\ \A p \in Streams \ {s} : str'[p] = str[p]
  BY <1>0, <1>1 DEF Good
<1>5. str[s].state = "new" /\ joins[s] = {} /\ str[s].hostValue = 0 /\ UNCHANGED <<log, joins, done, signal>>
  BY <1>0 DEF CreateStream, Unused, Good, Own, hist
<1>6. ListsOrdered(BufsOf(str'), HndsOf(str'), log, done)
  BY <1>0, <1>1, <1>2 DEF InOrder
<1>7. JoinsQueued(str', joins, done)
  <2>1. \A p \in Streams : joins[p] # {} => p # s
    BY <1>5
  <2> QED BY <1>0, <1>1, <1>2, <1>4, <2>1 DEF InOrder, JoinsQueued, Joined
<1>8. WaitedKept(str')
  <2> SUFFICES ASSUME NEW q \in Streams, NEW p \in Streams, str'[q].waited[p] # 0
               PROVE  Awaits(BufsOf(str')[q], Dev(p), str'[q].waited[p])
    BY DEF WaitedKept, BufsOf
  <2>1. q # s
    BY <1>3, <1>4
  <2>2. Awaits(BufsOf(str)[q], Dev(p), str[q].waited[p])
    BY <1>0, <1>4, <2>1 DEF InOrder, WaitedKept, BufsOf
  <2> QED BY <1>2, <1>4, <2>1, <2>2
<1>9. OpenAlone(str')
  <2> SUFFICES ASSUME NEW q \in Streams, str'[q].open
               PROVE  /\ str'[q].pending = {}
                      /\ \A p \in LegacyPeers(str', q) : ~str'[p].open /\ str'[p].fenceValue <= str'[q].waited[p]
    BY DEF OpenAlone
  <2>1. q # s /\ str'[q] = str[q]
    BY <1>3, <1>4
  <2>2. /\ str[q].pending = {}
        /\ \A p \in LegacyPeers(str, q) : ~str[p].open /\ str[p].fenceValue <= str[q].waited[p]
    BY <1>0, <2>1 DEF InOrder, OpenAlone
  <2>3. \A p \in LegacyPeers(str', q) : p \in LegacyPeers(str, q) \/ p = s
    BY <1>4, <2>1 DEF LegacyPeers, LiveStreams
  <2>4. s \notin LegacyPeers(str, q)
    <3>1. s # Legacy
      BY <1>0, <1>5 DEF Good
    <3> QED BY <1>5, <3>1 DEF LegacyPeers, LiveStreams
  <2>5. str[q].waited[s] \in Nat
    BY <1>0, StreamFields DEF Good
  <2>6. LegacyPeers(str, q) \subseteq Streams
    BY SamePeers
  <2> QED BY <1>3, <1>4, <2>1, <2>2, <2>3, <2>4, <2>5, <2>6
<1>10. HostFences(str')
  <2>1. HostFence(s, st, signal[Host(s)])
    <3>1. signal[Host(s)] <= 0
      BY <1>0, <1>5 DEF InOrder, HostFences, HostFence
    <3>2. DOMAIN Hnds(st) = {}
      BY NewStreamFacts DEF Hnds, st
    <3> QED BY <1>3, <3>1, <3>2 DEF HostFence
  <2> QED BY <1>0, <1>4, <2>1 DEF InOrder, HostFences
<1>11. HostFences(str)'
  BY <1>5, <1>10 DEF HostFences
<1> QED BY <1>5, <1>6, <1>7, <1>8, <1>9, <1>11 DEF InOrder

LEMMA DestroyInOrder ==
  ASSUME OInv, NEW s \in Streams, DestroyStream(s)
  PROVE  InOrder(str)'
<1>0. EInv /\ IInv /\ Good(str) /\ InOrder(str)
  BY DEF OInv, EInv, IInv
<1>1. PICK d : /\ str' = [str EXCEPT ![s] = d] /\ d.state = "gone" /\ ~d.open
               /\ d.pending = {} /\ d.waited = str[s].waited /\ d.hostValue = str[s].hostValue
  BY <1>0, DestroyLonger
<1>2. HndsOf(str') = HndsOf(str) /\ Longer(str, str')
  BY <1>0, DestroyLonger
<1>3. str'[s] = d /\ \A p \in Streams \ {s} : str'[p] = str[p]
  BY <1>0, <1>1 DEF Good
<1>4. Bufs(d) = Bufs(str[s]) /\ Hnds(d) = Hnds(str[s])
  <2> DEFINE c == CommitWith(str[s], NoHandler)
             x == [c EXCEPT !.state = "gone", !.retired = {}, !.pending = {}]
  <2>1. str[s] \in Stream /\ Own(str[s])
    BY <1>0 DEF Good
  <2>2. d = x
    <3>1. str' = [str EXCEPT ![s] = x]
      BY <1>0 DEF DestroyStream, Commit, Good
    <3> QED BY <1>0, <1>3, <3>1 DEF Good
  <2>3. c \in Stream /\ Bufs(c) = Bufs(str[s]) /\ Hnds(c) = Hnds(str[s])
    BY <1>0, <2>1, CommitType, CommitView, NoHandlerType
  <2> HIDE DEF c
  <2>4. x.open = c.open /\ x.sent = c.sent /\ x.body = c.body /\ x.fenceValue = c.fenceValue
    BY <2>3 DEF Stream
  <2> QED BY <2>2, <2>3, <2>4 DEF Bufs, Hnds, Reach
<1>5. BufsOf(str') = BufsOf(str)
  BY <1>3, <1>4 DEF BufsOf
<1>6. UNCHANGED <<log, joins, done, signal>>
  BY DEF DestroyStream, hist
<1>7. ListsOrdered(BufsOf(str'), HndsOf(str'), log, done)
  BY <1>0, <1>2, <1>5 DEF InOrder
<1>8. JoinsQueued(str', joins, done)
  <2>1. \A p \in Streams : str'[p].state = "live" => p # s /\ str'[p] = str[p]
    BY <1>1, <1>3
  <2> QED BY <1>0, <1>2, <1>5, <2>1 DEF InOrder, JoinsQueued, Joined
<1>9. WaitedKept(str')
  BY <1>0, <1>1, <1>2, <1>3, WaitedStays DEF InOrder, Longer
<1>10. OpenAlone(str')
  <2> SUFFICES ASSUME NEW q \in Streams, str'[q].open
               PROVE  /\ str'[q].pending = {}
                      /\ \A p \in LegacyPeers(str', q) : ~str'[p].open /\ str'[p].fenceValue <= str'[q].waited[p]
    BY DEF OpenAlone
  <2>1. q # s /\ str'[q] = str[q]
    BY <1>1, <1>3
  <2>2. /\ str[q].pending = {}
        /\ \A p \in LegacyPeers(str, q) : ~str[p].open /\ str[p].fenceValue <= str[q].waited[p]
    BY <1>0, <2>1 DEF InOrder, OpenAlone
  <2>3. \A p \in LegacyPeers(str', q) : p \in LegacyPeers(str, q) /\ p \in Streams \ {s}
    BY <1>1, <1>3, <2>1, StreamsAssumption DEF LegacyPeers, LiveStreams, DestroyStream
  <2> QED BY <1>3, <2>1, <2>2, <2>3
<1>11. HostFences(str')
  <2>1. HostFence(s, d, signal[Host(s)])
    BY <1>0, <1>1, <1>4, HostFenceSame DEF InOrder, HostFences
  <2> QED BY <1>0, <1>3, <2>1 DEF InOrder, HostFences
<1>12. HostFences(str)'
  BY <1>6, <1>11 DEF HostFences
<1> QED BY <1>6, <1>7, <1>8, <1>9, <1>10, <1>12 DEF InOrder

(* Calls that commit, and no more. *)
LEMMA CommittedInOrder ==
  ASSUME OInv, NEW T, T = str \/ \E e \in Events : T = FlushEvent(str, e),
         \E S : str' = CommitSet(T, S), UNCHANGED <<signal, log, joins, done>>
  PROVE  InOrder(str)'
<1>0. IInv /\ InOrder(str) /\ Good(str)
  BY DEF OInv, EInv, IInv
<1>1. InOrder(T) /\ Good(T)
  BY <1>0, FlushEventIsSet, FlushEventGood, CommitSetInOrder
<1>2. InOrder(str')
  BY <1>1, CommitSetInOrder
<1> QED BY <1>2 DEF InOrder, HostFences

-----------------------------------------------------------------------------
(* The GPU and the completion handlers *)

(* A step of the GPU leaves the lists alone; a handler that has run is     *)
(* taken off.                                                              *)
LEMMA GpuInOrder ==
  ASSUME OInv, NEW s, NEW i, NEW b, Replaced(s, i, b), BufsOf(str') = BufsOf(str),
         UNCHANGED <<log, joins>>, done \subseteq done',
         HandlersStay(HndsOf(str), HndsOf(str'), done'),
         \A p \in Streams : \A j \in DOMAIN HndsOf(str')[p] :
           \/ j \in DOMAIN HndsOf(str)[p] /\ HndsOf(str')[p][j] = HndsOf(str)[p][j]
           \/ HndsOf(str')[p][j].op = 0,
         HostFences(str)'
  PROVE  InOrder(str)'
<1> DEFINE B == BufsOf(str)
           H == HndsOf(str)
           G == HndsOf(str')
           D == done'
<1>0. EInv /\ IInv /\ Positive /\ InOrder(str)
  BY DEF OInv, EInv
<1>1. Ext(B, B) /\ Prefix(log, log)
  BY ExtRefl, PrefixRefl
<1>2. \A p \in Streams : /\ str'[p].state = str[p].state /\ str'[p].nonBlocking = str[p].nonBlocking
                         /\ str'[p].open = str[p].open /\ str'[p].fenceValue = str[p].fenceValue
                         /\ str'[p].pending = str[p].pending /\ str'[p].waited = str[p].waited
  BY DEF Replaced
<1>3. ListsOrdered(B, H, log, done) /\ JoinsQueued(str, joins, done) /\ WaitedKept(str) /\ OpenAlone(str)
  BY <1>0 DEF InOrder
<1>4. \A p \in Streams : \A j \in DOMAIN G[p] : (j \in DOMAIN H[p] /\ G[p][j] = H[p][j]) \/ G[p][j].op = 0
  OBVIOUS
<1>5. HandlersStay(H, G, D) /\ done \subseteq D
  OBVIOUS
<1>6. WaitedKept(str')
  BY <1>1, <1>2, <1>3, WaitedStays
<1>7. OpenAlone(str')
  <2> SUFFICES ASSUME NEW q \in Streams, str'[q].open
               PROVE  /\ str'[q].pending = {}
                      /\ \A p \in LegacyPeers(str', q) : ~str'[p].open /\ str'[p].fenceValue <= str'[q].waited[p]
    BY DEF OpenAlone
  <2>1. LegacyPeers(str', q) = LegacyPeers(str, q) /\ LegacyPeers(str, q) \subseteq Streams
    BY <1>2, SamePeers
  <2>2. /\ str[q].pending = {}
        /\ \A p \in LegacyPeers(str, q) : ~str[p].open /\ str[p].fenceValue <= str[q].waited[p]
    BY <1>2, <1>3 DEF OpenAlone
  <2> QED BY <1>2, <2>1, <2>2
<1> HIDE DEF B, H, G, D
<1>8. ListsOrdered(B, G, log, D)
  <2>1. \A p \in Streams : \A j \in DOMAIN B[p] : \A m \in DOMAIN B[p][j] :
          (j \in DOMAIN B[p] /\ m \in DOMAIN B[p][j]) \/ ItemOrdered(B, G, p, j, m, log, D)
    OBVIOUS
  <2>2. \A p \in Streams : \A j \in DOMAIN G[p] :
          (j \in DOMAIN H[p] /\ G[p][j] = H[p][j]) \/ HandlerOrdered(B, G, p, j, log, D)
    BY <1>4 DEF HandlerOrdered
  <2>3. \A o \in DOMAIN log : 0 \notin log[o].after
    BY <1>0 DEF Positive
  <2> QED BY <1>1, <1>3, <1>5, <2>1, <2>2, <2>3, ListsStay
<1>9. JoinsQueued(str', joins, D)
  <2> SUFFICES ASSUME NEW p \in Streams, str'[p].state = "live", NEW a \in joins[p], a \notin D
               PROVE  Joined(str', BufsOf(str'), HndsOf(str'), p, a)
    BY DEF JoinsQueued
  <2>1. a # 0 /\ Joined(str, B, H, p, a)
    BY <1>0, <1>2, <1>3, <1>5 DEF Positive, JoinsQueued, B, H
  <2>2. Joined(str', B, G, p, a)
    BY <1>1, <1>2, <1>5, <2>1, JoinedStays
  <2> QED BY <2>2 DEF B, G
<1> QED BY <1>6, <1>7, <1>8, <1>9 DEF InOrder, B, G, D

(* The host fences are left alone with the lists. *)
LEMMA GpuHostFences ==
  ASSUME OInv, NEW s, NEW i, NEW b, Replaced(s, i, b), BufsOf(str') = BufsOf(str), NEW p \in Streams,
         HndsOf(str')[p] = HndsOf(str)[p], signal'[Host(p)] = signal[Host(p)]
  PROVE  HostFence(p, str'[p], signal'[Host(p)])
<1>1. HostFence(p, str[p], signal[Host(p)])
  BY DEF OInv, InOrder, HostFences
<1>2. BufsOf(str')[p] = BufsOf(str)[p]
  OBVIOUS
<1>3. Bufs(str'[p]) = Bufs(str[p]) /\ Hnds(str'[p]) = Hnds(str[p])
  BY <1>2 DEF BufsOf, HndsOf
<1>4. str'[p].hostValue = str[p].hostValue /\ str'[p].state = str[p].state /\ str'[p].pending = str[p].pending
  BY DEF Replaced
<1> QED BY <1>1, <1>3, <1>4, HostFenceSame

(* Any step of the GPU but a handler's. *)
LEMMA GpuQuietInOrder ==
  ASSUME OInv, NEW s \in Streams, NEW i \in Buffers(s), NEW b \in CmdBuf,
         b.body = str[s].sent[i].body, b.handler = str[s].sent[i].handler,
         str' = [str EXCEPT ![s] = [str[s] EXCEPT !.sent = [str[s].sent EXCEPT ![i] = b]]],
         UNCHANGED <<log, joins>>, done \subseteq done',
         \A p \in Streams : signal'[Host(p)] = signal[Host(p)]
  PROVE  InOrder(str)'
<1>1. BufsOf(str') = BufsOf(str) /\ Replaced(s, i, b) /\ HndsOf(str') = HndsOf(str)
  BY BufferView DEF OInv, EInv
<1>2. \A p \in Streams : HndsOf(str')[p] = HndsOf(str)[p]
  BY <1>1
<1>3. HostFences(str)'
  BY <1>1, <1>2, GpuHostFences DEF HostFences
<1>4. HandlersStay(HndsOf(str), HndsOf(str'), done')
  BY <1>1, StayRefl
<1>5. \A p \in Streams : \A j \in DOMAIN HndsOf(str')[p] :
        j \in DOMAIN HndsOf(str)[p] /\ HndsOf(str')[p][j] = HndsOf(str)[p][j]
  BY <1>1
<1> QED BY <1>1, <1>3, <1>4, <1>5, GpuInOrder

(* Handlers run in the order of their buffers. *)
LEMMA EarlierHandled ==
  ASSUME OInv, NEW s \in Streams, NEW i \in Buffers(s), Handles(str[s].sent[i]),
         NEW j \in DOMAIN Hnds(str[s]), j < i, Hnds(str[s])[j].op # 0
  PROVE  FALSE
<1> DEFINE b == str[s].sent[j + 1]
           h == Hnds(str[s])[j]
           v == signal[Host(s)]
<1>0. EInv /\ IInv
  BY DEF OInv, EInv
<1>1. /\ i \in Nat \ {0} /\ i <= Len(str[s].sent) /\ Len(str[s].sent) \in Nat
      /\ Buffers(s) = 1..Len(str[s].sent)
  BY <1>0, BufferIs, BufferType DEF Buffers
<1>a. j \in Nat \ {0} /\ signal[Dev(s)] \in Nat /\ v \in Nat /\ h.value \in Nat
  BY <1>0, FenceTypes, HandlerViewType
<1>2. i <= signal[Dev(s)]
  <2>1. str[s].sent[i].status # "error" /\ BufSignalled(str[s].sent[i], i, signal[Dev(s)])
    BY DEF OInv, HostWaited, EInv, Executed, Buffers
  <2> QED BY <2>1 DEF BufSignalled, Handles
<1>3. j + 1 \in Buffers(s) /\ j + 1 <= signal[Dev(s)]
  BY <1>1, <1>a, <1>2
<1>4. b \in CmdBuf /\ j + 1 \in DOMAIN Bufs(str[s]) /\ Bufs(str[s])[j + 1] = b.body
  BY <1>0, <1>3, BufferType, BufferIs DEF BufsOf
<1>5. v < h.value /\ <<Host(s), h.value>> \in b.body[1].waits
  BY <1>4 DEF OInv, InOrder, HostFences, HostFence
<1>6. b.at = Len(b.body) /\ BufWaited(b, signal, "host") /\ b.body # <<>> /\ b.body \in Seq(Item)
  BY <1>0, <1>3, <1>4 DEF OInv, HostWaited, EInv, Executed, Buffers, BufSignalled, Chained, BufsOf, CmdBuf
<1>7. 1 \in 1..b.at
  BY <1>6
<1> DEFINE w == <<Host(s), h.value>>
<1>8. w[1] = Host(s) /\ w[2] = h.value /\ w[1][1] = "host"
  BY DEF Host
<1>9. v >= h.value
  <2>1. w \in b.body[1].waits
    BY <1>5
  <2> HIDE DEF w
  <2> QED BY <1>6, <1>7, <1>8, <2>1 DEF BufWaited
<1> QED BY <1>a, <1>5, <1>9

LEMMA HandlerRunsInOrder ==
  ASSUME OInv, NEW s \in Streams, NEW i \in Buffers(s), HandlerRuns(s, i)
  PROVE  InOrder(str)'
<1> DEFINE a == str[s].sent[i]
           b == [a EXCEPT !.handler = NoHandler]
           h == a.handler
           k == Hnds(str[s])
           g == Hnds(str'[s])
           H == HndsOf(str)
           G == HndsOf(str')
           v == signal[Host(s)]
<1>0. EInv /\ IInv /\ HostFences(str)
  BY DEF OInv, EInv, InOrder
<1>1. a \in CmdBuf /\ i \in DOMAIN str[s].sent /\ Handles(a)
  BY <1>0, BufferType DEF Buffers, HandlerRuns
<1>2. b \in CmdBuf /\ b.body = a.body /\ b.handler = NoHandler
  BY <1>1, NoHandlerType DEF CmdBuf
<1>3. str' = [str EXCEPT ![s] = [str[s] EXCEPT !.sent = [str[s].sent EXCEPT ![i] = b]]]
  BY DEF HandlerRuns
<1> HIDE DEF b
<1>4. /\ signal' = [signal EXCEPT ![Host(s)] = h.value] /\ done' = done \cup {h.op}
      /\ UNCHANGED <<log, joins>>
  BY DEF HandlerRuns
<1>5. BufsOf(str') = BufsOf(str) /\ Replaced(s, i, b)
  BY <1>0, <1>2, <1>3, BufferView
<1>6. i \in DOMAIN k /\ k[i] = h /\ h.op # 0 /\ DOMAIN k = 1..Reach(str[s])
  BY <1>0, <1>1, BufferIs, HandlerViewType DEF Handles, HndsOf, BufsOf
<1>7. DOMAIN g = DOMAIN k /\ \A j \in DOMAIN k : g[j] = IF j = i THEN NoHandler ELSE k[j]
  BY <1>2, <1>5, <1>6 DEF Replaced, Hnds
<1>8. \A p \in Streams \ {s} : Hnds(str'[p]) = Hnds(str[p])
  BY <1>5 DEF Replaced, Hnds
<1>9. G[s] = g /\ H[s] = k /\ \A p \in Streams \ {s} : G[p] = H[p]
  BY <1>8 DEF HndsOf
<1> HIDE DEF G, H, g, k
<1>10. HandlersStay(H, G, done')
  BY <1>4, <1>6, <1>7, <1>9 DEF HandlersStay
<1>11. \A p \in Streams : \A j \in DOMAIN G[p] : (j \in DOMAIN H[p] /\ G[p][j] = H[p][j]) \/ G[p][j].op = 0
  BY <1>7, <1>9 DEF NoHandler
<1>12. \A p \in Streams \ {s} : HostFence(p, str'[p], signal'[Host(p)])
  <2> SUFFICES ASSUME NEW p \in Streams \ {s} PROVE HostFence(p, str'[p], signal'[Host(p)])
    OBVIOUS
  <2>1. signal'[Host(p)] = signal[Host(p)]
    BY <1>0, <1>4, FenceTypes DEF IInv
  <2>2. HndsOf(str')[p] = HndsOf(str)[p]
    BY <1>9 DEF G, H
  <2> QED BY <1>5, <2>1, <2>2, GpuHostFences
<1>13. HostFence(s, str'[s], signal'[Host(s)])
  <2>1. signal'[Host(s)] = h.value
    BY <1>0, <1>4, FenceTypes DEF IInv
  <2>2. /\ Bufs(str'[s]) = Bufs(str[s]) /\ str'[s].hostValue = str[s].hostValue
        /\ str'[s].state = str[s].state /\ str'[s].pending = str[s].pending
    <3>1. BufsOf(str')[s] = BufsOf(str)[s]
      BY <1>5
    <3> QED BY <1>5, <3>1 DEF Replaced, BufsOf
  <2>3. HostFence(s, str[s], v)
    BY <1>0 DEF HostFences
  <2>4. \A j \in DOMAIN k : k[j].op # 0 =>
          /\ k[j].value <= str[s].hostValue
          /\ \A x \in DOMAIN k : j < x /\ k[x].op # 0 => k[j].value < k[x].value
          /\ j + 1 \in DOMAIN Bufs(str[s]) => <<Host(s), k[j].value>> \in Bufs(str[s])[j + 1][1].waits
          /\ j + 1 \notin DOMAIN Bufs(str[s]) /\ str[s].state = "live"
             => <<Host(s), k[j].value>> \in str[s].pending
    BY <2>3 DEF HostFence, k
  <2>5. ASSUME NEW j \in DOMAIN k, g[j].op # 0 PROVE g[j] = k[j] /\ h.value < k[j].value
    <3>1. j # i /\ g[j] = k[j]
      BY <1>7, <2>5 DEF NoHandler
    <3>2. ~(j < i)
      BY <1>1, <2>5, <3>1, EarlierHandled DEF k
    <3>3. i < j
      <4>1. i \in Nat /\ j \in Nat
        BY <1>0, <1>6, HandlerViewType
      <4> QED BY <3>1, <3>2, <4>1
    <3> QED BY <1>6, <2>4, <2>5, <3>1, <3>3
  <2>6. h.value <= str[s].hostValue
    BY <1>6, <2>4
  <2>7. \A j \in DOMAIN g : g[j].op # 0 =>
          /\ h.value < g[j].value /\ g[j].value <= str[s].hostValue
          /\ \A x \in DOMAIN g : j < x /\ g[x].op # 0 => g[j].value < g[x].value
          /\ j + 1 \in DOMAIN Bufs(str[s]) => <<Host(s), g[j].value>> \in Bufs(str[s])[j + 1][1].waits
          /\ j + 1 \notin DOMAIN Bufs(str[s]) /\ str[s].state = "live"
             => <<Host(s), g[j].value>> \in str[s].pending
    BY <1>7, <2>4, <2>5
  <2> QED BY <2>1, <2>2, <2>6, <2>7 DEF HostFence, g
<1>14. HostFences(str)'
  BY <1>12, <1>13 DEF HostFences
<1> QED BY <1>4, <1>5, <1>10, <1>11, <1>14, GpuInOrder DEF G, H

-----------------------------------------------------------------------------
(* Host waits that are over stay over *)

LEMMA CallHostWaited ==
  ASSUME HostWaited, Kept(str, str'), UNCHANGED signal
  PROVE  HostWaited'
<1> SUFFICES ASSUME NEW s \in Streams, NEW i \in DOMAIN str'[s].sent
             PROVE  str'[s].sent[i].status # "error" /\ BufWaited(str'[s].sent[i], signal, "host")
  BY DEF HostWaited, BufWaited
<1>1. CASE i \in DOMAIN str[s].sent
  BY <1>1 DEF HostWaited, Kept, KeptSt
<1>2. CASE i \notin DOMAIN str[s].sent
  <2>1. str'[s].sent[i].at = 0 /\ str'[s].sent[i].status = "committed"
    BY <1>2 DEF Kept, KeptSt
  <2> QED BY <2>1 DEF BufWaited
<1> QED BY <1>1, <1>2

LEMMA GpuHostWaited ==
  ASSUME OInv, NEW s, NEW i, NEW b, Replaced(s, i, b), b.status # "error", signal' \in [Fence -> Nat],
         \A p \in Streams : signal'[Host(p)] >= signal[Host(p)], BufWaited(b, signal', "host")
  PROVE  HostWaited'
<1>0. EInv /\ IInv
  BY DEF OInv, EInv
<1> SUFFICES ASSUME NEW p \in Streams, NEW j \in DOMAIN str[p].sent, ~(p = s /\ j = i)
             PROVE  str[p].sent[j].status # "error" /\ BufWaited(str[p].sent[j], signal', "host")
  BY DEF HostWaited, Replaced
<1> DEFINE a == str[p].sent[j]
<1>1. a \in CmdBuf /\ a.at <= Len(a.body) /\ a.status # "error" /\ BufWaited(a, signal, "host")
  BY <1>0, BufferType DEF OInv, HostWaited, EInv, Executed, BufRan, Buffers
<1> HIDE DEF a
<1>2. ASSUME NEW m \in 1..a.at, NEW w \in a.body[m].waits, w[1][1] = "host"
      PROVE  signal'[w[1]] >= w[2]
  <2>1. m \in DOMAIN a.body
    BY <1>1, ItemTypes
  <2>2. w[1] \in Fence /\ w[2] \in Nat /\ w[1][2] \in Streams
    BY <1>1, <2>1, BodyWaits
  <2>3. w[1] = Host(w[1][2])
    BY <1>2, <2>2 DEF Fence, Host
  <2>4. signal[w[1]] >= w[2] /\ signal[w[1]] \in Nat /\ signal'[w[1]] \in Nat
    BY <1>0, <1>1, <1>2, <2>2 DEF BufWaited, IInv
  <2>5. signal'[w[1]] >= signal[w[1]]
    BY <2>2, <2>3
  <2> QED BY <2>2, <2>4, <2>5
<1> QED BY <1>1, <1>2 DEF BufWaited, a

-----------------------------------------------------------------------------
(* The inductive invariant of the order *)

(* No stream comes, goes or changes its kind. *)
SameStreams == \A s \in Streams : str'[s].state = str[s].state /\ str'[s].nonBlocking = str[s].nonBlocking

LEMMA SameBlocking == ASSUME SameStreams PROVE UNCHANGED Blocking
  BY DEF SameStreams, Blocking

(* What a call has to show. *)
LEMMA CallOInv ==
  ASSUME OInv, EInv', Positive', Longer(str, str'), UNCHANGED signal, InOrder(str)', Unused'
  PROVE  OInv'
  BY CallHostWaited DEF OInv, Longer

(* Steps that issue nothing and leave the streams be. *)
LEMMA SameUnused ==
  ASSUME Unused, SameStreams, UNCHANGED joins
  PROVE  Unused'
  BY DEF Unused, SameStreams

LEMMA CommitsOInv ==
  ASSUME OInv, EInv', Positive', NEW T, T = str \/ \E e \in Events : T = FlushEvent(str, e),
         \E S : str' = CommitSet(T, S), UNCHANGED <<signal, log, joins, done>>
  PROVE  OInv' /\ SameStreams
<1>0. IInv /\ Good(str) /\ Unused
  BY DEF OInv, EInv, IInv
<1>1. \E S : T = CommitSet(str, S)
  <2>1. CommitSet(str, {}) = str
    BY <1>0 DEF CommitSet, Good
  <2> QED BY <1>0, <2>1, FlushEventIsSet
<1>2. Good(T) /\ Longer(str, T)
  BY <1>0, <1>1, FlushEventGood, CommitSetLonger
<1>3. Longer(str, str')
  BY <1>2, CommitSetLonger, LongerTrans
<1>4. SameStreams
  BY <1>0, <1>1, <1>2, CommitSetOpen DEF SameStreams
<1>5. InOrder(str)'
  BY CommittedInOrder
<1> QED BY <1>0, <1>3, <1>4, <1>5, CallOInv, SameUnused

LEMMA IssueOInv ==
  ASSUME OInv, EInv', Positive', ~WaitsVisible, NEW s \in Streams, str[s].state = "live",
         NEW O, O = Open(str, s), NEW item \in Item, item.op = CO!NewOp, Appended(O[s], str'[s], item),
         \A p \in Streams \ {s} : str'[p] = O[p], Longer(O, str'), CO!Issue(s), UNCHANGED signal
  PROVE  OInv' /\ SameStreams
<1>0. IInv /\ Good(str) /\ signal \in [Fence -> Nat] /\ Unused /\ joins' = [joins EXCEPT ![s] = {}]
  BY DEF OInv, EInv, IInv, CO!Issue
<1>1. Longer(str, str')
  BY <1>0, OpenLonger, LongerTrans
<1>2. \A p \in Streams : O[p].state = str[p].state /\ O[p].nonBlocking = str[p].nonBlocking
  BY <1>0, OpenStates
<1>3. SameStreams
  BY <1>2 DEF Appended, SameStreams
<1>4. Unused'
  BY <1>0, <1>3 DEF Unused, SameStreams, IInv, Hist_OK
<1>5. InOrder(str)'
  BY IssueInOrder
<1> QED BY <1>1, <1>3, <1>4, <1>5, CallOInv

LEMMA LaunchOInv ==
  ASSUME OInv, EInv', Positive', ~WaitsVisible, NEW s \in Streams, NEW needs, Launch(s, needs)
  PROVE  OInv' /\ SameStreams
<1>0. IInv /\ str[s].state = "live" /\ UNCHANGED signal /\ CO!Issue(s)
  BY DEF OInv, EInv, Launch, On
<1>1. ASSUME NEW O, O = Open(str, s), NEW item, item = KernelItem(CO!NewOp, needs)
      PROVE  OInv' /\ SameStreams
  <2>1. /\ item \in Item /\ item.op = CO!NewOp /\ Appended(O[s], str'[s], item)
        /\ \A p \in Streams \ {s} : str'[p] = O[p]
        /\ Longer(O, str')
    BY <1>0, <1>1, LaunchView
  <2> QED BY <1>0, <1>1, <2>1, IssueOInv
<1> QED BY <1>1

LEMMA LaunchHostFuncOInv ==
  ASSUME OInv, EInv', Positive', ~WaitsVisible, NEW s \in Streams, LaunchHostFunc(s)
  PROVE  OInv' /\ SameStreams
<1> DEFINE O == Open(str, s)
           h == [op |-> CO!NewOp, value |-> str[s].hostValue + 1]
<1>0. IInv /\ Unused /\ str[s].state = "live" /\ UNCHANGED signal
      /\ joins' = [joins EXCEPT ![s] = @ \cup {CO!NewOp}]
  BY DEF OInv, EInv, LaunchHostFunc, On, CO!IssueHost
<1>1. /\ Handed(O[s], str'[s], h) /\ \A p \in Streams \ {s} : str'[p] = O[p]
      /\ Longer(str, str')
  BY <1>0, LaunchHostFuncView
<1>2. \A p \in Streams : O[p].state = str[p].state /\ O[p].nonBlocking = str[p].nonBlocking
  BY <1>0, OpenStates
<1> HIDE DEF O, h
<1>3. SameStreams
  BY <1>1, <1>2 DEF Handed, SameStreams
<1>4. Unused'
  BY <1>0, <1>3 DEF Unused, SameStreams, IInv, Hist_OK
<1> QED BY <1>0, <1>1, <1>3, <1>4, LaunchHostFuncInOrder, CallOInv

LEMMA StreamWaitEventOInv ==
  ASSUME OInv, EInv', Positive', NEW s \in Streams, NEW e \in Events, StreamWaitEvent(s, e)
  PROVE  OInv' /\ SameStreams
<1> DEFINE F == FlushEvent(str, e)
           w == <<Dev(ev[e].stream), ev[e].value>>
           item == WaitItem({w})
           c == [F[s] EXCEPT !.pending = @ \cup {w}]
<1>0. IInv /\ Unused /\ Good(str) /\ str[s].state = "live" /\ UNCHANGED signal
      /\ joins' = [joins EXCEPT ![s] = @ \cup mark[e]]
  BY DEF OInv, EInv, IInv, StreamWaitEvent, On, CO!Wait
<1>1. /\ Longer(str, str') /\ Good(F)
      /\ \/ str' = F
         \/ Appended(F[s], str'[s], item) /\ str' = [F EXCEPT ![s] = Encode(F[s], item)]
         \/ str' = [F EXCEPT ![s] = c]
  BY <1>0, WaitEventView
<1>2. \A p \in Streams : F[p].state = str[p].state /\ F[p].nonBlocking = str[p].nonBlocking
  BY <1>0, FlushEventIsSet, CommitSetOpen
<1>3. c.state = F[s].state /\ c.nonBlocking = F[s].nonBlocking
  <2>1. F[s] \in Stream
    BY <1>1 DEF Good
  <2> HIDE DEF F, w
  <2> QED BY <2>1 DEF Stream
<1> HIDE DEF F, w, item, c
<1>4. SameStreams
  BY <1>1, <1>2, <1>3 DEF Good, Appended, SameStreams
<1>5. Unused'
  BY <1>0, <1>4 DEF Unused, SameStreams, IInv, Hist_OK
<1> QED BY <1>0, <1>1, <1>4, <1>5, StreamWaitEventInOrder, CallOInv

LEMMA StreamComesOrGoes ==
  ASSUME OInv, EInv', Positive', NEW s \in Streams,
         (\E nb \in BOOLEAN : CreateStream(s, nb)) \/ DestroyStream(s)
  PROVE  OInv'
<1>0. IInv /\ Unused /\ Good(str)
  BY DEF OInv, EInv, IInv
<1>1. ASSUME NEW nb \in BOOLEAN, CreateStream(s, nb) PROVE OInv'
  <2>1. Longer(str, str') /\ str' = [str EXCEPT ![s] = NewStream("live", nb)]
    BY <1>0, <1>1, CreateLonger
  <2>2. NewStream("live", nb).state = "live" /\ UNCHANGED <<joins, signal>>
    BY <1>1 DEF NewStream, CreateStream, hist
  <2>3. Unused'
    BY <1>0, <2>1, <2>2 DEF Unused, Good
  <2> QED BY <1>1, <2>1, <2>2, <2>3, CreateInOrder, CallOInv
<1>2. CASE DestroyStream(s)
  <2>1. Longer(str, str') /\ \E d : str' = [str EXCEPT ![s] = d] /\ d.state = "gone"
    BY <1>0, <1>2, DestroyLonger
  <2>2. UNCHANGED <<joins, signal>>
    BY <1>2 DEF DestroyStream, hist
  <2>3. Unused'
    BY <1>0, <2>1, <2>2 DEF Unused, Good
  <2> QED BY <1>2, <2>1, <2>2, <2>3, DestroyInOrder, CallOInv
<1> QED BY <1>1, <1>2

(* What a step of the GPU has to show. *)
LEMMA GpuOInv ==
  ASSUME OInv, EInv', Positive', NEW s \in Streams, NEW i \in Buffers(s), NEW b,
         Replaced(s, i, b), b.status # "error", BufWaited(b, signal', "host"), UNCHANGED joins,
         \A p \in Streams : signal'[Host(p)] >= signal[Host(p)], InOrder(str)'
  PROVE  OInv' /\ SameStreams
<1>1. signal' \in [Fence -> Nat]
  BY DEF EInv, IInv
<1>2. HostWaited'
  BY <1>1, GpuHostWaited
<1>3. SameStreams
  BY DEF Replaced, SameStreams
<1> QED BY <1>2, <1>3, SameUnused DEF OInv

LEMMA GpuStepOInv ==
  ASSUME OInv, EInv', Positive', NEW s \in Streams, NEW i \in Buffers(s), GpuStep(s, i)
  PROVE  OInv' /\ SameStreams
<1> DEFINE a == str[s].sent[i]
           b == [a EXCEPT !.at = @ + 1]
<1>0. IInv
  BY DEF OInv, EInv
<1>1. a \in CmdBuf /\ a.at \in Nat /\ BufWaited(a, signal, "host") /\ a.status # "error"
  BY <1>0, BufferType, ItemTypes DEF OInv, HostWaited, Buffers
<1>2. /\ b \in CmdBuf /\ b.body = a.body /\ b.at = a.at + 1 /\ b.status = a.status
      /\ b.handler = a.handler
  BY <1>1 DEF CmdBuf
<1>3. str' = [str EXCEPT ![s] = [str[s] EXCEPT !.sent = [str[s].sent EXCEPT ![i] = b]]]
  BY DEF GpuStep
<1>4. /\ \A w \in a.body[a.at + 1].waits : signal[w[1]] >= w[2]
      /\ done \subseteq done' /\ UNCHANGED <<log, joins, signal>>
  BY DEF GpuStep, Runnable, NextItem
<1> HIDE DEF b
<1>5. Replaced(s, i, b)
  BY <1>0, <1>2, <1>3, BufferView
<1>6. InOrder(str)'
  BY <1>2, <1>3, <1>4, GpuQuietInOrder
<1>7. \A p \in Streams : signal'[Host(p)] >= signal[Host(p)]
  BY <1>0, <1>4, FenceTypes
<1> HIDE DEF a
<1>8. BufWaited(b, signal', "host")
  <2>1. \A m \in 1..b.at : m \in 1..a.at \/ m = a.at + 1
    BY <1>1, <1>2
  <2> QED BY <1>1, <1>2, <1>4, <2>1 DEF BufWaited
<1> QED BY <1>1, <1>2, <1>4, <1>5, <1>6, <1>7, <1>8, GpuOInv

(* Signals and completions execute nothing. *)
LEMMA GpuStatusOInv ==
  ASSUME OInv, EInv', Positive', NEW s \in Streams, NEW i \in Buffers(s),
         GpuSignal(s, i) \/ GpuComplete(s, i)
  PROVE  OInv' /\ SameStreams
<1> DEFINE a == str[s].sent[i]
<1>0. IInv
  BY DEF OInv, EInv
<1>1. a \in CmdBuf /\ BufWaited(a, signal, "host") /\ a.at <= Len(a.body)
  BY <1>0, BufferType DEF OInv, HostWaited, EInv, Executed, BufRan, Buffers
<1>2. PICK status \in {"signalled", "completed"} :
        str' = [str EXCEPT ![s] = [str[s] EXCEPT !.sent = [str[s].sent EXCEPT ![i] = [a EXCEPT !.status = status]]]]
  BY DEF GpuSignal, GpuComplete
<1> DEFINE b == [a EXCEPT !.status = status]
<1>3. /\ b \in CmdBuf /\ b.body = a.body /\ b.at = a.at /\ b.status = status /\ b.handler = a.handler
  BY <1>1 DEF CmdBuf
<1>4. str' = [str EXCEPT ![s] = [str[s] EXCEPT !.sent = [str[s].sent EXCEPT ![i] = b]]]
  BY <1>2
<1> HIDE DEF b
<1>5. UNCHANGED <<log, joins, done>> /\ \A p \in Streams : signal'[Host(p)] = signal[Host(p)]
  <2>1. UNCHANGED <<log, joins, done>>
    BY DEF GpuSignal, GpuComplete, hist
  <2>2. signal \in [Fence -> Nat] /\ \A p \in Streams : Host(p) \in Fence /\ Host(p) # Dev(s)
    BY <1>0, FenceTypes DEF IInv
  <2> QED BY <2>1, <2>2 DEF GpuSignal, GpuComplete
<1>6. Replaced(s, i, b)
  BY <1>0, <1>3, <1>4, BufferView
<1>7. InOrder(str)'
  BY <1>3, <1>4, <1>5, GpuQuietInOrder
<1>8. \A p \in Streams : signal'[Host(p)] >= signal[Host(p)]
  BY <1>0, <1>5, FenceTypes
<1> HIDE DEF a
<1>9. BufWaited(b, signal', "host")
  <2> SUFFICES ASSUME NEW m \in 1..a.at, NEW w \in a.body[m].waits, w[1][1] = "host"
               PROVE  signal'[w[1]] >= w[2]
    BY <1>3 DEF BufWaited
  <2>1. m \in DOMAIN a.body
    BY <1>1, ItemTypes
  <2>2. w[1] \in Fence /\ w[1][2] \in Streams
    BY <1>1, <2>1, BodyWaits
  <2>3. w[1] = Host(w[1][2])
    BY <2>2 DEF Fence, Host
  <2> QED BY <1>1, <1>5, <2>2, <2>3 DEF BufWaited
<1> QED BY <1>3, <1>5, <1>6, <1>7, <1>8, <1>9, GpuOInv

LEMMA HandlerRunsOInv ==
  ASSUME OInv, EInv', Positive', NEW s \in Streams, NEW i \in Buffers(s), HandlerRuns(s, i)
  PROVE  OInv' /\ SameStreams
<1> DEFINE a == str[s].sent[i]
           b == [a EXCEPT !.handler = NoHandler]
           h == a.handler
<1>0. IInv /\ HostFences(str)
  BY DEF OInv, EInv, InOrder
<1>1. a \in CmdBuf /\ BufWaited(a, signal, "host") /\ a.at <= Len(a.body) /\ a.status # "error"
      /\ h.value \in Nat
  BY <1>0, BufferType, ItemTypes DEF OInv, HostWaited, EInv, Executed, BufRan, Buffers
<1>2. b \in CmdBuf /\ b.body = a.body /\ b.at = a.at /\ b.status = a.status
  BY <1>1, NoHandlerType DEF CmdBuf
<1>3. str' = [str EXCEPT ![s] = [str[s] EXCEPT !.sent = [str[s].sent EXCEPT ![i] = b]]]
  BY DEF HandlerRuns
<1> HIDE DEF b
<1>4. h.op # 0 /\ signal' = [signal EXCEPT ![Host(s)] = h.value] /\ UNCHANGED <<log, joins>>
  BY DEF HandlerRuns, Handles
<1>5. Replaced(s, i, b)
  BY <1>0, <1>2, <1>3, BufferView
<1>6. signal[Host(s)] < h.value
  <2>1. Hnds(str[s])[i] = h /\ i \in DOMAIN Hnds(str[s])
    BY <1>0, BufferIs, HandlerViewType DEF HndsOf, BufsOf
  <2> QED BY <1>0, <1>4, <2>1 DEF HostFences, HostFence
<1> HIDE DEF h
<1>7. \A p \in Streams : signal'[Host(p)] >= signal[Host(p)]
  <2>1. signal'[Host(s)] >= signal[Host(s)]
    <3>1. signal'[Host(s)] = h.value /\ signal[Host(s)] \in Nat
      BY <1>0, <1>4, FenceTypes DEF IInv
    <3> QED BY <1>1, <1>6, <3>1
  <2>2. ASSUME NEW p \in Streams \ {s} PROVE signal'[Host(p)] >= signal[Host(p)]
    <3>1. signal'[Host(p)] = signal[Host(p)] /\ signal[Host(p)] \in Nat
      BY <1>0, <1>4, FenceTypes DEF IInv
    <3> QED BY <3>1
  <2> QED BY <2>1, <2>2
<1> HIDE DEF a
<1>8. BufWaited(b, signal', "host")
  <2> SUFFICES ASSUME NEW m \in 1..a.at, NEW w \in a.body[m].waits, w[1][1] = "host"
               PROVE  signal'[w[1]] >= w[2]
    BY <1>2 DEF BufWaited
  <2>1. m \in DOMAIN a.body
    BY <1>1, ItemTypes
  <2>2. w[1] \in Fence /\ w[1][2] \in Streams /\ w[2] \in Nat
    BY <1>1, <2>1, BodyWaits
  <2>3. w[1] = Host(w[1][2])
    BY <2>2 DEF Fence, Host
  <2>4. signal[w[1]] >= w[2] /\ signal[w[1]] \in Nat /\ signal'[w[1]] \in Nat
    BY <1>0, <1>1, <2>2 DEF BufWaited, IInv, EInv
  <2>5. signal'[w[1]] >= signal[w[1]]
    BY <1>7, <2>2, <2>3
  <2> QED BY <2>2, <2>4, <2>5
<1>9. InOrder(str)'
  BY HandlerRunsInOrder
<1> QED BY <1>1, <1>2, <1>4, <1>5, <1>7, <1>8, <1>9, GpuOInv

LEMMA InitOInv == Init => OInv
<1> SUFFICES ASSUME Init PROVE OInv
  OBVIOUS
<1>1. EInv /\ Positive
  BY InitEInv DEF Init, Positive
<1>2. ASSUME NEW s \in Streams
      PROVE  /\ DOMAIN Bufs(str[s]) = {} /\ DOMAIN Hnds(str[s]) = {} /\ ~str[s].open /\ str[s].hostValue = 0
             /\ DOMAIN str[s].sent = {} /\ \A p \in Streams : str[s].waited[p] = 0
  <2>1. PICK state \in {"new", "live"} : str[s] = NewStream(state, FALSE)
    BY DEF Init
  <2>2. Reach(str[s]) = 0 /\ ~str[s].open /\ str[s].hostValue = 0
    BY <2>1, NewStreamFacts
  <2>3. str[s].sent = <<>> /\ str[s].waited = [p \in Streams |-> 0]
    BY <2>1 DEF NewStream
  <2> QED BY <2>2, <2>3 DEF Bufs, Hnds
<1>3. ListsOrdered(BufsOf(str), HndsOf(str), log, done)
  BY <1>2 DEF ListsOrdered, BufsOf, HndsOf
<1>4. JoinsQueued(str, joins, done) /\ Unused
  BY DEF Init, JoinsQueued, Unused
<1>5. WaitedKept(str) /\ OpenAlone(str)
  BY <1>2 DEF WaitedKept, OpenAlone
<1>6. HostFences(str)
  <2> SUFFICES ASSUME NEW s \in Streams PROVE HostFence(s, str[s], signal[Host(s)])
    BY DEF HostFences
  <2>1. signal[Host(s)] = 0
    BY DEF Init, Fence, Host
  <2>2. 0 <= str[s].hostValue /\ DOMAIN Hnds(str[s]) = {}
    BY <1>2
  <2>3. HostFence(s, str[s], 0)
    BY <2>2 DEF HostFence
  <2> QED BY <2>1, <2>3
<1>7. HostWaited
  BY <1>2 DEF HostWaited
<1> QED BY <1>1, <1>3, <1>4, <1>5, <1>6, <1>7 DEF OInv, InOrder

(* Calls that record events, poll or begin to wait. *)
LEMMA PollsOInv ==
  ASSUME OInv, EInv', Positive',
         \/ \E s \in Streams : QueryStream(s) \/ SyncStream(s) \/ \E e \in Events : RecordEvent(e, s)
         \/ \E e \in Events : QueryEvent(e) \/ SyncEvent(e)
         \/ SyncDevice
  PROVE  OInv' /\ SameStreams
<1>0. IInv /\ str \in [Streams -> Stream]
  BY DEF OInv, EInv, IInv, Good
<1>1. UNCHANGED <<signal, log, joins, done>>
  BY DEF RecordEvent, QueryStream, SyncStream, QueryEvent, SyncEvent, SyncDevice, Await, CO!Record, hist
<1>2. str = CommitSet(str, {})
  BY <1>0 DEF CommitSet
<1>3. \/ \E S : str' = CommitSet(str, S)
      \/ \E e \in Events : \E S : str' = CommitSet(FlushEvent(str, e), S)
  <2>1. ASSUME NEW s \in Streams, NEW e \in Events, RecordEvent(e, s)
        PROVE  \E S : str' = CommitSet(str, S)
    BY <1>0, <2>1, RecordLonger
  <2>2. ASSUME NEW s \in Streams, QueryStream(s) \/ SyncStream(s) \/ SyncDevice
        PROVE  \E S : str' = CommitSet(str, S)
    BY <1>2, <2>2 DEF QueryStream, SyncStream, SyncDevice, Await, CommitAll
  <2>3. ASSUME NEW e \in Events, QueryEvent(e) \/ SyncEvent(e)
        PROVE  \E S : str' = CommitSet(FlushEvent(str, e), S)
    BY <2>3 DEF QueryEvent, SyncEvent, CommitAll
  <2> QED BY <2>1, <2>2, <2>3, StreamsAssumption
<1> QED BY <1>1, <1>3, CommitsOInv

(* Steps that leave the streams and the history alone. *)
LEMMA StillOInv ==
  ASSUME OInv, EInv', Positive', UNCHANGED <<str, signal, hist>>
  PROVE  OInv' /\ SameStreams
<1>1. InOrder(str)' /\ HostWaited' /\ Unused'
  BY DEF OInv, InOrder, ListsOrdered, ItemOrdered, HandlerOrdered, JoinsQueued, Joined, WaitedKept,
         OpenAlone, LegacyPeers, LiveStreams, HostFences, HostWaited, Unused, hist
<1> QED BY <1>1 DEF OInv, SameStreams

(* A call is one the order allows, and keeps the invariant. *)
LEMMA CallRuns ==
  ASSUME OInv, EInv', Positive', ~WaitsVisible, Call
  PROVE  OInv' /\ [CO!Next]_(CO!ovars)
<1>1. ASSUME NEW s \in Streams, (\E nb \in BOOLEAN : CreateStream(s, nb)) \/ DestroyStream(s)
      PROVE  OInv' /\ [CO!Next]_(CO!ovars)
  <2>1. Blocking' \in SUBSET Streams /\ UNCHANGED <<log, last, joins, mark, done>>
    BY <1>1 DEF CreateStream, DestroyStream, Blocking, hist
  <2> QED BY <1>1, <2>1, StreamComesOrGoes DEF CO!Reshape, CO!Next
<1>2. ASSUME NEW s \in Streams, NEW needs, Launch(s, needs)
      PROVE  OInv' /\ [CO!Next]_(CO!ovars)
  <2>1. OInv' /\ UNCHANGED Blocking
    BY <1>2, LaunchOInv, SameBlocking
  <2> QED BY <1>2, <2>1 DEF Launch, CO!Issue, CO!Next
<1>3. ASSUME NEW s \in Streams, LaunchHostFunc(s)
      PROVE  OInv' /\ [CO!Next]_(CO!ovars)
  <2>1. OInv' /\ UNCHANGED Blocking
    BY <1>3, LaunchHostFuncOInv, SameBlocking
  <2> QED BY <1>3, <2>1 DEF LaunchHostFunc, CO!IssueHost, CO!Next
<1>4. ASSUME NEW s \in Streams, NEW e \in Events, RecordEvent(e, s)
      PROVE  OInv' /\ [CO!Next]_(CO!ovars)
  <2>1. OInv' /\ UNCHANGED Blocking
    BY <1>4, PollsOInv, SameBlocking
  <2> QED BY <1>4, <2>1 DEF RecordEvent, CO!Record, CO!Next
<1>5. ASSUME NEW s \in Streams, NEW e \in Events, StreamWaitEvent(s, e)
      PROVE  OInv' /\ [CO!Next]_(CO!ovars)
  <2>1. OInv' /\ UNCHANGED Blocking
    BY <1>5, StreamWaitEventOInv, SameBlocking
  <2> QED BY <1>5, <2>1 DEF StreamWaitEvent, CO!Wait, CO!Next
<1>6. CASE \/ \E s \in Streams : QueryStream(s) \/ SyncStream(s)
           \/ \E e \in Events : QueryEvent(e) \/ SyncEvent(e)
           \/ SyncDevice
  <2>1. OInv' /\ UNCHANGED Blocking
    BY <1>6, PollsOInv, SameBlocking
  <2>2. UNCHANGED <<log, last, joins, mark, done>>
    BY <1>6 DEF QueryStream, SyncStream, QueryEvent, SyncEvent, SyncDevice, Await, hist
  <2> QED BY <2>1, <2>2 DEF CO!ovars
<1>7. CASE \/ \E s \in Streams : LaunchRefused(s)
           \/ \E e \in Events : DestroyEvent(e) \/ \E t \in BOOLEAN : CreateEvent(e, t)
  <2>1. UNCHANGED <<str, signal, hist>>
    BY <1>7 DEF LaunchRefused, DestroyEvent, CreateEvent, hist
  <2>2. OInv' /\ UNCHANGED Blocking
    BY <2>1, StillOInv, SameBlocking
  <2> QED BY <2>1, <2>2 DEF hist, CO!ovars
<1> QED BY <1>1, <1>2, <1>3, <1>4, <1>5, <1>6, <1>7 DEF Call

(* So is what the GPU and the completion handlers do. *)
LEMMA GpuRuns ==
  ASSUME OInv, EInv', Positive', Gpu
  PROVE  OInv' /\ [CO!Next]_(CO!ovars)
<1>1. ASSUME NEW s \in Streams, NEW i \in Buffers(s), GpuStep(s, i)
      PROVE  OInv' /\ [CO!Next]_(CO!ovars)
  BY <1>1, GpuStepOInv, SameBlocking, GpuStepRuns
<1>2. ASSUME NEW s \in Streams, NEW i \in Buffers(s), HandlerRuns(s, i)
      PROVE  OInv' /\ [CO!Next]_(CO!ovars)
  BY <1>2, HandlerRunsOInv, SameBlocking, HandlerRunsRuns
<1>3. ASSUME NEW s \in Streams, NEW i \in Buffers(s), GpuSignal(s, i) \/ GpuComplete(s, i)
      PROVE  OInv' /\ [CO!Next]_(CO!ovars)
  <2>1. OInv' /\ UNCHANGED Blocking
    BY <1>3, GpuStatusOInv, SameBlocking
  <2>2. UNCHANGED <<log, last, joins, mark, done>>
    BY <1>3 DEF GpuSignal, GpuComplete, hist
  <2> QED BY <2>1, <2>2 DEF CO!ovars
<1> QED BY <1>1, <1>2, <1>3 DEF Gpu

LEMMA NextRuns ==
  ASSUME OInv, [Next]_vars, ~WaitsVisible, MaxFaults = 0
  PROVE  OInv' /\ [CO!Next]_(CO!ovars)
<1>1. EInv' /\ Positive'
  BY NextEInv, NextPositive DEF OInv, EInv
<1>2. CASE Call
  BY <1>1, <1>2, CallRuns
<1>3. CASE Gpu
  BY <1>1, <1>3, GpuRuns
<1>4. CASE HostProgress \/ WaitTimesOut \/ UNCHANGED vars
  <2>1. UNCHANGED <<str, signal, hist>>
    BY <1>4 DEF HostProgress, AwaitReturns, EventAwaitReturns, EntryReturns, WaitTimesOut, vars
  <2>2. OInv' /\ UNCHANGED Blocking
    BY <1>1, <2>1, StillOInv, SameBlocking
  <2> QED BY <2>1, <2>2 DEF hist, CO!ovars
<1>5. ~\E s \in Streams : \E i \in Buffers(s) : GpuFault(s, i)
  <2>1. faults \in Nat
    BY DEF OInv, EInv, IInv
  <2> QED BY <2>1 DEF GpuFault
<1> QED BY <1>2, <1>3, <1>4, <1>5 DEF Next

(* Device work runs in the order CudaOrder asks for (stream order, the     *)
(* events a stream waited for, host functions, and legacy_dependencies):   *)
(* whatever the command buffers are cut into, and whoever polls, spins or  *)
(* times out, every step of the runtime and of the GPU is a step of        *)
(* CudaOrder or leaves its variables alone, while no buffer faults.        *)
THEOREM OrderedHolds == ASSUME ~WaitsVisible, MaxFaults = 0 PROVE Spec => Ordered
<1>1. Init => CO!Init
  BY DEF Init, CO!Init, Blocking
<1>2. OInv /\ [Next]_vars => OInv' /\ [CO!Next]_(CO!ovars)
  BY NextRuns
<1> QED BY <1>1, <1>2, InitOInv, PTL DEF Spec, Ordered, CO!Spec
=============================================================================
