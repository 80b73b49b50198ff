---------------------------- MODULE OrderProofs ----------------------------
(***************************************************************************)
(* Proofs about the order of device work in Streams.tla, for any streams,  *)
(* events, commit thresholds and bounds: that a wait or a query that ends  *)
(* well means the work is done, and that command buffers and fences        *)
(* implement CudaOrder.                                                    *)
(*                                                                         *)
(* Both rest on one view of the stream table: each stream is the list of   *)
(* its command buffers, the open one last, whatever the GPU has done with  *)
(* them.  Committing and running leave that list alone; every other call   *)
(* makes it longer.                                                        *)
(***************************************************************************)
EXTENDS StreamsProofs

(* The bodies and the completion handlers of the buffers of a stream. *)
Bufs(st) == [i \in 1..Reach(st) |-> IF i \in DOMAIN st.sent THEN st.sent[i].body ELSE st.body]
Hnds(st) == [i \in 1..Reach(st) |-> IF i \in DOMAIN st.sent THEN st.sent[i].handler ELSE NoHandler]
BufsOf(T) == [s \in Streams |-> Bufs(T[s])]
HndsOf(T) == [s \in Streams |-> Hnds(T[s])]

(* Operation a is in a buffer of s, or in one of the first v. *)
InBuf(x, a) == \E m \in DOMAIN x : x[m].op = a
Queues(B, s, a) == \E i \in DOMAIN B[s] : InBuf(B[s][i], a)
Holds(B, s, v, a) == \E i \in DOMAIN B[s] : i <= v /\ InBuf(B[s][i], a)

(* Every buffer begins by waiting for the one before it on its stream. *)
Chained(B) ==
  \A s \in Streams : \A i \in DOMAIN B[s] :
    B[s][i] # <<>> /\ (i > 1 => <<Dev(s), i - 1>> \in B[s][i][1].waits)

(* Lists only get longer. *)
Ext(B, C) ==
  \A s \in Streams : \A i \in DOMAIN B[s] :
    /\ i \in DOMAIN C[s]
    /\ \A m \in DOMAIN B[s][i] : m \in DOMAIN C[s][i] /\ C[s][i][m] = B[s][i][m]

(* The calls of the program leave committed buffers alone and commit new   *)
(* ones that the GPU has not begun.                                        *)
KeptSt(st, c) ==
  /\ \A i \in DOMAIN st.sent : i \in DOMAIN c.sent /\ c.sent[i] = st.sent[i]
  /\ \A i \in DOMAIN c.sent \ DOMAIN st.sent : c.sent[i].at = 0 /\ c.sent[i].status = "committed"
Kept(T, U) == \A s \in Streams : KeptSt(T[s], U[s])

(* What every call does to the table. *)
Longer(T, U) ==
  /\ Kept(T, U) /\ Ext(BufsOf(T), BufsOf(U))
  /\ Chained(BufsOf(T)) => Chained(BufsOf(U))

-----------------------------------------------------------------------------
(* The view of a table *)

LEMMA SentFacts ==
  ASSUME NEW st \in Stream, Own(st)
  PROVE  /\ st.fenceValue \in Nat /\ Reach(st) \in Nat /\ st.fenceValue <= Reach(st)
         /\ st.fenceValue = Len(st.sent) /\ DOMAIN st.sent = 1..st.fenceValue
         /\ ~st.open => Reach(st) = st.fenceValue
         /\ st.open => Reach(st) = st.fenceValue + 1
         /\ \A i \in DOMAIN st.sent :
              /\ st.sent[i] \in CmdBuf /\ st.sent[i].body \in Seq(Item) /\ st.sent[i].at \in Nat
              /\ st.sent[i].value = i /\ st.sent[i].handler \in Handler
<1>1. st.sent \in Seq(CmdBuf) /\ st.fenceValue \in Nat
  BY StreamFields
<1>2. st.fenceValue = Len(st.sent) /\ \A i \in DOMAIN st.sent : st.sent[i].value = i
  BY DEF Own, Counts
<1>3. ASSUME NEW i \in DOMAIN st.sent
      PROVE  /\ st.sent[i] \in CmdBuf /\ st.sent[i].body \in Seq(Item) /\ st.sent[i].at \in Nat
             /\ st.sent[i].handler \in Handler
  <2>1. st.sent[i] \in CmdBuf
    BY <1>1
  <2> QED BY <2>1 DEF CmdBuf
<1>4. DOMAIN st.sent = 1..st.fenceValue
  BY <1>1, <1>2
<1> QED BY <1>1, <1>2, <1>3, <1>4 DEF Reach

LEMMA ViewFacts ==
  ASSUME NEW st \in Stream, Own(st)
  PROVE  /\ DOMAIN Bufs(st) = 1..Reach(st) /\ DOMAIN Hnds(st) = 1..Reach(st)
         /\ \A i \in DOMAIN Bufs(st) : Bufs(st)[i] \in Seq(Item) /\ Hnds(st)[i] \in Handler
         /\ \A i \in DOMAIN st.sent :
              i \in DOMAIN Bufs(st) /\ Bufs(st)[i] = st.sent[i].body /\ Hnds(st)[i] = st.sent[i].handler
         /\ st.open => Bufs(st)[Reach(st)] = st.body /\ Hnds(st)[Reach(st)] = NoHandler
<1>1. st.body \in Seq(Item)
  BY StreamFields
<1>2. \A i \in DOMAIN st.sent : i \in 1..Reach(st)
  BY SentFacts
<1>3. st.open => Reach(st) \notin DOMAIN st.sent /\ Reach(st) \in 1..Reach(st)
  BY SentFacts
<1> QED BY <1>1, <1>2, <1>3, SentFacts, NoHandlerType DEF Bufs, Hnds

LEMMA CommitView ==
  ASSUME NEW st \in Stream, Own(st), NEW h \in Handler, NEW c, c = CommitWith(st, h)
  PROVE  /\ Bufs(c) = Bufs(st) /\ Reach(c) = Reach(st)
         /\ KeptSt(st, c)
         /\ ~st.open => c = st
         /\ st.open => Hnds(c) = [Hnds(st) EXCEPT ![Reach(st)] = h]
         /\ h = NoHandler => Hnds(c) = Hnds(st)
<1>1. CASE ~st.open
  BY <1>1 DEF CommitWith, KeptSt
<1>2. CASE st.open
  <2> DEFINE v == st.fenceValue + 1
             b == [body |-> st.body, at |-> 0, value |-> v, handler |-> h, status |-> "committed"]
  <2>1. /\ c.sent = Append(st.sent, b) /\ c.fenceValue = v /\ ~c.open
    BY <1>2 DEF CommitWith, Stream
  <2>2. b \in CmdBuf /\ b.body = st.body /\ b.handler = h /\ b.at = 0 /\ b.status = "committed"
    BY StreamFields DEF CmdBuf
  <2> HIDE DEF b
  <2>3. /\ DOMAIN c.sent = 1..v /\ DOMAIN st.sent = 1..(v - 1) /\ v \in Nat \ {0}
        /\ c.sent[v] = b /\ \A i \in 1..(v - 1) : c.sent[i] = st.sent[i]
    BY <2>1, <2>2, SentFacts, StreamFields
  <2>4. Reach(c) = v /\ Reach(st) = v
    BY <1>2, <2>1 DEF Reach
  <2> HIDE DEF v
  <2>5. \A i \in 1..v : i \notin 1..(v - 1) => i = v
    BY <2>3
  <2>6. KeptSt(st, c)
    BY <2>2, <2>3, <2>5 DEF KeptSt
  <2>7. Bufs(c) = Bufs(st)
    <3>1. \A i \in 1..v : (IF i \in DOMAIN c.sent THEN c.sent[i].body ELSE c.body)
                          = (IF i \in DOMAIN st.sent THEN st.sent[i].body ELSE st.body)
      BY <2>2, <2>3, <2>5
    <3> QED BY <2>4, <3>1 DEF Bufs
  <2>8. Hnds(c) = [Hnds(st) EXCEPT ![Reach(st)] = h]
    <3>1. \A i \in 1..v : Hnds(c)[i] = IF i = v THEN h ELSE Hnds(st)[i]
      BY <2>2, <2>3, <2>4, <2>5 DEF Hnds
    <3>2. DOMAIN Hnds(c) = 1..v /\ DOMAIN Hnds(st) = 1..v
      BY <2>4 DEF Hnds
    <3>3. Hnds(c) = [i \in 1..v |-> Hnds(c)[i]] /\ Hnds(st) = [i \in 1..v |-> Hnds(st)[i]]
      BY <2>4 DEF Hnds
    <3> QED BY <2>4, <3>1, <3>2, <3>3
  <2>9. h = NoHandler => Hnds(c) = Hnds(st)
    <3>1. Hnds(st)[v] = NoHandler
      BY <1>2, <2>4, ViewFacts
    <3>2. Hnds(st) = [i \in 1..v |-> Hnds(st)[i]]
      BY <2>4 DEF Hnds
    <3> QED BY <2>4, <2>8, <3>1, <3>2
  <2> QED BY <1>2, <2>4, <2>6, <2>7, <2>8, <2>9
<1> QED BY <1>1, <1>2

LEMMA CommitSetView ==
  ASSUME NEW T, Good(T), NEW S, NEW U, U = CommitSet(T, S)
  PROVE  /\ BufsOf(U) = BufsOf(T) /\ HndsOf(U) = HndsOf(T)
         /\ Kept(T, U)
         /\ \A s \in Streams :
              /\ U[s].pending = T[s].pending /\ U[s].waited = T[s].waited
              /\ U[s].hostValue = T[s].hostValue /\ Reach(U[s]) = Reach(T[s])
<1>1. ASSUME NEW s \in Streams
      PROVE  /\ Bufs(U[s]) = Bufs(T[s]) /\ Hnds(U[s]) = Hnds(T[s]) /\ KeptSt(T[s], U[s])
             /\ U[s].pending = T[s].pending /\ U[s].waited = T[s].waited
             /\ U[s].hostValue = T[s].hostValue /\ Reach(U[s]) = Reach(T[s])
  <2>1. T[s] \in Stream /\ Own(T[s])
    BY DEF Good
  <2>2. CASE s \in S
    <3>1. U[s] = CommitWith(T[s], NoHandler)
      BY <2>2 DEF CommitSet, Commit
    <3>2. /\ Bufs(U[s]) = Bufs(T[s]) /\ Hnds(U[s]) = Hnds(T[s]) /\ KeptSt(T[s], U[s])
          /\ Reach(U[s]) = Reach(T[s])
      BY <2>1, <3>1, CommitView, NoHandlerType
    <3>3. /\ U[s].pending = T[s].pending /\ U[s].waited = T[s].waited
          /\ U[s].hostValue = T[s].hostValue
      BY <2>1, <3>1, CommitFacts, NoHandlerType
    <3> QED BY <3>2, <3>3
  <2>3. CASE s \notin S
    <3>1. U[s] = T[s]
      BY <2>3 DEF CommitSet
    <3> QED BY <3>1 DEF KeptSt
  <2> QED BY <2>2, <2>3
<1> QED BY <1>1 DEF BufsOf, HndsOf, Kept

(* A buffer of s opened in table T: it is one more in the list of s, and   *)
(* its first item waits for all that Open says.                            *)
Opened(T, U, s, first) ==
  /\ first \in Item /\ first.op = 0 /\ first.needs = {}
  /\ ~T[s].open /\ U[s].open
  /\ Bufs(U[s]) = [i \in 1..(Reach(T[s]) + 1) |->
                     IF i = Reach(T[s]) + 1 THEN <<first>> ELSE Bufs(T[s])[i]]
  /\ Hnds(U[s]) = [i \in 1..(Reach(T[s]) + 1) |->
                     IF i = Reach(T[s]) + 1 THEN NoHandler ELSE Hnds(T[s])[i]]
  /\ Reach(T[s]) > 0 => <<Dev(s), Reach(T[s])>> \in first.waits
  /\ T[s].pending \subseteq first.waits /\ U[s].pending = {}
  /\ \A p \in Streams :
       /\ U[p].state = T[p].state /\ U[p].nonBlocking = T[p].nonBlocking
       /\ U[p].hostValue = T[p].hostValue
       /\ U[s].waited[p] = T[s].waited[p] \/ <<Dev(p), U[s].waited[p]>> \in first.waits
  /\ \A p \in Streams \ {s} :
       /\ Bufs(U[p]) = Bufs(T[p]) /\ Hnds(U[p]) = Hnds(T[p])
       /\ U[p].pending = T[p].pending /\ U[p].waited = T[p].waited
       /\ ~T[p].open => U[p] = T[p]
  /\ \A p \in LegacyPeers(T, s) : ~U[p].open /\ U[p].fenceValue <= U[s].waited[p]

LEMMA OpenView ==
  ASSUME NEW T, Good(T), signal \in [Fence -> Nat], NEW s \in Streams, T[s].state = "live",
         NEW U, U = Open(T, s)
  PROVE  /\ U = T \/ \E first : Opened(T, U, s, first)
         /\ Kept(T, U)
<1>0. T \in [Streams -> Stream] /\ T[s] \in Stream /\ Own(T[s])
  BY DEF Good
<1>1. CASE T[s].open
  BY <1>1 DEF Open, Kept, KeptSt
<1>2. CASE ~T[s].open
  <2> DEFINE peers == LegacyPeers(T, s)
             P == CommitSet(T, peers)
             own == IF T[s].fenceValue > 0 THEN {<<Dev(s), T[s].fenceValue>>} ELSE {}
             deps == LegacyDependencies(T, s)
             first == WaitItem(own \cup deps \cup T[s].pending)
             waited == [p \in Streams |-> IF p \in Unwaited(T, s) THEN P[p].fenceValue
                                          ELSE T[s].waited[p]]
             retired == {r \in T[s].retired : r[1] > signal[Dev(s)]}
             body == <<first>>
             c == [T[s] EXCEPT !.open = TRUE, !.body = body, !.ops = 0, !.keep = {},
                     !.pending = {}, !.waited = waited, !.retired = retired]
  <2>1. U = [P EXCEPT ![s] = c]
    BY <1>2 DEF Open, PeersCommitted
  <2>2. peers \subseteq Streams \ {s}
    BY StreamsAssumption DEF LegacyPeers, LiveStreams
  <2>3. /\ Good(P) /\ P[s] = T[s] /\ P \in [Streams -> Stream]
        /\ \A p \in Streams :
             /\ p \in peers => ~P[p].open
             /\ p \notin peers => P[p] = T[p]
             /\ P[p].state = T[p].state /\ P[p].nonBlocking = T[p].nonBlocking
    BY <2>2, CommitSetGood DEF Good
  <2>4. /\ BufsOf(P) = BufsOf(T) /\ HndsOf(P) = HndsOf(T) /\ Kept(T, P)
        /\ \A p \in Streams : P[p].pending = T[p].pending /\ P[p].waited = T[p].waited
                              /\ P[p].hostValue = T[p].hostValue
    BY CommitSetView
  <2>5. \A p \in Streams : ~T[p].open => P[p] = T[p]
    BY DEF CommitSet, Commit, CommitWith
  <2>6. /\ deps = {<<Dev(p), P[p].fenceValue>> : p \in Unwaited(T, s)}
        /\ Unwaited(T, s) = {p \in peers : P[p].fenceValue > T[s].waited[p]}
    BY DEF LegacyDependencies, Unwaited, PeersCommitted
  <2>7. \A p \in Streams : P[p].fenceValue \in Nat
    BY <2>3, StreamFields
  <2>8. T[s].waited \in [Streams -> Nat] /\ T[s].pending \subseteq Wait
    BY <1>0, StreamFields
  <2> HIDE DEF P, peers, deps
  <2>9. own \cup deps \cup T[s].pending \subseteq Wait
    <3>1. own \subseteq Wait
      BY <1>0, StreamFields DEF Wait, Fence, Dev
    <3>2. deps \subseteq Wait
      BY <2>2, <2>6, <2>7 DEF Wait, Fence, Dev
    <3> QED BY <2>8, <3>1, <3>2
  <2>10. /\ first \in Item /\ first.waits = own \cup deps \cup T[s].pending
         /\ first.op = 0 /\ first.needs = {}
    BY <2>9 DEF WaitItem, Item
  <2>11. waited \in [Streams -> Nat]
    BY <2>2, <2>6, <2>7, <2>8
  <2>12. \A p \in Streams : waited[p] = T[s].waited[p] \/ <<Dev(p), waited[p]>> \in first.waits
    BY <2>6, <2>10
  <2>13. \A p \in peers : P[p].fenceValue <= waited[p]
    <3> SUFFICES ASSUME NEW p \in peers PROVE P[p].fenceValue <= waited[p]
      OBVIOUS
    <3>1. p \in Streams /\ P[p].fenceValue \in Nat /\ T[s].waited[p] \in Nat
      BY <2>2, <2>7, <2>8
    <3>2. waited[p] = IF p \in Unwaited(T, s) THEN P[p].fenceValue ELSE T[s].waited[p]
      BY <3>1
    <3>3. p \in Unwaited(T, s) <=> P[p].fenceValue > T[s].waited[p]
      BY <2>6
    <3> QED BY <3>1, <3>2, <3>3
  <2>14. DOMAIN body = {1} /\ body[1] = first
    OBVIOUS
  <2>15. c.open /\ c.body = body /\ c.pending = {} /\ c.sent = T[s].sent /\ c.waited = waited
         /\ c.state = T[s].state /\ c.nonBlocking = T[s].nonBlocking
         /\ c.fenceValue = T[s].fenceValue /\ c.hostValue = T[s].hostValue
    BY <1>0 DEF Stream
  <2>16. U[s] = c /\ \A p \in Streams \ {s} : U[p] = P[p]
    BY <2>1, <2>3
  <2>17. Reach(T[s]) = T[s].fenceValue /\ Reach(c) = T[s].fenceValue + 1 /\ Reach(T[s]) \in Nat
         /\ DOMAIN T[s].sent = 1..T[s].fenceValue
    BY <1>0, <1>2, <2>15, SentFacts DEF Reach
  <2>18. Reach(T[s]) > 0 => <<Dev(s), Reach(T[s])>> \in first.waits
    BY <2>10, <2>17
  <2>19. T[s].pending \subseteq first.waits
    BY <2>10
  <2> HIDE DEF first, waited, c, own
  <2>20. \A p \in Streams \ {s} : Bufs(U[p]) = Bufs(T[p]) /\ Hnds(U[p]) = Hnds(T[p])
    <3> SUFFICES ASSUME NEW p \in Streams \ {s} PROVE Bufs(U[p]) = Bufs(T[p]) /\ Hnds(U[p]) = Hnds(T[p])
      OBVIOUS
    <3>1. BufsOf(P)[p] = BufsOf(T)[p] /\ HndsOf(P)[p] = HndsOf(T)[p]
      BY <2>4
    <3> QED BY <2>16, <3>1 DEF BufsOf, HndsOf
  <2> DEFINE f == T[s].fenceValue
  <2>21. Bufs(c) = [i \in 1..(Reach(T[s]) + 1) |->
                      IF i = Reach(T[s]) + 1 THEN <<first>> ELSE Bufs(T[s])[i]]
    <3>1. Bufs(c) = [i \in 1..(f + 1) |-> IF i \in 1..f THEN T[s].sent[i].body ELSE body]
      BY <2>15, <2>17 DEF Bufs
    <3>2. Bufs(T[s]) = [i \in 1..f |-> IF i \in 1..f THEN T[s].sent[i].body ELSE T[s].body]
      BY <2>17 DEF Bufs
    <3>3. \A i \in 1..(f + 1) : i # f + 1 <=> i \in 1..f
      BY <2>17
    <3> HIDE DEF body
    <3>4. \A i \in 1..(f + 1) : (IF i \in 1..f THEN T[s].sent[i].body ELSE body)
                                = (IF i = f + 1 THEN body ELSE Bufs(T[s])[i])
      BY <3>2, <3>3
    <3> QED BY <2>17, <3>1, <3>4 DEF body
  <2>22. Hnds(c) = [i \in 1..(Reach(T[s]) + 1) |->
                      IF i = Reach(T[s]) + 1 THEN NoHandler ELSE Hnds(T[s])[i]]
    <3>1. Hnds(c) = [i \in 1..(f + 1) |-> IF i \in 1..f THEN T[s].sent[i].handler ELSE NoHandler]
      BY <2>15, <2>17 DEF Hnds
    <3>2. Hnds(T[s]) = [i \in 1..f |-> IF i \in 1..f THEN T[s].sent[i].handler ELSE NoHandler]
      BY <2>17 DEF Hnds
    <3>3. \A i \in 1..(f + 1) : i # f + 1 <=> i \in 1..f
      BY <2>17
    <3>4. \A i \in 1..(f + 1) : (IF i \in 1..f THEN T[s].sent[i].handler ELSE NoHandler)
                                = (IF i = f + 1 THEN NoHandler ELSE Hnds(T[s])[i])
      BY <3>2, <3>3
    <3> QED BY <2>17, <3>1, <3>4
  <2>23. Kept(T, U)
    <3> SUFFICES ASSUME NEW p \in Streams PROVE KeptSt(T[p], U[p])
      BY DEF Kept
    <3>1. CASE p = s
      BY <2>15, <2>16, <3>1 DEF KeptSt
    <3>2. CASE p # s
      BY <2>4, <2>16, <3>2 DEF Kept
    <3> QED BY <3>1, <3>2
  <2>24. \A p \in peers : ~U[p].open /\ U[p].fenceValue <= U[s].waited[p]
    BY <2>2, <2>3, <2>13, <2>15, <2>16
  <2>25. ASSUME NEW p \in Streams
         PROVE  /\ U[p].state = T[p].state /\ U[p].nonBlocking = T[p].nonBlocking
                /\ U[p].hostValue = T[p].hostValue
    <3>1. CASE p = s
      BY <2>15, <2>16, <3>1
    <3>2. CASE p # s
      BY <2>3, <2>4, <2>16, <3>2
    <3> QED BY <3>1, <3>2
  <2>26. \A p \in Streams \ {s} : U[p].pending = T[p].pending /\ U[p].waited = T[p].waited
                                  /\ (~T[p].open => U[p] = T[p])
    BY <2>4, <2>5, <2>16
  <2>27. Opened(T, U, s, first)
    BY <1>2, <2>10, <2>12, <2>15, <2>16, <2>18, <2>19, <2>20, <2>21, <2>22, <2>24, <2>25, <2>26
       DEF Opened, peers
  <2> QED BY <2>23, <2>27
<1> QED BY <1>1, <1>2

(* Item added to the open buffer of a stream; what follows may commit it. *)
Appended(st, c, item) ==
  /\ Reach(c) = Reach(st)
  /\ Bufs(c) = [Bufs(st) EXCEPT ![Reach(st)] = Append(@, item)]
  /\ Hnds(c) = Hnds(st)
  /\ c.pending = st.pending /\ c.waited = st.waited /\ c.hostValue = st.hostValue
  /\ c.state = st.state /\ c.nonBlocking = st.nonBlocking
  /\ KeptSt(st, c)

LEMMA EncodeView ==
  ASSUME NEW st \in Stream, Own(st), st.open, NEW item \in Item, NEW c, c = Encode(st, item)
  PROVE  Appended(st, c, item)
<1> DEFINE body == Append(st.body, item)
           r == Reach(st)
<1>1. /\ c.body = body /\ c.sent = st.sent /\ c.open = st.open /\ c.state = st.state
      /\ c.nonBlocking = st.nonBlocking /\ c.fenceValue = st.fenceValue /\ c.hostValue = st.hostValue
      /\ c.pending = st.pending /\ c.waited = st.waited
  BY DEF Encode, Stream
<1>2. Reach(c) = r /\ KeptSt(st, c) /\ Hnds(c) = Hnds(st)
  BY <1>1 DEF Reach, KeptSt, Hnds
<1>3. /\ r = st.fenceValue + 1 /\ r \in Nat \ {0} /\ DOMAIN st.sent = 1..(r - 1)
      /\ \A i \in 1..r : i # r <=> i \in 1..(r - 1)
  BY SentFacts
<1> HIDE DEF body, r
<1>4. Bufs(c) = [i \in 1..r |-> IF i \in 1..(r - 1) THEN st.sent[i].body ELSE body]
  BY <1>1, <1>2, <1>3 DEF Bufs
<1>5. Bufs(st) = [i \in 1..r |-> IF i \in 1..(r - 1) THEN st.sent[i].body ELSE st.body]
  BY <1>3 DEF Bufs, r
<1>6. Bufs(st)[r] = st.body /\ r \in 1..r
  BY <1>3, <1>5
<1>7. Bufs(c) = [Bufs(st) EXCEPT ![r] = body]
  BY <1>3, <1>4, <1>5
<1>8. Bufs(c) = [Bufs(st) EXCEPT ![r] = Append(@, item)]
  BY <1>5, <1>6, <1>7 DEF body
<1> QED BY <1>1, <1>2, <1>8 DEF Appended, r

(* BumpOps commits, or counts only. *)
LEMMA BumpOpsView ==
  ASSUME NEW st \in Stream, Own(st), NEW c, c = BumpOps(st)
  PROVE  /\ Bufs(c) = Bufs(st) /\ Hnds(c) = Hnds(st) /\ Reach(c) = Reach(st)
         /\ c.pending = st.pending /\ c.waited = st.waited /\ c.hostValue = st.hostValue
         /\ c.state = st.state /\ c.nonBlocking = st.nonBlocking
         /\ KeptSt(st, c)
<1> DEFINE n == st.ops + 1
           at == IF n # 1 THEN st.commitAt
                 ELSE IF Drained(st) THEN CommitFirst ELSE CommitThreshold
           st1 == [st EXCEPT !.ops = n, !.commitAt = at]
<1>1. n \in Nat /\ at \in Nat
  BY StreamFields, StreamsAssumption
<1>2. c = IF n >= at THEN CommitWith(st1, NoHandler) ELSE st1
  BY DEF BumpOps, Commit
<1> HIDE DEF n, at
<1>3. /\ st1 \in Stream /\ st1.fenceValue = st.fenceValue /\ st1.hostValue = st.hostValue
      /\ st1.open = st.open /\ st1.state = st.state /\ st1.nonBlocking = st.nonBlocking
      /\ st1.sent = st.sent /\ st1.body = st.body /\ st1.pending = st.pending /\ st1.waited = st.waited
  BY <1>1 DEF Stream
<1> HIDE DEF st1
<1>4. Own(st1) /\ Bufs(st1) = Bufs(st) /\ Hnds(st1) = Hnds(st) /\ Reach(st1) = Reach(st)
  BY <1>3 DEF Own, Counts, Bufs, Hnds, Reach
<1>5. \A x : KeptSt(st1, x) => KeptSt(st, x)
  BY <1>3 DEF KeptSt
<1>6. CASE ~(n >= at)
  BY <1>2, <1>3, <1>4, <1>6 DEF KeptSt
<1>7. CASE n >= at
  <2>1. c = CommitWith(st1, NoHandler)
    BY <1>2, <1>7
  <2>2. Bufs(c) = Bufs(st1) /\ Hnds(c) = Hnds(st1) /\ Reach(c) = Reach(st1) /\ KeptSt(st1, c)
    BY <1>3, <1>4, <2>1, CommitView, NoHandlerType
  <2>3. /\ c.pending = st1.pending /\ c.waited = st1.waited /\ c.hostValue = st1.hostValue
        /\ c.state = st1.state /\ c.nonBlocking = st1.nonBlocking
    BY <1>3, <1>4, <2>1, CommitFacts, NoHandlerType
  <2> QED BY <1>3, <1>4, <1>5, <2>2, <2>3
<1> QED BY <1>6, <1>7

(* A kernel encoded on s. *)
KernelItem(o, needs) == [waits |-> {}, needs |-> needs, op |-> o, staging |-> {}]

LEMMA EncodeKernelView ==
  ASSUME NEW T, Good(T), signal \in [Fence -> Nat], NEW s \in Streams, T[s].state = "live",
         NEW O, O = Open(T, s), NEW o \in Nat, NEW needs \in SUBSET Nat,
         NEW U, U = EncodeKernel(T, s, o, needs)
  PROVE  /\ Appended(O[s], U[s], KernelItem(o, needs))
         /\ \A p \in Streams \ {s} : U[p] = O[p]
<1> DEFINE item == KernelItem(o, needs)
           e == Encode(O[s], item)
           c == BumpOps(e)
<1>1. Good(O) /\ O[s].open
  BY OpenGood
<1>2. O[s] \in Stream /\ Own(O[s]) /\ O \in [Streams -> Stream]
  BY <1>1 DEF Good
<1>3. item \in Item /\ item.waits = {} /\ item.op = o
  BY DEF Item, KernelItem
<1>4. U = [O EXCEPT ![s] = c]
  BY <1>2 DEF EncodeKernel, KernelItem
<1> HIDE DEF item
<1>5. /\ e \in Stream /\ e.sent = O[s].sent /\ e.open = O[s].open /\ e.state = O[s].state
      /\ e.fenceValue = O[s].fenceValue /\ e.hostValue = O[s].hostValue
  BY <1>2, <1>3, EncodeFacts
<1>6. Appended(O[s], e, item)
  BY <1>1, <1>2, <1>3, EncodeView
<1> HIDE DEF e
<1>7. Own(e)
  BY <1>2, <1>5 DEF Own, Counts
<1>8. /\ Bufs(c) = Bufs(e) /\ Hnds(c) = Hnds(e) /\ Reach(c) = Reach(e)
      /\ c.pending = e.pending /\ c.waited = e.waited /\ c.hostValue = e.hostValue
      /\ c.state = e.state /\ c.nonBlocking = e.nonBlocking /\ KeptSt(e, c)
  BY <1>5, <1>7, BumpOpsView
<1> HIDE DEF c
<1>9. KeptSt(O[s], c)
  BY <1>5, <1>8 DEF KeptSt
<1>10. Appended(O[s], c, item)
  BY <1>6, <1>8, <1>9 DEF Appended
<1>11. U[s] = c /\ \A p \in Streams \ {s} : U[p] = O[p]
  BY <1>2, <1>4
<1> QED BY <1>10, <1>11 DEF item

-----------------------------------------------------------------------------
(* Calls make the lists longer *)

LEMMA LongerSame ==
  ASSUME NEW T, NEW U, Kept(T, U), BufsOf(U) = BufsOf(T)
  PROVE  Longer(T, U)
  BY DEF Longer, Ext

LEMMA LongerRefl == ASSUME NEW T PROVE Longer(T, T)
  BY LongerSame DEF Kept, KeptSt

LEMMA LongerTrans ==
  ASSUME NEW T, NEW U, NEW V, Longer(T, U), Longer(U, V)
  PROVE  Longer(T, V)
<1>1. Ext(BufsOf(T), BufsOf(V))
  BY DEF Longer, Ext
<1>2. ASSUME NEW s \in Streams PROVE KeptSt(T[s], V[s])
  <2>1. KeptSt(T[s], U[s]) /\ KeptSt(U[s], V[s])
    BY DEF Longer, Kept
  <2> QED BY <2>1 DEF KeptSt
<1> QED BY <1>1, <1>2 DEF Longer, Kept

LEMMA CommitSetLonger ==
  ASSUME NEW T, Good(T), NEW S, NEW U, U = CommitSet(T, S)
  PROVE  Longer(T, U)
  BY CommitSetView, LongerSame

LEMMA OpenLonger ==
  ASSUME NEW T, Good(T), signal \in [Fence -> Nat], NEW s \in Streams, T[s].state = "live",
         NEW U, U = Open(T, s)
  PROVE  Longer(T, U)
<1>1. CASE U = T
  BY <1>1, LongerRefl
<1>2. ASSUME NEW first, Opened(T, U, s, first) PROVE Longer(T, U)
  <2> DEFINE B == BufsOf(T)
             C == BufsOf(U)
             r == Reach(T[s])
  <2>1. T[s] \in Stream /\ Own(T[s])
    BY DEF Good
  <2>2. r \in Nat /\ DOMAIN B[s] = 1..r
    BY <2>1, SentFacts, ViewFacts DEF BufsOf
  <2>3. \A p \in Streams \ {s} : C[p] = B[p]
    BY <1>2 DEF Opened, BufsOf
  <2>4. C[s] = [i \in 1..(r + 1) |-> IF i = r + 1 THEN <<first>> ELSE B[s][i]]
    BY <1>2 DEF Opened, BufsOf
  <2>5. r > 0 => <<Dev(s), r>> \in first.waits
    BY <1>2 DEF Opened
  <2> HIDE DEF B, C, r
  <2>6. /\ DOMAIN C[s] = 1..(r + 1) /\ C[s][r + 1] = <<first>>
        /\ \A i \in 1..r : i \in 1..(r + 1) /\ C[s][i] = B[s][i]
    BY <2>2, <2>4
  <2>7. Ext(B, C)
    BY <2>2, <2>3, <2>6 DEF Ext
  <2>8. ASSUME Chained(B) PROVE Chained(C)
    <3> SUFFICES ASSUME NEW p \in Streams, NEW i \in DOMAIN C[p]
                 PROVE  C[p][i] # <<>> /\ (i > 1 => <<Dev(p), i - 1>> \in C[p][i][1].waits)
      BY DEF Chained
    <3>1. CASE p # s
      BY <2>3, <2>8, <3>1 DEF Chained
    <3>2. CASE p = s /\ i \in 1..r
      BY <2>2, <2>6, <2>8, <3>2 DEF Chained
    <3>3. CASE p = s /\ i = r + 1
      <4>1. C[p][i] = <<first>> /\ C[p][i] # <<>> /\ C[p][i][1] = first
        BY <2>6, <3>3
      <4>2. i > 1 => r > 0 /\ i - 1 = r
        BY <2>2, <3>3
      <4> QED BY <2>5, <3>3, <4>1, <4>2
    <3>4. p = s => i \in 1..r \/ i = r + 1
      BY <2>2, <2>6
    <3> QED BY <3>1, <3>2, <3>3, <3>4
  <2>9. Kept(T, U)
    BY OpenView
  <2> QED BY <2>7, <2>8, <2>9 DEF Longer, B, C
<1> QED BY <1>1, <1>2, OpenView

(* What adding an item does to the lists of the table. *)
LEMMA AppendedBufs ==
  ASSUME NEW T, Good(T), NEW s \in Streams, T[s].open, NEW item \in Item, NEW U,
         Appended(T[s], U[s], item), \A p \in Streams \ {s} : U[p] = T[p],
         NEW B, B = BufsOf(T), NEW C, C = BufsOf(U), NEW r, r = Reach(T[s])
  PROVE  /\ r \in Nat \ {0} /\ DOMAIN B[s] = 1..r /\ DOMAIN C[s] = 1..r
         /\ \A p \in Streams \ {s} : C[p] = B[p]
         /\ \A i \in 1..(r - 1) : C[s][i] = B[s][i]
         /\ Len(B[s][r]) \in Nat /\ DOMAIN B[s][r] = 1..Len(B[s][r])
         /\ DOMAIN C[s][r] = 1..(Len(B[s][r]) + 1)
         /\ \A m \in 1..Len(B[s][r]) : C[s][r][m] = B[s][r][m]
         /\ C[s][r][Len(B[s][r]) + 1] = item
         /\ HndsOf(U) = HndsOf(T)
<1>1. T[s] \in Stream /\ Own(T[s])
  BY DEF Good
<1>2. r \in Nat \ {0}
  BY <1>1, SentFacts
<1>3. B[s] = Bufs(T[s]) /\ C[s] = Bufs(U[s]) /\ \A p \in Streams \ {s} : C[p] = B[p]
  BY DEF BufsOf
<1>4. DOMAIN B[s] = 1..r /\ B[s][r] \in Seq(Item)
  BY <1>1, <1>2, <1>3, ViewFacts
<1>5. C[s] = [B[s] EXCEPT ![r] = Append(B[s][r], item)]
  BY <1>3 DEF Appended
<1>6. DOMAIN C[s] = 1..r /\ C[s][r] = Append(B[s][r], item) /\ \A i \in 1..(r - 1) : C[s][i] = B[s][i]
  BY <1>2, <1>4, <1>5
<1>7. HndsOf(U) = HndsOf(T)
  BY DEF HndsOf, Appended
<1>8. /\ Len(B[s][r]) \in Nat /\ DOMAIN B[s][r] = 1..Len(B[s][r])
      /\ DOMAIN C[s][r] = 1..(Len(B[s][r]) + 1)
      /\ \A m \in 1..Len(B[s][r]) : C[s][r][m] = B[s][r][m]
      /\ C[s][r][Len(B[s][r]) + 1] = item
  BY <1>4, <1>6
<1> QED BY <1>2, <1>3, <1>4, <1>6, <1>7, <1>8

LEMMA AppendedLonger ==
  ASSUME NEW T, Good(T), NEW s \in Streams, T[s].open, NEW item \in Item, NEW U,
         Appended(T[s], U[s], item), \A p \in Streams \ {s} : U[p] = T[p]
  PROVE  Longer(T, U)
<1> DEFINE B == BufsOf(T)
           C == BufsOf(U)
           r == Reach(T[s])
           n == Len(B[s][r])
<1>1. /\ r \in Nat \ {0} /\ DOMAIN B[s] = 1..r /\ DOMAIN C[s] = 1..r
      /\ \A p \in Streams \ {s} : C[p] = B[p]
      /\ \A i \in 1..(r - 1) : C[s][i] = B[s][i]
      /\ n \in Nat /\ DOMAIN B[s][r] = 1..n /\ DOMAIN C[s][r] = 1..(n + 1)
      /\ \A m \in 1..n : C[s][r][m] = B[s][r][m]
  BY AppendedBufs
<1>2. Kept(T, U)
  BY DEF Kept, Appended, KeptSt
<1> HIDE DEF B, C, r, n
<1>3. \A i \in 1..r : i \in 1..(r - 1) \/ i = r
  BY <1>1
<1>4. Ext(B, C)
  <2> SUFFICES ASSUME NEW p \in Streams, NEW i \in DOMAIN B[p]
               PROVE  /\ i \in DOMAIN C[p]
                      /\ \A m \in DOMAIN B[p][i] : m \in DOMAIN C[p][i] /\ C[p][i][m] = B[p][i][m]
    BY DEF Ext
  <2>1. CASE p # s \/ i # r
    BY <1>1, <1>3, <2>1
  <2>2. CASE p = s /\ i = r
    <3>1. \A m \in 1..n : m \in 1..(n + 1)
      BY <1>1
    <3> QED BY <1>1, <2>2, <3>1
  <2> QED BY <2>1, <2>2
<1>5. ASSUME Chained(B) PROVE Chained(C)
  <2> SUFFICES ASSUME NEW p \in Streams, NEW i \in DOMAIN C[p]
               PROVE  C[p][i] # <<>> /\ (i > 1 => <<Dev(p), i - 1>> \in C[p][i][1].waits)
    BY DEF Chained
  <2>0. B[p][i] # <<>> /\ (i > 1 => <<Dev(p), i - 1>> \in B[p][i][1].waits) /\ i \in DOMAIN B[p]
    BY <1>1, <1>5 DEF Chained
  <2>1. CASE p # s \/ i # r
    BY <1>1, <1>3, <2>0, <2>1
  <2>2. CASE p = s /\ i = r
    <3>1. B[s][r] \in Seq(Item)
      <4>1. T[s] \in Stream /\ Own(T[s])
        BY DEF Good
      <4>2. B[s] = Bufs(T[s])
        BY DEF B, BufsOf
      <4> QED BY <1>1, <4>1, <4>2, ViewFacts
    <3>2. n > 0
      BY <1>1, <2>0, <2>2, <3>1 DEF n
    <3>3. C[s][r][1] = B[s][r][1]
      BY <1>1, <3>2
    <3>4. C[s][r] # <<>>
      BY <1>1, <3>2
    <3> QED BY <2>0, <2>2, <3>3, <3>4
  <2> QED BY <2>1, <2>2
<1> QED BY <1>2, <1>4, <1>5 DEF Longer, B, C

-----------------------------------------------------------------------------
(* The inductive invariant of host waits and queries *)

(* A committed buffer: the operations the GPU has executed are done, the   *)
(* fence has passed the buffer exactly when it has signalled, which it     *)
(* does when all of it is executed, and what is executed had waited.       *)
BufRan(b, D) == b.at <= Len(b.body) /\ \A m \in 1..b.at : b.body[m].op \in D \cup {0}
BufSignalled(b, i, v) ==
  /\ i <= v <=> b.status \in {"signalled", "completed"}
  /\ i <= v => b.at = Len(b.body)
BufWaited(b, sig, kind) ==
  \A m \in 1..b.at : \A w \in b.body[m].waits : w[1][1] = kind => sig[w[1]] >= w[2]

Executed ==
  \A s \in Streams :
    /\ signal[Dev(s)] <= Len(str[s].sent)
    /\ \A i \in DOMAIN str[s].sent :
         /\ BufRan(str[s].sent[i], done)
         /\ BufSignalled(str[s].sent[i], i, signal[Dev(s)])
         /\ BufWaited(str[s].sent[i], signal, "dev")

(* What a wait for a stream or an event answers for is in the buffers it   *)
(* waits for.                                                              *)
LastHeld == \A s \in Streams : \A a \in last[s] : a \in done \/ Queues(BufsOf(str), s, a)
MarkHeld ==
  \A e \in Events : \A a \in mark[e] :
    a \in done \/ (ev[e].recorded /\ Holds(BufsOf(str), ev[e].stream, ev[e].value, a))

(* No buffer is open while the host waits. *)
Flushed == host.todo # {} \/ host.event # {} => \A s \in Streams : ~str[s].open

EInv == IInv /\ Executed /\ Chained(BufsOf(str)) /\ LastHeld /\ MarkHeld /\ Flushed

LEMMA QueuesExt ==
  ASSUME NEW B, NEW C, Ext(B, C), NEW s \in Streams, NEW a, Queues(B, s, a)
  PROVE  Queues(C, s, a)
  BY DEF Ext, Queues, InBuf

LEMMA HoldsExt ==
  ASSUME NEW B, NEW C, Ext(B, C), NEW s \in Streams, NEW v, NEW a, Holds(B, s, v, a)
  PROVE  Holds(C, s, v, a)
  BY DEF Ext, Holds, InBuf

LEMMA KeptExecuted ==
  ASSUME EInv, IInv', Kept(str, str'), UNCHANGED <<signal, done>>
  PROVE  Executed'
<1> SUFFICES ASSUME NEW s \in Streams
             PROVE  /\ signal[Dev(s)] <= Len(str'[s].sent)
                    /\ \A i \in DOMAIN str'[s].sent :
                         /\ BufRan(str'[s].sent[i], done)
                         /\ BufSignalled(str'[s].sent[i], i, signal[Dev(s)])
                         /\ BufWaited(str'[s].sent[i], signal, "dev")
  BY DEF Executed, BufRan, BufSignalled, BufWaited
<1> DEFINE x == str[s].sent
           y == str'[s].sent
           v == signal[Dev(s)]
<1>1. str[s] \in Stream /\ Own(str[s]) /\ str'[s] \in Stream /\ Own(str'[s])
  BY DEF EInv, IInv, Good
<1>2. DOMAIN x = 1..Len(x) /\ Len(x) \in Nat
  BY <1>1, SentFacts
<1>3. DOMAIN y = 1..Len(y) /\ Len(y) \in Nat /\ \A i \in DOMAIN y : y[i].body \in Seq(Item)
  BY <1>1, SentFacts
<1>4. /\ \A i \in DOMAIN x : i \in DOMAIN y /\ y[i] = x[i]
      /\ \A i \in DOMAIN y \ DOMAIN x : y[i].at = 0 /\ y[i].status = "committed"
  BY DEF Kept, KeptSt
<1>5. v \in Nat /\ v <= Len(x)
  BY DEF EInv, IInv, Executed, Fence, Dev
<1>6. \A i \in DOMAIN x : BufRan(x[i], done) /\ BufSignalled(x[i], i, v) /\ BufWaited(x[i], signal, "dev")
  BY DEF EInv, Executed
<1> HIDE DEF x, y, v
<1>7. Len(x) <= Len(y)
  <2>1. CASE Len(x) = 0
    BY <1>3, <2>1
  <2>2. CASE Len(x) # 0
    <3>1. Len(x) \in DOMAIN x
      BY <1>2, <2>2
    <3> QED BY <1>3, <1>4, <3>1
  <2> QED BY <2>1, <2>2
<1>8. ASSUME NEW i \in DOMAIN y
      PROVE  BufRan(y[i], done) /\ BufSignalled(y[i], i, v) /\ BufWaited(y[i], signal, "dev")
  <2>1. CASE i \in DOMAIN x
    BY <1>4, <1>6, <2>1
  <2>2. CASE i \notin DOMAIN x
    <3>1. y[i].at = 0 /\ y[i].status = "committed" /\ Len(y[i].body) \in Nat
      BY <1>3, <1>4, <2>2
    <3>2. ~(i <= v)
      BY <1>2, <1>3, <1>5, <2>2
    <3> QED BY <3>1, <3>2 DEF BufRan, BufSignalled, BufWaited
  <2> QED BY <2>1, <2>2
<1> QED BY <1>2, <1>3, <1>5, <1>7, <1>8 DEF x, y, v

(* What a call has to show. *)
LEMMA CallEInv ==
  ASSUME EInv, IInv', Longer(str, str'), UNCHANGED <<signal, done>>, LastHeld', MarkHeld', Flushed'
  PROVE  EInv'
<1>1. Executed'
  BY KeptExecuted DEF Longer
<1>2. Chained(BufsOf(str'))
  BY DEF Longer, EInv
<1> QED BY <1>1, <1>2 DEF EInv

LEMMA LastKept ==
  ASSUME EInv, Longer(str, str'), UNCHANGED <<last, done>>
  PROVE  LastHeld'
<1> SUFFICES ASSUME NEW s \in Streams, NEW a \in last[s], a \notin done
             PROVE  Queues(BufsOf(str'), s, a)
  BY DEF LastHeld
<1>1. Queues(BufsOf(str), s, a)
  BY DEF EInv, LastHeld
<1> QED BY <1>1, QueuesExt DEF Longer

LEMMA EventStream == ASSUME IInv, NEW e \in Events PROVE ev[e].stream \in Streams /\ ev[e].value \in Nat
  BY DEF IInv, Event

LEMMA MarkKept ==
  ASSUME EInv, Longer(str, str'), UNCHANGED <<mark, done>>,
         \A e \in Events : /\ ev'[e].recorded = ev[e].recorded /\ ev'[e].stream = ev[e].stream
                           /\ ev'[e].value = ev[e].value
  PROVE  MarkHeld'
<1> SUFFICES ASSUME NEW e \in Events, NEW a \in mark[e], a \notin done
             PROVE  ev[e].recorded /\ Holds(BufsOf(str'), ev[e].stream, ev[e].value, a)
  BY DEF MarkHeld
<1>1. ev[e].recorded /\ Holds(BufsOf(str), ev[e].stream, ev[e].value, a)
  BY DEF EInv, MarkHeld
<1>2. ev[e].stream \in Streams
  BY EventStream DEF EInv
<1> QED BY <1>1, <1>2, HoldsExt DEF Longer

(* A call that changes neither the history nor the events. *)
LEMMA QuietEInv ==
  ASSUME EInv, IInv', Longer(str, str'), UNCHANGED <<signal, ev, hist>>, Flushed'
  PROVE  EInv'
  BY CallEInv, LastKept, MarkKept DEF hist

LEMMA ReturnFlushed == ASSUME EInv, Enter, NEW code, Returns(code) PROVE Flushed'
  BY DEF Flushed, Enter, Returns, Idling

(* A step that leaves the table alone. *)
LEMMA StillEInv ==
  ASSUME EInv, IInv', UNCHANGED <<str, signal, hist>>,
         \A e \in Events : /\ ev'[e].recorded = ev[e].recorded /\ ev'[e].stream = ev[e].stream
                           /\ ev'[e].value = ev[e].value,
         host'.todo # {} \/ host'.event # {} => host.todo # {} \/ host.event # {}
  PROVE  EInv'
<1>1. Longer(str, str')
  BY LongerRefl
<1>2. Flushed'
  BY DEF EInv, Flushed
<1> QED BY <1>1, <1>2, CallEInv, LastKept, MarkKept DEF hist

-----------------------------------------------------------------------------
(* What each call does to the table *)

LEMMA ReplaceLonger ==
  ASSUME NEW T \in [Streams -> Stream], NEW s \in Streams, NEW c, Bufs(c) = Bufs(T[s]), KeptSt(T[s], c),
         NEW U, U = [T EXCEPT ![s] = c]
  PROVE  Longer(T, U)
<1>1. U[s] = c /\ \A p \in Streams \ {s} : U[p] = T[p]
  OBVIOUS
<1>2. BufsOf(U) = BufsOf(T)
  BY <1>1 DEF BufsOf
<1>3. Kept(T, U)
  BY <1>1 DEF Kept, KeptSt
<1> QED BY <1>2, <1>3, LongerSame

LEMMA CreateLonger ==
  ASSUME IInv, NEW s \in Streams, NEW nb \in BOOLEAN, CreateStream(s, nb)
  PROVE  /\ Longer(str, str') /\ HndsOf(str') = HndsOf(str)
         /\ str' = [str EXCEPT ![s] = NewStream("live", nb)]
         /\ Reach(str[s]) = 0
<1> DEFINE st == NewStream("live", nb)
<1>1. str[s].state = "new" /\ str' = [str EXCEPT ![s] = st]
  BY DEF CreateStream
<1>2. st.sent = <<>> /\ Reach(st) = 0
  BY NewStreamFacts DEF NewStream
<1>3. str \in [Streams -> Stream] /\ str[s] \in Stream /\ Own(str[s])
  BY DEF IInv, Good
<1>4. str[s].fenceValue = 0 /\ ~str[s].open
  BY <1>1, <1>3 DEF Own
<1>5. Reach(str[s]) = 0 /\ DOMAIN str[s].sent = {}
  BY <1>3, <1>4, SentFacts DEF Reach
<1>6. Bufs(st) = Bufs(str[s]) /\ Hnds(st) = Hnds(str[s])
  BY <1>2, <1>5 DEF Bufs, Hnds
<1>7. KeptSt(str[s], st)
  BY <1>2, <1>5 DEF KeptSt
<1> HIDE DEF st
<1>8. Longer(str, str')
  BY <1>1, <1>3, <1>6, <1>7, ReplaceLonger
<1>9. HndsOf(str') = HndsOf(str)
  BY <1>1, <1>3, <1>6 DEF HndsOf
<1> QED BY <1>1, <1>5, <1>8, <1>9 DEF st

LEMMA DestroyLonger ==
  ASSUME IInv, NEW s \in Streams, DestroyStream(s)
  PROVE  /\ Longer(str, str') /\ HndsOf(str') = HndsOf(str)
         /\ \E d : /\ str' = [str EXCEPT ![s] = d] /\ d.state = "gone" /\ ~d.open
                   /\ d.pending = {} /\ d.waited = str[s].waited /\ d.hostValue = str[s].hostValue
<1> DEFINE c == CommitWith(str[s], NoHandler)
           d == [c EXCEPT !.state = "gone", !.retired = {}, !.pending = {}]
<1>1. str \in [Streams -> Stream] /\ str[s] \in Stream /\ Own(str[s])
  BY DEF IInv, Good
<1>2. str' = [str EXCEPT ![s] = d]
  BY DEF DestroyStream, Commit, IInv, Good
<1>3. /\ c \in Stream /\ ~c.open /\ c.hostValue = str[s].hostValue /\ c.waited = str[s].waited
      /\ Bufs(c) = Bufs(str[s]) /\ Hnds(c) = Hnds(str[s]) /\ KeptSt(str[s], c)
  BY <1>1, CommitType, CommitFacts, CommitView, NoHandlerType
<1> HIDE DEF c
<1>4. /\ d.state = "gone" /\ d.pending = {} /\ d.open = c.open /\ d.sent = c.sent
      /\ d.body = c.body /\ d.fenceValue = c.fenceValue /\ d.hostValue = c.hostValue
      /\ d.waited = c.waited
  BY <1>3 DEF Stream
<1> HIDE DEF d
<1>5. Bufs(d) = Bufs(str[s]) /\ Hnds(d) = Hnds(str[s]) /\ KeptSt(str[s], d)
  BY <1>3, <1>4 DEF Bufs, Hnds, Reach, KeptSt
<1>6. Longer(str, str')
  BY <1>1, <1>2, <1>5, ReplaceLonger
<1>7. HndsOf(str') = HndsOf(str)
  BY <1>1, <1>2, <1>5 DEF HndsOf
<1> QED BY <1>2, <1>3, <1>4, <1>6, <1>7

LEMMA CommitIsSet ==
  ASSUME NEW T \in [Streams -> Stream], NEW s \in Streams
  PROVE  [T EXCEPT ![s] = Commit(@)] = CommitSet(T, {s})
  BY DEF CommitSet

LEMMA FlushEventIsSet ==
  ASSUME IInv, NEW e \in Events
  PROVE  \E S : FlushEvent(str, e) = CommitSet(str, S)
<1>1. str \in [Streams -> Stream] /\ ev[e].stream \in Streams
  BY EventStream DEF IInv, Good
<1>2. CommitSet(str, {}) = str
  BY <1>1 DEF CommitSet
<1> QED BY <1>1, <1>2, CommitIsSet DEF FlushEvent

(* A host function's buffer: the one open, or a new one, committed with    *)
(* the handler h; the next buffer will wait for the handler.               *)
Handed(st, d, h) ==
  /\ Bufs(d) = Bufs(st) /\ Reach(d) = Reach(st)
  /\ Hnds(d) = [Hnds(st) EXCEPT ![Reach(st)] = h]
  /\ ~d.open /\ d.state = st.state /\ d.nonBlocking = st.nonBlocking
  /\ d.waited = st.waited /\ d.hostValue = h.value
  /\ KeptSt(st, d)

LEMMA LaunchHostFuncView ==
  ASSUME IInv, NEW s \in Streams, LaunchHostFunc(s),
         NEW O, O = Open(str, s), NEW h, h = [op |-> CO!NewOp, value |-> str[s].hostValue + 1]
  PROVE  /\ h \in Handler /\ Handed(O[s], str'[s], h)
         /\ str'[s].pending = O[s].pending \cup {<<Host(s), h.value>>}
         /\ \A p \in Streams \ {s} : str'[p] = O[p]
         /\ Longer(O, str') /\ Longer(str, str')
<1> DEFINE v == str[s].hostValue + 1
           c == CommitWith(O[s], h)
           w == <<Host(s), v>>
           d == [c EXCEPT !.hostValue = v, !.pending = @ \cup {w}]
<1>1. Good(str) /\ str[s] \in Stream /\ str[s].state = "live" /\ signal \in [Fence -> Nat]
  BY DEF LaunchHostFunc, On, IInv, Good
<1>2. Good(O) /\ O[s].open /\ O \in [Streams -> Stream]
  BY <1>1, OpenGood DEF Good
<1>3. O[s] \in Stream /\ Own(O[s])
  BY <1>2 DEF Good
<1>4. str' = [O EXCEPT ![s] = d]
  BY DEF LaunchHostFunc
<1>5. v \in Nat
  BY <1>1, StreamFields
<1>6. h \in Handler /\ h.value = v
  BY <1>5, NewOpType DEF Handler
<1> HIDE DEF v
<1>7. /\ c \in Stream /\ ~c.open /\ c.state = O[s].state /\ c.nonBlocking = O[s].nonBlocking
      /\ c.waited = O[s].waited /\ c.pending = O[s].pending
      /\ Bufs(c) = Bufs(O[s]) /\ Reach(c) = Reach(O[s]) /\ KeptSt(O[s], c)
      /\ Hnds(c) = [Hnds(O[s]) EXCEPT ![Reach(O[s])] = h]
  BY <1>2, <1>3, <1>6, CommitType, CommitFacts, CommitView
<1> HIDE DEF c, w
<1>8. /\ d.state = c.state /\ d.nonBlocking = c.nonBlocking /\ d.open = c.open
      /\ d.sent = c.sent /\ d.body = c.body /\ d.pending = c.pending \cup {w}
      /\ d.fenceValue = c.fenceValue /\ d.hostValue = v /\ d.waited = c.waited
  BY <1>7 DEF Stream
<1> HIDE DEF d
<1>9. Bufs(d) = Bufs(c) /\ Hnds(d) = Hnds(c) /\ Reach(d) = Reach(c) /\ KeptSt(O[s], d)
  BY <1>7, <1>8 DEF Bufs, Hnds, Reach, KeptSt
<1>10. Handed(O[s], d, h)
  BY <1>6, <1>7, <1>8, <1>9 DEF Handed
<1>11. str'[s] = d /\ \A p \in Streams \ {s} : str'[p] = O[p]
  BY <1>2, <1>4
<1>12. Longer(O, str')
  BY <1>2, <1>4, <1>7, <1>9, ReplaceLonger
<1>13. Longer(str, O)
  BY <1>1, OpenLonger
<1>14. Longer(str, str')
  BY <1>12, <1>13, LongerTrans
<1> QED BY <1>6, <1>7, <1>8, <1>10, <1>11, <1>12, <1>14 DEF w

LEMMA LaunchView ==
  ASSUME IInv, NEW s \in Streams, NEW needs, Launch(s, needs), NEW O, O = Open(str, s)
  PROVE  /\ KernelItem(CO!NewOp, needs) \in Item
         /\ KernelItem(CO!NewOp, needs).waits = {} /\ KernelItem(CO!NewOp, needs).op = CO!NewOp
         /\ Appended(O[s], str'[s], KernelItem(CO!NewOp, needs))
         /\ \A p \in Streams \ {s} : str'[p] = O[p]
         /\ Longer(O, str') /\ Longer(str, str')
<1>1. Good(str) /\ str[s].state = "live" /\ signal \in [Fence -> Nat] /\ CO!NewOp \in Nat
  BY NewOpType DEF Launch, On, IInv
<1>2. needs \in SUBSET Nat
  <2>1. DOMAIN log \subseteq Nat
    BY DEF IInv, Hist_OK
  <2> QED BY <2>1 DEF Launch
<1>3. str' = EncodeKernel(str, s, CO!NewOp, needs)
  BY DEF Launch
<1> DEFINE item == KernelItem(CO!NewOp, needs)
<1>4. Appended(O[s], str'[s], item) /\ \A p \in Streams \ {s} : str'[p] = O[p]
  BY <1>1, <1>2, <1>3, EncodeKernelView
<1>5. item \in Item /\ item.waits = {} /\ item.op = CO!NewOp
  BY <1>1, <1>2 DEF Item, KernelItem
<1> HIDE DEF item
<1>6. Good(O) /\ O[s].open
  BY <1>1, OpenGood
<1>7. Longer(O, str')
  BY <1>4, <1>5, <1>6, AppendedLonger
<1>8. Longer(str, str')
  BY <1>1, <1>7, OpenLonger, LongerTrans
<1> QED BY <1>4, <1>5, <1>7, <1>8 DEF item

(* A wait added to the open buffer of s, or to those of the next one. *)
LEMMA WaitEventView ==
  ASSUME IInv, NEW s \in Streams, NEW e \in Events, StreamWaitEvent(s, e),
         NEW F, F = FlushEvent(str, e), NEW w, w = <<Dev(ev[e].stream), ev[e].value>>
  PROVE  /\ Longer(str, F) /\ Longer(F, str') /\ Longer(str, str') /\ HndsOf(str') = HndsOf(F)
         /\ Good(F) /\ WaitItem({w}) \in Item /\ WaitItem({w}).waits = {w} /\ WaitItem({w}).op = 0
         /\ \/ (~ev[e].recorded \/ ev[e].stream = s) /\ str' = F
            \/ /\ ev[e].recorded /\ F[s].open
               /\ Appended(F[s], str'[s], WaitItem({w}))
               /\ str' = [F EXCEPT ![s] = Encode(F[s], WaitItem({w}))]
            \/ /\ ev[e].recorded /\ ~F[s].open
               /\ str' = [F EXCEPT ![s] = [F[s] EXCEPT !.pending = @ \cup {w}]]
<1>1. Good(F) /\ F \in [Streams -> Stream]
  BY FlushEventGood DEF Good
<1>2. F[s] \in Stream /\ Own(F[s])
  BY <1>1 DEF Good
<1>3. str' = IF ~ev[e].recorded \/ ev[e].stream = s THEN F
             ELSE IF F[s].open THEN [F EXCEPT ![s] = Encode(F[s], WaitItem({w}))]
             ELSE [F EXCEPT ![s] = [F[s] EXCEPT !.pending = @ \cup {w}]]
  BY DEF StreamWaitEvent
<1>4. w \in Wait
  BY EventStream DEF Wait, Fence, Dev
<1>5. Longer(str, F)
  BY FlushEventIsSet, CommitSetLonger DEF IInv
<1>6. WaitItem({w}) \in Item /\ WaitItem({w}).waits = {w} /\ WaitItem({w}).op = 0
  BY <1>4 DEF WaitItem, Item
<1> DEFINE item == WaitItem({w})
<1> HIDE DEF item
<1>7. CASE ~ev[e].recorded \/ ev[e].stream = s
  <2>1. str' = F
    BY <1>3, <1>7
  <2>2. Longer(F, str')
    BY <2>1, LongerRefl
  <2> QED BY <1>1, <1>5, <1>6, <1>7, <2>1, <2>2
<1>8. CASE ev[e].recorded /\ ev[e].stream # s /\ F[s].open
  <2> DEFINE c == Encode(F[s], item)
  <2>1. str' = [F EXCEPT ![s] = c]
    BY <1>3, <1>8 DEF item
  <2>2. Appended(F[s], c, item)
    BY <1>2, <1>6, <1>8, EncodeView DEF item
  <2> HIDE DEF c
  <2>3. str'[s] = c /\ \A p \in Streams \ {s} : str'[p] = F[p]
    BY <1>1, <2>1
  <2>4. Longer(F, str')
    BY <1>1, <1>6, <1>8, <2>2, <2>3, AppendedLonger DEF item
  <2>5. Longer(str, str')
    BY <1>5, <2>4, LongerTrans
  <2>6. HndsOf(str') = HndsOf(F)
    BY <2>2, <2>3 DEF HndsOf, Appended
  <2> QED BY <1>1, <1>5, <1>6, <1>8, <2>1, <2>2, <2>3, <2>4, <2>5, <2>6 DEF c, item
<1>9. CASE ev[e].recorded /\ ev[e].stream # s /\ ~F[s].open
  <2> DEFINE c == [F[s] EXCEPT !.pending = @ \cup {w}]
  <2>1. /\ c.sent = F[s].sent /\ c.open = F[s].open /\ c.fenceValue = F[s].fenceValue
        /\ c.body = F[s].body
    BY <1>2 DEF Stream
  <2>2. str' = [F EXCEPT ![s] = c]
    BY <1>3, <1>9
  <2> HIDE DEF c
  <2>3. Bufs(c) = Bufs(F[s]) /\ Hnds(c) = Hnds(F[s]) /\ KeptSt(F[s], c)
    BY <2>1 DEF Bufs, Hnds, Reach, KeptSt
  <2>4. Longer(F, str')
    BY <1>1, <2>2, <2>3, ReplaceLonger
  <2>5. Longer(str, str')
    BY <1>5, <2>4, LongerTrans
  <2>6. HndsOf(str') = HndsOf(F)
    BY <1>1, <2>2, <2>3 DEF HndsOf
  <2> QED BY <1>1, <1>5, <1>6, <1>9, <2>2, <2>4, <2>5, <2>6 DEF c
<1> QED BY <1>7, <1>8, <1>9

-----------------------------------------------------------------------------
(* Every call keeps the invariant of waits and queries *)

LEMMA QuietReturnEInv ==
  ASSUME EInv, IInv', Longer(str, str'), UNCHANGED <<signal, ev, hist>>, Enter, NEW code, Returns(code)
  PROVE  EInv'
  BY QuietEInv, ReturnFlushed

LEMMA StreamCallsEInv ==
  ASSUME EInv, IInv', NEW s \in Streams,
         (\E nb \in BOOLEAN : CreateStream(s, nb)) \/ DestroyStream(s) \/ LaunchRefused(s)
  PROVE  EInv'
<1>0. IInv
  BY DEF EInv
<1>1. ASSUME NEW nb \in BOOLEAN, CreateStream(s, nb) PROVE EInv'
  BY <1>0, <1>1, CreateLonger, QuietReturnEInv DEF CreateStream
<1>2. CASE DestroyStream(s)
  BY <1>0, <1>2, DestroyLonger, QuietReturnEInv DEF DestroyStream, On
<1>3. CASE LaunchRefused(s)
  <2>1. Longer(str, str')
    BY <1>3, LongerRefl DEF LaunchRefused
  <2> QED BY <1>3, <2>1, QuietReturnEInv DEF LaunchRefused, On
<1> QED BY <1>1, <1>2, <1>3

(* An operation encoded in the open buffer of s. *)
LEMMA IssueEInv ==
  ASSUME EInv, IInv', NEW s \in Streams, NEW O, Good(O), O[s].open,
         NEW item \in Item, item.op = CO!NewOp, Appended(O[s], str'[s], item),
         \A p \in Streams \ {s} : str'[p] = O[p], Longer(str, str'),
         CO!Issue(s), UNCHANGED <<signal, ev>>, Flushed'
  PROVE  EInv'
<1> DEFINE C == BufsOf(str')
<1>1. IInv
  BY DEF EInv
<1>2. Queues(C, s, CO!NewOp)
  <2> DEFINE r == Reach(O[s])
             n == Len(BufsOf(O)[s][r])
  <2>1. /\ r \in Nat \ {0} /\ DOMAIN C[s] = 1..r /\ n \in Nat
        /\ DOMAIN C[s][r] = 1..(n + 1) /\ C[s][r][n + 1] = item
    BY AppendedBufs
  <2> HIDE DEF r, n, C
  <2>2. r \in DOMAIN C[s] /\ n + 1 \in DOMAIN C[s][r]
    BY <2>1
  <2> QED BY <2>1, <2>2 DEF Queues, InBuf
<1>3. last' = [last EXCEPT ![s] = {CO!NewOp}] /\ UNCHANGED <<mark, done, signal, ev>>
  BY DEF CO!Issue
<1>4. LastHeld'
  <2> SUFFICES ASSUME NEW p \in Streams, NEW a \in last'[p], a \notin done PROVE Queues(C, p, a)
    BY <1>3 DEF LastHeld
  <2>1. CASE p = s
    BY <1>1, <1>2, <1>3, <2>1 DEF IInv, Hist_OK
  <2>2. CASE p # s
    <3>1. a \in last[p]
      BY <1>1, <1>3, <2>2 DEF IInv, Hist_OK
    <3>2. Queues(BufsOf(str), p, a)
      BY <3>1 DEF EInv, LastHeld
    <3> QED BY <3>2, QueuesExt DEF Longer
  <2> QED BY <2>1, <2>2
<1>5. MarkHeld'
  BY <1>3, MarkKept
<1> QED BY <1>3, <1>4, <1>5, CallEInv

LEMMA LaunchEInv ==
  ASSUME EInv, IInv', NEW s \in Streams, NEW needs, Launch(s, needs)
  PROVE  EInv'
<1> DEFINE O == Open(str, s)
           item == KernelItem(CO!NewOp, needs)
<1>0. IInv
  BY DEF EInv
<1>1. /\ item \in Item /\ item.op = CO!NewOp /\ Appended(O[s], str'[s], item)
      /\ \A p \in Streams \ {s} : str'[p] = O[p]
      /\ Longer(str, str')
  BY <1>0, LaunchView
<1>2. Good(O) /\ O[s].open
  BY <1>0, OpenGood DEF IInv, Launch, On
<1> HIDE DEF O, item
<1>3. CO!Issue(s) /\ UNCHANGED <<signal, ev>>
  BY DEF Launch
<1>4. Flushed'
  BY ReturnFlushed DEF Launch, On
<1> QED BY <1>1, <1>2, <1>3, <1>4, IssueEInv

LEMMA LaunchHostFuncEInv ==
  ASSUME EInv, IInv', NEW s \in Streams, LaunchHostFunc(s)
  PROVE  EInv'
<1>1. Longer(str, str')
  BY LaunchHostFuncView DEF EInv
<1>2. UNCHANGED <<last, mark, done, signal, ev>>
  BY DEF LaunchHostFunc, CO!IssueHost
<1>3. Flushed'
  BY ReturnFlushed DEF LaunchHostFunc, On
<1> QED BY <1>1, <1>2, <1>3, LastKept, MarkKept, CallEInv

LEMMA EventCallsEInv ==
  ASSUME EInv, IInv', NEW e \in Events, (\E t \in BOOLEAN : CreateEvent(e, t)) \/ DestroyEvent(e)
  PROVE  EInv'
<1>1. UNCHANGED <<str, signal, hist, host>>
  BY DEF CreateEvent, DestroyEvent, Returns
<1>2. \A x \in Events : ev'[x].recorded = ev[x].recorded /\ ev'[x].stream = ev[x].stream
                        /\ ev'[x].value = ev[x].value
  BY DEF CreateEvent, DestroyEvent, EInv, IInv, Event
<1> QED BY <1>1, <1>2, StillEInv

LEMMA RecordLonger ==
  ASSUME IInv, NEW s \in Streams, NEW e \in Events, RecordEvent(e, s)
  PROVE  Longer(str, str') /\ \E S : str' = CommitSet(str, S)
<1>1. str \in [Streams -> Stream]
  BY DEF IInv, Good
<1>2. CommitSet(str, {}) = str
  BY <1>1 DEF CommitSet
<1>3. \E S : str' = CommitSet(str, S)
  BY <1>1, <1>2, CommitIsSet DEF RecordEvent
<1> QED BY <1>3, CommitSetLonger DEF IInv

LEMMA RecordEventEInv ==
  ASSUME EInv, IInv', NEW s \in Streams, NEW e \in Events, RecordEvent(e, s), ~WaitsVisible
  PROVE  EInv'
<1> DEFINE C == BufsOf(str')
           r == Reach(str'[s])
<1>0. IInv
  BY DEF EInv
<1>1. Longer(str, str')
  BY <1>0, RecordLonger
<1>2. UNCHANGED <<last, joins, done, signal>> /\ mark' = [mark EXCEPT ![e] = last[s]]
  BY DEF RecordEvent, CO!Record, CO!Seen
<1>3. ev' = [ev EXCEPT ![e].recorded = TRUE, ![e].stream = s, ![e].value = r]
  BY DEF RecordEvent, Reach
<1>4. str'[s] \in Stream /\ Own(str'[s])
  BY DEF IInv, Good
<1>5. DOMAIN C[s] = 1..r /\ r \in Nat
  BY <1>4, SentFacts, ViewFacts DEF BufsOf
<1> HIDE DEF C, r
<1>6. ev'[e].recorded /\ ev'[e].stream = s /\ ev'[e].value = r /\ \A x \in Events \ {e} : ev'[x] = ev[x]
  BY <1>0, <1>3 DEF IInv, Event
<1>7. LastHeld'
  BY <1>1, <1>2, LastKept
<1>8. MarkHeld'
  <2> SUFFICES ASSUME NEW x \in Events, NEW a \in mark'[x], a \notin done
               PROVE  ev'[x].recorded /\ Holds(C, ev'[x].stream, ev'[x].value, a)
    BY <1>2 DEF MarkHeld, C
  <2>1. CASE x = e
    <3>1. a \in last[s]
      BY <1>0, <1>2, <2>1 DEF IInv, Hist_OK
    <3>2. Queues(C, s, a)
      BY <1>2, <1>7, <3>1 DEF LastHeld, C
    <3>3. Holds(C, s, r, a)
      BY <1>5, <3>2 DEF Queues, Holds
    <3> QED BY <1>6, <2>1, <3>3
  <2>2. CASE x # e
    <3>1. a \in mark[x] /\ ev'[x] = ev[x]
      BY <1>0, <1>2, <1>6, <2>2 DEF IInv, Hist_OK
    <3>2. ev[x].recorded /\ Holds(BufsOf(str), ev[x].stream, ev[x].value, a)
      BY <3>1 DEF EInv, MarkHeld
    <3>3. ev[x].stream \in Streams
      BY <1>0, EventStream
    <3>4. Holds(C, ev[x].stream, ev[x].value, a)
      BY <1>1, <3>2, <3>3, HoldsExt DEF Longer, C
    <3> QED BY <3>1, <3>2, <3>4
  <2> QED BY <2>1, <2>2
<1>9. Flushed'
  BY ReturnFlushed DEF RecordEvent, With
<1> QED BY <1>1, <1>2, <1>7, <1>8, <1>9, CallEInv

LEMMA StreamWaitEventEInv ==
  ASSUME EInv, IInv', NEW s \in Streams, NEW e \in Events, StreamWaitEvent(s, e)
  PROVE  EInv'
<1>1. Longer(str, str')
  BY WaitEventView DEF EInv
<1>2. UNCHANGED <<last, mark, done, signal, ev>>
  BY DEF StreamWaitEvent, CO!Wait
<1>3. Flushed'
  BY ReturnFlushed DEF StreamWaitEvent, With
<1> QED BY <1>1, <1>2, <1>3, LastKept, MarkKept, CallEInv

(* The calls that commit every open buffer. *)
LEMMA AllClosed ==
  ASSUME NEW T, Good(T), NEW s \in Streams
  PROVE  ~CommitAll(T)[s].open
<1>1. T[s].state # "live" => ~T[s].open
  BY DEF Good, Own
<1> QED BY <1>1, CommitSetGood DEF CommitAll, LiveStreams

LEMMA FlushAllLonger ==
  ASSUME IInv, NEW T, T = str \/ \E e \in Events : T = FlushEvent(str, e), str' = CommitAll(T)
  PROVE  Longer(str, str') /\ \A s \in Streams : ~str'[s].open
<1>1. Good(T) /\ Longer(str, T)
  BY FlushEventGood, FlushEventIsSet, CommitSetLonger, LongerRefl DEF IInv
<1>2. Longer(T, str')
  BY <1>1, CommitSetLonger DEF CommitAll
<1> QED BY <1>1, <1>2, LongerTrans, AllClosed

LEMMA QueriesEInv ==
  ASSUME EInv, IInv',
         (\E s \in Streams : QueryStream(s)) \/ (\E e \in Events : QueryEvent(e))
  PROVE  EInv'
<1>1. ASSUME NEW s \in Streams, QueryStream(s) PROVE EInv'
  <2>1. Longer(str, str')
    BY <1>1, FlushAllLonger DEF QueryStream, EInv
  <2> QED BY <1>1, <2>1, QuietReturnEInv DEF QueryStream, On
<1>2. ASSUME NEW e \in Events, QueryEvent(e) PROVE EInv'
  <2>1. Longer(str, str')
    BY <1>2, FlushAllLonger DEF QueryEvent, EInv
  <2> QED BY <1>2, <2>1, QuietReturnEInv DEF QueryEvent, With
<1> QED BY <1>1, <1>2

LEMMA AwaitEInv ==
  ASSUME EInv, IInv', NEW S, NEW then, NEW s, Await(S, then, s)
  PROVE  EInv'
<1>1. Longer(str, str') /\ \A p \in Streams : ~str'[p].open
  BY FlushAllLonger DEF Await, EInv
<1> QED BY <1>1, QuietEInv DEF Await, Flushed

LEMMA SyncsEInv ==
  ASSUME EInv, IInv',
         (\E s \in Streams : SyncStream(s)) \/ SyncDevice \/ (\E e \in Events : SyncEvent(e))
  PROVE  EInv'
<1>1. ASSUME NEW s \in Streams, SyncStream(s) PROVE EInv'
  <2>1. CASE Await({s}, "return", s)
    BY <2>1, AwaitEInv
  <2>2. CASE Returns("ILLEGAL_ADDRESS") /\ UNCHANGED <<str, signal, ev, failed, faults, eventCalls, hist>>
    BY <2>2, StillEInv DEF Returns
  <2> QED BY <1>1, <2>1, <2>2 DEF SyncStream
<1>2. CASE SyncDevice
  BY <1>2, AwaitEInv DEF SyncDevice
<1>3. ASSUME NEW e \in Events, SyncEvent(e) PROVE EInv'
  <2>1. Longer(str, str') /\ \A p \in Streams : ~str'[p].open
    BY <1>3, FlushAllLonger DEF SyncEvent, EInv
  <2> QED BY <1>3, <2>1, QuietEInv DEF SyncEvent, Flushed
<1> QED BY <1>1, <1>2, <1>3

LEMMA HostProgressEInv ==
  ASSUME EInv, IInv', HostProgress \/ WaitTimesOut
  PROVE  EInv'
<1>1. UNCHANGED <<str, signal, ev, hist>>
  BY DEF HostProgress, AwaitReturns, EventAwaitReturns, EntryReturns, WaitTimesOut
<1>2. host.todo # {} \/ host.event # {} \/ host' = Idling
  BY DEF HostProgress, AwaitReturns, EventAwaitReturns, EntryReturns, WaitTimesOut,
         StreamTimesOut, EventTimesOut
<1>3. Idling.todo = {} /\ Idling.event = {}
  BY DEF Idling
<1> QED BY <1>1, <1>2, <1>3, StillEInv

-----------------------------------------------------------------------------
(* So do the GPU and the completion handlers *)

(* Buffer i of stream s is replaced by b, and nothing else of the table.   *)
Replaced(s, i, b) ==
  \A p \in Streams :
    /\ DOMAIN str'[p].sent = DOMAIN str[p].sent /\ Len(str'[p].sent) = Len(str[p].sent)
    /\ \A j \in DOMAIN str[p].sent :
         str'[p].sent[j] = IF p = s /\ j = i THEN b ELSE str[p].sent[j]
    /\ Reach(str'[p]) = Reach(str[p]) /\ str'[p].open = str[p].open
    /\ str'[p].pending = str[p].pending /\ str'[p].waited = str[p].waited
    /\ str'[p].hostValue = str[p].hostValue /\ str'[p].fenceValue = str[p].fenceValue
    /\ str'[p].state = str[p].state /\ str'[p].nonBlocking = str[p].nonBlocking

LEMMA BufferView ==
  ASSUME IInv, NEW s \in Streams, NEW i \in Buffers(s), NEW b \in CmdBuf, b.body = str[s].sent[i].body,
         str' = [str EXCEPT ![s] = [str[s] EXCEPT !.sent = [str[s].sent EXCEPT ![i] = b]]]
  PROVE  /\ BufsOf(str') = BufsOf(str)
         /\ Replaced(s, i, b)
         /\ b.handler = str[s].sent[i].handler => HndsOf(str') = HndsOf(str)
<1> DEFINE sent == [str[s].sent EXCEPT ![i] = b]
           c == [str[s] EXCEPT !.sent = sent]
<1>0. str \in [Streams -> Stream] /\ str[s] \in Stream /\ Own(str[s]) /\ i \in DOMAIN str[s].sent
  BY DEF IInv, Good, Buffers
<1>1. str[s].sent \in Seq(CmdBuf)
  BY <1>0, StreamFields
<1>2. /\ sent \in Seq(CmdBuf) /\ DOMAIN sent = DOMAIN str[s].sent /\ Len(sent) = Len(str[s].sent)
      /\ sent[i] = b /\ \A k \in DOMAIN sent \ {i} : sent[k] = str[s].sent[k]
  BY <1>0, <1>1
<1>a. str' = [str EXCEPT ![s] = c]
  OBVIOUS
<1> HIDE DEF sent
<1>3. /\ c.fenceValue = str[s].fenceValue /\ c.hostValue = str[s].hostValue
      /\ c.open = str[s].open /\ c.state = str[s].state /\ c.nonBlocking = str[s].nonBlocking
      /\ c.sent = sent /\ c.body = str[s].body /\ c.pending = str[s].pending /\ c.waited = str[s].waited
  BY <1>0 DEF Stream
<1>4. str'[s] = c /\ \A p \in Streams \ {s} : str'[p] = str[p]
  BY <1>0, <1>a
<1> HIDE DEF c
<1>5. Reach(c) = Reach(str[s])
  BY <1>3 DEF Reach
<1>6. Bufs(c) = Bufs(str[s])
  BY <1>2, <1>3, <1>5 DEF Bufs
<1>7. b.handler = str[s].sent[i].handler => Hnds(c) = Hnds(str[s])
  BY <1>2, <1>3, <1>5 DEF Hnds
<1>8. BufsOf(str') = BufsOf(str)
  BY <1>4, <1>6 DEF BufsOf
<1>9. b.handler = str[s].sent[i].handler => HndsOf(str') = HndsOf(str)
  BY <1>4, <1>7 DEF HndsOf
<1>10. ASSUME NEW p \in Streams
       PROVE  /\ DOMAIN str'[p].sent = DOMAIN str[p].sent /\ Len(str'[p].sent) = Len(str[p].sent)
              /\ \A j \in DOMAIN str[p].sent :
                   str'[p].sent[j] = IF p = s /\ j = i THEN b ELSE str[p].sent[j]
              /\ Reach(str'[p]) = Reach(str[p]) /\ str'[p].open = str[p].open
              /\ str'[p].pending = str[p].pending /\ str'[p].waited = str[p].waited
              /\ str'[p].hostValue = str[p].hostValue /\ str'[p].fenceValue = str[p].fenceValue
              /\ str'[p].state = str[p].state /\ str'[p].nonBlocking = str[p].nonBlocking
  <2>1. CASE p = s
    <3>1. str'[p] = c /\ str'[p].sent = sent
      BY <1>3, <1>4, <2>1
    <3>2. \A j \in DOMAIN str[p].sent : sent[j] = IF p = s /\ j = i THEN b ELSE str[p].sent[j]
      BY <1>2, <2>1
    <3> QED BY <1>2, <1>3, <1>5, <2>1, <3>1, <3>2
  <2>2. CASE p # s
    BY <1>4, <2>2
  <2> QED BY <2>1, <2>2
<1> QED BY <1>8, <1>9, <1>10 DEF Replaced

(* What the GPU has to show. *)
LEMMA GpuEInv ==
  ASSUME EInv, IInv', BufsOf(str') = BufsOf(str), UNCHANGED <<ev, host, last, mark>>,
         done \subseteq done', Executed', NEW s, NEW i, NEW b, Replaced(s, i, b)
  PROVE  EInv'
<1>1. LastHeld' /\ MarkHeld' /\ Flushed'
  BY DEF EInv, LastHeld, MarkHeld, Flushed, Replaced
<1>2. Chained(BufsOf(str'))
  BY DEF EInv
<1> QED BY <1>1, <1>2 DEF EInv

LEMMA FenceTypes ==
  ASSUME IInv, NEW s \in Streams
  PROVE  /\ signal[Dev(s)] \in Nat /\ signal[Host(s)] \in Nat /\ Dev(s) \in Fence /\ Host(s) \in Fence
         /\ \A p \in Streams : Dev(s) # Host(p) /\ (p # s => Dev(p) # Dev(s) /\ Host(p) # Host(s))
  BY DEF IInv, Fence, Dev, Host

(* The waits of a committed buffer are typed. *)
LEMMA BodyWaits ==
  ASSUME NEW b \in CmdBuf, NEW m \in DOMAIN b.body, NEW w \in b.body[m].waits
  PROVE  w \in Wait /\ w[1] \in Fence /\ w[2] \in Nat /\ w[1][2] \in Streams /\ w[1][1] \in {"dev", "host"}
<1>1. b.body[m] \in Item
  BY DEF CmdBuf
<1>2. w \in Wait
  BY <1>1 DEF Item
<1> QED BY <1>2 DEF Wait, Fence

LEMMA ItemTypes ==
  ASSUME NEW b \in CmdBuf
  PROVE  /\ Len(b.body) \in Nat /\ DOMAIN b.body = 1..Len(b.body) /\ b.at \in Nat
         /\ b.handler \in Handler /\ b.handler.op \in Nat /\ b.handler.value \in Nat
         /\ \A m \in DOMAIN b.body : b.body[m] \in Item /\ b.body[m].op \in Nat
<1>1. b.body \in Seq(Item) /\ b.at \in Nat /\ b.handler \in Handler
  BY DEF CmdBuf
<1>2. ASSUME NEW m \in DOMAIN b.body PROVE b.body[m] \in Item /\ b.body[m].op \in Nat
  <2>1. b.body[m] \in Item
    BY <1>1
  <2> QED BY <2>1 DEF Item
<1> QED BY <1>1, <1>2 DEF Handler

(* Replacing one buffer, by one that is right, keeps the rest right while  *)
(* more is done and device fences only go up.                              *)
LEMMA BufferExecuted ==
  ASSUME EInv, NEW s \in Streams, NEW i \in Buffers(s), NEW b, Replaced(s, i, b),
         done \subseteq done', signal' \in [Fence -> Nat],
         \A p \in Streams : signal'[Dev(p)] >= signal[Dev(p)] /\ (p # s => signal'[Dev(p)] = signal[Dev(p)]),
         signal'[Dev(s)] <= Len(str[s].sent),
         \A j \in Buffers(s) \ {i} : j <= signal'[Dev(s)] <=> j <= signal[Dev(s)],
         BufRan(b, done'), BufSignalled(b, i, signal'[Dev(s)]), BufWaited(b, signal', "dev")
  PROVE  Executed'
<1> SUFFICES ASSUME NEW p \in Streams
             PROVE  /\ signal'[Dev(p)] <= Len(str'[p].sent)
                    /\ \A j \in DOMAIN str'[p].sent :
                         /\ BufRan(str'[p].sent[j], done')
                         /\ BufSignalled(str'[p].sent[j], j, signal'[Dev(p)])
                         /\ BufWaited(str'[p].sent[j], signal', "dev")
  BY DEF Executed
<1>1. /\ signal[Dev(p)] <= Len(str[p].sent)
      /\ \A j \in DOMAIN str[p].sent :
           /\ BufRan(str[p].sent[j], done)
           /\ BufSignalled(str[p].sent[j], j, signal[Dev(p)])
           /\ BufWaited(str[p].sent[j], signal, "dev")
  BY DEF EInv, Executed
<1>a. /\ DOMAIN str'[p].sent = DOMAIN str[p].sent /\ Len(str'[p].sent) = Len(str[p].sent)
      /\ \A j \in DOMAIN str[p].sent :
           str'[p].sent[j] = IF p = s /\ j = i THEN b ELSE str[p].sent[j]
  BY DEF Replaced
<1>2. signal'[Dev(p)] <= Len(str'[p].sent)
  BY <1>1, <1>a
<1>3. ASSUME NEW j \in DOMAIN str[p].sent, ~(p = s /\ j = i)
      PROVE  /\ BufRan(str[p].sent[j], done')
             /\ BufSignalled(str[p].sent[j], j, signal'[Dev(p)])
             /\ BufWaited(str[p].sent[j], signal', "dev")
  <2> DEFINE x == str[p].sent[j]
  <2>1. x \in CmdBuf
    BY BufferType DEF Buffers, EInv
  <2>2. BufRan(x, done) /\ BufSignalled(x, j, signal[Dev(p)]) /\ BufWaited(x, signal, "dev")
    BY <1>1
  <2> HIDE DEF x
  <2>3. BufRan(x, done')
    BY <2>2 DEF BufRan
  <2>4. BufSignalled(x, j, signal'[Dev(p)])
    BY <1>3, <2>2 DEF BufSignalled, Buffers
  <2>5. BufWaited(x, signal', "dev")
    <3> SUFFICES ASSUME NEW m \in 1..x.at, NEW w \in x.body[m].waits, w[1][1] = "dev"
                 PROVE  signal'[w[1]] >= w[2]
      BY DEF BufWaited
    <3>1. m \in DOMAIN x.body
      BY <2>1, <2>2, ItemTypes DEF BufRan
    <3>2. w \in Wait /\ w[1] \in Fence /\ w[2] \in Nat /\ w[1][2] \in Streams
      BY <2>1, <3>1, BodyWaits
    <3>3. w[1] = Dev(w[1][2])
      BY <3>2 DEF Fence, Dev
    <3>4. signal[w[1]] >= w[2] /\ signal[w[1]] \in Nat /\ signal'[w[1]] \in Nat
      BY <2>2, <3>2 DEF BufWaited, EInv, IInv
    <3>5. signal'[w[1]] >= signal[w[1]]
      BY <3>2, <3>3
    <3> QED BY <3>2, <3>4, <3>5
  <2> QED BY <2>3, <2>4, <2>5 DEF x
<1> QED BY <1>2, <1>3, <1>a

LEMMA GpuStepEInv ==
  ASSUME EInv, IInv', NEW s \in Streams, NEW i \in Buffers(s), GpuStep(s, i)
  PROVE  EInv'
<1> DEFINE a == str[s].sent[i]
           b == [a EXCEPT !.at = @ + 1]
           v == signal[Dev(s)]
<1>0. IInv
  BY DEF EInv
<1>1. a \in CmdBuf /\ i \in DOMAIN str[s].sent
  BY <1>0, BufferType DEF Buffers
<1>2. /\ b \in CmdBuf /\ b.body = a.body /\ b.at = a.at + 1 /\ b.status = a.status
      /\ b.handler = a.handler
  BY <1>1 DEF CmdBuf
<1>3. str' = [str EXCEPT ![s] = [str[s] EXCEPT !.sent = [str[s].sent EXCEPT ![i] = b]]]
  BY DEF GpuStep
<1>4. /\ a.status = "committed" /\ a.at < Len(a.body)
      /\ \A w \in a.body[a.at + 1].waits : signal[w[1]] >= w[2]
      /\ done' = done \cup ({a.body[a.at + 1].op} \ {0})
      /\ UNCHANGED <<ev, host, last, mark, signal>>
  BY DEF GpuStep, Runnable, NextItem
<1> HIDE DEF b
<1>5. /\ BufRan(a, done) /\ BufSignalled(a, i, v) /\ BufWaited(a, signal, "dev")
      /\ v <= Len(str[s].sent)
  BY <1>1 DEF EInv, Executed
<1>6. BufsOf(str') = BufsOf(str) /\ Replaced(s, i, b)
  BY <1>0, <1>2, <1>3, BufferView
<1>7. a.at \in Nat /\ Len(a.body) \in Nat
  BY <1>1, ItemTypes
<1> DEFINE D == done'
<1>8. D = done \cup ({a.body[a.at + 1].op} \ {0})
  BY <1>4
<1> HIDE DEF a, b, v, D
<1>9. \A m \in 1..b.at : m \in 1..a.at \/ m = a.at + 1
  BY <1>2, <1>7
<1>10. BufRan(b, D)
  BY <1>2, <1>4, <1>5, <1>7, <1>8, <1>9 DEF BufRan
<1>11. BufSignalled(b, i, v) /\ BufWaited(b, signal, "dev")
  BY <1>2, <1>4, <1>5, <1>7, <1>9 DEF BufSignalled, BufWaited
<1>12. done \subseteq done' /\ signal' = signal /\ signal \in [Fence -> Nat] /\ \A p \in Streams : signal[Dev(p)] \in Nat
  BY <1>0, <1>4, <1>8, FenceTypes DEF D, IInv
<1>13. Executed'
  BY <1>5, <1>6, <1>10, <1>11, <1>12, BufferExecuted DEF D, v
<1> QED BY <1>4, <1>6, <1>12, <1>13, GpuEInv

LEMMA BufferIs ==
  ASSUME IInv, NEW s \in Streams, NEW i \in Buffers(s)
  PROVE  /\ i \in DOMAIN BufsOf(str)[s] /\ BufsOf(str)[s][i] = str[s].sent[i].body
         /\ HndsOf(str)[s][i] = str[s].sent[i].handler
         /\ str[s].sent[i].value = i /\ i \in Nat \ {0} /\ i <= Len(str[s].sent)
<1>1. str[s] \in Stream /\ Own(str[s])
  BY BufferType
<1> QED BY <1>1, ViewFacts, SentFacts DEF BufsOf, HndsOf, Buffers

(* Whoever has begun a buffer has seen the one before it signal. *)
LEMMA BegunAfter ==
  ASSUME EInv, NEW s \in Streams, NEW i \in Buffers(s), str[s].sent[i].at > 0
  PROVE  signal[Dev(s)] >= i - 1
<1> DEFINE a == str[s].sent[i]
<1>0. IInv
  BY DEF EInv
<1>1. i \in DOMAIN BufsOf(str)[s] /\ BufsOf(str)[s][i] = a.body /\ i \in Nat \ {0}
  BY <1>0, BufferIs
<1>2. i > 1 => <<Dev(s), i - 1>> \in a.body[1].waits
  BY <1>1 DEF EInv, Chained
<1>3. BufWaited(a, signal, "dev") /\ a.at \in Nat
  BY <1>0, BufferType, ItemTypes DEF EInv, Executed, Buffers
<1>4. signal[Dev(s)] \in Nat
  BY <1>0, FenceTypes
<1>5. CASE i > 1
  <2> DEFINE w == <<Dev(s), i - 1>>
  <2>1. w \in a.body[1].waits /\ w[1][1] = "dev" /\ w[1] = Dev(s) /\ w[2] = i - 1
    BY <1>2, <1>5 DEF Dev
  <2>2. 1 \in 1..a.at
    BY <1>3
  <2> QED BY <1>3, <2>1, <2>2 DEF BufWaited
<1> QED BY <1>1, <1>4, <1>5

LEMMA GpuSignalEInv ==
  ASSUME EInv, IInv', NEW s \in Streams, NEW i \in Buffers(s), GpuSignal(s, i)
  PROVE  EInv'
<1> DEFINE a == str[s].sent[i]
           b == [a EXCEPT !.status = "signalled"]
           v == signal[Dev(s)]
<1>0. IInv
  BY DEF EInv
<1>1. a \in CmdBuf /\ i \in DOMAIN str[s].sent
  BY <1>0, BufferType DEF Buffers
<1>2. b \in CmdBuf /\ b.body = a.body /\ b.at = a.at /\ b.status = "signalled" /\ b.handler = a.handler
  BY <1>1 DEF CmdBuf
<1>3. str' = [str EXCEPT ![s] = [str[s] EXCEPT !.sent = [str[s].sent EXCEPT ![i] = b]]]
  BY DEF GpuSignal
<1> HIDE DEF b
<1>4. /\ a.status = "committed" /\ a.at = Len(a.body) /\ a.value = i
      /\ i \in DOMAIN BufsOf(str)[s] /\ BufsOf(str)[s][i] = a.body /\ i \in Nat \ {0} /\ i <= Len(str[s].sent)
  BY <1>0, BufferIs DEF GpuSignal, Signallable
<1>5. signal' = [signal EXCEPT ![Dev(s)] = i] /\ UNCHANGED <<ev, host, last, mark, done>>
  BY <1>4 DEF GpuSignal, hist
<1>6. /\ BufRan(a, done) /\ BufSignalled(a, i, v) /\ BufWaited(a, signal, "dev")
      /\ v <= Len(str[s].sent) /\ v \in Nat
  BY <1>0, <1>1, FenceTypes DEF EInv, Executed
<1>7. BufsOf(str') = BufsOf(str) /\ Replaced(s, i, b)
  BY <1>0, <1>2, <1>3, BufferView
<1>8. a.at > 0
  <2>1. a.body # <<>> /\ a.body \in Seq(Item)
    BY <1>1, <1>4 DEF EInv, Chained, CmdBuf
  <2> QED BY <1>4, <2>1
<1>9. v = i - 1
  <2>1. ~(i <= v)
    BY <1>4, <1>6 DEF BufSignalled
  <2>2. v >= i - 1
    BY <1>8, BegunAfter
  <2> QED BY <1>4, <1>6, <2>1, <2>2
<1> DEFINE G == signal'
<1>10. G \in [Fence -> Nat] /\ G[Dev(s)] = i /\ \A f \in Fence \ {Dev(s)} : G[f] = signal[f]
  BY <1>0, <1>4, <1>5, FenceTypes DEF IInv
<1>11. \A p \in Streams : signal[Dev(p)] \in Nat /\ Dev(p) \in Fence /\ (p # s => Dev(p) # Dev(s))
  BY <1>0, FenceTypes
<1> HIDE DEF G, a
<1>12. \A p \in Streams : G[Dev(p)] >= signal[Dev(p)] /\ (p # s => G[Dev(p)] = signal[Dev(p)])
  BY <1>4, <1>6, <1>9, <1>10, <1>11
<1> HIDE DEF v
<1>13. \A j \in Buffers(s) \ {i} : j <= i <=> j <= v
  <2>1. \A j \in Buffers(s) : j \in Nat
    BY <1>0, BufferIs
  <2> QED BY <1>4, <1>9, <2>1
<1>14. BufRan(b, done)
  BY <1>2, <1>6 DEF BufRan
<1>15. BufSignalled(b, i, i)
  BY <1>2, <1>4 DEF BufSignalled
<1>16. BufWaited(b, G, "dev")
  <2> SUFFICES ASSUME NEW m \in 1..b.at, NEW w \in b.body[m].waits, w[1][1] = "dev"
               PROVE  G[w[1]] >= w[2]
    BY DEF BufWaited
  <2>1. m \in DOMAIN b.body
    BY <1>1, <1>2, <1>4, ItemTypes
  <2>2. w[1] \in Fence /\ w[2] \in Nat /\ w[1][2] \in Streams
    BY <1>2, <2>1, BodyWaits
  <2>3. w[1] = Dev(w[1][2])
    BY <2>2 DEF Fence, Dev
  <2>4. signal[w[1]] >= w[2]
    BY <1>2, <1>6 DEF BufWaited
  <2>5. G[w[1]] >= signal[w[1]] /\ G[w[1]] \in Nat /\ signal[w[1]] \in Nat
    BY <1>10, <1>11, <1>12, <2>2, <2>3
  <2> QED BY <2>2, <2>4, <2>5
<1>17. Executed'
  <2>1. \A j \in Buffers(s) \ {i} : j <= G[Dev(s)] <=> j <= signal[Dev(s)]
    BY <1>10, <1>13 DEF v
  <2>2. BufSignalled(b, i, G[Dev(s)]) /\ G[Dev(s)] <= Len(str[s].sent) /\ done' = done
    BY <1>4, <1>5, <1>10, <1>15
  <2> QED BY <1>7, <1>10, <1>12, <1>14, <1>16, <2>1, <2>2, BufferExecuted DEF G
<1> QED BY <1>5, <1>7, <1>17, GpuEInv

(* A buffer whose items and fence are left alone. *)
LEMMA StatusEInv ==
  ASSUME EInv, IInv', NEW s \in Streams, NEW i \in Buffers(s), NEW a, a = str[s].sent[i], NEW b \in CmdBuf,
         b.body = a.body, b.at = a.at,
         b.status \in {"signalled", "completed"} <=> a.status \in {"signalled", "completed"},
         str' = [str EXCEPT ![s] = [str[s] EXCEPT !.sent = [str[s].sent EXCEPT ![i] = b]]],
         done \subseteq done', signal' \in [Fence -> Nat],
         \A p \in Streams : signal'[Dev(p)] = signal[Dev(p)], UNCHANGED <<ev, host, last, mark>>
  PROVE  EInv'
<1>0. IInv
  BY DEF EInv
<1>1. a \in CmdBuf /\ i \in DOMAIN str[s].sent
  BY <1>0, BufferType DEF Buffers
<1> DEFINE v == signal[Dev(s)]
<1>2. /\ BufRan(a, done) /\ BufSignalled(a, i, v) /\ BufWaited(a, signal, "dev")
      /\ v <= Len(str[s].sent) /\ v \in Nat
  BY <1>0, <1>1, FenceTypes DEF EInv, Executed
<1>3. BufsOf(str') = BufsOf(str) /\ Replaced(s, i, b)
  BY <1>0, BufferView
<1>4. BufRan(b, done') /\ BufSignalled(b, i, v)
  BY <1>2 DEF BufRan, BufSignalled
<1>5. BufWaited(b, signal', "dev")
  <2> SUFFICES ASSUME NEW m \in 1..b.at, NEW w \in b.body[m].waits, w[1][1] = "dev"
               PROVE  signal'[w[1]] >= w[2]
    BY DEF BufWaited
  <2>1. m \in DOMAIN b.body
    BY <1>1, <1>2, ItemTypes DEF BufRan
  <2>2. w[1] \in Fence /\ w[1][2] \in Streams
    BY <2>1, BodyWaits
  <2>3. w[1] = Dev(w[1][2])
    BY <2>2 DEF Fence, Dev
  <2>4. signal[w[1]] >= w[2]
    BY <1>2 DEF BufWaited
  <2> QED BY <2>2, <2>3, <2>4
<1>6. \A p \in Streams : signal[Dev(p)] \in Nat /\ signal'[Dev(p)] \in Nat
  BY <1>0, FenceTypes
<1>7. \A p \in Streams : signal'[Dev(p)] >= signal[Dev(p)] /\ (p # s => signal'[Dev(p)] = signal[Dev(p)])
  BY <1>6
<1>8. Executed'
  BY <1>2, <1>3, <1>4, <1>5, <1>7, BufferExecuted
<1> QED BY <1>3, <1>8, GpuEInv

LEMMA GpuCompleteEInv ==
  ASSUME EInv, IInv', NEW s \in Streams, NEW i \in Buffers(s), GpuComplete(s, i)
  PROVE  EInv'
<1> DEFINE a == str[s].sent[i]
           b == [a EXCEPT !.status = "completed"]
<1>1. a \in CmdBuf /\ IInv
  BY BufferType DEF EInv
<1>2. b \in CmdBuf /\ b.body = a.body /\ b.at = a.at /\ b.status = "completed"
  BY <1>1 DEF CmdBuf
<1>3. str' = [str EXCEPT ![s] = [str[s] EXCEPT !.sent = [str[s].sent EXCEPT ![i] = b]]]
  BY DEF GpuComplete
<1> HIDE DEF b
<1>4. a.status = "signalled" /\ UNCHANGED <<signal, ev, host, last, mark, done>> /\ signal \in [Fence -> Nat]
  BY <1>1 DEF GpuComplete, hist, IInv
<1> QED BY <1>2, <1>3, <1>4, StatusEInv

LEMMA GpuFaultEInv ==
  ASSUME EInv, IInv', NEW s \in Streams, NEW i \in Buffers(s), GpuFault(s, i)
  PROVE  EInv'
<1> DEFINE a == str[s].sent[i]
           b == [a EXCEPT !.status = "error"]
<1>1. a \in CmdBuf /\ IInv
  BY BufferType DEF EInv
<1>2. b \in CmdBuf /\ b.body = a.body /\ b.at = a.at /\ b.status = "error"
  BY <1>1 DEF CmdBuf
<1>3. str' = [str EXCEPT ![s] = [str[s] EXCEPT !.sent = [str[s].sent EXCEPT ![i] = b]]]
  BY DEF GpuFault
<1> HIDE DEF b
<1>4. a.status = "committed" /\ UNCHANGED <<signal, ev, host, last, mark, done>> /\ signal \in [Fence -> Nat]
  BY <1>1 DEF GpuFault, hist, IInv
<1> QED BY <1>2, <1>3, <1>4, StatusEInv

LEMMA HandlerRunsEInv ==
  ASSUME EInv, IInv', NEW s \in Streams, NEW i \in Buffers(s), HandlerRuns(s, i)
  PROVE  EInv'
<1> DEFINE a == str[s].sent[i]
           b == [a EXCEPT !.handler = NoHandler]
<1>1. a \in CmdBuf /\ IInv
  BY BufferType DEF EInv
<1>2. b \in CmdBuf /\ b.body = a.body /\ b.at = a.at /\ b.status = a.status
  BY <1>1, NoHandlerType DEF CmdBuf
<1>3. str' = [str EXCEPT ![s] = [str[s] EXCEPT !.sent = [str[s].sent EXCEPT ![i] = b]]]
  BY DEF HandlerRuns
<1> HIDE DEF b
<1>4. /\ signal' = [signal EXCEPT ![Host(s)] = a.handler.value] /\ done \subseteq done'
      /\ UNCHANGED <<ev, host, last, mark>>
  BY DEF HandlerRuns
<1>5. \A p \in Streams : signal'[Dev(p)] = signal[Dev(p)]
  BY <1>1, <1>4, FenceTypes DEF IInv
<1>6. signal' \in [Fence -> Nat]
  BY DEF IInv
<1> QED BY <1>2, <1>3, <1>4, <1>5, <1>6, StatusEInv

LEMMA InitEInv == Init => EInv
<1> SUFFICES ASSUME Init PROVE EInv
  OBVIOUS
<1>1. IInv
  BY InitIInv
<1>2. ASSUME NEW s \in Streams PROVE Reach(str[s]) = 0 /\ Len(str[s].sent) = 0 /\ DOMAIN str[s].sent = {}
  <2>1. PICK state \in {"new", "live"} : str[s] = NewStream(state, FALSE)
    BY DEF Init
  <2>2. Reach(str[s]) = 0
    BY <2>1, NewStreamFacts
  <2>3. str[s].sent = <<>>
    BY <2>1 DEF NewStream
  <2> QED BY <2>2, <2>3
<1>3. Executed
  <2>1. ASSUME NEW s \in Streams PROVE signal[Dev(s)] = 0
    BY DEF Init, Fence, Dev
  <2>2. ASSUME NEW s \in Streams
        PROVE  signal[Dev(s)] <= Len(str[s].sent) /\ DOMAIN str[s].sent = {}
    BY <1>2, <2>1
  <2> QED BY <2>2 DEF Executed
<1>4. Chained(BufsOf(str))
  BY <1>2 DEF Chained, BufsOf, Bufs
<1>5. LastHeld /\ MarkHeld /\ Flushed
  BY DEF Init, LastHeld, MarkHeld, Flushed, Idling
<1> QED BY <1>1, <1>3, <1>4, <1>5 DEF EInv

LEMMA NextEInv ==
  ASSUME EInv, [Next]_vars, ~WaitsVisible
  PROVE  EInv'
<1>0. IInv'
  BY NextIInv DEF EInv
<1>1. CASE Call
  <2>1. ASSUME NEW s \in Streams, (\E nb \in BOOLEAN : CreateStream(s, nb)) \/ DestroyStream(s) \/ LaunchRefused(s)
        PROVE  EInv'
    BY <1>0, <2>1, StreamCallsEInv
  <2>2. ASSUME NEW s \in Streams, NEW needs, Launch(s, needs) PROVE EInv'
    BY <1>0, <2>2, LaunchEInv
  <2>3. ASSUME NEW s \in Streams, LaunchHostFunc(s) PROVE EInv'
    BY <1>0, <2>3, LaunchHostFuncEInv
  <2>4. ASSUME NEW s \in Streams, QueryStream(s) \/ SyncStream(s) PROVE EInv'
    BY <1>0, <2>4, QueriesEInv, SyncsEInv
  <2>5. ASSUME NEW e \in Events, (\E t \in BOOLEAN : CreateEvent(e, t)) \/ DestroyEvent(e) PROVE EInv'
    BY <1>0, <2>5, EventCallsEInv
  <2>6. ASSUME NEW e \in Events, NEW s \in Streams, RecordEvent(e, s) \/ StreamWaitEvent(s, e) PROVE EInv'
    BY <1>0, <2>6, RecordEventEInv, StreamWaitEventEInv
  <2>7. ASSUME NEW e \in Events, QueryEvent(e) \/ SyncEvent(e) PROVE EInv'
    BY <1>0, <2>7, QueriesEInv, SyncsEInv
  <2>8. CASE SyncDevice
    BY <1>0, <2>8, SyncsEInv
  <2> QED BY <1>1, <2>1, <2>2, <2>3, <2>4, <2>5, <2>6, <2>7, <2>8 DEF Call
<1>2. CASE HostProgress \/ WaitTimesOut
  BY <1>0, <1>2, HostProgressEInv
<1>3. CASE Gpu
  BY <1>0, <1>3, GpuStepEInv, GpuSignalEInv, GpuCompleteEInv, HandlerRunsEInv DEF Gpu
<1>4. CASE \E s \in Streams : \E i \in Buffers(s) : GpuFault(s, i)
  BY <1>0, <1>4, GpuFaultEInv
<1>5. CASE UNCHANGED vars
  BY <1>0, <1>5, StillEInv DEF vars
<1> QED BY <1>1, <1>2, <1>3, <1>4, <1>5 DEF Next

(* 0 stands for no operation, so nothing waits for it. *)
Positive ==
  /\ \A s \in Streams : 0 \notin last[s] \cup joins[s]
  /\ \A e \in Events : 0 \notin mark[e]
  /\ \A o \in DOMAIN log : 0 \notin log[o].after

LEMMA SeenPositive ==
  ASSUME IInv, Positive, NEW s \in Streams
  PROVE  0 \notin CO!Seen(s) /\ 0 \notin CO!After(s)
<1>1. CO!Peers(s) \subseteq Streams
  BY StreamsAssumption DEF CO!Peers, Blocking
<1> QED BY <1>1 DEF Positive, CO!Seen, CO!Front, CO!After

LEMMA LoggedPositive ==
  ASSUME IInv, Positive, NEW s \in Streams, CO!Logged(s)
  PROVE  \A o \in DOMAIN log' : 0 \notin log'[o].after
<1> DEFINE entry == [stream |-> s, after |-> CO!After(s)]
<1>1. log \in Seq([stream : Streams, after : SUBSET Nat]) /\ log' = Append(log, entry)
  BY DEF IInv, Hist_OK, CO!Logged
<1>2. entry.after = CO!After(s)
  OBVIOUS
<1> HIDE DEF entry
<1>3. \A o \in DOMAIN log' : log'[o] = entry \/ (o \in DOMAIN log /\ log'[o] = log[o])
  BY <1>1
<1> QED BY <1>2, <1>3, SeenPositive DEF Positive

LEMMA NextPositive ==
  ASSUME IInv, Positive, [Next]_vars
  PROVE  Positive'
<1>0. last \in [Streams -> SUBSET Nat] /\ joins \in [Streams -> SUBSET Nat] /\ mark \in [Events -> SUBSET Nat]
  BY DEF IInv, Hist_OK
<1>1. CASE UNCHANGED <<log, last, joins, mark>>
  BY <1>1 DEF Positive
<1>2. ASSUME NEW s \in Streams, CO!Issue(s) \/ CO!IssueHost(s) PROVE Positive'
  <2>1. \A o \in DOMAIN log' : 0 \notin log'[o].after
    BY <1>2, LoggedPositive DEF CO!Issue, CO!IssueHost
  <2>2. \A p \in Streams : 0 \notin last'[p] \cup joins'[p]
    BY <1>0, <1>2, NewOpType DEF CO!Issue, CO!IssueHost, Positive
  <2> QED BY <1>2, <2>1, <2>2 DEF CO!Issue, CO!IssueHost, Positive
<1>3. ASSUME NEW e \in Events, NEW s \in Streams, CO!Record(e, s) \/ CO!Wait(s, e) PROVE Positive'
  <2>1. CO!Peers(s) \subseteq Streams
    BY StreamsAssumption DEF CO!Peers, Blocking
  <2>2. CASE CO!Record(e, s)
    <3>1. 0 \notin CO!Seen(s) \cup IF WaitsVisible THEN UNION {CO!Seen(p) : p \in CO!Peers(s)} ELSE {}
      BY <2>1, SeenPositive
    <3> QED BY <1>0, <2>2, <3>1 DEF CO!Record, Positive
  <2>3. CASE CO!Wait(s, e)
    BY <1>0, <2>3 DEF CO!Wait, Positive
  <2> QED BY <1>3, <2>2, <2>3
<1>4. \/ UNCHANGED <<log, last, joins, mark>>
      \/ \E s \in Streams : CO!Issue(s) \/ CO!IssueHost(s)
      \/ \E e \in Events, s \in Streams : CO!Record(e, s) \/ CO!Wait(s, e)
  <2>1. CASE Call
    <3>1. ASSUME NEW s \in Streams, NEW needs, Launch(s, needs) PROVE CO!Issue(s)
      BY <3>1 DEF Launch
    <3>2. ASSUME NEW s \in Streams, LaunchHostFunc(s) PROVE CO!IssueHost(s)
      BY <3>2 DEF LaunchHostFunc
    <3>3. ASSUME NEW s \in Streams, NEW e \in Events, RecordEvent(e, s) PROVE CO!Record(e, s)
      BY <3>3 DEF RecordEvent
    <3>4. ASSUME NEW s \in Streams, NEW e \in Events, StreamWaitEvent(s, e) PROVE CO!Wait(s, e)
      BY <3>4 DEF StreamWaitEvent
    <3>5. ASSUME NEW s \in Streams, \/ \E nb \in BOOLEAN : CreateStream(s, nb)
                                    \/ DestroyStream(s) \/ LaunchRefused(s) \/ QueryStream(s) \/ SyncStream(s)
          PROVE  UNCHANGED <<log, last, joins, mark>>
      BY <3>5 DEF CreateStream, DestroyStream, LaunchRefused, QueryStream, SyncStream, Await, hist
    <3>6. ASSUME NEW e \in Events, \/ \E t \in BOOLEAN : CreateEvent(e, t)
                                   \/ DestroyEvent(e) \/ QueryEvent(e) \/ SyncEvent(e)
          PROVE  UNCHANGED <<log, last, joins, mark>>
      BY <3>6 DEF CreateEvent, DestroyEvent, QueryEvent, SyncEvent, hist
    <3>7. CASE SyncDevice
      BY <3>7 DEF SyncDevice, Await, hist
    <3> QED BY <2>1, <3>1, <3>2, <3>3, <3>4, <3>5, <3>6, <3>7 DEF Call
  <2>2. CASE HostProgress \/ WaitTimesOut
    BY <2>2 DEF HostProgress, AwaitReturns, EventAwaitReturns, EntryReturns, WaitTimesOut, hist
  <2>3. CASE Gpu \/ \E s \in Streams : \E i \in Buffers(s) : GpuFault(s, i)
    BY <2>3 DEF Gpu, GpuStep, GpuSignal, GpuComplete, HandlerRuns, GpuFault, hist
  <2> QED BY <2>1, <2>2, <2>3 DEF Next, vars, hist
<1> QED BY <1>1, <1>2, <1>3, <1>4

LEMMA EInvHolds == ASSUME ~WaitsVisible PROVE Spec => [](EInv /\ Positive)
<1>1. Init => EInv /\ Positive
  BY InitEInv DEF Init, Positive
<1>2. EInv /\ Positive /\ [Next]_vars => (EInv /\ Positive)'
  BY NextEInv, NextPositive DEF EInv
<1> QED BY <1>1, <1>2, PTL DEF Spec

-----------------------------------------------------------------------------
(* What a wait or a query that ends well says *)

(* An operation of a buffer whose value the fence has reached is done.     *)
LEMMA ReachedDone ==
  ASSUME EInv, NEW s \in Streams, NEW v \in Nat, v <= signal[Dev(s)],
         NEW a, a # 0, Holds(BufsOf(str), s, v, a)
  PROVE  a \in done
<1>0. IInv
  BY DEF EInv
<1>1. PICK i \in DOMAIN BufsOf(str)[s] : i <= v /\ InBuf(BufsOf(str)[s][i], a)
  BY DEF Holds
<1>2. str[s] \in Stream /\ Own(str[s])
  BY <1>0 DEF IInv, Good
<1>3. i \in Nat \ {0} /\ DOMAIN str[s].sent = 1..Len(str[s].sent) /\ Len(str[s].sent) \in Nat
  BY <1>2, SentFacts, ViewFacts DEF BufsOf
<1>4. signal[Dev(s)] \in Nat /\ signal[Dev(s)] <= Len(str[s].sent)
  BY <1>0, FenceTypes DEF EInv, Executed
<1>5. i \in Buffers(s) /\ i <= signal[Dev(s)]
  BY <1>1, <1>3, <1>4 DEF Buffers
<1> DEFINE b == str[s].sent[i]
<1>6. BufsOf(str)[s][i] = b.body /\ b \in CmdBuf
  BY <1>0, <1>5, BufferIs, BufferType
<1>7. BufRan(b, done) /\ BufSignalled(b, i, signal[Dev(s)])
  BY <1>5 DEF EInv, Executed, Buffers
<1> HIDE DEF b
<1>8. PICK m \in DOMAIN b.body : b.body[m].op = a
  BY <1>1, <1>6 DEF InBuf
<1>9. m \in 1..b.at
  BY <1>5, <1>6, <1>7, <1>8, ItemTypes DEF BufSignalled
<1> QED BY <1>7, <1>8, <1>9 DEF BufRan

(* A stream with nothing open whose fence has reached its last value.      *)
LEMMA StreamDone ==
  ASSUME EInv, Positive, NEW s \in Streams, ~str[s].open, signal[Dev(s)] >= str[s].fenceValue
  PROVE  last[s] \subseteq done
<1> SUFFICES ASSUME NEW a \in last[s], a \notin done PROVE FALSE
  OBVIOUS
<1>1. Queues(BufsOf(str), s, a) /\ a # 0
  BY DEF EInv, LastHeld, Positive
<1>2. str[s] \in Stream /\ Own(str[s])
  BY DEF EInv, IInv, Good
<1>3. Reach(str[s]) = str[s].fenceValue /\ Reach(str[s]) \in Nat /\ DOMAIN BufsOf(str)[s] = 1..Reach(str[s])
  BY <1>2, SentFacts, ViewFacts DEF BufsOf
<1>4. Holds(BufsOf(str), s, Reach(str[s]), a)
  BY <1>1, <1>3 DEF Queues, Holds
<1>5. signal[Dev(s)] \in Nat
  BY FenceTypes DEF EInv
<1> QED BY <1>1, <1>3, <1>4, <1>5, ReachedDone

LEMMA EventDone ==
  ASSUME EInv, Positive, NEW e \in Events, EventReached(e)
  PROVE  mark[e] \subseteq done
<1> SUFFICES ASSUME NEW a \in mark[e], a \notin done PROVE FALSE
  OBVIOUS
<1>1. ev[e].recorded /\ Holds(BufsOf(str), ev[e].stream, ev[e].value, a) /\ a # 0
  BY DEF EInv, MarkHeld, Positive
<1>2. ev[e].stream \in Streams /\ ev[e].value \in Nat
  BY EventStream DEF EInv
<1>3. ev[e].value <= signal[Dev(ev[e].stream)]
  BY <1>1, <1>2, FenceTypes DEF EventReached, EInv
<1> QED BY <1>1, <1>2, <1>3, ReachedDone

(* A stream whose last buffer has completed has signalled all its values.  *)
LEMMA LastCompleted ==
  ASSUME EInv, NEW s \in Streams, Drained(str[s]), LastStatus(str[s]) # "error"
  PROVE  signal[Dev(s)] >= str[s].fenceValue
<1>1. LastStatus(str[s]) = "completed"
  BY DEF Drained
<1>2. str[s] \in Stream /\ Own(str[s]) /\ signal[Dev(s)] \in Nat
  BY FenceTypes DEF EInv, IInv, Good
<1> DEFINE n == Len(str[s].sent)
<1>3. n \in Nat /\ str[s].fenceValue = n /\ DOMAIN str[s].sent = 1..n /\ (n = 0 <=> str[s].sent = <<>>)
  BY <1>2, SentFacts, StreamFields
<1>4. CASE n = 0
  BY <1>2, <1>3, <1>4
<1>5. CASE n # 0
  <2>1. n \in DOMAIN str[s].sent /\ str[s].sent[n].status = "completed"
    BY <1>1, <1>3, <1>5 DEF LastStatus
  <2>2. BufSignalled(str[s].sent[n], n, signal[Dev(s)])
    BY <2>1 DEF EInv, Executed
  <2> QED BY <1>2, <1>3, <2>1, <2>2 DEF BufSignalled
<1> QED BY <1>4, <1>5

(* A poll that commits an open buffer never says SUCCESS.                  *)
LEMMA PollFinds ==
  ASSUME IInv, NEW s \in Streams, str[s].state = "live", StreamPoll(s) = "SUCCESS"
  PROVE  ~str[s].open /\ Drained(str[s]) /\ LastStatus(str[s]) # "error"
<1>1. str[s] \in Stream /\ Own(str[s])
  BY DEF IInv, Good
<1> DEFINE c == CommitWith(str[s], NoHandler)
<1>2. CommitAll(str)[s] = c
  BY DEF CommitAll, CommitSet, LiveStreams, Commit
<1>3. QueryCode(c) = "SUCCESS"
  BY <1>2 DEF StreamPoll
<1>4. LastStatus(c) # "error" /\ Drained(c)
  BY <1>3 DEF QueryCode
<1>5. CASE str[s].open
  <2> DEFINE b == [body |-> str[s].body, at |-> 0, value |-> str[s].fenceValue + 1,
                   handler |-> NoHandler, status |-> "committed"]
  <2>1. c.sent = Append(str[s].sent, b) /\ b.status = "committed"
    BY <1>1, <1>5 DEF CommitWith, Stream
  <2>a. b \in CmdBuf /\ str[s].sent \in Seq(CmdBuf)
    <3>1. str[s].fenceValue + 1 \in Nat /\ str[s].body \in Seq(Item) /\ str[s].sent \in Seq(CmdBuf)
      BY <1>1, StreamFields
    <3> QED BY <3>1, NoHandlerType DEF CmdBuf
  <2> HIDE DEF b, c
  <2>2. c.sent # <<>> /\ c.sent[Len(c.sent)] = b
    BY <2>1, <2>a
  <2> QED BY <1>4, <2>1, <2>2 DEF LastStatus, Drained
<1>6. CASE ~str[s].open
  <2>1. c = str[s]
    BY <1>6 DEF CommitWith
  <2> QED BY <1>4, <1>6, <2>1
<1> QED BY <1>5, <1>6

(* query_stream, query_event: on a runtime read as the code has it (an     *)
(* event stands for the operations before it), a poll that says SUCCESS    *)
(* means the operations it answers for have run, whatever has faulted or   *)
(* timed out before and whichever kernels spin.                            *)
THEOREM QuerySoundHolds == ASSUME ~WaitsVisible PROVE Spec => []QuerySound
<1>1. EInv /\ Positive => QuerySound
  <2> SUFFICES ASSUME EInv, Positive PROVE QuerySound
    OBVIOUS
  <2>1. ASSUME NEW s \in Streams, On(s), StreamPoll(s) = "SUCCESS" PROVE CO!Seen(s) \subseteq done
    <3>1. ~str[s].open /\ signal[Dev(s)] >= str[s].fenceValue
      BY <2>1, PollFinds, LastCompleted DEF On, EInv
    <3> QED BY <3>1, StreamDone DEF CO!Seen
  <2> QED BY <2>1, EventDone DEF QuerySound
<1> QED BY <1>1, EInvHolds, PTL

(* One event at most is awaited. *)
OneEvent == \A e \in host.event : \A x \in host.event : x = e

LEMMA HostSteps ==
  ASSUME IInv, [Next]_vars
  PROVE  \/ host' = host
         \/ host = Idling /\ \E S : \E e \in Events : host'.event = S /\ S \subseteq {e}
         \/ host = Idling /\ host'.event = {}
         \/ host # Idling /\ (HostProgress \/ WaitTimesOut)
<1>1. CASE Call
  <2>1. ASSUME NEW s \in Streams, \/ \E nb \in BOOLEAN : CreateStream(s, nb)
                                  \/ DestroyStream(s) \/ LaunchRefused(s) \/ LaunchHostFunc(s)
                                  \/ \E needs \in SpinChoices : Launch(s, needs)
                                  \/ QueryStream(s)
        PROVE host' = host
    BY <2>1 DEF CreateStream, DestroyStream, LaunchRefused, LaunchHostFunc, Launch, QueryStream, Returns
  <2>2. ASSUME NEW S, NEW then, NEW s, Await(S, then, s) PROVE host'.event = {}
    BY <2>2 DEF Await
  <2>3. ASSUME NEW s \in Streams, SyncStream(s) PROVE host' = host \/ (host = Idling /\ host'.event = {})
    BY <2>2, <2>3 DEF SyncStream, Returns, On, Enter
  <2>4. ASSUME NEW e \in Events, \/ \E t \in BOOLEAN : CreateEvent(e, t)
                                 \/ DestroyEvent(e) \/ QueryEvent(e)
                                 \/ \E s \in Streams : RecordEvent(e, s) \/ StreamWaitEvent(s, e)
        PROVE host' = host
    BY <2>4 DEF CreateEvent, DestroyEvent, QueryEvent, RecordEvent, StreamWaitEvent, Returns
  <2>5. ASSUME NEW e \in Events, SyncEvent(e) PROVE host = Idling /\ host'.event \subseteq {e}
    BY <2>5 DEF SyncEvent, With, Enter, Idling
  <2>6. CASE SyncDevice
    BY <2>2, <2>6 DEF SyncDevice, Enter
  <2> QED BY <1>1, <2>1, <2>3, <2>4, <2>5, <2>6 DEF Call
<1>2. CASE HostProgress \/ WaitTimesOut
  <2>1. Idling.todo = {} /\ Idling.event = {} /\ Idling.then # "return"
    BY DEF Idling
  <2> QED BY <1>2, <2>1 DEF HostProgress, AwaitReturns, EventAwaitReturns, EntryReturns, WaitTimesOut,
                           StreamTimesOut, EventTimesOut
<1>3. CASE Gpu \/ \E s \in Streams : \E i \in Buffers(s) : GpuFault(s, i)
  BY <1>3 DEF Gpu, GpuStep, GpuSignal, GpuComplete, HandlerRuns, GpuFault
<1> QED BY <1>1, <1>2, <1>3 DEF Next, vars

LEMMA NextOneEvent ==
  ASSUME IInv, OneEvent, [Next]_vars
  PROVE  OneEvent'
<1>1. CASE HostProgress \/ WaitTimesOut
  <2>0. host \in HostState
    BY DEF IInv, Host_OK
  <2>1. host'.event \subseteq host.event
    <3>1. CASE WaitTimesOut
      BY <2>0, <3>1 DEF WaitTimesOut, StreamTimesOut, EventTimesOut, HostState
    <3>2. ASSUME NEW s \in Streams, AwaitReturns(s) PROVE host'.event \subseteq host.event
      BY <2>0, <3>2 DEF AwaitReturns, HostState
    <3>3. ASSUME NEW e \in Events, EventAwaitReturns(e) PROVE host'.event \subseteq host.event
      BY <2>0, <3>3 DEF EventAwaitReturns, HostState
    <3>4. CASE EntryReturns
      BY <3>4 DEF EntryReturns, Awaited, Idling
    <3> QED BY <1>1, <3>1, <3>2, <3>3, <3>4 DEF HostProgress
  <2> QED BY <2>1 DEF OneEvent
<1> QED BY <1>1, HostSteps DEF OneEvent

(* await_stream, sync_event: a wait that ends well means the operations    *)
(* it is for have run.                                                     *)
THEOREM SyncSoundHolds == ASSUME ~WaitsVisible PROVE Spec => SyncSound
<1> DEFINE Sound == host'.rc = "SUCCESS" =>
             /\ \A s \in host.todo \ host'.todo : CO!Seen(s) \subseteq done
             /\ \A e \in host.event \ host'.event : mark[e] \subseteq done
<1>1. ASSUME EInv, Positive, OneEvent, [Next]_vars PROVE [Sound]_vars
  <2> SUFFICES ASSUME host'.rc = "SUCCESS" PROVE Sound
    OBVIOUS
  <2>0. /\ host \in HostState /\ IInv
        /\ host.todo # {} \/ host.event # {} => \A s \in Streams : ~str[s].open
    BY <1>1 DEF EInv, IInv, Host_OK, Flushed
  <2>1. CASE host' = host
    BY <2>1
  <2>2. CASE host = Idling
    BY <2>2 DEF Idling
  <2>3. CASE host # Idling /\ WaitTimesOut
    <3>1. host'.rc = "ILLEGAL_ADDRESS"
      BY <2>0, <2>3 DEF WaitTimesOut, StreamTimesOut, EventTimesOut, HostState
    <3> QED BY <3>1
  <2>4. CASE EntryReturns
    BY <2>4 DEF EntryReturns, Awaited
  <2>5. ASSUME NEW s \in Streams, host # Idling, AwaitReturns(s) PROVE Sound
    <3>1. host'.todo = host.todo \ {s} /\ host'.event = host.event
      BY <2>0, <2>5 DEF AwaitReturns, HostState
    <3>2. ~failed /\ LastStatus(str[s]) # "error"
      BY <2>0, <2>5 DEF AwaitReturns, HostState
    <3>3. signal[Dev(s)] >= str[s].fenceValue
      BY <1>1, <2>5, <3>2, LastCompleted DEF AwaitReturns
    <3>4. last[s] \subseteq done
      BY <1>1, <2>0, <2>5, <3>3, StreamDone DEF AwaitReturns
    <3> QED BY <3>1, <3>4 DEF CO!Seen
  <2>6. ASSUME NEW e \in Events, host # Idling, EventAwaitReturns(e) PROVE Sound
    <3> DEFINE s == ev[e].stream
    <3>1. host'.todo = host.todo /\ \A x \in host.event : x = e
      BY <1>1, <2>0, <2>6 DEF EventAwaitReturns, HostState, OneEvent
    <3>2. EventReached(e) \/ (ev[e].recorded /\ Drained(str[s]) /\ LastStatus(str[s]) # "error")
      BY <2>0, <2>6 DEF EventAwaitReturns, HostState
    <3>3. s \in Streams /\ ev[e].value \in Nat /\ str[s] \in Stream /\ Own(str[s]) /\ ~str[s].open
      BY <2>0, <2>6, EventStream DEF IInv, Good, EventAwaitReturns
    <3>4. ev[e].recorded => ev[e].value <= str[s].fenceValue
      BY <2>0, <3>3, SentFacts DEF IInv, Covered
    <3>5. EventReached(e)
      <4>1. CASE ev[e].recorded /\ Drained(str[s]) /\ LastStatus(str[s]) # "error"
        <5>1. signal[Dev(s)] >= str[s].fenceValue
          BY <1>1, <3>3, <4>1, LastCompleted
        <5>2. signal[Dev(s)] \in Nat /\ str[s].fenceValue \in Nat
          BY <2>0, <3>3, FenceTypes, StreamFields
        <5> QED BY <3>3, <3>4, <4>1, <5>1, <5>2 DEF EventReached
      <4> QED BY <3>2, <4>1
    <3>6. mark[e] \subseteq done
      BY <1>1, <3>5, EventDone
    <3> QED BY <3>1, <3>6
  <2> QED BY <1>1, <2>0, <2>1, <2>2, <2>3, <2>4, <2>5, <2>6, HostSteps DEF HostProgress
<1>2. Init => OneEvent
  BY DEF Init, OneEvent, Idling
<1>3. EInv /\ OneEvent /\ [Next]_vars => OneEvent'
  BY NextOneEvent DEF EInv
<1>4. EInv /\ Positive /\ OneEvent /\ [Next]_vars => [Sound]_vars
  BY <1>1
<1> QED BY <1>2, <1>3, <1>4, EInvHolds, PTL DEF Spec, SyncSound
=============================================================================
