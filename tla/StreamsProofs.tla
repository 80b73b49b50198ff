--------------------------- MODULE StreamsProofs ---------------------------
(***************************************************************************)
(* Proofs about Streams.tla, for any streams, events, commit thresholds    *)
(* and bounds: its types, and the facts about command buffers that the     *)
(* order of device work rests on.                                          *)
(***************************************************************************)
EXTENDS Streams, SequenceTheorems, TLAPS

(* The waits of one stream, and whether table T has committed what one     *)
(* waits for.                                                              *)
StWaits(st) ==
  st.pending \cup WaitsOf(st.body) \cup UNION {WaitsOf(st.sent[i].body) : i \in DOMAIN st.sent}
Reaches(T, w) ==
  w[2] <= IF w[1][1] = "dev" THEN T[w[1][2]].fenceValue ELSE T[w[1][2]].hostValue

Counts(st) ==
  st.fenceValue = Len(st.sent) /\ \A i \in DOMAIN st.sent : st.sent[i].value = i

(* The value the stream's fence has once what is open is committed. *)
Reach(st) == IF st.open THEN st.fenceValue + 1 ELSE st.fenceValue

Exclusive(T) ==
  \A s \in Streams \ {Legacy} :
    T[s].state = "live" /\ ~T[s].nonBlocking /\ T[s].open => ~T[Legacy].open

(* A stream by itself: its buffers are numbered, only a live stream has an *)
(* open one, and one that is not created yet has used no fence value.      *)
Own(st) ==
  /\ Counts(st)
  /\ st.state # "live" => ~st.open
  /\ st.state = "new" => st.fenceValue = 0 /\ st.hostValue = 0

(* What every operation on the stream table preserves. *)
Good(T) ==
  /\ T \in [Streams -> Stream]
  /\ \A s \in Streams : Own(T[s])
  /\ T[Legacy].state = "live" /\ ~T[Legacy].nonBlocking
  /\ Exclusive(T)
  /\ \A s \in Streams : \A w \in StWaits(T[s]) : Reaches(T, w)

(* No value of table T goes back in table U. *)
Grows(T, U) ==
  \A s \in Streams :
    /\ U[s].fenceValue >= T[s].fenceValue /\ U[s].hostValue >= T[s].hostValue
    /\ Reach(U[s]) >= Reach(T[s])

-----------------------------------------------------------------------------
(* One stream *)

LEMMA StreamFields ==
  ASSUME NEW st \in Stream
  PROVE  /\ st.open \in BOOLEAN /\ st.nonBlocking \in BOOLEAN
         /\ st.fenceValue \in Nat /\ st.hostValue \in Nat /\ st.ops \in Nat /\ st.commitAt \in Nat
         /\ st.body \in Seq(Item) /\ st.sent \in Seq(CmdBuf)
         /\ st.keep \in SUBSET Nat /\ st.pending \in SUBSET Wait
         /\ st.retired \in SUBSET (Nat \X Nat) /\ st.waited \in [Streams -> Nat]
         /\ st.state \in {"new", "live", "gone"}
  BY DEF Stream

LEMMA CommitType ==
  ASSUME NEW st \in Stream, NEW h \in Handler
  PROVE  CommitWith(st, h) \in Stream
<1>1. CASE ~st.open
  BY <1>1 DEF CommitWith
<1>2. CASE st.open
  <2> DEFINE v == st.fenceValue + 1
             b == [body |-> st.body, at |-> 0, value |-> v, handler |-> h, status |-> "committed"]
             r == st.retired \cup {<<v, g>> : g \in st.keep}
  <2>1. CommitWith(st, h) = [st EXCEPT !.open = FALSE, !.body = <<>>, !.ops = 0, !.keep = {},
                               !.fenceValue = v, !.sent = Append(@, b), !.retired = r]
    BY <1>2 DEF CommitWith, Stream
  <2>2. v \in Nat /\ r \in SUBSET (Nat \X Nat)
    BY StreamFields
  <2>3. b \in CmdBuf
    BY <2>2, StreamFields DEF CmdBuf
  <2>4. Append(st.sent, b) \in Seq(CmdBuf) /\ <<>> \in Seq(Item)
    BY <2>3, StreamFields
  <2> DEFINE sent == Append(st.sent, b)
             none == <<>>
  <2>5. v \in Nat /\ r \in SUBSET (Nat \X Nat) /\ sent \in Seq(CmdBuf) /\ none \in Seq(Item)
    BY <2>2, <2>4
  <2>6. CommitWith(st, h) = [st EXCEPT !.open = FALSE, !.body = none, !.ops = 0, !.keep = {},
                               !.fenceValue = v, !.sent = sent, !.retired = r]
    BY <2>1
  <2> HIDE DEF v, r, sent, none
  <2>7. [st EXCEPT !.open = FALSE, !.body = none, !.ops = 0, !.keep = {},
                   !.fenceValue = v, !.sent = sent, !.retired = r] \in Stream
    BY <2>5 DEF Stream
  <2> QED BY <2>6, <2>7
<1> QED BY <1>1, <1>2

(* What a commit does to a stream. *)
LEMMA CommitFacts ==
  ASSUME NEW st \in Stream, NEW h \in Handler, Own(st)
  PROVE  /\ Own(CommitWith(st, h))
         /\ ~CommitWith(st, h).open
         /\ CommitWith(st, h).state = st.state
         /\ CommitWith(st, h).nonBlocking = st.nonBlocking
         /\ CommitWith(st, h).hostValue = st.hostValue
         /\ CommitWith(st, h).waited = st.waited
         /\ CommitWith(st, h).pending = st.pending
         /\ CommitWith(st, h).fenceValue = Reach(st)
         /\ StWaits(CommitWith(st, h)) \subseteq StWaits(st)
<1>1. CASE ~st.open
  BY <1>1 DEF CommitWith, Reach
<1>2. CASE st.open
  <2> DEFINE v == st.fenceValue + 1
             b == [body |-> st.body, at |-> 0, value |-> v, handler |-> h, status |-> "committed"]
             r == st.retired \cup {<<v, g>> : g \in st.keep}
             c == CommitWith(st, h)
  <2>1. c = [st EXCEPT !.open = FALSE, !.body = <<>>, !.ops = 0, !.keep = {},
                       !.fenceValue = v, !.sent = Append(@, b), !.retired = r]
    BY <1>2 DEF CommitWith, Stream
  <2>2. /\ c.sent = Append(st.sent, b) /\ c.fenceValue = v /\ c.body = <<>> /\ c.pending = st.pending
        /\ ~c.open /\ c.state = st.state /\ c.nonBlocking = st.nonBlocking
        /\ c.hostValue = st.hostValue /\ c.waited = st.waited
    BY <2>1 DEF Stream
  <2>3. b \in CmdBuf /\ b.value = v /\ b.body = st.body /\ v \in Nat
    BY StreamFields DEF CmdBuf
  <2> HIDE DEF b, c
  <2>4. /\ Len(c.sent) = Len(st.sent) + 1 /\ Len(st.sent) \in Nat
        /\ DOMAIN st.sent = 1..Len(st.sent) /\ DOMAIN c.sent = 1..(Len(st.sent) + 1)
        /\ \A i \in 1..Len(st.sent) : c.sent[i] = st.sent[i]
        /\ c.sent[Len(st.sent) + 1] = b
    BY <2>2, <2>3, StreamFields
  <2>5. Counts(c)
    BY <2>2, <2>3, <2>4 DEF Own, Counts
  <2>6. StWaits(c) \subseteq StWaits(st)
    <3> SUFFICES ASSUME NEW w \in StWaits(c) PROVE w \in StWaits(st)
      OBVIOUS
    <3>1. CASE w \in c.pending
      BY <3>1, <2>2 DEF StWaits
    <3>2. CASE w \in WaitsOf(c.body)
      BY <3>2, <2>2 DEF WaitsOf
    <3>3. ASSUME NEW i \in DOMAIN c.sent, w \in WaitsOf(c.sent[i].body) PROVE w \in StWaits(st)
      <4>1. CASE i \in 1..Len(st.sent)
        BY <3>3, <4>1, <2>4 DEF StWaits
      <4>2. CASE i = Len(st.sent) + 1
        BY <3>3, <4>2, <2>3, <2>4 DEF StWaits
      <4> QED BY <4>1, <4>2, <2>4
    <3> QED BY <3>1, <3>2, <3>3 DEF StWaits
  <2>7. Own(c)
    BY <1>2, <2>2, <2>5 DEF Own
  <2> QED BY <1>2, <2>2, <2>6, <2>7 DEF c, Reach
<1> QED BY <1>1, <1>2

LEMMA WaitsTyped ==
  ASSUME NEW st \in Stream
  PROVE  StWaits(st) \subseteq Wait
<1>1. \A b \in Seq(Item) : WaitsOf(b) \subseteq Wait
  <2> SUFFICES ASSUME NEW b \in Seq(Item), NEW k \in DOMAIN b PROVE b[k].waits \subseteq Wait
    BY DEF WaitsOf
  <2>1. b[k] \in Item
    OBVIOUS
  <2> QED BY <2>1 DEF Item
<1>2. \A i \in DOMAIN st.sent : st.sent[i].body \in Seq(Item)
  <2> SUFFICES ASSUME NEW i \in DOMAIN st.sent PROVE st.sent[i].body \in Seq(Item)
    OBVIOUS
  <2>1. st.sent[i] \in CmdBuf
    BY StreamFields
  <2> QED BY <2>1 DEF CmdBuf
<1> QED BY <1>1, <1>2, StreamFields DEF StWaits

(* A stream record with another body. *)
LEMMA EncodeFacts ==
  ASSUME NEW st \in Stream, NEW item \in Item
  PROVE  /\ Encode(st, item) \in Stream
         /\ Encode(st, item).sent = st.sent /\ Encode(st, item).open = st.open
         /\ Encode(st, item).state = st.state /\ Encode(st, item).nonBlocking = st.nonBlocking
         /\ Encode(st, item).fenceValue = st.fenceValue /\ Encode(st, item).hostValue = st.hostValue
         /\ Encode(st, item).pending = st.pending /\ Encode(st, item).ops = st.ops
         /\ Encode(st, item).keep = st.keep
         /\ StWaits(Encode(st, item)) \subseteq StWaits(st) \cup item.waits
<1> DEFINE body == Append(st.body, item)
           c == Encode(st, item)
<1>1. c = [st EXCEPT !.body = body]
  BY DEF Encode
<1>2. body \in Seq(Item)
  BY StreamFields
<1>3. /\ DOMAIN body = 1..(Len(st.body) + 1) /\ DOMAIN st.body = 1..Len(st.body)
      /\ Len(st.body) \in Nat
      /\ \A k \in DOMAIN st.body : body[k] = st.body[k]
      /\ body[Len(st.body) + 1] = item
  BY StreamFields
<1> HIDE DEF body, c
<1>4. /\ c \in Stream /\ c.body = body /\ c.sent = st.sent /\ c.open = st.open /\ c.state = st.state
      /\ c.nonBlocking = st.nonBlocking /\ c.fenceValue = st.fenceValue /\ c.hostValue = st.hostValue
      /\ c.pending = st.pending /\ c.ops = st.ops /\ c.keep = st.keep
  BY <1>1, <1>2 DEF Stream
<1>5. WaitsOf(body) \subseteq WaitsOf(st.body) \cup item.waits
  BY <1>3 DEF WaitsOf
<1>6. StWaits(c) \subseteq StWaits(st) \cup item.waits
  BY <1>4, <1>5 DEF StWaits
<1> QED BY <1>4, <1>6 DEF c
-----------------------------------------------------------------------------
(* The table *)

(* A wait that table T covers is covered by every table that T grows into. *)
LEMMA StillReaches ==
  ASSUME NEW T \in [Streams -> Stream], NEW U \in [Streams -> Stream], Grows(T, U),
         NEW w \in Wait, Reaches(T, w)
  PROVE  Reaches(U, w)
<1>1. w[1][2] \in Streams /\ w[2] \in Nat
  BY DEF Wait, Fence
<1> DEFINE t == w[1][2]
<1>2. /\ T[t].fenceValue \in Nat /\ T[t].hostValue \in Nat
      /\ U[t].fenceValue \in Nat /\ U[t].hostValue \in Nat
  BY <1>1, StreamFields
<1>3. U[t].fenceValue >= T[t].fenceValue /\ U[t].hostValue >= T[t].hostValue
  BY <1>1 DEF Grows
<1> QED BY <1>1, <1>2, <1>3 DEF Reaches

(* What an operation has to show of the table it leaves. *)
LEMMA Replace ==
  ASSUME NEW T, Good(T), NEW U \in [Streams -> Stream], Grows(T, U), Exclusive(U),
         \A s \in Streams : Own(U[s]),
         U[Legacy].state = "live" /\ ~U[Legacy].nonBlocking,
         \A s \in Streams : \A w \in StWaits(U[s]) :
            (\E t \in Streams : w \in StWaits(T[t])) \/ Reaches(U, w)
  PROVE  Good(U)
<1>1. T \in [Streams -> Stream]
  BY DEF Good
<1>2. ASSUME NEW t \in Streams, NEW w \in StWaits(T[t]) PROVE Reaches(U, w)
  <2>1. w \in Wait /\ Reaches(T, w)
    BY <1>1, WaitsTyped DEF Good
  <2> QED BY <1>1, <2>1, StillReaches
<1> QED BY <1>2 DEF Good

LEMMA GrowsRefl ==
  ASSUME NEW T \in [Streams -> Stream]
  PROVE  Grows(T, T)
<1> SUFFICES ASSUME NEW s \in Streams
             PROVE  /\ T[s].fenceValue >= T[s].fenceValue /\ T[s].hostValue >= T[s].hostValue
                    /\ Reach(T[s]) >= Reach(T[s])
  BY DEF Grows
<1>1. T[s].fenceValue \in Nat /\ T[s].hostValue \in Nat
  BY StreamFields
<1>2. Reach(T[s]) \in Nat
  BY <1>1 DEF Reach
<1> QED BY <1>1, <1>2

LEMMA GrowsTrans ==
  ASSUME NEW T \in [Streams -> Stream], NEW U \in [Streams -> Stream], NEW V \in [Streams -> Stream],
         Grows(T, U), Grows(U, V)
  PROVE  Grows(T, V)
<1>1. ASSUME NEW X \in [Streams -> Stream], NEW s \in Streams
      PROVE  X[s].fenceValue \in Nat /\ X[s].hostValue \in Nat /\ Reach(X[s]) \in Nat
  BY StreamFields DEF Reach
<1> SUFFICES ASSUME NEW s \in Streams
             PROVE  /\ V[s].fenceValue >= T[s].fenceValue /\ V[s].hostValue >= T[s].hostValue
                    /\ Reach(V[s]) >= Reach(T[s])
  BY DEF Grows
<1>2. /\ U[s].fenceValue >= T[s].fenceValue /\ U[s].hostValue >= T[s].hostValue
      /\ Reach(U[s]) >= Reach(T[s])
      /\ V[s].fenceValue >= U[s].fenceValue /\ V[s].hostValue >= U[s].hostValue
      /\ Reach(V[s]) >= Reach(U[s])
  BY DEF Grows
<1>3. /\ T[s].fenceValue \in Nat /\ T[s].hostValue \in Nat /\ Reach(T[s]) \in Nat
      /\ U[s].fenceValue \in Nat /\ U[s].hostValue \in Nat /\ Reach(U[s]) \in Nat
      /\ V[s].fenceValue \in Nat /\ V[s].hostValue \in Nat /\ Reach(V[s]) \in Nat
  BY <1>1
<1> QED BY <1>2, <1>3

(* Replacing the record of one stream keeps the table good if the record   *)
(* is good by itself, opens nothing, goes back in nothing, and its new     *)
(* waits are for what is committed.                                        *)
LEMMA Update ==
  ASSUME NEW T, Good(T), NEW s \in Streams, NEW st \in Stream, Own(st),
         st.fenceValue >= T[s].fenceValue, st.hostValue >= T[s].hostValue, Reach(st) >= Reach(T[s]),
         st.open => T[s].open /\ st.state = T[s].state /\ st.nonBlocking = T[s].nonBlocking,
         s = Legacy => st.state = "live" /\ ~st.nonBlocking,
         \A w \in StWaits(st) : w \in StWaits(T[s]) \/ Reaches([T EXCEPT ![s] = st], w)
  PROVE  Good([T EXCEPT ![s] = st]) /\ Grows(T, [T EXCEPT ![s] = st])
<1> DEFINE U == [T EXCEPT ![s] = st]
<1>0. T \in [Streams -> Stream]
  BY DEF Good
<1>1. U \in [Streams -> Stream] /\ U[s] = st /\ \A t \in Streams \ {s} : U[t] = T[t]
  BY <1>0
<1>2. \A t \in Streams : T[t].fenceValue \in Nat /\ T[t].hostValue \in Nat
  BY <1>0, StreamFields
<1>3. \A w \in StWaits(st) : w \in StWaits(T[s]) \/ Reaches(U, w)
  OBVIOUS
<1> HIDE DEF U
<1>4. Grows(T, U)
  <2> SUFFICES ASSUME NEW t \in Streams
               PROVE  /\ U[t].fenceValue >= T[t].fenceValue /\ U[t].hostValue >= T[t].hostValue
                      /\ Reach(U[t]) >= Reach(T[t])
    BY DEF Grows
  <2>1. CASE t = s
    BY <2>1, <1>1
  <2>2. CASE t # s
    <3>1. U[t] = T[t] /\ Reach(T[t]) \in Nat
      BY <2>2, <1>1, <1>2 DEF Reach
    <3> QED BY <3>1, <1>2
  <2> QED BY <2>1, <2>2
<1>5. \A t \in Streams : Own(U[t])
  BY <1>1 DEF Good
<1>6. U[Legacy].state = "live" /\ ~U[Legacy].nonBlocking
  BY <1>1, StreamsAssumption DEF Good
<1>7. Exclusive(U)
  BY <1>1, StreamsAssumption DEF Good, Exclusive
<1>8. \A t \in Streams : \A w \in StWaits(U[t]) :
        (\E x \in Streams : w \in StWaits(T[x])) \/ Reaches(U, w)
  BY <1>1, <1>3
<1>9. Good(U)
  BY <1>1, <1>4, <1>5, <1>6, <1>7, <1>8, Replace
<1> QED BY <1>4, <1>9 DEF U

LEMMA CommitOneGood ==
  ASSUME NEW T, Good(T), NEW s \in Streams, NEW h \in Handler
  PROVE  /\ Good([T EXCEPT ![s] = CommitWith(@, h)])
         /\ Grows(T, [T EXCEPT ![s] = CommitWith(@, h)])
<1>1. T[s] \in Stream /\ Own(T[s])
  BY DEF Good
<1> DEFINE c == CommitWith(T[s], h)
<1>2. c \in Stream
  BY <1>1, CommitType
<1>3. /\ Own(c) /\ ~c.open /\ c.state = T[s].state /\ c.nonBlocking = T[s].nonBlocking
      /\ c.hostValue = T[s].hostValue /\ c.fenceValue = Reach(T[s])
      /\ StWaits(c) \subseteq StWaits(T[s])
  BY <1>1, CommitFacts
<1> HIDE DEF c
<1>4. T[s].fenceValue \in Nat /\ T[s].hostValue \in Nat
  BY <1>1, StreamFields
<1>5. c.fenceValue >= T[s].fenceValue /\ c.hostValue >= T[s].hostValue /\ Reach(c) >= Reach(T[s])
  BY <1>3, <1>4 DEF Reach
<1>6. s = Legacy => c.state = "live" /\ ~c.nonBlocking
  BY <1>3 DEF Good
<1>7. Good([T EXCEPT ![s] = c]) /\ Grows(T, [T EXCEPT ![s] = c])
  BY <1>2, <1>3, <1>5, <1>6, Update
<1> QED BY <1>7 DEF c

LEMMA NoHandlerType == NoHandler \in Handler
  BY DEF NoHandler, Handler

(* What committing the streams of S does to the table. *)
LEMMA CommitSetGood ==
  ASSUME NEW T, Good(T), NEW S
  PROVE  /\ Good(CommitSet(T, S))
         /\ Grows(T, CommitSet(T, S))
         /\ \A s \in Streams \ S : CommitSet(T, S)[s] = T[s]
         /\ \A s \in Streams :
              /\ s \in S => ~CommitSet(T, S)[s].open
              /\ CommitSet(T, S)[s].open => T[s].open
              /\ CommitSet(T, S)[s].state = T[s].state
              /\ CommitSet(T, S)[s].nonBlocking = T[s].nonBlocking
<1> DEFINE U == CommitSet(T, S)
<1>1. \A s \in Streams : T[s] \in Stream /\ Own(T[s])
  BY DEF Good
<1>2. U = [s \in Streams |-> IF s \in S THEN CommitWith(T[s], NoHandler) ELSE T[s]]
  BY DEF CommitSet, Commit
<1> HIDE DEF U
<1>3. ASSUME NEW s \in Streams
      PROVE  /\ U[s] \in Stream /\ Own(U[s])
             /\ U[s].fenceValue >= T[s].fenceValue /\ U[s].hostValue >= T[s].hostValue
             /\ Reach(U[s]) >= Reach(T[s])
             /\ s \notin S => U[s] = T[s]
             /\ s \in S => ~U[s].open
             /\ U[s].open => T[s].open
             /\ U[s].state = T[s].state /\ U[s].nonBlocking = T[s].nonBlocking
             /\ StWaits(U[s]) \subseteq StWaits(T[s])
  <2>0. T[s].fenceValue \in Nat /\ T[s].hostValue \in Nat /\ Reach(T[s]) \in Nat
    BY <1>1, StreamFields DEF Reach
  <2>1. CASE s \in S
    <3>1. U[s] = CommitWith(T[s], NoHandler)
      BY <1>2, <2>1
    <3>2. U[s] \in Stream
      BY <1>1, <3>1, NoHandlerType, CommitType
    <3>3. /\ Own(U[s]) /\ ~U[s].open /\ U[s].state = T[s].state
          /\ U[s].nonBlocking = T[s].nonBlocking /\ U[s].hostValue = T[s].hostValue
          /\ U[s].fenceValue = Reach(T[s]) /\ StWaits(U[s]) \subseteq StWaits(T[s])
      BY <1>1, <3>1, NoHandlerType, CommitFacts
    <3> QED BY <2>0, <2>1, <3>2, <3>3 DEF Reach
  <2>2. CASE s \notin S
    <3>1. U[s] = T[s]
      BY <1>2, <2>2
    <3> QED BY <1>1, <2>0, <2>2, <3>1
  <2> QED BY <2>1, <2>2
<1>4. U \in [Streams -> Stream]
  BY <1>2, <1>3
<1>5. Grows(T, U)
  BY <1>3 DEF Grows
<1>6. Exclusive(U)
  BY <1>3, StreamsAssumption DEF Good, Exclusive
<1>7. Good(U)
  BY <1>3, <1>4, <1>5, <1>6, StreamsAssumption, Replace DEF Good
<1> QED BY <1>3, <1>5, <1>7 DEF U

(* The table after a buffer of s is opened. *)
LEMMA OpenGood ==
  ASSUME NEW T, Good(T), signal \in [Fence -> Nat], NEW s \in Streams, T[s].state = "live"
  PROVE  /\ Good(Open(T, s)) /\ Grows(T, Open(T, s))
         /\ Open(T, s)[s].open
         /\ Open(T, s)[s].state = "live"
         /\ Open(T, s)[s].hostValue = T[s].hostValue
<1>0. T \in [Streams -> Stream] /\ T[s] \in Stream /\ Own(T[s])
  BY DEF Good
<1>1. CASE T[s].open
  BY <1>0, <1>1, GrowsRefl DEF Open
<1>2. CASE ~T[s].open
  <2> DEFINE peers == LegacyPeers(T, s)
             P == CommitSet(T, peers)
             own == IF T[s].fenceValue > 0 THEN {<<Dev(s), T[s].fenceValue>>} ELSE {}
             deps == LegacyDependencies(T, s)
             first == WaitItem(own \cup deps \cup T[s].pending)
             waited == [p \in Streams |-> IF p \in Unwaited(T, s) THEN P[p].fenceValue
                                          ELSE T[s].waited[p]]
             retired == {r \in T[s].retired : r[1] > signal[Dev(s)]}
             body == <<first>>
             c == [T[s] EXCEPT !.open = TRUE, !.body = body, !.ops = 0, !.keep = {},
                     !.pending = {}, !.waited = waited, !.retired = retired]
             U == [P EXCEPT ![s] = c]
  <2>1. Open(T, s) = U
    BY <1>2 DEF Open, PeersCommitted
  <2>2. peers \subseteq Streams \ {s}
    BY StreamsAssumption DEF LegacyPeers, LiveStreams
  <2>3. /\ Good(P) /\ Grows(T, P) /\ P[s] = T[s] /\ P \in [Streams -> Stream]
        /\ \A p \in Streams :
             /\ p \in peers => ~P[p].open
             /\ P[p].open => T[p].open
             /\ P[p].state = T[p].state /\ P[p].nonBlocking = T[p].nonBlocking
    BY <2>2, CommitSetGood DEF Good
  <2>4. \A p \in Streams : P[p].fenceValue \in Nat /\ P[p].hostValue \in Nat
    BY <2>3, StreamFields
  <2>5. deps = {<<Dev(p), P[p].fenceValue>> : p \in Unwaited(T, s)} /\ Unwaited(T, s) \subseteq peers
    BY DEF LegacyDependencies, Unwaited, PeersCommitted
  <2> HIDE DEF P, peers, deps
  <2>6. own \cup deps \cup T[s].pending \subseteq Wait
    <3>1. own \subseteq Wait
      BY <1>0, StreamFields DEF Wait, Fence, Dev
    <3>2. deps \subseteq Wait
      BY <2>2, <2>4, <2>5 DEF Wait, Fence, Dev
    <3>3. T[s].pending \subseteq Wait
      BY <1>0, StreamFields
    <3> QED BY <3>1, <3>2, <3>3
  <2>7. first \in Item /\ first.waits = own \cup deps \cup T[s].pending
    BY <2>6 DEF WaitItem, Item
  <2>8. waited \in [Streams -> Nat]
    BY <1>0, <2>2, <2>4, <2>5, StreamFields
  <2>9. retired \in SUBSET (Nat \X Nat)
    BY <1>0, StreamFields
  <2> HIDE DEF first, waited, retired
  <2>10. body \in Seq(Item) /\ DOMAIN body = {1} /\ body[1] = first
    BY <2>7
  <2> HIDE DEF body
  <2>11. c \in Stream
    BY <1>0, <2>8, <2>9, <2>10 DEF Stream
  <2>12. /\ c.open /\ c.body = body /\ c.pending = {} /\ c.sent = T[s].sent
         /\ c.state = "live" /\ c.nonBlocking = T[s].nonBlocking
         /\ c.fenceValue = T[s].fenceValue /\ c.hostValue = T[s].hostValue
    BY <1>0 DEF Stream
  <2> HIDE DEF c
  <2>13. U \in [Streams -> Stream] /\ U[s] = c /\ \A p \in Streams \ {s} : U[p] = P[p]
    BY <2>3, <2>11
  <2> HIDE DEF U
  <2>14. Own(c)
    BY <1>0, <2>12 DEF Own, Counts
  <2>15. Grows(P, U)
    <3> SUFFICES ASSUME NEW p \in Streams
                 PROVE  /\ U[p].fenceValue >= P[p].fenceValue /\ U[p].hostValue >= P[p].hostValue
                        /\ Reach(U[p]) >= Reach(P[p])
      BY DEF Grows
    <3>1. CASE p = s
      BY <1>2, <2>3, <2>4, <2>12, <2>13, <3>1 DEF Reach
    <3>2. CASE p # s
      <4>1. U[p] = P[p] /\ Reach(P[p]) \in Nat
        BY <2>4, <2>13, <3>2 DEF Reach
      <4> QED BY <2>4, <4>1
    <3> QED BY <3>1, <3>2
  <2>16. Exclusive(U)
    <3> SUFFICES ASSUME NEW p \in Streams \ {Legacy}, U[p].state = "live", ~U[p].nonBlocking, U[p].open
                 PROVE  ~U[Legacy].open
      BY DEF Exclusive
    <3>1. CASE s = Legacy
      <4>1. p \in LegacyPeers(T, s)
        BY <2>3, <2>13, <3>1 DEF LegacyPeers, LiveStreams
      <4> QED BY <2>3, <2>13, <3>1, <4>1 DEF peers
    <3>2. CASE s # Legacy /\ p = s
      <4>1. Legacy \in LegacyPeers(T, s)
        BY <2>12, <2>13, <3>2 DEF LegacyPeers
      <4> QED BY <2>3, <2>13, <3>2, <4>1, StreamsAssumption DEF peers
    <3>3. CASE s # Legacy /\ p # s
      BY <2>3, <2>13, <3>3, StreamsAssumption DEF Good, Exclusive
    <3> QED BY <3>1, <3>2, <3>3
  <2>17. U[Legacy].state = "live" /\ ~U[Legacy].nonBlocking
    BY <2>3, <2>12, <2>13, StreamsAssumption DEF Good
  <2>18. ASSUME NEW p \in Streams, NEW w \in StWaits(U[p])
         PROVE  (\E t \in Streams : w \in StWaits(P[t])) \/ Reaches(U, w)
    <3>1. CASE p # s
      BY <2>13, <2>18, <3>1
    <3>2. CASE p = s /\ w \in own
      <4>1. w[1][1] = "dev" /\ w[1][2] = s /\ w[2] = T[s].fenceValue
        BY <3>2 DEF Dev
      <4> QED BY <1>0, <2>12, <2>13, <4>1, StreamFields DEF Reaches
    <3>3. CASE p = s /\ w \in deps
      <4>1. PICK t \in Unwaited(T, s) : w = <<Dev(t), P[t].fenceValue>>
        BY <2>5, <3>3
      <4>2. t \in Streams \ {s} /\ U[t] = P[t]
        BY <2>2, <2>5, <2>13
      <4>3. w[1][1] = "dev" /\ w[1][2] = t /\ w[2] = P[t].fenceValue
        BY <4>1 DEF Dev
      <4> QED BY <2>4, <4>2, <4>3 DEF Reaches
    <3>4. CASE p = s /\ w \in T[s].pending
      BY <2>3, <3>4 DEF StWaits
    <3>5. CASE p = s /\ \E i \in DOMAIN T[s].sent : w \in WaitsOf(T[s].sent[i].body)
      BY <2>3, <3>5 DEF StWaits
    <3>6. WaitsOf(body) = own \cup deps \cup T[s].pending
      BY <2>7, <2>10 DEF WaitsOf
    <3>7. StWaits(c) = WaitsOf(body) \cup UNION {WaitsOf(T[s].sent[i].body) : i \in DOMAIN T[s].sent}
      BY <2>12 DEF StWaits
    <3> QED BY <2>13, <2>18, <3>1, <3>2, <3>3, <3>4, <3>5, <3>6, <3>7
  <2>19. \A p \in Streams : Own(U[p])
    BY <2>3, <2>13, <2>14 DEF Good
  <2>20. Good(U)
    BY <2>3, <2>13, <2>15, <2>16, <2>17, <2>18, <2>19, Replace
  <2>21. Grows(T, U)
    BY <1>0, <2>3, <2>13, <2>15, GrowsTrans
  <2> QED BY <2>1, <2>12, <2>13, <2>20, <2>21
<1> QED BY <1>1, <1>2

(* A record that differs from that of s in nothing the table's invariants  *)
(* read, or only by a commit, keeps the table good.                        *)
Later(st, c) ==
  /\ c \in Stream /\ Own(c)
  /\ c.fenceValue >= st.fenceValue /\ c.hostValue = st.hostValue /\ Reach(c) >= Reach(st)
  /\ c.open => st.open
  /\ c.state = st.state /\ c.nonBlocking = st.nonBlocking
  /\ StWaits(c) \subseteq StWaits(st)

LEMMA LaterGood ==
  ASSUME NEW T, Good(T), NEW s \in Streams, NEW c, Later(T[s], c)
  PROVE  Good([T EXCEPT ![s] = c]) /\ Grows(T, [T EXCEPT ![s] = c])
<1>1. T[s] \in Stream /\ T[s].hostValue \in Nat
  BY StreamFields DEF Good
<1>2. s = Legacy => c.state = "live" /\ ~c.nonBlocking
  BY DEF Good, Later
<1>3. c.hostValue >= T[s].hostValue
  BY <1>1 DEF Later
<1> QED BY <1>2, <1>3, Update DEF Later

LEMMA BumpOpsLater ==
  ASSUME NEW st \in Stream, Own(st)
  PROVE  Later(st, BumpOps(st))
<1> DEFINE n == st.ops + 1
           at == IF n # 1 THEN st.commitAt
                 ELSE IF Drained(st) THEN CommitFirst ELSE CommitThreshold
           st1 == [st EXCEPT !.ops = n, !.commitAt = at]
<1>1. n \in Nat /\ at \in Nat
  BY StreamFields, StreamsAssumption
<1>2. BumpOps(st) = IF n >= at THEN CommitWith(st1, NoHandler) ELSE st1
  BY DEF BumpOps, Commit
<1> HIDE DEF n, at
<1>3. /\ st1 \in Stream /\ st1.fenceValue = st.fenceValue /\ st1.hostValue = st.hostValue
      /\ st1.open = st.open /\ st1.state = st.state /\ st1.nonBlocking = st.nonBlocking
      /\ st1.sent = st.sent /\ st1.body = st.body /\ st1.pending = st.pending
  BY <1>1 DEF Stream
<1> HIDE DEF st1
<1>4. Own(st1) /\ StWaits(st1) = StWaits(st) /\ Reach(st1) = Reach(st)
  BY <1>3 DEF Own, Counts, StWaits, Reach
<1>5. st.fenceValue \in Nat /\ Reach(st) \in Nat
  BY StreamFields DEF Reach
<1>6. CASE ~(n >= at)
  BY <1>2, <1>3, <1>4, <1>5, <1>6 DEF Later
<1>7. CASE n >= at
  <2> DEFINE c == CommitWith(st1, NoHandler)
  <2>1. c \in Stream
    BY <1>3, CommitType, NoHandlerType
  <2>2. /\ Own(c) /\ ~c.open /\ c.state = st1.state /\ c.nonBlocking = st1.nonBlocking
        /\ c.hostValue = st1.hostValue /\ c.fenceValue = Reach(st1)
        /\ StWaits(c) \subseteq StWaits(st1)
    BY <1>3, <1>4, CommitFacts, NoHandlerType
  <2> HIDE DEF c
  <2>3. Reach(st) >= st.fenceValue
    BY <1>5 DEF Reach
  <2>4. Reach(c) = Reach(st) /\ c.fenceValue = Reach(st)
    BY <1>4, <2>2 DEF Reach
  <2>5. Later(st, c)
    BY <1>3, <1>4, <1>5, <2>1, <2>2, <2>3, <2>4 DEF Later
  <2> QED BY <1>2, <1>7, <2>5 DEF c
<1> QED BY <1>6, <1>7

LEMMA EncodeKernelGood ==
  ASSUME NEW T, Good(T), signal \in [Fence -> Nat], NEW s \in Streams, T[s].state = "live",
         NEW o \in Nat, NEW needs \in SUBSET Nat
  PROVE  Good(EncodeKernel(T, s, o, needs)) /\ Grows(T, EncodeKernel(T, s, o, needs))
<1> DEFINE O == Open(T, s)
           item == [waits |-> {}, needs |-> needs, op |-> o, staging |-> {}]
           e == Encode(O[s], item)
           c == BumpOps(e)
<1>1. Good(O) /\ Grows(T, O)
  BY OpenGood
<1>2. O[s] \in Stream /\ Own(O[s]) /\ O \in [Streams -> Stream]
  BY <1>1 DEF Good
<1>3. item \in Item /\ item.waits = {}
  BY DEF Item
<1>4. EncodeKernel(T, s, o, needs) = [O EXCEPT ![s] = c]
  BY <1>2 DEF EncodeKernel
<1> HIDE DEF O, item
<1>5. /\ e \in Stream /\ e.sent = O[s].sent /\ e.open = O[s].open /\ e.state = O[s].state
      /\ e.nonBlocking = O[s].nonBlocking /\ e.fenceValue = O[s].fenceValue
      /\ e.hostValue = O[s].hostValue /\ StWaits(e) \subseteq StWaits(O[s])
  BY <1>2, <1>3, EncodeFacts
<1> HIDE DEF e
<1>6. Own(e) /\ Reach(e) = Reach(O[s])
  BY <1>2, <1>5 DEF Own, Counts, Reach
<1>7. Later(e, c)
  BY <1>5, <1>6, BumpOpsLater
<1> HIDE DEF c
<1>8. Later(O[s], c)
  BY <1>5, <1>6, <1>7 DEF Later
<1>9. Good([O EXCEPT ![s] = c]) /\ Grows(O, [O EXCEPT ![s] = c])
  BY <1>1, <1>8, LaterGood
<1>10. T \in [Streams -> Stream] /\ [O EXCEPT ![s] = c] \in [Streams -> Stream]
  BY <1>9 DEF Good
<1> QED BY <1>1, <1>2, <1>4, <1>9, <1>10, GrowsTrans

(* The GPU and the completion handlers change committed buffers in ways no *)
(* invariant of the table reads.                                           *)
LEMMA BufferLater ==
  ASSUME NEW st \in Stream, Own(st), NEW i \in DOMAIN st.sent, NEW b \in CmdBuf,
         b.value = st.sent[i].value, b.body = st.sent[i].body
  PROVE  Later(st, [st EXCEPT !.sent = [st.sent EXCEPT ![i] = b]])
<1> DEFINE sent == [st.sent EXCEPT ![i] = b]
           c == [st EXCEPT !.sent = sent]
<1>1. st.sent \in Seq(CmdBuf)
  BY StreamFields
<1>2. /\ sent \in Seq(CmdBuf) /\ DOMAIN sent = DOMAIN st.sent /\ Len(sent) = Len(st.sent)
      /\ sent[i] = b /\ \A k \in DOMAIN sent \ {i} : sent[k] = st.sent[k]
  BY <1>1
<1> HIDE DEF sent
<1>3. /\ c \in Stream /\ c.fenceValue = st.fenceValue /\ c.hostValue = st.hostValue
      /\ c.open = st.open /\ c.state = st.state /\ c.nonBlocking = st.nonBlocking
      /\ c.sent = sent /\ c.body = st.body /\ c.pending = st.pending
  BY <1>2 DEF Stream
<1> HIDE DEF c
<1>4. \A k \in DOMAIN sent : sent[k].value = st.sent[k].value /\ sent[k].body = st.sent[k].body
  BY <1>2
<1>5. Own(c)
  BY <1>2, <1>3, <1>4 DEF Own, Counts
<1>6. StWaits(c) \subseteq StWaits(st)
  BY <1>2, <1>3, <1>4 DEF StWaits
<1>7. st.fenceValue \in Nat /\ Reach(st) \in Nat /\ Reach(c) = Reach(st)
  BY <1>3, StreamFields DEF Reach
<1>8. Later(st, c)
  BY <1>3, <1>5, <1>6, <1>7 DEF Later
<1> QED BY <1>8 DEF c, sent
-----------------------------------------------------------------------------
(* The inductive invariant *)

(* A recorded event stands for a buffer that is committed or open, so that *)
(* flush_event can always commit it.                                       *)
Covered(E, T) == \A e \in Events : E[e].recorded => E[e].value <= Reach(T[E[e].stream])

Host_OK == host \in HostState /\ ret \in Codes /\ failed \in BOOLEAN
Hist_OK ==
  /\ log \in Seq([stream : Streams, after : SUBSET Nat])
  /\ last \in [Streams -> SUBSET Nat]
  /\ joins \in [Streams -> SUBSET Nat]
  /\ mark \in [Events -> SUBSET Nat]
  /\ done \in SUBSET Nat

IInv ==
  /\ Good(str)
  /\ signal \in [Fence -> Nat]
  /\ ev \in [Events -> Event] /\ Covered(ev, str)
  /\ Host_OK
  /\ faults \in Nat /\ eventCalls \in Nat
  /\ Hist_OK

LEMMA IInvTypeOK == IInv => TypeOK
  BY DEF IInv, TypeOK, Good, Host_OK, Hist_OK

LEMMA StillCovered ==
  ASSUME NEW T \in [Streams -> Stream], NEW U \in [Streams -> Stream], Grows(T, U),
         ev \in [Events -> Event], Covered(ev, T)
  PROVE  Covered(ev, U)
<1> SUFFICES ASSUME NEW e \in Events, ev[e].recorded
             PROVE  ev[e].value <= Reach(U[ev[e].stream])
  BY DEF Covered
<1>1. ev[e].stream \in Streams /\ ev[e].value \in Nat
  BY DEF Event
<1> DEFINE s == ev[e].stream
<1>2. ev[e].value <= Reach(T[s]) /\ Reach(U[s]) >= Reach(T[s])
  BY <1>1 DEF Covered, Grows
<1>3. T[s].fenceValue \in Nat /\ U[s].fenceValue \in Nat
  BY <1>1, StreamFields
<1>4. Reach(T[s]) \in Nat /\ Reach(U[s]) \in Nat
  BY <1>3 DEF Reach
<1> QED BY <1>1, <1>2, <1>4

(* What an action that leaves the event table alone has to show. *)
LEMMA Step ==
  ASSUME IInv, Good(str'), Grows(str, str'), ev' = ev, signal' \in [Fence -> Nat],
         Host_OK', faults' \in Nat, eventCalls' \in Nat, Hist_OK'
  PROVE  IInv'
<1>1. str \in [Streams -> Stream] /\ str' \in [Streams -> Stream]
  BY DEF IInv, Good
<1>2. Covered(ev, str')
  BY <1>1, StillCovered DEF IInv
<1>3. Covered(ev', str')
  BY <1>2
<1> QED BY <1>3 DEF IInv

(* An action that leaves the stream table alone as well. *)
LEMMA TableKept ==
  ASSUME IInv, str' = str
  PROVE  Good(str') /\ Grows(str, str')
  BY GrowsRefl DEF IInv, Good

LEMMA HostKept == ASSUME IInv, UNCHANGED <<host, ret, failed>> PROVE Host_OK'
  BY DEF IInv, Host_OK

LEMMA HistKept == ASSUME IInv, UNCHANGED hist PROVE Hist_OK'
  BY DEF IInv, Hist_OK, hist

LEMMA EntryReturned ==
  ASSUME IInv, NEW code \in Codes, Returns(code), failed' \in BOOLEAN
  PROVE  Host_OK'
  BY DEF IInv, Host_OK, Returns

LEMMA AfterType == ASSUME IInv, NEW s \in Streams PROVE CO!After(s) \in SUBSET Nat
<1>1. CO!Peers(s) \subseteq Streams
  BY StreamsAssumption DEF CO!Peers, Blocking
<1>2. \A p \in Streams : CO!Front(p) \in SUBSET Nat /\ CO!Seen(p) \in SUBSET Nat
  BY DEF IInv, Hist_OK, CO!Front, CO!Seen
<1> QED BY <1>1, <1>2 DEF CO!After

LEMMA NewOpType == ASSUME IInv PROVE CO!NewOp \in Nat \ {0}
<1>1. Len(log) \in Nat
  BY DEF IInv, Hist_OK
<1> QED BY <1>1 DEF CO!NewOp

LEMMA LoggedType ==
  ASSUME IInv, NEW s \in Streams, CO!Logged(s)
  PROVE  log' \in Seq([stream : Streams, after : SUBSET Nat])
<1>1. [stream |-> s, after |-> CO!After(s)] \in [stream : Streams, after : SUBSET Nat]
  BY AfterType
<1> QED BY <1>1 DEF IInv, Hist_OK, CO!Logged

LEMMA IssueHist == ASSUME IInv, NEW s \in Streams, CO!Issue(s) PROVE Hist_OK'
<1>1. log' \in Seq([stream : Streams, after : SUBSET Nat])
  BY LoggedType DEF CO!Issue
<1>2. last' \in [Streams -> SUBSET Nat] /\ joins' \in [Streams -> SUBSET Nat]
  BY NewOpType DEF CO!Issue, IInv, Hist_OK
<1> QED BY <1>1, <1>2 DEF CO!Issue, IInv, Hist_OK

LEMMA IssueHostHist == ASSUME IInv, NEW s \in Streams, CO!IssueHost(s) PROVE Hist_OK'
<1>1. log' \in Seq([stream : Streams, after : SUBSET Nat])
  BY LoggedType DEF CO!IssueHost
<1>2. joins' \in [Streams -> SUBSET Nat]
  BY NewOpType DEF CO!IssueHost, IInv, Hist_OK
<1> QED BY <1>1, <1>2 DEF CO!IssueHost, IInv, Hist_OK

LEMMA RecordHist ==
  ASSUME IInv, NEW e \in Events, NEW s \in Streams, CO!Record(e, s) PROVE Hist_OK'
<1>1. CO!Peers(s) \subseteq Streams
  BY StreamsAssumption DEF CO!Peers, Blocking
<1>2. \A p \in Streams : CO!Seen(p) \in SUBSET Nat
  BY DEF IInv, Hist_OK, CO!Front, CO!Seen
<1>3. CO!Seen(s) \cup (IF WaitsVisible THEN UNION {CO!Seen(p) : p \in CO!Peers(s)} ELSE {}) \in SUBSET Nat
  BY <1>1, <1>2
<1>4. mark' \in [Events -> SUBSET Nat]
  BY <1>3 DEF CO!Record, IInv, Hist_OK
<1> QED BY <1>4 DEF CO!Record, IInv, Hist_OK

LEMMA WaitHist ==
  ASSUME IInv, NEW e \in Events, NEW s \in Streams, CO!Wait(s, e) PROVE Hist_OK'
<1>1. joins' \in [Streams -> SUBSET Nat]
  BY DEF CO!Wait, IInv, Hist_OK
<1> QED BY <1>1 DEF CO!Wait, IInv, Hist_OK
-----------------------------------------------------------------------------
(* Every action preserves it *)

LEMMA NewStreamFacts ==
  ASSUME NEW state \in {"new", "live"}, NEW nb \in BOOLEAN, NEW st, st = NewStream(state, nb)
  PROVE  /\ st \in Stream /\ Own(st) /\ StWaits(st) = {} /\ Reach(st) = 0
         /\ st.fenceValue = 0 /\ st.hostValue = 0 /\ ~st.open
         /\ st.state = state /\ st.nonBlocking = nb
<1> DEFINE none == <<>>
           w == [s \in Streams |-> 0]
<1>1. none \in Seq(Item) /\ none \in Seq(CmdBuf) /\ w \in [Streams -> Nat] /\ CommitFirst \in Nat
  BY StreamsAssumption
<1>2. st = [state |-> state, nonBlocking |-> nb, open |-> FALSE, body |-> none, ops |-> 0,
            keep |-> {}, fenceValue |-> 0, sent |-> none, pending |-> {}, hostValue |-> 0,
            retired |-> {}, waited |-> w, commitAt |-> CommitFirst]
  BY DEF NewStream
<1> HIDE DEF none, w
<1>3. st \in Stream
  BY <1>1, <1>2 DEF Stream
<1>4. /\ st.fenceValue = 0 /\ st.hostValue = 0 /\ ~st.open /\ st.state = state
      /\ st.nonBlocking = nb /\ st.sent = <<>> /\ st.body = <<>> /\ st.pending = {}
  BY <1>2 DEF none
<1>5. Own(st) /\ StWaits(st) = {} /\ Reach(st) = 0
  BY <1>4 DEF Own, Counts, StWaits, WaitsOf, Reach
<1> QED BY <1>3, <1>4, <1>5

LEMMA InitIInv == Init => IInv
<1> SUFFICES ASSUME Init PROVE IInv
  OBVIOUS
<1>1. ASSUME NEW s \in Streams
      PROVE  \/ str[s] = NewStream("live", FALSE)
             \/ s # Legacy /\ str[s] = NewStream("new", FALSE)
  BY DEF Init
<1>2. ASSUME NEW s \in Streams
      PROVE  /\ str[s] \in Stream /\ Own(str[s]) /\ StWaits(str[s]) = {}
             /\ ~str[s].open /\ ~str[s].nonBlocking
             /\ s = Legacy => str[s].state = "live"
  BY <1>1, NewStreamFacts
<1>3. Good(str)
  <2>1. str \in [Streams -> Stream]
    <3>1. str = [s \in Streams |-> str[s]]
      BY DEF Init
    <3> QED BY <1>2, <3>1
  <2> QED BY <1>2, <2>1, StreamsAssumption DEF Good, Exclusive
<1>4. signal \in [Fence -> Nat]
  BY DEF Init
<1>5. ev \in [Events -> Event] /\ Covered(ev, str)
  BY StreamsAssumption DEF Init, Event, Covered
<1>6. Host_OK
  BY StreamsAssumption DEF Init, Host_OK, HostState, Idling, Codes
<1>7. Hist_OK
  BY DEF Init, Hist_OK
<1>8. faults \in Nat /\ eventCalls \in Nat
  BY DEF Init
<1> QED BY <1>3, <1>4, <1>5, <1>6, <1>7, <1>8 DEF IInv

LEMMA CreateStreamIInv ==
  ASSUME IInv, NEW s \in Streams, NEW nb \in BOOLEAN, CreateStream(s, nb)
  PROVE  IInv'
<1> DEFINE st == NewStream("live", nb)
<1>1. /\ st \in Stream /\ Own(st) /\ StWaits(st) = {} /\ Reach(st) = 0
      /\ st.fenceValue = 0 /\ st.hostValue = 0 /\ ~st.open
  BY NewStreamFacts
<1>2. str[s].state = "new" /\ str' = [str EXCEPT ![s] = st]
  BY DEF CreateStream
<1> HIDE DEF st
<1>3. str[s].fenceValue = 0 /\ str[s].hostValue = 0 /\ Reach(str[s]) = 0 /\ s # Legacy
  BY <1>2 DEF IInv, Good, Own, Reach
<1>4. st.fenceValue >= str[s].fenceValue /\ st.hostValue >= str[s].hostValue /\ Reach(st) >= Reach(str[s])
  BY <1>1, <1>3
<1>5. Good(str)
  BY DEF IInv
<1>6. Good(str') /\ Grows(str, str')
  BY <1>1, <1>2, <1>3, <1>4, <1>5, Update
<1>7. Host_OK' /\ Hist_OK'
  BY EntryReturned, HistKept DEF CreateStream, Codes, IInv, Host_OK
<1> QED BY <1>6, <1>7, Step DEF CreateStream, IInv

LEMMA DestroyStreamIInv ==
  ASSUME IInv, NEW s \in Streams, DestroyStream(s)
  PROVE  IInv'
<1>1. str[s] \in Stream /\ Own(str[s])
  BY DEF IInv, Good
<1> DEFINE c == CommitWith(str[s], NoHandler)
           d == [c EXCEPT !.state = "gone", !.retired = {}, !.pending = {}]
<1>2. str' = [str EXCEPT ![s] = d] /\ s # Legacy
  BY DEF DestroyStream, Commit, IInv, Good
<1>3. /\ c \in Stream /\ Own(c) /\ ~c.open /\ c.hostValue = str[s].hostValue
      /\ c.fenceValue = Reach(str[s]) /\ StWaits(c) \subseteq StWaits(str[s])
  BY <1>1, CommitType, CommitFacts, NoHandlerType
<1> HIDE DEF c
<1>4. /\ d \in Stream /\ d.state = "gone" /\ d.pending = {} /\ d.open = c.open /\ d.sent = c.sent
      /\ d.body = c.body /\ d.fenceValue = c.fenceValue /\ d.hostValue = c.hostValue
  BY <1>3 DEF Stream
<1> HIDE DEF d
<1>5. Own(d) /\ StWaits(d) \subseteq StWaits(str[s])
  BY <1>3, <1>4 DEF Own, Counts, StWaits
<1>6. str[s].fenceValue \in Nat /\ str[s].hostValue \in Nat
  BY <1>1, StreamFields
<1>7. d.fenceValue >= str[s].fenceValue /\ d.hostValue >= str[s].hostValue /\ Reach(d) >= Reach(str[s])
  BY <1>3, <1>4, <1>6 DEF Reach
<1>8. Good(str') /\ Grows(str, str')
  BY <1>2, <1>3, <1>4, <1>5, <1>7, Update DEF IInv
<1>9. Host_OK' /\ Hist_OK'
  BY EntryReturned, HistKept DEF DestroyStream, Codes, IInv, Host_OK
<1> QED BY <1>8, <1>9, Step DEF DestroyStream, IInv

LEMMA LaunchIInv ==
  ASSUME IInv, NEW s \in Streams, NEW needs, Launch(s, needs)
  PROVE  IInv'
<1>1. needs \in SUBSET Nat
  <2>1. DOMAIN log \subseteq Nat
    BY DEF IInv, Hist_OK
  <2> QED BY <2>1 DEF Launch
<1>2. Good(str') /\ Grows(str, str')
  BY <1>1, NewOpType, EncodeKernelGood DEF Launch, On, IInv
<1>3. Hist_OK'
  BY IssueHist DEF Launch
<1>4. Host_OK'
  BY EntryReturned DEF Launch, Codes, IInv, Host_OK
<1> QED BY <1>2, <1>3, <1>4, Step DEF Launch, IInv

LEMMA LaunchRefusedIInv ==
  ASSUME IInv, NEW s \in Streams, LaunchRefused(s)
  PROVE  IInv'
<1>1. Good(str') /\ Grows(str, str')
  BY TableKept DEF LaunchRefused
<1>2. Host_OK' /\ Hist_OK'
  BY EntryReturned, HistKept DEF LaunchRefused, Codes, IInv, Host_OK
<1> QED BY <1>1, <1>2, Step DEF LaunchRefused, IInv

LEMMA LaunchHostFuncIInv ==
  ASSUME IInv, NEW s \in Streams, LaunchHostFunc(s)
  PROVE  IInv'
<1> DEFINE v == str[s].hostValue + 1
           h == [op |-> CO!NewOp, value |-> v]
           O == Open(str, s)
           c == CommitWith(O[s], h)
           w == <<Host(s), v>>
           d == [c EXCEPT !.hostValue = v, !.pending = @ \cup {w}]
           U == [O EXCEPT ![s] = d]
<1>1. Good(str) /\ str \in [Streams -> Stream] /\ str[s].state = "live" /\ signal \in [Fence -> Nat]
  BY DEF LaunchHostFunc, On, IInv, Good
<1>2. Good(O) /\ Grows(str, O) /\ O[s].hostValue = str[s].hostValue /\ O[s].state = "live"
  BY <1>1, OpenGood
<1>3. O[s] \in Stream /\ Own(O[s]) /\ O \in [Streams -> Stream]
  BY <1>2 DEF Good
<1>4. str' = U
  BY DEF LaunchHostFunc
<1>5. v \in Nat /\ v > str[s].hostValue /\ str[s].hostValue \in Nat
  BY <1>1, StreamFields
<1>6. h \in Handler
  BY <1>5, NewOpType DEF Handler
<1> HIDE DEF O, h
<1>7. /\ c \in Stream /\ Own(c) /\ ~c.open /\ c.hostValue = O[s].hostValue /\ c.state = O[s].state
      /\ c.nonBlocking = O[s].nonBlocking /\ c.fenceValue = Reach(O[s])
      /\ StWaits(c) \subseteq StWaits(O[s])
  BY <1>3, <1>6, CommitType, CommitFacts
<1>8. w \in Wait /\ w[1][1] = "host" /\ w[1][2] = s /\ w[2] = v
  BY <1>5 DEF Wait, Fence, Host
<1> HIDE DEF c, w, v
<1>9. /\ d \in Stream /\ d.state = c.state /\ d.nonBlocking = c.nonBlocking /\ d.open = c.open
      /\ d.sent = c.sent /\ d.body = c.body /\ d.pending = c.pending \cup {w}
      /\ d.fenceValue = c.fenceValue /\ d.hostValue = v
  BY <1>5, <1>7, <1>8 DEF Stream
<1> HIDE DEF d
<1>10. Own(d)
  BY <1>2, <1>7, <1>9 DEF Own, Counts
<1>11. StWaits(d) \subseteq StWaits(O[s]) \cup {w}
  BY <1>7, <1>9 DEF StWaits
<1>12. U[s] = d
  BY <1>3, <1>9
<1>13. Reaches(U, w)
  BY <1>5, <1>8, <1>9, <1>12 DEF Reaches
<1>14. O[s].fenceValue \in Nat /\ Reach(O[s]) \in Nat
  BY <1>3, StreamFields DEF Reach
<1>15. d.fenceValue >= O[s].fenceValue /\ d.hostValue >= O[s].hostValue /\ Reach(d) >= Reach(O[s])
  BY <1>2, <1>5, <1>7, <1>9, <1>14 DEF Reach
<1>16. s = Legacy => d.state = "live" /\ ~d.nonBlocking
  BY <1>2, <1>7, <1>9 DEF Good
<1>17. ~d.open /\ \A x \in StWaits(d) : x \in StWaits(O[s]) \/ Reaches(U, x)
  BY <1>7, <1>9, <1>11, <1>13
<1>18. Good(U) /\ Grows(O, U)
  BY <1>2, <1>9, <1>10, <1>15, <1>16, <1>17, Update
<1>19. U \in [Streams -> Stream]
  BY <1>18 DEF Good
<1> HIDE DEF U
<1>20. Good(str') /\ Grows(str, str')
  BY <1>1, <1>2, <1>3, <1>4, <1>18, <1>19, GrowsTrans
<1>21. Hist_OK'
  BY IssueHostHist DEF LaunchHostFunc
<1>22. Host_OK'
  BY EntryReturned DEF LaunchHostFunc, Codes, IInv, Host_OK
<1> QED BY <1>20, <1>21, <1>22, Step DEF LaunchHostFunc, IInv
-----------------------------------------------------------------------------
(* Events *)

LEMMA CreateEventIInv ==
  ASSUME IInv, NEW e \in Events, NEW t \in BOOLEAN, CreateEvent(e, t)
  PROVE  IInv'
<1>1. str' = str /\ ev' = [ev EXCEPT ![e].state = "live", ![e].timing = t]
  BY DEF CreateEvent
<1>2. ev' \in [Events -> Event]
  BY <1>1 DEF IInv, Event
<1>3. \A x \in Events : ev'[x].recorded = ev[x].recorded /\ ev'[x].stream = ev[x].stream
                        /\ ev'[x].value = ev[x].value
  BY <1>1 DEF IInv, Event
<1>4. Covered(ev', str')
  BY <1>1, <1>3 DEF IInv, Covered
<1>5. Host_OK' /\ Hist_OK'
  BY EntryReturned, HistKept DEF CreateEvent, Codes, IInv, Host_OK
<1> QED BY <1>1, <1>2, <1>4, <1>5 DEF CreateEvent, IInv

LEMMA DestroyEventIInv ==
  ASSUME IInv, NEW e \in Events, DestroyEvent(e)
  PROVE  IInv'
<1>1. str' = str /\ ev' = [ev EXCEPT ![e].state = "gone"]
  BY DEF DestroyEvent
<1>2. ev' \in [Events -> Event]
  BY <1>1 DEF IInv, Event
<1>3. \A x \in Events : ev'[x].recorded = ev[x].recorded /\ ev'[x].stream = ev[x].stream
                        /\ ev'[x].value = ev[x].value
  BY <1>1 DEF IInv, Event
<1>4. Covered(ev', str')
  BY <1>1, <1>3 DEF IInv, Covered
<1>5. Host_OK' /\ Hist_OK'
  BY EntryReturned, HistKept DEF DestroyEvent, Codes, IInv, Host_OK
<1> QED BY <1>1, <1>2, <1>4, <1>5 DEF DestroyEvent, IInv

LEMMA EventCallCounted == ASSUME IInv, CountEventCall PROVE eventCalls' \in Nat
  BY DEF IInv, CountEventCall

LEMMA RecordEventIInv ==
  ASSUME IInv, NEW e \in Events, NEW s \in Streams, RecordEvent(e, s)
  PROVE  IInv'
<1>1. Good(str') /\ Grows(str, str')
  <2>1. CASE ev[e].timing
    BY <2>1, CommitOneGood, NoHandlerType DEF RecordEvent, Commit, IInv
  <2>2. CASE ~ev[e].timing
    <3>1. str' = str
      BY <2>2 DEF RecordEvent
    <3> QED BY <3>1, TableKept
  <2> QED BY <2>1, <2>2
<1> DEFINE st == str'[s]
           v == IF st.open THEN st.fenceValue + 1 ELSE st.fenceValue
<1>2. ev' = [ev EXCEPT ![e].recorded = TRUE, ![e].stream = s, ![e].value = v]
  BY DEF RecordEvent
<1>3. str \in [Streams -> Stream] /\ str' \in [Streams -> Stream]
  BY <1>1 DEF IInv, Good
<1>4. v = Reach(str'[s]) /\ v \in Nat
  BY <1>3, StreamFields DEF Reach
<1> HIDE DEF v
<1>5. ev' \in [Events -> Event]
  BY ZenonT(40), <1>2, <1>4 DEF IInv, Event
<1>6. ev'[e].stream = s /\ ev'[e].value = v /\ \A x \in Events \ {e} : ev'[x] = ev[x]
  BY <1>2 DEF IInv, Event
<1>7. Covered(ev, str')
  BY <1>1, <1>3, StillCovered DEF IInv
<1>8. Covered(ev', str')
  BY <1>4, <1>6, <1>7 DEF Covered
<1>9. Hist_OK'
  BY RecordHist DEF RecordEvent
<1>10. Host_OK'
  BY EntryReturned DEF RecordEvent, Codes, IInv, Host_OK
<1>11. eventCalls' \in Nat
  BY EventCallCounted DEF RecordEvent
<1> QED BY <1>1, <1>5, <1>8, <1>9, <1>10, <1>11 DEF RecordEvent, IInv

(* flush_event leaves nothing of the event uncommitted. *)
LEMMA FlushEventGood ==
  ASSUME IInv, NEW e \in Events
  PROVE  /\ Good(FlushEvent(str, e)) /\ Grows(str, FlushEvent(str, e))
         /\ ev[e].recorded => ev[e].value <= FlushEvent(str, e)[ev[e].stream].fenceValue
<1> DEFINE r == ev[e]
           s == r.stream
           F == FlushEvent(str, e)
<1>1. r \in Event /\ s \in Streams /\ r.value \in Nat
  BY DEF IInv, Event
<1>2. /\ Good(str) /\ str \in [Streams -> Stream] /\ str[s] \in Stream /\ Own(str[s])
      /\ r.recorded => r.value <= Reach(str[s])
  BY <1>1 DEF IInv, Good, Covered
<1>3. str[s].fenceValue \in Nat
  BY <1>2, StreamFields
<1>4. CASE r.recorded /\ str[s].state = "live" /\ str[s].fenceValue < r.value
  <2>1. F = [str EXCEPT ![s] = CommitWith(@, NoHandler)]
    BY <1>4 DEF FlushEvent, Commit
  <2> HIDE DEF F, s
  <2>2. Good(F) /\ Grows(str, F)
    BY <1>1, <1>2, <2>1, CommitOneGood, NoHandlerType
  <2>3. F[s] = CommitWith(str[s], NoHandler)
    BY <1>1, <1>2, <2>1
  <2>4. F[s].fenceValue = Reach(str[s])
    BY <1>2, <2>3, CommitFacts, NoHandlerType
  <2> QED BY <1>2, <2>2, <2>4 DEF F, s
<1>5. CASE ~(r.recorded /\ str[s].state = "live" /\ str[s].fenceValue < r.value)
  <2>1. F = str
    BY <1>5 DEF FlushEvent
  <2>2. Grows(str, str)
    BY <1>2, GrowsRefl
  <2>3. r.recorded => r.value <= str[s].fenceValue
    BY <1>1, <1>2, <1>3, <1>5 DEF Own, Reach
  <2> QED BY <1>2, <2>1, <2>2, <2>3
<1> QED BY <1>4, <1>5

LEMMA StreamWaitEventIInv ==
  ASSUME IInv, NEW s \in Streams, NEW e \in Events, StreamWaitEvent(s, e)
  PROVE  IInv'
<1> DEFINE r == ev[e]
           F == FlushEvent(str, e)
           w == <<Dev(r.stream), r.value>>
<1>1. /\ Good(F) /\ Grows(str, F) /\ F \in [Streams -> Stream] /\ str \in [Streams -> Stream]
      /\ r.recorded => r.value <= F[r.stream].fenceValue
  BY FlushEventGood DEF IInv, Good
<1>2. F[s] \in Stream /\ Own(F[s]) /\ F[s].fenceValue \in Nat /\ F[s].hostValue \in Nat
  BY <1>1, StreamFields DEF Good
<1>3. str' = IF ~r.recorded \/ r.stream = s THEN F
             ELSE IF F[s].open THEN [F EXCEPT ![s] = Encode(F[s], WaitItem({w}))]
             ELSE [F EXCEPT ![s] = [F[s] EXCEPT !.pending = @ \cup {w}]]
  BY DEF StreamWaitEvent
<1>4. r.stream \in Streams /\ r.value \in Nat
  BY DEF IInv, Event
<1>5. w \in Wait /\ w[1][1] = "dev" /\ w[1][2] = r.stream /\ w[2] = r.value
  BY <1>4 DEF Wait, Fence, Dev
<1> HIDE DEF F, w, r
<1>6. ASSUME r.recorded, r.stream # s, NEW c \in Stream, c.sent = F[s].sent, c.open = F[s].open,
             c.state = F[s].state, c.nonBlocking = F[s].nonBlocking,
             c.fenceValue = F[s].fenceValue, c.hostValue = F[s].hostValue,
             StWaits(c) \subseteq StWaits(F[s]) \cup {w}
      PROVE  Good([F EXCEPT ![s] = c]) /\ Grows(F, [F EXCEPT ![s] = c])
  <2>1. Own(c) /\ Reach(c) = Reach(F[s]) /\ Reach(c) \in Nat
    BY <1>2, <1>6 DEF Own, Counts, Reach
  <2>2. c.fenceValue >= F[s].fenceValue /\ c.hostValue >= F[s].hostValue /\ Reach(c) >= Reach(F[s])
    BY <1>2, <1>6, <2>1
  <2>3. [F EXCEPT ![s] = c][r.stream] = F[r.stream]
    BY <1>1, <1>4, <1>6
  <2>4. Reaches([F EXCEPT ![s] = c], w)
    BY <1>1, <1>5, <1>6, <2>3 DEF Reaches
  <2>5. s = Legacy => c.state = "live" /\ ~c.nonBlocking
    BY <1>1, <1>6 DEF Good
  <2> QED BY <1>1, <1>6, <2>1, <2>2, <2>4, <2>5, Update
<1>7. Good(str') /\ Grows(F, str')
  <2>1. CASE ~r.recorded \/ r.stream = s
    BY <1>1, <1>3, <2>1, GrowsRefl
  <2>2. CASE r.recorded /\ r.stream # s /\ F[s].open
    <3>1. WaitItem({w}) \in Item /\ WaitItem({w}).waits = {w}
      BY <1>5 DEF WaitItem, Item
    <3> DEFINE c == Encode(F[s], WaitItem({w}))
    <3>2. /\ c \in Stream /\ c.sent = F[s].sent /\ c.open = F[s].open /\ c.state = F[s].state
          /\ c.nonBlocking = F[s].nonBlocking /\ c.fenceValue = F[s].fenceValue
          /\ c.hostValue = F[s].hostValue /\ StWaits(c) \subseteq StWaits(F[s]) \cup {w}
      BY <1>2, <3>1, EncodeFacts
    <3>3. str' = [F EXCEPT ![s] = c]
      BY <1>3, <2>2
    <3> HIDE DEF c
    <3> QED BY <1>6, <2>2, <3>2, <3>3
  <2>3. CASE r.recorded /\ r.stream # s /\ ~F[s].open
    <3> DEFINE c == [F[s] EXCEPT !.pending = @ \cup {w}]
    <3>1. /\ c \in Stream /\ c.sent = F[s].sent /\ c.open = F[s].open /\ c.state = F[s].state
          /\ c.nonBlocking = F[s].nonBlocking /\ c.fenceValue = F[s].fenceValue
          /\ c.hostValue = F[s].hostValue /\ c.body = F[s].body /\ c.pending = F[s].pending \cup {w}
      BY <1>2, <1>5 DEF Stream
    <3>2. str' = [F EXCEPT ![s] = c]
      BY <1>3, <2>3
    <3> HIDE DEF c
    <3>3. StWaits(c) \subseteq StWaits(F[s]) \cup {w}
      BY <3>1 DEF StWaits
    <3> QED BY <1>6, <2>3, <3>1, <3>2, <3>3
  <2> QED BY <2>1, <2>2, <2>3
<1>8. str' \in [Streams -> Stream]
  BY <1>7 DEF Good
<1>9. Grows(str, str')
  BY <1>1, <1>7, <1>8, GrowsTrans
<1>10. Hist_OK'
  BY WaitHist DEF StreamWaitEvent
<1>11. Host_OK' /\ eventCalls' \in Nat
  BY EntryReturned, EventCallCounted DEF StreamWaitEvent, Codes, IInv, Host_OK
<1> QED BY <1>7, <1>9, <1>10, <1>11, Step DEF StreamWaitEvent, IInv
-----------------------------------------------------------------------------
(* Queries and waits *)

LEMMA CommitAllGood == ASSUME NEW T, Good(T) PROVE Good(CommitAll(T)) /\ Grows(T, CommitAll(T))
  BY CommitSetGood DEF CommitAll

LEMMA FlushAllGood ==
  ASSUME IInv, NEW e \in Events, str' = CommitAll(FlushEvent(str, e))
  PROVE  Good(str') /\ Grows(str, str')
<1> DEFINE F == FlushEvent(str, e)
<1>1. Good(F) /\ Grows(str, F) /\ F \in [Streams -> Stream] /\ str \in [Streams -> Stream]
  BY FlushEventGood DEF IInv, Good
<1> HIDE DEF F
<1>2. Good(CommitAll(F)) /\ Grows(F, CommitAll(F))
  BY <1>1, CommitAllGood
<1>3. CommitAll(F) \in [Streams -> Stream]
  BY <1>2 DEF Good
<1>4. Grows(str, CommitAll(F))
  BY <1>1, <1>2, <1>3, GrowsTrans
<1> QED BY <1>2, <1>4 DEF F

LEMMA QueryStreamIInv == ASSUME IInv, NEW s \in Streams, QueryStream(s) PROVE IInv'
<1>1. Good(str') /\ Grows(str, str')
  BY CommitAllGood DEF QueryStream, IInv
<1>2. StreamPoll(s) \in Codes
  BY DEF StreamPoll, QueryCode, Codes
<1>3. failed' \in BOOLEAN
  BY DEF QueryStream
<1>4. Host_OK' /\ Hist_OK'
  BY <1>2, <1>3, EntryReturned, HistKept DEF QueryStream
<1> QED BY <1>1, <1>4, Step DEF QueryStream, IInv

LEMMA QueryEventIInv == ASSUME IInv, NEW e \in Events, QueryEvent(e) PROVE IInv'
<1>1. Good(str') /\ Grows(str, str')
  BY FlushAllGood DEF QueryEvent
<1>2. (IF EventReached(e) THEN "SUCCESS" ELSE "NOT_READY") \in Codes
  BY DEF Codes
<1>3. failed' \in BOOLEAN
  BY DEF QueryEvent, IInv, Host_OK
<1>4. Host_OK' /\ Hist_OK'
  BY <1>2, <1>3, EntryReturned, HistKept DEF QueryEvent
<1> QED BY <1>1, <1>4, Step DEF QueryEvent, IInv

LEMMA AwaitIInv ==
  ASSUME IInv, NEW S \in SUBSET Streams, NEW s \in Streams, Await(S, "return", s)
  PROVE  IInv'
<1>1. Good(str') /\ Grows(str, str')
  BY CommitAllGood DEF Await, IInv
<1>2. host' \in HostState
  BY DEF Await, HostState, Codes
<1>3. Host_OK' /\ Hist_OK'
  BY <1>2, HistKept DEF Await, IInv, Host_OK
<1> QED BY <1>1, <1>3, Step DEF Await, IInv

LEMMA SyncStreamIInv == ASSUME IInv, NEW s \in Streams, SyncStream(s) PROVE IInv'
<1>1. CASE ~failed /\ Await({s}, "return", s)
  BY <1>1, AwaitIInv
<1>2. CASE /\ failed /\ Returns("ILLEGAL_ADDRESS")
           /\ UNCHANGED <<str, signal, ev, failed, faults, eventCalls, hist>>
  <2>1. Good(str') /\ Grows(str, str')
    BY <1>2, TableKept
  <2>2. Host_OK' /\ Hist_OK'
    BY <1>2, EntryReturned, HistKept DEF Codes, IInv, Host_OK
  <2> QED BY <1>2, <2>1, <2>2, Step DEF IInv
<1> QED BY <1>1, <1>2 DEF SyncStream

LEMMA SyncDeviceIInv == ASSUME IInv, SyncDevice PROVE IInv'
<1>1. LiveStreams(str) \in SUBSET Streams
  BY DEF LiveStreams
<1> QED BY <1>1, AwaitIInv, StreamsAssumption DEF SyncDevice

LEMMA SyncEventIInv == ASSUME IInv, NEW e \in Events, SyncEvent(e) PROVE IInv'
<1>1. Good(str') /\ Grows(str, str')
  BY FlushAllGood DEF SyncEvent
<1>2. host' \in HostState
  BY StreamsAssumption DEF SyncEvent, Idling, HostState, Codes
<1>3. Host_OK' /\ Hist_OK'
  BY <1>2, HistKept DEF SyncEvent, IInv, Host_OK
<1> QED BY <1>1, <1>3, Step DEF SyncEvent, IInv

LEMMA AwaitReturnsIInv == ASSUME IInv, NEW s \in Streams, AwaitReturns(s) PROVE IInv'
<1>1. Good(str') /\ Grows(str, str')
  BY TableKept DEF AwaitReturns
<1>2. host' \in HostState
  BY DEF AwaitReturns, HostState, Codes, IInv, Host_OK
<1>3. failed' \in BOOLEAN
  BY DEF AwaitReturns
<1>4. Host_OK' /\ Hist_OK'
  BY <1>2, <1>3, HistKept DEF AwaitReturns, IInv, Host_OK
<1> QED BY <1>1, <1>4, Step DEF AwaitReturns, IInv

LEMMA EventAwaitReturnsIInv == ASSUME IInv, NEW e \in Events, EventAwaitReturns(e) PROVE IInv'
<1>1. Good(str') /\ Grows(str, str')
  BY TableKept DEF EventAwaitReturns
<1>2. host' \in HostState
  BY DEF EventAwaitReturns, HostState, Codes, IInv, Host_OK
<1>3. failed' \in BOOLEAN
  BY DEF EventAwaitReturns
<1>4. Host_OK' /\ Hist_OK'
  BY <1>2, <1>3, HistKept DEF EventAwaitReturns, IInv, Host_OK
<1> QED BY <1>1, <1>4, Step DEF EventAwaitReturns, IInv

LEMMA WaitTimesOutIInv == ASSUME IInv, WaitTimesOut PROVE IInv'
<1>1. Good(str') /\ Grows(str, str')
  BY TableKept DEF WaitTimesOut
<1>2. host' \in HostState
  <2>1. host \in HostState
    BY DEF IInv, Host_OK
  <2>2. ASSUME NEW s \in Streams, StreamTimesOut(s) PROVE host' \in HostState
    BY <2>1, <2>2 DEF StreamTimesOut, HostState, Codes
  <2>3. ASSUME NEW e \in Events, EventTimesOut(e) PROVE host' \in HostState
    BY <2>1, <2>3 DEF EventTimesOut, HostState, Codes
  <2> QED BY <2>2, <2>3 DEF WaitTimesOut
<1>3. Host_OK' /\ Hist_OK'
  BY <1>2, HistKept DEF WaitTimesOut, IInv, Host_OK
<1> QED BY <1>1, <1>3, Step DEF WaitTimesOut, IInv

LEMMA EntryReturnsIInv == ASSUME IInv, EntryReturns PROVE IInv'
<1>1. Good(str') /\ Grows(str, str')
  BY TableKept DEF EntryReturns
<1>2. host' \in HostState
  BY StreamsAssumption DEF EntryReturns, Idling, HostState, Codes
<1>3. ret' \in Codes
  BY DEF EntryReturns, HostState, IInv, Host_OK
<1>4. Host_OK' /\ Hist_OK'
  BY <1>2, <1>3, HistKept DEF EntryReturns, IInv, Host_OK
<1> QED BY <1>1, <1>4, Step DEF EntryReturns, IInv
-----------------------------------------------------------------------------
(* The GPU and Metal *)

LEMMA BufferType ==
  ASSUME IInv, NEW s \in Streams, NEW i \in Buffers(s)
  PROVE  /\ str[s] \in Stream /\ Own(str[s]) /\ str[s].sent \in Seq(CmdBuf)
         /\ str[s].sent[i] \in CmdBuf
<1>1. str[s] \in Stream /\ Own(str[s])
  BY DEF IInv, Good
<1>2. str[s].sent \in Seq(CmdBuf)
  BY <1>1, StreamFields
<1> QED BY <1>1, <1>2 DEF Buffers

LEMMA BufferGood ==
  ASSUME IInv, NEW s \in Streams, NEW i \in Buffers(s), NEW b \in CmdBuf,
         b.value = str[s].sent[i].value, b.body = str[s].sent[i].body,
         str' = [str EXCEPT ![s] = [str[s] EXCEPT !.sent = [str[s].sent EXCEPT ![i] = b]]]
  PROVE  Good(str') /\ Grows(str, str')
<1>1. Later(str[s], [str[s] EXCEPT !.sent = [str[s].sent EXCEPT ![i] = b]])
  BY BufferType, BufferLater DEF Buffers
<1> QED BY <1>1, LaterGood DEF IInv

LEMMA GpuStepIInv == ASSUME IInv, NEW s \in Streams, NEW i \in Buffers(s), GpuStep(s, i) PROVE IInv'
<1> DEFINE a == str[s].sent[i]
           b == [a EXCEPT !.at = @ + 1]
<1>1. a \in CmdBuf
  BY BufferType
<1>2. b \in CmdBuf /\ b.value = a.value /\ b.body = a.body
  BY <1>1 DEF CmdBuf
<1>3. str' = [str EXCEPT ![s] = [str[s] EXCEPT !.sent = [str[s].sent EXCEPT ![i] = b]]]
  BY DEF GpuStep
<1>4. Good(str') /\ Grows(str, str')
  BY <1>2, <1>3, BufferGood
<1>5. NextItem(a).op \in Nat
  <2>1. a.body \in Seq(Item) /\ a.at \in Nat
    BY <1>1 DEF CmdBuf
  <2>2. a.at < Len(a.body)
    BY DEF GpuStep, Runnable
  <2>3. a.body[a.at + 1] \in Item
    BY <2>1, <2>2
  <2> QED BY <2>3 DEF NextItem, Item
<1>6. done' \in SUBSET Nat
  BY <1>5 DEF GpuStep, IInv, Hist_OK
<1>7. Hist_OK'
  BY <1>6 DEF GpuStep, IInv, Hist_OK
<1>8. Host_OK'
  BY HostKept DEF GpuStep
<1> QED BY <1>4, <1>7, <1>8, Step DEF GpuStep, IInv

LEMMA GpuSignalIInv == ASSUME IInv, NEW s \in Streams, NEW i \in Buffers(s), GpuSignal(s, i) PROVE IInv'
<1> DEFINE a == str[s].sent[i]
           b == [a EXCEPT !.status = "signalled"]
<1>1. a \in CmdBuf
  BY BufferType
<1>2. b \in CmdBuf /\ b.value = a.value /\ b.body = a.body
  BY <1>1 DEF CmdBuf
<1>3. str' = [str EXCEPT ![s] = [str[s] EXCEPT !.sent = [str[s].sent EXCEPT ![i] = b]]]
  BY DEF GpuSignal
<1>4. Good(str') /\ Grows(str, str')
  BY <1>2, <1>3, BufferGood
<1>5. signal' \in [Fence -> Nat]
  <2>1. a.value \in Nat
    BY <1>1 DEF CmdBuf
  <2> QED BY <2>1 DEF GpuSignal, IInv
<1>6. Host_OK' /\ Hist_OK'
  BY HostKept, HistKept DEF GpuSignal
<1> QED BY <1>4, <1>5, <1>6, Step DEF GpuSignal, IInv

LEMMA GpuCompleteIInv == ASSUME IInv, NEW s \in Streams, NEW i \in Buffers(s), GpuComplete(s, i) PROVE IInv'
<1> DEFINE a == str[s].sent[i]
           b == [a EXCEPT !.status = "completed"]
<1>1. a \in CmdBuf
  BY BufferType
<1>2. b \in CmdBuf /\ b.value = a.value /\ b.body = a.body
  BY <1>1 DEF CmdBuf
<1>3. str' = [str EXCEPT ![s] = [str[s] EXCEPT !.sent = [str[s].sent EXCEPT ![i] = b]]]
  BY DEF GpuComplete
<1>4. Good(str') /\ Grows(str, str')
  BY <1>2, <1>3, BufferGood
<1>5. Host_OK' /\ Hist_OK'
  BY HostKept, HistKept DEF GpuComplete
<1> QED BY <1>4, <1>5, Step DEF GpuComplete, IInv

LEMMA GpuFaultIInv == ASSUME IInv, NEW s \in Streams, NEW i \in Buffers(s), GpuFault(s, i) PROVE IInv'
<1> DEFINE a == str[s].sent[i]
           b == [a EXCEPT !.status = "error"]
<1>1. a \in CmdBuf
  BY BufferType
<1>2. b \in CmdBuf /\ b.value = a.value /\ b.body = a.body
  BY <1>1 DEF CmdBuf
<1>3. str' = [str EXCEPT ![s] = [str[s] EXCEPT !.sent = [str[s].sent EXCEPT ![i] = b]]]
  BY DEF GpuFault
<1>4. Good(str') /\ Grows(str, str')
  BY <1>2, <1>3, BufferGood
<1>5. Host_OK' /\ Hist_OK'
  BY HostKept, HistKept DEF GpuFault
<1> QED BY <1>4, <1>5, Step DEF GpuFault, IInv

LEMMA HandlerRunsIInv == ASSUME IInv, NEW s \in Streams, NEW i \in Buffers(s), HandlerRuns(s, i) PROVE IInv'
<1> DEFINE a == str[s].sent[i]
           b == [a EXCEPT !.handler = NoHandler]
<1>1. a \in CmdBuf
  BY BufferType
<1>2. b \in CmdBuf /\ b.value = a.value /\ b.body = a.body
  BY <1>1, NoHandlerType DEF CmdBuf
<1>3. str' = [str EXCEPT ![s] = [str[s] EXCEPT !.sent = [str[s].sent EXCEPT ![i] = b]]]
  BY DEF HandlerRuns
<1>4. Good(str') /\ Grows(str, str')
  BY <1>2, <1>3, BufferGood
<1>5. a.handler.op \in Nat /\ a.handler.value \in Nat
  BY <1>1 DEF CmdBuf, Handler
<1>6. signal' \in [Fence -> Nat]
  BY <1>5 DEF HandlerRuns, IInv
<1>7. Hist_OK'
  BY <1>5 DEF HandlerRuns, IInv, Hist_OK
<1>8. Host_OK'
  BY HostKept DEF HandlerRuns
<1> QED BY <1>4, <1>6, <1>7, <1>8, Step DEF HandlerRuns, IInv
-----------------------------------------------------------------------------
(* The theorems *)

LEMMA NextIInv == IInv /\ [Next]_vars => IInv'
<1> SUFFICES ASSUME IInv, [Next]_vars PROVE IInv'
  OBVIOUS
<1>1. CASE Call
  <2>1. ASSUME NEW s \in Streams, NEW nb \in BOOLEAN, CreateStream(s, nb) PROVE IInv'
    BY <2>1, CreateStreamIInv
  <2>2. ASSUME NEW s \in Streams, DestroyStream(s) PROVE IInv'
    BY <2>2, DestroyStreamIInv
  <2>3. ASSUME NEW s \in Streams, NEW needs, Launch(s, needs) PROVE IInv'
    BY <2>3, LaunchIInv
  <2>4. ASSUME NEW s \in Streams, LaunchRefused(s) PROVE IInv'
    BY <2>4, LaunchRefusedIInv
  <2>5. ASSUME NEW s \in Streams, LaunchHostFunc(s) PROVE IInv'
    BY <2>5, LaunchHostFuncIInv
  <2>6. ASSUME NEW s \in Streams, QueryStream(s) \/ SyncStream(s) PROVE IInv'
    BY <2>6, QueryStreamIInv, SyncStreamIInv
  <2>7. ASSUME NEW e \in Events, NEW t \in BOOLEAN, CreateEvent(e, t) PROVE IInv'
    BY <2>7, CreateEventIInv
  <2>8. ASSUME NEW e \in Events, DestroyEvent(e) PROVE IInv'
    BY <2>8, DestroyEventIInv
  <2>9. ASSUME NEW e \in Events, NEW s \in Streams, RecordEvent(e, s) PROVE IInv'
    BY <2>9, RecordEventIInv
  <2>10. ASSUME NEW e \in Events, NEW s \in Streams, StreamWaitEvent(s, e) PROVE IInv'
    BY <2>10, StreamWaitEventIInv
  <2>11. ASSUME NEW e \in Events, QueryEvent(e) \/ SyncEvent(e) PROVE IInv'
    BY <2>11, QueryEventIInv, SyncEventIInv
  <2> QED BY <1>1, <2>1, <2>2, <2>3, <2>4, <2>5, <2>6, <2>7, <2>8, <2>9, <2>10, <2>11,
             SyncDeviceIInv DEF Call
<1>2. CASE HostProgress
  BY <1>2, AwaitReturnsIInv, EventAwaitReturnsIInv, EntryReturnsIInv DEF HostProgress
<1>3. CASE WaitTimesOut
  BY <1>3, WaitTimesOutIInv
<1>4. CASE Gpu
  BY <1>4, GpuStepIInv, GpuSignalIInv, GpuCompleteIInv, HandlerRunsIInv DEF Gpu
<1>5. CASE \E s \in Streams : \E i \in Buffers(s) : GpuFault(s, i)
  BY <1>5, GpuFaultIInv
<1>6. CASE UNCHANGED vars
  <2>1. Good(str') /\ Grows(str, str')
    BY <1>6, TableKept DEF vars
  <2>2. Host_OK' /\ Hist_OK'
    BY <1>6, HostKept, HistKept DEF vars
  <2> QED BY <1>6, <2>1, <2>2, Step DEF vars, IInv
<1> QED BY <1>1, <1>2, <1>3, <1>4, <1>5, <1>6 DEF Next

(* Whatever calls a program makes and however the GPU runs, faults and     *)
(* times out, the stream table stays well formed (see Good) and every      *)
(* recorded event stands for a buffer flush_event can commit.              *)
THEOREM IInvHolds == Spec => []IInv
<1> QED BY InitIInv, NextIInv, PTL DEF Spec

(* The types of runtime.rs's tables are kept by every call. *)
THEOREM TypeOKHolds == Spec => []TypeOK
<1> QED BY IInvHolds, IInvTypeOK, PTL

(* commit: the buffers of every stream signal 1, 2, 3, ... on its fence.   *)
THEOREM FenceCountsHolds == Spec => []FenceCounts
<1>1. IInv => FenceCounts
  BY DEF IInv, Good, Own, Counts, FenceCounts
<1> QED BY <1>1, IInvHolds, PTL

(* flush_event and legacy_dependencies: no buffer waits for a fence value  *)
(* whose buffer is not committed yet.                                      *)
THEOREM WaitsCommittedHolds == Spec => []WaitsCommitted
<1>1. IInv => WaitsCommitted
  <2> SUFFICES ASSUME IInv, NEW w \in AllWaits PROVE Committed(w)
    BY DEF WaitsCommitted
  <2>1. PICK s \in Streams : w \in StWaits(str[s])
    BY DEF AllWaits, StWaits
  <2>2. Reaches(str, w)
    BY <2>1 DEF IInv, Good
  <2> QED BY <2>2 DEF Reaches, Committed
<1> QED BY <1>1, IInvHolds, PTL

(* legacy_dependencies: the legacy stream and a blocking stream never have *)
(* a buffer open at the same time.                                         *)
THEOREM LegacyExclusiveHolds == Spec => []LegacyExclusive
<1>1. IInv => LegacyExclusive
  BY DEF IInv, Good, Exclusive, LegacyExclusive, Blocking
<1> QED BY <1>1, IInvHolds, PTL
=============================================================================
