-------------------------- MODULE CudaOrderProofs --------------------------
(***************************************************************************)
(* Proofs about CudaOrder.tla, for any streams, events and number of       *)
(* operations.                                                             *)
(***************************************************************************)
EXTENDS CudaOrder, TLAPS

OrderAssumption == Legacy \in Streams /\ WaitsVisible \in BOOLEAN

(* What streams and events stand for has been issued, and operations run   *)
(* after earlier ones.                                                     *)
Known ==
  /\ \A s \in Streams : Front(s) \subseteq DOMAIN log
  /\ \A e \in Events : mark[e] \subseteq DOMAIN log
  /\ done \subseteq DOMAIN log
Earlier == \A o \in DOMAIN log : \A p \in log[o].after : p \in 1..(o - 1)

(* F is a set of operations that ran when they were issued and waited for  *)
(* nothing; CudaOrder has none, Copies has those on host memory.           *)
AtOnce(F) == \A o \in F : o \in done /\ log[o].after = {}

(* Every other operation of a stream is at or before one of the stream     *)
(* that the next operation will run after ...                              *)
FrontCovers(F) ==
  \A s \in Streams : \A p \in DOMAIN log \ F : log[p].stream = s =>
    \E q \in Front(s) \ F : p <= q /\ log[q].stream = s

(* ... and so every other operation runs after one at or past each earlier *)
(* one of its stream.                                                      *)
AfterCovers(F) ==
  \A o \in DOMAIN log \ F : \A p \in 1..(o - 1) : p \notin F /\ log[p].stream = log[o].stream =>
    \E q \in log[o].after \ F : p <= q /\ log[q].stream = log[o].stream

OrderedBut(F) ==
  \A o \in done \ F : \A p \in 1..(o - 1) : log[p].stream = log[o].stream => p \in done

IInv(F) ==
  /\ TypeOK /\ Known /\ Earlier /\ AtOnce(F)
  /\ FrontCovers(F) /\ AfterCovers(F) /\ OrderedBut(F)

LEMMA InitIInv == Init => IInv({})
  BY DEF Init, IInv, TypeOK, Known, Earlier, FrontCovers, AfterCovers, OrderedBut, AtOnce, Front

(* What an operation issued on s runs after is known, whoever its peers are. *)
LEMMA AfterKnown ==
  ASSUME OrderAssumption, NEW F, IInv(F), NEW s \in Streams
  PROVE  /\ After(s) \subseteq DOMAIN log
         /\ Front(s) \subseteq After(s)
         /\ DOMAIN log = 1..Len(log)
         /\ Len(log) \in Nat
         /\ NewOp \in Nat
         /\ NewOp \notin DOMAIN log
<1>1. \A p \in Peers(s) : p \in Streams
  BY DEF OrderAssumption, IInv, TypeOK, Peers
<1>2. \A p \in Streams : Seen(p) \subseteq DOMAIN log
  BY DEF IInv, Known, Seen, Front
<1>3. Front(s) \subseteq DOMAIN log
  BY DEF IInv, Known
<1>4. DOMAIN log = 1..Len(log) /\ Len(log) \in Nat
  BY DEF IInv, TypeOK
<1> QED BY <1>1, <1>2, <1>3, <1>4 DEF After, NewOp

(* The log after an operation on s has been issued. *)
LEMMA LogGrows ==
  ASSUME OrderAssumption, NEW F, IInv(F), NEW s \in Streams, Logged(s)
  PROVE  /\ log' \in Seq([stream : Streams, after : SUBSET Nat])
         /\ DOMAIN log' = DOMAIN log \cup {NewOp}
         /\ \A p \in DOMAIN log : log'[p] = log[p]
         /\ log'[NewOp].stream = s
         /\ log'[NewOp].after = After(s)
<1>1. /\ After(s) \subseteq DOMAIN log
      /\ DOMAIN log = 1..Len(log)
      /\ Len(log) \in Nat
  BY AfterKnown
<1>2. log \in Seq([stream : Streams, after : SUBSET Nat])
  BY DEF IInv, TypeOK
<1>3. [stream |-> s, after |-> After(s)] \in [stream : Streams, after : SUBSET Nat]
  BY <1>1
<1> QED BY <1>1, <1>2, <1>3 DEF Logged, NewOp

(* The part of the invariant that speaks of the log only. *)
LEMMA LogInv ==
  ASSUME OrderAssumption, NEW F, IInv(F), NEW s \in Streams, Logged(s)
  PROVE  Earlier' /\ AfterCovers(F)'
<1> DEFINE n == NewOp
<1>0. /\ After(s) \subseteq DOMAIN log /\ Front(s) \subseteq After(s)
      /\ DOMAIN log = 1..Len(log) /\ Len(log) \in Nat /\ n = Len(log) + 1
  BY AfterKnown DEF NewOp
<1>1. /\ DOMAIN log' = DOMAIN log \cup {n}
      /\ \A p \in DOMAIN log : log'[p] = log[p]
      /\ log'[n].stream = s /\ log'[n].after = After(s)
  BY LogGrows
<1> HIDE DEF n
<1>2. Earlier'
  BY <1>0, <1>1 DEF IInv, Earlier
<1>3. ASSUME NEW o \in DOMAIN log' \ F, NEW p \in 1..(o - 1), p \notin F, log'[p].stream = log'[o].stream
      PROVE  \E q \in log'[o].after \ F : p <= q /\ log'[q].stream = log'[o].stream
  <2>1. CASE o = n
    <3>1. p \in DOMAIN log /\ log[p].stream = s
      BY <2>1, <1>0, <1>1, <1>3
    <3>2. PICK q \in Front(s) \ F : p <= q /\ log[q].stream = s
      BY <1>3, <3>1 DEF IInv, FrontCovers
    <3> QED BY <2>1, <3>2, <1>0, <1>1
  <2>2. CASE o \in DOMAIN log
    <3>1. p \in DOMAIN log /\ log[p].stream = log[o].stream
      BY <2>2, <1>0, <1>1, <1>3
    <3>2. PICK q \in log[o].after \ F : p <= q /\ log[q].stream = log[o].stream
      BY <1>3, <3>1, <2>2, <1>0 DEF IInv, AfterCovers
    <3>3. q \in DOMAIN log
      BY <3>2, <2>2, <1>0 DEF IInv, Earlier
    <3> QED BY <2>2, <3>2, <3>3, <1>1
  <2> QED BY <2>1, <2>2, <1>1
<1> QED BY <1>2, <1>3 DEF AfterCovers

(* An operation whose predecessors have run may join the ones that have. *)
LEMMA RunsInOrder ==
  ASSUME OrderAssumption, NEW F, IInv(F), NEW o \in DOMAIN log \ F, log[o].after \subseteq done
  PROVE  \A p \in 1..(o - 1) : log[p].stream = log[o].stream => p \in done
<1> SUFFICES ASSUME NEW p \in 1..(o - 1), log[p].stream = log[o].stream
             PROVE  p \in done
  OBVIOUS
<1>a. CASE p \in F
  BY <1>a DEF IInv, AtOnce
<1> SUFFICES ASSUME p \notin F PROVE p \in done
  BY <1>a
<1>1. PICK q \in log[o].after \ F : p <= q /\ log[q].stream = log[o].stream
  BY DEF IInv, AfterCovers
<1>2. q \in done /\ q \in Nat
  BY <1>1 DEF IInv, Known, TypeOK
<1>3. CASE p = q
  BY <1>2, <1>3
<1>4. CASE p < q
  <2>1. p \in 1..(q - 1) /\ log[p].stream = log[q].stream
    BY <1>1, <1>2, <1>4
  <2> QED BY <2>1, <1>1, <1>2 DEF IInv, OrderedBut
<1>5. o \in Nat
  BY DEF IInv, TypeOK
<1> QED BY <1>1, <1>2, <1>3, <1>4, <1>5

(* Issue and IssueHost leave done alone; new says what is added. *)
LEMMA IssueKeeps ==
  ASSUME OrderAssumption, NEW F, IInv(F), NEW s \in Streams, Logged(s),
         UNCHANGED <<blocking, mark, done>>,
         \/ /\ last' = [last EXCEPT ![s] = {NewOp}]
            /\ joins' = [joins EXCEPT ![s] = {}]
         \/ /\ last' = last
            /\ joins' = [joins EXCEPT ![s] = @ \cup {NewOp}]
  PROVE  IInv(F)'
<1> DEFINE n == NewOp
<1>0. /\ DOMAIN log = 1..Len(log) /\ Len(log) \in Nat /\ n = Len(log) + 1
      /\ n \notin DOMAIN log
  BY AfterKnown DEF NewOp
<1>1. /\ log' \in Seq([stream : Streams, after : SUBSET Nat])
      /\ DOMAIN log' = DOMAIN log \cup {n}
      /\ \A p \in DOMAIN log : log'[p] = log[p]
      /\ log'[n].stream = s /\ log'[n].after = After(s)
  BY LogGrows
<1>2. /\ n \in Front(s)'
      /\ \A t \in Streams \ {s} : Front(t)' = Front(t)
      /\ Front(s)' \subseteq Front(s) \cup {n}
  BY DEF Front, IInv, TypeOK
<1>3. Earlier' /\ AfterCovers(F)'
  BY LogInv
<1>d. done' = done
  OBVIOUS
<1> HIDE DEF n
<1>4. TypeOK'
  BY SMTT(20), <1>0, <1>1 DEF IInv, TypeOK, n
<1>5. Known'
  BY <1>1, <1>2 DEF IInv, Known
<1>f. F \subseteq done /\ n \notin F /\ AtOnce(F)'
  BY <1>0, <1>1, <1>d DEF IInv, Known, AtOnce
<1>6. FrontCovers(F)'
  <2> SUFFICES ASSUME NEW t \in Streams, NEW p \in DOMAIN log' \ F, log'[p].stream = t
               PROVE  \E q \in Front(t)' \ F : p <= q /\ log'[q].stream = t
    BY DEF FrontCovers
  <2>1. CASE t = s
    BY <2>1, <1>f, <1>0, <1>1, <1>2
  <2>2. CASE t # s
    <3>1. p \in DOMAIN log /\ log[p].stream = t
      BY <2>2, <1>1
    <3>2. PICK q \in Front(t) \ F : p <= q /\ log[q].stream = t
      BY <3>1 DEF IInv, FrontCovers
    <3>3. q \in DOMAIN log
      BY <3>2 DEF IInv, Known
    <3> QED BY <2>2, <3>2, <3>3, <1>1, <1>2
  <2> QED BY <2>1, <2>2
<1>8. OrderedBut(F)'
  <2> SUFFICES ASSUME NEW o \in done \ F, NEW p \in 1..(o - 1), log'[p].stream = log'[o].stream
               PROVE  p \in done
    BY DEF OrderedBut
  <2>1. o \in DOMAIN log /\ p \in DOMAIN log
    BY <1>0 DEF IInv, Known
  <2> QED BY <2>1, <1>1 DEF IInv, OrderedBut
<1> QED BY <1>3, <1>4, <1>5, <1>6, <1>8, <1>f DEF IInv

(* An operation that runs during the call that issues it, when the front   *)
(* of its own stream has run.                                              *)
LEMMA IssueDoneKeeps ==
  ASSUME OrderAssumption, NEW F, IInv(F), NEW s \in Streams, Logged(s),
         last' = [last EXCEPT ![s] = {NewOp}], joins' = [joins EXCEPT ![s] = {}],
         done' = done \cup {NewOp}, UNCHANGED <<blocking, mark>>,
         \A q \in Front(s) \ F : log[q].stream = s => q \in done
  PROVE  IInv(F)'
<1> DEFINE n == NewOp
<1>0. /\ DOMAIN log = 1..Len(log) /\ Len(log) \in Nat /\ n = Len(log) + 1
      /\ n \notin DOMAIN log
  BY AfterKnown DEF NewOp
<1>1. /\ log' \in Seq([stream : Streams, after : SUBSET Nat])
      /\ DOMAIN log' = DOMAIN log \cup {n}
      /\ \A p \in DOMAIN log : log'[p] = log[p]
      /\ log'[n].stream = s /\ log'[n].after = After(s)
  BY LogGrows
<1>2. /\ Front(s)' = {n}
      /\ \A t \in Streams \ {s} : Front(t)' = Front(t)
  BY DEF Front, IInv, TypeOK
<1>3. Earlier' /\ AfterCovers(F)'
  BY LogInv
<1>d. done' = done \cup {n} /\ mark' = mark
  OBVIOUS
<1> HIDE DEF n
<1>4. TypeOK'
  <2>1. last' = [last EXCEPT ![s] = {n}] /\ joins' = [joins EXCEPT ![s] = {}] /\ blocking' = blocking
    BY DEF n
  <2>2. n \in Nat
    BY <1>0
  <2>3. last' \in [Streams -> SUBSET Nat] /\ joins' \in [Streams -> SUBSET Nat]
    <3>1. last \in [Streams -> SUBSET Nat] /\ joins \in [Streams -> SUBSET Nat]
      BY DEF IInv, TypeOK
    <3>2. {n} \in SUBSET Nat /\ {} \in SUBSET Nat
      BY <2>2
    <3> QED BY <2>1, <3>1, <3>2
  <2>4. done' \in SUBSET Nat /\ mark' \in [Events -> SUBSET Nat] /\ blocking' \in SUBSET Streams
    BY <1>d, <2>1, <2>2 DEF IInv, TypeOK
  <2> QED BY <1>1, <2>3, <2>4 DEF TypeOK
<1>5. Known'
  BY <1>1, <1>2, <1>d DEF IInv, Known
<1>f. F \subseteq done /\ n \notin F /\ AtOnce(F)'
  BY <1>0, <1>1, <1>d DEF IInv, Known, AtOnce
<1>6. FrontCovers(F)'
  <2> SUFFICES ASSUME NEW t \in Streams, NEW p \in DOMAIN log' \ F, log'[p].stream = t
               PROVE  \E q \in Front(t)' \ F : p <= q /\ log'[q].stream = t
    BY DEF FrontCovers
  <2>1. CASE t = s
    BY <2>1, <1>f, <1>0, <1>1, <1>2
  <2>2. CASE t # s
    <3>1. p \in DOMAIN log /\ log[p].stream = t
      BY <2>2, <1>1
    <3>2. PICK q \in Front(t) \ F : p <= q /\ log[q].stream = t
      BY <3>1 DEF IInv, FrontCovers
    <3>3. q \in DOMAIN log
      BY <3>2 DEF IInv, Known
    <3> QED BY <2>2, <3>2, <3>3, <1>1, <1>2
  <2> QED BY <2>1, <2>2
<1>8. OrderedBut(F)'
  <2> SUFFICES ASSUME NEW o \in done' \ F, NEW p \in 1..(o - 1), log'[p].stream = log'[o].stream
               PROVE  p \in done'
    BY DEF OrderedBut
  <2>1. CASE o \in done
    <3>1. o \in DOMAIN log /\ p \in DOMAIN log
      BY <1>0, <2>1 DEF IInv, Known
    <3> QED BY <2>1, <3>1, <1>1, <1>d DEF IInv, OrderedBut
  <2>2. CASE o = n
    <3>1. p \in DOMAIN log /\ log[p].stream = s
      BY <2>2, <1>0, <1>1
    <3>a. CASE p \in F
      BY <3>a, <1>d, <1>f
    <3> SUFFICES ASSUME p \notin F PROVE p \in done'
      BY <3>a
    <3>2. PICK q \in Front(s) \ F : p <= q /\ log[q].stream = s
      BY <3>1 DEF IInv, FrontCovers
    <3>3. q \in done /\ q \in Nat /\ p \in Nat
      <4>1. q \in done
        BY <3>2, <1>0, <1>d
      <4>2. done \subseteq Nat
        BY DEF IInv, TypeOK
      <4> QED BY <4>1, <4>2, <3>1, <1>0
    <3>4. CASE p < q
      <4>1. p \in 1..(q - 1) /\ log[p].stream = log[q].stream
        BY <3>1, <3>2, <3>3, <3>4
      <4> QED BY <4>1, <3>2, <3>3, <1>d DEF IInv, OrderedBut
    <3> QED BY <3>2, <3>3, <3>4, <1>d
  <2> QED BY <2>1, <2>2, <1>d
<1> QED BY <1>3, <1>4, <1>5, <1>6, <1>8, <1>f DEF IInv

LEMMA RunKeeps ==
  ASSUME OrderAssumption, NEW F, IInv(F), NEW o \in DOMAIN log, Run(o)
  PROVE  IInv(F)'
<1>1. /\ log[o].after \subseteq done /\ done' = done \cup {o}
      /\ UNCHANGED <<blocking, log, last, joins, mark>>
  BY DEF Run
<1>2. \A s \in Streams : Front(s)' = Front(s)
  BY <1>1 DEF Front
<1>3. TypeOK' /\ Known' /\ Earlier' /\ FrontCovers(F)' /\ AfterCovers(F)'
  <2>1. o \in Nat
    BY DEF IInv, TypeOK
  <2>2. TypeOK' /\ Earlier' /\ AfterCovers(F)'
    BY <1>1, <2>1 DEF IInv, TypeOK, Earlier, AfterCovers
  <2>3. Known' /\ FrontCovers(F)'
    BY <1>1, <1>2 DEF IInv, Known, FrontCovers
  <2> QED BY <2>2, <2>3
<1>5. o \notin F => \A p \in 1..(o - 1) : log[p].stream = log[o].stream => p \in done
  BY <1>1, RunsInOrder
<1>6. OrderedBut(F)'
  BY <1>1, <1>5 DEF IInv, OrderedBut
<1>7. AtOnce(F)'
  BY <1>1 DEF IInv, AtOnce
<1> QED BY <1>3, <1>6, <1>7 DEF IInv

(* An operation that waits for nothing and runs at once may join F.       *)
LEMMA AtOnceKeeps ==
  ASSUME OrderAssumption, NEW F, IInv(F), NEW s \in Streams,
         log' = Append(log, [stream |-> s, after |-> {}]), done' = done \cup {NewOp},
         UNCHANGED <<blocking, last, joins, mark>>
  PROVE  \E G : IInv(G)'
<1>n. PICK n : n = NewOp
  OBVIOUS
<1>0. /\ DOMAIN log = 1..Len(log) /\ Len(log) \in Nat /\ n = Len(log) + 1
      /\ n \notin DOMAIN log
  BY <1>n, AfterKnown DEF NewOp
<1>1. /\ log' \in Seq([stream : Streams, after : SUBSET Nat])
      /\ DOMAIN log' = DOMAIN log \cup {n}
      /\ \A p \in DOMAIN log : log'[p] = log[p]
      /\ log'[n].stream = s /\ log'[n].after = {}
  <2>1. log \in Seq([stream : Streams, after : SUBSET Nat])
    BY DEF IInv, TypeOK
  <2>2. [stream |-> s, after |-> {}] \in [stream : Streams, after : SUBSET Nat]
    OBVIOUS
  <2> QED BY <1>0, <2>1, <2>2
<1>2. \A t \in Streams : Front(t)' = Front(t)
  BY DEF Front
<1>d. done' = done \cup {n} /\ UNCHANGED <<blocking, last, joins, mark>>
  BY <1>n
<1> DEFINE G == F \cup {n}
<1>3. TypeOK' /\ Known' /\ Earlier' /\ AtOnce(G)'
  <2>1. TypeOK'
    <3>1. n \in Nat /\ done \in SUBSET Nat
      BY <1>0 DEF IInv, TypeOK
    <3>2. done' \in SUBSET Nat
      BY <1>d, <3>1
    <3>3. UNCHANGED <<blocking, last, joins, mark>>
      BY <1>d
    <3> QED BY <3>2, <3>3, <1>1 DEF IInv, TypeOK
  <2>2. Known' /\ Earlier' /\ AtOnce(G)'
    BY <1>1, <1>2, <1>d DEF IInv, Known, Earlier, AtOnce
  <2> QED BY <2>1, <2>2
<1>4. \A q \in DOMAIN log : q \in F <=> q \in G
  BY <1>0
<1>5. FrontCovers(G)'
  <2> SUFFICES ASSUME NEW t \in Streams, NEW p \in DOMAIN log' \ G, log'[p].stream = t
               PROVE  \E q \in Front(t)' \ G : p <= q /\ log'[q].stream = t
    BY DEF FrontCovers
  <2>1. p \in DOMAIN log \ F /\ log[p].stream = t
    BY <1>1
  <2>2. PICK q \in Front(t) \ F : p <= q /\ log[q].stream = t
    BY <2>1 DEF IInv, FrontCovers
  <2>3. q \in DOMAIN log
    BY <2>2 DEF IInv, Known
  <2> QED BY <2>2, <2>3, <1>1, <1>2, <1>4
<1>6. AfterCovers(G)'
  <2> SUFFICES ASSUME NEW o \in DOMAIN log' \ G, NEW p \in 1..(o - 1), p \notin G,
                      log'[p].stream = log'[o].stream
               PROVE  \E q \in log'[o].after \ G : p <= q /\ log'[q].stream = log'[o].stream
    BY DEF AfterCovers
  <2>1. o \in DOMAIN log \ F /\ p \in DOMAIN log \ F
    BY <1>0, <1>1
  <2>2. PICK q \in log[o].after \ F : p <= q /\ log[q].stream = log[o].stream
    BY <1>1, <2>1 DEF IInv, AfterCovers
  <2>3. q \in DOMAIN log
    BY <1>0, <2>1, <2>2 DEF IInv, Earlier
  <2> QED BY <2>1, <2>2, <2>3, <1>1, <1>4
<1>7. OrderedBut(G)'
  <2> SUFFICES ASSUME NEW o \in done' \ G, NEW p \in 1..(o - 1), log'[p].stream = log'[o].stream
               PROVE  p \in done'
    BY DEF OrderedBut
  <2>1. o \in done \ F /\ o \in DOMAIN log
    BY <1>d DEF IInv, Known
  <2>2. p \in DOMAIN log
    BY <1>0, <2>1
  <2> QED BY <1>1, <1>d, <2>1, <2>2 DEF IInv, OrderedBut
<1>8. IInv(G)'
  BY <1>3, <1>5, <1>6, <1>7 DEF IInv
<1> QED BY <1>8

LEMMA NextKeeps == ASSUME OrderAssumption, NEW F, IInv(F), [Next]_ovars PROVE IInv(F)'
<1>1. CASE UNCHANGED ovars
  <2>1. UNCHANGED <<blocking, log, last, joins, mark, done>> /\ \A s \in Streams : Front(s)' = Front(s)
    BY <1>1 DEF ovars, Front
  <2>2. TypeOK' /\ Known' /\ Earlier'
    BY <2>1 DEF IInv, TypeOK, Known, Earlier
  <2> QED BY <2>1, <2>2 DEF IInv, FrontCovers, AfterCovers, OrderedBut, AtOnce
<1>2. CASE Reshape
  <2>1. blocking' \in SUBSET Streams /\ UNCHANGED <<log, last, joins, mark, done>>
    BY <1>2 DEF Reshape
  <2>2. TypeOK' /\ Known'
    BY <2>1 DEF IInv, TypeOK, Known, Front
  <2> QED BY <2>1, <2>2 DEF IInv, Earlier, FrontCovers, AfterCovers, OrderedBut, AtOnce, Front
<1>3. ASSUME NEW s \in Streams, Issue(s) PROVE IInv(F)'
  BY <1>3, IssueKeeps DEF Issue
<1>4. ASSUME NEW s \in Streams, IssueHost(s) PROVE IInv(F)'
  BY <1>4, IssueKeeps DEF IssueHost
<1>5. ASSUME NEW s \in Streams, IssueDone(s) PROVE IInv(F)'
  <2>1. Front(s) \subseteq done
    BY <1>5, AfterKnown DEF IssueDone
  <2> QED BY <1>5, <2>1, IssueDoneKeeps DEF IssueDone
<1>6. ASSUME NEW e \in Events, NEW s \in Streams, Record(e, s) PROVE IInv(F)'
  <2>1. \A p \in Streams : Seen(p) \subseteq DOMAIN log
    BY DEF IInv, Known, Seen, Front
  <2>2. \A p \in Peers(s) : p \in Streams
    BY DEF OrderAssumption, IInv, TypeOK, Peers
  <2> DEFINE M == Seen(s) \cup IF WaitsVisible THEN UNION {Seen(p) : p \in Peers(s)} ELSE {}
  <2>3. M \subseteq DOMAIN log /\ M \subseteq Nat
    BY <2>1, <2>2 DEF IInv, TypeOK
  <2>4. mark' = [mark EXCEPT ![e] = M] /\ UNCHANGED <<blocking, log, last, joins, done>>
    BY <1>6 DEF Record
  <2> HIDE DEF M
  <2>5. TypeOK' /\ Known'
    BY <2>3, <2>4 DEF IInv, TypeOK, Known, Front
  <2> QED BY <2>4, <2>5 DEF IInv, Earlier, FrontCovers, AfterCovers, OrderedBut, AtOnce, Front
<1>7. ASSUME NEW e \in Events, NEW s \in Streams, Wait(s, e) PROVE IInv(F)'
  <2>1. /\ joins' = [joins EXCEPT ![s] = @ \cup mark[e]]
        /\ UNCHANGED <<blocking, log, last, mark, done>>
    BY <1>7 DEF Wait
  <2>2. /\ Front(s)' = Front(s) \cup mark[e]
        /\ \A t \in Streams \ {s} : Front(t)' = Front(t)
    BY <2>1 DEF IInv, TypeOK, Front
  <2>3. TypeOK'
    BY <2>1 DEF IInv, TypeOK
  <2>4. Known' /\ FrontCovers(F)'
    BY <2>1, <2>2 DEF IInv, Known, FrontCovers
  <2> QED BY <2>1, <2>3, <2>4 DEF IInv, Earlier, AfterCovers, OrderedBut, AtOnce
<1>8. ASSUME NEW o \in DOMAIN log, Run(o) PROVE IInv(F)'
  BY <1>8, RunKeeps
<1> QED BY <1>1, <1>2, <1>3, <1>4, <1>5, <1>6, <1>7, <1>8 DEF Next

(* In every behaviour CudaOrder allows, the operations of a stream run in  *)
(* the order they were issued.                                             *)
THEOREM StreamOrderHolds == ASSUME OrderAssumption PROVE Spec => []StreamOrder
<1>1. IInv({}) /\ [Next]_ovars => IInv({})'
  BY NextKeeps
<1>2. IInv({}) => StreamOrder
  BY DEF IInv, OrderedBut, StreamOrder
<1> QED BY <1>1, <1>2, InitIInv, PTL DEF Spec
=============================================================================
