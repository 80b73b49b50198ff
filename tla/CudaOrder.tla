----------------------------- MODULE CudaOrder -----------------------------
(***************************************************************************)
(* What the runtime promises about the order in which device work runs:    *)
(* CUDA stream order, event order and the legacy default stream's order.   *)
(*                                                                         *)
(* An operation is its position in log.  Issuing one on a stream fixes,    *)
(* for good, the set of operations it runs after; it may run only once all *)
(* of those have run.  Command buffers, fences and batching are not here:  *)
(* Streams.tla has them and is shown to implement this module.             *)
(*                                                                         *)
(* WaitsVisible chooses between two readings of "the work of a stream".    *)
(* FALSE: the operations issued on it.  TRUE (CUDA's reading): also the    *)
(* event waits and host functions queued on it that no operation follows   *)
(* yet, so an event recorded there, or a stream synchronising with it,     *)
(* covers them too.                                                        *)
(***************************************************************************)
EXTENDS Naturals, Sequences

CONSTANTS Streams, Legacy, Events, WaitsVisible

VARIABLES
  blocking,  \* the streams that exist and synchronise with the legacy stream
  log,       \* operations in issue order: the stream and what each runs after
  last,      \* last[s]: the last operation issued on s, as a set of at most one
  joins,     \* joins[s]: waits and host functions queued on s since last[s]
  mark,      \* mark[e]: the operations event e stands for
  done       \* the operations that have run

ovars == <<blocking, log, last, joins, mark, done>>

Front(s) == last[s] \cup joins[s]
Seen(s)  == IF WaitsVisible THEN Front(s) ELSE last[s]

(* The streams whose work an operation on s synchronises with. *)
Peers(s) == IF s = Legacy THEN blocking \ {Legacy}
            ELSE IF s \in blocking THEN {Legacy} ELSE {}

After(s) == Front(s) \cup UNION {Seen(p) : p \in Peers(s)}

(* The operation issued next. *)
NewOp == Len(log) + 1
Logged(s) == log' = Append(log, [stream |-> s, after |-> After(s)])
-----------------------------------------------------------------------------
Init ==
  /\ blocking \in SUBSET Streams
  /\ log = <<>>
  /\ last = [s \in Streams |-> {}]
  /\ joins = [s \in Streams |-> {}]
  /\ mark = [e \in Events |-> {}]
  /\ done = {}

(* Streams come and go; a stream that goes leaves its operations to run. *)
Reshape ==
  /\ blocking' \in SUBSET Streams
  /\ UNCHANGED <<log, last, joins, mark, done>>

(* A kernel or copy is queued on s. *)
Issue(s) ==
  /\ Logged(s)
  /\ last' = [last EXCEPT ![s] = {NewOp}]
  /\ joins' = [joins EXCEPT ![s] = {}]
  /\ UNCHANGED <<blocking, mark, done>>

(* A host function is queued on s: later operations of s run after it. *)
IssueHost(s) ==
  /\ Logged(s)
  /\ joins' = [joins EXCEPT ![s] = @ \cup {NewOp}]
  /\ UNCHANGED <<blocking, last, mark, done>>

(* An operation runs during the call that issues it. *)
IssueDone(s) ==
  /\ After(s) \subseteq done
  /\ Logged(s)
  /\ last' = [last EXCEPT ![s] = {NewOp}]
  /\ joins' = [joins EXCEPT ![s] = {}]
  /\ done' = done \cup {NewOp}
  /\ UNCHANGED <<blocking, mark>>

Record(e, s) ==
  /\ mark' = [mark EXCEPT ![e] =
       Seen(s) \cup IF WaitsVisible THEN UNION {Seen(p) : p \in Peers(s)} ELSE {}]
  /\ UNCHANGED <<blocking, log, last, joins, done>>

Wait(s, e) ==
  /\ joins' = [joins EXCEPT ![s] = @ \cup mark[e]]
  /\ UNCHANGED <<blocking, log, last, mark, done>>

Run(o) ==
  /\ o \in DOMAIN log \ done
  /\ log[o].after \subseteq done
  /\ done' = done \cup {o}
  /\ UNCHANGED <<blocking, log, last, joins, mark>>

Next ==
  \/ Reshape
  \/ \E s \in Streams : Issue(s) \/ IssueHost(s) \/ IssueDone(s)
  \/ \E e \in Events, s \in Streams : Record(e, s) \/ Wait(s, e)
  \/ \E o \in DOMAIN log : Run(o)

Spec == Init /\ [][Next]_ovars
-----------------------------------------------------------------------------
(* Properties *)

TypeOK ==
  /\ blocking \in SUBSET Streams
  /\ log \in Seq([stream : Streams, after : SUBSET Nat])
  /\ last \in [Streams -> SUBSET Nat]
  /\ joins \in [Streams -> SUBSET Nat]
  /\ mark \in [Events -> SUBSET Nat]
  /\ done \in SUBSET Nat

(* README.md, "Work within a stream runs in order": although an operation  *)
(* waits only for the last one of its stream and the host functions since, *)
(* everything issued on its stream before it has run when it runs.         *)
StreamOrder ==
  \A o \in done : \A p \in 1..(o - 1) : log[p].stream = log[o].stream => p \in done
=============================================================================
