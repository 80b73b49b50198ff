------------------------------ MODULE Capture ------------------------------
(***************************************************************************)
(* Stream capture (crates/mvcc-cudart/src/runtime.rs): sessions, the       *)
(* streams that join them through captured events, and the dependency      *)
(* level each recorded operation gets.  Replay runs a level's operations   *)
(* concurrently, with a barrier between levels, so the levels are all that *)
(* is left of the order the program asked for.                             *)
(*                                                                         *)
(* front, mark and the deps of a recorded operation are history: the order *)
(* CUDA gives the captured work.                                           *)
(***************************************************************************)
EXTENDS Naturals, Sequences

CONSTANTS
  Streams, Legacy, Events,
  Sessions,  \* session ids
  MaxOps     \* bound: operations, and levels, of a session

ASSUME CaptureAssumption == Legacy \in Streams /\ MaxOps \in Nat /\ Sessions \subseteq Nat \ {0}

VARIABLES
  capture,   \* Stream.capture: the session that records a stream (0: none)
  alive,     \* the streams that exist
  sessions,  \* Runtime.captures, and the sessions that ended or never began
  captured,  \* Event.captured: session (0: none) and level bound
  graphs,    \* Runtime.graphs
  front,     \* history: what the next operation of a stream depends on
  mark       \* history: what a captured event stands for

cvars == <<capture, alive, sessions, captured, graphs, front, mark>>

(* A recorded operation: its level, and what it depends on.  last, join:   *)
(* level of the last operation of a stream plus one, and the least level   *)
(* its next one may have; both 0 when absent.                              *)
Op == [level : Nat, deps : SUBSET Nat]
Session == [state : {"new", "active", "ended"}, origin : Streams, streams : SUBSET Streams,
            ops : Seq(Op), last : [Streams -> Nat], join : [Streams -> Nat]]

CaptureTypeOK ==
  /\ capture \in [Streams -> Sessions \cup {0}]
  /\ alive \in SUBSET Streams
  /\ sessions \in [Sessions -> Session]
  /\ captured \in [Events -> [session : Sessions \cup {0}, bound : Nat]]
  /\ graphs \in SUBSET Seq(Op)
  /\ front \in [Streams -> SUBSET Nat]
  /\ mark \in [Events -> SUBSET Nat]

Most(a, b) == IF a >= b THEN a ELSE b

(* capture_next_level *)
NextLevelOfChain(c, s) == c.last[s]    \* mutant: the joins are forgotten
NextLevel(c, s) == Most(c.last[s], c.join[s])

(* capture_push: op i of the session is on stream s. *)
Push(c, s, deps) ==
  [c EXCEPT !.ops = Append(@, [level |-> NextLevel(c, s), deps |-> deps]),
            !.last = [@ EXCEPT ![s] = NextLevel(c, s) + 1],
            !.join = [@ EXCEPT ![s] = 0]]

(* graph_launch into a capture: graph g, whose highest level is top, goes  *)
(* above everything recorded on s, and the next operation above all of it. *)
Inline(c, s, g, top, deps) ==
  LET n == Len(c.ops)
      base == NextLevel(c, s)
  IN  [c EXCEPT !.ops = @ \o [i \in DOMAIN g |-> [level |-> base + g[i].level,
                                                  deps |-> {n + d : d \in g[i].deps} \cup deps]],
                !.last = [@ EXCEPT ![s] = 0],
                !.join = [@ EXCEPT ![s] = base + top + 1]]

IsTop(g, top) ==
  IF g = <<>> THEN top = 0
  ELSE (\E i \in DOMAIN g : g[i].level = top) /\ \A i \in DOMAIN g : g[i].level <= top
-----------------------------------------------------------------------------
NoSession(state) ==
  [state |-> state, origin |-> Legacy, streams |-> {}, ops |-> <<>>,
   last |-> [s \in Streams |-> 0], join |-> [s \in Streams |-> 0]]

CaptureInit ==
  /\ capture = [s \in Streams |-> 0]
  /\ alive = Streams
  /\ sessions = [k \in Sessions |-> NoSession("new")]
  /\ captured = [e \in Events |-> [session |-> 0, bound |-> 0]]
  /\ graphs = {}
  /\ front = [s \in Streams |-> {}]
  /\ mark = [e \in Events |-> {}]

BeginCapture(s, k) ==
  /\ s \in alive /\ capture[s] = 0 /\ s # Legacy
  /\ sessions[k].state = "new" /\ \A j \in Sessions : j < k => sessions[j].state # "new"
  /\ sessions' = [sessions EXCEPT ![k] = [@ EXCEPT !.state = "active", !.origin = s, !.streams = {s}]]
  /\ capture' = [capture EXCEPT ![s] = k]
  /\ UNCHANGED <<alive, captured, graphs, front, mark>>

(* Only the stream the capture began on can end it. *)
EndCapture(s) ==
  LET k == capture[s]
  IN  /\ s \in alive /\ k # 0 /\ sessions[k].origin = s
      /\ capture' = [t \in Streams |-> IF t \in sessions[k].streams THEN 0 ELSE capture[t]]
      /\ captured' = [e \in Events |-> IF captured[e].session = k
                                       THEN [session |-> 0, bound |-> 0] ELSE captured[e]]
      /\ sessions' = [sessions EXCEPT ![k] = NoSession("ended")]
      /\ graphs' = graphs \cup {sessions[k].ops}
      /\ front' = [t \in Streams |-> IF t \in sessions[k].streams THEN {} ELSE front[t]]
      /\ mark' = [e \in Events |-> IF captured[e].session = k THEN {} ELSE mark[e]]
      /\ UNCHANGED alive

(* A launch, copy, fill, host function or external event record. *)
CaptureOp(s) ==
  LET k == capture[s]
  IN  /\ s \in alive /\ k # 0 /\ Len(sessions[k].ops) < MaxOps
      /\ sessions' = [sessions EXCEPT ![k] = Push(@, s, front[s])]
      /\ front' = [front EXCEPT ![s] = {Len(sessions[k].ops) + 1}]
      /\ UNCHANGED <<capture, alive, captured, graphs, mark>>

LaunchIntoCapture(s, g, top) ==
  LET k == capture[s]
      n == Len(sessions[k].ops)
  IN  /\ s \in alive /\ k # 0 /\ n + Len(g) <= MaxOps
      /\ IsTop(g, top) /\ NextLevel(sessions[k], s) + top < MaxOps
      /\ sessions' = [sessions EXCEPT ![k] = Inline(@, s, g, top, front[s])]
      /\ front' = [front EXCEPT ![s] = IF g = <<>> THEN @ ELSE (n + 1)..(n + Len(g))]
      /\ UNCHANGED <<capture, alive, captured, graphs, mark>>

(* record_event: on a captured stream the event stands for a level. *)
RecordEvent(e, s) ==
  LET k == capture[s]
  IN  /\ s \in alive
      /\ captured' = [captured EXCEPT ![e] =
           [session |-> k, bound |-> IF k = 0 THEN 0 ELSE NextLevel(sessions[k], s)]]
      /\ mark' = [mark EXCEPT ![e] = IF k = 0 THEN {} ELSE front[s]]
      /\ UNCHANGED <<capture, alive, sessions, graphs, front>>

Join(c, s, bound) ==
  [c EXCEPT !.streams = IF capture[s] = 0 THEN @ \cup {s} ELSE @,
            !.join = [@ EXCEPT ![s] = Most(c.join[s], bound)]]

(* stream_wait_event on a captured event: the stream joins the session,    *)
(* and its next operation goes above what the event stands for.  A stream  *)
(* of another session leaves its mark in the event's session only.         *)
StreamWaitEvent(s, e) ==
  LET k == captured[e].session
  IN  /\ s \in alive /\ k # 0
      /\ sessions' = [sessions EXCEPT ![k] = Join(@, s, captured[e].bound)]
      /\ capture' = [capture EXCEPT ![s] = IF @ = 0 THEN k ELSE @]
      /\ front' = [front EXCEPT ![s] = IF capture[s] = 0 THEN mark[e]
                                       ELSE IF capture[s] = k THEN @ \cup mark[e] ELSE @]
      /\ UNCHANGED <<alive, captured, graphs, mark>>

(* destroy_stream does not look at the capture. *)
DestroyStream(s) ==
  /\ s \in alive \ {Legacy}
  /\ alive' = alive \ {s}
  /\ capture' = [capture EXCEPT ![s] = 0]
  /\ front' = [front EXCEPT ![s] = {}]
  /\ UNCHANGED <<sessions, captured, graphs, mark>>

CaptureNext ==
  \/ \E s \in Streams : \/ \E k \in Sessions : BeginCapture(s, k)
                        \/ EndCapture(s)
                        \/ CaptureOp(s)
                        \/ \E g \in graphs : \E top \in 0..MaxOps : LaunchIntoCapture(s, g, top)
                        \/ \E e \in Events : RecordEvent(e, s) \/ StreamWaitEvent(s, e)
                        \/ DestroyStream(s)

CaptureSpec == CaptureInit /\ [][CaptureNext]_cvars
-----------------------------------------------------------------------------
(* Properties *)

Below(ops) == \A i \in DOMAIN ops : \A d \in ops[i].deps : d \in 1..(i - 1) /\ ops[d].level < ops[i].level

(* graph_launch, "ops of one level are independent (captured on streams    *)
(* with no event ordering between them)": whatever the forks, the joins    *)
(* and the graphs launched into a capture, an operation is on a higher     *)
(* level than everything CUDA orders before it.                            *)
LevelsSound ==
  /\ \A k \in Sessions : Below(sessions[k].ops)
  /\ \A g \in graphs : Below(g)

(* end_capture, stream_wait_event: a stream that records and an event that *)
(* stands for captured work name a session that is still there (the        *)
(* lookups that follow unwrap it).                                         *)
SessionsThere ==
  /\ \A s \in Streams : capture[s] # 0 =>
       sessions[capture[s]].state = "active" /\ s \in sessions[capture[s]].streams
  /\ \A e \in Events : captured[e].session # 0 => sessions[captured[e].session].state = "active"

(* Capture keeps the order the program asked for, and its tables agree.    *)
CaptureSound == CaptureTypeOK /\ LevelsSound /\ SessionsThere
=============================================================================
