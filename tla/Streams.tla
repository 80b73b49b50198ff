------------------------------ MODULE Streams ------------------------------
(***************************************************************************)
(* Streams, command buffers, events, host functions and host waits of the  *)
(* runtime (crates/mvcc-cudart/src/runtime.rs) over Metal command buffers  *)
(* and shared events (cpp/mvcc-metal/mvcc_metal.mm).                       *)
(*                                                                         *)
(* Every API entry holds the one runtime mutex for its whole duration,     *)
(* waits included (api.rs, with_rt): an entry that does not wait is one    *)
(* action; one that waits leaves what it waits for in "host", and no other *)
(* entry runs until it returns.  The GPU and Metal's completion handlers   *)
(* interleave with everything.                                             *)
(*                                                                         *)
(* log, last, joins, mark and done are history: they record the order the  *)
(* program asked for (CudaOrder.tla) and the operations that have run, and *)
(* no guard of an API action reads them.                                   *)
(***************************************************************************)
EXTENDS Naturals, Sequences

CONSTANTS
  Streams,          \* stream ids
  Legacy,           \* the legacy default stream
  PerThread,        \* the per-thread default stream
  Events,           \* event ids
  CommitFirst,      \* COMMIT_FIRST
  CommitThreshold,  \* COMMIT_THRESHOLD
  WaitsVisible,     \* reading of CudaOrder
  Spins,            \* may a kernel spin on a flag an earlier kernel stores?
  MayTimeout,       \* may a host wait reach its time limit?
  MaxFaults,        \* bound: command buffers that may fault
  MaxOps,           \* bound: operations the program issues
  MaxEventCalls     \* bound: event records and waits the program issues

ASSUME StreamsAssumption ==
  /\ Legacy \in Streams /\ PerThread \in Streams /\ Legacy # PerThread
  /\ CommitFirst \in Nat /\ CommitThreshold \in Nat
  /\ WaitsVisible \in BOOLEAN /\ Spins \in BOOLEAN /\ MayTimeout \in BOOLEAN
  /\ MaxFaults \in Nat /\ MaxOps \in Nat /\ MaxEventCalls \in Nat

VARIABLES
  str,     \* the stream table, with the command buffers of each stream
  signal,  \* value of each shared event
  ev,      \* the event table
  host,    \* what the API entry holding the runtime mutex waits for
  ret,     \* result of the last API entry that returned
  failed,  \* Runtime.failed: sticky GPU failure
  faults,  \* command buffers that have faulted
  eventCalls,  \* event records and waits issued, counted for the bound only
  log, last, joins, mark, done

hist == <<log, last, joins, mark, done>>
vars == <<str, signal, ev, host, ret, failed, faults, eventCalls, hist>>

(* Streams the legacy stream synchronises with, itself included. *)
Blocking == {s \in Streams : str[s].state = "live" /\ ~str[s].nonBlocking}

CO == INSTANCE CudaOrder WITH blocking <- Blocking
-----------------------------------------------------------------------------
(* Types *)

Fence == {"dev", "host"} \X Streams
Dev(s)  == <<"dev", s>>      \* Stream.fence
Host(s) == <<"host", s>>     \* Stream.host_fence
Wait == Fence \X Nat         \* a shared event and the value to wait for

(* One step of a command buffer: wait for all of waits, then run op        *)
(* (0: none): a kernel that spins until the operations of needs have run,  *)
(* or a copy out of the staging buffers of staging (named after their op). *)
Item == [waits : SUBSET Wait, needs : SUBSET Nat, op : Nat, staging : SUBSET Nat]
WaitItem(waits) == [waits |-> waits, needs |-> {}, op |-> 0, staging |-> {}]

(* The host function a completion handler runs (op 0: none) and the value  *)
(* it then gives the host fence.                                           *)
Handler == [op : Nat, value : Nat]
NoHandler == [op |-> 0, value |-> 0]

(* A committed command buffer; at counts the items the GPU has executed.   *)
(* MTLCommandBuffer.status reads 1 until it is "completed" or "error".     *)
CmdBuf == [body : Seq(Item), at : Nat, value : Nat, handler : Handler,
           status : {"committed", "signalled", "completed", "error"}]

Stream ==
  [state : {"new", "live", "gone"}, nonBlocking : BOOLEAN,
   open : BOOLEAN, body : Seq(Item), ops : Nat, keep : SUBSET Nat,
   fenceValue : Nat, sent : Seq(CmdBuf), pending : SUBSET Wait,
   hostValue : Nat, retired : SUBSET (Nat \X Nat),
   waited : [Streams -> Nat], commitAt : Nat]

Event == [state : {"new", "live", "gone"}, timing : BOOLEAN,
          recorded : BOOLEAN, stream : Streams, value : Nat]

Codes == {"SUCCESS", "NOT_READY", "ILLEGAL_ADDRESS"}

(* todo: streams still to await; event: event to await; then: what the     *)
(* entry does once they are all awaited; on: the stream it does it on.     *)
HostState == [todo : SUBSET Streams, event : SUBSET Events, rc : Codes,
              then : {"idle", "return", "copyOut", "syncOut", "syncDev", "syncIn", "syncFill", "syncHost", "free"},
              on : Streams]
Idling == [todo |-> {}, event |-> {}, rc |-> "SUCCESS", then |-> "idle", on |-> Legacy]

TypeOK ==
  /\ str \in [Streams -> Stream]
  /\ signal \in [Fence -> Nat]
  /\ ev \in [Events -> Event]
  /\ host \in HostState
  /\ ret \in Codes
  /\ failed \in BOOLEAN
  /\ faults \in Nat
  /\ eventCalls \in Nat
  /\ log \in Seq([stream : Streams, after : SUBSET Nat])
  /\ last \in [Streams -> SUBSET Nat]
  /\ joins \in [Streams -> SUBSET Nat]
  /\ mark \in [Events -> SUBSET Nat]
  /\ done \in SUBSET Nat
-----------------------------------------------------------------------------
(* The stream table.  T is a table, st one of its records.                 *)

NewStream(state, nonBlocking) ==
  [state |-> state, nonBlocking |-> nonBlocking,
   open |-> FALSE, body |-> <<>>, ops |-> 0, keep |-> {},
   fenceValue |-> 0, sent |-> <<>>, pending |-> {},
   hostValue |-> 0, retired |-> {},
   waited |-> [s \in Streams |-> 0], commitAt |-> CommitFirst]

(* Has the last committed buffer (if any) finished, and did it fault? *)
LastStatus(st) ==
  IF st.sent = <<>> THEN "completed" ELSE st.sent[Len(st.sent)].status
Drained(st) == LastStatus(st) \in {"completed", "error"}
(* Mutant: idle forgets the pending waits. *)
IdleIgnoresWaits(st) == ~st.open /\ Drained(st)

Idle(st) == ~st.open /\ st.pending = {} /\ Drained(st)

(* Mutant: commit signals the fence's current value again. *)
CommitWithSameValue(st, h) ==
  IF ~st.open THEN st ELSE
  [st EXCEPT
     !.open = FALSE, !.body = <<>>, !.ops = 0, !.keep = {},
     !.sent = Append(@, [body |-> st.body, at |-> 0, value |-> st.fenceValue,
                         handler |-> h, status |-> "committed"]),
     !.retired = @ \cup {<<st.fenceValue, b>> : b \in st.keep}]

(* Mutant: commit drops the staging buffers with the open command buffer. *)
CommitWithForgets(st, h) ==
  IF ~st.open THEN st ELSE
  [st EXCEPT
     !.open = FALSE, !.body = <<>>, !.ops = 0, !.keep = {},
     !.fenceValue = @ + 1,
     !.sent = Append(@, [body |-> st.body, at |-> 0, value |-> st.fenceValue + 1,
                         handler |-> h, status |-> "committed"])]

(* Commit the open command buffer, if any, with completion handler h: it   *)
(* signals the next value of the stream's fence, and its staging buffers   *)
(* are retired under that value.                                           *)
CommitWith(st, h) ==
  IF ~st.open THEN st ELSE
  LET v == st.fenceValue + 1
  IN  [st EXCEPT
         !.open = FALSE, !.body = <<>>, !.ops = 0, !.keep = {},
         !.fenceValue = v,
         !.sent = Append(@, [body |-> st.body, at |-> 0, value |-> v,
                             handler |-> h, status |-> "committed"]),
         !.retired = @ \cup {<<v, b>> : b \in st.keep}]
Commit(st) == CommitWith(st, NoHandler)
CommitSet(T, S) == [s \in Streams |-> IF s \in S THEN Commit(T[s]) ELSE T[s]]

LiveStreams(T) == {s \in Streams : T[s].state = "live"}
CommitAll(T) == CommitSet(T, LiveStreams(T))

(* The streams whose buffers a new buffer of s has to wait for. *)
LegacyPeers(T, s) ==
  IF s = Legacy THEN {p \in LiveStreams(T) \ {Legacy} : ~T[p].nonBlocking}
  ELSE IF ~T[s].nonBlocking THEN {Legacy} ELSE {}

(* Mutant: the peers' open buffers are left open. *)
PeersCommittedNot(T, s) == T

(* The table once the peers of s are committed, and the waits s still owes *)
(* them (a value waited for once is covered by the stream's own fence).    *)
PeersCommitted(T, s) == CommitSet(T, LegacyPeers(T, s))
Unwaited(T, s) ==
  {p \in LegacyPeers(T, s) : PeersCommitted(T, s)[p].fenceValue > T[s].waited[p]}
LegacyDependenciesNone(T, s) == {}    \* mutant: the peers are committed, not waited for
LegacyDependencies(T, s) ==
  {<<Dev(p), PeersCommitted(T, s)[p].fenceValue>> : p \in Unwaited(T, s)}

(* Open a command buffer on s: it waits for the stream's previous buffer,  *)
(* for the legacy dependencies and for the pending event waits.            *)
Open(T, s) ==
  IF T[s].open THEN T ELSE
  LET P == PeersCommitted(T, s)
      own == IF T[s].fenceValue > 0 THEN {<<Dev(s), T[s].fenceValue>>} ELSE {}
      first == WaitItem(own \cup LegacyDependencies(T, s) \cup T[s].pending)
  IN  [P EXCEPT ![s] = [T[s] EXCEPT
         !.open = TRUE, !.body = <<first>>, !.ops = 0, !.keep = {},
         !.pending = {},
         !.waited = [p \in Streams |-> IF p \in Unwaited(T, s) THEN P[p].fenceValue
                                       ELSE T[s].waited[p]],
         !.retired = {r \in @ : r[1] > signal[Dev(s)]}]]

Encode(st, item) == [st EXCEPT !.body = Append(@, item)]

(* After a dispatch: a buffer commits once it holds enough operations,     *)
(* fewer when the GPU was idle when its first one was encoded.             *)
BumpOps(st) ==
  LET n == st.ops + 1
      commitAt == IF n # 1 THEN st.commitAt
                  ELSE IF Drained(st) THEN CommitFirst ELSE CommitThreshold
      st1 == [st EXCEPT !.ops = n, !.commitAt = commitAt]
  IN  IF n >= commitAt THEN Commit(st1) ELSE st1

(* A kernel dispatch, and a blit: only dispatches look at the threshold. *)
EncodeKernel(T, s, o, needs) ==
  [Open(T, s) EXCEPT
     ![s] = BumpOps(Encode(@, [waits |-> {}, needs |-> needs, op |-> o, staging |-> {}]))]
EncodeBlit(T, s, o, staging) ==
  LET O == Open(T, s)
      c == Encode(O[s], [waits |-> {}, needs |-> {}, op |-> o, staging |-> staging])
  IN  [O EXCEPT ![s] = [c EXCEPT !.ops = @ + 1, !.keep = @ \cup staging]]

FlushEventNot(T, e) == T    \* mutant: the event's buffer is left open

(* The table once the buffer event e was recorded in is committed. *)
FlushEvent(T, e) ==
  LET r == ev[e]
  IN  IF r.recorded /\ T[r.stream].state = "live" /\ T[r.stream].fenceValue < r.value
      THEN [T EXCEPT ![r.stream] = Commit(@)] ELSE T
-----------------------------------------------------------------------------
Init ==
  /\ str = [s \in Streams |->
              IF s \in {Legacy, PerThread} THEN NewStream("live", FALSE)
              ELSE NewStream("new", FALSE)]
  /\ signal = [f \in Fence |-> 0]
  /\ ev = [e \in Events |-> [state |-> "new", timing |-> FALSE,
                             recorded |-> FALSE, stream |-> Legacy, value |-> 0]]
  /\ host = Idling
  /\ ret = "SUCCESS"
  /\ failed = FALSE
  /\ faults = 0
  /\ eventCalls = 0
  /\ log = <<>>
  /\ last = [s \in Streams |-> {}]
  /\ joins = [s \in Streams |-> {}]
  /\ mark = [e \in Events |-> {}]
  /\ done = {}

(* The runtime mutex is free, and the arguments of an entry exist. *)
Enter == host = Idling
On(s) == Enter /\ str[s].state = "live"
With(e) == Enter /\ ev[e].state = "live"
Returns(code) == ret' = code /\ UNCHANGED host

CreateStream(s, nonBlocking) ==
  /\ Enter /\ str[s].state = "new"
  /\ str' = [str EXCEPT ![s] = NewStream("live", nonBlocking)]
  /\ Returns("SUCCESS")
  /\ UNCHANGED <<signal, ev, failed, faults, eventCalls, hist>>

(* The open buffer is committed and the stream dropped, with the staging   *)
(* buffers it kept alive; its committed buffers run on.                    *)
DestroyStream(s) ==
  /\ On(s) /\ s \notin {Legacy, PerThread}
  /\ str' = [str EXCEPT ![s] = [Commit(@) EXCEPT !.state = "gone", !.retired = {},
                                                 !.pending = {}]]
  /\ Returns("SUCCESS")
  /\ UNCHANGED <<signal, ev, failed, faults, eventCalls, hist>>

(* A kernel launch; it may spin on a flag an earlier operation of another  *)
(* stream stores.  After a detected failure every launch is refused.       *)
Launch(s, needs) ==
  /\ On(s) /\ ~failed /\ Len(log) < MaxOps
  /\ needs \subseteq {o \in DOMAIN log : log[o].stream # s}
  /\ str' = EncodeKernel(str, s, CO!NewOp, needs)
  /\ Returns("SUCCESS")
  /\ CO!Issue(s)
  /\ UNCHANGED <<signal, ev, failed, faults, eventCalls>>

LaunchRefused(s) ==
  /\ On(s) /\ failed
  /\ Returns("ILLEGAL_ADDRESS")
  /\ UNCHANGED <<str, signal, ev, failed, faults, eventCalls, hist>>

(* A host function runs in the completion handler of a buffer of its own   *)
(* (or of the open one), and later buffers of s wait for the host fence.   *)
LaunchHostFunc(s) ==
  /\ On(s) /\ Len(log) < MaxOps
  /\ LET v == str[s].hostValue + 1
         O == Open(str, s)
         c == CommitWith(O[s], [op |-> CO!NewOp, value |-> v])
     IN  str' = [O EXCEPT ![s] = [c EXCEPT !.hostValue = v,
                                           !.pending = @ \cup {<<Host(s), v>>}]]
  /\ Returns("SUCCESS")
  /\ CO!IssueHost(s)
  /\ UNCHANGED <<signal, ev, failed, faults, eventCalls>>
-----------------------------------------------------------------------------
(* Events *)

CountEventCall ==
  /\ eventCalls < MaxEventCalls
  /\ eventCalls' = eventCalls + 1

CreateEvent(e, timing) ==
  /\ Enter /\ ev[e].state = "new"
  /\ ev' = [ev EXCEPT ![e].state = "live", ![e].timing = timing]
  /\ Returns("SUCCESS")
  /\ UNCHANGED <<str, signal, failed, faults, eventCalls, hist>>

DestroyEvent(e) ==
  /\ With(e)
  /\ ev' = [ev EXCEPT ![e].state = "gone"]
  /\ Returns("SUCCESS")
  /\ UNCHANGED <<str, signal, failed, faults, eventCalls, hist>>

(* Mutant: the event stands for the buffer before the one that is open. *)
RecordEventEarly(e, s) ==
  /\ With(e) /\ On(s)
  /\ str' = IF ev[e].timing THEN [str EXCEPT ![s] = Commit(@)] ELSE str
  /\ LET st == str'[s]
     IN  ev' = [ev EXCEPT
                  ![e].recorded = TRUE, ![e].stream = s,
                  ![e].value = IF st.open THEN st.fenceValue ELSE st.fenceValue - 1]
  /\ Returns("SUCCESS")
  /\ CO!Record(e, s)
  /\ CountEventCall
  /\ UNCHANGED <<signal, failed, faults>>

(* The event stands for the buffer that is open (it signals the next       *)
(* value), or for the last committed one; a timing event commits first.    *)
RecordEvent(e, s) ==
  /\ With(e) /\ On(s)
  /\ str' = IF ev[e].timing THEN [str EXCEPT ![s] = Commit(@)] ELSE str
  /\ LET st == str'[s]
     IN  ev' = [ev EXCEPT
                  ![e].recorded = TRUE, ![e].stream = s,
                  ![e].value = IF st.open THEN st.fenceValue + 1 ELSE st.fenceValue]
  /\ Returns("SUCCESS")
  /\ CO!Record(e, s)
  /\ CountEventCall
  /\ UNCHANGED <<signal, failed, faults>>

(* Later work of s waits for the event: in the open buffer, or at the head *)
(* of the next one.  The event's own buffer is committed first.            *)
StreamWaitEvent(s, e) ==
  /\ With(e) /\ On(s)
  /\ LET r == ev[e]
         F == FlushEvent(str, e)
         w == <<Dev(r.stream), r.value>>
     IN  str' = IF ~r.recorded \/ r.stream = s THEN F
                ELSE IF F[s].open
                THEN [F EXCEPT ![s] = Encode(@, WaitItem({w}))]
                ELSE [F EXCEPT ![s].pending = @ \cup {w}]
  /\ Returns("SUCCESS")
  /\ CO!Wait(s, e)
  /\ CountEventCall
  /\ UNCHANGED <<signal, ev, failed, faults>>
-----------------------------------------------------------------------------
(* Queries and waits.  Every open buffer is committed before the host      *)
(* polls or waits: the awaited kernel may depend on any of them.           *)

QueryCode(st) ==
  IF LastStatus(st) = "error" THEN "ILLEGAL_ADDRESS"
  ELSE IF Drained(st) THEN "SUCCESS" ELSE "NOT_READY"

(* Mutant: the last buffer is looked at before the open one is committed. *)
StreamPollEarly(s) == QueryCode(str[s])
StreamPoll(s) == QueryCode(CommitAll(str)[s])

QueryStream(s) ==
  /\ On(s)
  /\ str' = CommitAll(str)
  /\ failed' = (failed \/ StreamPoll(s) = "ILLEGAL_ADDRESS")
  /\ Returns(StreamPoll(s))
  /\ UNCHANGED <<signal, ev, faults, eventCalls, hist>>

EventReached(e) == ev[e].recorded => signal[Dev(ev[e].stream)] >= ev[e].value

QueryEvent(e) ==
  /\ With(e)
  /\ str' = CommitAll(FlushEvent(str, e))
  /\ Returns(IF EventReached(e) THEN "SUCCESS" ELSE "NOT_READY")
  /\ UNCHANGED <<signal, ev, failed, faults, eventCalls, hist>>

(* Mutant: a wait commits the awaited streams only. *)
AwaitAlone(S, then, s) ==
  /\ str' = CommitSet(str, S)
  /\ host' = [todo |-> S, event |-> {}, rc |-> "SUCCESS", then |-> then, on |-> s]
  /\ UNCHANGED <<signal, ev, ret, failed, faults, eventCalls, hist>>

(* Start to await the streams of S, and then do what "then" says on s. *)
Await(S, then, s) ==
  /\ str' = CommitAll(str)
  /\ host' = [todo |-> S, event |-> {}, rc |-> "SUCCESS", then |-> then, on |-> s]
  /\ UNCHANGED <<signal, ev, ret, failed, faults, eventCalls, hist>>

SyncStream(s) ==
  /\ On(s)
  /\ \/ /\ failed
        /\ Returns("ILLEGAL_ADDRESS")
        /\ UNCHANGED <<str, signal, ev, failed, faults, eventCalls, hist>>
     \/ /\ ~failed
        /\ Await({s}, "return", s)

SyncDevice == Enter /\ Await(LiveStreams(str), "return", Legacy)

SyncEvent(e) ==
  /\ With(e)
  /\ str' = CommitAll(FlushEvent(str, e))
  /\ host' = [Idling EXCEPT !.event = {e}, !.then = "return"]
  /\ UNCHANGED <<signal, ev, ret, failed, faults, eventCalls, hist>>

(* Mutant: the status of the awaited buffer is not looked at. *)
AwaitReturnsUnchecked(s) ==
  /\ s \in host.todo
  /\ failed \/ Drained(str[s]) \/ signal[Dev(s)] >= str[s].fenceValue
  /\ host' = [host EXCEPT !.todo = @ \ {s}, !.rc = IF failed THEN "ILLEGAL_ADDRESS" ELSE @]
  /\ UNCHANGED <<str, signal, ev, ret, failed, faults, eventCalls, hist>>

(* await_stream returns at once after a failure or when the last buffer    *)
(* has finished, else when the fence reaches the last committed value.     *)
AwaitReturns(s) ==
  /\ s \in host.todo
  /\ failed \/ Drained(str[s]) \/ signal[Dev(s)] >= str[s].fenceValue
  /\ LET bad == failed \/ LastStatus(str[s]) = "error"
     IN  /\ failed' = bad
         /\ host' = [host EXCEPT !.todo = @ \ {s},
                       !.rc = IF bad THEN "ILLEGAL_ADDRESS" ELSE @]
  /\ UNCHANGED <<str, signal, ev, ret, faults, eventCalls, hist>>

(* sync_event consults the last buffer of a stream that still exists: one  *)
(* that has faulted is reported, one that has completed ends the wait.     *)
EventAwaitReturns(e) ==
  /\ e \in host.event
  /\ LET s == ev[e].stream
         known == ev[e].recorded /\ str[s].state = "live"
         bad == known /\ LastStatus(str[s]) = "error"
     IN  /\ EventReached(e) \/ (known /\ Drained(str[s]))
         /\ failed' = (failed \/ bad)
         /\ host' = [host EXCEPT !.event = {},
                       !.rc = IF bad THEN "ILLEGAL_ADDRESS" ELSE @]
  /\ UNCHANGED <<str, signal, ev, ret, faults, eventCalls, hist>>

(* GPU_WAIT_MS passed: the fence is still short of the awaited value and   *)
(* the last buffer of the stream, if it still exists, has not finished.    *)
StreamTimesOut(s) ==
  /\ s \in host.todo /\ ~failed
  /\ signal[Dev(s)] < str[s].fenceValue /\ ~Drained(str[s])
  /\ host' = [host EXCEPT !.todo = @ \ {s}, !.rc = "ILLEGAL_ADDRESS"]
EventTimesOut(e) ==
  /\ e \in host.event /\ ~EventReached(e)
  /\ str[ev[e].stream].state = "live" => ~Drained(str[ev[e].stream])
  /\ host' = [host EXCEPT !.event = {}, !.rc = "ILLEGAL_ADDRESS"]

WaitTimesOut ==
  /\ MayTimeout
  /\ (\E s \in Streams : StreamTimesOut(s)) \/ (\E e \in Events : EventTimesOut(e))
  /\ failed' = TRUE
  /\ UNCHANGED <<str, signal, ev, ret, faults, eventCalls, hist>>

Awaited == host.todo = {} /\ host.event = {}
EntryReturns ==
  /\ Awaited /\ host.then = "return"
  /\ ret' = host.rc
  /\ host' = Idling
  /\ UNCHANGED <<str, signal, ev, failed, faults, eventCalls, hist>>
-----------------------------------------------------------------------------
(* The GPU and Metal.  Buffers of one queue may overlap: only the waits    *)
(* encoded in them order them.                                             *)

Buffers(s) == DOMAIN str[s].sent
NextItem(b) == b.body[b.at + 1]
Runnable(b) ==
  /\ b.status = "committed" /\ b.at < Len(b.body)
  /\ \A w \in NextItem(b).waits : signal[w[1]] >= w[2]
  /\ NextItem(b).needs \subseteq done

GpuStep(s, i) ==
  LET b == str[s].sent[i]
  IN  /\ Runnable(b)
      /\ str' = [str EXCEPT ![s].sent[i].at = @ + 1]
      /\ done' = done \cup ({NextItem(b).op} \ {0})
      /\ UNCHANGED <<signal, ev, host, ret, failed, faults, eventCalls, log, last, joins, mark>>

Signallable(b) == b.status = "committed" /\ b.at = Len(b.body)
GpuSignal(s, i) ==
  /\ Signallable(str[s].sent[i])
  /\ str' = [str EXCEPT ![s].sent[i].status = "signalled"]
  /\ signal' = [signal EXCEPT ![Dev(s)] = str[s].sent[i].value]
  /\ UNCHANGED <<ev, host, ret, failed, faults, eventCalls, hist>>

(* The signal lands before Metal marks the buffer completed. *)
GpuComplete(s, i) ==
  /\ str[s].sent[i].status = "signalled"
  /\ str' = [str EXCEPT ![s].sent[i].status = "completed"]
  /\ UNCHANGED <<signal, ev, host, ret, failed, faults, eventCalls, hist>>

GpuFault(s, i) ==
  /\ faults < MaxFaults /\ str[s].sent[i].status = "committed"
  /\ str' = [str EXCEPT ![s].sent[i].status = "error"]
  /\ faults' = faults + 1
  /\ UNCHANGED <<signal, ev, host, ret, failed, eventCalls, hist>>

(* host_fn_trampoline: the host function, whatever the buffer's status,    *)
(* then the host fence.                                                    *)
Handles(b) == b.status \in {"completed", "error"} /\ b.handler.op # 0

(* Mutant: the host fence is not signalled. *)
HandlerRunsSilently(s, i) ==
  LET b == str[s].sent[i]
  IN  /\ Handles(b)
      /\ str' = [str EXCEPT ![s].sent[i].handler = NoHandler]
      /\ done' = done \cup {b.handler.op}
      /\ UNCHANGED <<signal, ev, host, ret, failed, faults, eventCalls, log, last, joins, mark>>

HandlerRuns(s, i) ==
  LET b == str[s].sent[i]
  IN  /\ Handles(b)
      /\ str' = [str EXCEPT ![s].sent[i].handler = NoHandler]
      /\ signal' = [signal EXCEPT ![Host(s)] = b.handler.value]
      /\ done' = done \cup {b.handler.op}
      /\ UNCHANGED <<ev, host, ret, failed, faults, eventCalls, log, last, joins, mark>>

Gpu == \E s \in Streams : \E i \in Buffers(s) :
         GpuStep(s, i) \/ GpuSignal(s, i) \/ GpuComplete(s, i) \/ HandlerRuns(s, i)

HostProgress ==
  \/ \E s \in Streams : AwaitReturns(s)
  \/ \E e \in Events : EventAwaitReturns(e)
  \/ EntryReturns

SpinChoices == IF Spins THEN {{o} : o \in DOMAIN log} \cup {{}} ELSE {{}}

Call ==
  \/ \E s \in Streams : \/ \E nb \in BOOLEAN : CreateStream(s, nb)
                        \/ DestroyStream(s)
                        \/ \E needs \in SpinChoices : Launch(s, needs)
                        \/ LaunchRefused(s)
                        \/ LaunchHostFunc(s)
                        \/ QueryStream(s)
                        \/ SyncStream(s)
  \/ \E e \in Events : \/ \E t \in BOOLEAN : CreateEvent(e, t)
                       \/ DestroyEvent(e)
                       \/ \E s \in Streams : RecordEvent(e, s) \/ StreamWaitEvent(s, e)
                       \/ QueryEvent(e)
                       \/ SyncEvent(e)
  \/ SyncDevice

Next ==
  \/ Call
  \/ HostProgress
  \/ WaitTimesOut
  \/ Gpu
  \/ \E s \in Streams : \E i \in Buffers(s) : GpuFault(s, i)

Spec == Init /\ [][Next]_vars

(* Metal runs committed buffers and completion handlers on its own, a      *)
(* thread inside a wait returns once the wait is over, and a wait for what *)
(* a fault has stopped does not outlast its limit.  Before a fault no wait *)
(* may count on the limit.                                                 *)
Fairness ==
  WF_vars(Gpu) /\ WF_vars(HostProgress) /\ WF_vars(faults > 0 /\ WaitTimesOut)

FairSpec == Spec /\ Fairness
-----------------------------------------------------------------------------
(* Properties *)

(* Device work runs in the order CudaOrder asks for: every step of the     *)
(* command-buffer machinery is a step of it, so an operation runs only     *)
(* after the operations before it on its stream, those of the events its   *)
(* stream waited for, and (legacy_dependencies) those the legacy stream    *)
(* or a blocking stream issued before it.                                  *)
Ordered == CO!Spec

(* legacy_dependencies: a buffer of the legacy stream and one of a         *)
(* blocking stream are never open together, so neither can take in work    *)
(* the other should have waited for.                                       *)
LegacyExclusive ==
  \A s \in Blocking \ {Legacy} : str[s].open => ~str[Legacy].open

(* commit: the buffers of a stream signal 1, 2, 3, ... on its fence, which *)
(* is what makes "value v reached" mean "the first v buffers are done".    *)
FenceCounts ==
  \A s \in Streams :
    /\ str[s].fenceValue = Len(str[s].sent)
    /\ \A i \in DOMAIN str[s].sent : str[s].sent[i].value = i

WaitsOf(body) == UNION {body[k].waits : k \in DOMAIN body}
AllWaits ==
  UNION {str[s].pending \cup WaitsOf(str[s].body)
           \cup UNION {WaitsOf(str[s].sent[i].body) : i \in DOMAIN str[s].sent}
         : s \in Streams}
Committed(w) ==
  w[2] <= IF w[1][1] = "dev" THEN str[w[1][2]].fenceValue ELSE str[w[1][2]].hostValue

(* flush_event, legacy_dependencies: no command buffer waits for a fence   *)
(* value whose buffer is not committed yet; one that did could wait for a  *)
(* buffer that is only committed after it, or never.                       *)
WaitsCommitted == \A w \in AllWaits : Committed(w)

(* The GPU never wedges on fences alone: while nothing is left open, some  *)
(* unfinished committed buffer can always move (commit_all's comment: the  *)
(* awaited kernel may spin on a flag another stream's kernel stores).      *)
InFlight(b) == b.status \in {"committed", "signalled"} \/ Handles(b)
CanMove(b) == Runnable(b) \/ Signallable(b) \/ b.status = "signalled" \/ Handles(b)
GpuNeverStuck ==
  (/\ faults = 0
   /\ \A s \in Streams : ~str[s].open
   /\ \E s \in Streams : \E i \in Buffers(s) : InFlight(str[s].sent[i]))
  => \E s \in Streams : \E i \in Buffers(s) : CanMove(str[s].sent[i])

(* await_stream, sync_event: a wait that ends well means the work is done. *)
SyncSound ==
  [][host'.rc = "SUCCESS" =>
       /\ \A s \in host.todo \ host'.todo : CO!Seen(s) \subseteq done
       /\ \A e \in host.event \ host'.event : mark[e] \subseteq done]_vars

(* query_stream, query_event: so does a poll that says SUCCESS, whenever   *)
(* it is made.                                                             *)
QuerySound ==
  /\ \A s \in Streams : On(s) /\ StreamPoll(s) = "SUCCESS" => CO!Seen(s) \subseteq done
  /\ \A e \in Events : With(e) /\ EventReached(e) => mark[e] \subseteq done

(* Every host wait returns. *)
SyncReturns == host # Idling ~> host = Idling

(* Once nothing is left open (every query and wait leaves it so), every    *)
(* operation of a committed buffer runs, spinning kernels included, unless *)
(* a buffer faults.                                                        *)
OpsOf(b) == {b.body[k].op : k \in DOMAIN b.body} \cup {b.handler.op}
Sent(o) == \E s \in Streams : \E i \in Buffers(s) : o \in OpsOf(str[s].sent[i])
FlushedRuns ==
  \A o \in 1..MaxOps :
    (Sent(o) /\ \A s \in Streams : ~str[s].open) ~> (o \in done \/ faults > 0)
=============================================================================
