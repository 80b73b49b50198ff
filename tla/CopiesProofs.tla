---------------------------- MODULE CopiesProofs ----------------------------
(***************************************************************************)
(* Proofs about copies, fills and cudaFree (Copies.tla), for any streams,  *)
(* events, commit thresholds and bounds: what the stream table and the     *)
(* order of command buffers promised without copies (StreamsProofs,        *)
(* OrderProofs) they still promise with them, and on that rest the order   *)
(* of each stream's work, whoever does it, what cudaFree and the waiting   *)
(* copies wait for, and the life of staging buffers.                       *)
(***************************************************************************)
EXTENDS Copies, RefinementProofs

-----------------------------------------------------------------------------
(* What the copy entries do *)

(* An entry ends: at once, or after its wait. *)
CopyEnds == host' = Idling /\ ret' \in Codes /\ UNCHANGED <<signal, ev, failed, faults, eventCalls>>

(* The wait of a copy out to pageable memory ended well. *)
WaitedOut == host.rc = "SUCCESS" /\ Awaited /\ host.then \in {"copyOut", "syncOut"}

Blits(s, staging) ==
  /\ CopyEnds /\ str[s].state = "live" /\ staging \in {{}, {CO!NewOp}}
  /\ str' = EncodeBlit(str, s, CO!NewOp, staging) /\ CO!Issue(s)
CopiesNow(s) ==
  CopyEnds /\ CpuOp(s) /\ ((Idle(str[s]) /\ str[s].state = "live") \/ (WaitedOut /\ s = host.on))
HostWrites(s) == CopyEnds /\ HostOp(s)
EndsStill == CopyEnds /\ UNCHANGED <<str, hist>>

(* The streams whose work the rest of an entry counts on. *)
Due(T, then, on) ==
  IF then = "copyOut" THEN {on}
  ELSE IF then \in SyncKinds THEN {s \in LiveStreams(T) : ~T[s].nonBlocking}
  ELSE IF then = "free" THEN LiveStreams(T) ELSE {}
Waits(then, s) ==
  /\ Enter /\ then \in SyncKinds \cup {"copyOut", "free"} /\ Await(Due(str, then, s), then, s)
  /\ then = "syncOut" => s = Legacy
SkipsWait(then) ==
  /\ Enter /\ failed /\ then \in SyncKinds
  /\ host' = [Idling EXCEPT !.then = then,
                !.rc = IF then = "syncOut" THEN "ILLEGAL_ADDRESS" ELSE "SUCCESS"]
  /\ UNCHANGED <<str, signal, ev, ret, failed, faults, eventCalls, hist>>

CopyStep ==
  \/ \E s \in Streams : \E staging : Blits(s, staging)
  \/ \E s \in Streams : CopiesNow(s)
  \/ \E s \in Streams : HostWrites(s)
  \/ EndsStill
  \/ \E then : \E s \in Streams : Waits(then, s)
  \/ \E then : SkipsWait(then)

LEMMA CopySteps ==
  ASSUME IInv, CopyAsyncCall \/ CopySyncCall \/ CopyProgress
  PROVE  CopyStep
<1>0. Legacy \in Streams /\ str[Legacy].state = "live" /\ host \in HostState /\ "SUCCESS" \in Codes
      /\ host.on \in Streams /\ host.rc \in Codes /\ "ILLEGAL_ADDRESS" \in Codes
  BY StreamsAssumption DEF IInv, Good, Host_OK, HostState, Codes
<1>1. ASSUME NEW s \in Streams, str[s].state = "live", CopyEnds,
             (\E small \in BOOLEAN : CopyDev(s, small)) \/ CopyPageableIn(s)
      PROVE  CopyStep
  BY <1>1 DEF CopyDev, CopyPageableIn, CopyStep, Blit, Blits, CopiesNow
<1>2. ASSUME NEW code \in Codes, Enter, Returns(code), UNCHANGED <<signal, ev, failed, faults, eventCalls>>
      PROVE  CopyEnds
  BY <1>2 DEF Enter, Returns, CopyEnds
<1>3. ASSUME NEW then, NEW code \in Codes, Finishes(then, code) PROVE CopyEnds
  BY <1>3 DEF Finishes, CopyEnds
<1>4. ASSUME NEW s \in Streams, \/ \E small \in BOOLEAN : CopyAsync(s, small)
                                \/ CopyInAsync(s)
      PROVE  CopyStep
  <2>1. CopyEnds /\ str[s].state = "live"
    BY <1>0, <1>2, <1>4 DEF CopyAsync, CopyInAsync, MayIssue, On
  <2> QED BY <1>1, <1>4, <2>1 DEF CopyAsync, CopyInAsync
<1>5. ASSUME NEW s \in Streams, CopyOutAsync(s) PROVE CopyStep
  <2>1. CASE Returns("ILLEGAL_ADDRESS") /\ UNCHANGED <<str, signal, ev, failed, faults, eventCalls, hist>>
    <3>1. CopyEnds
      BY <1>0, <1>2, <1>5, <2>1 DEF CopyOutAsync, MayIssue, On
    <3> QED BY <2>1, <3>1 DEF CopyStep, EndsStill
  <2>2. CASE Await({s}, "copyOut", s)
    <3>1. Due(str, "copyOut", s) = {s}
      BY DEF Due
    <3>2. Waits("copyOut", s)
      BY <1>5, <2>2, <3>1 DEF CopyOutAsync, MayIssue, On, Waits
    <3> QED BY <3>2 DEF CopyStep
  <2> QED BY <1>5, <2>1, <2>2 DEF CopyOutAsync
<1>6. ASSUME NEW then \in SyncKinds, CopySync(then) PROVE CopyStep
  <2>1. Enter
    BY <1>6 DEF CopySync, MayIssue, On
  <2>2. CASE failed
    <3>1. SkipsWait(then)
      BY <1>6, <2>1, <2>2 DEF CopySync, AwaitBlocking, SkipsWait
    <3> QED BY <3>1 DEF CopyStep
  <2>3. CASE ~failed
    <3>1. Due(str, then, Legacy) = Blocking
      BY DEF Due, SyncKinds, Blocking, LiveStreams
    <3>2. Waits(then, Legacy)
      BY <1>6, <2>1, <2>3, <3>1 DEF CopySync, AwaitBlocking, Waits
    <3> QED BY <1>0, <3>2 DEF CopyStep
  <2> QED BY <2>2, <2>3
<1>7. ASSUME NEW small \in BOOLEAN, CopySyncPinned(small) PROVE CopyStep
  <2>1. CopyEnds
    BY <1>0, <1>2, <1>7 DEF CopySyncPinned, MayIssue, On
  <2> QED BY <1>0, <1>1, <1>7, <2>1 DEF CopySyncPinned
<1>8. CASE Free
  <2>1. Due(str, "free", Legacy) = LiveStreams(str)
    BY DEF Due, SyncKinds
  <2>2. Waits("free", Legacy)
    BY <1>8, <2>1 DEF Free, Waits
  <2> QED BY <1>0, <2>2 DEF CopyStep
<1>9. CASE FreeIdle
  <2>1. CopyEnds
    BY <1>0, <1>2, <1>9 DEF FreeIdle, FreesAtOnce
  <2> QED BY <1>9, <2>1 DEF FreeIdle, CopyStep, EndsStill
<1>10. ASSUME NEW then \in {"copyOut", "syncOut"}, CopyOutFinishes(then) PROVE CopyStep
  <2>1. CopyEnds
    BY <1>0, <1>3, <1>10 DEF CopyOutFinishes
  <2>2. CASE host.rc = "SUCCESS" /\ CpuOp(host.on)
    BY <1>0, <1>10, <2>1, <2>2 DEF CopyOutFinishes, Finishes, CopyStep, CopiesNow, WaitedOut
  <2>3. CASE UNCHANGED <<str, hist>>
    BY <2>1, <2>3 DEF CopyStep, EndsStill
  <2> QED BY <1>10, <2>2, <2>3 DEF CopyOutFinishes
<1>11. ASSUME SyncInFinishes \/ SyncFillFinishes \/ \E small \in BOOLEAN : SyncDevFinishes(small)
       PROVE  CopyStep
  <2>1. CopyEnds
    BY <1>0, <1>3, <1>11 DEF SyncInFinishes, SyncFillFinishes, SyncDevFinishes
  <2> QED BY <1>0, <1>1, <1>11, <2>1 DEF SyncInFinishes, SyncFillFinishes, SyncDevFinishes
<1>12. CASE FreeFinishes
  BY <1>0, <1>3, <1>12 DEF FreeFinishes, CopyStep, EndsStill
<1>13. ASSUME NEW s \in Streams, HostNow(s) PROVE CopyStep
  <2>1. CopyEnds
    BY <1>0, <1>2, <1>13 DEF HostNow, MayIssue, On
  <2> QED BY <1>13, <2>1 DEF HostNow, HostWrites, CopyStep
<1>14. CASE SyncHostFinishes
  BY <1>0, <1>3, <1>14 DEF SyncHostFinishes, HostWrites, CopyStep
<1> QED BY <1>4, <1>5, <1>6, <1>7, <1>8, <1>9, <1>10, <1>11, <1>12, <1>13, <1>14
        DEF CopyAsyncCall, CopySyncCall, CopyProgress

-----------------------------------------------------------------------------
(* A blit, in the table *)

BlitItem(o, staging) == [waits |-> {}, needs |-> {}, op |-> o, staging |-> staging]

LEMMA EncodeBlitView ==
  ASSUME NEW T, Good(T), signal \in [Fence -> Nat], NEW s \in Streams, T[s].state = "live",
         NEW O, O = Open(T, s), NEW o \in Nat, NEW staging \in SUBSET Nat,
         NEW U, U = EncodeBlit(T, s, o, staging)
  PROVE  /\ Good(U) /\ Grows(T, U)
         /\ Appended(O[s], U[s], BlitItem(o, staging)) /\ BlitItem(o, staging) \in Item
         /\ \A p \in Streams \ {s} : U[p] = O[p]
         /\ Longer(O, U) /\ Longer(T, U)
         /\ U[s].body = Append(O[s].body, BlitItem(o, staging)) /\ U[s].sent = O[s].sent
         /\ U[s].keep = O[s].keep \cup staging /\ U[s].retired = O[s].retired
<1> DEFINE item == BlitItem(o, staging)
           e == Encode(O[s], item)
           c == [e EXCEPT !.ops = @ + 1, !.keep = @ \cup staging]
<1>1. Good(O) /\ Grows(T, O) /\ O[s].open
  BY OpenGood
<1>2. O[s] \in Stream /\ Own(O[s]) /\ O \in [Streams -> Stream]
  BY <1>1 DEF Good
<1>3. item \in Item /\ item.waits = {}
  BY DEF Item, BlitItem
<1>4. U = [O EXCEPT ![s] = c]
  BY <1>2 DEF EncodeBlit, BlitItem
<1> HIDE DEF item
<1>5. /\ e \in Stream /\ e.sent = O[s].sent /\ e.open = O[s].open /\ e.state = O[s].state
      /\ e.nonBlocking = O[s].nonBlocking /\ e.fenceValue = O[s].fenceValue
      /\ e.hostValue = O[s].hostValue /\ e.pending = O[s].pending /\ StWaits(e) \subseteq StWaits(O[s])
      /\ e.keep = O[s].keep
  BY <1>2, <1>3, EncodeFacts
<1>6. Appended(O[s], e, item)
  BY <1>1, <1>2, <1>3, EncodeView
<1>7. e.body = Append(O[s].body, item) /\ e.retired = O[s].retired
  BY <1>2 DEF Encode, Stream
<1> HIDE DEF e
<1>8. e.ops + 1 \in Nat /\ e.keep \cup staging \in SUBSET Nat
  <2>1. e.ops \in Nat /\ e.keep \in SUBSET Nat
    BY <1>5, StreamFields
  <2>2. e.ops + 1 \in Nat
    BY <2>1
  <2>3. e.keep \cup staging \in SUBSET Nat
    BY <2>1
  <2> QED BY <2>2, <2>3
<1>9. /\ c \in Stream /\ c.sent = e.sent /\ c.open = e.open /\ c.state = e.state
      /\ c.nonBlocking = e.nonBlocking /\ c.fenceValue = e.fenceValue /\ c.hostValue = e.hostValue
      /\ c.pending = e.pending /\ c.waited = e.waited /\ c.body = e.body
      /\ c.keep = e.keep \cup staging /\ c.retired = e.retired
  BY <1>5, <1>8 DEF Stream
<1> HIDE DEF c
<1>10. Own(c) /\ Reach(c) = Reach(O[s]) /\ StWaits(c) = StWaits(e)
  BY <1>2, <1>5, <1>9 DEF Own, Counts, Reach, StWaits
<1>11. O[s].fenceValue \in Nat /\ Reach(O[s]) \in Nat
  BY <1>2, StreamFields DEF Reach
<1>12. Later(O[s], c)
  BY <1>5, <1>9, <1>10, <1>11 DEF Later
<1>13. Good([O EXCEPT ![s] = c]) /\ Grows(O, [O EXCEPT ![s] = c])
  BY <1>1, <1>12, LaterGood
<1>14. T \in [Streams -> Stream] /\ [O EXCEPT ![s] = c] \in [Streams -> Stream]
  BY <1>13 DEF Good
<1>15. Good(U) /\ Grows(T, U)
  BY <1>1, <1>2, <1>4, <1>13, <1>14, GrowsTrans
<1>16. Bufs(c) = Bufs(e) /\ Hnds(c) = Hnds(e) /\ Reach(c) = Reach(e)
  BY <1>9 DEF Bufs, Hnds, Reach
<1>17. KeptSt(O[s], c)
  BY <1>5, <1>9 DEF KeptSt
<1>18. Appended(O[s], c, item)
  BY <1>6, <1>9, <1>16, <1>17 DEF Appended
<1>19. U[s] = c /\ \A p \in Streams \ {s} : U[p] = O[p]
  BY <1>2, <1>4
<1>20. Longer(O, U)
  BY <1>1, <1>3, <1>18, <1>19, AppendedLonger
<1>21. Longer(T, U)
  BY <1>20, OpenLonger, LongerTrans
<1> QED BY <1>3, <1>5, <1>7, <1>9, <1>15, <1>18, <1>19, <1>20, <1>21 DEF item

-----------------------------------------------------------------------------
(* Types, and the shape of the stream table *)

LEMMA BlitsView ==
  ASSUME IInv, NEW s \in Streams, NEW staging, Blits(s, staging), NEW O, O = Open(str, s)
  PROVE  /\ Good(str') /\ Grows(str, str') /\ Good(O) /\ O[s].open
         /\ Appended(O[s], str'[s], BlitItem(CO!NewOp, staging)) /\ BlitItem(CO!NewOp, staging) \in Item
         /\ \A p \in Streams \ {s} : str'[p] = O[p]
         /\ Longer(O, str') /\ Longer(str, str')
         /\ str'[s].body = Append(O[s].body, BlitItem(CO!NewOp, staging)) /\ str'[s].sent = O[s].sent
         /\ str'[s].keep = O[s].keep \cup staging /\ str'[s].retired = O[s].retired
<1>1. Good(str) /\ str[s].state = "live" /\ signal \in [Fence -> Nat] /\ CO!NewOp \in Nat
  BY NewOpType DEF Blits, IInv
<1>2. staging \in SUBSET Nat /\ str' = EncodeBlit(str, s, CO!NewOp, staging)
  BY <1>1 DEF Blits
<1>3. Good(O) /\ O[s].open
  BY <1>1, OpenGood
<1> DEFINE o == CO!NewOp
<1>4. Good(str) /\ o \in Nat /\ str' = EncodeBlit(str, s, o, staging)
  BY <1>1, <1>2
<1> HIDE DEF o
<1>5. /\ Good(str') /\ Grows(str, str')
      /\ Appended(O[s], str'[s], BlitItem(o, staging)) /\ BlitItem(o, staging) \in Item
      /\ \A p \in Streams \ {s} : str'[p] = O[p]
      /\ Longer(O, str') /\ Longer(str, str')
      /\ str'[s].body = Append(O[s].body, BlitItem(o, staging)) /\ str'[s].sent = O[s].sent
      /\ str'[s].keep = O[s].keep \cup staging /\ str'[s].retired = O[s].retired
  BY <1>1, <1>2, <1>4, EncodeBlitView
<1> QED BY <1>3, <1>5 DEF o

LEMMA CpuHist == ASSUME IInv, NEW s \in Streams, CpuOp(s) PROVE Hist_OK'
<1>1. log' \in Seq([stream : Streams, after : SUBSET Nat])
  BY LoggedType DEF CpuOp
<1>2. last' \in [Streams -> SUBSET Nat] /\ joins' \in [Streams -> SUBSET Nat] /\ done' \in SUBSET Nat
  BY NewOpType DEF CpuOp, IInv, Hist_OK
<1> QED BY <1>1, <1>2 DEF CpuOp, IInv, Hist_OK

LEMMA HostOpLog ==
  ASSUME IInv, NEW s \in Streams, HostOp(s)
  PROVE  /\ log' \in Seq([stream : Streams, after : SUBSET Nat])
         /\ DOMAIN log' = DOMAIN log \cup {CO!NewOp} /\ CO!NewOp \notin DOMAIN log
         /\ log'[CO!NewOp].stream = s /\ log'[CO!NewOp].after = {}
         /\ \A o \in DOMAIN log : log'[o] = log[o]
<1> DEFINE Entry == [stream : Streams, after : SUBSET Nat]
           entry == [stream |-> s, after |-> {}]
<1>1. log \in Seq(Entry) /\ log' = Append(log, entry)
  BY DEF IInv, Hist_OK, HostOp
<1>2. entry \in Entry /\ entry.stream = s /\ entry.after = {}
  OBVIOUS
<1> HIDE DEF Entry, entry
<1>3. /\ DOMAIN log = 1..Len(log) /\ Len(log) \in Nat /\ DOMAIN log' = 1..(Len(log) + 1)
      /\ log'[Len(log) + 1] = entry /\ \A o \in 1..Len(log) : log'[o] = log[o]
      /\ log' \in Seq(Entry)
  BY <1>1, <1>2
<1>4. 1..(Len(log) + 1) = (1..Len(log)) \cup {Len(log) + 1} /\ Len(log) + 1 \notin 1..Len(log)
  BY <1>3
<1> QED BY <1>2, <1>3, <1>4 DEF CO!NewOp, Entry

LEMMA IdlingType == Idling \in HostState
  BY StreamsAssumption DEF Idling, HostState, Codes

LEMMA WaitsHost ==
  ASSUME NEW then, NEW s \in Streams, Waits(then, s)
  PROVE  /\ host' \in HostState /\ host'.todo = Due(str, then, s) /\ host'.rc = "SUCCESS"
         /\ host'.then = then /\ host'.on = s /\ host'.event = {}
<1>1. Due(str, then, s) \in SUBSET Streams
  BY DEF Due, Blocking, LiveStreams
<1>2. then \in {"idle", "return", "copyOut", "syncOut", "syncDev", "syncIn", "syncFill", "syncHost", "free"}
  BY DEF Waits, SyncKinds
<1>3. host' = [todo |-> Due(str, then, s), event |-> {}, rc |-> "SUCCESS", then |-> then, on |-> s]
  BY DEF Waits, Await
<1>4. "SUCCESS" \in Codes /\ {} \in SUBSET Events
  BY DEF Codes
<1> QED BY <1>1, <1>2, <1>3, <1>4 DEF HostState

LEMMA SkipsHost ==
  ASSUME NEW then, SkipsWait(then)
  PROVE  /\ host' \in HostState /\ host'.todo = {} /\ host'.event = {}
         /\ host'.then = then /\ (then = "syncOut" => host'.rc = "ILLEGAL_ADDRESS")
<1> DEFINE rc == IF then = "syncOut" THEN "ILLEGAL_ADDRESS" ELSE "SUCCESS"
<1>1. then \in {"idle", "return", "copyOut", "syncOut", "syncDev", "syncIn", "syncFill", "syncHost", "free"}
  BY DEF SkipsWait, SyncKinds
<1>2. rc \in Codes
  BY DEF Codes
<1>3. host' = [Idling EXCEPT !.then = then, !.rc = rc]
  BY DEF SkipsWait
<1> HIDE DEF rc
<1>4. host' \in HostState /\ host'.todo = {} /\ host'.event = {} /\ host'.then = then /\ host'.rc = rc
  BY <1>1, <1>2, <1>3, StreamsAssumption DEF Idling, HostState
<1> QED BY <1>4 DEF rc

LEMMA CopyIInv == ASSUME IInv, CopyStep PROVE IInv'
<1>1. ASSUME CopyEnds PROVE Host_OK'
  BY <1>1, IdlingType DEF CopyEnds, IInv, Host_OK
<1>2. ASSUME NEW s \in Streams, NEW staging, Blits(s, staging) PROVE IInv'
  <2>1. Good(str') /\ Grows(str, str')
    BY <1>2, BlitsView
  <2>2. Hist_OK'
    BY <1>2, IssueHist DEF Blits
  <2> QED BY <1>1, <1>2, <2>1, <2>2, Step DEF Blits, CopyEnds, IInv
<1>3. ASSUME NEW s \in Streams, CopiesNow(s) PROVE IInv'
  <2>1. Good(str') /\ Grows(str, str')
    BY <1>3, TableKept DEF CopiesNow, CpuOp
  <2>2. Hist_OK'
    BY <1>3, CpuHist DEF CopiesNow
  <2> QED BY <1>1, <1>3, <2>1, <2>2, Step DEF CopiesNow, CopyEnds, IInv
<1>4. CASE EndsStill
  <2>1. Good(str') /\ Grows(str, str')
    BY <1>4, TableKept DEF EndsStill
  <2>2. Hist_OK'
    BY <1>4, HistKept DEF EndsStill
  <2> QED BY <1>1, <1>4, <2>1, <2>2, Step DEF EndsStill, CopyEnds, IInv
<1>5. ASSUME NEW then, NEW s \in Streams, Waits(then, s) PROVE IInv'
  <2>1. Good(str') /\ Grows(str, str')
    BY <1>5, CommitAllGood DEF Waits, Await, IInv
  <2>2. Host_OK' /\ Hist_OK'
    BY <1>5, WaitsHost, HistKept DEF Waits, Await, IInv, Host_OK
  <2> QED BY <1>5, <2>1, <2>2, Step DEF Waits, Await, IInv
<1>6. ASSUME NEW then, SkipsWait(then) PROVE IInv'
  <2>1. Good(str') /\ Grows(str, str')
    BY <1>6, TableKept DEF SkipsWait
  <2>2. Host_OK' /\ Hist_OK'
    <3>1. host' \in HostState
      BY <1>6, SkipsHost
    <3>2. UNCHANGED <<ret, failed, hist>>
      BY <1>6 DEF SkipsWait
    <3> QED BY <3>1, <3>2, HistKept DEF IInv, Host_OK
  <2> QED BY <1>6, <2>1, <2>2, Step DEF SkipsWait, IInv
<1>7. ASSUME NEW s \in Streams, HostWrites(s) PROVE IInv'
  <2>1. Good(str') /\ Grows(str, str')
    BY <1>7, TableKept DEF HostWrites, HostOp
  <2>2. Hist_OK'
    <3>1. done' \in SUBSET Nat
      BY <1>7, NewOpType DEF HostWrites, HostOp, IInv, Hist_OK
    <3> QED BY <1>7, <3>1, HostOpLog DEF HostWrites, HostOp, IInv, Hist_OK
  <2> QED BY <1>1, <1>7, <2>1, <2>2, Step DEF HostWrites, CopyEnds, IInv
<1> QED BY <1>2, <1>3, <1>4, <1>5, <1>6, <1>7 DEF CopyStep

-----------------------------------------------------------------------------
(* What waits and queries rest on *)

(* An operation the CPU does in the call.                                  *)
LEMMA DoneEInv ==
  ASSUME EInv, IInv', UNCHANGED <<str, mark, signal, ev>>, host' = Idling, done \subseteq done',
         \A p \in Streams : \A a \in last'[p] : a \in done' \/ a \in last[p]
  PROVE  EInv'
<1>1. str' = str /\ mark' = mark /\ done \subseteq done'
  OBVIOUS
<1>2. Executed'
  BY <1>1 DEF EInv, Executed, BufRan, BufSignalled, BufWaited
<1>3. LastHeld'
  <2> SUFFICES ASSUME NEW p \in Streams, NEW a \in last'[p], a \notin done'
               PROVE  Queues(BufsOf(str), p, a)
    BY <1>1 DEF LastHeld
  <2>1. a \in last[p] /\ a \notin done
    BY <1>1
  <2> QED BY <2>1 DEF EInv, LastHeld
<1>4. MarkHeld'
  BY <1>1 DEF EInv, MarkHeld
<1>5. Flushed' /\ Chained(BufsOf(str'))
  BY <1>1 DEF EInv, Flushed, Idling
<1> QED BY <1>2, <1>3, <1>4, <1>5 DEF EInv

LEMMA CopyEInv == ASSUME EInv, CopyStep PROVE EInv'
<1>0. IInv /\ IInv'
  BY CopyIInv DEF EInv
<1>1. Idling.todo = {} /\ Idling.event = {}
  BY DEF Idling
<1>2. ASSUME NEW s \in Streams, NEW staging, Blits(s, staging) PROVE EInv'
  <2> DEFINE O == Open(str, s)
             item == BlitItem(CO!NewOp, staging)
  <2>1. /\ item \in Item /\ Appended(O[s], str'[s], item) /\ Good(O) /\ O[s].open
        /\ \A p \in Streams \ {s} : str'[p] = O[p]
        /\ Longer(str, str')
    BY <1>0, <1>2, BlitsView
  <2>2. item.op = CO!NewOp
    BY DEF BlitItem
  <2>3. CO!Issue(s) /\ UNCHANGED <<signal, ev>> /\ host' = Idling
    BY <1>2 DEF Blits, CopyEnds
  <2>4. Flushed'
    BY <1>1, <2>3 DEF Flushed
  <2> HIDE DEF O, item
  <2> QED BY <1>0, <2>1, <2>2, <2>3, <2>4, IssueEInv
<1>3. ASSUME NEW s \in Streams, CopiesNow(s) PROVE EInv'
  <2>1. /\ UNCHANGED <<str, mark, signal, ev>> /\ host' = Idling /\ done \subseteq done'
        /\ CO!NewOp \in done' /\ last' = [last EXCEPT ![s] = {CO!NewOp}]
    BY <1>3 DEF CopiesNow, CopyEnds, CpuOp
  <2>2. last \in [Streams -> SUBSET Nat]
    BY <1>0 DEF IInv, Hist_OK
  <2>3. \A p \in Streams : \A a \in last'[p] : a \in done' \/ a \in last[p]
    BY <2>1, <2>2
  <2> QED BY <1>0, <2>1, <2>3, DoneEInv
<1>4. CASE EndsStill
  BY <1>0, <1>1, <1>4, StillEInv DEF EndsStill, CopyEnds
<1>5. ASSUME NEW then, NEW s \in Streams, Waits(then, s) PROVE EInv'
  BY <1>0, <1>5, AwaitEInv DEF Waits
<1>6. ASSUME NEW then, SkipsWait(then) PROVE EInv'
  <2>1. host'.todo = {} /\ host'.event = {}
    BY <1>6, SkipsHost
  <2> QED BY <1>0, <1>6, <2>1, StillEInv DEF SkipsWait
<1>7. ASSUME NEW s \in Streams, HostWrites(s) PROVE EInv'
  BY <1>0, <1>7, DoneEInv DEF HostWrites, CopyEnds, HostOp
<1> QED BY <1>2, <1>3, <1>4, <1>5, <1>6, <1>7 DEF CopyStep

LEMMA CopyPositive == ASSUME IInv, Positive, CopyStep PROVE Positive'
<1>1. last \in [Streams -> SUBSET Nat] /\ joins \in [Streams -> SUBSET Nat]
  BY DEF IInv, Hist_OK
<1>2. ASSUME NEW s \in Streams, CO!Logged(s), last' = [last EXCEPT ![s] = {CO!NewOp}],
             joins' = [joins EXCEPT ![s] = {}], mark' = mark
      PROVE  Positive'
  <2>1. \A o \in DOMAIN log' : 0 \notin log'[o].after
    BY <1>2, LoggedPositive
  <2>2. \A p \in Streams : 0 \notin last'[p] \cup joins'[p]
    BY <1>1, <1>2, NewOpType DEF Positive
  <2> QED BY <1>2, <2>1, <2>2 DEF Positive
<1>3. CASE UNCHANGED <<log, last, joins, mark>>
  BY <1>3 DEF Positive
<1>4. ASSUME NEW s \in Streams, NEW staging, Blits(s, staging) PROVE Positive'
  BY <1>2, <1>4 DEF Blits, CO!Issue
<1>5. ASSUME NEW s \in Streams, CopiesNow(s) PROVE Positive'
  BY <1>2, <1>5 DEF CopiesNow, CpuOp
<1>6. CASE EndsStill
  BY <1>3, <1>6 DEF EndsStill, hist
<1>7. ASSUME NEW then, NEW s \in Streams, Waits(then, s) PROVE Positive'
  BY <1>3, <1>7 DEF Waits, Await, hist
<1>8. ASSUME NEW then, SkipsWait(then) PROVE Positive'
  BY <1>3, <1>8 DEF SkipsWait, hist
<1>9. ASSUME NEW s \in Streams, HostWrites(s) PROVE Positive'
  <2>1. UNCHANGED <<last, joins, mark>>
    BY <1>9 DEF HostWrites, HostOp
  <2>2. \A o \in DOMAIN log' : 0 \notin log'[o].after
    BY <1>9, HostOpLog DEF HostWrites, Positive
  <2> QED BY <2>1, <2>2 DEF Positive
<1> QED BY <1>4, <1>5, <1>6, <1>7, <1>8, <1>9 DEF CopyStep

LEMMA CopyNextSteps ==
  ASSUME IInv, [CopyNext]_vars
  PROVE  [Next]_vars \/ CopyStep
  BY CopySteps DEF CopyNext

LEMMA CopyEInvHolds == ASSUME ~WaitsVisible PROVE CopySpec => [](EInv /\ Positive)
<1>1. Init => EInv /\ Positive
  BY InitEInv DEF Init, Positive
<1>2. EInv /\ Positive /\ [CopyNext]_vars => (EInv /\ Positive)'
  BY CopyNextSteps, NextEInv, NextPositive, CopyEInv, CopyPositive DEF EInv
<1> QED BY <1>1, <1>2, PTL DEF CopySpec

-----------------------------------------------------------------------------
(* What the entries without copies and the GPU do, for the copies *)

(* An entry ends at once or starts a plain wait, and finds a fault out only *)
(* by polling.                                                             *)
CallEnds ==
  /\ host = Idling /\ host'.then \in {"idle", "return"} /\ host'.rc = "SUCCESS"
  /\ UNCHANGED <<signal, done>>
  /\ failed' => failed \/ \E s \in Streams : LastStatus(str'[s]) = "error"
CallShape == CallEnds /\ Longer(str, str')

LEMMA CallHost ==
  ASSUME IInv, Call
  PROVE  CallShape
<1>1. ASSUME NEW s \in Streams, (\E nb \in BOOLEAN : CreateStream(s, nb)) \/ DestroyStream(s) \/ LaunchRefused(s)
      PROVE  CallShape
  <2>1. CallEnds
    BY <1>1 DEF CreateStream, DestroyStream, LaunchRefused, On, Enter, Returns, Idling, CallEnds, CallShape, hist
  <2>2. Longer(str, str')
    BY <1>1, CreateLonger, DestroyLonger, LongerRefl DEF LaunchRefused
  <2> QED BY <2>1, <2>2 DEF CallShape
<1>2. ASSUME NEW s \in Streams, NEW needs, Launch(s, needs) PROVE CallShape
  BY <1>2, LaunchView DEF Launch, On, Enter, Returns, Idling, CallEnds, CallShape, CO!Issue
<1>3. ASSUME NEW s \in Streams, LaunchHostFunc(s) PROVE CallShape
  <2>1. CallEnds
    BY <1>3 DEF LaunchHostFunc, On, Enter, Returns, Idling, CallEnds, CallShape, CO!IssueHost
  <2>2. Longer(str, str')
    BY <1>3, LaunchHostFuncView
  <2> QED BY <2>1, <2>2 DEF CallShape
<1>4. ASSUME NEW s \in Streams, QueryStream(s) PROVE CallShape
  <2>1. Longer(str, str')
    BY <1>4, FlushAllLonger DEF QueryStream
  <2>2. failed' => failed \/ LastStatus(str'[s]) = "error"
    BY <1>4 DEF QueryStream, StreamPoll, QueryCode
  <2> QED BY <1>4, <2>1, <2>2 DEF QueryStream, On, Enter, Returns, Idling, CallEnds, CallShape, hist
<1>5. ASSUME NEW S, NEW s, Enter, Await(S, "return", s) PROVE CallShape
  BY <1>5, FlushAllLonger DEF Await, Enter, Idling, CallEnds, CallShape, hist
<1>6. ASSUME NEW s \in Streams, SyncStream(s) PROVE CallShape
  <2>1. CASE Await({s}, "return", s)
    BY <1>5, <1>6, <2>1 DEF SyncStream, On
  <2>2. CASE UNCHANGED <<str, signal, ev, failed, faults, eventCalls, hist>> /\ Returns("ILLEGAL_ADDRESS")
    BY <1>6, <2>2, LongerRefl DEF SyncStream, On, Enter, Returns, Idling, CallEnds, CallShape, hist
  <2> QED BY <1>6, <2>1, <2>2 DEF SyncStream
<1>7. ASSUME NEW e \in Events, (\E t \in BOOLEAN : CreateEvent(e, t)) \/ DestroyEvent(e)
      PROVE  CallShape
  BY <1>7, LongerRefl DEF CreateEvent, DestroyEvent, With, Enter, Returns, Idling, CallEnds, CallShape, hist
<1>8. ASSUME NEW e \in Events, NEW s \in Streams, RecordEvent(e, s) PROVE CallShape
  <2>1. Longer(str, str')
    BY <1>8, RecordLonger
  <2> QED BY <1>8, <2>1 DEF RecordEvent, With, Enter, Returns, Idling, CallEnds, CallShape, CO!Record
<1>9. ASSUME NEW e \in Events, NEW s \in Streams, StreamWaitEvent(s, e) PROVE CallShape
  <2>1. Longer(str, str')
    BY <1>9, WaitEventView
  <2> QED BY <1>9, <2>1 DEF StreamWaitEvent, With, Enter, Returns, Idling, CallEnds, CallShape, CO!Wait
<1>10. ASSUME NEW e \in Events, QueryEvent(e) PROVE CallShape
  <2>1. Longer(str, str')
    BY <1>10, FlushAllLonger DEF QueryEvent
  <2> QED BY <1>10, <2>1 DEF QueryEvent, With, Enter, Returns, Idling, CallEnds, CallShape, hist
<1>11. ASSUME NEW e \in Events, SyncEvent(e) PROVE CallShape
  <2>1. Longer(str, str')
    BY <1>11, FlushAllLonger DEF SyncEvent
  <2> QED BY <1>11, <2>1 DEF SyncEvent, With, Enter, Returns, Idling, CallEnds, CallShape, hist
<1>12. CASE SyncDevice
  BY <1>5, <1>12 DEF SyncDevice
<1> QED BY <1>1, <1>2, <1>3, <1>4, <1>6, <1>7, <1>8, <1>9, <1>10, <1>11, <1>12 DEF Call

(* The GPU, a fault or a completion handler changes one buffer to b.       *)
Moves(s, i, b) ==
  /\ b \in CmdBuf /\ b.body = str[s].sent[i].body /\ b.value = str[s].sent[i].value
  /\ b.at >= str[s].sent[i].at
  /\ str' = [str EXCEPT ![s] = [str[s] EXCEPT !.sent = [str[s].sent EXCEPT ![i] = b]]]
  /\ b.status = "committed" => str[s].sent[i].status = "committed"
  /\ b.status = "error" => faults < MaxFaults \/ str[s].sent[i].status = "error"
  /\ UNCHANGED <<host, failed, log, last>>
  /\ \A p \in Streams : signal'[Dev(p)] >= signal[Dev(p)]

LEMMA GpuMoves ==
  ASSUME EInv, NEW s \in Streams, NEW i \in Buffers(s),
         GpuStep(s, i) \/ GpuSignal(s, i) \/ GpuComplete(s, i) \/ HandlerRuns(s, i) \/ GpuFault(s, i)
  PROVE  \E b : Moves(s, i, b)
<1> DEFINE a == str[s].sent[i]
<1>1. IInv /\ a \in CmdBuf /\ i \in DOMAIN str[s].sent /\ a.at \in Nat
  BY BufferType, ItemTypes DEF EInv, Buffers
<1>2. \A p \in Streams : signal[Dev(p)] \in Nat
  BY <1>1, FenceTypes
<1>3. CASE GpuStep(s, i)
  <2> DEFINE b == [a EXCEPT !.at = @ + 1]
  <2>1. b \in CmdBuf /\ b.body = a.body /\ b.value = a.value /\ b.at = a.at + 1 /\ b.status = a.status
    BY <1>1 DEF CmdBuf
  <2>2. str' = [str EXCEPT ![s] = [str[s] EXCEPT !.sent = [str[s].sent EXCEPT ![i] = b]]]
    BY <1>3 DEF GpuStep
  <2>3. UNCHANGED <<signal, host, failed, log, last>> /\ a.status = "committed"
    BY <1>3 DEF GpuStep, Runnable
  <2> HIDE DEF b
  <2>4. Moves(s, i, b)
    BY <1>1, <1>2, <2>1, <2>2, <2>3 DEF Moves
  <2> QED BY <2>4
<1>4. CASE GpuSignal(s, i)
  <2> DEFINE b == [a EXCEPT !.status = "signalled"]
  <2>1. b \in CmdBuf /\ b.body = a.body /\ b.value = a.value /\ b.at = a.at /\ b.status = "signalled"
    BY <1>1 DEF CmdBuf
  <2>2. str' = [str EXCEPT ![s] = [str[s] EXCEPT !.sent = [str[s].sent EXCEPT ![i] = b]]]
    BY <1>4 DEF GpuSignal
  <2>3. /\ UNCHANGED <<host, failed, log, last>> /\ a.status = "committed" /\ a.value = i /\ i \in Nat
        /\ signal' = [signal EXCEPT ![Dev(s)] = i] /\ signal \in [Fence -> Nat]
    BY <1>1, <1>4, BufferIs DEF GpuSignal, Signallable, hist, IInv
  <2>4. BufSignalled(a, i, signal[Dev(s)])
    BY <1>1 DEF EInv, Executed
  <2>5. i >= signal[Dev(s)]
    BY <1>2, <2>3, <2>4 DEF BufSignalled
  <2>6. \A p \in Streams : signal'[Dev(p)] >= signal[Dev(p)]
    <3> SUFFICES ASSUME NEW p \in Streams PROVE signal'[Dev(p)] >= signal[Dev(p)]
      OBVIOUS
    <3>1. CASE p = s
      BY <1>1, <2>3, <2>5, <3>1, FenceTypes
    <3>2. CASE p # s
      <4>1. signal'[Dev(p)] = signal[Dev(p)]
        BY <1>1, <2>3, <3>2, FenceTypes
      <4> QED BY <1>2, <4>1
    <3> QED BY <3>1, <3>2
  <2> HIDE DEF b
  <2>7. Moves(s, i, b)
    BY <1>1, <2>1, <2>2, <2>3, <2>6 DEF Moves
  <2> QED BY <2>7
<1>5. CASE GpuComplete(s, i)
  <2> DEFINE b == [a EXCEPT !.status = "completed"]
  <2>1. b \in CmdBuf /\ b.body = a.body /\ b.value = a.value /\ b.at = a.at /\ b.status = "completed"
    BY <1>1 DEF CmdBuf
  <2>2. str' = [str EXCEPT ![s] = [str[s] EXCEPT !.sent = [str[s].sent EXCEPT ![i] = b]]]
    BY <1>5 DEF GpuComplete
  <2>3. UNCHANGED <<signal, host, failed, log, last>>
    BY <1>5 DEF GpuComplete, hist
  <2> HIDE DEF b
  <2>4. Moves(s, i, b)
    BY <1>1, <1>2, <2>1, <2>2, <2>3 DEF Moves
  <2> QED BY <2>4
<1>6. CASE GpuFault(s, i)
  <2> DEFINE b == [a EXCEPT !.status = "error"]
  <2>1. b \in CmdBuf /\ b.body = a.body /\ b.value = a.value /\ b.at = a.at /\ b.status = "error"
    BY <1>1 DEF CmdBuf
  <2>2. str' = [str EXCEPT ![s] = [str[s] EXCEPT !.sent = [str[s].sent EXCEPT ![i] = b]]]
    BY <1>6 DEF GpuFault
  <2>3. UNCHANGED <<signal, host, failed, log, last>> /\ faults < MaxFaults
    BY <1>6 DEF GpuFault, hist
  <2> HIDE DEF b
  <2>4. Moves(s, i, b)
    BY <1>1, <1>2, <2>1, <2>2, <2>3 DEF Moves
  <2> QED BY <2>4
<1>7. CASE HandlerRuns(s, i)
  <2> DEFINE b == [a EXCEPT !.handler = NoHandler]
  <2>1. b \in CmdBuf /\ b.body = a.body /\ b.value = a.value /\ b.at = a.at /\ b.status = a.status
    BY <1>1, NoHandlerType DEF CmdBuf
  <2>2. str' = [str EXCEPT ![s] = [str[s] EXCEPT !.sent = [str[s].sent EXCEPT ![i] = b]]]
    BY <1>7 DEF HandlerRuns
  <2>3. /\ UNCHANGED <<host, failed, log, last>> /\ signal' = [signal EXCEPT ![Host(s)] = a.handler.value]
        /\ signal \in [Fence -> Nat]
    BY <1>1, <1>7 DEF HandlerRuns, IInv
  <2>4. \A p \in Streams : signal'[Dev(p)] = signal[Dev(p)]
    BY <1>1, <2>3, FenceTypes
  <2> HIDE DEF b
  <2>5. Moves(s, i, b)
    BY <1>1, <1>2, <2>1, <2>2, <2>3, <2>4 DEF Moves
  <2> QED BY <2>5
<1> QED BY <1>3, <1>4, <1>5, <1>6, <1>7

-----------------------------------------------------------------------------
(* What the copies that wait, and cudaFree, wait for *)

NoErrors == \A s \in Streams : \A i \in Buffers(s) : str[s].sent[i].status # "error"
Calm == MayTimeout \/ (~failed /\ host.rc = "SUCCESS")

(* A stream whose wait ended well has nothing open and has signalled all   *)
(* its values; it stays so, because nothing is issued before the entry     *)
(* that waited goes on.                                                    *)
Answered(s) == ~str[s].open /\ signal[Dev(s)] >= str[s].fenceValue
WaitedWell == host.rc = "SUCCESS" /\ (host.then \in {"copyOut", "syncOut"} \/ ~failed)
DueAnswered == WaitedWell => \A s \in Due(str, host.then, host.on) \ host.todo : Answered(s)

WInv == EInv /\ Positive /\ NoErrors /\ Calm /\ DueAnswered

LEMMA KeptErrors == ASSUME NoErrors, Kept(str, str') PROVE NoErrors'
  BY DEF NoErrors, Kept, KeptSt, Buffers

LEMMA LastNoError ==
  ASSUME NEW T, Good(T), NEW s \in Streams, \A i \in DOMAIN T[s].sent : T[s].sent[i].status # "error"
  PROVE  LastStatus(T[s]) # "error"
<1>1. T[s] \in Stream /\ Own(T[s])
  BY DEF Good
<1>2. /\ Len(T[s].sent) \in Nat /\ DOMAIN T[s].sent = 1..Len(T[s].sent)
      /\ Len(T[s].sent) = 0 => T[s].sent = <<>>
  BY <1>1, SentFacts, StreamFields
<1>3. T[s].sent # <<>> => Len(T[s].sent) \in DOMAIN T[s].sent
  BY <1>2
<1> QED BY <1>3 DEF LastStatus

LEMMA NoDue == ASSUME NEW then \in {"idle", "return"}, NEW s, NEW T PROVE Due(T, then, s) = {}
  BY DEF Due, SyncKinds

LEMMA IdleDue == ASSUME host' = Idling PROVE DueAnswered'
<1>1. Due(str', host'.then, host'.on) = {}
  BY NoDue DEF Idling
<1> QED BY <1>1 DEF DueAnswered

LEMMA CallWInv ==
  ASSUME WInv, EInv', Positive', Call
  PROVE  WInv'
<1>1. CallShape /\ IInv /\ IInv'
  BY CallHost DEF WInv, EInv
<1>2. NoErrors'
  BY <1>1, KeptErrors DEF CallShape, Longer, WInv
<1>3. Calm'
  <2>1. \A s \in Streams : LastStatus(str'[s]) # "error"
    BY <1>1, <1>2, LastNoError DEF NoErrors, Buffers, IInv
  <2> QED BY <1>1, <2>1 DEF CallShape, CallEnds, Calm, WInv
<1>4. Due(str', host'.then, host'.on) = {}
  BY <1>1, NoDue DEF CallShape, CallEnds
<1>5. DueAnswered'
  BY <1>4 DEF DueAnswered
<1> QED BY <1>2, <1>3, <1>5 DEF WInv

LEMMA CopyStill ==
  ASSUME CopyStep
  PROVE  /\ UNCHANGED <<signal, failed, faults>>
         /\ \/ \E s \in Streams : \E staging : Blits(s, staging)
            \/ \E then : \E s \in Streams : Waits(then, s)
            \/ str' = str /\ (host' = Idling \/ \E then : SkipsWait(then))
<1>1. ASSUME NEW s \in Streams, NEW staging, Blits(s, staging)
      PROVE  host' = Idling /\ UNCHANGED <<signal, failed, faults>>
  BY <1>1 DEF Blits, CopyEnds
<1>2. ASSUME NEW s \in Streams, CopiesNow(s)
      PROVE  host' = Idling /\ UNCHANGED <<str, signal, failed, faults>>
  BY <1>2 DEF CopiesNow, CopyEnds, CpuOp
<1>3. CASE EndsStill
  BY <1>3 DEF EndsStill, CopyEnds
<1>4. ASSUME NEW then, NEW s \in Streams, Waits(then, s) PROVE UNCHANGED <<signal, failed, faults>>
  BY <1>4 DEF Waits, Await
<1>5. ASSUME NEW then, SkipsWait(then) PROVE UNCHANGED <<str, signal, failed, faults>>
  BY <1>5 DEF SkipsWait
<1>6. ASSUME NEW s \in Streams, HostWrites(s)
      PROVE  host' = Idling /\ UNCHANGED <<str, signal, failed, faults>>
  BY <1>6 DEF HostWrites, CopyEnds, HostOp
<1> QED BY <1>1, <1>2, <1>3, <1>4, <1>5, <1>6 DEF CopyStep

LEMMA CopyWInv ==
  ASSUME WInv, EInv', Positive', CopyStep
  PROVE  WInv'
<1>1. IInv /\ IInv'
  BY DEF WInv, EInv
<1>2. Kept(str, str')
  <2>1. ASSUME NEW s \in Streams, NEW staging, Blits(s, staging) PROVE Kept(str, str')
    BY <1>1, <2>1, BlitsView DEF Longer
  <2>2. ASSUME NEW then, NEW s \in Streams, Waits(then, s) PROVE Kept(str, str')
    BY <1>1, <2>2, FlushAllLonger DEF Waits, Await, Longer
  <2>3. CASE str' = str
    BY <2>3, LongerRefl DEF Longer
  <2> QED BY <2>1, <2>2, <2>3, CopyStill
<1>3. NoErrors'
  BY <1>2, KeptErrors DEF WInv
<1>4. UNCHANGED failed
  BY CopyStill
<1>5. DueAnswered'
  <2>1. CASE host' = Idling
    BY <2>1, IdleDue
  <2>2. ASSUME NEW then, NEW s \in Streams, Waits(then, s) PROVE DueAnswered'
    <3>1. host'.todo = Due(str, then, s) /\ host'.then = then /\ host'.on = s
      BY <2>2, WaitsHost
    <3>2. Due(str', then, s) = Due(str, then, s)
      <4>1. \A p \in Streams : str'[p].state = str[p].state /\ str'[p].nonBlocking = str[p].nonBlocking
        <5>1. str' = CommitSet(str, LiveStreams(str)) /\ Good(str)
          BY <1>1, <2>2 DEF Waits, Await, CommitAll, IInv
        <5> QED BY <5>1, CommitSetGood
      <4>2. Blocking' = Blocking /\ LiveStreams(str') = LiveStreams(str)
        BY <4>1 DEF Blocking, LiveStreams
      <4> QED BY <4>1, <4>2 DEF Due, LiveStreams
    <3> QED BY <3>1, <3>2 DEF DueAnswered
  <2>3. ASSUME NEW then, SkipsWait(then) PROVE DueAnswered'
    <3>1. host'.then = then /\ (then = "syncOut" => host'.rc = "ILLEGAL_ADDRESS")
      BY <2>3, SkipsHost
    <3>2. failed' /\ then \in SyncKinds
      BY <2>3 DEF SkipsWait
    <3> QED BY <3>1, <3>2 DEF DueAnswered, WaitedWell, SyncKinds
  <2>4. ASSUME NEW s \in Streams, NEW staging, Blits(s, staging) PROVE DueAnswered'
    BY <2>1, <2>4 DEF Blits, CopyEnds
  <2> QED BY <2>1, <2>2, <2>3, <2>4, CopyStill
<1>6. Calm'
  <2>1. CASE host' = Idling
    BY <1>4, <2>1 DEF WInv, Calm, Idling
  <2>2. ASSUME NEW then, NEW s \in Streams, Waits(then, s) PROVE Calm'
    BY <1>4, <2>2, WaitsHost DEF WInv, Calm
  <2>3. ASSUME NEW then, SkipsWait(then) PROVE Calm'
    BY <2>3 DEF SkipsWait, WInv, Calm
  <2>4. ASSUME NEW s \in Streams, NEW staging, Blits(s, staging) PROVE Calm'
    BY <2>1, <2>4 DEF Blits, CopyEnds
  <2> QED BY <2>1, <2>2, <2>3, <2>4, CopyStill
<1> QED BY <1>3, <1>5, <1>6 DEF WInv

LEMMA ProgressWInv ==
  ASSUME WInv, EInv', Positive', HostProgress \/ WaitTimesOut
  PROVE  WInv'
<1>1. IInv /\ UNCHANGED <<str, signal>> /\ host \in HostState
  BY DEF WInv, EInv, IInv, Host_OK, HostProgress, AwaitReturns, EventAwaitReturns, EntryReturns, WaitTimesOut
<1>2. \A s \in Streams : LastStatus(str[s]) # "error"
  BY <1>1, LastNoError DEF WInv, NoErrors, Buffers, IInv
<1>3. NoErrors'
  BY <1>1 DEF NoErrors, WInv, Buffers
<1>4. \A then, s : Due(str', then, s) = Due(str, then, s) /\ (Answered(s)' <=> Answered(s))
  BY <1>1 DEF Due, Blocking, LiveStreams, Answered
<1>5. ASSUME NEW s \in Streams, AwaitReturns(s) PROVE Calm' /\ DueAnswered'
  <2> DEFINE rc == IF failed THEN "ILLEGAL_ADDRESS" ELSE host.rc
  <2>a. (failed' <=> failed) /\ host' = [host EXCEPT !.todo = host.todo \ {s}, !.rc = rc]
    BY <1>2, <1>5 DEF AwaitReturns
  <2>1. (failed' <=> failed) /\ (failed => host'.rc = "ILLEGAL_ADDRESS")
    BY <1>1, <2>a DEF HostState
  <2>2. /\ host'.then = host.then /\ host'.on = host.on /\ host'.todo = host.todo \ {s}
        /\ host'.rc \in {host.rc, "ILLEGAL_ADDRESS"} /\ host.todo # {}
    BY <1>1, <1>5 DEF AwaitReturns, HostState
  <2>3. ~failed => Answered(s)
    <3>1. ~str[s].open
      BY <2>2 DEF WInv, EInv, Flushed
    <3>2. Drained(str[s]) => signal[Dev(s)] >= str[s].fenceValue
      BY <1>2, LastCompleted DEF WInv
    <3> QED BY <1>5, <3>1, <3>2 DEF AwaitReturns, Answered
  <2>4. DueAnswered'
    <3> SUFFICES ASSUME WaitedWell', NEW p \in Due(str, host.then, host.on) \ (host.todo \ {s}) PROVE Answered(p)
      BY <1>4, <2>2 DEF DueAnswered
    <3>1. WaitedWell /\ ~failed
      BY <2>1, <2>2 DEF WaitedWell
    <3> QED BY <2>3, <3>1 DEF DueAnswered, WInv
  <2>5. Calm'
    BY <2>1, <2>a, <1>1 DEF Calm, WInv, HostState
  <2> QED BY <2>4, <2>5
<1>6. ASSUME NEW e \in Events, EventAwaitReturns(e) PROVE Calm' /\ DueAnswered'
  <2>1. ev[e].stream \in Streams
    BY <1>1, EventStream
  <2>a. (failed' <=> failed) /\ host' = [host EXCEPT !.event = {}, !.rc = host.rc]
    BY <1>2, <1>6, <2>1 DEF EventAwaitReturns
  <2>2. /\ (failed' <=> failed) /\ host'.rc = host.rc /\ host'.then = host.then /\ host'.on = host.on
        /\ host'.todo = host.todo
    BY <1>1, <2>a DEF HostState
  <2> QED BY <1>4, <2>2 DEF DueAnswered, WaitedWell, WInv, Calm
<1>7. CASE EntryReturns
  <2>1. host' = Idling /\ failed' = failed /\ Idling.rc = "SUCCESS"
    BY <1>7 DEF EntryReturns, Idling
  <2>2. DueAnswered'
    BY <2>1, IdleDue
  <2>3. Calm'
    BY <2>1 DEF WInv, Calm
  <2> QED BY <1>3, <2>2, <2>3 DEF WInv
<1>8. CASE WaitTimesOut
  <2>1. MayTimeout
    BY <1>8 DEF WaitTimesOut
  <2>2. ASSUME NEW s \in Streams, StreamTimesOut(s) PROVE host'.rc = "ILLEGAL_ADDRESS"
    BY <1>1, <2>2 DEF StreamTimesOut, HostState
  <2>3. ASSUME NEW e \in Events, EventTimesOut(e) PROVE host'.rc = "ILLEGAL_ADDRESS"
    BY <1>1, <2>3 DEF EventTimesOut, HostState
  <2>4. host'.rc = "ILLEGAL_ADDRESS"
    BY <1>8, <2>2, <2>3 DEF WaitTimesOut
  <2>5. DueAnswered'
    BY <2>4 DEF DueAnswered, WaitedWell
  <2>6. Calm'
    BY <2>1 DEF Calm
  <2> QED BY <1>3, <2>5, <2>6 DEF WInv
<1> QED BY <1>3, <1>5, <1>6, <1>7, <1>8 DEF HostProgress, WInv

LEMMA GpuWInv ==
  ASSUME WInv, EInv', Positive', MaxFaults = 0, NEW s \in Streams, NEW i \in Buffers(s), NEW b, Moves(s, i, b)
  PROVE  WInv'
<1>1. IInv /\ UNCHANGED <<host, failed>>
  BY DEF Moves, WInv, EInv
<1>2. Replaced(s, i, b)
  BY <1>1, BufferView DEF Moves
<1>3. b.status # "error"
  BY <1>1 DEF Moves, WInv, NoErrors, IInv
<1>4. NoErrors'
  BY <1>2, <1>3 DEF NoErrors, WInv, Buffers, Replaced
<1>5. \A p \in Streams : Answered(p) => Answered(p)'
  <2> SUFFICES ASSUME NEW p \in Streams, Answered(p) PROVE Answered(p)'
    OBVIOUS
  <2>1. signal'[Dev(p)] >= signal[Dev(p)] /\ signal'[Dev(p)] \in Nat /\ signal[Dev(p)] \in Nat
    <3>1. signal' \in [Fence -> Nat]
      BY DEF EInv, IInv
    <3> QED BY <1>1, <3>1, FenceTypes DEF Moves
  <2>2. str'[p].open = str[p].open /\ str'[p].fenceValue = str[p].fenceValue
    BY <1>2 DEF Replaced
  <2>3. str[p].fenceValue \in Nat
    BY <1>1, StreamFields DEF IInv, Good
  <2> QED BY <2>1, <2>2, <2>3 DEF Answered
<1>6. \A then, p : Due(str', then, p) = Due(str, then, p)
  <2>1. Blocking' = Blocking /\ LiveStreams(str') = LiveStreams(str)
    BY <1>2 DEF Blocking, LiveStreams, Replaced
  <2> QED BY <1>2, <2>1 DEF Due, LiveStreams, Replaced
<1>7. Due(str, host.then, host.on) \subseteq Streams
  BY <1>1 DEF Due, Blocking, LiveStreams, IInv, Host_OK, HostState
<1> QED BY <1>1, <1>4, <1>5, <1>6, <1>7 DEF WInv, Calm, DueAnswered, WaitedWell

LEMMA WInvHolds == ASSUME ~WaitsVisible, MaxFaults = 0 PROVE CopySpec => []WInv
<1>1. Init => WInv
  <2> SUFFICES ASSUME Init PROVE WInv
    OBVIOUS
  <2>1. EInv /\ Positive
    BY InitEInv DEF Init, Positive
  <2>2. ASSUME NEW s \in Streams PROVE DOMAIN str[s].sent = {}
    <3>1. str[s] \in {NewStream("live", FALSE), NewStream("new", FALSE)}
      BY DEF Init
    <3>2. str[s].sent = <<>>
      BY <3>1 DEF NewStream
    <3> QED BY <3>2
  <2>3. NoErrors /\ Calm
    <3>1. NoErrors
      BY <2>2 DEF NoErrors, Buffers
    <3>2. Calm
      BY DEF Calm, Init, Idling
    <3> QED BY <3>1, <3>2
  <2>4. DueAnswered
    <3>1. host.then = "idle"
      BY DEF Init, Idling
    <3>2. Due(str, host.then, host.on) = {}
      BY <3>1, NoDue
    <3> QED BY <3>2 DEF DueAnswered
  <2> QED BY <2>1, <2>3, <2>4 DEF WInv
<1>2. WInv /\ [CopyNext]_vars => WInv'
  <2> SUFFICES ASSUME WInv, [CopyNext]_vars PROVE WInv'
    OBVIOUS
  <2>1. IInv /\ EInv /\ Positive
    BY DEF WInv, EInv
  <2>2. CASE CopyStep
    BY <2>1, <2>2, CopyEInv, CopyPositive, CopyWInv
  <2>3. CASE [Next]_vars
    <3>1. EInv' /\ Positive'
      BY <2>1, <2>3, NextEInv, NextPositive
    <3>2. ASSUME NEW s \in Streams, NEW i \in Buffers(s),
                 GpuStep(s, i) \/ GpuSignal(s, i) \/ GpuComplete(s, i) \/ HandlerRuns(s, i) \/ GpuFault(s, i)
          PROVE  WInv'
      <4>1. \E b : Moves(s, i, b)
        BY <2>1, <3>2, GpuMoves
      <4> QED BY <3>1, <4>1, GpuWInv
    <3>3. CASE UNCHANGED vars
      BY <3>1, <3>3 DEF vars, WInv, NoErrors, Buffers, Calm, DueAnswered, WaitedWell, Answered, Due, Blocking, LiveStreams
    <3> QED BY <2>3, <3>1, <3>2, <3>3, CallWInv, ProgressWInv DEF Next, Gpu
  <2> QED BY <2>1, <2>2, <2>3, CopyNextSteps
<1> QED BY <1>1, <1>2, PTL DEF CopySpec

LEMMA AnsweredRan ==
  ASSUME EInv, NEW s \in Streams, Answered(s), NEW i \in Buffers(s)
  PROVE  str[s].sent[i].status \in {"signalled", "completed"}
<1>1. str[s] \in Stream /\ Own(str[s]) /\ signal[Dev(s)] \in Nat
  BY FenceTypes DEF EInv, IInv, Good
<1>2. i \in 1..str[s].fenceValue /\ str[s].fenceValue \in Nat
  BY <1>1, SentFacts DEF Buffers
<1>3. i <= signal[Dev(s)]
  BY <1>1, <1>2 DEF Answered
<1>4. BufSignalled(str[s].sent[i], i, signal[Dev(s)])
  BY DEF EInv, Executed, Buffers
<1> QED BY <1>3, <1>4 DEF BufSignalled

LEMMA IdleAnswered ==
  ASSUME EInv, NoErrors, NEW s \in Streams, Idle(str[s])
  PROVE  Answered(s)
<1>1. IInv /\ ~str[s].open /\ Drained(str[s])
  BY DEF Idle, EInv
<1>2. LastStatus(str[s]) # "error"
  BY <1>1, LastNoError DEF NoErrors, Buffers, IInv
<1> QED BY <1>1, <1>2, LastCompleted DEF Answered

(* A stream that was not created has been given nothing.                   *)
LEMMA NewAnswered ==
  ASSUME EInv, NEW s \in Streams, str[s].state = "new"
  PROVE  Answered(s)
<1>1. str[s] \in Stream /\ Own(str[s]) /\ signal[Dev(s)] \in Nat
  BY FenceTypes DEF EInv, IInv, Good
<1> QED BY <1>1 DEF Own, Answered

(* A destroyed stream leaves the stream table, and cudaFree no longer      *)
(* waits for what it was given.                                            *)
NoneGone == \A s \in Streams : str[s].state # "gone"

LEMMA QuietFrees ==
  ASSUME WInv, ~MayTimeout, NoneGone
  PROVE  FreeQuiet
<1>1. IInv /\ EInv /\ str \in [Streams -> Stream]
  BY DEF WInv, EInv, IInv, Good
<1>2. ASSUME NEW s \in Streams PROVE str[s].state = "new" \/ s \in LiveStreams(str)
  <2>1. str[s] \in Stream
    BY <1>1
  <2> QED BY <2>1, StreamFields DEF NoneGone, LiveStreams
<1>3. ASSUME \A s \in LiveStreams(str) : Answered(s) PROVE GpuQuiet
  <2>1. ASSUME NEW s \in Streams PROVE Answered(s)
    BY <1>1, <1>2, <1>3, NewAnswered
  <2>2. ASSUME NEW s \in Streams PROVE ~str[s].open
    <3>1. Answered(s)
      BY <2>1
    <3> QED BY <3>1 DEF Answered
  <2>3. ASSUME NEW s \in Streams, NEW i \in Buffers(s) PROVE str[s].sent[i].status # "committed"
    <3>1. Answered(s)
      BY <2>1
    <3> QED BY <1>1, <3>1, AnsweredRan
  <2> QED BY <2>2, <2>3, Zenon DEF GpuQuiet
<1>4. CASE FreesAtOnce
  <2>1. ASSUME NEW s \in LiveStreams(str) PROVE Answered(s)
    <3>1. s \in Streams /\ Idle(str[s]) /\ NoErrors
      BY <1>4 DEF FreesAtOnce, LiveStreams, WInv
    <3> QED BY <1>1, <3>1, IdleAnswered
  <2> QED BY <1>3, <2>1 DEF FreeQuiet
<1>5. CASE FreesNow
  <2>1. Due(str, host.then, host.on) = LiveStreams(str) /\ host.todo = {}
    BY <1>5 DEF Due, SyncKinds, FreesNow, Awaited
  <2>2. WaitedWell
    BY DEF WInv, Calm, WaitedWell
  <2>3. \A s \in LiveStreams(str) : Answered(s)
    BY <2>1, <2>2 DEF WInv, DueAnswered
  <2> QED BY <1>3, <2>3 DEF FreeQuiet
<1> QED BY <1>4, <1>5 DEF FreeQuiet

(* free: while no buffer faults and no wait reaches its limit, cudaFree    *)
(* releases memory only when no command buffer is left that could use it,  *)
(* whether it finds every stream idle or waits; for any program that       *)
(* destroys no stream.                                                     *)
THEOREM FreeQuietHolds ==
  ASSUME ~WaitsVisible, MaxFaults = 0, ~MayTimeout
  PROVE  CopySpec /\ []NoneGone => []FreeQuiet
<1>1. CopySpec => []WInv
  BY WInvHolds
<1>2. WInv /\ NoneGone => FreeQuiet
  BY QuietFrees
<1> QED BY <1>1, <1>2, PTL

LEMMA FinishesWaited ==
  ASSUME SyncFinishes
  PROVE  host.todo = {} /\ host.then \in SyncKinds
<1>1. CASE CopyOutFinishes("syncOut")
  BY <1>1 DEF CopyOutFinishes, Finishes, Awaited, SyncKinds
<1>2. CASE SyncInFinishes \/ SyncFillFinishes \/ SyncHostFinishes
           \/ \E small \in BOOLEAN : SyncDevFinishes(small)
  BY <1>2 DEF SyncInFinishes, SyncFillFinishes, SyncHostFinishes, SyncDevFinishes, Finishes, Awaited, SyncKinds
<1> QED BY <1>1, <1>2 DEF SyncFinishes

LEMMA WaitedCopies ==
  ASSUME WInv, ~MayTimeout, ~WaitsVisible, SyncFinishes
  PROVE  \A s \in Blocking : CO!Seen(s) \subseteq done
<1>1. IInv /\ EInv /\ Positive
  BY DEF WInv, EInv
<1>2. host.todo = {} /\ host.then \in SyncKinds
  BY FinishesWaited
<1>3. Due(str, host.then, host.on) = Blocking
  BY <1>2 DEF Due, SyncKinds, Blocking, LiveStreams
<1>4. WaitedWell
  BY DEF WInv, Calm, WaitedWell
<1> SUFFICES ASSUME NEW s \in Blocking PROVE CO!Seen(s) \subseteq done
  OBVIOUS
<1>5. s \in Streams /\ Answered(s)
  BY <1>2, <1>3, <1>4 DEF WInv, DueAnswered, Blocking
<1>6. last[s] \subseteq done
  BY <1>1, <1>5, StreamDone DEF Answered
<1> QED BY <1>6 DEF CO!Seen

(* sync_blocking_streams: while no buffer faults and no wait reaches its   *)
(* limit, a cudaMemcpy, or a cudaMemset of device memory, goes ahead only  *)
(* when everything the blocking streams were given has run; any program.   *)
(* (A copy between device and pinned memory and a fill of host memory do   *)
(* not wait: CopySyncPinned, HostNow.)                                     *)
THEOREM CopyWaitsHolds ==
  ASSUME ~WaitsVisible, MaxFaults = 0, ~MayTimeout
  PROVE  CopySpec => CopyWaits
<1>1. CopySpec => []WInv
  BY WInvHolds
<1>2. WInv => [SyncFinishes => \A s \in Blocking : CO!Seen(s) \subseteq done]_vars
  BY WaitedCopies
<1> QED BY <1>1, <1>2, PTL DEF CopyWaits

-----------------------------------------------------------------------------
(* The life of staging buffers *)

(* StagingAlive for one stream record.                                     *)
Alive(b, retired) ==
  b.status = "committed" =>
    \A k \in (b.at + 1)..Len(b.body) : \A g \in b.body[k].staging : <<b.value, g>> \in retired
Staged(st) ==
  /\ \A k \in DOMAIN st.body : st.body[k].staging \subseteq st.keep
  /\ \A i \in DOMAIN st.sent : Alive(st.sent[i], st.retired)
AllStaged(T) == \A s \in Streams : Staged(T[s])

LEMMA StagingStaged == StagingAlive <=> AllStaged(str)
  BY DEF StagingAlive, AllStaged, Staged, Alive, Buffers

LEMMA StagedSame ==
  ASSUME NEW st, NEW c, Staged(st), c.body = st.body, c.sent = st.sent, c.keep = st.keep,
         c.retired = st.retired
  PROVE  Staged(c)
  BY DEF Staged

LEMMA StagedCommit ==
  ASSUME NEW st \in Stream, Own(st), Staged(st), NEW h \in Handler
  PROVE  Staged(CommitWith(st, h))
<1> DEFINE c == CommitWith(st, h)
           v == st.fenceValue + 1
           b == [body |-> st.body, at |-> 0, value |-> v, handler |-> h, status |-> "committed"]
           new == {<<v, g>> : g \in st.keep}
<1>1. CASE ~st.open
  BY <1>1 DEF CommitWith
<1>2. CASE st.open
  <2>1. c.body = <<>> /\ c.sent = Append(st.sent, b) /\ c.retired = st.retired \cup new
    BY <1>2 DEF CommitWith, Stream
  <2>2. b \in CmdBuf /\ b.body = st.body /\ b.at = 0 /\ b.value = v
    BY StreamFields DEF CmdBuf
  <2>3. st.body \in Seq(Item) /\ st.sent \in Seq(CmdBuf)
    BY StreamFields
  <2> HIDE DEF b, c
  <2>4. /\ DOMAIN c.sent = 1..(Len(st.sent) + 1) /\ DOMAIN st.sent = 1..Len(st.sent) /\ Len(st.sent) \in Nat
        /\ c.sent[Len(st.sent) + 1] = b /\ \A i \in 1..Len(st.sent) : c.sent[i] = st.sent[i]
    BY <2>1, <2>2, <2>3
  <2>5. ASSUME NEW i \in DOMAIN c.sent PROVE Alive(c.sent[i], c.retired)
    <3>1. CASE i \in DOMAIN st.sent
      <4>1. Alive(st.sent[i], st.retired)
        BY <3>1 DEF Staged
      <4> QED BY <2>1, <2>4, <3>1, <4>1 DEF Alive
    <3>2. CASE i \notin DOMAIN st.sent
      <4>1. c.sent[i] = b
        BY <2>4, <3>2
      <4>2. ASSUME NEW k \in (b.at + 1)..Len(b.body), NEW g \in b.body[k].staging
            PROVE  <<b.value, g>> \in c.retired
        <5>1. k \in DOMAIN st.body
          BY <2>2, <2>3, <4>2
        <5>2. g \in st.keep
          BY <2>2, <4>2, <5>1 DEF Staged
        <5> QED BY <2>1, <2>2, <5>2
      <4> QED BY <4>1, <4>2 DEF Alive
    <3> QED BY <3>1, <3>2
  <2>6. DOMAIN c.body = {}
    BY <2>1
  <2> QED BY <2>5, <2>6 DEF Staged, c
<1> QED BY <1>1, <1>2

LEMMA StagedCommitSet ==
  ASSUME NEW T, Good(T), AllStaged(T), NEW S
  PROVE  AllStaged(CommitSet(T, S))
<1> SUFFICES ASSUME NEW s \in Streams PROVE Staged(CommitSet(T, S)[s])
  BY DEF AllStaged
<1>1. T[s] \in Stream /\ Own(T[s]) /\ Staged(T[s])
  BY DEF Good, AllStaged
<1>2. Staged(CommitWith(T[s], NoHandler))
  BY <1>1, StagedCommit, NoHandlerType
<1> QED BY <1>1, <1>2 DEF CommitSet, Commit

LEMMA StagedEncode ==
  ASSUME NEW st \in Stream, Staged(st), NEW item, item \in Item, NEW c,
         c.body = Append(st.body, item), c.sent = st.sent, c.retired = st.retired,
         st.keep \subseteq c.keep, item.staging \subseteq c.keep
  PROVE  Staged(c)
<1>1. st.body \in Seq(Item)
  BY StreamFields
<1>2. /\ DOMAIN c.body = 1..(Len(st.body) + 1) /\ DOMAIN st.body = 1..Len(st.body) /\ Len(st.body) \in Nat
      /\ c.body[Len(st.body) + 1] = item /\ \A k \in DOMAIN st.body : c.body[k] = st.body[k]
  BY <1>1
<1>3. ASSUME NEW k \in DOMAIN c.body PROVE c.body[k].staging \subseteq c.keep
  <2>1. CASE k \in DOMAIN st.body
    BY <1>2, <2>1 DEF Staged
  <2>2. CASE k \notin DOMAIN st.body
    BY <1>2, <2>2
  <2> QED BY <2>1, <2>2
<1> QED BY <1>3 DEF Staged

LEMMA StagedBump ==
  ASSUME NEW st \in Stream, Own(st), Staged(st)
  PROVE  Staged(BumpOps(st))
<1> DEFINE n == st.ops + 1
           at == IF n # 1 THEN st.commitAt ELSE IF Drained(st) THEN CommitFirst ELSE CommitThreshold
           c == [st EXCEPT !.ops = n, !.commitAt = at]
<1>1. n \in Nat /\ at \in Nat
  BY StreamFields, StreamsAssumption
<1> HIDE DEF n, at
<1>2. /\ c \in Stream /\ c.body = st.body /\ c.sent = st.sent /\ c.keep = st.keep /\ c.retired = st.retired
      /\ c.fenceValue = st.fenceValue /\ c.state = st.state /\ c.open = st.open /\ c.hostValue = st.hostValue
  BY <1>1 DEF Stream
<1>3. BumpOps(st) = IF n >= at THEN CommitWith(c, NoHandler) ELSE c
  BY DEF BumpOps, Commit, n, at
<1> HIDE DEF c
<1>4. Own(c) /\ Staged(c)
  BY <1>2, StagedSame DEF Own, Counts
<1>5. Staged(CommitWith(c, NoHandler))
  BY <1>2, <1>4, StagedCommit, NoHandlerType
<1> QED BY <1>3, <1>4, <1>5

(* The staging buffers a new command buffer lets go of are those of        *)
(* buffers that have signalled.                                            *)
LEMMA StagedOpen ==
  ASSUME EInv, AllStaged(str), NEW s \in Streams
  PROVE  AllStaged(Open(str, s))
<1>0. IInv /\ Good(str) /\ str[s] \in Stream /\ Own(str[s]) /\ Staged(str[s]) /\ signal[Dev(s)] \in Nat
  BY FenceTypes DEF EInv, IInv, Good, AllStaged
<1>1. CASE str[s].open
  BY <1>1 DEF Open
<1>2. CASE ~str[s].open
  <2> DEFINE P == PeersCommitted(str, s)
             own == IF str[s].fenceValue > 0 THEN {<<Dev(s), str[s].fenceValue>>} ELSE {}
             first == WaitItem(own \cup LegacyDependencies(str, s) \cup str[s].pending)
             body == <<first>>
             waited == [p \in Streams |-> IF p \in Unwaited(str, s) THEN P[p].fenceValue
                                          ELSE str[s].waited[p]]
             retired == {r \in str[s].retired : r[1] > signal[Dev(s)]}
             c == [str[s] EXCEPT !.open = TRUE, !.body = body, !.ops = 0, !.keep = {},
                     !.pending = {}, !.waited = waited, !.retired = retired]
  <2>1. Open(str, s) = [P EXCEPT ![s] = c]
    BY <1>2 DEF Open
  <2>2. P \in [Streams -> Stream] /\ AllStaged(P)
    BY <1>0, CommitSetGood, StagedCommitSet DEF PeersCommitted, Good
  <2>3. DOMAIN body = {1} /\ body[1].staging = {}
    BY DEF WaitItem
  <2> HIDE DEF first, P, body, waited
  <2>4. c.body = body /\ c.sent = str[s].sent /\ c.retired = retired
    BY <1>0 DEF Stream
  <2> HIDE DEF c
  <2>5. ASSUME NEW i \in DOMAIN str[s].sent PROVE Alive(str[s].sent[i], retired)
    <3> DEFINE b == str[s].sent[i]
    <3>1. b.value = i /\ i \in Nat
      BY <1>0, BufferIs DEF Buffers
    <3>2. Alive(b, str[s].retired)
      BY <1>0 DEF Staged
    <3>3. BufSignalled(b, i, signal[Dev(s)])
      BY DEF EInv, Executed
    <3>4. b.status = "committed" => b.value > signal[Dev(s)]
      BY <1>0, <3>1, <3>3 DEF BufSignalled
    <3> HIDE DEF b
    <3>5. ASSUME b.status = "committed", NEW k \in (b.at + 1)..Len(b.body), NEW g \in b.body[k].staging
          PROVE  <<b.value, g>> \in retired
      <4>1. <<b.value, g>> \in str[s].retired
        BY <3>2, <3>5 DEF Alive
      <4>2. <<b.value, g>>[1] = b.value
        OBVIOUS
      <4> QED BY <3>4, <3>5, <4>1, <4>2
    <3>6. Alive(b, retired)
      BY <3>5 DEF Alive
    <3> QED BY <3>6 DEF b
  <2>6. Staged(c)
    BY <2>3, <2>4, <2>5 DEF Staged
  <2> QED BY <2>1, <2>2, <2>6 DEF AllStaged
<1> QED BY <1>1, <1>2

LEMMA StagedReplace ==
  ASSUME NEW T \in [Streams -> Stream], AllStaged(T), NEW s \in Streams, NEW c, Staged(c)
  PROVE  AllStaged([T EXCEPT ![s] = c])
  BY DEF AllStaged

LEMMA CreateStaged ==
  ASSUME EInv, AllStaged(str), NEW s \in Streams, NEW nb \in BOOLEAN, CreateStream(s, nb)
  PROVE  AllStaged(str')
<1>1. str' = [str EXCEPT ![s] = NewStream("live", nb)] /\ str \in [Streams -> Stream]
  BY DEF CreateStream, EInv, IInv, Good
<1>2. NewStream("live", nb).body = <<>> /\ NewStream("live", nb).sent = <<>>
  BY DEF NewStream
<1>3. Staged(NewStream("live", nb))
  BY <1>2 DEF Staged
<1> QED BY <1>1, <1>3, StagedReplace

LEMMA LaunchStaged ==
  ASSUME EInv, AllStaged(str), NEW s \in Streams, NEW needs, Launch(s, needs)
  PROVE  AllStaged(str')
<1> DEFINE O == Open(str, s)
           item == KernelItem(CO!NewOp, needs)
           e == Encode(O[s], item)
<1>1. /\ IInv /\ Good(str) /\ signal \in [Fence -> Nat] /\ str[s].state = "live"
      /\ str' = EncodeKernel(str, s, CO!NewOp, needs)
  BY DEF Launch, On, EInv, IInv
<1>2. item \in Item
  BY <1>1, LaunchView
<1>3. Good(O) /\ AllStaged(O)
  BY <1>1, OpenGood, StagedOpen
<1>4. O \in [Streams -> Stream] /\ O[s] \in Stream /\ Own(O[s]) /\ Staged(O[s])
  BY <1>3 DEF Good, AllStaged
<1>5. str' = [O EXCEPT ![s] = BumpOps(e)]
  BY <1>1, <1>4 DEF EncodeKernel, KernelItem
<1>6. item.staging = {}
  BY DEF KernelItem
<1> HIDE DEF O, item
<1>7. e \in Stream /\ Own(e)
  BY <1>2, <1>4, EncodeFacts DEF Own, Counts
<1>8. e.body = Append(O[s].body, item) /\ e.sent = O[s].sent /\ e.keep = O[s].keep /\ e.retired = O[s].retired
  BY <1>4 DEF Encode, Stream
<1> HIDE DEF e
<1>9. Staged(e)
  BY <1>2, <1>4, <1>6, <1>8, StagedEncode
<1>10. Staged(BumpOps(e))
  BY <1>7, <1>9, StagedBump
<1> QED BY <1>3, <1>4, <1>5, <1>10, StagedReplace

LEMMA LaunchHostFuncStaged ==
  ASSUME EInv, AllStaged(str), NEW s \in Streams, LaunchHostFunc(s)
  PROVE  AllStaged(str')
<1> DEFINE O == Open(str, s)
           v == str[s].hostValue + 1
           h == [op |-> CO!NewOp, value |-> v]
           c == CommitWith(O[s], h)
           d == [c EXCEPT !.hostValue = v, !.pending = @ \cup {<<Host(s), v>>}]
<1>1. IInv /\ Good(str) /\ signal \in [Fence -> Nat] /\ str[s].state = "live"
  BY DEF LaunchHostFunc, On, EInv, IInv
<1>2. h \in Handler
  BY <1>1, LaunchHostFuncView
<1>3. Good(O) /\ AllStaged(O)
  BY <1>1, OpenGood, StagedOpen
<1>4. O \in [Streams -> Stream] /\ O[s] \in Stream /\ Own(O[s]) /\ Staged(O[s])
  BY <1>3 DEF Good, AllStaged
<1>5. str' = [O EXCEPT ![s] = d]
  BY DEF LaunchHostFunc
<1> HIDE DEF O, h
<1>6. c \in Stream /\ Staged(c)
  BY <1>2, <1>4, CommitType, StagedCommit
<1> HIDE DEF c
<1>7. d.body = c.body /\ d.sent = c.sent /\ d.keep = c.keep /\ d.retired = c.retired
  BY <1>6 DEF Stream
<1> HIDE DEF d
<1>8. Staged(d)
  BY <1>6, <1>7, StagedSame
<1> QED BY <1>3, <1>4, <1>5, <1>8, StagedReplace

LEMMA WaitEventStaged ==
  ASSUME EInv, AllStaged(str), NEW s \in Streams, NEW e \in Events, StreamWaitEvent(s, e)
  PROVE  AllStaged(str')
<1> DEFINE F == FlushEvent(str, e)
           w == <<Dev(ev[e].stream), ev[e].value>>
           item == WaitItem({w})
<1>1. IInv /\ Good(str)
  BY DEF EInv, IInv
<1>2. PICK S : F = CommitSet(str, S)
  BY <1>1, FlushEventIsSet
<1>3. Good(F) /\ AllStaged(F)
  BY <1>1, <1>2, CommitSetGood, StagedCommitSet
<1>4. F \in [Streams -> Stream] /\ F[s] \in Stream /\ Staged(F[s])
  BY <1>3 DEF Good, AllStaged
<1>5. /\ item \in Item
      /\ \/ str' = F
         \/ str' = [F EXCEPT ![s] = Encode(F[s], item)]
         \/ str' = [F EXCEPT ![s] = [F[s] EXCEPT !.pending = @ \cup {w}]]
  <2>1. F = FlushEvent(str, e) /\ w = <<Dev(ev[e].stream), ev[e].value>> /\ item = WaitItem({w})
    OBVIOUS
  <2> HIDE DEF F, w, item
  <2> QED BY <1>1, <2>1, WaitEventView
<1>6. item.staging = {}
  BY DEF WaitItem
<1> HIDE DEF F, item
<1>7. CASE str' = [F EXCEPT ![s] = Encode(F[s], item)]
  <2> DEFINE c == Encode(F[s], item)
  <2>1. c.body = Append(F[s].body, item) /\ c.sent = F[s].sent /\ c.keep = F[s].keep /\ c.retired = F[s].retired
    BY <1>4 DEF Encode, Stream
  <2> HIDE DEF c
  <2>2. Staged(c)
    BY <1>4, <1>5, <1>6, <2>1, StagedEncode
  <2> QED BY <1>3, <1>4, <1>7, <2>2, StagedReplace DEF c
<1>8. CASE str' = [F EXCEPT ![s] = [F[s] EXCEPT !.pending = @ \cup {w}]]
  <2> DEFINE c == [F[s] EXCEPT !.pending = @ \cup {w}]
  <2>1. c.body = F[s].body /\ c.sent = F[s].sent /\ c.keep = F[s].keep /\ c.retired = F[s].retired
    BY <1>4 DEF Stream
  <2> HIDE DEF c
  <2>2. Staged(c)
    BY <1>4, <2>1, StagedSame
  <2> QED BY <1>3, <1>4, <1>8, <2>2, StagedReplace DEF c
<1> QED BY <1>3, <1>5, <1>7, <1>8

LEMMA FlushAllStaged ==
  ASSUME EInv, AllStaged(str), NEW T, T = str \/ \E e \in Events : T = FlushEvent(str, e),
         str' = CommitAll(T)
  PROVE  AllStaged(str')
<1>1. IInv /\ Good(str)
  BY DEF EInv, IInv
<1>2. Good(T) /\ AllStaged(T)
  BY <1>1, FlushEventIsSet, CommitSetGood, StagedCommitSet
<1> QED BY <1>2, StagedCommitSet DEF CommitAll

LEMMA CallStaged ==
  ASSUME EInv, AllStaged(str), Call, NoneGone'
  PROVE  AllStaged(str')
<1>0. IInv /\ Good(str)
  BY DEF EInv, IInv
<1>1. ASSUME NEW s \in Streams, DestroyStream(s) PROVE FALSE
  <2>1. PICK d : str' = [str EXCEPT ![s] = d] /\ d.state = "gone"
    BY <1>0, <1>1, DestroyLonger
  <2> QED BY <1>0, <2>1 DEF NoneGone, Good
<1>2. ASSUME NEW e \in Events, NEW s \in Streams, RecordEvent(e, s) PROVE AllStaged(str')
  BY <1>0, <1>2, RecordLonger, StagedCommitSet
<1>3. CASE \E s \in Streams : \/ (\E nb \in BOOLEAN : CreateStream(s, nb)) \/ DestroyStream(s)
                              \/ \E needs \in SpinChoices : Launch(s, needs)
                              \/ LaunchRefused(s) \/ LaunchHostFunc(s) \/ QueryStream(s) \/ SyncStream(s)
  <2> PICK s \in Streams : \/ (\E nb \in BOOLEAN : CreateStream(s, nb)) \/ DestroyStream(s)
                           \/ \E needs \in SpinChoices : Launch(s, needs)
                           \/ LaunchRefused(s) \/ LaunchHostFunc(s) \/ QueryStream(s) \/ SyncStream(s)
    BY <1>3
  <2>1. CASE LaunchRefused(s) \/ QueryStream(s) \/ SyncStream(s)
    BY <2>1, FlushAllStaged DEF LaunchRefused, QueryStream, SyncStream, Await
  <2> QED BY <1>1, <2>1, CreateStaged, LaunchStaged, LaunchHostFuncStaged
<1>4. CASE \E e \in Events : \/ (\E t \in BOOLEAN : CreateEvent(e, t)) \/ DestroyEvent(e)
                             \/ \E s \in Streams : RecordEvent(e, s) \/ StreamWaitEvent(s, e)
                             \/ QueryEvent(e) \/ SyncEvent(e)
  <2> PICK e \in Events : \/ (\E t \in BOOLEAN : CreateEvent(e, t)) \/ DestroyEvent(e)
                          \/ \E s \in Streams : RecordEvent(e, s) \/ StreamWaitEvent(s, e)
                          \/ QueryEvent(e) \/ SyncEvent(e)
    BY <1>4
  <2>1. CASE (\E t \in BOOLEAN : CreateEvent(e, t)) \/ DestroyEvent(e)
    BY <2>1 DEF CreateEvent, DestroyEvent
  <2>2. CASE QueryEvent(e) \/ SyncEvent(e)
    BY <2>2, FlushAllStaged DEF QueryEvent, SyncEvent
  <2> QED BY <1>2, <2>1, <2>2, WaitEventStaged
<1>5. CASE SyncDevice
  BY <1>5, FlushAllStaged DEF SyncDevice, Await
<1> QED BY <1>3, <1>4, <1>5 DEF Call

LEMMA CopyStaged ==
  ASSUME EInv, AllStaged(str), CopyStep
  PROVE  AllStaged(str')
<1>0. IInv
  BY DEF EInv
<1>1. ASSUME NEW s \in Streams, NEW staging, Blits(s, staging) PROVE AllStaged(str')
  <2> DEFINE O == Open(str, s)
             item == BlitItem(CO!NewOp, staging)
  <2>1. /\ Good(O) /\ item \in Item /\ \A p \in Streams \ {s} : str'[p] = O[p]
        /\ str'[s].body = Append(O[s].body, item) /\ str'[s].sent = O[s].sent
        /\ str'[s].keep = O[s].keep \cup staging /\ str'[s].retired = O[s].retired
    BY <1>0, <1>1, BlitsView
  <2>2. AllStaged(O) /\ item.staging = staging
    BY <1>0, StagedOpen DEF BlitItem
  <2>3. O[s] \in Stream /\ Staged(O[s])
    BY <2>1, <2>2 DEF Good, AllStaged
  <2> HIDE DEF O, item
  <2>4. O[s].keep \subseteq str'[s].keep /\ item.staging \subseteq str'[s].keep
    BY <2>1, <2>2
  <2> DEFINE c == str'[s]
  <2>5. c.body = Append(O[s].body, item) /\ c.sent = O[s].sent /\ c.retired = O[s].retired
        /\ O[s].keep \subseteq c.keep /\ item.staging \subseteq c.keep
    BY <2>1, <2>4
  <2> HIDE DEF c
  <2>6. Staged(c)
    BY <2>1, <2>3, <2>5, StagedEncode
  <2> QED BY <2>1, <2>2, <2>6 DEF AllStaged, c
<1>2. ASSUME NEW then, NEW s \in Streams, Waits(then, s) PROVE AllStaged(str')
  BY <1>2, FlushAllStaged DEF Waits, Await
<1> QED BY <1>1, <1>2, CopyStill

LEMMA GpuStaged ==
  ASSUME EInv, AllStaged(str), NEW s \in Streams, NEW i \in Buffers(s), NEW b, Moves(s, i, b)
  PROVE  AllStaged(str')
<1> DEFINE a == str[s].sent[i]
           c == [str[s] EXCEPT !.sent = [str[s].sent EXCEPT ![i] = b]]
<1>1. /\ str \in [Streams -> Stream] /\ str[s] \in Stream /\ Own(str[s]) /\ Staged(str[s])
      /\ a \in CmdBuf /\ i \in DOMAIN str[s].sent
  BY BufferType DEF EInv, IInv, Good, AllStaged, Buffers
<1>2. str' = [str EXCEPT ![s] = c] /\ b \in CmdBuf /\ b.body = a.body /\ b.at >= a.at
      /\ (b.status = "committed" => a.status = "committed")
  BY DEF Moves
<1>3. /\ c.body = str[s].body /\ c.keep = str[s].keep /\ c.retired = str[s].retired
      /\ c.sent = [str[s].sent EXCEPT ![i] = b]
  BY <1>1 DEF Stream
<1>4. b.value = a.value
  BY DEF Moves
<1> HIDE DEF c
<1>5. Alive(a, str[s].retired) /\ a.at \in Nat /\ b.at \in Nat /\ Len(a.body) \in Nat
  BY <1>1, <1>2, ItemTypes DEF Staged
<1> HIDE DEF a
<1>6. Alive(b, str[s].retired)
  <2>1. \A k \in (b.at + 1)..Len(b.body) : k \in (a.at + 1)..Len(a.body)
    BY <1>2, <1>5
  <2> QED BY <1>2, <1>4, <1>5, <2>1 DEF Alive
<1>7. Staged(c)
  BY <1>1, <1>3, <1>6 DEF Staged
<1> QED BY <1>1, <1>2, <1>7, StagedReplace

(* keepalive, retired: a staging buffer outlives the copy that reads it,   *)
(* for any programs that destroy no stream and any thresholds, faults and  *)
(* time-outs: what a new command buffer lets go of belongs to buffers that *)
(* have signalled.                                                         *)
THEOREM StagingAliveHolds ==
  ASSUME ~WaitsVisible
  PROVE  CopySpec /\ []NoneGone => []StagingAlive
<1>1. Init => StagingAlive
  <2> SUFFICES ASSUME Init PROVE AllStaged(str)
    BY StagingStaged
  <2> SUFFICES ASSUME NEW s \in Streams PROVE Staged(str[s])
    BY DEF AllStaged
  <2>1. str[s] \in {NewStream("live", FALSE), NewStream("new", FALSE)}
    BY DEF Init
  <2>2. str[s].body = <<>> /\ str[s].sent = <<>>
    BY <2>1 DEF NewStream
  <2> QED BY <2>2 DEF Staged
<1>2. StagingAlive /\ EInv /\ [CopyNext]_vars /\ NoneGone' => StagingAlive'
  <2> SUFFICES ASSUME AllStaged(str), EInv, [CopyNext]_vars, NoneGone' PROVE AllStaged(str')
    BY StagingStaged DEF StagingAlive, AllStaged, Staged, Alive, Buffers
  <2>1. IInv
    BY DEF EInv
  <2>2. CASE CopyStep
    BY <2>2, CopyStaged
  <2>3. ASSUME NEW s \in Streams, NEW i \in Buffers(s),
               GpuStep(s, i) \/ GpuSignal(s, i) \/ GpuComplete(s, i) \/ HandlerRuns(s, i) \/ GpuFault(s, i)
        PROVE  AllStaged(str')
    BY <2>3, GpuMoves, GpuStaged
  <2>4. CASE HostProgress \/ WaitTimesOut \/ UNCHANGED vars
    BY <2>4 DEF HostProgress, AwaitReturns, EventAwaitReturns, EntryReturns, WaitTimesOut, vars
  <2> QED BY <2>1, <2>2, <2>3, <2>4, CopyNextSteps, CallStaged DEF Next, Gpu
<1>3. CopySpec => []EInv
  BY CopyEInvHolds, PTL
<1> QED BY <1>1, <1>2, <1>3, PTL DEF CopySpec

-----------------------------------------------------------------------------
(* The order of each stream's work *)

OP == INSTANCE CudaOrderProofs WITH blocking <- Blocking

LEMMA OrderAssumed == OP!OrderAssumption
  BY StreamsAssumption DEF OP!OrderAssumption

LEMMA SameOrder ==
  ASSUME NEW s
  PROVE  (CO!Logged(s) <=> OP!Logged(s)) /\ CO!NewOp = OP!NewOp
  BY DEF CO!Logged, OP!Logged, CO!NewOp, OP!NewOp, CO!After, OP!After, CO!Front, OP!Front,
         CO!Seen, OP!Seen, CO!Peers, OP!Peers

(* An operation of s is in a buffer of s, or in a completion handler.      *)
OwnPlace(T, s, o) ==
  Queues(BufsOf(T), s, o) \/ \E j \in DOMAIN T[s].sent : T[s].sent[j].handler.op = o
Placed(T, L, D) == \A o \in DOMAIN L : o \in D \/ OwnPlace(T, L[o].stream, o)

LEMMA PlaceStays ==
  ASSUME NEW T, NEW U, Longer(T, U), NEW s \in Streams, NEW o, OwnPlace(T, s, o)
  PROVE  OwnPlace(U, s, o)
<1>1. CASE Queues(BufsOf(T), s, o)
  BY <1>1, QueuesExt DEF Longer, OwnPlace
<1>2. ASSUME NEW j \in DOMAIN T[s].sent, T[s].sent[j].handler.op = o PROVE OwnPlace(U, s, o)
  BY <1>2 DEF Longer, Kept, KeptSt, OwnPlace
<1> QED BY <1>1, <1>2 DEF OwnPlace

LEMMA LogStreams == ASSUME IInv, NEW o \in DOMAIN log PROVE log[o].stream \in Streams
<1> DEFINE Entry == [stream : Streams, after : SUBSET Nat]
<1>1. log \in Seq(Entry)
  BY DEF IInv, Hist_OK
<1> HIDE DEF Entry
<1>2. log[o] \in Entry
  BY <1>1
<1> QED BY <1>2 DEF Entry

LEMMA PlacedStays ==
  ASSUME IInv, Longer(str, str'), Placed(str, log, done), UNCHANGED log, done \subseteq done'
  PROVE  Placed(str, log, done)'
<1> SUFFICES ASSUME NEW o \in DOMAIN log, o \notin done' PROVE OwnPlace(str', log[o].stream, o)
  BY DEF Placed
<1>1. OwnPlace(str, log[o].stream, o)
  BY DEF Placed
<1>2. log[o].stream \in Streams
  BY LogStreams
<1> QED BY <1>1, <1>2, PlaceStays

LEMMA PlacedIssue ==
  ASSUME IInv, Longer(str, str'), Placed(str, log, done), NEW s \in Streams, CO!Logged(s),
         done \subseteq done', CO!NewOp \in done' \/ OwnPlace(str', s, CO!NewOp)
  PROVE  Placed(str, log, done)'
<1>1. /\ DOMAIN log' = DOMAIN log \cup {CO!NewOp} /\ log'[CO!NewOp].stream = s
      /\ \A o \in DOMAIN log : log'[o] = log[o]
  <2> DEFINE entry == [stream |-> s, after |-> CO!After(s)]
  <2>1. log \in Seq([stream : Streams, after : SUBSET Nat]) /\ log' = Append(log, entry)
    BY DEF IInv, Hist_OK, CO!Logged
  <2>2. entry.stream = s
    OBVIOUS
  <2> HIDE DEF entry
  <2>3. /\ DOMAIN log = 1..Len(log) /\ Len(log) \in Nat /\ DOMAIN log' = 1..(Len(log) + 1)
        /\ log'[Len(log) + 1] = entry /\ \A o \in 1..Len(log) : log'[o] = log[o]
    BY <2>1
  <2>4. 1..(Len(log) + 1) = (1..Len(log)) \cup {Len(log) + 1}
    BY <2>3
  <2> QED BY <2>2, <2>3, <2>4 DEF CO!NewOp
<1> SUFFICES ASSUME NEW o \in DOMAIN log', o \notin done' PROVE OwnPlace(str', log'[o].stream, o)
  BY DEF Placed
<1>2. CASE o \in DOMAIN log
  <2>1. OwnPlace(str, log[o].stream, o)
    BY <1>2 DEF Placed
  <2>2. log[o].stream \in Streams
    BY <1>2, LogStreams
  <2> QED BY <1>1, <1>2, <2>1, <2>2, PlaceStays
<1>3. CASE o = CO!NewOp
  BY <1>1, <1>3
<1> QED BY <1>1, <1>2, <1>3

LEMMA AppendedPlace ==
  ASSUME NEW T, Good(T), NEW s \in Streams, T[s].open, NEW item \in Item, NEW U,
         Appended(T[s], U[s], item), \A p \in Streams \ {s} : U[p] = T[p]
  PROVE  OwnPlace(U, s, item.op)
<1> DEFINE C == BufsOf(U)
           r == Reach(T[s])
           n == Len(BufsOf(T)[s][r])
<1>1. /\ r \in Nat \ {0} /\ DOMAIN C[s] = 1..r /\ n \in Nat
      /\ DOMAIN C[s][r] = 1..(n + 1) /\ C[s][r][n + 1] = item
  BY AppendedBufs
<1> HIDE DEF r, n, C
<1>2. r \in DOMAIN C[s] /\ n + 1 \in DOMAIN C[s][r]
  BY <1>1
<1> QED BY <1>1, <1>2 DEF Queues, InBuf, OwnPlace, C

LEMMA HandedPlace ==
  ASSUME NEW U, Good(U), NEW s \in Streams, NEW st \in Stream, Own(st), st.open, NEW h, Handed(st, U[s], h)
  PROVE  OwnPlace(U, s, h.op)
<1> DEFINE r == Reach(U[s])
<1>1. U[s] \in Stream /\ Own(U[s]) /\ ~U[s].open /\ Reach(U[s]) = Reach(st)
  BY DEF Good, Handed
<1>2. r \in DOMAIN U[s].sent
  <2>1. r = U[s].fenceValue /\ DOMAIN U[s].sent = 1..U[s].fenceValue /\ r \in Nat
    BY <1>1, SentFacts
  <2>2. r > 0
    BY <1>1, SentFacts
  <2> HIDE DEF r
  <2> QED BY <2>1, <2>2
<1>3. Hnds(U[s])[r] = h
  <2>1. DOMAIN Hnds(st) = 1..Reach(st) /\ Reach(st) \in 1..Reach(st)
    BY ViewFacts, SentFacts
  <2> QED BY <1>1, <2>1 DEF Handed
<1>4. U[s].sent[r].handler = h
  BY <1>1, <1>2, <1>3, ViewFacts
<1> HIDE DEF r
<1> QED BY <1>2, <1>4 DEF OwnPlace

LEMMA CallPlaced ==
  ASSUME IInv, IInv', Placed(str, log, done), Call
  PROVE  Placed(str, log, done)'
<1>0. Longer(str, str') /\ done' = done
  BY CallHost DEF CallShape, CallEnds
<1>1. ASSUME NEW s \in Streams, NEW needs, Launch(s, needs) PROVE Placed(str, log, done)'
  <2>1. Good(str) /\ signal \in [Fence -> Nat] /\ str[s].state = "live" /\ CO!Logged(s)
    BY <1>1 DEF IInv, Launch, On, CO!Issue
  <2>2. ASSUME NEW O, O = Open(str, s), NEW item, item = KernelItem(CO!NewOp, needs)
        PROVE  OwnPlace(str', s, CO!NewOp)
    <3>1. Good(O) /\ O[s].open
      BY <2>1, <2>2, OpenGood
    <3>2. /\ item \in Item /\ item.op = CO!NewOp /\ Appended(O[s], str'[s], item)
          /\ \A p \in Streams \ {s} : str'[p] = O[p]
      BY <1>1, <2>2, LaunchView
    <3> QED BY <3>1, <3>2, AppendedPlace
  <2> QED BY <1>0, <2>1, <2>2, PlacedIssue
<1>2. ASSUME NEW s \in Streams, LaunchHostFunc(s) PROVE Placed(str, log, done)'
  <2>1. Good(str) /\ signal \in [Fence -> Nat] /\ str[s].state = "live" /\ CO!Logged(s) /\ Good(str')
    BY <1>2 DEF IInv, LaunchHostFunc, On, CO!IssueHost
  <2>2. ASSUME NEW O, O = Open(str, s), NEW h, h = [op |-> CO!NewOp, value |-> str[s].hostValue + 1]
        PROVE  OwnPlace(str', s, CO!NewOp)
    <3>1. O[s] \in Stream /\ Own(O[s]) /\ O[s].open
      BY <2>1, <2>2, OpenGood DEF Good
    <3>2. Handed(O[s], str'[s], h) /\ h.op = CO!NewOp
      BY <1>2, <2>2, LaunchHostFuncView
    <3> QED BY <2>1, <3>1, <3>2, HandedPlace
  <2> QED BY <1>0, <2>1, <2>2, PlacedIssue
<1>3. ASSUME ~\E s \in Streams : LaunchHostFunc(s) \/ \E needs : Launch(s, needs)
      PROVE  UNCHANGED log
  BY <1>3 DEF Call, CreateStream, DestroyStream, LaunchRefused, RecordEvent, StreamWaitEvent, CreateEvent,
     DestroyEvent, QueryStream, QueryEvent, SyncStream, SyncEvent, SyncDevice, Await, CO!Record, CO!Wait, hist
<1> QED BY <1>0, <1>1, <1>2, <1>3, PlacedStays

LEMMA GpuPlaced ==
  ASSUME IInv, Placed(str, log, done), NEW s \in Streams, NEW i \in Buffers(s),
         GpuStep(s, i) \/ GpuSignal(s, i) \/ GpuComplete(s, i) \/ HandlerRuns(s, i) \/ GpuFault(s, i)
  PROVE  Placed(str, log, done)'
<1> DEFINE a == str[s].sent[i]
<1>1. a \in CmdBuf /\ i \in DOMAIN str[s].sent
  BY BufferType DEF Buffers
<1>2. /\ UNCHANGED log /\ done \subseteq done'
      /\ \E b \in CmdBuf :
           /\ str' = [str EXCEPT ![s] = [str[s] EXCEPT !.sent = [str[s].sent EXCEPT ![i] = b]]]
           /\ b.body = a.body /\ (b.handler = a.handler \/ a.handler.op \in done')
  <2>1. ASSUME NEW n, n = a.at + 1, GpuStep(s, i)
        PROVE  /\ [a EXCEPT !.at = n] \in CmdBuf /\ [a EXCEPT !.at = n].body = a.body
               /\ [a EXCEPT !.at = n].handler = a.handler
    BY <1>1, <2>1 DEF CmdBuf
  <2>2. ASSUME NEW status \in {"signalled", "completed", "error"}
        PROVE  /\ [a EXCEPT !.status = status] \in CmdBuf /\ [a EXCEPT !.status = status].body = a.body
               /\ [a EXCEPT !.status = status].handler = a.handler
    BY <1>1 DEF CmdBuf
  <2>3. [a EXCEPT !.handler = NoHandler] \in CmdBuf /\ [a EXCEPT !.handler = NoHandler].body = a.body
    BY <1>1, NoHandlerType DEF CmdBuf
  <2>4. CASE GpuStep(s, i)
    BY <2>1, <2>4 DEF GpuStep
  <2>5. CASE GpuSignal(s, i)
    BY <2>2, <2>5 DEF GpuSignal, hist
  <2>6. CASE GpuComplete(s, i)
    BY <2>2, <2>6 DEF GpuComplete, hist
  <2>7. CASE GpuFault(s, i)
    BY <2>2, <2>7 DEF GpuFault, hist
  <2>8. CASE HandlerRuns(s, i)
    BY <2>3, <2>8 DEF HandlerRuns, Handles
  <2> QED BY <2>4, <2>5, <2>6, <2>7, <2>8
<1>3. PICK b \in CmdBuf :
        /\ str' = [str EXCEPT ![s] = [str[s] EXCEPT !.sent = [str[s].sent EXCEPT ![i] = b]]]
        /\ b.body = a.body /\ (b.handler = a.handler \/ a.handler.op \in done')
  BY <1>2
<1>4. BufsOf(str') = BufsOf(str) /\ Replaced(s, i, b)
  BY <1>3, BufferView
<1> HIDE DEF a
<1> SUFFICES ASSUME NEW o \in DOMAIN log, o \notin done' PROVE OwnPlace(str', log[o].stream, o)
  BY <1>2 DEF Placed
<1>5. OwnPlace(str, log[o].stream, o) /\ log[o].stream \in Streams
  BY <1>2, LogStreams DEF Placed
<1>6. ASSUME NEW p \in Streams, NEW j \in DOMAIN str[p].sent, str[p].sent[j].handler.op = o
      PROVE  j \in DOMAIN str'[p].sent /\ str'[p].sent[j].handler.op = o
  BY <1>3, <1>4, <1>6 DEF Replaced, a
<1> QED BY <1>4, <1>5, <1>6 DEF OwnPlace

LEMMA CopyPlaced ==
  ASSUME IInv, IInv', Placed(str, log, done), CopyStep
  PROVE  Placed(str, log, done)'
<1>1. ASSUME NEW s \in Streams, NEW staging, Blits(s, staging) PROVE Placed(str, log, done)'
  <2>1. CO!Logged(s) /\ UNCHANGED done
    BY <1>1 DEF Blits, CO!Issue
  <2>2. ASSUME NEW O, O = Open(str, s), NEW item, item = BlitItem(CO!NewOp, staging)
        PROVE  OwnPlace(str', s, CO!NewOp) /\ Longer(str, str')
    <3>1. /\ item \in Item /\ Appended(O[s], str'[s], item) /\ Good(O) /\ O[s].open
          /\ \A p \in Streams \ {s} : str'[p] = O[p]
          /\ Longer(str, str')
      BY <1>1, <2>2, BlitsView
    <3>2. item.op = CO!NewOp
      BY <2>2 DEF BlitItem
    <3> QED BY <3>1, <3>2, AppendedPlace
  <2> QED BY <2>1, <2>2, PlacedIssue
<1>2. ASSUME NEW s \in Streams, CopiesNow(s) PROVE Placed(str, log, done)'
  <2>1. CO!Logged(s) /\ done' = done \cup {CO!NewOp} /\ str' = str
    BY <1>2 DEF CopiesNow, CpuOp
  <2>2. Longer(str, str')
    BY <2>1, LongerRefl
  <2> QED BY <2>1, <2>2, PlacedIssue
<1>3. CASE UNCHANGED <<str, hist>>
  BY <1>3 DEF Placed, hist
<1>4. ASSUME NEW then, NEW s \in Streams, Waits(then, s) PROVE Placed(str, log, done)'
  <2>1. Longer(str, str') /\ UNCHANGED hist
    BY <1>4, FlushAllLonger DEF Waits, Await
  <2> QED BY <2>1, PlacedStays DEF hist
<1>5. ASSUME NEW s \in Streams, HostWrites(s) PROVE Placed(str, log, done)'
  <2>1. UNCHANGED str /\ done' = done \cup {CO!NewOp}
    BY <1>5 DEF HostWrites, HostOp
  <2>2. DOMAIN log' = DOMAIN log \cup {CO!NewOp} /\ \A o \in DOMAIN log : log'[o] = log[o]
    BY <1>5, HostOpLog DEF HostWrites
  <2> SUFFICES ASSUME NEW o \in DOMAIN log', o \notin done' PROVE OwnPlace(str, log'[o].stream, o)
    BY <2>1 DEF Placed
  <2>3. o \in DOMAIN log /\ o \notin done /\ log'[o] = log[o]
    BY <2>1, <2>2
  <2> QED BY <2>3 DEF Placed
<1> QED BY <1>1, <1>2, <1>3, <1>4, <1>5 DEF CopyStep, EndsStill, SkipsWait

LEMMA NextPlaced ==
  ASSUME EInv, IInv', Placed(str, log, done), [CopyNext]_vars
  PROVE  Placed(str, log, done)'
<1>1. IInv
  BY DEF EInv
<1>2. CASE CopyStep
  BY <1>1, <1>2, CopyPlaced
<1>3. CASE HostProgress \/ WaitTimesOut \/ UNCHANGED vars
  <2>1. UNCHANGED <<str, hist>>
    BY <1>3 DEF HostProgress, AwaitReturns, EventAwaitReturns, EntryReturns, WaitTimesOut, vars
  <2> QED BY <2>1 DEF Placed, hist
<1> QED BY <1>1, <1>2, <1>3, CopyNextSteps, CallPlaced, GpuPlaced DEF Next, Gpu

(* A completion handler that has not run holds the host fence below the    *)
(* last value promised on it; and the next buffer waits for it, or the     *)
(* next one that is opened will.                                           *)
LEMMA ReachedHandlers ==
  ASSUME IInv, HostFences(str), NEW s \in Streams, str[s].hostValue <= signal[Host(s)], NEW j \in DOMAIN str[s].sent
  PROVE  str[s].sent[j].handler.op = 0
<1>1. str[s] \in Stream /\ Own(str[s]) /\ signal[Host(s)] \in Nat /\ str[s].hostValue \in Nat
  BY FenceTypes, StreamFields DEF IInv, Good
<1>2. j \in DOMAIN Hnds(str[s]) /\ Hnds(str[s])[j] = str[s].sent[j].handler
      /\ Hnds(str[s])[j].value \in Nat
  BY <1>1, ViewFacts, HandlerViewType
<1>3. Hnds(str[s])[j].op # 0 =>
        signal[Host(s)] < Hnds(str[s])[j].value /\ Hnds(str[s])[j].value <= str[s].hostValue
  BY <1>2 DEF HostFences, HostFence
<1> QED BY <1>1, <1>2, <1>3

LEMMA IdleHandlers ==
  ASSUME OInv, NoErrors, NEW s \in Streams, Idle(str[s]), str[s].state = "live", NEW j \in DOMAIN str[s].sent
  PROVE  str[s].sent[j].handler.op = 0
<1> DEFINE h == str[s].sent[j].handler
           w == <<Host(s), h.value>>
<1>0. EInv /\ IInv /\ HostFences(str) /\ HostWaited
  BY DEF OInv, EInv, InOrder
<1>1. str[s] \in Stream /\ Own(str[s]) /\ signal[Host(s)] \in Nat /\ signal[Dev(s)] \in Nat
  BY <1>0, FenceTypes DEF IInv, Good
<1>2. j \in DOMAIN Hnds(str[s]) /\ Hnds(str[s])[j] = h /\ h.value \in Nat
  BY <1>0, <1>1, ViewFacts, HandlerViewType
<1> HIDE DEF h
<1> SUFFICES ASSUME h.op # 0 PROVE FALSE
  BY DEF h
<1>3. /\ signal[Host(s)] < h.value
      /\ j + 1 \in DOMAIN Bufs(str[s]) => w \in Bufs(str[s])[j + 1][1].waits
      /\ j + 1 \notin DOMAIN Bufs(str[s]) => w \in str[s].pending
  BY <1>0, <1>2 DEF HostFences, HostFence
<1>4. str[s].pending = {} /\ ~str[s].open /\ Answered(s)
  BY <1>0, IdleAnswered DEF Idle
<1>5. j + 1 \in DOMAIN Bufs(str[s]) /\ w \in Bufs(str[s])[j + 1][1].waits
  BY <1>3, <1>4
<1>6. j + 1 \in Buffers(s) /\ j + 1 <= signal[Dev(s)]
  <2>1. DOMAIN Bufs(str[s]) = 1..str[s].fenceValue /\ DOMAIN str[s].sent = 1..str[s].fenceValue
        /\ str[s].fenceValue \in Nat
    BY <1>1, <1>4, ViewFacts, SentFacts
  <2> QED BY <1>1, <1>4, <1>5, <2>1 DEF Answered, Buffers
<1> DEFINE b == str[s].sent[j + 1]
<1>7. Bufs(str[s])[j + 1] = b.body /\ b \in CmdBuf
  BY <1>0, <1>6, BufferIs, BufferType DEF BufsOf
<1>8. b.at = Len(b.body)
  BY <1>0, <1>6 DEF EInv, Executed, BufSignalled, Buffers
<1>9. 1 \in 1..b.at
  <2>1. b.body # <<>>
    BY <1>0, <1>5, <1>7 DEF EInv, Chained, BufsOf
  <2>2. b.body \in Seq(Item)
    BY <1>7 DEF CmdBuf
  <2> HIDE DEF b
  <2>3. Len(b.body) \in Nat /\ Len(b.body) # 0
    BY <2>1, <2>2
  <2> QED BY <1>8, <2>3
<1>10. signal[w[1]] >= w[2]
  BY <1>0, <1>5, <1>6, <1>7, <1>9, ExecutedItem
<1> QED BY <1>1, <1>2, <1>3, <1>10

(* A stream whose wait ended well and whose handlers have run is finished. *)
LEMMA OwnDone ==
  ASSUME EInv, Placed(str, log, done), NEW s \in Streams, Answered(s),
         \A j \in DOMAIN str[s].sent : str[s].sent[j].handler.op = 0,
         NEW p \in DOMAIN log, log[p].stream = s
  PROVE  p \in done
<1>1. str[s] \in Stream /\ Own(str[s]) /\ signal[Dev(s)] \in Nat /\ log \in Seq([stream : Streams, after : SUBSET Nat])
  BY FenceTypes DEF EInv, IInv, Good, Hist_OK
<1>2. p # 0
  <2>1. DOMAIN log = 1..Len(log)
    BY <1>1
  <2> QED BY <2>1
<1> SUFFICES ASSUME p \notin done PROVE FALSE
  OBVIOUS
<1>3. Queues(BufsOf(str), s, p)
  BY <1>2 DEF Placed, OwnPlace
<1>4. Reach(str[s]) = str[s].fenceValue /\ Reach(str[s]) \in Nat /\ DOMAIN BufsOf(str)[s] = 1..Reach(str[s])
  BY <1>1, SentFacts, ViewFacts DEF BufsOf, Answered
<1>5. Holds(BufsOf(str), s, Reach(str[s]), p)
  BY <1>3, <1>4 DEF Queues, Holds
<1> QED BY <1>1, <1>2, <1>4, <1>5, ReachedDone DEF Answered

(* A copy to pageable memory on the legacy stream is one of its own work.  *)
OnLegacy == host.then = "syncOut" => host.on = Legacy

(* A copy that waited for its stream is made only when the host functions  *)
(* queued on that stream have run, for which the wait does not wait.       *)
HostFunctionsRan == WaitedOut => str[host.on].hostValue <= signal[Host(host.on)]

LEMMA CopiesNowFinished ==
  ASSUME WInv, OInv, Placed(str, log, done), OnLegacy, HostFunctionsRan,
         NEW s \in Streams, CopiesNow(s), NEW p \in DOMAIN log, log[p].stream = s
  PROVE  p \in done
<1>0. EInv /\ IInv /\ NoErrors /\ HostFences(str)
  BY DEF OInv, EInv, InOrder, WInv
<1>1. CASE Idle(str[s]) /\ str[s].state = "live"
  <2>1. Answered(s)
    BY <1>0, <1>1, IdleAnswered
  <2>2. \A j \in DOMAIN str[s].sent : str[s].sent[j].handler.op = 0
    BY <1>0, <1>1, IdleHandlers
  <2> QED BY <1>0, <2>1, <2>2, OwnDone
<1>2. CASE WaitedOut /\ s = host.on
  <2>1. Answered(s)
    <3>1. WaitedWell /\ host.todo = {}
      BY <1>2 DEF WaitedOut, WaitedWell, Awaited
    <3>2. s \in Due(str, host.then, host.on)
      <4>1. CASE host.then = "copyOut"
        BY <1>2, <4>1 DEF Due
      <4>2. CASE host.then = "syncOut"
        <5>1. s = Legacy /\ str[Legacy].state = "live" /\ ~str[Legacy].nonBlocking
          BY <1>0, <1>2, <4>2 DEF OnLegacy, IInv, Good
        <5> QED BY <4>2, <5>1 DEF Due, SyncKinds, LiveStreams
      <4> QED BY <1>2, <4>1, <4>2 DEF WaitedOut
    <3> QED BY <3>1, <3>2 DEF WInv, DueAnswered
  <2>2. \A j \in DOMAIN str[s].sent : str[s].sent[j].handler.op = 0
    BY <1>0, <1>2, ReachedHandlers DEF HostFunctionsRan
  <2> QED BY <1>0, <2>1, <2>2, OwnDone
<1> QED BY <1>1, <1>2 DEF CopiesNow

LEMMA OnLegacyStays ==
  ASSUME IInv, EInv, OnLegacy, [CopyNext]_vars
  PROVE  OnLegacy'
<1>1. CASE CopyStep
  <2>1. CASE host' = Idling
    BY <2>1 DEF OnLegacy, Idling
  <2>2. ASSUME NEW then, NEW s \in Streams, Waits(then, s) PROVE OnLegacy'
    BY <2>2, WaitsHost DEF Waits, OnLegacy
  <2>3. ASSUME NEW then, SkipsWait(then) PROVE OnLegacy'
    BY <2>3 DEF SkipsWait, OnLegacy, Idling
  <2> QED BY <1>1, <2>1, <2>2, <2>3 DEF CopyStep, Blits, CopiesNow, HostWrites, EndsStill, CopyEnds
<1>2. CASE Call
  BY <1>2, CallHost DEF CallShape, CallEnds, OnLegacy
<1>3. CASE HostProgress \/ WaitTimesOut
  <2>1. host \in HostState
    BY DEF IInv, Host_OK
  <2>2. ASSUME NEW s \in Streams, AwaitReturns(s) \/ StreamTimesOut(s)
        PROVE  host'.then = host.then /\ host'.on = host.on
    BY <2>1, <2>2 DEF AwaitReturns, StreamTimesOut, HostState
  <2>3. ASSUME NEW e \in Events, EventAwaitReturns(e) \/ EventTimesOut(e)
        PROVE  host'.then = host.then /\ host'.on = host.on
    BY <2>1, <2>3 DEF EventAwaitReturns, EventTimesOut, HostState
  <2>4. CASE EntryReturns
    BY <2>4 DEF EntryReturns, Idling, OnLegacy
  <2> QED BY <1>3, <2>2, <2>3, <2>4 DEF HostProgress, WaitTimesOut, OnLegacy
<1>4. CASE Gpu \/ (\E s \in Streams : \E i \in Buffers(s) : GpuFault(s, i)) \/ UNCHANGED vars
  BY <1>4, GpuMoves DEF Gpu, Moves, vars, OnLegacy
<1>5. [Next]_vars \/ CopyStep
  BY CopyNextSteps
<1> QED BY <1>1, <1>2, <1>3, <1>4, <1>5 DEF Next

LEMMA DoneOInv ==
  ASSUME OInv, EInv', Positive', UNCHANGED <<str, signal>>, done \subseteq done', Prefix(log, log'),
         \A p \in Streams : joins'[p] \subseteq joins[p]
  PROVE  OInv' /\ SameStreams
<1>0. IInv /\ InOrder(str) /\ Positive /\ HostWaited /\ Unused
  BY DEF OInv, EInv
<1>1. str' = str /\ done \subseteq done' /\ Prefix(log, log')
  OBVIOUS
<1> DEFINE B == BufsOf(str)
           H == HndsOf(str)
<1>2. ListsOrdered(B, H, log', done')
  <2>1. Ext(B, B) /\ HandlersStay(H, H, done')
    BY ExtRefl, StayRefl
  <2>2. ListsOrdered(B, H, log, done) /\ \A o \in DOMAIN log : 0 \notin log[o].after
    BY <1>0 DEF InOrder, Positive
  <2> HIDE DEF B, H
  <2> QED BY <1>1, <2>1, <2>2, ListsStay
<1>3. \A p \in Streams : joins'[p] \subseteq joins[p]
  OBVIOUS
<1>4. JoinsQueued(str, joins', done')
  BY <1>0, <1>1, <1>3 DEF InOrder, JoinsQueued
<1>5. InOrder(str)'
  BY <1>0, <1>1, <1>2, <1>4 DEF InOrder, WaitedKept, OpenAlone, LegacyPeers, LiveStreams, HostFences
<1>6. HostWaited' /\ Unused' /\ SameStreams
  <2>1. HostWaited'
    BY <1>0, <1>1 DEF HostWaited
  <2>2. Unused'
    BY <1>0, <1>1, <1>3 DEF Unused
  <2> QED BY <1>1, <2>1, <2>2 DEF SameStreams
<1> QED BY <1>5, <1>6 DEF OInv

LEMMA CopyOInv ==
  ASSUME OInv, EInv', Positive', ~WaitsVisible, CopyStep
  PROVE  OInv' /\ SameStreams
<1>0. IInv /\ EInv
  BY DEF OInv, EInv
<1>1. ASSUME NEW s \in Streams, NEW staging, Blits(s, staging) PROVE OInv' /\ SameStreams
  <2>1. str[s].state = "live" /\ UNCHANGED signal /\ CO!Issue(s)
    BY <1>1 DEF Blits, CopyEnds
  <2>2. ASSUME NEW O, O = Open(str, s), NEW item, item = BlitItem(CO!NewOp, staging)
        PROVE  OInv' /\ SameStreams
    <3>1. /\ item \in Item /\ Appended(O[s], str'[s], item) /\ Good(O) /\ O[s].open
          /\ \A p \in Streams \ {s} : str'[p] = O[p]
          /\ Longer(O, str')
      BY <1>0, <1>1, <2>2, BlitsView
    <3>2. item.op = CO!NewOp
      BY <2>2 DEF BlitItem
    <3> QED BY <2>1, <2>2, <3>1, <3>2, IssueOInv
  <2> QED BY <2>2
<1>2. ASSUME NEW s \in Streams, CopiesNow(s) PROVE OInv' /\ SameStreams
  <2>1. UNCHANGED <<str, signal>> /\ done \subseteq done' /\ joins' = [joins EXCEPT ![s] = {}]
    BY <1>2 DEF CopiesNow, CopyEnds, CpuOp
  <2>2. Prefix(log, log')
    BY <1>0, <1>2, LogGrows DEF CopiesNow, CpuOp
  <2>3. joins \in [Streams -> SUBSET Nat]
    BY <1>0 DEF IInv, Hist_OK
  <2>4. \A p \in Streams : joins'[p] \subseteq joins[p]
    BY <2>1, <2>3
  <2> QED BY <2>1, <2>2, <2>4, DoneOInv
<1>3. CASE EndsStill \/ \E then : SkipsWait(then)
  BY <1>3, StillOInv DEF EndsStill, CopyEnds, SkipsWait
<1>4. ASSUME NEW then, NEW s \in Streams, Waits(then, s) PROVE OInv' /\ SameStreams
  <2>1. str' = CommitSet(str, LiveStreams(str)) /\ UNCHANGED <<signal, log, joins, done>>
    BY <1>4 DEF Waits, Await, CommitAll, hist
  <2> QED BY <2>1, CommitsOInv
<1>5. ASSUME NEW s \in Streams, HostWrites(s) PROVE OInv' /\ SameStreams
  <2>1. UNCHANGED <<str, signal, joins>> /\ done \subseteq done'
    BY <1>5 DEF HostWrites, CopyEnds, HostOp
  <2>2. Prefix(log, log')
    BY <1>0, <1>5, HostOpLog DEF HostWrites, Prefix
  <2> QED BY <2>1, <2>2, DoneOInv
<1> QED BY <1>1, <1>2, <1>3, <1>4, <1>5 DEF CopyStep

LEMMA OrderKept ==
  ASSUME NEW F, OP!IInv(F), [CO!Next]_(CO!ovars)
  PROVE  OP!IInv(F)'
<1>1. [OP!Next]_(OP!ovars)
  BY DEF CO!ovars, OP!ovars, CO!Next, OP!Next, CO!Reshape, OP!Reshape, CO!Issue, OP!Issue,
         CO!IssueHost, OP!IssueHost, CO!IssueDone, OP!IssueDone, CO!Record, OP!Record, CO!Wait, OP!Wait,
         CO!Run, OP!Run, CO!Logged, OP!Logged, CO!NewOp, OP!NewOp, CO!After, OP!After, CO!Front, OP!Front,
         CO!Seen, OP!Seen, CO!Peers, OP!Peers
<1> QED BY <1>1, OP!NextKeeps, OrderAssumed

LEMMA CopyOrderKept ==
  ASSUME WInv, OInv, Placed(str, log, done), OnLegacy, HostFunctionsRan, NEW F, OP!IInv(F), CopyStep, SameStreams
  PROVE  \E G : OP!IInv(G)'
<1>0. UNCHANGED Blocking
  BY SameBlocking
<1>1. ASSUME NEW s \in Streams, NEW staging, Blits(s, staging) PROVE OP!IInv(F)'
  <2>1. CO!Issue(s)
    BY <1>1 DEF Blits
  <2>2. [CO!Next]_(CO!ovars)
    BY <1>0, <2>1 DEF CO!Next
  <2> QED BY <2>2, OrderKept
<1>2. ASSUME NEW s \in Streams, CopiesNow(s) PROVE OP!IInv(F)'
  <2>1. /\ CO!Logged(s) /\ last' = [last EXCEPT ![s] = {CO!NewOp}] /\ joins' = [joins EXCEPT ![s] = {}]
        /\ done' = done \cup {CO!NewOp} /\ UNCHANGED mark
    BY <1>2 DEF CopiesNow, CpuOp
  <2>2. \A q \in OP!Front(s) \ F : log[q].stream = s => q \in done
    <3>1. OP!Front(s) \subseteq DOMAIN log
      BY DEF OP!IInv, OP!Known
    <3> QED BY <1>2, <3>1, CopiesNowFinished
  <2>3. OP!Logged(s) /\ CO!NewOp = OP!NewOp
    BY <2>1, SameOrder
  <2> QED BY <1>0, <2>1, <2>2, <2>3, OP!IssueDoneKeeps, OrderAssumed
<1>3. ASSUME UNCHANGED hist PROVE OP!IInv(F)'
  <2>1. [CO!Next]_(CO!ovars)
    BY <1>0, <1>3 DEF CO!ovars, hist
  <2> QED BY <2>1, OrderKept
<1>4. ASSUME NEW s \in Streams, HostWrites(s) PROVE \E G : OP!IInv(G)'
  <2>1. /\ log' = Append(log, [stream |-> s, after |-> {}]) /\ done' = done \cup {OP!NewOp}
        /\ UNCHANGED <<last, joins, mark>>
    BY <1>4, SameOrder DEF HostWrites, HostOp
  <2> QED BY <1>0, <2>1, OP!AtOnceKeeps, OrderAssumed
<1> QED BY <1>1, <1>2, <1>3, <1>4 DEF CopyStep, EndsStill, SkipsWait, Waits, Await

(* The invariant of the order, with copies. *)
CInv == WInv /\ OInv /\ Placed(str, log, done) /\ OnLegacy /\ \E F : OP!IInv(F)

LEMMA CInvStays ==
  ASSUME CInv, WInv', HostFunctionsRan, ~WaitsVisible, MaxFaults = 0, [CopyNext]_vars
  PROVE  CInv'
<1>1. EInv /\ IInv /\ EInv' /\ IInv' /\ Positive'
  BY DEF CInv, WInv, EInv
<1>2. Placed(str, log, done)' /\ OnLegacy'
  BY <1>1, NextPlaced, OnLegacyStays DEF CInv
<1>3. CASE [Next]_vars
  <2>1. OInv' /\ [CO!Next]_(CO!ovars)
    BY <1>3, NextRuns DEF CInv
  <2>2. PICK F : OP!IInv(F)
    BY DEF CInv
  <2>3. OP!IInv(F)'
    BY <2>1, <2>2, OrderKept
  <2> QED BY <1>2, <2>1, <2>3 DEF CInv
<1>4. CASE CopyStep
  <2>1. OInv' /\ SameStreams
    BY <1>1, <1>4, CopyOInv DEF CInv
  <2>2. \E F : OP!IInv(F)'
    BY <1>4, <2>1, CopyOrderKept DEF CInv
  <2> QED BY <1>2, <2>1, <2>2 DEF CInv
<1> QED BY <1>1, <1>3, <1>4, CopyNextSteps

(* README.md, "Work within a stream runs in order": while no buffer        *)
(* faults, an operation of a stream has run only if the earlier ones of    *)
(* that stream have, whether the GPU, the CPU in the call or a completion  *)
(* handler did each of them; for any program whose waiting copies to       *)
(* pageable memory follow no host function that is still to run.  Excepted *)
(* is the operation that waits for nothing (after = {}): a fill of host    *)
(* memory or a copy from host to host, which the code does at once and for *)
(* which the promise fails (AllInOrder); every other operation of its      *)
(* stream keeps its place, before and after one.                           *)
THEOREM CopyOrderHolds ==
  ASSUME ~WaitsVisible, MaxFaults = 0
  PROVE  CopySpec /\ []HostFunctionsRan => []StreamOrder
<1>1. Init /\ WInv => CInv
  <2> SUFFICES ASSUME Init, WInv PROVE CInv
    OBVIOUS
  <2>1. OInv
    BY InitOInv
  <2>2. Placed(str, log, done)
    BY DEF Init, Placed
  <2>3. OnLegacy
    BY DEF Init, Idling, OnLegacy
  <2>4. OP!IInv({})
    <3>1. OP!Init
      BY DEF Init, OP!Init, Blocking
    <3> QED BY <3>1, OP!InitIInv, OrderAssumed
  <2> QED BY <2>1, <2>2, <2>3, <2>4 DEF CInv
<1>2. CInv /\ WInv' /\ HostFunctionsRan /\ [CopyNext]_vars => CInv'
  BY CInvStays
<1>3. CInv => StreamOrder
  BY DEF CInv, OP!IInv, OP!OrderedBut, OP!AtOnce, StreamOrder, InOrderAt
<1>4. CopySpec => []WInv
  BY WInvHolds
<1> QED BY <1>1, <1>2, <1>3, <1>4, PTL DEF CopySpec

=============================================================================
