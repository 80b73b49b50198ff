------------------------------- MODULE Copies -------------------------------
(***************************************************************************)
(* Copies, fills and cudaFree on top of Streams.tla (runtime.rs: copy_dev, *)
(* memcpy, memset, free).  A copy is an operation of its stream.  Small    *)
(* ones are done by the CPU, at once, when the stream looks idle; pageable *)
(* host memory is staged, or copied by the CPU after a stream sync; what   *)
(* only writes host memory is done at once, in whatever state the stream   *)
(* is.                                                                     *)
(***************************************************************************)
EXTENDS Streams

(* The CPU does the operation during the call, without consulting anyone. *)
CpuOp(s) ==
  /\ CO!Logged(s)
  /\ last' = [last EXCEPT ![s] = {CO!NewOp}]
  /\ joins' = [joins EXCEPT ![s] = {}]
  /\ done' = done \cup {CO!NewOp}
  /\ UNCHANGED <<str, mark>>

(* The CPU writes host memory: the operation waits for nothing, and no     *)
(* later one waits for it (it is done).                                    *)
HostOp(s) ==
  /\ log' = Append(log, [stream |-> s, after |-> {}])
  /\ done' = done \cup {CO!NewOp}
  /\ UNCHANGED <<str, last, joins, mark>>

Blit(s, staging) == str' = EncodeBlit(str, s, CO!NewOp, staging) /\ CO!Issue(s)

(* copy_dev, and memset of device memory (where every size counts as small). *)
CopyDev(s, small) ==
  \/ small /\ Idle(str[s]) /\ CpuOp(s)
  \/ ~(small /\ Idle(str[s])) /\ Blit(s, {})

(* memcpy from pageable host memory: staged unless the stream is idle. *)
CopyPageableIn(s) ==
  \/ Idle(str[s]) /\ CpuOp(s)
  \/ ~Idle(str[s]) /\ Blit(s, {CO!NewOp})

MayIssue(s) == On(s) /\ Len(log) < MaxOps
-----------------------------------------------------------------------------
(* cudaMemcpyAsync between device and device or pinned memory; with small  *)
(* TRUE also cudaMemsetAsync of device memory.                             *)
CopyAsync(s, small) ==
  /\ MayIssue(s) /\ CopyDev(s, small)
  /\ Returns("SUCCESS")
  /\ UNCHANGED <<signal, ev, failed, faults, eventCalls>>

(* cudaMemset and cudaMemsetAsync of pinned or registered memory, and      *)
(* cudaMemcpyAsync from host to host.                                      *)
HostNow(s) ==
  /\ MayIssue(s) /\ HostOp(s)
  /\ Returns("SUCCESS")
  /\ UNCHANGED <<signal, ev, failed, faults, eventCalls>>

CopyInAsync(s) ==
  /\ MayIssue(s) /\ CopyPageableIn(s)
  /\ Returns("SUCCESS")
  /\ UNCHANGED <<signal, ev, failed, faults, eventCalls>>

(* To pageable memory: the host waits for the stream, then copies. *)
CopyOutAsync(s) ==
  /\ MayIssue(s)
  /\ \/ /\ failed
        /\ Returns("ILLEGAL_ADDRESS")
        /\ UNCHANGED <<str, signal, ev, failed, faults, eventCalls, hist>>
     \/ /\ ~failed
        /\ Await({s}, "copyOut", s)

(* Mutant: only the legacy stream is awaited. *)
AwaitLegacy(then) ==
  IF failed
  THEN /\ host' = [Idling EXCEPT !.then = then,
                     !.rc = IF then = "syncOut" THEN "ILLEGAL_ADDRESS" ELSE "SUCCESS"]
       /\ UNCHANGED <<str, signal, ev, ret, failed, faults, eventCalls, hist>>
  ELSE Await({Legacy}, then, Legacy)

(* sync_blocking_streams: its waits' results are ignored, and after a      *)
(* failure it neither commits nor waits.                                   *)
AwaitBlocking(then) ==
  IF failed
  THEN /\ host' = [Idling EXCEPT !.then = then,
                     !.rc = IF then = "syncOut" THEN "ILLEGAL_ADDRESS" ELSE "SUCCESS"]
       /\ UNCHANGED <<str, signal, ev, ret, failed, faults, eventCalls, hist>>
  ELSE Await(Blocking, then, Legacy)

(* cudaMemcpy, and cudaMemset of device memory, on the legacy stream: then *)
(* names the kind of copy.  A copy between device and pinned memory takes  *)
(* copy_dev directly.                                                      *)
CopySync(then) ==
  /\ MayIssue(Legacy)
  /\ AwaitBlocking(then)
CopySyncPinned(small) ==
  /\ MayIssue(Legacy) /\ CopyDev(Legacy, small)
  /\ Returns("SUCCESS")
  /\ UNCHANGED <<signal, ev, failed, faults, eventCalls>>

(* The rest of a copy that waited: a copy out is dropped if the wait       *)
(* failed, the others go ahead.                                            *)
Finishes(then, code) ==
  /\ Awaited /\ host.then = then
  /\ ret' = code
  /\ host' = Idling
  /\ UNCHANGED <<signal, ev, failed, faults, eventCalls>>

CopyOutFinishes(then) ==
  /\ Finishes(then, host.rc)
  /\ \/ host.rc = "SUCCESS" /\ CpuOp(host.on)
     \/ host.rc # "SUCCESS" /\ UNCHANGED <<str, hist>>
SyncDevFinishes(small) == Finishes("syncDev", "SUCCESS") /\ CopyDev(Legacy, small)
SyncInFinishes == Finishes("syncIn", "SUCCESS") /\ CopyPageableIn(Legacy)
SyncFillFinishes == Finishes("syncFill", "SUCCESS") /\ CopyDev(Legacy, TRUE)
SyncHostFinishes == Finishes("syncHost", "SUCCESS") /\ HostOp(Legacy)

(* cudaFree, cudaFreeHost: the device is synchronised first unless every stream is idle. *)
Free ==
  /\ Enter
  /\ \E s \in LiveStreams(str) : ~Idle(str[s])
  /\ Await(LiveStreams(str), "free", Legacy)

(* Mutant: free looks at the legacy stream only. *)
FreesAtOnceLegacy == Enter /\ Idle(str[Legacy])
FreesAtOnce == Enter /\ \A s \in LiveStreams(str) : Idle(str[s])

FreeIdle ==
  /\ FreesAtOnce
  /\ Returns("SUCCESS")
  /\ UNCHANGED <<str, signal, ev, failed, faults, eventCalls, hist>>
FreesNow == Awaited /\ host.then = "free"
FreeFinishes == Finishes("free", "SUCCESS") /\ UNCHANGED <<str, hist>>
-----------------------------------------------------------------------------
SyncKinds == {"syncOut", "syncDev", "syncIn", "syncFill", "syncHost"}
CopyAsyncCall ==
  \E s \in Streams : \/ \E small \in BOOLEAN : CopyAsync(s, small)
                    \/ CopyInAsync(s) \/ HostNow(s)
CopySyncCall ==
  \/ \E s \in Streams : CopyOutAsync(s)
  \/ \E then \in SyncKinds : CopySync(then)
  \/ \E small \in BOOLEAN : CopySyncPinned(small)
  \/ Free \/ FreeIdle
CopyProgress ==
  \/ CopyOutFinishes("copyOut") \/ CopyOutFinishes("syncOut")
  \/ SyncInFinishes \/ SyncFillFinishes \/ SyncHostFinishes \/ FreeFinishes
  \/ \E small \in BOOLEAN : SyncDevFinishes(small)

CopyNext == Next \/ CopyAsyncCall \/ CopySyncCall \/ CopyProgress
CopySpec == Init /\ [][CopyNext]_vars
-----------------------------------------------------------------------------
(* Properties *)

(* README.md, "Work within a stream runs in order": an operation of a      *)
(* stream has run only if the earlier ones of that stream have, whichever  *)
(* of the GPU, the CPU and the completion handlers did each of them.  What *)
(* waits for nothing at all (a HostOp; else only a stream's first work) is *)
(* not held to it: AllInOrder is the promise without the exception.        *)
InOrderAt(o) == \A p \in 1..(o - 1) : log[p].stream = log[o].stream => p \in done
StreamOrder == \A o \in done : log[o].after # {} => InOrderAt(o)
AllInOrder == \A o \in done : InOrderAt(o)

(* keepalive, retired: a staging buffer outlives the copy that reads it    *)
(* (the command buffer holds no reference to it).                          *)
StagingAlive ==
  \A s \in Streams :
    /\ \A k \in DOMAIN str[s].body : str[s].body[k].staging \subseteq str[s].keep
    /\ \A i \in Buffers(s) :
         LET b == str[s].sent[i]
         IN  b.status = "committed" =>
               \A k \in (b.at + 1)..Len(b.body) : \A g \in b.body[k].staging :
                 <<b.value, g>> \in str[s].retired

(* free: memory is released only when no command buffer is left that could *)
(* use it.                                                                 *)
GpuQuiet ==
  \A s \in Streams : ~str[s].open /\ \A i \in Buffers(s) : str[s].sent[i].status # "committed"
FreeQuiet == FreesAtOnce \/ FreesNow => GpuQuiet

(* sync_blocking_streams: when a cudaMemcpy (other than between device and *)
(* pinned memory) or a cudaMemset of device memory goes ahead, everything  *)
(* the blocking streams were given is done, so the CPU may touch the       *)
(* memory.                                                                 *)
SyncFinishes ==
  \/ CopyOutFinishes("syncOut") /\ ret' = "SUCCESS"
  \/ SyncInFinishes \/ SyncFillFinishes \/ SyncHostFinishes
  \/ \E small \in BOOLEAN : SyncDevFinishes(small)
CopyWaits == [][SyncFinishes => \A s \in Blocking : CO!Seen(s) \subseteq done]_vars
=============================================================================
