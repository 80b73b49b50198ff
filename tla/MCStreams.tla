----------------------------- MODULE MCStreams -----------------------------
(***************************************************************************)
(* Streams.tla for TLC.  IssueSpec has only the calls that queue work: the *)
(* GPU may lag behind the program at any point anyway, so the order of     *)
(* device work is explored deeper without the calls that wait for it.      *)
(***************************************************************************)
EXTENDS Streams

Issuing ==
  \/ \E s \in Streams : \/ \E nb \in BOOLEAN : CreateStream(s, nb)
                        \/ Launch(s, {})
                        \/ LaunchHostFunc(s)
  \/ \E e \in Events : \/ \E t \in BOOLEAN : CreateEvent(e, t)
                       \/ \E s \in Streams : RecordEvent(e, s) \/ StreamWaitEvent(s, e)

IssueSpec == Init /\ [][Issuing \/ Gpu]_vars

(* Every call, with faults or events, and timeouts, on the default streams *)
(* (with both only where the program issues to one of them), or without    *)
(* faults and events on a created stream too.                              *)
Narrow ==
  \/ /\ \A s \in Streams \ {Legacy, PerThread} : str[s].state = "new"
     /\ \/ faults = 0 \/ \A e \in Events : ev[e].state = "new"
        \/ \A i \in DOMAIN log : log[i].stream = Legacy
  \/ faults = 0 /\ ~failed /\ \A e \in Events : ev[e].state = "new"

LiveSpec == Init /\ [][Next /\ Narrow']_vars /\ Fairness
=============================================================================
