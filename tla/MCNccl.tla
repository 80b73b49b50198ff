------------------------------- MODULE MCNccl -------------------------------
(* Nccl.tla for TLC: programs whose ranks make matching posts. *)
EXTENDS Nccl

(* The part of rank r in step k of a program: a collective, or a transfer  *)
(* from rank 0 to rank 1.                                                  *)
Part(kind, r, k) ==
  IF kind \in Collectives THEN [kind |-> kind, rank |-> r, peer |-> r, buf |-> k]
  ELSE [kind |-> IF r = 0 THEN "Send" ELSE "Recv", rank |-> r, peer |-> 1 - r, buf |-> k]

StepsOf(kinds, n) == [1..n -> kinds]
Steps(n) == StepsOf({"AllGather", "AllReduce", "Transfer"}, n)

(* One thread per rank, one post per call; or thread 0 drives both ranks   *)
(* in one group, rank by rank.                                             *)
Parts(K, r) == [k \in DOMAIN K |-> Part(K[k], r, k)]
Driver == {[t \in Threads |-> IF t = 0 THEN <<Parts(K, 0) \o Parts(K, 1)>> ELSE <<>>] : K \in Steps(3)}
Singles == Driver \cup
  {[r \in Ranks |-> [k \in DOMAIN K |-> <<Part(K[k], r, k)>>]] : K \in Steps(3)}

(* One thread per rank, two posts per call. *)
PairsOf(K) ==
  [r \in Ranks |-> [c \in 1..2 |-> <<Part(K[2 * c - 1], r, 2 * c - 1), Part(K[2 * c], r, 2 * c)>>]]
Pairs == {PairsOf(K) : K \in Steps(4)}
FewPairs == {PairsOf(K) : K \in {K \in StepsOf({"AllGather", "Transfer"}, 4) : K[4] = "Transfer"}}

(* Waits may fail in some of the programs with groups. *)
NoCalls == [t \in Threads |-> <<>>]
All == Singles \cup Pairs \cup {NoCalls}

ASSUME ProgramsUsable == Usable
=============================================================================
