-------------------------------- MODULE Nccl --------------------------------
(***************************************************************************)
(* How the ranks of one NCCL clique meet (crates/mvcc-cudart/src/nccl.rs): *)
(* posts, groups, the pending list, and the threads that complete and wait *)
(* for collectives.  The list is under one mutex; a collective runs        *)
(* outside it, in the thread whose post completed the set.                 *)
(*                                                                         *)
(* A call is what a thread does between ncclGroupStart and ncclGroupEnd,   *)
(* or one post outside a group, which takes the same steps as a group of   *)
(* one.  Each thread makes the calls of its program in order.              *)
(***************************************************************************)
EXTENDS Naturals, FiniteSets, SequencesExt

CONSTANTS
  Ranks,
  Threads,
  Programs,    \* what the threads may do: each maps a thread to its calls,
               \* and a call is a sequence of posts
  Failing      \* those in which a wait may reach its 30 s limit, or run()
               \* report an error

(* A post: its kind, the rank it is for, the peer rank (Send and Recv) and *)
(* its buffers.  Two posts of one rank with one kind and the same buffers  *)
(* are one and the same to the code.                                       *)
Collectives == {"AllGather", "AllReduce"}
Kinds == Collectives \cup {"Send", "Recv"}
Post == [kind : Kinds, rank : Ranks, peer : Ranks, buf : Nat]

(* For a collective the peer says nothing: it is the rank. *)
Proper(p) == p.kind \in Collectives => p.peer = p.rank

(* The n-th post of its rank with its kind and peer: history. *)
Numbered == [post : Post, n : Nat \ {0}]

ASSUME NcclAssumption ==
  /\ Failing \subseteq Programs
  /\ \A P \in Programs :
       /\ P \in [Threads -> Seq(Seq(Post))]
       /\ \A t \in Threads : \A c \in DOMAIN P[t] : \A k \in DOMAIN P[t][c] : Proper(P[t][c][k])

VARIABLES
  prog,     \* the program the threads run
  pending,  \* Clique.pending
  at,       \* at[t]: index of the call thread t is in or makes next
  todo,     \* todo[t]: posts of the call not yet parked or run
  parked,   \* parked[t]: posts of the call that wait for other ranks
  running,  \* running[t]: the set thread t is in run() with ({}: none)
  rc,       \* rc[t]: result of the call so far
  posted,   \* history: how many posts were made, by kind, rank and peer
  ran       \* history: the sets whose run() has returned

nvars == <<prog, pending, at, todo, parked, running, rc, posted, ran>>

MayFail == prog \in Failing
Inside(t) == todo[t] # <<>> \/ parked[t] # <<>> \/ running[t] # {}

NcclTypeOK ==
  /\ DOMAIN prog = Threads
  /\ pending \in Seq(Numbered)
  /\ at \in [Threads -> Nat]
  /\ todo \in [Threads -> Seq(Post)]
  /\ parked \in [Threads -> Seq(Numbered)]
  /\ running \in [Threads -> SUBSET Numbered]
  /\ rc \in [Threads -> {"success", "invalidUsage", "unhandledCudaError"}]
  /\ posted \in [Kinds \X Ranks \X Ranks -> Nat]
  /\ ran \in SUBSET SUBSET Numbered
-----------------------------------------------------------------------------
Same(p, q) == p.rank = q.rank /\ p.kind = q.kind /\ p.peer = q.peer /\ p.buf = q.buf

Class(p) == <<p.kind, p.rank, p.peer>>
Number(p) == [post |-> p, n |-> posted[Class(p)] + 1]

(* The position in list L of the first post that could serve as the part   *)
(* of rank r in the set of p, as a set of at most one.                     *)
ServesSamePeer(q, p, r) ==    \* mutant: the peers are compared with each other
  /\ q.rank = r
  /\ IF p.kind \in Collectives THEN q.kind = p.kind
     ELSE /\ q.kind = (IF p.kind = "Send" THEN "Recv" ELSE "Send")
          /\ q.peer = p.peer

Serves(q, p, r) ==
  /\ q.rank = r
  /\ IF p.kind \in Collectives THEN q.kind = p.kind
     ELSE /\ q.kind = (IF p.kind = "Send" THEN "Recv" ELSE "Send")
          /\ q.peer = p.rank

FirstServing(L, p, r) ==
  {i \in DOMAIN L : Serves(L[i].post, p, r) /\ \A j \in 1..(i - 1) : ~Serves(L[j].post, p, r)}

Partners(p) == IF p.kind \in Collectives THEN Ranks \ {p.rank} ELSE {p.peer}
Chosen(L, p) == UNION {FirstServing(L, p, r) : r \in Partners(p)}

(* A list without the posts at the places I. *)
Without(L, I) ==
  LET keep == DOMAIN L \ I
      place == [i \in keep |-> Cardinality({j \in keep : j <= i})]
  IN  [k \in 1..Cardinality(keep) |-> L[CHOOSE i \in keep : place[i] = k]]

(* take_set: is the set of p complete in L, what is it, what is left of L? *)
Completes(L, p) == \A r \in Partners(p) : FirstServing(L, p, r) # {}
TakenSet(L, np) == {L[i] : i \in Chosen(L, np.post)} \cup {np}
RestOf(L, np) == Without(L, Chosen(L, np.post))
-----------------------------------------------------------------------------
NcclInit ==
  /\ prog \in Programs
  /\ pending = <<>>
  /\ at = [t \in Threads |-> 1]
  /\ todo = [t \in Threads |-> <<>>]
  /\ parked = [t \in Threads |-> <<>>]
  /\ running = [t \in Threads |-> {}]
  /\ rc = [t \in Threads |-> "success"]
  /\ posted = [c \in Kinds \X Ranks \X Ranks |-> 0]
  /\ ran = {}

(* ncclGroupEnd (or a post outside a group) starts to handle its posts. *)
Enter(t) ==
  /\ ~Inside(t) /\ at[t] <= Len(prog[t])
  /\ todo' = [todo EXCEPT ![t] = prog[t][at[t]]]
  /\ at' = [at EXCEPT ![t] = @ + 1]
  /\ rc' = [rc EXCEPT ![t] = "success"]
  /\ UNCHANGED <<prog, pending, parked, running, posted, ran>>

(* park_or_run: complete a set and run it, or join the pending list. *)
ParkOrRun(t) ==
  /\ running[t] = {} /\ todo[t] # <<>>
  /\ LET np == Number(Head(todo[t]))
     IN  IF Completes(pending, np.post)
         THEN /\ running' = [running EXCEPT ![t] = TakenSet(pending, np)]
              /\ pending' = RestOf(pending, np)
              /\ UNCHANGED parked
         ELSE /\ pending' = Append(pending, np)
              /\ parked' = [parked EXCEPT ![t] = Append(@, np)]
              /\ UNCHANGED running
  /\ posted' = [posted EXCEPT ![Class(Head(todo[t]))] = @ + 1]
  /\ todo' = [todo EXCEPT ![t] = Tail(@)]
  /\ UNCHANGED <<prog, at, rc, ran>>

(* run returns: the copies are queued on every rank's stream.  If one      *)
(* could not be, the call of the thread that ran them says so.             *)
RunReturns(t) ==
  /\ running[t] # {}
  /\ \/ UNCHANGED rc
     \/ MayFail /\ rc' = [rc EXCEPT ![t] = "unhandledCudaError"]
  /\ ran' = ran \cup {running[t]}
  /\ running' = [running EXCEPT ![t] = {}]
  /\ UNCHANGED <<prog, pending, at, todo, parked, posted>>

(* wait_pending, for the first post the call still waits for. *)
Waiting(t) == running[t] = {} /\ todo[t] = <<>> /\ parked[t] # <<>>
Mine(t, q) == Same(q.post, Head(parked[t]).post)
Still(t) == \E i \in DOMAIN pending : Mine(t, pending[i])
Waited(t) == parked' = [parked EXCEPT ![t] = Tail(@)]

(* Another thread took the post: the wait is over. *)
WaitEnds(t) ==
  /\ Waiting(t) /\ ~Still(t)
  /\ Waited(t)
  /\ UNCHANGED <<prog, pending, at, todo, running, rc, posted, ran>>

(* The first such post is taken off the list; it completes a set, which is *)
(* run, or goes back to the end of the list.                               *)
Poll(t) ==
  /\ Waiting(t)
  /\ \E i \in DOMAIN pending :
       /\ Mine(t, pending[i]) /\ \A j \in 1..(i - 1) : ~Mine(t, pending[j])
       /\ LET me == pending[i]
              L == Without(pending, {i})
          IN  IF Completes(L, me.post)
              THEN /\ running' = [running EXCEPT ![t] = TakenSet(L, me)]
                   /\ pending' = RestOf(L, me)
                   /\ Waited(t)
              ELSE /\ pending' = Append(L, me)
                   /\ UNCHANGED <<running, parked>>
  /\ UNCHANGED <<prog, at, todo, rc, posted, ran>>

(* Mutant: the post stays on the list. *)
WaitTimesOutStays(t) ==
  /\ MayFail /\ Waiting(t)
  /\ rc' = [rc EXCEPT ![t] = "invalidUsage"]
  /\ Waited(t)
  /\ UNCHANGED <<prog, pending, at, todo, running, posted, ran>>

(* The other ranks did not post in time, or only just did. *)
WaitTimesOut(t) ==
  /\ MayFail /\ Waiting(t)
  /\ pending' = Without(pending, {i \in DOMAIN pending : Mine(t, pending[i])})
  /\ rc' = [rc EXCEPT ![t] = "invalidUsage"]
  /\ Waited(t)
  /\ UNCHANGED <<prog, at, todo, running, posted, ran>>

Step(t) == ParkOrRun(t) \/ RunReturns(t) \/ WaitEnds(t) \/ Poll(t)

Finished == \A t \in Threads : ~Inside(t) /\ at[t] > Len(prog[t])
Done == Finished /\ UNCHANGED nvars

NcclNext == (\E t \in Threads : Enter(t) \/ Step(t) \/ WaitTimesOut(t)) \/ Done

NcclSpec == NcclInit /\ [][NcclNext]_nvars

(* A thread inside a call keeps running; a thread makes its next call. *)
NcclFairness == \A t \in Threads : WF_nvars(Enter(t)) /\ WF_nvars(Step(t))

NcclFairSpec == NcclSpec /\ NcclFairness
-----------------------------------------------------------------------------
(* Properties *)

(* What programs keep to.  A communicator is used by one thread, and the   *)
(* posts of a call can be told apart.                                      *)
PostsOf(P, t) == UNION {ToSet(P[t][c]) : c \in DOMAIN P[t]}
OneThreadEach(P) ==
  \A t, u \in Threads : \A p \in PostsOf(P, t), q \in PostsOf(P, u) : p.rank = q.rank => t = u
Differ(s) == \A j, k \in DOMAIN s : Same(s[j], s[k]) => j = k
CallsDiffer(P) == \A t \in Threads : \A c \in DOMAIN P[t] : Differ(P[t][c])
Usable == \A P \in Programs : OneThreadEach(P) /\ CallsDiffer(P)

Sets == ran \cup {running[t] : t \in Threads}

(* take_set: a set is one post of every rank, all of one kind, or a Send   *)
(* and the Recv of its peer; no post is ever in two sets.                  *)
WholeSet(S) ==
  \/ \E k \in Collectives :
       /\ \A q \in S : q.post.kind = k
       /\ \A r \in Ranks : \E q \in S : {x \in S : x.post.rank = r} = {q}
  \/ \E a, b \in S :
       /\ S = {a, b} /\ a.post.kind = "Send" /\ b.post.kind = "Recv"
       /\ a.post.peer = b.post.rank /\ b.post.peer = a.post.rank
EachOnce ==
  /\ \A S \in Sets \ {{}} : WholeSet(S)
  /\ \A S1, S2 \in ran : S1 = S2 \/ S1 \cap S2 = {}
  /\ \A t, u \in Threads : t = u \/ running[t] \cap running[u] = {}
  /\ \A t \in Threads : \A S \in ran : running[t] \cap S = {}
  /\ \A S \in Sets : S \cap ToSet(pending) = {}

(* take_set's comment, "one per rank of the same kind (posted first by     *)
(* each rank)": the ranks of a collective meet in the order they posted,   *)
(* the n-th of one with the n-th of the others.                            *)
MatchedInOrder == \A S \in Sets : \A p, q \in S : p.n = q.n

(* At least so when no wait fails and no thread waits for two posts while  *)
(* another goes on: every call is one post, or one thread makes them all.  *)
SinglePosts(P) == \A t \in Threads : \A c \in DOMAIN P[t] : Len(P[t][c]) = 1
OneCaller(P) == \E t \in Threads : \A x \in Threads \ {t} : P[x] = <<>>
OneAtATime == ~MayFail /\ (SinglePosts(prog) \/ OneCaller(prog))
SinglesInOrder == OneAtATime => MatchedInOrder

(* A post that a thread waits for is pending or in a set: none is lost.    *)
NoneLost ==
  \A t \in Threads : \A p \in ToSet(parked[t]) : p \in ToSet(pending) \/ \E S \in Sets : p \in S

(* wait_pending, the deadline: a post on the list has a thread waiting for *)
(* it, so no later collective can pick up a part whose call has failed.    *)
NoOrphans ==
  \A i \in DOMAIN pending : \E t \in Threads : pending[i] \in ToSet(parked[t])

(* Whatever the calls, the waits and the order of threads: sets are whole  *)
(* and disjoint, a pending post is exactly one some thread waits for, and  *)
(* single posts meet in order.                                             *)
PostsKept == NcclTypeOK /\ EachOnce /\ NoneLost /\ NoOrphans /\ SinglesInOrder

(* Ranks whose programs match all get through: no call waits for ever.     *)
AllFinish == <>(Finished \/ MayFail)
=============================================================================
