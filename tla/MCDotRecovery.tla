--------------------------- MODULE MCDotRecovery ---------------------------
(***************************************************************************)
(* Dot recovery for TLC: two simdgroups, at most four rows and four        *)
(* products to a row.                                                      *)
(***************************************************************************)
EXTENDS DotRecovery

DotLoop0 == [latch |-> TRUE, exp |-> FALSE, fmax |-> FALSE, store |-> FALSE, atomic |-> FALSE, product |-> TRUE,
             unpack |-> TRUE, zero |-> TRUE, sum |-> TRUE, deltas |-> <<16, 8, 4, 2, 1>>, warpFilter |-> FALSE,
             step |-> 1, uniqueExit |-> TRUE, test |-> "lt", rotated |-> FALSE]
Kernel(l, threads, rows, K) ==
  [loops |-> <<l>>, mma |-> FALSE, twinName |-> FALSE, threads |-> threads, warps |-> 2, rows |-> rows, K |-> K]

\* Loops that end on an order comparison, tested before the body or rotated, and as the compiler leaves a counted
\* loop, rotated and ending on an inequality; rows that fall evenly to the simdgroups and that do not, and rows
\* shorter than a step of every copy.
Split == {Kernel([DotLoop0 EXCEPT !.step = s, !.uniqueExit = u], t, r, n) :
            s \in {1, 2}, u \in BOOLEAN, t \in {64, 256}, r \in {2, 4}, n \in {2, 4}}
Uneven == {Kernel([DotLoop0 EXCEPT !.step = s], 64, r, 3) : s \in {1, 2}, r \in {1, 3}}
Rotated == {Kernel([DotLoop0 EXCEPT !.rotated = TRUE, !.step = s], 64, r, n) : s \in {1, 2}, r \in {2, 3}, n \in 0..4}
Canonical == {Kernel([DotLoop0 EXCEPT !.rotated = rot, !.test = "ne"], t, 2, n) : rot \in BOOLEAN, t \in {64, 256}, n \in {0, 2}}
Refused == {Kernel([DotLoop0 EXCEPT !.warpFilter = TRUE], 64, 3, 3), Kernel([DotLoop0 EXCEPT !.exp = TRUE], 64, 3, 3),
            Kernel([DotLoop0 EXCEPT !.deltas = <<16, 8, 4>>], 64, 1, 3), [Kernel(DotLoop0, 64, 1, 2) EXCEPT !.mma = TRUE]}
MCDotKernels == Split \cup Uneven \cup Rotated \cup Canonical \cup Refused
=============================================================================
