---------------------------- MODULE MCLaneRuns ----------------------------
(* Three transactions: batches that share two cases, and an authorisation  *)
(* whose rule set is suppressed while the first case is open.              *)
EXTENDS LaneRuns, TLC

CONSTANTS q1, q2, q3, a1, a2, u1, u2

Subjects == (1 :> u1) @@ (2 :> u2) @@ (3 :> u1)

Eval(k, s) == [key |-> k, score |-> s]

Batches ==
  {{Eval(1, 2)}, {Eval(1, 1), Eval(2, 1)}, {Eval(1, 2), Eval(2, 1)},
   {Eval(3, 1)}}

Interchangeable == Permutations(Run) \cup Permutations(Settler)
===========================================================================
