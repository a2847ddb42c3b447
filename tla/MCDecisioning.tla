-------------------------- MODULE MCDecisioning ---------------------------
(* Small instances of Decisioning: two or three rules over two features.   *)
EXTENDS Decisioning

CONSTANTS f1, f2

(* Conditions on an aggravating feature f1 and an exonerating feature f2.  *)
Strong   == [feature |-> f1, hits |-> {1}, points |-> 8, required |-> TRUE, group |-> 1]
Weak     == [Strong EXCEPT !.points = 6]
Other    == [Strong EXCEPT !.feature = f2, !.hits = {0, 1}, !.points = 3, !.group = 2]
Deduct   == [feature |-> f2, hits |-> {1}, points |-> -2, required |-> FALSE, group |-> 1]
Consume  == [Deduct EXCEPT !.points = -9]
Against  == [Deduct EXCEPT !.feature = f1, !.hits = {0}, !.points = -1]

Acting(action, prevent, conditions) ==
  [veto |-> FALSE, action |-> action, review |-> 5, prevent |-> prevent,
   combine |-> "AND", conditions |-> conditions, lag |-> 0]

Veto(conditions) == [Acting("allow", NoThreshold, conditions) EXCEPT !.veto = TRUE]

AnyShape ==
  {[Acting("alert", NoThreshold, <<Strong>>) EXCEPT !.lag = 1],
   Acting("challenge", 7, <<Strong>>),
   Acting("challenge", 7, <<Strong, Deduct>>),
   [Acting("hold", 7, <<Weak, Deduct>>) EXCEPT !.lag = 2],
   [Acting("hold", 3, <<Weak, Other>>) EXCEPT !.combine = "OR", !.review = 3],
   Acting("block", 9, <<Weak, Other>>),
   Veto(<<Deduct>>), Veto(<<Consume>>), [Veto(<<Consume, Against>>) EXCEPT !.lag = 1]}

(* One movement at each instant, from before the evaluation to the last of *)
(* the ceilings.                                                           *)
Instants    == -1 .. 2
EachInstant == [m \in Instants |-> m]
===========================================================================
