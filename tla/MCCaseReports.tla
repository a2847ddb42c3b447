---------------------------- MODULE MCCaseReports ----------------------------
(* Two scores, verdicts that a script dates at once or an instant ahead, *)
(* and windows of one instant, so that cases move between windows.         *)
EXTENDS CaseReports

MCScore == {1, 2}
MCDelay == {0, 1}
MCAnalystVerdict == {"confirmed_fraud", "inconclusive"}
=============================================================================
