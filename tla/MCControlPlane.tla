--------------------------- MODULE MCControlPlane ---------------------------
(* A small instance of ControlPlane: one rule, inserted by a seed or not   *)
(* there yet.                                                              *)
EXTENDS ControlPlane, TLC

CONSTANTS r1, a1, a2, risk, trust, known

Plain    == [subject |-> "transaction", mode |-> "inline_sync", action |-> "block",
             review |-> 10, prevent |-> {20}, veto |-> FALSE]
Veto     == [Plain EXCEPT !.action = "alert", !.prevent = {}, !.veto = TRUE]
Inverted == [Plain EXCEPT !.prevent = {5}]

Risky    == [feature |-> risk, comparable |-> TRUE, points |-> 15]
Excusing == [feature |-> trust, comparable |-> TRUE, points |-> -15]
Presumed == [feature |-> known, comparable |-> TRUE, points |-> -15]

DraftOf(r, status, fields, conds) ==
  [rule |-> r, status |-> status, fields |-> fields, conditions |-> conds]

Admins == Permutations({a1, a2})

SeededRisk == {Risky}

(* What a shadow rule and an active one may be edited to, and four drafts  *)
(* that validation refuses.                                                *)
Drafts ==
  {DraftOf(r1, "shadow", Plain, {Risky}),
   DraftOf(r1, "active", Veto, {Excusing}),
   DraftOf(r1, "shadow", Veto, {Risky}),
   DraftOf(r1, "shadow", Inverted, {Risky}),
   DraftOf(r1, "shadow", Plain, {Presumed}),
   DraftOf(r1, "shadow", Plain, {})}
=============================================================================
