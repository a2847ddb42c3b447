------------------------------ MODULE MCWhatIf ------------------------------
(* Two rules, two subjects and a small engine: rules accuse a card of its  *)
(* charges, prevent unless exonerating evidence is missing, or veto.       *)
EXTENDS WhatIf, TLC, FiniteSetsExt

CONSTANTS s1, s2, Absent, NoRule

Accusing  == [on |-> "charges", points |-> 8]
Deducting == [on |-> "known", points |-> -2]

Accuse    == [action |-> "alert", conditions |-> <<Accusing>>]
Prevent   == [action |-> "challenge", conditions |-> <<Accusing, Deducting>>]
Exonerate == [action |-> "veto", conditions |-> <<Deducting>>]

MCDefinition == {Accuse, Prevent, Exonerate}
MCDrafts ==
  {[rule |-> 1, definition |-> Accuse], [rule |-> 1, definition |-> Prevent],
   [rule |-> 2, definition |-> Exonerate]}

MCEvidence == {[charges |-> 1, known |-> Absent], [charges |-> 1, known |-> "yes"]}

Fires(c, x) == IF c.on = "charges" THEN x.charges = 1 ELSE x.known = "yes"

MCEngine(R, S, x) ==
  LET live       == {r \in RuleId : S[r] = "active"}
      firing(r)  == {i \in DOMAIN R[r].conditions : Fires(R[r].conditions[i], x)}
      fired      == {r \in live : 1 \in firing(r)}
      authorised == {r \in fired : R[r].action # "veto"}
      preventing == {r \in authorised : R[r].action = "challenge"}
      source     == IF authorised = {} THEN NoRule
                    ELSE Min(IF preventing = {} THEN authorised ELSE preventing)
      claims     == UNION {{R[r].conditions[i] : i \in firing(r)} : r \in fired}
      total      == MapThenSumSet(LAMBDA c : c.points, claims)
  IN  [score      |-> IF total > 0 THEN total ELSE 0,
       signals    |-> IF total > 0 THEN claims ELSE {},
       action     |-> IF authorised = {} THEN "allow"
                      ELSE IF \E r \in live : R[r].action = "veto" THEN "monitor"
                      ELSE IF x.known = Absent THEN "alert" ELSE R[source].action,
       source     |-> source,
       authorised |-> authorised,
       fired      |-> fired,
       conditions |-> [r \in RuleId |-> firing(r)]]

MCLabel == (s1 :> "fraud") @@ (s2 :> "legit")
=============================================================================
