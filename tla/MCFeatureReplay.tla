-------------------------- MODULE MCFeatureReplay --------------------------
(* Three charges of a card, two of them at the same instant.               *)
EXTENDS TriedCharge, TLC

CONSTANTS t1, t2, t3, s1, s2

OccurredAt == (t1 :> 1) @@ (t2 :> 3) @@ (t3 :> 3)

Connections == Permutations({s1, s2})
Symmetries == Connections \cup Permutations({t2, t3})
=============================================================================
