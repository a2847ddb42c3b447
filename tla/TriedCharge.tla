---------------------------- MODULE TriedCharge -----------------------------
(***************************************************************************)
(* What callers of a what-if are told of a charge, beside FeatureReplay:   *)
(* a history of the evidence that simulate_transaction judged a charge on, *)
(* for as long as nobody commits a charge or a feature.  FeatureReplay has *)
(* the steps of the what-if, of the authorisation and of everybody else.   *)
(***************************************************************************)
EXTENDS FeatureReplay

VARIABLE told   \* what the last what-if of each charge was judged on

trialVars == <<vars, told>>

Untold   == [stage |-> "untold"]
Counting == [stage |-> "counting"]
Told(decisions_) ==
  [stage |-> "told", counted |-> {v.counted : v \in UNION {d.read : d \in decisions_}}]

(* A what-if of a charge that is to be approved.                           *)
IsTrial(q, c) == q.kind = "what-if" /\ q.charge = c /\ q.result = "approved"

Begins(s, c) == ~Running(s) /\ IsTrial(session'[s], c)

(* The rules judge the charge.                                             *)
Judges(s, kind, c) ==
  /\ Running(s) /\ session'[s] # Idle
  /\ session[s].kind = kind /\ session[s].charge = c
  /\ session[s].phase # "decided" /\ session'[s].phase = "decided"

Answers(s, c) == Judges(s, "what-if", c) /\ session[s].result = "approved"

(* A what-if counts from its insert on; what it was judged on holds until  *)
(* somebody commits a charge or a feature.                                 *)
Tells ==
  told' = [c \in Charge |->
    IF <<transactions, feature_values>>' # <<transactions, feature_values>> THEN Untold
    ELSE IF \E s \in Session : Begins(s, c) THEN Counting
    ELSE IF told[c] = Counting /\ \E s \in Session : Answers(s, c)
         THEN Told(UNION {session'[s].decisions : s \in {r \in Session : Answers(r, c)}})
    ELSE told[c]]

TrialInit == Init /\ told = [c \in Charge |-> Untold]
TrialNext == Next /\ Tells
TrialSpec == TrialInit /\ [][TrialNext]_trialVars

----------------------------------------------------------------------------
(* A charge that was tried as an approved one and is then presented is     *)
(* judged on the evidence it was tried on, itself counted once, unless a   *)
(* charge or a feature was committed after the what-if inserted its row:   *)
(* the insert, the feature pass and the read of either, and the rollback   *)
(* of the first, may fall between any steps of others                      *)
(* (simulate.py, simulate_transaction; authorize.py).                      *)
TriedChargeIsDecided ==
  [][\A s \in Session : \A c \in Charge :
       Judges(s, "authorize", c) /\ told[c].stage = "told"
         => Told(session'[s].decisions) = told[c]]_trialVars
=============================================================================
