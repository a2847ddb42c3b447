--------------------------- MODULE AlertHygiene ---------------------------
(***************************************************************************)
(* What one committed evaluation does to the tables an analyst works from: *)
(* decisions, alerts, alert_signals, action_executions, the behavioural    *)
(* log of the card, and case_outcomes.  An alerting evaluation is folded   *)
(* into, restates, is suppressed by, or raises a case (engine/persist.py), *)
(* the routed decision issues its actions (engine/execute.py), an analyst  *)
(* appends verdicts (contract/dispositions.py) and the settler resolves    *)
(* what was issued (engine/outcomes.py).                                   *)
(*                                                                         *)
(* An action is one evaluation, verdict or settlement.  The evaluations of *)
(* a lane run commit together, one after the other, so what is committed   *)
(* is among the states here.  Two lane runs whose transactions overlap are *)
(* not in this module.                                                     *)
(***************************************************************************)
EXTENDS Integers, Sequences, FiniteSets

CONSTANTS
  Subject,        \* subjects of evaluation: cards, accounts, rings ...
  RuleSet,        \* the sets of authorised rules an evaluation may have
  NoRules,        \* the empty set of authorised rules: no authority
  Score,          \* subject scores
  Time,           \* event times
  Policy,         \* alert_policy, by subject
  NoPolicy,       \* a subject type without a policy row
  Channelled,     \* the actions action_routing has a channel for
  Action,         \* the actions of the severity ladder, ref_action
  Preventive,     \* those that stop the event before it completes
  Trigger,        \* the transactions that trigger evaluations
  HasCard,        \* those that name a card
  Fraud,          \* those whose synthetic label is fraud
  AnalystVerdict, \* the dispositions analysts write
  InOrder,        \* TRUE: evaluations of a subject arrive in event order
  MaxDecisions    \* bound on the decisions of a behaviour

ASSUME ScoreAssumption   == Score \subseteq Int
ASSUME TimeAssumption    == Time \subseteq Int
ASSUME NoRulesAssumption == NoRules \notin RuleSet
ASSUME PolicyAssumption  ==
  /\ NoPolicy \notin [window : Nat, suppress : BOOLEAN]
  /\ Policy \in [Subject -> [window : Nat, suppress : BOOLEAN] \cup {NoPolicy}]
ASSUME ActionAssumption  ==
  "allow" \in Action /\ Preventive \subseteq Action /\ "allow" \notin Preventive
ASSUME VerdictAssumption ==
  AnalystVerdict \subseteq {"confirmed_fraud", "false_positive", "confirmed_legit", "inconclusive"}
ASSUME NotifyAssumption  == "notify" \notin Action
ASSUME InOrderAssumption == InOrder \in BOOLEAN
ASSUME BoundAssumption   == MaxDecisions \in Nat

VARIABLES
  decisions,      \* the decisions table, by decision_id
  alerts,         \* the alerts table, by alert_id; bar is the decision whose
                  \* signal pool alert_signals holds
  executions,     \* action_executions; (decision, action) identifies a row
  cardEvents,     \* events the system wrote about its own step-ups
  caseOutcomes    \* case_outcomes, append only

vars == <<decisions, alerts, executions, cardEvents, caseOutcomes>>

----------------------------------------------------------------------------
(* Types.                                                                  *)

Notify     == "notify"     \* a channel, not a rung of the ladder
Challenged == {"passed", "failed", "abandoned"}
Resolution == Challenged \cup {"completed", "overridden"}
Pending    == "unresolved"
Verdict    == {"confirmed_fraud", "false_positive", "confirmed_legit", "inconclusive"}

NoAlert == 0     \* decisions.alert_id IS NULL
NoAuthority == "no_authority"
Routing == {"raised", "folded", "restated", "suppressed", NoAuthority}

(* What the engine hands to write_batch for one subject.  Without an       *)
(* authorised rule the action is allow, and otherwise any action: a veto   *)
(* may cap it and a missed prevent_threshold may demote it.                *)
Evaluation ==
  {e \in [subject : Subject, rules : RuleSet \cup {NoRules}, score : Score,
          action : Action, at : Time, trigger : Trigger] :
     e.rules = NoRules => e.action = "allow"}

Decision == [subject : Subject, rules : RuleSet \cup {NoRules}, score : Score,
             action : Action, at : Time, trigger : Trigger,
             routing : Routing, alert : Nat]

Alert == [subject : Subject, rules : RuleSet, decision : Nat \ {0}, score : Score,
          bar : Nat \ {0}, triggering : Nat \ {0}, first : Time, last : Time]

Execution == [decision : Nat \ {0}, alert : Nat \ {0},
              action : Preventive \cup {Notify}, outcome : Resolution \cup {Pending}]

CardEvent == [event : {"challenge_issued", "challenge_outcome", "challenge_failed"},
              decision : Nat \ {0}]

CaseOutcome == [alert : Nat \ {0}, disposition : Verdict, source : {"analyst", "synthetic"}]

(* The tables hold rows of their kinds (write_batch, execute, settle).     *)
TypeOK ==
  /\ decisions \in Seq(Decision)
  /\ alerts \in Seq(Alert)
  /\ executions \subseteq Execution
  /\ cardEvents \subseteq CardEvent
  /\ caseOutcomes \subseteq CaseOutcome

----------------------------------------------------------------------------
(* Fold, restate, suppress or raise, in that order.                        *)

Earlier(s, t) == IF s <= t THEN s ELSE t
Later(s, t)   == IF s <= t THEN t ELSE s

Dispositioned(a) == \E o \in caseOutcomes : o.alert = a

(* Mutant: the upper end of BETWEEN taken as exclusive.                    *)
InWindowHalfOpen(e, a) ==
  /\ alerts[a].first - Policy[e.subject].window <= e.at
  /\ e.at < alerts[a].first + Policy[e.subject].window

(* e.at BETWEEN first_event_at - open_window AND first_event_at + open_window. *)
InWindow(e, a) ==
  /\ alerts[a].first - Policy[e.subject].window <= e.at
  /\ e.at <= alerts[a].first + Policy[e.subject].window

(* Mutant: the rule set left out of the dedup_key.                         *)
OpenCasesOfSubject(e) ==
  {a \in DOMAIN alerts :
     Policy[e.subject] # NoPolicy /\ alerts[a].subject = e.subject /\ InWindow(e, a)}

(* The cases with the evaluation's dedup_key that its event falls into.    *)
OpenCases(e) ==
  {a \in DOMAIN alerts :
     /\ Policy[e.subject] # NoPolicy
     /\ alerts[a].subject = e.subject
     /\ alerts[a].rules = e.rules
     /\ InWindow(e, a)}

(* The undispositioned cases on the subject, whatever their rule set.      *)
SuppressingCases(e) ==
  {a \in DOMAIN alerts :
     /\ Policy[e.subject] # NoPolicy
     /\ Policy[e.subject].suppress
     /\ alerts[a].subject = e.subject
     /\ ~Dispositioned(a)
     /\ InWindow(e, a)}

(* ORDER BY alert_id DESC LIMIT 1.                                         *)
IsNewestOf(a, cases) == a \in cases /\ \A b \in cases : b <= a

(* The id the next row of decisions, and of alerts, is given.              *)
NextDecision == Len(decisions) + 1
NextAlert    == Len(alerts) + 1

(* One row per evaluation, whatever became of it.                          *)
Decide(e, routing, a) ==
  decisions' = Append(decisions,
    [subject |-> e.subject, rules |-> e.rules, score |-> e.score,
     action |-> e.action, at |-> e.at, trigger |-> e.trigger,
     routing |-> routing, alert |-> a])

(* Mutant: events assumed to arrive in order.                              *)
FoldedInOrder(alert, e) == [alert EXCEPT !.triggering = @ + 1, !.last = e.at]

(* A fold counts the event and leaves what the case shows alone.           *)
Folded(alert, e) ==
  [alert EXCEPT !.triggering = @ + 1,
                !.first = Earlier(@, e.at),
                !.last = Later(@, e.at)]

(* Mutant: the signal rows are left behind by a restatement.               *)
RestatedWithOldSignals(alert, e, d) ==
  [Folded(alert, e) EXCEPT !.decision = d, !.score = e.score]

(* A restatement moves the numbers and the signal rows to decision d.      *)
Restated(alert, e, d) ==
  [Folded(alert, e) EXCEPT !.decision = d, !.score = e.score, !.bar = d]

NewCase(e, d) ==
  [subject |-> e.subject, rules |-> e.rules, decision |-> d, score |-> e.score,
   bar |-> d, triggering |-> 1, first |-> e.at, last |-> e.at]

(* Mutant: a restatement issues the preventive action again.               *)
WantedAgain(e, routing) == ({e.action} \cap Preventive) \cup {Notify}

(* The actions a routed evaluation issues: a preventive one when the case  *)
(* is raised, a notification also when it is restated.                     *)
Wanted(e, routing) ==
  (IF routing = "raised" THEN {e.action} \cap Preventive ELSE {}) \cup {Notify}

Issued(a, act) ==
  [decision |-> NextDecision, alert |-> a, action |-> act, outcome |-> Pending]

(* write_executions.  An action without a channel raises LookupError and   *)
(* the transaction is rolled back: no step is taken.                       *)
Issue(e, routing, a) ==
  /\ Wanted(e, routing) \subseteq Channelled
  /\ executions' = executions \cup {Issued(a, act) : act \in Wanted(e, routing)}
  /\ cardEvents' =
       IF "challenge" \in Wanted(e, routing) /\ e.trigger \in HasCard
       THEN cardEvents \cup {[event |-> "challenge_issued", decision |-> NextDecision]}
       ELSE cardEvents

----------------------------------------------------------------------------
(* Actions.                                                                *)

(* No rule had authority: the decision is the only row.                    *)
EvaluateNoAuthority(e) ==
  /\ e.rules = NoRules
  /\ Decide(e, NoAuthority, NoAlert)
  /\ UNCHANGED <<alerts, executions, cardEvents, caseOutcomes>>

Restate(e, a) ==
  /\ e.rules # NoRules
  /\ IsNewestOf(a, OpenCases(e))
  /\ e.score > alerts[a].score
  /\ alerts' = [alerts EXCEPT ![a] = Restated(@, e, NextDecision)]
  /\ Decide(e, "restated", a)
  /\ Issue(e, "restated", a)
  /\ UNCHANGED caseOutcomes

Fold(e, a) ==
  /\ e.rules # NoRules
  /\ IsNewestOf(a, OpenCases(e))
  /\ e.score <= alerts[a].score
  /\ alerts' = [alerts EXCEPT ![a] = Folded(@, e)]
  /\ Decide(e, "folded", a)
  /\ UNCHANGED <<executions, cardEvents, caseOutcomes>>

Suppress(e, a) ==
  /\ e.rules # NoRules
  /\ OpenCases(e) = {}
  /\ IsNewestOf(a, SuppressingCases(e))
  /\ Decide(e, "suppressed", a)
  /\ UNCHANGED <<alerts, executions, cardEvents, caseOutcomes>>

Raise(e) ==
  /\ e.rules # NoRules
  /\ OpenCases(e) = {}
  /\ SuppressingCases(e) = {}
  /\ alerts' = Append(alerts, NewCase(e, NextDecision))
  /\ Decide(e, "raised", NextAlert)
  /\ Issue(e, "raised", NextAlert)
  /\ UNCHANGED caseOutcomes

(* The order the environment evaluates in, when InOrder assumes one.       *)
Arrives(e) ==
  /\ Len(decisions) < MaxDecisions
  /\ InOrder => \A d \in DOMAIN decisions :
                  decisions[d].subject = e.subject => decisions[d].at <= e.at

Evaluate(e) ==
  /\ Arrives(e)
  /\ \/ EvaluateNoAuthority(e)
     \/ \E a \in DOMAIN alerts : Restate(e, a) \/ Fold(e, a) \/ Suppress(e, a)
     \/ Raise(e)

(* An analyst appends a verdict; the case itself is not touched.           *)
WriteDisposition(a, verdict) ==
  /\ caseOutcomes' = caseOutcomes \cup
       {[alert |-> a, disposition |-> verdict, source |-> "analyst"]}
  /\ UNCHANGED <<decisions, alerts, executions, cardEvents>>

----------------------------------------------------------------------------
(* Settlement of what was issued.                                          *)

Unresolved == {x \in executions : x.outcome = Pending}

PendingChallenges == {x \in Unresolved : x.action = "challenge"}

IsFraud(d) == decisions[d].trigger \in Fraud

(* How one execution is resolved.  draw is a hash of the identity of the   *)
(* challenge, which may fall on any outcome under either label.            *)
OutcomeFor(x, draw) ==
  CASE x.action = Notify      -> "completed"
    [] x.action = "challenge" -> draw[x]
    [] OTHER                  -> IF IsFraud(x.decision) THEN "completed" ELSE "overridden"

Resolved(x, draw) ==
  IF x \in Unresolved THEN [x EXCEPT !.outcome = OutcomeFor(x, draw)] ELSE x

(* Mutant: an abandoned challenge is not logged as failed.                 *)
OutcomeEventsOfFailed(draw) ==
  LET onCard == {x \in PendingChallenges : decisions[x.decision].trigger \in HasCard}
  IN  {[event |-> "challenge_outcome", decision |-> x.decision] : x \in onCard}
      \cup
      {[event |-> "challenge_failed", decision |-> x.decision] :
         x \in {y \in onCard : draw[y] = "failed"}}

(* The events the resolved challenges write on their cards.                *)
OutcomeEvents(draw) ==
  LET onCard == {x \in PendingChallenges : decisions[x.decision].trigger \in HasCard}
  IN  {[event |-> "challenge_outcome", decision |-> x.decision] : x \in onCard}
      \cup
      {[event |-> "challenge_failed", decision |-> x.decision] :
         x \in {y \in onCard : draw[y] \in {"failed", "abandoned"}}}

(* The verdict on a case, given the settled executions: fraud by label,    *)
(* legit when the decision the case points at was challenged and passed.   *)
VerdictOn(a, settled) ==
  IF IsFraud(alerts[a].decision) THEN "confirmed_fraud"
  ELSE IF \E x \in settled : /\ x.decision = alerts[a].decision
                             /\ x.action = "challenge"
                             /\ x.outcome = "passed"
       THEN "confirmed_legit"
       ELSE "false_positive"

Settle ==
  \E draw \in [PendingChallenges -> Challenged] :
    LET settled == {Resolved(x, draw) : x \in executions} IN
    /\ executions' = settled
    /\ cardEvents' = cardEvents \cup OutcomeEvents(draw)
    /\ caseOutcomes' = caseOutcomes \cup
         {[alert |-> a, disposition |-> VerdictOn(a, settled), source |-> "synthetic"] :
            a \in {b \in DOMAIN alerts : ~Dispositioned(b)}}
    /\ UNCHANGED <<decisions, alerts>>

----------------------------------------------------------------------------
Init ==
  /\ decisions = <<>>
  /\ alerts = <<>>
  /\ executions = {}
  /\ cardEvents = {}
  /\ caseOutcomes = {}

Next ==
  \/ \E e \in Evaluation : Evaluate(e)
  \/ \E a \in DOMAIN alerts, v \in AnalystVerdict : WriteDisposition(a, v)
  \/ Settle

Spec == Init /\ [][Next]_vars

----------------------------------------------------------------------------
(* Invariants.                                                             *)

(* The decisions that belong to a case.                                    *)
Evidence(a) ==
  {d \in DOMAIN decisions :
     decisions[d].alert = a /\ decisions[d].routing \in {"raised", "folded", "restated"}}

(* Every decision says what became of it, and says it consistently with    *)
(* the case it names: no authority exactly when no case, the same subject  *)
(* and rule set when it is evidence of the case, the same subject under    *)
(* other rules when the case suppressed it (persist.py, v_decision_routing). *)
RoutingNamesItsCase ==
  \A i \in DOMAIN decisions :
    LET d == decisions[i] IN
    /\ d.alert \in {NoAlert} \cup DOMAIN alerts
    /\ d.routing = NoAuthority <=> d.alert = NoAlert
    /\ d.routing = NoAuthority <=> d.rules = NoRules
    /\ d.alert # NoAlert =>
         /\ alerts[d.alert].subject = d.subject
         /\ alerts[d.alert].rules = d.rules <=> d.routing # "suppressed"

(* A case shows the worst evaluation that belongs to it, and the signals   *)
(* on its bar are that evaluation's whole pool, so they add up to its      *)
(* score however folds and restatements were interleaved (_route_alert,    *)
(* _restate_alert, v_alert_invariants.sum_ok).                             *)
WorstViewShown ==
  \A a \in DOMAIN alerts :
    /\ alerts[a].decision \in Evidence(a)
    /\ alerts[a].bar = alerts[a].decision
    /\ alerts[a].score = decisions[alerts[a].decision].score
    /\ \A d \in Evidence(a) : decisions[d].score <= alerts[a].score

(* triggering_events counts exactly the decisions that belong to the case, *)
(* and first_event_at and last_event_at are the ends of their event times  *)
(* in whatever order they arrived (_fold_alert, _restate_alert).           *)
EvidenceCounted ==
  \A a \in DOMAIN alerts :
    /\ alerts[a].triggering = Cardinality(Evidence(a))
    /\ \A d \in Evidence(a) :
         alerts[a].first <= decisions[d].at /\ decisions[d].at <= alerts[a].last
    /\ \E d \in Evidence(a) : decisions[d].at = alerts[a].first
    /\ \E d \in Evidence(a) : decisions[d].at = alerts[a].last

(* The customer is stepped up at most once for a case, by the one decision *)
(* that raised it, and the analyst is told of every raise and restatement: *)
(* an execution exists for exactly those (execute.write_executions).       *)
OneStepUpPerCase ==
  /\ \A c, d \in DOMAIN decisions :
       /\ decisions[c].routing = "raised" /\ decisions[d].routing = "raised"
       /\ decisions[c].alert = decisions[d].alert
       => c = d
  /\ \A x, y \in executions :
       x.decision = y.decision /\ x.action = y.action => x = y
  /\ \A x, y \in executions :
       x.alert = y.alert /\ x.action \in Preventive /\ y.action \in Preventive => x = y
  /\ \A x \in executions :
       /\ x.decision \in DOMAIN decisions
       /\ decisions[x.decision].alert = x.alert
       /\ decisions[x.decision].routing \in {"raised", "restated"}
       /\ x.action # Notify => /\ decisions[x.decision].routing = "raised"
                              /\ decisions[x.decision].action = x.action
  /\ \A d \in DOMAIN decisions :
       LET issued(act) == \E x \in executions : x.decision = d /\ x.action = act IN
       /\ decisions[d].routing \in {"raised", "restated"} => issued(Notify)
       /\ decisions[d].routing = "raised" /\ decisions[d].action \in Preventive
            => issued(decisions[d].action)

(* With events in order a situation is one case at a time: of two cases on *)
(* a subject, the later starts after the window of the earlier when they   *)
(* have the same rule set, whatever verdicts they carry, and under         *)
(* suppression also when neither has a verdict (_open_alert,               *)
(* _suppressing_alert).                                                    *)
OneCasePerSituation ==
  InOrder => \A a, b \in DOMAIN alerts :
    /\ a < b
    /\ alerts[a].subject = alerts[b].subject
    /\ Policy[alerts[a].subject] # NoPolicy
    /\ \/ alerts[a].rules = alerts[b].rules
       \/ /\ Policy[alerts[a].subject].suppress
          /\ ~Dispositioned(a)
          /\ ~Dispositioned(b)
    => alerts[a].first + Policy[alerts[a].subject].window < alerts[b].first

(* The card's log tells the same story as the executions: issued for each  *)
(* challenge, an outcome once it is resolved, a failure exactly when it    *)
(* was not passed (execute.py, outcomes.settle).                           *)
StepUpHistory ==
  \A d \in DOMAIN decisions :
    LET logged(ev) == [event |-> ev, decision |-> d] \in cardEvents
        challenge  == {x \in executions : x.decision = d /\ x.action = "challenge"}
    IN  decisions[d].trigger \in HasCard =>
          /\ logged("challenge_issued") <=> challenge # {}
          /\ logged("challenge_outcome") <=> \E x \in challenge : x.outcome # Pending
          /\ logged("challenge_failed") <=>
               \E x \in challenge : x.outcome \in {"failed", "abandoned"}

----------------------------------------------------------------------------
(* The case as the people who work it see it.                              *)

(* The decisions that issued one of these actions for the case.            *)
IssuedBy(a, acts) ==
  {x.decision : x \in {y \in executions : y.alert = a /\ y.action \in acts}}

Evaluated(d) == [subject |-> d.subject, rules |-> d.rules, score |-> d.score]

CaseView(a) ==
  [subject |-> alerts[a].subject, rules |-> alerts[a].rules, score |-> alerts[a].score,
   evidence |-> Evidence(a),
   told |-> IssuedBy(a, {Notify}), stepUps |-> IssuedBy(a, Preventive)]

Service == INSTANCE CaseService WITH
  evaluations <- [d \in DOMAIN decisions |-> Evaluated(decisions[d])],
  cases       <- [a \in DOMAIN alerts |-> CaseView(a)],
  verdicts    <- {[case |-> o.alert, verdict |-> o.disposition] : o \in caseOutcomes}

(* Folding, restating, suppressing, issuing and settling keep the promise  *)
(* of the case service: every evaluation is evidence of one case at most,  *)
(* of its own subject and rules; the case shows the worst; people are told *)
(* of exactly the openings and the worsenings; a step-up belongs to the    *)
(* opening; no verdict is lost (persist.py, execute.py, outcomes.py).      *)
ImplementsCaseService == Service!Spec

============================================================================
