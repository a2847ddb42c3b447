------------------------- MODULE AlertHygieneProofs -------------------------
(***************************************************************************)
(* What holds of AlertHygiene for any subjects, rule sets, scores, times   *)
(* and policies, and for histories of any length; at the end, that it      *)
(* keeps the promise of CaseService.                                       *)
(***************************************************************************)
EXTENDS AlertHygiene, SequenceTheorems, FiniteSetTheorems, TLAPS

(* The row Decide appends.                                                 *)
Row(e, routing, a) ==
  [subject |-> e.subject, rules |-> e.rules, score |-> e.score,
   action |-> e.action, at |-> e.at, trigger |-> e.trigger,
   routing |-> routing, alert |-> a]

----------------------------------------------------------------------------
(* Lemmas about the operators the actions share.                           *)

(* Deciding appends one well-typed row and changes no earlier one.         *)
LEMMA DecideAppends ==
  ASSUME TypeOK, NEW e \in Evaluation, NEW routing \in Routing, NEW a \in Nat,
         Decide(e, routing, a)
  PROVE  /\ decisions' \in Seq(Decision)
         /\ Len(decisions') = NextDecision
         /\ DOMAIN decisions' = DOMAIN decisions \cup {NextDecision}
         /\ NextDecision \notin DOMAIN decisions
         /\ NextDecision \in Nat \ {0}
         /\ decisions'[NextDecision] = Row(e, routing, a)
         /\ \A i \in DOMAIN decisions : decisions'[i] = decisions[i]
<1>1. Row(e, routing, a) \in Decision
  BY DEF Row, Decision, Evaluation
<1>2. decisions' = Append(decisions, Row(e, routing, a))
  BY DEF Decide, Row
<1>3. decisions \in Seq(Decision)
  BY DEF TypeOK
<1>4. DOMAIN decisions = 1..Len(decisions) /\ Len(decisions) \in Nat
  BY <1>3
<1>5. decisions' \in Seq(Decision) /\ Len(decisions') = Len(decisions) + 1
  BY <1>1, <1>2, <1>3
<1>6. DOMAIN decisions' = 1..(Len(decisions) + 1)
  BY <1>5
<1>. QED
  BY <1>1, <1>2, <1>3, <1>4, <1>5, <1>6 DEF NextDecision

(* The fields of the appended row that the properties look at.             *)
LEMMA DecidedFields ==
  ASSUME TypeOK, NEW e \in Evaluation, NEW routing \in Routing, NEW a \in Nat,
         Decide(e, routing, a)
  PROVE  /\ decisions'[NextDecision].score = e.score
         /\ decisions'[NextDecision].at = e.at
         /\ decisions'[NextDecision].action = e.action
         /\ decisions'[NextDecision].routing = routing
         /\ decisions'[NextDecision].alert = a
<1>1. decisions'[NextDecision] = Row(e, routing, a)
  BY DecideAppends
<1>2. /\ Row(e, routing, a).score = e.score /\ Row(e, routing, a).at = e.at
      /\ Row(e, routing, a).action = e.action /\ Row(e, routing, a).routing = routing
      /\ Row(e, routing, a).alert = a
  BY DEF Row
<1>. QED
  BY <1>1, <1>2

(* Issuing adds well-typed, unresolved rows of the new decision only.      *)
LEMMA IssueAdds ==
  ASSUME TypeOK, NEW e \in Evaluation, NEW routing \in Routing, NEW a \in Nat \ {0},
         Issue(e, routing, a)
  PROVE  /\ executions' \subseteq Execution
         /\ cardEvents' \subseteq CardEvent
         /\ executions' = executions \cup {Issued(a, act) : act \in Wanted(e, routing)}
         /\ \A act : /\ Issued(a, act).decision = NextDecision
                     /\ Issued(a, act).alert = a
                     /\ Issued(a, act).action = act
                     /\ Issued(a, act).outcome = Pending
<1>1. NextDecision \in Nat \ {0}
  BY DEF NextDecision, TypeOK
<1>2. Wanted(e, routing) \subseteq Preventive \cup {Notify}
  BY DEF Wanted
<1>3. \A act \in Wanted(e, routing) : Issued(a, act) \in Execution
  BY <1>1, <1>2 DEF Execution, Issued
<1>4. executions' \subseteq Execution
  BY <1>3 DEF Issue, TypeOK
<1>5. [event |-> "challenge_issued", decision |-> NextDecision] \in CardEvent
  BY <1>1 DEF CardEvent
<1>6. cardEvents' \subseteq CardEvent
  BY <1>5 DEF Issue, TypeOK
<1>7. \A act : /\ Issued(a, act).decision = NextDecision
               /\ Issued(a, act).alert = a
               /\ Issued(a, act).action = act
               /\ Issued(a, act).outcome = Pending
  BY DEF Issued
<1>. QED
  BY <1>4, <1>6, <1>7 DEF Issue

(* A row of alerts rewritten in place leaves the others as they were.      *)
LEMMA AlertRewritten ==
  ASSUME NEW s \in Seq(Alert), NEW a \in DOMAIN s, NEW row \in Alert
  PROVE  /\ [s EXCEPT ![a] = row] \in Seq(Alert)
         /\ DOMAIN [s EXCEPT ![a] = row] = DOMAIN s
         /\ \A b \in DOMAIN s : [s EXCEPT ![a] = row][b] = IF b = a THEN row ELSE s[b]
<1>1. DOMAIN s = 1..Len(s)
  OBVIOUS
<1>2. /\ [s EXCEPT ![a] = row] \in Seq(Alert)
      /\ Len([s EXCEPT ![a] = row]) = Len(s)
      /\ \A j \in 1..Len(s) : [s EXCEPT ![a] = row][j] = IF j = a THEN row ELSE s[j]
  BY <1>1, ExceptSeq
<1>. QED
  BY <1>1, <1>2

LEMMA AlertFields ==
  ASSUME TypeOK, NEW a \in DOMAIN alerts
  PROVE  alerts[a] \in Alert /\ a \in Nat \ {0}
BY DEF TypeOK

LEMMA FoldedType ==
  ASSUME NEW alert \in Alert, NEW e \in Evaluation
  PROVE  Folded(alert, e) \in Alert
<1>1. alert.triggering + 1 \in Nat \ {0}
  BY DEF Alert
<1>2. Earlier(alert.first, e.at) \in Time /\ Later(alert.last, e.at) \in Time
  BY DEF Alert, Evaluation, Earlier, Later
<1>. QED
  BY <1>1, <1>2 DEF Alert, Folded

LEMMA RestatedType ==
  ASSUME NEW alert \in Alert, NEW e \in Evaluation, NEW d \in Nat \ {0}
  PROVE  Restated(alert, e, d) \in Alert
<1>1. Folded(alert, e) \in Alert
  BY FoldedType
<1>2. e.score \in Score
  BY DEF Evaluation
<1>. QED
  BY <1>1, <1>2 DEF Alert, Restated

(* Settling rewrites outcomes of executions and nothing else of them.      *)
LEMMA ResolvedRow ==
  ASSUME TypeOK, NEW draw \in [PendingChallenges -> Challenged], NEW x \in executions
  PROVE  /\ Resolved(x, draw) \in Execution
         /\ Resolved(x, draw).decision = x.decision
         /\ Resolved(x, draw).alert = x.alert
         /\ Resolved(x, draw).action = x.action
         /\ x.outcome # Pending => Resolved(x, draw) = x
<1>1. x \in Execution
  BY DEF TypeOK
<1>2. CASE x \in Unresolved
  <2>1. OutcomeFor(x, draw) \in Resolution
    <3>1. CASE x.action = Notify
      BY <3>1 DEF OutcomeFor, Resolution, Notify
    <3>2. CASE x.action # Notify /\ x.action = "challenge"
      <4>1. draw[x] \in Challenged
        BY <1>2, <3>2 DEF PendingChallenges
      <4>. QED
        BY <4>1, <3>2 DEF OutcomeFor, Resolution
    <3>3. CASE x.action # Notify /\ x.action # "challenge"
      BY <3>3 DEF OutcomeFor, Resolution
    <3>. QED
      BY <3>1, <3>2, <3>3
  <2>2. Resolved(x, draw) = [x EXCEPT !.outcome = OutcomeFor(x, draw)]
    BY <1>2 DEF Resolved
  <2>3. x.outcome = Pending
    BY <1>2 DEF Unresolved
  <2>. QED
    BY <1>1, <2>1, <2>2, <2>3 DEF Execution
<1>3. CASE x \notin Unresolved
  BY <1>1, <1>3 DEF Resolved
<1>. QED
  BY <1>2, <1>3

LEMMA VerdictType ==
  ASSUME NEW a, NEW settled
  PROVE  VerdictOn(a, settled) \in Verdict
BY DEF VerdictOn, Verdict

----------------------------------------------------------------------------
(* Type correctness.                                                       *)

LEMMA TypeStep == TypeOK /\ [Next]_vars => TypeOK'
<1>. SUFFICES ASSUME TypeOK, [Next]_vars
              PROVE  TypeOK'
  OBVIOUS
<1>1. ASSUME NEW e \in Evaluation, EvaluateNoAuthority(e)
      PROVE  TypeOK'
  <2>1. decisions' \in Seq(Decision)
    BY <1>1, DecideAppends DEF EvaluateNoAuthority, NoAlert, NoAuthority, Routing
  <2>. QED
    BY <1>1, <2>1 DEF TypeOK, EvaluateNoAuthority
<1>2. ASSUME NEW e \in Evaluation, NEW a \in DOMAIN alerts, Restate(e, a)
      PROVE  TypeOK'
  <2>1. alerts[a] \in Alert /\ a \in Nat \ {0}
    BY AlertFields
  <2>2. Decide(e, "restated", a) /\ Issue(e, "restated", a)
    BY <1>2 DEF Restate
  <2>3. decisions' \in Seq(Decision) /\ NextDecision \in Nat \ {0}
    BY <2>1, <2>2, DecideAppends DEF Routing
  <2>4. executions' \subseteq Execution /\ cardEvents' \subseteq CardEvent
    BY <2>1, <2>2, IssueAdds DEF Routing
  <2>5. alerts' \in Seq(Alert)
    BY <1>2, <2>1, <2>3, RestatedType, AlertRewritten DEF Restate, TypeOK
  <2>. QED
    BY <1>2, <2>3, <2>4, <2>5 DEF TypeOK, Restate
<1>3. ASSUME NEW e \in Evaluation, NEW a \in DOMAIN alerts, Fold(e, a)
      PROVE  TypeOK'
  <2>1. alerts[a] \in Alert /\ a \in Nat \ {0}
    BY AlertFields
  <2>2. decisions' \in Seq(Decision)
    BY <1>3, <2>1, DecideAppends DEF Fold, Routing
  <2>3. alerts' \in Seq(Alert)
    BY <1>3, <2>1, FoldedType, AlertRewritten DEF Fold, TypeOK
  <2>. QED
    BY <1>3, <2>2, <2>3 DEF TypeOK, Fold
<1>4. ASSUME NEW e \in Evaluation, NEW a \in DOMAIN alerts, Suppress(e, a)
      PROVE  TypeOK'
  <2>1. decisions' \in Seq(Decision)
    BY <1>4, AlertFields, DecideAppends DEF Suppress, Routing
  <2>. QED
    BY <1>4, <2>1 DEF TypeOK, Suppress
<1>5. ASSUME NEW e \in Evaluation, Raise(e)
      PROVE  TypeOK'
  <2>1. NextAlert \in Nat \ {0}
    BY DEF NextAlert, TypeOK
  <2>2. Decide(e, "raised", NextAlert) /\ Issue(e, "raised", NextAlert)
    BY <1>5 DEF Raise
  <2>3. decisions' \in Seq(Decision) /\ NextDecision \in Nat \ {0}
    BY <2>1, <2>2, DecideAppends DEF Routing
  <2>4. executions' \subseteq Execution /\ cardEvents' \subseteq CardEvent
    BY <2>1, <2>2, IssueAdds DEF Routing
  <2>5. NewCase(e, NextDecision) \in Alert
    BY <1>5, <2>3 DEF NewCase, Alert, Evaluation, Raise
  <2>. QED
    BY <1>5, <2>3, <2>4, <2>5 DEF TypeOK, Raise
<1>6. ASSUME NEW a \in DOMAIN alerts, NEW v \in AnalystVerdict, WriteDisposition(a, v)
      PROVE  TypeOK'
  <2>1. [alert |-> a, disposition |-> v, source |-> "analyst"] \in CaseOutcome
    BY AlertFields, VerdictAssumption DEF CaseOutcome, Verdict
  <2>. QED
    BY <1>6, <2>1 DEF TypeOK, WriteDisposition
<1>7. ASSUME Settle
      PROVE  TypeOK'
  <2>. PICK draw \in [PendingChallenges -> Challenged] :
         LET settled == {Resolved(x, draw) : x \in executions} IN
         /\ executions' = settled
         /\ cardEvents' = cardEvents \cup OutcomeEvents(draw)
         /\ caseOutcomes' = caseOutcomes \cup
              {[alert |-> a, disposition |-> VerdictOn(a, settled), source |-> "synthetic"] :
                 a \in {b \in DOMAIN alerts : ~Dispositioned(b)}}
         /\ UNCHANGED <<decisions, alerts>>
    BY <1>7 DEF Settle
  <2>. DEFINE settled == {Resolved(x, draw) : x \in executions}
  <2>1. executions' \subseteq Execution
    BY ResolvedRow
  <2>2. OutcomeEvents(draw) \subseteq CardEvent
    BY DEF OutcomeEvents, CardEvent, PendingChallenges, Unresolved, TypeOK, Execution
  <2>3. \A a \in DOMAIN alerts :
          [alert |-> a, disposition |-> VerdictOn(a, settled), source |-> "synthetic"]
            \in CaseOutcome
    BY AlertFields, VerdictType DEF CaseOutcome
  <2>. QED
    BY <2>1, <2>2, <2>3 DEF TypeOK
<1>8. CASE UNCHANGED vars
  BY <1>8 DEF TypeOK, vars
<1>. QED
  BY <1>1, <1>2, <1>3, <1>4, <1>5, <1>6, <1>7, <1>8 DEF Next, Evaluate

(* The tables keep their shape under every transaction.                    *)
THEOREM TypeCorrect == Spec => []TypeOK
<1>1. Init => TypeOK
  BY DEF Init, TypeOK
<1>. QED
  BY <1>1, TypeStep, PTL DEF Spec

----------------------------------------------------------------------------
(* Cases only worsen.                                                      *)

(* What a step may do to one row of alerts.                                *)
Worsens(old, new) ==
  /\ new.subject = old.subject /\ new.rules = old.rules
  /\ new.score >= old.score
  /\ new.triggering >= old.triggering
  /\ new.first <= old.first /\ new.last >= old.last

LEMMA AlertNumbers ==
  ASSUME NEW alert \in Alert
  PROVE  /\ alert.triggering \in Int /\ alert.score \in Int
         /\ alert.first \in Int /\ alert.last \in Int
<1>1. /\ alert.triggering \in Nat \ {0} /\ alert.score \in Score
      /\ alert.first \in Time /\ alert.last \in Time
  BY DEF Alert
<1>2. alert.triggering \in Int
  BY <1>1
<1>3. alert.score \in Int
  BY <1>1, ScoreAssumption
<1>4. alert.first \in Int /\ alert.last \in Int
  BY <1>1, TimeAssumption
<1>. QED
  BY <1>2, <1>3, <1>4

LEMMA EvaluationNumbers ==
  ASSUME NEW e \in Evaluation
  PROVE  e.score \in Int /\ e.at \in Int
<1>1. e.score \in Score /\ e.at \in Time
  BY DEF Evaluation
<1>. QED
  BY <1>1, ScoreAssumption, TimeAssumption

LEMMA DecisionNumbers ==
  ASSUME TypeOK, NEW d \in DOMAIN decisions
  PROVE  decisions[d].score \in Int /\ decisions[d].at \in Int
<1>1. decisions[d] \in Decision
  BY DEF TypeOK
<1>2. decisions[d].score \in Score /\ decisions[d].at \in Time
  BY <1>1 DEF Decision
<1>. QED
  BY <1>2, ScoreAssumption, TimeAssumption

LEMMA WorsensItself ==
  ASSUME NEW alert \in Alert
  PROVE  Worsens(alert, alert)
BY AlertNumbers DEF Worsens

LEMMA FoldedWorsens ==
  ASSUME NEW alert \in Alert, NEW e \in Evaluation
  PROVE  /\ Worsens(alert, Folded(alert, e))
         /\ Folded(alert, e).first <= e.at /\ e.at <= Folded(alert, e).last
<1>1. /\ alert.triggering \in Int /\ alert.score \in Int
      /\ alert.first \in Int /\ alert.last \in Int /\ e.at \in Int
  BY AlertNumbers, EvaluationNumbers
<1>2. /\ Folded(alert, e).subject = alert.subject
      /\ Folded(alert, e).rules = alert.rules
      /\ Folded(alert, e).score = alert.score
      /\ Folded(alert, e).triggering = alert.triggering + 1
      /\ Folded(alert, e).first = Earlier(alert.first, e.at)
      /\ Folded(alert, e).last = Later(alert.last, e.at)
  BY DEF Folded, Alert
<1>. QED
  BY <1>1, <1>2 DEF Worsens, Earlier, Later

(* The fields of a restated case.                                          *)
LEMMA RestatedFields ==
  ASSUME NEW alert \in Alert, NEW e \in Evaluation, NEW d
  PROVE  /\ Restated(alert, e, d).subject = alert.subject
         /\ Restated(alert, e, d).rules = alert.rules
         /\ Restated(alert, e, d).triggering = Folded(alert, e).triggering
         /\ Restated(alert, e, d).first = Folded(alert, e).first
         /\ Restated(alert, e, d).last = Folded(alert, e).last
         /\ Restated(alert, e, d).decision = d
         /\ Restated(alert, e, d).bar = d
         /\ Restated(alert, e, d).score = e.score
<1>1. Folded(alert, e) \in Alert /\ Folded(alert, e).subject = alert.subject
                                /\ Folded(alert, e).rules = alert.rules
  BY FoldedType, FoldedWorsens DEF Worsens
<1>. QED
  BY <1>1 DEF Restated, Alert

(* No step removes a case, and each worsens or leaves every case.          *)
LEMMA CasesKept ==
  ASSUME TypeOK, [Next]_vars
  PROVE  \A b \in DOMAIN alerts : b \in DOMAIN alerts' /\ Worsens(alerts[b], alerts'[b])
<1>0. \A b \in DOMAIN alerts : Worsens(alerts[b], alerts[b])
  BY AlertFields, WorsensItself
<1>1. ASSUME UNCHANGED alerts
      PROVE  \A b \in DOMAIN alerts : b \in DOMAIN alerts' /\ Worsens(alerts[b], alerts'[b])
  BY <1>0, <1>1
<1>2. ASSUME NEW e \in Evaluation, NEW a \in DOMAIN alerts, Restate(e, a)
      PROVE  \A b \in DOMAIN alerts : b \in DOMAIN alerts' /\ Worsens(alerts[b], alerts'[b])
  <2>1. alerts[a] \in Alert /\ e.score > alerts[a].score /\ NextDecision \in Nat \ {0}
    BY <1>2, AlertFields DEF Restate, TypeOK, NextDecision
  <2>2. Worsens(alerts[a], Restated(alerts[a], e, NextDecision))
    <3>1. Worsens(alerts[a], Folded(alerts[a], e))
      BY <2>1, FoldedWorsens
    <3>2. e.score \in Int /\ alerts[a].score \in Int
      BY <2>1, AlertNumbers, EvaluationNumbers
    <3>. QED
      BY <2>1, <3>1, <3>2, RestatedFields DEF Worsens
  <2>3. Restated(alerts[a], e, NextDecision) \in Alert
    BY <2>1, RestatedType
  <2>. QED
    BY <1>0, <1>2, <2>2, <2>3, AlertRewritten DEF Restate, TypeOK
<1>3. ASSUME NEW e \in Evaluation, NEW a \in DOMAIN alerts, Fold(e, a)
      PROVE  \A b \in DOMAIN alerts : b \in DOMAIN alerts' /\ Worsens(alerts[b], alerts'[b])
  <2>1. Worsens(alerts[a], Folded(alerts[a], e)) /\ Folded(alerts[a], e) \in Alert
    BY AlertFields, FoldedWorsens, FoldedType
  <2>. QED
    BY <1>0, <1>3, <2>1, AlertRewritten DEF Fold, TypeOK
<1>4. ASSUME NEW e \in Evaluation, Raise(e)
      PROVE  \A b \in DOMAIN alerts : b \in DOMAIN alerts' /\ Worsens(alerts[b], alerts'[b])
  <2>1. alerts' = Append(alerts, NewCase(e, NextDecision)) /\ alerts \in Seq(Alert)
    BY <1>4 DEF Raise, TypeOK
  <2>2. \A b \in DOMAIN alerts : b \in DOMAIN alerts' /\ alerts'[b] = alerts[b]
    BY <2>1
  <2>. QED
    BY <1>0, <2>2
<1>. QED
  BY <1>1, <1>2, <1>3, <1>4
  DEF Next, Evaluate, EvaluateNoAuthority, Suppress, WriteDisposition, Settle, vars

(* A case keeps its identity, its score and count never fall and its span  *)
(* of events never shrinks (persist.py: _fold_alert, _restate_alert).      *)
CasesOnlyWorsen ==
  [][\A a \in DOMAIN alerts : a \in DOMAIN alerts' /\ Worsens(alerts[a], alerts'[a])]_vars

(* Cases only worsen, whatever the policy and the order of events.         *)
THEOREM CasesWorsen == Spec => CasesOnlyWorsen
<1>1. TypeOK /\ [Next]_vars =>
        [\A a \in DOMAIN alerts : a \in DOMAIN alerts' /\ Worsens(alerts[a], alerts'[a])]_vars
  BY CasesKept
<1>. QED
  BY <1>1, TypeCorrect, PTL DEF Spec, CasesOnlyWorsen

----------------------------------------------------------------------------
(* Routing.                                                                *)

(* A decision row agrees with the case it names in a table of alerts.      *)
NamesCase(d, table) ==
  /\ d.alert \in {NoAlert} \cup DOMAIN table
  /\ d.routing = NoAuthority <=> d.alert = NoAlert
  /\ d.routing = NoAuthority <=> d.rules = NoRules
  /\ d.alert # NoAlert =>
       /\ table[d.alert].subject = d.subject
       /\ table[d.alert].rules = d.rules <=> d.routing # "suppressed"

(* Of a decision the row appended last need be looked at.                  *)
LEMMA RoutingOfNew ==
  ASSUME TypeOK, RoutingNamesItsCase, [Next]_vars,
         NEW e \in Evaluation, NEW routing \in Routing, NEW a \in Nat,
         Decide(e, routing, a), NamesCase(Row(e, routing, a), alerts')
  PROVE  RoutingNamesItsCase'
<1>1. \A i \in DOMAIN decisions : NamesCase(decisions[i], alerts)
  BY DEF RoutingNamesItsCase, NamesCase
<1>2. \A i \in DOMAIN decisions : NamesCase(decisions[i], alerts')
  BY <1>1, CasesKept DEF NamesCase, Worsens
<1>3. \A i \in DOMAIN decisions' : NamesCase(decisions'[i], alerts')
  BY <1>2, DecideAppends
<1>. QED
  BY <1>3 DEF RoutingNamesItsCase, NamesCase

LEMMA RoutingStep == TypeOK /\ RoutingNamesItsCase /\ [Next]_vars => RoutingNamesItsCase'
<1>. SUFFICES ASSUME TypeOK, RoutingNamesItsCase, [Next]_vars
              PROVE  RoutingNamesItsCase'
  OBVIOUS
<1>1. ASSUME NEW e \in Evaluation, EvaluateNoAuthority(e)
      PROVE  RoutingNamesItsCase'
  <2>1. NamesCase(Row(e, NoAuthority, NoAlert), alerts')
    BY <1>1 DEF EvaluateNoAuthority, NamesCase, Row
  <2>. QED
    BY <1>1, <2>1, RoutingOfNew DEF EvaluateNoAuthority, NoAlert, Routing
<1>2. ASSUME NEW e \in Evaluation, NEW a \in DOMAIN alerts, Restate(e, a)
      PROVE  RoutingNamesItsCase'
  <2>1. alerts[a].subject = e.subject /\ alerts[a].rules = e.rules /\ e.rules # NoRules
    BY <1>2 DEF Restate, IsNewestOf, OpenCases
  <2>2. a # NoAlert /\ a \in Nat
    BY AlertFields DEF NoAlert
  <2>3. a \in DOMAIN alerts' /\ Worsens(alerts[a], alerts'[a])
    BY CasesKept
  <2>4. NamesCase(Row(e, "restated", a), alerts')
    BY <2>1, <2>2, <2>3 DEF NamesCase, Row, Worsens, NoAuthority
  <2>. QED
    BY <1>2, <2>2, <2>4, RoutingOfNew DEF Restate, Routing
<1>3. ASSUME NEW e \in Evaluation, NEW a \in DOMAIN alerts, Fold(e, a)
      PROVE  RoutingNamesItsCase'
  <2>1. alerts[a].subject = e.subject /\ alerts[a].rules = e.rules /\ e.rules # NoRules
    BY <1>3 DEF Fold, IsNewestOf, OpenCases
  <2>2. a # NoAlert /\ a \in Nat
    BY AlertFields DEF NoAlert
  <2>3. a \in DOMAIN alerts' /\ Worsens(alerts[a], alerts'[a])
    BY CasesKept
  <2>4. NamesCase(Row(e, "folded", a), alerts')
    BY <2>1, <2>2, <2>3 DEF NamesCase, Row, Worsens, NoAuthority
  <2>. QED
    BY <1>3, <2>2, <2>4, RoutingOfNew DEF Fold, Routing
<1>4. ASSUME NEW e \in Evaluation, NEW a \in DOMAIN alerts, Suppress(e, a)
      PROVE  RoutingNamesItsCase'
  <2>1. alerts[a].subject = e.subject /\ InWindow(e, a) /\ Policy[e.subject] # NoPolicy
    BY <1>4 DEF Suppress, IsNewestOf, SuppressingCases
  <2>2. alerts[a].rules # e.rules /\ e.rules # NoRules
    BY <1>4, <2>1 DEF Suppress, OpenCases
  <2>3. a # NoAlert /\ a \in Nat
    BY AlertFields DEF NoAlert
  <2>4. NamesCase(Row(e, "suppressed", a), alerts')
    BY <1>4, <2>1, <2>2, <2>3 DEF NamesCase, Row, NoAuthority, Suppress
  <2>. QED
    BY <1>4, <2>3, <2>4, RoutingOfNew DEF Suppress, Routing
<1>5. ASSUME NEW e \in Evaluation, Raise(e)
      PROVE  RoutingNamesItsCase'
  <2>1. alerts' = Append(alerts, NewCase(e, NextDecision)) /\ alerts \in Seq(Alert)
    BY <1>5 DEF Raise, TypeOK
  <2>2. NextAlert \in DOMAIN alerts' /\ alerts'[NextAlert] = NewCase(e, NextDecision)
    BY <2>1, TypeStep DEF NextAlert, TypeOK
  <2>3. NextAlert \in Nat /\ NextAlert # NoAlert
    BY DEF NextAlert, NoAlert, TypeOK
  <2>4. NamesCase(Row(e, "raised", NextAlert), alerts')
    BY <1>5, <2>2, <2>3 DEF NamesCase, Row, NewCase, NoAuthority, Raise
  <2>. QED
    BY <1>5, <2>3, <2>4, RoutingOfNew DEF Raise, Routing
<1>6. CASE UNCHANGED <<decisions, alerts>>
  BY <1>6 DEF RoutingNamesItsCase
<1>. QED
  BY <1>1, <1>2, <1>3, <1>4, <1>5, <1>6 DEF Next, Evaluate, WriteDisposition, Settle, vars

(* Every decision says consistently what became of it: it names a case of  *)
(* its subject exactly when a rule had authority, and one under its own    *)
(* rule set exactly when it was not suppressed.                            *)
THEOREM RoutingCorrect == Spec => []RoutingNamesItsCase
<1>1. Init => RoutingNamesItsCase
  BY DEF Init, RoutingNamesItsCase
<1>. QED
  BY <1>1, RoutingStep, TypeCorrect, PTL DEF Spec

----------------------------------------------------------------------------
(* What a case shows.                                                      *)

BelongsTo == {"raised", "folded", "restated"}

(* Deciding adds the new decision to the evidence of the case it belongs   *)
(* to, and to no other.                                                    *)
LEMMA EvidenceGrows ==
  ASSUME TypeOK, NEW e \in Evaluation, NEW routing \in Routing, NEW c \in Nat,
         Decide(e, routing, c), NEW a
  PROVE  /\ a = c /\ routing \in BelongsTo => Evidence(a)' = Evidence(a) \cup {NextDecision}
         /\ a # c \/ routing \notin BelongsTo => Evidence(a)' = Evidence(a)
         /\ NextDecision \notin Evidence(a)
         /\ \A d \in Evidence(a) : decisions'[d] = decisions[d]
<1>1. decisions'[NextDecision].alert = c /\ decisions'[NextDecision].routing = routing
  BY DecidedFields
<1>. QED
  BY <1>1, DecideAppends DEF Evidence, BelongsTo

(* The case a row of alerts shows: one decision, the worst of its evidence. *)
ShowsWorst(a) ==
  /\ alerts[a].decision \in Evidence(a)
  /\ alerts[a].bar = alerts[a].decision
  /\ alerts[a].score = decisions[alerts[a].decision].score
  /\ \A d \in Evidence(a) : decisions[d].score <= alerts[a].score

LEMMA WorstKept ==
  ASSUME TypeOK, NEW a \in DOMAIN alerts, ShowsWorst(a),
         a \in DOMAIN alerts', alerts'[a] = alerts[a],
         Evidence(a)' = Evidence(a), \A d \in Evidence(a) : decisions'[d] = decisions[d]
  PROVE  ShowsWorst(a)'
BY DEF ShowsWorst

LEMMA WorstStep ==
  TypeOK /\ RoutingNamesItsCase /\ WorstViewShown /\ [Next]_vars => WorstViewShown'
<1>. SUFFICES ASSUME TypeOK, RoutingNamesItsCase, WorstViewShown, [Next]_vars
              PROVE  WorstViewShown'
  OBVIOUS
<1>0. \A a \in DOMAIN alerts : ShowsWorst(a)
  BY DEF WorstViewShown, ShowsWorst
<1>. SUFFICES ASSUME NEW b \in DOMAIN alerts'
              PROVE  ShowsWorst(b)'
  BY DEF WorstViewShown, ShowsWorst
<1>1. ASSUME NEW e \in Evaluation, EvaluateNoAuthority(e)
      PROVE  ShowsWorst(b)'
  <2>1. Evidence(b)' = Evidence(b) /\ \A d \in Evidence(b) : decisions'[d] = decisions[d]
    BY <1>1, EvidenceGrows DEF EvaluateNoAuthority, NoAlert, NoAuthority, Routing, BelongsTo
  <2>. QED
    BY <1>0, <1>1, <2>1, WorstKept DEF EvaluateNoAuthority
<1>2. ASSUME NEW e \in Evaluation, NEW a \in DOMAIN alerts, Restate(e, a)
      PROVE  ShowsWorst(b)'
  <2>1. /\ alerts[a] \in Alert /\ a \in Nat /\ e.score > alerts[a].score
        /\ NextDecision \in Nat \ {0} /\ Decide(e, "restated", a)
    BY <1>2, AlertFields DEF Restate, TypeOK, NextDecision
  <2>2. /\ b \in DOMAIN alerts
        /\ b = a => alerts'[b] = Restated(alerts[a], e, NextDecision)
        /\ b # a => alerts'[b] = alerts[b]
    BY <1>2, <2>1, RestatedType, AlertRewritten DEF Restate, TypeOK
  <2>3. CASE b # a
    <3>1. Evidence(b)' = Evidence(b) /\ \A d \in Evidence(b) : decisions'[d] = decisions[d]
      BY <2>1, <2>3, EvidenceGrows DEF Routing
    <3>. QED
      BY <1>0, <2>2, <2>3, <3>1, WorstKept
  <2>4. CASE b = a
    <3>1. /\ Evidence(a)' = Evidence(a) \cup {NextDecision}
          /\ \A d \in Evidence(a) : decisions'[d] = decisions[d]
      BY <2>1, EvidenceGrows DEF Routing, BelongsTo
    <3>2. decisions'[NextDecision].score = e.score
      BY <2>1, DecidedFields DEF Routing
    <3>3. /\ alerts'[a].decision = NextDecision /\ alerts'[a].bar = NextDecision
          /\ alerts'[a].score = e.score
      BY <2>1, <2>2, <2>4, RestatedFields
    <3>4. \A d \in Evidence(a) : decisions[d].score <= alerts[a].score
      BY <1>0 DEF ShowsWorst
    <3>5. \A d \in Evidence(a) : decisions[d].score \in Int
      BY DecisionNumbers DEF Evidence
    <3>6. \A d \in Evidence(a)' : decisions'[d].score <= e.score
      BY <2>1, <3>1, <3>2, <3>4, <3>5, AlertNumbers, EvaluationNumbers
    <3>. QED
      BY <2>4, <3>1, <3>2, <3>3, <3>6 DEF ShowsWorst
  <2>. QED
    BY <2>3, <2>4
<1>3. ASSUME NEW e \in Evaluation, NEW a \in DOMAIN alerts, Fold(e, a)
      PROVE  ShowsWorst(b)'
  <2>1. /\ alerts[a] \in Alert /\ a \in Nat /\ e.score <= alerts[a].score
        /\ Decide(e, "folded", a)
    BY <1>3, AlertFields DEF Fold
  <2>2. /\ b \in DOMAIN alerts
        /\ b = a => alerts'[b] = Folded(alerts[a], e)
        /\ b # a => alerts'[b] = alerts[b]
    BY <1>3, <2>1, FoldedType, AlertRewritten DEF Fold, TypeOK
  <2>3. CASE b # a
    <3>1. Evidence(b)' = Evidence(b) /\ \A d \in Evidence(b) : decisions'[d] = decisions[d]
      BY <2>1, <2>3, EvidenceGrows DEF Routing
    <3>. QED
      BY <1>0, <2>2, <2>3, <3>1, WorstKept
  <2>4. CASE b = a
    <3>1. /\ Evidence(a)' = Evidence(a) \cup {NextDecision}
          /\ \A d \in Evidence(a) : decisions'[d] = decisions[d]
      BY <2>1, EvidenceGrows DEF Routing, BelongsTo
    <3>2. decisions'[NextDecision].score = e.score
      BY <2>1, DecidedFields DEF Routing
    <3>3. /\ alerts'[a].decision = alerts[a].decision /\ alerts'[a].bar = alerts[a].bar
          /\ alerts'[a].score = alerts[a].score
      BY <2>1, <2>2, <2>4 DEF Folded, Alert
    <3>. QED
      BY <1>0, <2>1, <2>4, <3>1, <3>2, <3>3 DEF ShowsWorst
  <2>. QED
    BY <2>3, <2>4
<1>4. ASSUME NEW e \in Evaluation, NEW a \in DOMAIN alerts, Suppress(e, a)
      PROVE  ShowsWorst(b)'
  <2>1. Evidence(b)' = Evidence(b) /\ \A d \in Evidence(b) : decisions'[d] = decisions[d]
    BY <1>4, AlertFields, EvidenceGrows DEF Suppress, Routing, BelongsTo
  <2>. QED
    BY <1>0, <1>4, <2>1, WorstKept DEF Suppress
<1>5. ASSUME NEW e \in Evaluation, Raise(e)
      PROVE  ShowsWorst(b)'
  <2>1. /\ alerts' = Append(alerts, NewCase(e, NextDecision)) /\ alerts \in Seq(Alert)
        /\ Decide(e, "raised", NextAlert) /\ NextAlert \in Nat \ {0}
    BY <1>5 DEF Raise, TypeOK, NextAlert
  <2>2. /\ b \in DOMAIN alerts => alerts'[b] = alerts[b]
        /\ b \notin DOMAIN alerts => b = NextAlert /\ alerts'[b] = NewCase(e, NextDecision)
        /\ NextAlert \notin DOMAIN alerts
    BY <2>1, <1>5, TypeStep DEF NextAlert, TypeOK
  <2>3. CASE b \in DOMAIN alerts
    <3>1. Evidence(b)' = Evidence(b) /\ \A d \in Evidence(b) : decisions'[d] = decisions[d]
      BY <2>1, <2>2, <2>3, EvidenceGrows DEF Routing
    <3>. QED
      BY <1>0, <2>2, <2>3, <3>1, WorstKept
  <2>4. CASE b \notin DOMAIN alerts
    <3>1. Evidence(b) = {}
      BY <2>1, <2>2, <2>4 DEF Evidence, RoutingNamesItsCase, NoAlert
    <3>2. Evidence(b)' = {NextDecision}
      <4>1. "raised" \in Routing /\ "raised" \in BelongsTo
        BY DEF Routing, BelongsTo
      <4>2. b = NextAlert /\ b \in Nat
        BY <2>1, <2>2, <2>4
      <4>. QED
        BY <2>1, <3>1, <4>1, <4>2, EvidenceGrows
    <3>3. decisions'[NextDecision].score = e.score
      BY <2>1, DecidedFields DEF Routing
    <3>4. e.score <= e.score
      BY EvaluationNumbers
    <3>. QED
      BY <2>2, <2>4, <3>2, <3>3, <3>4 DEF ShowsWorst, NewCase
  <2>. QED
    BY <2>3, <2>4
<1>6. CASE UNCHANGED <<decisions, alerts>>
  BY <1>0, <1>6 DEF ShowsWorst, Evidence
<1>. QED
  BY <1>1, <1>2, <1>3, <1>4, <1>5, <1>6 DEF Next, Evaluate, WriteDisposition, Settle, vars

(* A case shows the worst evaluation that belongs to it, and its bar holds *)
(* that evaluation's signals, however folds and restatements interleave.   *)
THEOREM WorstViewCorrect == Spec => []WorstViewShown
<1>1. Init => WorstViewShown
  BY DEF Init, WorstViewShown
<1>. QED
  BY <1>1, WorstStep, RoutingCorrect, TypeCorrect, PTL DEF Spec

----------------------------------------------------------------------------
(* The evidence of a case is counted.                                      *)

LEMMA EvidenceFinite ==
  ASSUME TypeOK, NEW a
  PROVE  IsFiniteSet(Evidence(a)) /\ Cardinality(Evidence(a)) \in Nat
<1>1. DOMAIN decisions = 1..Len(decisions) /\ Len(decisions) \in Nat
  BY DEF TypeOK
<1>2. IsFiniteSet(1..Len(decisions))
  BY <1>1, FS_Interval
<1>3. IsFiniteSet(Evidence(a))
  BY <1>1, <1>2, FS_Subset DEF Evidence
<1>. QED
  BY <1>3, FS_CardinalityType

Counts(a) ==
  /\ alerts[a].triggering = Cardinality(Evidence(a))
  /\ \A d \in Evidence(a) :
       alerts[a].first <= decisions[d].at /\ decisions[d].at <= alerts[a].last
  /\ \E d \in Evidence(a) : decisions[d].at = alerts[a].first
  /\ \E d \in Evidence(a) : decisions[d].at = alerts[a].last

LEMMA CountsKept ==
  ASSUME TypeOK, NEW a \in DOMAIN alerts, Counts(a),
         a \in DOMAIN alerts', alerts'[a] = alerts[a],
         Evidence(a)' = Evidence(a), \A d \in Evidence(a) : decisions'[d] = decisions[d]
  PROVE  Counts(a)'
BY DEF Counts

(* A fold or a restatement counts the new decision and widens the span.    *)
LEMMA CountsOneMore ==
  ASSUME TypeOK, NEW e \in Evaluation, NEW routing \in BelongsTo,
         NEW a \in DOMAIN alerts, Counts(a), Decide(e, routing, a),
         a \in DOMAIN alerts',
         alerts'[a].triggering = Folded(alerts[a], e).triggering,
         alerts'[a].first = Folded(alerts[a], e).first,
         alerts'[a].last = Folded(alerts[a], e).last
  PROVE  Counts(a)'
<1>1. alerts[a] \in Alert /\ a \in Nat /\ routing \in Routing
  BY AlertFields DEF BelongsTo, Routing
<1>2. /\ Evidence(a)' = Evidence(a) \cup {NextDecision}
      /\ NextDecision \notin Evidence(a)
      /\ \A d \in Evidence(a) : decisions'[d] = decisions[d]
  BY <1>1, EvidenceGrows
<1>3. decisions'[NextDecision].at = e.at
  BY <1>1, DecidedFields
<1>4. /\ Folded(alerts[a], e).triggering = alerts[a].triggering + 1
      /\ Folded(alerts[a], e).first = Earlier(alerts[a].first, e.at)
      /\ Folded(alerts[a], e).last = Later(alerts[a].last, e.at)
  BY <1>1 DEF Folded, Alert
<1>5. /\ e.at \in Int /\ alerts[a].first \in Int /\ alerts[a].last \in Int
      /\ \A d \in Evidence(a) : decisions[d].at \in Int
  BY <1>1, AlertNumbers, EvaluationNumbers, DecisionNumbers DEF Evidence
<1>6. Cardinality(Evidence(a)') = Cardinality(Evidence(a)) + 1
  BY <1>2, EvidenceFinite, FS_AddElement
<1>7. alerts'[a].triggering = Cardinality(Evidence(a)')
  BY <1>4, <1>6 DEF Counts
<1>8. \A d \in Evidence(a)' :
        alerts'[a].first <= decisions'[d].at /\ decisions'[d].at <= alerts'[a].last
  BY <1>2, <1>3, <1>4, <1>5 DEF Counts, Earlier, Later
<1>9. \E d \in Evidence(a)' : decisions'[d].at = alerts'[a].first
  BY <1>2, <1>3, <1>4 DEF Counts, Earlier
<1>10. \E d \in Evidence(a)' : decisions'[d].at = alerts'[a].last
  BY <1>2, <1>3, <1>4 DEF Counts, Later
<1>. QED
  BY <1>7, <1>8, <1>9, <1>10 DEF Counts

LEMMA CountedStep ==
  TypeOK /\ RoutingNamesItsCase /\ EvidenceCounted /\ [Next]_vars => EvidenceCounted'
<1>. SUFFICES ASSUME TypeOK, RoutingNamesItsCase, EvidenceCounted, [Next]_vars
              PROVE  EvidenceCounted'
  OBVIOUS
<1>0. \A a \in DOMAIN alerts : Counts(a)
  BY DEF EvidenceCounted, Counts
<1>. SUFFICES ASSUME NEW b \in DOMAIN alerts'
              PROVE  Counts(b)'
  BY DEF EvidenceCounted, Counts
<1>1. ASSUME NEW e \in Evaluation, EvaluateNoAuthority(e)
      PROVE  Counts(b)'
  <2>1. Evidence(b)' = Evidence(b) /\ \A d \in Evidence(b) : decisions'[d] = decisions[d]
    BY <1>1, EvidenceGrows DEF EvaluateNoAuthority, NoAlert, NoAuthority, Routing, BelongsTo
  <2>. QED
    BY <1>0, <1>1, <2>1, CountsKept DEF EvaluateNoAuthority
<1>2. ASSUME NEW e \in Evaluation, NEW a \in DOMAIN alerts, NEW routing \in {"folded", "restated"},
             NEW row \in Alert, alerts' = [alerts EXCEPT ![a] = row],
             Decide(e, routing, a),
             row.triggering = Folded(alerts[a], e).triggering,
             row.first = Folded(alerts[a], e).first,
             row.last = Folded(alerts[a], e).last
      PROVE  Counts(b)'
  <2>1. /\ routing \in BelongsTo /\ routing \in Routing /\ a \in Nat
        /\ b \in DOMAIN alerts /\ a \in DOMAIN alerts'
        /\ alerts'[b] = IF b = a THEN row ELSE alerts[b]
    BY <1>2, AlertFields, AlertRewritten DEF TypeOK, BelongsTo, Routing
  <2>2. CASE b # a
    <3>1. Evidence(b)' = Evidence(b) /\ \A d \in Evidence(b) : decisions'[d] = decisions[d]
      BY <1>2, <2>1, <2>2, EvidenceGrows
    <3>. QED
      BY <1>0, <2>1, <2>2, <3>1, CountsKept
  <2>3. CASE b = a
    BY <1>0, <1>2, <2>1, <2>3, CountsOneMore
  <2>. QED
    BY <2>2, <2>3
<1>3. ASSUME NEW e \in Evaluation, NEW a \in DOMAIN alerts, Restate(e, a)
      PROVE  Counts(b)'
  <2>1. alerts[a] \in Alert /\ NextDecision \in Nat \ {0}
    BY AlertFields DEF NextDecision, TypeOK
  <2>. DEFINE row == Restated(alerts[a], e, NextDecision)
  <2>2. /\ row \in Alert
        /\ row.triggering = Folded(alerts[a], e).triggering
        /\ row.first = Folded(alerts[a], e).first
        /\ row.last = Folded(alerts[a], e).last
    BY <2>1, RestatedType, RestatedFields
  <2>3. alerts' = [alerts EXCEPT ![a] = row] /\ Decide(e, "restated", a)
    BY <1>3 DEF Restate
  <2>. HIDE DEF row
  <2>. QED
    BY <1>2, <2>2, <2>3
<1>4. ASSUME NEW e \in Evaluation, NEW a \in DOMAIN alerts, Fold(e, a)
      PROVE  Counts(b)'
  <2>1. Folded(alerts[a], e) \in Alert
    BY AlertFields, FoldedType
  <2>2. alerts' = [alerts EXCEPT ![a] = Folded(alerts[a], e)] /\ Decide(e, "folded", a)
    BY <1>4 DEF Fold
  <2>. QED
    BY <1>2, <2>1, <2>2
<1>5. ASSUME NEW e \in Evaluation, NEW a \in DOMAIN alerts, Suppress(e, a)
      PROVE  Counts(b)'
  <2>1. Evidence(b)' = Evidence(b) /\ \A d \in Evidence(b) : decisions'[d] = decisions[d]
    BY <1>5, AlertFields, EvidenceGrows DEF Suppress, Routing, BelongsTo
  <2>. QED
    BY <1>0, <1>5, <2>1, CountsKept DEF Suppress
<1>6. ASSUME NEW e \in Evaluation, Raise(e)
      PROVE  Counts(b)'
  <2>1. /\ alerts' = Append(alerts, NewCase(e, NextDecision)) /\ alerts \in Seq(Alert)
        /\ Decide(e, "raised", NextAlert) /\ NextAlert \in Nat \ {0}
        /\ "raised" \in Routing /\ "raised" \in BelongsTo
    BY <1>6 DEF Raise, TypeOK, NextAlert, Routing, BelongsTo
  <2>2. /\ b \in DOMAIN alerts => alerts'[b] = alerts[b]
        /\ b \notin DOMAIN alerts => b = NextAlert /\ alerts'[b] = NewCase(e, NextDecision)
        /\ NextAlert \notin DOMAIN alerts
    BY <2>1, <1>6, TypeStep DEF NextAlert, TypeOK
  <2>3. CASE b \in DOMAIN alerts
    <3>1. Evidence(b)' = Evidence(b) /\ \A d \in Evidence(b) : decisions'[d] = decisions[d]
      BY <2>1, <2>2, <2>3, EvidenceGrows
    <3>. QED
      BY <1>0, <2>2, <2>3, <3>1, CountsKept
  <2>4. CASE b \notin DOMAIN alerts
    <3>1. Evidence(b) = {}
      BY <2>1, <2>2, <2>4 DEF Evidence, RoutingNamesItsCase, NoAlert
    <3>2. b = NextAlert /\ b \in Nat
      BY <2>1, <2>2, <2>4
    <3>3. Evidence(b)' = {NextDecision}
      BY <2>1, <3>1, <3>2, EvidenceGrows
    <3>4. Cardinality({NextDecision}) = 1
      BY FS_Singleton
    <3>5. decisions'[NextDecision].at = e.at
      BY <2>1, DecidedFields
    <3>6. e.at <= e.at
      BY EvaluationNumbers
    <3>7. /\ alerts'[b].triggering = 1 /\ alerts'[b].first = e.at /\ alerts'[b].last = e.at
      BY <2>2, <2>4 DEF NewCase
    <3>. QED
      BY <3>3, <3>4, <3>5, <3>6, <3>7 DEF Counts
  <2>. QED
    BY <2>3, <2>4
<1>7. CASE UNCHANGED <<decisions, alerts>>
  BY <1>0, <1>7 DEF Counts, Evidence
<1>. QED
  BY <1>1, <1>3, <1>4, <1>5, <1>6, <1>7 DEF Next, Evaluate, WriteDisposition, Settle, vars

(* triggering_events is the number of decisions that belong to a case, and *)
(* first_event_at and last_event_at are the ends of their event times, in  *)
(* whatever order the events arrived.                                      *)
THEOREM EvidenceCountCorrect == Spec => []EvidenceCounted
<1>1. Init => EvidenceCounted
  BY DEF Init, EvidenceCounted
<1>. QED
  BY <1>1, CountedStep, RoutingCorrect, TypeCorrect, PTL DEF Spec

----------------------------------------------------------------------------
(* What is issued for a case.                                              *)

(* A decision that issues nothing: folded, suppressed or without authority. *)
LEMMA OneStepUpUnissued ==
  ASSUME TypeOK, OneStepUpPerCase, NEW e \in Evaluation,
         NEW routing \in Routing \ {"raised", "restated"}, NEW a \in Nat,
         Decide(e, routing, a), UNCHANGED executions
  PROVE  OneStepUpPerCase'
<1>1. /\ DOMAIN decisions' = DOMAIN decisions \cup {NextDecision}
      /\ \A d \in DOMAIN decisions : decisions'[d] = decisions[d]
      /\ decisions'[NextDecision].routing \notin {"raised", "restated"}
  BY DecideAppends, DecidedFields
<1>. QED
  BY <1>1 DEF OneStepUpPerCase

(* A raise or a restatement issues what is wanted, for the new decision.   *)
LEMMA OneStepUpIssued ==
  ASSUME TypeOK, OneStepUpPerCase, NEW e \in Evaluation,
         NEW routing \in {"raised", "restated"}, NEW a \in Nat \ {0},
         Decide(e, routing, a), Issue(e, routing, a),
         routing = "raised" => \A d \in DOMAIN decisions : decisions[d].alert # a
  PROVE  OneStepUpPerCase'
<1>. DEFINE n == NextDecision
            new == {Issued(a, act) : act \in Wanted(e, routing)}
<1>0. routing \in Routing /\ a \in Nat /\ Notify \notin Preventive
  BY NotifyAssumption, ActionAssumption DEF Routing, Notify
<1>1. /\ DOMAIN decisions' = DOMAIN decisions \cup {n}
      /\ n \notin DOMAIN decisions
      /\ \A d \in DOMAIN decisions : decisions'[d] = decisions[d]
  BY <1>0, DecideAppends
<1>2. /\ decisions'[n].routing = routing /\ decisions'[n].alert = a
      /\ decisions'[n].action = e.action
  BY <1>0, DecidedFields
<1>3. executions' = executions \cup new
  BY <1>0, IssueAdds
<1>4. \A x \in new : /\ x.decision = n /\ x.alert = a /\ x.action \in Wanted(e, routing)
                     /\ x = Issued(a, x.action)
  BY <1>0, IssueAdds
<1>5. \A act \in Wanted(e, routing) : Issued(a, act) \in new /\ Issued(a, act).decision = n
                                     /\ Issued(a, act).action = act
  BY <1>0, IssueAdds
<1>6. /\ Notify \in Wanted(e, routing)
      /\ \A act \in Wanted(e, routing) :
           act # Notify => act = e.action /\ act \in Preventive /\ routing = "raised"
      /\ routing = "raised" /\ e.action \in Preventive => e.action \in Wanted(e, routing)
  BY <1>0 DEF Wanted
<1>7. \A x \in executions : x.decision \in DOMAIN decisions
  BY DEF OneStepUpPerCase
<1>. HIDE DEF n, new
<1>8. \A c, d \in DOMAIN decisions' :
        /\ decisions'[c].routing = "raised" /\ decisions'[d].routing = "raised"
        /\ decisions'[c].alert = decisions'[d].alert
        => c = d
  BY <1>1, <1>2 DEF OneStepUpPerCase
<1>9. \A x, y \in executions' : x.decision = y.decision /\ x.action = y.action => x = y
  BY <1>1, <1>3, <1>4, <1>7 DEF OneStepUpPerCase
<1>10. \A x, y \in executions' :
         x.alert = y.alert /\ x.action \in Preventive /\ y.action \in Preventive => x = y
  <2>1. ASSUME NEW x \in executions, NEW y \in new, x.alert = y.alert,
               x.action \in Preventive, y.action \in Preventive
        PROVE  FALSE
    <3>1. routing = "raised" /\ y.alert = a
      BY <1>0, <1>4, <1>6, <2>1
    <3>2. decisions[x.decision].alert = x.alert
      BY DEF OneStepUpPerCase
    <3>. QED
      BY <1>7, <2>1, <3>1, <3>2
  <2>2. ASSUME NEW x \in new, NEW y \in new,
               x.action \in Preventive, y.action \in Preventive
        PROVE  x = y
    BY <1>0, <1>4, <1>6, <2>2
  <2>3. ASSUME NEW x \in executions, NEW y \in executions, x.alert = y.alert,
               x.action \in Preventive, y.action \in Preventive
        PROVE  x = y
    BY <2>3 DEF OneStepUpPerCase
  <2>. QED
    BY <1>3, <2>1, <2>2, <2>3
<1>11. \A x \in executions' :
         /\ x.decision \in DOMAIN decisions'
         /\ decisions'[x.decision].alert = x.alert
         /\ decisions'[x.decision].routing \in {"raised", "restated"}
         /\ x.action # Notify => /\ decisions'[x.decision].routing = "raised"
                                /\ decisions'[x.decision].action = x.action
  <2>1. ASSUME NEW x \in executions
        PROVE  /\ x.decision \in DOMAIN decisions
               /\ decisions[x.decision].alert = x.alert
               /\ decisions[x.decision].routing \in {"raised", "restated"}
               /\ x.action # Notify => /\ decisions[x.decision].routing = "raised"
                                      /\ decisions[x.decision].action = x.action
    BY DEF OneStepUpPerCase
  <2>. QED
    BY <1>1, <1>2, <1>3, <1>4, <1>6, <2>1
<1>12. ASSUME NEW d \in DOMAIN decisions'
       PROVE  /\ decisions'[d].routing \in {"raised", "restated"}
                   => \E x \in executions' : x.decision = d /\ x.action = Notify
              /\ decisions'[d].routing = "raised" /\ decisions'[d].action \in Preventive
                   => \E x \in executions' : x.decision = d /\ x.action = decisions'[d].action
  <2>1. CASE d = n
    BY <1>2, <1>3, <1>5, <1>6, <2>1
  <2>2. CASE d # n
    BY <1>1, <1>3, <2>2 DEF OneStepUpPerCase
  <2>. QED
    BY <2>1, <2>2
<1>. QED
  BY <1>8, <1>9, <1>10, <1>11, <1>12 DEF OneStepUpPerCase

LEMMA OneStepUpStep ==
  TypeOK /\ RoutingNamesItsCase /\ OneStepUpPerCase /\ [Next]_vars => OneStepUpPerCase'
<1>. SUFFICES ASSUME TypeOK, RoutingNamesItsCase, OneStepUpPerCase, [Next]_vars
              PROVE  OneStepUpPerCase'
  OBVIOUS
<1>1. ASSUME NEW e \in Evaluation, EvaluateNoAuthority(e)
      PROVE  OneStepUpPerCase'
  BY <1>1, OneStepUpUnissued DEF EvaluateNoAuthority, Routing, NoAuthority, NoAlert
<1>2. ASSUME NEW e \in Evaluation, NEW a \in DOMAIN alerts, Restate(e, a)
      PROVE  OneStepUpPerCase'
  BY <1>2, AlertFields, OneStepUpIssued DEF Restate
<1>3. ASSUME NEW e \in Evaluation, NEW a \in DOMAIN alerts, Fold(e, a)
      PROVE  OneStepUpPerCase'
  BY <1>3, AlertFields, OneStepUpUnissued DEF Fold, Routing
<1>4. ASSUME NEW e \in Evaluation, NEW a \in DOMAIN alerts, Suppress(e, a)
      PROVE  OneStepUpPerCase'
  BY <1>4, AlertFields, OneStepUpUnissued DEF Suppress, Routing
<1>5. ASSUME NEW e \in Evaluation, Raise(e)
      PROVE  OneStepUpPerCase'
  <2>1. NextAlert \in Nat \ {0} /\ NextAlert \notin DOMAIN alerts
    BY DEF NextAlert, TypeOK
  <2>2. \A d \in DOMAIN decisions : decisions[d].alert # NextAlert
    BY <2>1 DEF RoutingNamesItsCase, NoAlert
  <2>. QED
    BY <1>5, <2>1, <2>2, OneStepUpIssued DEF Raise
<1>6. CASE UNCHANGED <<decisions, executions>>
  BY <1>6 DEF OneStepUpPerCase
<1>7. ASSUME Settle
      PROVE  OneStepUpPerCase'
  <2>. PICK draw \in [PendingChallenges -> Challenged] :
         /\ executions' = {Resolved(x, draw) : x \in executions}
         /\ UNCHANGED decisions
    BY <1>7 DEF Settle
  <2>1. \A x \in executions : /\ Resolved(x, draw).decision = x.decision
                             /\ Resolved(x, draw).alert = x.alert
                             /\ Resolved(x, draw).action = x.action
    BY ResolvedRow
  <2>. QED
    BY <2>1 DEF OneStepUpPerCase
<1>. QED
  BY <1>1, <1>2, <1>3, <1>4, <1>5, <1>6, <1>7 DEF Next, Evaluate, WriteDisposition, vars

(* A case steps its customer up at most once, by the one decision that     *)
(* raised it; every raise and restatement notifies, and nothing else does. *)
THEOREM OneStepUpCorrect == Spec => []OneStepUpPerCase
<1>1. Init => OneStepUpPerCase
  BY DEF Init, OneStepUpPerCase
<1>. QED
  BY <1>1, OneStepUpStep, RoutingCorrect, TypeCorrect, PTL DEF Spec

----------------------------------------------------------------------------
(* One case per situation.  When the events of a subject come in order,    *)
(* none precedes a case of the subject, so a window is left by its end     *)
(* only and a fold does not move the start of a case.                      *)
LEMMA NoneBeforeCase ==
  ASSUME TypeOK, RoutingNamesItsCase, EvidenceCounted, InOrder,
         NEW e \in Evaluation, Arrives(e),
         NEW a \in DOMAIN alerts, alerts[a].subject = e.subject
  PROVE  alerts[a].first <= e.at
<1>1. PICK d \in Evidence(a) : decisions[d].at = alerts[a].first
  BY DEF EvidenceCounted
<1>2. d \in DOMAIN decisions /\ decisions[d].alert = a
  BY <1>1 DEF Evidence
<1>3. a # NoAlert
  BY AlertFields DEF NoAlert
<1>4. decisions[d].subject = e.subject
  BY <1>2, <1>3 DEF RoutingNamesItsCase
<1>. QED
  BY <1>1, <1>2, <1>4 DEF Arrives

(* A fold or a restatement leaves subject, rules and start of each case.   *)
LEMMA StartsKept ==
  ASSUME TypeOK, RoutingNamesItsCase, EvidenceCounted, InOrder,
         NEW e \in Evaluation, Arrives(e), NEW a \in DOMAIN alerts,
         Fold(e, a) \/ Restate(e, a)
  PROVE  /\ DOMAIN alerts' = DOMAIN alerts
         /\ \A b \in DOMAIN alerts :
              /\ alerts'[b].subject = alerts[b].subject /\ alerts'[b].rules = alerts[b].rules
              /\ alerts'[b].first = alerts[b].first
<1>1. alerts[a].subject = e.subject
  BY DEF Fold, Restate, IsNewestOf, OpenCases
<1>2. alerts[a].first <= e.at
  BY <1>1, NoneBeforeCase
<1>3. alerts[a] \in Alert /\ NextDecision \in Nat \ {0}
  BY AlertFields DEF TypeOK, NextDecision
<1>4. /\ Folded(alerts[a], e).subject = alerts[a].subject
      /\ Folded(alerts[a], e).rules = alerts[a].rules
      /\ Folded(alerts[a], e).first = alerts[a].first
  BY <1>2, <1>3 DEF Folded, Earlier, Alert
<1>5. /\ Restated(alerts[a], e, NextDecision).subject = alerts[a].subject
      /\ Restated(alerts[a], e, NextDecision).rules = alerts[a].rules
      /\ Restated(alerts[a], e, NextDecision).first = alerts[a].first
  BY <1>3, <1>4, FoldedType DEF Restated, Alert
<1>6. PICK row \in {Folded(alerts[a], e), Restated(alerts[a], e, NextDecision)} :
        alerts' = [alerts EXCEPT ![a] = row]
  BY DEF Fold, Restate
<1>7. row \in Alert
  BY <1>3, <1>6, FoldedType, RestatedType
<1>. QED
  BY <1>4, <1>5, <1>6, <1>7, AlertRewritten DEF TypeOK

(* A verdict only takes pairs of cases out of the property.                *)
LEMMA SituationKept ==
  ASSUME TypeOK, OneCasePerSituation, DOMAIN alerts' = DOMAIN alerts,
         caseOutcomes \subseteq caseOutcomes',
         InOrder => \A b \in DOMAIN alerts :
           /\ alerts'[b].subject = alerts[b].subject /\ alerts'[b].rules = alerts[b].rules
           /\ alerts'[b].first = alerts[b].first
  PROVE  OneCasePerSituation'
<1>1. \A a : Dispositioned(a) => Dispositioned(a)'
  BY DEF Dispositioned
<1>. QED
  BY <1>1 DEF OneCasePerSituation

LEMMA SituationRaised ==
  ASSUME TypeOK, RoutingNamesItsCase, EvidenceCounted, OneCasePerSituation,
         NEW e \in Evaluation, Arrives(e), Raise(e)
  PROVE  OneCasePerSituation'
<1>1. /\ alerts \in Seq(Alert) /\ Len(alerts) \in Nat /\ DOMAIN alerts = 1 .. Len(alerts)
      /\ alerts' = Append(alerts, NewCase(e, NextDecision))
  BY DEF Raise, TypeOK
<1>2. /\ DOMAIN alerts' = DOMAIN alerts \cup {NextAlert}
      /\ alerts'[NextAlert] = NewCase(e, NextDecision)
      /\ \A b \in DOMAIN alerts : alerts'[b] = alerts[b] /\ b < NextAlert
  BY <1>1 DEF NextAlert
<1>3. /\ NewCase(e, NextDecision).subject = e.subject /\ NewCase(e, NextDecision).rules = e.rules
      /\ NewCase(e, NextDecision).first = e.at
  BY DEF NewCase
<1>4. \A b : Dispositioned(b)' = Dispositioned(b)
  BY DEF Raise, Dispositioned
<1>5. ASSUME InOrder, NEW a \in DOMAIN alerts, alerts[a].subject = e.subject,
             Policy[e.subject] # NoPolicy,
             \/ alerts[a].rules = e.rules
             \/ Policy[e.subject].suppress /\ ~Dispositioned(a)
      PROVE  alerts[a].first + Policy[e.subject].window < e.at
  <2>1. ~InWindow(e, a)
    BY <1>5 DEF Raise, OpenCases, SuppressingCases
  <2>2. alerts[a].first <= e.at
    BY <1>5, NoneBeforeCase
  <2>3. Policy[e.subject] \in [window : Nat, suppress : BOOLEAN]
    BY <1>5, PolicyAssumption DEF Evaluation
  <2>4. Policy[e.subject].window \in Nat
    BY <2>3
  <2>5. alerts[a].first \in Int /\ e.at \in Int
    BY AlertFields, AlertNumbers, EvaluationNumbers
  <2>. QED
    BY <2>1, <2>2, <2>4, <2>5 DEF InWindow
<1>6. ASSUME InOrder, NEW a \in DOMAIN alerts', NEW b \in DOMAIN alerts', a < b,
             alerts'[a].subject = alerts'[b].subject, Policy[alerts'[a].subject] # NoPolicy,
             \/ alerts'[a].rules = alerts'[b].rules
             \/ /\ Policy[alerts'[a].subject].suppress
                /\ ~Dispositioned(a) /\ ~Dispositioned(b)
      PROVE  alerts'[a].first + Policy[alerts'[a].subject].window < alerts'[b].first
  <2>1. a \in DOMAIN alerts
    BY <1>1, <1>2, <1>6 DEF NextAlert
  <2>2. CASE b = NextAlert
    BY <1>2, <1>3, <1>5, <1>6, <2>1, <2>2
  <2>3. CASE b \in DOMAIN alerts
    BY <1>2, <1>6, <2>1, <2>3 DEF OneCasePerSituation
  <2>. QED
    BY <1>2, <2>2, <2>3
<1>. QED
  BY <1>4, <1>6 DEF OneCasePerSituation

LEMMA SituationStep ==
  ASSUME TypeOK, RoutingNamesItsCase, EvidenceCounted, OneCasePerSituation, [Next]_vars
  PROVE  OneCasePerSituation'
<1>1. ASSUME UNCHANGED alerts, caseOutcomes \subseteq caseOutcomes'
      PROVE  OneCasePerSituation'
  BY <1>1, SituationKept
<1>2. ASSUME NEW e \in Evaluation, Evaluate(e) PROVE OneCasePerSituation'
  <2>1. ASSUME NEW a \in DOMAIN alerts, Fold(e, a) \/ Restate(e, a)
        PROVE  OneCasePerSituation'
    <3>1. DOMAIN alerts' = DOMAIN alerts
      <4>1. PICK row : alerts' = [alerts EXCEPT ![a] = row]
        BY <2>1 DEF Fold, Restate
      <4>. QED
        BY <4>1
    <3>2. UNCHANGED caseOutcomes
      BY <2>1 DEF Fold, Restate
    <3>3. InOrder => \A b \in DOMAIN alerts :
            /\ alerts'[b].subject = alerts[b].subject /\ alerts'[b].rules = alerts[b].rules
            /\ alerts'[b].first = alerts[b].first
      BY <1>2, <2>1, StartsKept DEF Evaluate
    <3>. QED
      BY <3>1, <3>2, <3>3, SituationKept
  <2>. QED
    BY <1>1, <1>2, <2>1, SituationRaised DEF Evaluate, EvaluateNoAuthority, Suppress
<1>. QED
  BY <1>1, <1>2 DEF Next, WriteDisposition, Settle, vars

(* With events in order a situation is one case at a time, for any windows *)
(* and policies.                                                           *)
THEOREM SituationCorrect == Spec => []OneCasePerSituation
<1>1. Init => OneCasePerSituation
  BY DEF Init, OneCasePerSituation
<1>. QED
  BY <1>1, SituationStep, TypeCorrect, RoutingCorrect, EvidenceCountCorrect, PTL DEF Spec

----------------------------------------------------------------------------
(* The log of the card.  An event is about a decision that was taken.      *)
LoggedOfTaken == \A event \in cardEvents : event.decision \in DOMAIN decisions

LogInv == LoggedOfTaken /\ StepUpHistory

Logged(d, kind) == [event |-> kind, decision |-> d] \in cardEvents
ChallengeOf(x, d) == x.decision = d /\ x.action = "challenge"

TellsHistory(d) ==
  decisions[d].trigger \in HasCard =>
    /\ Logged(d, "challenge_issued") <=> \E x \in executions : ChallengeOf(x, d)
    /\ Logged(d, "challenge_outcome") <=>
         \E x \in executions : ChallengeOf(x, d) /\ x.outcome # Pending
    /\ Logged(d, "challenge_failed") <=>
         \E x \in executions : ChallengeOf(x, d) /\ x.outcome \in {"failed", "abandoned"}

LEMMA HistoryIsTold == StepUpHistory <=> \A d \in DOMAIN decisions : TellsHistory(d)
BY DEF StepUpHistory, TellsHistory, Logged, ChallengeOf

(* A decision that issues nothing has nothing in the log.                  *)
LEMMA LogUnissued ==
  ASSUME TypeOK, OneStepUpPerCase, LogInv, NEW e \in Evaluation,
         NEW routing \in Routing, NEW a \in Nat,
         Decide(e, routing, a), UNCHANGED <<executions, cardEvents>>
  PROVE  LogInv'
<1>0. PICK n : n = NextDecision
  OBVIOUS
<1>1. /\ DOMAIN decisions' = DOMAIN decisions \cup {n}
      /\ n \notin DOMAIN decisions
      /\ \A d \in DOMAIN decisions : decisions'[d] = decisions[d]
  BY <1>0, DecideAppends
<1>2. \A x \in executions : x.decision # n
  BY <1>1 DEF OneStepUpPerCase
<1>3. \A event \in cardEvents : event.decision # n
  BY <1>1 DEF LogInv, LoggedOfTaken
<1>4. \A kind : ~Logged(n, kind)
  BY <1>3 DEF Logged
<1>5. TellsHistory(n)'
  BY <1>2, <1>4 DEF TellsHistory, Logged, ChallengeOf
<1>6. ASSUME NEW d \in DOMAIN decisions PROVE TellsHistory(d)'
  BY <1>1, HistoryIsTold DEF LogInv, TellsHistory, Logged, ChallengeOf
<1>7. LoggedOfTaken'
  BY <1>1 DEF LogInv, LoggedOfTaken
<1>8. \A d \in DOMAIN decisions' : TellsHistory(d)'
  BY <1>1, <1>5, <1>6
<1>9. StepUpHistory'
  BY <1>8 DEF StepUpHistory, TellsHistory, Logged, ChallengeOf
<1>. QED
  BY <1>7, <1>9 DEF LogInv

(* A raise or a restatement logs a challenge exactly when it issues one.   *)
LEMMA LogIssued ==
  ASSUME TypeOK, OneStepUpPerCase, LogInv, NEW e \in Evaluation,
         NEW routing \in {"raised", "restated"}, NEW a \in Nat \ {0},
         Decide(e, routing, a), Issue(e, routing, a)
  PROVE  LogInv'
<1>1. PICK n : n = NextDecision
  OBVIOUS
<1>2. routing \in Routing /\ a \in Nat
  BY DEF Routing
<1>3. /\ DOMAIN decisions' = DOMAIN decisions \cup {n} /\ n \notin DOMAIN decisions
      /\ decisions'[n] = Row(e, routing, a)
      /\ \A d \in DOMAIN decisions : decisions'[d] = decisions[d]
  BY <1>1, <1>2, DecideAppends
<1>4. decisions'[n].trigger = e.trigger
  BY <1>3 DEF Row
<1>5. PICK new : /\ new = {Issued(a, act) : act \in Wanted(e, routing)}
                 /\ executions' = executions \cup new
  <2>1. executions' = executions \cup {Issued(a, act) : act \in Wanted(e, routing)}
    BY DEF Issue
  <2>. QED
    BY <2>1
<1>6. /\ \A x \in new : x.decision = n /\ x.outcome = Pending /\ x.action \in Wanted(e, routing)
      /\ "challenge" \in Wanted(e, routing) => \E x \in new : ChallengeOf(x, n)
  BY <1>1, <1>2, <1>5, IssueAdds DEF ChallengeOf
<1>7. cardEvents' = IF "challenge" \in Wanted(e, routing) /\ e.trigger \in HasCard
                    THEN cardEvents \cup {[event |-> "challenge_issued", decision |-> n]}
                    ELSE cardEvents
  BY <1>1 DEF Issue
<1>8. \A x \in executions : x.decision # n
  BY <1>3 DEF OneStepUpPerCase
<1>9. \A event \in cardEvents : event.decision # n
  BY <1>3 DEF LogInv, LoggedOfTaken
<1>10. \A kind : [event |-> kind, decision |-> n] \notin cardEvents
  BY <1>9
<1>11. TellsHistory(n)'
  <2>1. ASSUME e.trigger \in HasCard
        PROVE  /\ Logged(n, "challenge_issued")' <=> "challenge" \in Wanted(e, routing)
               /\ ~Logged(n, "challenge_outcome")' /\ ~Logged(n, "challenge_failed")'
    BY <1>7, <1>10, <2>1 DEF Logged
  <2>2. (\E x \in executions' : ChallengeOf(x, n)) <=> "challenge" \in Wanted(e, routing)
    BY <1>5, <1>6, <1>8 DEF ChallengeOf
  <2>3. \A x \in executions' : ChallengeOf(x, n) => x.outcome = Pending
    BY <1>5, <1>6, <1>8 DEF ChallengeOf
  <2>4. Pending \notin {"failed", "abandoned"}
    BY DEF Pending
  <2>. QED
    BY <1>4, <2>1, <2>2, <2>3, <2>4 DEF TellsHistory
<1>12. ASSUME NEW d \in DOMAIN decisions PROVE TellsHistory(d)'
  <2>1. TellsHistory(d) /\ d # n /\ decisions'[d] = decisions[d]
    BY <1>3, HistoryIsTold DEF LogInv
  <2>2. \A kind : Logged(d, kind)' <=> Logged(d, kind)
    BY <1>7, <2>1 DEF Logged
  <2>3. \A x : x \in executions' /\ ChallengeOf(x, d) <=> x \in executions /\ ChallengeOf(x, d)
    BY <1>5, <1>6, <2>1 DEF ChallengeOf
  <2>. QED
    BY <2>1, <2>2, <2>3 DEF TellsHistory
<1>13. \A d \in DOMAIN decisions' : TellsHistory(d)'
  BY <1>3, <1>11, <1>12
<1>14. StepUpHistory'
  BY <1>13 DEF StepUpHistory, TellsHistory, Logged, ChallengeOf
<1>15. LoggedOfTaken'
  BY <1>3, <1>7 DEF LogInv, LoggedOfTaken
<1>. QED
  BY <1>14, <1>15 DEF LogInv

(* The settler logs what it resolves.                                      *)
LEMMA LogSettled ==
  ASSUME TypeOK, OneStepUpPerCase, LogInv, Settle
  PROVE  LogInv'
<1>1. PICK draw \in [PendingChallenges -> Challenged] :
        /\ executions' = {Resolved(x, draw) : x \in executions}
        /\ cardEvents' = cardEvents \cup OutcomeEvents(draw)
        /\ UNCHANGED decisions
  BY DEF Settle
<1>2. \A x \in executions : /\ Resolved(x, draw).decision = x.decision
                            /\ Resolved(x, draw).action = x.action
  BY ResolvedRow
<1>3. ASSUME NEW x \in executions, x.action = "challenge"
      PROVE  /\ x.outcome = Pending => /\ x \in PendingChallenges
                                       /\ Resolved(x, draw).outcome = draw[x]
                                       /\ draw[x] \in Challenged
             /\ x.outcome # Pending => /\ x \notin PendingChallenges
                                       /\ Resolved(x, draw) = x
  <2>1. x.outcome = Pending => x \in PendingChallenges /\ x \in Unresolved
    BY <1>3 DEF PendingChallenges, Unresolved
  <2>2. x \in Execution
    BY DEF TypeOK
  <2>3. x.outcome = Pending => Resolved(x, draw).outcome = draw[x]
    BY <1>3, <2>1, <2>2 DEF Resolved, OutcomeFor, Notify, Execution
  <2>. QED
    BY <2>1, <2>3 DEF Resolved, PendingChallenges, Unresolved
<1>4. ASSUME NEW d \in DOMAIN decisions, decisions[d].trigger \in HasCard
      PROVE  /\ Logged(d, "challenge_issued")' <=> Logged(d, "challenge_issued")
             /\ Logged(d, "challenge_outcome")' <=>
                  \/ Logged(d, "challenge_outcome")
                  \/ \E x \in PendingChallenges : x.decision = d
             /\ Logged(d, "challenge_failed")' <=>
                  \/ Logged(d, "challenge_failed")
                  \/ \E x \in PendingChallenges :
                       x.decision = d /\ draw[x] \in {"failed", "abandoned"}
  BY <1>1, <1>4 DEF Logged, OutcomeEvents
<1>5. \A x \in PendingChallenges : x \in executions /\ x.action = "challenge" /\ x.outcome = Pending
  BY DEF PendingChallenges, Unresolved
<1>6. Pending \notin Challenged /\ Pending \notin {"failed", "abandoned"}
  BY DEF Pending, Challenged
<1>7. ASSUME NEW d \in DOMAIN decisions PROVE TellsHistory(d)'
  <2>1. TellsHistory(d)
    BY HistoryIsTold DEF LogInv
  <2>2. (\E y \in executions' : ChallengeOf(y, d)) <=> \E x \in executions : ChallengeOf(x, d)
    BY <1>1, <1>2 DEF ChallengeOf
  <2>3. (\E y \in executions' : ChallengeOf(y, d) /\ y.outcome # Pending) <=>
          \/ \E x \in executions : ChallengeOf(x, d) /\ x.outcome # Pending
          \/ \E x \in PendingChallenges : x.decision = d
    BY <1>1, <1>2, <1>3, <1>5, <1>6 DEF ChallengeOf
  <2>4. (\E y \in executions' : ChallengeOf(y, d) /\ y.outcome \in {"failed", "abandoned"}) <=>
          \/ \E x \in executions : ChallengeOf(x, d) /\ x.outcome \in {"failed", "abandoned"}
          \/ \E x \in PendingChallenges : x.decision = d /\ draw[x] \in {"failed", "abandoned"}
    BY <1>1, <1>2, <1>3, <1>5, <1>6 DEF ChallengeOf
  <2>. QED
    BY <1>1, <1>4, <2>1, <2>2, <2>3, <2>4 DEF TellsHistory
<1>8. StepUpHistory'
  BY <1>1, <1>7 DEF StepUpHistory, TellsHistory, Logged, ChallengeOf
<1>9. \A event \in OutcomeEvents(draw) : event.decision \in DOMAIN decisions
  BY <1>5 DEF OutcomeEvents, OneStepUpPerCase
<1>10. LoggedOfTaken'
  BY <1>1, <1>9 DEF LogInv, LoggedOfTaken
<1>. QED
  BY <1>8, <1>10 DEF LogInv

LEMMA LogStep ==
  ASSUME TypeOK, OneStepUpPerCase, LogInv, [Next]_vars
  PROVE  LogInv'
<1>1. ASSUME NEW e \in Evaluation, EvaluateNoAuthority(e) PROVE LogInv'
  BY <1>1, LogUnissued DEF EvaluateNoAuthority, Routing, NoAuthority, NoAlert
<1>2. ASSUME NEW e \in Evaluation, NEW a \in DOMAIN alerts, Fold(e, a) \/ Suppress(e, a)
      PROVE  LogInv'
  BY <1>2, AlertFields, LogUnissued DEF Fold, Suppress, Routing
<1>3. ASSUME NEW e \in Evaluation, NEW a \in DOMAIN alerts, Restate(e, a) PROVE LogInv'
  BY <1>3, AlertFields, LogIssued DEF Restate
<1>4. ASSUME NEW e \in Evaluation, Raise(e) PROVE LogInv'
  <2>1. NextAlert \in Nat \ {0}
    BY DEF NextAlert, TypeOK
  <2>. QED
    BY <1>4, <2>1, LogIssued DEF Raise
<1>5. CASE UNCHANGED <<decisions, executions, cardEvents>>
  BY <1>5 DEF LogInv, LoggedOfTaken, StepUpHistory
<1>. QED
  BY <1>1, <1>2, <1>3, <1>4, <1>5, LogSettled DEF Next, Evaluate, WriteDisposition, vars

(* The card's log tells the same story as the executions, for histories of *)
(* any length.                                                             *)
THEOREM HistoryCorrect == Spec => []StepUpHistory
<1>1. Init => LogInv
  BY DEF Init, LogInv, LoggedOfTaken, StepUpHistory
<1>2. Spec => []LogInv
  BY <1>1, LogStep, TypeCorrect, OneStepUpCorrect, PTL DEF Spec
<1>3. LogInv => StepUpHistory
  BY DEF LogInv
<1>. QED
  BY <1>2, <1>3, PTL

----------------------------------------------------------------------------
(* The promise of CaseService, kept step by step.                          *)

(* What the mapping makes of the tables.                                   *)
Evals == [d \in DOMAIN decisions |-> Evaluated(decisions[d])]
Views == [a \in DOMAIN alerts |-> CaseView(a)]
Said  == {[case |-> o.alert, verdict |-> o.disposition] : o \in caseOutcomes}

(* What the mapping rests on, whatever step is taken.                      *)
Sound == TypeOK /\ RoutingNamesItsCase /\ OneStepUpPerCase

----------------------------------------------------------------------------
(* The mapping of what the steps share.                                    *)

LEMMA AppendedIs ==
  ASSUME NEW S, NEW s \in Seq(S), NEW x \in S, NEW t \in Seq(S),
         Len(t) = Len(s) + 1, t[Len(s) + 1] = x, \A i \in 1 .. Len(s) : t[i] = s[i]
  PROVE  t = Append(s, x)
<1>1. Append(s, x) \in Seq(S) /\ Len(Append(s, x)) = Len(s) + 1
  OBVIOUS
<1>2. \A i \in 1 .. Len(t) : t[i] = Append(s, x)[i]
  <2> TAKE i \in 1 .. Len(t)
  <2>1. Len(s) \in Nat
    OBVIOUS
  <2>2. CASE i = Len(s) + 1
    BY <2>2
  <2>3. CASE i \in 1 .. Len(s)
    BY <2>3
  <2>. QED
    BY <2>1, <2>2, <2>3
<1>. QED
  BY <1>1, <1>2, SeqEqual

LEMMA EvaluatedType ==
  ASSUME NEW d \in Decision
  PROVE  Evaluated(d) \in Service!Evaluation
BY DEF Evaluated, Decision, Service!Evaluation

(* The mapping of any table of decisions.                                  *)
LEMMA EvaluatedSeq ==
  ASSUME NEW s \in Seq(Decision), NEW t, t = [d \in DOMAIN s |-> Evaluated(s[d])]
  PROVE  t \in Seq(Service!Evaluation) /\ Len(t) = Len(s) /\ DOMAIN t = DOMAIN s
<1>1. Len(s) \in Nat /\ DOMAIN s = 1 .. Len(s)
  OBVIOUS
<1>2. \A d \in 1 .. Len(s) : Evaluated(s[d]) \in Service!Evaluation
  BY <1>1, EvaluatedType
<1>3. t = [d \in 1 .. Len(s) |-> Evaluated(s[d])]
  BY <1>1
<1>4. t \in [1 .. Len(s) -> Service!Evaluation]
  BY <1>2, <1>3
<1>. QED
  BY <1>1, <1>4

(* A decision is one more evaluation.                                      *)
LEMMA DecideEvaluates ==
  ASSUME TypeOK, TypeOK', NEW e \in Evaluation, NEW routing \in Routing, NEW a \in Nat,
         Decide(e, routing, a)
  PROVE  /\ Evaluated(e) \in Service!Evaluation
         /\ Evals' = Append(Evals, Evaluated(e))
<1>1. Evaluated(e) \in Service!Evaluation
  BY DEF Evaluated, Evaluation, Service!Evaluation
<1>2. /\ Len(decisions') = Len(decisions) + 1
      /\ decisions'[NextDecision] = Row(e, routing, a)
      /\ \A i \in DOMAIN decisions : decisions'[i] = decisions[i]
      /\ DOMAIN decisions' = DOMAIN decisions \cup {NextDecision}
  BY DecideAppends DEF NextDecision
<1>3. Evaluated(decisions'[NextDecision]) = Evaluated(e)
  BY <1>2 DEF Evaluated, Row
<1>4. /\ Evals \in Seq(Service!Evaluation)
      /\ Len(Evals) = Len(decisions) /\ DOMAIN Evals = DOMAIN decisions
  <2>1. decisions \in Seq(Decision)
    BY DEF TypeOK
  <2>. QED
    BY <2>1, EvaluatedSeq DEF Evals
<1>6. Evals' = [d \in DOMAIN decisions' |-> Evaluated(decisions'[d])]
  BY DEF Evals, Evaluated
<1>5. Evals' \in Seq(Service!Evaluation) /\ Len(Evals') = Len(decisions')
  <2>1. decisions' \in Seq(Decision)
    BY DEF TypeOK
  <2>. QED
    BY <1>6, <2>1, EvaluatedSeq
<1>7. Evals'[Len(Evals) + 1] = Evaluated(e)
  BY <1>2, <1>3, <1>4, <1>6 DEF NextDecision
<1>8. \A i \in 1 .. Len(Evals) : Evals'[i] = Evals[i]
  BY <1>2, <1>4, <1>6 DEF Evals, Evaluated
<1>. HIDE DEF Evals
<1>9. Evals' = Append(Evals, Evaluated(e))
  BY <1>1, <1>2, <1>4, <1>5, <1>7, <1>8, AppendedIs
<1>. QED
  BY <1>1, <1>9

(* What is shown of a case that a step leaves alone.                       *)
LEMMA ViewKept ==
  ASSUME NEW b, alerts'[b].subject = alerts[b].subject, alerts'[b].rules = alerts[b].rules,
         alerts'[b].score = alerts[b].score, Evidence(b)' = Evidence(b),
         IssuedBy(b, {Notify})' = IssuedBy(b, {Notify}),
         IssuedBy(b, Preventive)' = IssuedBy(b, Preventive)
  PROVE  CaseView(b)' = CaseView(b)
BY DEF CaseView

LEMMA NothingIssued ==
  ASSUME UNCHANGED executions, NEW b, NEW acts
  PROVE  IssuedBy(b, acts)' = IssuedBy(b, acts)
BY DEF IssuedBy

(* A raise and a restatement issue for their own case.                     *)
LEMMA IssuedFor ==
  ASSUME TypeOK, NEW e \in Evaluation, NEW routing \in {"raised", "restated"},
         NEW a \in Nat \ {0}, Issue(e, routing, a), NEW b, NEW acts
  PROVE  /\ b # a => IssuedBy(b, acts)' = IssuedBy(b, acts)
         /\ acts \cap Wanted(e, routing) # {} =>
              IssuedBy(a, acts)' = IssuedBy(a, acts) \cup {NextDecision}
         /\ acts \cap Wanted(e, routing) = {} => IssuedBy(a, acts)' = IssuedBy(a, acts)
<1>1. /\ executions' = executions \cup {Issued(a, act) : act \in Wanted(e, routing)}
      /\ \A act : /\ Issued(a, act).decision = NextDecision
                  /\ Issued(a, act).alert = a
                  /\ Issued(a, act).action = act
  BY IssueAdds DEF Routing
<1>2. IssuedBy(b, acts)' = {x.decision : x \in {y \in executions' : y.alert = b /\ y.action \in acts}}
  BY DEF IssuedBy
<1>3. IssuedBy(a, acts)' = {x.decision : x \in {y \in executions' : y.alert = a /\ y.action \in acts}}
  BY DEF IssuedBy
<1>4. b # a => IssuedBy(b, acts)' = IssuedBy(b, acts)
  BY <1>1, <1>2 DEF IssuedBy
<1>5. ASSUME acts \cap Wanted(e, routing) # {}
      PROVE  IssuedBy(a, acts)' = IssuedBy(a, acts) \cup {NextDecision}
  <2>1. IssuedBy(a, acts) \subseteq IssuedBy(a, acts)'
    BY <1>1, <1>3 DEF IssuedBy
  <2>2. PICK act \in acts : act \in Wanted(e, routing)
    BY <1>5
  <2>3. Issued(a, act) \in executions' /\ Issued(a, act).alert = a
        /\ Issued(a, act).action = act /\ Issued(a, act).decision = NextDecision
    BY <1>1, <2>2
  <2>4. NextDecision \in IssuedBy(a, acts)'
    BY <1>3, <2>2, <2>3
  <2>5. IssuedBy(a, acts)' \subseteq IssuedBy(a, acts) \cup {NextDecision}
    BY <1>1, <1>3 DEF IssuedBy
  <2>. QED
    BY <2>1, <2>4, <2>5
<1>6. ASSUME acts \cap Wanted(e, routing) = {}
      PROVE  IssuedBy(a, acts)' = IssuedBy(a, acts)
  <2>1. \A act \in Wanted(e, routing) : Issued(a, act).action \notin acts
    BY <1>1, <1>6
  <2>. QED
    BY <1>1, <1>3, <2>1 DEF IssuedBy
<1>. QED
  BY <1>4, <1>5, <1>6

(* Settling changes how what was issued went.                              *)
LEMMA SettledIssued ==
  ASSUME TypeOK, NEW draw \in [PendingChallenges -> Challenged],
         executions' = {Resolved(x, draw) : x \in executions}, NEW b, NEW acts
  PROVE  IssuedBy(b, acts)' = IssuedBy(b, acts)
<1>1. \A x \in executions : /\ Resolved(x, draw).decision = x.decision
                           /\ Resolved(x, draw).alert = x.alert
                           /\ Resolved(x, draw).action = x.action
  BY ResolvedRow
<1>2. IssuedBy(b, acts)' = {x.decision : x \in {y \in executions' : y.alert = b /\ y.action \in acts}}
  BY DEF IssuedBy
<1>3. IssuedBy(b, acts)' \subseteq IssuedBy(b, acts)
  BY <1>1, <1>2 DEF IssuedBy
<1>4. IssuedBy(b, acts) \subseteq IssuedBy(b, acts)'
  BY <1>1, <1>2 DEF IssuedBy
<1>. QED
  BY <1>3, <1>4

----------------------------------------------------------------------------
(* Each step is a step of the service, or none.                            *)

(* Every view is what it was.                                              *)
LEMMA ViewsKept ==
  ASSUME UNCHANGED alerts, \A b \in DOMAIN alerts : Evidence(b)' = Evidence(b),
         \A b \in DOMAIN alerts : IssuedBy(b, {Notify})' = IssuedBy(b, {Notify}),
         \A b \in DOMAIN alerts : IssuedBy(b, Preventive)' = IssuedBy(b, Preventive)
  PROVE  Views' = Views
<1>1. \A b \in DOMAIN alerts : CaseView(b)' = CaseView(b)
  BY ViewKept
<1>. QED
  BY <1>1 DEF Views

LEMMA NoAuthorityMaps ==
  ASSUME Sound, Sound', NEW e \in Evaluation, EvaluateNoAuthority(e)
  PROVE  \E ev \in Service!Evaluation : Service!Evaluate(ev)
<1>1. /\ TypeOK /\ TypeOK' /\ e.rules = NoRules /\ UNCHANGED <<alerts, executions, caseOutcomes>>
      /\ Decide(e, NoAuthority, NoAlert) /\ NoAuthority \in Routing /\ NoAlert \in Nat
      /\ NoAuthority \notin BelongsTo
  BY DEF Sound, EvaluateNoAuthority, Routing, NoAlert, BelongsTo, NoAuthority
<1>2. Evaluated(e) \in Service!Evaluation /\ Evals' = Append(Evals, Evaluated(e))
  BY <1>1, DecideEvaluates
<1>3. \A b : Evidence(b)' = Evidence(b)
  BY <1>1, EvidenceGrows
<1>4. Views' = Views
  BY <1>1, <1>3, NothingIssued, ViewsKept
<1>5. Said' = Said
  BY <1>1 DEF Said
<1>6. Evaluated(e).rules = NoRules
  BY <1>1 DEF Evaluated
<1>7. Service!Ignore(Evaluated(e))
  BY <1>4, <1>6 DEF Service!Ignore, Views
<1>8. Service!Evaluate(Evaluated(e))
  BY <1>2, <1>5, <1>7 DEF Service!Evaluate, Evals, Said
<1>. QED
  BY <1>2, <1>8

LEMMA SuppressMaps ==
  ASSUME Sound, Sound', NEW e \in Evaluation, NEW a \in DOMAIN alerts, Suppress(e, a)
  PROVE  \E ev \in Service!Evaluation : Service!Evaluate(ev)
<1>1. /\ TypeOK /\ TypeOK' /\ UNCHANGED <<alerts, executions, caseOutcomes>>
      /\ Decide(e, "suppressed", a) /\ "suppressed" \in Routing /\ a \in Nat
      /\ "suppressed" \notin BelongsTo
      /\ alerts[a].subject = e.subject /\ ~Dispositioned(a)
  BY AlertFields DEF Sound, Suppress, Routing, BelongsTo, IsNewestOf, SuppressingCases
<1>2. Evaluated(e) \in Service!Evaluation /\ Evals' = Append(Evals, Evaluated(e))
  BY <1>1, DecideEvaluates
<1>3. \A b : Evidence(b)' = Evidence(b)
  BY <1>1, EvidenceGrows
<1>4. Views' = Views
  BY <1>1, <1>3, NothingIssued, ViewsKept
<1>5. Said' = Said
  BY <1>1 DEF Said
<1>6. /\ a \in DOMAIN Views /\ Views[a].subject = Evaluated(e).subject
      /\ ~(\E v \in Said : v.case = a)
  BY <1>1 DEF Views, CaseView, Evaluated, Said, Dispositioned
<1>7. Service!Ignore(Evaluated(e))
  BY <1>4, <1>6 DEF Service!Ignore, Service!Judged, Views, Said
<1>8. Service!Evaluate(Evaluated(e))
  BY <1>2, <1>5, <1>7 DEF Service!Evaluate, Evals, Said
<1>. QED
  BY <1>2, <1>8

LEMMA FoldMaps ==
  ASSUME Sound, Sound', NEW e \in Evaluation, NEW a \in DOMAIN alerts, Fold(e, a)
  PROVE  \E ev \in Service!Evaluation : Service!Evaluate(ev)
<1>1. /\ TypeOK /\ TypeOK' /\ UNCHANGED <<executions, caseOutcomes>>
      /\ Decide(e, "folded", a) /\ "folded" \in Routing /\ a \in Nat
      /\ "folded" \in BelongsTo /\ alerts[a] \in Alert
      /\ alerts[a].subject = e.subject /\ alerts[a].rules = e.rules
      /\ e.score <= alerts[a].score
      /\ alerts' = [alerts EXCEPT ![a] = Folded(alerts[a], e)]
  BY AlertFields DEF Sound, Fold, Routing, BelongsTo, IsNewestOf, OpenCases
<1>2. Evaluated(e) \in Service!Evaluation /\ Evals' = Append(Evals, Evaluated(e))
  BY <1>1, DecideEvaluates
<1>3. /\ \A b : b # a => Evidence(b)' = Evidence(b)
      /\ Evidence(a)' = Evidence(a) \cup {NextDecision}
  BY <1>1, EvidenceGrows
<1>4. /\ DOMAIN alerts' = DOMAIN alerts
      /\ \A b \in DOMAIN alerts : b # a => alerts'[b] = alerts[b]
      /\ alerts'[a] = Folded(alerts[a], e)
  BY <1>1, FoldedType, AlertRewritten DEF TypeOK
<1>5. /\ alerts'[a].subject = alerts[a].subject /\ alerts'[a].rules = alerts[a].rules
      /\ alerts'[a].score = alerts[a].score
  BY <1>1, <1>4 DEF Folded, Alert
<1>6. \A b, acts : IssuedBy(b, acts)' = IssuedBy(b, acts)
  BY <1>1, NothingIssued
<1>7. CaseView(a)' = [CaseView(a) EXCEPT !.evidence = @ \cup {NextDecision}]
  BY <1>3, <1>5, <1>6 DEF CaseView
<1>8. \A b \in DOMAIN alerts : b # a => CaseView(b)' = CaseView(b)
  BY <1>3, <1>4, <1>6, ViewKept
<1>9. Views' = [Views EXCEPT ![a].evidence = @ \cup {NextDecision}]
  BY <1>4, <1>7, <1>8 DEF Views
<1>10. Said' = Said
  BY <1>1 DEF Said
<1>11. Len(Evals) = Len(decisions)
  <2>1. decisions \in Seq(Decision)
    BY <1>1 DEF TypeOK
  <2>. QED
    BY <2>1, EvaluatedSeq DEF Evals
<1>12. /\ a \in DOMAIN Views /\ Views[a].subject = Evaluated(e).subject
       /\ Views[a].rules = Evaluated(e).rules /\ Evaluated(e).score <= Views[a].score
  BY <1>1 DEF Views, CaseView, Evaluated
<1>13. Service!Absorb(Evaluated(e), a)
  BY <1>9, <1>11, <1>12
  DEF Service!Absorb, Service!Belongs, Service!This, Views, Evals, NextDecision
<1>14. Service!Evaluate(Evaluated(e))
  BY <1>2, <1>10, <1>12, <1>13 DEF Service!Evaluate, Evals, Said, Views
<1>. QED
  BY <1>2, <1>14

LEMMA RestateMaps ==
  ASSUME Sound, Sound', NEW e \in Evaluation, NEW a \in DOMAIN alerts, Restate(e, a)
  PROVE  \E ev \in Service!Evaluation : Service!Evaluate(ev)
<1>1. /\ TypeOK /\ TypeOK' /\ UNCHANGED caseOutcomes
      /\ Decide(e, "restated", a) /\ Issue(e, "restated", a)
      /\ "restated" \in Routing /\ a \in Nat \ {0}
      /\ "restated" \in BelongsTo /\ alerts[a] \in Alert
      /\ alerts[a].subject = e.subject /\ alerts[a].rules = e.rules
      /\ e.score > alerts[a].score
      /\ alerts' = [alerts EXCEPT ![a] = Restated(alerts[a], e, NextDecision)]
  BY AlertFields DEF Sound, Restate, Routing, BelongsTo, IsNewestOf, OpenCases
<1>2. Evaluated(e) \in Service!Evaluation /\ Evals' = Append(Evals, Evaluated(e))
  BY <1>1, DecideEvaluates
<1>3. /\ \A b : b # a => Evidence(b)' = Evidence(b)
      /\ Evidence(a)' = Evidence(a) \cup {NextDecision}
      /\ NextDecision \in Nat \ {0}
  BY <1>1, EvidenceGrows DEF NextDecision, TypeOK
<1>4. /\ DOMAIN alerts' = DOMAIN alerts
      /\ \A b \in DOMAIN alerts : b # a => alerts'[b] = alerts[b]
      /\ alerts'[a] = Restated(alerts[a], e, NextDecision)
  BY <1>1, <1>3, RestatedType, AlertRewritten DEF TypeOK
<1>5. /\ alerts'[a].subject = alerts[a].subject /\ alerts'[a].rules = alerts[a].rules
      /\ alerts'[a].score = e.score
  BY <1>1, <1>4, RestatedFields
<1>6. Wanted(e, "restated") = {Notify} /\ Notify \notin Preventive
  BY NotifyAssumption, ActionAssumption DEF Wanted, Notify
<1>7. /\ \A b, acts : b # a => IssuedBy(b, acts)' = IssuedBy(b, acts)
      /\ IssuedBy(a, {Notify})' = IssuedBy(a, {Notify}) \cup {NextDecision}
      /\ IssuedBy(a, Preventive)' = IssuedBy(a, Preventive)
  <2>1. \A b, acts : b # a => IssuedBy(b, acts)' = IssuedBy(b, acts)
    BY <1>1, IssuedFor
  <2>2. {Notify} \cap Wanted(e, "restated") # {} /\ Preventive \cap Wanted(e, "restated") = {}
    BY <1>6
  <2>. QED
    BY <1>1, <2>1, <2>2, IssuedFor
<1>8. CaseView(a)' = [CaseView(a) EXCEPT !.score = e.score,
                        !.evidence = @ \cup {NextDecision}, !.told = @ \cup {NextDecision}]
  <2>. DEFINE view(score, evidence, told) ==
         [subject |-> alerts[a].subject, rules |-> alerts[a].rules, score |-> score,
          evidence |-> evidence, told |-> told, stepUps |-> IssuedBy(a, Preventive)]
  <2>. DEFINE n == {NextDecision}
              old == view(alerts[a].score, Evidence(a), IssuedBy(a, {Notify}))
              scored == view(e.score, Evidence(a), IssuedBy(a, {Notify}))
              shown == view(e.score, Evidence(a) \cup n, IssuedBy(a, {Notify}))
              new == view(e.score, Evidence(a) \cup n, IssuedBy(a, {Notify}) \cup n)
  <2>1. CaseView(a)' = new
    BY <1>3, <1>5, <1>7 DEF CaseView
  <2>2. CaseView(a) = old /\ old.evidence = Evidence(a) /\ old.told = IssuedBy(a, {Notify})
    BY DEF CaseView
  <2>3. [old EXCEPT !.score = e.score] = scored
    OBVIOUS
  <2>4. [scored EXCEPT !.evidence = Evidence(a) \cup n] = shown
    OBVIOUS
  <2>5. [shown EXCEPT !.told = IssuedBy(a, {Notify}) \cup n] = new
    OBVIOUS
  <2>. HIDE DEF old, scored, shown, new
  <2>. QED
    BY <2>1, <2>2, <2>3, <2>4, <2>5
<1>9. \A b \in DOMAIN alerts : b # a => CaseView(b)' = CaseView(b)
  BY <1>3, <1>4, <1>7, ViewKept
<1>10. Views' = [Views EXCEPT ![a].score = e.score,
                   ![a].evidence = @ \cup {NextDecision}, ![a].told = @ \cup {NextDecision}]
  <2>1. Views' = [b \in DOMAIN Views |-> IF b = a THEN CaseView(a)' ELSE Views[b]]
    BY <1>4, <1>9 DEF Views
  <2>2. Views[a] = CaseView(a) /\ a \in DOMAIN Views
    BY DEF Views
  <2>. QED
    BY <1>8, <2>1, <2>2
<1>11. Said' = Said
  BY <1>1 DEF Said
<1>12. Len(Evals) = Len(decisions)
  <2>1. decisions \in Seq(Decision)
    BY <1>1 DEF TypeOK
  <2>. QED
    BY <2>1, EvaluatedSeq DEF Evals
<1>13. /\ a \in DOMAIN Views /\ Views[a].subject = Evaluated(e).subject
       /\ Views[a].rules = Evaluated(e).rules /\ Evaluated(e).score > Views[a].score
       /\ Evaluated(e).score = e.score
  BY <1>1 DEF Views, CaseView, Evaluated
<1>14. Service!Escalate(Evaluated(e), a)
  BY <1>10, <1>12, <1>13
  DEF Service!Escalate, Service!Belongs, Service!This, Views, Evals, NextDecision
<1>15. Service!Evaluate(Evaluated(e))
  BY <1>2, <1>11, <1>13, <1>14 DEF Service!Evaluate, Evals, Said, Views
<1>. QED
  BY <1>2, <1>15

LEMMA RaiseMaps ==
  ASSUME Sound, Sound', NEW e \in Evaluation, Raise(e)
  PROVE  \E ev \in Service!Evaluation : Service!Evaluate(ev)
<1>. PICK a \in Nat \ {0} : a = NextAlert
  BY DEF Sound, TypeOK, NextAlert
<1>1. /\ TypeOK /\ TypeOK' /\ UNCHANGED caseOutcomes
      /\ Decide(e, "raised", a) /\ Issue(e, "raised", a)
      /\ "raised" \in Routing /\ a \in Nat \ {0} /\ "raised" \in BelongsTo
      /\ e.rules # NoRules
      /\ alerts' = Append(alerts, NewCase(e, NextDecision))
      /\ a \notin DOMAIN alerts
  BY DEF Sound, Raise, Routing, BelongsTo, NextAlert, TypeOK
<1>2. Evaluated(e) \in Service!Evaluation /\ Evals' = Append(Evals, Evaluated(e))
  BY <1>1, DecideEvaluates
<1>3. /\ \A d \in DOMAIN decisions : decisions[d].alert # a
      /\ Evidence(a) = {}
  BY <1>1 DEF Sound, RoutingNamesItsCase, NoAlert, Evidence
<1>4. \A acts : IssuedBy(a, acts) = {}
  BY <1>3 DEF Sound, OneStepUpPerCase, IssuedBy
<1>5. /\ \A b : b # a => Evidence(b)' = Evidence(b)
      /\ Evidence(a)' = {NextDecision}
      /\ NextDecision \in Nat \ {0}
  BY <1>1, <1>3, EvidenceGrows DEF NextDecision, TypeOK
<1>6. /\ alerts \in Seq(Alert) /\ Len(alerts) \in Nat /\ DOMAIN alerts = 1 .. Len(alerts)
      /\ a = Len(alerts) + 1
  BY <1>1 DEF TypeOK, NextAlert
<1>7. NewCase(e, NextDecision) \in Alert
  BY <1>1, <1>5 DEF NewCase, Alert, Evaluation
<1>8. /\ DOMAIN alerts' = 1 .. a
      /\ \A b \in DOMAIN alerts : alerts'[b] = alerts[b]
      /\ alerts'[a] = NewCase(e, NextDecision)
  BY <1>1, <1>6, <1>7
<1>9. /\ \A b, acts : b # a => IssuedBy(b, acts)' = IssuedBy(b, acts)
      /\ IssuedBy(a, {Notify})' = {NextDecision}
      /\ IssuedBy(a, Preventive)' \in SUBSET {NextDecision}
  <2>1. \A b, acts : b # a => IssuedBy(b, acts)' = IssuedBy(b, acts)
    BY <1>1, IssuedFor
  <2>2. {Notify} \cap Wanted(e, "raised") # {}
    BY DEF Wanted
  <2>3. IssuedBy(a, {Notify})' = {NextDecision}
    BY <1>1, <1>4, <2>2, IssuedFor
  <2>4. IssuedBy(a, Preventive)' = {NextDecision} \/ IssuedBy(a, Preventive)' = {}
    <3>1. CASE Preventive \cap Wanted(e, "raised") # {}
      BY <1>1, <1>4, <3>1, IssuedFor
    <3>2. CASE Preventive \cap Wanted(e, "raised") = {}
      BY <1>1, <1>4, <3>2, IssuedFor
    <3>. QED
      BY <3>1, <3>2
  <2>. QED
    BY <2>1, <2>3, <2>4
<1>. DEFINE case == [subject |-> Evaluated(e).subject, rules |-> Evaluated(e).rules,
                     score |-> Evaluated(e).score, evidence |-> {NextDecision},
                     told |-> {NextDecision}, stepUps |-> IssuedBy(a, Preventive)']
<1>10. CaseView(a)' = case
  <2>1. /\ alerts'[a].subject = e.subject /\ alerts'[a].rules = e.rules
        /\ alerts'[a].score = e.score
    BY <1>8 DEF NewCase
  <2>2. /\ Evaluated(e).subject = e.subject /\ Evaluated(e).rules = e.rules
        /\ Evaluated(e).score = e.score
    BY DEF Evaluated
  <2>3. CaseView(a)' = [subject |-> alerts'[a].subject, rules |-> alerts'[a].rules,
                        score |-> alerts'[a].score, evidence |-> Evidence(a)',
                        told |-> IssuedBy(a, {Notify})', stepUps |-> IssuedBy(a, Preventive)']
    BY DEF CaseView
  <2>. QED
    BY <1>5, <1>9, <2>1, <2>2, <2>3
<1>11. \A b \in DOMAIN alerts : CaseView(b)' = CaseView(b)
  BY <1>1, <1>5, <1>8, <1>9, ViewKept
<1>. HIDE DEF case
<1>12. Views' = Append(Views, case)
  <2>1. Views' = [b \in 1 .. a |-> CaseView(b)']
    BY <1>8 DEF Views
  <2>2. Views = [b \in 1 .. Len(alerts) |-> CaseView(b)] /\ Len(Views) = Len(alerts)
    BY <1>6 DEF Views
  <2>. DEFINE Any == {CaseView(b) : b \in 1 .. Len(alerts)} \cup {case}
  <2>3. Views \in Seq(Any)
    BY <1>6, <2>2
  <2>4. \A b \in 1 .. a : Views'[b] = IF b = a THEN case ELSE Views[b]
    BY <1>6, <1>10, <1>11, <2>1, <2>2
  <2>5. Views' \in Seq(Any) /\ Len(Views') = a
    <3>0. \A b \in 1 .. Len(alerts) : Views[b] \in Any
      BY <2>2
    <3>1. \A b \in 1 .. a : Views'[b] \in Any
      <4> TAKE b \in 1 .. a
      <4>1. b = a \/ b \in 1 .. Len(alerts)
        BY <1>6
      <4>2. Views'[b] = case \/ (b \in 1 .. Len(alerts) /\ Views'[b] = Views[b])
        BY <2>4, <4>1
      <4>. QED
        BY <3>0, <4>2
    <3>2. Views' \in [1 .. a -> Any]
      BY <2>1, <3>1
    <3>. QED
      BY <1>1, <3>2
  <2>. HIDE DEF Any, Views
  <2>6. Views'[Len(Views) + 1] = case /\ \A i \in 1 .. Len(Views) : Views'[i] = Views[i]
    <3>1. a = Len(Views) + 1 /\ a \in 1 .. a /\ \A i \in 1 .. Len(Views) : i \in 1 .. a /\ i # a
      BY <1>6, <2>2
    <3>. QED
      BY <2>4, <3>1
  <2>7. case \in Any
    BY DEF Any
  <2>. QED
    BY <1>6, <2>2, <2>3, <2>5, <2>6, <2>7, AppendedIs
<1>13. Said' = Said
  BY <1>1 DEF Said
<1>14. Len(Evals) = Len(decisions)
  <2>1. decisions \in Seq(Decision)
    BY <1>1 DEF TypeOK
  <2>. QED
    BY <2>1, EvaluatedSeq DEF Evals
<1>15. Evaluated(e).rules # NoRules
  BY <1>1 DEF Evaluated
<1>16. Service!Open(Evaluated(e))
  BY <1>9, <1>12, <1>14, <1>15 DEF Service!Open, Service!This, Views, Evals, NextDecision, case
<1>17. Service!Evaluate(Evaluated(e))
  BY <1>2, <1>13, <1>16 DEF Service!Evaluate, Evals, Said, Views
<1>. QED
  BY <1>2, <1>17

LEMMA DispositionMaps ==
  ASSUME Sound, NEW a \in DOMAIN alerts, NEW v \in AnalystVerdict, WriteDisposition(a, v)
  PROVE  \E c \in DOMAIN Views, verdict \in Verdict : Service!Judge(c, verdict)
<1>1. Evals' = Evals
  BY DEF WriteDisposition, Evals, Evaluated
<1>2. Views' = Views
  <2>1. UNCHANGED <<decisions, alerts, executions>>
    BY DEF WriteDisposition
  <2>2. \A b : Evidence(b)' = Evidence(b)
    BY <2>1 DEF Evidence
  <2>. QED
    BY <2>1, <2>2, NothingIssued, ViewsKept
<1>3. Said' = Said \cup {[case |-> a, verdict |-> v]}
  <2>. DEFINE o == [alert |-> a, disposition |-> v, source |-> "analyst"]
  <2>1. caseOutcomes' = caseOutcomes \cup {o}
    BY DEF WriteDisposition
  <2>2. o.alert = a /\ o.disposition = v
    OBVIOUS
  <2>3. Said' = {[case |-> p.alert, verdict |-> p.disposition] : p \in caseOutcomes'}
    BY DEF Said
  <2>. HIDE DEF o
  <2>. QED
    BY <2>1, <2>2, <2>3 DEF Said
<1>4. a \in DOMAIN Views /\ v \in Verdict
  BY VerdictAssumption DEF Views, Verdict
<1>5. Service!Judge(a, v)
  BY <1>1, <1>2, <1>3 DEF Service!Judge, Evals, Views, Said
<1>. QED
  BY <1>4, <1>5

LEMMA SettleMaps ==
  ASSUME Sound, Settle
  PROVE  Service!Settle
<1>. PICK draw \in [PendingChallenges -> Challenged] :
       LET settled == {Resolved(x, draw) : x \in executions} IN
       /\ executions' = settled
       /\ cardEvents' = cardEvents \cup OutcomeEvents(draw)
       /\ caseOutcomes' = caseOutcomes \cup
            {[alert |-> a, disposition |-> VerdictOn(a, settled), source |-> "synthetic"] :
               a \in {b \in DOMAIN alerts : ~Dispositioned(b)}}
       /\ UNCHANGED <<decisions, alerts>>
  BY DEF Settle
<1>. DEFINE settled == {Resolved(x, draw) : x \in executions}
            open == {b \in DOMAIN alerts : ~Dispositioned(b)}
            found == [a \in open |-> VerdictOn(a, settled)]
<1>1. Evals' = Evals
  BY DEF Evals, Evaluated
<1>2. Views' = Views
  <2>1. \A b, acts : IssuedBy(b, acts)' = IssuedBy(b, acts)
    BY SettledIssued DEF Sound
  <2>2. \A b : Evidence(b)' = Evidence(b)
    BY DEF Evidence
  <2>. QED
    BY <2>1, <2>2, ViewsKept
<1>3. Said' = Said \cup {[case |-> a, verdict |-> found[a]] : a \in open}
  <2>. DEFINE new(a) == [alert |-> a, disposition |-> VerdictOn(a, settled),
                         source |-> "synthetic"]
  <2>1. caseOutcomes' = caseOutcomes \cup {new(a) : a \in open}
    OBVIOUS
  <2>2. \A a \in open : new(a).alert = a /\ new(a).disposition = found[a]
    OBVIOUS
  <2>3. Said' = {[case |-> p.alert, verdict |-> p.disposition] : p \in caseOutcomes'}
    BY DEF Said
  <2>. HIDE DEF new, open, found
  <2>4. Said' = Said \cup {[case |-> new(a).alert, verdict |-> new(a).disposition] : a \in open}
    BY <2>1, <2>3 DEF Said
  <2>. QED
    BY <2>2, <2>4
<1>4. open = {c \in DOMAIN Views : ~Service!Judged(c)}
  <2>1. \A c : (\E v \in Said : v.case = c) <=> Dispositioned(c)
    <3>1. ASSUME NEW c, Dispositioned(c) PROVE \E v \in Said : v.case = c
      <4>1. PICK o \in caseOutcomes : o.alert = c
        BY <3>1 DEF Dispositioned
      <4>2. [case |-> o.alert, verdict |-> o.disposition] \in Said
        BY DEF Said
      <4>3. [case |-> o.alert, verdict |-> o.disposition].case = c
        BY <4>1
      <4>. QED
        BY <4>2, <4>3
    <3>2. ASSUME NEW c, NEW v \in Said, v.case = c PROVE Dispositioned(c)
      BY <3>2 DEF Said, Dispositioned
    <3>. QED
      BY <3>1, <3>2
  <2>2. \A c : Service!Judged(c) <=> \E v \in Said : v.case = c
    BY DEF Service!Judged, Said
  <2>. QED
    BY <2>1, <2>2 DEF Views
<1>5. found \in [open -> Verdict] /\ DOMAIN found = open
  BY VerdictType
<1>. HIDE DEF open, found
<1>. QED
  BY <1>1, <1>2, <1>3, <1>4, <1>5 DEF Service!Settle, Evals, Views, Said

LEMMA StepMaps ==
  Sound /\ Sound' /\ [Next]_vars => [Service!Next]_(Service!vars)
<1>. SUFFICES ASSUME Sound, Sound', [Next]_vars
              PROVE  Service!Next \/ UNCHANGED <<Evals, Views, Said>>
  BY DEF Service!vars, Evals, Views, Said
<1>1. ASSUME NEW e \in Evaluation, Evaluate(e) PROVE Service!Next
  <2>1. \E ev \in Service!Evaluation : Service!Evaluate(ev)
    BY <1>1, NoAuthorityMaps, RestateMaps, FoldMaps, SuppressMaps, RaiseMaps DEF Evaluate
  <2>. QED
    BY <2>1 DEF Service!Next
<1>2. ASSUME NEW a \in DOMAIN alerts, NEW v \in AnalystVerdict, WriteDisposition(a, v)
      PROVE  Service!Next
  BY <1>2, DispositionMaps DEF Service!Next, Views
<1>3. ASSUME Settle PROVE Service!Next
  BY <1>3, SettleMaps DEF Service!Next
<1>4. ASSUME UNCHANGED vars PROVE UNCHANGED <<Evals, Views, Said>>
  <2>1. UNCHANGED <<decisions, alerts, executions, caseOutcomes>>
    BY <1>4 DEF vars
  <2>2. \A b : Evidence(b)' = Evidence(b)
    BY <2>1 DEF Evidence
  <2>3. Views' = Views
    BY <2>1, <2>2, NothingIssued, ViewsKept
  <2>4. Evals' = Evals /\ Said' = Said
    BY <2>1 DEF Evals, Evaluated, Said
  <2>. QED
    BY <2>3, <2>4
<1>. QED
  BY <1>1, <1>2, <1>3, <1>4 DEF Next

(* The tables keep the promise of the case service in every behaviour:     *)
(* whatever the engine, analysts and the settler do is an opening, a fold, *)
(* a worsening, a verdict or nothing to the people who work cases          *)
(* (persist.py, execute.py, outcomes.py, dispositions.py).                 *)
THEOREM CaseServiceImplemented == Spec => ImplementsCaseService
<1>1. Init => Service!Init
  <2>1. Init => DOMAIN Evals = {} /\ DOMAIN Views = {} /\ Said = {}
    BY DEF Init, Evals, Views, Said
  <2>. QED
    BY <2>1 DEF Init, Service!Init, Evals, Views, Said
<1>2. Spec => []Sound
  BY TypeCorrect, RoutingCorrect, OneStepUpCorrect, PTL DEF Sound
<1>. QED
  BY <1>1, <1>2, StepMaps, PTL DEF Spec, ImplementsCaseService, Service!Spec
============================================================================
