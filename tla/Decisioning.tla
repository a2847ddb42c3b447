---------------------------- MODULE Decisioning ----------------------------
(***************************************************************************)
(* From the feature reads of one subject to the decision on it: conditions *)
(* (engine/conditions.py), rule scores (scoring.py), the consolidated      *)
(* signal pool (consolidate.py), action precedence (precedence.py) and the *)
(* shadow outcome beside it (evaluation.evaluate_batch), with the data     *)
(* ceiling of the evaluation and the exposure up to it (exposure.py).      *)
(*                                                                         *)
(* The state is the rule catalog, what the point-in-time read returns for  *)
(* each feature, and the result of the latest evaluation.  Between two     *)
(* evaluations a read changes or an administrator moves a rule between     *)
(* statuses.  All from one rule to the decision is pure, as it is in the   *)
(* code: it mentions no variable.  A feature has one read here; the code   *)
(* reads it once for each rule, under the ceiling of that rule, and may    *)
(* find different rows for rules of different lag.                         *)
(***************************************************************************)
EXTENDS Integers, Sequences, FiniteSets, FiniteSetsExt

CONSTANTS
  RuleId,         \* rule ids, ordered: a set of numbers
  Shape,          \* the definitions a rule may have
  Feature,        \* feature keys
  Value,          \* values of a present read
  Absent,         \* the status of a read whose evidence did not arrive
  Unresolvable,   \* the status of a read that does not apply to the subject
  Flow,           \* the movements that price the subject
  FlowAt,         \* their occurred_at, counted from that of the evaluation
  FlowWindow,     \* how far back exposure_for looks
  NoRule          \* action_source_rule or vetoed_by IS NULL

(* A condition names a feature, the values it fires on, its signed points  *)
(* and, when it is required, its group.                                    *)
Condition == [feature : Feature, hits : SUBSET Value, points : Int,
              required : BOOLEAN, group : Nat]

(* ref_action: the severity ladder, the upper half of it preventive.       *)
Severity   == [allow |-> 0, monitor |-> 1, alert |-> 2,
               challenge |-> 3, hold |-> 4, block |-> 5]
Action     == DOMAIN Severity
Preventive == {"challenge", "hold", "block"}

NoThreshold == -1     \* prevent_threshold IS NULL

RuleShape == [veto : BOOLEAN, action : Action, review : Nat,
              prevent : Nat \cup {NoThreshold}, combine : {"AND", "OR"},
              conditions : Seq(Condition), lag : Nat]

Status == {"active", "shadow", "inactive"}

(* Statuses of a read that did not resolve to a value.  stale and          *)
(* fanout_error are treated as absent is, and stand with it.               *)
Missing == {Absent, Unresolvable}
Read    == Missing \cup Value

ASSUME RuleIdAssumption == IsFiniteSet(RuleId) /\ RuleId \subseteq Nat /\ NoRule \notin RuleId
ASSUME ShapeAssumption  == Shape \subseteq RuleShape
ASSUME FlowAssumption == FlowAt \in [Flow -> Int] /\ FlowWindow \in Nat
ASSUME ReadAssumption   == Absent # Unresolvable /\ Value \cap Missing = {}

VARIABLES
  rules,      \* rule_definitions and rule_conditions, by rule_id
  status,     \* rule_definitions.status, by rule_id
  reads,      \* what read_many returns, by feature
  result      \* the EvaluationResult of the latest evaluation

vars == <<rules, status, reads, result>>

----------------------------------------------------------------------------
(* One rule on the reads of one subject (conditions.evaluate_rule).        *)

Mitigating(c)        == c.points < 0
IsPresent(f, given) == given[f] \notin Missing
Fires(c, given)     == IsPresent(c.feature, given) /\ given[c.feature] \in c.hits

FiredOf(rule, given) == {i \in DOMAIN rule.conditions : Fires(rule.conditions[i], given)}

(* Features whose evidence should exist and does not.                      *)
DegradedOf(rule, given) ==
  {f \in Feature : given[f] = Absent
                   /\ \E i \in DOMAIN rule.conditions : rule.conditions[i].feature = f}

(* Mutant: a missing mitigator is scored as zero and otherwise ignored.    *)
PreventiveAuthorityAlways(rule, given) == TRUE

(* Lost when a mitigator's read is missing, for whatever reason.           *)
PreventiveAuthority(rule, given) ==
  \A i \in DOMAIN rule.conditions :
    Mitigating(rule.conditions[i]) => IsPresent(rule.conditions[i].feature, given)

Required(rule) == {i \in DOMAIN rule.conditions : rule.conditions[i].required}
GroupsOf(rule) == {rule.conditions[i].group : i \in Required(rule)}

(* Only required conditions gate; those of a group are alternatives.  A    *)
(* rule without any is satisfied when something fired.                     *)
Satisfied(rule, given) ==
  LET holds(g) == \E i \in Required(rule) \cap FiredOf(rule, given) : rule.conditions[i].group = g
  IN  IF GroupsOf(rule) = {} THEN FiredOf(rule, given) # {}
      ELSE IF rule.combine = "AND" THEN \A g \in GroupsOf(rule) : holds(g)
      ELSE \E g \in GroupsOf(rule) : holds(g)

Exonerating(rule) ==
  {rule.conditions[i].feature : i \in {j \in DOMAIN rule.conditions : Mitigating(rule.conditions[j])}}

(* An exonerating condition counts as fired when any condition of the rule *)
(* on its feature did.                                                     *)
FiredFeatures(rule, given) == {rule.conditions[i].feature : i \in FiredOf(rule, given)}

(* Mutant: a missing exonerating read reads as one that did not fire.      *)
VetoStateTwoValued(rule, given) ==
  IF Exonerating(rule) # {} /\ Exonerating(rule) \subseteq FiredFeatures(rule, given)
  THEN "established" ELSE "not_established"

(* conditions._veto_state.                                                 *)
VetoState(rule, given) ==
  IF \A f \in Exonerating(rule) : given[f] = Unresolvable THEN "not_established"
  ELSE IF \E f \in Exonerating(rule) : given[f] = Absent THEN "indeterminate"
  ELSE IF Exonerating(rule) \subseteq FiredFeatures(rule, given)
       THEN "established" ELSE "not_established"

PointsOf(rule) == [i \in DOMAIN rule.conditions |-> rule.conditions[i].points]

(* scoring.score_rule: an unsatisfied rule contributes nothing.            *)
RuleScore(rule, given) ==
  IF Satisfied(rule, given) THEN SumFunctionOnSet(PointsOf(rule), FiredOf(rule, given)) ELSE 0

(* The RuleScore of a rule, with its RuleEvaluation.                       *)
EvaluateRule(id, rule, given) ==
  [id        |-> id,
   rule      |-> rule,
   fired     |-> FiredOf(rule, given),
   satisfied |-> Satisfied(rule, given),
   score     |-> RuleScore(rule, given),
   authority |-> PreventiveAuthority(rule, given),
   veto      |-> VetoState(rule, given),
   degraded  |-> DegradedOf(rule, given)]

----------------------------------------------------------------------------
(* Consolidation of a set of evaluated rules: one signal for each feature  *)
(* and direction, the largest claim on it, or of equal claims the first in *)
(* rule and condition order.                                               *)

Abs(n)       == IF n < 0 THEN -n ELSE n
Direction(c) == IF Mitigating(c) THEN "mitigating" ELSE "aggravating"

(* What one satisfied rule says of the subject with a condition that fired.*)
ClaimsOf(ev) == {[by |-> ev.id, at |-> i, condition |-> ev.rule.conditions[i]] : i \in ev.fired}

Claims(evs) == UNION {ClaimsOf(ev) : ev \in {e \in evs : e.satisfied}}

(* Mutant: buckets keyed on the feature alone.                             *)
SameFeature(c, other) == c.feature = other.feature

SameBucket(c, other) == c.feature = other.feature /\ Direction(c) = Direction(other)

Beats(cl, other) ==
  LET mine == Abs(cl.condition.points) theirs == Abs(other.condition.points) IN
  \/ mine > theirs
  \/ mine = theirs /\ cl.by < other.by
  \/ mine = theirs /\ cl.by = other.by /\ cl.at <= other.at

Rivals(claims, cl) == {o \in claims : SameBucket(cl.condition, o.condition)}

Winners(claims) == {cl \in claims : \A o \in Rivals(claims, cl) : Beats(cl, o)}

SignalOf(claims, cl) ==
  [feature |-> cl.condition.feature, direction |-> Direction(cl.condition),
   points  |-> cl.condition.points, source |-> cl.by,
   asserted |-> {o.by : o \in Rivals(claims, cl)}]

Buckets(claims) == {SignalOf(claims, cl) : cl \in Winners(claims)}

SumOf(signals) == SumFunctionOnSet([s \in signals |-> s.points], signals)

(* A pool whose mitigators consume its aggravators is dropped whole.       *)
Pool(evs) == IF SumOf(Buckets(Claims(evs))) <= 0 THEN {} ELSE Buckets(Claims(evs))

----------------------------------------------------------------------------
(* Action precedence (precedence.decide).                                  *)

Vetoes(evs, state) == {ev \in evs : ev.rule.veto /\ ev.veto = state}

Authorised(evs) == {ev \in evs : ~ev.rule.veto /\ ev.satisfied /\ ev.score >= ev.rule.review}

(* The most severe action, then the least rule_id.                         *)
Outranks(ev, other) ==
  LET mine == Severity[ev.rule.action] theirs == Severity[other.rule.action] IN
  mine > theirs \/ (mine = theirs /\ ev.id <= other.id)

Chosen(evs) == CHOOSE ev \in Authorised(evs) : \A other \in Authorised(evs) : Outranks(ev, other)

MayPrevent(ev) ==
  ev.rule.prevent # NoThreshold /\ ev.score >= ev.rule.prevent /\ ev.authority

(* _highest_non_preventive.                                                *)
Demoted(evs) ==
  LET options == {ev.rule.action : ev \in Authorised(evs)} \ Preventive IN
  IF options = {} THEN "alert"
  ELSE CHOOSE a \in options : \A b \in options : Severity[a] >= Severity[b]

Uncapped(evs) ==
  IF Authorised(evs) = {} THEN "allow"
  ELSE LET ev == Chosen(evs) IN
       IF ev.rule.action \in Preventive /\ ~MayPrevent(ev) THEN Demoted(evs) ELSE ev.rule.action

IsCapped(evs) == Vetoes(evs, "established") \cup Vetoes(evs, "indeterminate") # {}

DecidedAction(evs) ==
  IF IsCapped(evs) /\ Severity[Uncapped(evs)] > Severity.monitor THEN "monitor" ELSE Uncapped(evs)

IdsOf(evs) == {ev.id : ev \in evs}

(* The last veto in rule order to be established.                          *)
VetoedBy(evs) ==
  IF Vetoes(evs, "established") = {} THEN NoRule ELSE Max(IdsOf(Vetoes(evs, "established")))

----------------------------------------------------------------------------
(* evaluation.evaluate_batch for one request.                              *)

(* Mutant: a shadow rule acts.                                             *)
EveryEvaluated == {r \in RuleId : status[r] \in {"active", "shadow"}}

Live   == {r \in RuleId : status[r] = "active"}
Shadow == {r \in RuleId : status[r] = "shadow"}

(* The rules S on the reads of the subject.                                *)
Evaluated(S) == {EvaluateRule(r, rules[r], reads) : r \in S}

NoShadow == [rules |-> {}, score |-> 0, action |-> "allow"]

(* Mutant: the shadow rules measured on their own.                         *)
ShadowAlone ==
  IF Shadow = {} THEN NoShadow
  ELSE [rules |-> Shadow, score |-> SumOf(Pool(Evaluated(Shadow))),
        action |-> DecidedAction(Evaluated(Shadow))]

(* _shadow_outcome: the decision as if the shadow rules were active.       *)
ShadowOutcome ==
  LET both == Evaluated(Live \cup Shadow) IN
  IF Shadow = {} THEN NoShadow
  ELSE [rules |-> Shadow, score |-> SumOf(Pool(both)), action |-> DecidedAction(both)]

(* pit_bound_at, counted from occurred_at: the latest ceiling any rule was *)
(* read under, whether or not it acts.                                     *)
DataCeiling == Max({0} \cup {rules[r].lag : r \in Live \cup Shadow})

(* exposure_for: what moved in the window that ends at the ceiling.        *)
ExposedBy(bound) == {m \in Flow : bound - FlowWindow < FlowAt[m] /\ FlowAt[m] <= bound}

(* rule_version_set has the rules that were evaluated, shadow ones too.    *)
Evaluation ==
  LET live == Evaluated(Live) IN
  [signals    |-> Pool(live),
   score      |-> SumOf(Pool(live)),
   action     |-> DecidedAction(live),
   source     |-> IF Authorised(live) = {} THEN NoRule ELSE Chosen(live).id,
   authorised |-> IdsOf(Authorised(live)),
   vetoedBy   |-> VetoedBy(live),
   degraded   |-> UNION {ev.degraded : ev \in live},
   bound      |-> DataCeiling,
   exposure   |-> ExposedBy(DataCeiling),
   versions   |-> Live \cup Shadow,
   shadow     |-> ShadowOutcome]

----------------------------------------------------------------------------
(* Actions.                                                                *)

(* The next evaluation reads another value of feature f, or finds that it  *)
(* has gone missing.                                                       *)
Evaluate(f) ==
  /\ \E v \in Read : v # reads[f] /\ reads' = [reads EXCEPT ![f] = v]
  /\ UNCHANGED <<rules, status>>
  /\ result' = Evaluation'

(* publish.promote, retire and publish_rule move a rule between statuses;  *)
(* the next evaluation loads it.                                           *)
SetStatus(r, s) ==
  /\ status[r] # s
  /\ status' = [status EXCEPT ![r] = s]
  /\ UNCHANGED <<rules, reads>>
  /\ result' = Evaluation'

Init ==
  /\ rules \in [RuleId -> Shape]
  /\ status \in [RuleId -> Status]
  /\ reads = [f \in Feature |-> Absent]
  /\ result = Evaluation

Next ==
  \/ \E f \in Feature : Evaluate(f)
  \/ \E r \in RuleId, s \in Status : SetStatus(r, s)

Spec == Init /\ [][Next]_vars

----------------------------------------------------------------------------
(* Invariants.                                                             *)

Signal == [feature : Feature, direction : {"aggravating", "mitigating"}, points : Int,
           source : RuleId, asserted : SUBSET RuleId]

Result == [signals : SUBSET Signal, score : Nat, action : Action,
           source : RuleId \cup {NoRule}, authorised : SUBSET RuleId,
           vetoedBy : RuleId \cup {NoRule}, degraded : SUBSET Feature,
           bound : Nat, exposure : SUBSET Flow, versions : SUBSET RuleId,
           shadow : [rules : SUBSET RuleId, score : Nat, action : Action]]

(* The shape of the state; a score is never negative (consolidate.py).     *)
TypeOK ==
  /\ rules \in [RuleId -> Shape]
  /\ status \in [RuleId -> Status]
  /\ reads \in [Feature -> Read]
  /\ result \in Result

(* A customer is stopped only on evidence that is all there: some active   *)
(* rule asked for exactly that action, clears its own prevention line, has *)
(* none of its mitigating evidence missing, no active rule with authority  *)
(* asked for worse, and no active veto holds or might hold (precedence.py).*)
PreventionEarned ==
  result.action \in Preventive =>
    /\ \E r \in Live :
         /\ rules[r].action = result.action
         /\ rules[r].prevent \in Nat /\ RuleScore(rules[r], reads) >= rules[r].prevent
         /\ \A i \in DOMAIN rules[r].conditions :
              rules[r].conditions[i].points < 0 => reads[rules[r].conditions[i].feature] \in Value
    /\ \A r \in Live :
         ~rules[r].veto /\ Satisfied(rules[r], reads) /\ RuleScore(rules[r], reads) >= rules[r].review
           => Severity[rules[r].action] <= Severity[result.action]
    /\ \A r \in Live : rules[r].veto => VetoState(rules[r], reads) = "not_established"

(* The signals on the bar add up to the score, no feature is counted twice *)
(* in one direction, both sides of a disagreement are on the bar, and a    *)
(* signal carries the largest claim and every claimant (consolidate.py).   *)
ScoreExplained ==
  LET answers(s, c) == s.feature = c.feature /\ (s.points < 0) = (c.points < 0)
  IN  /\ result.score = SumOf(result.signals)
      /\ result.signals = {} <=> result.score = 0
      /\ result.signals # {} =>
           \A r \in Live : \A i \in FiredOf(rules[r], reads) :
             Satisfied(rules[r], reads) =>
               LET c == rules[r].conditions[i] IN
               \E s \in result.signals :
                 /\ answers(s, c)
                 /\ r \in s.asserted
                 /\ Abs(c.points) <= Abs(s.points)
                 /\ \A other \in result.signals : answers(other, c) => other = s

----------------------------------------------------------------------------
(* Action properties.                                                      *)

(* What the decision says of its subject.                                  *)
Judgement(res) ==
  <<res.signals, res.score, res.action, res.source, res.authorised, res.vetoedBy, res.degraded>>

(* A feature that rules cite only to deduct, never to be satisfied.        *)
DeductsOnly(f) ==
  \A r \in RuleId : \A i \in DOMAIN rules[r].conditions :
    LET c == rules[r].conditions[i] IN c.feature = f => c.points < 0 /\ ~c.required

(* Losing exonerating evidence raises the score and never the action to a  *)
(* preventive one (conditions.py, the policy on missing mitigators).       *)
MissingMitigatorNeverPrevents ==
  [][\A f \in Feature :
       /\ reads' = [reads EXCEPT ![f] = Absent] /\ status' = status
       /\ DeductsOnly(f)
       /\ result'.action \in Preventive
       => result.action = result'.action]_vars

(* A rule that enters shadow from inactive, or leaves it for inactive,     *)
(* changes no part of the judgement, neither its own nor that of others.   *)
(* All that it may move beside the versions is the data ceiling, out to    *)
(* its own lag and only past every acting rule, and with it the exposure:  *)
(* it adds movements from beyond the old ceiling (evaluate_batch,          *)
(* catalog.takes_action, exposure.py).                                     *)
ShadowMovesTheCeilingOnly ==
  [][/\ reads' = reads
     /\ {r \in RuleId : status'[r] = "active"} = {r \in RuleId : status[r] = "active"}
     => /\ Judgement(result') = Judgement(result)
        /\ result'.bound = result.bound => result'.exposure = result.exposure
        /\ result'.bound > result.bound =>
             /\ \E r \in RuleId : status'[r] = "shadow" /\ rules[r].lag = result'.bound
             /\ \A r \in RuleId : status[r] = "active" => rules[r].lag < result'.bound
             /\ \A m \in result'.exposure \ result.exposure : FlowAt[m] > result.bound]_vars

(* Promoting the only rule in shadow yields the action and the score its   *)
(* shadow outcome announced (_shadow_outcome, publish.promote).            *)
PromotionAsPreviewed ==
  [][\A r \in RuleId :
       /\ reads' = reads
       /\ {q \in RuleId : status[q] = "shadow"} = {r}
       /\ status'[r] = "active"
       => result'.action = result.shadow.action /\ result'.score = result.shadow.score]_vars

============================================================================
