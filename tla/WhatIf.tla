------------------------------- MODULE WhatIf -------------------------------
(***************************************************************************)
(* Evaluating without acting (engine/simulate.py, contract/simulation.py,  *)
(* api/routes_simulate.py): a candidate rule is tried on the population    *)
(* inside a transaction that is rolled back, beside administrators, lane   *)
(* runs and arrivals that commit.  The engine itself, which Decisioning    *)
(* models, is a parameter here: there is no second one for simulations.    *)
(* A charge that never happened is tried in FeatureReplay.                 *)
(***************************************************************************)
EXTENDS Integers, FiniteSets

CONSTANTS
  RuleId,
  Definition,        \* what a rule may say: its conditions and the rest
  Drafts,            \* the candidates administrators think of
  Subject,           \* subjects of the candidate's type, in its lane
  Evidence,          \* what the reads of one subject may be
  Label,             \* planted ground truth of a subject's trigger, or Unlabelled
  Unlabelled,
  Engine(_, _, _),   \* what evaluate returns, by rules, statuses and reads
  Undecided,         \* no stored decision
  Caps,              \* the sample_cap that callers ask for
  Limits             \* the diff_limit that callers ask for

RuleStatus == {"active", "shadow", "inactive", "none"}    \* none: no row

Rules    == [RuleId -> Definition]
Statuses == [RuleId -> RuleStatus]

ASSUME DraftsAssumption == Drafts \subseteq [rule : RuleId, definition : Definition]
ASSUME CapsAssumption   == Caps \subseteq Nat \ {0} /\ Limits \subseteq Nat
ASSUME FiniteAssumption == IsFiniteSet(Subject)
ASSUME LabelAssumption  == Unlabelled # "fraud"

(* A rule with authority has fired, and one of them carries the action.    *)
ASSUME EngineAssumption ==
  \A R \in Rules, S \in Statuses, x \in Evidence :
    LET e == Engine(R, S, x) IN
    /\ e.authorised \subseteq e.fired
    /\ e.authorised # {} => e.source \in e.authorised
    /\ e.authorised = {} => e.source \notin RuleId

VARIABLES
  rules,      \* rule_definitions with their conditions, by rule_id
  status,     \* their status
  reads,      \* what a point-in-time read of each subject returns
  stored,     \* the latest stored decision of each subject
  probe,      \* a what-if: what its transaction sees, then what it published
  trusted     \* nothing the answer rests on was changed by somebody else

control == <<rules, status>>
vars    == <<control, reads, stored, probe, trusted>>

----------------------------------------------------------------------------
Exists(r) == status[r] # "none"

Idle == [phase |-> "idle"]

(* A what-if of a candidate keeps its draft to the end.                    *)
OfCandidate == {"read", "applied", "loaded", "evaluated", "reported"}

Ended == {"idle", "reported"}

(* The tables and what the what-if under way carries have their shape.     *)
TypeOK ==
  /\ rules \in Rules /\ status \in Statuses
  /\ reads \in [Subject -> Evidence]
  /\ DOMAIN stored = Subject
  /\ trusted \in BOOLEAN
  /\ probe.phase \in OfCandidate \cup {"idle"}
  /\ probe.phase \in OfCandidate => probe.draft \in Drafts

(* What a decision says, and what simulation.v1 says of one.               *)
Decided(R, S, x) ==
  LET e == Engine(R, S, x) IN
  [score |-> e.score, action |-> e.action, source |-> e.source, signals |-> e.signals]

(* The part of it that is stored and compared.                             *)
Verdict(decision) == [score |-> decision.score, action |-> decision.action]

LiveDecision(s) == Decided(rules, status, reads[s])

----------------------------------------------------------------------------
(* A candidate rule (simulate_rule).                                       *)

Probes(phase, next) == probe.phase = phase /\ probe' = next

(* simulate_candidate_rule: the draft is valid; is there such a rule?      *)
Begin(d) ==
  /\ probe.phase \in Ended
  /\ probe' = [phase |-> "read", draft |-> d, replacing |-> Exists(d.rule)]
  /\ trusted' = TRUE
  /\ UNCHANGED <<control, reads, stored>>

(* The candidate is evaluated as active, whatever it asks for.             *)
AsActive(S, r) == [S EXCEPT ![r] = "active"]

(* apply_definition, inside the scope: from here on the rule's row is      *)
(* locked.  A rule that was not there and now is makes the INSERT fail.    *)
Apply ==
  /\ probe.phase = "read"
  /\ probe' = IF Exists(probe.draft.rule) # probe.replacing THEN Idle
              ELSE [phase |-> "applied", draft |-> probe.draft]
  /\ UNCHANGED <<control, reads, stored, trusted>>

Locked(r) == probe.phase \in {"applied", "loaded", "evaluated"} /\ probe.draft.rule = r

(* Mutant: the context of before the draft was applied.                    *)
LoadBefore ==
  Probes("applied", [phase |-> "loaded", draft |-> probe.draft,
                     rules |-> rules, status |-> status])

(* EngineContext.load, after the draft: the committed rules and the draft. *)
Load ==
  Probes("applied",
    [phase  |-> "loaded", draft |-> probe.draft,
     rules  |-> [rules EXCEPT ![probe.draft.rule] = probe.draft.definition],
     status |-> AsActive(status, probe.draft.rule)])

(* Mutant: a rule that fires is counted as authorised, a veto included.    *)
ResultOfFired(R, S, x, r) ==
  LET e == Engine(R, S, x) IN
  [decision   |-> Decided(R, S, x),
   fired      |-> r \in e.fired,
   conditions |-> e.conditions[r],
   authorised |-> r \in e.fired,
   carried    |-> e.source = r,
   alerts     |-> e.authorised # {}]

(* One row of results: the decision, and what the candidate had to do with *)
(* it.  A candidate that fired is a satisfied one.                         *)
Result(R, S, x, r) ==
  LET e == Engine(R, S, x) IN
  [decision   |-> Decided(R, S, x),
   fired      |-> r \in e.fired,
   conditions |-> e.conditions[r],
   authorised |-> r \in e.authorised,
   carried    |-> e.source = r,
   alerts     |-> e.authorised # {}]

(* The most recent subjects up to the cap; which those are is left open.   *)
Samples == {S \in SUBSET Subject : \E cap \in Caps :
              Cardinality(S) = IF cap < Cardinality(Subject) THEN cap ELSE Cardinality(Subject)}

(* evaluate_population over the sample.                                    *)
EvaluatePopulation ==
  \E S \in Samples :
    Probes("loaded",
      [phase |-> "evaluated", draft |-> probe.draft, sample |-> S,
       results |-> [s \in S |-> Result(probe.rules, probe.status, reads[s],
                                       probe.draft.rule)]])

(* Mutant: a subject without a stored decision always shows.               *)
MovedOrNew(before, after) ==
  before = Undecided \/ before.score # after.score \/ before.action # after.action

(* _diff: a stored decision whose score or action would be another, or     *)
(* something where nothing was.                                            *)
Moved(before, after) ==
  IF before = Undecided THEN after.score # 0 \/ after.action # "allow"
  ELSE before.score # after.score \/ before.action # after.action

OnFraud(S) == {s \in S : Label[s] = "fraud"}
Labelled(S) == {s \in S : Label[s] # Unlabelled}

(* _condition_summary: an aggravator is right on fraud, a mitigator on the *)
(* rest of what is labelled.                                               *)
Precision(c, fired) ==
  [hits |-> IF c.points >= 0 THEN Cardinality(OnFraud(fired))
            ELSE Cardinality(Labelled(fired)) - Cardinality(OnFraud(fired)),
   of   |-> Cardinality(Labelled(fired))]

(* to_rule_simulation: counts over the sample.                             *)
Report(sample, results, definition) ==
  LET flagged == {s \in sample : results[s].authorised} IN
  [fire       |-> Cardinality({s \in sample : results[s].fired}),
   authorise  |-> Cardinality(flagged),
   carry      |-> Cardinality({s \in sample : results[s].carried}),
   alert      |-> Cardinality({s \in sample : results[s].alerts}),
   truth      |-> [hits |-> Cardinality(OnFraud(flagged)), of |-> Cardinality(Labelled(flagged))],
   conditions |-> [i \in DOMAIN definition.conditions |->
                     Precision(definition.conditions[i],
                               {s \in sample : i \in results[s].conditions})]]

(* diffs[:diff_limit]: so many of the subjects that moved, the earliest by *)
(* their trigger, which is left open.                                      *)
Listed(moved, limit) ==
  {D \in SUBSET moved :
     Cardinality(D) = IF limit < Cardinality(moved) THEN limit ELSE Cardinality(moved)}

(* _stored_decisions, then the scope ends: the draft is rolled back, and   *)
(* what is published is derived from what was collected.                   *)
Publish ==
  /\ probe.phase = "evaluated"
  /\ LET moved == {s \in probe.sample : Moved(stored[s], probe.results[s].decision)} IN
     \E limit \in Limits : \E D \in Listed(moved, limit) :
       probe' =
         [phase |-> "reported", draft |-> probe.draft, sample |-> probe.sample,
          report |-> Report(probe.sample, probe.results, probe.draft.definition),
          decisions |-> [s \in probe.sample |-> probe.results[s].decision],
          before |-> [s \in probe.sample |-> stored[s]],
          total |-> Cardinality(moved), limit |-> limit, diff |-> D]

(* simulation_scope: force_rollback.                                       *)
ScopeRollsBack == UNCHANGED <<rules, status>>

TryRule ==
  /\ \/ (Load \/ EvaluatePopulation) /\ UNCHANGED control
     \/ Publish /\ ScopeRollsBack
  /\ UNCHANGED <<reads, stored, trusted>>

----------------------------------------------------------------------------
(* An answer is set aside when something it rests on has changed; a what-  *)
(* if under way runs on, and what it will say is no longer trusted.        *)
Lapses(holds) ==
  /\ trusted' = (trusted /\ holds)
  /\ probe' = IF ~holds /\ probe.phase = "reported" THEN Idle ELSE probe

Answers(d) == probe.phase = "reported" /\ probe.draft = d

(* The candidate is what runs now.                                         *)
InForce ==
  /\ probe.phase = "reported"
  /\ status[probe.draft.rule] = "active" /\ rules[probe.draft.rule] = probe.draft.definition

----------------------------------------------------------------------------
(* Administrators, lane runs and arrivals, each committing at once.        *)

(* publish_rule: a new rule lands in shadow, an edited one stays where it  *)
(* is; both wait for the lock of a what-if.                                *)
PublishRule(d) ==
  /\ ~Locked(d.rule)
  /\ rules' = [rules EXCEPT ![d.rule] = d.definition]
  /\ status' = [status EXCEPT ![d.rule] = IF Exists(d.rule) THEN @ ELSE "shadow"]
  /\ Lapses(Answers(d))
  /\ UNCHANGED <<reads, stored>>

Promote(r) ==
  /\ status[r] = "shadow" /\ ~Locked(r)
  /\ status' = [status EXCEPT ![r] = "active"]
  /\ Lapses(Answers([rule |-> r, definition |-> rules[r]]))
  /\ UNCHANGED <<rules, reads, stored>>

Retire(r) ==
  /\ status[r] \in {"active", "shadow"} /\ ~Locked(r)
  /\ status' = [status EXCEPT ![r] = "inactive"]
  /\ Lapses(FALSE)
  /\ UNCHANGED <<rules, reads, stored>>

LaneRun(s) ==
  /\ stored' = [stored EXCEPT ![s] = Verdict(LiveDecision(s))]
  /\ Lapses(stored' = stored \/ InForce)
  /\ UNCHANGED <<control, reads>>

(* The features of a subject are computed anew.                            *)
Arrive(s) ==
  /\ \E x \in Evidence : x # reads[s] /\ reads' = [reads EXCEPT ![s] = x]
  /\ Lapses(FALSE)
  /\ UNCHANGED <<control, stored>>

Init ==
  /\ \E d \in Drafts :
       /\ rules = [r \in RuleId |-> d.definition]
       /\ status = [r \in RuleId |-> IF r = d.rule THEN "active" ELSE "none"]
  /\ reads \in [Subject -> Evidence]
  /\ stored = [s \in Subject |-> Undecided]
  /\ probe = Idle
  /\ trusted = FALSE

Next ==
  \/ \E d \in Drafts : Begin(d) \/ PublishRule(d)
  \/ Apply \/ TryRule
  \/ \E r \in RuleId : Promote(r) \/ Retire(r)
  \/ \E s \in Subject : LaneRun(s) \/ Arrive(s)

Spec == Init /\ [][Next]_vars

----------------------------------------------------------------------------
(* What a what-if said of a candidate is what the engine does once that    *)
(* candidate is published and promoted and nothing else has changed: the   *)
(* score, the action, the rule that carries it and every signal, although  *)
(* the draft was evaluated inside a transaction and the rule arrived by    *)
(* way of shadow (simulate.py, simulate_rule).                             *)
TriedIsWhatRuns ==
  trusted /\ InForce => \A s \in probe.sample : LiveDecision(s) = probe.decisions[s]

(* A lane run would store another decision than the one before, or a first *)
(* one that says something.                                                *)
StoresAnother(s, before) ==
  IF before = Undecided THEN Verdict(LiveDecision(s)) # [score |-> 0, action |-> "allow"]
                        ELSE Verdict(LiveDecision(s)) # before

(* Of the sampled subjects, the diff counts exactly those whose stored     *)
(* decision the candidate moves when the lanes next run, and lists none    *)
(* but these, and all of them where diff_limit allows                      *)
(* (contract/simulation.py, _diff).                                        *)
DiffIsTheMove ==
  trusted /\ InForce =>
    LET moving == {s \in probe.sample : StoresAnother(s, probe.before[s])} IN
    /\ probe.total = Cardinality(moving)
    /\ probe.diff \subseteq moving
    /\ probe.total <= probe.limit => probe.diff = moving

(* The counts of a report narrow: who carried the action was authorised,   *)
(* who was authorised fired and would raise a case; no precision is above  *)
(* one, of an accusation or of a deduction (to_rule_simulation).           *)
ReportNarrows ==
  probe.phase = "reported" =>
    LET n == probe.report IN
    /\ n.carry <= n.authorise /\ n.authorise <= n.fire /\ n.authorise <= n.alert
    /\ n.fire <= Cardinality(probe.sample) /\ n.alert <= Cardinality(probe.sample)
    /\ n.truth.hits <= n.truth.of /\ n.truth.of <= n.authorise
    /\ \A i \in DOMAIN n.conditions : n.conditions[i].hits \in 0 .. n.conditions[i].of
=============================================================================
