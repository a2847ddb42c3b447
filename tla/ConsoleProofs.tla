--------------------------- MODULE ConsoleProofs ---------------------------
(***************************************************************************)
(* What the people at the console are shown while the system runs.  First  *)
(* WhatIf, for any rules, drafts, subjects and reads, and for any engine   *)
(* that names a source among the rules it authorises.  Then CaseReports,   *)
(* for any scores, delays and verdicts and histories of any length.  The   *)
(* two share no variable: each theorem names its own specification.        *)
(***************************************************************************)
EXTENDS WhatIf, CaseReports, FiniteSetTheorems, SequenceTheorems, WellFoundedInduction, TLAPS

(* The rules and statuses that the candidate is evaluated under.           *)
CandidateRules    == [rules EXCEPT ![probe.draft.rule] = probe.draft.definition]
CandidateStatuses == AsActive(status, probe.draft.rule)

(* What a what-if carries is what the committed tables say, as long as     *)
(* nothing it rests on has been changed.                                   *)
Faithful ==
  trusted =>
    /\ probe.phase = "loaded" =>
         probe.rules = CandidateRules /\ probe.status = CandidateStatuses
    /\ probe.phase = "evaluated" => \A s \in probe.sample :
         probe.results[s].decision = Decided(CandidateRules, CandidateStatuses, reads[s])
    /\ probe.phase = "reported" => \A s \in probe.sample :
         probe.decisions[s] = Decided(CandidateRules, CandidateStatuses, reads[s])

----------------------------------------------------------------------------
(* Types.                                                                  *)

LEMMA DraftFields ==
  ASSUME NEW d \in Drafts
  PROVE  d.rule \in RuleId /\ d.definition \in Definition
BY DraftsAssumption

(* An answer that is set aside, and one that is not.                       *)
LEMMA LapsesType ==
  ASSUME TypeOK, NEW holds \in BOOLEAN, Lapses(holds)
  PROVE  /\ trusted' \in BOOLEAN
         /\ probe'.phase \in OfCandidate \cup {"idle"}
         /\ probe'.phase \in OfCandidate => probe'.draft \in Drafts
         /\ trusted' => trusted /\ holds /\ probe' = probe
<1>1. probe' = probe \/ probe' = Idle
  BY DEF Lapses
<1>2. Idle.phase = "idle" /\ "idle" \notin OfCandidate
  BY DEF Idle, OfCandidate
<1>3. trusted' = (trusted /\ holds)
  BY DEF Lapses
<1>. QED
  BY <1>1, <1>2, <1>3 DEF TypeOK, Lapses

LEMMA TypeStep == TypeOK /\ [Next]_vars => TypeOK'
<1>. SUFFICES ASSUME TypeOK, [Next]_vars PROVE TypeOK'
  OBVIOUS
<1>1. ASSUME NEW d \in Drafts, Begin(d) PROVE TypeOK'
  <2>1. /\ probe'.phase = "read" /\ probe'.draft = d
        /\ trusted' = TRUE /\ UNCHANGED <<rules, status, reads, stored>>
    BY <1>1 DEF Begin, control
  <2>. QED
    BY <2>1 DEF TypeOK, OfCandidate
<1>2. ASSUME NEW d \in Drafts, PublishRule(d) PROVE TypeOK'
  <2>1. rules' \in Rules /\ status' \in Statuses
    BY <1>2, DraftFields DEF PublishRule, TypeOK, Rules, Statuses, RuleStatus
  <2>2. Lapses(Answers(d)) /\ Answers(d) \in BOOLEAN /\ UNCHANGED <<reads, stored>>
    BY <1>2 DEF PublishRule, Answers
  <2>. QED
    BY <2>1, <2>2, LapsesType DEF TypeOK
<1>3. ASSUME Apply PROVE TypeOK'
  <2>1. UNCHANGED <<rules, status, reads, stored, trusted>>
    BY <1>3 DEF Apply, control
  <2>2. \/ probe'.phase = "idle"
        \/ probe'.phase = "applied" /\ probe'.draft = probe.draft /\ probe.phase = "read"
    BY <1>3 DEF Apply, Idle
  <2>. QED
    BY <2>1, <2>2 DEF TypeOK, OfCandidate
<1>4. ASSUME TryRule PROVE TypeOK'
  <2>1. UNCHANGED <<rules, status, reads, stored, trusted>>
    BY <1>4 DEF TryRule, ScopeRollsBack, control
  <2>2. /\ probe'.phase \in {"loaded", "evaluated", "reported"}
        /\ probe'.draft = probe.draft /\ probe.phase \in {"applied", "loaded", "evaluated"}
    <3>1. CASE Load
      BY <3>1 DEF Load, Probes
    <3>2. CASE EvaluatePopulation
      BY <3>2 DEF EvaluatePopulation, Probes
    <3>3. CASE Publish
      BY <3>3 DEF Publish
    <3>. QED
      BY <1>4, <3>1, <3>2, <3>3 DEF TryRule
  <2>. QED
    BY <2>1, <2>2 DEF TypeOK, OfCandidate
<1>8. ASSUME NEW r \in RuleId, Promote(r) PROVE TypeOK'
  <2>1. /\ status' \in Statuses /\ UNCHANGED <<rules, reads, stored>>
    BY <1>8 DEF Promote, TypeOK, Statuses, RuleStatus
  <2>2. PICK holds \in BOOLEAN : holds = Answers([rule |-> r, definition |-> rules[r]])
    BY DEF Answers
  <2>3. Lapses(holds)
    BY <1>8, <2>2 DEF Promote
  <2>. QED
    BY <2>1, <2>3, LapsesType DEF TypeOK
<1>9. ASSUME NEW r \in RuleId, Retire(r) PROVE TypeOK'
  <2>1. /\ status' \in Statuses /\ UNCHANGED <<rules, reads, stored>>
        /\ Lapses(FALSE)
    BY <1>9 DEF Retire, TypeOK, Statuses, RuleStatus
  <2>. QED
    BY <2>1, LapsesType DEF TypeOK
<1>10. ASSUME NEW s \in Subject, LaneRun(s) PROVE TypeOK'
  <2>1. DOMAIN stored' = Subject /\ UNCHANGED <<rules, status, reads>>
    BY <1>10 DEF LaneRun, TypeOK, control
  <2>2. PICK holds \in BOOLEAN : holds = (stored' = stored \/ InForce)
    OBVIOUS
  <2>3. Lapses(holds)
    BY <1>10, <2>2 DEF LaneRun
  <2>. QED
    BY <2>1, <2>3, LapsesType DEF TypeOK
<1>11. ASSUME NEW s \in Subject, Arrive(s) PROVE TypeOK'
  <2>1. /\ reads' \in [Subject -> Evidence] /\ UNCHANGED <<rules, status, stored>>
        /\ Lapses(FALSE)
    BY <1>11 DEF Arrive, TypeOK, control
  <2>. QED
    BY <2>1, LapsesType DEF TypeOK
<1>12. CASE UNCHANGED vars
  BY <1>12 DEF TypeOK, vars, control
<1>. QED
  BY <1>1, <1>2, <1>3, <1>4, <1>8, <1>9, <1>10, <1>11, <1>12 DEF Next

(* The tables and the what-if keep their shape under every request.        *)
THEOREM TypeCorrect == Spec => []TypeOK
<1>1. Init => TypeOK
  <2> SUFFICES ASSUME Init PROVE TypeOK
    OBVIOUS
  <2>1. rules \in Rules /\ status \in Statuses
    BY DraftFields DEF Init, Rules, Statuses, RuleStatus
  <2>2. probe.phase = "idle"
    BY DEF Init, Idle
  <2>3. reads \in [Subject -> Evidence] /\ DOMAIN stored = Subject /\ trusted \in BOOLEAN
    BY DEF Init
  <2>. QED
    BY <2>1, <2>2, <2>3 DEF TypeOK, OfCandidate
<1>. QED
  BY <1>1, TypeStep, PTL DEF Spec

----------------------------------------------------------------------------
(* Trust.                                                                  *)

(* As long as it is trusted, a what-if that somebody else's commit finds   *)
(* carries what it carried.                                                *)
LEMMA KeepsProbe ==
  ASSUME Faithful, TypeOK, UNCHANGED <<rules, status, reads>>,
         trusted' => trusted, trusted' => probe' = probe
  PROVE  Faithful'
<1>. SUFFICES ASSUME trusted' PROVE Faithful'
  BY DEF Faithful
<1>1. CandidateRules' = CandidateRules /\ CandidateStatuses' = CandidateStatuses
  BY DEF CandidateRules, CandidateStatuses, AsActive
<1>. QED
  BY <1>1 DEF Faithful, Decided

(* A row that is written is written in place of the draft's, or the answer *)
(* lapses: what the candidate runs under stays the same.                   *)
LEMMA FaithfulPublish ==
  ASSUME TypeOK, Faithful, NEW d \in Drafts, PublishRule(d)
  PROVE  Faithful'
<1>. SUFFICES ASSUME trusted' PROVE Faithful'
  BY DEF Faithful
<1>1. Lapses(Answers(d)) /\ UNCHANGED <<reads>>
  BY DEF PublishRule
<1>2. trusted /\ Answers(d) /\ probe' = probe
  BY <1>1 DEF Lapses
<1>3. probe.phase = "reported" /\ probe.draft = d
  BY <1>2 DEF Answers
<1>4. CandidateRules' = CandidateRules
  BY <1>2, <1>3, DraftFields DEF CandidateRules, PublishRule, TypeOK, Rules
<1>5. CandidateStatuses' = CandidateStatuses
  BY <1>2, <1>3, DraftFields DEF CandidateStatuses, AsActive, PublishRule, TypeOK, Statuses
<1>. QED
  BY <1>1, <1>2, <1>3, <1>4, <1>5 DEF Faithful, Decided

LEMMA FaithfulPromote ==
  ASSUME TypeOK, Faithful, NEW r \in RuleId, Promote(r)
  PROVE  Faithful'
<1>. SUFFICES ASSUME trusted' PROVE Faithful'
  BY DEF Faithful
<1>1. /\ Lapses(Answers([rule |-> r, definition |-> rules[r]]))
      /\ UNCHANGED <<rules, reads>>
  BY DEF Promote
<1>2. trusted /\ Answers([rule |-> r, definition |-> rules[r]]) /\ probe' = probe
  BY <1>1 DEF Lapses
<1>3. probe.phase = "reported" /\ probe.draft.rule = r
  BY <1>2 DEF Answers
<1>4. CandidateRules' = CandidateRules
  BY <1>1, <1>2 DEF CandidateRules
<1>5. CandidateStatuses' = CandidateStatuses
  BY <1>2, <1>3 DEF CandidateStatuses, AsActive, Promote, TypeOK, Statuses
<1>. QED
  BY <1>1, <1>2, <1>3, <1>4, <1>5 DEF Faithful, Decided

(* The steps of the candidate's own transaction.                           *)
LEMMA FaithfulTry ==
  ASSUME TypeOK, Faithful, TryRule
  PROVE  Faithful'
<1>. SUFFICES ASSUME trusted' PROVE Faithful'
  BY DEF Faithful
<1>1. UNCHANGED <<rules, status, reads, stored, trusted>>
  BY DEF TryRule, ScopeRollsBack, control
<1>2. CASE Load
  <2>1. /\ probe'.phase = "loaded" /\ probe'.draft = probe.draft
        /\ probe'.rules = CandidateRules /\ probe'.status = CandidateStatuses
    BY <1>2 DEF Load, Probes, CandidateRules, CandidateStatuses
  <2>. QED
    BY <1>1, <2>1 DEF Faithful, CandidateRules, CandidateStatuses, AsActive
<1>3. CASE EvaluatePopulation
  <2>1. /\ probe.phase = "loaded" /\ probe'.phase = "evaluated" /\ probe'.draft = probe.draft
        /\ probe'.results = [s \in probe'.sample |->
              Result(probe.rules, probe.status, reads[s], probe.draft.rule)]
    BY <1>3 DEF EvaluatePopulation, Probes
  <2>2. probe.rules = CandidateRules /\ probe.status = CandidateStatuses
    BY <1>1, <2>1 DEF Faithful
  <2>3. CandidateRules' = CandidateRules /\ CandidateStatuses' = CandidateStatuses
    BY <1>1, <2>1 DEF CandidateRules, CandidateStatuses, AsActive
  <2>4. ASSUME NEW s \in probe'.sample
        PROVE  probe'.results[s].decision = Decided(CandidateRules, CandidateStatuses, reads[s])
    BY <2>1, <2>2 DEF Result
  <2>. QED
    BY <1>1, <2>1, <2>3, <2>4 DEF Faithful, Decided
<1>4. CASE Publish
  <2>1. /\ probe.phase = "evaluated" /\ probe'.phase = "reported" /\ probe'.draft = probe.draft
        /\ probe'.sample = probe.sample
        /\ probe'.decisions = [s \in probe.sample |-> probe.results[s].decision]
    BY <1>4 DEF Publish
  <2>2. CandidateRules' = CandidateRules /\ CandidateStatuses' = CandidateStatuses
    BY <1>1, <2>1 DEF CandidateRules, CandidateStatuses, AsActive
  <2>. QED
    BY <1>1, <2>1, <2>2 DEF Faithful, Decided
<1>. QED
  BY <1>2, <1>3, <1>4 DEF TryRule

LEMMA FaithfulStep == TypeOK /\ Faithful /\ [Next]_vars => Faithful'
<1>. SUFFICES ASSUME TypeOK, Faithful, [Next]_vars PROVE Faithful'
  OBVIOUS
<1>1. ASSUME NEW d \in Drafts, Begin(d) PROVE Faithful'
  <2>1. probe'.phase = "read"
    BY <1>1 DEF Begin
  <2>. QED
    BY <2>1 DEF Faithful
<1>2. ASSUME NEW d \in Drafts, PublishRule(d) PROVE Faithful'
  BY <1>2, FaithfulPublish
<1>3. CASE Apply
  <2>1. probe'.phase \in {"idle", "applied"}
    BY <1>3 DEF Apply, Idle
  <2>. QED
    BY <2>1 DEF Faithful
<1>4. CASE TryRule
  BY <1>4, FaithfulTry
<1>8. ASSUME NEW r \in RuleId, Promote(r) PROVE Faithful'
  BY <1>8, FaithfulPromote
<1>9. ASSUME NEW r \in RuleId, Retire(r) PROVE Faithful'
  BY <1>9 DEF Retire, Lapses, Faithful
<1>10. ASSUME NEW s \in Subject, LaneRun(s) PROVE Faithful'
  <2>1. UNCHANGED <<rules, status, reads>>
    BY <1>10 DEF LaneRun, control
  <2>2. trusted' => trusted /\ probe' = probe
    BY <1>10 DEF LaneRun, Lapses
  <2>. QED
    BY <2>1, <2>2, KeepsProbe
<1>11. ASSUME NEW s \in Subject, Arrive(s) PROVE Faithful'
  BY <1>11 DEF Arrive, Lapses, Faithful
<1>12. CASE UNCHANGED vars
  BY <1>12, KeepsProbe DEF vars, control
<1>. QED
  BY <1>1, <1>2, <1>3, <1>4, <1>8, <1>9, <1>10, <1>11, <1>12 DEF Next

LEMMA FaithfulCorrect == Spec => [](TypeOK /\ Faithful)
<1>1. Init => Faithful
  BY DEF Init, Faithful
<1>. QED
  BY <1>1, TypeCorrect, FaithfulStep, PTL DEF Spec

(* A candidate that is in force adds nothing to the tables: what it was    *)
(* evaluated under is what runs.                                           *)
LEMMA InForceIsCommitted ==
  ASSUME TypeOK, InForce
  PROVE  CandidateRules = rules /\ CandidateStatuses = status
<1>1. probe.draft.rule \in RuleId
  BY DraftFields DEF TypeOK, InForce, OfCandidate
<1>. QED
  BY <1>1 DEF TypeOK, Rules, Statuses, InForce, CandidateRules, CandidateStatuses, AsActive

(* What was said of a candidate is what the engine decides once the        *)
(* candidate is in force and nothing else has changed.                     *)
THEOREM CandidateTrustworthy == Spec => []TriedIsWhatRuns
<1>1. TypeOK /\ Faithful => TriedIsWhatRuns
  <2> SUFFICES ASSUME TypeOK, Faithful, trusted, InForce, NEW s \in probe.sample
               PROVE  LiveDecision(s) = probe.decisions[s]
    BY DEF TriedIsWhatRuns
  <2>1. probe.decisions[s] = Decided(CandidateRules, CandidateStatuses, reads[s])
    BY DEF Faithful, InForce
  <2>. QED
    BY <2>1, InForceIsCommitted DEF LiveDecision
<1>. QED
  BY <1>1, FaithfulCorrect, PTL

----------------------------------------------------------------------------
(* The report and the diff.                                                *)

(* A candidate that carries was authorised, one that is authorised fired   *)
(* and raises a case.                                                      *)
Narrows(sample, results) ==
  \A s \in sample :
    /\ results[s].carried => results[s].authorised
    /\ results[s].authorised => results[s].fired /\ results[s].alerts

(* What is stored is a score and an action.                                *)
Storable(decision) == decision = Undecided \/ decision = Verdict(decision)

(* The sampled subjects that were counted as moved.                        *)
MovedOf(p) == {s \in p.sample : Moved(p.before[s], p.decisions[s])}

DiffInv ==
  /\ probe.total = Cardinality(MovedOf(probe))
  /\ probe.diff \subseteq MovedOf(probe)
  /\ probe.total <= probe.limit => probe.diff = MovedOf(probe)
  /\ \A s \in probe.sample : Storable(probe.before[s])

ReportInv ==
  /\ probe.phase = "loaded" => probe.rules \in Rules /\ probe.status \in Statuses
  /\ probe.phase \in {"evaluated", "reported"} => probe.sample \subseteq Subject
  /\ probe.phase = "evaluated" => Narrows(probe.sample, probe.results)
  /\ probe.phase = "reported" => DiffInv
  /\ ReportNarrows
  /\ \A s \in Subject : Storable(stored[s])

LEMMA ResultNarrows ==
  ASSUME NEW R \in Rules, NEW S \in Statuses, NEW x \in Evidence, NEW r \in RuleId
  PROVE  /\ Result(R, S, x, r).carried => Result(R, S, x, r).authorised
         /\ Result(R, S, x, r).authorised =>
              Result(R, S, x, r).fired /\ Result(R, S, x, r).alerts
<1>1. PICK e : e = Engine(R, S, x)
  OBVIOUS
<1>2. /\ e.authorised \subseteq e.fired
      /\ e.authorised # {} => e.source \in e.authorised
      /\ e.authorised = {} => e.source \notin RuleId
  BY <1>1, EngineAssumption
<1>3. /\ Result(R, S, x, r).carried = (e.source = r)
      /\ Result(R, S, x, r).authorised = (r \in e.authorised)
      /\ Result(R, S, x, r).fired = (r \in e.fired)
      /\ Result(R, S, x, r).alerts = (e.authorised # {})
  BY <1>1 DEF Result
<1>. QED
  BY <1>2, <1>3

LEMMA Fewer ==
  ASSUME NEW S, NEW T, IsFiniteSet(T), S \subseteq T
  PROVE  /\ IsFiniteSet(S) /\ Cardinality(S) \in Nat /\ Cardinality(T) \in Nat
         /\ Cardinality(S) <= Cardinality(T)
BY FS_Subset, FS_CardinalityType

(* No precision is above one.                                              *)
LEMMA PrecisionBounded ==
  ASSUME NEW c, NEW fired \in SUBSET Subject
  PROVE  Precision(c, fired).hits \in 0 .. Precision(c, fired).of
<1>1. OnFraud(fired) \subseteq Labelled(fired) /\ Labelled(fired) \subseteq Subject
  BY LabelAssumption DEF OnFraud, Labelled
<1>2. IsFiniteSet(Labelled(fired))
  BY <1>1, FiniteAssumption, Fewer
<1>3. PICK n : n = Cardinality(OnFraud(fired))
  OBVIOUS
<1>4. PICK m : m = Cardinality(Labelled(fired))
  OBVIOUS
<1>5. n \in Nat /\ m \in Nat /\ n <= m
  BY <1>1, <1>2, <1>3, <1>4, Fewer
<1>6. /\ Precision(c, fired).of = m
      /\ Precision(c, fired).hits = IF c.points >= 0 THEN n ELSE m - n
  BY <1>3, <1>4 DEF Precision
<1>7. n \in 0 .. m /\ m - n \in 0 .. m
  BY <1>5
<1>. QED
  BY <1>6, <1>7

(* Counting keeps the order of the sets that are counted.                  *)
LEMMA ReportCounts ==
  ASSUME NEW sample \in SUBSET Subject, NEW results, Narrows(sample, results), NEW definition
  PROVE  LET n == Report(sample, results, definition) IN
         /\ n.carry <= n.authorise /\ n.authorise <= n.fire /\ n.authorise <= n.alert
         /\ n.fire <= Cardinality(sample) /\ n.alert <= Cardinality(sample)
         /\ n.truth.hits <= n.truth.of /\ n.truth.of <= n.authorise
         /\ \A i \in DOMAIN n.conditions :
              n.conditions[i].hits \in 0 .. n.conditions[i].of
<1>1. PICK fired : fired = {s \in sample : results[s].fired}
  OBVIOUS
<1>2. PICK flagged : flagged = {s \in sample : results[s].authorised}
  OBVIOUS
<1>3. PICK carried : carried = {s \in sample : results[s].carried}
  OBVIOUS
<1>4. PICK alerting : alerting = {s \in sample : results[s].alerts}
  OBVIOUS
<1>5. PICK n : n = Report(sample, results, definition)
  OBVIOUS
<1>6. /\ n.fire = Cardinality(fired) /\ n.authorise = Cardinality(flagged)
      /\ n.carry = Cardinality(carried) /\ n.alert = Cardinality(alerting)
      /\ n.truth.hits = Cardinality(OnFraud(flagged))
      /\ n.truth.of = Cardinality(Labelled(flagged))
  BY <1>1, <1>2, <1>3, <1>4, <1>5 DEF Report
<1>7. /\ fired \subseteq sample /\ alerting \subseteq sample
      /\ flagged \subseteq fired /\ flagged \subseteq alerting /\ carried \subseteq flagged
  BY <1>1, <1>2, <1>3, <1>4 DEF Narrows
<1>8. OnFraud(flagged) \subseteq Labelled(flagged) /\ Labelled(flagged) \subseteq flagged
  BY LabelAssumption DEF OnFraud, Labelled
<1>9. IsFiniteSet(sample) /\ IsFiniteSet(fired) /\ IsFiniteSet(alerting)
  BY <1>7, FiniteAssumption, Fewer
<1>10. IsFiniteSet(flagged) /\ IsFiniteSet(Labelled(flagged))
  BY <1>7, <1>8, <1>9, Fewer
<1>11. /\ Cardinality(carried) <= Cardinality(flagged)
       /\ Cardinality(flagged) <= Cardinality(fired)
       /\ Cardinality(flagged) <= Cardinality(alerting)
       /\ Cardinality(fired) <= Cardinality(sample)
       /\ Cardinality(alerting) <= Cardinality(sample)
  BY <1>7, <1>9, <1>10, Fewer
<1>12. /\ Cardinality(OnFraud(flagged)) <= Cardinality(Labelled(flagged))
       /\ Cardinality(Labelled(flagged)) <= Cardinality(flagged)
  BY <1>8, <1>10, Fewer
<1>13. ASSUME NEW i \in DOMAIN n.conditions
       PROVE  n.conditions[i].hits \in 0 .. n.conditions[i].of
  <2>1. PICK S \in SUBSET Subject : S = {s \in sample : i \in results[s].conditions}
    OBVIOUS
  <2>2. n.conditions[i] = Precision(definition.conditions[i], S)
    BY <1>5, <1>13, <2>1 DEF Report
  <2>. QED
    BY <2>2, PrecisionBounded
<1>14. /\ n.carry <= n.authorise /\ n.authorise <= n.fire /\ n.authorise <= n.alert
       /\ n.fire <= Cardinality(sample) /\ n.alert <= Cardinality(sample)
       /\ n.truth.hits <= n.truth.of /\ n.truth.of <= n.authorise
  BY <1>6, <1>11, <1>12
<1>. QED
  BY <1>5, <1>13, <1>14

(* A list that is not cut is complete.                                     *)
LEMMA ListedCuts ==
  ASSUME NEW moved \in SUBSET Subject, NEW limit \in Limits, NEW D \in Listed(moved, limit)
  PROVE  /\ D \subseteq moved
         /\ Cardinality(moved) <= limit => D = moved
<1>1. /\ D \subseteq moved
      /\ Cardinality(D) = IF limit < Cardinality(moved) THEN limit ELSE Cardinality(moved)
  BY DEF Listed
<1>2. IsFiniteSet(moved) /\ Cardinality(moved) \in Nat
  BY FiniteAssumption, Fewer
<1>3. limit \in Nat
  BY CapsAssumption
<1>4. Cardinality(moved) <= limit => Cardinality(D) = Cardinality(moved)
  BY <1>1, <1>2, <1>3
<1>. QED
  BY <1>1, <1>2, <1>4, FS_Subset

(* An answer that stays, or a phase that carries none.                     *)
LEMMA AnswerKept ==
  ASSUME ReportInv, \A s \in Subject : Storable(stored[s])',
         \/ probe' = probe
         \/ probe'.phase \notin {"loaded", "evaluated", "reported"}
  PROVE  ReportInv'
<1>1. \A s \in Subject : Storable(stored[s])'
  OBVIOUS
<1>2. CASE probe' = probe
  BY <1>1, <1>2 DEF ReportInv, ReportNarrows, Narrows, DiffInv, MovedOf, Moved, Storable, Verdict
<1>3. CASE probe'.phase \notin {"loaded", "evaluated", "reported"}
  BY <1>1, <1>3 DEF ReportInv, ReportNarrows
<1>. QED
  BY <1>2, <1>3

LEMMA ReportKept ==
  ASSUME ReportInv, stored' = stored,
         \/ probe' = probe
         \/ probe'.phase \notin {"loaded", "evaluated", "reported"}
  PROVE  ReportInv'
<1>1. \A s \in Subject : Storable(stored[s])'
  BY DEF ReportInv, Storable, Verdict
<1>. QED
  BY <1>1, AnswerKept

LEMMA ReportTry ==
  ASSUME TypeOK, ReportInv, TryRule
  PROVE  ReportInv'
<1>1. UNCHANGED <<rules, status, reads, stored, trusted>>
  BY DEF TryRule, ScopeRollsBack, control
<1>2. \A s \in Subject : Storable(stored[s])'
  BY <1>1 DEF ReportInv, Storable, Verdict
<1>3. ASSUME probe.phase \in {"applied", "loaded", "evaluated"}
      PROVE  probe.draft.rule \in RuleId /\ probe.draft.definition \in Definition
  BY <1>3, DraftFields DEF TypeOK, OfCandidate
<1>4. CASE Load
  <2>1. /\ probe.phase = "applied" /\ probe'.phase = "loaded"
        /\ probe'.rules = CandidateRules /\ probe'.status = CandidateStatuses
    BY <1>4 DEF Load, Probes, CandidateRules, CandidateStatuses
  <2>2. CandidateRules \in Rules /\ CandidateStatuses \in Statuses
    BY <1>3, <2>1 DEF TypeOK, Rules, Statuses, RuleStatus, CandidateRules, CandidateStatuses,
                      AsActive
  <2>. QED
    BY <1>2, <2>1, <2>2 DEF ReportInv, ReportNarrows
<1>5. CASE EvaluatePopulation
  <2>1. /\ probe.phase = "loaded" /\ probe'.phase = "evaluated"
        /\ probe'.sample \subseteq Subject
        /\ probe'.results = [s \in probe'.sample |->
              Result(probe.rules, probe.status, reads[s], probe.draft.rule)]
    BY <1>5 DEF EvaluatePopulation, Probes, Samples
  <2>2. probe.rules \in Rules /\ probe.status \in Statuses
    BY <2>1 DEF ReportInv
  <2>3. Narrows(probe'.sample, probe'.results)
    BY <1>3, <2>1, <2>2, ResultNarrows DEF Narrows, TypeOK
  <2>. QED
    BY <1>2, <2>1, <2>3 DEF ReportInv, ReportNarrows
<1>6. CASE Publish
  <2>1. PICK moved : moved = {s \in probe.sample : Moved(stored[s], probe.results[s].decision)}
    OBVIOUS
  <2>2. probe.phase = "evaluated" /\ probe.sample \subseteq Subject
    BY <1>6 DEF Publish, ReportInv
  <2>a. PICK limit \in Limits : \E D \in Listed(moved, limit) :
          probe' =
            [phase |-> "reported", draft |-> probe.draft, sample |-> probe.sample,
             report |-> Report(probe.sample, probe.results, probe.draft.definition),
             decisions |-> [s \in probe.sample |-> probe.results[s].decision],
             before |-> [s \in probe.sample |-> stored[s]],
             total |-> Cardinality(moved), limit |-> limit, diff |-> D]
    BY <1>6, <2>1 DEF Publish
  <2>3. PICK D \in Listed(moved, limit) :
          probe' =
            [phase |-> "reported", draft |-> probe.draft, sample |-> probe.sample,
             report |-> Report(probe.sample, probe.results, probe.draft.definition),
             decisions |-> [s \in probe.sample |-> probe.results[s].decision],
             before |-> [s \in probe.sample |-> stored[s]],
             total |-> Cardinality(moved), limit |-> limit, diff |-> D]
    BY <2>a
  <2>4. Narrows(probe.sample, probe.results)
    BY <2>2 DEF ReportInv
  <2>5. ReportNarrows'
    BY <2>2, <2>3, <2>4, ReportCounts DEF ReportNarrows
  <2>6. MovedOf(probe') = moved
    BY <2>1, <2>3 DEF MovedOf
  <2>7. /\ D \subseteq moved
        /\ Cardinality(moved) <= limit => D = moved
    BY <2>1, <2>2, ListedCuts
  <2>8. \A s \in probe'.sample : Storable(probe'.before[s])
    BY <2>2, <2>3 DEF ReportInv, Storable, Verdict
  <2>9. DiffInv'
    BY <2>3, <2>6, <2>7, <2>8 DEF DiffInv
  <2>. QED
    BY <1>2, <2>2, <2>3, <2>5, <2>9 DEF ReportInv
<1>. QED
  BY <1>4, <1>5, <1>6 DEF TryRule

LEMMA ReportStep ==
  ASSUME TypeOK, ReportInv, [Next]_vars
  PROVE  ReportInv'
<1>0. Idle.phase = "idle"
  BY DEF Idle
<1>1. ASSUME NEW d \in Drafts, Begin(d) \/ PublishRule(d) PROVE ReportInv'
  BY <1>0, <1>1, ReportKept DEF Begin, PublishRule, Lapses
<1>2. CASE Apply
  BY <1>0, <1>2, ReportKept DEF Apply
<1>4. ASSUME NEW r \in RuleId, Promote(r) \/ Retire(r) PROVE ReportInv'
  BY <1>0, <1>4, ReportKept DEF Promote, Retire, Lapses
<1>5. ASSUME NEW s \in Subject, LaneRun(s) PROVE ReportInv'
  <2>1. PICK verdict : verdict = Verdict(LiveDecision(s))
    OBVIOUS
  <2>2. stored' = [stored EXCEPT ![s] = verdict] /\ (probe' = probe \/ probe' = Idle)
    BY <1>5, <2>1 DEF LaneRun, Lapses
  <2>3. Verdict(verdict) = verdict
    BY <2>1 DEF Verdict
  <2>4. \A t \in Subject : Storable(stored[t])'
    BY <2>2, <2>3 DEF ReportInv, Storable, TypeOK, Verdict
  <2>. QED
    BY <1>0, <2>2, <2>4, AnswerKept
<1>6. ASSUME NEW s \in Subject, Arrive(s) PROVE ReportInv'
  BY <1>0, <1>6, ReportKept DEF Arrive, Lapses
<1>7. CASE UNCHANGED vars
  BY <1>7, ReportKept DEF vars
<1>. QED
  BY <1>1, <1>2, <1>4, <1>5, <1>6, <1>7, ReportTry DEF Next

LEMMA ReportCorrect == Spec => []ReportInv
<1>1. Init => ReportInv
  BY DEF Init, Idle, ReportInv, ReportNarrows, Storable
<1>. QED
  BY <1>1, ReportStep, TypeCorrect, PTL DEF Spec

(* The counts of a report narrow and no precision is above one, whatever   *)
(* the sample, its labels and the engine.                                  *)
THEOREM CountsNarrow == Spec => []ReportNarrows
<1>1. ReportInv => ReportNarrows
  BY DEF ReportInv
<1>. QED
  BY <1>1, ReportCorrect, PTL

(* The diff counts exactly the sampled subjects whose stored decision the  *)
(* candidate moves, and lists all of them where the limit allows.          *)
THEOREM DiffTrustworthy == Spec => []DiffIsTheMove
<1>1. TypeOK /\ Faithful /\ ReportInv => DiffIsTheMove
  <2> SUFFICES ASSUME TypeOK, Faithful, ReportInv, trusted, InForce
               PROVE  LET moving == {s \in probe.sample : StoresAnother(s, probe.before[s])} IN
                      /\ probe.total = Cardinality(moving)
                      /\ probe.diff \subseteq moving
                      /\ probe.total <= probe.limit => probe.diff = moving
    BY DEF DiffIsTheMove
  <2>1. DiffInv
    BY DEF ReportInv, InForce
  <2>2. ASSUME NEW s \in probe.sample
        PROVE  StoresAnother(s, probe.before[s]) <=> Moved(probe.before[s], probe.decisions[s])
    <3>1. LiveDecision(s) = probe.decisions[s]
      BY InForceIsCommitted DEF Faithful, InForce, LiveDecision
    <3>2. PICK before : before = probe.before[s]
      OBVIOUS
    <3>3. PICK after : after = probe.decisions[s]
      OBVIOUS
    <3>4. Verdict(LiveDecision(s)) = [score |-> after.score, action |-> after.action]
      BY <3>1, <3>3 DEF Verdict
    <3>5. before = Undecided \/ before = [score |-> before.score, action |-> before.action]
      BY <2>1, <3>2 DEF DiffInv, Storable, Verdict
    <3>. QED
      BY <3>2, <3>3, <3>4, <3>5 DEF StoresAnother, Moved
  <2>3. {s \in probe.sample : StoresAnother(s, probe.before[s])} = MovedOf(probe)
    BY <2>2 DEF MovedOf
  <2>. QED
    BY <2>1, <2>3 DEF DiffInv
<1>. QED
  BY <1>1, FaithfulCorrect, ReportCorrect, PTL

----------------------------------------------------------------------------
(* CaseReports.                                                            *)

Tables ==
  /\ decisions \in Seq(Decision)
  /\ alerts \in Seq(Alert)
  /\ executions \in Seq(Execution)
  /\ case_outcomes \in Seq(CaseOutcome)
  /\ clock \in 0 .. MaxClock

(* A case shows the decision that was routed to it last with a higher      *)
(* score; what a folded decision says of it, it says at least as loudly.   *)
CasesShowTheirDecision ==
  \A a \in DOMAIN alerts :
    /\ alerts[a].decision \in DOMAIN decisions
    /\ decisions[alerts[a].decision].alert = a
    /\ decisions[alerts[a].decision].score = alerts[a].score
    /\ alerts[a].bar = alerts[a].decision

FoldsAreShown ==
  \A d \in DOMAIN decisions : decisions[d].routing = "folded" =>
    /\ decisions[d].alert \in DOMAIN alerts
    /\ alerts[decisions[d].alert].score >= decisions[d].score

(* An execution stands beside the decision that issued it, alone.          *)
ExecutionsHaveDecisions ==
  /\ \A x \in DOMAIN executions :
       /\ executions[x].alert \in DOMAIN alerts
       /\ executions[x].decision \in DOMAIN decisions
       /\ decisions[executions[x].decision].alert = executions[x].alert
       /\ decisions[executions[x].decision].at = executions[x].at
  /\ \A x, y \in DOMAIN executions : executions[x].decision = executions[y].decision => x = y

Linked == CasesShowTheirDecision /\ FoldsAreShown /\ ExecutionsHaveDecisions

(* What a reader holds is still true of the tables, or was outdone.        *)
Named ==
  /\ reader.decision \in DOMAIN decisions
  /\ reader.alert \in DOMAIN alerts
  /\ decisions[reader.decision].alert = reader.alert

HoldsCase ==
  reader.phase = "alert" =>
    /\ Named
    /\ reader.score \in Nat
    /\ alerts[reader.alert].score >= reader.score
    /\ alerts[reader.alert].score = reader.score => alerts[reader.alert].decision = reader.decision

HoldsDetail == reader.phase = "detail" => Named /\ reader.bar = reader.decision

HoldsDocument ==
  reader.phase = "explained" =>
    /\ reader.decision \in DOMAIN decisions
    /\ reader.bar = reader.decision
    /\ \A x \in DOMAIN executions :
         executions[x].decision = reader.decision => reader.decision \in reader.issued

HoldsScripted ==
  reader.phase \in {"rate", "judged"} =>
    /\ reader.end \in Nat
    /\ \A a \in reader.scripted :
         /\ a \in DOMAIN alerts /\ alerts[a].first <= reader.end
         /\ OutcomesOf(a) # {}
         /\ reader.phase = "judged" /\ ~reader.synthetic =>
              WorkedByAnalyst(a) \/ ~InWindow(alerts[a].first, reader.end)

HoldsMissed ==
  reader.phase = "missed" =>
    \A d \in reader.missed :
      d \in DOMAIN decisions /\ decisions[d].routing \notin {"raised", "restated"}

HoldsCounts ==
  /\ reader.phase = "executions" =>
       /\ reader.end \in Nat
       /\ reader.preventive \in Nat
       /\ reader.preventive <= Cardinality(DecisionsIn(reader.end))
  /\ reader.phase = "rates" => reader.preventive <= reader.evaluated

Holds == HoldsCase /\ HoldsDetail /\ HoldsDocument /\ HoldsScripted /\ HoldsMissed /\ HoldsCounts

ReportsInv == Tables /\ Linked /\ Holds

----------------------------------------------------------------------------
(* Sequences and numbers.                                                  *)

LEMMA LeastOf ==
  ASSUME NEW S \in SUBSET Nat, S # {}
  PROVE  \E n \in S : \A k \in S : n <= k
<1>1. PICK R : R = OpToRel(<, Nat)
  OBVIOUS
<1>2. IsWellFoundedOn(R, Nat)
  BY <1>1, NatLessThanWellFounded
<1>3. PICK n \in S : \A k \in S : ~(<<k, n>> \in R)
  BY <1>2, WFMin
<1>4. \A k \in S : ~(k < n)
  BY <1>1, <1>3 DEF OpToRel
<1>. QED
  BY <1>3, <1>4

LEMMA Appending ==
  ASSUME NEW S, NEW s \in Seq(S), NEW x \in S
  PROVE  /\ Append(s, x) \in Seq(S)
         /\ Len(s) + 1 \in Nat \ {0} /\ Len(s) + 1 \notin DOMAIN s
         /\ DOMAIN Append(s, x) = DOMAIN s \cup {Len(s) + 1}
         /\ Append(s, x)[Len(s) + 1] = x
         /\ \A i \in DOMAIN s : Append(s, x)[i] = s[i]
<1>1. Len(s) \in Nat /\ DOMAIN s = 1 .. Len(s)
  BY LenProperties
<1>2. /\ Append(s, x) \in Seq(S) /\ Len(Append(s, x)) = Len(s) + 1
      /\ \A i \in 1 .. Len(s) : Append(s, x)[i] = s[i]
      /\ Append(s, x)[Len(s) + 1] = x
  BY AppendProperties
<1>3. DOMAIN Append(s, x) = 1 .. Len(s) + 1
  BY <1>2, LenProperties
<1>. QED
  BY <1>1, <1>2, <1>3

LEMMA Replacing ==
  ASSUME NEW S, NEW s \in Seq(S), NEW i \in DOMAIN s, NEW x \in S
  PROVE  /\ [s EXCEPT ![i] = x] \in Seq(S)
         /\ DOMAIN [s EXCEPT ![i] = x] = DOMAIN s
         /\ [s EXCEPT ![i] = x][i] = x
         /\ \A j \in DOMAIN s \ {i} : [s EXCEPT ![i] = x][j] = s[j]
<1>1. i \in 1 .. Len(s)
  BY LenProperties
<1>. QED
  BY <1>1, ExceptSeq

----------------------------------------------------------------------------
(* The tables of CaseReports.                                              *)

LEMMA RowsAre ==
  ASSUME Tables
  PROVE  /\ DOMAIN decisions = 1 .. Len(decisions) /\ Len(decisions) \in Nat
         /\ DOMAIN alerts = 1 .. Len(alerts) /\ Len(alerts) \in Nat
         /\ DOMAIN executions = 1 .. Len(executions) /\ Len(executions) \in Nat
         /\ DOMAIN case_outcomes = 1 .. Len(case_outcomes) /\ Len(case_outcomes) \in Nat
         /\ clock \in Nat
         /\ \A d \in DOMAIN decisions : decisions[d] \in Decision
         /\ \A a \in DOMAIN alerts : alerts[a] \in Alert
         /\ \A x \in DOMAIN executions : executions[x] \in Execution
         /\ \A o \in DOMAIN case_outcomes : case_outcomes[o] \in CaseOutcome
<1>1. clock \in Nat
  BY BoundsAssumption DEF Tables
<1>2. /\ DOMAIN decisions = 1 .. Len(decisions) /\ Len(decisions) \in Nat
      /\ \A d \in DOMAIN decisions : decisions[d] \in Decision
  BY LenProperties, ElementOfSeq DEF Tables
<1>3. /\ DOMAIN alerts = 1 .. Len(alerts) /\ Len(alerts) \in Nat
      /\ \A a \in DOMAIN alerts : alerts[a] \in Alert
  BY LenProperties, ElementOfSeq DEF Tables
<1>4. /\ DOMAIN executions = 1 .. Len(executions) /\ Len(executions) \in Nat
      /\ \A x \in DOMAIN executions : executions[x] \in Execution
  BY LenProperties, ElementOfSeq DEF Tables
<1>5. /\ DOMAIN case_outcomes = 1 .. Len(case_outcomes) /\ Len(case_outcomes) \in Nat
      /\ \A o \in DOMAIN case_outcomes : case_outcomes[o] \in CaseOutcome
  BY LenProperties, ElementOfSeq DEF Tables
<1>. QED
  BY <1>1, <1>2, <1>3, <1>4, <1>5

LEMMA AlertFields ==
  ASSUME Tables, NEW a \in DOMAIN alerts
  PROVE  /\ alerts[a].score \in Score /\ alerts[a].score \in Nat
         /\ alerts[a].first \in Nat /\ alerts[a].decision \in Nat /\ alerts[a].bar \in Nat
         /\ a \in Nat
<1>1. alerts[a] \in Alert /\ a \in Nat
  BY RowsAre
<1>. QED
  BY <1>1, ScoreAssumption DEF Alert

LEMMA EvaluationFields ==
  ASSUME Tables, NEW e \in Evaluation
  PROVE  /\ e.at \in Nat /\ e.score \in Score /\ e.score \in Nat /\ e.fraud \in BOOLEAN
<1>1. clock \in Nat
  BY RowsAre
<1>2. e.at \in 0 .. clock /\ e.score \in Score /\ e.fraud \in BOOLEAN
  BY DEF Evaluation
<1>3. e.at \in Nat
  BY <1>1, <1>2
<1>4. e.score \in Nat
  BY <1>2, ScoreAssumption
<1>. QED
  BY <1>2, <1>3, <1>4

(* What a decision row says, and that no earlier one changes.              *)
LEMMA Recorded ==
  ASSUME Tables, NEW e \in Evaluation, NEW a \in Nat,
         NEW routing \in {"raised", "restated", "folded", "suppressed", "no_authority"},
         Record(e, routing, a)
  PROVE  /\ decisions' \in Seq(Decision)
         /\ NextDecision \in Nat \ {0} /\ NextDecision \notin DOMAIN decisions
         /\ DOMAIN decisions' = DOMAIN decisions \cup {NextDecision}
         /\ decisions'[NextDecision].alert = a /\ decisions'[NextDecision].score = e.score
         /\ decisions'[NextDecision].at = e.at /\ decisions'[NextDecision].routing = routing
         /\ \A d \in DOMAIN decisions : decisions'[d] = decisions[d]
<1>1. PICK row : row = [at |-> e.at, score |-> e.score, fraud |-> e.fraud, alert |-> a,
                        routing |-> routing]
  OBVIOUS
<1>2. row \in Decision
  BY <1>1, EvaluationFields DEF Decision
<1>3. decisions' = Append(decisions, row) /\ decisions \in Seq(Decision)
  BY <1>1 DEF Record, Tables
<1>. QED
  BY <1>1, <1>2, <1>3, Appending DEF NextDecision

(* Nothing a step of the engine or a person leaves behind unsays what a    *)
(* reader may hold.                                                        *)
Grown ==
  /\ \A d \in DOMAIN decisions : d \in DOMAIN decisions' /\ decisions'[d] = decisions[d]
  /\ \A a \in DOMAIN alerts :
       /\ a \in DOMAIN alerts'
       /\ alerts'[a].first <= alerts[a].first
       /\ alerts'[a].score >= alerts[a].score
       /\ alerts'[a].score = alerts[a].score => alerts'[a].decision = alerts[a].decision
  /\ \A o \in DOMAIN case_outcomes : o \in DOMAIN case_outcomes' /\ case_outcomes'[o] = case_outcomes[o]
  /\ \A x \in DOMAIN executions' :
       executions'[x].decision \in DOMAIN decisions =>
         x \in DOMAIN executions /\ executions'[x].decision = executions[x].decision

Stands == Tables' /\ Linked' /\ Grown

LEMMA RaiseStep ==
  ASSUME Tables, Linked, NEW e \in Evaluation, NEW challenged \in BOOLEAN, Raise(e, challenged),
         UNCHANGED <<case_outcomes, clock>>
  PROVE  Stands
<1>1. PICK a, row : /\ a = Len(alerts) + 1
                    /\ row = [decision |-> NextDecision, score |-> e.score, bar |-> NextDecision,
                              first |-> e.at]
  OBVIOUS
<1>2. /\ Record(e, "raised", a) /\ a \in Nat \ {0} /\ a \notin DOMAIN alerts
  BY <1>1, RowsAre DEF Raise
<1>3. /\ decisions' \in Seq(Decision)
      /\ NextDecision \in Nat \ {0} /\ NextDecision \notin DOMAIN decisions
      /\ DOMAIN decisions' = DOMAIN decisions \cup {NextDecision}
      /\ decisions'[NextDecision].alert = a /\ decisions'[NextDecision].score = e.score
      /\ decisions'[NextDecision].at = e.at /\ decisions'[NextDecision].routing = "raised"
      /\ \A d \in DOMAIN decisions : decisions'[d] = decisions[d]
  BY <1>2, Recorded
<1>4. row \in Alert
  BY <1>1, <1>3, EvaluationFields DEF Alert
<1>5. /\ alerts' \in Seq(Alert) /\ DOMAIN alerts' = DOMAIN alerts \cup {a}
      /\ alerts'[a] = row /\ \A b \in DOMAIN alerts : alerts'[b] = alerts[b]
  <2>1. alerts' = Append(alerts, row) /\ alerts \in Seq(Alert)
    BY <1>1 DEF Raise, Tables
  <2>. QED
    BY <1>1, <1>4, <2>1, Appending
<1>6. PICK x, ex : /\ x = Len(executions) + 1
                   /\ ex = [decision |-> NextDecision, alert |-> a, at |-> e.at,
                            outcome |-> "unresolved"]
  OBVIOUS
<1>7. /\ executions' \in Seq(Execution)
      /\ DOMAIN executions' \subseteq DOMAIN executions \cup {x} /\ x \notin DOMAIN executions
      /\ \A y \in DOMAIN executions : y \in DOMAIN executions' /\ executions'[y] = executions[y]
      /\ x \in DOMAIN executions' => executions'[x] = ex
  <2>1. ex \in Execution
    BY <1>2, <1>3, <1>6, EvaluationFields DEF Execution
  <2>2. executions \in Seq(Execution)
    BY DEF Tables
  <2>3. executions' = Append(executions, ex) \/ executions' = executions
    BY <1>1, <1>6 DEF Raise
  <2>4. x \notin DOMAIN executions
    BY <1>6, RowsAre
  <2>5. CASE executions' = Append(executions, ex)
    BY <1>6, <2>1, <2>2, <2>5, Appending
  <2>6. CASE executions' = executions
    BY <2>2, <2>4, <2>6
  <2>. QED
    BY <2>3, <2>5, <2>6
<1>8. Tables'
  BY <1>3, <1>5, <1>7 DEF Tables
<1>9. CasesShowTheirDecision'
  BY <1>1, <1>3, <1>5 DEF Linked, CasesShowTheirDecision
<1>10. FoldsAreShown'
  BY <1>3, <1>5 DEF Linked, FoldsAreShown
<1>11. ExecutionsHaveDecisions'
  BY <1>3, <1>5, <1>6, <1>7 DEF Linked, ExecutionsHaveDecisions
<1>12. Grown
  BY <1>3, <1>5, <1>6, <1>7, AlertFields DEF Grown
<1>. QED
  BY <1>8, <1>9, <1>10, <1>11, <1>12 DEF Stands, Linked

(* A decision that no new case is raised for: what it needs of the cases.  *)
LEMMA RoutedStep ==
  ASSUME Tables, Linked, NEW e \in Evaluation, NEW a \in Nat,
         NEW routing \in {"restated", "folded", "suppressed", "no_authority"},
         Record(e, routing, a), UNCHANGED <<executions, case_outcomes, clock>>,
         alerts' \in Seq(Alert), DOMAIN alerts' = DOMAIN alerts,
         \A b \in DOMAIN alerts \ {a} : alerts'[b] = alerts[b],
         a \in DOMAIN alerts =>
           /\ alerts'[a].first <= alerts[a].first
           /\ \/ /\ alerts'[a].score > alerts[a].score
                 /\ alerts'[a].score = e.score
                 /\ alerts'[a].decision = NextDecision /\ alerts'[a].bar = NextDecision
              \/ /\ alerts'[a].score = alerts[a].score
                 /\ alerts'[a].decision = alerts[a].decision /\ alerts'[a].bar = alerts[a].bar,
         routing = "folded" => a \in DOMAIN alerts /\ alerts'[a].score >= e.score
  PROVE  Stands
<1>3. /\ decisions' \in Seq(Decision)
      /\ NextDecision \in Nat \ {0} /\ NextDecision \notin DOMAIN decisions
      /\ DOMAIN decisions' = DOMAIN decisions \cup {NextDecision}
      /\ decisions'[NextDecision].alert = a /\ decisions'[NextDecision].score = e.score
      /\ decisions'[NextDecision].at = e.at /\ decisions'[NextDecision].routing = routing
      /\ \A d \in DOMAIN decisions : decisions'[d] = decisions[d]
  BY Recorded
<1>4. Tables'
  BY <1>3 DEF Tables
<1>5. \A b \in DOMAIN alerts : alerts[b].score \in Nat /\ alerts'[b].score \in Nat /\ alerts[b].first \in Nat
  <2>1. Tables' => \A b \in DOMAIN alerts' : alerts'[b] \in Alert
    BY LenProperties, ElementOfSeq DEF Tables
  <2>. QED
    BY <1>4, <2>1, AlertFields, ScoreAssumption DEF Alert
<1>6. CasesShowTheirDecision'
  <2>1. ASSUME NEW b \in DOMAIN alerts
        PROVE  /\ alerts'[b].decision \in DOMAIN decisions'
               /\ decisions'[alerts'[b].decision].alert = b
               /\ decisions'[alerts'[b].decision].score = alerts'[b].score
               /\ alerts'[b].bar = alerts'[b].decision
    <3>1. CASE b # a
      BY <1>3, <3>1 DEF Linked, CasesShowTheirDecision
    <3>2. CASE b = a
      BY <1>3, <3>2 DEF Linked, CasesShowTheirDecision
    <3>. QED
      BY <3>1, <3>2
  <2>. QED
    BY <2>1 DEF CasesShowTheirDecision
<1>7. FoldsAreShown'
  <2>1. ASSUME NEW d \in DOMAIN decisions, decisions[d].routing = "folded"
        PROVE  /\ decisions[d].alert \in DOMAIN alerts
               /\ alerts'[decisions[d].alert].score >= decisions[d].score
    <3>1. /\ decisions[d].alert \in DOMAIN alerts
          /\ alerts[decisions[d].alert].score >= decisions[d].score
      BY <2>1 DEF Linked, FoldsAreShown
    <3>2. decisions[d].score \in Nat
      BY RowsAre, ScoreAssumption DEF Decision
    <3>3. alerts'[decisions[d].alert].score >= alerts[decisions[d].alert].score
      <4>1. CASE decisions[d].alert = a
        BY <1>5, <3>1, <4>1
      <4>2. CASE decisions[d].alert # a
        BY <1>5, <3>1, <4>2
      <4>. QED
        BY <4>1, <4>2
    <3>. QED
      BY <1>5, <3>1, <3>2, <3>3
  <2>. QED
    BY <1>3, <2>1 DEF FoldsAreShown
<1>8. ExecutionsHaveDecisions'
  BY <1>3 DEF Linked, ExecutionsHaveDecisions
<1>9. Grown
  BY <1>3, <1>5 DEF Grown
<1>. QED
  BY <1>4, <1>6, <1>7, <1>8, <1>9 DEF Stands, Linked

LEMMA RestateStep ==
  ASSUME Tables, Linked, NEW e \in Evaluation, NEW a \in DOMAIN alerts, Restate(e, a),
         UNCHANGED <<case_outcomes, clock>>
  PROVE  Stands
<1>1. PICK row : row = [decision |-> NextDecision, score |-> e.score, bar |-> NextDecision,
                        first |-> Earlier(alerts[a].first, e.at)]
  OBVIOUS
<1>2. /\ e.score > alerts[a].score /\ Record(e, "restated", a) /\ UNCHANGED executions
      /\ alerts' = [alerts EXCEPT ![a] = row] /\ alerts \in Seq(Alert)
  BY <1>1 DEF Restate, ScoresHigher, Tables
<1>3. row \in Alert /\ row.first <= alerts[a].first
  <2>1. NextDecision \in Nat
    BY RowsAre DEF NextDecision
  <2>2. Earlier(alerts[a].first, e.at) \in Nat /\ Earlier(alerts[a].first, e.at) <= alerts[a].first
    BY AlertFields, EvaluationFields DEF Earlier
  <2>. QED
    BY <1>1, <2>1, <2>2, EvaluationFields DEF Alert
<1>4. /\ alerts' \in Seq(Alert) /\ DOMAIN alerts' = DOMAIN alerts /\ alerts'[a] = row
      /\ \A b \in DOMAIN alerts \ {a} : alerts'[b] = alerts[b]
  BY <1>2, <1>3, Replacing
<1>5. /\ alerts'[a].score = e.score /\ alerts'[a].decision = NextDecision
      /\ alerts'[a].bar = NextDecision /\ alerts'[a].first <= alerts[a].first
  BY <1>1, <1>3, <1>4
<1>. QED
  BY <1>2, <1>4, <1>5, AlertFields, RoutedStep

LEMMA FoldStep ==
  ASSUME Tables, Linked, NEW e \in Evaluation, NEW a \in DOMAIN alerts, Fold(e, a),
         UNCHANGED <<case_outcomes, clock>>
  PROVE  Stands
<1>1. PICK row : row = [alerts[a] EXCEPT !.first = Earlier(alerts[a].first, e.at)]
  OBVIOUS
<1>2. /\ ~(e.score > alerts[a].score) /\ Record(e, "folded", a) /\ UNCHANGED executions
      /\ alerts' = [alerts EXCEPT ![a] = row] /\ alerts \in Seq(Alert)
  BY <1>1 DEF Fold, ScoresHigher, Tables
<1>3. /\ row \in Alert /\ row.first <= alerts[a].first
      /\ row.score = alerts[a].score /\ row.decision = alerts[a].decision /\ row.bar = alerts[a].bar
  <2>1. Earlier(alerts[a].first, e.at) \in Nat /\ Earlier(alerts[a].first, e.at) <= alerts[a].first
    BY AlertFields, EvaluationFields DEF Earlier
  <2>2. alerts[a] \in Alert
    BY RowsAre
  <2>. QED
    BY <1>1, <2>1, <2>2 DEF Alert
<1>4. /\ alerts' \in Seq(Alert) /\ DOMAIN alerts' = DOMAIN alerts /\ alerts'[a] = row
      /\ \A b \in DOMAIN alerts \ {a} : alerts'[b] = alerts[b]
  BY <1>2, <1>3, Replacing
<1>5. /\ alerts'[a].score = alerts[a].score /\ alerts'[a].decision = alerts[a].decision
      /\ alerts'[a].bar = alerts[a].bar /\ alerts'[a].first <= alerts[a].first
      /\ alerts'[a].score >= e.score
  BY <1>2, <1>3, <1>4, AlertFields, EvaluationFields
<1>. QED
  BY <1>2, <1>4, <1>5, AlertFields, RoutedStep

LEMMA SilentStep ==
  ASSUME Tables, Linked, NEW e \in Evaluation, NEW a \in DOMAIN alerts \cup {0}, DecideSilently(e, a),
         UNCHANGED <<case_outcomes, clock>>
  PROVE  Stands
<1>1. PICK routing \in {"suppressed", "no_authority"} : Record(e, routing, a)
  BY DEF DecideSilently
<1>2. UNCHANGED <<alerts, executions>> /\ a \in Nat /\ alerts \in Seq(Alert)
  BY AlertFields DEF DecideSilently, Tables
<1>3. a \in DOMAIN alerts => alerts[a].first <= alerts[a].first
  BY AlertFields
<1>. QED
  BY <1>1, <1>2, <1>3, RoutedStep

LEMMA EvaluateStep ==
  ASSUME Tables, Linked, Evaluate
  PROVE  Stands
<1>1. PICK e \in Evaluation :
        \/ \E challenged \in BOOLEAN : Raise(e, challenged)
        \/ DecideSilently(e, 0)
        \/ \E a \in DOMAIN alerts : Restate(e, a) \/ Fold(e, a) \/ DecideSilently(e, a)
  BY DEF Evaluate
<1>2. UNCHANGED <<case_outcomes, clock>>
  BY DEF Evaluate
<1>. QED
  BY <1>1, <1>2, RaiseStep, RestateStep, FoldStep, SilentStep

LEMMA ApprovedOrder ==
  ASSUME Tables, NEW open \in InOrder({a \in DOMAIN alerts : OutcomesOf(a) = {}})
  PROVE  /\ open \in Seq(DOMAIN alerts) /\ DOMAIN open = 1 .. Len(open) /\ Len(open) \in Nat
         /\ \A i \in DOMAIN open : open[i] \in DOMAIN alerts
<1>. DEFINE cases == {a \in DOMAIN alerts : OutcomesOf(a) = {}}
<1>1. cases \subseteq DOMAIN alerts /\ IsFiniteSet(cases)
  <2>1. IsFiniteSet(DOMAIN alerts)
    BY RowsAre, FS_Interval
  <2>. QED
    BY <2>1, FS_Subset
<1>2. Cardinality(cases) \in Nat
  BY <1>1, FS_CardinalityType
<1>3. open \in [1 .. Cardinality(cases) -> cases]
  <2>. HIDE DEF cases
  <2>. QED
    BY DEF InOrder, SetToSeqs, cases
<1>4. open \in Seq(DOMAIN alerts)
  <2>. HIDE DEF cases
  <2>1. open \in [1 .. Cardinality(cases) -> DOMAIN alerts]
    BY <1>1, <1>3
  <2>. QED
    BY <1>2, <2>1, SeqDef
<1>. QED
  BY <1>4, LenProperties, ElementOfSeq

(* The verdicts that are appended, whoever gives them.                     *)
LEMMA OutcomesStep ==
  ASSUME Tables, Linked, UNCHANGED <<decisions, alerts, clock>>,
         NEW more \in Seq(CaseOutcome), case_outcomes' = case_outcomes \o more,
         executions' \in Seq(Execution), DOMAIN executions' = DOMAIN executions,
         \A x \in DOMAIN executions :
           /\ executions'[x].decision = executions[x].decision
           /\ executions'[x].alert = executions[x].alert
           /\ executions'[x].at = executions[x].at
  PROVE  Stands
<1>1. case_outcomes \in Seq(CaseOutcome)
  BY DEF Tables
<1>2. /\ case_outcomes' \in Seq(CaseOutcome)
      /\ Len(case_outcomes') = Len(case_outcomes) + Len(more)
      /\ \A o \in 1 .. Len(case_outcomes) : case_outcomes'[o] = case_outcomes[o]
  BY <1>1, ConcatProperties, LenProperties
<1>3. \A o \in DOMAIN case_outcomes : o \in DOMAIN case_outcomes' /\ case_outcomes'[o] = case_outcomes[o]
  BY <1>1, <1>2, LenProperties
<1>4. Tables'
  BY <1>2 DEF Tables
<1>5. Linked'
  <2>1. CasesShowTheirDecision'
    BY DEF Linked, CasesShowTheirDecision
  <2>2. FoldsAreShown'
    BY DEF Linked, FoldsAreShown
  <2>3. ExecutionsHaveDecisions'
    <3>1. ExecutionsHaveDecisions
      BY DEF Linked
    <3>2. \A x \in DOMAIN executions' :
             /\ executions'[x].alert \in DOMAIN alerts
             /\ executions'[x].decision \in DOMAIN decisions
             /\ decisions[executions'[x].decision].alert = executions'[x].alert
             /\ decisions[executions'[x].decision].at = executions'[x].at
      BY <3>1 DEF ExecutionsHaveDecisions
    <3>3. \A x, y \in DOMAIN executions' : executions'[x].decision = executions'[y].decision => x = y
      BY <3>1 DEF ExecutionsHaveDecisions
    <3>. QED
      BY <3>2, <3>3 DEF ExecutionsHaveDecisions
  <2>. QED
    BY <2>1, <2>2, <2>3 DEF Linked
<1>6. Grown
  BY <1>3, AlertFields DEF Grown
<1>. QED
  BY <1>4, <1>5, <1>6 DEF Stands

(* What settling writes.                                                   *)
LEMMA Settling ==
  ASSUME Tables, Linked, Settle
  PROVE  /\ UNCHANGED <<decisions, alerts, clock>>
         /\ executions' \in Seq(Execution) /\ DOMAIN executions' = DOMAIN executions
         /\ \A x \in DOMAIN executions :
              /\ executions'[x].decision = executions[x].decision
              /\ executions'[x].alert = executions[x].alert
              /\ executions'[x].at = executions[x].at
         /\ \E more \in Seq(CaseOutcome) :
              /\ case_outcomes' = case_outcomes \o more
              /\ \A i \in DOMAIN more : more[i].source = "synthetic"
<1>1. PICK open \in InOrder({a \in DOMAIN alerts : OutcomesOf(a) = {}}) :
        \E outcome \in {"passed", "failed"}, delay \in [DOMAIN open -> Delay] :
          LET settled == [x \in DOMAIN executions |-> Settled(executions[x], outcome)] IN
          /\ executions' = settled
          /\ case_outcomes' = case_outcomes \o
               [i \in DOMAIN open |->
                 [alert |-> open[i], disposition |-> SyntheticVerdict(open[i], settled),
                  source |-> "synthetic", decided_at |-> alerts[open[i]].first + delay[i]]]
  BY DEF Settle
<1>2. PICK outcome \in {"passed", "failed"}, delay \in [DOMAIN open -> Delay] :
          /\ executions' = [x \in DOMAIN executions |-> Settled(executions[x], outcome)]
          /\ case_outcomes' = case_outcomes \o
               [i \in DOMAIN open |->
                 [alert |-> open[i],
                  disposition |-> SyntheticVerdict(open[i],
                                    [x \in DOMAIN executions |-> Settled(executions[x], outcome)]),
                  source |-> "synthetic", decided_at |-> alerts[open[i]].first + delay[i]]]
  BY <1>1
<1>3. ASSUME NEW x \in DOMAIN executions
      PROVE  /\ Settled(executions[x], outcome) \in Execution
             /\ Settled(executions[x], outcome).decision = executions[x].decision
             /\ Settled(executions[x], outcome).alert = executions[x].alert
             /\ Settled(executions[x], outcome).at = executions[x].at
  <2>1. executions[x] \in Execution
    BY RowsAre
  <2>. QED
    BY <2>1 DEF Settled, Execution
<1>4. DOMAIN executions = 1 .. Len(executions) /\ Len(executions) \in Nat
  BY RowsAre
<1>5. executions' \in [1 .. Len(executions) -> Execution]
  BY <1>2, <1>3, <1>4
<1>6. executions' \in Seq(Execution)
  BY <1>4, <1>5, SeqDef
<1>7. PICK more :
        more = [i \in DOMAIN open |->
                 [alert |-> open[i],
                  disposition |-> SyntheticVerdict(open[i],
                                    [x \in DOMAIN executions |-> Settled(executions[x], outcome)]),
                  source |-> "synthetic", decided_at |-> alerts[open[i]].first + delay[i]]]
  OBVIOUS
<1>8. /\ DOMAIN open = 1 .. Len(open) /\ Len(open) \in Nat
      /\ \A i \in DOMAIN open : open[i] \in DOMAIN alerts
  BY ApprovedOrder
<1>9. ASSUME NEW i \in DOMAIN open PROVE more[i] \in CaseOutcome /\ more[i].source = "synthetic"
  <2>1. open[i] \in Nat /\ alerts[open[i]].first \in Nat /\ delay[i] \in Nat
    BY <1>8, AlertFields, DelayAssumption
  <2>2. \A settled : SyntheticVerdict(open[i], settled) \in Disposition
    BY DEF SyntheticVerdict, Disposition
  <2>. QED
    BY <1>7, <2>1, <2>2 DEF CaseOutcome
<1>10. more \in [1 .. Len(open) -> CaseOutcome]
  BY <1>7, <1>8, <1>9
<1>11. more \in Seq(CaseOutcome)
  BY <1>8, <1>10, SeqDef
<1>12. UNCHANGED <<decisions, alerts, clock>>
  BY DEF Settle
<1>. QED
  BY <1>2, <1>3, <1>6, <1>7, <1>9, <1>11, <1>12

LEMMA SettleStep ==
  ASSUME Tables, Linked, Settle
  PROVE  Stands
BY Settling, OutcomesStep

(* What an analyst writes.                                                 *)
LEMMA Disposing ==
  ASSUME Tables, NEW a \in DOMAIN alerts, NEW verdict \in AnalystVerdict, WriteDisposition(a, verdict)
  PROVE  \E row \in CaseOutcome :
           row.alert = a /\ row.source = "analyst" /\ case_outcomes' = Append(case_outcomes, row)
<1>1. PICK row : row = [alert |-> a, disposition |-> verdict, source |-> "analyst", decided_at |-> clock]
  OBVIOUS
<1>2. verdict \in Disposition
  BY AnalystVerdictAssumption DEF Disposition
<1>3. row \in CaseOutcome
  BY <1>1, <1>2, RowsAre DEF CaseOutcome
<1>. QED
  BY <1>1, <1>3 DEF WriteDisposition

LEMMA WriteStep ==
  ASSUME Tables, Linked, NEW a \in DOMAIN alerts, NEW verdict \in AnalystVerdict, WriteDisposition(a, verdict)
  PROVE  Stands
<1>1. PICK row \in CaseOutcome :
        row.alert = a /\ row.source = "analyst" /\ case_outcomes' = Append(case_outcomes, row)
  BY Disposing
<1>2. <<row>> \in Seq(CaseOutcome) /\ case_outcomes' = case_outcomes \o <<row>>
  BY <1>1, AppendIsConcat DEF Tables
<1>3. UNCHANGED <<decisions, alerts, executions, clock>>
  BY DEF WriteDisposition
<1>4. executions \in Seq(Execution)
  BY DEF Tables
<1>. QED
  BY <1>2, <1>3, <1>4, OutcomesStep

LEMMA TickStep ==
  ASSUME Tables, Linked, Tick
  PROVE  Stands
<1>1. clock' \in 0 .. MaxClock
  BY RowsAre, BoundsAssumption DEF Tick, Tables
<1>2. UNCHANGED <<decisions, alerts, executions, case_outcomes>>
  BY DEF Tick
<1>3. Tables'
  BY <1>1, <1>2 DEF Tables
<1>4. Linked'
  BY <1>2 DEF Linked, CasesShowTheirDecision, FoldsAreShown, ExecutionsHaveDecisions
<1>5. Grown
  BY <1>2, AlertFields DEF Grown
<1>. QED
  BY <1>3, <1>4, <1>5 DEF Stands

----------------------------------------------------------------------------
(* What a reader holds while the tables grow.                              *)

LEMMA DecisionsInFinite ==
  ASSUME Tables, NEW end
  PROVE  IsFiniteSet(DecisionsIn(end)) /\ Cardinality(DecisionsIn(end)) \in Nat
<1>1. IsFiniteSet(DOMAIN decisions)
  BY RowsAre, FS_Interval
<1>2. DecisionsIn(end) \subseteq DOMAIN decisions
  BY DEF DecisionsIn
<1>. QED
  BY <1>1, <1>2, FS_Subset, FS_CardinalityType

(* More decisions are in a window later.                                   *)
LEMMA WindowFills ==
  ASSUME Tables, Tables', Grown, NEW end
  PROVE  /\ Cardinality(DecisionsIn(end)) <= Cardinality(DecisionsIn(end)')
         /\ Cardinality(DecisionsIn(end)') \in Nat
<1>1. DecisionsIn(end) \subseteq DecisionsIn(end)'
  BY DEF DecisionsIn, Grown
<1>2. IsFiniteSet(DOMAIN decisions')
  <2>1. DOMAIN decisions' = 1 .. Len(decisions') /\ Len(decisions') \in Nat
    BY LenProperties DEF Tables
  <2>. QED
    BY <2>1, FS_Interval
<1>3. DecisionsIn(end)' \subseteq DOMAIN decisions'
  BY DEF DecisionsIn
<1>4. IsFiniteSet(DecisionsIn(end)')
  BY <1>2, <1>3, FS_Subset
<1>. QED
  BY <1>1, <1>4, FS_Subset, FS_CardinalityType

LEMMA OutcomesGrow ==
  ASSUME Grown, NEW a
  PROVE  /\ OutcomesOf(a) \subseteq OutcomesOf(a)'
         /\ WorkedByAnalyst(a) => WorkedByAnalyst(a)'
<1>1. ASSUME NEW o \in OutcomesOf(a)
      PROVE  o \in OutcomesOf(a)' /\ case_outcomes'[o] = case_outcomes[o]
  BY DEF OutcomesOf, Grown
<1>. QED
  BY <1>1 DEF WorkedByAnalyst

LEMMA HoldsKept ==
  ASSUME Tables, Tables', Holds, Grown, reader' = reader
  PROVE  Holds'
<1>0. \A a \in DOMAIN alerts :
        /\ alerts[a].first \in Nat /\ alerts'[a].first \in Nat
        /\ alerts[a].score \in Nat /\ alerts'[a].score \in Nat
  <2>1. Tables' => \A b \in DOMAIN alerts' : alerts'[b] \in Alert
    BY LenProperties, ElementOfSeq DEF Tables
  <2>2. \A r \in Alert : r.first \in Nat /\ r.score \in Nat
    BY ScoreAssumption DEF Alert
  <2>. QED
    BY <2>1, <2>2, AlertFields DEF Grown
<1>1. HoldsCase'
  <2>. SUFFICES ASSUME reader.phase = "alert" PROVE HoldsCase'
    BY DEF HoldsCase
  <2>1. /\ Named /\ reader.score \in Nat
        /\ alerts[reader.alert].score >= reader.score
        /\ alerts[reader.alert].score = reader.score => alerts[reader.alert].decision = reader.decision
    BY DEF Holds, HoldsCase
  <2>2. Named'
    BY <2>1 DEF Named, Grown
  <2>3. /\ alerts'[reader.alert].score >= alerts[reader.alert].score
        /\ alerts'[reader.alert].score = alerts[reader.alert].score =>
             alerts'[reader.alert].decision = alerts[reader.alert].decision
        /\ alerts'[reader.alert].score \in Nat /\ alerts[reader.alert].score \in Nat
    BY <1>0, <2>1 DEF Named, Grown
  <2>. QED
    BY <2>1, <2>2, <2>3 DEF HoldsCase
<1>2. HoldsDetail'
  BY DEF Holds, HoldsDetail, Named, Grown
<1>3. HoldsDocument'
  BY DEF Holds, HoldsDocument, Grown
<1>4. HoldsScripted'
  <2>. SUFFICES ASSUME reader.phase \in {"rate", "judged"} PROVE HoldsScripted'
    BY DEF HoldsScripted
  <2>1. reader.end \in Nat
    BY DEF Holds, HoldsScripted
  <2>2. ASSUME NEW a \in reader.scripted
        PROVE  /\ a \in DOMAIN alerts' /\ alerts'[a].first <= reader.end
               /\ OutcomesOf(a)' # {}
               /\ reader.phase = "judged" /\ ~reader.synthetic =>
                    WorkedByAnalyst(a)' \/ ~InWindow(alerts'[a].first, reader.end)
    <3>1. /\ a \in DOMAIN alerts /\ alerts[a].first <= reader.end /\ OutcomesOf(a) # {}
          /\ reader.phase = "judged" /\ ~reader.synthetic =>
               WorkedByAnalyst(a) \/ ~InWindow(alerts[a].first, reader.end)
      BY DEF Holds, HoldsScripted
    <3>2. /\ a \in DOMAIN alerts' /\ alerts'[a].first <= alerts[a].first
          /\ alerts[a].first \in Nat /\ alerts'[a].first \in Nat
      BY <1>0, <3>1 DEF Grown
    <3>3. Window \in Nat
      BY BoundsAssumption
    <3>4. ~InWindow(alerts[a].first, reader.end) => ~InWindow(alerts'[a].first, reader.end)
      BY <2>1, <3>1, <3>2, <3>3 DEF InWindow
    <3>5. alerts'[a].first <= reader.end
      BY <2>1, <3>1, <3>2
    <3>. QED
      BY <3>1, <3>2, <3>4, <3>5, OutcomesGrow
  <2>. QED
    BY <2>1, <2>2 DEF HoldsScripted
<1>5. HoldsMissed'
  BY DEF Holds, HoldsMissed, Grown
<1>6. HoldsCounts'
  <2>1. ASSUME reader.phase = "executions"
        PROVE  reader.preventive <= Cardinality(DecisionsIn(reader.end)')
    <3>1. reader.preventive \in Nat /\ reader.preventive <= Cardinality(DecisionsIn(reader.end))
      BY <2>1 DEF Holds, HoldsCounts
    <3>2. Cardinality(DecisionsIn(reader.end)) <= Cardinality(DecisionsIn(reader.end)')
      BY WindowFills
    <3>3. Cardinality(DecisionsIn(reader.end)') \in Nat
      BY WindowFills
    <3>. QED
      BY <3>1, <3>2, <3>3, DecisionsInFinite
  <2>2. DecisionsIn(reader.end)' = {d \in DOMAIN decisions' : InWindow(decisions'[d].at, reader.end)}
    BY DEF DecisionsIn
  <2>. QED
    BY <2>1, <2>2 DEF Holds, HoldsCounts, DecisionsIn
<1>. QED
  BY <1>1, <1>2, <1>3, <1>4, <1>5, <1>6 DEF Holds

----------------------------------------------------------------------------
(* What a reader reads.                                                    *)

(* A case that has a verdict has one that speaks for it.                   *)
LEMMA SomeoneSpeaks ==
  ASSUME Tables, NEW a, OutcomesOf(a) # {}
  PROVE  (CHOOSE o \in Speaking(a) : TRUE) \in OutcomesOf(a)
<1>. DEFINE n == Len(case_outcomes)
            Best(k) == \E o \in OutcomesOf(a) :
                         o <= k /\ \A p \in OutcomesOf(a) : p <= k => SpeaksBefore(o, p)
            Unspoken == {k \in Nat : (\E o \in OutcomesOf(a) : o <= k) /\ ~Best(k)}
<1>1. /\ n \in Nat
      /\ \A o \in OutcomesOf(a) : o \in 1 .. n /\ case_outcomes[o].decided_at \in Nat
  BY RowsAre DEF OutcomesOf, CaseOutcome
<1>2. ASSUME Unspoken # {} PROVE FALSE
  <2>1. PICK k \in Unspoken : \A m \in Unspoken : k <= m
    <3>. HIDE DEF Unspoken
    <3>1. Unspoken \in SUBSET Nat
      BY DEF Unspoken
    <3>. QED
      BY <1>2, <3>1, LeastOf
  <2>2. k \in Nat \ {0}
    BY <1>1, <2>1
  <2>3. k - 1 \in Nat /\ k - 1 \notin Unspoken
    BY <2>1, <2>2
  <2>4. CASE \E o \in OutcomesOf(a) : o <= k - 1
    <3>1. PICK o \in OutcomesOf(a) :
            o <= k - 1 /\ \A p \in OutcomesOf(a) : p <= k - 1 => SpeaksBefore(o, p)
      BY <2>3, <2>4
    <3>2. CASE k \notin OutcomesOf(a)
      <4>1. \A p \in OutcomesOf(a) : p <= k => p <= k - 1
        BY <1>1, <2>2, <3>2
      <4>. QED
        BY <1>1, <2>1, <2>2, <3>1, <4>1
    <3>3. CASE k \in OutcomesOf(a)
      <4>1. \A p \in OutcomesOf(a) : p <= k => p = k \/ p <= k - 1
        BY <1>1, <2>2
      <4>2. CASE case_outcomes[k].decided_at >= case_outcomes[o].decided_at
        <5>1. ASSUME NEW p \in OutcomesOf(a), p <= k PROVE SpeaksBefore(k, p)
          <6>1. p = k \/ SpeaksBefore(o, p)
            BY <3>1, <4>1, <5>1
          <6>2. /\ case_outcomes[k].decided_at \in Nat /\ case_outcomes[o].decided_at \in Nat
                /\ case_outcomes[p].decided_at \in Nat
                /\ k \in Nat /\ o \in Nat /\ p \in Nat /\ o <= k - 1
            BY <1>1, <2>2, <3>1, <3>3
          <6>. HIDE DEF Unspoken, Best
          <6>. QED
            BY <4>2, <5>1, <6>1, <6>2 DEF SpeaksBefore
        <5>. QED
          BY <2>1, <2>2, <3>3, <5>1
      <4>3. CASE ~(case_outcomes[k].decided_at >= case_outcomes[o].decided_at)
        <5>1. ASSUME NEW p \in OutcomesOf(a), p <= k PROVE SpeaksBefore(o, p)
          <6>1. p = k \/ SpeaksBefore(o, p)
            BY <3>1, <4>1, <5>1
          <6>2. /\ case_outcomes[k].decided_at \in Nat /\ case_outcomes[o].decided_at \in Nat
                /\ case_outcomes[p].decided_at \in Nat
                /\ k \in Nat /\ o \in Nat /\ p \in Nat /\ o <= k - 1
            BY <1>1, <2>2, <3>1, <3>3
          <6>. HIDE DEF Unspoken, Best
          <6>. QED
            BY <4>3, <5>1, <6>1, <6>2 DEF SpeaksBefore
        <5>2. o <= k
          BY <1>1, <2>2, <3>1
        <5>. QED
          BY <2>1, <5>1, <5>2
      <4>. QED
        BY <4>2, <4>3
    <3>. QED
      BY <3>2, <3>3
  <2>5. CASE ~\E o \in OutcomesOf(a) : o <= k - 1
    <3>1. PICK o \in OutcomesOf(a) : o <= k
      BY <2>1
    <3>2. \A p \in OutcomesOf(a) : p <= k => p = k
      BY <1>1, <2>2, <2>5
    <3>3. \A p \in OutcomesOf(a) : p <= k => SpeaksBefore(o, p)
      BY <1>1, <3>1, <3>2 DEF SpeaksBefore
    <3>. QED
      BY <2>1, <3>1, <3>3
  <2>. QED
    BY <2>4, <2>5
<1>3. PICK o \in OutcomesOf(a) : \A p \in OutcomesOf(a) : p <= n => SpeaksBefore(o, p)
  BY <1>1, <1>2
<1>4. o \in Speaking(a)
  BY <1>1, <1>3 DEF Speaking
<1>. QED
  BY <1>4 DEF Speaking

(* No more preventive actions than decisions: each has its own, at its     *)
(* own time.                                                               *)
LEMMA ExecutionsFewer ==
  ASSUME Tables, Linked, NEW end
  PROVE  /\ Cardinality(ExecutionsIn(end)) \in Nat
         /\ Cardinality(ExecutionsIn(end)) <= Cardinality(DecisionsIn(end))
<1>. DEFINE f == [x \in ExecutionsIn(end) |-> executions[x].decision]
<1>1. \A x \in ExecutionsIn(end) : x \in DOMAIN executions /\ executions[x].decision \in DecisionsIn(end)
  BY DEF ExecutionsIn, DecisionsIn, Linked, ExecutionsHaveDecisions
<1>2. f \in Injection(ExecutionsIn(end), DecisionsIn(end))
  <2>1. f \in [ExecutionsIn(end) -> DecisionsIn(end)]
    BY <1>1
  <2>2. \A x, y \in ExecutionsIn(end) : f[x] = f[y] => x = y
    BY <1>1 DEF Linked, ExecutionsHaveDecisions
  <2>. QED
    BY <2>1, <2>2 DEF Injection, IsInjective
<1>3. IsFiniteSet(DecisionsIn(end))
  BY DecisionsInFinite
<1>. QED
  BY <1>2, <1>3, FS_Injection, FS_CardinalityType

(* A verdict is a script's or a person's.                                  *)
LEMMA SourceIs ==
  ASSUME Tables, NEW a, OutcomesOf(a) # {}
  PROVE  SourceOf(a) = "synthetic" \/ WorkedByAnalyst(a)
<1>1. PICK o : o = CHOOSE p \in Speaking(a) : TRUE
  OBVIOUS
<1>2. o \in OutcomesOf(a) /\ SourceOf(a) = case_outcomes[o].source
  BY <1>1, SomeoneSpeaks DEF SourceOf
<1>3. case_outcomes[o] \in CaseOutcome
  BY <1>2, RowsAre DEF OutcomesOf
<1>. QED
  BY <1>2, <1>3 DEF WorkedByAnalyst, CaseOutcome

LEMMA NoVerdictIs ==
  ASSUME NEW a, VerdictOn(a) # NoVerdict
  PROVE  OutcomesOf(a) # {}
BY DEF VerdictOn

(* No read changes a table; what it leaves in the reader's hands holds.    *)
LEMMA ReadStep ==
  ASSUME Tables, Linked, Holds, Read
  PROVE  Holds'
<1>0. UNCHANGED <<decisions, alerts, executions, case_outcomes, clock>>
  BY DEF Read
<1>. USE DEF Reads, Holds, HoldsCase, HoldsDetail, HoldsDocument, HoldsScripted, HoldsMissed, HoldsCounts
<1>1. ASSUME NEW a \in DOMAIN alerts, ReadAlert(a) PROVE Holds'
  <2>1. /\ reader'.phase = "alert" /\ reader'.alert = a /\ reader'.decision = alerts[a].decision
        /\ reader'.score = alerts[a].score
    BY <1>1 DEF ReadAlert
  <2>2. Named'
    BY <1>0, <2>1 DEF Named, Linked, CasesShowTheirDecision
  <2>. QED
    BY <1>0, <2>1, <2>2, AlertFields
<1>2. ASSUME ReadSignals PROVE Holds'
  <2>1. reader.phase = "alert"
    BY <1>2 DEF ReadSignals
  <2>2. CASE AddsUp(reader.score, alerts[reader.alert].bar)
    <3>1. /\ reader'.phase = "detail" /\ reader'.alert = reader.alert
          /\ reader'.decision = reader.decision /\ reader'.bar = alerts[reader.alert].bar
      BY <1>2, <2>2 DEF ReadSignals
    <3>2. alerts[reader.alert].bar = reader.decision
      BY <2>1, <2>2 DEF AddsUp, Named, Linked, CasesShowTheirDecision
    <3>3. Named'
      BY <1>0, <2>1, <3>1 DEF Named
    <3>. QED
      BY <3>1, <3>2, <3>3
  <2>3. CASE ~AddsUp(reader.score, alerts[reader.alert].bar)
    <3>1. reader'.phase = "idle"
      BY <1>2, <2>3 DEF ReadSignals, Nothing
    <3>. QED
      BY <3>1
  <2>. QED
    BY <2>2, <2>3
<1>3. ASSUME ReadExecutions PROVE Holds'
  <2>1. /\ reader.phase = "detail"
        /\ reader'.phase = "explained" /\ reader'.decision = reader.decision /\ reader'.bar = reader.bar
        /\ reader'.issued = {executions[x].decision :
                               x \in {y \in DOMAIN executions : executions[y].alert = reader.alert}}
    <3>1. PICK issued : issued = {executions[x].decision :
                               x \in {y \in DOMAIN executions : executions[y].alert = reader.alert}}
      OBVIOUS
    <3>2. /\ reader.phase = "detail"
          /\ reader' = AnswerChips(reader, issued) \/ reader' = BuildReport(reader, issued)
      BY <1>3, <3>1 DEF ReadExecutions
    <3>3. \A document \in {AnswerChips(reader, issued), BuildReport(reader, issued)} :
            /\ document.phase = "explained" /\ document.issued = issued
            /\ document.decision = reader.decision /\ document.bar = reader.bar
      BY DEF AnswerChips, BuildReport
    <3>. QED
      BY <3>1, <3>2, <3>3
  <2>2. ASSUME NEW x \in DOMAIN executions, executions[x].decision = reader.decision
        PROVE  executions[x].alert = reader.alert
    BY <2>1, <2>2 DEF Named, Linked, ExecutionsHaveDecisions
  <2>. QED
    BY <1>0, <2>1, <2>2 DEF Named
<1>4. ASSUME NEW end \in 0 .. clock, ReadRate(end) PROVE Holds'
  <2>1. reader'.phase = "rate" /\ reader'.end = end /\ reader'.scripted = BySource(end, "synthetic")
    BY <1>4 DEF ReadRate
  <2>2. end \in Nat
    BY RowsAre
  <2>3. ASSUME NEW a \in reader'.scripted
        PROVE  a \in DOMAIN alerts' /\ alerts'[a].first <= end /\ OutcomesOf(a)' # {}
    <3>1. a \in DOMAIN alerts /\ InWindow(alerts[a].first, end) /\ VerdictOn(a) # NoVerdict
      BY <2>1 DEF BySource, CasesIn
    <3>2. OutcomesOf(a)' = OutcomesOf(a)
      BY <1>0 DEF OutcomesOf
    <3>. QED
      BY <1>0, <3>1, <3>2, NoVerdictIs DEF InWindow
  <2>. QED
    BY <2>1, <2>2, <2>3
<1>5. ASSUME NEW end \in 0 .. clock, ReadMissed(end) PROVE Holds'
  <2>1. /\ reader'.phase = "missed"
        /\ reader'.missed = {d \in DecisionsIn(end) : decisions[d].fraud /\ ~BecameCase(d)}
    BY <1>5 DEF ReadMissed
  <2>. QED
    BY <1>0, <2>1 DEF DecisionsIn, BecameCase
<1>6. ASSUME NEW end \in 0 .. clock, ReadExecutionRows(end) PROVE Holds'
  <2>1. /\ reader'.phase = "executions" /\ reader'.end = end
        /\ reader'.preventive = Cardinality(ExecutionsIn(end))
    BY <1>6 DEF ReadExecutionRows
  <2>2. end \in Nat
    BY RowsAre
  <2>3. DecisionsIn(reader.end)' = DecisionsIn(end)
    BY <1>0, <2>1 DEF DecisionsIn
  <2>4. /\ Cardinality(ExecutionsIn(end)) \in Nat
        /\ Cardinality(ExecutionsIn(end)) <= Cardinality(DecisionsIn(end))
    BY ExecutionsFewer
  <2>5. /\ reader'.preventive \in Nat
        /\ reader'.preventive <= Cardinality(DecisionsIn(reader.end)')
    BY <2>1, <2>3, <2>4
  <2>. QED
    BY <2>1, <2>2, <2>5
<1>7. ASSUME ReadProvenance PROVE Holds'
  <2>1. /\ reader.phase = "rate" /\ reader'.phase = "judged" /\ reader'.end = reader.end
        /\ reader'.scripted = reader.scripted
        /\ reader'.synthetic = (BySource(reader.end, "synthetic") # {})
    BY <1>7 DEF ReadProvenance
  <2>2. ASSUME NEW a \in reader.scripted
        PROVE  /\ a \in DOMAIN alerts /\ alerts[a].first <= reader.end
               /\ OutcomesOf(a) # {} /\ OutcomesOf(a)' = OutcomesOf(a)
               /\ BySource(reader.end, "synthetic") = {} =>
                    WorkedByAnalyst(a)' \/ ~InWindow(alerts[a].first, reader.end)
    <3>1. a \in DOMAIN alerts /\ alerts[a].first <= reader.end /\ OutcomesOf(a) # {}
      BY <2>1
    <3>2. OutcomesOf(a)' = OutcomesOf(a) /\ WorkedByAnalyst(a)' = WorkedByAnalyst(a)
      BY <1>0 DEF OutcomesOf, WorkedByAnalyst
    <3>3. ASSUME BySource(reader.end, "synthetic") = {}, InWindow(alerts[a].first, reader.end)
          PROVE  WorkedByAnalyst(a)
      <4>1. VerdictOn(a) # NoVerdict
        <5>1. PICK o : o = CHOOSE p \in Speaking(a) : TRUE
          OBVIOUS
        <5>2. case_outcomes[o] \in CaseOutcome
          BY <3>1, <5>1, SomeoneSpeaks, RowsAre DEF OutcomesOf
        <5>3. VerdictOn(a) = case_outcomes[o].disposition
          BY <3>1, <5>1 DEF VerdictOn
        <5>. QED
          BY <5>2, <5>3 DEF CaseOutcome, Disposition, NoVerdict
      <4>2. SourceOf(a) # "synthetic"
        BY <3>1, <3>3, <4>1 DEF BySource, CasesIn
      <4>. QED
        BY <3>1, <4>2, SourceIs
    <3>. QED
      BY <3>1, <3>2, <3>3
  <2>3. reader.end \in Nat
    BY <2>1
  <2>4. ASSUME NEW a \in reader'.scripted
        PROVE  /\ a \in DOMAIN alerts' /\ alerts'[a].first <= reader'.end /\ OutcomesOf(a)' # {}
               /\ reader'.phase = "judged" /\ ~reader'.synthetic =>
                    WorkedByAnalyst(a)' \/ ~InWindow(alerts'[a].first, reader'.end)
    BY <1>0, <2>1, <2>2
  <2>. QED
    BY <2>1, <2>3, <2>4
<1>8. ASSUME ReadDecisionRows PROVE Holds'
  <2>1. /\ reader.phase = "executions" /\ reader'.phase = "rates"
        /\ reader'.preventive = reader.preventive
        /\ reader'.evaluated = Cardinality(DecisionsIn(reader.end))
    BY <1>8 DEF ReadDecisionRows
  <2>. QED
    BY <2>1
<1>9. ASSUME reader' = Nothing PROVE Holds'
  BY <1>9 DEF Nothing
<1>. QED
  BY <1>1, <1>2, <1>3, <1>4, <1>5, <1>6, <1>7, <1>8, <1>9 DEF Read

LEMMA ReportsStep == ReportsInv /\ [ReportsNext]_reports => ReportsInv'
<1>. SUFFICES ASSUME ReportsInv, [ReportsNext]_reports PROVE ReportsInv'
  OBVIOUS
<1>0. Tables /\ Linked /\ Holds
  BY DEF ReportsInv
<1>1. ASSUME Stands, reader' = reader PROVE ReportsInv'
  BY <1>0, <1>1, HoldsKept DEF Stands, ReportsInv
<1>2. CASE Evaluate
  BY <1>0, <1>1, <1>2, EvaluateStep DEF Evaluate
<1>3. CASE Settle
  BY <1>0, <1>1, <1>3, SettleStep DEF Settle
<1>4. ASSUME NEW a \in DOMAIN alerts, NEW verdict \in AnalystVerdict, WriteDisposition(a, verdict)
      PROVE  ReportsInv'
  BY <1>0, <1>1, <1>4, WriteStep DEF WriteDisposition
<1>5. CASE Tick
  BY <1>0, <1>1, <1>5, TickStep DEF Tick
<1>6. ASSUME UNCHANGED <<decisions, alerts, executions, case_outcomes, clock>>
      PROVE  Tables' /\ Linked'
  BY <1>0, <1>6 DEF Tables, Linked, CasesShowTheirDecision, FoldsAreShown, ExecutionsHaveDecisions
<1>7. CASE Read
  <2>1. UNCHANGED <<decisions, alerts, executions, case_outcomes, clock>>
    BY <1>7 DEF Read
  <2>. QED
    BY <1>0, <1>6, <1>7, <2>1, ReadStep DEF ReportsInv
<1>8. CASE UNCHANGED reports
  <2>1. UNCHANGED <<decisions, alerts, executions, case_outcomes, clock>> /\ reader' = reader
    BY <1>8 DEF reports
  <2>2. Grown
    BY <1>0, <2>1, AlertFields DEF Grown
  <2>. QED
    BY <1>0, <1>1, <1>6, <2>1, <2>2 DEF Stands
<1>. QED
  BY <1>2, <1>3, <1>4, <1>5, <1>7, <1>8 DEF ReportsNext

LEMMA ReportsCorrect == ReportsSpec => []ReportsInv
<1>1. ReportsInit => ReportsInv
  <2>. SUFFICES ASSUME ReportsInit PROVE ReportsInv
    OBVIOUS
  <2>1. Tables
    BY BoundsAssumption DEF ReportsInit, Tables
  <2>2. DOMAIN decisions = {} /\ DOMAIN alerts = {} /\ DOMAIN executions = {}
    BY DEF ReportsInit
  <2>3. Linked
    BY <2>2 DEF Linked, CasesShowTheirDecision, FoldsAreShown, ExecutionsHaveDecisions
  <2>4. Holds
    BY DEF ReportsInit, Nothing, Holds, HoldsCase, HoldsDetail, HoldsDocument, HoldsScripted,
           HoldsMissed, HoldsCounts
  <2>. QED
    BY <2>1, <2>3, <2>4 DEF ReportsInv
<1>. QED
  BY <1>1, ReportsStep, PTL DEF ReportsSpec

(* Rows of the right shape, and cases, executions and decisions that name  *)
(* each other soundly.                                                     *)
THEOREM ReportsTypeCorrect == ReportsSpec => []ReportsTypeOK
<1>1. ReportsInv => ReportsTypeOK
  BY DEF ReportsInv, Tables, Linked, CasesShowTheirDecision, ExecutionsHaveDecisions, ReportsTypeOK
<1>. QED
  BY <1>1, ReportsCorrect, PTL

(* An explanation that is served shows the decision it names, whatever     *)
(* commits between the statements that collect it.                         *)
THEOREM ServedCorrect == ReportsSpec => []ServedExplainsItself
<1>1. ReportsInv => ServedExplainsItself
  BY DEF ReportsInv, Holds, HoldsDetail, HoldsDocument, ServedExplainsItself
<1>. QED
  BY <1>1, ReportsCorrect, PTL

(* Tiles read by two statements hold together, whatever lands between.     *)
THEOREM TilesCorrect == ReportsSpec => []TilesHoldTogether
<1>1. ReportsInv => TilesHoldTogether
  <2>. SUFFICES ASSUME ReportsInv PROVE TilesHoldTogether
    OBVIOUS
  <2>1. reader.phase = "rates" => reader.preventive <= reader.evaluated
    BY DEF ReportsInv, Holds, HoldsCounts
  <2>2. reader.phase = "judged" /\ ~reader.synthetic =>
          \A a \in reader.scripted : WorkedByAnalyst(a) \/ ~InWindow(alerts[a].first, reader.end)
    BY DEF ReportsInv, Holds, HoldsScripted
  <2>3. ASSUME reader.phase = "missed", NEW d \in reader.missed
        PROVE  /\ decisions[d].routing \in {"folded", "suppressed", "no_authority"}
               /\ decisions[d].routing = "folded" =>
                    alerts[decisions[d].alert].score >= decisions[d].score
    <3>1. d \in DOMAIN decisions /\ decisions[d].routing \notin {"raised", "restated"}
      BY <2>3 DEF ReportsInv, Holds, HoldsMissed
    <3>2. decisions[d] \in Decision
      BY <3>1, RowsAre DEF ReportsInv
    <3>. QED
      BY <3>1, <3>2 DEF Decision, ReportsInv, Linked, FoldsAreShown
  <2>. QED
    BY <2>1, <2>2, <2>3 DEF TilesHoldTogether
<1>. QED
  BY <1>1, ReportsCorrect, PTL

(* Only an analyst takes a case off the queue.                             *)
THEOREM QueueCorrect == ReportsSpec => QueueLeftByPeopleOnly
<1>1. ASSUME ReportsInv, [ReportsNext]_reports
      PROVE  \A a \in Queue \ Queue' :
               /\ Len(case_outcomes') = Len(case_outcomes) + 1
               /\ Last(case_outcomes').alert = a /\ Last(case_outcomes').source = "analyst"
  <2>. SUFFICES ASSUME NEW a \in Queue \ Queue'
                PROVE  /\ Len(case_outcomes') = Len(case_outcomes) + 1
                       /\ Last(case_outcomes').alert = a /\ Last(case_outcomes').source = "analyst"
    OBVIOUS
  <2>0. Tables /\ Linked
    BY <1>1 DEF ReportsInv
  <2>1. a \in DOMAIN alerts /\ ~WorkedByAnalyst(a)
    BY DEF Queue
  <2>2. ASSUME Grown PROVE WorkedByAnalyst(a)'
    BY <2>1, <2>2 DEF Queue, Grown
  <2>3. ASSUME WorkedByAnalyst(a)' PROVE case_outcomes' # case_outcomes
    BY <2>1, <2>3 DEF WorkedByAnalyst, OutcomesOf
  <2>4. CASE Evaluate
    <3>1. case_outcomes' = case_outcomes
      BY <2>4 DEF Evaluate
    <3>. QED
      BY <2>0, <2>2, <2>3, <2>4, <3>1, EvaluateStep DEF Stands
  <2>5. CASE Settle
    <3>1. PICK more \in Seq(CaseOutcome) :
            case_outcomes' = case_outcomes \o more /\ \A i \in DOMAIN more : more[i].source = "synthetic"
      BY <2>0, <2>5, Settling
    <3>2. case_outcomes \in Seq(CaseOutcome)
      BY <2>0 DEF Tables
    <3>3. /\ DOMAIN case_outcomes' = 1 .. Len(case_outcomes) + Len(more)
          /\ \A i \in 1 .. Len(case_outcomes) + Len(more) :
               case_outcomes'[i] = IF i <= Len(case_outcomes) THEN case_outcomes[i]
                                   ELSE more[i - Len(case_outcomes)]
          /\ DOMAIN case_outcomes = 1 .. Len(case_outcomes) /\ Len(case_outcomes) \in Nat
          /\ DOMAIN more = 1 .. Len(more) /\ Len(more) \in Nat
      BY <3>1, <3>2, ConcatProperties, LenProperties
    <3>4. PICK o \in DOMAIN case_outcomes' :
            case_outcomes'[o].alert = a /\ case_outcomes'[o].source = "analyst"
      BY <2>0, <2>2, <2>5, SettleStep DEF Stands, WorkedByAnalyst, OutcomesOf
    <3>5. o \in DOMAIN case_outcomes /\ case_outcomes'[o] = case_outcomes[o]
      <4>1. CASE o <= Len(case_outcomes)
        BY <3>3, <3>4, <4>1
      <4>2. CASE ~(o <= Len(case_outcomes))
        <5>1. o - Len(case_outcomes) \in DOMAIN more /\ case_outcomes'[o] = more[o - Len(case_outcomes)]
          BY <3>3, <3>4, <4>2
        <5>. QED
          BY <3>1, <3>4, <5>1
      <4>. QED
        BY <4>1, <4>2
    <3>. QED
      BY <2>1, <3>4, <3>5 DEF WorkedByAnalyst, OutcomesOf
  <2>6. ASSUME NEW b \in DOMAIN alerts, NEW verdict \in AnalystVerdict, WriteDisposition(b, verdict)
        PROVE  /\ Len(case_outcomes') = Len(case_outcomes) + 1
               /\ Last(case_outcomes').alert = a /\ Last(case_outcomes').source = "analyst"
    <3>1. PICK row \in CaseOutcome :
            row.alert = b /\ row.source = "analyst" /\ case_outcomes' = Append(case_outcomes, row)
      BY <2>0, <2>6, Disposing
    <3>2. case_outcomes \in Seq(CaseOutcome)
      BY <2>0 DEF Tables
    <3>3. /\ DOMAIN case_outcomes' = DOMAIN case_outcomes \cup {Len(case_outcomes) + 1}
          /\ case_outcomes'[Len(case_outcomes) + 1] = row
          /\ \A i \in DOMAIN case_outcomes : case_outcomes'[i] = case_outcomes[i]
          /\ Len(case_outcomes') = Len(case_outcomes) + 1
      BY <3>1, <3>2, Appending, AppendProperties
    <3>4. PICK o \in DOMAIN case_outcomes' :
            case_outcomes'[o].alert = a /\ case_outcomes'[o].source = "analyst"
      BY <2>0, <2>2, <2>6, WriteStep DEF Stands, WorkedByAnalyst, OutcomesOf
    <3>5. o = Len(case_outcomes) + 1
      BY <2>1, <3>3, <3>4 DEF WorkedByAnalyst, OutcomesOf
    <3>6. Last(case_outcomes') = row
      BY <3>3 DEF Last
    <3>. QED
      BY <3>1, <3>3, <3>4, <3>5, <3>6
  <2>7. CASE Tick
    <3>1. case_outcomes' = case_outcomes
      BY <2>7 DEF Tick
    <3>. QED
      BY <2>0, <2>2, <2>3, <2>7, <3>1, TickStep DEF Stands
  <2>8. ASSUME UNCHANGED <<alerts, case_outcomes>> PROVE FALSE
    BY <2>1, <2>8 DEF Queue, WorkedByAnalyst, OutcomesOf
  <2>9. CASE Read
    BY <2>8, <2>9 DEF Read
  <2>10. CASE UNCHANGED reports
    BY <2>8, <2>10 DEF reports
  <2>. QED
    BY <1>1, <2>4, <2>5, <2>6, <2>7, <2>9, <2>10 DEF ReportsNext
<1>. QED
  BY <1>1, ReportsCorrect, PTL DEF ReportsSpec, QueueLeftByPeopleOnly
============================================================================
