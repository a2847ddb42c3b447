----------------------------- MODULE CaseReports -----------------------------
(***************************************************************************)
(* What is read about cases while they change: alert.v1 and the            *)
(* explanations built on it (contract/read.py, explain/), the queue        *)
(* (contract/queue.py), the verdict of a case (contract/dispositions.py    *)
(* and the v_kpi views) and the tiles (contract/kpis.py).  A reader runs   *)
(* several statements under READ COMMITTED; the engine, the settler and    *)
(* analysts commit between them.  Which case an evaluation is routed to is *)
(* AlertHygiene's subject: here it may be any case that exists.            *)
(***************************************************************************)
EXTENDS Integers, Sequences, FiniteSets, SequencesExt

CONSTANTS
  Score,
  Delay,          \* how long after its first event the settler dates a verdict
  AnalystVerdict, \* the verdicts that analysts give
  Window,         \* the length of a window of the tiles
  MaxDecisions,   \* bounds
  MaxOutcomes,
  MaxClock

ASSUME ScoreAssumption == Score \subseteq Nat
ASSUME DelayAssumption == Delay \subseteq Nat
ASSUME AnalystVerdictAssumption ==
  AnalystVerdict \subseteq {"confirmed_fraud", "false_positive", "confirmed_legit", "inconclusive"}
ASSUME BoundsAssumption ==
  Window \in Nat \ {0} /\ MaxDecisions \in Nat /\ MaxOutcomes \in Nat /\ MaxClock \in Nat

VARIABLES
  decisions,
  alerts,
  executions,     \* the preventive ones; notifications count in no rate
  case_outcomes,  \* in the order of outcome_id
  reader,         \* what one reader has collected, statement by statement
  clock           \* the wall clock; live events happen on it

reports == <<decisions, alerts, executions, case_outcomes, reader, clock>>

----------------------------------------------------------------------------
Disposition == {"confirmed_fraud", "false_positive", "confirmed_legit", "inconclusive"}
NoVerdict == "none"

Decision ==
  [at : Nat, score : Score, fraud : BOOLEAN, alert : Nat,
   routing : {"raised", "restated", "folded", "suppressed", "no_authority"}]

(* bar is the decision whose signal rows the case has.                     *)
Alert == [decision : Nat, score : Score, bar : Nat, first : Nat]

Execution == [decision : Nat, alert : Nat, at : Nat,
              outcome : {"unresolved", "passed", "failed"}]

CaseOutcome == [alert : Nat, disposition : Disposition, source : {"analyst", "synthetic"},
                decided_at : Nat]

Nothing == [phase |-> "idle"]

(* Cases, executions and decisions name each other soundly: a case's        *)
(* decision was routed to it.                                              *)
ReportsTypeOK ==
  /\ decisions \in Seq(Decision)
  /\ alerts \in Seq(Alert)
  /\ executions \in Seq(Execution)
  /\ case_outcomes \in Seq(CaseOutcome)
  /\ clock \in 0 .. MaxClock
  /\ \A x \in DOMAIN executions : executions[x].alert \in DOMAIN alerts
  /\ \A a \in DOMAIN alerts : decisions[alerts[a].decision].alert = a

OutcomesOf(a) == {o \in DOMAIN case_outcomes : case_outcomes[o].alert = a}

(* ORDER BY decided_at DESC, outcome_id DESC: o speaks for its case, not p. *)
SpeaksBefore(o, p) ==
  LET s == case_outcomes[o] t == case_outcomes[p] IN
  s.decided_at > t.decided_at \/ (s.decided_at = t.decided_at /\ o >= p)

(* The row that carries the verdict: v_kpi_cases, read_verdict.            *)
Speaking(a) == {o \in OutcomesOf(a) : \A p \in OutcomesOf(a) : SpeaksBefore(o, p)}

VerdictOn(a) ==
  IF OutcomesOf(a) = {} THEN NoVerdict
  ELSE case_outcomes[CHOOSE o \in Speaking(a) : TRUE].disposition

SourceOf(a) == case_outcomes[CHOOSE o \in Speaking(a) : TRUE].source

(* Mutant: any disposition takes a case off the queue.                     *)
Dispositioned(a) == OutcomesOf(a) # {}

WorkedByAnalyst(a) == \E o \in OutcomesOf(a) : case_outcomes[o].source = "analyst"

(* read_queue, without include_worked: no status but open is ever written. *)
Queue == {a \in DOMAIN alerts : ~WorkedByAnalyst(a)}

----------------------------------------------------------------------------
(* The engine, the settler, the analysts.                                  *)

Evaluation == [at : 0 .. clock, score : Score, fraud : BOOLEAN]

NextDecision == Len(decisions) + 1

Record(e, routing, a) ==
  decisions' = Append(decisions,
    [at |-> e.at, score |-> e.score, fraud |-> e.fraud, alert |-> a,
     routing |-> routing])

Raise(e, challenged) ==
  LET a == Len(alerts) + 1 IN
  /\ alerts' = Append(alerts,
       [decision |-> NextDecision, score |-> e.score, bar |-> NextDecision, first |-> e.at])
  /\ executions' =
       IF challenged
       THEN Append(executions, [decision |-> NextDecision, alert |-> a, at |-> e.at,
                                outcome |-> "unresolved"])
       ELSE executions
  /\ Record(e, "raised", a)

Earlier(s, t) == IF s <= t THEN s ELSE t

(* Mutant: an equal score restates the case as well.                       *)
ScoresAtLeast(e, a) == e.score >= alerts[a].score

(* _route_alert: strictly higher.                                          *)
ScoresHigher(e, a) == e.score > alerts[a].score

Restate(e, a) ==
  /\ ScoresHigher(e, a)
  /\ alerts' = [alerts EXCEPT ![a] =
       [decision |-> NextDecision, score |-> e.score, bar |-> NextDecision,
        first |-> Earlier(@.first, e.at)]]
  /\ Record(e, "restated", a)
  /\ UNCHANGED executions

Fold(e, a) ==
  /\ ~ScoresHigher(e, a)
  /\ alerts' = [alerts EXCEPT ![a].first = Earlier(@, e.at)]
  /\ Record(e, "folded", a)
  /\ UNCHANGED executions

(* A decision that no case shows: suppressed by one, or without authority. *)
DecideSilently(e, a) ==
  /\ Record(e, IF a = 0 THEN "no_authority" ELSE "suppressed", a)
  /\ UNCHANGED <<alerts, executions>>

Evaluate ==
  /\ Len(decisions) < MaxDecisions
  /\ \E e \in Evaluation :
       \/ \E challenged \in BOOLEAN : Raise(e, challenged)
       \/ DecideSilently(e, 0)
       \/ \E a \in DOMAIN alerts : Restate(e, a) \/ Fold(e, a) \/ DecideSilently(e, a)
  /\ UNCHANGED <<case_outcomes, reader, clock>>

Settled(x, outcome) == IF x.outcome = "unresolved" THEN [x EXCEPT !.outcome = outcome] ELSE x

SyntheticVerdict(a, settled) ==
  LET d == alerts[a].decision IN
  IF decisions[d].fraud THEN "confirmed_fraud"
  ELSE IF \E x \in DOMAIN settled : settled[x].decision = d /\ settled[x].outcome = "passed"
       THEN "confirmed_legit" ELSE "false_positive"

(* ORDER BY alert_id.                                                      *)
InOrder(cases) ==
  {s \in SetToSeqs(cases) : \A i, j \in DOMAIN s : i < j => s[i] < s[j]}

(* settle: every challenge (one abandoned counts as failed), and a verdict *)
(* for each undispositioned case, dated from its first event.              *)
Settle ==
  \E open \in InOrder({a \in DOMAIN alerts : OutcomesOf(a) = {}}) :
  /\ open # <<>> \/ \E x \in DOMAIN executions : executions[x].outcome = "unresolved"
  /\ Len(case_outcomes) + Len(open) <= MaxOutcomes
  /\ \E outcome \in {"passed", "failed"}, delay \in [DOMAIN open -> Delay] :
       LET settled == [x \in DOMAIN executions |-> Settled(executions[x], outcome)] IN
       /\ executions' = settled
       /\ case_outcomes' = case_outcomes \o
            [i \in DOMAIN open |->
              [alert |-> open[i], disposition |-> SyntheticVerdict(open[i], settled),
               source |-> "synthetic", decided_at |-> alerts[open[i]].first + delay[i]]]
  /\ UNCHANGED <<decisions, alerts, reader, clock>>

(* write_disposition: decided_at is DEFAULT now().                         *)
WriteDisposition(a, verdict) ==
  /\ Len(case_outcomes) < MaxOutcomes
  /\ case_outcomes' = Append(case_outcomes,
       [alert |-> a, disposition |-> verdict, source |-> "analyst", decided_at |-> clock])
  /\ UNCHANGED <<decisions, alerts, executions, reader, clock>>

Tick ==
  /\ clock < MaxClock
  /\ clock' = clock + 1
  /\ UNCHANGED <<decisions, alerts, executions, case_outcomes, reader>>

----------------------------------------------------------------------------
(* alert.v1, and the copilot and the case report, which load it first.     *)

Reads(phase, next) == reader.phase = phase /\ reader' = next

ReadAlert(a) ==
  Reads("idle", [phase |-> "alert", alert |-> a, decision |-> alerts[a].decision,
                 score |-> alerts[a].score])

(* AlertDetail._invariants: a pool sums to the score of its decision.      *)
AddsUp(score, bar) == decisions[bar].score = score

(* The signal rows; a bar that does not add up is a 500.                   *)
ReadSignals ==
  Reads("alert",
    IF AddsUp(reader.score, alerts[reader.alert].bar)
    THEN [phase |-> "detail", alert |-> reader.alert, decision |-> reader.decision,
          score |-> reader.score, bar |-> alerts[reader.alert].bar]
    ELSE Nothing)

(* answer_chips: the score, all signals of the bar, and what was issued.   *)
AnswerChips(r, issued) ==
  [phase |-> "explained", document |-> "copilot", decision |-> r.decision, bar |-> r.bar,
   issued |-> issued]

(* build_report: the same rows, as a draft to be filed.                    *)
BuildReport(r, issued) == [AnswerChips(r, issued) EXCEPT !.document = "case_report"]

(* evidence.load reads the executions last, then a document is built.      *)
ReadExecutions ==
  LET issued == {executions[x].decision :
                   x \in {y \in DOMAIN executions : executions[y].alert = reader.alert}} IN
  Reads("detail", AnswerChips(reader, issued)) \/ Reads("detail", BuildReport(reader, issued))

----------------------------------------------------------------------------
(* The tiles of one window, which is open at its start.                    *)

InWindow(t, end) == end - Window < t /\ t <= end

(* v_kpi_cases, v_kpi_decisions, v_kpi_executions.                         *)
CasesIn(end) == {a \in DOMAIN alerts : InWindow(alerts[a].first, end)}
DecisionsIn(end) == {d \in DOMAIN decisions : InWindow(decisions[d].at, end)}

ExecutionsIn(end) == {x \in DOMAIN executions : InWindow(executions[x].at, end)}

BecameCase(d) == decisions[d].routing \in {"raised", "restated"}

BySource(end, source) ==
  {a \in CasesIn(end) : VerdictOn(a) # NoVerdict /\ SourceOf(a) = source}

(* false_positive_rate: the cases that were found wrong, and the verdicts  *)
(* a script gave among all those that it counts.                           *)
ReadRate(end) ==
  Reads("idle", [phase |-> "rate", end |-> end, scripted |-> BySource(end, "synthetic")])

(* Mutant: synthetic only while no person has judged any case.             *)
ReadProvenanceOfAll ==
  Reads("rate", [phase |-> "judged", end |-> reader.end, scripted |-> reader.scripted,
                 synthetic |-> BySource(reader.end, "analyst") = {}
                               /\ BySource(reader.end, "synthetic") # {}])

(* A second statement says whose verdicts they were.                       *)
ReadProvenance ==
  Reads("rate", [phase |-> "judged", end |-> reader.end, scripted |-> reader.scripted,
                 synthetic |-> BySource(reader.end, "synthetic") # {}])

(* false_negative_rate: fraud that did not become a case.                  *)
ReadMissed(end) ==
  Reads("idle", [phase |-> "missed",
                 missed |-> {d \in DecisionsIn(end) : decisions[d].fraud /\ ~BecameCase(d)}])

(* action_rates: executions by one statement, decisions by another.        *)
ReadExecutionRows(end) ==
  Reads("idle", [phase |-> "executions", end |-> end,
                 preventive |-> Cardinality(ExecutionsIn(end))])

ReadDecisionRows ==
  Reads("executions", [phase |-> "rates", preventive |-> reader.preventive,
                       evaluated |-> Cardinality(DecisionsIn(reader.end))])

Read ==
  /\ \/ \E a \in DOMAIN alerts : ReadAlert(a)
     \/ ReadSignals \/ ReadExecutions
     \/ \E end \in 0 .. clock : ReadRate(end) \/ ReadMissed(end) \/ ReadExecutionRows(end)
     \/ ReadProvenance \/ ReadDecisionRows
     \/ reader.phase \in {"explained", "judged", "missed", "rates"} /\ reader' = Nothing
  /\ UNCHANGED <<decisions, alerts, executions, case_outcomes, clock>>

ReportsInit ==
  /\ decisions = <<>> /\ alerts = <<>> /\ executions = <<>> /\ case_outcomes = <<>>
  /\ reader = Nothing
  /\ clock = 0

ReportsNext ==
  \/ Evaluate
  \/ Settle
  \/ \E a \in DOMAIN alerts, verdict \in AnalystVerdict : WriteDisposition(a, verdict)
  \/ Tick
  \/ Read

ReportsSpec == ReportsInit /\ [][ReportsNext]_reports

----------------------------------------------------------------------------
(* Evidence is read after the case, and a commit may fall between: an      *)
(* explanation that is served shows the signals of the decision it names,  *)
(* and a challenge that decision issued is among the executions shown.     *)
(* Only the score tells the reader (read.py, AlertDetail._invariants):     *)
(* enough because a case is restated by strictly higher scores alone.      *)
ServedExplainsItself ==
  /\ reader.phase \in {"detail", "explained"} => reader.bar = reader.decision
  /\ \A x \in DOMAIN executions :
       reader.phase = "explained" /\ executions[x].decision = reader.decision
         => reader.decision \in reader.issued

(* A case leaves the queue only by an analyst's hand: the settler's bulk   *)
(* verdicts leave all of the queue to be worked (queue.py).                *)
QueueLeftByPeopleOnly ==
  [][\A a \in Queue \ Queue' :
       /\ Len(case_outcomes') = Len(case_outcomes) + 1
       /\ Last(case_outcomes').alert = a /\ Last(case_outcomes').source = "analyst"]_reports

(* Tiles that read twice while the engine commits: no more preventive      *)
(* actions than decisions, whatever lands between the statements; a rate   *)
(* that counted a script's verdict is marked synthetic unless people have  *)
(* spoken since or the case has moved out of the window; and a fraud that  *)
(* the tile calls missed though it was routed to an open case is a fold,   *)
(* whose case already shows a score at least as high (kpis.py).            *)
TilesHoldTogether ==
  /\ reader.phase = "rates" => reader.preventive <= reader.evaluated
  /\ reader.phase = "judged" /\ ~reader.synthetic =>
       \A a \in reader.scripted : WorkedByAnalyst(a) \/ ~InWindow(alerts[a].first, reader.end)
  /\ reader.phase = "missed" =>
       \A d \in reader.missed :
         /\ decisions[d].routing \in {"folded", "suppressed", "no_authority"}
         /\ decisions[d].routing = "folded" =>
              alerts[decisions[d].alert].score >= decisions[d].score
=============================================================================
