------------------------------ MODULE LaneRuns ------------------------------
(***************************************************************************)
(* Lane runs that route their evaluations at the same time, each in one    *)
(* transaction under READ COMMITTED (engine/persist.py, write_batch): a    *)
(* cycle, a re-score by hand, an authorisation.  Settlers that write       *)
(* verdicts (engine/outcomes.py) run beside them.  AlertHygiene has the    *)
(* routing of one evaluation after the other, with its windows, authority  *)
(* and executions; here every event lies in one open window and every      *)
(* evaluation has authority.                                               *)
(***************************************************************************)
EXTENDS Integers, Sequences, FiniteSets, SequencesExt

CONSTANTS
  Run,         \* transactions that write a batch
  Settler,     \* transactions that settle
  Key,         \* dedup_keys, in the order in which the planner lists them
  SubjectOf,   \* the subject of a dedup_key
  Score,
  Batch,       \* the sets of evaluations that a run may have to route
  ChunkSize    \* how many of them one write_batch takes (evaluation.py: BATCH)

ASSUME KeyAssumption ==
  /\ Key \subseteq Nat /\ DOMAIN SubjectOf = Key
  /\ \A S \in SUBSET Key : S # {} => \E last \in S : \A key \in S : key <= last
ASSUME ScoreAssumption == Score \subseteq Nat
ASSUME TransactionAssumption == Run \cap Settler = {}
ASSUME ChunkAssumption == ChunkSize \in Nat \ {0}
ASSUME BatchAssumption ==
  \A batch \in Batch :
    /\ batch \subseteq [key : Key, score : Score] /\ IsFiniteSet(batch)
    /\ \A e, f \in batch : e.key = f.key => e = f

VARIABLES
  alerts,      \* the committed cases, by alert_id
  decisions,   \* the committed decisions
  outcomes,    \* the committed verdicts
  run,         \* the state of each run's transaction
  settler,     \* the state of each settler's transaction
  shares,      \* the cases whose rows a transaction's foreign keys hold
  lastId       \* the sequence behind alert_id, which no rollback resets

vars == <<alerts, decisions, outcomes, run, settler, shares, lastId>>

----------------------------------------------------------------------------
(* A run has at most one evaluation for a key: a decision is named by both. *)
Evaluation == [key : Key, score : Score]

Decision == [run : Run, key : Key, score : Score, alert : Nat,
             routing : {"raised", "restated", "folded", "suppressed"}]

Alert == [key : Key, score : Score, decision : Run, bar : Run, triggering : Nat,
          raisedBy : Run]

Verdict == [alert : Nat, settler : Settler]

(* Rows of alerts, by alert_id, which comes from the sequence.             *)
AreRows(rows, last) == DOMAIN rows \subseteq 1 .. last /\ rows \in [DOMAIN rows -> Alert]

(* known has what was committed when it began, and is no column.  rows and *)
(* written are what it has written and nobody else sees.                   *)
IsTransaction(t) ==
  /\ DOMAIN t = {"status", "plan", "target", "rows", "written", "known"}
  /\ t.status \in {"new", "routing", "waiting", "ended"}
  /\ t.plan \in Seq(Evaluation)
  /\ t.target \in Nat
  /\ AreRows(t.rows, lastId)
  /\ t.written \subseteq Decision
  /\ t.known \subseteq Nat

Settling ==
  [status : {"new", "read", "ended"}, cases : SUBSET Nat, known : SUBSET Verdict]

(* The tables hold rows of their kinds (write_batch, settle).              *)
TablesOK ==
  /\ lastId \in Nat
  /\ AreRows(alerts, lastId)
  /\ decisions \subseteq Decision
  /\ outcomes \subseteq Verdict
  /\ DOMAIN run = Run
  /\ \A r \in Run : IsTransaction(run[r])
  /\ settler \in [Settler -> Settling]

TypeOK == TablesOK /\ shares \in [Run \cup Settler -> SUBSET Nat]

NoRows == [a \in {} |-> a]

Fresh == [status |-> "new", plan |-> <<>>, target |-> 0, rows |-> NoRows,
          written |-> {}, known |-> {}]

(* Mutant: the planner's ORDER BY is lost.                                 *)
PlansInAnyOrder(batch) == SetToSeqs(batch)

(* _SUBJECT_SQL: the subjects of a lane, each once, ORDER BY their key.    *)
PlansOf(batch) ==
  {plan \in SetToSeqs(batch) :
     \A i, j \in DOMAIN plan : i < j => plan[i].key < plan[j].key}

Active(r) == run[r].status \in {"routing", "waiting"}

(* What a statement of the run sees: what is committed and its own rows.   *)
Visible(r) ==
  [a \in DOMAIN run[r].rows \cup DOMAIN alerts |->
     IF a \in DOMAIN run[r].rows THEN run[r].rows[a] ELSE alerts[a]]

(* Mutant: the read takes no lock.                                         *)
NeverLocked(r, a) == FALSE

(* A row that another run has locked for update stays so until that ends.  *)
Excluded(t, a) == \E q \in Run \ {t} : a \in DOMAIN run[q].rows

(* FOR UPDATE also waits for the FOR KEY SHARE of others' foreign keys.    *)
Locked(r, a) == Excluded(r, a) \/ \E t \in (Run \cup Settler) \ {r} : a \in shares[t]

(* Mutant: FOR UPDATE SKIP LOCKED.                                         *)
FreeCases(r, e) ==
  {a \in DOMAIN Visible(r) : Visible(r)[a].key = e.key /\ ~Locked(r, a)}

OpenCases(r, e) == {a \in DOMAIN Visible(r) : Visible(r)[a].key = e.key}

Dispositioned(a) == \E v \in outcomes : v.alert = a

SuppressingCases(r, e) ==
  {a \in DOMAIN Visible(r) :
     SubjectOf[Visible(r)[a].key] = SubjectOf[e.key] /\ ~Dispositioned(a)}

IsNewestOf(a, cases) == a \in cases /\ \A b \in cases : b <= a

(* _restate_alert on a strictly higher score, else _fold_alert.            *)
Worsened(row, r, e) ==
  IF e.score > row.score
  THEN [row EXCEPT !.triggering = @ + 1, !.score = e.score, !.decision = r, !.bar = r]
  ELSE [row EXCEPT !.triggering = @ + 1]

(* The head of the plan is done: its decision and the row it wrote.        *)
Routed(r, a, routing, rows) ==
  LET e == Head(run[r].plan) IN
  run' = [run EXCEPT ![r].status = "routing", ![r].plan = Tail(@), ![r].target = 0,
    ![r].rows = rows,
    ![r].written = @ \cup
      {[run |-> r, key |-> e.key, score |-> e.score, alert |-> a, routing |-> routing]}]

With(rows, a, row) ==
  [b \in DOMAIN rows \cup {a} |-> IF b = a THEN row ELSE rows[b]]

----------------------------------------------------------------------------
(* Lane runs.                                                              *)

(* _write_routing: the suppressing cases that decisions.alert_id refers to *)
(* and the run does not hold; a case that it routed to, it has locked.     *)
Owed(r) ==
  {d.alert : d \in {w \in run[r].written : w.routing = "suppressed"}}
    \ (DOMAIN run[r].rows \cup shares[r])

(* The end of a write_batch; the next one waits for its routing's keys.    *)
AtChunkEnd(r) ==
  run[r].plan = <<>> \/ Cardinality(run[r].written) % ChunkSize = 0

MayRoute(r) ==
  /\ run[r].status = "routing" /\ run[r].plan # <<>>
  /\ AtChunkEnd(r) => Owed(r) = {}

Start(r) ==
  /\ run[r].status = "new"
  /\ \E batch \in Batch : \E plan \in PlansOf(batch) :
       run' = [run EXCEPT ![r] =
         [Fresh EXCEPT !.status = "routing", !.plan = plan, !.known = DOMAIN alerts]]
  /\ UNCHANGED <<alerts, decisions, outcomes, settler, shares, lastId>>

Update(r, a) ==
  LET e == Head(run[r].plan)
      row == Visible(r)[a]
  IN  Routed(r, a, IF e.score > row.score THEN "restated" ELSE "folded",
             With(run[r].rows, a, Worsened(row, r, e)))

(* _open_alert finds the newest case and locks it, if it is free.          *)
RouteToOpen(r) ==
  /\ MayRoute(r)
  /\ \E a \in DOMAIN Visible(r) :
       /\ IsNewestOf(a, OpenCases(r, Head(run[r].plan)))
       /\ IF Locked(r, a)
          THEN run' = [run EXCEPT ![r].status = "waiting", ![r].target = a]
          ELSE Update(r, a)
  /\ UNCHANGED <<alerts, decisions, outcomes, settler, shares, lastId>>

(* FOR UPDATE returns the row as its last holder committed it.             *)
Resume(r) ==
  /\ run[r].status = "waiting"
  /\ ~Locked(r, run[r].target)
  /\ Update(r, run[r].target)
  /\ UNCHANGED <<alerts, decisions, outcomes, settler, shares, lastId>>

(* The case's row is not locked yet: that is _write_routing's.             *)
RouteSuppressed(r) ==
  /\ MayRoute(r)
  /\ OpenCases(r, Head(run[r].plan)) = {}
  /\ \E a \in DOMAIN Visible(r) :
       /\ IsNewestOf(a, SuppressingCases(r, Head(run[r].plan)))
       /\ Routed(r, a, "suppressed", run[r].rows)
  /\ UNCHANGED <<alerts, decisions, outcomes, settler, shares, lastId>>

(* The new case is nobody else's to see before the commit.                 *)
RouteRaised(r) ==
  /\ MayRoute(r)
  /\ LET e == Head(run[r].plan) IN
       /\ OpenCases(r, e) = {} /\ SuppressingCases(r, e) = {}
       /\ lastId' = lastId + 1
       /\ Routed(r, lastId', "raised", With(run[r].rows, lastId',
            [key |-> e.key, score |-> e.score, decision |-> r, bar |-> r,
             triggering |-> 1, raisedBy |-> r]))
  /\ UNCHANGED <<alerts, decisions, outcomes, settler, shares>>

Route(r) == RouteToOpen(r) \/ RouteSuppressed(r) \/ RouteRaised(r)

(* One of its foreign keys is checked: in any order, and it waits while    *)
(* another run has the case for update.                                    *)
ShareCase(r) ==
  /\ run[r].status = "routing" /\ AtChunkEnd(r)
  /\ \E a \in Owed(r) :
       /\ ~Excluded(r, a)
       /\ shares' = [shares EXCEPT ![r] = @ \cup {a}]
  /\ UNCHANGED <<alerts, decisions, outcomes, run, settler, lastId>>

Commit(r) ==
  /\ run[r].status = "routing" /\ run[r].plan = <<>> /\ Owed(r) = {}
  /\ alerts' = Visible(r)
  /\ decisions' = decisions \cup run[r].written
  /\ run' = [run EXCEPT ![r] =
       [Fresh EXCEPT !.status = "ended", !.known = run[r].known]]
  /\ shares' = [shares EXCEPT ![r] = {}]
  /\ UNCHANGED <<outcomes, settler, lastId>>

(* A statement fails, PostgreSQL picks it to end a deadlock, or the        *)
(* process dies: nothing of the run is left.                               *)
Abort(r) ==
  /\ Active(r)
  /\ run' = [run EXCEPT ![r] = [Fresh EXCEPT !.status = "ended"]]
  /\ shares' = [shares EXCEPT ![r] = {}]
  /\ UNCHANGED <<alerts, decisions, outcomes, settler, lastId>>

----------------------------------------------------------------------------
(* Settlers.                                                               *)

(* Mutant: every open case is settled, dispositioned or not.               *)
OpenCasesToSettle == DOMAIN alerts

Undisposed == {a \in DOMAIN alerts : ~Dispositioned(a)}

(* _UNDISPOSED_SQL, one statement.                                         *)
ReadUndisposed(s) ==
  /\ settler[s].status = "new"
  /\ settler' = [settler EXCEPT ![s] =
       [status |-> "read", cases |-> Undisposed, known |-> outcomes]]
  /\ UNCHANGED <<alerts, decisions, outcomes, run, shares, lastId>>

(* The verdicts are inserted one by one, in the order of alert_id, and the *)
(* foreign key of each waits while a run has its case for update.          *)
WriteVerdict(s) ==
  /\ settler[s].status = "read"
  /\ \E a \in settler[s].cases \ shares[s] :
       /\ \A b \in settler[s].cases \ shares[s] : a <= b
       /\ ~Excluded(s, a)
       /\ shares' = [shares EXCEPT ![s] = @ \cup {a}]
  /\ UNCHANGED <<alerts, decisions, outcomes, run, settler, lastId>>

CommitVerdicts(s) ==
  /\ settler[s].status = "read" /\ settler[s].cases \subseteq shares[s]
  /\ outcomes' = outcomes \cup {[alert |-> a, settler |-> s] : a \in settler[s].cases}
  /\ settler' = [settler EXCEPT ![s].status = "ended"]
  /\ shares' = [shares EXCEPT ![s] = {}]
  /\ UNCHANGED <<alerts, decisions, run, lastId>>

AbortSettler(s) ==
  /\ settler[s].status = "read"
  /\ settler' = [settler EXCEPT ![s].status = "ended"]
  /\ shares' = [shares EXCEPT ![s] = {}]
  /\ UNCHANGED <<alerts, decisions, outcomes, run, lastId>>

Init ==
  /\ alerts = NoRows
  /\ decisions = {}
  /\ outcomes = {}
  /\ run = [r \in Run |-> Fresh]
  /\ settler = [s \in Settler |-> [status |-> "new", cases |-> {}, known |-> {}]]
  /\ shares = [t \in Run \cup Settler |-> {}]
  /\ lastId = 0

Next ==
  \/ \E r \in Run :
       Start(r) \/ Route(r) \/ Resume(r) \/ ShareCase(r) \/ Commit(r) \/ Abort(r)
  \/ \E s \in Settler :
       ReadUndisposed(s) \/ WriteVerdict(s) \/ CommitVerdicts(s) \/ AbortSettler(s)

Spec == Init /\ [][Next]_vars

----------------------------------------------------------------------------
(* Properties.                                                             *)

RoutedTo(a) == {d \in decisions : d.alert = a /\ d.routing # "suppressed"}

(* Whatever ran at once, a case counts every committed evaluation that was *)
(* routed to it, once, and none of a run that failed; it shows the worst   *)
(* of them, and its signal rows are those of the decision that it names    *)
(* (persist.py: no update of a case is lost).                              *)
CaseSurvivesRaces ==
  \A a \in DOMAIN alerts :
    /\ alerts[a].triggering = Cardinality(RoutedTo(a))
    /\ \A d \in RoutedTo(a) : d.score <= alerts[a].score
    /\ \E d \in RoutedTo(a) :
         d.run = alerts[a].decision /\ d.run = alerts[a].bar /\ d.score = alerts[a].score

(* Two open cases with one dedup_key come only from runs that raced: a run *)
(* never raises again what was committed before it began.                  *)
DuplicatesOnlyRaced ==
  \A a, b \in DOMAIN alerts :
    alerts[a].key = alerts[b].key /\ a # b => a \notin run[alerts[b].raisedBy].known

(* A case gets two verdicts only from settlers that raced.                 *)
SettledTwiceOnlyRaced ==
  \A v, w \in outcomes : v.alert = w.alert /\ v # w => v \notin settler[w.settler].known

(* q waits in _open_alert for a case that r has locked for update.         *)
WaitsForCase(q, r) ==
  q # r /\ run[q].status = "waiting" /\ run[q].target \in DOMAIN run[r].rows

(* Cases are locked for update in the planner's order, so that no circle   *)
(* of runs waits for such locks alone (_SUBJECT_SQL's ORDER BY): one that  *)
(* PostgreSQL has to break passes through the lock of a foreign key, which *)
(* follows no such order (_write_routing's, or a verdict's).               *)
CirclesNeedForeignKeys ==
  \A circle \in SUBSET Run :
    circle # {} => \E r \in circle : \A q \in circle : ~WaitsForCase(r, q)
=============================================================================
