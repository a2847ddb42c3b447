# Verification of the risk-intelligence engine

TLA+ specifications of the decisioning system in this repository (the Python package
`src/glassbox`, its SQL migrations and scripts), the configurations that model-check them with
TLC, and theorems about them that TLAPS proves. Paths below are relative to the root of the
repository; paths of Python modules are relative to `src/glassbox`.

## The system

| Component | Code | State it keeps | Operations | Module |
|---|---|---|---|---|
| Alert hygiene | `engine/persist.py` | `decisions`, `alerts`, `alert_signals`, `alert_policy` (read) | fold, restate, suppress or raise for every evaluation with authority | `AlertHygiene`, `CaseService`, `LaneRuns` |
| Executions | `engine/execute.py` | `action_executions`, step-up events of a card | issue a preventive action and a notification | `AlertHygiene` |
| Settlement | `engine/outcomes.py`, `scripts/resolve_actions.py` | outcomes of executions, synthetic rows of `case_outcomes` | `settle` | `AlertHygiene`, `LaneRuns` |
| Dispositions, queue | `contract/dispositions.py`, `contract/queue.py` | analysts' rows of `case_outcomes` | append a verdict, read the queue | `AlertHygiene`, `CaseReports` |
| Decisioning | `engine/conditions.py`, `scoring.py`, `consolidate.py`, `precedence.py` | none, pure | from feature reads to signals, score and action | `Decisioning` |
| Evaluation pipeline | `engine/evaluation.py`, `catalog.py` | none; reads the catalog | load, plan, read, evaluate and persist a lane | `ControlPlane`, `EntityReads`, `LaneRuns` |
| Entity resolution, exposure | `engine/resolver.py`, `engine/exposure.py` | none | route to the entities of a feature, money at stake | `EntityReads` |
| Point-in-time reads, feature store | `engine/pit.py`, `features/runner.py` | `feature_values`, append-only, two clocks | compute a window, read as of an instant, replay | `FeatureReplay`, `EntityReads` |
| Background cycle | `ingest/cycle.py`, `ingest/watermark.py`, `scheduler.py` | `ingest_watermark`, the advisory lock | tick: graph, features, both lanes | `IngestCycle` |
| Hand-run lanes | `api/routes_ingest.py`, `scripts/run_cycle.py` | the same watermarks | rescore a lane's population | `IngestCycle`, `FeatureReplay` |
| Authorization | `ingest/authorize.py` | a row of `transactions` and its decision | decide a charge synchronously | `Arrivals`, `FeatureReplay`, `IngestCycle` |
| Arrivals | `ingest/arrivals.py`, `ingest/records.py` | raw capture, `devices` | validate, drop duplicates, insert | `Arrivals` |
| Graph builder | `graph/builder.py` | `clusters`, `cluster_members` | rebuild clusters with stable ids | `GraphBuilder` |
| Rule control plane | `rules/publish.py`, `rules/validate.py`, migration 0030 | `rule_definitions`, `rule_conditions`, `rule_versions` | validate, publish, promote, retire, delete | `ControlPlane` |
| Simulation | `engine/simulate.py`, `contract/simulation.py` | none that lasts: rolled back | what-if for a rule or a charge | `WhatIf`, `ControlPlane`, `FeatureReplay`, `TriedCharge` |
| Contract, explanations, tiles | `contract/`, `explain/`, `db/views/` | none | serve what is stored | `CaseReports` |
| Console, fixtures, scripts | `console/`, `scripts/` | none | presentation, synthetic data | |

How they interact. Rows come in by `ingest` (a report) or `authorize` (a question, answered in
the same transaction). A tick of the cycle reads the frontier of raw capture, and for every
stream the window between its watermark and the frontier: the graph is rebuilt, features are
computed, and both lanes evaluate the subjects the window may have moved. An evaluation loads
the rules, resolves each feature to entities, reads their values at a point in time and is
decided by pure code; `write_batch` then writes the decision, routes it to a case and issues
actions. Issued challenges are settled later, and both their issue and their outcome are events
on a card that later features read. Administrators change rules while all this runs, and try them
out inside transactions that are rolled back. Everything shared is in PostgreSQL: the components
meet in tables, under READ COMMITTED transactions that their outermost callers commit.

What is hard, and what makes each part correct:

- **Alert hygiene**: events arrive in any order and hit a case again and again, from transactions
  that overlap. Right when a decision always says consistently what became of it, a case shows the
  worst of its evidence and the signals of exactly that evaluation, its count and span are those
  of its evidence, one situation is one case, no fold is lost, and the order in which cases are
  locked for update closes no circle by itself.
- **Executions and settlement**: they run at different times, against cases that move on between.
  Right when a customer is stepped up once for a case, an execution is resolved once, the card's
  log and the executions agree, and a verdict is written once.
- **Decisioning**: three-valued evidence, signed points, two thresholds and vetoes. Right when
  nobody is stopped on evidence that is not there, the score is explained by its signals, and a
  shadow rule judges nothing.
- **Reads**: two clocks, batches, statements that each see another database, routes that a table
  decides. Right when no decision looks ahead, a replay moves for known reasons only, a subject is
  judged by its own entities and a reduction hides nothing.
- **Background cycle**: two tickers, hand-run lanes, failing ticks and rows that land in the
  middle or with an old event time. Right when a watermark leaves out nothing but what landed behind
  it, none moves backward, no window is consumed twice, and everything else that arrives is
  evaluated.
- **Arrivals and graph**: checks and inserts are different statements, callers repeat themselves,
  edges come while a build runs. Right when a receipt is true, a device was observed, ids last for
  life and a build leaves a ring to every fan-out and to nothing else.
- **Rule control plane**: status and existence are read without a lock, an evaluation loads rules
  in two statements. Right when a version names one definition and what a decision recorded
  resolves to what it ran.
- **Simulation**: the real engine inside a transaction that must vanish. Right when what it said
  is what then happens.
- **Contract**: several statements per answer. Right when what is served belongs together.

`PROJECT.json` lists the hazards at the lines where they bite, with the properties that cover each.

## Modules

Every module has one variable per table, or per part of the process that outlives a step, and one
action per operation or per statement where the interleaving of statements matters. A definition
marked *Mutant* in its comment is not part of the model: it is how the definition after it could
be wrong, and is used to confirm that a property notices.

### AlertHygiene

`decisions` and `alerts` are sequences indexed by id, `executions`, `cardEvents` and
`caseOutcomes` sets. `alert_signals` is represented by `bar`, the decision whose signal pool the
rows are: a restatement deletes and rewrites the rows, so that is all there is to know about them.
The routing columns of `decisions` are written in the same step as the row, as the code corrects
its provisional value in the same transaction.

| Action | Code |
|---|---|
| `EvaluateNoAuthority`, `Restate`, `Fold`, `Suppress`, `Raise` | `write_batch`, the branches of `_route_alert`, each with `_write_routing` and `write_executions` |
| `WriteDisposition` | `write_disposition` behind `POST /cases/{id}/outcome` |
| `Settle` | `settle` with `_disposition` |

`OpenCases` and `SuppressingCases` are the two queries, `Folded` and `Restated` the two updates,
`Wanted` and `Issue` the executions. An evaluation is a choice of subject, authorised rules,
score, action, event time and trigger; only "no rule, no action but allow" is required of it,
which `precedence.decide` guarantees, so the properties do not lean on how it scored. A missing
routing row raises and the transaction is rolled back: such a step does not exist. The draw that
settles a challenge is a hash and may fall on any outcome under either label: it is a free choice.
The suppression query joins `case_outcomes`, whose duplicates do not change which case is newest.
`status` is left out: no code moves an alert from `open`.

### CaseService

The abstract specification of what the engine promises the people who work cases: evaluations,
cases with their evidence, what people were told of and which evaluations stepped the customer up,
and verdicts. It has no window, suppression flag, order of events or severity of actions: a case
is opened, absorbs what is no worse, escalates on what is worse, and is judged; an evaluation is
ignored only without authority or while an unjudged case on its subject stands. `AlertHygiene`
instantiates it with a refinement mapping (`CaseView`, `Evaluated`): `told` are the evaluations
whose routing has a notification, `stepUps` those with a preventive execution. `ImplementsCaseService`
is checked by TLC as a property and proved in `AlertHygieneProofs`.

### LaneRuns

`AlertHygiene` has the evaluations of one transaction one after the other, which is what a
transaction does inside. `LaneRuns` has several transactions at once. A run's batch is planned in
the order of its keys (`_SUBJECT_SQL`, `ORDER BY`), and its writes (`rows`, `written`) are its own
until `Commit`. `RouteToOpen` is `SELECT ... FOR UPDATE`: it goes on, or waits for the transaction
that has changed the row and then reads the row again (`Resume`); `RouteRaised` opens a case
nobody else can see before the commit; `Abort` is a failing statement, the victim that PostgreSQL
picks in a deadlock, or the death of the process. A settler reads undispositioned cases in one step,
writes its verdicts one by one in the order of `alert_id`, and commits. `known` is a history
variable: what was committed when a transaction began.

There are two kinds of row locks on a case. A run holds `FOR UPDATE` on the cases it raised,
restated or folded into (`DOMAIN run[r].rows`). `decisions.alert_id` and `case_outcomes.alert_id` are
foreign keys, so a suppressed decision and a verdict take `FOR KEY SHARE` on the case they name
(`shares`): `ShareCase` for a run, at the end of a `write_batch`, when `_write_routing` writes the
ids, and `WriteVerdict` for a settler. Shares do not exclude one another, and exclude `FOR UPDATE` in
both directions. `ChunkSize` is the number of evaluations one `write_batch` takes (`BATCH`), after
which a run goes on with the next ones and the shares it has. The keys of `alert_signals`,
`decision_conditions` and `action_executions` refer to rows the same transaction wrote or locked. Windows, authority and executions
are AlertHygiene's subject and are left out here: every event lies in one open window.

### Decisioning

State: the rules, their statuses, what the point-in-time read returns for each feature, and the
result of the latest evaluation. Actions: `Evaluate` (a read changes between two evaluations,
possibly going missing) and `SetStatus` (a rule is moved between statuses by `publish.py`). The
algorithms are operators with the code's names: `Satisfied`, `VetoState`, `PreventiveAuthority`
(`conditions.py`), `RuleScore` (`scoring.py`), `Buckets`, `Pool` (`consolidate.py`), `Authorised`,
`Chosen`, `Demoted`, `DecidedAction` (`precedence.py`), `DataCeiling`, `ShadowOutcome`
(`evaluation.py`), `ExposedBy` (`exposure.py`). As in the
code they are pure: `EvaluateRule` makes a record of one rule on one set of reads, what comes after
it takes a set of such records, and only `Evaluated` looks at the state.

A stored operator is the set of values it fires on. The statuses `stale` and `fanout_error` are
treated like `absent` by every line of the code and stand with it. One read serves every rule that
cites a feature: rules with different evaluation lags, which read at different bounds, are told
apart in `EntityReads`. A rule's lag matters here for the data ceiling of the decision
(`pit_bound_at`), the latest of the bounds of the live *and* shadow rules, and for the exposure, the
movements (`Flow`) of the window that ends there; both are counted from the event. The versions a
decision records are those of live and shadow rules too. Bands, texts and reason codes label the
result and are left out.

The properties are written over rules, reads and results directly: `PreventionEarned` does not
mention `Chosen` or `MayPrevent`, `ScoreExplained` quantifies over the raw claims, and the two
properties of shadow rules and the one of missing mitigators compare two evaluations.
`ShadowMovesTheCeilingOnly` says both halves of what a shadow rule does: the judgement stays as it
is, and the ceiling moves to the rule's own lag at most, and the exposure only by movements between
the two ceilings.

### EntityReads

From a subject to the numbers it is judged by. `ShortestRoute` is the breadth-first search over
`resolution_edges`, one edge at a time (`Popleft` is the head of the outer loop, `Look` the body of
the inner one), `graph` what `LoadGraph` keeps of it, `PlanRoute` the choice between subject and
trigger, `Hop` the batched query that follows one edge for every origin of a group, `Fanout` and
`Reduce` the policies, `Assemble` the reduction of several entities to one read, `PitBound` the
latest ceiling of the rules that were evaluated, `Moved` the movements behind the exposure: those of
the window behind the ceiling, or, for a transaction, its own amount whatever the ceiling.

| Action | Code |
|---|---|
| `Link`, `Move` | a row behind an edge appears or goes; a movement is recorded, possibly late |
| `Compute` | `run_feature`: a value is appended in an open transaction, stamped `clock_timestamp()` |
| `PlanEvaluations` | `plan_evaluations`: everything planned as of an instant is one batch |
| `HopBatch` | `_hop_batch`: one statement, the rows behind one edge as they are then |
| `ReadMany` | `read_many`: one statement, over what is committed and what the transaction computed |
| `ExposureFor` | `exposure_for`: one statement for each subject type of the batch |
| `Commit` | the transaction of the connection commits; values and decisions appear |

A connection works in a READ COMMITTED transaction, so others commit rows, values and movements
between any two of its statements. `decided_at` is the start of the transaction (`DEFAULT now()`),
`computed_at` the moment of the statement; a value is seen by others from the commit on. `began` and
`committed` of a value, and `read_at`, `walked`, `accounts` and `recorded` of a decision, record what
happened and have no columns. `clock` is of the two stamps only: event times are data of their own,
and a movement may be recorded before or after any evaluation, whenever it happened.

The references the properties compare with are independent: `Routes` enumerates all paths, `Walk`
follows one subject on its own. `RereadMovesWithOverlapsOnly` says when asking again at `decided_at`
returns what was read: unless the rows behind the edges have changed since, or a transaction that
computed features overlapped the evaluation, its own included. Left out: an evaluation that is rolled
back leaves nothing and is not a step; a request is evaluated once and one evaluation runs at a time,
since evaluations only read what others read (bounds); a second feature pass after a decision is
`FeatureReplay`'s; exposure is priced for every result, though the code asks it only for those with an
authorised rule. The operators and the specification have names of their own
(`ReadsSpec`), so that one module can prove things of both halves of an evaluation.

### FeatureReplay

The bitemporal store and the connections that append to it and read it in one transaction. One
feature of one card, the number of its approved charges, is represented by the set of charges a
value counts, so that a property can say which charge was seen. `now()` is the start of a
transaction, `clock_timestamp()` the current instant. `RunFeatures` is one pass, the second one
only for a declined charge (`authorize.py`, step 6); `Decide` reads and records; `Commit`
publishes; `Rollback` ends a what-if always and any other transaction possibly. Kinds of
transaction: `authorize`, `cycle` (under the advisory lock), `rescore` (a lane without the
runner), `what-if`.

### TriedCharge

Extends `FeatureReplay` by a history variable: for a charge that a what-if judged as an approved one,
the evidence it was judged on, kept until somebody commits a charge or a feature. The insert, the
feature pass, the read and the rollback of the what-if, and those of the authorisation that follows,
are `FeatureReplay`'s steps, and other connections run between any of them. `TriedChargeIsDecided`
says that the authorisation then judges on the same evidence. A charge may also be tried as a
declined one (`engine/simulate.py:292-295`); it is then not counted in its own evidence, while an
authorisation presumes approval (`ingest/authorize.py:139`): that what-if answers another question,
and nothing is claimed of it.

### IngestCycle

A transaction or an event stands for itself and the subjects it moves; a link is an account opened on
one device, and moves the cluster of that device (`Built`, `members`). State: `captured` (raw
capture), `marks` (`ingest_watermark`), `featured` and `decided` (what was computed and evaluated
since the row came), the advisory lock, and the open transactions of the tickers and of a hand-run
lane, whose fields are what they have read and will write. A tick is one READ COMMITTED transaction:
its statements `ReadFrontier`, `ReadMarks`, `RunGraph`, `RunFeatures`, `RunLane` each see what is
committed by then, and `Commit` publishes. `Fail` is an exception or the death of the process at any
of them.

| Action | Code |
|---|---|
| `Ingest`, `Authorize` | `arrivals.ingest`, `authorize`, with their commits |
| `TakeLock`, `Close` | `_take_lock`; closing the connection, which releases it |
| `ReadFrontier` ... `Commit` | `run_cycle` and `Scheduler.tick` or `POST /cycle` |
| `RescoreFrom`, `RescorePlan`, `RescoreCommit` | `rescore_population`, `scripts/run_cycle.py`, neither of which takes the lock |

Rows come with any event time: nothing in the code keeps them in order, and a row without an
`occurred_at` gets the pinned `reference_now()` (`ingest/records.py:176`, `config.py:64-70`). A window
is what lies after the watermark (`ingest/cycle.py:175`), so a row that lands at or behind what a
stream has consumed, or is consuming and has read, is in no later window of it. `late` is a history
variable with exactly these rows (`LandsBehind`), and the properties say that nothing else is left
out. A lane is given the rows of its window and the cluster, where `ReachesCluster`: its links are
evaluated when the lane never ran, when the cluster is of this tick, or when money moved through a
member; an account that joins a cluster is no reason (`affected_subjects`). `founders` is a history
variable: the links a cluster was first built of, which are evaluated with it.

The initial state is an empty database or the one that `scripts/reset_db.py` leaves: fixtures with
their graph and features, the marks of `graph` and `features` at the newest of them, no decision.
`byTick` counts how many committed ticks evaluated a row: it is a history variable. Rescoring may use
the later of the reference instant and the frontier (the endpoint) or any instant of `ByHand` (the
script). A row that `/authorize` decided is not taken out of the next window: the tick evaluates its
charge again (`ingest/cycle.py:29-31`), which is why `byTick` counts what ticks evaluated and not what
was decided at all. Left out: one cluster stands for all; a network without an inbound movement,
which `_SUBJECT_SQL` does not plan; and builds and feature passes by hand
(`scripts/run_features.py`): `GraphBuilder` has builds on their own.

**Fairness.** `Scheduler._loop` takes a tick, waits an interval and takes the next until the
process stops, and `tick` catches every exception: hence weak fairness of `TakeLock(Scheduler)`.
A transaction that was begun runs until it commits, raises or finds nothing to do: weak fairness
of each ticker's `Step`. Nothing is assumed of `POST /cycle` starting, of arrivals, of hand-run
lanes or of failures, which `MaxFailures` bounds: with ticks failing forever nothing is ever
evaluated. No other module states fairness: their properties are about what may never happen.

### Arrivals

A request of either door is one transaction whose steps are `CheckRow` (`prepare`, `key_exists`,
`natural_key_exists`, `ensure_device`'s lookup), `InsertRow` (the insert, which waits for an
uncommitted equal primary key and fails the request on a committed one) and `CommitRequest`. An
edge has no unique key, so two requests may both record it. A receipt speaks of transactions and of
edges alike. What is wrong with a row whatever the
tables hold is a set of `Fault`s it carries; references to devices are looked up in the model.

### GraphBuilder

Composes `Arrivals` with the builder. A build reads its candidates (`StartBuild`), writes one
cluster after the other by device id (`BuildCluster`, with `StableId`), takes the members from
those that no longer qualify and commits (`FinishBuild`), or fails (`AbandonBuild`). Edges are
committed between its statements. `began` is a history variable, the edges there were at the start
of the build: `CoverageIsFanout` compares the committed rings with those and not with what the build
keeps of its candidates. `WithdrawEdges` is a correction by hand while nothing runs: no
code deletes edges, and without it a device would never stop qualifying.

### ControlPlane

Administrators' requests in three steps: what is read first (`Author`, `Manage`, `TryOut`), what
`publish_rule` reads again (`Publish`), and the writes (`Write`, which takes the row lock, then
`Commit`, `CommitPurge` or `Rollback`). While the lock is held nobody else changes the rule, so
what was written is computed when it becomes visible. `PublishedRow` is `publish_rule_version`.
An evaluation loads conditions (`LoadConditions`), then rules (`LoadRules`), and writes which
version of each rule it ran (`Record`); the foreign key of `decision_conditions` makes that fail
when an edit has replaced a condition meanwhile (`RecordFails`). `DraftFaults` and
`ConditionFaults` are `validate_draft`, one field each.

### WhatIf

`simulate_candidate_rule` statement by statement, beside administrators, lane runs and arrivals that
commit at once. The engine is a parameter (`Engine`), because `simulate.py` runs the one that
`Decisioning` models and has none of its own; `MCWhatIf` gives a small one with accusations,
deductions and a veto. What is tried is a sample of at most `sample_cap` subjects (`Caps`), and the
diff that is published is cut at `diff_limit` (`Limits`, 0 included); which subjects the newest ones
are, and in which order movers are listed, is left open. `trusted` is a history variable: nothing the
answer rests on was changed by somebody else. `Lapses` forgets an answer when something did. A charge
that never happened is tried in `FeatureReplay` and `TriedCharge`.

### CaseReports

One reader that runs the statements of one answer, while the engine, the settler and analysts
commit between them: `alert.v1` with its signals and executions and the two documents built on it,
and the tiles that take two statements. Which case an evaluation is routed to is AlertHygiene's
subject: here it may be any case that exists.

## Runs

| Run | Shows | Bounds, and why they are enough |
|---|---|---|
| `HygieneCases` | `WorstViewShown`, `EvidenceCounted`: whatever the order of events, a case shows its worst evaluation with its signals and counts its evidence. | Three evaluations, two rule sets, two scores, three instants; subjects whose type suppresses, does not, and has no policy. Three decisions are the least that fold, restate and suppress one case in every order. |
| `HygieneHistory` | `OneCasePerSituation`, `OneStepUpPerCase`, `StepUpHistory`, `ImplementsCaseService`: one case per situation, one step-up per case, a card log that agrees with the executions, and the refinement of the abstract service. | Three evaluations in order over a window of one and an instant beyond it, two rule sets, challenges, verdicts and settlement any number of times between them. |
| `DecisionRules` | `PreventionEarned`, `ScoreExplained`, `MissingMitigatorNeverPrevents`, `ShadowMovesTheCeilingOnly`, `PromotionAsPreviewed`. | Every pair of rules of nine shapes (single, two groups by AND and OR, deducting, missing its line, vetoes that deduct, consume, exonerate on two features) in every status, over two features with two values and both ways to be missing, with lags that leave the ceiling and move it, past a movement and not. Two rules are the least that share a feature, demote, cap and shadow one another. |
| `CycleSafety` | `NothingSkipped`, `TickedOnceAfterFeatures`, and under fairness `ArrivalsEvaluated`: a watermark leaves out what landed behind it and nothing else, no window is consumed twice, a new ring is evaluated with it, and whatever is not late is evaluated. | Two tickers, a lane run by hand, one failure; an account of the fixtures, a second one on its device and a charge through the first, the two at one instant and in either order: the least with a ring that appears, a row that lands in the middle of a tick, and rows that land behind a mark and behind the pinned clock. |
| `ControlPlane` | `VersionNamesDefinition`, `RecordedResolves`, `ShadowFirst`. | Two administrators, one rule that a seed inserted or nobody yet, six drafts of which four are refused, two edits, one evaluation at a time: the least in which a request overlaps another and tears a load. |
| `LinkIngest` | `ReceiptsTrue`, `DevicesWereObserved`, `ClusterIdsKept`, `CoverageIsFanout`. | Two callers, four batches (a repeated charge, a refused row before a good one, two edges at once, an edge that makes the second ring), two devices and accounts, a threshold of one: two rings that compete for one id, and edges that are committed while a build runs. |
| `FeatureReplay` | `NoLookahead`, `PresumptionRepaired`, `ReplayFrozen`, `TriedChargeIsDecided`, under `TrialSpec` of `TriedCharge`. | Two connections, three charges of which two share an instant, seven instants: a pass, a decline and its second pass beside a whole cycle, and a what-if that is overtaken. |
| `LaneRuns` | `CaseSurvivesRaces`, `DuplicatesOnlyRaced`, `SettledTwiceOnlyRaced`, `CirclesNeedForeignKeys`. | Three transactions and two settlers, three keys of two subjects, a `write_batch` of one: three wait in a chain, a third starts after two have raced, a suppressed evaluation shares a case that another run has, and a settler and a run wait for each other. |
| `CaseReports` | `ServedExplainsItself`, `TilesHoldTogether`, `QueueLeftByPeopleOnly`. | Two decisions, two verdicts, two instants, a window of one: a case that is restated, and moves between windows, between two statements of a reader. |
| `WhatIf` | `TriedIsWhatRuns`, `ReportNarrows`, `DiffIsTheMove`. | Two rules, two subjects of which one is labelled fraud, three drafts, samples and diffs that are cut and that are whole: a candidate that replaces a rule, one that is new, and a veto on the other's case. |
| `EntityReads` | `RouteDetermined`, `NothingLaundered`, `OwnEntities`, `RereadMovesWithOverlapsOnly`, `ExposureOfAnInstant`. | Three tables of edges (ties by id, a direct edge, a chain beyond the depth limit), two connections, two charges and a ring, one member that comes and goes, two values of three that may be computed, a movement after every ceiling that may be recorded before or after any evaluation: transactions that overlap in either order, one that evaluates what it computed, and hops between which the ring changes. |
| `ClaimDuplicateEdge` | A violation: see below. | As `LinkIngest`. |

`CHECK_DEADLOCK FALSE` stands in the runs of `ControlPlane`, `FeatureReplay`, `LaneRuns`,
`CaseReports` and `EntityReads` only: their bounds on edits, instants, transactions and values
are used up, and the system is then at rest. Symmetry is used between interchangeable callers,
administrators, connections, transactions and charges at one instant, and in runs without
liveness only.

No run checks a type invariant: they are theorems, for every module but `EntityReads` and
`CaseService`. The shape of the tables of `EntityReads` is `Tables`, a part of its inductive
invariant in `EvaluationProofs`; `CaseService` is only ever a refinement target.

## Where the documents and the code disagree

`ClaimDuplicateEdge` checks one statement of a comment and ends in a counterexample.
`ingest/records.py:238-240` says that an edge recorded twice "is harmless to the ring", because the
builder counts distinct accounts. Only the query for candidates does: the insert into
`cluster_members` selects one row per edge, its primary key refuses the second, and every build
fails from then on. Two overlapping requests do record an edge twice.

### Remarks

The following were met while modelling and are stated here with their lines; the models contain
the behaviour.

*Routing and cases.*
`db/views/v_decision_routing.sql:13-20` expects zero rows, but a restatement re-points
`alerts.decision_id` (`engine/persist.py:268`), and the view then reports the decision that raised
the case. `persist.py:173-176` speaks of a bounded life, but an earlier event moves
`first_event_at`, the anchor of the window, back (`persist.py:243`), again and again.
`engine/execute.py:19-23` says of a restatement that the challenge already went out; the code tests
only that the routing is `raised` (`execute.py:107`), so a case raised by `alert` and restated by
`challenge` never sends one.

*Settlement.* A verdict looks up the passed challenge by the decision the case points at now
(`engine/outcomes.py:201`). A restatement has moved that pointer while the challenge stayed with
the decision that raised the case, so a customer who was challenged and passed is settled as
`false_positive`, which `outcomes.py:183-186` reserves for cases where nothing was done to the
customer. The settler dates a verdict from the first event plus up to two days, an analyst's row is
dated now: an analyst's correction of a recent case is the earlier row and does not speak for it
(`outcomes.py:188`, `db/views/v_kpi_cases.sql:36-40`).

*Decisions.* A veto is said to be established by exonerating evidence (`engine/conditions.py:167`);
the test is whether any fired condition has the feature of each exonerating one
(`conditions.py:192`), so an aggravating condition on the same feature establishes it. A veto is
indeterminate, and caps the action, when one exonerating read is missing although another has
already failed. A preventive action that is demoted becomes `allow` when the only other rule with
authority is an `allow` rule, and `alert` when there is no other (`engine/precedence.py`).

*Cycle.* `ingest/arrivals.py:5-6` says the next cycle evaluates what was ingested. A row whose event
time is at or below the watermark when it lands lies outside every later window
(`ingest/cycle.py:175`), and so does every row without an `occurred_at` once the marks are past the
pinned clock (`ingest/records.py:176`); an account that joins an existing ring is in no lane's work
until money moves through one of its members (`ingest/cycle.py:125-130`, `189-194`). A rescore of
the population reaches both. `ingest/watermark.py:45-46` calls a watermark the instant consumed up
to; a hand-run lane advances it to `reference_now()`, which may lie past the newest row
(`scripts/run_cycle.py:42`). Neither mark is the later one: `scripts/reset_db.py:61-77` leaves the
features ahead of the lanes, a lane run by hand goes ahead of the features.

*Locks.* `engine/persist.py` locks a case with `FOR UPDATE` and relies on the planner's order. A
settler holds the shares of the cases it has written verdicts for while it waits for one that a run
has locked, and that run may wait for one of the shares: the two wait for each other, and PostgreSQL
rolls one of them back. The run `LaneRuns` reaches such states; they leave nothing half done (`Abort`,
`AbortSettler`).

*Control plane.* `rules/publish.py:161-165` refuses an edit that would change the status; the
status is read without a lock and the update writes the draft's (`publish.py:147`), so an edit that
read `active` and commits after a retirement makes the rule active again, as a new version.

*Reads.* `engine/pit.py:12-15` says a replay at `decided_at` gets what the engine saw. `decided_at`
is the start of the transaction and `computed_at` the clock: what an authorisation or a cycle
computes and then decides on in one transaction is later than its `decided_at`, so the replay does
not see it (`features/runner.py:138`); and what another transaction had computed before `decided_at`
and committed after the read was not there to be read, but the replay finds it.
`RereadMovesWithOverlapsOnly` says that these are the only ways in which values move a re-read, and
`ReplayFrozen` that once such transactions have ended a replay no longer changes. The rows behind
resolution edges and `cluster_members` are read without a time ceiling, so a re-read and the exposure
of a ring follow later changes of membership. A shadow rule's evaluation lag enters `pit_bound_at`
(`engine/evaluation.py:268-270`), which is served (`contract/read.py:98`), and with it the exposure of
a decision it has no part in; `engine/persist.py:379-380` says that "a shadow rule that could move a
published number would not be in shadow". An entity without a value is dropped from a reduction, and
its sum or maximum is reported as present (`pit.py`, `_assemble`).

*Simulation and tiles.* Two conditions of a candidate that agree in group, feature, operator and thresholds are
counted as one row (`contract/simulation.py`, `_accumulate_conditions`). The basis of the
false-positive tile says that `inconclusive` is excluded from both sides (`contract/kpis.py:336-338`),
its query keeps it in the denominator. The false-negative tile counts a fraud that was folded into
a case as missed (`kpis.py`, `_FN_SQL`): `TilesHoldTogether` says how far that can go.

## Theorems

For every value of the constants, from the named assumptions of the modules (finite sets where a
maximum or a cardinality is taken, numbers where instants and scores are compared, a policy per
subject, rows and batches of their shape), and for behaviours of any length.

| Module | Theorem | Property |
|---|---|---|
| `AlertHygieneProofs` | `TypeCorrect` | `TypeOK` |
| | `RoutingCorrect` | `RoutingNamesItsCase` |
| | `WorstViewCorrect` | `WorstViewShown` |
| | `EvidenceCountCorrect` | `EvidenceCounted` |
| | `OneStepUpCorrect` | `OneStepUpPerCase` |
| | `SituationCorrect` | `OneCasePerSituation` |
| | `HistoryCorrect` | `StepUpHistory` |
| | `CasesWorsen` | `CasesOnlyWorsen` |
| | `CaseServiceImplemented` | `ImplementsCaseService` |
| `LaneRunsProofs` | `TypeCorrect` | `TypeOK` |
| | `CasesInOrder` | `CirclesNeedForeignKeys` |
| | `NothingLost` | `CaseSurvivesRaces` |
| | `RacesOnly` | `DuplicatesOnlyRaced` |
| | `VerdictsRace` | `SettledTwiceOnlyRaced` |
| `IngestCycleProofs` | `TypeCorrect` | `TypeOK` |
| | `MarksOnlyRise` | `MarksNeverBackward` |
| | `NoneSkipped` | `NothingSkipped` |
| | `NoneTwice` | `TickedOnceAfterFeatures` |
| `ControlPlaneProofs` | `TypeCorrect` | `TypeOK` |
| | `VersionsCorrect` | `VersionNamesDefinition` |
| | `RecordsResolve` | `RecordedResolves` |
| | `ShadowComesFirst` | `ShadowFirst` |
| `GraphBuilderProofs` | `TypeCorrect` | `TypeOK` of both modules |
| | `IdsKept` | `ClusterIdsKept` |
| | `CoverageCorrect` | `CoverageIsFanout` |
| | `ReceiptsCorrect` | `ReceiptsTrue` of Arrivals |
| | `DevicesCorrect` | `DevicesWereObserved` of Arrivals |
| `FeatureReplayProofs` | `TypeCorrect` | `TypeOK` |
| | `LookaheadFree` | `NoLookahead` |
| | `ReplaysFrozen` | `ReplayFrozen` |
| | `PresumptionCorrect` | `PresumptionRepaired` |
| `ConsoleProofs` | `TypeCorrect` | `TypeOK` of WhatIf |
| | `CandidateTrustworthy` | `TriedIsWhatRuns` |
| | `CountsNarrow` | `ReportNarrows` |
| | `DiffTrustworthy` | `DiffIsTheMove` |
| | `ReportsTypeCorrect` | `ReportsTypeOK` of CaseReports |
| | `ServedCorrect` | `ServedExplainsItself` |
| | `TilesCorrect` | `TilesHoldTogether` |
| | `QueueCorrect` | `QueueLeftByPeopleOnly` |
| `EvaluationProofs` | `TypeCorrect` | `TypeOK` of Decisioning |
| | `PreventionIsEarned` | `PreventionEarned` |
| | `EngineKeepsAssumption` | `EngineGrounded`: WhatIf's `EngineAssumption` |
| | `ScoreIsExplained` | `ScoreExplained` |
| | `ShadowJudgesNothing` | `ShadowMovesTheCeilingOnly` |
| | `PreviewIsKept` | `PromotionAsPreviewed` |
| | `MissingEvidenceStopsNobody` | `MissingMitigatorNeverPrevents` |
| | `RoutesDetermined` | `RouteDetermined` |
| | `OwnEntitiesOnly` | `OwnEntities` |
| | `HonestReads` | `NothingLaundered` |
| | `RereadsCorrect` | `RereadMovesWithOverlapsOnly` |
| | `ExposureFixed` | `ExposureOfAnInstant` |

**AlertHygiene.** The invariant is built in layers, each kept by every step that starts in the
layers below. `TypeOK` is inductive by itself: ids are positions, and a row is rewritten in place.
With it, `RoutingNamesItsCase` is inductive: the two queries select cases of the evaluation's own
subject and rules, and no update touches those two columns. It says that the decisions routed to a
case name a case that exists, so a fresh case starts with no evidence but the decision that raised
it. On these two rest `WorstViewShown` (a restatement puts a decision on the bar that is worse than
all before it, a fold leaves the bar alone and adds one that is not), `EvidenceCounted` (one step
adds one member to the evidence of one case, a finite set) and `OneStepUpPerCase` (only a raise
issues a preventive action, and a raise opens a new id). `CasesOnlyWorsen` follows from `TypeOK`.
`OneCasePerSituation` needs `EvidenceCounted` and `RoutingNamesItsCase`: a case starts at the event
of a decision routed to it, so with events in order no event precedes the start of a case, a fold
leaves that start alone, and a window is left only past its end. `StepUpHistory` is inductive with
`LoggedOfTaken`, which says that the log speaks only of decisions that were taken: the events a new
decision appends are then all the log has of it.

**The refinement.** `Sound` is the part of those invariants the mapping needs: with it every fold
maps to `Absorb`, every restatement to `Escalate`, every raise to `Open`, a suppression or an
evaluation without authority to `Ignore`, a verdict to `Judge`, a settlement to the abstract one.
`Init` maps to `Init`, and a stutter to a stutter.

**LaneRuns.** `LockInv`: no row is changed by two open transactions (`Exclusive`), and what a
transaction has changed lies before what is left of its plan (`InOrder`). `CasesInOrder` is the usual
argument by order, for the locks that are taken in one: of the runs of a circle take the one that
waits for the greatest key; the holder of that row is past it and waits for nothing greater. So a
circle has a wait for a share in it, or a run that waits to write a foreign key. `CountInv` accounts for every row, own
or committed: its count is that of the committed and own decisions routed to it, its score their
maximum. `RaceInv` and `SettleInv` say of an open transaction that what it knew when it began had
no case for the key it raises, and no verdict for the case it settles.

**IngestCycle.** Nothing is assumed of the times rows carry. `TypeInv` adds to `TypeOK` that a newest
row exists, so that the frontier is the time of a row, and that what a transaction has pending is of
captured rows. `NothingSkipped` says nothing of transactions in flight and is not inductive; `SoundInv`
accounts for them. `Accounts`: the marks a tick read are not above those there are; once it has run a
stage, every row up to its instant that did not land behind that stream is done or pending, because
`LandsBehind` counts a row late from the moment the stage's statement has been executed; and the links
of a fresh cluster are pending in the lanes it has run. `RescoreAccounts` is the same of a hand-run
lane. `TickedOnceAfterFeatures` needs in addition `LockHeld`, by which one tick is in progress, and
`OnceInv`: the rows that ticks have evaluated stay behind the marks the one tick in progress has read,
while what it has pending lies after them.

**ControlPlane.** `CoreInv` is the shape of requests with the lock: one request at a time holds a
rule, and what the database found when it granted the lock is so until the request ends. From it
`VersionNamesDefinition` is inductive. `AdminInv` adds that an authored rule was validated and was
born in shadow; `LoadInv` says of what an evaluation has read so far that keys name condition sets
for good and that the rows it has resolve, for as long as their conditions are those stored: that
is what lets the foreign key alone rule out torn loads. `RecordedResolves` and `ShadowFirst` follow
for what is recorded, because snapshots are never removed.

**GraphBuilder.** `IdInv`: the table a build works on has every id the committed one has, and no id
twice. A new number is free because there are more numbers than devices (`FreeNumber`), by
counting. `CoverInv`: the devices left to write and those written are together the ones that were fan-outs when
the build began (`WasFanout`), and the clusters written have an id, all the accounts their device had
then and none it does not have now, because edges only come while a build runs.
For the requests, `ReceiptInv`: a request has accounted for the rows before the one it is at, and
the keys of its uncommitted transactions are neither committed nor held by another open request,
because an insert waits for an uncommitted equal key and fails on a committed one. `EdgeInv`: every
edge a request has reported is recorded, or is among its own inserts until it commits (`HasEdge`).
`DeviceInv`: a device registered by an open request has a transaction of that request behind it, and
the edges it has inserted lead from devices it can see, which no step removes.

**FeatureReplay.** `StoreInv`: a row counts only charges up to its instant, was computed after the
start of the transaction that wrote it, and every decision is bounded by its ceiling. A replay is
frozen because what commits later was computed later than any `decided_at` it could answer.
`PresumptionInv` adds that the charge of an open authorisation is nobody else's and not committed,
that its first pass counts it beside approved charges only, and that its second pass supersedes
those rows. A row carries the instant of a recorded charge, so the rows an authorisation wrote
itself are the newest of their instant, which is why its decision saw its charge.

**WhatIf.** `Faithful`: as long as the answer is trusted, the rules and statuses a what-if carries
are the committed ones with the draft put in place as active, and what it collected is the engine's
answer under them. The engine is a constant operator about which only `EngineAssumption` is known.
`ReportInv`: what it collected narrows, because the engine's answer does, so the counts of a report
are cardinalities of nested finite subsets of the sample; what is stored for a subject is a score and
an action and nothing else, so two that differ moved in one of the two, and a list of movers that is
as long as there are movers is all of them.

**CaseReports.** `ReportsInv` has three parts. `Tables` is the shape of the rows; `Linked` says that a
case shows the decision its bar was written for, with its score, that a folded decision is no louder
than its case, and that an execution stands beside the decision that issued it, alone; `Holds`
accounts for the reader between two of its statements. What a reader found first is never taken
back: a step of the others only adds rows, or re-points a case at a decision with a higher score
(`Grown`), so what the second statement finds contains what belongs to the first. The preventive
executions of a window go one to one into its decisions, which bounds the rate. The queue is left
only by the row of an analyst, because no row of the settler is one and no row goes away.

**Decisioning.** The result is a function of the state (`UpToDate`: it is the evaluation of the
rules, statuses and reads it is found with), so the properties of one state follow from the
operators and those of two from comparing two evaluations. The operators need existence: a rule
with authority that outranks all others (`ChosenOutranks`, a least element of a finite set of gaps
and ids), and exactly one winner in every bucket of claims (`WinnerExists`, `WinnerUnique`). Scores
are sums that the library folds in an order nobody chose: `SumTakeOut` shows by induction on the
cardinality that the order is immaterial, and `SumWithout` that leaving out negative terms never
lowers a sum. So a rule with authority keeps it when a mitigator is lost (`ScoreWithout`), and a
rule that may still prevent afterwards does not cite what was lost: it was the chosen one before
(`PreventiveAlready`). `EngineKeepsAssumption` shows of Decisioning what `WhatIf` assumes of its
engine.

**EntityReads.** `ReadsInv` has three parts. `Tables`: a value was begun, computed and committed in
this order, and no later than now. `Sound(s)` is what the transaction of a connection holds between two
of its statements, and `KeptNow(q)` what is kept of a stored decision. Both rest on `Seen`: what was
read is what the walks give with the values of some moment (`Told`), each subject on its own (`OwnWalk`,
by induction over the hops, and `ReadsAlone`); and unless a transaction that computed features crossed
the evaluation (`Crossed`), it is what the values give that were committed before the evaluation began
(`CommittedBefore`). `SeenKept` is why that lasts: a value that commits later was either begun before
the read, and crosses, or after it, and is stamped after `decided_at`. `RereadsCorrect` follows: where
nothing crossed, a value stamped by `decided_at` is one that was committed before it. `Paid` says of a
price that it is the sum over the movements recorded when it was asked, for the accounts there were;
movements past every ceiling add nothing to it, and a transaction's own has its time. Each action has a
lemma that it keeps the first two parts (`ComputeSteady`, `PlanSteady`, `HopSteady`, `ReadSteady`, ...).
`HonestReads` follows from `Told`, because only `ok` resolutions are assembled and a reduction is made of
values that are neither null nor stale.
`RoutesDetermined` is the correctness of the search. `BreadthFirst` relates a state of it to the
path under which each type was first found: that path is the least one to its type in the order
`Before`, by length and then by edge ids; the queue is in that order; and whatever lies behind its
head has been explored. `PopleftKeeps` and `LookKeeps` are its two steps, `LookFinds` the last one.
`Measure`, the edges still open, the types unseen and the entries queued, falls with every step
(`Popleft` drops an entry, `Look` closes an edge and queues only what was unseen), so `Steps` are
enough and a search that ended without a route has explored all there is within the depth limit.

**Only model-checked.** The liveness property `ArrivalsEvaluated` under fairness, which is out of the
prover's reach, `TriedChargeIsDecided`, which compares two transactions over a history, and the claim
that `ClaimDuplicateEdge` refutes. Every other property of a run is
stated by a theorem above.

## Not modelled

- The SQL compiler of features (`features/compiler.py`, `aggregations.py`, `predicate.py`): what a
  feature's definition computes. One count stands for all features.
- The SQL that selects the subjects of a lane (`engine/evaluation.py`) beyond its order, and the
  texts, labels and bands that describe a result.
- Tiles that are one statement each, authentication, serialisation, catalogue lists, the console:
  reads and presentation.
- Synthetic data and set-up scripts: they run before the system does.
- Loss of committed data: PostgreSQL is taken at its word, at READ COMMITTED.

## What could come next

1. Composition of `IngestCycle` with `AlertHygiene`: what a re-evaluation may do to a case.
2. Rules with several features in `FeatureReplay`, each with its own trigger and window.
