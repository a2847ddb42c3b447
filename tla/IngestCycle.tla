---------------------------- MODULE IngestCycle ----------------------------
(***************************************************************************)
(* How far the background cycle has consumed what arrives.  Rows reach raw *)
(* capture through ingestion or through an authorization, the scheduler    *)
(* and POST /cycle take ticks over them (ingest/cycle.py, scheduler.py),   *)
(* and a hand-run lane or POST /cycle/rescore re-scores the population and *)
(* moves the same watermarks (scripts/run_cycle.py, routes_ingest.py).     *)
(*                                                                         *)
(* A transaction or an event stands for itself and for the subjects it     *)
(* moves; a link is an account opened on one device, and moves the cluster *)
(* of that device (graph/builder.py; GraphBuilder has the builds of many). *)
(* Rows come with any event time: the newest on record, an older one, or   *)
(* the pinned reference_now() (records.py).  A tick is one READ COMMITTED  *)
(* transaction: each of its statements sees what is committed by then, and *)
(* what it writes is seen when it commits.                                 *)
(***************************************************************************)
EXTENDS Integers, FiniteSets, FiniteSetsExt

CONSTANTS
  Row,           \* rows that may be captured
  Seed,          \* those of the fixtures, whose features reset_db computed
  At,            \* their event time, occurred_at or first_seen
  Charge,        \* those that may also arrive through /authorize
  Link,          \* those of entity_links
  Through,       \* the links to the account that a transaction moves
  Fanout,        \* DEVICE_FANOUT_MIN_ACCOUNTS
  Ticker,        \* who takes ticks: the scheduler's thread, POST /cycle
  Scheduler,     \* the one of them that loops
  NoTicker,      \* nobody holds the advisory lock
  Reference,     \* config.reference_now(), to which the fixtures are pinned
  ByHand,        \* the instants at which run_cycle.py runs a lane
  MaxFailures    \* bound on the ticks that raise

ASSUME RowAssumption ==
  /\ IsFiniteSet(Row) /\ Seed \subseteq Row
  /\ Link \subseteq Row /\ Charge \subseteq Row \ Link
ASSUME AtAssumption        == At \in [Row -> Nat \ {0}]
ASSUME ThroughAssumption   == Through \in [Row -> SUBSET Link]
ASSUME FanoutAssumption    == Fanout \in Nat
ASSUME TickerAssumption    == Scheduler \in Ticker /\ NoTicker \notin Ticker
ASSUME ReferenceAssumption ==
  /\ Reference \in Nat /\ ByHand \subseteq Nat
  /\ \A r \in Seed : At[r] <= Reference
ASSUME FailureAssumption   == MaxFailures \in Nat

Lane   == {"inline_sync", "async"}
Stream == {"graph", "features"} \cup Lane
Never  == 0     \* watermark_at IS NULL, and an empty frontier

VARIABLES
  captured,      \* committed rows of raw capture
  marks,         \* ingest_watermark
  featured,      \* rows whose features are computed
  decided,       \* by lane, rows whose subjects were evaluated after they came
  byTick,        \* by lane and row, how many committed ticks evaluated it
  members,       \* links in cluster_members; {} before there is a cluster
  founders,      \* history: those the cluster was first built of
  late,          \* history: by stream, rows that landed behind it
  lock,          \* holder of the advisory lock CYCLE_LOCK
  tick,          \* the transactions of the tickers
  rescore,       \* the transaction of a lane run over the population
  failures       \* ticks that raised so far

cluster == <<members, founders>>
vars == <<captured, marks, featured, decided, byTick, cluster, late, lock, tick,
          rescore, failures>>

NoTick    == [pc |-> "idle", asOf |-> Never, since |-> [s \in Stream |-> Never],
              built |-> {}, featured |-> {}, decided |-> [l \in Lane |-> {}]]
NoRescore == [pc |-> "idle", lane |-> "async", asOf |-> Never, plan |-> {}]

Later(s, t) == IF s <= t THEN t ELSE s

(* The newest of some rows.                                                *)
Newest(rows) == IF rows = {} THEN Never ELSE Max({At[r] : r \in rows})

(* watermark.frontier: the newest event on record.                         *)
Frontier == Newest(captured)

(* builder.build: the cluster's members from the links, if it has enough.  *)
Built(links) == IF Cardinality(links) > Fanout THEN links ELSE {}

----------------------------------------------------------------------------
(* Arrivals.                                                               *)

(* The stages of a tick after that of a stream.                            *)
Past(s) ==
  CASE s = "graph"       -> {"features", "inline_sync", "async", "commit"}
    [] s = "features"    -> {"inline_sync", "async", "commit"}
    [] s = "inline_sync" -> {"async", "commit"}
    [] s = "async"       -> {"commit"}

(* r comes at or before what s has consumed, or is consuming and has read. *)
LandsBehind(r, s) ==
  \/ At[r] <= marks[s]
  \/ \E t \in Ticker : tick[t].pc \in Past(s) /\ At[r] <= tick[t].asOf
  \/ rescore.pc = "commit" /\ rescore.lane = s /\ At[r] <= rescore.asOf

(* insert_row, and the commit.                                             *)
Land(r) ==
  /\ r \notin captured
  /\ captured' = captured \cup {r}
  /\ late' = [s \in Stream |-> IF LandsBehind(r, s) THEN late[s] \cup {r} ELSE late[s]]

(* arrivals.ingest and its commit; a row sent twice is dropped.            *)
Ingest(r) ==
  /\ Land(r)
  /\ UNCHANGED <<marks, featured, decided, byTick, cluster, lock, tick, rescore, failures>>

(* authorize and its commit: the row, its feature pass and its inline      *)
(* decision, all or none.  No watermark moves.                             *)
Authorize(r) ==
  /\ Land(r)
  /\ featured' = featured \cup {r}
  /\ decided' = [decided EXCEPT !["inline_sync"] = @ \cup {r}]
  /\ UNCHANGED <<marks, byTick, cluster, lock, tick, rescore, failures>>

----------------------------------------------------------------------------
(* One tick: run_cycle, and the commit or rollback of its caller.          *)

AtStep(t, pc) == tick[t].pc = pc

(* Mutant: nothing keeps two ticks apart.                                  *)
TakeLockAnyway(t) ==
  /\ AtStep(t, "idle")
  /\ lock' = t
  /\ tick' = [tick EXCEPT ![t].pc = "frontier"]
  /\ UNCHANGED <<captured, marks, featured, decided, byTick, cluster, late, rescore,
                 failures>>

(* pg_try_advisory_lock: a tick that finds it held does nothing.           *)
TakeLock(t) ==
  /\ AtStep(t, "idle")
  /\ lock = NoTicker
  /\ lock' = t
  /\ tick' = [tick EXCEPT ![t].pc = "frontier"]
  /\ UNCHANGED <<captured, marks, featured, decided, byTick, cluster, late, rescore,
                 failures>>

(* The connection is closed: the lock goes, and so does what is not yet    *)
(* committed.                                                              *)
Close(t) ==
  /\ tick' = [tick EXCEPT ![t] = NoTick]
  /\ lock' = NoTicker

ReadFrontier(t) ==
  /\ AtStep(t, "frontier")
  /\ IF captured = {} THEN Close(t)
     ELSE /\ tick' = [tick EXCEPT ![t].pc = "marks", ![t].asOf = Frontier]
          /\ UNCHANGED lock
  /\ UNCHANGED <<captured, marks, featured, decided, byTick, cluster, late, rescore,
                 failures>>

(* With every stream at the frontier the tick ends here.                   *)
ReadMarks(t) ==
  /\ AtStep(t, "marks")
  /\ IF \A s \in Stream : marks[s] >= tick[t].asOf THEN Close(t)
     ELSE /\ tick' = [tick EXCEPT ![t].pc = "graph", ![t].since = marks]
          /\ UNCHANGED lock
  /\ UNCHANGED <<captured, marks, featured, decided, byTick, cluster, late, rescore,
                 failures>>

(* build_graph: from every link that is committed, whatever its time.      *)
RunGraph(t) ==
  /\ AtStep(t, "graph")
  /\ tick' = [tick EXCEPT ![t].pc = "features", ![t].built = Built(captured \cap Link)]
  /\ UNCHANGED <<captured, marks, featured, decided, byTick, cluster, late, lock,
                 rescore, failures>>

(* Mutant: rows at the upper end of the window left for the next tick.     *)
WindowHalfOpen(t, s) ==
  {r \in captured : tick[t].since[s] < At[r] /\ At[r] < tick[t].asOf}

(* Mutant: charges left out of the inline lane, as if each had been        *)
(* authorized.                                                             *)
WindowWithoutCharges(t, s) ==
  {r \in captured : /\ tick[t].since[s] < At[r] /\ At[r] <= tick[t].asOf
                    /\ s = "inline_sync" => r \notin Charge}

(* Rows of (since, as_of], all of them up to as_of if the stream never ran.*)
Window(t, s) ==
  {r \in captured : tick[t].since[s] < At[r] /\ At[r] <= tick[t].asOf}

(* extra: the cluster is of this tick.                                     *)
Fresh(t) == members = {} /\ tick[t].built # {}

(* Mutant: a new cluster waits for a movement of its own.                  *)
ReachesIfMoved(t, l) ==
  \/ tick[t].since[l] = Never
  \/ \E r \in Window(t, l) : Through[r] \cap tick[t].built # {}

(* The lane is given the cluster: with the whole population, as a new one, *)
(* or because money moved through a member.  An arriving link is none.     *)
ReachesCluster(t, l) ==
  \/ tick[t].since[l] = Never
  \/ Fresh(t)
  \/ \E r \in Window(t, l) : Through[r] \cap tick[t].built # {}

(* affected_subjects: the rows whose subjects the lane is given.           *)
Affected(t, l) ==
  (Window(t, l) \ Link) \cup
    {r \in tick[t].built : At[r] <= tick[t].asOf /\ ReachesCluster(t, l)}

RunFeatures(t) ==
  /\ AtStep(t, "features")
  /\ tick' = [tick EXCEPT ![t].pc = "inline_sync", ![t].featured = Window(t, "features")]
  /\ UNCHANGED <<captured, marks, featured, decided, byTick, cluster, late, lock,
                 rescore, failures>>

(* run_lane over them, up to as_of.                                        *)
RunLane(t, l) ==
  /\ AtStep(t, l)
  /\ tick' = [tick EXCEPT ![t].pc = IF l = "inline_sync" THEN "async" ELSE "commit",
                          ![t].decided[l] = Affected(t, l)]
  /\ UNCHANGED <<captured, marks, featured, decided, byTick, cluster, late, lock,
                 rescore, failures>>

(* watermark.advance: never backward.                                      *)
Advanced(mark, to) == Later(mark, to)

Commit(t) ==
  /\ AtStep(t, "commit")
  /\ marks' = [s \in Stream |-> Advanced(marks[s], tick[t].asOf)]
  /\ featured' = featured \cup tick[t].featured
  /\ decided' = [l \in Lane |-> decided[l] \cup tick[t].decided[l]]
  /\ byTick' = [l \in Lane |-> [r \in Row |->
       IF r \in tick[t].decided[l] THEN byTick[l][r] + 1 ELSE byTick[l][r]]]
  /\ members' = tick[t].built
  /\ founders' = IF Fresh(t) THEN {r \in tick[t].built : At[r] <= tick[t].asOf} ELSE founders
  /\ Close(t)
  /\ UNCHANGED <<captured, late, rescore, failures>>

(* A statement raises or the process dies: nothing was committed.          *)
Fail(t) ==
  /\ tick[t].pc # "idle"
  /\ failures < MaxFailures
  /\ failures' = failures + 1
  /\ Close(t)
  /\ UNCHANGED <<captured, marks, featured, decided, byTick, cluster, late, rescore>>

----------------------------------------------------------------------------
(* A lane run over its whole population, by rescore_population or by       *)
(* scripts/run_cycle.py.  It takes no lock and runs no feature pass.       *)

RescoreFrom(l) ==
  /\ rescore.pc = "idle"
  /\ \E asOf \in {Later(Reference, Frontier)} \cup ByHand :
       rescore' = [NoRescore EXCEPT !.pc = "plan", !.lane = l, !.asOf = asOf]
  /\ UNCHANGED <<captured, marks, featured, decided, byTick, cluster, late, lock, tick,
                 failures>>

RescorePlan ==
  /\ rescore.pc = "plan"
  /\ rescore' = [rescore EXCEPT !.pc = "commit",
       !.plan = {r \in (captured \ Link) \cup members : At[r] <= rescore.asOf}]
  /\ UNCHANGED <<captured, marks, featured, decided, byTick, cluster, late, lock, tick,
                 failures>>

RescoreCommit ==
  /\ rescore.pc = "commit"
  /\ marks' = [marks EXCEPT ![rescore.lane] = Advanced(@, rescore.asOf)]
  /\ decided' = [decided EXCEPT ![rescore.lane] = @ \cup rescore.plan]
  /\ rescore' = NoRescore
  /\ UNCHANGED <<captured, featured, byTick, cluster, late, lock, tick, failures>>

----------------------------------------------------------------------------
(* An empty database, or the one that reset_db leaves: the graph and the   *)
(* features of the fixtures, and no decision.                              *)
Init ==
  /\ captured = Seed
  /\ marks = [s \in Stream |-> IF s \in Lane THEN Never ELSE Newest(Seed)]
  /\ featured = Seed
  /\ members = Built(Seed \cap Link)
  /\ founders = {}
  /\ late = [s \in Stream |-> {}]
  /\ decided = [l \in Lane |-> {}]
  /\ byTick = [l \in Lane |-> [r \in Row |-> 0]]
  /\ lock = NoTicker
  /\ tick = [t \in Ticker |-> NoTick]
  /\ rescore = NoRescore
  /\ failures = 0

Step(t) ==
  \/ ReadFrontier(t) \/ ReadMarks(t) \/ RunGraph(t) \/ RunFeatures(t)
  \/ \E l \in Lane : RunLane(t, l)
  \/ Commit(t)

Next ==
  \/ \E r \in Row : Ingest(r)
  \/ \E r \in Charge : Authorize(r)
  \/ \E t \in Ticker : TakeLock(t) \/ Step(t) \/ Fail(t)
  \/ \E l \in Lane : RescoreFrom(l)
  \/ RescorePlan
  \/ RescoreCommit

Spec == Init /\ [][Next]_vars

(* The scheduler's loop keeps taking ticks, and a tick that was begun goes *)
(* on until it commits, fails or finds nothing to do.                      *)
Fairness == WF_vars(TakeLock(Scheduler)) /\ \A t \in Ticker : WF_vars(Step(t))

FairSpec == Spec /\ Fairness

----------------------------------------------------------------------------
(* Invariants.                                                             *)

Tick == [pc : {"idle", "frontier", "marks", "commit"} \cup Stream,
         asOf : Nat, since : [Stream -> Nat], built : SUBSET Link,
         featured : SUBSET Row, decided : [Lane -> SUBSET Row]]

(* Marks, rows and the ticks under way have their shape.                   *)
TypeOK ==
  /\ captured \subseteq Row
  /\ marks \in [Stream -> Nat]
  /\ featured \subseteq captured
  /\ decided \in [Lane -> SUBSET captured]
  /\ byTick \in [Lane -> [Row -> Nat]]
  /\ members \subseteq captured \cap Link /\ founders \subseteq captured
  /\ late \in [Stream -> SUBSET captured]
  /\ lock \in Ticker \cup {NoTicker}
  /\ tick \in [Ticker -> Tick]
  /\ rescore \in [pc : {"idle", "plan", "commit"}, lane : Lane, asOf : Nat,
                  plan : SUBSET Row]
  /\ failures \in 0..MaxFailures

(* Only a row that landed behind a stream is ever left out by it: every    *)
(* other row at or below a watermark has its features, and is evaluated in *)
(* the lane unless it is a link, whatever ticks died, and whoever ran      *)
(* lanes by hand (watermark.read, run_cycle).  The links a cluster was     *)
(* first built of are evaluated with it, in both lanes (affected_subjects).*)
NothingSkipped ==
  /\ \A r \in captured \ late["features"] : At[r] <= marks["features"] => r \in featured
  /\ \A l \in Lane : \A r \in captured \ (late[l] \cup Link) :
       At[r] <= marks[l] => r \in decided[l]
  /\ \A l \in Lane : founders \subseteq decided[l]

(* A tick evaluates a transaction or an event at most once in each lane,   *)
(* and before its features only if it landed behind them: failed ticks     *)
(* left nothing behind, and two tickers did not consume the same window    *)
(* (_take_lock).                                                           *)
TickedOnceAfterFeatures ==
  \A l \in Lane, r \in Row \ Link :
    /\ byTick[l][r] <= 1
    /\ byTick[l][r] = 1 => r \in featured \cup late["features"]

----------------------------------------------------------------------------
(* Action and liveness properties.                                         *)

(* No watermark moves backward, whatever instants a live tick and a run by *)
(* hand bring to it (watermark.advance).                                   *)
MarksNeverBackward == [][\A s \in Stream : marks'[s] >= marks[s]]_vars

(* Every transaction or event that arrives is evaluated in both lanes,     *)
(* unless it landed behind the lane, though ticks fail and find one        *)
(* another running (scheduler._loop, arrivals.py).                         *)
ArrivalsEvaluated ==
  \A r \in Row \ Link : \A l \in Lane :
    r \in captured ~> r \in decided[l] \cup late[l]

============================================================================
