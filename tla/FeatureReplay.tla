--------------------------- MODULE FeatureReplay ---------------------------
(***************************************************************************)
(* The bitemporal feature store: the incremental runner that appends to it *)
(* (features/runner.py), the point-in-time read (engine/pit.py), and the   *)
(* connections that do both in one transaction: an authorisation           *)
(* (ingest/authorize.py), a cycle, a lane run by hand, and a what-if that  *)
(* is rolled back (engine/simulate.py).                                    *)
(*                                                                         *)
(* One feature of one card, the number of its approved charges, is enough: *)
(* a value is represented by the set of charges that it counts.  now() is  *)
(* the start of a transaction and clock_timestamp() the current instant.   *)
(***************************************************************************)
EXTENDS Integers, FiniteSets

CONSTANTS
  Charge,      \* the charges of the card
  At,          \* their occurred_at
  Session,     \* database connections
  Lag,         \* rule.evaluation_lag of the rules that the cycle evaluates
  MaxClock,    \* bound: instants that are told apart
  NoCharge     \* the charge of a session that brings none

ASSUME AtAssumption == At \in [Charge -> Nat \ {0}]
ASSUME ClockAssumption == MaxClock \in Nat /\ Lag \in Nat
ASSUME NoChargeAssumption == NoCharge \notin Charge

VARIABLES
  transactions,    \* auth_result of the committed charges, or "none"
  feature_values,  \* the committed rows of the store
  decisions,       \* the committed decisions and what each of them read
  watermark,       \* ingest_watermark of the cycle, in event time
  session,         \* the transaction of each connection, or idle
  clock

vars == <<transactions, feature_values, decisions, watermark, session, clock>>

----------------------------------------------------------------------------
AuthResult == {"none", "approved", "declined"}
Kind == {"authorize", "what-if", "cycle", "rescore"}

Value == [as_of : Nat, computed_at : Nat, counted : SUBSET Charge]

(* decided_at is DEFAULT now().  read has the row that was found, if any.  *)
Decision ==
  [charge : Charge, kind : Kind, bound : Nat, decided_at : Nat,
   read : SUBSET Value]

Idle == [kind |-> "idle"]

Transaction ==
  [kind : Kind, charge : Charge \cup {NoCharge}, result : AuthResult,
   started : Nat, phase : {"begun", "computed", "decided", "recomputed"},
   frontier : Nat, values : SUBSET Value, decisions : SUBSET Decision]

(* Stored values, decisions and open transactions have their shape.        *)
TypeOK ==
  /\ transactions \in [Charge -> AuthResult]
  /\ feature_values \subseteq Value
  /\ decisions \subseteq Decision
  /\ watermark \in Nat
  /\ session \in [Session -> Transaction \cup {Idle}]
  /\ clock \in 0 .. MaxClock

Running(s) == session[s] # Idle

(* READ COMMITTED: what is committed, and what the session wrote.          *)
ResultOf(s, c) == IF c = session[s].charge THEN session[s].result ELSE transactions[c]
ValuesOf(s)    == feature_values \cup session[s].values

(* The reducer counts the approved charges up to the instant.              *)
Counted(s, instant) == {c \in Charge : ResultOf(s, c) = "approved" /\ At[c] <= instant}

(* run_feature appends one row for each instant of its work list.          *)
Computed(s, instants) ==
  {[as_of |-> t, computed_at |-> clock + 1, counted |-> Counted(s, t)] : t \in instants}

(* Mutant: ON CONFLICT ... DO UPDATE on what the store has for an instant. *)
UpsertedValues(old, new) ==
  {v \in old : \A w \in new : w.as_of # v.as_of} \cup new

AppendedValues(old, new) == old \cup new

(* _LOOKUP: ORDER BY as_of DESC, computed_at DESC LIMIT 1 under both       *)
(* ceilings.                                                               *)
Before(v, w) == v.as_of < w.as_of \/ (v.as_of = w.as_of /\ v.computed_at <= w.computed_at)

Eligible(rows, bound, ceiling) ==
  {v \in rows : v.as_of <= bound /\ v.computed_at <= ceiling}

Lookup(rows, bound, ceiling) ==
  LET found == Eligible(rows, bound, ceiling) IN
  {v \in found : \A w \in found : Before(w, v)}

(* Mutant: the bound follows the moment of the decision.                   *)
BoundFromClock(c, lag) == clock

(* bound_for: never decided_at.                                            *)
BoundFor(c, lag) == At[c] + lag

----------------------------------------------------------------------------
Tick == clock' = clock + 1

Transact(s, kind, charge, result, frontier) ==
  /\ ~Running(s)
  /\ clock < MaxClock
  /\ session' = [session EXCEPT ![s] =
       [kind |-> kind, charge |-> charge, result |-> result,
        started |-> clock + 1, phase |-> "begun", frontier |-> frontier,
        values |-> {}, decisions |-> {}]]
  /\ Tick
  /\ UNCHANGED <<transactions, feature_values, decisions, watermark>>

(* A charge that asks to be approved is inserted as approved, one that     *)
(* nobody made as its draft says; a txn_id arrives once.                   *)
Arrive(s, kind, c, result) ==
  /\ kind = "what-if" \/ (kind = "authorize" /\ result = "approved")
  /\ transactions[c] = "none"
  /\ \A r \in Session : Running(r) => session[r].charge # c
  /\ Transact(s, kind, c, result, At[c])

Recorded == {c \in Charge : transactions[c] # "none"}

(* run_cycle takes the advisory lock and reads the frontier; it stops when *)
(* nothing has arrived since the last one.                                 *)
StartCycle(s) ==
  /\ \A r \in Session : session[r].kind # "cycle"
  /\ \E c \in Recorded :
       /\ \A d \in Recorded : At[d] <= At[c]
       /\ At[c] > watermark
       /\ Transact(s, "cycle", NoCharge, "none", At[c])

(* rescore_population, or scripts/run_cycle.py: a lane without the runner. *)
StartRescore(s) ==
  /\ Recorded # {}
  /\ Transact(s, "rescore", NoCharge, "none", 0)

(* The work list: the instant of the charge, or those of the window.       *)
Instants(s) ==
  IF session[s].charge # NoCharge THEN {At[session[s].charge]}
  ELSE {At[c] : c \in {d \in Recorded : watermark < At[d] /\ At[d] <= session[s].frontier}}

RunFeatures(s) ==
  /\ Running(s)
  /\ \/ session[s].phase = "begun" /\ session[s].kind # "rescore"
     \/ /\ session[s].phase = "decided" /\ session[s].result = "declined"
        /\ session[s].kind = "authorize"
  /\ clock < MaxClock
  /\ session' = [session EXCEPT ![s].values = AppendedValues(@, Computed(s, Instants(s))),
                                ![s].phase = IF @ = "begun" THEN "computed" ELSE "recomputed"]
  /\ Tick
  /\ UNCHANGED <<transactions, feature_values, decisions, watermark>>

Decided(s, c, lag) ==
  [charge |-> c, kind |-> session[s].kind, bound |-> BoundFor(c, lag),
   decided_at |-> session[s].started,
   read |-> Lookup(ValuesOf(s), BoundFor(c, lag), clock)]

(* Mutant: a what-if is decided before its feature pass.                   *)
DecideChargeEarly(s) ==
  /\ session[s].phase = (IF session[s].kind = "what-if" THEN "begun" ELSE "computed")
  /\ session[s].charge # NoCharge
  /\ \E result \in {"approved", "declined"} :
       /\ session[s].kind = "what-if" => result = session[s].result
       /\ session' = [session EXCEPT ![s].phase = "decided", ![s].result = result,
                                     ![s].decisions = {Decided(s, session[s].charge, 0)}]

(* One charge is read, decided and, under a preventive action, declined on *)
(* its row, when it is a charge that is being made.                        *)
DecideCharge(s) ==
  /\ session[s].phase = "computed"
  /\ session[s].charge # NoCharge
  /\ \E result \in {"approved", "declined"} :
       /\ session[s].kind = "what-if" => result = session[s].result
       /\ session' = [session EXCEPT ![s].phase = "decided", ![s].result = result,
                                     ![s].decisions = {Decided(s, session[s].charge, 0)}]

(* run_lane: the charges of the window, or every charge, in one read.      *)
DecideLane(s) ==
  /\ session[s].phase = (IF session[s].kind = "rescore" THEN "begun" ELSE "computed")
  /\ session[s].charge = NoCharge
  /\ session' = [session EXCEPT ![s].phase = "decided",
       ![s].decisions = {Decided(s, c, Lag) :
         c \in {d \in Recorded : session[s].kind = "rescore" \/ At[d] \in Instants(s)}}]

Decide(s) ==
  /\ Running(s)
  /\ DecideCharge(s) \/ DecideLane(s)
  /\ UNCHANGED <<transactions, feature_values, decisions, watermark, clock>>

(* A declined charge is committed after the second feature pass.           *)
IsComplete(s) ==
  /\ Running(s)
  /\ session[s].kind # "what-if"
  /\ session[s].phase = (IF session[s].result = "declined" THEN "recomputed" ELSE "decided")

Commit(s) ==
  /\ IsComplete(s)
  /\ transactions' = [c \in Charge |-> ResultOf(s, c)]
  /\ feature_values' = AppendedValues(feature_values, session[s].values)
  /\ decisions' = decisions \cup session[s].decisions
  /\ watermark' = IF session[s].kind = "cycle" THEN session[s].frontier ELSE watermark
  /\ session' = [session EXCEPT ![s] = Idle]
  /\ UNCHANGED clock

(* Mutant: the scope rolls back the charge and leaks what the pass wrote.  *)
RollbackKeepingValues(s) ==
  /\ Running(s)
  /\ session' = [session EXCEPT ![s] = Idle]
  /\ feature_values' = feature_values \cup session[s].values
  /\ UNCHANGED <<transactions, decisions, watermark, clock>>

(* simulation_scope always ends like this, every other transaction may.    *)
Rollback(s) ==
  /\ Running(s)
  /\ session' = [session EXCEPT ![s] = Idle]
  /\ UNCHANGED <<transactions, feature_values, decisions, watermark, clock>>

Init ==
  /\ transactions = [c \in Charge |-> "none"]
  /\ feature_values = {}
  /\ decisions = {}
  /\ watermark = 0
  /\ session = [s \in Session |-> Idle]
  /\ clock = 0

Next ==
  \E s \in Session :
    \/ \E kind \in {"authorize", "what-if"}, c \in Charge, result \in {"approved", "declined"} :
         Arrive(s, kind, c, result)
    \/ StartCycle(s) \/ StartRescore(s)
    \/ RunFeatures(s) \/ Decide(s) \/ Commit(s) \/ Rollback(s)

Spec == Init /\ [][Next]_vars

----------------------------------------------------------------------------
(* Properties.                                                             *)

(* No decision counts a charge from beyond its data ceiling, whoever       *)
(* recomputed what and when, a lane that runs late included (pit.py).      *)
NoLookahead ==
  \A d \in decisions : \A v \in d.read : \A c \in v.counted :
    At[c] <= At[d.charge] + (IF d.kind = "authorize" THEN 0 ELSE Lag)

(* A charge is presumed approved while it is scored.  It is scored against *)
(* evidence that has the charge in it, unless another one of the card      *)
(* shares its instant; and once it is declined the newest row of its       *)
(* instant no longer counts it, nor does any row a charge that was never   *)
(* made (authorize.py, step 6; scoped_feature_pass; simulation_scope).     *)
PresumptionRepaired ==
  /\ \A d \in decisions :
       /\ d.kind = "authorize"
       /\ \A c \in Charge : At[c] = At[d.charge] => c = d.charge
       => \E v \in d.read : d.charge \in v.counted
  /\ \A v \in feature_values :
       /\ v.counted \subseteq Recorded
       /\ (\A w \in feature_values : w.as_of = v.as_of => w.computed_at <= v.computed_at)
            => \A c \in v.counted : transactions[c] = "approved"

(* What the engine knew at decided_at, asked for today.                    *)
Replay(d) == Lookup(feature_values, d.bound, d.decided_at)

(* No transaction that was open at decided_at is open any more.            *)
Settled(d) == \A s \in Session : Running(s) => session[s].started > d.decided_at

(* Once the transactions that were open at decided_at have ended, no       *)
(* recomputation moves the replay of a decision (0014, runner.py).         *)
ReplayFrozen ==
  [][\A d \in decisions : Settled(d) => Replay(d)' = Replay(d)]_vars
=============================================================================
