------------------------ MODULE FeatureReplayProofs ------------------------
(***************************************************************************)
(* What holds of FeatureReplay for any charges, instants, connections and  *)
(* lag, and for behaviours of any length.                                  *)
(***************************************************************************)
EXTENDS FeatureReplay, TLAPS

USE AtAssumption, ClockAssumption, NoChargeAssumption

----------------------------------------------------------------------------
(* Types.                                                                  *)

(* A running transaction is one, and not the idle connection.              *)
LEMMA RunningType ==
  ASSUME TypeOK, NEW s \in Session, Running(s)
  PROVE  session[s] \in Transaction
BY DEF TypeOK, Running

LEMMA InstantsType ==
  ASSUME TypeOK, NEW s \in Session, Running(s)
  PROVE  Instants(s) \subseteq Nat
BY RunningType DEF Instants, Recorded, Transaction

(* A pass appends well-typed rows, stamped with the instant of the pass.   *)
LEMMA ComputedType ==
  ASSUME TypeOK, NEW s \in Session, Running(s)
  PROVE  /\ Computed(s, Instants(s)) \subseteq Value
         /\ \A v \in Computed(s, Instants(s)) :
              v.computed_at = clock + 1 /\ \A c \in v.counted : At[c] <= v.as_of
<1>1. Instants(s) \subseteq Nat /\ clock + 1 \in Nat
  BY InstantsType DEF TypeOK
<1>. QED
  BY <1>1 DEF Computed, Counted, Value

(* A decision is well typed when its lag is.                               *)
LEMMA DecidedType ==
  ASSUME TypeOK, NEW s \in Session, Running(s), NEW c \in Charge, NEW lag \in Nat
  PROVE  Decided(s, c, lag) \in Decision
<1>1. session[s] \in Transaction
  BY RunningType
<1>2. Lookup(ValuesOf(s), BoundFor(c, lag), clock) \subseteq Value
  BY <1>1 DEF TypeOK, Lookup, Eligible, ValuesOf, Transaction
<1>3. session[s].kind \in Kind /\ session[s].started \in Nat /\ BoundFor(c, lag) \in Nat
  BY <1>1 DEF Transaction, BoundFor
<1>. QED
  BY <1>2, <1>3 DEF Decided, Decision

(* The state keeps its shape.                                              *)
LEMMA TypeStep ==
  ASSUME TypeOK, [Next]_vars
  PROVE  TypeOK'
<1>1. ASSUME NEW s \in Session, NEW kind \in Kind, NEW c \in Charge \cup {NoCharge},
             NEW result \in AuthResult, NEW frontier \in Nat,
             Transact(s, kind, c, result, frontier)
      PROVE  TypeOK'
  <2>1. [kind |-> kind, charge |-> c, result |-> result,
         started |-> clock + 1, phase |-> "begun", frontier |-> frontier,
         values |-> {}, decisions |-> {}] \in Transaction
    BY <1>1 DEF Transaction, TypeOK
  <2>. QED
    BY <1>1, <2>1 DEF Transact, Tick, TypeOK
<1>2. ASSUME NEW s \in Session, NEW kind \in {"authorize", "what-if"}, NEW c \in Charge,
             NEW result \in {"approved", "declined"}, Arrive(s, kind, c, result)
      PROVE  TypeOK'
  BY <1>1, <1>2 DEF Arrive, Kind, AuthResult
<1>3. ASSUME NEW s \in Session, StartCycle(s) PROVE TypeOK'
  BY <1>1, <1>3 DEF StartCycle, Kind, Recorded, AuthResult
<1>4. ASSUME NEW s \in Session, StartRescore(s) PROVE TypeOK'
  BY <1>1, <1>4 DEF StartRescore, Kind, AuthResult
<1>5. ASSUME NEW s \in Session, RunFeatures(s) PROVE TypeOK'
  <2>1. session[s] \in Transaction /\ Computed(s, Instants(s)) \subseteq Value
    BY <1>5, RunningType, ComputedType DEF RunFeatures
  <2>2. /\ session' = [session EXCEPT ![s] =
             [session[s] EXCEPT !.values = AppendedValues(@, Computed(s, Instants(s))),
                                !.phase = IF @ = "begun" THEN "computed" ELSE "recomputed"]]
        /\ clock' = clock + 1 /\ clock < MaxClock
        /\ UNCHANGED <<transactions, feature_values, decisions, watermark>>
    BY <1>5 DEF RunFeatures, Tick
  <2>3. [session[s] EXCEPT !.values = AppendedValues(@, Computed(s, Instants(s))),
                           !.phase = IF @ = "begun" THEN "computed" ELSE "recomputed"]
          \in Transaction
    BY <2>1 DEF Transaction, AppendedValues
  <2>. QED
    BY <2>2, <2>3 DEF TypeOK
<1>6. ASSUME NEW s \in Session, Decide(s) PROVE TypeOK'
  <2>1. session[s] \in Transaction
    BY <1>6, RunningType DEF Decide
  <2>2. ASSUME DecideCharge(s)
        PROVE  session'[s] \in Transaction /\ session' = [session EXCEPT ![s] = session'[s]]
    <3>1. session[s].charge \in Charge
      BY <2>1, <2>2 DEF DecideCharge, Transaction
    <3>2. Decided(s, session[s].charge, 0) \in Decision
      BY <1>6, <3>1, DecidedType DEF Decide
    <3>3. PICK result \in {"approved", "declined"} :
            session' = [session EXCEPT ![s] =
              [session[s] EXCEPT !.phase = "decided", !.result = result,
                                 !.decisions = {Decided(s, session[s].charge, 0)}]]
      BY <2>2 DEF DecideCharge
    <3>4. [session[s] EXCEPT !.phase = "decided", !.result = result,
                             !.decisions = {Decided(s, session[s].charge, 0)}] \in Transaction
      BY <2>1, <3>2 DEF Transaction, AuthResult
    <3>. QED
      BY <3>3, <3>4 DEF TypeOK
  <2>3. ASSUME DecideLane(s)
        PROVE  session'[s] \in Transaction /\ session' = [session EXCEPT ![s] = session'[s]]
    <3>. DEFINE D == {Decided(s, c, Lag) :
           c \in {d \in Recorded : session[s].kind = "rescore" \/ At[d] \in Instants(s)}}
    <3>1. D \subseteq Decision
      BY <1>6, DecidedType DEF Decide, Recorded
    <3>. HIDE DEF D
    <3>2. [session[s] EXCEPT !.phase = "decided", !.decisions = D] \in Transaction
      BY <2>1, <3>1 DEF Transaction
    <3>3. session' = [session EXCEPT ![s] =
            [session[s] EXCEPT !.phase = "decided", !.decisions = D]]
      BY <2>3 DEF DecideLane, D
    <3>. QED
      BY <3>2, <3>3 DEF TypeOK
  <2>4. session'[s] \in Transaction /\ session' = [session EXCEPT ![s] = session'[s]]
    BY <1>6, <2>2, <2>3 DEF Decide
  <2>5. session' \in [Session -> Transaction \cup {Idle}]
    BY <2>4 DEF TypeOK
  <2>. QED
    BY <1>6, <2>5 DEF Decide, TypeOK
<1>7. ASSUME NEW s \in Session, Commit(s) PROVE TypeOK'
  <2>1. session[s] \in Transaction
    BY <1>7, RunningType DEF Commit, IsComplete
  <2>2. \A c \in Charge : ResultOf(s, c) \in AuthResult
    BY <2>1 DEF ResultOf, Transaction, TypeOK
  <2>3. transactions' \in [Charge -> AuthResult]
    BY <1>7, <2>2 DEF Commit
  <2>4. feature_values' \subseteq Value /\ decisions' \subseteq Decision /\ watermark' \in Nat
    BY <1>7, <2>1 DEF Commit, AppendedValues, Transaction, TypeOK
  <2>5. session' \in [Session -> Transaction \cup {Idle}] /\ clock' = clock
    BY <1>7 DEF Commit, TypeOK
  <2>. QED
    BY <2>3, <2>4, <2>5 DEF TypeOK
<1>8. ASSUME NEW s \in Session, Rollback(s) PROVE TypeOK'
  BY <1>8 DEF Rollback, TypeOK
<1>9. ASSUME UNCHANGED vars PROVE TypeOK'
  BY <1>9 DEF vars, TypeOK
<1>. QED
  BY <1>2, <1>3, <1>4, <1>5, <1>6, <1>7, <1>8, <1>9 DEF Next

(* The store, the decisions and the transactions keep their shape, for any *)
(* charges, connections and bound.                                         *)
THEOREM TypeCorrect == Spec => []TypeOK
<1>1. Init => TypeOK
  BY DEF Init, TypeOK, AuthResult, Idle
<1>. QED
  BY <1>1, TypeStep, PTL DEF Spec
----------------------------------------------------------------------------
(* What is in the store, and what a transaction is about to put there.     *)

(* A row counts no charge from after its own instant.                      *)
Looks(v) == \A c \in v.counted : At[c] <= v.as_of

(* A decision has read rows up to the ceiling of its charge and no others. *)
Bounded(d) ==
  /\ d.bound <= At[d.charge] + (IF d.kind = "authorize" THEN 0 ELSE Lag)
  /\ \A v \in d.read : Looks(v) /\ v.as_of <= d.bound

(* An authorisation brings a charge; what a transaction has computed is    *)
(* stamped after its start, which is what decided_at will say.             *)
InTransaction(s) ==
  Running(s) =>
    /\ session[s].kind = "authorize" => session[s].charge # NoCharge
    /\ session[s].started <= clock
    /\ \A v \in session[s].values : Looks(v) /\ session[s].started < v.computed_at
    /\ \A d \in session[s].decisions : Bounded(d)

StoreInv ==
  /\ TypeOK
  /\ \A v \in feature_values : Looks(v)
  /\ \A d \in decisions : Bounded(d)
  /\ \A s \in Session : InTransaction(s)

(* Whatever is found under a bound is not from after it.                   *)
LEMMA DecidedBounded ==
  ASSUME StoreInv, NEW s \in Session, Running(s), NEW c \in Charge, NEW lag \in Nat,
         lag <= (IF session[s].kind = "authorize" THEN 0 ELSE Lag)
  PROVE  Bounded(Decided(s, c, lag))
<1>1. \A v \in Lookup(ValuesOf(s), BoundFor(c, lag), clock) :
        v \in ValuesOf(s) /\ v.as_of <= BoundFor(c, lag)
  BY DEF Lookup, Eligible
<1>2. \A v \in ValuesOf(s) : Looks(v)
  BY DEF ValuesOf, StoreInv, InTransaction
<1>3. /\ Decided(s, c, lag).bound = At[c] + lag /\ Decided(s, c, lag).charge = c
      /\ Decided(s, c, lag).kind = session[s].kind
      /\ Decided(s, c, lag).read = Lookup(ValuesOf(s), BoundFor(c, lag), clock)
  BY DEF Decided, BoundFor
<1>4. At[c] \in Nat
  OBVIOUS
<1>. QED
  BY <1>1, <1>2, <1>3, <1>4 DEF Bounded, BoundFor

(* Every step keeps the store, the decisions and the open transactions so. *)
LEMMA StoreStep ==
  ASSUME StoreInv, [Next]_vars
  PROVE  StoreInv'
<1>0. TypeOK' /\ clock \in Nat
  BY TypeStep DEF StoreInv, TypeOK
<1>1. ASSUME NEW s \in Session, NEW kind \in Kind, NEW c \in Charge \cup {NoCharge},
             NEW result \in AuthResult, NEW frontier \in Nat,
             Transact(s, kind, c, result, frontier),
             kind = "authorize" => c # NoCharge
      PROVE  StoreInv'
  <2>1. session'[s].values = {} /\ session'[s].decisions = {} /\ clock' = clock + 1
        /\ session'[s].kind = kind /\ session'[s].charge = c
        /\ session'[s].started = clock + 1
    BY <1>1 DEF Transact, Tick, StoreInv, TypeOK
  <2>2. InTransaction(s)'
    BY <1>0, <1>1, <2>1 DEF InTransaction
  <2>3. \A r \in Session \ {s} : InTransaction(r)'
    <3>1. \A r \in Session \ {s} : session'[r] = session[r]
      BY <1>1 DEF Transact, StoreInv, TypeOK
    <3>2. \A r \in Session : Running(r) => session[r].started \in Nat
      BY RunningType DEF StoreInv, Transaction
    <3>. QED
      BY <1>0, <2>1, <3>1, <3>2 DEF InTransaction, Running, StoreInv
  <2>. QED
    BY <1>0, <1>1, <2>2, <2>3 DEF Transact, StoreInv
<1>2. ASSUME NEW s \in Session, NEW kind \in {"authorize", "what-if"}, NEW c \in Charge,
             NEW result \in {"approved", "declined"}, Arrive(s, kind, c, result)
      PROVE  StoreInv'
  BY <1>1, <1>2 DEF Arrive, Kind, AuthResult
<1>3. ASSUME NEW s \in Session, StartCycle(s) PROVE StoreInv'
  BY <1>1, <1>3 DEF StartCycle, Kind, Recorded, AuthResult
<1>4. ASSUME NEW s \in Session, StartRescore(s) PROVE StoreInv'
  BY <1>1, <1>4 DEF StartRescore, Kind, AuthResult
<1>5. ASSUME NEW s \in Session, RunFeatures(s) PROVE StoreInv'
  <2>1. /\ session[s] \in Transaction /\ clock' = clock + 1
        /\ UNCHANGED <<feature_values, decisions>>
    BY <1>5, RunningType DEF RunFeatures, StoreInv, Tick
  <2>2. /\ session'[s].values = session[s].values \cup Computed(s, Instants(s))
        /\ session'[s].decisions = session[s].decisions
        /\ session'[s].kind = session[s].kind /\ session'[s].charge = session[s].charge
        /\ session'[s].started = session[s].started
        /\ \A r \in Session \ {s} : session'[r] = session[r]
    BY <1>5, <2>1 DEF RunFeatures, AppendedValues, StoreInv, TypeOK, Transaction
  <2>3. \A v \in Computed(s, Instants(s)) : v.computed_at = clock + 1 /\ Looks(v)
    BY <1>5, ComputedType DEF RunFeatures, StoreInv, Looks
  <2>4. InTransaction(s) /\ Running(s)
    BY <1>5 DEF RunFeatures, StoreInv
  <2>5. InTransaction(s)'
    BY <1>0, <2>1, <2>2, <2>3, <2>4 DEF InTransaction, Transaction
  <2>6. \A r \in Session \ {s} : InTransaction(r)'
    <3>1. \A r \in Session : Running(r) => session[r].started \in Nat
      BY RunningType DEF StoreInv, Transaction
    <3>. QED
      BY <1>0, <2>1, <2>2, <3>1 DEF InTransaction, Running, StoreInv
  <2>. QED
    BY <1>0, <2>1, <2>5, <2>6 DEF StoreInv
<1>6. ASSUME NEW s \in Session, Decide(s) PROVE StoreInv'
  <2>1. /\ session[s] \in Transaction /\ Running(s) /\ InTransaction(s)
        /\ UNCHANGED <<feature_values, decisions, clock>>
    BY <1>6, RunningType DEF Decide, StoreInv
  <2>2. \A d \in session'[s].decisions : Bounded(d)
    <3>1. CASE DecideCharge(s)
      <4>1. session[s].charge \in Charge
        BY <2>1, <3>1 DEF DecideCharge, Transaction
      <4>2. Bounded(Decided(s, session[s].charge, 0))
        BY <2>1, <4>1, DecidedBounded
      <4>3. session'[s].decisions = {Decided(s, session[s].charge, 0)}
        BY <2>1, <3>1 DEF DecideCharge, StoreInv, TypeOK, Transaction
      <4>. QED
        BY <4>2, <4>3
    <3>2. CASE DecideLane(s)
      <4>1. session[s].kind # "authorize"
        BY <2>1, <3>2 DEF DecideLane, InTransaction
      <4>2. \A c \in Charge : Bounded(Decided(s, c, Lag))
        BY <2>1, <4>1, DecidedBounded
      <4>3. session'[s].decisions \subseteq {Decided(s, c, Lag) : c \in Charge}
        BY <2>1, <3>2 DEF DecideLane, StoreInv, TypeOK, Transaction, Recorded
      <4>. QED
        BY <4>2, <4>3
    <3>. QED
      BY <1>6, <3>1, <3>2 DEF Decide
  <2>3. /\ session'[s].values = session[s].values
        /\ session'[s].kind = session[s].kind /\ session'[s].charge = session[s].charge
        /\ session'[s].started = session[s].started
        /\ \A r \in Session \ {s} : session'[r] = session[r]
    BY <1>6, <2>1 DEF Decide, DecideCharge, DecideLane, StoreInv, TypeOK, Transaction
  <2>4. InTransaction(s)'
    BY <2>1, <2>2, <2>3 DEF InTransaction
  <2>5. \A r \in Session \ {s} : InTransaction(r)'
    BY <2>1, <2>3 DEF InTransaction, Running, StoreInv
  <2>. QED
    BY <1>0, <2>1, <2>4, <2>5 DEF StoreInv
<1>7. ASSUME NEW s \in Session, Commit(s) PROVE StoreInv'
  <2>1. InTransaction(s) /\ Running(s)
    BY <1>7 DEF Commit, IsComplete, StoreInv
  <2>2. /\ feature_values' = feature_values \cup session[s].values
        /\ decisions' = decisions \cup session[s].decisions
        /\ clock' = clock
        /\ session'[s] = Idle /\ \A r \in Session \ {s} : session'[r] = session[r]
    BY <1>7 DEF Commit, AppendedValues, StoreInv, TypeOK
  <2>3. \A r \in Session : InTransaction(r)'
    BY <2>2 DEF InTransaction, Running, StoreInv
  <2>. QED
    BY <1>0, <2>1, <2>2, <2>3 DEF StoreInv, InTransaction
<1>8. ASSUME NEW s \in Session, Rollback(s) PROVE StoreInv'
  <2>1. /\ UNCHANGED <<feature_values, decisions, clock>>
        /\ session'[s] = Idle /\ \A r \in Session \ {s} : session'[r] = session[r]
    BY <1>8 DEF Rollback, StoreInv, TypeOK
  <2>2. \A r \in Session : InTransaction(r)'
    BY <2>1 DEF InTransaction, Running, StoreInv
  <2>. QED
    BY <1>0, <2>1, <2>2 DEF StoreInv
<1>9. ASSUME UNCHANGED vars PROVE StoreInv'
  BY <1>0, <1>9 DEF vars, StoreInv, InTransaction, Running
<1>. QED
  BY <1>2, <1>3, <1>4, <1>5, <1>6, <1>7, <1>8, <1>9 DEF Next

LEMMA StoreCorrect == Spec => []StoreInv
<1>1. Init => StoreInv
  <2>1. Init => TypeOK
    BY DEF Init, TypeOK, AuthResult, Idle
  <2>. QED
    BY <2>1 DEF Init, StoreInv, InTransaction, Running, Idle
<1>. QED
  BY <1>1, StoreStep, PTL DEF Spec

(* No decision counts a charge from beyond its data ceiling, over any      *)
(* number of passes, recomputations and lanes that run late.               *)
THEOREM LookaheadFree == Spec => []NoLookahead
<1>1. StoreInv => NoLookahead
  <2> SUFFICES ASSUME StoreInv, NEW d \in decisions, NEW v \in d.read, NEW c \in v.counted
               PROVE  At[c] <= At[d.charge] + (IF d.kind = "authorize" THEN 0 ELSE Lag)
    BY DEF NoLookahead
  <2>1. d \in Decision /\ Bounded(d)
    BY DEF StoreInv, TypeOK
  <2>2. d.bound \in Nat /\ d.charge \in Charge /\ v \in Value
    BY <2>1 DEF Decision
  <2>3. c \in Charge /\ v.as_of \in Nat
    BY <2>2 DEF Value
  <2>4. At[c] <= v.as_of /\ v.as_of <= d.bound
    BY <2>1 DEF Bounded, Looks
  <2>5. d.bound <= At[d.charge] + (IF d.kind = "authorize" THEN 0 ELSE Lag)
    BY <2>1 DEF Bounded
  <2>6. At[c] \in Nat /\ At[d.charge] \in Nat
    BY <2>2, <2>3
  <2>. QED
    BY <2>2, <2>3, <2>4, <2>5, <2>6
<1>. QED
  BY <1>1, StoreCorrect, PTL

----------------------------------------------------------------------------
(* Replays.                                                                *)

(* The replay of a decision is frozen once the transactions that were open *)
(* when it was made have ended, for any number of later recomputations.    *)
THEOREM ReplaysFrozen == Spec => ReplayFrozen
<1>1. ASSUME StoreInv, [Next]_vars
      PROVE  [\A d \in decisions : Settled(d) => Replay(d)' = Replay(d)]_vars
  <2> SUFFICES ASSUME NEW d \in decisions, Settled(d)
               PROVE  Replay(d)' = Replay(d)
    OBVIOUS
  <2>1. CASE UNCHANGED feature_values
    BY <2>1 DEF Replay
  <2>2. ASSUME NEW s \in Session, Commit(s)
        PROVE  Replay(d)' = Replay(d)
    <3>1. Running(s) /\ session[s] \in Transaction /\ InTransaction(s)
      BY <1>1, <2>2, RunningType DEF Commit, IsComplete, StoreInv
    <3>2. d.decided_at \in Nat
      BY <1>1 DEF StoreInv, TypeOK, Decision
    <3>3. session[s].started \in Nat /\ session[s].started > d.decided_at
      BY <3>1 DEF Settled, Transaction
    <3>4. \A v \in session[s].values : ~(v.computed_at <= d.decided_at)
      <4> TAKE v \in session[s].values
      <4>1. v.computed_at \in Nat /\ session[s].started < v.computed_at
        BY <3>1 DEF InTransaction, Transaction, Value
      <4>. QED
        BY <3>2, <3>3, <4>1
    <3>5. feature_values' = feature_values \cup session[s].values
      BY <2>2 DEF Commit, AppendedValues
    <3>6. Lookup(feature_values \cup session[s].values, d.bound, d.decided_at)
            = Lookup(feature_values, d.bound, d.decided_at)
      BY <3>4 DEF Lookup, Eligible
    <3>7. Replay(d)' = Lookup(feature_values', d.bound, d.decided_at)
      BY DEF Replay, Lookup, Eligible, Before
    <3>. QED
      BY <3>5, <3>6, <3>7 DEF Replay
  <2>3. UNCHANGED feature_values \/ \E s \in Session : Commit(s)
    BY <1>1 DEF Next, Arrive, StartCycle, StartRescore, Transact, RunFeatures, Decide,
               Rollback, vars
  <2>. QED
    BY <2>1, <2>2, <2>3
<1>. QED
  BY <1>1, StoreCorrect, PTL DEF Spec, ReplayFrozen

----------------------------------------------------------------------------
(* The presumption.  An authorisation saw its charge, if no other one      *)
(* shares its instant.                                                     *)
SawItsCharge(d) ==
  /\ d.kind = "authorize"
  /\ \A c \in Charge : At[c] = At[d.charge] => c = d.charge
  => \E v \in d.read : d.charge \in v.counted

(* An open transaction q: its charge is nobody else's business yet, its    *)
(* rows count that charge and approved ones, and after a second pass the   *)
(* newest of them does not count it.                                       *)
Presumes(q) ==
  /\ q.charge # NoCharge => transactions[q.charge] = "none" /\ q.result # "none"
  /\ q.charge = NoCharge => q.result = "none"
  /\ q.phase \in {"begun", "computed"} /\ q.kind # "what-if" => q.result # "declined"
  /\ q.phase = "begun" => q.values = {}
  /\ \A v \in q.values :
       /\ v.computed_at <= clock
       /\ \A c \in v.counted : c = q.charge \/ transactions[c] = "approved"
       /\ q.charge # NoCharge => v.as_of = At[q.charge]
       /\ q.charge = NoCharge => \E c \in Recorded : At[c] = v.as_of
  /\ q.phase = "computed" /\ q.charge # NoCharge =>
       \E w \in Value : q.values = {w} /\ (q.kind = "authorize" => q.charge \in w.counted)
  /\ q.phase = "recomputed" =>
       \E w \in q.values : \A v \in q.values :
         q.charge \in v.counted => v.computed_at < w.computed_at
  /\ \A d \in q.decisions : SawItsCharge(d)

(* What is committed: a row is of the instant of a recorded charge, and    *)
(* one that counts a charge that was not approved has been superseded.     *)
Superseded(v) ==
  \E w \in feature_values : w.as_of = v.as_of /\ v.computed_at < w.computed_at

Repaired(v) ==
  /\ \E c \in Recorded : At[c] = v.as_of
  /\ \A c \in v.counted : c \in Recorded /\ (transactions[c] = "approved" \/ Superseded(v))

PresumptionInv ==
  /\ \A v \in feature_values : Repaired(v)
  /\ \A d \in decisions : SawItsCharge(d)
  /\ \A s \in Session : Running(s) => Presumes(session[s])
  /\ \A r, s \in Session :
       r # s /\ Running(r) /\ Running(s) /\ session[r].charge # NoCharge =>
         session[r].charge # session[s].charge

(* A step of one connection that commits nothing.                          *)
LEMMA PresumptionKept ==
  ASSUME StoreInv, PresumptionInv, NEW s \in Session, NEW p,
         session' = [session EXCEPT ![s] = p],
         UNCHANGED <<transactions, feature_values, decisions>>,
         clock' = clock \/ clock' = clock + 1,
         p # Idle => Presumes(p)',
         p # Idle /\ p.charge # NoCharge =>
           \A r \in Session : r # s /\ Running(r) => session[r].charge # p.charge
  PROVE  PresumptionInv'
<1>1. session'[s] = p /\ \A r \in Session : r # s => session'[r] = session[r]
  BY DEF StoreInv, TypeOK
<1>2. Recorded' = Recorded
  BY DEF Recorded
<1>3. ASSUME NEW v \in feature_values' PROVE Repaired(v)'
  BY <1>2, <1>3 DEF PresumptionInv, Repaired, Superseded
<1>4. \A d \in decisions' : SawItsCharge(d)
  BY DEF PresumptionInv
<1>5. ASSUME NEW r \in Session, Running(r)' PROVE Presumes(session[r])'
  <2>1. CASE r = s
    BY <1>1, <1>5, <2>1 DEF Running, Presumes
  <2>2. CASE r # s
    <3>1. Running(r) /\ session'[r] = session[r]
      BY <1>1, <1>5, <2>2 DEF Running
    <3>2. session[r] \in Transaction /\ Presumes(session[r])
      BY <3>1, RunningType DEF StoreInv, PresumptionInv
    <3>3. \A v \in session[r].values : v.computed_at <= clock'
      <4>1. \A v \in session[r].values : v.computed_at \in Nat /\ v.computed_at <= clock
        BY <3>2 DEF Presumes, Transaction, Value
      <4>2. clock \in Nat
        BY DEF StoreInv, TypeOK
      <4>. QED
        BY <4>1, <4>2
    <3>. QED
      BY <1>2, <3>1, <3>2, <3>3 DEF Presumes
  <2>. QED
    BY <2>1, <2>2
<1>6. ASSUME NEW r \in Session, NEW t \in Session, r # t, Running(r)', Running(t)',
             session'[r].charge # NoCharge
      PROVE  session'[r].charge # session'[t].charge
  <2>1. CASE r = s
    BY <1>1, <1>6, <2>1 DEF Running
  <2>2. CASE t = s
    BY <1>1, <1>6, <2>2 DEF Running
  <2>3. CASE r # s /\ t # s
    BY <1>1, <1>6, <2>3 DEF Running, PresumptionInv
  <2>. QED
    BY <2>1, <2>2, <2>3
<1>. QED
  BY <1>3, <1>4, <1>5, <1>6 DEF PresumptionInv

LEMMA PresumptionTransact ==
  ASSUME StoreInv, PresumptionInv, NEW s \in Session, NEW kind, NEW c \in Charge \cup {NoCharge},
         NEW result \in AuthResult, NEW frontier, Transact(s, kind, c, result, frontier),
         c = NoCharge => result = "none",
         c # NoCharge => result # "none" /\ (kind # "what-if" => result # "declined"),
         c # NoCharge => /\ transactions[c] = "none"
                         /\ \A r \in Session : Running(r) => session[r].charge # c
  PROVE  PresumptionInv'
<1>1. PICK p : p = [kind |-> kind, charge |-> c, result |-> result,
                    started |-> clock + 1, phase |-> "begun", frontier |-> frontier,
                    values |-> {}, decisions |-> {}]
  OBVIOUS
<1>2. /\ session' = [session EXCEPT ![s] = p] /\ clock' = clock + 1
      /\ UNCHANGED <<transactions, feature_values, decisions>>
  BY <1>1 DEF Transact, Tick
<1>3. Presumes(p)'
  BY <1>1, <1>2 DEF Presumes
<1>4. p.charge = c
  BY <1>1
<1>. QED
  BY <1>2, <1>3, <1>4, PresumptionKept

(* A pass of a charge appends one row that counts the charge as long as it *)
(* is presumed approved, a second one a newer row that does not.           *)
LEMMA PresumptionRun ==
  ASSUME StoreInv, PresumptionInv, NEW s \in Session, RunFeatures(s)
  PROVE  PresumptionInv'
<1>1. PICK q \in Transaction : q = session[s]
  BY RunningType DEF RunFeatures, StoreInv
<1>2. PICK new : new = Computed(s, Instants(s))
  OBVIOUS
<1>3. PICK p : p = [q EXCEPT !.values = q.values \cup new,
                             !.phase = IF q.phase = "begun" THEN "computed" ELSE "recomputed"]
  OBVIOUS
<1>4. /\ Running(s) /\ session' = [session EXCEPT ![s] = p] /\ clock' = clock + 1
      /\ \/ q.phase = "begun"
         \/ q.phase = "decided" /\ q.result = "declined" /\ q.kind = "authorize"
      /\ UNCHANGED <<transactions, feature_values, decisions>>
  <2>1. session' = [session EXCEPT ![s].values = AppendedValues(@, Computed(s, Instants(s))),
                                   ![s].phase = IF @ = "begun" THEN "computed" ELSE "recomputed"]
    BY DEF RunFeatures
  <2>2. session' = [session EXCEPT ![s] = p]
    BY <1>1, <1>2, <1>3, <2>1 DEF AppendedValues, StoreInv, TypeOK, Transaction
  <2>. QED
    BY <1>1, <2>2 DEF RunFeatures, Tick
<1>5. Presumes(q) /\ clock \in Nat
  BY <1>1, <1>4 DEF PresumptionInv, StoreInv, TypeOK
<1>6. /\ p.charge = q.charge /\ p.result = q.result /\ p.decisions = q.decisions
      /\ p.kind = q.kind
      /\ p.values = q.values \cup new
      /\ p.phase = IF q.phase = "begun" THEN "computed" ELSE "recomputed"
  BY <1>1, <1>3 DEF Transaction
<1>7. \A c \in Charge : c # q.charge => ResultOf(s, c) = transactions[c]
  BY <1>1 DEF ResultOf
<1>8. ResultOf(s, q.charge) = q.result
  BY <1>1 DEF ResultOf
<1>9. \A v \in new : /\ v \in Value /\ v.computed_at = clock + 1 /\ v.as_of \in Instants(s)
                     /\ v.counted = Counted(s, v.as_of)
  <2>1. new \subseteq Value
    BY <1>2, <1>4, ComputedType DEF StoreInv
  <2>. QED
    BY <1>2, <2>1 DEF Computed
<1>10. \A v \in new : \A c \in v.counted :
         (c = q.charge /\ q.result = "approved") \/ transactions[c] = "approved"
  BY <1>7, <1>8, <1>9 DEF Counted
<1>11. \A v \in q.values : v.computed_at \in Nat /\ v.computed_at <= clock
  BY <1>1, <1>5 DEF Presumes, Transaction, Value
<1>12. CASE q.charge # NoCharge
  <2>1. PICK w : w = [as_of |-> At[q.charge], computed_at |-> clock + 1,
                      counted |-> Counted(s, At[q.charge])]
    OBVIOUS
  <2>2. Instants(s) = {At[q.charge]} /\ new = {w}
    BY <1>1, <1>2, <1>12, <2>1 DEF Instants, Computed
  <2>3. w.as_of = At[q.charge] /\ w.computed_at = clock + 1 /\ w \in Value
    BY <1>9, <2>1, <2>2
  <2>4. q.charge \in Charge /\ q.result \in {"approved", "declined"}
    BY <1>1, <1>5, <1>12 DEF Presumes, Transaction, AuthResult
  <2>5. ASSUME q.phase = "begun" PROVE Presumes(p)'
    <3>1. /\ p.phase = "computed" /\ p.values = {w}
          /\ q.kind # "what-if" => q.result = "approved"
      BY <1>5, <1>6, <2>2, <2>4, <2>5 DEF Presumes
    <3>2. q.kind = "authorize" => q.charge \in w.counted
      <4>1. At[q.charge] <= At[q.charge]
        BY <2>4, AtAssumption
      <4>. QED
        BY <1>8, <2>1, <2>4, <3>1, <4>1 DEF Counted
    <3>3. \A c \in w.counted : c = q.charge \/ transactions[c] = "approved"
      BY <1>10, <2>2
    <3>. QED
      BY <1>4, <1>5, <1>6, <1>12, <2>3, <3>1, <3>2, <3>3 DEF Presumes
  <2>6. ASSUME q.phase = "decided", q.result = "declined" PROVE Presumes(p)'
    <3>1. p.phase = "recomputed" /\ p.values = q.values \cup {w}
      BY <1>6, <2>2, <2>6
    <3>2. q.charge \notin w.counted
      BY <1>8, <2>1, <2>6 DEF Counted
    <3>3. \A v \in p.values : q.charge \in v.counted => v.computed_at < w.computed_at
      BY <1>5, <1>11, <2>3, <3>1, <3>2
    <3>4. \A v \in p.values :
            /\ v.computed_at <= clock + 1
            /\ v.as_of = At[q.charge]
            /\ \A c \in v.counted : c = q.charge \/ transactions[c] = "approved"
      BY <1>5, <1>10, <1>11, <1>12, <2>2, <2>3, <3>1 DEF Presumes
    <3>. QED
      BY <1>4, <1>5, <1>6, <1>12, <3>1, <3>3, <3>4 DEF Presumes
  <2>7. Presumes(p)'
    BY <1>4, <2>5, <2>6
  <2>8. \A r \in Session : r # s /\ Running(r) => session[r].charge # p.charge
    BY <1>1, <1>4, <1>6, <1>12 DEF PresumptionInv
  <2>. QED
    BY <1>4, <2>7, <2>8, PresumptionKept
<1>13. CASE q.charge = NoCharge
  <2>1. q.phase = "begun" /\ p.phase = "computed" /\ p.values = new
    BY <1>4, <1>5, <1>6, <1>13 DEF Presumes
  <2>2. \A v \in new : \E c \in Recorded : At[c] = v.as_of
    BY <1>1, <1>9, <1>13 DEF Instants
  <2>3. Recorded' = Recorded
    BY <1>4 DEF Recorded
  <2>4. \A v \in new : v.computed_at <= clock + 1
    BY <1>5, <1>9
  <2>5. Presumes(p)'
    BY <1>4, <1>5, <1>6, <1>10, <1>13, <2>1, <2>2, <2>3, <2>4 DEF Presumes
  <2>. QED
    BY <1>4, <1>6, <1>13, <2>5, PresumptionKept
<1>. QED
  BY <1>12, <1>13

(* The row of the pass is the newest of its instant, because nobody else   *)
(* writes rows of an instant without a recorded charge.                    *)
LEMMA ReadsItsCharge ==
  ASSUME StoreInv, PresumptionInv, NEW s \in Session, Running(s),
         session[s].phase = "computed", session[s].charge # NoCharge,
         session[s].kind = "authorize"
  PROVE  SawItsCharge(Decided(s, session[s].charge, 0))
<1>1. PICK q \in Transaction : q = session[s]
  BY RunningType DEF StoreInv
<1>2. PICK d : d = Decided(s, q.charge, 0)
  OBVIOUS
<1>3. q.charge \in Charge
  BY <1>1 DEF Transaction
<1>4. At[q.charge] \in Nat
  BY <1>3, AtAssumption
<1>5. d.charge = q.charge /\ d.read = Lookup(ValuesOf(s), At[q.charge], clock)
  BY <1>2, <1>4 DEF Decided, BoundFor
<1>6. Presumes(q)
  BY <1>1 DEF PresumptionInv
<1>7. PICK w \in Value : q.values = {w} /\ q.charge \in w.counted
  BY <1>1, <1>6 DEF Presumes
<1>8. w.as_of = At[q.charge] /\ w.computed_at <= clock /\ w.computed_at \in Nat /\ w \in ValuesOf(s)
  BY <1>1, <1>6, <1>7 DEF Presumes, ValuesOf, Value
<1>9. ASSUME \A c \in Charge : At[c] = At[q.charge] => c = q.charge
      PROVE  w \in d.read
  <2>1. w \in Eligible(ValuesOf(s), At[q.charge], clock)
    BY <1>4, <1>8 DEF Eligible
  <2>2. ASSUME NEW v \in Eligible(ValuesOf(s), At[q.charge], clock) PROVE Before(v, w)
    <3>1. v \in ValuesOf(s) /\ v.as_of <= At[q.charge]
      BY DEF Eligible
    <3>2. CASE v = w
      BY <1>8, <3>2 DEF Before
    <3>3. CASE v # w
      <4>1. v \in feature_values
        BY <1>1, <1>7, <3>1, <3>3 DEF ValuesOf
      <4>2. PICK c \in Recorded : At[c] = v.as_of
        BY <4>1 DEF PresumptionInv, Repaired
      <4>3. c \in Charge /\ transactions[c] # "none"
        BY DEF Recorded
      <4>4. c # q.charge
        BY <1>1, <1>6, <4>3 DEF Presumes
      <4>5. v.as_of # At[q.charge]
        BY <1>9, <4>2, <4>3, <4>4
      <4>6. v.as_of \in Nat
        BY <4>1 DEF StoreInv, TypeOK, Value
      <4>. QED
        BY <1>4, <1>8, <3>1, <4>5, <4>6 DEF Before
    <3>. QED
      BY <3>2, <3>3
  <2>. QED
    BY <1>5, <2>1, <2>2 DEF Lookup
<1>. QED
  BY <1>1, <1>2, <1>5, <1>7, <1>9 DEF SawItsCharge

LEMMA PresumptionDecide ==
  ASSUME StoreInv, PresumptionInv, NEW s \in Session, Decide(s)
  PROVE  PresumptionInv'
<1>1. PICK q \in Transaction : q = session[s]
  BY RunningType DEF Decide, StoreInv
<1>2. Running(s) /\ Presumes(q) /\ UNCHANGED <<transactions, feature_values, decisions, clock>>
  BY <1>1 DEF Decide, PresumptionInv
<1>3. ASSUME NEW result \in AuthResult, NEW made,
             q.charge # NoCharge => result # "none", q.charge = NoCharge => result = "none",
             \A d \in made : SawItsCharge(d),
             session' = [session EXCEPT ![s] = [q EXCEPT !.phase = "decided", !.result = result,
                                                         !.decisions = made]]
      PROVE  PresumptionInv'
  <2>1. PICK p : p = [q EXCEPT !.phase = "decided", !.result = result, !.decisions = made]
    OBVIOUS
  <2>2. /\ p.phase = "decided" /\ p.result = result /\ p.decisions = made
        /\ p.charge = q.charge /\ p.values = q.values /\ p.kind = q.kind
    BY <1>1, <2>1 DEF Transaction
  <2>3. Presumes(p)
    BY <1>2, <1>3, <2>2 DEF Presumes
  <2>4. Presumes(p)'
    BY <1>2, <2>3 DEF Presumes, Recorded
  <2>. QED
    BY <1>1, <1>2, <1>3, <2>1, <2>2, <2>4, PresumptionKept DEF PresumptionInv
<1>4. CASE DecideCharge(s)
  <2>1. PICK result \in {"approved", "declined"} :
          session' = [session EXCEPT ![s].phase = "decided", ![s].result = result,
                                     ![s].decisions = {Decided(s, session[s].charge, 0)}]
    BY <1>4 DEF DecideCharge
  <2>2. q.phase = "computed" /\ q.charge # NoCharge
    BY <1>1, <1>4 DEF DecideCharge
  <2>3. SawItsCharge(Decided(s, q.charge, 0))
    <3>1. CASE q.kind = "authorize"
      BY <1>1, <1>2, <2>2, <3>1, ReadsItsCharge
    <3>2. CASE q.kind # "authorize"
      BY <1>1, <3>2 DEF SawItsCharge, Decided
    <3>. QED
      BY <3>1, <3>2
  <2>4. PICK made : made = {Decided(s, q.charge, 0)}
    OBVIOUS
  <2>5. session' = [session EXCEPT ![s] = [q EXCEPT !.phase = "decided", !.result = result,
                                                    !.decisions = made]]
    BY <1>1, <2>1, <2>4 DEF StoreInv, TypeOK
  <2>6. \A d \in made : SawItsCharge(d)
    BY <2>3, <2>4
  <2>. QED
    BY <1>3, <2>2, <2>5, <2>6 DEF AuthResult
<1>5. CASE DecideLane(s)
  <2>1. q.charge = NoCharge /\ q.result = "none" /\ q.kind # "authorize"
    BY <1>1, <1>2, <1>5 DEF DecideLane, Presumes, StoreInv, InTransaction
  <2>2. PICK made :
          /\ made = {Decided(s, c, Lag) :
                       c \in {d \in Recorded : session[s].kind = "rescore" \/ At[d] \in Instants(s)}}
          /\ session' = [session EXCEPT ![s].phase = "decided", ![s].decisions = made]
    BY <1>5 DEF DecideLane
  <2>3. \A d \in made : d.kind # "authorize"
    BY <1>1, <2>1, <2>2 DEF Decided
  <2>4. \A d \in made : SawItsCharge(d)
    BY <2>3 DEF SawItsCharge
  <2>5. session' = [session EXCEPT ![s] = [q EXCEPT !.phase = "decided", !.result = q.result,
                                                    !.decisions = made]]
    <3>1. [q EXCEPT !.phase = "decided", !.decisions = made]
            = [q EXCEPT !.phase = "decided", !.result = q.result, !.decisions = made]
      BY <1>1 DEF Transaction
    <3>2. session' = [session EXCEPT ![s] = [q EXCEPT !.phase = "decided", !.decisions = made]]
      BY <1>1, <2>2 DEF StoreInv, TypeOK
    <3>. QED
      BY <3>1, <3>2
  <2>. QED
    BY <1>1, <1>3, <2>1, <2>4, <2>5 DEF AuthResult, Transaction
<1>. QED
  BY <1>4, <1>5 DEF Decide

(* What is committed of a declined charge has been superseded by then.     *)
LEMMA PresumptionCommit ==
  ASSUME StoreInv, PresumptionInv, NEW s \in Session, Commit(s)
  PROVE  PresumptionInv'
<1>1. PICK q \in Transaction : q = session[s]
  BY RunningType DEF Commit, IsComplete, StoreInv
<1>2. /\ Running(s) /\ Presumes(q)
      /\ q.phase = (IF q.result = "declined" THEN "recomputed" ELSE "decided")
  BY <1>1 DEF Commit, IsComplete, PresumptionInv
<1>3. /\ transactions' = [c \in Charge |-> ResultOf(s, c)]
      /\ feature_values' = feature_values \cup q.values
      /\ decisions' = decisions \cup q.decisions
      /\ clock' = clock
      /\ session'[s] = Idle /\ \A r \in Session : r # s => session'[r] = session[r]
  BY <1>1 DEF Commit, AppendedValues, StoreInv, TypeOK
<1>4. \A c \in Charge : /\ c # q.charge => transactions'[c] = transactions[c]
                        /\ c = q.charge => transactions'[c] = q.result
  BY <1>1, <1>3 DEF ResultOf
<1>5. q.charge # NoCharge =>
        /\ q.charge \in Charge /\ transactions[q.charge] = "none"
        /\ q.result \in {"approved", "declined"}
  BY <1>1, <1>2 DEF Presumes, Transaction, AuthResult
<1>6. Recorded \subseteq Recorded'
  BY <1>4, <1>5, NoChargeAssumption DEF Recorded
<1>7. q.charge # NoCharge => q.charge \in Recorded'
  BY <1>4, <1>5 DEF Recorded
<1>8. \A c \in Charge : transactions[c] = "approved" => transactions'[c] = "approved"
  BY <1>4, <1>5, NoChargeAssumption
<1>9. \A v \in feature_values \cup q.values : v \in Value /\ v.counted \subseteq Charge
  BY <1>1 DEF StoreInv, TypeOK, Transaction, Value
<1>10. ASSUME NEW v \in feature_values PROVE Repaired(v)'
  <2>1. Repaired(v)
    BY DEF PresumptionInv
  <2>2. Superseded(v) => Superseded(v)'
    BY <1>3 DEF Superseded
  <2>. QED
    BY <1>6, <1>8, <1>9, <2>1, <2>2 DEF Repaired
<1>11. ASSUME NEW v \in q.values PROVE Repaired(v)'
  <2>1. /\ \A c \in v.counted : c = q.charge \/ transactions[c] = "approved"
        /\ q.charge # NoCharge => v.as_of = At[q.charge]
        /\ q.charge = NoCharge => \E c \in Recorded : At[c] = v.as_of
    BY <1>2 DEF Presumes
  <2>2. \E c \in Recorded' : At[c] = v.as_of
    BY <1>6, <1>7, <2>1
  <2>3. ASSUME NEW c \in v.counted
        PROVE  c \in Recorded' /\ (transactions'[c] = "approved" \/ Superseded(v)')
    <3>1. c \in Charge /\ c # NoCharge
      BY <1>9, NoChargeAssumption
    <3>2. CASE transactions[c] = "approved"
      BY <1>6, <1>8, <3>1, <3>2 DEF Recorded
    <3>3. CASE c = q.charge /\ q.result = "approved"
      BY <1>4, <1>7, <3>1, <3>3
    <3>4. CASE c = q.charge /\ q.result = "declined"
      <4>1. PICK w \in q.values : \A u \in q.values :
              q.charge \in u.counted => u.computed_at < w.computed_at
        BY <1>2, <3>4 DEF Presumes
      <4>2. w.as_of = v.as_of
        BY <1>2, <3>1, <3>4 DEF Presumes
      <4>3. v.computed_at < w.computed_at
        BY <3>4, <4>1
      <4>. QED
        BY <1>3, <1>7, <3>1, <3>4, <4>2, <4>3 DEF Superseded
    <3>. QED
      BY <1>5, <2>1, <3>1, <3>2, <3>3, <3>4
  <2>. QED
    BY <2>2, <2>3 DEF Repaired
<1>12. \A d \in decisions' : SawItsCharge(d)
  BY <1>2, <1>3 DEF PresumptionInv, Presumes
<1>13. ASSUME NEW r \in Session, Running(r)' PROVE Presumes(session[r])'
  <2>1. r # s /\ Running(r) /\ session'[r] = session[r]
    BY <1>3, <1>13 DEF Running
  <2>2. PICK t \in Transaction : t = session[r]
    BY <2>1, RunningType DEF StoreInv
  <2>3. Presumes(t)
    BY <2>1, <2>2 DEF PresumptionInv
  <2>4. t.charge # NoCharge => t.charge \in Charge /\ transactions'[t.charge] = "none"
    <3>1. t.charge # NoCharge => t.charge \in Charge /\ t.charge # q.charge
      BY <1>1, <1>2, <2>1, <2>2 DEF PresumptionInv, Transaction
    <3>. QED
      BY <1>4, <2>3, <3>1 DEF Presumes
  <2>5. \A v \in t.values : v.counted \subseteq Charge
    BY <2>2 DEF Transaction, Value
  <2>6. \A v \in t.values :
          /\ v.computed_at <= clock'
          /\ \A c \in v.counted : c = t.charge \/ transactions'[c] = "approved"
          /\ t.charge # NoCharge => v.as_of = At[t.charge]
          /\ t.charge = NoCharge => \E c \in Recorded' : At[c] = v.as_of
    BY <1>3, <1>6, <1>8, <2>3, <2>5 DEF Presumes
  <2>7. Presumes(t)'
    BY <2>3, <2>4, <2>6 DEF Presumes
  <2>8. session'[r] = t
    BY <2>1, <2>2
  <2>. QED
    BY <2>7, <2>8 DEF Presumes
<1>14. ASSUME NEW r \in Session, NEW t \in Session, r # t, Running(r)', Running(t)',
              session'[r].charge # NoCharge
       PROVE  session'[r].charge # session'[t].charge
  BY <1>3, <1>14 DEF Running, PresumptionInv
<1>. QED
  BY <1>3, <1>10, <1>11, <1>12, <1>13, <1>14 DEF PresumptionInv

LEMMA PresumptionStep ==
  ASSUME StoreInv, PresumptionInv, [Next]_vars
  PROVE  PresumptionInv'
<1>1. ASSUME NEW s \in Session, NEW kind \in {"authorize", "what-if"}, NEW c \in Charge,
             NEW result \in {"approved", "declined"}, Arrive(s, kind, c, result)
      PROVE  PresumptionInv'
  BY <1>1, PresumptionTransact DEF Arrive, AuthResult
<1>2. ASSUME NEW s \in Session, StartCycle(s) \/ StartRescore(s) PROVE PresumptionInv'
  BY <1>2, PresumptionTransact DEF StartCycle, StartRescore, AuthResult
<1>3. ASSUME NEW s \in Session, Rollback(s) PROVE PresumptionInv'
  BY <1>3, PresumptionKept DEF Rollback
<1>4. CASE UNCHANGED vars
  BY <1>4 DEF vars, PresumptionInv, Repaired, Superseded, Recorded, Running, Presumes
<1>. QED
  BY <1>1, <1>2, <1>3, <1>4, PresumptionRun, PresumptionDecide, PresumptionCommit DEF Next

(* Whatever passes and commits overlap: an authorisation saw its charge,   *)
(* and the newest row of an instant counts approved charges only.          *)
THEOREM PresumptionCorrect == Spec => []PresumptionRepaired
<1>1. Init => PresumptionInv
  BY DEF Init, PresumptionInv, Running
<1>2. StoreInv /\ PresumptionInv => PresumptionRepaired
  <2> SUFFICES ASSUME StoreInv, PresumptionInv PROVE PresumptionRepaired
    OBVIOUS
  <2>1. \A d \in decisions : SawItsCharge(d)
    BY DEF PresumptionInv
  <2>2. ASSUME NEW v \in feature_values
        PROVE  /\ v.counted \subseteq Recorded
               /\ (\A w \in feature_values : w.as_of = v.as_of => w.computed_at <= v.computed_at)
                    => \A c \in v.counted : transactions[c] = "approved"
    <3>1. Repaired(v) /\ \A w \in feature_values : w.computed_at \in Nat
      BY DEF PresumptionInv, StoreInv, TypeOK, Value
    <3>. QED
      BY <3>1 DEF Repaired, Superseded
  <2>. QED
    BY <2>1, <2>2 DEF PresumptionRepaired, SawItsCharge
<1>. QED
  BY <1>1, <1>2, PresumptionStep, StoreCorrect, PTL DEF Spec
==========================================================================
