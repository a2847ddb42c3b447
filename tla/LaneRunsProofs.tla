-------------------------- MODULE LaneRunsProofs ---------------------------
(***************************************************************************)
(* What holds of LaneRuns for any runs, settlers, keys, scores and         *)
(* batches.                                                                *)
(***************************************************************************)
EXTENDS LaneRuns, FiniteSetTheorems, TLAPS

----------------------------------------------------------------------------
(* The plan of a run, and the rows it has locked.                          *)

Ascending(plan) == \A i, j \in DOMAIN plan : i < j => plan[i].key < plan[j].key

(* A run has rows of keys that its plan has behind it, and waits for the   *)
(* case that the head of the plan belongs to.                              *)
InOrder(r) ==
  /\ Ascending(run[r].plan)
  /\ \A a \in DOMAIN run[r].rows : \A i \in DOMAIN run[r].plan :
       run[r].rows[a].key < run[r].plan[i].key
  /\ \A a \in DOMAIN run[r].rows \cap DOMAIN alerts : run[r].rows[a].key = alerts[a].key
  /\ run[r].status = "waiting" =>
       /\ run[r].plan # <<>>
       /\ run[r].target \in DOMAIN alerts
       /\ alerts[run[r].target].key = Head(run[r].plan).key
  /\ ~Active(r) => run[r].rows = NoRows /\ run[r].written = {}

(* No row is changed by two transactions that have not ended.              *)
Exclusive ==
  \A q, r \in Run : q # r => DOMAIN run[q].rows \cap DOMAIN run[r].rows = {}

LockInv == TablesOK /\ Exclusive /\ \A r \in Run : InOrder(r)

----------------------------------------------------------------------------
(* Lemmas about plans, rows and what a run sees.                           *)

LEMMA PlanSteps ==
  ASSUME NEW plan \in Seq(Evaluation), plan # <<>>, Ascending(plan)
  PROVE  /\ Head(plan) \in Evaluation
         /\ Head(plan) = plan[1] /\ 1 \in DOMAIN plan
         /\ Tail(plan) \in Seq(Evaluation)
         /\ Ascending(Tail(plan))
         /\ \A i \in DOMAIN Tail(plan) :
              /\ Head(plan).key < Tail(plan)[i].key
              /\ i + 1 \in DOMAIN plan /\ Tail(plan)[i] = plan[i + 1]
<1>1. /\ Len(plan) \in Nat \ {0} /\ DOMAIN plan = 1 .. Len(plan)
      /\ Head(plan) = plan[1] /\ plan[1] \in Evaluation
      /\ Tail(plan) \in Seq(Evaluation) /\ Len(Tail(plan)) = Len(plan) - 1
      /\ DOMAIN Tail(plan) = 1 .. Len(plan) - 1
      /\ \A i \in 1 .. Len(plan) - 1 : Tail(plan)[i] = plan[i + 1]
  OBVIOUS
<1>2. \A i \in DOMAIN Tail(plan) : i + 1 \in DOMAIN plan /\ 1 < i + 1
  BY <1>1
<1>3. \A i \in DOMAIN Tail(plan) : Head(plan).key < Tail(plan)[i].key
  BY <1>1, <1>2 DEF Ascending
<1>4. \A i, j \in DOMAIN Tail(plan) : i < j => Tail(plan)[i].key < Tail(plan)[j].key
  <2> TAKE i, j \in DOMAIN Tail(plan)
  <2> HAVE i < j
  <2>1. i + 1 \in DOMAIN plan /\ j + 1 \in DOMAIN plan /\ i + 1 < j + 1
    BY <1>1
  <2>. QED
    BY <1>1, <2>1 DEF Ascending
<1>. QED
  BY <1>1, <1>2, <1>3, <1>4 DEF Ascending

(* What the planner lists is a sequence in the order of the keys.          *)
LEMMA PlansAscend ==
  ASSUME NEW batch \in Batch, NEW plan \in PlansOf(batch)
  PROVE  plan \in Seq(Evaluation) /\ Ascending(plan)
<1>1. batch \subseteq Evaluation /\ IsFiniteSet(batch)
  BY BatchAssumption DEF Evaluation
<1>2. Cardinality(batch) \in Nat
  BY <1>1, FS_CardinalityType
<1>3. plan \in [1 .. Cardinality(batch) -> batch]
  BY DEF PlansOf, SetToSeqs
<1>4. plan \in Seq(Evaluation)
  BY <1>1, <1>2, <1>3
<1>. QED
  BY <1>4 DEF PlansOf, Ascending

LEMMA EmptyPlan == <<>> \in Seq(Evaluation) /\ Ascending(<<>>)
BY DEF Ascending

LEMMA NoRowsType ==
  ASSUME lastId \in Nat
  PROVE  AreRows(NoRows, lastId) /\ DOMAIN NoRows = {}
BY DEF AreRows, NoRows

(* Adding a row, or changing one.                                          *)
LEMMA WithRow ==
  ASSUME NEW rows, NEW a, NEW row
  PROVE  /\ DOMAIN With(rows, a, row) = DOMAIN rows \cup {a}
         /\ With(rows, a, row)[a] = row
         /\ \A b \in DOMAIN rows \ {a} : With(rows, a, row)[b] = rows[b]
BY DEF With

LEMMA VisibleRows ==
  ASSUME NEW r \in Run
  PROVE  /\ DOMAIN Visible(r) = DOMAIN run[r].rows \cup DOMAIN alerts
         /\ \A a \in DOMAIN run[r].rows : Visible(r)[a] = run[r].rows[a]
         /\ \A a \in DOMAIN alerts \ DOMAIN run[r].rows : Visible(r)[a] = alerts[a]
BY DEF Visible

(* The case of the head of a plan is one that the run has not changed yet. *)
LEMMA HeadUntouched ==
  ASSUME LockInv, NEW r \in Run, run[r].plan # <<>>,
         NEW a \in DOMAIN Visible(r), Visible(r)[a].key = Head(run[r].plan).key
  PROVE  a \in DOMAIN alerts /\ a \notin DOMAIN run[r].rows /\ Visible(r)[a] = alerts[a]
<1>1. run[r].plan \in Seq(Evaluation) /\ Ascending(run[r].plan)
  BY DEF LockInv, TablesOK, IsTransaction, InOrder
<1>2. 1 \in DOMAIN run[r].plan /\ Head(run[r].plan) = run[r].plan[1]
      /\ Head(run[r].plan) \in Evaluation
  BY <1>1, PlanSteps
<1>3. a \notin DOMAIN run[r].rows
  <2> SUFFICES ASSUME a \in DOMAIN run[r].rows PROVE FALSE
    OBVIOUS
  <2>1. run[r].rows[a].key < run[r].plan[1].key
    BY <1>2 DEF LockInv, InOrder
  <2>2. run[r].rows[a].key = run[r].plan[1].key
    BY <1>2, VisibleRows
  <2>3. run[r].plan[1].key \in Nat
    BY <1>2, KeyAssumption DEF Evaluation
  <2>. QED
    BY <2>1, <2>2, <2>3
<1>. QED
  BY <1>3, VisibleRows

(* Restating or folding keeps the identity of a case.                      *)
LEMMA WorsenedRow ==
  ASSUME NEW row \in Alert, NEW r \in Run, NEW e \in Evaluation
  PROVE  /\ Worsened(row, r, e) \in Alert
         /\ Worsened(row, r, e).key = row.key
         /\ Worsened(row, r, e).raisedBy = row.raisedBy
         /\ Worsened(row, r, e).triggering = row.triggering + 1
         /\ e.score > row.score =>
              /\ Worsened(row, r, e).score = e.score
              /\ Worsened(row, r, e).decision = r /\ Worsened(row, r, e).bar = r
         /\ ~(e.score > row.score) =>
              /\ Worsened(row, r, e).score = row.score
              /\ Worsened(row, r, e).decision = row.decision
              /\ Worsened(row, r, e).bar = row.bar
<1>1. e.score \in Score /\ row.triggering + 1 \in Nat
  BY DEF Alert, Evaluation
<1>2. CASE e.score > row.score
  <2>1. Worsened(row, r, e) =
          [row EXCEPT !.triggering = @ + 1, !.score = e.score, !.decision = r, !.bar = r]
    BY <1>2 DEF Worsened
  <2>. QED
    BY <1>1, <1>2, <2>1 DEF Alert
<1>3. CASE ~(e.score > row.score)
  <2>1. Worsened(row, r, e) = [row EXCEPT !.triggering = @ + 1]
    BY <1>3 DEF Worsened
  <2>. QED
    BY <1>1, <1>3, <2>1 DEF Alert
<1>. QED
  BY <1>2, <1>3

----------------------------------------------------------------------------
(* What the steps of a run do to it.                                       *)

New(r, e, a, routing) ==
  [run |-> r, key |-> e.key, score |-> e.score, alert |-> a, routing |-> routing]

(* A head is routed: r alone changes, by one decision and the rows given.  *)
LEMMA RoutedRun ==
  ASSUME TablesOK, NEW r \in Run, NEW a, NEW routing, NEW rows, Routed(r, a, routing, rows)
  PROVE  /\ DOMAIN run' = Run
         /\ \A q \in Run \ {r} : run'[q] = run[q]
         /\ DOMAIN run'[r] = DOMAIN run[r]
         /\ run'[r].status = "routing" /\ run'[r].target = 0
         /\ run'[r].plan = Tail(run[r].plan)
         /\ run'[r].rows = rows
         /\ run'[r].written =
              run[r].written \cup {New(r, Head(run[r].plan), a, routing)}
         /\ run'[r].known = run[r].known
<1>1. DOMAIN run = Run /\ DOMAIN run[r] = {"status", "plan", "target", "rows", "written", "known"}
  BY DEF TablesOK, IsTransaction
<1>2. run' = [run EXCEPT ![r].status = "routing", ![r].plan = Tail(@), ![r].target = 0,
    ![r].rows = rows,
    ![r].written = @ \cup {New(r, Head(run[r].plan), a, routing)}]
  BY DEF Routed, New
<1>. QED
  BY <1>1, <1>2

(* A step that changes one run, and no committed case, keeps the order of  *)
(* the others.                                                             *)
LEMMA OneRunChanges ==
  ASSUME LockInv, NEW r \in Run, UNCHANGED <<alerts, decisions, outcomes, settler>>,
         lastId' \in Nat, lastId <= lastId', DOMAIN run' = Run,
         \A q \in Run \ {r} : run'[q] = run[q],
         IsTransaction(run[r])', InOrder(r)',
         \A q \in Run \ {r} : DOMAIN run'[r].rows \cap DOMAIN run[q].rows = {}
  PROVE  LockInv'
<1>2. \A q \in Run \ {r} : IsTransaction(run[q])'
  <2> TAKE q \in Run \ {r}
  <2>1. IsTransaction(run[q]) /\ run'[q] = run[q]
    BY DEF LockInv, TablesOK
  <2>2. AreRows(run'[q].rows, lastId')
    BY <2>1 DEF IsTransaction, AreRows, LockInv, TablesOK
  <2>. QED
    BY <2>1, <2>2 DEF IsTransaction
<1>3. AreRows(alerts, lastId')
  BY DEF AreRows, LockInv, TablesOK
<1>4. TablesOK'
  BY <1>2, <1>3 DEF LockInv, TablesOK
<1>5. \A q \in Run \ {r} : InOrder(q)'
  BY DEF LockInv, InOrder, Active
<1>6. Exclusive'
  BY DEF LockInv, Exclusive
<1>. QED
  BY <1>4, <1>5, <1>6 DEF LockInv

(* The type of a routed head's transaction.                                *)
LEMMA RoutedType ==
  ASSUME LockInv, NEW r \in Run, run[r].plan # <<>>,
         NEW a \in Nat, NEW routing \in {"raised", "restated", "folded", "suppressed"},
         NEW rows, Routed(r, a, routing, rows), AreRows(rows, lastId')
  PROVE  IsTransaction(run[r])'
<1>1. /\ IsTransaction(run[r]) /\ run[r].plan \in Seq(Evaluation)
      /\ Ascending(run[r].plan)
  BY DEF LockInv, TablesOK, IsTransaction, InOrder
<1>2. Head(run[r].plan) \in Evaluation /\ Tail(run[r].plan) \in Seq(Evaluation)
  BY <1>1, PlanSteps
<1>3. New(r, Head(run[r].plan), a, routing) \in Decision
  BY <1>2 DEF New, Decision, Evaluation
<1>4. TablesOK
  BY DEF LockInv
<1>. QED
  <2>1. /\ DOMAIN run'[r] = DOMAIN run[r]
        /\ run'[r].status = "routing" /\ run'[r].target = 0
        /\ run'[r].plan = Tail(run[r].plan)
        /\ run'[r].rows = rows
        /\ run'[r].written =
             run[r].written \cup {New(r, Head(run[r].plan), a, routing)}
        /\ run'[r].known = run[r].known
    BY <1>4, RoutedRun
  <2>. QED
    BY <1>1, <1>2, <1>3, <2>1 DEF IsTransaction

(* The order is kept when the head's case is written, or none is.          *)
LEMMA RoutedInOrder ==
  ASSUME LockInv, NEW r \in Run, run[r].plan # <<>>, UNCHANGED alerts,
         NEW a, NEW routing, NEW rows, Routed(r, a, routing, rows),
         \A b \in DOMAIN rows :
           \/ b \in DOMAIN run[r].rows /\ rows[b] = run[r].rows[b]
           \/ /\ rows[b].key = Head(run[r].plan).key
              /\ b \in DOMAIN alerts => alerts[b].key = rows[b].key
  PROVE  InOrder(r)'
<1>1. /\ run[r].plan \in Seq(Evaluation) /\ Ascending(run[r].plan)
      /\ InOrder(r) /\ TablesOK
  BY DEF LockInv, TablesOK, IsTransaction, InOrder
<1>2. /\ run'[r].status = "routing" /\ run'[r].plan = Tail(run[r].plan)
      /\ run'[r].rows = rows
  BY <1>1, RoutedRun
<1>3. Ascending(run'[r].plan)
  BY <1>1, <1>2, PlanSteps
<1>4. \A b \in DOMAIN rows : \A i \in DOMAIN Tail(run[r].plan) :
        rows[b].key < Tail(run[r].plan)[i].key
  <2> SUFFICES ASSUME NEW b \in DOMAIN rows, NEW i \in DOMAIN Tail(run[r].plan)
               PROVE  rows[b].key < Tail(run[r].plan)[i].key
    OBVIOUS
  <2>1. /\ Head(run[r].plan).key < Tail(run[r].plan)[i].key
        /\ i + 1 \in DOMAIN run[r].plan /\ Tail(run[r].plan)[i] = run[r].plan[i + 1]
    BY <1>1, PlanSteps
  <2>. QED
    BY <1>1, <2>1 DEF InOrder
<1>5. \A b \in DOMAIN rows \cap DOMAIN alerts : rows[b].key = alerts[b].key
  BY <1>1 DEF InOrder
<1>. QED
  BY <1>2, <1>3, <1>4, <1>5 DEF InOrder, Active

----------------------------------------------------------------------------
(* Each step keeps the order.                                              *)

LEMMA UpdateKeepsLocks ==
  ASSUME LockInv, NEW r \in Run, run[r].plan # <<>>,
         NEW a \in DOMAIN Visible(r), Visible(r)[a].key = Head(run[r].plan).key,
         ~Locked(r, a), Update(r, a),
         UNCHANGED <<alerts, decisions, outcomes, settler, lastId>>
  PROVE  LockInv'
<1>. DEFINE e == Head(run[r].plan)
            rows == With(run[r].rows, a, Worsened(Visible(r)[a], r, e))
            routing == IF e.score > Visible(r)[a].score THEN "restated" ELSE "folded"
<1>1. a \in DOMAIN alerts /\ a \notin DOMAIN run[r].rows /\ Visible(r)[a] = alerts[a]
  BY HeadUntouched
<1>2. /\ TablesOK /\ AreRows(alerts, lastId) /\ IsTransaction(run[r]) /\ lastId \in Nat
      /\ run[r].plan \in Seq(Evaluation) /\ Ascending(run[r].plan)
  BY DEF LockInv, TablesOK, IsTransaction, InOrder
<1>3. alerts[a] \in Alert /\ a \in 1 .. lastId /\ a \in Nat /\ e \in Evaluation
  BY <1>1, <1>2, PlanSteps DEF AreRows
<1>4. Worsened(alerts[a], r, e) \in Alert /\ Worsened(alerts[a], r, e).key = alerts[a].key
  BY <1>3, WorsenedRow
<1>5. Routed(r, a, routing, rows)
  BY DEF Update
<1>6. /\ DOMAIN rows = DOMAIN run[r].rows \cup {a}
      /\ rows[a] = Worsened(alerts[a], r, e)
      /\ \A b \in DOMAIN run[r].rows \ {a} : rows[b] = run[r].rows[b]
  BY <1>1 DEF With
<1>7. AreRows(rows, lastId')
  <2>1. rows = [b \in DOMAIN rows |-> rows[b]]
    BY DEF With
  <2>2. \A b \in DOMAIN rows : rows[b] \in Alert /\ b \in 1 .. lastId
    BY <1>2, <1>3, <1>4, <1>6 DEF IsTransaction, AreRows
  <2>. QED
    BY <2>1, <2>2 DEF AreRows
<1>. HIDE DEF rows, routing, e
<1>8. routing \in {"raised", "restated", "folded", "suppressed"}
  BY DEF routing
<1>9. IsTransaction(run[r])'
  BY <1>3, <1>5, <1>7, <1>8, RoutedType
<1>10. InOrder(r)'
  <2>1. \A b \in DOMAIN rows :
           \/ b \in DOMAIN run[r].rows /\ rows[b] = run[r].rows[b]
           \/ /\ rows[b].key = Head(run[r].plan).key
              /\ b \in DOMAIN alerts => alerts[b].key = rows[b].key
    BY <1>1, <1>4, <1>6
  <2>. QED
    BY <1>5, <2>1, RoutedInOrder
<1>11. /\ DOMAIN run' = Run /\ \A q \in Run \ {r} : run'[q] = run[q]
       /\ run'[r].rows = rows
  BY <1>2, <1>5, RoutedRun
<1>12. \A q \in Run \ {r} : DOMAIN run'[r].rows \cap DOMAIN run[q].rows = {}
  BY <1>6, <1>11 DEF Locked, Excluded, LockInv, Exclusive
<1>. QED
  BY <1>2, <1>9, <1>10, <1>11, <1>12, OneRunChanges

LEMMA SuppressKeepsLocks ==
  ASSUME LockInv, NEW r \in Run, RouteSuppressed(r)
  PROVE  LockInv'
<1>1. PICK a \in DOMAIN Visible(r) : Routed(r, a, "suppressed", run[r].rows)
  BY DEF RouteSuppressed
<1>2. /\ TablesOK /\ lastId \in Nat /\ AreRows(alerts, lastId) /\ AreRows(run[r].rows, lastId)
      /\ run[r].plan # <<>>
      /\ UNCHANGED <<alerts, decisions, outcomes, settler, lastId>>
  BY DEF LockInv, TablesOK, IsTransaction, RouteSuppressed, MayRoute
<1>3. a \in Nat
  <2>1. a \in DOMAIN run[r].rows \cup DOMAIN alerts
    BY VisibleRows
  <2>. QED
    BY <1>2, <2>1 DEF AreRows
<1>4. /\ DOMAIN run' = Run /\ \A q \in Run \ {r} : run'[q] = run[q]
      /\ run'[r].rows = run[r].rows
  BY <1>1, <1>2, RoutedRun
<1>5. AreRows(run[r].rows, lastId')
  BY <1>2
<1>6. IsTransaction(run[r])'
  BY <1>1, <1>2, <1>3, <1>5, RoutedType
<1>7. InOrder(r)'
  BY <1>1, <1>2, RoutedInOrder
<1>8. \A q \in Run \ {r} : DOMAIN run'[r].rows \cap DOMAIN run[q].rows = {}
  BY <1>4 DEF LockInv, Exclusive
<1>. QED
  BY <1>2, <1>4, <1>6, <1>7, <1>8, OneRunChanges

(* The row of a new case.                                                  *)
Raised(r, e) ==
  [key |-> e.key, score |-> e.score, decision |-> r, bar |-> r,
   triggering |-> 1, raisedBy |-> r]

LEMMA RaiseKeepsLocks ==
  ASSUME LockInv, NEW r \in Run, RouteRaised(r)
  PROVE  LockInv'
<1>. DEFINE e == Head(run[r].plan)
            rows == With(run[r].rows, lastId', Raised(r, e))
<1>1. /\ TablesOK /\ lastId \in Nat /\ AreRows(alerts, lastId) /\ AreRows(run[r].rows, lastId)
      /\ run[r].plan # <<>> /\ lastId' = lastId + 1
      /\ run[r].plan \in Seq(Evaluation) /\ Ascending(run[r].plan)
      /\ UNCHANGED <<alerts, decisions, outcomes, settler>>
  BY DEF LockInv, TablesOK, IsTransaction, RouteRaised, MayRoute, InOrder
<1>2. Routed(r, lastId', "raised", rows)
  BY DEF RouteRaised, Raised
<1>3. /\ DOMAIN rows = DOMAIN run[r].rows \cup {lastId'}
      /\ rows[lastId'] = Raised(r, e)
      /\ \A b \in DOMAIN run[r].rows \ {lastId'} : rows[b] = run[r].rows[b]
      /\ rows = [b \in DOMAIN rows |-> rows[b]]
  BY DEF With
<1>4. \A q \in Run : lastId' \notin DOMAIN run[q].rows
  BY <1>1 DEF TablesOK, IsTransaction, AreRows
<1>5. lastId' \notin DOMAIN alerts
  BY <1>1 DEF AreRows
<1>6. Raised(r, e) \in Alert
  BY <1>1, PlanSteps DEF Raised, Alert, Evaluation
<1>7. AreRows(rows, lastId')
  <2>1. \A b \in DOMAIN rows : rows[b] \in Alert /\ b \in 1 .. lastId'
    BY <1>1, <1>3, <1>4, <1>6 DEF AreRows
  <2>. QED
    BY <1>3, <2>1 DEF AreRows
<1>8. rows[lastId'].key = e.key
  BY <1>3 DEF Raised
<1>. HIDE DEF rows, e
<1>9. IsTransaction(run[r])'
  BY <1>1, <1>2, <1>7, RoutedType
<1>10. InOrder(r)'
  <2>1. \A b \in DOMAIN rows :
           \/ b \in DOMAIN run[r].rows /\ rows[b] = run[r].rows[b]
           \/ /\ rows[b].key = Head(run[r].plan).key
              /\ b \in DOMAIN alerts => alerts[b].key = rows[b].key
    BY <1>3, <1>4, <1>5, <1>8 DEF e
  <2>. QED
    BY <1>1, <1>2, <2>1, RoutedInOrder
<1>11. /\ DOMAIN run' = Run /\ \A q \in Run \ {r} : run'[q] = run[q]
       /\ run'[r].rows = rows
  BY <1>1, <1>2, RoutedRun
<1>12. \A q \in Run \ {r} : DOMAIN run'[r].rows \cap DOMAIN run[q].rows = {}
  BY <1>3, <1>4, <1>11 DEF LockInv, Exclusive
<1>. QED
  BY <1>1, <1>9, <1>10, <1>11, <1>12, OneRunChanges

LEMMA OpenKeepsLocks ==
  ASSUME LockInv, NEW r \in Run, RouteToOpen(r)
  PROVE  LockInv'
<1>1. PICK a \in DOMAIN Visible(r) :
        /\ IsNewestOf(a, OpenCases(r, Head(run[r].plan)))
        /\ IF Locked(r, a)
           THEN run' = [run EXCEPT ![r].status = "waiting", ![r].target = a]
           ELSE Update(r, a)
  BY DEF RouteToOpen
<1>2. /\ run[r].status = "routing" /\ run[r].plan # <<>>
      /\ UNCHANGED <<alerts, decisions, outcomes, settler, lastId>>
      /\ Visible(r)[a].key = Head(run[r].plan).key
      /\ lastId \in Nat /\ IsTransaction(run[r]) /\ InOrder(r)
  BY <1>1 DEF RouteToOpen, MayRoute, IsNewestOf, OpenCases, LockInv, TablesOK
<1>3. CASE ~Locked(r, a)
  BY <1>1, <1>2, <1>3, UpdateKeepsLocks
<1>4. CASE Locked(r, a)
  <2>1. a \in DOMAIN alerts /\ a \in Nat /\ alerts[a].key = Head(run[r].plan).key
    BY <1>2, HeadUntouched DEF LockInv, TablesOK, AreRows
  <2>2. /\ DOMAIN run' = Run /\ \A q \in Run \ {r} : run'[q] = run[q]
        /\ DOMAIN run'[r] = DOMAIN run[r]
        /\ run'[r].status = "waiting" /\ run'[r].target = a
        /\ run'[r].plan = run[r].plan /\ run'[r].rows = run[r].rows
        /\ run'[r].written = run[r].written /\ run'[r].known = run[r].known
    <3>1. /\ run' = [run EXCEPT ![r].status = "waiting", ![r].target = a]
          /\ DOMAIN run = Run
          /\ DOMAIN run[r] = {"status", "plan", "target", "rows", "written", "known"}
      BY <1>1, <1>2, <1>4 DEF LockInv, TablesOK, IsTransaction
    <3>. QED
      BY <3>1
  <2>3. IsTransaction(run[r])'
    BY <1>2, <2>1, <2>2 DEF IsTransaction
  <2>4. InOrder(r)'
    BY <1>2, <2>1, <2>2 DEF InOrder, Active
  <2>5. \A q \in Run \ {r} : DOMAIN run'[r].rows \cap DOMAIN run[q].rows = {}
    BY <2>2 DEF LockInv, Exclusive
  <2>. QED
    BY <1>2, <2>2, <2>3, <2>4, <2>5, OneRunChanges
<1>. QED
  BY <1>3, <1>4

LEMMA ResumeKeepsLocks ==
  ASSUME LockInv, NEW r \in Run, Resume(r)
  PROVE  LockInv'
<1>. DEFINE a == run[r].target
<1>1. /\ run[r].plan # <<>> /\ a \in DOMAIN alerts
      /\ alerts[a].key = Head(run[r].plan).key
      /\ ~Locked(r, a) /\ Update(r, a)
      /\ UNCHANGED <<alerts, decisions, outcomes, settler, lastId>>
  BY DEF Resume, LockInv, InOrder
<1>2. a \in DOMAIN Visible(r)
  BY <1>1, VisibleRows
<1>3. Visible(r)[a].key = alerts[a].key
  <2>1. CASE a \in DOMAIN run[r].rows
    <3>1. run[r].rows[a].key = alerts[a].key
      BY <1>1, <2>1 DEF LockInv, InOrder
    <3>2. Visible(r)[a] = run[r].rows[a]
      BY <2>1, VisibleRows
    <3>. QED
      BY <3>1, <3>2
  <2>2. CASE a \notin DOMAIN run[r].rows
    BY <1>1, <2>2, VisibleRows
  <2>. QED
    BY <2>1, <2>2
<1>. HIDE DEF a
<1>. QED
  BY <1>1, <1>2, <1>3, UpdateKeepsLocks

(* A run that begins, or that ends without a trace.                        *)
LEMMA FreshKeepsLocks ==
  ASSUME LockInv, NEW r \in Run, NEW t,
         DOMAIN t = {"status", "plan", "target", "rows", "written", "known"},
         t.status \in {"routing", "ended"}, t.target = 0,
         t.plan \in Seq(Evaluation), Ascending(t.plan),
         t.rows = NoRows, t.written = {}, t.known \subseteq Nat,
         run' = [run EXCEPT ![r] = t],
         UNCHANGED <<alerts, decisions, outcomes, settler, lastId>>
  PROVE  LockInv'
<1>1. /\ DOMAIN run' = Run /\ \A q \in Run \ {r} : run'[q] = run[q]
      /\ run'[r] = t /\ lastId \in Nat
  BY DEF LockInv, TablesOK
<1>2. AreRows(NoRows, lastId) /\ DOMAIN NoRows = {}
  BY <1>1, NoRowsType
<1>3. IsTransaction(run[r])'
  BY <1>1, <1>2 DEF IsTransaction
<1>4. InOrder(r)'
  BY <1>1, <1>2 DEF InOrder, Active
<1>5. \A q \in Run \ {r} : DOMAIN run'[r].rows \cap DOMAIN run[q].rows = {}
  BY <1>1, <1>2
<1>. QED
  BY <1>1, <1>3, <1>4, <1>5, OneRunChanges

LEMMA StartKeepsLocks ==
  ASSUME LockInv, NEW r \in Run, Start(r)
  PROVE  LockInv'
<1>1. PICK batch \in Batch : \E plan \in PlansOf(batch) :
        run' = [run EXCEPT ![r] =
          [Fresh EXCEPT !.status = "routing", !.plan = plan, !.known = DOMAIN alerts]]
  BY DEF Start
<1>2. PICK plan \in PlansOf(batch) :
        run' = [run EXCEPT ![r] =
          [Fresh EXCEPT !.status = "routing", !.plan = plan, !.known = DOMAIN alerts]]
  BY <1>1
<1>. DEFINE t == [Fresh EXCEPT !.status = "routing", !.plan = plan, !.known = DOMAIN alerts]
<1>3. plan \in Seq(Evaluation) /\ Ascending(plan)
  BY PlansAscend
<1>4. DOMAIN alerts \subseteq Nat
  BY DEF LockInv, TablesOK, AreRows
<1>5. /\ DOMAIN t = {"status", "plan", "target", "rows", "written", "known"}
      /\ t.status = "routing" /\ t.target = 0 /\ t.plan = plan
      /\ t.rows = NoRows /\ t.written = {} /\ t.known = DOMAIN alerts
  BY DEF Fresh
<1>6. run' = [run EXCEPT ![r] = t]
  BY <1>2
<1>. HIDE DEF t
<1>. QED
  BY <1>3, <1>4, <1>5, <1>6, FreshKeepsLocks DEF Start

LEMMA AbortKeepsLocks ==
  ASSUME LockInv, NEW r \in Run, Abort(r)
  PROVE  LockInv'
<1>. DEFINE t == [Fresh EXCEPT !.status = "ended"]
<1>1. /\ DOMAIN t = {"status", "plan", "target", "rows", "written", "known"}
      /\ t.status = "ended" /\ t.target = 0 /\ t.plan = <<>>
      /\ t.rows = NoRows /\ t.written = {} /\ t.known = {}
  BY DEF Fresh
<1>2. t.plan \in Seq(Evaluation) /\ Ascending(t.plan) /\ t.known \subseteq Nat
  BY <1>1, EmptyPlan
<1>3. run' = [run EXCEPT ![r] = t] /\ UNCHANGED <<alerts, decisions, outcomes, settler, lastId>>
  BY DEF Abort
<1>. HIDE DEF t
<1>. QED
  BY <1>1, <1>2, <1>3, FreshKeepsLocks

LEMMA CommitKeepsLocks ==
  ASSUME LockInv, NEW r \in Run, Commit(r)
  PROVE  LockInv'
<1>1. /\ TablesOK /\ IsTransaction(run[r]) /\ AreRows(alerts, lastId)
      /\ AreRows(run[r].rows, lastId) /\ lastId \in Nat
      /\ alerts' = Visible(r) /\ UNCHANGED <<outcomes, settler, lastId>>
      /\ decisions' = decisions \cup run[r].written
  BY DEF LockInv, TablesOK, IsTransaction, Commit
<1>2. /\ DOMAIN run' = Run /\ \A q \in Run \ {r} : run'[q] = run[q]
      /\ run'[r] = [Fresh EXCEPT !.status = "ended", !.known = run[r].known]
  BY <1>1 DEF Commit, TablesOK
<1>3. /\ DOMAIN run'[r] = {"status", "plan", "target", "rows", "written", "known"}
      /\ run'[r].status = "ended" /\ run'[r].target = 0 /\ run'[r].plan = <<>>
      /\ run'[r].rows = NoRows /\ run'[r].written = {} /\ run'[r].known = run[r].known
  BY <1>2 DEF Fresh
<1>4. AreRows(NoRows, lastId) /\ DOMAIN NoRows = {}
  BY <1>1, NoRowsType
<1>5. IsTransaction(run[r])'
  BY <1>1, <1>3, <1>4 DEF IsTransaction
<1>6. \A q \in Run \ {r} : IsTransaction(run[q])'
  BY <1>1, <1>2 DEF TablesOK, IsTransaction
<1>7. AreRows(alerts', lastId)
  <2>1. alerts' = [a \in DOMAIN alerts' |-> alerts'[a]]
    BY <1>1 DEF Visible
  <2>2. DOMAIN alerts' \subseteq 1 .. lastId /\ \A a \in DOMAIN alerts' : alerts'[a] \in Alert
    BY <1>1, VisibleRows DEF AreRows
  <2>. QED
    BY <2>1, <2>2 DEF AreRows
<1>8. TablesOK'
  BY <1>1, <1>2, <1>5, <1>6, <1>7 DEF TablesOK, IsTransaction
<1>9. Exclusive'
  BY <1>2, <1>3, <1>4 DEF LockInv, Exclusive
<1>10. DOMAIN alerts \subseteq DOMAIN alerts' /\ \A a \in DOMAIN alerts : alerts'[a].key = alerts[a].key
  <2>1. /\ DOMAIN alerts' = DOMAIN run[r].rows \cup DOMAIN alerts
        /\ \A a \in DOMAIN run[r].rows : alerts'[a] = run[r].rows[a]
        /\ \A a \in DOMAIN alerts \ DOMAIN run[r].rows : alerts'[a] = alerts[a]
    BY <1>1, VisibleRows
  <2>2. \A a \in DOMAIN run[r].rows \cap DOMAIN alerts : run[r].rows[a].key = alerts[a].key
    BY DEF LockInv, InOrder
  <2>. QED
    BY <2>1, <2>2
<1>11. InOrder(r)'
  BY <1>3, <1>4 DEF InOrder, Active, Ascending
<1>12. ASSUME NEW q \in Run \ {r} PROVE InOrder(q)'
  <2>1. InOrder(q) /\ run'[q] = run[q]
    BY <1>2 DEF LockInv
  <2>2. \A a \in DOMAIN run[q].rows \cap DOMAIN alerts' : a \in DOMAIN alerts
    BY <1>1, VisibleRows DEF LockInv, Exclusive
  <2>. QED
    BY <1>10, <2>1, <2>2 DEF InOrder, Active
<1>. QED
  BY <1>8, <1>9, <1>11, <1>12 DEF LockInv

LEMMA SettlersKeepLocks ==
  ASSUME LockInv, NEW s \in Settler,
         ReadUndisposed(s) \/ CommitVerdicts(s) \/ AbortSettler(s)
  PROVE  LockInv'
<1>1. /\ UNCHANGED <<alerts, decisions, run, lastId>>
      /\ outcomes' \subseteq Verdict /\ settler' \in [Settler -> Settling]
  <2>1. CASE ReadUndisposed(s)
    <3>1. Undisposed \subseteq Nat /\ outcomes \subseteq Verdict
      BY DEF Undisposed, LockInv, TablesOK, AreRows
    <3>2. [status |-> "read", cases |-> Undisposed, known |-> outcomes] \in Settling
      BY <3>1 DEF Settling
    <3>. QED
      BY <2>1, <3>2 DEF ReadUndisposed, LockInv, TablesOK
  <2>2. CASE CommitVerdicts(s)
    <3>1. settler[s] \in Settling /\ outcomes \subseteq Verdict
          /\ settler \in [Settler -> Settling]
      BY DEF LockInv, TablesOK
    <3>2. {[alert |-> a, settler |-> s] : a \in settler[s].cases} \subseteq Verdict
      BY <3>1 DEF Settling, Verdict
    <3>3. [settler[s] EXCEPT !.status = "ended"] \in Settling
      BY <3>1 DEF Settling
    <3>. QED
      BY <2>2, <3>1, <3>2, <3>3 DEF CommitVerdicts
  <2>3. CASE AbortSettler(s)
    <3>1. settler[s] \in Settling /\ settler \in [Settler -> Settling]
          /\ outcomes \subseteq Verdict
      BY DEF LockInv, TablesOK
    <3>2. [settler[s] EXCEPT !.status = "ended"] \in Settling
      BY <3>1 DEF Settling
    <3>. QED
      BY <2>3, <3>1, <3>2 DEF AbortSettler
  <2>. QED
    BY <2>1, <2>2, <2>3
<1>. QED
  BY <1>1 DEF LockInv, TablesOK, IsTransaction, Exclusive, InOrder, Active

LEMMA LockStep ==
  ASSUME LockInv, [Next]_vars
  PROVE  LockInv'
<1>1. ASSUME UNCHANGED <<alerts, decisions, outcomes, run, settler, lastId>> PROVE LockInv'
  BY <1>1 DEF LockInv, TablesOK, IsTransaction, Exclusive, InOrder, Active
<1>2. ASSUME NEW t, (t \in Run /\ ShareCase(t)) \/ (t \in Settler /\ WriteVerdict(t))
      PROVE  UNCHANGED <<alerts, decisions, outcomes, run, settler, lastId>>
  BY <1>2 DEF ShareCase, WriteVerdict
<1>. QED
  BY <1>1, <1>2, StartKeepsLocks, OpenKeepsLocks, SuppressKeepsLocks, RaiseKeepsLocks,
     ResumeKeepsLocks, CommitKeepsLocks, AbortKeepsLocks, SettlersKeepLocks
  DEF Next, Route, vars

LEMMA LocksCorrect == Spec => []LockInv
<1>1. Init => LockInv
  <2> SUFFICES ASSUME Init PROVE LockInv
    OBVIOUS
  <2>1. AreRows(NoRows, 0) /\ DOMAIN NoRows = {}
    BY DEF AreRows, NoRows
  <2>2. \A r \in Run :
          /\ DOMAIN run[r] = {"status", "plan", "target", "rows", "written", "known"}
          /\ run[r].status = "new" /\ run[r].target = 0 /\ run[r].plan = <<>>
          /\ run[r].rows = NoRows /\ run[r].written = {} /\ run[r].known = {}
    BY DEF Init, Fresh
  <2>3. TablesOK
    <3>1. ASSUME NEW r \in Run PROVE IsTransaction(run[r])
      <4>1. run[r].plan \in Seq(Evaluation) /\ run[r].known \subseteq Nat
            /\ run[r].written \subseteq Decision /\ AreRows(run[r].rows, lastId)
        BY <2>1, <2>2, EmptyPlan DEF Init
      <4>. QED
        BY <2>2, <4>1 DEF IsTransaction
    <3>2. settler \in [Settler -> Settling]
      BY DEF Init, Settling
    <3>. QED
      BY <2>1, <3>1, <3>2 DEF Init, TablesOK
  <2>4. \A r \in Run : InOrder(r)
    BY <2>1, <2>2 DEF InOrder, Active, Ascending
  <2>5. Exclusive
    BY <2>1, <2>2 DEF Exclusive
  <2>. QED
    BY <2>3, <2>4, <2>5 DEF LockInv
<1>. QED
  BY <1>1, LockStep, PTL DEF Spec

(* Foreign keys hold cases, by alert_id.                                   *)
SharesOK == shares \in [Run \cup Settler -> SUBSET Nat]

LEMMA SharesStep ==
  ASSUME LockInv, SharesOK, [Next]_vars
  PROVE  SharesOK'
<1>1. ASSUME NEW t \in Run \cup Settler, NEW S \in SUBSET Nat,
             shares' = [shares EXCEPT ![t] = S]
      PROVE  SharesOK'
  BY <1>1 DEF SharesOK
<1>2. ASSUME NEW t \in Run \cup Settler, NEW a \in Nat,
             shares' = [shares EXCEPT ![t] = @ \cup {a}]
      PROVE  SharesOK'
  <2>1. shares[t] \cup {a} \in SUBSET Nat
    BY DEF SharesOK
  <2>. QED
    BY <1>2, <2>1 DEF SharesOK
<1>3. ASSUME NEW r \in Run, ShareCase(r) PROVE SharesOK'
  <2>1. PICK a \in Owed(r) : shares' = [shares EXCEPT ![r] = @ \cup {a}]
    BY <1>3 DEF ShareCase
  <2>2. a \in Nat
    BY DEF Owed, LockInv, TablesOK, IsTransaction, Decision
  <2>. QED
    BY <1>2, <2>1, <2>2
<1>4. ASSUME NEW s \in Settler, WriteVerdict(s) PROVE SharesOK'
  <2>1. PICK a \in settler[s].cases \ shares[s] : shares' = [shares EXCEPT ![s] = @ \cup {a}]
    BY <1>4 DEF WriteVerdict
  <2>2. a \in Nat
    BY DEF LockInv, TablesOK, Settling
  <2>. QED
    BY <1>2, <2>1, <2>2
<1>5. ASSUME NEW r \in Run, Commit(r) \/ Abort(r) PROVE SharesOK'
  BY <1>1, <1>5 DEF Commit, Abort
<1>6. ASSUME NEW s \in Settler, CommitVerdicts(s) \/ AbortSettler(s) PROVE SharesOK'
  BY <1>1, <1>6 DEF CommitVerdicts, AbortSettler
<1>7. ASSUME UNCHANGED shares PROVE SharesOK'
  BY <1>7 DEF SharesOK
<1>8. ASSUME NEW r \in Run, Start(r) \/ Route(r) \/ Resume(r) PROVE UNCHANGED shares
  BY <1>8 DEF Start, Route, RouteToOpen, RouteSuppressed, RouteRaised, Resume
<1>. QED
  BY <1>3, <1>4, <1>5, <1>6, <1>7, <1>8 DEF Next, ReadUndisposed, vars

(* The tables and the transactions keep their shape, for any runs, keys    *)
(* and batches (write_batch, settle).                                      *)
THEOREM TypeCorrect == Spec => []TypeOK
<1>1. Init => SharesOK
  BY DEF Init, SharesOK
<1>2. LockInv /\ SharesOK => TypeOK
  BY DEF LockInv, SharesOK, TypeOK
<1>. QED
  BY <1>1, <1>2, SharesStep, LocksCorrect, PTL DEF Spec

(* The planner's order rules out that runs wait in a circle for cases      *)
(* alone, for any number of runs and of cases: of the runs that wait, the  *)
(* one whose case has the last key waits for a run that does not wait for  *)
(* one of them.  What is left are the circles through a foreign key        *)
(* (write_batch, _open_alert, _write_routing).                             *)
THEOREM CasesInOrder == Spec => []CirclesNeedForeignKeys
<1>1. LockInv => CirclesNeedForeignKeys
  <2> SUFFICES ASSUME LockInv, NEW circle \in SUBSET Run, circle # {},
                      \A q \in circle : \E p \in circle : WaitsForCase(q, p)
               PROVE  FALSE
    BY DEF CirclesNeedForeignKeys
  <2>. DEFINE Head1(q) == Head(run[q].plan).key
              Awaited == {Head1(q) : q \in circle}
  <2>1. ASSUME NEW q \in circle
        PROVE  /\ run[q].plan \in Seq(Evaluation) /\ run[q].plan # <<>>
               /\ Ascending(run[q].plan)
               /\ run[q].target \in DOMAIN alerts
               /\ alerts[run[q].target].key = Head1(q)
    <3>1. run[q].status = "waiting"
      BY DEF WaitsForCase
    <3>. QED
      BY <3>1 DEF LockInv, TablesOK, IsTransaction, InOrder
  <2>2. \A q \in circle : Head1(q) \in Key /\ Head1(q) \in Nat
    <3> TAKE q \in circle
    <3>1. Head(run[q].plan) \in Evaluation
      BY <2>1, PlanSteps
    <3>. QED
      BY <3>1, KeyAssumption DEF Evaluation
  <2>3. PICK q \in circle : \A p \in circle : Head1(p) <= Head1(q)
    <3>1. Awaited \in SUBSET Key /\ Awaited # {}
      BY <2>2
    <3>2. PICK last \in Awaited : \A key \in Awaited : key <= last
      BY <3>1, KeyAssumption
    <3>. QED
      BY <3>2
  <2>4. PICK p \in circle : q # p /\ run[q].target \in DOMAIN run[p].rows
    BY DEF WaitsForCase
  <2>5. run[p].rows[run[q].target].key = Head1(q)
    BY <2>1, <2>4 DEF LockInv, InOrder
  <2>6. Head1(q) < Head1(p)
    <3>1. Head(run[p].plan) = run[p].plan[1] /\ 1 \in DOMAIN run[p].plan
      BY <2>1, PlanSteps
    <3>. QED
      BY <2>4, <2>5, <3>1 DEF LockInv, InOrder
  <2>7. Head1(p) <= Head1(q)
    BY <2>3
  <2>. QED
    BY <2>2, <2>6, <2>7
<1>. QED
  BY <1>1, LocksCorrect, PTL

----------------------------------------------------------------------------
(* No update is lost.                                                      *)

(* The decisions of a set that are evidence of a case.                     *)
Of(D, a) == {d \in D : d.alert = a /\ d.routing # "suppressed"}

(* A row is what its evidence makes of it.                                 *)
Accounts(row, D) ==
  /\ IsFiniteSet(D)
  /\ row.triggering = Cardinality(D)
  /\ \A d \in D : d.score <= row.score
  /\ \E d \in D : d.run = row.decision /\ d.run = row.bar /\ d.score = row.score

(* A row that a run has changed stands for what is committed and for what  *)
(* the run has written; a row that it has not changed owes it nothing.     *)
CountedBy(r) ==
  /\ \A d \in run[r].written :
       /\ d.run = r
       /\ d.alert \in DOMAIN run[r].rows \cup DOMAIN alerts
       /\ d.routing # "suppressed" => d.alert \in DOMAIN run[r].rows
  /\ run[r].status # "ended" => \A d \in decisions : d.run # r
  /\ \A a \in DOMAIN run[r].rows :
       Accounts(run[r].rows[a], Of(decisions, a) \cup Of(run[r].written, a))

CountInv ==
  /\ \A d \in decisions : d.alert \in DOMAIN alerts
  /\ \A a \in DOMAIN alerts : Accounts(alerts[a], Of(decisions, a))
  /\ \A r \in Run : CountedBy(r)

(* One more piece of evidence, folded or restated.                         *)
LEMMA WorsenedAccounts ==
  ASSUME NEW row \in Alert, NEW r \in Run, NEW e \in Evaluation, NEW D \in SUBSET Decision,
         NEW d \in Decision, d \notin D, d.run = r, d.score = e.score, Accounts(row, D)
  PROVE  Accounts(Worsened(row, r, e), D \cup {d})
<1>. DEFINE new == Worsened(row, r, e)
<1>1. /\ new.triggering = row.triggering + 1
      /\ e.score > row.score => new.score = e.score /\ new.decision = r /\ new.bar = r
      /\ ~(e.score > row.score) =>
           new.score = row.score /\ new.decision = row.decision /\ new.bar = row.bar
  BY WorsenedRow
<1>2. e.score \in Nat /\ row.score \in Nat /\ \A x \in D : x.score \in Nat
  BY ScoreAssumption DEF Evaluation, Alert, Decision
<1>3. IsFiniteSet(D \cup {d}) /\ Cardinality(D \cup {d}) = Cardinality(D) + 1
  BY FS_AddElement DEF Accounts
<1>. HIDE DEF new
<1>4. \A x \in D \cup {d} : x.score <= new.score
  <2>1. \A x \in D : x.score <= row.score
    BY DEF Accounts
  <2>. QED
    BY <1>1, <1>2, <2>1
<1>5. \E x \in D \cup {d} : x.run = new.decision /\ x.run = new.bar /\ x.score = new.score
  <2>1. CASE e.score > row.score
    BY <1>1, <2>1
  <2>2. CASE ~(e.score > row.score)
    BY <1>1, <2>2 DEF Accounts
  <2>. QED
    BY <2>1, <2>2
<1>6. new.triggering = Cardinality(D \cup {d})
  BY <1>1, <1>3 DEF Accounts
<1>. QED
  BY <1>3, <1>4, <1>5, <1>6 DEF Accounts, new

(* A step that changes one run and nothing that is committed.              *)
LEMMA OneRunCounts ==
  ASSUME CountInv, NEW r \in Run, UNCHANGED <<alerts, decisions>>,
         \A q \in Run \ {r} : run'[q] = run[q], CountedBy(r)'
  PROVE  CountInv'
<1>1. \A q \in Run \ {r} : CountedBy(q)'
  BY DEF CountInv, CountedBy
<1>. QED
  BY <1>1 DEF CountInv

(* The head is routed to a case that the run had not changed.              *)
LEMMA WrittenCounts ==
  ASSUME LockInv, CountInv, NEW r \in Run, run[r].status # "ended",
         NEW a, NEW row, NEW routing \in {"raised", "restated", "folded"},
         a \notin DOMAIN run[r].rows,
         Routed(r, a, routing, With(run[r].rows, a, row)),
         Accounts(row, Of(decisions, a) \cup {New(r, Head(run[r].plan), a, routing)}),
         UNCHANGED <<alerts, decisions>>
  PROVE  CountInv'
<1>. DEFINE d == New(r, Head(run[r].plan), a, routing)
<1>1. TablesOK
  BY DEF LockInv
<1>2. /\ \A q \in Run \ {r} : run'[q] = run[q]
      /\ run'[r].status = "routing"
      /\ run'[r].rows = With(run[r].rows, a, row)
      /\ run'[r].written = run[r].written \cup {d}
  BY <1>1, RoutedRun
<1>3. /\ DOMAIN run'[r].rows = DOMAIN run[r].rows \cup {a}
      /\ run'[r].rows[a] = row
      /\ \A b \in DOMAIN run[r].rows \ {a} : run'[r].rows[b] = run[r].rows[b]
  BY <1>2 DEF With
<1>4. d.run = r /\ d.alert = a /\ d.routing # "suppressed"
  BY DEF New
<1>. HIDE DEF d
<1>5. CountedBy(r)
  BY DEF CountInv
<1>6. Of(run'[r].written, a) = {d}
  BY <1>2, <1>4, <1>5 DEF Of, CountedBy
<1>7. \A b \in DOMAIN run[r].rows : Of(run'[r].written, b) = Of(run[r].written, b)
  BY <1>2, <1>4 DEF Of
<1>8. \A b \in DOMAIN run'[r].rows :
        Accounts(run'[r].rows[b], Of(decisions', b) \cup Of(run'[r].written, b))
  BY <1>3, <1>5, <1>6, <1>7 DEF CountedBy, d
<1>9. \A x \in run'[r].written :
        /\ x.run = r
        /\ x.alert \in DOMAIN run'[r].rows \cup DOMAIN alerts'
        /\ x.routing # "suppressed" => x.alert \in DOMAIN run'[r].rows
  BY <1>2, <1>3, <1>4, <1>5 DEF CountedBy
<1>10. \A x \in decisions' : x.run # r
  BY <1>5 DEF CountedBy
<1>11. CountedBy(r)'
  BY <1>8, <1>9, <1>10 DEF CountedBy
<1>. QED
  BY <1>2, <1>11, OneRunCounts

LEMMA UpdateCounts ==
  ASSUME LockInv, CountInv, NEW r \in Run, run[r].plan # <<>>, run[r].status # "ended",
         NEW a \in DOMAIN Visible(r), Visible(r)[a].key = Head(run[r].plan).key,
         Update(r, a), UNCHANGED <<alerts, decisions>>
  PROVE  CountInv'
<1>. DEFINE e == Head(run[r].plan)
            row == Worsened(alerts[a], r, e)
            routing == IF e.score > alerts[a].score THEN "restated" ELSE "folded"
            d == New(r, e, a, routing)
<1>1. a \in DOMAIN alerts /\ a \notin DOMAIN run[r].rows /\ Visible(r)[a] = alerts[a]
  BY HeadUntouched
<1>2. Routed(r, a, routing, With(run[r].rows, a, row))
  BY <1>1 DEF Update
<1>3. /\ AreRows(alerts, lastId) /\ lastId \in Nat /\ decisions \subseteq Decision
      /\ run[r].plan \in Seq(Evaluation) /\ Ascending(run[r].plan)
  BY DEF LockInv, TablesOK, IsTransaction, InOrder
<1>4. alerts[a] \in Alert /\ e \in Evaluation /\ a \in Nat
  BY <1>1, <1>3, PlanSteps DEF AreRows
<1>5. d \in Decision /\ d.run = r /\ d.score = e.score
  BY <1>4 DEF New, Decision, Evaluation
<1>6. /\ Of(decisions, a) \in SUBSET Decision /\ Accounts(alerts[a], Of(decisions, a))
      /\ \A x \in Of(decisions, a) : x.run # r
  BY <1>1, <1>3 DEF CountInv, CountedBy, Of
<1>7. routing \in {"raised", "restated", "folded"}
  OBVIOUS
<1>. HIDE DEF d, routing, e
<1>8. d \notin Of(decisions, a)
  BY <1>5, <1>6
<1>9. Accounts(row, Of(decisions, a) \cup {d})
  BY <1>4, <1>5, <1>6, <1>8, WorsenedAccounts
<1>10. Accounts(row, Of(decisions, a) \cup {New(r, Head(run[r].plan), a, routing)})
  BY <1>9 DEF d, e
<1>. HIDE DEF row
<1>. QED
  BY <1>1, <1>2, <1>7, <1>10, WrittenCounts

LEMMA RaiseCounts ==
  ASSUME LockInv, CountInv, NEW r \in Run, RouteRaised(r)
  PROVE  CountInv'
<1>. DEFINE e == Head(run[r].plan)
            row == Raised(r, e)
            d == New(r, e, lastId', "raised")
<1>1. Routed(r, lastId', "raised", With(run[r].rows, lastId', row))
  BY DEF RouteRaised, Raised
<1>2. /\ AreRows(alerts, lastId) /\ lastId \in Nat /\ lastId' = lastId + 1
      /\ AreRows(run[r].rows, lastId)
      /\ run[r].plan \in Seq(Evaluation) /\ Ascending(run[r].plan)
      /\ run[r].plan # <<>> /\ run[r].status = "routing"
      /\ UNCHANGED <<alerts, decisions>>
  BY DEF LockInv, TablesOK, IsTransaction, InOrder, RouteRaised, MayRoute
<1>3. lastId' \notin DOMAIN run[r].rows /\ lastId' \notin DOMAIN alerts
  BY <1>2 DEF AreRows
<1>4. Of(decisions, lastId') = {}
  BY <1>3 DEF Of, CountInv
<1>5. e \in Evaluation
  BY <1>2, PlanSteps
<1>6. d.run = r /\ d.score = e.score /\ e.score \in Nat
  BY <1>5, ScoreAssumption DEF New, Evaluation
<1>7. row.triggering = 1 /\ row.score = e.score /\ row.decision = r /\ row.bar = r
  BY DEF Raised
<1>8. IsFiniteSet({d}) /\ Cardinality({d}) = 1
  BY FS_Singleton
<1>. HIDE DEF row, d, e
<1>9. Accounts(row, {d})
  BY <1>6, <1>7, <1>8 DEF Accounts
<1>10. Accounts(row, Of(decisions, lastId') \cup {New(r, Head(run[r].plan), lastId', "raised")})
  BY <1>4, <1>9 DEF d, e
<1>. QED
  BY <1>1, <1>2, <1>3, <1>10, WrittenCounts

LEMMA SuppressCounts ==
  ASSUME LockInv, CountInv, NEW r \in Run, RouteSuppressed(r)
  PROVE  CountInv'
<1>1. PICK a \in DOMAIN Visible(r) : Routed(r, a, "suppressed", run[r].rows)
  BY DEF RouteSuppressed
<1>. DEFINE d == New(r, Head(run[r].plan), a, "suppressed")
<1>2. TablesOK /\ run[r].status = "routing" /\ UNCHANGED <<alerts, decisions>>
  BY DEF LockInv, RouteSuppressed, MayRoute
<1>3. /\ \A q \in Run \ {r} : run'[q] = run[q]
      /\ run'[r].rows = run[r].rows
      /\ run'[r].written = run[r].written \cup {d}
  BY <1>1, <1>2, RoutedRun
<1>4. d.run = r /\ d.alert = a /\ d.routing = "suppressed"
  BY DEF New
<1>. HIDE DEF d
<1>5. a \in DOMAIN run[r].rows \cup DOMAIN alerts
  BY VisibleRows
<1>6. \A b : Of(run'[r].written, b) = Of(run[r].written, b)
  BY <1>3, <1>4 DEF Of
<1>7. CountedBy(r)
  BY DEF CountInv
<1>8. \A x \in run'[r].written :
        /\ x.run = r
        /\ x.alert \in DOMAIN run'[r].rows \cup DOMAIN alerts'
        /\ x.routing # "suppressed" => x.alert \in DOMAIN run'[r].rows
  BY <1>2, <1>3, <1>4, <1>5, <1>7 DEF CountedBy
<1>9. \A b \in DOMAIN run'[r].rows :
        Accounts(run'[r].rows[b], Of(decisions', b) \cup Of(run'[r].written, b))
  BY <1>2, <1>3, <1>6, <1>7 DEF CountedBy
<1>10. CountedBy(r)'
  BY <1>2, <1>7, <1>8, <1>9 DEF CountedBy
<1>. QED
  BY <1>2, <1>3, <1>10, OneRunCounts

LEMMA CommitCounts ==
  ASSUME LockInv, CountInv, NEW r \in Run, Commit(r)
  PROVE  CountInv'
<1>1. /\ alerts' = Visible(r) /\ decisions' = decisions \cup run[r].written
      /\ run'[r].status = "ended" /\ run'[r].written = {} /\ run'[r].rows = NoRows
      /\ \A q \in Run \ {r} : run'[q] = run[q]
  <2>1. DOMAIN run = Run
    BY DEF LockInv, TablesOK
  <2>. QED
    BY <2>1 DEF Commit, Fresh
<1>2. /\ DOMAIN alerts' = DOMAIN run[r].rows \cup DOMAIN alerts
      /\ \A a \in DOMAIN run[r].rows : alerts'[a] = run[r].rows[a]
      /\ \A a \in DOMAIN alerts \ DOMAIN run[r].rows : alerts'[a] = alerts[a]
  BY <1>1, VisibleRows
<1>3. CountedBy(r) /\ DOMAIN NoRows = {}
  BY DEF CountInv, NoRows
<1>4. \A a : Of(decisions', a) = Of(decisions, a) \cup Of(run[r].written, a)
  BY <1>1 DEF Of
<1>5. \A a : a \notin DOMAIN run[r].rows => Of(decisions', a) = Of(decisions, a)
  BY <1>1, <1>3 DEF Of, CountedBy
<1>6. \A d \in decisions' : d.alert \in DOMAIN alerts'
  BY <1>1, <1>2, <1>3 DEF CountInv, CountedBy
<1>7. ASSUME NEW a \in DOMAIN alerts' PROVE Accounts(alerts'[a], Of(decisions', a))
  <2>1. CASE a \in DOMAIN run[r].rows
    <3>1. Accounts(run[r].rows[a], Of(decisions, a) \cup Of(run[r].written, a))
      BY <1>3, <2>1 DEF CountedBy
    <3>. QED
      BY <1>2, <1>4, <2>1, <3>1
  <2>2. CASE a \notin DOMAIN run[r].rows
    <3>1. a \in DOMAIN alerts /\ Accounts(alerts[a], Of(decisions, a))
      BY <1>2, <2>2 DEF CountInv
    <3>. QED
      BY <1>2, <1>5, <2>2, <3>1
  <2>. QED
    BY <2>1, <2>2
<1>8. CountedBy(r)'
  BY <1>1, <1>3 DEF CountedBy
<1>9. ASSUME NEW q \in Run \ {r} PROVE CountedBy(q)'
  <2>1. CountedBy(q) /\ run'[q] = run[q]
    BY <1>1 DEF CountInv
  <2>2. \A a \in DOMAIN run[q].rows : Of(decisions', a) = Of(decisions, a)
    BY <1>5 DEF LockInv, Exclusive
  <2>3. \A d \in decisions' : d.run = q => d \in decisions
    BY <1>1, <1>3 DEF CountedBy
  <2>4. \A a \in DOMAIN run'[q].rows :
          Accounts(run'[q].rows[a], Of(decisions', a) \cup Of(run'[q].written, a))
    BY <2>1, <2>2 DEF CountedBy
  <2>. QED
    BY <1>2, <2>1, <2>3, <2>4 DEF CountedBy
<1>. QED
  BY <1>6, <1>7, <1>8, <1>9 DEF CountInv

LEMMA CountStep ==
  ASSUME LockInv, CountInv, [Next]_vars
  PROVE  CountInv'
<1>1. ASSUME UNCHANGED <<alerts, decisions, run>> PROVE CountInv'
  BY <1>1 DEF CountInv, CountedBy
<1>2. ASSUME NEW r \in Run, Start(r) \/ Abort(r) PROVE CountInv'
  <2>1. /\ \A q \in Run \ {r} : run'[q] = run[q]
        /\ run'[r].rows = NoRows /\ run'[r].written = {}
        /\ run[r].status # "ended" /\ UNCHANGED <<alerts, decisions>>
    <3>1. DOMAIN run = Run
      BY DEF LockInv, TablesOK
    <3>. QED
      BY <1>2, <3>1 DEF Start, Abort, Fresh, Active
  <2>2. DOMAIN NoRows = {} /\ CountedBy(r)
    BY DEF NoRows, CountInv
  <2>3. CountedBy(r)'
    BY <2>1, <2>2 DEF CountedBy
  <2>. QED
    BY <2>1, <2>3, OneRunCounts
<1>3. ASSUME NEW r \in Run, RouteToOpen(r) PROVE CountInv'
  <2>1. PICK a \in DOMAIN Visible(r) :
          /\ IsNewestOf(a, OpenCases(r, Head(run[r].plan)))
          /\ IF Locked(r, a)
             THEN run' = [run EXCEPT ![r].status = "waiting", ![r].target = a]
             ELSE Update(r, a)
    BY <1>3 DEF RouteToOpen
  <2>2. /\ run[r].status = "routing" /\ run[r].plan # <<>>
        /\ UNCHANGED <<alerts, decisions>>
        /\ Visible(r)[a].key = Head(run[r].plan).key
    BY <1>3, <2>1 DEF RouteToOpen, MayRoute, IsNewestOf, OpenCases
  <2>3. CASE Update(r, a)
    BY <2>2, <2>3, UpdateCounts
  <2>4. CASE run' = [run EXCEPT ![r].status = "waiting", ![r].target = a]
    <3>1. /\ \A q \in Run \ {r} : run'[q] = run[q]
          /\ run'[r].rows = run[r].rows /\ run'[r].written = run[r].written
      <4>1. /\ DOMAIN run = Run
            /\ DOMAIN run[r] = {"status", "plan", "target", "rows", "written", "known"}
        BY DEF LockInv, TablesOK, IsTransaction
      <4>. QED
        BY <2>4, <4>1
    <3>2. CountedBy(r)'
      BY <2>2, <3>1 DEF CountInv, CountedBy
    <3>. QED
      BY <2>2, <3>1, <3>2, OneRunCounts
  <2>. QED
    BY <2>1, <2>3, <2>4
<1>4. ASSUME NEW r \in Run, Resume(r) PROVE CountInv'
  <2>. DEFINE a == run[r].target
  <2>1. /\ run[r].plan # <<>> /\ run[r].status = "waiting" /\ a \in DOMAIN alerts
        /\ alerts[a].key = Head(run[r].plan).key
        /\ Update(r, a) /\ UNCHANGED <<alerts, decisions>>
    BY <1>4 DEF Resume, LockInv, InOrder
  <2>2. a \in DOMAIN Visible(r) /\ Visible(r)[a].key = alerts[a].key
    <3>1. CASE a \in DOMAIN run[r].rows
      <4>1. run[r].rows[a].key = alerts[a].key
        BY <2>1, <3>1 DEF LockInv, InOrder
      <4>2. Visible(r)[a] = run[r].rows[a] /\ a \in DOMAIN Visible(r)
        BY <3>1, VisibleRows
      <4>. QED
        BY <4>1, <4>2
    <3>2. CASE a \notin DOMAIN run[r].rows
      BY <2>1, <3>2, VisibleRows
    <3>. QED
      BY <3>1, <3>2
  <2>. HIDE DEF a
  <2>. QED
    BY <2>1, <2>2, UpdateCounts
<1>. QED
  BY <1>1, <1>2, <1>3, <1>4, SuppressCounts, RaiseCounts, CommitCounts
  DEF Next, Route, ShareCase, ReadUndisposed, WriteVerdict, CommitVerdicts,
      AbortSettler, vars

(* No update of a case is lost, whatever runs at once: its count, its      *)
(* score and its signals are those of the committed decisions that were    *)
(* routed to it, for any number of runs (_fold_alert, _restate_alert).     *)
THEOREM NothingLost == Spec => []CaseSurvivesRaces
<1>1. Init => CountInv
  BY DEF Init, CountInv, CountedBy, Fresh, NoRows
<1>2. CountInv => CaseSurvivesRaces
  BY DEF CountInv, Accounts, CaseSurvivesRaces, RoutedTo, Of
<1>. QED
  BY <1>1, <1>2, CountStep, LocksCorrect, PTL DEF Spec

----------------------------------------------------------------------------
(* Duplicates.                                                             *)

(* When a case was raised, nothing its run had known had its key.          *)
RacedWith(id, row) ==
  /\ run[row.raisedBy].status # "new"
  /\ \A a \in run[row.raisedBy].known : a # id => alerts[a].key # row.key

RaceInv ==
  /\ \A r \in Run : run[r].known \subseteq DOMAIN alerts
  /\ \A a \in DOMAIN alerts : RacedWith(a, alerts[a])
  /\ \A r \in Run : \A a \in DOMAIN run[r].rows : RacedWith(a, run[r].rows[a])

(* A step under which no run knows more, unless it begins.                 *)
LEMMA KnownKept ==
  ASSUME RaceInv, NEW row \in Alert, NEW id,
         DOMAIN alerts \subseteq DOMAIN alerts',
         \A a \in DOMAIN alerts : alerts'[a].key = alerts[a].key,
         \A r \in Run : run[r].status # "new" =>
           run'[r].status # "new" /\ run'[r].known \subseteq run[r].known,
         RacedWith(id, row)
  PROVE  RacedWith(id, row)'
<1>1. row.raisedBy \in Run
  BY DEF Alert
<1>2. run[row.raisedBy].known \subseteq DOMAIN alerts
  BY <1>1 DEF RaceInv
<1>. QED
  BY <1>1, <1>2 DEF RacedWith

(* A step of one run that commits nothing.                                 *)
LEMMA OneRunRaces ==
  ASSUME LockInv, RaceInv, UNCHANGED alerts, NEW r \in Run, NEW rows,
         \A q \in Run \ {r} : run'[q] = run[q],
         run'[r].status # "new", run'[r].known \subseteq DOMAIN alerts,
         run[r].status # "new" => run'[r].known \subseteq run[r].known,
         run'[r].rows = rows,
         \A a \in DOMAIN rows : rows[a] \in Alert /\ RacedWith(a, rows[a])
  PROVE  RaceInv'
<1>1. /\ \A a \in DOMAIN alerts : alerts[a] \in Alert
      /\ \A q \in Run : \A a \in DOMAIN run[q].rows : run[q].rows[a] \in Alert
  BY DEF LockInv, TablesOK, IsTransaction, AreRows
<1>2. \A q \in Run : run[q].status # "new" =>
        run'[q].status # "new" /\ run'[q].known \subseteq run[q].known
  OBVIOUS
<1>3. ASSUME NEW row \in Alert, NEW id, RacedWith(id, row) PROVE RacedWith(id, row)'
  BY <1>2, <1>3, KnownKept
<1>4. \A a \in DOMAIN alerts : RacedWith(a, alerts[a])'
  BY <1>1, <1>3 DEF RaceInv
<1>5. \A q \in Run \ {r} : \A a \in DOMAIN run[q].rows : RacedWith(a, run[q].rows[a])'
  <2> SUFFICES ASSUME NEW q \in Run \ {r}, NEW a \in DOMAIN run[q].rows
               PROVE  RacedWith(a, run[q].rows[a])'
    OBVIOUS
  <2>1. run[q].rows[a] \in Alert /\ RacedWith(a, run[q].rows[a]) /\ run'[q] = run[q]
    BY <1>1 DEF RaceInv
  <2>. DEFINE row == run[q].rows[a]
  <2>2. RacedWith(a, run[q].rows[a]) => RacedWith(a, run[q].rows[a])'
    BY <2>1, <1>2 DEF RacedWith, RaceInv, Alert
  <2>. QED
    BY <2>1, <2>2
<1>6. \A a \in DOMAIN rows : RacedWith(a, run[r].rows[a])'
  <2> SUFFICES ASSUME NEW a \in DOMAIN rows PROVE RacedWith(a, run[r].rows[a])'
    OBVIOUS
  <2>. DEFINE row == rows[a]
  <2>1. row \in Alert /\ RacedWith(a, row) /\ run'[r].rows[a] = row
    OBVIOUS
  <2>. HIDE DEF row
  <2>2. RacedWith(a, row)'
    BY <2>1, <1>3
  <2>. QED
    BY <2>1, <2>2 DEF RacedWith
<1>. QED
  BY <1>4, <1>5, <1>6 DEF RaceInv

(* The head of the plan goes to a row that raced with nothing it knew.     *)
LEMMA RoutedRaces ==
  ASSUME LockInv, RaceInv, UNCHANGED alerts, NEW r \in Run, run[r].status # "new",
         NEW a, NEW case, NEW routing, NEW row \in Alert, RacedWith(a, row),
         Routed(r, case, routing, With(run[r].rows, a, row))
  PROVE  RaceInv'
<1>. DEFINE rows == With(run[r].rows, a, row)
<1>1. /\ TablesOK /\ \A b \in DOMAIN run[r].rows : run[r].rows[b] \in Alert
      /\ run[r].known \subseteq DOMAIN alerts
      /\ \A b \in DOMAIN run[r].rows : RacedWith(b, run[r].rows[b])
  BY DEF LockInv, TablesOK, IsTransaction, AreRows, RaceInv
<1>2. /\ \A q \in Run \ {r} : run'[q] = run[q]
      /\ run'[r].status = "routing" /\ run'[r].rows = rows
      /\ run'[r].known = run[r].known
  BY <1>1, RoutedRun
<1>3. \A b \in DOMAIN rows : rows[b] \in Alert /\ RacedWith(b, rows[b])
  <2> TAKE b \in DOMAIN rows
  <2>1. CASE b = a
    BY <2>1 DEF With
  <2>2. CASE b # a
    <3>1. b \in DOMAIN run[r].rows /\ rows[b] = run[r].rows[b]
      BY <2>2 DEF With
    <3>. QED
      BY <1>1, <3>1
  <2>. QED
    BY <2>1, <2>2
<1>. HIDE DEF rows
<1>. QED
  BY <1>1, <1>2, <1>3, OneRunRaces

(* A case that is updated keeps its key and the run that raised it.        *)
LEMMA UpdateRaces ==
  ASSUME LockInv, RaceInv, NEW r \in Run, run[r].plan # <<>>, run[r].status # "new",
         NEW a \in DOMAIN Visible(r), Visible(r)[a].key = Head(run[r].plan).key,
         Update(r, a), UNCHANGED alerts
  PROVE  RaceInv'
<1>. DEFINE e == Head(run[r].plan)
            row == Worsened(alerts[a], r, e)
            routing == IF e.score > alerts[a].score THEN "restated" ELSE "folded"
<1>1. a \in DOMAIN alerts /\ a \notin DOMAIN run[r].rows /\ Visible(r)[a] = alerts[a]
  BY HeadUntouched
<1>2. /\ alerts[a] \in Alert
      /\ run[r].plan \in Seq(Evaluation) /\ Ascending(run[r].plan)
  BY <1>1 DEF LockInv, TablesOK, IsTransaction, InOrder, AreRows
<1>3. e \in Evaluation
  BY <1>2, PlanSteps
<1>4. row \in Alert /\ row.key = alerts[a].key /\ row.raisedBy = alerts[a].raisedBy
  BY <1>2, <1>3, WorsenedRow
<1>5. RacedWith(a, row)
  BY <1>1, <1>4 DEF RacedWith, RaceInv
<1>6. Routed(r, a, routing, With(run[r].rows, a, row))
  BY <1>1 DEF Update
<1>. HIDE DEF row, routing
<1>. QED
  BY <1>4, <1>5, <1>6, RoutedRaces

(* A case is raised when the run sees no case with its key.                *)
LEMMA RaiseRaces ==
  ASSUME LockInv, RaceInv, NEW r \in Run, RouteRaised(r)
  PROVE  RaceInv'
<1>. DEFINE e == Head(run[r].plan)
            row == Raised(r, e)
<1>1. /\ Routed(r, lastId', "raised", With(run[r].rows, lastId', row))
      /\ run[r].status = "routing" /\ run[r].plan # <<>> /\ OpenCases(r, e) = {}
      /\ UNCHANGED alerts
  BY DEF RouteRaised, MayRoute, Raised
<1>2. /\ run[r].plan \in Seq(Evaluation) /\ Ascending(run[r].plan)
      /\ run[r].known \subseteq DOMAIN alerts
      /\ \A b \in DOMAIN run[r].rows \cap DOMAIN alerts :
           run[r].rows[b].key = alerts[b].key
  BY DEF LockInv, TablesOK, IsTransaction, InOrder, RaceInv
<1>3. e \in Evaluation
  BY <1>1, <1>2, PlanSteps
<1>4. row \in Alert /\ row.key = e.key /\ row.raisedBy = r
  BY <1>3 DEF Raised, Alert, Evaluation
<1>5. ASSUME NEW b \in run[r].known PROVE alerts[b].key # e.key
  <2>1. b \in DOMAIN alerts /\ b \in DOMAIN Visible(r)
    BY <1>2, VisibleRows
  <2>2. Visible(r)[b].key # e.key
    BY <1>1, <2>1 DEF OpenCases
  <2>3. Visible(r)[b].key = alerts[b].key
    BY <1>2, <2>1, VisibleRows
  <2>. QED
    BY <2>2, <2>3
<1>6. RacedWith(lastId', row)
  BY <1>1, <1>4, <1>5 DEF RacedWith
<1>. HIDE DEF row, e
<1>. QED
  BY <1>1, <1>4, <1>6, RoutedRaces

(* A run that begins anew, or leaves, has no rows.                         *)
LEMMA StartRaces ==
  ASSUME LockInv, RaceInv, NEW r \in Run, Start(r) \/ Abort(r)
  PROVE  RaceInv'
<1>1. DOMAIN run = Run /\ UNCHANGED alerts
  BY DEF LockInv, TablesOK, Start, Abort
<1>2. /\ \A q \in Run \ {r} : run'[q] = run[q]
      /\ run'[r].status # "new" /\ run'[r].rows = NoRows
      /\ \/ run'[r].known = {}
         \/ (run[r].status = "new" /\ run'[r].known = DOMAIN alerts)
  <2>1. CASE Start(r)
    <3>1. PICK batch \in Batch : \E plan \in PlansOf(batch) :
            run' = [run EXCEPT ![r] =
              [Fresh EXCEPT !.status = "routing", !.plan = plan, !.known = DOMAIN alerts]]
      BY <2>1 DEF Start
    <3>2. run[r].status = "new" /\ run'[r].known = DOMAIN alerts
          /\ run'[r].status = "routing" /\ run'[r].rows = NoRows
      BY <1>1, <2>1, <3>1 DEF Start, Fresh
    <3>. QED
      BY <1>1, <3>1, <3>2
  <2>2. CASE Abort(r)
    BY <1>1, <2>2 DEF Abort, Fresh
  <2>. QED
    BY <2>1, <2>2
<1>. QED
  BY <1>1, <1>2, OneRunRaces DEF NoRows

LEMMA CommitRaces ==
  ASSUME LockInv, RaceInv, NEW r \in Run, Commit(r)
  PROVE  RaceInv'
<1>1. /\ \A a \in DOMAIN alerts : alerts[a] \in Alert
      /\ \A q \in Run : \A a \in DOMAIN run[q].rows : run[q].rows[a] \in Alert
      /\ DOMAIN run = Run
  BY DEF LockInv, TablesOK, IsTransaction, AreRows
<1>2. /\ alerts' = Visible(r)
      /\ run'[r].known = run[r].known /\ run'[r].rows = NoRows /\ run'[r].status = "ended"
      /\ \A q \in Run \ {r} : run'[q] = run[q]
  BY <1>1 DEF Commit, Fresh
<1>3. /\ DOMAIN alerts' = DOMAIN run[r].rows \cup DOMAIN alerts
      /\ \A a \in DOMAIN run[r].rows : alerts'[a] = run[r].rows[a]
      /\ \A a \in DOMAIN alerts \ DOMAIN run[r].rows : alerts'[a] = alerts[a]
  BY <1>2, VisibleRows
<1>4. \A a \in DOMAIN run[r].rows \cap DOMAIN alerts : run[r].rows[a].key = alerts[a].key
  BY DEF LockInv, InOrder
<1>5. /\ DOMAIN alerts \subseteq DOMAIN alerts'
      /\ \A a \in DOMAIN alerts : alerts'[a].key = alerts[a].key
  BY <1>3, <1>4
<1>6. \A q \in Run : run[q].status # "new" =>
        run'[q].status # "new" /\ run'[q].known \subseteq run[q].known
  BY <1>2
<1>7. ASSUME NEW row \in Alert, NEW id, RacedWith(id, row) PROVE RacedWith(id, row)'
  BY <1>5, <1>6, <1>7, KnownKept
<1>8. \A a \in DOMAIN alerts' : alerts'[a] \in Alert /\ RacedWith(a, alerts'[a])
  BY <1>1, <1>3 DEF RaceInv
<1>9. ASSUME NEW a \in DOMAIN alerts' PROVE RacedWith(a, alerts[a])'
  <2>1. run[alerts'[a].raisedBy].known \subseteq DOMAIN alerts /\ alerts'[a].raisedBy \in Run
    BY <1>8 DEF RaceInv, Alert
  <2>. QED
    BY <1>5, <1>6, <1>8, <2>1 DEF RacedWith
<1>10. \A q \in Run \ {r} : \A a \in DOMAIN run[q].rows : RacedWith(a, run[q].rows[a])'
  <2> SUFFICES ASSUME NEW q \in Run \ {r}, NEW a \in DOMAIN run[q].rows
               PROVE  RacedWith(a, run[q].rows[a])'
    OBVIOUS
  <2>1. run[q].rows[a] \in Alert /\ RacedWith(a, run[q].rows[a]) /\ run'[q] = run[q]
    BY <1>1, <1>2 DEF RaceInv
  <2>2. run[run[q].rows[a].raisedBy].known \subseteq DOMAIN alerts
    BY <2>1 DEF RaceInv, Alert
  <2>. QED
    BY <1>5, <1>6, <2>1, <2>2 DEF RacedWith, Alert
<1>11. \A q \in Run : run'[q].known \subseteq DOMAIN alerts'
  BY <1>2, <1>5 DEF RaceInv
<1>. QED
  BY <1>2, <1>9, <1>10, <1>11 DEF RaceInv, NoRows

LEMMA RaceStep ==
  ASSUME LockInv, RaceInv, [Next]_vars
  PROVE  RaceInv'
<1>1. ASSUME UNCHANGED <<alerts, run>> PROVE RaceInv'
  BY <1>1 DEF RaceInv, RacedWith
<1>2. ASSUME NEW r \in Run, RouteToOpen(r) PROVE RaceInv'
  <2>1. PICK a \in DOMAIN Visible(r) :
          /\ IsNewestOf(a, OpenCases(r, Head(run[r].plan)))
          /\ IF Locked(r, a)
             THEN run' = [run EXCEPT ![r].status = "waiting", ![r].target = a]
             ELSE Update(r, a)
    BY <1>2 DEF RouteToOpen
  <2>2. /\ run[r].status = "routing" /\ run[r].plan # <<>> /\ UNCHANGED alerts
        /\ Visible(r)[a].key = Head(run[r].plan).key
    BY <1>2, <2>1 DEF RouteToOpen, MayRoute, IsNewestOf, OpenCases
  <2>3. CASE Locked(r, a)
    <3>1. /\ TablesOK /\ DOMAIN run = Run /\ run[r].known \subseteq DOMAIN alerts
          /\ DOMAIN run[r] = {"status", "plan", "target", "rows", "written", "known"}
          /\ \A b \in DOMAIN run[r].rows :
               run[r].rows[b] \in Alert /\ RacedWith(b, run[r].rows[b])
      BY DEF LockInv, TablesOK, IsTransaction, AreRows, RaceInv
    <3>2. /\ \A q \in Run \ {r} : run'[q] = run[q]
          /\ run'[r].status = "waiting" /\ run'[r].rows = run[r].rows
          /\ run'[r].known = run[r].known
      BY <2>1, <2>3, <3>1
    <3>. QED
      BY <2>2, <3>1, <3>2, OneRunRaces
  <2>4. CASE ~Locked(r, a)
    BY <2>1, <2>2, <2>4, UpdateRaces
  <2>. QED
    BY <2>3, <2>4
<1>3. ASSUME NEW r \in Run, RouteSuppressed(r) PROVE RaceInv'
  <2>1. PICK a \in DOMAIN Visible(r) : Routed(r, a, "suppressed", run[r].rows)
    BY <1>3 DEF RouteSuppressed
  <2>2. /\ TablesOK /\ run[r].status = "routing" /\ UNCHANGED alerts
        /\ run[r].known \subseteq DOMAIN alerts
        /\ \A b \in DOMAIN run[r].rows :
             run[r].rows[b] \in Alert /\ RacedWith(b, run[r].rows[b])
    BY <1>3 DEF RouteSuppressed, MayRoute, LockInv, TablesOK, IsTransaction, AreRows, RaceInv
  <2>3. /\ \A q \in Run \ {r} : run'[q] = run[q]
        /\ run'[r].status = "routing" /\ run'[r].rows = run[r].rows
        /\ run'[r].known = run[r].known
    BY <2>1, <2>2, RoutedRun
  <2>. QED
    BY <2>2, <2>3, OneRunRaces
<1>4. ASSUME NEW r \in Run, Resume(r) PROVE RaceInv'
  <2>. DEFINE a == run[r].target
  <2>1. /\ run[r].plan # <<>> /\ run[r].status = "waiting" /\ a \in DOMAIN alerts
        /\ alerts[a].key = Head(run[r].plan).key
        /\ Update(r, a) /\ UNCHANGED alerts
        /\ a \in DOMAIN run[r].rows => run[r].rows[a].key = alerts[a].key
    BY <1>4 DEF Resume, LockInv, InOrder
  <2>2. a \in DOMAIN Visible(r) /\ Visible(r)[a].key = alerts[a].key
    BY <2>1, VisibleRows
  <2>. HIDE DEF a
  <2>. QED
    BY <2>1, <2>2, UpdateRaces
<1>. QED
  BY <1>1, <1>2, <1>3, <1>4, RaiseRaces, StartRaces, CommitRaces
  DEF Next, Route, ShareCase, ReadUndisposed, WriteVerdict, CommitVerdicts,
      AbortSettler, vars

(* A run never raises a case with the key of one that was committed before *)
(* it began: open cases with one key come only from runs that raced, for   *)
(* any number of runs (_open_alert, _raise_alert).                         *)
THEOREM RacesOnly == Spec => []DuplicatesOnlyRaced
<1>1. Init => RaceInv
  BY DEF Init, RaceInv, Fresh, NoRows
<1>2. RaceInv => DuplicatesOnlyRaced
  BY DEF RaceInv, RacedWith, DuplicatesOnlyRaced
<1>. QED
  BY <1>1, <1>2, RaceStep, LocksCorrect, PTL DEF Spec

----------------------------------------------------------------------------
(* Verdicts.                                                               *)

(* A settler has only cases without a verdict that it knows of.            *)
SettleInv ==
  /\ \A s \in Settler : settler[s].status = "read" =>
       \A v \in settler[s].known : v.alert \notin settler[s].cases
  /\ \A w \in outcomes :
       /\ settler[w.settler].status = "ended"
       /\ \A v \in settler[w.settler].known : v.alert # w.alert

LEMMA SettleStep ==
  ASSUME LockInv, SettleInv, [Next]_vars
  PROVE  SettleInv'
<1>1. /\ outcomes \subseteq Verdict /\ DOMAIN settler = Settler
      /\ \A s \in Settler : DOMAIN settler[s] = {"status", "cases", "known"}
  BY DEF LockInv, TablesOK, Settling
<1>2. ASSUME NEW s \in Settler, ReadUndisposed(s) PROVE SettleInv'
  <2>1. /\ \A t \in Settler \ {s} : settler'[t] = settler[t]
        /\ settler[s].status = "new" /\ UNCHANGED outcomes
        /\ settler'[s].cases = Undisposed /\ settler'[s].known = outcomes
    BY <1>1, <1>2 DEF ReadUndisposed
  <2>2. \A v \in outcomes : v.alert \notin Undisposed
    BY DEF Undisposed, Dispositioned
  <2>. QED
    BY <1>1, <2>1, <2>2 DEF SettleInv, Verdict
<1>3. ASSUME NEW s \in Settler, CommitVerdicts(s) PROVE SettleInv'
  <2>1. /\ \A t \in Settler \ {s} : settler'[t] = settler[t]
        /\ settler[s].status = "read" /\ settler'[s].status = "ended"
        /\ settler'[s].known = settler[s].known
        /\ outcomes' = outcomes \cup {[alert |-> a, settler |-> s] : a \in settler[s].cases}
    BY <1>1, <1>3 DEF CommitVerdicts
  <2>2. \A w \in outcomes : w.settler \in Settler \ {s}
    BY <1>1, <2>1 DEF SettleInv, Verdict
  <2>3. \A w \in outcomes' \ outcomes : w.settler = s /\ w.alert \in settler[s].cases
    BY <2>1
  <2>4. \A w \in outcomes' :
          /\ settler'[w.settler].status = "ended"
          /\ \A v \in settler'[w.settler].known : v.alert # w.alert
    BY <2>1, <2>2, <2>3 DEF SettleInv
  <2>. QED
    BY <2>1, <2>4 DEF SettleInv
<1>4. ASSUME UNCHANGED <<outcomes, settler>> PROVE SettleInv'
  BY <1>4 DEF SettleInv
<1>5. ASSUME NEW r \in Run,
             \/ Start(r) \/ Route(r) \/ Resume(r)
             \/ ShareCase(r) \/ Commit(r) \/ Abort(r)
      PROVE  UNCHANGED <<outcomes, settler>>
  <2>1. Start(r) => UNCHANGED <<outcomes, settler>>
    BY DEF Start
  <2>2. Resume(r) \/ ShareCase(r) \/ Commit(r) \/ Abort(r) => UNCHANGED <<outcomes, settler>>
    BY DEF Resume, ShareCase, Commit, Abort
  <2>3. Route(r) => UNCHANGED <<outcomes, settler>>
    BY DEF Route, RouteToOpen, RouteSuppressed, RouteRaised
  <2>. QED
    BY <1>5, <2>1, <2>2, <2>3
<1>6. ASSUME NEW s \in Settler, AbortSettler(s) PROVE SettleInv'
  <2>1. /\ \A t \in Settler \ {s} : settler'[t] = settler[t]
        /\ settler[s].status = "read" /\ settler'[s].status = "ended"
        /\ settler'[s].known = settler[s].known /\ UNCHANGED outcomes
    BY <1>1, <1>6 DEF AbortSettler
  <2>. QED
    BY <1>1, <2>1 DEF SettleInv, Verdict
<1>7. ASSUME NEW s \in Settler, WriteVerdict(s) PROVE UNCHANGED <<outcomes, settler>>
  BY <1>7 DEF WriteVerdict
<1>. QED
  BY <1>2, <1>3, <1>4, <1>5, <1>6, <1>7 DEF Next, vars

(* Two verdicts on one case come only from settlers that raced, for any    *)
(* number of them: one never settles what it has seen settled (settle).    *)
THEOREM VerdictsRace == Spec => []SettledTwiceOnlyRaced
<1>1. Init => SettleInv
  BY DEF Init, SettleInv
<1>2. SettleInv => SettledTwiceOnlyRaced
  BY DEF SettleInv, SettledTwiceOnlyRaced
<1>. QED
  BY <1>1, <1>2, SettleStep, LocksCorrect, PTL DEF Spec

=============================================================================
