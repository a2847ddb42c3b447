------------------------- MODULE ControlPlaneProofs -------------------------
(***************************************************************************)
(* What holds of ControlPlane for any rules, drafts, administrators and    *)
(* evaluations.                                                            *)
(***************************************************************************)
EXTENDS ControlPlane, TLAPS

(* Every request that is under way has passed its first checks.            *)
RequestOK(q) ==
  q # Nobody =>
    /\ q.phase = "checked" => q.op \in {"create", "edit"}
    /\ q.op \in {"create", "edit"} => q.draft \in Draft /\ Valid(q.draft)
    /\ q.op \in {"create", "edit"} /\ q.phase # "checked" /\ ~q.replacing =>
         q.draft.status = "shadow"
    /\ q.op \in {"promote", "retire"} => q.replacing

RequestInv == \A a \in Admin : RequestOK(request[a])

(* A rule has conditions.                                                  *)
StoredInv == \A r \in Rule : rules[r] # Absent => conditions[r].of # {}

TypeInv == TypeOK /\ RequestInv /\ StoredInv

----------------------------------------------------------------------------
(* Requests.                                                               *)

LEMMA RequestsAreNot ==
  /\ Nobody \notin Request
  /\ Absent \notin Row
BY AbsentAssumption

LEMMA DraftShape ==
  ASSUME NEW d \in Draft
  PROVE  /\ d.rule \in Rule /\ d \in AnyDraft /\ d.fields \in Fields
         /\ [d EXCEPT !.status = "active"] \in AnyDraft
<1>1. d.rule \in Rule
  BY DraftAssumption
<1>2. d \in AnyDraft /\ [d EXCEPT !.status = "active"] \in AnyDraft
  BY DEF AnyDraft
<1>3. d.fields \in Fields
  BY DEF Fields
<1>. QED
  BY <1>1, <1>2, <1>3

(* A valid draft has a status, conditions and bars that make sense.        *)
LEMMA ValidDraft ==
  ASSUME NEW d \in Draft, Valid(d)
  PROVE  /\ d.status \in Status
         /\ d.conditions \in ConditionSets
         /\ \A p \in d.fields.prevent : d.fields.review <= p
         /\ d.fields.veto => \E c \in d.conditions : c.points < 0
         /\ \A c \in d.conditions : c.points < 0 => c.feature \notin HasDefault
<1>1. FaultNames(DraftFaults(d)) = {}
  BY DEF Valid
<1>2. /\ ~DraftFaults(d).status /\ ~DraftFaults(d).conditions
      /\ ~DraftFaults(d).prevent_threshold /\ ~DraftFaults(d).is_veto
  BY <1>1 DEF FaultNames, DraftFaults
<1>3. d.status \in Status /\ d.conditions # {}
  BY <1>2 DEF DraftFaults
<1>4. d.conditions \in ConditionSets
  BY <1>3 DEF ConditionSets
<1>5. \A p \in d.fields.prevent : d.fields.review <= p
  BY <1>2, DraftAssumption DEF DraftFaults
<1>6. d.fields.veto => \E c \in d.conditions : c.points < 0
  BY <1>2, <1>3, DraftAssumption DEF DraftFaults
<1>7. ASSUME NEW c \in d.conditions, c.points < 0 PROVE c.feature \notin HasDefault
  <2>1. FaultNames(ConditionFaults(c, d.fields)) = {}
    BY DEF Valid
  <2>2. ~ConditionFaults(c, d.fields).contribution_points
    BY <2>1 DEF FaultNames, ConditionFaults
  <2>. QED
    BY <1>7, <2>2 DEF ConditionFaults
<1>. QED
  BY <1>3, <1>4, <1>5, <1>6, <1>7

(* The steps of a request that read, that wait and that give up.           *)
Asks(a) ==
  \/ \E op \in {"create", "edit"}, d \in Draft : Author(a, op, d)
  \/ \E d \in Draft : TryOut(a, d)
  \/ \E op \in {"promote", "retire", "purge"}, r \in Rule : Manage(a, op, r)
  \/ Publish(a) \/ Write(a) \/ Rollback(a)

(* A request begins to hold its rule only when nobody else does, and when  *)
(* the database does not refuse it.                                        *)
Granted(a, q) ==
  /\ request[a] # Nobody
  /\ q = [request[a] EXCEPT !.phase = "holding"]
  /\ \A b \in Admin : ~Holds(b, request[a].rule)
  /\ ~WriteFails(request[a])

LEMMA AsksShape ==
  ASSUME TypeOK, RequestInv, NEW a \in Admin, Asks(a)
  PROVE  /\ UNCHANGED <<rules, conditions, versions, context, recorded>>
         /\ \E q \in Request \cup {Nobody} :
              /\ request' = [request EXCEPT ![a] = q]
              /\ RequestOK(q)
              /\ q # Nobody /\ q.phase = "holding" => Granted(a, q)
<1>1. ASSUME NEW op \in {"create", "edit"}, NEW d \in Draft, Author(a, op, d)
      PROVE  /\ UNCHANGED <<rules, conditions, versions, context, recorded>>
             /\ \E q \in Request \cup {Nobody} :
                  /\ request' = [request EXCEPT ![a] = q]
                  /\ RequestOK(q)
                  /\ q # Nobody /\ q.phase = "holding" => Granted(a, q)
  <2>1. Opened(op, d.rule, d, "checked") \in Request
    BY DraftShape DEF Opened, Request, Operation, Authoring
  <2>2. RequestOK(Opened(op, d.rule, d, "checked"))
    BY <1>1 DEF RequestOK, Opened, Author
  <2>3. Opened(op, d.rule, d, "checked").phase = "checked"
    BY DEF Opened
  <2>. QED
    BY <1>1, <2>1, <2>2, <2>3 DEF Author
<1>2. ASSUME NEW d \in Draft, TryOut(a, d)
      PROVE  /\ UNCHANGED <<rules, conditions, versions, context, recorded>>
             /\ \E q \in Request \cup {Nobody} :
                  /\ request' = [request EXCEPT ![a] = q]
                  /\ RequestOK(q)
                  /\ q # Nobody /\ q.phase = "holding" => Granted(a, q)
  <2>1. PICK q : q = Opened("whatif", d.rule, [d EXCEPT !.status = "active"], "read")
    OBVIOUS
  <2>2. q \in Request
    BY <2>1, DraftShape DEF Opened, Request, Operation, Authoring
  <2>3. RequestOK(q) /\ q.phase = "read"
    BY <2>1 DEF RequestOK, Opened
  <2>. QED
    BY <1>2, <2>1, <2>2, <2>3 DEF TryOut
<1>3. ASSUME NEW op \in {"promote", "retire", "purge"}, NEW r \in Rule, Manage(a, op, r)
      PROVE  /\ UNCHANGED <<rules, conditions, versions, context, recorded>>
             /\ \E q \in Request \cup {Nobody} :
                  /\ request' = [request EXCEPT ![a] = q]
                  /\ RequestOK(q)
                  /\ q # Nobody /\ q.phase = "holding" => Granted(a, q)
  <2>1. PICK d \in Draft : d = CHOOSE x \in Draft : TRUE
    BY DraftAssumption
  <2>2. PICK q : q = Opened(op, r, d, "read")
    OBVIOUS
  <2>3. q \in Request
    BY <2>2, DraftShape DEF Opened, Request, Operation, Authoring
  <2>4. /\ ~Refused(q) /\ request' = [request EXCEPT ![a] = q]
        /\ UNCHANGED <<rules, conditions, versions, context, recorded>>
    BY <1>3, <2>1, <2>2 DEF Manage
  <2>5. q.phase = "read" /\ q.op = op /\ q.rule = r /\ q.replacing = (rules[r] # Absent)
    BY <2>2 DEF Opened
  <2>6. op \in {"promote", "retire"} => rules[r] # Absent
    BY <2>4, <2>5 DEF Refused
  <2>7. RequestOK(q)
    BY <2>5, <2>6 DEF RequestOK
  <2>. QED
    BY <2>3, <2>4, <2>5, <2>7
<1>4. ASSUME Publish(a)
      PROVE  /\ UNCHANGED <<rules, conditions, versions, context, recorded>>
             /\ \E q \in Request \cup {Nobody} :
                  /\ request' = [request EXCEPT ![a] = q]
                  /\ RequestOK(q)
                  /\ q # Nobody /\ q.phase = "holding" => Granted(a, q)
  <2>1. PICK p : p = request[a]
    OBVIOUS
  <2>2. /\ p \in Request /\ p # Nobody /\ p.phase = "checked" /\ RequestOK(p)
        /\ UNCHANGED <<rules, conditions, versions, context, recorded>>
    BY <1>4, <2>1 DEF Publish, TypeOK, RequestInv
  <2>3. p.op \in {"create", "edit"} /\ p.draft \in Draft /\ Valid(p.draft)
    BY <2>2 DEF RequestOK
  <2>4. CASE Refused(p)
    <3>1. request' = [request EXCEPT ![a] = Nobody]
      BY <1>4, <2>1, <2>4 DEF Publish, Leave
    <3>. QED
      BY <2>2, <3>1 DEF RequestOK
  <2>5. CASE ~Refused(p)
    <3>1. PICK q : q = Opened(p.op, p.rule, p.draft, "read")
      OBVIOUS
    <3>2. request' = [request EXCEPT ![a] = q]
      BY <1>4, <2>1, <2>5, <3>1 DEF Publish
    <3>3. q \in Request
      BY <2>2, <3>1 DEF Opened, Request
    <3>4. /\ q.phase = "read" /\ q.op = p.op /\ q.draft = p.draft
          /\ q.replacing = (rules[p.rule] # Absent)
      BY <3>1 DEF Opened
    <3>5. rules[p.rule] = Absent => p.draft.status = "shadow"
      BY <2>3, <2>5 DEF Refused
    <3>6. RequestOK(q)
      BY <2>3, <3>4, <3>5 DEF RequestOK
    <3>. QED
      BY <2>2, <3>2, <3>3, <3>4, <3>6
  <2>. QED
    BY <2>4, <2>5
<1>5. ASSUME Write(a)
      PROVE  /\ UNCHANGED <<rules, conditions, versions, context, recorded>>
             /\ \E q \in Request \cup {Nobody} :
                  /\ request' = [request EXCEPT ![a] = q]
                  /\ RequestOK(q)
                  /\ q # Nobody /\ q.phase = "holding" => Granted(a, q)
  <2>1. /\ request[a] \in Request /\ request[a] # Nobody /\ request[a].phase = "read"
        /\ RequestOK(request[a])
        /\ UNCHANGED <<rules, conditions, versions, context, recorded>>
    BY <1>5 DEF Write, TypeOK, RequestInv
  <2>2. CASE WriteFails(request[a])
    <3>1. request' = [request EXCEPT ![a] = Nobody]
      BY <1>5, <2>2 DEF Write, Leave
    <3>. QED
      BY <2>1, <3>1 DEF RequestOK
  <2>3. CASE ~WriteFails(request[a])
    <3>1. PICK q : q = [request[a] EXCEPT !.phase = "holding"]
      OBVIOUS
    <3>2. request' = [request EXCEPT ![a] = q]
      BY <1>5, <2>3, <3>1 DEF Write
    <3>3. /\ q \in Request /\ q.phase = "holding" /\ q.op = request[a].op
          /\ q.draft = request[a].draft /\ q.replacing = request[a].replacing
      BY <2>1, <3>1 DEF Request
    <3>4. RequestOK(q)
      BY <2>1, <3>3 DEF RequestOK
    <3>5. Granted(a, q)
      BY <1>5, <2>1, <2>3, <3>1 DEF Granted, Write
    <3>. QED
      BY <2>1, <3>2, <3>3, <3>4, <3>5
  <2>. QED
    BY <2>2, <2>3
<1>6. ASSUME Rollback(a)
      PROVE  /\ UNCHANGED <<rules, conditions, versions, context, recorded>>
             /\ \E q \in Request \cup {Nobody} :
                  /\ request' = [request EXCEPT ![a] = q]
                  /\ RequestOK(q)
                  /\ q # Nobody /\ q.phase = "holding" => Granted(a, q)
  BY <1>6 DEF Rollback, Leave, RequestOK
<1>. QED
  BY <1>1, <1>2, <1>3, <1>4, <1>5, <1>6 DEF Asks

----------------------------------------------------------------------------
(* Types.                                                                  *)

LEMMA StatusShape ==
  /\ "active" \in Status /\ "inactive" \in Status /\ "shadow" \in Status
BY DEF Status

(* The row and the conditions a publication leaves behind.                 *)
LEMMA WrittenType ==
  ASSUME TypeInv, NEW q \in Request, RequestOK(q), Publishes(q.op),
         q.replacing = (rules[q.rule] # Absent)
  PROVE  /\ WrittenRow(q) \in Row
         /\ WrittenConditions(q) \in Stored
         /\ WrittenConditions(q).of \in ConditionSets
<1>1. q.rule \in Rule /\ q.op \in {"create", "edit", "promote", "retire"} /\ q # Nobody
  BY RequestsAreNot DEF Request, Publishes
<1>2. CASE q.op \in {"create", "edit"}
  <2>1. q.draft \in Draft /\ q.draft.status \in Status /\ q.draft.fields \in Fields
        /\ q.draft.conditions \in ConditionSets
    BY <1>1, <1>2, ValidDraft, DraftShape DEF RequestOK
  <2>4. /\ WrittenConditions(q) = [id |-> conditions[q.rule].id + 1, of |-> q.draft.conditions]
        /\ conditions[q.rule] \in Stored
    BY <1>1, <1>2 DEF WrittenConditions, Authoring, TypeInv, TypeOK
  <2>5. WrittenConditions(q) \in Stored /\ WrittenConditions(q).of \in ConditionSets
    BY <2>1, <2>4 DEF Stored
  <2>2. CASE q.replacing
    <3>1. rules[q.rule] \in Row
      BY <1>1, <2>2 DEF TypeInv, TypeOK
    <3>2. WrittenRow(q) = [rules[q.rule] EXCEPT !.status = q.draft.status,
                                                !.fields = q.draft.fields]
      BY <1>2, <2>2 DEF WrittenRow, Authoring
    <3>. QED
      BY <2>1, <2>5, <3>1, <3>2 DEF Row
  <2>3. CASE ~q.replacing
    <3>1. WrittenRow(q) = [status |-> q.draft.status, version |-> 1,
                           fields |-> q.draft.fields, by |-> "admin"]
      BY <1>2, <2>3 DEF WrittenRow, Authoring
    <3>. QED
      BY <2>1, <2>5, <3>1 DEF Row
  <2>. QED
    BY <2>2, <2>3 DEF Request
<1>3. CASE q.op \in {"promote", "retire"}
  <2>1. rules[q.rule] \in Row /\ conditions[q.rule].of # {} /\ conditions[q.rule] \in Stored
    BY <1>1, <1>3 DEF RequestOK, TypeInv, TypeOK, StoredInv, Request
  <2>2. WrittenRow(q) = [rules[q.rule] EXCEPT !.status =
                           IF q.op = "promote" THEN "active" ELSE "inactive"]
    BY <1>3 DEF WrittenRow, Authoring
  <2>. QED
    BY <1>3, <2>1, <2>2, StatusShape DEF Row, WrittenConditions, Authoring, Stored
<1>. QED
  BY <1>1, <1>2, <1>3

LEMMA PublishedRowShape ==
  ASSUME NEW r \in Rule, NEW row \in Row, NEW conds
  PROVE  /\ PublishedRow(r, row, conds) \in Row
         /\ \/ PublishedRow(r, row, conds) = row
               /\ \A s \in VersionsOf(r) : s.version = row.version => s = SnapshotOf(r, row, conds)
            \/ PublishedRow(r, row, conds) = [row EXCEPT !.version = row.version + 1]
BY DEF PublishedRow, Row

(* What a commit changes, spelled out.                                     *)
LEMMA CommitShape ==
  ASSUME TypeInv, NEW a \in Admin, Commit(a),
         request[a].replacing = (rules[request[a].rule] # Absent)
  PROVE  LET q     == request[a]
             r     == q.rule
             row0  == WrittenRow(q)
             conds == WrittenConditions(q)
             row   == PublishedRow(r, row0, conds.of)
         IN /\ q \in Request /\ r \in Rule /\ Publishes(q.op) /\ Holds(a, r)
            /\ row0 \in Row /\ row \in Row /\ conds \in Stored /\ conds.of \in ConditionSets
            /\ row # Absent
            /\ rules' = [rules EXCEPT ![r] = row]
            /\ conditions' = [conditions EXCEPT ![r] = conds]
            /\ versions' = versions \cup {SnapshotOf(r, row, conds.of)}
            /\ request' = [request EXCEPT ![a] = Nobody]
            /\ UNCHANGED <<context, recorded>>
<1>1. PICK q : q = request[a]
  OBVIOUS
<1>2. q \in Request /\ RequestOK(q) /\ q.rule \in Rule /\ Publishes(q.op) /\ Holds(a, q.rule)
  BY <1>1 DEF Commit, Holds, TypeInv, TypeOK, RequestInv, Request
<1>3. /\ WrittenRow(q) \in Row /\ WrittenConditions(q) \in Stored
      /\ WrittenConditions(q).of \in ConditionSets
  BY <1>1, <1>2, WrittenType
<1>4. PublishedRow(q.rule, WrittenRow(q), WrittenConditions(q).of) \in Row
  BY <1>2, <1>3, PublishedRowShape
<1>5. PublishedRow(q.rule, WrittenRow(q), WrittenConditions(q).of) # Absent
  BY <1>4, RequestsAreNot
<1>. QED
  BY <1>1, <1>2, <1>3, <1>4, <1>5 DEF Commit, Leave

----------------------------------------------------------------------------
(* Locks.                                                                  *)

(* One request at a time holds a rule, and what the database found when it *)
(* granted the lock is so until the request ends.                          *)
LockInv ==
  /\ \A a, b \in Admin, r \in Rule : Holds(a, r) /\ Holds(b, r) => a = b
  /\ \A a \in Admin, r \in Rule : Holds(a, r) =>
       /\ request[a].op # "purge" => request[a].replacing = (rules[r] # Absent)
       /\ request[a].op = "purge" => VersionsOf(r) = {}

CoreInv == TypeInv /\ LockInv

(* A request that reads, waits or gives up.                                *)
LEMMA AsksKeepsCore ==
  ASSUME CoreInv, NEW a \in Admin, Asks(a)
  PROVE  CoreInv'
<1>1. PICK q \in Request \cup {Nobody} :
        /\ request' = [request EXCEPT ![a] = q]
        /\ RequestOK(q)
        /\ q # Nobody /\ q.phase = "holding" => Granted(a, q)
  BY AsksShape DEF CoreInv, TypeInv
<1>2. UNCHANGED <<rules, conditions, versions, context, recorded>>
  BY AsksShape DEF CoreInv, TypeInv
<1>3. request' \in [Admin -> Request \cup {Nobody}]
  BY <1>1 DEF CoreInv, TypeInv, TypeOK
<1>4. TypeOK'
  BY <1>2, <1>3 DEF CoreInv, TypeInv, TypeOK
<1>5. RequestInv' /\ StoredInv'
  BY <1>1, <1>2 DEF CoreInv, TypeInv, TypeOK, RequestInv, StoredInv
<1>6. /\ request'[a] = q
      /\ \A b \in Admin \ {a} : request'[b] = request[b]
  BY <1>1 DEF CoreInv, TypeInv, TypeOK
<1>7. ASSUME NEW r \in Rule, Holds(a, r)'
      PROVE  /\ \A b \in Admin : ~Holds(b, r)
             /\ request'[a].op # "purge" => request'[a].replacing = (rules[r] # Absent)
             /\ request'[a].op = "purge" => VersionsOf(r) = {}
  <2>1. q # Nobody /\ q.phase = "holding" /\ q.rule = r
    BY <1>6, <1>7 DEF Holds
  <2>2. Granted(a, q) /\ request[a] \in Request /\ q \in Request
    BY <1>1, <2>1 DEF Granted, CoreInv, TypeInv, TypeOK
  <2>3. /\ request[a].rule = r /\ request[a].op = q.op
        /\ request[a].replacing = q.replacing
    BY <2>1, <2>2 DEF Granted, Request
  <2>. QED
    BY <1>6, <2>2, <2>3 DEF Granted, WriteFails
<1>8. ASSUME NEW b \in Admin \ {a}, NEW r \in Rule
      PROVE  Holds(b, r)' <=> Holds(b, r)
  BY <1>6 DEF Holds
<1>9. ASSUME NEW r \in Rule PROVE VersionsOf(r)' = VersionsOf(r)
  BY <1>2 DEF VersionsOf
<1>10. LockInv'
  BY <1>2, <1>6, <1>7, <1>8, <1>9 DEF LockInv, CoreInv
<1>. QED
  BY <1>4, <1>5, <1>10 DEF CoreInv, TypeInv

(* A request that commits: only its own rule changes.                      *)
LEMMA CommitKeepsCore ==
  ASSUME CoreInv, NEW a \in Admin, Commit(a) \/ CommitPurge(a)
  PROVE  CoreInv'
<1>1. PICK r \in Rule : Holds(a, r)
  BY DEF Commit, CommitPurge
<1>2. /\ request[a] \in Request /\ request[a].rule = r
      /\ request' = [request EXCEPT ![a] = Nobody]
      /\ UNCHANGED <<context, recorded>>
  BY <1>1 DEF Commit, CommitPurge, Leave, Holds, CoreInv, TypeInv, TypeOK
<1>3. /\ rules' \in [Rule -> Row \cup {Absent}] /\ conditions' \in [Rule -> Stored]
      /\ versions' \subseteq Snapshot /\ StoredInv'
      /\ \A p \in Rule \ {r} : /\ rules'[p] = rules[p]
                             /\ conditions'[p] = conditions[p]
                             /\ VersionsOf(p)' = VersionsOf(p)
  <2>1. CASE Commit(a)
    <3>1. request[a].replacing = (rules[r] # Absent)
      BY <1>1, <1>2, <2>1 DEF CoreInv, LockInv, Commit, Publishes
    <3>2. PICK row \in Row, conds \in Stored :
            /\ conds.of \in ConditionSets
            /\ rules' = [rules EXCEPT ![r] = row]
            /\ conditions' = [conditions EXCEPT ![r] = conds]
            /\ versions' = versions \cup {SnapshotOf(r, row, conds.of)}
      BY <1>2, <2>1, <3>1, CommitShape DEF CoreInv
    <3>3. SnapshotOf(r, row, conds.of) \in Snapshot /\ SnapshotOf(r, row, conds.of).rule = r
      BY <3>2 DEF SnapshotOf, Snapshot, Row
    <3>4. conds.of # {}
      BY <3>2 DEF ConditionSets
    <3>. QED
      BY <3>2, <3>3, <3>4 DEF CoreInv, TypeInv, TypeOK, StoredInv, VersionsOf
  <2>2. CASE CommitPurge(a)
    <3>1. /\ rules' = [rules EXCEPT ![r] = Absent]
          /\ conditions' = [conditions EXCEPT ![r] = [conditions[r] EXCEPT !.of = {}]]
          /\ UNCHANGED versions
      BY <1>2, <2>2 DEF CommitPurge
    <3>2. [conditions[r] EXCEPT !.of = {}] \in Stored
      BY DEF CoreInv, TypeInv, TypeOK, Stored
    <3>. QED
      BY <3>1, <3>2 DEF CoreInv, TypeInv, TypeOK, StoredInv, VersionsOf
  <2>. QED
    BY <2>1, <2>2
<1>4. /\ request'[a] = Nobody
      /\ \A b \in Admin \ {a} : request'[b] = request[b]
      /\ request' \in [Admin -> Request \cup {Nobody}]
  BY <1>2 DEF CoreInv, TypeInv, TypeOK
<1>5. TypeOK'
  BY <1>2, <1>3, <1>4 DEF CoreInv, TypeInv, TypeOK
<1>6. RequestInv'
  BY <1>4 DEF CoreInv, TypeInv, RequestInv, RequestOK
<1>7. ASSUME NEW b \in Admin, NEW p \in Rule, Holds(b, p)'
      PROVE  Holds(b, p) /\ b # a /\ p # r
  BY <1>1, <1>4, <1>7 DEF Holds, CoreInv, LockInv
<1>8. LockInv'
  BY <1>3, <1>4, <1>7 DEF LockInv, CoreInv
<1>. QED
  BY <1>3, <1>5, <1>6, <1>8 DEF CoreInv, TypeInv

(* An evaluation changes neither the rules nor the requests.               *)
LEMMA EvaluatesKeepsCore ==
  ASSUME CoreInv, NEW e \in Evaluator, Evaluates(e)
  PROVE  CoreInv' /\ UNCHANGED <<rules, conditions, versions, request>>
<1>1. UNCHANGED <<rules, conditions, versions, request>>
  BY DEF Evaluates, LoadConditions, LoadRules, Record, RecordFails
<1>2. TypeOK
  BY DEF CoreInv, TypeInv
<1>3. TypeOK'
  <2>1. CASE LoadConditions(e)
    BY <1>1, <1>2, <2>1 DEF LoadConditions, TypeOK
  <2>2. CASE LoadRules(e)
    BY <1>1, <1>2, <2>2 DEF LoadRules, TypeOK
  <2>3. CASE Record(e)
    <3>1. PICK acted : recorded' = recorded \cup
            {[rule |-> r, row |-> context[e].rules[r],
              conditions |-> context[e].conditions[r].of,
              published |-> r \in context[e].published,
              acted |-> r \in acted] : r \in Loaded(e)}
      BY <2>3 DEF Record
    <3>2. ASSUME NEW r \in Loaded(e)
          PROVE  /\ r \in Rule /\ context[e].rules[r] \in Row
                 /\ context[e].conditions[r].of \in ConditionSets \cup {{}}
      BY <1>2, <2>3 DEF Record, Loaded, TypeOK, Stored
    <3>3. ASSUME NEW x \in recorded'
          PROVE  /\ x.rule \in Rule /\ x.row \in Row /\ x.conditions \in ConditionSets \cup {{}}
                 /\ x.published \in BOOLEAN /\ x.acted \in BOOLEAN
      <4>1. CASE x \in recorded
        BY <1>2, <4>1 DEF TypeOK
      <4>2. CASE x \notin recorded
        <5>1. PICK r \in Loaded(e) :
                x = [rule |-> r, row |-> context[e].rules[r],
                     conditions |-> context[e].conditions[r].of,
                     published |-> r \in context[e].published,
                     acted |-> r \in acted]
          BY <3>1, <4>2
        <5>2. /\ x.rule = r /\ x.row = context[e].rules[r]
              /\ x.conditions = context[e].conditions[r].of
              /\ x.published = (r \in context[e].published) /\ x.acted = (r \in acted)
          BY <5>1
        <5>. QED
          BY <3>2, <5>2
      <4>. QED
        BY <4>1, <4>2
    <3>4. context' = [context EXCEPT ![e] = NotLoaded]
      BY <2>3 DEF Record, Unload
    <3>. QED
      BY <1>1, <1>2, <3>3, <3>4 DEF NotLoaded, TypeOK
  <2>4. CASE RecordFails(e)
    BY <1>1, <1>2, <2>4 DEF RecordFails, Unload, NotLoaded, TypeOK
  <2>. QED
    BY <2>1, <2>2, <2>3, <2>4 DEF Evaluates
<1>4. RequestInv' /\ StoredInv' /\ LockInv'
  BY <1>1 DEF CoreInv, TypeInv, RequestInv, StoredInv, LockInv, Holds, VersionsOf
<1>. QED
  BY <1>1, <1>3, <1>4 DEF CoreInv, TypeInv

(* The core holds in every state: so do the types.                         *)
LEMMA NextShape ==
  ASSUME [Next]_vars
  PROVE  \/ \E a \in Admin : Asks(a) \/ Commit(a) \/ CommitPurge(a)
         \/ \E e \in Evaluator : Evaluates(e)
         \/ UNCHANGED vars
BY DEF Next, Administer, Asks

LEMMA CoreStep == CoreInv /\ [Next]_vars => CoreInv'
<1>. SUFFICES ASSUME CoreInv, [Next]_vars PROVE CoreInv'
  OBVIOUS
<1>1. CASE UNCHANGED vars
  BY <1>1 DEF vars, CoreInv, TypeInv, TypeOK, RequestInv, StoredInv, LockInv, Holds, VersionsOf
<1>. QED
  BY <1>1, NextShape, AsksKeepsCore, CommitKeepsCore, EvaluatesKeepsCore

LEMMA CoreInit == Init => CoreInv
<1>. SUFFICES ASSUME Init PROVE CoreInv
  OBVIOUS
<1>1. SeededRow \in Row
  BY DEF SeededRow, Row, Status, Fields
<1>2. SeededConditions \in ConditionSets
  BY SeedAssumption DEF ConditionSets
<1>3. TypeOK
  BY <1>1, <1>2 DEF Init, TypeOK, Stored, NotLoaded
<1>4. RequestInv /\ StoredInv /\ LockInv
  BY SeedAssumption DEF Init, RequestInv, RequestOK, StoredInv, LockInv, Holds
<1>. QED
  BY <1>3, <1>4 DEF CoreInv, TypeInv

LEMMA CoreCorrect == Spec => []CoreInv
BY CoreInit, CoreStep, PTL DEF Spec

(* The tables, the requests and what evaluations loaded keep their shape.  *)
THEOREM TypeCorrect == Spec => []TypeOK
<1>1. CoreInv => TypeOK
  BY DEF CoreInv, TypeInv
<1>. QED
  BY <1>1, CoreCorrect, PTL

----------------------------------------------------------------------------
(* Versions.                                                               *)

LEMMA VersionsStep ==
  ASSUME CoreInv, VersionNamesDefinition, [Next]_vars
  PROVE  VersionNamesDefinition'
<1>1. ASSUME NEW a \in Admin, Asks(a) PROVE VersionNamesDefinition'
  <2>1. UNCHANGED <<rules, conditions, versions>>
    BY <1>1, AsksShape DEF CoreInv, TypeInv
  <2>. QED
    BY <2>1 DEF VersionNamesDefinition, VersionsOf, IsPublished
<1>2. ASSUME NEW a \in Admin, Commit(a) PROVE VersionNamesDefinition'
  <2>1. PICK r \in Rule : Holds(a, r) /\ request[a].rule = r
    BY <1>2 DEF Commit, Holds
  <2>2. request[a].replacing = (rules[r] # Absent)
    BY <1>2, <2>1 DEF CoreInv, LockInv, Commit, Publishes
  <2>3. PICK q \in Request : q = request[a]
    BY <2>1 DEF Holds, CoreInv, TypeInv, TypeOK
  <2>4. PICK row0 \in Row : row0 = WrittenRow(q)
    BY <1>2, <2>1, <2>2, <2>3, CommitShape DEF CoreInv
  <2>5. PICK conds \in Stored : conds = WrittenConditions(q)
    BY <1>2, <2>1, <2>2, <2>3, CommitShape DEF CoreInv
  <2>6. PICK row \in Row : row = PublishedRow(r, row0, conds.of)
    BY <2>4, PublishedRowShape
  <2>7. /\ rules' = [rules EXCEPT ![r] = row]
        /\ conditions' = [conditions EXCEPT ![r] = conds]
        /\ versions' = versions \cup {SnapshotOf(r, row, conds.of)}
        /\ row # Absent /\ Publishes(q.op)
    BY <1>2, <2>1, <2>2, <2>3, <2>4, <2>5, <2>6, CommitShape DEF CoreInv
  <2>8. /\ SnapshotOf(r, row, conds.of).rule = r
        /\ SnapshotOf(r, row, conds.of).version = row.version
    BY DEF SnapshotOf
  <2>9. rules'[r] = row /\ conditions'[r] = conds
    BY <2>7 DEF CoreInv, TypeInv, TypeOK
  <2>10. \A s \in VersionsOf(r) : s.version <= row0.version /\ s.version \in Nat
    <3>1. CASE q.replacing
      <4>1. row0.version = rules[r].version
        BY <2>1, <2>2, <2>3, <2>4, <2>7, <3>1 DEF WrittenRow, Authoring, Publishes, Row,
           CoreInv, TypeInv, TypeOK
      <4>. QED
        BY <4>1 DEF VersionNamesDefinition, CoreInv, TypeInv, TypeOK, VersionsOf, Snapshot
    <3>2. CASE ~q.replacing
      BY <2>2, <2>3, <3>2 DEF VersionNamesDefinition, VersionsOf
    <3>. QED
      BY <3>1, <3>2
  <2>11. \A s \in VersionsOf(r) :
           s.version <= row.version /\ (s.version = row.version => s = SnapshotOf(r, row, conds.of))
    <3>1. row0.version \in Nat
      BY DEF Row
    <3>2. CASE /\ row = row0
               /\ \A s \in VersionsOf(r) : s.version = row0.version
                                          => s = SnapshotOf(r, row0, conds.of)
      BY <2>10, <3>2
    <3>3. CASE row = [row0 EXCEPT !.version = row0.version + 1]
      <4>1. row.version = row0.version + 1
        BY <3>3 DEF Row
      <4>. QED
        BY <2>10, <3>1, <4>1
    <3>. QED
      BY <2>6, <3>2, <3>3, PublishedRowShape
  <2>12. VersionsOf(r)' = VersionsOf(r) \cup {SnapshotOf(r, row, conds.of)}
    BY <2>7, <2>8 DEF VersionsOf
  <2>13. ASSUME NEW p \in Rule, p # r
         PROVE  VersionsOf(p)' = VersionsOf(p) /\ rules'[p] = rules[p] /\ conditions'[p] = conditions[p]
    BY <2>7, <2>8, <2>13 DEF VersionsOf, CoreInv, TypeInv, TypeOK
  <2>14. ASSUME NEW p \in Rule
         PROVE  /\ rules'[p] # Absent /\ rules'[p].by = "admin" => IsPublished(p)'
                /\ \A s \in VersionsOf(p)' :
                     /\ rules'[p] # Absent
                     /\ s.version <= rules'[p].version
                     /\ s.version = rules'[p].version =>
                          s = SnapshotOf(p, rules'[p], conditions'[p].of)
    <3>1. CASE p = r
      <4>1. row.version \in Nat
        BY DEF Row
      <4>2. PICK new : new = SnapshotOf(r, row, conds.of)
        OBVIOUS
      <4>3. new.version = row.version /\ VersionsOf(r)' = VersionsOf(r) \cup {new}
        BY <2>8, <2>12, <4>2
      <4>4. IsPublished(p)'
        BY <2>9, <3>1, <4>3 DEF IsPublished
      <4>5. \A s \in VersionsOf(p)' : s.version <= row.version /\ (s.version = row.version => s = new)
        BY <2>11, <3>1, <4>1, <4>2, <4>3
      <4>. QED
        BY <2>7, <2>9, <3>1, <4>2, <4>4, <4>5
    <3>2. CASE p # r
      BY <2>13, <3>2 DEF VersionNamesDefinition, IsPublished
    <3>. QED
      BY <3>1, <3>2
  <2>. QED
    BY <2>14 DEF VersionNamesDefinition
<1>3. ASSUME NEW a \in Admin, CommitPurge(a) PROVE VersionNamesDefinition'
  <2>1. PICK r \in Rule : Holds(a, r) /\ request[a].rule = r
    BY <1>3 DEF CommitPurge, Holds
  <2>2. VersionsOf(r) = {}
    BY <1>3, <2>1 DEF CoreInv, LockInv, CommitPurge
  <2>3. /\ rules' = [rules EXCEPT ![r] = Absent]
        /\ conditions' = [conditions EXCEPT ![r] = [conditions[r] EXCEPT !.of = {}]]
        /\ UNCHANGED versions
    BY <1>3, <2>1 DEF CommitPurge
  <2>. QED
    BY <2>2, <2>3 DEF VersionNamesDefinition, VersionsOf, IsPublished, CoreInv, TypeInv, TypeOK
<1>4. ASSUME NEW e \in Evaluator, Evaluates(e) PROVE VersionNamesDefinition'
  BY <1>4, EvaluatesKeepsCore DEF VersionNamesDefinition, VersionsOf, IsPublished
<1>5. CASE UNCHANGED vars
  BY <1>5 DEF vars, VersionNamesDefinition, VersionsOf, IsPublished
<1>. QED
  BY <1>1, <1>2, <1>3, <1>4, <1>5, NextShape

(* A version names one definition, and a rule's own version names its own, *)
(* for any number of administrators (publish_rule_version).                *)
THEOREM VersionsCorrect == Spec => []VersionNamesDefinition
<1>1. Init => VersionNamesDefinition
  BY DEF Init, VersionNamesDefinition, VersionsOf, SeededRow
<1>2. CoreInv /\ VersionNamesDefinition /\ [Next]_vars => VersionNamesDefinition'
  BY VersionsStep
<1>. QED
  BY <1>1, <1>2, CoreCorrect, PTL DEF Spec

----------------------------------------------------------------------------
(* Authored rules.                                                         *)

(* What validation demands of bars, vetoes and mitigators (SoundRule).     *)
SoundDefinition(fields, conds) ==
  /\ \A p \in fields.prevent : fields.review <= p
  /\ fields.veto => \E c \in conds : c.points < 0
  /\ \A c \in conds : c.points < 0 => c.feature \notin HasDefault

(* A rule that was authored here is sound, and has been in shadow.         *)
BornInShadow(r, version) ==
  \E s \in VersionsOf(r) : s.status = "shadow" /\ s.version <= version

AdminInv ==
  \A r \in Rule : rules[r] # Absent /\ rules[r].by = "admin" =>
    /\ SoundDefinition(rules[r].fields, conditions[r].of)
    /\ BornInShadow(r, rules[r].version)

TableInv == CoreInv /\ VersionNamesDefinition /\ AdminInv

(* A commit adds a version, and gives the conditions of a rule a new key   *)
(* or leaves or removes them.                                              *)
Moves ==
  /\ versions \subseteq versions'
  /\ \A r \in Rule :
       /\ conditions[r].id <= conditions'[r].id
       /\ conditions'[r].id = conditions[r].id =>
            conditions'[r] = conditions[r] \/ conditions'[r].of = {}

LEMMA CommitMoves ==
  ASSUME TableInv, NEW a \in Admin, Commit(a) \/ CommitPurge(a)
  PROVE  Moves /\ AdminInv' /\ UNCHANGED <<context, recorded>>
<1>1. PICK r \in Rule : Holds(a, r) /\ request[a].rule = r
  BY DEF Commit, CommitPurge, Holds
<1>2. PICK q \in Request : q = request[a] /\ q.rule = r /\ q # Nobody /\ RequestOK(q)
  BY <1>1 DEF Holds, TableInv, CoreInv, TypeInv, TypeOK, RequestInv
<1>3. conditions \in [Rule -> Stored] /\ rules \in [Rule -> Row \cup {Absent}]
  BY DEF TableInv, CoreInv, TypeInv, TypeOK
<1>4. \A p \in Rule : conditions[p].id \in Nat
  BY <1>3 DEF Stored
<1>5. CASE Commit(a)
  <2>1. q.replacing = (rules[r] # Absent)
    BY <1>1, <1>2, <1>5 DEF TableInv, CoreInv, LockInv, Commit, Publishes
  <2>2. PICK row0 \in Row : row0 = WrittenRow(q)
    BY <1>1, <1>2, <1>5, <2>1, CommitShape DEF TableInv, CoreInv
  <2>3. PICK conds \in Stored : conds = WrittenConditions(q)
    BY <1>1, <1>2, <1>5, <2>1, CommitShape DEF TableInv, CoreInv
  <2>4. PICK row \in Row : row = PublishedRow(r, row0, conds.of)
    BY <2>2, PublishedRowShape
  <2>5. /\ rules' = [rules EXCEPT ![r] = row]
        /\ conditions' = [conditions EXCEPT ![r] = conds]
        /\ versions' = versions \cup {SnapshotOf(r, row, conds.of)}
        /\ Publishes(q.op)
        /\ UNCHANGED <<context, recorded>>
    BY <1>1, <1>2, <1>5, <2>1, <2>2, <2>3, <2>4, CommitShape DEF TableInv, CoreInv
  <2>6. conds = conditions[r] \/ conds.id = conditions[r].id + 1
    BY <1>2, <2>3 DEF WrittenConditions
  <2>7. Moves
    BY <1>3, <1>4, <2>5, <2>6 DEF Moves
  <2>8. /\ row.status = row0.status /\ row.fields = row0.fields /\ row.by = row0.by
        /\ row.version \in Nat /\ row0.version \in Nat /\ row0.version <= row.version
    BY <2>4, PublishedRowShape DEF Row
  <2>9. ASSUME row.by = "admin"
        PROVE  SoundDefinition(row.fields, conds.of) /\ BornInShadow(r, row.version)'
    <3>1. PICK new : new = SnapshotOf(r, row, conds.of)
      OBVIOUS
    <3>2. new.rule = r /\ new.status = row.status /\ new.version = row.version
      BY <3>1 DEF SnapshotOf
    <3>3. \A s \in VersionsOf(r) : s \in VersionsOf(r)'
      BY <2>5 DEF VersionsOf
    <3>4. new \in VersionsOf(r)'
      BY <2>5, <3>1, <3>2 DEF VersionsOf
    <3>5. CASE q.replacing
      <4>1. rules[r] \in Row /\ rules[r] # Absent
        BY <1>3, <2>1, <3>5
      <4>2. /\ row0.by = rules[r].by /\ row0.version = rules[r].version
            /\ q.op \in {"promote", "retire"} =>
                 row0.fields = rules[r].fields /\ conds = conditions[r]
            /\ q.op \in {"create", "edit"} =>
                 row0.fields = q.draft.fields /\ conds.of = q.draft.conditions
        BY <1>2, <2>2, <2>3, <2>5, <3>5, <4>1
           DEF WrittenRow, WrittenConditions, Authoring, Publishes, Row
      <4>3. SoundDefinition(rules[r].fields, conditions[r].of) /\ BornInShadow(r, rules[r].version)
        BY <2>8, <2>9, <4>1, <4>2 DEF TableInv, AdminInv
      <4>4. ASSUME q.op \in {"promote", "retire"}
            PROVE  SoundDefinition(row.fields, conds.of)
        BY <2>8, <4>2, <4>3, <4>4
      <4>5. ASSUME q.op \in {"create", "edit"}
            PROVE  SoundDefinition(row.fields, conds.of)
        BY <1>2, <2>8, <4>2, <4>5, ValidDraft DEF RequestOK, SoundDefinition
      <4>6. PICK s \in VersionsOf(r) : s.status = "shadow" /\ s.version <= rules[r].version
        BY <4>3 DEF BornInShadow
      <4>7. s.version \in Nat
        BY <4>6 DEF VersionsOf, TableInv, CoreInv, TypeInv, TypeOK, Snapshot
      <4>8. BornInShadow(r, row.version)'
        BY <2>8, <3>3, <4>2, <4>6, <4>7 DEF BornInShadow
      <4>. QED
        BY <2>5, <4>3, <4>4, <4>5, <4>8 DEF Publishes
    <3>6. CASE ~q.replacing
      <4>1. q.op \in {"create", "edit"} /\ q.phase = "holding"
        BY <1>1, <1>2, <2>5, <3>6 DEF RequestOK, Publishes, Holds
      <4>2. /\ row0.status = q.draft.status /\ row0.fields = q.draft.fields
            /\ conds.of = q.draft.conditions
        BY <2>2, <2>3, <3>6, <4>1 DEF WrittenRow, WrittenConditions, Authoring
      <4>3. q.draft \in Draft /\ Valid(q.draft) /\ q.draft.status = "shadow"
        BY <1>2, <3>6, <4>1 DEF RequestOK
      <4>4. SoundDefinition(row.fields, conds.of)
        BY <2>8, <4>2, <4>3, ValidDraft DEF SoundDefinition
      <4>5. BornInShadow(r, row.version)'
        BY <2>8, <3>2, <3>4, <4>2, <4>3 DEF BornInShadow
      <4>. QED
        BY <4>4, <4>5
    <3>. QED
      BY <3>5, <3>6
  <2>10. ASSUME NEW p \in Rule, p # r, rules[p] # Absent, rules[p].by = "admin"
         PROVE  BornInShadow(p, rules[p].version)'
    <3>1. PICK s \in VersionsOf(p) : s.status = "shadow" /\ s.version <= rules[p].version
      BY <2>10 DEF BornInShadow, TableInv, AdminInv
    <3>2. s \in VersionsOf(p)' /\ rules'[p] = rules[p]
      BY <1>3, <2>5, <2>10, <3>1 DEF VersionsOf
    <3>. QED
      BY <3>1, <3>2 DEF BornInShadow
  <2>11. AdminInv'
    <3> SUFFICES ASSUME NEW p \in Rule, rules'[p] # Absent, rules'[p].by = "admin"
                 PROVE  /\ SoundDefinition(rules'[p].fields, conditions'[p].of)
                        /\ BornInShadow(p, rules[p].version)'
      BY DEF AdminInv, SoundDefinition
    <3>1. CASE p = r
      <4>1. rules'[p] = row /\ conditions'[p] = conds
        BY <1>3, <2>5, <3>1
      <4>. QED
        BY <2>9, <3>1, <4>1 DEF BornInShadow, VersionsOf
    <3>2. CASE p # r
      <4>1. rules'[p] = rules[p] /\ conditions'[p] = conditions[p]
        BY <1>3, <2>5, <3>2
      <4>. QED
        BY <2>10, <3>2, <4>1 DEF TableInv, AdminInv
    <3>. QED
      BY <3>1, <3>2
  <2>. QED
    BY <2>5, <2>7, <2>11
<1>6. CASE CommitPurge(a)
  <2>1. /\ rules' = [rules EXCEPT ![r] = Absent]
        /\ conditions' = [conditions EXCEPT ![r] = [conditions[r] EXCEPT !.of = {}]]
        /\ UNCHANGED <<versions, context, recorded>>
    BY <1>1, <1>6 DEF CommitPurge
  <2>2. conditions[r] \in Stored
    BY <1>3
  <2>3. /\ [conditions[r] EXCEPT !.of = {}].id = conditions[r].id
        /\ [conditions[r] EXCEPT !.of = {}].of = {}
    BY <2>2 DEF Stored
  <2>4. Moves
    BY <1>3, <1>4, <2>1, <2>3 DEF Moves
  <2>5. ASSUME NEW p \in Rule, rules'[p] # Absent
        PROVE  p # r /\ rules'[p] = rules[p] /\ conditions'[p] = conditions[p]
    BY <1>3, <2>1, <2>5
  <2>6. AdminInv'
    BY <2>1, <2>5 DEF TableInv, AdminInv, BornInShadow, VersionsOf, SoundDefinition
  <2>. QED
    BY <2>1, <2>4, <2>6
<1>. QED
  BY <1>5, <1>6

LEMMA TableStep ==
  ASSUME TableInv, [Next]_vars
  PROVE  TableInv'
<1>1. CoreInv' /\ VersionNamesDefinition'
  BY CoreStep, VersionsStep DEF TableInv
<1>2. ASSUME NEW a \in Admin, Asks(a) PROVE AdminInv'
  <2>1. UNCHANGED <<rules, conditions, versions>>
    BY <1>2, AsksShape DEF TableInv, CoreInv, TypeInv
  <2>. QED
    BY <2>1 DEF TableInv, AdminInv, BornInShadow, VersionsOf, SoundDefinition
<1>3. ASSUME NEW e \in Evaluator, Evaluates(e) PROVE AdminInv'
  <2>1. UNCHANGED <<rules, conditions, versions>>
    BY <1>3, EvaluatesKeepsCore DEF TableInv
  <2>. QED
    BY <2>1 DEF TableInv, AdminInv, BornInShadow, VersionsOf, SoundDefinition
<1>4. CASE UNCHANGED vars
  <2>1. UNCHANGED <<rules, conditions, versions>>
    BY <1>4 DEF vars
  <2>2. AdminInv'
    BY <2>1 DEF TableInv, AdminInv, BornInShadow, VersionsOf, SoundDefinition
  <2>. QED
    BY <1>1, <2>2 DEF TableInv
<1>. QED
  BY <1>1, <1>2, <1>3, <1>4, NextShape, CommitMoves DEF TableInv

LEMMA TableCorrect == Spec => []TableInv
<1>1. Init => AdminInv
  BY DEF Init, AdminInv, SeededRow
<1>2. Init => VersionNamesDefinition
  BY DEF Init, VersionNamesDefinition, VersionsOf, SeededRow
<1>3. Init => TableInv
  BY <1>1, <1>2, CoreInit DEF TableInv
<1>. QED
  BY <1>3, TableStep, PTL DEF Spec

----------------------------------------------------------------------------
(* Evaluations.                                                            *)

(* What an evaluation has loaded so far, against the tables as they are.   *)
(* A key that is still there has kept its conditions; a version that was   *)
(* there is there.                                                         *)
KeyKept(c, r) ==
  /\ c.id <= conditions[r].id
  /\ c.id = conditions[r].id => conditions[r] = c \/ conditions[r].of = {}

Resolves(row, c, r) ==
  \E s \in VersionsOf(r) :
    /\ s.version = row.version /\ s.status = row.status /\ s.fields = row.fields
    /\ conditions[r] = c /\ c.of # {} => s.conditions = c.of

ShadowBefore(row, r) ==
  \E s \in VersionsOf(r) : s.version < row.version /\ s.status = "shadow"

RowRuns(row, c, r) ==
  row.by = "admin" =>
    /\ conditions[r] = c /\ c.of # {} => SoundDefinition(row.fields, c.of)
    /\ row.status = "active" => ShadowBefore(row, r)

LoadInv ==
  \A e \in Evaluator, r \in Rule :
    /\ context[e].phase # "idle" => KeyKept(context[e].conditions[r], r)
    /\ context[e].phase = "loaded" /\ context[e].rules[r] # Absent =>
         /\ RowRuns(context[e].rules[r], context[e].conditions[r], r)
         /\ r \in context[e].published =>
              Resolves(context[e].rules[r], context[e].conditions[r], r)

RecordInv == RecordedResolves /\ ShadowFirst

(* Commits leave what was loaded as true as it was.                        *)
LEMMA MovesKeepInv ==
  ASSUME TypeOK, TypeOK', LoadInv, RecordInv, Moves, UNCHANGED <<context, recorded>>
  PROVE  LoadInv' /\ RecordInv'
<1>1. ASSUME NEW e \in Evaluator, NEW r \in Rule
      PROVE  /\ context'[e].phase # "idle" => KeyKept(context[e].conditions[r], r)'
             /\ context'[e].phase = "loaded" /\ context'[e].rules[r] # Absent =>
                  /\ RowRuns(context[e].rules[r], context[e].conditions[r], r)'
                  /\ r \in context'[e].published =>
                       Resolves(context[e].rules[r], context[e].conditions[r], r)'
  <2>1. PICK c, row : c = context[e].conditions[r] /\ row = context[e].rules[r]
    OBVIOUS
  <2>2. /\ context[e].phase # "idle" => c \in Stored
        /\ context[e].phase = "loaded" /\ row # Absent => row \in Row
    BY <2>1 DEF TypeOK
  <2>3. /\ context[e].phase # "idle" => KeyKept(c, r)
        /\ context[e].phase = "loaded" /\ row # Absent =>
             RowRuns(row, c, r) /\ (r \in context[e].published => Resolves(row, c, r))
    BY <2>1 DEF LoadInv
  <2>4. /\ context[e].phase # "idle" => KeyKept(c, r)'
        /\ context[e].phase = "loaded" /\ row # Absent =>
             RowRuns(row, c, r)' /\ (r \in context[e].published => Resolves(row, c, r)')
    <3>1. SUFFICES ASSUME context[e].phase # "idle"
                   PROVE  /\ KeyKept(c, r)'
                          /\ context[e].phase = "loaded" /\ row # Absent =>
                               RowRuns(row, c, r)' /\ (r \in context[e].published => Resolves(row, c, r)')
      OBVIOUS
    <3>2. /\ conditions[r].id \in Nat /\ c.id \in Nat /\ conditions'[r].id \in Nat
          /\ conditions[r].id <= conditions'[r].id
          /\ conditions'[r].id = conditions[r].id =>
               conditions'[r] = conditions[r] \/ conditions'[r].of = {}
      BY <2>2, <3>1 DEF TypeOK, Stored, Moves
    <3>3. KeyKept(c, r)'
      BY <2>3, <3>1, <3>2 DEF KeyKept
    <3>4. conditions'[r] = c /\ c.of # {} => conditions[r] = c
      BY <2>3, <3>1, <3>2 DEF KeyKept
    <3>5. \A s \in VersionsOf(r) : s \in VersionsOf(r)'
      BY DEF VersionsOf, Moves
    <3>6. Resolves(row, c, r) => Resolves(row, c, r)'
      BY <3>4, <3>5 DEF Resolves
    <3>7. ShadowBefore(row, r) => ShadowBefore(row, r)'
      BY <3>5 DEF ShadowBefore
    <3>8. RowRuns(row, c, r) => RowRuns(row, c, r)'
      BY <3>4, <3>7 DEF RowRuns, SoundDefinition
    <3>. QED
      BY <2>3, <3>3, <3>6, <3>8
  <2>5. c = context'[e].conditions[r] /\ row = context'[e].rules[r]
    BY <2>1
  <2>. QED
    BY <2>4, <2>5 DEF KeyKept, RowRuns, Resolves, ShadowBefore, VersionsOf
<1>2. LoadInv'
  BY <1>1 DEF LoadInv
<1>3. \A r \in Rule : \A s \in VersionsOf(r) : s \in VersionsOf(r)'
  BY DEF VersionsOf, Moves
<1>4. ASSUME NEW x \in recorded PROVE \A s \in VersionsOf(x.rule) : s \in VersionsOf(x.rule)'
  BY <1>3 DEF TypeOK
<1>5. RecordedResolves'
  BY <1>4 DEF RecordInv, RecordedResolves, SoundRule
<1>6. ShadowFirst'
  BY <1>4 DEF RecordInv, ShadowFirst
<1>. QED
  BY <1>2, <1>5, <1>6 DEF RecordInv

(* Loading and recording.                                                  *)
LEMMA EvaluatesKeepInv ==
  ASSUME TableInv, TypeOK', LoadInv, RecordInv, NEW e \in Evaluator, Evaluates(e)
  PROVE  LoadInv' /\ RecordInv'
<1>1. UNCHANGED <<rules, conditions, versions>> /\ TypeOK
  BY EvaluatesKeepsCore DEF TableInv, CoreInv, TypeInv
<1>2. \A r \in Rule : VersionsOf(r)' = VersionsOf(r)
  BY <1>1 DEF VersionsOf
<1>3. ASSUME NEW f \in Evaluator, context'[f] = context[f], NEW r \in Rule
      PROVE  /\ context'[f].phase # "idle" => KeyKept(context[f].conditions[r], r)'
             /\ context'[f].phase = "loaded" /\ context'[f].rules[r] # Absent =>
                  /\ RowRuns(context[f].rules[r], context[f].conditions[r], r)'
                  /\ r \in context'[f].published =>
                       Resolves(context[f].rules[r], context[f].conditions[r], r)'
  BY <1>1, <1>2, <1>3 DEF LoadInv, KeyKept, RowRuns, Resolves, ShadowBefore, SoundDefinition
<1>4. ASSUME UNCHANGED recorded PROVE RecordInv'
  BY <1>1, <1>4 DEF RecordInv, RecordedResolves, ShadowFirst, SoundRule, VersionsOf
<1>5. CASE LoadConditions(e)
  <2>1. /\ \A f \in Evaluator \ {e} : context'[f] = context[f]
        /\ context'[e].phase = "conditions" /\ context'[e].conditions = conditions
        /\ UNCHANGED recorded
    BY <1>1, <1>5 DEF LoadConditions, TypeOK
  <2>2. ASSUME NEW r \in Rule PROVE KeyKept(context[e].conditions[r], r)'
    <3>1. conditions'[r] = conditions[r] /\ conditions[r].id \in Nat
      BY <1>1 DEF TypeOK, Stored
    <3>. QED
      BY <2>1, <3>1 DEF KeyKept
  <2>3. LoadInv'
    BY <1>3, <2>1, <2>2 DEF LoadInv
  <2>. QED
    BY <1>4, <2>1, <2>3
<1>6. CASE LoadRules(e)
  <2>1. /\ \A f \in Evaluator \ {e} : context'[f] = context[f]
        /\ context[e].phase = "conditions"
        /\ context'[e].phase = "loaded" /\ context'[e].conditions = context[e].conditions
        /\ context'[e].rules = [r \in Rule |->
              IF rules[r] # Absent /\ rules[r].status \in EvaluatedStatus THEN rules[r] ELSE Absent]
        /\ context'[e].published = {r \in Rule : rules[r] # Absent /\ IsPublished(r)}
        /\ UNCHANGED recorded
    BY <1>1, <1>6 DEF LoadRules, TypeOK
  <2>2. ASSUME NEW r \in Rule
        PROVE  KeyKept(context[e].conditions[r], r)'
    BY <1>1, <2>1 DEF LoadInv, KeyKept
  <2>3. ASSUME NEW r \in Rule, context'[e].rules[r] # Absent
        PROVE  /\ RowRuns(context[e].rules[r], context[e].conditions[r], r)'
               /\ r \in context'[e].published =>
                    Resolves(context[e].rules[r], context[e].conditions[r], r)'
    <3>1. PICK c, row : c = context[e].conditions[r] /\ row = rules[r]
      OBVIOUS
    <3>2. /\ context'[e].rules[r] = row /\ row # Absent /\ row \in Row
          /\ context'[e].conditions[r] = c
      BY <2>1, <2>3, <3>1, <1>1 DEF TypeOK
    <3>3. /\ conditions'[r] = conditions[r] /\ VersionsOf(r)' = VersionsOf(r)
      BY <1>1, <1>2
    <3>4. ASSUME r \in context'[e].published PROVE Resolves(row, c, r)'
      <4>1. PICK s \in VersionsOf(r) : s.version = row.version
        BY <2>1, <3>1, <3>4 DEF IsPublished
      <4>2. s = SnapshotOf(r, row, conditions[r].of)
        BY <3>1, <4>1 DEF TableInv, VersionNamesDefinition
      <4>3. s.status = row.status /\ s.fields = row.fields /\ s.conditions = conditions[r].of
        BY <4>2 DEF SnapshotOf
      <4>. QED
        BY <3>3, <4>1, <4>3 DEF Resolves
    <3>5. ASSUME row.by = "admin", row.status = "active" PROVE ShadowBefore(row, r)'
      <4>1. PICK s \in VersionsOf(r) : s.status = "shadow" /\ s.version <= row.version
        BY <3>1, <3>2, <3>5 DEF TableInv, AdminInv, BornInShadow
      <4>2. s.version = row.version => s.status = row.status
        BY <3>1, <4>1 DEF TableInv, VersionNamesDefinition, SnapshotOf
      <4>3. s.version \in Nat /\ row.version \in Nat
        BY <1>1, <3>2, <4>1 DEF VersionsOf, TypeOK, Snapshot, Row
      <4>4. s.version < row.version
        BY <3>5, <4>1, <4>2, <4>3
      <4>. QED
        BY <3>3, <4>1, <4>4 DEF ShadowBefore
    <3>6. ASSUME row.by = "admin", conditions[r] = c PROVE SoundDefinition(row.fields, c.of)
      BY <3>1, <3>2, <3>6 DEF TableInv, AdminInv
    <3>7. RowRuns(row, c, r)'
      BY <3>3, <3>5, <3>6 DEF RowRuns, SoundDefinition
    <3>. QED
      BY <3>2, <3>4, <3>7 DEF RowRuns, Resolves, ShadowBefore, SoundDefinition
  <2>4. LoadInv'
    BY <1>3, <2>1, <2>2, <2>3 DEF LoadInv
  <2>. QED
    BY <1>4, <2>1, <2>4
<1>7. ASSUME Unload(e) PROVE LoadInv'
  <2>1. /\ \A f \in Evaluator \ {e} : context'[f] = context[f]
        /\ context'[e].phase = "idle"
    BY <1>1, <1>7 DEF Unload, NotLoaded, TypeOK
  <2>. QED
    BY <1>3, <2>1 DEF LoadInv
<1>8. CASE Record(e)
  <2>1. PICK acted \in SUBSET {r \in Loaded(e) : context[e].rules[r].status = "active"} :
          recorded' = recorded \cup
            {[rule |-> r, row |-> context[e].rules[r],
              conditions |-> context[e].conditions[r].of,
              published |-> r \in context[e].published,
              acted |-> r \in acted] : r \in Loaded(e)}
    BY <1>8 DEF Record
  <2>2. ASSUME NEW r \in Loaded(e)
        PROVE  /\ r \in Rule /\ context[e].phase = "loaded" /\ context[e].rules[r] # Absent
               /\ context[e].conditions[r].of # {} => conditions[r] = context[e].conditions[r]
    BY <1>8 DEF Record, Loaded, ConditionsVanished
  <2>3. ASSUME NEW x \in recorded'
        PROVE  /\ x.published => \E s \in VersionsOf(x.rule) :
                    /\ s.version = x.row.version /\ s.status = x.row.status
                    /\ s.fields = x.row.fields
                    /\ x.conditions # {} => s.conditions = x.conditions
               /\ x.row.by = "admin" /\ x.conditions # {} =>
                    SoundDefinition(x.row.fields, x.conditions)
               /\ x.acted /\ x.row.by = "admin" => ShadowBefore(x.row, x.rule)
    <3>1. CASE x \in recorded
      BY <3>1 DEF RecordInv, RecordedResolves, ShadowFirst, SoundRule, SoundDefinition, ShadowBefore
    <3>2. CASE x \notin recorded
      <4>1. PICK r \in Loaded(e) :
              x = [rule |-> r, row |-> context[e].rules[r],
                   conditions |-> context[e].conditions[r].of,
                   published |-> r \in context[e].published,
                   acted |-> r \in acted]
        BY <2>1, <3>2
      <4>2. /\ x.rule = r /\ x.row = context[e].rules[r]
            /\ x.conditions = context[e].conditions[r].of
            /\ x.published = (r \in context[e].published) /\ x.acted = (r \in acted)
        BY <4>1
      <4>3. /\ RowRuns(x.row, context[e].conditions[r], r)
            /\ x.published => Resolves(x.row, context[e].conditions[r], r)
        BY <2>2, <4>2 DEF LoadInv
      <4>4. x.acted => x.row.status = "active"
        BY <2>1, <4>2
      <4>. QED
        BY <2>2, <4>2, <4>3, <4>4 DEF RowRuns, Resolves
    <3>. QED
      BY <3>1, <3>2
  <2>4. ASSUME NEW x \in recorded' PROVE VersionsOf(x.rule)' = VersionsOf(x.rule)
    BY <1>2 DEF TypeOK
  <2>5. RecordedResolves'
    BY <2>3, <2>4 DEF RecordedResolves, SoundRule, SoundDefinition
  <2>6. ShadowFirst'
    BY <2>3, <2>4 DEF ShadowFirst, ShadowBefore
  <2>7. Unload(e)
    BY <1>8 DEF Record
  <2>. QED
    BY <1>7, <2>5, <2>6, <2>7 DEF RecordInv
<1>9. CASE RecordFails(e)
  BY <1>4, <1>7, <1>9 DEF RecordFails
<1>. QED
  BY <1>5, <1>6, <1>8, <1>9 DEF Evaluates

LEMMA RunsStep == TableInv /\ LoadInv /\ RecordInv /\ [Next]_vars => LoadInv' /\ RecordInv'
<1>. SUFFICES ASSUME TableInv, LoadInv, RecordInv, [Next]_vars
              PROVE  LoadInv' /\ RecordInv'
  OBVIOUS
<1>1. TypeOK /\ TypeOK'
  BY TableStep DEF TableInv, CoreInv, TypeInv
<1>2. ASSUME UNCHANGED vars \/ \E a \in Admin : Asks(a)
      PROVE  Moves /\ UNCHANGED <<context, recorded>>
  <2>1. UNCHANGED <<rules, conditions, versions, context, recorded>>
    BY <1>2, AsksShape DEF vars, TableInv, CoreInv, TypeInv
  <2>. QED
    BY <1>1, <2>1 DEF Moves, TypeOK, Stored
<1>. QED
  BY <1>1, <1>2, NextShape, CommitMoves, MovesKeepInv, EvaluatesKeepInv

LEMMA RunsCorrect == Spec => [](TableInv /\ LoadInv /\ RecordInv)
<1>1. Init => LoadInv /\ RecordInv
  BY DEF Init, LoadInv, RecordInv, RecordedResolves, ShadowFirst, NotLoaded
<1>. QED
  BY <1>1, TableCorrect, RunsStep, PTL DEF Spec

(* What a decision recorded resolves to the definition it ran, and to a    *)
(* sound one, for any number of administrators and evaluations whose two   *)
(* statements a commit may fall between (load_rules, publish_rule).        *)
THEOREM RecordsResolve == Spec => []RecordedResolves
<1>1. RecordInv => RecordedResolves
  BY DEF RecordInv
<1>. QED
  BY <1>1, RunsCorrect, PTL

(* No authored rule acts before a version of it has been in shadow.        *)
THEOREM ShadowComesFirst == Spec => []ShadowFirst
<1>1. RecordInv => ShadowFirst
  BY DEF RecordInv
<1>. QED
  BY <1>1, RunsCorrect, PTL
=============================================================================
