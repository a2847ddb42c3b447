---------------------------- MODULE ControlPlane ----------------------------
(***************************************************************************)
(* The rule control plane and the evaluations that read it at the same     *)
(* time.  Administrators author, promote, retire, purge and try out rules  *)
(* (api/routes_rules.py, rules/validate.py, rules/publish.py, migration    *)
(* 0030); evaluations load the rules with two statements (catalog.py) and  *)
(* write down which version of each they ran (engine/evaluation.py).       *)
(*                                                                         *)
(* Every request is one READ COMMITTED transaction of three steps here:    *)
(* what it reads first, what it reads again before it writes, and its      *)
(* writes, which take the row lock of the rule and hold it until the       *)
(* commit.  While the lock is held nobody else changes the rule, so what   *)
(* was written is a function of the committed tables and is computed when  *)
(* it becomes visible, at the commit.                                      *)
(***************************************************************************)
EXTENDS Integers, FiniteSets

CONSTANTS
  Rule,             \* rule ids
  Admin,            \* administrators with a request in flight
  Evaluator,        \* lane runs and authorisations
  Draft,            \* the drafts administrators submit
  Absent, Nobody,   \* no such row; no request
  PlannableSubject, \* subject types the planner reaches
  ExecutionMode,    \* ref_execution_mode
  Action,           \* ref_action
  Preventive,       \* the preventive ones
  ActiveFeature,    \* feature_catalog rows with status active
  InlineCapable,    \* features an inline rule may read
  HasDefault,       \* features with a default_when_absent
  SeededFields,     \* what a rule inserted by a seed says
  SeededConditions,
  MaxEdits,         \* bound on the edits of one rule
  MaxRecorded       \* bound on the rows of recorded before a load

(* The drafts as submitted, and as a what-if applies them.                 *)
AnyDraft == Draft \cup {[d EXCEPT !.status = "active"] : d \in Draft}

ASSUME BoundAssumption  == MaxEdits \in Nat /\ MaxRecorded \in Nat
ASSUME DraftAssumption ==
  /\ Draft # {}
  /\ \A d \in Draft :
       /\ d \in [rule : Rule, status : {d.status}, fields : {d.fields},
                conditions : {d.conditions}]
       /\ d.fields.review \in Int /\ d.fields.prevent \subseteq Int
       /\ \A c \in d.conditions : c.points \in Int
ASSUME SeedAssumption == SeededConditions # {}

VARIABLES
  rules,       \* rule_definitions: status, version and the authored fields
  conditions,  \* rule_conditions, by rule; id stands for their surrogate keys
  versions,    \* rule_versions
  request,     \* the transaction of each administrator
  context,     \* the EngineContext each evaluation has loaded so far
  recorded     \* what decisions say they ran: rule_version_set and its ledger

vars == <<rules, conditions, versions, request, context, recorded>>

----------------------------------------------------------------------------
(* Drafts.  A draft is [rule, status, fields, conditions]; a prevent bar   *)
(* is a set of at most one number, because it may be null.                 *)

Status          == {"active", "shadow", "inactive"}
EvaluatedStatus == {"active", "shadow"}

Fields == {d.fields : d \in Draft} \cup {SeededFields}
ConditionSets == ({d.conditions : d \in Draft} \cup {SeededConditions}) \ {{}}

(* What is wrong with one condition of a draft, by the field named.        *)
ConditionFaults(c, fields) ==
  [operator            |-> ~c.comparable,
   feature_key         |-> \/ c.feature \notin ActiveFeature
                           \/ fields.mode = "inline_sync" /\ c.feature \notin InlineCapable,
   contribution_points |-> c.points < 0 /\ c.feature \in HasDefault]

(* What is wrong with the rest of it.                                      *)
DraftFaults(d) ==
  [subject_type      |-> d.fields.subject \notin PlannableSubject,
   execution_mode    |-> d.fields.mode \notin ExecutionMode,
   action            |-> d.fields.action \notin Action,
   status            |-> d.status \notin Status,
   review_threshold  |-> d.fields.review < 0,
   prevent_threshold |-> \E p \in d.fields.prevent :
                           d.fields.action \in Action \ Preventive \/ p < d.fields.review,
   conditions        |-> d.conditions = {},
   is_veto           |-> /\ d.fields.veto
                         /\ d.conditions # {}
                         /\ \A c \in d.conditions : c.points >= 0]

FaultNames(faults) == {f \in DOMAIN faults : faults[f]}

(* Every rejection is collected, and any rejection refuses the draft.      *)
Valid(d) ==
  /\ FaultNames(DraftFaults(d)) = {}
  /\ \A c \in d.conditions : FaultNames(ConditionFaults(c, d.fields)) = {}

----------------------------------------------------------------------------
(* Tables.                                                                 *)

Row      == [status : Status, version : Nat \ {0}, fields : Fields, by : {"seed", "admin"}]
Stored   == [id : Nat, of : ConditionSets \cup {{}}]
Snapshot == [rule : Rule, version : Nat \ {0}, status : Status, fields : Fields,
             conditions : ConditionSets]

Authoring == {"create", "edit", "whatif"}
Operation == Authoring \cup {"promote", "retire", "purge"}
Request   == [op : Operation, rule : Rule, draft : AnyDraft,
              phase : {"checked", "read", "holding"}, replacing : BOOLEAN]

ASSUME AbsentAssumption == Absent \notin Row /\ Nobody \notin Request

(* What an evaluation has read: the conditions of every rule, and then,    *)
(* in a second statement, the rules.                                       *)
NotLoaded == [phase |-> "idle"]

SnapshotOf(r, row, conds) ==
  [rule |-> r, version |-> row.version, status |-> row.status,
   fields |-> row.fields, conditions |-> conds]

VersionsOf(r) == {s \in versions : s.rule = r}

IsPublished(r) == \E s \in VersionsOf(r) : s.version = rules[r].version

(* Rows, snapshots, requests and loaded contexts have their shape.         *)
TypeOK ==
  /\ rules \in [Rule -> Row \cup {Absent}]
  /\ conditions \in [Rule -> Stored]
  /\ versions \subseteq Snapshot
  /\ request \in [Admin -> Request \cup {Nobody}]
  /\ DOMAIN context = Evaluator
  /\ \A e \in Evaluator :
       /\ context[e].phase \in {"idle", "conditions", "loaded"}
       /\ context[e].phase # "idle" => context[e].conditions \in [Rule -> Stored]
       /\ context[e].phase = "loaded" =>
            context[e].rules \in [Rule -> Row \cup {Absent}]
  /\ \A x \in recorded :
       /\ x.rule \in Rule
       /\ x.row \in Row
       /\ x.conditions \in ConditionSets \cup {{}}
       /\ x.published \in BOOLEAN
       /\ x.acted \in BOOLEAN

----------------------------------------------------------------------------
(* publish_rule_version, on the row and the conditions just written.       *)

(* Mutant: the version moves only when the conditions do.                  *)
BumpOnConditions(r, row, conds) ==
  LET stored == {s \in VersionsOf(r) : s.version = row.version}
  IN  IF \A s \in stored : s.conditions = conds
      THEN row ELSE [row EXCEPT !.version = @ + 1]

(* The row with the version that identifies its definition: the stored one *)
(* while no snapshot has it or the snapshot says the same.                 *)
PublishedRow(r, row, conds) ==
  LET stored == {s \in VersionsOf(r) : s.version = row.version}
  IN  IF \A s \in stored : s = SnapshotOf(r, row, conds)
      THEN row ELSE [row EXCEPT !.version = @ + 1]

(* The rule row a request leaves behind, before it is published.           *)
WrittenRow(q) ==
  CASE q.op \in Authoring /\ q.replacing ->
         [rules[q.rule] EXCEPT !.status = q.draft.status, !.fields = q.draft.fields]
    [] q.op \in Authoring /\ ~q.replacing ->
         [status |-> q.draft.status, version |-> 1, fields |-> q.draft.fields,
          by |-> "admin"]
    [] q.op = "promote" -> [rules[q.rule] EXCEPT !.status = "active"]
    [] q.op = "retire"  -> [rules[q.rule] EXCEPT !.status = "inactive"]

(* The conditions it leaves behind: a draft's replace the stored ones      *)
(* wholesale, under new keys.                                              *)
WrittenConditions(q) ==
  IF q.op \in Authoring
  THEN [id |-> conditions[q.rule].id + 1, of |-> q.draft.conditions]
  ELSE conditions[q.rule]

----------------------------------------------------------------------------
(* Requests.                                                               *)

Leave(a) == request' = [request EXCEPT ![a] = Nobody]

Opened(op, r, d, phase) ==
  [op |-> op, rule |-> r, draft |-> d, phase |-> phase, replacing |-> rules[r] # Absent]

(* Mutant: a new rule may be published in any status.                      *)
RefusedUnlessStatusMatches(q) ==
  CASE q.op \in {"create", "edit"} ->
         rules[q.rule] # Absent /\ q.draft.status # rules[q.rule].status
    [] q.op = "promote" -> rules[q.rule] = Absent \/ rules[q.rule].status # "shadow"
    [] q.op = "retire"  -> rules[q.rule] = Absent
    [] q.op = "purge"   -> rules[q.rule] = Absent \/ VersionsOf(q.rule) # {}

(* PublishRefused, on what stored_rule returned.                           *)
Refused(q) ==
  CASE q.op \in {"create", "edit"} ->
         IF rules[q.rule] = Absent THEN q.draft.status # "shadow"
                                   ELSE q.draft.status # rules[q.rule].status
    [] q.op = "promote" -> rules[q.rule] = Absent \/ rules[q.rule].status # "shadow"
    [] q.op = "retire"  -> rules[q.rule] = Absent
    [] q.op = "purge"   -> rules[q.rule] = Absent \/ VersionsOf(q.rule) # {}

(* The routes that author: the draft is validated, a create must not find  *)
(* the rule, an edit must.                                                 *)
Author(a, op, d) ==
  /\ request[a] = Nobody
  /\ op \in {"create", "edit"}
  /\ Valid(d)
  /\ conditions[d.rule].id < MaxEdits
  /\ (rules[d.rule] = Absent) = (op = "create")
  /\ request' = [request EXCEPT ![a] = Opened(op, d.rule, d, "checked")]
  /\ UNCHANGED <<rules, conditions, versions, context, recorded>>

(* publish_rule reads the rule again and decides by what it finds now.     *)
Publish(a) ==
  LET q    == request[a]
      next == Opened(q.op, q.rule, q.draft, "read")
  IN
  /\ q # Nobody
  /\ q.phase = "checked"
  /\ IF Refused(q) THEN Leave(a) ELSE request' = [request EXCEPT ![a] = next]
  /\ UNCHANGED <<rules, conditions, versions, context, recorded>>

(* promote_rule, retire_rule and delete_rule read once; d is a place       *)
(* holder.                                                                 *)
Manage(a, op, r) ==
  LET q == Opened(op, r, CHOOSE d \in Draft : TRUE, "read") IN
  /\ request[a] = Nobody
  /\ op \in {"promote", "retire", "purge"}
  /\ ~Refused(q)
  /\ request' = [request EXCEPT ![a] = q]
  /\ UNCHANGED <<rules, conditions, versions, context, recorded>>

(* simulate_rule reads whether the rule exists before it opens its scope.  *)
(* It applies the draft as active, whatever status it asks for.            *)
TryOut(a, d) ==
  LET q == Opened("whatif", d.rule, [d EXCEPT !.status = "active"], "read") IN
  /\ request[a] = Nobody
  /\ Valid(d)
  /\ request' = [request EXCEPT ![a] = q]
  /\ UNCHANGED <<rules, conditions, versions, context, recorded>>

Holds(a, r) ==
  request[a] # Nobody /\ request[a].phase = "holding" /\ request[a].rule = r

(* What the database refuses once the lock is granted: conditions for a    *)
(* rule that is gone, a second rule with the id, a rule that decisions or  *)
(* published versions reference.                                           *)
WriteFails(q) ==
  \/ q.op # "purge" /\ q.replacing # (rules[q.rule] # Absent)
  \/ /\ q.op = "purge"
     /\ VersionsOf(q.rule) # {} \/ \E x \in recorded : x.rule = q.rule /\ x.acted

(* The writing statements wait for the row, and for the unique index.      *)
Write(a) ==
  LET q == request[a] IN
  /\ q # Nobody
  /\ q.phase = "read"
  /\ \A b \in Admin : ~Holds(b, q.rule)
  /\ IF WriteFails(q) THEN Leave(a)
     ELSE request' = [request EXCEPT ![a].phase = "holding"]
  /\ UNCHANGED <<rules, conditions, versions, context, recorded>>

(* The operations whose writes outlive the transaction.                    *)
Publishes(op) == op \in {"create", "edit", "promote", "retire"}

Commit(a) ==
  LET q     == request[a]
      conds == WrittenConditions(q)
      row   == PublishedRow(q.rule, WrittenRow(q), conds.of)
  IN
  /\ \E r \in Rule : Holds(a, r)
  /\ Publishes(q.op)
  /\ rules' = [rules EXCEPT ![q.rule] = row]
  /\ conditions' = [conditions EXCEPT ![q.rule] = conds]
  /\ versions' = versions \cup {SnapshotOf(q.rule, row, conds.of)}
  /\ Leave(a)
  /\ UNCHANGED <<context, recorded>>

CommitPurge(a) ==
  LET q == request[a] IN
  /\ \E r \in Rule : Holds(a, r)
  /\ q.op = "purge"
  /\ rules' = [rules EXCEPT ![q.rule] = Absent]
  /\ conditions' = [conditions EXCEPT ![q.rule].of = {}]
  /\ Leave(a)
  /\ UNCHANGED <<versions, context, recorded>>

(* simulation_scope rolls a what-if back; a request that fails, or whose   *)
(* connection is lost, rolls back too.                                     *)
Rollback(a) ==
  /\ \E r \in Rule : Holds(a, r)
  /\ Leave(a)
  /\ UNCHANGED <<rules, conditions, versions, context, recorded>>

----------------------------------------------------------------------------
(* Evaluations.                                                            *)

LoadConditions(e) ==
  /\ context[e].phase = "idle"
  /\ Cardinality(recorded) < MaxRecorded
  /\ context' = [context EXCEPT ![e] =
       [phase |-> "conditions", conditions |-> conditions]]
  /\ UNCHANGED <<rules, conditions, versions, request, recorded>>

(* Only rules in an evaluated status reach the engine.                     *)
LoadRules(e) ==
  /\ context[e].phase = "conditions"
  /\ context' = [context EXCEPT ![e] =
       [phase      |-> "loaded",
        conditions |-> context[e].conditions,
        rules      |-> [r \in Rule |->
           IF rules[r] # Absent /\ rules[r].status \in EvaluatedStatus
           THEN rules[r] ELSE Absent],
        published  |-> {r \in Rule : rules[r] # Absent /\ IsPublished(r)}]]
  /\ UNCHANGED <<rules, conditions, versions, request, recorded>>

Loaded(e) == {r \in Rule : context[e].rules[r] # Absent}

(* The insert of decision_conditions waits while a request that deletes    *)
(* the conditions of a loaded rule holds the rule.                         *)
LedgerBlocked(e) ==
  \E a \in Admin, r \in Loaded(e) :
    Holds(a, r) /\ request[a].op \in Authoring \cup {"purge"}

(* Mutant: no foreign key from the ledger to the conditions.               *)
NothingVanished(e) == FALSE

(* decision_conditions.condition_id references rule_conditions: a key that *)
(* an edit has replaced refuses the insert.                                *)
ConditionsVanished(e) ==
  \E r \in Loaded(e) :
    /\ context[e].conditions[r].of # {}
    /\ context[e].conditions[r] # conditions[r]

Unload(e) == context' = [context EXCEPT ![e] = NotLoaded]

(* One evaluation is written and committed: the version of every loaded    *)
(* rule, and which of the active ones gave the action.                     *)
Record(e) ==
  /\ context[e].phase = "loaded"
  /\ ~LedgerBlocked(e)
  /\ ~ConditionsVanished(e)
  /\ \E acted \in SUBSET {r \in Loaded(e) : context[e].rules[r].status = "active"} :
       recorded' = recorded \cup
         {[rule |-> r, row |-> context[e].rules[r],
           conditions |-> context[e].conditions[r].of,
           published |-> r \in context[e].published,
           acted |-> r \in acted] : r \in Loaded(e)}
  /\ Unload(e)
  /\ UNCHANGED <<rules, conditions, versions, request>>

(* The insert fails and takes the whole evaluation with it.                *)
RecordFails(e) ==
  /\ context[e].phase = "loaded"
  /\ ~LedgerBlocked(e)
  /\ ConditionsVanished(e)
  /\ Unload(e)
  /\ UNCHANGED <<rules, conditions, versions, request, recorded>>

----------------------------------------------------------------------------
(* A rule a seed has inserted is active and nobody has published it.       *)
SeededRow == [status |-> "active", version |-> 1, fields |-> SeededFields, by |-> "seed"]

Init ==
  /\ rules \in [Rule -> {Absent, SeededRow}]
  /\ conditions = [r \in Rule |->
       [id |-> 0, of |-> IF rules[r] = Absent THEN {} ELSE SeededConditions]]
  /\ versions = {}
  /\ request = [a \in Admin |-> Nobody]
  /\ context = [e \in Evaluator |-> NotLoaded]
  /\ recorded = {}

Administer(a) ==
  \/ \E op \in {"create", "edit"}, d \in Draft : Author(a, op, d)
  \/ \E d \in Draft : TryOut(a, d)
  \/ \E op \in {"promote", "retire", "purge"}, r \in Rule : Manage(a, op, r)
  \/ Publish(a) \/ Write(a) \/ Commit(a) \/ CommitPurge(a) \/ Rollback(a)

Evaluates(e) == LoadConditions(e) \/ LoadRules(e) \/ Record(e) \/ RecordFails(e)

Next == (\E a \in Admin : Administer(a)) \/ (\E e \in Evaluator : Evaluates(e))

Spec == Init /\ [][Next]_vars

----------------------------------------------------------------------------
(* Properties.                                                             *)

(* The version a rule carries names the definition it has: a rule the API  *)
(* wrote always has a snapshot at its version, and a snapshot at a rule's  *)
(* version is its committed status, fields and conditions, whatever edits, *)
(* promotions, retirements and what-ifs overlapped (rules/publish.py,      *)
(* publish_rule_version).                                                  *)
VersionNamesDefinition ==
  \A r \in Rule :
    /\ rules[r] # Absent /\ rules[r].by = "admin" => IsPublished(r)
    /\ \A s \in VersionsOf(r) :
         /\ rules[r] # Absent
         /\ s.version <= rules[r].version
         /\ s.version = rules[r].version =>
              s = SnapshotOf(r, rules[r], conditions[r].of)

(* Never below the bar it alerts at, never by a veto that no evidence      *)
(* could establish, never on a mitigator that is always there.             *)
SoundRule(x) ==
  /\ \A p \in x.row.fields.prevent : x.row.fields.review <= p
  /\ x.row.fields.veto => \E c \in x.conditions : c.points < 0
  /\ \A c \in x.conditions : c.points < 0 => c.feature \notin HasDefault

(* What a decision ran is what the version it recorded says, though the    *)
(* conditions and the rules are read by two statements: a load that an     *)
(* edit tore apart cannot be written down, and the one torn load that can, *)
(* of a rule created in between, ran no condition at all; and an authored  *)
(* rule that was recorded whole is one the validator would pass            *)
(* (load_rules, _write_conditions, rules/validate.py).                     *)
RecordedResolves ==
  \A x \in recorded :
    /\ x.published =>
         \E s \in VersionsOf(x.rule) :
           /\ s.version = x.row.version
           /\ s.status = x.row.status
           /\ s.fields = x.row.fields
           /\ x.conditions # {} => s.conditions = x.conditions
    /\ x.row.by = "admin" /\ x.conditions # {} => SoundRule(x)

(* A rule that was authored here never gives a decision its action before  *)
(* it has been in shadow under an earlier version (publish_rule).          *)
ShadowFirst ==
  \A x \in recorded : x.acted /\ x.row.by = "admin" =>
    \E s \in VersionsOf(x.rule) : s.version < x.row.version /\ s.status = "shadow"
=============================================================================
