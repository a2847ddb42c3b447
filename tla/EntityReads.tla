---------------------------- MODULE EntityReads ----------------------------
(***************************************************************************)
(* From the subject of an evaluation to the numbers it is judged by: the   *)
(* route through the resolution graph to the entities a feature keys on    *)
(* (engine/resolver.py), the point-in-time read of their values and its    *)
(* reduction (engine/pit.py), the data ceiling of a decision               *)
(* (engine/evaluation.py) and the money at stake (engine/exposure.py).     *)
(* An evaluation is a transaction of several READ COMMITTED statements:    *)
(* rows, values and movements are committed between any two of them.       *)
(***************************************************************************)
EXTENDS Integers, Sequences, FiniteSets, FiniteSetsExt

CONSTANTS
  Type,         \* ref_subject_type
  Entity,       \* records [type, id]
  Catalogs,     \* the tables resolution_edges may be, sets of edges
  Linked,       \* rows behind the edges that change: [edge, key, value]
  Fixed,        \* and those that are there from the start
  Rule,         \* what a rule asks of one feature
  Request,      \* evaluations: subject, trigger, occurred_at
  NoTrigger,
  Computable,   \* what the runner may compute: [entity, value, at]
  Null,
  Session,      \* connections that compute and evaluate
  Movement,     \* rows of transactions: [id, account, direction, at, amount]
  Arrived,      \* and those that are there from the start
  Account,      \* the subject type whose exposure is what leaves it
  Window,       \* the window of the exposure query
  Network,      \* the subject type whose exposure is that of its members
  Instant,      \* bound: event times that evaluations are planned at
  MaxValues     \* bound: values of the store

MAX_DEPTH == 3
FanoutPolicy == {"one", "error", "max", "min", "sum", "count_distinct"}
NoRoute == <<0>>
NoLimit == -1    \* max_staleness IS NULL

Edge == [id : Nat \ {0}, from : Type, to : Type]

ASSUME CatalogsAssumption ==
  /\ IsFiniteSet(Type)
  /\ \A edges \in Catalogs :
       /\ edges \subseteq Edge /\ IsFiniteSet(edges)
       /\ \A e, f \in edges : e.id = f.id => e = f
ASSUME RowsAssumption == IsFiniteSet(Linked) /\ IsFiniteSet(Fixed)
ASSUME RuleAssumption ==
  /\ IsFiniteSet(Rule)
  /\ \A r \in Rule :
       /\ r.fanout \in FanoutPolicy /\ r.entity \in Type /\ r.lag \in Nat
       /\ r.path \in {"self", "trigger", "auto", "named"} /\ r.names \in Seq(Nat)
       /\ r.staleness \in Nat \cup {NoLimit}
ASSUME RequestAssumption ==
  /\ \A q \in Request : q.subject \in Entity /\ q.trigger \in Entity \cup {NoTrigger} /\ q.at \in Nat
  /\ \A e \in Entity : e.type \in Type
(* A charge is evaluated as of its own event.                              *)
ASSUME MovementAssumption ==
  /\ Arrived \subseteq Movement /\ \A t \in Movement : t.at \in Nat
  /\ \A q \in Request, t \in Movement :
       q.subject.type = "transaction" /\ q.subject.id = t.id => q.at = t.at
ASSUME ComputableAssumption == \A x \in Computable : x.at \in Nat
ASSUME BoundsAssumption == Window \in Nat /\ MaxValues \in Nat /\ Instant \subseteq Nat

VARIABLES
  graph,              \* resolution_edges and the routes found over it
  rows,               \* the rows behind the edges
  feature_values,     \* append only, bitemporal
  transactions,       \* movements that have been recorded
  decisions,          \* what the evaluation of each request found
  session,            \* the transaction of each connection, or Idle
  clock               \* of computed_at and decided_at; not that of events

entityReads == <<graph, rows, feature_values, transactions, decisions, session, clock>>

----------------------------------------------------------------------------
(* Routes: Graph.shortest_route looks at one edge after the other.         *)

(* Mutant: the newest edge first.                                          *)
LastOf(edges) == CHOOSE e \in edges : \A f \in edges : f.id <= e.id

First(edges) == CHOOSE e \in edges : \A f \in edges : e.id <= f.id

Entry(node, path) == [node |-> node, path |-> path]

(* The edges to look at from the head of the queue, no deeper than         *)
(* MAX_DEPTH.                                                              *)
Ahead(edges, queue) ==
  IF queue = <<>> THEN {}
  ELSE {e \in edges : e.from = Head(queue).node /\ Len(Head(queue).path) < MAX_DEPTH}

Start(edges, from) ==
  [queue |-> <<Entry(from, <<>>)>>, left |-> Ahead(edges, <<Entry(from, <<>>)>>),
   seen |-> {from}, route |-> NoRoute]

Popleft(edges, s) ==
  [s EXCEPT !.queue = Tail(s.queue), !.left = Ahead(edges, Tail(s.queue))]

Look(to, s, e) ==
  LET path == Append(Head(s.queue).path, e.id) IN
  IF e.to = to THEN [s EXCEPT !.route = path]
  ELSE [s EXCEPT !.left = s.left \ {e}, !.seen = s.seen \cup {e.to},
                 !.queue = IF e.to \in s.seen THEN s.queue
                           ELSE Append(s.queue, Entry(e.to, path))]

SearchStep(edges, to, s) ==
  IF s.queue = <<>> \/ s.route # NoRoute THEN s
  ELSE IF s.left = {} THEN Popleft(edges, s) ELSE Look(to, s, First(s.left))

(* No edge is looked at twice, and no type is in the queue twice.          *)
Steps(edges) == Cardinality(edges) + Cardinality(Type)

Search(edges, from, to) ==
  LET after[n \in 0 .. Steps(edges)] ==
        IF n = 0 THEN Start(edges, from) ELSE SearchStep(edges, to, after[n - 1])
  IN  after[Steps(edges)].route

(* shortest_route.                                                         *)
ShortestRoute(edges, from, to) == IF from = to THEN <<>> ELSE Search(edges, from, to)

LoadGraph(edges) ==
  [edges |-> edges,
   routes |-> [pair \in Type \X Type |-> ShortestRoute(edges, pair[1], pair[2])]]

EdgeOf(edges, id) == CHOOSE e \in edges : e.id = id

(* named_route: every edge of the path leaves the node before it.          *)
NamedRoute(edges, from, names) ==
  LET leaves(i, node) == \E e \in edges : e.id = names[i] /\ e.from = node
  IN  IF \A i \in DOMAIN names : leaves(i, IF i = 1 THEN from ELSE EdgeOf(edges, names[i - 1]).to)
      THEN names ELSE NoRoute

Plan(root, route) == [root |-> root, route |-> route]
Unplanned(q) == Plan(q.subject, NoRoute)

(* plan_route.                                                             *)
PlanRoute(g, q, r) ==
  LET onSubject == g.routes[q.subject.type, r.entity]
      onTrigger == IF q.trigger = NoTrigger THEN Unplanned(q)
                   ELSE Plan(q.trigger, g.routes[q.trigger.type, r.entity])
  IN  CASE r.path = "self"    -> IF r.entity = q.subject.type
                                 THEN Plan(q.subject, <<>>) ELSE Unplanned(q)
        [] r.path = "trigger" -> onTrigger
        [] r.path = "auto"    -> IF onSubject # NoRoute THEN Plan(q.subject, onSubject)
                                 ELSE onTrigger
        [] r.path = "named"   -> Plan(q.subject, NamedRoute(g.edges, q.subject.type, r.names))

----------------------------------------------------------------------------
(* Resolution of a batch over the rows of the tables.                      *)

Behind(table, edge) == {x \in table : x.edge = edge}

Follow(found, ids) == {x.value : x \in {y \in found : y.key \in ids}}

(* Mutant: what one origin reaches, all of them reach.                     *)
HopPooled(found, current) ==
  LET frontier == UNION {current[o] : o \in DOMAIN current}
  IN  [o \in DOMAIN current |-> Follow(found, frontier)]

(* One query for the whole frontier, then each origin takes its own.       *)
Hop(found, current) ==
  LET frontier == UNION {current[o] : o \in DOMAIN current}
      fetched  == {x \in found : x.key \in frontier}
  IN  [o \in DOMAIN current |-> {x.value : x \in {y \in fetched : y.key \in current[o]}}]

(* _run_route_batch: the ids each root of a population reaches, where      *)
(* found has, for each hop, the rows that were behind its edge then.       *)
Reached(found, roots) ==
  LET current[n \in 0 .. Len(found)] ==
        IF n = 0 THEN [o \in roots |-> {o.id}] ELSE Hop(found[n], current[n - 1])
  IN  current[Len(found)]

Resolved(status, ids) == [status |-> status, ids |-> ids]

(* _apply_fanout.                                                          *)
Fanout(r, ids) ==
  IF ids = {} THEN Resolved("unresolvable", {})
  ELSE IF r.fanout \in {"one", "error"} /\ Cardinality(ids) > 1 THEN Resolved("fanout_error", ids)
  ELSE Resolved("ok", ids)

RulesFor(q) == {r \in Rule : r.subject = q.subject.type}

Plans(g, batch) ==
  {p \in UNION {{PlanRoute(g, q, r) : r \in RulesFor(q)} : q \in batch} : p.route # NoRoute}

(* resolve_many: the pairs that share a root type and a route are one      *)
(* group, whichever rules and requests they come from.                     *)
GroupOf(plan) == [type |-> plan.root.type, route |-> plan.route]
Groups(g, batch) == {GroupOf(p) : p \in Plans(g, batch)}
Roots(g, batch, group) == {p.root : p \in {x \in Plans(g, batch) : GroupOf(x) = group}}

(* walked has the rows that the hops of each group have found.             *)
Resolve(walked, g, batch, q, r) ==
  LET plan == PlanRoute(g, q, r) IN
  IF plan.route = NoRoute THEN Resolved("unresolvable", {})
  ELSE LET group == GroupOf(plan)
       IN  Fanout(r, Reached(walked[group], Roots(g, batch, group))[plan.root])

----------------------------------------------------------------------------
(* Point-in-time reads.                                                    *)

Bound(q, r) == q.at + r.lag

Newest(values, r, id, bound, ceiling) ==
  LET found == {v \in values :
                  v.entity = r.entity /\ v.id = id /\ v.as_of <= bound /\ v.computed_at <= ceiling}
  IN  {v \in found : \A w \in found :
         w.as_of < v.as_of \/ (w.as_of = v.as_of /\ w.computed_at <= v.computed_at)}

Backing(values, r, ids, bound, ceiling) ==
  UNION {Newest(values, r, id, bound, ceiling) : id \in ids}

Reduce(policy, found) ==
  LET values == {v.value : v \in found} IN
  CASE policy = "max"            -> Max(values)
    [] policy = "min"            -> Min(values)
    [] policy = "sum"            -> MapThenSumSet(LAMBDA v : v.value, found)
    [] policy = "count_distinct" -> Cardinality(values)
    [] OTHER                     -> CHOOSE v \in values : TRUE

(* found: the rows that were read, which the result does not keep.         *)
Unread(status, ids, found) ==
  [status |-> status, value |-> Null, as_of |-> NoLimit, ids |-> ids, found |-> found]

(* Mutant: staleness is judged on the newest contributor.                  *)
NewestOf(found) == Max({v.as_of : v \in found})

OldestOf(found) == Min({v.as_of : v \in found})

(* _assemble: an entity without a value contributes nothing.               *)
Assemble(found, r, ids, bound) ==
  IF found = {} THEN Unread("absent", ids, found)
  ELSE IF r.staleness # NoLimit /\ bound - OldestOf(found) > r.staleness THEN Unread("stale", ids, found)
  ELSE IF \E v \in found : v.value = Null THEN Unread("absent", ids, found)
  ELSE [status |-> "present", value |-> Reduce(r.fanout, found),
        as_of |-> OldestOf(found), ids |-> ids, found |-> found]

(* read_many for one rule of one request.                                  *)
ReadOne(values, resolution, q, r, ceiling) ==
  IF resolution.status # "ok" THEN Unread(resolution.status, resolution.ids, {})
  ELSE Assemble(Backing(values, r, resolution.ids, Bound(q, r), ceiling),
                r, resolution.ids, Bound(q, r))

Reads(walked, values, g, batch, q, ceiling) ==
  [r \in RulesFor(q) |-> ReadOne(values, Resolve(walked, g, batch, q, r), q, r, ceiling)]

----------------------------------------------------------------------------
(* Exposure.                                                               *)

(* Mutant: whatever has arrived counts.                                    *)
LatestMovement(q) == Max({q.at} \cup {t.at : t \in transactions})

(* pit_bound_at: the latest ceiling of the rules that were evaluated.      *)
PitBound(q) == Max({q.at} \cup {Bound(q, r) : r \in RulesFor(q)})

(* The accounts whose movements are at stake: a ring's members, or itself. *)
AtStake(q) ==
  IF q.subject.type = Network THEN {x.value : x \in {y \in rows : y.key = q.subject.id}}
  ELSE {q.subject.id}

(* What flows into a ring, out of an account, and through anything else.   *)
Counts(q, t) ==
  CASE q.subject.type = Network -> t.direction = "inbound"
    [] q.subject.type = Account -> t.direction = "outbound"
    [] OTHER                    -> TRUE

(* A transaction is its own exposure, whatever the ceiling.                *)
Moved(q) ==
  IF q.subject.type = "transaction" THEN {t \in transactions : t.id = q.subject.id}
  ELSE {t \in transactions :
          /\ t.account \in AtStake(q) /\ Counts(q, t)
          /\ t.at <= PitBound(q) /\ t.at > PitBound(q) - Window}

Amounts(moved) == MapThenSumSet(LAMBDA t : t.amount, moved)

Exposure(q) == Amounts(Moved(q))

----------------------------------------------------------------------------
(* What changes while evaluations run.                                     *)

(* A device opens an account, a ring gains a member, or loses it.          *)
Link(x) ==
  /\ rows' = (rows \ {x}) \cup ({x} \ rows)
  /\ UNCHANGED <<graph, feature_values, transactions, decisions, session, clock>>

(* A row of transactions, possibly long after the fact.                    *)
Move(t) ==
  /\ t \notin transactions
  /\ transactions' = transactions \cup {t}
  /\ UNCHANGED <<graph, rows, feature_values, decisions, session, clock>>

----------------------------------------------------------------------------
(* Transactions.  A first statement opens one; now() is that moment.       *)

Idle == [phase |-> "idle"]
Running(s) == session[s] # Idle

Opened(s) ==
  IF Running(s) THEN session[s]
  ELSE [started |-> clock + 1, phase |-> "open", values |-> {}, batch |-> {},
        walked |-> <<>>, reads |-> <<>>, read_at |-> 0, prices |-> <<>>]

Now(s) == IF Running(s) THEN clock ELSE clock + 1
MayWork(s) == Opened(s).phase = "open"

(* Mutant: computed_at is the instant that the value describes.            *)
StampOfInstant(s, instant) == instant

(* clock_timestamp(): after now(), and before the commit.                  *)
Stamp(s, instant) == Now(s) + 1

Values == feature_values \cup UNION {Opened(s).values : s \in Session}

(* The runner computes a value at an instant.  began and committed are     *)
(* those of its transaction, for which there are no columns.               *)
Compute(s, x) ==
  /\ MayWork(s)
  /\ Cardinality(Values) < MaxValues
  /\ LET new == [entity |-> x.entity.type, id |-> x.entity.id, value |-> x.value,
                 as_of |-> x.at, computed_at |-> Stamp(s, x.at),
                 began |-> Opened(s).started, committed |-> 0]
     IN  session' = [session EXCEPT ![s] = [Opened(s) EXCEPT !.values = @ \cup {new}]]
  /\ clock' = Now(s) + 1
  /\ UNCHANGED <<graph, rows, feature_values, transactions, decisions>>

Undecided == [decided_at |-> NoLimit]
IsDecided(q) == decisions[q] # Undecided

(* What is planned as of an instant, from triggers that have been          *)
(* recorded.  Bound: a request is evaluated once.                          *)
Planned(instant) ==
  {q \in Request :
     /\ q.at <= instant /\ ~IsDecided(q)
     /\ q.trigger # NoTrigger => \E t \in transactions : t.id = q.trigger.id}

(* plan_evaluations, perhaps after features were computed in the same      *)
(* transaction.  Bound: one evaluation at a time, since they only read.    *)
PlanEvaluations(s, instant) ==
  /\ \A r \in Session : MayWork(r)
  /\ Planned(instant) # {}
  /\ session' = [session EXCEPT ![s] =
       [Opened(s) EXCEPT !.phase = "resolving", !.batch = Planned(instant),
                         !.walked = [group \in Groups(graph, Planned(instant)) |-> <<>>]]]
  /\ clock' = Now(s)
  /\ UNCHANGED <<graph, rows, feature_values, transactions, decisions>>

(* The groups with hops to make, one group after the other.                *)
Unwalked(s) ==
  {group \in DOMAIN session[s].walked : Len(session[s].walked[group]) < Len(group.route)}
Begun(s) == {group \in Unwalked(s) : session[s].walked[group] # <<>>}

(* _hop_batch: one statement.                                              *)
HopBatch(s) ==
  /\ session[s].phase = "resolving"
  /\ \E group \in IF Begun(s) # {} THEN Begun(s) ELSE Unwalked(s) :
       LET hop == Len(session[s].walked[group]) + 1 IN
       session' = [session EXCEPT ![s].walked[group] = Append(@, Behind(rows, group.route[hop]))]
  /\ UNCHANGED <<graph, rows, feature_values, transactions, decisions, clock>>

Unpriced == [exposure |-> NoLimit]

(* read_many: one statement, over what is committed and what this          *)
(* transaction computed; there is no ceiling but the present.              *)
ReadMany(s) ==
  /\ session[s].phase = "resolving"
  /\ Unwalked(s) = {}
  /\ LET t == session[s] IN
     session' = [session EXCEPT ![s] =
       [t EXCEPT !.phase = "pricing", !.read_at = clock,
                 !.reads = [q \in t.batch |->
                   Reads(t.walked, feature_values \cup t.values, graph, t.batch, q, clock)],
                 !.prices = [q \in t.batch |-> Unpriced]]]
  /\ UNCHANGED <<graph, rows, feature_values, transactions, decisions, clock>>

(* The exposure, with what there was to see of it.                         *)
Priced(q) == [exposure |-> Exposure(q), accounts |-> AtStake(q), recorded |-> transactions]

(* exposure_for: one statement for each subject type.                      *)
ExposureFor(s, type) ==
  /\ session[s].phase = "pricing"
  /\ \E q \in session[s].batch : q.subject.type = type /\ session[s].prices[q] = Unpriced
  /\ session' = [session EXCEPT ![s].prices =
       [q \in session[s].batch |-> IF q.subject.type = type THEN Priced(q) ELSE @[q]]]
  /\ UNCHANGED <<graph, rows, feature_values, transactions, decisions, clock>>

(* decided_at is DEFAULT now().  read_at, walked, accounts and recorded    *)
(* are a record of what was seen, for which there are no columns.          *)
Decision(s, q) ==
  LET t == session[s] IN
  [decided_at |-> t.started, reads |-> t.reads[q], exposure |-> t.prices[q].exposure,
   read_at |-> t.read_at, walked |-> [group \in Groups(graph, {q}) |-> t.walked[group]],
   accounts |-> t.prices[q].accounts, recorded |-> t.prices[q].recorded]

IsComplete(s) ==
  /\ Running(s)
  /\ \/ session[s].phase = "open"
     \/ /\ session[s].phase = "pricing"
        /\ \A q \in session[s].batch : session[s].prices[q] # Unpriced

(* A transaction that is rolled back instead leaves nothing.               *)
Commit(s) ==
  /\ IsComplete(s)
  /\ feature_values' =
       feature_values \cup {[v EXCEPT !.committed = clock] : v \in session[s].values}
  /\ decisions' = [q \in Request |->
       IF q \in session[s].batch THEN Decision(s, q) ELSE decisions[q]]
  /\ session' = [session EXCEPT ![s] = Idle]
  /\ UNCHANGED <<graph, rows, transactions, clock>>

ReadsInit ==
  /\ \E edges \in Catalogs : graph = LoadGraph(edges)
  /\ rows = Fixed
  /\ feature_values = {}
  /\ transactions = Arrived
  /\ decisions = [q \in Request |-> Undecided]
  /\ session = [s \in Session |-> Idle]
  /\ clock = 1

Work(s) ==
  \/ \E x \in Computable : Compute(s, x)
  \/ \E t \in Instant : PlanEvaluations(s, t)
  \/ HopBatch(s)
  \/ ReadMany(s)
  \/ \E type \in Type : ExposureFor(s, type)
  \/ Commit(s)

ReadsNext ==
  \/ \E x \in Linked : Link(x)
  \/ \E t \in Movement : Move(t)
  \/ \E s \in Session : Work(s)

ReadsSpec == ReadsInit /\ [][ReadsNext]_entityReads

----------------------------------------------------------------------------
(* The routes between two types that have n edges, n > 0.                  *)
Routes(edges, from, to, n) ==
  {p \in [1 .. n -> {e.id : e \in edges}] :
     /\ EdgeOf(edges, p[1]).from = from /\ EdgeOf(edges, p[n]).to = to
     /\ \A i \in 2 .. n : EdgeOf(edges, p[i]).from = EdgeOf(edges, p[i - 1]).to}

Precedes(p, q) ==
  p = q \/ \E i \in DOMAIN p : p[i] < q[i] /\ \A j \in 1 .. i - 1 : p[j] = q[j]

(* The route between two types is the shortest there is, and of those the  *)
(* least by edge ids: a rebuild of the table's rows picks the same one,    *)
(* and there is none only beyond the depth limit (shortest_route).  The    *)
(* table does not change, so the first states are enough.                  *)
RouteDetermined ==
  clock = 1 => \A from, to \in Type :
    LET route     == graph.routes[from, to]
        others(n) == Routes(graph.edges, from, to, n)
        short     == {n \in 1 .. MAX_DEPTH : others(n) # {}}
    IN  from # to =>
          IF short = {} THEN route = NoRoute
          ELSE /\ Len(route) = Min(short)
               /\ route \in others(Min(short))
               /\ \A other \in others(Min(short)) : Precedes(route, other)

(* What one subject reaches by following on its own the rows that the      *)
(* hops found.                                                             *)
Walk(found, id) ==
  LET ids[n \in 0 .. Len(found)] == IF n = 0 THEN {id} ELSE Follow(found[n], ids[n - 1])
  IN  ids[Len(found)]

(* A subject is judged by its own entities and by nobody else's, although  *)
(* a batch makes each hop once for all of its subjects, and rows change    *)
(* between two hops (resolver.py).                                         *)
OwnEntities ==
  \A q \in Request : IsDecided(q) =>
    \A r \in DOMAIN decisions[q].reads :
      LET plan == PlanRoute(graph, q, r) IN
      decisions[q].reads[r].ids =
        IF plan.route = NoRoute THEN {} ELSE Walk(decisions[q].walked[GroupOf(plan)], plan.root.id)

(* A value that was read stands for every entity that has one: none of     *)
(* them is older than the rule allows, none is null, and where the rule    *)
(* expects one entity there was one (pit.py, _assemble; _apply_fanout).    *)
NothingLaundered ==
  \A q \in Request : IsDecided(q) =>
    \A r \in DOMAIN decisions[q].reads :
      LET read == decisions[q].reads[r]
      IN  IF read.status = "present"
          THEN /\ read.found # {}
               /\ r.fanout \in {"one", "error"} => Cardinality(read.ids) = 1
               /\ \A v \in read.found :
                    v.value # Null /\ (r.staleness # NoLimit => Bound(q, r) - v.as_of <= r.staleness)
          ELSE read.value = Null

(* What the hops of a re-read of one request find.                         *)
RowsNow(q) ==
  [group \in Groups(graph, {q}) |->
     [n \in 1 .. Len(group.route) |-> Behind(rows, group.route[n])]]

Reread(q) == Reads(RowsNow(q), feature_values, graph, {q}, q, decisions[q].decided_at)

(* The transaction of v had not ended when that of d began, and had begun  *)
(* when d was read.  The transaction of d is one.                          *)
Overlaps(v, d) == v.committed >= d.decided_at /\ v.began <= d.read_at

(* What a request read in a batch is what it reads again on its own, at    *)
(* decided_at and whatever is computed later, unless the rows behind the   *)
(* edges have changed, which have no ceiling, or its transaction           *)
(* overlapped one that computed features, itself included: then values     *)
(* that were read are stamped after decided_at, or values from before it   *)
(* were not there yet to be read (pit.py; resolver.py; runner.py).         *)
RereadMovesWithOverlapsOnly ==
  \A q \in Request :
    /\ IsDecided(q) /\ decisions[q].walked = RowsNow(q)
    /\ \A v \in feature_values : ~Overlaps(v, decisions[q])
    => Reread(q) = decisions[q].reads

(* The exposure of a decision is a fact about its data ceiling: as long as *)
(* the members are those it saw, and whatever was recorded since happened  *)
(* after the ceilings of all of its rules, it is what it would be today,   *)
(* and that of a transaction is its amount (exposure.py).                  *)
ExposureOfAnInstant ==
  \A q \in Request :
    LET d == decisions[q] IN
    /\ IsDecided(q) /\ d.accounts = AtStake(q)
    /\ \A t \in transactions \ d.recorded :
         t.at > q.at /\ \A r \in RulesFor(q) : t.at > q.at + r.lag
    => d.exposure = Exposure(q)
=============================================================================
