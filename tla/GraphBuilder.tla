---------------------------- MODULE GraphBuilder ----------------------------
(***************************************************************************)
(* The cluster builder (graph/builder.py) over the edges that Arrivals     *)
(* records.  A build is one transaction under the advisory lock of the     *)
(* cycle, so there is one at a time, but edges are committed between its   *)
(* statements.  A cluster is named here by the device of its natural key.  *)
(***************************************************************************)
EXTENDS Arrivals

CONSTANTS
  Rank,         \* the order of device ids
  MinAccounts,  \* DEVICE_FANOUT_MIN_ACCOUNTS
  FirstId,      \* the number of the first ring, 1187
  SignedOff,    \* the device whose ring has a signed-off id
  NoId          \* a natural key without a row in clusters

ASSUME RankAssumption ==
  /\ Rank \in [Device -> Nat]
  /\ \A d, e \in Device : Rank[d] = Rank[e] => d = e
ASSUME IdAssumption == FirstId \in Nat /\ NoId \notin Nat /\ SignedOff \in Device
ASSUME MinAccountsAssumption == MinAccounts \in Nat
ASSUME FiniteAssumption == IsFiniteSet(Device) /\ IsFiniteSet(Account)

VARIABLES
  clusters,   \* clusters and the accounts among cluster_members, committed
  builder     \* the build that is running

builderVars == <<clusters, builder>>
vars == <<arrivalVars, builderVars>>

Cluster == [id : Nat \cup {NoId}, members : SUBSET Account]

(* A build: the table as it will commit it, the candidates it has yet to   *)
(* write and those it has written; and a history, the edges when it began. *)
Building == [phase : {"building"}, table : [Device -> Cluster],
             todo : SUBSET Device, built : SUBSET Device, began : [Edge -> Nat]]

(* Clusters and the build under way have their shape.                      *)
TypeOK ==
  /\ ArrivalsTypeOK
  /\ clusters \in [Device -> Cluster]
  /\ builder \in Building \cup {[phase |-> "idle"], [phase |-> "failed"]}

----------------------------------------------------------------------------
AccountsOf(d) == {a \in Account : links[<<d, a>>] > 0}

(* Mutant: a household's worth of accounts is enough.                      *)
HouseholdFanouts == {d \in Device : Cardinality(AccountsOf(d)) >= MinAccounts}

(* The devices with more distinct accounts than a household has.           *)
Fanouts == {d \in Device : Cardinality(AccountsOf(d)) > MinAccounts}

(* Ids spoken for, in the table and by this build.                         *)
Taken(table) == {table[d].id : d \in Device} \ {NoId}

LowestFree(taken) ==
  CHOOSE n \in FirstId .. (FirstId + Cardinality(Device)) :
    /\ n \notin taken
    /\ \A k \in FirstId .. (n - 1) : k \in taken

(* Mutant: the number of the candidate in this build, as it once was.      *)
IdBySequence(d, table) ==
  IF table[d].id # NoId THEN table[d].id
  ELSE FirstId + Cardinality(builder.built)

(* An id is kept for life; the signed-off one is preferred for its device; *)
(* otherwise the lowest free number.                                       *)
StableId(d, table) ==
  IF table[d].id # NoId THEN table[d].id
  ELSE IF d = SignedOff /\ FirstId \notin Taken(table) THEN FirstId
  ELSE LowestFree(Taken(table))

StartBuild ==
  /\ builder.phase = "idle"
  /\ builder' = [phase |-> "building", table |-> clusters, todo |-> Fanouts, built |-> {},
                 began |-> links]
  /\ UNCHANGED <<arrivalVars, clusters>>

(* The next candidate by device id.                                        *)
IsNextCandidate(d) == d \in builder.todo /\ \A e \in builder.todo : Rank[d] <= Rank[e]

(* One row of cluster_members per edge: its primary key refuses a second   *)
(* edge to the same account.                                               *)
HasDuplicateEdge(d) == \E a \in Account : links[<<d, a>>] > 1

BuildCluster(d) ==
  /\ builder.phase = "building"
  /\ IsNextCandidate(d)
  /\ builder' =
       IF HasDuplicateEdge(d) THEN [phase |-> "failed"]
       ELSE [builder EXCEPT
               !.table[d] = [id |-> StableId(d, builder.table), members |-> AccountsOf(d)],
               !.todo = @ \ {d},
               !.built = @ \cup {d}]
  /\ UNCHANGED <<arrivalVars, clusters>>

(* A cluster that no longer qualifies keeps its row and loses its members. *)
Retire(table, built) ==
  [d \in Device |-> IF d \in built THEN table[d] ELSE [table[d] EXCEPT !.members = {}]]

FinishBuild ==
  /\ builder.phase = "building"
  /\ builder.todo = {}
  /\ clusters' = Retire(builder.table, builder.built)
  /\ builder' = [phase |-> "idle"]
  /\ UNCHANGED arrivalVars

(* The build fails with the cycle it is part of; the next tick tries again. *)
AbandonBuild ==
  /\ builder.phase \in {"building", "failed"}
  /\ builder' = [phase |-> "idle"]
  /\ UNCHANGED <<arrivalVars, clusters>>

(* The edges behind a cluster are withdrawn by hand, while nothing runs.   *)
WithdrawEdges(d) ==
  /\ builder.phase = "idle"
  /\ \A c \in Client : client[c] = Idle
  /\ clusters[d].members # {} /\ AccountsOf(d) # {}
  /\ links' = [edge \in Edge |-> IF edge[1] = d THEN 0 ELSE links[edge]]
  /\ UNCHANGED <<transactions, devices, client, builderVars>>

Init ==
  /\ ArrivalsInit
  /\ clusters = [d \in Device |-> [id |-> NoId, members |-> {}]]
  /\ builder = [phase |-> "idle"]

Build == StartBuild \/ (\E d \in Device : BuildCluster(d)) \/ FinishBuild \/ AbandonBuild

Next ==
  \/ ArrivalStep /\ UNCHANGED builderVars
  \/ Build
  \/ \E d \in Device : WithdrawEdges(d)

Spec == Init /\ [][Next]_vars

----------------------------------------------------------------------------
(* Properties.                                                             *)

(* Two clusters never share an id, and a cluster keeps its id for life     *)
(* through builds that fail, edges that are withdrawn and devices that     *)
(* qualify again (_stable_id).                                             *)
ClusterIdsKept ==
  [][/\ \A d, e \in Device : clusters'[d].id = clusters'[e].id /\ d # e => clusters'[d].id = NoId
     /\ \A d \in Device : clusters[d].id # NoId => clusters'[d].id = clusters[d].id]_vars

(* The accounts that a device had when the build began.                    *)
AccountsThen(d) == {a \in Account : builder.began[<<d, a>>] > 0}

(* A completed build leaves a ring to every device that was a fan-out when *)
(* it began and to no other: with an id, with all the accounts the device  *)
(* had then, and with none that it does not have now, whatever arrived     *)
(* while the build ran and whatever builds failed before it (build).       *)
CoverageIsFanout ==
  [][FinishBuild => \A d \in Device :
       LET ring == clusters'[d] IN
       /\ ring.members # {} <=> Cardinality(AccountsThen(d)) > MinAccounts
       /\ ring.members # {} => /\ ring.id # NoId
                               /\ AccountsThen(d) \subseteq ring.members
                               /\ ring.members \subseteq AccountsOf(d)]_vars

(* ingest/arrivals.py: the builder counts distinct accounts, "so a         *)
(* duplicate would be harmless to the ring": no build fails because an     *)
(* edge was recorded twice.                                                *)
DuplicateEdgeHarmless == builder.phase # "failed"
=============================================================================
