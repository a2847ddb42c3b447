------------------------- MODULE GraphBuilderProofs -------------------------
(***************************************************************************)
(* What holds of Arrivals and GraphBuilder for any callers, batches,       *)
(* devices, accounts and threshold.                                        *)
(***************************************************************************)
EXTENDS GraphBuilder, FiniteSetTheorems, WellFoundedInduction, TLAPS

(* A request that inserts is at a row of its batch.                        *)
RequestInv ==
  \A c \in Client : client[c] # Idle /\ client[c].phase = "inserting" =>
    client[c].next <= Len(client[c].rows)

ArrivalsInv == ArrivalsTypeOK /\ RequestInv

----------------------------------------------------------------------------
(* Types of requests.                                                      *)

LEMMA RowShape ==
  ASSUME NEW row \in Row
  PROVE  /\ row.device \in Device \cup {NoDevice} /\ row.at \in Nat
         /\ ~IsTransaction(row) => EdgeOf(row) \in Edge
         /\ row \in [relation : {"transactions", "entity_links"}, id : {row.id},
                     device : Device \cup {NoDevice}, at : Nat, faults : SUBSET Fault]
<1>1. PICK batch \in Batch : \E i \in DOMAIN batch : row = batch[i]
  BY DEF Row
<1>2. /\ row \in [relation : {"transactions", "entity_links"}, id : {row.id},
                   device : Device \cup {NoDevice}, at : Nat, faults : SUBSET Fault]
      /\ row.relation = "entity_links" => row.device \in Device /\ row.id \in Account
  BY <1>1, BatchAssumption
<1>. QED
  BY <1>2 DEF IsTransaction, EdgeOf, Edge

LEMMA BatchShape ==
  ASSUME NEW batch \in Batch
  PROVE  /\ Len(batch) \in Nat /\ DOMAIN batch = 1 .. Len(batch)
         /\ \A i \in 1 .. Len(batch) : batch[i] \in Row
BY BatchAssumption DEF Row

LEMMA CurrentShape ==
  ASSUME ArrivalsInv, NEW c \in Client, client[c] # Idle,
         client[c].phase = "inserting" \/ client[c].next <= Len(client[c].rows)
  PROVE  /\ client[c] \in Request /\ CurrentRow(c) \in Row
         /\ client[c].next \in 1 .. Len(client[c].rows)
<1>1. client[c] \in Request
  BY DEF ArrivalsInv, ArrivalsTypeOK
<1>2. client[c].rows \in Batch /\ client[c].next \in Nat \ {0}
  BY <1>1 DEF Request
<1>3. client[c].next <= Len(client[c].rows)
  BY DEF ArrivalsInv, RequestInv
<1>4. client[c].next \in 1 .. Len(client[c].rows)
  BY <1>2, <1>3, BatchShape
<1>. QED
  BY <1>1, <1>2, <1>4, BatchShape DEF CurrentRow

(* What each step of a request makes of the request.                       *)
LEMMA SendType ==
  ASSUME ArrivalsInv, NEW c \in Client, NEW door \in {"ingest", "authorize"},
         NEW batch \in Batch, Send(c, door, batch)
  PROVE  ArrivalsInv'
<1>1. PICK q : q = [door |-> door, rows |-> batch, next |-> 1, phase |-> "checking",
                    inserted |-> {}, registered |-> [d \in Device |-> Unseen],
                    written |-> {}, duplicates |-> {}, rejected |-> {}]
  OBVIOUS
<1>2. q \in Request /\ q.phase = "checking"
  BY <1>1 DEF Request
<1>3. client' = [client EXCEPT ![c] = q] /\ UNCHANGED <<transactions, links, devices>>
  BY <1>1 DEF Send
<1>. QED
  BY <1>2, <1>3 DEF ArrivalsInv, ArrivalsTypeOK, RequestInv

LEMMA CheckType ==
  ASSUME ArrivalsInv, NEW c \in Client, CheckRow(c)
  PROVE  ArrivalsInv'
<1>1. PICK q : q = client[c]
  OBVIOUS
<1>2. PICK row : row = CurrentRow(c)
  OBVIOUS
<1>3. /\ q # Idle /\ q.phase = "checking" /\ q.next <= Len(q.rows)
      /\ UNCHANGED <<transactions, links, devices>>
  BY <1>1 DEF CheckRow
<1>4. q \in Request /\ row \in Row
  BY <1>1, <1>2, <1>3, CurrentShape
<1>5. PICK next \in Request :
        /\ client' = [client EXCEPT ![c] = next]
        /\ next.phase = "inserting" => next.next = q.next /\ next.rows = q.rows
  <2>1. PICK p1 : p1 = [q EXCEPT !.next = q.next + 1, !.rejected = q.rejected \cup {q.next}]
    OBVIOUS
  <2>2. PICK p2 : p2 = [q EXCEPT !.next = q.next + 1, !.duplicates = q.duplicates \cup {q.next}]
    OBVIOUS
  <2>3. PICK new : new = IF BringsDevice(c, row)
                         THEN [q.registered EXCEPT ![row.device] = row.at] ELSE q.registered
    OBVIOUS
  <2>4. PICK p3 : p3 = [q EXCEPT !.phase = "inserting", !.registered = new]
    OBVIOUS
  <2>5. client' = [client EXCEPT ![c] = p1] \/ client' = [client EXCEPT ![c] = p2]
        \/ client' = [client EXCEPT ![c] = p3]
    BY <1>1, <1>2, <2>1, <2>2, <2>3, <2>4 DEF CheckRow
  <2>6. p1 \in Request /\ p1.phase = "checking"
    <3>1. q.next + 1 \in Nat \ {0} /\ q.next \in Nat
      BY <1>4 DEF Request
    <3>. QED
      BY <1>3, <1>4, <2>1, <3>1 DEF Request
  <2>7. p2 \in Request /\ p2.phase = "checking"
    <3>1. q.next + 1 \in Nat \ {0} /\ q.next \in Nat
      BY <1>4 DEF Request
    <3>. QED
      BY <1>3, <1>4, <2>2, <3>1 DEF Request
  <2>8. new \in [Device -> Nat \cup {Unseen}]
    BY <1>4, <2>3, RowShape DEF Request
  <2>9. p3 \in Request /\ p3.next = q.next /\ p3.rows = q.rows
    BY <1>4, <2>4, <2>8 DEF Request
  <2>. QED
    BY <2>5, <2>6, <2>7, <2>9
<1>6. ArrivalsTypeOK'
  BY <1>3, <1>5 DEF ArrivalsInv, ArrivalsTypeOK
<1>7. RequestInv'
  BY <1>3, <1>5 DEF ArrivalsInv, ArrivalsTypeOK, RequestInv
<1>. QED
  BY <1>6, <1>7 DEF ArrivalsInv

LEMMA InsertType ==
  ASSUME ArrivalsInv, NEW c \in Client, InsertRow(c)
  PROVE  ArrivalsInv'
<1>1. PICK q : q = client[c]
  OBVIOUS
<1>2. PICK row : row = CurrentRow(c)
  OBVIOUS
<1>3. /\ q # Idle /\ q.phase = "inserting" /\ UNCHANGED <<transactions, links, devices>>
  BY <1>1 DEF InsertRow
<1>4. q \in Request /\ row \in Row
  BY <1>1, <1>2, <1>3, CurrentShape
<1>5. PICK p : p = [q EXCEPT !.phase = "checking", !.next = q.next + 1,
                             !.inserted = q.inserted \cup {row},
                             !.written = q.written \cup {q.next}]
  OBVIOUS
<1>6. p \in Request /\ p.phase = "checking"
  <2>1. q.next + 1 \in Nat \ {0} /\ q.next \in Nat
    BY <1>4 DEF Request
  <2>. QED
    BY <1>4, <1>5, <2>1 DEF Request
<1>7. client' = [client EXCEPT ![c] = Idle] \/ client' = [client EXCEPT ![c] = p]
  BY <1>1, <1>2, <1>5 DEF InsertRow
<1>8. ArrivalsTypeOK'
  BY <1>3, <1>6, <1>7 DEF ArrivalsInv, ArrivalsTypeOK
<1>9. RequestInv'
  BY <1>3, <1>6, <1>7 DEF ArrivalsInv, ArrivalsTypeOK, RequestInv
<1>. QED
  BY <1>8, <1>9 DEF ArrivalsInv

LEMMA CommitType ==
  ASSUME ArrivalsInv, NEW c \in Client, CommitRequest(c)
  PROVE  /\ ArrivalsInv'
         /\ \A edge \in Edge : links[edge] <= links'[edge]
<1>1. PICK q \in Request : q = client[c]
  BY DEF CommitRequest, ArrivalsInv, ArrivalsTypeOK
<1>2. links' \in [Edge -> Nat] /\ \A edge \in Edge : links[edge] <= links'[edge]
  BY DEF CommitRequest, ArrivalsInv, ArrivalsTypeOK
<1>3. transactions' \subseteq Row \cup Recorded
  BY <1>1 DEF CommitRequest, ArrivalsInv, ArrivalsTypeOK, Request
<1>4. devices' \in [Device -> Nat \cup {Unseen}]
  BY <1>1 DEF CommitRequest, ArrivalsInv, ArrivalsTypeOK, Request
<1>5. PICK p : p = [q EXCEPT !.phase = "answered"]
  OBVIOUS
<1>6. p \in Request /\ p.phase = "answered" /\ client' = [client EXCEPT ![c] = p]
  BY <1>1, <1>5 DEF CommitRequest, Request
<1>. QED
  BY <1>2, <1>3, <1>4, <1>6 DEF ArrivalsInv, ArrivalsTypeOK, RequestInv

LEMMA ArrivalTypeStep ==
  ASSUME ArrivalsInv, ArrivalStep
  PROVE  /\ ArrivalsInv'
         /\ \A edge \in Edge : links[edge] <= links'[edge]
<1>1. PICK c \in Client :
        \/ \E door \in {"ingest", "authorize"}, batch \in Batch : Send(c, door, batch)
        \/ CheckRow(c) \/ InsertRow(c) \/ CommitRequest(c)
        \/ AbortRequest(c) \/ Return(c)
  BY DEF ArrivalStep
<1>2. ASSUME UNCHANGED links PROVE \A edge \in Edge : links[edge] <= links'[edge]
  BY <1>2 DEF ArrivalsInv, ArrivalsTypeOK
<1>3. CASE \E door \in {"ingest", "authorize"}, batch \in Batch : Send(c, door, batch)
  BY <1>2, <1>3, SendType DEF Send
<1>4. CASE CheckRow(c)
  BY <1>2, <1>4, CheckType DEF CheckRow
<1>5. CASE InsertRow(c)
  BY <1>2, <1>5, InsertType DEF InsertRow
<1>6. CASE CommitRequest(c)
  BY <1>6, CommitType
<1>7. CASE AbortRequest(c) \/ Return(c)
  <2>1. client' = [client EXCEPT ![c] = Idle] /\ UNCHANGED <<transactions, links, devices>>
    BY <1>7 DEF AbortRequest, Return
  <2>2. ArrivalsTypeOK'
    BY <2>1 DEF ArrivalsInv, ArrivalsTypeOK
  <2>3. RequestInv'
    BY <2>1 DEF ArrivalsInv, ArrivalsTypeOK, RequestInv
  <2>. QED
    BY <1>2, <2>1, <2>2, <2>3 DEF ArrivalsInv
<1>. QED
  BY <1>1, <1>3, <1>4, <1>5, <1>6, <1>7

LEMMA ArrivalsInitType == ArrivalsInit => ArrivalsInv
<1>. SUFFICES ASSUME ArrivalsInit PROVE ArrivalsInv
  OBVIOUS
<1>1. ASSUME NEW d \in Device PROVE devices[d] \in Nat \cup {Unseen}
  <2>1. CASE \E row \in transactions : row.device = d
    <3>1. PICK row \in Recorded : devices[d] = row.at
      BY <2>1 DEF ArrivalsInit
    <3>. QED
      BY <3>1, RecordedAssumption
  <2>2. CASE ~\E row \in transactions : row.device = d
    BY <2>2 DEF ArrivalsInit
  <2>. QED
    BY <2>1, <2>2
<1>. QED
  BY <1>1 DEF ArrivalsInit, ArrivalsInv, ArrivalsTypeOK, RequestInv

----------------------------------------------------------------------------
(* Numbers of rings.                                                       *)

(* Of the numbers a build may give there are more than devices.            *)
LEMMA FreeNumber ==
  ASSUME NEW table \in [Device -> Cluster]
  PROVE  \E n \in FirstId .. (FirstId + Cardinality(Device)) : n \notin Taken(table)
<1>1. IsFiniteSet(Device) /\ Cardinality(Device) \in Nat
  BY FiniteAssumption, FS_CardinalityType
<1>2. DEFINE ids == {table[d].id : d \in Device}
<1>3. IsFiniteSet(ids) /\ Cardinality(ids) <= Cardinality(Device)
  <2>1. PICK f : f = [d \in Device |-> table[d].id]
    OBVIOUS
  <2>2. f \in Surjection(Device, ids)
    BY <2>1 DEF Surjection
  <2>. QED
    BY <1>1, <2>2, FS_Surjection
<1>4. PICK numbers : numbers = FirstId .. (FirstId + Cardinality(Device))
  OBVIOUS
<1>5. IsFiniteSet(numbers) /\ Cardinality(numbers) = Cardinality(Device) + 1
  <2>1. FirstId \in Int /\ FirstId + Cardinality(Device) \in Int
    BY <1>1, IdAssumption
  <2>2. /\ IsFiniteSet(numbers)
        /\ Cardinality(numbers) = IF FirstId > FirstId + Cardinality(Device) THEN 0
                                  ELSE (FirstId + Cardinality(Device)) - FirstId + 1
    BY <1>4, <2>1, FS_Interval
  <2>. QED
    BY <1>1, <2>2, IdAssumption
<1>6. ~(numbers \subseteq ids)
  <2>1. SUFFICES ASSUME numbers \subseteq ids PROVE FALSE
    OBVIOUS
  <2>2. Cardinality(numbers) <= Cardinality(ids) /\ Cardinality(ids) \in Nat
    BY <1>3, <2>1, FS_Subset, FS_CardinalityType
  <2>. QED
    BY <1>1, <1>3, <1>5, <2>2
<1>. QED
  BY <1>4, <1>6 DEF Taken

(* A set of numbers has a least one.                                       *)
LEMMA Least ==
  ASSUME NEW S \in SUBSET Nat, S # {}
  PROVE  \E n \in S : \A k \in S : n <= k
<1>1. PICK R : R = OpToRel(<, Nat)
  OBVIOUS
<1>2. IsWellFoundedOn(R, Nat)
  BY <1>1, NatLessThanWellFounded
<1>3. PICK n \in S : \A k \in S : ~(<<k, n>> \in R)
  BY <1>2, WFMin
<1>4. \A k \in S : ~(k < n)
  BY <1>1, <1>3 DEF OpToRel
<1>. QED
  BY <1>3, <1>4

LEMMA LowestFreeShape ==
  ASSUME NEW table \in [Device -> Cluster]
  PROVE  LowestFree(Taken(table)) \in Nat /\ LowestFree(Taken(table)) \notin Taken(table)
<1>1. PICK taken : taken = Taken(table)
  OBVIOUS
<1>2. FirstId \in Nat /\ Cardinality(Device) \in Nat
  BY IdAssumption, FiniteAssumption, FS_CardinalityType
<1>3. PICK free : free = {n \in FirstId .. (FirstId + Cardinality(Device)) : n \notin taken}
  OBVIOUS
<1>4. free # {} /\ free \in SUBSET Nat
  BY <1>1, <1>2, <1>3, FreeNumber
<1>5. PICK n \in free : \A k \in free : n <= k
  BY <1>4, Least
<1>6. /\ n \in FirstId .. (FirstId + Cardinality(Device)) /\ n \notin taken
      /\ \A k \in FirstId .. (n - 1) : k \in taken
  <2>1. n \in FirstId .. (FirstId + Cardinality(Device)) /\ n \notin taken
    BY <1>3, <1>5
  <2>2. ASSUME NEW k \in FirstId .. (n - 1) PROVE k \in taken
    <3>1. n \in Nat /\ n <= FirstId + Cardinality(Device)
      BY <1>2, <2>1
    <3>2. k \in FirstId .. (FirstId + Cardinality(Device)) /\ ~(n <= k)
      BY <1>2, <2>2, <3>1
    <3>3. k \notin free
      BY <1>5, <3>2
    <3>. QED
      BY <1>3, <3>2, <3>3
  <2>. QED
    BY <2>1, <2>2
<1>7. LowestFree(taken) \in FirstId .. (FirstId + Cardinality(Device)) /\ LowestFree(taken) \notin taken
  BY <1>6 DEF LowestFree
<1>. QED
  BY <1>1, <1>2, <1>7

(* A device gets the number it has, or one that nobody has.                *)
LEMMA StableIdShape ==
  ASSUME NEW table \in [Device -> Cluster], NEW d \in Device
  PROVE  /\ StableId(d, table) \in Nat
         /\ table[d].id # NoId => StableId(d, table) = table[d].id
         /\ table[d].id = NoId => StableId(d, table) \notin Taken(table)
<1>1. table[d].id \in Nat \cup {NoId}
  BY DEF Cluster
<1>. QED
  BY <1>1, LowestFreeShape, IdAssumption DEF StableId

----------------------------------------------------------------------------
(* Types of builds.                                                        *)

BuilderInv == TypeOK /\ RequestInv

(* The builder sees edges come but not go.                                 *)
LEMMA BuildTypeStep ==
  ASSUME BuilderInv, Build
  PROVE  BuilderInv'
<1>1. UNCHANGED arrivalVars
  BY DEF Build, StartBuild, BuildCluster, FinishBuild, AbandonBuild
<1>2. ArrivalsTypeOK' /\ RequestInv'
  BY <1>1 DEF arrivalVars, BuilderInv, TypeOK, ArrivalsTypeOK, RequestInv
<1>3. clusters' \in [Device -> Cluster] /\ builder' \in Building \cup {[phase |-> "idle"], [phase |-> "failed"]}
  <2>1. CASE StartBuild
    <3>1. PICK next : next = [phase |-> "building", table |-> clusters, todo |-> Fanouts,
                              built |-> {}, began |-> links]
      OBVIOUS
    <3>2. links \in [Edge -> Nat] /\ clusters \in [Device -> Cluster] /\ Fanouts \subseteq Device
      BY DEF BuilderInv, TypeOK, ArrivalsTypeOK, Fanouts
    <3>3. next \in Building
      BY <3>1, <3>2 DEF Building
    <3>4. builder' = next /\ clusters' = clusters
      BY <2>1, <3>1 DEF StartBuild
    <3>. QED
      BY <3>2, <3>3, <3>4
  <2>2. ASSUME NEW d \in Device, BuildCluster(d)
        PROVE  clusters' \in [Device -> Cluster] /\ builder' \in Building \cup {[phase |-> "idle"], [phase |-> "failed"]}
    <3>1. builder \in Building /\ UNCHANGED clusters
      BY <2>2 DEF BuildCluster, BuilderInv, TypeOK
    <3>2. builder.table \in [Device -> Cluster] /\ builder.todo \subseteq Device /\ builder.built \subseteq Device
      BY <3>1 DEF Building
    <3>3. [id |-> StableId(d, builder.table), members |-> AccountsOf(d)] \in Cluster
      BY <3>2, StableIdShape DEF Cluster, AccountsOf
    <3>4. CASE HasDuplicateEdge(d)
      BY <2>2, <3>1, <3>4 DEF BuildCluster, BuilderInv, TypeOK
    <3>5. CASE ~HasDuplicateEdge(d)
      <4>1. PICK next : next = [builder EXCEPT
              !.table[d] = [id |-> StableId(d, builder.table), members |-> AccountsOf(d)],
              !.todo = @ \ {d}, !.built = @ \cup {d}]
        OBVIOUS
      <4>2. next \in Building
        BY <3>1, <3>2, <3>3, <4>1 DEF Building
      <4>3. builder' = next
        BY <2>2, <3>5, <4>1 DEF BuildCluster
      <4>. QED
        BY <3>1, <4>2, <4>3 DEF BuilderInv, TypeOK
    <3>. QED
      BY <3>4, <3>5
  <2>3. CASE FinishBuild
    <3>1. builder \in Building
      BY <2>3 DEF FinishBuild, BuilderInv, TypeOK
    <3>2. Retire(builder.table, builder.built) \in [Device -> Cluster]
      BY <3>1 DEF Building, Retire, Cluster
    <3>. QED
      BY <2>3, <3>2 DEF FinishBuild
  <2>4. CASE AbandonBuild
    BY <2>4 DEF AbandonBuild, BuilderInv, TypeOK
  <2>. QED
    BY <2>1, <2>2, <2>3, <2>4 DEF Build
<1>. QED
  BY <1>2, <1>3 DEF BuilderInv, TypeOK

LEMMA WithdrawTypeStep ==
  ASSUME BuilderInv, NEW d \in Device, WithdrawEdges(d)
  PROVE  BuilderInv'
<1>1. links' \in [Edge -> Nat] /\ UNCHANGED <<transactions, devices, client, clusters, builder>>
  BY DEF WithdrawEdges, builderVars, BuilderInv, TypeOK, ArrivalsTypeOK
<1>. QED
  BY <1>1 DEF BuilderInv, TypeOK, ArrivalsTypeOK, RequestInv

LEMMA BuilderTypeStep == BuilderInv /\ [Next]_vars => BuilderInv'
<1>. SUFFICES ASSUME BuilderInv, [Next]_vars PROVE BuilderInv'
  OBVIOUS
<1>1. CASE ArrivalStep /\ UNCHANGED builderVars
  <2>1. ArrivalsInv
    BY DEF BuilderInv, TypeOK, ArrivalsInv
  <2>2. ArrivalsInv'
    BY <1>1, <2>1, ArrivalTypeStep
  <2>. QED
    BY <1>1, <2>2 DEF builderVars, BuilderInv, TypeOK, ArrivalsInv
<1>2. CASE UNCHANGED vars
  BY <1>2 DEF vars, arrivalVars, builderVars, BuilderInv, TypeOK, ArrivalsTypeOK, RequestInv
<1>. QED
  BY <1>1, <1>2, BuildTypeStep, WithdrawTypeStep DEF Next

LEMMA BuilderCorrect == Spec => []BuilderInv
<1>1. Init => BuilderInv
  BY ArrivalsInitType DEF Init, BuilderInv, TypeOK, ArrivalsInv, Cluster
<1>. QED
  BY <1>1, BuilderTypeStep, PTL DEF Spec

(* Raw capture, clusters, requests and builds keep their shape.            *)
THEOREM TypeCorrect == Spec => []TypeOK
<1>1. BuilderInv => TypeOK
  BY DEF BuilderInv
<1>. QED
  BY <1>1, BuilderCorrect, PTL

----------------------------------------------------------------------------
(* Ids are kept for life and never shared: a build works on a table that   *)
(* has every id the committed one has, and gives numbers nobody has.       *)
DistinctIds(table) ==
  \A d, e \in Device : table[d].id = table[e].id /\ d # e => table[d].id = NoId

KeepsIds(table) ==
  \A d \in Device : clusters[d].id # NoId => table[d].id = clusters[d].id

IdInv ==
  /\ DistinctIds(clusters)
  /\ builder.phase = "building" => DistinctIds(builder.table) /\ KeepsIds(builder.table)

LEMMA NewIdDistinct ==
  ASSUME NEW table \in [Device -> Cluster], NEW d \in Device, NEW accounts,
         DistinctIds(table), KeepsIds(table),
         NEW next, next = [table EXCEPT ![d] = [id |-> StableId(d, table), members |-> accounts]]
  PROVE  DistinctIds(next) /\ KeepsIds(next)
<1>1. PICK new : new = StableId(d, table)
  OBVIOUS
<1>2. /\ new # NoId
      /\ table[d].id # NoId => new = table[d].id
      /\ table[d].id = NoId => new \notin Taken(table)
  BY <1>1, StableIdShape, IdAssumption
<1>3. next[d].id = new /\ \A e \in Device : e # d => next[e] = table[e]
  BY <1>1
<1>4. ASSUME NEW e \in Device, e # d PROVE table[e].id # new
  <2>1. CASE table[d].id = NoId
    BY <1>2, <1>4, <2>1 DEF Taken
  <2>2. CASE table[d].id # NoId
    BY <1>2, <1>4, <2>2 DEF DistinctIds
  <2>. QED
    BY <2>1, <2>2
<1>5. DistinctIds(next)
  BY <1>3, <1>4 DEF DistinctIds
<1>6. KeepsIds(next)
  BY <1>2, <1>3 DEF KeepsIds
<1>. QED
  BY <1>5, <1>6

LEMMA RetireKeeps ==
  ASSUME NEW table \in [Device -> Cluster], NEW built
  PROVE  \A d \in Device :
           /\ Retire(table, built)[d].id = table[d].id
           /\ Retire(table, built)[d].members = IF d \in built THEN table[d].members ELSE {}
BY DEF Retire, Cluster

(* What a step does to clusters.                                           *)
LEMMA IdStep ==
  ASSUME BuilderInv, IdInv, [Next]_vars
  PROVE  IdInv' /\ \A d \in Device : clusters[d].id # NoId => clusters'[d].id = clusters[d].id
<1>1. CASE UNCHANGED builderVars
  BY <1>1 DEF builderVars, IdInv, DistinctIds, KeepsIds
<1>2. CASE StartBuild
  <2>1. clusters' = clusters /\ builder'.table = clusters
    BY <1>2 DEF StartBuild
  <2>. QED
    BY <2>1 DEF IdInv, DistinctIds, KeepsIds
<1>3. ASSUME NEW d \in Device, BuildCluster(d)
      PROVE  IdInv' /\ clusters' = clusters
  <2>1. builder.phase = "building" /\ builder \in Building /\ clusters' = clusters
    BY <1>3 DEF BuildCluster, BuilderInv, TypeOK
  <2>2. CASE HasDuplicateEdge(d)
    BY <1>3, <2>1, <2>2 DEF BuildCluster, IdInv, DistinctIds
  <2>3. CASE ~HasDuplicateEdge(d)
    <3>1. PICK next : next = [builder.table EXCEPT
            ![d] = [id |-> StableId(d, builder.table), members |-> AccountsOf(d)]]
      OBVIOUS
    <3>2. builder'.table = next
      BY <1>3, <2>1, <2>3, <3>1 DEF BuildCluster, Building
    <3>3. builder.table \in [Device -> Cluster]
      BY <2>1 DEF Building
    <3>4. DistinctIds(builder.table) /\ KeepsIds(builder.table)
      BY <2>1 DEF IdInv
    <3>5. DistinctIds(next) /\ KeepsIds(next)
      BY <3>1, <3>3, <3>4, NewIdDistinct
    <3>. QED
      BY <2>1, <3>2, <3>5 DEF IdInv, DistinctIds, KeepsIds
  <2>. QED
    BY <2>1, <2>2, <2>3
<1>4. CASE FinishBuild
  <2>1. builder.table \in [Device -> Cluster]
    BY <1>4 DEF FinishBuild, BuilderInv, TypeOK, Building
  <2>2. \A d \in Device : clusters'[d].id = builder.table[d].id
    BY <1>4, <2>1, RetireKeeps DEF FinishBuild
  <2>3. builder'.phase = "idle"
    BY <1>4 DEF FinishBuild
  <2>. QED
    BY <1>4, <2>2, <2>3 DEF FinishBuild, IdInv, DistinctIds, KeepsIds
<1>5. CASE AbandonBuild
  BY <1>5 DEF AbandonBuild, IdInv, DistinctIds
<1>6. CASE \E d \in Device : WithdrawEdges(d)
  BY <1>1, <1>6 DEF WithdrawEdges
<1>. QED
  BY <1>1, <1>2, <1>3, <1>4, <1>5, <1>6 DEF Next, Build, vars

LEMMA IdsCorrect == Spec => []IdInv
<1>1. Init => IdInv
  BY DEF Init, IdInv, DistinctIds
<1>. QED
  BY <1>1, IdStep, BuilderCorrect, PTL DEF Spec

(* Two clusters never share an id and a cluster keeps its id for life,     *)
(* whatever builds fail and whatever arrives or is withdrawn (_stable_id). *)
THEOREM IdsKept == Spec => ClusterIdsKept
<1>1. BuilderInv /\ IdInv /\ [Next]_vars =>
        [/\ \A d, e \in Device : clusters'[d].id = clusters'[e].id /\ d # e => clusters'[d].id = NoId
         /\ \A d \in Device : clusters[d].id # NoId => clusters'[d].id = clusters[d].id]_vars
  BY IdStep DEF IdInv, DistinctIds
<1>. QED
  BY <1>1, BuilderCorrect, IdsCorrect, PTL DEF Spec, ClusterIdsKept

----------------------------------------------------------------------------
(* Coverage: while a build runs, edges only come, so what was there when   *)
(* it began is there when it commits.                                      *)
WasFanout(d) == Cardinality(AccountsThen(d)) > MinAccounts

IsRing(cluster, d) ==
  /\ cluster.id # NoId
  /\ AccountsThen(d) \subseteq cluster.members
  /\ cluster.members \subseteq AccountsOf(d)

CoverInv ==
  builder.phase = "building" =>
    /\ \A d \in Device : AccountsThen(d) \subseteq AccountsOf(d)
    /\ \A d \in Device : WasFanout(d) <=> d \in builder.todo \cup builder.built
    /\ \A d \in builder.built : IsRing(builder.table[d], d)

LEMMA AccountsGrow ==
  ASSUME BuilderInv, BuilderInv', NEW d \in Device,
         \A edge \in Edge : links[edge] <= links'[edge]
  PROVE  AccountsOf(d) \subseteq AccountsOf(d)'
<1>1. ASSUME NEW a \in Account, links[<<d, a>>] > 0 PROVE links'[<<d, a>>] > 0
  <2>1. <<d, a>> \in Edge
    BY DEF Edge
  <2>2. links[<<d, a>>] \in Nat /\ links'[<<d, a>>] \in Nat
    BY <2>1 DEF BuilderInv, TypeOK, ArrivalsTypeOK
  <2>. QED
    BY <1>1, <2>1, <2>2
<1>. QED
  BY <1>1 DEF AccountsOf

LEMMA CoverStep ==
  ASSUME BuilderInv, BuilderInv', CoverInv, [Next]_vars
  PROVE  CoverInv'
<1>1. CASE ArrivalStep /\ UNCHANGED builderVars
  <2>1. \A edge \in Edge : links[edge] <= links'[edge]
    BY <1>1, ArrivalTypeStep DEF BuilderInv, TypeOK, ArrivalsInv
  <2>2. builder' = builder
    BY <1>1 DEF builderVars
  <2>3. SUFFICES ASSUME builder.phase = "building" PROVE CoverInv'
    BY <2>2 DEF CoverInv
  <2>4. \A d \in Device : AccountsThen(d)' = AccountsThen(d) /\ AccountsOf(d) \subseteq AccountsOf(d)'
    BY <2>1, <2>2, AccountsGrow DEF AccountsThen
  <2>5. builder.built \subseteq Device
    BY <2>3 DEF BuilderInv, TypeOK, Building
  <2>6. \A d \in Device : AccountsThen(d)' \subseteq AccountsOf(d)'
    BY <2>3, <2>4 DEF CoverInv
  <2>7. \A d \in Device : WasFanout(d)' <=> d \in builder'.todo \cup builder'.built
    BY <2>2, <2>3, <2>4 DEF CoverInv, WasFanout
  <2>8. \A d \in builder'.built : IsRing(builder.table[d], d)'
    BY <2>2, <2>3, <2>4, <2>5 DEF CoverInv, IsRing
  <2>. QED
    BY <2>6, <2>7, <2>8 DEF CoverInv
<1>2. CASE UNCHANGED vars
  BY <1>2 DEF vars, arrivalVars, builderVars, CoverInv, WasFanout, IsRing, AccountsOf, AccountsThen
<1>3. CASE StartBuild
  <2>1. /\ builder'.began = links /\ builder'.todo = Fanouts /\ builder'.built = {}
        /\ links' = links
    BY <1>3 DEF StartBuild, arrivalVars
  <2>2. \A d \in Device : AccountsThen(d)' = AccountsOf(d) /\ AccountsOf(d)' = AccountsOf(d)
    BY <2>1 DEF AccountsThen, AccountsOf
  <2>3. \A d \in Device : WasFanout(d)' <=> d \in Fanouts
    BY <2>2 DEF WasFanout, Fanouts
  <2>. QED
    BY <2>1, <2>2, <2>3 DEF CoverInv
<1>4. ASSUME NEW d \in Device, BuildCluster(d) PROVE CoverInv'
  <2>1. builder.phase = "building" /\ builder \in Building /\ d \in builder.todo
    BY <1>4 DEF BuildCluster, IsNextCandidate, BuilderInv, TypeOK
  <2>2. UNCHANGED links
    BY <1>4 DEF BuildCluster, arrivalVars
  <2>3. CASE HasDuplicateEdge(d)
    BY <1>4, <2>3 DEF BuildCluster, CoverInv
  <2>4. CASE ~HasDuplicateEdge(d)
    <3>1. PICK new : new = [id |-> StableId(d, builder.table), members |-> AccountsOf(d)]
      OBVIOUS
    <3>2. /\ builder'.table = [builder.table EXCEPT ![d] = new]
          /\ builder'.todo = builder.todo \ {d} /\ builder'.built = builder.built \cup {d}
          /\ builder'.began = builder.began
      BY <1>4, <2>1, <2>4, <3>1 DEF BuildCluster, Building
    <3>3. builder.table \in [Device -> Cluster] /\ builder.built \subseteq Device
      BY <2>1 DEF Building
    <3>4. \A e \in Device : AccountsThen(e)' = AccountsThen(e) /\ AccountsOf(e)' = AccountsOf(e)
      BY <2>2, <3>2 DEF AccountsThen, AccountsOf
    <3>5. IsRing(new, d)
      <4>1. new.id # NoId
        BY <3>1, <3>3, StableIdShape, IdAssumption
      <4>2. AccountsThen(d) \subseteq new.members /\ new.members \subseteq AccountsOf(d)
        BY <2>1, <3>1 DEF CoverInv
      <4>. QED
        BY <4>1, <4>2 DEF IsRing
    <3>6. ASSUME NEW e \in builder'.built PROVE IsRing(builder'.table[e], e)
      BY <2>1, <3>2, <3>3, <3>5, <3>6 DEF CoverInv
    <3>7. \A e \in builder'.built : IsRing(builder.table[e], e)'
      BY <3>2, <3>3, <3>4, <3>6 DEF IsRing
    <3>8. \A e \in Device : WasFanout(e)' <=> e \in builder'.todo \cup builder'.built
      BY <2>1, <3>2, <3>4 DEF CoverInv, WasFanout
    <3>. QED
      BY <2>1, <3>4, <3>7, <3>8 DEF CoverInv
  <2>. QED
    BY <2>3, <2>4
<1>5. CASE FinishBuild \/ AbandonBuild
  BY <1>5 DEF FinishBuild, AbandonBuild, CoverInv
<1>6. CASE \E d \in Device : WithdrawEdges(d)
  BY <1>6 DEF WithdrawEdges, builderVars, CoverInv
<1>. QED
  BY <1>1, <1>2, <1>3, <1>4, <1>5, <1>6 DEF Next, Build

LEMMA CoverageInvariant == Spec => []CoverInv
<1>1. Init => CoverInv
  BY DEF Init, CoverInv
<1>. QED
  BY <1>1, CoverStep, BuilderCorrect, PTL DEF Spec

(* A completed build leaves a ring to every device that was a fan-out when *)
(* it began and to no other, with all the accounts the device had then and *)
(* none that it does not have now (build).                                 *)
THEOREM CoverageCorrect == Spec => CoverageIsFanout
<1>1. ASSUME BuilderInv, CoverInv, FinishBuild, NEW d \in Device
      PROVE  LET ring == clusters'[d] IN
             /\ ring.members # {} <=> Cardinality(AccountsThen(d)) > MinAccounts
             /\ ring.members # {} => /\ ring.id # NoId
                                     /\ AccountsThen(d) \subseteq ring.members
                                     /\ ring.members \subseteq AccountsOf(d)
  <2>1. builder \in Building /\ builder.phase = "building" /\ builder.todo = {}
    BY <1>1 DEF FinishBuild, BuilderInv, TypeOK
  <2>2. /\ clusters'[d].id = builder.table[d].id
        /\ clusters'[d].members = IF d \in builder.built THEN builder.table[d].members ELSE {}
    BY <1>1, <2>1, RetireKeeps DEF FinishBuild, Building
  <2>3. WasFanout(d) <=> d \in builder.built
    BY <1>1, <2>1 DEF CoverInv
  <2>4. CASE d \in builder.built
    <3>1. IsRing(builder.table[d], d)
      BY <1>1, <2>1, <2>4 DEF CoverInv
    <3>2. AccountsThen(d) # {}
      <4>1. Cardinality({}) = 0
        BY FS_EmptySet
      <4>2. Cardinality(AccountsThen(d)) > MinAccounts
        BY <2>3, <2>4 DEF WasFanout
      <4>. QED
        BY <4>1, <4>2, MinAccountsAssumption
    <3>. QED
      BY <2>2, <2>3, <2>4, <3>1, <3>2 DEF IsRing, WasFanout
  <2>5. CASE d \notin builder.built
    BY <2>2, <2>3, <2>5 DEF WasFanout
  <2>. QED
    BY <2>4, <2>5
<1>2. BuilderInv /\ CoverInv /\ [Next]_vars =>
        [FinishBuild => \A d \in Device :
           LET ring == clusters'[d] IN
           /\ ring.members # {} <=> Cardinality(AccountsThen(d)) > MinAccounts
           /\ ring.members # {} => /\ ring.id # NoId
                                   /\ AccountsThen(d) \subseteq ring.members
                                   /\ ring.members \subseteq AccountsOf(d)]_vars
  BY <1>1
<1>. QED
  BY <1>2, BuilderCorrect, CoverageInvariant, PTL DEF Spec, CoverageIsFanout

----------------------------------------------------------------------------
(* Receipts.  What holds of a request q while the table of transactions is *)
(* rows: it has accounted for the rows before the one it is at, it has     *)
(* inserted what it says it wrote, and the keys of its uncommitted rows    *)
(* are nobody else's.                                                      *)
OwnOf(q) == {row \in q.inserted : IsTransaction(row)}

Progress(q) ==
  /\ q.written \cup q.duplicates \cup q.rejected = 1 .. (q.next - 1)
  /\ q.written \cap q.duplicates = {} /\ q.duplicates \cap q.rejected = {}
  /\ q.written \cap q.rejected = {}
  /\ q.next <= Len(q.rows) + 1
  /\ q.phase = "answered" => q.next = Len(q.rows) + 1

SaysTrue(q, rows) ==
  /\ \A i \in q.written : q.rows[i] \in q.inserted
  /\ \A i \in q.duplicates : IsTransaction(q.rows[i]) =>
       \E row \in rows \cup OwnOf(q) : row.id = q.rows[i].id
  /\ q.phase = "answered" => OwnOf(q) \subseteq rows

HasKeys(q, rows) ==
  q.phase # "answered" =>
    /\ \A own \in OwnOf(q), row \in rows : row.id # own.id
    /\ \A own, other \in OwnOf(q) : own.id = other.id => own = other
    /\ q.phase = "inserting" /\ IsTransaction(q.rows[q.next]) =>
         \A own \in OwnOf(q) : own.id # q.rows[q.next].id

Receipt(q, rows) == Progress(q) /\ SaysTrue(q, rows) /\ HasKeys(q, rows)

Apart(q, r) ==
  q.phase # "answered" /\ r.phase # "answered" =>
    \A own \in OwnOf(q), other \in OwnOf(r) : own.id # other.id

ReceiptInv ==
  /\ \A row \in transactions : IsTransaction(row)
  /\ \A row, other \in transactions : row.id = other.id => row = other
  /\ \A c \in Client : client[c] # Idle => Receipt(client[c], transactions)
  /\ \A b, c \in Client : b # c /\ client[b] # Idle /\ client[c] # Idle =>
       Apart(client[b], client[c])

(* A step of one request that commits nothing.                             *)
LEMMA ReplaceReceipt ==
  ASSUME ArrivalsInv, ReceiptInv, NEW c \in Client, NEW p,
         client' = [client EXCEPT ![c] = p], transactions' = transactions,
         p # Idle => Receipt(p, transactions),
         p # Idle => \A b \in Client : b # c /\ client[b] # Idle => Apart(p, client[b])
  PROVE  ReceiptInv'
<1>1. /\ client'[c] = p /\ \A b \in Client : b # c => client'[b] = client[b]
      /\ transactions' = transactions
  BY DEF ArrivalsInv, ArrivalsTypeOK
<1>2. ASSUME NEW b \in Client, client'[b] # Idle PROVE Receipt(client'[b], transactions')
  BY <1>1, <1>2 DEF ReceiptInv
<1>3. ASSUME NEW a \in Client, NEW b \in Client, a # b, client'[a] # Idle, client'[b] # Idle
      PROVE  Apart(client'[a], client'[b])
  <2>1. CASE a = c
    BY <1>1, <1>3, <2>1
  <2>2. CASE b = c
    <3>1. Apart(p, client[a])
      BY <1>1, <1>3, <2>2
    <3>. QED
      BY <1>1, <1>3, <2>2, <3>1 DEF Apart
  <2>3. CASE a # c /\ b # c
    BY <1>1, <1>3, <2>3 DEF ReceiptInv
  <2>. QED
    BY <2>1, <2>2, <2>3
<1>4. /\ \A row \in transactions' : IsTransaction(row)
      /\ \A row, other \in transactions' : row.id = other.id => row = other
  BY <1>1 DEF ReceiptInv
<1>. QED
  BY <1>2, <1>3, <1>4 DEF ReceiptInv

LEMMA SendReceipt ==
  ASSUME ArrivalsInv, ReceiptInv, NEW c \in Client, NEW door \in {"ingest", "authorize"},
         NEW batch \in Batch, Send(c, door, batch)
  PROVE  ReceiptInv'
<1>1. PICK p : p = [door |-> door, rows |-> batch, next |-> 1, phase |-> "checking",
                    inserted |-> {}, registered |-> [d \in Device |-> Unseen],
                    written |-> {}, duplicates |-> {}, rejected |-> {}]
  OBVIOUS
<1>2. client' = [client EXCEPT ![c] = p] /\ transactions' = transactions
  BY <1>1 DEF Send
<1>3. OwnOf(p) = {}
  BY <1>1 DEF OwnOf
<1>4. Progress(p)
  <2>1. Len(batch) \in Nat
    BY BatchShape
  <2>. QED
    BY <1>1, <2>1 DEF Progress
<1>5. Receipt(p, transactions)
  BY <1>1, <1>3, <1>4 DEF Receipt, SaysTrue, HasKeys
<1>6. \A b \in Client : Apart(p, client[b])
  BY <1>3 DEF Apart
<1>. QED
  BY <1>2, <1>5, <1>6, ReplaceReceipt

LEMMA CheckReceipt ==
  ASSUME ArrivalsInv, ReceiptInv, NEW c \in Client, CheckRow(c)
  PROVE  ReceiptInv'
<1>1. PICK q : q = client[c]
  OBVIOUS
<1>2. PICK row : row = CurrentRow(c)
  OBVIOUS
<1>3. /\ q # Idle /\ q.phase = "checking" /\ q.next <= Len(q.rows)
      /\ transactions' = transactions
  BY <1>1 DEF CheckRow
<1>4. /\ q \in Request /\ row = q.rows[q.next] /\ q.next \in Nat \ {0} /\ Len(q.rows) \in Nat
  <2>1. q \in Request /\ row = q.rows[q.next]
    BY <1>1, <1>2, <1>3, CurrentShape DEF CurrentRow
  <2>. QED
    BY <2>1, BatchShape DEF Request
<1>5. Receipt(q, transactions) /\ \A b \in Client : b # c /\ client[b] # Idle => Apart(q, client[b])
  BY <1>1, <1>3 DEF ReceiptInv
<1>6. PICK p1 : p1 = [q EXCEPT !.next = q.next + 1, !.rejected = q.rejected \cup {q.next}]
  OBVIOUS
<1>7. PICK p2 : p2 = [q EXCEPT !.next = q.next + 1, !.duplicates = q.duplicates \cup {q.next}]
  OBVIOUS
<1>8. PICK new : new = IF BringsDevice(c, row)
                       THEN [q.registered EXCEPT ![row.device] = row.at] ELSE q.registered
  OBVIOUS
<1>9. PICK p3 : p3 = [q EXCEPT !.phase = "inserting", !.registered = new]
  OBVIOUS
<1>10. \/ client' = [client EXCEPT ![c] = p1]
       \/ client' = [client EXCEPT ![c] = p2] /\ AlreadyRecorded(c, row)
       \/ client' = [client EXCEPT ![c] = p3] /\ ~AlreadyRecorded(c, row)
  BY <1>1, <1>2, <1>6, <1>7, <1>8, <1>9 DEF CheckRow
<1>11. CASE client' = [client EXCEPT ![c] = p1]
  <2>1. /\ p1.next = q.next + 1 /\ p1.rejected = q.rejected \cup {q.next}
        /\ p1.rows = q.rows /\ p1.phase = "checking" /\ p1.inserted = q.inserted
        /\ p1.written = q.written /\ p1.duplicates = q.duplicates
    BY <1>3, <1>4, <1>6 DEF Request
  <2>2. OwnOf(p1) = OwnOf(q)
    BY <2>1 DEF OwnOf
  <2>3. Progress(p1)
    BY <1>3, <1>4, <1>5, <2>1 DEF Receipt, Progress
  <2>4. SaysTrue(p1, transactions) /\ HasKeys(p1, transactions)
    BY <1>3, <1>5, <2>1, <2>2 DEF Receipt, SaysTrue, HasKeys
  <2>5. \A b \in Client : b # c /\ client[b] # Idle => Apart(p1, client[b])
    BY <1>3, <1>5, <2>1, <2>2 DEF Apart
  <2>. QED
    BY <1>3, <1>11, <2>3, <2>4, <2>5, ReplaceReceipt DEF Receipt
<1>12. CASE client' = [client EXCEPT ![c] = p2] /\ AlreadyRecorded(c, row)
  <2>1. /\ p2.next = q.next + 1 /\ p2.duplicates = q.duplicates \cup {q.next}
        /\ p2.rows = q.rows /\ p2.phase = "checking" /\ p2.inserted = q.inserted
        /\ p2.written = q.written /\ p2.rejected = q.rejected
    BY <1>3, <1>4, <1>7 DEF Request
  <2>2. OwnOf(p2) = OwnOf(q)
    BY <2>1 DEF OwnOf
  <2>3. Progress(p2)
    BY <1>3, <1>4, <1>5, <2>1 DEF Receipt, Progress
  <2>4. IsTransaction(row) => \E other \in transactions \cup OwnOf(q) : other.id = row.id
    BY <1>1, <1>12 DEF AlreadyRecorded, SeesTransaction, OwnOf
  <2>5. SaysTrue(p2, transactions)
    BY <1>3, <1>4, <1>5, <2>1, <2>2, <2>4 DEF Receipt, SaysTrue
  <2>6. HasKeys(p2, transactions)
    BY <1>3, <1>5, <2>1, <2>2 DEF Receipt, HasKeys
  <2>7. \A b \in Client : b # c /\ client[b] # Idle => Apart(p2, client[b])
    BY <1>3, <1>5, <2>1, <2>2 DEF Apart
  <2>. QED
    BY <1>3, <1>12, <2>3, <2>5, <2>6, <2>7, ReplaceReceipt DEF Receipt
<1>13. CASE client' = [client EXCEPT ![c] = p3] /\ ~AlreadyRecorded(c, row)
  <2>1. /\ p3.next = q.next /\ p3.duplicates = q.duplicates
        /\ p3.rows = q.rows /\ p3.phase = "inserting" /\ p3.inserted = q.inserted
        /\ p3.written = q.written /\ p3.rejected = q.rejected
    BY <1>3, <1>4, <1>9 DEF Request
  <2>2. OwnOf(p3) = OwnOf(q)
    BY <2>1 DEF OwnOf
  <2>3. Progress(p3)
    BY <1>3, <1>4, <1>5, <2>1 DEF Receipt, Progress
  <2>4. IsTransaction(row) => \A own \in OwnOf(q) : own.id # row.id
    BY <1>1, <1>13 DEF AlreadyRecorded, SeesTransaction, OwnOf
  <2>5. SaysTrue(p3, transactions)
    BY <1>3, <1>5, <2>1, <2>2 DEF Receipt, SaysTrue
  <2>6. HasKeys(p3, transactions)
    BY <1>3, <1>4, <1>5, <2>1, <2>2, <2>4 DEF Receipt, HasKeys
  <2>7. \A b \in Client : b # c /\ client[b] # Idle => Apart(p3, client[b])
    BY <1>3, <1>5, <2>1, <2>2 DEF Apart
  <2>. QED
    BY <1>3, <1>13, <2>3, <2>5, <2>6, <2>7, ReplaceReceipt DEF Receipt
<1>. QED
  BY <1>10, <1>11, <1>12, <1>13

(* An insert that was not refused brings a key nobody else has: a          *)
(* committed row would have failed it and an uncommitted one blocked it.   *)
LEMMA InsertedKey ==
  ASSUME ArrivalsInv, NEW c \in Client, InsertRow(c), ~KeyTaken(c), IsTransaction(CurrentRow(c))
  PROVE  /\ \A row \in transactions : row.id # CurrentRow(c).id
         /\ \A b \in Client : b # c /\ client[b] # Idle /\ client[b].phase # "answered" =>
              \A own \in OwnOf(client[b]) : own.id # CurrentRow(c).id
<1>1. PICK row : row = CurrentRow(c)
  OBVIOUS
<1>2. \A other \in transactions : other.id # row.id
  BY <1>1 DEF KeyTaken
<1>3. ASSUME NEW b \in Client, b # c, client[b] # Idle, client[b].phase # "answered",
             NEW own \in OwnOf(client[b])
      PROVE  own.id # row.id
  <2>1. client[b].phase \in {"checking", "inserting"}
    BY <1>3 DEF ArrivalsInv, ArrivalsTypeOK, Request
  <2>2. ~Blocks(b, c)
    BY DEF InsertRow
  <2>3. PICK key : key = IF InsertsDevice(c) THEN row ELSE [row EXCEPT !.device = NoDevice]
    OBVIOUS
  <2>4. ~HoldsKey(b, key)
    BY <1>1, <1>3, <2>2, <2>3 DEF Blocks
  <2>5. row \in Row
    BY <1>1, CurrentShape DEF InsertRow
  <2>6. key.id = row.id /\ key.relation = row.relation
    BY <2>3, <2>5, RowShape
  <2>. QED
    BY <1>1, <1>3, <2>1, <2>4, <2>6 DEF HoldsKey, OwnOf, IsTransaction
<1>. QED
  BY <1>1, <1>2, <1>3

LEMMA InsertReceipt ==
  ASSUME ArrivalsInv, ReceiptInv, NEW c \in Client, InsertRow(c)
  PROVE  ReceiptInv'
<1>1. PICK q : q = client[c]
  OBVIOUS
<1>2. PICK row : row = CurrentRow(c)
  OBVIOUS
<1>3. q # Idle /\ q.phase = "inserting" /\ transactions' = transactions
  BY <1>1 DEF InsertRow
<1>4. /\ q \in Request /\ row \in Row /\ row = q.rows[q.next]
      /\ q.next \in 1 .. Len(q.rows) /\ Len(q.rows) \in Nat
  <2>1. q \in Request /\ row \in Row /\ row = q.rows[q.next] /\ q.next \in 1 .. Len(q.rows)
    BY <1>1, <1>2, <1>3, CurrentShape DEF CurrentRow
  <2>. QED
    BY <2>1, BatchShape DEF Request
<1>5. Receipt(q, transactions) /\ \A b \in Client : b # c /\ client[b] # Idle => Apart(q, client[b])
  BY <1>1, <1>3 DEF ReceiptInv
<1>6. PICK p : p = [q EXCEPT !.phase = "checking", !.next = q.next + 1,
                             !.inserted = q.inserted \cup {row},
                             !.written = q.written \cup {q.next}]
  OBVIOUS
<1>7. CASE KeyTaken(c)
  <2>1. client' = [client EXCEPT ![c] = Idle]
    BY <1>7 DEF InsertRow
  <2>. QED
    BY <1>3, <2>1, ReplaceReceipt
<1>8. CASE ~KeyTaken(c)
  <2>1. client' = [client EXCEPT ![c] = p]
    BY <1>1, <1>2, <1>6, <1>8 DEF InsertRow
  <2>2. /\ p.next = q.next + 1 /\ p.written = q.written \cup {q.next}
        /\ p.rows = q.rows /\ p.phase = "checking" /\ p.inserted = q.inserted \cup {row}
        /\ p.duplicates = q.duplicates /\ p.rejected = q.rejected
    BY <1>4, <1>6 DEF Request
  <2>3. OwnOf(p) = IF IsTransaction(row) THEN OwnOf(q) \cup {row} ELSE OwnOf(q)
    BY <2>2 DEF OwnOf
  <2>4. Progress(p)
    BY <1>3, <1>4, <1>5, <2>2 DEF Receipt, Progress
  <2>5. SaysTrue(p, transactions)
    BY <1>3, <1>4, <1>5, <2>2, <2>3 DEF Receipt, SaysTrue
  <2>6. IsTransaction(row) =>
          /\ \A other \in transactions : other.id # row.id
          /\ \A b \in Client : b # c /\ client[b] # Idle /\ client[b].phase # "answered" =>
               \A own \in OwnOf(client[b]) : own.id # row.id
    BY <1>2, <1>8, InsertedKey
  <2>7. IsTransaction(row) => \A own \in OwnOf(q) : own.id # row.id
    BY <1>3, <1>4, <1>5 DEF Receipt, HasKeys
  <2>8. HasKeys(p, transactions)
    BY <1>3, <1>5, <2>2, <2>3, <2>6, <2>7 DEF Receipt, HasKeys
  <2>9. \A b \in Client : b # c /\ client[b] # Idle => Apart(p, client[b])
    BY <1>3, <1>5, <2>2, <2>3, <2>6 DEF Apart
  <2>. QED
    BY <1>3, <2>1, <2>4, <2>5, <2>8, <2>9, ReplaceReceipt DEF Receipt
<1>. QED
  BY <1>7, <1>8

LEMMA CommitReceipt ==
  ASSUME ArrivalsInv, ReceiptInv, NEW c \in Client, CommitRequest(c)
  PROVE  ReceiptInv'
<1>1. PICK q \in Request : q = client[c]
  BY DEF CommitRequest, ArrivalsInv, ArrivalsTypeOK
<1>2. PICK p : p = [q EXCEPT !.phase = "answered"]
  OBVIOUS
<1>3. PICK table : table = transactions \cup OwnOf(q)
  OBVIOUS
<1>4. /\ q # Idle /\ q.phase = "checking" /\ q.next > Len(q.rows)
      /\ transactions' = table /\ client' = [client EXCEPT ![c] = p]
  BY <1>1, <1>2, <1>3 DEF CommitRequest, OwnOf
<1>5. /\ p.phase = "answered" /\ p.next = q.next /\ p.rows = q.rows /\ p.inserted = q.inserted
      /\ p.written = q.written /\ p.duplicates = q.duplicates /\ p.rejected = q.rejected
      /\ q.next \in Nat /\ Len(q.rows) \in Nat
  BY <1>2, BatchShape DEF Request
<1>6. Receipt(q, transactions) /\ \A b \in Client : b # c /\ client[b] # Idle => Apart(q, client[b])
  BY <1>1, <1>4 DEF ReceiptInv
<1>7. OwnOf(p) = OwnOf(q)
  BY <1>5 DEF OwnOf
<1>8. Receipt(p, table)
  <2>1. Progress(p)
    BY <1>4, <1>5, <1>6 DEF Receipt, Progress
  <2>2. SaysTrue(p, table)
    BY <1>3, <1>5, <1>6, <1>7 DEF Receipt, SaysTrue
  <2>. QED
    BY <1>5, <2>1, <2>2 DEF Receipt, HasKeys
<1>9. ASSUME NEW b \in Client, b # c, client[b] # Idle PROVE Receipt(client[b], table)
  <2>1. Receipt(client[b], transactions) /\ Apart(q, client[b])
    BY <1>6, <1>9 DEF ReceiptInv
  <2>2. SaysTrue(client[b], table)
    BY <1>3, <2>1 DEF Receipt, SaysTrue
  <2>3. HasKeys(client[b], table)
    BY <1>3, <1>4, <2>1 DEF Receipt, HasKeys, Apart
  <2>. QED
    BY <2>1, <2>2, <2>3 DEF Receipt
<1>10. /\ client'[c] = p /\ \A b \in Client : b # c => client'[b] = client[b]
  BY <1>4 DEF ArrivalsInv, ArrivalsTypeOK
<1>11. \A b \in Client : client'[b] # Idle => Receipt(client'[b], transactions')
  BY <1>4, <1>8, <1>9, <1>10
<1>12. ASSUME NEW a \in Client, NEW b \in Client, a # b, client'[a] # Idle, client'[b] # Idle
       PROVE  Apart(client'[a], client'[b])
  <2>1. CASE a = c \/ b = c
    BY <1>5, <1>10, <1>12, <2>1 DEF Apart
  <2>2. CASE a # c /\ b # c
    BY <1>10, <1>12, <2>2 DEF ReceiptInv
  <2>. QED
    BY <2>1, <2>2
<1>13. \A row \in table : IsTransaction(row)
  BY <1>3 DEF ReceiptInv, OwnOf
<1>14. \A row, other \in table : row.id = other.id => row = other
  BY <1>3, <1>4, <1>6 DEF ReceiptInv, Receipt, HasKeys
<1>. QED
  BY <1>4, <1>11, <1>12, <1>13, <1>14 DEF ReceiptInv

LEMMA ReceiptStep ==
  ASSUME BuilderInv, ReceiptInv, [Next]_vars
  PROVE  ReceiptInv'
<1>1. CASE UNCHANGED <<transactions, client>>
  BY <1>1 DEF ReceiptInv
<1>2. CASE Build \/ (\E d \in Device : WithdrawEdges(d)) \/ UNCHANGED vars
  <2>1. UNCHANGED <<transactions, client>>
    BY <1>2 DEF Build, StartBuild, BuildCluster, FinishBuild, AbandonBuild, WithdrawEdges,
                vars, arrivalVars
  <2>. QED
    BY <1>1, <2>1
<1>3. ASSUME ArrivalStep PROVE ReceiptInv'
  <2>1. ArrivalsInv
    BY DEF BuilderInv, TypeOK, ArrivalsInv
  <2>2. PICK c \in Client :
          \/ \E door \in {"ingest", "authorize"}, batch \in Batch : Send(c, door, batch)
          \/ CheckRow(c) \/ InsertRow(c) \/ CommitRequest(c)
          \/ AbortRequest(c) \/ Return(c)
    BY <1>3 DEF ArrivalStep
  <2>3. CASE AbortRequest(c) \/ Return(c)
    <3>1. client' = [client EXCEPT ![c] = Idle] /\ transactions' = transactions
      BY <2>3 DEF AbortRequest, Return
    <3>. QED
      BY <2>1, <3>1, ReplaceReceipt
  <2>. QED
    BY <2>1, <2>2, <2>3, SendReceipt, CheckReceipt, InsertReceipt, CommitReceipt
<1>. QED
  BY <1>2, <1>3 DEF Next

LEMMA ReceiptsInvariant == Spec => []ReceiptInv
<1>1. Init => ReceiptInv
  BY RecordedAssumption DEF Init, ArrivalsInit, ReceiptInv, IsTransaction
<1>. QED
  BY <1>1, ReceiptStep, BuilderCorrect, PTL DEF Spec

----------------------------------------------------------------------------
(* Edges.  What a request says it wrote or found recorded is in the table, *)
(* or among what it has inserted and not yet committed.                    *)
HasEdge(q, table, edge) == table[edge] > 0 \/ (q.phase # "answered" /\ edge \in EdgesOf(q.inserted))

EdgesTrue(q, table) ==
  \A i \in q.written \cup q.duplicates :
    ~IsTransaction(q.rows[i]) => HasEdge(q, table, EdgeOf(q.rows[i]))

EdgeInv == \A c \in Client : client[c] # Idle => EdgesTrue(client[c], links)

LEMMA EdgeRow ==
  ASSUME NEW row \in Row, ~IsTransaction(row)
  PROVE  EdgeOf(row) \in Edge
BY RowShape DEF EdgeOf, Edge

(* A step of one request that commits nothing.                             *)
LEMMA ReplaceEdges ==
  ASSUME ArrivalsInv, EdgeInv, NEW c \in Client, NEW p,
         client' = [client EXCEPT ![c] = p], links' = links,
         p # Idle => EdgesTrue(p, links)
  PROVE  EdgeInv'
<1>1. client'[c] = p /\ \A b \in Client : b # c => client'[b] = client[b]
  BY DEF ArrivalsInv, ArrivalsTypeOK
<1>. QED
  BY <1>1 DEF EdgeInv

LEMMA CheckEdges ==
  ASSUME ArrivalsInv, EdgeInv, NEW c \in Client, CheckRow(c)
  PROVE  EdgeInv'
<1>1. PICK q : q = client[c]
  OBVIOUS
<1>2. PICK row : row = CurrentRow(c)
  OBVIOUS
<1>3. q # Idle /\ q.phase = "checking" /\ links' = links
  BY <1>1 DEF CheckRow
<1>4. q \in Request /\ row \in Row /\ row = q.rows[q.next] /\ EdgesTrue(q, links)
  BY <1>1, <1>2, <1>3, CurrentShape DEF CurrentRow, CheckRow, EdgeInv
<1>5. PICK p1 : p1 = [q EXCEPT !.next = q.next + 1, !.rejected = q.rejected \cup {q.next}]
  OBVIOUS
<1>6. PICK p2 : p2 = [q EXCEPT !.next = q.next + 1, !.duplicates = q.duplicates \cup {q.next}]
  OBVIOUS
<1>7. PICK new : new = IF BringsDevice(c, row)
                       THEN [q.registered EXCEPT ![row.device] = row.at] ELSE q.registered
  OBVIOUS
<1>8. PICK p3 : p3 = [q EXCEPT !.phase = "inserting", !.registered = new]
  OBVIOUS
<1>9. \/ client' = [client EXCEPT ![c] = p1]
      \/ client' = [client EXCEPT ![c] = p2] /\ AlreadyRecorded(c, row)
      \/ client' = [client EXCEPT ![c] = p3]
  BY <1>1, <1>2, <1>5, <1>6, <1>7, <1>8 DEF CheckRow
<1>10. ASSUME NEW p \in {p1, p3} PROVE EdgesTrue(p, links)
  <2>1. /\ p.rows = q.rows /\ p.phase # "answered" /\ p.inserted = q.inserted
        /\ p.written = q.written /\ p.duplicates = q.duplicates
    BY <1>3, <1>4, <1>5, <1>8, <1>10 DEF Request
  <2>. QED
    BY <1>3, <1>4, <2>1 DEF EdgesTrue, HasEdge
<1>11. AlreadyRecorded(c, row) => EdgesTrue(p2, links)
  <2>1. /\ p2.rows = q.rows /\ p2.phase # "answered" /\ p2.inserted = q.inserted
        /\ p2.written = q.written /\ p2.duplicates = q.duplicates \cup {q.next}
    BY <1>3, <1>4, <1>6 DEF Request
  <2>2. AlreadyRecorded(c, row) /\ ~IsTransaction(row) => HasEdge(p2, links, EdgeOf(row))
    BY <1>1, <2>1 DEF AlreadyRecorded, SeesEdge, HasEdge, EdgesOf
  <2>. QED
    BY <1>3, <1>4, <2>1, <2>2 DEF EdgesTrue, HasEdge
<1>. QED
  BY <1>3, <1>9, <1>10, <1>11, ReplaceEdges

LEMMA InsertEdges ==
  ASSUME ArrivalsInv, EdgeInv, NEW c \in Client, InsertRow(c)
  PROVE  EdgeInv'
<1>1. PICK q : q = client[c]
  OBVIOUS
<1>2. PICK row : row = CurrentRow(c)
  OBVIOUS
<1>3. q # Idle /\ q.phase = "inserting" /\ links' = links
  BY <1>1 DEF InsertRow
<1>4. q \in Request /\ row = q.rows[q.next] /\ EdgesTrue(q, links)
  BY <1>1, <1>2, <1>3, CurrentShape DEF CurrentRow, EdgeInv
<1>5. PICK p : p = [q EXCEPT !.phase = "checking", !.next = q.next + 1,
                             !.inserted = q.inserted \cup {row},
                             !.written = q.written \cup {q.next}]
  OBVIOUS
<1>6. client' = [client EXCEPT ![c] = Idle] \/ client' = [client EXCEPT ![c] = p]
  BY <1>1, <1>2, <1>5 DEF InsertRow
<1>7. /\ p.rows = q.rows /\ p.phase = "checking" /\ p.inserted = q.inserted \cup {row}
      /\ p.written = q.written \cup {q.next} /\ p.duplicates = q.duplicates
  BY <1>4, <1>5 DEF Request
<1>8. /\ EdgesOf(q.inserted) \subseteq EdgesOf(p.inserted)
      /\ ~IsTransaction(row) => EdgeOf(row) \in EdgesOf(p.inserted)
  BY <1>7 DEF EdgesOf
<1>9. EdgesTrue(p, links)
  BY <1>4, <1>7, <1>8 DEF EdgesTrue, HasEdge
<1>. QED
  BY <1>3, <1>6, <1>9, ReplaceEdges

(* The rows a request has accounted for are rows of its batch.             *)
LEMMA ReceiptRows ==
  ASSUME ArrivalsInv, ReceiptInv, NEW c \in Client, client[c] # Idle,
         NEW i \in client[c].written \cup client[c].duplicates
  PROVE  client[c].rows[i] \in Row
<1>1. PICK q \in Request : q = client[c]
  BY DEF ArrivalsInv, ArrivalsTypeOK
<1>2. Progress(q)
  BY <1>1 DEF ReceiptInv, Receipt
<1>3. q.rows \in Batch /\ q.next \in Nat /\ Len(q.rows) \in Nat
  BY <1>1, BatchShape DEF Request
<1>4. i \in 1 .. Len(q.rows)
  BY <1>1, <1>2, <1>3 DEF Progress
<1>. QED
  BY <1>1, <1>3, <1>4, BatchShape

LEMMA CommitEdges ==
  ASSUME ArrivalsInv, EdgeInv, ReceiptInv, NEW c \in Client, CommitRequest(c)
  PROVE  EdgeInv'
<1>1. PICK q \in Request : q = client[c]
  BY DEF CommitRequest, ArrivalsInv, ArrivalsTypeOK
<1>2. PICK p : p = [q EXCEPT !.phase = "answered"]
  OBVIOUS
<1>3. /\ q # Idle /\ q.phase = "checking" /\ client' = [client EXCEPT ![c] = p]
      /\ links' = [edge \in Edge |->
                     IF edge \in EdgesOf(q.inserted) THEN links[edge] + 1 ELSE links[edge]]
  BY <1>1, <1>2 DEF CommitRequest
<1>4. /\ p.rows = q.rows /\ p.phase = "answered" /\ p.inserted = q.inserted
      /\ p.written = q.written /\ p.duplicates = q.duplicates
  BY <1>2 DEF Request
<1>5. /\ client'[c] = p /\ \A b \in Client : b # c => client'[b] = client[b]
      /\ links \in [Edge -> Nat]
  BY <1>3 DEF ArrivalsInv, ArrivalsTypeOK
<1>6. \A edge \in Edge : links[edge] > 0 => links'[edge] > 0
  BY <1>3, <1>5
<1>7. \A edge \in EdgesOf(q.inserted) \cap Edge : links'[edge] > 0
  BY <1>3, <1>5
<1>8. ASSUME NEW b \in Client, client[b] # Idle, NEW i \in client[b].written \cup client[b].duplicates,
             ~IsTransaction(client[b].rows[i])
      PROVE  /\ HasEdge(client[b], links, EdgeOf(client[b].rows[i]))
             /\ EdgeOf(client[b].rows[i]) \in Edge
  <2>1. HasEdge(client[b], links, EdgeOf(client[b].rows[i]))
    BY <1>8 DEF EdgeInv, EdgesTrue
  <2>2. client[b].rows[i] \in Row
    BY <1>8, ReceiptRows
  <2>. QED
    BY <1>8, <2>1, <2>2, EdgeRow
<1>9. EdgesTrue(p, links')
  BY <1>1, <1>3, <1>4, <1>6, <1>7, <1>8 DEF EdgesTrue, HasEdge
<1>10. \A b \in Client : b # c /\ client[b] # Idle => EdgesTrue(client[b], links')
  BY <1>6, <1>8 DEF EdgesTrue, HasEdge
<1>. QED
  BY <1>5, <1>9, <1>10 DEF EdgeInv

LEMMA EdgeStep ==
  ASSUME BuilderInv, EdgeInv, ReceiptInv, [Next]_vars
  PROVE  EdgeInv'
<1>1. CASE UNCHANGED <<links, client>>
  BY <1>1 DEF EdgeInv
<1>2. CASE Build \/ UNCHANGED vars
  <2>1. UNCHANGED <<links, client>>
    BY <1>2 DEF Build, StartBuild, BuildCluster, FinishBuild, AbandonBuild, vars, arrivalVars
  <2>. QED
    BY <1>1, <2>1
<1>3. CASE \E d \in Device : WithdrawEdges(d)
  <2>1. \A c \in Client : client'[c] = Idle
    BY <1>3 DEF WithdrawEdges
  <2>. QED
    BY <2>1 DEF EdgeInv
<1>4. ASSUME ArrivalStep PROVE EdgeInv'
  <2>1. ArrivalsInv
    BY DEF BuilderInv, TypeOK, ArrivalsInv
  <2>2. PICK c \in Client :
          \/ \E door \in {"ingest", "authorize"}, batch \in Batch : Send(c, door, batch)
          \/ CheckRow(c) \/ InsertRow(c) \/ CommitRequest(c)
          \/ AbortRequest(c) \/ Return(c)
    BY <1>4 DEF ArrivalStep
  <2>3. CASE AbortRequest(c) \/ Return(c)
    <3>1. client' = [client EXCEPT ![c] = Idle] /\ links' = links
      BY <2>3 DEF AbortRequest, Return
    <3>. QED
      BY <2>1, <3>1, ReplaceEdges
  <2>4. ASSUME NEW door \in {"ingest", "authorize"}, NEW batch \in Batch, Send(c, door, batch)
        PROVE  EdgeInv'
    <3>1. PICK p : p = [door |-> door, rows |-> batch, next |-> 1, phase |-> "checking",
                        inserted |-> {}, registered |-> [d \in Device |-> Unseen],
                        written |-> {}, duplicates |-> {}, rejected |-> {}]
      OBVIOUS
    <3>2. client' = [client EXCEPT ![c] = p] /\ links' = links
      BY <2>4, <3>1 DEF Send
    <3>3. EdgesTrue(p, links)
      BY <3>1 DEF EdgesTrue
    <3>. QED
      BY <2>1, <3>2, <3>3, ReplaceEdges
  <2>. QED
    BY <2>1, <2>2, <2>3, <2>4, CheckEdges, InsertEdges, CommitEdges
<1>. QED
  BY <1>2, <1>3, <1>4 DEF Next

LEMMA EdgesInvariant == Spec => []EdgeInv
<1>1. Init => EdgeInv
  BY DEF Init, ArrivalsInit, EdgeInv
<1>. QED
  BY <1>1, EdgeStep, ReceiptsInvariant, BuilderCorrect, PTL DEF Spec

(* A receipt is true when it is given, though requests overlap and callers *)
(* repeat themselves: every row is accounted for once, and what is said to *)
(* be written or a duplicate, transaction or edge, is in the tables        *)
(* (arrivals.ingest).                                                      *)
THEOREM ReceiptsCorrect == Spec => []ReceiptsTrue
<1>1. ASSUME BuilderInv, ReceiptInv, EdgeInv PROVE ReceiptsTrue
  <2>1. ASSUME NEW c \in Client, client[c] # Idle, client[c].phase = "answered"
        PROVE  LET q == client[c] IN
               /\ q.written \cup q.duplicates \cup q.rejected = DOMAIN q.rows
               /\ q.written \cap q.duplicates = {} /\ q.duplicates \cap q.rejected = {}
               /\ q.written \cap q.rejected = {}
               /\ \A i \in q.written \cup q.duplicates : IsRecorded(q.rows[i])
    <3>1. PICK q : q = client[c]
      OBVIOUS
    <3>2. q \in Request /\ Receipt(q, transactions) /\ q.phase = "answered"
      BY <1>1, <2>1, <3>1 DEF BuilderInv, TypeOK, ArrivalsTypeOK, ReceiptInv
    <3>3. DOMAIN q.rows = 1 .. Len(q.rows) /\ Len(q.rows) \in Nat
      BY <3>2, BatchShape DEF Request
    <3>4. q.written \cup q.duplicates \cup q.rejected = DOMAIN q.rows
      BY <3>2, <3>3 DEF Receipt, Progress
    <3>5. ASSUME NEW i \in q.written \cup q.duplicates
          PROVE  IsRecorded(q.rows[i])
      <4>1. CASE IsTransaction(q.rows[i]) /\ i \in q.written
        BY <3>2, <4>1 DEF Receipt, SaysTrue, OwnOf, IsRecorded
      <4>2. CASE IsTransaction(q.rows[i]) /\ i \in q.duplicates
        BY <3>2, <4>2 DEF Receipt, SaysTrue, IsRecorded
      <4>3. CASE ~IsTransaction(q.rows[i])
        <5>1. HasEdge(q, links, EdgeOf(q.rows[i]))
          BY <1>1, <2>1, <3>1, <3>5, <4>3 DEF EdgeInv, EdgesTrue
        <5>. QED
          BY <3>2, <4>3, <5>1 DEF HasEdge, IsRecorded
      <4>. QED
        BY <3>5, <4>1, <4>2, <4>3
    <3>6. /\ q.written \cap q.duplicates = {} /\ q.duplicates \cap q.rejected = {}
          /\ q.written \cap q.rejected = {}
      BY <3>2 DEF Receipt, Progress
    <3>. QED
      BY <3>1, <3>4, <3>5, <3>6
  <2>. QED
    BY <1>1, <2>1 DEF ReceiptsTrue, ReceiptInv
<1>. QED
  BY <1>1, BuilderCorrect, ReceiptsInvariant, EdgesInvariant, PTL

----------------------------------------------------------------------------
(* Devices.  A device that an open request has registered has a row of its *)
(* own there, or is the one of the row it inserts; the edges it has        *)
(* inserted, or inserts, lead from devices it can see.                     *)
Known(q, table, d) == table[d] # Unseen \/ q.registered[d] # Unseen

Inserts(q, row) == q.phase = "inserting" /\ row = q.rows[q.next]

RegisteredForRow(q) ==
  \A d \in Device : q.registered[d] # Unseen =>
    \E row \in Row :
      /\ row \in q.inserted \/ Inserts(q, row)
      /\ IsTransaction(row) /\ row.device = d /\ row.at = q.registered[d]

EdgesFromKnown(q, table) ==
  \A row \in Row : (row \in q.inserted \/ Inserts(q, row)) /\ ~IsTransaction(row) =>
    Known(q, table, row.device)

DeviceInv ==
  /\ DevicesWereObserved
  /\ \A c \in Client : client[c] # Idle /\ client[c].phase # "answered" =>
       RegisteredForRow(client[c]) /\ EdgesFromKnown(client[c], devices)

(* A step of one request that commits nothing.                             *)
LEMMA ReplaceRegistered ==
  ASSUME ArrivalsInv, DeviceInv, NEW c \in Client, NEW p,
         client' = [client EXCEPT ![c] = p], UNCHANGED <<transactions, links, devices>>,
         p # Idle /\ p.phase # "answered" => RegisteredForRow(p) /\ EdgesFromKnown(p, devices)
  PROVE  DeviceInv'
<1>1. client'[c] = p /\ \A b \in Client : b # c => client'[b] = client[b]
  BY DEF ArrivalsInv, ArrivalsTypeOK
<1>2. DevicesWereObserved'
  BY DEF DeviceInv, DevicesWereObserved
<1>3. ASSUME NEW b \in Client, client'[b] # Idle, client'[b].phase # "answered"
      PROVE  RegisteredForRow(client'[b]) /\ EdgesFromKnown(client'[b], devices')
  BY <1>1, <1>3 DEF DeviceInv
<1>. QED
  BY <1>2, <1>3 DEF DeviceInv

LEMMA SendRegistered ==
  ASSUME ArrivalsInv, DeviceInv, NEW c \in Client, NEW door \in {"ingest", "authorize"},
         NEW batch \in Batch, Send(c, door, batch)
  PROVE  DeviceInv'
<1>1. PICK p : p = [door |-> door, rows |-> batch, next |-> 1, phase |-> "checking",
                    inserted |-> {}, registered |-> [d \in Device |-> Unseen],
                    written |-> {}, duplicates |-> {}, rejected |-> {}]
  OBVIOUS
<1>2. client' = [client EXCEPT ![c] = p] /\ UNCHANGED <<transactions, links, devices>>
  BY <1>1 DEF Send
<1>3. p.inserted = {} /\ p.phase = "checking" /\ \A d \in Device : p.registered[d] = Unseen
  BY <1>1
<1>4. RegisteredForRow(p) /\ EdgesFromKnown(p, devices)
  BY <1>3 DEF RegisteredForRow, EdgesFromKnown, Inserts
<1>. QED
  BY <1>2, <1>4, ReplaceRegistered

LEMMA CheckRegistered ==
  ASSUME ArrivalsInv, DeviceInv, NEW c \in Client, CheckRow(c)
  PROVE  DeviceInv'
<1>1. PICK q : q = client[c]
  OBVIOUS
<1>2. PICK row : row = CurrentRow(c)
  OBVIOUS
<1>3. /\ q # Idle /\ q.phase = "checking" /\ q.next <= Len(q.rows)
      /\ UNCHANGED <<transactions, links, devices>>
  BY <1>1 DEF CheckRow
<1>4. q \in Request /\ row \in Row /\ row = q.rows[q.next]
  BY <1>1, <1>2, <1>3, CurrentShape DEF CurrentRow
<1>5. RegisteredForRow(q) /\ EdgesFromKnown(q, devices)
  BY <1>1, <1>3 DEF DeviceInv
<1>6. PICK p1 : p1 = [q EXCEPT !.next = q.next + 1, !.rejected = q.rejected \cup {q.next}]
  OBVIOUS
<1>7. PICK p2 : p2 = [q EXCEPT !.next = q.next + 1, !.duplicates = q.duplicates \cup {q.next}]
  OBVIOUS
<1>8. PICK new : new = IF BringsDevice(c, row)
                       THEN [q.registered EXCEPT ![row.device] = row.at] ELSE q.registered
  OBVIOUS
<1>9. PICK p3 : p3 = [q EXCEPT !.phase = "inserting", !.registered = new]
  OBVIOUS
<1>10. \/ client' = [client EXCEPT ![c] = p1] \/ client' = [client EXCEPT ![c] = p2]
       \/ client' = [client EXCEPT ![c] = p3] /\ ~IsRefused(c, row)
  BY <1>1, <1>2, <1>6, <1>7, <1>8, <1>9 DEF CheckRow
<1>11. ASSUME NEW p \in {p1, p2}, client' = [client EXCEPT ![c] = p] PROVE DeviceInv'
  <2>1. p.phase = "checking" /\ p.inserted = q.inserted /\ p.registered = q.registered
    BY <1>3, <1>4, <1>6, <1>7, <1>11 DEF Request
  <2>2. RegisteredForRow(p) /\ EdgesFromKnown(p, devices)
    BY <1>3, <1>5, <2>1 DEF RegisteredForRow, EdgesFromKnown, Inserts, Known
  <2>. QED
    BY <1>3, <1>11, <2>2, ReplaceRegistered
<1>12. CASE client' = [client EXCEPT ![c] = p3] /\ ~IsRefused(c, row)
  <2>1. /\ p3.phase = "inserting" /\ p3.inserted = q.inserted /\ p3.registered = new
        /\ p3.rows = q.rows /\ p3.next = q.next
    BY <1>4, <1>9 DEF Request
  <2>2. \A d \in Device : q.registered[d] # Unseen =>
          \E own \in Row : own \in q.inserted /\ IsTransaction(own) /\ own.device = d
                           /\ own.at = q.registered[d]
    BY <1>3, <1>5 DEF RegisteredForRow, Inserts
  <2>3. q.registered \in [Device -> Nat \cup {Unseen}]
    BY <1>4 DEF Request
  <2>4. ASSUME NEW d \in Device
        PROVE  \/ new[d] = q.registered[d]
               \/ /\ BringsDevice(c, row) /\ d = row.device /\ new[d] = row.at
                  /\ q.registered[d] = Unseen
    <3>1. CASE BringsDevice(c, row) /\ d = row.device
      <4>1. q.registered[d] = Unseen
        BY <1>1, <3>1 DEF BringsDevice, KnownDevice
      <4>2. new[d] = row.at
        BY <1>8, <2>3, <3>1
      <4>. QED
        BY <3>1, <4>1, <4>2
    <3>2. CASE ~(BringsDevice(c, row) /\ d = row.device)
      BY <1>8, <2>3, <3>2
    <3>. QED
      BY <3>1, <3>2
  <2>5. row.at # Unseen
    BY <1>4, RowShape, UnseenAssumption
  <2>6. RegisteredForRow(p3)
    <3>1. ASSUME NEW d \in Device, p3.registered[d] # Unseen
          PROVE  \E own \in Row :
                   /\ own \in p3.inserted \/ Inserts(p3, own)
                   /\ IsTransaction(own) /\ own.device = d /\ own.at = p3.registered[d]
      <4>1. CASE new[d] = q.registered[d]
        BY <2>1, <2>2, <3>1, <4>1
      <4>2. CASE BringsDevice(c, row) /\ d = row.device /\ new[d] = row.at
        <5>1. IsTransaction(row) /\ Inserts(p3, row)
          BY <1>4, <2>1, <4>2 DEF BringsDevice, Inserts
        <5>. QED
          BY <1>4, <2>1, <4>2, <5>1
      <4>. QED
        BY <2>4, <4>1, <4>2
    <3>. QED
      BY <3>1 DEF RegisteredForRow
  <2>7. EdgesFromKnown(p3, devices)
    <3>1. ASSUME NEW own \in Row, own \in p3.inserted \/ Inserts(p3, own), ~IsTransaction(own)
          PROVE  Known(p3, devices, own.device)
      <4>1. own.device \in Device
        BY <3>1, RowShape DEF EdgeOf, Edge
      <4>2. Known(q, devices, own.device)
        <5>1. CASE own \in q.inserted
          BY <1>5, <3>1, <5>1 DEF EdgesFromKnown
        <5>2. CASE own = row
          BY <1>1, <1>12, <3>1, <5>2 DEF IsRefused, KnownDevice, Known
        <5>. QED
          BY <1>4, <2>1, <3>1, <5>1, <5>2 DEF Inserts
      <4>. QED
        BY <2>1, <2>4, <2>5, <4>1, <4>2 DEF Known
    <3>. QED
      BY <3>1 DEF EdgesFromKnown
  <2>. QED
    BY <1>3, <1>12, <2>6, <2>7, ReplaceRegistered
<1>. QED
  BY <1>10, <1>11, <1>12

LEMMA InsertRegistered ==
  ASSUME ArrivalsInv, DeviceInv, NEW c \in Client, InsertRow(c)
  PROVE  DeviceInv'
<1>1. PICK q : q = client[c]
  OBVIOUS
<1>2. PICK row : row = CurrentRow(c)
  OBVIOUS
<1>3. q # Idle /\ q.phase = "inserting" /\ UNCHANGED <<transactions, links, devices>>
  BY <1>1 DEF InsertRow
<1>4. q \in Request /\ row \in Row /\ row = q.rows[q.next]
  BY <1>1, <1>2, <1>3, CurrentShape DEF CurrentRow
<1>5. RegisteredForRow(q) /\ EdgesFromKnown(q, devices)
  BY <1>1, <1>3 DEF DeviceInv
<1>6. PICK p : p = [q EXCEPT !.phase = "checking", !.next = q.next + 1,
                             !.inserted = q.inserted \cup {row},
                             !.written = q.written \cup {q.next}]
  OBVIOUS
<1>7. client' = [client EXCEPT ![c] = Idle] \/ client' = [client EXCEPT ![c] = p]
  BY <1>1, <1>2, <1>6 DEF InsertRow
<1>8. /\ p.phase = "checking" /\ p.inserted = q.inserted \cup {row}
      /\ p.registered = q.registered
  BY <1>4, <1>6 DEF Request
<1>9. \A own \in Row : own \in p.inserted <=> own \in q.inserted \/ Inserts(q, own)
  BY <1>3, <1>4, <1>8 DEF Inserts
<1>10. RegisteredForRow(p)
  BY <1>5, <1>8, <1>9 DEF RegisteredForRow
<1>11. EdgesFromKnown(p, devices)
  BY <1>5, <1>8, <1>9 DEF EdgesFromKnown, Inserts, Known
<1>. QED
  BY <1>3, <1>7, <1>10, <1>11, ReplaceRegistered

LEMMA CommitRegistered ==
  ASSUME ArrivalsInv, DeviceInv, NEW c \in Client, CommitRequest(c)
  PROVE  DeviceInv'
<1>1. PICK q \in Request : q = client[c]
  BY DEF CommitRequest, ArrivalsInv, ArrivalsTypeOK
<1>2. PICK p : p = [q EXCEPT !.phase = "answered"]
  OBVIOUS
<1>3. /\ q # Idle /\ q.phase = "checking" /\ client' = [client EXCEPT ![c] = p]
      /\ transactions' = transactions \cup {row \in q.inserted : IsTransaction(row)}
      /\ devices' = [d \in Device |->
                       IF d \in NewDevices(c) THEN q.registered[d] ELSE devices[d]]
      /\ links' = [edge \in Edge |->
                     IF edge \in EdgesOf(q.inserted) THEN links[edge] + 1 ELSE links[edge]]
  BY <1>1, <1>2 DEF CommitRequest
<1>4. RegisteredForRow(q) /\ EdgesFromKnown(q, devices)
  BY <1>1, <1>3 DEF DeviceInv
<1>5. \A d \in Device : /\ q.registered[d] # Unseen => devices'[d] = q.registered[d]
                        /\ q.registered[d] = Unseen => devices'[d] = devices[d]
  BY <1>1, <1>3 DEF NewDevices
<1>6. ASSUME NEW d \in Device, devices'[d] # Unseen
      PROVE  \E row \in transactions' : row.device = d /\ row.at = devices'[d]
  <2>1. CASE q.registered[d] # Unseen
    BY <1>3, <1>4, <1>5, <2>1 DEF RegisteredForRow, Inserts
  <2>2. CASE q.registered[d] = Unseen
    BY <1>3, <1>5, <1>6, <2>2 DEF DeviceInv, DevicesWereObserved
  <2>. QED
    BY <2>1, <2>2
<1>7. \A d \in Device : Known(q, devices, d) => devices'[d] # Unseen
  BY <1>5 DEF Known
<1>8. ASSUME NEW edge \in Edge, links'[edge] > 0 PROVE devices'[edge[1]] # Unseen
  <2>1. edge[1] \in Device
    BY DEF Edge
  <2>2. CASE edge \in EdgesOf(q.inserted)
    <3>1. PICK row \in q.inserted : ~IsTransaction(row) /\ edge = EdgeOf(row)
      BY <2>2 DEF EdgesOf
    <3>2. row \in Row /\ edge[1] = row.device
      BY <1>1, <3>1 DEF Request, EdgeOf
    <3>. QED
      BY <1>4, <1>7, <2>1, <3>1, <3>2 DEF EdgesFromKnown
  <2>3. CASE edge \notin EdgesOf(q.inserted)
    <3>1. links[edge] > 0
      BY <1>3, <1>8, <2>3
    <3>. QED
      BY <1>7, <2>1, <3>1 DEF DeviceInv, DevicesWereObserved, Known
  <2>. QED
    BY <2>2, <2>3
<1>9. DevicesWereObserved'
  BY <1>6, <1>8 DEF DevicesWereObserved
<1>10. ASSUME NEW b \in Client, client'[b] # Idle, client'[b].phase # "answered"
       PROVE  RegisteredForRow(client'[b]) /\ EdgesFromKnown(client'[b], devices')
  <2>1. b # c /\ client'[b] = client[b]
    BY <1>1, <1>2, <1>3, <1>10 DEF ArrivalsInv, ArrivalsTypeOK, Request
  <2>2. RegisteredForRow(client[b]) /\ EdgesFromKnown(client[b], devices)
    BY <1>10, <2>1 DEF DeviceInv
  <2>3. EdgesFromKnown(client[b], devices')
    <3>1. ASSUME NEW row \in Row, row \in client[b].inserted \/ Inserts(client[b], row),
                 ~IsTransaction(row)
          PROVE  Known(client[b], devices', row.device)
      <4>1. row.device \in Device
        BY <3>1, RowShape DEF EdgeOf, Edge
      <4>2. Known(client[b], devices, row.device)
        BY <2>2, <3>1 DEF EdgesFromKnown
      <4>. QED
        BY <1>5, <4>1, <4>2 DEF Known
    <3>. QED
      BY <3>1 DEF EdgesFromKnown
  <2>. QED
    BY <2>1, <2>2, <2>3
<1>. QED
  BY <1>9, <1>10 DEF DeviceInv

LEMMA DeviceStep ==
  ASSUME BuilderInv, DeviceInv, [Next]_vars
  PROVE  DeviceInv'
<1>1. CASE Build \/ UNCHANGED vars
  <2>1. UNCHANGED arrivalVars
    BY <1>1 DEF Build, StartBuild, BuildCluster, FinishBuild, AbandonBuild, vars
  <2>. QED
    BY <2>1 DEF arrivalVars, DeviceInv, DevicesWereObserved
<1>2. ASSUME NEW d \in Device, WithdrawEdges(d) PROVE DeviceInv'
  <2>1. /\ UNCHANGED <<transactions, devices, client>>
        /\ links' = [edge \in Edge |-> IF edge[1] = d THEN 0 ELSE links[edge]]
    BY <1>2 DEF WithdrawEdges
  <2>2. \A edge \in Edge : links'[edge] > 0 => links[edge] > 0
    BY <2>1
  <2>. QED
    BY <2>1, <2>2 DEF DeviceInv, DevicesWereObserved
<1>3. ASSUME ArrivalStep PROVE DeviceInv'
  <2>1. ArrivalsInv
    BY DEF BuilderInv, TypeOK, ArrivalsInv
  <2>2. PICK c \in Client :
          \/ \E door \in {"ingest", "authorize"}, batch \in Batch : Send(c, door, batch)
          \/ CheckRow(c) \/ InsertRow(c) \/ CommitRequest(c)
          \/ AbortRequest(c) \/ Return(c)
    BY <1>3 DEF ArrivalStep
  <2>3. CASE AbortRequest(c) \/ Return(c)
    <3>1. client' = [client EXCEPT ![c] = Idle] /\ UNCHANGED <<transactions, links, devices>>
      BY <2>3 DEF AbortRequest, Return
    <3>. QED
      BY <2>1, <3>1, ReplaceRegistered
  <2>. QED
    BY <2>1, <2>2, <2>3, SendRegistered, CheckRegistered, InsertRegistered, CommitRegistered
<1>. QED
  BY <1>1, <1>2, <1>3 DEF Next

(* At the start the devices are those of the recorded transactions.        *)
LEMMA DeviceInit ==
  ASSUME Init
  PROVE  DeviceInv
<1>1. /\ transactions = {row \in Recorded : IsTransaction(row)}
      /\ \A c \in Client : client[c] = Idle
      /\ links = [edge \in Edge |-> IF edge \in EdgesOf(Recorded) THEN 1 ELSE 0]
  BY DEF Init, ArrivalsInit
<1>2. ASSUME NEW d \in Device, NEW row \in transactions, row.device = d
      PROVE  /\ devices[d] # Unseen
             /\ \E first \in transactions : first.device = d /\ first.at = devices[d]
  <2>1. PICK first : first = CHOOSE other \in transactions : other.device = d
    OBVIOUS
  <2>2. first \in transactions /\ first.device = d
    BY <1>2, <2>1
  <2>3. devices[d] = first.at
    BY <1>2, <2>1 DEF Init, ArrivalsInit
  <2>4. first.at \in Nat
    BY <1>1, <2>2, RecordedAssumption
  <2>. QED
    BY <2>2, <2>3, <2>4, UnseenAssumption
<1>3. ASSUME NEW d \in Device, devices[d] # Unseen
      PROVE  \E row \in transactions : row.device = d
  BY <1>3 DEF Init, ArrivalsInit
<1>4. ASSUME NEW edge \in Edge, links[edge] > 0 PROVE devices[edge[1]] # Unseen
  <2>1. PICK row \in Recorded : edge = EdgeOf(row)
    BY <1>1, <1>4 DEF EdgesOf
  <2>2. edge[1] = row.device /\ row.device \in Device
    BY <2>1, RecordedAssumption DEF EdgeOf
  <2>3. \E first \in transactions : first.device = row.device
    BY <1>1, RecordedAssumption DEF IsTransaction
  <2>. QED
    BY <1>2, <2>2, <2>3
<1>. QED
  BY <1>1, <1>2, <1>3, <1>4 DEF DeviceInv, DevicesWereObserved

(* A device exists because a recorded transaction presented it, and every  *)
(* edge leads from one that exists (ensure_device, records.py).            *)
THEOREM DevicesCorrect == Spec => []DevicesWereObserved
<1>1. Spec => []DeviceInv
  BY DeviceInit, DeviceStep, BuilderCorrect, PTL DEF Spec
<1>2. DeviceInv => DevicesWereObserved
  BY DEF DeviceInv
<1>. QED
  BY <1>1, <1>2, PTL
=============================================================================
