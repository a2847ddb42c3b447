------------------------------ MODULE Arrivals ------------------------------
(***************************************************************************)
(* Rows that arrive over HTTP and land in raw capture: settled batches     *)
(* (ingest/arrivals.py) and charges to authorise (ingest/authorize.py),    *)
(* validated and written by the same functions (ingest/records.py).        *)
(*                                                                         *)
(* A request is one READ COMMITTED transaction.  It checks each row        *)
(* against what is committed and what it wrote itself, and inserts it in a *)
(* later step, so two requests may both find a key free.  transactions and *)
(* devices have a primary key that the second insert waits for;            *)
(* entity_links has none on what the edge means.                           *)
(***************************************************************************)
EXTENDS Integers, Sequences, FiniteSets

CONSTANTS
  Client,      \* callers with a request in flight
  Device,      \* device fingerprints
  Account,     \* accounts, which are known from the start
  Batch,       \* the batches callers send, sequences of rows
  Recorded,    \* the rows that are there from the start
  NoDevice,    \* a transaction that names no device
  Unseen,      \* a device without a row in devices
  Idle         \* a client without a request

(* A row: id is the txn_id of a transaction, or the account an edge leads  *)
(* to; faults are what is wrong with it whatever the tables hold.          *)
Fault == {"forbidden", "column", "required", "reference", "vocabulary"}

ASSUME BatchAssumption ==
  \A batch \in Batch :
    /\ batch \in Seq({batch[i] : i \in DOMAIN batch})
    /\ \A i \in DOMAIN batch :
         /\ batch[i] \in [relation : {"transactions", "entity_links"}, id : {batch[i].id},
                          device : Device \cup {NoDevice}, at : Nat, faults : SUBSET Fault]
         /\ batch[i].relation = "entity_links" =>
              batch[i].device \in Device /\ batch[i].id \in Account
ASSUME RecordedAssumption ==
  \A row \in Recorded :
    /\ row.device \in Device /\ row.at \in Nat
    /\ row.relation = "entity_links" => row.id \in Account
    /\ \E first \in Recorded : first.relation = "transactions" /\ first.device = row.device
    /\ \A other \in Recorded :
         row.relation = "transactions" /\ other.relation = "transactions" /\ other # row
           => other.id # row.id /\ other.device # row.device
ASSUME UnseenAssumption == Unseen \notin Nat

VARIABLES
  transactions,  \* the committed rows of transactions
  links,         \* entity_links: how many rows an edge has
  devices,       \* devices.first_seen
  client         \* the request of each client

arrivalVars == <<transactions, links, devices, client>>

----------------------------------------------------------------------------
Row  == UNION {{batch[i] : i \in DOMAIN batch} : batch \in Batch}
Edge == Device \X Account

IsTransaction(row) == row.relation = "transactions"
EdgeOf(row) == <<row.device, row.id>>

(* A request: the row it is at, whether that row has passed its checks,    *)
(* whether it brings a new device, what it has inserted and the receipt.   *)
Request ==
  [door : {"ingest", "authorize"}, rows : Batch, next : Nat \ {0},
   phase : {"checking", "inserting", "answered"},
   inserted : SUBSET Row, registered : [Device -> Nat \cup {Unseen}],
   written : SUBSET Nat, duplicates : SUBSET Nat, rejected : SUBSET Nat]

(* Raw capture and the requests under way have their shape.                *)
ArrivalsTypeOK ==
  /\ transactions \subseteq Row \cup Recorded
  /\ links \in [Edge -> Nat]
  /\ devices \in [Device -> Nat \cup {Unseen}]
  /\ client \in [Client -> Request \cup {Idle}]

(* What a request can see: committed rows and its own.                     *)
KnownDevice(c, d) == devices[d] # Unseen \/ client[c].registered[d] # Unseen

SeesTransaction(c, id) ==
  \E row \in transactions \cup client[c].inserted : IsTransaction(row) /\ row.id = id

SeesEdge(c, edge) ==
  \/ links[edge] > 0
  \/ \E row \in client[c].inserted : ~IsTransaction(row) /\ EdgeOf(row) = edge

(* key_exists, and natural_key_exists where there is no primary key.       *)
AlreadyRecorded(c, row) ==
  IF IsTransaction(row) THEN SeesTransaction(c, row.id) ELSE SeesEdge(c, EdgeOf(row))

(* Mutant: the polymorphic reference is not looked up.                     *)
RefusedByShape(c, row) == row.faults # {}

(* prepare collects every reason; an edge must lead from a known device,   *)
(* a transaction may bring a new one.                                      *)
IsRefused(c, row) ==
  row.faults # {} \/ (~IsTransaction(row) /\ ~KnownDevice(c, row.device))

(* ensure_device: a transaction whose device nobody has presented.         *)
BringsDevice(c, row) ==
  IsTransaction(row) /\ row.device # NoDevice /\ ~KnownDevice(c, row.device)

CurrentRow(c) == client[c].rows[client[c].next]

----------------------------------------------------------------------------
(* Steps of a request.                                                     *)

Send(c, door, batch) ==
  /\ client[c] = Idle
  /\ door = "authorize" => Len(batch) = 1 /\ IsTransaction(batch[1])
  /\ client' = [client EXCEPT ![c] =
       [door |-> door, rows |-> batch, next |-> 1, phase |-> "checking",
        inserted |-> {}, registered |-> [d \in Device |-> Unseen],
        written |-> {}, duplicates |-> {}, rejected |-> {}]]
  /\ UNCHANGED <<transactions, links, devices>>

(* An authorisation answers an existing txn_id as a refusal, a batch       *)
(* counts it as a duplicate; either way the next row follows.              *)
CheckRow(c) ==
  LET q   == client[c]
      row == CurrentRow(c)
  IN
  /\ q # Idle
  /\ q.phase = "checking"
  /\ q.next <= Len(q.rows)
  /\ client' = [client EXCEPT ![c] =
       IF IsRefused(c, row) \/ (q.door = "authorize" /\ AlreadyRecorded(c, row))
       THEN [q EXCEPT !.next = @ + 1, !.rejected = @ \cup {q.next}]
       ELSE IF AlreadyRecorded(c, row)
            THEN [q EXCEPT !.next = @ + 1, !.duplicates = @ \cup {q.next}]
            ELSE [q EXCEPT !.phase = "inserting",
                           !.registered = IF BringsDevice(c, row)
                                          THEN [@ EXCEPT ![row.device] = row.at] ELSE @]]
  /\ UNCHANGED <<transactions, links, devices>>

NewDevices(c) == {d \in Device : client[c].registered[d] # Unseen}

(* The primary keys an uncommitted request holds against another one.      *)
HoldsKey(c, row) ==
  /\ client[c] # Idle
  /\ client[c].phase \in {"checking", "inserting"}
  /\ \/ \E own \in client[c].inserted :
          IsTransaction(row) /\ IsTransaction(own) /\ own.id = row.id
     \/ \E own \in client[c].inserted :
          row.device \in NewDevices(c) /\ own.device = row.device

(* Does the current row insert its device too?                             *)
InsertsDevice(c) ==
  LET row == CurrentRow(c) IN
  /\ IsTransaction(row)
  /\ row.device \in NewDevices(c)
  /\ ~\E own \in client[c].inserted : own.device = row.device

Blocks(b, c) ==
  LET row == CurrentRow(c) IN
  /\ b # c
  /\ IF InsertsDevice(c) THEN HoldsKey(b, row)
     ELSE HoldsKey(b, [row EXCEPT !.device = NoDevice])

(* Somebody committed the key after it was checked.                        *)
KeyTaken(c) ==
  LET row == CurrentRow(c) IN
  /\ IsTransaction(row)
  /\ \/ \E other \in transactions : other.id = row.id
     \/ InsertsDevice(c) /\ devices[row.device] # Unseen

(* Mutant: a row whose key is taken is skipped and nobody counts it.       *)
InsertRowUncounted(c) ==
  LET q == client[c] IN
  /\ q # Idle
  /\ q.phase = "inserting"
  /\ \A b \in Client : ~Blocks(b, c)
  /\ client' = [client EXCEPT ![c] =
       IF KeyTaken(c) THEN [q EXCEPT !.phase = "checking", !.next = @ + 1]
       ELSE [q EXCEPT !.phase = "checking", !.next = @ + 1,
                      !.inserted = @ \cup {CurrentRow(c)},
                      !.written = @ \cup {q.next}]]
  /\ UNCHANGED <<transactions, links, devices>>

(* ensure_device and insert_row: the insert waits for an uncommitted equal *)
(* key, and an equal committed one fails the whole request.                *)
InsertRow(c) ==
  LET q == client[c] IN
  /\ q # Idle
  /\ q.phase = "inserting"
  /\ \A b \in Client : ~Blocks(b, c)
  /\ client' = [client EXCEPT ![c] =
       IF KeyTaken(c) THEN Idle
       ELSE [q EXCEPT !.phase = "checking", !.next = @ + 1,
                      !.inserted = @ \cup {CurrentRow(c)},
                      !.written = @ \cup {q.next}]]
  /\ UNCHANGED <<transactions, links, devices>>

EdgesOf(rows) == {EdgeOf(row) : row \in {r \in rows : ~IsTransaction(r)}}

(* The route commits once, after the last row.  An authorisation that was  *)
(* refused has nothing to commit.                                          *)
CommitRequest(c) ==
  LET q == client[c] IN
  /\ q # Idle
  /\ q.phase = "checking"
  /\ q.next > Len(q.rows)
  /\ transactions' = transactions \cup {row \in q.inserted : IsTransaction(row)}
  /\ links' = [edge \in Edge |->
                 IF edge \in EdgesOf(q.inserted) THEN links[edge] + 1 ELSE links[edge]]
  /\ devices' = [d \in Device |->
                   IF d \in NewDevices(c) THEN q.registered[d] ELSE devices[d]]
  /\ client' = [client EXCEPT ![c].phase = "answered"]

(* A deadlock victim, a lost connection: rolled back, nothing written.     *)
AbortRequest(c) ==
  /\ client[c] # Idle
  /\ client[c].phase \in {"checking", "inserting"}
  /\ client' = [client EXCEPT ![c] = Idle]
  /\ UNCHANGED <<transactions, links, devices>>

(* The caller has its answer, and may send the batch again.                *)
Return(c) ==
  /\ client[c] # Idle
  /\ client[c].phase = "answered"
  /\ client' = [client EXCEPT ![c] = Idle]
  /\ UNCHANGED <<transactions, links, devices>>

ArrivalsInit ==
  /\ transactions = {row \in Recorded : IsTransaction(row)}
  /\ links = [edge \in Edge |-> IF edge \in EdgesOf(Recorded) THEN 1 ELSE 0]
  /\ devices = [d \in Device |->
       IF \E row \in transactions : row.device = d
       THEN (CHOOSE row \in transactions : row.device = d).at ELSE Unseen]
  /\ client = [c \in Client |-> Idle]

ArrivalStep ==
  \E c \in Client :
    \/ \E door \in {"ingest", "authorize"}, batch \in Batch : Send(c, door, batch)
    \/ CheckRow(c) \/ InsertRow(c) \/ CommitRequest(c)
    \/ AbortRequest(c) \/ Return(c)

----------------------------------------------------------------------------
(* Properties.                                                             *)

IsRecorded(row) ==
  IF IsTransaction(row) THEN \E other \in transactions : other.id = row.id
                        ELSE links[EdgeOf(row)] > 0

(* A receipt is true when it is given, though requests overlap and callers *)
(* repeat themselves: every row is accounted for exactly once, every row   *)
(* said to be written or a duplicate, transaction or edge, is in the       *)
(* tables, and no txn_id is there twice (arrivals.ingest).                 *)
ReceiptsTrue ==
  /\ \A c \in Client : client[c] # Idle /\ client[c].phase = "answered" =>
       LET q == client[c] IN
       /\ q.written \cup q.duplicates \cup q.rejected = DOMAIN q.rows
       /\ q.written \cap q.duplicates = {} /\ q.duplicates \cap q.rejected = {}
       /\ q.written \cap q.rejected = {}
       /\ \A i \in q.written \cup q.duplicates : IsRecorded(q.rows[i])
  /\ \A row, other \in transactions : row.id = other.id => row = other

(* A device exists because a recorded transaction presented it, at that    *)
(* transaction's instant; a row refused or rolled back leaves none behind, *)
(* and no edge leads from a device that does not exist (records.py).       *)
DevicesWereObserved ==
  /\ \A d \in Device : devices[d] # Unseen =>
       \E row \in transactions : row.device = d /\ row.at = devices[d]
  /\ \A edge \in Edge : links[edge] > 0 => devices[edge[1]] # Unseen
=============================================================================
