--------------------------- MODULE MCEntityReads ---------------------------
(* Two charges on a card and a device each, the accounts behind them, and  *)
(* a ring.  Three tables of edges: one where a card and a device both lead *)
(* to accounts in two hops, one with two direct edges, and a chain that is *)
(* longer than the depth limit.                                            *)
EXTENDS EntityReads, TLC

Arc(id, from, to) == [id |-> id, from |-> from, to |-> to]

Ring == Arc(5, "network", "account")
Home == Arc(6, "account", "customer")

MCCatalogs ==
  {{Arc(1, "transaction", "card"), Arc(2, "transaction", "device"),
    Arc(3, "card", "account"), Arc(4, "device", "account"), Ring, Home},
   {Arc(7, "transaction", "account"), Arc(4, "device", "account"),
    Arc(8, "transaction", "account"), Home},
   {Arc(1, "transaction", "card"), Arc(3, "card", "account"), Home,
    Arc(9, "customer", "device")}}

MCType == {"transaction", "card", "device", "account", "customer", "network"}

Thing(type, id) == [type |-> type, id |-> id]
Row(edge, key, value) == [edge |-> edge, key |-> key, value |-> value]

MCEntity == {Thing("transaction", "t1"), Thing("transaction", "t2"), Thing("network", "n"),
             Thing("account", "a1"), Thing("account", "a2")}
MCFixed ==
  {Row(e, "t1", x) : e \in {1, 2}, x \in {"p"}} \cup {Row(e, "t2", "q") : e \in {1, 2}}
  \cup {Row(3, "p", "a1"), Row(3, "q", "a2"), Row(4, "p", "a1"), Row(5, "n", "a1"),
        Row(7, "t1", "a1"), Row(7, "t2", "a2")}
MCLinked == {Row(5, "n", "a2")}

MCComputable ==
  {[entity |-> Thing("account", "a1"), value |-> 1, at |-> 1],
   [entity |-> Thing("account", "a2"), value |-> 2, at |-> 2],
   [entity |-> Thing("account", "a2"), value |-> Null, at |-> 2]}

MCRule ==
  {[subject |-> "transaction", entity |-> "account", path |-> "named", names |-> <<2, 4>>,
    fanout |-> "max", lag |-> 1, staleness |-> 1],
   [subject |-> "network", entity |-> "account", path |-> "auto", names |-> <<>>,
    fanout |-> "sum", lag |-> 1, staleness |-> 1],
   [subject |-> "network", entity |-> "account", path |-> "auto", names |-> <<>>,
    fanout |-> "one", lag |-> 0, staleness |-> NoLimit],
   [subject |-> "network", entity |-> "card", path |-> "trigger", names |-> <<>>,
    fanout |-> "error", lag |-> 0, staleness |-> NoLimit]}

MCRequest ==
  {[subject |-> Thing("transaction", "t1"), trigger |-> Thing("transaction", "t1"), at |-> 1],
   [subject |-> Thing("transaction", "t2"), trigger |-> Thing("transaction", "t2"), at |-> 2],
   [subject |-> Thing("network", "n"), trigger |-> Thing("transaction", "t2"), at |-> 2]}

Inbound(id, account, at, amount) ==
  [id |-> id, account |-> account, direction |-> "inbound", at |-> at, amount |-> amount]

(* t4 happens after the ceiling of every evaluation, and may be recorded   *)
(* before one or after one.                                                *)
MCArrived == {Inbound("t1", "a1", 1, 2), Inbound("t2", "a1", 2, 1)}
MCMovement == MCArrived \cup {Inbound("t4", "a2", 4, 1)}

Connections == Permutations(Session)
=============================================================================
