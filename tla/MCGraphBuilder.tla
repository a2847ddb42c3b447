--------------------------- MODULE MCGraphBuilder ---------------------------
(* Two devices and two accounts each, with a threshold of one account.     *)
EXTENDS GraphBuilder, TLC

CONSTANTS c1, c2, dA, dB, x, y, t1, t2, t3

Order == (dA :> 1) @@ (dB :> 2)

Charge(id, device, at) ==
  [relation |-> "transactions", id |-> id, device |-> device, at |-> at, faults |-> {}]
Opened(device, account) ==
  [relation |-> "entity_links", id |-> account, device |-> device, at |-> 1, faults |-> {}]

(* A charge from a new device, a batch of two of which one names an        *)
(* unknown merchant, and the edges of either device.                       *)
Batches ==
  {<<Charge(t1, dA, 1)>>,
   <<[Charge(t3, dB, 1) EXCEPT !.faults = {"reference"}], Charge(t1, dA, 1)>>,
   <<Opened(dA, x), Opened(dA, y)>>,
   <<Opened(dB, y)>>}
Settled == {Charge(t2, dB, 2), Opened(dB, x)}

Clients == Permutations({c1, c2})
=============================================================================
