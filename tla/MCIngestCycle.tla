-------------------------- MODULE MCIngestCycle ---------------------------
(* A small instance of IngestCycle.                                        *)
EXTENDS IngestCycle, TLC

CONSTANTS m2, k1, k2, scheduler, post

(* An account opened on the device in the fixtures; later a second one, at *)
(* the time of a charge on the account of the first.                       *)
Instants == (k1 :> 1) @@ (k2 :> 2) @@ (m2 :> 2)

Accounts == (m2 :> {k1}) @@ (k1 :> {}) @@ (k2 :> {})
===========================================================================
