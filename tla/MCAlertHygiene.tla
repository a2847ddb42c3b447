-------------------------- MODULE MCAlertHygiene --------------------------
(* Small instances of AlertHygiene.                                        *)
EXTENDS AlertHygiene, TLC

CONSTANTS s1, s2, s3, r1, r2, t1

(* One subject with the window and suppression of alert_policy.            *)
WithPolicy == (s1 :> [window |-> 1, suppress |-> TRUE])

(* Subjects whose type suppresses, has no policy, and does not suppress.   *)
EveryPolicy ==
  WithPolicy @@ (s2 :> NoPolicy) @@ (s3 :> [window |-> 1, suppress |-> FALSE])
===========================================================================
