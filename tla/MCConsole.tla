----------------------------- MODULE MCConsole -----------------------------
(* TLC instance: two cases that share one member, one in each lane. *)
EXTENDS Console, TLC

CONSTANTS c1, c2, a, b, b2, primary, control

MCMembersOf == (c1 :> {a, b}) @@ (c2 :> {b, b2})
MCLaneOf == (c1 :> primary) @@ (c2 :> control)
=============================================================================
