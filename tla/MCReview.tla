------------------------------ MODULE MCReview ------------------------------
(* TLC instance of the two ends of a review: the store behind the server   *)
(* and the page in the browser.  A behaviour exercises one of them while   *)
(* the other rests in its initial state; each models the other's side of   *)
(* its requests.                                                           *)
(*                                                                         *)
(* store: two alerts, one of them on a ring; the verdict requests are a    *)
(* full and a partial confirmation and a reset to pending.                 *)
(* cases, log: the page, with two cases that share one member, one in each *)
(* of two lanes, and a patient analyst.  The clicks are given either to    *)
(* the cases, their lanes and verdicts, or to a case's investigation and   *)
(* its log, around one verdict.                                            *)
EXTENDS CaseStore, Console, TLC

CONSTANTS s1, s2, a, b, c1, c2, b2, primary, control

VARIABLE part   \* the end this behaviour exercises

MCBodies == {<<"confirmed_ring", {}>>, <<"confirmed_partial", {b}>>,
             <<"pending", {}>>}
MCMembersOf == (c1 :> {a, b}) @@ (c2 :> {b, b2})
MCLaneOf == (c1 :> primary) @@ (c2 :> control)

MCInit == part \in {"store", "cases", "log"} /\ Init /\ ConsoleInit

MCNext ==
  /\ UNCHANGED part
  /\ \/ part = "store" /\ Next /\ UNCHANGED console
     \/ part # "store" /\ ConsoleStep /\ UNCHANGED vars
  /\ part = "cases" => n_loads' = 0
  /\ part = "log" => n_selects' <= 2 /\ n_posts' <= 1 /\ n_lanes' = 0

\* Only the page's own actions send answers, and the bounds are on presses only,
\* so its fairness is unaffected.
MCSpec == MCInit /\ [][MCNext]_<<vars, console, part>> /\ Fairness
=============================================================================
