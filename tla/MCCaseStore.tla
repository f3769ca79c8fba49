---------------------------- MODULE MCCaseStore ----------------------------
(* TLC instance: two alerts, one of them on a ring; the verdict requests   *)
(* are a full and a partial confirmation and a reset to pending.           *)
EXTENDS CaseStore, TLC

CONSTANTS s1, s2, a, b

MCBodies == {<<"confirmed_ring", {}>>, <<"confirmed_partial", {b}>>,
             <<"pending", {}>>}
=============================================================================
