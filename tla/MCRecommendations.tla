------------------------- MODULE MCRecommendations -------------------------
(* TLC instance: approvers are interchangeable and so are bodies. *)
EXTENDS Recommendations, TLC

CONSTANTS x, y, z, ann, bob

Symmetry == Permutations(People) \cup Permutations(Contents)
=============================================================================
