------------------------- MODULE MCCandidateGenerator -------------------------
(* TLC instance: ticks are quiet, or move money along one of three chains  *)
(* that share accounts.                                                    *)
EXTENDS CandidateGenerator

CONSTANTS n1, n2, n3, n4, n5

MCBatches == {{}, {<<n1, n2>>, <<n2, n3>>}, {<<n2, n4>>, <<n4, n2>>},
              {<<n3, n5>>, <<n5, n1>>, <<n4, n5>>}}
=============================================================================
