-------------------------- MODULE MCWindowedGraph --------------------------
(* TLC instance: every time-ordered stream of four transactions over the   *)
(* minutes of Minutes that goes forth and back and on, or round a triangle *)
(* (with each link once at least), and every order of the four links of a  *)
(* payment split and recombined, of a loop of four, and of a hub whose     *)
(* payees pay one another, or pay it. Amounts are powers of two, so a      *)
(* running total tells which transactions it is made of.                   *)
EXTENDS Shapes, Functions

CONSTANTS n1, n2, n3, n4, Minutes

Times == {f \in [1..4 -> Minutes] : \A k \in 1..3 : f[k] <= f[k + 1]}
Walks(links) == [1..4 -> links]
Covering(links) == {l \in Walks(links) : {l[k] : k \in 1..4} = links}

MCStreams ==
  {[k \in 1..4 |-> [src |-> l[k][1], dst |-> l[k][2],
                    ts |-> f[k], amount |-> 2^(k - 1)]] :
     f \in Times,
     l \in Walks({<<n1, n2>>, <<n2, n1>>, <<n2, n3>>})
             \cup Covering({<<n1, n2>>, <<n2, n3>>, <<n3, n1>>})
             \cup Covering({<<n1, n2>>, <<n1, n3>>, <<n2, n4>>, <<n3, n4>>})
             \cup Covering({<<n1, n2>>, <<n2, n3>>, <<n3, n4>>, <<n4, n1>>})
             \cup Covering({<<n2, n1>>, <<n1, n3>>, <<n1, n4>>, <<n3, n4>>})
             \cup Covering({<<n1, n2>>, <<n2, n1>>, <<n2, n3>>, <<n3, n1>>})
             \cup Covering({<<n1, n2>>, <<n2, n1>>, <<n1, n3>>, <<n3, n1>>})}
=============================================================================
