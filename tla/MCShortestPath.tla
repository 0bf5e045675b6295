--------------------------- MODULE MCShortestPath ---------------------------
(***************************************************************************)
(* Four junctions and seven directed edges: a pair of parallel edges, a    *)
(* two-way street, two ways across and a junction that nothing leads to.   *)
(***************************************************************************)
EXTENDS ShortestPath

MCNodes == 1..5
MCEdges == 1..7
\*          1      2      3      4      5      6      7
MCFrom == <<1,     1,     1,     2,     3,     2,     5>>
MCTo   == <<2,     2,     3,     3,     2,     4,     1>>
MCWeights == {w \in [MCEdges -> 0..2] :
                 w[2] = 1 /\ w[4] < 2 /\ w[5] < 2 /\ w[6] = 1 /\ w[7] = 0}
=============================================================================
