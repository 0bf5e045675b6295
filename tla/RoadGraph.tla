----------------------------- MODULE RoadGraph -----------------------------
(***************************************************************************)
(* What the routers use of the graph and of the search on it: one call of   *)
(* dijkstra is a single choice of a least-cost path, which is what          *)
(* ShortestPath shows of it step by step.                                   *)
(***************************************************************************)
EXTENDS Integers, Sequences, FiniteSets, Functions

CONSTANTS Nodes, Edges, From, To

ASSUME RoadGraphAssumption ==
    /\ From \in [Edges -> Nodes] /\ To \in [Edges -> Nodes]
    /\ IsFiniteSet(Nodes)

\* The paths of n edges that enter no node twice, nor the one they start from.
SimpleOfLength(n) ==
    {p \in [1 .. n -> Edges] :
        /\ \A j \in 1 .. (n - 1) : To[p[j]] = From[p[j + 1]]
        /\ \A i, j \in DOMAIN p : To[p[i]] = To[p[j]] => i = j
        /\ \A j \in DOMAIN p : To[p[j]] # From[p[1]]}

Simple == UNION {SimpleOfLength(n) : n \in 0 .. (Cardinality(Nodes) - 1)}

SimplePaths(u, v) ==
    {p \in Simple : IF p = <<>> THEN u = v ELSE From[p[1]] = u /\ To[p[Len(p)]] = v}

Cost(p, weight) == SumFunction([i \in DOMAIN p |-> weight[p[i]]])

\* dijkstra: the paths it may return when the edges of masked weigh +Inf.
Cheapest(u, v, weight, masked) ==
    LET open == {p \in SimplePaths(u, v) : Range(p) \cap masked = {}}
    IN {p \in open : \A other \in open : Cost(p, weight) <= Cost(other, weight)}
=============================================================================
