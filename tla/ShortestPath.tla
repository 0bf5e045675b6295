---------------------------- MODULE ShortestPath ----------------------------
(***************************************************************************)
(* One call of shortestPath (internal/routing/dijkstra.go), the search core *)
(* that every router runs: a lazy-deletion binary-heap Dijkstra, which is  *)
(* A* when the caller passes a heuristic (internal/routing/astar.go).      *)
(*                                                                         *)
(* The heap is the set of its entries: a pop takes any entry of least      *)
(* priority, and an entry is pushed at most once because a push follows a  *)
(* strict improvement.  dist[v] is meaningful for the reached nodes; the   *)
(* others are the code's +Inf.  Node ids come from NearestNode and are in  *)
(* range.                                                                  *)
(***************************************************************************)
EXTENDS Integers, Sequences, FiniteSets, Functions

CONSTANTS
    Nodes, Edges,
    From, To,       \* the end points of each edge
    NoEdge,         \* prevEdge's -1
    Weights,        \* the weight functions callers pass
    Estimates       \* the values a heuristic takes

ASSUME ShortestPathAssumption ==
    /\ IsFiniteSet(Nodes)
    /\ From \in [Edges -> Nodes] /\ To \in [Edges -> Nodes]
    /\ NoEdge \notin Edges
    /\ Weights \subseteq [Edges -> Nat]
    /\ Estimates \subseteq Nat /\ 0 \in Estimates

VARIABLES
    src, dst, weight, estimate,   \* the arguments; estimate is 0 for Dijkstra
    phase,      \* "search", "relax", "walk", then "found" or "none"
    reached,    \* the nodes whose dist is finite
    dist,       \* node -> best cost so far
    prevEdge,   \* node -> the edge that gave it that cost
    queue,      \* the heap's entries
    cur,        \* the node being expanded
    pending,    \* its out-edges still to relax
    at,         \* the node the predecessor walk has come to
    path        \* the edges walked, in travel order

args == <<src, dst, weight, estimate>>
search == <<reached, dist, prevEdge, queue>>
vars == <<src, dst, weight, estimate, phase, reached, dist, prevEdge, queue,
          cur, pending, at, path>>

OutEdgeIDs(n) == {e \in Edges : From[e] = n}

\* The great-circle bound of astar.go never falls by more than an edge's time
\* along that edge, and vanishes at the destination; so does the nil heuristic.
Consistent(h, w, d) ==
    /\ h[d] = 0
    /\ \A e \in Edges : h[From[e]] <= w[e] + h[To[e]]

priority(item) == item.g + estimate[item.node]

\* container/heap orders by priority; ties fall either way.
Least(item) ==
    item \in queue /\ \A other \in queue : priority(item) <= priority(other)

Stale(item) == item.g > dist[item.node]

Init ==
    /\ src \in Nodes /\ dst \in Nodes /\ weight \in Weights
    /\ estimate \in {h \in [Nodes -> Estimates] : Consistent(h, weight, dst)}
    /\ phase = IF src = dst THEN "found" ELSE "search"
    /\ reached = {src}
    /\ dist = [v \in Nodes |-> 0]
    /\ prevEdge = [v \in Nodes |-> NoEdge]
    /\ queue = {[node |-> src, g |-> 0]}
    /\ cur = src /\ pending = {}
    /\ at = dst /\ path = <<>>

\* A superseded entry is skipped.
DropStale ==
    /\ phase = "search"
    /\ \E item \in queue :
          /\ Least(item) /\ Stale(item)
          /\ queue' = queue \ {item}
    /\ UNCHANGED <<args, phase, reached, dist, prevEdge, cur, pending, at, path>>

\* The destination comes off the heap: its cost can no longer improve.
SettleDestination ==
    /\ phase = "search"
    /\ \E item \in queue :
          /\ Least(item) /\ ~Stale(item) /\ item.node = dst
          /\ queue' = queue \ {item}
    /\ phase' = "walk"
    /\ UNCHANGED <<args, reached, dist, prevEdge, cur, pending, at, path>>

Expand ==
    /\ phase = "search"
    /\ \E item \in queue :
          /\ Least(item) /\ ~Stale(item) /\ item.node # dst
          /\ queue' = queue \ {item}
          /\ cur' = item.node
          /\ pending' = OutEdgeIDs(item.node)
    /\ phase' = "relax"
    /\ UNCHANGED <<args, reached, dist, prevEdge, at, path>>

\* (Mutation: an equal cost counts as an improvement.)
ImprovesOrTies(e) == To[e] \notin reached \/ dist[cur] + weight[e] <= dist[To[e]]

Improves(e) == To[e] \notin reached \/ dist[cur] + weight[e] < dist[To[e]]

Relax(e) ==
    /\ phase = "relax" /\ e \in pending
    /\ pending' = pending \ {e}
    /\ IF Improves(e)
       THEN LET relaxed == dist[cur] + weight[e] IN
            /\ reached' = reached \cup {To[e]}
            /\ dist' = [dist EXCEPT ![To[e]] = relaxed]
            /\ prevEdge' = [prevEdge EXCEPT ![To[e]] = e]
            /\ queue' = queue \cup {[node |-> To[e], g |-> relaxed]}
       ELSE UNCHANGED search
    /\ UNCHANGED <<args, phase, cur, at, path>>

\* (Mutation: the search ends once the destination has a cost.)
ExpandedStopsEarly ==
    /\ phase = "relax" /\ pending = {}
    /\ phase' = IF dst \in reached THEN "walk" ELSE "search"
    /\ UNCHANGED <<args, search, cur, pending, at, path>>

Expanded ==
    /\ phase = "relax" /\ pending = {}
    /\ phase' = "search"
    /\ UNCHANGED <<args, search, cur, pending, at, path>>

\* The heap is empty.
Exhausted ==
    /\ phase = "search" /\ queue = {}
    /\ phase' = IF dst \in reached THEN "walk" ELSE "none"
    /\ UNCHANGED <<args, search, cur, pending, at, path>>

\* One step of the predecessor walk; the reversal is folded into the prepend.
Walk ==
    /\ phase = "walk" /\ at # src
    /\ IF prevEdge[at] \in Edges
       THEN /\ path' = <<prevEdge[at]>> \o path
            /\ at' = From[prevEdge[at]]
            /\ UNCHANGED phase
       ELSE phase' = "none" /\ UNCHANGED <<at, path>>
    /\ UNCHANGED <<args, search, cur, pending>>

Arrive ==
    /\ phase = "walk" /\ at = src
    /\ phase' = "found"
    /\ UNCHANGED <<args, search, cur, pending, at, path>>

Returned == phase \in {"found", "none"} /\ UNCHANGED vars

Step ==
    \/ DropStale \/ SettleDestination \/ Expand
    \/ \E e \in Edges : Relax(e)
    \/ Expanded \/ Exhausted \/ Walk \/ Arrive

Next == Step \/ Returned

Spec == Init /\ [][Next]_vars

\* The call runs on one goroutine, which keeps being scheduled.
FairSpec == Spec /\ WF_vars(Step)

----------------------------------------------------------------------------
Entries == [node : Nodes, g : Nat]

\* Every variable stays in its range, and the heap holds reached nodes only.
TypeOK ==
    /\ src \in Nodes /\ dst \in Nodes /\ weight \in [Edges -> Nat]
    /\ estimate \in [Nodes -> Nat] /\ Consistent(estimate, weight, dst)
    /\ phase \in {"search", "relax", "walk", "found", "none"}
    /\ reached \subseteq Nodes /\ dist \in [Nodes -> Nat]
    /\ prevEdge \in [Nodes -> Edges \cup {NoEdge}]
    /\ queue \subseteq Entries
    /\ cur \in Nodes /\ pending \subseteq OutEdgeIDs(cur)
    /\ at \in Nodes /\ path \in Seq(Edges)

(* A reference definition: the simple paths of the graph and their costs. *)

SimplePaths ==
    {p \in UNION {[1..n -> Edges] : n \in 0..(Cardinality(Nodes) - 1)} :
        /\ \A j \in 1..(Len(p) - 1) : To[p[j]] = From[p[j + 1]]
        /\ \A i, j \in DOMAIN p : To[p[i]] = To[p[j]] => i = j
        /\ \A j \in DOMAIN p : To[p[j]] # From[p[1]]}

PathsBetween(u, v) ==
    {p \in SimplePaths : IF p = <<>> THEN u = v
                         ELSE From[p[1]] = u /\ To[p[Len(p)]] = v}

pathCost(p) == SumFunction([j \in DOMAIN p |-> weight[p[j]]])

\* What the call returns, for every weight and heuristic: a simple path from src
\* to dst, whose cost is the cost reported and which no other path undercuts, or
\* "not found" on a pair that no path joins.
AnswerIsOptimal ==
    /\ phase = "found" /\ src # dst =>
          /\ path \in PathsBetween(src, dst)
          /\ pathCost(path) = dist[dst]
          /\ \A p \in PathsBetween(src, dst) : dist[dst] <= pathCost(p)
    /\ phase = "none" => PathsBetween(src, dst) = {}

Open(v) == v \in reached /\ [node |-> v, g |-> dist[v]] \in queue

Closed(v) == v \in reached /\ ~Open(v) /\ ~(phase = "relax" /\ v = cur)

\* A node that was expanded is never improved again, so no node is expanded
\* twice: what makes the lazy deletion cheap, and A* no dearer than Dijkstra.
SettledIsFinal == [][\A v \in Nodes : Closed(v) => dist'[v] = dist[v] /\ ~Open(v)']_vars

\* Every call returns.
CallReturns == <>(phase \in {"found", "none"})

(* The inductive invariant behind the optimality theorem. *)

\* A cost bounds from above the cost of getting to the node over prevEdge.
CostsAreWitnessed ==
    \A v \in reached : v # src =>
        /\ prevEdge[v] \in Edges /\ To[prevEdge[v]] = v
        /\ From[prevEdge[v]] \in reached
        /\ dist[v] >= dist[From[prevEdge[v]]] + weight[prevEdge[v]]

\* Every reached node short of the destination is on the heap with its current
\* cost, or all its out-edges are relaxed but for those still pending.
ClosedIsRelaxed ==
    \A v \in reached \ {dst} : Open(v) \/ \A e \in OutEdgeIDs(v) :
        \/ phase = "relax" /\ v = cur /\ e \in pending
        \/ To[e] \in reached /\ dist[To[e]] <= dist[v] + weight[e]

\* Nothing left on the heap undercuts a destination that has been settled.
DestinationIsLeast ==
    phase \in {"walk", "found"} /\ src # dst =>
        /\ dst \in reached
        /\ \A v \in Nodes : Open(v) => dist[dst] <= dist[v] + estimate[v]

Reach(v) == dist[v] + estimate[v]

\* The search expands nodes in the order of their estimated totals.
FrontierIsAhead ==
    /\ \A v, u \in Nodes : Closed(v) /\ Open(u) => Reach(v) <= Reach(u)
    /\ phase = "relax" => \A v \in Nodes :
          /\ Closed(v) => Reach(v) <= Reach(cur)
          /\ Open(v) => Reach(cur) <= Reach(v)

SearchInv ==
    /\ src \in reached /\ dist[src] = 0
    /\ phase = "relax" => cur \in reached /\ ~Open(cur)
    /\ \A item \in queue : item.node \in reached /\ dist[item.node] <= item.g
    /\ phase \in {"search", "relax"} => at = dst
    /\ phase = "walk" => at \in reached
    /\ phase = "none" => queue = {} /\ dst \notin reached
    /\ CostsAreWitnessed
    /\ ClosedIsRelaxed
    /\ DestinationIsLeast
    /\ FrontierIsAhead
=============================================================================
