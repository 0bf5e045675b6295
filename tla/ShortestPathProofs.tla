------------------------- MODULE ShortestPathProofs -------------------------
(***************************************************************************)
(* The search core is optimal on every graph, for every weight function    *)
(* and every consistent heuristic.                                         *)
(*                                                                         *)
(* The search is judged by potentials: a potential is at most 0 at src and *)
(* rises along no edge by more than the edge's weight.  The cost the call  *)
(* reports is no less than any potential of the destination, and some      *)
(* potential attains it.  Two facts about paths turn that into the answer: *)
(* no path costs less than the potential of where it ends, and the         *)
(* predecessors point down a rank, so the walk back enters no node twice.  *)
(***************************************************************************)
EXTENDS ShortestPath, FoldLemmas, TLAPS

Potentials ==
    {phi \in [Nodes -> Int] :
        /\ phi[src] <= 0
        /\ \A e \in Edges : phi[To[e]] <= phi[From[e]] + weight[e]}

PotentialsBound == \A phi \in Potentials : \A v \in reached : phi[v] <= dist[v]

ReportedIsLeast ==
    phase \in {"walk", "found"} /\ src # dst =>
        /\ \A phi \in Potentials : phi[dst] <= dist[dst]
        /\ \E phi \in Potentials : phi[dst] = dist[dst]

\* A set of nodes that holds src, not dst, and that no edge leaves.
CutOff ==
    \E S \in SUBSET Nodes :
        /\ src \in S /\ dst \notin S
        /\ \A e \in Edges : From[e] \in S => To[e] \in S

----------------------------------------------------------------------------
(* Facts about heap entries. *)

\* An entry that is not stale carries its node's cost, so its node is open.
LEMMA FreshEntry ==
    ASSUME TypeOK, SearchInv, NEW item \in queue, ~Stale(item)
    PROVE  /\ item.node \in Nodes /\ item.g \in Nat
           /\ item.g = dist[item.node]
           /\ item = [node |-> item.node, g |-> dist[item.node]]
           /\ Open(item.node)
<1>1. item \in Entries
  BY DEF TypeOK
<1>2. item.node \in Nodes /\ item.g \in Nat /\ item = [node |-> item.node, g |-> item.g]
  BY <1>1 DEF Entries
<1>3. dist[item.node] \in Nat /\ item.node \in reached
  BY <1>2 DEF TypeOK, SearchInv
<1>4. item.g = dist[item.node]
  BY <1>2, <1>3 DEF SearchInv, Stale
<1>5. item = [node |-> item.node, g |-> dist[item.node]]
  BY <1>2, <1>4
<1>6. [node |-> item.node, g |-> dist[item.node]] \in queue
  BY <1>5
<1> QED
  BY <1>2, <1>3, <1>4, <1>5, <1>6 DEF Open

\* The least entry is at most the estimated total of every open node.
LEMMA LeastIsLeast ==
    ASSUME TypeOK, NEW item \in queue, Least(item), NEW v \in Nodes, Open(v)
    PROVE  priority(item) <= Reach(v)
BY DEF Least, priority, Open, Reach

\* Taking a fresh entry off the heap closes its node and no other.
LEMMA OpenAfterPop ==
    ASSUME TypeOK, SearchInv, NEW item \in queue, ~Stale(item),
           queue' = queue \ {item}, reached' = reached, dist' = dist,
           NEW v \in Nodes
    PROVE  Open(v)' <=> (Open(v) /\ v # item.node)
<1>1. item = [node |-> item.node, g |-> dist[item.node]]
  BY FreshEntry
<1>2. CASE v = item.node
  BY <1>1, <1>2 DEF Open
<1>3. CASE v # item.node
  <2>1. [node |-> v, g |-> dist[v]] # item
    BY <1>1, <1>3
  <2> QED
    BY <2>1, <1>3 DEF Open
<1> QED
  BY <1>2, <1>3

\* Dropping a stale entry leaves every node as open as it was.
LEMMA OpenAfterDrop ==
    ASSUME TypeOK, NEW item \in queue, Stale(item),
           queue' = queue \ {item}, reached' = reached, dist' = dist,
           NEW v \in Nodes
    PROVE  Open(v)' <=> Open(v)
<1>1. dist[v] \in Nat
  BY DEF TypeOK
<1>2. [node |-> v, g |-> dist[v]] # item
  <2> SUFFICES ASSUME [node |-> v, g |-> dist[v]] = item PROVE FALSE
    OBVIOUS
  <2>1. item.node = v /\ item.g = dist[v]
    OBVIOUS
  <2> QED
    BY <2>1, <1>1 DEF Stale
<1> QED
  BY <1>2 DEF Open

----------------------------------------------------------------------------
(* The initial state. *)

LEMMA InitTyped == Init => TypeOK
<1> SUFFICES ASSUME Init PROVE TypeOK
  OBVIOUS
<1>1. weight \in [Edges -> Nat]
  BY ShortestPathAssumption DEF Init
<1>2. estimate \in [Nodes -> Nat] /\ Consistent(estimate, weight, dst)
  BY ShortestPathAssumption DEF Init
<1>3. /\ src \in Nodes /\ dst \in Nodes /\ phase \in {"found", "search"}
      /\ reached = {src} /\ dist \in [Nodes -> Nat]
      /\ prevEdge \in [Nodes -> Edges \cup {NoEdge}]
      /\ cur = src /\ pending = {} /\ at = dst
  BY DEF Init
<1>4. queue \subseteq Entries
  BY <1>3 DEF Init, Entries
<1>5. path \in Seq(Edges)
  BY DEF Init
<1> QED
  BY <1>1, <1>2, <1>3, <1>4, <1>5 DEF TypeOK, OutEdgeIDs

LEMMA InitSearches == Init => SearchInv
<1> SUFFICES ASSUME Init PROVE SearchInv
  OBVIOUS
<1>1. /\ src \in Nodes /\ dst \in Nodes /\ phase \in {"found", "search"}
      /\ src # dst => phase = "search"
      /\ at = dst /\ reached = {src} /\ queue = {[node |-> src, g |-> 0]}
      /\ dist[src] = 0
  BY DEF Init
<1>2. Open(src) /\ \A v \in Nodes : Open(v) => v = src
  BY <1>1 DEF Open
<1>3. \A v \in Nodes : ~Closed(v)
  BY <1>1, <1>2 DEF Closed, Open
<1>4. CostsAreWitnessed /\ ClosedIsRelaxed
  BY <1>1, <1>2 DEF CostsAreWitnessed, ClosedIsRelaxed
<1>5. DestinationIsLeast /\ FrontierIsAhead
  BY <1>1, <1>3 DEF DestinationIsLeast, FrontierIsAhead
<1>6. \A item \in queue : item.node \in reached /\ dist[item.node] <= item.g
  BY <1>1
<1> QED
  BY <1>1, <1>4, <1>5, <1>6 DEF SearchInv

----------------------------------------------------------------------------
(* One lemma per action. *)

LEMMA DropStaleStep == TypeOK /\ SearchInv /\ DropStale => TypeOK' /\ SearchInv'
<1> SUFFICES ASSUME TypeOK, SearchInv, DropStale PROVE TypeOK' /\ SearchInv'
  OBVIOUS
<1>0. PICK item \in queue : Least(item) /\ Stale(item) /\ queue' = queue \ {item}
  BY DEF DropStale
<1>u. UNCHANGED <<src, dst, weight, estimate, phase, reached, dist, prevEdge, cur,
                  pending, at, path>>
  BY DEF DropStale, args
<1>p. phase = "search"
  BY DEF DropStale
<1>1. TypeOK'
  BY <1>0, <1>u DEF TypeOK, Consistent, OutEdgeIDs
<1>2. \A v \in Nodes : Open(v)' <=> Open(v)
  BY <1>0, <1>u, OpenAfterDrop
<1>3. \A v \in Nodes : Closed(v)' <=> Closed(v)
  BY <1>2, <1>u DEF Closed
<1>4. CostsAreWitnessed'
  BY <1>u DEF SearchInv, CostsAreWitnessed
<1>5. ClosedIsRelaxed'
  BY <1>2, <1>u DEF TypeOK, SearchInv, ClosedIsRelaxed, OutEdgeIDs
<1>6. DestinationIsLeast'
  BY <1>u, <1>p DEF DestinationIsLeast
<1>7. FrontierIsAhead'
  BY <1>2, <1>3, <1>u DEF SearchInv, FrontierIsAhead, Reach
<1>8. \A i \in queue' : i.node \in reached' /\ dist'[i.node] <= i.g
  BY <1>0, <1>u DEF SearchInv
<1> QED
  BY <1>1, <1>4, <1>5, <1>6, <1>7, <1>8, <1>u, <1>p DEF SearchInv

LEMMA SettleDestinationStep ==
    TypeOK /\ SearchInv /\ SettleDestination => TypeOK' /\ SearchInv'
<1> SUFFICES ASSUME TypeOK, SearchInv, SettleDestination PROVE TypeOK' /\ SearchInv'
  OBVIOUS
<1>0. PICK item \in queue : Least(item) /\ ~Stale(item) /\ item.node = dst
                            /\ queue' = queue \ {item}
  BY DEF SettleDestination
<1>u. UNCHANGED <<src, dst, weight, estimate, reached, dist, prevEdge, cur,
                  pending, at, path>>
  BY DEF SettleDestination, args
<1>p. phase = "search" /\ phase' = "walk"
  BY DEF SettleDestination
<1>t. dst \in Nodes /\ dist[dst] \in Nat /\ estimate[dst] = 0
      /\ \A v \in Nodes : Reach(v) \in Nat /\ Reach(v)' = Reach(v)
  BY <1>u DEF TypeOK, Consistent, Reach
<1>1. TypeOK'
  BY <1>0, <1>u, <1>p DEF TypeOK, Consistent, OutEdgeIDs
<1>2. \A v \in Nodes : Open(v)' <=> (Open(v) /\ v # dst)
  BY <1>0, <1>u, OpenAfterPop
<1>3. \A v \in Nodes : Closed(v)' => Closed(v) \/ v = dst
  BY <1>2, <1>u, <1>p DEF Closed
<1>4. \A v \in Nodes : Open(v) => Reach(dst) <= Reach(v)
  <2>1. priority(item) = Reach(dst)
    BY <1>0, FreshEntry DEF priority, Reach
  <2> QED
    BY <2>1, <1>0, LeastIsLeast
<1>5. CostsAreWitnessed'
  BY <1>u DEF SearchInv, CostsAreWitnessed
<1>6. ClosedIsRelaxed'
  BY <1>2, <1>u, <1>p DEF TypeOK, SearchInv, ClosedIsRelaxed, OutEdgeIDs
<1>7. Open(dst) /\ dst \in reached
  BY <1>0, FreshEntry DEF Open
<1>8. DestinationIsLeast'
  BY <1>2, <1>4, <1>7, <1>u, <1>t DEF DestinationIsLeast, Reach
<1>9. FrontierIsAhead'
  BY <1>2, <1>3, <1>4, <1>p, <1>t DEF SearchInv, FrontierIsAhead
<1>10. \A i \in queue' : i.node \in reached' /\ dist'[i.node] <= i.g
  BY <1>0, <1>u DEF SearchInv
<1>11. at' \in reached'
  BY <1>7, <1>u, <1>p DEF SearchInv
<1> QED
  BY <1>1, <1>5, <1>6, <1>8, <1>9, <1>10, <1>11, <1>u, <1>p DEF SearchInv

LEMMA ExpandStep == TypeOK /\ SearchInv /\ Expand => TypeOK' /\ SearchInv'
<1> SUFFICES ASSUME TypeOK, SearchInv, Expand PROVE TypeOK' /\ SearchInv'
  OBVIOUS
<1>0. PICK item \in queue :
        /\ Least(item) /\ ~Stale(item) /\ item.node # dst
        /\ queue' = queue \ {item}
        /\ cur' = item.node /\ pending' = OutEdgeIDs(item.node)
  BY DEF Expand
<1>u. UNCHANGED <<src, dst, weight, estimate, reached, dist, prevEdge, at, path>>
  BY DEF Expand, args
<1>p. phase = "search" /\ phase' = "relax"
  BY DEF Expand
<1>n. cur' \in Nodes /\ Open(cur')
  BY <1>0, FreshEntry
<1>t. \A v \in Nodes : Reach(v) \in Nat /\ Reach(v)' = Reach(v)
  BY <1>u DEF TypeOK, Reach
<1>1. TypeOK'
  <2>1. pending' \subseteq OutEdgeIDs(cur)'
    BY <1>0 DEF OutEdgeIDs
  <2> QED
    BY <1>0, <1>u, <1>p, <1>n, <2>1 DEF TypeOK, Consistent
<1>2. \A v \in Nodes : Open(v)' <=> (Open(v) /\ v # cur')
  BY <1>0, <1>u, OpenAfterPop
<1>3. \A v \in Nodes : Closed(v)' => Closed(v)
  BY <1>2, <1>u, <1>p DEF Closed
<1>4. \A v \in Nodes : Open(v) => Reach(cur') <= Reach(v)
  <2>1. priority(item) = Reach(cur')
    BY <1>0, FreshEntry DEF priority, Reach
  <2> QED
    BY <2>1, <1>0, LeastIsLeast
<1>5. CostsAreWitnessed'
  BY <1>u DEF SearchInv, CostsAreWitnessed
<1>6. ClosedIsRelaxed'
  BY <1>0, <1>2, <1>u, <1>p DEF TypeOK, SearchInv, ClosedIsRelaxed, OutEdgeIDs
<1>7. DestinationIsLeast'
  BY <1>p DEF DestinationIsLeast
<1>8. FrontierIsAhead'
  <2>1. \A v \in Nodes : Closed(v) => Reach(v) <= Reach(cur')
    BY <1>n DEF SearchInv, FrontierIsAhead
  <2>2. Reach(cur)' = Reach(cur')
    BY <1>n, <1>u DEF Reach
  <2> QED
    BY <1>2, <1>3, <1>4, <1>t, <2>1, <2>2 DEF SearchInv, FrontierIsAhead
<1>9. \A i \in queue' : i.node \in reached' /\ dist'[i.node] <= i.g
  BY <1>0, <1>u DEF SearchInv
<1>10. cur' \in reached' /\ ~Open(cur)'
  <2>1. cur' \in reached'
    BY <1>n, <1>u DEF Open
  <2>2. ~Open(cur)'
    BY <1>2, <1>n, <1>u DEF Open
  <2> QED
    BY <2>1, <2>2
<1>11. at' = dst' /\ src' \in reached' /\ dist'[src'] = 0
  BY <1>u, <1>p DEF SearchInv
<1> QED
  BY <1>1, <1>5, <1>6, <1>7, <1>8, <1>9, <1>10, <1>11, <1>p DEF SearchInv

\* An edge that improves nothing changes no cost.
LEMMA RelaxInVain ==
    ASSUME TypeOK, SearchInv, NEW e \in Edges, Relax(e), ~Improves(e)
    PROVE  TypeOK' /\ SearchInv'
<1>u. /\ UNCHANGED <<src, dst, weight, estimate, phase, reached, dist, prevEdge,
                     queue, cur, at, path>>
      /\ phase = "relax" /\ e \in pending /\ pending' = pending \ {e}
  BY DEF Relax, args, search
<1>1. TypeOK'
  BY <1>u DEF TypeOK, Consistent, OutEdgeIDs
<1>2. \A v : (Open(v)' <=> Open(v)) /\ (Closed(v)' <=> Closed(v))
  BY <1>u DEF Open, Closed
<1>3. From[e] = cur /\ To[e] \in reached /\ ~(dist[cur] + weight[e] < dist[To[e]])
  BY <1>u DEF TypeOK, OutEdgeIDs, Improves
<1>4. dist[cur] \in Nat /\ weight[e] \in Nat /\ dist[To[e]] \in Nat
  BY ShortestPathAssumption DEF TypeOK
<1>5. dist[To[e]] <= dist[cur] + weight[e]
  BY <1>3, <1>4
<1>6. ClosedIsRelaxed'
  BY <1>2, <1>3, <1>5, <1>u DEF SearchInv, ClosedIsRelaxed, OutEdgeIDs
<1>7. CostsAreWitnessed' /\ DestinationIsLeast'
  BY <1>u DEF SearchInv, CostsAreWitnessed, DestinationIsLeast
<1>8. FrontierIsAhead'
  BY <1>2, <1>u DEF SearchInv, FrontierIsAhead, Reach
<1> QED
  BY <1>1, <1>2, <1>6, <1>7, <1>8, <1>u DEF SearchInv

\* What an improvement does to costs, and to which nodes are open and closed.
\* A node that is closed is never the one improved: the expanded node has the
\* least estimated total, and the estimate is consistent.
LEMMA ImprovementFacts ==
    ASSUME TypeOK, SearchInv, NEW e \in Edges, Relax(e), Improves(e)
    PROVE  /\ phase = "relax" /\ e \in pending /\ From[e] = cur
           /\ To[e] \in Nodes /\ To[e] # cur /\ To[e] # src /\ ~Closed(To[e])
           /\ dist'[To[e]] = dist[cur] + weight[e]
           /\ dist[cur] \in Nat /\ weight[e] \in Nat
           /\ \A v \in Nodes : v # To[e] => dist'[v] = dist[v]
           /\ \A v \in reached : dist'[v] <= dist[v]
           /\ Open(To[e])'
           /\ \A v \in Nodes : v # To[e] => (Open(v)' <=> Open(v))
           /\ \A v \in Nodes : v # To[e] => (Closed(v)' <=> Closed(v))
<1> DEFINE t == To[e]
           relaxed == dist[cur] + weight[e]
<1>u. /\ UNCHANGED <<src, dst, weight, estimate, phase, cur, at, path>>
      /\ phase = "relax" /\ e \in pending /\ pending' = pending \ {e}
      /\ reached' = reached \cup {t}
      /\ dist' = [dist EXCEPT ![t] = relaxed]
      /\ prevEdge' = [prevEdge EXCEPT ![t] = e]
      /\ queue' = queue \cup {[node |-> t, g |-> relaxed]}
  BY DEF Relax, args
<1>1. /\ From[e] = cur /\ t \in Nodes /\ cur \in Nodes /\ cur \in reached
      /\ dist[cur] \in Nat /\ weight[e] \in Nat /\ dist[t] \in Nat
      /\ estimate[cur] \in Nat /\ estimate[t] \in Nat
      /\ estimate[cur] <= weight[e] + estimate[t]
      /\ src \in reached /\ dist[src] = 0
  BY <1>u, ShortestPathAssumption DEF TypeOK, SearchInv, OutEdgeIDs, Consistent
<1>2. t # cur /\ t # src
  BY <1>1 DEF Improves
<1>3. dist'[t] = relaxed /\ \A v \in Nodes : v # t => dist'[v] = dist[v]
  BY <1>u, <1>1 DEF TypeOK
<1>4. \A v \in reached : dist'[v] <= dist[v]
  <2> SUFFICES ASSUME NEW v \in reached PROVE dist'[v] <= dist[v]
    OBVIOUS
  <2>1. v \in Nodes /\ dist[v] \in Nat
    BY DEF TypeOK
  <2>2. CASE v = t
    BY <2>2, <1>1, <1>3 DEF Improves
  <2>3. CASE v # t
    BY <2>1, <2>3, <1>3
  <2> QED
    BY <2>2, <2>3
<1>5. Open(t)'
  BY <1>u, <1>3 DEF Open
<1>6. \A v \in Nodes : v # t => (Open(v)' <=> Open(v))
  <2> SUFFICES ASSUME NEW v \in Nodes, v # t PROVE Open(v)' <=> Open(v)
    OBVIOUS
  <2>1. [node |-> v, g |-> dist[v]] # [node |-> t, g |-> relaxed]
    <3> SUFFICES ASSUME [node |-> v, g |-> dist[v]] = [node |-> t, g |-> relaxed]
                 PROVE  FALSE
      OBVIOUS
    <3>1. [node |-> v, g |-> dist[v]].node = [node |-> t, g |-> relaxed].node
      OBVIOUS
    <3> QED
      BY <3>1
  <2> QED
    BY <2>1, <1>u, <1>3 DEF Open
<1>7. \A v \in Nodes : v # t => (Closed(v)' <=> Closed(v))
  BY <1>6, <1>u DEF Closed
<1>8. ~Closed(t)
  <2> SUFFICES ASSUME Closed(t) PROVE FALSE
    OBVIOUS
  <2>1. Reach(t) <= Reach(cur)
    BY <1>1, <1>u DEF SearchInv, FrontierIsAhead
  <2>2. t \in reached
    BY DEF Closed
  <2>3. relaxed < dist[t]
    BY <2>2 DEF Improves
  <2> QED
    BY <2>1, <2>3, <1>1 DEF Reach
<1> QED
  BY <1>u, <1>1, <1>2, <1>3, <1>4, <1>5, <1>6, <1>7, <1>8

LEMMA RelaxImproves ==
    ASSUME TypeOK, SearchInv, NEW e \in Edges, Relax(e), Improves(e)
    PROVE  TypeOK' /\ SearchInv'
<1> DEFINE t == To[e]
           relaxed == dist[cur] + weight[e]
<1>u. /\ UNCHANGED <<src, dst, weight, estimate, phase, cur, at, path>>
      /\ phase = "relax" /\ e \in pending /\ pending' = pending \ {e}
      /\ reached' = reached \cup {t}
      /\ dist' = [dist EXCEPT ![t] = relaxed]
      /\ prevEdge' = [prevEdge EXCEPT ![t] = e]
      /\ queue' = queue \cup {[node |-> t, g |-> relaxed]}
  BY DEF Relax, args
<1>f. /\ From[e] = cur /\ t \in Nodes /\ t # cur /\ t # src
      /\ dist'[t] = relaxed /\ relaxed \in Nat
      /\ dist[cur] \in Nat /\ weight[e] \in Nat
      /\ \A v \in Nodes : v # t => dist'[v] = dist[v]
      /\ \A v \in reached : dist'[v] <= dist[v]
      /\ Open(t)'
      /\ \A v \in Nodes : v # t => (Open(v)' <=> Open(v))
      /\ \A v \in Nodes : v # t => (Closed(v)' <=> Closed(v))
  BY ImprovementFacts
<1>r. reached \subseteq Nodes /\ cur \in reached /\ cur \in Nodes
      /\ src \in reached /\ src \in Nodes
  BY <1>u DEF TypeOK, SearchInv
<1>d. \A v \in Nodes : dist[v] \in Nat /\ dist'[v] \in Nat
  BY <1>f DEF TypeOK
<1>1. TypeOK'
  <2>1. dist' \in [Nodes -> Nat] /\ prevEdge' \in [Nodes -> Edges \cup {NoEdge}]
    BY <1>u, <1>f DEF TypeOK
  <2>2. queue' \subseteq Entries
    BY <1>u, <1>f DEF TypeOK, Entries
  <2>3. reached' \subseteq Nodes
    BY <1>u, <1>f DEF TypeOK
  <2> HIDE DEF t, relaxed
  <2> QED
    BY <1>u, <2>1, <2>2, <2>3 DEF TypeOK, Consistent, OutEdgeIDs
<1>2. \A i \in queue' : i.node \in reached' /\ dist'[i.node] <= i.g
  <2> SUFFICES ASSUME NEW i \in queue' PROVE i.node \in reached' /\ dist'[i.node] <= i.g
    OBVIOUS
  <2>1. CASE i \in queue
    <3>1. i.node \in reached /\ dist[i.node] <= i.g /\ i.node \in Nodes /\ i.g \in Nat
      BY <2>1 DEF SearchInv, TypeOK, Entries
    <3>2. dist'[i.node] <= dist[i.node]
      BY <3>1, <1>f
    <3> QED
      BY <3>1, <3>2, <1>d, <1>u
  <2>2. CASE i = [node |-> t, g |-> relaxed]
    BY <2>2, <1>u, <1>f
  <2> QED
    BY <2>1, <2>2, <1>u
<1>3. CostsAreWitnessed'
  <2> SUFFICES ASSUME NEW v \in reached', v # src
               PROVE  /\ prevEdge'[v] \in Edges /\ To[prevEdge'[v]] = v
                      /\ From[prevEdge'[v]] \in reached'
                      /\ dist'[v] >= dist'[From[prevEdge'[v]]] + weight[prevEdge'[v]]
    BY <1>u DEF CostsAreWitnessed
  <2>1. CASE v = t
    <3>1. prevEdge'[v] = e
      BY <2>1, <1>u, <1>f DEF TypeOK
    <3>2. dist'[cur] = dist[cur]
      BY <1>f, <1>r
    <3> QED
      BY <2>1, <3>1, <3>2, <1>f, <1>r, <1>u
  <2>2. CASE v # t
    <3>1. v \in reached /\ v \in Nodes /\ prevEdge'[v] = prevEdge[v] /\ dist'[v] = dist[v]
      BY <2>2, <1>u, <1>f, <1>r DEF TypeOK
    <3>2. /\ prevEdge[v] \in Edges /\ To[prevEdge[v]] = v
          /\ From[prevEdge[v]] \in reached
          /\ dist[v] >= dist[From[prevEdge[v]]] + weight[prevEdge[v]]
      BY <3>1 DEF SearchInv, CostsAreWitnessed
    <3>3. dist'[From[prevEdge[v]]] <= dist[From[prevEdge[v]]]
      BY <3>2, <1>f
    <3>4. /\ dist[v] \in Nat /\ dist[From[prevEdge[v]]] \in Nat
          /\ dist'[From[prevEdge[v]]] \in Nat /\ weight[prevEdge[v]] \in Nat
      BY <3>1, <3>2, <1>d, <1>r DEF TypeOK
    <3> QED
      BY <3>1, <3>2, <3>3, <3>4, <1>u
  <2> QED
    BY <2>1, <2>2
<1>4. ClosedIsRelaxed'
  <2> SUFFICES ASSUME NEW v \in reached' \ {dst}, ~Open(v)', NEW x \in OutEdgeIDs(v)
               PROVE  \/ v = cur /\ x \in pending'
                      \/ To[x] \in reached' /\ dist'[To[x]] <= dist'[v] + weight[x]
    BY <1>u DEF ClosedIsRelaxed, OutEdgeIDs
  <2>1. v # t /\ v \in reached /\ v \in Nodes /\ ~Open(v) /\ dist'[v] = dist[v]
    BY <1>f, <1>u, <1>r
  <2>2. x \in Edges /\ weight[x] \in Nat /\ To[x] \in Nodes /\ From[x] = v
    BY ShortestPathAssumption DEF OutEdgeIDs, TypeOK
  <2>3. CASE x = e
    BY <2>1, <2>2, <2>3, <1>f, <1>u
  <2>4. CASE x # e
    <3>1. \/ v = cur /\ x \in pending
          \/ To[x] \in reached /\ dist[To[x]] <= dist[v] + weight[x]
      BY <2>1 DEF SearchInv, ClosedIsRelaxed
    <3>2. CASE v = cur /\ x \in pending
      BY <3>2, <2>4, <1>u
    <3>3. CASE To[x] \in reached /\ dist[To[x]] <= dist[v] + weight[x]
      <4>1. dist'[To[x]] <= dist[To[x]]
        BY <3>3, <1>f
      <4> QED
        BY <3>3, <4>1, <2>1, <2>2, <1>d, <1>u
    <3> QED
      BY <3>1, <3>2, <3>3
  <2> QED
    BY <2>3, <2>4
<1>5. DestinationIsLeast'
  BY <1>u DEF DestinationIsLeast
<1>6. FrontierIsAhead'
  <2>1. \A v \in Nodes : /\ Reach(v) \in Nat
                         /\ v # t => Reach(v)' = Reach(v)
    BY <1>u, <1>f DEF TypeOK, Reach
  <2>2. Reach(t)' >= Reach(cur) /\ Reach(t)' \in Nat
    <3>1. estimate[cur] <= weight[e] + estimate[t] /\ estimate[cur] \in Nat
          /\ estimate[t] \in Nat
      BY <1>f, <1>r DEF TypeOK, Consistent
    <3>2. Reach(t)' = relaxed + estimate[t]
      BY <1>f, <1>u DEF Reach
    <3> HIDE DEF t
    <3> QED
      BY <3>1, <3>2, <1>f DEF Reach
  <2>3. Reach(cur)' = Reach(cur)
    BY <2>1, <1>f, <1>r, <1>u DEF Reach
  <2>4. \A v \in Nodes : Closed(v)' => v # t /\ Closed(v)
    BY <1>f DEF Closed
  <2>5. \A v \in Nodes : /\ Closed(v) => Reach(v) <= Reach(cur)
                         /\ Open(v) => Reach(cur) <= Reach(v)
    BY <1>u DEF SearchInv, FrontierIsAhead
  <2>6. \A v \in Nodes : Closed(v)' => Reach(v)' <= Reach(cur)
    BY <2>1, <2>4, <2>5
  <2>7. \A v \in Nodes : Open(v)' => Reach(cur) <= Reach(v)'
    <3> SUFFICES ASSUME NEW v \in Nodes, Open(v)' PROVE Reach(cur) <= Reach(v)'
      OBVIOUS
    <3>1. CASE v = t
      BY <3>1, <2>2, <2>1, <1>r
    <3>2. CASE v # t
      BY <3>2, <1>f, <2>1, <2>5
    <3> QED
      BY <3>1, <3>2
  <2>8. \A v \in Nodes : Reach(v)' \in Nat
    BY <2>1, <2>2
  <2>9. \A v, w \in Nodes : Closed(v)' /\ Open(w)' => Reach(v)' <= Reach(w)'
    BY <2>1, <2>6, <2>7, <2>8, <1>r
  <2> QED
    BY <2>3, <2>6, <2>7, <2>9, <1>u DEF FrontierIsAhead
<1>7. cur' \in reached' /\ ~Open(cur)'
  <2>1. ~Open(cur)
    BY <1>u DEF SearchInv
  <2>2. ~Open(cur)'
    BY <2>1, <1>f, <1>r, <1>u DEF Open
  <2> QED
    BY <2>2, <1>r, <1>u
<1>8. src' \in reached' /\ dist'[src'] = 0 /\ at' = dst'
  BY <1>f, <1>r, <1>u DEF SearchInv
<1> HIDE DEF t, relaxed
<1> QED
  BY <1>1, <1>2, <1>3, <1>4, <1>5, <1>6, <1>7, <1>8, <1>u DEF SearchInv

LEMMA RelaxStep ==
    ASSUME TypeOK, SearchInv, NEW e \in Edges, Relax(e)
    PROVE  TypeOK' /\ SearchInv'
BY RelaxInVain, RelaxImproves

LEMMA ExpandedStep == TypeOK /\ SearchInv /\ Expanded => TypeOK' /\ SearchInv'
<1> SUFFICES ASSUME TypeOK, SearchInv, Expanded PROVE TypeOK' /\ SearchInv'
  OBVIOUS
<1>u. /\ UNCHANGED <<src, dst, weight, estimate, reached, dist, prevEdge, queue,
                     cur, pending, at, path>>
      /\ phase = "relax" /\ pending = {} /\ phase' = "search"
  BY DEF Expanded, args, search
<1>1. TypeOK'
  BY <1>u DEF TypeOK, Consistent, OutEdgeIDs
<1>2. \A v : (Open(v)' <=> Open(v)) /\ (Closed(v)' => Closed(v) \/ v = cur)
  BY <1>u DEF Open, Closed
<1>3. CostsAreWitnessed' /\ ClosedIsRelaxed' /\ DestinationIsLeast'
  BY <1>2, <1>u
     DEF SearchInv, CostsAreWitnessed, ClosedIsRelaxed, DestinationIsLeast, OutEdgeIDs
<1>4. FrontierIsAhead'
  <2>1. \A v, w \in Nodes : Closed(v)' /\ Open(w)' => Reach(v) <= Reach(w)
    BY <1>2, <1>u DEF SearchInv, FrontierIsAhead
  <2> QED
    BY <2>1, <1>u DEF FrontierIsAhead, Reach
<1> QED
  BY <1>1, <1>3, <1>4, <1>u DEF SearchInv

LEMMA ExhaustedStep == TypeOK /\ SearchInv /\ Exhausted => TypeOK' /\ SearchInv'
<1> SUFFICES ASSUME TypeOK, SearchInv, Exhausted PROVE TypeOK' /\ SearchInv'
  OBVIOUS
<1>u. /\ UNCHANGED <<src, dst, weight, estimate, reached, dist, prevEdge, queue,
                     cur, pending, at, path>>
      /\ phase = "search" /\ queue = {}
      /\ phase' = IF dst \in reached THEN "walk" ELSE "none"
  BY DEF Exhausted, args, search
<1>1. TypeOK'
  BY <1>u DEF TypeOK, Consistent, OutEdgeIDs
<1>2. \A v : ~Open(v)' /\ (Closed(v)' => Closed(v))
  BY <1>u DEF Open, Closed
<1>3. CostsAreWitnessed' /\ ClosedIsRelaxed'
  BY <1>2, <1>u DEF SearchInv, CostsAreWitnessed, ClosedIsRelaxed, OutEdgeIDs, Open
<1>4. DestinationIsLeast' /\ FrontierIsAhead'
  BY <1>2, <1>u DEF DestinationIsLeast, FrontierIsAhead
<1> QED
  BY <1>1, <1>3, <1>4, <1>u DEF SearchInv

\* Everything SearchInv says of the search itself survives a step that only
\* moves along the predecessors.
LEMMA WalkingStep ==
    ASSUME TypeOK, SearchInv, UNCHANGED <<args, search, cur, pending>>,
           phase = "walk", phase' \in {"walk", "found"}
    PROVE  /\ CostsAreWitnessed' /\ ClosedIsRelaxed' /\ DestinationIsLeast'
           /\ FrontierIsAhead'
           /\ src' \in reached' /\ dist'[src'] = 0
           /\ \A i \in queue' : i.node \in reached' /\ dist'[i.node] <= i.g
<1>u. UNCHANGED <<src, dst, weight, estimate, reached, dist, prevEdge, queue, cur, pending>>
  BY DEF args, search
<1>1. \A v : (Open(v)' <=> Open(v)) /\ (Closed(v)' <=> Closed(v))
  BY <1>u DEF Open, Closed
<1>2. CostsAreWitnessed' /\ ClosedIsRelaxed' /\ DestinationIsLeast'
  BY <1>1, <1>u
     DEF SearchInv, CostsAreWitnessed, ClosedIsRelaxed, DestinationIsLeast, OutEdgeIDs
<1>3. FrontierIsAhead'
  BY <1>1, <1>u DEF SearchInv, FrontierIsAhead, Reach
<1> QED
  BY <1>2, <1>3, <1>u DEF SearchInv

LEMMA WalkStep == TypeOK /\ SearchInv /\ Walk => TypeOK' /\ SearchInv'
<1> SUFFICES ASSUME TypeOK, SearchInv, Walk PROVE TypeOK' /\ SearchInv'
  OBVIOUS
<1>0. prevEdge[at] \in Edges /\ From[prevEdge[at]] \in reached
  BY DEF Walk, SearchInv, CostsAreWitnessed
<1>u. /\ UNCHANGED <<src, dst, weight, estimate, reached, dist, prevEdge, queue,
                     cur, pending, phase>>
      /\ phase = "walk"
      /\ path' = <<prevEdge[at]>> \o path
      /\ at' = From[prevEdge[at]]
  BY <1>0 DEF Walk, args, search
<1>1. path' \in Seq(Edges)
  BY <1>0, <1>u DEF TypeOK
<1>2. at' \in reached' /\ at' \in Nodes
  BY <1>0, <1>u DEF TypeOK
<1>3. TypeOK'
  BY <1>1, <1>2, <1>u DEF TypeOK, Consistent, OutEdgeIDs
<1>4. SearchInv'
  BY <1>2, <1>u, WalkingStep DEF SearchInv, args, search
<1> QED
  BY <1>3, <1>4

LEMMA ArriveStep == TypeOK /\ SearchInv /\ Arrive => TypeOK' /\ SearchInv'
<1> SUFFICES ASSUME TypeOK, SearchInv, Arrive PROVE TypeOK' /\ SearchInv'
  OBVIOUS
<1>u. /\ UNCHANGED <<src, dst, weight, estimate, reached, dist, prevEdge, queue,
                     cur, pending, at, path>>
      /\ phase = "walk" /\ phase' = "found"
  BY DEF Arrive, args, search
<1>1. TypeOK'
  BY <1>u DEF TypeOK, Consistent, OutEdgeIDs
<1>2. SearchInv'
  BY <1>u, WalkingStep DEF SearchInv, args, search
<1> QED
  BY <1>1, <1>2

LEMMA StutterStep == TypeOK /\ SearchInv /\ UNCHANGED vars => TypeOK' /\ SearchInv'
<1> SUFFICES ASSUME TypeOK, SearchInv, UNCHANGED vars PROVE TypeOK' /\ SearchInv'
  OBVIOUS
<1>u. UNCHANGED <<src, dst, weight, estimate, phase, reached, dist, prevEdge,
                  queue, cur, pending, at, path>>
  BY DEF vars
<1>1. TypeOK'
  BY <1>u DEF TypeOK, Consistent, OutEdgeIDs
<1>2. \A v : (Open(v)' <=> Open(v)) /\ (Closed(v)' <=> Closed(v))
  BY <1>u DEF Open, Closed
<1>3. CostsAreWitnessed' /\ ClosedIsRelaxed' /\ DestinationIsLeast' /\ FrontierIsAhead'
  BY <1>2, <1>u DEF SearchInv, CostsAreWitnessed, ClosedIsRelaxed, OutEdgeIDs,
                    DestinationIsLeast, FrontierIsAhead, Reach
<1> QED
  BY <1>1, <1>2, <1>3, <1>u DEF SearchInv

----------------------------------------------------------------------------
(* The invariant, and what it gives. *)

\* Every step of a call keeps the state well typed and the search invariant:
\* costs are witnessed, closed nodes are relaxed, the frontier is ahead.
THEOREM InvariantHolds == Spec => [](TypeOK /\ SearchInv)
<1>1. Init => TypeOK /\ SearchInv
  BY InitTyped, InitSearches
<1>2. TypeOK /\ SearchInv /\ [Next]_vars => TypeOK' /\ SearchInv'
  <2> SUFFICES ASSUME TypeOK, SearchInv, [Next]_vars PROVE TypeOK' /\ SearchInv'
    OBVIOUS
  <2>1. CASE DropStale
    BY <2>1, DropStaleStep
  <2>2. CASE SettleDestination
    BY <2>2, SettleDestinationStep
  <2>3. CASE Expand
    BY <2>3, ExpandStep
  <2>4. ASSUME NEW e \in Edges, Relax(e) PROVE TypeOK' /\ SearchInv'
    BY <2>4, RelaxStep
  <2>5. CASE Expanded
    BY <2>5, ExpandedStep
  <2>6. CASE Exhausted
    BY <2>6, ExhaustedStep
  <2>7. CASE Walk
    BY <2>7, WalkStep
  <2>8. CASE Arrive
    BY <2>8, ArriveStep
  <2>9. CASE UNCHANGED vars
    BY <2>9, StutterStep
  <2> QED
    BY <2>1, <2>2, <2>3, <2>4, <2>5, <2>6, <2>7, <2>8, <2>9 DEF Next, Step, Returned
<1> QED
  BY <1>1, <1>2, PTL DEF Spec

\* Every variable of a call stays in its range.
THEOREM TypeCorrect == Spec => []TypeOK
BY InvariantHolds, PTL

\* An expanded node is never improved and never expanded again, on any graph
\* and under any consistent heuristic.
THEOREM SettledNodesAreFinal == Spec => SettledIsFinal
<1>1. TypeOK /\ SearchInv /\ [Next]_vars
        => [\A v \in Nodes : Closed(v) => dist'[v] = dist[v] /\ ~Open(v)']_vars
  <2> SUFFICES ASSUME TypeOK, SearchInv, Next, NEW v \in Nodes, Closed(v)
               PROVE  dist'[v] = dist[v] /\ ~Open(v)'
    OBVIOUS
  <2>0. ~Open(v)
    BY DEF Closed
  <2>1. ASSUME NEW e \in Edges, Relax(e) PROVE dist'[v] = dist[v] /\ ~Open(v)'
    <3>1. CASE Improves(e)
      <4>1. v # To[e]
        BY <2>1, <3>1, ImprovementFacts
      <4> QED
        BY <2>0, <2>1, <3>1, <4>1, ImprovementFacts
    <3>2. CASE ~Improves(e)
      BY <2>0, <2>1, <3>2 DEF Relax, search, Open
    <3> QED
      BY <3>1, <3>2
  <2>2. CASE DropStale \/ SettleDestination \/ Expand
    BY <2>0, <2>2 DEF DropStale, SettleDestination, Expand, Open
  <2>3. CASE Expanded \/ Exhausted \/ Walk \/ Arrive \/ Returned
    BY <2>0, <2>3 DEF Expanded, Exhausted, Walk, Arrive, Returned, search, vars, Open
  <2> QED
    BY <2>1, <2>2, <2>3 DEF Next, Step
<1> QED
  BY <1>1, InvariantHolds, PTL DEF Spec, SettledIsFinal

----------------------------------------------------------------------------
(* Optimality. *)

LEMMA BoundInit == Init => PotentialsBound
<1> SUFFICES ASSUME Init, NEW phi \in Potentials, NEW v \in reached
             PROVE  phi[v] <= dist[v]
  BY DEF PotentialsBound
<1>1. v = src /\ dist[v] = 0
  BY DEF Init
<1> QED
  BY <1>1 DEF Potentials

LEMMA BoundStep ==
    TypeOK /\ SearchInv /\ PotentialsBound /\ [Next]_vars => PotentialsBound'
<1> SUFFICES ASSUME TypeOK, SearchInv, PotentialsBound, [Next]_vars
             PROVE  PotentialsBound'
  OBVIOUS
<1>1. ASSUME NEW e \in Edges, Relax(e), Improves(e) PROVE PotentialsBound'
  <2> SUFFICES ASSUME NEW phi \in Potentials', NEW v \in reached'
               PROVE  phi[v] <= dist'[v]
    BY DEF PotentialsBound
  <2>1. phi \in Potentials
    BY <1>1 DEF Relax, args, Potentials
  <2>2. CASE v = To[e]
    <3>1. /\ From[e] = cur /\ dist'[v] = dist[cur] + weight[e]
          /\ dist[cur] \in Nat /\ weight[e] \in Nat /\ cur \in reached /\ cur \in Nodes
      BY <1>1, <2>2, ImprovementFacts DEF TypeOK, SearchInv
    <3>2. phi[cur] <= dist[cur]
      BY <2>1, <3>1 DEF PotentialsBound
    <3>3. phi[v] <= phi[cur] + weight[e] /\ phi[v] \in Int /\ phi[cur] \in Int
      BY <2>1, <2>2, <3>1, ShortestPathAssumption DEF Potentials
    <3> QED
      BY <3>1, <3>2, <3>3
  <2>3. CASE v # To[e]
    <3>1. v \in reached /\ v \in Nodes
      BY <1>1, <2>3 DEF Relax, TypeOK
    <3>2. dist'[v] = dist[v]
      BY <1>1, <2>3, <3>1, ImprovementFacts
    <3> QED
      BY <2>1, <3>1, <3>2 DEF PotentialsBound
  <2> QED
    BY <2>2, <2>3
<1>2. CASE UNCHANGED <<src, weight, reached, dist>>
  BY <1>2 DEF PotentialsBound, Potentials
<1>3. ASSUME NEW e \in Edges, Relax(e), ~Improves(e)
      PROVE  UNCHANGED <<src, weight, reached, dist>>
  BY <1>3 DEF Relax, search, args
<1>4. CASE DropStale \/ SettleDestination \/ Expand
  BY <1>2, <1>4 DEF DropStale, SettleDestination, Expand, args
<1>5. CASE Expanded \/ Exhausted \/ Walk \/ Arrive \/ Returned \/ UNCHANGED vars
  BY <1>2, <1>5 DEF Expanded, Exhausted, Walk, Arrive, Returned, args, search, vars
<1> QED
  BY <1>1, <1>2, <1>3, <1>4, <1>5 DEF Next, Step

\* Once the destination is settled, its cost is attained by a potential: the
\* cost of the nodes nearer than the destination, the remainder for the others.
LEMMA SettledCostIsAttained ==
    ASSUME TypeOK, SearchInv, phase \in {"walk", "found"}, src # dst
    PROVE  \E phi \in Potentials : phi[dst] = dist[dst]
<1> DEFINE D == dist[dst]
           Near(v) == v \in reached /\ dist[v] < D - estimate[v]
           phi == [v \in Nodes |-> IF Near(v) THEN dist[v] ELSE D - estimate[v]]
<1>1. /\ D \in Nat /\ estimate[dst] = 0 /\ dst \in Nodes /\ src \in Nodes
      /\ \A v \in Nodes : dist[v] \in Nat /\ estimate[v] \in Nat
      /\ \A e \in Edges : /\ From[e] \in Nodes /\ To[e] \in Nodes /\ weight[e] \in Nat
                          /\ estimate[From[e]] <= weight[e] + estimate[To[e]]
  BY ShortestPathAssumption DEF TypeOK, Consistent
<1>2. \A v \in Nodes : Open(v) => D <= dist[v] + estimate[v]
  BY DEF SearchInv, DestinationIsLeast
<1> HIDE DEF D
<1>3. phi \in [Nodes -> Int]
  BY <1>1
<1>4. phi[src] <= 0
  <2>1. src \in reached /\ dist[src] = 0
    BY DEF SearchInv
  <2> QED
    BY <1>1, <2>1
<1>5. ASSUME NEW e \in Edges PROVE phi[To[e]] <= phi[From[e]] + weight[e]
  <2>1. CASE ~Near(From[e])
    BY <1>1, <2>1
  <2>2. CASE Near(From[e])
    <3>1. From[e] \in reached /\ From[e] # dst /\ ~Open(From[e])
      BY <1>1, <1>2, <2>2 DEF D
    <3>2. To[e] \in reached /\ dist[To[e]] <= dist[From[e]] + weight[e]
      BY <3>1 DEF SearchInv, ClosedIsRelaxed, OutEdgeIDs
    <3> QED
      BY <1>1, <2>2, <3>2
  <2> QED
    BY <2>1, <2>2
<1>6. phi[dst] = D
  BY <1>1 DEF D
<1>7. phi \in Potentials
  BY <1>3, <1>4, <1>5 DEF Potentials
<1> QED
  BY <1>6, <1>7 DEF D

\* The cost reported for a settled destination is the least possible one: no
\* potential exceeds it and one attains it, on every graph, for every weight
\* function and every consistent heuristic (0 for Dijkstra, the great-circle
\* bound for A*).
THEOREM DistanceIsShortest == Spec => []ReportedIsLeast
<1>1. Init => PotentialsBound
  BY BoundInit
<1>2. TypeOK /\ SearchInv /\ PotentialsBound /\ [Next]_vars => PotentialsBound'
  BY BoundStep
<1>3. TypeOK /\ SearchInv /\ PotentialsBound => ReportedIsLeast
  <2> SUFFICES ASSUME TypeOK, SearchInv, PotentialsBound,
                      phase \in {"walk", "found"}, src # dst
               PROVE  /\ \A phi \in Potentials : phi[dst] <= dist[dst]
                      /\ \E phi \in Potentials : phi[dst] = dist[dst]
    BY DEF ReportedIsLeast
  <2>1. dst \in reached
    BY DEF SearchInv, DestinationIsLeast
  <2> QED
    BY <2>1, SettledCostIsAttained DEF PotentialsBound
<1> QED
  BY <1>1, <1>2, <1>3, InvariantHolds, PTL DEF Spec

\* A call answers "not found" only when a set of nodes with src but without dst
\* is closed under the edges: no path leads there.
THEOREM NoneOnlyWhenCutOff == Spec => [](phase = "none" => CutOff)
<1>1. TypeOK /\ SearchInv => (phase = "none" => CutOff)
  <2> SUFFICES ASSUME TypeOK, SearchInv, phase = "none" PROVE CutOff
    OBVIOUS
  <2>1. \A v \in Nodes : ~Open(v)
    BY DEF SearchInv, Open
  <2>2. \A e \in Edges : From[e] \in reached => To[e] \in reached
    BY <2>1 DEF SearchInv, ClosedIsRelaxed, OutEdgeIDs, TypeOK
  <2>3. reached \in SUBSET Nodes /\ src \in reached /\ dst \notin reached
    BY DEF TypeOK, SearchInv
  <2> QED
    BY <2>2, <2>3 DEF CutOff
<1> QED
  BY <1>1, InvariantHolds, PTL

----------------------------------------------------------------------------
(* Paths, what they cost, and the two ways to bound that from below. *)

IsSimple(p) ==
    /\ p \in Seq(Edges)
    /\ \A j \in 1 .. (Len(p) - 1) : To[p[j]] = From[p[j + 1]]
    /\ \A i, j \in 1 .. Len(p) : To[p[i]] = To[p[j]] => i = j
    /\ \A j \in 1 .. Len(p) : To[p[j]] # From[p[1]]

\* A path that enters no node twice is no longer than there are nodes to enter.
LEMMA SimpleIs == ASSUME Nodes # {}, NEW p PROVE p \in SimplePaths <=> IsSimple(p)
<1>0. IsFiniteSet(Nodes) /\ Cardinality(Nodes) \in Nat
  BY ShortestPathAssumption, FS_CardinalityType
<1>1. ASSUME p \in SimplePaths PROVE IsSimple(p)
  <2>1. PICK n \in 0 .. (Cardinality(Nodes) - 1) : p \in [1 .. n -> Edges]
    BY <1>1 DEF SimplePaths
  <2>2. n \in Nat /\ p \in Seq(Edges) /\ Len(p) = n /\ DOMAIN p = 1 .. n
    BY <1>0, <2>1
  <2> QED
    BY <1>1, <2>2 DEF SimplePaths, IsSimple
<1>2. ASSUME IsSimple(p) PROVE p \in SimplePaths
  <2> DEFINE n == Len(p)
  <2>1. n \in Nat /\ DOMAIN p = 1 .. n /\ p \in [1 .. n -> Edges]
    BY <1>2 DEF IsSimple
  <2>2. n <= Cardinality(Nodes) - 1
    <3>1. CASE n = 0
      <4>1. Cardinality(Nodes) # 0
        BY <1>0, FS_EmptySet
      <4> QED
        BY <1>0, <3>1, <4>1
    <3>2. CASE n # 0
      <4> DEFINE first == From[p[1]]
                 T == Nodes \ {first}
                 f == [j \in 1 .. n |-> To[p[j]]]
      <4>1. first \in Nodes /\ \A j \in 1 .. n : p[j] \in Edges /\ To[p[j]] \in Nodes
        <5>1. 1 \in 1 .. n /\ \A j \in 1 .. n : p[j] \in Edges
          BY <2>1, <3>2
        <5>2. \A e \in Edges : From[e] \in Nodes /\ To[e] \in Nodes
          BY ShortestPathAssumption
        <5> QED
          BY <5>1, <5>2
      <4>2. IsFiniteSet(T) /\ Cardinality(T) = Cardinality(Nodes) - 1
        BY <1>0, <4>1, FS_RemoveElement
      <4>3. f \in Injection(1 .. n, T)
        BY <1>2, <4>1 DEF IsSimple, Injection, IsInjective
      <4>4. Cardinality(1 .. n) <= Cardinality(T)
        BY <4>2, <4>3, FS_Injection
      <4>5. Cardinality(1 .. n) = n
        <5>1. 1 \in Int /\ n \in Int
          BY <2>1
        <5>2. Cardinality(1 .. n) = IF 1 > n THEN 0 ELSE n - 1 + 1
          BY <5>1, FS_Interval
        <5> QED
          BY <2>1, <3>2, <5>2
      <4> QED
        BY <4>2, <4>4, <4>5
    <3> QED
      BY <3>1, <3>2
  <2>3. n \in 0 .. (Cardinality(Nodes) - 1)
    BY <1>0, <2>1, <2>2
  <2>4. p \in UNION {[1 .. m -> Edges] : m \in 0 .. (Cardinality(Nodes) - 1)}
    BY <2>1, <2>3
  <2>5. /\ \A j \in 1 .. (Len(p) - 1) : To[p[j]] = From[p[j + 1]]
        /\ \A i, j \in DOMAIN p : To[p[i]] = To[p[j]] => i = j
        /\ \A j \in DOMAIN p : To[p[j]] # From[p[1]]
    BY <1>2, <2>1 DEF IsSimple
  <2> QED
    BY <2>4, <2>5 DEF SimplePaths
<1> QED
  BY <1>1, <1>2

LEMMA PathIs ==
  ASSUME TypeOK, NEW p
  PROVE  p \in PathsBetween(src, dst) <=>
            /\ IsSimple(p)
            /\ p = <<>> => src = dst
            /\ p # <<>> => From[p[1]] = src /\ To[p[Len(p)]] = dst
<1>1. Nodes # {}
  BY DEF TypeOK
<1>2. p \in SimplePaths <=> IsSimple(p)
  BY <1>1, SimpleIs
<1> QED
  BY <1>2 DEF PathsBetween

Along(p) == [j \in DOMAIN p |-> weight[p[j]]]

LEMMA CostIsSum ==
  ASSUME TypeOK, NEW p \in Seq(Edges)
  PROVE  /\ \A j \in 1 .. Len(p) : /\ p[j] \in Edges /\ Along(p)[j] = weight[p[j]]
                                   /\ Along(p)[j] \in Nat
         /\ pathCost(p) = SumFunctionOnSet(Along(p), 1 .. Len(p))
         /\ pathCost(p) \in Nat
<1>1. Len(p) \in Nat /\ DOMAIN p = 1 .. Len(p)
  OBVIOUS
<1>2. \A j \in 1 .. Len(p) : p[j] \in Edges /\ Along(p)[j] = weight[p[j]] /\ Along(p)[j] \in Nat
  BY <1>1 DEF Along, TypeOK
<1>3. pathCost(p) = SumFunctionOnSet(Along(p), 1 .. Len(p))
  <2>1. DOMAIN Along(p) = 1 .. Len(p)
    BY <1>1 DEF Along
  <2>2. pathCost(p) = SumFunctionOnSet(Along(p), DOMAIN Along(p))
    BY DEF pathCost, SumFunction, Along
  <2> QED
    BY <2>1, <2>2
<1> HIDE DEF Along
<1>4. SumFunctionOnSet(Along(p), 1 .. Len(p)) \in Nat
  BY <1>1, <1>2, UptoFinite, SumNat
<1> QED
  BY <1>2, <1>3, <1>4

\* The potential of a node bounds the cost of every path there from below.
LEMMA PotentialBoundsPath ==
  ASSUME TypeOK, NEW phi \in Potentials, NEW p \in PathsBetween(src, dst), src # dst
  PROVE  phi[dst] <= pathCost(p)
<1> DEFINE w == Along(p)
           sum(n) == SumFunctionOnSet(w, 1 .. n)
           I == {n \in Nat : n + 1 <= Len(p) => phi[To[p[n + 1]]] <= sum(n + 1)}
<1>1. IsSimple(p) /\ p # <<>> /\ From[p[1]] = src /\ To[p[Len(p)]] = dst
  BY PathIs
<1>2. p \in Seq(Edges) /\ Len(p) \in Nat /\ Len(p) > 0
  BY <1>1 DEF IsSimple
<1>3. \A j \in 1 .. Len(p) : p[j] \in Edges /\ w[j] = weight[p[j]] /\ w[j] \in Nat
  BY <1>2, CostIsSum
<1>4. \A j \in 1 .. Len(p) : /\ phi[To[p[j]]] \in Int /\ phi[From[p[j]]] \in Int
                             /\ phi[To[p[j]]] <= phi[From[p[j]]] + w[j]
  BY <1>3, ShortestPathAssumption DEF Potentials
<1> HIDE DEF w
<1>5. 0 \in I
  <2>1. 1 \in 1 .. Len(p)
    BY <1>2
  <2>2. phi[From[p[1]]] <= 0
    BY <1>1 DEF Potentials
  <2>3. sum(1) = w[1]
    <3>1. \A i \in 1 .. (0 + 1) : w[i] \in Int
      BY <1>3, <2>1
    <3>2. sum(0 + 1) = sum(0) + w[0 + 1]
      BY <3>1, SumNext
    <3>3. 1 .. 0 = {} /\ 0 + 1 = 1
      OBVIOUS
    <3>4. sum(0) = 0
      BY <3>3, SumEmpty
    <3> QED
      BY <1>3, <2>1, <3>2, <3>3, <3>4
  <2>4. phi[To[p[1]]] <= sum(1)
    <3> HIDE DEF sum
    <3> QED
      BY <1>3, <1>4, <2>1, <2>2, <2>3
  <2> QED
    BY <2>4
<1>6. ASSUME NEW n \in Nat, n \in I PROVE n + 1 \in I
  <2> DEFINE m == n + 1
  <2>1. m \in Nat /\ m + 1 = n + 1 + 1
    OBVIOUS
  <2> SUFFICES ASSUME m + 1 <= Len(p) PROVE phi[To[p[m + 1]]] <= sum(m + 1)
    BY <2>1
  <2>2. m \in 1 .. Len(p) /\ m + 1 \in 1 .. Len(p) /\ m \in 1 .. (Len(p) - 1)
    BY <1>2, <2>1
  <2>3. phi[To[p[m]]] <= sum(m)
    BY <1>6, <2>2
  <2>4. To[p[m]] = From[p[m + 1]]
    BY <1>1, <2>2 DEF IsSimple
  <2>5. \A i \in 1 .. (m + 1) : i \in 1 .. Len(p) /\ w[i] \in Int
    BY <1>2, <1>3, <2>1, <2>2
  <2>6. sum(m + 1) = sum(m) + w[m + 1] /\ sum(m) \in Int
    <3>1. sum(m + 1) = sum(m) + w[m + 1]
      BY <2>1, <2>5, SumNext
    <3>2. \A i \in 1 .. m : w[i] \in Int
      BY <2>1, <2>5
    <3>3. sum(m) \in Int
      BY <2>1, <3>2, UptoFinite, SumInt
    <3> QED
      BY <3>1, <3>3
  <2> HIDE DEF sum, m
  <2>7. w[m + 1] \in Int /\ phi[To[p[m + 1]]] <= phi[To[p[m]]] + w[m + 1]
        /\ phi[To[p[m + 1]]] \in Int /\ phi[To[p[m]]] \in Int
    BY <1>3, <1>4, <2>2, <2>4
  <2> QED
    BY <2>3, <2>6, <2>7
<1> HIDE DEF I
<1>7. Len(p) - 1 \in I
  <2>1. Len(p) - 1 \in Nat
    BY <1>2
  <2> QED
    BY <1>5, <1>6, <2>1, NatSetInduction
<1>8. phi[To[p[Len(p)]]] <= sum(Len(p))
  BY <1>2, <1>7 DEF I
<1> QED
  BY <1>1, <1>2, <1>8, CostIsSum DEF w

\* No path leaves a set that no edge leaves.
LEMMA NoPathOutOfCut ==
  ASSUME TypeOK, CutOff
  PROVE  PathsBetween(src, dst) = {}
<1>1. PICK S \in SUBSET Nodes : /\ src \in S /\ dst \notin S
                                /\ \A e \in Edges : From[e] \in S => To[e] \in S
  BY DEF CutOff
<1> SUFFICES ASSUME NEW p \in PathsBetween(src, dst) PROVE FALSE
  OBVIOUS
<1> DEFINE I == {n \in Nat : n + 1 <= Len(p) => To[p[n + 1]] \in S}
<1>2. IsSimple(p) /\ p # <<>> /\ From[p[1]] = src /\ To[p[Len(p)]] = dst
  BY <1>1, PathIs
<1>3. p \in Seq(Edges) /\ Len(p) \in Nat /\ Len(p) > 0 /\ \A j \in 1 .. Len(p) : p[j] \in Edges
  BY <1>2 DEF IsSimple
<1>4. 0 \in I
  BY <1>1, <1>2, <1>3
<1>5. ASSUME NEW n \in Nat, n \in I PROVE n + 1 \in I
  <2> SUFFICES ASSUME n + 1 + 1 <= Len(p) PROVE To[p[n + 1 + 1]] \in S
    OBVIOUS
  <2>1. n + 1 \in 1 .. (Len(p) - 1) /\ n + 1 + 1 \in 1 .. Len(p)
    BY <1>3
  <2>2. To[p[n + 1]] = From[p[n + 1 + 1]]
    BY <1>2, <2>1 DEF IsSimple
  <2> QED
    BY <1>1, <1>3, <1>5, <2>1, <2>2
<1> HIDE DEF I
<1>6. Len(p) - 1 \in Nat
  BY <1>3
<1>7. Len(p) - 1 \in I
  BY <1>4, <1>5, <1>6, NatSetInduction
<1>8. To[p[Len(p)]] \in S
  BY <1>3, <1>7 DEF I
<1> QED
  BY <1>1, <1>2, <1>8

----------------------------------------------------------------------------
(* The predecessor walk. *)

\* A node that gave another its cost has left the heap for good, so the edges of
\* prevEdge point from nodes ranked lower, and following them comes to an end.
PredecessorsClosed == \A v \in reached \ {src} : ~Open(From[prevEdge[v]])

Ranked(rank) ==
    \A v \in reached \ {src} : rank[From[prevEdge[v]]] < rank[v]

\* The walk has climbed from dst to at, through nodes of falling rank.
Climbs(rank) ==
    /\ \A j \in 1 .. Len(path) :
          /\ To[path[j]] \in reached \ {src}
          /\ rank[at] < rank[To[path[j]]]
    /\ \A j \in 1 .. (Len(path) - 1) : To[path[j]] = From[path[j + 1]]
    /\ \A i, j \in 1 .. Len(path) : i < j => rank[To[path[i]]] < rank[To[path[j]]]
    /\ path = <<>> => at = dst
    /\ path # <<>> => From[path[1]] = at /\ To[path[Len(path)]] = dst

WalkInv ==
    /\ PredecessorsClosed
    /\ phase \in {"search", "relax", "none"} => path = <<>> /\ at = dst
    /\ phase = "found" => at = src
    /\ \E rank \in [Nodes -> Nat] : Ranked(rank) /\ Climbs(rank)
    /\ phase \in {"walk", "found"} => pathCost(path) + dist[at] <= dist[dst]

LEMMA EmptyPath ==
  ASSUME TypeOK, path = <<>>
  PROVE  pathCost(path) = 0 /\ \A rank : at = dst => Climbs(rank)
<1>1. path \in Seq(Edges) /\ Len(path) = 0 /\ 1 .. Len(path) = {} /\ 1 .. (Len(path) - 1) = {}
  OBVIOUS
<1>2. pathCost(path) = 0
  <2>1. pathCost(path) = SumFunctionOnSet(Along(path), 1 .. Len(path))
    BY <1>1, CostIsSum
  <2> QED
    BY <1>1, <2>1, SumEmpty
<1>3. \A rank : at = dst => Climbs(rank)
  BY <1>1 DEF Climbs
<1> QED
  BY <1>2, <1>3

LEMMA InitWalks == Init => WalkInv
<1> SUFFICES ASSUME Init PROVE WalkInv
  OBVIOUS
<1>1. /\ reached = {src} /\ path = <<>> /\ at = dst /\ phase \in {"found", "search"}
      /\ phase = "found" => at = src
  BY DEF Init
<1>2. TypeOK
  BY InitTyped
<1> DEFINE rank == [v \in Nodes |-> 0]
<1>3. rank \in [Nodes -> Nat] /\ Ranked(rank) /\ Climbs(rank)
  BY <1>1, <1>2, EmptyPath DEF Ranked
<1>4. pathCost(path) = 0 /\ dist[dst] \in Nat /\ pathCost(path) + dist[at] <= dist[dst]
  BY <1>1, <1>2, EmptyPath DEF TypeOK
<1>5. PredecessorsClosed
  BY <1>1 DEF PredecessorsClosed
<1> QED
  BY <1>1, <1>3, <1>4, <1>5 DEF WalkInv

\* Until the walk begins, a step that gives no node a new cost keeps all of it.
LEMMA QuietStep ==
  ASSUME TypeOK, SearchInv, WalkInv, TypeOK',
         UNCHANGED <<src, dst, weight, estimate, reached, dist, prevEdge, at, path>>,
         \A v \in Nodes : Open(v)' => Open(v),
         phase' \in {"search", "relax", "none"} => phase \in {"search", "relax", "none"},
         phase' = "found" => at = src
  PROVE  WalkInv'
<1>1. PredecessorsClosed'
  <2> SUFFICES ASSUME NEW v \in reached \ {src} PROVE ~Open(From[prevEdge[v]])'
    BY DEF PredecessorsClosed
  <2>1. From[prevEdge[v]] \in Nodes
    BY DEF TypeOK, SearchInv, CostsAreWitnessed
  <2>2. ~Open(From[prevEdge[v]])
    BY DEF WalkInv, PredecessorsClosed
  <2> QED
    BY <2>1, <2>2
<1>2. \E rank \in [Nodes -> Nat] : Ranked(rank)' /\ Climbs(rank)'
  <2>1. PICK rank \in [Nodes -> Nat] : Ranked(rank) /\ Climbs(rank)
    BY DEF WalkInv
  <2>2. Ranked(rank)' /\ Climbs(rank)'
    BY <2>1 DEF Ranked, Climbs
  <2> QED
    BY <2>2
<1>3. pathCost(path)' = pathCost(path)
  BY DEF pathCost
<1>4. phase' \in {"walk", "found"} => pathCost(path)' + dist'[at'] <= dist'[dst']
  <2>1. CASE phase \in {"walk", "found"}
    BY <1>3, <2>1 DEF WalkInv
  <2>2. CASE phase \in {"search", "relax", "none"}
    <3>1. path = <<>> /\ at = dst /\ dist[dst] \in Nat
      BY <2>2 DEF WalkInv, TypeOK
    <3>2. pathCost(path) = 0
      BY <3>1, EmptyPath
    <3> QED
      BY <1>3, <3>1, <3>2
  <2> QED
    BY <2>1, <2>2 DEF TypeOK
<1> QED
  BY <1>1, <1>2, <1>4 DEF WalkInv

\* The node improved has lost no successor: it is not one the search has left.
LEMMA ImprovingStep ==
  ASSUME TypeOK, SearchInv, WalkInv, TypeOK', NEW e \in Edges, Relax(e), Improves(e)
  PROVE  WalkInv'
<1> DEFINE t == To[e]
<1>u. /\ UNCHANGED <<src, dst, weight, estimate, phase, cur, at, path>>
      /\ reached' = reached \cup {t} /\ prevEdge' = [prevEdge EXCEPT ![t] = e]
  BY DEF Relax, args
<1>1. /\ phase = "relax" /\ From[e] = cur /\ t \in Nodes /\ t # cur /\ t # src /\ ~Closed(t)
      /\ \A v \in Nodes : v # t => (Open(v)' <=> Open(v))
      /\ cur \in Nodes /\ ~Open(cur)
  BY ImprovementFacts DEF TypeOK, SearchInv
<1>2. prevEdge'[t] = e /\ \A v \in Nodes : v # t => prevEdge'[v] = prevEdge[v]
  BY <1>1, <1>u DEF TypeOK
<1>3. ASSUME NEW v \in reached \ {src}
      PROVE  /\ v \in Nodes /\ From[prevEdge[v]] \in Nodes /\ From[prevEdge[v]] # t
             /\ ~Open(From[prevEdge[v]])
  <2>1. v \in Nodes /\ prevEdge[v] \in Edges /\ From[prevEdge[v]] \in reached
        /\ From[prevEdge[v]] \in Nodes
    BY DEF TypeOK, SearchInv, CostsAreWitnessed
  <2>2. ~Open(From[prevEdge[v]])
    BY DEF WalkInv, PredecessorsClosed
  <2>3. t \in reached => Open(t)
    BY <1>1 DEF Closed
  <2> QED
    BY <2>1, <2>2, <2>3
<1> HIDE DEF t
<1>4. PredecessorsClosed'
  <2> SUFFICES ASSUME NEW v \in reached' \ {src'} PROVE ~Open(From[prevEdge[v]])'
    BY DEF PredecessorsClosed
  <2>1. CASE v = t
    <3>1. From[prevEdge'[v]] = cur
      BY <1>1, <1>2, <2>1 DEF t
    <3>2. PICK c \in Nodes : c = cur /\ c # t
      BY <1>1
    <3>3. ~Open(c)'
      BY <1>1, <3>2
    <3> QED
      BY <3>1, <3>2, <3>3 DEF Open
  <2>2. CASE v # t
    <3>1. v \in reached \ {src} /\ prevEdge'[v] = prevEdge[v]
      BY <1>2, <1>3, <1>u, <2>2
    <3> QED
      BY <1>1, <1>3, <3>1
  <2> QED
    BY <2>1, <2>2
<1>5. \E rank \in [Nodes -> Nat] : Ranked(rank)' /\ Climbs(rank)'
  <2>1. PICK rank \in [Nodes -> Nat] : Ranked(rank) /\ Climbs(rank)
    BY DEF WalkInv
  <2>2. PICK higher \in [Nodes -> Nat] :
           /\ higher[t] = rank[cur] + 1 /\ rank[cur] \in Nat
           /\ \A v \in Nodes : v # t => higher[v] = rank[v]
    <3> DEFINE f == [rank EXCEPT ![t] = rank[cur] + 1]
    <3>1. /\ f \in [Nodes -> Nat] /\ f[t] = rank[cur] + 1 /\ rank[cur] \in Nat
          /\ \A v \in Nodes : v # t => f[v] = rank[v]
      BY <1>1
    <3> QED
      BY <3>1
  <2>3. ASSUME NEW v \in reached' \ {src'} PROVE higher[From[prevEdge'[v]]] < higher[v]
    <3>1. CASE v = t
      BY <1>1, <1>2, <2>2, <3>1 DEF t
    <3>2. CASE v # t
      <4>1. v \in reached \ {src} /\ prevEdge'[v] = prevEdge[v]
        BY <1>2, <1>3, <1>u, <3>2
      <4>2. rank[From[prevEdge[v]]] < rank[v]
        BY <2>1, <4>1 DEF Ranked
      <4> QED
        BY <1>3, <2>2, <3>2, <4>1, <4>2
    <3> QED
      BY <3>1, <3>2
  <2>4. Ranked(higher)'
    BY <2>3 DEF Ranked
  <2>5. Climbs(higher)'
    <3>1. path' = <<>> /\ at' = dst'
      BY <1>1, <1>u DEF WalkInv
    <3> QED
      BY <3>1 DEF Climbs
  <2> QED
    BY <2>2, <2>4, <2>5
<1> QED
  BY <1>1, <1>4, <1>5, <1>u DEF WalkInv

LEMMA PrependCost ==
  ASSUME TypeOK, NEW p \in Seq(Edges), NEW e \in Edges
  PROVE  pathCost(<<e>> \o p) = weight[e] + pathCost(p)
<1> DEFINE q == <<e>> \o p
           one == [i \in 1 .. 1 |-> weight[e]]
           n == Len(p)
<1>1. /\ n \in Nat /\ q \in Seq(Edges) /\ Len(q) = 1 + n /\ q[1] = e
      /\ \A i \in 1 .. n : q[1 + i] = p[i] /\ 1 + i \in 1 .. Len(q)
      /\ 1 \in 1 .. Len(q)
  OBVIOUS
<1>2. weight[e] \in Nat
  BY DEF TypeOK
<1>3. /\ \A j \in 1 .. Len(q) : Along(q)[j] = weight[q[j]] /\ Along(q)[j] \in Nat
      /\ pathCost(q) = SumFunctionOnSet(Along(q), 1 .. Len(q))
  BY <1>1, CostIsSum
<1>4. /\ \A j \in 1 .. n : Along(p)[j] = weight[p[j]] /\ Along(p)[j] \in Nat
      /\ pathCost(p) = SumFunctionOnSet(Along(p), 1 .. n)
  BY CostIsSum
<1> HIDE DEF q, n
<1>5. Joins(Along(q), one, 1, Along(p), n)
  <2>1. \A i \in 1 .. 1 : one[i] \in Int /\ Along(q)[i] = one[i]
    BY <1>1, <1>2, <1>3
  <2>2. \A i \in 1 .. n : Along(p)[i] \in Int /\ Along(q)[1 + i] = Along(p)[i]
    BY <1>1, <1>3, <1>4
  <2> QED
    BY <1>1, <2>1, <2>2 DEF Joins
<1> HIDE DEF one
<1>6. SumFunctionOnSet(Along(q), 1 .. (1 + n)) =
         SumFunctionOnSet(one, 1 .. 1) + SumFunctionOnSet(Along(p), 1 .. n)
  <2>1. PICK m : m = 1
    OBVIOUS
  <2>2. Joins(Along(q), one, m, Along(p), n)
    BY <1>5, <2>1
  <2>3. SumFunctionOnSet(Along(q), 1 .. (m + n)) =
           SumFunctionOnSet(one, 1 .. m) + SumFunctionOnSet(Along(p), 1 .. n)
    BY <2>2, SumJoin
  <2> QED
    BY <2>1, <2>3
<1>7. SumFunctionOnSet(one, 1 .. 1) = weight[e]
  <2>1. \A i \in 1 .. (0 + 1) : one[i] \in Int
    BY <1>2 DEF one
  <2>2. one[0 + 1] = weight[e] /\ 1 .. 0 = {} /\ 0 + 1 = 1
    BY DEF one
  <2>3. SumFunctionOnSet(one, 1 .. (0 + 1)) = SumFunctionOnSet(one, 1 .. 0) + one[0 + 1]
    BY <2>1, SumNext
  <2>4. SumFunctionOnSet(one, 1 .. 0) = 0
    BY <2>2, SumEmpty
  <2> QED
    BY <1>2, <2>2, <2>3, <2>4
<1> QED
  BY <1>1, <1>3, <1>4, <1>6, <1>7 DEF q

\* One step of the walk goes to a node of lower rank.
LEMMA WalkClimbs ==
  ASSUME TypeOK, SearchInv, WalkInv, TypeOK', Walk
  PROVE  WalkInv'
<1> DEFINE e == prevEdge[at]
           n == Len(path)
<1>1. /\ at \in reached \ {src} /\ e \in Edges /\ To[e] = at /\ From[e] \in reached
      /\ From[e] \in Nodes /\ at \in Nodes /\ dist[at] \in Nat /\ dist[From[e]] \in Nat
      /\ weight[e] \in Nat /\ dist[at] >= dist[From[e]] + weight[e]
  BY DEF TypeOK, SearchInv, CostsAreWitnessed, Walk
<1>u. /\ UNCHANGED <<src, dst, weight, estimate, reached, dist, prevEdge, queue, cur, pending, phase>>
      /\ phase = "walk" /\ path' = <<e>> \o path /\ at' = From[e]
  BY <1>1 DEF Walk, args, search
<1>2. path \in Seq(Edges) /\ n \in Nat /\ (path = <<>> <=> n = 0)
  BY DEF TypeOK
<1>3. /\ Len(path') = 1 + n /\ path'[1] = e /\ path' # <<>>
      /\ \A j \in 1 .. n : path'[1 + j] = path[j]
  BY <1>1, <1>2, <1>u
<1>4. \A j \in 1 .. (1 + n) : j # 1 => j - 1 \in 1 .. n /\ path'[j] = path[j - 1]
  <2> SUFFICES ASSUME NEW j \in 1 .. (1 + n), j # 1
               PROVE  j - 1 \in 1 .. n /\ path'[j] = path[j - 1]
    OBVIOUS
  <2>1. j - 1 \in 1 .. n /\ 1 + (j - 1) = j
    BY <1>2
  <2> QED
    BY <1>3, <2>1
<1>5. PICK rank \in [Nodes -> Nat] : Ranked(rank) /\ Climbs(rank)
  BY DEF WalkInv
<1>6. /\ \A j \in 1 .. n : /\ To[path[j]] \in reached \ {src} /\ To[path[j]] \in Nodes
                           /\ rank[at] < rank[To[path[j]]]
      /\ \A j \in 1 .. (n - 1) : To[path[j]] = From[path[j + 1]]
      /\ \A i, j \in 1 .. n : i < j => rank[To[path[i]]] < rank[To[path[j]]]
      /\ path = <<>> => at = dst
      /\ path # <<>> => From[path[1]] = at /\ To[path[n]] = dst
  BY <1>5 DEF Climbs, TypeOK
<1>7. rank[From[e]] < rank[at]
  BY <1>1, <1>5 DEF Ranked
<1> HIDE DEF e, n
<1>8. \A j \in 1 .. (1 + n) : /\ To[path'[j]] \in reached \ {src} /\ To[path'[j]] \in Nodes
                              /\ rank[From[e]] < rank[To[path'[j]]]
  <2> TAKE j \in 1 .. (1 + n)
  <2>1. CASE j = 1
    BY <1>1, <1>3, <1>7, <2>1
  <2>2. CASE j # 1
    <3>1. /\ j - 1 \in 1 .. n /\ path'[j] = path[j - 1]
      BY <1>4, <2>2
    <3>2. rank[From[e]] \in Nat /\ rank[at] \in Nat /\ rank[To[path'[j]]] \in Nat
      BY <1>1, <1>6, <3>1
    <3> QED
      BY <1>6, <1>7, <3>1, <3>2
  <2> QED
    BY <2>1, <2>2
<1>9. \A j \in 1 .. n : To[path'[j]] = From[path'[j + 1]]
  <2> TAKE j \in 1 .. n
  <2>1. path'[j + 1] = path[j] /\ j \in Int /\ n \in Nat
    <3>1. j + 1 = 1 + j
      OBVIOUS
    <3> QED
      BY <1>2, <1>3, <3>1
  <2>2. CASE j = 1
    BY <1>1, <1>2, <1>3, <1>6, <2>1, <2>2
  <2>3. CASE j # 1
    <3>1. j \in 1 .. (1 + n) /\ j - 1 \in 1 .. (n - 1) /\ (j - 1) + 1 = j
      BY <1>2, <2>3
    <3> QED
      BY <1>4, <1>6, <2>1, <2>3, <3>1
  <2> QED
    BY <2>2, <2>3
<1>10. \A i, j \in 1 .. (1 + n) : i < j => rank[To[path'[i]]] < rank[To[path'[j]]]
  <2> TAKE i, j \in 1 .. (1 + n)
  <2> HAVE i < j
  <2>1. j # 1
    BY <1>2
  <2>2. j - 1 \in 1 .. n /\ path'[j] = path[j - 1]
    BY <1>4, <2>1
  <2>3. CASE i = 1
    BY <1>1, <1>3, <1>6, <2>2, <2>3
  <2>4. CASE i # 1
    <3>1. i - 1 \in 1 .. n /\ path'[i] = path[i - 1] /\ i - 1 < j - 1
      BY <1>2, <1>4, <2>4
    <3> QED
      BY <1>6, <2>2, <3>1
  <2> QED
    BY <2>3, <2>4
<1>11. To[path'[1 + n]] = dst
  <2>1. CASE n = 0
    BY <1>1, <1>2, <1>3, <1>6, <2>1
  <2>2. CASE n # 0
    <3>1. n \in 1 .. n
      BY <1>2, <2>2
    <3> QED
      BY <1>2, <1>3, <1>6, <2>2, <3>1
  <2> QED
    BY <2>1, <2>2
<1>12. Climbs(rank)'
  <2>1. (1 + n) - 1 = n
    BY <1>2
  <2> QED
    BY <1>3, <1>8, <1>9, <1>10, <1>11, <1>u, <2>1 DEF Climbs
<1>13. Ranked(rank)' /\ PredecessorsClosed'
  <2>1. Ranked(rank)'
    BY <1>5, <1>u DEF Ranked
  <2>2. PredecessorsClosed'
    BY <1>u DEF WalkInv, PredecessorsClosed, Open
  <2> QED
    BY <2>1, <2>2
<1>14. pathCost(path)' + dist'[at'] <= dist'[dst']
  <2>1. pathCost(path)' = pathCost(path')
    BY <1>u DEF pathCost
  <2>2. pathCost(path') = weight[e] + pathCost(path)
    BY <1>1, <1>2, <1>u, PrependCost
  <2>3. pathCost(path) + dist[at] <= dist[dst] /\ dist[dst] \in Nat
    BY <1>u DEF WalkInv, TypeOK
  <2>4. pathCost(path) \in Nat
    BY <1>2, CostIsSum
  <2> QED
    BY <1>1, <1>u, <2>1, <2>2, <2>3, <2>4
<1> QED
  BY <1>12, <1>13, <1>14, <1>u DEF WalkInv

LEMMA WalkInvStep ==
    TypeOK /\ SearchInv /\ WalkInv /\ [Next]_vars /\ TypeOK' => WalkInv'
<1> SUFFICES ASSUME TypeOK, SearchInv, WalkInv, [Next]_vars, TypeOK' PROVE WalkInv'
  OBVIOUS
<1>1. ASSUME NEW e \in Edges, Relax(e) PROVE WalkInv'
  <2>1. CASE Improves(e)
    BY <1>1, <2>1, ImprovingStep
  <2>2. CASE ~Improves(e)
    <3>1. UNCHANGED <<src, dst, weight, estimate, phase, reached, dist, prevEdge, queue, at, path>>
          /\ phase = "relax"
      BY <1>1, <2>2 DEF Relax, args, search
    <3>2. \A v \in Nodes : Open(v)' => Open(v)
      BY <3>1 DEF Open
    <3> QED
      BY <3>1, <3>2, QuietStep
  <2> QED
    BY <2>1, <2>2
<1>2. CASE DropStale \/ SettleDestination \/ Expand
  <2>1. /\ UNCHANGED <<src, dst, weight, estimate, reached, dist, prevEdge, at, path>>
        /\ phase = "search" /\ phase' \in {"search", "walk", "relax"}
        /\ queue' \subseteq queue
    BY <1>2 DEF DropStale, SettleDestination, Expand, args
  <2>2. \A v \in Nodes : Open(v)' => Open(v)
    BY <2>1 DEF Open
  <2> QED
    BY <2>1, <2>2, QuietStep
<1>3. CASE Expanded \/ Exhausted \/ Arrive \/ UNCHANGED vars
  <2>1. /\ UNCHANGED <<src, dst, weight, estimate, reached, dist, prevEdge, queue, at, path>>
        /\ phase' \in {"search", "relax", "none"} => phase \in {"search", "relax", "none"}
        /\ phase' = "found" => at = src
    BY <1>3 DEF Expanded, Exhausted, Arrive, vars, args, search, WalkInv
  <2>2. \A v \in Nodes : Open(v)' => Open(v)
    BY <2>1 DEF Open
  <2> QED
    BY <2>1, <2>2, QuietStep
<1> QED
  BY <1>1, <1>2, <1>3, WalkClimbs DEF Next, Step, Returned

\* What the call returns is right on every graph, for every weight function and
\* every consistent heuristic: a path that enters no node twice, whose cost is
\* the cost reported and which no other path undercuts, or "not found" for a
\* pair that no path joins.
THEOREM AnswerAlwaysOptimal == Spec => []AnswerIsOptimal
<1>1. Init => WalkInv /\ PotentialsBound
  BY InitWalks, BoundInit
<1>2. TypeOK /\ SearchInv /\ TypeOK' /\ WalkInv /\ PotentialsBound /\ [Next]_vars
        => WalkInv' /\ PotentialsBound'
  BY WalkInvStep, BoundStep
<1>3. TypeOK /\ SearchInv /\ WalkInv /\ PotentialsBound /\ (phase = "none" => CutOff)
        => AnswerIsOptimal
  <2> SUFFICES ASSUME TypeOK, SearchInv, WalkInv, PotentialsBound, phase = "none" => CutOff
               PROVE  AnswerIsOptimal
    OBVIOUS
  <2>1. ASSUME phase = "found", src # dst
        PROVE  /\ path \in PathsBetween(src, dst) /\ pathCost(path) = dist[dst]
               /\ \A p \in PathsBetween(src, dst) : dist[dst] <= pathCost(p)
    <3>1. PICK rank \in [Nodes -> Nat] : Climbs(rank)
      BY DEF WalkInv
    <3>2. at = src /\ dist[src] = 0 /\ dist[dst] \in Nat /\ path \in Seq(Edges) /\ Len(path) \in Nat
      BY <2>1 DEF WalkInv, SearchInv, TypeOK
    <3>3. path # <<>> /\ From[path[1]] = src /\ To[path[Len(path)]] = dst
      BY <2>1, <3>1, <3>2 DEF Climbs
    <3>4. \A j \in 1 .. Len(path) : To[path[j]] # src /\ rank[To[path[j]]] \in Nat
      BY <3>1 DEF Climbs, TypeOK
    <3>5. \A i, j \in 1 .. Len(path) : To[path[i]] = To[path[j]] => i = j
      <4> TAKE i, j \in 1 .. Len(path)
      <4> HAVE To[path[i]] = To[path[j]]
      <4>1. ~(i < j) /\ ~(j < i)
        BY <3>1, <3>4 DEF Climbs
      <4> QED
        BY <4>1
    <3>6. IsSimple(path)
      BY <3>1, <3>2, <3>3, <3>4, <3>5 DEF IsSimple, Climbs
    <3>7. path \in PathsBetween(src, dst)
      BY <3>3, <3>6, PathIs
    <3>8. \A p \in PathsBetween(src, dst) : dist[dst] <= pathCost(p)
      <4>1. PICK phi \in Potentials : phi[dst] = dist[dst]
        BY <2>1, SettledCostIsAttained
      <4> QED
        BY <2>1, <4>1, PotentialBoundsPath
    <3>9. pathCost(path) <= dist[dst] /\ pathCost(path) \in Nat
      <4>1. pathCost(path) \in Nat
        BY <3>2, CostIsSum
      <4> QED
        BY <2>1, <3>2, <4>1 DEF WalkInv
    <3> QED
      BY <3>2, <3>7, <3>8, <3>9
  <2>2. phase = "none" => PathsBetween(src, dst) = {}
    BY NoPathOutOfCut
  <2> QED
    BY <2>1, <2>2 DEF AnswerIsOptimal
<1> QED
  BY <1>1, <1>2, <1>3, InvariantHolds, NoneOnlyWhenCutOff, PTL DEF Spec
=============================================================================
