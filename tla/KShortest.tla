----------------------------- MODULE KShortest -----------------------------
(***************************************************************************)
(* kShortestPaths (internal/routing/kshortest.go): Yen's algorithm, one     *)
(* spur search a step.  The candidate heap orders by cost and then by order *)
(* of insertion, so it is a sequence here, from which a pop takes the first *)
(* path of least cost.  seenCandidate is never pruned.                      *)
(***************************************************************************)
EXTENDS RoadGraph

CONSTANTS
    K,              \* how many paths are asked for
    FreeFlow        \* edge -> its cost without load, the weight multipath uses

ASSUME KShortestAssumption == K \in Nat \ {0} /\ FreeFlow \in [Edges -> Nat]

VARIABLES
    kphase,         \* "off", "first", "spur", "done"
    kpair,          \* [src, dst]
    accepted,       \* the paths found, cheapest first, as [edges, cost]
    candidates,     \* the heap
    seen,           \* seenCandidate
    spurIndex,      \* how far the deviations of the last path have come
    rootCost        \* the cost of its edges before spurIndex

kVars == <<kphase, kpair, accepted, candidates, seen, spurIndex, rootCost>>

KInit ==
    /\ kphase = "off" /\ kpair \in [src : Nodes, dst : Nodes]
    /\ accepted = <<>> /\ candidates = <<>> /\ seen = {}
    /\ spurIndex = 0 /\ rootCost = 0

pathOf(edges) == [edges |-> edges, cost |-> Cost(edges, FreeFlow)]

\* The call; a pair of equal nodes has the empty path and no other.
KCall(pair) ==
    /\ kphase' = IF pair.src = pair.dst THEN "done" ELSE "first"
    /\ kpair' = pair
    /\ accepted' = IF pair.src = pair.dst THEN <<pathOf(<<>>)>> ELSE <<>>
    /\ candidates' = <<>> /\ seen' = {}
    /\ spurIndex' = 0 /\ rootCost' = 0

KFirst ==
    /\ kphase = "first"
    /\ LET found == Cheapest(kpair.src, kpair.dst, FreeFlow, {}) IN
       \/ /\ found = {}
          /\ kphase' = "done" /\ UNCHANGED <<accepted, seen>>
       \/ \E p \in found :
             /\ accepted' = <<pathOf(p)>> /\ seen' = {p}
             /\ kphase' = IF K = 1 THEN "done" ELSE "spur"
    /\ UNCHANGED <<kpair, candidates, spurIndex, rootCost>>

prev == accepted[Len(accepted)].edges

rootEdges == SubSeq(prev, 1, spurIndex)

\* (Mutant: only the last path's own continuation is masked.)
maskedEdgesOfLast == {prev[spurIndex + 1]}

\* The continuations that accepted paths with this root take.
maskedEdges ==
    {accepted[i].edges[spurIndex + 1] : i \in
        {j \in DOMAIN accepted : /\ Len(accepted[j].edges) > spurIndex
                                 /\ SubSeq(accepted[j].edges, 1, spurIndex) = rootEdges}}

\* The edges that leave a node of the root.
edgesOfMaskedNodes == {e \in Edges : From[e] \in {From[r] : r \in Range(rootEdges)}}

\* The best deviation from prev at spurIndex, if there is one, is a candidate
\* unless it has been one before.
KSpur ==
    /\ kphase = "spur" /\ spurIndex < Len(prev)
    /\ LET spurs == Cheapest(From[prev[spurIndex + 1]], kpair.dst, FreeFlow,
                             maskedEdges \cup edgesOfMaskedNodes)
       IN \/ spurs = {} /\ UNCHANGED <<candidates, seen>>
          \/ \E spur \in spurs :
                LET total == rootEdges \o spur IN
                IF total \in seen THEN UNCHANGED <<candidates, seen>>
                ELSE /\ seen' = seen \cup {total}
                     /\ candidates' = Append(candidates,
                            [edges |-> total, cost |-> rootCost + Cost(spur, FreeFlow)])
    /\ spurIndex' = spurIndex + 1
    /\ rootCost' = rootCost + FreeFlow[prev[spurIndex + 1]]
    /\ UNCHANGED <<kphase, kpair, accepted>>

\* The heap's minimum; candidateHeap.Less.
IsBest(i) == \A j \in DOMAIN candidates :
    \/ candidates[i].cost < candidates[j].cost
    \/ candidates[i].cost = candidates[j].cost /\ i <= j

PopBest ==
    \E i \in DOMAIN candidates :
        /\ IsBest(i)
        /\ accepted' = Append(accepted, candidates[i])
        /\ candidates' = SubSeq(candidates, 1, i - 1) \o SubSeq(candidates, i + 1, Len(candidates))
        /\ kphase' = IF Len(accepted) + 1 = K THEN "done" ELSE "spur"

\* (Mutant: the round without a candidate does not end the loop.)
KAcceptNoBreak ==
    /\ kphase = "spur" /\ spurIndex = Len(prev)
    /\ (candidates = <<>> /\ UNCHANGED <<kphase, accepted, candidates>>) \/ PopBest
    /\ spurIndex' = 0 /\ rootCost' = 0
    /\ UNCHANGED <<kpair, seen>>

KAccept ==
    /\ kphase = "spur" /\ spurIndex = Len(prev)
    /\ (candidates = <<>> /\ kphase' = "done" /\ UNCHANGED <<accepted, candidates>>) \/ PopBest
    /\ spurIndex' = 0 /\ rootCost' = 0
    /\ UNCHANGED <<kpair, seen>>

KNext == KFirst \/ KSpur \/ KAccept

-----------------------------------------------------------------------------
\* At every point the accepted paths are distinct simple paths between the pair
\* with their true costs, and no path left out is cheaper than the last of them;
\* when the call returns, fewer than K means that there are no more.  The masks
\* neither let a loop in nor hide a path, whatever ties the searches break.
CheapestPathsInOrder ==
    LET all == SimplePaths(kpair.src, kpair.dst)
        taken == {accepted[i].edges : i \in DOMAIN accepted}
    IN kphase # "off" =>
        /\ taken \subseteq all /\ Cardinality(taken) = Len(accepted)
        /\ \A i \in DOMAIN accepted :
              /\ accepted[i].cost = Cost(accepted[i].edges, FreeFlow)
              /\ \A p \in all \ {accepted[j].edges : j \in 1 .. (i - 1)} :
                    accepted[i].cost <= Cost(p, FreeFlow)
        /\ kphase = "done" => Len(accepted) = K \/ taken = all
=============================================================================
