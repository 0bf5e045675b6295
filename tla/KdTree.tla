------------------------------- MODULE KdTree -------------------------------
(***************************************************************************)
(* The k-d tree behind NearestNode (internal/graph/kdtree.go): its build by *)
(* medians, and the branch-and-bound search of one query after another.     *)
(*                                                                          *)
(* Degrees are integers, and sines and cosines are tables.  The code's      *)
(* distances grow with the haversine term h = sin2(dlat/2) + cos.cos.       *)
(* sin2(dlon/2), so h, scaled to integers, stands for them.  A node of the  *)
(* tree is named by the set of points below it, and a pending recursive     *)
(* call of search by that set and the bound it must beat.                   *)
(***************************************************************************)
EXTENDS Integers, Sequences, FiniteSets

CONSTANTS
    Points,         \* the indexed positions: the nodes of the graph
    Lat, Lon,       \* their coordinates, in degrees
    Queries,        \* the coordinates asked for, as [lat, lon]
    Span,           \* no angle in the model exceeds it
    SinSq,          \* angle -> sin^2 of its half
    Cosine,         \* latitude -> cosine; Cosine[0] is the unit
    NoPoint         \* bestIdx's -1

Abs(x) == IF x < 0 THEN -x ELSE x

Angle == 0 .. Span

ASSUME KdTreeAssumption ==
    /\ IsFiniteSet(Points) /\ Points # {} /\ NoPoint \notin Points
    /\ Lat \in [Points -> Int] /\ Lon \in [Points -> Int]
    /\ Queries \subseteq [lat : Int, lon : Int]
    /\ Span \in Nat
    /\ SinSq \in [Angle -> Nat] /\ Cosine \in [Angle -> Nat]
    /\ \A a, b \in Angle : a <= b => SinSq[a] <= SinSq[b] /\ Cosine[b] <= Cosine[a]
    /\ \A p \in Points, q \in Queries :
          /\ Abs(Lat[p]) \in Angle /\ Abs(q.lat) \in Angle
          /\ Abs(Lat[p] - q.lat) \in Angle /\ Abs(Lon[p] - q.lon) \in Angle

VARIABLES
    maxAbsLat,      \* the largest |latitude| of a point
    ranges,         \* the point sets still to be split, with their axis
    tree,           \* point set -> its node
    query,          \* what nearest is asked
    stack,          \* the calls of search still to be made, the next one first
    best            \* bestIdx

kdVars == <<maxAbsLat, ranges, tree, query, stack, best>>

coord(p, axis) == IF axis = 0 THEN Lat[p] ELSE Lon[p]

\* haversine, up to the monotone map from h to meters.
h(q, p) ==
    Cosine[0] * Cosine[0] * SinSq[Abs(Lat[p] - q.lat)]
        + Cosine[Abs(q.lat)] * Cosine[Abs(Lat[p])] * SinSq[Abs(Lon[p] - q.lon)]

\* newKDTree: the latitude bound, and the whole range left to build.
KdInit ==
    /\ maxAbsLat \in {Abs(Lat[p]) : p \in Points}
    /\ \A p \in Points : Abs(Lat[p]) <= maxAbsLat
    /\ ranges = {[pts |-> Points, axis |-> 0]}
    /\ tree = [S \in {} |-> S]
    /\ query \in Queries /\ stack = <<>> /\ best = NoPoint

\* The sort of build leaves equal coordinates in any order, so a point equal to
\* the median may be on either side of it.
IsSplit(r, p, left) ==
    /\ p \in r.pts /\ left \subseteq r.pts \ {p}
    /\ Cardinality(left) = Cardinality(r.pts) \div 2
    /\ \A l \in left : coord(l, r.axis) <= coord(p, r.axis)
    /\ \A g \in r.pts \ (left \cup {p}) : coord(p, r.axis) <= coord(g, r.axis)

Build ==
    \E r \in ranges : \E p \in r.pts, left \in SUBSET r.pts :
        LET right == r.pts \ (left \cup {p}) IN
        /\ IsSplit(r, p, left)
        /\ tree' = [S \in DOMAIN tree \cup {r.pts} |->
                       IF S = r.pts
                       THEN [point |-> p, axis |-> r.axis, left |-> left, right |-> right]
                       ELSE tree[S]]
        /\ ranges' = (ranges \ {r}) \cup
                     {[pts |-> S, axis |-> 1 - r.axis] : S \in {left, right} \ {{}}}
        /\ UNCHANGED <<maxAbsLat, query, stack, best>>

Built == ranges = {}

\* nearest: the search starts at the root with nothing found.
Ask(q) ==
    /\ Built /\ stack = <<>>
    /\ query' = q
    /\ best' = NoPoint
    /\ stack' = <<[pts |-> Points, bound |-> -1]>>
    /\ UNCHANGED <<maxAbsLat, ranges, tree>>

\* (Mutant: the latitude of the query is left out of the cosine.)
lonCosOfTree == Cosine[maxAbsLat]

lonCos == Cosine[IF maxAbsLat < Abs(query.lat) THEN Abs(query.lat) ELSE maxAbsLat]

\* A bound from below on h beyond the splitting line of a node, gap away.
axisLowerBound(axis, gap) ==
    IF axis = 0 THEN Cosine[0] * Cosine[0] * SinSq[Abs(gap)]
                ELSE lonCos * lonCos * SinSq[Abs(gap)]

Beats(value, found) == found # NoPoint => value < h(query, found)

\* The next call is on an empty range, or lies beyond a line that is too far.
Prune ==
    /\ stack # <<>>
    /\ \/ Head(stack).pts = {}
       \/ ~Beats(Head(stack).bound, best)
    /\ stack' = Tail(stack)
    /\ UNCHANGED <<maxAbsLat, ranges, tree, query, best>>

\* The point of the node is compared, then the near side is searched, and the far
\* side only if its line is then still within the best distance.
Visit ==
    /\ stack # <<>> /\ Head(stack).pts # {}
    /\ Beats(Head(stack).bound, best)
    /\ LET node == tree[Head(stack).pts]
           gap == (IF node.axis = 0 THEN query.lat ELSE query.lon) - coord(node.point, node.axis)
           near == IF gap > 0 THEN node.right ELSE node.left
           far == IF gap > 0 THEN node.left ELSE node.right
       IN /\ best' = IF Beats(h(query, node.point), best) THEN node.point ELSE best
          /\ stack' = <<[pts |-> near, bound |-> -1],
                        [pts |-> far, bound |-> axisLowerBound(node.axis, gap)]>> \o Tail(stack)
    /\ UNCHANGED <<maxAbsLat, ranges, tree, query>>

KdNext == Build \/ (\E q \in Queries : Ask(q)) \/ Prune \/ Visit

KdSpec == KdInit /\ [][KdNext]_kdVars

-----------------------------------------------------------------------------
\* What NearestNode answers is a point that no other undercuts, wherever the
\* query lies and however the median ties fell when the tree was built: pruning
\* by one axis at a time never loses the nearest node.
NearestIsNearest ==
    stack = <<>> /\ best # NoPoint =>
        \A p \in Points : h(query, best) <= h(query, p)

(* The inductive invariant behind it. *)

NodeOf(S, n) ==
    /\ n.axis \in {0, 1} /\ n.point \in S
    /\ n.left \subseteq S /\ n.right \subseteq S
    /\ S = {n.point} \cup n.left \cup n.right
    /\ \A l \in n.left : coord(l, n.axis) <= coord(n.point, n.axis)
    /\ \A g \in n.right : coord(n.point, n.axis) <= coord(g, n.axis)

Splittable(S) == S = {} \/ S \in DOMAIN tree \/ \E r \in ranges : r.pts = S

TreeInv ==
    /\ maxAbsLat \in Angle /\ \A p \in Points : Abs(Lat[p]) <= maxAbsLat
    /\ ranges \subseteq [pts : SUBSET Points, axis : {0, 1}]
    /\ DOMAIN tree \subseteq SUBSET Points
    /\ \A S \in DOMAIN tree :
          NodeOf(S, tree[S]) /\ Splittable(tree[S].left) /\ Splittable(tree[S].right)
    /\ Splittable(Points)

\* Every point is beaten by the best so far or lies in a call still to be made,
\* and the bound of a call holds for every point of its range.
SearchInv ==
    /\ query \in Queries /\ best \in Points \cup {NoPoint}
    /\ stack # <<>> => Built
    /\ stack \in Seq([pts : SUBSET Points, bound : Int])
    /\ \A i \in DOMAIN stack :
          /\ stack[i].pts = {} \/ stack[i].pts \in DOMAIN tree
          /\ \A p \in stack[i].pts : stack[i].bound <= h(query, p)
    /\ \A p \in Points :
          \/ best # NoPoint /\ h(query, best) <= h(query, p)
          \/ \E i \in DOMAIN stack : p \in stack[i].pts
          \/ stack = <<>> /\ best = NoPoint

KdInv == TreeInv /\ SearchInv
=============================================================================
