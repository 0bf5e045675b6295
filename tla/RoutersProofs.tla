--------------------------- MODULE RoutersProofs ---------------------------
(***************************************************************************)
(* Proofs about the routers, for every graph, set of positions, batch and   *)
(* feed.  In order: the search of the k-d tree is exact; the congestion     *)
(* store reads as the map of what was written to it, so that every call     *)
(* sees one load; Yen's algorithm finds the cheapest paths in order,        *)
(* because a path that leaves the accepted ones where a spur search has     *)
(* been made costs no less than some candidate; and the tallies of          *)
(* multipath and the flows of a batch are those of the routes.              *)
(***************************************************************************)
EXTENDS Routers, FoldLemmas, SequenceTheorems, TLAPS

-----------------------------------------------------------------------------
(* The k-d tree (KdTree).  The pruning is sound because a bound of a call   *)
(* holds for every point of its range (BoundHolds), which is all that is    *)
(* needed of the sines and cosines: one grows with the angle, the other     *)
(* falls.                                                                   *)

\* Products of naturals grow with their factors.
LEMMA ProductLeq ==
  ASSUME NEW a \in Nat, NEW b \in Nat, NEW c \in Nat, NEW d \in Nat, a <= b, c <= d
  PROVE  a * c <= b * d /\ a * c \in Nat
<1>1. PICK e \in Nat : b = a + e
  <2>1. b - a \in Nat /\ b = a + (b - a)
    OBVIOUS
  <2> QED
    BY <2>1
<1>2. PICK f \in Nat : d = c + f
  <2>1. d - c \in Nat /\ d = c + (d - c)
    OBVIOUS
  <2> QED
    BY <2>1
<1>3. b * d = a * c + a * f + e * c + e * f
  BY <1>1, <1>2
<1>4. a * c \in Nat /\ a * f \in Nat /\ e * c \in Nat /\ e * f \in Nat
  OBVIOUS
<1> QED
  BY <1>3, <1>4

\* The angles between a query and a point are in the tables.
LEMMA Angles ==
  ASSUME NEW q \in Queries, NEW p \in Points
  PROVE  /\ Lat[p] \in Int /\ Lon[p] \in Int /\ q.lat \in Int /\ q.lon \in Int
         /\ Abs(Lat[p]) \in Angle /\ Abs(q.lat) \in Angle
         /\ Abs(Lat[p] - q.lat) \in Angle /\ Abs(Lon[p] - q.lon) \in Angle
         /\ SinSq[Abs(Lat[p] - q.lat)] \in Nat /\ SinSq[Abs(Lon[p] - q.lon)] \in Nat
         /\ Cosine[Abs(Lat[p])] \in Nat /\ Cosine[Abs(q.lat)] \in Nat /\ Cosine[0] \in Nat
<1>1. 0 \in Angle
  BY KdTreeAssumption DEF Angle
<1> QED
  BY <1>1, KdTreeAssumption

\* The two terms of a distance.
LEMMA Distances ==
  ASSUME NEW q \in Queries, NEW p \in Points
  PROVE  /\ h(q, p) \in Nat
         /\ Cosine[0] * Cosine[0] * SinSq[Abs(Lat[p] - q.lat)] <= h(q, p)
         /\ Cosine[Abs(q.lat)] * Cosine[Abs(Lat[p])] * SinSq[Abs(Lon[p] - q.lon)] <= h(q, p)
<1> DEFINE meridian == Cosine[0] * Cosine[0] * SinSq[Abs(Lat[p] - q.lat)]
           parallel == Cosine[Abs(q.lat)] * Cosine[Abs(Lat[p])] * SinSq[Abs(Lon[p] - q.lon)]
<1>1. meridian \in Nat
  <2>1. Cosine[0] * Cosine[0] \in Nat
    BY Angles, ProductLeq
  <2> QED
    BY <2>1, Angles, ProductLeq
<1>2. parallel \in Nat
  <2>1. Cosine[Abs(q.lat)] * Cosine[Abs(Lat[p])] \in Nat
    BY Angles, ProductLeq
  <2> QED
    BY <2>1, Angles, ProductLeq
<1>3. h(q, p) = meridian + parallel
  BY DEF h
<1> HIDE DEF meridian, parallel
<1>4. h(q, p) \in Nat /\ meridian <= h(q, p) /\ parallel <= h(q, p)
  BY <1>1, <1>2, <1>3
<1> QED
  BY <1>4 DEF meridian, parallel

\* A line no farther than the point, along an axis, bounds its distance from below.
LEMMA BoundHolds ==
  ASSUME TreeInv, query \in Queries, NEW p \in Points, NEW axis \in {0, 1}, NEW gap \in Int,
         Abs(gap) <= Abs(coord(p, axis) - (IF axis = 0 THEN query.lat ELSE query.lon))
  PROVE  axisLowerBound(axis, gap) \in Int /\ axisLowerBound(axis, gap) <= h(query, p)
<1> DEFINE away == Abs(coord(p, axis) - (IF axis = 0 THEN query.lat ELSE query.lon))
<1>1. away \in Angle
  BY Angles DEF coord
<1>2. Abs(gap) \in Angle
  <2>1. Abs(gap) \in Nat
    BY DEF Abs
  <2>2. Abs(gap) <= away
    OBVIOUS
  <2> HIDE DEF away
  <2> QED
    BY <1>1, <2>1, <2>2, KdTreeAssumption DEF Angle
<1>3. SinSq[Abs(gap)] <= SinSq[away] /\ SinSq[Abs(gap)] \in Nat /\ SinSq[away] \in Nat
  BY <1>1, <1>2, KdTreeAssumption
<1>4. CASE axis = 0
  <2>1. away = Abs(Lat[p] - query.lat)
    BY <1>4 DEF coord
  <2>2. Cosine[0] * Cosine[0] \in Nat
    BY Angles, ProductLeq
  <2>3. /\ Cosine[0] * Cosine[0] * SinSq[Abs(gap)] <= Cosine[0] * Cosine[0] * SinSq[away]
        /\ Cosine[0] * Cosine[0] * SinSq[Abs(gap)] \in Nat
    BY <1>3, <2>2, ProductLeq
  <2>4. axisLowerBound(axis, gap) = Cosine[0] * Cosine[0] * SinSq[Abs(gap)]
    BY <1>4 DEF axisLowerBound
  <2>5. /\ h(query, p) \in Nat
        /\ Cosine[0] * Cosine[0] * SinSq[away] <= h(query, p)
    BY <2>1, Distances
  <2>6. Cosine[0] * Cosine[0] * SinSq[away] \in Nat
    BY <1>3, <2>2, ProductLeq
  <2> QED
    BY <2>3, <2>4, <2>5, <2>6
<1>5. CASE axis = 1
  <2>1. away = Abs(Lon[p] - query.lon)
    BY <1>5 DEF coord
  <2>2. /\ lonCos \in Nat
        /\ lonCos <= Cosine[Abs(query.lat)]
        /\ lonCos <= Cosine[Abs(Lat[p])]
    <3>1. Abs(Lat[p]) <= maxAbsLat /\ maxAbsLat \in Angle
      BY DEF TreeInv
    <3>2. PICK m \in Angle : /\ lonCos = Cosine[m]
                             /\ Abs(query.lat) <= m /\ Abs(Lat[p]) <= m
      <4>1. CASE maxAbsLat < Abs(query.lat)
        BY <4>1, <3>1, Angles DEF lonCos, Angle
      <4>2. CASE ~(maxAbsLat < Abs(query.lat))
        BY <4>2, <3>1, Angles DEF lonCos, Angle
      <4> QED
        BY <4>1, <4>2
    <3> QED
      BY <3>2, Angles, KdTreeAssumption
  <2>3. /\ lonCos * lonCos <= Cosine[Abs(query.lat)] * Cosine[Abs(Lat[p])]
        /\ lonCos * lonCos \in Nat
    BY <2>2, Angles, ProductLeq
  <2>4. Cosine[Abs(query.lat)] * Cosine[Abs(Lat[p])] \in Nat
    BY Angles, ProductLeq
  <2>5. /\ lonCos * lonCos * SinSq[Abs(gap)]
             <= Cosine[Abs(query.lat)] * Cosine[Abs(Lat[p])] * SinSq[away]
        /\ lonCos * lonCos * SinSq[Abs(gap)] \in Nat
    BY <1>3, <2>3, <2>4, ProductLeq
  <2>6. Cosine[Abs(query.lat)] * Cosine[Abs(Lat[p])] * SinSq[away] \in Nat
    BY <1>3, <2>4, ProductLeq
  <2>7. axisLowerBound(axis, gap) = lonCos * lonCos * SinSq[Abs(gap)]
    BY <1>5 DEF axisLowerBound
  <2>8. /\ h(query, p) \in Nat
        /\ Cosine[Abs(query.lat)] * Cosine[Abs(Lat[p])] * SinSq[away] <= h(query, p)
    BY <2>1, Distances
  <2> QED
    BY <2>5, <2>6, <2>7, <2>8
<1> QED
  BY <1>4, <1>5

-----------------------------------------------------------------------------
LEMMA InitInv == KdInit => KdInv
<1> SUFFICES ASSUME KdInit PROVE KdInv
  OBVIOUS
<1>1. TreeInv
  <2>1. maxAbsLat \in Angle
    <3>1. PICK p \in Points : maxAbsLat = Abs(Lat[p])
      BY DEF KdInit
    <3> QED
      BY <3>1, Angles, KdTreeAssumption DEF KdInit
  <2>2. ranges \subseteq [pts : SUBSET Points, axis : {0, 1}]
    BY DEF KdInit
  <2>3. DOMAIN tree = {}
    BY DEF KdInit
  <2>4. Splittable(Points)
    BY DEF KdInit, Splittable
  <2> QED
    BY <2>1, <2>2, <2>3, <2>4 DEF KdInit, TreeInv
<1>2. SearchInv
  BY DEF KdInit, SearchInv
<1> QED
  BY <1>1, <1>2 DEF KdInv

\* Splitting a range leaves every set of points that was to be found in the tree, or
\* in the ranges, in one of them.
LEMMA BuildKeeps == KdInv /\ Build => KdInv'
<1> SUFFICES ASSUME KdInv, Build PROVE KdInv'
  OBVIOUS
<1> USE DEF KdInv, TreeInv
<1>1. PICK r \in ranges : \E p \in r.pts, left \in SUBSET r.pts :
          LET right == r.pts \ (left \cup {p}) IN
          /\ IsSplit(r, p, left)
          /\ tree' = [S \in DOMAIN tree \cup {r.pts} |->
                         IF S = r.pts
                         THEN [point |-> p, axis |-> r.axis, left |-> left, right |-> right]
                         ELSE tree[S]]
          /\ ranges' = (ranges \ {r}) \cup
                       {[pts |-> S, axis |-> 1 - r.axis] : S \in {left, right} \ {{}}}
          /\ UNCHANGED <<maxAbsLat, query, stack, best>>
  BY DEF Build
<1>2. PICK p \in r.pts, left \in SUBSET r.pts :
          LET right == r.pts \ (left \cup {p}) IN
          /\ IsSplit(r, p, left)
          /\ tree' = [S \in DOMAIN tree \cup {r.pts} |->
                         IF S = r.pts
                         THEN [point |-> p, axis |-> r.axis, left |-> left, right |-> right]
                         ELSE tree[S]]
          /\ ranges' = (ranges \ {r}) \cup
                       {[pts |-> S, axis |-> 1 - r.axis] : S \in {left, right} \ {{}}}
          /\ UNCHANGED <<maxAbsLat, query, stack, best>>
  BY <1>1
<1> DEFINE right == r.pts \ (left \cup {p})
           node == [point |-> p, axis |-> r.axis, left |-> left, right |-> right]
<1>3. /\ r.pts \in SUBSET Points /\ r.axis \in {0, 1}
      /\ left \in SUBSET Points /\ right \in SUBSET Points
  OBVIOUS
<1>4. /\ DOMAIN tree' = DOMAIN tree \cup {r.pts}
      /\ tree'[r.pts] = node
      /\ \A S \in DOMAIN tree : S # r.pts => tree'[S] = tree[S]
  BY <1>2
<1> DEFINE Kept(S) == S = {} \/ S \in DOMAIN tree' \/ \E o \in ranges' : o.pts = S
<1>5. \A S : Splittable(S) => Kept(S)
  <2> SUFFICES ASSUME NEW S, Splittable(S) PROVE Kept(S)
    OBVIOUS
  <2>1. CASE S = {}
    BY <2>1
  <2>2. CASE S \in DOMAIN tree
    BY <2>2, <1>4
  <2>3. ASSUME NEW o \in ranges, o.pts = S PROVE Kept(S)
    <3>1. CASE o = r
      BY <3>1, <2>3, <1>4
    <3>2. CASE o # r
      <4>1. o \in ranges'
        BY <3>2, <1>2
      <4> QED
        BY <4>1, <2>3
    <3> QED
      BY <3>1, <3>2
  <2> QED
    BY <2>1, <2>2, <2>3 DEF Splittable
<1>6. Kept(left) /\ Kept(right)
  <2>1. \A S \in {left, right} : S # {} => [pts |-> S, axis |-> 1 - r.axis] \in ranges'
    BY <1>2
  <2>2. \A S \in {left, right} : S # {} => \E o \in ranges' : o.pts = S
    BY <2>1
  <2> QED
    BY <2>2
<1>7. NodeOf(r.pts, node)
  <2>1. /\ \A l \in left : coord(l, r.axis) <= coord(p, r.axis)
        /\ \A g \in right : coord(p, r.axis) <= coord(g, r.axis)
    BY <1>2 DEF IsSplit
  <2> QED
    BY <1>3, <2>1 DEF NodeOf
<1>8. \A S \in DOMAIN tree' :
         NodeOf(S, tree'[S]) /\ Kept(tree'[S].left) /\ Kept(tree'[S].right)
  <2> SUFFICES ASSUME NEW S \in DOMAIN tree'
               PROVE  NodeOf(S, tree'[S]) /\ Kept(tree'[S].left) /\ Kept(tree'[S].right)
    OBVIOUS
  <2>1. CASE S = r.pts
    <3>1. tree'[S] = node /\ node.left = left /\ node.right = right
      BY <2>1, <1>4
    <3> HIDE DEF node, right, Kept
    <3> QED
      BY <2>1, <3>1, <1>6, <1>7
  <2>2. CASE S # r.pts
    <3>1. S \in DOMAIN tree /\ tree'[S] = tree[S]
      BY <2>2, <1>4
    <3>2. NodeOf(S, tree[S]) /\ Splittable(tree[S].left) /\ Splittable(tree[S].right)
      BY <3>1
    <3> HIDE DEF Kept
    <3> QED
      BY <3>1, <3>2, <1>5
  <2> QED
    BY <2>1, <2>2
<1>9. ranges' \subseteq [pts : SUBSET Points, axis : {0, 1}]
  <2>1. 1 - r.axis \in {0, 1}
    BY <1>3
  <2> QED
    BY <1>2, <1>3, <2>1
<1>10. TreeInv'
  <2>1. Kept(Points)
    BY <1>5
  <2>2. DOMAIN tree' \subseteq SUBSET Points
    BY <1>3, <1>4
  <2>3. maxAbsLat' = maxAbsLat
    BY <1>2
  <2> QED
    BY <1>8, <1>9, <2>1, <2>2, <2>3 DEF Splittable, NodeOf, coord
<1>11. SearchInv'
  <2>1. stack = <<>> /\ stack' = stack /\ query' = query /\ best' = best
    BY <1>2 DEF SearchInv, Built
  <2>2. \A q \in Points : h(query', q) = h(query, q)
    BY <2>1
  <2> QED
    BY <2>1, <2>2 DEF SearchInv
<1> QED
  BY <1>10, <1>11

LEMMA AskKeeps == ASSUME KdInv, NEW q \in Queries, Ask(q) PROVE KdInv'
<1> USE DEF KdInv
<1>1. TreeInv'
  BY DEF Ask, TreeInv, NodeOf, Splittable, coord
<1>2. Points \in DOMAIN tree
  BY KdTreeAssumption DEF Ask, TreeInv, Splittable, Built
<1>3. /\ query' = q /\ best' = NoPoint /\ tree' = tree /\ ranges' = ranges
      /\ stack' = <<[pts |-> Points, bound |-> -1]>>
      /\ Built
  BY DEF Ask
<1>4. DOMAIN stack' = {1} /\ stack'[1].pts = Points /\ stack'[1].bound = -1
  BY <1>3
<1>5. \A p \in Points : -1 <= h(q, p)
  BY Distances
<1>6. SearchInv'
  BY <1>2, <1>3, <1>4, <1>5 DEF SearchInv, Built
<1> QED
  BY <1>1, <1>6

\* The shape of a stack: its first call, and the others one place on.
LEMMA Popped ==
  ASSUME NEW T, NEW s \in Seq(T), s # <<>>
  PROVE  /\ Tail(s) \in Seq(T) /\ Len(s) \in Nat /\ 1 \in DOMAIN s /\ Head(s) = s[1] /\ Head(s) \in T
         /\ \A i \in DOMAIN Tail(s) : i + 1 \in DOMAIN s /\ Tail(s)[i] = s[i + 1]
         /\ \A i \in DOMAIN s : i # 1 => i - 1 \in DOMAIN Tail(s) /\ Tail(s)[i - 1] = s[i]
OBVIOUS

\* Two calls put before a stack of calls.
LEMMA Pushed ==
  ASSUME NEW T, NEW s \in Seq(T), NEW a \in T, NEW b \in T
  PROVE  /\ <<a, b>> \o s \in Seq(T) /\ 1 \in DOMAIN (<<a, b>> \o s) /\ 2 \in DOMAIN (<<a, b>> \o s)
         /\ (<<a, b>> \o s)[1] = a /\ (<<a, b>> \o s)[2] = b
         /\ \A i \in DOMAIN (<<a, b>> \o s) :
               i = 1 \/ i = 2 \/ (i - 2 \in DOMAIN s /\ (<<a, b>> \o s)[i] = s[i - 2])
         /\ \A i \in DOMAIN s : i + 2 \in DOMAIN (<<a, b>> \o s) /\ (<<a, b>> \o s)[i + 2] = s[i]
<1> DEFINE two == <<a, b>>
           all == two \o s
<1>1. two \in Seq(T) /\ Len(two) = 2 /\ two[1] = a /\ two[2] = b
  OBVIOUS
<1> HIDE DEF two
<1>2. /\ all \in Seq(T) /\ Len(s) \in Nat /\ DOMAIN s = 1 .. Len(s) /\ Len(all) = 2 + Len(s)
      /\ DOMAIN all = 1 .. 2 + Len(s)
  <2>1. all \in Seq(T) /\ Len(s) \in Nat /\ DOMAIN s = 1 .. Len(s)
    BY <1>1
  <2>2. Len(all) = 2 + Len(s)
    <3>1. s \in Seq(T) /\ two \in Seq(T) /\ Len(two) = 2
      BY <1>1
    <3>2. Len(two \o s) = Len(two) + Len(s)
      BY <3>1, ConcatProperties
    <3> QED
      BY <3>1, <3>2
  <2>3. DOMAIN all = 1 .. Len(all)
    BY <2>1
  <2> QED
    BY <2>1, <2>2, <2>3
<1>3. \A i \in 1 .. 2 + Len(s) : all[i] = IF i <= 2 THEN two[i] ELSE s[i - 2]
  BY <1>1, <1>2
<1> HIDE DEF all
<1>4. all[1] = a /\ all[2] = b /\ 1 \in DOMAIN all /\ 2 \in DOMAIN all
  BY <1>1, <1>2, <1>3
<1>5. \A i \in DOMAIN all : i = 1 \/ i = 2 \/ (i - 2 \in DOMAIN s /\ all[i] = s[i - 2])
  BY <1>2, <1>3
<1>6. \A i \in DOMAIN s : i + 2 \in DOMAIN all /\ all[i + 2] = s[i]
  BY <1>2, <1>3
<1> QED
  BY <1>2, <1>4, <1>5, <1>6 DEF all, two

\* A call that is passed over has no point that beats the best so far.
LEMMA PruneKeeps == KdInv /\ Prune => KdInv'
<1> SUFFICES ASSUME KdInv, Prune PROVE KdInv'
  OBVIOUS
<1> USE DEF KdInv
<1>1. TreeInv'
  BY DEF Prune, TreeInv, NodeOf, Splittable, coord
<1> DEFINE T == [pts : SUBSET Points, bound : Int]
<1>2. /\ stack \in Seq(T) /\ stack # <<>> /\ stack' = Tail(stack) /\ query' = query
      /\ best' = best /\ tree' = tree /\ ranges' = ranges /\ Built
  BY DEF Prune, SearchInv
<1> HIDE DEF T
<1>3. /\ stack' \in Seq(T) /\ Head(stack) = stack[1] /\ 1 \in DOMAIN stack /\ Head(stack) \in T
      /\ \A i \in DOMAIN stack' : i + 1 \in DOMAIN stack /\ stack'[i] = stack[i + 1]
      /\ \A i \in DOMAIN stack : i # 1 => i - 1 \in DOMAIN stack' /\ stack'[i - 1] = stack[i]
  BY <1>2, Popped
<1>4. ASSUME NEW p \in stack[1].pts, p \in Points
      PROVE  best # NoPoint /\ h(query, best) <= h(query, p)
  <2>1. /\ best # NoPoint
        /\ ~(stack[1].bound < h(query, best))
    BY <1>3, <1>4 DEF Prune, Beats
  <2>2. /\ stack[1].bound <= h(query, p) /\ stack[1].bound \in Int
        /\ h(query, p) \in Nat /\ h(query, best) \in Nat
    BY <1>3, <1>4, <2>1, Distances DEF SearchInv, T
  <2> QED
    BY <2>1, <2>2
<1>5. \A p \in Points :
         \/ best # NoPoint /\ h(query, best) <= h(query, p)
         \/ \E i \in DOMAIN stack' : p \in stack'[i].pts
  <2> SUFFICES ASSUME NEW p \in Points, NEW i \in DOMAIN stack, p \in stack[i].pts
               PROVE  \/ best # NoPoint /\ h(query, best) <= h(query, p)
                      \/ \E j \in DOMAIN stack' : p \in stack'[j].pts
    BY <1>2 DEF SearchInv
  <2>1. CASE i = 1
    BY <2>1, <1>4
  <2>2. CASE i # 1
    BY <2>2, <1>3
  <2> QED
    BY <2>1, <2>2
<1>6. SearchInv'
  <2>1. stack' \in Seq([pts : SUBSET Points, bound : Int])
    BY <1>3 DEF T
  <2>2. \A i \in DOMAIN stack' :
           /\ stack'[i].pts = {} \/ stack'[i].pts \in DOMAIN tree
           /\ \A p \in stack'[i].pts : stack'[i].bound <= h(query, p)
    BY <1>3 DEF SearchInv
  <2> QED
    BY <1>2, <1>5, <2>1, <2>2 DEF SearchInv, Built
<1> QED
  BY <1>1, <1>6

\* Comparing a node's point and putting its two sides on the stack loses no point
\* below it, and the line between the sides bounds the far one.
LEMMA VisitKeeps == KdInv /\ Visit => KdInv'
<1> SUFFICES ASSUME KdInv, Visit PROVE KdInv'
  OBVIOUS
<1> USE DEF KdInv
<1>1. TreeInv'
  BY DEF Visit, TreeInv, NodeOf, Splittable, coord
<1> DEFINE T == [pts : SUBSET Points, bound : Int]
           S == Head(stack).pts
           node == tree[S]
           asked == IF node.axis = 0 THEN query.lat ELSE query.lon
           gap == asked - coord(node.point, node.axis)
           near == IF gap > 0 THEN node.right ELSE node.left
           far == IF gap > 0 THEN node.left ELSE node.right
           beyond == axisLowerBound(node.axis, gap)
<1>2. /\ stack \in Seq(T) /\ stack # <<>> /\ query' = query /\ tree' = tree
      /\ ranges' = ranges /\ Built /\ query \in Queries
  BY DEF Visit, SearchInv
<1>3. /\ best' = IF Beats(h(query, node.point), best) THEN node.point ELSE best
      /\ stack' = <<[pts |-> near, bound |-> -1], [pts |-> far, bound |-> beyond]>> \o Tail(stack)
      /\ S # {}
  BY DEF Visit
<1>4. S \in DOMAIN tree
  <2>1. 1 \in DOMAIN stack /\ Head(stack) = stack[1]
    BY <1>2
  <2> QED
    BY <2>1, <1>3 DEF SearchInv
<1>5. /\ node.axis \in {0, 1} /\ node.point \in S /\ S \subseteq Points
      /\ near \subseteq S /\ far \subseteq S /\ S = {node.point} \cup near \cup far
      /\ \A l \in node.left : coord(l, node.axis) <= coord(node.point, node.axis)
      /\ \A g \in node.right : coord(node.point, node.axis) <= coord(g, node.axis)
  BY <1>4 DEF TreeInv, NodeOf
<1>6. near \in DOMAIN tree \cup {{}} /\ far \in DOMAIN tree \cup {{}}
  BY <1>2, <1>4 DEF TreeInv, Splittable, Built
<1>7. beyond \in Int /\ \A p \in far : beyond <= h(query, p)
  <2>1. asked \in Int /\ gap \in Int /\ coord(node.point, node.axis) \in Int
    BY <1>2, <1>5, Angles DEF coord
  <2>2. ASSUME NEW p \in Points,
               Abs(gap) <= Abs(coord(p, node.axis) - asked)
        PROVE  beyond \in Int /\ beyond <= h(query, p)
    <3> HIDE DEF node, gap
    <3> QED
      BY <1>2, <1>5, <2>1, <2>2, BoundHolds
  <2>3. beyond \in Int
    <3>1. node.point \in Points /\ Abs(gap) <= Abs(coord(node.point, node.axis) - asked)
      <4>1. node.point \in Points
        BY <1>5
      <4> HIDE DEF node, asked
      <4> QED
        BY <2>1, <4>1 DEF Abs
    <3> HIDE DEF node, asked, gap, beyond
    <3> QED
      BY <2>2, <3>1
  <2>4. ASSUME NEW p \in far PROVE beyond <= h(query, p)
    <3>1. p \in Points /\ coord(p, node.axis) \in Int
      BY <1>2, <1>5, Angles DEF coord
    <3>2. CASE gap > 0
      <4>1. coord(p, node.axis) <= coord(node.point, node.axis)
        BY <1>5, <3>2
      <4>2. Abs(gap) <= Abs(coord(p, node.axis) - asked)
        <5> HIDE DEF node, asked
        <5> QED
          BY <2>1, <3>1, <3>2, <4>1 DEF Abs
      <4> QED
        BY <2>2, <3>1, <4>2
    <3>3. CASE ~(gap > 0)
      <4>1. coord(node.point, node.axis) <= coord(p, node.axis)
        BY <1>5, <3>3
      <4>2. Abs(gap) <= Abs(coord(p, node.axis) - asked)
        <5> HIDE DEF node, asked
        <5> QED
          BY <2>1, <3>1, <3>3, <4>1 DEF Abs
      <4> QED
        BY <2>2, <3>1, <4>2
    <3> QED
      BY <3>2, <3>3
  <2> QED
    BY <2>3, <2>4
<1> HIDE DEF T, S, node, near, far, beyond
<1>8. /\ best \in Points \cup {NoPoint} /\ best' \in Points /\ best' # NoPoint
      /\ h(query, best') <= h(query, node.point)
      /\ best # NoPoint => h(query, best') <= h(query, best)
  <2>1. /\ best \in Points \cup {NoPoint} /\ node.point \in Points /\ NoPoint \notin Points
        /\ h(query, node.point) \in Nat
    BY <1>2, <1>5, Distances, KdTreeAssumption DEF SearchInv
  <2>2. best # NoPoint => h(query, best) \in Nat
    BY <1>2, <2>1, Distances
  <2>3. CASE Beats(h(query, node.point), best)
    <3>1. best' = node.point
      BY <1>3, <2>3
    <3> QED
      BY <2>1, <2>2, <2>3, <3>1 DEF Beats
  <2>4. CASE ~Beats(h(query, node.point), best)
    <3>1. best' = best
      BY <1>3, <2>4
    <3> QED
      BY <2>1, <2>2, <2>4, <3>1 DEF Beats
  <2> QED
    BY <2>3, <2>4
<1>9. /\ Tail(stack) \in Seq(T) /\ Head(stack) = stack[1]
      /\ \A i \in DOMAIN Tail(stack) : i + 1 \in DOMAIN stack /\ Tail(stack)[i] = stack[i + 1]
      /\ \A i \in DOMAIN stack : i # 1 => i - 1 \in DOMAIN Tail(stack) /\ Tail(stack)[i - 1] = stack[i]
  BY <1>2, Popped
<1>10. /\ stack' \in Seq(T) /\ 1 \in DOMAIN stack' /\ 2 \in DOMAIN stack'
       /\ stack'[1] = [pts |-> near, bound |-> -1] /\ stack'[2] = [pts |-> far, bound |-> beyond]
       /\ \A i \in DOMAIN stack' : i = 1 \/ i = 2
                                   \/ (i - 2 \in DOMAIN Tail(stack) /\ stack'[i] = Tail(stack)[i - 2])
       /\ \A i \in DOMAIN Tail(stack) : i + 2 \in DOMAIN stack' /\ stack'[i + 2] = Tail(stack)[i]
  <2>1. [pts |-> near, bound |-> -1] \in T /\ [pts |-> far, bound |-> beyond] \in T
    BY <1>5, <1>7 DEF T
  <2> QED
    BY <1>3, <1>9, <2>1, Pushed
<1>11. \A i \in DOMAIN stack' :
          /\ stack'[i].pts = {} \/ stack'[i].pts \in DOMAIN tree
          /\ \A p \in stack'[i].pts : stack'[i].bound <= h(query, p)
  <2> SUFFICES ASSUME NEW i \in DOMAIN stack'
               PROVE  /\ stack'[i].pts = {} \/ stack'[i].pts \in DOMAIN tree
                      /\ \A p \in stack'[i].pts : stack'[i].bound <= h(query, p)
    OBVIOUS
  <2>1. CASE i = 1
    <3>1. \A p \in near : -1 <= h(query, p)
      BY <1>2, <1>5, Distances
    <3> QED
      BY <2>1, <3>1, <1>6, <1>10
  <2>2. CASE i = 2
    BY <2>2, <1>6, <1>7, <1>10
  <2>3. CASE i # 1 /\ i # 2
    <3>1. i - 2 \in DOMAIN Tail(stack) /\ stack'[i] = Tail(stack)[i - 2]
      BY <2>3, <1>10
    <3>2. PICK j \in DOMAIN stack : stack'[i] = stack[j]
      BY <3>1, <1>9
    <3> QED
      BY <3>2 DEF SearchInv
  <2> QED
    BY <2>1, <2>2, <2>3
<1>12. \A p \in Points :
          \/ best' # NoPoint /\ h(query, best') <= h(query, p)
          \/ \E i \in DOMAIN stack' : p \in stack'[i].pts
  <2> SUFFICES ASSUME NEW p \in Points
               PROVE  \/ best' # NoPoint /\ h(query, best') <= h(query, p)
                      \/ \E i \in DOMAIN stack' : p \in stack'[i].pts
    OBVIOUS
  <2>1. CASE best # NoPoint /\ h(query, best) <= h(query, p)
    <3>1. h(query, best) \in Nat /\ h(query, best') \in Nat /\ h(query, p) \in Nat
      BY <2>1, <1>2, <1>8, Distances
    <3> QED
      BY <2>1, <3>1, <1>8
  <2>2. ASSUME NEW i \in DOMAIN stack, p \in stack[i].pts
        PROVE  \/ best' # NoPoint /\ h(query, best') <= h(query, p)
               \/ \E j \in DOMAIN stack' : p \in stack'[j].pts
    <3>1. CASE i = 1
      <4>1. p = node.point \/ p \in near \/ p \in far
        BY <2>2, <3>1, <1>5, <1>9 DEF S
      <4> QED
        BY <4>1, <1>8, <1>10
    <3>2. CASE i # 1
      <4>1. i - 1 \in DOMAIN Tail(stack) /\ Tail(stack)[i - 1] = stack[i]
        BY <3>2, <1>9
      <4>2. PICK j \in DOMAIN stack' : stack'[j] = stack[i]
        BY <4>1, <1>10
      <4> QED
        BY <4>2, <2>2
    <3> QED
      BY <3>1, <3>2
  <2> QED
    BY <2>1, <2>2, <1>2 DEF SearchInv
<1>13. SearchInv'
  <2>1. stack' \in Seq([pts : SUBSET Points, bound : Int])
    BY <1>10 DEF T
  <2> QED
    BY <1>2, <1>8, <1>11, <1>12, <2>1 DEF SearchInv, Built
<1> QED
  BY <1>1, <1>13

-----------------------------------------------------------------------------
\* The inductive invariant: the tree splits every range by its point, and every
\* point is either no nearer than the best so far or still to be searched.
THEOREM SearchInvariant == KdSpec => []KdInv
<1>1. KdInit => KdInv
  BY InitInv
<1>2. KdInv /\ [KdNext]_kdVars => KdInv'
  <2> SUFFICES ASSUME KdInv, [KdNext]_kdVars PROVE KdInv'
    OBVIOUS
  <2>1. CASE Build
    BY <2>1, BuildKeeps
  <2>2. CASE \E q \in Queries : Ask(q)
    BY <2>2, AskKeeps
  <2>3. CASE Prune
    BY <2>3, PruneKeeps
  <2>4. CASE Visit
    BY <2>4, VisitKeeps
  <2>5. CASE UNCHANGED kdVars
    BY <2>5 DEF KdInv, TreeInv, SearchInv, NodeOf, Splittable, coord, Built, kdVars
  <2> QED
    BY <2>1, <2>2, <2>3, <2>4, <2>5 DEF KdNext
<1> QED
  BY <1>1, <1>2, PTL DEF KdSpec

\* NearestNode answers with a nearest node: an answer is no farther than any point,
\* for every set of positions, every query and every outcome of the median ties.
THEOREM NearestAlwaysNearest == KdSpec => []NearestIsNearest
<1>1. KdInv => NearestIsNearest
  <2> SUFFICES ASSUME KdInv, stack = <<>>, best # NoPoint, NEW p \in Points
               PROVE  h(query, best) <= h(query, p)
    BY DEF NearestIsNearest
  <2> QED
    BY DEF KdInv, SearchInv
<1> QED
  BY <1>1, SearchInvariant, PTL

-----------------------------------------------------------------------------
(* The load store (LoadStore).                                              *)

\* The order that LatestLoad reads messages by.
Precedes(messages, i, j) ==
    \/ messages[j].window > messages[i].window
    \/ /\ messages[j].window = messages[i].window
       /\ \/ messages[j].emit > messages[i].emit
          \/ messages[j].emit = messages[i].emit /\ j < i

Messages(feed) ==
    /\ feed \in Seq(Range(feed))
    /\ \A i \in DOMAIN feed : {feed[i].window, feed[i].emit, feed[i].count} \subseteq Int

\* What the dedup knows after n messages.
Kept(messages, n, W) ==
    /\ DOMAIN W = {messages[i].seg : i \in 1 .. n}
    /\ \A s \in DOMAIN W : \E k \in 1 .. n :
          /\ messages[k].seg = s /\ W[s] = messages[k]
          /\ \A j \in 1 .. n : messages[j].seg = s => ~Precedes(messages, k, j)

Receive(before, m) ==
    IF m.seg \notin DOMAIN before \/ Later(m, before[m.seg])
    THEN [s \in DOMAIN before \cup {m.seg} |-> IF s = m.seg THEN m ELSE before[s]]
    ELSE before

LEMMA ReceiveKeeps ==
  ASSUME NEW messages, Messages(messages), NEW n \in 1 .. Len(messages), NEW W,
         Kept(messages, n - 1, W)
  PROVE  Kept(messages, n, Receive(W, messages[n]))
<1> DEFINE m == messages[n]
           V == Receive(W, m)
<1>0. /\ Len(messages) \in Nat /\ DOMAIN messages = 1 .. Len(messages)
      /\ \A i \in 1 .. n : i \in DOMAIN messages /\ messages[i].window \in Int /\ messages[i].emit \in Int
      /\ \A i \in 1 .. n : i = n \/ i \in 1 .. (n - 1)
      /\ \A i \in 1 .. (n - 1) : i \in 1 .. n /\ i < n
  BY DEF Messages
<1>1. CASE m.seg \notin DOMAIN W
  <2>1. V = [s \in DOMAIN W \cup {m.seg} |-> IF s = m.seg THEN m ELSE W[s]]
    BY <1>1 DEF Receive
  <2>2. DOMAIN V = {messages[i].seg : i \in 1 .. n}
    BY <1>0, <2>1 DEF Kept
  <2>3. ASSUME NEW s \in DOMAIN V
        PROVE  \E k \in 1 .. n : /\ messages[k].seg = s /\ V[s] = messages[k]
                                 /\ \A j \in 1 .. n : messages[j].seg = s => ~Precedes(messages, k, j)
    <3>1. CASE s = m.seg
      <4>1. \A j \in 1 .. n : messages[j].seg = s => j = n
        BY <1>0, <1>1, <3>1 DEF Kept
      <4>2. ~Precedes(messages, n, n)
        BY <1>0 DEF Precedes
      <4> QED
        BY <2>1, <3>1, <4>1, <4>2
    <3>2. CASE s # m.seg
      <4>1. s \in DOMAIN W /\ V[s] = W[s]
        BY <2>1, <3>2
      <4>2. PICK k \in 1 .. (n - 1) :
                /\ messages[k].seg = s /\ W[s] = messages[k]
                /\ \A j \in 1 .. (n - 1) : messages[j].seg = s => ~Precedes(messages, k, j)
        BY <4>1 DEF Kept
      <4> QED
        BY <1>0, <3>2, <4>1, <4>2
    <3> QED
      BY <3>1, <3>2
  <2> QED
    BY <2>2, <2>3 DEF Kept
<1>2. CASE m.seg \in DOMAIN W
  <2>1. PICK k \in 1 .. (n - 1) :
            /\ messages[k].seg = m.seg /\ W[m.seg] = messages[k]
            /\ \A j \in 1 .. (n - 1) : messages[j].seg = m.seg => ~Precedes(messages, k, j)
    BY <1>2 DEF Kept
  <2>2. /\ Later(m, W[m.seg]) => \A j \in 1 .. n : messages[j].seg = m.seg => ~Precedes(messages, n, j)
        /\ ~Later(m, W[m.seg]) => ~Precedes(messages, k, n)
    <3>1. m.window \in Int /\ m.emit \in Int /\ messages[k].window \in Int /\ messages[k].emit \in Int
      BY <1>0
    <3>2. ~Later(m, W[m.seg]) => ~Precedes(messages, k, n)
      BY <1>0, <2>1, <3>1 DEF Later, Precedes
    <3>3. ASSUME Later(m, W[m.seg]), NEW j \in 1 .. n, messages[j].seg = m.seg
          PROVE  ~Precedes(messages, n, j)
      <4>1. messages[j].window \in Int /\ messages[j].emit \in Int
        BY <1>0
      <4>2. j # n => ~Precedes(messages, k, j)
        BY <1>0, <2>1, <3>3
      <4> QED
        BY <2>1, <3>1, <3>3, <4>1, <4>2 DEF Later, Precedes
    <3> QED
      BY <3>2, <3>3
  <2>3. DOMAIN V = DOMAIN W /\ \A s \in DOMAIN W :
            V[s] = IF s = m.seg /\ Later(m, W[m.seg]) THEN m ELSE W[s]
    BY <1>2 DEF Receive
  <2>4. DOMAIN V = {messages[i].seg : i \in 1 .. n}
    BY <1>0, <1>2, <2>3 DEF Kept
  <2>5. ASSUME NEW s \in DOMAIN V
        PROVE  \E l \in 1 .. n : /\ messages[l].seg = s /\ V[s] = messages[l]
                                 /\ \A j \in 1 .. n : messages[j].seg = s => ~Precedes(messages, l, j)
    <3>1. CASE s = m.seg
      BY <1>0, <2>1, <2>2, <2>3, <3>1
    <3>2. CASE s # m.seg
      <4>1. s \in DOMAIN W /\ V[s] = W[s]
        BY <2>3, <3>2
      <4>2. PICK l \in 1 .. (n - 1) :
                /\ messages[l].seg = s /\ W[s] = messages[l]
                /\ \A j \in 1 .. (n - 1) : messages[j].seg = s => ~Precedes(messages, l, j)
        BY <4>1 DEF Kept
      <4> QED
        BY <1>0, <3>2, <4>1, <4>2
    <3> QED
      BY <3>1, <3>2
  <2> QED
    BY <2>4, <2>5 DEF Kept
<1> QED
  BY <1>1, <1>2

LEMMA DedupKeeps ==
  ASSUME NEW messages, Messages(messages)
  PROVE  Kept(messages, Len(messages), DedupKeepLatest(messages))
<1> DEFINE N == Len(messages)
           Segs == {messages[i].seg : i \in DOMAIN messages}
           T == UNION {[D -> Range(messages)] : D \in SUBSET Segs}
           g == [n \in 1 .. N |-> [W \in T |-> Receive(W, messages[n])]]
<1>0. N \in Nat /\ DOMAIN messages = 1 .. N /\ Range(messages) = {messages[i] : i \in 1 .. N}
  BY DEF Messages, Range
<1>1. NoMessages \in T
  <2>1. NoMessages \in [{} -> Range(messages)]
    BY DEF NoMessages
  <2> QED
    BY <2>1
<1>2. ASSUME NEW n \in 1 .. N, NEW W \in T PROVE Receive(W, messages[n]) \in T
  <2>1. PICK D \in SUBSET Segs : W \in [D -> Range(messages)]
    OBVIOUS
  <2>2. messages[n] \in Range(messages) /\ messages[n].seg \in Segs
    BY <1>0
  <2>3. [s \in D \cup {messages[n].seg} |-> IF s = messages[n].seg THEN messages[n] ELSE W[s]]
           \in [D \cup {messages[n].seg} -> Range(messages)]
    BY <2>1, <2>2
  <2>4. [s \in D \cup {messages[n].seg} |-> IF s = messages[n].seg THEN messages[n] ELSE W[s]] \in T
    BY <2>2, <2>3
  <2> QED
    BY <2>1, <2>4 DEF Receive
<1>3. g \in [1 .. N -> [T -> T]]
  <2> HIDE DEF T
  <2> QED
    BY <1>2
<1>4. PICK f \in [0 .. N -> T] :
         \A n \in 0 .. N : f[n] = IF n = 0 THEN NoMessages ELSE g[n][f[n - 1]]
  <2> HIDE DEF T, g, N
  <2>1. PICK f \in [0 .. N -> T] : IteratesUpto(N, f, NoMessages, g)
    BY <1>0, <1>1, <1>3, UptoRecursion
  <2> QED
    BY <2>1 DEF IteratesUpto
<1>5. \A n \in 1 .. N : f[n] = Receive(f[n - 1], messages[n])
  <2> SUFFICES ASSUME NEW n \in 1 .. N PROVE f[n] = Receive(f[n - 1], messages[n])
    OBVIOUS
  <2>1. n - 1 \in 0 .. N /\ n \in 0 .. N /\ n # 0
    BY <1>0
  <2> HIDE DEF T
  <2> QED
    BY <1>4, <2>1
<1> HIDE DEF g, T
<1> DEFINE w == CHOOSE w : w = [n \in 0 .. N |->
                  IF n = 0 THEN NoMessages ELSE Receive(w[n - 1], messages[n])]
<1>6. f = [n \in 0 .. N |-> IF n = 0 THEN NoMessages ELSE Receive(f[n - 1], messages[n])]
  <2>1. \A n \in 0 .. N : f[n] = IF n = 0 THEN NoMessages ELSE Receive(f[n - 1], messages[n])
    BY <1>0, <1>4, <1>5
  <2>2. f = [n \in 0 .. N |-> f[n]]
    BY <1>4
  <2> QED
    BY <2>1, <2>2
<1>7. w = [n \in 0 .. N |-> IF n = 0 THEN NoMessages ELSE Receive(w[n - 1], messages[n])]
  BY <1>6
<1>8. DedupKeepLatest(messages) = w[N]
  BY DEF DedupKeepLatest, Receive
<1> HIDE DEF w
<1> DEFINE I == {n \in Nat : n <= N => Kept(messages, n, w[n])}
<1>9. 0 \in I
  BY <1>0, <1>7 DEF Kept, NoMessages
<1>10. ASSUME NEW n \in Nat, n \in I PROVE n + 1 \in I
  <2>1. CASE n + 1 <= N
    <3>1. n + 1 \in 1 .. N /\ (n + 1) - 1 = n /\ n <= N
      BY <1>0, <2>1
    <3>2. w[n + 1] = Receive(w[n], messages[n + 1])
      BY <1>7, <3>1
    <3>3. Kept(messages, n, w[n])
      BY <1>10, <3>1
    <3>4. Kept(messages, n + 1, w[n + 1])
      BY <3>1, <3>2, <3>3, ReceiveKeeps
    <3> QED
      BY <3>4
  <2> QED
    BY <2>1
<1> HIDE DEF I
<1>11. Nat \subseteq I
  BY <1>9, <1>10, NatSetInduction
<1> QED
  BY <1>0, <1>8, <1>11 DEF I

\* The provider made from a feed holds for each edge what LatestLoad says of it.
LEMMA FeedIsLatest ==
  ASSUME NEW messages, Messages(messages), NEW n \in Nat
  PROVE  /\ NewProvider(messages, n) \in Seq(Int)
         /\ \A e \in 0 .. (n - 1) : loadIn(NewProvider(messages, n), e) = LatestLoad(messages, e)
<1> DEFINE W == DedupKeepLatest(messages)
           on(e) == {s \in DOMAIN W \cap DOMAIN EdgeOf : EdgeOf[s] = e}
           of(e) == {i \in DOMAIN messages :
                        messages[i].seg \in DOMAIN EdgeOf /\ EdgeOf[messages[i].seg] = e}
           P == NewProvider(messages, n)
<1>0. Len(messages) \in Nat /\ DOMAIN messages = 1 .. Len(messages)
  BY DEF Messages
<1>1. Kept(messages, Len(messages), W)
  BY DedupKeeps
<1> HIDE DEF W
<1>2. DOMAIN W = {messages[i].seg : i \in DOMAIN messages}
  BY <1>0, <1>1 DEF Kept
<1>3. ASSUME NEW s \in DOMAIN W
      PROVE  \E k \in DOMAIN messages :
                /\ messages[k].seg = s /\ W[s] = messages[k]
                /\ \A j \in DOMAIN messages : messages[j].seg = s => ~Precedes(messages, k, j)
  BY <1>0, <1>1 DEF Kept
<1>4. P = [i \in 1 .. n |-> IF on(i - 1) = {} THEN 0
                            ELSE W[CHOOSE s \in on(i - 1) : TRUE].count]
  BY DEF NewProvider, W
<1>5. ASSUME NEW e, on(e) # {}
      PROVE  /\ W[CHOOSE s \in on(e) : TRUE].count = LatestLoad(messages, e)
             /\ LatestLoad(messages, e) \in Int
  <2> DEFINE s == CHOOSE x \in on(e) : TRUE
  <2>1. s \in DOMAIN W /\ s \in DOMAIN EdgeOf /\ EdgeOf[s] = e
    BY <1>5
  <2> HIDE DEF s
  <2>2. PICK k \in DOMAIN messages :
                /\ messages[k].seg = s /\ W[s] = messages[k]
                /\ \A j \in DOMAIN messages : messages[j].seg = s => ~Precedes(messages, k, j)
    BY <1>3, <2>1
  <2>3. k \in of(e) /\ \A j \in of(e) : messages[j].seg = s
    BY <2>1, <2>2, LoadStoreAssumption
  <2> DEFINE last == {i \in of(e) : \A j \in of(e) : ~Precedes(messages, i, j)}
  <2>4. k \in last
    BY <2>2, <2>3
  <2>5. ASSUME NEW i \in last PROVE i = k
    <3>1. ~Precedes(messages, i, k) /\ ~Precedes(messages, k, i) /\ i \in DOMAIN messages
      BY <2>3, <2>4
    <3>2. /\ i \in Int /\ messages[i].window \in Int /\ messages[i].emit \in Int
          /\ k \in Int /\ messages[k].window \in Int /\ messages[k].emit \in Int
      BY <1>0, <2>2, <3>1 DEF Messages
    <3> QED
      BY <3>1, <3>2 DEF Precedes
  <2>6. (CHOOSE i \in last : TRUE) = k
    <3> HIDE DEF last
    <3> QED
      BY <2>4, <2>5
  <2>7. LatestLoad(messages, e) = messages[CHOOSE i \in last : TRUE].count
    BY <2>3 DEF LatestLoad, Precedes
  <2>8. messages[k].count \in Int
    BY <2>2 DEF Messages
  <2> HIDE DEF last
  <2> QED
    BY <2>2, <2>6, <2>7, <2>8 DEF s
<1>6. ASSUME NEW e, on(e) = {} PROVE LatestLoad(messages, e) = 0
  <2>1. of(e) = {}
    BY <1>2, <1>6
  <2> QED
    BY <2>1 DEF LatestLoad
<1> HIDE DEF on, of
<1>7. \A i \in 1 .. n : P[i] = LatestLoad(messages, i - 1) /\ P[i] \in Int
  BY <1>4, <1>5, <1>6
<1>8. P \in [1 .. n -> Int]
  BY <1>4, <1>7
<1>9. P \in Seq(Int) /\ Len(P) = n
  BY <1>8
<1>10. ASSUME NEW e \in 0 .. (n - 1) PROVE loadIn(P, e) = LatestLoad(messages, e)
  <2>1. e + 1 \in 1 .. n /\ (e + 1) - 1 = e
    OBVIOUS
  <2>2. P[e + 1] = LatestLoad(messages, e)
    BY <1>7, <2>1
  <2> HIDE DEF P
  <2> QED
    BY <1>9, <2>2 DEF loadIn
<1> QED
  BY <1>9, <1>10

\* The inductive invariant of the store: what it reads is what was written.
StoreInv ==
    /\ provider \in {"memory", "simulator", "static", "none"}
    /\ live \in ArrayNames /\ held \in ArrayNames \cup {NoArray}
    /\ array \in [ArrayNames -> Seq(Int)]
    /\ truth \in [EdgeIds -> Int] /\ asOf \in [EdgeIds -> Int]
    /\ provider # "none" => \A e \in EdgeIds : Load(e) = truth[e]

LEMMA EdgeIdsDense ==
    /\ IsFiniteSet(EdgeIds) /\ Cardinality(EdgeIds) \in Nat
    /\ EdgeIds = 0 .. (Cardinality(EdgeIds) - 1)
    /\ \A e \in EdgeIds : e \in Nat
<1>1. IsFiniteSet(EdgeIds) /\ EdgeIds = 0 .. (Cardinality(EdgeIds) - 1)
  BY LoadStoreAssumption
<1>2. Cardinality(EdgeIds) \in Nat
  BY <1>1, FS_CardinalityType
<1>3. \A e \in EdgeIds : e \in Nat
  BY <1>1, <1>2
<1> QED
  BY <1>1, <1>2, <1>3

LEMMA StoreInit == LoadInit => StoreInv
<1> SUFFICES ASSUME LoadInit PROVE StoreInv
  OBVIOUS
<1>1. PICK source \in {"memory", "simulator", "static"}, n \in InitialLens, feed \in Feeds :
          LET messages == IF source = "static" THEN feed ELSE <<>>
              bad == \E i \in DOMAIN messages : ~Valid(messages[i]) \/ ~congestionInstants(messages[i])
              full == IF source = "static" THEN Cardinality(EdgeIds) ELSE n
          IN /\ provider = IF bad THEN "none" ELSE source
             /\ array = [a \in ArrayNames |->
                            IF a = 1 /\ ~bad THEN NewProvider(messages, full) ELSE <<>>]
             /\ truth = [e \in EdgeIds |-> IF bad THEN 0 ELSE LatestLoad(messages, e)]
  BY DEF LoadInit
<1> DEFINE messages == IF source = "static" THEN feed ELSE <<>>
           bad == \E i \in DOMAIN messages : ~Valid(messages[i]) \/ ~congestionInstants(messages[i])
           full == IF source = "static" THEN Cardinality(EdgeIds) ELSE n
<1>2. /\ provider = IF bad THEN "none" ELSE source
      /\ array = [a \in ArrayNames |-> IF a = 1 /\ ~bad THEN NewProvider(messages, full) ELSE <<>>]
      /\ truth = [e \in EdgeIds |-> IF bad THEN 0 ELSE LatestLoad(messages, e)]
  BY <1>1
<1>3. Messages(messages)
  <2>1. CASE source = "static"
    BY <2>1, LoadStoreAssumption DEF Messages
  <2>2. CASE source # "static"
    BY <2>2 DEF Messages, Range
  <2> QED
    BY <2>1, <2>2
<1>4. full \in Nat
  BY EdgeIdsDense, LoadStoreAssumption
<1>5. \A e \in EdgeIds : ~ (e \in 0 .. (full - 1)) => LatestLoad(messages, e) = 0
  <2>1. CASE source = "static"
    BY <2>1, EdgeIdsDense
  <2>2. CASE source # "static"
    BY <2>2 DEF LatestLoad
  <2> QED
    BY <2>1, <2>2
<1>6. /\ NewProvider(messages, full) \in Seq(Int)
      /\ \A e \in 0 .. (full - 1) : loadIn(NewProvider(messages, full), e) = LatestLoad(messages, e)
  BY <1>3, <1>4, FeedIsLatest
<1>7. Len(NewProvider(messages, full)) = full
  BY <1>4 DEF NewProvider
<1>8. \A e \in EdgeIds : loadIn(NewProvider(messages, full), e) = LatestLoad(messages, e)
  <2> SUFFICES ASSUME NEW e \in EdgeIds, ~ (e \in 0 .. (full - 1))
               PROVE  loadIn(NewProvider(messages, full), e) = LatestLoad(messages, e)
    BY <1>6
  <2>1. loadIn(NewProvider(messages, full), e) = 0
    BY <1>7 DEF loadIn
  <2> QED
    BY <1>5, <2>1
<1>9. \A e \in EdgeIds : LatestLoad(messages, e) \in Int
  <2> SUFFICES ASSUME NEW e \in EdgeIds PROVE loadIn(NewProvider(messages, full), e) \in Int
    BY <1>8
  <2>1. e \in Nat /\ Len(NewProvider(messages, full)) \in Nat
    BY <1>4, <1>7, EdgeIdsDense
  <2> QED
    BY <1>6, <2>1 DEF loadIn
<1> HIDE DEF messages, bad, full
<1>10. live = 1 /\ held = NoArray /\ asOf = truth
  BY DEF LoadInit
<1>11. live \in ArrayNames /\ held \in ArrayNames \cup {NoArray}
  BY <1>10 DEF ArrayNames
<1>12. array \in [ArrayNames -> Seq(Int)] /\ truth \in [EdgeIds -> Int]
  BY <1>2, <1>6, <1>9
<1>13. provider # "none" => \A e \in EdgeIds : Load(e) = truth[e]
  <2> SUFFICES ASSUME ~bad, NEW e \in EdgeIds PROVE Load(e) = truth[e]
    BY <1>2
  <2>1. array[live] = NewProvider(messages, full)
    BY <1>2, <1>10 DEF ArrayNames
  <2> QED
    BY <1>2, <1>8, <2>1 DEF Load
<1> QED
  BY <1>2, <1>10, <1>11, <1>12, <1>13 DEF StoreInv

LEMMA FreshName ==
  ASSUME live \in ArrayNames, held \in ArrayNames \cup {NoArray}
  PROVE  fresh \in ArrayNames /\ fresh # live /\ fresh # held
<1>1. \E a \in ArrayNames : a # live /\ a # held
  BY DEF ArrayNames, NoArray
<1> QED
  BY <1>1 DEF fresh

\* The array that a call holds apart from the store's is not touched.
HeldStays ==
    /\ held' = held /\ asOf' = asOf /\ provider' = provider
    /\ held \in ArrayNames /\ held # live => array'[held] = array[held] /\ held # live'

LEMMA InstallStep ==
  ASSUME live \in ArrayNames, held \in ArrayNames \cup {NoArray},
         array \in [ArrayNames -> Seq(Int)],
         NEW a \in ArrayNames, a = live \/ a # held, NEW slice \in Seq(Int), Install(a, slice)
  PROVE  /\ live' = a /\ array' \in [ArrayNames -> Seq(Int)] /\ array'[a] = slice
         /\ held \in ArrayNames /\ held # live => array'[held] = array[held] /\ held # live'
<1>1. live' = a /\ array' = [b \in ArrayNames |-> IF b = a THEN slice
                                                 ELSE IF b = held THEN array[b] ELSE <<>>]
  BY DEF Install
<1> QED
  BY <1>1

LEMMA GrownIs ==
  ASSUME NEW slice \in Seq(Int), NEW n \in Nat
  PROVE  /\ Grown(slice, n) \in Seq(Int)
         /\ Len(Grown(slice, n)) = IF n <= Len(slice) THEN Len(slice) ELSE n
         /\ \A e \in Nat : loadIn(Grown(slice, n), e) = loadIn(slice, e)
<1>1. CASE n <= Len(slice)
  BY <1>1 DEF Grown
<1>2. CASE ~(n <= Len(slice))
  <2> DEFINE G == [i \in 1 .. n |-> IF i <= Len(slice) THEN slice[i] ELSE 0]
  <2>1. G \in [1 .. n -> Int]
    OBVIOUS
  <2>2. G \in Seq(Int) /\ Len(G) = n
    BY <2>1
  <2>3. Grown(slice, n) = G
    BY <1>2 DEF Grown
  <2>4. ASSUME NEW e \in Nat PROVE loadIn(G, e) = loadIn(slice, e)
    <3>1. e + 1 \in 1 .. n => G[e + 1] = IF e + 1 <= Len(slice) THEN slice[e + 1] ELSE 0
      OBVIOUS
    <3> HIDE DEF G
    <3> QED
      BY <1>2, <2>2, <3>1 DEF loadIn
  <2> HIDE DEF G
  <2> QED
    BY <1>2, <2>2, <2>3, <2>4
<1> QED
  BY <1>1, <1>2

LEMMA WriteAllStep ==
  ASSUME StoreInv, NEW D, IsFiniteSet(D), D \subseteq Int, NEW loads \in [D -> Int],
         provider # "none", WriteAll(loads), UNCHANGED <<provider, held, asOf>>
  PROVE  StoreInv' /\ HeldStays
<1> DEFINE ids == {e \in DOMAIN loads : e >= 0}
           need == IF ids = {} THEN 0 ELSE 1 + CHOOSE e \in ids : \A f \in ids : f <= e
           old == array[live]
           grown == Grown(old, need)
           slice == [i \in DOMAIN grown |-> IF (i - 1) \in ids THEN loads[i - 1] ELSE grown[i]]
           a == IF need <= Len(old) THEN live ELSE fresh
<1>1. Install(a, slice) /\ truth' = [e \in EdgeIds |-> IF e \in ids THEN loads[e] ELSE truth[e]]
  BY DEF WriteAll
<1>2. need \in Nat /\ \A e \in ids : e < need
  <2>1. CASE ids = {}
    BY <2>1
  <2>2. CASE ids # {}
    <3>1. IsFiniteSet(ids) /\ ids \in SUBSET Int
      BY FS_Subset
    <3>2. \E e \in ids : \A f \in ids : f <= e
      BY <2>2, <3>1, FiniteMax
    <3> DEFINE m == CHOOSE e \in ids : \A f \in ids : f <= e
    <3>3. m \in ids /\ \A f \in ids : f <= m
      BY <3>2
    <3>4. need = 1 + m
      BY <2>2
    <3> HIDE DEF m, need
    <3> QED
      BY <3>3, <3>4
  <2> QED
    BY <2>1, <2>2
<1>3. old \in Seq(Int) /\ Len(old) \in Nat
  BY DEF StoreInv
<1>4. \A e \in ids : e \in Nat /\ loads[e] \in Int
  OBVIOUS
<1> HIDE DEF ids, need
<1>5. /\ grown \in Seq(Int) /\ Len(grown) \in Nat /\ need <= Len(grown)
      /\ \A e \in Nat : loadIn(grown, e) = loadIn(old, e)
  BY <1>2, <1>3, GrownIs
<1> HIDE DEF grown
<1>6. slice \in Seq(Int) /\ Len(slice) = Len(grown)
  <2>1. slice \in [1 .. Len(grown) -> Int]
    BY <1>4, <1>5
  <2>2. Len(grown) \in Nat
    BY <1>5
  <2> HIDE DEF slice
  <2> QED
    BY <2>1, <2>2
<1>7. ASSUME NEW e \in Nat PROVE loadIn(slice, e) = IF e \in ids THEN loads[e] ELSE loadIn(old, e)
  <2>1. CASE e + 1 \in 1 .. Len(grown)
    <3>1. slice[e + 1] = IF e \in ids THEN loads[e] ELSE grown[e + 1]
      BY <1>5, <2>1
    <3>2. e \in 0 .. (Len(grown) - 1)
      BY <1>5, <2>1
    <3>3. loadIn(slice, e) = slice[e + 1] /\ loadIn(grown, e) = grown[e + 1]
      BY <1>6, <3>2 DEF loadIn
    <3> QED
      BY <1>5, <3>1, <3>3
  <2>2. CASE ~(e + 1 \in 1 .. Len(grown))
    <3>1. e \notin ids /\ ~(e \in 0 .. (Len(grown) - 1))
      BY <1>2, <1>5, <2>2
    <3>2. loadIn(slice, e) = 0 /\ loadIn(grown, e) = 0
      BY <1>6, <3>1 DEF loadIn
    <3> QED
      BY <1>5, <3>1, <3>2
  <2> QED
    BY <2>1, <2>2
<1> HIDE DEF slice
<1>8. a \in ArrayNames /\ (a = live \/ a # held)
  BY FreshName DEF StoreInv
<1> HIDE DEF a
<1>9. /\ live' = a /\ array' \in [ArrayNames -> Seq(Int)] /\ array'[a] = slice
      /\ held \in ArrayNames /\ held # live => array'[held] = array[held] /\ held # live'
  BY <1>1, <1>6, <1>8, InstallStep DEF StoreInv
<1>10. \A e \in EdgeIds : (Load(e) = truth[e])'
  <2> SUFFICES ASSUME NEW e \in EdgeIds PROVE loadIn(array'[live'], e) = truth'[e]
    BY DEF Load
  <2>1. e \in Nat /\ loadIn(old, e) = truth[e]
    BY EdgeIdsDense DEF StoreInv, Load
  <2> QED
    BY <1>1, <1>7, <1>9, <2>1
<1>11. truth' \in [EdgeIds -> Int]
  BY <1>1, <1>4 DEF StoreInv
<1> QED
  BY <1>8, <1>9, <1>10, <1>11 DEF StoreInv, HeldStays

LEMMA LoadIsInt == ASSUME StoreInv, NEW e \in Int PROVE Load(e) \in Int
<1>1. array[live] \in Seq(Int)
  BY DEF StoreInv
<1> QED
  BY <1>1 DEF Load, loadIn

LEMMA WriteStep == StoreInv /\ Write => StoreInv' /\ HeldStays
<1> SUFFICES ASSUME StoreInv, Write PROVE StoreInv' /\ HeldStays
  OBVIOUS
<1>1. PICK loads \in Writes :
          WriteAll(IF provider = "memory" THEN loads
                   ELSE [e \in DOMAIN loads |->
                            LET sum == Load(e) + loads[e]
                            IN IF sum < 0 THEN 0 ELSE IF sum > MaxLoad THEN MaxLoad ELSE sum])
  BY DEF Write
<1>2. IsFiniteSet(DOMAIN loads) /\ DOMAIN loads \subseteq Int /\ loads \in [DOMAIN loads -> Int]
  BY LoadStoreAssumption
<1> DEFINE sums == [e \in DOMAIN loads |->
                      LET sum == Load(e) + loads[e]
                      IN IF sum < 0 THEN 0 ELSE IF sum > MaxLoad THEN MaxLoad ELSE sum]
<1>3. sums \in [DOMAIN loads -> Int]
  <2>1. \A e \in DOMAIN loads : Load(e) \in Int /\ loads[e] \in Int
    BY <1>2, LoadIsInt
  <2> QED
    BY <2>1, LoadStoreAssumption
<1>4. provider # "none" /\ UNCHANGED <<provider, held, asOf>>
  BY DEF Write
<1> HIDE DEF sums
<1>5. CASE provider = "memory"
  BY <1>1, <1>2, <1>4, <1>5, WriteAllStep
<1>6. CASE provider # "memory"
  <2>1. WriteAll(sums)
    BY <1>1, <1>6 DEF sums
  <2> QED
    BY <1>2, <1>3, <1>4, <2>1, WriteAllStep
<1> QED
  BY <1>5, <1>6

LEMMA TickStep == StoreInv /\ Tick => StoreInv' /\ HeldStays
<1> SUFFICES ASSUME StoreInv, Tick PROVE StoreInv' /\ HeldStays
  OBVIOUS
<1> DEFINE moved(up, e, x) == IF x <= 0 THEN x
                              ELSE IF e \in up THEN IF x < MaxLoad THEN x + 1 ELSE x
                              ELSE IF x > 1 THEN x - 1 ELSE x
           old == array[live]
<1>1. PICK up \in SUBSET {e \in EdgeIds : Load(e) > 0} :
          /\ Install(live, [i \in DOMAIN old |-> moved(up, i - 1, old[i])])
          /\ truth' = [e \in EdgeIds |-> moved(up, e, truth[e])]
  BY DEF Tick
<1> DEFINE slice == [i \in DOMAIN old |-> moved(up, i - 1, old[i])]
<1>2. old \in Seq(Int) /\ Len(old) \in Nat /\ MaxLoad \in Nat
  BY LoadStoreAssumption DEF StoreInv
<1>3. \A x \in Int : \A e : moved(up, e, x) \in Int
  BY <1>2
<1>4. moved(up, 0, 0) = 0 /\ \A e : moved(up, e, 0) = 0
  OBVIOUS
<1> HIDE DEF moved
<1>5. slice \in Seq(Int) /\ Len(slice) = Len(old)
  <2>1. slice \in [1 .. Len(old) -> Int]
    BY <1>2, <1>3
  <2> HIDE DEF slice
  <2> QED
    BY <1>2, <2>1
<1>6. ASSUME NEW e \in Nat PROVE loadIn(slice, e) = moved(up, e, loadIn(old, e))
  <2>1. CASE e \in 0 .. (Len(old) - 1)
    <3>1. e + 1 \in DOMAIN old /\ (e + 1) - 1 = e
      BY <1>2, <2>1
    <3>2. slice[e + 1] = moved(up, e, old[e + 1])
      BY <3>1
    <3> HIDE DEF slice
    <3> QED
      BY <1>5, <2>1, <3>2 DEF loadIn
  <2>2. CASE ~(e \in 0 .. (Len(old) - 1))
    <3> HIDE DEF slice
    <3>1. loadIn(slice, e) = 0 /\ loadIn(old, e) = 0
      BY <1>5, <2>2 DEF loadIn
    <3> QED
      BY <1>4, <3>1
  <2> QED
    BY <2>1, <2>2
<1>7. Install(live, slice)
  BY <1>1
<1> HIDE DEF slice
<1>8. /\ live' = live /\ array' \in [ArrayNames -> Seq(Int)] /\ array'[live] = slice
      /\ held \in ArrayNames /\ held # live => array'[held] = array[held] /\ held # live'
  BY <1>5, <1>7, InstallStep DEF StoreInv
<1>9. provider # "none" /\ UNCHANGED <<provider, held, asOf>>
  BY DEF Tick
<1>10. \A e \in EdgeIds : (Load(e) = truth[e])'
  <2> SUFFICES ASSUME NEW e \in EdgeIds PROVE loadIn(array'[live'], e) = truth'[e]
    BY DEF Load
  <2>1. e \in Nat /\ loadIn(old, e) = truth[e]
    BY <1>9, EdgeIdsDense DEF StoreInv, Load
  <2> QED
    BY <1>1, <1>6, <1>8, <2>1
<1>11. truth' \in [EdgeIds -> Int]
  BY <1>1, <1>3 DEF StoreInv
<1> QED
  BY <1>8, <1>9, <1>10, <1>11 DEF StoreInv, HeldStays

LEMMA SnapshotStep ==
  ASSUME StoreInv, Snapshot, provider # "none"
  PROVE  /\ StoreInv' /\ provider' = provider
         /\ held' \in ArrayNames /\ held' # live'
         /\ \A e \in EdgeIds : loadIn(array'[held'], e) = asOf'[e]
<1>1. /\ array' = [array EXCEPT ![fresh] = array[live]]
      /\ held' = fresh /\ asOf' = truth /\ UNCHANGED <<provider, live, truth, writes>>
  BY DEF Snapshot
<1>2. fresh \in ArrayNames /\ fresh # live
  BY FreshName DEF StoreInv
<1>3. array' \in [ArrayNames -> Seq(Int)] /\ array'[live'] = array[live] /\ array'[held'] = array[live]
  BY <1>1, <1>2 DEF StoreInv
<1>4. \A e \in EdgeIds : loadIn(array[live], e) = truth[e]
  BY DEF StoreInv, Load
<1> QED
  BY <1>1, <1>2, <1>3, <1>4 DEF StoreInv, Load

LEMMA ViewStep ==
  ASSUME StoreInv, View, provider # "none"
  PROVE  /\ StoreInv' /\ provider' = provider
         /\ held' \in ArrayNames
         /\ \A e \in EdgeIds : loadIn(array'[held'], e) = asOf'[e]
<1>1. held' = live /\ asOf' = truth /\ UNCHANGED <<provider, array, live, truth, writes>>
  BY DEF View
<1>2. \A e \in EdgeIds : loadIn(array[live], e) = truth[e]
  BY DEF StoreInv, Load
<1> QED
  BY <1>1, <1>2 DEF StoreInv, Load

LEMMA StoreStutters == StoreInv /\ UNCHANGED loadVars => StoreInv'
BY DEF StoreInv, loadVars, Load

-----------------------------------------------------------------------------
(* One load per call (Routers).                                             *)

IsSeq(s) == s \in Seq(Range(s))

LEMMA AppendIsSeq ==
  ASSUME NEW s, IsSeq(s), NEW x
  PROVE  /\ IsSeq(Append(s, x)) /\ Len(s) \in Nat /\ DOMAIN s = 1 .. Len(s)
         /\ Len(Append(s, x)) = Len(s) + 1 /\ DOMAIN Append(s, x) = 1 .. (Len(s) + 1)
         /\ Append(s, x)[Len(s) + 1] = x
         /\ \A i \in 1 .. Len(s) : Append(s, x)[i] = s[i]
<1> DEFINE U == Range(s) \cup {x}
           t == Append(s, x)
<1>1. s \in Seq(U) /\ x \in U
  BY DEF IsSeq
<1> HIDE DEF U
<1>2. t \in Seq(U) /\ Len(s) \in Nat /\ Len(t) = Len(s) + 1
  BY <1>1
<1>3. t[Len(s) + 1] = x /\ \A i \in 1 .. Len(s) : t[i] = s[i]
  BY <1>1
<1>4. DOMAIN s = 1 .. Len(s) /\ DOMAIN t = 1 .. (Len(s) + 1)
  BY <1>1, <1>2
<1> HIDE DEF t
<1>5. t \in Seq(Range(t))
  <2>1. \A i \in 1 .. Len(t) : t[i] \in Range(t)
    BY <1>2 DEF Range
  <2> QED
    BY <1>2, <2>1
<1> QED
  BY <1>2, <1>3, <1>4, <1>5 DEF IsSeq, t

CallInv ==
    /\ pc \in {"idle", "snap", "request", "paths", "draw", "returned", "failed"}
    /\ router \in {"reactive", "multipath"} /\ batch \in BOOLEAN
    /\ pc \in {"paths", "draw"} => router = "multipath"
    /\ pc # "idle" => provider # "none"
    /\ searching => pc = "snap"
    /\ pc \in {"idle", "snap"} => routes = <<>>
    /\ IsSeq(routes)

\* What a reactive call holds while it works is the load it began to read, and
\* a batch's copy of it is its own.
HeldInv ==
    router = "reactive" /\ (pc = "request" \/ (pc = "snap" /\ ~batch)) =>
        /\ held \in ArrayNames
        /\ \A e \in EdgeIds : loadIn(array[held], e) = asOf[e]
        /\ batch => held # live

ReactiveInv ==
    router = "reactive" => \A i \in DOMAIN routes :
        /\ routes[i].edges \in Cheapest(Pair(i).src, Pair(i).dst, Congested(asOf), {})
        /\ routes[i].cost = Cost(routes[i].edges, Congested(asOf))

LoadInv == StoreInv /\ CallInv /\ HeldInv /\ ReactiveInv

LEMMA NoRoutes == IsSeq(<<>>) /\ DOMAIN <<>> = {}
BY DEF IsSeq

LEMMA LoadInvInit == Init => LoadInv
<1> SUFFICES ASSUME Init PROVE LoadInv
  OBVIOUS
<1>1. StoreInv
  BY StoreInit DEF Init
<1>2. CallInv
  BY NoRoutes DEF Init, CallInv
<1>3. HeldInv /\ ReactiveInv
  BY NoRoutes DEF Init, HeldInv, ReactiveInv
<1> QED
  BY <1>1, <1>2, <1>3 DEF LoadInv

LEMMA HeldStutters ==
  HeldInv /\ UNCHANGED loadVars /\ UNCHANGED <<router, batch>> /\ (pc' = "request" => pc = "request")
    /\ (pc' = "snap" => pc = "snap") => HeldInv'
BY DEF HeldInv, loadVars

LEMMA RoutesStutter ==
  ReactiveInv /\ UNCHANGED <<router, routes, asOf, ends>> => ReactiveInv'
BY DEF ReactiveInv, Pair

LEMMA LoadInvStep == LoadInv /\ [Next]_vars => LoadInv'
<1> SUFFICES ASSUME LoadInv, [Next]_vars PROVE LoadInv'
  OBVIOUS
<1> USE DEF LoadInv
<1>1. CASE BuildTree \/ Search \/ FindPaths \/ UNCHANGED vars
  <2>1. UNCHANGED loadVars /\ UNCHANGED callVars
    BY <1>1 DEF BuildTree, Search, FindPaths, vars
  <2>2. UNCHANGED <<pc, router, batch, routes, ends, searching, provider, asOf>>
    BY <2>1 DEF loadVars, callVars, callArgs, snapped, answers
  <2> QED
    BY <2>1, <2>2, StoreStutters, HeldStutters, RoutesStutter DEF CallInv
<1>2. CASE Snap
  <2>1. /\ UNCHANGED loadVars /\ UNCHANGED <<pc, router, batch, routes, ends, provider, asOf>>
        /\ pc = "snap"
    BY <1>2 DEF Snap, loadVars, callArgs, answers
  <2> QED
    BY <2>1, StoreStutters, HeldStutters, RoutesStutter DEF CallInv
<1>3. CASE Snapped
  <2>1. /\ UNCHANGED loadVars /\ UNCHANGED <<pc, router, batch, routes, provider, asOf>>
        /\ searching /\ searching' = FALSE
    BY <1>3 DEF Snapped, loadVars, callArgs, answers
  <2>2. ReactiveInv'
    BY <2>1, NoRoutes DEF CallInv, ReactiveInv
  <2> QED
    BY <2>1, <2>2, StoreStutters, HeldStutters DEF CallInv
<1>4. CASE Begin
  <2>1. /\ pc = "snap" /\ pc' = "request" /\ ~searching
        /\ IF router = "reactive" /\ batch THEN Snapshot ELSE UNCHANGED loadVars
        /\ UNCHANGED <<router, batch, routes, searching>>
    BY <1>4 DEF Begin, callArgs, snapped, answers
  <2>2. ReactiveInv'
    BY <2>1, NoRoutes DEF CallInv, ReactiveInv
  <2>3. provider # "none"
    BY <2>1 DEF CallInv
  <2>4. CASE router = "reactive" /\ batch
    <3>1. /\ StoreInv' /\ provider' = provider
          /\ held' \in ArrayNames /\ held' # live'
          /\ \A e \in EdgeIds : loadIn(array'[held'], e) = asOf'[e]
      BY <2>1, <2>3, <2>4, SnapshotStep
    <3>2. CallInv'
      BY <2>1, <3>1 DEF CallInv
    <3>3. HeldInv'
      BY <3>1 DEF HeldInv
    <3> QED
      BY <2>2, <3>1, <3>2, <3>3
  <2>5. CASE ~(router = "reactive" /\ batch)
    <3>1. UNCHANGED loadVars /\ provider' = provider
      BY <2>1, <2>5 DEF loadVars
    <3>2. HeldInv'
      BY <2>1, <2>5, <3>1 DEF HeldInv, loadVars
    <3>3. CallInv'
      BY <2>1, <3>1 DEF CallInv
    <3> QED
      BY <2>2, <3>1, <3>2, <3>3, StoreStutters
  <2> QED
    BY <2>4, <2>5
<1>5. CASE RouteReactive
  <2>1. /\ UNCHANGED loadVars
        /\ UNCHANGED <<pc, router, batch, searching, ends, held, array, asOf, provider>>
        /\ pc = "request" /\ router = "reactive"
    BY <1>5 DEF RouteReactive, Answering, loadVars, callArgs, snapped
  <2>2. PICK p \in Cheapest(Pair(now).src, Pair(now).dst, Congested(heldLoad), {}) :
            routes' = Append(routes, [edges |-> p, cost |-> Cost(p, Congested(heldLoad))])
    BY <1>5 DEF RouteReactive, Answer
  <2>3. Congested(heldLoad) = Congested(asOf)
    <3>1. \A e \in EdgeIds : loadIn(array[held], e) = asOf[e]
      BY <2>1 DEF HeldInv
    <3>2. \A e \in Edges : heldLoad[e] = asOf[e]
      BY <3>1, RoutersAssumption DEF heldLoad
    <3> QED
      BY <3>2 DEF Congested
  <2>4. IsSeq(routes)
    BY DEF CallInv
  <2>5. IsSeq(routes')
    BY <2>2, <2>4, AppendIsSeq
  <2>6. ASSUME NEW i \in DOMAIN routes'
        PROVE  /\ routes'[i].edges \in Cheapest(Pair(i).src, Pair(i).dst, Congested(asOf), {})
               /\ routes'[i].cost = Cost(routes'[i].edges, Congested(asOf))
    <3>1. CASE i = Len(routes) + 1
      <4>1. routes'[i] = [edges |-> p, cost |-> Cost(p, Congested(heldLoad))]
        BY <2>2, <2>4, <3>1, AppendIsSeq
      <4>2. now = i
        BY <3>1 DEF now
      <4> QED
        BY <2>2, <2>3, <4>1, <4>2
    <3>2. CASE i # Len(routes) + 1
      <4>1. i \in DOMAIN routes /\ routes'[i] = routes[i]
        BY <2>2, <2>4, <3>2, AppendIsSeq
      <4> QED
        BY <2>1, <4>1 DEF ReactiveInv
    <3> QED
      BY <3>1, <3>2
  <2>7. ReactiveInv'
    BY <2>1, <2>6 DEF ReactiveInv, Pair
  <2>8. CallInv'
    BY <2>1, <2>5 DEF CallInv
  <2> QED
    BY <2>1, <2>7, <2>8, StoreStutters, HeldStutters
<1>6. CASE Fail
  <2>1. /\ UNCHANGED loadVars /\ UNCHANGED <<router, batch, provider, searching>>
        /\ pc' = "failed" /\ routes' = <<>> /\ pc # "idle" /\ pc # "snap"
    BY <1>6 DEF Fail, loadVars, callArgs, snapped
  <2>2. ReactiveInv' /\ CallInv'
    BY <2>1, NoRoutes DEF CallInv, ReactiveInv
  <2> QED
    BY <2>1, <2>2, StoreStutters, HeldStutters
<1>7. CASE KnownPair \/ NewPair \/ AddEntry \/ Return
  <2>1. /\ UNCHANGED loadVars /\ UNCHANGED <<router, batch, provider, searching, routes, ends, asOf>>
        /\ pc' \in {"draw", "paths", "returned"} /\ pc \in {"request", "paths"}
        /\ pc' \in {"draw", "paths"} => router = "multipath"
    BY <1>7 DEF KnownPair, NewPair, AddEntry, Return, Answering, loadVars, callArgs, snapped, answers,
                provenance, CallInv
  <2>2. CallInv'
    BY <2>1 DEF CallInv
  <2> QED
    BY <2>1, <2>2, StoreStutters, HeldStutters, RoutesStutter
<1>8. CASE Draw
  <2>1. /\ UNCHANGED loadVars /\ UNCHANGED <<router, batch, provider, searching>>
        /\ pc' = "request" /\ pc = "draw" /\ router = "multipath"
        /\ \E x : routes' = Append(routes, x)
    BY <1>8 DEF Draw, Answer, loadVars, callArgs, snapped, CallInv
  <2>2. IsSeq(routes')
    BY <2>1, AppendIsSeq DEF CallInv
  <2>3. CallInv' /\ HeldInv' /\ ReactiveInv'
    BY <2>1, <2>2 DEF CallInv, HeldInv, ReactiveInv
  <2> QED
    BY <2>1, <2>3, StoreStutters
<1>9. ASSUME NEW r \in {"reactive", "multipath"}, NEW b \in BOOLEAN, NEW requests \in Batches,
             Call(r, b, requests)
      PROVE  LoadInv'
  <2>1. /\ pc = "idle" /\ pc' = "snap" /\ router' = r /\ batch' = b /\ provider # "none"
        /\ IF r = "reactive" /\ ~b THEN View ELSE UNCHANGED loadVars
        /\ UNCHANGED <<routes, searching>>
    BY <1>9 DEF Call, snapped, answers
  <2>2. CASE r = "reactive" /\ ~b
    <3>1. /\ StoreInv' /\ provider' = provider /\ held' \in ArrayNames
          /\ \A e \in EdgeIds : loadIn(array'[held'], e) = asOf'[e]
      BY <2>1, <2>2, ViewStep
    <3>2. CallInv' /\ HeldInv' /\ ReactiveInv'
      BY <2>1, <2>2, <3>1, NoRoutes DEF CallInv, HeldInv, ReactiveInv
    <3> QED
      BY <3>1, <3>2
  <2>3. CASE ~(r = "reactive" /\ ~b)
    <3>1. UNCHANGED loadVars /\ provider' = provider
      BY <2>1, <2>3 DEF loadVars
    <3>2. CallInv' /\ HeldInv' /\ ReactiveInv'
      BY <2>1, <2>3, <3>1, NoRoutes DEF CallInv, HeldInv, ReactiveInv
    <3> QED
      BY <3>1, <3>2, StoreStutters
  <2> QED
    BY <2>2, <2>3
<1>10. CASE Congestion
  <2>1. /\ UNCHANGED <<pc, router, batch, routes, ends, searching>>
        /\ pc = "idle" \/ (batch /\ pc = "request")
    BY <1>10 DEF Congestion, Answering, callVars, callArgs, snapped, answers
  <2>2. StoreInv' /\ HeldStays
    BY <1>10, WriteStep, TickStep DEF Congestion
  <2>3. CallInv' /\ HeldInv' /\ ReactiveInv'
    BY <2>1, <2>2, RoutesStutter DEF CallInv, HeldInv, HeldStays
  <2> QED
    BY <2>2, <2>3
<1> QED
  BY <1>1, <1>2, <1>3, <1>4, <1>5, <1>6, <1>7, <1>8, <1>9, <1>10 DEF Next, Router

\* OneLoadPerCall for every graph, feed, writes and batches: the store always reads
\* as the map of what was written to it, a batch's snapshot is never written, and
\* each reactive answer is a cheapest path under the loads of the call's start.
THEOREM EveryCallSeesOneLoad == Spec => []OneLoadPerCall
<1>1. LoadInv => OneLoadPerCall
  BY RoutersAssumption DEF LoadInv, StoreInv, ReactiveInv, OneLoadPerCall
<1> QED
  BY <1>1, LoadInvInit, LoadInvStep, PTL DEF Spec

-----------------------------------------------------------------------------
(* Paths and what they cost (RoadGraph).                                    *)

IsSimple(p) ==
    /\ p \in Seq(Edges)
    /\ \A j \in 1 .. (Len(p) - 1) : To[p[j]] = From[p[j + 1]]
    /\ \A i, j \in 1 .. Len(p) : To[p[i]] = To[p[j]] => i = j
    /\ \A j \in 1 .. Len(p) : To[p[j]] # From[p[1]]

\* A path that enters no node twice is no longer than there are nodes to enter.
LEMMA SimpleIs == ASSUME Nodes # {}, NEW p PROVE p \in Simple <=> IsSimple(p)
<1>0. IsFiniteSet(Nodes) /\ Cardinality(Nodes) \in Nat
  BY RoadGraphAssumption, FS_CardinalityType
<1>1. ASSUME p \in Simple PROVE IsSimple(p)
  <2>1. PICK n \in 0 .. (Cardinality(Nodes) - 1) : p \in SimpleOfLength(n)
    BY <1>1 DEF Simple
  <2>2. n \in Nat /\ p \in [1 .. n -> Edges]
    BY <1>0, <2>1 DEF SimpleOfLength
  <2>3. p \in Seq(Edges) /\ Len(p) = n /\ DOMAIN p = 1 .. n
    BY <2>2
  <2> QED
    BY <2>1, <2>3 DEF SimpleOfLength, IsSimple
<1>2. ASSUME IsSimple(p) PROVE p \in Simple
  <2> DEFINE n == Len(p)
  <2>1. n \in Nat /\ DOMAIN p = 1 .. n /\ p \in [1 .. n -> Edges]
    BY <1>2 DEF IsSimple
  <2>2. p \in SimpleOfLength(n)
    BY <1>2, <2>1 DEF IsSimple, SimpleOfLength
  <2>3. n <= Cardinality(Nodes) - 1
    <3>1. CASE n = 0
      <4>1. Cardinality(Nodes) # 0
        BY <1>0, FS_EmptySet
      <4> QED
        BY <1>0, <3>1, <4>1
    <3>2. CASE n # 0
      <4> DEFINE first == From[p[1]]
                 T == Nodes \ {first}
                 f == [j \in 1 .. n |-> To[p[j]]]
      <4>1. first \in Nodes /\ \A j \in 1 .. n : p[j] \in Edges /\ To[p[j]] \in Nodes
        BY <2>1, <3>2, RoadGraphAssumption
      <4>2. IsFiniteSet(T) /\ Cardinality(T) = Cardinality(Nodes) - 1
        BY <1>0, <4>1, FS_RemoveElement
      <4>3. f \in Injection(1 .. n, T)
        BY <1>2, <4>1 DEF IsSimple, Injection, IsInjective
      <4>4. Cardinality(1 .. n) <= Cardinality(T)
        BY <4>2, <4>3, FS_Injection
      <4>5. Cardinality(1 .. n) = n
        <5>1. 1 \in Int /\ n \in Int
          BY <2>1
        <5>2. Cardinality(1 .. n) = IF 1 > n THEN 0 ELSE n - 1 + 1
          BY <5>1, FS_Interval
        <5> QED
          BY <2>1, <3>2, <5>2
      <4> QED
        BY <4>2, <4>4, <4>5
    <3> QED
      BY <3>1, <3>2
  <2>4. n \in 0 .. (Cardinality(Nodes) - 1)
    BY <1>0, <2>1, <2>3
  <2> HIDE DEF n
  <2> QED
    BY <2>2, <2>4 DEF Simple
<1> QED
  BY <1>1, <1>2

\* A simple path leaves each of its nodes once, and enters none it has left.
LEMMA SimpleOnce ==
  ASSUME NEW p, IsSimple(p), NEW i \in 1 .. Len(p), NEW j \in 1 .. Len(p)
  PROVE  /\ i <= j => To[p[j]] # From[p[i]]
         /\ From[p[i]] = From[p[j]] => i = j
<1>0. Len(p) \in Nat
  BY DEF IsSimple
<1>1. ASSUME NEW m \in 1 .. Len(p), m # 1 PROVE m - 1 \in 1 .. Len(p) /\ From[p[m]] = To[p[m - 1]]
  <2>1. m - 1 \in 1 .. (Len(p) - 1) /\ (m - 1) + 1 = m
    BY <1>0, <1>1
  <2> QED
    BY <2>1 DEF IsSimple
<1>2. ASSUME i <= j PROVE To[p[j]] # From[p[i]]
  <2>1. CASE i = 1
    BY <2>1 DEF IsSimple
  <2>2. CASE i # 1
    <3>1. i - 1 # j
      BY <1>0, <1>2
    <3> QED
      BY <1>1, <2>2, <3>1 DEF IsSimple
  <2> QED
    BY <2>1, <2>2
<1>3. ASSUME From[p[i]] = From[p[j]] PROVE i = j
  <2>1. CASE i = 1 \/ j = 1
    BY <1>1, <1>3, <2>1 DEF IsSimple
  <2>2. CASE i # 1 /\ j # 1
    <3>1. i - 1 = j - 1
      BY <1>1, <1>3, <2>2 DEF IsSimple
    <3> QED
      BY <1>0, <3>1
  <2> QED
    BY <2>1, <2>2
<1> QED
  BY <1>2, <1>3

Values(s, w) == [i \in DOMAIN s |-> w[s[i]]]

LEMMA CostIsSum ==
  ASSUME NEW s \in Seq(Edges), NEW w \in [Edges -> Nat]
  PROVE  /\ Len(s) \in Nat /\ DOMAIN s = 1 .. Len(s)
         /\ Cost(s, w) = SumFunctionOnSet(Values(s, w), 1 .. Len(s))
         /\ \A i \in 1 .. Len(s) : Values(s, w)[i] = w[s[i]] /\ Values(s, w)[i] \in Nat
         /\ Cost(s, w) \in Nat
<1>1. Len(s) \in Nat /\ DOMAIN s = 1 .. Len(s)
  OBVIOUS
<1>2. Cost(s, w) = SumFunctionOnSet(Values(s, w), 1 .. Len(s))
  <2>1. Cost(s, w) = SumFunctionOnSet(Values(s, w), DOMAIN Values(s, w))
    BY DEF Cost, SumFunction, Values
  <2>2. DOMAIN Values(s, w) = 1 .. Len(s)
    BY <1>1 DEF Values
  <2> QED
    BY <2>1, <2>2
<1>3. \A i \in 1 .. Len(s) : Values(s, w)[i] = w[s[i]] /\ Values(s, w)[i] \in Nat
  BY <1>1 DEF Values
<1>4. SumFunctionOnSet(Values(s, w), 1 .. Len(s)) \in Nat
  BY <1>1, <1>3, UptoFinite, SumNat
<1> QED
  BY <1>1, <1>2, <1>3, <1>4

LEMMA CostJoin ==
  ASSUME NEW p \in Seq(Edges), NEW q \in Seq(Edges), NEW w \in [Edges -> Nat]
  PROVE  Cost(p \o q, w) = Cost(p, w) + Cost(q, w)
<1> DEFINE f == Values(p, w)
           g == Values(q, w)
           both == Values(p \o q, w)
           m == Len(p)
           n == Len(q)
<1>1. p \o q \in Seq(Edges) /\ Len(p \o q) = m + n
  OBVIOUS
<1>2. /\ m \in Nat /\ Cost(p, w) = SumFunctionOnSet(f, 1 .. m)
      /\ \A i \in 1 .. m : f[i] = w[p[i]] /\ f[i] \in Nat
  BY CostIsSum
<1>3. /\ n \in Nat /\ Cost(q, w) = SumFunctionOnSet(g, 1 .. n)
      /\ \A i \in 1 .. n : g[i] = w[q[i]] /\ g[i] \in Nat
  BY CostIsSum
<1>4. /\ Cost(p \o q, w) = SumFunctionOnSet(both, 1 .. (m + n))
      /\ \A i \in 1 .. (m + n) : both[i] = w[(p \o q)[i]]
  BY <1>1, CostIsSum
<1> HIDE DEF f, g, both
<1>5. \A i \in 1 .. m : f[i] \in Int /\ both[i] = f[i]
  <2> SUFFICES ASSUME NEW i \in 1 .. m PROVE f[i] \in Int /\ both[i] = f[i]
    OBVIOUS
  <2>1. i \in 1 .. (m + n) /\ (p \o q)[i] = p[i]
    BY <1>2, <1>3
  <2>2. both[i] = w[(p \o q)[i]]
    BY <1>4, <2>1
  <2>3. f[i] = w[p[i]] /\ f[i] \in Nat
    BY <1>2
  <2> QED
    BY <2>1, <2>2, <2>3
<1>6. \A i \in 1 .. n : g[i] \in Int /\ both[m + i] = g[i]
  <2> SUFFICES ASSUME NEW i \in 1 .. n PROVE g[i] \in Int /\ both[m + i] = g[i]
    OBVIOUS
  <2>1. m + i \in 1 .. (m + n) /\ (p \o q)[m + i] = q[i]
    BY <1>2, <1>3
  <2>2. both[m + i] = w[(p \o q)[m + i]]
    BY <1>4, <2>1
  <2>3. g[i] = w[q[i]] /\ g[i] \in Nat
    BY <1>3
  <2> QED
    BY <2>1, <2>2, <2>3
<1>7. Joins(both, f, m, g, n)
  BY <1>2, <1>3, <1>5, <1>6 DEF Joins
<1> HIDE DEF m, n
<1>8. SumFunctionOnSet(both, 1 .. (m + n)) =
         SumFunctionOnSet(f, 1 .. m) + SumFunctionOnSet(g, 1 .. n)
  BY <1>7, SumJoin
<1> QED
  BY <1>2, <1>3, <1>4, <1>8

LEMMA CostOne ==
  ASSUME NEW e \in Edges, NEW w \in [Edges -> Nat]
  PROVE  Cost(<<e>>, w) = w[e]
<1> DEFINE f == [i \in DOMAIN <<e>> |-> w[<<e>>[i]]]
<1>1. Cost(<<e>>, w) = SumFunctionOnSet(f, DOMAIN f)
  BY DEF Cost, SumFunction
<1>2. DOMAIN f = 1 .. (0 + 1) /\ f[0 + 1] = w[e] /\ 1 .. 0 = {} /\ w[e] \in Int
  OBVIOUS
<1>3. \A i \in 1 .. (0 + 1) : f[i] \in Int
  OBVIOUS
<1> HIDE DEF f
<1>4. SumFunctionOnSet(f, 1 .. (0 + 1)) = SumFunctionOnSet(f, 1 .. 0) + f[0 + 1]
  <2>1. 0 \in Nat
    OBVIOUS
  <2> QED
    BY <1>3, <2>1, SumNext
<1>5. SumFunctionOnSet(f, 1 .. 0) = 0
  BY <1>2, SumEmpty
<1> QED
  BY <1>1, <1>2, <1>4, <1>5

-----------------------------------------------------------------------------
(* Yen's algorithm (KShortest): the paths that leave the accepted ones      *)
(* where a spur search has been made are represented among the candidates.  *)

LEMMA NodesExist == Nodes # {}
BY RoutersAssumption, KdTreeAssumption

Joining(p, u, v) == IF p = <<>> THEN u = v ELSE From[p[1]] = u /\ To[p[Len(p)]] = v

LEMMA SimplePathsAre ==
  ASSUME NEW u, NEW v, NEW p
  PROVE  p \in SimplePaths(u, v) <=> IsSimple(p) /\ Joining(p, u, v)
BY NodesExist, SimpleIs DEF SimplePaths, Joining

\* The edges that leave one of the first s nodes of r.
EdgesOfRoot(r, s) == {e \in Edges : From[e] \in {From[r[m]] : m \in 1 .. s}}

Root(r, s) == SubSeq(r, 1, s)

LEMMA RootIs ==
  ASSUME NEW r \in Seq(Edges), NEW s \in 0 .. Len(r)
  PROVE  /\ Root(r, s) \in Seq(Edges) /\ Len(Root(r, s)) = s
         /\ \A m \in 1 .. s : Root(r, s)[m] = r[m]
<1>1. Len(r) \in Nat /\ s \in Int /\ 1 \in Int /\ \A i \in 1 .. s : r[i] \in Edges
  OBVIOUS
<1>2. /\ Root(r, s) \in Seq(Edges)
      /\ Len(Root(r, s)) = IF 1 <= s THEN s - 1 + 1 ELSE 0
      /\ \A i \in 1 .. s - 1 + 1 : Root(r, s)[i] = r[1 + i - 1]
  BY <1>1, SubSeqProperties DEF Root
<1>3. s - 1 + 1 = s /\ \A i \in 1 .. s : 1 + i - 1 = i
  BY <1>1
<1>4. (IF 1 <= s THEN s ELSE 0) = s
  BY <1>1
<1>5. Len(Root(r, s)) = s
  BY <1>2, <1>3, <1>4
<1>6. ASSUME NEW m \in 1 .. s PROVE Root(r, s)[m] = r[m]
  BY <1>2, <1>3
<1> QED
  BY <1>2, <1>5, <1>6

\* The rest of a path from its node s on is a path that touches none of the first s nodes.
LEMMA RestIsSimple ==
  ASSUME NEW u, NEW v, NEW p \in SimplePaths(u, v), NEW s \in 0 .. (Len(p) - 1)
  PROVE  \E q \in SimplePaths(From[p[s + 1]], v) :
            /\ q # <<>> /\ q[1] = p[s + 1]
            /\ Range(q) \cap EdgesOfRoot(p, s) = {}
            /\ \A m \in 2 .. Len(q) : From[q[m]] # From[p[s + 1]]
            /\ p = Root(p, s) \o q
<1> DEFINE q == SubSeq(p, s + 1, Len(p))
           n == Len(p) - s
<1>1. IsSimple(p) /\ p \in Seq(Edges) /\ Len(p) \in Nat /\ p # <<>> /\ Joining(p, u, v)
  BY SimplePathsAre DEF IsSimple
<1>2. /\ q \in Seq(Edges) /\ Len(q) = n /\ n \in Nat /\ n > 0
      /\ \A i \in 1 .. n : q[i] = p[s + i] /\ s + i \in 1 .. Len(p)
  <2>1. s + 1 \in Int /\ Len(p) \in Int /\ \A i \in s + 1 .. Len(p) : p[i] \in Edges
    BY <1>1
  <2>2. /\ q \in Seq(Edges)
        /\ Len(q) = IF s + 1 <= Len(p) THEN Len(p) - (s + 1) + 1 ELSE 0
        /\ \A i \in 1 .. Len(p) - (s + 1) + 1 : q[i] = p[s + 1 + i - 1]
    BY <2>1, SubSeqProperties
  <2>3. /\ Len(p) - (s + 1) + 1 = n /\ n \in Nat /\ n > 0 /\ s + 1 <= Len(p)
        /\ \A i \in 1 .. n : s + 1 + i - 1 = s + i /\ s + i \in 1 .. Len(p)
    BY <1>1
  <2> HIDE DEF q, n
  <2> QED
    BY <2>2, <2>3
<1> HIDE DEF q
<1>3. IsSimple(q)
  <2>1. ASSUME NEW j \in 1 .. (Len(q) - 1) PROVE To[q[j]] = From[q[j + 1]]
    <3>1. q[j] = p[s + j] /\ q[j + 1] = p[s + (j + 1)] /\ s + (j + 1) = (s + j) + 1
      BY <1>2
    <3>2. s + j \in 1 .. (Len(p) - 1)
      BY <1>1, <1>2
    <3> QED
      BY <1>1, <3>1, <3>2 DEF IsSimple
  <2>2. ASSUME NEW i \in 1 .. Len(q), NEW j \in 1 .. Len(q), To[q[i]] = To[q[j]] PROVE i = j
    <3>1. /\ s + i \in 1 .. Len(p) /\ q[i] = p[s + i]
          /\ s + j \in 1 .. Len(p) /\ q[j] = p[s + j]
      BY <1>2
    <3>2. s + i = s + j
      BY <1>1, <2>2, <3>1 DEF IsSimple
    <3>3. i \in Int /\ j \in Int /\ s \in Int
      OBVIOUS
    <3> QED
      BY <3>2, <3>3
  <2>3. ASSUME NEW j \in 1 .. Len(q) PROVE To[q[j]] # From[q[1]]
    <3>1. s + 1 \in 1 .. Len(p) /\ s + j \in 1 .. Len(p) /\ s + 1 <= s + j
      BY <1>1, <1>2
    <3>2. To[p[s + j]] # From[p[s + 1]]
      BY <1>1, <3>1, SimpleOnce
    <3> QED
      BY <1>2, <3>2
  <2> QED
    BY <1>2, <2>1, <2>2, <2>3 DEF IsSimple
<1>4. q # <<>> /\ q[1] = p[s + 1] /\ q[Len(q)] = p[Len(p)]
  BY <1>1, <1>2
<1>5. q \in SimplePaths(From[p[s + 1]], v)
  BY <1>1, <1>3, <1>4, SimplePathsAre DEF Joining
<1>6. ASSUME NEW i \in 1 .. Len(q), NEW m \in 1 .. s PROVE From[q[i]] # From[p[m]]
  <2>1. s + i \in 1 .. Len(p) /\ m \in 1 .. Len(p) /\ s + i # m /\ q[i] = p[s + i]
    BY <1>1, <1>2
  <2>2. From[p[s + i]] # From[p[m]]
    BY <1>1, <2>1, SimpleOnce
  <2> QED
    BY <2>1, <2>2
<1>7. Range(q) \cap EdgesOfRoot(p, s) = {}
  <2> SUFFICES ASSUME NEW e \in Range(q), e \in EdgesOfRoot(p, s) PROVE FALSE
    OBVIOUS
  <2>1. PICK i \in 1 .. Len(q) : q[i] = e
    BY <1>2 DEF Range
  <2>2. PICK m \in 1 .. s : From[e] = From[p[m]]
    BY DEF EdgesOfRoot
  <2> QED
    BY <1>6, <2>1, <2>2
<1>8. ASSUME NEW m \in 2 .. Len(q) PROVE From[q[m]] # From[p[s + 1]]
  <2>1. s + m \in 1 .. Len(p) /\ s + 1 \in 1 .. Len(p) /\ s + m # s + 1 /\ q[m] = p[s + m]
    BY <1>1, <1>2
  <2> QED
    BY <1>1, <2>1, SimpleOnce
<1>9. p = Root(p, s) \o q
  <2>1. 1 \in 1 .. Len(p) + 1 /\ s \in 1 - 1 .. Len(p) /\ Len(p) \in s .. Len(p)
    BY <1>1
  <2>2. SubSeq(p, 1, s) \o SubSeq(p, s + 1, Len(p)) = SubSeq(p, 1, Len(p))
    BY <1>1, <2>1, ConcatAdjacentSubSeq
  <2>3. SubSeq(p, 1, Len(p)) = p
    BY <1>1, SubSeqFull
  <2> QED
    BY <2>2, <2>3 DEF Root, q
<1> QED
  BY <1>4, <1>5, <1>7, <1>8, <1>9

\* A root and a path on from its end that touches none of its nodes make a path.
LEMMA JoinIsSimple ==
  ASSUME NEW u, NEW v, NEW r \in SimplePaths(u, v), NEW s \in 0 .. (Len(r) - 1),
         NEW q \in SimplePaths(From[r[s + 1]], v), Range(q) \cap EdgesOfRoot(r, s) = {}
  PROVE  q # <<>> /\ Root(r, s) \o q \in SimplePaths(u, v)
<1> DEFINE a == Root(r, s)
           t == a \o q
           n == Len(q)
<1>1. IsSimple(r) /\ r \in Seq(Edges) /\ Len(r) \in Nat /\ r # <<>> /\ Joining(r, u, v)
  BY SimplePathsAre DEF IsSimple
<1>2. IsSimple(q) /\ q \in Seq(Edges) /\ n \in Nat /\ Joining(q, From[r[s + 1]], v)
  BY SimplePathsAre DEF IsSimple
<1>3. a \in Seq(Edges) /\ Len(a) = s /\ \A m \in 1 .. s : a[m] = r[m] /\ m \in 1 .. Len(r)
  BY <1>1, RootIs
<1>4. \A m \in 1 .. (s + 1) : m \in 1 .. Len(r) /\ v # From[r[m]]
  <2> SUFFICES ASSUME NEW m \in 1 .. (s + 1) PROVE m \in 1 .. Len(r) /\ v # From[r[m]]
    OBVIOUS
  <2>1. m \in 1 .. Len(r) /\ Len(r) \in 1 .. Len(r) /\ m <= Len(r)
    BY <1>1
  <2>2. v = To[r[Len(r)]]
    BY <1>1 DEF Joining
  <2> QED
    BY <1>1, <2>1, <2>2, SimpleOnce
<1>5. q # <<>> /\ n > 0 /\ From[q[1]] = From[r[s + 1]] /\ To[q[n]] = v
  <2>1. s + 1 \in 1 .. (s + 1)
    OBVIOUS
  <2>2. q # <<>>
    BY <1>2, <1>4, <2>1 DEF Joining
  <2> QED
    BY <1>2, <2>2 DEF Joining
<1> HIDE DEF a
<1>6. /\ t \in Seq(Edges) /\ Len(t) = s + n
      /\ \A m \in 1 .. s : t[m] = r[m]
      /\ \A m \in 1 .. n : t[s + m] = q[m]
  <2>1. t \in Seq(Edges) /\ Len(t) = s + n
    BY <1>2, <1>3
  <2>2. \A m \in 1 .. s : t[m] = r[m]
    BY <1>2, <1>3
  <2>3. ASSUME NEW m \in 1 .. n PROVE t[s + m] = q[m]
    <3>1. s + m \in 1 .. (s + n) /\ ~(s + m <= s) /\ (s + m) - s = m
      BY <1>2
    <3> QED
      BY <1>2, <1>3, <3>1
  <2> QED
    BY <2>1, <2>2, <2>3
<1> HIDE DEF t, n
\* Where an edge of t comes from: the root or the rest.
<1>7. \A j \in 1 .. (s + n) : \/ j \in 1 .. s /\ t[j] = r[j]
                              \/ j - s \in 1 .. n /\ t[j] = q[j - s] /\ j = s + (j - s)
  <2> SUFFICES ASSUME NEW j \in 1 .. (s + n), ~(j \in 1 .. s)
               PROVE  j - s \in 1 .. n /\ t[j] = q[j - s] /\ j = s + (j - s)
    BY <1>6
  <2>1. j - s \in 1 .. n /\ j = s + (j - s)
    BY <1>2
  <2> QED
    BY <1>6, <2>1
\* The rest enters no node of the root.
<1>8. ASSUME NEW j \in 1 .. n, NEW m \in 1 .. (s + 1) PROVE To[q[j]] # From[r[m]]
  <2>1. CASE m = s + 1
    BY <1>2, <1>5, <2>1 DEF IsSimple, n
  <2>2. CASE m # s + 1 /\ j = n
    BY <1>4, <1>5, <2>2
  <2>3. CASE m # s + 1 /\ j # n
    <3>1. j + 1 \in 1 .. n /\ j \in 1 .. (n - 1) /\ m \in 1 .. s
      BY <1>2, <2>3
    <3>2. To[q[j]] = From[q[j + 1]]
      BY <1>2, <3>1 DEF IsSimple, n
    <3>3. q[j + 1] \in Range(q) /\ q[j + 1] \in Edges
      BY <1>2, <3>1 DEF Range, n
    <3> QED
      BY <3>1, <3>2, <3>3 DEF EdgesOfRoot
  <2> QED
    BY <2>1, <2>2, <2>3
<1>9. \A m \in 1 .. s : To[r[m]] = From[r[m + 1]] /\ m + 1 \in 1 .. (s + 1)
  BY <1>1 DEF IsSimple
<1>10. ASSUME NEW j \in 1 .. (Len(t) - 1) PROVE To[t[j]] = From[t[j + 1]]
  <2>0. j \in 1 .. (s + n) /\ j + 1 \in 1 .. (s + n) /\ s \in Nat
    BY <1>2, <1>6
  <2>1. CASE j + 1 \in 1 .. s
    <3>1. j \in 1 .. s
      BY <2>0, <2>1
    <3> QED
      BY <1>6, <1>9, <2>1, <3>1
  <2>2. CASE j = s
    <3>1. j \in 1 .. s /\ 1 \in 1 .. n
      BY <2>0, <2>2, <1>2
    <3>2. t[j] = r[j] /\ t[j + 1] = q[1]
      BY <1>6, <2>2, <3>1
    <3> QED
      BY <1>5, <1>9, <2>2, <3>1, <3>2
  <2>3. CASE j > s
    <3>1. j - s \in 1 .. (n - 1) /\ j - s \in 1 .. n /\ (j - s) + 1 \in 1 .. n
          /\ s + (j - s) = j /\ s + ((j - s) + 1) = j + 1
      BY <1>2, <1>6, <2>0, <2>3
    <3>2. t[j] = q[j - s] /\ t[j + 1] = q[(j - s) + 1]
      BY <1>6, <3>1
    <3> QED
      BY <1>2, <3>1, <3>2 DEF IsSimple, n
  <2> QED
    BY <2>0, <2>1, <2>2, <2>3
<1>11. ASSUME NEW i \in 1 .. Len(t), NEW j \in 1 .. Len(t), To[t[i]] = To[t[j]] PROVE i = j
  <2>1. CASE i \in 1 .. s /\ j \in 1 .. s
    BY <1>1, <1>3, <1>6, <1>11, <2>1 DEF IsSimple
  <2>2. CASE i \in 1 .. s /\ ~(j \in 1 .. s)
    <3>1. j - s \in 1 .. n /\ t[j] = q[j - s] /\ t[i] = r[i]
      BY <1>6, <1>7, <2>2
    <3> QED
      BY <1>8, <1>9, <1>11, <2>2, <3>1
  <2>3. CASE ~(i \in 1 .. s) /\ j \in 1 .. s
    <3>1. i - s \in 1 .. n /\ t[i] = q[i - s] /\ t[j] = r[j]
      BY <1>6, <1>7, <2>3
    <3> QED
      BY <1>8, <1>9, <1>11, <2>3, <3>1
  <2>4. CASE ~(i \in 1 .. s) /\ ~(j \in 1 .. s)
    <3>1. /\ i - s \in 1 .. n /\ t[i] = q[i - s] /\ i = s + (i - s)
          /\ j - s \in 1 .. n /\ t[j] = q[j - s] /\ j = s + (j - s)
      BY <1>6, <1>7, <2>4
    <3>2. i - s = j - s
      BY <1>2, <1>11, <3>1 DEF IsSimple, n
    <3> QED
      BY <3>1, <3>2
  <2> QED
    BY <2>1, <2>2, <2>3, <2>4
<1>12. From[t[1]] = From[r[1]]
  <2>1. CASE s = 0
    <3>1. t[0 + 1] = q[1]
      BY <1>2, <1>5, <1>6, <2>1
    <3> QED
      BY <1>5, <2>1, <3>1
  <2>2. CASE s # 0
    BY <1>6, <2>2
  <2> QED
    BY <2>1, <2>2
<1>13. ASSUME NEW j \in 1 .. Len(t) PROVE To[t[j]] # From[t[1]]
  <2>1. CASE j \in 1 .. s
    BY <1>1, <1>3, <1>6, <1>12, <2>1 DEF IsSimple
  <2>2. CASE ~(j \in 1 .. s)
    <3>1. j - s \in 1 .. n /\ t[j] = q[j - s] /\ 1 \in 1 .. (s + 1)
      BY <1>6, <1>7, <2>2
    <3> QED
      BY <1>8, <1>12, <3>1
  <2> QED
    BY <2>1, <2>2
<1>14. IsSimple(t)
  BY <1>6, <1>10, <1>11, <1>13 DEF IsSimple
<1>15. t # <<>> /\ From[t[1]] = u /\ To[t[Len(t)]] = v
  <2>1. Len(t) # 0 /\ n \in 1 .. n
    BY <1>2, <1>5, <1>6
  <2>2. t[Len(t)] = q[n]
    BY <1>6, <2>1
  <2>3. From[r[1]] = u
    BY <1>1 DEF Joining
  <2> QED
    BY <1>5, <1>12, <2>1, <2>2, <2>3
<1>16. t \in SimplePaths(u, v)
  BY <1>14, <1>15, SimplePathsAre DEF Joining
<1> QED
  BY <1>5, <1>16 DEF t, a

All == SimplePaths(kpair.src, kpair.dst)

PathRecs == [edges : Seq(Edges), cost : Int]

Listed(list, p) == \E i \in DOMAIN list : list[i].edges = p

Distinct(list) == \A i, j \in DOMAIN list : list[i].edges = list[j].edges => i = j

TruePaths(list) ==
    \A i \in DOMAIN list : list[i].edges \in All /\ list[i].cost = Cost(list[i].edges, FreeFlow)

\* p and q have their first n edges in common.
Agree(p, q, n) == n <= Len(p) /\ n <= Len(q) /\ \A m \in 1 .. n : p[m] = q[m]

\* p goes with some path of the list for n edges, and with none any further.
Leaves(list, p, n) ==
    /\ n < Len(p)
    /\ \E j \in DOMAIN list : Agree(p, list[j].edges, n)
    /\ \A j \in DOMAIN list : ~Agree(p, list[j].edges, n + 1)

\* A candidate that leaves the list where p does costs no more than p.
Covered(list, cands, p, n) ==
    \E c \in DOMAIN cands :
        /\ Agree(cands[c].edges, p, n) /\ Leaves(list, cands[c].edges, n)
        /\ cands[c].cost <= Cost(p, FreeFlow)

KTypes ==
    /\ kphase \in {"off", "first", "spur", "done"}
    /\ accepted \in Seq(PathRecs) /\ candidates \in Seq(PathRecs)

\* What is accepted is cheapest first.
InOrder ==
    \A i \in DOMAIN accepted : \A p \in All :
        (\A j \in 1 .. (i - 1) : p # accepted[j].edges) => accepted[i].cost <= Cost(p, FreeFlow)

AcceptedInv ==
    kphase # "off" =>
        /\ TruePaths(accepted) /\ Distinct(accepted) /\ InOrder
        /\ kphase = "done" => Len(accepted) = K \/ \A p \in All : Listed(accepted, p)

FirstInv ==
    kphase = "first" =>
        /\ kpair.src # kpair.dst /\ accepted = <<>> /\ candidates = <<>> /\ seen = {}
        /\ spurIndex = 0 /\ rootCost = 0

\* Where the round of spur searches stands.
RoundInv ==
    /\ kpair.src # kpair.dst /\ accepted # <<>> /\ Len(accepted) < K
    /\ spurIndex \in 0 .. Len(prev) /\ rootCost = Cost(Root(prev, spurIndex), FreeFlow)

\* Candidates are other paths, each of them once.
CandidatesInv ==
    /\ TruePaths(candidates) /\ Distinct(candidates)
    /\ \A i \in DOMAIN candidates : ~Listed(accepted, candidates[i].edges)
    /\ \A p : p \in seen <=> Listed(accepted, p) \/ Listed(candidates, p)

\* A path that leaves the accepted ones is covered, unless it goes with the last of
\* them as far as the searches of this round have not come.
CoverInv ==
    \A p \in All, n \in Nat :
        Leaves(accepted, p, n) /\ ~(Agree(p, prev, n) /\ n >= spurIndex)
            => Covered(accepted, candidates, p, n)

SpurInv == kphase = "spur" => RoundInv /\ CandidatesInv /\ CoverInv

YenInv == KTypes /\ AcceptedInv /\ FirstInv /\ SpurInv

LEMMA AllPaths ==
  ASSUME NEW u, NEW v, NEW p \in SimplePaths(u, v)
  PROVE  /\ p \in Seq(Edges) /\ Len(p) \in Nat /\ IsSimple(p) /\ Joining(p, u, v)
         /\ Cost(p, FreeFlow) \in Nat
<1>1. IsSimple(p) /\ Joining(p, u, v)
  BY SimplePathsAre
<1>2. p \in Seq(Edges) /\ FreeFlow \in [Edges -> Nat]
  BY <1>1, KShortestAssumption DEF IsSimple
<1> QED
  BY <1>1, <1>2, CostIsSum

LEMMA CheapestExists ==
  ASSUME NEW u, NEW v, NEW masked, NEW q \in SimplePaths(u, v), Range(q) \cap masked = {}
  PROVE  /\ Cheapest(u, v, FreeFlow, masked) # {}
         /\ \A p \in Cheapest(u, v, FreeFlow, masked) :
               Cost(p, FreeFlow) <= Cost(q, FreeFlow)
<1> DEFINE open == {p \in SimplePaths(u, v) : Range(p) \cap masked = {}}
           f == [p \in open |-> Cost(p, FreeFlow)]
<1>1. q \in open
  OBVIOUS
<1>2. open # {} /\ \A p \in open : f[p] \in Nat
  BY <1>1, AllPaths
<1>3. \A p \in open : f[p] = Cost(p, FreeFlow)
  OBVIOUS
<1>4. Cheapest(u, v, FreeFlow, masked) =
         {p \in open : \A other \in open : Cost(p, FreeFlow) <= Cost(other, FreeFlow)}
  BY DEF Cheapest
<1> HIDE DEF open, f
<1>5. \E p \in open : \A other \in open : f[p] <= f[other]
  BY <1>2, LeastValue
<1> QED
  BY <1>1, <1>3, <1>4, <1>5

LEMMA CheapestAre ==
  ASSUME NEW u, NEW v, NEW masked, NEW p \in Cheapest(u, v, FreeFlow, masked)
  PROVE  p \in SimplePaths(u, v) /\ Range(p) \cap masked = {}
BY DEF Cheapest

LEMMA AgreeWhole ==
  ASSUME NEW u, NEW v, NEW p \in SimplePaths(u, v), NEW q \in SimplePaths(u, v),
         Agree(p, q, Len(p))
  PROVE  p = q
<1>1. /\ p \in Seq(Edges) /\ Len(p) \in Nat /\ IsSimple(p) /\ Joining(p, u, v)
      /\ q \in Seq(Edges) /\ Len(q) \in Nat /\ IsSimple(q) /\ Joining(q, u, v)
  BY AllPaths
<1>2. Len(p) <= Len(q) /\ \A m \in 1 .. Len(p) : p[m] = q[m]
  BY DEF Agree
<1>3. Len(p) = Len(q)
  <2>1. CASE p = <<>>
    <3>1. q = <<>>
      <4> SUFFICES ASSUME q # <<>> PROVE FALSE
        OBVIOUS
      <4>1. Len(q) \in 1 .. Len(q)
        BY <1>1
      <4> QED
        BY <1>1, <2>1, <4>1 DEF Joining, IsSimple
    <3> QED
      BY <2>1, <3>1
  <2>2. CASE p # <<>>
    <3>1. Len(p) \in 1 .. Len(p) /\ Len(p) \in 1 .. Len(q) /\ Len(q) \in 1 .. Len(q) /\ q # <<>>
      BY <1>1, <1>2, <2>2
    <3>2. To[q[Len(p)]] = v /\ To[q[Len(q)]] = v
      BY <1>1, <1>2, <2>2, <3>1 DEF Joining
    <3> QED
      BY <1>1, <3>1, <3>2 DEF IsSimple
  <2> QED
    BY <2>1, <2>2
<1> QED
  BY <1>1, <1>2, <1>3, SeqEqual

LEMMA SameNode ==
  ASSUME NEW u, NEW v, NEW p \in SimplePaths(u, v), NEW q \in SimplePaths(u, v),
         NEW s \in Nat, Agree(p, q, s), s < Len(p), s < Len(q)
  PROVE  From[p[s + 1]] = From[q[s + 1]]
<1>1. /\ Len(p) \in Nat /\ IsSimple(p) /\ Joining(p, u, v)
      /\ Len(q) \in Nat /\ IsSimple(q) /\ Joining(q, u, v)
  BY AllPaths
<1>2. CASE s = 0
  BY <1>1, <1>2 DEF Joining
<1>3. CASE s # 0
  <2>1. s \in 1 .. (Len(p) - 1) /\ s \in 1 .. (Len(q) - 1) /\ s \in 1 .. s
    BY <1>1, <1>3
  <2>2. p[s] = q[s] /\ To[p[s]] = From[p[s + 1]] /\ To[q[s]] = From[q[s + 1]]
    BY <1>1, <2>1 DEF IsSimple, Agree
  <2> QED
    BY <2>2
<1> QED
  BY <1>2, <1>3

LEMMA RootsAgree ==
  ASSUME NEW p \in Seq(Edges), NEW q \in Seq(Edges), NEW s \in Nat, s <= Len(p), s <= Len(q)
  PROVE  Root(p, s) = Root(q, s) <=> Agree(p, q, s)
<1>1. s \in 0 .. Len(p) /\ s \in 0 .. Len(q)
  OBVIOUS
<1>2. /\ Root(p, s) \in Seq(Edges) /\ Len(Root(p, s)) = s /\ \A m \in 1 .. s : Root(p, s)[m] = p[m]
      /\ Root(q, s) \in Seq(Edges) /\ Len(Root(q, s)) = s /\ \A m \in 1 .. s : Root(q, s)[m] = q[m]
  BY <1>1, RootIs
<1>3. ASSUME Root(p, s) = Root(q, s) PROVE Agree(p, q, s)
  BY <1>2, <1>3 DEF Agree
<1>4. ASSUME Agree(p, q, s) PROVE Root(p, s) = Root(q, s)
  <2>1. \A m \in 1 .. Len(Root(p, s)) : Root(p, s)[m] = Root(q, s)[m]
    BY <1>2, <1>4 DEF Agree
  <2> QED
    BY <1>2, <2>1, SeqEqual
<1> QED
  BY <1>3, <1>4

\* A path that is not on the list leaves it somewhere.
LEMMA LeavesSomewhere ==
  ASSUME NEW u, NEW v, NEW list, list # <<>>, list \in Seq(PathRecs),
         \A i \in DOMAIN list : list[i].edges \in SimplePaths(u, v),
         NEW p \in SimplePaths(u, v), ~Listed(list, p)
  PROVE  \E n \in Nat : Leaves(list, p, n)
<1> SUFFICES ASSUME \A n \in Nat : ~Leaves(list, p, n) PROVE FALSE
  OBVIOUS
<1> DEFINE I == {n \in Nat : \E j \in DOMAIN list : Agree(p, list[j].edges, n)}
<1>0. Len(p) \in Nat /\ \A i \in DOMAIN list : Len(list[i].edges) \in Nat
  BY AllPaths
<1>1. 0 \in I
  <2>1. 1 \in DOMAIN list
    OBVIOUS
  <2>2. Agree(p, list[1].edges, 0)
    BY <1>0, <2>1 DEF Agree
  <2> QED
    BY <2>1, <2>2
<1>2. ASSUME NEW n \in Nat, n \in I PROVE n + 1 \in I
  <2>1. PICK j \in DOMAIN list : Agree(p, list[j].edges, n)
    BY <1>2
  <2>2. n <= Len(p)
    BY <2>1 DEF Agree
  <2>3. n # Len(p)
    BY <2>1, AgreeWhole DEF Listed
  <2>4. n < Len(p)
    BY <1>0, <2>2, <2>3
  <2>5. \E i \in DOMAIN list : Agree(p, list[i].edges, n + 1)
    BY <2>1, <2>4 DEF Leaves
  <2> QED
    BY <2>5
<1>3. Nat \subseteq I
  <2> HIDE DEF I
  <2> QED
    BY <1>1, <1>2, NatSetInduction
<1>4. Len(p) + 1 \in I
  BY <1>0, <1>3
<1>5. Len(p) + 1 <= Len(p)
  BY <1>4 DEF Agree
<1> QED
  BY <1>0, <1>5

LEMMA RootOneFurther ==
  ASSUME NEW r \in Seq(Edges), NEW s \in 0 .. (Len(r) - 1)
  PROVE  Cost(Root(r, s + 1), FreeFlow) = Cost(Root(r, s), FreeFlow) + FreeFlow[r[s + 1]]
<1>1. Len(r) \in Nat /\ s + 1 \in 0 .. Len(r) /\ s \in 0 .. Len(r) /\ r[s + 1] \in Edges
  OBVIOUS
<1>2. Root(r, s + 1) = Root(r, s) \o << r[s + 1] >>
  <2> DEFINE a == Root(r, s + 1)
             b == Root(r, s) \o << r[s + 1] >>
  <2>1. a \in Seq(Edges) /\ Len(a) = s + 1 /\ \A m \in 1 .. (s + 1) : a[m] = r[m]
    BY <1>1, RootIs
  <2>2. Root(r, s) \in Seq(Edges) /\ Len(Root(r, s)) = s /\ \A m \in 1 .. s : Root(r, s)[m] = r[m]
    BY <1>1, RootIs
  <2>3. b \in Seq(Edges) /\ Len(b) = s + 1
    BY <1>1, <2>2
  <2>4. ASSUME NEW m \in 1 .. (s + 1) PROVE a[m] = b[m]
    BY <1>1, <2>1, <2>2
  <2> HIDE DEF a, b
  <2>5. a = b
    BY <2>1, <2>3, <2>4, SeqEqual
  <2> QED
    BY <2>5 DEF a, b
<1>3. Root(r, s) \in Seq(Edges) /\ << r[s + 1] >> \in Seq(Edges) /\ FreeFlow \in [Edges -> Nat]
  BY <1>1, RootIs, KShortestAssumption
<1>4. Cost(Root(r, s) \o << r[s + 1] >>, FreeFlow)
         = Cost(Root(r, s), FreeFlow) + Cost(<< r[s + 1] >>, FreeFlow)
  BY <1>3, CostJoin
<1>5. Cost(<< r[s + 1] >>, FreeFlow) = FreeFlow[r[s + 1]]
  BY <1>1, <1>3, CostOne
<1> QED
  BY <1>2, <1>4, <1>5

LEMMA NoCost == Root(<<>>, 0) = <<>> /\ Cost(<<>>, FreeFlow) = 0
<1>1. <<>> \in Seq(Edges) /\ FreeFlow \in [Edges -> Nat] /\ Len(<<>>) = 0 /\ 1 .. 0 = {}
  BY KShortestAssumption
<1>2. Cost(<<>>, FreeFlow) = SumFunctionOnSet(Values(<<>>, FreeFlow), 1 .. Len(<<>>))
  BY <1>1, CostIsSum
<1>3. Cost(<<>>, FreeFlow) = 0
  BY <1>1, <1>2, SumEmpty
<1>4. Root(<<>>, 0) = <<>>
  BY DEF Root
<1> QED
  BY <1>3, <1>4

LEMMA NoRoot ==
  ASSUME NEW r \in Seq(Edges)
  PROVE  Root(r, 0) = <<>>
<1>1. Root(r, 0) \in Seq(Edges) /\ Len(Root(r, 0)) = 0
  BY RootIs
<1> QED
  BY <1>1

\* A sequence without its i-th element.
Without(c, i) == SubSeq(c, 1, i - 1) \o SubSeq(c, i + 1, Len(c))

IsWithout(r, c, i) ==
    /\ \A m \in DOMAIN r : \E j \in DOMAIN c : j # i /\ r[m] = c[j]
    /\ \A j \in DOMAIN c : j # i => \E m \in DOMAIN r : r[m] = c[j]
    /\ \A m, n \in DOMAIN r : m # n =>
          \E j, k \in DOMAIN c : j # k /\ r[m] = c[j] /\ r[n] = c[k]

LEMMA WithoutOne ==
  ASSUME NEW S, NEW c \in Seq(S), NEW i \in 1 .. Len(c), NEW r, r = Without(c, i)
  PROVE  r \in Seq(S) /\ IsWithout(r, c, i)
<1> DEFINE a == SubSeq(c, 1, i - 1)
           b == SubSeq(c, i + 1, Len(c))
<1>0. PICK n \in Nat : n = Len(c)
  OBVIOUS
<1>1. /\ n \in Nat /\ DOMAIN c = 1 .. n /\ n = Len(c) /\ i \in 1 .. n
      /\ n \in Int /\ i \in Int /\ i - 1 \in Int /\ i + 1 \in Int
      /\ \A j \in 1 .. n : c[j] \in S
  BY <1>0
<1>r. i \in Int /\ n \in Int /\ 1 <= i /\ i <= n
  BY <1>1
<1>2. a \in Seq(S) /\ Len(a) = i - 1 /\ \A m \in 1 .. (i - 1) : a[m] = c[m]
  <2>1. 1 \in Int /\ \A m \in 1 .. (i - 1) : c[m] \in S
    BY <1>1
  <2>2. /\ a \in Seq(S) /\ Len(a) = IF 1 <= i - 1 THEN i - 1 - 1 + 1 ELSE 0
        /\ \A m \in 1 .. i - 1 - 1 + 1 : a[m] = c[1 + m - 1]
    BY <1>1, <2>1, SubSeqProperties
  <2>3. i - 1 - 1 + 1 = i - 1 /\ \A m \in 1 .. (i - 1) : 1 + m - 1 = m
    BY <1>1
  <2>4. (IF 1 <= i - 1 THEN i - 1 ELSE 0) = i - 1
    BY <1>1
  <2> HIDE DEF a
  <2> QED
    BY <2>2, <2>3, <2>4
<1>3. b \in Seq(S) /\ Len(b) = n - i /\ \A m \in 1 .. (n - i) : b[m] = c[i + m]
  <2>1. \A m \in (i + 1) .. n : c[m] \in S
    BY <1>1
  <2>2. /\ b \in Seq(S) /\ Len(b) = IF i + 1 <= n THEN n - (i + 1) + 1 ELSE 0
        /\ \A m \in 1 .. n - (i + 1) + 1 : b[m] = c[i + 1 + m - 1]
    BY <1>1, <2>1, SubSeqProperties
  <2>3. n - (i + 1) + 1 = n - i /\ \A m \in 1 .. (n - i) : i + 1 + m - 1 = i + m
    BY <1>1
  <2> HIDE DEF a, b
  <2>4. (IF i + 1 <= n THEN n - i ELSE 0) = n - i
    <3>1. CASE i = n
      BY <1>1, <3>1
    <3>2. CASE i # n
      <4>1. i + 1 <= n
        BY <1>r, <3>2
      <4> QED
        BY <4>1
    <3> QED
      BY <3>1, <3>2
  <2> QED
    BY <2>2, <2>3, <2>4
<1>4. r = a \o b
  BY DEF Without
<1> HIDE DEF a, b
<1>5. r \in Seq(S) /\ Len(r) = n - 1 /\ DOMAIN r = 1 .. (n - 1)
  <2>1. a \o b \in Seq(S) /\ Len(a \o b) = (i - 1) + (n - i)
    <3>1. i - 1 \in Int /\ n - i \in Int
      BY <1>r
    <3> QED
      <4>1. a \o b \in Seq(S) /\ Len(a \o b) = Len(a) + Len(b)
        BY <1>2, <1>3, ConcatProperties
      <4> QED
        BY <1>2, <1>3, <4>1
  <2>2. (i - 1) + (n - i) = n - 1
    BY <1>1
  <2> QED
    BY <1>4, <2>1, <2>2
<1>6. /\ \A m \in 1 .. (i - 1) : r[m] = c[m]
      /\ \A m \in i .. (n - 1) : r[m] = c[m + 1]
  <2>1. ASSUME NEW m \in 1 .. (i - 1) PROVE r[m] = c[m]
    <3>1. m \in 1 .. (i - 1) + (n - i) /\ m <= i - 1
      BY <1>1
    <3>2. (a \o b)[m] = a[m]
      BY <1>1, <1>2, <1>3, <3>1
    <3> QED
      BY <1>2, <1>4, <3>2
  <2>2. ASSUME NEW m \in i .. (n - 1) PROVE r[m] = c[m + 1]
    <3>1. m - (i - 1) \in 1 .. (n - i) /\ i + (m - (i - 1)) = m + 1 /\ ~(m <= i - 1)
          /\ m \in 1 .. (i - 1) + (n - i)
      BY <1>1
    <3>2. (a \o b)[m] = b[m - (i - 1)]
      BY <1>1, <1>2, <1>3, <3>1
    <3> QED
      BY <1>3, <1>4, <3>1, <3>2
  <2> QED
    BY <2>1, <2>2
<1> DEFINE at == [m \in 1 .. (n - 1) |-> IF m < i THEN m ELSE m + 1]
<1>7. \A m \in 1 .. (n - 1) : at[m] \in 1 .. n /\ at[m] # i /\ r[m] = c[at[m]]
  <2> SUFFICES ASSUME NEW m \in 1 .. (n - 1)
               PROVE  at[m] \in 1 .. n /\ at[m] # i /\ r[m] = c[at[m]]
    OBVIOUS
  <2>1. CASE m < i
    <3>1. at[m] = m /\ m \in 1 .. (i - 1)
      BY <1>1, <2>1
    <3> QED
      BY <1>1, <1>6, <2>1, <3>1
  <2>2. CASE ~(m < i)
    <3>1. at[m] = m + 1 /\ m \in i .. (n - 1)
      BY <1>1, <2>2
    <3> QED
      BY <1>1, <1>6, <2>2, <3>1
  <2> QED
    BY <2>1, <2>2
<1>8. \A m, k \in 1 .. (n - 1) : m # k => at[m] # at[k]
  <2> SUFFICES ASSUME NEW m \in 1 .. (n - 1), NEW k \in 1 .. (n - 1), at[m] = at[k]
               PROVE  m = k
    OBVIOUS
  <2>1. m \in Int /\ k \in Int /\ i \in Int
    BY <1>1
  <2>2. at[m] = (IF m < i THEN m ELSE m + 1) /\ at[k] = (IF k < i THEN k ELSE k + 1)
    OBVIOUS
  <2> QED
    BY <2>1, <2>2
<1>9. ASSUME NEW j \in DOMAIN c, j # i PROVE \E m \in DOMAIN r : r[m] = c[j]
  <2>1. CASE j < i
    <3>1. j \in 1 .. (n - 1) /\ j \in 1 .. (i - 1)
      BY <1>1, <2>1
    <3> QED
      BY <1>5, <1>6, <3>1
  <2>2. CASE j > i
    <3>1. j - 1 \in 1 .. (n - 1) /\ j - 1 \in i .. (n - 1) /\ (j - 1) + 1 = j
      BY <1>1, <2>2
    <3> QED
      BY <1>5, <1>6, <3>1
  <2> QED
    BY <1>1, <1>9, <2>1, <2>2
<1> HIDE DEF at
<1>10. \A m, k \in DOMAIN r : m # k =>
          \E j, l \in DOMAIN c : j # l /\ r[m] = c[j] /\ r[k] = c[l]
  <2> SUFFICES ASSUME NEW m \in DOMAIN r, NEW k \in DOMAIN r, m # k
               PROVE  \E j, l \in DOMAIN c : j # l /\ r[m] = c[j] /\ r[k] = c[l]
    OBVIOUS
  <2>1. m \in 1 .. (n - 1) /\ k \in 1 .. (n - 1)
    BY <1>5
  <2>2. at[m] \in DOMAIN c /\ at[k] \in DOMAIN c /\ at[m] # at[k]
    BY <1>1, <1>7, <1>8, <2>1
  <2>3. r[m] = c[at[m]] /\ r[k] = c[at[k]]
    BY <1>7, <2>1
  <2> QED
    BY <2>2, <2>3, Zenon
<1>11. \A m \in DOMAIN r : \E j \in DOMAIN c : j # i /\ r[m] = c[j]
  BY <1>1, <1>5, <1>7
<1> QED
  BY <1>5, <1>9, <1>10, <1>11 DEF IsWithout

\* The continuations, in the paths of the list that go with r for s edges.
Masked(list, r, s) ==
    {list[i].edges[s + 1] : i \in
        {j \in DOMAIN list : Len(list[j].edges) > s /\ Agree(list[j].edges, r, s)}}

PathsOf(list, u, v) == \A i \in DOMAIN list : list[i].edges \in SimplePaths(u, v)

\* A candidate that leaves the accepted paths at s, as a spur search finds it.
\* A spur search from the s-th node of r, outside the masks, may find q.
SpurFrom(list, u, v, r, s, q) ==
    /\ PathsOf(list, u, v) /\ r \in SimplePaths(u, v) /\ Listed(list, r)
    /\ s \in 0 .. (Len(r) - 1)
    /\ q \in SimplePaths(From[r[s + 1]], v)
    /\ Range(q) \cap (Masked(list, r, s) \cup EdgesOfRoot(r, s)) = {}

LEMMA SpurLeaves ==
  ASSUME NEW u, NEW v, NEW list, NEW r, NEW s, NEW q, SpurFrom(list, u, v, r, s, q),
         NEW t, t = Root(r, s) \o q
  PROVE  /\ t \in SimplePaths(u, v) /\ ~Listed(list, t)
         /\ Agree(t, r, s) /\ Leaves(list, t, s)
<1>a. /\ PathsOf(list, u, v) /\ r \in SimplePaths(u, v) /\ Listed(list, r)
      /\ s \in 0 .. (Len(r) - 1)
      /\ q \in SimplePaths(From[r[s + 1]], v)
      /\ Range(q) \cap (Masked(list, r, s) \cup EdgesOfRoot(r, s)) = {}
  BY DEF SpurFrom
<1> USE <1>a
<1>0. \E j \in DOMAIN list : list[j].edges = r
  BY DEF Listed
<1>1. q # <<>> /\ t \in SimplePaths(u, v)
  <2>1. Range(q) \cap EdgesOfRoot(r, s) = {}
    OBVIOUS
  <2> HIDE DEF EdgesOfRoot
  <2> QED
    BY <2>1, JoinIsSimple
<1>2. /\ r \in Seq(Edges) /\ Len(r) \in Nat
      /\ q \in Seq(Edges) /\ Len(q) \in Nat
      /\ t \in Seq(Edges) /\ Len(t) \in Nat
  BY <1>1, AllPaths
<1>3. Root(r, s) \in Seq(Edges) /\ Len(Root(r, s)) = s /\ \A m \in 1 .. s : Root(r, s)[m] = r[m]
  <2>1. s \in 0 .. Len(r)
    BY <1>2
  <2> QED
    BY <1>2, <2>1, RootIs
<1> DEFINE a == Root(r, s)
<1> HIDE DEF a
<1>5. /\ Len(t) = s + Len(q) /\ Len(q) > 0
      /\ \A m \in 1 .. s : t[m] = r[m]
      /\ t[s + 1] = q[1]
  <2>1. t = a \o q /\ a \in Seq(Edges) /\ Len(a) = s /\ \A m \in 1 .. s : a[m] = r[m]
    BY <1>3 DEF a
  <2>2. Len(t) = s + Len(q) /\ Len(q) > 0
    <3>1. Len(a \o q) = Len(a) + Len(q)
      BY <1>2, <2>1, ConcatProperties
    <3>2. Len(q) # 0
      BY <1>1, <1>2
    <3> QED
      BY <1>2, <2>1, <3>1, <3>2
  <2>3. \A m \in 1 .. s : t[m] = r[m]
    BY <1>2, <2>1
  <2>4. s + 1 \in 1 .. (s + Len(q)) /\ ~(s + 1 <= s) /\ (s + 1) - s = 1
    BY <1>2, <2>2
  <2>5. t[s + 1] = q[1]
    BY <1>2, <2>1, <2>4
  <2> QED
    BY <2>2, <2>3, <2>5
<1>6. Agree(t, r, s) /\ s < Len(t) /\ s \in Nat
  BY <1>2, <1>5 DEF Agree
<1>7. ASSUME NEW j \in DOMAIN list PROVE ~Agree(t, list[j].edges, s + 1)
  <2> SUFFICES ASSUME Agree(t, list[j].edges, s + 1) PROVE FALSE
    OBVIOUS
  <2>1. Len(list[j].edges) \in Nat /\ s + 1 \in 1 .. (s + 1)
    BY AllPaths, <1>6 DEF PathsOf
  <2>2. Len(list[j].edges) > s /\ s < Len(r) /\ s \in Nat
    BY <1>2, <1>6, <2>1 DEF Agree
  <2>5. \A m \in 1 .. s : list[j].edges[m] = r[m]
    BY <1>5, <1>6 DEF Agree
  <2>6. Agree(list[j].edges, r, s)
    BY <1>2, <2>1, <2>2, <2>5 DEF Agree
  <2>3. list[j].edges[s + 1] \in Masked(list, r, s) /\ list[j].edges[s + 1] = q[1]
    BY <1>5, <2>1, <2>2, <2>6 DEF Agree, Masked
  <2>4. q[1] \in Range(q)
    BY <1>2, <1>5 DEF Range
  <2> QED
    BY <2>3, <2>4
<1>8. Leaves(list, t, s)
  BY <1>0, <1>6, <1>7 DEF Leaves
<1>9. ~Listed(list, t)
  <2> SUFFICES ASSUME NEW j \in DOMAIN list, list[j].edges = t PROVE FALSE
    BY DEF Listed
  <2>1. Agree(t, t, s + 1)
    BY <1>2, <1>5 DEF Agree
  <2> QED
    BY <1>7, <2>1
<1> QED
  BY <1>1, <1>6, <1>8, <1>9

\* A path that leaves them there has a rest that the search may find.
LEMMA RestIsOpen ==
  ASSUME NEW u, NEW v, NEW list, PathsOf(list, u, v),
         NEW r \in SimplePaths(u, v), Listed(list, r), NEW s \in 0 .. (Len(r) - 1),
         NEW p \in SimplePaths(u, v), Leaves(list, p, s), Agree(p, r, s)
  PROVE  \E q \in SimplePaths(From[r[s + 1]], v) :
            /\ Range(q) \cap (Masked(list, r, s) \cup EdgesOfRoot(r, s)) = {}
            /\ Cost(p, FreeFlow) = Cost(Root(r, s), FreeFlow) + Cost(q, FreeFlow)
<1>0. \E j \in DOMAIN list : list[j].edges = r
  BY DEF Listed
<1>1. /\ r \in Seq(Edges) /\ Len(r) \in Nat
      /\ p \in Seq(Edges) /\ Len(p) \in Nat /\ s < Len(p)
  BY AllPaths DEF Leaves
<1>2. s \in Nat /\ s < Len(r) /\ s \in 0 .. (Len(p) - 1) /\ s <= Len(p) /\ s <= Len(r)
  BY <1>1
<1>3. From[p[s + 1]] = From[r[s + 1]] /\ Root(p, s) = Root(r, s)
  BY <1>1, <1>2, SameNode, RootsAgree
<1>4. PICK q \in SimplePaths(From[p[s + 1]], v) :
            /\ q # <<>> /\ q[1] = p[s + 1]
            /\ Range(q) \cap EdgesOfRoot(p, s) = {}
            /\ \A m \in 2 .. Len(q) : From[q[m]] # From[p[s + 1]]
            /\ p = Root(p, s) \o q
  BY <1>2, RestIsSimple
<1>5. q \in Seq(Edges) /\ Len(q) \in Nat
  BY AllPaths
<1>6. EdgesOfRoot(p, s) = EdgesOfRoot(r, s)
  BY DEF EdgesOfRoot, Agree
<1>7. ASSUME NEW e \in Masked(list, r, s), e \in Range(q) PROVE FALSE
  <2>1. PICK j \in DOMAIN list : /\ e = list[j].edges[s + 1] /\ Len(list[j].edges) > s
                                 /\ Agree(list[j].edges, r, s)
    BY DEF Masked
  <2>2. list[j].edges \in SimplePaths(u, v) /\ Len(list[j].edges) \in Nat
    BY AllPaths DEF PathsOf
  <2>3. From[e] = From[r[s + 1]]
    BY <1>2, <2>1, <2>2, SameNode
  <2>4. PICK m \in 1 .. Len(q) : q[m] = e
    BY <1>5, <1>7 DEF Range
  <2>5. m = 1
    BY <1>3, <1>4, <1>5, <2>3, <2>4
  <2>6. p[s + 1] = list[j].edges[s + 1]
    BY <1>4, <2>1, <2>4, <2>5
  <2>7. \A m1 \in 1 .. s : p[m1] = list[j].edges[m1]
    BY <2>1 DEF Agree
  <2>8. Agree(p, list[j].edges, s + 1)
    BY <1>1, <1>2, <2>1, <2>2, <2>6, <2>7 DEF Agree
  <2> QED
    BY <2>8 DEF Leaves
<1>8. Range(q) \cap (Masked(list, r, s) \cup EdgesOfRoot(r, s)) = {}
  BY <1>4, <1>6, <1>7
<1>9. Root(r, s) \in Seq(Edges)
  BY <1>1, <1>2, RootIs
<1>10. Cost(p, FreeFlow) = Cost(Root(r, s), FreeFlow) + Cost(q, FreeFlow)
  <2>1. p = Root(r, s) \o q
    BY <1>3, <1>4
  <2>2. Cost(Root(r, s) \o q, FreeFlow) = Cost(Root(r, s), FreeFlow) + Cost(q, FreeFlow)
    BY <1>5, <1>9, CostJoin, KShortestAssumption
  <2> QED
    BY <2>1, <2>2
<1> QED
  BY <1>3, <1>4, <1>8, <1>10

LEMMA PathOfIs ==
  ASSUME NEW u, NEW v, NEW p \in SimplePaths(u, v)
  PROVE  pathOf(p) \in PathRecs /\ pathOf(p).edges = p /\ pathOf(p).cost = Cost(p, FreeFlow)
BY AllPaths DEF pathOf, PathRecs

\* A call with equal nodes has the empty path and no other.
LEMMA OnlyEmptyPath ==
  ASSUME NEW u, NEW p
  PROVE  p \in SimplePaths(u, u) <=> p = <<>>
<1>1. <<>> \in SimplePaths(u, u)
  <2>1. IsSimple(<<>>) /\ Joining(<<>>, u, u)
    BY DEF IsSimple, Joining
  <2> QED
    BY <2>1, SimplePathsAre
<1>2. ASSUME p \in SimplePaths(u, u), p # <<>> PROVE FALSE
  <2>1. p \in Seq(Edges) /\ Len(p) \in Nat /\ IsSimple(p) /\ Joining(p, u, u)
    BY <1>2, AllPaths
  <2>2. Len(p) \in 1 .. Len(p)
    BY <1>2, <2>1
  <2> QED
    BY <1>2, <2>1, <2>2 DEF IsSimple, Joining
<1> QED
  BY <1>1, <1>2

LEMMA YenInitially == KInit => YenInv
BY DEF KInit, YenInv, KTypes, AcceptedInv, FirstInv, SpurInv

LEMMA YenStutters == YenInv /\ UNCHANGED kVars => YenInv'
<1> SUFFICES ASSUME YenInv, UNCHANGED kVars PROVE YenInv'
  OBVIOUS
<1>1. All' = All /\ prev' = prev
  BY DEF kVars, All, prev
<1>2. KTypes' /\ FirstInv'
  BY DEF kVars, YenInv, KTypes, FirstInv
<1>3. AcceptedInv'
  BY <1>1 DEF kVars, YenInv, AcceptedInv, InOrder, TruePaths
<1>4. SpurInv'
  BY <1>1 DEF kVars, YenInv, SpurInv, RoundInv, CandidatesInv, CoverInv, TruePaths
<1> QED
  BY <1>2, <1>3, <1>4 DEF YenInv

LEMMA KCallStep == ASSUME NEW pair, KCall(pair) PROVE YenInv'
<1>1. CASE pair.src = pair.dst
  <2>1. /\ kphase' = "done" /\ kpair' = pair /\ accepted' = <<pathOf(<<>>)>> /\ candidates' = <<>>
        /\ All' = SimplePaths(pair.src, pair.src)
    BY <1>1 DEF KCall, All
  <2>2. \A p : p \in All' <=> p = <<>>
    BY <2>1, OnlyEmptyPath
  <2>3. /\ pathOf(<<>>) \in PathRecs /\ pathOf(<<>>).edges = <<>>
        /\ pathOf(<<>>).cost = Cost(<<>>, FreeFlow) /\ Cost(<<>>, FreeFlow) \in Nat
    BY <2>1, <2>2, PathOfIs, AllPaths
  <2>4. KTypes'
    BY <2>1, <2>3 DEF KTypes
  <2>5. TruePaths(accepted)'
    BY <2>1, <2>2, <2>3 DEF TruePaths
  <2>6. Distinct(accepted)'
    BY <2>1 DEF Distinct
  <2>7. InOrder'
    BY <2>1, <2>2, <2>3 DEF InOrder
  <2>8. \A p \in All' : Listed(accepted', p)
    BY <2>1, <2>2, <2>3 DEF Listed
  <2>9. AcceptedInv'
    BY <2>5, <2>6, <2>7, <2>8 DEF AcceptedInv
  <2>10. FirstInv' /\ SpurInv'
    BY <2>1 DEF FirstInv, SpurInv
  <2> QED
    BY <2>4, <2>9, <2>10 DEF YenInv
<1>2. CASE pair.src # pair.dst
  <2>1. /\ kphase' = "first" /\ kpair' = pair /\ accepted' = <<>> /\ candidates' = <<>>
        /\ seen' = {} /\ spurIndex' = 0 /\ rootCost' = 0
    BY <1>2 DEF KCall
  <2>2. KTypes' /\ FirstInv' /\ SpurInv'
    BY <1>2, <2>1 DEF KTypes, FirstInv, SpurInv
  <2>3. AcceptedInv'
    BY <2>1 DEF AcceptedInv, TruePaths, Distinct, InOrder
  <2> QED
    BY <2>2, <2>3 DEF YenInv
<1> QED
  BY <1>1, <1>2

LEMMA KFirstStep == YenInv /\ KFirst => YenInv'
<1> SUFFICES ASSUME YenInv, KFirst PROVE YenInv'
  OBVIOUS
<1> DEFINE u == kpair.src
           v == kpair.dst
           found == Cheapest(u, v, FreeFlow, {})
<1>1. /\ kphase = "first" /\ u # v /\ accepted = <<>> /\ candidates = <<>> /\ seen = {}
      /\ spurIndex = 0 /\ rootCost = 0 /\ KTypes
  BY DEF KFirst, YenInv, FirstInv
<1>2. All' = All /\ All = SimplePaths(u, v)
      /\ UNCHANGED <<kpair, candidates, spurIndex, rootCost>>
  BY DEF KFirst, All
<1> HIDE DEF u, v
<1>3. CASE found = {} /\ kphase' = "done" /\ UNCHANGED <<accepted, seen>>
  <2>1. All = {}
    <3> SUFFICES ASSUME NEW q \in All PROVE FALSE
      OBVIOUS
    <3>1. Range(q) \cap {} = {} /\ q \in SimplePaths(u, v)
      BY <1>2
    <3> HIDE DEF found
    <3> QED
      BY <1>3, <3>1, CheapestExists DEF found
  <2>2. AcceptedInv'
    BY <1>1, <1>2, <1>3, <2>1 DEF AcceptedInv, TruePaths, Distinct, InOrder
  <2>3. KTypes' /\ FirstInv' /\ SpurInv'
    BY <1>1, <1>2, <1>3 DEF KTypes, FirstInv, SpurInv
  <2> QED
    BY <2>2, <2>3 DEF YenInv
<1>4. ASSUME NEW p \in found, accepted' = <<pathOf(p)>>, seen' = {p},
             kphase' = IF K = 1 THEN "done" ELSE "spur"
      PROVE  YenInv'
  <2>1. p \in All
    BY <1>2, CheapestAre
  <2>2. /\ p \in SimplePaths(u, v) /\ p \in Seq(Edges) /\ Len(p) \in Nat /\ Cost(p, FreeFlow) \in Nat
        /\ pathOf(p) \in PathRecs /\ pathOf(p).edges = p /\ pathOf(p).cost = Cost(p, FreeFlow)
    BY <1>2, <2>1, AllPaths, PathOfIs
  <2>3. ASSUME NEW q \in All PROVE Cost(p, FreeFlow) <= Cost(q, FreeFlow)
    <3>1. Range(q) \cap {} = {} /\ q \in SimplePaths(u, v)
      BY <1>2
    <3> QED
      BY <3>1, CheapestExists
  <2> HIDE DEF found
  <2>4. /\ accepted' \in Seq(PathRecs) /\ Len(accepted') = 1 /\ DOMAIN accepted' = {1}
        /\ accepted'[1].edges = p /\ accepted'[1].cost = Cost(p, FreeFlow)
    BY <1>4, <2>2
  <2>5. KTypes'
    BY <1>1, <1>2, <1>4, <2>4 DEF KTypes
  <2>6. TruePaths(accepted)' /\ Distinct(accepted)'
    BY <1>2, <2>1, <2>4 DEF TruePaths, Distinct
  <2>7. InOrder'
    BY <1>2, <2>3, <2>4 DEF InOrder
  <2>8. AcceptedInv'
    BY <1>4, <2>4, <2>6, <2>7 DEF AcceptedInv
  <2>9. FirstInv'
    BY <1>4 DEF FirstInv
  <2>10. ASSUME kphase' = "spur" PROVE (RoundInv /\ CandidatesInv /\ CoverInv)'
    <3>1. prev' = p /\ spurIndex' = 0 /\ rootCost' = 0 /\ candidates' = <<>>
      BY <1>1, <1>2, <2>4 DEF prev
    <3>2. Len(accepted') < K
      BY <1>4, <2>4, <2>10, KShortestAssumption
    <3>3. kpair'.src # kpair'.dst /\ accepted' # <<>>
      <4>1. kpair' = kpair
        BY <1>2
      <4>2. kpair.src # kpair.dst
        BY <1>1 DEF u, v
      <4> QED
        BY <2>4, <4>1, <4>2
    <3>4. rootCost' = Cost(Root(p, 0), FreeFlow)
      BY <2>2, <3>1, NoRoot, NoCost
    <3>5. RoundInv'
      BY <2>2, <3>1, <3>2, <3>3, <3>4 DEF RoundInv
    <3>6. CandidatesInv'
      BY <1>4, <2>4, <3>1 DEF CandidatesInv, TruePaths, Distinct, Listed
    <3>7. CoverInv'
      <4>1. \A q, n : Leaves(accepted', q, n) /\ n \in Nat => Agree(q, p, n) /\ n >= 0
        BY <2>4 DEF Leaves
      <4> QED
        BY <3>1, <4>1 DEF CoverInv
    <3> QED
      BY <3>5, <3>6, <3>7
  <2>11. SpurInv'
    BY <2>10 DEF SpurInv
  <2> QED
    BY <2>5, <2>8, <2>9, <2>11 DEF YenInv
<1> QED
  BY <1>3, <1>4 DEF KFirst, u, v

\* Where the search is: the last accepted path and the accepted ones are paths of the pair.
LEMMA SpurPaths ==
  ASSUME YenInv, kphase = "spur"
  PROVE  /\ PathsOf(accepted, kpair.src, kpair.dst) /\ accepted \in Seq(PathRecs)
         /\ prev \in All /\ prev \in Seq(Edges) /\ Len(prev) \in Nat /\ Listed(accepted, prev)
         /\ RoundInv /\ CandidatesInv /\ CoverInv /\ candidates \in Seq(PathRecs)
         /\ TruePaths(accepted) /\ Distinct(accepted) /\ InOrder
<1>1. /\ accepted \in Seq(PathRecs) /\ candidates \in Seq(PathRecs)
      /\ TruePaths(accepted) /\ Distinct(accepted) /\ InOrder
      /\ RoundInv /\ CandidatesInv /\ CoverInv
  BY DEF YenInv, KTypes, AcceptedInv, SpurInv
<1>2. accepted # <<>>
  BY <1>1 DEF RoundInv
<1>3. Len(accepted) \in DOMAIN accepted
  BY <1>1, <1>2
<1>4. Listed(accepted, prev) /\ prev \in All
  BY <1>1, <1>3 DEF Listed, prev, TruePaths
<1>5. PathsOf(accepted, kpair.src, kpair.dst)
  BY <1>1 DEF PathsOf, TruePaths, All
<1>6. prev \in Seq(Edges) /\ Len(prev) \in Nat
  BY <1>4, AllPaths DEF All
<1> QED
  BY <1>1, <1>4, <1>5, <1>6

\* What the code masks is what the lemmas call masked.
LEMMA MasksAre ==
  ASSUME YenInv, kphase = "spur", spurIndex < Len(prev)
  PROVE  /\ rootEdges = Root(prev, spurIndex)
         /\ maskedEdges \cup edgesOfMaskedNodes
               = Masked(accepted, prev, spurIndex) \cup EdgesOfRoot(prev, spurIndex)
<1>1. /\ PathsOf(accepted, kpair.src, kpair.dst) /\ prev \in Seq(Edges) /\ Len(prev) \in Nat
      /\ spurIndex \in 0 .. Len(prev)
  BY SpurPaths DEF RoundInv
<1>2. rootEdges = Root(prev, spurIndex)
  BY DEF rootEdges, Root
<1>3. ASSUME NEW j \in DOMAIN accepted, Len(accepted[j].edges) > spurIndex
      PROVE  SubSeq(accepted[j].edges, 1, spurIndex) = rootEdges
                <=> Agree(accepted[j].edges, prev, spurIndex)
  <2>1. accepted[j].edges \in Seq(Edges) /\ Len(accepted[j].edges) \in Nat
    BY <1>1, AllPaths DEF PathsOf
  <2>2. spurIndex \in Nat /\ spurIndex <= Len(accepted[j].edges) /\ spurIndex <= Len(prev)
    BY <1>1, <1>3, <2>1
  <2>3. Root(accepted[j].edges, spurIndex) = Root(prev, spurIndex)
           <=> Agree(accepted[j].edges, prev, spurIndex)
    BY <1>1, <2>1, <2>2, RootsAgree
  <2> QED
    BY <1>2, <2>3 DEF Root
<1>4. maskedEdges = Masked(accepted, prev, spurIndex)
  <2>1. {j \in DOMAIN accepted : /\ Len(accepted[j].edges) > spurIndex
                                 /\ SubSeq(accepted[j].edges, 1, spurIndex) = rootEdges}
        = {j \in DOMAIN accepted : /\ Len(accepted[j].edges) > spurIndex
                                   /\ Agree(accepted[j].edges, prev, spurIndex)}
    BY <1>3
  <2> QED
    BY <2>1 DEF maskedEdges, Masked
<1>5. edgesOfMaskedNodes = EdgesOfRoot(prev, spurIndex)
  <2>1. /\ Root(prev, spurIndex) \in Seq(Edges) /\ Len(Root(prev, spurIndex)) = spurIndex
        /\ \A m \in 1 .. spurIndex : Root(prev, spurIndex)[m] = prev[m]
    BY <1>1, RootIs
  <2>2. DOMAIN Root(prev, spurIndex) = 1 .. spurIndex
    BY <2>1
  <2>3. Range(rootEdges) = {prev[m] : m \in 1 .. spurIndex}
    BY <1>2, <2>1, <2>2 DEF Range
  <2> QED
    BY <2>3 DEF edgesOfMaskedNodes, EdgesOfRoot
<1> QED
  BY <1>2, <1>4, <1>5

\* A path that leaves the accepted ones along prev, where the search is, is covered by
\* what the search finds.
LEMMA KSpurCovers ==
  ASSUME YenInv, kphase = "spur", spurIndex < Len(prev), NEW masked,
         masked = Masked(accepted, prev, spurIndex) \cup EdgesOfRoot(prev, spurIndex),
         NEW p \in All, Leaves(accepted, p, spurIndex), Agree(p, prev, spurIndex),
         NEW found, found = Cheapest(From[prev[spurIndex + 1]], kpair.dst, FreeFlow, masked)
  PROVE  /\ found # {}
         /\ \A q \in found :
               rootCost + Cost(q, FreeFlow) <= Cost(p, FreeFlow)
<1> DEFINE a == From[prev[spurIndex + 1]]
           v == kpair.dst
           c == Cost(Root(prev, spurIndex), FreeFlow)
<1>1. /\ PathsOf(accepted, kpair.src, v) /\ prev \in SimplePaths(kpair.src, v)
      /\ Listed(accepted, prev) /\ prev \in Seq(Edges) /\ Len(prev) \in Nat
      /\ spurIndex \in 0 .. Len(prev) /\ rootCost = c /\ p \in SimplePaths(kpair.src, v)
  BY SpurPaths DEF RoundInv, All
<1>2. spurIndex \in 0 .. (Len(prev) - 1)
  BY <1>1
<1>3. c \in Nat
  <2>1. Root(prev, spurIndex) \in Seq(Edges) /\ FreeFlow \in [Edges -> Nat]
    BY <1>1, RootIs, KShortestAssumption
  <2> QED
    BY <2>1, CostIsSum
<1>4. PICK q \in SimplePaths(a, v) :
         /\ Range(q) \cap masked = {}
         /\ Cost(p, FreeFlow) = c + Cost(q, FreeFlow)
  BY <1>1, <1>2, RestIsOpen
<1> HIDE DEF a, v, c
<1>5. /\ Cheapest(a, v, FreeFlow, masked) # {}
      /\ \A t \in Cheapest(a, v, FreeFlow, masked) : Cost(t, FreeFlow) <= Cost(q, FreeFlow)
  BY <1>4, CheapestExists
<1>6. found = Cheapest(a, v, FreeFlow, masked)
  BY DEF a, v
<1>7. ASSUME NEW t \in found PROVE rootCost + Cost(t, FreeFlow) <= Cost(p, FreeFlow)
  <2>1. t \in SimplePaths(a, v)
    BY <1>6, CheapestAre
  <2>2. Cost(t, FreeFlow) \in Nat /\ Cost(q, FreeFlow) \in Nat
    BY <1>4, <2>1, AllPaths
  <2>3. Cost(t, FreeFlow) <= Cost(q, FreeFlow)
    BY <1>5, <1>6
  <2> QED
    BY <1>1, <1>3, <1>4, <2>2, <2>3
<1> QED
  BY <1>5, <1>6, <1>7

LEMMA RoundGoesOn ==
  ASSUME YenInv, kphase = "spur", KSpur
  PROVE  RoundInv' /\ prev' = prev /\ All' = All
<1>1. /\ spurIndex < Len(prev) /\ spurIndex' = spurIndex + 1
      /\ rootCost' = rootCost + FreeFlow[prev[spurIndex + 1]]
      /\ kphase' = kphase /\ kpair' = kpair /\ accepted' = accepted
  BY DEF KSpur
<1>2. prev' = prev /\ All' = All
  BY <1>1 DEF prev, All
<1>3. /\ kpair.src # kpair.dst /\ accepted # <<>> /\ Len(accepted) < K
      /\ spurIndex \in 0 .. Len(prev) /\ rootCost = Cost(Root(prev, spurIndex), FreeFlow)
      /\ prev \in Seq(Edges) /\ Len(prev) \in Nat
  BY SpurPaths DEF RoundInv
<1>4. spurIndex \in 0 .. (Len(prev) - 1) /\ spurIndex + 1 \in 0 .. Len(prev)
  BY <1>1, <1>3
<1>5. rootCost' = Cost(Root(prev, spurIndex + 1), FreeFlow)
  BY <1>1, <1>3, <1>4, RootOneFurther
<1> QED
  BY <1>1, <1>2, <1>3, <1>4, <1>5 DEF RoundInv

\* The search changes nothing: what it would have to cover is none, or covered.
LEMMA KSpurIdle ==
  ASSUME YenInv, kphase = "spur", KSpur, UNCHANGED <<candidates, seen>>,
         \A p \in All : Leaves(accepted, p, spurIndex) /\ Agree(p, prev, spurIndex)
              => Covered(accepted, candidates, p, spurIndex)
  PROVE  CandidatesInv' /\ CoverInv'
<1>1. /\ spurIndex' = spurIndex + 1 /\ accepted' = accepted /\ candidates' = candidates
      /\ seen' = seen /\ prev' = prev /\ All' = All /\ spurIndex \in Nat
  <2>1. prev' = prev /\ All' = All /\ spurIndex' = spurIndex + 1 /\ accepted' = accepted
    BY RoundGoesOn DEF KSpur
  <2>2. spurIndex \in 0 .. Len(prev) /\ Len(prev) \in Nat
    BY SpurPaths DEF RoundInv
  <2> QED
    BY <2>1, <2>2
<1>2. CandidatesInv'
  BY <1>1, SpurPaths DEF CandidatesInv, TruePaths
<1>3. ASSUME NEW p \in All, NEW n \in Nat, Leaves(accepted, p, n),
             ~(Agree(p, prev, n) /\ n >= spurIndex + 1)
      PROVE  Covered(accepted, candidates, p, n)
  <2>1. CASE Agree(p, prev, n) /\ n = spurIndex
    BY <1>3, <2>1
  <2>2. CASE ~(Agree(p, prev, n) /\ n = spurIndex)
    <3>1. ~(Agree(p, prev, n) /\ n >= spurIndex)
      BY <1>1, <1>3, <2>2
    <3> QED
      BY <1>3, <3>1, SpurPaths DEF CoverInv
  <2> QED
    BY <2>1, <2>2
<1>4. CoverInv'
  BY <1>1, <1>3 DEF CoverInv
<1> QED
  BY <1>2, <1>4

\* Further candidates do not undo a cover.
LEMMA StillCovered ==
  ASSUME NEW list, NEW cands \in Seq(PathRecs), NEW c \in PathRecs, NEW p, NEW n,
         Covered(list, cands, p, n)
  PROVE  Covered(list, Append(cands, c), p, n)
<1>1. PICK i \in DOMAIN cands :
         /\ Agree(cands[i].edges, p, n) /\ Leaves(list, cands[i].edges, n)
         /\ cands[i].cost <= Cost(p, FreeFlow)
  BY DEF Covered
<1>2. i \in DOMAIN Append(cands, c) /\ Append(cands, c)[i] = cands[i]
  <2>1. DOMAIN Append(cands, c) = 1 .. Len(cands) + 1 /\ i \in 1 .. Len(cands)
        /\ Len(cands) \in Nat
    OBVIOUS
  <2> QED
    BY <2>1
<1> QED
  BY <1>1, <1>2 DEF Covered

\* The search finds a new candidate.
LEMMA KSpurFinds ==
  ASSUME YenInv, kphase = "spur", KSpur, NEW t \in All, NEW c \in PathRecs,
         c.edges = t, c.cost = Cost(t, FreeFlow), ~Listed(accepted, t), t \notin seen,
         Agree(t, prev, spurIndex), Leaves(accepted, t, spurIndex),
         seen' = seen \cup {t}, candidates' = Append(candidates, c),
         \A p \in All : Leaves(accepted, p, spurIndex) /\ Agree(p, prev, spurIndex)
              => c.cost <= Cost(p, FreeFlow)
  PROVE  CandidatesInv' /\ CoverInv'
<1> DEFINE cands == Append(candidates, c)
<1>1. /\ spurIndex' = spurIndex + 1 /\ accepted' = accepted
      /\ prev' = prev /\ All' = All /\ spurIndex \in Nat
  <2>1. prev' = prev /\ All' = All /\ spurIndex' = spurIndex + 1 /\ accepted' = accepted
    BY RoundGoesOn DEF KSpur
  <2>2. spurIndex \in 0 .. Len(prev) /\ Len(prev) \in Nat
    BY SpurPaths DEF RoundInv
  <2> QED
    BY <2>1, <2>2
<1>2. candidates \in Seq(PathRecs) /\ CandidatesInv /\ CoverInv
  BY SpurPaths
<1>3. /\ \A i \in DOMAIN candidates : i \in DOMAIN cands /\ cands[i] = candidates[i]
      /\ \A i \in DOMAIN cands : i = Len(candidates) + 1 \/ i \in DOMAIN candidates
      /\ Len(candidates) + 1 \in DOMAIN cands /\ cands[Len(candidates) + 1] = c
  BY <1>2
<1>4. candidates' = cands
  OBVIOUS
<1> HIDE DEF cands
<1>5. ~Listed(candidates, t)
  BY <1>2 DEF CandidatesInv
<1>6. \A p : Listed(cands, p) <=> Listed(candidates, p) \/ p = t
  BY <1>3 DEF Listed
<1>7. TruePaths(candidates)'
  BY <1>1, <1>2, <1>3, <1>4 DEF CandidatesInv, TruePaths
<1>8. Distinct(candidates)'
  BY <1>2, <1>3, <1>4, <1>5 DEF CandidatesInv, Distinct, Listed
<1>9. \A i \in DOMAIN cands : ~Listed(accepted, cands[i].edges)
  BY <1>2, <1>3 DEF CandidatesInv
<1>10. \A p : p \in seen' <=> Listed(accepted, p) \/ Listed(cands, p)
  BY <1>2, <1>6 DEF CandidatesInv
<1>11. CandidatesInv'
  BY <1>1, <1>4, <1>7, <1>8, <1>9, <1>10 DEF CandidatesInv
<1>12. ASSUME NEW p \in All, NEW n \in Nat, Leaves(accepted, p, n),
             ~(Agree(p, prev, n) /\ n >= spurIndex + 1)
      PROVE  Covered(accepted, cands, p, n)
  <2>1. CASE Agree(p, prev, n) /\ n = spurIndex
    <3>1. c.cost <= Cost(p, FreeFlow)
      BY <1>12, <2>1
    <3>2. Agree(t, p, n)
      BY <1>12, <2>1 DEF Agree, Leaves
    <3> QED
      BY <1>3, <2>1, <3>1, <3>2 DEF Covered
  <2>2. CASE ~(Agree(p, prev, n) /\ n = spurIndex)
    <3>1. ~(Agree(p, prev, n) /\ n >= spurIndex)
      BY <1>1, <1>12, <2>2
    <3>2. Covered(accepted, candidates, p, n)
      BY <1>2, <1>12, <3>1 DEF CoverInv
    <3> QED
      BY <1>2, <3>2, StillCovered DEF cands
  <2> QED
    BY <2>1, <2>2
<1>13. CoverInv'
  BY <1>1, <1>4, <1>12 DEF CoverInv
<1> QED
  BY <1>11, <1>13

LEMMA KSpurStep == YenInv /\ KSpur => YenInv'
<1> SUFFICES ASSUME YenInv, KSpur PROVE YenInv'
  OBVIOUS
<1> DEFINE a == From[prev[spurIndex + 1]]
           v == kpair.dst
           masked == Masked(accepted, prev, spurIndex) \cup EdgesOfRoot(prev, spurIndex)
           found == Cheapest(a, v, FreeFlow, masked)
<1>1. /\ kphase = "spur" /\ spurIndex < Len(prev) /\ kphase' = "spur" /\ accepted' = accepted
  BY DEF KSpur
<1>2. /\ PathsOf(accepted, kpair.src, v) /\ prev \in SimplePaths(kpair.src, v)
      /\ Listed(accepted, prev) /\ prev \in Seq(Edges) /\ Len(prev) \in Nat
      /\ spurIndex \in 0 .. Len(prev) /\ rootCost = Cost(Root(prev, spurIndex), FreeFlow)
      /\ candidates \in Seq(PathRecs) /\ CandidatesInv
  BY <1>1, SpurPaths DEF RoundInv, All
<1>3. spurIndex \in 0 .. (Len(prev) - 1)
  BY <1>1, <1>2
<1>4. \/ found = {} /\ UNCHANGED <<candidates, seen>>
      \/ \E q \in found :
            LET total == Root(prev, spurIndex) \o q IN
            IF total \in seen THEN UNCHANGED <<candidates, seen>>
            ELSE /\ seen' = seen \cup {total}
                 /\ candidates' = Append(candidates,
                        [edges |-> total, cost |-> rootCost + Cost(q, FreeFlow)])
  BY <1>1, MasksAre DEF KSpur
<1>5. ASSUME NEW p \in All, Leaves(accepted, p, spurIndex), Agree(p, prev, spurIndex)
      PROVE  found # {} /\ \A q \in found : rootCost + Cost(q, FreeFlow) <= Cost(p, FreeFlow)
  BY <1>1, <1>5, KSpurCovers
<1>6. ASSUME NEW q \in found, NEW t, t = Root(prev, spurIndex) \o q
      PROVE  /\ t \in All /\ t \in Seq(Edges) /\ ~Listed(accepted, t)
             /\ Cost(t, FreeFlow) = rootCost + Cost(q, FreeFlow) /\ Cost(t, FreeFlow) \in Nat
             /\ Agree(t, prev, spurIndex) /\ Leaves(accepted, t, spurIndex)
  <2>1. q \in SimplePaths(a, v) /\ Range(q) \cap masked = {}
    BY CheapestAre
  <2>2. /\ t \in SimplePaths(kpair.src, kpair.dst) /\ ~Listed(accepted, t)
        /\ Agree(t, prev, spurIndex) /\ Leaves(accepted, t, spurIndex)
    <3>1. /\ q \in SimplePaths(From[prev[spurIndex + 1]], kpair.dst)
          /\ Range(q) \cap (Masked(accepted, prev, spurIndex) \cup EdgesOfRoot(prev, spurIndex)) = {}
          /\ PathsOf(accepted, kpair.src, kpair.dst) /\ prev \in SimplePaths(kpair.src, kpair.dst)
          /\ Listed(accepted, prev)
      BY <1>2, <2>1
    <3>2. SpurFrom(accepted, kpair.src, kpair.dst, prev, spurIndex, q)
      BY <1>3, <3>1 DEF SpurFrom
    <3> HIDE DEF a, v, masked, found
    <3> QED
      BY <1>6, <3>2, SpurLeaves
  <2>3. t \in Seq(Edges) /\ Cost(t, FreeFlow) \in Nat
    BY <2>2, AllPaths
  <2>4. Cost(t, FreeFlow) = rootCost + Cost(q, FreeFlow)
    <3>1. Root(prev, spurIndex) \in Seq(Edges) /\ q \in Seq(Edges) /\ FreeFlow \in [Edges -> Nat]
      BY <1>2, <2>1, RootIs, AllPaths, KShortestAssumption
    <3> QED
      BY <1>2, <1>6, <3>1, CostJoin
  <2> QED
    BY <1>2, <2>2, <2>3, <2>4 DEF All
<1> HIDE DEF found
<1>7. CandidatesInv' /\ CoverInv'
  <2>1. CASE found = {} /\ UNCHANGED <<candidates, seen>>
    BY <1>1, <1>5, <2>1, KSpurIdle
  <2>2. ASSUME NEW q \in found, NEW t, t = Root(prev, spurIndex) \o q, t \in seen,
               UNCHANGED <<candidates, seen>>
        PROVE  CandidatesInv' /\ CoverInv'
    <3>0. /\ ~Listed(accepted, t) /\ Cost(t, FreeFlow) = rootCost + Cost(q, FreeFlow)
          /\ Agree(t, prev, spurIndex) /\ Leaves(accepted, t, spurIndex)
      BY <1>6, <2>2
    <3>1. PICK i \in DOMAIN candidates : candidates[i].edges = t
      BY <1>2, <2>2, <3>0 DEF CandidatesInv, Listed
    <3>2. candidates[i].cost = Cost(t, FreeFlow)
      BY <1>2, <3>1 DEF CandidatesInv, TruePaths
    <3>3. ASSUME NEW p \in All, Leaves(accepted, p, spurIndex), Agree(p, prev, spurIndex)
          PROVE  Covered(accepted, candidates, p, spurIndex)
      <4>1. candidates[i].cost <= Cost(p, FreeFlow)
        BY <1>5, <3>0, <3>2, <3>3
      <4>2. Agree(t, p, spurIndex)
        BY <3>0, <3>3 DEF Agree
      <4> QED
        BY <3>0, <3>1, <4>1, <4>2 DEF Covered
    <3> QED
      BY <1>1, <2>2, <3>3, KSpurIdle
  <2>3. ASSUME NEW q \in found, NEW t, t = Root(prev, spurIndex) \o q, t \notin seen,
               seen' = seen \cup {t},
               candidates' = Append(candidates, [edges |-> t, cost |-> rootCost + Cost(q, FreeFlow)])
        PROVE  CandidatesInv' /\ CoverInv'
    <3>0. /\ t \in All /\ t \in Seq(Edges) /\ ~Listed(accepted, t)
          /\ Cost(t, FreeFlow) = rootCost + Cost(q, FreeFlow) /\ Cost(t, FreeFlow) \in Nat
          /\ Agree(t, prev, spurIndex) /\ Leaves(accepted, t, spurIndex)
      BY <1>6, <2>3
    <3> DEFINE c == [edges |-> t, cost |-> rootCost + Cost(q, FreeFlow)]
    <3>1. c \in PathRecs /\ c.edges = t /\ c.cost = rootCost + Cost(q, FreeFlow)
      BY <3>0 DEF PathRecs
    <3>2. candidates' = Append(candidates, c)
      BY <2>3
    <3> HIDE DEF c
    <3>3. \A p \in All : Leaves(accepted, p, spurIndex) /\ Agree(p, prev, spurIndex)
              => c.cost <= Cost(p, FreeFlow)
      BY <1>5, <3>1
    <3> QED
      BY <1>1, <2>3, <3>0, <3>1, <3>2, <3>3, KSpurFinds
  <2> QED
    BY <1>4, <2>1, <2>2, <2>3
<1>8. SpurInv'
  BY <1>1, <1>7, RoundGoesOn DEF SpurInv
<1>9. FirstInv'
  BY <1>1 DEF FirstInv
<1>10. AcceptedInv'
  <2>1. All' = All
    BY <1>1, RoundGoesOn
  <2> QED
    BY <1>1, <2>1 DEF YenInv, AcceptedInv, TruePaths, InOrder
<1>11. KTypes'
  <2>1. candidates' \in Seq(PathRecs)
    <3>1. CASE found = {} /\ UNCHANGED <<candidates, seen>>
      BY <1>2, <3>1
    <3>2. ASSUME NEW q \in found, NEW t, t = Root(prev, spurIndex) \o q,
                 candidates' = Append(candidates, [edges |-> t, cost |-> rootCost + Cost(q, FreeFlow)])
          PROVE  candidates' \in Seq(PathRecs)
      <4>1. t \in Seq(Edges) /\ rootCost + Cost(q, FreeFlow) \in Nat
        BY <1>6, <3>2
      <4>2. [edges |-> t, cost |-> rootCost + Cost(q, FreeFlow)] \in PathRecs
        BY <4>1 DEF PathRecs
      <4> HIDE DEF PathRecs
      <4> QED
        BY <1>2, <3>2, <4>2
    <3> QED
      BY <1>2, <1>4, <3>1, <3>2
  <2> QED
    BY <1>1, <2>1 DEF YenInv, KTypes
<1> QED
  BY <1>8, <1>9, <1>10, <1>11 DEF YenInv

\* At the end of a round every path that leaves the accepted ones is covered.
LEMMA AllCovered ==
  ASSUME YenInv, kphase = "spur", spurIndex = Len(prev), NEW p \in All, NEW n \in Nat,
         Leaves(accepted, p, n)
  PROVE  Covered(accepted, candidates, p, n)
<1>1. prev \in All /\ Len(prev) \in Nat /\ CoverInv
  BY SpurPaths
<1>2. Len(p) \in Nat
  BY AllPaths DEF All
<1>3. ASSUME Agree(p, prev, n), n >= spurIndex PROVE FALSE
  <2>1. n = Len(prev) /\ n < Len(p)
    BY <1>1, <1>3 DEF Agree, Leaves
  <2>2. Agree(prev, p, Len(prev))
    BY <1>1, <1>2, <1>3, <2>1 DEF Agree
  <2>3. prev = p
    BY <1>1, <2>2, AgreeWhole DEF All
  <2> QED
    BY <1>1, <2>1, <2>3
<1> QED
  BY <1>1, <1>3 DEF CoverInv

\* So a path that is not accepted costs no less than some candidate.
LEMMA CandidateBelow ==
  ASSUME YenInv, kphase = "spur", spurIndex = Len(prev), NEW p \in All, ~Listed(accepted, p)
  PROVE  \E c \in DOMAIN candidates : candidates[c].cost <= Cost(p, FreeFlow)
<1>1. /\ accepted # <<>> /\ accepted \in Seq(PathRecs)
      /\ \A i \in DOMAIN accepted : accepted[i].edges \in SimplePaths(kpair.src, kpair.dst)
      /\ p \in SimplePaths(kpair.src, kpair.dst)
  BY SpurPaths DEF RoundInv, PathsOf, All
<1>2. PICK n \in Nat : Leaves(accepted, p, n)
  BY <1>1, LeavesSomewhere
<1>3. Covered(accepted, candidates, p, n)
  BY <1>2, AllCovered
<1> QED
  BY <1>3 DEF Covered

LEMMA KAcceptEnds ==
  ASSUME YenInv, kphase = "spur", spurIndex = Len(prev), candidates = <<>>, kphase' = "done",
         UNCHANGED <<accepted, candidates, kpair>>
  PROVE  YenInv'
<1>1. ASSUME NEW p \in All PROVE Listed(accepted, p)
  BY CandidateBelow
<1>2. All' = All
  BY DEF All
<1>3. AcceptedInv'
  BY <1>1, <1>2, SpurPaths DEF AcceptedInv, TruePaths, InOrder
<1>4. KTypes' /\ FirstInv' /\ SpurInv'
  BY SpurPaths DEF KTypes, FirstInv, SpurInv
<1> QED
  BY <1>3, <1>4 DEF YenInv

\* The cheapest candidate is accepted.
LEMMA PopAccepts ==
  ASSUME YenInv, kphase = "spur", spurIndex = Len(prev), NEW i \in DOMAIN candidates, IsBest(i),
         accepted' = Append(accepted, candidates[i]), kpair' = kpair
  PROVE  /\ accepted' \in Seq(PathRecs) /\ Len(accepted') = Len(accepted) + 1
         /\ \A j \in DOMAIN accepted : j \in DOMAIN accepted' /\ accepted'[j] = accepted[j]
         /\ accepted'[Len(accepted')] = candidates[i] /\ Len(accepted') \in DOMAIN accepted'
         /\ \A j \in DOMAIN accepted' : j \in DOMAIN accepted \/ j = Len(accepted')
         /\ All' = All /\ TruePaths(accepted)' /\ Distinct(accepted)' /\ InOrder'
<1> DEFINE n == Len(accepted)
<1>1. /\ accepted \in Seq(PathRecs) /\ candidates \in Seq(PathRecs) /\ CandidatesInv
      /\ TruePaths(accepted) /\ Distinct(accepted) /\ InOrder
  BY SpurPaths
<1>2. candidates[i] \in PathRecs /\ n \in Nat
  BY <1>1
<1>3. /\ accepted' \in Seq(PathRecs) /\ Len(accepted') = n + 1
      /\ \A j \in DOMAIN accepted : j \in DOMAIN accepted' /\ accepted'[j] = accepted[j]
      /\ accepted'[n + 1] = candidates[i] /\ n + 1 \in DOMAIN accepted'
      /\ \A j \in DOMAIN accepted' : j \in DOMAIN accepted \/ j = n + 1
      /\ DOMAIN accepted = 1 .. n /\ n + 1 \notin DOMAIN accepted
  BY <1>1, <1>2, AppendProperties
<1>4. All' = All
  BY DEF All
<1>5. TruePaths(accepted)'
  BY <1>1, <1>3, <1>4 DEF TruePaths, CandidatesInv
<1>6. Distinct(accepted)'
  BY <1>1, <1>3 DEF Distinct, CandidatesInv, Listed
<1>7. ASSUME NEW p \in All, \A j \in 1 .. n : p # accepted[j].edges
      PROVE  candidates[i].cost <= Cost(p, FreeFlow)
  <2>1. ~Listed(accepted, p)
    BY <1>3, <1>7 DEF Listed
  <2>2. PICK c \in DOMAIN candidates : candidates[c].cost <= Cost(p, FreeFlow)
    BY <2>1, CandidateBelow
  <2>3. candidates[i].cost <= candidates[c].cost
    <3>1. candidates[i] \in PathRecs /\ candidates[c] \in PathRecs
      BY <1>1
    <3>2. candidates[i].cost \in Int /\ candidates[c].cost \in Int
      BY <3>1 DEF PathRecs
    <3>3. candidates[i].cost < candidates[c].cost \/ candidates[i].cost = candidates[c].cost
      BY DEF IsBest
    <3> QED
      BY <3>2, <3>3
  <2>4. candidates[i].cost \in Int /\ candidates[c].cost \in Int /\ Cost(p, FreeFlow) \in Int
    <3>1. candidates[i] \in PathRecs /\ candidates[c] \in PathRecs
      BY <1>1
    <3>2. Cost(p, FreeFlow) \in Nat
      BY AllPaths DEF All
    <3> QED
      BY <3>1, <3>2 DEF PathRecs
  <2> QED
    BY <2>2, <2>3, <2>4
<1> HIDE DEF n
<1>8. ASSUME NEW j \in DOMAIN accepted', NEW p \in All,
             \A k \in 1 .. (j - 1) : p # accepted'[k].edges
      PROVE  accepted'[j].cost <= Cost(p, FreeFlow)
  <2>1. CASE j \in DOMAIN accepted
    <3>1. \A k \in 1 .. (j - 1) : k \in DOMAIN accepted
      BY <1>2, <1>3, <2>1
    <3>2. \A k \in 1 .. (j - 1) : p # accepted[k].edges
      BY <1>3, <1>8, <3>1
    <3> QED
      BY <1>1, <1>3, <2>1, <3>2 DEF InOrder
  <2>2. CASE j = n + 1
    <3>1. j - 1 = n
      BY <1>2, <2>2
    <3>2. \A k \in 1 .. n : p # accepted[k].edges
      BY <1>3, <1>8, <3>1
    <3> QED
      BY <1>3, <1>7, <2>2, <3>2
  <2> QED
    BY <1>3, <2>1, <2>2
<1>9. InOrder'
  BY <1>4, <1>8 DEF InOrder
<1> QED
  BY <1>3, <1>4, <1>5, <1>6, <1>9 DEF n

\* The candidates that remain leave the accepted paths where they did.
LEMMA KeepsLeaving ==
  ASSUME NEW list, NEW list2, NEW r, Len(r) \in Nat, NEW p, NEW c, NEW n \in Nat,
         \A j \in DOMAIN list2 : (j \in DOMAIN list /\ list2[j] = list[j]) \/ list2[j].edges = r,
         \A j \in DOMAIN list : j \in DOMAIN list2 /\ list2[j] = list[j],
         Leaves(list, c, n), Agree(c, p, n), ~Agree(p, r, n)
  PROVE  Leaves(list2, c, n)
<1>1. n < Len(c) /\ \A j \in DOMAIN list : ~Agree(c, list[j].edges, n + 1)
  BY DEF Leaves
<1>2. \E j \in DOMAIN list2 : Agree(c, list2[j].edges, n)
  BY DEF Leaves
<1>3. ASSUME NEW j \in DOMAIN list2, Agree(c, list2[j].edges, n + 1) PROVE FALSE
  <2>1. list2[j].edges = r
    BY <1>1, <1>3
  <2>2. n + 1 <= Len(c) /\ n + 1 <= Len(r) /\ \A m \in 1 .. (n + 1) : c[m] = r[m]
    BY <1>3, <2>1 DEF Agree
  <2>3. n <= Len(p) /\ \A m \in 1 .. n : c[m] = p[m]
    BY DEF Agree
  <2>4. n <= Len(r)
    BY <2>2
  <2>5. Agree(p, r, n)
    BY <2>2, <2>3, <2>4 DEF Agree
  <2> QED
    BY <2>5
<1> QED
  BY <1>1, <1>2, <1>3 DEF Leaves

LEMMA KAcceptStep == YenInv /\ KAccept => YenInv'
<1> SUFFICES ASSUME YenInv, KAccept PROVE YenInv'
  OBVIOUS
<1>1. /\ kphase = "spur" /\ spurIndex = Len(prev) /\ spurIndex' = 0 /\ rootCost' = 0
      /\ kpair' = kpair /\ seen' = seen
      /\ \/ candidates = <<>> /\ kphase' = "done" /\ UNCHANGED <<accepted, candidates>>
         \/ PopBest
  BY DEF KAccept
<1>2. CASE candidates = <<>> /\ kphase' = "done" /\ UNCHANGED <<accepted, candidates>>
  BY <1>1, <1>2, KAcceptEnds
<1>3. ASSUME PopBest PROVE YenInv'
  <2>1. PICK i \in DOMAIN candidates :
            /\ IsBest(i)
            /\ accepted' = Append(accepted, candidates[i])
            /\ candidates' = Without(candidates, i)
            /\ kphase' = IF Len(accepted) + 1 = K THEN "done" ELSE "spur"
    BY <1>3 DEF PopBest, Without
  <2> DEFINE new == candidates[i]
  <2>2. /\ accepted \in Seq(PathRecs) /\ candidates \in Seq(PathRecs) /\ CandidatesInv /\ CoverInv
        /\ RoundInv /\ Len(accepted) \in Nat /\ DOMAIN candidates = 1 .. Len(candidates)
    BY <1>1, SpurPaths
  <2>3. /\ accepted' \in Seq(PathRecs) /\ Len(accepted') = Len(accepted) + 1
        /\ \A j \in DOMAIN accepted : j \in DOMAIN accepted' /\ accepted'[j] = accepted[j]
        /\ accepted'[Len(accepted')] = new /\ Len(accepted') \in DOMAIN accepted'
        /\ \A j \in DOMAIN accepted' : j \in DOMAIN accepted \/ j = Len(accepted')
        /\ All' = All /\ TruePaths(accepted)' /\ Distinct(accepted)' /\ InOrder'
    BY <1>1, <2>1, PopAccepts
  <2>4. /\ candidates' \in Seq(PathRecs)
        /\ \A m \in DOMAIN candidates' : \E j \in DOMAIN candidates : j # i /\ candidates'[m] = candidates[j]
        /\ \A j \in DOMAIN candidates : j # i => \E m \in DOMAIN candidates' : candidates'[m] = candidates[j]
        /\ \A m, n \in DOMAIN candidates' : m # n =>
              \E j, k \in DOMAIN candidates : j # k /\ candidates'[m] = candidates[j] /\ candidates'[n] = candidates[k]
    <3>1. i \in 1 .. Len(candidates)
      BY <2>2
    <3>2. candidates' \in Seq(PathRecs) /\ IsWithout(candidates', candidates, i)
      <4>1. candidates' = Without(candidates, i) /\ candidates \in Seq(PathRecs)
        BY <2>1, <2>2
      <4> QED
        BY <3>1, <4>1, WithoutOne
    <3> QED
      BY <3>2 DEF IsWithout
  <2> HIDE DEF new
  <2>5. KTypes'
    BY <2>1, <2>3, <2>4 DEF KTypes
  <2>6. AcceptedInv'
    BY <2>1, <2>3 DEF AcceptedInv
  <2>7. FirstInv'
    BY <2>1 DEF FirstInv
  <2>8. ASSUME kphase' = "spur" PROVE (RoundInv /\ CandidatesInv /\ CoverInv)'
    <3>1. prev' = new.edges
      BY <2>3 DEF prev
    <3>2. new.edges \in All /\ new.edges \in Seq(Edges) /\ Len(new.edges) \in Nat
      BY <2>2, AllPaths DEF CandidatesInv, TruePaths, new, All
    <3>3. RoundInv'
      <4>1. kpair'.src # kpair'.dst /\ accepted' # <<>>
        BY <1>1, <2>2, <2>3 DEF RoundInv
      <4>2. Len(accepted') < K
        BY <2>1, <2>2, <2>3, <2>8, KShortestAssumption DEF RoundInv
      <4>3. spurIndex' \in 0 .. Len(prev')
        BY <1>1, <3>1, <3>2
      <4>4. rootCost' = Cost(Root(prev', spurIndex'), FreeFlow)
        BY <1>1, <3>1, <3>2, NoRoot, NoCost
      <4> QED
        BY <4>1, <4>2, <4>3, <4>4 DEF RoundInv
    <3>4. \A p : Listed(accepted', p) <=> Listed(accepted, p) \/ p = new.edges
      BY <2>3 DEF Listed
    <3>5. \A p : Listed(candidates, p) <=> Listed(candidates', p) \/ p = new.edges
      BY <2>4 DEF Listed, new
    <3>6. TruePaths(candidates)'
      BY <2>2, <2>3, <2>4 DEF CandidatesInv, TruePaths
    <3>7. Distinct(candidates)'
      <4>1. ASSUME NEW m \in DOMAIN candidates', NEW n \in DOMAIN candidates', m # n
            PROVE  candidates'[m].edges # candidates'[n].edges
        <5>1. PICK j \in DOMAIN candidates, k \in DOMAIN candidates :
                 j # k /\ candidates'[m] = candidates[j] /\ candidates'[n] = candidates[k]
          BY <2>4, <4>1
        <5> QED
          BY <2>2, <5>1 DEF CandidatesInv, Distinct
      <4> QED
        BY <4>1 DEF Distinct
    <3>8. \A m \in DOMAIN candidates' : ~Listed(accepted', candidates'[m].edges)
      <4> SUFFICES ASSUME NEW m \in DOMAIN candidates'
                   PROVE  ~Listed(accepted', candidates'[m].edges)
        OBVIOUS
      <4>1. PICK j \in DOMAIN candidates : j # i /\ candidates'[m] = candidates[j]
        BY <2>4
      <4>2. ~Listed(accepted, candidates[j].edges) /\ candidates[j].edges # new.edges
        BY <2>2, <4>1 DEF CandidatesInv, Distinct, new
      <4> QED
        BY <3>4, <4>1, <4>2
    <3>9. CandidatesInv'
      BY <1>1, <2>2, <3>4, <3>5, <3>6, <3>7, <3>8 DEF CandidatesInv
    <3>10. ASSUME NEW p \in All, NEW n \in Nat, Leaves(accepted', p, n), ~Agree(p, new.edges, n)
           PROVE  Covered(accepted', candidates', p, n)
      <4>1. Leaves(accepted, p, n)
        BY <2>3, <3>10 DEF Leaves
      <4>2. Covered(accepted, candidates, p, n)
        BY <1>1, <4>1, AllCovered
      <4>3. PICK c \in DOMAIN candidates :
               /\ Agree(candidates[c].edges, p, n) /\ Leaves(accepted, candidates[c].edges, n)
               /\ candidates[c].cost <= Cost(p, FreeFlow)
        BY <4>2 DEF Covered
      <4>4. c # i
        BY <3>10, <4>3 DEF new, Agree
      <4>5. PICK m \in DOMAIN candidates' : candidates'[m] = candidates[c]
        BY <2>4, <4>4
      <4>6. \A j \in DOMAIN accepted' :
               (j \in DOMAIN accepted /\ accepted'[j] = accepted[j]) \/ accepted'[j].edges = new.edges
        BY <2>3
      <4>7. Leaves(accepted', candidates[c].edges, n)
        BY <2>3, <3>2, <3>10, <4>3, <4>6, KeepsLeaving
      <4> QED
        BY <4>3, <4>5, <4>7 DEF Covered
    <3>11. CoverInv'
      <4>1. \A p \in All, n \in Nat : ~(Agree(p, prev', n) /\ n >= spurIndex') => ~Agree(p, new.edges, n)
        BY <1>1, <3>1
      <4> QED
        BY <2>3, <3>10, <4>1 DEF CoverInv
    <3> QED
      BY <3>3, <3>9, <3>11
  <2>9. SpurInv'
    BY <2>8 DEF SpurInv
  <2> QED
    BY <2>5, <2>6, <2>7, <2>9 DEF YenInv
<1> QED
  BY <1>1, <1>2, <1>3

LEMMA CountOfDistinct ==
  ASSUME NEW S, NEW list \in Seq(S), Distinct(list), NEW taken,
         taken = {list[i].edges : i \in DOMAIN list}
  PROVE  Cardinality(taken) = Len(list)
<1> DEFINE n == Len(list)
           f == [i \in 1 .. n |-> list[i].edges]
<1>1. n \in Nat /\ DOMAIN list = 1 .. n
  OBVIOUS
<1>2. f \in Bijection(1 .. n, taken)
  <2>1. f \in [1 .. n -> taken]
    BY <1>1
  <2>2. \A i, j \in 1 .. n : f[i] = f[j] => i = j
    BY <1>1 DEF Distinct
  <2>3. \A p \in taken : \E i \in 1 .. n : f[i] = p
    BY <1>1
  <2> HIDE DEF f, n
  <2> QED
    BY <2>1, <2>2, <2>3 DEF Bijection, Injection, Surjection, IsInjective
<1> HIDE DEF f, n
<1>3. Cardinality(taken) = n
  BY <1>1, <1>2, FS_CountingElements DEF ExistsBijection
<1> QED
  BY <1>3 DEF n

LEMMA YenInvStep == YenInv /\ [Next]_vars => YenInv'
<1> SUFFICES ASSUME YenInv, [Next]_vars PROVE YenInv'
  OBVIOUS
<1>1. CASE UNCHANGED kVars
  BY <1>1, YenStutters
<1>2. CASE NewPair
  BY <1>2, KCallStep DEF NewPair
<1>3. CASE FindPaths
  BY <1>3, KFirstStep, KSpurStep, KAcceptStep DEF FindPaths, KNext
<1>4. CASE AddEntry
  <2>1. kphase' = "off" /\ accepted' = <<>> /\ candidates' = <<>>
    BY <1>4 DEF AddEntry
  <2> QED
    BY <2>1 DEF YenInv, KTypes, AcceptedInv, FirstInv, SpurInv
<1>5. UNCHANGED kVars \/ NewPair \/ FindPaths \/ AddEntry
  <2>1. CASE UNCHANGED vars
    BY <2>1 DEF vars
  <2>2. CASE Router
    BY <2>2 DEF Router, BuildTree, Snap, Search, Snapped, Begin, RouteReactive, Fail, KnownPair,
                Draw, Return
  <2>3. CASE \E r \in {"reactive", "multipath"}, b \in BOOLEAN, requests \in Batches : Call(r, b, requests)
    BY <2>3 DEF Call
  <2>4. CASE Congestion
    BY <2>4 DEF Congestion
  <2> QED
    BY <2>1, <2>2, <2>3, <2>4 DEF Next
<1> QED
  BY <1>1, <1>2, <1>3, <1>4, <1>5

LEMMA YenInvShows == YenInv => CheapestPathsInOrder
<1> SUFFICES ASSUME YenInv, kphase # "off" PROVE CheapestPathsInOrder
  BY DEF CheapestPathsInOrder
<1> DEFINE taken == {accepted[i].edges : i \in DOMAIN accepted}
<1>1. /\ accepted \in Seq(PathRecs) /\ TruePaths(accepted) /\ Distinct(accepted) /\ InOrder
      /\ kphase = "done" => Len(accepted) = K \/ \A p \in All : Listed(accepted, p)
  BY DEF YenInv, KTypes, AcceptedInv
<1>2. taken \subseteq All
  BY <1>1 DEF TruePaths
<1>3. Cardinality(taken) = Len(accepted)
  BY <1>1, CountOfDistinct
<1>4. \A i \in DOMAIN accepted :
         /\ accepted[i].cost = Cost(accepted[i].edges, FreeFlow)
         /\ \A p \in All \ {accepted[j].edges : j \in 1 .. (i - 1)} :
               accepted[i].cost <= Cost(p, FreeFlow)
  BY <1>1 DEF TruePaths, InOrder
<1>5. kphase = "done" => Len(accepted) = K \/ taken = All
  BY <1>1, <1>2 DEF Listed
<1> QED
  BY <1>2, <1>3, <1>4, <1>5 DEF CheapestPathsInOrder, All

\* Yen's algorithm is right, whatever ties its searches break.
THEOREM YenFindsTheCheapest == Spec => []CheapestPathsInOrder
<1>1. Init => YenInv
  BY YenInitially DEF Init
<1>2. YenInv /\ [Next]_vars => YenInv'
  BY YenInvStep
<1>3. YenInv => CheapestPathsInOrder
  BY YenInvShows
<1> QED
  BY <1>1, <1>2, <1>3, PTL DEF Spec

-----------------------------------------------------------------------------
(* The tallies of a multipath call and the flows of a batch (Routers).      *)

RequestsInv ==
    /\ Len(reqs) \in Nat /\ DOMAIN reqs = 1 .. Len(reqs)
    /\ \A i \in DOMAIN reqs : reqs[i].weight \in Int
    /\ Len(routes) <= Len(reqs)
    /\ pc \in {"paths", "draw"} => now <= Len(reqs)

\* Before the first request is answered there is nothing to tally, and a reactive call tallies
\* only flows.
NothingYet ==
    /\ pc \in {"idle", "snap"} => flows = noFlow
    /\ pc \in {"idle", "snap"} \/ router = "reactive" =>
          entries = <<>> /\ slots = <<>> /\ chosen = <<>>

SizesInv ==
    /\ IsSeq(entries) /\ IsSeq(slots) /\ IsSeq(chosen)
    /\ router = "multipath" =>
          /\ Len(chosen) = Len(routes)
          /\ Len(slots) = Len(routes) + (IF pc = "draw" THEN 1 ELSE 0)

IsEntry(x) ==
    /\ x = [pair |-> x.pair, paths |-> x.paths, counts |-> x.counts]
    /\ x.paths \in Seq(PathRecs) /\ x.paths # <<>>
    /\ \A k \in DOMAIN x.paths : x.paths[k].cost = Cost(x.paths[k].edges, FreeFlow)
    /\ x.counts \in [DOMAIN x.paths -> Nat]

EntriesInv ==
    /\ \A s \in DOMAIN entries : IsEntry(entries[s])
    /\ \A s, t \in DOMAIN entries : entries[s].pair = entries[t].pair => s = t

Chose(s, k) == {i \in DOMAIN chosen : slots[i] = s /\ chosen[i] = k}

CountsInv ==
    \A s \in DOMAIN entries : \A k \in DOMAIN entries[s].counts :
        entries[s].counts[k] = Cardinality(Chose(s, k))

\* Where an answered request's route is from.
Drawn(i) ==
    /\ slots[i] \in DOMAIN entries
    /\ entries[slots[i]].pair = Pair(i)
    /\ chosen[i] \in DOMAIN entries[slots[i]].paths
    /\ routes[i] = entries[slots[i]].paths[chosen[i]]

DrawnInv == router = "multipath" => \A i \in DOMAIN routes : Drawn(i)

\* What is known of the request that is being answered.
NowInv ==
    /\ pc = "draw" => slots[now] \in DOMAIN entries /\ entries[slots[now]].pair = Pair(now)
    /\ pc = "paths" => \A i \in DOMAIN entries : ~HasEntry(i)

Using(e) == {i \in DOMAIN routes : e \in Range(routes[i].edges)}

weights == [i \in DOMAIN routes |-> reqs[i].weight]

FlowsInv == batch => \A e \in Edges : flows[e] = SumFunctionOnSet(weights, Using(e))

TallyInv ==
    /\ RequestsInv /\ NothingYet /\ SizesInv /\ EntriesInv /\ CountsInv /\ DrawnInv
    /\ NowInv /\ FlowsInv

LEMMA NoEntries ==
  /\ IsSeq(<<>>) /\ Len(<<>>) = 0 /\ DOMAIN <<>> = {}
BY NoRoutes

LEMMA NoFlows == ASSUME DOMAIN routes = {}, flows = noFlow PROVE FlowsInv
<1>1. \A e \in Edges : Using(e) = {} /\ flows[e] = 0
  BY DEF Using, noFlow
<1>2. \A e \in Edges : SumFunctionOnSet(weights, Using(e)) = 0
  BY <1>1, SumEmpty
<1> QED
  BY <1>1, <1>2 DEF FlowsInv

LEMMA TallyInitially == Init => TallyInv
<1> SUFFICES ASSUME Init PROVE TallyInv
  OBVIOUS
<1>1. /\ pc = "idle" /\ batch = FALSE /\ router = "reactive" /\ reqs = <<>> /\ routes = <<>>
      /\ entries = <<>> /\ slots = <<>> /\ chosen = <<>> /\ flows = noFlow
  BY DEF Init
<1>2. RequestsInv
  BY <1>1 DEF RequestsInv
<1>3. NothingYet /\ SizesInv
  BY <1>1, NoEntries DEF NothingYet, SizesInv
<1>4. EntriesInv /\ CountsInv /\ DrawnInv /\ NowInv /\ FlowsInv
  BY <1>1 DEF EntriesInv, CountsInv, DrawnInv, NowInv, FlowsInv
<1> QED
  BY <1>2, <1>3, <1>4 DEF TallyInv

\* One more route: its weight is on its edges.
LEMMA AnswerFlows ==
  ASSUME RequestsInv, FlowsInv, IsSeq(routes), now <= Len(reqs), NEW p,
         NEW w, Answer(p, w), UNCHANGED <<batch, reqs>>
  PROVE  FlowsInv'
<1> SUFFICES ASSUME batch PROVE \A e \in Edges : flows'[e] = SumFunctionOnSet(weights', Using(e)')
  BY DEF FlowsInv
<1> DEFINE n == Len(routes)
           new == [edges |-> p, cost |-> Cost(p, w)]
<1>1. /\ n \in Nat /\ DOMAIN routes = 1 .. n /\ DOMAIN routes' = 1 .. (n + 1)
      /\ routes'[n + 1] = new /\ \A i \in 1 .. n : routes'[i] = routes[i]
  BY AppendIsSeq DEF Answer
<1>2. now = n + 1 /\ n + 1 \in DOMAIN reqs /\ \A i \in 1 .. n : i \in DOMAIN reqs
  BY <1>1 DEF RequestsInv, now
<1>3. /\ \A i \in 1 .. n : weights[i] \in Int /\ weights'[i] = weights[i]
      /\ weights'[n + 1] = reqs[n + 1].weight /\ reqs[n + 1].weight \in Int
  BY <1>1, <1>2 DEF weights, RequestsInv
<1> HIDE DEF n
<1> SUFFICES ASSUME NEW e \in Edges
             PROVE  flows'[e] = SumFunctionOnSet(weights', Using(e)')
  OBVIOUS
<1>4. Using(e) \subseteq 1 .. n /\ IsFiniteSet(Using(e)) /\ n + 1 \notin Using(e)
  <2>1. Using(e) \subseteq 1 .. n
    BY <1>1 DEF Using
  <2> QED
    BY <1>1, <2>1, UptoFinite, FS_Subset
<1>5. flows[e] = SumFunctionOnSet(weights, Using(e))
  BY DEF FlowsInv
<1>6. SumFunctionOnSet(weights', Using(e)) = SumFunctionOnSet(weights, Using(e))
  BY <1>3, <1>4, SumSame
<1>7. CASE e \in Range(p)
  <2>1. Using(e)' = Using(e) \cup {n + 1}
    <3>1. new.edges = p
      OBVIOUS
    <3> QED
      BY <1>1, <1>7, <3>1 DEF Using
  <2>2. SumFunctionOnSet(weights', Using(e) \cup {n + 1})
           = weights'[n + 1] + SumFunctionOnSet(weights', Using(e))
    BY <1>3, <1>4, SumIn
  <2>3. flows'[e] = flows[e] + reqs[n + 1].weight
    BY <1>2, <1>7 DEF Answer
  <2>4. SumFunctionOnSet(weights, Using(e)) \in Int
    BY <1>3, <1>4, SumInt
  <2> QED
    BY <1>3, <1>5, <1>6, <2>1, <2>2, <2>3, <2>4
<1>8. CASE e \notin Range(p)
  <2>1. Using(e)' = Using(e)
    <3>1. new.edges = p
      OBVIOUS
    <3> QED
      BY <1>1, <1>8, <3>1 DEF Using
  <2>2. flows'[e] = flows[e]
    BY <1>8 DEF Answer
  <2> QED
    BY <1>5, <1>6, <2>1, <2>2
<1> QED
  BY <1>7, <1>8

LEMMA TallyStutters ==
  ASSUME TallyInv, UNCHANGED <<callArgs, provenance, answers, ends, pc>>
  PROVE  TallyInv'
<1>1. UNCHANGED <<reqs, router, batch, entries, slots, chosen, routes, flows, ends, pc>>
  BY DEF callArgs, provenance, answers
<1>2. RequestsInv' /\ NothingYet' /\ SizesInv'
  BY <1>1 DEF TallyInv, RequestsInv, NothingYet, SizesInv, now, noFlow
<1>3. EntriesInv' /\ CountsInv'
  BY <1>1 DEF TallyInv, EntriesInv, CountsInv, Chose
<1>4. DrawnInv' /\ NowInv'
  BY <1>1 DEF TallyInv, DrawnInv, Drawn, NowInv, Pair, now, HasEntry
<1>5. FlowsInv'
  BY <1>1 DEF TallyInv, FlowsInv, weights, Using
<1> QED
  BY <1>2, <1>3, <1>4, <1>5 DEF TallyInv

\* An answer fits in the requests.
LEMMA AnswerCounts ==
  ASSUME RequestsInv, IsSeq(routes), now <= Len(reqs), NEW x, routes' = Append(routes, x),
         UNCHANGED reqs, pc' = "request"
  PROVE  RequestsInv'
<1>1. Len(routes) \in Nat /\ Len(routes') = Len(routes) + 1
  BY AppendIsSeq
<1> QED
  BY <1>1 DEF RequestsInv, now

LEMMA TallyCall ==
  ASSUME TallyInv, CallInv, NEW r \in {"reactive", "multipath"}, NEW b \in BOOLEAN,
         NEW requests \in Batches, Call(r, b, requests)
  PROVE  TallyInv'
<1>1. /\ pc = "idle" /\ pc' = "snap" /\ reqs' = requests /\ routes = <<>> /\ routes' = <<>>
      /\ flows' = flows /\ flows = noFlow
      /\ entries = <<>> /\ slots = <<>> /\ chosen = <<>>
      /\ entries' = <<>> /\ slots' = <<>> /\ chosen' = <<>>
  BY DEF Call, TallyInv, NothingYet, CallInv, provenance, answers
<1>2. RequestsInv'
  <2>1. requests \in Seq(Range(requests)) /\ \A i \in DOMAIN requests : requests[i].weight \in Int
    BY RoutersAssumption
  <2>2. Len(requests) \in Nat /\ DOMAIN requests = 1 .. Len(requests)
    BY <2>1
  <2> QED
    BY <1>1, <2>1, <2>2 DEF RequestsInv
<1>3. NothingYet' /\ SizesInv'
  BY <1>1, NoEntries DEF NothingYet, SizesInv, noFlow
<1>4. EntriesInv' /\ CountsInv' /\ DrawnInv' /\ NowInv'
  BY <1>1 DEF EntriesInv, CountsInv, DrawnInv, NowInv
<1>5. FlowsInv'
  <2>1. DOMAIN routes' = {} /\ flows' = noFlow'
    BY <1>1 DEF noFlow
  <2>2. \A e \in Edges : Using(e)' = {} /\ flows'[e] = 0
    BY <2>1 DEF Using, noFlow
  <2>3. \A e \in Edges : SumFunctionOnSet(weights', Using(e)') = 0
    BY <2>2, SumEmpty
  <2> QED
    BY <2>2, <2>3 DEF FlowsInv
<1> QED
  BY <1>2, <1>3, <1>4, <1>5 DEF TallyInv

LEMMA TallySnapped ==
  ASSUME TallyInv, CallInv, Snapped
  PROVE  TallyInv'
<1>1. pc = "snap" /\ routes = <<>> /\ UNCHANGED <<pc, reqs, router, batch, entries, slots, chosen, routes, flows>>
  BY DEF Snapped, CallInv, callArgs, provenance, answers
<1>2. RequestsInv' /\ NothingYet' /\ SizesInv'
  BY <1>1 DEF TallyInv, RequestsInv, NothingYet, SizesInv, now, noFlow
<1>3. EntriesInv' /\ CountsInv'
  BY <1>1 DEF TallyInv, EntriesInv, CountsInv, Chose
<1>4. DrawnInv' /\ NowInv'
  BY <1>1 DEF DrawnInv, NowInv
<1>5. FlowsInv'
  BY <1>1 DEF TallyInv, FlowsInv, weights, Using
<1> QED
  BY <1>2, <1>3, <1>4, <1>5 DEF TallyInv

\* Begin and Return: only pc moves, into no tally.
LEMMA TallyMoves ==
  ASSUME TallyInv, UNCHANGED <<callArgs, provenance, answers, ends>>,
         pc \in {"snap", "request"}, pc' \in {"request", "returned"}
  PROVE  TallyInv'
<1>1. UNCHANGED <<reqs, router, batch, entries, slots, chosen, routes, flows, ends>>
  BY DEF callArgs, provenance, answers
<1>2. RequestsInv' /\ NothingYet' /\ SizesInv'
  BY <1>1 DEF TallyInv, RequestsInv, NothingYet, SizesInv, now
<1>3. EntriesInv' /\ CountsInv'
  BY <1>1 DEF TallyInv, EntriesInv, CountsInv, Chose
<1>4. DrawnInv' /\ NowInv'
  BY <1>1 DEF TallyInv, DrawnInv, Drawn, NowInv, Pair
<1>5. FlowsInv'
  BY <1>1 DEF TallyInv, FlowsInv, weights, Using
<1> QED
  BY <1>2, <1>3, <1>4, <1>5 DEF TallyInv

LEMMA TallyReactive ==
  ASSUME TallyInv, CallInv, RouteReactive
  PROVE  TallyInv'
<1>1. /\ pc = "request" /\ pc' = "request" /\ router = "reactive" /\ now <= Len(reqs)
      /\ UNCHANGED <<reqs, router, batch, entries, slots, chosen, ends>>
  BY DEF RouteReactive, Answering, callArgs, provenance, snapped
<1>2. PICK p : Answer(p, Congested(heldLoad))
  BY DEF RouteReactive
<1>3. RequestsInv'
  BY <1>1, <1>2, AnswerCounts DEF TallyInv, CallInv, Answer
<1>4. FlowsInv'
  BY <1>1, <1>2, AnswerFlows DEF TallyInv, CallInv
<1>5. NothingYet' /\ SizesInv' /\ EntriesInv' /\ CountsInv' /\ DrawnInv' /\ NowInv'
  BY <1>1 DEF TallyInv, NothingYet, SizesInv, EntriesInv, CountsInv, Chose, DrawnInv, NowInv
<1> QED
  BY <1>3, <1>4, <1>5 DEF TallyInv

LEMMA TallyFail ==
  ASSUME TallyInv, Fail
  PROVE  TallyInv'
<1>1. /\ pc' = "failed" /\ routes' = <<>> /\ flows' = noFlow /\ UNCHANGED <<reqs, router, batch>>
      /\ entries' = <<>> /\ slots' = <<>> /\ chosen' = <<>>
  BY DEF Fail, callArgs
<1>2. RequestsInv'
  BY <1>1 DEF RequestsInv, TallyInv
<1>3. NothingYet' /\ SizesInv'
  BY <1>1, NoEntries DEF NothingYet, SizesInv
<1>4. EntriesInv' /\ CountsInv' /\ DrawnInv' /\ NowInv'
  BY <1>1 DEF EntriesInv, CountsInv, DrawnInv, NowInv
<1>5. FlowsInv'
  <2>1. \A e \in Edges : Using(e)' = {} /\ flows'[e] = 0
    BY <1>1 DEF Using, noFlow
  <2>2. \A e \in Edges : SumFunctionOnSet(weights', Using(e)') = 0
    BY <2>1, SumEmpty
  <2> QED
    BY <2>1, <2>2 DEF FlowsInv
<1> QED
  BY <1>2, <1>3, <1>4, <1>5 DEF TallyInv

LEMMA TallyNewPair ==
  ASSUME TallyInv, NewPair
  PROVE  TallyInv'
<1>1. /\ pc = "request" /\ pc' = "paths" /\ now <= Len(reqs) /\ \A i \in DOMAIN entries : ~HasEntry(i)
      /\ router = "multipath"
      /\ UNCHANGED <<reqs, router, batch, entries, slots, chosen, routes, flows, ends>>
  BY DEF NewPair, Answering, callArgs, provenance, answers, snapped
<1>2. RequestsInv' /\ NothingYet' /\ SizesInv'
  BY <1>1 DEF TallyInv, RequestsInv, NothingYet, SizesInv, now
<1>3. EntriesInv' /\ CountsInv'
  BY <1>1 DEF TallyInv, EntriesInv, CountsInv, Chose
<1>4. DrawnInv' /\ NowInv'
  BY <1>1 DEF TallyInv, DrawnInv, Drawn, NowInv, Pair, now, HasEntry
<1>5. FlowsInv'
  BY <1>1 DEF TallyInv, FlowsInv, weights, Using
<1> QED
  BY <1>2, <1>3, <1>4, <1>5 DEF TallyInv

\* A slot more: those of the answered requests are as they were.
LEMMA SlotAppended ==
  ASSUME SizesInv, router = "multipath", pc # "draw", NEW x, slots' = Append(slots, x),
         IsSeq(routes), UNCHANGED <<chosen, routes>>
  PROVE  /\ IsSeq(slots') /\ Len(slots') = Len(routes) + 1 /\ slots'[Len(routes) + 1] = x
         /\ \A i \in 1 .. Len(routes) : slots'[i] = slots[i]
         /\ DOMAIN chosen = 1 .. Len(routes) /\ DOMAIN routes = 1 .. Len(routes)
         /\ \A s, k : Chose(s, k)' = Chose(s, k)
<1>1. Len(routes) \in Nat /\ DOMAIN routes = 1 .. Len(routes) /\ Len(slots) = Len(routes)
  BY AppendIsSeq DEF SizesInv
<1>2. /\ IsSeq(slots') /\ Len(slots') = Len(routes) + 1 /\ slots'[Len(routes) + 1] = x
      /\ \A i \in 1 .. Len(routes) : slots'[i] = slots[i]
  BY <1>1, AppendIsSeq DEF SizesInv
<1>3. DOMAIN chosen = 1 .. Len(routes)
  BY AppendIsSeq DEF SizesInv
<1>4. \A s, k : Chose(s, k)' = Chose(s, k)
  BY <1>2, <1>3 DEF Chose
<1> QED
  BY <1>1, <1>2, <1>3, <1>4

LEMMA TallyKnownPair ==
  ASSUME TallyInv, CallInv, KnownPair
  PROVE  TallyInv'
<1>1. /\ pc = "request" /\ pc' = "draw" /\ now <= Len(reqs) /\ router = "multipath"
      /\ UNCHANGED <<reqs, router, batch, entries, chosen, routes, flows, ends>>
  BY DEF KnownPair, Answering, callArgs, answers, snapped
<1>2. PICK s \in DOMAIN entries : HasEntry(s) /\ slots' = Append(slots, s)
  BY DEF KnownPair
<1>3. /\ IsSeq(slots') /\ Len(slots') = Len(routes) + 1 /\ slots'[now] = s
      /\ \A i \in DOMAIN routes : slots'[i] = slots[i]
      /\ \A t, k : Chose(t, k)' = Chose(t, k)
  BY <1>1, <1>2, SlotAppended DEF TallyInv, CallInv, now
<1>4. RequestsInv' /\ NothingYet' /\ SizesInv'
  BY <1>1, <1>3 DEF TallyInv, RequestsInv, NothingYet, SizesInv, now
<1>5. EntriesInv'
  BY <1>1 DEF TallyInv, EntriesInv
<1>6. CountsInv'
  BY <1>1, <1>3 DEF TallyInv, CountsInv
<1>7. DrawnInv'
  BY <1>1, <1>3 DEF TallyInv, DrawnInv, Drawn, Pair
<1>8. NowInv'
  BY <1>1, <1>2, <1>3 DEF NowInv, HasEntry, Pair, now
<1>9. FlowsInv'
  BY <1>1 DEF TallyInv, FlowsInv, weights, Using
<1> QED
  BY <1>4, <1>5, <1>6, <1>7, <1>8, <1>9 DEF TallyInv

LEMMA TallyAddEntry ==
  ASSUME TallyInv, CallInv, YenInv, AddEntry
  PROVE  TallyInv'
<1> DEFINE m == Len(entries) + 1
           new == [pair |-> Pair(now), paths |-> accepted, counts |-> [i \in DOMAIN accepted |-> 0]]
<1>1. /\ pc = "paths" /\ pc' = "draw" /\ now <= Len(reqs) /\ router = "multipath"
      /\ UNCHANGED <<reqs, router, batch, chosen, routes, flows, ends>>
      /\ kphase = "done" /\ accepted # <<>>
      /\ entries' = Append(entries, new) /\ slots' = Append(slots, m)
  BY DEF AddEntry, callArgs, answers, snapped, TallyInv, RequestsInv, CallInv
<1>2. /\ IsSeq(slots') /\ Len(slots') = Len(routes) + 1 /\ slots'[now] = m
      /\ \A i \in DOMAIN routes : slots'[i] = slots[i]
      /\ \A t, k : Chose(t, k)' = Chose(t, k)
      /\ DOMAIN chosen = DOMAIN routes
  BY <1>1, SlotAppended DEF TallyInv, CallInv, now
<1>3. /\ IsSeq(entries') /\ DOMAIN entries = 1 .. Len(entries) /\ m \notin DOMAIN entries
      /\ DOMAIN entries' = 1 .. m /\ entries'[m] = new /\ m \in DOMAIN entries'
      /\ \A s \in DOMAIN entries : s \in DOMAIN entries' /\ entries'[s] = entries[s]
      /\ \A s \in DOMAIN entries' : s \in DOMAIN entries \/ s = m
  BY <1>1, AppendIsSeq DEF TallyInv, SizesInv
<1>4. IsEntry(new) /\ new.pair = Pair(now) /\ \A k \in DOMAIN new.counts : new.counts[k] = 0
  <2>1. accepted \in Seq(PathRecs) /\ accepted # <<>>
        /\ \A k \in DOMAIN accepted : accepted[k].cost = Cost(accepted[k].edges, FreeFlow)
    BY <1>1 DEF YenInv, KTypes, AcceptedInv, TruePaths
  <2>2. new.paths = accepted /\ new.counts \in [DOMAIN accepted -> Nat]
    OBVIOUS
  <2> QED
    BY <2>1, <2>2 DEF IsEntry
<1> HIDE DEF new, m
<1>5. RequestsInv' /\ NothingYet' /\ SizesInv'
  BY <1>1, <1>2, <1>3 DEF TallyInv, RequestsInv, NothingYet, SizesInv, now
<1>6. EntriesInv'
  <2>1. \A s \in DOMAIN entries : entries[s].pair # new.pair
    BY <1>1, <1>4 DEF TallyInv, NowInv, HasEntry
  <2>2. \A s \in DOMAIN entries' : IsEntry(entries'[s])
    BY <1>3, <1>4 DEF TallyInv, EntriesInv
  <2>3. \A s, t \in DOMAIN entries' : entries'[s].pair = entries'[t].pair => s = t
    BY <1>3, <2>1 DEF TallyInv, EntriesInv
  <2> QED
    BY <2>2, <2>3 DEF EntriesInv
<1>7. CountsInv'
  <2>1. ASSUME NEW k PROVE Cardinality(Chose(m, k)) = 0
    <3>1. Chose(m, k) = {}
      BY <1>1, <1>2, <1>3 DEF TallyInv, DrawnInv, Drawn, Chose
    <3> QED
      BY <3>1, FS_EmptySet
  <2> QED
    BY <1>2, <1>3, <1>4, <2>1 DEF TallyInv, CountsInv
<1>8. DrawnInv'
  BY <1>1, <1>2, <1>3 DEF TallyInv, DrawnInv, Drawn, Pair
<1>9. NowInv'
  <2>1. now' = now /\ Pair(now)' = Pair(now)
    BY <1>1 DEF now, Pair
  <2> QED
    BY <1>1, <1>2, <1>3, <1>4, <2>1 DEF NowInv
<1>10. FlowsInv'
  BY <1>1 DEF TallyInv, FlowsInv, weights, Using
<1> QED
  BY <1>5, <1>6, <1>7, <1>8, <1>9, <1>10 DEF TallyInv

LEMMA TallyDraw ==
  ASSUME TallyInv, CallInv, Draw
  PROVE  TallyInv'
<1>0. PICK s : s = slots[now]
  OBVIOUS
<1> DEFINE n == Len(routes) + 1
           entry == entries[s]
<1>1. /\ pc = "draw" /\ pc' = "request" /\ router = "multipath" /\ now <= Len(reqs) /\ now = n
      /\ UNCHANGED <<reqs, router, batch, slots, ends>>
      /\ s \in DOMAIN entries /\ entry.pair = Pair(now)
  BY <1>0 DEF Draw, CallInv, TallyInv, RequestsInv, NowInv, callArgs, snapped, now
<1>2. PICK choice \in drawPath(entry.paths) :
         /\ chosen' = Append(chosen, choice)
         /\ entries' = [entries EXCEPT ![s].counts[choice] = @ + 1]
         /\ Answer(entry.paths[choice].edges, FreeFlow)
  BY <1>0 DEF Draw
<1> DEFINE path == entry.paths[choice]
<1>3. IsEntry(entry) /\ choice \in DOMAIN entry.paths
  <2>1. IsEntry(entry)
    BY <1>1 DEF TallyInv, EntriesInv
  <2>2. Len(entry.paths) \in DOMAIN entry.paths
    BY <2>1 DEF IsEntry
  <2> QED
    BY <2>1, <2>2 DEF drawPath, Shared
<1>4. [edges |-> path.edges, cost |-> Cost(path.edges, FreeFlow)] = path
  <2>1. path \in PathRecs /\ path.cost = Cost(path.edges, FreeFlow)
    BY <1>3 DEF IsEntry
  <2>2. path = [edges |-> path.edges, cost |-> path.cost]
    BY <2>1 DEF PathRecs
  <2> QED
    BY <2>1, <2>2
<1> DEFINE counted == [entry.counts EXCEPT ![choice] = @ + 1]
           new == [pair |-> entry.pair, paths |-> entry.paths, counts |-> counted]
<1>5. /\ DOMAIN entries' = DOMAIN entries /\ Len(entries') = Len(entries)
      /\ IsSeq(entries') /\ entries'[s] = new
      /\ \A t \in DOMAIN entries : t # s => entries'[t] = entries[t]
  <2>1. entries' = [entries EXCEPT ![s] = [entry EXCEPT !.counts = counted]]
    BY <1>2
  <2>2. [entry EXCEPT !.counts = counted] = new
    <3>1. entry = [pair |-> entry.pair, paths |-> entry.paths, counts |-> entry.counts]
      BY <1>3 DEF IsEntry
    <3> QED
      BY <3>1
  <2>3. entries' = [entries EXCEPT ![s] = new]
    BY <2>1, <2>2
  <2> HIDE DEF new, entry, counted
  <2>4. IsSeq(entries)
    BY DEF TallyInv, SizesInv
  <2>5. /\ DOMAIN entries' = DOMAIN entries /\ entries'[s] = new
        /\ \A t \in DOMAIN entries : t # s => entries'[t] = entries[t]
    BY <1>1, <2>3, <2>4 DEF IsSeq
  <2>6. \A t \in DOMAIN entries' : entries'[t] \in Range(entries')
    BY DEF Range
  <2>7. IsSeq(entries') /\ Len(entries') = Len(entries)
    <3>1. Len(entries) \in Nat /\ DOMAIN entries = 1 .. Len(entries)
      BY <2>4 DEF IsSeq
    <3>2. entries' \in [1 .. Len(entries) -> Range(entries')]
      BY <2>3, <2>5, <2>6, <3>1
    <3>3. entries' \in Seq(Range(entries'))
      BY <3>1, <3>2
    <3> QED
      BY <3>1, <3>2, <3>3 DEF IsSeq
  <2> QED
    BY <2>5, <2>7
<1>6. /\ Len(chosen) = Len(routes) /\ Len(routes) \in Nat
      /\ DOMAIN routes = 1 .. Len(routes) /\ DOMAIN chosen = 1 .. Len(routes)
      /\ IsSeq(chosen') /\ DOMAIN chosen' = 1 .. n /\ Len(chosen') = n /\ chosen'[n] = choice
      /\ \A i \in 1 .. Len(routes) : chosen'[i] = chosen[i]
      /\ IsSeq(routes') /\ DOMAIN routes' = 1 .. n /\ Len(routes') = n /\ routes'[n] = path
      /\ \A i \in 1 .. Len(routes) : routes'[i] = routes[i]
      /\ Len(slots) = n /\ IsSeq(slots)
  <2>1. Len(chosen) = Len(routes) /\ IsSeq(chosen) /\ IsSeq(routes) /\ IsSeq(slots) /\ Len(slots) = n
    BY <1>1 DEF TallyInv, SizesInv, CallInv
  <2>2. routes' = Append(routes, path)
    BY <1>2, <1>4 DEF Answer
  <2> HIDE DEF path
  <2> QED
    BY <1>2, <2>1, <2>2, AppendIsSeq
<1>7. /\ new.pair = entry.pair /\ new.paths = entry.paths /\ new.counts = counted
      /\ counted \in [DOMAIN entry.paths -> Nat]
      /\ counted[choice] = entry.counts[choice] + 1 /\ entry.counts[choice] \in Nat
      /\ \A k \in DOMAIN entry.paths : k # choice => counted[k] = entry.counts[k]
      /\ DOMAIN entry.counts = DOMAIN entry.paths
  BY <1>3 DEF IsEntry
<1>8. IsEntry(new)
  BY <1>3, <1>7 DEF IsEntry
<1> HIDE DEF new, counted, path
<1>9. RequestsInv'
  <2>1. \E x : routes' = Append(routes, x)
    BY <1>2 DEF Answer
  <2> QED
    BY <1>1, <2>1, AnswerCounts DEF TallyInv, CallInv
<1>10. NothingYet' /\ SizesInv'
  BY <1>1, <1>5, <1>6 DEF NothingYet, SizesInv
<1>11. EntriesInv'
  BY <1>1, <1>5, <1>7, <1>8 DEF TallyInv, EntriesInv
<1>12. ASSUME NEW t, NEW k, ~(t = s /\ k = choice) PROVE Chose(t, k)' = Chose(t, k)
  <2>1. slots' = slots /\ slots[n] = s
    BY <1>0, <1>1
  <2> QED
    BY <1>6, <1>12, <2>1 DEF Chose
<1>13. Chose(s, choice)' = Chose(s, choice) \cup {n} /\ n \notin Chose(s, choice)
  <2>1. slots' = slots /\ slots[n] = s
    BY <1>0, <1>1
  <2>2. Chose(s, choice) = {i \in 1 .. Len(routes) : slots[i] = s /\ chosen[i] = choice}
    BY <1>6 DEF Chose
  <2>3. {i \in 1 .. n : slots[i] = s /\ chosen'[i] = choice} = Chose(s, choice) \cup {n}
    BY <1>6, <2>1, <2>2
  <2>4. n \notin Chose(s, choice)
    BY <1>6, <2>2
  <2>5. {i \in DOMAIN chosen' : slots'[i] = s /\ chosen'[i] = choice} = Chose(s, choice) \cup {n}
    BY <1>6, <2>1, <2>3
  <2> QED
    BY <2>1, <2>4, <2>5 DEF Chose
<1>14. Cardinality(Chose(s, choice) \cup {n}) = Cardinality(Chose(s, choice)) + 1
  <2>1. IsFiniteSet(Chose(s, choice))
    <3>1. Chose(s, choice) \subseteq 1 .. Len(routes)
      BY <1>6 DEF Chose
    <3> QED
      BY <1>6, <3>1, UptoFinite, FS_Subset
  <2> QED
    BY <1>13, <2>1, FS_AddElement
<1>15. CountsInv'
  <2> SUFFICES ASSUME NEW t \in DOMAIN entries', NEW k \in DOMAIN entries'[t].counts
               PROVE  entries'[t].counts[k] = Cardinality(Chose(t, k)')
    BY DEF CountsInv
  <2>1. CASE t = s /\ k = choice
    <3>1. entry.counts[choice] = Cardinality(Chose(s, choice))
      BY <1>1, <1>3, <1>7 DEF TallyInv, CountsInv
    <3> QED
      BY <1>5, <1>7, <1>13, <1>14, <2>1, <3>1
  <2>2. CASE t = s /\ k # choice
    <3>1. k \in DOMAIN entry.counts /\ entries'[t].counts[k] = entry.counts[k]
      BY <1>5, <1>7, <2>2
    <3>2. entry.counts[k] = Cardinality(Chose(s, k))
      BY <1>1, <3>1 DEF TallyInv, CountsInv
    <3> QED
      BY <1>12, <2>2, <3>1, <3>2
  <2>3. CASE t # s
    <3>1. t \in DOMAIN entries /\ entries'[t] = entries[t]
      BY <1>5, <2>3
    <3> QED
      BY <1>12, <2>3, <3>1 DEF TallyInv, CountsInv
  <2> QED
    BY <2>1, <2>2, <2>3
<1>16. DrawnInv'
  <2> SUFFICES ASSUME NEW i \in DOMAIN routes' PROVE Drawn(i)'
    BY DEF DrawnInv
  <2>0. Pair(i)' = Pair(i) /\ slots' = slots
    BY <1>1 DEF Pair
  <2>1. CASE i = n
    <3>1. slots'[i] = s /\ chosen'[i] = choice /\ routes'[i] = path
      BY <1>0, <1>1, <1>6, <2>0, <2>1
    <3>2. s \in DOMAIN entries' /\ entries'[s].pair = Pair(i)' /\ entries'[s].paths = entry.paths
      BY <1>1, <1>5, <1>7, <2>0, <2>1
    <3> QED
      BY <1>3, <3>1, <3>2 DEF Drawn, path
  <2>2. CASE i # n
    <3>1. i \in DOMAIN routes /\ chosen'[i] = chosen[i] /\ routes'[i] = routes[i]
      BY <1>6, <2>2
    <3>2. Drawn(i)
      BY <1>1, <3>1 DEF TallyInv, DrawnInv
    <3>3. entries'[slots[i]].pair = entries[slots[i]].pair
          /\ entries'[slots[i]].paths = entries[slots[i]].paths
      BY <1>5, <1>7, <3>2 DEF Drawn
    <3> QED
      BY <1>5, <2>0, <3>1, <3>2, <3>3 DEF Drawn
  <2> QED
    BY <2>1, <2>2
<1>17. NowInv'
  BY <1>1 DEF NowInv
<1>18. FlowsInv'
  BY <1>1, <1>2, AnswerFlows DEF TallyInv, CallInv
<1> QED
  BY <1>9, <1>10, <1>11, <1>15, <1>16, <1>17, <1>18 DEF TallyInv

LEMMA TallyStep == LoadInv /\ YenInv /\ TallyInv /\ [Next]_vars => TallyInv'
<1> SUFFICES ASSUME LoadInv, YenInv, TallyInv, [Next]_vars PROVE TallyInv'
  OBVIOUS
<1>0. CallInv
  BY DEF LoadInv
<1>1. CASE BuildTree \/ Snap \/ Search \/ FindPaths \/ Congestion \/ UNCHANGED vars
  <2>1. UNCHANGED <<callArgs, provenance, answers, ends, pc>>
    BY <1>1 DEF BuildTree, Snap, Search, FindPaths, Congestion, vars, callVars, snapped
  <2> QED
    BY <2>1, TallyStutters
<1>2. CASE Begin \/ Return
  <2>1. /\ UNCHANGED <<callArgs, provenance, answers, ends>>
        /\ pc \in {"snap", "request"} /\ pc' \in {"request", "returned"}
    BY <1>2 DEF Begin, Return, snapped
  <2> QED
    BY <2>1, TallyMoves
<1>3. CASE Snapped
  BY <1>0, <1>3, TallySnapped
<1>4. CASE RouteReactive
  BY <1>0, <1>4, TallyReactive
<1>5. CASE Fail
  BY <1>5, TallyFail
<1>6. CASE KnownPair
  BY <1>0, <1>6, TallyKnownPair
<1>7. CASE NewPair
  BY <1>7, TallyNewPair
<1>8. CASE AddEntry
  BY <1>0, <1>8, TallyAddEntry
<1>9. CASE Draw
  BY <1>0, <1>9, TallyDraw
<1>10. CASE \E r \in {"reactive", "multipath"}, b \in BOOLEAN, requests \in Batches :
               Call(r, b, requests)
  BY <1>0, <1>10, TallyCall
<1> QED
  BY <1>1, <1>2, <1>3, <1>4, <1>5, <1>6, <1>7, <1>8, <1>9, <1>10 DEF Next, Router

LEMMA TallyShows == TallyInv => TalliesAgree
<1> SUFFICES ASSUME TallyInv PROVE TalliesAgree
  OBVIOUS
<1>1. router = "multipath" => \A i \in DOMAIN routes :
         /\ entries[slots[i]].pair = Pair(i)
         /\ routes[i] = entries[slots[i]].paths[chosen[i]]
  BY DEF TallyInv, DrawnInv, Drawn
<1>2. \A s \in DOMAIN entries :
         /\ \A t \in DOMAIN entries : entries[s].pair = entries[t].pair => s = t
         /\ \A k \in DOMAIN entries[s].counts : entries[s].counts[k] =
               Cardinality({i \in DOMAIN chosen : slots[i] = s /\ chosen[i] = k})
  BY DEF TallyInv, EntriesInv, CountsInv, Chose
<1>3. batch => \A e \in Edges : flows[e] =
         SumFunctionOnSet([i \in DOMAIN routes |-> reqs[i].weight],
                          {i \in DOMAIN routes : e \in Range(routes[i].edges)})
  BY DEF TallyInv, FlowsInv, weights, Using
<1> QED
  BY <1>1, <1>2, <1>3 DEF TalliesAgree

\* The tallies of multipath and the flows of every batch are those of the routes.
THEOREM TalliesTellTheRoutes == Spec => []TalliesAgree
<1>1. Init => LoadInv /\ YenInv /\ TallyInv
  BY LoadInvInit, YenInitially, TallyInitially DEF Init
<1>2. LoadInv /\ YenInv /\ TallyInv /\ [Next]_vars => (LoadInv /\ YenInv /\ TallyInv)'
  BY LoadInvStep, YenInvStep, TallyStep
<1>3. TallyInv => TalliesAgree
  BY TallyShows
<1> QED
  BY <1>1, <1>2, <1>3, PTL DEF Spec
=============================================================================
