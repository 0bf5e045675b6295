---------------------------- MODULE MesoSimProofs ----------------------------
(***************************************************************************)
(* The simulator, for every road, demand, tick length and budget; and two  *)
(* runs of it on one demand, handed to them in two orders.                 *)
(***************************************************************************)
EXTENDS MesoSimOrder, FoldLemmas, SequenceTheorems, TLAPS

-----------------------------------------------------------------------------
(* Putting a finite set in order.                                           *)

\* R is a strict total order on S.
Orders(R, S) ==
    /\ \A x \in S : <<x, x>> \notin R
    /\ \A x, y \in S : x # y => <<x, y>> \in R \/ <<y, x>> \in R
    /\ \A x, y, z \in S : <<x, y>> \in R /\ <<y, z>> \in R => <<x, z>> \in R

Sorts(q, S, R) ==
    /\ q \in [1 .. Cardinality(S) -> S]
    /\ \A k, l \in DOMAIN q : k < l => <<q[k], q[l]>> \in R

LastOf(m, S, R) == m \in S /\ \A y \in S : y # m => <<y, m>> \in R

\* A finite set that is not empty has a last member.
LEMMA LastExists ==
  ASSUME NEW S, IsFiniteSet(S), S # {}, NEW R, Orders(R, S)
  PROVE  \E m : LastOf(m, S, R)
<1> DEFINE I == {T \in SUBSET S : T = {} \/ \E m : LastOf(m, T, R)}
<1>1. {} \in I
  OBVIOUS
<1>2. ASSUME NEW T \in SUBSET S, NEW x \in S \ T, T \in I PROVE T \cup {x} \in I
  <2>1. CASE T = {}
    <3>1. LastOf(x, T \cup {x}, R)
      BY <2>1 DEF LastOf
    <3> QED
      BY <3>1
  <2>2. CASE T # {}
    <3>1. PICK m : LastOf(m, T, R)
      BY <1>2, <2>2
    <3>2. m \in S /\ m # x
      BY <3>1 DEF LastOf
    <3>3. <<m, x>> \in R \/ <<x, m>> \in R
      BY <3>2 DEF Orders
    <3>4. CASE <<x, m>> \in R
      <4>1. LastOf(m, T \cup {x}, R)
        BY <3>1, <3>4 DEF LastOf
      <4> QED
        BY <4>1
    <3>5. CASE <<m, x>> \in R
      <4>1. \A y \in T : <<y, x>> \in R
        <5> SUFFICES ASSUME NEW y \in T PROVE <<y, x>> \in R
          OBVIOUS
        <5>1. y = m \/ <<y, m>> \in R
          BY <3>1 DEF LastOf
        <5> QED
          BY <3>2, <3>5, <5>1 DEF Orders
      <4>2. LastOf(x, T \cup {x}, R)
        BY <4>1 DEF LastOf
      <4> QED
        BY <4>2
    <3> QED
      BY <3>3, <3>4, <3>5
  <2> QED
    BY <2>1, <2>2
<1> HIDE DEF I
<1>3. S \in I
  BY <1>1, <1>2, FiniteSetInduction
<1> QED
  BY <1>3 DEF I

\* Every finite set can be sorted.
LEMMA SortExists ==
  ASSUME NEW S, IsFiniteSet(S), NEW R, Orders(R, S)
  PROVE  \E q : Sorts(q, S, R)
<1> DEFINE I == {n \in Nat : \A T \in SUBSET S : Cardinality(T) = n => \E q : Sorts(q, T, R)}
<1>1. 0 \in I
  <2> SUFFICES ASSUME NEW T \in SUBSET S, Cardinality(T) = 0 PROVE \E q : Sorts(q, T, R)
    OBVIOUS
  <2>1. IsFiniteSet(T)
    BY FS_Subset
  <2>2. T = {}
    BY <2>1, FS_EmptySet
  <2>3. Sorts([k \in 1 .. 0 |-> k], T, R)
    BY <2>2, FS_EmptySet DEF Sorts
  <2> QED
    BY <2>3
<1>2. ASSUME NEW n \in Nat, n \in I PROVE n + 1 \in I
  <2> SUFFICES ASSUME NEW T \in SUBSET S, Cardinality(T) = n + 1 PROVE \E q : Sorts(q, T, R)
    OBVIOUS
  <2>1. IsFiniteSet(T)
    BY FS_Subset
  <2>2. T # {}
    BY <2>1, FS_EmptySet
  <2>3. Orders(R, T)
    BY DEF Orders
  <2>4. PICK m : LastOf(m, T, R)
    BY <2>1, <2>2, <2>3, LastExists
  <2>5. Cardinality(T \ {m}) = n
    <3>1. m \in T
      BY <2>4 DEF LastOf
    <3>2. Cardinality(T \ {m}) = Cardinality(T) - 1
      BY <2>1, <3>1, FS_RemoveElement
    <3> QED
      BY <3>2
  <2>6. PICK q : Sorts(q, T \ {m}, R)
    BY <1>2, <2>5
  <2> DEFINE p == [k \in 1 .. (n + 1) |-> IF k = n + 1 THEN m ELSE q[k]]
  <2>7. q \in [1 .. n -> T \ {m}]
    BY <2>5, <2>6 DEF Sorts
  <2>8. p \in [1 .. (n + 1) -> T]
    <3> SUFFICES ASSUME NEW k \in 1 .. (n + 1), k # n + 1 PROVE q[k] \in T
      BY <2>4 DEF LastOf
    <3>1. k \in 1 .. n
      OBVIOUS
    <3> QED
      BY <2>7, <3>1
  <2>9. ASSUME NEW k \in 1 .. (n + 1), NEW l \in 1 .. (n + 1), k < l
        PROVE  <<p[k], p[l]>> \in R
    <3>1. k \in 1 .. n /\ p[k] = q[k] /\ q[k] \in T /\ q[k] # m
      BY <2>7, <2>9
    <3>2. CASE l = n + 1
      BY <2>4, <3>1, <3>2 DEF LastOf
    <3>3. CASE l # n + 1
      <4>1. l \in 1 .. n /\ p[l] = q[l]
        BY <3>3
      <4> QED
        BY <2>6, <2>7, <2>9, <3>1, <4>1 DEF Sorts
    <3> QED
      BY <3>2, <3>3
  <2>10. Sorts(p, T, R)
    <3> HIDE DEF p
    <3> QED
      BY <2>8, <2>9 DEF Sorts
  <2> QED
    BY <2>10
<1> HIDE DEF I
<1>3. Nat \subseteq I
  BY <1>1, <1>2, NatSetInduction
<1>4. Cardinality(S) \in Nat
  BY FS_CardinalityType
<1> QED
  BY <1>3, <1>4 DEF I

\* What Ordered returns: the members of S, each once, in order.
LEMMA OrderedSorts ==
  ASSUME NEW S, IsFiniteSet(S), NEW R, Orders(R, S)
  PROVE  /\ Sorts(Ordered(S, R), S, R)
         /\ \A k, l \in 1 .. Cardinality(S) : k # l => Ordered(S, R)[k] # Ordered(S, R)[l]
         /\ \A x \in S : \E k \in 1 .. Cardinality(S) : Ordered(S, R)[k] = x
<1> DEFINE q == Ordered(S, R)
           n == Cardinality(S)
<1>1. Sorts(q, S, R)
  <2>1. PICK p : Sorts(p, S, R)
    BY SortExists
  <2>2. \E f \in [1 .. Cardinality(S) -> S] :
           \A k, l \in DOMAIN f : k < l => <<f[k], f[l]>> \in R
    BY <2>1 DEF Sorts
  <2> QED
    BY <2>2 DEF Sorts, Ordered
<1> HIDE DEF q
<1>2. n \in Nat
  BY FS_CardinalityType
<1>3. ASSUME NEW k \in 1 .. n, NEW l \in 1 .. n, k # l PROVE q[k] # q[l]
  <2>1. k < l \/ l < k
    BY <1>2, <1>3
  <2>2. <<q[k], q[l]>> \in R \/ <<q[l], q[k]>> \in R
    BY <1>1, <2>1 DEF Sorts
  <2>3. q[k] \in S
    BY <1>1 DEF Sorts
  <2> QED
    BY <2>2, <2>3 DEF Orders
<1>4. ASSUME NEW x \in S PROVE \E k \in 1 .. n : q[k] = x
  <2> DEFINE T == {q[k] : k \in 1 .. n}
  <2>1. T \in SUBSET S
    BY <1>1 DEF Sorts
  <2>2. ExistsBijection(1 .. n, T)
    <3>1. q \in Bijection(1 .. n, T)
      <4>1. q \in [1 .. n -> T]
        BY <1>1 DEF Sorts
      <4> QED
        BY <1>3, <4>1 DEF Bijection, Injection, Surjection, IsInjective
    <3> QED
      BY <3>1 DEF ExistsBijection
  <2>3. IsFiniteSet(1 .. n) /\ Cardinality(1 .. n) = n
    <3>1. n \in Int /\ 1 \in Int
      BY <1>2
    <3>2. IsFiniteSet(1 .. n) /\ Cardinality(1 .. n) = IF 1 > n THEN 0 ELSE n - 1 + 1
      BY <3>1, FS_Interval
    <3> QED
      BY <1>2, <3>2
  <2>4. Cardinality(T) = n
    BY <2>2, <2>3, FS_Bijection
  <2>5. T = S
    <3> HIDE DEF T
    <3> QED
      BY <2>1, <2>4, FS_Subset
  <2> QED
    BY <2>5
<1> QED
  BY <1>1, <1>3, <1>4 DEF q

\* b pairs the members of S with those of T.
Pairs(b, S, T) ==
    /\ b \in [S -> T]
    /\ \A x, y \in S : b[x] = b[y] => x = y
    /\ \A z \in T : \E x \in S : b[x] = z

LEMMA PairsSize ==
  ASSUME NEW S, IsFiniteSet(S), NEW T, NEW b, Pairs(b, S, T)
  PROVE  IsFiniteSet(T) /\ Cardinality(T) = Cardinality(S)
<1>1. b \in Bijection(S, T)
  BY DEF Pairs, Bijection, Injection, Surjection, IsInjective
<1>2. ExistsBijection(S, T)
  BY <1>1 DEF ExistsBijection
<1> QED
  BY <1>2, FS_Bijection

\* Where the elements of a filtered sequence come from.
LEMMA FilteredPlaces ==
  ASSUME NEW D, NEW s \in Seq(D), NEW S \in SUBSET (1 .. Len(s))
  PROVE  /\ IsFiniteSet(S) /\ Cardinality(S) \in Nat
         /\ \E at : /\ Pairs(at, 1 .. Cardinality(S), S)
                    /\ Filtered(s, S) = [k \in 1 .. Cardinality(S) |-> s[at[k]]]
<1>1. Len(s) \in Nat
  BY LenProperties
<1>2. IsFiniteSet(S)
  BY <1>1, UptoFinite, FS_Subset
<1> DEFINE R == {pair \in S \X S : pair[1] < pair[2]}
           at == Ordered(S, R)
           n == Cardinality(S)
<1>3. Orders(R, S)
  <2>1. \A x, y \in S : x \in Int /\ y \in Int /\ (<<x, y>> \in R <=> x < y)
    BY <1>1
  <2> HIDE DEF R
  <2> QED
    BY <2>1 DEF Orders
<1>4. Filtered(s, S) = [k \in DOMAIN at |-> s[at[k]]]
  BY DEF Filtered
<1> HIDE DEF R
<1>5. /\ Sorts(at, S, R)
      /\ \A k, l \in 1 .. n : k # l => at[k] # at[l]
      /\ \A x \in S : \E k \in 1 .. n : at[k] = x
  BY <1>2, <1>3, OrderedSorts
<1>6. at \in [1 .. n -> S]
  BY <1>5 DEF Sorts
<1>7. n \in Nat
  BY <1>2, FS_CardinalityType
<1> HIDE DEF at, n
<1>8. Pairs(at, 1 .. n, S)
  BY <1>5, <1>6 DEF Pairs
<1>9. Filtered(s, S) = [k \in 1 .. n |-> s[at[k]]]
  BY <1>4, <1>6
<1> QED
  BY <1>2, <1>7, <1>8, <1>9 DEF n

\* What filtering keeps: the elements at the positions S, no others, as many.
FilteredOf(f, s, S) ==
    /\ Len(f) = Cardinality(S)
    /\ Range(f) = {s[i] : i \in S}

LEMMA FilteredKeeps ==
  ASSUME NEW D, NEW s \in Seq(D), NEW S \in SUBSET (1 .. Len(s))
  PROVE  /\ Filtered(s, S) \in Seq(D)
         /\ FilteredOf(Filtered(s, S), s, S)
<1>1. s \in [1 .. Len(s) -> D]
  BY LenProperties
<1>2. PICK n, at : /\ n \in Nat /\ n = Cardinality(S) /\ Pairs(at, 1 .. n, S)
                   /\ Filtered(s, S) = [k \in 1 .. n |-> s[at[k]]]
  BY FilteredPlaces
<1>3. \A k \in 1 .. n : s[at[k]] \in D
  BY <1>1, <1>2 DEF Pairs
<1>4. Filtered(s, S) \in Seq(D) /\ Len(Filtered(s, S)) = n
  <2>1. [k \in 1 .. n |-> s[at[k]]] \in Seq(D)
    BY <1>2, <1>3, IsASeq
  <2> QED
    BY <1>2, <2>1
<1>5. Range(Filtered(s, S)) = {s[i] : i \in S}
  <2>1. Range(Filtered(s, S)) = {s[at[k]] : k \in 1 .. n}
    BY <1>2 DEF Range
  <2>2. (\A k \in 1 .. n : at[k] \in S) /\ \A i \in S : \E k \in 1 .. n : at[k] = i
    BY <1>2 DEF Pairs
  <2> QED
    BY <2>1, <2>2
<1> QED
  BY <1>2, <1>4, <1>5 DEF FilteredOf

-----------------------------------------------------------------------------
(* The demand and its order.                                                *)

LEMMA DemandsFacts ==
  ASSUME NEW q \in Demands
  PROVE  /\ Len(q) \in Nat
         /\ DOMAIN q = 1 .. Len(q)
         /\ \A i \in 1 .. Len(q) :
               /\ q[i].departAt \in Int
               /\ q[i].weight \in Int
               /\ IsFiniteSet(Paths(q[i]))
               /\ \A path \in Paths(q[i]) : path \in Seq(Edges)
<1>1. q \in Seq(Range(q)) /\ Len(q) \in Nat /\ DOMAIN q = 1 .. Len(q)
  BY DemandAssumption, LenProperties DEF DemandAssumption
<1>2. \A i \in 1 .. Len(q) : q[i] \in Range(q)
  BY <1>1 DEF Range
<1> QED
  BY <1>1, <1>2, DemandAssumption DEF DemandAssumption

LEMMA DemandFacts ==
  ASSUME reqs \in Demands
  PROVE  /\ Len(reqs) \in Nat
         /\ DOMAIN reqs = Requests
         /\ \A i \in Requests :
               /\ reqs[i].departAt \in Int
               /\ reqs[i].weight \in Int
               /\ IsFiniteSet(Paths(reqs[i]))
               /\ \A path \in Paths(reqs[i]) : path \in Seq(Edges)
BY DemandsFacts DEF Requests

LEMMA WeightType ==
  ASSUME reqs \in Demands, NEW i \in Requests
  PROVE  RequestWeight(i) \in Nat
  BY DemandFacts DEF RequestWeight

\* The order is a permutation of the requests by departure.
\* The requests of a demand by departure, ties by their place in it.
LeavesBefore(q) ==
    {pair \in (1 .. Len(q)) \X (1 .. Len(q)) :
        \/ q[pair[1]].departAt < q[pair[2]].departAt
        \/ q[pair[1]].departAt = q[pair[2]].departAt /\ pair[1] < pair[2]}
DepartureOrder(q) == Ordered(1 .. Len(q), LeavesBefore(q))

InDepartureOrder(o, q) ==
    /\ o \in [1 .. Len(q) -> 1 .. Len(q)]
    /\ \A k, l \in 1 .. Len(q) : k # l => o[k] # o[l]
    /\ \A i \in 1 .. Len(q) : \E k \in 1 .. Len(q) : o[k] = i
    /\ \A k, l \in 1 .. Len(q) : k < l => q[o[k]].departAt <= q[o[l]].departAt

LEMMA DepartureOrderSorts ==
  ASSUME NEW q \in Demands
  PROVE  InDepartureOrder(DepartureOrder(q), q)
<1> DEFINE R == LeavesBefore(q)
           S == 1 .. Len(q)
           order == DepartureOrder(q)
           Before(i, j) == \/ q[i].departAt < q[j].departAt
                           \/ q[i].departAt = q[j].departAt /\ i < j
<1>1. order = Ordered(S, R)
  BY DEF DepartureOrder
<1>2. IsFiniteSet(S) /\ Cardinality(S) = Len(q)
  <2>1. Len(q) \in Nat /\ Len(q) \in Int /\ 1 \in Int
    BY DemandsFacts
  <2>2. IsFiniteSet(1 .. Len(q)) /\ Cardinality(1 .. Len(q)) = IF 1 > Len(q) THEN 0 ELSE Len(q) - 1 + 1
    BY <2>1, FS_Interval
  <2> QED
    BY <2>1, <2>2
<1>3. \A x, y \in S : <<x, y>> \in R <=> Before(x, y)
  BY DEF LeavesBefore
<1>4. \A x \in S : x \in Int /\ q[x].departAt \in Int
  BY DemandsFacts
<1>5. Orders(R, S)
  <2> HIDE DEF R, S
  <2>1. \A x \in S : ~Before(x, x)
    BY <1>4
  <2>2. \A x, y \in S : x # y => Before(x, y) \/ Before(y, x)
    BY <1>4
  <2>3. \A x, y, z \in S : Before(x, y) /\ Before(y, z) => Before(x, z)
    BY <1>4
  <2> QED
    BY <1>3, <2>1, <2>2, <2>3 DEF Orders
<1> HIDE DEF R, order, S
<1>6. /\ Sorts(order, S, R)
      /\ \A k, l \in 1 .. Len(q) : k # l => order[k] # order[l]
      /\ \A x \in S : \E k \in 1 .. Len(q) : order[k] = x
  BY <1>1, <1>2, <1>5, OrderedSorts
<1>7. order \in [1 .. Len(q) -> S]
  BY <1>2, <1>6 DEF Sorts
<1>8. ASSUME NEW k \in 1 .. Len(q), NEW l \in 1 .. Len(q), k < l
      PROVE  q[order[k]].departAt <= q[order[l]].departAt
  <2>1. <<order[k], order[l]>> \in R /\ order[k] \in S /\ order[l] \in S
    BY <1>6, <1>7, <1>8 DEF Sorts
  <2>2. Before(order[k], order[l])
    BY <1>3, <2>1
  <2> QED
    BY <1>4, <2>1, <2>2
<1> QED
  BY <1>6, <1>7, <1>8 DEF InDepartureOrder, S, order

\* Release walks the requests in this order.
LEMMA SortedOrder == sortedRequestOrder = DepartureOrder(reqs)
<1>1. LeavesBefore(reqs) = {pair \in Requests \X Requests : Earlier(pair[1], pair[2])}
  BY DEF LeavesBefore, Requests, Earlier
<1> QED
  BY <1>1 DEF sortedRequestOrder, DepartureOrder, Requests

LEMMA OrderFacts ==
  ASSUME reqs \in Demands
  PROVE  /\ sortedRequestOrder \in Seq(Requests)
         /\ Len(sortedRequestOrder) = Len(reqs)
         /\ \A k, l \in 1 .. Len(reqs) : k < l =>
               reqs[sortedRequestOrder[k]].departAt <= reqs[sortedRequestOrder[l]].departAt
<1>1. Len(reqs) \in Nat
  BY DemandFacts
<1>2. PICK order : order = sortedRequestOrder /\ InDepartureOrder(order, reqs)
  BY SortedOrder, DepartureOrderSorts
<1>3. order \in [1 .. Len(reqs) -> Requests]
  BY <1>2 DEF InDepartureOrder, Requests
<1>4. order \in Seq(Requests) /\ Len(order) = Len(reqs)
  BY <1>1, <1>3
<1> QED
  BY <1>2, <1>4 DEF InDepartureOrder

-----------------------------------------------------------------------------
(* One vehicle over one tick.                                               *)

LEMMA DivFacts ==
  ASSUME NEW a \in Int, NEW b \in Nat, b > 0
  PROVE  /\ a \div b \in Int /\ a % b \in 0 .. (b - 1)
         /\ a = b * (a \div b) + (a % b)
  OBVIOUS

LEMMA ProductGrows ==
  ASSUME NEW a \in Nat, NEW b \in Int, NEW c \in Int, b <= c
  PROVE  b * a <= c * a
  OBVIOUS

LEMMA DivNat ==
  ASSUME NEW a \in Nat, NEW b \in Nat, b > 0
  PROVE  a \div b \in Nat
<1>1. PICK q \in Int : q = a \div b
  BY DivFacts
<1>2. PICK r \in 0 .. (b - 1) : a = b * q + r
  BY <1>1, DivFacts
<1>3. CASE q < 0
  <2>1. q <= 0 - 1 /\ q \in Int /\ 0 - 1 \in Int
    BY <1>3
  <2>2. q * b <= (0 - 1) * b
    BY <2>1, ProductGrows
  <2>3. b * q = q * b /\ (0 - 1) * b = 0 - b /\ q * b \in Int
    OBVIOUS
  <2> QED
    BY <1>2, <2>2, <2>3
<1> QED
  BY <1>1, <1>3

\* A vehicle that does not reach the end of its edge stops short of it.
LEMMA StopsShort ==
  ASSUME NEW left \in Nat, NEW len \in Nat, len > 0, NEW cost \in Nat, cost > 0,
         NEW rest \in Nat, ~((left * cost) \div len <= rest)
  PROVE  (rest * len) \div cost < left
<1>1. left * cost \in Nat /\ rest * len \in Nat
  OBVIOUS
<1>2. PICK q \in Nat : q = (left * cost) \div len
  BY <1>1, DivNat
<1>3. PICK x \in 0 .. (len - 1) : left * cost = len * q + x
  <2>1. PICK y : y = left * cost
    OBVIOUS
  <2>2. y \in Int /\ y \div len = q
    BY <1>1, <1>2, <2>1
  <2>3. y % len \in 0 .. (len - 1) /\ y = len * (y \div len) + (y % len)
    BY <2>2, DivFacts
  <2> QED
    BY <2>1, <2>2, <2>3
<1>4. PICK g \in Nat : g = (rest * len) \div cost
  BY <1>1, DivNat
<1>5. PICK z \in 0 .. (cost - 1) : rest * len = cost * g + z
  <2>1. PICK y : y = rest * len
    OBVIOUS
  <2>2. y \in Int /\ y \div cost = g
    BY <1>1, <1>4, <2>1
  <2>3. y % cost \in 0 .. (cost - 1) /\ y = cost * (y \div cost) + (y % cost)
    BY <2>2, DivFacts
  <2> QED
    BY <2>1, <2>2, <2>3
<1>6. rest + 1 <= q
  BY <1>2
<1>7. (rest + 1) * len <= q * len
  <2>1. rest + 1 \in Int /\ q \in Int
    OBVIOUS
  <2> QED
    BY <1>6, <2>1, ProductGrows
<1>8. (rest + 1) * len = rest * len + len /\ q * len = len * q /\ len * q \in Int
  OBVIOUS
<1>9. rest * len < left * cost
  BY <1>1, <1>3, <1>7, <1>8
<1>10. CASE left <= g
  <2>1. left * cost <= g * cost
    BY <1>10, ProductGrows
  <2>2. g * cost = cost * g /\ cost * g \in Int
    OBVIOUS
  <2> QED
    BY <1>1, <1>5, <1>9, <2>1, <2>2
<1> QED
  BY <1>4, <1>10

\* Where a vehicle may be on its path.
Placed(veh) ==
    /\ veh.edgeIndex \in 1 .. (Len(veh.edges) + 1)
    /\ Finished(veh) => veh.distOnEdge = 0
    /\ ~Finished(veh) =>
          \/ veh.distOnEdge = 0
          \/ veh.distOnEdge \in 1 .. (Length[veh.edges[veh.edgeIndex]] - 1)

SameTrip(veh, was) == veh.request = was.request /\ veh.edges = was.edges

LEMMA CostFacts ==
  ASSUME NEW e \in Edges, NEW w \in Nat
  PROVE  Cost(e, w) \in Nat /\ (Length[e] > 0 => Cost(e, w) > 0) /\ Length[e] \in Nat
<1>1. PICK h \in 0 .. HighLoad : h = IF w < HighLoad THEN w ELSE HighLoad
  <2>1. HighLoad \in Nat
    BY RoadAssumption DEF RoadAssumption
  <2>2. (IF w < HighLoad THEN w ELSE HighLoad) \in 0 .. HighLoad
    BY <2>1
  <2> QED
    BY <2>2
<1>2. Cost(e, w) = CostAt[e][h]
  BY <1>1 DEF Cost
<1> QED
  BY <1>2, RoadAssumption DEF RoadAssumption

\* The three ways in which a turn changes a vehicle, field by field.
LEMMA NextVehicle ==
  ASSUME NEW veh \in Vehicles, NEW v, v = NextEdge(veh)
  PROVE  /\ v \in Vehicles /\ SameTrip(v, veh) /\ v.edgeIndex = veh.edgeIndex + 1
         /\ v.distOnEdge = 0 /\ v.experienced = veh.experienced
<1>1. PICK a \in Nat : a = veh.edgeIndex + 1
  BY DEF Vehicles
<1>6. PICK z \in Nat : z = 0
  OBVIOUS
<1>2. v = [veh EXCEPT !.edgeIndex = a, !.distOnEdge = z]
  BY <1>1, <1>6 DEF NextEdge
<1>3. v \in Vehicles
  BY <1>2 DEF Vehicles
<1>4. v.edgeIndex = a /\ v.distOnEdge = z
  BY <1>2 DEF Vehicles
<1>5. v.request = veh.request /\ v.edges = veh.edges /\ v.experienced = veh.experienced
  BY <1>2 DEF Vehicles
<1> QED
  BY <1>1, <1>3, <1>4, <1>5, <1>6 DEF SameTrip

LEMMA ChargedVehicle ==
  ASSUME NEW veh \in Vehicles, NEW t \in Nat, NEW v, v = [veh EXCEPT !.experienced = @ + t]
  PROVE  /\ v \in Vehicles /\ SameTrip(v, veh) /\ v.edgeIndex = veh.edgeIndex
         /\ v.distOnEdge = veh.distOnEdge /\ v.experienced = veh.experienced + t
<1>1. PICK a \in Nat : a = veh.experienced + t
  BY DEF Vehicles
<1>2. v = [veh EXCEPT !.experienced = a]
  BY <1>1
<1>3. v \in Vehicles
  BY <1>2 DEF Vehicles
<1>4. v.experienced = a
  BY <1>2 DEF Vehicles
<1>5. v.request = veh.request /\ v.edges = veh.edges /\ v.edgeIndex = veh.edgeIndex
      /\ v.distOnEdge = veh.distOnEdge
  BY <1>2 DEF Vehicles
<1> QED
  BY <1>1, <1>3, <1>4, <1>5 DEF SameTrip

Further(v, veh, g, t) == v = [veh EXCEPT !.distOnEdge = @ + g, !.experienced = @ + t]

LEMMA FurtherVehicle ==
  ASSUME NEW veh \in Vehicles, NEW g \in Nat, NEW t \in Nat, NEW v, Further(v, veh, g, t)
  PROVE  /\ v \in Vehicles /\ SameTrip(v, veh) /\ v.edgeIndex = veh.edgeIndex
         /\ v.distOnEdge = veh.distOnEdge + g /\ v.experienced = veh.experienced + t
<1>1. PICK a \in Nat : a = veh.experienced + t
  BY DEF Vehicles
<1>2. PICK b \in Nat : b = veh.distOnEdge + g
  BY DEF Vehicles
<1>3. v = [veh EXCEPT !.distOnEdge = b, !.experienced = a]
  BY <1>1, <1>2 DEF Further
<1>4. v \in Vehicles
  BY <1>3 DEF Vehicles
<1>5. v.experienced = a /\ v.distOnEdge = b
  BY <1>3 DEF Vehicles
<1>6. v.request = veh.request /\ v.edges = veh.edges /\ v.edgeIndex = veh.edgeIndex
  BY <1>3 DEF Vehicles
<1> QED
  BY <1>1, <1>2, <1>4, <1>5, <1>6 DEF SameTrip

\* What a turn of the loop keeps: the seconds driven and the seconds left.
Turned(veh, rest, was, had) ==
    /\ veh \in Vehicles /\ Placed(veh) /\ SameTrip(veh, was)
    /\ rest \in 0 .. had
    /\ veh.experienced + rest = was.experienced + had
    /\ rest = 0 \/ Finished(veh) \/ veh.edgeIndex = was.edgeIndex + 1

LEMMA TurnKeeps ==
  ASSUME load \in [Edges -> Nat], NEW veh \in Vehicles, Placed(veh), NEW rest \in Nat
  PROVE  \E v, r : Traverse[<<veh, rest>>] = <<v, r>> /\ Turned(v, r, veh, rest)
<1> DEFINE e == veh.edges[veh.edgeIndex]
           toFinish == ((Length[e] - veh.distOnEdge) * Cost(e, load[e])) \div Length[e]
           gained == (rest * Length[e]) \div Cost(e, load[e])
           next == NextEdge(veh)
           far == [next EXCEPT !.experienced = @ + toFinish]
           near == [veh EXCEPT !.distOnEdge = @ + gained, !.experienced = @ + rest]
<1>1. Traverse[<<veh, rest>>] =
        CASE rest = 0 \/ Finished(veh) -> <<veh, rest>>
          [] rest > 0 /\ ~Finished(veh) /\ Length[e] = 0 -> <<next, rest>>
          [] rest > 0 /\ ~Finished(veh) /\ Length[e] > 0 /\ toFinish <= rest -> <<far, rest - toFinish>>
          [] OTHER -> <<near, 0>>
  <2>1. <<veh, rest>> \in Motion
    BY DEF Motion
  <2> QED
    BY <2>1 DEF Traverse
<1>2. /\ veh.request \in Nat /\ veh.edges \in Seq(Edges) /\ veh.edgeIndex \in Nat
      /\ veh.distOnEdge \in Nat /\ veh.experienced \in Nat
  BY DEF Vehicles
<1>3. Len(veh.edges) \in Nat
  BY <1>2, LenProperties
<1> HIDE DEF next, far, near, toFinish, gained, e
<1>4. CASE rest = 0 \/ Finished(veh)
  <2>1. Traverse[<<veh, rest>>] = <<veh, rest>>
    BY <1>1, <1>4
  <2>2. Turned(veh, rest, veh, rest)
    BY <1>2, <1>4 DEF Turned, SameTrip
  <2> QED
    BY <2>1, <2>2
<1>5. CASE ~(rest = 0 \/ Finished(veh))
  <2>1. rest > 0 /\ ~Finished(veh) /\ veh.edgeIndex \in 1 .. Len(veh.edges)
    BY <1>2, <1>3, <1>5 DEF Placed, Finished
  <2>2. e \in Edges
    BY <1>2, <2>1, ElementOfSeq DEF e
  <2>3. /\ next \in Vehicles /\ SameTrip(next, veh) /\ next.edgeIndex = veh.edgeIndex + 1
        /\ next.distOnEdge = 0 /\ next.experienced = veh.experienced
    BY NextVehicle DEF next
  <2>4. Placed(next)
    <3>1. next.edgeIndex \in 1 .. (Len(next.edges) + 1)
      BY <1>3, <2>1, <2>3 DEF SameTrip
    <3> QED
      BY <2>3, <3>1 DEF Placed
  <2>5. Length[e] \in Nat /\ Cost(e, load[e]) \in Nat /\ (Length[e] > 0 => Cost(e, load[e]) > 0)
    <3>1. load[e] \in Nat
      BY <2>2
    <3> QED
      BY <2>2, <3>1, CostFacts
  <2>6. CASE Length[e] = 0
    <3>1. Traverse[<<veh, rest>>] = <<next, rest>>
      BY <1>1, <2>1, <2>6
    <3>2. Turned(next, rest, veh, rest)
      BY <1>2, <2>3, <2>4 DEF Turned
    <3> QED
      BY <3>1, <3>2
  <2>7. CASE Length[e] # 0
    <3>1. PICK len \in Nat, cost \in Nat : len = Length[e] /\ cost = Cost(e, load[e]) /\ len > 0 /\ cost > 0
      BY <2>5, <2>7
    <3>2. PICK left \in Nat : left = len - veh.distOnEdge /\ left > 0
      <4>1. veh.distOnEdge = 0 \/ veh.distOnEdge \in 1 .. (len - 1)
        BY <2>1, <3>1 DEF Placed, e
      <4> QED
        BY <1>2, <3>1, <4>1
    <3>3. toFinish = (left * cost) \div len
      BY <3>1, <3>2 DEF toFinish
    <3>4. PICK t \in Nat : t = toFinish
      <4>1. left * cost \in Nat
        OBVIOUS
      <4> QED
        BY <3>1, <3>3, <4>1, DivNat
    <3>5. CASE t <= rest
      <4>1. Traverse[<<veh, rest>>] = <<far, rest - t>>
        <5>1. Length[e] > 0 /\ toFinish <= rest /\ Length[e] # 0 /\ ~(rest = 0)
          BY <2>1, <3>1, <3>4, <3>5
        <5> QED
          BY <1>1, <2>1, <3>4, <5>1
      <4>2. far = [next EXCEPT !.experienced = @ + t]
        BY <3>4 DEF far
      <4>3. Turned(far, rest - t, veh, rest)
        <5>1. /\ far \in Vehicles /\ SameTrip(far, next) /\ far.edgeIndex = next.edgeIndex
              /\ far.distOnEdge = next.distOnEdge /\ far.experienced = next.experienced + t
          BY <2>3, <4>2, ChargedVehicle
        <5>2. Placed(far)
          BY <2>4, <5>1 DEF Placed, Finished, SameTrip
        <5> QED
          BY <1>2, <2>3, <3>5, <5>1, <5>2 DEF Turned, SameTrip
      <4> QED
        BY <4>1, <4>3
    <3>6. CASE ~(t <= rest)
      <4>1. Traverse[<<veh, rest>>] = <<near, 0>>
        <5>1. ~(toFinish <= rest)
          BY <3>4, <3>6
        <5> QED
          BY <1>1, <1>5, <2>7, <5>1
      <4>2. gained = (rest * len) \div cost
        BY <3>1 DEF gained
      <4>3. PICK g \in Nat : g = gained
        <5>1. rest * len \in Nat
          OBVIOUS
        <5> QED
          BY <3>1, <4>2, <5>1, DivNat
      <4>4. g < left
        BY <3>1, <3>3, <3>4, <3>6, <4>2, <4>3, StopsShort
      <4>5. near = [veh EXCEPT !.distOnEdge = @ + g, !.experienced = @ + rest]
        BY <4>3 DEF near
      <4>6. /\ near \in Vehicles /\ SameTrip(near, veh) /\ near.edgeIndex = veh.edgeIndex
            /\ near.distOnEdge = veh.distOnEdge + g /\ near.experienced = veh.experienced + rest
        <5>1. PICK v : v = near
          OBVIOUS
        <5>2. Further(v, veh, g, rest)
          BY <4>5, <5>1 DEF Further
        <5> HIDE DEF near
        <5>3. /\ v \in Vehicles /\ SameTrip(v, veh) /\ v.edgeIndex = veh.edgeIndex
              /\ v.distOnEdge = veh.distOnEdge + g /\ v.experienced = veh.experienced + rest
          BY <5>2, FurtherVehicle
        <5> QED
          BY <5>1, <5>3
      <4>7. Placed(near)
        <5>1. near.distOnEdge < len /\ near.distOnEdge \in Nat
          <6>1. near.distOnEdge = veh.distOnEdge + g
            BY <4>6
          <6>2. veh.distOnEdge \in Nat /\ len = left + veh.distOnEdge
            BY <1>2, <3>2
          <6> QED
            BY <4>4, <6>1, <6>2
        <5>2. ~Finished(near)
          BY <2>1, <4>6 DEF Finished, SameTrip
        <5>3. near.distOnEdge = 0 \/ near.distOnEdge \in 1 .. (Length[near.edges[near.edgeIndex]] - 1)
          <6>1. near.edges[near.edgeIndex] = e
            BY <4>6 DEF e, SameTrip
          <6> QED
            BY <3>1, <5>1, <6>1
        <5> QED
          BY <2>1, <1>3, <4>6, <5>2, <5>3 DEF Placed, SameTrip
      <4>8. Turned(near, 0, veh, rest)
        BY <1>2, <4>6, <4>7 DEF Turned
      <4> QED
        BY <4>1, <4>8
    <3> QED
      BY <3>5, <3>6
  <2> QED
    BY <2>6, <2>7
<1> QED
  BY <1>4, <1>5

\* The turns of advance, each from where the last one left the vehicle.
Turns(w, veh) ==
    /\ w[0] = <<veh, TickSeconds>>
    /\ \A n \in Nat : n + 1 <= Len(veh.edges) => w[n + 1] = Traverse[w[n]]
    /\ advance(veh) = w[Len(veh.edges)][1]

LEMMA AdvanceTurns ==
  ASSUME load \in [Edges -> Nat], NEW veh \in Vehicles, Placed(veh)
  PROVE  \E w : Turns(w, veh)
<1> DEFINE N == Len(veh.edges)
           T == {st \in Motion : Placed(st[1])}
           start == <<veh, TickSeconds>>
           g == [n \in 1 .. N |-> [st \in T |-> Traverse[st]]]
<1>0. N \in Nat
  BY LenProperties DEF Vehicles
<1>1. TickSeconds \in Nat /\ TickSeconds > 0
  BY RoadAssumption DEF RoadAssumption
<1>2. start \in T
  BY <1>1 DEF Motion
<1>3. ASSUME NEW st \in T PROVE Traverse[st] \in T
  <2>1. PICK v \in Vehicles, r \in Nat : st = <<v, r>> /\ Placed(v)
    BY DEF Motion
  <2>2. PICK w, q : Traverse[<<v, r>>] = <<w, q>> /\ Turned(w, q, v, r)
    BY <2>1, TurnKeeps
  <2>3. w \in Vehicles /\ Placed(w) /\ q \in Nat
    BY <2>2 DEF Turned
  <2> QED
    BY <2>1, <2>2, <2>3 DEF Motion
<1>4. g \in [1 .. N -> [T -> T]]
  <2> HIDE DEF T
  <2> QED
    BY <1>3
<1>5. PICK f \in [0 .. N -> T] : \A n \in 0 .. N : f[n] = IF n = 0 THEN start ELSE g[n][f[n - 1]]
  <2> HIDE DEF T, g, N, start
  <2>1. PICK f \in [0 .. N -> T] : IteratesUpto(N, f, start, g)
    BY <1>0, <1>2, <1>4, UptoRecursion
  <2> QED
    BY <2>1 DEF IteratesUpto
<1>6. \A n \in 0 .. N : f[n] = IF n = 0 THEN start ELSE Traverse[f[n - 1]]
  <2> SUFFICES ASSUME NEW n \in 0 .. N, n # 0 PROVE f[n] = Traverse[f[n - 1]]
    BY <1>0, <1>5
  <2>1. n - 1 \in 0 .. N /\ n \in 1 .. N
    BY <1>0
  <2> HIDE DEF T
  <2> QED
    BY <1>5, <2>1
<1> HIDE DEF g, T
<1> DEFINE w == CHOOSE w : w = [n \in 0 .. N |-> IF n = 0 THEN start ELSE Traverse[w[n - 1]]]
<1>7. f = [n \in 0 .. N |-> IF n = 0 THEN start ELSE Traverse[f[n - 1]]]
  <2>1. f = [n \in 0 .. N |-> f[n]]
    BY <1>5
  <2> QED
    BY <1>6, <2>1
<1>8. w = [n \in 0 .. N |-> IF n = 0 THEN start ELSE Traverse[w[n - 1]]]
  BY <1>7
<1>9. advance(veh) = w[N][1]
  BY DEF advance
<1> HIDE DEF w
<1>10. w[0] = start
  BY <1>0, <1>8
<1>11. ASSUME NEW n \in Nat, n + 1 <= N PROVE w[n + 1] = Traverse[w[n]]
  <2>1. n + 1 \in 0 .. N /\ (n + 1) - 1 = n /\ n + 1 # 0
    BY <1>0, <1>11
  <2> QED
    BY <1>8, <2>1
<1> QED
  BY <1>9, <1>10, <1>11 DEF Turns

\* Over the whole tick: a vehicle arrives, or has driven every second of it.
Moved(veh, was) ==
    /\ veh \in Vehicles /\ Placed(veh) /\ SameTrip(veh, was)
    /\ veh.experienced <= was.experienced + TickSeconds
    /\ Finished(veh) \/ veh.experienced = was.experienced + TickSeconds

LEMMA AdvanceMoves ==
  ASSUME load \in [Edges -> Nat], NEW veh \in Vehicles, Placed(veh)
  PROVE  Moved(advance(veh), veh)
<1> DEFINE N == Len(veh.edges)
<1>0. N \in Nat
  BY LenProperties DEF Vehicles
<1>1. TickSeconds \in Nat /\ TickSeconds > 0
  BY RoadAssumption DEF RoadAssumption
<1>2. PICK w : Turns(w, veh)
  BY AdvanceTurns
<1>3. w[0] = <<veh, TickSeconds>> /\ advance(veh) = w[N][1]
  BY <1>2 DEF Turns
<1> DEFINE Good(st, n) ==
             \E v, r : /\ st = <<v, r>>
                       /\ v \in Vehicles /\ Placed(v) /\ SameTrip(v, veh)
                       /\ r \in 0 .. TickSeconds
                       /\ v.experienced + r = veh.experienced + TickSeconds
                       /\ r = 0 \/ Finished(v) \/ v.edgeIndex >= n + 1
           I == {n \in Nat : n <= N => Good(w[n], n)}
<1>4. 0 \in I
  <2>1. w[0] = <<veh, TickSeconds>>
    BY <1>3
  <2>2. veh.edgeIndex >= 0 + 1 /\ veh.experienced \in Nat /\ SameTrip(veh, veh)
    BY DEF Placed, Vehicles, SameTrip
  <2>3. Good(<<veh, TickSeconds>>, 0)
    BY <1>1, <2>2
  <2> HIDE DEF Good
  <2> QED
    BY <2>1, <2>3
<1>5. ASSUME NEW n \in Nat, n \in I PROVE n + 1 \in I
  <2> SUFFICES ASSUME n + 1 <= N PROVE Good(w[n + 1], n + 1)
    OBVIOUS
  <2>1. n <= N
    BY <1>0
  <2>2. w[n + 1] = Traverse[w[n]]
    BY <1>2 DEF Turns
  <2>3. Good(w[n], n)
    BY <1>5, <2>1
  <2>4. PICK v, r : /\ w[n] = <<v, r>>
                    /\ v \in Vehicles /\ Placed(v) /\ SameTrip(v, veh)
                    /\ r \in 0 .. TickSeconds
                    /\ v.experienced + r = veh.experienced + TickSeconds
                    /\ r = 0 \/ Finished(v) \/ v.edgeIndex >= n + 1
    BY <2>3
  <2>5. r \in Nat
    BY <1>1, <2>4
  <2>6. PICK u, q : Traverse[<<v, r>>] = <<u, q>> /\ Turned(u, q, v, r)
    BY <2>4, <2>5, TurnKeeps
  <2>7. u \in Vehicles /\ Placed(u) /\ SameTrip(u, veh)
    BY <2>4, <2>6 DEF Turned, SameTrip
  <2>8. q \in 0 .. r /\ u.experienced + q = v.experienced + r
    BY <2>6 DEF Turned
  <2>9. q = 0 \/ Finished(u) \/ u.edgeIndex >= (n + 1) + 1
    <3>1. q = 0 \/ Finished(u) \/ u.edgeIndex = v.edgeIndex + 1
      BY <2>6 DEF Turned
    <3>2. CASE q # 0 /\ ~Finished(u)
      <4>1. u.edgeIndex = v.edgeIndex + 1 /\ v.edgeIndex \in Nat
        BY <2>4, <3>1, <3>2 DEF Vehicles
      <4>2. r # 0
        BY <2>8, <3>2
      <4>3. CASE Finished(v)
        <5>1. u.edges = v.edges /\ Len(v.edges) \in Nat
          BY <2>4, <2>6, LenProperties DEF Turned, SameTrip, Vehicles
        <5> QED
          BY <3>2, <4>1, <4>3, <5>1 DEF Finished
      <4> QED
        BY <2>4, <4>1, <4>2, <4>3
    <3> QED
      BY <3>1, <3>2
  <2>10. q \in 0 .. TickSeconds
    BY <1>1, <2>4, <2>8
  <2>11. Good(<<u, q>>, n + 1)
    <3>1. u.experienced + q = veh.experienced + TickSeconds
      BY <2>4, <2>8
    <3> QED
      BY <2>7, <2>9, <2>10, <3>1
  <2> HIDE DEF Good
  <2> QED
    BY <2>2, <2>4, <2>6, <2>11
<1> HIDE DEF I
<1>6. Nat \subseteq I
  BY <1>4, <1>5, NatSetInduction
<1>7. Good(w[N], N)
  <2> HIDE DEF Good
  <2> QED
    BY <1>0, <1>6 DEF I
<1>8. PICK v, r : /\ w[N] = <<v, r>>
                  /\ v \in Vehicles /\ Placed(v) /\ SameTrip(v, veh)
                  /\ r \in 0 .. TickSeconds
                  /\ v.experienced + r = veh.experienced + TickSeconds
                  /\ r = 0 \/ Finished(v) \/ v.edgeIndex >= N + 1
  BY <1>7
<1>9. advance(veh) = v
  BY <1>3, <1>8
<1>10. Finished(v) \/ r = 0
  <2>1. v.edges = veh.edges /\ v.edgeIndex \in Nat
    BY <1>8 DEF SameTrip, Vehicles
  <2> QED
    BY <1>0, <1>8, <2>1 DEF Finished
<1>11. v.experienced \in Nat /\ veh.experienced \in Nat
  BY <1>8 DEF Vehicles
<1>12. v.experienced <= veh.experienced + TickSeconds /\ (r = 0 => v.experienced = veh.experienced + TickSeconds)
  BY <1>1, <1>8, <1>11
<1> QED
  BY <1>8, <1>9, <1>10, <1>12 DEF Moved

-----------------------------------------------------------------------------
(* The load that vehicles make.                                             *)

\* The terms of the sum in WeightOn.
WeightTerms(vehicles, e) ==
    [k \in DOMAIN vehicles |->
        IF vehicles[k].edges[vehicles[k].edgeIndex] = e
        THEN RequestWeight(vehicles[k].request) ELSE 0]

\* A weight is a natural, and there is none where nobody stands.
LEMMA WeightOnFacts ==
  ASSUME reqs \in Demands, NEW vehs \in Seq(Vehicles), NEW e,
         \A k \in DOMAIN vehs : vehs[k].request \in Requests
  PROVE  /\ WeightOn(vehs, e) \in Nat
         /\ WeightOn(vehs, e) # 0 => e \in Range(Standing(vehs))
<1> DEFINE S == DOMAIN vehs
           f == WeightTerms(vehs, e)
<1>1. IsFiniteSet(S)
  <2>1. S = 1 .. Len(vehs) /\ Len(vehs) \in Nat
    BY LenProperties
  <2> QED
    BY <2>1, UptoFinite
<1>2. \A k \in S : f[k] \in Nat
  BY WeightType DEF WeightTerms
<1>3. WeightOn(vehs, e) = SumFunctionOnSet(f, S)
  <2>1. DOMAIN f = S
    BY DEF WeightTerms
  <2>2. WeightOn(vehs, e) = SumFunction(f)
    BY DEF WeightOn, WeightTerms
  <2> HIDE DEF f, S
  <2> QED
    BY <2>1, <2>2 DEF SumFunction
<1>4. ASSUME e \notin Range(Standing(vehs)) PROVE WeightOn(vehs, e) = 0
  <2>1. \A k \in S : f[k] = 0
    <3> SUFFICES ASSUME NEW k \in S PROVE f[k] = 0
      OBVIOUS
    <3>1. vehs[k].edges[vehs[k].edgeIndex] # e
      BY <1>4 DEF Standing, Range
    <3> QED
      BY <3>1 DEF WeightTerms
  <2>2. PICK z : z = [k \in S |-> 0]
    OBVIOUS
  <2>3. \A T \in SUBSET S : \A k \in T : f[k] \in Int /\ f[k] = 0
    BY <2>1
  <2> HIDE DEF f, S
  <2> DEFINE I == {T \in SUBSET S : SumFunctionOnSet(f, T) = 0}
  <2>4. {} \in I
    BY SumEmpty
  <2>5. ASSUME NEW T \in SUBSET S, NEW x \in S \ T, T \in I PROVE T \cup {x} \in I
    <3>1. IsFiniteSet(T)
      BY <1>1, FS_Subset
    <3>2. \A k \in T : f[k] \in Int
      BY <2>1
    <3>3. f[x] \in Int /\ f[x] = 0
      BY <2>1
    <3>4. SumFunctionOnSet(f, T \cup {x}) = f[x] + SumFunctionOnSet(f, T)
      BY <3>1, <3>2, <3>3, SumIn
    <3> QED
      BY <2>5, <3>3, <3>4
  <2> HIDE DEF I
  <2>6. S \in I
    BY <1>1, <2>4, <2>5, FiniteSetInduction
  <2> QED
    BY <1>3, <2>6 DEF I
<1> HIDE DEF f, S
<1>5. SumFunctionOnSet(f, S) \in Nat
  BY <1>1, <1>2, SumNat
<1> QED
  BY <1>3, <1>4, <1>5

-----------------------------------------------------------------------------
(* The router's answer.                                                     *)

LEMMA PathCostType ==
  ASSUME NEW path \in Seq(Edges), NEW shown \in [Edges -> Nat]
  PROVE  PathCost(path, shown) \in Nat
<1> DEFINE f == [k \in DOMAIN path |-> Cost(path[k], shown[path[k]])]
           S == DOMAIN path
<1>1. S = 1 .. Len(path) /\ Len(path) \in Nat
  BY LenProperties
<1>2. IsFiniteSet(S)
  BY <1>1, UptoFinite
<1>3. \A k \in S : f[k] \in Nat
  <2> SUFFICES ASSUME NEW k \in S PROVE f[k] \in Nat
    OBVIOUS
  <2>1. path[k] \in Edges
    BY <1>1, ElementOfSeq
  <2>2. shown[path[k]] \in Nat
    BY <2>1
  <2>3. Cost(path[k], shown[path[k]]) \in Nat
    BY <2>1, <2>2, CostFacts
  <2> QED
    BY <2>3
<1>4. DOMAIN f = S /\ PathCost(path, shown) = SumFunction(f)
  BY DEF PathCost
<1> HIDE DEF f, S
<1> QED
  BY <1>2, <1>3, <1>4, SumNat DEF SumFunction

\* A request that something serves is given one of its paths.
LEMMA RouteServes ==
  ASSUME reqs \in Demands, NEW i \in Requests, Served(i), NEW shown \in [Edges -> Nat]
  PROVE  Route(i, shown) \in Paths(reqs[i])
<1> DEFINE P == Paths(reqs[i])
           f == [p \in P |-> PathCost(p, shown)]
<1>1. P # {} /\ \A p \in P : p \in Seq(Edges)
  BY DemandFacts DEF Served
<1>2. \A p \in P : f[p] \in Nat
  BY <1>1, PathCostType
<1>3. \E p \in P : \A q \in P : f[p] <= f[q]
  <2> HIDE DEF f, P
  <2> QED
    BY <1>1, <1>2, LeastValue
<1>4. \E p \in P : \A q \in P : PathCost(p, shown) <= PathCost(q, shown)
  BY <1>3
<1> QED
  BY <1>4 DEF Route

-----------------------------------------------------------------------------
(* Ticks and the clock.                                                     *)

\* The tick whose clock is the first to reach a departure.
LEMMA ReleaseTickIs ==
  ASSUME reqs \in Demands, NEW i \in Requests, NEW t \in Nat, t > 0,
         reqs[i].departAt <= (t - 1) * TickSeconds,
         t = 1 \/ reqs[i].departAt > (t - 1) * TickSeconds - TickSeconds
  PROVE  ReleaseTick(i) = t
<1>1. PICK d \in Int : d = reqs[i].departAt
  BY DemandFacts
<1>2. PICK s \in Nat : s = TickSeconds /\ s > 0
  BY RoadAssumption DEF RoadAssumption
<1>3. PICK m \in Nat : m = t - 1
  OBVIOUS
<1>4. d <= m * s /\ (m = 0 \/ d > m * s - s)
  BY <1>1, <1>2, <1>3
<1>5. m * s \in Nat
  OBVIOUS
<1>6. CASE d <= 0
  <2>1. m = 0
    <3>1. CASE m # 0
      <4>1. 1 <= m /\ m \in Int /\ 1 \in Int
        BY <3>1
      <4>2. 1 * s <= m * s
        BY <4>1, ProductGrows
      <4> QED
        BY <1>4, <1>5, <1>6, <3>1, <4>2
    <3> QED
      BY <3>1
  <2>2. ReleaseTick(i) = 1
    BY <1>1, <1>6 DEF ReleaseTick
  <2> QED
    BY <1>3, <2>1, <2>2
<1>7. CASE d > 0
  <2>1. m # 0
    <3>1. 0 * s = 0
      OBVIOUS
    <3> QED
      BY <1>4, <1>7, <3>1
  <2>2. PICK x \in Int : x = d + s - 1
    OBVIOUS
  <2>3. PICK q \in Int : q = x \div s
    BY <1>2, DivFacts
  <2>4. PICK r \in 0 .. (s - 1) : x = s * q + r
    BY <1>2, <2>3, DivFacts
  <2>5. s * q = q * s /\ q * s \in Int
    OBVIOUS
  <2>6. q = m
    <3>1. CASE q < m
      <4>1. q + 1 <= m /\ q + 1 \in Int /\ m \in Int
        BY <3>1
      <4>2. (q + 1) * s <= m * s
        BY <4>1, ProductGrows
      <4>3. (q + 1) * s = q * s + s
        OBVIOUS
      <4> QED
        BY <1>2, <1>4, <1>5, <2>1, <2>2, <2>4, <2>5, <4>2, <4>3
    <3>2. CASE q > m
      <4>1. m + 1 <= q /\ m + 1 \in Int
        BY <3>2
      <4>2. (m + 1) * s <= q * s
        BY <4>1, ProductGrows
      <4>3. (m + 1) * s = m * s + s
        OBVIOUS
      <4> QED
        BY <1>2, <1>4, <1>5, <2>1, <2>2, <2>4, <2>5, <4>2, <4>3
    <3> QED
      BY <3>1, <3>2
  <2>7. ReleaseTick(i) = (d + s - 1) \div s + 1
    BY <1>1, <1>2, <1>7 DEF ReleaseTick
  <2> QED
    BY <1>3, <2>2, <2>3, <2>6, <2>7
<1> QED
  BY <1>6, <1>7

LEMMA ReleaseTickType ==
  ASSUME reqs \in Demands, NEW i \in Requests
  PROVE  ReleaseTick(i) \in Nat /\ ReleaseTick(i) >= 1
<1>1. PICK d \in Int : d = reqs[i].departAt
  BY DemandFacts
<1>2. PICK s \in Nat : s = TickSeconds /\ s > 0
  BY RoadAssumption DEF RoadAssumption
<1>3. CASE d <= 0
  BY <1>1, <1>3 DEF ReleaseTick
<1>4. CASE d > 0
  <2>1. PICK x \in Nat : x = d + s - 1
    BY <1>2, <1>4
  <2>2. x \div s \in Nat
    BY <1>2, <2>1, DivNat
  <2>3. ReleaseTick(i) = x \div s + 1
    BY <1>1, <1>2, <1>4, <2>1 DEF ReleaseTick
  <2> QED
    BY <2>2, <2>3
<1> QED
  BY <1>3, <1>4

LEMMA LatestFacts ==
  ASSUME reqs \in Demands
  PROVE  /\ latestDepart(reqs) \in Nat
         /\ \A i \in Requests : reqs[i].departAt <= latestDepart(reqs)
<1> DEFINE D == {reqs[i].departAt : i \in DOMAIN reqs}
           S == {0} \cup D
<1>1. IsFiniteSet(Requests) /\ DOMAIN reqs = Requests
  BY DemandFacts, UptoFinite DEF Requests
<1>2. IsFiniteSet(D)
  <2>1. D = {reqs[i].departAt : i \in Requests}
    BY <1>1
  <2>2. PICK f : f = [i \in Requests |-> reqs[i].departAt]
    OBVIOUS
  <2>3. f \in Surjection(Requests, D)
    BY <2>1, <2>2 DEF Surjection
  <2> HIDE DEF D
  <2> QED
    BY <1>1, <2>3, FS_Surjection DEF ExistsSurjection
<1>3. IsFiniteSet(S)
  <2> HIDE DEF D
  <2>1. S = D \cup {0}
    OBVIOUS
  <2> QED
    BY <1>2, <2>1, FS_AddElement
<1>4. S \subseteq Int /\ S # {} /\ 0 \in S /\ \A i \in Requests : reqs[i].departAt \in S
  BY <1>1, DemandFacts
<1> HIDE DEF S
<1>5. PICK m \in S : \A y \in S : y <= m
  BY <1>3, <1>4, FiniteMax
<1>6. \E m2 \in S : \A y \in S : m2 >= y
  BY <1>4, <1>5
<1>7. latestDepart(reqs) \in S /\ \A y \in S : latestDepart(reqs) >= y
  <2>1. latestDepart(reqs) = Max(S)
    BY DEF latestDepart, S
  <2> QED
    BY <1>6, <2>1 DEF Max
<1> QED
  BY <1>4, <1>7

\* The derived budget has a tick whose clock is past the last departure.
LEMMA BudgetReaches ==
  ASSUME reqs \in Demands
  PROVE  /\ derivedMaxTicks(reqs) \in Nat \ {0}
         /\ (derivedMaxTicks(reqs) - 1) * TickSeconds > latestDepart(reqs)
<1>1. PICK d \in Nat : d = latestDepart(reqs)
  BY LatestFacts
<1>2. PICK s \in Nat : s = TickSeconds /\ s > 0
  BY RoadAssumption DEF RoadAssumption
<1>3. PICK x \in Nat : x = TravelAllowance + s - 1 /\ x >= s
  BY <1>2, RoadAssumption DEF RoadAssumption
<1>4. PICK q \in Nat : q = d \div s
  BY <1>2, DivNat
<1>5. PICK y \in Nat : y = x \div s
  BY <1>2, <1>3, DivNat
<1>6. PICK r \in 0 .. (s - 1) : d = s * q + r
  BY <1>2, <1>4, DivFacts
<1>7. PICK u \in 0 .. (s - 1) : x = s * y + u
  BY <1>2, <1>5, DivFacts
<1>8. y >= 1
  <2>1. CASE y = 0
    <3>1. s * 0 = 0
      OBVIOUS
    <3> QED
      BY <1>2, <1>3, <1>7, <2>1, <3>1
  <2> QED
    BY <2>1
<1>9. derivedMaxTicks(reqs) = q + 1 + y
  BY <1>1, <1>2, <1>3, <1>4, <1>5 DEF derivedMaxTicks
<1>10. (q + y) * s > d
  <2>1. q + 1 <= q + y /\ q + 1 \in Int /\ q + y \in Int
    BY <1>8
  <2>2. (q + 1) * s <= (q + y) * s
    BY <2>1, ProductGrows
  <2>3. (q + 1) * s = s * q + s /\ s * q \in Nat /\ (q + y) * s \in Nat
    OBVIOUS
  <2> QED
    BY <1>2, <1>6, <2>2, <2>3
<1>11. derivedMaxTicks(reqs) - 1 = q + y
  BY <1>9
<1> QED
  BY <1>1, <1>2, <1>9, <1>10, <1>11

-----------------------------------------------------------------------------
(* The invariant.                                                           *)

Trips == [request : Nat, seconds : Nat]
Frames == [tick : Nat, inFlight : Nat, completed : Nat]

Shape ==
    /\ reqs \in Demands
    /\ maxTicks \in Nat \ {0}
    /\ pc \in {"release", "route", "advance", "settle", "returned"}
    /\ tick \in 1 .. maxTicks
    /\ nextPending \in 0 .. Len(reqs)
    /\ newlyReleased \in Seq(Requests)
    /\ inFlight \in Seq(Vehicles)
    /\ realized \in Seq(Trips)
    /\ load \in [Edges -> Nat]
    /\ frames \in Seq(Frames)
    /\ Len(frames) \in {tick - 1, tick}
    /\ result.kind \in {"none", "error", "result"}

\* What is true of a run only until it returns.
Running ==
    pc # "returned" =>
        /\ result = NoResult
        /\ Len(frames) = tick - 1
        /\ pc # "route" => newlyReleased = <<>>

OnPath(veh) ==
    /\ veh.request \in Requests
    /\ veh.edges \in Paths(reqs[veh.request])
    /\ Placed(veh)

\* Only an advance takes vehicles off the road, and it takes all that arrived.
OnTheRoad ==
    \A k \in DOMAIN inFlight :
        /\ OnPath(inFlight[k])
        /\ inFlight[k].experienced <= tick * TickSeconds
        /\ pc \in {"release", "route", "settle"} => ~Finished(inFlight[k])

\* The requests of vehicles, or of trips.
RequestsOf(q) == {q[k].request : k \in DOMAIN q}

ReleasedRequests(n) == {sortedRequestOrder[k] : k \in 1 .. n}

\* Every released request is somewhere, and there is room for it only once.
Balanced ==
    /\ Len(newlyReleased) + Len(inFlight) + Len(realized) = nextPending
    /\ Range(newlyReleased) \cup RequestsOf(inFlight) \cup RequestsOf(realized)
          = ReleasedRequests(nextPending)

\* No weight lies outside the edges that the next derivation will clear.
LoadIsLocal == \A e \in Edges : load[e] # 0 => e \in Range(occupied)

\* The next request to release is still in the future of a clock.
NoneDue(clock) ==
    nextPending < Len(reqs) =>
        reqs[sortedRequestOrder[nextPending + 1]].departAt > clock

\* A release takes all that are due, and only those: nothing waits a tick longer.
OnTime ==
    /\ pc = "route" => \A i \in Range(newlyReleased) : ReleaseTick(i) = tick
    /\ pc \in {"route", "advance", "settle"} => NoneDue(Clock)
    /\ pc = "release" /\ tick > 1 => NoneDue(Clock - TickSeconds)

IInv ==
    /\ Shape /\ Running /\ OnTheRoad /\ Balanced /\ LoadIsLocal /\ LoadIsOccupancy
    /\ OnTime /\ EverySecondCharged /\ OnlyBudgetCutsShort

\* What the demand determines stays when the demand does.
LEMMA ReqsStay ==
  ASSUME reqs' = reqs
  PROVE  /\ Requests' = Requests
         /\ sortedRequestOrder' = sortedRequestOrder
         /\ \A i : ReleaseTick(i)' = ReleaseTick(i)
         /\ \A i : RequestWeight(i)' = RequestWeight(i)
         /\ \A n : ReleasedRequests(n)' = ReleasedRequests(n)
         /\ derivedMaxTicks(reqs)' = derivedMaxTicks(reqs)
<1>1. Requests' = Requests
  BY DEF Requests
<1>2. sortedRequestOrder' = sortedRequestOrder
  BY <1>1 DEF sortedRequestOrder, Earlier
<1> QED
  BY <1>1, <1>2 DEF ReleaseTick, RequestWeight, ReleasedRequests

LEMMA InitIInv == Init => IInv
<1> SUFFICES ASSUME Init PROVE IInv
  OBVIOUS
<1>1. reqs \in Demands
  BY DEF Init
<1>2. Len(reqs) \in Nat
  BY <1>1, DemandFacts
<1>3. maxTicks \in Nat \ {0}
  <2>1. PICK budget \in TickBudgets : maxTicks = IF budget <= 0 THEN derivedMaxTicks(reqs) ELSE budget
    BY DEF Init
  <2>2. budget \in Int
    BY RoadAssumption DEF RoadAssumption
  <2>3. derivedMaxTicks(reqs) \in Nat \ {0}
    BY <1>1, BudgetReaches
  <2> QED
    BY <2>1, <2>2, <2>3
<1>4. Shape
  <2>1. newlyReleased = <<>> /\ inFlight = <<>> /\ realized = <<>> /\ frames = <<>>
    BY DEF Init
  <2>2. /\ newlyReleased \in Seq(Requests) /\ inFlight \in Seq(Vehicles)
        /\ realized \in Seq(Trips) /\ frames \in Seq(Frames) /\ Len(frames) = 0
    BY <2>1, EmptySeq
  <2>3. load \in [Edges -> Nat]
    BY DEF Init
  <2>4. result.kind = "none"
    BY DEF Init, NoResult
  <2>5. tick = 1 /\ nextPending = 0 /\ pc = "release"
    BY DEF Init
  <2> QED
    BY <1>1, <1>2, <1>3, <2>2, <2>3, <2>4, <2>5 DEF Shape
<1>5. Running
  <2>1. Len(frames) = 0 /\ tick = 1 /\ result = NoResult /\ newlyReleased = <<>>
    BY EmptySeq DEF Init
  <2> QED
    BY <2>1 DEF Running
<1>6. OnTheRoad /\ EverySecondCharged
  BY DEF Init, OnTheRoad, EverySecondCharged
<1>7. Balanced
  <2>1. Len(newlyReleased) = 0 /\ Len(inFlight) = 0 /\ Len(realized) = 0 /\ nextPending = 0
    BY DEF Init
  <2>2. Range(newlyReleased) = {} /\ RequestsOf(inFlight) = {} /\ RequestsOf(realized) = {}
    BY DEF Init, Range, RequestsOf
  <2>3. ReleasedRequests(nextPending) = {}
    BY <2>1 DEF ReleasedRequests
  <2> QED
    BY <2>1, <2>2, <2>3 DEF Balanced
<1>8. \A e \in Edges : load[e] = 0
  BY DEF Init
<1>9. LoadIsLocal
  BY <1>8 DEF LoadIsLocal
<1>10. LoadIsOccupancy
  <2> SUFFICES ASSUME NEW e \in Edges PROVE WeightOn(inFlight, e) = 0
    BY <1>8 DEF LoadIsOccupancy
  <2>1. inFlight \in Seq(Vehicles) /\ DOMAIN inFlight = {}
    BY EmptySeq DEF Init
  <2>2. e \notin Range(Standing(inFlight))
    BY <2>1 DEF Standing, Range
  <2>3. \A k \in DOMAIN inFlight : inFlight[k].request \in Requests
    BY <2>1
  <2> QED
    BY <1>1, <2>1, <2>2, <2>3, WeightOnFacts
<1>11. OnTime
  <2>1. pc = "release" /\ tick = 1
    BY DEF Init
  <2> QED
    BY <2>1 DEF OnTime
<1>12. OnlyBudgetCutsShort
  BY DEF Init, NoResult, OnlyBudgetCutsShort
<1> QED
  BY <1>4, <1>5, <1>6, <1>7, <1>9, <1>10, <1>11, <1>12 DEF IInv

-----------------------------------------------------------------------------
(* One lemma per action.                                                    *)

\* The actions that only end the run, or note that the caller has given up.
QuietStep ==
    /\ UNCHANGED <<reqs, maxTicks, tick, nextPending, newlyReleased, inFlight, realized,
                   load, occupied, frames>>
    /\ \/ pc' = "returned" /\ result'.kind = "error"
       \/ pc' = pc /\ result' = result

LEMMA QuietIInv == IInv /\ QuietStep => IInv'
<1> SUFFICES ASSUME IInv, QuietStep PROVE IInv'
  OBVIOUS
<1>0. reqs' = reqs
  BY DEF QuietStep
<1>1. /\ Requests' = Requests /\ sortedRequestOrder' = sortedRequestOrder
      /\ \A n : ReleasedRequests(n)' = ReleasedRequests(n)
  BY <1>0, ReqsStay
<1>2. Shape'
  <2>1. pc' \in {"release", "route", "advance", "settle", "returned"} /\ result'.kind \in {"none", "error", "result"}
    BY DEF IInv, Shape, QuietStep
  <2> QED
    BY <1>1, <2>1 DEF IInv, Shape, QuietStep
<1>3. Running'
  BY DEF IInv, Running, QuietStep
<1>4. OnTheRoad'
  <2>1. pc' = pc \/ pc' = "returned"
    BY DEF QuietStep
  <2> QED
    BY <1>1, <2>1 DEF IInv, OnTheRoad, QuietStep, OnPath, Placed, Finished
<1>5. Balanced'
  <2>1. ReleasedRequests(nextPending)' = ReleasedRequests(nextPending)
    BY DEF QuietStep, ReleasedRequests, sortedRequestOrder, Requests, Earlier
  <2> QED
    BY <2>1 DEF IInv, Balanced, QuietStep, RequestsOf
<1>6. LoadIsLocal'
  BY DEF IInv, LoadIsLocal, QuietStep
<1>7. LoadIsOccupancy'
  <2>1. \A e \in Edges : WeightOn(inFlight, e)' = WeightOn(inFlight, e)
    BY DEF QuietStep, WeightOn, RequestWeight
  <2>2. pc' = "release" => pc = "release"
    BY DEF QuietStep
  <2> QED
    BY <2>1, <2>2 DEF IInv, LoadIsOccupancy, QuietStep
<1>8. OnTime'
  <2>1. \A i : ReleaseTick(i)' = ReleaseTick(i)
    BY <1>0, ReqsStay
  <2>2. Clock' = Clock
    BY DEF QuietStep, Clock
  <2>3. CASE pc' = pc
    BY <1>1, <2>1, <2>2, <2>3 DEF IInv, OnTime, QuietStep, NoneDue
  <2>4. CASE pc' = "returned"
    BY <2>4 DEF OnTime
  <2> QED
    BY <2>3, <2>4 DEF QuietStep
<1>9. EverySecondCharged'
  <2>1. CASE pc' = "returned"
    BY <2>1 DEF EverySecondCharged
  <2>2. CASE pc' = pc
    <3>1. \A i : ReleaseTick(i)' = ReleaseTick(i)
      BY <1>0, ReqsStay
    <3> QED
      BY <2>2, <3>1 DEF IInv, EverySecondCharged, QuietStep
  <2> QED
    BY <2>1, <2>2 DEF QuietStep
<1>10. OnlyBudgetCutsShort'
  <2>1. derivedMaxTicks(reqs)' = derivedMaxTicks(reqs)
    BY <1>0, ReqsStay
  <2> QED
    BY <2>1 DEF IInv, OnlyBudgetCutsShort, QuietStep
<1> QED
  BY <1>2, <1>3, <1>4, <1>5, <1>6, <1>7, <1>8, <1>9, <1>10 DEF IInv

LEMMA StopsAreQuiet ==
  StopCancelled \/ RouteFails \/ Cancel \/ Returned \/ UNCHANGED vars => QuietStep
<1>1. \A why : Fail(why) => QuietStep
  BY DEF Fail, QuietStep, Error
<1>2. StopCancelled => QuietStep
  BY <1>1 DEF StopCancelled
<1>3. RouteFails => QuietStep
  BY <1>1 DEF RouteFails
<1>4. Cancel \/ Returned \/ UNCHANGED vars => QuietStep
  BY DEF Cancel, Returned, vars, QuietStep
<1> QED
  BY <1>2, <1>3, <1>4

\* All that is due is released.
\* The walk of Release over the sorted order: from the next pending request up to the
\* first that is not due.
LastDue(q, from, clock) ==
    Max({n \in from .. Len(DepartureOrder(q)) :
            \A k \in (from + 1) .. n : q[DepartureOrder(q)[k]].departAt <= clock})

LEMMA LastDueIs ==
  ASSUME NEW q \in Demands, NEW from \in 0 .. Len(q), NEW clock \in Int
  PROVE  /\ LastDue(q, from, clock) \in from .. Len(q)
         /\ \A k \in (from + 1) .. LastDue(q, from, clock) : q[DepartureOrder(q)[k]].departAt <= clock
         /\ LastDue(q, from, clock) < Len(q) =>
               q[DepartureOrder(q)[LastDue(q, from, clock) + 1]].departAt > clock
<1> DEFINE order == DepartureOrder(q)
           Due(n) == \A k \in (from + 1) .. n : q[order[k]].departAt <= clock
           S == {n \in from .. Len(order) : Due(n)}
<1>1. Len(q) \in Nat /\ InDepartureOrder(order, q)
  BY DemandsFacts, DepartureOrderSorts
<1>2. Len(order) = Len(q)
  BY <1>1 DEF InDepartureOrder
<1>3. LastDue(q, from, clock) = Max(S)
  BY DEF LastDue
<1>4. from \in S
  BY <1>1, <1>2
<1>5. S \subseteq from .. Len(q) /\ S \subseteq Int
  BY <1>1, <1>2
<1>6. IsFiniteSet(S)
  <2>1. from \in Int /\ Len(q) \in Int
    BY <1>1
  <2>2. IsFiniteSet(from .. Len(q))
    BY <2>1, FS_Interval
  <2> HIDE DEF S
  <2> QED
    BY <1>5, <2>2, FS_Subset
<1>7. PICK m \in S : \A n \in S : n <= m
  <2> HIDE DEF S
  <2> QED
    BY <1>4, <1>5, <1>6, FiniteMax
<1>8. Max(S) \in S /\ \A n \in S : n <= Max(S)
  <2> HIDE DEF S
  <2>1. \E x \in S : \A y \in S : x >= y
    BY <1>5, <1>7
  <2>2. Max(S) \in S /\ \A y \in S : Max(S) >= y
    BY <2>1 DEF Max
  <2> QED
    BY <1>5, <2>2
<1>9. PICK last : last = Max(S)
  OBVIOUS
<1>10. last \in from .. Len(q) /\ Due(last)
  BY <1>2, <1>8, <1>9
<1>11. ASSUME last < Len(q) PROVE q[order[last + 1]].departAt > clock
  <2>1. last + 1 \notin S
    <3> HIDE DEF S
    <3> QED
      BY <1>1, <1>8, <1>9, <1>10
  <2>2. last + 1 \in from .. Len(order)
    BY <1>1, <1>2, <1>10, <1>11
  <2>3. ~Due(last + 1)
    BY <2>1, <2>2
  <2>4. PICK k \in (from + 1) .. (last + 1) : ~(q[order[k]].departAt <= clock)
    BY <2>3
  <2>5. k = last + 1
    BY <1>1, <1>10, <2>4
  <2>6. last + 1 \in 1 .. Len(q)
    BY <1>1, <1>2, <2>2
  <2> HIDE DEF order
  <2>7. order[last + 1] \in 1 .. Len(q)
    BY <1>1, <2>6 DEF InDepartureOrder
  <2>8. q[order[last + 1]].departAt \in Int
    BY <2>7, DemandsFacts
  <2> QED
    BY <2>4, <2>5, <2>8
<1> QED
  BY <1>3, <1>9, <1>10, <1>11

\* What a release takes.
LEMMA ReleaseUnfolds ==
  ASSUME Release
  PROVE  /\ nextPending' = LastDue(reqs, nextPending, Clock)
         /\ newlyReleased' = SubSeq(DepartureOrder(reqs), nextPending + 1, nextPending')
BY SortedOrder DEF Release, LastDue

LEMMA ReleaseTakes ==
  ASSUME Shape, Release
  PROVE  /\ nextPending' \in nextPending .. Len(reqs)
         /\ newlyReleased' = SubSeq(sortedRequestOrder, nextPending + 1, nextPending')
         /\ \A k \in (nextPending + 1) .. nextPending' : reqs[sortedRequestOrder[k]].departAt <= Clock
         /\ nextPending' < Len(reqs) => reqs[sortedRequestOrder[nextPending' + 1]].departAt > Clock
<1>1. reqs \in Demands /\ nextPending \in 0 .. Len(reqs)
  BY DEF Shape
<1>2. PICK clock : clock \in Int /\ clock = Clock
  <2>1. TickSeconds \in Nat /\ tick \in Int
    BY RoadAssumption DEF RoadAssumption, Shape
  <2>2. (tick - 1) * TickSeconds \in Int
    BY <2>1
  <2> QED
    BY <2>2 DEF Clock
<1>3. PICK last : last = nextPending' /\ last = LastDue(reqs, nextPending, clock)
  BY <1>2, ReleaseUnfolds
<1>4. newlyReleased' = SubSeq(sortedRequestOrder, nextPending + 1, last)
  BY <1>3, ReleaseUnfolds, SortedOrder
<1>5. /\ last \in nextPending .. Len(reqs)
      /\ \A k \in (nextPending + 1) .. last : reqs[sortedRequestOrder[k]].departAt <= clock
      /\ last < Len(reqs) => reqs[sortedRequestOrder[last + 1]].departAt > clock
  BY <1>1, <1>2, <1>3, LastDueIs, SortedOrder
<1> QED
  BY <1>2, <1>3, <1>4, <1>5

LEMMA ReleaseIInv == IInv /\ Release => IInv'
<1> SUFFICES ASSUME IInv, Release PROVE IInv'
  OBVIOUS
<1> DEFINE order == sortedRequestOrder
           batch == newlyReleased'
<1>0. /\ Shape /\ Running /\ OnTheRoad /\ Balanced /\ LoadIsLocal /\ LoadIsOccupancy
      /\ OnTime /\ EverySecondCharged /\ OnlyBudgetCutsShort
  BY DEF IInv
<1>1. /\ pc = "release" /\ pc' = "route" /\ reqs' = reqs
      /\ UNCHANGED <<reqs, maxTicks, cancelled, tick, inFlight, realized, load, occupied, frames, result>>
  BY DEF Release
<1>2. /\ Requests' = Requests /\ sortedRequestOrder' = sortedRequestOrder
      /\ \A i : ReleaseTick(i)' = ReleaseTick(i)
  BY <1>1, ReqsStay
<1>3. /\ reqs \in Demands /\ Len(reqs) \in Nat /\ nextPending \in 0 .. Len(reqs)
      /\ tick \in Nat /\ tick > 0
  BY <1>0, DemandFacts DEF Shape
<1>4. order \in Seq(Requests) /\ Len(order) = Len(reqs)
  BY <1>3, OrderFacts
<1>to. PICK last : last = nextPending'
  OBVIOUS
<1>5. /\ last \in nextPending .. Len(reqs)
      /\ batch = SubSeq(order, nextPending + 1, last)
      /\ \A k \in (nextPending + 1) .. last : reqs[order[k]].departAt <= Clock
      /\ last < Len(reqs) => reqs[order[last + 1]].departAt > Clock
  BY <1>0, <1>to, ReleaseTakes
<1> HIDE DEF order
<1>from. PICK np \in Nat : np = nextPending /\ last \in Int /\ np <= last
  BY <1>3, <1>5
<1>6. /\ batch \in Seq(Requests) /\ Len(batch) = last - nextPending
      /\ \A k \in 1 .. (last - nextPending) : batch[k] = order[nextPending + k]
  <2>1. PICK m \in Int, n \in Int : m = nextPending + 1 /\ n = last
    BY <1>3, <1>5
  <2>2. \A k \in m .. n : order[k] \in Requests
    <3> SUFFICES ASSUME NEW k \in m .. n PROVE order[k] \in Requests
      OBVIOUS
    <3>1. k \in 1 .. Len(order)
      BY <1>3, <1>4, <1>5, <2>1
    <3> QED
      BY <1>4, <3>1, ElementOfSeq
  <2>3. /\ SubSeq(order, m, n) \in Seq(Requests)
        /\ Len(SubSeq(order, m, n)) = IF m <= n THEN n - m + 1 ELSE 0
        /\ \A i \in 1 .. n - m + 1 : SubSeq(order, m, n)[i] = order[m + i - 1]
    BY <2>2, SubSeqProperties
  <2>4. batch = SubSeq(order, m, n)
    BY <1>5, <2>1
  <2>5. n - m + 1 = last - np
    BY <1>from, <2>1
  <2>6. Len(batch) = last - nextPending
    <3>1. CASE m <= n
      BY <1>from, <2>3, <2>4, <2>5, <3>1
    <3>2. CASE ~(m <= n)
      <4>1. last - np = 0
        BY <1>from, <2>1, <3>2
      <4> QED
        BY <1>from, <2>3, <2>4, <3>2, <4>1
    <3> QED
      BY <3>1, <3>2
  <2>7. ASSUME NEW k \in 1 .. (last - nextPending) PROVE batch[k] = order[nextPending + k]
    <3>1. k \in 1 .. n - m + 1
      BY <1>from, <2>5, <2>7
    <3>2. m + k - 1 = nextPending + k
      BY <1>from, <2>1
    <3> QED
      BY <2>3, <2>4, <3>1, <3>2
  <2> QED
    BY <2>3, <2>4, <2>6, <2>7
<1>7. Range(batch) = {order[k] : k \in (nextPending + 1) .. last}
  <2>1. Range(batch) = {batch[k] : k \in 1 .. Len(batch)}
    BY <1>6, RangeEquality
  <2>2. ASSUME NEW k \in 1 .. Len(batch)
        PROVE  nextPending + k \in (nextPending + 1) .. last /\ batch[k] = order[nextPending + k]
    <3>1. k \in 1 .. (last - np)
      BY <1>from, <1>6, <2>2
    <3>2. np + k \in (np + 1) .. last
      BY <1>from, <3>1
    <3> QED
      BY <1>from, <1>6, <3>1, <3>2
  <2>3. ASSUME NEW k \in (nextPending + 1) .. last
        PROVE  k - nextPending \in 1 .. Len(batch) /\ batch[k - nextPending] = order[k]
    <3>1. k - np \in 1 .. (last - np) /\ np + (k - np) = k
      BY <1>from, <2>3
    <3> QED
      BY <1>from, <1>6, <3>1
  <2> QED
    BY <2>1, <2>2, <2>3
<1>8. Shape'
  <2>1. nextPending' \in 0 .. Len(reqs)
    BY <1>to, <1>3, <1>5
  <2>2. newlyReleased' \in Seq(Requests')
    BY <1>2, <1>6
  <2> QED
    BY <1>0, <1>1, <2>1, <2>2 DEF Shape
<1>9. Running'
  BY <1>0, <1>1 DEF Running
<1>10. OnTheRoad'
  BY <1>0, <1>1, <1>2 DEF OnTheRoad, OnPath, Placed, Finished
<1>11. Balanced'
  <2>1. newlyReleased = <<>>
    BY <1>0, <1>1 DEF Running
  <2>2. Len(newlyReleased) = 0 /\ Range(newlyReleased) = {}
    BY <2>1 DEF Range
  <2>3. Len(inFlight) \in Nat /\ Len(realized) \in Nat
    BY <1>0, LenProperties DEF Shape
  <2>4. Len(inFlight) + Len(realized) = nextPending
    BY <1>0, <2>2, <2>3 DEF Balanced
  <2>5. Len(newlyReleased') + Len(inFlight') + Len(realized') = nextPending'
    <3>1. PICK x \in Nat, y \in Nat : x = Len(inFlight) /\ y = Len(realized)
      BY <2>3
    <3>2. Len(newlyReleased') = last - np /\ x + y = np
      BY <1>from, <1>6, <2>4, <3>1
    <3>3. Len(newlyReleased') + x + y = last
      BY <1>from, <3>2
    <3> QED
      BY <1>to, <1>1, <3>1, <3>3
  <2>6. RequestsOf(inFlight) \cup RequestsOf(realized) = {order[k] : k \in 1 .. nextPending}
    BY <1>0, <2>2 DEF Balanced, ReleasedRequests, order
  <2>7. {order[k] : k \in 1 .. last} = {order[k] : k \in 1 .. nextPending} \cup {order[k] : k \in (nextPending + 1) .. last}
    <3>1. 1 .. last = (1 .. nextPending) \cup ((nextPending + 1) .. last)
      BY <1>3, <1>5
    <3> QED
      BY <3>1
  <2>8. ReleasedRequests(nextPending)' = {order[k] : k \in 1 .. last}
    BY <1>to, <1>2 DEF ReleasedRequests, order
  <2>9. RequestsOf(inFlight)' = RequestsOf(inFlight) /\ RequestsOf(realized)' = RequestsOf(realized)
    BY <1>1 DEF RequestsOf
  <2>10. Range(newlyReleased)' \cup RequestsOf(inFlight)' \cup RequestsOf(realized)' = ReleasedRequests(nextPending)'
    <3>1. Range(newlyReleased)' = {order[k] : k \in (nextPending + 1) .. last}
      BY <1>7
    <3> QED
      BY <3>1, <2>6, <2>7, <2>8, <2>9
  <2> QED
    BY <2>5, <2>10 DEF Balanced
<1>12. LoadIsLocal'
  BY <1>0, <1>1 DEF LoadIsLocal
<1>13. LoadIsOccupancy'
  BY <1>1 DEF LoadIsOccupancy
<1>14. ASSUME NEW i \in Range(batch) PROVE ReleaseTick(i) = tick
  <2>1. PICK k \in (nextPending + 1) .. last : i = order[k]
    BY <1>7
  <2>2. k \in 1 .. Len(reqs)
    BY <1>3, <1>5, <2>1
  <2>3. i \in Requests
    BY <1>4, <2>1, <2>2, ElementOfSeq
  <2>4. reqs[i].departAt <= (tick - 1) * TickSeconds
    BY <1>5, <2>1 DEF Clock
  <2>5. tick = 1 \/ reqs[i].departAt > (tick - 1) * TickSeconds - TickSeconds
    <3> SUFFICES ASSUME tick > 1 PROVE reqs[i].departAt > (tick - 1) * TickSeconds - TickSeconds
      BY <1>3
    <3>1. NoneDue(Clock - TickSeconds)
      BY <1>0, <1>1 DEF OnTime
    <3>2. nextPending + 1 \in 1 .. Len(reqs) /\ nextPending + 1 <= k /\ nextPending < Len(reqs)
      BY <1>3, <2>1, <2>2
    <3>3. reqs[order[nextPending + 1]].departAt > Clock - TickSeconds
      BY <3>1, <3>2 DEF NoneDue, order
    <3>4. reqs[order[nextPending + 1]].departAt <= reqs[order[k]].departAt
      <4>1. CASE nextPending + 1 = k
        <5>1. reqs[order[k]].departAt \in Int
          BY <1>3, <2>1, <2>3, DemandFacts
        <5> QED
          BY <4>1, <5>1
      <4>2. CASE nextPending + 1 # k
        <5>1. nextPending + 1 < k
          BY <1>3, <2>2, <3>2, <4>2
        <5> QED
          BY <1>3, <2>2, <3>2, <5>1, OrderFacts DEF order
      <4> QED
        BY <4>1, <4>2
    <3>5. order[nextPending + 1] \in Requests
      BY <1>4, <3>2, ElementOfSeq
    <3>6. reqs[order[nextPending + 1]].departAt \in Int /\ reqs[order[k]].departAt \in Int
      BY <1>3, <2>1, <2>3, <3>5, DemandFacts
    <3>7. (tick - 1) * TickSeconds \in Int /\ TickSeconds \in Int
      <4>1. TickSeconds \in Nat
        BY RoadAssumption DEF RoadAssumption
      <4> QED
        BY <1>3, <4>1
    <3> QED
      BY <2>1, <3>3, <3>4, <3>6, <3>7 DEF Clock
  <2> QED
    BY <1>3, <2>3, <2>4, <2>5, ReleaseTickIs
<1>15. OnTime'
  <2>1. Clock' = Clock
    BY <1>1 DEF Clock
  <2>2. NoneDue(Clock)'
    BY <1>to, <1>1, <1>2, <1>5, <2>1 DEF NoneDue, order
  <2>3. \A i \in Range(newlyReleased)' : ReleaseTick(i)' = tick'
    BY <1>1, <1>2, <1>14
  <2> QED
    BY <1>1, <2>2, <2>3 DEF OnTime
<1>16. EverySecondCharged'
  BY <1>0, <1>1, <1>2 DEF EverySecondCharged
<1>17. OnlyBudgetCutsShort'
  BY <1>0, <1>1 DEF OnlyBudgetCutsShort, Running, NoResult
<1> QED
  BY <1>8, <1>9, <1>10, <1>11, <1>12, <1>13, <1>15, <1>16, <1>17 DEF IInv

\* The members of a sequence, by position and by value.
LEMMA RequestsOfRange == ASSUME NEW q PROVE RequestsOf(q) = {v.request : v \in Range(q)}
  BY DEF RequestsOf, Range

LEMMA RouteBatchIInv == IInv /\ RouteBatch => IInv'
<1> SUFFICES ASSUME IInv, RouteBatch PROVE IInv'
  OBVIOUS
<1>0. /\ Shape /\ Running /\ OnTheRoad /\ Balanced /\ LoadIsLocal /\ LoadIsOccupancy
      /\ OnTime /\ EverySecondCharged /\ OnlyBudgetCutsShort
  BY DEF IInv
<1>1. /\ pc = "route" /\ pc' = "advance" /\ reqs' = reqs /\ newlyReleased' = <<>>
      /\ UNCHANGED <<maxTicks, cancelled, tick, nextPending, realized, load, occupied, frames,
                      result>>
  BY DEF RouteBatch
<1>2. /\ Requests' = Requests /\ sortedRequestOrder' = sortedRequestOrder
      /\ \A i : ReleaseTick(i)' = ReleaseTick(i)
      /\ \A n : ReleasedRequests(n)' = ReleasedRequests(n)
  BY <1>1, ReqsStay
<1>3. reqs \in Demands /\ Len(reqs) \in Nat /\ tick \in Nat /\ tick > 0
  BY <1>0, DemandFacts DEF Shape
<1> DEFINE Start(i) == Vehicle(i, Route(i, load))
           starting == [k \in DOMAIN newlyReleased |-> Start(newlyReleased[k])]
<1>4. /\ newlyReleased \in Seq(Requests) /\ inFlight \in Seq(Vehicles)
      /\ realized \in Seq(Trips)
      /\ Len(newlyReleased) \in Nat /\ Len(inFlight) \in Nat /\ Len(realized) \in Nat
      /\ DOMAIN newlyReleased = 1 .. Len(newlyReleased)
  BY <1>0, LenProperties DEF Shape
<1>5. inFlight' = inFlight \o starting
  BY DEF RouteBatch
<1>6. ASSUME NEW i \in Range(newlyReleased)
      PROVE  /\ Start(i) \in Vehicles /\ OnPath(Start(i))
             /\ Start(i).request = i /\ Start(i).experienced = 0
             /\ ReleaseTick(i) = tick
  <2>1. i \in Requests
    BY <1>4 DEF Range
  <2>2. Served(i)
    BY DEF RouteBatch
  <2>3. load \in [Edges -> Nat]
    BY <1>0 DEF Shape
  <2>4. PICK path : path = Route(i, load)
    OBVIOUS
  <2>5. path \in Paths(reqs[i])
    BY <1>3, <2>1, <2>2, <2>3, <2>4, RouteServes
  <2>6. path \in Seq(Edges) /\ Len(path) \in Nat /\ i \in Nat
    BY <1>3, <2>1, <2>5, DemandFacts, LenProperties DEF Requests
  <2>7. PICK veh : veh = Start(i)
    OBVIOUS
  <2>8. /\ veh = [request |-> i, edges |-> path, edgeIndex |-> 1, distOnEdge |-> 0,
                  experienced |-> 0]
    BY <2>4, <2>7 DEF Vehicle
  <2>9. veh \in Vehicles
    BY <2>6, <2>8 DEF Vehicles
  <2>10. /\ veh.request = i /\ veh.edges = path /\ veh.edgeIndex = 1 /\ veh.distOnEdge = 0
         /\ veh.experienced = 0
    BY <2>8
  <2>11. OnPath(veh)
    BY <2>1, <2>5, <2>6, <2>10 DEF OnPath, Placed
  <2>12. ReleaseTick(i) = tick
    BY <1>0, <1>1 DEF OnTime
  <2> QED
    BY <2>7, <2>9, <2>10, <2>11, <2>12
<1> HIDE DEF Start
<1>7. \A k \in DOMAIN newlyReleased : newlyReleased[k] \in Range(newlyReleased)
  BY DEF Range
<1>8. starting \in Seq(Vehicles) /\ Len(starting) = Len(newlyReleased)
  <2>1. \A k \in 1 .. Len(newlyReleased) : Start(newlyReleased[k]) \in Vehicles
    BY <1>4, <1>6, <1>7
  <2>2. [k \in 1 .. Len(newlyReleased) |-> Start(newlyReleased[k])] \in Seq(Vehicles)
    BY <1>4, <2>1, IsASeq
  <2> QED
    BY <1>4, <2>2
<1>9. Range(starting) = {Start(i) : i \in Range(newlyReleased)}
  BY DEF Range
<1> HIDE DEF starting
<1>10. /\ inFlight' \in Seq(Vehicles) /\ Len(inFlight') = Len(inFlight) + Len(newlyReleased)
       /\ Range(inFlight') = Range(inFlight) \cup {Start(i) : i \in Range(newlyReleased)}
  <2>1. PICK q : q = starting
    OBVIOUS
  <2>2. q \in Seq(Vehicles) /\ Len(q) = Len(newlyReleased) /\ inFlight' = inFlight \o q
    BY <1>5, <1>8, <2>1
  <2>3. inFlight \o q \in Seq(Vehicles) /\ Len(inFlight \o q) = Len(inFlight) + Len(q)
    BY <1>4, <2>2, ConcatProperties
  <2>4. Range(inFlight \o q) = Range(inFlight) \cup Range(q)
    BY <1>4, <2>2, RangeConcatenation
  <2> QED
    BY <1>9, <2>1, <2>2, <2>3, <2>4
<1>11. Shape'
  <2>1. newlyReleased' \in Seq(Requests')
    BY <1>1
  <2> QED
    BY <1>0, <1>1, <1>10, <2>1 DEF Shape
<1>12. Running'
  BY <1>0, <1>1 DEF Running
<1>13. OnTheRoad'
  <2>2. tick * TickSeconds >= 0
    <3>1. TickSeconds \in Nat
      BY RoadAssumption DEF RoadAssumption
    <3>2. PICK s \in Nat : s = TickSeconds
      BY <3>1
    <3>3. tick * s \in Nat
      BY <1>3
    <3> QED
      BY <3>2, <3>3
  <2>3. \A v \in Range(inFlight) : OnPath(v) /\ v.experienced <= tick * TickSeconds
    BY <1>0 DEF OnTheRoad, Range
  <2>4. \A i \in Range(newlyReleased) :
           OnPath(Start(i)) /\ Start(i).experienced <= tick * TickSeconds
    BY <1>6, <2>2
  <2>5. \A v \in Range(inFlight') : OnPath(v) /\ v.experienced <= tick * TickSeconds
    BY <1>10, <2>3, <2>4
  <2>6. \A k \in DOMAIN inFlight' : inFlight'[k] \in Range(inFlight')
    BY DEF Range
  <2>7. pc' \notin {"release", "route", "settle"}
    BY <1>1
  <2>8. \A k \in DOMAIN inFlight' :
           OnPath(inFlight'[k]) /\ inFlight'[k].experienced <= tick' * TickSeconds
    BY <1>1, <2>5, <2>6
  <2> QED
    BY <1>1, <1>2, <2>7, <2>8 DEF OnTheRoad, OnPath, Placed, Finished
<1>14. Balanced'
  <2>1. Len(newlyReleased') = 0 /\ Range(newlyReleased') = {}
    BY <1>1 DEF Range
  <2>2. Len(newlyReleased') + Len(inFlight') + Len(realized') = nextPending'
    <3>1. Len(newlyReleased) + Len(inFlight) + Len(realized) = nextPending
      BY <1>0 DEF Balanced
    <3>2. PICK x \in Nat, y \in Nat, z \in Nat :
             x = Len(newlyReleased) /\ y = Len(inFlight) /\ z = Len(realized)
      BY <1>4
    <3>3. Len(inFlight') = y + x /\ x + y + z = nextPending
      BY <1>10, <3>1, <3>2
    <3>4. 0 + (y + x) + z = nextPending
      BY <3>2, <3>3
    <3> QED
      BY <1>1, <2>1, <3>2, <3>3, <3>4
  <2>3. {v.request : v \in {Start(i) : i \in Range(newlyReleased)}} = Range(newlyReleased)
    BY <1>6
  <2>4. RequestsOf(inFlight') = RequestsOf(inFlight) \cup Range(newlyReleased)
    <3>1. RequestsOf(inFlight') = {v.request : v \in Range(inFlight')}
      BY RequestsOfRange
    <3>2. RequestsOf(inFlight) = {v.request : v \in Range(inFlight)}
      BY RequestsOfRange
    <3> QED
      BY <1>10, <2>3, <3>1, <3>2
  <2>5. Range(newlyReleased) \cup RequestsOf(inFlight) \cup RequestsOf(realized)
           = ReleasedRequests(nextPending)
    BY <1>0 DEF Balanced
  <2>6. /\ RequestsOf(inFlight)' = RequestsOf(inFlight')
        /\ RequestsOf(realized)' = RequestsOf(realized)
        /\ Range(newlyReleased)' = {}
    BY <1>1, <2>1 DEF RequestsOf
  <2>7. ReleasedRequests(nextPending)' = ReleasedRequests(nextPending)
    BY <1>1, <1>2 DEF ReleasedRequests
  <2>8. Range(newlyReleased)' \cup RequestsOf(inFlight)' \cup RequestsOf(realized)'
           = ReleasedRequests(nextPending)'
    BY <2>4, <2>5, <2>6, <2>7
  <2> QED
    BY <2>2, <2>8 DEF Balanced
<1>15. LoadIsLocal'
  BY <1>0, <1>1 DEF LoadIsLocal
<1>16. LoadIsOccupancy'
  BY <1>1 DEF LoadIsOccupancy
<1>17. OnTime'
  <2>1. NoneDue(Clock)
    BY <1>0, <1>1 DEF OnTime
  <2>2. Clock' = Clock
    BY <1>1 DEF Clock
  <2>3. NoneDue(Clock)'
    BY <1>1, <1>2, <2>1, <2>2 DEF NoneDue
  <2> QED
    BY <1>1, <2>3 DEF OnTime
<1>18. EverySecondCharged'
  <2> DEFINE Charged(v) == v.experienced = (tick - 1 - ReleaseTick(v.request) + 1) * TickSeconds
  <2>1. \A v \in Range(inFlight) : Charged(v)
    BY <1>0, <1>1 DEF EverySecondCharged, Range
  <2>2. ASSUME NEW i \in Range(newlyReleased) PROVE Charged(Start(i))
    <3>1. PICK t \in Nat, s \in Nat : t = tick /\ s = TickSeconds
      BY <1>3, RoadAssumption DEF RoadAssumption
    <3>2. (t - 1 - t + 1) * s = 0
      <4>1. t - 1 - t + 1 = 0 /\ 0 * s = 0
        OBVIOUS
      <4> QED
        BY <4>1
    <3>3. Start(i).experienced = 0 /\ ReleaseTick(Start(i).request) = t
      BY <1>6, <3>1
    <3> QED
      BY <3>1, <3>2, <3>3
  <2> HIDE DEF Charged
  <2>3. \A v \in Range(inFlight') : Charged(v)
    BY <1>10, <2>1, <2>2
  <2>4. \A k \in DOMAIN inFlight' : Charged(inFlight'[k])
    BY <2>3 DEF Range
  <2>5. pc' # "settle"
    BY <1>1
  <2> QED
    BY <1>1, <1>2, <2>4, <2>5 DEF EverySecondCharged, Charged
<1>19. OnlyBudgetCutsShort'
  BY <1>0, <1>1 DEF OnlyBudgetCutsShort, Running, NoResult
<1> QED
  BY <1>11, <1>12, <1>13, <1>14, <1>15, <1>16, <1>17, <1>18, <1>19 DEF IInv

LEMMA AdvanceIInv == IInv /\ Advance => IInv'
<1> SUFFICES ASSUME IInv, Advance PROVE IInv'
  OBVIOUS
<1>0. /\ Shape /\ Running /\ OnTheRoad /\ Balanced /\ LoadIsLocal /\ LoadIsOccupancy
      /\ OnTime /\ EverySecondCharged /\ OnlyBudgetCutsShort
  BY DEF IInv
<1>1. /\ pc = "advance" /\ pc' = "settle" /\ reqs' = reqs
      /\ UNCHANGED <<maxTicks, cancelled, tick, nextPending, newlyReleased, load, occupied,
                      frames, result>>
  BY DEF Advance
<1>2. /\ Requests' = Requests /\ sortedRequestOrder' = sortedRequestOrder
      /\ \A i : ReleaseTick(i)' = ReleaseTick(i)
      /\ \A n : ReleasedRequests(n)' = ReleasedRequests(n)
  BY <1>1, ReqsStay
<1>3. reqs \in Demands /\ tick \in Nat /\ tick > 0 /\ load \in [Edges -> Nat]
  BY <1>0 DEF Shape
<1>4. /\ inFlight \in Seq(Vehicles) /\ realized \in Seq(Trips)
      /\ Len(inFlight) \in Nat /\ Len(realized) \in Nat
      /\ DOMAIN inFlight = 1 .. Len(inFlight)
  BY <1>0, LenProperties DEF Shape
<1>5. PICK n \in Nat : n = Len(inFlight)
  BY <1>4
<1>6. PICK s \in Nat : s = TickSeconds
  BY RoadAssumption DEF RoadAssumption
<1> DEFINE moved == [k \in DOMAIN inFlight |-> advance(inFlight[k])]
           gone  == {k \in DOMAIN moved : Finished(moved[k])}
           trips == [k \in DOMAIN moved |-> [request |-> moved[k].request,
                                              seconds |-> moved[k].experienced]]
           kept  == Filtered(moved, DOMAIN moved \ gone)
           done  == Filtered(trips, gone)
<1>7. inFlight' = kept /\ realized' = realized \o done
  BY DEF Advance
<1>8. DOMAIN moved = 1 .. n /\ gone \subseteq 1 .. n /\ DOMAIN moved \ gone \subseteq 1 .. n
  BY <1>4, <1>5
<1>9. ASSUME NEW k \in 1 .. n
      PROVE  /\ inFlight[k] \in Vehicles /\ OnPath(inFlight[k])
             /\ Moved(moved[k], inFlight[k])
  <2>1. k \in DOMAIN inFlight /\ inFlight[k] \in Vehicles
    BY <1>4, <1>5
  <2>2. OnPath(inFlight[k])
    BY <1>0, <2>1 DEF OnTheRoad
  <2>3. Placed(inFlight[k])
    BY <2>2 DEF OnPath
  <2>4. PICK veh : veh = inFlight[k]
    OBVIOUS
  <2>5. Moved(advance(veh), veh)
    BY <1>3, <2>1, <2>3, <2>4, AdvanceMoves
  <2> QED
    BY <2>1, <2>2, <2>4, <2>5
<1>10. \A k \in gone : Finished(moved[k])
  OBVIOUS
<1>11. \A k \in DOMAIN moved \ gone : ~Finished(moved[k])
  OBVIOUS
<1>12. moved = [k \in 1 .. n |-> moved[k]]
  BY <1>4, <1>5
<1>13. trips = [k \in 1 .. n |-> [request |-> moved[k].request, seconds |-> moved[k].experienced]]
  BY <1>4, <1>5
<1> HIDE DEF moved, gone, trips, kept, done
<1>14. moved \in Seq(Vehicles) /\ Len(moved) = n
  <2>1. \A k \in 1 .. n : moved[k] \in Vehicles
    BY <1>9 DEF Moved
  <2>2. [k \in 1 .. n |-> moved[k]] \in Seq(Vehicles)
    BY <2>1, IsASeq
  <2> QED
    BY <1>12, <2>2
<1>15. trips \in Seq(Trips) /\ Len(trips) = n
       /\ \A k \in 1 .. n : trips[k].request = inFlight[k].request
  <2>1. \A k \in 1 .. n :
           [request |-> moved[k].request, seconds |-> moved[k].experienced] \in Trips
    <3> SUFFICES ASSUME NEW k \in 1 .. n
                 PROVE  [request |-> moved[k].request, seconds |-> moved[k].experienced] \in Trips
      OBVIOUS
    <3>1. moved[k] \in Vehicles
      BY <1>9 DEF Moved
    <3> QED
      BY <3>1 DEF Vehicles, Trips
  <2>2. [k \in 1 .. n |-> [request |-> moved[k].request, seconds |-> moved[k].experienced]]
           \in Seq(Trips)
    BY <2>1, IsASeq
  <2>3. \A k \in 1 .. n : moved[k].request = inFlight[k].request
    BY <1>9 DEF Moved, SameTrip
  <2> QED
    BY <1>13, <2>2, <2>3
<1>16. PICK stay : stay = DOMAIN moved \ gone
  OBVIOUS
<1>17. kept \in Seq(Vehicles) /\ FilteredOf(kept, moved, stay)
  <2>1. stay \in SUBSET (1 .. Len(moved))
    BY <1>8, <1>14, <1>16
  <2>2. Filtered(moved, stay) \in Seq(Vehicles) /\ FilteredOf(Filtered(moved, stay), moved, stay)
    BY <1>14, <2>1, FilteredKeeps
  <2> QED
    BY <1>16, <2>2 DEF kept
<1>18. done \in Seq(Trips) /\ FilteredOf(done, trips, gone)
  <2>1. gone \in SUBSET (1 .. Len(trips))
    BY <1>8, <1>15
  <2>2. Filtered(trips, gone) \in Seq(Trips) /\ FilteredOf(Filtered(trips, gone), trips, gone)
    BY <1>15, <2>1, FilteredKeeps
  <2> QED
    BY <2>2 DEF done
<1>19. Len(kept) \in Nat /\ Len(done) \in Nat /\ Len(kept) + Len(done) = n
  <2>1. IsFiniteSet(1 .. n) /\ Cardinality(1 .. n) = n
    <3>1. n \in Int /\ 1 \in Int
      OBVIOUS
    <3>2. IsFiniteSet(1 .. n) /\ Cardinality(1 .. n) = IF 1 > n THEN 0 ELSE n - 1 + 1
      BY <3>1, FS_Interval
    <3> QED
      BY <3>2
  <2>2. stay = (1 .. n) \ gone /\ (1 .. n) \cap gone = gone
    BY <1>8, <1>16
  <2>3. Cardinality(stay) = n - Cardinality(gone)
    <3>1. Cardinality((1 .. n) \ gone) = Cardinality(1 .. n) - Cardinality((1 .. n) \cap gone)
      BY <2>1, FS_Difference
    <3> QED
      BY <2>1, <2>2, <3>1
  <2>4. Cardinality(gone) \in Nat
    BY <1>8, <2>1, FS_Subset, FS_CardinalityType
  <2>5. Len(kept) = Cardinality(stay) /\ Len(done) = Cardinality(gone)
    BY <1>17, <1>18 DEF FilteredOf
  <2>6. Len(kept) \in Nat
    BY <1>17, LenProperties
  <2> QED
    BY <2>3, <2>4, <2>5, <2>6
<1>20. Range(kept) = {moved[k] : k \in stay} /\ Range(done) = {trips[k] : k \in gone}
  BY <1>17, <1>18 DEF FilteredOf
<1>21. /\ realized' \in Seq(Trips) /\ Len(realized') = Len(realized) + Len(done)
       /\ Range(realized') = Range(realized) \cup Range(done)
  BY <1>4, <1>7, <1>18, ConcatProperties, RangeConcatenation
<1>22. stay \cup gone = 1 .. n
  BY <1>8, <1>16
\* A vehicle that stays has driven the whole tick.
<1>23. ASSUME NEW v \in Range(kept)
       PROVE  /\ OnPath(v) /\ ~Finished(v)
              /\ v.experienced = (tick - ReleaseTick(v.request) + 1) * s
              /\ v.experienced <= tick * s
  <2>1. PICK k \in stay : v = moved[k]
    BY <1>20
  <2>2. k \in 1 .. n /\ ~Finished(v)
    BY <1>11, <1>16, <1>22, <2>1
  <2>3. PICK was : was = inFlight[k]
    OBVIOUS
  <2>4. was \in Vehicles /\ OnPath(was) /\ Moved(v, was)
    BY <1>9, <2>1, <2>2, <2>3
  <2>5. v \in Vehicles /\ Placed(v) /\ v.request = was.request /\ v.edges = was.edges
    BY <2>4 DEF Moved, SameTrip
  <2>6. OnPath(v)
    BY <2>4, <2>5 DEF OnPath
  <2>7. PICK x \in Nat, y \in Nat : x = was.experienced /\ y = v.experienced
    BY <2>4, <2>5 DEF Vehicles
  <2>8. y = x + s
    BY <1>6, <2>2, <2>4, <2>7 DEF Moved
  <2>9. v.request \in Requests
    BY <2>6 DEF OnPath
  <2>10. PICK r \in Nat : r = ReleaseTick(v.request) /\ r >= 1
    BY <1>3, <2>9, ReleaseTickType
  <2>11. k \in DOMAIN inFlight
    BY <1>4, <1>5, <2>2
  <2>12. x = (tick - 1 - r + 1) * s
    BY <1>0, <1>1, <1>6, <2>3, <2>5, <2>7, <2>10, <2>11 DEF EverySecondCharged
  <2>13. PICK t \in Nat : t = tick
    BY <1>3
  <2>14. y = (t - r + 1) * s
    <3>1. t - 1 - r + 1 = t - r
      OBVIOUS
    <3>2. (t - r + 1) * s = (t - r) * s + s
      OBVIOUS
    <3> QED
      BY <2>8, <2>12, <2>13, <3>1, <3>2
  <2>15. (t - r + 1) * s <= t * s
    <3>1. t - r + 1 \in Int /\ t \in Int /\ t - r + 1 <= t
      BY <2>10
    <3> QED
      BY <3>1, ProductGrows
  <2> QED
    BY <2>2, <2>6, <2>7, <2>10, <2>13, <2>14, <2>15
<1>24. \A k \in DOMAIN inFlight' : inFlight'[k] \in Range(kept)
  BY <1>7 DEF Range
<1>25. Shape'
  <2>1. inFlight' \in Seq(Vehicles)
    BY <1>7, <1>17
  <2> QED
    BY <1>0, <1>1, <1>2, <1>21, <2>1 DEF Shape
<1>26. Running'
  BY <1>0, <1>1 DEF Running
<1>27. OnTheRoad'
  <2>1. \A k \in DOMAIN inFlight' :
           /\ OnPath(inFlight'[k]) /\ ~Finished(inFlight'[k])
           /\ inFlight'[k].experienced <= tick' * TickSeconds
    BY <1>1, <1>6, <1>23, <1>24
  <2> QED
    BY <1>1, <1>2, <2>1 DEF OnTheRoad, OnPath, Placed, Finished
<1>28. Balanced'
  <2>1. newlyReleased = <<>>
    BY <1>0, <1>1 DEF Running
  <2>2. Len(newlyReleased) = 0 /\ Range(newlyReleased) = {}
    BY <2>1 DEF Range
  <2>3. Len(newlyReleased') + Len(inFlight') + Len(realized') = nextPending'
    <3>1. 0 + n + Len(realized) = nextPending
      BY <1>0, <1>5, <2>2 DEF Balanced
    <3>2. PICK x \in Nat, y \in Nat, z \in Nat :
             x = Len(kept) /\ y = Len(done) /\ z = Len(realized)
      BY <1>4, <1>19
    <3>3. x + y = n /\ 0 + n + z = nextPending
      BY <1>19, <3>1, <3>2
    <3>4. 0 + x + (z + y) = nextPending
      BY <3>2, <3>3
    <3>5. Len(realized') = z + y /\ Len(inFlight') = x /\ Len(newlyReleased') = 0
      BY <1>1, <1>7, <1>21, <2>2, <3>2
    <3> QED
      BY <1>1, <3>4, <3>5
  <2>4. RequestsOf(inFlight) = {inFlight[k].request : k \in 1 .. n}
    BY <1>4, <1>5 DEF RequestsOf
  <2>5. RequestsOf(kept) = {inFlight[k].request : k \in stay}
    <3>1. RequestsOf(kept) = {v.request : v \in Range(kept)}
      BY RequestsOfRange
    <3>2. \A k \in stay : moved[k].request = inFlight[k].request
      BY <1>9, <1>22 DEF Moved, SameTrip
    <3> QED
      BY <1>20, <3>1, <3>2
  <2>6. {v.request : v \in Range(done)} = {inFlight[k].request : k \in gone}
    BY <1>15, <1>20, <1>22
  <2>7. RequestsOf(realized') = RequestsOf(realized) \cup {inFlight[k].request : k \in gone}
    <3>1. RequestsOf(realized') = {v.request : v \in Range(realized')}
      BY RequestsOfRange
    <3>2. RequestsOf(realized) = {v.request : v \in Range(realized)}
      BY RequestsOfRange
    <3> QED
      BY <1>21, <2>6, <3>1, <3>2
  <2>8. RequestsOf(inFlight) = RequestsOf(kept) \cup {inFlight[k].request : k \in gone}
    BY <1>22, <2>4, <2>5
  <2>9. RequestsOf(inFlight) \cup RequestsOf(realized) = ReleasedRequests(nextPending)
    BY <1>0, <2>2 DEF Balanced
  <2>10. RequestsOf(kept) \cup RequestsOf(realized') = ReleasedRequests(nextPending)
    BY <2>7, <2>8, <2>9
  <2>11. RequestsOf(inFlight)' = RequestsOf(kept) /\ RequestsOf(realized)' = RequestsOf(realized')
         /\ Range(newlyReleased)' = {}
    BY <1>1, <1>7, <2>2 DEF RequestsOf
  <2>12. ReleasedRequests(nextPending)' = ReleasedRequests(nextPending)
    BY <1>1, <1>2 DEF ReleasedRequests
  <2>13. Range(newlyReleased)' \cup RequestsOf(inFlight)' \cup RequestsOf(realized)'
            = ReleasedRequests(nextPending)'
    BY <2>10, <2>11, <2>12
  <2> QED
    BY <2>3, <2>13 DEF Balanced
<1>29. LoadIsLocal'
  BY <1>0, <1>1 DEF LoadIsLocal
<1>30. LoadIsOccupancy'
  BY <1>1 DEF LoadIsOccupancy
<1>31. OnTime'
  <2>1. NoneDue(Clock)
    BY <1>0, <1>1 DEF OnTime
  <2>2. Clock' = Clock
    BY <1>1 DEF Clock
  <2>3. NoneDue(Clock)'
    BY <1>1, <1>2, <2>1, <2>2 DEF NoneDue
  <2> QED
    BY <1>1, <2>3 DEF OnTime
<1>32. EverySecondCharged'
  <2>1. \A k \in DOMAIN inFlight' :
           inFlight'[k].experienced = (tick - ReleaseTick(inFlight'[k].request) + 1) * s
    BY <1>23, <1>24
  <2> QED
    BY <1>1, <1>2, <1>6, <2>1 DEF EverySecondCharged
<1>33. OnlyBudgetCutsShort'
  BY <1>0, <1>1 DEF OnlyBudgetCutsShort, Running, NoResult
<1> QED
  BY <1>25, <1>26, <1>27, <1>28, <1>29, <1>30, <1>31, <1>32, <1>33 DEF IInv

\* The load that is derived is the weight on the road, nothing else.
LEMMA SettleLoads ==
  ASSUME Shape, OnTheRoad, LoadIsLocal, Settle
  PROVE  /\ load' \in [Edges -> Nat]
         /\ \A e \in Edges : load'[e] = WeightOn(inFlight, e)
         /\ \A e \in Edges : load'[e] # 0 => e \in Range(occupied')
<1>1. reqs \in Demands /\ inFlight \in Seq(Vehicles)
  BY DEF Shape
<1>2. \A k \in DOMAIN inFlight : inFlight[k].request \in Requests
  BY DEF OnTheRoad, OnPath
<1>3. \A e \in Edges : /\ WeightOn(inFlight, e) \in Nat
                       /\ WeightOn(inFlight, e) # 0 => e \in Range(Standing(inFlight))
  BY <1>1, <1>2, WeightOnFacts
<1>4. load' = loadFromVehicles(inFlight) /\ occupied' = Standing(inFlight)
  BY DEF Settle
<1>5. \A e \in Edges : (IF e \in Range(occupied) THEN 0 ELSE load[e]) = 0
  BY DEF LoadIsLocal
<1>6. \A e \in Edges : loadFromVehicles(inFlight)[e] = WeightOn(inFlight, e)
  <2> SUFFICES ASSUME NEW e \in Edges
               PROVE  loadFromVehicles(inFlight)[e] = WeightOn(inFlight, e)
    OBVIOUS
  <2>1. PICK w \in Nat : w = WeightOn(inFlight, e)
    BY <1>3
  <2>2. PICK b : b = IF e \in Range(occupied) THEN 0 ELSE load[e]
    OBVIOUS
  <2>3. b = 0
    BY <1>5, <2>2
  <2>4. loadFromVehicles(inFlight)[e] = b + w
    BY <2>1, <2>2 DEF loadFromVehicles
  <2> QED
    BY <2>1, <2>3, <2>4
<1>7. load' = [e \in Edges |-> load'[e]]
  BY <1>4 DEF loadFromVehicles
<1>8. \A e \in Edges : load'[e] = WeightOn(inFlight, e)
  BY <1>4, <1>6
<1>9. \A e \in Edges : load'[e] \in Nat
  BY <1>3, <1>8
<1> QED
  BY <1>3, <1>4, <1>7, <1>8, <1>9

\* What a settled tick decides.
SettleEnds ==
    /\ inFlight = <<>> /\ nextPending >= Len(reqs)
    /\ result' = SimResult(tick) /\ pc' = "returned" /\ tick' = tick
SettleStops ==
    tick = maxTicks /\ result' = SimResult(maxTicks) /\ pc' = "returned" /\ tick' = tick
SettleGoesOn ==
    tick < maxTicks /\ tick' = tick + 1 /\ pc' = "release" /\ result' = result

LEMMA SettleCases == Settle => SettleEnds \/ SettleStops \/ SettleGoesOn
  BY DEF Settle, SettleEnds, SettleStops, SettleGoesOn

\* Nothing is left to release in the last tick of a derived budget.
LEMMA DerivedBudgetReleasesAll ==
  ASSUME Shape, NoneDue(Clock), tick = derivedMaxTicks(reqs)
  PROVE  nextPending = Len(reqs)
<1>1. /\ reqs \in Demands /\ Len(reqs) \in Nat /\ nextPending \in 0 .. Len(reqs)
  BY DemandFacts DEF Shape
<1>2. sortedRequestOrder \in Seq(Requests) /\ Len(sortedRequestOrder) = Len(reqs)
  BY <1>1, OrderFacts
<1>3. Clock > latestDepart(reqs)
  BY <1>1, BudgetReaches DEF Clock
<1>4. CASE nextPending < Len(reqs)
  <2>1. PICK i : i = sortedRequestOrder[nextPending + 1]
    OBVIOUS
  <2>2. nextPending + 1 \in 1 .. Len(sortedRequestOrder)
    BY <1>1, <1>2, <1>4
  <2>3. i \in Requests
    BY <1>2, <2>1, <2>2, ElementOfSeq
  <2>4. reqs[i].departAt > Clock
    BY <1>4, <2>1 DEF NoneDue
  <2>5. reqs[i].departAt \in Int /\ reqs[i].departAt <= latestDepart(reqs)
    BY <1>1, <2>3, DemandFacts, LatestFacts
  <2>6. PICK l \in Nat : l = latestDepart(reqs)
    BY <1>1, LatestFacts
  <2>7. PICK t \in Nat, n \in Nat : t = tick /\ n = TickSeconds
    BY RoadAssumption DEF RoadAssumption, Shape
  <2>8. PICK c \in Int : c = Clock
    <3>1. (t - 1) * n \in Int
      OBVIOUS
    <3> QED
      BY <2>7, <3>1 DEF Clock
  <2> QED
    BY <1>3, <2>4, <2>5, <2>6, <2>8
<1> QED
  BY <1>1, <1>4

LEMMA SettleIInv == IInv /\ Settle => IInv'
<1> SUFFICES ASSUME IInv, Settle PROVE IInv'
  OBVIOUS
<1>0. /\ Shape /\ Running /\ OnTheRoad /\ Balanced /\ LoadIsLocal /\ LoadIsOccupancy
      /\ OnTime /\ EverySecondCharged /\ OnlyBudgetCutsShort
  BY DEF IInv
<1>1. /\ pc = "settle" /\ reqs' = reqs
      /\ UNCHANGED <<maxTicks, cancelled, nextPending, newlyReleased, inFlight, realized>>
      /\ frames' = Append(frames, buildTickState)
  BY DEF Settle
<1>2. /\ Requests' = Requests /\ sortedRequestOrder' = sortedRequestOrder
      /\ \A i : ReleaseTick(i)' = ReleaseTick(i)
      /\ \A n : ReleasedRequests(n)' = ReleasedRequests(n)
      /\ \A i : RequestWeight(i)' = RequestWeight(i)
      /\ derivedMaxTicks(reqs)' = derivedMaxTicks(reqs)
  BY <1>1, ReqsStay
<1>3. /\ reqs \in Demands /\ Len(reqs) \in Nat /\ nextPending \in 0 .. Len(reqs)
      /\ tick \in Nat /\ tick > 0 /\ maxTicks \in Nat /\ tick <= maxTicks
  BY <1>0, DemandFacts DEF Shape
<1>4. /\ load' \in [Edges -> Nat]
      /\ \A e \in Edges : load'[e] = WeightOn(inFlight, e)
      /\ \A e \in Edges : load'[e] # 0 => e \in Range(occupied')
  BY <1>0, SettleLoads
<1>5. SettleEnds \/ SettleStops \/ SettleGoesOn
  BY SettleCases
<1>6. result = NoResult /\ Len(frames) = tick - 1 /\ newlyReleased = <<>>
  BY <1>0, <1>1 DEF Running
<1>7. frames' \in Seq(Frames) /\ Len(frames') = tick
  <2>1. frames \in Seq(Frames) /\ inFlight \in Seq(Vehicles) /\ realized \in Seq(Trips)
    BY <1>0 DEF Shape
  <2>2. Len(inFlight) \in Nat /\ Len(realized) \in Nat
    BY <2>1, LenProperties
  <2>3. buildTickState \in Frames
    BY <1>3, <2>2 DEF buildTickState, Frames
  <2>4. frames' \in Seq(Frames) /\ Len(frames') = Len(frames) + 1
    BY <1>1, <2>1, <2>3, AppendProperties
  <2>5. PICK t \in Nat : t = tick
    BY <1>3
  <2>6. (t - 1) + 1 = t
    OBVIOUS
  <2> QED
    BY <1>6, <2>4, <2>5, <2>6
<1>8. tick' \in {tick, tick + 1} /\ tick' \in 1 .. maxTicks
  BY <1>3, <1>5 DEF SettleEnds, SettleStops, SettleGoesOn
<1>9. pc' \in {"release", "returned"}
  BY <1>5 DEF SettleEnds, SettleStops, SettleGoesOn
<1>10. pc' = "release" => tick' = tick + 1 /\ result' = NoResult
  BY <1>5, <1>6 DEF SettleEnds, SettleStops, SettleGoesOn
<1>11. Shape'
  <2>1. result'.kind \in {"none", "error", "result"}
    BY <1>5, <1>6 DEF SettleEnds, SettleStops, SettleGoesOn, SimResult, NoResult
  <2>2. Len(frames') \in {tick' - 1, tick'}
    <3>1. PICK t \in Nat : t = tick
      BY <1>3
    <3>2. (t + 1) - 1 = t
      OBVIOUS
    <3> QED
      BY <1>7, <1>8, <3>1, <3>2
  <2> QED
    BY <1>0, <1>1, <1>2, <1>4, <1>7, <1>8, <1>9, <2>1, <2>2 DEF Shape
<1>12. Running'
  <2> SUFFICES ASSUME pc' = "release"
               PROVE  result' = NoResult /\ Len(frames') = tick' - 1 /\ newlyReleased' = <<>>
    BY <1>9 DEF Running
  <2>1. PICK t \in Nat : t = tick
    BY <1>3
  <2>2. (t + 1) - 1 = t
    OBVIOUS
  <2> QED
    BY <1>1, <1>6, <1>7, <1>10, <2>1, <2>2
<1>13. OnTheRoad'
  <2>1. tick * TickSeconds <= tick' * TickSeconds
    <3>1. TickSeconds \in Nat /\ tick \in Int /\ tick' \in Int /\ tick <= tick'
      BY <1>3, <1>8, RoadAssumption DEF RoadAssumption
    <3> QED
      BY <3>1, ProductGrows
  <2>2. tick * TickSeconds \in Int /\ tick' * TickSeconds \in Int
    <3>1. PICK s \in Nat, t \in Int, u \in Int : s = TickSeconds /\ t = tick /\ u = tick'
      BY <1>3, <1>8, RoadAssumption DEF RoadAssumption
    <3>2. t * s \in Int /\ u * s \in Int
      OBVIOUS
    <3> QED
      BY <3>1, <3>2
  <2>3. \A k \in DOMAIN inFlight :
           /\ OnPath(inFlight[k]) /\ ~Finished(inFlight[k])
           /\ inFlight[k].experienced <= tick' * TickSeconds
    <3> SUFFICES ASSUME NEW k \in DOMAIN inFlight
                 PROVE  /\ OnPath(inFlight[k]) /\ ~Finished(inFlight[k])
                        /\ inFlight[k].experienced <= tick' * TickSeconds
      OBVIOUS
    <3>1. /\ OnPath(inFlight[k]) /\ ~Finished(inFlight[k])
          /\ inFlight[k].experienced <= tick * TickSeconds
      BY <1>0, <1>1 DEF OnTheRoad
    <3>2. inFlight \in Seq(Vehicles)
      BY <1>0 DEF Shape
    <3>3. inFlight[k] \in Vehicles
      BY <3>2
    <3>4. inFlight[k].experienced \in Nat
      BY <3>3 DEF Vehicles
    <3>5. PICK x \in Nat, a \in Int, b \in Int :
             x = inFlight[k].experienced /\ a = tick * TickSeconds /\ b = tick' * TickSeconds
      BY <2>2, <3>4
    <3>6. x <= a /\ a <= b
      BY <2>1, <3>1, <3>5
    <3> QED
      BY <3>1, <3>5, <3>6
  <2> QED
    BY <1>1, <1>2, <2>3 DEF OnTheRoad, OnPath, Placed, Finished
<1>14. Balanced'
  <2>1. ReleasedRequests(nextPending)' = ReleasedRequests(nextPending)
    BY <1>1, <1>2 DEF ReleasedRequests
  <2> QED
    BY <1>0, <1>1, <2>1 DEF Balanced, RequestsOf
<1>15. LoadIsLocal'
  BY <1>4 DEF LoadIsLocal
<1>16. LoadIsOccupancy'
  <2>1. \A e \in Edges : WeightOn(inFlight, e)' = WeightOn(inFlight, e)
    BY <1>1, <1>2 DEF WeightOn
  <2> QED
    BY <1>4, <2>1 DEF LoadIsOccupancy
<1>17. OnTime'
  <2> SUFFICES ASSUME pc' = "release" PROVE NoneDue(Clock - TickSeconds)'
    BY <1>9 DEF OnTime
  <2>1. NoneDue(Clock)
    BY <1>0, <1>1 DEF OnTime
  <2>2. (Clock - TickSeconds)' = Clock
    <3>1. PICK t \in Nat, s \in Nat : t = tick /\ s = TickSeconds
      BY <1>3, RoadAssumption DEF RoadAssumption
    <3>2. ((t + 1) - 1) * s - s = (t - 1) * s
      OBVIOUS
    <3> QED
      BY <1>10, <3>1, <3>2 DEF Clock
  <2> QED
    BY <1>1, <1>2, <2>1, <2>2 DEF NoneDue
<1>18. EverySecondCharged'
  <2> SUFFICES ASSUME pc' = "release" PROVE EverySecondCharged'
    BY <1>9 DEF EverySecondCharged
  <2>1. \A k \in DOMAIN inFlight :
           inFlight[k].experienced = (tick - ReleaseTick(inFlight[k].request) + 1) * TickSeconds
    BY <1>0, <1>1 DEF EverySecondCharged
  <2>2. tick' - 1 = tick
    <3>1. PICK t \in Nat : t = tick
      BY <1>3
    <3>2. (t + 1) - 1 = t
      OBVIOUS
    <3> QED
      BY <1>10, <3>1, <3>2
  <2> QED
    BY <1>1, <1>2, <2>1, <2>2 DEF EverySecondCharged
<1>19. OnlyBudgetCutsShort'
  <2>1. CASE SettleEnds
    <3>1. nextPending = Len(reqs)
      BY <1>3, <2>1 DEF SettleEnds
    <3>2. Len(realized) = nextPending
      <4>1. Len(newlyReleased) = 0 /\ Len(inFlight) = 0
        BY <1>6, <2>1 DEF SettleEnds
      <4>2. Len(realized) \in Nat
        BY <1>0, LenProperties DEF Shape
      <4> QED
        BY <1>0, <4>1, <4>2 DEF Balanced
    <3>3. result'.completed = Len(realized) /\ result'.released = nextPending
      BY <2>1 DEF SettleEnds, SimResult
    <3> QED
      BY <1>1, <3>1, <3>2, <3>3 DEF OnlyBudgetCutsShort
  <2>2. CASE SettleStops
    <3>1. result'.ticks = maxTicks /\ result'.released = nextPending /\ tick = maxTicks
      BY <2>2 DEF SettleStops, SimResult
    <3>2. ASSUME maxTicks = derivedMaxTicks(reqs) PROVE nextPending = Len(reqs)
      <4>1. NoneDue(Clock)
        BY <1>0, <1>1 DEF OnTime
      <4> QED
        BY <1>0, <3>1, <3>2, <4>1, DerivedBudgetReleasesAll
    <3> QED
      BY <1>1, <1>2, <1>3, <3>1, <3>2 DEF OnlyBudgetCutsShort
  <2>3. CASE SettleGoesOn
    BY <1>6, <2>3 DEF SettleGoesOn, OnlyBudgetCutsShort, NoResult
  <2> QED
    BY <1>5, <2>1, <2>2, <2>3
<1> QED
  BY <1>11, <1>12, <1>13, <1>14, <1>15, <1>16, <1>17, <1>18, <1>19 DEF IInv

-----------------------------------------------------------------------------
(* The theorems.                                                            *)

LEMMA NextIInv == IInv /\ [Next]_vars => IInv'
<1>1. IInv /\ Release => IInv'
  BY ReleaseIInv
<1>2. IInv /\ RouteBatch => IInv'
  BY RouteBatchIInv
<1>3. IInv /\ Advance => IInv'
  BY AdvanceIInv
<1>4. IInv /\ Settle => IInv'
  BY SettleIInv
<1>5. IInv /\ (StopCancelled \/ RouteFails \/ Cancel \/ Returned \/ UNCHANGED vars) => IInv'
  BY StopsAreQuiet, QuietIInv
<1> QED
  BY <1>1, <1>2, <1>3, <1>4, <1>5 DEF Next, Step

\* The first n requests of the order are the released ones.
LEMMA ReleasedPrefix ==
  ASSUME reqs \in Demands, NEW n \in 0 .. Len(reqs)
  PROVE  Range(SubSeq(sortedRequestOrder, 1, n)) = ReleasedRequests(n)
<1>1. PICK order : order = sortedRequestOrder
  OBVIOUS
<1>2. order \in Seq(Requests) /\ Len(order) = Len(reqs) /\ Len(reqs) \in Nat
  BY <1>1, OrderFacts, DemandFacts
<1>3. PICK m \in Int : m = 1
  OBVIOUS
<1>4. n \in Int /\ n >= 0 /\ n <= Len(order)
  BY <1>2
<1>5. \A k \in m .. n : order[k] \in Requests
  <2> SUFFICES ASSUME NEW k \in m .. n PROVE order[k] \in Requests
    OBVIOUS
  <2>1. k \in 1 .. Len(order)
    BY <1>2, <1>3, <1>4
  <2> QED
    BY <1>2, <2>1, ElementOfSeq
<1>6. PICK q : q = SubSeq(order, m, n)
  OBVIOUS
<1>7. /\ q \in Seq(Requests)
      /\ Len(q) = (IF m <= n THEN n - m + 1 ELSE 0)
      /\ \A i \in 1 .. n - m + 1 : q[i] = order[m + i - 1]
  BY <1>4, <1>5, <1>6, SubSeqProperties
<1>8. n - m + 1 = n
  BY <1>3, <1>4
<1>9. Len(q) = n
  BY <1>3, <1>4, <1>7, <1>8
<1>10. \A i \in 1 .. n : q[i] = order[i]
  <2> SUFFICES ASSUME NEW i \in 1 .. n PROVE q[i] = order[i]
    OBVIOUS
  <2>1. m + i - 1 = i
    BY <1>3
  <2> QED
    BY <1>7, <1>8, <2>1
<1>11. Range(q) = {q[i] : i \in 1 .. n}
  BY <1>7, <1>9, RangeEquality
<1>12. Range(q) = {order[i] : i \in 1 .. n}
  BY <1>10, <1>11
<1> QED
  BY <1>1, <1>3, <1>6, <1>12 DEF ReleasedRequests

LEMMA IInvTypes == IInv => TypeOK
<1> SUFFICES ASSUME IInv PROVE TypeOK
  OBVIOUS
<1>1. Shape /\ OnTheRoad
  BY DEF IInv
<1>2. ASSUME NEW k \in DOMAIN inFlight PROVE RoadVehicle(inFlight[k])
  <2>1. PICK veh : veh = inFlight[k]
    OBVIOUS
  <2>2. veh \in Vehicles
    BY <1>1, <2>1 DEF Shape
  <2>3. OnPath(veh) /\ veh.experienced <= tick * TickSeconds
    BY <1>1, <2>1 DEF OnTheRoad
  <2>4. tick * TickSeconds \in Int
    <3>1. PICK s \in Nat, t \in Nat : s = TickSeconds /\ t = tick
      BY <1>1, RoadAssumption DEF RoadAssumption, Shape
    <3>2. t * s \in Int
      OBVIOUS
    <3> QED
      BY <3>1, <3>2
  <2>5. veh.experienced \in 0 .. (tick * TickSeconds)
    BY <2>2, <2>3, <2>4 DEF Vehicles
  <2>6. RoadVehicle(veh)
    BY <2>3, <2>5 DEF OnPath, Placed, RoadVehicle
  <2> QED
    BY <2>1, <2>6
<1>3. \A e \in Edges : load[e] \in Nat
  BY <1>1 DEF Shape
<1> QED
  BY <1>1, <1>2, <1>3 DEF Shape, TypeOK

LEMMA IInvConserves == IInv => NoTripLostOrDoubled
<1> SUFFICES ASSUME IInv PROVE NoTripLostOrDoubled
  OBVIOUS
<1>1. Shape /\ OnTheRoad /\ Balanced
  BY DEF IInv
<1> DEFINE road == [k \in DOMAIN inFlight |-> inFlight[k].request]
           home == [k \in DOMAIN realized |-> realized[k].request]
<1>2. /\ newlyReleased \in Seq(Requests) /\ inFlight \in Seq(Vehicles)
      /\ realized \in Seq(Trips)
      /\ Len(newlyReleased) \in Nat /\ Len(inFlight) \in Nat /\ Len(realized) \in Nat
      /\ DOMAIN inFlight = 1 .. Len(inFlight) /\ DOMAIN realized = 1 .. Len(realized)
  BY <1>1, LenProperties DEF Shape
<1>3. road \in Seq(Nat) /\ Len(road) = Len(inFlight) /\ Range(road) = RequestsOf(inFlight)
  <2>1. \A k \in 1 .. Len(inFlight) : inFlight[k].request \in Nat
    <3> SUFFICES ASSUME NEW k \in 1 .. Len(inFlight) PROVE inFlight[k].request \in Nat
      OBVIOUS
    <3>1. inFlight[k] \in Vehicles
      BY <1>2
    <3> QED
      BY <3>1 DEF Vehicles
  <2>2. [k \in 1 .. Len(inFlight) |-> inFlight[k].request] \in Seq(Nat)
    BY <1>2, <2>1, IsASeq
  <2>3. road \in Seq(Nat) /\ Len(road) = Len(inFlight)
    BY <1>2, <2>2
  <2>4. Range(road) = RequestsOf(inFlight)
    BY DEF Range, RequestsOf
  <2> QED
    BY <2>3, <2>4
<1>4. home \in Seq(Nat) /\ Len(home) = Len(realized) /\ Range(home) = RequestsOf(realized)
  <2>1. \A k \in 1 .. Len(realized) : realized[k].request \in Nat
    <3> SUFFICES ASSUME NEW k \in 1 .. Len(realized) PROVE realized[k].request \in Nat
      OBVIOUS
    <3>1. realized[k] \in Trips
      BY <1>2
    <3> QED
      BY <3>1 DEF Trips
  <2>2. [k \in 1 .. Len(realized) |-> realized[k].request] \in Seq(Nat)
    BY <1>2, <2>1, IsASeq
  <2>3. home \in Seq(Nat) /\ Len(home) = Len(realized)
    BY <1>2, <2>2
  <2>4. Range(home) = RequestsOf(realized)
    BY DEF Range, RequestsOf
  <2> QED
    BY <2>3, <2>4
<1>5. PICK a, b, c : a = newlyReleased /\ b = road /\ c = home
  OBVIOUS
<1> HIDE DEF road, home
<1>6. a \in Seq(Nat) /\ b \in Seq(Nat) /\ c \in Seq(Nat)
  <2>1. \A k \in 1 .. Len(newlyReleased) : newlyReleased[k] \in Nat
    <3> SUFFICES ASSUME NEW k \in 1 .. Len(newlyReleased) PROVE newlyReleased[k] \in Nat
      OBVIOUS
    <3>1. newlyReleased[k] \in Requests
      BY <1>2, ElementOfSeq
    <3> QED
      BY <3>1 DEF Requests
  <2>2. newlyReleased = [k \in 1 .. Len(newlyReleased) |-> newlyReleased[k]]
    BY <1>2, LenProperties
  <2>3. [k \in 1 .. Len(newlyReleased) |-> newlyReleased[k]] \in Seq(Nat)
    BY <1>2, <2>1, IsASeq
  <2> QED
    BY <1>3, <1>4, <1>5, <2>2, <2>3
<1>7. PICK ab : ab = a \o b
  OBVIOUS
<1>8. ab \in Seq(Nat) /\ Len(ab) = Len(a) + Len(b) /\ Range(ab) = Range(a) \cup Range(b)
  BY <1>6, <1>7, ConcatProperties, RangeConcatenation
<1>9. Len(ab \o c) = Len(ab) + Len(c) /\ Range(ab \o c) = Range(ab) \cup Range(c)
  <2>1. Len(ab \o c) = Len(ab) + Len(c)
    BY <1>6, <1>8, ConcatProperties
  <2>2. Range(ab \o c) = Range(ab) \cup Range(c)
    BY <1>6, <1>8, RangeConcatenation
  <2> QED
    BY <2>1, <2>2
<1>10. Len(ab \o c) = nextPending
  BY <1>1, <1>3, <1>4, <1>5, <1>8, <1>9 DEF Balanced
<1>11. Range(ab \o c) = ReleasedRequests(nextPending)
  BY <1>1, <1>3, <1>4, <1>5, <1>8, <1>9 DEF Balanced
<1>12. Range(SubSeq(sortedRequestOrder, 1, nextPending)) = ReleasedRequests(nextPending)
  BY <1>1, ReleasedPrefix DEF Shape
<1>13. newlyReleased \o [k \in DOMAIN inFlight |-> inFlight[k].request]
          \o [k \in DOMAIN realized |-> realized[k].request] = ab \o c
  BY <1>5, <1>7 DEF road, home
<1> QED
  BY <1>10, <1>11, <1>12, <1>13 DEF NoTripLostOrDoubled

\* Simulate's bookkeeping (simulator.go): at every point of a run each released
\* request waits for its route, is on the road or has been realized, in one
\* place and once; the load at the top of a tick is the weight that stands on
\* the edges; and a vehicle on the road has been charged every second since the
\* tick that released it.
THEOREM TripsAlwaysConserved == Spec => []Inv
<1>1. IInv => Inv
  BY IInvTypes, IInvConserves DEF IInv, Inv
<1> QED
  BY InitIInv, NextIInv, <1>1, PTL DEF Spec

\* The tick loop of Simulate gives up only at its budget: a result of fewer
\* ticks has every trip in it, and derivedMaxTicks is far enough for every
\* request to be released.
THEOREM OnlyTheBudgetEndsEarly == Spec => []OnlyBudgetCutsShort
<1>1. IInv => OnlyBudgetCutsShort
  BY DEF IInv
<1> QED
  BY InitIInv, NextIInv, <1>1, PTL DEF Spec

-----------------------------------------------------------------------------
(* Sequences that hold the same things in another order.                    *)

\* The elements of s, one by one, stand in the relation R to those of t.
Matched(s, t, R, b) ==
    /\ Pairs(b, DOMAIN s, DOMAIN t)
    /\ \A k \in DOMAIN s : <<s[k], t[b[k]]>> \in R
Twins(s, t, R) == \E b : Matched(s, t, R, b)

\* s is indexed as a sequence is.
Listed(s) == Len(s) \in Nat /\ DOMAIN s = 1 .. Len(s)

LEMMA SeqListed == ASSUME NEW A, NEW s \in Seq(A) PROVE Listed(s)
BY LenProperties DEF Listed

LEMMA TwinsLength ==
  ASSUME NEW s, Listed(s), NEW t, Listed(t), NEW R, Twins(s, t, R)
  PROVE  Len(s) = Len(t)
<1>1. PICK b : Pairs(b, DOMAIN s, DOMAIN t)
  BY DEF Twins, Matched
<1>2. \A n \in Nat : IsFiniteSet(1 .. n) /\ Cardinality(1 .. n) = n
  <2> SUFFICES ASSUME NEW n \in Nat PROVE IsFiniteSet(1 .. n) /\ Cardinality(1 .. n) = n
    OBVIOUS
  <2>1. 1 \in Int /\ n \in Int
    OBVIOUS
  <2>2. IsFiniteSet(1 .. n) /\ Cardinality(1 .. n) = IF 1 > n THEN 0 ELSE n - 1 + 1
    BY <2>1, FS_Interval
  <2> QED
    BY <2>2
<1>3. Cardinality(DOMAIN t) = Cardinality(DOMAIN s)
  <2>1. IsFiniteSet(DOMAIN s)
    BY <1>2 DEF Listed
  <2> QED
    BY <1>1, <2>1, PairsSize
<1> QED
  BY <1>2, <1>3 DEF Listed

LEMMA TwinsEmpty == ASSUME NEW R PROVE Twins(<<>>, <<>>, R)
<1> DEFINE e == << >>
<1>1. DOMAIN e = {}
  OBVIOUS
<1>2. Matched(e, e, R, e)
  <2>1. e \in [{} -> {}]
    OBVIOUS
  <2> HIDE DEF e
  <2> QED
    BY <1>1, <2>1 DEF Matched, Pairs
<1> QED
  BY <1>2 DEF Twins

\* Sequences over the same places as twins, whose elements are related in their turn.
LEMMA TwinsOver ==
  ASSUME NEW s, NEW t, NEW R, NEW b, Matched(s, t, R, b),
         NEW u, NEW v, DOMAIN u = DOMAIN s, DOMAIN v = DOMAIN t, NEW Q,
         \A k \in DOMAIN s : <<u[k], v[b[k]]>> \in Q
  PROVE  Matched(u, v, Q, b)
BY DEF Matched

LEMMA TwinsJoin ==
  ASSUME NEW A, NEW B, NEW s \in Seq(A), NEW t \in Seq(B), NEW u \in Seq(A), NEW v \in Seq(B), NEW R,
         Twins(s, t, R), Twins(u, v, R)
  PROVE  Twins(s \o u, t \o v, R)
<1>1. Listed(s) /\ Listed(t) /\ Listed(u) /\ Listed(v)
  BY SeqListed
<1>2. Len(s) = Len(t) /\ Len(u) = Len(v)
  BY <1>1, TwinsLength
<1>3. PICK n \in Nat, m \in Nat : n = Len(s) /\ m = Len(u)
  BY <1>1 DEF Listed
<1>4. PICK b : Pairs(b, 1 .. n, 1 .. n) /\ \A k \in 1 .. n : <<s[k], t[b[k]]>> \in R
  BY <1>1, <1>2, <1>3 DEF Twins, Matched, Listed
<1>5. PICK c : Pairs(c, 1 .. m, 1 .. m) /\ \A k \in 1 .. m : <<u[k], v[c[k]]>> \in R
  BY <1>1, <1>2, <1>3 DEF Twins, Matched, Listed
<1>6. PICK d : d = [k \in 1 .. (n + m) |-> IF k <= n THEN b[k] ELSE n + c[k - n]]
  OBVIOUS
<1>7. PICK su, tv : su = s \o u /\ tv = t \o v
  OBVIOUS
<1>8. /\ DOMAIN su = 1 .. (n + m) /\ DOMAIN tv = 1 .. (n + m)
      /\ \A k \in 1 .. (n + m) : su[k] = IF k <= n THEN s[k] ELSE u[k - n]
      /\ \A k \in 1 .. (n + m) : tv[k] = IF k <= n THEN t[k] ELSE v[k - n]
  <2>1. su \in Seq(A) /\ Len(su) = n + m
    BY <1>3, <1>7, ConcatProperties
  <2>2. tv \in Seq(B) /\ Len(tv) = n + m
    BY <1>2, <1>3, <1>7, ConcatProperties
  <2>3. \A k \in 1 .. (n + m) : su[k] = IF k <= n THEN s[k] ELSE u[k - n]
    BY <1>3, <1>7, ConcatProperties
  <2>4. \A k \in 1 .. (n + m) : tv[k] = IF k <= n THEN t[k] ELSE v[k - n]
    BY <1>2, <1>3, <1>7, ConcatProperties
  <2> QED
    BY <2>1, <2>2, <2>3, <2>4, LenProperties
<1>9. \A k \in 1 .. n : k \in 1 .. (n + m) /\ k <= n /\ d[k] = b[k] /\ b[k] \in 1 .. n /\ b[k] \in 1 .. (n + m)
  <2> SUFFICES ASSUME NEW k \in 1 .. n
               PROVE  k \in 1 .. (n + m) /\ k <= n /\ d[k] = b[k] /\ b[k] \in 1 .. n /\ b[k] \in 1 .. (n + m)
    OBVIOUS
  <2>1. b[k] \in 1 .. n
    BY <1>4 DEF Pairs
  <2>2. k \in 1 .. (n + m) /\ k <= n /\ b[k] \in 1 .. (n + m)
    BY <2>1
  <2> QED
    BY <1>6, <2>1, <2>2
<1>10. \A k \in (1 .. (n + m)) \ (1 .. n) :
          k - n \in 1 .. m /\ ~(k <= n) /\ d[k] = n + c[k - n] /\ c[k - n] \in 1 .. m
            /\ d[k] \in (1 .. (n + m)) \ (1 .. n) /\ d[k] - n = c[k - n]
  <2> SUFFICES ASSUME NEW k \in (1 .. (n + m)) \ (1 .. n)
               PROVE  k - n \in 1 .. m /\ ~(k <= n) /\ d[k] = n + c[k - n] /\ c[k - n] \in 1 .. m
                        /\ d[k] \in (1 .. (n + m)) \ (1 .. n) /\ d[k] - n = c[k - n]
    OBVIOUS
  <2>1. k - n \in 1 .. m /\ ~(k <= n)
    OBVIOUS
  <2>2. c[k - n] \in 1 .. m
    BY <1>5, <2>1 DEF Pairs
  <2>3. PICK i \in 1 .. m : i = c[k - n]
    BY <2>2
  <2>4. d[k] = n + i
    BY <1>6, <2>1, <2>3
  <2>5. n + i \in (1 .. (n + m)) \ (1 .. n) /\ (n + i) - n = i
    OBVIOUS
  <2> QED
    BY <2>1, <2>3, <2>4, <2>5
<1>11. Pairs(d, 1 .. (n + m), 1 .. (n + m))
  <2>1. d \in [1 .. (n + m) -> 1 .. (n + m)]
    <3>1. \A k \in 1 .. (n + m) : d[k] \in 1 .. (n + m)
      BY <1>9, <1>10
    <3>2. d = [k \in 1 .. (n + m) |-> d[k]]
      BY <1>6
    <3> QED
      BY <3>1, <3>2
  <2>2. ASSUME NEW x \in 1 .. (n + m), NEW y \in 1 .. (n + m), d[x] = d[y] PROVE x = y
    <3>1. CASE x \in 1 .. n /\ y \in 1 .. n
      BY <1>4, <1>9, <2>2, <3>1 DEF Pairs
    <3>2. CASE x \notin 1 .. n /\ y \notin 1 .. n
      <4>1. c[x - n] = c[y - n] /\ x - n \in 1 .. m /\ y - n \in 1 .. m
        BY <1>10, <2>2, <3>2
      <4>2. x - n = y - n
        BY <1>5, <4>1 DEF Pairs
      <4> QED
        BY <4>2
    <3>3. CASE x \in 1 .. n /\ y \notin 1 .. n
      BY <1>9, <1>10, <2>2, <3>3
    <3>4. CASE x \notin 1 .. n /\ y \in 1 .. n
      BY <1>9, <1>10, <2>2, <3>4
    <3> QED
      BY <3>1, <3>2, <3>3, <3>4
  <2>3. ASSUME NEW z \in 1 .. (n + m) PROVE \E x \in 1 .. (n + m) : d[x] = z
    <3>1. CASE z \in 1 .. n
      BY <1>4, <1>9, <3>1 DEF Pairs
    <3>2. CASE z \notin 1 .. n
      <4>1. z - n \in 1 .. m
        BY <1>10, <3>2
      <4>2. PICK i \in 1 .. m : c[i] = z - n
        BY <1>5, <4>1 DEF Pairs
      <4>3. n + i \in (1 .. (n + m)) \ (1 .. n) /\ (n + i) - n = i
        OBVIOUS
      <4>4. d[n + i] = n + (z - n)
        BY <1>10, <4>2, <4>3
      <4> QED
        BY <4>3, <4>4
    <3> QED
      BY <3>1, <3>2
  <2> QED
    BY <2>1, <2>2, <2>3 DEF Pairs
<1>12. ASSUME NEW k \in 1 .. (n + m) PROVE <<su[k], tv[d[k]]>> \in R
  <2>1. CASE k \in 1 .. n
    <3>1. su[k] = s[k] /\ d[k] = b[k] /\ b[k] \in 1 .. (n + m) /\ b[k] <= n
      BY <1>8, <1>9, <2>1
    <3>2. tv[d[k]] = t[b[k]]
      BY <1>8, <3>1
    <3> QED
      BY <1>4, <2>1, <3>1, <3>2
  <2>2. CASE k \notin 1 .. n
    <3>1. su[k] = u[k - n] /\ k - n \in 1 .. m
      BY <1>8, <1>10, <2>2
    <3>2. d[k] \in 1 .. (n + m) /\ ~(d[k] <= n) /\ d[k] - n = c[k - n]
      BY <1>10, <2>2
    <3>3. tv[d[k]] = v[c[k - n]]
      BY <1>8, <3>2
    <3> QED
      BY <1>5, <3>1, <3>3
  <2> QED
    BY <2>1, <2>2
<1> QED
  BY <1>7, <1>8, <1>11, <1>12 DEF Twins, Matched

LEMMA TwinsFilter ==
  ASSUME NEW A, NEW s \in Seq(A), NEW B, NEW t \in Seq(B), NEW b, Pairs(b, DOMAIN s, DOMAIN t),
         NEW S \in SUBSET DOMAIN s, NEW T \in SUBSET DOMAIN t,
         \A k \in DOMAIN s : k \in S <=> b[k] \in T,
         NEW R, \A k \in S : <<s[k], t[b[k]]>> \in R
  PROVE  Twins(Filtered(s, S), Filtered(t, T), R)
<1>1. S \in SUBSET (1 .. Len(s)) /\ T \in SUBSET (1 .. Len(t))
  BY LenProperties
<1>2. PICK n : n = Cardinality(S)
  OBVIOUS
<1>3. PICK m : m = Cardinality(T)
  OBVIOUS
<1>4. PICK at : Pairs(at, 1 .. n, S) /\ Filtered(s, S) = [k \in 1 .. n |-> s[at[k]]]
  BY <1>1, <1>2, FilteredPlaces
<1>5. PICK to : Pairs(to, 1 .. m, T) /\ Filtered(t, T) = [k \in 1 .. m |-> t[to[k]]]
  BY <1>1, <1>3, FilteredPlaces
<1>6. \A k \in 1 .. n : at[k] \in S /\ at[k] \in DOMAIN s /\ b[at[k]] \in T
  BY <1>4 DEF Pairs
<1>7. \A k \in 1 .. n : \E l \in 1 .. m : to[l] = b[at[k]]
  BY <1>5, <1>6 DEF Pairs
<1>8. PICK c : c = [k \in 1 .. n |-> CHOOSE l \in 1 .. m : to[l] = b[at[k]]]
  OBVIOUS
<1>9. \A k \in 1 .. n : c[k] \in 1 .. m /\ to[c[k]] = b[at[k]]
  BY <1>7, <1>8
<1>10. Pairs(c, 1 .. n, 1 .. m)
  <2>1. c \in [1 .. n -> 1 .. m]
    <3>1. c = [k \in 1 .. n |-> c[k]]
      BY <1>8
    <3> QED
      BY <1>9, <3>1
  <2>2. ASSUME NEW x \in 1 .. n, NEW y \in 1 .. n, c[x] = c[y] PROVE x = y
    <3>1. b[at[x]] = b[at[y]] /\ at[x] \in DOMAIN s /\ at[y] \in DOMAIN s
      BY <1>6, <1>9, <2>2
    <3>2. at[x] = at[y]
      BY <3>1 DEF Pairs
    <3> QED
      BY <1>4, <3>2 DEF Pairs
  <2>3. ASSUME NEW z \in 1 .. m PROVE \E x \in 1 .. n : c[x] = z
    <3>1. to[z] \in T /\ to[z] \in DOMAIN t
      BY <1>5 DEF Pairs
    <3>2. PICK k \in DOMAIN s : b[k] = to[z]
      BY <3>1 DEF Pairs
    <3>3. k \in S
      BY <3>1, <3>2
    <3>4. PICK x \in 1 .. n : at[x] = k
      BY <1>4, <3>3 DEF Pairs
    <3>5. to[c[x]] = to[z] /\ c[x] \in 1 .. m
      BY <1>9, <3>2, <3>4
    <3>6. c[x] = z
      BY <1>5, <3>5 DEF Pairs
    <3> QED
      BY <3>6
  <2> QED
    BY <2>1, <2>2, <2>3 DEF Pairs
<1>11. PICK f, g : f = Filtered(s, S) /\ g = Filtered(t, T)
  OBVIOUS
<1>12. f = [k \in 1 .. n |-> s[at[k]]] /\ g = [k \in 1 .. m |-> t[to[k]]]
  BY <1>4, <1>5, <1>11
<1>13. DOMAIN f = 1 .. n /\ DOMAIN g = 1 .. m
  BY <1>12
<1>14. \A k \in 1 .. n : f[k] = s[at[k]] /\ g[c[k]] = t[b[at[k]]]
  BY <1>9, <1>12
<1>15. \A k \in 1 .. n : <<f[k], g[c[k]]>> \in R
  BY <1>6, <1>14
<1>16. Matched(f, g, R, c)
  BY <1>10, <1>13, <1>15 DEF Matched
<1> QED
  BY <1>11, <1>16 DEF Twins

\* A sum does not depend on what its terms are called.
LEMMA SumReindexed ==
  ASSUME NEW S, IsFiniteSet(S), NEW T, NEW b, Pairs(b, S, T), NEW f, NEW g,
         \A x \in S : f[x] \in Int /\ g[b[x]] = f[x]
  PROVE  SumFunctionOnSet(f, S) = SumFunctionOnSet(g, T)
<1> DEFINE Image(U) == {b[x] : x \in U}
           I == {U \in SUBSET S : SumFunctionOnSet(f, U) = SumFunctionOnSet(g, Image(U))}
<1>1. {} \in I
  <2>1. Image({}) = {}
    OBVIOUS
  <2>2. SumFunctionOnSet(f, {}) = 0 /\ SumFunctionOnSet(g, {}) = 0
    BY SumEmpty
  <2> QED
    BY <2>1, <2>2
<1>2. ASSUME NEW U \in SUBSET S, NEW x \in S \ U, U \in I PROVE U \cup {x} \in I
  <2>1. IsFiniteSet(U)
    BY FS_Subset
  <2>2. PICK V : V = Image(U)
    OBVIOUS
  <2>3. IsFiniteSet(V)
    <3>1. PICK h : h = [u \in U |-> b[u]]
      OBVIOUS
    <3>2. h \in Surjection(U, V)
      BY <2>2, <3>1 DEF Surjection
    <3> QED
      BY <2>1, <3>2, FS_Surjection
  <2>4. Image(U \cup {x}) = V \cup {b[x]}
    BY <2>2
  <2>5. b[x] \notin V
    BY <2>2 DEF Pairs
  <2>6. \A y \in V : g[y] \in Int
    BY <2>2
  <2>7. f[x] \in Int /\ g[b[x]] = f[x]
    OBVIOUS
  <2>8. SumFunctionOnSet(f, U \cup {x}) = f[x] + SumFunctionOnSet(f, U)
    BY <2>1, <2>7, SumIn
  <2>9. SumFunctionOnSet(g, V \cup {b[x]}) = g[b[x]] + SumFunctionOnSet(g, V)
    BY <2>3, <2>5, <2>6, <2>7, SumIn
  <2>10. SumFunctionOnSet(f, U) = SumFunctionOnSet(g, V)
    BY <1>2, <2>2
  <2> QED
    BY <2>4, <2>7, <2>8, <2>9, <2>10
<1>3. S \in I
  <2> HIDE DEF I
  <2> QED
    BY <1>1, <1>2, FiniteSetInduction
<1>4. Image(S) = T
  BY DEF Pairs
<1> QED
  BY <1>3, <1>4

\* Sequences that hold the same values hold each as often.
LEMMA TwinsCount ==
  ASSUME NEW s, IsFiniteSet(DOMAIN s), NEW t, NEW b, Pairs(b, DOMAIN s, DOMAIN t),
         \A k \in DOMAIN s : s[k] = t[b[k]]
  PROVE  Counted(s) = Counted(t)
<1>1. Range(s) = Range(t)
  BY DEF Pairs, Range
<1>2. ASSUME NEW x \in Range(s)
      PROVE  Cardinality({i \in DOMAIN s : s[i] = x}) = Cardinality({i \in DOMAIN t : t[i] = x})
  <2>1. PICK S, T : S = {i \in DOMAIN s : s[i] = x} /\ T = {i \in DOMAIN t : t[i] = x}
    OBVIOUS
  <2>2. IsFiniteSet(S)
    <3>1. S \subseteq DOMAIN s
      BY <2>1
    <3> QED
      BY <3>1, FS_Subset
  <2>3. PICK c : c = [i \in S |-> b[i]]
    OBVIOUS
  <2>4. Pairs(c, S, T)
    BY <2>1, <2>3 DEF Pairs
  <2> QED
    BY <2>1, <2>2, <2>4, PairsSize
<1> QED
  BY <1>1, <1>2 DEF Counted

-----------------------------------------------------------------------------
(* What two orders of one demand release.                                   *)

\* What has been released of a demand: the first n of its order, and they are the
\* requests that leave at one of the times D.
Taken(q, n, D) ==
    /\ n \in 0 .. Len(q)
    /\ \A k \in 1 .. Len(q) : k <= n <=> q[DepartureOrder(q)[k]].departAt \in D

UpTo(clock) == {d \in Int : d <= clock}

LEMMA ReleaseTakesDue ==
  ASSUME NEW q \in Demands, NEW from, NEW D, Taken(q, from, D), NEW clock \in Int,
         D \subseteq UpTo(clock)
  PROVE  /\ LastDue(q, from, clock) \in from .. Len(q)
         /\ Taken(q, LastDue(q, from, clock), UpTo(clock))
<1> DEFINE order == DepartureOrder(q)
<1>1. Len(q) \in Nat /\ InDepartureOrder(order, q) /\ from \in 0 .. Len(q)
  BY DemandsFacts, DepartureOrderSorts DEF Taken
<1>2. PICK last : last = LastDue(q, from, clock)
  OBVIOUS
<1>3. /\ last \in from .. Len(q)
      /\ \A k \in (from + 1) .. last : q[order[k]].departAt <= clock
      /\ last < Len(q) => q[order[last + 1]].departAt > clock
  BY <1>1, <1>2, LastDueIs
<1>4. \A k \in 1 .. Len(q) : q[order[k]].departAt \in Int
  BY <1>1, DemandsFacts DEF InDepartureOrder
<1> HIDE DEF order
<1>5. ASSUME NEW k \in 1 .. Len(q), k <= last PROVE q[order[k]].departAt \in UpTo(clock)
  <2>1. CASE k <= from
    BY <2>1 DEF Taken, order
  <2>2. CASE k > from
    <3>1. k \in (from + 1) .. last
      BY <1>1, <1>3, <1>5, <2>2
    <3> QED
      BY <1>3, <1>4, <3>1 DEF UpTo
  <2> QED
    BY <1>1, <2>1, <2>2
<1>6. ASSUME NEW k \in 1 .. Len(q), ~(k <= last) PROVE q[order[k]].departAt \notin UpTo(clock)
  <2>1. last < Len(q) /\ last + 1 \in 1 .. Len(q)
    BY <1>1, <1>3, <1>6
  <2>2. k = last + 1 \/ last + 1 < k
    BY <1>1, <1>3, <1>6
  <2>3. q[order[last + 1]].departAt <= q[order[k]].departAt
    <3>1. CASE k = last + 1
      BY <1>4, <2>1, <3>1
    <3>2. CASE last + 1 < k
      BY <1>1, <2>1, <3>2 DEF InDepartureOrder
    <3> QED
      BY <2>2, <3>1, <3>2
  <2>4. q[order[last + 1]].departAt \in Int /\ q[order[k]].departAt \in Int
    BY <1>4, <2>1
  <2> QED
    BY <1>3, <2>1, <2>3, <2>4 DEF UpTo
<1>7. last \in 0 .. Len(q)
  BY <1>1, <1>3
<1> QED
  BY <1>2, <1>3, <1>5, <1>6, <1>7 DEF Taken, order

\* q2 has the requests of q in another order: at place i the one at place p[i].
Reorders(p, q2, q) ==
    /\ Pairs(p, 1 .. Len(q2), 1 .. Len(q))
    /\ \A i \in 1 .. Len(q2) : q2[i] = q[p[i]]

Renamed(p) == {<<i, p[i]>> : i \in DOMAIN p}

\* A part of the sorted order.
LEMMA OrderPart ==
  ASSUME NEW q \in Demands, NEW n \in 0 .. Len(q), NEW m \in n .. Len(q)
  PROVE  /\ SubSeq(DepartureOrder(q), n + 1, m) \in Seq(1 .. Len(q))
         /\ DOMAIN SubSeq(DepartureOrder(q), n + 1, m) = 1 .. (m - n)
         /\ \A k \in 1 .. (m - n) :
               /\ n + k \in 1 .. Len(q)
               /\ SubSeq(DepartureOrder(q), n + 1, m)[k] = DepartureOrder(q)[n + k]
<1>1. Len(q) \in Nat /\ n \in Nat /\ m \in Nat /\ n <= m /\ m <= Len(q)
  BY DemandsFacts
<1>2. DepartureOrder(q) \in [1 .. Len(q) -> 1 .. Len(q)]
  BY DepartureOrderSorts DEF InDepartureOrder
<1>3. PICK o : o = DepartureOrder(q)
  OBVIOUS
<1>4. PICK a, d : a = n + 1 /\ d = m - n
  OBVIOUS
<1>5. a \in Int /\ m \in Int /\ d \in Nat
  BY <1>1, <1>4
<1>6. \A i \in a .. m : o[i] \in 1 .. Len(q)
  <2>1. \A i \in a .. m : i \in 1 .. Len(q)
    BY <1>1, <1>4
  <2> QED
    BY <1>2, <1>3, <2>1
<1>7. /\ SubSeq(o, a, m) \in Seq(1 .. Len(q))
      /\ Len(SubSeq(o, a, m)) = IF a <= m THEN m - a + 1 ELSE 0
      /\ \A i \in 1 .. m - a + 1 : SubSeq(o, a, m)[i] = o[a + i - 1]
  BY <1>5, <1>6, SubSeqProperties
<1>8. Len(SubSeq(o, a, m)) = d
  BY <1>1, <1>4, <1>7
<1>9. m - a + 1 = d
  BY <1>1, <1>4
<1>10. ASSUME NEW k \in 1 .. d PROVE n + k \in 1 .. Len(q) /\ SubSeq(o, a, m)[k] = o[n + k]
  <2>1. a + k - 1 = n + k /\ n + k \in 1 .. Len(q)
    BY <1>1, <1>4
  <2> QED
    BY <1>7, <1>9, <2>1
<1>11. DOMAIN SubSeq(o, a, m) = 1 .. d
  BY <1>7, <1>8, LenProperties
<1> QED
  BY <1>3, <1>4, <1>7, <1>10, <1>11

\* What two orders of one demand release between the same departures is the same.
LEMMA BatchTwins ==
  ASSUME NEW q \in Demands, NEW q2 \in Demands, NEW p, Reorders(p, q2, q),
         NEW n, NEW m, NEW m2, NEW D, NEW E,
         Taken(q, n, D), Taken(q2, n, D), Taken(q, m, E), Taken(q2, m2, E),
         n <= m, n <= m2
  PROVE  Twins(SubSeq(DepartureOrder(q2), n + 1, m2), SubSeq(DepartureOrder(q), n + 1, m), Renamed(p))
<1>1. Len(q) \in Nat /\ Len(q2) \in Nat
  BY DemandsFacts
<1>2. PICK o, o2 : o = DepartureOrder(q) /\ o2 = DepartureOrder(q2)
  OBVIOUS
<1>3. InDepartureOrder(o, q) /\ InDepartureOrder(o2, q2)
  BY <1>2, DepartureOrderSorts
<1>4. n \in 0 .. Len(q) /\ n \in 0 .. Len(q2) /\ m \in n .. Len(q) /\ m2 \in n .. Len(q2)
  BY <1>1 DEF Taken
<1>5. PICK s, t : /\ s = SubSeq(DepartureOrder(q2), n + 1, m2)
                  /\ t = SubSeq(DepartureOrder(q), n + 1, m)
  OBVIOUS
<1>6. /\ DOMAIN s = 1 .. (m2 - n)
      /\ \A k \in 1 .. (m2 - n) : n + k \in 1 .. Len(q2) /\ s[k] = o2[n + k]
  BY <1>2, <1>4, <1>5, OrderPart
<1>7. /\ DOMAIN t = 1 .. (m - n)
      /\ \A k \in 1 .. (m - n) : n + k \in 1 .. Len(q) /\ t[k] = o[n + k]
  BY <1>2, <1>4, <1>5, OrderPart
<1> DEFINE New(d) == d \in E /\ d \notin D
<1>8. \A k \in 1 .. Len(q) : k \in (n + 1) .. m <=> New(q[o[k]].departAt)
  BY <1>1, <1>2, <1>4 DEF Taken
<1>9. \A k \in 1 .. Len(q2) : k \in (n + 1) .. m2 <=> New(q2[o2[k]].departAt)
  BY <1>1, <1>2, <1>4 DEF Taken
<1>10. ASSUME NEW k \in 1 .. (m2 - n)
       PROVE  \E l \in 1 .. (m - n) : t[l] = p[s[k]]
  <2>1. n + k \in 1 .. Len(q2) /\ s[k] = o2[n + k] /\ n + k \in (n + 1) .. m2
    BY <1>4, <1>6
  <2>2. New(q2[s[k]].departAt) /\ s[k] \in 1 .. Len(q2)
    BY <1>3, <1>9, <2>1 DEF InDepartureOrder
  <2>3. q2[s[k]] = q[p[s[k]]] /\ p[s[k]] \in 1 .. Len(q)
    BY <2>2 DEF Reorders, Pairs
  <2>4. PICK j \in 1 .. Len(q) : o[j] = p[s[k]]
    BY <1>3, <2>3 DEF InDepartureOrder
  <2>5. j \in (n + 1) .. m
    BY <1>8, <2>2, <2>3, <2>4
  <2>6. j - n \in 1 .. (m - n) /\ n + (j - n) = j
    BY <1>4, <2>5
  <2> QED
    BY <1>7, <2>4, <2>6
<1>11. ASSUME NEW l \in 1 .. (m - n)
       PROVE  \E k \in 1 .. (m2 - n) : t[l] = p[s[k]]
  <2>1. n + l \in 1 .. Len(q) /\ t[l] = o[n + l] /\ n + l \in (n + 1) .. m
    BY <1>4, <1>7
  <2>2. New(q[t[l]].departAt) /\ t[l] \in 1 .. Len(q)
    BY <1>3, <1>8, <2>1 DEF InDepartureOrder
  <2>3. PICK i \in 1 .. Len(q2) : p[i] = t[l]
    BY <2>2 DEF Reorders, Pairs
  <2>4. PICK j \in 1 .. Len(q2) : o2[j] = i
    BY <1>3, <2>3 DEF InDepartureOrder
  <2>5. q2[o2[j]] = q[t[l]]
    BY <2>3, <2>4 DEF Reorders
  <2>6. j \in (n + 1) .. m2
    BY <1>9, <2>2, <2>4, <2>5
  <2>7. j - n \in 1 .. (m2 - n) /\ n + (j - n) = j
    BY <1>4, <2>6
  <2> QED
    BY <1>6, <2>3, <2>4, <2>7
<1>12. PICK b : b = [k \in 1 .. (m2 - n) |-> CHOOSE l \in 1 .. (m - n) : t[l] = p[s[k]]]
  OBVIOUS
<1>13. \A k \in 1 .. (m2 - n) : b[k] \in 1 .. (m - n) /\ t[b[k]] = p[s[k]]
  BY <1>10, <1>12
<1>14. \A k \in 1 .. (m2 - n) : s[k] \in 1 .. Len(q2)
  BY <1>3, <1>6 DEF InDepartureOrder
<1>15. ASSUME NEW x \in 1 .. (m2 - n), NEW y \in 1 .. (m2 - n), p[s[x]] = p[s[y]] PROVE x = y
  <2>1. s[x] = s[y]
    BY <1>14, <1>15 DEF Reorders, Pairs
  <2>2. o2[n + x] = o2[n + y] /\ n + x \in 1 .. Len(q2) /\ n + y \in 1 .. Len(q2)
    BY <1>6, <2>1
  <2>3. n + x = n + y
    BY <1>3, <2>2 DEF InDepartureOrder
  <2> QED
    BY <1>4, <2>3
<1>16. ASSUME NEW x \in 1 .. (m - n), NEW y \in 1 .. (m - n), t[x] = t[y] PROVE x = y
  <2>1. o[n + x] = o[n + y] /\ n + x \in 1 .. Len(q) /\ n + y \in 1 .. Len(q)
    BY <1>7, <1>16
  <2>2. n + x = n + y
    BY <1>3, <2>1 DEF InDepartureOrder
  <2> QED
    BY <1>4, <2>2
<1>17. Pairs(b, DOMAIN s, DOMAIN t)
  <2>1. b \in [1 .. (m2 - n) -> 1 .. (m - n)]
    <3>1. b = [k \in 1 .. (m2 - n) |-> b[k]]
      BY <1>12
    <3> QED
      BY <1>13, <3>1
  <2>2. \A x, y \in 1 .. (m2 - n) : b[x] = b[y] => x = y
    BY <1>13, <1>15
  <2>3. \A z \in 1 .. (m - n) : \E x \in 1 .. (m2 - n) : b[x] = z
    BY <1>11, <1>13, <1>16
  <2> QED
    BY <1>6, <1>7, <2>1, <2>2, <2>3 DEF Pairs
<1>18. \A k \in DOMAIN s : <<s[k], t[b[k]]>> \in Renamed(p)
  BY <1>6, <1>13, <1>14 DEF Renamed, Reorders, Pairs
<1> QED
  BY <1>5, <1>17, <1>18 DEF Twins, Matched

-----------------------------------------------------------------------------
(* Two vehicles on the same way.                                            *)

\* veh2 is veh, under another name of its request.
Like(veh2, veh) ==
    /\ veh2.edges = veh.edges /\ veh2.edgeIndex = veh.edgeIndex
    /\ veh2.distOnEdge = veh.distOnEdge /\ veh2.experienced = veh.experienced

LEMMA LikePlaced ==
  ASSUME NEW v2 \in Vehicles, NEW v \in Vehicles, Like(v2, v)
  PROVE  (Placed(v2) <=> Placed(v)) /\ (Finished(v2) <=> Finished(v))
BY DEF Like, Placed, Finished

\* A turn takes both equally far and leaves both as much of the tick.
LEMMA TurnLike ==
  ASSUME load \in [Edges -> Nat], NEW v2 \in Vehicles, NEW v \in Vehicles, Like(v2, v),
         Placed(v), NEW rest \in Nat
  PROVE  \E w2, w, r : /\ Traverse[<<v2, rest>>] = <<w2, r>>
                       /\ Traverse[<<v, rest>>] = <<w, r>>
                       /\ Like(w2, w)
<1> DEFINE At(u) == u.edges[u.edgeIndex]
           toFinish(u) == ((Length[At(u)] - u.distOnEdge) * Cost(At(u), load[At(u)])) \div Length[At(u)]
           gained(u) == (rest * Length[At(u)]) \div Cost(At(u), load[At(u)])
           far(u) == [NextEdge(u) EXCEPT !.experienced = @ + toFinish(u)]
           near(u) == [u EXCEPT !.distOnEdge = @ + gained(u), !.experienced = @ + rest]
<1>1. ASSUME NEW u \in Vehicles
      PROVE  Traverse[<<u, rest>>] =
                CASE rest = 0 \/ Finished(u) -> <<u, rest>>
                  [] rest > 0 /\ ~Finished(u) /\ Length[At(u)] = 0 -> <<NextEdge(u), rest>>
                  [] rest > 0 /\ ~Finished(u) /\ Length[At(u)] > 0 /\ toFinish(u) <= rest ->
                        <<far(u), rest - toFinish(u)>>
                  [] OTHER -> <<near(u), 0>>
  <2>1. <<u, rest>> \in Motion
    BY DEF Motion
  <2> QED
    BY <2>1 DEF Traverse
<1>2. PICK e : e = At(v) /\ e = At(v2)
  BY DEF Like
<1>3. PICK t : t = toFinish(v) /\ t = toFinish(v2)
  BY <1>2 DEF Like
<1>4. PICK g : g = gained(v) /\ g = gained(v2)
  BY <1>2 DEF Like
<1>5. PICK n2, n : n2 = NextEdge(v2) /\ n = NextEdge(v)
  OBVIOUS
<1>6. PICK f2, f : f2 = [n2 EXCEPT !.experienced = @ + t] /\ f = [n EXCEPT !.experienced = @ + t]
  OBVIOUS
<1>7. PICK s2, s : /\ s2 = [v2 EXCEPT !.distOnEdge = @ + g, !.experienced = @ + rest]
                   /\ s = [v EXCEPT !.distOnEdge = @ + g, !.experienced = @ + rest]
  OBVIOUS
<1>8. Traverse[<<v, rest>>] =
        CASE rest = 0 \/ Finished(v) -> <<v, rest>>
          [] rest > 0 /\ ~Finished(v) /\ Length[e] = 0 -> <<n, rest>>
          [] rest > 0 /\ ~Finished(v) /\ Length[e] > 0 /\ t <= rest -> <<f, rest - t>>
          [] OTHER -> <<s, 0>>
  BY <1>1, <1>2, <1>3, <1>4, <1>5, <1>6, <1>7
<1>9. Traverse[<<v2, rest>>] =
        CASE rest = 0 \/ Finished(v2) -> <<v2, rest>>
          [] rest > 0 /\ ~Finished(v2) /\ Length[e] = 0 -> <<n2, rest>>
          [] rest > 0 /\ ~Finished(v2) /\ Length[e] > 0 /\ t <= rest -> <<f2, rest - t>>
          [] OTHER -> <<s2, 0>>
  BY <1>1, <1>2, <1>3, <1>4, <1>5, <1>6, <1>7
<1>10. Finished(v2) <=> Finished(v)
  BY LikePlaced
<1>11. /\ v.edges \in Seq(Edges) /\ v.edgeIndex \in Nat /\ v.distOnEdge \in Nat
       /\ Len(v.edges) \in Nat
  BY LenProperties DEF Vehicles
<1>12. t = ((Length[e] - v.distOnEdge) * Cost(e, load[e])) \div Length[e]
       /\ g = (rest * Length[e]) \div Cost(e, load[e])
  BY <1>2, <1>3, <1>4
<1> HIDE DEF At, toFinish, gained, far, near
<1>13. CASE rest = 0 \/ Finished(v)
  <2>1. Traverse[<<v, rest>>] = <<v, rest>> /\ Traverse[<<v2, rest>>] = <<v2, rest>>
    BY <1>8, <1>9, <1>10, <1>13
  <2> QED
    BY <2>1
<1>14. CASE ~(rest = 0 \/ Finished(v))
  <2>1. rest > 0 /\ ~Finished(v) /\ ~Finished(v2) /\ v.edgeIndex \in 1 .. Len(v.edges)
    BY <1>10, <1>11, <1>14 DEF Placed, Finished
  <2>2. e \in Edges
    BY <1>2, <1>11, <2>1, ElementOfSeq DEF At
  <2>3. /\ n \in Vehicles /\ SameTrip(n, v) /\ n.edgeIndex = v.edgeIndex + 1
        /\ n.distOnEdge = 0 /\ n.experienced = v.experienced
    BY <1>5, NextVehicle
  <2>4. /\ n2 \in Vehicles /\ SameTrip(n2, v2) /\ n2.edgeIndex = v2.edgeIndex + 1
        /\ n2.distOnEdge = 0 /\ n2.experienced = v2.experienced
    BY <1>5, NextVehicle
  <2>5. Like(n2, n)
    BY <2>3, <2>4 DEF Like, SameTrip
  <2>6. Length[e] \in Nat /\ Cost(e, load[e]) \in Nat /\ (Length[e] > 0 => Cost(e, load[e]) > 0)
    <3>1. load[e] \in Nat
      BY <2>2
    <3> QED
      BY <2>2, <3>1, CostFacts
  <2>7. CASE Length[e] = 0
    <3>1. Traverse[<<v, rest>>] = <<n, rest>> /\ Traverse[<<v2, rest>>] = <<n2, rest>>
      BY <1>8, <1>9, <2>1, <2>7
    <3> QED
      BY <2>5, <3>1
  <2>8. CASE Length[e] # 0
    <3>1. PICK len \in Nat, cost \in Nat : len = Length[e] /\ cost = Cost(e, load[e]) /\ len > 0 /\ cost > 0
      BY <2>6, <2>8
    <3>2. PICK left \in Nat : left = len - v.distOnEdge
      <4>1. v.distOnEdge = 0 \/ v.distOnEdge \in 1 .. (len - 1)
        BY <1>2, <2>1, <3>1 DEF Placed, At
      <4> QED
        BY <1>11, <3>1, <4>1
    <3>3. t \in Nat
      <4>1. t = (left * cost) \div len
        BY <1>12, <3>1, <3>2
      <4>2. left * cost \in Nat
        OBVIOUS
      <4> QED
        BY <3>1, <4>1, <4>2, DivNat
    <3>4. g \in Nat
      <4>1. g = (rest * len) \div cost
        BY <1>12, <3>1
      <4>2. rest * len \in Nat
        OBVIOUS
      <4> QED
        BY <3>1, <4>1, <4>2, DivNat
    <3>5. CASE t <= rest
      <4>1. Length[e] > 0 /\ Length[e] # 0
        BY <3>1
      <4>2. Traverse[<<v, rest>>] = <<f, rest - t>> /\ Traverse[<<v2, rest>>] = <<f2, rest - t>>
        BY <1>8, <1>9, <2>1, <3>5, <4>1
      <4>3. /\ SameTrip(f, n) /\ f.edgeIndex = n.edgeIndex
            /\ f.distOnEdge = n.distOnEdge /\ f.experienced = n.experienced + t
        BY <1>6, <2>3, <3>3, ChargedVehicle
      <4>4. /\ SameTrip(f2, n2) /\ f2.edgeIndex = n2.edgeIndex
            /\ f2.distOnEdge = n2.distOnEdge /\ f2.experienced = n2.experienced + t
        BY <1>6, <2>4, <3>3, ChargedVehicle
      <4>5. Like(f2, f)
        BY <2>5, <4>3, <4>4 DEF Like, SameTrip
      <4> QED
        BY <4>2, <4>5
    <3>6. CASE ~(t <= rest)
      <4>1. Traverse[<<v, rest>>] = <<s, 0>> /\ Traverse[<<v2, rest>>] = <<s2, 0>>
        BY <1>8, <1>9, <1>14, <2>1, <2>8, <3>6
      <4>2. Further(s, v, g, rest) /\ Further(s2, v2, g, rest)
        BY <1>7 DEF Further
      <4>3. /\ SameTrip(s, v) /\ s.edgeIndex = v.edgeIndex
            /\ s.distOnEdge = v.distOnEdge + g /\ s.experienced = v.experienced + rest
        BY <3>4, <4>2, FurtherVehicle
      <4>4. /\ SameTrip(s2, v2) /\ s2.edgeIndex = v2.edgeIndex
            /\ s2.distOnEdge = v2.distOnEdge + g /\ s2.experienced = v2.experienced + rest
        BY <3>4, <4>2, FurtherVehicle
      <4>5. Like(s2, s)
        BY <4>3, <4>4 DEF Like, SameTrip
      <4> QED
        BY <4>1, <4>5
    <3> QED
      BY <3>5, <3>6
  <2> QED
    BY <2>7, <2>8
<1> QED
  BY <1>13, <1>14

\* Two vehicles on the same way stay on it, under one load.
LEMMA AdvanceLike ==
  ASSUME load \in [Edges -> Nat], NEW v2 \in Vehicles, NEW v \in Vehicles, Like(v2, v), Placed(v)
  PROVE  Like(advance(v2), advance(v))
<1>1. Placed(v2)
  BY LikePlaced
<1>2. PICK w : Turns(w, v)
  BY AdvanceTurns
<1>3. PICK w2 : Turns(w2, v2)
  BY <1>1, AdvanceTurns
<1>4. PICK N \in Nat : N = Len(v.edges) /\ N = Len(v2.edges)
  BY LenProperties DEF Vehicles, Like
<1> DEFINE Abreast(st2, st) ==
             \E u2, u, r : /\ st2 = <<u2, r>> /\ st = <<u, r>>
                           /\ u2 \in Vehicles /\ u \in Vehicles /\ Placed(u) /\ Like(u2, u)
                           /\ r \in Nat
           I == {n \in Nat : n <= N => Abreast(w2[n], w[n])}
<1>5. 0 \in I
  <2>1. w[0] = <<v, TickSeconds>> /\ w2[0] = <<v2, TickSeconds>> /\ TickSeconds \in Nat
    BY <1>2, <1>3, RoadAssumption DEF Turns, RoadAssumption
  <2>2. Abreast(w2[0], w[0])
    BY <2>1
  <2> HIDE DEF Abreast
  <2> QED
    BY <2>2
<1>6. ASSUME NEW n \in Nat, n \in I PROVE n + 1 \in I
  <2> SUFFICES ASSUME n + 1 <= N PROVE Abreast(w2[n + 1], w[n + 1])
    OBVIOUS
  <2>1. Abreast(w2[n], w[n])
    BY <1>6
  <2>2. PICK u2, u, r : /\ w2[n] = <<u2, r>> /\ w[n] = <<u, r>>
                        /\ u2 \in Vehicles /\ u \in Vehicles /\ Placed(u) /\ Like(u2, u)
                        /\ r \in Nat
    BY <2>1
  <2>3. w[n + 1] = Traverse[<<u, r>>] /\ w2[n + 1] = Traverse[<<u2, r>>]
    BY <1>2, <1>3, <1>4, <2>2 DEF Turns
  <2>4. PICK x2, x, q : /\ Traverse[<<u2, r>>] = <<x2, q>>
                        /\ Traverse[<<u, r>>] = <<x, q>>
                        /\ Like(x2, x)
    BY <2>2, TurnLike
  <2>5. x \in Vehicles /\ Placed(x) /\ q \in Nat
    <3>1. \E y, z : Traverse[<<u, r>>] = <<y, z>> /\ Turned(y, z, u, r)
      BY <2>2, TurnKeeps
    <3>2. Turned(x, q, u, r)
      BY <2>4, <3>1
    <3> QED
      BY <2>2, <3>2 DEF Turned
  <2>6. x2 \in Vehicles
    <3>1. Placed(u2)
      BY <2>2, LikePlaced
    <3>2. \E y, z : Traverse[<<u2, r>>] = <<y, z>> /\ Turned(y, z, u2, r)
      BY <2>2, <3>1, TurnKeeps
    <3>3. Turned(x2, q, u2, r)
      BY <2>4, <3>2
    <3> QED
      BY <3>3 DEF Turned
  <2> QED
    BY <2>3, <2>4, <2>5, <2>6
<1> HIDE DEF Abreast, I
<1>7. Nat \subseteq I
  BY <1>5, <1>6, NatSetInduction
<1>8. Abreast(w2[N], w[N])
  BY <1>7 DEF I
<1>9. PICK u2, u, r : w2[N] = <<u2, r>> /\ w[N] = <<u, r>> /\ Like(u2, u)
  BY <1>8 DEF Abreast
<1>10. advance(v) = u /\ advance(v2) = u2
  BY <1>2, <1>3, <1>4, <1>9 DEF Turns
<1> QED
  BY <1>9, <1>10

-----------------------------------------------------------------------------
(* The second run: what it computes does not depend on which run it is.     *)

LEMMA SecondCardinality == ASSUME NEW S PROVE Second!Cardinality(S) = Cardinality(S)
BY DEF Second!Cardinality, Cardinality

LEMMA SecondRange == ASSUME NEW s PROVE Second!Range(s) = Range(s)
BY DEF Second!Range, Range

LEMMA SecondMax == ASSUME NEW S PROVE Second!Max(S) = Max(S)
BY DEF Second!Max, Max

LEMMA SecondSum == ASSUME NEW f PROVE Second!SumFunction(f) = SumFunction(f)
<1>1. ASSUME NEW S PROVE Second!SumFunctionOnSet(f, S) = SumFunctionOnSet(f, S)
  BY DEF Second!SumFunctionOnSet, SumFunctionOnSet, Second!FoldFunctionOnSet,
         FoldFunctionOnSet, Second!MapThenFoldSet, MapThenFoldSet
<1> QED
  BY <1>1 DEF Second!SumFunction, SumFunction

LEMMA SecondOrdered == ASSUME NEW S, NEW R PROVE Second!Ordered(S, R) = Ordered(S, R)
<1> PICK n, m : n = Second!Cardinality(S) /\ m = Cardinality(S)
  OBVIOUS
<1>1. n = m
  BY SecondCardinality
<1>2. Second!Ordered(S, R) = CHOOSE q \in [1 .. n -> S] :
         \A k, l \in DOMAIN q : k < l => <<q[k], q[l]>> \in R
  BY DEF Second!Ordered
<1>3. Ordered(S, R) = CHOOSE q \in [1 .. m -> S] :
         \A k, l \in DOMAIN q : k < l => <<q[k], q[l]>> \in R
  BY DEF Ordered
<1> QED
  BY <1>1, <1>2, <1>3

LEMMA SecondFiltered == ASSUME NEW s, NEW S PROVE Second!Filtered(s, S) = Filtered(s, S)
BY SecondOrdered DEF Second!Filtered, Filtered

LEMMA SecondPathCost ==
  ASSUME NEW path, NEW shown
  PROVE  Second!PathCost(path, shown) = PathCost(path, shown)
BY SecondSum DEF Second!PathCost, PathCost, Second!Cost, Cost

\* The route of a request is a matter of its paths and of the load shown.
LEMMA SecondRoute ==
  ASSUME NEW i, NEW j, reqs2[i] = reqs[j], NEW shown
  PROVE  Second!Route(i, shown) = Route(j, shown) /\ (Second!Served(i) <=> Served(j))
BY SecondPathCost DEF Second!Route, Route, Second!Served, Served

\* A vehicle moves the same way under the same load.
LEMMA SecondAdvance ==
  ASSUME load2 = load, NEW veh
  PROVE  Second!advance(veh) = advance(veh) /\ (Second!Finished(veh) <=> Finished(veh))
<1>1. Second!Traverse = Traverse
  BY DEF Second!Traverse, Traverse, Second!Motion, Motion, Second!Vehicles, Vehicles,
         Second!Cost, Cost, Second!NextEdge, NextEdge, Second!Finished, Finished
<1> QED
  BY <1>1 DEF Second!advance, advance, Second!Finished, Finished

-----------------------------------------------------------------------------
(* The two runs side by side.                                               *)

\* A vehicle of the second run and the one of the first that carries its request.
Alike(p) ==
    {pair \in Vehicles \X Vehicles :
        /\ Like(pair[1], pair[2])
        /\ pair[1].request \in DOMAIN p /\ p[pair[1].request] = pair[2].request}
SameTime == {pair \in Trips \X Trips : pair[1].seconds = pair[2].seconds}

SameDemand(p) ==
    reqs2 \in Demands /\ Reorders(p, reqs2, reqs) /\ maxTicks2 = maxTicks /\ ~cancelled2
SamePlace == pc2 = pc /\ tick2 = tick /\ nextPending2 = nextPending
SameLoad == load2 = load /\ frames2 = frames /\ Range(occupied2) = Range(occupied)
SameBatch(p) ==
    /\ newlyReleased2 \in Seq(1 .. Len(reqs2))
    /\ Twins(newlyReleased2, newlyReleased, Renamed(p))
SameRoad(p) == inFlight2 \in Seq(Vehicles) /\ Twins(inFlight2, inFlight, Alike(p))
SameTrips == realized2 \in Seq(Trips) /\ Twins(realized2, realized, SameTime)

\* The departures that have been released: none before the first tick, and from the
\* release of a tick to the next all that its clock has reached.
TakenTimes ==
    IF pc # "release" THEN UpTo(Clock)
    ELSE IF tick = 1 THEN {} ELSE UpTo(Clock - TickSeconds)
TakenAlike ==
    Taken(reqs, nextPending, TakenTimes) /\ Taken(reqs2, nextPending2, TakenTimes)

SameResult ==
    /\ result2.kind = result.kind
    /\ result.kind = "result" =>
          /\ result2.ticks = result.ticks
          /\ result2.completed = result.completed
          /\ result2.released = result.released

\* The second run, whose request i is the first one's p[i], is where the first is.
SideBySide(p) ==
    /\ SameDemand(p) /\ SamePlace /\ SameLoad /\ SameBatch(p) /\ SameRoad(p) /\ SameTrips
    /\ TakenAlike /\ SameResult

LEMMA ReordersLength ==
  ASSUME NEW q \in Demands, NEW q2 \in Demands, NEW p, Reorders(p, q2, q)
  PROVE  Len(q2) = Len(q)
<1>1. \A n \in Nat : IsFiniteSet(1 .. n) /\ Cardinality(1 .. n) = n
  <2> SUFFICES ASSUME NEW n \in Nat PROVE IsFiniteSet(1 .. n) /\ Cardinality(1 .. n) = n
    OBVIOUS
  <2>1. 1 \in Int /\ n \in Int
    OBVIOUS
  <2>2. IsFiniteSet(1 .. n) /\ Cardinality(1 .. n) = IF 1 > n THEN 0 ELSE n - 1 + 1
    BY <2>1, FS_Interval
  <2> QED
    BY <2>2
<1>2. Len(q) \in Nat /\ Len(q2) \in Nat
  BY DemandsFacts
<1>3. Cardinality(1 .. Len(q)) = Cardinality(1 .. Len(q2))
  BY <1>1, <1>2, PairsSize DEF Reorders
<1> QED
  BY <1>1, <1>2, <1>3

-----------------------------------------------------------------------------
(* They start together.                                                     *)

LEMMA InitSideBySide == PairInit => \E p : SideBySide(p)
<1> SUFFICES ASSUME PairInit PROVE \E p : SideBySide(p)
  OBVIOUS
<1>1. Init /\ Second!Init /\ reqs \in Demands /\ reqs2 \in Demands
  BY DEF PairInit, Init, Second!Init
<1>2. Len(reqs) \in Nat /\ DOMAIN reqs = 1 .. Len(reqs)
  BY <1>1, DemandsFacts
<1>3. Len(reqs2) \in Nat /\ DOMAIN reqs2 = 1 .. Len(reqs2)
  BY <1>1, DemandsFacts
<1>4. PICK D : D = DOMAIN reqs
  OBVIOUS
<1>5. reqs2 \in Reordered(reqs)
  <2>1. PICK id : id = [i \in D |-> i]
    OBVIOUS
  <2>2. id \in [D -> D] /\ Range(id) = D
    BY <2>1 DEF Range
  <2>3. [i \in D |-> reqs[id[i]]] \in Reordered(reqs)
    BY <1>4, <2>2 DEF Reordered
  <2>4. \E s : s \in Reordered(reqs)
    BY <2>3
  <2>5. reqs2 = CHOOSE s \in Reordered(reqs) : TRUE
    BY DEF PairInit
  <2> QED
    BY <2>4, <2>5
<1>6. PICK p : p \in [D -> D] /\ Range(p) = D /\ reqs2 = [i \in D |-> reqs[p[i]]]
  BY <1>4, <1>5 DEF Reordered
<1>7. Pairs(p, D, D)
  <2>1. p \in Surjection(D, D)
    BY <1>6 DEF Surjection, Range
  <2>2. IsFiniteSet(D)
    BY <1>2, <1>4, UptoFinite
  <2>3. p \in Injection(D, D)
    BY <2>1, <2>2, FS_Surjection
  <2> QED
    BY <2>1, <2>3 DEF Pairs, Surjection, Injection, IsInjective
<1>8. 1 .. Len(reqs2) = D /\ 1 .. Len(reqs) = D
  BY <1>2, <1>3, <1>4, <1>6
<1>9. Reorders(p, reqs2, reqs)
  BY <1>6, <1>7, <1>8 DEF Reorders
<1>10. SameDemand(p)
  BY <1>1, <1>9 DEF SameDemand, PairInit, Second!Init
<1>11. SamePlace
  BY <1>1 DEF SamePlace, Init, Second!Init
<1>12. SameLoad
  BY <1>1 DEF SameLoad, Init, Second!Init
<1>13. SameBatch(p)
  <2>1. newlyReleased = <<>> /\ newlyReleased2 = <<>>
    BY <1>1 DEF Init, Second!Init
  <2> QED
    BY <2>1, TwinsEmpty DEF SameBatch
<1>14. SameRoad(p)
  <2>1. inFlight = <<>> /\ inFlight2 = <<>>
    BY <1>1 DEF Init, Second!Init
  <2> QED
    BY <2>1, TwinsEmpty DEF SameRoad
<1>15. SameTrips
  <2>1. realized = <<>> /\ realized2 = <<>>
    BY <1>1 DEF Init, Second!Init
  <2> QED
    BY <2>1, TwinsEmpty DEF SameTrips
<1>16. TakenAlike
  <2>1. pc = "release" /\ tick = 1 /\ nextPending = 0 /\ nextPending2 = 0
    BY <1>1 DEF Init, Second!Init
  <2>2. TakenTimes = {}
    BY <2>1 DEF TakenTimes
  <2>3. Taken(reqs, 0, {}) /\ Taken(reqs2, 0, {})
    BY <1>2, <1>3 DEF Taken
  <2> QED
    BY <2>1, <2>2, <2>3 DEF TakenAlike
<1>17. SameResult
  BY <1>1 DEF SameResult, Init, Second!Init, NoResult, Second!NoResult
<1> QED
  BY <1>10, <1>11, <1>12, <1>13, <1>14, <1>15, <1>16, <1>17 DEF SideBySide

-----------------------------------------------------------------------------
(* They release the same requests.                                          *)

LEMMA SecondSortedOrder == Second!sortedRequestOrder = DepartureOrder(reqs2)
<1>1. LeavesBefore(reqs2) = {pair \in Second!Requests \X Second!Requests : Second!Earlier(pair[1], pair[2])}
  BY DEF LeavesBefore, Second!Requests, Second!Earlier
<1> QED
  BY <1>1, SecondOrdered DEF Second!sortedRequestOrder, DepartureOrder, Second!Requests

LEMMA SecondReleaseUnfolds ==
  ASSUME Second!Release
  PROVE  /\ nextPending2' = LastDue(reqs2, nextPending2, Second!Clock)
         /\ newlyReleased2' = SubSeq(DepartureOrder(reqs2), nextPending2 + 1, nextPending2')
BY SecondSortedOrder, SecondMax DEF Second!Release, LastDue

LEMMA ReleaseSideBySide ==
  ASSUME Shape, NEW p, SideBySide(p), Release, Second!Release
  PROVE  SideBySide(p)'
<1>1. /\ UNCHANGED <<reqs, maxTicks, cancelled, tick, inFlight, realized, load, occupied, frames, result>>
      /\ pc = "release" /\ pc' = "route"
  BY DEF Release
<1>2. /\ UNCHANGED <<reqs2, maxTicks2, cancelled2, tick2, inFlight2, realized2, load2, occupied2,
                     frames2, result2>>
      /\ pc2' = "route"
  BY DEF Second!Release
<1>3. /\ reqs \in Demands /\ reqs2 \in Demands /\ Reorders(p, reqs2, reqs)
      /\ tick2 = tick /\ nextPending2 = nextPending
  BY DEF SideBySide, SameDemand, SamePlace, Shape
<1>4. PICK clock, D : clock \in Int /\ clock = Clock /\ D = TakenTimes /\ D \subseteq UpTo(clock)
  <2>1. TickSeconds \in Nat /\ tick \in Int
    BY RoadAssumption DEF RoadAssumption, Shape
  <2>2. PICK c \in Int : c = Clock
    <3>1. (tick - 1) * TickSeconds \in Int
      BY <2>1
    <3> QED
      BY <3>1 DEF Clock
  <2>3. UpTo(c - TickSeconds) \subseteq UpTo(c)
    BY <2>1 DEF UpTo
  <2>4. TakenTimes \subseteq UpTo(c)
    BY <1>1, <2>2, <2>3 DEF TakenTimes
  <2> QED
    BY <2>2, <2>4
<1>5. Second!Clock = clock
  BY <1>3, <1>4 DEF Second!Clock, Clock
<1>6. PICK n, m, m2 : n = nextPending /\ m = nextPending' /\ m2 = nextPending2'
  OBVIOUS
<1>7. Taken(reqs, n, D) /\ Taken(reqs2, n, D)
  BY <1>3, <1>4, <1>6 DEF SideBySide, TakenAlike
<1>8. m \in n .. Len(reqs) /\ Taken(reqs, m, UpTo(clock))
  <2>1. m = LastDue(reqs, n, clock)
    BY <1>4, <1>6, ReleaseUnfolds
  <2> QED
    BY <1>3, <1>4, <1>7, <2>1, ReleaseTakesDue
<1>9. m2 \in n .. Len(reqs2) /\ Taken(reqs2, m2, UpTo(clock))
  <2>1. m2 = LastDue(reqs2, n, clock)
    BY <1>3, <1>5, <1>6, SecondReleaseUnfolds
  <2> QED
    BY <1>3, <1>4, <1>7, <2>1, ReleaseTakesDue
<1>10. PICK s, t : /\ s = SubSeq(DepartureOrder(reqs2), n + 1, m2) /\ s = newlyReleased2'
                   /\ t = SubSeq(DepartureOrder(reqs), n + 1, m) /\ t = newlyReleased'
  BY <1>3, <1>6, ReleaseUnfolds, SecondReleaseUnfolds
<1>11. n \in 0 .. Len(reqs) /\ n \in 0 .. Len(reqs2) /\ Len(reqs) \in Nat /\ Len(reqs2) \in Nat
  BY <1>3, <1>7, DemandsFacts DEF Taken
<1>12. n <= m /\ n <= m2
  BY <1>8, <1>9, <1>11
<1>13. Twins(s, t, Renamed(p))
  BY <1>3, <1>7, <1>8, <1>9, <1>10, <1>12, BatchTwins
<1>14. s \in Seq(1 .. Len(reqs2)) /\ DOMAIN s = 1 .. (m2 - n)
  BY <1>3, <1>9, <1>10, <1>11, OrderPart
<1>15. t \in Seq(1 .. Len(reqs)) /\ DOMAIN t = 1 .. (m - n)
  BY <1>3, <1>8, <1>10, <1>11, OrderPart
<1>16. Len(s) = Len(t)
  BY <1>13, <1>14, <1>15, SeqListed, TwinsLength
<1>17. m2 = m
  <2>1. PICK a \in Nat, c \in Nat : a = m2 - n /\ c = m - n
    BY <1>8, <1>9, <1>11
  <2>2. Len(s) = a /\ Len(t) = c
    BY <1>14, <1>15, <2>1, LenProperties
  <2>3. a = c
    BY <1>16, <2>2
  <2> QED
    BY <1>8, <1>9, <1>11, <2>1, <2>3
<1>18. SameDemand(p)'
  BY <1>1, <1>2 DEF SideBySide, SameDemand
<1>19. SamePlace'
  BY <1>1, <1>2, <1>3, <1>6, <1>17 DEF SamePlace
<1>20. SameLoad'
  BY <1>1, <1>2 DEF SideBySide, SameLoad
<1>21. SameBatch(p)'
  BY <1>2, <1>10, <1>13, <1>14 DEF SameBatch
<1>22. SameRoad(p)'
  BY <1>1, <1>2 DEF SideBySide, SameRoad
<1>23. SameTrips'
  BY <1>1, <1>2 DEF SideBySide, SameTrips
<1>24. TakenAlike'
  <2>1. TakenTimes' = UpTo(clock)
    <3>1. Clock' = Clock
      BY <1>1 DEF Clock
    <3> QED
      BY <1>1, <1>4, <3>1 DEF TakenTimes
  <2> QED
    BY <1>1, <1>2, <1>6, <1>8, <1>9, <2>1 DEF TakenAlike
<1>25. SameResult'
  BY <1>1, <1>2 DEF SideBySide, SameResult
<1> QED
  BY <1>18, <1>19, <1>20, <1>21, <1>22, <1>23, <1>24, <1>25 DEF SideBySide

-----------------------------------------------------------------------------
(* They put the same vehicles on the road.                                  *)

\* A batch is served in both runs or in neither.
LEMMA ServedAlike ==
  ASSUME NEW p, SideBySide(p)
  PROVE  (\A i \in Range(newlyReleased) : Served(i))
            <=> (\A i \in Range(newlyReleased2) : Second!Served(i))
<1>1. Reorders(p, reqs2, reqs) /\ newlyReleased2 \in Seq(1 .. Len(reqs2))
  BY DEF SideBySide, SameDemand, SameBatch
<1>2. PICK b : Matched(newlyReleased2, newlyReleased, Renamed(p), b)
  BY DEF SideBySide, SameBatch, Twins
<1>3. ASSUME NEW k \in DOMAIN newlyReleased2
      PROVE  Second!Served(newlyReleased2[k]) <=> Served(newlyReleased[b[k]])
  <2>1. newlyReleased2[k] \in 1 .. Len(reqs2)
    BY <1>1
  <2>2. newlyReleased[b[k]] = p[newlyReleased2[k]]
    BY <1>2 DEF Matched, Renamed
  <2>3. reqs2[newlyReleased2[k]] = reqs[newlyReleased[b[k]]]
    BY <1>1, <2>1, <2>2 DEF Reorders
  <2> QED
    BY <2>3, SecondRoute
<1>4. \A l \in DOMAIN newlyReleased : \E k \in DOMAIN newlyReleased2 : b[k] = l
  BY <1>2 DEF Matched, Pairs
<1>5. \A k \in DOMAIN newlyReleased2 : b[k] \in DOMAIN newlyReleased
  BY <1>2 DEF Matched, Pairs
<1> QED
  BY <1>3, <1>4, <1>5 DEF Range

LEMMA RouteSideBySide ==
  ASSUME Shape, NEW p, SideBySide(p), RouteBatch, Second!RouteBatch
  PROVE  SideBySide(p)'
<1>1. /\ UNCHANGED <<reqs, maxTicks, cancelled, tick, nextPending, realized, load, occupied, frames, result>>
      /\ pc = "route" /\ pc' = "advance" /\ newlyReleased' = <<>>
      /\ \A i \in Range(newlyReleased) : Served(i)
  BY DEF RouteBatch
<1>2. /\ UNCHANGED <<reqs2, maxTicks2, cancelled2, tick2, nextPending2, realized2, load2,
                     occupied2, frames2, result2>>
      /\ pc2' = "advance" /\ newlyReleased2' = <<>>
  BY DEF Second!RouteBatch
<1>3. /\ reqs \in Demands /\ reqs2 \in Demands /\ Reorders(p, reqs2, reqs)
      /\ tick2 = tick /\ nextPending2 = nextPending /\ load2 = load
      /\ load \in [Edges -> Nat]
  BY DEF SideBySide, SameDemand, SamePlace, SameLoad, Shape
<1>4. /\ newlyReleased \in Seq(Requests) /\ inFlight \in Seq(Vehicles)
      /\ newlyReleased2 \in Seq(1 .. Len(reqs2)) /\ inFlight2 \in Seq(Vehicles)
  BY DEF Shape, SideBySide, SameBatch, SameRoad
<1>5. PICK b : Matched(newlyReleased2, newlyReleased, Renamed(p), b)
  BY DEF SideBySide, SameBatch, Twins
<1>6. PICK u : u = [k \in DOMAIN newlyReleased |->
                       Vehicle(newlyReleased[k], Route(newlyReleased[k], load))]
  OBVIOUS
<1>7. PICK u2 : u2 = [k \in DOMAIN newlyReleased2 |->
                         Second!Vehicle(newlyReleased2[k], Second!Route(newlyReleased2[k], load2))]
  OBVIOUS
<1>8. inFlight' = inFlight \o u /\ inFlight2' = inFlight2 \o u2
  BY <1>6, <1>7 DEF RouteBatch, Second!RouteBatch
<1>9. ASSUME NEW i \in Requests, Served(i), NEW j \in Nat, NEW w,
             w = [request |-> j, edges |-> Route(i, load), edgeIndex |-> 1, distOnEdge |-> 0,
                  experienced |-> 0]
      PROVE  w \in Vehicles
  <2>1. PICK path : path = Route(i, load)
    OBVIOUS
  <2>2. path \in Paths(reqs[i])
    BY <1>3, <1>9, <2>1, RouteServes
  <2>3. path \in Seq(Edges)
    BY <1>3, <2>2, DemandFacts
  <2> QED
    BY <1>9, <2>1, <2>3 DEF Vehicles
<1>10. ASSUME NEW k \in DOMAIN newlyReleased
       PROVE  u[k] \in Vehicles
  <2>1. newlyReleased[k] \in Requests /\ newlyReleased[k] \in Nat /\ newlyReleased[k] \in Range(newlyReleased)
    BY <1>3, <1>4, DemandFacts DEF Requests, Range
  <2> QED
    BY <1>1, <1>6, <1>9, <2>1 DEF Vehicle
<1>11. ASSUME NEW k \in DOMAIN newlyReleased2
       PROVE  u2[k] \in Vehicles /\ <<u2[k], u[b[k]]>> \in Alike(p)
  <2>1. b[k] \in DOMAIN newlyReleased
    BY <1>5 DEF Matched, Pairs
  <2>2. PICK j, i : j = newlyReleased2[k] /\ i = newlyReleased[b[k]]
    OBVIOUS
  <2>3. j \in 1 .. Len(reqs2) /\ j \in Nat
    BY <1>3, <1>4, <2>2, DemandsFacts
  <2>4. i \in Requests /\ Served(i)
    BY <1>1, <1>4, <2>1, <2>2 DEF Range
  <2>5. j \in DOMAIN p /\ i = p[j]
    BY <1>5, <2>2 DEF Matched, Renamed
  <2>6. reqs2[j] = reqs[i]
    BY <1>3, <2>3, <2>5 DEF Reorders
  <2>7. Second!Route(j, load2) = Route(i, load)
    BY <1>3, <2>6, SecondRoute
  <2>8. PICK path : path = Route(i, load)
    OBVIOUS
  <2>9. u2[k] = [request |-> j, edges |-> path, edgeIndex |-> 1, distOnEdge |-> 0, experienced |-> 0]
    BY <1>7, <2>2, <2>7, <2>8 DEF Second!Vehicle
  <2>10. u[b[k]] = [request |-> i, edges |-> path, edgeIndex |-> 1, distOnEdge |-> 0, experienced |-> 0]
    BY <1>6, <2>1, <2>2, <2>8 DEF Vehicle
  <2>11. u2[k] \in Vehicles /\ u[b[k]] \in Vehicles
    BY <1>9, <1>10, <2>1, <2>3, <2>4, <2>8, <2>9
  <2>12. PICK w2, w : w2 = u2[k] /\ w = u[b[k]]
    OBVIOUS
  <2>13. Like(w2, w) /\ w2.request = j /\ w.request = i
    BY <2>9, <2>10, <2>12 DEF Like
  <2>14. <<w2, w>> \in Alike(p)
    BY <2>5, <2>11, <2>12, <2>13 DEF Alike
  <2> QED
    BY <2>11, <2>12, <2>14
<1>12. u \in Seq(Vehicles) /\ u2 \in Seq(Vehicles)
  <2>1. DOMAIN newlyReleased = 1 .. Len(newlyReleased) /\ Len(newlyReleased) \in Nat
    BY <1>4, LenProperties
  <2>2. DOMAIN newlyReleased2 = 1 .. Len(newlyReleased2) /\ Len(newlyReleased2) \in Nat
    BY <1>4, LenProperties
  <2>3. u = [k \in 1 .. Len(newlyReleased) |-> u[k]]
    BY <1>6, <2>1
  <2>4. u2 = [k \in 1 .. Len(newlyReleased2) |-> u2[k]]
    BY <1>7, <2>2
  <2>5. [k \in 1 .. Len(newlyReleased) |-> u[k]] \in Seq(Vehicles)
    BY <1>10, <2>1, IsASeq
  <2>6. [k \in 1 .. Len(newlyReleased2) |-> u2[k]] \in Seq(Vehicles)
    <3>1. \A k \in 1 .. Len(newlyReleased2) : u2[k] \in Vehicles
      BY <1>11, <2>2
    <3>2. PICK n \in Nat : n = Len(newlyReleased2)
      BY <2>2
    <3> QED
      BY <3>1, <3>2, IsASeq
  <2> QED
    BY <2>3, <2>4, <2>5, <2>6
<1>13. Twins(u2, u, Alike(p))
  <2>1. DOMAIN u2 = DOMAIN newlyReleased2 /\ DOMAIN u = DOMAIN newlyReleased
    BY <1>6, <1>7
  <2>2. Matched(u2, u, Alike(p), b)
    BY <1>5, <1>11, <2>1 DEF Matched
  <2> QED
    BY <2>2 DEF Twins
<1>14. SameRoad(p)'
  <2>1. Twins(inFlight2, inFlight, Alike(p))
    BY DEF SideBySide, SameRoad
  <2>2. Twins(inFlight2 \o u2, inFlight \o u, Alike(p))
    BY <1>4, <1>12, <1>13, <2>1, TwinsJoin
  <2>3. inFlight2 \o u2 \in Seq(Vehicles)
    BY <1>4, <1>12, ConcatProperties
  <2> QED
    BY <1>8, <2>2, <2>3 DEF SameRoad
<1>15. SameDemand(p)'
  BY <1>1, <1>2 DEF SideBySide, SameDemand
<1>16. SamePlace'
  BY <1>1, <1>2, <1>3 DEF SamePlace
<1>17. SameLoad'
  BY <1>1, <1>2 DEF SideBySide, SameLoad
<1>18. SameBatch(p)'
  BY <1>1, <1>2, TwinsEmpty DEF SameBatch
<1>19. SameTrips'
  BY <1>1, <1>2 DEF SideBySide, SameTrips
<1>20. TakenAlike'
  <2>1. TakenTimes' = TakenTimes
    BY <1>1 DEF TakenTimes, Clock
  <2> QED
    BY <1>1, <1>2, <2>1 DEF SideBySide, TakenAlike
<1>21. SameResult'
  BY <1>1, <1>2 DEF SideBySide, SameResult
<1> QED
  BY <1>14, <1>15, <1>16, <1>17, <1>18, <1>19, <1>20, <1>21 DEF SideBySide

\* They fail together.
LEMMA FailSideBySide ==
  ASSUME NEW p, SideBySide(p), RouteFails, Second!RouteFails
  PROVE  SideBySide(p)'
<1>1. /\ UNCHANGED <<reqs, maxTicks, cancelled, tick, nextPending, newlyReleased, inFlight, realized,
                     load, occupied, frames>>
      /\ pc = "route" /\ pc' = "returned" /\ result'.kind = "error"
  BY DEF RouteFails, Fail, Error
<1>2. /\ UNCHANGED <<reqs2, maxTicks2, cancelled2, tick2, nextPending2, newlyReleased2, inFlight2,
                     realized2, load2, occupied2, frames2>>
      /\ pc2' = "returned" /\ result2'.kind = "error"
  BY DEF Second!RouteFails, Second!Fail, Second!Error
<1>3. SameDemand(p)' /\ SameLoad' /\ SameBatch(p)' /\ SameRoad(p)' /\ SameTrips'
  BY <1>1, <1>2 DEF SideBySide, SameDemand, SameLoad, SameBatch, SameRoad, SameTrips
<1>4. SamePlace'
  BY <1>1, <1>2 DEF SideBySide, SamePlace
<1>5. TakenAlike'
  <2>1. TakenTimes' = TakenTimes
    BY <1>1 DEF TakenTimes, Clock
  <2> QED
    BY <1>1, <1>2, <2>1 DEF SideBySide, TakenAlike
<1>6. SameResult'
  BY <1>1, <1>2 DEF SameResult
<1> QED
  BY <1>3, <1>4, <1>5, <1>6 DEF SideBySide

-----------------------------------------------------------------------------
(* They move alike, and the same trips end.                                 *)

LEMMA AdvanceSideBySide ==
  ASSUME Shape, OnTheRoad, NEW p, SideBySide(p), Advance, Second!Advance
  PROVE  SideBySide(p)'
<1>1. /\ UNCHANGED <<reqs, maxTicks, cancelled, tick, nextPending, newlyReleased, load, occupied,
                     frames, result>>
      /\ pc = "advance" /\ pc' = "settle"
  BY DEF Advance
<1>2. /\ UNCHANGED <<reqs2, maxTicks2, cancelled2, tick2, nextPending2, newlyReleased2, load2,
                     occupied2, frames2, result2>>
      /\ pc2' = "settle"
  BY DEF Second!Advance
<1>3. load \in [Edges -> Nat] /\ load2 = load /\ tick2 = tick /\ nextPending2 = nextPending
  BY DEF SideBySide, SamePlace, SameLoad, Shape
<1>4. /\ inFlight \in Seq(Vehicles) /\ realized \in Seq(Trips)
      /\ inFlight2 \in Seq(Vehicles) /\ realized2 \in Seq(Trips)
  BY DEF Shape, SideBySide, SameRoad, SameTrips
<1>5. PICK b : Matched(inFlight2, inFlight, Alike(p), b)
  BY DEF SideBySide, SameRoad, Twins
<1> DEFINE moved == [k \in DOMAIN inFlight |-> advance(inFlight[k])]
           gone  == {k \in DOMAIN moved : Finished(moved[k])}
           trips == [k \in DOMAIN moved |-> [request |-> moved[k].request,
                                             seconds |-> moved[k].experienced]]
           moved2 == [k \in DOMAIN inFlight2 |-> advance(inFlight2[k])]
           gone2  == {k \in DOMAIN moved2 : Finished(moved2[k])}
           trips2 == [k \in DOMAIN moved2 |-> [request |-> moved2[k].request,
                                               seconds |-> moved2[k].experienced]]
<1>6. /\ inFlight' = Filtered(moved, DOMAIN moved \ gone)
      /\ realized' = realized \o Filtered(trips, gone)
  BY DEF Advance
<1>7. /\ inFlight2' = Filtered(moved2, DOMAIN moved2 \ gone2)
      /\ realized2' = realized2 \o Filtered(trips2, gone2)
  <2> DEFINE m == [k \in DOMAIN inFlight2 |-> Second!advance(inFlight2[k])]
             g == {k \in DOMAIN m : Second!Finished(m[k])}
             t == [k \in DOMAIN m |-> [request |-> m[k].request, seconds |-> m[k].experienced]]
  <2>1. /\ inFlight2' = Second!Filtered(m, DOMAIN m \ g)
        /\ realized2' = realized2 \o Second!Filtered(t, g)
    BY DEF Second!Advance
  <2>2. m = moved2
    BY <1>3, SecondAdvance
  <2>3. g = gone2
    BY <1>3, <2>2, SecondAdvance
  <2>4. t = trips2
    BY <2>2
  <2> HIDE DEF m, g, t, moved2, gone2, trips2
  <2> QED
    BY <2>1, <2>2, <2>3, <2>4, SecondFiltered
<1>8. ASSUME NEW k \in DOMAIN inFlight
      PROVE  moved[k] \in Vehicles /\ SameTrip(moved[k], inFlight[k])
  <2>1. PICK v \in Vehicles : v = inFlight[k] /\ Placed(v)
    BY <1>4, <1>8 DEF OnTheRoad, OnPath
  <2>2. Moved(advance(v), v)
    BY <1>3, <2>1, AdvanceMoves
  <2> QED
    BY <2>1, <2>2 DEF Moved
<1>9. ASSUME NEW k \in DOMAIN inFlight2
      PROVE  /\ moved2[k] \in Vehicles /\ b[k] \in DOMAIN inFlight
             /\ <<moved2[k], moved[b[k]]>> \in Alike(p)
             /\ Finished(moved2[k]) <=> Finished(moved[b[k]])
  <2>1. b[k] \in DOMAIN inFlight /\ <<inFlight2[k], inFlight[b[k]]>> \in Alike(p)
    BY <1>5 DEF Matched, Pairs
  <2>2. PICK v2 \in Vehicles, v \in Vehicles : v2 = inFlight2[k] /\ v = inFlight[b[k]]
    BY <2>1 DEF Alike
  <2>3. Like(v2, v) /\ v2.request \in DOMAIN p /\ p[v2.request] = v.request
    BY <2>1, <2>2 DEF Alike
  <2>4. Placed(v)
    BY <2>1, <2>2 DEF OnTheRoad, OnPath
  <2>5. Placed(v2)
    BY <2>3, <2>4, LikePlaced
  <2>6. PICK w2, w : w2 = advance(v2) /\ w = advance(v)
    OBVIOUS
  <2>7. Moved(w2, v2) /\ Moved(w, v)
    BY <1>3, <2>4, <2>5, <2>6, AdvanceMoves
  <2>8. Like(w2, w)
    BY <1>3, <2>3, <2>4, <2>6, AdvanceLike
  <2>9. /\ w2 \in Vehicles /\ w \in Vehicles
        /\ w2.request = v2.request /\ w.request = v.request
    BY <2>7 DEF Moved, SameTrip
  <2>10. <<w2, w>> \in Alike(p)
    BY <2>3, <2>8, <2>9 DEF Alike
  <2>11. Finished(w2) <=> Finished(w)
    BY <2>8, <2>9, LikePlaced
  <2>12. moved2[k] = w2 /\ moved[b[k]] = w
    BY <2>1, <2>2, <2>6
  <2> HIDE DEF moved, moved2
  <2> QED
    BY <2>1, <2>9, <2>10, <2>11, <2>12
<1>10. /\ DOMAIN moved = DOMAIN inFlight /\ DOMAIN moved2 = DOMAIN inFlight2
       /\ DOMAIN trips = DOMAIN inFlight /\ DOMAIN trips2 = DOMAIN inFlight2
  OBVIOUS
<1>11. /\ gone \in SUBSET DOMAIN inFlight /\ gone2 \in SUBSET DOMAIN inFlight2
       /\ \A k \in DOMAIN inFlight : k \in gone <=> Finished(moved[k])
       /\ \A k \in DOMAIN inFlight2 : k \in gone2 <=> Finished(moved2[k])
  OBVIOUS
<1>12. /\ \A k \in DOMAIN inFlight : trips[k] = [request |-> moved[k].request,
                                                  seconds |-> moved[k].experienced]
       /\ \A k \in DOMAIN inFlight2 : trips2[k] = [request |-> moved2[k].request,
                                                    seconds |-> moved2[k].experienced]
  OBVIOUS
<1>13. /\ moved = [k \in DOMAIN inFlight |-> moved[k]] /\ moved2 = [k \in DOMAIN inFlight2 |-> moved2[k]]
       /\ trips = [k \in DOMAIN inFlight |-> trips[k]] /\ trips2 = [k \in DOMAIN inFlight2 |-> trips2[k]]
  OBVIOUS
<1> HIDE DEF moved, moved2, gone, gone2, trips, trips2
<1>14. /\ DOMAIN inFlight = 1 .. Len(inFlight) /\ Len(inFlight) \in Nat
       /\ DOMAIN inFlight2 = 1 .. Len(inFlight2) /\ Len(inFlight2) \in Nat
  BY <1>4, LenProperties
<1>15. PICK n \in Nat, n2 \in Nat : n = Len(inFlight) /\ n2 = Len(inFlight2)
  BY <1>14
<1> DEFINE Trip(v) == [request |-> v.request, seconds |-> v.experienced]
<1>31. \A v \in Vehicles : Trip(v) \in Trips /\ Trip(v).seconds = v.experienced
  BY DEF Vehicles, Trips
<1>32. /\ \A k \in DOMAIN inFlight : trips[k] = Trip(moved[k])
       /\ \A k \in DOMAIN inFlight2 : trips2[k] = Trip(moved2[k])
  BY <1>12
<1> HIDE DEF Trip
<1>16. \A k \in 1 .. n : moved[k] \in Vehicles /\ trips[k] \in Trips
  BY <1>8, <1>14, <1>15, <1>31, <1>32
<1>17. \A k \in 1 .. n2 : moved2[k] \in Vehicles /\ trips2[k] \in Trips
  BY <1>9, <1>14, <1>15, <1>31, <1>32
<1>18. moved \in Seq(Vehicles) /\ trips \in Seq(Trips)
  <2>1. [k \in 1 .. n |-> moved[k]] \in Seq(Vehicles) /\ [k \in 1 .. n |-> trips[k]] \in Seq(Trips)
    BY <1>16, IsASeq
  <2> QED
    BY <1>13, <1>14, <1>15, <2>1
<1>19. moved2 \in Seq(Vehicles) /\ trips2 \in Seq(Trips)
  <2>1. [k \in 1 .. n2 |-> moved2[k]] \in Seq(Vehicles) /\ [k \in 1 .. n2 |-> trips2[k]] \in Seq(Trips)
    BY <1>17, IsASeq
  <2> QED
    BY <1>13, <1>14, <1>15, <2>1
<1>20. Pairs(b, DOMAIN inFlight2, DOMAIN inFlight)
  BY <1>5 DEF Matched
<1>21. \A k \in DOMAIN inFlight2 : b[k] \in DOMAIN inFlight /\ (k \in gone2 <=> b[k] \in gone)
  BY <1>9, <1>11
<1>22. PICK stay, stay2 : /\ stay = DOMAIN moved \ gone
                          /\ stay2 = DOMAIN moved2 \ gone2
  OBVIOUS
<1>23. SameRoad(p)'
  <2>1. stay \in SUBSET DOMAIN moved /\ stay2 \in SUBSET DOMAIN moved2
    BY <1>22
  <2>2. \A k \in DOMAIN moved2 : k \in stay2 <=> b[k] \in stay
    BY <1>10, <1>21, <1>22
  <2>3. \A k \in stay2 : <<moved2[k], moved[b[k]]>> \in Alike(p)
    BY <1>9, <1>10, <2>1
  <2>4. Twins(Filtered(moved2, stay2), Filtered(moved, stay), Alike(p))
    BY <1>10, <1>18, <1>19, <1>20, <2>1, <2>2, <2>3, TwinsFilter
  <2>5. Filtered(moved2, stay2) \in Seq(Vehicles)
    <3>1. stay2 \in SUBSET (1 .. Len(moved2))
      BY <1>19, <2>1, LenProperties
    <3> QED
      BY <1>19, <3>1, FilteredKeeps
  <2> QED
    BY <1>6, <1>7, <1>22, <2>4, <2>5 DEF SameRoad
<1>24. SameTrips'
  <2>1. gone \in SUBSET DOMAIN trips /\ gone2 \in SUBSET DOMAIN trips2
    BY <1>10, <1>11
  <2>2. \A k \in DOMAIN trips2 : k \in gone2 <=> b[k] \in gone
    BY <1>10, <1>21
  <2>3. ASSUME NEW k \in gone2 PROVE <<trips2[k], trips[b[k]]>> \in SameTime
    <3>1. k \in DOMAIN inFlight2 /\ b[k] \in DOMAIN inFlight
      BY <1>10, <1>21, <2>1
    <3>2. trips2[k] \in Trips /\ trips[b[k]] \in Trips
      BY <1>14, <1>15, <1>16, <1>17, <3>1
    <3>3. trips2[k].seconds = moved2[k].experienced /\ trips[b[k]].seconds = moved[b[k]].experienced
      BY <1>8, <1>9, <1>31, <1>32, <3>1
    <3>4. Like(moved2[k], moved[b[k]])
      BY <1>9, <3>1 DEF Alike
    <3>5. trips2[k].seconds = trips[b[k]].seconds
      BY <3>3, <3>4 DEF Like
    <3> QED
      BY <3>2, <3>5 DEF SameTime
  <2>4. Twins(Filtered(trips2, gone2), Filtered(trips, gone), SameTime)
    BY <1>10, <1>18, <1>19, <1>20, <2>1, <2>2, <2>3, TwinsFilter
  <2>5. Filtered(trips2, gone2) \in Seq(Trips) /\ Filtered(trips, gone) \in Seq(Trips)
    <3>1. gone2 \in SUBSET (1 .. Len(trips2)) /\ gone \in SUBSET (1 .. Len(trips))
      BY <1>18, <1>19, <2>1, LenProperties
    <3> QED
      BY <1>18, <1>19, <3>1, FilteredKeeps
  <2>6. Twins(realized2, realized, SameTime)
    BY DEF SideBySide, SameTrips
  <2>7. PICK f2, f : f2 = Filtered(trips2, gone2) /\ f = Filtered(trips, gone)
    OBVIOUS
  <2>8. Twins(realized2 \o f2, realized \o f, SameTime)
    BY <1>4, <2>4, <2>5, <2>6, <2>7, TwinsJoin
  <2>9. realized2 \o f2 \in Seq(Trips)
    BY <1>4, <2>5, <2>7, ConcatProperties
  <2> QED
    BY <1>6, <1>7, <2>7, <2>8, <2>9 DEF SameTrips
<1>25. SameDemand(p)'
  BY <1>1, <1>2 DEF SideBySide, SameDemand
<1>26. SamePlace'
  BY <1>1, <1>2, <1>3 DEF SamePlace
<1>27. SameLoad'
  BY <1>1, <1>2 DEF SideBySide, SameLoad
<1>28. SameBatch(p)'
  BY <1>1, <1>2 DEF SideBySide, SameBatch
<1>29. TakenAlike'
  <2>1. TakenTimes' = TakenTimes
    BY <1>1 DEF TakenTimes, Clock
  <2> QED
    BY <1>1, <1>2, <2>1 DEF SideBySide, TakenAlike
<1>30. SameResult'
  BY <1>1, <1>2 DEF SideBySide, SameResult
<1> QED
  BY <1>23, <1>24, <1>25, <1>26, <1>27, <1>28, <1>29, <1>30 DEF SideBySide

-----------------------------------------------------------------------------
(* They leave the same load behind, and end the run at the same tick.       *)

LEMMA WeightAlike ==
  ASSUME Shape, OnTheRoad, NEW p, SideBySide(p), NEW e
  PROVE  Second!WeightOn(inFlight2, e) = WeightOn(inFlight, e)
<1> DEFINE f2 == [k \in DOMAIN inFlight2 |->
                    IF inFlight2[k].edges[inFlight2[k].edgeIndex] = e
                    THEN Second!RequestWeight(inFlight2[k].request) ELSE 0]
           f == WeightTerms(inFlight, e)
           S2 == DOMAIN inFlight2
           S == DOMAIN inFlight
<1>1. /\ reqs \in Demands /\ Reorders(p, reqs2, reqs)
      /\ inFlight \in Seq(Vehicles) /\ inFlight2 \in Seq(Vehicles)
  BY DEF Shape, SideBySide, SameDemand, SameRoad
<1>2. PICK b : Matched(inFlight2, inFlight, Alike(p), b)
  BY DEF SideBySide, SameRoad, Twins
<1>3. IsFiniteSet(S2)
  BY <1>1, LenProperties, UptoFinite
<1>4. \A k \in S : f[k] \in Int
  <2> SUFFICES ASSUME NEW k \in S PROVE f[k] \in Int
    OBVIOUS
  <2>1. inFlight[k].request \in Requests
    BY DEF OnTheRoad, OnPath
  <2>2. RequestWeight(inFlight[k].request) \in Int
    BY <1>1, <2>1, WeightType
  <2> QED
    BY <2>2 DEF WeightTerms
<1>5. ASSUME NEW k \in S2 PROVE b[k] \in S /\ f[b[k]] = f2[k]
  <2>1. b[k] \in S /\ <<inFlight2[k], inFlight[b[k]]>> \in Alike(p)
    BY <1>2 DEF Matched, Pairs
  <2>2. PICK v2 \in Vehicles, v \in Vehicles : v2 = inFlight2[k] /\ v = inFlight[b[k]]
    BY <2>1 DEF Alike
  <2>3. Like(v2, v) /\ v2.request \in DOMAIN p /\ p[v2.request] = v.request
    BY <2>1, <2>2 DEF Alike
  <2>4. reqs2[v2.request] = reqs[v.request]
    BY <1>1, <2>3 DEF Reorders, Pairs
  <2>5. Second!RequestWeight(v2.request) = RequestWeight(v.request)
    BY <2>4 DEF Second!RequestWeight, RequestWeight
  <2>6. f2[k] = IF v2.edges[v2.edgeIndex] = e THEN Second!RequestWeight(v2.request) ELSE 0
    BY <2>2
  <2>7. f[b[k]] = IF v.edges[v.edgeIndex] = e THEN RequestWeight(v.request) ELSE 0
    BY <2>1, <2>2 DEF WeightTerms
  <2>8. v2.edges[v2.edgeIndex] = v.edges[v.edgeIndex]
    BY <2>3 DEF Like
  <2> HIDE DEF f2, f
  <2> QED
    BY <2>1, <2>5, <2>6, <2>7, <2>8
<1>6. WeightOn(inFlight, e) = SumFunctionOnSet(f, S)
  <2>1. DOMAIN f = S
    BY DEF WeightTerms
  <2>2. WeightOn(inFlight, e) = SumFunction(f)
    BY DEF WeightOn, WeightTerms
  <2> HIDE DEF f, S
  <2> QED
    BY <2>1, <2>2 DEF SumFunction
<1>7. Second!WeightOn(inFlight2, e) = SumFunctionOnSet(f2, S2)
  <2>1. DOMAIN f2 = S2
    OBVIOUS
  <2>2. Second!WeightOn(inFlight2, e) = Second!SumFunction(f2)
    BY DEF Second!WeightOn
  <2> HIDE DEF f2, S2
  <2> QED
    BY <2>1, <2>2, SecondSum DEF SumFunction
<1>8. Pairs(b, S2, S)
  BY <1>2 DEF Matched
<1> HIDE DEF f, f2, S, S2
<1>9. \A k \in S2 : f2[k] \in Int /\ f[b[k]] = f2[k]
  BY <1>4, <1>5
<1>10. SumFunctionOnSet(f2, S2) = SumFunctionOnSet(f, S)
  BY <1>3, <1>8, <1>9, SumReindexed
<1> QED
  BY <1>6, <1>7, <1>10

\* The edges somebody stands on are the same.
LEMMA StandingAlike ==
  ASSUME NEW p, SideBySide(p)
  PROVE  Range(Second!Standing(inFlight2)) = Range(Standing(inFlight))
<1>1. PICK b : Matched(inFlight2, inFlight, Alike(p), b)
  BY DEF SideBySide, SameRoad, Twins
<1> DEFINE at2(k) == inFlight2[k].edges[inFlight2[k].edgeIndex]
           at(k) == inFlight[k].edges[inFlight[k].edgeIndex]
<1>2. Range(Second!Standing(inFlight2)) = {at2(k) : k \in DOMAIN inFlight2}
  BY DEF Second!Standing, Range
<1>3. Range(Standing(inFlight)) = {at(k) : k \in DOMAIN inFlight}
  BY DEF Standing, Range
<1>4. \A k \in DOMAIN inFlight2 : b[k] \in DOMAIN inFlight /\ at2(k) = at(b[k])
  BY <1>1 DEF Matched, Pairs, Alike, Like
<1>5. \A l \in DOMAIN inFlight : \E k \in DOMAIN inFlight2 : b[k] = l
  BY <1>1 DEF Matched, Pairs
<1> HIDE DEF at, at2
<1> QED
  BY <1>2, <1>3, <1>4, <1>5

LEMMA SettleSideBySide ==
  ASSUME Shape, OnTheRoad, NEW p, SideBySide(p), Settle, Second!Settle
  PROVE  SideBySide(p)'
<1>1. /\ UNCHANGED <<reqs, maxTicks, cancelled, nextPending, newlyReleased, inFlight, realized>>
      /\ pc = "settle" /\ load' = loadFromVehicles(inFlight) /\ occupied' = Standing(inFlight)
      /\ frames' = Append(frames, buildTickState)
  BY DEF Settle
<1>2. /\ UNCHANGED <<reqs2, maxTicks2, cancelled2, nextPending2, newlyReleased2, inFlight2, realized2>>
      /\ load2' = Second!loadFromVehicles(inFlight2) /\ occupied2' = Second!Standing(inFlight2)
      /\ frames2' = Append(frames2, Second!buildTickState)
  BY DEF Second!Settle
<1>3. /\ reqs \in Demands /\ reqs2 \in Demands /\ Reorders(p, reqs2, reqs) /\ maxTicks2 = maxTicks
      /\ tick2 = tick /\ nextPending2 = nextPending /\ load2 = load /\ frames2 = frames
      /\ Range(occupied2) = Range(occupied)
  BY DEF SideBySide, SameDemand, SamePlace, SameLoad, Shape
<1>4. /\ inFlight \in Seq(Vehicles) /\ realized \in Seq(Trips)
      /\ inFlight2 \in Seq(Vehicles) /\ realized2 \in Seq(Trips)
  BY DEF Shape, SideBySide, SameRoad, SameTrips
<1>5. /\ Len(inFlight2) = Len(inFlight) /\ Len(realized2) = Len(realized)
      /\ Len(reqs2) = Len(reqs)
  <2>1. Twins(inFlight2, inFlight, Alike(p)) /\ Twins(realized2, realized, SameTime)
    BY DEF SideBySide, SameRoad, SameTrips
  <2>2. Listed(inFlight2) /\ Listed(inFlight) /\ Listed(realized2) /\ Listed(realized)
    BY <1>4, SeqListed
  <2>3. Len(inFlight2) = Len(inFlight)
    BY <2>1, <2>2, TwinsLength
  <2>4. Len(realized2) = Len(realized)
    BY <2>1, <2>2, TwinsLength
  <2> QED
    BY <1>3, <2>3, <2>4, ReordersLength
<1>6. inFlight = <<>> <=> inFlight2 = <<>>
  <2>1. inFlight = <<>> <=> Len(inFlight) = 0
    BY <1>4, EmptySeq
  <2>2. inFlight2 = <<>> <=> Len(inFlight2) = 0
    BY <1>4, EmptySeq
  <2> QED
    BY <1>5, <2>1, <2>2
<1>7. SameLoad'
  <2>1. loadFromVehicles(inFlight) = Second!loadFromVehicles(inFlight2)
    <3>1. \A e \in Edges : Second!WeightOn(inFlight2, e) = WeightOn(inFlight, e)
      BY WeightAlike
    <3>2. Second!Range(occupied2) = Range(occupied)
      BY <1>3, SecondRange
    <3> QED
      BY <1>3, <3>1, <3>2 DEF loadFromVehicles, Second!loadFromVehicles
  <2>2. buildTickState = Second!buildTickState
    BY <1>3, <1>5 DEF buildTickState, Second!buildTickState
  <2>3. Range(occupied2)' = Range(occupied)'
    BY <1>1, <1>2, StandingAlike
  <2> QED
    BY <1>1, <1>2, <1>3, <2>1, <2>2, <2>3 DEF SameLoad
<1>8. SameDemand(p)'
  BY <1>1, <1>2 DEF SideBySide, SameDemand
<1>9. SameBatch(p)'
  BY <1>1, <1>2 DEF SideBySide, SameBatch
<1>10. SameRoad(p)'
  BY <1>1, <1>2 DEF SideBySide, SameRoad
<1>11. SameTrips'
  BY <1>1, <1>2 DEF SideBySide, SameTrips
<1>12. PICK n, home : n = nextPending /\ home = Len(realized)
  OBVIOUS
<1>13. \/ /\ tick' = tick /\ tick2' = tick /\ pc' = "returned" /\ pc2' = "returned" /\ SameResult'
       \/ /\ tick' = tick + 1 /\ tick2' = tick + 1 /\ pc' = "release" /\ pc2' = "release"
          /\ SameResult'
  <2>1. tick \in Nat /\ maxTicks \in Nat
    BY DEF Shape
  <2>2. ASSUME NEW t, result' = SimResult(t), result2' = Second!SimResult(t)
        PROVE  SameResult'
    <3>1. result'.kind = "result" /\ result'.ticks = t /\ result'.completed = home /\ result'.released = n
      BY <1>12, <2>2 DEF SimResult
    <3>2. result2'.kind = "result" /\ result2'.ticks = t /\ result2'.completed = home /\ result2'.released = n
      BY <1>3, <1>5, <1>12, <2>2 DEF Second!SimResult
    <3> QED
      BY <3>1, <3>2 DEF SameResult
  <2>3. CASE inFlight = <<>> /\ nextPending >= Len(reqs)
    <3>1. result' = SimResult(tick) /\ pc' = "returned" /\ tick' = tick
      <4>1. nextPending \in Nat /\ Len(reqs) \in Nat
        BY <1>3, DemandsFacts DEF Shape
      <4> QED
        BY <2>3, <4>1 DEF Settle
    <3>2. result2' = Second!SimResult(tick) /\ pc2' = "returned" /\ tick2' = tick
      <4>1. nextPending2 \in Nat /\ Len(reqs2) \in Nat
        BY <1>3, DemandsFacts DEF Shape
      <4>2. inFlight2 = <<>> /\ nextPending2 >= Len(reqs2)
        BY <1>3, <1>5, <1>6, <2>3
      <4> QED
        BY <1>3, <4>1, <4>2 DEF Second!Settle
    <3> QED
      BY <2>2, <3>1, <3>2
  <2>4. CASE ~(inFlight = <<>> /\ nextPending >= Len(reqs)) /\ tick = maxTicks
    <3>1. result' = SimResult(maxTicks) /\ pc' = "returned" /\ tick' = tick
      BY <2>1, <2>4 DEF Settle
    <3>2. result2' = Second!SimResult(maxTicks) /\ pc2' = "returned" /\ tick2' = tick
      <4>1. ~(inFlight2 = <<>> /\ nextPending2 >= Len(reqs2)) /\ tick2 = maxTicks2
        BY <1>3, <1>5, <1>6, <2>4
      <4> QED
        BY <1>3, <2>1, <4>1 DEF Second!Settle
    <3> QED
      BY <2>2, <3>1, <3>2
  <2>5. CASE ~(inFlight = <<>> /\ nextPending >= Len(reqs)) /\ tick # maxTicks
    <3>1. result' = result /\ pc' = "release" /\ tick' = tick + 1
      BY <2>5 DEF Settle
    <3>2. result2' = result2 /\ pc2' = "release" /\ tick2' = tick + 1
      <4>1. ~(inFlight2 = <<>> /\ nextPending2 >= Len(reqs2)) /\ tick2 # maxTicks2
        BY <1>3, <1>5, <1>6, <2>5
      <4> QED
        BY <1>3, <4>1 DEF Second!Settle
    <3>3. SameResult'
      BY <3>1, <3>2 DEF SideBySide, SameResult
    <3> QED
      BY <3>1, <3>2, <3>3
  <2> QED
    BY <2>3, <2>4, <2>5
<1>14. SamePlace'
  BY <1>1, <1>2, <1>3, <1>13 DEF SamePlace
<1>15. TakenAlike'
  <2>1. TickSeconds \in Nat /\ tick \in Nat /\ tick > 0
    BY RoadAssumption DEF RoadAssumption, Shape
  <2>2. TakenTimes = UpTo(Clock)
    BY <1>1 DEF TakenTimes
  <2>3. TakenTimes' = UpTo(Clock)
    <3>1. CASE pc' = "returned" /\ tick' = tick
      BY <3>1 DEF TakenTimes, Clock
    <3>2. CASE pc' = "release" /\ tick' = tick + 1
      <4>1. PICK c \in Int, s \in Nat : c = (tick - 1) * TickSeconds /\ s = TickSeconds
        <5>1. (tick - 1) * TickSeconds \in Int
          BY <2>1
        <5> QED
          BY <2>1, <5>1
      <4>2. (tick' - 1) * TickSeconds = c + s
        <5>1. tick' - 1 = (tick - 1) + 1
          BY <2>1, <3>2
        <5>2. ((tick - 1) + 1) * s = (tick - 1) * s + s
          BY <2>1
        <5> QED
          BY <4>1, <5>1, <5>2
      <4>3. Clock' - TickSeconds = c /\ Clock = c
        BY <4>1, <4>2 DEF Clock
      <4>4. tick' # 1
        BY <2>1, <3>2
      <4>5. TakenTimes' = UpTo(Clock' - TickSeconds)
        BY <3>2, <4>4 DEF TakenTimes
      <4> QED
        BY <4>3, <4>5
    <3> QED
      BY <1>13, <3>1, <3>2
  <2> QED
    BY <1>1, <1>2, <2>2, <2>3 DEF SideBySide, TakenAlike
<1>16. SameResult'
  BY <1>13
<1> QED
  BY <1>7, <1>8, <1>9, <1>10, <1>11, <1>14, <1>15, <1>16 DEF SideBySide

-----------------------------------------------------------------------------
(* Until they are cancelled.                                                *)

\* The first run keeps its invariant, and the second stays at its side.
PairInv == IInv /\ (~cancelled => \E p : SideBySide(p))

LEMMA StepSideBySide ==
  ASSUME Shape, OnTheRoad, ~cancelled, NEW p, SideBySide(p), Step, Second!Step
  PROVE  SideBySide(p)'
<1>1. ~cancelled2 /\ pc2 = pc
  BY DEF SideBySide, SameDemand, SamePlace
<1>2. Release \/ RouteBatch \/ RouteFails \/ Advance \/ Settle
  BY DEF Step, StopCancelled
<1>3. Second!Release \/ Second!RouteBatch \/ Second!RouteFails \/ Second!Advance \/ Second!Settle
  BY <1>1 DEF Second!Step, Second!StopCancelled
<1>4. CASE Release
  <2>1. Second!Release
    BY <1>1, <1>3, <1>4 DEF Release, Second!RouteBatch, Second!RouteFails, Second!Advance, Second!Settle
  <2> QED
    BY <1>4, <2>1, ReleaseSideBySide
<1>5. CASE RouteBatch
  <2>1. Second!RouteBatch \/ Second!RouteFails
    BY <1>1, <1>3, <1>5 DEF RouteBatch, Second!Release, Second!Advance, Second!Settle
  <2>2. \A i \in Range(newlyReleased2) : Second!Served(i)
    BY <1>5, ServedAlike DEF RouteBatch
  <2>3. ~Second!RouteFails
    BY <1>1, <2>2, SecondRange DEF Second!RouteFails
  <2> QED
    BY <1>5, <2>1, <2>3, RouteSideBySide
<1>6. CASE RouteFails
  <2>1. Second!RouteBatch \/ Second!RouteFails
    BY <1>1, <1>3, <1>6 DEF RouteFails, Second!Release, Second!Advance, Second!Settle
  <2>2. ~(\A i \in Range(newlyReleased2) : Second!Served(i))
    BY <1>6, ServedAlike DEF RouteFails
  <2>3. ~Second!RouteBatch
    BY <2>2, SecondRange DEF Second!RouteBatch
  <2> QED
    BY <1>6, <2>1, <2>3, FailSideBySide
<1>7. CASE Advance
  <2>1. Second!Advance
    BY <1>1, <1>3, <1>7 DEF Advance, Second!Release, Second!RouteBatch, Second!RouteFails, Second!Settle
  <2> QED
    BY <1>7, <2>1, AdvanceSideBySide
<1>8. CASE Settle
  <2>1. Second!Settle
    BY <1>1, <1>3, <1>8 DEF Settle, Second!Release, Second!RouteBatch, Second!RouteFails, Second!Advance
  <2> QED
    BY <1>8, <2>1, SettleSideBySide
<1> QED
  BY <1>2, <1>4, <1>5, <1>6, <1>7, <1>8

\* Neither run steps without the other: they have returned together.
LEMMA PairStepsTogether ==
  ASSUME NEW p, SideBySide(p), PairStep
  PROVE  Step /\ Second!Step
<1>1. pc2 = pc
  BY DEF SideBySide, SamePlace
<1>2. Step => pc # "returned"
  BY DEF Step, Release, StopCancelled, RouteBatch, RouteFails, Advance, Settle
<1>3. Second!Step => pc2 # "returned"
  BY DEF Second!Step, Second!Release, Second!StopCancelled, Second!RouteBatch,
         Second!RouteFails, Second!Advance, Second!Settle
<1> QED
  BY <1>1, <1>2, <1>3 DEF PairStep, BothStep, FirstStep, SecondStep

LEMMA StutterSideBySide ==
  ASSUME NEW p, SideBySide(p), UNCHANGED <<vars, vars2>>
  PROVE  SideBySide(p)'
<1>1. /\ UNCHANGED <<reqs, maxTicks, cancelled, pc, tick, nextPending, newlyReleased, inFlight,
                     realized, load, occupied, frames, result>>
      /\ UNCHANGED <<reqs2, maxTicks2, cancelled2, pc2, tick2, nextPending2, newlyReleased2,
                     inFlight2, realized2, load2, occupied2, frames2, result2>>
  BY DEF vars, vars2
<1>2. TakenTimes' = TakenTimes
  BY <1>1 DEF TakenTimes, Clock
<1> QED
  BY <1>1, <1>2 DEF SideBySide, SameDemand, SamePlace, SameLoad, SameBatch, SameRoad, SameTrips,
                    TakenAlike, SameResult

LEMMA PairKeepsIInv == IInv /\ [PairNext]_<<vars, vars2>> => IInv'
<1>1. [PairNext]_<<vars, vars2>> => [Next]_vars
  BY DEF PairNext, PairStep, BothStep, FirstStep, SecondStep, CancelBoth, PairReturned, Next
<1> QED
  BY <1>1, NextIInv

LEMMA PairKeepsPairInv == PairInv /\ [PairNext]_<<vars, vars2>> => PairInv'
<1> SUFFICES ASSUME PairInv, [PairNext]_<<vars, vars2>>, ~cancelled' PROVE (\E p : SideBySide(p))'
  BY PairKeepsIInv DEF PairInv
<1>1. ~cancelled
  <2>1. cancelled => ~[Next]_vars \/ cancelled'
    BY DEF Next, Step, Release, StopCancelled, RouteBatch, RouteFails, Fail, Advance, Settle,
           Cancel, Returned, vars
  <2>2. [Next]_vars
    BY DEF PairNext, PairStep, BothStep, FirstStep, SecondStep, CancelBoth, PairReturned, Next
  <2> QED
    BY <2>1, <2>2
<1>2. PICK p : SideBySide(p)
  BY <1>1 DEF PairInv
<1>3. Shape /\ OnTheRoad
  BY DEF PairInv, IInv
<1>4. CASE PairStep
  <2>1. Step /\ Second!Step
    BY <1>2, <1>4, PairStepsTogether
  <2>2. SideBySide(p)'
    BY <1>1, <1>2, <1>3, <2>1, StepSideBySide
  <2> QED
    BY <2>2
<1>5. CASE PairReturned \/ UNCHANGED <<vars, vars2>>
  <2>1. UNCHANGED <<vars, vars2>>
    BY <1>5 DEF PairReturned, Returned, Second!Returned, Second!vars, vars2
  <2>2. SideBySide(p)'
    BY <1>2, <2>1, StutterSideBySide
  <2> QED
    BY <2>2
<1>6. ~CancelBoth
  BY DEF CancelBoth, Cancel
<1> QED
  BY <1>4, <1>5, <1>6 DEF PairNext

LEMMA PairInvTells == PairInv => TraceIgnoresOrder
<1> SUFFICES ASSUME PairInv, ~cancelled
             PROVE  /\ pc = pc2 /\ tick = tick2 /\ load = load2 /\ frames = frames2
                    /\ Counted(Times(realized)) = Counted(Times(realized2))
                    /\ result.kind = result2.kind
                    /\ result.kind = "result" =>
                          /\ result.ticks = result2.ticks
                          /\ result.completed = result2.completed
                          /\ result.released = result2.released
  BY DEF TraceIgnoresOrder
<1>1. PICK p : SideBySide(p)
  BY DEF PairInv
<1>2. pc = pc2 /\ tick = tick2 /\ load = load2 /\ frames = frames2
  BY <1>1 DEF SideBySide, SamePlace, SameLoad
<1>3. Counted(Times(realized)) = Counted(Times(realized2))
  <2>1. realized2 \in Seq(Trips) /\ Twins(realized2, realized, SameTime)
    BY <1>1 DEF SideBySide, SameTrips
  <2>2. PICK b : Matched(realized2, realized, SameTime, b)
    BY <2>1 DEF Twins
  <2>3. PICK s, t : s = Times(realized2) /\ t = Times(realized)
    OBVIOUS
  <2>4. DOMAIN s = DOMAIN realized2 /\ DOMAIN t = DOMAIN realized
    BY <2>3 DEF Times
  <2>5. Pairs(b, DOMAIN s, DOMAIN t)
    BY <2>2, <2>4 DEF Matched
  <2>6. \A k \in DOMAIN s : s[k] = t[b[k]]
    BY <2>2, <2>3, <2>4 DEF Matched, Pairs, Times, SameTime
  <2>7. IsFiniteSet(DOMAIN s)
    BY <2>1, <2>4, LenProperties, UptoFinite
  <2>8. Counted(s) = Counted(t)
    BY <2>5, <2>6, <2>7, TwinsCount
  <2> QED
    BY <2>3, <2>8
<1>4. result.kind = result2.kind
  BY <1>1 DEF SideBySide, SameResult
<1>5. result.kind = "result" => /\ result.ticks = result2.ticks
                                /\ result.completed = result2.completed
                                /\ result.released = result2.released
  BY <1>1 DEF SideBySide, SameResult
<1> QED
  BY <1>2, <1>3, <1>4, <1>5

\* "The release order -- and therefore the whole trace -- does not depend on how the
\* caller ordered reqs" (simulator.go, the sort in front of the tick loop): two runs of
\* one demand have at every tick the same load and the same frames, and at the end the
\* same ticks and realized times, until they are cancelled.
THEOREM OrderNeverShows == PairSpec => []TraceIgnoresOrder
<1>1. PairInit => PairInv
  BY InitIInv, InitSideBySide DEF PairInit, PairInv
<1> QED
  BY <1>1, PairKeepsPairInv, PairInvTells, PTL DEF PairSpec
=============================================================================
