-------------------------- MODULE AssignmentProofs --------------------------
(***************************************************************************)
(* The batch assignment, for every network, batch, tolerance and budget:   *)
(* what the loop keeps from one iteration to the next, and the all-or-     *)
(* nothing pass inside an iteration (AssignFanout) for any number of       *)
(* requests and workers.                                                   *)
(*                                                                         *)
(* The loop needs three facts.  A path carries a request past every node   *)
(* it only goes through, so the flow of routes that serve the batch is the *)
(* demand, and adding flows up keeps that.  The batches of the incremental *)
(* strategy cut the requests into pieces that do not overlap.  Totals do   *)
(* not depend on which of several cheapest paths a pass picks.             *)
(***************************************************************************)
EXTENDS Assignment, AssignFanout, FoldLemmas, SequenceTheorems, TLAPS

-----------------------------------------------------------------------------
(* Costs.                                                                   *)

LEMMA MulMono ==
  ASSUME NEW x \in Nat, NEW y \in Nat, x <= y, NEW a \in Nat, NEW b \in Nat, a <= b
  PROVE  x * a \in Nat /\ y * b \in Nat /\ x * a <= y * b
<1>1. PICK c \in Nat : y = x + c
  <2>1. y - x \in Nat /\ y = x + (y - x)
    OBVIOUS
  <2> QED
    BY <2>1
<1>2. PICK d \in Nat : b = a + d
  <2>1. b - a \in Nat /\ b = a + (b - a)
    OBVIOUS
  <2> QED
    BY <2>1
<1>3. x * a \in Nat /\ x * d \in Nat /\ c * a \in Nat /\ c * d \in Nat
  OBVIOUS
<1>4. (x + c) * (a + d) = x * a + (x * d + (c * a + c * d))
  OBVIOUS
<1>5. y * b = x * a + (x * d + (c * a + c * d))
  BY <1>1, <1>2, <1>4
<1> QED
  BY <1>3, <1>5

Powers(x, f) == f[0] = 1 /\ \A n \in 1 .. Beta : f[n] = x * f[n - 1]

\* powBeta as the sequence of its powers.
LEMMA PowerIs ==
  ASSUME NEW x \in Nat
  PROVE  \E f \in [0 .. Beta -> Nat] : Powers(x, f) /\ powBeta(x) = f[Beta]
<1> DEFINE g == [n \in 1 .. Beta |-> [y \in Nat |-> x * y]]
<1>0. Beta \in Nat /\ 1 \in Nat
  BY AssignmentAssumption
<1>1. g \in [1 .. Beta -> [Nat -> Nat]]
  <2>1. \A y \in Nat : x * y \in Nat
    OBVIOUS
  <2> QED
    BY <2>1
<1>2. PICK f \in [0 .. Beta -> Nat] : \A n \in 0 .. Beta : f[n] = IF n = 0 THEN 1 ELSE g[n][f[n - 1]]
  <2> HIDE DEF g
  <2>1. PICK f \in [0 .. Beta -> Nat] : IteratesUpto(Beta, f, 1, g)
    BY <1>0, <1>1, UptoRecursion
  <2> QED
    BY <2>1 DEF IteratesUpto
<1>3. \A n \in 1 .. Beta : f[n] = x * f[n - 1]
  <2> SUFFICES ASSUME NEW n \in 1 .. Beta PROVE f[n] = x * f[n - 1]
    OBVIOUS
  <2>1. n - 1 \in 0 .. Beta /\ n \in 0 .. Beta /\ n # 0 /\ f[n - 1] \in Nat
    BY <1>0
  <2> QED
    BY <1>2, <2>1
<1>4. f[0] = 1
  BY <1>0, <1>2, 0 \in 0 .. Beta
<1> HIDE DEF g
<1> DEFINE w == CHOOSE w : w = [n \in 0 .. Beta |-> IF n = 0 THEN 1 ELSE x * w[n - 1]]
<1>5. f = [n \in 0 .. Beta |-> IF n = 0 THEN 1 ELSE x * f[n - 1]]
  <2>1. \A n \in 0 .. Beta : f[n] = IF n = 0 THEN 1 ELSE x * f[n - 1]
    BY <1>0, <1>3, <1>4
  <2>2. f = [n \in 0 .. Beta |-> f[n]]
    OBVIOUS
  <2> QED
    BY <2>1, <2>2
<1>6. w = [n \in 0 .. Beta |-> IF n = 0 THEN 1 ELSE x * w[n - 1]]
  BY <1>5
<1>7. powBeta(x) = w[Beta]
  BY DEF powBeta
<1> HIDE DEF w
<1> DEFINE I == {n \in Nat : n <= Beta => w[n] = f[n]}
<1>8. 0 \in I
  BY <1>0, <1>4, <1>6
<1>9. ASSUME NEW n \in Nat, n \in I PROVE n + 1 \in I
  <2>1. CASE n + 1 <= Beta
    <3>1. n + 1 \in 1 .. Beta /\ n + 1 \in 0 .. Beta /\ (n + 1) - 1 = n /\ n <= Beta /\ n + 1 # 0
      BY <1>0, <2>1
    <3>2. w[n + 1] = x * w[n]
      BY <1>6, <3>1
    <3>3. f[n + 1] = x * f[n]
      BY <1>3, <3>1
    <3>4. w[n] = f[n]
      BY <1>9, <3>1
    <3> QED
      BY <3>2, <3>3, <3>4
  <2>2. CASE ~(n + 1 <= Beta)
    BY <2>2
  <2> QED
    BY <2>1, <2>2
<1> HIDE DEF I
<1>10. Beta \in I
  BY <1>0, <1>8, <1>9, NatSetInduction
<1>11. w[Beta] = f[Beta]
  BY <1>0, <1>10 DEF I
<1> QED
  BY <1>3, <1>4, <1>7, <1>11 DEF Powers

LEMMA PowerMono ==
  ASSUME NEW x \in Nat, NEW y \in Nat, x <= y
  PROVE  powBeta(x) \in Nat /\ powBeta(y) \in Nat /\ powBeta(x) <= powBeta(y)
<1>0. Beta \in Nat
  BY AssignmentAssumption
<1>1. PICK f \in [0 .. Beta -> Nat] : Powers(x, f) /\ powBeta(x) = f[Beta]
  BY PowerIs
<1>2. PICK g \in [0 .. Beta -> Nat] : Powers(y, g) /\ powBeta(y) = g[Beta]
  BY PowerIs
<1> DEFINE I == {n \in Nat : n <= Beta => f[n] <= g[n]}
<1>3. 0 \in I
  BY <1>1, <1>2 DEF Powers
<1>4. ASSUME NEW n \in Nat, n \in I PROVE n + 1 \in I
  <2>1. CASE n + 1 <= Beta
    <3>1. n + 1 \in 1 .. Beta /\ (n + 1) - 1 = n /\ n <= Beta /\ n \in 0 .. Beta
      BY <1>0, <2>1
    <3>2. f[n + 1] = x * f[n] /\ g[n + 1] = y * g[n]
      BY <1>1, <1>2, <3>1 DEF Powers
    <3>3. f[n] \in Nat /\ g[n] \in Nat /\ f[n] <= g[n]
      BY <1>4, <3>1
    <3>4. x * f[n] <= y * g[n]
      BY <3>3, MulMono
    <3> QED
      BY <3>2, <3>4
  <2>2. CASE ~(n + 1 <= Beta)
    BY <2>2
  <2> QED
    BY <2>1, <2>2
<1> HIDE DEF I
<1>5. Beta \in I
  BY <1>0, <1>3, <1>4, NatSetInduction
<1>6. f[Beta] <= g[Beta] /\ f[Beta] \in Nat /\ g[Beta] \in Nat
  BY <1>0, <1>5 DEF I
<1> QED
  BY <1>1, <1>2, <1>6

LEMMA PowerOfOne == powBeta(1) = 1
<1>0. Beta \in Nat /\ 1 \in Nat
  BY AssignmentAssumption
<1>1. PICK f \in [0 .. Beta -> Nat] : Powers(1, f) /\ powBeta(1) = f[Beta]
  BY <1>0, PowerIs
<1> DEFINE I == {n \in Nat : n <= Beta => f[n] = 1}
<1>2. 0 \in I
  BY <1>1 DEF Powers
<1>3. ASSUME NEW n \in Nat, n \in I PROVE n + 1 \in I
  <2>1. CASE n + 1 <= Beta
    <3>1. n + 1 \in 1 .. Beta /\ (n + 1) - 1 = n /\ n <= Beta /\ n \in 0 .. Beta
      BY <1>0, <2>1
    <3>2. f[n + 1] = 1 * f[n] /\ f[n] = 1
      BY <1>1, <1>3, <3>1 DEF Powers
    <3> QED
      BY <3>2
  <2>2. CASE ~(n + 1 <= Beta)
    BY <2>2
  <2> QED
    BY <2>1, <2>2
<1> HIDE DEF I
<1>4. Beta \in I
  BY <1>0, <1>2, <1>3, NatSetInduction
<1> QED
  BY <1>0, <1>1, <1>4 DEF I

IsFlow(f) == f.den \in Nat \ {0} /\ f.num \in [Edges -> Nat]

IsWeight(w) == w \in [Edges -> Nat]

\* Loads only slow a road down: a weight is at least the one without any load.
Heavier(w, v) == \A e \in Edges : v[e] <= w[e]

LEMMA BasisFacts ==
  ASSUME NEW f, IsFlow(f), NEW s
  PROVE  /\ IsWeight(Basis(s, f)) /\ IsWeight(Basis(s, newFlowVector))
         /\ Heavier(Basis(s, f), Basis(s, newFlowVector))
         /\ Heavier(Basis(s, newFlowVector), FreeFlow)
<1>0. IsFlow(newFlowVector) /\ newFlowVector.den = 1 /\ newFlowVector.num = [e \in Edges |-> 0]
  BY DEF newFlowVector, IsFlow
<1> SUFFICES ASSUME NEW e \in Edges
             PROVE  /\ Basis(s, f)[e] \in Nat /\ Basis(s, newFlowVector)[e] \in Nat
                    /\ Basis(s, newFlowVector)[e] <= Basis(s, f)[e]
                    /\ FreeFlow[e] <= Basis(s, newFlowVector)[e]
  BY DEF Basis, marginalWeightFromFlows, weightFromFlows, IsWeight, Heavier
<1> DEFINE F == FreeFlow[e]
           S == Slope[e]
           T == (Beta + 1) * (S * powBeta(f.num[e]))
<1>1. F \in Nat /\ S \in Nat /\ Beta + 1 \in Nat
  BY AssignmentAssumption
<1>2. /\ powBeta(1) = 1 /\ powBeta(f.den) \in Nat /\ 1 <= powBeta(f.den)
      /\ powBeta(0) \in Nat /\ powBeta(f.num[e]) \in Nat /\ powBeta(0) <= powBeta(f.num[e])
  <2>1. f.den \in Nat /\ 1 <= f.den /\ f.num[e] \in Nat /\ 0 <= f.num[e] /\ 0 \in Nat /\ 1 \in Nat
    BY DEF IsFlow
  <2>2. powBeta(f.den) \in Nat /\ powBeta(1) <= powBeta(f.den)
    BY <2>1, PowerMono
  <2>3. powBeta(0) \in Nat /\ powBeta(f.num[e]) \in Nat /\ powBeta(0) <= powBeta(f.num[e])
    BY <2>1, PowerMono
  <2> QED
    BY <2>2, <2>3, PowerOfOne
<1>3. F * 1 = F /\ F * powBeta(f.den) \in Nat /\ F <= F * powBeta(f.den)
  <2>1. F * 1 <= F * powBeta(f.den) /\ F * powBeta(f.den) \in Nat
    BY <1>1, <1>2, MulMono
  <2>2. F * 1 = F
    BY <1>1
  <2> QED
    BY <2>1, <2>2
<1>4. S * powBeta(0) \in Nat /\ S * powBeta(f.num[e]) \in Nat /\ S * powBeta(0) <= S * powBeta(f.num[e])
  BY <1>1, <1>2, MulMono
<1>5. /\ (Beta + 1) * (S * powBeta(0)) \in Nat /\ (Beta + 1) * (S * powBeta(f.num[e])) \in Nat
      /\ (Beta + 1) * (S * powBeta(0)) <= (Beta + 1) * (S * powBeta(f.num[e]))
  BY <1>1, <1>4, MulMono
<1>6. CASE s = "systemoptimal"
  <2>1. Basis(s, f)[e] = F * powBeta(f.den) + (Beta + 1) * (S * powBeta(f.num[e]))
    BY <1>6 DEF Basis, marginalWeightFromFlows, MarginalCost
  <2>2. Basis(s, newFlowVector)[e] = F + (Beta + 1) * (S * powBeta(0))
    BY <1>0, <1>2, <1>3, <1>6 DEF Basis, marginalWeightFromFlows, MarginalCost
  <2> QED
    BY <1>1, <1>3, <1>5, <2>1, <2>2
<1>7. CASE s # "systemoptimal"
  <2>1. Basis(s, f)[e] = F * powBeta(f.den) + S * powBeta(f.num[e])
    BY <1>7 DEF Basis, weightFromFlows, Cost
  <2>2. Basis(s, newFlowVector)[e] = F + S * powBeta(0)
    BY <1>0, <1>2, <1>3, <1>7 DEF Basis, weightFromFlows, Cost
  <2> QED
    BY <1>1, <1>3, <1>4, <2>1, <2>2
<1> QED
  BY <1>6, <1>7

-----------------------------------------------------------------------------
(* Paths, and the flow one of them carries past a node.                     *)

\* A path from u to v that enters no node twice.
IsPath(p, u, v) ==
    /\ p \in Seq(Edges)
    /\ \A j \in 1 .. (Len(p) - 1) : To[p[j]] = From[p[j + 1]]
    /\ \A i, j \in 1 .. Len(p) : To[p[i]] = To[p[j]] => i = j
    /\ p = <<>> => u = v
    /\ p # <<>> => From[p[1]] = u /\ To[p[Len(p)]] = v

LEMMA PathIs ==
  ASSUME NEW u \in Nodes, NEW v \in Nodes, NEW p \in Paths[<<u, v>>]
  PROVE  IsPath(p, u, v)
<1>0. IsFiniteSet(Nodes) /\ Cardinality(Nodes) \in Nat
  BY AssignmentAssumption, FS_CardinalityType
<1>1. <<u, v>> \in Nodes \X Nodes /\ <<u, v>>[1] = u /\ <<u, v>>[2] = v
  OBVIOUS
<1>2. /\ p \in SimplePaths
      /\ IF p = <<>> THEN u = v ELSE From[p[1]] = u /\ To[p[Len(p)]] = v
  BY <1>1 DEF Paths
<1>3. PICK n \in 0 .. (Cardinality(Nodes) - 1) : p \in [1 .. n -> Edges]
  BY <1>2 DEF SimplePaths
<1>4. p \in Seq(Edges) /\ Len(p) = n /\ DOMAIN p = 1 .. n
  BY <1>0, <1>3
<1>5. /\ \A j \in 1 .. (Len(p) - 1) : To[p[j]] = From[p[j + 1]]
      /\ \A i, j \in DOMAIN p : To[p[i]] = To[p[j]] => i = j
  BY <1>2 DEF SimplePaths
<1> QED
  BY <1>2, <1>4, <1>5 DEF IsPath

Along(p, w) == [j \in DOMAIN p |-> w[p[j]]]

LEMMA PathCostIsSum ==
  ASSUME NEW p \in Seq(Edges), NEW w, IsWeight(w)
  PROVE  /\ IsFiniteSet(DOMAIN p) /\ pathCost(p, w) = SumFunctionOnSet(Along(p, w), DOMAIN p)
         /\ \A j \in DOMAIN p : Along(p, w)[j] = w[p[j]] /\ p[j] \in Edges /\ Along(p, w)[j] \in Nat
         /\ pathCost(p, w) \in Nat
<1>1. Len(p) \in Nat /\ DOMAIN p = 1 .. Len(p)
  OBVIOUS
<1>2. IsFiniteSet(DOMAIN p)
  BY <1>1, UptoFinite
<1>3. \A j \in DOMAIN p : Along(p, w)[j] = w[p[j]] /\ p[j] \in Edges /\ Along(p, w)[j] \in Nat
  BY DEF Along, IsWeight
<1>4. pathCost(p, w) = SumFunctionOnSet(Along(p, w), DOMAIN p)
  <2>1. DOMAIN Along(p, w) = DOMAIN p
    BY DEF Along
  <2>2. pathCost(p, w) = SumFunctionOnSet(Along(p, w), DOMAIN Along(p, w))
    BY DEF pathCost, SumFunction, Along
  <2> QED
    BY <2>1, <2>2
<1> HIDE DEF Along
<1>5. SumFunctionOnSet(Along(p, w), DOMAIN p) \in Nat
  BY <1>2, <1>3, SumNat
<1> QED
  BY <1>2, <1>3, <1>4, <1>5

LEMMA PathCostMono ==
  ASSUME NEW p \in Seq(Edges), NEW w, NEW v, IsWeight(w), IsWeight(v), Heavier(w, v)
  PROVE  pathCost(p, v) <= pathCost(p, w)
<1>1. \A j \in DOMAIN p : /\ Along(p, v)[j] \in Int /\ Along(p, w)[j] \in Int
                          /\ Along(p, v)[j] <= Along(p, w)[j]
  BY PathCostIsSum DEF Heavier
<1>2. SumFunctionOnSet(Along(p, v), DOMAIN p) <= SumFunctionOnSet(Along(p, w), DOMAIN p)
  BY <1>1, PathCostIsSum, SumMonotone
<1> QED
  BY <1>2, PathCostIsSum

Out(n) == {e \in Edges : From[e] = n}
In(n) == {e \in Edges : To[e] = n}

IsLoad(x) == x \in [Edges -> Int]

Net(x, n) == SumFunctionOnSet(x, Out(n)) - SumFunctionOnSet(x, In(n))

LEMMA OutInFinite == \A n : IsFiniteSet(Out(n)) /\ IsFiniteSet(In(n))
<1> TAKE n
<1>1. IsFiniteSet(Edges) /\ Out(n) \subseteq Edges /\ In(n) \subseteq Edges
  BY AssignmentAssumption DEF Out, In
<1> QED
  BY <1>1, FS_Subset

LEMMA NetInt ==
  ASSUME NEW x, IsLoad(x), NEW n
  PROVE  /\ SumFunctionOnSet(x, Out(n)) \in Int /\ SumFunctionOnSet(x, In(n)) \in Int
         /\ Net(x, n) \in Int
<1>1. \A e \in Out(n) \cup In(n) : x[e] \in Int
  BY DEF Out, In, IsLoad
<1>2. SumFunctionOnSet(x, Out(n)) \in Int /\ SumFunctionOnSet(x, In(n)) \in Int
  BY <1>1, OutInFinite, SumInt
<1> QED
  BY <1>2 DEF Net

\* What two loads put past a node adds up.
LEMMA NetPlus ==
  ASSUME NEW x, NEW y, NEW z, IsLoad(x), IsLoad(y), NEW n,
         \A e \in Edges : z[e] = x[e] + y[e]
  PROVE  Net(z, n) = Net(x, n) + Net(y, n)
<1>1. \A e \in Out(n) \cup In(n) : x[e] \in Int /\ y[e] \in Int /\ z[e] = x[e] + y[e]
  BY DEF Out, In, IsLoad
<1>2. SumFunctionOnSet(z, Out(n)) = SumFunctionOnSet(x, Out(n)) + SumFunctionOnSet(y, Out(n))
  BY <1>1, OutInFinite, SumPlus
<1>3. SumFunctionOnSet(z, In(n)) = SumFunctionOnSet(x, In(n)) + SumFunctionOnSet(y, In(n))
  BY <1>1, OutInFinite, SumPlus
<1> QED
  BY <1>2, <1>3, NetInt DEF Net

\* d more on one edge leaves where the edge starts and arrives where it ends.
LEMMA NetBump ==
  ASSUME NEW x, NEW y, IsLoad(x), IsLoad(y), NEW n, NEW a \in Edges, NEW d \in Int,
         y[a] = x[a] + d, \A e \in Edges \ {a} : y[e] = x[e]
  PROVE  Net(y, n) = Net(x, n) + (IF From[a] = n THEN d ELSE 0) - (IF To[a] = n THEN d ELSE 0)
<1>1. /\ \A e \in Out(n) : x[e] \in Int /\ y[e] \in Int
      /\ \A e \in In(n) : x[e] \in Int /\ y[e] \in Int
  BY DEF Out, In, IsLoad
<1>2. SumFunctionOnSet(y, Out(n)) = SumFunctionOnSet(x, Out(n)) + (IF From[a] = n THEN d ELSE 0)
  <2>1. CASE From[a] = n
    <3>1. a \in Out(n) /\ \A e \in Out(n) \ {a} : y[e] = x[e]
      BY <2>1 DEF Out
    <3>2. SumFunctionOnSet(y, Out(n)) = SumFunctionOnSet(x, Out(n)) + d
      BY <1>1, <3>1, OutInFinite, SumBump
    <3> QED
      BY <2>1, <3>2
  <2>2. CASE From[a] # n
    <3>1. \A e \in Out(n) : x[e] \in Int /\ y[e] = x[e]
      BY <1>1, <2>2 DEF Out
    <3>2. SumFunctionOnSet(x, Out(n)) = SumFunctionOnSet(y, Out(n))
      BY <3>1, OutInFinite, SumSame
    <3> QED
      BY <2>2, <3>2, NetInt
  <2> QED
    BY <2>1, <2>2
<1>3. SumFunctionOnSet(y, In(n)) = SumFunctionOnSet(x, In(n)) + (IF To[a] = n THEN d ELSE 0)
  <2>1. CASE To[a] = n
    <3>1. a \in In(n) /\ \A e \in In(n) \ {a} : y[e] = x[e]
      BY <2>1 DEF In
    <3>2. SumFunctionOnSet(y, In(n)) = SumFunctionOnSet(x, In(n)) + d
      BY <1>1, <3>1, OutInFinite, SumBump
    <3> QED
      BY <2>1, <3>2
  <2>2. CASE To[a] # n
    <3>1. \A e \in In(n) : x[e] \in Int /\ y[e] = x[e]
      BY <1>1, <2>2 DEF In
    <3>2. SumFunctionOnSet(x, In(n)) = SumFunctionOnSet(y, In(n))
      BY <3>1, OutInFinite, SumSame
    <3> QED
      BY <2>2, <3>2, NetInt
  <2> QED
    BY <2>1, <2>2
<1> QED
  BY <1>2, <1>3, NetInt DEF Net

\* d on the first m edges of p.
PathFlow(p, m, d) == [e \in Edges |-> IF \E i \in 1 .. m : p[i] = e THEN d ELSE 0]

At(u, n, d) == IF u = n THEN d ELSE 0

\* A path takes its load from its start to its end, past every other node.
LEMMA NetOfPath ==
  ASSUME NEW u, NEW v, NEW p, IsPath(p, u, v), NEW n, NEW d \in Int
  PROVE  IsLoad(PathFlow(p, Len(p), d)) /\ Net(PathFlow(p, Len(p), d), n) = At(u, n, d) - At(v, n, d)
<1> DEFINE x(m) == PathFlow(p, m, d)
           I == {m \in Nat : m <= Len(p) =>
                     Net(x(m), n) = IF m = 0 THEN 0 ELSE At(u, n, d) - At(To[p[m]], n, d)}
<1>0. /\ Len(p) \in Nat /\ \A i \in 1 .. Len(p) : p[i] \in Edges
      /\ p = <<>> <=> Len(p) = 0
  BY DEF IsPath
<1>1. \A m : IsLoad(x(m))
  BY DEF PathFlow, IsLoad
<1>2. \A w : At(w, n, d) \in Int
  BY DEF At
<1>3. 0 \in I
  <2>1. \A e \in Edges : x(0)[e] = x(0)[e] + x(0)[e]
    BY DEF PathFlow
  <2>2. Net(x(0), n) = Net(x(0), n) + Net(x(0), n)
    BY <1>1, <2>1, NetPlus
  <2>3. Net(x(0), n) \in Int
    BY <1>1, NetInt
  <2>4. Net(x(0), n) = 0
    <3>1. \A r \in Int : r = r + r => r = 0
      OBVIOUS
    <3> HIDE DEF x
    <3> QED
      BY <2>2, <2>3, <3>1
  <2> QED
    BY <2>4
<1>4. ASSUME NEW m \in Nat, m \in I PROVE m + 1 \in I
  <2>1. CASE m + 1 <= Len(p)
    <3> DEFINE a == p[m + 1]
    <3>1. a \in Edges /\ m <= Len(p) /\ m + 1 \in 1 .. Len(p) /\ m + 1 # 0
      BY <1>0, <2>1
    <3>2. x(m + 1)[a] = d
      BY <3>1 DEF PathFlow
    <3>3. x(m)[a] = 0
      <4>1. \A i \in 1 .. m : i \in 1 .. Len(p) /\ i # m + 1
        BY <1>0, <3>1
      <4>2. \A i \in 1 .. m : p[i] # a
        BY <3>1, <4>1 DEF IsPath
      <4> QED
        BY <3>1, <4>2 DEF PathFlow
    <3>4. \A e \in Edges \ {a} : x(m + 1)[e] = x(m)[e]
      <4>1. \A i : i \in 1 .. (m + 1) <=> i \in 1 .. m \/ i = m + 1
        OBVIOUS
      <4> QED
        BY <4>1 DEF PathFlow
    <3>5. /\ IsLoad(x(m)) /\ IsLoad(x(m + 1)) /\ Net(x(m), n) \in Int
          /\ x(m + 1)[a] = x(m)[a] + d
      BY <1>1, <3>2, <3>3, NetInt
    <3>6. Net(x(m + 1), n) = Net(x(m), n) + At(From[a], n, d) - At(To[a], n, d)
      <4> HIDE DEF x, a
      <4> QED
        BY <3>1, <3>4, <3>5, NetBump DEF At
    <3>7. CASE m = 0
      <4>1. From[a] = u
        BY <1>0, <3>1, <3>7 DEF IsPath
      <4>2. Net(x(m), n) = 0
        BY <1>4, <3>1, <3>7
      <4>3. Net(x(m + 1), n) = At(u, n, d) - At(To[a], n, d)
        BY <1>2, <3>6, <4>1, <4>2
      <4> QED
        BY <3>1, <4>3
    <3>8. CASE m # 0
      <4>1. From[a] = To[p[m]]
        <5>1. m \in 1 .. (Len(p) - 1)
          BY <1>0, <2>1, <3>8
        <5> QED
          BY <5>1 DEF IsPath
      <4>2. Net(x(m), n) = At(u, n, d) - At(To[p[m]], n, d)
        BY <1>4, <3>1, <3>8
      <4>3. Net(x(m + 1), n) = At(u, n, d) - At(To[a], n, d)
        <5> HIDE DEF x, a
        <5> QED
          BY <1>2, <3>6, <4>1, <4>2
      <4> QED
        BY <3>1, <4>3
    <3> QED
      BY <3>7, <3>8
  <2>2. CASE ~(m + 1 <= Len(p))
    BY <2>2
  <2> QED
    BY <2>1, <2>2
<1> HIDE DEF I
<1>5. Len(p) \in I
  BY <1>0, <1>3, <1>4, NatSetInduction
<1>6. Net(x(Len(p)), n) = IF Len(p) = 0 THEN 0 ELSE At(u, n, d) - At(To[p[Len(p)]], n, d)
  BY <1>0, <1>5 DEF I
<1>7. CASE Len(p) = 0
  BY <1>0, <1>1, <1>2, <1>6, <1>7 DEF IsPath
<1>8. CASE Len(p) # 0
  BY <1>0, <1>1, <1>6, <1>8 DEF IsPath
<1> QED
  BY <1>7, <1>8

-----------------------------------------------------------------------------
(* What the requests of a pass put on the roads.                            *)

IsBatch == reqs \in Seq([from : Nodes, to : Nodes, weight : Int])

\* Every request of D has a path from where it starts to where it ends.
Routed(chosen, D) ==
    /\ DOMAIN chosen = D /\ D \subseteq DOMAIN reqs
    /\ \A i \in D : IsPath(chosen[i], reqs[i].from, reqs[i].to)

Weights == [i \in DOMAIN reqs |-> RequestWeight(reqs[i])]

LEMMA WeightFacts ==
  ASSUME IsBatch
  PROVE  /\ \A i \in DOMAIN reqs : /\ Weights[i] = RequestWeight(reqs[i])
                                   /\ Weights[i] \in Nat /\ Weights[i] >= 1
                                   /\ reqs[i].from \in Nodes /\ reqs[i].to \in Nodes
         /\ \A D : D \subseteq DOMAIN reqs => IsFiniteSet(D)
         /\ \A f : DOMAIN f \subseteq DOMAIN reqs /\ (\A i \in DOMAIN f : f[i] = RequestWeight(reqs[i]))
               => SumFunction(f) = SumFunctionOnSet(Weights, DOMAIN f)
<1>1. \A i \in DOMAIN reqs : reqs[i] \in [from : Nodes, to : Nodes, weight : Int]
  <2> DEFINE Req == [from : Nodes, to : Nodes, weight : Int]
  <2>1. reqs \in Seq(Req)
    BY DEF IsBatch
  <2> HIDE DEF Req
  <2>2. \A i \in DOMAIN reqs : reqs[i] \in Req
    BY <2>1
  <2> QED
    BY <2>2 DEF Req
<1>2. \A i \in DOMAIN reqs : /\ Weights[i] = RequestWeight(reqs[i])
                             /\ Weights[i] \in Nat /\ Weights[i] >= 1
                             /\ reqs[i].from \in Nodes /\ reqs[i].to \in Nodes
  BY <1>1 DEF Weights, RequestWeight
<1>3. ASSUME NEW D, D \subseteq DOMAIN reqs PROVE IsFiniteSet(D)
  <2>1. DOMAIN reqs = 1 .. Len(reqs) /\ Len(reqs) \in Nat
    BY DEF IsBatch
  <2> QED
    BY <1>3, <2>1, UptoFinite, FS_Subset
<1>4. ASSUME NEW f, DOMAIN f \subseteq DOMAIN reqs, \A i \in DOMAIN f : f[i] = RequestWeight(reqs[i])
      PROVE  SumFunction(f) = SumFunctionOnSet(Weights, DOMAIN f)
  <2>1. \A i \in DOMAIN f : Weights[i] \in Int /\ f[i] = Weights[i]
    BY <1>2, <1>4
  <2>2. SumFunctionOnSet(Weights, DOMAIN f) = SumFunctionOnSet(f, DOMAIN f)
    BY <1>3, <1>4, <2>1, SumSame
  <2> QED
    BY <2>2 DEF SumFunction
<1> QED
  BY <1>2, <1>3, <1>4

Uses(chosen, D, e) == {i \in D : e \in Range(chosen[i])}
Leaving(D, n) == {i \in D : reqs[i].from = n}
Arriving(D, n) == {i \in D : reqs[i].to = n}

FlowOf(chosen, D) == [e \in Edges |-> SumFunctionOnSet(Weights, Uses(chosen, D, e))]

Demand(D, n) == SumFunctionOnSet(Weights, Leaving(D, n)) - SumFunctionOnSet(Weights, Arriving(D, n))

LEMMA SubsetSums ==
  ASSUME IsBatch, NEW D, D \subseteq DOMAIN reqs
  PROVE  IsFiniteSet(D) /\ SumFunctionOnSet(Weights, D) \in Nat
<1>1. IsFiniteSet(D) /\ \A i \in D : Weights[i] \in Nat
  BY WeightFacts
<1> QED
  BY <1>1, SumNat

\* routeFlow is FlowOf, and FlowOf is a load.
LEMMA RouteFlowIs ==
  ASSUME IsBatch, NEW chosen, NEW D, D \subseteq DOMAIN reqs
  PROVE  /\ DOMAIN chosen = D => routeFlow(chosen) = FlowOf(chosen, D)
         /\ FlowOf(chosen, D) \in [Edges -> Nat]
<1>1. ASSUME DOMAIN chosen = D, NEW e \in Edges
      PROVE  routeFlow(chosen)[e] = FlowOf(chosen, D)[e]
  <2> DEFINE f == [i \in {j \in DOMAIN chosen : e \in Range(chosen[j])} |-> RequestWeight(reqs[i])]
  <2>1. DOMAIN f = Uses(chosen, D, e) /\ Uses(chosen, D, e) \subseteq DOMAIN reqs
    BY <1>1 DEF Uses
  <2>2. \A i \in DOMAIN f : f[i] = RequestWeight(reqs[i])
    OBVIOUS
  <2>3. routeFlow(chosen)[e] = SumFunction(f)
    BY DEF routeFlow
  <2> HIDE DEF f
  <2>4. SumFunction(f) = SumFunctionOnSet(Weights, DOMAIN f)
    BY <2>1, <2>2, WeightFacts
  <2> QED
    BY <2>1, <2>3, <2>4 DEF FlowOf
<1>2. routeFlow(chosen) = [e \in Edges |-> routeFlow(chosen)[e]]
  BY DEF routeFlow
<1>3. ASSUME NEW e \in Edges PROVE SumFunctionOnSet(Weights, Uses(chosen, D, e)) \in Nat
  <2>1. Uses(chosen, D, e) \subseteq DOMAIN reqs
    BY DEF Uses
  <2> QED
    BY <2>1, SubsetSums
<1>4. FlowOf(chosen, D) = [e \in Edges |-> FlowOf(chosen, D)[e]] /\ FlowOf(chosen, D) \in [Edges -> Nat]
  BY <1>3 DEF FlowOf
<1> HIDE DEF FlowOf
<1>5. ASSUME DOMAIN chosen = D PROVE routeFlow(chosen) = FlowOf(chosen, D)
  BY <1>1, <1>2, <1>4, <1>5
<1> QED
  BY <1>4, <1>5

LEMMA DemandInt ==
  ASSUME IsBatch, NEW D, D \subseteq DOMAIN reqs, NEW n
  PROVE  /\ SumFunctionOnSet(Weights, Leaving(D, n)) \in Int
         /\ SumFunctionOnSet(Weights, Arriving(D, n)) \in Int
         /\ Demand(D, n) \in Int
<1>1. Leaving(D, n) \subseteq DOMAIN reqs /\ Arriving(D, n) \subseteq DOMAIN reqs
  BY DEF Leaving, Arriving
<1>2. /\ SumFunctionOnSet(Weights, Leaving(D, n)) \in Int
      /\ SumFunctionOnSet(Weights, Arriving(D, n)) \in Int
  BY <1>1, SubsetSums
<1> QED
  BY <1>2 DEF Demand

\* One request more.
LEMMA OneMore ==
  ASSUME IsBatch, NEW D, D \subseteq DOMAIN reqs, NEW a \in DOMAIN reqs \ D, NEW S, S \subseteq D
  PROVE  /\ SumFunctionOnSet(Weights, S) \in Int /\ Weights[a] \in Int
         /\ SumFunctionOnSet(Weights, S \cup {a}) = SumFunctionOnSet(Weights, S) + Weights[a]
<1>0. SumFunctionOnSet(Weights, S) \in Int /\ Weights[a] \in Int
  BY SubsetSums, WeightFacts
<1>1. a \notin S /\ IsFiniteSet(S) /\ \A i \in S : Weights[i] \in Int
  BY WeightFacts
<1>2. SumFunctionOnSet(Weights, S \cup {a}) = Weights[a] + SumFunctionOnSet(Weights, S)
  BY <1>0, <1>1, SumIn
<1> QED
  BY <1>0, <1>2

LEMMA FlowOneMore ==
  ASSUME IsBatch, NEW chosen, NEW D, D \subseteq DOMAIN reqs, NEW a \in DOMAIN reqs \ D,
         NEW e \in Edges, IsPath(chosen[a], reqs[a].from, reqs[a].to)
  PROVE  FlowOf(chosen, D \cup {a})[e] =
            FlowOf(chosen, D)[e] + PathFlow(chosen[a], Len(chosen[a]), Weights[a])[e]
<1> DEFINE B == e \in Range(chosen[a])
<1>1. Uses(chosen, D, e) \subseteq D
  BY DEF Uses
<1>2. Uses(chosen, D \cup {a}, e) = IF B THEN Uses(chosen, D, e) \cup {a} ELSE Uses(chosen, D, e)
  BY DEF Uses
<1>3. PathFlow(chosen[a], Len(chosen[a]), Weights[a])[e] = IF B THEN Weights[a] ELSE 0
  <2>1. DOMAIN chosen[a] = 1 .. Len(chosen[a])
    BY DEF IsPath
  <2>2. B <=> \E i \in 1 .. Len(chosen[a]) : chosen[a][i] = e
    BY <2>1 DEF Range
  <2> QED
    BY <2>2 DEF PathFlow
<1> HIDE DEF B
<1>5. SumFunctionOnSet(Weights, Uses(chosen, D \cup {a}, e)) =
         SumFunctionOnSet(Weights, Uses(chosen, D, e)) + (IF B THEN Weights[a] ELSE 0)
  <2> DEFINE S == Uses(chosen, D, e)
  <2>1. /\ SumFunctionOnSet(Weights, S) \in Int /\ Weights[a] \in Int
        /\ SumFunctionOnSet(Weights, S \cup {a}) = SumFunctionOnSet(Weights, S) + Weights[a]
    BY <1>1, OneMore
  <2>2. CASE B
    BY <1>2, <2>1, <2>2
  <2>3. CASE ~B
    BY <1>2, <2>1, <2>3
  <2> QED
    BY <2>2, <2>3
<1> QED
  BY <1>3, <1>5 DEF FlowOf

LEMMA DemandOneMore ==
  ASSUME IsBatch, NEW D, D \subseteq DOMAIN reqs, NEW a \in DOMAIN reqs \ D, NEW n
  PROVE  Demand(D \cup {a}, n) =
            Demand(D, n) + (At(reqs[a].from, n, Weights[a]) - At(reqs[a].to, n, Weights[a]))
<1>1. SumFunctionOnSet(Weights, Leaving(D \cup {a}, n)) =
         SumFunctionOnSet(Weights, Leaving(D, n)) + At(reqs[a].from, n, Weights[a])
  <2> DEFINE B == reqs[a].from = n
  <2>1. Leaving(D, n) \subseteq D
    BY DEF Leaving
  <2>2. Leaving(D \cup {a}, n) = IF B THEN Leaving(D, n) \cup {a} ELSE Leaving(D, n)
    BY DEF Leaving
  <2>3. At(reqs[a].from, n, Weights[a]) = IF B THEN Weights[a] ELSE 0
    BY DEF At
  <2> HIDE DEF B
  <2> QED
    <3> DEFINE S == Leaving(D, n)
    <3>1. /\ SumFunctionOnSet(Weights, S) \in Int /\ Weights[a] \in Int
          /\ SumFunctionOnSet(Weights, S \cup {a}) = SumFunctionOnSet(Weights, S) + Weights[a]
      BY <2>1, OneMore
    <3>2. CASE B
      BY <2>2, <2>3, <3>1, <3>2
    <3>3. CASE ~B
      BY <2>2, <2>3, <3>1, <3>3
    <3> QED
      BY <3>2, <3>3
<1>2. SumFunctionOnSet(Weights, Arriving(D \cup {a}, n)) =
         SumFunctionOnSet(Weights, Arriving(D, n)) + At(reqs[a].to, n, Weights[a])
  <2> DEFINE B == reqs[a].to = n
  <2>1. Arriving(D, n) \subseteq D
    BY DEF Arriving
  <2>2. Arriving(D \cup {a}, n) = IF B THEN Arriving(D, n) \cup {a} ELSE Arriving(D, n)
    BY DEF Arriving
  <2>3. At(reqs[a].to, n, Weights[a]) = IF B THEN Weights[a] ELSE 0
    BY DEF At
  <2> HIDE DEF B
  <2> QED
    <3> DEFINE S == Arriving(D, n)
    <3>1. /\ SumFunctionOnSet(Weights, S) \in Int /\ Weights[a] \in Int
          /\ SumFunctionOnSet(Weights, S \cup {a}) = SumFunctionOnSet(Weights, S) + Weights[a]
      BY <2>1, OneMore
    <3>2. CASE B
      BY <2>2, <2>3, <3>1, <3>2
    <3>3. CASE ~B
      BY <2>2, <2>3, <3>1, <3>3
    <3> QED
      BY <3>2, <3>3
<1>3. /\ SumFunctionOnSet(Weights, Leaving(D, n)) \in Int
      /\ SumFunctionOnSet(Weights, Arriving(D, n)) \in Int
  BY DemandInt
<1>4. At(reqs[a].from, n, Weights[a]) \in Int /\ At(reqs[a].to, n, Weights[a]) \in Int
  BY WeightFacts DEF At
<1> QED
  BY <1>1, <1>2, <1>3, <1>4 DEF Demand

\* Routes put past a node what starts there less what ends there.
LEMMA NetOfRoutes ==
  ASSUME IsBatch, NEW chosen, NEW D, Routed(chosen, D), NEW n
  PROVE  Net(FlowOf(chosen, D), n) = Demand(D, n)
<1> DEFINE I == {T \in SUBSET D : Net(FlowOf(chosen, T), n) = Demand(T, n)}
<1>0. D \subseteq DOMAIN reqs /\ IsFiniteSet(D)
  BY SubsetSums DEF Routed
<1>1. {} \in I
  <2>1. {} \subseteq DOMAIN reqs /\ Leaving({}, n) = {} /\ Arriving({}, n) = {}
        /\ \A e : Uses(chosen, {}, e) = {}
    BY DEF Leaving, Arriving, Uses
  <2>2. SumFunctionOnSet(Weights, {}) = 0
    BY SumEmpty
  <2>3. Demand({}, n) = 0
    BY <2>1, <2>2 DEF Demand
  <2>4. \A e \in Edges : FlowOf(chosen, {})[e] = 0
    BY <2>1, <2>2 DEF FlowOf
  <2>5. IsLoad(FlowOf(chosen, {}))
    BY <2>1, RouteFlowIs DEF IsLoad
  <2>6. Net(FlowOf(chosen, {}), n) = Net(FlowOf(chosen, {}), n) + Net(FlowOf(chosen, {}), n)
    BY <2>4, <2>5, NetPlus
  <2>7. Net(FlowOf(chosen, {}), n) \in Int
    BY <2>5, NetInt
  <2>8. \A r \in Int : r = r + r => r = 0
    OBVIOUS
  <2>9. Net(FlowOf(chosen, {}), n) = 0
    BY <2>6, <2>7, <2>8
  <2> QED
    BY <2>3, <2>9
<1>2. ASSUME NEW T \in SUBSET D, NEW a \in D \ T, T \in I PROVE T \cup {a} \in I
  <2> DEFINE x == FlowOf(chosen, T)
             y == PathFlow(chosen[a], Len(chosen[a]), Weights[a])
             z == FlowOf(chosen, T \cup {a})
  <2>1. /\ T \subseteq DOMAIN reqs /\ T \cup {a} \subseteq DOMAIN reqs /\ a \in DOMAIN reqs \ T
        /\ IsPath(chosen[a], reqs[a].from, reqs[a].to)
    BY <1>0 DEF Routed
  <2>2. \A e \in Edges : z[e] = x[e] + y[e]
    BY <2>1, FlowOneMore
  <2>3. Weights[a] \in Int
    BY <2>1, WeightFacts
  <2>4. IsLoad(y) /\ Net(y, n) = At(reqs[a].from, n, Weights[a]) - At(reqs[a].to, n, Weights[a])
    BY <2>1, <2>3, NetOfPath
  <2>5. IsLoad(x)
    BY <2>1, RouteFlowIs DEF IsLoad
  <2> HIDE DEF x, y, z, I
  <2>6. Net(z, n) = Net(x, n) + Net(y, n)
    BY <2>2, <2>4, <2>5, NetPlus
  <2>7. Net(x, n) = Demand(T, n)
    BY <1>2 DEF x, I
  <2>8. Net(z, n) = Demand(T \cup {a}, n)
    BY <2>1, <2>4, <2>6, <2>7, DemandOneMore
  <2> QED
    BY <2>8 DEF z, I
<1> HIDE DEF I
<1>3. D \in I
  BY <1>0, <1>1, <1>2, FiniteSetInduction
<1> QED
  BY <1>3 DEF I

\* The flow of one batch and then another.
LEMMA FlowUnion ==
  ASSUME IsBatch, NEW S, NEW T, S \subseteq DOMAIN reqs, T \subseteq DOMAIN reqs, S \cap T = {},
         NEW c, NEW d, NEW both, \A i \in S : both[i] = c[i], \A i \in T : both[i] = d[i],
         NEW e \in Edges
  PROVE  FlowOf(both, S \cup T)[e] = FlowOf(c, S)[e] + FlowOf(d, T)[e]
<1>1. Uses(both, S \cup T, e) = Uses(c, S, e) \cup Uses(d, T, e)
  BY DEF Uses
<1>2. Uses(c, S, e) \cap Uses(d, T, e) = {}
  BY DEF Uses
<1>3. Uses(c, S, e) \subseteq DOMAIN reqs /\ Uses(d, T, e) \subseteq DOMAIN reqs
  BY DEF Uses
<1>4. /\ IsFiniteSet(Uses(c, S, e)) /\ IsFiniteSet(Uses(d, T, e))
      /\ \A i \in Uses(c, S, e) \cup Uses(d, T, e) : Weights[i] \in Int
  BY <1>3, WeightFacts
<1>5. SumFunctionOnSet(Weights, Uses(c, S, e) \cup Uses(d, T, e)) =
         SumFunctionOnSet(Weights, Uses(c, S, e)) + SumFunctionOnSet(Weights, Uses(d, T, e))
  BY <1>2, <1>4, SumUnion
<1> QED
  BY <1>1, <1>5 DEF FlowOf

-----------------------------------------------------------------------------
(* The batches of the incremental strategy.                                 *)

\* The requests before batch j + 1.
Start(n, j) == j * (n \div incrementalBatches)
                 + (IF j <= n % incrementalBatches THEN j ELSE n % incrementalBatches)

Size(n, j) == n \div incrementalBatches + (IF j <= n % incrementalBatches THEN 1 ELSE 0)

LEMMA BatchDivision ==
  ASSUME NEW n \in Nat, NEW m \in Nat \ {0}
  PROVE  n \div m \in Nat /\ n % m \in 0 .. (m - 1) /\ n = m * (n \div m) + (n % m)
OBVIOUS

LEMMA StartFacts ==
  ASSUME NEW n \in Nat
  PROVE  /\ Start(n, 0) = 0 /\ Start(n, incrementalBatches) = n
         /\ \A j \in 0 .. incrementalBatches : Start(n, j) \in Nat
         /\ \A j \in 1 .. incrementalBatches :
               Start(n, j) = Start(n, j - 1) + Size(n, j) /\ Size(n, j) \in Nat
<1>0. incrementalBatches \in Nat \ {0}
  BY AssignmentAssumption
<1>1. PICK q \in Nat : q = n \div incrementalBatches
  BY <1>0, BatchDivision
<1>2. PICK r \in 0 .. (incrementalBatches - 1) : r = n % incrementalBatches
  BY <1>0, BatchDivision
<1>3. n = incrementalBatches * q + r
  BY <1>0, <1>1, <1>2, BatchDivision
<1>4. \A j : Start(n, j) = j * q + (IF j <= r THEN j ELSE r)
  BY <1>1, <1>2 DEF Start
<1>5. \A j : Size(n, j) = q + (IF j <= r THEN 1 ELSE 0)
  BY <1>1, <1>2 DEF Size
<1>6. Start(n, 0) = 0
  <2>1. 0 * q = 0
    OBVIOUS
  <2> QED
    BY <1>0, <1>2, <1>4, <2>1
<1>7. Start(n, incrementalBatches) = n
  <2>1. ~(incrementalBatches <= r)
    BY <1>0, <1>2
  <2> QED
    BY <1>3, <1>4, <2>1
<1>8. ASSUME NEW j \in 0 .. incrementalBatches PROVE Start(n, j) \in Nat
  <2>1. j * q \in Nat /\ j \in Nat /\ r \in Nat
    BY <1>0, <1>2
  <2> QED
    BY <1>4, <2>1
<1>9. ASSUME NEW j \in 1 .. incrementalBatches
      PROVE Start(n, j) = Start(n, j - 1) + Size(n, j) /\ Size(n, j) \in Nat
  <2>1. j * q = (j - 1) * q + q /\ (j - 1) * q \in Nat /\ j \in Nat /\ r \in Nat
    BY <1>0, <1>2
  <2>2. CASE j <= r
    <3>1. j - 1 <= r
      BY <2>1, <2>2
    <3> QED
      BY <1>4, <1>5, <2>1, <2>2, <3>1
  <2>3. CASE ~(j <= r)
    <3>1. j - 1 <= r => j - 1 = r
      BY <2>1, <2>3
    <3> QED
      BY <1>4, <1>5, <2>1, <2>3, <3>1
  <2> QED
    BY <2>2, <2>3
<1> QED
  BY <1>6, <1>7, <1>8, <1>9

LEMMA BatchBoundsIs ==
  ASSUME NEW n \in Nat, NEW b \in 1 .. incrementalBatches
  PROVE  batchBounds(n, b) = (Start(n, b - 1) + 1) .. Start(n, b)
<1>0. incrementalBatches \in Nat \ {0}
  BY AssignmentAssumption
<1> DEFINE f == [j \in 0 .. incrementalBatches |-> Start(n, j)]
           at == CHOOSE at : at = [j \in 0 .. incrementalBatches |->
                                     IF j = 0 THEN 0 ELSE at[j - 1] + Size(n, j)]
<1>1. f = [j \in 0 .. incrementalBatches |-> IF j = 0 THEN 0 ELSE f[j - 1] + Size(n, j)]
  <2>1. ASSUME NEW j \in 0 .. incrementalBatches, j # 0
        PROVE  j \in 1 .. incrementalBatches /\ j - 1 \in 0 .. incrementalBatches
    BY <1>0, <2>1
  <2>2. \A j \in 0 .. incrementalBatches :
           Start(n, j) = IF j = 0 THEN 0 ELSE Start(n, j - 1) + Size(n, j)
    BY <2>1, StartFacts
  <2> QED
    BY <2>1, <2>2
<1>2. at = [j \in 0 .. incrementalBatches |-> IF j = 0 THEN 0 ELSE at[j - 1] + Size(n, j)]
  <2> HIDE DEF f
  <2> QED
    BY <1>1
<1>3. batchBounds(n, b) = (at[b - 1] + 1) .. at[b]
  BY DEF batchBounds, Size
<1> HIDE DEF at
<1> DEFINE I == {j \in Nat : j <= incrementalBatches => at[j] = Start(n, j)}
<1>4. 0 \in I
  <2>1. 0 \in 0 .. incrementalBatches
    BY <1>0
  <2> QED
    BY <1>2, <2>1, StartFacts
<1>5. ASSUME NEW j \in Nat, j \in I PROVE j + 1 \in I
  <2>1. CASE j + 1 <= incrementalBatches
    <3>1. /\ j + 1 \in 0 .. incrementalBatches /\ j + 1 \in 1 .. incrementalBatches /\ j + 1 # 0
          /\ (j + 1) - 1 = j /\ j <= incrementalBatches
      BY <1>0, <2>1
    <3>2. at[j + 1] = at[j] + Size(n, j + 1)
      BY <1>2, <3>1
    <3>3. Start(n, j + 1) = Start(n, j) + Size(n, j + 1)
      BY <3>1, StartFacts
    <3>4. at[j] = Start(n, j)
      BY <1>5, <3>1
    <3> QED
      BY <3>2, <3>3, <3>4
  <2>2. CASE ~(j + 1 <= incrementalBatches)
    BY <2>2
  <2> QED
    BY <2>1, <2>2
<1> HIDE DEF I
<1>6. Nat \subseteq I
  BY <1>4, <1>5, NatSetInduction
<1>7. b \in I /\ b - 1 \in I /\ b <= incrementalBatches /\ b - 1 <= incrementalBatches
  BY <1>0, <1>6
<1> QED
  BY <1>3, <1>7 DEF I

\* A batch begins where the last one ended, and the last ends with the requests.
LEMMA BatchesPartition ==
  ASSUME NEW n \in Nat, NEW j \in 0 .. (incrementalBatches - 1)
  PROVE  /\ batchBounds(n, j + 1) \cap (1 .. Start(n, j)) = {}
         /\ batchBounds(n, j + 1) \cup (1 .. Start(n, j)) = 1 .. Start(n, j + 1)
         /\ 1 .. Start(n, j + 1) \subseteq 1 .. n
<1>0. incrementalBatches \in Nat \ {0}
  BY AssignmentAssumption
<1>1. j + 1 \in 1 .. incrementalBatches /\ (j + 1) - 1 = j /\ j \in 0 .. incrementalBatches /\ j \in Nat
  BY <1>0
<1>2. batchBounds(n, j + 1) = (Start(n, j) + 1) .. Start(n, j + 1)
  BY <1>1, BatchBoundsIs
<1>3. PICK s \in Nat : s = Start(n, j)
  BY <1>1, StartFacts
<1>4. PICK t \in Nat : t = Start(n, j + 1)
  BY <1>0, <1>1, StartFacts
<1>5. s <= t
  BY <1>1, <1>3, <1>4, StartFacts
<1>6. t <= n
  <2> DEFINE I == {m \in Nat : j + 1 + m <= incrementalBatches => t <= Start(n, j + 1 + m)}
  <2>1. 0 \in I
    BY <1>1, <1>4
  <2>2. ASSUME NEW m \in Nat, m \in I PROVE m + 1 \in I
    <3>1. CASE j + 1 + (m + 1) <= incrementalBatches
      <4>1. /\ j + 1 + (m + 1) \in 1 .. incrementalBatches /\ (j + 1 + (m + 1)) - 1 = j + 1 + m
            /\ j + 1 + m <= incrementalBatches /\ j + 1 + m \in 0 .. incrementalBatches
        BY <1>0, <1>1, <3>1
      <4>2. /\ Start(n, j + 1 + (m + 1)) = Start(n, j + 1 + m) + Size(n, j + 1 + (m + 1))
            /\ Size(n, j + 1 + (m + 1)) \in Nat /\ Start(n, j + 1 + m) \in Nat
        BY <4>1, StartFacts
      <4>3. t <= Start(n, j + 1 + m)
        BY <2>2, <4>1
      <4>4. t <= Start(n, j + 1 + (m + 1))
        BY <4>2, <4>3
      <4> QED
        BY <4>4
    <3>2. CASE ~(j + 1 + (m + 1) <= incrementalBatches)
      BY <3>2
    <3> QED
      BY <3>1, <3>2
  <2> HIDE DEF I
  <2>3. Nat \subseteq I
    BY <2>1, <2>2, NatSetInduction
  <2>4. incrementalBatches - (j + 1) \in I /\ j + 1 + (incrementalBatches - (j + 1)) = incrementalBatches
    BY <1>0, <1>1, <2>3
  <2>5. t <= Start(n, incrementalBatches)
    BY <1>0, <2>4 DEF I
  <2> QED
    BY <2>5, StartFacts
<1>7. /\ ((s + 1) .. t) \cap (1 .. s) = {} /\ ((s + 1) .. t) \cup (1 .. s) = 1 .. t
      /\ 1 .. t \subseteq 1 .. n
  BY <1>5, <1>6
<1> QED
  BY <1>2, <1>3, <1>4, <1>7

-----------------------------------------------------------------------------
(* A pass, and what it costs.                                               *)

LEMMA PassFacts ==
  ASSUME IsBatch, NEW ids, ids \subseteq DOMAIN reqs, NEW w, NEW chosen \in assignAON(ids, w)
  PROVE  /\ Routed(chosen, ids)
         /\ \A i \in ids : chosen[i] \in Cheapest(OD(i), w) /\ chosen[i] \in Paths[OD(i)]
<1> DEFINE ods == {OD(i) : i \in ids}
           best == [od \in ods |-> Cheapest(od, w)]
<1>1. PICK c \in [ods -> UNION {best[od] : od \in ods}] :
         (\A od \in ods : c[od] \in best[od]) /\ chosen = [i \in ids |-> c[OD(i)]]
  BY DEF assignAON
<1>2. ASSUME NEW i \in ids
      PROVE  /\ chosen[i] \in Cheapest(OD(i), w) /\ chosen[i] \in Paths[OD(i)]
             /\ IsPath(chosen[i], reqs[i].from, reqs[i].to)
  <2>1. OD(i) \in ods /\ chosen[i] = c[OD(i)]
    BY <1>1
  <2>2. chosen[i] \in Cheapest(OD(i), w)
    BY <1>1, <2>1
  <2>3. chosen[i] \in Paths[OD(i)]
    BY <2>2 DEF Cheapest
  <2>4. reqs[i].from \in Nodes /\ reqs[i].to \in Nodes
    BY WeightFacts
  <2>5. IsPath(chosen[i], reqs[i].from, reqs[i].to)
    BY <2>3, <2>4, PathIs DEF OD
  <2> QED
    BY <2>2, <2>3, <2>5
<1>3. DOMAIN chosen = ids
  BY <1>1
<1> QED
  BY <1>2, <1>3 DEF Routed

Terms(chosen, w) == [i \in DOMAIN chosen |-> RequestWeight(reqs[i]) * pathCost(chosen[i], w)]

LEMMA TermsFacts ==
  ASSUME IsBatch, NEW chosen, NEW D, Routed(chosen, D), NEW w, IsWeight(w)
  PROVE  /\ IsFiniteSet(D)
         /\ \A i \in D : /\ Terms(chosen, w)[i] = Weights[i] * pathCost(chosen[i], w)
                         /\ Terms(chosen, w)[i] \in Nat /\ pathCost(chosen[i], w) \in Nat
                         /\ Weights[i] \in Nat /\ Weights[i] >= 1
         /\ \A f : totalSP(f, chosen, w) = f.den * SumFunctionOnSet(Terms(chosen, w), D)
<1>1. IsFiniteSet(D) /\ DOMAIN chosen = D /\ D \subseteq DOMAIN reqs
  BY WeightFacts DEF Routed
<1>2. ASSUME NEW i \in D
      PROVE  /\ Terms(chosen, w)[i] = Weights[i] * pathCost(chosen[i], w)
             /\ Terms(chosen, w)[i] \in Nat /\ pathCost(chosen[i], w) \in Nat
             /\ Weights[i] \in Nat /\ Weights[i] >= 1
  <2>1. Weights[i] = RequestWeight(reqs[i]) /\ Weights[i] \in Nat /\ Weights[i] >= 1
    BY <1>1, WeightFacts
  <2>2. chosen[i] \in Seq(Edges)
    BY DEF Routed, IsPath
  <2>3. pathCost(chosen[i], w) \in Nat
    BY <2>2, PathCostIsSum
  <2>4. Terms(chosen, w)[i] = Weights[i] * pathCost(chosen[i], w)
    BY <1>1, <2>1 DEF Terms
  <2> QED
    BY <2>1, <2>3, <2>4
<1>3. ASSUME NEW f PROVE totalSP(f, chosen, w) = f.den * SumFunctionOnSet(Terms(chosen, w), D)
  <2>1. DOMAIN Terms(chosen, w) = D
    BY <1>1 DEF Terms
  <2>2. totalSP(f, chosen, w) = f.den * SumFunctionOnSet(Terms(chosen, w), DOMAIN Terms(chosen, w))
    BY DEF totalSP, Terms, SumFunction
  <2> QED
    BY <2>1, <2>2
<1> QED
  BY <1>1, <1>2, <1>3

\* The total of a pass is zero only when each of its paths costs nothing.
LEMMA TotalFacts ==
  ASSUME IsBatch, NEW chosen, NEW D, Routed(chosen, D), NEW w, IsWeight(w), NEW f, f.den \in Nat \ {0}
  PROVE  /\ totalSP(f, chosen, w) \in Nat
         /\ totalSP(f, chosen, w) <= 0 => \A i \in D : pathCost(chosen[i], w) = 0
         /\ (\A i \in D : pathCost(chosen[i], w) = 0) => totalSP(f, chosen, w) = 0
<1>1. IsFiniteSet(D) /\ \A i \in D : Terms(chosen, w)[i] \in Nat
  BY TermsFacts
<1>2. PICK s \in Nat : s = SumFunctionOnSet(Terms(chosen, w), D)
  BY <1>1, SumNat
<1>3. totalSP(f, chosen, w) = f.den * s
  BY <1>2, TermsFacts
<1>4. PICK d \in Nat \ {0} : d = f.den
  OBVIOUS
<1>5. d * s \in Nat /\ (d * s <= 0 => s = 0)
  <2>1. 1 * s <= d * s /\ d * s \in Nat /\ 1 * s = s
    BY MulMono
  <2> QED
    BY <2>1
<1>6. ASSUME s = 0, NEW i \in D PROVE pathCost(chosen[i], w) = 0
  <2>0. SumFunctionOnSet(Terms(chosen, w), D) <= 0
    BY <1>2, <1>6
  <2>1. Terms(chosen, w)[i] = 0
    BY <1>1, <1>6, <2>0, SumZero
  <2>2. PICK c \in Nat : c = pathCost(chosen[i], w)
    BY TermsFacts
  <2>3. PICK a \in Nat : a = Weights[i] /\ 1 <= a
    BY TermsFacts
  <2>4. a * c = 0
    BY <2>1, <2>2, <2>3, TermsFacts
  <2>5. 1 * c <= a * c /\ 1 * c = c
    BY <2>3, MulMono
  <2>6. c = 0
    BY <2>4, <2>5
  <2> QED
    BY <2>2, <2>6
<1>7. ASSUME \A i \in D : pathCost(chosen[i], w) = 0 PROVE s = 0
  <2>1. ASSUME NEW i \in D PROVE Terms(chosen, w)[i] = 0
    <3>1. Terms(chosen, w)[i] = Weights[i] * 0 /\ Weights[i] \in Nat
      BY <1>7, TermsFacts
    <3> QED
      BY <3>1
  <2>2. \A i \in D : Terms(chosen, w)[i] \in Int /\ Terms(chosen, w)[i] = Terms(chosen, w)[i] + Terms(chosen, w)[i]
    BY <2>1
  <2>3. s = s + s
    BY <1>1, <1>2, <2>2, SumPlus
  <2> QED
    BY <2>3
<1>8. d * 0 = 0
  OBVIOUS
<1> QED
  BY <1>3, <1>4, <1>5, <1>6, <1>7, <1>8

\* Every pass under the same weights has the same total.
LEMMA TotalUnique ==
  ASSUME IsBatch, NEW ids, ids \subseteq DOMAIN reqs, NEW w, IsWeight(w),
         NEW c \in assignAON(ids, w), NEW d \in assignAON(ids, w), NEW f
  PROVE  totalSP(f, c, w) = totalSP(f, d, w)
<1>1. /\ Routed(c, ids) /\ \A i \in ids : c[i] \in Cheapest(OD(i), w) /\ c[i] \in Paths[OD(i)]
      /\ Routed(d, ids) /\ \A i \in ids : d[i] \in Cheapest(OD(i), w) /\ d[i] \in Paths[OD(i)]
  BY PassFacts
<1>2. ASSUME NEW i \in ids PROVE Terms(c, w)[i] \in Int /\ Terms(d, w)[i] = Terms(c, w)[i]
  <2>1. pathCost(c[i], w) <= pathCost(d[i], w) /\ pathCost(d[i], w) <= pathCost(c[i], w)
    BY <1>1 DEF Cheapest
  <2>2. /\ Terms(c, w)[i] = Weights[i] * pathCost(c[i], w)
        /\ Terms(c, w)[i] \in Nat /\ pathCost(c[i], w) \in Nat
    BY <1>1, TermsFacts
  <2>3. Terms(d, w)[i] = Weights[i] * pathCost(d[i], w) /\ pathCost(d[i], w) \in Nat
    BY <1>1, TermsFacts
  <2>4. pathCost(c[i], w) = pathCost(d[i], w)
    BY <2>1, <2>2, <2>3
  <2> QED
    BY <2>2, <2>3, <2>4
<1>3. IsFiniteSet(ids)
  BY WeightFacts
<1>4. SumFunctionOnSet(Terms(c, w), ids) = SumFunctionOnSet(Terms(d, w), ids)
  BY <1>2, <1>3, SumSame
<1> QED
  BY <1>1, <1>4, TermsFacts

LEMMA EdgeCostFacts ==
  ASSUME NEW f, IsFlow(f), NEW w, IsWeight(w)
  PROVE  edgeCostSum(f, w) \in Nat /\ (f.num = newFlowVector.num => edgeCostSum(f, w) = 0)
<1> DEFINE g == [e \in Edges |-> f.num[e] * w[e]]
<1>0. IsFiniteSet(Edges)
  BY AssignmentAssumption
<1>1. \A e \in Edges : g[e] \in Nat
  <2>1. \A e \in Edges : f.num[e] \in Nat /\ w[e] \in Nat
    BY DEF IsFlow, IsWeight
  <2>2. \A a, b \in Nat : a * b \in Nat
    OBVIOUS
  <2> QED
    BY <2>1, <2>2
<1>2. edgeCostSum(f, w) = SumFunctionOnSet(g, Edges)
  BY DEF edgeCostSum, SumFunction
<1>3. ASSUME f.num = newFlowVector.num PROVE \A e \in Edges : g[e] = 0
  <2>1. \A e \in Edges : f.num[e] = 0 /\ w[e] \in Nat
    BY <1>3 DEF newFlowVector, IsWeight
  <2>2. \A b \in Nat : 0 * b = 0
    OBVIOUS
  <2> QED
    BY <2>1, <2>2
<1> HIDE DEF g
<1>4. SumFunctionOnSet(g, Edges) \in Nat
  BY <1>0, <1>1, SumNat
<1>5. ASSUME f.num = newFlowVector.num PROVE SumFunctionOnSet(g, Edges) = 0
  <2>1. \A e \in Edges : g[e] \in Int /\ g[e] = g[e] + g[e]
    BY <1>3, <1>5
  <2>2. SumFunctionOnSet(g, Edges) = SumFunctionOnSet(g, Edges) + SumFunctionOnSet(g, Edges)
    BY <1>0, <2>1, SumPlus
  <2>3. \A r \in Nat : r = r + r => r = 0
    OBVIOUS
  <2> QED
    BY <1>4, <2>2, <2>3
<1> QED
  BY <1>2, <1>4, <1>5

-----------------------------------------------------------------------------
(* The loop.                                                                *)

IInv == Inv /\ NoPartialAnswer /\ StoppedAtEquilibrium

\* What TypeOK says of the batch and the flow.
LEMMA TypeFacts ==
  ASSUME TypeOK
  PROVE  /\ IsBatch /\ Len(reqs) \in Nat /\ DOMAIN reqs = 1 .. Len(reqs)
         /\ IsFlow(flow) /\ flow = [num |-> flow.num, den |-> flow.den]
         /\ k \in Nat /\ maxIterations \in Nat /\ maxIterations >= incrementalBatches
         /\ incrementalBatches \in Nat \ {0} /\ ToleranceInverse \in Nat \ {0}
<1>1. IsBatch
  BY AssignmentAssumption DEF TypeOK, IsBatch
<1>2. Len(reqs) \in Nat /\ DOMAIN reqs = 1 .. Len(reqs)
  BY <1>1 DEF IsBatch
<1>3. maxIterations \in Nat /\ maxIterations >= incrementalBatches
      /\ incrementalBatches \in Nat \ {0} /\ ToleranceInverse \in Nat \ {0}
  BY AssignmentAssumption
<1>4. IsFlow(flow) /\ flow = [num |-> flow.num, den |-> flow.den] /\ k \in Nat
  BY <1>3 DEF TypeOK, IsFlow
<1> QED
  BY <1>1, <1>2, <1>3, <1>4

LEMMA OutflowIs ==
  ASSUME NEW x \in [Edges -> Nat], NEW n
  PROVE  /\ SumFunction([e \in {y \in Edges : From[y] = n} |-> x[e]]) = SumFunctionOnSet(x, Out(n))
         /\ SumFunction([e \in {y \in Edges : To[y] = n} |-> x[e]]) = SumFunctionOnSet(x, In(n))
<1>1. ASSUME NEW f, NEW S, IsFiniteSet(S), S \subseteq Edges, f = [e \in S |-> x[e]]
      PROVE  SumFunction(f) = SumFunctionOnSet(x, S)
  <2>1. \A e \in S : x[e] \in Int /\ f[e] = x[e]
    BY <1>1
  <2>2. SumFunctionOnSet(x, S) = SumFunctionOnSet(f, S)
    BY <1>1, <2>1, SumSame
  <2>3. DOMAIN f = S
    BY <1>1
  <2> QED
    BY <2>2, <2>3 DEF SumFunction
<1> DEFINE outs == [e \in {y \in Edges : From[y] = n} |-> x[e]]
           ins == [e \in {y \in Edges : To[y] = n} |-> x[e]]
<1>2. /\ outs = [e \in Out(n) |-> x[e]] /\ Out(n) \subseteq Edges
      /\ ins = [e \in In(n) |-> x[e]] /\ In(n) \subseteq Edges
  BY DEF Out, In
<1> HIDE DEF outs, ins
<1>3. SumFunction(outs) = SumFunctionOnSet(x, Out(n)) /\ SumFunction(ins) = SumFunctionOnSet(x, In(n))
  BY <1>1, <1>2, OutInFinite
<1> QED
  BY <1>3 DEF outs, ins

LEMMA DemandIs ==
  ASSUME IsBatch, NEW D, D \subseteq DOMAIN reqs, NEW n
  PROVE  /\ SumFunction([i \in {j \in D : reqs[j].from = n} |-> RequestWeight(reqs[i])]) =
               SumFunctionOnSet(Weights, Leaving(D, n))
         /\ SumFunction([i \in {j \in D : reqs[j].to = n} |-> RequestWeight(reqs[i])]) =
               SumFunctionOnSet(Weights, Arriving(D, n))
<1> DEFINE f == [i \in {j \in D : reqs[j].from = n} |-> RequestWeight(reqs[i])]
           g == [i \in {j \in D : reqs[j].to = n} |-> RequestWeight(reqs[i])]
<1>1. DOMAIN f = Leaving(D, n) /\ DOMAIN g = Arriving(D, n)
  BY DEF Leaving, Arriving
<1>2. /\ \A i \in DOMAIN f : f[i] = RequestWeight(reqs[i])
      /\ \A i \in DOMAIN g : g[i] = RequestWeight(reqs[i])
  OBVIOUS
<1>3. DOMAIN f \subseteq DOMAIN reqs /\ DOMAIN g \subseteq DOMAIN reqs
  OBVIOUS
<1> HIDE DEF f, g
<1>4. /\ SumFunction(f) = SumFunctionOnSet(Weights, DOMAIN f)
      /\ SumFunction(g) = SumFunctionOnSet(Weights, DOMAIN g)
  BY <1>2, <1>3, WeightFacts
<1>5. SumFunction(f) = SumFunctionOnSet(Weights, Leaving(D, n))
  BY <1>1, <1>4
<1>6. SumFunction(g) = SumFunctionOnSet(Weights, Arriving(D, n))
  BY <1>1, <1>4
<1> QED
  BY <1>5, <1>6 DEF f, g

\* DemandConserved in the terms of the lemmas above, before a step and after it.
LEMMA ConservedIs ==
  ASSUME IsBatch
  PROVE  /\ flow.num \in [Edges -> Nat] /\ DOMAIN routes \subseteq DOMAIN reqs =>
               (DemandConserved <=>
                   \A n \in Nodes : Net(flow.num, n) = flow.den * Demand(DOMAIN routes, n))
         /\ flow'.num \in [Edges -> Nat] /\ DOMAIN routes' \subseteq DOMAIN reqs /\ reqs' = reqs =>
               (DemandConserved' <=>
                   \A n \in Nodes : Net(flow'.num, n) = flow'.den * Demand(DOMAIN routes', n))
<1>1. ASSUME flow.num \in [Edges -> Nat], DOMAIN routes \subseteq DOMAIN reqs, NEW n
      PROVE  NetOutflow(n) = Net(flow.num, n) /\ NetDemand(n) = Demand(DOMAIN routes, n)
  <2>1. NetOutflow(n) = Net(flow.num, n)
    BY <1>1, OutflowIs DEF NetOutflow, Net
  <2>2. NetDemand(n) = Demand(DOMAIN routes, n)
    BY <1>1, DemandIs DEF NetDemand, Demand
  <2> QED
    BY <2>1, <2>2
<1>2. ASSUME flow'.num \in [Edges -> Nat], DOMAIN routes' \subseteq DOMAIN reqs, reqs' = reqs, NEW n
      PROVE  NetOutflow(n)' = Net(flow'.num, n) /\ NetDemand(n)' = Demand(DOMAIN routes', n)
  <2>1. NetOutflow(n)' = Net(flow'.num, n)
    BY <1>2, OutflowIs DEF NetOutflow, Net
  <2>2. NetDemand(n)' =
           SumFunction([i \in {j \in DOMAIN routes' : reqs[j].from = n} |-> RequestWeight(reqs[i])])
             - SumFunction([i \in {j \in DOMAIN routes' : reqs[j].to = n} |-> RequestWeight(reqs[i])])
    BY <1>2 DEF NetDemand
  <2>3. NetDemand(n)' = Demand(DOMAIN routes', n)
    BY <1>2, <2>2, DemandIs DEF Demand
  <2> QED
    BY <2>1, <2>3
<1>3. ASSUME flow.num \in [Edges -> Nat], DOMAIN routes \subseteq DOMAIN reqs
      PROVE  DemandConserved <=> \A n \in Nodes : Net(flow.num, n) = flow.den * Demand(DOMAIN routes, n)
  BY <1>1, <1>3 DEF DemandConserved
<1>4. ASSUME flow'.num \in [Edges -> Nat], DOMAIN routes' \subseteq DOMAIN reqs, reqs' = reqs
      PROVE  DemandConserved' <=> \A n \in Nodes : Net(flow'.num, n) = flow'.den * Demand(DOMAIN routes', n)
  BY <1>2, <1>4 DEF DemandConserved
<1> QED
  BY <1>3, <1>4

\* What a pass is does not depend on the step taken.
LEMMA PassUnmoved ==
  ASSUME reqs' = reqs, NEW w, NEW f, NEW c
  PROVE  /\ assignAON(DOMAIN reqs, w)' = assignAON(DOMAIN reqs, w)
         /\ totalSP(f, c, w)' = totalSP(f, c, w)
         /\ routeFlow(c)' = routeFlow(c)
         /\ \A i : OD(i)' = OD(i)
<1>1. \A i : OD(i)' = OD(i)
  BY DEF OD
<1>2. assignAON(DOMAIN reqs, w)' = assignAON(DOMAIN reqs, w)
  BY DEF assignAON, OD
<1>3. totalSP(f, c, w)' = totalSP(f, c, w)
  BY DEF totalSP
<1>4. routeFlow(c)' = routeFlow(c)
  BY DEF routeFlow
<1> QED
  BY <1>1, <1>2, <1>3, <1>4

LEMMA InitInv == Init => IInv
<1> SUFFICES ASSUME Init PROVE IInv
  OBVIOUS
<1>1. TypeOK
  <2>1. maxIterations \in Nat /\ 1 \in 1 .. maxIterations /\ 0 \in 0 .. maxIterations
    BY AssignmentAssumption
  <2>2. newFlowVector \in [num : [Edges -> Nat], den : 1 .. maxIterations]
    BY <2>1 DEF newFlowVector
  <2>3. DOMAIN routes = {} /\ routes = <<>> /\ k = 0
    BY DEF Init
  <2>4. DOMAIN routes \subseteq DOMAIN reqs /\ \A i \in DOMAIN routes : routes[i] \in Paths[OD(i)]
    BY <2>3
  <2>5. gap.excess \in Int /\ gap.base \in Nat \ {0}
    BY DEF Init
  <2>6. flow \in [num : [Edges -> Nat], den : 1 .. maxIterations] /\ k \in 0 .. maxIterations
    BY <2>1, <2>2, <2>3 DEF Init
  <2>7. /\ strategy \in Averaging \cup {"incremental"} /\ reqs \in Batches /\ cancelled \in BOOLEAN
        /\ outcome \in {"running", "converged", "exhausted", "unreachable", "cancelled"}
    BY DEF Init
  <2> QED
    BY <2>4, <2>5, <2>6, <2>7 DEF TypeOK
<1>2. IsBatch /\ incrementalBatches \in Nat \ {0} /\ DOMAIN routes = {}
  BY <1>1, TypeFacts DEF Init
<1>3. routeFlow(routes) = newFlowVector.num
  <2>1. \A e : {j \in DOMAIN routes : e \in Range(routes[j])} = {}
    BY <1>2
  <2>2. \A f : DOMAIN f = {} => SumFunction(f) = 0
    BY SumEmpty DEF SumFunction
  <2>3. \A e \in Edges : routeFlow(routes)[e] = 0
    <3> SUFFICES ASSUME NEW e \in Edges PROVE routeFlow(routes)[e] = 0
      OBVIOUS
    <3> DEFINE f == [i \in {j \in DOMAIN routes : e \in Range(routes[j])} |-> RequestWeight(reqs[i])]
    <3>1. DOMAIN f = {}
      BY <2>1
    <3>2. routeFlow(routes)[e] = SumFunction(f)
      BY DEF routeFlow
    <3> HIDE DEF f
    <3> QED
      BY <2>2, <3>1, <3>2
  <2>4. routeFlow(routes) = [e \in Edges |-> routeFlow(routes)[e]]
    BY DEF routeFlow
  <2> QED
    BY <2>3, <2>4 DEF newFlowVector
<1>4. Progress
  <2>1. {batchBounds(Len(reqs), b) : b \in 1 .. 0} = {}
    OBVIOUS
  <2> QED
    BY <1>2, <1>3, <2>1 DEF Init, Progress, newFlowVector, Averaging
<1>5. DemandConserved
  <2> SUFFICES ASSUME NEW n \in Nodes PROVE Net(flow.num, n) = flow.den * Demand(DOMAIN routes, n)
    BY <1>1, <1>2, ConservedIs, TypeFacts DEF IsFlow
  <2>1. Routed(routes, {})
    BY <1>2 DEF Routed
  <2>2. routeFlow(routes) = FlowOf(routes, {})
    BY <1>2, RouteFlowIs
  <2>3. Net(flow.num, n) = Demand({}, n)
    BY <1>2, <1>3, <2>1, <2>2, NetOfRoutes DEF Init
  <2>4. Demand({}, n) \in Int /\ flow.den = 1
    BY <1>2, DemandInt DEF Init, newFlowVector
  <2> QED
    BY <1>2, <2>3, <2>4
<1>6. SomeoneHasToPay /\ NoPartialAnswer /\ StoppedAtEquilibrium
  BY DEF Init, SomeoneHasToPay, NoPartialAnswer, StoppedAtEquilibrium
<1> QED
  BY <1>1, <1>4, <1>5, <1>6 DEF IInv, Inv

LEMMA FailKeeps ==
  ASSUME IInv, outcome = "running", NEW reason \in {"unreachable", "cancelled"}, Fail(reason)
  PROVE  IInv'
<1>1. /\ outcome' = reason /\ flow' = newFlowVector /\ routes' = <<>> /\ DOMAIN routes' = {}
      /\ gap' = [excess |-> 0, base |-> 1] /\ strategy' = strategy /\ reqs' = reqs
      /\ cancelled' = cancelled /\ k' = k
  BY DEF Fail
<1>2. TypeOK /\ IsBatch
  BY TypeFacts DEF IInv, Inv
<1>3. TypeOK'
  <2>1. maxIterations \in Nat /\ 1 \in 1 .. maxIterations
    BY AssignmentAssumption
  <2>2. newFlowVector \in [num : [Edges -> Nat], den : 1 .. maxIterations]
    BY <2>1 DEF newFlowVector
  <2> QED
    BY <1>1, <1>2, <2>2 DEF TypeOK
<1>4. DemandConserved'
  <2>1. flow'.num \in [Edges -> Nat] /\ flow'.den = 1 /\ \A e \in Edges : flow'.num[e] = 0
    BY <1>1 DEF newFlowVector
  <2> SUFFICES ASSUME NEW n \in Nodes PROVE Net(flow'.num, n) = flow'.den * Demand(DOMAIN routes', n)
    BY <1>1, <1>2, <2>1, ConservedIs
  <2>2. Net(flow'.num, n) = Net(flow'.num, n) + Net(flow'.num, n) /\ Net(flow'.num, n) \in Int
    BY <2>1, NetPlus, NetInt DEF IsLoad
  <2>3. Demand({}, n) = 0
    <3>1. Leaving({}, n) = {} /\ Arriving({}, n) = {}
      BY DEF Leaving, Arriving
    <3> QED
      BY <3>1, SumEmpty DEF Demand
  <2>4. \A r \in Int : r = r + r => r = 0
    OBVIOUS
  <2>5. Net(flow'.num, n) = 0
    BY <2>2, <2>4
  <2> QED
    BY <1>1, <2>1, <2>3, <2>5
<1>5. Progress' /\ SomeoneHasToPay' /\ NoPartialAnswer' /\ StoppedAtEquilibrium'
  BY <1>1 DEF Progress, SomeoneHasToPay, NoPartialAnswer, StoppedAtEquilibrium
<1> QED
  BY <1>3, <1>4, <1>5 DEF IInv, Inv

LEMMA CancelKeeps == ASSUME IInv, Cancel PROVE IInv'
<1>1. UNCHANGED <<strategy, reqs, k, flow, routes, gap, outcome>> /\ cancelled' \in BOOLEAN
  BY DEF Cancel
<1>2. TypeOK'
  BY <1>1 DEF IInv, Inv, TypeOK, OD
<1>3. DemandConserved'
  BY <1>1 DEF IInv, Inv, DemandConserved, NetOutflow, NetDemand
<1>4. Progress' /\ SomeoneHasToPay'
  BY <1>1 DEF IInv, Inv, Progress, SomeoneHasToPay, routeFlow, OD
<1>5. NoPartialAnswer'
  BY <1>1 DEF IInv, NoPartialAnswer, routeFlow
<1>6. StoppedAtEquilibrium'
  BY <1>1 DEF Cancel, StoppedAtEquilibrium
<1> QED
  BY <1>2, <1>3, <1>4, <1>5, <1>6 DEF IInv, Inv

LEMMA StutterKeeps == ASSUME IInv, UNCHANGED vars PROVE IInv'
<1>1. UNCHANGED <<strategy, reqs, cancelled, k, flow, routes, gap, outcome>>
  BY DEF vars
<1>2. TypeOK'
  BY <1>1 DEF IInv, Inv, TypeOK, OD
<1>3. DemandConserved'
  BY <1>1 DEF IInv, Inv, DemandConserved, NetOutflow, NetDemand
<1>4. Progress' /\ SomeoneHasToPay'
  BY <1>1 DEF IInv, Inv, Progress, SomeoneHasToPay, routeFlow, OD
<1>5. NoPartialAnswer'
  BY <1>1 DEF IInv, NoPartialAnswer, routeFlow
<1>6. StoppedAtEquilibrium'
  <2>1. Measured' = Measured
    BY <1>1 DEF Measured, routeFlow
  <2>2. PICK m : m = Measured
    OBVIOUS
  <2>3. PICK w : w = Basis(strategy, m)
    OBVIOUS
  <2>4. EquilibriumWithin(m, w)' <=> EquilibriumWithin(m, w)
    <3>1. assignAON(DOMAIN reqs, w)' = assignAON(DOMAIN reqs, w)
      BY <1>1, PassUnmoved
    <3>2. \A c : totalSP(m, c, w)' = totalSP(m, c, w)
      BY <1>1, PassUnmoved
    <3>3. EquilibriumWithin(m, w)' <=>
             \A best \in assignAON(DOMAIN reqs, w)' :
                (edgeCostSum(m, w) - totalSP(m, best, w)') * ToleranceInverse <= totalSP(m, best, w)'
      BY DEF EquilibriumWithin
    <3> QED
      BY <3>1, <3>2, <3>3 DEF EquilibriumWithin
  <2>5. EquilibriumWithin(Measured, Basis(strategy, Measured))'
           <=> EquilibriumWithin(Measured, Basis(strategy, Measured))
    <3>1. EquilibriumWithin(Measured, Basis(strategy, Measured)) <=> EquilibriumWithin(m, w)
      BY <2>2, <2>3
    <3> QED
      BY <1>1, <2>1, <2>2, <2>3, <2>4, <3>1
  <2> QED
    BY <1>1, <2>5 DEF IInv, StoppedAtEquilibrium
<1> QED
  BY <1>2, <1>3, <1>4, <1>5, <1>6 DEF IInv, Inv

-----------------------------------------------------------------------------
(* An averaging step.                                                       *)

\* The verdict the loop draws from a gap.
LEMMA GapFacts ==
  ASSUME NEW tstt \in Int, NEW sptt \in Nat, NEW g, g = relativeGap(tstt, sptt)
  PROVE  /\ g.excess \in Int /\ g.base \in Nat \ {0}
         /\ sptt = 0 => belowTolerance(g)
         /\ belowTolerance(g) /\ sptt > 0 =>
               (tstt - sptt) * ToleranceInverse <= sptt
         /\ tstt = 0 /\ belowTolerance(g) => sptt = 0
<1>0. PICK t \in Nat : t = ToleranceInverse /\ 1 <= t
  BY AssignmentAssumption
<1>1. CASE sptt = 0
  <2>1. g = [excess |-> 0, base |-> 1]
    BY <1>1 DEF relativeGap
  <2>2. belowTolerance(g)
    <3>1. 0 * t = 0
      OBVIOUS
    <3> QED
      BY <1>0, <2>1, <3>1 DEF belowTolerance, Abs
  <2> QED
    BY <1>1, <2>1, <2>2
<1>2. CASE sptt # 0
  <2>1. g.excess = tstt - sptt /\ g.base = sptt /\ sptt > 0
    BY <1>2 DEF relativeGap
  <2>2. ASSUME belowTolerance(g) PROVE (tstt - sptt) * t <= sptt /\ tstt # 0
    <3>1. PICK x \in Int : x = tstt - sptt
      OBVIOUS
    <3>2. Abs(x) * t < sptt
      BY <1>0, <2>1, <2>2, <3>1 DEF belowTolerance
    <3>3. PICK a \in Nat : a = Abs(x) /\ x <= a /\ -x <= a
      BY DEF Abs
    <3>4. a * t < sptt /\ a * t \in Nat
      BY <3>2, <3>3
    <3>5. x * t <= a * t
      <4>1. CASE x <= 0
        <5>1. x * t <= 0
          BY <1>0, <4>1
        <5> QED
          BY <3>4, <5>1
      <4>2. CASE x > 0
        BY <3>3, <4>2, MulMono
      <4> QED
        BY <4>1, <4>2
    <3>6. x * t <= sptt
      <4>1. x * t \in Int
        OBVIOUS
      <4> QED
        BY <3>4, <3>5, <4>1
    <3>7. tstt # 0
      <4>1. a * 1 <= a * t /\ a * 1 = a
        BY <1>0, MulMono
      <4>2. a < sptt
        BY <3>4, <4>1
      <4> QED
        BY <3>1, <3>3, <4>2
    <3> QED
      BY <3>1, <3>6, <3>7
  <2> QED
    BY <1>0, <1>2, <2>1, <2>2
<1> QED
  BY <1>1, <1>2

\* A pass of the whole batch by an averaging strategy: the names of the step.
Averages(w, chosen) ==
    /\ outcome = "running" /\ k < maxIterations /\ strategy \in Averaging
    /\ w = Basis(strategy, flow) /\ chosen \in assignAON(DOMAIN reqs, w)
    /\ flow' = [num |-> [e \in Edges |-> flow.num[e] + routeFlow(chosen)[e]], den |-> k + 1]
    /\ routes' = chosen /\ k' = k + 1
    /\ gap' = relativeGap(edgeCostSum(flow, w), totalSP(flow, chosen, w))
    /\ outcome' = IF belowTolerance(gap') THEN "converged"
                  ELSE IF k + 1 = maxIterations THEN "exhausted" ELSE "running"
    /\ strategy' = strategy /\ reqs' = reqs /\ cancelled' = cancelled

LEMMA AveragesFacts ==
  ASSUME IInv, NEW w, NEW chosen, Averages(w, chosen)
  PROVE  /\ IsBatch /\ IsFlow(flow) /\ IsWeight(w) /\ Routed(chosen, DOMAIN reqs)
         /\ \A i \in DOMAIN reqs : chosen[i] \in Cheapest(OD(i), w) /\ chosen[i] \in Paths[OD(i)]
         /\ \A i \in DOMAIN reqs : chosen[i] \in Seq(Edges)
         /\ routeFlow(chosen) \in [Edges -> Nat]
         /\ routeFlow(chosen) = FlowOf(chosen, DOMAIN reqs)
         /\ edgeCostSum(flow, w) \in Nat /\ totalSP(flow, chosen, w) \in Nat
         /\ k = 0 => flow = newFlowVector /\ DOMAIN routes = {} /\ edgeCostSum(flow, w) = 0
         /\ k # 0 => flow.den = k /\ DOMAIN routes = DOMAIN reqs
<1>1. IsBatch /\ IsFlow(flow) /\ k \in Nat
  BY TypeFacts DEF IInv, Inv
<1>2. IsWeight(w)
  BY <1>1, BasisFacts DEF Averages
<1>3. /\ Routed(chosen, DOMAIN reqs)
      /\ \A i \in DOMAIN reqs : chosen[i] \in Cheapest(OD(i), w) /\ chosen[i] \in Paths[OD(i)]
  BY <1>1, PassFacts DEF Averages
<1>4. \A i \in DOMAIN reqs : chosen[i] \in Seq(Edges)
  BY <1>3 DEF Routed, IsPath
<1>5. routeFlow(chosen) = FlowOf(chosen, DOMAIN reqs) /\ routeFlow(chosen) \in [Edges -> Nat]
  BY <1>1, <1>3, RouteFlowIs DEF Routed
<1>6. totalSP(flow, chosen, w) \in Nat
  BY <1>1, <1>2, <1>3, TotalFacts DEF IsFlow
<1>7. edgeCostSum(flow, w) \in Nat /\ (flow.num = newFlowVector.num => edgeCostSum(flow, w) = 0)
  BY <1>1, <1>2, EdgeCostFacts
<1>8. strategy # "incremental"
  BY DEF Averages, Averaging
<1>9. k = 0 => flow = newFlowVector /\ routes = <<>>
  BY <1>8 DEF Averages, IInv, Inv, Progress
<1>10. k # 0 => flow.den = k /\ DOMAIN routes = DOMAIN reqs
  BY <1>1, <1>8 DEF Averages, IInv, Inv, Progress
<1> QED
  BY <1>1, <1>2, <1>3, <1>4, <1>5, <1>6, <1>7, <1>9, <1>10

LEMMA AveragesTypes ==
  ASSUME IInv, NEW w, NEW chosen, Averages(w, chosen)
  PROVE  TypeOK' /\ Progress' /\ NoPartialAnswer'
<1>0. /\ TypeOK /\ k \in Nat /\ maxIterations \in Nat /\ k + 1 \in 1 .. maxIterations
      /\ strategy # "incremental" /\ k + 1 > 0 /\ k + 1 # 0
  BY TypeFacts DEF IInv, Inv, Averages, Averaging
<1>1. DOMAIN chosen = DOMAIN reqs
  BY AveragesFacts DEF Routed
<1>2. flow' \in [num : [Edges -> Nat], den : 1 .. maxIterations]
  <2>1. \A e \in Edges : flow.num[e] + routeFlow(chosen)[e] \in Nat
    BY AveragesFacts DEF IsFlow
  <2> QED
    BY <1>0, <2>1 DEF Averages
<1>3. gap'.excess \in Int /\ gap'.base \in Nat \ {0}
  BY AveragesFacts, GapFacts DEF Averages
<1>4. outcome' \in {"running", "converged", "exhausted"}
  BY DEF Averages
<1>5. \A i \in DOMAIN routes' : routes'[i] \in Paths[OD(i)']
  BY <1>1, AveragesFacts DEF Averages, OD
<1>6. TypeOK'
  <2>1. /\ strategy' \in Averaging \cup {"incremental"} /\ reqs' \in Batches
        /\ cancelled' \in BOOLEAN /\ k' \in 0 .. maxIterations
    BY <1>0 DEF Averages, TypeOK
  <2>2. DOMAIN routes' \subseteq DOMAIN reqs'
    BY <1>1 DEF Averages
  <2> QED
    BY <1>2, <1>3, <1>4, <1>5, <2>1, <2>2 DEF TypeOK
<1>7. Progress'
  <2>1. strategy' # "incremental" /\ k' # 0 /\ flow'.den = k' /\ DOMAIN routes' = DOMAIN reqs'
    BY <1>0, <1>1 DEF Averages
  <2> QED
    BY <2>1 DEF Progress
<1>8. NoPartialAnswer'
  BY <1>0, <1>1, <1>4 DEF NoPartialAnswer, Averages
<1> QED
  BY <1>6, <1>7, <1>8

LEMMA AveragesConserve ==
  ASSUME IInv, NEW w, NEW chosen, Averages(w, chosen)
  PROVE  DemandConserved'
<1> DEFINE x == flow.num
           y == routeFlow(chosen)
           z == flow'.num
           D == DOMAIN reqs
<1>1. /\ x \in [Edges -> Nat] /\ y \in [Edges -> Nat] /\ IsBatch /\ k \in Nat
      /\ IsLoad(x) /\ IsLoad(y)
  BY AveragesFacts, TypeFacts DEF IsFlow, IsLoad, IInv, Inv
<1>2. \A e \in Edges : z[e] = x[e] + y[e] /\ z[e] \in Nat
  BY <1>1 DEF Averages
<1>3. z = [e \in Edges |-> x[e] + y[e]] /\ flow'.den = k + 1 /\ DOMAIN routes' = D /\ reqs' = reqs
  BY AveragesFacts DEF Averages, Routed
<1>4. z \in [Edges -> Nat]
  BY <1>2, <1>3
<1> SUFFICES ASSUME NEW n \in Nodes PROVE Net(flow'.num, n) = flow'.den * Demand(DOMAIN routes', n)
  BY <1>1, <1>3, <1>4, ConservedIs
<1> HIDE DEF z
<1>5. Net(z, n) = Net(x, n) + Net(y, n)
  BY <1>1, <1>2, NetPlus
<1>6. PICK d \in Int : d = Demand(D, n)
  BY <1>1, DemandInt
<1>7. Net(y, n) = d
  <2>1. y = FlowOf(chosen, D) /\ Routed(chosen, D)
    BY AveragesFacts
  <2> HIDE DEF D
  <2>2. Net(FlowOf(chosen, D), n) = Demand(D, n)
    BY <1>1, <2>1, NetOfRoutes
  <2> QED
    BY <1>6, <2>1, <2>2
<1>8. Net(x, n) = k * d
  <2>1. TypeOK /\ DemandConserved /\ DOMAIN routes \subseteq DOMAIN reqs
    BY DEF IInv, Inv, TypeOK
  <2>2. Net(x, n) = flow.den * Demand(DOMAIN routes, n)
    BY <1>1, <2>1, ConservedIs
  <2>3. CASE k = 0
    <3>1. DOMAIN routes = {} /\ flow.den = 1
      BY <2>3, AveragesFacts DEF newFlowVector
    <3>2. Demand({}, n) = 0
      <4>1. Leaving({}, n) = {} /\ Arriving({}, n) = {}
        BY DEF Leaving, Arriving
      <4> QED
        BY <4>1, SumEmpty DEF Demand
    <3>3. 0 * d = 0
      OBVIOUS
    <3> QED
      BY <2>2, <2>3, <3>1, <3>2, <3>3
  <2>4. CASE k # 0
    BY <1>6, <2>2, <2>4, AveragesFacts
  <2> QED
    BY <2>3, <2>4
<1>9. k * d + d = (k + 1) * d
  BY <1>1
<1>10. Net(z, n) = (k + 1) * d
  BY <1>5, <1>7, <1>8, <1>9
<1> QED
  BY <1>3, <1>6, <1>10 DEF z

LEMMA AveragesPay ==
  ASSUME IInv, NEW w, NEW chosen, Averages(w, chosen)
  PROVE  SomeoneHasToPay'
<1> SUFFICES ASSUME outcome' = "running"
             PROVE  \E i \in DOMAIN reqs : \A p \in Paths[OD(i)] :
                       pathCost(p, Basis(strategy, newFlowVector)) > 0
  BY DEF SomeoneHasToPay, OD, Averages
<1>1. k \in Nat /\ flow.den \in Nat \ {0}
  BY TypeFacts DEF IInv, Inv, IsFlow
<1>2. CASE k = 0
  <2>1. ~belowTolerance(gap')
    BY DEF Averages
  <2>2. totalSP(flow, chosen, w) # 0
    BY <2>1, AveragesFacts, GapFacts DEF Averages
  <2>3. PICK i \in DOMAIN reqs : pathCost(chosen[i], w) # 0
    BY <1>1, <2>2, AveragesFacts, TotalFacts
  <2>4. w = Basis(strategy, newFlowVector)
    BY <1>2, AveragesFacts DEF Averages
  <2>5. pathCost(chosen[i], w) \in Nat
    BY AveragesFacts, PathCostIsSum
  <2>6. ASSUME NEW p \in Paths[OD(i)] PROVE pathCost(p, w) > 0
    <3>1. pathCost(chosen[i], w) <= pathCost(p, w)
      BY AveragesFacts DEF Cheapest
    <3>2. p \in Seq(Edges)
      <4>1. reqs[i].from \in Nodes /\ reqs[i].to \in Nodes
        BY AveragesFacts, WeightFacts
      <4>2. IsPath(p, reqs[i].from, reqs[i].to)
        BY <4>1, PathIs DEF OD
      <4> QED
        BY <4>2 DEF IsPath
    <3>3. pathCost(p, w) \in Nat
      BY <3>2, AveragesFacts, PathCostIsSum
    <3> QED
      BY <2>3, <2>5, <3>1, <3>3
  <2> QED
    BY <2>4, <2>6
<1>3. CASE k # 0
  BY <1>1, <1>3 DEF IInv, Inv, SomeoneHasToPay, Averages
<1> QED
  BY <1>2, <1>3

\* A closed gap is an equilibrium of the flow it was measured on.
LEMMA AveragesMeasured ==
  ASSUME IInv, NEW w, NEW chosen, Averages(w, chosen), outcome' = "converged"
  PROVE  /\ (edgeCostSum(flow, w) - totalSP(flow, chosen, w)) * ToleranceInverse
               <= totalSP(flow, chosen, w)
         /\ k = 0 => \A i \in DOMAIN reqs : pathCost(chosen[i], w) = 0
<1>0. flow.den \in Nat \ {0} /\ k \in Nat /\ ToleranceInverse \in Nat
  BY TypeFacts DEF IInv, Inv, IsFlow
<1>1. belowTolerance(gap')
  BY DEF Averages
<1>2. PICK t \in Nat : t = edgeCostSum(flow, w)
  BY AveragesFacts
<1>3. PICK s \in Nat : s = totalSP(flow, chosen, w)
  BY AveragesFacts
<1>4. /\ s > 0 => (t - s) * ToleranceInverse <= s
      /\ t = 0 => s = 0
  BY <1>1, <1>2, <1>3, GapFacts DEF Averages
<1>5. s = 0 => \A i \in DOMAIN reqs : pathCost(chosen[i], w) = 0
  <2>1. IsBatch /\ Routed(chosen, DOMAIN reqs) /\ IsWeight(w) /\ flow.den \in Nat \ {0}
    BY <1>0, AveragesFacts
  <2>2. totalSP(flow, chosen, w) <= 0 => \A i \in DOMAIN reqs : pathCost(chosen[i], w) = 0
    BY <2>1, TotalFacts
  <2>3. s = 0 => totalSP(flow, chosen, w) <= 0
    BY <1>3
  <2> QED
    BY <2>2, <2>3
<1>6. CASE k = 0
  <2>1. t = 0 /\ s = 0
    BY <1>2, <1>4, <1>6, AveragesFacts
  <2>2. (0 - 0) * ToleranceInverse <= 0
    BY <1>0
  <2> QED
    BY <1>2, <1>3, <1>5, <1>6, <2>1, <2>2
<1>7. CASE k # 0
  <2>1. s > 0
    <3> SUFFICES ASSUME s = 0 PROVE FALSE
      OBVIOUS
    <3>1. PICK i \in DOMAIN reqs : \A p \in Paths[OD(i)] :
                       pathCost(p, Basis(strategy, newFlowVector)) > 0
      BY <1>0, <1>7 DEF IInv, Inv, SomeoneHasToPay, Averages
    <3> DEFINE v == Basis(strategy, newFlowVector)
    <3>2. pathCost(chosen[i], w) = 0
      BY <1>5
    <3>3. chosen[i] \in Paths[OD(i)] /\ chosen[i] \in Seq(Edges)
      BY AveragesFacts
    <3>4. w = Basis(strategy, flow) /\ IsFlow(flow)
      BY AveragesFacts DEF Averages
    <3>5. IsWeight(w) /\ IsWeight(v) /\ Heavier(w, v)
      BY <3>4, BasisFacts
    <3>6. pathCost(chosen[i], v) > 0
      BY <3>1, <3>3
    <3> HIDE DEF v
    <3>7. pathCost(chosen[i], v) <= pathCost(chosen[i], w)
      BY <3>3, <3>5, PathCostMono
    <3>8. pathCost(chosen[i], v) \in Nat
      BY <3>3, <3>5, PathCostIsSum
    <3> QED
      BY <3>2, <3>6, <3>7, <3>8
  <2> QED
    BY <1>2, <1>3, <1>4, <1>7, <2>1
<1> QED
  BY <1>6, <1>7

LEMMA AveragesStop ==
  ASSUME IInv, NEW w, NEW chosen, Averages(w, chosen)
  PROVE  StoppedAtEquilibrium'
<1> SUFFICES ASSUME outcome' = "converged" PROVE StoppedAtEquilibrium'
  BY DEF StoppedAtEquilibrium
<1>0. /\ TypeOK /\ k \in Nat /\ IsFlow(flow) /\ flow = [num |-> flow.num, den |-> flow.den]
      /\ k' = k + 1 /\ (k + 1 = 1 <=> k = 0) /\ (k + 1) - 1 = k
      /\ reqs' = reqs /\ routes' = chosen /\ strategy' = strategy
      /\ w = Basis(strategy, flow)
  BY TypeFacts DEF IInv, Inv, Averages
<1>1. Measured' = flow
  <2>1. CASE k = 0
    BY <1>0, <2>1, AveragesFacts DEF Measured
  <2>2. CASE k # 0
    <3> DEFINE y == routeFlow(chosen)
    <3>1. routeFlow(routes)' = y
      BY <1>0 DEF routeFlow
    <3>2. flow'.num = [e \in Edges |-> flow.num[e] + y[e]]
      BY DEF Averages
    <3>3. y \in [Edges -> Nat] /\ flow.num \in [Edges -> Nat] /\ flow.den = k
      BY <2>2, AveragesFacts DEF IsFlow
    <3>4. Measured' = [num |-> [e \in Edges |-> flow'.num[e] - routeFlow(routes)'[e]], den |-> k' - 1]
      BY <1>0, <2>2 DEF Measured
    <3> HIDE DEF y
    <3>5. \A e \in Edges : flow'.num[e] - y[e] = flow.num[e]
      BY <3>2, <3>3
    <3>6. [e \in Edges |-> flow'.num[e] - y[e]] = flow.num
      BY <3>3, <3>5
    <3> QED
      BY <1>0, <3>1, <3>3, <3>4, <3>6
  <2> QED
    BY <2>1, <2>2
<1>2. EquilibriumWithin(flow, w)
  <2> SUFFICES ASSUME NEW best \in assignAON(DOMAIN reqs, w)
               PROVE  (edgeCostSum(flow, w) - totalSP(flow, best, w)) * ToleranceInverse
                         <= totalSP(flow, best, w)
    BY DEF EquilibriumWithin
  <2>1. chosen \in assignAON(DOMAIN reqs, w)
    BY DEF Averages
  <2>2. totalSP(flow, best, w) = totalSP(flow, chosen, w)
    BY <2>1, AveragesFacts, TotalUnique
  <2> QED
    BY <2>2, AveragesMeasured
<1>3. EquilibriumWithin(Measured, Basis(strategy, Measured))'
  <2>1. PICK f : f = flow
    OBVIOUS
  <2>2. assignAON(DOMAIN reqs, w)' = assignAON(DOMAIN reqs, w)
    BY <1>0, PassUnmoved
  <2>3. \A c : totalSP(f, c, w)' = totalSP(f, c, w)
    BY <1>0, PassUnmoved
  <2>4. EquilibriumWithin(f, w)'
    <3>1. EquilibriumWithin(f, w)' <=>
             \A best \in assignAON(DOMAIN reqs, w)' :
                (edgeCostSum(f, w) - totalSP(f, best, w)') * ToleranceInverse <= totalSP(f, best, w)'
      BY DEF EquilibriumWithin
    <3> QED
      BY <1>2, <2>1, <2>2, <2>3, <3>1 DEF EquilibriumWithin
  <2>5. Measured' = f /\ w = Basis(strategy', f)
    BY <1>0, <1>1, <2>1
  <2> QED
    BY <2>4, <2>5
<1>4. k' = 1 => \A i \in DOMAIN reqs' : routes'[i] = <<>> \/ pathCost(routes'[i], FreeFlow) = 0
  <2> SUFFICES ASSUME k = 0, NEW i \in DOMAIN reqs PROVE pathCost(chosen[i], FreeFlow) = 0
    BY <1>0
  <2>1. pathCost(chosen[i], w) = 0 /\ flow = newFlowVector /\ chosen[i] \in Seq(Edges)
    BY AveragesFacts, AveragesMeasured
  <2>2. IsWeight(w) /\ IsWeight(FreeFlow) /\ Heavier(w, FreeFlow)
    <3>1. FreeFlow \in [Edges -> Nat]
      BY AssignmentAssumption
    <3> QED
      BY <1>0, <2>1, <3>1, BasisFacts DEF IsWeight
  <2>3. pathCost(chosen[i], FreeFlow) <= 0 /\ pathCost(chosen[i], FreeFlow) \in Nat
    BY <2>1, <2>2, PathCostMono, PathCostIsSum
  <2> QED
    BY <2>3
<1> QED
  BY <1>3, <1>4 DEF StoppedAtEquilibrium

LEMMA AverageKeeps ==
  ASSUME IInv, Iterate, strategy \in Averaging, AverageStep(Basis(strategy, flow))
  PROVE  IInv'
<1> DEFINE w == Basis(strategy, flow)
<1>1. PICK chosen \in assignAON(DOMAIN reqs, w) :
         /\ flow' = msaAverage(flow, routeFlow(chosen), k + 1)
         /\ routes' = chosen
         /\ gap' = relativeGap(edgeCostSum(flow, w), totalSP(flow, chosen, w))
  BY DEF AverageStep
<1>2. Averages(w, chosen)
  BY <1>1 DEF Averages, Iterate, AverageStep, Verdict, msaAverage
<1> HIDE DEF w
<1> QED
  BY <1>2, AveragesTypes, AveragesConserve, AveragesPay, AveragesStop DEF IInv, Inv

-----------------------------------------------------------------------------
(* A step of the incremental strategy.                                      *)

\* The batches up to j are the requests before batch j + 1.
LEMMA BatchesUpTo ==
  ASSUME NEW n \in Nat, NEW j \in 0 .. incrementalBatches
  PROVE  UNION {batchBounds(n, b) : b \in 1 .. j} = 1 .. Start(n, j)
<1>0. incrementalBatches \in Nat \ {0}
  BY AssignmentAssumption
<1> DEFINE U(m) == UNION {batchBounds(n, b) : b \in 1 .. m}
           I == {m \in Nat : m <= incrementalBatches => U(m) = 1 .. Start(n, m)}
<1>1. 0 \in I
  <2>1. Start(n, 0) = 0 /\ U(0) = {} /\ 1 .. 0 = {}
    BY StartFacts
  <2> QED
    BY <2>1
<1>2. ASSUME NEW m \in Nat, m \in I PROVE m + 1 \in I
  <2>1. CASE m + 1 <= incrementalBatches
    <3>1. m \in 0 .. (incrementalBatches - 1) /\ m <= incrementalBatches
      BY <1>0, <2>1
    <3>2. U(m) = 1 .. Start(n, m)
      BY <1>2, <3>1
    <3>3. \A b : b \in 1 .. (m + 1) <=> b \in 1 .. m \/ b = m + 1
      OBVIOUS
    <3>4. U(m + 1) = U(m) \cup batchBounds(n, m + 1)
      BY <3>3
    <3>5. batchBounds(n, m + 1) \cup (1 .. Start(n, m)) = 1 .. Start(n, m + 1)
      BY <3>1, BatchesPartition
    <3> HIDE DEF U
    <3>6. U(m + 1) = 1 .. Start(n, m + 1)
      BY <3>2, <3>4, <3>5
    <3> QED
      BY <3>6
  <2>2. CASE ~(m + 1 <= incrementalBatches)
    BY <2>2
  <2> QED
    BY <2>1, <2>2
<1> HIDE DEF I
<1>3. j \in I /\ j <= incrementalBatches
  BY <1>0, <1>1, <1>2, NatSetInduction
<1> QED
  BY <1>3 DEF I

\* A batch loaded: the names of the step.
Loads(n, ids, chosen) ==
    /\ outcome = "running" /\ k < maxIterations /\ strategy = "incremental"
    /\ n = Len(reqs) /\ ids = batchBounds(n, k + 1)
    /\ chosen \in assignAON(ids, weightFromFlows(flow))
    /\ flow' = [flow EXCEPT !.num = [e \in Edges |-> flow.num[e] + routeFlow(chosen)[e]]]
    /\ routes' = [i \in ids \cup DOMAIN routes |-> IF i \in ids THEN chosen[i] ELSE routes[i]]
    /\ k' = k + 1
    /\ IF k + 1 = incrementalBatches
       THEN \E every \in assignAON(DOMAIN reqs, weightFromFlows(flow')) :
               gap' = relativeGap(edgeCostSum(flow', weightFromFlows(flow')),
                                  totalSP(flow', every, weightFromFlows(flow')))
       ELSE gap' = partialLoadGap
    /\ outcome' = IF belowTolerance(gap') \/ k + 1 = incrementalBatches THEN "converged"
                  ELSE IF k + 1 = maxIterations THEN "exhausted" ELSE "running"
    /\ strategy' = strategy /\ reqs' = reqs /\ cancelled' = cancelled

LEMMA LoadsFacts ==
  ASSUME IInv, NEW n, NEW ids, NEW chosen, Loads(n, ids, chosen)
  PROVE  /\ IsBatch /\ IsFlow(flow) /\ n \in Nat /\ DOMAIN reqs = 1 .. n /\ k \in Nat
         /\ k < incrementalBatches /\ flow.den = 1 /\ flow.num = routeFlow(routes)
         /\ DOMAIN routes = 1 .. Start(n, k)
         /\ ids \cap DOMAIN routes = {} /\ ids \cup DOMAIN routes = 1 .. Start(n, k + 1)
         /\ ids \cup DOMAIN routes \subseteq DOMAIN reqs
         /\ Start(n, incrementalBatches) = n
         /\ Routed(chosen, ids) /\ \A i \in ids : chosen[i] \in Paths[OD(i)]
         /\ Routed(routes, DOMAIN routes) /\ \A i \in DOMAIN routes : routes[i] \in Paths[OD(i)]
<1>1. /\ IsBatch /\ IsFlow(flow) /\ n \in Nat /\ DOMAIN reqs = 1 .. n /\ k \in Nat
      /\ incrementalBatches \in Nat \ {0}
  BY TypeFacts DEF IInv, Inv, Loads
<1>2. /\ k < incrementalBatches /\ flow.den = 1 /\ flow.num = routeFlow(routes)
      /\ DOMAIN routes = UNION {batchBounds(n, b) : b \in 1 .. k}
  BY DEF IInv, Inv, Progress, Loads
<1>3. k \in 0 .. incrementalBatches /\ k \in 0 .. (incrementalBatches - 1)
  BY <1>1, <1>2
<1>4. DOMAIN routes = 1 .. Start(n, k)
  BY <1>1, <1>2, <1>3, BatchesUpTo
<1>5. ids = batchBounds(n, k + 1)
  BY DEF Loads
<1>6. /\ ids \cap DOMAIN routes = {} /\ ids \cup DOMAIN routes = 1 .. Start(n, k + 1)
      /\ 1 .. Start(n, k + 1) \subseteq 1 .. n
  BY <1>1, <1>3, <1>4, <1>5, BatchesPartition
<1>7. Start(n, incrementalBatches) = n
  BY <1>1, StartFacts
<1>8. ids \subseteq DOMAIN reqs /\ DOMAIN routes \subseteq DOMAIN reqs
  BY <1>1, <1>6
<1>9. Routed(chosen, ids) /\ \A i \in ids : chosen[i] \in Paths[OD(i)]
  BY <1>1, <1>8, PassFacts DEF Loads
<1>10. \A i \in DOMAIN routes : routes[i] \in Paths[OD(i)]
  BY DEF IInv, Inv, TypeOK
<1>11. \A i \in DOMAIN routes : IsPath(routes[i], reqs[i].from, reqs[i].to)
  BY <1>1, <1>8, <1>10, WeightFacts, PathIs DEF OD
<1>12. Routed(routes, DOMAIN routes)
  BY <1>8, <1>11 DEF Routed
<1> QED
  BY <1>1, <1>2, <1>4, <1>6, <1>7, <1>8, <1>9, <1>10, <1>12

\* What the loop has after the step.
LEMMA LoadsGives ==
  ASSUME IInv, NEW n, NEW ids, NEW chosen, Loads(n, ids, chosen)
  PROVE  /\ DOMAIN routes' = 1 .. Start(n, k + 1) /\ DOMAIN routes' \subseteq DOMAIN reqs
         /\ Routed(routes', DOMAIN routes') /\ \A i \in DOMAIN routes' : routes'[i] \in Paths[OD(i)]
         /\ flow'.num = FlowOf(routes', DOMAIN routes') /\ flow'.num \in [Edges -> Nat]
         /\ flow'.den = 1 /\ flow' = [num |-> flow'.num, den |-> flow'.den]
         /\ reqs' = reqs /\ k' = k + 1 /\ strategy' = "incremental"
<1> DEFINE D == DOMAIN routes
           x == flow.num
           y == routeFlow(chosen)
<1>1. /\ routes' = [i \in ids \cup D |-> IF i \in ids THEN chosen[i] ELSE routes[i]]
      /\ flow' = [flow EXCEPT !.num = [e \in Edges |-> x[e] + y[e]]]
      /\ reqs' = reqs /\ k' = k + 1 /\ strategy' = "incremental"
  BY DEF Loads
<1>2. DOMAIN routes' = ids \cup D /\ DOMAIN routes' = 1 .. Start(n, k + 1)
      /\ DOMAIN routes' \subseteq DOMAIN reqs
  BY <1>1, LoadsFacts
<1>3. /\ \A i \in ids : routes'[i] = chosen[i]
      /\ \A i \in D : routes'[i] = routes[i]
  BY <1>1, LoadsFacts
<1>4. \A i \in DOMAIN routes' : routes'[i] \in Paths[OD(i)]
  BY <1>2, <1>3, LoadsFacts
<1>5. Routed(routes', DOMAIN routes')
  BY <1>2, <1>3, LoadsFacts DEF Routed
<1>6. flow = [num |-> x, den |-> 1] /\ x = FlowOf(routes, D) /\ y = FlowOf(chosen, ids)
  <2>1. D \subseteq DOMAIN reqs /\ ids \subseteq DOMAIN reqs /\ IsBatch /\ DOMAIN chosen = ids
    BY LoadsFacts DEF Routed
  <2>2. routeFlow(routes) = FlowOf(routes, D)
    BY <2>1, RouteFlowIs
  <2>3. y = FlowOf(chosen, ids)
    BY <2>1, RouteFlowIs
  <2>4. flow = [num |-> x, den |-> 1]
    BY LoadsFacts, TypeFacts DEF IInv, Inv
  <2> QED
    BY <2>2, <2>3, <2>4, LoadsFacts
<1>7. flow' = [num |-> [e \in Edges |-> x[e] + y[e]], den |-> 1]
  BY <1>1, <1>6
<1>8. ASSUME NEW e \in Edges PROVE FlowOf(routes', DOMAIN routes')[e] = x[e] + y[e]
  <2>1. FlowOf(routes', ids \cup D)[e] = FlowOf(chosen, ids)[e] + FlowOf(routes, D)[e]
    <3>1. /\ IsBatch /\ D \subseteq DOMAIN reqs /\ ids \subseteq DOMAIN reqs /\ ids \cap D = {}
      BY LoadsFacts
    <3>2. PICK loaded : loaded = routes'
      OBVIOUS
    <3>3. PICK before : before = routes
      OBVIOUS
    <3>4. PICK dom : dom = D
      OBVIOUS
    <3> HIDE DEF D, x, y
    <3>5. /\ \A i \in ids : loaded[i] = chosen[i]
          /\ \A i \in dom : loaded[i] = before[i]
      BY <1>3, <3>2, <3>3, <3>4
    <3>6. FlowOf(loaded, ids \cup dom)[e] = FlowOf(chosen, ids)[e] + FlowOf(before, dom)[e]
      <4>1. IsBatch /\ dom \subseteq DOMAIN reqs /\ ids \subseteq DOMAIN reqs /\ ids \cap dom = {}
        BY <3>1, <3>4
      <4>2. \A S, T, c, d, both :
              (/\ S \subseteq DOMAIN reqs /\ T \subseteq DOMAIN reqs /\ S \cap T = {}
               /\ \A i \in S : both[i] = c[i]
               /\ \A i \in T : both[i] = d[i]) =>
              FlowOf(both, S \cup T)[e] = FlowOf(c, S)[e] + FlowOf(d, T)[e]
        BY <4>1, FlowUnion
      <4> QED
        BY <4>1, <4>2, <3>5
    <3> QED
      BY <3>2, <3>3, <3>4, <3>6
  <2>2. FlowOf(chosen, ids)[e] \in Nat /\ FlowOf(routes, D)[e] \in Nat
    BY LoadsFacts, RouteFlowIs
  <2> QED
    BY <1>2, <1>6, <2>1, <2>2
<1>9. FlowOf(routes', DOMAIN routes') \in [Edges -> Nat]
  BY <1>2, LoadsFacts, RouteFlowIs
<1>10. flow'.num = FlowOf(routes', DOMAIN routes')
  <2>1. flow'.num = [e \in Edges |-> x[e] + y[e]]
    BY <1>7
  <2> HIDE DEF x, y
  <2> QED
    BY <1>8, <1>9, <2>1
<1>11. flow'.den = 1 /\ flow' = [num |-> flow'.num, den |-> flow'.den]
  BY <1>7
<1> QED
  BY <1>1, <1>2, <1>4, <1>5, <1>9, <1>10, <1>11

LEMMA LoadsKeep ==
  ASSUME IInv, NEW n, NEW ids, NEW chosen, Loads(n, ids, chosen)
  PROVE  IInv'
<1>0. /\ maxIterations \in Nat /\ incrementalBatches \in Nat \ {0} /\ maxIterations >= incrementalBatches
      /\ ToleranceInverse \in Nat \ {0} /\ k \in Nat /\ k < incrementalBatches
      /\ IsBatch /\ n \in Nat /\ n = Len(reqs) /\ DOMAIN reqs = 1 .. n
  BY LoadsFacts, TypeFacts DEF IInv, Inv, Loads
<1>1. gap'.excess \in Int /\ gap'.base \in Nat \ {0}
  <2>1. CASE k + 1 = incrementalBatches
    <3>1. IsFlow(flow')
      BY LoadsGives DEF IsFlow
    <3> DEFINE w == weightFromFlows(flow')
    <3>2. w = Basis("incremental", flow')
      BY DEF Basis
    <3>3. IsWeight(w)
      BY <3>1, <3>2, BasisFacts
    <3>4. PICK every \in assignAON(DOMAIN reqs, w) :
             gap' = relativeGap(edgeCostSum(flow', w), totalSP(flow', every, w))
      BY <2>1 DEF Loads
    <3> HIDE DEF w
    <3>5. Routed(every, DOMAIN reqs)
      BY <1>0, PassFacts
    <3>6. totalSP(flow', every, w) \in Nat
      BY <1>0, <3>1, <3>3, <3>5, TotalFacts DEF IsFlow
    <3>7. edgeCostSum(flow', w) \in Nat
      BY <3>1, <3>3, EdgeCostFacts
    <3> QED
      BY <3>4, <3>6, <3>7, GapFacts
  <2>2. CASE k + 1 # incrementalBatches
    BY <2>2 DEF Loads, partialLoadGap
  <2> QED
    BY <2>1, <2>2
<1>2. outcome' = IF k + 1 = incrementalBatches THEN "converged" ELSE "running"
  <2>1. CASE k + 1 = incrementalBatches
    BY <2>1 DEF Loads
  <2>2. CASE k + 1 # incrementalBatches
    <3>1. gap' = partialLoadGap
      BY <2>2 DEF Loads
    <3>2. ~belowTolerance(gap')
      <4>1. 1 * ToleranceInverse = ToleranceInverse /\ ~(ToleranceInverse < 1)
        BY <1>0
      <4> QED
        BY <3>1, <4>1 DEF belowTolerance, partialLoadGap, Abs
    <3>3. k + 1 # maxIterations
      BY <1>0, <2>2
    <3> QED
      BY <2>2, <3>2, <3>3 DEF Loads
  <2> QED
    BY <2>1, <2>2
<1>3. TypeOK'
  <2>1. 1 \in 1 .. maxIterations /\ k + 1 \in 0 .. maxIterations
    BY <1>0
  <2>2. flow' \in [num : [Edges -> Nat], den : 1 .. maxIterations]
    BY <2>1, LoadsGives
  <2>3. \A i \in DOMAIN routes' : routes'[i] \in Paths[OD(i)']
    BY LoadsGives DEF OD
  <2>4. /\ strategy' \in Averaging \cup {"incremental"} /\ reqs' \in Batches
        /\ cancelled' \in BOOLEAN /\ k' \in 0 .. maxIterations
    BY <2>1, LoadsGives DEF Loads, IInv, Inv, TypeOK
  <2>5. outcome' \in {"running", "converged", "exhausted", "unreachable", "cancelled"}
    BY <1>2
  <2>6. DOMAIN routes' \subseteq DOMAIN reqs'
    BY LoadsGives
  <2> QED
    BY <1>1, <2>2, <2>3, <2>4, <2>5, <2>6 DEF TypeOK
<1>4. routeFlow(routes)' = flow'.num
  <2>1. routeFlow(routes)' = routeFlow(routes')
    BY LoadsGives DEF routeFlow
  <2>2. routeFlow(routes') = FlowOf(routes', DOMAIN routes')
    BY <1>0, LoadsGives, RouteFlowIs
  <2> QED
    BY <2>1, <2>2, LoadsGives
<1>5. DemandConserved'
  <2> SUFFICES ASSUME NEW v \in Nodes PROVE Net(flow'.num, v) = flow'.den * Demand(DOMAIN routes', v)
    BY <1>0, LoadsGives, ConservedIs
  <2>1. Net(flow'.num, v) = Demand(DOMAIN routes', v)
    BY <1>0, LoadsGives, NetOfRoutes
  <2>2. Demand(DOMAIN routes', v) \in Int /\ flow'.den = 1
    BY <1>0, LoadsGives, DemandInt
  <2> QED
    BY <2>1, <2>2
<1>6. Progress'
  <2>1. k + 1 \in 0 .. incrementalBatches
    BY <1>0
  <2>2. DOMAIN routes' = UNION {batchBounds(n, b) : b \in 1 .. (k + 1)}
    BY <1>0, <2>1, LoadsGives, BatchesUpTo
  <2>3. DOMAIN routes' = UNION {batchBounds(Len(reqs'), b) : b \in 1 .. k'}
    BY <1>0, <2>2, LoadsGives
  <2>4. k' <= incrementalBatches /\ (outcome' = "running" <=> k' < incrementalBatches)
    BY <1>0, <1>2, <2>1, LoadsGives
  <2> QED
    BY <1>4, <2>3, <2>4, LoadsGives DEF Progress
<1>7. NoPartialAnswer'
  <2>1. CASE outcome' = "running"
    BY <2>1 DEF NoPartialAnswer
  <2>2. CASE outcome' # "running"
    <3>1. k + 1 = incrementalBatches /\ outcome' = "converged"
      BY <1>2, <2>2
    <3>2. DOMAIN routes' = DOMAIN reqs'
      BY <1>0, <3>1, LoadsFacts, LoadsGives
    <3> QED
      BY <1>4, <3>1, <3>2 DEF NoPartialAnswer
  <2> QED
    BY <2>1, <2>2
<1>8. SomeoneHasToPay' /\ StoppedAtEquilibrium'
  BY LoadsGives DEF SomeoneHasToPay, StoppedAtEquilibrium, Averaging
<1> QED
  BY <1>3, <1>5, <1>6, <1>7, <1>8 DEF IInv, Inv

LEMMA IncrementalKeeps ==
  ASSUME IInv, Iterate, IncrementalStep
  PROVE  IInv'
<1> DEFINE n == Len(reqs)
           ids == batchBounds(n, k + 1)
<1>1. PICK chosen \in assignAON(ids, weightFromFlows(flow)) :
         /\ flow' = addFlow(flow, routeFlow(chosen))
         /\ routes' = [i \in ids \cup DOMAIN routes |-> IF i \in ids THEN chosen[i] ELSE routes[i]]
  BY DEF IncrementalStep
<1>2. Loads(n, ids, chosen)
  BY <1>1 DEF Loads, Iterate, IncrementalStep, Verdict, addFlow
<1> HIDE DEF n, ids
<1> QED
  BY <1>2, LoadsKeep

-----------------------------------------------------------------------------
(* The theorems.                                                            *)

LEMMA StepKeeps == IInv /\ [Next]_vars => IInv'
<1> SUFFICES ASSUME IInv, [Next]_vars PROVE IInv'
  OBVIOUS
<1>1. CASE Iterate
  <2>1. CASE MSAStep
    BY <1>1, <2>1, AverageKeeps DEF MSAStep, Averaging
  <2>2. CASE SystemOptimalStep
    BY <1>1, <2>2, AverageKeeps DEF SystemOptimalStep, Averaging
  <2>3. CASE IncrementalStep
    BY <1>1, <2>3, IncrementalKeeps
  <2> QED
    BY <1>1, <2>1, <2>2, <2>3 DEF Iterate
<1>2. CASE Unreachable
  BY <1>2, FailKeeps DEF Unreachable
<1>3. CASE StopCancelled
  BY <1>3, FailKeeps DEF StopCancelled
<1>4. CASE Cancel
  BY <1>4, CancelKeeps
<1>5. CASE Returned \/ UNCHANGED vars
  BY <1>5, StutterKeeps DEF Returned
<1> QED
  BY <1>1, <1>2, <1>3, <1>4, <1>5 DEF Next

LEMMA AlwaysIInv == Spec => []IInv
<1>1. Init => IInv
  BY InitInv
<1>2. IInv /\ [Next]_vars => IInv'
  BY StepKeeps
<1> QED
  BY <1>1, <1>2, PTL DEF Spec

THEOREM DemandAlwaysConserved == Spec => []Inv
<1>1. IInv => Inv
  BY DEF IInv
<1> QED
  BY <1>1, AlwaysIInv, PTL

THEOREM AnswersAreComplete == Spec => []NoPartialAnswer
<1>1. IInv => NoPartialAnswer
  BY DEF IInv
<1> QED
  BY <1>1, AlwaysIInv, PTL

THEOREM StopsOnlyAtEquilibrium == Spec => []StoppedAtEquilibrium
<1>1. IInv => StoppedAtEquilibrium
  BY DEF IInv
<1> QED
  BY <1>1, AlwaysIInv, PTL

-----------------------------------------------------------------------------
(* The pass: strides that partition the batch.                              *)

LEMMA Division ==
  ASSUME NEW i \in Int, NEW W \in Nat, W > 0
  PROVE  /\ i \div W \in Int /\ (i % W) \in 0 .. (W - 1)
         /\ i = (i \div W) * W + (i % W)
OBVIOUS

LEMMA Multiples ==
  ASSUME NEW q \in Int, NEW t \in Int, NEW W \in Nat, W > 0, q < t
  PROVE  q * W + W <= t * W
<1>1. PICK d \in Nat : t = q + 1 + d
  <2>1. t - q - 1 \in Nat /\ t = q + 1 + (t - q - 1)
    OBVIOUS
  <2> QED
    BY <2>1
<1>2. t * W = q * W + W + d * W
  BY <1>1
<1>3. d * W \in Nat /\ q * W \in Int
  OBVIOUS
<1> QED
  BY <1>2, <1>3

\* Less than a stride apart, two requests of one class are the same.
LEMMA SameClass ==
  ASSUME NEW i \in Int, NEW j \in Int, NEW W \in Nat, W > 0,
         (i % W) = (j % W), i <= j, j < i + W
  PROVE  i = j
<1> DEFINE q == i \div W
           t == j \div W
           qW == q * W
           tW == t * W
           r == i % W
<1>1. q \in Int /\ t \in Int /\ qW \in Int /\ tW \in Int /\ r \in Int
  BY Division
<1>2. i = qW + r /\ j = tW + r
  BY Division
<1>3. q < t => qW + W <= tW
  BY <1>1, Multiples
<1>4. t < q => tW + W <= qW
  BY <1>1, Multiples
<1>5. q = t => qW = tW
  OBVIOUS
<1> HIDE DEF qW, tW, q, t, r
<1> QED
  BY <1>1, <1>2, <1>3, <1>4, <1>5

\* A stride on is the same class.
LEMMA NextOfClass ==
  ASSUME NEW i \in Int, NEW W \in Nat, W > 0
  PROVE  ((i + W) % W) = (i % W)
<1> DEFINE q == i \div W
           t == (i + W) \div W
           qW == q * W
           tW == t * W
           r == i % W
           s == (i + W) % W
<1>1. /\ q \in Int /\ t \in Int /\ qW \in Int /\ tW \in Int
      /\ r \in 0 .. (W - 1) /\ s \in 0 .. (W - 1)
      /\ i = qW + r /\ i + W = tW + s
  <2>1. i + W \in Int
    OBVIOUS
  <2> QED
    BY <2>1, Division
<1>2. (q + 1) * W = qW + W /\ q + 1 \in Int
  BY <1>1
<1>3. q + 1 < t => qW + W + W <= tW
  BY <1>1, <1>2, Multiples
<1>4. t < q + 1 => tW + W <= qW + W
  BY <1>1, <1>2, Multiples
<1>5. t = q + 1 => tW = qW + W
  BY <1>2
<1> HIDE DEF qW, tW, q, t, r, s
<1>6. r = s
  BY <1>1, <1>3, <1>4, <1>5
<1> QED
  BY <1>6 DEF r, s

LEMMA OwnClass ==
  ASSUME NEW W \in Nat, W > 0, NEW w \in 0 .. (W - 1)
  PROVE  (w % W) = w
OBVIOUS

\* There is a worker, and the class of a request is one.
LEMMA SomeWorker ==
  /\ workerCount \in Nat /\ workerCount > 0 /\ Workers = 0 .. (workerCount - 1)
  /\ \A i \in Requests : (i % workerCount) \in Workers
<1>1. workerCount \in Nat /\ workerCount > 0
  BY FanoutAssumption DEF workerCount, WorkersFor
<1> QED
  BY <1>1, FanoutAssumption, Division DEF Workers, Requests

-----------------------------------------------------------------------------
\* Two workers share nothing and no route is written twice because of the strides.
LEMMA StridesAreApart ==
  ASSUME FanoutTypeOK, StridesKept, DoneForAReason
  PROVE  NoSharedWrite
<1>1. \A i \in Requests : written[i] <= 1
  BY DEF StridesKept
<1>2. \A v, w \in Workers : v # w => shard[v] \cap shard[w] = {}
  BY DEF StridesKept
<1> QED
  BY <1>1, <1>2 DEF NoSharedWrite, DoneForAReason

LEMMA FanoutInitInv == FanoutInit => FanoutInv
<1> SUFFICES ASSUME FanoutInit PROVE FanoutInv
  OBVIOUS
<1>1. FanoutTypeOK
  <2>1. \A w \in Workers : w \in 0 .. (N + workerCount - 1)
    BY SomeWorker, FanoutAssumption
  <2>2. index \in [Workers -> 0 .. (N + workerCount - 1)]
    BY <2>1 DEF FanoutInit
  <2>3. /\ written \in [Requests -> Nat] /\ flows \in [Requests -> Nat]
        /\ shard \in [Workers -> SUBSET Requests] /\ shards \in [Workers -> SUBSET Requests]
    BY DEF FanoutInit, NoRequest
  <2> QED
    BY <2>2, <2>3 DEF FanoutInit, FanoutTypeOK
<1>2. StridesKept
  <2>1. \A w \in Workers : (index[w] % workerCount) = w
    BY SomeWorker, OwnClass DEF FanoutInit
  <2>2. ASSUME NEW w \in Workers PROVE {i \in Requests : i % workerCount = w /\ i < index[w]} = {}
    <3> SUFFICES ASSUME NEW i \in Requests, (i % workerCount) = w, i < w PROVE FALSE
      BY DEF FanoutInit
    <3>1. i \in 0 .. (workerCount - 1)
      BY SomeWorker DEF Requests
    <3> QED
      BY <3>1, SomeWorker, OwnClass
  <2> QED
    BY <2>1, <2>2, SomeWorker DEF FanoutInit, StridesKept, NoRequest
<1>3. DoneForAReason
  BY DEF FanoutInit, DoneForAReason, NoError
<1> QED
  BY <1>1, <1>2, <1>3, StridesAreApart DEF FanoutInv

\* An error is recorded once, and a worker that stops on one touches nothing else.
LEMMA WorkerStopKeeps ==
  ASSUME FanoutInv, NEW w \in Workers, NEW err \in {"cancelled", "unreachable"},
         err = "cancelled" => ctxCancelled, err = "unreachable" => ~(Requests \subseteq routable),
         setErr(err), w \notin done, done' = done \cup {w},
         UNCHANGED <<routable, ctxCancelled, index, shard, shards, written, passOutcome, flows>>
  PROVE  FanoutInv'
<1>1. firstErr' \in {"cancelled", "unreachable"} /\ (firstErr' = firstErr \/ firstErr' = err)
  BY DEF setErr, FanoutInv, FanoutTypeOK, NoError
<1>2. FanoutTypeOK'
  BY <1>1 DEF FanoutInv, FanoutTypeOK
<1>3. StridesKept'
  BY DEF FanoutInv, StridesKept
<1>4. DoneForAReason'
  BY <1>1 DEF FanoutInv, FanoutTypeOK, DoneForAReason, NoError
<1>5. NoSharedWrite'
  BY <1>4 DEF FanoutInv, NoSharedWrite, DoneForAReason
<1> QED
  BY <1>2, <1>3, <1>4, <1>5 DEF FanoutInv

LEMMA StopOnCancelKeeps ==
  ASSUME FanoutInv, NEW w \in Workers, StopOnCancel(w)
  PROVE  FanoutInv'
BY WorkerStopKeeps DEF StopOnCancel

LEMMA StopOnUnreachableKeeps ==
  ASSUME FanoutInv, NEW w \in Workers, StopOnUnreachable(w)
  PROVE  FanoutInv'
<1>1. index[w] \in Requests
  BY SomeWorker, FanoutAssumption DEF FanoutInv, FanoutTypeOK, StopOnUnreachable, Requests
<1> QED
  BY <1>1, WorkerStopKeeps DEF StopOnUnreachable

\* The next request of the stride is the only one between this position and the next.
LEMMA RouteOneKeeps ==
  ASSUME FanoutInv, NEW w \in Workers, RouteOne(w)
  PROVE  FanoutInv'
<1> DEFINE now == index[w]
<1>1. /\ now \in Requests /\ now \in Nat /\ now < N /\ now \in routable /\ (now % workerCount) = w
      /\ index' = [index EXCEPT ![w] = now + workerCount]
      /\ shard' = [shard EXCEPT ![w] = @ \cup {now}]
      /\ written' = [written EXCEPT ![now] = @ + 1]
      /\ w \notin done
  BY SomeWorker, FanoutAssumption DEF FanoutInv, FanoutTypeOK, StridesKept, RouteOne, Requests
<1>2. UNCHANGED <<routable, ctxCancelled, shards, done, firstErr, passOutcome, flows>>
  BY DEF RouteOne
<1>3. /\ index \in [Workers -> 0 .. (N + workerCount - 1)] /\ shard \in [Workers -> SUBSET Requests]
      /\ written \in [Requests -> Nat]
  BY DEF FanoutInv, FanoutTypeOK
<1>4. now \notin shard[w]
  BY <1>1 DEF FanoutInv, StridesKept
<1> HIDE DEF now
<1>5. FanoutTypeOK'
  <2>1. now + workerCount \in 0 .. (N + workerCount - 1)
    BY <1>1, SomeWorker, FanoutAssumption
  <2>2. index' \in [Workers -> 0 .. (N + workerCount - 1)]
    BY <1>1, <1>3, <2>1
  <2>3. written' \in [Requests -> Nat] /\ shard' \in [Workers -> SUBSET Requests]
    BY <1>1, <1>3
  <2> QED
    BY <1>2, <2>2, <2>3 DEF FanoutInv, FanoutTypeOK
<1>6. StridesKept'
  <2>1. \A v \in Workers : (index'[v] % workerCount) = v
    <3>1. ((now + workerCount) % workerCount) = w
      BY <1>1, SomeWorker, NextOfClass
    <3> QED
      BY <1>1, <1>3, <3>1 DEF FanoutInv, StridesKept
  <2>2. ASSUME NEW v \in Workers
        PROVE  /\ shard'[v] = {i \in Requests : i % workerCount = v /\ i < index'[v]}
               /\ shard'[v] \subseteq routable
    <3>1. CASE v # w
      <4>1. shard'[v] = shard[v] /\ index'[v] = index[v]
        BY <3>1, <1>1, <1>3
      <4> QED
        BY <4>1 DEF FanoutInv, StridesKept
    <3>2. CASE v = w
      <4>1. shard'[w] = shard[w] \cup {now} /\ index'[w] = now + workerCount
        BY <1>1, <1>3
      <4>2. shard[w] = {i \in Requests : i % workerCount = w /\ i < now} /\ shard[w] \subseteq routable
        BY DEF FanoutInv, StridesKept, now
      <4>3. ASSUME NEW i \in Requests
            PROVE  i \in shard[w] \cup {now} <=> (i % workerCount) = w /\ i < now + workerCount
        <5>1. i \in Int /\ workerCount \in Nat /\ workerCount > 0
          BY SomeWorker DEF Requests
        <5>2. CASE i < now
          BY <5>1, <5>2, <4>2, <1>1
        <5>3. CASE ~(i < now)
          <6>1. (i % workerCount) = w /\ i < now + workerCount => i = now
            BY <5>1, <5>3, <1>1, SameClass
          <6>2. i \notin shard[w]
            BY <5>3, <4>2
          <6>3. now < now + workerCount
            BY <5>1, <1>1
          <6> QED
            BY <6>1, <6>2, <6>3, <1>1
        <5> QED
          BY <5>2, <5>3
      <4> QED
        BY <3>2, <4>1, <4>2, <4>3, <1>1
    <3> QED
      BY <3>1, <3>2
  <2>3. ASSUME NEW i \in Requests
        PROVE  written'[i] = IF i \in shard'[i % workerCount] THEN 1 ELSE 0
    <3>1. written[i] = IF i \in shard[i % workerCount] THEN 1 ELSE 0
      BY DEF FanoutInv, StridesKept
    <3>2. CASE i = now
      <4>1. written'[i] = written[i] + 1
        BY <1>1, <1>3, <3>2
      <4>2. i \in shard'[i % workerCount] /\ i \notin shard[i % workerCount]
        BY <1>1, <1>3, <1>4, <3>2
      <4> QED
        BY <3>1, <4>1, <4>2
    <3>3. CASE i # now
      <4>1. written'[i] = written[i]
        BY <1>1, <1>3, <3>3
      <4>2. i \in shard'[i % workerCount] <=> i \in shard[i % workerCount]
        BY <1>1, <1>3, <3>3, SomeWorker
      <4> QED
        BY <3>1, <4>1, <4>2
    <3> QED
      BY <3>2, <3>3
  <2> QED
    BY <1>2, <2>1, <2>2, <2>3 DEF StridesKept
<1>7. DoneForAReason'
  <2>1. \A v \in done : v # w /\ shard'[v] = shard[v] /\ index'[v] = index[v]
    BY <1>1, <1>3 DEF FanoutInv, FanoutTypeOK
  <2> QED
    BY <1>2, <2>1 DEF FanoutInv, DoneForAReason
<1> QED
  BY <1>5, <1>6, <1>7, StridesAreApart, PTL DEF FanoutInv

LEMMA PublishKeeps ==
  ASSUME FanoutInv, NEW w \in Workers, Publish(w)
  PROVE  FanoutInv'
<1>1. FanoutTypeOK'
  BY DEF FanoutInv, FanoutTypeOK, Publish
<1>2. StridesKept'
  BY DEF FanoutInv, StridesKept, Publish
<1>3. DoneForAReason'
  BY DEF FanoutInv, FanoutTypeOK, DoneForAReason, Publish
<1>4. NoSharedWrite'
  BY <1>3 DEF FanoutInv, NoSharedWrite, DoneForAReason, Publish
<1> QED
  BY <1>1, <1>2, <1>3, <1>4 DEF FanoutInv

\* The reduction counts every request once when every stride is through.
LEMMA EachCountsOnce ==
  ASSUME FanoutInv, done = Workers, firstErr = NoError
  PROVE  combineFlows = [i \in Requests |-> 1] /\ Requests \subseteq routable
<1>1. ASSUME NEW i \in Requests
      PROVE  {w \in Workers : i \in shards[w]} = {i % workerCount} /\ i \in routable
  <2>1. ASSUME NEW w \in Workers PROVE i \in shards[w] <=> (i % workerCount) = w
    <3>1. index[w] >= N /\ shards[w] = shard[w] /\ index[w] \in Int /\ i < N /\ i \in Int /\ N \in Int
      BY FanoutAssumption DEF FanoutInv, FanoutTypeOK, DoneForAReason, Requests
    <3>2. i < index[w]
      BY <3>1
    <3> QED
      BY <3>1, <3>2 DEF FanoutInv, StridesKept
  <2>2. (i % workerCount) \in Workers
    BY SomeWorker
  <2>3. i \in shard[i % workerCount]
    BY <2>1, <2>2 DEF FanoutInv, DoneForAReason
  <2> QED
    BY <2>1, <2>2, <2>3 DEF FanoutInv, StridesKept
<1>2. \A i \in Requests : Cardinality({w \in Workers : i \in shards[w]}) = 1
  BY <1>1, FS_Singleton
<1> QED
  BY <1>1, <1>2 DEF combineFlows

LEMMA JoinKeeps ==
  ASSUME FanoutInv, Join
  PROVE  FanoutInv'
<1>1. FanoutTypeOK'
  <2>1. firstErr = NoError => flows' \in [Requests -> Nat]
    BY EachCountsOnce DEF Join
  <2> QED
    BY <2>1 DEF FanoutInv, FanoutTypeOK, Join
<1>2. StridesKept'
  BY DEF FanoutInv, StridesKept, Join
<1>3. DoneForAReason'
  BY DEF FanoutInv, DoneForAReason, Join
<1>4. NoSharedWrite'
  BY DEF FanoutInv, NoSharedWrite, Join
<1> QED
  BY <1>1, <1>2, <1>3, <1>4 DEF FanoutInv

LEMMA CancelPassKeeps ==
  ASSUME FanoutInv, CancelPass
  PROVE  FanoutInv'
BY DEF FanoutInv, FanoutTypeOK, NoSharedWrite, StridesKept, DoneForAReason, CancelPass

LEMMA FanoutStepKeeps ==
  ASSUME FanoutInv, [FanoutNext]_fanoutVars
  PROVE  FanoutInv'
<1>1. ASSUME NEW w \in Workers, Worker(w) PROVE FanoutInv'
  BY <1>1, StopOnCancelKeeps, StopOnUnreachableKeeps, RouteOneKeeps, PublishKeeps DEF Worker
<1>2. CASE UNCHANGED fanoutVars
  BY <1>2 DEF fanoutVars, FanoutInv, FanoutTypeOK, NoSharedWrite, StridesKept, DoneForAReason
<1> QED
  BY <1>1, <1>2, JoinKeeps, CancelPassKeeps DEF FanoutNext, PassReturned

-----------------------------------------------------------------------------
\* No two workers ever write the same slot or count the same request, for every
\* number of requests and processors, and nobody writes after the caller's join.
THEOREM FanoutInvariantHolds == FanoutSpec => []FanoutInv
<1>1. FanoutInit => FanoutInv
  BY FanoutInitInv
<1>2. FanoutInv /\ [FanoutNext]_fanoutVars => FanoutInv'
  BY FanoutStepKeeps
<1> QED
  BY <1>1, <1>2, PTL DEF FanoutSpec

\* The fan-out implements the pass in one step that AllOrNothing specifies: the
\* caller gets every request assigned once, or a failure with a reason and nothing.
THEOREM ImplementsAllOrNothing == FanoutSpec => ImplementsPass
<1> USE DEF Pass!Nothing, Pass!EachOnce
<1>1. FanoutInit => Pass!Init
  BY DEF FanoutInit, NoRequest, Pass!Init
<1>2. FanoutInv /\ [FanoutNext]_fanoutVars => [Pass!Next]_<<routable, ctxCancelled, passOutcome, flows>>
  <2> SUFFICES ASSUME FanoutInv, [FanoutNext]_fanoutVars
               PROVE  [Pass!Next]_<<routable, ctxCancelled, passOutcome, flows>>
    OBVIOUS
  <2>1. ASSUME NEW w \in Workers, Worker(w)
        PROVE  UNCHANGED <<routable, ctxCancelled, passOutcome, flows>>
    BY <2>1 DEF Worker, StopOnCancel, StopOnUnreachable, RouteOne, Publish
  <2>2. CASE Join
    <3>1. CASE firstErr = NoError
      <4>1. Pass!Assign
        BY <2>2, <3>1, EachCountsOnce DEF Join, Pass!Assign
      <4> QED
        BY <4>1 DEF Pass!Next
    <3>2. CASE firstErr # NoError
      <4>1. ctxCancelled \/ ~(Requests \subseteq routable)
        BY <3>2 DEF FanoutInv, FanoutTypeOK, DoneForAReason
      <4>2. Pass!Fail
        BY <2>2, <3>2, <4>1 DEF Join, Pass!Fail
      <4> QED
        BY <4>2 DEF Pass!Next
    <3> QED
      BY <3>1, <3>2
  <2>3. CASE CancelPass
    BY <2>3 DEF CancelPass, Pass!Cancel, Pass!Next
  <2>4. CASE UNCHANGED fanoutVars
    BY <2>4 DEF fanoutVars
  <2> QED
    BY <2>1, <2>2, <2>3, <2>4 DEF FanoutNext, PassReturned
<1> QED
  BY <1>1, <1>2, FanoutInvariantHolds, PTL DEF FanoutSpec, ImplementsPass, Pass!PassSpec
=============================================================================
