----------------------------- MODULE FoldLemmas -----------------------------
(***************************************************************************)
(* Induction and recursion, as facts about sets.                           *)
(***************************************************************************)
EXTENDS Integers, FiniteSets, Functions, FiniteSetTheorems, WellFoundedInduction, TLAPS

\* A set of naturals that has zero and every successor has them all.
LEMMA NatSetInduction ==
  ASSUME NEW I, 0 \in I, \A n \in Nat : n \in I => n + 1 \in I
  PROVE  Nat \subseteq I
<1> SUFFICES ASSUME Nat \ I # {} PROVE FALSE
  OBVIOUS
<1> DEFINE R == OpToRel(<, Nat)
<1>1. IsWellFoundedOn(R, Nat)
  BY NatLessThanWellFounded
<1>2. \A x, y \in Nat : x < y => <<x, y>> \in R
  BY DEF OpToRel
<1> HIDE DEF R
<1>3. PICK m \in Nat \ I : \A i \in Nat \ I : ~(<<i, m>> \in R)
  BY <1>1, WFMin
<1>4. m # 0 /\ m - 1 \in Nat /\ m - 1 < m
  BY <1>3
<1>5. m - 1 \in I
  BY <1>2, <1>3, <1>4
<1>6. (m - 1) + 1 \in I
  BY <1>4, <1>5
<1> QED
  BY <1>3, <1>6

\* A set of subsets of S that has the empty one, and with a subset every one that has
\* one element of S more, has S if S is finite.
LEMMA FiniteSetInduction ==
  ASSUME NEW S, IsFiniteSet(S), NEW I, {} \in I,
         \A T \in SUBSET S : \A x \in S \ T : T \in I => T \cup {x} \in I
  PROVE  S \in I
<1> DEFINE N == {n \in Nat : \A T \in SUBSET S : Cardinality(T) = n => T \in I}
<1>0. \A T \in SUBSET S : IsFiniteSet(T) /\ Cardinality(T) \in Nat
  BY FS_Subset, FS_CardinalityType
<1>1. 0 \in N
  <2>1. ASSUME NEW T \in SUBSET S, Cardinality(T) = 0 PROVE T \in I
    <3>1. T = {}
      BY <1>0, <2>1, FS_EmptySet
    <3> QED
      BY <3>1
  <2> QED
    BY <2>1
<1>2. ASSUME NEW n \in Nat, n \in N PROVE n + 1 \in N
  <2> SUFFICES ASSUME NEW T \in SUBSET S, Cardinality(T) = n + 1 PROVE T \in I
    OBVIOUS
  <2>1. T # {}
    <3>1. Cardinality(T) # 0
      OBVIOUS
    <3> QED
      BY <3>1, FS_EmptySet
  <2>2. PICK x \in T : TRUE
    BY <2>1
  <2>3. Cardinality(T \ {x}) = n
    <3>1. IsFiniteSet(T) /\ (n + 1) - 1 = n
      BY <1>0
    <3>2. Cardinality(T \ {x}) = Cardinality(T) - 1
      BY <2>2, <3>1, FS_RemoveElement
    <3> QED
      BY <3>1, <3>2
  <2>4. T \ {x} \in SUBSET S
    OBVIOUS
  <2>5. T \ {x} \in I
    BY <1>2, <2>3, <2>4
  <2>6. (T \ {x}) \cup {x} \in I
    BY <2>2, <2>4, <2>5
  <2> QED
    BY <2>2, <2>6
<1> HIDE DEF N
<1>3. Nat \subseteq N
  BY <1>1, <1>2, NatSetInduction
<1>4. Cardinality(S) \in N
  BY <1>0, <1>3
<1> QED
  BY <1>4 DEF N

\* A finite set of integers has a greatest element.
LEMMA FiniteMax ==
  ASSUME NEW S, IsFiniteSet(S), S \subseteq Int, S # {}
  PROVE  \E x \in S : \A y \in S : y <= x
<1> DEFINE I == {T \in SUBSET S : T # {} => \E x \in T : \A y \in T : y <= x}
<1>1. {} \in I
  OBVIOUS
<1>2. ASSUME NEW T \in SUBSET S, NEW z \in S \ T, T \in I PROVE T \cup {z} \in I
  <2>1. CASE T = {}
    BY <2>1
  <2>2. CASE T # {}
    <3>1. PICK x \in T : \A y \in T : y <= x
      BY <1>2, <2>2
    <3>2. CASE z <= x
      BY <3>1, <3>2
    <3>3. CASE ~(z <= x)
      <4>1. \A y \in T \cup {z} : y <= z
        BY <3>1, <3>3
      <4> QED
        BY <4>1
    <3> QED
      BY <3>2, <3>3
  <2> QED
    BY <2>1, <2>2
<1> HIDE DEF I
<1>3. S \in I
  BY <1>1, <1>2, FiniteSetInduction
<1> QED
  BY <1>3 DEF I

\* f starts at b and goes on by g.
Iterates(f, b, g) == f[0] = b /\ \A n \in Nat : f[n + 1] = g[n][f[n]]

IteratesUpto(N, f, b, g) == \A n \in 0 .. N : f[n] = IF n = 0 THEN b ELSE g[n][f[n - 1]]

\* Recursion over the naturals.
LEMMA NatRecursion ==
  ASSUME NEW T, NEW b \in T, NEW g \in [Nat -> [T -> T]]
  PROVE  \E f \in [Nat -> T] : Iterates(f, b, g)
<1> DEFINE Upto(n, f) == f \in [0 .. n -> T] /\ f[0] = b
                         /\ \A i \in 0 .. (n - 1) : f[i + 1] = g[i][f[i]]
           I == {n \in Nat : \E f : Upto(n, f)}
<1>1. 0 \in I
  <2>1. Upto(0, [i \in 0 .. 0 |-> b])
    OBVIOUS
  <2> QED
    BY <2>1
<1>2. ASSUME NEW n \in Nat, n \in I PROVE n + 1 \in I
  <2>1. PICK f : Upto(n, f)
    BY <1>2
  <2> DEFINE h == [i \in 0 .. n + 1 |-> IF i <= n THEN f[i] ELSE g[n][f[n]]]
  <2>2. h \in [0 .. n + 1 -> T]
    BY <2>1
  <2>3. h[0] = b /\ \A i \in 0 .. n : h[i + 1] = g[i][h[i]]
    BY <2>1
  <2>4. Upto(n + 1, h)
    <3>1. (n + 1) - 1 = n
      OBVIOUS
    <3> HIDE DEF h
    <3> QED
      BY <2>2, <2>3, <3>1
  <2> HIDE DEF Upto, h
  <2> QED
    BY <2>4
<1>3. ASSUME NEW n \in Nat, NEW m \in Nat, NEW f, NEW h, Upto(n, f), Upto(m, h),
             NEW k \in Nat, k <= n, k <= m
      PROVE  f[k] = h[k]
  <2> DEFINE J == {i \in Nat : i <= n /\ i <= m => f[i] = h[i]}
  <2>1. 0 \in J
    BY <1>3
  <2>2. ASSUME NEW i \in Nat, i \in J PROVE i + 1 \in J
    <3>1. CASE i + 1 <= n /\ i + 1 <= m
      <4>1. f[i] = h[i] /\ i \in 0 .. (n - 1) /\ i \in 0 .. (m - 1)
        BY <2>2, <3>1
      <4> QED
        BY <1>3, <4>1
    <3> QED
      BY <3>1
  <2>3. Nat \subseteq J
    <3> HIDE DEF J
    <3> QED
      BY <2>1, <2>2, NatSetInduction
  <2> QED
    BY <1>3, <2>3
<1>4. Nat \subseteq I
  <2> HIDE DEF I
  <2> QED
    BY <1>1, <1>2, NatSetInduction
<1> DEFINE pick(n) == CHOOSE f : Upto(n, f)
           F == [n \in Nat |-> pick(n)[n]]
<1>5. \A n \in Nat : Upto(n, pick(n))
  BY <1>4
<1> HIDE DEF pick
<1>6. ASSUME NEW n \in Nat PROVE pick(n + 1)[n] = pick(n)[n]
  <2> HIDE DEF Upto
  <2> QED
    BY <1>3, <1>5
<1>7. F \in [Nat -> T] /\ F[0] = b
  BY <1>5
<1>8. ASSUME NEW n \in Nat PROVE F[n + 1] = g[n][F[n]]
  <2>1. pick(n + 1)[n + 1] = g[n][pick(n + 1)[n]]
    BY <1>5
  <2> QED
    BY <1>6, <2>1
<1> HIDE DEF F
<1> QED
  BY <1>7, <1>8 DEF Iterates

\* Recursion up to N, as a recursive function writes it.
LEMMA UptoRecursion ==
  ASSUME NEW N \in Nat, NEW T, NEW b \in T, NEW g \in [1 .. N -> [T -> T]]
  PROVE  \E f \in [0 .. N -> T] : IteratesUpto(N, f, b, g)
<1> DEFINE G == [n \in Nat |-> IF n + 1 <= N THEN g[n + 1] ELSE [y \in T |-> y]]
<1>1. G \in [Nat -> [T -> T]]
  OBVIOUS
<1> HIDE DEF G
<1>2. PICK F \in [Nat -> T] : F[0] = b /\ \A n \in Nat : F[n + 1] = G[n][F[n]]
  <2>1. PICK F \in [Nat -> T] : Iterates(F, b, G)
    BY <1>1, NatRecursion
  <2> QED
    BY <2>1 DEF Iterates
<1> DEFINE f == [n \in 0 .. N |-> F[n]]
<1>3. f \in [0 .. N -> T]
  BY <1>2
<1>4. ASSUME NEW n \in 0 .. N PROVE f[n] = IF n = 0 THEN b ELSE g[n][f[n - 1]]
  <2>1. CASE n = 0
    BY <1>2, <2>1
  <2>2. CASE n # 0
    <3>1. n - 1 \in Nat /\ n - 1 \in 0 .. N /\ (n - 1) + 1 = n
      BY <2>2
    <3>2. F[n] = G[n - 1][F[n - 1]]
      BY <1>2, <3>1
    <3>3. G[n - 1] = g[n]
      BY <3>1 DEF G
    <3> QED
      BY <2>2, <3>1, <3>2, <3>3
  <2> QED
    BY <2>1, <2>2
<1> HIDE DEF f
<1> QED
  BY <1>3, <1>4 DEF IteratesUpto

-----------------------------------------------------------------------------
(* Sums: SumFunctionOnSet(f, S) adds f[x] for the x of a finite set S.      *)

\* The recursion that the fold behind a sum is, over the subsets of S.
IsSum(it, f, S) ==
  it = [s \in SUBSET S |-> IF s = {} THEN 0
                           ELSE f[CHOOSE x \in s : TRUE] + it[s \ {CHOOSE x \in s : TRUE}]]

\* What the recursion says of a set does not depend on the set it was started from.
LEMMA SumUnique ==
  ASSUME NEW S, NEW T, NEW f, NEW i, NEW j, IsSum(i, f, S), IsSum(j, f, T),
         NEW s, s \subseteq S, s \subseteq T, IsFiniteSet(s)
  PROVE  i[s] = j[s]
<1> DEFINE N == {n \in Nat : \A r \in SUBSET s : Cardinality(r) = n => i[r] = j[r]}
<1>0. \A r \in SUBSET s : IsFiniteSet(r) /\ Cardinality(r) \in Nat
  BY FS_Subset, FS_CardinalityType
<1>1. 0 \in N
  <2> SUFFICES ASSUME NEW r \in SUBSET s, Cardinality(r) = 0 PROVE i[r] = j[r]
    OBVIOUS
  <2>1. r = {}
    BY <1>0, FS_EmptySet
  <2> QED
    BY <2>1 DEF IsSum
<1>2. ASSUME NEW n \in Nat, n \in N PROVE n + 1 \in N
  <2> SUFFICES ASSUME NEW r \in SUBSET s, Cardinality(r) = n + 1 PROVE i[r] = j[r]
    OBVIOUS
  <2> DEFINE x == CHOOSE y \in r : TRUE
  <2>1. r # {}
    <3>1. Cardinality(r) # 0
      OBVIOUS
    <3> QED
      BY <3>1, FS_EmptySet
  <2>2. x \in r
    BY <2>1
  <2>3. r \ {x} \in SUBSET s /\ r \ {x} \in SUBSET S /\ r \ {x} \in SUBSET T
    OBVIOUS
  <2>4. Cardinality(r \ {x}) = n
    <3>1. IsFiniteSet(r) /\ (n + 1) - 1 = n
      BY <1>0
    <3>2. Cardinality(r \ {x}) = Cardinality(r) - 1
      BY <2>2, <3>1, FS_RemoveElement
    <3> QED
      BY <3>1, <3>2
  <2>5. i[r \ {x}] = j[r \ {x}]
    BY <1>2, <2>3, <2>4
  <2>6. i[r] = f[x] + i[r \ {x}] /\ j[r] = f[x] + j[r \ {x}]
    BY <2>1 DEF IsSum
  <2> QED
    BY <2>5, <2>6
<1>3. Nat \subseteq N
  <2> HIDE DEF N
  <2> QED
    BY <1>1, <1>2, NatSetInduction
<1> QED
  BY <1>0, <1>3

\* The sum is that recursion, taken at the whole set.
LEMMA SumExists ==
  ASSUME NEW S, IsFiniteSet(S), NEW f, \A x \in S : f[x] \in Int
  PROVE  \E it \in [SUBSET S -> Int] : IsSum(it, f, S) /\ it[S] = SumFunctionOnSet(f, S)
<1> DEFINE U == [SUBSET S -> Int]
           any(s) == CHOOSE x \in s : TRUE
           next(F) == [s \in SUBSET S |-> IF s = {} THEN 0 ELSE f[any(s)] + F[s \ {any(s)}]]
           step == [n \in Nat |-> [F \in U |-> next(F)]]
           start == [s \in SUBSET S |-> 0]
<1>1. ASSUME NEW F \in U PROVE next(F) \in U
  <2>1. ASSUME NEW s \in SUBSET S, s # {} PROVE f[any(s)] + F[s \ {any(s)}] \in Int
    <3>1. any(s) \in S /\ s \ {any(s)} \in SUBSET S
      BY <2>1
    <3> HIDE DEF any
    <3> QED
      BY <3>1
  <2> HIDE DEF any
  <2> QED
    BY <2>1
<1>2. start \in U /\ step \in [Nat -> [U -> U]]
  <2>1. start \in U
    OBVIOUS
  <2> HIDE DEF next, U, start
  <2>2. step \in [Nat -> [U -> U]]
    BY <1>1
  <2> QED
    BY <2>1, <2>2
<1>3. PICK L \in [Nat -> U] : L[0] = start /\ \A n \in Nat : L[n + 1] = step[n][L[n]]
  <2> HIDE DEF U, step, start
  <2>1. PICK L \in [Nat -> U] : Iterates(L, start, step)
    BY <1>2, NatRecursion
  <2> QED
    BY <2>1 DEF Iterates
<1>4. \A n \in Nat : L[n + 1] = next(L[n])
  <2> HIDE DEF next, U
  <2> QED
    BY <1>3
<1> DEFINE h == [s \in SUBSET S |-> L[Cardinality(s)][s]]
<1>5. \A s \in SUBSET S : IsFiniteSet(s) /\ Cardinality(s) \in Nat
  BY FS_Subset, FS_CardinalityType
<1>6. h \in [SUBSET S -> Int]
  BY <1>3, <1>5
<1>7. ASSUME NEW s \in SUBSET S
       PROVE  h[s] = IF s = {} THEN 0 ELSE f[any(s)] + h[s \ {any(s)}]
  <2>1. CASE s = {}
    <3>1. Cardinality(s) = 0
      BY <2>1, FS_EmptySet
    <3>2. L[0][s] = 0
      BY <1>3
    <3> QED
      BY <2>1, <3>1, <3>2
  <2>2. CASE s # {}
    <3> DEFINE r == s \ {any(s)}
               m == Cardinality(r)
    <3>1. any(s) \in s /\ r \in SUBSET S
      BY <2>2
    <3> HIDE DEF any
    <3>2. m \in Nat /\ Cardinality(s) = m + 1
      <4>1. Cardinality(r) = Cardinality(s) - 1 /\ Cardinality(s) \in Nat
        BY <1>5, <3>1, FS_RemoveElement
      <4>2. m \in Nat
        BY <1>5, <3>1
      <4> QED
        BY <4>1, <4>2
    <3>3. L[m + 1] = next(L[m])
      BY <1>4, <3>2
    <3>4. L[m + 1][s] = f[any(s)] + L[m][r]
      BY <2>2, <3>3
    <3> QED
      BY <2>2, <3>1, <3>2, <3>4
  <2> QED
    BY <2>1, <2>2
<1>8. IsSum(h, f, S)
  <2> HIDE DEF h
  <2>1. h = [s \in SUBSET S |-> h[s]]
    BY <1>6
  <2> QED
    BY <1>7, <2>1 DEF IsSum
<1> HIDE DEF h
<1> DEFINE it == CHOOSE i : IsSum(i, f, S)
<1>9. IsSum(it, f, S)
  BY <1>8
<1>10. it[S] = SumFunctionOnSet(f, S)
  BY DEF SumFunctionOnSet, FoldFunctionOnSet, MapThenFoldSet, IsSum
<1>11. it \in [SUBSET S -> Int]
  <2>1. ASSUME NEW s \in SUBSET S PROVE it[s] = h[s]
    <3>1. IsFiniteSet(s)
      BY FS_Subset
    <3> HIDE DEF it
    <3> QED
      BY <1>8, <1>9, <3>1, SumUnique
  <2>2. it = [s \in SUBSET S |-> it[s]]
    <3> HIDE DEF it
    <3> QED
      BY <1>9 DEF IsSum
  <2> HIDE DEF it
  <2> QED
    BY <1>6, <2>1, <2>2
<1> HIDE DEF it
<1> QED
  BY <1>9, <1>10, <1>11

LEMMA SumEmpty == ASSUME NEW f PROVE SumFunctionOnSet(f, {}) = 0
<1>1. IsFiniteSet({}) /\ \A x \in {} : f[x] \in Int
  BY FS_EmptySet
<1>2. PICK it \in [SUBSET {} -> Int] : IsSum(it, f, {}) /\ it[{}] = SumFunctionOnSet(f, {})
  BY <1>1, SumExists
<1> QED
  BY <1>2 DEF IsSum

LEMMA SumInt ==
  ASSUME NEW S, IsFiniteSet(S), NEW f, \A x \in S : f[x] \in Int
  PROVE  SumFunctionOnSet(f, S) \in Int
<1>1. PICK it \in [SUBSET S -> Int] : it[S] = SumFunctionOnSet(f, S)
  BY SumExists
<1> QED
  BY <1>1

\* Any element can be taken out of a sum, whichever the recursion takes.
LEMMA SumOut ==
  ASSUME NEW S, IsFiniteSet(S), NEW f, \A x \in S : f[x] \in Int, NEW a \in S
  PROVE  /\ SumFunctionOnSet(f, S) = f[a] + SumFunctionOnSet(f, S \ {a})
         /\ SumFunctionOnSet(f, S \ {a}) \in Int
<1>1. PICK it \in [SUBSET S -> Int] : IsSum(it, f, S) /\ it[S] = SumFunctionOnSet(f, S)
  BY SumExists
<1>2. it[S \ {a}] = SumFunctionOnSet(f, S \ {a})
  <2>1. IsFiniteSet(S \ {a}) /\ \A x \in S \ {a} : f[x] \in Int
    BY FS_Subset
  <2>2. PICK i \in [SUBSET (S \ {a}) -> Int] :
           IsSum(i, f, S \ {a}) /\ i[S \ {a}] = SumFunctionOnSet(f, S \ {a})
    <3> HIDE <1>1
    <3> QED
      BY <2>1, SumExists
  <2> QED
    BY <1>1, <2>1, <2>2, SumUnique
<1> DEFINE N == {n \in Nat : \A s \in SUBSET S : Cardinality(s) = n =>
                                \A x \in s : it[s] = f[x] + it[s \ {x}]}
<1>0. \A s \in SUBSET S : IsFiniteSet(s) /\ Cardinality(s) \in Nat
  BY FS_Subset, FS_CardinalityType
<1>3. 0 \in N
  BY <1>0, FS_EmptySet
<1>4. ASSUME NEW n \in Nat, n \in N PROVE n + 1 \in N
  <2> SUFFICES ASSUME NEW s \in SUBSET S, Cardinality(s) = n + 1, NEW x \in s
               PROVE  it[s] = f[x] + it[s \ {x}]
    OBVIOUS
  <2> DEFINE y == CHOOSE z \in s : TRUE
  <2>1. y \in s
    OBVIOUS
  <2>2. it[s] = f[y] + it[s \ {y}]
    BY <1>1 DEF IsSum
  <2> HIDE DEF y
  <2>3. ASSUME NEW z \in s PROVE Cardinality(s \ {z}) = n
    <3>1. IsFiniteSet(s) /\ (n + 1) - 1 = n
      BY <1>0
    <3>2. Cardinality(s \ {z}) = Cardinality(s) - 1
      BY <3>1, FS_RemoveElement
    <3> QED
      BY <3>1, <3>2
  <2>4. CASE x # y
    <3>1. it[s \ {y}] = f[x] + it[(s \ {y}) \ {x}]
      BY <1>4, <2>1, <2>3, <2>4
    <3>2. it[s \ {x}] = f[y] + it[(s \ {x}) \ {y}]
      BY <1>4, <2>1, <2>3, <2>4
    <3>3. (s \ {x}) \ {y} = (s \ {y}) \ {x}
      OBVIOUS
    <3> DEFINE w == it[(s \ {y}) \ {x}]
    <3>4. f[x] \in Int /\ f[y] \in Int /\ w \in Int
      BY <1>1, <2>1
    <3>5. it[s \ {x}] = f[y] + w /\ it[s \ {y}] = f[x] + w
      BY <3>1, <3>2, <3>3
    <3> HIDE DEF w
    <3> QED
      BY <2>2, <3>4, <3>5
  <2> QED
    BY <2>2, <2>4
<1>5. Nat \subseteq N
  <2> HIDE DEF N
  <2> QED
    BY <1>3, <1>4, NatSetInduction
<1>6. it[S] = f[a] + it[S \ {a}]
  BY <1>0, <1>5
<1> QED
  BY <1>1, <1>2, <1>6

LEMMA SumIn ==
  ASSUME NEW S, IsFiniteSet(S), NEW f, \A x \in S : f[x] \in Int, NEW a, a \notin S, f[a] \in Int
  PROVE  SumFunctionOnSet(f, S \cup {a}) = f[a] + SumFunctionOnSet(f, S)
<1>1. IsFiniteSet(S \cup {a}) /\ (S \cup {a}) \ {a} = S /\ \A x \in S \cup {a} : f[x] \in Int
  BY FS_AddElement
<1> QED
  BY <1>1, SumOut

LEMMA SumSame ==
  ASSUME NEW S, IsFiniteSet(S), NEW f, NEW g, \A x \in S : f[x] \in Int /\ g[x] = f[x]
  PROVE  SumFunctionOnSet(f, S) = SumFunctionOnSet(g, S)
<1> DEFINE I == {T \in SUBSET S : SumFunctionOnSet(f, T) = SumFunctionOnSet(g, T)}
<1>1. {} \in I
  BY SumEmpty
<1>2. ASSUME NEW T \in SUBSET S, NEW x \in S \ T, T \in I PROVE T \cup {x} \in I
  <2>1. IsFiniteSet(T) /\ f[x] \in Int /\ g[x] = f[x] /\ \A y \in T : f[y] \in Int /\ g[y] \in Int
    BY FS_Subset
  <2>2. SumFunctionOnSet(f, T \cup {x}) = f[x] + SumFunctionOnSet(f, T)
    BY <2>1, SumIn
  <2>3. SumFunctionOnSet(g, T \cup {x}) = g[x] + SumFunctionOnSet(g, T)
    BY <2>1, SumIn
  <2> QED
    BY <1>2, <2>1, <2>2, <2>3
<1> HIDE DEF I
<1>3. S \in I
  BY <1>1, <1>2, FiniteSetInduction
<1> QED
  BY <1>3 DEF I

LEMMA SumPlus ==
  ASSUME NEW S, IsFiniteSet(S), NEW f, NEW g, NEW h,
         \A x \in S : f[x] \in Int /\ g[x] \in Int /\ h[x] = f[x] + g[x]
  PROVE  SumFunctionOnSet(h, S) = SumFunctionOnSet(f, S) + SumFunctionOnSet(g, S)
<1> DEFINE I == {T \in SUBSET S : SumFunctionOnSet(h, T) =
                                  SumFunctionOnSet(f, T) + SumFunctionOnSet(g, T)}
<1>1. {} \in I
  BY SumEmpty
<1>2. ASSUME NEW T \in SUBSET S, NEW x \in S \ T, T \in I PROVE T \cup {x} \in I
  <2>1. /\ IsFiniteSet(T) /\ f[x] \in Int /\ g[x] \in Int /\ h[x] = f[x] + g[x] /\ h[x] \in Int
        /\ \A y \in T : f[y] \in Int /\ g[y] \in Int /\ h[y] \in Int
    BY FS_Subset
  <2>2. SumFunctionOnSet(f, T \cup {x}) = f[x] + SumFunctionOnSet(f, T)
    BY <2>1, SumIn
  <2>3. SumFunctionOnSet(g, T \cup {x}) = g[x] + SumFunctionOnSet(g, T)
    BY <2>1, SumIn
  <2>4. SumFunctionOnSet(h, T \cup {x}) = h[x] + SumFunctionOnSet(h, T)
    BY <2>1, SumIn
  <2>5. SumFunctionOnSet(f, T) \in Int /\ SumFunctionOnSet(g, T) \in Int
    BY <2>1, SumInt
  <2> QED
    BY <1>2, <2>1, <2>2, <2>3, <2>4, <2>5
<1> HIDE DEF I
<1>3. S \in I
  BY <1>1, <1>2, FiniteSetInduction
<1> QED
  BY <1>3 DEF I

LEMMA SumMonotone ==
  ASSUME NEW S, IsFiniteSet(S), NEW f, NEW g, \A x \in S : f[x] \in Int /\ g[x] \in Int /\ f[x] <= g[x]
  PROVE  SumFunctionOnSet(f, S) <= SumFunctionOnSet(g, S)
<1> DEFINE I == {T \in SUBSET S : SumFunctionOnSet(f, T) <= SumFunctionOnSet(g, T)}
<1>1. {} \in I
  BY SumEmpty
<1>2. ASSUME NEW T \in SUBSET S, NEW x \in S \ T, T \in I PROVE T \cup {x} \in I
  <2>1. /\ IsFiniteSet(T) /\ f[x] \in Int /\ g[x] \in Int /\ f[x] <= g[x]
        /\ \A y \in T : f[y] \in Int /\ g[y] \in Int
    BY FS_Subset
  <2>2. SumFunctionOnSet(f, T \cup {x}) = f[x] + SumFunctionOnSet(f, T)
    BY <2>1, SumIn
  <2>3. SumFunctionOnSet(g, T \cup {x}) = g[x] + SumFunctionOnSet(g, T)
    BY <2>1, SumIn
  <2>5. SumFunctionOnSet(f, T) \in Int /\ SumFunctionOnSet(g, T) \in Int
    BY <2>1, SumInt
  <2> QED
    BY <1>2, <2>1, <2>2, <2>3, <2>5
<1> HIDE DEF I
<1>3. S \in I
  BY <1>1, <1>2, FiniteSetInduction
<1> QED
  BY <1>3 DEF I

\* A sum moves by what one of its terms moves by.
LEMMA SumBump ==
  ASSUME NEW S, IsFiniteSet(S), NEW f, NEW g, NEW a \in S, NEW d \in Int,
         \A x \in S : f[x] \in Int, g[a] = f[a] + d, \A x \in S \ {a} : g[x] = f[x]
  PROVE  SumFunctionOnSet(g, S) = SumFunctionOnSet(f, S) + d
<1>1. IsFiniteSet(S \ {a}) /\ f[a] \in Int /\ \A x \in S : g[x] \in Int
  BY FS_Subset
<1>2. /\ SumFunctionOnSet(f, S) = f[a] + SumFunctionOnSet(f, S \ {a})
      /\ SumFunctionOnSet(f, S \ {a}) \in Int
  BY SumOut
<1>3. SumFunctionOnSet(g, S) = g[a] + SumFunctionOnSet(g, S \ {a})
  BY <1>1, SumOut
<1>4. SumFunctionOnSet(f, S \ {a}) = SumFunctionOnSet(g, S \ {a})
  BY <1>1, SumSame
<1> QED
  BY <1>1, <1>2, <1>3, <1>4

LEMMA SumNat ==
  ASSUME NEW S, IsFiniteSet(S), NEW f, \A x \in S : f[x] \in Nat
  PROVE  SumFunctionOnSet(f, S) \in Nat
<1> DEFINE I == {T \in SUBSET S : SumFunctionOnSet(f, T) \in Nat}
<1>1. {} \in I
  BY SumEmpty
<1>2. ASSUME NEW T \in SUBSET S, NEW x \in S \ T, T \in I PROVE T \cup {x} \in I
  <2>1. IsFiniteSet(T) /\ f[x] \in Int /\ f[x] \in Nat /\ \A y \in T : f[y] \in Int
    BY FS_Subset
  <2>2. SumFunctionOnSet(f, T \cup {x}) = f[x] + SumFunctionOnSet(f, T)
    BY <2>1, SumIn
  <2> QED
    BY <1>2, <2>1, <2>2
<1> HIDE DEF I
<1>3. S \in I
  BY <1>1, <1>2, FiniteSetInduction
<1> QED
  BY <1>3 DEF I

LEMMA UptoFinite == ASSUME NEW n \in Nat PROVE IsFiniteSet(1 .. n)
<1>1. 1 \in Int /\ n \in Int
  OBVIOUS
<1> QED
  BY <1>1, FS_Interval

\* A sum over an interval, one further.
LEMMA SumNext ==
  ASSUME NEW n \in Nat, NEW f, \A i \in 1 .. (n + 1) : f[i] \in Int
  PROVE  SumFunctionOnSet(f, 1 .. (n + 1)) = SumFunctionOnSet(f, 1 .. n) + f[n + 1]
<1>1. IsFiniteSet(1 .. n) /\ 1 .. (n + 1) = (1 .. n) \cup {n + 1} /\ n + 1 \notin 1 .. n
  BY UptoFinite
<1>2. f[n + 1] \in Int /\ \A i \in 1 .. n : f[i] \in Int
  OBVIOUS
<1>3. SumFunctionOnSet(f, (1 .. n) \cup {n + 1}) = f[n + 1] + SumFunctionOnSet(f, 1 .. n)
  BY <1>1, <1>2, SumIn
<1>4. SumFunctionOnSet(f, 1 .. n) \in Int
  BY <1>1, <1>2, SumInt
<1>5. SumFunctionOnSet(f, 1 .. (n + 1)) = f[n + 1] + SumFunctionOnSet(f, 1 .. n)
  BY <1>1, <1>3
<1> QED
  BY <1>2, <1>4, <1>5

\* h goes on by the n values of g after the m values of f.
Joins(h, f, m, g, n) ==
    /\ m \in Nat /\ n \in Nat
    /\ \A i \in 1 .. m : f[i] \in Int /\ h[i] = f[i]
    /\ \A i \in 1 .. n : g[i] \in Int /\ h[m + i] = g[i]

\* The sum over one interval after another.
LEMMA SumJoin ==
  ASSUME NEW m, NEW n, NEW f, NEW g, NEW h, Joins(h, f, m, g, n)
  PROVE  SumFunctionOnSet(h, 1 .. (m + n)) =
            SumFunctionOnSet(f, 1 .. m) + SumFunctionOnSet(g, 1 .. n)
<1> USE DEF Joins
<1> DEFINE I == {k \in Nat : k <= n => SumFunctionOnSet(h, 1 .. (m + k)) =
                      SumFunctionOnSet(f, 1 .. m) + SumFunctionOnSet(g, 1 .. k)}
<1>0. SumFunctionOnSet(f, 1 .. m) \in Int
  BY UptoFinite, SumInt
<1>1. 0 \in I
  <2>1. 1 .. 0 = {} /\ m + 0 = m
    OBVIOUS
  <2>2. SumFunctionOnSet(g, {}) = 0
    BY SumEmpty
  <2>3. SumFunctionOnSet(f, 1 .. m) = SumFunctionOnSet(h, 1 .. m)
    BY UptoFinite, SumSame
  <2>4. SumFunctionOnSet(h, 1 .. (m + 0)) =
           SumFunctionOnSet(f, 1 .. m) + SumFunctionOnSet(g, 1 .. 0)
    BY <1>0, <2>1, <2>2, <2>3
  <2> QED
    BY <2>4
<1>2. ASSUME NEW k \in Nat, k \in I PROVE k + 1 \in I
  <2> SUFFICES ASSUME k + 1 <= n
               PROVE  SumFunctionOnSet(h, 1 .. (m + (k + 1))) =
                         SumFunctionOnSet(f, 1 .. m) + SumFunctionOnSet(g, 1 .. (k + 1))
    OBVIOUS
  <2>1. SumFunctionOnSet(h, 1 .. (m + k)) =
           SumFunctionOnSet(f, 1 .. m) + SumFunctionOnSet(g, 1 .. k)
    BY <1>2
  <2>2. m + k \in Nat /\ (m + k) + 1 = m + (k + 1)
    OBVIOUS
  <2>3. \A i \in 1 .. ((m + k) + 1) : h[i] \in Int
    <3> SUFFICES ASSUME NEW i \in 1 .. ((m + k) + 1), ~(i \in 1 .. m) PROVE h[i] \in Int
      OBVIOUS
    <3>1. i - m \in 1 .. n /\ m + (i - m) = i
      OBVIOUS
    <3> QED
      BY <3>1
  <2>4. SumFunctionOnSet(h, 1 .. ((m + k) + 1)) = SumFunctionOnSet(h, 1 .. (m + k)) + h[(m + k) + 1]
    BY <2>2, <2>3, SumNext
  <2>5. SumFunctionOnSet(g, 1 .. (k + 1)) = SumFunctionOnSet(g, 1 .. k) + g[k + 1]
    BY SumNext
  <2>6. g[k + 1] \in Int /\ h[m + (k + 1)] = g[k + 1]
    OBVIOUS
  <2>7. SumFunctionOnSet(g, 1 .. k) \in Int
    BY UptoFinite, SumInt
  <2> QED
    BY <1>0, <2>1, <2>2, <2>4, <2>5, <2>6, <2>7
<1>3. Nat \subseteq I
  <2> HIDE DEF I
  <2> QED
    BY <1>1, <1>2, NatSetInduction
<1> QED
  BY <1>3

\* Of values that are naturals one is the least.
LEMMA LeastValue ==
  ASSUME NEW S, S # {}, NEW f, \A x \in S : f[x] \in Nat
  PROVE  \E x \in S : \A y \in S : f[x] <= f[y]
<1> SUFFICES ASSUME \A x \in S : \E y \in S : ~(f[x] <= f[y]) PROVE FALSE
  OBVIOUS
<1> DEFINE I == {n \in Nat : \A x \in S : f[x] > n}
<1>1. 0 \in I
  <2> SUFFICES ASSUME NEW x \in S PROVE f[x] > 0
    OBVIOUS
  <2>1. PICK y \in S : ~(f[x] <= f[y])
    OBVIOUS
  <2>2. f[x] \in Nat /\ f[y] \in Nat
    OBVIOUS
  <2> QED
    BY <2>1, <2>2
<1>2. ASSUME NEW n \in Nat, n \in I PROVE n + 1 \in I
  <2> SUFFICES ASSUME NEW x \in S PROVE f[x] > n + 1
    OBVIOUS
  <2>1. PICK y \in S : ~(f[x] <= f[y])
    OBVIOUS
  <2>2. f[x] \in Nat /\ f[y] \in Nat /\ f[y] > n
    BY <1>2
  <2> QED
    BY <2>1, <2>2
<1>3. Nat \subseteq I
  <2> HIDE DEF I
  <2> QED
    BY <1>1, <1>2, NatSetInduction
<1>4. PICK x \in S : TRUE
  OBVIOUS
<1>5. f[x] \in Nat /\ f[x] > f[x]
  BY <1>3, <1>4
<1> QED
  BY <1>5
\* The sum over two sets that are apart.
LEMMA SumUnion ==
  ASSUME NEW S, IsFiniteSet(S), NEW T, IsFiniteSet(T), S \cap T = {}, NEW f,
         \A x \in S \cup T : f[x] \in Int
  PROVE  SumFunctionOnSet(f, S \cup T) = SumFunctionOnSet(f, S) + SumFunctionOnSet(f, T)
<1> DEFINE I == {X \in SUBSET T : SumFunctionOnSet(f, S \cup X) =
                                   SumFunctionOnSet(f, S) + SumFunctionOnSet(f, X)}
<1>0. SumFunctionOnSet(f, S) \in Int
  BY SumInt
<1>1. {} \in I
  <2>1. SumFunctionOnSet(f, {}) = 0 /\ S \cup {} = S
    BY SumEmpty
  <2> QED
    BY <1>0, <2>1
<1>2. ASSUME NEW X \in SUBSET T, NEW a \in T \ X, X \in I PROVE X \cup {a} \in I
  <2>1. IsFiniteSet(X) /\ IsFiniteSet(S \cup X) /\ a \notin S \cup X
    BY FS_Subset, FS_Union
  <2>2. SumFunctionOnSet(f, (S \cup X) \cup {a}) = f[a] + SumFunctionOnSet(f, S \cup X)
    BY <2>1, SumIn
  <2>3. SumFunctionOnSet(f, X \cup {a}) = f[a] + SumFunctionOnSet(f, X)
    BY <2>1, SumIn
  <2>4. SumFunctionOnSet(f, X) \in Int /\ f[a] \in Int
    BY <2>1, SumInt
  <2>5. SumFunctionOnSet(f, S \cup X) = SumFunctionOnSet(f, S) + SumFunctionOnSet(f, X)
    BY <1>2
  <2>6. (S \cup X) \cup {a} = S \cup (X \cup {a})
    OBVIOUS
  <2> HIDE DEF I
  <2>7. SumFunctionOnSet(f, S \cup (X \cup {a})) =
           SumFunctionOnSet(f, S) + SumFunctionOnSet(f, X \cup {a})
    <3>1. SumFunctionOnSet(f, S \cup (X \cup {a})) = f[a] + SumFunctionOnSet(f, S \cup X)
      BY <2>2, <2>6, Zenon
    <3> QED
      BY <1>0, <2>3, <2>4, <2>5, <3>1
  <2>8. X \cup {a} \in SUBSET T
    OBVIOUS
  <2> QED
    BY <2>7, <2>8 DEF I
<1> HIDE DEF I
<1>3. T \in I
  BY <1>1, <1>2, FiniteSetInduction
<1> QED
  BY <1>3 DEF I

\* A sum of naturals is zero only if each of them is.
LEMMA SumZero ==
  ASSUME NEW S, IsFiniteSet(S), NEW f, \A x \in S : f[x] \in Nat, SumFunctionOnSet(f, S) <= 0, NEW a \in S
  PROVE  f[a] = 0
<1>1. SumFunctionOnSet(f, S) = f[a] + SumFunctionOnSet(f, S \ {a})
  BY SumOut
<1>2. SumFunctionOnSet(f, S \ {a}) \in Nat
  BY FS_RemoveElement, SumNat
<1> QED
  BY <1>1, <1>2
=============================================================================
