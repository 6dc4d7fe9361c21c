--------------------------- MODULE FiniteInduction ---------------------------
(***************************************************************************)
(* Induction in the form the proofs of this project need it, for sets      *)
(* instead of predicates: a set of naturals with 0 and the successor of    *)
(* each of its elements holds them all.  From it, facts about finite sets  *)
(* that the heuristics rely on.                                            *)
(***************************************************************************)
EXTENDS Sorting, FiniteSetTheorems, WellFoundedInduction, TLAPS

LEMMA LeastNatural ==
  ASSUME NEW T \in SUBSET Nat, T # {}
  PROVE  \E n \in T : \A m \in T : n <= m
<1> DEFINE R == OpToRel(<, Nat)
<1>1. IsWellFoundedOn(R, Nat)
  BY NatLessThanWellFounded
<1>2. \A x, y \in Nat : y < x => <<y, x>> \in R
  BY DEF OpToRel
<1> HIDE DEF R
<1>3. PICK x \in T : \A y \in T : ~(<<y, x>> \in R)
  BY <1>1, WFMin
<1>4. ASSUME NEW y \in T PROVE x <= y
  <2>1. x \in Nat /\ y \in Nat /\ ~(y < x)
    BY <1>2, <1>3
  <2> QED  BY <2>1
<1> QED  BY <1>4

LEMMA NaturalInduction ==
  ASSUME NEW S, 0 \in S, \A n \in Nat : n \in S => n + 1 \in S
  PROVE  Nat \subseteq S
<1> SUFFICES ASSUME Nat \ S # {} PROVE FALSE
  OBVIOUS
<1>1. PICK n \in Nat \ S : \A m \in Nat \ S : n <= m
  BY LeastNatural
<1>2. n - 1 \in Nat /\ n - 1 \in S
  BY <1>1
<1> QED  BY <1>1, <1>2

(* A family of finite sets with the empty set, and with every set that     *)
(* differs from one of its members by a new element, holds all finite sets.*)
LEMMA FiniteSetInduction ==
  ASSUME NEW U, NEW F,
         {} \in F,
         \A T \in SUBSET U, x \in U : IsFiniteSet(T) /\ T \in F /\ x \notin T => T \union {x} \in F
  PROVE  \A T \in SUBSET U : IsFiniteSet(T) => T \in F
<1> DEFINE S == {n \in Nat : \A T \in SUBSET U :
                   IsFiniteSet(T) /\ Cardinality(T) = n => T \in F}
<1>1. 0 \in S
  BY FS_EmptySet
<1>2. ASSUME NEW n \in Nat, n \in S, NEW T \in SUBSET U, IsFiniteSet(T), Cardinality(T) = n + 1
      PROVE  T \in F
  <2>1. PICK x \in T : TRUE
    BY <1>2, FS_EmptySet
  <2>2. IsFiniteSet(T \ {x}) /\ Cardinality(T \ {x}) = n
    <3>1. IsFiniteSet(T \ {x}) /\ Cardinality(T \ {x}) = Cardinality(T) - 1
      BY <1>2, FS_RemoveElement
    <3> QED  BY <1>2, <3>1
  <2>3. T \ {x} \in F
    BY <1>2, <2>2
  <2>4. T = (T \ {x}) \union {x} /\ x \in U /\ T \ {x} \in SUBSET U
    BY <2>1
  <2> HIDE DEF S
  <2> QED  BY <2>2, <2>3, <2>4
<1>3. \A n \in Nat : n \in S => n + 1 \in S
  BY <1>2
<1>4. Nat \subseteq S
  <2> HIDE DEF S
  <2> QED  BY <1>1, <1>3, NaturalInduction
<1> QED  BY <1>4, FS_CardinalityType

LEMMA LeastOfFinite ==
  ASSUME NEW T \in SUBSET Int, IsFiniteSet(T), T # {}
  PROVE  \E n \in T : \A m \in T : n <= m
<1> DEFINE F == {V \in SUBSET Int : V = {} \/ \E n \in V : \A m \in V : n <= m}
<1>1. {} \in F
  OBVIOUS
<1>2. ASSUME NEW V \in SUBSET Int, NEW x \in Int, V \in F
      PROVE  V \union {x} \in F
  <2>1. CASE V = {}
    BY <2>1
  <2>2. CASE V # {}
    <3>1. PICK n \in V : \A m \in V : n <= m
      BY <1>2, <2>2
    <3>2. CASE n <= x
      BY <3>1, <3>2
    <3>3. CASE x < n
      BY <3>1, <3>3
    <3> QED  BY <3>2, <3>3
  <2> QED  BY <2>1, <2>2
<1>3. T \in F
  <2> HIDE DEF F
  <2> QED  BY <1>1, <1>2, FiniteSetInduction
<1> QED  BY <1>3

LEMMA LeastValue ==
  ASSUME NEW S, IsFiniteSet(S), S # {}, NEW f \in [S -> Int]
  PROVE  \E x \in S : \A y \in S : f[x] <= f[y]
<1> DEFINE T == {f[x] : x \in S}
<1>1. T \in SUBSET Int /\ T # {}
  OBVIOUS
<1>2. f \in Surjection(S, T)
  BY DEF Surjection
<1> HIDE DEF T
<1>3. IsFiniteSet(T)
  BY <1>2, FS_Surjection
<1>4. PICK n \in T : \A m \in T : n <= m
  BY <1>1, <1>3, LeastOfFinite
<1> QED  BY <1>4 DEF T

LEMMA FourAreFinite ==
  ASSUME NEW a, NEW b, NEW c, NEW d
  PROVE  IsFiniteSet({a, b, c, d}) /\ Cardinality({a, b, c, d}) \in 0 .. 4
<1>1. IsFiniteSet({a}) /\ Cardinality({a}) = 1
  BY FS_Singleton
<1>2. /\ IsFiniteSet({a} \union {b}) /\ Cardinality({a} \union {b}) \in 1 .. 2
  BY <1>1, FS_AddElement
<1>3. /\ IsFiniteSet(({a} \union {b}) \union {c})
      /\ Cardinality(({a} \union {b}) \union {c}) \in 1 .. 3
  BY <1>2, FS_AddElement
<1>4. /\ IsFiniteSet((({a} \union {b}) \union {c}) \union {d})
      /\ Cardinality((({a} \union {b}) \union {c}) \union {d}) \in 1 .. 4
  BY <1>3, FS_AddElement
<1>5. {a, b, c, d} = (({a} \union {b}) \union {c}) \union {d}
  OBVIOUS
<1> QED  BY <1>4, <1>5

-----------------------------------------------------------------------------
(* Sums.  SumFunctionOnSet takes the terms away one by one; what it has    *)
(* made of any subset of them is a partial sum.                            *)
Pick(T) == CHOOSE x \in T : TRUE

NextSum(sum, f, T) == IF T = {} THEN 0 ELSE f[Pick(T)] + sum[T \ {Pick(T)}]

PartialSums(f, D) == CHOOSE sum : sum = [T \in SUBSET D |-> NextSum(sum, f, T)]

LEMMA SumIsPartial ==
  ASSUME NEW f, NEW D
  PROVE  SumFunctionOnSet(f, D) = PartialSums(f, D)[D]
  BY DEF SumFunctionOnSet, FoldFunctionOnSet, MapThenFoldSet, PartialSums, NextSum, Pick

LEMMA PickRemoves ==
  ASSUME NEW T, IsFiniteSet(T), T # {}
  PROVE  /\ Pick(T) \in T
         /\ Cardinality(T) \in Nat
         /\ Cardinality(T \ {Pick(T)}) = Cardinality(T) - 1
<1>1. Pick(T) \in T
  BY DEF Pick
<1> QED  BY <1>1, FS_RemoveElement, FS_CardinalityType

LEMMA PartialSumsExist ==
  ASSUME NEW f, NEW D, IsFiniteSet(D)
  PROVE  \A T \in SUBSET D : PartialSums(f, D)[T] = NextSum(PartialSums(f, D), f, T)
<1> DEFINE Up(n) == {T \in SUBSET D : Cardinality(T) <= n}
           Found == {n \in Nat : \E sum : sum = [T \in Up(n) |-> NextSum(sum, f, T)]}
<1>1. \A T \in SUBSET D : IsFiniteSet(T) /\ Cardinality(T) \in Nat /\ Cardinality(T) <= Cardinality(D)
  BY FS_Subset, FS_CardinalityType
<1>2. ASSUME NEW n \in Nat, NEW T \in Up(n + 1), T # {}
      PROVE  T \ {Pick(T)} \in Up(n)
  <2> DEFINE U == T \ {Pick(T)}
  <2>1. Cardinality(T) \in Nat /\ Cardinality(U) = Cardinality(T) - 1 /\ U \in SUBSET D
    BY <1>1, <1>2, PickRemoves
  <2> HIDE DEF U
  <2>2. U \in Up(n)
    BY <1>2, <2>1
  <2> QED  BY <2>2 DEF U
<1>3. 0 \in Found
  <2> DEFINE sum == [T \in Up(0) |-> 0]
  <2>1. \A T \in Up(0) : T = {}
    BY <1>1, FS_EmptySet
  <2>2. sum = [T \in Up(0) |-> NextSum(sum, f, T)]
    BY <2>1 DEF NextSum
  <2> QED  BY <2>2
<1>4. ASSUME NEW n \in Nat, n \in Found PROVE n + 1 \in Found
  <2>1. PICK sum : sum = [T \in Up(n) |-> NextSum(sum, f, T)]
    BY <1>4
  <2> DEFINE next == [T \in Up(n + 1) |-> NextSum(sum, f, T)]
  <2>2. Up(n) \subseteq Up(n + 1)
    BY <1>1
  <2>3. \A T \in Up(n + 1) : T # {} => T \ {Pick(T)} \in Up(n)
    BY <1>2
  <2> HIDE DEF Up
  <2>4. \A T \in Up(n) : next[T] = sum[T]
    BY <2>1, <2>2
  <2>5. ASSUME NEW T \in Up(n + 1) PROVE NextSum(next, f, T) = NextSum(sum, f, T)
    <3>1. CASE T = {}
      BY <3>1 DEF NextSum
    <3>2. CASE T # {}
      <4>1. next[T \ {Pick(T)}] = sum[T \ {Pick(T)}]
        BY <2>3, <2>4, <3>2
      <4>2. /\ NextSum(next, f, T) = f[Pick(T)] + next[T \ {Pick(T)}]
            /\ NextSum(sum, f, T) = f[Pick(T)] + sum[T \ {Pick(T)}]
        BY <3>2 DEF NextSum
      <4> QED  BY <4>1, <4>2, Zenon
    <3> QED  BY <3>1, <3>2
  <2>6. next = [T \in Up(n + 1) |-> NextSum(next, f, T)]
    BY <2>5, Zenon
  <2> HIDE DEF next
  <2>7. \E later : later = [T \in Up(n + 1) |-> NextSum(later, f, T)]
    BY <2>6, Zenon
  <2> QED  BY <2>7
<1>5. Cardinality(D) \in Found
  <2>1. Nat \subseteq Found
    <3> HIDE DEF Found
    <3> QED  BY <1>3, <1>4, NaturalInduction
  <2> HIDE DEF Found
  <2> QED  BY <1>1, <2>1
<1>6. Up(Cardinality(D)) = SUBSET D
  BY <1>1
<1>7. \E sum : sum = [T \in SUBSET D |-> NextSum(sum, f, T)]
  BY <1>5, <1>6
<1> DEFINE sum == PartialSums(f, D)
<1>8. sum = [T \in SUBSET D |-> NextSum(sum, f, T)]
  BY <1>7, Zenon DEF PartialSums
<1> HIDE DEF sum
<1>9. \A T \in SUBSET D : sum[T] = NextSum(sum, f, T)
  BY <1>8, Zenon
<1> QED  BY <1>9 DEF sum

(* The sum over T is a term and the sum over what remains.                 *)
TakesOneAway(sum, f, T) ==
  /\ Pick(T) \in T
  /\ Cardinality(T \ {Pick(T)}) = Cardinality(T) - 1
  /\ sum[T] = f[Pick(T)] + sum[T \ {Pick(T)}]

LEMMA SumStep ==
  ASSUME NEW f, NEW D, IsFiniteSet(D)
  PROVE  \A T \in SUBSET D : T # {} => TakesOneAway(PartialSums(f, D), f, T)
<1> SUFFICES ASSUME NEW T \in SUBSET D, T # {}
             PROVE  TakesOneAway(PartialSums(f, D), f, T)
  OBVIOUS
<1> DEFINE sum == PartialSums(f, D)
<1>1. sum[T] = NextSum(sum, f, T)
  BY PartialSumsExist
<1>2. Pick(T) \in T /\ Cardinality(T) \in Nat /\ Cardinality(T \ {Pick(T)}) = Cardinality(T) - 1
  BY FS_Subset, PickRemoves
<1> HIDE DEF sum
<1>3. sum[T] = f[Pick(T)] + sum[T \ {Pick(T)}]
  BY <1>1 DEF NextSum
<1>4. TakesOneAway(sum, f, T)
  BY <1>2, <1>3 DEF TakesOneAway
<1> QED  BY <1>4 DEF sum

LEMMA EmptySum ==
  ASSUME NEW f, NEW D, IsFiniteSet(D)
  PROVE  PartialSums(f, D)[{}] = 0
<1> DEFINE sum == PartialSums(f, D)
<1>1. sum[{}] = NextSum(sum, f, {})
  BY PartialSumsExist
<1> QED  BY <1>1 DEF NextSum

(* A bound on each of the terms, linear in those of another sum.           *)
TermsWithin(D, a, f, b, g, c) == \A x \in D : a * f[x] <= b * g[x] + c

SumsWithin(D, a, f, b, g, c) ==
  a * SumFunctionOnSet(f, D) <= b * SumFunctionOnSet(g, D) + c * Cardinality(D)

LEMMA SumsCompared ==
  ASSUME NEW D, IsFiniteSet(D), NEW f \in [D -> Int], NEW g \in [D -> Int],
         NEW a \in Int, NEW b \in Int, NEW c \in Int, TermsWithin(D, a, f, b, g, c)
  PROVE  SumFunctionOnSet(f, D) \in Int /\ SumsWithin(D, a, f, b, g, c)
<1> DEFINE F == PartialSums(f, D)
           G == PartialSums(g, D)
           Holds(T) == /\ F[T] \in Int /\ G[T] \in Int
                       /\ a * F[T] <= b * G[T] + c * Cardinality(T)
           Good == {n \in Nat : \A T \in SUBSET D : Cardinality(T) = n => Holds(T)}
<1>1. \A T \in SUBSET D : IsFiniteSet(T) /\ Cardinality(T) \in Nat
  BY FS_Subset, FS_CardinalityType
<1>2. \A T \in SUBSET D : T # {} => TakesOneAway(F, f, T) /\ TakesOneAway(G, g, T)
  BY SumStep
<1>3. F[{}] = 0 /\ G[{}] = 0
  BY EmptySum
<1> HIDE DEF F, G
<1>4. 0 \in Good
  <2>1. \A T \in SUBSET D : Cardinality(T) = 0 => T = {}
    BY <1>1, FS_EmptySet
  <2>2. Holds({})
    BY <1>3, FS_EmptySet
  <2> QED  BY <2>1, <2>2
<1>5. ASSUME NEW n \in Nat, n \in Good PROVE n + 1 \in Good
  <2> SUFFICES ASSUME NEW T \in SUBSET D, Cardinality(T) = n + 1 PROVE Holds(T)
    OBVIOUS
  <2>1. T # {}
    BY <1>1, FS_EmptySet
  <2> DEFINE x == Pick(T)
             U == T \ {x}
  <2>2. /\ x \in D /\ U \in SUBSET D /\ Cardinality(U) = n
        /\ F[T] = f[x] + F[U] /\ G[T] = g[x] + G[U]
    BY <1>2, <2>1 DEF TakesOneAway
  <2>3. Holds(U)
    BY <1>5, <2>2
  <2>4. a * f[x] <= b * g[x] + c /\ f[x] \in Int /\ g[x] \in Int
    BY <2>2 DEF TermsWithin
  <2> HIDE DEF x, U
  <2>5. /\ a * (f[x] + F[U]) = a * f[x] + a * F[U]
        /\ b * (g[x] + G[U]) = b * g[x] + b * G[U]
        /\ c * (n + 1) = c * n + c
    BY <2>3, <2>4
  <2>6. F[T] \in Int /\ G[T] \in Int
    BY <2>2, <2>3, <2>4
  <2> DEFINE p == a * f[x]  q == a * F[U]  r == b * g[x]  s == b * G[U]  t == c * n
  <2>7. p \in Int /\ q \in Int /\ r \in Int /\ s \in Int /\ t \in Int
    BY <2>3, <2>4
  <2>8. p <= r + c /\ q <= s + t
    BY <2>2, <2>3, <2>4
  <2>9. a * F[T] = p + q /\ b * G[T] = r + s /\ c * Cardinality(T) = t + c
    BY <2>2, <2>5
  <2> HIDE DEF p, q, r, s, t
  <2>10. a * F[T] <= b * G[T] + c * Cardinality(T)
    BY <2>7, <2>8, <2>9
  <2> QED  BY <2>6, <2>10
<1>6. Holds(D)
  <2>1. Nat \subseteq Good
    <3> HIDE DEF Good
    <3> QED  BY <1>4, <1>5, NaturalInduction
  <2> QED  BY <1>1, <2>1
<1> QED  BY <1>6, SumIsPartial DEF F, G, SumsWithin

LEMMA SumIsInt ==
  ASSUME NEW D, IsFiniteSet(D), NEW f \in [D -> Int]
  PROVE  SumFunctionOnSet(f, D) \in Int
<1>1. TermsWithin(D, 1, f, 1, f, 0)
  BY DEF TermsWithin
<1> QED  BY <1>1, SumsCompared

(* Where no term is negative, none exceeds the sum.                        *)
LEMMA TermBelowSum ==
  ASSUME NEW D, IsFiniteSet(D), NEW f \in [D -> Nat], NEW x \in D
  PROVE  f[x] <= SumFunctionOnSet(f, D) /\ SumFunctionOnSet(f, D) \in Nat
<1> DEFINE F == PartialSums(f, D)
           Holds(T) == F[T] \in Nat /\ (x \in T => f[x] <= F[T])
           Good == {n \in Nat : \A T \in SUBSET D : Cardinality(T) = n => Holds(T)}
<1>1. \A T \in SUBSET D : IsFiniteSet(T) /\ Cardinality(T) \in Nat
  BY FS_Subset, FS_CardinalityType
<1>2. \A T \in SUBSET D : T # {} => TakesOneAway(F, f, T)
  BY SumStep
<1>3. F[{}] = 0
  BY EmptySum
<1> HIDE DEF F
<1>4. 0 \in Good
  <2>1. \A T \in SUBSET D : Cardinality(T) = 0 => T = {}
    BY <1>1, FS_EmptySet
  <2> QED  BY <1>3, <2>1
<1>5. ASSUME NEW n \in Nat, n \in Good PROVE n + 1 \in Good
  <2> SUFFICES ASSUME NEW T \in SUBSET D, Cardinality(T) = n + 1 PROVE Holds(T)
    OBVIOUS
  <2>1. T # {}
    BY <1>1, FS_EmptySet
  <2> DEFINE y == Pick(T)
             U == T \ {y}
  <2>2. y \in T /\ U \in SUBSET D /\ Cardinality(U) = n /\ F[T] = f[y] + F[U]
    BY <1>2, <2>1 DEF TakesOneAway
  <2>3. x \in T => x = y \/ x \in U
    OBVIOUS
  <2>4. Holds(U)
    BY <1>5, <2>2
  <2> HIDE DEF y, U
  <2>5. f[x] \in Nat /\ f[y] \in Nat
    BY <2>2
  <2> QED  BY <2>2, <2>3, <2>4, <2>5
<1>6. Holds(D)
  <2>1. Nat \subseteq Good
    <3> HIDE DEF Good
    <3> QED  BY <1>4, <1>5, NaturalInduction
  <2> QED  BY <1>1, <2>1
<1> QED  BY <1>6, SumIsPartial DEF F

-----------------------------------------------------------------------------
(* Sorting.  No two positions have the same place, so the places are       *)
(* 0 .. n - 1, each taken once.                                            *)
Ahead(key, i) == {j \in DOMAIN key : key[j] > key[i] \/ (key[j] = key[i] /\ j < i)}

LEMMA ImageOfFinite ==
  ASSUME NEW D, IsFiniteSet(D), NEW f
  PROVE  IsFiniteSet({f[x] : x \in D}) /\ Cardinality({f[x] : x \in D}) <= Cardinality(D)
<1> DEFINE R == {f[x] : x \in D}
           g == [x \in D |-> f[x]]
<1>1. g \in Surjection(D, R)
  BY DEF Surjection
<1> HIDE DEF g, R
<1>2. IsFiniteSet(R) /\ Cardinality(R) <= Cardinality(D)
  BY <1>1, FS_Surjection
<1> QED  BY <1>2 DEF R

LEMMA PlacesDiffer ==
  ASSUME NEW D \in SUBSET Int, IsFiniteSet(D), NEW key \in [D -> Int]
  PROVE  /\ \A i \in D : Place(key, i) \in 0 .. Cardinality(D) - 1
         /\ \A i, j \in D : i # j /\ (key[i] > key[j] \/ (key[i] = key[j] /\ i < j))
                          => Place(key, i) < Place(key, j)
<1>1. \A i \in D : /\ Place(key, i) = Cardinality(Ahead(key, i))
                   /\ Ahead(key, i) \in SUBSET D /\ i \notin Ahead(key, i)
  BY DEF Place, Ahead
<1>2. \A i \in D : IsFiniteSet(Ahead(key, i)) /\ Cardinality(Ahead(key, i)) \in Nat
  BY <1>1, FS_Subset, FS_CardinalityType
<1>3. Cardinality(D) \in Nat
  BY FS_CardinalityType
<1>4. ASSUME NEW i \in D PROVE Place(key, i) \in 0 .. Cardinality(D) - 1
  <2> DEFINE A == Ahead(key, i)
  <2>1. A \in SUBSET D /\ A # D /\ Cardinality(A) \in Nat /\ Place(key, i) = Cardinality(A)
    BY <1>1, <1>2
  <2> HIDE DEF A
  <2>2. Cardinality(A) <= Cardinality(D) /\ Cardinality(A) # Cardinality(D)
    BY <2>1, FS_Subset
  <2> QED  BY <1>3, <2>1, <2>2
<1>5. ASSUME NEW i \in D, NEW j \in D, key[i] > key[j] \/ (key[i] = key[j] /\ i < j)
      PROVE  Place(key, i) < Place(key, j)
  <2> DEFINE A == Ahead(key, i)
             B == Ahead(key, j)
  <2>1. A \in SUBSET B
    <3> SUFFICES ASSUME NEW h \in A PROVE h \in B
      OBVIOUS
    <3>1. h \in D /\ (key[h] > key[i] \/ (key[h] = key[i] /\ h < i))
      BY DEF Ahead
    <3>2. key[h] \in Int /\ key[i] \in Int /\ key[j] \in Int /\ h \in Int /\ i \in Int /\ j \in Int
      BY <3>1
    <3>3. key[h] > key[j] \/ (key[h] = key[j] /\ h < j)
      BY <1>5, <3>1, <3>2
    <3> QED  BY <3>1, <3>3 DEF Ahead
  <2>2. i \in B /\ i \notin A
    BY <1>5 DEF Ahead
  <2>3. /\ IsFiniteSet(B) /\ Cardinality(A) \in Nat /\ Cardinality(B) \in Nat
        /\ Place(key, i) = Cardinality(A) /\ Place(key, j) = Cardinality(B)
    BY <1>1, <1>2
  <2> HIDE DEF A, B
  <2>4. Cardinality(A) <= Cardinality(B) /\ Cardinality(A) # Cardinality(B)
    BY <2>1, <2>2, <2>3, FS_Subset
  <2> QED  BY <2>3, <2>4
<1> QED  BY <1>4, <1>5

(* A sort lists each position once, and never a higher key after a lower.  *)
LEMMA DescendingOrders ==
  ASSUME NEW D \in SUBSET Int, IsFiniteSet(D), NEW key \in [D -> Int]
  PROVE  /\ Cardinality(D) \in Nat
         /\ Descending(key) \in [1 .. Cardinality(D) -> D]
         /\ \A i \in D : \E r \in 1 .. Cardinality(D) : Descending(key)[r] = i
         /\ \A r, s \in 1 .. Cardinality(D) : r # s => Descending(key)[r] # Descending(key)[s]
         /\ \A r, s \in 1 .. Cardinality(D) : r < s =>
               key[Descending(key)[r]] >= key[Descending(key)[s]]
<1> DEFINE n     == Cardinality(D)
           place == [i \in D |-> Place(key, i)]
           order == [r \in 1 .. n |-> CHOOSE i \in D : place[i] = r - 1]
<1>1. Descending(key) = order
  BY DEF Descending
<1>2. n \in Nat
  BY FS_CardinalityType
<1>3. place \in [D -> 0 .. n - 1]
  BY PlacesDiffer
<1>4. \A i, j \in D : (key[i] > key[j] \/ (key[i] = key[j] /\ i < j)) => place[i] < place[j]
  BY PlacesDiffer
<1> HIDE DEF place
<1>5. \A i, j \in D : i # j => place[i] # place[j]
  BY <1>2, <1>3, <1>4
<1>6. IsFiniteSet(0 .. n - 1) /\ Cardinality(0 .. n - 1) = n
  <2>1. n - 1 \in Int
    BY <1>2
  <2>2. IsFiniteSet(0 .. n - 1) /\ Cardinality(0 .. n - 1) = IF 0 > n - 1 THEN 0 ELSE (n - 1) - 0 + 1
    BY <2>1, FS_Interval
  <2> QED  BY <1>2, <2>2
<1>7. place \in Injection(D, 0 .. n - 1)
  BY <1>3, <1>5 DEF Injection, IsInjective
<1>8. place \in Surjection(D, 0 .. n - 1)
  BY <1>6, <1>7, FS_Injection
<1>9. \A m \in 0 .. n - 1 : \E i \in D : place[i] = m
  BY <1>8 DEF Surjection
<1> HIDE DEF n
<1>10. \A r \in 1 .. n : order[r] \in D /\ place[order[r]] = r - 1
  BY <1>2, <1>9
<1>11. order \in [1 .. n -> D]
  BY <1>10
<1>12. ASSUME NEW i \in D PROVE \E r \in 1 .. n : order[r] = i
  <2>1. place[i] + 1 \in 1 .. n
    BY <1>2, <1>3
  <2>2. order[place[i] + 1] \in D /\ place[order[place[i] + 1]] = place[i]
    BY <1>2, <1>3, <1>10, <2>1
  <2>3. order[place[i] + 1] = i
    BY <1>5, <2>2
  <2> QED  BY <2>1, <2>3
<1> HIDE DEF order
<1>13. \A r, s \in 1 .. n : r # s => order[r] # order[s]
  BY <1>10
<1>14. ASSUME NEW r \in 1 .. n, NEW s \in 1 .. n, r < s
       PROVE  key[order[r]] >= key[order[s]]
  <2>1. key[order[r]] \in Int /\ key[order[s]] \in Int
    BY <1>10
  <2>2. CASE key[order[s]] > key[order[r]]
    <3>1. place[order[s]] < place[order[r]]
      BY <1>4, <1>10, <2>2
    <3> QED  BY <1>10, <1>14, <3>1
  <2> QED  BY <2>1, <2>2
<1>15. /\ n \in Nat /\ order \in [1 .. n -> D]
       /\ \A i \in D : \E r \in 1 .. n : order[r] = i
       /\ \A r, s \in 1 .. n : r # s => order[r] # order[s]
       /\ \A r, s \in 1 .. n : r < s => key[order[r]] >= key[order[s]]
  BY <1>2, <1>11, <1>12, <1>13, <1>14
<1> QED  BY <1>1, <1>15 DEF n

=============================================================================
