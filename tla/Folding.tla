------------------------------- MODULE Folding -------------------------------
(***************************************************************************)
(* What holds at every step of a fold over a sequence holds of its result. *)
(* Step and Good are given by the module that instantiates this one.       *)
(***************************************************************************)
EXTENDS FiniteInduction, SequencesExt

CONSTANTS Step(_, _), Good(_)

(* FoldLeft's own recursion: from a set of positions the last is taken.    *)
Next(after, seq, base, T) ==
  IF T = {} THEN base ELSE Step(after[T \ {Max(T)}], seq[Max(T)])

After(seq, base) ==
  CHOOSE after : after = [T \in SUBSET DOMAIN seq |-> Next(after, seq, base, T)]

LEMMA FoldIsAfter ==
  ASSUME NEW seq, NEW base
  PROVE  FoldLeft(Step, base, seq) = After(seq, base)[DOMAIN seq]
  BY DEF FoldLeft, MapThenFoldSet, After, Next

LEMMA LastPosition ==
  ASSUME NEW n \in Nat, NEW T \in SUBSET (1 .. n), T # {}
  PROVE  /\ IsFiniteSet(T) /\ Cardinality(T) \in Nat
         /\ Max(T) \in T
         /\ Cardinality(T \ {Max(T)}) = Cardinality(T) - 1
         /\ IsFiniteSet(T \ {Max(T)})
<1>1. IsFiniteSet(T) /\ Cardinality(T) \in Nat
  <2>1. IsFiniteSet(1 .. n)
    BY FS_Interval
  <2> QED  BY <2>1, FS_Subset, FS_CardinalityType
<1>2. \E x \in T : \A y \in T : x >= y
  <2> DEFINE f == [y \in T |-> -y]
  <2>1. f \in [T -> Int]
    OBVIOUS
  <2> HIDE DEF f
  <2>2. PICK x \in T : \A y \in T : f[x] <= f[y]
    BY <1>1, <2>1, LeastValue
  <2>3. \A y \in T : x >= y
    BY <2>2 DEF f
  <2> QED  BY <2>3
<1>3. Max(T) \in T
  BY <1>2 DEF Max
<1> QED  BY <1>1, <1>3, FS_RemoveElement

LEMMA AfterExists ==
  ASSUME NEW n \in Nat, NEW seq, DOMAIN seq = 1 .. n, NEW base
  PROVE  \A T \in SUBSET (1 .. n) : After(seq, base)[T] = Next(After(seq, base), seq, base, T)
<1> DEFINE D == 1 .. n
           Up(k) == {T \in SUBSET D : Cardinality(T) <= k}
           Found == {k \in Nat : \E after : after = [T \in Up(k) |-> Next(after, seq, base, T)]}
<1>1. /\ IsFiniteSet(D) /\ Cardinality(D) \in Nat
      /\ \A T \in SUBSET D : IsFiniteSet(T) /\ Cardinality(T) \in Nat
                             /\ Cardinality(T) <= Cardinality(D)
  <2>1. IsFiniteSet(D)
    BY FS_Interval
  <2> QED  BY <2>1, FS_Subset, FS_CardinalityType
<1>2. ASSUME NEW k \in Nat, NEW T \in Up(k + 1), T # {}
      PROVE  T \ {Max(T)} \in Up(k)
  <2>1. T \in SUBSET (1 .. n) /\ Cardinality(T) <= k + 1
    BY <1>2
  <2> DEFINE U == T \ {Max(T)}
  <2>2. Cardinality(T) \in Nat /\ Cardinality(U) = Cardinality(T) - 1 /\ U \in SUBSET D
    BY <1>2, <2>1, LastPosition
  <2> HIDE DEF U
  <2>3. U \in Up(k)
    BY <2>1, <2>2
  <2> QED  BY <2>3 DEF U
<1>3. 0 \in Found
  <2> DEFINE after == [T \in Up(0) |-> base]
  <2>1. \A T \in Up(0) : T = {}
    BY <1>1, FS_EmptySet
  <2>2. after = [T \in Up(0) |-> Next(after, seq, base, T)]
    BY <2>1 DEF Next
  <2> QED  BY <2>2
<1>4. ASSUME NEW k \in Nat, k \in Found PROVE k + 1 \in Found
  <2>1. PICK after : after = [T \in Up(k) |-> Next(after, seq, base, T)]
    BY <1>4
  <2> DEFINE next == [T \in Up(k + 1) |-> Next(after, seq, base, T)]
  <2>2. Up(k) \subseteq Up(k + 1)
    BY <1>1
  <2>3. \A T \in Up(k + 1) : T # {} => T \ {Max(T)} \in Up(k)
    BY <1>2
  <2> HIDE DEF Up
  <2>4. \A T \in Up(k) : next[T] = after[T]
    BY <2>1, <2>2
  <2>5. ASSUME NEW T \in Up(k + 1) PROVE Next(next, seq, base, T) = Next(after, seq, base, T)
    <3>1. CASE T = {}
      BY <3>1 DEF Next
    <3>2. CASE T # {}
      <4> DEFINE m == Max(T)
      <4>1. next[T \ {m}] = after[T \ {m}]
        BY <2>3, <2>4, <3>2
      <4>2. /\ Next(next, seq, base, T) = Step(next[T \ {m}], seq[m])
            /\ Next(after, seq, base, T) = Step(after[T \ {m}], seq[m])
        BY <3>2 DEF Next
      <4> QED  BY <4>1, <4>2, Zenon
    <3> QED  BY <3>1, <3>2
  <2>6. next = [T \in Up(k + 1) |-> Next(next, seq, base, T)]
    BY <2>5, Zenon
  <2> HIDE DEF next
  <2>7. \E later : later = [T \in Up(k + 1) |-> Next(later, seq, base, T)]
    BY <2>6, Zenon
  <2> QED  BY <2>7
<1>5. Cardinality(D) \in Found
  <2>1. Nat \subseteq Found
    <3> HIDE DEF Found
    <3> QED  BY <1>3, <1>4, NaturalInduction
  <2> HIDE DEF Found
  <2> QED  BY <1>1, <2>1
<1>6. Up(Cardinality(D)) = SUBSET DOMAIN seq
  BY <1>1
<1>7. \E after : after = [T \in SUBSET DOMAIN seq |-> Next(after, seq, base, T)]
  BY <1>5, <1>6
<1> DEFINE after == After(seq, base)
<1>8. after = [T \in SUBSET DOMAIN seq |-> Next(after, seq, base, T)]
  BY <1>7, Zenon DEF After
<1> HIDE DEF after
<1>9. \A T \in SUBSET DOMAIN seq : after[T] = Next(after, seq, base, T)
  BY <1>8, Zenon
<1> QED  BY <1>9 DEF after

LEMMA FoldKeeps ==
  ASSUME NEW n \in Nat, NEW seq, DOMAIN seq = 1 .. n, NEW base, Good(base),
         \A w : \A i \in 1 .. n : Good(w) => Good(Step(w, seq[i]))
  PROVE  Good(FoldLeft(Step, base, seq))
<1> DEFINE after == After(seq, base)
           Kept == {k \in Nat : \A T \in SUBSET (1 .. n) : Cardinality(T) = k => Good(after[T])}
<1>1. \A T \in SUBSET (1 .. n) : after[T] = Next(after, seq, base, T)
  BY AfterExists
<1> HIDE DEF after
<1>2. 0 \in Kept
  <2>1. \A T \in SUBSET (1 .. n) : Cardinality(T) = 0 => T = {}
    BY LastPosition, FS_EmptySet, FS_CardinalityType
  <2>2. Good(after[{}])
    BY <1>1 DEF Next
  <2> QED  BY <2>1, <2>2
<1>3. ASSUME NEW k \in Nat, k \in Kept PROVE k + 1 \in Kept
  <2> SUFFICES ASSUME NEW T \in SUBSET (1 .. n), Cardinality(T) = k + 1 PROVE Good(after[T])
    OBVIOUS
  <2>1. T # {}
    BY FS_EmptySet
  <2>2. /\ Max(T) \in 1 .. n
        /\ T \ {Max(T)} \in SUBSET (1 .. n)
        /\ Cardinality(T \ {Max(T)}) = k
    <3> DEFINE m == Max(T)
    <3>1. m \in T /\ Cardinality(T \ {m}) = Cardinality(T) - 1
      BY <2>1, LastPosition
    <3> HIDE DEF m
    <3>2. m \in 1 .. n /\ T \ {m} \in SUBSET (1 .. n) /\ Cardinality(T \ {m}) = k
      BY <3>1
    <3> QED  BY <3>2 DEF m
  <2>3. Good(after[T \ {Max(T)}])
    BY <1>3, <2>2
  <2>4. after[T] = Step(after[T \ {Max(T)}], seq[Max(T)])
    BY <1>1, <2>1 DEF Next
  <2> QED  BY <2>2, <2>3, <2>4
<1>4. Nat \subseteq Kept
  <2> HIDE DEF Kept
  <2> QED  BY <1>2, <1>3, NaturalInduction
<1>5. Cardinality(1 .. n) \in Nat
  BY FS_Interval, FS_CardinalityType
<1>6. Good(after[1 .. n])
  BY <1>4, <1>5
<1> QED  BY <1>6, FoldIsAfter DEF after

(* A fold is what its steps make, one after the other: Made(seq, base)[k]  *)
(* is what the first k of them have made.                                  *)
Made(seq, base) == [k \in {0} \union DOMAIN seq |-> After(seq, base)[1 .. k]]

LEMMA FoldSteps ==
  ASSUME NEW n \in Nat, NEW seq, DOMAIN seq = 1 .. n, NEW base
  PROVE  /\ After(seq, base)[DOMAIN seq] = Made(seq, base)[n]
         /\ Made(seq, base)[0] = base
         /\ \A k \in 1 .. n : Made(seq, base)[k] = Step(Made(seq, base)[k - 1], seq[k])
<1> DEFINE after == After(seq, base)
           made == Made(seq, base)
<1>1. \A T \in SUBSET (1 .. n) : after[T] = Next(after, seq, base, T)
  BY AfterExists
<1> HIDE DEF after
<1>3. \A k \in 0 .. n : made[k] = after[1 .. k]
  BY DEF after, Made
<1> HIDE DEF made
<1>4. made[0] = base
  <2>1. 1 .. 0 = {} /\ made[0] = after[1 .. 0]
    BY <1>3
  <2> QED  BY <1>1, <2>1 DEF Next
<1>5. ASSUME NEW k \in 1 .. n PROVE made[k] = Step(made[k - 1], seq[k])
  <2> DEFINE T == 1 .. k
  <2>1. k \in T /\ T \in SUBSET (1 .. n) /\ T # {} /\ T \ {k} = 1 .. k - 1
    OBVIOUS
  <2>2. \A x \in T : x <= k
    OBVIOUS
  <2>3. Max(T) = k
    <3> DEFINE m == Max(T)
    <3>1. \E x \in T : \A y \in T : x >= y
      BY <2>1, <2>2
    <3>2. m \in T /\ \A y \in T : m >= y
      BY <3>1 DEF Max
    <3> HIDE DEF m, T
    <3>3. m >= k /\ m <= k
      BY <2>1, <2>2, <3>2
    <3>4. m \in Int
      BY <2>1, <3>2
    <3>5. m = k
      BY <3>3, <3>4
    <3> QED  BY <3>5 DEF m
  <2> HIDE DEF T
  <2>4. after[T] = Step(after[T \ {k}], seq[k])
    BY <1>1, <2>1, <2>3 DEF Next
  <2>5. made[k] = after[T] /\ made[k - 1] = after[1 .. k - 1]
    BY <1>3 DEF T
  <2> QED  BY <2>1, <2>4, <2>5
<1>6. made[n] = after[1 .. n]
  BY <1>3
<1> QED  BY <1>4, <1>5, <1>6 DEF made, after

LEMMA FoldOfNone ==
  ASSUME NEW seq, DOMAIN seq = {}, NEW base
  PROVE  FoldLeft(Step, base, seq) = base
<1> DEFINE n == 0
           after == After(seq, base)
<1>1. n \in Nat /\ DOMAIN seq = 1 .. n
  OBVIOUS
<1> HIDE DEF n
<1>2. \A T \in SUBSET (1 .. n) : after[T] = Next(after, seq, base, T)
  BY <1>1, AfterExists
<1> HIDE DEF after
<1>3. after[{}] = base
  BY <1>2 DEF Next
<1> QED  BY <1>3, FoldIsAfter DEF after

(* Folds over short sequences, written out.                                *)
LEMMA ShortFolds ==
  ASSUME NEW n \in Nat, NEW seq, DOMAIN seq = 1 .. n, NEW base
  PROVE  /\ n = 1 => FoldLeft(Step, base, seq) = Step(base, seq[1])
         /\ n = 2 => FoldLeft(Step, base, seq) = Step(Step(base, seq[1]), seq[2])
         /\ n = 3 => FoldLeft(Step, base, seq) = Step(Step(Step(base, seq[1]), seq[2]), seq[3])
         /\ n = 4 => FoldLeft(Step, base, seq) = Step(Step(Step(Step(base, seq[1]), seq[2]), seq[3]), seq[4])
         /\ n = 5 => FoldLeft(Step, base, seq) =
                      Step(Step(Step(Step(Step(base, seq[1]), seq[2]), seq[3]), seq[4]), seq[5])
<1> DEFINE made == Made(seq, base)
<1>1. /\ After(seq, base)[DOMAIN seq] = made[n]
      /\ made[0] = base
      /\ \A k \in 1 .. n : made[k] = Step(made[k - 1], seq[k])
  BY FoldSteps
<1> HIDE DEF made
<1>2. FoldLeft(Step, base, seq) = made[n]
  BY <1>1, FoldIsAfter
<1>3. /\ n >= 1 => made[1] = Step(made[0], seq[1])
      /\ n >= 2 => made[2] = Step(made[1], seq[2])
      /\ n >= 3 => made[3] = Step(made[2], seq[3])
      /\ n >= 4 => made[4] = Step(made[3], seq[4])
      /\ n >= 5 => made[5] = Step(made[4], seq[5])
  BY <1>1
<1> QED  BY <1>1, <1>2, <1>3
=============================================================================
