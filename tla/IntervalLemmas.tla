--------------------------- MODULE IntervalLemmas ---------------------------
(***************************************************************************)
(* Induction over an interval of positions and over the subsets of a       *)
(* finite set, stated for sets so that it can be cited by the proofs about *)
(* lists in the heap and about what a heap adds up to.                     *)
(***************************************************************************)
EXTENDS Integers, FiniteSetsExt, FiniteSetTheorems, TLAPS

(* A nonempty set of positions has a least element: among the prefixes     *)
(* 1 .. k of its members there is one that strictly contains no other.     *)
LEMMA LeastPosition ==
    ASSUME NEW n \in Nat, NEW U \in SUBSET (1 .. n), U # {}
    PROVE  \E m \in U : \A k \in U : m <= k
<1> DEFINE S == 1 .. n
           Prefixes == {1 .. k : k \in U}
<1>1. IsFiniteSet(S)
  BY FS_Interval
<1>2. IsWellFoundedOn(StrictSubsetOrdering(S), SUBSET S)
  <2>1. FiniteSubsetsOf(S) = SUBSET S
    BY <1>1, FS_FiniteSubsetsOfFinite
  <2>2. IsWellFoundedOn(StrictSubsetOrdering(S), FiniteSubsetsOf(S))
    BY FS_StrictSubsetOrderingWellFounded
  <2> QED
    BY <2>1, <2>2
<1>3. Prefixes \in SUBSET SUBSET S /\ Prefixes # {}
  <2>1. \A k \in U : 1 .. k \subseteq S
    OBVIOUS
  <2>2. \A x \in Prefixes : x \in SUBSET S
    BY <2>1
  <2>3. PICK k \in U : TRUE
    OBVIOUS
  <2>4. 1 .. k \in Prefixes
    OBVIOUS
  <2> HIDE DEF Prefixes, S
  <2> QED
    BY <2>2, <2>4
<1>4. PICK x \in Prefixes : \A y \in Prefixes : ~(<<y, x>> \in StrictSubsetOrdering(S))
  <2> HIDE DEF Prefixes, S
  <2> QED
    BY <1>2, <1>3, WFMin
<1>5. PICK m \in U : x = 1 .. m
  BY <1>4
<1>6. ASSUME NEW k \in U, k < m
      PROVE  FALSE
  <2>1. 1 .. k \in Prefixes
    OBVIOUS
  <2>2. 1 .. k \subseteq x /\ 1 .. k # x
    <3>1. 1 .. k \subseteq 1 .. m
      BY <1>6
    <3>2. m \in 1 .. m /\ m \notin 1 .. k
      BY <1>6
    <3> QED
      BY <1>5, <3>1, <3>2
  <2>3. 1 .. k \in SUBSET S /\ x \in SUBSET S
    BY <1>3, <1>4, <2>1
  <2>4. <<1 .. k, x>> \in StrictSubsetOrdering(S)
    BY <2>2, <2>3 DEF StrictSubsetOrdering
  <2> QED
    BY <1>4, <2>1, <2>4
<1> QED
  BY <1>6

(* A set of positions that holds the first one and, with each position,    *)
(* the next one, is the whole interval.                                    *)
LEMMA IntervalInduction ==
    ASSUME NEW n \in Nat, NEW T \in SUBSET (1 .. n),
           n > 0 => 1 \in T,
           \A i \in 1 .. n - 1 : i \in T => i + 1 \in T
    PROVE  T = 1 .. n
<1> DEFINE U == (1 .. n) \ T
<1>1. SUFFICES ASSUME U # {} PROVE FALSE
  OBVIOUS
<1>2. PICK m \in U : \A k \in U : m <= k
  BY <1>1, LeastPosition
<1>3. m \in 2 .. n
  OBVIOUS
<1>4. m - 1 \in 1 .. n - 1 /\ m - 1 \notin U
  BY <1>2, <1>3
<1>5. (m - 1) + 1 \in T
  BY <1>4
<1> QED
  BY <1>3, <1>5

(* The same from zero, with a position reached from the one before.        *)
LEMMA IntervalFromZero ==
    ASSUME NEW n \in Nat, NEW T \in SUBSET (0 .. n),
           0 \in T, \A i \in 1 .. n : i - 1 \in T => i \in T
    PROVE  T = 0 .. n
<1> DEFINE P == {i \in 1 .. n : i \in T}
<1>1. n > 0 => 1 \in P
  <2>1. n > 0 => 1 \in 1 .. n /\ 1 - 1 \in T
    OBVIOUS
  <2> QED
    BY <2>1
<1>2. ASSUME NEW i \in 1 .. n - 1, i \in P
      PROVE  i + 1 \in P
  <2>1. i + 1 \in 1 .. n /\ (i + 1) - 1 = i
    OBVIOUS
  <2> QED
    BY <1>2, <2>1
<1>3. P = 1 .. n
  <2>1. P \in SUBSET (1 .. n)
    OBVIOUS
  <2>2. \A i \in 1 .. n - 1 : i \in P => i + 1 \in P
    BY <1>2
  <2> HIDE DEF P
  <2> QED
    BY ONLY n \in Nat, <1>1, <2>1, <2>2, IntervalInduction
<1>4. \A i \in 1 .. n : i \in T
  BY <1>3
<1>5. 0 .. n = {0} \cup 1 .. n
  OBVIOUS
<1> QED
  BY <1>4, <1>5

(* A bounded set of numbers has a largest and a smallest member.           *)
LEMMA LargestPosition ==
    ASSUME NEW n \in Nat, NEW S \in SUBSET (0 .. n), S # {}
    PROVE  /\ Max(S) \in S /\ \A x \in S : x <= Max(S)
           /\ Min(S) \in S /\ \A x \in S : Min(S) <= x
<1> DEFINE Up   == {x + 1 : x \in S}
           Down == {n + 1 - x : x \in S}
<1>1. Up \in SUBSET (1 .. n + 1) /\ Up # {} /\ Down \in SUBSET (1 .. n + 1) /\ Down # {}
  <2>1. PICK x \in S : TRUE
    OBVIOUS
  <2>2. x + 1 \in Up /\ n + 1 - x \in Down
    OBVIOUS
  <2>3. Up \in SUBSET (1 .. n + 1) /\ Down \in SUBSET (1 .. n + 1)
    OBVIOUS
  <2> HIDE DEF Up, Down
  <2> QED
    BY <2>2, <2>3
<1>0. n + 1 \in Nat
  OBVIOUS
<1>2. PICK m \in Up : \A k \in Up : m <= k
  <2> HIDE DEF Up
  <2> QED
    BY <1>0, <1>1, LeastPosition
<1>3. PICK p \in Down : \A k \in Down : p <= k
  <2> HIDE DEF Down
  <2> QED
    BY <1>0, <1>1, LeastPosition
<1>4. m - 1 \in S /\ \A x \in S : m - 1 <= x
  <2>1. PICK y \in S : m = y + 1
    BY <1>2
  <2>2. \A x \in S : x + 1 \in Up
    OBVIOUS
  <2>3. \A x \in S : m <= x + 1
    <3> HIDE DEF Up
    <3> QED
      BY <1>2, <2>2
  <2> HIDE DEF Up
  <2> QED
    BY <2>1, <2>3
<1>5. n + 1 - p \in S /\ \A x \in S : x <= n + 1 - p
  <2>1. PICK y \in S : p = n + 1 - y
    BY <1>3
  <2>2. \A x \in S : n + 1 - x \in Down
    OBVIOUS
  <2>3. \A x \in S : p <= n + 1 - x
    <3> HIDE DEF Down
    <3> QED
      BY <1>3, <2>2
  <2> HIDE DEF Down
  <2> QED
    BY <2>1, <2>3
<1> HIDE DEF Up, Down
<1>6. Max(S) \in S /\ \A x \in S : Max(S) >= x
  BY <1>5 DEF Max
<1>7. Min(S) \in S /\ \A x \in S : Min(S) <= x
  BY <1>4 DEF Min
<1>8. S \subseteq Nat
  OBVIOUS
<1> QED
  BY <1>6, <1>7, <1>8

(* Induction from the end of an interval.                                  *)
LEMMA IntervalDownwards ==
    ASSUME NEW n \in Nat, NEW T \in SUBSET (1 .. n),
           \A i \in 1 .. n : (\A k \in i + 1 .. n : k \in T) => i \in T
    PROVE  T = 1 .. n
<1> DEFINE U == (1 .. n) \ T
<1>1. SUFFICES ASSUME U # {} PROVE FALSE
  OBVIOUS
<1>2. U \in SUBSET (0 .. n)
  OBVIOUS
<1>3. Max(U) \in U /\ \A k \in U : k <= Max(U)
  <2> HIDE DEF U
  <2> QED
    BY <1>1, <1>2, LargestPosition
<1>4. PICK m \in U : \A k \in U : k <= m
  BY <1>3
<1>5. \A k \in m + 1 .. n : k \in T
  BY <1>4
<1> QED
  BY <1>4, <1>5

(* A subset of a finite set, and what is left of it without a member.      *)
LEMMA RestOfSet ==
    ASSUME NEW S, IsFiniteSet(S), NEW s \in SUBSET S
    PROVE  /\ IsFiniteSet(s) /\ Cardinality(s) \in Nat /\ Cardinality(s) <= Cardinality(S)
           /\ Cardinality(s) = 0 <=> s = {}
           /\ \A x \in s : /\ s \ {x} \in SUBSET S
                           /\ Cardinality(s \ {x}) = Cardinality(s) - 1
<1>1. IsFiniteSet(s) /\ Cardinality(s) <= Cardinality(S)
  BY FS_Subset
<1>2. Cardinality(s) \in Nat
  BY <1>1, FS_CardinalityType
<1>3. Cardinality(s) = 0 <=> s = {}
  BY <1>1, FS_EmptySet
<1>4. \A x \in s : Cardinality(s \ {x}) = Cardinality(s) - 1
  BY <1>1, FS_RemoveElement
<1> QED
  BY <1>1, <1>2, <1>3, <1>4

(* A family that holds a subset of a finite set whenever it holds what is  *)
(* left of it without any one member, has all subsets.                     *)
LEMMA SubsetInduction ==
    ASSUME NEW S, IsFiniteSet(S), NEW P \in SUBSET SUBSET S,
           \A T \in SUBSET S : (\A x \in T : T \ {x} \in P) => T \in P
    PROVE  P = SUBSET S
<1> DEFINE Bad == (SUBSET S) \ P
<1>1. SUFFICES ASSUME Bad # {} PROVE FALSE
  OBVIOUS
<1>2. IsWellFoundedOn(StrictSubsetOrdering(S), SUBSET S)
  <2>1. FiniteSubsetsOf(S) = SUBSET S
    BY FS_FiniteSubsetsOfFinite
  <2>2. IsWellFoundedOn(StrictSubsetOrdering(S), FiniteSubsetsOf(S))
    BY FS_StrictSubsetOrderingWellFounded
  <2> QED
    BY <2>1, <2>2
<1>3. Bad \in SUBSET SUBSET S
  OBVIOUS
<1>4. PICK T \in Bad : \A U \in Bad : ~(<<U, T>> \in StrictSubsetOrdering(S))
  <2> HIDE DEF Bad
  <2> QED
    BY <1>1, <1>2, <1>3, WFMin
<1>5. ASSUME NEW x \in T
      PROVE  T \ {x} \in P
  <2>1. T \ {x} \in SUBSET S /\ T \ {x} \subseteq T /\ T \ {x} # T /\ T \in SUBSET S
    BY <1>3
  <2>2. <<T \ {x}, T>> \in StrictSubsetOrdering(S)
    BY <2>1 DEF StrictSubsetOrdering
  <2> QED
    BY <1>4, <2>1, <2>2
<1>6. T \in SUBSET S /\ T \notin P
  BY <1>4
<1> QED
  BY <1>5, <1>6
=============================================================================
