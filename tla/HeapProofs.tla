----------------------------- MODULE HeapProofs -----------------------------
(***************************************************************************)
(* Proofs about Heap, for any sizes of the heap, of buckets and of         *)
(* allocations, any memory of the host and any handles: a handle leads to  *)
(* the object that was put in it, the heap can be parsed, its offsets stay *)
(* below the limit, and the VM runs out of memory only when it is full.    *)
(***************************************************************************)
EXTENDS Heap, IntervalLemmas, SequenceTheorems

-----------------------------------------------------------------------------
(* The constants.                                                          *)

LEMMA Constants ==
    /\ MaxHeapSize \in Nat \ {0} /\ BucketSize \in Nat \ {0} /\ EmptyEstimate \in Nat \ {0}
    /\ BucketHeader \in Nat \ {0} /\ MemorySize \in Nat \ {0}
    /\ Sizes \in SUBSET (Nat \ {0})
    /\ Undefined \notin Nat
BY HeapAssumption

(* The size of an allocation with its header is even, and at least 4.      *)
LEMMA WordsAreEven ==
    ASSUME NEW size \in Nat \ {0}
    PROVE  /\ Words(size) \in Nat /\ Words(size) >= 4 /\ Words(size) % 2 = 0
           /\ Words(size) = 2 + 2 * ((size + 1) \div 2)
<1> DEFINE q == (size + 3) \div 2
<1>1. q \in Nat /\ q >= 2
  OBVIOUS
<1>2. (size + 1) \div 2 = q - 1
  OBVIOUS
<1>3. Words(size) = q * 2
  BY DEF Words
<1>4. \A n \in Nat : (n * 2) % 2 = 0
  OBVIOUS
<1> HIDE DEF q
<1>5. (q * 2) % 2 = 0
  BY <1>1, <1>4
<1> QED
  BY <1>1, <1>2, <1>3, <1>5

LEMMA MaxOfOne ==
    ASSUME NEW S, NEW x \in Int, S = {x}
    PROVE  Max(S) = x
BY DEF Max

LEMMA MaxOfTwo ==
    ASSUME NEW x \in Nat, NEW y \in Nat
    PROVE  Max({x, y}) = IF x >= y THEN x ELSE y
<1> DEFINE S == {x, y}
           n == IF x >= y THEN x ELSE y
<1>1. S \in SUBSET (0 .. n) /\ S # {} /\ n \in Nat
  OBVIOUS
<1>2. Max(S) \in S /\ \A z \in S : z <= Max(S)
  <2> HIDE DEF S, n
  <2> QED
    BY <1>1, LargestPosition
<1> QED
  BY <1>2

-----------------------------------------------------------------------------
(* The size of a set of allocations.                                       *)

SumStep(f, header, s) ==
    IF s = {} THEN 0
    ELSE LET x == CHOOSE x \in s : TRUE IN Words(header[x]) + f[s \ {x}]

\* f is the sum for every subset of S.
IsSum(f, header, S) == f = [s \in SUBSET S |-> SumStep(f, header, s)]

\* f is the sum for the subsets with up to n members.
IsSumUpTo(f, header, S, n) ==
    \A s \in SUBSET S : Cardinality(s) <= n => f[s] = SumStep(f, header, s)

LEMMA SumExists ==
    ASSUME NEW header, NEW S, IsFiniteSet(S)
    PROVE  \E f : IsSum(f, header, S)
<1>1. Cardinality(S) \in Nat
  BY FS_CardinalityType
<1> DEFINE N == Cardinality(S) + 1
           T == {n \in 1 .. N : \E f : IsSumUpTo(f, header, S, n - 1)}
<1>2. 1 \in T
  <2> DEFINE f == [s \in SUBSET S |-> 0]
  <2>1. \A s \in SUBSET S : Cardinality(s) <= 0 => s = {}
    BY RestOfSet
  <2>2. IsSumUpTo(f, header, S, 0)
    BY <2>1 DEF IsSumUpTo, SumStep
  <2> HIDE DEF f
  <2>3. 1 \in 1 .. N /\ 1 - 1 = 0
    BY <1>1
  <2>4. \E g : IsSumUpTo(g, header, S, 1 - 1)
    BY <2>2, <2>3
  <2> QED
    BY <2>3, <2>4
<1>3. ASSUME NEW n \in 1 .. N - 1, n \in T
      PROVE  n + 1 \in T
  <2>1. PICK f : IsSumUpTo(f, header, S, n - 1)
    BY <1>3
  <2> DEFINE g == [s \in SUBSET S |->
                     IF Cardinality(s) <= n - 1 THEN f[s] ELSE SumStep(f, header, s)]
  <2>2. ASSUME NEW s \in SUBSET S, Cardinality(s) <= n
        PROVE  g[s] = SumStep(g, header, s)
    <3>1. g[s] = SumStep(f, header, s)
      BY <2>1 DEF IsSumUpTo
    <3>2. CASE s = {}
      BY <3>1, <3>2 DEF SumStep
    <3>3. CASE s # {}
      <4> DEFINE x == CHOOSE x \in s : TRUE
      <4>1. x \in s
        BY <3>3
      <4>2. s \ {x} \in SUBSET S /\ Cardinality(s \ {x}) = Cardinality(s) - 1
             /\ Cardinality(s) \in Nat
        <5> HIDE DEF x
        <5> QED
          BY <4>1, RestOfSet
      <4>3. g[s \ {x}] = f[s \ {x}]
        <5>1. Cardinality(s \ {x}) <= n - 1
          BY <4>2, <2>2
        <5> HIDE DEF x
        <5> QED
          BY <4>2, <5>1
      <4> HIDE DEF g
      <4> QED
        BY <3>1, <3>3, <4>3 DEF SumStep
    <3> QED
      BY <3>2, <3>3
  <2>3. IsSumUpTo(g, header, S, (n + 1) - 1)
    <3>1. (n + 1) - 1 = n
      OBVIOUS
    <3> HIDE DEF g
    <3> QED
      BY <2>2, <3>1 DEF IsSumUpTo
  <2> HIDE DEF g
  <2>4. \E h : IsSumUpTo(h, header, S, (n + 1) - 1)
    BY <2>3
  <2>5. n + 1 \in 1 .. N
    BY <1>1
  <2> QED
    BY <2>4, <2>5
<1>4. T = 1 .. N
  <2>1. N \in Nat /\ T \in SUBSET (1 .. N)
    BY <1>1
  <2> HIDE DEF T, N
  <2> QED
    BY <1>2, <1>3, <2>1, IntervalInduction
<1>5. PICK f : IsSumUpTo(f, header, S, Cardinality(S))
  <2>1. N \in 1 .. N /\ N - 1 = Cardinality(S)
    BY <1>1
  <2>2. N \in T
    BY <1>4, <2>1
  <2> QED
    BY <2>1, <2>2
<1> DEFINE g == [s \in SUBSET S |-> f[s]]
<1>6. ASSUME NEW s \in SUBSET S
      PROVE  g[s] = SumStep(g, header, s)
  <2>1. f[s] = SumStep(f, header, s)
    BY <1>5, RestOfSet DEF IsSumUpTo
  <2>2. s # {} => (CHOOSE x \in s : TRUE) \in s
    OBVIOUS
  <2> QED
    BY <2>1, <2>2 DEF SumStep
<1>7. g = [s \in SUBSET S |-> SumStep(g, header, s)]
  <2>1. g = [s \in SUBSET S |-> g[s]]
    OBVIOUS
  <2> HIDE DEF g
  <2>2. [s \in SUBSET S |-> g[s]] = [s \in SUBSET S |-> SumStep(g, header, s)]
    BY <1>6
  <2> QED
    BY <2>1, <2>2
<1> HIDE DEF g
<1> QED
  BY <1>7 DEF IsSum

LEMMA SizeIsSum ==
    ASSUME NEW header, NEW S, IsFiniteSet(S)
    PROVE  \E f : IsSum(f, header, S) /\ SizeOf(header, S) = f[S]
<1> DEFINE F == CHOOSE f : f = [s \in SUBSET S |->
                   IF s = {} THEN 0
                   ELSE LET x == CHOOSE x \in s : TRUE IN Words(header[x]) + f[s \ {x}]]
<1>1. SizeOf(header, S) = F[S]
  BY DEF SizeOf, MapThenSumSet, MapThenFoldSet
<1>2. F = CHOOSE f : IsSum(f, header, S)
  BY DEF IsSum, SumStep
<1> HIDE DEF F
<1>3. IsSum(F, header, S)
  BY <1>2, SumExists
<1> QED
  BY <1>1, <1>3

LEMMA SumIsNatural ==
    ASSUME NEW header, NEW S, IsFiniteSet(S), \A a \in S : Words(header[a]) \in Nat,
           NEW f, IsSum(f, header, S)
    PROVE  \A T \in SUBSET S : f[T] \in Nat
<1> DEFINE P == {T \in SUBSET S : f[T] \in Nat}
<1>1. \A T \in SUBSET S : f[T] = SumStep(f, header, T)
  BY DEF IsSum
<1>2. ASSUME NEW T \in SUBSET S, \A y \in T : T \ {y} \in P
      PROVE  T \in P
  <2>1. CASE T = {}
    <3>1. f[T] = 0
      BY <1>1, <2>1 DEF SumStep
    <3> QED
      BY <3>1
  <2>2. CASE T # {}
    <3> DEFINE x == CHOOSE x \in T : TRUE
    <3>1. x \in T /\ f[T] = Words(header[x]) + f[T \ {x}]
      BY <1>1, <2>2 DEF SumStep
    <3> HIDE DEF x
    <3>2. f[T \ {x}] \in Nat /\ Words(header[x]) \in Nat
      BY <1>2, <3>1
    <3> QED
      BY <3>1, <3>2
  <2> QED
    BY <2>1, <2>2
<1>3. P \in SUBSET SUBSET S
  OBVIOUS
<1>4. P = SUBSET S
  <2> HIDE DEF P
  <2> QED
    BY <1>2, <1>3, SubsetInduction
<1> QED
  BY <1>4

(* The order in which a sum is taken does not matter.                      *)
LEMMA SumPick ==
    ASSUME NEW header, NEW S, IsFiniteSet(S), \A a \in S : Words(header[a]) \in Nat,
           NEW f, IsSum(f, header, S)
    PROVE  \A T \in SUBSET S, a \in S : a \in T => f[T] = Words(header[a]) + f[T \ {a}]
<1> DEFINE Good(T) == \A a \in T : f[T] = Words(header[a]) + f[T \ {a}]
           P == {T \in SUBSET S : Good(T)}
<1>1. \A T \in SUBSET S : f[T] = SumStep(f, header, T) /\ f[T] \in Nat
  BY SumIsNatural DEF IsSum
<1>2. ASSUME NEW T \in SUBSET S, \A y \in T : T \ {y} \in P, T # {}
      PROVE  Good(T)
  <2> DEFINE x == CHOOSE x \in T : TRUE
  <2>1. x \in T /\ f[T] = Words(header[x]) + f[T \ {x}]
    BY <1>1, <1>2 DEF SumStep
  <2> HIDE DEF x
  <2>2. Good(T \ {x}) /\ Words(header[x]) \in Nat
    BY <1>2, <2>1
  <2>3. ASSUME NEW a \in T, a # x
        PROVE  f[T] = Words(header[a]) + f[T \ {a}]
    <3>1. Good(T \ {a})
      BY <1>2
    <3>2. f[T \ {x}] = Words(header[a]) + f[(T \ {x}) \ {a}]
      BY <2>2, <2>3
    <3>3. f[T \ {a}] = Words(header[x]) + f[(T \ {a}) \ {x}]
      BY <3>1, <2>1, <2>3
    <3>4. (T \ {a}) \ {x} = (T \ {x}) \ {a}
      OBVIOUS
    <3>5. (T \ {x}) \ {a} \in SUBSET S /\ T \ {x} \in SUBSET S /\ T \ {a} \in SUBSET S
      OBVIOUS
    <3>6. f[(T \ {x}) \ {a}] \in Nat /\ f[T \ {x}] \in Nat /\ f[T \ {a}] \in Nat
           /\ Words(header[a]) \in Nat
      BY <1>1, <3>5
    <3>7. Words(header[x]) \in Nat
      BY <2>2
    <3>8. f[T] = Words(header[x]) + (Words(header[a]) + f[(T \ {x}) \ {a}])
      BY <2>1, <3>2
    <3>9. f[T \ {a}] = Words(header[x]) + f[(T \ {x}) \ {a}]
      BY <3>3, <3>4
    <3> QED
      BY ONLY <3>6, <3>7, <3>8, <3>9
  <2> QED
    BY <2>1, <2>3
<1>3. \A T \in SUBSET S : (\A y \in T : T \ {y} \in P) => T \in P
  BY <1>2
<1>4. P = SUBSET S
  <2>1. P \in SUBSET SUBSET S
    OBVIOUS
  <2> HIDE DEF P
  <2> QED
    BY <1>3, <2>1, SubsetInduction
<1> QED
  BY <1>4

(* Only the headers of the allocations that are added up matter.           *)
LEMMA SumAgrees ==
    ASSUME NEW header, NEW S, IsFiniteSet(S), NEW f, IsSum(f, header, S),
           NEW other, NEW R, NEW g, IsSum(g, other, R),
           S \subseteq R, \A a \in S : header[a] = other[a]
    PROVE  f[S] = g[S]
<1> DEFINE P == {T \in SUBSET S : f[T] = g[T]}
<1>1. \A T \in SUBSET S : f[T] = SumStep(f, header, T) /\ g[T] = SumStep(g, other, T)
  BY DEF IsSum
<1>2. ASSUME NEW T \in SUBSET S, \A y \in T : T \ {y} \in P
      PROVE  T \in P
  <2>1. CASE T = {}
    BY <1>1, <2>1 DEF SumStep
  <2>2. CASE T # {}
    <3> DEFINE x == CHOOSE x \in T : TRUE
    <3>1. /\ x \in T
          /\ f[T] = Words(header[x]) + f[T \ {x}]
          /\ g[T] = Words(other[x]) + g[T \ {x}]
      BY <1>1, <2>2 DEF SumStep
    <3> HIDE DEF x
    <3>2. f[T \ {x}] = g[T \ {x}] /\ header[x] = other[x]
      BY <1>2, <3>1
    <3> QED
      BY <3>1, <3>2
  <2> QED
    BY <2>1, <2>2
<1>3. P \in SUBSET SUBSET S
  OBVIOUS
<1>4. P = SUBSET S
  <2> HIDE DEF P
  <2> QED
    BY <1>2, <1>3, SubsetInduction
<1> QED
  BY <1>4

LEMMA SizeOfNone ==
    ASSUME NEW header
    PROVE  SizeOf(header, {}) = 0
<1>1. PICK f : IsSum(f, header, {}) /\ SizeOf(header, {}) = f[{}]
  BY FS_EmptySet, SizeIsSum
<1> QED
  BY <1>1 DEF IsSum, SumStep

LEMMA SizeAgrees ==
    ASSUME NEW header, NEW other, NEW S, IsFiniteSet(S), \A a \in S : header[a] = other[a]
    PROVE  SizeOf(header, S) = SizeOf(other, S)
<1>1. PICK f : IsSum(f, header, S) /\ SizeOf(header, S) = f[S]
  BY SizeIsSum
<1>2. PICK g : IsSum(g, other, S) /\ SizeOf(other, S) = g[S]
  BY SizeIsSum
<1>3. f[S] = g[S]
  BY <1>1, <1>2, SumAgrees
<1> QED
  BY <1>1, <1>2, <1>3

(* One more allocation.                                                    *)
LEMMA SizeOfMore ==
    ASSUME NEW header, NEW S, IsFiniteSet(S), NEW a, a \notin S,
           \A b \in S \cup {a} : Words(header[b]) \in Nat
    PROVE  /\ SizeOf(header, S) \in Nat
           /\ SizeOf(header, S \cup {a}) = SizeOf(header, S) + Words(header[a])
<1>1. PICK R : R = S \cup {a}
  OBVIOUS
<1>2. IsFiniteSet(R) /\ S \in SUBSET R /\ a \in R /\ R \in SUBSET R
  BY <1>1, FS_AddElement
<1>3. R \ {a} = S
  BY <1>1
<1>4. PICK f : IsSum(f, header, S) /\ SizeOf(header, S) = f[S]
  BY SizeIsSum
<1>5. PICK g : IsSum(g, header, R) /\ SizeOf(header, R) = g[R]
  BY <1>2, SizeIsSum
<1>6. \A b \in R : Words(header[b]) \in Nat
  BY <1>1
<1>7. /\ \A T \in SUBSET R : g[T] \in Nat
      /\ \A T \in SUBSET R, b \in R : b \in T => g[T] = Words(header[b]) + g[T \ {b}]
  <2>1. IsFiniteSet(R) /\ IsSum(g, header, R)
    BY <1>2, <1>5
  <2>2. \A T \in SUBSET R : g[T] \in Nat
    BY ONLY <2>1, <1>6, SumIsNatural
  <2>3. \A T \in SUBSET R, b \in R : b \in T => g[T] = Words(header[b]) + g[T \ {b}]
    BY ONLY <2>1, <1>6, SumPick
  <2> QED
    BY <2>2, <2>3
<1>8. g[R] = Words(header[a]) + g[R \ {a}]
  BY ONLY <1>2, <1>7
<1>9. f[S] = g[S]
  BY <1>2, <1>4, <1>5, SumAgrees
<1>10. g[S] \in Nat /\ Words(header[a]) \in Nat
  BY <1>2, <1>6, <1>7
<1>11. SizeOf(header, R) = Words(header[a]) + SizeOf(header, S)
  BY <1>3, <1>4, <1>5, <1>8, <1>9
<1> QED
  BY <1>1, <1>4, <1>9, <1>10, <1>11

(* A set of allocations is no larger than a set that contains it.          *)
LEMMA SizeOfPart ==
    ASSUME NEW header, NEW R, IsFiniteSet(R), NEW S \in SUBSET R,
           \A b \in R : Words(header[b]) \in Nat
    PROVE  /\ SizeOf(header, R) \in Nat /\ SizeOf(header, S) \in Nat
           /\ SizeOf(header, S) <= SizeOf(header, R)
<1>1. PICK g : IsSum(g, header, R) /\ SizeOf(header, R) = g[R]
  BY SizeIsSum
<1>2. IsFiniteSet(S)
  BY FS_Subset
<1>3. PICK f : IsSum(f, header, S) /\ SizeOf(header, S) = f[S]
  BY <1>2, SizeIsSum
<1>4. f[S] = g[S]
  BY <1>1, <1>2, <1>3, SumAgrees
<1>5. /\ \A T \in SUBSET R : g[T] \in Nat
      /\ \A T \in SUBSET R, b \in R : b \in T => g[T] = Words(header[b]) + g[T \ {b}]
  <2>1. \A T \in SUBSET R : g[T] \in Nat
    BY <1>1, SumIsNatural
  <2>2. \A T \in SUBSET R, b \in R : b \in T => g[T] = Words(header[b]) + g[T \ {b}]
    BY <1>1, SumPick
  <2> QED
    BY <2>1, <2>2
<1> DEFINE P == {T \in SUBSET R : S \subseteq T => g[S] <= g[T]}
<1>6. ASSUME NEW T \in SUBSET R, \A y \in T : T \ {y} \in P
      PROVE  T \in P
  <2>1. SUFFICES ASSUME S \subseteq T PROVE g[S] <= g[T]
    OBVIOUS
  <2>2. CASE S = T
    BY <1>5, <2>2
  <2>3. CASE S # T
    <3>1. PICK y \in T : y \notin S
      BY <2>1, <2>3
    <3>2. S \subseteq T \ {y} /\ T \ {y} \in P /\ T \ {y} \in SUBSET R
      BY <1>6, <2>1, <3>1
    <3>3. g[S] <= g[T \ {y}]
      BY <3>2
    <3>4. g[T] = Words(header[y]) + g[T \ {y}] /\ Words(header[y]) \in Nat
           /\ g[T \ {y}] \in Nat /\ g[S] \in Nat
      BY <1>5, <3>1, <3>2
    <3> QED
      BY <3>3, <3>4
  <2> QED
    BY <2>2, <2>3
<1>7. P \in SUBSET SUBSET R
  OBVIOUS
<1>8. P = SUBSET R
  <2> HIDE DEF P
  <2> QED
    BY <1>6, <1>7, SubsetInduction
<1>9. g[S] <= g[R]
  BY <1>8
<1> QED
  BY <1>1, <1>3, <1>4, <1>5, <1>9

-----------------------------------------------------------------------------
(* The list of handles.                                                    *)

\* l is the list: the links lead from each of its handles to the next.
Linked(l) ==
    /\ l \in Seq(Handle)
    /\ \A i, j \in 1 .. Len(l) : l[i] = l[j] => i = j
    /\ gcHandles = IF l = <<>> THEN Nil ELSE l[1]
    /\ \A i \in 1 .. Len(l) : next[l[i]] = IF i < Len(l) THEN l[i + 1] ELSE Nil

LEMMA ListIsNoLonger ==
    ASSUME NEW l \in Seq(Handle), \A i, j \in 1 .. Len(l) : l[i] = l[j] => i = j
    PROVE  Cardinality(Handle) \in Nat /\ Len(l) <= Cardinality(Handle)
<1>1. IsFiniteSet(Handle)
  BY HandleAssumption
<1>2. Cardinality(Handle) \in Nat
  BY <1>1, FS_CardinalityType
<1>3. ASSUME Cardinality(Handle) < Len(l)
      PROVE  FALSE
  <2>1. \A n \in Nat : IsFiniteSet(1 .. n) /\ Cardinality(1 .. n) = n
    BY FS_Interval
  <2>2. Len(l) \in Nat /\ l \in [1 .. Len(l) -> Handle]
    OBVIOUS
  <2>3. IsFiniteSet(1 .. Len(l)) /\ Cardinality(Handle) < Cardinality(1 .. Len(l))
    BY <1>3, <2>1, <2>2
  <2>4. \E i, j \in 1 .. Len(l) : i # j /\ l[i] = l[j]
    BY <1>1, <2>2, <2>3, FS_PigeonHole
  <2> QED
    BY <2>4
<1> QED
  BY <1>2, <1>3

\* One step of the walk.
Further(before) ==
    LET following == IF before = <<>> THEN gcHandles ELSE next[Last(before)]
    IN  IF following = Nil THEN before ELSE Append(before, following)

LEMMA WalkGoesAlong ==
    ASSUME NEW l, Linked(l), NEW n \in Nat
    PROVE  /\ n < Len(l) => Further(SubSeq(l, 1, n)) = SubSeq(l, 1, n + 1)
           /\ Further(l) = l
<1>1. l \in Seq(Handle) /\ Len(l) \in Nat
  BY DEF Linked
<1>2. Nil \notin Handle
  BY HandleAssumption
<1>3. ASSUME n < Len(l)
      PROVE  Further(SubSeq(l, 1, n)) = SubSeq(l, 1, n + 1)
  <2> DEFINE s == SubSeq(l, 1, n)
             t == SubSeq(l, 1, n + 1)
  <2>1. /\ s \in Seq(Handle) /\ Len(s) = n /\ \A i \in 1 .. n : s[i] = l[i]
        /\ t \in Seq(Handle) /\ Len(t) = n + 1 /\ \A i \in 1 .. n + 1 : t[i] = l[i]
    BY <1>1, <1>3
  <2>2. l[n + 1] \in Handle
    BY <1>1, <1>3
  <2> HIDE DEF s, t
  <2>3. (IF s = <<>> THEN gcHandles ELSE next[Last(s)]) = l[n + 1]
    <3>1. CASE n = 0
      <4>1. s = <<>> /\ l # <<>>
        BY <1>1, <1>3, <2>1, <3>1
      <4> QED
        BY <3>1, <4>1 DEF Linked
    <3>2. CASE n # 0
      <4>1. s # <<>> /\ Last(s) = l[n] /\ n \in 1 .. Len(l)
        BY <1>3, <2>1, <3>2 DEF Last
      <4>2. next[l[n]] = l[n + 1]
        BY <1>3, <4>1 DEF Linked
      <4> QED
        BY <4>1, <4>2
    <3> QED
      BY <3>1, <3>2
  <2>4. Append(s, l[n + 1]) = t
    <3>1. Append(s, l[n + 1]) \in Seq(Handle) /\ Len(Append(s, l[n + 1])) = n + 1
      BY <2>1, <2>2
    <3>2. \A i \in 1 .. n + 1 : Append(s, l[n + 1])[i] = t[i]
      BY <2>1, <2>2
    <3> QED
      BY <2>1, <3>1, <3>2, SeqEqual
  <2>5. Further(s) = t
    BY <1>2, <2>2, <2>3, <2>4 DEF Further
  <2> QED
    BY <2>5 DEF s, t
<1>4. Further(l) = l
  <2>1. CASE l = <<>>
    BY <2>1 DEF Further, Linked
  <2>2. CASE l # <<>>
    <3>1. Len(l) \in 1 .. Len(l) /\ Last(l) = l[Len(l)]
      BY <1>1, <2>2 DEF Last
    <3>2. next[l[Len(l)]] = Nil
      BY <3>1 DEF Linked
    <3> QED
      BY <2>2, <3>1, <3>2 DEF Further
  <2> QED
    BY <2>1, <2>2
<1> QED
  BY <1>3, <1>4

(* The walk finds the whole list.                                          *)
LEMMA ListedIs == \A l : Linked(l) => Listed = l
<1> SUFFICES ASSUME NEW l, Linked(l) PROVE Listed = l
  OBVIOUS
<1>1. l \in Seq(Handle) /\ Len(l) \in Nat
  BY DEF Linked
<1>2. Cardinality(Handle) \in Nat /\ Len(l) <= Cardinality(Handle)
  BY ListIsNoLonger DEF Linked
<1>3. PICK N \in Nat : N = Cardinality(Handle)
  BY <1>2
<1> DEFINE Prefix(n) == IF n < Len(l) THEN SubSeq(l, 1, n) ELSE l
           f == [n \in 0 .. N |-> Prefix(n)]
<1>4. Prefix(0) = <<>>
  BY <1>1
<1>5. \A n \in 1 .. N : Further(Prefix(n - 1)) = Prefix(n)
  <2> SUFFICES ASSUME NEW n \in 1 .. N PROVE Further(Prefix(n - 1)) = Prefix(n)
    OBVIOUS
  <2>1. n - 1 \in Nat /\ (n - 1) + 1 = n
    OBVIOUS
  <2>2. CASE n - 1 < Len(l)
    <3>1. Further(SubSeq(l, 1, n - 1)) = SubSeq(l, 1, n)
      BY <2>1, <2>2, WalkGoesAlong
    <3>2. n < Len(l) \/ SubSeq(l, 1, n) = l
      BY <1>1, <2>2
    <3> QED
      BY <2>2, <3>1, <3>2
  <2>3. CASE ~(n - 1 < Len(l))
    <3>1. ~(n < Len(l))
      BY <1>1, <2>3
    <3>2. Further(l) = l
      BY <2>1, WalkGoesAlong
    <3> QED
      BY <2>3, <3>1, <3>2
  <2> QED
    BY <2>2, <2>3
<1> HIDE DEF Prefix
<1>6. f = [n \in 0 .. N |-> IF n = 0 THEN <<>> ELSE Further(f[n - 1])]
  <2>1. \A n \in 0 .. N : f[n] = IF n = 0 THEN <<>> ELSE Further(f[n - 1])
    <3> SUFFICES ASSUME NEW n \in 0 .. N
                 PROVE  f[n] = IF n = 0 THEN <<>> ELSE Further(f[n - 1])
      OBVIOUS
    <3>1. CASE n = 0
      BY <1>4, <3>1
    <3>2. CASE n # 0
      <4>1. n \in 1 .. N /\ n - 1 \in 0 .. N
        BY <3>2
      <4>2. f[n - 1] = Prefix(n - 1) /\ f[n] = Prefix(n)
        BY <4>1
      <4>3. Further(Prefix(n - 1)) = Prefix(n)
        BY <1>5, <4>1
      <4> HIDE DEF f
      <4> QED
        BY <3>2, <4>2, <4>3
    <3> QED
      BY <3>1, <3>2
  <2>2. f = [n \in 0 .. N |-> f[n]]
    OBVIOUS
  <2> HIDE DEF f
  <2> QED
    BY <2>1, <2>2
<1>7. Walk = CHOOSE w : w = [n \in 0 .. N |-> IF n = 0 THEN <<>> ELSE Further(w[n - 1])]
  BY <1>3 DEF Walk, Further
<1> HIDE DEF f
<1>8. Walk = [n \in 0 .. N |-> IF n = 0 THEN <<>> ELSE Further(Walk[n - 1])]
  <2> DEFINE W(w) == w = [n \in 0 .. N |-> IF n = 0 THEN <<>> ELSE Further(w[n - 1])]
  <2>1. \E w : W(w)
    BY <1>6
  <2>2. Walk = CHOOSE w : W(w)
    BY <1>7
  <2> HIDE DEF W
  <2>3. W(Walk)
    BY <2>1, <2>2
  <2> QED
    BY <2>3 DEF W
<1>9. PICK g : g = Walk
  OBVIOUS
<1>10. g = [n \in 0 .. N |-> IF n = 0 THEN <<>> ELSE Further(g[n - 1])]
  BY <1>8, <1>9
<1>11. \A n \in 0 .. N : g[n] = IF n = 0 THEN <<>> ELSE Further(g[n - 1])
  BY <1>10
<1> DEFINE T == {n \in 1 .. N : g[n] = Prefix(n)}
<1>12. N > 0 => 1 \in T
  <2> SUFFICES ASSUME N > 0 PROVE 1 \in T
    OBVIOUS
  <2>1. 1 \in 1 .. N /\ 0 \in 0 .. N /\ 1 \in 0 .. N /\ 1 - 1 = 0
    OBVIOUS
  <2>2. g[0] = <<>>
    BY <1>11, <2>1
  <2>3. g[1] = Further(g[0])
    BY <1>11, <2>1
  <2>4. Further(Prefix(0)) = Prefix(1)
    BY <1>5, <2>1
  <2> QED
    BY <1>4, <2>1, <2>2, <2>3, <2>4
<1>13. ASSUME NEW n \in 1 .. N - 1, n \in T
       PROVE  n + 1 \in T
  <2>1. n + 1 \in 1 .. N /\ n + 1 \in 0 .. N /\ n + 1 # 0 /\ (n + 1) - 1 = n
    OBVIOUS
  <2>2. g[n + 1] = Further(g[n])
    BY <1>11, <2>1
  <2>3. Further(Prefix(n)) = Prefix(n + 1)
    BY <1>5, <2>1
  <2> QED
    BY <1>13, <2>1, <2>2, <2>3
<1>14. T = 1 .. N
  <2>1. T \in SUBSET (1 .. N)
    OBVIOUS
  <2> HIDE DEF T
  <2> QED
    BY <1>12, <1>13, <2>1, IntervalInduction
<1>15. g[N] = l
  <2>1. CASE N = 0
    <3>1. l = <<>>
      BY <1>1, <1>2, <1>3, <2>1
    <3> QED
      BY <1>11, <2>1, <3>1
  <2>2. CASE N # 0
    <3>1. N \in T
      BY <1>14, <2>2
    <3>2. g[N] = Prefix(N)
      BY <3>1
    <3>3. ~(N < Len(l))
      BY <1>1, <1>2, <1>3
    <3> QED
      BY <3>2, <3>3 DEF Prefix
  <2> QED
    BY <2>1, <2>2
<1> QED
  BY <1>3, <1>9, <1>15 DEF Listed

LEMMA InitializedIs ==
    ASSUME NEW l, Linked(l)
    PROVE  Listed = l /\ Initialized = {l[i] : i \in 1 .. Len(l)}
<1>1. Listed = l
  BY ListedIs
<1>2. l \in Seq(Handle) /\ DOMAIN l = 1 .. Len(l)
  BY DEF Linked
<1> QED
  BY <1>1, <1>2 DEF Initialized

\* The list without its p-th handle.
Without(l, p) == [i \in 1 .. Len(l) - 1 |-> IF i < p THEN l[i] ELSE l[i + 1]]

LEMMA WithoutOne ==
    ASSUME NEW l \in Seq(Handle), NEW p \in 1 .. Len(l),
           \A i, j \in 1 .. Len(l) : l[i] = l[j] => i = j
    PROVE  /\ Without(l, p) \in Seq(Handle) /\ Len(Without(l, p)) = Len(l) - 1
           /\ \A i \in 1 .. Len(l) - 1 : Without(l, p)[i] = IF i < p THEN l[i] ELSE l[i + 1]
           /\ \A i, j \in 1 .. Len(l) - 1 : Without(l, p)[i] = Without(l, p)[j] => i = j
           /\ {Without(l, p)[i] : i \in 1 .. Len(l) - 1} = {l[i] : i \in 1 .. Len(l)} \ {l[p]}
<1> DEFINE w == Without(l, p)
           n == Len(l)
<1>1. n \in Nat /\ n - 1 \in Nat
  OBVIOUS
<1>2. \A i \in 1 .. n - 1 : i \in 1 .. n /\ i + 1 \in 1 .. n
  OBVIOUS
<1>3. w = [i \in 1 .. n - 1 |-> IF i < p THEN l[i] ELSE l[i + 1]]
  BY DEF Without
<1>4. \A i \in 1 .. n - 1 : w[i] = IF i < p THEN l[i] ELSE l[i + 1]
  BY <1>3
<1>5. \A i \in 1 .. n - 1 : w[i] \in Handle
  BY <1>2, <1>4
<1> HIDE DEF w
<1>6. w \in [1 .. n - 1 -> Handle]
  BY <1>3, <1>5
<1>7. w \in Seq(Handle) /\ Len(w) = n - 1
  BY <1>1, <1>6
<1>8. \A i, j \in 1 .. n - 1 : w[i] = w[j] => i = j
  <2> SUFFICES ASSUME NEW i \in 1 .. n - 1, NEW j \in 1 .. n - 1, w[i] = w[j] PROVE i = j
    OBVIOUS
  <2>1. (IF i < p THEN i ELSE i + 1) = (IF j < p THEN j ELSE j + 1)
    BY <1>2, <1>4
  <2> QED
    BY <2>1
<1>9. {w[i] : i \in 1 .. n - 1} = {l[i] : i \in 1 .. n} \ {l[p]}
  <2>1. ASSUME NEW i \in 1 .. n - 1
        PROVE  w[i] \in {l[k] : k \in 1 .. n} \ {l[p]}
    <3>1. (IF i < p THEN i ELSE i + 1) \in 1 .. n /\ (IF i < p THEN i ELSE i + 1) # p
      OBVIOUS
    <3>2. w[i] = l[IF i < p THEN i ELSE i + 1]
      BY <1>4
    <3> QED
      BY <3>1, <3>2
  <2>2. ASSUME NEW k \in 1 .. n, l[k] # l[p]
        PROVE  \E i \in 1 .. n - 1 : l[k] = w[i]
    <3>1. CASE k < p
      <4>1. k \in 1 .. n - 1
        BY <3>1
      <4> QED
        BY <1>4, <3>1, <4>1
    <3>2. CASE k > p
      <4>1. k - 1 \in 1 .. n - 1 /\ ~(k - 1 < p) /\ (k - 1) + 1 = k
        BY <3>2
      <4>2. w[k - 1] = l[k]
        BY <1>4, <4>1
      <4> QED
        BY <4>1, <4>2
    <3>3. k # p
      BY <2>2
    <3> QED
      BY <3>1, <3>2, <3>3
  <2>3. {w[i] : i \in 1 .. n - 1} \subseteq {l[i] : i \in 1 .. n} \ {l[p]}
    BY <2>1
  <2>4. {l[i] : i \in 1 .. n} \ {l[p]} \subseteq {w[i] : i \in 1 .. n - 1}
    <3> SUFFICES ASSUME NEW k \in 1 .. n, l[k] # l[p]
                 PROVE  l[k] \in {w[i] : i \in 1 .. n - 1}
      OBVIOUS
    <3> QED
      BY <2>2
  <2> QED
    BY <2>3, <2>4
<1> QED
  BY <1>4, <1>7, <1>8, <1>9 DEF w

LEMMA InitializeKeepsList ==
    ASSUME NEW l, Linked(l), next \in [Handle -> Handle \cup {Nil}],
           NEW x \in Handle, NEW v, InitializeHandle(x, v)
    PROVE  Linked(<<x>> \o l)' /\ next' \in [Handle -> Handle \cup {Nil}]
<1>1. l \in Seq(Handle) /\ Len(l) \in Nat
  BY DEF Linked
<1> DEFINE k == <<x>> \o l
<1>2. /\ k \in Seq(Handle) /\ Len(k) = Len(l) + 1 /\ k[1] = x
      /\ \A i \in 2 .. Len(l) + 1 : k[i] = l[i - 1]
  BY <1>1
<1>3. \A i \in 1 .. Len(l) : l[i] # x
  BY InitializedIs DEF InitializeHandle
<1>4. gcHandles \in Handle \cup {Nil}
  <2>1. l # <<>> => 1 \in 1 .. Len(l)
    BY <1>1
  <2>2. l # <<>> => l[1] \in Handle
    BY <1>1, <2>1
  <2> QED
    BY <2>2 DEF Linked
<1>5. /\ next' = [next EXCEPT ![x] = gcHandles] /\ gcHandles' = x
      /\ next'[x] = gcHandles
      /\ \A h \in Handle : h # x => next'[h] = next[h]
  BY DEF InitializeHandle
<1> HIDE DEF k
<1>6. \A i, j \in 1 .. Len(k) : k[i] = k[j] => i = j
  <2> SUFFICES ASSUME NEW i \in 1 .. Len(k), NEW j \in 1 .. Len(k), k[i] = k[j], i < j
               PROVE  FALSE
    BY <1>1, <1>2
  <2>1. j \in 2 .. Len(l) + 1 /\ j - 1 \in 1 .. Len(l) /\ k[j] = l[j - 1]
    BY <1>1, <1>2
  <2>2. CASE i = 1
    BY <1>2, <1>3, <2>1, <2>2
  <2>3. CASE i # 1
    <3>1. i \in 2 .. Len(l) + 1 /\ i - 1 \in 1 .. Len(l) /\ k[i] = l[i - 1]
      BY <1>1, <1>2, <2>3
    <3>2. i - 1 = j - 1
      BY <2>1, <3>1 DEF Linked
    <3> QED
      BY <3>2
  <2> QED
    BY <2>2, <2>3
<1>7. gcHandles' = IF k = <<>> THEN Nil ELSE k[1]
  BY <1>1, <1>2, <1>5
<1>8. \A i \in 1 .. Len(k) : next'[k[i]] = IF i < Len(k) THEN k[i + 1] ELSE Nil
  <2> SUFFICES ASSUME NEW i \in 1 .. Len(k)
               PROVE  next'[k[i]] = IF i < Len(k) THEN k[i + 1] ELSE Nil
    OBVIOUS
  <2>1. CASE i = 1
    <3>1. next'[k[1]] = gcHandles
      BY <1>2, <1>5
    <3>2. CASE l = <<>>
      <4>1. Len(k) = 1 /\ gcHandles = Nil
        BY <1>2, <3>2 DEF Linked
      <4> QED
        BY <2>1, <3>1, <4>1
    <3>3. CASE l # <<>>
      <4>1. 1 < Len(k) /\ 2 \in 2 .. Len(l) + 1 /\ 2 - 1 = 1
        BY <1>1, <1>2, <3>3
      <4>2. k[2] = l[1]
        BY <1>2, <4>1
      <4>3. gcHandles = l[1]
        BY <3>3 DEF Linked
      <4> QED
        BY <2>1, <3>1, <4>1, <4>2, <4>3
    <3> QED
      BY <3>2, <3>3
  <2>2. CASE i # 1
    <3>1. i \in 2 .. Len(l) + 1 /\ i - 1 \in 1 .. Len(l) /\ k[i] = l[i - 1] /\ (i - 1) + 1 = i
      BY <1>1, <1>2, <2>2
    <3>2. l[i - 1] \in Handle /\ l[i - 1] # x
      BY <1>1, <1>3, <3>1
    <3>3. next'[k[i]] = next[l[i - 1]]
      BY <1>5, <3>1, <3>2
    <3>4. next[l[i - 1]] = IF i - 1 < Len(l) THEN l[i] ELSE Nil
      BY <3>1 DEF Linked
    <3>5. i - 1 < Len(l) <=> i < Len(k)
      BY <1>1, <1>2
    <3>6. i < Len(k) => i + 1 \in 2 .. Len(l) + 1 /\ (i + 1) - 1 = i
      BY <1>1, <1>2
    <3>7. i < Len(k) => k[i + 1] = l[i]
      BY <1>2, <3>6
    <3> QED
      BY <3>3, <3>4, <3>5, <3>7
  <2> QED
    BY <2>1, <2>2
<1>9. Linked(k)'
  BY <1>2, <1>6, <1>7, <1>8 DEF Linked
<1> QED
  BY <1>4, <1>5, <1>9 DEF k

LEMMA ReleaseKeepsList ==
    ASSUME NEW l, Linked(l), next \in [Handle -> Handle \cup {Nil}],
           NEW x \in Handle, ReleaseHandle(x)
    PROVE  /\ next' \in [Handle -> Handle \cup {Nil}]
           /\ x \notin Initialized => Linked(l)'
           /\ \A p \in 1 .. Len(l) : l[p] = x => Linked(Without(l, p))'
<1>1. l \in Seq(Handle) /\ Len(l) \in Nat /\ \A i, j \in 1 .. Len(l) : l[i] = l[j] => i = j
  BY DEF Linked
<1>2. Initialized = {l[i] : i \in 1 .. Len(l)}
  BY InitializedIs
<1>3. CASE x \notin Initialized
  <2>1. next' = [next EXCEPT ![x] = Nil] /\ gcHandles' = gcHandles
    BY <1>3 DEF ReleaseHandle
  <2>2. \A i \in 1 .. Len(l) : l[i] \in Handle /\ l[i] # x
    BY <1>1, <1>2, <1>3
  <2>3. \A i \in 1 .. Len(l) : next'[l[i]] = next[l[i]]
    BY <2>1, <2>2
  <2>4. Linked(l)'
    BY <2>1, <2>3 DEF Linked
  <2> QED
    BY <1>2, <1>3, <2>1, <2>4
<1>4. ASSUME NEW p \in 1 .. Len(l), l[p] = x
      PROVE  Linked(Without(l, p))' /\ next' \in [Handle -> Handle \cup {Nil}]
  <2>1. x \in Initialized
    BY <1>2, <1>4
  <2>2. Unlink(x)
    BY <2>1 DEF ReleaseHandle
  <2>3. next[x] = IF p < Len(l) THEN l[p + 1] ELSE Nil
    BY <1>4 DEF Linked
  <2>4. next[x] \in Handle \cup {Nil}
    OBVIOUS
  <2> DEFINE w == Without(l, p)
  <2>5. /\ w \in Seq(Handle) /\ Len(w) = Len(l) - 1
        /\ \A i \in 1 .. Len(l) - 1 : w[i] = IF i < p THEN l[i] ELSE l[i + 1]
        /\ \A i, j \in 1 .. Len(l) - 1 : w[i] = w[j] => i = j
    BY <1>1, WithoutOne
  <2>6. gcHandles = l[1] /\ l # <<>> /\ 1 \in 1 .. Len(l)
    BY <1>1 DEF Linked
  <2> HIDE DEF w
  <2>7. CASE p = 1
    <3>1. gcHandles' = next[x] /\ next' = [next EXCEPT ![x] = Nil]
      BY <1>4, <2>2, <2>6, <2>7 DEF Unlink
    <3>2. \A i \in 1 .. Len(w) : /\ w[i] = l[i + 1] /\ i + 1 \in 1 .. Len(l)
                                 /\ w[i] # x /\ w[i] \in Handle
      BY <1>1, <1>4, <2>5, <2>7
    <3>3. gcHandles' = IF w = <<>> THEN Nil ELSE w[1]
      <4>1. CASE Len(l) = 1
        BY <2>3, <2>5, <2>7, <3>1, <4>1
      <4>2. CASE Len(l) # 1
        <5>1. 1 \in 1 .. Len(w) /\ w # <<>> /\ p < Len(l)
          BY <1>1, <2>5, <2>6, <2>7, <4>2
        <5>2. w[1] = l[1 + 1]
          BY <3>2, <5>1
        <5> QED
          BY <2>3, <2>7, <3>1, <5>1, <5>2
      <4> QED
        BY <4>1, <4>2
    <3>4. \A i \in 1 .. Len(w) : next'[w[i]] = IF i < Len(w) THEN w[i + 1] ELSE Nil
      <4> SUFFICES ASSUME NEW i \in 1 .. Len(w)
                   PROVE  next'[w[i]] = IF i < Len(w) THEN w[i + 1] ELSE Nil
        OBVIOUS
      <4>1. next'[w[i]] = next[l[i + 1]]
        BY <3>1, <3>2
      <4>2. next[l[i + 1]] = IF i + 1 < Len(l) THEN l[(i + 1) + 1] ELSE Nil
        BY <3>2 DEF Linked
      <4>3. i + 1 < Len(l) <=> i < Len(w)
        BY <1>1, <2>5
      <4>4. i < Len(w) => w[i + 1] = l[(i + 1) + 1]
        BY <1>1, <2>5, <3>2
      <4> QED
        BY <4>1, <4>2, <4>3, <4>4
    <3>5. \A i, j \in 1 .. Len(w) : w[i] = w[j] => i = j
      BY <2>5
    <3>6. Linked(w)'
      BY <2>5, <3>3, <3>4, <3>5 DEF Linked
    <3> QED
      BY <2>4, <3>1, <3>6 DEF w
  <2>8. CASE p # 1
    <3>1. p - 1 \in 1 .. Len(l) /\ p - 1 < Len(l) /\ (p - 1) + 1 = p
      BY <1>1, <2>8
    <3>2. PICK q : q = l[p - 1]
      OBVIOUS
    <3>3. q \in Handle /\ q # x /\ next[q] = x /\ q \in Initialized
      BY <1>1, <1>2, <1>4, <3>1, <3>2 DEF Linked
    <3>4. \A h \in Initialized : next[h] = x => h = q
      <4> SUFFICES ASSUME NEW i \in 1 .. Len(l), next[l[i]] = x PROVE i = p - 1
        BY <1>2, <3>2
      <4>1. i < Len(l) /\ l[i + 1] = x
        <5>1. Nil # x
          BY HandleAssumption
        <5> QED
          BY <5>1 DEF Linked
      <4>2. i + 1 \in 1 .. Len(l)
        BY <1>1, <4>1
      <4>3. i + 1 = p
        BY <1>1, <1>4, <4>1, <4>2
      <4> QED
        BY <4>3
    <3>5. (CHOOSE h \in Initialized : next[h] = x) = q
      BY <3>3, <3>4
    <3>6. gcHandles # x
      BY <1>1, <1>4, <2>6, <2>8
    <3>7. next' = [next EXCEPT ![q] = next[x], ![x] = Nil] /\ gcHandles' = gcHandles
      BY <2>2, <3>5, <3>6 DEF Unlink
    <3>8. /\ next'[q] = next[x]
          /\ \A h \in Handle : h # q /\ h # x => next'[h] = next[h]
      BY <3>3, <3>7
    <3>9. gcHandles' = IF w = <<>> THEN Nil ELSE w[1]
      <4>1. 1 \in 1 .. Len(l) - 1 /\ 1 < p
        BY <1>1, <2>8
      <4>2. w[1] = l[1] /\ w # <<>>
        BY <2>5, <4>1
      <4> QED
        BY <2>6, <3>7, <4>2
    <3>10. \A i \in 1 .. Len(w) : next'[w[i]] = IF i < Len(w) THEN w[i + 1] ELSE Nil
      <4> SUFFICES ASSUME NEW i \in 1 .. Len(w)
                   PROVE  next'[w[i]] = IF i < Len(w) THEN w[i + 1] ELSE Nil
        OBVIOUS
      <4>1. i \in 1 .. Len(l) - 1 /\ i \in 1 .. Len(l) /\ i + 1 \in 1 .. Len(l)
        BY <1>1, <2>5
      <4>2. i < Len(w) => w[i + 1] = IF i + 1 < p THEN l[i + 1] ELSE l[(i + 1) + 1]
        <5>1. i < Len(w) => i + 1 \in 1 .. Len(l) - 1
          BY <1>1, <2>5
        <5> QED
          BY <2>5, <5>1
      <4>3. CASE i = p - 1
        <5>1. w[i] = q
          BY <2>5, <3>1, <3>2, <4>1, <4>3
        <5>2. next'[w[i]] = IF p < Len(l) THEN l[p + 1] ELSE Nil
          BY <2>3, <3>8, <5>1
        <5>3. p < Len(l) <=> i < Len(w)
          BY <1>1, <2>5, <4>3
        <5>4. i + 1 = p
          BY <4>3
        <5> QED
          BY <4>2, <5>2, <5>3, <5>4
      <4>4. CASE i < p - 1
        <5>1. w[i] = l[i] /\ i < Len(w) /\ i + 1 < p /\ i # p /\ i # p - 1
          BY <1>1, <2>5, <4>1, <4>4
        <5>2. w[i + 1] = l[i + 1]
          BY <4>2, <5>1
        <5>3. l[i] \in Handle /\ l[i] # x /\ l[i] # q
          BY <1>1, <1>4, <3>1, <3>2, <4>1, <5>1
        <5>4. next'[w[i]] = next[l[i]]
          BY <3>8, <5>1, <5>3
        <5>5. next[l[i]] = l[i + 1]
          <6>1. i < Len(l)
            BY <1>1, <2>5, <5>1
          <6> QED
            BY <4>1, <6>1 DEF Linked
        <5> QED
          BY <5>1, <5>2, <5>4, <5>5
      <4>5. CASE i > p - 1
        <5>1. w[i] = l[i + 1] /\ i + 1 # p /\ i + 1 # p - 1 /\ ~(i + 1 < p)
          BY <1>1, <2>5, <4>1, <4>5
        <5>2. l[i + 1] \in Handle /\ l[i + 1] # x /\ l[i + 1] # q
          BY <1>1, <1>4, <3>1, <3>2, <4>1, <5>1
        <5>3. next'[w[i]] = next[l[i + 1]]
          BY <3>8, <5>1, <5>2
        <5>4. next[l[i + 1]] = IF i + 1 < Len(l) THEN l[(i + 1) + 1] ELSE Nil
          BY <4>1 DEF Linked
        <5>5. i + 1 < Len(l) <=> i < Len(w)
          BY <1>1, <2>5
        <5> QED
          BY <4>2, <5>1, <5>3, <5>4, <5>5
      <4> QED
        BY <3>1, <4>3, <4>4, <4>5
    <3>11. \A i, j \in 1 .. Len(w) : w[i] = w[j] => i = j
      BY <2>5
    <3>12. Linked(w)'
      BY <2>5, <3>9, <3>10, <3>11 DEF Linked
    <3> QED
      BY <2>4, <3>3, <3>7, <3>12 DEF w
  <2> QED
    BY <2>7, <2>8
<1> QED
  BY <1>2, <1>3, <1>4

-----------------------------------------------------------------------------
(* The chain of buckets.                                                   *)

BucketType == [data : Int, used : Int, end : Int, start : Int]

BucketOK(b) ==
    /\ BucketHeader <= b.data /\ b.data <= b.used /\ b.used <= b.end /\ b.end <= MemorySize
    /\ 0 <= b.start /\ b.start + (b.end - b.data) <= MaxHeapSize
    /\ b.start % 2 = 0 /\ (b.used - b.data) % 2 = 0

\* Two buckets, with their own headers, do not overlap.
Apart(b, d) == b.end <= d.data - BucketHeader \/ d.end <= b.data - BucketHeader

ChainOK(c) ==
    /\ c \in Seq(BucketType)
    /\ \A i \in 1 .. Len(c) : BucketOK(c[i])
    /\ \A i \in 1 .. Len(c) : c[i].start = IF i = 1 THEN 0 ELSE OffsetEnd(c[i - 1])
    /\ \A i, j \in 1 .. Len(c) : i # j => Apart(c[i], c[j])

\* The data of an allocation can be at address a of the bucket.
Within(b, a) == b.data < a /\ a < b.used /\ (a - b.data) % 2 = 0

\* Offset o stands for address a.
Points(c, o, a) ==
    \E i \in 1 .. Len(c) : Within(c[i], a) /\ o = c[i].start + (a - c[i].data)

\* What offsets of the chain c stand for, they stand for in the chain d.
Kept(c, d) == \A o : \A a \in Int : Points(c, o, a) => Points(d, o, a)

LEMMA BucketFields ==
    ASSUME NEW b \in BucketType
    PROVE  b.data \in Int /\ b.used \in Int /\ b.end \in Int /\ b.start \in Int
BY DEF BucketType

LEMMA ChainFields ==
    ASSUME NEW c, ChainOK(c)
    PROVE  /\ Len(c) \in Nat
           /\ \A i \in 1 .. Len(c) :
                /\ c[i] \in BucketType
                /\ c[i].data \in Int /\ c[i].used \in Int /\ c[i].end \in Int /\ c[i].start \in Int
                /\ BucketHeader <= c[i].data /\ c[i].data <= c[i].used
                /\ c[i].used <= c[i].end /\ c[i].end <= MemorySize
                /\ 0 <= c[i].start /\ c[i].start + (c[i].end - c[i].data) <= MaxHeapSize
                /\ c[i].start % 2 = 0 /\ (c[i].used - c[i].data) % 2 = 0
                /\ OffsetEnd(c[i]) = c[i].start + (c[i].used - c[i].data)
                /\ OffsetEnd(c[i]) \in Int /\ c[i].start <= OffsetEnd(c[i])
                /\ OffsetEnd(c[i]) <= MaxHeapSize
<1>1. Len(c) \in Nat
  BY DEF ChainOK
<1>2. ASSUME NEW i \in 1 .. Len(c)
      PROVE  /\ c[i] \in BucketType
             /\ c[i].data \in Int /\ c[i].used \in Int /\ c[i].end \in Int /\ c[i].start \in Int
             /\ BucketHeader <= c[i].data /\ c[i].data <= c[i].used
             /\ c[i].used <= c[i].end /\ c[i].end <= MemorySize
             /\ 0 <= c[i].start /\ c[i].start + (c[i].end - c[i].data) <= MaxHeapSize
             /\ c[i].start % 2 = 0 /\ (c[i].used - c[i].data) % 2 = 0
             /\ OffsetEnd(c[i]) = c[i].start + (c[i].used - c[i].data)
             /\ OffsetEnd(c[i]) \in Int /\ c[i].start <= OffsetEnd(c[i])
             /\ OffsetEnd(c[i]) <= MaxHeapSize
  <2>1. c[i] \in BucketType /\ BucketOK(c[i])
    BY DEF ChainOK
  <2>2. c[i].data \in Int /\ c[i].used \in Int /\ c[i].end \in Int /\ c[i].start \in Int
    BY <2>1, BucketFields
  <2>3. OffsetEnd(c[i]) = c[i].start + (c[i].used - c[i].data)
    BY DEF OffsetEnd
  <2>4. MaxHeapSize \in Int
    BY Constants
  <2> QED
    BY <2>1, <2>2, <2>3, <2>4 DEF BucketOK
<1> QED
  BY <1>1, <1>2

(* The offsets of a bucket lie behind those of the buckets before it.      *)
LEMMA OffsetsGrow ==
    ASSUME NEW c, ChainOK(c)
    PROVE  /\ \A j \in 1 .. Len(c) : \A i \in 1 .. j - 1 : OffsetEnd(c[i]) <= c[j].start
           /\ \A i \in 1 .. Len(c) : OffsetEnd(c[i]) <= UsedSize(c)
           /\ UsedSize(c) \in Nat /\ UsedSize(c) <= MaxHeapSize
<1>1. /\ Len(c) \in Nat
      /\ \A i \in 1 .. Len(c) : /\ c[i].start \in Int /\ OffsetEnd(c[i]) \in Int
                                /\ 0 <= c[i].start
                                /\ c[i].start <= OffsetEnd(c[i])
                                /\ OffsetEnd(c[i]) <= MaxHeapSize
  BY ChainFields
<1>2. \A i \in 1 .. Len(c) : c[i].start = IF i = 1 THEN 0 ELSE OffsetEnd(c[i - 1])
  BY DEF ChainOK
<1>3. PICK n \in Nat : n = Len(c)
  BY <1>1
<1> DEFINE Behind(j) == \A i \in 1 .. j - 1 : OffsetEnd(c[i]) <= c[j].start
           T == {j \in 1 .. n : Behind(j)}
<1>4. n > 0 => 1 \in T
  OBVIOUS
<1>5. ASSUME NEW j \in 1 .. n - 1, j \in T
      PROVE  j + 1 \in T
  <2>1. j \in 1 .. n /\ j + 1 \in 1 .. n /\ (j + 1) - 1 = j /\ j + 1 # 1
    OBVIOUS
  <2>2. c[j + 1].start = OffsetEnd(c[j])
    BY <1>2, <1>3, <2>1
  <2>3. ASSUME NEW i \in 1 .. (j + 1) - 1
        PROVE  OffsetEnd(c[i]) <= c[j + 1].start
    <3>1. CASE i = j
      BY <1>1, <1>3, <2>1, <2>2, <3>1
    <3>2. CASE i # j
      <4>1. i \in 1 .. j - 1 /\ i \in 1 .. n
        BY <2>1, <3>2
      <4>2. OffsetEnd(c[i]) <= c[j].start
        BY <1>5, <4>1
      <4> QED
        BY <1>1, <1>3, <2>1, <2>2, <4>1, <4>2
    <3> QED
      BY <3>1, <3>2
  <2>4. Behind(j + 1)
    BY <2>3
  <2> HIDE DEF Behind
  <2> QED
    BY <2>1, <2>4
<1>6. T = 1 .. n
  <2>1. T \in SUBSET (1 .. n)
    OBVIOUS
  <2> HIDE DEF T
  <2> QED
    BY <1>4, <1>5, <2>1, IntervalInduction
<1>7. \A j \in 1 .. Len(c) : Behind(j)
  <2> HIDE DEF Behind
  <2> QED
    BY <1>3, <1>6
<1>8. ASSUME NEW i \in 1 .. Len(c)
      PROVE  OffsetEnd(c[i]) <= UsedSize(c)
  <2>1. c # <<>> /\ Len(c) \in 1 .. Len(c) /\ UsedSize(c) = OffsetEnd(c[Len(c)])
    BY <1>1 DEF UsedSize, Last
  <2>2. CASE i = Len(c)
    BY <1>1, <2>1, <2>2
  <2>3. CASE i # Len(c)
    <3>1. i \in 1 .. Len(c) - 1
      BY <1>1, <2>3
    <3>2. OffsetEnd(c[i]) <= c[Len(c)].start
      BY <1>7, <2>1, <3>1
    <3> QED
      BY <1>1, <2>1, <3>2
  <2> QED
    BY <2>2, <2>3
<1>9. UsedSize(c) \in Nat /\ UsedSize(c) <= MaxHeapSize
  <2>1. CASE c = <<>>
    BY <2>1, Constants DEF UsedSize
  <2>2. CASE c # <<>>
    <3>1. Len(c) \in 1 .. Len(c) /\ UsedSize(c) = OffsetEnd(c[Len(c)])
      <4>1. c \in Seq(BucketType)
        BY DEF ChainOK
      <4> QED
        BY <2>2, <4>1 DEF UsedSize, Last
    <3> QED
      BY <1>1, <3>1
  <2> QED
    BY <2>1, <2>2
<1> QED
  BY <1>7, <1>8, <1>9

(* An address within a bucket is in no other bucket.                       *)
LEMMA WithinOne ==
    ASSUME NEW c, ChainOK(c), NEW k \in 1 .. Len(c), NEW a \in Int,
           c[k].data < a, a < c[k].used
    PROVE  \A i \in 1 .. Len(c) : c[i].data - BucketHeader <= a /\ a <= c[i].end => i = k
<1> SUFFICES ASSUME NEW i \in 1 .. Len(c), c[i].data - BucketHeader <= a, a <= c[i].end, i # k
             PROVE  FALSE
  OBVIOUS
<1>1. Apart(c[i], c[k])
  BY DEF ChainOK
<1>2. /\ c[i].data \in Int /\ c[i].end \in Int
      /\ c[k].data \in Int /\ c[k].end \in Int /\ c[k].used \in Int /\ c[k].used <= c[k].end
  BY ChainFields
<1>3. BucketHeader \in Nat
  BY Constants
<1> QED
  BY <1>1, <1>2, <1>3 DEF Apart

(* Of the two directions of a short pointer, the first: the search for a   *)
(* bucket finds the one that holds the address.                            *)
LEMMA Encoded ==
    ASSUME NEW h, ChainOK(h.chain), NEW k \in 1 .. Len(h.chain), NEW a \in Int,
           Within(h.chain[k], a)
    PROVE  /\ Encode(h, a) = h.chain[k].start + (a - h.chain[k].data)
           /\ Points(h.chain, Encode(h, a), a)
<1> DEFINE c == h.chain
           Found == {i \in DOMAIN h.chain : InBucket(h.chain[i], a)}
<1>1. DOMAIN c = 1 .. Len(c) /\ Len(c) \in Nat
  BY DEF ChainOK
<1>2. /\ \A i \in 1 .. Len(c) : c[i].data \in Int /\ c[i].used \in Int /\ c[i].end \in Int
                                /\ c[i].used <= c[i].end
      /\ BucketHeader \in Nat
  BY ChainFields, Constants
<1>3. c[k].data < a /\ a < c[k].used /\ k \in 1 .. Len(c)
  BY DEF Within
<1> HIDE DEF c
<1>4. InBucket(c[k], a)
  BY <1>2, <1>3 DEF InBucket
<1>5. ASSUME NEW i \in 1 .. Len(c), InBucket(c[i], a)
      PROVE  i = k
  <2>1. c[i].data - BucketHeader <= a /\ a <= c[i].end
    BY <1>2, <1>5 DEF InBucket
  <2> QED
    BY <1>3, <2>1, WithinOne DEF c
<1>6. Found = {k}
  BY <1>1, <1>4, <1>5 DEF c
<1> HIDE DEF Found
<1>7. Max(Found) = k
  BY <1>6, MaxOfOne
<1>8. Encode(h, a) = c[k].start + (a - c[k].data)
  BY <1>7 DEF Encode, Found, c
<1> QED
  BY <1>8 DEF Points, c

(* And the second: the offset is decoded to the address again, and it is   *)
(* what ShortPtr_decode asserts of it.                                     *)
LEMMA Decoded ==
    ASSUME NEW h, ChainOK(h.chain), NEW a \in Int, NEW o, Points(h.chain, o, a)
    PROVE  /\ Decode(h, o) = a
           /\ o \in Nat /\ o % 2 = 0 /\ o < UsedSize(h.chain)
<1> DEFINE c == h.chain
<1>1. PICK k \in 1 .. Len(c) : Within(c[k], a) /\ o = c[k].start + (a - c[k].data)
  BY DEF Points
<1>2. /\ DOMAIN c = 1 .. Len(c) /\ Len(c) \in Nat
      /\ \A i \in 1 .. Len(c) : c[i].start \in Int
  <2>1. DOMAIN c = 1 .. Len(c)
    BY DEF ChainOK
  <2> QED
    BY <2>1, ChainFields
<1>3. /\ c[k].data \in Int /\ c[k].used \in Int /\ c[k].start \in Int
      /\ 0 <= c[k].start
      /\ OffsetEnd(c[k]) = c[k].start + (c[k].used - c[k].data)
  BY ChainFields
<1>4. c[k].data < a /\ a < c[k].used
  BY <1>1 DEF Within
<1>even. c[k].start % 2 = 0 /\ (a - c[k].data) % 2 = 0
  BY <1>1, ChainFields DEF Within
<1>5. o \in Nat /\ c[k].start < o /\ o < OffsetEnd(c[k])
  BY <1>1, <1>3, <1>4
<1>6. o % 2 = 0
  <2>1. \A x, y \in Nat : x % 2 = 0 /\ y % 2 = 0 => (x + y) % 2 = 0
    OBVIOUS
  <2>2. c[k].start \in Nat /\ a - c[k].data \in Nat
    BY <1>3, <1>4
  <2>3. o = c[k].start + (a - c[k].data)
    BY <1>1
  <2> QED
    BY ONLY <1>even, <2>1, <2>2, <2>3
<1>7. /\ OffsetEnd(c[k]) <= UsedSize(c) /\ UsedSize(c) \in Nat
      /\ \A j \in 1 .. Len(c) : \A i \in 1 .. j - 1 : OffsetEnd(c[i]) <= c[j].start
  BY OffsetsGrow
<1> DEFINE Found == {i \in DOMAIN h.chain : o >= h.chain[i].start}
<1> HIDE DEF c
<1>8. Found \in SUBSET (0 .. Len(c)) /\ k \in Found
  BY <1>2, <1>3, <1>5 DEF c
<1>9. \A i \in Found : i <= k
  <2> SUFFICES ASSUME NEW i \in Found, k < i PROVE FALSE
    BY <1>2, <1>8
  <2>1. i \in 1 .. Len(c) /\ k \in 1 .. i - 1 /\ o >= c[i].start
    BY <1>2 DEF c
  <2>2. OffsetEnd(c[k]) <= c[i].start
    BY <1>7, <2>1
  <2>3. OffsetEnd(c[k]) \in Int /\ c[i].start \in Int
    BY <1>2, <1>3, <2>1
  <2> QED
    BY <1>5, <2>1, <2>2, <2>3
<1> HIDE DEF Found
<1>10. Max(Found) \in Found /\ \A x \in Found : x <= Max(Found)
  BY <1>2, <1>8, LargestPosition
<1>11. Max(Found) = k
  BY <1>2, <1>8, <1>9, <1>10
<1>12. Decode(h, o) = c[k].data + (o - c[k].start)
  BY <1>11 DEF Decode, Found, c
<1>13. Decode(h, o) = a
  BY <1>1, <1>3, <1>12
<1>14. o < UsedSize(c)
  BY <1>3, <1>5, <1>7
<1> QED
  BY <1>5, <1>6, <1>13, <1>14 DEF c

-----------------------------------------------------------------------------
(* The heap.                                                               *)

HeapShape(h) == h = [chain |-> h.chain, header |-> h.header]

Inside(b, header) == {a \in DOMAIN header : b.data < a /\ a <= b.used}

\* The allocations of the bucket b fill it up to the end of its used space.
Parses(b, header) ==
    {b.data} \cup {(a - 2) + Words(header[a]) : a \in Inside(b, header)}
      = {a - 2 : a \in Inside(b, header)} \cup {b.used}

HeapOK(h) ==
    /\ HeapShape(h)
    /\ ChainOK(h.chain)
    /\ IsFiniteSet(DOMAIN h.header)
    /\ \A a \in DOMAIN h.header :
          /\ a \in Int /\ h.header[a] \in Sizes
          /\ \E i \in 1 .. Len(h.chain) : Within(h.chain[i], a)
    /\ \A i \in 1 .. Len(h.chain) : Parses(h.chain[i], h.header)
    /\ SizeOf(h.header, DOMAIN h.header) = UsedSize(h.chain)

LEMMA EmptyHeapOK == HeapOK(EmptyHeap) /\ UsedSize(EmptyHeap.chain) = 0
<1>1. EmptyHeap.chain = <<>> /\ EmptyHeap.header = <<>> /\ HeapShape(EmptyHeap)
  BY DEF EmptyHeap, HeapShape
<1>2. DOMAIN EmptyHeap.header = {} /\ UsedSize(EmptyHeap.chain) = 0
  BY <1>1 DEF UsedSize
<1>3. ChainOK(<<>>)
  BY DEF ChainOK
<1>4. SizeOf(EmptyHeap.header, {}) = 0
  BY SizeOfNone
<1>5. Len(<<>>) = 0
  OBVIOUS
<1> QED
  BY <1>1, <1>2, <1>3, <1>4, <1>5, FS_EmptySet DEF HeapOK

(* A bucket behind the others, with nothing in it yet.                     *)
LEMMA BucketAdded ==
    ASSUME NEW h, HeapOK(h), NEW size \in Nat, UsedSize(h.chain) + size <= MaxHeapSize,
           NEW data \in Int, BucketHeader <= data, data + size <= MemorySize,
           \A i \in 1 .. Len(h.chain) : \/ h.chain[i].end <= data - BucketHeader
                                        \/ data + size <= h.chain[i].data - BucketHeader
    PROVE  LET n == NewBucket(h, size, data)
           IN  /\ HeapOK(n)
               /\ n.header = h.header /\ UsedSize(n.chain) = UsedSize(h.chain)
               /\ n.chain # <<>> /\ Last(n.chain).used = data /\ Last(n.chain).end = data + size
               /\ Kept(h.chain, n.chain)
<1> DEFINE c == h.chain
           b == [data |-> data, used |-> data, end |-> data + size, start |-> UsedSize(h.chain)]
           d == Append(c, b)
<1>1. HeapShape(h) /\ ChainOK(c) /\ c \in Seq(BucketType) /\ Len(c) \in Nat
  BY DEF HeapOK, ChainOK
<1>2. UsedSize(c) \in Nat
  BY <1>1, OffsetsGrow
<1>3. b \in BucketType
  BY <1>2 DEF BucketType
<1>4. NewBucket(h, size, data) = [chain |-> d, header |-> h.header]
  BY DEF NewBucket
<1> HIDE DEF c
<1>5. /\ b.data = data /\ b.used = data /\ b.end = data + size /\ b.start = UsedSize(c)
  BY DEF c
<1>6. BucketOK(b)
  <2>1. UsedSize(c) % 2 = 0
    <3>1. CASE c = <<>>
      BY <3>1 DEF UsedSize
    <3>2. CASE c # <<>>
      <4>1. Len(c) \in 1 .. Len(c) /\ Last(c) = c[Len(c)]
        BY <1>1, <3>2 DEF Last
      <4>2. PICK l : l = c[Len(c)]
        OBVIOUS
      <4>3. /\ l.start \in Int /\ l.used \in Int /\ l.data \in Int
            /\ l.start % 2 = 0 /\ (l.used - l.data) % 2 = 0
        BY <1>1, <4>1, <4>2, ChainFields
      <4>4. \A x, y \in Int : x % 2 = 0 /\ y % 2 = 0 => (x + y) % 2 = 0
        OBVIOUS
      <4>5. l.used - l.data \in Int
        BY <4>3
      <4>6. UsedSize(c) = l.start + (l.used - l.data)
        BY <3>2, <4>1, <4>2 DEF UsedSize, OffsetEnd
      <4> QED
        BY ONLY <4>3, <4>4, <4>5, <4>6
    <3> QED
      BY <3>1, <3>2
  <2>2. (data - data) % 2 = 0
    OBVIOUS
  <2>3. UsedSize(c) + ((data + size) - data) <= MaxHeapSize
    BY <1>2, Constants DEF c
  <2> HIDE DEF b
  <2> QED
    BY <1>2, <1>5, <2>1, <2>2, <2>3 DEF BucketOK
<1> HIDE DEF b
<1>7. /\ d \in Seq(BucketType) /\ Len(d) = Len(c) + 1 /\ d # <<>>
      /\ \A i \in 1 .. Len(c) : d[i] = c[i]
      /\ d[Len(c) + 1] = b
  BY <1>1, <1>3
<1> HIDE DEF d
<1>8. \A i \in 1 .. Len(d) : i \in 1 .. Len(c) \/ i = Len(c) + 1
  BY <1>1, <1>7
<1>9. \A i \in 1 .. Len(c) : i \in 1 .. Len(d) /\ i # Len(c) + 1
  BY <1>1, <1>7
<1>10. ChainOK(d)
  <2>1. \A i \in 1 .. Len(d) : BucketOK(d[i])
    BY <1>1, <1>6, <1>7, <1>8 DEF ChainOK
  <2>2. \A i \in 1 .. Len(d) : d[i].start = IF i = 1 THEN 0 ELSE OffsetEnd(d[i - 1])
    <3> SUFFICES ASSUME NEW i \in 1 .. Len(d)
                 PROVE  d[i].start = IF i = 1 THEN 0 ELSE OffsetEnd(d[i - 1])
      OBVIOUS
    <3>1. CASE i \in 1 .. Len(c)
      <4>1. d[i] = c[i]
        BY <1>7, <3>1
      <4>2. i # 1 => i - 1 \in 1 .. Len(c)
        BY <1>1, <3>1
      <4>3. i # 1 => d[i - 1] = c[i - 1]
        BY <1>7, <4>2
      <4> QED
        BY <1>1, <3>1, <4>1, <4>3 DEF ChainOK
    <3>2. CASE i = Len(c) + 1
      <4>1. d[i].start = UsedSize(c)
        BY <1>5, <1>7, <3>2
      <4>2. CASE c = <<>>
        BY <3>2, <4>1, <4>2 DEF UsedSize
      <4>3. CASE c # <<>>
        <5>1. i # 1 /\ i - 1 \in 1 .. Len(c) /\ i - 1 = Len(c)
          BY <1>1, <3>2, <4>3
        <5>2. d[i - 1] = c[Len(c)]
          BY <1>7, <5>1
        <5> QED
          BY <4>1, <4>3, <5>1, <5>2 DEF UsedSize, Last
      <4> QED
        BY <4>2, <4>3
    <3> QED
      BY <1>8, <3>1, <3>2
  <2>3. \A i \in 1 .. Len(c) : Apart(c[i], b) /\ Apart(b, c[i])
    BY <1>5 DEF Apart, c
  <2>4. \A i, j \in 1 .. Len(d) : i # j => Apart(d[i], d[j])
    <3> SUFFICES ASSUME NEW i \in 1 .. Len(d), NEW j \in 1 .. Len(d), i # j
                 PROVE  Apart(d[i], d[j])
      OBVIOUS
    <3>1. CASE i \in 1 .. Len(c) /\ j \in 1 .. Len(c)
      BY <1>1, <1>7, <3>1 DEF ChainOK
    <3>2. CASE i = Len(c) + 1
      BY <1>7, <1>8, <2>3, <3>2
    <3>3. CASE j = Len(c) + 1
      BY <1>7, <1>8, <2>3, <3>3
    <3> QED
      BY <1>8, <3>1, <3>2, <3>3
  <2> QED
    BY <1>7, <2>1, <2>2, <2>4 DEF ChainOK
<1>11. UsedSize(d) = UsedSize(c)
  <2>1. Last(d) = b
    BY <1>7 DEF Last
  <2>2. OffsetEnd(b) = UsedSize(c)
    BY <1>2, <1>5 DEF OffsetEnd
  <2> QED
    BY <1>7, <2>1, <2>2 DEF UsedSize
<1>12. ASSUME NEW a \in DOMAIN h.header
       PROVE  /\ a \in Int /\ h.header[a] \in Sizes
              /\ \E i \in 1 .. Len(d) : Within(d[i], a)
              /\ ~(b.data < a /\ a <= b.used)
  <2>1. a \in Int /\ h.header[a] \in Sizes
    BY DEF HeapOK
  <2>2. PICK i \in 1 .. Len(c) : Within(c[i], a)
    BY DEF HeapOK, c
  <2>3. i \in 1 .. Len(d) /\ Within(d[i], a)
    BY <1>7, <1>9, <2>2
  <2>4. ~(b.data < a /\ a <= b.used)
    BY <1>5, <2>1
  <2> QED
    BY <2>1, <2>3, <2>4
<1>13. ASSUME NEW i \in 1 .. Len(d)
       PROVE  Parses(d[i], h.header)
  <2>1. CASE i \in 1 .. Len(c)
    BY <1>7, <2>1 DEF HeapOK, c
  <2>2. CASE i = Len(c) + 1
    <3>1. Inside(b, h.header) = {}
      BY <1>12 DEF Inside
    <3>2. Parses(b, h.header)
      BY <1>5, <3>1 DEF Parses
    <3> QED
      BY <1>7, <2>2, <3>2
  <2> QED
    BY <1>8, <2>1, <2>2
<1>14. PICK n : n = [chain |-> d, header |-> h.header]
  OBVIOUS
<1>15. n.chain = d /\ n.header = h.header /\ HeapShape(n)
  BY <1>14 DEF HeapShape
<1>16. HeapOK(n)
  BY <1>10, <1>11, <1>12, <1>13, <1>15 DEF HeapOK, c
<1>17. Last(d).used = data /\ Last(d).end = data + size
  BY <1>5, <1>7 DEF Last
<1>18. \A o, a : Points(c, o, a) => Points(d, o, a)
  BY <1>7, <1>9 DEF Points
<1>19. NewBucket(h, size, data) = n
  BY <1>4, <1>14
<1> QED
  BY <1>7, <1>11, <1>15, <1>16, <1>17, <1>18, <1>19 DEF c, Kept

(* A further allocation at the end of the last bucket.                     *)
Filled(c, w) == [c EXCEPT ![Len(c)].used = @ + w]

LEMMA BucketFilled ==
    ASSUME NEW c, ChainOK(c), c # <<>>, NEW w \in Nat, w % 2 = 0, w >= 4,
           Last(c).used + w <= Last(c).end
    PROVE  LET d == Filled(c, w)
           IN  /\ Len(d) = Len(c) /\ Len(c) \in 1 .. Len(c)
               /\ \A i \in 1 .. Len(c) : i # Len(c) => d[i] = c[i]
               /\ d[Len(c)].data = c[Len(c)].data /\ d[Len(c)].end = c[Len(c)].end
               /\ d[Len(c)].start = c[Len(c)].start
               /\ d[Len(c)].used = c[Len(c)].used + w
               /\ c[Len(c)].used + w <= c[Len(c)].end
               /\ ChainOK(d) /\ UsedSize(d) = UsedSize(c) + w
<1> DEFINE k == Len(c)
           b == c[k]
           e == [b EXCEPT !.used = @ + w]
           d == Filled(c, w)
<1>1. c \in Seq(BucketType) /\ k \in 1 .. Len(c) /\ Last(c) = b /\ Len(c) \in Nat
  BY DEF ChainOK, Last
<1>2. /\ b.data \in Int /\ b.used \in Int /\ b.end \in Int /\ b.start \in Int
      /\ BucketHeader <= b.data /\ b.data <= b.used /\ b.used + w <= b.end /\ b.end <= MemorySize
      /\ 0 <= b.start /\ b.start + (b.end - b.data) <= MaxHeapSize
      /\ b.start % 2 = 0 /\ (b.used - b.data) % 2 = 0
      /\ b \in BucketType
  BY <1>1, ChainFields
<1>3. /\ e \in BucketType
      /\ e.data = b.data /\ e.end = b.end /\ e.start = b.start /\ e.used = b.used + w
  <2>1. b.used + w \in Int
    BY <1>2
  <2>2. b \in BucketType
    BY <1>2
  <2> HIDE DEF b
  <2> QED
    BY <2>1, <2>2 DEF BucketType
<1>4. d = [c EXCEPT ![k] = e]
  BY DEF Filled
<1> HIDE DEF e, d
<1>5. /\ d \in Seq(BucketType) /\ Len(d) = Len(c) /\ d[k] = e
      /\ \A i \in 1 .. Len(c) : i # k => d[i] = c[i]
  BY <1>1, <1>3, <1>4
<1> HIDE DEF b
<1>6. BucketOK(e)
  <2>1. (e.used - e.data) % 2 = 0
    <3>1. \A x, y \in Int : x % 2 = 0 /\ y % 2 = 0 => (x + y) % 2 = 0
      OBVIOUS
    <3>2. b.used - b.data \in Int /\ e.used - e.data = (b.used - b.data) + w
      BY <1>2, <1>3
    <3>3. (b.used - b.data) % 2 = 0 /\ w % 2 = 0 /\ w \in Int
      BY <1>2
    <3> QED
      BY ONLY <3>1, <3>2, <3>3
  <2>2. BucketHeader <= e.data /\ e.data <= e.used /\ e.used <= e.end /\ e.end <= MemorySize
    BY <1>2, <1>3
  <2>3. 0 <= e.start /\ e.start + (e.end - e.data) <= MaxHeapSize /\ e.start % 2 = 0
    BY <1>2, <1>3
  <2> QED
    BY <2>1, <2>2, <2>3 DEF BucketOK
<1>7. \A i \in 1 .. Len(c) : /\ d[i].data = c[i].data /\ d[i].end = c[i].end
                             /\ d[i].start = c[i].start
  BY <1>3, <1>5 DEF b
<1>8. ChainOK(d)
  <2>1. \A i \in 1 .. Len(d) : BucketOK(d[i])
    BY <1>5, <1>6 DEF ChainOK
  <2>2. ASSUME NEW i \in 1 .. Len(d)
        PROVE  d[i].start = IF i = 1 THEN 0 ELSE OffsetEnd(d[i - 1])
    <3>1. i # 1 => i - 1 \in 1 .. Len(c) /\ i - 1 # k
      BY <1>1, <1>5
    <3>2. i # 1 => d[i - 1] = c[i - 1]
      BY <1>5, <3>1
    <3> QED
      BY <1>5, <1>7, <3>2 DEF ChainOK
  <2>3. \A i, j \in 1 .. Len(d) : i # j => Apart(d[i], d[j])
    BY <1>5, <1>7 DEF ChainOK, Apart
  <2> QED
    BY <1>5, <2>1, <2>2, <2>3 DEF ChainOK
<1>9. UsedSize(d) = UsedSize(c) + w
  <2>1. d # <<>> /\ Last(d) = e
    BY <1>1, <1>5 DEF Last
  <2>2. UsedSize(c) = OffsetEnd(b)
    BY <1>1 DEF UsedSize
  <2> QED
    BY <1>2, <1>3, <2>1, <2>2 DEF UsedSize, OffsetEnd
<1> QED
  BY <1>1, <1>2, <1>3, <1>5, <1>8, <1>9 DEF b, d

LEMMA Added ==
    ASSUME NEW f, NEW x, NEW y
    PROVE  /\ DOMAIN Put(f, x, y) = DOMAIN f \cup {x}
           /\ Put(f, x, y)[x] = y
           /\ \A z \in DOMAIN f : z # x => Put(f, x, y)[z] = f[z]
BY DEF Put

LEMMA BumpOK ==
    ASSUME NEW h, HeapOK(h), NEW size \in Sizes, HasSpace(h, size)
    PROVE  LET n == Bump(h, size)
               t == Top(h)
           IN  /\ HeapOK(n)
               /\ t \in Int /\ t \notin DOMAIN h.header
               /\ n.header = Put(h.header, t, size) /\ n.chain # <<>>
               /\ UsedSize(n.chain) = UsedSize(h.chain) + Words(size)
               /\ \E i \in 1 .. Len(n.chain) : Within(n.chain[i], t)
               /\ Kept(h.chain, n.chain)
<1> DEFINE w == Words(size)
           c == h.chain
           k == Len(c)
           t == Top(h)
<1>1. size \in Nat \ {0} /\ w \in Nat /\ w >= 4
  BY Constants, WordsAreEven
<1>even. w % 2 = 0
  BY <1>1, WordsAreEven
<1>2. ChainOK(c) /\ c # <<>> /\ Last(c).used + w <= Last(c).end
  BY DEF HeapOK, HasSpace
<1>3. PICK d : d = Filled(c, w)
  OBVIOUS
<1>4. PICK f : f = Put(h.header, t, size)
  OBVIOUS
<1>5. PICK n : n = [chain |-> d, header |-> f]
  OBVIOUS
<1>6. Bump(h, size) = n /\ n.chain = d /\ n.header = f /\ HeapShape(n)
  BY <1>3, <1>4, <1>5 DEF Bump, HeapShape, Filled
<1> HIDE DEF w
<1>7. /\ Len(d) = Len(c) /\ Len(c) \in 1 .. Len(c)
      /\ \A i \in 1 .. Len(c) : i # Len(c) => d[i] = c[i]
      /\ d[Len(c)].data = c[Len(c)].data /\ d[Len(c)].end = c[Len(c)].end
      /\ d[Len(c)].start = c[Len(c)].start
      /\ d[Len(c)].used = c[Len(c)].used + w
      /\ c[Len(c)].used + w <= c[Len(c)].end
      /\ ChainOK(d) /\ UsedSize(d) = UsedSize(c) + w
  <2> HIDE DEF c
  <2> QED
    BY <1>1, <1>even, <1>2, <1>3, BucketFilled
<1>8. t = c[k].used + 2
  BY <1>2 DEF Top, Last
<1> HIDE DEF t, c
<1>9. /\ \A i \in 1 .. Len(c) : /\ c[i].data \in Int /\ c[i].used \in Int /\ c[i].end \in Int
                                /\ c[i].start \in Int
                                /\ c[i].data <= c[i].used /\ c[i].used <= c[i].end
      /\ \A i, j \in 1 .. Len(c) : i # j => Apart(c[i], c[j])
      /\ BucketHeader \in Nat
  BY <1>2, ChainFields, Constants DEF ChainOK
<1>10. /\ \A a \in DOMAIN h.header : /\ a \in Int /\ h.header[a] \in Sizes
                                     /\ \E i \in 1 .. Len(c) : Within(c[i], a)
       /\ \A i \in 1 .. Len(c) : Parses(c[i], h.header)
       /\ IsFiniteSet(DOMAIN h.header)
       /\ SizeOf(h.header, DOMAIN h.header) = UsedSize(c)
  BY DEF HeapOK, c
\* The space that is used now held no allocation.
<1>11. \A a \in DOMAIN h.header : a <= c[k].used \/ a > c[k].used + w
  <2> SUFFICES ASSUME NEW a \in DOMAIN h.header, c[k].used < a, a <= c[k].used + w
               PROVE  FALSE
    BY <1>1, <1>7, <1>9, <1>10
  <2>1. PICK i \in 1 .. Len(c) : Within(c[i], a)
    BY <1>10
  <2>2. a \in Int /\ c[i].data < a /\ a < c[i].used
    BY <1>10, <2>1 DEF Within
  <2>3. i # k
    BY <1>7, <1>9, <2>2
  <2>4. c[k].data - BucketHeader <= a /\ a <= c[k].end
    <3>1. /\ c[k].data \in Int /\ c[k].used \in Int /\ c[k].end \in Int
          /\ c[k].data <= c[k].used /\ c[k].used + w <= c[k].end /\ BucketHeader \in Nat
      BY <1>7, <1>9
    <3> QED
      BY <1>1, <2>2, <3>1
  <2> QED
    BY <1>2, <1>7, <2>2, <2>3, <2>4, WithinOne
<1>12. t \in Int /\ t \notin DOMAIN h.header
  <2>1. c[k].used \in Int
    BY <1>7, <1>9
  <2> QED
    BY <1>1, <1>8, <1>11, <2>1
<1>13. /\ DOMAIN f = DOMAIN h.header \cup {t} /\ f[t] = size
       /\ \A a \in DOMAIN h.header : f[a] = h.header[a]
  BY ONLY <1>4, <1>12 DEF Put
<1>14. Within(d[k], t)
  <2>1. \A x, y \in Int : x % 2 = 0 /\ y % 2 = 0 => (x + y) % 2 = 0
    OBVIOUS
  <2>2. (c[k].used - c[k].data) % 2 = 0
    BY <1>2, <1>7, ChainFields
  <2>3. c[k].used - c[k].data \in Int /\ t - c[k].data = (c[k].used - c[k].data) + 2
    BY <1>7, <1>8, <1>9
  <2>4. (t - c[k].data) % 2 = 0
    BY ONLY <2>1, <2>2, <2>3
  <2>5. d[k].data < t /\ t < d[k].used
    BY <1>1, <1>7, <1>8, <1>9
  <2> QED
    BY <1>7, <2>4, <2>5 DEF Within
<1>15. ASSUME NEW i \in 1 .. Len(c), NEW a, Within(c[i], a), a \in Int
       PROVE  Within(d[i], a)
  <2>1. d[i].data = c[i].data /\ (d[i].used = c[i].used \/ d[i].used = c[i].used + w)
    BY <1>7
  <2>2. c[i].used \in Int /\ c[i].data < a /\ a < c[i].used /\ (a - c[i].data) % 2 = 0
    BY <1>9, <1>15 DEF Within
  <2>3. a < d[i].used
    BY <1>1, <1>15, <2>1, <2>2
  <2> QED
    BY <2>1, <2>2, <2>3 DEF Within
<1>16. ASSUME NEW a \in DOMAIN f
       PROVE  /\ a \in Int /\ f[a] \in Sizes
              /\ \E i \in 1 .. Len(d) : Within(d[i], a)
  BY <1>7, <1>10, <1>12, <1>13, <1>14, <1>15
<1>17. ASSUME NEW i \in 1 .. Len(c), i # k
       PROVE  Parses(d[i], f)
  <2>1. d[k].data < t /\ t < d[k].used
    BY <1>14 DEF Within
  <2>2. ~(c[i].data < t /\ t <= c[i].used)
    <3>1. ~(d[i].data - BucketHeader <= t /\ t <= d[i].end)
      BY <1>7, <1>12, <1>17, <2>1, WithinOne
    <3> QED
      BY <1>7, <1>9, <1>12, <1>17, <3>1
  <2>3. Inside(c[i], f) = Inside(c[i], h.header)
    BY <1>13, <2>2 DEF Inside
  <2>4. \A a \in Inside(c[i], f) : f[a] = h.header[a]
    BY <1>13, <2>3 DEF Inside
  <2>5. {(a - 2) + Words(f[a]) : a \in Inside(c[i], f)}
          = {(a - 2) + Words(h.header[a]) : a \in Inside(c[i], h.header)}
    BY <2>3, <2>4
  <2>6. Parses(c[i], f)
    BY <1>10, <2>3, <2>5 DEF Parses
  <2> QED
    BY <1>7, <1>17, <2>6
<1>18. Parses(d[k], f)
  <2> DEFINE I == Inside(c[k], h.header)
  <2>1. Inside(d[k], f) = I \cup {t}
    <3>1. d[k].data < t /\ t <= d[k].used
      BY <1>1, <1>7, <1>8, <1>9
    <3>2. ASSUME NEW a \in DOMAIN h.header
          PROVE  d[k].data < a /\ a <= d[k].used <=> c[k].data < a /\ a <= c[k].used
      BY <1>1, <1>7, <1>9, <1>10, <1>11
    <3> QED
      BY <1>13, <3>1, <3>2 DEF Inside
  <2>2. \A a \in I : f[a] = h.header[a]
    BY <1>13 DEF Inside
  <2>3. {c[k].data} \cup {(a - 2) + Words(h.header[a]) : a \in I}
          = {a - 2 : a \in I} \cup {c[k].used}
    BY <1>7, <1>10 DEF Parses
  <2> HIDE DEF I
  <2>4. {(a - 2) + Words(f[a]) : a \in I \cup {t}}
          = {(a - 2) + Words(h.header[a]) : a \in I} \cup {d[k].used}
    <3>1. (t - 2) + Words(f[t]) = d[k].used
      BY <1>1, <1>7, <1>8, <1>9, <1>13 DEF w
    <3> QED
      BY <2>2, <3>1
  <2>5. {a - 2 : a \in I \cup {t}} = {a - 2 : a \in I} \cup {c[k].used}
    <3>1. t - 2 = c[k].used
      BY <1>7, <1>8, <1>9
    <3> QED
      BY <3>1
  <2> QED
    BY <1>7, <2>1, <2>3, <2>4, <2>5 DEF Parses
<1>19. SizeOf(f, DOMAIN f) = UsedSize(d) /\ IsFiniteSet(DOMAIN f)
  <2>1. PICK S : S = DOMAIN h.header
    OBVIOUS
  <2>2. IsFiniteSet(S) /\ t \notin S /\ DOMAIN f = S \cup {t}
    BY <1>10, <1>12, <1>13, <2>1
  <2>3. SizeOf(h.header, S) = SizeOf(f, S)
    <3>1. \A a \in S : h.header[a] = f[a]
      BY <1>13, <2>1
    <3> QED
      BY <2>2, <3>1, SizeAgrees
  <2>4. \A a \in S \cup {t} : Words(f[a]) \in Nat
    BY <1>16, <2>2, Constants, WordsAreEven
  <2>5. SizeOf(f, S \cup {t}) = SizeOf(f, S) + Words(f[t])
    BY ONLY <2>2, <2>4, SizeOfMore
  <2>6. IsFiniteSet(S \cup {t})
    BY <2>2, FS_AddElement
  <2> QED
    BY <1>7, <1>10, <1>13, <2>1, <2>2, <2>3, <2>5, <2>6 DEF w
<1>20. \A i \in 1 .. Len(d) : Parses(d[i], f)
  BY <1>7, <1>17, <1>18
<1>21. HeapOK(n)
  BY <1>6, <1>7, <1>16, <1>19, <1>20 DEF HeapOK
<1>22. ASSUME NEW o, NEW a \in Int, Points(c, o, a)
       PROVE  Points(d, o, a)
  <2>1. PICK i \in 1 .. Len(c) : Within(c[i], a) /\ o = c[i].start + (a - c[i].data)
    BY <1>22 DEF Points
  <2>2. Within(d[i], a)
    BY <1>15, <2>1
  <2>3. d[i].start = c[i].start /\ d[i].data = c[i].data
    BY <1>7
  <2> QED
    BY <1>7, <2>1, <2>2, <2>3 DEF Points
<1>23. \E i \in 1 .. Len(d) : Within(d[i], t)
  BY <1>7, <1>14
<1>24. d # <<>>
  BY <1>7
<1> QED
  BY <1>4, <1>6, <1>7, <1>12, <1>21, <1>22, <1>23, <1>24 DEF t, c, w, Kept

-----------------------------------------------------------------------------
(* New buckets.                                                            *)

(* What malloc returns is not in use, or the null pointer.                 *)
LEMMA MallocFits ==
    ASSUME NEW size \in Int, NEW chains, \A e \in chains : e \in Seq(BucketType)
    PROVE  LET m == Malloc(size, chains)
           IN  /\ m \in Nat
               /\ \/ m = NoMemory
                  \/ /\ m + BucketHeader + size <= MemorySize
                     /\ \A e \in chains : \A i \in 1 .. Len(e) :
                            \/ m + BucketHeader + size <= e[i].data - BucketHeader
                            \/ e[i].end <= m
<1> DEFINE used == Occupied(chains)
           n == BucketHeader + size
           free == Free(n, used)
           m == Malloc(size, chains)
<1>1. BucketHeader \in Nat /\ MemorySize \in Nat /\ n \in Int
  BY Constants
<1>2. \A e \in chains : \A i \in 1 .. Len(e) : <<e[i].data - BucketHeader, e[i].end>> \in used
  <2> SUFFICES ASSUME NEW e \in chains, NEW i \in 1 .. Len(e)
               PROVE  <<e[i].data - BucketHeader, e[i].end>> \in used
    OBVIOUS
  <2>1. i \in DOMAIN e
    OBVIOUS
  <2>2. e[i] \in {e[j] : j \in DOMAIN e}
    BY <2>1
  <2>3. PICK b : b = e[i]
    OBVIOUS
  <2>4. <<b.data - BucketHeader, b.end>> \in
            {<<d.data - BucketHeader, d.end>> : d \in {e[j] : j \in DOMAIN e}}
    BY <2>2, <2>3
  <2> QED
    BY <2>3, <2>4 DEF Occupied
<1>3. \A r \in used : r[1] \in Int /\ r[2] \in Int
  <2> SUFFICES ASSUME NEW r \in used PROVE r[1] \in Int /\ r[2] \in Int
    OBVIOUS
  <2>1. PICK e \in chains : r \in {<<d.data - BucketHeader, d.end>> : d \in {e[j] : j \in DOMAIN e}}
    BY DEF Occupied
  <2>2. PICK b \in {e[j] : j \in DOMAIN e} : r = <<b.data - BucketHeader, b.end>>
    BY <2>1
  <2>3. b \in BucketType
    BY <2>2
  <2> QED
    BY <1>1, <2>2, <2>3, BucketFields
<1> HIDE DEF used, n
<1> DEFINE most == IF n >= 0 THEN MemorySize ELSE MemorySize - n
<1>4. free \in SUBSET (0 .. most) /\ most \in Nat
  <2> SUFFICES ASSUME NEW a \in free PROVE a \in 0 .. most
    BY <1>1
  <2>1. a \in Int
    BY <1>1, <1>3 DEF Free
  <2>2. 0 <= a /\ a + n <= MemorySize
    BY DEF Free
  <2> QED
    BY <1>1, <2>1, <2>2
<1>5. \A a \in free : /\ a \in Nat /\ a + n <= MemorySize
                      /\ \A r \in used : a + n <= r[1] \/ r[2] <= a
  <2>1. \A a \in free : a \in Nat
    BY <1>1, <1>4
  <2> QED
    BY <2>1 DEF Free
<1> HIDE DEF free
<1>6. m = IF free = {} THEN NoMemory ELSE IF fromTop THEN Max(free) ELSE Min(free)
  BY DEF Malloc, free, n, used
<1> HIDE DEF m
<1>7. m = NoMemory \/ m \in free
  <2>1. CASE free = {}
    BY <1>6, <2>1
  <2>2. CASE free # {}
    <3>1. Max(free) \in free /\ Min(free) \in free
      BY <1>1, <1>4, <2>2, LargestPosition
    <3> QED
      BY <1>6, <2>2, <3>1
  <2> QED
    BY <2>1, <2>2
<1>8. m \in Nat
  BY <1>1, <1>5, <1>7 DEF NoMemory
<1>9. ASSUME m # NoMemory
      PROVE  /\ m + BucketHeader + size <= MemorySize
             /\ \A e \in chains : \A i \in 1 .. Len(e) :
                    \/ m + BucketHeader + size <= e[i].data - BucketHeader
                    \/ e[i].end <= m
  <2>1. /\ m + n <= MemorySize
        /\ \A r \in used : m + n <= r[1] \/ r[2] <= m
    BY <1>5, <1>7, <1>9
  <2>2. m + n = m + BucketHeader + size
    BY <1>1, <1>8 DEF n
  <2>3. ASSUME NEW e \in chains, NEW i \in 1 .. Len(e)
        PROVE  m + n <= e[i].data - BucketHeader \/ e[i].end <= m
    <3>1. PICK r : r = <<e[i].data - BucketHeader, e[i].end>>
      OBVIOUS
    <3>2. r \in used /\ r[1] = e[i].data - BucketHeader /\ r[2] = e[i].end
      BY <1>2, <3>1
    <3> QED
      BY <2>1, <3>2
  <2> QED
    BY <2>1, <2>2, <2>3
<1> QED
  BY <1>8, <1>9 DEF m

\* A heap with a bucket that malloc did not provide.
Bad(h) == h.chain \in Seq(BucketType) /\ MallocFailed(h)

(* A bucket for which malloc may have failed.                              *)
LEMMA BucketMade ==
    ASSUME NEW h, HeapOK(h), NEW chains, h.chain \in chains,
           \A e \in chains : e \in Seq(BucketType),
           NEW size \in Nat, UsedSize(h.chain) + size <= MaxHeapSize
    PROVE  LET n == NewBucket(h, size, Malloc(size, chains) + BucketHeader)
           IN  \/ Bad(n)
               \/ /\ HeapOK(n)
                  /\ n.header = h.header /\ UsedSize(n.chain) = UsedSize(h.chain)
                  /\ n.chain # <<>> /\ Last(n.chain).used \in Int
                  /\ Last(n.chain).end = Last(n.chain).used + size
                  /\ Kept(h.chain, n.chain)
<1>1. PICK m : m = Malloc(size, chains)
  OBVIOUS
<1>2. /\ m \in Nat
      /\ \/ m = NoMemory
         \/ /\ m + BucketHeader + size <= MemorySize
            /\ \A e \in chains : \A i \in 1 .. Len(e) :
                    \/ m + BucketHeader + size <= e[i].data - BucketHeader
                    \/ e[i].end <= m
  BY <1>1, MallocFits
<1>3. BucketHeader \in Nat \ {0} /\ MemorySize \in Nat
  BY Constants
<1>4. PICK data : data = m + BucketHeader
  OBVIOUS
<1>5. PICK n : n = NewBucket(h, size, data)
  OBVIOUS
<1>6. CASE m = NoMemory
  <2>1. data > MemorySize
    BY <1>3, <1>4, <1>6 DEF NoMemory
  <2>2. h.chain \in Seq(BucketType)
    BY DEF HeapOK, ChainOK
  <2>3. PICK b : b = [data |-> data, used |-> data, end |-> data + size,
                      start |-> UsedSize(h.chain)]
    OBVIOUS
  <2>4. b.data = data
    BY <2>3
  <2>5. n.chain = Append(h.chain, b)
    BY <1>5, <2>3 DEF NewBucket
  <2>6. Len(h.chain) + 1 \in DOMAIN n.chain /\ n.chain[Len(h.chain) + 1] = b
    BY <2>2, <2>5
  <2>7. b \in BucketType
    <3>1. UsedSize(h.chain) \in Int
      BY OffsetsGrow DEF HeapOK
    <3> QED
      BY <1>2, <1>3, <1>4, <2>3, <3>1 DEF BucketType
  <2>8. n.chain \in Seq(BucketType)
    BY <2>2, <2>5, <2>7
  <2>9. Bad(n)
    BY <2>1, <2>4, <2>6, <2>8 DEF Bad, MallocFailed
  <2> QED
    BY <1>1, <1>4, <1>5, <2>9
<1>7. CASE m # NoMemory
  <2>1. data \in Int /\ BucketHeader <= data /\ data + size <= MemorySize
    BY <1>2, <1>3, <1>4, <1>7
  <2>2. \A i \in 1 .. Len(h.chain) : \/ h.chain[i].end <= data - BucketHeader
                                     \/ data + size <= h.chain[i].data - BucketHeader
    <3>1. data - BucketHeader = m /\ data + size = m + BucketHeader + size
      BY <1>2, <1>3, <1>4
    <3> QED
      BY <1>2, <1>7, <3>1
  <2>3. LET p == NewBucket(h, size, data)
        IN  /\ HeapOK(p)
            /\ p.header = h.header /\ UsedSize(p.chain) = UsedSize(h.chain)
            /\ p.chain # <<>> /\ Last(p.chain).used = data /\ Last(p.chain).end = data + size
            /\ Kept(h.chain, p.chain)
    BY ONLY <2>1, <2>2, HeapOK(h), size \in Nat, UsedSize(h.chain) + size <= MaxHeapSize,
            BucketAdded
  <2> QED
    BY <1>1, <1>4, <1>5, <2>1, <2>3
<1> QED
  BY <1>6, <1>7

(* A heap with a bucket that malloc did not provide keeps that bucket.     *)
LEMMA BadBucketAdded ==
    ASSUME NEW h, Bad(h), NEW size \in Int, NEW data \in Int
    PROVE  Bad(NewBucket(h, size, data))
<1>1. PICK c : c = h.chain
  OBVIOUS
<1>2. c \in Seq(BucketType) /\ c # <<>> /\ \E i \in DOMAIN c : c[i].data > MemorySize
  BY <1>1 DEF Bad, MallocFailed
<1>3. PICK s : s = UsedSize(c)
  OBVIOUS
<1>4. s \in Int
  <2>1. Last(c) \in BucketType
    BY <1>2 DEF Last
  <2> QED
    BY <1>2, <1>3, <2>1, BucketFields DEF UsedSize, OffsetEnd
<1>5. PICK b : b = [data |-> data, used |-> data, end |-> data + size, start |-> s]
  OBVIOUS
<1>6. b \in BucketType
  BY <1>4, <1>5 DEF BucketType
<1>7. PICK d : d = Append(c, b)
  OBVIOUS
<1>8. d \in Seq(BucketType) /\ \A i \in DOMAIN c : i \in DOMAIN d /\ d[i] = c[i]
  BY <1>2, <1>6, <1>7
<1>9. \E i \in DOMAIN d : d[i].data > MemorySize
  BY <1>2, <1>8
<1>10. NewBucket(h, size, data).chain = d
  BY <1>1, <1>3, <1>5, <1>7 DEF NewBucket
<1> QED
  BY <1>8, <1>9, <1>10 DEF Bad, MallocFailed

LEMMA BadBumped ==
    ASSUME NEW h, Bad(h), NEW size \in Nat \ {0}
    PROVE  Bad(Bump(h, size))
<1>1. PICK c : c = h.chain
  OBVIOUS
<1>2. /\ c \in Seq(BucketType) /\ c # <<>> /\ Len(c) \in 1 .. Len(c)
      /\ \E i \in DOMAIN c : c[i].data > MemorySize
  BY <1>1 DEF Bad, MallocFailed
<1>3. PICK w : w = Words(size)
  OBVIOUS
<1>4. w \in Nat
  BY <1>3, WordsAreEven
<1>5. PICK b \in BucketType : b = c[Len(c)]
  BY <1>2
<1>6. PICK e : e = [b EXCEPT !.used = @ + w]
  OBVIOUS
<1>7. e \in BucketType /\ e.data = b.data
  BY <1>4, <1>6 DEF BucketType
<1>8. PICK d : d = [c EXCEPT ![Len(c)] = e]
  OBVIOUS
<1>9. d \in Seq(BucketType) /\ \A i \in DOMAIN c : i \in DOMAIN d /\ d[i].data = c[i].data
  BY <1>2, <1>5, <1>7, <1>8
<1>10. \E i \in DOMAIN d : d[i].data > MemorySize
  BY <1>2, <1>9
<1>11. Bump(h, size).chain = d
  BY <1>1, <1>3, <1>5, <1>6, <1>8 DEF Bump
<1> QED
  BY <1>9, <1>10, <1>11 DEF Bad, MallocFailed

LEMMA ChoppedFits ==
    ASSUME NEW used \in 0 .. MaxHeapSize, NEW size \in Nat
    PROVE  /\ Chopped(used, size) \in Nat /\ used + Chopped(used, size) <= MaxHeapSize
           /\ \A least \in Nat : least <= size /\ used + least <= MaxHeapSize
                                    => least <= Chopped(used, size)
BY Constants DEF Chopped

LEMMA UsedSizeFits ==
    ASSUME NEW c, ChainOK(c)
    PROVE  UsedSize(c) \in 0 .. MaxHeapSize
<1>1. UsedSize(c) \in Nat
  BY OffsetsGrow
<1>2. CASE c = <<>>
  BY <1>2, Constants DEF UsedSize
<1>3. CASE c # <<>>
  <2>1. Len(c) \in 1 .. Len(c)
    BY <1>3 DEF ChainOK
  <2>2. UsedSize(c) = OffsetEnd(c[Len(c)])
    BY <1>3 DEF UsedSize, Last
  <2> QED
    BY <1>1, <2>1, <2>2, ChainFields, Constants
<1> QED
  BY <1>2, <1>3

LEMMA Addresses ==
    ASSUME NEW h, HeapOK(h)
    PROVE  \A a \in DOMAIN h.header : a \in 1 .. MemorySize /\ a # NoObject
<1> SUFFICES ASSUME NEW a \in DOMAIN h.header
             PROVE  a \in 1 .. MemorySize
  BY DEF NoObject
<1>1. a \in Int /\ ChainOK(h.chain)
  BY DEF HeapOK
<1>2. PICK i \in 1 .. Len(h.chain) : Within(h.chain[i], a)
  BY DEF HeapOK
<1>3. /\ h.chain[i].data \in Int /\ h.chain[i].used \in Int /\ h.chain[i].end \in Int
      /\ BucketHeader <= h.chain[i].data
      /\ h.chain[i].used <= h.chain[i].end /\ h.chain[i].end <= MemorySize
  BY <1>1, ChainFields
<1>4. h.chain[i].data < a /\ a < h.chain[i].used
  BY <1>2 DEF Within
<1> QED
  BY <1>1, <1>3, <1>4, Constants

-----------------------------------------------------------------------------
(* A collection, after n handles.                                          *)

CollectOK(h, c, n) ==
    /\ HeapOK(c.to)
    /\ DOMAIN c.moved \in SUBSET (DOMAIN h.header)
    /\ \A a \in DOMAIN c.moved : /\ c.moved[a] \in DOMAIN c.to.header
                                 /\ \E x \in Handle : holds[x] = a
    /\ \A a \in DOMAIN c.to.header : \E b \in DOMAIN c.moved : c.moved[b] = a
    /\ UsedSize(c.to.chain) = SizeOf(h.header, DOMAIN c.moved)
    /\ \A i \in 1 .. n : value[Listed[i]] # Undefined
                            => Decode(h, value[Listed[i]]) \in DOMAIN c.moved

(* The bucket for what is moved, with a heap `to` that is sound so far.    *)
LEMMA NextBucket ==
    ASSUME NEW h, HeapOK(h), NEW to, HeapOK(to), NEW wanted \in Nat, NEW least \in Nat,
           UsedSize(to.chain) + least <= MaxHeapSize
    PROVE  LET n == ToNewBucket(h, to, wanted, least)
           IN  \/ Bad(n)
               \/ /\ HeapOK(n)
                  /\ n.header = to.header /\ UsedSize(n.chain) = UsedSize(to.chain)
                  /\ n.chain # <<>> /\ Last(n.chain).used + least <= Last(n.chain).end
<1>1. PICK size : size = Chopped(UsedSize(to.chain), Max({wanted, least}))
  OBVIOUS
<1>2. UsedSize(to.chain) \in 0 .. MaxHeapSize
  BY UsedSizeFits DEF HeapOK
<1>3. Max({wanted, least}) \in Nat /\ least <= Max({wanted, least})
  BY MaxOfTwo
<1>4. size \in Nat /\ UsedSize(to.chain) + size <= MaxHeapSize /\ least <= size
  BY <1>1, <1>2, <1>3, ChoppedFits
<1>5. PICK chains : chains = {h.chain, to.chain}
  OBVIOUS
<1>6. to.chain \in chains /\ \A e \in chains : e \in Seq(BucketType)
  BY <1>5 DEF HeapOK, ChainOK
<1>7. LET n == NewBucket(to, size, Malloc(size, chains) + BucketHeader)
      IN  \/ Bad(n)
          \/ /\ HeapOK(n)
             /\ n.header = to.header /\ UsedSize(n.chain) = UsedSize(to.chain)
             /\ n.chain # <<>> /\ Last(n.chain).used \in Int
             /\ Last(n.chain).end = Last(n.chain).used + size
             /\ Kept(to.chain, n.chain)
  BY <1>4, <1>6, BucketMade
<1>8. PICK n : n = NewBucket(to, size, Malloc(size, chains) + BucketHeader)
  OBVIOUS
<1>9. ToNewBucket(h, to, wanted, least) = n
  BY <1>1, <1>5, <1>8 DEF ToNewBucket
<1>10. CASE Bad(n)
  BY <1>9, <1>10
<1>11. CASE ~Bad(n)
  <2>1. /\ HeapOK(n)
        /\ n.header = to.header /\ UsedSize(n.chain) = UsedSize(to.chain)
        /\ n.chain # <<>> /\ Last(n.chain).used \in Int
        /\ Last(n.chain).end = Last(n.chain).used + size
    BY <1>7, <1>8, <1>11
  <2>2. Last(n.chain).used + least <= Last(n.chain).end
    BY <1>4, <2>1
  <2> QED
    BY <1>9, <2>1, <2>2
<1> QED
  BY <1>10, <1>11

LEMMA BadNextBucket ==
    ASSUME NEW h, HeapOK(h), NEW to, Bad(to), NEW wanted \in Nat, NEW least \in Nat
    PROVE  Bad(ToNewBucket(h, to, wanted, least))
<1>1. PICK size : size = Chopped(UsedSize(to.chain), Max({wanted, least}))
  OBVIOUS
<1>2. UsedSize(to.chain) \in Int
  <2>1. PICK c : c = to.chain
    OBVIOUS
  <2>2. c \in Seq(BucketType) /\ (c # <<>> => Last(c) \in BucketType)
    BY <2>1 DEF Bad, Last
  <2> QED
    BY <2>1, <2>2, BucketFields DEF UsedSize, OffsetEnd
<1>3. Max({wanted, least}) \in Nat
  BY MaxOfTwo
<1>4. size \in Int
  BY <1>1, <1>2, <1>3, Constants DEF Chopped
<1>5. \A e \in {h.chain, to.chain} : e \in Seq(BucketType)
  BY DEF HeapOK, ChainOK, Bad
<1>6. Malloc(size, {h.chain, to.chain}) \in Nat
  BY <1>4, <1>5, MallocFits
<1>7. Malloc(size, {h.chain, to.chain}) + BucketHeader \in Int
  BY <1>6, Constants
<1> QED
  BY <1>1, <1>4, <1>7, BadBucketAdded DEF ToNewBucket

LEMMA MoveBad ==
    ASSUME NEW h, HeapOK(h), NEW to, Bad(to), NEW moved, NEW a \in DOMAIN h.header
    PROVE  Bad(MoveObject(h, to, moved, a).to)
<1>1. PICK size : size = h.header[a]
  OBVIOUS
<1>2. size \in Nat \ {0} /\ Words(size) \in Nat
  BY <1>1, Constants, WordsAreEven DEF HeapOK
<1>3. PICK space : space = IF HasSpace(to, size) THEN to
                           ELSE ToNewBucket(h, to, BucketSize, Words(size))
  OBVIOUS
<1>4. Bad(space)
  BY <1>2, <1>3, BadNextBucket, Constants
<1>5. MoveObject(h, to, moved, a).to = Bump(space, size)
  BY <1>1, <1>3 DEF MoveObject
<1> QED
  BY <1>2, <1>4, <1>5, BadBumped

LEMMA MoveGood ==
    ASSUME NEW h, HeapOK(h), NEW n, NEW c, CollectOK(h, c, n), NEW a \in DOMAIN h.header,
           a \notin DOMAIN c.moved, \E x \in Handle : holds[x] = a
    PROVE  LET d == MoveObject(h, c.to, c.moved, a)
           IN  Bad(d.to) \/ (CollectOK(h, d, n) /\ a \in DOMAIN d.moved)
<1>1. PICK size : size = h.header[a]
  OBVIOUS
<1>2. size \in Sizes /\ size \in Nat \ {0} /\ Words(size) \in Nat
  BY <1>1, Constants, WordsAreEven DEF HeapOK
<1>3. PICK M : M = DOMAIN c.moved
  OBVIOUS
<1>4. PICK to : to = c.to
  OBVIOUS
<1>5. HeapOK(to) /\ UsedSize(to.chain) = SizeOf(h.header, M)
  BY <1>3, <1>4 DEF CollectOK
<1>6. SizeOf(h.header, M \cup {a}) = UsedSize(to.chain) + Words(size)
      /\ UsedSize(to.chain) + Words(size) <= MaxHeapSize
  <2>1. PICK R : R = DOMAIN h.header
    OBVIOUS
  <2>2. IsFiniteSet(R) /\ M \in SUBSET R /\ a \in R /\ a \notin M /\ M \cup {a} \in SUBSET R
    BY <1>3, <2>1 DEF HeapOK, CollectOK
  <2>3. \A b \in R : Words(h.header[b]) \in Nat
    BY <2>1, Constants, WordsAreEven DEF HeapOK
  <2>4. IsFiniteSet(M)
    BY <2>2, FS_Subset
  <2>5. \A b \in M \cup {a} : Words(h.header[b]) \in Nat
    BY <2>2, <2>3
  <2>6. SizeOf(h.header, M \cup {a}) = SizeOf(h.header, M) + Words(h.header[a])
    BY ONLY <2>2, <2>4, <2>5, SizeOfMore
  <2>7. SizeOf(h.header, M \cup {a}) <= SizeOf(h.header, R)
    BY ONLY <2>2, <2>3, SizeOfPart
  <2>8. SizeOf(h.header, R) = UsedSize(h.chain) /\ UsedSize(h.chain) \in 0 .. MaxHeapSize
    BY <2>1, UsedSizeFits DEF HeapOK
  <2>9. UsedSize(to.chain) \in 0 .. MaxHeapSize
    BY <1>5, UsedSizeFits DEF HeapOK
  <2> QED
    BY <1>1, <1>2, <1>5, <2>6, <2>7, <2>8, <2>9, Constants
<1>7. PICK space : space = IF HasSpace(to, size) THEN to
                           ELSE ToNewBucket(h, to, BucketSize, Words(size))
  OBVIOUS
<1>8. PICK e : e = Bump(space, size)
  OBVIOUS
<1>9. PICK f : f = Put(c.moved, a, Top(space))
  OBVIOUS
<1>10. PICK d : d = [to |-> e, moved |-> f]
  OBVIOUS
<1>11. MoveObject(h, c.to, c.moved, a) = d /\ d.to = e /\ d.moved = f
  BY <1>1, <1>4, <1>7, <1>8, <1>9, <1>10 DEF MoveObject
<1>12. \/ Bad(space)
       \/ /\ HeapOK(space) /\ HasSpace(space, size)
          /\ space.header = to.header /\ UsedSize(space.chain) = UsedSize(to.chain)
  <2>1. CASE HasSpace(to, size)
    BY <1>5, <1>7, <2>1
  <2>2. CASE ~HasSpace(to, size)
    <3>1. space = ToNewBucket(h, to, BucketSize, Words(size)) /\ BucketSize \in Nat
      BY <1>7, <2>2, Constants
    <3>2. LET p == ToNewBucket(h, to, BucketSize, Words(size))
          IN  \/ Bad(p)
              \/ /\ HeapOK(p)
                 /\ p.header = to.header /\ UsedSize(p.chain) = UsedSize(to.chain)
                 /\ p.chain # <<>> /\ Last(p.chain).used + Words(size) <= Last(p.chain).end
      BY <1>2, <1>5, <1>6, <3>1, NextBucket
    <3> QED
      BY <3>1, <3>2 DEF HasSpace
  <2> QED
    BY <2>1, <2>2
<1>13. CASE Bad(space)
  <2>1. Bad(e)
    BY <1>2, <1>8, <1>13, BadBumped
  <2> QED
    BY <1>11, <2>1
<1>14. CASE ~Bad(space)
  <2>1. PICK t : t = Top(space)
    OBVIOUS
  <2>2. HeapOK(space) /\ HasSpace(space, size) /\ space.header = to.header
        /\ UsedSize(space.chain) = UsedSize(to.chain)
    BY <1>12, <1>14
  <2>3. /\ HeapOK(e) /\ t \notin DOMAIN to.header
        /\ e.header = Put(to.header, t, size)
        /\ UsedSize(e.chain) = UsedSize(to.chain) + Words(size)
    BY <1>2, <1>8, <2>1, <2>2, BumpOK
  <2>4. DOMAIN e.header = DOMAIN to.header \cup {t}
    <3>1. DOMAIN Put(to.header, t, size) = DOMAIN to.header \cup {t}
      BY DEF Put
    <3>2. e.header = Put(to.header, t, size)
      BY <2>3
    <3> QED
      BY ONLY <3>1, <3>2
  <2>5. /\ DOMAIN f = M \cup {a} /\ f[a] = t
        /\ \A b \in M : f[b] = c.moved[b]
    <3>1. a \notin M
      BY <1>3
    <3> QED
      BY ONLY <1>3, <1>9, <2>1, <3>1 DEF Put
  <2>6. DOMAIN f \in SUBSET (DOMAIN h.header)
    BY <1>3, <2>5 DEF CollectOK
  <2>7. \A b \in DOMAIN f : f[b] \in DOMAIN e.header /\ \E x \in Handle : holds[x] = b
    BY <1>3, <1>4, <2>4, <2>5 DEF CollectOK
  <2>8. \A b \in DOMAIN e.header : \E p \in DOMAIN f : f[p] = b
    <3> SUFFICES ASSUME NEW b \in DOMAIN e.header PROVE \E p \in DOMAIN f : f[p] = b
      OBVIOUS
    <3>1. CASE b = t
      BY <2>5, <3>1
    <3>2. CASE b # t
      <4>1. b \in DOMAIN to.header
        BY <2>4, <3>2
      <4>2. PICK p \in M : c.moved[p] = b
        BY <1>3, <1>4, <4>1 DEF CollectOK
      <4> QED
        BY <2>5, <4>2
    <3> QED
      BY <3>1, <3>2
  <2>9. UsedSize(e.chain) = SizeOf(h.header, DOMAIN f)
    BY <1>6, <2>3, <2>5
  <2>10. \A i \in 1 .. n : value[Listed[i]] # Undefined
                             => Decode(h, value[Listed[i]]) \in DOMAIN f
    BY <1>3, <2>5 DEF CollectOK
  <2>11. CollectOK(h, d, n)
    BY <1>11, <2>3, <2>6, <2>7, <2>8, <2>9, <2>10 DEF CollectOK
  <2> QED
    BY <1>11, <2>5, <2>11
<1> QED
  BY <1>13, <1>14

\* The handles S lead to their objects in the heap h, with values v and objects o.
Holding(h, v, o, S) ==
    /\ v \in [Handle -> 0 .. MaxHeapSize \cup {Undefined}]
    /\ o \in [Handle -> 0 .. MemorySize]
    /\ \A x \in Handle :
          IF v[x] = Undefined THEN o[x] = NoObject
          ELSE x \in S /\ o[x] \in DOMAIN h.header /\ Points(h.chain, v[x], o[x])

LEMMA HeldDecodes ==
    ASSUME NEW h, HeapOK(h), NEW v, NEW o, NEW S, Holding(h, v, o, S),
           NEW x \in Handle, v[x] # Undefined
    PROVE  /\ Decode(h, v[x]) = o[x] /\ o[x] \in DOMAIN h.header /\ x \in S
           /\ v[x] % 2 = 0 /\ v[x] < UsedSize(h.chain)
<1>1. x \in S /\ o[x] \in DOMAIN h.header /\ Points(h.chain, v[x], o[x])
  BY DEF Holding
<1>2. o[x] \in Int /\ ChainOK(h.chain)
  BY <1>1 DEF HeapOK
<1> QED
  BY <1>1, <1>2, Decoded

LEMMA Visited ==
    ASSUME NEW h, HeapOK(h), NEW S, Holding(h, value, holds, S), NEW x \in Handle,
           NEW n, NEW c, Bad(c.to) \/ CollectOK(h, c, n)
    PROVE  LET d == Visit(h, c, x)
           IN  \/ Bad(d.to)
               \/ /\ CollectOK(h, d, n)
                  /\ value[x] # Undefined => Decode(h, value[x]) \in DOMAIN d.moved
<1>1. PICK a : a = Decode(h, value[x])
  OBVIOUS
<1>2. CASE value[x] = Undefined \/ a \in DOMAIN c.moved
  <2>1. Visit(h, c, x) = c
    BY <1>1, <1>2 DEF Visit
  <2> QED
    BY <1>1, <1>2, <2>1
<1>3. CASE ~(value[x] = Undefined \/ a \in DOMAIN c.moved)
  <2>1. Visit(h, c, x) = MoveObject(h, c.to, c.moved, a)
    BY <1>1, <1>3 DEF Visit
  <2>2. a = holds[x] /\ a \in DOMAIN h.header
    BY <1>1, <1>3, HeldDecodes
  <2>3. CASE Bad(c.to)
    BY <2>1, <2>2, <2>3, MoveBad
  <2>4. CASE ~Bad(c.to)
    <3>1. CollectOK(h, c, n) /\ \E y \in Handle : holds[y] = a
      BY <2>2, <2>4
    <3>2. LET d == MoveObject(h, c.to, c.moved, a)
          IN  Bad(d.to) \/ (CollectOK(h, d, n) /\ a \in DOMAIN d.moved)
      BY <1>3, <2>2, <3>1, MoveGood
    <3> QED
      BY <1>1, <2>1, <3>2
  <2> QED
    BY <2>3, <2>4
<1> QED
  BY <1>2, <1>3

LEMMA CollectionStarts ==
    ASSUME NEW h, HeapOK(h), NEW wanted \in Nat,
           NEW c, c = [to |-> ToNewBucket(h, EmptyHeap, wanted, 0), moved |-> <<>>]
    PROVE  Bad(c.to) \/ CollectOK(h, c, 0)
<1>1. PICK n : n = ToNewBucket(h, EmptyHeap, wanted, 0)
  OBVIOUS
<1>2. c.to = n /\ DOMAIN c.moved = {}
  BY <1>1
<1>3. HeapOK(EmptyHeap) /\ UsedSize(EmptyHeap.chain) = 0 /\ DOMAIN EmptyHeap.header = {}
  BY EmptyHeapOK DEF EmptyHeap
<1>4. UsedSize(EmptyHeap.chain) + 0 <= MaxHeapSize /\ 0 \in Nat
  BY <1>3, Constants
<1>5. LET p == ToNewBucket(h, EmptyHeap, wanted, 0)
      IN  \/ Bad(p)
          \/ /\ HeapOK(p)
             /\ p.header = EmptyHeap.header /\ UsedSize(p.chain) = UsedSize(EmptyHeap.chain)
             /\ p.chain # <<>> /\ Last(p.chain).used + 0 <= Last(p.chain).end
  BY ONLY HeapOK(h), wanted \in Nat, <1>3, <1>4, NextBucket
<1>6. SizeOf(h.header, {}) = 0
  BY SizeOfNone
<1>7. CASE ~Bad(n)
  <2>1. HeapOK(n) /\ DOMAIN n.header = {} /\ UsedSize(n.chain) = 0
    BY <1>1, <1>3, <1>5, <1>7
  <2> QED
    BY <1>2, <1>6, <2>1 DEF CollectOK
<1> QED
  BY <1>2, <1>7

\* The collection after each of the first n handles of the list.
Visits(f, h, first, n) ==
    f = [k \in 0 .. n |-> IF k = 0 THEN first ELSE Visit(h, f[k - 1], Listed[k])]

LEMMA VisitsExist ==
    ASSUME NEW h, NEW first, NEW N \in Nat
    PROVE  \E f : Visits(f, h, first, N)
<1> DEFINE After(c, k) == Visit(h, c, Listed[k])
           T == {n \in 1 .. N : \E f : Visits(f, h, first, n)}
<1>1. \E f : Visits(f, h, first, 0)
  <2>1. PICK f : f = [k \in 0 .. 0 |-> first]
    OBVIOUS
  <2>2. f = [k \in 0 .. 0 |-> IF k = 0 THEN first ELSE After(f[k - 1], k)]
    <3> HIDE DEF After
    <3> QED
      BY <2>1
  <2> QED
    BY <2>2 DEF Visits
<1>2. ASSUME NEW n \in Nat, \E f : Visits(f, h, first, n)
      PROVE  \E f : Visits(f, h, first, n + 1)
  <2>1. PICK f : f = [k \in 0 .. n |-> IF k = 0 THEN first ELSE After(f[k - 1], k)]
    BY <1>2 DEF Visits
  <2> HIDE DEF After
  <2>2. \A k \in 0 .. n : f[k] = IF k = 0 THEN first ELSE After(f[k - 1], k)
    BY <2>1
  <2>3. PICK g : g = [k \in 0 .. n + 1 |-> IF k <= n THEN f[k] ELSE After(f[n], n + 1)]
    OBVIOUS
  <2>4. \A k \in 0 .. n : g[k] = f[k]
    BY <2>3
  <2>5. g[n + 1] = After(f[n], n + 1)
    BY <2>3
  <2>6. \A k \in 0 .. n + 1 : g[k] = IF k = 0 THEN first ELSE After(g[k - 1], k)
    <3> SUFFICES ASSUME NEW k \in 0 .. n + 1
                 PROVE  g[k] = IF k = 0 THEN first ELSE After(g[k - 1], k)
      OBVIOUS
    <3>1. CASE k = n + 1
      <4>1. k - 1 = n /\ n \in 0 .. n /\ k # 0
        BY <3>1
      <4> QED
        BY <2>4, <2>5, <3>1, <4>1
    <3>2. CASE k # n + 1
      <4>1. k \in 0 .. n /\ (k # 0 => k - 1 \in 0 .. n)
        BY <3>2
      <4> QED
        BY <2>2, <2>4, <4>1
    <3> QED
      BY <3>1, <3>2
  <2>7. g = [k \in 0 .. n + 1 |-> g[k]]
    BY <2>3
  <2>8. g = [k \in 0 .. n + 1 |-> IF k = 0 THEN first ELSE After(g[k - 1], k)]
    BY <2>6, <2>7
  <2> QED
    BY <2>8 DEF Visits, After
<1> HIDE DEF After
<1>3. N > 0 => 1 \in T
  <2>1. \E f : Visits(f, h, first, 0 + 1)
    BY <1>1, <1>2
  <2> QED
    BY <2>1
<1>4. ASSUME NEW n \in 1 .. N - 1, n \in T PROVE n + 1 \in T
  BY <1>2, <1>4
<1>5. T = 1 .. N
  <2>1. T \in SUBSET (1 .. N)
    OBVIOUS
  <2> HIDE DEF T
  <2> QED
    BY <1>3, <1>4, <2>1, IntervalInduction
<1>6. N # 0 => N \in T
  BY <1>5
<1> QED
  BY <1>1, <1>6

(* The induction over the visits: all objects of listed handles are moved. *)
LEMMA CollectedOK ==
    ASSUME NEW l, Linked(l), NEW h, HeapOK(h), NEW S, Holding(h, value, holds, S),
           NEW estimate \in 0 .. MaxHeapSize
    PROVE  LET c == Collected(h, estimate)
           IN  Bad(c.to) \/ CollectOK(h, c, Len(l))
<1>1. Listed = l /\ Len(l) \in Nat /\ \A i \in 1 .. Len(l) : l[i] \in Handle
  BY ListedIs DEF Linked
<1>2. PICK N \in Nat : N = Len(l)
  BY <1>1
<1>3. PICK wanted : wanted = IF estimate = 0 THEN EmptyEstimate ELSE estimate
  OBVIOUS
<1>4. wanted \in Nat
  BY <1>3, Constants
<1>5. PICK first : first = [to |-> ToNewBucket(h, EmptyHeap, wanted, 0), moved |-> <<>>]
  OBVIOUS
<1>6. PICK g : g = CHOOSE f : Visits(f, h, first, N)
  OBVIOUS
<1>7. Collected(h, estimate) = g[N]
  BY <1>1, <1>2, <1>3, <1>5, <1>6 DEF Collected, Visits
<1>8. Visits(g, h, first, N)
  <2>1. \E f : Visits(f, h, first, N)
    BY VisitsExist
  <2> QED
    BY <1>6, <2>1
<1>9. \A k \in 0 .. N : g[k] = IF k = 0 THEN first ELSE Visit(h, g[k - 1], Listed[k])
  BY <1>8 DEF Visits
<1> DEFINE Good(k) == Bad(g[k].to) \/ CollectOK(h, g[k], k)
           T == {k \in 1 .. N : Good(k)}
<1>10. Good(0)
  <2>1. Bad(first.to) \/ CollectOK(h, first, 0)
    BY <1>4, <1>5, CollectionStarts
  <2>2. g[0] = first
    BY <1>9
  <2> QED
    BY <2>1, <2>2
<1>11. ASSUME NEW k \in 0 .. N - 1, Good(k) PROVE Good(k + 1)
  <2>1. k + 1 \in 1 .. Len(l) /\ k + 1 \in 0 .. N /\ k + 1 # 0 /\ (k + 1) - 1 = k
    BY <1>2
  <2>2. PICK x \in Handle : x = Listed[k + 1]
    BY <1>1, <2>1
  <2>3. g[k + 1] = Visit(h, g[k], x)
    BY <1>9, <2>1, <2>2
  <2>4. LET d == Visit(h, g[k], x)
        IN  \/ Bad(d.to)
            \/ /\ CollectOK(h, d, k)
               /\ value[x] # Undefined => Decode(h, value[x]) \in DOMAIN d.moved
    BY <1>11, Visited
  <2>5. CASE ~Bad(g[k + 1].to)
    <3>1. /\ CollectOK(h, g[k + 1], k)
          /\ value[x] # Undefined => Decode(h, value[x]) \in DOMAIN g[k + 1].moved
      BY <2>3, <2>4, <2>5
    <3>2. \A i \in 1 .. k + 1 : i \in 1 .. k \/ i = k + 1
      OBVIOUS
    <3>3. \A i \in 1 .. k + 1 : value[Listed[i]] # Undefined
                                   => Decode(h, value[Listed[i]]) \in DOMAIN g[k + 1].moved
      BY <2>2, <3>1, <3>2 DEF CollectOK
    <3> QED
      BY <3>1, <3>3 DEF CollectOK
  <2> QED
    BY <2>5
<1>12. N > 0 => 1 \in T
  <2> SUFFICES ASSUME N > 0 PROVE 1 \in T
    OBVIOUS
  <2>1. 0 \in 0 .. N - 1
    OBVIOUS
  <2> HIDE DEF Good
  <2>2. Good(0 + 1)
    BY <1>10, <1>11, <2>1
  <2> QED
    BY <2>2
<1>13. ASSUME NEW k \in 1 .. N - 1, k \in T PROVE k + 1 \in T
  <2>1. k \in 0 .. N - 1 /\ k + 1 \in 1 .. N
    OBVIOUS
  <2> HIDE DEF Good
  <2> QED
    BY <1>11, <1>13, <2>1
<1>14. T = 1 .. N
  <2>1. T \in SUBSET (1 .. N)
    OBVIOUS
  <2> HIDE DEF T
  <2> QED
    BY <1>12, <1>13, <2>1, IntervalInduction
<1> HIDE DEF Good
<1>15. Good(N)
  <2>1. N # 0 => N \in T
    BY <1>14
  <2> QED
    BY <1>10, <2>1
<1> QED
  BY <1>2, <1>7, <1>15 DEF Good

-----------------------------------------------------------------------------
(* Allocation, for a handle of S.                                          *)

LEMMA AllocatedOK ==
    ASSUME NEW h, HeapOK(h), NEW size \in Sizes, HasSpace(h, size),
           NEW v, NEW o, NEW S, Holding(h, v, o, S), NEW x \in Handle, x \in S,
           NEW n, n = Bump(h, size)
    PROVE  /\ HeapOK(n)
           /\ Holding(n, [v EXCEPT ![x] = Encode(n, Top(h))], [o EXCEPT ![x] = Top(h)], S)
<1>1. PICK t : t = Top(h)
  OBVIOUS
<1>2. /\ HeapOK(n) /\ t \in Int /\ t \notin DOMAIN h.header
      /\ n.header = Put(h.header, t, size)
      /\ Kept(h.chain, n.chain)
  BY <1>1, BumpOK
<1>3. PICK k \in 1 .. Len(n.chain) : Within(n.chain[k], t)
  BY <1>1, BumpOK
<1>4. ChainOK(n.chain) /\ ChainOK(h.chain)
  BY <1>2 DEF HeapOK
<1>5. PICK p : p = Encode(n, t)
  OBVIOUS
<1>6. Points(n.chain, p, t)
  BY <1>2, <1>3, <1>4, <1>5, Encoded
<1>7. p \in Nat /\ p < UsedSize(n.chain)
  BY <1>2, <1>4, <1>6, Decoded
<1>8. p \in 0 .. MaxHeapSize /\ p # Undefined
  <2>1. UsedSize(n.chain) \in 0 .. MaxHeapSize
    BY <1>4, UsedSizeFits
  <2> QED
    BY <1>7, <2>1, Constants
<1>9. DOMAIN n.header = DOMAIN h.header \cup {t}
  <2>1. DOMAIN Put(h.header, t, size) = DOMAIN h.header \cup {t}
    BY Added
  <2> QED
    BY <1>2, <2>1
<1>10. t \in 0 .. MemorySize
  BY <1>2, <1>9, Addresses
<1>11. PICK w : w = [v EXCEPT ![x] = p]
  OBVIOUS
<1>12. PICK q : q = [o EXCEPT ![x] = t]
  OBVIOUS
<1>13. /\ w \in [Handle -> 0 .. MaxHeapSize \cup {Undefined}] /\ w[x] = p
       /\ \A y \in Handle : y # x => w[y] = v[y]
  BY <1>8, <1>11 DEF Holding
<1>14. /\ q \in [Handle -> 0 .. MemorySize] /\ q[x] = t
       /\ \A y \in Handle : y # x => q[y] = o[y]
  BY <1>10, <1>12 DEF Holding
<1>15. ASSUME NEW y \in Handle
       PROVE  IF w[y] = Undefined THEN q[y] = NoObject
              ELSE y \in S /\ q[y] \in DOMAIN n.header /\ Points(n.chain, w[y], q[y])
  <2>1. CASE y = x
    BY <1>6, <1>8, <1>9, <1>13, <1>14, <2>1
  <2>2. CASE y # x
    <3>1. w[y] = v[y] /\ q[y] = o[y]
      BY <1>13, <1>14, <2>2
    <3>2. IF v[y] = Undefined THEN o[y] = NoObject
          ELSE y \in S /\ o[y] \in DOMAIN h.header /\ Points(h.chain, v[y], o[y])
      BY DEF Holding
    <3>3. o[y] \in Int
      BY DEF Holding
    <3> QED
      BY <1>2, <1>9, <3>1, <3>2, <3>3 DEF Kept
  <2> QED
    BY <2>1, <2>2
<1>16. Holding(n, w, q, S)
  BY <1>13, <1>14, <1>15 DEF Holding
<1> QED
  BY <1>1, <1>2, <1>5, <1>11, <1>12, <1>16

(* The bucket that gc_createNextBucket adds has room for the allocation.   *)
LEMMA ExtendedOK ==
    ASSUME NEW before, NEW h, HeapOK(h), NEW least \in Nat,
           UsedSize(h.chain) + least <= MaxHeapSize,
           NEW v, NEW o, NEW S, Holding(h, v, o, S)
    PROVE  LET n == Extended(before, h, least)
           IN  \/ MallocFailed(n)
               \/ /\ HeapOK(n) /\ Holding(n, v, o, S)
                  /\ n.chain # <<>> /\ Last(n.chain).used + least <= Last(n.chain).end
<1>1. PICK size : size = Chopped(UsedSize(h.chain), Max({BucketSize, least}))
  OBVIOUS
<1>2. UsedSize(h.chain) \in 0 .. MaxHeapSize
  BY UsedSizeFits DEF HeapOK
<1>3. Max({BucketSize, least}) \in Nat /\ least <= Max({BucketSize, least})
  BY MaxOfTwo, Constants
<1>4. size \in Nat /\ UsedSize(h.chain) + size <= MaxHeapSize /\ least <= size
  BY <1>1, <1>2, <1>3, ChoppedFits
<1>5. PICK chains : chains = {h.chain}
  OBVIOUS
<1>6. h.chain \in chains /\ \A e \in chains : e \in Seq(BucketType)
  BY <1>5 DEF HeapOK, ChainOK
<1>7. LET n == NewBucket(h, size, Malloc(size, chains) + BucketHeader)
      IN  \/ Bad(n)
          \/ /\ HeapOK(n)
             /\ n.header = h.header /\ UsedSize(n.chain) = UsedSize(h.chain)
             /\ n.chain # <<>> /\ Last(n.chain).used \in Int
             /\ Last(n.chain).end = Last(n.chain).used + size
             /\ Kept(h.chain, n.chain)
  BY <1>4, <1>6, BucketMade
<1>8. PICK n : n = NewBucket(h, size, Malloc(size, chains) + BucketHeader)
  OBVIOUS
<1>9. Extended(before, h, least) = n
  BY <1>1, <1>5, <1>8 DEF Extended, HeapSizeRead
<1>10. CASE Bad(n)
  BY <1>9, <1>10 DEF Bad
<1>11. CASE ~Bad(n)
  <2>1. /\ HeapOK(n) /\ n.header = h.header
        /\ n.chain # <<>> /\ Last(n.chain).used \in Int
        /\ Last(n.chain).end = Last(n.chain).used + size
        /\ Kept(h.chain, n.chain)
    BY <1>7, <1>8, <1>11
  <2>2. Last(n.chain).used + least <= Last(n.chain).end
    BY <1>4, <2>1
  <2>3. \A x \in Handle : o[x] \in Int
    BY DEF Holding
  <2>4. Holding(n, v, o, S)
    BY <2>1, <2>3 DEF Holding, Kept
  <2> QED
    BY <1>9, <2>1, <2>2, <2>4
<1> QED
  BY <1>10, <1>11

(* After a collection the handles hold the same objects, and nothing else  *)
(* is in the heap.                                                         *)
LEMMA HoldingCollected ==
    ASSUME NEW l, Linked(l), NEW S, S = {l[i] : i \in 1 .. Len(l)},
           HeapOK(heap), Holding(heap, value, holds, S),
           NEW c, CollectOK(heap, c, Len(l))
    PROVE  /\ Holding(c.to, Forwarded(c), Followed(c), S)
           /\ {Followed(c)[x] : x \in Handle} \ {NoObject} = DOMAIN c.to.header
<1>1. Listed = l /\ Initialized = S
  BY InitializedIs
<1>2. PICK M : M = DOMAIN c.moved
  OBVIOUS
<1>3. PICK w : w = Forwarded(c)
  OBVIOUS
<1>4. PICK q : q = Followed(c)
  OBVIOUS
<1>5. q = [x \in Handle |-> IF holds[x] \in M THEN c.moved[holds[x]] ELSE holds[x]]
  BY <1>2, <1>4 DEF Followed
<1>6. w = [x \in Handle |-> IF x \in S /\ value[x] # Undefined
                            THEN Encode(c.to, c.moved[Decode(heap, value[x])]) ELSE value[x]]
  BY <1>1, <1>3 DEF Forwarded
<1>7. /\ HeapOK(c.to) /\ ChainOK(c.to.chain) /\ M \in SUBSET (DOMAIN heap.header)
      /\ \A a \in M : c.moved[a] \in DOMAIN c.to.header /\ \E x \in Handle : holds[x] = a
      /\ \A a \in DOMAIN c.to.header : \E b \in M : c.moved[b] = a
  BY <1>2 DEF CollectOK, HeapOK
<1>8. NoObject \notin M
  BY <1>7, Addresses
<1>9. \A a \in DOMAIN c.to.header : a \in 0 .. MemorySize /\ a # NoObject
  BY <1>7, Addresses
<1>10. ASSUME NEW x \in Handle, value[x] = Undefined
       PROVE  w[x] = Undefined /\ q[x] = NoObject
  <2>1. holds[x] = NoObject
    BY <1>10 DEF Holding
  <2> QED
    BY <1>5, <1>6, <1>8, <1>10, <2>1
<1>11. ASSUME NEW x \in Handle, value[x] # Undefined
       PROVE  /\ x \in S /\ holds[x] \in M /\ q[x] = c.moved[holds[x]]
              /\ q[x] \in DOMAIN c.to.header /\ Points(c.to.chain, w[x], q[x])
              /\ w[x] \in 0 .. MaxHeapSize /\ w[x] # Undefined
  <2>1. x \in S /\ Decode(heap, value[x]) = holds[x]
    BY <1>11, HeldDecodes
  <2>2. PICK i \in 1 .. Len(l) : x = l[i]
    BY <2>1
  <2>3. holds[x] \in M
    BY <1>1, <1>2, <1>11, <2>1, <2>2 DEF CollectOK
  <2>4. q[x] = c.moved[holds[x]] /\ q[x] \in DOMAIN c.to.header
    BY <1>5, <1>7, <2>3
  <2>5. w[x] = Encode(c.to, q[x])
    BY <1>6, <1>11, <2>1, <2>4
  <2>6. q[x] \in Int /\ \E k \in 1 .. Len(c.to.chain) : Within(c.to.chain[k], q[x])
    BY <1>7, <2>4 DEF HeapOK
  <2>7. Points(c.to.chain, w[x], q[x])
    BY <1>7, <2>5, <2>6, Encoded
  <2>8. w[x] \in Nat /\ w[x] < UsedSize(c.to.chain)
    BY <1>7, <2>6, <2>7, Decoded
  <2>9. UsedSize(c.to.chain) \in 0 .. MaxHeapSize
    BY <1>7, UsedSizeFits
  <2> QED
    BY <2>1, <2>3, <2>4, <2>7, <2>8, <2>9, Constants
<1>12. w \in [Handle -> 0 .. MaxHeapSize \cup {Undefined}]
  <2>1. \A x \in Handle : w[x] \in 0 .. MaxHeapSize \cup {Undefined}
    BY <1>10, <1>11
  <2> QED
    BY <1>6, <2>1
<1>13. q \in [Handle -> 0 .. MemorySize]
  <2>1. \A x \in Handle : q[x] \in 0 .. MemorySize
    BY <1>9, <1>10, <1>11, Constants DEF NoObject
  <2> QED
    BY <1>5, <2>1
<1>14. Holding(c.to, w, q, S)
  BY <1>10, <1>11, <1>12, <1>13 DEF Holding
<1>15. \A x \in Handle : q[x] # NoObject => q[x] \in DOMAIN c.to.header
  BY <1>10, <1>11
<1>16. \A a \in DOMAIN c.to.header : \E x \in Handle : q[x] = a
  <2> SUFFICES ASSUME NEW a \in DOMAIN c.to.header PROVE \E x \in Handle : q[x] = a
    OBVIOUS
  <2>1. PICK b \in M : c.moved[b] = a
    BY <1>7
  <2>2. PICK x \in Handle : holds[x] = b
    BY <1>7
  <2> QED
    BY <1>5, <2>1, <2>2
<1>17. {q[x] : x \in Handle} \ {NoObject} = DOMAIN c.to.header
  BY <1>9, <1>15, <1>16
<1> QED
  BY <1>3, <1>4, <1>14, <1>17

-----------------------------------------------------------------------------
(* The inductive invariant.                                                *)

\* With error e, the objects o of the handles and the new allocation are too much.
Full(e, h, o) ==
    e[1] = "MVM_E_OUT_OF_MEMORY" =>
        SizeOf(h.header, {o[x] : x \in Handle} \ {NoObject}) + e[2] > MaxHeapSize

Sound(l, h, v, o, e) ==
    /\ HeapOK(h)
    /\ Holding(h, v, o, {l[i] : i \in 1 .. Len(l)})
    /\ Full(e, h, o)

\* l is the list, and h, v, o and e are the heap, the values, the objects and the error.
IInv ==
    /\ next \in [Handle -> Handle \cup {Nil}]
    /\ lastSize \in 0 .. MaxHeapSize
    /\ \E l : /\ Linked(l)
              /\ \E h, v, o, e : /\ h = heap /\ v = value /\ o = holds /\ e = error
                                 /\ Sound(l, h, v, o, e)

LEMMA Concluded ==
    ASSUME NEW l, Linked(l)', NEW h, NEW v, NEW o, NEW e,
           h = heap', v = value', o = holds', e = error', Sound(l, h, v, o, e),
           next' \in [Handle -> Handle \cup {Nil}], lastSize' \in 0 .. MaxHeapSize
    PROVE  IInv'
BY DEF IInv

LEMMA StateIs ==
    ASSUME IInv
    PROVE  /\ next \in [Handle -> Handle \cup {Nil}] /\ lastSize \in 0 .. MaxHeapSize
           /\ \E l : Linked(l) /\ HeapOK(heap) /\ Full(error, heap, holds)
                     /\ Holding(heap, value, holds, {l[i] : i \in 1 .. Len(l)})
BY DEF IInv, Sound

LEMMA ListUnchanged ==
    ASSUME NEW l, Linked(l), UNCHANGED <<gcHandles, next>>
    PROVE  Linked(l)'
BY DEF Linked

LEMMA InitIsSound == Init => IInv
<1> SUFFICES ASSUME Init PROVE IInv
  OBVIOUS
<1>1. Linked(<<>>)
  BY DEF Init, HandlesInit, Linked
<1>2. next \in [Handle -> Handle \cup {Nil}] /\ lastSize \in 0 .. MaxHeapSize
  BY Constants DEF Init, HandlesInit
<1>3. PICK v : v = [x \in Handle |-> Undefined]
  OBVIOUS
<1>4. PICK o : o = [x \in Handle |-> NoObject]
  OBVIOUS
<1>5. PICK S : S = {<<>>[i] : i \in 1 .. Len(<<>>)}
  OBVIOUS
<1>6. Holding(EmptyHeap, v, o, S)
  <2>1. v \in [Handle -> 0 .. MaxHeapSize \cup {Undefined}]
    BY <1>3
  <2>2. o \in [Handle -> 0 .. MemorySize]
    BY <1>4, Constants DEF NoObject
  <2>3. \A x \in Handle : v[x] = Undefined /\ o[x] = NoObject
    BY <1>3, <1>4
  <2> QED
    BY <2>1, <2>2, <2>3 DEF Holding
<1>7. Full(NoError, EmptyHeap, o)
  BY DEF Full, NoError
<1>8. Sound(<<>>, EmptyHeap, v, o, NoError)
  BY <1>5, <1>6, <1>7, EmptyHeapOK DEF Sound
<1>9. heap = EmptyHeap /\ value = v /\ holds = o /\ error = NoError
  BY <1>3, <1>4 DEF Init, HandlesInit
<1> QED
  BY <1>1, <1>2, <1>8, <1>9 DEF IInv

(* An allocation in the heap h, of the list and the handles that v and o   *)
(* describe.                                                               *)
LEMMA AllocatedStep ==
    ASSUME NEW l, Linked(l), next \in [Handle -> Handle \cup {Nil}],
           lastSize' \in 0 .. MaxHeapSize, Running,
           NEW x \in {l[i] : i \in 1 .. Len(l)}, NEW size \in Sizes,
           NEW h, NEW v, NEW o, HeapOK(h), HasSpace(h, size),
           Holding(h, v, o, {l[i] : i \in 1 .. Len(l)}),
           Allocated(x, h, size, v, o)
    PROVE  IInv'
<1>1. PICK S : S = {l[i] : i \in 1 .. Len(l)}
  OBVIOUS
<1>2. x \in Handle /\ x \in S
  BY <1>1 DEF Linked
<1>3. PICK n : n = Bump(h, size)
  OBVIOUS
<1>4. PICK w : w = [v EXCEPT ![x] = Encode(n, Top(h))]
  OBVIOUS
<1>5. PICK q : q = [o EXCEPT ![x] = Top(h)]
  OBVIOUS
<1>6. HeapOK(n) /\ Holding(n, w, q, S)
  BY <1>1, <1>2, <1>3, <1>4, <1>5, AllocatedOK
<1>7. Full(NoError, n, q)
  BY DEF Full, NoError
<1>8. Sound(l, n, w, q, NoError)
  BY <1>1, <1>6, <1>7 DEF Sound
<1>9. n = heap' /\ w = value' /\ q = holds' /\ NoError = error'
  BY <1>3, <1>4, <1>5 DEF Allocated, Running
<1>10. Linked(l)' /\ next' \in [Handle -> Handle \cup {Nil}]
  BY ListUnchanged DEF Allocated
<1> QED
  BY <1>8, <1>9, <1>10, Concluded

LEMMA FatalStep ==
    ASSUME NEW l, Linked(l), next \in [Handle -> Handle \cup {Nil}],
           lastSize' \in 0 .. MaxHeapSize,
           NEW h, NEW v, NEW o, NEW name, NEW bytes, HeapOK(h),
           Holding(h, v, o, {l[i] : i \in 1 .. Len(l)}), Full(<<name, bytes>>, h, o),
           Fatal(name, bytes, h, v, o)
    PROVE  IInv'
<1>1. Sound(l, h, v, o, <<name, bytes>>)
  BY DEF Sound
<1>2. h = heap' /\ v = value' /\ o = holds' /\ <<name, bytes>> = error'
  BY DEF Fatal
<1>3. Linked(l)' /\ next' \in [Handle -> Handle \cup {Nil}]
  BY ListUnchanged DEF Fatal
<1> QED
  BY <1>1, <1>2, <1>3, Concluded

LEMMA AllocatedInNextStep ==
    ASSUME NEW l, Linked(l), next \in [Handle -> Handle \cup {Nil}],
           lastSize' \in 0 .. MaxHeapSize, Running,
           NEW x \in {l[i] : i \in 1 .. Len(l)}, NEW size \in Sizes,
           NEW now, NEW v, NEW o, HeapOK(now),
           UsedSize(now.chain) + Words(size) <= MaxHeapSize,
           Holding(now, v, o, {l[i] : i \in 1 .. Len(l)}),
           AllocatedInNext(x, size, now, v, o)
    PROVE  IInv'
<1>1. CASE Fatal("MVM_E_MALLOC_FAIL", 0, now, v, o)
  <2>1. Full(<<"MVM_E_MALLOC_FAIL", 0>>, now, o)
    BY DEF Full
  <2> QED
    BY <1>1, <2>1, FatalStep
<1>2. CASE ~Fatal("MVM_E_MALLOC_FAIL", 0, now, v, o)
  <2>1. PICK h : h = Extended(heap, now, Words(size))
    OBVIOUS
  <2>2. ~MallocFailed(h) /\ Allocated(x, h, size, v, o)
    BY <1>2, <2>1 DEF AllocatedInNext
  <2>3. Words(size) \in Nat
    BY Constants, WordsAreEven
  <2>4. PICK b : b = heap
    OBVIOUS
  <2>5. PICK S : S = {l[i] : i \in 1 .. Len(l)}
    OBVIOUS
  <2>6. LET n == Extended(b, now, Words(size))
        IN  \/ MallocFailed(n)
            \/ /\ HeapOK(n) /\ Holding(n, v, o, S)
               /\ n.chain # <<>> /\ Last(n.chain).used + Words(size) <= Last(n.chain).end
    BY <2>3, <2>5, ExtendedOK
  <2>7. HeapOK(h) /\ Holding(h, v, o, S) /\ HasSpace(h, size)
    BY <2>1, <2>2, <2>4, <2>6 DEF HasSpace
  <2> QED
    BY <2>2, <2>5, <2>7, AllocatedStep
<1> QED
  BY <1>1, <1>2

-----------------------------------------------------------------------------
(* The actions.                                                            *)

LEMMA AllocateInPlaceStep ==
    ASSUME IInv, NEW x \in Initialized, NEW size \in Sizes, AllocateInPlace(x, size)
    PROVE  IInv'
<1>1. PICK l : /\ Linked(l) /\ HeapOK(heap)
               /\ Holding(heap, value, holds, {l[i] : i \in 1 .. Len(l)})
  BY StateIs
<1>2. next \in [Handle -> Handle \cup {Nil}] /\ lastSize' \in 0 .. MaxHeapSize
  BY StateIs DEF AllocateInPlace
<1>3. PICK h : h = heap
  OBVIOUS
<1>4. PICK v : v = value
  OBVIOUS
<1>5. PICK o : o = holds
  OBVIOUS
<1>6. x \in {l[i] : i \in 1 .. Len(l)}
  BY <1>1, InitializedIs
<1>7. HeapOK(h) /\ Holding(h, v, o, {l[i] : i \in 1 .. Len(l)})
  BY <1>1, <1>3, <1>4, <1>5
<1>8. Running /\ HasSpace(h, size) /\ Allocated(x, h, size, v, o)
  BY <1>3, <1>4, <1>5 DEF AllocateInPlace
<1> QED
  BY <1>1, <1>2, <1>6, <1>7, <1>8, AllocatedStep

LEMMA AllocateInNewBucketStep ==
    ASSUME IInv, NEW x \in Initialized, NEW size \in Sizes, AllocateInNewBucket(x, size)
    PROVE  IInv'
<1>1. PICK l : /\ Linked(l) /\ HeapOK(heap)
               /\ Holding(heap, value, holds, {l[i] : i \in 1 .. Len(l)})
  BY StateIs
<1>2. next \in [Handle -> Handle \cup {Nil}] /\ lastSize' \in 0 .. MaxHeapSize
  BY StateIs DEF AllocateInNewBucket
<1>3. PICK h : h = heap
  OBVIOUS
<1>4. PICK v : v = value
  OBVIOUS
<1>5. PICK o : o = holds
  OBVIOUS
<1>6. x \in {l[i] : i \in 1 .. Len(l)}
  BY <1>1, InitializedIs
<1>7. HeapOK(h) /\ Holding(h, v, o, {l[i] : i \in 1 .. Len(l)})
  BY <1>1, <1>3, <1>4, <1>5
<1>8. Running /\ AllocatedInNext(x, size, h, v, o)
  BY <1>3, <1>4, <1>5 DEF AllocateInNewBucket
<1>9. UsedSize(h.chain) + Words(size) <= MaxHeapSize
  <2>1. Words(size) \in Nat /\ BucketSize \in Nat /\ MaxHeapSize \in Nat
    BY Constants, WordsAreEven
  <2>2. Words(size) <= Max({BucketSize, Words(size)}) /\ Max({BucketSize, Words(size)}) \in Nat
    BY <2>1, MaxOfTwo
  <2>3. UsedSize(h.chain) \in 0 .. MaxHeapSize
    BY <1>7, UsedSizeFits DEF HeapOK
  <2>4. ~(UsedSize(h.chain) + Max({BucketSize, Words(size)}) > MaxHeapSize)
    BY <1>3 DEF AllocateInNewBucket, CollectsFirst
  <2> QED
    BY <2>1, <2>2, <2>3, <2>4
<1> QED
  BY <1>1, <1>2, <1>6, <1>7, <1>8, <1>9, AllocatedInNextStep

(* What a collection leaves behind, in constants.                          *)
LEMMA Collection ==
    ASSUME NEW l, Linked(l), HeapOK(heap), lastSize \in 0 .. MaxHeapSize,
           Holding(heap, value, holds, {l[i] : i \in 1 .. Len(l)}),
           ~MallocFailed(Collected(heap, lastSize).to)
    PROVE  LET c == Collected(heap, lastSize)
           IN  /\ HeapOK(c.to) /\ UsedSize(c.to.chain) \in 0 .. MaxHeapSize
               /\ Holding(c.to, Forwarded(c), Followed(c), {l[i] : i \in 1 .. Len(l)})
               /\ SizeOf(c.to.header, {Followed(c)[x] : x \in Handle} \ {NoObject})
                    = UsedSize(c.to.chain)
<1>1. PICK c : c = Collected(heap, lastSize)
  OBVIOUS
<1>2. PICK S : S = {l[i] : i \in 1 .. Len(l)}
  OBVIOUS
<1>3. PICK h : h = heap
  OBVIOUS
<1>4. PICK estimate \in 0 .. MaxHeapSize : estimate = lastSize
  OBVIOUS
<1>5. HeapOK(h) /\ Holding(h, value, holds, S)
  BY <1>2, <1>3
<1>6. LET d == Collected(h, estimate)
      IN  Bad(d.to) \/ CollectOK(h, d, Len(l))
  BY <1>5, CollectedOK
<1>7. CollectOK(heap, c, Len(l))
  BY <1>1, <1>3, <1>4, <1>6 DEF Bad
<1>8. HeapOK(c.to) /\ UsedSize(c.to.chain) \in 0 .. MaxHeapSize
  BY <1>7, UsedSizeFits DEF CollectOK, HeapOK
<1>9. /\ Holding(c.to, Forwarded(c), Followed(c), S)
      /\ {Followed(c)[x] : x \in Handle} \ {NoObject} = DOMAIN c.to.header
  BY <1>2, <1>7, HoldingCollected
<1>10. SizeOf(c.to.header, DOMAIN c.to.header) = UsedSize(c.to.chain)
  BY <1>8 DEF HeapOK
<1> QED
  BY <1>1, <1>2, <1>8, <1>9, <1>10

LEMMA MallocFailedStep ==
    ASSUME IInv, Fatal("MVM_E_MALLOC_FAIL", 0, heap, value, holds), UNCHANGED lastSize
    PROVE  IInv'
<1>1. PICK l : /\ Linked(l) /\ HeapOK(heap)
               /\ Holding(heap, value, holds, {l[i] : i \in 1 .. Len(l)})
  BY StateIs
<1>2. next \in [Handle -> Handle \cup {Nil}] /\ lastSize' \in 0 .. MaxHeapSize
  BY StateIs
<1>3. PICK h : h = heap
  OBVIOUS
<1>4. PICK v : v = value
  OBVIOUS
<1>5. PICK o : o = holds
  OBVIOUS
<1>6. HeapOK(h) /\ Holding(h, v, o, {l[i] : i \in 1 .. Len(l)})
  BY <1>1, <1>3, <1>4, <1>5
<1>7. Fatal("MVM_E_MALLOC_FAIL", 0, h, v, o) /\ Full(<<"MVM_E_MALLOC_FAIL", 0>>, h, o)
  BY <1>3, <1>4, <1>5 DEF Full
<1> QED
  BY <1>1, <1>2, <1>6, <1>7, FatalStep

LEMMA AllocateAfterCollectionStep ==
    ASSUME IInv, NEW x \in Initialized, NEW size \in Sizes, AllocateAfterCollection(x, size)
    PROVE  IInv'
<1>1. PICK l : /\ Linked(l) /\ HeapOK(heap)
               /\ Holding(heap, value, holds, {l[i] : i \in 1 .. Len(l)})
  BY StateIs
<1>2. next \in [Handle -> Handle \cup {Nil}] /\ lastSize \in 0 .. MaxHeapSize
  BY StateIs
<1>3. PICK c : c = Collected(heap, lastSize)
  OBVIOUS
<1>4. CASE Fatal("MVM_E_MALLOC_FAIL", 0, heap, value, holds) /\ UNCHANGED lastSize
  BY <1>4, MallocFailedStep
<1>5. CASE /\ ~MallocFailed(c.to)
           /\ lastSize' = UsedSize(c.to.chain)
           /\ IF HeapSizeRead(heap, c.to) + Words(size) > MaxHeapSize
              THEN Fatal("MVM_E_OUT_OF_MEMORY", Words(size), c.to, Forwarded(c), Followed(c))
              ELSE AllocatedInNext(x, size, c.to, Forwarded(c), Followed(c))
  <2>1. PICK h : h = c.to
    OBVIOUS
  <2>2. PICK v : v = Forwarded(c)
    OBVIOUS
  <2>3. PICK o : o = Followed(c)
    OBVIOUS
  <2>4. /\ HeapOK(h) /\ UsedSize(h.chain) \in 0 .. MaxHeapSize
        /\ Holding(h, v, o, {l[i] : i \in 1 .. Len(l)})
        /\ SizeOf(h.header, {o[y] : y \in Handle} \ {NoObject}) = UsedSize(h.chain)
    BY <1>1, <1>2, <1>3, <1>5, <2>1, <2>2, <2>3, Collection
  <2>5. lastSize' \in 0 .. MaxHeapSize
    BY <1>5, <2>1, <2>4
  <2>6. Words(size) \in Nat
    BY Constants, WordsAreEven
  <2>7. CASE UsedSize(h.chain) + Words(size) > MaxHeapSize
    <3>1. Fatal("MVM_E_OUT_OF_MEMORY", Words(size), h, v, o)
      BY <1>5, <2>1, <2>2, <2>3, <2>7 DEF HeapSizeRead
    <3>2. Full(<<"MVM_E_OUT_OF_MEMORY", Words(size)>>, h, o)
      BY <2>4, <2>7 DEF Full
    <3> QED
      BY <1>1, <1>2, <2>4, <2>5, <3>1, <3>2, FatalStep
  <2>8. CASE ~(UsedSize(h.chain) + Words(size) > MaxHeapSize)
    <3>1. AllocatedInNext(x, size, h, v, o)
      BY <1>5, <2>1, <2>2, <2>3, <2>8 DEF HeapSizeRead
    <3>2. UsedSize(h.chain) + Words(size) <= MaxHeapSize
      BY <2>4, <2>6, <2>8, Constants
    <3>3. x \in {l[i] : i \in 1 .. Len(l)} /\ Running
      BY <1>1, InitializedIs DEF AllocateAfterCollection
    <3> QED
      BY <1>1, <1>2, <2>4, <2>5, <3>1, <3>2, <3>3, AllocatedInNextStep
  <2> QED
    BY <2>7, <2>8
<1> QED
  BY <1>3, <1>4, <1>5 DEF AllocateAfterCollection

LEMMA RunGCStep ==
    ASSUME IInv, RunGC
    PROVE  IInv'
<1>1. PICK l : /\ Linked(l) /\ HeapOK(heap)
               /\ Holding(heap, value, holds, {l[i] : i \in 1 .. Len(l)})
  BY StateIs
<1>2. next \in [Handle -> Handle \cup {Nil}] /\ lastSize \in 0 .. MaxHeapSize
  BY StateIs
<1>3. PICK c : c = Collected(heap, lastSize)
  OBVIOUS
<1>4. CASE Fatal("MVM_E_MALLOC_FAIL", 0, heap, value, holds) /\ UNCHANGED lastSize
  BY <1>4, MallocFailedStep
<1>5. CASE /\ ~MallocFailed(c.to)
           /\ heap' = c.to
           /\ value' = Forwarded(c)
           /\ holds' = Followed(c)
           /\ lastSize' = UsedSize(c.to.chain)
           /\ UNCHANGED <<gcHandles, next, error, fromTop>>
  <2>1. PICK h : h = c.to
    OBVIOUS
  <2>2. PICK v : v = Forwarded(c)
    OBVIOUS
  <2>3. PICK o : o = Followed(c)
    OBVIOUS
  <2>4. /\ HeapOK(h) /\ UsedSize(h.chain) \in 0 .. MaxHeapSize
        /\ Holding(h, v, o, {l[i] : i \in 1 .. Len(l)})
    BY <1>1, <1>2, <1>3, <1>5, <2>1, <2>2, <2>3, Collection
  <2>5. Sound(l, h, v, o, NoError)
    BY <2>4 DEF Sound, Full, NoError
  <2>6. h = heap' /\ v = value' /\ o = holds' /\ NoError = error'
    BY <1>5, <2>1, <2>2, <2>3 DEF RunGC, Running
  <2>7. /\ Linked(l)' /\ next' \in [Handle -> Handle \cup {Nil}]
        /\ lastSize' \in 0 .. MaxHeapSize
    BY <1>1, <1>2, <1>5, <2>1, <2>4, ListUnchanged
  <2> QED
    BY <2>5, <2>6, <2>7, Concluded
<1> QED
  BY <1>3, <1>4, <1>5 DEF RunGC

(* One handle is given nothing, or what another handle has.                *)
LEMMA HoldingExcept ==
    ASSUME NEW h, NEW v, NEW o, NEW S, Holding(h, v, o, S), NEW x \in Handle,
           NEW T, S \ {x} \subseteq T, NEW p, NEW a,
           \/ p = Undefined /\ a = NoObject
           \/ x \in T /\ \E y \in Handle : p = v[y] /\ a = o[y]
    PROVE  Holding(h, [v EXCEPT ![x] = p], [o EXCEPT ![x] = a], T)
<1>1. PICK w : w = [v EXCEPT ![x] = p]
  OBVIOUS
<1>2. PICK q : q = [o EXCEPT ![x] = a]
  OBVIOUS
<1>3. /\ v \in [Handle -> 0 .. MaxHeapSize \cup {Undefined}]
      /\ o \in [Handle -> 0 .. MemorySize]
      /\ \A y \in Handle :
            IF v[y] = Undefined THEN o[y] = NoObject
            ELSE y \in S /\ o[y] \in DOMAIN h.header /\ Points(h.chain, v[y], o[y])
  BY DEF Holding
<1>4. p \in 0 .. MaxHeapSize \cup {Undefined} /\ a \in 0 .. MemorySize
  BY <1>3, Constants DEF NoObject
<1>5. /\ w \in [Handle -> 0 .. MaxHeapSize \cup {Undefined}] /\ w[x] = p
      /\ \A y \in Handle : y # x => w[y] = v[y]
  BY <1>1, <1>3, <1>4
<1>6. /\ q \in [Handle -> 0 .. MemorySize] /\ q[x] = a
      /\ \A y \in Handle : y # x => q[y] = o[y]
  BY <1>2, <1>3, <1>4
<1>7. ASSUME NEW y \in Handle
      PROVE  IF w[y] = Undefined THEN q[y] = NoObject
             ELSE y \in T /\ q[y] \in DOMAIN h.header /\ Points(h.chain, w[y], q[y])
  <2>1. CASE y = x
    BY <1>3, <1>5, <1>6, <2>1
  <2>2. CASE y # x
    BY <1>3, <1>5, <1>6, <2>2
  <2> QED
    BY <2>1, <2>2
<1>8. Holding(h, w, q, T)
  BY <1>5, <1>6, <1>7 DEF Holding
<1> QED
  BY <1>1, <1>2, <1>8

(* A handle is put at the front of the list.                               *)
LEMMA PutInFrontStep ==
    ASSUME IInv, Running, NEW x \in Handle, NEW p, NEW a,
           \/ p = Undefined /\ a = NoObject
           \/ \E y \in Handle : p = value[y] /\ a = holds[y],
           InitializeHandle(x, p), holds' = [holds EXCEPT ![x] = a],
           UNCHANGED <<heap, lastSize, error, fromTop>>
    PROVE  IInv'
<1>1. PICK l : /\ Linked(l) /\ HeapOK(heap)
               /\ Holding(heap, value, holds, {l[i] : i \in 1 .. Len(l)})
  BY StateIs
<1>2. next \in [Handle -> Handle \cup {Nil}] /\ lastSize' \in 0 .. MaxHeapSize
  BY StateIs
<1>3. PICK h : h = heap
  OBVIOUS
<1>4. PICK w : w = [value EXCEPT ![x] = p]
  OBVIOUS
<1>5. PICK q : q = [holds EXCEPT ![x] = a]
  OBVIOUS
<1>6. PICK k : k = <<x>> \o l
  OBVIOUS
<1>7. PICK T : T = {k[i] : i \in 1 .. Len(k)}
  OBVIOUS
<1>8. x \in T /\ \A i \in 1 .. Len(l) : l[i] \in T
  <2>1. l \in Seq(Handle) /\ Len(l) \in Nat
    BY <1>1 DEF Linked
  <2>2. Len(k) = Len(l) + 1 /\ k[1] = x /\ \A i \in 1 .. Len(l) : k[i + 1] = l[i]
    BY <1>6, <2>1
  <2>3. 1 \in 1 .. Len(k) /\ \A i \in 1 .. Len(l) : i + 1 \in 1 .. Len(k)
    BY <2>1, <2>2
  <2>4. \A j \in 1 .. Len(k) : k[j] \in T
    BY <1>7
  <2>5. k[1] \in T
    BY <2>3, <2>4
  <2>6. \A i \in 1 .. Len(l) : k[i + 1] \in T
    BY <2>3, <2>4
  <2> QED
    BY <2>2, <2>5, <2>6
<1>9. Holding(h, w, q, T)
  <2>1. {l[i] : i \in 1 .. Len(l)} \ {x} \subseteq T
    BY <1>8
  <2>2. PICK v : v = value
    OBVIOUS
  <2>3. PICK o : o = holds
    OBVIOUS
  <2>4. Holding(h, v, o, {l[i] : i \in 1 .. Len(l)})
    BY <1>1, <1>3, <2>2, <2>3
  <2>5. Holding(h, [v EXCEPT ![x] = p], [o EXCEPT ![x] = a], T)
    BY <1>8, <2>1, <2>2, <2>3, <2>4, HoldingExcept
  <2> QED
    BY <1>4, <1>5, <2>2, <2>3, <2>5
<1>10. Sound(k, h, w, q, NoError)
  BY <1>1, <1>3, <1>7, <1>9 DEF Sound, Full, NoError
<1>11. Linked(k)' /\ next' \in [Handle -> Handle \cup {Nil}]
  BY <1>1, <1>2, <1>6, InitializeKeepsList
<1>12. h = heap' /\ w = value' /\ q = holds' /\ NoError = error'
  BY <1>3, <1>4, <1>5 DEF InitializeHandle, Running
<1> QED
  BY <1>2, <1>10, <1>11, <1>12, Concluded

LEMMA InitializeStep ==
    ASSUME IInv, NEW x \in Handle, Initialize(x)
    PROVE  IInv'
BY PutInFrontStep DEF Initialize

LEMMA CloneStep ==
    ASSUME IInv, NEW x \in Handle, NEW source \in Initialized, Clone(x, source)
    PROVE  IInv'
<1>1. PICK l : Linked(l)
  BY StateIs
<1>2. source \in Handle
  BY <1>1, InitializedIs DEF Linked
<1>3. PICK p : p = value[source]
  OBVIOUS
<1>4. PICK a : a = holds[source]
  OBVIOUS
<1>5. /\ Running /\ InitializeHandle(x, p) /\ holds' = [holds EXCEPT ![x] = a]
      /\ UNCHANGED <<heap, lastSize, error, fromTop>>
  BY <1>3, <1>4 DEF Clone, CloneHandle
<1> QED
  BY <1>2, <1>3, <1>4, <1>5, PutInFrontStep

LEMMA ReleaseStep ==
    ASSUME IInv, NEW x \in Handle, Release(x)
    PROVE  IInv'
<1>1. PICK l : /\ Linked(l) /\ HeapOK(heap)
               /\ Holding(heap, value, holds, {l[i] : i \in 1 .. Len(l)})
  BY StateIs
<1>2. next \in [Handle -> Handle \cup {Nil}] /\ lastSize' \in 0 .. MaxHeapSize
  BY StateIs DEF Release
<1>3. PICK h : h = heap
  OBVIOUS
<1>4. PICK w : w = [value EXCEPT ![x] = Undefined]
  OBVIOUS
<1>5. PICK q : q = [holds EXCEPT ![x] = NoObject]
  OBVIOUS
<1>6. PICK S : S = {l[i] : i \in 1 .. Len(l)}
  OBVIOUS
<1>7. Initialized = S
  BY <1>1, <1>6, InitializedIs
<1>8. ReleaseHandle(x) /\ h = heap' /\ w = value' /\ q = holds' /\ NoError = error'
  BY <1>3, <1>4, <1>5 DEF Release, ReleaseHandle, Running
<1>9. \A T : S \ {x} \subseteq T => Holding(h, w, q, T)
  <2> SUFFICES ASSUME NEW T, S \ {x} \subseteq T PROVE Holding(h, w, q, T)
    OBVIOUS
  <2>1. PICK v : v = value
    OBVIOUS
  <2>2. PICK o : o = holds
    OBVIOUS
  <2>3. Holding(h, v, o, S)
    BY <1>1, <1>3, <1>6, <2>1, <2>2
  <2>4. Holding(h, [v EXCEPT ![x] = Undefined], [o EXCEPT ![x] = NoObject], T)
    BY <2>3, HoldingExcept
  <2> QED
    BY <1>4, <1>5, <2>1, <2>2, <2>4
<1>10. /\ next' \in [Handle -> Handle \cup {Nil}]
       /\ x \notin Initialized => Linked(l)'
       /\ \A p \in 1 .. Len(l) : l[p] = x => Linked(Without(l, p))'
  BY <1>1, <1>2, <1>8, ReleaseKeepsList
<1>11. ASSUME NEW k, Linked(k)', S \ {x} \subseteq {k[i] : i \in 1 .. Len(k)}
       PROVE  IInv'
  <2>1. Holding(h, w, q, {k[i] : i \in 1 .. Len(k)})
    BY <1>9, <1>11
  <2>2. Sound(k, h, w, q, NoError)
    BY <1>1, <1>3, <2>1 DEF Sound, Full, NoError
  <2> QED
    BY <1>2, <1>8, <1>10, <1>11, <2>2, Concluded
<1>12. CASE x \notin S
  <2>1. Linked(l)' /\ S \ {x} \subseteq {l[i] : i \in 1 .. Len(l)}
    BY <1>6, <1>7, <1>10, <1>12
  <2> QED
    BY <1>11, <2>1
<1>13. CASE x \in S
  <2>1. PICK p \in 1 .. Len(l) : l[p] = x
    BY <1>6, <1>13
  <2>2. PICK k : k = Without(l, p)
    OBVIOUS
  <2>3. Linked(k)'
    BY <1>10, <2>1, <2>2
  <2>4. l \in Seq(Handle) /\ \A i, j \in 1 .. Len(l) : l[i] = l[j] => i = j
    BY <1>1 DEF Linked
  <2>5. /\ Len(Without(l, p)) = Len(l) - 1
        /\ {Without(l, p)[i] : i \in 1 .. Len(l) - 1} = {l[i] : i \in 1 .. Len(l)} \ {l[p]}
    BY <2>1, <2>4, WithoutOne
  <2>6. S \ {x} \subseteq {k[i] : i \in 1 .. Len(k)}
    BY <1>6, <2>1, <2>2, <2>5
  <2> QED
    BY <1>11, <2>3, <2>6
<1> QED
  BY <1>12, <1>13

LEMMA StutterStep ==
    ASSUME IInv, UNCHANGED vars
    PROVE  IInv'
<1>1. PICK l : Linked(l) /\ \E h, v, o, e : /\ h = heap /\ v = value /\ o = holds /\ e = error
                                            /\ Sound(l, h, v, o, e)
  BY DEF IInv
<1>2. Linked(l)'
  BY <1>1, ListUnchanged DEF vars
<1>3. PICK h, v, o, e : /\ h = heap /\ v = value /\ o = holds /\ e = error
                        /\ Sound(l, h, v, o, e)
  BY <1>1
<1>4. /\ h = heap' /\ v = value' /\ o = holds' /\ e = error'
      /\ next' \in [Handle -> Handle \cup {Nil}] /\ lastSize' \in 0 .. MaxHeapSize
  BY <1>3, StateIs DEF vars
<1> QED
  BY <1>2, <1>3, <1>4, Concluded

-----------------------------------------------------------------------------
(* What the invariant implies.                                             *)

LEMMA ImpliesTypeOK == IInv => TypeOK
<1> SUFFICES ASSUME IInv PROVE TypeOK
  OBVIOUS
<1>1. PICK l : /\ Linked(l) /\ HeapOK(heap)
               /\ Holding(heap, value, holds, {l[i] : i \in 1 .. Len(l)})
  BY StateIs
<1>2. next \in [Handle -> Handle \cup {Nil}] /\ lastSize \in 0 .. MaxHeapSize
  BY StateIs
<1>3. gcHandles \in Handle \cup {Nil}
  <2>1. l \in Seq(Handle) /\ gcHandles = IF l = <<>> THEN Nil ELSE l[1]
    BY <1>1 DEF Linked
  <2>2. l # <<>> => 1 \in 1 .. Len(l)
    BY <2>1
  <2>3. l # <<>> => l[1] \in Handle
    BY <2>1, <2>2
  <2> QED
    BY <2>1, <2>3
<1>4. /\ value \in [Handle -> 0 .. MaxHeapSize \cup {Undefined}]
      /\ holds \in [Handle -> 0 .. MemorySize]
  BY <1>1 DEF Holding
<1>5. PICK c : c = heap.chain
  OBVIOUS
<1>6. ChainOK(c) /\ DOMAIN c = 1 .. Len(c)
  BY <1>1, <1>5 DEF HeapOK, ChainOK
<1>7. \A i \in DOMAIN c :
         c[i].data <= c[i].used /\ c[i].used <= c[i].end /\ c[i].end <= MemorySize
  BY <1>6, ChainFields
<1> QED
  BY <1>2, <1>3, <1>4, <1>5, <1>7 DEF TypeOK, HandlesTypeOK

LEMMA ImpliesHandleKeepsObject == IInv => HandleKeepsObject
<1> SUFFICES ASSUME IInv, NEW x \in Handle, holds[x] # NoObject
             PROVE  /\ x \in Initialized
                    /\ holds[x] \in DOMAIN heap.header
                    /\ value[x] % 2 = 0 /\ value[x] < UsedSize(heap.chain)
                    /\ Decode(heap, value[x]) = holds[x]
  BY DEF HandleKeepsObject
<1>1. PICK l : /\ Linked(l) /\ HeapOK(heap)
               /\ Holding(heap, value, holds, {l[i] : i \in 1 .. Len(l)})
  BY StateIs
<1>2. PICK S : S = {l[i] : i \in 1 .. Len(l)}
  OBVIOUS
<1>3. Initialized = S /\ Holding(heap, value, holds, S)
  BY <1>1, <1>2, InitializedIs
<1>4. value[x] # Undefined
  BY <1>3 DEF Holding
<1> QED
  BY <1>1, <1>3, <1>4, HeldDecodes

LEMMA ImpliesHeapParses == IInv => HeapParses
<1> SUFFICES ASSUME IInv PROVE HeapParses
  OBVIOUS
<1>1. PICK h : h = heap /\ HeapOK(h)
  BY DEF IInv, Sound
<1> DEFINE after(a) == a + 2 * ((heap.header[a] + 1) \div 2)
<1>2. DOMAIN heap.chain = 1 .. Len(h.chain)
  BY <1>1 DEF HeapOK, ChainOK
<1>3. ASSUME NEW i \in DOMAIN heap.chain
      PROVE  LET b      == heap.chain[i]
                 inside == {a \in DOMAIN heap.header : b.data < a /\ a <= b.used}
             IN  {b.data} \cup {after(a) : a \in inside} = {a - 2 : a \in inside} \cup {b.used}
  <2>1. PICK b : b = heap.chain[i]
    OBVIOUS
  <2>2. PICK I : I = Inside(b, h.header)
    OBVIOUS
  <2>3. I = {a \in DOMAIN heap.header : b.data < a /\ a <= b.used}
    BY <1>1, <2>2 DEF Inside
  <2>4. {b.data} \cup {(a - 2) + Words(h.header[a]) : a \in I} = {a - 2 : a \in I} \cup {b.used}
    BY <1>1, <1>2, <2>1, <2>2 DEF HeapOK, Parses
  <2>5. ASSUME NEW a \in I
        PROVE  after(a) = (a - 2) + Words(h.header[a])
    <3>1. a \in Int /\ h.header[a] \in Nat \ {0}
      BY <1>1, <2>2, Constants DEF HeapOK, Inside
    <3>2. Words(h.header[a]) = 2 + 2 * ((h.header[a] + 1) \div 2)
      BY <3>1, WordsAreEven
    <3>3. (h.header[a] + 1) \div 2 \in Int
      BY <3>1
    <3>4. PICK q \in Int : q = (h.header[a] + 1) \div 2
      BY <3>3
    <3>5. after(a) = a + 2 * q /\ Words(h.header[a]) = 2 + 2 * q
      BY <1>1, <3>2, <3>4
    <3> HIDE DEF after
    <3> QED
      BY <3>1, <3>5
  <2> HIDE DEF after
  <2>6. {after(a) : a \in I} = {(a - 2) + Words(h.header[a]) : a \in I}
    BY <2>5
  <2> QED
    BY <2>1, <2>3, <2>4, <2>6
<1>4. ASSUME NEW a \in DOMAIN heap.header
      PROVE  \E i \in DOMAIN heap.chain :
                heap.chain[i].data < a /\ a < heap.chain[i].used
  BY <1>1, <1>2 DEF HeapOK, Within
<1> QED
  BY <1>3, <1>4 DEF HeapParses

LEMMA ImpliesOffsetsWithinLimit == IInv => OffsetsWithinLimit
<1> SUFFICES ASSUME IInv, NEW i \in DOMAIN heap.chain
             PROVE  LET b == heap.chain[i]
                    IN  /\ b.start + (b.end - b.data) <= MaxHeapSize
                        /\ b.start = UsedSize(SubSeq(heap.chain, 1, i - 1))
  BY DEF OffsetsWithinLimit
<1>1. PICK h : h = heap /\ HeapOK(h)
  BY DEF IInv, Sound
<1>2. PICK c : c = h.chain
  OBVIOUS
<1>3. ChainOK(c) /\ c \in Seq(BucketType) /\ Len(c) \in Nat /\ i \in 1 .. Len(c)
  BY <1>1, <1>2 DEF HeapOK, ChainOK
<1>4. c[i].start + (c[i].end - c[i].data) <= MaxHeapSize
  BY <1>3, ChainFields
<1>5. PICK s : s = SubSeq(c, 1, i - 1)
  OBVIOUS
<1>6. s \in Seq(BucketType) /\ Len(s) = i - 1 /\ \A j \in 1 .. i - 1 : s[j] = c[j]
  BY <1>3, <1>5
<1>7. c[i].start = UsedSize(s)
  <2>1. c[i].start = IF i = 1 THEN 0 ELSE OffsetEnd(c[i - 1])
    BY <1>3 DEF ChainOK
  <2>2. CASE i = 1
    <3>1. s = <<>>
      BY <1>6, <2>2
    <3> QED
      BY <2>1, <2>2, <3>1 DEF UsedSize
  <2>3. CASE i # 1
    <3>1. i - 1 \in 1 .. i - 1
      BY <1>3, <2>3
    <3>2. s # <<>> /\ Last(s) = c[i - 1]
      BY <1>6, <3>1 DEF Last
    <3> QED
      BY <2>1, <2>3, <3>2 DEF UsedSize
  <2> QED
    BY <2>2, <2>3
<1> QED
  BY <1>1, <1>2, <1>4, <1>5, <1>7

LEMMA ImpliesFailsOnlyWhenFull == IInv => FailsOnlyWhenFull
<1>1. IInv => Full(error, heap, holds)
  BY StateIs
<1> QED
  BY <1>1 DEF FailsOnlyWhenFull, Full

-----------------------------------------------------------------------------
(* The theorems.                                                           *)

(* What the properties rest on holds in every state that the VM reaches.   *)
LEMMA InvariantHolds == Spec => []IInv
<1>1. Init => IInv
  BY InitIsSound
<1>2. IInv /\ [Next]_vars => IInv'
  <2> SUFFICES ASSUME IInv, [Next]_vars PROVE IInv'
    OBVIOUS
  <2>1. ASSUME NEW x \in Initialized, NEW size \in Sizes, AllocateInPlace(x, size)
        PROVE  IInv'
    BY <2>1, AllocateInPlaceStep
  <2>2. ASSUME NEW x \in Initialized, NEW size \in Sizes, AllocateInNewBucket(x, size)
        PROVE  IInv'
    BY <2>2, AllocateInNewBucketStep
  <2>3. ASSUME NEW x \in Initialized, NEW size \in Sizes, AllocateAfterCollection(x, size)
        PROVE  IInv'
    BY <2>3, AllocateAfterCollectionStep
  <2>4. CASE RunGC
    BY <2>4, RunGCStep
  <2>5. ASSUME NEW x \in Handle, Initialize(x)
        PROVE  IInv'
    BY <2>5, InitializeStep
  <2>6. ASSUME NEW x \in Handle, NEW source \in Initialized, Clone(x, source)
        PROVE  IInv'
    BY <2>6, CloneStep
  <2>7. ASSUME NEW x \in Handle, Release(x)
        PROVE  IInv'
    BY <2>7, ReleaseStep
  <2>8. CASE UNCHANGED vars
    BY <2>8, StutterStep
  <2> QED
    BY <2>1, <2>2, <2>3, <2>4, <2>5, <2>6, <2>7, <2>8 DEF Next
<1> QED
  BY <1>1, <1>2, PTL DEF Spec

(* The registers of the heap and the list of handles have the types of     *)
(* their C fields.                                                         *)
THEOREM TypesHold == Spec => []TypeOK
BY InvariantHolds, ImpliesTypeOK, PTL

(* Whatever is allocated, collected, cloned and released, a handle is in   *)
(* the list that the collector walks, and its short pointer is decoded to  *)
(* the address where its object is now.                                    *)
THEOREM HandlesKeepObjects == Spec => []HandleKeepsObject
BY InvariantHolds, ImpliesHandleKeepsObject, PTL

(* The walk of mvm_checkHeap finds every allocation of every bucket.       *)
THEOREM HeapCanBeParsed == Spec => []HeapParses
BY InvariantHolds, ImpliesHeapParses, PTL

(* Offsets follow each other without a gap, and none is over the limit.    *)
THEOREM OffsetsStayWithinLimit == Spec => []OffsetsWithinLimit
BY InvariantHolds, ImpliesOffsetsWithinLimit, PTL

(* The VM runs out of memory only when what is reachable and the new       *)
(* allocation are too much together.                                       *)
THEOREM RunsOutOnlyWhenFull == Spec => []FailsOnlyWhenFull
BY InvariantHolds, ImpliesFailsOnlyWhenFull, PTL
=============================================================================
