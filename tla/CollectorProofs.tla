-------------------------- MODULE CollectorProofs --------------------------
(***************************************************************************)
(* Proofs about GarbageCollector, for any well-formed heaps, any sizes and *)
(* any estimate: a collection moves exactly what is reachable and keeps    *)
(* it, never needs more than the largest heap, and a squeeze is exact.     *)
(***************************************************************************)
EXTENDS GarbageCollector, IntervalLemmas, SequenceTheorems

-----------------------------------------------------------------------------
(* Totals of sequences of numbers.                                         *)

SumStep(f, s, T) == IF T = {} THEN 0 ELSE LET x == Max(T) IN f[T \ {x}] + s[x]

\* f is the sum for every set of positions of s.
IsSum(f, s) == f = [T \in SUBSET DOMAIN s |-> SumStep(f, s, T)]

\* f is the sum for the sets with up to n members.
IsSumUpTo(f, s, n) ==
    \A T \in SUBSET DOMAIN s : Cardinality(T) <= n => f[T] = SumStep(f, s, T)

LEMMA LastPosition ==
    ASSUME NEW s, NEW N \in Nat, DOMAIN s = 1 .. N, NEW T \in SUBSET DOMAIN s, T # {}
    PROVE  Max(T) \in T
<1>1. T \in SUBSET (0 .. N)
  OBVIOUS
<1> QED
  BY <1>1, LargestPosition

LEMMA SumExists ==
    ASSUME NEW s, NEW L \in Nat, DOMAIN s = 1 .. L
    PROVE  \E f : IsSum(f, s)
<1> DEFINE S == DOMAIN s
<1>0. IsFiniteSet(S)
  BY FS_Interval
<1>1. Cardinality(S) \in Nat
  BY <1>0, FS_CardinalityType
<1> DEFINE N == Cardinality(S) + 1
           P == {n \in 1 .. N : \E f : IsSumUpTo(f, s, n - 1)}
<1>2. 1 \in P
  <2> DEFINE f == [T \in SUBSET S |-> 0]
  <2>1. \A T \in SUBSET S : Cardinality(T) <= 0 => T = {}
    BY <1>0, RestOfSet
  <2>2. IsSumUpTo(f, s, 0)
    BY <2>1 DEF IsSumUpTo, SumStep
  <2> HIDE DEF f
  <2>3. 1 \in 1 .. N /\ 1 - 1 = 0
    BY <1>1
  <2>4. \E g : IsSumUpTo(g, s, 1 - 1)
    BY <2>2, <2>3
  <2> QED
    BY <2>3, <2>4
<1>3. ASSUME NEW n \in 1 .. N - 1, n \in P
      PROVE  n + 1 \in P
  <2>1. PICK f : IsSumUpTo(f, s, n - 1)
    BY <1>3
  <2> DEFINE g == [T \in SUBSET S |->
                     IF Cardinality(T) <= n - 1 THEN f[T] ELSE SumStep(f, s, T)]
  <2>2. ASSUME NEW T \in SUBSET S, Cardinality(T) <= n
        PROVE  g[T] = SumStep(g, s, T)
    <3>1. g[T] = SumStep(f, s, T)
      BY <2>1 DEF IsSumUpTo
    <3>2. CASE T = {}
      BY <3>1, <3>2 DEF SumStep
    <3>3. CASE T # {}
      <4> DEFINE x == Max(T)
      <4>1. x \in T
        BY <3>3, LastPosition
      <4>2. T \ {x} \in SUBSET S /\ Cardinality(T \ {x}) = Cardinality(T) - 1
             /\ Cardinality(T) \in Nat
        <5> HIDE DEF x
        <5> QED
          BY <1>0, <4>1, RestOfSet
      <4>3. g[T \ {x}] = f[T \ {x}]
        <5>1. Cardinality(T \ {x}) <= n - 1
          BY <4>2, <2>2
        <5> HIDE DEF x
        <5> QED
          BY <4>2, <5>1
      <4> HIDE DEF g
      <4> QED
        BY <3>1, <3>3, <4>3 DEF SumStep
    <3> QED
      BY <3>2, <3>3
  <2>3. IsSumUpTo(g, s, (n + 1) - 1)
    <3>1. (n + 1) - 1 = n
      OBVIOUS
    <3> HIDE DEF g
    <3> QED
      BY <2>2, <3>1 DEF IsSumUpTo
  <2> HIDE DEF g
  <2>4. \E h : IsSumUpTo(h, s, (n + 1) - 1)
    BY <2>3
  <2>5. n + 1 \in 1 .. N
    BY <1>1
  <2> QED
    BY <2>4, <2>5
<1>4. P = 1 .. N
  <2>1. N \in Nat /\ P \in SUBSET (1 .. N)
    BY <1>1
  <2> HIDE DEF P, N
  <2> QED
    BY <1>2, <1>3, <2>1, IntervalInduction
<1>5. PICK f : IsSumUpTo(f, s, Cardinality(S))
  <2>1. N \in 1 .. N /\ N - 1 = Cardinality(S)
    BY <1>1
  <2>2. N \in P
    BY <1>4, <2>1
  <2> QED
    BY <2>1, <2>2
<1> DEFINE g == [T \in SUBSET S |-> f[T]]
<1>6. ASSUME NEW T \in SUBSET S
      PROVE  g[T] = SumStep(g, s, T)
  <2>1. f[T] = SumStep(f, s, T)
    BY <1>0, <1>5, RestOfSet DEF IsSumUpTo
  <2>2. T # {} => Max(T) \in T
    BY LastPosition
  <2> QED
    BY <2>1, <2>2 DEF SumStep
<1>7. g = [T \in SUBSET S |-> SumStep(g, s, T)]
  <2>1. g = [T \in SUBSET S |-> g[T]]
    OBVIOUS
  <2> HIDE DEF g
  <2>2. [T \in SUBSET S |-> g[T]] = [T \in SUBSET S |-> SumStep(g, s, T)]
    BY <1>6
  <2> QED
    BY <2>1, <2>2
<1> HIDE DEF g
<1> QED
  BY <1>7 DEF IsSum

LEMMA TotalIsSum ==
    ASSUME NEW s, NEW L \in Nat, DOMAIN s = 1 .. L
    PROVE  \E f : IsSum(f, s) /\ Total(s) = f[DOMAIN s]
<1> DEFINE F == CHOOSE f : f = [T \in SUBSET DOMAIN s |->
                   IF T = {} THEN 0 ELSE LET x == Max(T) IN f[T \ {x}] + s[x]]
<1>1. Total(s) = F[DOMAIN s]
  BY DEF Total, FoldLeft, MapThenFoldSet
<1>2. F = CHOOSE f : IsSum(f, s)
  BY DEF IsSum, SumStep
<1> HIDE DEF F
<1>3. IsSum(F, s)
  BY <1>2, SumExists
<1> QED
  BY <1>1, <1>3

\* g holds the totals of the beginnings of s.
Sums(g, s) ==
    /\ DOMAIN g = 0 .. Len(s) /\ g[0] = 0
    /\ \A n \in 1 .. Len(s) : g[n] = g[n - 1] + s[n]

LEMMA TotalIsLastSum ==
    ASSUME NEW s \in Seq(Int)
    PROVE  \E g : Sums(g, s) /\ Total(s) = g[Len(s)]
<1>1. DOMAIN s = 1 .. Len(s) /\ Len(s) \in Nat
  OBVIOUS
<1>2. PICK f : IsSum(f, s) /\ Total(s) = f[DOMAIN s]
  BY <1>1, TotalIsSum
<1> DEFINE g == [n \in 0 .. Len(s) |-> f[1 .. n]]
<1>3. \A T \in SUBSET DOMAIN s : f[T] = SumStep(f, s, T)
  BY <1>2 DEF IsSum
<1>4. g[0] = 0
  <2>1. 1 .. 0 = {} /\ {} \in SUBSET DOMAIN s
    OBVIOUS
  <2>2. f[{}] = 0
    BY <1>3, <2>1 DEF SumStep
  <2>3. g[0] = f[1 .. 0]
    BY <1>1
  <2> QED
    BY <2>1, <2>2, <2>3
<1>5. ASSUME NEW n \in 1 .. Len(s)
      PROVE  g[n] = g[n - 1] + s[n]
  <2>1. 1 .. n \in SUBSET DOMAIN s /\ n \in 1 .. n /\ n \in Nat
    BY <1>1
  <2>2. Max(1 .. n) = n
    <3>1. 1 .. n \in SUBSET (0 .. n)
      OBVIOUS
    <3>2. Max(1 .. n) \in 1 .. n /\ n <= Max(1 .. n)
      BY <2>1, <3>1, LargestPosition
    <3> QED
      BY <3>2
  <2>3. (1 .. n) \ {n} = 1 .. n - 1
    OBVIOUS
  <2>4. f[1 .. n] = f[1 .. n - 1] + s[n]
    BY <1>3, <2>1, <2>2, <2>3 DEF SumStep
  <2> QED
    BY <2>4
<1>6. Sums(g, s)
  BY <1>4, <1>5 DEF Sums
<1>7. Total(s) = g[Len(s)]
  BY <1>1, <1>2
<1> QED
  BY <1>6, <1>7

LEMMA SumsAreNatural ==
    ASSUME NEW s \in Seq(Nat), NEW g, Sums(g, s)
    PROVE  \A n \in 0 .. Len(s) : g[n] \in Nat
<1> DEFINE P == {n \in 0 .. Len(s) : g[n] \in Nat}
<1>1. 0 \in P
  BY DEF Sums
<1>2. ASSUME NEW n \in 1 .. Len(s), n - 1 \in P
      PROVE  n \in P
  <2>1. n \in 1 .. Len(s) /\ s[n] \in Nat /\ g[n - 1] \in Nat
    BY <1>2
  <2>2. g[n] = g[n - 1] + s[n]
    BY <2>1 DEF Sums
  <2> QED
    BY <2>1, <2>2
<1>3. P = 0 .. Len(s)
  <2>1. Len(s) \in Nat /\ P \in SUBSET (0 .. Len(s))
    OBVIOUS
  <2> HIDE DEF P
  <2> QED
    BY <1>1, <1>2, <2>1, IntervalFromZero
<1> QED
  BY <1>3

LEMMA TotalType ==
    ASSUME NEW s \in Seq(Nat)
    PROVE  Total(s) \in Nat
<1>1. s \in Seq(Int) /\ Len(s) \in 0 .. Len(s)
  OBVIOUS
<1> QED
  BY <1>1, TotalIsLastSum, SumsAreNatural

LEMMA TotalOfNone ==
    ASSUME NEW s \in Seq(Nat), Len(s) = 0
    PROVE  Total(s) = 0
<1>1. s \in Seq(Int)
  OBVIOUS
<1> QED
  BY <1>1, TotalIsLastSum DEF Sums

(* If the members of t are not less than those of s, nor is the total.     *)
LEMMA TotalOfLess ==
    ASSUME NEW s \in Seq(Nat), NEW t \in Seq(Nat), Len(s) = Len(t),
           \A n \in 1 .. Len(s) : s[n] <= t[n]
    PROVE  Total(s) <= Total(t)
<1>1. s \in Seq(Int) /\ t \in Seq(Int) /\ Len(s) \in Nat
  OBVIOUS
<1>2. PICK g : Sums(g, s) /\ Total(s) = g[Len(s)]
  BY <1>1, TotalIsLastSum
<1>3. PICK h : Sums(h, t) /\ Total(t) = h[Len(t)]
  BY <1>1, TotalIsLastSum
<1>4. \A n \in 0 .. Len(s) : g[n] \in Nat /\ h[n] \in Nat
  BY <1>2, <1>3, SumsAreNatural
<1> DEFINE P == {n \in 0 .. Len(s) : g[n] <= h[n]}
<1>5. 0 \in P
  BY <1>2, <1>3 DEF Sums
<1>6. ASSUME NEW n \in 1 .. Len(s), n - 1 \in P
      PROVE  n \in P
  <2>1. n \in 1 .. Len(s) /\ n - 1 \in 0 .. Len(s)
    OBVIOUS
  <2>2. s[n] \in Nat /\ t[n] \in Nat /\ s[n] <= t[n] /\ g[n - 1] \in Nat /\ h[n - 1] \in Nat
    BY <1>4, <2>1
  <2>3. g[n] = g[n - 1] + s[n] /\ h[n] = h[n - 1] + t[n] /\ g[n - 1] <= h[n - 1]
    BY <1>2, <1>3, <1>6, <2>1 DEF Sums
  <2> QED
    BY <2>2, <2>3
<1>7. P = 0 .. Len(s)
  <2>1. Len(s) \in Nat /\ P \in SUBSET (0 .. Len(s))
    OBVIOUS
  <2> HIDE DEF P
  <2> QED
    BY <1>5, <1>6, <2>1, IntervalFromZero
<1>8. Len(s) \in P
  BY <1>1, <1>7
<1> QED
  BY <1>1, <1>2, <1>3, <1>8

(* One member replaced.                                                    *)
LEMMA TotalExcept ==
    ASSUME NEW s \in Seq(Nat), NEW k \in 1 .. Len(s), NEW x \in Nat
    PROVE  LET t == [s EXCEPT ![k] = x]
           IN  t \in Seq(Nat) /\ Total(t) + s[k] = Total(s) + x
<1> DEFINE t == [s EXCEPT ![k] = x]
<1>1. /\ s \in Seq(Int) /\ t \in Seq(Int) /\ t \in Seq(Nat) /\ Len(t) = Len(s)
      /\ Len(s) \in Nat /\ t[k] = x /\ \A n \in 1 .. Len(s) : n # k => t[n] = s[n]
  OBVIOUS
<1> HIDE DEF t
<1>2. PICK g : Sums(g, s) /\ Total(s) = g[Len(s)]
  BY <1>1, TotalIsLastSum
<1>3. PICK h : Sums(h, t) /\ Total(t) = h[Len(t)]
  BY <1>1, TotalIsLastSum
<1>4. \A n \in 0 .. Len(s) : g[n] \in Nat /\ h[n] \in Nat
  BY <1>1, <1>2, <1>3, SumsAreNatural
<1> DEFINE Moved(n) == (n < k => h[n] = g[n]) /\ (~(n < k) => h[n] + s[k] = g[n] + x)
           P == {n \in 0 .. Len(s) : Moved(n)}
<1>5. 0 \in P
  BY <1>1, <1>2, <1>3 DEF Sums
<1>6. ASSUME NEW n \in 1 .. Len(s), n - 1 \in P
      PROVE  n \in P
  <2>1. n \in 1 .. Len(s) /\ n - 1 \in 0 .. Len(s) /\ n \in 1 .. Len(t)
    BY <1>1
  <2>2. s[n] \in Nat /\ s[k] \in Nat /\ g[n - 1] \in Nat /\ h[n - 1] \in Nat
    BY <1>4, <2>1
  <2>3. g[n] = g[n - 1] + s[n] /\ h[n] = h[n - 1] + t[n]
    BY <1>2, <1>3, <2>1 DEF Sums
  <2>4. Moved(n - 1)
    BY <1>6
  <2>5. t[n] = IF n = k THEN x ELSE s[n]
    BY <1>1, <2>1
  <2>6. Moved(n)
    <3>1. CASE n < k
      <4>1. n - 1 < k /\ t[n] = s[n]
        BY <2>1, <2>5, <3>1
      <4>2. h[n - 1] = g[n - 1]
        BY <2>4, <4>1
      <4> QED
        BY <2>3, <3>1, <4>1, <4>2
    <3>2. CASE n = k
      <4>1. n - 1 < k /\ ~(n < k) /\ t[n] = x /\ s[n] = s[k]
        BY <2>1, <2>5, <3>2
      <4>2. h[n - 1] = g[n - 1]
        BY <2>4, <4>1
      <4>3. h[n] + s[k] = g[n] + x
        BY <2>2, <2>3, <4>1, <4>2
      <4> QED
        BY <4>1, <4>3
    <3>3. CASE k < n
      <4>1. ~(n - 1 < k) /\ ~(n < k) /\ t[n] = s[n]
        BY <2>1, <2>5, <3>3
      <4>2. h[n - 1] + s[k] = g[n - 1] + x
        BY <2>4, <4>1
      <4>3. PICK a, b, c, d \in Nat :
                a = h[n - 1] /\ b = s[k] /\ c = g[n - 1] /\ d = s[n]
        BY <2>2
      <4>4. a + b = c + x
        BY <4>2, <4>3
      <4>5. h[n] = a + d /\ g[n] = c + d
        BY <2>3, <4>1, <4>3
      <4>6. (a + d) + b = (c + d) + x
        BY ONLY <4>4, a \in Nat, b \in Nat, c \in Nat, d \in Nat, x \in Nat
      <4>7. h[n] + s[k] = g[n] + x
        BY <4>3, <4>5, <4>6
      <4> QED
        BY <4>1, <4>7
    <3> QED
      BY <2>1, <3>1, <3>2, <3>3
  <2> HIDE DEF Moved
  <2>7. n \in 0 .. Len(s)
    BY <2>1
  <2> QED
    BY <2>6, <2>7
<1>7. P = 0 .. Len(s)
  <2>1. Len(s) \in Nat /\ P \in SUBSET (0 .. Len(s))
    OBVIOUS
  <2> HIDE DEF P
  <2> QED
    BY <1>5, <1>6, <2>1, IntervalFromZero
<1>8. Len(s) \in 0 .. Len(s) /\ ~(Len(s) < k)
  BY <1>1
<1>9. h[Len(s)] + s[k] = g[Len(s)] + x
  <2>1. Moved(Len(s))
    <3> HIDE DEF Moved
    <3> QED
      BY <1>7, <1>8
  <2> QED
    BY <1>8, <2>1
<1> QED
  BY <1>1, <1>2, <1>3, <1>9 DEF t

(* One member more.                                                        *)
LEMMA TotalAppend ==
    ASSUME NEW s \in Seq(Nat), NEW x \in Nat
    PROVE  Append(s, x) \in Seq(Nat) /\ Total(Append(s, x)) = Total(s) + x
<1>1. PICK t : t = Append(s, x)
  OBVIOUS
<1>2. /\ s \in Seq(Int) /\ t \in Seq(Int) /\ t \in Seq(Nat) /\ Len(t) = Len(s) + 1
      /\ Len(s) \in Nat /\ t[Len(s) + 1] = x /\ \A n \in 1 .. Len(s) : t[n] = s[n]
  BY <1>1
<1>3. PICK g : Sums(g, s) /\ Total(s) = g[Len(s)]
  BY <1>2, TotalIsLastSum
<1>4. PICK h : Sums(h, t) /\ Total(t) = h[Len(t)]
  BY <1>2, TotalIsLastSum
<1> DEFINE P == {n \in 0 .. Len(s) : h[n] = g[n]}
<1>5. 0 \in P
  BY <1>2, <1>3, <1>4 DEF Sums
<1>6. ASSUME NEW n \in 1 .. Len(s), n - 1 \in P
      PROVE  n \in P
  <2>1. n \in 1 .. Len(s) /\ n \in 1 .. Len(t)
    BY <1>2
  <2>2. g[n] = g[n - 1] + s[n] /\ h[n] = h[n - 1] + t[n] /\ h[n - 1] = g[n - 1] /\ t[n] = s[n]
    BY <1>2, <1>3, <1>4, <1>6, <2>1 DEF Sums
  <2> QED
    BY <2>1, <2>2
<1>7. P = 0 .. Len(s)
  <2>1. Len(s) \in Nat /\ P \in SUBSET (0 .. Len(s))
    OBVIOUS
  <2> HIDE DEF P
  <2> QED
    BY <1>5, <1>6, <2>1, IntervalFromZero
<1>8. h[Len(s)] = g[Len(s)]
  <2>1. Len(s) \in P
    BY <1>2, <1>7
  <2> QED
    BY <2>1
<1>9. h[Len(s) + 1] = h[Len(s)] + t[Len(s) + 1]
  <2>1. Len(s) + 1 \in 1 .. Len(t) /\ (Len(s) + 1) - 1 = Len(s)
    BY <1>2
  <2> QED
    BY <1>4, <2>1 DEF Sums
<1> QED
  BY <1>1, <1>2, <1>3, <1>4, <1>8, <1>9

LEMMA TotalOfZeros ==
    ASSUME NEW s \in Seq(Nat), \A n \in 1 .. Len(s) : s[n] = 0
    PROVE  Total(s) = 0
<1>1. s \in Seq(Int) /\ Len(s) \in Nat
  OBVIOUS
<1>2. PICK g : Sums(g, s) /\ Total(s) = g[Len(s)]
  BY <1>1, TotalIsLastSum
<1> DEFINE P == {n \in 0 .. Len(s) : g[n] = 0}
<1>3. 0 \in P
  BY <1>2 DEF Sums
<1>4. ASSUME NEW n \in 1 .. Len(s), n - 1 \in P
      PROVE  n \in P
  <2>1. n \in 1 .. Len(s)
    OBVIOUS
  <2>2. g[n] = g[n - 1] + s[n] /\ g[n - 1] = 0 /\ s[n] = 0
    BY <1>2, <1>4, <2>1 DEF Sums
  <2> QED
    BY <2>1, <2>2
<1>5. P = 0 .. Len(s)
  <2>1. Len(s) \in Nat /\ P \in SUBSET (0 .. Len(s))
    OBVIOUS
  <2> HIDE DEF P
  <2> QED
    BY <1>3, <1>4, <2>1, IntervalFromZero
<1>6. Len(s) \in P
  BY <1>1, <1>5
<1> QED
  BY <1>2, <1>6

-----------------------------------------------------------------------------
(* Chains of property lists.                                               *)

HasNext(a) == a.kind = "props" /\ HasPart(a)

\* Lists follow each other in the order of their addresses.
Ordered(A) ==
    /\ DOMAIN A = 1 .. Len(A) /\ Len(A) \in Nat
    /\ \A k \in DOMAIN A : HasNext(A[k]) =>
          Part(A[k]) \in k + 1 .. Len(A) /\ A[Part(A[k])].kind = "props"

ChainStep(f, A, k) == IF HasNext(A[k]) THEN <<Part(A[k])>> \o f[Part(A[k])] ELSE << >>

IsChains(f, A) == f = [k \in DOMAIN A |-> ChainStep(f, A, k)]

LEMMA ChainsExist ==
    ASSUME NEW A, Ordered(A)
    PROVE  \E f : IsChains(f, A)
<1> DEFINE N == Len(A)
           Upto(f, n) == \A k \in n .. N : f[k] = ChainStep(f, A, k)
           P == {n \in 1 .. N : \E f : Upto(f, n)}
<1>1. N \in Nat /\ DOMAIN A = 1 .. N
  BY DEF Ordered
<1>2. ASSUME NEW n \in 1 .. N, \A k \in n + 1 .. N : k \in P
      PROVE  n \in P
  <2>1. \E f : \A k \in n + 1 .. N : f[k] = ChainStep(f, A, k)
    <3>1. CASE n + 1 \in n + 1 .. N
      BY <1>2, <3>1
    <3>2. CASE n + 1 \notin n + 1 .. N
      <4>1. n + 1 .. N = {}
        BY <1>1, <3>2
      <4> QED
        BY <4>1
    <3> QED
      BY <3>1, <3>2
  <2>2. PICK f : \A k \in n + 1 .. N : f[k] = ChainStep(f, A, k)
    BY <2>1
  <2> DEFINE g == [k \in 1 .. N |-> IF k = n THEN ChainStep(f, A, n) ELSE f[k]]
  <2>3. ASSUME NEW k \in n .. N
        PROVE  g[k] = ChainStep(g, A, k)
    <3>1. g[k] = ChainStep(f, A, k)
      BY <1>1, <2>2
    <3>2. HasNext(A[k]) => g[Part(A[k])] = f[Part(A[k])]
      <4>1. k \in DOMAIN A /\ k \in Nat /\ n <= k
        BY <1>1
      <4>2. HasNext(A[k]) => Part(A[k]) \in k + 1 .. N
        BY <4>1 DEF Ordered
      <4>3. HasNext(A[k]) => Part(A[k]) \in 1 .. N /\ Part(A[k]) # n
        BY <4>1, <4>2
      <4> QED
        BY <4>3
    <3> HIDE DEF g
    <3> QED
      BY <3>1, <3>2 DEF ChainStep
  <2> HIDE DEF g
  <2>4. \E h : Upto(h, n)
    BY <2>3
  <2> QED
    BY <2>4
<1>3. P = 1 .. N
  <2>1. P \in SUBSET (1 .. N)
    OBVIOUS
  <2> HIDE DEF P, N
  <2> QED
    BY <1>1, <1>2, <2>1, IntervalDownwards
<1>4. \E f : \A k \in 1 .. N : f[k] = ChainStep(f, A, k)
  <2>1. CASE N = 0
    BY <2>1
  <2>2. CASE N # 0
    <3>1. 1 \in P
      BY <1>1, <1>3, <2>2
    <3> QED
      BY <3>1
  <2> QED
    BY <2>1, <2>2
<1>5. PICK f : \A k \in 1 .. N : f[k] = ChainStep(f, A, k)
  BY <1>4
<1> DEFINE g == [k \in 1 .. N |-> f[k]]
<1>6. ASSUME NEW k \in 1 .. N
      PROVE  g[k] = ChainStep(g, A, k)
  <2>1. HasNext(A[k]) => Part(A[k]) \in 1 .. N
    BY <1>1 DEF Ordered
  <2> QED
    BY <1>5, <2>1 DEF ChainStep
<1>7. g = [k \in DOMAIN A |-> ChainStep(g, A, k)]
  <2>1. g = [k \in 1 .. N |-> g[k]]
    OBVIOUS
  <2> HIDE DEF g
  <2>2. [k \in 1 .. N |-> g[k]] = [k \in 1 .. N |-> ChainStep(g, A, k)]
    BY <1>6
  <2> QED
    BY <1>1, <2>1, <2>2
<1> HIDE DEF g
<1> QED
  BY <1>7 DEF IsChains

LEMMA ChainUnfolds ==
    ASSUME NEW A, Ordered(A)
    PROVE  \A i \in DOMAIN A :
              Chain(A, i) = IF HasNext(A[i]) THEN <<Part(A[i])>> \o Chain(A, Part(A[i])) ELSE << >>
<1> DEFINE F == CHOOSE f : f = [k \in DOMAIN A |->
                   IF A[k].kind = "props" /\ HasPart(A[k])
                   THEN <<Part(A[k])>> \o f[Part(A[k])] ELSE << >>]
<1>1. \A i : Chain(A, i) = F[i]
  BY DEF Chain
<1>2. F = CHOOSE f : IsChains(f, A)
  BY DEF IsChains, ChainStep, HasNext
<1> HIDE DEF F
<1>3. IsChains(F, A)
  BY <1>2, ChainsExist
<1>4. \A i \in DOMAIN A : F[i] = ChainStep(F, A, i)
  BY <1>3 DEF IsChains
<1>5. \A i \in DOMAIN A :
        F[i] = IF HasNext(A[i]) THEN <<Part(A[i])>> \o F[Part(A[i])] ELSE << >>
  BY <1>4 DEF ChainStep
<1> QED
  BY <1>1, <1>5

\* c holds the lists behind the one at i, each the part of the one before.
IsChain(A, i, c) ==
    /\ c \in Seq(1 .. Len(A))
    /\ \A n \in 1 .. Len(c) :
          LET p == IF n = 1 THEN i ELSE c[n - 1]
          IN  HasNext(A[p]) /\ c[n] = Part(A[p]) /\ p < c[n] /\ A[c[n]].kind = "props"

LEMMA ChainIsChain ==
    ASSUME NEW A, Ordered(A)
    PROVE  \A i \in 1 .. Len(A) : IsChain(A, i, Chain(A, i))
<1> DEFINE N == Len(A)
           P == {i \in 1 .. N : IsChain(A, i, Chain(A, i))}
<1>1. N \in Nat /\ DOMAIN A = 1 .. N
  BY DEF Ordered
<1>2. ASSUME NEW i \in 1 .. N, \A k \in i + 1 .. N : k \in P
      PROVE  i \in P
  <2>1. CASE ~HasNext(A[i])
    <3>1. Chain(A, i) = << >>
      BY <1>1, <2>1, ChainUnfolds
    <3>2. IsChain(A, i, << >>)
      BY DEF IsChain
    <3> QED
      BY <3>1, <3>2
  <2>2. CASE HasNext(A[i])
    <3>1. PICK j : j = Part(A[i])
      OBVIOUS
    <3>2. PICK d : d = Chain(A, j)
      OBVIOUS
    <3>3. PICK c : c = Chain(A, i)
      OBVIOUS
    <3>4. c = <<j>> \o d
      BY <1>1, <2>2, <3>1, <3>2, <3>3, ChainUnfolds
    <3>5. j \in i + 1 .. N /\ A[j].kind = "props" /\ j \in 1 .. N /\ i < j
      <4>1. j \in i + 1 .. N /\ A[j].kind = "props"
        BY <1>1, <2>2, <3>1 DEF Ordered
      <4> QED
        BY <1>1, <4>1
    <3>6. IsChain(A, j, d)
      BY <1>2, <3>2, <3>5
    <3>7. d \in Seq(1 .. N)
      BY <3>6 DEF IsChain
    <3>8. /\ c \in Seq(1 .. N) /\ Len(c) = Len(d) + 1 /\ Len(d) \in Nat
          /\ c[1] = j /\ \A n \in 2 .. Len(c) : c[n] = d[n - 1]
      BY <3>4, <3>5, <3>7
    <3>9. ASSUME NEW n \in 1 .. Len(c)
          PROVE  LET p == IF n = 1 THEN i ELSE c[n - 1]
                 IN  HasNext(A[p]) /\ c[n] = Part(A[p]) /\ p < c[n] /\ A[c[n]].kind = "props"
      <4>1. CASE n = 1
        BY <2>2, <3>1, <3>5, <3>8, <4>1
      <4>2. CASE n # 1
        <5>1. n - 1 \in 1 .. Len(d) /\ n \in 2 .. Len(c)
          BY <3>8, <4>2
        <5>2. PICK q : q = IF n - 1 = 1 THEN j ELSE d[(n - 1) - 1]
          OBVIOUS
        <5>3. HasNext(A[q]) /\ d[n - 1] = Part(A[q]) /\ q < d[n - 1] /\ A[d[n - 1]].kind = "props"
          BY <3>6, <5>1, <5>2 DEF IsChain
        <5>4. c[n] = d[n - 1]
          BY <3>8, <5>1
        <5>5. c[n - 1] = q
          <6>1. CASE n = 2
            BY <3>8, <5>2, <6>1
          <6>2. CASE n # 2
            <7>1. n - 1 \in 2 .. Len(c) /\ n - 1 # 1
              BY <3>8, <5>1, <6>2
            <7> QED
              BY <3>8, <5>2, <7>1
          <6> QED
            BY <6>1, <6>2
        <5> QED
          BY <4>2, <5>3, <5>4, <5>5
      <4> QED
        BY <4>1, <4>2
    <3>10. IsChain(A, i, c)
      BY <3>8, <3>9 DEF IsChain
    <3> QED
      BY <3>3, <3>10
  <2> QED
    BY <2>1, <2>2
<1>3. P = 1 .. N
  <2>1. P \in SUBSET (1 .. N)
    OBVIOUS
  <2> HIDE DEF P, N
  <2> QED
    BY <1>1, <1>2, <2>1, IntervalDownwards
<1> QED
  BY <1>3

(* The lists behind i are after i, and each is there once.                 *)
LEMMA ChainGrows ==
    ASSUME NEW A, NEW i \in Nat, NEW c, IsChain(A, i, c)
    PROVE  /\ \A n \in 1 .. Len(c) : i < c[n]
           /\ \A m, n \in 1 .. Len(c) : m < n => c[m] < c[n]
<1>1. c \in Seq(Nat) /\ Len(c) \in Nat
  BY DEF IsChain
<1>2. \A n \in 2 .. Len(c) : c[n - 1] < c[n]
  BY <1>1 DEF IsChain
<1>3. 1 \in 1 .. Len(c) => i < c[1]
  BY <1>1 DEF IsChain
<1> DEFINE Low(n) == /\ i < c[n]
                     /\ \A m \in 1 .. Len(c) : m < n => c[m] < c[n]
           P == {n \in 1 .. Len(c) : Low(n)}
<1>4. Len(c) > 0 => 1 \in P
  <2>1. Len(c) > 0 => 1 \in 1 .. Len(c)
    BY <1>1
  <2>2. \A m \in 1 .. Len(c) : ~(m < 1)
    BY <1>1
  <2> QED
    BY <1>3, <2>1, <2>2
<1>5. ASSUME NEW n \in 1 .. Len(c) - 1, n \in P
      PROVE  n + 1 \in P
  <2>1. n + 1 \in 2 .. Len(c) /\ (n + 1) - 1 = n /\ n + 1 \in 1 .. Len(c) /\ n \in 1 .. Len(c)
    BY <1>1
  <2>2. c[n] < c[n + 1] /\ Low(n) /\ c[n] \in Nat /\ c[n + 1] \in Nat
    BY <1>1, <1>2, <1>5, <2>1
  <2>3. i < c[n + 1]
    BY <2>2
  <2>4. ASSUME NEW m \in 1 .. Len(c), m < n + 1
        PROVE  c[m] < c[n + 1]
    <3>1. m = n \/ m < n
      BY <1>1, <2>4
    <3>2. c[m] \in Nat
      BY <1>1
    <3> QED
      BY <2>2, <3>1, <3>2
  <2> QED
    BY <2>1, <2>3, <2>4
<1>6. P = 1 .. Len(c)
  <2>1. P \in SUBSET (1 .. Len(c))
    OBVIOUS
  <2> HIDE DEF P
  <2> QED
    BY <1>1, <1>4, <1>5, <2>1, IntervalInduction
<1> QED
  BY <1>6

LEMMA ChainInParts ==
    ASSUME NEW A, Ordered(A), NEW i \in 1 .. Len(A), NEW c, IsChain(A, i, c)
    PROVE  \A n \in 1 .. Len(c) : c[n] \in Parts(A) /\ c[n] \in 1 .. Len(A)
<1> SUFFICES ASSUME NEW n \in 1 .. Len(c)
             PROVE  c[n] \in Parts(A) /\ c[n] \in 1 .. Len(A)
  OBVIOUS
<1>1. c \in Seq(1 .. Len(A)) /\ DOMAIN A = 1 .. Len(A) /\ Len(c) \in Nat
  BY DEF IsChain, Ordered
<1>2. PICK p : p = IF n = 1 THEN i ELSE c[n - 1]
  OBVIOUS
<1>3. HasNext(A[p]) /\ c[n] = Part(A[p])
  BY <1>2 DEF IsChain
<1>4. p \in 1 .. Len(A)
  <2>1. CASE n = 1
    BY <1>2, <2>1
  <2>2. CASE n # 1
    <3>1. n - 1 \in 1 .. Len(c)
      BY <1>1, <2>2
    <3>2. c[n - 1] \in 1 .. Len(A)
      BY <1>1, <3>1
    <3> QED
      BY <1>2, <2>2, <3>2
  <2> QED
    BY <2>1, <2>2
<1>5. p \in {k \in DOMAIN A : HasPart(A[k])}
  BY <1>1, <1>3, <1>4 DEF HasNext
<1>6. Part(A[p]) \in Parts(A)
  BY <1>5 DEF Parts
<1>7. c[n] \in 1 .. Len(A)
  BY <1>1
<1> QED
  BY <1>3, <1>6, <1>7

\* No two allocations have the same part.
PartsAreUnique(A) ==
    \A p, q \in DOMAIN A : HasPart(A[p]) /\ HasPart(A[q]) /\ Part(A[p]) = Part(A[q]) => p = q

(* Objects share no lists.                                                 *)
LEMMA ChainsApart ==
    ASSUME NEW A, Ordered(A), PartsAreUnique(A),
           NEW i \in 1 .. Len(A), NEW j \in 1 .. Len(A), i # j,
           i \notin Parts(A), j \notin Parts(A),
           NEW c, IsChain(A, i, c), NEW d, IsChain(A, j, d)
    PROVE  \A n \in 1 .. Len(c), m \in 1 .. Len(d) : c[n] # d[m]
<1> DEFINE Apart(n) == \A m \in 1 .. Len(d) : c[n] # d[m]
           P == {n \in 1 .. Len(c) : Apart(n)}
<1>1. /\ c \in Seq(1 .. Len(A)) /\ d \in Seq(1 .. Len(A)) /\ DOMAIN A = 1 .. Len(A)
      /\ Len(c) \in Nat /\ Len(d) \in Nat
  BY DEF IsChain, Ordered
<1>2. ASSUME NEW n \in 1 .. Len(c), n # 1 => Apart(n - 1), NEW m \in 1 .. Len(d), c[n] = d[m]
      PROVE  FALSE
  <2>1. PICK p : p = IF n = 1 THEN i ELSE c[n - 1]
    OBVIOUS
  <2>2. PICK q : q = IF m = 1 THEN j ELSE d[m - 1]
    OBVIOUS
  <2>3. HasNext(A[p]) /\ c[n] = Part(A[p])
    BY <2>1 DEF IsChain
  <2>4. HasNext(A[q]) /\ d[m] = Part(A[q])
    BY <2>2 DEF IsChain
  <2>5. (n # 1 => n - 1 \in 1 .. Len(c)) /\ (m # 1 => m - 1 \in 1 .. Len(d))
    BY <1>1
  <2>6. p \in 1 .. Len(A) /\ q \in 1 .. Len(A)
    <3>1. n # 1 => c[n - 1] \in 1 .. Len(A)
      BY <2>5, ChainInParts
    <3>2. m # 1 => d[m - 1] \in 1 .. Len(A)
      BY <2>5, ChainInParts
    <3> QED
      BY <2>1, <2>2, <3>1, <3>2
  <2>7. p = q
    BY <1>1, <1>2, <2>3, <2>4, <2>6 DEF PartsAreUnique, HasNext
  <2>8. n # 1 => c[n - 1] \in Parts(A)
    BY <2>5, ChainInParts
  <2>9. m # 1 => d[m - 1] \in Parts(A)
    BY <2>5, ChainInParts
  <2> QED
    BY <1>2, <2>1, <2>2, <2>5, <2>7, <2>8, <2>9
<1>3. Len(c) > 0 => 1 \in P
  <2>1. 1 \in 1 .. Len(c) => Apart(1)
    BY <1>2
  <2>2. Len(c) > 0 => 1 \in 1 .. Len(c)
    BY <1>1
  <2> QED
    BY <2>1, <2>2
<1>4. ASSUME NEW n \in 1 .. Len(c) - 1, n \in P
      PROVE  n + 1 \in P
  <2>1. n + 1 \in 1 .. Len(c) /\ (n + 1) - 1 = n
    BY <1>1
  <2>2. Apart((n + 1) - 1)
    BY <1>4, <2>1
  <2> HIDE DEF Apart
  <2>3. Apart(n + 1)
    BY <1>2, <2>1, <2>2 DEF Apart
  <2> QED
    BY <2>1, <2>3
<1>5. P = 1 .. Len(c)
  <2>1. P \in SUBSET (1 .. Len(c))
    OBVIOUS
  <2> HIDE DEF P
  <2> QED
    BY <1>1, <1>3, <1>4, <2>1, IntervalInduction
<1> QED
  BY <1>5

(* A chain is told by the first words of the lists.                        *)
LEMMA ChainAgrees ==
    ASSUME NEW A, NEW F, DOMAIN F = DOMAIN A, Ordered(A), Len(F) = Len(A),
           \A k \in DOMAIN A : /\ F[k].kind = A[k].kind
                               /\ A[k].kind = "props" => F[k].body = A[k].body
    PROVE  /\ Ordered(F)
           /\ \A i \in DOMAIN A : Chain(F, i) = Chain(A, i)
<1>1. \A k \in DOMAIN A : /\ HasNext(F[k]) <=> HasNext(A[k])
                          /\ HasNext(A[k]) => Part(F[k]) = Part(A[k])
  BY DEF HasNext, HasPart, Part
<1>2. Ordered(F)
  BY <1>1 DEF Ordered
<1>3. DOMAIN A = 1 .. Len(A) /\ Len(A) \in Nat
  BY DEF Ordered
<1> DEFINE N == Len(A)
           P == {i \in 1 .. N : Chain(F, i) = Chain(A, i)}
<1>4. ASSUME NEW i \in 1 .. N, \A k \in i + 1 .. N : k \in P
      PROVE  i \in P
  <2>1. Chain(A, i) = IF HasNext(A[i]) THEN <<Part(A[i])>> \o Chain(A, Part(A[i])) ELSE << >>
    BY <1>3, ChainUnfolds
  <2>2. Chain(F, i) = IF HasNext(F[i]) THEN <<Part(F[i])>> \o Chain(F, Part(F[i])) ELSE << >>
    BY <1>2, <1>3, ChainUnfolds
  <2>3. HasNext(A[i]) => Chain(F, Part(A[i])) = Chain(A, Part(A[i]))
    <3>1. HasNext(A[i]) => Part(A[i]) \in i + 1 .. N
      BY <1>3 DEF Ordered
    <3> QED
      BY <1>4, <3>1
  <2>4. Chain(F, i) = Chain(A, i)
    BY <1>1, <1>3, <2>1, <2>2, <2>3
  <2> QED
    BY <2>4
<1>5. P = 1 .. N
  <2>1. N \in Nat /\ P \in SUBSET (1 .. N)
    BY <1>3
  <2> HIDE DEF P, N
  <2> QED
    BY <1>4, <2>1, IntervalDownwards
<1> QED
  BY <1>2, <1>3, <1>5

-----------------------------------------------------------------------------
(* Sequences put together.                                                 *)

FlatStep(f, ss, n) == IF n = 1 THEN ss[n] ELSE f[n - 1] \o ss[n]

IsFlat(f, ss) == f = [n \in 1 .. Len(ss) |-> FlatStep(f, ss, n)]

LEMMA FlatExists ==
    ASSUME NEW ss, Len(ss) \in Nat
    PROVE  \E f : IsFlat(f, ss)
<1> DEFINE N == Len(ss)
           Upto(f, n) == \A k \in 1 .. n : f[k] = FlatStep(f, ss, k)
           P == {n \in 0 .. N : \E f : Upto(f, n)}
<1>1. 0 \in P
  OBVIOUS
<1>2. ASSUME NEW n \in 1 .. N, n - 1 \in P
      PROVE  n \in P
  <2>1. PICK f : \A k \in 1 .. n - 1 : f[k] = FlatStep(f, ss, k)
    BY <1>2
  <2> DEFINE g == [k \in 1 .. N |-> IF k = n THEN FlatStep(f, ss, n) ELSE f[k]]
  <2>2. ASSUME NEW k \in 1 .. n
        PROVE  g[k] = FlatStep(g, ss, k)
    <3>1. k \in 1 .. N /\ (k # n => k \in 1 .. n - 1) /\ (k # 1 => k - 1 \in 1 .. N /\ k - 1 # n)
      OBVIOUS
    <3>2. g[k] = FlatStep(f, ss, k)
      BY <2>1, <3>1
    <3>3. k # 1 => g[k - 1] = f[k - 1]
      BY <3>1
    <3> HIDE DEF g
    <3> QED
      BY <3>2, <3>3 DEF FlatStep
  <2> HIDE DEF g
  <2>3. \E h : Upto(h, n)
    BY <2>2
  <2> QED
    BY <2>3
<1>3. P = 0 .. N
  <2>1. P \in SUBSET (0 .. N)
    OBVIOUS
  <2> HIDE DEF P
  <2> QED
    BY <1>1, <1>2, <2>1, IntervalFromZero
<1>4. PICK f : Upto(f, N)
  <2>1. N \in P
    BY <1>3
  <2> QED
    BY <2>1
<1> DEFINE g == [k \in 1 .. N |-> f[k]]
<1>5. ASSUME NEW k \in 1 .. N
      PROVE  g[k] = FlatStep(g, ss, k)
  <2>1. k # 1 => k - 1 \in 1 .. N
    OBVIOUS
  <2> QED
    BY <1>4, <2>1 DEF FlatStep
<1>6. g = [k \in 1 .. N |-> FlatStep(g, ss, k)]
  <2>1. g = [k \in 1 .. N |-> g[k]]
    OBVIOUS
  <2> HIDE DEF g
  <2>2. [k \in 1 .. N |-> g[k]] = [k \in 1 .. N |-> FlatStep(g, ss, k)]
    BY <1>5
  <2> QED
    BY <2>1, <2>2
<1> HIDE DEF g
<1> QED
  BY <1>6 DEF IsFlat

LEMMA FlattenSeqIsFlat ==
    ASSUME NEW ss, Len(ss) \in Nat, Len(ss) # 0
    PROVE  \E f : IsFlat(f, ss) /\ FlattenSeq(ss) = f[Len(ss)]
<1> DEFINE F == CHOOSE f : f = [n \in 1 .. Len(ss) |->
                   IF n = 1 THEN ss[n] ELSE f[n - 1] \o ss[n]]
<1>1. FlattenSeq(ss) = F[Len(ss)]
  BY DEF FlattenSeq
<1>2. F = CHOOSE f : IsFlat(f, ss)
  BY DEF IsFlat, FlatStep
<1> HIDE DEF F
<1>3. IsFlat(F, ss)
  BY <1>2, FlatExists
<1> QED
  BY <1>1, <1>3

(* It has all members of all sequences, and no others.                     *)
LEMMA Flattened ==
    ASSUME NEW V, NEW ss \in Seq(Seq(V)), NEW lens \in Seq(Nat), Len(lens) = Len(ss),
           \A n \in 1 .. Len(ss) : lens[n] = Len(ss[n])
    PROVE  /\ FlattenSeq(ss) \in Seq(V)
           /\ Len(FlattenSeq(ss)) = Total(lens)
           /\ \A x \in 1 .. Len(FlattenSeq(ss)) :
                 \E n \in 1 .. Len(ss) : \E m \in 1 .. Len(ss[n]) : FlattenSeq(ss)[x] = ss[n][m]
<1>0. Len(ss) \in Nat /\ lens \in Seq(Int)
  OBVIOUS
<1>1. CASE Len(ss) = 0
  <2>1. FlattenSeq(ss) = ss /\ ss = << >>
    BY <1>1 DEF FlattenSeq
  <2>2. Total(lens) = 0
    BY <1>1, TotalOfNone
  <2> QED
    BY <2>1, <2>2
<1>2. CASE Len(ss) # 0
  <2>1. PICK f : IsFlat(f, ss) /\ FlattenSeq(ss) = f[Len(ss)]
    BY <1>0, <1>2, FlattenSeqIsFlat
  <2>2. PICK g : Sums(g, lens) /\ Total(lens) = g[Len(lens)]
    BY <1>0, TotalIsLastSum
  <2> DEFINE From1(t) == \A x \in 1 .. Len(t) :
                  \E n \in 1 .. Len(ss) : \E m \in 1 .. Len(ss[n]) : t[x] = ss[n][m]
             Good(n) == f[n] \in Seq(V) /\ Len(f[n]) = g[n] /\ From1(f[n])
             P == {n \in 1 .. Len(ss) : Good(n)}
  <2>3. \A n \in 1 .. Len(ss) : f[n] = FlatStep(f, ss, n)
    BY <2>1 DEF IsFlat
  <2>4. \A n \in 1 .. Len(ss) : ss[n] \in Seq(V) /\ g[n] = g[n - 1] + Len(ss[n]) /\ From1(ss[n])
    BY <2>2 DEF Sums
  <2>5. 1 \in P
    <3>1. 1 \in 1 .. Len(ss) /\ 1 - 1 = 0
      BY <1>0, <1>2
    <3>2. f[1] = ss[1]
      BY <2>3, <3>1 DEF FlatStep
    <3>3. g[1] = g[0] + Len(ss[1]) /\ g[0] = 0 /\ ss[1] \in Seq(V) /\ From1(ss[1])
      BY <2>2, <2>4, <3>1 DEF Sums
    <3>4. Len(f[1]) = g[1]
      BY <3>2, <3>3
    <3> QED
      BY <3>1, <3>2, <3>3, <3>4
  <2>6. ASSUME NEW n \in 1 .. Len(ss) - 1, n \in P
        PROVE  n + 1 \in P
    <3>1. n + 1 \in 1 .. Len(ss) /\ (n + 1) - 1 = n /\ n + 1 # 1
      BY <1>0
    <3>2. PICK a : a = f[n]
      OBVIOUS
    <3>3. PICK b : b = ss[n + 1]
      OBVIOUS
    <3>4. a \in Seq(V) /\ Len(a) = g[n] /\ From1(a)
      BY <2>6, <3>2
    <3>5. b \in Seq(V) /\ g[n + 1] = g[n] + Len(b) /\ From1(b)
      BY <2>4, <3>1, <3>3
    <3>6. f[n + 1] = a \o b
      BY <2>3, <3>1, <3>2, <3>3 DEF FlatStep
    <3>0. a \in Seq(V) /\ b \in Seq(V)
      BY <3>4, <3>5
    <3>10. /\ a \o b \in Seq(V) /\ Len(a \o b) = Len(a) + Len(b)
           /\ Len(a) \in Nat /\ Len(b) \in Nat
           /\ \A x \in 1 .. Len(a) + Len(b) :
                 (a \o b)[x] = IF x <= Len(a) THEN a[x] ELSE b[x - Len(a)]
      BY ONLY <3>0
    <3>7. a \o b \in Seq(V) /\ Len(a \o b) = g[n + 1]
      BY <3>4, <3>5, <3>10
    <3>8. From1(a \o b)
      <4> SUFFICES ASSUME NEW x \in 1 .. Len(a \o b)
                   PROVE  \E k \in 1 .. Len(ss) : \E m \in 1 .. Len(ss[k]) : (a \o b)[x] = ss[k][m]
        OBVIOUS
      <4>1. CASE x <= Len(a)
        <5>1. x \in 1 .. Len(a) /\ (a \o b)[x] = a[x]
          BY <3>10, <4>1
        <5> QED
          BY <3>4, <5>1
      <4>2. CASE ~(x <= Len(a))
        <5>1. x - Len(a) \in 1 .. Len(b) /\ (a \o b)[x] = b[x - Len(a)]
          BY <3>10, <4>2
        <5>2. PICK y \in 1 .. Len(b) : y = x - Len(a)
          BY ONLY <5>1
        <5>3. (a \o b)[x] = b[y]
          BY ONLY <5>1, <5>2
        <5>4. \E k \in 1 .. Len(ss) : \E m \in 1 .. Len(ss[k]) : b[y] = ss[k][m]
          BY ONLY <3>5, y \in 1 .. Len(b)
        <5> QED
          BY ONLY <5>3, <5>4
      <4> QED
        BY <4>1, <4>2
    <3> HIDE DEF From1
    <3>9. Good(n + 1)
      BY <3>6, <3>7, <3>8
    <3> QED
      BY <3>1, <3>9
  <2>7. P = 1 .. Len(ss)
    <3>1. P \in SUBSET (1 .. Len(ss)) /\ Len(ss) > 0
      BY <1>0, <1>2
    <3> HIDE DEF P
    <3> QED
      BY <1>0, <2>5, <2>6, <3>1, IntervalInduction
  <2>8. Good(Len(ss))
    <3>1. Len(ss) \in 1 .. Len(ss)
      BY <1>0, <1>2
    <3> HIDE DEF Good
    <3> QED
      BY <2>7, <3>1
  <2> QED
    BY <2>1, <2>2, <2>8
<1> QED
  BY <1>1, <1>2

-----------------------------------------------------------------------------
(* More about totals.                                                      *)

LEMMA TotalDouble ==
    ASSUME NEW s \in Seq(Nat), NEW t \in Seq(Nat), Len(s) = Len(t),
           \A n \in 1 .. Len(s) : t[n] = 2 * s[n]
    PROVE  Total(t) = 2 * Total(s)
<1>1. s \in Seq(Int) /\ t \in Seq(Int) /\ Len(s) \in Nat
  OBVIOUS
<1>2. PICK g : Sums(g, s) /\ Total(s) = g[Len(s)]
  BY <1>1, TotalIsLastSum
<1>3. PICK h : Sums(h, t) /\ Total(t) = h[Len(t)]
  BY <1>1, TotalIsLastSum
<1>4. \A n \in 0 .. Len(s) : g[n] \in Nat /\ h[n] \in Nat
  BY <1>2, <1>3, SumsAreNatural
<1> DEFINE P == {n \in 0 .. Len(s) : h[n] = 2 * g[n]}
<1>5. 0 \in P
  BY <1>1, <1>2, <1>3 DEF Sums
<1>6. ASSUME NEW n \in 1 .. Len(s), n - 1 \in P
      PROVE  n \in P
  <2>1. n \in 1 .. Len(s) /\ n - 1 \in 0 .. Len(s)
    OBVIOUS
  <2>2. s[n] \in Nat /\ t[n] = 2 * s[n] /\ g[n - 1] \in Nat
    BY <1>4, <2>1
  <2>3. g[n] = g[n - 1] + s[n] /\ h[n] = h[n - 1] + t[n] /\ h[n - 1] = 2 * g[n - 1]
    BY <1>2, <1>3, <1>6, <2>1 DEF Sums
  <2>4. h[n] = 2 * g[n]
    <3>1. PICK a, b \in Nat : a = s[n] /\ b = g[n - 1]
      BY ONLY <2>2
    <3>2. g[n] = b + a /\ t[n] = 2 * a /\ h[n - 1] = 2 * b
      BY ONLY <2>2, <2>3, <3>1
    <3>3. h[n] = 2 * b + 2 * a
      BY ONLY <2>3, <3>2
    <3> QED
      BY ONLY <3>1, <3>2, <3>3
  <2> QED
    BY <2>4
<1>7. P = 0 .. Len(s)
  <2>1. Len(s) \in Nat /\ P \in SUBSET (0 .. Len(s))
    OBVIOUS
  <2> HIDE DEF P
  <2> QED
    BY <1>5, <1>6, <2>1, IntervalFromZero
<1>8. Len(s) \in P
  BY <1>1, <1>7
<1> QED
  BY <1>2, <1>3, <1>8

(* The beginning of a sequence has no larger total.                        *)
LEMMA TotalOfPrefix ==
    ASSUME NEW s \in Seq(Nat), NEW t \in Seq(Nat), Len(t) <= Len(s),
           \A n \in 1 .. Len(t) : t[n] = s[n]
    PROVE  Total(t) <= Total(s)
<1>1. s \in Seq(Int) /\ t \in Seq(Int) /\ Len(s) \in Nat /\ Len(t) \in Nat
  OBVIOUS
<1>2. PICK g : Sums(g, s) /\ Total(s) = g[Len(s)]
  BY <1>1, TotalIsLastSum
<1>3. PICK h : Sums(h, t) /\ Total(t) = h[Len(t)]
  BY <1>1, TotalIsLastSum
<1>4. /\ \A n \in 0 .. Len(s) : g[n] \in Nat
      /\ \A n \in 0 .. Len(t) : h[n] \in Nat
  BY <1>2, <1>3, SumsAreNatural
<1> DEFINE Known(n) == /\ n <= Len(t) => h[n] = g[n]
                       /\ Len(t) <= n => h[Len(t)] <= g[n]
           P == {n \in 0 .. Len(s) : Known(n)}
<1>5. 0 \in P
  <2>1. h[0] = 0 /\ g[0] = 0
    BY <1>2, <1>3 DEF Sums
  <2>2. Len(t) <= 0 => Len(t) = 0
    BY <1>1
  <2> QED
    BY <1>1, <2>1, <2>2
<1>6. ASSUME NEW n \in 1 .. Len(s), n - 1 \in P
      PROVE  n \in P
  <2>1. n \in 1 .. Len(s) /\ n - 1 \in 0 .. Len(s) /\ Known(n - 1)
    BY <1>6
  <2>2. s[n] \in Nat /\ g[n - 1] \in Nat /\ g[n] \in Nat /\ g[n] = g[n - 1] + s[n]
    <3>1. s[n] \in Nat
      BY ONLY s \in Seq(Nat), n \in 1 .. Len(s), ElementOfSeq
    <3>2. n - 1 \in 0 .. Len(s) /\ n \in 0 .. Len(s)
      BY ONLY <1>1, n \in 1 .. Len(s)
    <3>3. g[n - 1] \in Nat /\ g[n] \in Nat
      BY ONLY <1>4, <3>2
    <3>4. g[n] = g[n - 1] + s[n]
      BY ONLY <1>2, n \in 1 .. Len(s) DEF Sums
    <3> QED
      BY ONLY <3>1, <3>3, <3>4
  <2>3. CASE n <= Len(t)
    <3>1. n \in 1 .. Len(t) /\ n - 1 <= Len(t)
      BY <1>1, <2>3
    <3>2. h[n] = h[n - 1] + t[n] /\ h[n - 1] = g[n - 1] /\ t[n] = s[n]
      BY <1>3, <2>1, <3>1 DEF Sums
    <3>3. h[n] = g[n]
      BY <2>2, <3>2
    <3>4. Len(t) <= n => Len(t) = n
      BY <1>1, <2>3
    <3>5. Len(t) <= n => h[Len(t)] <= g[n]
      BY <2>2, <3>3, <3>4
    <3> QED
      BY <2>1, <3>3, <3>5
  <2>4. CASE ~(n <= Len(t))
    <3>1. Len(t) <= n - 1
      BY <1>1, <2>4
    <3>2. h[Len(t)] <= g[n - 1] /\ h[Len(t)] \in Nat
      BY <1>1, <1>4, <2>1, <3>1
    <3>3. h[Len(t)] <= g[n]
      BY <2>2, <3>2
    <3> QED
      BY <2>1, <2>4, <3>3
  <2> QED
    BY <2>3, <2>4
<1>7. P = 0 .. Len(s)
  <2>1. Len(s) \in Nat /\ P \in SUBSET (0 .. Len(s))
    OBVIOUS
  <2> HIDE DEF P
  <2> QED
    BY <1>5, <1>6, <2>1, IntervalFromZero
<1>8. Known(Len(s))
  <2>1. Len(s) \in 0 .. Len(s)
    BY <1>1
  <2> HIDE DEF Known
  <2> QED
    BY <1>7, <2>1
<1> QED
  BY <1>1, <1>2, <1>3, <1>8

\* s with zeros at the first n positions in c.
Zeroed(s, c, n) ==
    [k \in 1 .. Len(s) |-> IF \E m \in 1 .. n : c[m] = k THEN 0 ELSE s[k]]

(* What is taken out of a sequence at different positions.                 *)
LEMMA TotalOfZeroed ==
    ASSUME NEW s \in Seq(Nat), NEW c \in Seq(1 .. Len(s)),
           \A m, n \in 1 .. Len(c) : c[m] = c[n] => m = n,
           NEW t \in Seq(Nat), Len(t) = Len(c), \A n \in 1 .. Len(c) : t[n] = s[c[n]]
    PROVE  /\ Zeroed(s, c, Len(c)) \in Seq(Nat)
           /\ Total(Zeroed(s, c, Len(c))) + Total(t) = Total(s)
<1>1. t \in Seq(Int) /\ Len(s) \in Nat /\ Len(c) \in Nat
  OBVIOUS
<1>2. PICK g : Sums(g, t) /\ Total(t) = g[Len(t)]
  BY <1>1, TotalIsLastSum
<1>3. \A n \in 0 .. Len(c) : g[n] \in Nat
  BY <1>2, SumsAreNatural
<1>4. \A n \in 0 .. Len(c) : Zeroed(s, c, n) \in Seq(Nat) /\ Len(Zeroed(s, c, n)) = Len(s)
  BY <1>1 DEF Zeroed
<1> DEFINE P == {n \in 0 .. Len(c) : Total(Zeroed(s, c, n)) + g[n] = Total(s)}
<1>5. 0 \in P
  <2>1. Zeroed(s, c, 0) = s
    <3>1. \A k \in 1 .. Len(s) : ~ \E m \in 1 .. 0 : c[m] = k
      OBVIOUS
    <3>2. Zeroed(s, c, 0) = [k \in 1 .. Len(s) |-> s[k]]
      BY <3>1 DEF Zeroed
    <3>3. s = [k \in 1 .. Len(s) |-> s[k]]
      OBVIOUS
    <3> QED
      BY ONLY <3>2, <3>3
  <2>2. g[0] = 0
    BY <1>2 DEF Sums
  <2>3. Total(s) \in Nat
    BY TotalType
  <2> QED
    BY <1>1, <2>1, <2>2, <2>3
<1>6. ASSUME NEW n \in 1 .. Len(c), n - 1 \in P
      PROVE  n \in P
  <2>1. PICK z : z = Zeroed(s, c, n - 1)
    OBVIOUS
  <2>2. PICK k : k = c[n]
    OBVIOUS
  <2>3. n - 1 \in 0 .. Len(c) /\ n \in 0 .. Len(c)
    BY <1>1
  <2>4. z \in Seq(Nat) /\ Len(z) = Len(s) /\ k \in 1 .. Len(s)
    <3>1. z \in Seq(Nat) /\ Len(z) = Len(s)
      BY ONLY <1>4, <2>1, <2>3
    <3>2. k \in 1 .. Len(s)
      BY ONLY <2>2, c \in Seq(1 .. Len(s)), n \in 1 .. Len(c)
    <3> QED
      BY <3>1, <3>2
  <2>5. z[k] = s[k]
    <3>1. ~ \E m \in 1 .. n - 1 : c[m] = k
      BY <1>1, <2>2
    <3> QED
      BY <2>1, <2>4, <3>1 DEF Zeroed
  <2>6. PICK y : y = [z EXCEPT ![k] = 0]
    OBVIOUS
  <2>7. y \in Seq(Nat) /\ Total(y) + z[k] = Total(z) + 0
    <3>1. k \in 1 .. Len(z) /\ 0 \in Nat
      BY <2>4
    <3>2. LET w == [z EXCEPT ![k] = 0]
          IN  w \in Seq(Nat) /\ Total(w) + z[k] = Total(z) + 0
      BY ONLY <2>4, <3>1, TotalExcept
    <3> QED
      BY ONLY <2>6, <3>2
  <2>8. y = Zeroed(s, c, n)
    <3>1. y = [i \in 1 .. Len(s) |-> IF i = k THEN 0 ELSE z[i]]
      <4>1. DOMAIN z = 1 .. Len(s)
        BY ONLY <2>4
      <4>2. y = [i \in DOMAIN z |-> IF i = k THEN 0 ELSE z[i]]
        BY ONLY <2>6
      <4> QED
        BY ONLY <4>1, <4>2
    <3>2. \A i \in 1 .. Len(s) :
            (IF i = k THEN 0 ELSE z[i]) = IF \E m \in 1 .. n : c[m] = i THEN 0 ELSE s[i]
      <4> SUFFICES ASSUME NEW i \in 1 .. Len(s)
                   PROVE  (IF i = k THEN 0 ELSE z[i])
                            = IF \E m \in 1 .. n : c[m] = i THEN 0 ELSE s[i]
        OBVIOUS
      <4>1. z[i] = IF \E m \in 1 .. n - 1 : c[m] = i THEN 0 ELSE s[i]
        BY <2>1 DEF Zeroed
      <4>2. (\E m \in 1 .. n : c[m] = i) <=> (i = k \/ \E m \in 1 .. n - 1 : c[m] = i)
        <5>0. n \in Nat /\ n >= 1
          BY ONLY <2>3, <1>1, n \in 1 .. Len(c)
        <5>1. 1 .. n = (1 .. n - 1) \cup {n}
          BY ONLY <5>0
        <5>2. (\E m \in 1 .. n : c[m] = i) <=> (c[n] = i \/ \E m \in 1 .. n - 1 : c[m] = i)
          BY ONLY <5>1
        <5> QED
          BY ONLY <2>2, <5>2
      <4> QED
        BY <4>1, <4>2
    <3> QED
      BY <3>1, <3>2 DEF Zeroed
  <2>9. g[n] = g[n - 1] + s[k]
    <3>1. n \in 1 .. Len(t)
      BY <1>1
    <3>2. g[n] = g[n - 1] + t[n]
      BY <1>2, <3>1 DEF Sums
    <3> QED
      BY <2>2, <3>2
  <2>10. Total(z) + g[n - 1] = Total(s)
    BY <1>6, <2>1
  <2>11. Total(y) \in Nat /\ Total(z) \in Nat /\ Total(s) \in Nat /\ s[k] \in Nat
          /\ g[n - 1] \in Nat
    <3>1. Total(y) \in Nat /\ Total(z) \in Nat /\ Total(s) \in Nat
      BY ONLY s \in Seq(Nat), <2>4, <2>7, TotalType
    <3>2. s[k] \in Nat /\ g[n - 1] \in Nat
      <4>1. s[k] \in Nat
        BY ONLY s \in Seq(Nat), <2>4, ElementOfSeq
      <4>2. g[n - 1] \in Nat
        BY ONLY <1>3, <2>3
      <4> QED
        BY <4>1, <4>2
    <3> QED
      BY <3>1, <3>2
  <2>12. Total(y) + g[n] = Total(s)
    <3>1. PICK a, b, d, e, f \in Nat :
             a = Total(y) /\ b = Total(z) /\ d = Total(s) /\ e = s[k] /\ f = g[n - 1]
      BY <2>11
    <3>2. a + e = b + 0 /\ g[n] = f + e /\ b + f = d
      BY ONLY <2>5, <2>7, <2>9, <2>10, <3>1
    <3>3. a + g[n] = d
      BY ONLY a \in Nat, b \in Nat, d \in Nat, e \in Nat, f \in Nat, <3>2
    <3> QED
      BY <3>1, <3>3
  <2> QED
    BY <2>3, <2>8, <2>12
<1>7. P = 0 .. Len(c)
  <2>1. Len(c) \in Nat /\ P \in SUBSET (0 .. Len(c))
    BY <1>1
  <2> HIDE DEF P
  <2> QED
    BY <1>5, <1>6, <2>1, IntervalFromZero
<1>8. Len(c) \in P
  BY <1>1, <1>7
<1> QED
  BY <1>1, <1>2, <1>4, <1>8

-----------------------------------------------------------------------------
(* What a program can see of a well-formed heap.                           *)

LEMMA Joined ==
    ASSUME NEW S, NEW s \in Seq(S), NEW t \in Seq(S)
    PROVE  LET g == s \o t
           IN  /\ g \in Seq(S) /\ Len(g) = Len(s) + Len(t)
               /\ \A x \in 1 .. Len(s) : g[x] = s[x]
               /\ \A x \in Len(s) + 1 .. Len(g) : g[x] = t[x - Len(s)]
  BY ConcatProperties

AllocsOK(A) ==
    /\ A \in Seq([kind : Kinds, body : Seq(Value)])
    /\ \A i \in DOMAIN A : WellFormedAt(A, i)

LEMMA AllocsAre ==
    ASSUME NEW A, AllocsOK(A)
    PROVE  /\ DOMAIN A = 1 .. Len(A) /\ Len(A) \in Nat
           /\ \A i \in 1 .. Len(A) : A[i].kind \in Kinds /\ A[i].body \in Seq(Value)
                                     /\ WellFormedAt(A, i)
           /\ Ordered(A)
           /\ PartsAreUnique(A)
<1>1. /\ DOMAIN A = 1 .. Len(A) /\ Len(A) \in Nat
      /\ \A i \in 1 .. Len(A) : A[i].kind \in Kinds /\ A[i].body \in Seq(Value)
                                /\ WellFormedAt(A, i)
  <2>1. A \in Seq([kind : Kinds, body : Seq(Value)])
    BY DEF AllocsOK
  <2>2. DOMAIN A = 1 .. Len(A) /\ Len(A) \in Nat
    BY ONLY <2>1
  <2>3. ASSUME NEW i \in 1 .. Len(A)
        PROVE  A[i].kind \in Kinds /\ A[i].body \in Seq(Value)
    <3>1. A[i] \in [kind : Kinds, body : Seq(Value)]
      BY ONLY <2>1, i \in 1 .. Len(A), ElementOfSeq
    <3> QED
      BY ONLY <3>1
  <2>4. \A i \in 1 .. Len(A) : WellFormedAt(A, i)
    BY ONLY AllocsOK(A), <2>2 DEF AllocsOK
  <2> QED
    BY ONLY <2>2, <2>3, <2>4
<1>2. Ordered(A)
  <2> SUFFICES ASSUME NEW k \in 1 .. Len(A), HasNext(A[k])
               PROVE  Part(A[k]) \in k + 1 .. Len(A) /\ A[Part(A[k])].kind = "props"
    BY <1>1 DEF Ordered
  <2>1. Part(A[k]) \in 1 .. Len(A) /\ k < Part(A[k]) /\ A[Part(A[k])].kind = "props"
    BY <1>1 DEF WellFormedAt, HasNext
  <2> QED
    BY <1>1, <2>1
<1>3. PartsAreUnique(A)
  <2> SUFFICES ASSUME NEW p \in 1 .. Len(A), NEW q \in 1 .. Len(A), HasPart(A[p]), HasPart(A[q]),
                      Part(A[p]) = Part(A[q])
               PROVE  p = q
    BY <1>1 DEF PartsAreUnique
  <2>1. WellFormedAt(A, q)
    BY <1>1
  <2>2. \A k \in DOMAIN A : HasPart(A[k]) /\ Part(A[k]) = Part(A[q]) => k = q
    BY <2>1 DEF WellFormedAt
  <2> QED
    BY <1>1, <2>2
<1> QED
  BY <1>1, <1>2, <1>3

LEMMA FieldsAre ==
    ASSUME NEW A, AllocsOK(A), NEW j \in 1 .. Len(A), A[j].kind = "props"
    PROVE  /\ Fields(A[j]) \in Seq(Value)
           /\ Len(A[j].body) \in Nat /\ Len(A[j].body) >= 2
           /\ Len(Fields(A[j])) = Len(A[j].body) - 2
           /\ \A m \in 1 .. Len(Fields(A[j])) : Fields(A[j])[m] = A[j].body[m + 2]
           /\ PropCount(A[j]) \in Nat /\ Len(Fields(A[j])) = 2 * PropCount(A[j])
<1>1. PICK b : b = A[j].body
  OBVIOUS
<1>2. b \in Seq(Value) /\ Len(b) >= 2 /\ Len(b) % 2 = 0 /\ Len(b) \in Nat
  <2>1. b \in Seq(Value) /\ WellFormedAt(A, j)
    BY <1>1, AllocsAre
  <2>2. Len(b) >= 2 /\ Len(b) % 2 = 0
    BY ONLY <1>1, <2>1, A[j].kind = "props" DEF WellFormedAt
  <2>3. Len(b) \in Nat
    BY ONLY <2>1
  <2> QED
    BY ONLY <2>1, <2>2, <2>3
<1>3. PICK f : f = SubSeq(b, 3, Len(b))
  OBVIOUS
<1>4. f \in Seq(Value) /\ Len(f) = Len(b) - 2 /\ \A m \in 1 .. Len(f) : f[m] = b[m + 2]
  <2>1. b \in Seq(Value) /\ Len(b) \in Nat /\ Len(b) >= 2
    BY <1>2
  <2>2. Len(f) = Len(b) - 2
    <3>1. PICK n \in Nat : n = Len(b)
      BY ONLY <2>1
    <3>2. n >= 2 /\ f = SubSeq(b, 3, n)
      BY ONLY <1>3, <2>1, <3>1
    <3>3. Len(f) = IF 3 <= n THEN n - 3 + 1 ELSE 0
      BY ONLY n \in Nat, <3>2
    <3> QED
      BY ONLY n \in Nat, <3>1, <3>2, <3>3
  <2>3. \A m \in 1 .. Len(f) : f[m] = b[m + 2]
    BY ONLY <1>3, <2>1, <2>2
  <2>4. f \in Seq(Value)
    BY ONLY <1>3, <2>1
  <2> QED
    BY <2>2, <2>3, <2>4
<1>5. Fields(A[j]) = f
  BY <1>1, <1>3 DEF Fields
<1>6. Len(f) \div 2 \in Nat /\ Len(f) = 2 * (Len(f) \div 2)
  <2>1. PICK n \in Nat : n = Len(b)
    BY <1>2
  <2>2. n >= 2 /\ n % 2 = 0 /\ Len(f) = n - 2
    BY <1>2, <1>4, <2>1
  <2>3. (n - 2) \div 2 \in Nat /\ n - 2 = 2 * ((n - 2) \div 2)
    BY ONLY n \in Nat, <2>2
  <2> QED
    BY ONLY <2>2, <2>3
<1>7. PropCount(A[j]) = Len(f) \div 2
  BY <1>5 DEF PropCount
<1> QED
  BY <1>1, <1>2, <1>4, <1>5, <1>6, <1>7

FieldsIn(A, c) == [n \in DOMAIN c |-> Fields(A[c[n]])]
Lengths(A, c)  == [n \in DOMAIN c |-> Len(Fields(A[c[n]]))]

LEMMA MergedIs ==
    ASSUME NEW A, AllocsOK(A), NEW i \in 1 .. Len(A), A[i].kind = "props"
    PROVE  LET c == Chain(A, i)
           IN  /\ IsChain(A, i, c) /\ Lengths(A, c) \in Seq(Nat)
               /\ Merged(A, i) \in Seq(Value)
               /\ Len(Merged(A, i)) = Len(A[i].body) + Total(Lengths(A, c))
               /\ Merged(A, i)[1] = Null
               /\ Len(Merged(A, i)) >= 2
               /\ Merged(A, i)[2] = A[i].body[2]
               /\ \A x \in 3 .. Len(Merged(A, i)) :
                     \E j \in 1 .. Len(A) : /\ A[j].kind = "props"
                                            /\ \E m \in 3 .. Len(A[j].body) :
                                                  Merged(A, i)[x] = A[j].body[m]
<1> PICK c : c = Chain(A, i)
  OBVIOUS
<1>1. DOMAIN A = 1 .. Len(A) /\ Len(A) \in Nat /\ Ordered(A)
  BY AllocsAre
<1>2. IsChain(A, i, c)
  BY <1>1, ChainIsChain
<1>3. c \in Seq(1 .. Len(A)) /\ \A n \in 1 .. Len(c) : A[c[n]].kind = "props"
  BY <1>2 DEF IsChain
<1>4. PICK ss : ss = FieldsIn(A, c)
  OBVIOUS
<1>5. PICK lens : lens = Lengths(A, c)
  OBVIOUS
<1>6. \A n \in 1 .. Len(c) : /\ c[n] \in 1 .. Len(A) /\ Fields(A[c[n]]) \in Seq(Value)
                             /\ Len(Fields(A[c[n]])) \in Nat
  <2> SUFFICES ASSUME NEW n \in 1 .. Len(c)
               PROVE  /\ c[n] \in 1 .. Len(A) /\ Fields(A[c[n]]) \in Seq(Value)
                      /\ Len(Fields(A[c[n]])) \in Nat
    OBVIOUS
  <2>1. c[n] \in 1 .. Len(A) /\ A[c[n]].kind = "props"
    BY <1>3
  <2>2. Fields(A[c[n]]) \in Seq(Value)
    BY <2>1, FieldsAre
  <2> QED
    BY <2>1, <2>2
<1>7. DOMAIN c = 1 .. Len(c) /\ Len(c) \in Nat
  BY <1>3
<1>8. /\ ss \in Seq(Seq(Value)) /\ Len(ss) = Len(c)
      /\ \A n \in 1 .. Len(c) : ss[n] = Fields(A[c[n]])
  BY <1>4, <1>6, <1>7 DEF FieldsIn
<1>9. /\ lens \in Seq(Nat) /\ Len(lens) = Len(c)
      /\ \A n \in 1 .. Len(c) : lens[n] = Len(Fields(A[c[n]]))
  BY <1>5, <1>6, <1>7 DEF Lengths
<1>10. PICK z : z = FlattenSeq(ss)
  OBVIOUS
<1>11. /\ z \in Seq(Value) /\ Len(z) = Total(lens)
       /\ \A x \in 1 .. Len(z) :
             \E n \in 1 .. Len(ss) : \E m \in 1 .. Len(ss[n]) : z[x] = ss[n][m]
  <2>1. \A n \in 1 .. Len(ss) : lens[n] = Len(ss[n])
    BY <1>8, <1>9
  <2>2. /\ FlattenSeq(ss) \in Seq(Value) /\ Len(FlattenSeq(ss)) = Total(lens)
        /\ \A x \in 1 .. Len(FlattenSeq(ss)) :
              \E n \in 1 .. Len(ss) : \E m \in 1 .. Len(ss[n]) : FlattenSeq(ss)[x] = ss[n][m]
    <3>1. ss \in Seq(Seq(Value)) /\ lens \in Seq(Nat) /\ Len(lens) = Len(ss)
      BY <1>8, <1>9
    <3> QED
      BY ONLY <2>1, <3>1, Flattened
  <2> QED
    BY <1>10, <2>2
<1>12. PICK f : f = Fields(A[i])
  OBVIOUS
<1>13. /\ f \in Seq(Value) /\ Len(f) = Len(A[i].body) - 2 /\ Len(A[i].body) \in Nat
       /\ \A m \in 1 .. Len(f) : f[m] = A[i].body[m + 2]
  BY <1>12, FieldsAre
<1>14. A[i].body[2] \in Value /\ Null \in Value
  <2>1. A[i].body \in Seq(Value) /\ Len(A[i].body) >= 2
    BY AllocsAre, FieldsAre
  <2>2. A[i].body[2] \in Value
    BY ONLY <2>1
  <2> QED
    BY <2>2 DEF Null, Value
<1>15. PICK h : h = <<Null, A[i].body[2]>>
  OBVIOUS
<1>16. h \in Seq(Value) /\ Len(h) = 2 /\ h[1] = Null /\ h[2] = A[i].body[2]
  BY <1>14, <1>15
<1>17. PICK y : y = Merged(A, i)
  OBVIOUS
<1>18. y = (h \o f) \o z
  BY <1>4, <1>10, <1>12, <1>15, <1>17 DEF Merged, FieldsIn
<1>19. PICK g : g = h \o f
  OBVIOUS
<1>20. /\ g \in Seq(Value) /\ Len(g) = 2 + Len(f)
       /\ g[1] = h[1] /\ g[2] = h[2] /\ \A x \in 3 .. Len(g) : g[x] = f[x - 2]
  <2>1. h \in Seq(Value) /\ f \in Seq(Value)
    BY <1>13, <1>16
  <2>2. LET u == h \o f
        IN  /\ u \in Seq(Value) /\ Len(u) = Len(h) + Len(f)
            /\ \A x \in 1 .. Len(h) : u[x] = h[x]
            /\ \A x \in Len(h) + 1 .. Len(u) : u[x] = f[x - Len(h)]
    BY ONLY <2>1, Joined
  <2>3. /\ g \in Seq(Value) /\ Len(g) = Len(h) + Len(f)
        /\ \A x \in 1 .. Len(h) : g[x] = h[x]
        /\ \A x \in Len(h) + 1 .. Len(g) : g[x] = f[x - Len(h)]
    BY ONLY <1>19, <2>2
  <2>4. Len(h) = 2
    BY <1>16
  <2> QED
    BY ONLY <2>3, <2>4
<1>21. /\ y \in Seq(Value) /\ Len(y) = Len(g) + Len(z) /\ Len(g) \in Nat /\ Len(z) \in Nat
       /\ \A x \in 1 .. Len(y) : y[x] = IF x <= Len(g) THEN g[x] ELSE z[x - Len(g)]
  <2>1. y = g \o z /\ g \in Seq(Value) /\ z \in Seq(Value)
    BY <1>11, <1>18, <1>19, <1>20
  <2> QED
    BY ONLY <2>1
<1>22. Len(y) = Len(A[i].body) + Total(lens) /\ Len(y) >= 2
  BY ONLY <1>11, <1>13, <1>20, <1>21
<1>23. y[1] = Null /\ y[2] = A[i].body[2]
  <2>1. Len(f) \in Nat
    BY <1>13
  <2>2. 1 \in 1 .. Len(y) /\ 2 \in 1 .. Len(y) /\ 1 <= Len(g) /\ 2 <= Len(g)
    BY ONLY <1>20, <1>21, <2>1
  <2> QED
    BY ONLY <1>16, <1>20, <1>21, <2>2
<1>24. ASSUME NEW x \in 3 .. Len(y)
       PROVE  \E j \in 1 .. Len(A) : /\ A[j].kind = "props"
                                     /\ \E m \in 3 .. Len(A[j].body) : y[x] = A[j].body[m]
  <2>1. CASE x <= Len(g)
    <3>1. x - 2 \in 1 .. Len(f) /\ y[x] = f[x - 2]
      BY <1>20, <1>21, <2>1
    <3>2. f[x - 2] = A[i].body[x]
      BY <1>13, <3>1
    <3>3. x \in 3 .. Len(A[i].body)
      BY <1>13, <3>1
    <3> QED
      BY <3>1, <3>2, <3>3
  <2>2. CASE ~(x <= Len(g))
    <3>1. x - Len(g) \in 1 .. Len(z) /\ y[x] = z[x - Len(g)]
      BY <1>21, <2>2
    <3>2. PICK n \in 1 .. Len(ss) : \E m \in 1 .. Len(ss[n]) : z[x - Len(g)] = ss[n][m]
      BY <1>11, <3>1
    <3>3. PICK j : j = c[n]
      OBVIOUS
    <3>4. j \in 1 .. Len(A) /\ A[j].kind = "props" /\ ss[n] = Fields(A[j])
      BY <1>3, <1>6, <1>8, <3>3
    <3>5. PICK m \in 1 .. Len(Fields(A[j])) : y[x] = Fields(A[j])[m]
      BY <3>1, <3>2, <3>4
    <3>6. Fields(A[j])[m] = A[j].body[m + 2] /\ Len(Fields(A[j])) = Len(A[j].body) - 2
           /\ Len(A[j].body) \in Nat
      BY <3>4, <3>5, FieldsAre
    <3>7. m + 2 \in 3 .. Len(A[j].body)
      BY <3>6
    <3> QED
      BY <3>4, <3>5, <3>6, <3>7
  <2> QED
    BY <2>1, <2>2
<1> QED
  BY <1>2, <1>5, <1>9, <1>17, <1>21, <1>22, <1>23, <1>24

LEMMA Shortened ==
    ASSUME NEW S, NEW s \in Seq(S), NEW n \in 0 .. Len(s)
    PROVE  LET g == SubSeq(s, 1, n)
           IN  g \in Seq(S) /\ Len(g) = n /\ \A x \in 1 .. n : g[x] = s[x]
<1>1. 1 \in Int /\ n \in Int /\ \A x \in 1 .. n : s[x] \in S
  OBVIOUS
<1>2. /\ SubSeq(s, 1, n) \in Seq(S) /\ Len(SubSeq(s, 1, n)) = IF 1 <= n THEN n - 1 + 1 ELSE 0
      /\ \A x \in 1 .. n - 1 + 1 : SubSeq(s, 1, n)[x] = s[1 + x - 1]
  BY ONLY <1>1, SubSeqProperties
<1>3. n \in Nat
  OBVIOUS
<1> QED
  BY ONLY <1>2, <1>3

LEMMA ValuesAre ==
    ASSUME NEW v \in Value
    PROVE  v[2] \in Nat /\ v = <<v[1], v[2]>> /\ v[1] \in {"null", "prim", "from"}
  BY DEF Value

\* The array at o has elements, and the allocation at i holds them.
Cuts(A, o, i) == /\ A[o].kind = "array" /\ HasPart(A[o]) /\ A[o].body[2] # Prim(0)
                 /\ Part(A[o]) = i

\* A slot never leads to a part, but to the storage of an array with elements.
SlotOK(A, i, n, v) ==
    IsFrom(v) => /\ v[2] \in 1 .. Len(A)
                 /\ v[2] \notin Parts(A) \/ (n = 1 /\ Cuts(A, i, v[2]))

LEMMA SharedSlots ==
    ASSUME NEW A, AllocsOK(A), NEW i \in 1 .. Len(A), A[i].kind # "leaf",
           NEW m \in 1 .. Len(A[i].body), m >= 2 \/ ~HasPart(A[i]), IsFrom(A[i].body[m])
    PROVE  A[i].body[m][2] \in (1 .. Len(A)) \ Parts(A)
<1>1. PICK b : b = A[i].body
  OBVIOUS
<1>2. b \in Seq(Value) /\ WellFormedAt(A, i) /\ DOMAIN A = 1 .. Len(A)
  BY <1>1, AllocsAre
<1>3. PICK s : s = IF HasPart(A[i]) THEN Tail(b) ELSE b
  OBVIOUS
<1>4. Pointers(s) \subseteq (1 .. Len(A)) \ Parts(A)
  BY <1>1, <1>2, <1>3 DEF WellFormedAt, Shared
<1>5. b[m] \in Range(s)
  <2>1. CASE ~HasPart(A[i])
    <3>1. m \in DOMAIN b
      BY ONLY <1>1, <1>2, m \in 1 .. Len(A[i].body)
    <3> QED
      BY ONLY <1>3, <2>1, <3>1 DEF Range
  <2>2. CASE HasPart(A[i])
    <3>1. m - 1 \in 1 .. Len(b) - 1 /\ b # << >> /\ Len(b) \in Nat
      BY <1>1, <1>2, <2>2
    <3>2. /\ Len(Tail(b)) = Len(b) - 1 /\ Tail(b) \in Seq(Value)
          /\ \A k \in 1 .. Len(Tail(b)) : Tail(b)[k] = b[k + 1]
      BY ONLY <1>2, <3>1, HeadTailProperties
    <3>3. m - 1 \in 1 .. Len(Tail(b)) /\ Tail(b)[m - 1] = b[(m - 1) + 1] /\ (m - 1) + 1 = m
      BY <1>1, <3>1, <3>2
    <3>4. m - 1 \in DOMAIN Tail(b) /\ Tail(b)[m - 1] = b[m]
      BY ONLY <3>2, <3>3
    <3> QED
      BY ONLY <1>3, <2>2, <3>4 DEF Range
  <2> QED
    BY <2>1, <2>2
<1>6. b[m][2] \in Pointers(s)
  BY <1>1, <1>5 DEF Pointers
<1> QED
  BY <1>1, <1>4, <1>6

LEMMA KeptIs ==
    ASSUME NEW A, AllocsOK(A), NEW i \in 1 .. Len(A)
    PROVE  /\ \A o \in 1 .. Len(A) : A[o].kind = "array" /\ HasPart(A[o]) /\ Part(A[o]) = i =>
                 /\ A[o].body[2][2] \in 0 .. Len(A[i].body) /\ A[i].kind = "data"
                 /\ Kept(A, i) = SubSeq(A[i].body, 1, A[o].body[2][2])
           /\ A[i].kind # "data" => Kept(A, i) = A[i].body
           /\ (\A o \in 1 .. Len(A) :
                 ~(A[o].kind = "array" /\ HasPart(A[o]) /\ Part(A[o]) = i)) => Kept(A, i) = A[i].body
           /\ Kept(A, i) \in Seq(Value) /\ Len(Kept(A, i)) <= Len(A[i].body)
           /\ \A n \in 1 .. Len(Kept(A, i)) : Kept(A, i)[n] = A[i].body[n]
<1> DEFINE Owner(o) == A[o].kind = "array" /\ HasPart(A[o]) /\ Part(A[o]) = i
           owners   == {o \in DOMAIN A : Owner(o)}
<1>1. DOMAIN A = 1 .. Len(A) /\ A[i].body \in Seq(Value)
  BY AllocsAre
<1>2. PICK b : b = A[i].body
  OBVIOUS
<1>3. b \in Seq(Value) /\ Len(b) \in Nat
  BY <1>1, <1>2
<1>4. ASSUME NEW o \in owners
      PROVE  /\ A[o].body[2][2] \in 0 .. Len(b) /\ A[i].kind = "data"
             /\ \A k \in owners : k = o
  <2>1. o \in 1 .. Len(A) /\ Owner(o)
    BY <1>1, <1>4
  <2>2. WellFormedAt(A, o) /\ A[o].body \in Seq(Value)
    BY <2>1, AllocsAre
  <2>3. /\ Len(A[o].body) = 2 /\ A[i].kind = "data" /\ A[o].body[2][2] <= Len(b)
        /\ \A k \in DOMAIN A : HasPart(A[k]) /\ Part(A[k]) = Part(A[o]) => k = o
    BY ONLY <1>2, <2>1, <2>2 DEF WellFormedAt
  <2>4. A[o].body[2] \in Value
    <3>1. 2 \in 1 .. Len(A[o].body)
      BY ONLY <2>3
    <3> QED
      BY ONLY <2>2, <3>1, ElementOfSeq
  <2>5. A[o].body[2][2] \in Nat
    BY <2>4, ValuesAre
  <2> QED
    BY <1>1, <1>3, <2>1, <2>3, <2>5
<1>5. Kept(A, i) = IF owners = {} THEN b ELSE SubSeq(b, 1, A[CHOOSE o \in owners : TRUE].body[2][2])
  BY ONLY <1>2 DEF Kept
<1>6. ASSUME NEW o \in owners
      PROVE  Kept(A, i) = SubSeq(b, 1, A[o].body[2][2])
  <2> HIDE DEF owners
  <2>1. (CHOOSE k \in owners : TRUE) \in owners
    BY <1>6
  <2>2. (CHOOSE k \in owners : TRUE) = o
    BY <1>4, <2>1
  <2> QED
    BY <1>5, <1>6, <2>2
<1>7. owners = {} => Kept(A, i) = b
  BY <1>5
<1>8. /\ Kept(A, i) \in Seq(Value) /\ Len(Kept(A, i)) <= Len(b)
      /\ \A n \in 1 .. Len(Kept(A, i)) : Kept(A, i)[n] = b[n]
  <2> HIDE DEF owners
  <2>1. CASE owners = {}
    BY <1>3, <1>7, <2>1
  <2>2. ASSUME NEW o \in owners
        PROVE  /\ Kept(A, i) \in Seq(Value) /\ Len(Kept(A, i)) <= Len(b)
               /\ \A n \in 1 .. Len(Kept(A, i)) : Kept(A, i)[n] = b[n]
    <3>1. PICK len : len = A[o].body[2][2]
      OBVIOUS
    <3>2. len \in 0 .. Len(b)
      BY <1>4, <2>2, <3>1
    <3>3. LET g == SubSeq(b, 1, len)
          IN  g \in Seq(Value) /\ Len(g) = len /\ \A x \in 1 .. len : g[x] = b[x]
      BY ONLY <1>3, <3>2, Shortened
    <3>4. Kept(A, i) = SubSeq(b, 1, len)
      BY <1>6, <2>2, <3>1
    <3> QED
      BY ONLY <1>3, <3>2, <3>3, <3>4
  <2> QED
    BY <2>1, <2>2
<1>9. A[i].kind # "data" => owners = {}
  BY <1>4
<1>10. (\A o \in 1 .. Len(A) : ~Owner(o)) => owners = {}
  OBVIOUS
<1>11. \A o \in 1 .. Len(A) : Owner(o) => o \in owners
  BY <1>1
<1> HIDE DEF owners
<1> QED
  BY <1>2, <1>4, <1>6, <1>7, <1>8, <1>9, <1>10, <1>11


Counts(A, c) == [n \in DOMAIN c |-> PropCount(A[c[n]])]

(* The lists of an object have no more properties than the merged list has room. *)
LEMMA PropsFit ==
    ASSUME NEW A, AllocsOK(A), NEW i \in 1 .. Len(A), A[i].kind = "props"
    PROVE  LET c == Chain(A, i)
           IN  /\ c \in Seq(1 .. Len(A)) /\ Counts(A, c) \in Seq(Nat) /\ Len(Counts(A, c)) = Len(c)
               /\ \A n \in 1 .. Len(c) : PropCount(A[c[n]]) \in Nat
               /\ PropCount(A[i]) \in Nat
               /\ Len(Merged(A, i)) = 2 + 2 * PropCount(A[i]) + 2 * Total(Counts(A, c))
               /\ Len(A[i].body) = 2 + 2 * PropCount(A[i])
               /\ \A n \in 0 .. Len(c) :
                     /\ PropsUpTo(A, i, n) \in Nat
                     /\ PropCount(A[i]) <= PropsUpTo(A, i, n)
                     /\ PropsUpTo(A, i, n) <= PropCount(A[i]) + Total(Counts(A, c))
               /\ \A n \in 1 .. Len(c) :
                     PropsUpTo(A, i, n) = PropsUpTo(A, i, n - 1) + PropCount(A[c[n]])
<1> PICK c : c = Chain(A, i)
  OBVIOUS
<1>1. /\ IsChain(A, i, c) /\ Lengths(A, c) \in Seq(Nat)
      /\ Len(Merged(A, i)) = Len(A[i].body) + Total(Lengths(A, c))
  BY MergedIs
<1>2. c \in Seq(1 .. Len(A)) /\ \A n \in 1 .. Len(c) : A[c[n]].kind = "props"
  BY <1>1 DEF IsChain
<1>3. DOMAIN c = 1 .. Len(c) /\ Len(c) \in Nat /\ \A n \in 1 .. Len(c) : c[n] \in 1 .. Len(A)
  BY <1>2
<1>4. \A n \in 1 .. Len(c) : /\ PropCount(A[c[n]]) \in Nat
                             /\ Len(Fields(A[c[n]])) = 2 * PropCount(A[c[n]])
  <2> SUFFICES ASSUME NEW n \in 1 .. Len(c)
               PROVE  /\ PropCount(A[c[n]]) \in Nat
                      /\ Len(Fields(A[c[n]])) = 2 * PropCount(A[c[n]])
    OBVIOUS
  <2>1. c[n] \in 1 .. Len(A) /\ A[c[n]].kind = "props"
    BY <1>2, <1>3
  <2> QED
    BY <2>1, FieldsAre
<1>5. PICK s : s = Counts(A, c)
  OBVIOUS
<1>6. /\ s \in Seq(Nat) /\ Len(s) = Len(c)
      /\ \A n \in 1 .. Len(c) : s[n] = PropCount(A[c[n]])
  BY <1>3, <1>4, <1>5 DEF Counts
<1>7. PICK t : t = Lengths(A, c)
  OBVIOUS
<1>8. /\ t \in Seq(Nat) /\ Len(t) = Len(c)
      /\ \A n \in 1 .. Len(c) : t[n] = 2 * s[n]
  BY <1>3, <1>4, <1>6, <1>7 DEF Lengths
<1>9. Total(t) = 2 * Total(s) /\ Total(s) \in Nat
  <2>1. s \in Seq(Nat) /\ t \in Seq(Nat) /\ Len(s) = Len(t) /\ \A n \in 1 .. Len(s) : t[n] = 2 * s[n]
    BY <1>6, <1>8
  <2> QED
    BY ONLY <2>1, TotalDouble, TotalType
<1>10. /\ PropCount(A[i]) \in Nat /\ Len(Fields(A[i])) = 2 * PropCount(A[i])
       /\ Len(Fields(A[i])) = Len(A[i].body) - 2 /\ Len(A[i].body) \in Nat
  BY FieldsAre
<1>11. Len(A[i].body) = 2 + 2 * PropCount(A[i])
  BY <1>10
<1>12. Len(Merged(A, i)) = 2 + 2 * PropCount(A[i]) + 2 * Total(Counts(A, c))
  BY <1>1, <1>5, <1>7, <1>9, <1>10, <1>11
<1> DEFINE head(n) == [k \in 1 .. n |-> PropCount(A[c[k]])]
<1>13. \A n \in 0 .. Len(c) : PropsUpTo(A, i, n) = PropCount(A[i]) + Total(head(n))
  BY DEF PropsUpTo
<1>14. ASSUME NEW n \in 0 .. Len(c)
       PROVE  /\ head(n) \in Seq(Nat) /\ Len(head(n)) = n
              /\ \A k \in 1 .. n : head(n)[k] = s[k]
              /\ Total(head(n)) \in Nat /\ Total(head(n)) <= Total(s)
  <2>1. \A k \in 1 .. n : PropCount(A[c[k]]) \in Nat /\ s[k] = PropCount(A[c[k]]) /\ n \in Nat
    <3>1. n \in Nat /\ \A k \in 1 .. n : k \in 1 .. Len(c)
      BY ONLY <1>3, n \in 0 .. Len(c)
    <3> QED
      BY ONLY <1>4, <1>6, <3>1
  <2>2. /\ head(n) \in Seq(Nat) /\ Len(head(n)) = n
        /\ \A k \in 1 .. n : head(n)[k] = s[k]
    <3>1. n \in Nat /\ \A k \in 1 .. n : PropCount(A[c[k]]) \in Nat
      BY <2>1, <1>3
    <3>2. head(n) \in [1 .. n -> Nat]
      BY ONLY <3>1
    <3>3. head(n) \in Seq(Nat) /\ Len(head(n)) = n
      BY ONLY <3>1, <3>2
    <3>4. \A k \in 1 .. n : head(n)[k] = s[k]
      BY ONLY <2>1
    <3> QED
      BY <3>3, <3>4
  <2> HIDE DEF head
  <2>3. Total(head(n)) \in Nat
    BY ONLY <2>2, TotalType
  <2>4. head(n) \in Seq(Nat) /\ Len(head(n)) <= Len(s)
         /\ \A k \in 1 .. Len(head(n)) : head(n)[k] = s[k]
    BY <1>3, <1>6, <2>2
  <2>5. Total(head(n)) <= Total(s)
    BY ONLY <1>6, <2>4, TotalOfPrefix
  <2> QED
    BY <2>2, <2>3, <2>5
<1>15. ASSUME NEW n \in 1 .. Len(c)
       PROVE  Total(head(n)) = Total(head(n - 1)) + PropCount(A[c[n]])
  <2>1. n - 1 \in 0 .. Len(c) /\ n \in 0 .. Len(c)
    BY <1>3
  <2>2. PICK x \in Nat : x = PropCount(A[c[n]])
    BY <1>4
  <2>3. head(n - 1) \in Seq(Nat)
    BY <1>14, <2>1
  <2>4. head(n) = Append(head(n - 1), x)
    <3>1. /\ head(n - 1) \in Seq(Nat) /\ Len(head(n - 1)) = n - 1
          /\ head(n) \in Seq(Nat) /\ Len(head(n)) = n
      BY <1>14, <2>1
    <3>2. \A k \in 1 .. n - 1 : head(n)[k] = head(n - 1)[k]
      OBVIOUS
    <3>3. head(n)[n] = x
      BY <2>2
    <3> HIDE DEF head
    <3>4. LET y == Append(head(n - 1), x)
          IN  /\ y \in Seq(Nat) /\ Len(y) = Len(head(n - 1)) + 1
              /\ \A k \in 1 .. Len(head(n - 1)) : y[k] = head(n - 1)[k]
              /\ y[Len(head(n - 1)) + 1] = x
      BY ONLY <3>1, x \in Nat, AppendProperties
    <3>5. PICK y : y = Append(head(n - 1), x)
      OBVIOUS
    <3>6. /\ y \in Seq(Nat) /\ Len(y) = n
          /\ \A k \in 1 .. n : y[k] = head(n)[k]
      <4>1. /\ y \in Seq(Nat) /\ Len(y) = Len(head(n - 1)) + 1
            /\ \A k \in 1 .. Len(head(n - 1)) : y[k] = head(n - 1)[k]
            /\ y[Len(head(n - 1)) + 1] = x
        BY ONLY <3>4, <3>5
      <4>2. Len(head(n - 1)) = n - 1 /\ n \in Nat /\ n >= 1
        BY <1>3, <3>1
      <4>3. Len(y) = n /\ y[n] = x /\ \A k \in 1 .. n - 1 : y[k] = head(n - 1)[k]
        BY ONLY <4>1, <4>2
      <4> QED
        BY ONLY <3>2, <3>3, <4>1, <4>2, <4>3
    <3>7. y = head(n)
      BY ONLY <3>1, <3>6, SeqEqual
    <3> QED
      BY ONLY <3>5, <3>7
  <2> HIDE DEF head
  <2> QED
    BY ONLY <2>2, <2>3, <2>4, TotalAppend
<1>16. ASSUME NEW n \in 0 .. Len(c)
       PROVE  /\ PropsUpTo(A, i, n) \in Nat
              /\ PropCount(A[i]) <= PropsUpTo(A, i, n)
              /\ PropsUpTo(A, i, n) <= PropCount(A[i]) + Total(Counts(A, c))
  <2> HIDE DEF head
  <2>1. Total(head(n)) \in Nat /\ Total(head(n)) <= Total(s)
    BY <1>14
  <2>2. PropsUpTo(A, i, n) = PropCount(A[i]) + Total(head(n))
    BY <1>13
  <2>3. PICK a, b, d \in Nat : a = PropCount(A[i]) /\ b = Total(head(n)) /\ d = Total(s)
    BY ONLY <1>9, <1>10, <2>1
  <2>4. PropsUpTo(A, i, n) = a + b /\ b <= d
    BY ONLY <2>1, <2>2, <2>3
  <2> QED
    BY ONLY <1>5, <2>3, <2>4
<1>17. ASSUME NEW n \in 1 .. Len(c)
       PROVE  PropsUpTo(A, i, n) = PropsUpTo(A, i, n - 1) + PropCount(A[c[n]])
  <2>1. n - 1 \in 0 .. Len(c) /\ n \in 0 .. Len(c)
    BY <1>3
  <2> HIDE DEF head
  <2>2. Total(head(n - 1)) \in Nat /\ Total(head(n)) \in Nat /\ PropCount(A[c[n]]) \in Nat
    BY <1>4, <1>14, <2>1
  <2>3. PropsUpTo(A, i, n) = PropCount(A[i]) + Total(head(n))
    BY <1>13, <2>1
  <2>4. PropsUpTo(A, i, n - 1) = PropCount(A[i]) + Total(head(n - 1))
    BY <1>13, <2>1
  <2>5. Total(head(n)) = Total(head(n - 1)) + PropCount(A[c[n]])
    BY <1>15
  <2> QED
    BY ONLY <1>10, <2>2, <2>3, <2>4, <2>5
<1> HIDE DEF head
<1> QED
  BY <1>2, <1>4, <1>5, <1>6, <1>10, <1>11, <1>12, <1>16, <1>17


LEMMA VisibleIs ==
    ASSUME NEW A, AllocsOK(A), NEW i \in 1 .. Len(A)
    PROVE  LET V == Visible(A, i)
           IN  /\ V \in Seq(Value)
               /\ A[i].kind = "props" => V = Merged(A, i)
               /\ A[i].kind # "props" => Len(V) <= Len(A[i].body)
               /\ A[i].kind \in {"leaf", "cell"} => V = A[i].body
               /\ A[i].kind = "data" => V = Kept(A, i)
               /\ A[i].kind = "array" =>
                     /\ Len(V) = 2 /\ V[2] = A[i].body[2]
                     /\ V[1] = IF A[i].body[2] = Prim(0) THEN Null ELSE A[i].body[1]
                     /\ A[i].body[2] # Prim(0) => V = A[i].body
<1> PICK V : V = Visible(A, i)
  OBVIOUS
<1>1. A[i].body \in Seq(Value) /\ A[i].kind \in Kinds /\ WellFormedAt(A, i) /\ AllocsOK(A)
  BY AllocsAre
<1>2. Kept(A, i) \in Seq(Value) /\ Len(Kept(A, i)) <= Len(A[i].body)
      /\ (A[i].kind # "data" => Kept(A, i) = A[i].body)
  BY KeptIs
<1>3. CASE A[i].kind = "props"
  <2>1. V = Merged(A, i)
    BY <1>3 DEF Visible
  <2>2. Merged(A, i) \in Seq(Value)
    BY <1>3, MergedIs
  <2> QED
    BY <1>3, <2>1, <2>2
<1>4. CASE A[i].kind = "array"
  <2>1. PICK b : b = A[i].body
    OBVIOUS
  <2>2. b \in Seq(Value) /\ Len(b) = 2 /\ b[2][1] = "prim"
    BY <1>1, <1>4, <2>1 DEF WellFormedAt
  <2>3. CASE b[2] = Prim(0)
    <3>1. V = <<Null, Prim(0)>>
      BY <1>4, <2>1, <2>3 DEF Visible
    <3>2. Null \in Value /\ Prim(0) \in Value
      BY DEF Null, Prim, Value
    <3>3. V \in Seq(Value) /\ Len(V) = 2 /\ V[1] = Null /\ V[2] = Prim(0)
      BY ONLY <3>1, <3>2
    <3> QED
      BY <1>4, <2>1, <2>2, <2>3, <3>3
  <2>4. CASE b[2] # Prim(0)
    <3>1. V = b
      BY <1>2, <1>4, <2>1, <2>4 DEF Visible
    <3>2. V \in Seq(Value) /\ Len(V) = 2 /\ V[1] = b[1] /\ V[2] = b[2]
      BY ONLY <2>2, <3>1
    <3>3. A[i].body[1] = b[1] /\ A[i].body[2] = b[2] /\ V = A[i].body
      BY ONLY <2>1, <3>1
    <3> QED
      BY <1>4, <2>4, <3>2, <3>3
  <2> QED
    BY <2>3, <2>4
<1>5. CASE A[i].kind \in {"leaf", "cell", "data"}
  <2>1. V = Kept(A, i)
    BY <1>5 DEF Visible
  <2> QED
    BY <1>2, <1>5, <2>1
<1> QED
  BY <1>1, <1>3, <1>4, <1>5 DEF Kinds

LEMMA VisibleSlots ==
    ASSUME NEW A, AllocsOK(A), NEW i \in 1 .. Len(A),
           A[i].kind # "leaf"
    PROVE  LET V == Visible(A, i)
           IN  \A n \in 1 .. Len(V) : SlotOK(A, i, n, V[n])
<1> PICK V : V = Visible(A, i)
  OBVIOUS
<1> SUFFICES ASSUME NEW n \in 1 .. Len(V), IsFrom(V[n])
             PROVE  /\ V[n][2] \in 1 .. Len(A)
                    /\ V[n][2] \notin Parts(A) \/ (n = 1 /\ Cuts(A, i, V[n][2]))
  BY DEF SlotOK
<1>1. A[i].body \in Seq(Value) /\ A[i].kind \in Kinds /\ WellFormedAt(A, i)
      /\ Len(A[i].body) \in Nat /\ DOMAIN A = 1 .. Len(A)
  <2>1. A[i].body \in Seq(Value) /\ A[i].kind \in Kinds /\ WellFormedAt(A, i) /\ DOMAIN A = 1 .. Len(A)
    BY AllocsAre
  <2> QED
    BY <2>1
<1>2. V \in Seq(Value) /\ Len(V) \in Nat
  BY VisibleIs
<1>3. CASE A[i].kind = "props"
  <2>1. V = Merged(A, i)
    BY <1>3, VisibleIs
  <2>2. /\ V[1] = Null /\ Len(V) >= 2 /\ V[2] = A[i].body[2]
        /\ \A x \in 3 .. Len(V) :
              \E j \in 1 .. Len(A) : /\ A[j].kind = "props"
                                     /\ \E m \in 3 .. Len(A[j].body) : V[x] = A[j].body[m]
    <3>1. LET c == Chain(A, i)
          IN  /\ IsChain(A, i, c) /\ Lengths(A, c) \in Seq(Nat)
              /\ Merged(A, i) \in Seq(Value)
              /\ Len(Merged(A, i)) = Len(A[i].body) + Total(Lengths(A, c))
              /\ Merged(A, i)[1] = Null
              /\ Len(Merged(A, i)) >= 2
              /\ Merged(A, i)[2] = A[i].body[2]
              /\ \A x \in 3 .. Len(Merged(A, i)) :
                    \E j \in 1 .. Len(A) : /\ A[j].kind = "props"
                                           /\ \E m \in 3 .. Len(A[j].body) :
                                                 Merged(A, i)[x] = A[j].body[m]
      BY ONLY AllocsOK(A), i \in 1 .. Len(A), <1>3, MergedIs
    <3> QED
      BY ONLY <2>1, <3>1
  <2>3. n # 1
    BY <2>2 DEF IsFrom, Null
  <2>4. PICK j \in 1 .. Len(A) : /\ A[j].kind = "props"
                                 /\ \E m \in 2 .. Len(A[j].body) : V[n] = A[j].body[m]
    <3>1. CASE n = 2
      <4>1. 2 \in 2 .. Len(A[i].body)
        BY <1>1, <1>3 DEF WellFormedAt
      <4> QED
        BY <1>3, <2>2, <3>1, <4>1
    <3>2. CASE n # 2
      <4>1. n \in 3 .. Len(V)
        BY <1>2, <2>3, <3>2
      <4>2. PICK j \in 1 .. Len(A) : /\ A[j].kind = "props"
                                     /\ \E m \in 3 .. Len(A[j].body) : V[n] = A[j].body[m]
        BY <2>2, <4>1
      <4> QED
        BY <4>2
    <3> QED
      BY <3>1, <3>2
  <2>5. PICK m \in 2 .. Len(A[j].body) : V[n] = A[j].body[m]
    BY <2>4
  <2>6. m \in 1 .. Len(A[j].body) /\ m >= 2 /\ IsFrom(A[j].body[m]) /\ A[j].kind # "leaf"
    BY <2>4, <2>5
  <2>7. A[j].body[m][2] \in (1 .. Len(A)) \ Parts(A)
    BY <2>6, SharedSlots
  <2> QED
    BY <2>5, <2>7
<1>4. CASE A[i].kind = "array"
  <2>1. /\ Len(V) = 2 /\ V[2] = A[i].body[2]
        /\ V[1] = IF A[i].body[2] = Prim(0) THEN Null ELSE A[i].body[1]
    BY <1>4, VisibleIs
  <2>2. Len(A[i].body) = 2 /\ A[i].body[2][1] = "prim"
    BY <1>1, <1>4 DEF WellFormedAt
  <2>3. n = 1 /\ A[i].body[2] # Prim(0) /\ V[n] = A[i].body[1]
    <3>1. n # 2
      BY <2>1, <2>2 DEF IsFrom
    <3>2. n = 1
      BY <2>1, <3>1
    <3> QED
      BY <2>1, <3>2 DEF IsFrom, Null
  <2>4. HasPart(A[i]) /\ Part(A[i]) = V[n][2]
    BY <1>4, <2>3 DEF HasPart, Part, IsFrom, Null
  <2>5. Part(A[i]) \in 1 .. Len(A)
    BY <1>1, <2>4 DEF WellFormedAt
  <2> QED
    BY <1>4, <2>3, <2>4, <2>5 DEF Cuts
<1>5. CASE A[i].kind \in {"cell", "data"}
  <2>1. n \in 1 .. Len(A[i].body) /\ V[n] = A[i].body[n]
    <3>1. V = Kept(A, i) \/ V = A[i].body
      BY <1>5, VisibleIs
    <3>2. Len(Kept(A, i)) <= Len(A[i].body) /\ \A x \in 1 .. Len(Kept(A, i)) : Kept(A, i)[x] = A[i].body[x]
      BY KeptIs
    <3> QED
      BY <1>1, <1>2, <3>1, <3>2
  <2>2. ~HasPart(A[i])
    BY <1>5 DEF HasPart
  <2>3. A[i].body[n][2] \in (1 .. Len(A)) \ Parts(A)
    BY <1>5, <2>1, <2>2, SharedSlots
  <2> QED
    BY <2>1, <2>3
<1> QED
  BY <1>1, <1>3, <1>4, <1>5 DEF Kinds


-----------------------------------------------------------------------------
(* The invariant of a collection: what the old and the new heap have to do  *)
(* with the heap before it.  A and R are its allocations and roots; F, T,   *)
(* rs, d, s, w and p are from, to, roots, rootsDone, scanned, word, phase.  *)

NewValue == {"null", "prim", "from", "to"} \X Nat

Tombstoned == [kind : Kinds, body : Seq(Value), moved : Nat]

\* The storage of an array is cut when the array moved.
FromOK(A, F, size) ==
    /\ F \in Seq(Tombstoned) /\ Len(F) = Len(A)
    /\ \A i \in 1 .. Len(A) :
          /\ F[i].moved \in 0 .. size
          /\ F[i].kind = A[i].kind
          /\ F[i].body = IF \E o \in 1 .. Len(A) : Cuts(A, o, i) /\ F[o].moved # 0
                         THEN Kept(A, i) ELSE A[i].body
          /\ F[i].moved # 0 /\ A[i].kind = "props" => i \notin Parts(A)

\* Every place in the new heap has exactly one tombstone that leads to it.
MovedOK(F, size) ==
    /\ \A i, j \in 1 .. Len(F) : F[i].moved = F[j].moved /\ F[i].moved # 0 => i = j
    /\ \A k \in 1 .. size : \E i \in 1 .. Len(F) : F[i].moved = k

\* The slot with the value v is processed to x.
Follows(F, v, x) == IF IsFrom(v) THEN F[v[2]].moved # 0 /\ x = To(F[v[2]].moved) ELSE x = v

Scanned(s, w, k, n) == k <= s \/ (k = s + 1 /\ n <= w)

\* The allocation at k is the copy of the one at i.
CopyOK(A, F, T, s, w, i, k) ==
    /\ T[k].kind = A[i].kind
    /\ Len(T[k].body) = Len(Visible(A, i))
    /\ \A n \in 1 .. Len(Visible(A, i)) :
          IF A[i].kind # "leaf" /\ Scanned(s, w, k, n)
          THEN Follows(F, Visible(A, i)[n], T[k].body[n])
          ELSE T[k].body[n] = Visible(A, i)[n]

Copies == [kind : Kinds, body : Seq(NewValue)]

ToOK(A, F, T, s, w) ==
    /\ T \in Seq(Copies)
    /\ \A i \in 1 .. Len(A) : F[i].moved # 0 => CopyOK(A, F, T, s, w, i, F[i].moved)

RootsOK(R, F, rs, d) ==
    /\ rs \in Seq(NewValue) /\ Len(rs) = Len(R) /\ d \in 0 .. Len(R)
    /\ \A n \in 1 .. Len(R) : IF n <= d THEN Follows(F, R[n], rs[n]) ELSE rs[n] = R[n]

\* What has moved is in every set that is closed under what the program sees.
Reached(h, F) ==
    \A S \in SUBSET DOMAIN h.allocs :
        Closed(h, S) => \A i \in DOMAIN h.allocs : F[i].moved # 0 => i \in S

PhaseOK(R, T, d, s, w, p) ==
    /\ s \in 0 .. Len(T) /\ w \in Nat
    /\ p \in {"roots", "scan", "done", "fatal", "overrun"}
    /\ p = "roots" => s = 0 /\ w = 0
    /\ p \in {"scan", "done"} => d = Len(R)
    /\ p = "done" => s = Len(T)
    /\ w = 0 \/ (s < Len(T) /\ w <= Len(T[s + 1].body) /\ T[s + 1].kind # "leaf")

\* How a collection ends early.
Stopped == {"fatal", "overrun"}

\* An allocation that a slot leads to: no part, or the storage of an array that moved.
TargetOK(A, F, j) ==
    /\ j \in 1 .. Len(A)
    /\ j \notin Parts(A) \/ \E o \in 1 .. Len(A) : Cuts(A, o, j) /\ F[o].moved # 0

LEMMA BodyUpdate ==
    ASSUME NEW F \in Seq(Tombstoned), NEW j \in 1 .. Len(F), NEW b \in Seq(Value)
    PROVE  LET G == [F EXCEPT ![j].body = b]
           IN  /\ G \in Seq(Tombstoned) /\ Len(G) = Len(F)
               /\ \A i \in 1 .. Len(F) : /\ G[i].kind = F[i].kind /\ G[i].moved = F[i].moved
                                         /\ G[i].body = IF i = j THEN b ELSE F[i].body
<1>1. PICK x : x = F[j]
  OBVIOUS
<1>2. x \in Tombstoned
  BY ONLY <1>1, F \in Seq(Tombstoned), j \in 1 .. Len(F), ElementOfSeq
<1>3. PICK y : y = [x EXCEPT !.body = b]
  OBVIOUS
<1>4. y \in Tombstoned /\ y.kind = x.kind /\ y.moved = x.moved /\ y.body = b
  BY ONLY <1>2, <1>3, b \in Seq(Value) DEF Tombstoned
<1>5. [F EXCEPT ![j].body = b] = [F EXCEPT ![j] = y]
  BY ONLY <1>1, <1>3, F \in Seq(Tombstoned), j \in 1 .. Len(F)
<1>6. PICK G : G = [F EXCEPT ![j].body = b]
  OBVIOUS
<1>7. G \in Seq(Tombstoned) /\ Len(G) = Len(F) /\ \A i \in 1 .. Len(F) : G[i] = IF i = j THEN y ELSE F[i]
  <2>1. LET g == [F EXCEPT ![j] = y]
        IN  g \in Seq(Tombstoned) /\ Len(g) = Len(F) /\ \A i \in 1 .. Len(F) : g[i] = IF i = j THEN y ELSE F[i]
    BY ONLY <1>4, F \in Seq(Tombstoned), j \in 1 .. Len(F), ExceptSeq
  <2> QED
    BY ONLY <1>5, <1>6, <2>1
<1>8. \A i \in 1 .. Len(F) : /\ G[i].kind = F[i].kind /\ G[i].moved = F[i].moved
                             /\ G[i].body = IF i = j THEN b ELSE F[i].body
  BY ONLY <1>1, <1>4, <1>7
<1> QED
  BY <1>6, <1>7, <1>8

LEMMA MovedUpdate ==
    ASSUME NEW F \in Seq(Tombstoned), NEW j \in 1 .. Len(F), NEW m \in Nat
    PROVE  LET G == [F EXCEPT ![j].moved = m]
           IN  /\ G \in Seq(Tombstoned) /\ Len(G) = Len(F)
               /\ \A i \in 1 .. Len(F) : /\ G[i].kind = F[i].kind /\ G[i].body = F[i].body
                                         /\ G[i].moved = IF i = j THEN m ELSE F[i].moved
<1>1. PICK x : x = F[j]
  OBVIOUS
<1>2. x \in Tombstoned
  BY ONLY <1>1, F \in Seq(Tombstoned), j \in 1 .. Len(F), ElementOfSeq
<1>3. PICK y : y = [x EXCEPT !.moved = m]
  OBVIOUS
<1>4. y \in Tombstoned /\ y.kind = x.kind /\ y.body = x.body /\ y.moved = m
  BY ONLY <1>2, <1>3, m \in Nat DEF Tombstoned
<1>5. [F EXCEPT ![j].moved = m] = [F EXCEPT ![j] = y]
  BY ONLY <1>1, <1>3, F \in Seq(Tombstoned), j \in 1 .. Len(F)
<1>6. PICK G : G = [F EXCEPT ![j].moved = m]
  OBVIOUS
<1>7. G \in Seq(Tombstoned) /\ Len(G) = Len(F) /\ \A i \in 1 .. Len(F) : G[i] = IF i = j THEN y ELSE F[i]
  <2>1. LET g == [F EXCEPT ![j] = y]
        IN  g \in Seq(Tombstoned) /\ Len(g) = Len(F) /\ \A i \in 1 .. Len(F) : g[i] = IF i = j THEN y ELSE F[i]
    BY ONLY <1>4, F \in Seq(Tombstoned), j \in 1 .. Len(F), ExceptSeq
  <2> QED
    BY ONLY <1>5, <1>6, <2>1
<1>8. \A i \in 1 .. Len(F) : /\ G[i].kind = F[i].kind /\ G[i].body = F[i].body
                             /\ G[i].moved = IF i = j THEN m ELSE F[i].moved
  BY ONLY <1>1, <1>4, <1>7
<1> QED
  BY <1>6, <1>7, <1>8

LEMMA CutsAre ==
    ASSUME NEW A, AllocsOK(A), NEW o \in 1 .. Len(A), NEW i, Cuts(A, o, i)
    PROVE  /\ i \in 1 .. Len(A) /\ i \in Parts(A) /\ A[i].kind = "data"
           /\ A[o].kind = "array" /\ HasPart(A[o]) /\ Part(A[o]) = i
           /\ A[o].body[2][2] \in 0 .. Len(A[i].body)
           /\ Kept(A, i) = SubSeq(A[i].body, 1, A[o].body[2][2])
           /\ \A q \in 1 .. Len(A) : Cuts(A, q, i) => q = o
<1>1. DOMAIN A = 1 .. Len(A) /\ WellFormedAt(A, o) /\ PartsAreUnique(A)
  BY AllocsAre
<1>2. A[o].kind = "array" /\ HasPart(A[o]) /\ Part(A[o]) = i
  BY DEF Cuts
<1>3. i \in 1 .. Len(A)
  BY <1>1, <1>2 DEF WellFormedAt
<1>4. i \in Parts(A)
  BY <1>1, <1>2 DEF Parts
<1>5. /\ A[o].body[2][2] \in 0 .. Len(A[i].body) /\ A[i].kind = "data"
      /\ Kept(A, i) = SubSeq(A[i].body, 1, A[o].body[2][2])
  BY <1>2, <1>3, KeptIs
<1>6. \A q \in 1 .. Len(A) : Cuts(A, q, i) => q = o
  BY <1>1, <1>2 DEF Cuts, PartsAreUnique
<1> QED
  BY <1>2, <1>3, <1>4, <1>5, <1>6

LEMMA FromFields ==
    ASSUME NEW A, AllocsOK(A), NEW F, NEW size, FromOK(A, F, size)
    PROVE  /\ DOMAIN F = 1 .. Len(A) /\ Len(F) = Len(A) /\ Len(A) \in Nat /\ DOMAIN A = 1 .. Len(A)
           /\ \A i \in 1 .. Len(A) : /\ F[i].kind = A[i].kind /\ F[i].body \in Seq(Value)
                                     /\ A[i].kind # "data" => F[i].body = A[i].body
                                     /\ Len(F[i].body) <= Len(A[i].body)
<1>1. DOMAIN A = 1 .. Len(A) /\ Len(A) \in Nat
  BY AllocsAre
<1>2. F \in Seq(Tombstoned) /\ Len(F) = Len(A)
  BY DEF FromOK
<1>3. ASSUME NEW i \in 1 .. Len(A)
      PROVE  /\ F[i].kind = A[i].kind /\ F[i].body \in Seq(Value)
             /\ A[i].kind # "data" => F[i].body = A[i].body
             /\ Len(F[i].body) <= Len(A[i].body)
  <2>1. F[i] \in Tombstoned
    BY ONLY <1>2, i \in 1 .. Len(A), ElementOfSeq
  <2>2. F[i].body \in Seq(Value)
    BY ONLY <2>1 DEF Tombstoned
  <2>3. F[i].kind = A[i].kind
    BY DEF FromOK
  <2>4. F[i].body = IF \E o \in 1 .. Len(A) : Cuts(A, o, i) /\ F[o].moved # 0
                    THEN Kept(A, i) ELSE A[i].body
    BY DEF FromOK
  <2>5. CASE \E o \in 1 .. Len(A) : Cuts(A, o, i) /\ F[o].moved # 0
    <3>1. A[i].kind = "data"
      BY <2>5, CutsAre
    <3>2. Len(Kept(A, i)) <= Len(A[i].body)
      BY KeptIs
    <3>3. F[i].body = Kept(A, i)
      BY <2>4, <2>5
    <3> QED
      BY ONLY <2>2, <2>3, <3>1, <3>2, <3>3
  <2>6. CASE ~\E o \in 1 .. Len(A) : Cuts(A, o, i) /\ F[o].moved # 0
    <3>1. F[i].body = A[i].body
      BY <2>4, <2>6
    <3> QED
      BY ONLY <2>2, <2>3, <3>1
  <2> QED
    BY <2>5, <2>6
<1> QED
  BY <1>1, <1>2, <1>3

(* The chains and the merged lists of the old heap stay what they were.    *)
LEMMA MergedAgrees ==
    ASSUME NEW A, AllocsOK(A), NEW F, NEW size, FromOK(A, F, size), NEW i \in 1 .. Len(A),
           A[i].kind = "props"
    PROVE  /\ Chain(F, i) = Chain(A, i)
           /\ Merged(F, i) = Merged(A, i)
           /\ PropCount(F[i]) = PropCount(A[i])
           /\ \A n \in 1 .. Len(Chain(A, i)) : PropCount(F[Chain(A, i)[n]]) = PropCount(A[Chain(A, i)[n]])
           /\ \A n \in 0 .. Len(Chain(A, i)) : PropsUpTo(F, i, n) = PropsUpTo(A, i, n)
<1>1. /\ DOMAIN F = 1 .. Len(A) /\ Len(F) = Len(A) /\ DOMAIN A = 1 .. Len(A)
      /\ \A k \in 1 .. Len(A) : F[k].kind = A[k].kind /\ (A[k].kind # "data" => F[k].body = A[k].body)
  BY FromFields
<1>2. Ordered(A)
  BY AllocsAre
<1>3. Chain(F, i) = Chain(A, i)
  BY <1>1, <1>2, ChainAgrees
<1>4. PICK c : c = Chain(A, i)
  OBVIOUS
<1>5. IsChain(A, i, c)
  BY <1>2, <1>4, ChainIsChain
<1>6. /\ DOMAIN c = 1 .. Len(c) /\ Len(c) \in Nat
      /\ \A n \in 1 .. Len(c) : c[n] \in 1 .. Len(A) /\ A[c[n]].kind = "props"
  BY <1>5 DEF IsChain
<1>7. \A k \in 1 .. Len(A) : A[k].kind = "props" =>
         Fields(F[k]) = Fields(A[k]) /\ PropCount(F[k]) = PropCount(A[k])
  BY <1>1 DEF Fields, PropCount
<1>8. [n \in DOMAIN c |-> Fields(F[c[n]])] = [n \in DOMAIN c |-> Fields(A[c[n]])]
  BY <1>6, <1>7
<1>9. F[i].body = A[i].body /\ Fields(F[i]) = Fields(A[i])
  BY <1>1, <1>7
<1>10. Merged(F, i) = Merged(A, i)
  BY <1>3, <1>4, <1>8, <1>9 DEF Merged
<1>11. \A n \in 1 .. Len(c) : PropCount(F[c[n]]) = PropCount(A[c[n]])
  BY <1>6, <1>7
<1>12. ASSUME NEW n \in 0 .. Len(c)
       PROVE  PropsUpTo(F, i, n) = PropsUpTo(A, i, n)
  <2>1. [k \in 1 .. n |-> PropCount(F[c[k]])] = [k \in 1 .. n |-> PropCount(A[c[k]])]
    BY <1>6, <1>11
  <2>2. PropCount(F[i]) = PropCount(A[i])
    BY <1>7
  <2> QED
    BY <1>3, <1>4, <2>1, <2>2 DEF PropsUpTo
<1> QED
  BY <1>3, <1>4, <1>7, <1>10, <1>11, <1>12

LEMMA CompactedIs ==
    ASSUME NEW A, AllocsOK(A), NEW F, NEW size, FromOK(A, F, size), NEW j, TargetOK(A, F, j)
    PROVE  Compacted(F, j).body = Visible(A, j)
<1>1. j \in 1 .. Len(A)
  BY DEF TargetOK
<1>2. PICK x : x = F[j]
  OBVIOUS
<1>3. F[j].kind = A[j].kind /\ (A[j].kind # "data" => F[j].body = A[j].body) /\ A[j].kind \in Kinds
  BY <1>1, FromFields, AllocsAre
<1>4. F[j] \in Tombstoned
  <2>1. F \in Seq(Tombstoned) /\ j \in 1 .. Len(F)
    BY <1>1 DEF FromOK
  <2> QED
    BY ONLY <2>1, ElementOfSeq
<1>5. CASE A[j].kind = "props"
  <2>1. Compacted(F, j) = [x EXCEPT !.body = Merged(F, j)]
    BY <1>2, <1>3, <1>5 DEF Compacted
  <2>2. Compacted(F, j).body = Merged(F, j)
    BY ONLY <1>2, <1>4, <2>1 DEF Tombstoned
  <2>3. Merged(F, j) = Merged(A, j)
    BY <1>1, <1>5, MergedAgrees
  <2>4. Visible(A, j) = Merged(A, j)
    BY <1>5 DEF Visible
  <2> QED
    BY <2>2, <2>3, <2>4
<1>6. CASE A[j].kind = "array"
  <2>1. PICK b : b = A[j].body
    OBVIOUS
  <2>2. b \in Seq(Value) /\ Len(b) = 2 /\ F[j].body = b /\ x.body = b
    <3>1. WellFormedAt(A, j) /\ A[j].body \in Seq(Value)
      BY <1>1, AllocsAre
    <3> QED
      BY <1>2, <1>3, <1>6, <2>1, <3>1 DEF WellFormedAt
  <2>3. CASE b[2] = Prim(0)
    <3>1. Compacted(F, j) = [x EXCEPT !.body[1] = Null]
      BY <1>2, <1>3, <1>6, <2>2, <2>3 DEF Compacted
    <3>2. Compacted(F, j).body = [b EXCEPT ![1] = Null]
      BY ONLY <1>2, <1>4, <2>2, <3>1 DEF Tombstoned
    <3>3. [b EXCEPT ![1] = Null] = <<Null, Prim(0)>>
      BY ONLY <2>2, <2>3
    <3>4. Visible(A, j) = <<Null, Prim(0)>>
      BY <1>6, <2>1, <2>3 DEF Visible
    <3> QED
      BY <3>2, <3>3, <3>4
  <2>4. CASE b[2] # Prim(0)
    <3>1. Compacted(F, j) = F[j]
      BY <1>3, <1>6, <2>2, <2>4 DEF Compacted
    <3>2. Visible(A, j) = A[j].body
      BY <1>1, <1>6, <2>1, <2>4, VisibleIs
    <3> QED
      BY <2>1, <2>2, <3>1, <3>2
  <2> QED
    BY <2>3, <2>4
<1>7. CASE A[j].kind \in {"leaf", "cell"}
  <2>1. Compacted(F, j) = F[j]
    BY <1>3, <1>7 DEF Compacted
  <2>2. Visible(A, j) = A[j].body
    BY <1>1, <1>7, VisibleIs
  <2> QED
    BY <1>3, <1>7, <2>1, <2>2
<1>8. CASE A[j].kind = "data"
  <2>1. Compacted(F, j) = F[j]
    BY <1>3, <1>8 DEF Compacted
  <2>2. Visible(A, j) = Kept(A, j)
    BY <1>1, <1>8, VisibleIs
  <2>3. F[j].body = IF \E o \in 1 .. Len(A) : Cuts(A, o, j) /\ F[o].moved # 0
                    THEN Kept(A, j) ELSE A[j].body
    BY <1>1 DEF FromOK
  <2>4. CASE \E o \in 1 .. Len(A) : Cuts(A, o, j) /\ F[o].moved # 0
    BY <2>1, <2>2, <2>3, <2>4
  <2>5. CASE ~\E o \in 1 .. Len(A) : Cuts(A, o, j) /\ F[o].moved # 0
    <3>1. j \notin Parts(A)
      BY <2>5 DEF TargetOK
    <3>2. \A o \in 1 .. Len(A) : ~(A[o].kind = "array" /\ HasPart(A[o]) /\ Part(A[o]) = j)
      <4>1. DOMAIN A = 1 .. Len(A)
        BY AllocsAre
      <4> QED
        BY <3>1, <4>1 DEF Parts
    <3>3. Kept(A, j) = A[j].body
      BY <1>1, <3>2, KeptIs
    <3> QED
      BY <2>1, <2>2, <2>3, <2>5, <3>3
  <2> QED
    BY <2>4, <2>5
<1> QED
  BY <1>3, <1>5, <1>6, <1>7, <1>8 DEF Kinds


LEMMA CutStorageIs ==
    ASSUME NEW A, AllocsOK(A), NEW F, NEW size, FromOK(A, F, size),
           NEW j \in 1 .. Len(A), F[j].moved = 0
    PROVE  LET C == CutStorage(F, j)
           IN  /\ C \in Seq(Tombstoned) /\ Len(C) = Len(F)
               /\ \A i \in 1 .. Len(A) :
                     /\ C[i].kind = F[i].kind /\ C[i].moved = F[i].moved
                     /\ C[i].body = IF Cuts(A, j, i) THEN Kept(A, i) ELSE F[i].body
<1>1. F \in Seq(Tombstoned) /\ Len(F) = Len(A)
  BY DEF FromOK
<1>2. F[j].kind = A[j].kind /\ (A[j].kind # "data" => F[j].body = A[j].body)
  BY FromFields
<1>3. PICK i : i = Part(A[j])
  OBVIOUS
<1>4. CASE Cuts(A, j, i)
  <2>1. /\ i \in 1 .. Len(A) /\ A[i].kind = "data" /\ A[j].kind = "array" /\ HasPart(A[j])
        /\ A[j].body[2][2] \in 0 .. Len(A[i].body)
        /\ Kept(A, i) = SubSeq(A[i].body, 1, A[j].body[2][2])
        /\ \A q \in 1 .. Len(A) : Cuts(A, q, i) => q = j
    BY <1>4, CutsAre
  <2>2. F[i].body = A[i].body
    BY <2>1 DEF FromOK
  <2>3. /\ F[j].kind = "array" /\ HasPart(F[j]) /\ F[j].body[2] # Prim(0) /\ Part(F[j]) = i
        /\ F[j].body[2][2] = A[j].body[2][2]
    BY <1>2, <1>3, <1>4, <2>1 DEF Cuts, HasPart, Part
  <2>4. PICK b : b = SubSeq(F[i].body, 1, F[j].body[2][2])
    OBVIOUS
  <2>5. b = Kept(A, i) /\ b \in Seq(Value)
    <3>1. Kept(A, i) \in Seq(Value)
      BY <2>1, KeptIs
    <3> QED
      BY <2>1, <2>2, <2>3, <2>4, <3>1
  <2>6. CutStorage(F, j) = [F EXCEPT ![i].body = b]
    <3>1. CutStorage(F, j) = [F EXCEPT ![i].body = SubSeq(@, 1, F[j].body[2][2])]
      BY ONLY <2>3 DEF CutStorage
    <3> QED
      BY ONLY <2>4, <3>1
  <2>7. PICK C : C = CutStorage(F, j)
    OBVIOUS
  <2>8. /\ C \in Seq(Tombstoned) /\ Len(C) = Len(F)
        /\ \A k \in 1 .. Len(F) : /\ C[k].kind = F[k].kind /\ C[k].moved = F[k].moved
                                  /\ C[k].body = IF k = i THEN b ELSE F[k].body
    <3>1. LET G == [F EXCEPT ![i].body = b]
          IN  /\ G \in Seq(Tombstoned) /\ Len(G) = Len(F)
              /\ \A k \in 1 .. Len(F) : /\ G[k].kind = F[k].kind /\ G[k].moved = F[k].moved
                                        /\ G[k].body = IF k = i THEN b ELSE F[k].body
      <4>1. i \in 1 .. Len(F) /\ b \in Seq(Value)
        BY <1>1, <2>1, <2>5
      <4> QED
        BY ONLY <1>1, <4>1, BodyUpdate
    <3> QED
      BY ONLY <2>6, <2>7, <3>1
  <2>9. \A k : Cuts(A, j, k) <=> k = i
    BY <1>3, <1>4 DEF Cuts
  <2>10. /\ C \in Seq(Tombstoned) /\ Len(C) = Len(F)
         /\ \A k \in 1 .. Len(A) :
               /\ C[k].kind = F[k].kind /\ C[k].moved = F[k].moved
               /\ C[k].body = IF Cuts(A, j, k) THEN Kept(A, k) ELSE F[k].body
    BY ONLY <1>1, <2>5, <2>8, <2>9
  <2> QED
    BY ONLY <2>7, <2>10
<1>5. CASE ~Cuts(A, j, i)
  <2>1. CutStorage(F, j) = F
    <3>1. ~(F[j].kind = "array" /\ HasPart(F[j]) /\ F[j].body[2] # Prim(0))
      BY <1>2, <1>3, <1>5 DEF Cuts, HasPart
    <3> QED
      BY ONLY <3>1 DEF CutStorage
  <2>2. \A k : ~Cuts(A, j, k)
    BY <1>3, <1>5 DEF Cuts
  <2> QED
    BY ONLY <1>1, <2>1, <2>2
<1> QED
  BY <1>4, <1>5

\* What a move makes of the old heap.
Marked(F, j, m) == [CutStorage(F, j) EXCEPT ![j].moved = m]

LEMMA MarkedIs ==
    ASSUME NEW A, AllocsOK(A), NEW F, NEW size, FromOK(A, F, size),
           NEW j \in 1 .. Len(A), F[j].moved = 0, NEW m \in Nat
    PROVE  LET G == Marked(F, j, m)
           IN  /\ G \in Seq(Tombstoned) /\ Len(G) = Len(A)
               /\ \A i \in 1 .. Len(A) :
                     /\ G[i].kind = A[i].kind
                     /\ G[i].moved = IF i = j THEN m ELSE F[i].moved
                     /\ G[i].body = IF Cuts(A, j, i) THEN Kept(A, i) ELSE F[i].body
<1>1. PICK C : C = CutStorage(F, j)
  OBVIOUS
<1>2. /\ C \in Seq(Tombstoned) /\ Len(C) = Len(F)
      /\ \A i \in 1 .. Len(A) :
            /\ C[i].kind = F[i].kind /\ C[i].moved = F[i].moved
            /\ C[i].body = IF Cuts(A, j, i) THEN Kept(A, i) ELSE F[i].body
  <2>1. LET D == CutStorage(F, j)
        IN  /\ D \in Seq(Tombstoned) /\ Len(D) = Len(F)
            /\ \A i \in 1 .. Len(A) :
                  /\ D[i].kind = F[i].kind /\ D[i].moved = F[i].moved
                  /\ D[i].body = IF Cuts(A, j, i) THEN Kept(A, i) ELSE F[i].body
    BY CutStorageIs
  <2> QED
    BY ONLY <1>1, <2>1
<1>3. Len(F) = Len(A) /\ \A i \in 1 .. Len(A) : F[i].kind = A[i].kind
  BY FromFields
<1>4. PICK G : G = Marked(F, j, m)
  OBVIOUS
<1>5. G = [C EXCEPT ![j].moved = m]
  BY ONLY <1>1, <1>4 DEF Marked
<1>6. /\ G \in Seq(Tombstoned) /\ Len(G) = Len(C)
      /\ \A i \in 1 .. Len(C) : /\ G[i].kind = C[i].kind /\ G[i].body = C[i].body
                                /\ G[i].moved = IF i = j THEN m ELSE C[i].moved
  <2>1. LET H == [C EXCEPT ![j].moved = m]
        IN  /\ H \in Seq(Tombstoned) /\ Len(H) = Len(C)
            /\ \A i \in 1 .. Len(C) : /\ H[i].kind = C[i].kind /\ H[i].body = C[i].body
                                      /\ H[i].moved = IF i = j THEN m ELSE C[i].moved
    <3>1. C \in Seq(Tombstoned) /\ j \in 1 .. Len(C) /\ m \in Nat
      BY <1>2, <1>3
    <3> QED
      BY ONLY <3>1, MovedUpdate
  <2> QED
    BY ONLY <1>5, <2>1
<1>7. /\ G \in Seq(Tombstoned) /\ Len(G) = Len(A)
      /\ \A i \in 1 .. Len(A) :
            /\ G[i].kind = A[i].kind
            /\ G[i].moved = IF i = j THEN m ELSE F[i].moved
            /\ G[i].body = IF Cuts(A, j, i) THEN Kept(A, i) ELSE F[i].body
  BY ONLY <1>2, <1>3, <1>6
<1> QED
  BY ONLY <1>4, <1>7

(* A move keeps what the old heap, the copies and the roots have to be.    *)
LEMMA MovedFrom ==
    ASSUME NEW A, AllocsOK(A), NEW F, NEW size \in Nat, FromOK(A, F, size), MovedOK(F, size),
           NEW j, TargetOK(A, F, j), F[j].moved = 0
    PROVE  LET G == Marked(F, j, size + 1)
           IN  /\ FromOK(A, G, size + 1)
               /\ MovedOK(G, size + 1)
               /\ \A i \in 1 .. Len(A) : F[i].moved # 0 => G[i].moved = F[i].moved
               /\ \A i \in 1 .. Len(A) : G[i].moved # 0 => F[i].moved # 0 \/ i = j
               /\ G[j].moved = size + 1
<1> PICK G : G = Marked(F, j, size + 1)
  OBVIOUS
<1>1. j \in 1 .. Len(A) /\ size + 1 \in Nat /\ size + 1 # 0
  BY DEF TargetOK
<1>2. /\ G \in Seq(Tombstoned) /\ Len(G) = Len(A)
      /\ \A i \in 1 .. Len(A) :
            /\ G[i].kind = A[i].kind
            /\ G[i].moved = IF i = j THEN size + 1 ELSE F[i].moved
            /\ G[i].body = IF Cuts(A, j, i) THEN Kept(A, i) ELSE F[i].body
  <2>1. LET D == Marked(F, j, size + 1)
        IN  /\ D \in Seq(Tombstoned) /\ Len(D) = Len(A)
            /\ \A i \in 1 .. Len(A) :
                  /\ D[i].kind = A[i].kind
                  /\ D[i].moved = IF i = j THEN size + 1 ELSE F[i].moved
                  /\ D[i].body = IF Cuts(A, j, i) THEN Kept(A, i) ELSE F[i].body
    BY <1>1, MarkedIs
  <2> QED
    BY ONLY <2>1, G = Marked(F, j, size + 1)
<1>3. /\ Len(F) = Len(A)
      /\ \A i \in 1 .. Len(A) :
          /\ F[i].moved \in 0 .. size
          /\ F[i].body = IF \E o \in 1 .. Len(A) : Cuts(A, o, i) /\ F[o].moved # 0
                         THEN Kept(A, i) ELSE A[i].body
          /\ F[i].moved # 0 /\ A[i].kind = "props" => i \notin Parts(A)
  BY DEF FromOK
<1>4. A[j].kind = "props" => j \notin Parts(A)
  <2> SUFFICES ASSUME A[j].kind = "props", j \in Parts(A) PROVE FALSE
    OBVIOUS
  <2>1. PICK o \in 1 .. Len(A) : Cuts(A, o, j)
    BY DEF TargetOK
  <2>2. A[j].kind = "data"
    BY <2>1, CutsAre
  <2> QED
    BY <2>2
<1>5. FromOK(A, G, size + 1)
  <2> SUFFICES ASSUME NEW i \in 1 .. Len(A)
               PROVE  /\ G[i].moved \in 0 .. size + 1
                      /\ G[i].kind = A[i].kind
                      /\ G[i].body = IF \E o \in 1 .. Len(A) : Cuts(A, o, i) /\ G[o].moved # 0
                                     THEN Kept(A, i) ELSE A[i].body
                      /\ G[i].moved # 0 /\ A[i].kind = "props" => i \notin Parts(A)
    BY <1>2 DEF FromOK
  <2>1. G[i].moved \in 0 .. size + 1 /\ G[i].kind = A[i].kind
    BY <1>1, <1>2, <1>3
  <2>2. G[i].moved # 0 /\ A[i].kind = "props" => i \notin Parts(A)
    BY <1>2, <1>3, <1>4
  <2>3. (\E o \in 1 .. Len(A) : Cuts(A, o, i) /\ G[o].moved # 0)
          <=> Cuts(A, j, i) \/ \E o \in 1 .. Len(A) : Cuts(A, o, i) /\ F[o].moved # 0
    BY ONLY <1>1, <1>2, F[j].moved = 0
  <2>4. G[i].body = IF Cuts(A, j, i) THEN Kept(A, i) ELSE F[i].body
    BY <1>2
  <2>5. F[i].body = IF \E o \in 1 .. Len(A) : Cuts(A, o, i) /\ F[o].moved # 0
                    THEN Kept(A, i) ELSE A[i].body
    BY <1>3
  <2>6. G[i].body = IF \E o \in 1 .. Len(A) : Cuts(A, o, i) /\ G[o].moved # 0
                    THEN Kept(A, i) ELSE A[i].body
    BY ONLY <2>3, <2>4, <2>5
  <2> QED
    BY <2>1, <2>2, <2>6
<1>6. MovedOK(G, size + 1)
  <2>1. ASSUME NEW i \in 1 .. Len(A), NEW k \in 1 .. Len(A), G[i].moved = G[k].moved, G[i].moved # 0
        PROVE  i = k
    <3>1. F[i].moved \in 0 .. size /\ F[k].moved \in 0 .. size
      BY <1>3
    <3>2. F[i].moved = F[k].moved /\ F[i].moved # 0 => i = k
      BY <1>3 DEF MovedOK
    <3> QED
      BY <1>2, <2>1, <3>1, <3>2
  <2>2. ASSUME NEW k \in 1 .. size + 1
        PROVE  \E i \in 1 .. Len(A) : G[i].moved = k
    <3>1. CASE k = size + 1
      BY <1>1, <1>2, <3>1
    <3>2. CASE k # size + 1
      <4>1. k \in 1 .. size
        BY <3>2
      <4>2. PICK i \in 1 .. Len(A) : F[i].moved = k
        BY <1>3, <4>1 DEF MovedOK
      <4>3. i # j
        BY <4>1, <4>2
      <4> QED
        BY <1>2, <4>2, <4>3
    <3> QED
      BY <3>1, <3>2
  <2> QED
    BY <1>2, <2>1, <2>2 DEF MovedOK
<1> QED
  BY <1>1, <1>2, <1>5, <1>6


LEMMA FollowsGrows ==
    ASSUME NEW N, NEW F, NEW G, \A i \in 1 .. N : F[i].moved # 0 => G[i].moved = F[i].moved,
           NEW v, IsFrom(v) => v[2] \in 1 .. N, NEW x, Follows(F, v, x)
    PROVE  Follows(G, v, x)
BY DEF Follows

LEMMA RootSlots ==
    ASSUME NEW h, WellFormed(h), NEW A, A = h.allocs, NEW R, R = h.roots
    PROVE  /\ AllocsOK(A) /\ R \in Seq(Value)
           /\ \A n \in 1 .. Len(R) : IsFrom(R[n]) => R[n][2] \in (1 .. Len(A)) \ Parts(A)
<1>1. AllocsOK(A) /\ R \in Seq(Value)
  BY DEF WellFormed, AllocsOK
<1>2. DOMAIN A = 1 .. Len(A)
  BY <1>1, AllocsAre
<1>3. Pointers(R) \subseteq (1 .. Len(A)) \ Parts(A)
  BY <1>2 DEF WellFormed
<1>4. ASSUME NEW n \in 1 .. Len(R), IsFrom(R[n])
      PROVE  R[n][2] \in Pointers(R)
  <2>1. n \in DOMAIN R
    BY ONLY <1>1, n \in 1 .. Len(R)
  <2> QED
    BY <1>4, <2>1 DEF Pointers, Range
<1> QED
  BY <1>1, <1>3, <1>4

LEMMA CopyTypes ==
    ASSUME NEW T \in Seq(Copies), NEW k \in 1 .. Len(T)
    PROVE  T[k] \in Copies /\ T[k].kind \in Kinds /\ T[k].body \in Seq(NewValue)
<1>1. T[k] \in Copies
  BY ONLY T \in Seq(Copies), k \in 1 .. Len(T), ElementOfSeq
<1> QED
  BY ONLY <1>1 DEF Copies

LEMMA MovedTo ==
    ASSUME NEW A, AllocsOK(A), NEW F, NEW T, NEW s, NEW w,
           FromOK(A, F, Len(T)), MovedOK(F, Len(T)), ToOK(A, F, T, s, w),
           s \in 0 .. Len(T), w \in Nat, w = 0 \/ s < Len(T),
           NEW j, TargetOK(A, F, j), F[j].moved = 0,
           NEW G, G = Marked(F, j, Len(T) + 1),
           NEW x, x = [kind |-> F[j].kind, body |-> Compacted(F, j).body]
    PROVE  /\ x \in Copies /\ x.kind = A[j].kind /\ x.body = Visible(A, j)
           /\ Len(Append(T, x)) = Len(T) + 1
           /\ \A k \in 1 .. Len(T) : Append(T, x)[k] = T[k]
           /\ ToOK(A, G, Append(T, x), s, w)
<1>1. j \in 1 .. Len(A) /\ Len(T) \in Nat /\ T \in Seq(Copies)
  <2>1. T \in Seq(Copies)
    BY DEF ToOK
  <2>2. Len(T) \in Nat
    BY ONLY <2>1
  <2> QED
    BY <2>1, <2>2 DEF TargetOK
<1>2. x.kind = A[j].kind /\ x.body = Visible(A, j) /\ x = [kind |-> A[j].kind, body |-> Visible(A, j)]
  BY <1>1, CompactedIs, FromFields
<1>3. x \in Copies
  <2>1. A[j].kind \in Kinds
    BY <1>1, AllocsAre
  <2>2. Visible(A, j) \in Seq(Value)
    BY <1>1, VisibleIs
  <2>3. \A v \in Value : v \in NewValue
    BY DEF Value, NewValue
  <2>4. Visible(A, j) \in Seq(NewValue)
    BY ONLY <2>2, <2>3
  <2> QED
    BY ONLY <1>2, <2>1, <2>4 DEF Copies
<1>4. PICK T1 : T1 = Append(T, x)
  OBVIOUS
<1>5. /\ T1 \in Seq(Copies) /\ Len(T1) = Len(T) + 1 /\ T1[Len(T) + 1] = x
      /\ \A k \in 1 .. Len(T) : T1[k] = T[k]
  <2>1. LET U == Append(T, x)
        IN  /\ U \in Seq(Copies) /\ Len(U) = Len(T) + 1 /\ U[Len(T) + 1] = x
            /\ \A k \in 1 .. Len(T) : U[k] = T[k]
    BY ONLY <1>1, <1>3, AppendProperties
  <2> QED
    BY ONLY <1>4, <2>1
<1>6. /\ \A i \in 1 .. Len(A) : F[i].moved # 0 => G[i].moved = F[i].moved
      /\ \A i \in 1 .. Len(A) : G[i].moved # 0 => F[i].moved # 0 \/ i = j
      /\ G[j].moved = Len(T) + 1
  BY <1>1, MovedFrom
<1>7. ASSUME NEW i \in 1 .. Len(A), G[i].moved # 0
      PROVE  CopyOK(A, G, T1, s, w, i, G[i].moved)
  <2>1. CASE i = j
    <3>1. ASSUME NEW n \in 1 .. Len(Visible(A, j))
          PROVE  ~Scanned(s, w, Len(T) + 1, n)
      <4>1. n \in Nat /\ n >= 1
        OBVIOUS
      <4> QED
        BY ONLY <1>1, <4>1, s \in 0 .. Len(T), w \in Nat, w = 0 \/ s < Len(T) DEF Scanned
    <3> QED
      BY <1>2, <1>5, <1>6, <2>1, <3>1 DEF CopyOK
  <2>2. CASE i # j
    <3>1. PICK k : k = F[i].moved
      OBVIOUS
    <3>2. F[i].moved # 0 /\ G[i].moved = k
      BY <1>6, <1>7, <2>2, <3>1
    <3>3. k \in 1 .. Len(T)
      <4>1. k \in 0 .. Len(T)
        BY <3>1 DEF FromOK
      <4> QED
        BY ONLY <1>1, <3>1, <3>2, <4>1
    <3>4. CopyOK(A, F, T, s, w, i, k)
      BY <3>1, <3>2 DEF ToOK
    <3>5. T1[k] = T[k]
      BY <1>5, <3>3
    <3>6. ASSUME NEW n \in 1 .. Len(Visible(A, i)), A[i].kind # "leaf",
                 Follows(F, Visible(A, i)[n], T[k].body[n])
          PROVE  Follows(G, Visible(A, i)[n], T[k].body[n])
      <4>1. SlotOK(A, i, n, Visible(A, i)[n])
        BY <3>6, VisibleSlots
      <4>2. IsFrom(Visible(A, i)[n]) => Visible(A, i)[n][2] \in 1 .. Len(A)
        BY <4>1 DEF SlotOK
      <4>3. PICK v, y : v = Visible(A, i)[n] /\ y = T[k].body[n]
        OBVIOUS
      <4>4. Follows(F, v, y) /\ (IsFrom(v) => v[2] \in 1 .. Len(A))
        BY <3>6, <4>2, <4>3
      <4>5. Follows(G, v, y)
        BY ONLY <1>6, <4>4, FollowsGrows
      <4> QED
        BY ONLY <4>3, <4>5
    <3>7. CopyOK(A, G, T1, s, w, i, k)
      BY ONLY <3>4, <3>5, <3>6 DEF CopyOK
    <3> QED
      BY <3>2, <3>7
  <2> QED
    BY <2>1, <2>2
<1>8. ToOK(A, G, T1, s, w)
  BY <1>5, <1>7 DEF ToOK
<1> QED
  BY <1>2, <1>3, <1>4, <1>5, <1>8

LEMMA MovedRoots ==
    ASSUME NEW h, WellFormed(h), NEW A, A = h.allocs, NEW R, R = h.roots, NEW F, NEW G,
           \A i \in 1 .. Len(A) : F[i].moved # 0 => G[i].moved = F[i].moved,
           NEW rs, NEW d, RootsOK(R, F, rs, d)
    PROVE  RootsOK(R, G, rs, d)
<1>1. \A n \in 1 .. Len(R) : IsFrom(R[n]) => R[n][2] \in 1 .. Len(A)
  BY RootSlots
<1>2. \A n \in 1 .. Len(R) : Follows(F, R[n], rs[n]) => Follows(G, R[n], rs[n])
  BY <1>1, FollowsGrows
<1> QED
  BY <1>2 DEF RootsOK

(* A slot is processed.                                                    *)
LEMMA RootWritten ==
    ASSUME NEW R, NEW F, NEW rs, NEW d, RootsOK(R, F, rs, d), d < Len(R), Len(R) \in Nat,
           NEW x \in NewValue, Follows(F, R[d + 1], x)
    PROVE  RootsOK(R, F, [rs EXCEPT ![d + 1] = x], d + 1)
<1>1. rs \in Seq(NewValue) /\ Len(rs) = Len(R) /\ d \in 0 .. Len(R) /\ d + 1 \in 1 .. Len(rs)
  BY DEF RootsOK
<1>2. PICK qs : qs = [rs EXCEPT ![d + 1] = x]
  OBVIOUS
<1>3. /\ qs \in Seq(NewValue) /\ Len(qs) = Len(rs)
      /\ \A n \in 1 .. Len(rs) : qs[n] = IF n = d + 1 THEN x ELSE rs[n]
  <2>1. LET q == [rs EXCEPT ![d + 1] = x]
        IN  /\ q \in Seq(NewValue) /\ Len(q) = Len(rs)
            /\ \A n \in 1 .. Len(rs) : q[n] = IF n = d + 1 THEN x ELSE rs[n]
    BY ONLY <1>1, x \in NewValue, ExceptSeq
  <2> QED
    BY ONLY <1>2, <2>1
<1>4. ASSUME NEW n \in 1 .. Len(R)
      PROVE  IF n <= d + 1 THEN Follows(F, R[n], qs[n]) ELSE qs[n] = R[n]
  <2>1. IF n <= d THEN Follows(F, R[n], rs[n]) ELSE rs[n] = R[n]
    BY DEF RootsOK
  <2>2. qs[n] = IF n = d + 1 THEN x ELSE rs[n]
    BY <1>1, <1>3
  <2>3. d \in Nat /\ n \in Nat
    BY <1>1
  <2>4. CASE n = d + 1
    BY <2>2, <2>3, <2>4
  <2>5. CASE n # d + 1
    <3>1. n <= d + 1 <=> n <= d
      BY ONLY <2>3, <2>5
    <3> QED
      BY ONLY <2>1, <2>2, <2>5, <3>1
  <2> QED
    BY <2>4, <2>5
<1>5. d + 1 \in 0 .. Len(R)
  BY <1>1
<1> QED
  BY <1>1, <1>2, <1>3, <1>4, <1>5 DEF RootsOK

LEMMA SlotWritten ==
    ASSUME NEW A, AllocsOK(A), NEW F, NEW T, NEW s \in Nat, NEW w \in Nat,
           FromOK(A, F, Len(T)), MovedOK(F, Len(T)), ToOK(A, F, T, s, w),
           s < Len(T), w < Len(T[s + 1].body),
           NEW i \in 1 .. Len(A), F[i].moved = s + 1, A[i].kind # "leaf",
           NEW x \in NewValue, Follows(F, Visible(A, i)[w + 1], x)
    PROVE  LET U == [T EXCEPT ![s + 1].body[w + 1] = x]
           IN  /\ Len(U) = Len(T) /\ Len(U[s + 1].body) = Len(T[s + 1].body)
               /\ \A k \in 1 .. Len(T) : U[k].kind = T[k].kind
               /\ ToOK(A, F, U, s, w + 1)
<1> PICK U : U = [T EXCEPT ![s + 1].body[w + 1] = x]
  OBVIOUS
<1>1. T \in Seq(Copies) /\ Len(T) \in Nat
  <2>1. T \in Seq(Copies)
    BY DEF ToOK
  <2> QED
    BY ONLY <2>1
<1>2. s + 1 \in 1 .. Len(T)
  BY <1>1
<1>3. PICK c : c = T[s + 1]
  OBVIOUS
<1>4. c \in Copies /\ c.body \in Seq(NewValue) /\ Len(c.body) \in Nat
  <2>1. c \in Copies /\ c.body \in Seq(NewValue)
    BY <1>1, <1>2, <1>3, CopyTypes
  <2> QED
    BY ONLY <2>1
<1>5. PICK b : b = [c.body EXCEPT ![w + 1] = x]
  OBVIOUS
<1>6. w + 1 \in 1 .. Len(c.body)
  BY <1>3, <1>4
<1>7. /\ b \in Seq(NewValue) /\ Len(b) = Len(c.body)
      /\ \A n \in 1 .. Len(c.body) : b[n] = IF n = w + 1 THEN x ELSE c.body[n]
  <2>1. LET q == [c.body EXCEPT ![w + 1] = x]
        IN  /\ q \in Seq(NewValue) /\ Len(q) = Len(c.body)
            /\ \A n \in 1 .. Len(c.body) : q[n] = IF n = w + 1 THEN x ELSE c.body[n]
    BY ONLY <1>4, <1>6, x \in NewValue, ExceptSeq
  <2> QED
    BY ONLY <1>5, <2>1
<1>8. PICK y : y = [c EXCEPT !.body = b]
  OBVIOUS
<1>9. y \in Copies /\ y.kind = c.kind /\ y.body = b
  BY ONLY <1>4, <1>7, <1>8 DEF Copies
<1>10. U = [T EXCEPT ![s + 1] = y]
  BY ONLY <1>1, <1>2, <1>3, <1>5, <1>8, U = [T EXCEPT ![s + 1].body[w + 1] = x]
<1>11. /\ U \in Seq(Copies) /\ Len(U) = Len(T)
       /\ \A k \in 1 .. Len(T) : U[k] = IF k = s + 1 THEN y ELSE T[k]
  <2>1. LET q == [T EXCEPT ![s + 1] = y]
        IN  /\ q \in Seq(Copies) /\ Len(q) = Len(T)
            /\ \A k \in 1 .. Len(T) : q[k] = IF k = s + 1 THEN y ELSE T[k]
    BY ONLY <1>1, <1>2, <1>9, ExceptSeq
  <2> QED
    BY ONLY <1>10, <2>1
<1>12. ASSUME NEW m \in 1 .. Len(A), F[m].moved # 0
       PROVE  CopyOK(A, F, U, s, w + 1, m, F[m].moved)
  <2>1. PICK k : k = F[m].moved
    OBVIOUS
  <2>2. k \in 1 .. Len(T)
    <3>1. k \in 0 .. Len(T)
      BY <2>1 DEF FromOK
    <3> QED
      BY ONLY <1>1, <1>12, <2>1, <3>1
  <2>3. CopyOK(A, F, T, s, w, m, k)
    BY <1>12, <2>1 DEF ToOK
  <2>4. CASE k # s + 1
    <3>1. U[k] = T[k]
      BY <1>11, <2>2, <2>4
    <3>2. \A n : Scanned(s, w + 1, k, n) <=> Scanned(s, w, k, n)
      BY ONLY <2>4 DEF Scanned
    <3>3. CopyOK(A, F, U, s, w + 1, m, k)
      BY ONLY <2>3, <3>1, <3>2 DEF CopyOK
    <3> QED
      BY <2>1, <3>3
  <2>5. CASE k = s + 1
    <3>1. m = i
      <4>1. Len(F) = Len(A)
        BY DEF FromOK
      <4> QED
        BY <1>12, <2>1, <2>5, <4>1 DEF MovedOK
    <3>2. U[k] = y /\ T[k] = c
      BY <1>3, <1>11, <2>2, <2>5
    <3>3. PICK V : V = Visible(A, i)
      OBVIOUS
    <3>4. /\ c.kind = A[i].kind /\ Len(c.body) = Len(V)
          /\ \A n \in 1 .. Len(V) : IF Scanned(s, w, k, n) THEN Follows(F, V[n], c.body[n])
                                    ELSE c.body[n] = V[n]
      BY <2>3, <3>1, <3>2, <3>3 DEF CopyOK
    <3>5. ASSUME NEW n \in 1 .. Len(V)
          PROVE  IF Scanned(s, w + 1, k, n) THEN Follows(F, V[n], y.body[n]) ELSE y.body[n] = V[n]
      <4>1. n \in Nat /\ n \in 1 .. Len(c.body)
        BY <3>4
      <4>2. y.body[n] = IF n = w + 1 THEN x ELSE c.body[n]
        BY <1>7, <1>9, <4>1
      <4>3. Scanned(s, w, k, n) <=> n <= w
        BY ONLY <2>5, s \in Nat DEF Scanned
      <4>4. Scanned(s, w + 1, k, n) <=> n <= w + 1
        BY ONLY <2>5, s \in Nat DEF Scanned
      <4>5. CASE n = w + 1
        <5>1. Follows(F, V[n], y.body[n])
          BY <3>3, <4>2, <4>5
        <5>2. n <= w + 1
          BY <4>1, <4>5
        <5> QED
          BY <4>4, <5>1, <5>2
      <4>6. CASE n # w + 1
        <5>1. n <= w + 1 <=> n <= w
          BY ONLY <4>1, <4>6, w \in Nat
        <5>2. y.body[n] = c.body[n]
          BY <4>2, <4>6
        <5>3. IF Scanned(s, w, k, n) THEN Follows(F, V[n], c.body[n]) ELSE c.body[n] = V[n]
          BY <3>4
        <5> QED
          BY ONLY <4>3, <4>4, <5>1, <5>2, <5>3
      <4> QED
        BY <4>5, <4>6
    <3>6. CopyOK(A, F, U, s, w + 1, i, k)
      <4>1. U[k].kind = A[i].kind /\ Len(U[k].body) = Len(V)
        BY <1>7, <1>9, <3>2, <3>4
      <4> QED
        BY <3>2, <3>3, <3>5, <4>1 DEF CopyOK
    <3> QED
      BY <2>1, <3>1, <3>6
  <2> QED
    BY <2>4, <2>5
<1>13. ToOK(A, F, U, s, w + 1)
  BY <1>11, <1>12 DEF ToOK
<1>14. /\ Len(U) = Len(T) /\ Len(U[s + 1].body) = Len(T[s + 1].body)
       /\ \A k \in 1 .. Len(T) : U[k].kind = T[k].kind
  BY ONLY <1>2, <1>3, <1>7, <1>9, <1>11
<1> QED
  BY <1>13, <1>14


-----------------------------------------------------------------------------
(* One slot after the other.                                               *)

Graph(h, F, T, rs, d, s, w, p) ==
    /\ WellFormed(h)
    /\ FromOK(h.allocs, F, Len(T))
    /\ MovedOK(F, Len(T))
    /\ ToOK(h.allocs, F, T, s, w)
    /\ RootsOK(h.roots, F, rs, d)
    /\ Reached(h, F)
    /\ PhaseOK(h.roots, T, d, s, w, p)

\* The collector is at a slot with the value v.
At(T, rs, d, s, w, p, v) ==
    \/ p = "roots" /\ d < Len(rs) /\ v = rs[d + 1]
    \/ /\ p = "scan" /\ s < Len(T) /\ T[s + 1].kind # "leaf" /\ w < Len(T[s + 1].body)
       /\ v = T[s + 1].body[w + 1]

\* The slot becomes x, with the copies T.
Processed(T, rs, d, s, w, p, x, qs, e, U, u) ==
    \/ p = "roots" /\ qs = [rs EXCEPT ![d + 1] = x] /\ e = d + 1 /\ U = T /\ u = w
    \/ /\ p = "scan" /\ U = [T EXCEPT ![s + 1].body[w + 1] = x] /\ u = w + 1
       /\ qs = rs /\ e = d

LEMMA GraphIs ==
    ASSUME NEW h, NEW F, NEW T, NEW rs, NEW d, NEW s, NEW w, NEW p,
           Graph(h, F, T, rs, d, s, w, p), NEW A, A = h.allocs, NEW R, R = h.roots
    PROVE  /\ WellFormed(h) /\ AllocsOK(A) /\ FromOK(A, F, Len(T)) /\ MovedOK(F, Len(T))
           /\ ToOK(A, F, T, s, w) /\ RootsOK(R, F, rs, d) /\ Reached(h, F)
           /\ PhaseOK(R, T, d, s, w, p)
           /\ DOMAIN A = 1 .. Len(A) /\ Len(A) \in Nat
           /\ T \in Seq(Copies) /\ Len(T) \in Nat /\ R \in Seq(Value) /\ Len(R) \in Nat
           /\ rs \in Seq(NewValue) /\ Len(rs) = Len(R) /\ d \in 0 .. Len(R)
           /\ s \in 0 .. Len(T) /\ s \in Nat /\ w \in Nat
<1>1. /\ WellFormed(h) /\ FromOK(A, F, Len(T)) /\ MovedOK(F, Len(T))
      /\ ToOK(A, F, T, s, w) /\ RootsOK(R, F, rs, d) /\ Reached(h, F)
      /\ PhaseOK(R, T, d, s, w, p)
  BY DEF Graph
<1>2. AllocsOK(A) /\ R \in Seq(Value)
  BY <1>1, RootSlots
<1>3. DOMAIN A = 1 .. Len(A) /\ Len(A) \in Nat
  BY <1>2, AllocsAre
<1>4. T \in Seq(Copies)
  BY <1>1 DEF ToOK
<1>5. Len(T) \in Nat /\ Len(R) \in Nat
  BY ONLY <1>2, <1>4
<1>6. rs \in Seq(NewValue) /\ Len(rs) = Len(R) /\ d \in 0 .. Len(R)
  BY <1>1 DEF RootsOK
<1>7. s \in 0 .. Len(T) /\ w \in Nat
  BY <1>1 DEF PhaseOK
<1> QED
  BY <1>1, <1>2, <1>3, <1>4, <1>5, <1>6, <1>7

(* Where the copy that is scanned comes from.                              *)
LEMMA ScannedCopy ==
    ASSUME NEW h, NEW F, NEW T, NEW rs, NEW d, NEW s, NEW w, NEW p,
           Graph(h, F, T, rs, d, s, w, p), NEW A, A = h.allocs,
           s < Len(T), T[s + 1].kind # "leaf", w < Len(T[s + 1].body)
    PROVE  \E i \in 1 .. Len(A) :
              /\ F[i].moved = s + 1 /\ A[i].kind # "leaf"
              /\ w + 1 \in 1 .. Len(Visible(A, i)) /\ Len(Visible(A, i)) = Len(T[s + 1].body)
              /\ T[s + 1].body[w + 1] = Visible(A, i)[w + 1]
              /\ Visible(A, i)[w + 1] \in Value
<1>1. /\ AllocsOK(A) /\ FromOK(A, F, Len(T)) /\ MovedOK(F, Len(T)) /\ ToOK(A, F, T, s, w)
      /\ Len(T) \in Nat /\ s \in Nat /\ w \in Nat
  BY GraphIs
<1>2. s + 1 \in 1 .. Len(T)
  BY <1>1
<1>3. Len(F) = Len(A)
  BY <1>1 DEF FromOK
<1>4. PICK i \in 1 .. Len(A) : F[i].moved = s + 1
  BY <1>1, <1>2, <1>3 DEF MovedOK
<1>5. CopyOK(A, F, T, s, w, i, s + 1)
  <2>1. F[i].moved # 0
    BY <1>1, <1>4
  <2>2. CopyOK(A, F, T, s, w, i, F[i].moved)
    BY ONLY <1>1, <2>1 DEF ToOK
  <2> QED
    BY ONLY <1>4, <2>2
<1>6. PICK V : V = Visible(A, i)
  OBVIOUS
<1>7. V \in Seq(Value)
  BY <1>1, <1>6, VisibleIs
<1>8. A[i].kind # "leaf" /\ Len(V) = Len(T[s + 1].body)
  BY <1>5, <1>6 DEF CopyOK
<1>9. w + 1 \in 1 .. Len(V)
  <2>1. Len(V) \in Nat
    BY ONLY <1>7
  <2> QED
    BY <1>1, <1>8, <2>1
<1>10. ~Scanned(s, w, s + 1, w + 1)
  BY ONLY <1>1 DEF Scanned
<1>11. T[s + 1].body[w + 1] = V[w + 1]
  BY <1>5, <1>6, <1>9, <1>10 DEF CopyOK
<1>12. V[w + 1] \in Value
  BY ONLY <1>7, <1>9, ElementOfSeq
<1> QED
  BY <1>4, <1>6, <1>8, <1>9, <1>11, <1>12

(* The value of a slot leads to what a closed set has to contain.          *)
LEMMA CurrentIs ==
    ASSUME NEW h, NEW F, NEW T, NEW rs, NEW d, NEW s, NEW w, NEW p,
           Graph(h, F, T, rs, d, s, w, p), NEW v, At(T, rs, d, s, w, p, v),
           NEW A, A = h.allocs
    PROVE  /\ v \in Value /\ v \in NewValue
           /\ IsFrom(v) =>
                 /\ TargetOK(A, F, v[2])
                 /\ \A S \in SUBSET DOMAIN A : Closed(h, S) => v[2] \in S
<1>1. PICK R : R = h.roots
  OBVIOUS
<1>2. /\ WellFormed(h) /\ AllocsOK(A) /\ FromOK(A, F, Len(T)) /\ MovedOK(F, Len(T))
      /\ ToOK(A, F, T, s, w) /\ RootsOK(R, F, rs, d) /\ Reached(h, F)
      /\ DOMAIN A = 1 .. Len(A) /\ Len(A) \in Nat
      /\ R \in Seq(Value) /\ Len(R) \in Nat /\ Len(rs) = Len(R) /\ d \in 0 .. Len(R)
      /\ s \in Nat /\ w \in Nat
  BY <1>1, GraphIs
<1>3. \A y \in Value : y \in NewValue
  BY DEF Value, NewValue
<1>4. CASE p = "roots" /\ d < Len(rs) /\ v = rs[d + 1]
  <2>1. d + 1 \in 1 .. Len(R) /\ ~(d + 1 <= d)
    BY <1>2, <1>4
  <2>2. v = R[d + 1]
    BY <1>2, <1>4, <2>1 DEF RootsOK
  <2>3. v \in Value
    BY ONLY <1>2, <2>1, <2>2, ElementOfSeq
  <2>4. IsFrom(v) => v[2] \in (1 .. Len(A)) \ Parts(A)
    BY <1>1, <1>2, <2>1, <2>2, RootSlots
  <2>5. ASSUME IsFrom(v), NEW S \in SUBSET DOMAIN A, Closed(h, S)
        PROVE  v[2] \in S
    <3>1. d + 1 \in DOMAIN R
      BY ONLY <1>2, <2>1
    <3>2. v[2] \in Pointers(R)
      BY <2>2, <2>5, <3>1 DEF Pointers, Range
    <3> QED
      BY <1>1, <2>5, <3>2 DEF Closed
  <2> QED
    BY <1>3, <2>3, <2>4, <2>5 DEF TargetOK
<1>5. CASE /\ p = "scan" /\ s < Len(T) /\ T[s + 1].kind # "leaf" /\ w < Len(T[s + 1].body)
           /\ v = T[s + 1].body[w + 1]
  <2>1. PICK i \in 1 .. Len(A) :
              /\ F[i].moved = s + 1 /\ A[i].kind # "leaf"
              /\ w + 1 \in 1 .. Len(Visible(A, i))
              /\ T[s + 1].body[w + 1] = Visible(A, i)[w + 1]
              /\ Visible(A, i)[w + 1] \in Value
    BY <1>5, ScannedCopy
  <2>2. PICK V : V = Visible(A, i)
    OBVIOUS
  <2>3. v = V[w + 1] /\ v \in Value /\ w + 1 \in 1 .. Len(V) /\ F[i].moved # 0
    BY <1>2, <1>5, <2>1, <2>2
  <2>4. SlotOK(A, i, w + 1, v)
    BY <1>2, <2>1, <2>2, <2>3, VisibleSlots
  <2>5. IsFrom(v) => TargetOK(A, F, v[2])
    BY <2>3, <2>4 DEF SlotOK, TargetOK
  <2>6. ASSUME IsFrom(v), NEW S \in SUBSET DOMAIN A, Closed(h, S)
        PROVE  v[2] \in S
    <3>1. V \in Seq(Value)
      BY <1>2, <2>2, VisibleIs
    <3>2. w + 1 \in DOMAIN V
      BY ONLY <2>3, <3>1
    <3>3. v[2] \in Pointers(V)
      BY <2>3, <2>6, <3>2 DEF Pointers, Range
    <3>4. v[2] \in PointersSeen(A, i)
      BY <2>1, <2>2, <3>3 DEF PointersSeen
    <3>5. i \in S
      BY <1>2, <2>3, <2>6 DEF Reached
    <3> QED
      BY <2>6, <3>4, <3>5 DEF Closed
  <2> QED
    BY <1>3, <2>3, <2>5, <2>6
<1> QED
  BY <1>4, <1>5 DEF At

(* From one slot to the next.  G and T1 are the heaps after the move, if   *)
(* there was one, and q is the phase.                                      *)
LEMMA SlotStep ==
    ASSUME NEW h, NEW F, NEW T, NEW rs, NEW d, NEW s, NEW w, NEW p,
           Graph(h, F, T, rs, d, s, w, p), NEW v, At(T, rs, d, s, w, p, v),
           NEW A, A = h.allocs, NEW G, NEW T1,
           FromOK(A, G, Len(T1)), MovedOK(G, Len(T1)), ToOK(A, G, T1, s, w), Reached(h, G),
           \A i \in 1 .. Len(A) : F[i].moved # 0 => G[i].moved = F[i].moved,
           Len(T1) \in Nat, Len(T) <= Len(T1), \A k \in 1 .. Len(T) : T1[k] = T[k],
           NEW x \in NewValue, Follows(G, v, x),
           NEW q, q = p \/ q = "overrun",
           NEW qs, NEW e, NEW U, NEW u, Processed(T1, rs, d, s, w, p, x, qs, e, U, u)
    PROVE  Graph(h, G, U, qs, e, s, u, q)
<1>1. PICK R : R = h.roots
  OBVIOUS
<1>2. /\ WellFormed(h) /\ AllocsOK(A) /\ FromOK(A, F, Len(T)) /\ MovedOK(F, Len(T))
      /\ ToOK(A, F, T, s, w) /\ RootsOK(R, F, rs, d) /\ PhaseOK(R, T, d, s, w, p)
      /\ Len(A) \in Nat /\ Len(T) \in Nat
      /\ R \in Seq(Value) /\ Len(R) \in Nat /\ Len(rs) = Len(R) /\ d \in 0 .. Len(R)
      /\ s \in 0 .. Len(T) /\ s \in Nat /\ w \in Nat
  BY <1>1, GraphIs
<1>3. RootsOK(R, G, rs, d)
  BY <1>1, <1>2, MovedRoots
<1>4. CASE p = "roots"
  <2>1. d < Len(rs) /\ v = rs[d + 1]
    BY <1>4 DEF At
  <2>2. qs = [rs EXCEPT ![d + 1] = x] /\ e = d + 1 /\ U = T1 /\ u = w
    BY <1>4 DEF Processed
  <2>3. Follows(G, R[d + 1], x)
    <3>1. d + 1 \in 1 .. Len(R) /\ ~(d + 1 <= d)
      BY <1>2, <2>1
    <3>2. v = R[d + 1]
      BY <1>2, <2>1, <3>1 DEF RootsOK
    <3> QED
      BY <3>2
  <2>4. RootsOK(R, G, qs, e)
    <3>1. RootsOK(R, G, [rs EXCEPT ![d + 1] = x], d + 1)
      BY ONLY <1>2, <1>3, <2>1, <2>3, x \in NewValue, RootWritten
    <3> QED
      BY ONLY <2>2, <3>1
  <2>5. PhaseOK(R, U, e, s, u, q)
    <3>1. s = 0 /\ w = 0
      BY <1>2, <1>4 DEF PhaseOK
    <3> QED
      BY <1>2, <1>4, <2>2, <3>1 DEF PhaseOK
  <2> QED
    BY <1>1, <1>2, <2>2, <2>4, <2>5 DEF Graph
<1>5. CASE p = "scan"
  <2>1. /\ s < Len(T) /\ T[s + 1].kind # "leaf" /\ w < Len(T[s + 1].body)
        /\ v = T[s + 1].body[w + 1]
    BY <1>5 DEF At
  <2>2. U = [T1 EXCEPT ![s + 1].body[w + 1] = x] /\ u = w + 1 /\ qs = rs /\ e = d
    BY <1>5 DEF Processed
  <2>3. s + 1 \in 1 .. Len(T) /\ T1[s + 1] = T[s + 1] /\ s < Len(T1)
    BY <1>2, <2>1
  <2>4. PICK i \in 1 .. Len(A) :
              /\ F[i].moved = s + 1 /\ A[i].kind # "leaf"
              /\ T[s + 1].body[w + 1] = Visible(A, i)[w + 1]
    BY <2>1, ScannedCopy
  <2>5. G[i].moved = s + 1
    BY <1>2, <2>4
  <2>6. Follows(G, Visible(A, i)[w + 1], x) /\ w < Len(T1[s + 1].body)
    BY <2>1, <2>3, <2>4
  <2>7. /\ Len(U) = Len(T1) /\ Len(U[s + 1].body) = Len(T1[s + 1].body)
        /\ \A k \in 1 .. Len(T1) : U[k].kind = T1[k].kind
        /\ ToOK(A, G, U, s, w + 1)
    <3>1. LET Y == [T1 EXCEPT ![s + 1].body[w + 1] = x]
          IN  /\ Len(Y) = Len(T1) /\ Len(Y[s + 1].body) = Len(T1[s + 1].body)
              /\ \A k \in 1 .. Len(T1) : Y[k].kind = T1[k].kind
              /\ ToOK(A, G, Y, s, w + 1)
      <4>1. /\ FromOK(A, G, Len(T1)) /\ MovedOK(G, Len(T1)) /\ ToOK(A, G, T1, s, w)
            /\ x \in NewValue
        OBVIOUS
      <4> QED
        BY ONLY <1>2, <2>3, <2>4, <2>5, <2>6, <4>1, SlotWritten
    <3> QED
      BY ONLY <2>2, <3>1
  <2>8. PhaseOK(R, U, e, s, u, q)
    <3>1. d = Len(R)
      BY <1>2, <1>5 DEF PhaseOK
    <3>2. U[s + 1].kind # "leaf" /\ u \in Nat /\ u <= Len(U[s + 1].body) /\ s < Len(U)
      <4>1. Len(T1[s + 1].body) \in Nat
        <5>1. T1 \in Seq(Copies) /\ s + 1 \in 1 .. Len(T1)
          BY <1>2, <2>3 DEF ToOK
        <5>2. T1[s + 1].body \in Seq(NewValue)
          BY <5>1, CopyTypes
        <5> QED
          BY ONLY <5>2
      <4>2. s + 1 \in 1 .. Len(T1)
        BY <1>2, <2>3
      <4> QED
        BY <1>2, <2>1, <2>2, <2>3, <2>6, <2>7, <4>1, <4>2
    <3>3. s \in 0 .. Len(U) /\ q \in {"scan", "overrun"}
      BY <1>2, <1>5, <2>3, <2>7
    <3> QED
      BY <2>2, <3>1, <3>2, <3>3 DEF PhaseOK
  <2> QED
    BY <1>1, <1>2, <1>3, <2>2, <2>7, <2>8 DEF Graph
<1> QED
  BY <1>4, <1>5 DEF At


LEMMA MoveStep ==
    ASSUME NEW h, NEW F, NEW T, NEW rs, NEW d, NEW s, NEW w, NEW p,
           Graph(h, F, T, rs, d, s, w, p), NEW v, At(T, rs, d, s, w, p, v),
           IsFrom(v), F[v[2]].moved = 0,
           NEW G, G = Marked(F, v[2], Len(T) + 1),
           NEW x, x = [kind |-> F[v[2]].kind, body |-> Compacted(F, v[2]).body],
           NEW q, q = p \/ q = "overrun",
           NEW qs, NEW e, NEW U, NEW u,
           Processed(Append(T, x), rs, d, s, w, p, To(Len(T) + 1), qs, e, U, u)
    PROVE  Graph(h, G, U, qs, e, s, u, q)
<1>1. PICK A : A = h.allocs
  OBVIOUS
<1>2. PICK j : j = v[2]
  OBVIOUS
<1>3. /\ WellFormed(h) /\ AllocsOK(A) /\ FromOK(A, F, Len(T)) /\ MovedOK(F, Len(T))
      /\ ToOK(A, F, T, s, w) /\ Reached(h, F) /\ PhaseOK(h.roots, T, d, s, w, p)
      /\ Len(A) \in Nat /\ Len(T) \in Nat /\ DOMAIN A = 1 .. Len(A)
      /\ s \in 0 .. Len(T) /\ s \in Nat /\ w \in Nat
  BY <1>1, GraphIs
<1>4. TargetOK(A, F, j) /\ \A S \in SUBSET DOMAIN A : Closed(h, S) => j \in S
  BY <1>1, <1>2, CurrentIs
<1>5. j \in 1 .. Len(A) /\ F[j].moved = 0
  BY <1>2, <1>4 DEF TargetOK
<1>6. PICK T1 : T1 = Append(T, x)
  OBVIOUS
<1>7. w = 0 \/ s < Len(T)
  BY <1>3 DEF PhaseOK
<1>8. G = Marked(F, j, Len(T) + 1) /\ x = [kind |-> F[j].kind, body |-> Compacted(F, j).body]
  BY <1>2
<1>9. /\ Len(T1) = Len(T) + 1 /\ \A k \in 1 .. Len(T) : T1[k] = T[k]
      /\ ToOK(A, G, T1, s, w)
  <2>1. /\ Len(Append(T, x)) = Len(T) + 1
        /\ \A k \in 1 .. Len(T) : Append(T, x)[k] = T[k]
        /\ ToOK(A, G, Append(T, x), s, w)
    BY ONLY <1>3, <1>4, <1>5, <1>7, <1>8, MovedTo
  <2> QED
    BY ONLY <1>6, <2>1
<1>10. /\ FromOK(A, G, Len(T) + 1) /\ MovedOK(G, Len(T) + 1)
       /\ \A i \in 1 .. Len(A) : F[i].moved # 0 => G[i].moved = F[i].moved
       /\ \A i \in 1 .. Len(A) : G[i].moved # 0 => F[i].moved # 0 \/ i = j
       /\ G[j].moved = Len(T) + 1
  <2>1. PICK size \in Nat : size = Len(T)
    BY <1>3
  <2>2. LET H == Marked(F, j, size + 1)
        IN  /\ FromOK(A, H, size + 1) /\ MovedOK(H, size + 1)
            /\ \A i \in 1 .. Len(A) : F[i].moved # 0 => H[i].moved = F[i].moved
            /\ \A i \in 1 .. Len(A) : H[i].moved # 0 => F[i].moved # 0 \/ i = j
            /\ H[j].moved = size + 1
    <3>1. FromOK(A, F, size) /\ MovedOK(F, size) /\ AllocsOK(A) /\ TargetOK(A, F, j)
          /\ F[j].moved = 0
      BY <1>3, <1>4, <1>5, <2>1
    <3> QED
      BY ONLY <3>1, size \in Nat, MovedFrom
  <2>3. G = Marked(F, j, size + 1)
    BY ONLY <1>8, <2>1
  <2>4. /\ FromOK(A, G, size + 1) /\ MovedOK(G, size + 1)
        /\ \A i \in 1 .. Len(A) : F[i].moved # 0 => G[i].moved = F[i].moved
        /\ \A i \in 1 .. Len(A) : G[i].moved # 0 => F[i].moved # 0 \/ i = j
        /\ G[j].moved = size + 1
    BY ONLY <2>2, <2>3
  <2> QED
    BY ONLY <2>1, <2>4
<1>11. Reached(h, G)
  <2>1. PICK N : N = Len(A)
    OBVIOUS
  <2>2. /\ DOMAIN h.allocs = 1 .. N /\ j \in 1 .. N /\ Reached(h, F)
        /\ \A i \in 1 .. N : G[i].moved # 0 => F[i].moved # 0 \/ i = j
        /\ \A S \in SUBSET DOMAIN h.allocs : Closed(h, S) => j \in S
    BY <1>1, <1>3, <1>4, <1>5, <1>10, <2>1
  <2> QED
    BY ONLY <2>2 DEF Reached
<1>12. Follows(G, v, To(Len(T) + 1)) /\ To(Len(T) + 1) \in NewValue
  <2>1. Len(T) + 1 \in Nat /\ Len(T) + 1 # 0
    BY <1>3
  <2>2. Follows(G, v, To(Len(T) + 1))
    BY <1>2, <1>10, <2>1 DEF Follows
  <2>3. To(Len(T) + 1) \in NewValue
    BY <2>1 DEF To, NewValue
  <2> QED
    BY <2>2, <2>3
<1>13. /\ FromOK(A, G, Len(T1)) /\ MovedOK(G, Len(T1)) /\ Len(T1) \in Nat /\ Len(T) <= Len(T1)
  <2>1. Len(T1) \in Nat /\ Len(T) <= Len(T1)
    BY <1>3, <1>9
  <2> QED
    BY <1>9, <1>10, <2>1
<1>14. Processed(T1, rs, d, s, w, p, To(Len(T) + 1), qs, e, U, u)
  BY <1>6
<1> QED
  BY <1>1, <1>9, <1>10, <1>11, <1>12, <1>13, <1>14, SlotStep

LEMMA NextStep ==
    ASSUME NEW h, NEW F, NEW T, NEW rs, NEW d, NEW s, NEW w,
           Graph(h, F, T, rs, d, s, w, "scan"), s < Len(T),
           T[s + 1].kind = "leaf" \/ ~(w < Len(T[s + 1].body))
    PROVE  Graph(h, F, T, rs, d, s + 1, 0, "scan")
<1>1. PICK A : A = h.allocs
  OBVIOUS
<1>2. /\ WellFormed(h) /\ AllocsOK(A) /\ FromOK(A, F, Len(T)) /\ MovedOK(F, Len(T))
      /\ ToOK(A, F, T, s, w) /\ Reached(h, F) /\ PhaseOK(h.roots, T, d, s, w, "scan")
      /\ RootsOK(h.roots, F, rs, d)
      /\ Len(T) \in Nat /\ T \in Seq(Copies) /\ s \in Nat /\ w \in Nat
  BY <1>1, GraphIs
<1>3. ASSUME NEW i \in 1 .. Len(A), F[i].moved # 0
      PROVE  CopyOK(A, F, T, s + 1, 0, i, F[i].moved)
  <2>1. PICK k : k = F[i].moved
    OBVIOUS
  <2>2. k \in Nat /\ k # 0 /\ k \in 1 .. Len(T)
    <3>1. k \in 0 .. Len(T)
      BY <1>2, <2>1 DEF FromOK
    <3> QED
      BY ONLY <1>2, <1>3, <2>1, <3>1
  <2>3. CopyOK(A, F, T, s, w, i, k)
    BY <1>2, <1>3, <2>1 DEF ToOK
  <2>4. PICK V : V = Visible(A, i)
    OBVIOUS
  <2>5. ASSUME NEW n \in 1 .. Len(V), A[i].kind # "leaf"
        PROVE  Scanned(s + 1, 0, k, n) <=> Scanned(s, w, k, n)
    <3>1. n \in Nat /\ n >= 1
      OBVIOUS
    <3>2. k = s + 1 => n <= w
      <4> SUFFICES ASSUME k = s + 1 PROVE n <= w
        OBVIOUS
      <4>1. T[s + 1].kind # "leaf" /\ Len(T[s + 1].body) = Len(V)
        BY <2>3, <2>4, <2>5 DEF CopyOK
      <4>2. ~(w < Len(V))
        BY <4>1
      <4>3. Len(V) \in Nat
        <5>1. V \in Seq(Value)
          BY <1>2, <2>4, VisibleIs
        <5> QED
          BY ONLY <5>1
      <4> QED
        BY <1>2, <4>2, <4>3
    <3> QED
      BY ONLY <1>2, <2>2, <3>1, <3>2 DEF Scanned
  <2>6. CopyOK(A, F, T, s + 1, 0, i, k)
    BY ONLY <2>3, <2>4, <2>5 DEF CopyOK
  <2> QED
    BY ONLY <2>1, <2>6
<1>4. ToOK(A, F, T, s + 1, 0)
  BY <1>2, <1>3 DEF ToOK
<1>5. PhaseOK(h.roots, T, d, s + 1, 0, "scan")
  BY <1>2 DEF PhaseOK
<1> QED
  BY <1>1, <1>2, <1>4, <1>5 DEF Graph

(* Before the first slot.                                                  *)
LEMMA FreshStep ==
    ASSUME NEW h, WellFormed(h)
    PROVE  Graph(h, Untouched(h.allocs), << >>, h.roots, 0, 0, 0, "roots")
<1>1. PICK A : A = h.allocs
  OBVIOUS
<1>2. PICK R : R = h.roots
  OBVIOUS
<1>3. AllocsOK(A) /\ R \in Seq(Value)
  BY <1>1, <1>2, RootSlots
<1>4. DOMAIN A = 1 .. Len(A) /\ Len(A) \in Nat
  BY <1>3, AllocsAre
<1>5. PICK F : F = Untouched(A)
  OBVIOUS
<1>6. F = [i \in 1 .. Len(A) |-> [kind |-> A[i].kind, body |-> A[i].body, moved |-> 0]]
  BY <1>4, <1>5 DEF Untouched
<1>7. \A i \in 1 .. Len(A) : /\ F[i].kind = A[i].kind /\ F[i].body = A[i].body /\ F[i].moved = 0
                             /\ F[i] \in Tombstoned
  <2> SUFFICES ASSUME NEW i \in 1 .. Len(A)
               PROVE  /\ F[i].kind = A[i].kind /\ F[i].body = A[i].body /\ F[i].moved = 0
                      /\ F[i] \in Tombstoned
    OBVIOUS
  <2>1. A[i].kind \in Kinds /\ A[i].body \in Seq(Value)
    BY <1>3, AllocsAre
  <2>2. F[i] = [kind |-> A[i].kind, body |-> A[i].body, moved |-> 0]
    BY <1>6
  <2> QED
    BY ONLY <2>1, <2>2 DEF Tombstoned
<1>8. F \in Seq(Tombstoned) /\ Len(F) = Len(A)
  <2>1. F \in [1 .. Len(A) -> Tombstoned]
    BY ONLY <1>6, <1>7
  <2> QED
    BY ONLY <1>4, <2>1
<1>9. Len(<< >>) = 0 /\ << >> \in Seq(Copies)
  OBVIOUS
<1>10. FromOK(A, F, 0)
  BY <1>7, <1>8 DEF FromOK
<1>11. MovedOK(F, 0)
  BY <1>7, <1>8 DEF MovedOK
<1>12. ToOK(A, F, << >>, 0, 0)
  BY <1>7, <1>9 DEF ToOK
<1>13. RootsOK(R, F, R, 0)
  <2>1. \A v \in Value : v \in NewValue
    BY DEF Value, NewValue
  <2>2. R \in Seq(NewValue) /\ Len(R) \in Nat
    BY ONLY <1>3, <2>1
  <2> QED
    BY <2>2 DEF RootsOK
<1>14. Reached(h, F)
  BY <1>1, <1>4, <1>7 DEF Reached
<1>15. PhaseOK(R, << >>, 0, 0, 0, "roots")
  BY <1>9 DEF PhaseOK
<1> QED
  BY <1>1, <1>2, <1>5, <1>9, <1>10, <1>11, <1>12, <1>13, <1>14, <1>15 DEF Graph


-----------------------------------------------------------------------------
(* The heap after the last slot, which the second collection starts from.   *)

RenamedHeap(T) == [k \in DOMAIN T |-> [T[k] EXCEPT !.body = RenamedAll(@)]]

\* The allocation of the new heap at k is the one at i with its pointers renamed.
RenamedOK(A, F, B, i, k) ==
    /\ k \in 1 .. Len(B)
    /\ B[k].kind = A[i].kind /\ Len(B[k].body) = Len(Visible(A, i))
    /\ \A n \in 1 .. Len(Visible(A, i)) :
          LET v == Visible(A, i)[n]
          IN  IF A[i].kind # "leaf" /\ IsFrom(v)
              THEN F[v[2]].moved # 0 /\ B[k].body[n] = From(F[v[2]].moved)
              ELSE B[k].body[n] = v

LEMMA FunctionIsSeq ==
    ASSUME NEW X, NEW n \in Nat, NEW f \in [1 .. n -> X]
    PROVE  f \in Seq(X) /\ Len(f) = n
OBVIOUS

LEMMA RenamedIs ==
    ASSUME NEW F, NEW v \in Value, NEW x, Follows(F, v, x), IsFrom(v) => F[v[2]].moved \in Nat
    PROVE  /\ IF IsFrom(v) THEN F[v[2]].moved # 0 /\ Renamed(x) = From(F[v[2]].moved)
              ELSE Renamed(x) = v
           /\ Renamed(x) \in Value
<1>1. v[1] \in {"null", "prim", "from"}
  BY ValuesAre
<1>2. CASE IsFrom(v)
  <2>1. PICK m \in Nat : m = F[v[2]].moved
    BY <1>2
  <2>2. m # 0 /\ x = <<"to", m>>
    BY <1>2, <2>1 DEF Follows, To
  <2>3. Renamed(x) = <<"from", m>>
    BY ONLY <2>2 DEF Renamed, From
  <2>4. Renamed(x) \in Value
    BY ONLY <2>3, m \in Nat DEF Value
  <2> QED
    BY <1>2, <2>1, <2>2, <2>3, <2>4 DEF From
<1>3. CASE ~IsFrom(v)
  <2>1. x = v
    BY <1>3 DEF Follows
  <2>2. Renamed(x) = v
    BY <1>1, <2>1 DEF Renamed
  <2> QED
    BY <1>3, <2>2
<1> QED
  BY <1>2, <1>3

LEMMA HeapRenamed ==
    ASSUME NEW h, NEW F, NEW T, NEW rs, NEW d, NEW s, NEW w,
           Graph(h, F, T, rs, d, s, w, "scan"), s = Len(T),
           NEW A, A = h.allocs
    PROVE  LET B == RenamedHeap(T)
           IN  /\ B \in Seq([kind : Kinds, body : Seq(Value)]) /\ Len(B) = Len(T)
               /\ \A k \in 1 .. Len(T) : Len(B[k].body) = Len(T[k].body)
               /\ \A i \in 1 .. Len(A) : F[i].moved # 0 => RenamedOK(A, F, B, i, F[i].moved)
<1>1. /\ AllocsOK(A) /\ FromOK(A, F, Len(T)) /\ MovedOK(F, Len(T)) /\ ToOK(A, F, T, s, w)
      /\ Len(T) \in Nat /\ T \in Seq(Copies) /\ s \in Nat /\ w \in Nat /\ DOMAIN A = 1 .. Len(A)
  BY GraphIs
<1>2. PICK B : B = RenamedHeap(T)
  OBVIOUS
<1>3. DOMAIN T = 1 .. Len(T)
  BY ONLY <1>1
<1>4. ASSUME NEW k \in 1 .. Len(T)
      PROVE  /\ B[k].kind = T[k].kind /\ B[k].body = RenamedAll(T[k].body)
             /\ DOMAIN B[k].body = 1 .. Len(T[k].body)
             /\ \A n \in 1 .. Len(T[k].body) : B[k].body[n] = Renamed(T[k].body[n])
             /\ B[k] = [kind |-> T[k].kind, body |-> B[k].body]
  <2>1. PICK c : c = T[k]
    OBVIOUS
  <2>2. c \in Copies /\ c.body \in Seq(NewValue)
    BY <1>1, <2>1, CopyTypes
  <2>3. B[k] = [c EXCEPT !.body = RenamedAll(@)]
    BY <1>2, <1>3, <2>1 DEF RenamedHeap
  <2>4. B[k] = [kind |-> c.kind, body |-> RenamedAll(c.body)]
    BY ONLY <2>2, <2>3 DEF Copies
  <2>5. DOMAIN c.body = 1 .. Len(c.body)
    BY ONLY <2>2
  <2>6. RenamedAll(c.body) = [n \in 1 .. Len(c.body) |-> Renamed(c.body[n])]
    BY ONLY <2>5 DEF RenamedAll
  <2> QED
    BY ONLY <2>1, <2>4, <2>6
<1>5. ASSUME NEW i \in 1 .. Len(A), F[i].moved # 0
      PROVE  LET k == F[i].moved
                 V == Visible(A, i)
             IN  /\ k \in 1 .. Len(T) /\ T[k].kind = A[i].kind /\ Len(T[k].body) = Len(V)
                 /\ V \in Seq(Value)
                 /\ \A n \in 1 .. Len(V) :
                       /\ IF A[i].kind # "leaf" /\ IsFrom(V[n])
                          THEN F[V[n][2]].moved # 0 /\ Renamed(T[k].body[n]) = From(F[V[n][2]].moved)
                          ELSE Renamed(T[k].body[n]) = V[n]
                       /\ Renamed(T[k].body[n]) \in Value
  <2>1. PICK k : k = F[i].moved
    OBVIOUS
  <2>2. PICK V : V = Visible(A, i)
    OBVIOUS
  <2>3. k \in 1 .. Len(T) /\ k \in Nat /\ k <= s
    <3>1. k \in 0 .. Len(T)
      BY <1>1, <2>1 DEF FromOK
    <3> QED
      BY ONLY <1>1, <1>5, <2>1, <3>1, s = Len(T)
  <2>4. CopyOK(A, F, T, s, w, i, k)
    BY <1>1, <1>5, <2>1 DEF ToOK
  <2>5. V \in Seq(Value)
    BY <1>1, <2>2, VisibleIs
  <2>6. \A n : Scanned(s, w, k, n)
    BY ONLY <2>3 DEF Scanned
  <2>7. /\ T[k].kind = A[i].kind /\ Len(T[k].body) = Len(V)
        /\ \A n \in 1 .. Len(V) : IF A[i].kind # "leaf" THEN Follows(F, V[n], T[k].body[n])
                                  ELSE T[k].body[n] = V[n]
    BY ONLY <2>2, <2>4, <2>6 DEF CopyOK
  <2>8. ASSUME NEW n \in 1 .. Len(V)
        PROVE  /\ IF A[i].kind # "leaf" /\ IsFrom(V[n])
                  THEN F[V[n][2]].moved # 0 /\ Renamed(T[k].body[n]) = From(F[V[n][2]].moved)
                  ELSE Renamed(T[k].body[n]) = V[n]
               /\ Renamed(T[k].body[n]) \in Value
    <3>1. PICK v : v = V[n]
      OBVIOUS
    <3>2. v \in Value
      BY ONLY <2>5, <3>1, n \in 1 .. Len(V), ElementOfSeq
    <3>3. CASE A[i].kind = "leaf"
      <4>1. T[k].body[n] = v /\ v[1] \in {"null", "prim", "from"}
        BY <2>7, <3>1, <3>2, <3>3, ValuesAre
      <4>2. Renamed(v) = v
        BY <4>1 DEF Renamed
      <4> QED
        BY <3>1, <3>2, <3>3, <4>1, <4>2
    <3>4. CASE A[i].kind # "leaf"
      <4>1. PICK x : x = T[k].body[n]
        OBVIOUS
      <4>2. Follows(F, v, x)
        BY <2>7, <3>1, <3>4, <4>1
      <4>3. IsFrom(v) => F[v[2]].moved \in Nat
        <5> SUFFICES ASSUME IsFrom(v) PROVE F[v[2]].moved \in Nat
          OBVIOUS
        <5>1. SlotOK(A, i, n, v)
          BY <1>1, <2>2, <3>1, <3>4, VisibleSlots
        <5>2. v[2] \in 1 .. Len(A)
          BY <5>1 DEF SlotOK
        <5>3. F[v[2]].moved \in 0 .. Len(T)
          BY <1>1, <5>2 DEF FromOK
        <5> QED
          BY <1>1, <5>3
      <4>4. /\ IF IsFrom(v) THEN F[v[2]].moved # 0 /\ Renamed(x) = From(F[v[2]].moved)
               ELSE Renamed(x) = v
            /\ Renamed(x) \in Value
        BY <3>2, <4>2, <4>3, RenamedIs
      <4> QED
        BY <3>1, <3>4, <4>1, <4>4
    <3> QED
      BY <3>3, <3>4
  <2>9. /\ k \in 1 .. Len(T) /\ T[k].kind = A[i].kind /\ Len(T[k].body) = Len(V)
        /\ V \in Seq(Value)
        /\ \A n \in 1 .. Len(V) :
              /\ IF A[i].kind # "leaf" /\ IsFrom(V[n])
                 THEN F[V[n][2]].moved # 0 /\ Renamed(T[k].body[n]) = From(F[V[n][2]].moved)
                 ELSE Renamed(T[k].body[n]) = V[n]
              /\ Renamed(T[k].body[n]) \in Value
    BY ONLY <2>3, <2>5, <2>7, <2>8
  <2> QED
    BY ONLY <2>1, <2>2, <2>9
<1>6. ASSUME NEW k \in 1 .. Len(T)
      PROVE  B[k].body \in Seq(Value) /\ Len(B[k].body) = Len(T[k].body) /\ B[k].kind \in Kinds
  <2>1. Len(F) = Len(A)
    BY <1>1 DEF FromOK
  <2>2. PICK i \in 1 .. Len(A) : F[i].moved = k
    BY <1>1, <2>1 DEF MovedOK
  <2>3. F[i].moved # 0
    BY <1>1, <2>2
  <2>4. PICK V : V = Visible(A, i)
    OBVIOUS
  <2>5. /\ Len(T[k].body) = Len(V) /\ V \in Seq(Value)
        /\ \A n \in 1 .. Len(V) : Renamed(T[k].body[n]) \in Value
    BY <1>5, <2>2, <2>3, <2>4
  <2>6. PICK b : b = B[k].body
    OBVIOUS
  <2>7. T[k].body \in Seq(NewValue) /\ T[k].kind \in Kinds
    BY <1>1, CopyTypes
  <2>8. Len(T[k].body) \in Nat
    BY ONLY <2>7
  <2>9. b = [n \in 1 .. Len(T[k].body) |-> Renamed(T[k].body[n])]
    <3>1. DOMAIN T[k].body = 1 .. Len(T[k].body)
      BY ONLY <2>7
    <3> QED
      BY <1>4, <2>6, <3>1 DEF RenamedAll
  <2>10. b \in [1 .. Len(T[k].body) -> Value]
    BY ONLY <2>5, <2>9
  <2>11. b \in Seq(Value) /\ Len(b) = Len(T[k].body)
    BY ONLY <2>8, <2>10
  <2> QED
    BY <1>4, <2>6, <2>7, <2>11
<1>7. B \in Seq([kind : Kinds, body : Seq(Value)]) /\ Len(B) = Len(T)
  <2>1. DOMAIN B = 1 .. Len(T) /\ B = [k \in 1 .. Len(T) |-> B[k]]
    BY ONLY <1>2, <1>3 DEF RenamedHeap
  <2>2. ASSUME NEW k \in 1 .. Len(T)
        PROVE  B[k] \in [kind : Kinds, body : Seq(Value)]
    <3>1. B[k] = [kind |-> T[k].kind, body |-> B[k].body] /\ B[k].kind = T[k].kind
      BY <1>4
    <3>2. T[k].kind \in Kinds /\ B[k].body \in Seq(Value)
      BY <1>6, <3>1
    <3> QED
      BY ONLY <3>1, <3>2
  <2>3. B \in [1 .. Len(T) -> [kind : Kinds, body : Seq(Value)]]
    BY ONLY <2>1, <2>2
  <2>4. Len(T) \in Nat
    BY <1>1
  <2> QED
    BY ONLY <2>3, <2>4, FunctionIsSeq
<1>8. ASSUME NEW i \in 1 .. Len(A), F[i].moved # 0
      PROVE  RenamedOK(A, F, B, i, F[i].moved)
  <2>1. PICK k : k = F[i].moved
    OBVIOUS
  <2>2. PICK V : V = Visible(A, i)
    OBVIOUS
  <2>3. /\ k \in 1 .. Len(T) /\ T[k].kind = A[i].kind /\ Len(T[k].body) = Len(V)
        /\ \A n \in 1 .. Len(V) :
              IF A[i].kind # "leaf" /\ IsFrom(V[n])
              THEN F[V[n][2]].moved # 0 /\ Renamed(T[k].body[n]) = From(F[V[n][2]].moved)
              ELSE Renamed(T[k].body[n]) = V[n]
    BY <1>5, <1>8, <2>1, <2>2
  <2>4. /\ B[k].kind = T[k].kind /\ Len(B[k].body) = Len(V)
        /\ \A n \in 1 .. Len(V) : B[k].body[n] = Renamed(T[k].body[n])
    BY <1>4, <1>6, <2>3
  <2>5. RenamedOK(A, F, B, i, k)
    BY ONLY <1>7, <2>2, <2>3, <2>4 DEF RenamedOK
  <2> QED
    BY ONLY <2>1, <2>5
<1> QED
  BY <1>2, <1>6, <1>7, <1>8


\* What is left of the part of allocation i in its copy k.
PartsOK(A, F, B, i, k) ==
    /\ HasPart(B[k]) =>
         \E q \in 1 .. Len(A) : /\ Cuts(A, i, q) /\ F[q].moved # 0 /\ B[k].kind = "array"
                                /\ B[k].body[1] = From(F[q].moved)
                                /\ Part(B[k]) = F[q].moved
    /\ \A q : Cuts(A, i, q) => HasPart(B[k])
    /\ B[k].kind = "array" => Len(B[k].body) = 2 /\ B[k].body[2] = A[i].body[2]

(* Of the parts, only the storage of arrays is left.                       *)
LEMMA RenamedParts ==
    ASSUME NEW A, AllocsOK(A), NEW F, NEW B, NEW i \in 1 .. Len(A), NEW k,
           RenamedOK(A, F, B, i, k)
    PROVE  PartsOK(A, F, B, i, k)
<1>1. PICK V : V = Visible(A, i)
  OBVIOUS
<1>2. /\ B[k].kind = A[i].kind /\ Len(B[k].body) = Len(V)
      /\ \A n \in 1 .. Len(V) :
            IF A[i].kind # "leaf" /\ IsFrom(V[n])
            THEN F[V[n][2]].moved # 0 /\ B[k].body[n] = From(F[V[n][2]].moved)
            ELSE B[k].body[n] = V[n]
  BY <1>1 DEF RenamedOK
<1>3. ~IsFrom(Null)
  BY DEF IsFrom, Null
<1>4. A[i].kind = "props" => ~HasPart(B[k])
  <2> SUFFICES ASSUME A[i].kind = "props" PROVE B[k].body[1] = Null
    BY DEF HasPart
  <2>1. V[1] = Null /\ 1 \in 1 .. Len(V)
    <3>1. V = Merged(A, i)
      BY <1>1, VisibleIs
    <3>2. Merged(A, i)[1] = Null /\ Len(Merged(A, i)) >= 2 /\ Merged(A, i) \in Seq(Value)
      BY MergedIs
    <3>3. Len(V) \in Nat
      BY ONLY <3>1, <3>2
    <3> QED
      BY <3>1, <3>2, <3>3
  <2> QED
    BY <1>2, <1>3, <2>1
<1>5. A[i].kind = "array" =>
        /\ Len(V) = 2 /\ V[2] = A[i].body[2]
        /\ V[1] = IF A[i].body[2] = Prim(0) THEN Null ELSE A[i].body[1]
        /\ B[k].body[2] = A[i].body[2]
        /\ WellFormedAt(A, i)
        /\ IF IsFrom(V[1]) THEN F[V[1][2]].moved # 0 /\ B[k].body[1] = From(F[V[1][2]].moved)
           ELSE B[k].body[1] = V[1]
  <2> SUFFICES ASSUME A[i].kind = "array"
               PROVE  /\ Len(V) = 2 /\ V[2] = A[i].body[2]
                      /\ V[1] = IF A[i].body[2] = Prim(0) THEN Null ELSE A[i].body[1]
                      /\ B[k].body[2] = A[i].body[2]
                      /\ WellFormedAt(A, i)
                      /\ IF IsFrom(V[1])
                         THEN F[V[1][2]].moved # 0 /\ B[k].body[1] = From(F[V[1][2]].moved)
                         ELSE B[k].body[1] = V[1]
    OBVIOUS
  <2>1. /\ Len(V) = 2 /\ V[2] = A[i].body[2]
        /\ V[1] = IF A[i].body[2] = Prim(0) THEN Null ELSE A[i].body[1]
    BY <1>1, VisibleIs
  <2>2. WellFormedAt(A, i)
    BY AllocsAre
  <2>3. ~IsFrom(V[2])
    BY <2>1, <2>2 DEF WellFormedAt, IsFrom
  <2>4. 1 \in 1 .. Len(V) /\ 2 \in 1 .. Len(V)
    BY <2>1
  <2>5. A[i].kind # "leaf"
    OBVIOUS
  <2>6. B[k].body[2] = A[i].body[2]
    BY ONLY <1>2, <2>1, <2>3, <2>4
  <2>7. IF IsFrom(V[1]) THEN F[V[1][2]].moved # 0 /\ B[k].body[1] = From(F[V[1][2]].moved)
        ELSE B[k].body[1] = V[1]
    BY ONLY <1>2, <2>4, <2>5
  <2> QED
    BY <2>1, <2>2, <2>6, <2>7
<1>6. ASSUME HasPart(B[k])
      PROVE  \E q \in 1 .. Len(A) : /\ Cuts(A, i, q) /\ F[q].moved # 0 /\ B[k].kind = "array"
                                    /\ B[k].body[1] = From(F[q].moved)
                                    /\ Part(B[k]) = F[q].moved
  <2>1. A[i].kind = "array" /\ B[k].kind = "array" /\ B[k].body[1] # Null
    <3>1. B[k].kind \in {"props", "array"} /\ B[k].body[1] # Null
      BY <1>6 DEF HasPart
    <3> QED
      BY ONLY <1>2, <1>4, <1>6, <3>1
  <2>2. A[i].body[2] # Prim(0) /\ V[1] = A[i].body[1] /\ V[1] # Null
    BY <1>2, <1>3, <1>5, <2>1
  <2>3. HasPart(A[i])
    BY <2>1, <2>2 DEF HasPart
  <2>4. PICK q : q = Part(A[i])
    OBVIOUS
  <2>5. IsFrom(V[1]) /\ V[1][2] = q /\ q \in 1 .. Len(A)
    <3>1. DOMAIN A = 1 .. Len(A)
      BY AllocsAre
    <3>2. IsFrom(A[i].body[1]) /\ Part(A[i]) \in DOMAIN A
      BY <1>5, <2>1, <2>3 DEF WellFormedAt
    <3> QED
      BY <2>2, <2>4, <3>1, <3>2 DEF Part
  <2>6. Cuts(A, i, q)
    BY <2>1, <2>2, <2>3, <2>4 DEF Cuts
  <2>7. F[q].moved # 0 /\ B[k].body[1] = From(F[q].moved)
    BY <1>2, <1>5, <2>1, <2>5
  <2>8. Part(B[k]) = F[q].moved
    BY <2>7 DEF Part, From
  <2> QED
    BY <2>1, <2>5, <2>6, <2>7, <2>8
<1>7. ASSUME NEW q, Cuts(A, i, q)
      PROVE  HasPart(B[k])
  <2>1. A[i].kind = "array" /\ HasPart(A[i]) /\ A[i].body[2] # Prim(0)
    BY <1>7 DEF Cuts
  <2>2. V[1] = A[i].body[1] /\ IsFrom(V[1])
    BY <1>5, <2>1 DEF WellFormedAt
  <2>3. B[k].body[1] = From(F[V[1][2]].moved)
    BY <1>5, <2>1, <2>2
  <2> QED
    BY <1>2, <2>1, <2>3 DEF HasPart, From, Null
<1> QED
  BY <1>2, <1>5, <1>6, <1>7 DEF PartsOK

\* There is nothing to merge or to cut.
Whole(B) ==
    \A k \in 1 .. Len(B) :
        /\ B[k].kind = "props" => ~HasPart(B[k])
        /\ \A o \in 1 .. Len(B) : Cuts(B, o, k) => B[o].body[2][2] = Len(B[k].body)
        /\ B[k].kind = "array" /\ B[k].body[2] = Prim(0) => ~HasPart(B[k])

LEMMA RenamedSound ==
    ASSUME NEW A, AllocsOK(A), NEW F, NEW N \in Nat, FromOK(A, F, N), MovedOK(F, N),
           NEW B \in Seq([kind : Kinds, body : Seq(Value)]), Len(B) = N,
           \A i \in 1 .. Len(A) : F[i].moved # 0 => RenamedOK(A, F, B, i, F[i].moved)
    PROVE  /\ AllocsOK(B)
           /\ Whole(B)
           /\ \A q \in 1 .. Len(A) : F[q].moved \in Parts(B) => q \in Parts(A)
<1>1. /\ DOMAIN B = 1 .. N /\ DOMAIN A = 1 .. Len(A) /\ Len(F) = Len(A)
      /\ \A i \in 1 .. Len(A) : F[i].moved \in 0 .. N
  <2>1. DOMAIN B = 1 .. Len(B)
    BY ONLY B \in Seq([kind : Kinds, body : Seq(Value)])
  <2> QED
    BY <2>1, AllocsAre DEF FromOK
<1>2. \A k \in 1 .. N : \E i \in 1 .. Len(A) : F[i].moved = k /\ k # 0 /\ RenamedOK(A, F, B, i, k)
  <2> SUFFICES ASSUME NEW k \in 1 .. N
               PROVE  \E i \in 1 .. Len(A) : F[i].moved = k /\ k # 0 /\ RenamedOK(A, F, B, i, k)
    OBVIOUS
  <2>1. PICK i \in 1 .. Len(A) : F[i].moved = k
    BY <1>1 DEF MovedOK
  <2>2. k # 0
    OBVIOUS
  <2>3. RenamedOK(A, F, B, i, F[i].moved)
    BY <2>1, <2>2
  <2> QED
    BY <2>1, <2>2, <2>3
<1>3. ASSUME NEW k \in 1 .. N, HasPart(B[k])
      PROVE  \E i, q \in 1 .. Len(A) :
                /\ Cuts(A, i, q) /\ F[i].moved = k /\ F[q].moved # 0 /\ B[k].kind = "array"
                /\ B[k].body[1] = From(F[q].moved) /\ Part(B[k]) = F[q].moved
                /\ B[k].body[2] = A[i].body[2]
  <2>1. PICK i \in 1 .. Len(A) : F[i].moved = k /\ k # 0 /\ RenamedOK(A, F, B, i, k)
    BY <1>2
  <2>4. PartsOK(A, F, B, i, k)
    BY ONLY <2>1, AllocsOK(A), RenamedParts
  <2>2. PICK q \in 1 .. Len(A) : /\ Cuts(A, i, q) /\ F[q].moved # 0 /\ B[k].kind = "array"
                                 /\ B[k].body[1] = From(F[q].moved)
                                 /\ Part(B[k]) = F[q].moved
    BY ONLY <1>3, <2>4 DEF PartsOK
  <2>3. B[k].body[2] = A[i].body[2]
    BY ONLY <2>2, <2>4 DEF PartsOK
  <2> QED
    BY <2>1, <2>2, <2>3
<1>4. \A q \in 1 .. Len(A) : F[q].moved \in Parts(B) => q \in Parts(A)
  <2> SUFFICES ASSUME NEW q \in 1 .. Len(A), F[q].moved \in Parts(B)
               PROVE  q \in Parts(A)
    OBVIOUS
  <2>1. PICK k \in 1 .. N : HasPart(B[k]) /\ Part(B[k]) = F[q].moved
    BY <1>1 DEF Parts
  <2>2. PICK i, z \in 1 .. Len(A) : Cuts(A, i, z) /\ F[z].moved # 0 /\ Part(B[k]) = F[z].moved
    BY ONLY <1>3, <2>1
  <2>3. z = q
    BY <1>1, <2>1, <2>2 DEF MovedOK
  <2> QED
    BY <2>2, <2>3, CutsAre
<1>5. ASSUME NEW k \in 1 .. N
      PROVE  WellFormedAt(B, k)
  <2>1. PICK i \in 1 .. Len(A) : F[i].moved = k /\ k # 0 /\ RenamedOK(A, F, B, i, k)
    BY <1>2
  <2>2. PICK V : V = Visible(A, i)
    OBVIOUS
  <2>3. /\ B[k].kind = A[i].kind /\ Len(B[k].body) = Len(V)
        /\ \A n \in 1 .. Len(V) :
              IF A[i].kind # "leaf" /\ IsFrom(V[n])
              THEN F[V[n][2]].moved # 0 /\ B[k].body[n] = From(F[V[n][2]].moved)
              ELSE B[k].body[n] = V[n]
    BY <2>1, <2>2 DEF RenamedOK
  <2>4. B[k].kind = "props" => Len(B[k].body) >= 2 /\ Len(B[k].body) % 2 = 0
    <3> SUFFICES ASSUME A[i].kind = "props"
                 PROVE  Len(V) >= 2 /\ Len(V) % 2 = 0
      BY <2>3
    <3>1. V = Merged(A, i)
      BY <2>2, VisibleIs
    <3>2. Len(Merged(A, i)) >= 2
      BY MergedIs
    <3>3. PICK c : c = Chain(A, i)
      OBVIOUS
    <3>4. /\ Counts(A, c) \in Seq(Nat) /\ PropCount(A[i]) \in Nat
          /\ Len(Merged(A, i)) = 2 + 2 * PropCount(A[i]) + 2 * Total(Counts(A, c))
      BY <3>3, PropsFit
    <3>5. PICK a \in Nat, b \in Nat : a = PropCount(A[i]) /\ b = Total(Counts(A, c))
      BY <3>4, TotalType
    <3>6. Len(V) = 2 * (1 + a + b)
      BY <3>1, <3>4, <3>5
    <3>7. (2 * (1 + a + b)) % 2 = 0
      BY ONLY a \in Nat, b \in Nat
    <3> QED
      BY <3>1, <3>2, <3>6, <3>7
  <2>5. B[k].kind = "array" => Len(B[k].body) = 2 /\ B[k].body[2][1] = "prim"
    <3> SUFFICES ASSUME B[k].kind = "array"
                 PROVE  Len(B[k].body) = 2 /\ B[k].body[2][1] = "prim"
      OBVIOUS
    <3>1. Len(B[k].body) = 2 /\ B[k].body[2] = A[i].body[2]
      <4>1. PartsOK(A, F, B, i, k)
        BY ONLY <2>1, AllocsOK(A), RenamedParts
      <4> QED
        BY ONLY <4>1, B[k].kind = "array" DEF PartsOK
    <3>2. A[i].body[2][1] = "prim"
      <4>1. WellFormedAt(A, i)
        BY AllocsAre
      <4>2. A[i].kind = "array"
        BY <2>3
      <4> QED
        BY ONLY <4>1, <4>2 DEF WellFormedAt
    <3> QED
      BY <3>1, <3>2
  <2>6. ASSUME HasPart(B[k])
        PROVE  /\ IsFrom(B[k].body[1]) /\ Part(B[k]) \in DOMAIN B
               /\ \A m \in DOMAIN B : HasPart(B[m]) /\ Part(B[m]) = Part(B[k]) => m = k
               /\ B[k].kind = "array" /\ B[Part(B[k])].kind = "data"
               /\ B[k].body[2][2] <= Len(B[Part(B[k])].body)
    <3>1. PICK j, q \in 1 .. Len(A) :
                /\ Cuts(A, j, q) /\ F[j].moved = k /\ F[q].moved # 0 /\ B[k].kind = "array"
                /\ B[k].body[1] = From(F[q].moved) /\ Part(B[k]) = F[q].moved
                /\ B[k].body[2] = A[j].body[2]
      BY <1>3, <2>6
    <3>2. IsFrom(B[k].body[1]) /\ Part(B[k]) \in 1 .. N
      <4>1. IsFrom(B[k].body[1])
        BY ONLY <3>1 DEF IsFrom, From
      <4>2. F[q].moved \in 0 .. N
        BY <1>1
      <4>3. F[q].moved \in 1 .. N
        BY ONLY <3>1, <4>2, N \in Nat
      <4> QED
        BY <3>1, <4>1, <4>3
    <3>3. ASSUME NEW m \in 1 .. N, HasPart(B[m]), Part(B[m]) = Part(B[k])
          PROVE  m = k
      <4>1. PICK l, z \in 1 .. Len(A) :
                  /\ Cuts(A, l, z) /\ F[l].moved = m /\ F[z].moved # 0 /\ B[m].kind = "array"
                  /\ B[m].body[1] = From(F[z].moved) /\ Part(B[m]) = F[z].moved
                  /\ B[m].body[2] = A[l].body[2]
        BY ONLY <1>3, <3>3
      <4>2. z = q
        BY <1>1, <3>1, <3>3, <4>1 DEF MovedOK
      <4>3. l = j
        BY <3>1, <4>1, <4>2, CutsAre
      <4> QED
        BY <3>1, <4>1, <4>3
    <3>4. B[Part(B[k])].kind = "data" /\ Len(B[Part(B[k])].body) = Len(Visible(A, q))
      <4>1. RenamedOK(A, F, B, q, F[q].moved)
        BY <3>1
      <4>2. A[q].kind = "data"
        BY <3>1, CutsAre
      <4> QED
        BY <3>1, <4>1, <4>2 DEF RenamedOK
    <3>5. Len(Visible(A, q)) = B[k].body[2][2] /\ B[k].body[2][2] \in Nat
      <4>1. PICK l : l = A[j].body[2][2]
        OBVIOUS
      <4>2. l \in 0 .. Len(A[q].body) /\ Kept(A, q) = SubSeq(A[q].body, 1, l) /\ A[q].kind = "data"
        BY <3>1, <4>1, CutsAre
      <4>3. A[q].body \in Seq(Value)
        BY AllocsAre
      <4>4. LET g == SubSeq(A[q].body, 1, l) IN Len(g) = l
        BY ONLY <4>2, <4>3, Shortened
      <4>5. Visible(A, q) = Kept(A, q)
        BY <4>2, VisibleIs
      <4>6. l \in Nat
        BY ONLY <4>2
      <4> QED
        BY <3>1, <4>1, <4>2, <4>4, <4>5, <4>6
    <3>6. B[k].body[2][2] <= Len(B[Part(B[k])].body)
      BY ONLY <3>4, <3>5
    <3> QED
      BY ONLY <1>1, <3>1, <3>2, <3>3, <3>4, <3>6
  <2>7. ASSUME B[k].kind # "leaf"
        PROVE  Shared(B[k]) \subseteq DOMAIN B \ Parts(B)
    <3>1. PICK t : t = IF HasPart(B[k]) THEN Tail(B[k].body) ELSE B[k].body
      OBVIOUS
    <3>2. PICK b : b = B[k].body
      OBVIOUS
    <3>3. b \in Seq(Value) /\ Len(b) \in Nat
      <4>1. B[k] \in [kind : Kinds, body : Seq(Value)]
        BY ONLY B \in Seq([kind : Kinds, body : Seq(Value)]), Len(B) = N, k \in 1 .. N, ElementOfSeq
      <4>2. b \in Seq(Value)
        BY ONLY <3>2, <4>1
      <4> QED
        BY ONLY <4>2
    <3>4. ASSUME NEW y \in Range(t)
          PROVE  \E n \in 1 .. Len(b) : y = b[n] /\ (n >= 2 \/ ~HasPart(B[k]))
      <4>1. PICK a \in DOMAIN t : y = t[a]
        BY <3>4 DEF Range
      <4>2. CASE ~HasPart(B[k])
        <5>1. t = b /\ DOMAIN b = 1 .. Len(b)
          BY <3>1, <3>2, <3>3, <4>2
        <5> QED
          BY <4>1, <4>2, <5>1
      <4>3. CASE HasPart(B[k])
        <5>1. t = Tail(b) /\ Len(b) = 2
          BY <2>5, <2>6, <3>1, <3>2, <4>3
        <5>2. b # << >>
          BY ONLY <3>3, <5>1
        <5>3. /\ Len(Tail(b)) = Len(b) - 1 /\ Tail(b) \in Seq(Value)
              /\ \A n \in 1 .. Len(Tail(b)) : Tail(b)[n] = b[n + 1]
          BY ONLY <3>3, <5>2, HeadTailProperties
        <5>4. DOMAIN Tail(b) = 1 .. Len(Tail(b))
          BY ONLY <5>3
        <5>5. a \in 1 .. 1 /\ y = b[a + 1]
          BY ONLY <4>1, <5>1, <5>3, <5>4
        <5>6. a + 1 \in 1 .. Len(b) /\ a + 1 >= 2
          BY <5>1, <5>5
        <5> QED
          BY <5>5, <5>6
      <4> QED
        BY <4>2, <4>3
    <3>5. ASSUME NEW y \in Range(t), IsFrom(y)
          PROVE  y[2] \in (1 .. N) \ Parts(B)
      <4>1. PICK n \in 1 .. Len(b) : y = b[n] /\ (n >= 2 \/ ~HasPart(B[k]))
        BY <3>4, <3>5
      <4>2. PICK v : v = V[n]
        OBVIOUS
      <4>3. /\ n \in 1 .. Len(V) /\ A[i].kind # "leaf"
            /\ IF IsFrom(v) THEN F[v[2]].moved # 0 /\ y = From(F[v[2]].moved) ELSE y = v
        BY <2>3, <2>7, <3>2, <4>1, <4>2
      <4>4. IsFrom(v) /\ F[v[2]].moved # 0 /\ y = From(F[v[2]].moved)
        BY <3>5, <4>3
      <4>5. SlotOK(A, i, n, v)
        BY <2>2, <4>2, <4>3, VisibleSlots
      <4>6. v[2] \in 1 .. Len(A) /\ v[2] \notin Parts(A)
        <5>1. v[2] \in 1 .. Len(A) /\ (v[2] \notin Parts(A) \/ (n = 1 /\ Cuts(A, i, v[2])))
          BY <4>4, <4>5 DEF SlotOK
        <5>2. ~(n = 1 /\ Cuts(A, i, v[2]))
          <6> SUFFICES ASSUME n = 1, Cuts(A, i, v[2]) PROVE FALSE
            OBVIOUS
          <6>2. PartsOK(A, F, B, i, k)
            BY ONLY <2>1, AllocsOK(A), RenamedParts
          <6>1. HasPart(B[k])
            BY ONLY <6>2, Cuts(A, i, v[2]) DEF PartsOK
          <6> QED
            BY <4>1, <6>1
        <5> QED
          BY <5>1, <5>2
      <4>7. y[2] = F[v[2]].moved
        BY <4>4 DEF From
      <4>8. F[v[2]].moved \in 1 .. N
        BY <1>1, <4>4, <4>6
      <4> QED
        BY <1>4, <4>6, <4>7, <4>8
    <3> QED
      BY <1>1, <3>1, <3>5 DEF Shared, Pointers
  <2> QED
    BY <2>4, <2>5, <2>6, <2>7 DEF WellFormedAt
<1>6. AllocsOK(B)
  BY <1>1, <1>5 DEF AllocsOK
<1>7. ASSUME NEW k \in 1 .. N
      PROVE  /\ B[k].kind = "props" => ~HasPart(B[k])
             /\ \A o \in 1 .. N : Cuts(B, o, k) => B[o].body[2][2] = Len(B[k].body)
             /\ B[k].kind = "array" /\ B[k].body[2] = Prim(0) => ~HasPart(B[k])
  <2>1. B[k].kind = "props" => ~HasPart(B[k])
    BY <1>3
  <2>2. B[k].kind = "array" /\ B[k].body[2] = Prim(0) => ~HasPart(B[k])
    BY <1>3 DEF Cuts
  <2>3. ASSUME NEW o \in 1 .. N, Cuts(B, o, k)
        PROVE  B[o].body[2][2] = Len(B[k].body)
    <3>1. HasPart(B[o]) /\ Part(B[o]) = k
      BY <2>3 DEF Cuts
    <3>2. PICK j, q \in 1 .. Len(A) :
                /\ Cuts(A, j, q) /\ F[j].moved = o /\ F[q].moved # 0 /\ F[q].moved = k
                /\ B[o].body[2] = A[j].body[2]
      BY <1>3, <3>1
    <3>3. RenamedOK(A, F, B, q, k)
      BY <3>2
    <3>4. PICK l : l = A[j].body[2][2]
      OBVIOUS
    <3>5. l \in 0 .. Len(A[q].body) /\ Kept(A, q) = SubSeq(A[q].body, 1, l) /\ A[q].kind = "data"
      BY <3>2, <3>4, CutsAre
    <3>6. A[q].body \in Seq(Value)
      BY AllocsAre
    <3>7. LET g == SubSeq(A[q].body, 1, l) IN Len(g) = l
      BY ONLY <3>5, <3>6, Shortened
    <3>8. Visible(A, q) = Kept(A, q)
      BY <3>5, VisibleIs
    <3> QED
      BY <3>2, <3>3, <3>4, <3>5, <3>7, <3>8 DEF RenamedOK
  <2> QED
    BY <2>1, <2>2, <2>3
<1>8. Whole(B)
  BY <1>7 DEF Whole
<1> QED
  BY <1>4, <1>6, <1>8


LEMMA RootsRenamed ==
    ASSUME NEW h, NEW F, NEW T, NEW rs, NEW d, NEW s, NEW w,
           Graph(h, F, T, rs, d, s, w, "scan"), NEW R, R = h.roots
    PROVE  LET Q == RenamedAll(rs)
           IN  /\ Q \in Seq(Value) /\ Len(Q) = Len(R)
               /\ \A n \in 1 .. Len(R) :
                     IF IsFrom(R[n]) THEN F[R[n][2]].moved # 0 /\ Q[n] = From(F[R[n][2]].moved)
                     ELSE Q[n] = R[n]
<1>1. PICK A : A = h.allocs
  OBVIOUS
<1>2. /\ WellFormed(h) /\ AllocsOK(A) /\ FromOK(A, F, Len(T)) /\ RootsOK(R, F, rs, d)
      /\ PhaseOK(R, T, d, s, w, "scan") /\ R \in Seq(Value) /\ Len(R) \in Nat
      /\ rs \in Seq(NewValue) /\ Len(rs) = Len(R) /\ Len(T) \in Nat
  BY <1>1, GraphIs
<1>3. d = Len(R)
  BY <1>2 DEF PhaseOK
<1>4. \A n \in 1 .. Len(R) : Follows(F, R[n], rs[n])
  <2> SUFFICES ASSUME NEW n \in 1 .. Len(R) PROVE Follows(F, R[n], rs[n])
    OBVIOUS
  <2>1. n <= d
    BY <1>3
  <2> QED
    BY <1>2, <2>1 DEF RootsOK
<1>5. \A n \in 1 .. Len(R) :
         /\ IF IsFrom(R[n]) THEN F[R[n][2]].moved # 0 /\ Renamed(rs[n]) = From(F[R[n][2]].moved)
            ELSE Renamed(rs[n]) = R[n]
         /\ Renamed(rs[n]) \in Value
  <2> SUFFICES ASSUME NEW n \in 1 .. Len(R)
               PROVE  /\ IF IsFrom(R[n])
                         THEN F[R[n][2]].moved # 0 /\ Renamed(rs[n]) = From(F[R[n][2]].moved)
                         ELSE Renamed(rs[n]) = R[n]
                      /\ Renamed(rs[n]) \in Value
    OBVIOUS
  <2>1. PICK v, x : v = R[n] /\ x = rs[n]
    OBVIOUS
  <2>2. v \in Value
    BY ONLY <1>2, <2>1, n \in 1 .. Len(R), ElementOfSeq
  <2>3. Follows(F, v, x)
    BY <1>4, <2>1
  <2>4. IsFrom(v) => v[2] \in (1 .. Len(A)) \ Parts(A)
    BY <1>1, <1>2, <2>1, RootSlots
  <2>5. IsFrom(v) => F[v[2]].moved \in Nat
    <3> SUFFICES ASSUME IsFrom(v) PROVE F[v[2]].moved \in Nat
      OBVIOUS
    <3>1. F[v[2]].moved \in 0 .. Len(T)
      BY <1>2, <2>4 DEF FromOK
    <3> QED
      BY ONLY <1>2, <3>1
  <2>6. /\ IF IsFrom(v) THEN F[v[2]].moved # 0 /\ Renamed(x) = From(F[v[2]].moved)
           ELSE Renamed(x) = v
        /\ Renamed(x) \in Value
    BY ONLY <2>2, <2>3, <2>5, RenamedIs
  <2> QED
    BY ONLY <2>1, <2>6
<1>6. PICK Q : Q = RenamedAll(rs)
  OBVIOUS
<1>7. Q = [n \in 1 .. Len(R) |-> Renamed(rs[n])]
  <2>1. DOMAIN rs = 1 .. Len(rs)
    BY ONLY <1>2
  <2> QED
    BY ONLY <1>2, <1>6, <2>1 DEF RenamedAll
<1>8. Q \in [1 .. Len(R) -> Value] /\ \A n \in 1 .. Len(R) : Q[n] = Renamed(rs[n])
  BY ONLY <1>5, <1>7
<1>9. Q \in Seq(Value) /\ Len(Q) = Len(R)
  BY ONLY <1>2, <1>8, FunctionIsSeq
<1> QED
  BY ONLY <1>5, <1>6, <1>8, <1>9

(* The heap that a collection leaves is one that can be collected.         *)
LEMMA RenamedStep ==
    ASSUME NEW h, NEW F, NEW T, NEW rs, NEW d, NEW s, NEW w,
           Graph(h, F, T, rs, d, s, w, "scan"), s = Len(T)
    PROVE  WellFormed([allocs |-> RenamedHeap(T), roots |-> RenamedAll(rs)])
<1>1. PICK A, R : A = h.allocs /\ R = h.roots
  OBVIOUS
<1>2. PICK B, Q : B = RenamedHeap(T) /\ Q = RenamedAll(rs)
  OBVIOUS
<1>3. /\ WellFormed(h) /\ AllocsOK(A) /\ FromOK(A, F, Len(T)) /\ MovedOK(F, Len(T))
      /\ Len(T) \in Nat /\ DOMAIN A = 1 .. Len(A) /\ Len(R) \in Nat
  BY <1>1, GraphIs
<1>4. /\ B \in Seq([kind : Kinds, body : Seq(Value)]) /\ Len(B) = Len(T)
      /\ \A i \in 1 .. Len(A) : F[i].moved # 0 => RenamedOK(A, F, B, i, F[i].moved)
  BY <1>1, <1>2, HeapRenamed
<1>5. AllocsOK(B) /\ \A q \in 1 .. Len(A) : F[q].moved \in Parts(B) => q \in Parts(A)
  <2>1. PICK N \in Nat : N = Len(T)
    BY <1>3
  <2>2. FromOK(A, F, N) /\ MovedOK(F, N) /\ Len(B) = N
    BY <1>3, <1>4, <2>1
  <2> QED
    BY ONLY <1>3, <1>4, <2>2, N \in Nat, RenamedSound
<1>6. /\ Q \in Seq(Value) /\ Len(Q) = Len(R)
      /\ \A n \in 1 .. Len(R) :
            IF IsFrom(R[n]) THEN F[R[n][2]].moved # 0 /\ Q[n] = From(F[R[n][2]].moved)
            ELSE Q[n] = R[n]
  BY <1>1, <1>2, RootsRenamed
<1>7. DOMAIN B = 1 .. Len(T) /\ DOMAIN Q = 1 .. Len(R)
  BY ONLY <1>4, <1>6
<1>8. Pointers(Q) \subseteq DOMAIN B \ Parts(B)
  <2> SUFFICES ASSUME NEW n \in 1 .. Len(R), IsFrom(Q[n])
               PROVE  Q[n][2] \in (1 .. Len(T)) \ Parts(B)
    BY <1>7 DEF Pointers, Range
  <2>1. PICK j : j = R[n][2]
    OBVIOUS
  <2>2. IsFrom(R[n]) /\ F[j].moved # 0 /\ Q[n] = From(F[j].moved)
    BY <1>6, <2>1
  <2>3. j \in 1 .. Len(A) /\ j \notin Parts(A)
    BY <1>1, <1>3, <2>1, <2>2, RootSlots
  <2>4. F[j].moved \in 0 .. Len(T)
    BY <1>3, <2>3 DEF FromOK
  <2>5. Q[n][2] = F[j].moved
    BY ONLY <2>2 DEF From
  <2> QED
    BY <1>3, <1>5, <2>2, <2>3, <2>4, <2>5
<1>9. PICK g : g = [allocs |-> B, roots |-> Q]
  OBVIOUS
<1>10. g.allocs = B /\ g.roots = Q
  BY ONLY <1>9
<1>11. WellFormed(g)
  BY ONLY <1>5, <1>6, <1>8, <1>10 DEF WellFormed, AllocsOK
<1> QED
  BY <1>2, <1>9, <1>11

-----------------------------------------------------------------------------
(* The invariant holds of every collection.                                *)

\* The variables have these values: the lemmas about Graph are about values and
\* mention no variable.
Collected(h, F, T, rs, d, s, w, p) ==
    /\ before = h /\ from = F /\ to = T /\ roots = rs
    /\ rootsDone = d /\ scanned = s /\ word = w /\ phase = p

GraphInv ==
    \E h, F, T, rs, d, s, w, p :
        Collected(h, F, T, rs, d, s, w, p) /\ Graph(h, F, T, rs, d, s, w, p)

LEMMA Concluded ==
    ASSUME NEW h, NEW F, NEW T, NEW rs, NEW d, NEW s, NEW w, NEW p,
           Collected(h, F, T, rs, d, s, w, p)', Graph(h, F, T, rs, d, s, w, p)
    PROVE  GraphInv'
  BY DEF GraphInv

LEMMA AtCurrent ==
    ASSUME NEW h, NEW F, NEW T, NEW rs, NEW d, NEW s, NEW w, NEW p,
           Collected(h, F, T, rs, d, s, w, p), AtValue
    PROVE  At(T, rs, d, s, w, p, Current)
<1>1. CASE p = "roots"
  BY <1>1 DEF Collected, AtValue, At, Current
<1>2. CASE p # "roots"
  BY <1>2 DEF Collected, AtValue, HasWord, At, Current
<1> QED
  BY <1>1, <1>2

(* The start, from any heap.                                               *)
LEMMA GraphInit == Init => GraphInv
<1> SUFFICES ASSUME Init PROVE GraphInv
  OBVIOUS
<1>1. PICK h \in Heaps : /\ from = Untouched(h.allocs) /\ roots = h.roots /\ before = h
                         /\ to = << >> /\ rootsDone = 0 /\ scanned = 0 /\ word = 0
                         /\ phase = "roots"
  BY DEF Init
<1>2. WellFormed(h)
  BY HeapAssumption
<1>3. Graph(h, Untouched(h.allocs), << >>, h.roots, 0, 0, 0, "roots")
  BY ONLY <1>2, FreshStep
<1>4. Collected(h, Untouched(h.allocs), << >>, h.roots, 0, 0, 0, "roots")
  BY <1>1 DEF Collected
<1> QED
  BY <1>3, <1>4 DEF GraphInv

LEMMA GraphSkip == GraphInv /\ Skip => GraphInv'
<1> SUFFICES ASSUME GraphInv, Skip PROVE GraphInv'
  OBVIOUS
<1>1. PICK h, F, T, rs, d, s, w, p :
         Collected(h, F, T, rs, d, s, w, p) /\ Graph(h, F, T, rs, d, s, w, p)
  BY DEF GraphInv
<1>2. PICK v : v = Current
  OBVIOUS
<1>3. At(T, rs, d, s, w, p, v) /\ ~IsFrom(v)
  BY <1>1, <1>2, AtCurrent DEF Skip
<1>4. PICK qs, e, U, u : roots' = qs /\ rootsDone' = e /\ to' = U /\ word' = u
  OBVIOUS
<1>5. Processed(T, rs, d, s, w, p, v, qs, e, U, u)
  BY <1>1, <1>2, <1>4 DEF Skip, Replace, Collected, Processed
<1>6. v \in NewValue /\ Follows(F, v, v)
  BY <1>1, <1>3, CurrentIs DEF Follows
<1>7. PICK A : A = h.allocs
  OBVIOUS
<1>8. /\ FromOK(A, F, Len(T)) /\ MovedOK(F, Len(T)) /\ ToOK(A, F, T, s, w) /\ Reached(h, F)
      /\ Len(T) \in Nat
  BY <1>1, <1>7, GraphIs
<1>9. Graph(h, F, U, qs, e, s, u, p)
  BY <1>1, <1>3, <1>5, <1>6, <1>7, <1>8, SlotStep
<1>10. Collected(h, F, U, qs, e, s, u, p)'
  BY <1>1, <1>4 DEF Collected, Skip
<1> QED
  BY <1>9, <1>10, Concluded

LEMMA GraphForward == GraphInv /\ Forward => GraphInv'
<1> SUFFICES ASSUME GraphInv, Forward PROVE GraphInv'
  OBVIOUS
<1>1. PICK h, F, T, rs, d, s, w, p :
         Collected(h, F, T, rs, d, s, w, p) /\ Graph(h, F, T, rs, d, s, w, p)
  BY DEF GraphInv
<1>2. PICK v, x : v = Current /\ x = To(F[v[2]].moved)
  OBVIOUS
<1>3. At(T, rs, d, s, w, p, v) /\ IsFrom(v) /\ F[v[2]].moved # 0
  <2>1. F = from
    BY <1>1 DEF Collected
  <2> QED
    BY <1>1, <1>2, <2>1, AtCurrent DEF Forward
<1>4. PICK qs, e, U, u : roots' = qs /\ rootsDone' = e /\ to' = U /\ word' = u
  OBVIOUS
<1>5. Processed(T, rs, d, s, w, p, x, qs, e, U, u)
  BY <1>1, <1>2, <1>4 DEF Forward, Replace, Collected, Processed
<1>7. PICK A : A = h.allocs
  OBVIOUS
<1>8. /\ FromOK(A, F, Len(T)) /\ MovedOK(F, Len(T)) /\ ToOK(A, F, T, s, w) /\ Reached(h, F)
      /\ Len(T) \in Nat
  BY <1>1, <1>7, GraphIs
<1>6. x \in NewValue /\ Follows(F, v, x)
  <2>1. TargetOK(A, F, v[2])
    BY <1>1, <1>3, <1>7, CurrentIs
  <2>2. F[v[2]].moved \in 0 .. Len(T)
    BY <1>8, <2>1 DEF TargetOK, FromOK
  <2>3. F[v[2]].moved \in Nat
    BY ONLY <1>8, <2>2
  <2>4. x \in NewValue
    BY ONLY <1>2, <2>3 DEF NewValue, To
  <2> QED
    BY <1>2, <1>3, <2>4 DEF Follows
<1>9. Graph(h, F, U, qs, e, s, u, p)
  BY <1>1, <1>3, <1>5, <1>6, <1>7, <1>8, SlotStep
<1>10. Collected(h, F, U, qs, e, s, u, p)'
  BY <1>1, <1>4 DEF Collected, Forward
<1> QED
  BY <1>9, <1>10, Concluded

LEMMA GraphMove == GraphInv /\ Move => GraphInv'
<1> SUFFICES ASSUME GraphInv, Move PROVE GraphInv'
  OBVIOUS
<1>1. PICK h, F, T, rs, d, s, w, p :
         Collected(h, F, T, rs, d, s, w, p) /\ Graph(h, F, T, rs, d, s, w, p)
  BY DEF GraphInv
<1>2. /\ from = F /\ to = T /\ before = h /\ roots = rs /\ rootsDone = d /\ scanned = s
      /\ word = w /\ phase = p
  BY <1>1 DEF Collected
<1>3. PICK v : v = Current
  OBVIOUS
<1>4. AtValue /\ IsFrom(v) /\ F[v[2]].moved = 0
  BY <1>2, <1>3 DEF Move, AtMove
<1>5. At(T, rs, d, s, w, p, v)
  BY <1>1, <1>3, <1>4, AtCurrent
<1>6. PICK x : x = [kind |-> F[v[2]].kind, body |-> Compacted(F, v[2]).body]
  OBVIOUS
<1>7. PICK G : G = Marked(F, v[2], Len(T) + 1)
  OBVIOUS
<1>8. PICK q, qs, e, U, u :
         phase' = q /\ roots' = qs /\ rootsDone' = e /\ to' = U /\ word' = u
  OBVIOUS
<1>9. /\ from' = G /\ (q = p \/ q = "overrun") /\ before' = h /\ scanned' = s
  <2>1. from' = [CutStorage(from, Current[2]) EXCEPT ![Current[2]].moved = Len(to) + 1]
    BY DEF Move
  <2>2. from' = G
    BY <1>2, <1>3, <1>7, <2>1 DEF Marked
  <2>3. q = p \/ q = "overrun"
    BY <1>2, <1>8 DEF Move, AfterWriting
  <2> QED
    BY <1>2, <2>2, <2>3 DEF Move
<1>10. Processed(Append(T, x), rs, d, s, w, p, To(Len(T) + 1), qs, e, U, u)
  <2>1. Replace(To(Len(T) + 1), Append(T, x))
    BY <1>2, <1>3, <1>6 DEF Move
  <2> QED
    BY <1>2, <1>8, <2>1 DEF Replace, Processed
<1>11. Graph(h, G, U, qs, e, s, u, q)
  BY <1>1, <1>4, <1>5, <1>6, <1>7, <1>9, <1>10, MoveStep
<1>12. Collected(h, G, U, qs, e, s, u, q)'
  BY <1>8, <1>9 DEF Collected
<1> QED
  BY <1>11, <1>12, Concluded

LEMMA GraphRootsDone == GraphInv /\ RootsDone => GraphInv'
<1> SUFFICES ASSUME GraphInv, RootsDone PROVE GraphInv'
  OBVIOUS
<1>1. PICK h, F, T, rs, d, s, w, p :
         Collected(h, F, T, rs, d, s, w, p) /\ Graph(h, F, T, rs, d, s, w, p)
  BY DEF GraphInv
<1>2. p = "roots" /\ d = Len(rs)
  BY <1>1 DEF Collected, RootsDone
<1>3. Len(rs) = Len(h.roots) /\ PhaseOK(h.roots, T, d, s, w, p)
  BY <1>1, GraphIs
<1>4. PhaseOK(h.roots, T, d, s, w, "scan")
  BY <1>2, <1>3 DEF PhaseOK
<1>5. Graph(h, F, T, rs, d, s, w, "scan")
  BY <1>1, <1>4 DEF Graph
<1>6. Collected(h, F, T, rs, d, s, w, "scan")'
  BY <1>1 DEF Collected, RootsDone
<1> QED
  BY <1>5, <1>6, Concluded

LEMMA GraphNextAllocation == GraphInv /\ NextAllocation => GraphInv'
<1> SUFFICES ASSUME GraphInv, NextAllocation PROVE GraphInv'
  OBVIOUS
<1>1. PICK h, F, T, rs, d, s, w, p :
         Collected(h, F, T, rs, d, s, w, p) /\ Graph(h, F, T, rs, d, s, w, p)
  BY DEF GraphInv
<1>2. p = "scan" /\ s < Len(T) /\ (T[s + 1].kind = "leaf" \/ ~(w < Len(T[s + 1].body)))
  BY <1>1 DEF Collected, NextAllocation, HasWord
<1>3. Graph(h, F, T, rs, d, s + 1, 0, "scan")
  BY <1>1, <1>2, NextStep
<1>4. Collected(h, F, T, rs, d, s + 1, 0, "scan")'
  BY <1>1, <1>2 DEF Collected, NextAllocation
<1> QED
  BY <1>3, <1>4, Concluded

LEMMA GraphAdopt == GraphInv /\ Adopt => GraphInv'
<1> SUFFICES ASSUME GraphInv, Adopt PROVE GraphInv'
  OBVIOUS
<1>1. PICK h, F, T, rs, d, s, w, p :
         Collected(h, F, T, rs, d, s, w, p) /\ Graph(h, F, T, rs, d, s, w, p)
  BY DEF GraphInv
<1>2. p = "scan" /\ s = Len(T)
  BY <1>1 DEF Collected, Adopt, AllScanned
<1>3. PhaseOK(h.roots, T, d, s, w, p)
  BY <1>1, GraphIs
<1>4. PhaseOK(h.roots, T, d, s, w, "done")
  BY <1>2, <1>3 DEF PhaseOK
<1>5. Graph(h, F, T, rs, d, s, w, "done")
  BY <1>1, <1>4 DEF Graph
<1>6. Collected(h, F, T, rs, d, s, w, "done")'
  BY <1>1 DEF Collected, Adopt
<1> QED
  BY <1>5, <1>6, Concluded

LEMMA GraphSqueeze == GraphInv /\ Squeeze => GraphInv'
<1> SUFFICES ASSUME GraphInv, Squeeze PROVE GraphInv'
  OBVIOUS
<1>1. PICK h, F, T, rs, d, s, w, p :
         Collected(h, F, T, rs, d, s, w, p) /\ Graph(h, F, T, rs, d, s, w, p)
  BY DEF GraphInv
<1>2. p = "scan" /\ s = Len(T) /\ to = T /\ roots = rs
  BY <1>1 DEF Collected, Squeeze, AllScanned
<1>3. PICK B, Q : B = RenamedHeap(T) /\ Q = RenamedAll(rs)
  OBVIOUS
<1>4. PICK g : g = [allocs |-> B, roots |-> Q]
  OBVIOUS
<1>5. WellFormed(g) /\ g.allocs = B /\ g.roots = Q
  BY <1>1, <1>2, <1>3, <1>4, RenamedStep
<1>6. /\ from' = Untouched(B) /\ roots' = Q /\ before' = g /\ to' = << >>
      /\ rootsDone' = 0 /\ scanned' = 0 /\ word' = 0 /\ phase' = "roots"
  BY <1>2, <1>3, <1>4 DEF Squeeze, RenamedHeap
<1>7. Graph(g, Untouched(g.allocs), << >>, g.roots, 0, 0, 0, "roots")
  BY ONLY <1>5, FreshStep
<1>8. Collected(g, Untouched(g.allocs), << >>, g.roots, 0, 0, 0, "roots")'
  BY <1>5, <1>6 DEF Collected
<1> QED
  BY <1>7, <1>8, Concluded

(* The heaps stay as they are, also if the collection stops there.         *)
LEMMA GraphStays ==
    ASSUME GraphInv, UNCHANGED <<before, from, to, roots, rootsDone, scanned, word>>,
           phase' = phase \/ phase' \in Stopped
    PROVE  GraphInv'
<1>1. PICK h, F, T, rs, d, s, w, p :
         Collected(h, F, T, rs, d, s, w, p) /\ Graph(h, F, T, rs, d, s, w, p)
  BY DEF GraphInv
<1>2. PICK q : q = phase'
  OBVIOUS
<1>3. q = p \/ q \in Stopped
  BY <1>1, <1>2 DEF Collected
<1>4. PhaseOK(h.roots, T, d, s, w, p)
  BY <1>1, GraphIs
<1>5. PhaseOK(h.roots, T, d, s, w, q)
  BY ONLY <1>3, <1>4 DEF PhaseOK, Stopped
<1>6. Graph(h, F, T, rs, d, s, w, q)
  BY ONLY <1>1, <1>5 DEF Graph
<1>7. Collected(h, F, T, rs, d, s, w, q)'
  BY <1>1, <1>2 DEF Collected
<1> QED
  BY <1>6, <1>7, Concluded

LEMMA GraphOpenBucket == GraphInv /\ OpenBucket => GraphInv'
<1> SUFFICES ASSUME GraphInv, OpenBucket PROVE GraphInv'
  OBVIOUS
<1>1. phase' = phase \/ phase' \in Stopped
  BY DEF OpenBucket, AfterWriting, Stopped
<1>2. UNCHANGED <<before, from, to, roots, rootsDone, scanned, word>>
  BY DEF OpenBucket
<1> QED
  BY <1>1, <1>2, GraphStays

LEMMA GraphMergeTooLarge == GraphInv /\ MergeTooLarge => GraphInv'
<1> SUFFICES ASSUME GraphInv, MergeTooLarge PROVE GraphInv'
  OBVIOUS
<1>1. phase' \in Stopped
  BY DEF MergeTooLarge, Stopped
<1>2. UNCHANGED <<before, from, to, roots, rootsDone, scanned, word>>
  BY DEF MergeTooLarge
<1> QED
  BY <1>1, <1>2, GraphStays

LEMMA GraphStep == GraphInv /\ [Next]_vars => GraphInv'
<1> SUFFICES ASSUME GraphInv, [Next]_vars PROVE GraphInv'
  OBVIOUS
<1>1. CASE UNCHANGED vars
  BY <1>1, GraphStays DEF vars
<1> QED
  BY <1>1, GraphSkip, GraphForward, GraphOpenBucket, GraphMergeTooLarge, GraphMove,
     GraphRootsDone, GraphNextAllocation, GraphAdopt, GraphSqueeze DEF Next

(* At every step of every collection the new heap, the tombstones, what is *)
(* left of the old heap and the roots fit together, and they describe the  *)
(* heap that the program left: each allocation with a tombstone is reached *)
(* from the roots and has its words in the new heap, followed or not yet.  *)
THEOREM GraphInvariant == Spec => []GraphInv
<1>1. Init => GraphInv
  BY GraphInit
<1>2. GraphInv /\ [Next]_vars => GraphInv'
  BY GraphStep
<1> QED
  BY <1>1, <1>2, PTL DEF Spec

-----------------------------------------------------------------------------
(* What a collection leaves.                                               *)

(* When all slots are processed, the allocations that moved are those that *)
(* the roots reach.                                                        *)
LEMMA MovedAreLive ==
    ASSUME NEW h, NEW F, NEW T, NEW rs, NEW d, NEW s, NEW w, NEW p,
           Graph(h, F, T, rs, d, s, w, p), p \in {"scan", "done"}, s = Len(T),
           NEW A, A = h.allocs
    PROVE  {i \in 1 .. Len(A) : F[i].moved # 0} = Live(h)
<1>1. PICK R : R = h.roots
  OBVIOUS
<1>2. /\ WellFormed(h) /\ AllocsOK(A) /\ FromOK(A, F, Len(T)) /\ ToOK(A, F, T, s, w)
      /\ RootsOK(R, F, rs, d) /\ Reached(h, F) /\ PhaseOK(R, T, d, s, w, p)
      /\ DOMAIN A = 1 .. Len(A) /\ Len(A) \in Nat /\ R \in Seq(Value) /\ Len(R) \in Nat
      /\ Len(T) \in Nat
  BY <1>1, GraphIs
<1>3. PICK M : M = {i \in 1 .. Len(A) : F[i].moved # 0}
  OBVIOUS
<1>4. Pointers(R) \subseteq M
  <2> SUFFICES ASSUME NEW n \in DOMAIN R, IsFrom(R[n]) PROVE R[n][2] \in M
    BY DEF Pointers, Range
  <2>1. n \in 1 .. Len(R)
    BY ONLY <1>2, n \in DOMAIN R
  <2>2. R[n][2] \in 1 .. Len(A)
    BY <1>1, <1>2, <2>1, RootSlots
  <2>3. n <= d
    BY <1>2, <2>1 DEF PhaseOK
  <2>4. Follows(F, R[n], rs[n])
    BY <1>2, <2>1, <2>3 DEF RootsOK
  <2> QED
    BY <1>3, <2>2, <2>4 DEF Follows
<1>5. ASSUME NEW k \in M
      PROVE  PointersSeen(A, k) \subseteq M
  <2>1. k \in 1 .. Len(A) /\ F[k].moved # 0
    BY <1>3
  <2>2. CASE A[k].kind = "leaf"
    BY <2>2 DEF PointersSeen
  <2>3. CASE A[k].kind # "leaf"
    <3>1. PICK V : V = Visible(A, k)
      OBVIOUS
    <3>2. V \in Seq(Value)
      BY <1>2, <2>1, <3>1, VisibleIs
    <3>3. PointersSeen(A, k) = Pointers(V)
      BY <2>3, <3>1 DEF PointersSeen
    <3>4. CopyOK(A, F, T, s, w, k, F[k].moved)
      BY <1>2, <2>1 DEF ToOK
    <3>5. F[k].moved \in 0 .. Len(T)
      BY <1>2, <2>1 DEF FromOK
    <3>6. ASSUME NEW n \in DOMAIN V, IsFrom(V[n])
          PROVE  V[n][2] \in M
      <4>1. n \in 1 .. Len(V)
        BY ONLY <3>2, n \in DOMAIN V
      <4>2. SlotOK(A, k, n, V[n])
        BY <1>2, <2>1, <2>3, <3>1, <4>1, VisibleSlots
      <4>3. Scanned(s, w, F[k].moved, n)
        BY <1>2, <3>5 DEF Scanned
      <4>4. Follows(F, V[n], T[F[k].moved].body[n])
        BY <2>3, <3>1, <3>4, <4>1, <4>3 DEF CopyOK
      <4> QED
        BY <1>3, <3>6, <4>2, <4>4 DEF SlotOK, Follows
    <3> QED
      BY <3>3, <3>6 DEF Pointers, Range
  <2> QED
    BY <2>2, <2>3
<1>6. Closed(h, M)
  BY <1>1, <1>4, <1>5 DEF Closed
<1>7. M \in SUBSET DOMAIN A
  BY <1>2, <1>3
<1>8. Live(h) \subseteq M
  BY <1>6, <1>7 DEF Live
<1>9. M \subseteq Live(h)
  <2> SUFFICES ASSUME NEW i \in M PROVE i \in Live(h)
    OBVIOUS
  <2>1. i \in DOMAIN h.allocs /\ F[i].moved # 0
    BY <1>2, <1>3
  <2> QED
    BY <1>2, <2>1 DEF Reached, Live
<1> QED
  BY <1>3, <1>8, <1>9

\* A sequence of values, each followed.
Imaged(F, body) == [n \in DOMAIN body |->
    IF IsFrom(body[n]) THEN To(F[body[n][2]].moved) ELSE body[n]]

LEMMA ImagedIs ==
    ASSUME NEW F, NEW V \in Seq(Value), NEW t \in Seq(NewValue), Len(t) = Len(V),
           \A n \in 1 .. Len(V) : Follows(F, V[n], t[n])
    PROVE  t = Imaged(F, V)
<1>1. DOMAIN V = 1 .. Len(V) /\ DOMAIN t = 1 .. Len(V) /\ t = [n \in DOMAIN t |-> t[n]]
  OBVIOUS
<1>2. \A n \in 1 .. Len(V) : t[n] = IF IsFrom(V[n]) THEN To(F[V[n][2]].moved) ELSE V[n]
  BY DEF Follows
<1> QED
  BY ONLY <1>1, <1>2 DEF Imaged

LEMMA CopiesAre ==
    ASSUME NEW h, NEW F, NEW T, NEW rs, NEW d, NEW s, NEW w, NEW p,
           Graph(h, F, T, rs, d, s, w, p), p \in {"scan", "done"}, s = Len(T),
           NEW A, A = h.allocs
    PROVE  /\ \A i \in 1 .. Len(A) : F[i].moved # 0 =>
                 T[F[i].moved] = [kind |-> A[i].kind,
                                  body |-> IF A[i].kind = "leaf" THEN A[i].body
                                           ELSE Imaged(F, Visible(A, i))]
           /\ rs = Imaged(F, h.roots)
<1>1. PICK R : R = h.roots
  OBVIOUS
<1>2. /\ WellFormed(h) /\ AllocsOK(A) /\ FromOK(A, F, Len(T)) /\ ToOK(A, F, T, s, w)
      /\ RootsOK(R, F, rs, d) /\ PhaseOK(R, T, d, s, w, p)
      /\ DOMAIN A = 1 .. Len(A) /\ Len(A) \in Nat /\ R \in Seq(Value) /\ Len(R) \in Nat
      /\ Len(T) \in Nat /\ T \in Seq(Copies) /\ rs \in Seq(NewValue) /\ Len(rs) = Len(R)
  BY <1>1, GraphIs
<1>3. rs = Imaged(F, R)
  <2>1. \A n \in 1 .. Len(R) : Follows(F, R[n], rs[n])
    <3> SUFFICES ASSUME NEW n \in 1 .. Len(R) PROVE Follows(F, R[n], rs[n])
      OBVIOUS
    <3>1. n <= d
      BY <1>2 DEF PhaseOK
    <3> QED
      BY <1>2, <3>1 DEF RootsOK
  <2> QED
    BY ONLY <1>2, <2>1, ImagedIs
<1>4. ASSUME NEW i \in 1 .. Len(A), F[i].moved # 0
      PROVE  T[F[i].moved] = [kind |-> A[i].kind,
                              body |-> IF A[i].kind = "leaf" THEN A[i].body
                                       ELSE Imaged(F, Visible(A, i))]
  <2>1. PICK k : k = F[i].moved
    OBVIOUS
  <2>2. k \in 1 .. Len(T)
    <3>1. k \in 0 .. Len(T)
      BY <1>2, <2>1 DEF FromOK
    <3> QED
      BY ONLY <1>2, <1>4, <2>1, <3>1
  <2>3. PICK V, t : V = Visible(A, i) /\ t = T[k].body
    OBVIOUS
  <2>4. V \in Seq(Value)
    BY <1>2, <2>3, VisibleIs
  <2>5. T[k] \in Copies /\ t \in Seq(NewValue)
    BY <1>2, <2>2, <2>3, CopyTypes
  <2>6. CopyOK(A, F, T, s, w, i, k)
    BY <1>2, <1>4, <2>1 DEF ToOK
  <2>7. /\ T[k].kind = A[i].kind /\ Len(t) = Len(V)
        /\ \A n \in 1 .. Len(V) :
              IF A[i].kind # "leaf" THEN Follows(F, V[n], t[n]) ELSE t[n] = V[n]
    <3>1. \A n \in 1 .. Len(V) : Scanned(s, w, k, n)
      BY <1>2, <2>2 DEF Scanned
    <3> QED
      BY <2>3, <2>6, <3>1 DEF CopyOK
  <2>8. T[k] = [kind |-> A[i].kind, body |-> t]
    <3>1. PICK y : y = T[k]
      OBVIOUS
    <3>2. y \in Copies /\ y.kind = A[i].kind /\ y.body = t
      BY <2>3, <2>5, <2>7, <3>1
    <3>3. y = [kind |-> A[i].kind, body |-> t]
      BY ONLY <3>2 DEF Copies
    <3> QED
      BY <3>1, <3>3
  <2>9. CASE A[i].kind = "leaf"
    <3>1. V = A[i].body
      BY <1>2, <2>3, <2>9, VisibleIs
    <3>2. t = V
      <4>1. \A n \in 1 .. Len(V) : t[n] = V[n]
        BY <2>7, <2>9
      <4>2. DOMAIN t = 1 .. Len(V) /\ DOMAIN V = 1 .. Len(V)
        BY ONLY <2>4, <2>5, <2>7
      <4>3. t = [n \in DOMAIN t |-> t[n]] /\ V = [n \in DOMAIN V |-> V[n]]
        BY ONLY <2>4, <2>5
      <4> QED
        BY ONLY <4>1, <4>2, <4>3
    <3> QED
      BY <2>1, <2>8, <2>9, <3>1, <3>2
  <2>10. CASE A[i].kind # "leaf"
    <3>1. t = Imaged(F, V)
      <4>1. \A n \in 1 .. Len(V) : Follows(F, V[n], t[n])
        BY <2>7, <2>10
      <4> QED
        BY ONLY <2>4, <2>5, <2>7, <4>1, ImagedIs
    <3> QED
      BY <2>1, <2>3, <2>8, <2>10, <3>1
  <2> QED
    BY <2>9, <2>10
<1> QED
  BY <1>1, <1>3, <1>4

(* Each of them is in the new heap once, and nothing else is.              *)
LEMMA MovedOnce ==
    ASSUME NEW A, AllocsOK(A), NEW F, NEW N \in Nat, FromOK(A, F, N), MovedOK(F, N),
           NEW M, M = {i \in 1 .. Len(A) : F[i].moved # 0}
    PROVE  /\ {F[i].moved : i \in M} = 1 .. N
           /\ IsFiniteSet(M) /\ Cardinality(M) = N
<1>1. Len(A) \in Nat /\ Len(F) = Len(A)
  BY AllocsAre DEF FromOK
<1>2. \A i \in M : F[i].moved \in 1 .. N
  <2> SUFFICES ASSUME NEW i \in M PROVE F[i].moved \in 1 .. N
    OBVIOUS
  <2>1. F[i].moved \in 0 .. N /\ F[i].moved # 0
    BY DEF FromOK
  <2> QED
    BY ONLY <2>1, N \in Nat
<1>3. \A k \in 1 .. N : \E i \in M : F[i].moved = k
  <2> SUFFICES ASSUME NEW k \in 1 .. N PROVE \E i \in M : F[i].moved = k
    OBVIOUS
  <2>1. PICK i \in 1 .. Len(F) : F[i].moved = k
    BY DEF MovedOK
  <2>2. k # 0
    OBVIOUS
  <2> QED
    BY <1>1, <2>1, <2>2
<1>4. \A i, j \in M : F[i].moved = F[j].moved => i = j
  BY <1>1 DEF MovedOK
<1>5. IsFiniteSet(M)
  <2>1. IsFiniteSet(1 .. Len(A)) /\ M \in SUBSET (1 .. Len(A))
    BY <1>1, FS_Interval
  <2> QED
    BY <2>1, FS_Subset
<1>6. Cardinality(1 .. N) = N /\ IsFiniteSet(1 .. N)
  <2>1. IsFiniteSet(1 .. N) /\ Cardinality(1 .. N) = IF 1 > N THEN 0 ELSE N - 1 + 1
    BY FS_Interval
  <2> QED
    BY ONLY <2>1, N \in Nat
<1>7. ExistsBijection(M, 1 .. N)
  <2>1. PICK g : g = [i \in M |-> F[i].moved]
    OBVIOUS
  <2>2. /\ g \in [M -> 1 .. N]
        /\ \A a, b \in M : g[a] = g[b] => a = b
        /\ \A t \in 1 .. N : \E x \in M : g[x] = t
    BY ONLY <1>2, <1>3, <1>4, <2>1
  <2>3. g \in Bijection(M, 1 .. N)
    <3>1. DOMAIN g = M
      BY ONLY <2>1
    <3> QED
      BY ONLY <2>2, <3>1 DEF Bijection, Injection, Surjection, IsInjective
  <2> QED
    BY <2>3 DEF ExistsBijection
<1>8. Cardinality(1 .. N) = Cardinality(M)
  BY ONLY <1>5, <1>7, FS_Bijection
<1> QED
  BY ONLY <1>2, <1>3, <1>5, <1>6, <1>8

LEMMA PreservedIsInvariant == GraphInv => GraphPreserved
<1> SUFFICES ASSUME GraphInv, phase = "done"
             PROVE  /\ {i \in DOMAIN from : from[i].moved # 0} = Live(before)
                    /\ {from[i].moved : i \in Live(before)} = DOMAIN to
                    /\ Cardinality(Live(before)) = Len(to)
                    /\ \A i \in Live(before) :
                          to[from[i].moved] =
                             [kind |-> before.allocs[i].kind,
                              body |-> IF before.allocs[i].kind = "leaf" THEN before.allocs[i].body
                                       ELSE Image(Visible(before.allocs, i))]
                    /\ roots = Image(before.roots)
  BY DEF GraphPreserved
<1>1. PICK h, F, T, rs, d, s, w, p :
         Collected(h, F, T, rs, d, s, w, p) /\ Graph(h, F, T, rs, d, s, w, p)
  BY DEF GraphInv
<1>2. p = "done" /\ from = F /\ to = T /\ before = h /\ roots = rs
  BY <1>1 DEF Collected
<1>3. PICK A : A = h.allocs
  OBVIOUS
<1>4. /\ AllocsOK(A) /\ FromOK(A, F, Len(T)) /\ MovedOK(F, Len(T)) /\ Len(T) \in Nat
      /\ T \in Seq(Copies) /\ PhaseOK(h.roots, T, d, s, w, p)
  BY <1>1, <1>3, GraphIs
<1>5. s = Len(T)
  BY <1>2, <1>4 DEF PhaseOK
<1>6. PICK M : M = {i \in 1 .. Len(A) : F[i].moved # 0}
  OBVIOUS
<1>7. M = Live(h)
  BY <1>1, <1>2, <1>3, <1>5, <1>6, MovedAreLive
<1>8. {F[i].moved : i \in M} = 1 .. Len(T) /\ Cardinality(M) = Len(T)
  <2>1. PICK N \in Nat : N = Len(T)
    BY <1>4
  <2>2. FromOK(A, F, N) /\ MovedOK(F, N) /\ AllocsOK(A)
    BY <1>4, <2>1
  <2>3. {F[i].moved : i \in M} = 1 .. N /\ Cardinality(M) = N
    BY ONLY <2>2, <1>6, N \in Nat, MovedOnce
  <2> QED
    BY ONLY <2>1, <2>3
<1>9. /\ \A i \in 1 .. Len(A) : F[i].moved # 0 =>
            T[F[i].moved] = [kind |-> A[i].kind,
                             body |-> IF A[i].kind = "leaf" THEN A[i].body
                                      ELSE Imaged(F, Visible(A, i))]
      /\ rs = Imaged(F, h.roots)
  BY <1>1, <1>2, <1>3, <1>5, CopiesAre
<1>10. DOMAIN F = 1 .. Len(A) /\ DOMAIN T = 1 .. Len(T)
  BY <1>4, FromFields
<1>11. \A body : Image(body) = Imaged(F, body)
  BY <1>2 DEF Image, Imaged
<1>12. {i \in DOMAIN from : from[i].moved # 0} = Live(before)
  BY ONLY <1>2, <1>6, <1>7, <1>10
<1>13. {from[i].moved : i \in Live(before)} = DOMAIN to
       /\ Cardinality(Live(before)) = Len(to)
  BY ONLY <1>2, <1>7, <1>8, <1>10
<1>14. ASSUME NEW i \in Live(before)
       PROVE  to[from[i].moved] =
                 [kind |-> before.allocs[i].kind,
                  body |-> IF before.allocs[i].kind = "leaf" THEN before.allocs[i].body
                           ELSE Image(Visible(before.allocs, i))]
  <2>1. i \in 1 .. Len(A) /\ F[i].moved # 0
    BY ONLY <1>2, <1>6, <1>7, i \in Live(before)
  <2> QED
    BY ONLY <1>2, <1>3, <1>9, <1>11, <2>1
<1>15. roots = Image(before.roots)
  BY ONLY <1>2, <1>9, <1>11
<1> QED
  BY ONLY <1>12, <1>13, <1>14, <1>15

(* mvm_runGC keeps exactly what the roots reach: whatever the heap and the *)
(* sizes of the buckets, when a collection is done each reachable          *)
(* allocation is in the new heap once, with what the program saw in it and *)
(* every pointer led to where its target is now, and so are the roots.  A  *)
(* collection that writes behind a bucket, in a move that it commits or    *)
(* abandons, or that ends with a fatal error is never done.                *)
THEOREM PreservesGraph == Spec => []GraphPreserved
  BY GraphInvariant, PreservedIsInvariant, PTL

-----------------------------------------------------------------------------
(* Buckets and sizes.                                                      *)

Bucket == [capacity : 0 .. MaxHeapWords, used : Nat]

Used(bks) == [n \in DOMAIN bks |-> bks[n].used]

Sizes(A) == [i \in DOMAIN A |-> Size(A[i])]

LEMMA TwoNumbers ==
    ASSUME NEW a \in Nat, NEW b \in Nat
    PROVE  /\ Max({a, b}) = IF a >= b THEN a ELSE b
           /\ Min({a, b}) = IF a <= b THEN a ELSE b
  BY DEF Max, Min

LEMMA Constants ==
    /\ EmptyEstimate \in Nat \ {0} /\ BucketWords \in Nat \ {0} /\ MaxHeapWords \in Nat \ {0}
    /\ Estimates \subseteq Nat
  BY SizeAssumption

LEMMA UsedIs ==
    ASSUME NEW bks \in Seq(Bucket)
    PROVE  /\ Used(bks) \in Seq(Nat) /\ Len(Used(bks)) = Len(bks)
           /\ \A n \in 1 .. Len(bks) : Used(bks)[n] = bks[n].used /\ bks[n].used \in Nat
           /\ UsedWords(bks) = Total(Used(bks)) /\ UsedWords(bks) \in Nat
           /\ Len(bks) \in Nat /\ DOMAIN bks = 1 .. Len(bks)
<1>1. DOMAIN bks = 1 .. Len(bks) /\ Len(bks) \in Nat
  OBVIOUS
<1>2. \A n \in 1 .. Len(bks) : bks[n].used \in Nat
  <2> SUFFICES ASSUME NEW n \in 1 .. Len(bks) PROVE bks[n].used \in Nat
    OBVIOUS
  <2>1. bks[n] \in Bucket
    BY ONLY bks \in Seq(Bucket), n \in 1 .. Len(bks), ElementOfSeq
  <2> QED
    BY ONLY <2>1 DEF Bucket
<1>3. PICK u : u = Used(bks)
  OBVIOUS
<1>4. u \in [1 .. Len(bks) -> Nat] /\ \A n \in 1 .. Len(bks) : u[n] = bks[n].used
  BY ONLY <1>1, <1>2, <1>3 DEF Used
<1>5. u \in Seq(Nat) /\ Len(u) = Len(bks)
  BY ONLY <1>1, <1>4, FunctionIsSeq
<1>6. UsedWords(bks) = Total(u)
  BY <1>3 DEF UsedWords, Used
<1>7. Total(u) \in Nat
  BY ONLY <1>5, TotalType
<1> QED
  BY <1>1, <1>2, <1>3, <1>4, <1>5, <1>6, <1>7

LEMMA BucketFilled ==
    ASSUME NEW bks \in Seq(Bucket), Len(bks) > 0, NEW words \in Nat
    PROVE  LET c == Fill(bks, words)
           IN  /\ c \in Seq(Bucket) /\ Len(c) = Len(bks)
               /\ UsedWords(c) = UsedWords(bks) + words
               /\ c[1].capacity = bks[1].capacity
<1>1. PICK n : n = Len(bks)
  OBVIOUS
<1>2. n \in 1 .. Len(bks) /\ 1 \in 1 .. Len(bks) /\ Len(bks) \in Nat /\ n \in Nat
  BY <1>1
<1>3. PICK x : x = bks[n]
  OBVIOUS
<1>4. x \in Bucket
  BY ONLY <1>2, <1>3, bks \in Seq(Bucket), ElementOfSeq
<1>0. PICK a : a = x.used + words
  OBVIOUS
<1>5. PICK y : y = [x EXCEPT !.used = a]
  OBVIOUS
<1>6. y \in Bucket /\ y.capacity = x.capacity /\ y.used = x.used + words /\ x.used \in Nat
  <2>1. x.used \in Nat
    BY ONLY <1>4 DEF Bucket
  <2>2. a \in Nat
    BY ONLY <1>0, <2>1, words \in Nat
  <2>3. y \in Bucket /\ y.capacity = x.capacity /\ y.used = a
    BY ONLY <1>4, <1>5, <2>2 DEF Bucket
  <2> QED
    BY ONLY <1>0, <2>1, <2>3
<1>7. PICK c : c = [bks EXCEPT ![n] = y]
  OBVIOUS
<1>8. Fill(bks, words) = c
  <2>1. Fill(bks, words) = [bks EXCEPT ![n] = [bks[n] EXCEPT !.used = bks[n].used + words]]
    BY ONLY <1>1, <1>2, bks \in Seq(Bucket) DEF Fill
  <2> QED
    BY ONLY <1>0, <1>3, <1>5, <1>7, <2>1
<1>9. c \in Seq(Bucket) /\ Len(c) = Len(bks)
      /\ \A i \in 1 .. Len(bks) : c[i] = IF i = n THEN y ELSE bks[i]
  <2>1. LET g == [bks EXCEPT ![n] = y]
        IN  g \in Seq(Bucket) /\ Len(g) = Len(bks) /\ \A i \in 1 .. Len(bks) : g[i] = IF i = n THEN y ELSE bks[i]
    BY ONLY <1>2, <1>6, bks \in Seq(Bucket), ExceptSeq
  <2> QED
    BY ONLY <1>7, <2>1
<1>10. c[1].capacity = bks[1].capacity
  BY <1>2, <1>3, <1>6, <1>9
<1>11. PICK u, v : u = Used(bks) /\ v = Used(c)
  OBVIOUS
<1>12. /\ u \in Seq(Nat) /\ Len(u) = Len(bks) /\ UsedWords(bks) = Total(u)
       /\ \A i \in 1 .. Len(bks) : u[i] = bks[i].used
  BY <1>11, UsedIs
<1>13. /\ v \in Seq(Nat) /\ Len(v) = Len(bks) /\ UsedWords(c) = Total(v)
       /\ \A i \in 1 .. Len(bks) : v[i] = c[i].used
  BY <1>9, <1>11, UsedIs
<1>14. a \in Nat /\ y.used = a
  BY <1>0, <1>6
<1>15. v = [u EXCEPT ![n] = a]
  <2>1. DOMAIN u = 1 .. Len(bks) /\ DOMAIN v = 1 .. Len(bks)
    BY ONLY <1>12, <1>13
  <2>2. \A i \in 1 .. Len(bks) : v[i] = IF i = n THEN a ELSE u[i]
    BY ONLY <1>9, <1>12, <1>13, <1>14
  <2>3. v = [i \in DOMAIN v |-> v[i]] /\ u = [i \in DOMAIN u |-> u[i]]
    BY ONLY <1>12, <1>13
  <2>4. v = [i \in 1 .. Len(bks) |-> IF i = n THEN a ELSE u[i]]
    BY ONLY <2>1, <2>2, <2>3
  <2> QED
    BY ONLY <2>1, <2>4
<1>16. Total(v) + u[n] = Total(u) + a
  <2>1. LET g == [u EXCEPT ![n] = a] IN g \in Seq(Nat) /\ Total(g) + u[n] = Total(u) + a
    BY ONLY <1>2, <1>12, <1>14, TotalExcept
  <2> QED
    BY ONLY <1>15, <2>1
<1>17. Total(v) = Total(u) + words
  <2>1. Total(v) \in Nat /\ Total(u) \in Nat
    BY ONLY <1>12, <1>13, TotalType
  <2>2. u[n] = x.used
    BY <1>2, <1>3, <1>12
  <2>3. PICK m, k, z : m = Total(v) /\ k = Total(u) /\ z = x.used
    OBVIOUS
  <2>4. m \in Nat /\ k \in Nat /\ z \in Nat /\ m + z = k + (z + words)
    BY ONLY <1>0, <1>6, <1>16, <2>1, <2>2, <2>3
  <2>5. m = k + words
    BY ONLY <2>4, words \in Nat
  <2> QED
    BY ONLY <2>3, <2>5
<1> QED
  BY <1>8, <1>9, <1>10, <1>12, <1>13, <1>17

\* The bucket behind bks is the last of c.
Opened(bks, size, min, c) ==
    /\ c \in Seq(Bucket) /\ Len(c) = Len(bks) + 1
    /\ UsedWords(c) = UsedWords(bks)
    /\ \A n \in 1 .. Len(bks) : c[n] = bks[n]
    /\ c[Len(bks) + 1].capacity =
          Min({IF size >= min THEN size ELSE min, MaxHeapWords - UsedWords(bks)})

LEMMA BucketOpened ==
    ASSUME NEW bks \in Seq(Bucket), UsedWords(bks) <= MaxHeapWords,
           NEW size \in Nat, NEW min \in Nat
    PROVE  Opened(bks, size, min, NewBucket(bks, size, min))
<1>1. PICK m : m = IF size >= min THEN size ELSE min
  OBVIOUS
<1>2. m = Max({size, min}) /\ m \in Nat
  BY <1>1, TwoNumbers
<1>3. PICK r : r = MaxHeapWords - UsedWords(bks)
  OBVIOUS
<1>4. UsedWords(bks) \in Nat /\ Len(bks) \in Nat
  BY UsedIs
<1>5. r \in Nat /\ r <= MaxHeapWords
  BY <1>3, <1>4, Constants
<1>6. PICK k : k = Min({m, r})
  OBVIOUS
<1>7. k \in 0 .. MaxHeapWords
  <2>1. k = IF m <= r THEN m ELSE r
    BY <1>2, <1>5, <1>6, TwoNumbers
  <2> QED
    BY <1>2, <1>5, <2>1, Constants
<1>8. PICK y : y = [capacity |-> k, used |-> 0]
  OBVIOUS
<1>9. y \in Bucket /\ y.capacity = k /\ y.used = 0
  BY ONLY <1>7, <1>8 DEF Bucket
<1>10. PICK c : c = Append(bks, y)
  OBVIOUS
<1>11. NewBucket(bks, size, min) = c
  BY <1>2, <1>3, <1>6, <1>8, <1>10 DEF NewBucket
<1>12. /\ c \in Seq(Bucket) /\ Len(c) = Len(bks) + 1 /\ c[Len(bks) + 1] = y
       /\ \A n \in 1 .. Len(bks) : c[n] = bks[n]
  BY ONLY <1>9, <1>10, bks \in Seq(Bucket), AppendProperties
<1>13. PICK u, v : u = Used(bks) /\ v = Used(c)
  OBVIOUS
<1>14. /\ u \in Seq(Nat) /\ Len(u) = Len(bks) /\ UsedWords(bks) = Total(u)
       /\ \A i \in 1 .. Len(bks) : u[i] = bks[i].used
  BY <1>13, UsedIs
<1>15. /\ v \in Seq(Nat) /\ Len(v) = Len(c) /\ UsedWords(c) = Total(v)
       /\ \A i \in 1 .. Len(c) : v[i] = c[i].used
  BY <1>12, <1>13, UsedIs
<1>16. v = Append(u, 0)
  <2>1. PICK N \in Nat : N = Len(bks)
    BY <1>4
  <2>2. DOMAIN v = 1 .. N + 1 /\ v = [i \in DOMAIN v |-> v[i]]
    BY ONLY <1>12, <1>15, <2>1
  <2>3. PICK z : z = Append(u, 0)
    OBVIOUS
  <2>4. /\ z \in Seq(Nat) /\ Len(z) = N + 1 /\ z[N + 1] = 0
        /\ \A i \in 1 .. N : z[i] = u[i]
    <3>1. 0 \in Nat
      OBVIOUS
    <3>2. /\ Append(u, 0) \in Seq(Nat) /\ Len(Append(u, 0)) = Len(u) + 1
          /\ Append(u, 0)[Len(u) + 1] = 0 /\ \A i \in 1 .. Len(u) : Append(u, 0)[i] = u[i]
      BY ONLY <1>14, <3>1, AppendProperties
    <3> QED
      BY ONLY <1>14, <2>1, <2>3, <3>2
  <2>5. DOMAIN z = 1 .. N + 1 /\ z = [i \in DOMAIN z |-> z[i]]
    BY ONLY <2>1, <2>4
  <2>6. \A i \in 1 .. N + 1 : v[i] = z[i]
    <3> SUFFICES ASSUME NEW i \in 1 .. N + 1 PROVE v[i] = z[i]
      OBVIOUS
    <3>1. Len(c) = N + 1
      BY ONLY <1>12, <2>1
    <3>2. CASE i = N + 1
      <4>1. v[N + 1] = y.used
        BY ONLY <1>12, <1>15, <2>1, <3>1, i \in 1 .. N + 1, <3>2
      <4> QED
        BY <1>9, <2>4, <3>2, <4>1
    <3>3. CASE i # N + 1
      <4>1. i \in 1 .. N
        BY ONLY <3>3, i \in 1 .. N + 1, N \in Nat
      <4>2. v[i] = bks[i].used
        BY <1>12, <1>15, <2>1, <3>1, <4>1
      <4>3. u[i] = bks[i].used
        BY <1>14, <2>1, <4>1
      <4> QED
        BY <2>4, <4>1, <4>2, <4>3
    <3> QED
      BY <3>2, <3>3
  <2>7. v = z
    BY ONLY <2>2, <2>5, <2>6
  <2> QED
    BY <2>3, <2>7
<1>17. Total(v) = Total(u)
  <2>1. 0 \in Nat
    OBVIOUS
  <2>2. Total(Append(u, 0)) = Total(u) + 0
    BY ONLY <1>14, <2>1, TotalAppend
  <2>3. Total(u) \in Nat
    BY ONLY <1>14, TotalType
  <2> QED
    BY ONLY <1>16, <2>2, <2>3
<1> QED
  BY <1>1, <1>3, <1>6, <1>9, <1>11, <1>12, <1>14, <1>15, <1>17 DEF Opened

LEMMA FirstBucket ==
    ASSUME NEW size \in Nat
    PROVE  LET c == FirstBuckets(size)
           IN  /\ c \in Seq(Bucket) /\ Len(c) = 1 /\ UsedWords(c) = 0
               /\ c[1].capacity = Min({IF size = 0 THEN EmptyEstimate ELSE size, MaxHeapWords})
<1>1. PICK e : e = IF size = 0 THEN EmptyEstimate ELSE size
  OBVIOUS
<1>2. e \in Nat /\ 0 \in Nat /\ e >= 0
  BY <1>1, Constants
<1>3. << >> \in Seq(Bucket) /\ Len(<< >>) = 0
  OBVIOUS
<1>4. UsedWords(<< >>) = 0
  <2>1. Used(<< >>) \in Seq(Nat) /\ Len(Used(<< >>)) = 0 /\ UsedWords(<< >>) = Total(Used(<< >>))
    BY <1>3, UsedIs
  <2>2. \A n \in 1 .. Len(Used(<< >>)) : Used(<< >>)[n] = 0
    BY <2>1
  <2> QED
    BY ONLY <2>1, <2>2, TotalOfZeros
<1>5. PICK b : b = << >>
  OBVIOUS
<1>6. b \in Seq(Bucket) /\ Len(b) = 0 /\ UsedWords(b) = 0 /\ UsedWords(b) <= MaxHeapWords
  BY <1>3, <1>4, <1>5, Constants
<1>7. Opened(b, e, 0, NewBucket(b, e, 0))
  BY ONLY <1>2, <1>6, BucketOpened
<1>8. PICK c : c = NewBucket(b, e, 0)
  OBVIOUS
<1>9. /\ c \in Seq(Bucket) /\ Len(c) = 0 + 1 /\ UsedWords(c) = 0
      /\ c[0 + 1].capacity = Min({e, MaxHeapWords - 0})
  BY ONLY <1>2, <1>6, <1>7, <1>8 DEF Opened
<1>10. MaxHeapWords - 0 = MaxHeapWords /\ 0 + 1 = 1
  BY Constants
<1>11. Len(c) = 1 /\ c[1].capacity = Min({e, MaxHeapWords})
  BY ONLY <1>9, <1>10
<1>12. FirstBuckets(size) = c
  BY <1>1, <1>5, <1>8 DEF FirstBuckets
<1> QED
  BY <1>1, <1>9, <1>11, <1>12

LEMMA SizesAre ==
    ASSUME NEW A, NEW N \in Nat, DOMAIN A = 1 .. N, \A i \in 1 .. N : Len(A[i].body) \in Nat
    PROVE  /\ Sizes(A) \in Seq(Nat) /\ Len(Sizes(A)) = N
           /\ \A i \in 1 .. N : Sizes(A)[i] = Len(A[i].body) + 1
           /\ TotalSize(A) = Total(Sizes(A)) /\ TotalSize(A) \in Nat
<1>1. PICK z : z = Sizes(A)
  OBVIOUS
<1>2. z = [i \in 1 .. N |-> Len(A[i].body) + 1]
  BY <1>1 DEF Sizes, Size
<1>3. z \in [1 .. N -> Nat] /\ \A i \in 1 .. N : z[i] = Len(A[i].body) + 1
  <2>1. \A i \in 1 .. N : Len(A[i].body) + 1 \in Nat
    OBVIOUS
  <2> QED
    BY ONLY <1>2, <2>1
<1>4. z \in Seq(Nat) /\ Len(z) = N
  BY ONLY <1>3, N \in Nat, FunctionIsSeq
<1>5. TotalSize(A) = Total(z)
  BY <1>1 DEF TotalSize, Sizes
<1>6. Total(z) \in Nat
  BY ONLY <1>4, TotalType
<1> QED
  BY <1>1, <1>3, <1>4, <1>5, <1>6

(* Only the lengths count.                                                 *)
LEMMA SizesKept ==
    ASSUME NEW A, NEW B, NEW N \in Nat, DOMAIN A = 1 .. N, DOMAIN B = 1 .. N,
           \A i \in 1 .. N : Len(A[i].body) \in Nat /\ Len(B[i].body) = Len(A[i].body)
    PROVE  TotalSize(B) = TotalSize(A)
<1>1. PICK y, z : y = Sizes(A) /\ z = Sizes(B)
  OBVIOUS
<1>2. y = [i \in 1 .. N |-> Len(A[i].body) + 1] /\ z = [i \in 1 .. N |-> Len(B[i].body) + 1]
  BY <1>1 DEF Sizes, Size
<1>3. y = z
  BY ONLY <1>2, \A i \in 1 .. N : Len(B[i].body) = Len(A[i].body)
<1> QED
  BY <1>1, <1>3 DEF TotalSize, Sizes

LEMMA CopySizes ==
    ASSUME NEW T \in Seq(Copies)
    PROVE  /\ Len(T) \in Nat /\ DOMAIN T = 1 .. Len(T)
           /\ \A k \in 1 .. Len(T) : Len(T[k].body) \in Nat
           /\ TotalSize(T) \in Nat
<1>1. Len(T) \in Nat /\ DOMAIN T = 1 .. Len(T)
  OBVIOUS
<1>2. \A k \in 1 .. Len(T) : Len(T[k].body) \in Nat
  <2> SUFFICES ASSUME NEW k \in 1 .. Len(T) PROVE Len(T[k].body) \in Nat
    OBVIOUS
  <2>1. T[k].body \in Seq(NewValue)
    BY CopyTypes
  <2> QED
    BY ONLY <2>1
<1>3. TotalSize(T) \in Nat
  BY ONLY <1>1, <1>2, SizesAre
<1> QED
  BY <1>1, <1>2, <1>3

LEMMA SizesAppended ==
    ASSUME NEW T \in Seq(Copies), NEW x \in Copies
    PROVE  TotalSize(Append(T, x)) = TotalSize(T) + (Len(x.body) + 1)
<1>1. /\ Len(T) \in Nat /\ DOMAIN T = 1 .. Len(T)
      /\ \A k \in 1 .. Len(T) : Len(T[k].body) \in Nat
  BY CopySizes
<1>2. PICK N \in Nat : N = Len(T)
  BY <1>1
<1>3. PICK U : U = Append(T, x)
  OBVIOUS
<1>4. /\ U \in Seq(Copies) /\ Len(U) = N + 1 /\ U[N + 1] = x
      /\ \A k \in 1 .. N : U[k] = T[k]
  <2>1. /\ Append(T, x) \in Seq(Copies) /\ Len(Append(T, x)) = Len(T) + 1
        /\ Append(T, x)[Len(T) + 1] = x /\ \A k \in 1 .. Len(T) : Append(T, x)[k] = T[k]
    BY ONLY T \in Seq(Copies), x \in Copies, AppendProperties
  <2> QED
    BY ONLY <1>2, <1>3, <2>1
<1>5. /\ DOMAIN U = 1 .. N + 1 /\ \A k \in 1 .. N + 1 : Len(U[k].body) \in Nat
  <2>1. DOMAIN U = 1 .. Len(U) /\ \A k \in 1 .. Len(U) : Len(U[k].body) \in Nat
    BY ONLY <1>4, CopySizes
  <2> QED
    BY ONLY <1>4, <2>1
<1>6. PICK y, z, m : y = Sizes(T) /\ z = Sizes(U) /\ m = Len(x.body) + 1
  OBVIOUS
<1>7. /\ y \in Seq(Nat) /\ Len(y) = N /\ TotalSize(T) = Total(y)
      /\ \A k \in 1 .. N : y[k] = Len(T[k].body) + 1
  <2>1. DOMAIN T = 1 .. N /\ \A k \in 1 .. N : Len(T[k].body) \in Nat
    BY ONLY <1>1, <1>2
  <2>2. /\ Sizes(T) \in Seq(Nat) /\ Len(Sizes(T)) = N /\ TotalSize(T) = Total(Sizes(T))
        /\ \A k \in 1 .. N : Sizes(T)[k] = Len(T[k].body) + 1
    BY ONLY <2>1, N \in Nat, SizesAre
  <2> QED
    BY ONLY <1>6, <2>2
<1>8. /\ z \in Seq(Nat) /\ Len(z) = N + 1 /\ TotalSize(U) = Total(z)
      /\ \A k \in 1 .. N + 1 : z[k] = Len(U[k].body) + 1
  <2>1. PICK M \in Nat : M = N + 1
    OBVIOUS
  <2>2. DOMAIN U = 1 .. M /\ \A k \in 1 .. M : Len(U[k].body) \in Nat
    BY ONLY <1>5, <2>1
  <2>3. /\ Sizes(U) \in Seq(Nat) /\ Len(Sizes(U)) = M /\ TotalSize(U) = Total(Sizes(U))
        /\ \A k \in 1 .. M : Sizes(U)[k] = Len(U[k].body) + 1
    BY ONLY <2>2, M \in Nat, SizesAre
  <2> QED
    BY ONLY <1>6, <2>1, <2>3
<1>9. m \in Nat
  <2>1. Len(x.body) \in Nat
    <3>1. N + 1 \in 1 .. N + 1
      OBVIOUS
    <3> QED
      BY <1>4, <1>5, <3>1
  <2> QED
    BY ONLY <1>6, <2>1
<1>10. z = Append(y, m)
  <2>1. PICK a : a = Append(y, m)
    OBVIOUS
  <2>2. /\ a \in Seq(Nat) /\ Len(a) = N + 1 /\ a[N + 1] = m /\ \A k \in 1 .. N : a[k] = y[k]
    <3>1. /\ Append(y, m) \in Seq(Nat) /\ Len(Append(y, m)) = Len(y) + 1
          /\ Append(y, m)[Len(y) + 1] = m /\ \A k \in 1 .. Len(y) : Append(y, m)[k] = y[k]
      BY ONLY <1>7, <1>9, AppendProperties
    <3> QED
      BY ONLY <1>7, <2>1, <3>1
  <2>3. \A k \in 1 .. N + 1 : z[k] = a[k]
    <3> SUFFICES ASSUME NEW k \in 1 .. N + 1 PROVE z[k] = a[k]
      OBVIOUS
    <3>1. CASE k = N + 1
      BY ONLY <1>4, <1>6, <1>8, <2>2, <3>1, k \in 1 .. N + 1
    <3>2. CASE k # N + 1
      <4>1. k \in 1 .. N
        BY ONLY <3>2, k \in 1 .. N + 1, N \in Nat
      <4> QED
        BY ONLY <1>4, <1>7, <1>8, <2>2, <4>1, k \in 1 .. N + 1
    <3> QED
      BY ONLY <3>1, <3>2
  <2>4. z = [k \in 1 .. N + 1 |-> z[k]] /\ a = [k \in 1 .. N + 1 |-> a[k]]
    BY ONLY <1>8, <2>2
  <2> QED
    BY ONLY <2>1, <2>3, <2>4
<1>11. Total(z) = Total(y) + m
  BY ONLY <1>7, <1>9, <1>10, TotalAppend
<1> QED
  BY <1>3, <1>6, <1>7, <1>8, <1>11

-----------------------------------------------------------------------------
(* What is left of the old heap pays for what a move needs.                *)

\* The allocation at i has moved, or is merged into one that has.
Claimed(A, F, i) ==
    \/ F[i].moved # 0
    \/ \E j \in 1 .. Len(A) : /\ F[j].moved # 0
                              /\ \E n \in 1 .. Len(Chain(A, j)) : Chain(A, j)[n] = i

Unclaimed(A, F) == [i \in 1 .. Len(A) |-> IF Claimed(A, F, i) THEN 0 ELSE Len(A[i].body) + 1]

\* What is collected a second time: there is nothing left to merge or to cut.
Compact(A) == \A i \in 1 .. Len(A) : /\ Len(Visible(A, i)) = Len(A[i].body)
                                     /\ ~HasNext(A[i])

LEMMA UnclaimedIs ==
    ASSUME NEW A, AllocsOK(A), NEW F
    PROVE  /\ Unclaimed(A, F) \in Seq(Nat) /\ Len(Unclaimed(A, F)) = Len(A)
           /\ \A i \in 1 .. Len(A) :
                 Unclaimed(A, F)[i] = IF Claimed(A, F, i) THEN 0 ELSE Len(A[i].body) + 1
           /\ Total(Unclaimed(A, F)) \in Nat
           /\ \A i \in 1 .. Len(A) : Len(A[i].body) \in Nat
<1>1. Len(A) \in Nat
  BY AllocsAre
<1>2. \A i \in 1 .. Len(A) : Len(A[i].body) \in Nat
  <2> SUFFICES ASSUME NEW i \in 1 .. Len(A) PROVE Len(A[i].body) \in Nat
    OBVIOUS
  <2>1. A[i].body \in Seq(Value)
    BY AllocsAre
  <2> QED
    BY ONLY <2>1
<1>3. PICK u : u = Unclaimed(A, F)
  OBVIOUS
<1>4. /\ u \in [1 .. Len(A) -> Nat]
      /\ \A i \in 1 .. Len(A) : u[i] = IF Claimed(A, F, i) THEN 0 ELSE Len(A[i].body) + 1
  BY ONLY <1>2, <1>3 DEF Unclaimed
<1>5. u \in Seq(Nat) /\ Len(u) = Len(A)
  BY ONLY <1>1, <1>4, FunctionIsSeq
<1>6. Total(u) \in Nat
  BY ONLY <1>5, TotalType
<1> QED
  BY ONLY <1>2, <1>3, <1>4, <1>5, <1>6

(* A list is behind one list only, and those behind it are no target.      *)
LEMMA TargetIsUnclaimed ==
    ASSUME NEW A, AllocsOK(A), NEW F, NEW size, FromOK(A, F, size),
           NEW j, TargetOK(A, F, j), F[j].moved = 0
    PROVE  /\ ~Claimed(A, F, j)
           /\ \A n \in 1 .. Len(Chain(A, j)) : ~Claimed(A, F, Chain(A, j)[n])
<1>1. /\ DOMAIN A = 1 .. Len(A) /\ Len(A) \in Nat /\ Ordered(A) /\ PartsAreUnique(A)
      /\ j \in 1 .. Len(A)
  BY AllocsAre DEF TargetOK
<1>2. \A i \in 1 .. Len(A) : IsChain(A, i, Chain(A, i))
  BY <1>1, ChainIsChain
<1>3. \A i \in 1 .. Len(A) : F[i].moved # 0 /\ A[i].kind = "props" => i \notin Parts(A)
  BY DEF FromOK
<1>4. \A i \in 1 .. Len(A) : \A n \in 1 .. Len(Chain(A, i)) :
         /\ Chain(A, i)[n] \in Parts(A) /\ Chain(A, i)[n] \in 1 .. Len(A)
         /\ A[Chain(A, i)[n]].kind = "props"
         /\ A[i].kind = "props"
  <2> SUFFICES ASSUME NEW i \in 1 .. Len(A), NEW n \in 1 .. Len(Chain(A, i))
               PROVE  /\ Chain(A, i)[n] \in Parts(A) /\ Chain(A, i)[n] \in 1 .. Len(A)
                      /\ A[Chain(A, i)[n]].kind = "props"
                      /\ A[i].kind = "props"
    OBVIOUS
  <2>1. PICK c : c = Chain(A, i)
    OBVIOUS
  <2>2. IsChain(A, i, c) /\ n \in 1 .. Len(c)
    BY <1>2, <2>1
  <2>3. c[n] \in Parts(A) /\ c[n] \in 1 .. Len(A)
    BY <1>1, <2>2, ChainInParts
  <2>4. A[c[n]].kind = "props"
    BY <2>2 DEF IsChain
  <2>5. A[i].kind = "props"
    <3>1. 1 \in 1 .. Len(c)
      <4>1. c \in Seq(1 .. Len(A))
        BY <2>2 DEF IsChain
      <4>2. Len(c) \in Nat
        BY ONLY <4>1
      <4> QED
        BY ONLY <2>2, <4>2
    <3>2. HasNext(A[i])
      BY <2>2, <3>1 DEF IsChain
    <3> QED
      BY <3>2 DEF HasNext
  <2> QED
    BY <2>1, <2>3, <2>4, <2>5
<1>5. A[j].kind = "props" => j \notin Parts(A)
  <2>1. \A o \in 1 .. Len(A) : Cuts(A, o, j) => A[j].kind = "data"
    BY CutsAre
  <2> QED
    BY <2>1 DEF TargetOK
<1>6. ASSUME NEW i \in 1 .. Len(A), F[i].moved # 0, NEW n \in 1 .. Len(Chain(A, i))
      PROVE  /\ Chain(A, i)[n] # j
             /\ \A m \in 1 .. Len(Chain(A, j)) : Chain(A, i)[n] # Chain(A, j)[m]
  <2>1. Chain(A, i)[n] # j
    BY <1>4, <1>5
  <2>2. ASSUME NEW m \in 1 .. Len(Chain(A, j))
        PROVE  Chain(A, i)[n] # Chain(A, j)[m]
    <3>1. i \notin Parts(A) /\ j \notin Parts(A) /\ i # j
      BY <1>1, <1>3, <1>4, <1>5, <1>6
    <3>2. PICK c, e : c = Chain(A, i) /\ e = Chain(A, j)
      OBVIOUS
    <3>3. IsChain(A, i, c) /\ IsChain(A, j, e) /\ n \in 1 .. Len(c) /\ m \in 1 .. Len(e)
      BY <1>1, <1>2, <3>2
    <3>4. c[n] # e[m]
      BY ONLY <1>1, <3>1, <3>3, i \in 1 .. Len(A), ChainsApart
    <3> QED
      BY <3>2, <3>4
  <2> QED
    BY <2>1, <2>2
<1>7. ~Claimed(A, F, j)
  BY <1>6 DEF Claimed
<1>8. ASSUME NEW m \in 1 .. Len(Chain(A, j))
      PROVE  ~Claimed(A, F, Chain(A, j)[m])
  <2>1. F[Chain(A, j)[m]].moved = 0
    BY <1>1, <1>3, <1>4
  <2> QED
    BY <1>6, <2>1 DEF Claimed
<1> QED
  BY <1>7, <1>8

\* The old heap F with the move of j.
Moves(A, F, G, j) ==
    \A i \in 1 .. Len(A) : G[i].moved # 0 <=> i = j \/ F[i].moved # 0

Pays(A, F, G, j) ==
    /\ Total(Unclaimed(A, G)) + (Len(Visible(A, j)) + 1) <= Total(Unclaimed(A, F))
    /\ Compact(A) =>
          Total(Unclaimed(A, G)) + (Len(Visible(A, j)) + 1) = Total(Unclaimed(A, F))

(* A move takes what it writes out of what is left, and the words that it  *)
(* saves by merging and cutting.                                           *)
LEMMA MovePays ==
    ASSUME NEW A, AllocsOK(A), NEW F, NEW size, FromOK(A, F, size),
           NEW j, TargetOK(A, F, j), F[j].moved = 0, NEW G, Moves(A, F, G, j)
    PROVE  Pays(A, F, G, j)
<1>1. /\ DOMAIN A = 1 .. Len(A) /\ Len(A) \in Nat /\ Ordered(A) /\ j \in 1 .. Len(A)
  BY AllocsAre DEF TargetOK
<1>2. PICK N \in Nat : N = Len(A)
  BY <1>1
<1>3. PICK c : c = Chain(A, j)
  OBVIOUS
<1>4. IsChain(A, j, c)
  BY <1>1, <1>3, ChainIsChain
<1>5. c \in Seq(1 .. N) /\ Len(c) \in Nat
  <2>1. c \in Seq(1 .. N)
    BY <1>2, <1>4 DEF IsChain
  <2> QED
    BY ONLY <2>1
<1>6. PICK L \in Nat : L = Len(c)
  BY <1>5
<1>7. PICK e : e = Append(c, j)
  OBVIOUS
<1>8. /\ e \in Seq(1 .. N) /\ Len(e) = L + 1 /\ e[L + 1] = j
      /\ \A n \in 1 .. L : e[n] = c[n]
  <2>1. j \in 1 .. N
    BY <1>1, <1>2
  <2>2. /\ Append(c, j) \in Seq(1 .. N) /\ Len(Append(c, j)) = Len(c) + 1
        /\ Append(c, j)[Len(c) + 1] = j /\ \A n \in 1 .. Len(c) : Append(c, j)[n] = c[n]
    BY ONLY <1>5, <2>1, AppendProperties
  <2> QED
    BY ONLY <1>6, <1>7, <2>2
<1>9. \A k, n \in 1 .. L + 1 : e[k] = e[n] => k = n
  <2>1. j \in Nat
    BY <1>1
  <2>2. /\ \A n \in 1 .. L : j < c[n]
        /\ \A k, n \in 1 .. L : k < n => c[k] < c[n]
    BY <1>4, <1>6, <2>1, ChainGrows
  <2>3. \A n \in 1 .. L : c[n] \in Nat
    <3> SUFFICES ASSUME NEW n \in 1 .. L PROVE c[n] \in Nat
      OBVIOUS
    <3>1. c[n] \in 1 .. N
      BY ONLY <1>5, <1>6, n \in 1 .. L, ElementOfSeq
    <3> QED
      BY <3>1
  <2> SUFFICES ASSUME NEW k \in 1 .. L + 1, NEW n \in 1 .. L + 1, e[k] = e[n], k # n
               PROVE  FALSE
    OBVIOUS
  <2>4. CASE k \in 1 .. L /\ n \in 1 .. L
    <3>1. c[k] = c[n] /\ (k < n \/ n < k)
      BY <1>8, <2>4
    <3> QED
      BY ONLY <2>2, <2>3, <2>4, <3>1
  <2>5. CASE k = L + 1 /\ n \in 1 .. L
    BY ONLY <1>8, <2>1, <2>2, <2>3, <2>5, e[k] = e[n]
  <2>6. CASE n = L + 1 /\ k \in 1 .. L
    BY ONLY <1>8, <2>1, <2>2, <2>3, <2>6, e[k] = e[n]
  <2>7. k = L + 1 \/ k \in 1 .. L
    BY ONLY k \in 1 .. L + 1, L \in Nat
  <2>8. n = L + 1 \/ n \in 1 .. L
    BY ONLY n \in 1 .. L + 1, L \in Nat
  <2> QED
    BY ONLY <2>4, <2>5, <2>6, <2>7, <2>8, k # n
<1>10. PICK u, z : u = Unclaimed(A, F) /\ z = Unclaimed(A, G)
  OBVIOUS
<1>11. /\ u \in Seq(Nat) /\ Len(u) = N /\ \A i \in 1 .. N : Len(A[i].body) \in Nat
       /\ \A i \in 1 .. N : u[i] = IF Claimed(A, F, i) THEN 0 ELSE Len(A[i].body) + 1
  BY <1>2, <1>10, UnclaimedIs
<1>12. /\ z \in Seq(Nat) /\ Len(z) = N
       /\ \A i \in 1 .. N : z[i] = IF Claimed(A, G, i) THEN 0 ELSE Len(A[i].body) + 1
  BY <1>2, <1>10, UnclaimedIs
<1>13. \A n \in 1 .. L + 1 : ~Claimed(A, F, e[n])
  <2>1. ~Claimed(A, F, j) /\ \A n \in 1 .. L : ~Claimed(A, F, c[n])
    BY <1>3, <1>6, TargetIsUnclaimed
  <2>2. \A n \in 1 .. L + 1 : n = L + 1 \/ n \in 1 .. L
    BY ONLY L \in Nat
  <2> QED
    BY ONLY <1>8, <2>1, <2>2
<1>14. ASSUME NEW i \in 1 .. N
       PROVE  Claimed(A, G, i) <=> Claimed(A, F, i) \/ \E n \in 1 .. L + 1 : e[n] = i
  <2>1. (\E n \in 1 .. L + 1 : e[n] = i) <=> (i = j \/ \E n \in 1 .. L : c[n] = i)
    <3>1. \A n \in 1 .. L + 1 : n = L + 1 \/ n \in 1 .. L
      BY ONLY L \in Nat
    <3>2. L + 1 \in 1 .. L + 1 /\ \A n \in 1 .. L : n \in 1 .. L + 1
      BY ONLY L \in Nat
    <3> QED
      BY ONLY <1>8, <3>1, <3>2
  <2>2. \A k \in 1 .. N : G[k].moved # 0 <=> k = j \/ F[k].moved # 0
    BY <1>2 DEF Moves
  <2>3. j \in 1 .. N
    BY <1>1, <1>2
  <2> QED
    BY ONLY <1>2, <1>3, <1>6, <2>1, <2>2, <2>3, i \in 1 .. N DEF Claimed
<1>15. z = Zeroed(u, e, L + 1)
  <2>1. PICK y : y = Zeroed(u, e, L + 1)
    OBVIOUS
  <2>2. y = [i \in 1 .. N |-> IF \E n \in 1 .. L + 1 : e[n] = i THEN 0 ELSE u[i]]
    BY ONLY <1>11, <2>1 DEF Zeroed
  <2>3. \A i \in 1 .. N : z[i] = IF \E n \in 1 .. L + 1 : e[n] = i THEN 0 ELSE u[i]
    BY ONLY <1>11, <1>12, <1>14
  <2>4. z = [i \in 1 .. N |-> z[i]]
    BY ONLY <1>12
  <2> QED
    BY ONLY <2>1, <2>2, <2>3, <2>4
<1>16. PICK t0, t : /\ t0 = [n \in 1 .. L |-> Len(A[c[n]].body) + 1]
                    /\ t = Append(t0, Len(A[j].body) + 1)
  OBVIOUS
<1>17. /\ t0 \in Seq(Nat) /\ Len(t0) = L
       /\ \A n \in 1 .. L : t0[n] = Len(A[c[n]].body) + 1 /\ c[n] \in 1 .. N
  <2>1. \A n \in 1 .. L : c[n] \in 1 .. N
    BY ONLY <1>5, <1>6, ElementOfSeq
  <2>2. t0 \in [1 .. L -> Nat] /\ \A n \in 1 .. L : t0[n] = Len(A[c[n]].body) + 1
    <3>1. \A n \in 1 .. L : Len(A[c[n]].body) + 1 \in Nat
      BY ONLY <1>11, <2>1
    <3>2. t0 = [n \in 1 .. L |-> Len(A[c[n]].body) + 1]
      BY <1>16
    <3> QED
      BY ONLY <3>1, <3>2
  <2>3. t0 \in Seq(Nat) /\ Len(t0) = L
    BY ONLY <2>2, L \in Nat, FunctionIsSeq
  <2> QED
    BY ONLY <2>1, <2>2, <2>3
<1>18. Len(A[j].body) + 1 \in Nat /\ Len(A[j].body) \in Nat
  BY <1>1, <1>2, <1>11
<1>19. /\ t \in Seq(Nat) /\ Len(t) = L + 1
       /\ \A n \in 1 .. L + 1 : t[n] = u[e[n]]
       /\ Total(t) = Total(t0) + (Len(A[j].body) + 1)
  <2>1. PICK q \in Nat : q = Len(A[j].body) + 1
    BY <1>18
  <2>2. t = Append(t0, q)
    BY <1>16, <2>1
  <2>3. /\ Append(t0, q) \in Seq(Nat) /\ Len(Append(t0, q)) = Len(t0) + 1
        /\ Append(t0, q)[Len(t0) + 1] = q /\ \A n \in 1 .. Len(t0) : Append(t0, q)[n] = t0[n]
    BY ONLY <1>17, q \in Nat, AppendProperties
  <2>4. /\ t \in Seq(Nat) /\ Len(t) = L + 1 /\ t[L + 1] = q
        /\ \A n \in 1 .. L : t[n] = t0[n]
    BY ONLY <1>17, <2>2, <2>3
  <2>5. Total(t) = Total(t0) + q
    BY ONLY <1>17, <2>2, q \in Nat, TotalAppend
  <2>6. \A n \in 1 .. L + 1 : t[n] = u[e[n]]
    <3> SUFFICES ASSUME NEW n \in 1 .. L + 1 PROVE t[n] = u[e[n]]
      OBVIOUS
    <3>1. e[n] \in 1 .. N
      BY ONLY <1>8, n \in 1 .. L + 1, ElementOfSeq
    <3>2. u[e[n]] = Len(A[e[n]].body) + 1
      BY ONLY <1>11, <1>13, <3>1, n \in 1 .. L + 1
    <3>3. CASE n = L + 1
      BY ONLY <1>8, <2>1, <2>4, <3>2, <3>3
    <3>4. CASE n # L + 1
      <4>1. n \in 1 .. L
        BY ONLY <3>4, n \in 1 .. L + 1, L \in Nat
      <4> QED
        BY ONLY <1>8, <1>17, <2>4, <3>2, <4>1
    <3> QED
      BY ONLY <3>3, <3>4
  <2> QED
    BY ONLY <2>1, <2>4, <2>5, <2>6
<1>20. Total(z) + Total(t) = Total(u)
  <2>1. PICK M \in Nat : M = L + 1
    OBVIOUS
  <2>2. /\ e \in Seq(1 .. Len(u)) /\ Len(e) = M /\ Len(t) = Len(e)
        /\ \A k, n \in 1 .. Len(e) : e[k] = e[n] => k = n
        /\ \A n \in 1 .. Len(e) : t[n] = u[e[n]]
    BY ONLY <1>8, <1>9, <1>11, <1>19, <2>1
  <2>3. Total(Zeroed(u, e, Len(e))) + Total(t) = Total(u)
    BY ONLY <1>11, <1>19, <2>2, TotalOfZeroed
  <2>4. Zeroed(u, e, Len(e)) = z
    BY ONLY <1>15, <2>1, <2>2
  <2> QED
    BY ONLY <2>3, <2>4
<1>21. Total(z) \in Nat /\ Total(u) \in Nat /\ Total(t0) \in Nat
  BY ONLY <1>11, <1>12, <1>17, TotalType
<1>22. PICK V : V = Visible(A, j)
  OBVIOUS
<1>23. V \in Seq(Value) /\ Len(V) \in Nat
  <2>1. V \in Seq(Value)
    BY <1>1, <1>22, VisibleIs
  <2> QED
    BY ONLY <2>1
<1>24. Len(V) <= Len(A[j].body) + Total(t0)
  <2>1. CASE A[j].kind = "props"
    <3>1. PICK ls : ls = Lengths(A, c)
      OBVIOUS
    <3>2. V = Merged(A, j)
      BY <1>1, <1>22, <2>1, VisibleIs
    <3>3. ls \in Seq(Nat) /\ Len(V) = Len(A[j].body) + Total(ls)
      BY <1>1, <1>3, <2>1, <3>1, <3>2, MergedIs
    <3>4. DOMAIN c = 1 .. L
      BY ONLY <1>5, <1>6
    <3>5. ls = [n \in 1 .. L |-> Len(Fields(A[c[n]]))]
      BY ONLY <3>1, <3>4 DEF Lengths
    <3>6. Len(ls) = L
      BY ONLY <3>3, <3>5, L \in Nat
    <3>7. ASSUME NEW n \in 1 .. L
          PROVE  ls[n] <= t0[n]
      <4>1. c[n] \in 1 .. N /\ t0[n] = Len(A[c[n]].body) + 1
        BY <1>17
      <4>2. A[c[n]].kind = "props"
        BY <1>4, <1>6 DEF IsChain
      <4>3. Len(Fields(A[c[n]])) = Len(A[c[n]].body) - 2 /\ Len(A[c[n]].body) \in Nat
        BY <1>2, <4>1, <4>2, FieldsAre
      <4>4. ls[n] = Len(Fields(A[c[n]]))
        BY ONLY <3>5, n \in 1 .. L
      <4> QED
        BY ONLY <4>1, <4>3, <4>4
    <3>8. Total(ls) <= Total(t0)
      BY ONLY <1>17, <3>3, <3>6, <3>7, TotalOfLess
    <3>9. Total(ls) \in Nat
      BY ONLY <3>3, TotalType
    <3> QED
      BY ONLY <1>18, <1>21, <3>3, <3>8, <3>9
  <2>2. CASE A[j].kind # "props"
    <3>1. Len(V) <= Len(A[j].body)
      BY <1>1, <1>22, <2>2, VisibleIs
    <3> QED
      BY ONLY <1>18, <1>21, <1>23, <3>1
  <2> QED
    BY <2>1, <2>2
<1>25. ASSUME Compact(A)
       PROVE  Len(V) = Len(A[j].body) /\ Total(t0) = 0
  <2>1. Len(V) = Len(A[j].body) /\ ~HasNext(A[j])
    BY <1>1, <1>22, <1>25 DEF Compact
  <2>2. c = << >>
    BY <1>1, <1>3, <2>1, ChainUnfolds
  <2>3. L = 0
    BY <1>6, <2>2
  <2>4. Total(t0) = 0
    BY ONLY <1>17, <2>3, TotalOfNone
  <2> QED
    BY <2>1, <2>4
<1>26. PICK a, b, g, l, v : a = Total(u) /\ b = Total(z) /\ g = Total(t0)
                            /\ l = Len(A[j].body) /\ v = Len(V)
  OBVIOUS
<1>27. /\ a \in Nat /\ b \in Nat /\ g \in Nat /\ l \in Nat /\ v \in Nat
       /\ b + (g + (l + 1)) = a /\ v <= l + g
       /\ Compact(A) => v = l /\ g = 0
  BY ONLY <1>18, <1>19, <1>20, <1>21, <1>23, <1>24, <1>25, <1>26
<1>28. b + (v + 1) <= a /\ (v = l /\ g = 0 => b + (v + 1) = a)
  BY ONLY <1>27
<1> QED
  BY ONLY <1>10, <1>22, <1>26, <1>27, <1>28 DEF Pays

(* What the check for space adds up is no more than what a move writes.    *)
LEMMA NeedIs ==
    ASSUME NEW A, AllocsOK(A), NEW F, NEW size, FromOK(A, F, size), NEW j, TargetOK(A, F, j)
    PROVE  LET V == Visible(A, j)
               c == Chain(F, j)
           IN  /\ Len(V) \in Nat /\ Len(F[j].body) \in Nat /\ Len(F[j].body) <= Len(V)
               /\ F[j].kind = A[j].kind
               /\ A[j].kind = "props" =>
                     /\ DOMAIN c = 1 .. Len(c) /\ Len(c) \in Nat
                     /\ \A n \in 1 .. Len(c) :
                           /\ PropsUpTo(F, j, n) \in Nat /\ 2 + 2 * PropsUpTo(F, j, n) <= Len(V)
                           /\ Len(F[j].body) + 1 + 2 * (PropsUpTo(F, j, n - 1) - PropCount(F[j]))
                                + PropCount(F[c[n]]) <= Len(V) + 1
<1>1. j \in 1 .. Len(A) /\ Len(A) \in Nat
  BY AllocsAre DEF TargetOK
<1>2. PICK V, b : V = Visible(A, j) /\ b = F[j].body
  OBVIOUS
<1>3. V \in Seq(Value) /\ Len(V) \in Nat
  <2>1. V \in Seq(Value)
    BY <1>1, <1>2, VisibleIs
  <2> QED
    BY ONLY <2>1
<1>4. /\ F[j].kind = A[j].kind /\ b \in Seq(Value) /\ Len(b) \in Nat
      /\ A[j].kind # "data" => b = A[j].body
      /\ A[j].kind \in Kinds
  <2>1. /\ F[j].kind = A[j].kind /\ b \in Seq(Value)
        /\ A[j].kind # "data" => b = A[j].body
    BY <1>1, <1>2, FromFields
  <2>2. Len(b) \in Nat
    BY ONLY <2>1
  <2>3. A[j].kind \in Kinds
    BY <1>1, AllocsAre
  <2> QED
    BY <2>1, <2>2, <2>3
<1>5. CASE A[j].kind = "props"
  <2>1. b = A[j].body /\ V = Merged(A, j)
    BY <1>1, <1>2, <1>4, <1>5, VisibleIs
  <2>2. PICK c : c = Chain(A, j)
    OBVIOUS
  <2>3. /\ Chain(F, j) = c /\ PropCount(F[j]) = PropCount(A[j])
        /\ \A n \in 1 .. Len(c) : PropCount(F[c[n]]) = PropCount(A[c[n]])
        /\ \A n \in 0 .. Len(c) : PropsUpTo(F, j, n) = PropsUpTo(A, j, n)
    BY <1>1, <1>5, <2>2, MergedAgrees
  <2>4. PICK K, T, L : K = PropCount(A[j]) /\ T = Total(Counts(A, c)) /\ L = Len(c)
    OBVIOUS
  <2>5. /\ c \in Seq(1 .. Len(A)) /\ Counts(A, c) \in Seq(Nat) /\ K \in Nat
        /\ Len(V) = 2 + 2 * K + 2 * T /\ Len(b) = 2 + 2 * K
        /\ \A n \in 0 .. L : PropsUpTo(A, j, n) \in Nat /\ PropsUpTo(A, j, n) <= K + T
        /\ \A n \in 1 .. L : /\ PropsUpTo(A, j, n) = PropsUpTo(A, j, n - 1) + PropCount(A[c[n]])
                             /\ PropCount(A[c[n]]) \in Nat
    BY <1>1, <1>5, <2>1, <2>2, <2>4, PropsFit
  <2>6. T \in Nat /\ L \in Nat /\ DOMAIN c = 1 .. L
    <3>1. T \in Nat
      BY ONLY <2>4, <2>5, TotalType
    <3>2. L \in Nat /\ DOMAIN c = 1 .. L
      BY ONLY <2>4, <2>5
    <3> QED
      BY <3>1, <3>2
  <2>7. ASSUME NEW n \in 1 .. L
        PROVE  /\ PropsUpTo(F, j, n) \in Nat /\ 2 + 2 * PropsUpTo(F, j, n) <= Len(V)
               /\ Len(b) + 1 + 2 * (PropsUpTo(F, j, n - 1) - PropCount(F[j]))
                    + PropCount(F[c[n]]) <= Len(V) + 1
    <3>1. n - 1 \in 0 .. L /\ n \in 0 .. L
      BY ONLY n \in 1 .. L, <2>6
    <3>2. PICK a, z, q : a = PropsUpTo(A, j, n) /\ z = PropsUpTo(A, j, n - 1) /\ q = PropCount(A[c[n]])
      OBVIOUS
    <3>3. a \in Nat /\ z \in Nat /\ q \in Nat /\ a = z + q /\ a <= K + T
      BY ONLY <2>5, <3>1, <3>2, n \in 1 .. L
    <3>4. /\ PropsUpTo(F, j, n) = a /\ PropsUpTo(F, j, n - 1) = z /\ PropCount(F[j]) = K
          /\ PropCount(F[c[n]]) = q
      BY ONLY <2>3, <2>4, <3>1, <3>2, n \in 1 .. L
    <3>5. 2 + 2 * a <= 2 + 2 * K + 2 * T
      BY ONLY <2>5, <2>6, <3>3
    <3>6. (2 + 2 * K) + 1 + 2 * (z - K) + q <= (2 + 2 * K + 2 * T) + 1
      BY ONLY <2>5, <2>6, <3>3
    <3> QED
      BY ONLY <2>5, <3>3, <3>4, <3>5, <3>6
  <2>8. Len(b) <= Len(V)
    BY ONLY <2>5, <2>6
  <2> QED
    BY ONLY <1>2, <1>3, <1>4, <2>3, <2>4, <2>6, <2>7, <2>8
<1>6. CASE A[j].kind = "array"
  <2>1. Len(V) = 2
    BY <1>1, <1>2, <1>6, VisibleIs
  <2>2. Len(A[j].body) = 2
    <3>1. WellFormedAt(A, j)
      BY <1>1, AllocsAre
    <3> QED
      BY ONLY <1>6, <3>1 DEF WellFormedAt
  <2>3. Len(b) <= Len(V)
    <3>1. b = A[j].body
      BY ONLY <1>4, <1>6
    <3>2. Len(b) = 2
      BY ONLY <2>2, <3>1
    <3> QED
      BY ONLY <2>1, <3>2
  <2> QED
    BY ONLY <1>2, <1>3, <1>4, <1>6, <2>3
<1>7. CASE A[j].kind \in {"leaf", "cell"}
  <2>1. V = A[j].body
    BY <1>1, <1>2, <1>7, VisibleIs
  <2>2. b = V
    BY <1>4, <1>7, <2>1
  <2> QED
    BY ONLY <1>2, <1>3, <1>4, <1>7, <2>2
<1>8. CASE A[j].kind = "data"
  <2>1. V = Kept(A, j)
    BY <1>1, <1>2, <1>8, VisibleIs
  <2>2. b = V
    <3>1. b = IF \E o \in 1 .. Len(A) : Cuts(A, o, j) /\ F[o].moved # 0
              THEN Kept(A, j) ELSE A[j].body
      BY <1>1, <1>2 DEF FromOK
    <3>2. CASE \E o \in 1 .. Len(A) : Cuts(A, o, j) /\ F[o].moved # 0
      BY <2>1, <3>1, <3>2
    <3>3. CASE ~(\E o \in 1 .. Len(A) : Cuts(A, o, j) /\ F[o].moved # 0)
      <4>1. j \notin Parts(A)
        BY ONLY TargetOK(A, F, j), <3>3 DEF TargetOK
      <4>2. \A o \in 1 .. Len(A) : ~(A[o].kind = "array" /\ HasPart(A[o]) /\ Part(A[o]) = j)
        <5>1. DOMAIN A = 1 .. Len(A)
          BY AllocsAre
        <5> QED
          BY <4>1, <5>1 DEF Parts
      <4>3. Kept(A, j) = A[j].body
        BY <1>1, <4>2, KeptIs
      <4> QED
        BY <2>1, <3>1, <3>3, <4>3
    <3> QED
      BY <3>2, <3>3
  <2> QED
    BY ONLY <1>2, <1>3, <1>4, <1>8, <2>2
<1> QED
  BY <1>4, <1>5, <1>6, <1>7, <1>8 DEF Kinds

(* When a move starts over, what it writes would not have fit, and what it *)
(* asks for is no more than that.                                          *)
LEMMA MisfitIs ==
    ASSUME NEW A, AllocsOK(A), NEW F, NEW size, FromOK(A, F, size), F = from,
           NEW j, TargetOK(A, F, j), ~(HeadFits(j) /\ ChainFits(j)),
           NEW left \in Int, left = SpaceLeft(buckets)
    PROVE  /\ MinRequired(j) \in Nat /\ MinRequired(j) <= Len(Visible(A, j)) + 1
           /\ left < Len(Visible(A, j)) + 1
<1>1. PICK V, c, b : V = Visible(A, j) /\ c = Chain(F, j) /\ b = F[j].body
  OBVIOUS
<1>2. /\ Len(V) \in Nat /\ Len(b) \in Nat /\ Len(b) <= Len(V)
      /\ F[j].kind = A[j].kind
      /\ A[j].kind = "props" =>
            /\ DOMAIN c = 1 .. Len(c) /\ Len(c) \in Nat
            /\ \A n \in 1 .. Len(c) :
                  /\ PropsUpTo(F, j, n) \in Nat /\ 2 + 2 * PropsUpTo(F, j, n) <= Len(V)
                  /\ Len(b) + 1 + 2 * (PropsUpTo(F, j, n - 1) - PropCount(F[j]))
                       + PropCount(F[c[n]]) <= Len(V) + 1
  BY <1>1, NeedIs
<1>3. CASE ~HeadFits(j)
  <2>1. MinRequired(j) = Len(b) + 1
    BY <1>1, <1>3 DEF MinRequired, Size
  <2>2. ~(Len(b) + 1 <= left)
    BY <1>1, <1>3 DEF HeadFits, Size
  <2>3. MinRequired(j) \in Nat /\ MinRequired(j) <= Len(V) + 1 /\ left < Len(V) + 1
    BY ONLY <1>2, <2>1, <2>2, left \in Int
  <2> QED
    BY <1>1, <2>3
<1>4. CASE HeadFits(j)
  <2>1. PICK M : M = Misfits(j)
    OBVIOUS
  <2>2. F[j].kind = "props" /\ M # {}
    BY <1>4, <2>1 DEF ChainFits
  <2>3. M = {n \in DOMAIN c : Len(b) + 1 + 2 * (PropsUpTo(F, j, n - 1) - PropCount(F[j]))
                                + PropCount(F[c[n]]) > left}
    BY <1>1, <2>1 DEF Misfits
  <2>4. PICK L \in Nat : L = Len(c) /\ DOMAIN c = 1 .. L
    BY <1>2, <2>2
  <2>5. M \in SUBSET (1 .. L)
    BY ONLY <2>3, <2>4
  <2>6. PICK m \in M : \A k \in M : m <= k
    BY ONLY <2>2, <2>5, L \in Nat, LeastPosition
  <2>7. Min(M) \in M
    <3>1. Min(M) = CHOOSE x \in M : \A y \in M : x <= y
      BY DEF Min
    <3> QED
      BY ONLY <2>6, <3>1
  <2>8. PICK n \in 1 .. L : n = Min(M)
    BY <2>5, <2>7
  <2>9. MinRequired(j) = 2 + 2 * PropsUpTo(F, j, n)
    BY <1>4, <2>1, <2>8 DEF MinRequired
  <2>10. /\ PropsUpTo(F, j, n) \in Nat /\ 2 + 2 * PropsUpTo(F, j, n) <= Len(V)
         /\ Len(b) + 1 + 2 * (PropsUpTo(F, j, n - 1) - PropCount(F[j]))
              + PropCount(F[c[n]]) <= Len(V) + 1
    BY <1>2, <2>2, <2>4
  <2>11. PICK x : x = Len(b) + 1 + 2 * (PropsUpTo(F, j, n - 1) - PropCount(F[j]))
                        + PropCount(F[c[n]])
    OBVIOUS
  <2>12. x > left /\ x <= Len(V) + 1
    BY <2>3, <2>7, <2>8, <2>10, <2>11
  <2>13. x \in Int
    <3>1. PICK K, T, z, q : /\ K = PropCount(A[j]) /\ z = PropsUpTo(A, j, n - 1)
                            /\ q = PropCount(A[c[n]]) /\ T = Chain(A, j)
      OBVIOUS
    <3>2. A[j].kind = "props" /\ j \in 1 .. Len(A)
      BY <1>2, <2>2 DEF TargetOK
    <3>3. /\ T = c /\ PropCount(F[j]) = K
          /\ \A k \in 1 .. L : PropCount(F[c[k]]) = PropCount(A[c[k]])
          /\ \A k \in 0 .. L : PropsUpTo(F, j, k) = PropsUpTo(A, j, k)
      BY <1>1, <2>4, <3>1, <3>2, MergedAgrees
    <3>4. /\ K \in Nat /\ \A k \in 1 .. L : PropCount(A[c[k]]) \in Nat
          /\ \A k \in 0 .. L : PropsUpTo(A, j, k) \in Nat
      BY <2>4, <3>1, <3>2, <3>3, PropsFit
    <3>5. n - 1 \in 0 .. L
      BY ONLY n \in 1 .. L, L \in Nat
    <3>6. z \in Nat /\ q \in Nat /\ PropsUpTo(F, j, n - 1) = z /\ PropCount(F[c[n]]) = q
      BY ONLY <3>1, <3>3, <3>4, <3>5, n \in 1 .. L
    <3>7. x = Len(b) + 1 + 2 * (z - K) + q
      BY ONLY <2>11, <3>3, <3>6
    <3> QED
      BY ONLY <1>2, <3>4, <3>6, <3>7
  <2>14. left < Len(V) + 1
    BY ONLY <1>2, <2>12, <2>13, left \in Int
  <2>15. MinRequired(j) \in Nat /\ MinRequired(j) <= Len(V) + 1
    BY ONLY <1>2, <2>9, <2>10
  <2> QED
    BY <1>1, <2>14, <2>15
<1> QED
  BY <1>3, <1>4

-----------------------------------------------------------------------------
(* The second invariant of a collection: what the buckets hold.            *)

\* The new heap and what is left of the old one take no more than the old one.
SpaceOK(A, F, T, bks) ==
    /\ bks \in Seq(Bucket) /\ Len(bks) > 0
    /\ UsedWords(bks) = TotalSize(T)
    /\ TotalSize(A) <= MaxHeapWords
    /\ UsedWords(bks) + Total(Unclaimed(A, F)) <= TotalSize(A)
    /\ Compact(A) => UsedWords(bks) + Total(Unclaimed(A, F)) = TotalSize(A)

\* The value at the slot does not fit into what is left of the first bucket.
Pending(A, F, T, rs, d, s, w, p, bks) ==
    \E v : /\ At(T, rs, d, s, w, p, v) /\ IsFrom(v) /\ F[v[2]].moved = 0
           /\ UsedWords(bks) + (Len(Visible(A, v[2])) + 1) > bks[1].capacity

\* The heap of the second collection has no garbage and nothing to merge or to cut,
\* and its size is known.
SqueezedOK(h, e) ==
    /\ Compact(h.allocs)
    /\ Live(h) = DOMAIN h.allocs
    /\ e = IF TotalSize(h.allocs) = 0 THEN EmptyEstimate ELSE TotalSize(h.allocs)

\* There is a second bucket only if the first is too small for what is moved.
FirstOK(h, F, T, rs, d, s, w, p, bks, e, q) ==
    /\ e \in Nat \ {0} /\ q \in {"off", "asked", "again"}
    /\ bks[1].capacity = Min({e, MaxHeapWords})
    /\ p \notin Stopped /\ Len(bks) > 1 =>
          \/ UsedWords(bks) > bks[1].capacity
          \/ Pending(h.allocs, F, T, rs, d, s, w, p, bks)
    /\ q = "again" => SqueezedOK(h, e)
    /\ p = "done" /\ q = "asked" => UsedWords(bks) = e

LEMMA AtOneValue ==
    ASSUME NEW T, NEW rs, NEW d, NEW s, NEW w, NEW p, NEW v, NEW u,
           At(T, rs, d, s, w, p, v), At(T, rs, d, s, w, p, u)
    PROVE  u = v
  BY DEF At

(* Copies of the same allocations have the same sizes.                     *)
LEMMA SameSizes ==
    ASSUME NEW A, AllocsOK(A), NEW F, Len(F) = Len(A), NEW N \in Nat, MovedOK(F, N),
           NEW T, NEW s, NEW w, ToOK(A, F, T, s, w), Len(T) = N,
           NEW U, NEW r, NEW u, ToOK(A, F, U, r, u), Len(U) = N
    PROVE  TotalSize(U) = TotalSize(T)
<1>1. T \in Seq(Copies) /\ U \in Seq(Copies)
  BY DEF ToOK
<1>2. /\ DOMAIN T = 1 .. N /\ DOMAIN U = 1 .. N
      /\ \A k \in 1 .. N : Len(T[k].body) \in Nat
  BY <1>1, CopySizes
<1>3. ASSUME NEW k \in 1 .. N
      PROVE  Len(U[k].body) = Len(T[k].body)
  <2>1. PICK i \in 1 .. Len(A) : F[i].moved = k
    BY DEF MovedOK
  <2>2. F[i].moved # 0
    BY <2>1
  <2>3. CopyOK(A, F, T, s, w, i, F[i].moved) /\ CopyOK(A, F, U, r, u, i, F[i].moved)
    BY <2>2 DEF ToOK
  <2> QED
    BY <2>1, <2>3 DEF CopyOK
<1> QED
  BY ONLY <1>2, <1>3, N \in Nat, SizesKept

LEMMA LengthKept ==
    ASSUME NEW T \in Seq(Copies), NEW k, NEW y, NEW x
    PROVE  LET U == [T EXCEPT ![k].body[y] = x]
           IN  U \in Seq(Copies) => Len(U) = Len(T)
<1> PICK U : U = [T EXCEPT ![k].body[y] = x]
  OBVIOUS
<1> SUFFICES ASSUME U \in Seq(Copies) PROVE Len(U) = Len(T)
  OBVIOUS
<1>1. DOMAIN U = DOMAIN T
  OBVIOUS
<1>2. Len(U) \in Nat /\ Len(T) \in Nat /\ DOMAIN U = 1 .. Len(U) /\ DOMAIN T = 1 .. Len(T)
  <2>1. Len(T) \in Nat /\ DOMAIN T = 1 .. Len(T)
    BY ONLY T \in Seq(Copies)
  <2>2. Len(U) \in Nat /\ DOMAIN U = 1 .. Len(U)
    BY ONLY U \in Seq(Copies)
  <2> QED
    BY <2>1, <2>2
<1>3. PICK m \in Nat, n \in Nat : m = Len(T) /\ n = Len(U)
  BY ONLY <1>2
<1>4. 1 .. m = 1 .. n
  BY ONLY <1>1, <1>2, <1>3
<1>5. m = n
  BY ONLY <1>4, m \in Nat, n \in Nat
<1> QED
  BY ONLY <1>3, <1>5

LEMMA SingleBucket ==
    ASSUME NEW bks \in Seq(Bucket), Len(bks) = 1
    PROVE  /\ UsedWords(bks) = bks[1].used
           /\ SpaceLeft(bks) = bks[1].capacity - UsedWords(bks)
           /\ bks[1].capacity \in 0 .. MaxHeapWords
<1>1. PICK u : u = Used(bks)
  OBVIOUS
<1>2. /\ u \in Seq(Nat) /\ Len(u) = 1 /\ UsedWords(bks) = Total(u) /\ u[1] = bks[1].used
      /\ bks[1].used \in Nat
  BY <1>1, UsedIs
<1>3. PICK t : t = [u EXCEPT ![1] = 0]
  OBVIOUS
<1>4. 1 \in 1 .. Len(u) /\ 0 \in Nat
  BY ONLY <1>2
<1>5. t \in Seq(Nat) /\ Total(t) + u[1] = Total(u) + 0
  <2>1. LET z == [u EXCEPT ![1] = 0] IN z \in Seq(Nat) /\ Total(z) + u[1] = Total(u) + 0
    BY ONLY <1>2, <1>4, TotalExcept
  <2> QED
    BY ONLY <1>3, <2>1
<1>6. \A n \in 1 .. Len(t) : t[n] = 0
  <2>1. Len(t) = 1 /\ t[1] = 0
    BY ONLY <1>2, <1>3, <1>5
  <2> QED
    BY ONLY <2>1
<1>7. Total(t) = 0 /\ Total(u) \in Nat
  BY ONLY <1>2, <1>5, <1>6, TotalOfZeros, TotalType
<1>8. UsedWords(bks) = bks[1].used
  BY ONLY <1>2, <1>5, <1>7
<1>9. SpaceLeft(bks) = bks[1].capacity - bks[1].used
  <2>1. Last(bks) = bks[1]
    BY DEF Last
  <2> QED
    BY <2>1 DEF SpaceLeft
<1>10. bks[1].capacity \in 0 .. MaxHeapWords
  <2>1. 1 \in 1 .. Len(bks)
    OBVIOUS
  <2>2. bks[1] \in Bucket
    BY ONLY bks \in Seq(Bucket), <2>1, ElementOfSeq
  <2> QED
    BY ONLY <2>2 DEF Bucket
<1> QED
  BY <1>8, <1>9, <1>10

(* Before the first slot.                                                  *)
LEMMA FreshSpace ==
    ASSUME NEW A, AllocsOK(A), TotalSize(A) <= MaxHeapWords, NEW size \in Nat
    PROVE  SpaceOK(A, Untouched(A), << >>, FirstBuckets(size))
<1>1. PICK bks : bks = FirstBuckets(size)
  OBVIOUS
<1>2. bks \in Seq(Bucket) /\ Len(bks) = 1 /\ UsedWords(bks) = 0
  BY <1>1, FirstBucket
<1>3. TotalSize(<< >>) = 0
  <2>1. << >> \in Seq(Copies) /\ Len(<< >>) = 0 /\ 0 \in Nat /\ DOMAIN << >> = 1 .. 0
    OBVIOUS
  <2>2. \A i \in 1 .. 0 : Len((<< >>)[i].body) \in Nat
    OBVIOUS
  <2>3. PICK b : b = << >>
    OBVIOUS
  <2>4. /\ Sizes(b) \in Seq(Nat) /\ Len(Sizes(b)) = 0 /\ TotalSize(b) = Total(Sizes(b))
    BY <2>1, <2>2, <2>3, SizesAre
  <2>5. Total(Sizes(b)) = 0
    BY ONLY <2>4, TotalOfNone
  <2> QED
    BY <2>3, <2>4, <2>5
<1>4. DOMAIN A = 1 .. Len(A) /\ Len(A) \in Nat
  BY AllocsAre
<1>5. PICK F : F = Untouched(A)
  OBVIOUS
<1>6. \A i \in 1 .. Len(A) : F[i].moved = 0
  BY ONLY <1>4, <1>5 DEF Untouched
<1>7. \A i \in 1 .. Len(A) : ~Claimed(A, F, i)
  BY <1>6 DEF Claimed
<1>8. Unclaimed(A, F) = Sizes(A)
  <2>1. Unclaimed(A, F) = [i \in 1 .. Len(A) |-> Len(A[i].body) + 1]
    BY ONLY <1>7 DEF Unclaimed
  <2>2. Sizes(A) = [i \in 1 .. Len(A) |-> Len(A[i].body) + 1]
    BY ONLY <1>4 DEF Sizes, Size
  <2> QED
    BY ONLY <2>1, <2>2
<1>9. TotalSize(A) = Total(Unclaimed(A, F))
  BY <1>8 DEF TotalSize, Sizes
<1>10. TotalSize(A) \in Nat
  BY <1>9, UnclaimedIs
<1>11. 0 + Total(Unclaimed(A, F)) = TotalSize(A)
  BY ONLY <1>9, <1>10
<1>12. SpaceOK(A, F, << >>, bks)
  BY <1>2, <1>3, <1>10, <1>11 DEF SpaceOK
<1> QED
  BY <1>1, <1>5, <1>12

LEMMA SpaceIs ==
    ASSUME NEW A, AllocsOK(A), NEW F, NEW T, NEW bks, SpaceOK(A, F, T, bks)
    PROVE  /\ bks \in Seq(Bucket) /\ Len(bks) \in Nat \ {0} /\ UsedWords(bks) \in Nat
           /\ TotalSize(A) \in Nat /\ Total(Unclaimed(A, F)) \in Nat
           /\ UsedWords(bks) <= MaxHeapWords
           /\ UsedWords(bks) + Total(Unclaimed(A, F)) <= MaxHeapWords
           /\ bks[1].capacity \in 0 .. MaxHeapWords
<1>1. bks \in Seq(Bucket) /\ Len(bks) > 0
  BY DEF SpaceOK
<1>2. UsedWords(bks) \in Nat /\ Len(bks) \in Nat
  BY <1>1, UsedIs
<1>3. Total(Unclaimed(A, F)) \in Nat
  BY UnclaimedIs
<1>4. TotalSize(A) \in Nat
  <2>1. DOMAIN A = 1 .. Len(A) /\ Len(A) \in Nat /\ \A i \in 1 .. Len(A) : Len(A[i].body) \in Nat
    BY AllocsAre, UnclaimedIs
  <2> QED
    BY ONLY <2>1, SizesAre
<1>5. /\ UsedWords(bks) <= MaxHeapWords
      /\ UsedWords(bks) + Total(Unclaimed(A, F)) <= MaxHeapWords
  <2>1. UsedWords(bks) + Total(Unclaimed(A, F)) <= TotalSize(A) /\ TotalSize(A) <= MaxHeapWords
    BY DEF SpaceOK
  <2>2. MaxHeapWords \in Nat
    BY Constants
  <2> QED
    BY ONLY <1>2, <1>3, <1>4, <2>1, <2>2
<1>6. bks[1].capacity \in 0 .. MaxHeapWords
  <2>1. 1 \in 1 .. Len(bks)
    BY ONLY <1>1, <1>2
  <2>2. bks[1] \in Bucket
    BY ONLY <1>1, <2>1, ElementOfSeq
  <2> QED
    BY ONLY <2>2 DEF Bucket
<1> QED
  BY <1>1, <1>2, <1>3, <1>4, <1>5, <1>6

(* A move, in words.                                                       *)
LEMMA MoveSpace ==
    ASSUME NEW A, AllocsOK(A), NEW F, NEW T, NEW s, NEW w, NEW bks,
           FromOK(A, F, Len(T)), MovedOK(F, Len(T)), ToOK(A, F, T, s, w),
           s \in 0 .. Len(T), w \in Nat, w = 0 \/ s < Len(T),
           NEW j, TargetOK(A, F, j), F[j].moved = 0,
           NEW G, G = Marked(F, j, Len(T) + 1),
           NEW x, x = [kind |-> F[j].kind, body |-> Compacted(F, j).body],
           NEW U, NEW r, NEW u, ToOK(A, G, U, r, u), Len(U) = Len(T) + 1,
           SpaceOK(A, F, T, bks)
    PROVE  LET c == Fill(bks, Size(x))
           IN  /\ SpaceOK(A, G, U, c)
               /\ UsedWords(c) = UsedWords(bks) + (Len(Visible(A, j)) + 1)
               /\ Len(c) = Len(bks) /\ c[1].capacity = bks[1].capacity
<1>1. T \in Seq(Copies) /\ U \in Seq(Copies) /\ Len(T) \in Nat /\ j \in 1 .. Len(A)
  <2>1. T \in Seq(Copies) /\ U \in Seq(Copies)
    BY DEF ToOK
  <2>2. Len(T) \in Nat
    BY ONLY <2>1
  <2> QED
    BY <2>1, <2>2 DEF TargetOK
<1>2. PICK T1 : T1 = Append(T, x)
  OBVIOUS
<1>3. /\ x \in Copies /\ x.body = Visible(A, j) /\ Len(T1) = Len(T) + 1
      /\ ToOK(A, G, T1, s, w)
  <2>1. /\ x \in Copies /\ x.body = Visible(A, j) /\ Len(Append(T, x)) = Len(T) + 1
        /\ ToOK(A, G, Append(T, x), s, w)
    BY MovedTo
  <2> QED
    BY ONLY <1>2, <2>1
<1>4. PICK n \in Nat : n = Len(Visible(A, j)) + 1
  <2>1. PICK V : V = Visible(A, j)
    OBVIOUS
  <2>2. V \in Seq(Value)
    BY <1>1, <2>1, VisibleIs
  <2>3. Len(V) + 1 \in Nat
    BY ONLY <2>2
  <2> QED
    BY <2>1, <2>3
<1>5. Size(x) = n
  BY <1>3, <1>4 DEF Size
<1>6. PICK m \in Nat : m = Len(T) + 1
  BY <1>1
<1>7. /\ MovedOK(G, m) /\ Len(G) = Len(A)
      /\ \A i \in 1 .. Len(A) : G[i].moved = IF i = j THEN m ELSE F[i].moved
  <2>1. PICK size \in Nat : size = Len(T)
    BY <1>1
  <2>2. LET H == Marked(F, j, size + 1) IN MovedOK(H, size + 1)
    <3>1. FromOK(A, F, size) /\ MovedOK(F, size) /\ AllocsOK(A) /\ TargetOK(A, F, j)
          /\ F[j].moved = 0
      BY <2>1
    <3> QED
      BY ONLY <3>1, size \in Nat, MovedFrom
  <2>3. LET H == Marked(F, j, m)
        IN  /\ Len(H) = Len(A)
            /\ \A i \in 1 .. Len(A) : H[i].moved = IF i = j THEN m ELSE F[i].moved
    <3>1. AllocsOK(A) /\ FromOK(A, F, size) /\ F[j].moved = 0
      BY <2>1
    <3> QED
      BY ONLY <1>1, <3>1, m \in Nat, MarkedIs
  <2>4. G = Marked(F, j, m) /\ m = size + 1
    BY <1>6, <2>1
  <2>5. MovedOK(G, m)
    BY ONLY <2>2, <2>4
  <2>6. /\ Len(G) = Len(A)
        /\ \A i \in 1 .. Len(A) : G[i].moved = IF i = j THEN m ELSE F[i].moved
    BY ONLY <2>3, <2>4
  <2> QED
    BY ONLY <2>5, <2>6
<1>8. TotalSize(U) = TotalSize(T1)
  <2>1. /\ AllocsOK(A) /\ Len(G) = Len(A) /\ MovedOK(G, m) /\ ToOK(A, G, T1, s, w)
        /\ Len(T1) = m /\ ToOK(A, G, U, r, u) /\ Len(U) = m
    BY <1>3, <1>6, <1>7
  <2> QED
    BY ONLY <2>1, m \in Nat, SameSizes
<1>9. TotalSize(T1) = TotalSize(T) + n /\ TotalSize(T) \in Nat
  <2>1. TotalSize(Append(T, x)) = TotalSize(T) + (Len(x.body) + 1)
    BY ONLY <1>1, <1>3, SizesAppended
  <2>2. Len(x.body) + 1 = n
    BY <1>3, <1>4
  <2>3. TotalSize(T) \in Nat
    BY ONLY <1>1, CopySizes
  <2> QED
    BY ONLY <1>2, <2>1, <2>2, <2>3
<1>10. m # 0
  BY ONLY <1>1, <1>6
<1>11. /\ Total(Unclaimed(A, G)) + n <= Total(Unclaimed(A, F))
       /\ Compact(A) => Total(Unclaimed(A, G)) + n = Total(Unclaimed(A, F))
  <2>1. PICK size \in Nat : size = Len(T)
    BY <1>1
  <2>2. FromOK(A, F, size)
    BY <2>1
  <2>3. Moves(A, F, G, j)
    BY ONLY <1>7, <1>10 DEF Moves
  <2>4. Pays(A, F, G, j)
    BY ONLY AllocsOK(A), <2>2, TargetOK(A, F, j), F[j].moved = 0, <2>3, MovePays
  <2> QED
    BY ONLY <1>4, <2>4 DEF Pays
<1>12. PICK c : c = Fill(bks, n)
  OBVIOUS
<1>13. /\ bks \in Seq(Bucket) /\ Len(bks) \in Nat \ {0} /\ UsedWords(bks) \in Nat
       /\ TotalSize(A) \in Nat /\ Total(Unclaimed(A, F)) \in Nat
  BY ONLY AllocsOK(A), SpaceOK(A, F, T, bks), SpaceIs
<1>14. /\ c \in Seq(Bucket) /\ Len(c) = Len(bks)
       /\ UsedWords(c) = UsedWords(bks) + n
       /\ c[1].capacity = bks[1].capacity
  <2>1. Len(bks) > 0
    BY ONLY <1>13
  <2>2. LET g == Fill(bks, n)
        IN  /\ g \in Seq(Bucket) /\ Len(g) = Len(bks)
            /\ UsedWords(g) = UsedWords(bks) + n
            /\ g[1].capacity = bks[1].capacity
    BY ONLY <1>13, <2>1, n \in Nat, BucketFilled
  <2> QED
    BY ONLY <1>12, <2>2
<1>15. Total(Unclaimed(A, G)) \in Nat
  BY UnclaimedIs
<1>16. SpaceOK(A, G, U, c)
  <2>1. /\ UsedWords(bks) = TotalSize(T) /\ TotalSize(A) <= MaxHeapWords
        /\ UsedWords(bks) + Total(Unclaimed(A, F)) <= TotalSize(A)
        /\ Compact(A) => UsedWords(bks) + Total(Unclaimed(A, F)) = TotalSize(A)
    BY DEF SpaceOK
  <2>2. UsedWords(c) = TotalSize(U)
    BY ONLY <1>8, <1>9, <1>14, <2>1
  <2>3. PICK a, b, k, z : /\ a = UsedWords(bks) /\ b = Total(Unclaimed(A, F))
                          /\ k = Total(Unclaimed(A, G)) /\ z = TotalSize(A)
    OBVIOUS
  <2>4. /\ a \in Nat /\ b \in Nat /\ k \in Nat /\ z \in Nat /\ a + b <= z /\ k + n <= b
        /\ UsedWords(c) = a + n
    BY ONLY <1>11, <1>13, <1>14, <1>15, <2>1, <2>3
  <2>5. (a + n) + k <= z /\ (a + b = z /\ k + n = b => (a + n) + k = z)
    BY ONLY <2>4, n \in Nat
  <2>6. Compact(A) => a + b = z /\ k + n = b
    BY ONLY <1>11, <2>1, <2>3
  <2>7. Len(c) > 0
    BY ONLY <1>13, <1>14
  <2> QED
    BY ONLY <1>14, <2>1, <2>2, <2>3, <2>4, <2>5, <2>6, <2>7 DEF SpaceOK
<1>17. Fill(bks, Size(x)) = c
  BY ONLY <1>5, <1>12
<1> QED
  BY ONLY <1>4, <1>14, <1>16, <1>17

SeenAsItIs(B, k) ==
    LET V == Visible(B, k)
    IN  Len(V) = Len(B[k].body) /\ \A n \in 1 .. Len(V) : V[n] = B[k].body[n]

(* A heap with nothing to merge or to cut is seen as it is.                *)
LEMMA VisibleWhole ==
    ASSUME NEW B, AllocsOK(B), Whole(B), NEW k \in 1 .. Len(B)
    PROVE  SeenAsItIs(B, k)
<1>0. /\ B[k].kind = "props" => ~HasPart(B[k])
      /\ \A o \in 1 .. Len(B) : Cuts(B, o, k) => B[o].body[2][2] = Len(B[k].body)
      /\ \A o \in 1 .. Len(B) : B[o].kind = "array" /\ B[o].body[2] = Prim(0) => ~HasPart(B[o])
  BY DEF Whole
<1> SUFFICES LET V == Visible(B, k)
             IN  Len(V) = Len(B[k].body) /\ \A n \in 1 .. Len(V) : V[n] = B[k].body[n]
  BY DEF SeenAsItIs
<1>1. PICK V, b : V = Visible(B, k) /\ b = B[k].body
  OBVIOUS
<1>2. B[k].kind \in Kinds /\ b \in Seq(Value) /\ Len(b) \in Nat /\ WellFormedAt(B, k)
  <2>1. B[k].kind \in Kinds /\ b \in Seq(Value) /\ WellFormedAt(B, k)
    BY <1>1, AllocsAre
  <2>2. Len(b) \in Nat
    BY ONLY <2>1
  <2> QED
    BY <2>1, <2>2
<1>3. CASE B[k].kind \in {"leaf", "cell"}
  <2>1. V = b
    BY <1>1, <1>3, VisibleIs
  <2> QED
    BY ONLY <1>1, <2>1
<1>4. CASE B[k].kind = "array"
  <2>1. /\ Len(V) = 2 /\ V[2] = b[2]
        /\ V[1] = IF b[2] = Prim(0) THEN Null ELSE b[1]
    BY <1>1, <1>4, VisibleIs
  <2>2. Len(b) = 2
    BY <1>1, <1>2, <1>4 DEF WellFormedAt
  <2>3. b[2] = Prim(0) => b[1] = Null
    <3> SUFFICES ASSUME b[2] = Prim(0) PROVE b[1] = Null
      OBVIOUS
    <3>1. ~HasPart(B[k])
      BY <1>0, <1>1, <1>4
    <3> QED
      BY <1>1, <1>4, <3>1 DEF HasPart
  <2>4. V[1] = b[1]
    BY <2>1, <2>3
  <2>5. \A n \in 1 .. Len(V) : n = 1 \/ n = 2
    BY ONLY <2>1
  <2>6. \A n \in 1 .. Len(V) : V[n] = b[n]
    BY ONLY <2>1, <2>4, <2>5
  <2> QED
    BY ONLY <1>1, <2>1, <2>2, <2>6
<1>5. CASE B[k].kind = "data"
  <2>1. V = Kept(B, k)
    BY <1>1, <1>5, VisibleIs
  <2>2. CASE \E o \in 1 .. Len(B) : B[o].kind = "array" /\ HasPart(B[o]) /\ Part(B[o]) = k
    <3>1. PICK o \in 1 .. Len(B) : B[o].kind = "array" /\ HasPart(B[o]) /\ Part(B[o]) = k
      BY <2>2
    <3>2. Cuts(B, o, k)
      BY <1>0, <3>1 DEF Cuts
    <3>3. PICK l : l = B[o].body[2][2]
      OBVIOUS
    <3>4. l = Len(b)
      BY <1>0, <1>1, <3>2, <3>3
    <3>5. l \in 0 .. Len(b) /\ V = SubSeq(b, 1, l)
      BY <1>1, <2>1, <3>1, <3>3, KeptIs
    <3>6. LET g == SubSeq(b, 1, l) IN Len(g) = l /\ \A n \in 1 .. l : g[n] = b[n]
      BY ONLY <1>2, <3>5, Shortened
    <3>7. Len(V) = Len(b) /\ \A n \in 1 .. Len(V) : V[n] = b[n]
      BY ONLY <3>4, <3>5, <3>6
    <3> QED
      BY ONLY <1>1, <3>7
  <2>3. CASE ~(\E o \in 1 .. Len(B) : B[o].kind = "array" /\ HasPart(B[o]) /\ Part(B[o]) = k)
    <3>1. V = b
      BY <1>1, <2>1, <2>3, KeptIs
    <3> QED
      BY ONLY <1>1, <3>1
  <2> QED
    BY <2>2, <2>3
<1>6. CASE B[k].kind = "props"
  <2>1. V = Merged(B, k)
    BY <1>1, <1>6, VisibleIs
  <2>2. DOMAIN B = 1 .. Len(B) /\ Ordered(B)
    BY AllocsAre
  <2>3. Chain(B, k) = << >>
    <3>1. ~HasNext(B[k])
      BY <1>0, <1>6 DEF HasNext
    <3> QED
      BY <2>2, <3>1, ChainUnfolds
  <2>4. PICK f : f = Fields(B[k])
    OBVIOUS
  <2>5. /\ f \in Seq(Value) /\ Len(f) = Len(b) - 2 /\ Len(b) >= 2
        /\ \A m \in 1 .. Len(f) : f[m] = b[m + 2]
    BY <1>1, <1>6, <2>4, FieldsAre
  <2>6. PICK hd : hd = <<Null, b[2]>>
    OBVIOUS
  <2>7. hd \in Seq(Value) /\ Len(hd) = 2 /\ hd[1] = Null /\ hd[2] = b[2]
    <3>1. b[2] \in Value
      <4>1. 2 \in 1 .. Len(b)
        BY ONLY <1>2, <2>5
      <4> QED
        BY ONLY <1>2, <4>1, ElementOfSeq
    <3>2. Null \in Value
      BY DEF Null, Value
    <3> QED
      BY ONLY <2>6, <3>1, <3>2
  <2>8. PICK fl : fl = FlattenSeq([n \in DOMAIN << >> |-> Fields(B[(<< >>)[n]])])
    OBVIOUS
  <2>9. V = hd \o f \o fl
    BY <1>1, <2>1, <2>3, <2>4, <2>6, <2>8 DEF Merged
  <2>10. fl \in Seq(Value) /\ Len(fl) = 0
    <3>1. PICK ss : ss = [n \in DOMAIN << >> |-> Fields(B[(<< >>)[n]])]
      OBVIOUS
    <3>2. ss = << >>
      BY ONLY <3>1
    <3>3. FlattenSeq(ss) = ss
      BY ONLY <3>2 DEF FlattenSeq
    <3>4. fl = FlattenSeq(ss)
      BY ONLY <2>8, <3>1
    <3>5. fl = << >>
      BY ONLY <3>2, <3>3, <3>4
    <3> QED
      BY ONLY <3>5
  <2>11. PICK g : g = hd \o f
    OBVIOUS
  <2>12. /\ g \in Seq(Value) /\ Len(g) = Len(hd) + Len(f)
         /\ \A x \in 1 .. Len(hd) : g[x] = hd[x]
         /\ \A x \in Len(hd) + 1 .. Len(g) : g[x] = f[x - Len(hd)]
    <3>1. LET z == hd \o f
          IN  /\ z \in Seq(Value) /\ Len(z) = Len(hd) + Len(f)
              /\ \A x \in 1 .. Len(hd) : z[x] = hd[x]
              /\ \A x \in Len(hd) + 1 .. Len(z) : z[x] = f[x - Len(hd)]
      <4>1. hd \in Seq(Value) /\ f \in Seq(Value)
        BY <2>5, <2>7
      <4> QED
        BY ONLY <4>1, Joined
    <3> QED
      BY ONLY <2>11, <3>1
  <2>13. Len(V) = Len(g) + Len(fl) /\ \A x \in 1 .. Len(g) : V[x] = g[x]
    <3>1. LET z == g \o fl
          IN  Len(z) = Len(g) + Len(fl) /\ \A x \in 1 .. Len(g) : z[x] = g[x]
      BY ONLY <2>10, <2>12, Joined
    <3>2. V = g \o fl
      BY ONLY <2>9, <2>11
    <3> QED
      BY ONLY <3>1, <3>2
  <2>14. Len(V) = Len(b) /\ Len(g) = Len(b)
    BY ONLY <1>2, <2>5, <2>7, <2>10, <2>12, <2>13
  <2>15. b[1] = Null
    BY <1>0, <1>1, <1>6 DEF HasPart
  <2>16. ASSUME NEW n \in 1 .. Len(b)
         PROVE  g[n] = b[n]
    <3>1. CASE n \in {1, 2}
      <4>1. n \in 1 .. Len(hd)
        BY ONLY <2>7, <3>1
      <4> QED
        BY ONLY <2>7, <2>12, <2>15, <3>1, <4>1
    <3>2. CASE n \notin {1, 2}
      <4>1. n \in Len(hd) + 1 .. Len(g) /\ n - Len(hd) = n - 2 /\ n - 2 \in 1 .. Len(f) /\ (n - 2) + 2 = n
        BY ONLY <1>2, <2>5, <2>7, <2>14, <3>2, n \in 1 .. Len(b)
      <4>2. PICK m : m = n - 2
        OBVIOUS
      <4>3. g[n] = f[m] /\ f[m] = b[m + 2] /\ m + 2 = n
        BY ONLY <2>5, <2>12, <4>1, <4>2
      <4> QED
        BY ONLY <4>3
    <3> QED
      BY <3>1, <3>2
  <2>17. \A n \in 1 .. Len(V) : V[n] = b[n]
    BY ONLY <2>13, <2>14, <2>16
  <2> QED
    BY ONLY <1>1, <2>14, <2>17
<1> QED
  BY <1>2, <1>3, <1>4, <1>5, <1>6 DEF Kinds


(* After a collection there is nothing left to merge or to cut, and all of *)
(* it is reached.                                                          *)
LEMMA SqueezedWhole ==
    ASSUME NEW h, NEW F, NEW T, NEW rs, NEW d, NEW s, NEW w,
           Graph(h, F, T, rs, d, s, w, "scan"), s = Len(T)
    PROVE  LET B == RenamedHeap(T)
           IN  /\ AllocsOK(B) /\ Len(B) = Len(T) /\ TotalSize(B) = TotalSize(T)
               /\ \A k \in 1 .. Len(B) : SeenAsItIs(B, k)
               /\ Compact(B)
<1>1. PICK A, R : A = h.allocs /\ R = h.roots
  OBVIOUS
<1>2. /\ AllocsOK(A) /\ FromOK(A, F, Len(T)) /\ MovedOK(F, Len(T))
      /\ T \in Seq(Copies) /\ Len(T) \in Nat
  BY <1>1, GraphIs
<1>3. PICK B : B = RenamedHeap(T)
  OBVIOUS
<1>4. /\ B \in Seq([kind : Kinds, body : Seq(Value)]) /\ Len(B) = Len(T)
      /\ \A i \in 1 .. Len(A) : F[i].moved # 0 => RenamedOK(A, F, B, i, F[i].moved)
  BY <1>1, <1>3, HeapRenamed
<1>11. \A k \in 1 .. Len(T) : Len(B[k].body) = Len(T[k].body)
  BY <1>1, <1>3, HeapRenamed
<1>5. PICK N \in Nat : N = Len(T)
  BY <1>2
<1>6. AllocsOK(B) /\ Whole(B)
  <2>1. FromOK(A, F, N) /\ MovedOK(F, N) /\ Len(B) = N /\ AllocsOK(A)
    BY <1>2, <1>4, <1>5
  <2>2. /\ B \in Seq([kind : Kinds, body : Seq(Value)])
        /\ \A i \in 1 .. Len(A) : F[i].moved # 0 => RenamedOK(A, F, B, i, F[i].moved)
    BY ONLY <1>4
  <2> QED
    BY ONLY <2>1, <2>2, N \in Nat, RenamedSound
<1>7. Len(B) = N
  BY ONLY <1>4, <1>5
<1>8. \A k \in 1 .. Len(B) : SeenAsItIs(B, k)
  BY ONLY <1>6, VisibleWhole
<1>9. Compact(B)
  <2>1. \A k \in 1 .. Len(B) : ~HasNext(B[k])
    BY ONLY <1>6 DEF Whole, HasNext
  <2> QED
    BY ONLY <1>8, <2>1 DEF Compact, SeenAsItIs
<1>10. TotalSize(B) = TotalSize(T)
  <2>1. DOMAIN T = 1 .. Len(T) /\ \A k \in 1 .. Len(T) : Len(T[k].body) \in Nat
    BY ONLY <1>2, CopySizes
  <2>2. DOMAIN B = 1 .. Len(B)
    BY ONLY <1>4
  <2>3. DOMAIN T = 1 .. N /\ DOMAIN B = 1 .. N
    BY ONLY <1>5, <1>7, <2>1, <2>2
  <2>4. \A k \in 1 .. N : Len(T[k].body) \in Nat /\ Len(B[k].body) = Len(T[k].body)
    BY ONLY <1>5, <1>11, <2>1
  <2> QED
    BY ONLY <2>3, <2>4, N \in Nat, SizesKept
<1> QED
  BY ONLY <1>3, <1>4, <1>6, <1>8, <1>9, <1>10

LEMMA SqueezedLive ==
    ASSUME NEW h, NEW F, NEW T, NEW rs, NEW d, NEW s, NEW w,
           Graph(h, F, T, rs, d, s, w, "scan"), s = Len(T)
    PROVE  LET g == [allocs |-> RenamedHeap(T), roots |-> RenamedAll(rs)]
           IN  Live(g) = DOMAIN g.allocs
<1>1. PICK A, R : A = h.allocs /\ R = h.roots
  OBVIOUS
<1>2. /\ WellFormed(h) /\ AllocsOK(A) /\ FromOK(A, F, Len(T)) /\ MovedOK(F, Len(T))
      /\ Reached(h, F) /\ Len(T) \in Nat /\ DOMAIN A = 1 .. Len(A)
      /\ R \in Seq(Value) /\ Len(R) \in Nat
  BY <1>1, GraphIs
<1>3. PICK B, Q : B = RenamedHeap(T) /\ Q = RenamedAll(rs)
  OBVIOUS
<1>4. AllocsOK(B) /\ Len(B) = Len(T) /\ \A k \in 1 .. Len(B) : SeenAsItIs(B, k)
  BY <1>3, SqueezedWhole
<1>5. \A i \in 1 .. Len(A) : F[i].moved # 0 => RenamedOK(A, F, B, i, F[i].moved)
  BY <1>1, <1>3, HeapRenamed
<1>6. /\ Q \in Seq(Value) /\ Len(Q) = Len(R)
      /\ \A n \in 1 .. Len(R) :
            IF IsFrom(R[n]) THEN F[R[n][2]].moved # 0 /\ Q[n] = From(F[R[n][2]].moved)
            ELSE Q[n] = R[n]
  <2>1. LET C == RenamedAll(rs)
        IN  /\ C \in Seq(Value) /\ Len(C) = Len(R)
            /\ \A n \in 1 .. Len(R) :
                  IF IsFrom(R[n]) THEN F[R[n][2]].moved # 0 /\ C[n] = From(F[R[n][2]].moved)
                  ELSE C[n] = R[n]
    BY ONLY Graph(h, F, T, rs, d, s, w, "scan"), <1>1, RootsRenamed
  <2> QED
    BY ONLY <1>3, <2>1
<1>7. PICK g : g = [allocs |-> B, roots |-> Q]
  OBVIOUS
<1>8. g.allocs = B /\ g.roots = Q /\ DOMAIN B = 1 .. Len(T)
  BY ONLY <1>4, <1>7, AllocsAre
<1>9. ASSUME NEW S \in SUBSET (1 .. Len(T)), Closed(g, S)
      PROVE  \A k \in 1 .. Len(T) : k \in S
  <2>1. PICK P : P = {i \in 1 .. Len(A) : F[i].moved \in S}
    OBVIOUS
  <2>2. Pointers(Q) \subseteq S /\ \A k \in S : PointersSeen(B, k) \subseteq S
    BY <1>8, <1>9 DEF Closed
  <2>3. \A k : k \in S => k # 0 /\ k \in 1 .. Len(T)
    BY <1>2
  <2>4. Pointers(R) \subseteq P
    <3> SUFFICES ASSUME NEW n \in DOMAIN R, IsFrom(R[n]) PROVE R[n][2] \in P
      BY DEF Pointers, Range
    <3>1. n \in 1 .. Len(R)
      BY ONLY <1>2, n \in DOMAIN R
    <3>2. R[n][2] \in 1 .. Len(A)
      BY <1>1, <1>2, <3>1, RootSlots
    <3>3. Q[n] = From(F[R[n][2]].moved)
      BY ONLY <1>6, <3>1, IsFrom(R[n])
    <3>4. n \in DOMAIN Q
      BY ONLY <1>6, <3>1
    <3>5. Q[n][2] \in Pointers(Q)
      <4>1. IsFrom(Q[n])
        BY ONLY <3>3 DEF IsFrom, From
      <4> QED
        BY ONLY <3>4, <4>1 DEF Pointers, Range
    <3>6. F[R[n][2]].moved \in S
      BY ONLY <2>2, <3>3, <3>5 DEF From
    <3> QED
      BY ONLY <2>1, <3>2, <3>6
  <2>5. ASSUME NEW i \in P
        PROVE  PointersSeen(A, i) \subseteq P
    <3>1. i \in 1 .. Len(A) /\ F[i].moved \in S
      BY <2>1
    <3>2. PICK k : k = F[i].moved
      OBVIOUS
    <3>3. k \in S /\ k \in 1 .. Len(T) /\ k # 0
      BY ONLY <2>3, <3>1, <3>2
    <3>4. RenamedOK(A, F, B, i, k)
      BY ONLY <1>5, <3>1, <3>2, <3>3
    <3>5. CASE A[i].kind = "leaf"
      BY <3>5 DEF PointersSeen
    <3>6. CASE A[i].kind # "leaf"
      <4>1. PICK V, W : V = Visible(A, i) /\ W = Visible(B, k)
        OBVIOUS
      <4>2. V \in Seq(Value) /\ W \in Seq(Value)
        <5>1. V \in Seq(Value)
          BY <1>2, <3>1, <4>1, VisibleIs
        <5>2. k \in 1 .. Len(B)
          BY ONLY <1>4, <3>3
        <5>3. W \in Seq(Value)
          BY ONLY <1>4, <4>1, <5>2, VisibleIs
        <5> QED
          BY ONLY <5>1, <5>3
      <4>3. /\ Len(W) = Len(B[k].body) /\ Len(B[k].body) = Len(V)
            /\ \A n \in 1 .. Len(W) : W[n] = B[k].body[n]
            /\ \A n \in 1 .. Len(V) : IsFrom(V[n]) =>
                  B[k].body[n] = From(F[V[n][2]].moved)
        <5>1. Len(W) = Len(B[k].body) /\ \A n \in 1 .. Len(W) : W[n] = B[k].body[n]
          BY ONLY <1>4, <3>3, <4>1 DEF SeenAsItIs
        <5>2. /\ Len(B[k].body) = Len(V)
              /\ \A n \in 1 .. Len(V) : IsFrom(V[n]) =>
                    B[k].body[n] = From(F[V[n][2]].moved)
          BY ONLY <3>4, <3>6, <4>1 DEF RenamedOK
        <5> QED
          BY ONLY <5>1, <5>2
      <4>4. PointersSeen(A, i) = Pointers(V)
        BY <3>6, <4>1 DEF PointersSeen
      <4>5. PointersSeen(B, k) = Pointers(W)
        <5>1. B[k].kind # "leaf"
          BY ONLY <3>4, <3>6 DEF RenamedOK
        <5> QED
          BY <4>1, <5>1 DEF PointersSeen
      <4>6. ASSUME NEW n \in DOMAIN V, IsFrom(V[n])
            PROVE  V[n][2] \in P
        <5>1. n \in 1 .. Len(V)
          BY ONLY <4>2, n \in DOMAIN V
        <5>2. SlotOK(A, i, n, V[n])
          BY <1>2, <3>1, <3>6, <4>1, <5>1, VisibleSlots
        <5>3. W[n] = From(F[V[n][2]].moved)
          BY ONLY <4>3, <4>6, <5>1
        <5>4. n \in DOMAIN W
          BY ONLY <4>2, <4>3, <5>1
        <5>5. W[n][2] \in Pointers(W)
          <6>1. IsFrom(W[n])
            BY ONLY <5>3 DEF IsFrom, From
          <6> QED
            BY ONLY <5>4, <6>1 DEF Pointers, Range
        <5>6. F[V[n][2]].moved \in S
          BY ONLY <2>2, <3>3, <4>5, <5>3, <5>5 DEF From
        <5>7. V[n][2] \in 1 .. Len(A)
          BY ONLY <4>6, <5>2 DEF SlotOK
        <5> QED
          BY ONLY <2>1, <5>6, <5>7
      <4> QED
        BY <4>4, <4>6 DEF Pointers, Range
    <3> QED
      BY <3>5, <3>6
  <2>6. Closed(h, P) /\ P \in SUBSET DOMAIN A
    <3>1. P \in SUBSET DOMAIN A
      BY <1>2, <2>1
    <3> QED
      BY <1>1, <2>4, <2>5, <3>1 DEF Closed
  <2>7. \A i \in 1 .. Len(A) : F[i].moved # 0 => i \in P
    BY <1>1, <1>2, <2>6 DEF Reached
  <2> SUFFICES ASSUME NEW k \in 1 .. Len(T) PROVE k \in S
    OBVIOUS
  <2>8. PICK i \in 1 .. Len(F) : F[i].moved = k
    BY <1>2 DEF MovedOK
  <2>9. i \in 1 .. Len(A) /\ F[i].moved # 0
    BY <1>2, <2>8 DEF FromOK
  <2>10. i \in P
    BY ONLY <2>7, <2>9
  <2> QED
    BY ONLY <2>1, <2>8, <2>10
<1>10. Live(g) = DOMAIN g.allocs
  BY ONLY <1>8, <1>9 DEF Live
<1> QED
  BY ONLY <1>3, <1>7, <1>10


-----------------------------------------------------------------------------
(* The second invariant holds of every collection.                         *)

Counted(bks, e, q) == buckets = bks /\ estimate = e /\ squeeze = q

SpaceInv ==
    \E h, F, T, rs, d, s, w, p, bks, e, q :
        /\ Collected(h, F, T, rs, d, s, w, p) /\ Counted(bks, e, q)
        /\ Graph(h, F, T, rs, d, s, w, p)
        /\ SpaceOK(h.allocs, F, T, bks)
        /\ FirstOK(h, F, T, rs, d, s, w, p, bks, e, q)

LEMMA SpaceConcluded ==
    ASSUME NEW h, NEW F, NEW T, NEW rs, NEW d, NEW s, NEW w, NEW p, NEW bks, NEW e, NEW q,
           Collected(h, F, T, rs, d, s, w, p)', Counted(bks, e, q)',
           Graph(h, F, T, rs, d, s, w, p), SpaceOK(h.allocs, F, T, bks),
           FirstOK(h, F, T, rs, d, s, w, p, bks, e, q)
    PROVE  SpaceInv'
  BY DEF SpaceInv

LEMMA SpaceHasGraph == SpaceInv => GraphInv
  BY DEF SpaceInv, GraphInv

LEMMA GraphAfter ==
    ASSUME GraphInv'
    PROVE  \E h, F, T, rs, d, s, w, p :
              Collected(h, F, T, rs, d, s, w, p)' /\ Graph(h, F, T, rs, d, s, w, p)
  BY DEF GraphInv

LEMMA PendingMove ==
    ASSUME NEW h, NEW F, NEW T, NEW rs, NEW d, NEW s, NEW w, NEW p, NEW A, NEW bks,
           Collected(h, F, T, rs, d, s, w, p), Pending(A, F, T, rs, d, s, w, p, bks)
    PROVE  AtMove
<1>1. PICK v : At(T, rs, d, s, w, p, v) /\ IsFrom(v) /\ F[v[2]].moved = 0
  BY DEF Pending
<1>2. AtValue
  BY <1>1 DEF At, AtValue, HasWord, Collected
<1>3. Current = v
  BY <1>1, <1>2, AtCurrent, AtOneValue
<1> QED
  BY <1>1, <1>2, <1>3 DEF AtMove, Collected

(* A step that moves nothing.                                              *)
LEMMA SpaceUnmoved ==
    ASSUME SpaceInv, GraphInv', ~AtMove,
           UNCHANGED <<before, from, buckets, estimate, squeeze>>,
           to' = to \/ \E k, n, x : to' = [to EXCEPT ![k].body[n] = x],
           phase' = "done" /\ squeeze = "asked" => UsedWords(buckets) = estimate,
           phase \notin Stopped
    PROVE  SpaceInv'
<1>1. PICK h, F, T, rs, d, s, w, p, bks, e, q :
         /\ Collected(h, F, T, rs, d, s, w, p) /\ Counted(bks, e, q)
         /\ Graph(h, F, T, rs, d, s, w, p)
         /\ SpaceOK(h.allocs, F, T, bks)
         /\ FirstOK(h, F, T, rs, d, s, w, p, bks, e, q)
  BY DEF SpaceInv
<1>2. PICK h2, F2, U, qs, d2, s2, w2, p2 :
         Collected(h2, F2, U, qs, d2, s2, w2, p2)' /\ Graph(h2, F2, U, qs, d2, s2, w2, p2)
  BY GraphAfter
<1>3. h2 = h /\ F2 = F /\ to' = U /\ to = T /\ phase' = p2 /\ from = F
  BY <1>1, <1>2 DEF Collected
<1>4. Graph(h, F, U, qs, d2, s2, w2, p2) /\ Collected(h, F, U, qs, d2, s2, w2, p2)'
  BY <1>2, <1>3
<1>5. Counted(bks, e, q)'
  BY <1>1 DEF Counted
<1>6. PICK A : A = h.allocs
  OBVIOUS
<1>7. /\ AllocsOK(A) /\ FromOK(A, F, Len(T)) /\ MovedOK(F, Len(T)) /\ ToOK(A, F, T, s, w)
      /\ T \in Seq(Copies) /\ Len(T) \in Nat
  BY <1>1, <1>6, GraphIs
<1>8. ToOK(A, F, U, s2, w2) /\ U \in Seq(Copies)
  BY <1>4, <1>6, GraphIs
<1>9. Len(U) = Len(T)
  <2>1. CASE to' = to
    BY <1>3, <2>1
  <2>2. CASE \E k, n, x : to' = [to EXCEPT ![k].body[n] = x]
    <3>0. PICK k, n, x : to' = [to EXCEPT ![k].body[n] = x]
      BY ONLY <2>2, Zenon
    <3>1. U = [T EXCEPT ![k].body[n] = x]
      BY ONLY <1>3, <3>0
    <3>2. T \in Seq(Copies)
      BY ONLY <1>7
    <3>3. LET g == [T EXCEPT ![k].body[n] = x] IN g \in Seq(Copies) => Len(g) = Len(T)
      BY ONLY <3>2, LengthKept
    <3>4. U \in Seq(Copies)
      BY ONLY <1>8
    <3> QED
      BY ONLY <3>1, <3>3, <3>4
  <2> QED
    BY <2>1, <2>2
<1>10. TotalSize(U) = TotalSize(T)
  <2>1. PICK N \in Nat : N = Len(T)
    BY <1>7
  <2>2. Len(F) = Len(A) /\ MovedOK(F, N) /\ Len(T) = N /\ Len(U) = N
    BY <1>7, <1>9, <2>1 DEF FromOK
  <2> QED
    BY ONLY <1>7, <1>8, <2>2, N \in Nat, SameSizes
<1>11. SpaceOK(h.allocs, F, U, bks)
  BY <1>1, <1>10 DEF SpaceOK
<1>12. ~Pending(h.allocs, F, T, rs, d, s, w, p, bks)
  BY <1>1, PendingMove
<1>13. p2 = "done" /\ q = "asked" => UsedWords(bks) = e
  BY <1>1, <1>3 DEF Counted
<1>14. FirstOK(h, F, U, qs, d2, s2, w2, p2, bks, e, q)
  <2>1. p \notin Stopped
    BY <1>1 DEF Collected
  <2> QED
    BY ONLY <1>1, <1>12, <1>13, <2>1 DEF FirstOK
<1> QED
  BY ONLY <1>4, <1>5, <1>11, <1>14, SpaceConcluded

LEMMA SlotReplaced ==
    ASSUME NEW v, Replace(v, to), AtValue
    PROVE  /\ to' = to \/ \E k, n, x : to' = [to EXCEPT ![k].body[n] = x]
           /\ phase # "done" /\ phase \notin Stopped
  BY DEF Replace, AtValue, Stopped

LEMMA SpaceSkip == SpaceInv /\ Skip => SpaceInv'
<1> SUFFICES ASSUME SpaceInv, Skip PROVE SpaceInv'
  OBVIOUS
<1>1. GraphInv'
  BY SpaceHasGraph, GraphSkip
<1>2. /\ ~AtMove /\ UNCHANGED <<before, from, buckets, estimate, squeeze, phase>>
      /\ Replace(Current, to) /\ AtValue
  BY DEF Skip, AtMove
<1> QED
  BY <1>1, <1>2, SlotReplaced, SpaceUnmoved

LEMMA SpaceForward == SpaceInv /\ Forward => SpaceInv'
<1> SUFFICES ASSUME SpaceInv, Forward PROVE SpaceInv'
  OBVIOUS
<1>1. GraphInv'
  BY SpaceHasGraph, GraphForward
<1>2. /\ ~AtMove /\ UNCHANGED <<before, from, buckets, estimate, squeeze, phase>>
      /\ Replace(To(from[Current[2]].moved), to) /\ AtValue
  BY DEF Forward, AtMove
<1> QED
  BY <1>1, <1>2, SlotReplaced, SpaceUnmoved

LEMMA SpaceRootsDone == SpaceInv /\ RootsDone => SpaceInv'
<1> SUFFICES ASSUME SpaceInv, RootsDone PROVE SpaceInv'
  OBVIOUS
<1>1. GraphInv'
  BY SpaceHasGraph, GraphRootsDone
<1>2. ~(rootsDone < Len(roots))
  <2>1. Len(roots) \in Nat
    BY GraphIs DEF SpaceInv, Collected
  <2>2. rootsDone = Len(roots)
    BY DEF RootsDone
  <2> QED
    BY ONLY <2>1, <2>2
<1>3. ~AtMove
  BY <1>2 DEF AtMove, AtValue, RootsDone
<1>4. /\ UNCHANGED <<before, from, buckets, estimate, squeeze>> /\ to' = to
      /\ phase' = "scan" /\ phase \notin Stopped
  BY DEF RootsDone, Stopped
<1> QED
  BY <1>1, <1>3, <1>4, SpaceUnmoved

LEMMA SpaceNextAllocation == SpaceInv /\ NextAllocation => SpaceInv'
<1> SUFFICES ASSUME SpaceInv, NextAllocation PROVE SpaceInv'
  OBVIOUS
<1>1. GraphInv'
  BY SpaceHasGraph, GraphNextAllocation
<1>2. ~AtMove
  BY DEF AtMove, AtValue, NextAllocation
<1>3. /\ UNCHANGED <<before, from, buckets, estimate, squeeze>> /\ to' = to
      /\ phase' = "scan" /\ phase \notin Stopped
  BY DEF NextAllocation, Stopped
<1> QED
  BY <1>1, <1>2, <1>3, SpaceUnmoved

LEMMA SpaceAdopt == SpaceInv /\ Adopt => SpaceInv'
<1> SUFFICES ASSUME SpaceInv, Adopt PROVE SpaceInv'
  OBVIOUS
<1>1. GraphInv'
  BY SpaceHasGraph, GraphAdopt
<1>2. ~(scanned < Len(to))
  <2>1. Len(to) \in Nat
    BY GraphIs DEF SpaceInv, Collected
  <2>2. scanned = Len(to)
    BY DEF Adopt, AllScanned
  <2> QED
    BY ONLY <2>1, <2>2
<1>3. ~AtMove
  BY <1>2 DEF AtMove, AtValue, HasWord, Adopt, AllScanned
<1>4. UNCHANGED <<before, from, buckets, estimate, squeeze>> /\ to' = to /\ phase \notin Stopped
  BY DEF Adopt, AllScanned, Stopped
<1>5. squeeze = "asked" => UsedWords(buckets) = estimate
  BY DEF Adopt, SqueezeAgain
<1> QED
  BY <1>1, <1>3, <1>4, <1>5, SpaceUnmoved


LEMMA SpaceOpenBucket == SpaceInv /\ OpenBucket => SpaceInv'
<1> SUFFICES ASSUME SpaceInv, OpenBucket PROVE SpaceInv'
  OBVIOUS
<1>1. PICK h, F, T, rs, d, s, w, p, bks, e, q :
         /\ Collected(h, F, T, rs, d, s, w, p) /\ Counted(bks, e, q)
         /\ Graph(h, F, T, rs, d, s, w, p)
         /\ SpaceOK(h.allocs, F, T, bks)
         /\ FirstOK(h, F, T, rs, d, s, w, p, bks, e, q)
  BY DEF SpaceInv
<1>2. PICK v, A : v = Current /\ A = h.allocs
  OBVIOUS
<1>3. /\ AtValue /\ IsFrom(v) /\ F[v[2]].moved = 0 /\ p \in {"roots", "scan"}
      /\ ~(HeadFits(v[2]) /\ ChainFits(v[2]))
  BY <1>1, <1>2 DEF OpenBucket, AtMisfit, AtMove, AtValue, Collected
<1>4. At(T, rs, d, s, w, p, v)
  BY <1>1, <1>2, <1>3, AtCurrent
<1>5. AllocsOK(A) /\ FromOK(A, F, Len(T)) /\ TargetOK(A, F, v[2])
  BY <1>1, <1>2, <1>3, <1>4, GraphIs, CurrentIs
<1>6. /\ bks \in Seq(Bucket) /\ Len(bks) \in Nat \ {0} /\ UsedWords(bks) \in Nat
      /\ UsedWords(bks) <= MaxHeapWords
  BY <1>1, <1>2, <1>5, SpaceIs
<1>7. PICK left : left = SpaceLeft(bks)
  OBVIOUS
<1>8. left \in Int
  <2>1. Len(bks) \in 1 .. Len(bks)
    BY ONLY <1>6
  <2>2. bks[Len(bks)] \in Bucket
    BY ONLY <1>6, <2>1, ElementOfSeq
  <2>3. Last(bks) = bks[Len(bks)]
    BY DEF Last
  <2> QED
    BY <1>7, <2>2, <2>3 DEF SpaceLeft, Bucket
<1>9. PICK j, n : j = v[2] /\ n = Len(Visible(A, j)) + 1
  OBVIOUS
<1>10. MinRequired(j) \in Nat /\ left < n
  <2>1. PICK size : size = Len(T)
    OBVIOUS
  <2>2. F = from /\ left = SpaceLeft(buckets)
    BY <1>1, <1>7 DEF Collected, Counted
  <2>3. /\ AllocsOK(A) /\ FromOK(A, F, size) /\ TargetOK(A, F, j)
        /\ ~(HeadFits(j) /\ ChainFits(j))
    BY <1>3, <1>5, <1>9, <2>1
  <2>4. MinRequired(j) \in Nat /\ left < Len(Visible(A, j)) + 1
    BY ONLY <1>8, <2>2, <2>3, MisfitIs
  <2> QED
    BY ONLY <1>9, <2>4
<1>11. PICK m \in Nat : m = MinRequired(j)
  BY <1>10
<1>12. PICK c : c = NewBucket(bks, BucketWords, m)
  OBVIOUS
<1>13. /\ c \in Seq(Bucket) /\ Len(c) = Len(bks) + 1 /\ UsedWords(c) = UsedWords(bks)
       /\ c[1] = bks[1]
  <2>1. BucketWords \in Nat
    BY Constants
  <2>2. Opened(bks, BucketWords, m, c)
    <3>1. bks \in Seq(Bucket) /\ UsedWords(bks) <= MaxHeapWords
      BY ONLY <1>6
    <3>2. Opened(bks, BucketWords, m, NewBucket(bks, BucketWords, m))
      BY ONLY <3>1, <2>1, m \in Nat, BucketOpened
    <3> QED
      BY ONLY <1>12, <3>2
  <2>3. 1 \in 1 .. Len(bks)
    BY ONLY <1>6
  <2> QED
    BY ONLY <2>2, <2>3 DEF Opened
<1>14. buckets' = c
  BY <1>1, <1>2, <1>9, <1>11, <1>12 DEF OpenBucket, Counted
<1>15. PICK p2 : p2 = phase' /\ (p2 = p \/ p2 = "overrun")
  <2>1. phase' = phase \/ phase' = "overrun"
    BY DEF OpenBucket, AfterWriting
  <2> QED
    BY <1>1, <2>1 DEF Collected
<1>16. Counted(c, e, q)' /\ Collected(h, F, T, rs, d, s, w, p2)'
  BY <1>1, <1>14, <1>15 DEF OpenBucket, Counted, Collected
<1>17. Graph(h, F, T, rs, d, s, w, p2)
  <2>1. PhaseOK(h.roots, T, d, s, w, p)
    BY <1>1, GraphIs
  <2>2. PhaseOK(h.roots, T, d, s, w, p2)
    BY ONLY <1>15, <2>1 DEF PhaseOK
  <2> QED
    BY ONLY <1>1, <2>2 DEF Graph
<1>18. SpaceOK(h.allocs, F, T, c)
  <2>1. Len(c) > 0
    BY ONLY <1>6, <1>13
  <2> QED
    BY ONLY <1>1, <1>13, <2>1 DEF SpaceOK
<1>19. UsedWords(c) > c[1].capacity \/ Pending(h.allocs, F, T, rs, d, s, w, p, c)
  <2>1. CASE Len(bks) > 1
    BY ONLY <1>1, <1>3, <1>13, <2>1 DEF FirstOK, Pending, Stopped
  <2>2. CASE ~(Len(bks) > 1)
    <3>1. Len(bks) = 1
      BY ONLY <1>6, <2>2
    <3>2. SpaceLeft(bks) = bks[1].capacity - UsedWords(bks) /\ bks[1].capacity \in 0 .. MaxHeapWords
      BY ONLY <1>6, <3>1, SingleBucket
    <3>3. PICK a, b : a = bks[1].capacity /\ b = UsedWords(bks)
      OBVIOUS
    <3>4. a \in Nat /\ b \in Nat /\ left = a - b
      BY <1>6, <1>7, <3>2, <3>3, Constants
    <3>5. n \in Nat
      <4>1. PICK V : V = Visible(A, j)
        OBVIOUS
      <4>2. V \in Seq(Value)
        BY <1>5, <1>9, <4>1, VisibleIs DEF TargetOK
      <4>3. Len(V) + 1 \in Nat
        BY ONLY <4>2
      <4> QED
        BY <1>9, <4>1, <4>3
    <3>6. b + n > a
      BY ONLY <1>10, <3>4, <3>5
    <3>7. UsedWords(c) + (Len(Visible(A, v[2])) + 1) > c[1].capacity
      BY ONLY <1>9, <1>13, <3>3, <3>6
    <3> QED
      BY ONLY <1>2, <1>3, <1>4, <3>7 DEF Pending
  <2> QED
    BY <2>1, <2>2
<1>20. FirstOK(h, F, T, rs, d, s, w, p2, c, e, q)
  BY ONLY <1>1, <1>3, <1>13, <1>15, <1>19 DEF FirstOK, Stopped
<1> QED
  BY ONLY <1>18, <1>20, <1>16, <1>17, SpaceConcluded

LEMMA SpaceMergeTooLarge == SpaceInv /\ MergeTooLarge => SpaceInv'
<1> SUFFICES ASSUME SpaceInv, MergeTooLarge PROVE SpaceInv'
  OBVIOUS
<1>1. PICK h, F, T, rs, d, s, w, p, bks, e, q :
         /\ Collected(h, F, T, rs, d, s, w, p) /\ Counted(bks, e, q)
         /\ Graph(h, F, T, rs, d, s, w, p)
         /\ SpaceOK(h.allocs, F, T, bks)
         /\ FirstOK(h, F, T, rs, d, s, w, p, bks, e, q)
  BY DEF SpaceInv
<1>2. PICK p2 : p2 = phase'
  OBVIOUS
<1>3. p2 \in Stopped
  BY <1>2 DEF MergeTooLarge, Stopped
<1>4. Counted(bks, e, q)' /\ Collected(h, F, T, rs, d, s, w, p2)'
  BY <1>1, <1>2 DEF MergeTooLarge, Counted, Collected
<1>5. Graph(h, F, T, rs, d, s, w, p2)
  <2>1. PhaseOK(h.roots, T, d, s, w, p)
    BY <1>1, GraphIs
  <2>2. PhaseOK(h.roots, T, d, s, w, p2)
    BY ONLY <1>3, <2>1 DEF PhaseOK, Stopped
  <2> QED
    BY ONLY <1>1, <2>2 DEF Graph
<1>6. FirstOK(h, F, T, rs, d, s, w, p2, bks, e, q)
  BY ONLY <1>1, <1>3 DEF FirstOK, Stopped
<1> QED
  BY ONLY <1>1, <1>4, <1>5, <1>6, SpaceConcluded

LEMMA SpaceMove == SpaceInv /\ Move => SpaceInv'
<1> SUFFICES ASSUME SpaceInv, Move PROVE SpaceInv'
  OBVIOUS
<1>1. PICK h, F, T, rs, d, s, w, p, bks, e, q :
         /\ Collected(h, F, T, rs, d, s, w, p) /\ Counted(bks, e, q)
         /\ Graph(h, F, T, rs, d, s, w, p)
         /\ SpaceOK(h.allocs, F, T, bks)
         /\ FirstOK(h, F, T, rs, d, s, w, p, bks, e, q)
  BY DEF SpaceInv
<1>2. PICK v, A : v = Current /\ A = h.allocs
  OBVIOUS
<1>3. AtValue /\ IsFrom(v) /\ F[v[2]].moved = 0 /\ p \in {"roots", "scan"}
  BY <1>1, <1>2 DEF Move, AtMove, AtValue, Collected
<1>4. At(T, rs, d, s, w, p, v)
  BY <1>1, <1>2, <1>3, AtCurrent
<1>5. PICK j : j = v[2]
  OBVIOUS
<1>6. /\ AllocsOK(A) /\ FromOK(A, F, Len(T)) /\ MovedOK(F, Len(T)) /\ ToOK(A, F, T, s, w)
      /\ TargetOK(A, F, j) /\ T \in Seq(Copies) /\ Len(T) \in Nat /\ s \in 0 .. Len(T)
      /\ w \in Nat /\ (w = 0 \/ s < Len(T))
  BY <1>1, <1>2, <1>3, <1>4, <1>5, GraphIs, CurrentIs DEF PhaseOK
<1>7. PICK x : x = [kind |-> F[j].kind, body |-> Compacted(F, j).body]
  OBVIOUS
<1>8. PICK G : G = Marked(F, j, Len(T) + 1)
  OBVIOUS
<1>9. PICK h2, G2, U, qs, d2, s2, w2, p2 :
         Collected(h2, G2, U, qs, d2, s2, w2, p2)' /\ Graph(h2, G2, U, qs, d2, s2, w2, p2)
  <2>1. GraphInv'
    BY SpaceHasGraph, GraphMove
  <2> QED
    BY <2>1, GraphAfter
<1>10. h2 = h /\ G2 = G /\ to' = U /\ phase' = p2 /\ p2 # "done"
  <2>1. from' = [CutStorage(from, Current[2]) EXCEPT ![Current[2]].moved = Len(to) + 1]
    BY DEF Move
  <2>2. from' = G
    BY <1>1, <1>2, <1>5, <1>8, <2>1 DEF Marked, Collected
  <2>3. phase' # "done" /\ before' = before
    BY <1>1, <1>3 DEF Move, Collected, AfterWriting
  <2> QED
    BY <1>1, <1>9, <2>2, <2>3 DEF Collected
<1>11. Graph(h, G, U, qs, d2, s2, w2, p2) /\ Collected(h, G, U, qs, d2, s2, w2, p2)'
  BY <1>9, <1>10
<1>12. ToOK(A, G, U, s2, w2) /\ U \in Seq(Copies)
  BY <1>2, <1>11, GraphIs
<1>13. PICK T1 : T1 = Append(T, x)
  OBVIOUS
<1>14. /\ T1 \in Seq(Copies) /\ Len(T1) = Len(T) + 1
  <2>1. x \in Copies
    BY <1>3, <1>5, <1>6, <1>7, <1>8, MovedTo
  <2>2. Append(T, x) \in Seq(Copies) /\ Len(Append(T, x)) = Len(T) + 1
    BY ONLY <1>6, <2>1, AppendProperties
  <2> QED
    BY ONLY <1>13, <2>2
<1>15. Len(U) = Len(T) + 1
  <2>1. Replace(To(Len(T) + 1), T1)
    BY <1>1, <1>2, <1>5, <1>7, <1>13 DEF Move, Collected
  <2>2. CASE to' = T1
    BY <1>10, <1>14, <2>2
  <2>3. CASE to' = [T1 EXCEPT ![scanned + 1].body[word + 1] = To(Len(T) + 1)]
    <3>1. PICK k, y, z : k = scanned + 1 /\ y = word + 1 /\ z = To(Len(T) + 1)
      OBVIOUS
    <3>2. U = [T1 EXCEPT ![k].body[y] = z]
      BY <1>10, <2>3, <3>1
    <3>3. T1 \in Seq(Copies)
      BY ONLY <1>14
    <3>4. LET g == [T1 EXCEPT ![k].body[y] = z] IN g \in Seq(Copies) => Len(g) = Len(T1)
      BY ONLY <3>3, LengthKept
    <3>5. U \in Seq(Copies)
      BY ONLY <1>12
    <3>6. Len(U) = Len(T1)
      BY ONLY <3>2, <3>4, <3>5
    <3> QED
      BY ONLY <1>14, <3>6
  <2> QED
    BY <2>1, <2>2, <2>3 DEF Replace
<1>16. PICK c : c = Fill(bks, Size(x))
  OBVIOUS
<1>17. /\ SpaceOK(A, G, U, c)
       /\ UsedWords(c) = UsedWords(bks) + (Len(Visible(A, j)) + 1)
       /\ Len(c) = Len(bks) /\ c[1].capacity = bks[1].capacity
  <2>1. SpaceOK(A, F, T, bks) /\ F[j].moved = 0
    BY <1>1, <1>2, <1>3, <1>5
  <2> QED
    BY <1>6, <1>7, <1>8, <1>12, <1>15, <1>16, <2>1, MoveSpace
<1>18. buckets' = c
  <2>1. Compacted(from, Current[2]).body = Compacted(F, j).body /\ from[Current[2]].kind = F[j].kind
    BY <1>1, <1>2, <1>5 DEF Collected
  <2> QED
    BY <1>1, <1>7, <1>16, <2>1 DEF Move, Counted
<1>19. Counted(c, e, q)'
  BY <1>1, <1>18 DEF Move, Counted
<1>20. UsedWords(bks) \in Nat /\ bks[1].capacity \in Nat /\ Len(Visible(A, j)) + 1 \in Nat
  <2>1. UsedWords(bks) \in Nat /\ bks[1].capacity \in 0 .. MaxHeapWords
    BY <1>1, <1>2, <1>6, SpaceIs
  <2>2. PICK V : V = Visible(A, j)
    OBVIOUS
  <2>3. V \in Seq(Value)
    BY <1>6, <2>2, VisibleIs DEF TargetOK
  <2>4. Len(V) + 1 \in Nat
    BY ONLY <2>3
  <2> QED
    BY <2>1, <2>2, <2>4, Constants
<1>21. Len(c) > 1 => UsedWords(c) > c[1].capacity
  <2> SUFFICES ASSUME Len(c) > 1 PROVE UsedWords(c) > c[1].capacity
    OBVIOUS
  <2>1. UsedWords(bks) > bks[1].capacity \/ Pending(A, F, T, rs, d, s, w, p, bks)
    BY <1>1, <1>2, <1>3, <1>17 DEF FirstOK, Stopped
  <2>2. CASE UsedWords(bks) > bks[1].capacity
    BY ONLY <1>17, <1>20, <2>2
  <2>3. CASE Pending(A, F, T, rs, d, s, w, p, bks)
    <3>1. PICK u : /\ At(T, rs, d, s, w, p, u)
                   /\ UsedWords(bks) + (Len(Visible(A, u[2])) + 1) > bks[1].capacity
      BY <2>3 DEF Pending
    <3>2. u = v
      BY ONLY <1>4, <3>1, AtOneValue
    <3> QED
      BY ONLY <1>5, <1>17, <3>1, <3>2
  <2> QED
    BY <2>1, <2>2, <2>3
<1>22. FirstOK(h, G, U, qs, d2, s2, w2, p2, c, e, q)
  BY ONLY <1>1, <1>10, <1>17, <1>21 DEF FirstOK
<1> QED
  BY ONLY <1>2, <1>11, <1>17, <1>19, <1>22, SpaceConcluded


LEMMA SpaceSqueeze == SpaceInv /\ Squeeze => SpaceInv'
<1> SUFFICES ASSUME SpaceInv, Squeeze PROVE SpaceInv'
  OBVIOUS
<1>1. PICK h, F, T, rs, d, s, w, p, bks, e, q :
         /\ Collected(h, F, T, rs, d, s, w, p) /\ Counted(bks, e, q)
         /\ Graph(h, F, T, rs, d, s, w, p)
         /\ SpaceOK(h.allocs, F, T, bks)
         /\ FirstOK(h, F, T, rs, d, s, w, p, bks, e, q)
  BY DEF SpaceInv
<1>2. p = "scan" /\ s = Len(T) /\ to = T /\ roots = rs
  BY <1>1 DEF Collected, Squeeze, AllScanned
<1>3. PICK B, Q : B = RenamedHeap(T) /\ Q = RenamedAll(rs)
  OBVIOUS
<1>4. PICK g : g = [allocs |-> B, roots |-> Q]
  OBVIOUS
<1>5. WellFormed(g) /\ g.allocs = B /\ g.roots = Q
  BY <1>1, <1>2, <1>3, <1>4, RenamedStep
<1>6. PICK A : A = h.allocs
  OBVIOUS
<1>7. AllocsOK(A)
  BY <1>1, <1>6, GraphIs
<1>8. PICK size \in Nat : size = UsedWords(bks)
  BY <1>1, <1>6, <1>7, SpaceIs
<1>9. size = TotalSize(T) /\ size <= MaxHeapWords
  BY <1>1, <1>6, <1>7, <1>8, SpaceIs DEF SpaceOK
<1>10. Graph(h, F, T, rs, d, s, w, "scan") /\ s = Len(T)
  BY ONLY <1>1, <1>2
<1>11. AllocsOK(B) /\ TotalSize(B) = TotalSize(T) /\ Compact(B)
  BY <1>3, <1>10, SqueezedWhole
<1>12. Live(g) = DOMAIN g.allocs
  BY <1>3, <1>4, <1>10, SqueezedLive
<1>13. PICK c, e2 : c = FirstBuckets(size) /\ e2 = IF size = 0 THEN EmptyEstimate ELSE size
  OBVIOUS
<1>14. /\ from' = Untouched(B) /\ roots' = Q /\ before' = g /\ to' = << >>
       /\ rootsDone' = 0 /\ scanned' = 0 /\ word' = 0 /\ phase' = "roots"
  BY <1>2, <1>3, <1>4 DEF Squeeze, RenamedHeap
<1>15. buckets' = c /\ estimate' = e2 /\ squeeze' = "again"
  BY <1>1, <1>8, <1>13 DEF Squeeze, Counted
<1>16. Collected(g, Untouched(B), << >>, Q, 0, 0, 0, "roots")' /\ Counted(c, e2, "again")'
  BY <1>14, <1>15 DEF Collected, Counted
<1>17. Graph(g, Untouched(B), << >>, Q, 0, 0, 0, "roots")
  BY ONLY <1>5, FreshStep
<1>18. SpaceOK(g.allocs, Untouched(B), << >>, c)
  <2>1. TotalSize(B) <= MaxHeapWords
    BY ONLY <1>9, <1>11
  <2>2. SpaceOK(B, Untouched(B), << >>, FirstBuckets(size))
    BY ONLY <1>11, <2>1, size \in Nat, FreshSpace
  <2> QED
    BY ONLY <1>5, <1>13, <2>2
<1>19. Len(c) = 1 /\ c[1].capacity = Min({e2, MaxHeapWords})
  BY <1>13, FirstBucket
<1>20. e2 \in Nat \ {0}
  BY <1>13, Constants
<1>21. SqueezedOK(g, e2)
  BY ONLY <1>5, <1>9, <1>11, <1>12, <1>13 DEF SqueezedOK
<1>22. FirstOK(g, Untouched(B), << >>, Q, 0, 0, 0, "roots", c, e2, "again")
  <2>1. ~(Len(c) > 1)
    BY ONLY <1>19
  <2> QED
    BY ONLY <1>19, <1>20, <1>21, <2>1 DEF FirstOK
<1> QED
  BY ONLY <1>16, <1>17, <1>18, <1>22, SpaceConcluded

LEMMA SpaceInit == Init => SpaceInv
<1> SUFFICES ASSUME Init PROVE SpaceInv
  OBVIOUS
<1>1. PICK h \in Heaps, size \in Estimates :
         /\ from = Untouched(h.allocs) /\ roots = h.roots /\ before = h
         /\ to = << >> /\ rootsDone = 0 /\ scanned = 0 /\ word = 0
         /\ phase = "roots" /\ buckets = FirstBuckets(size)
         /\ estimate = IF size = 0 THEN EmptyEstimate ELSE size
         /\ squeeze \in {"off", "asked"}
  BY DEF Init
<1>2. WellFormed(h) /\ TotalSize(h.allocs) <= MaxHeapWords /\ size \in Nat
  BY HeapAssumption, SizeAssumption, Constants
<1>3. PICK A, F, c, e : /\ A = h.allocs /\ F = Untouched(A) /\ c = FirstBuckets(size)
                        /\ e = IF size = 0 THEN EmptyEstimate ELSE size
  OBVIOUS
<1>4. Graph(h, F, << >>, h.roots, 0, 0, 0, "roots")
  BY <1>2, <1>3, FreshStep
<1>5. AllocsOK(A)
  BY <1>2, <1>3 DEF WellFormed, AllocsOK
<1>6. SpaceOK(h.allocs, F, << >>, c)
  <2>1. TotalSize(A) <= MaxHeapWords
    BY ONLY <1>2, <1>3
  <2>2. SpaceOK(A, Untouched(A), << >>, FirstBuckets(size))
    BY ONLY <1>2, <1>5, <2>1, FreshSpace
  <2> QED
    BY ONLY <1>3, <2>2
<1>7. Len(c) = 1 /\ c[1].capacity = Min({e, MaxHeapWords})
  BY <1>2, <1>3, FirstBucket
<1>8. e \in Nat \ {0}
  BY <1>2, <1>3, Constants
<1>9. FirstOK(h, F, << >>, h.roots, 0, 0, 0, "roots", c, e, squeeze)
  <2>1. ~(Len(c) > 1)
    BY ONLY <1>7
  <2> QED
    BY ONLY <1>1, <1>7, <1>8, <2>1 DEF FirstOK
<1>10. Collected(h, F, << >>, h.roots, 0, 0, 0, "roots") /\ Counted(c, e, squeeze)
  BY <1>1, <1>3 DEF Collected, Counted
<1> QED
  BY ONLY <1>4, <1>6, <1>9, <1>10 DEF SpaceInv

LEMMA SpaceStep == SpaceInv /\ [Next]_vars => SpaceInv'
<1> SUFFICES ASSUME SpaceInv, [Next]_vars PROVE SpaceInv'
  OBVIOUS
<1>1. CASE UNCHANGED vars
  BY <1>1 DEF vars, SpaceInv, Collected, Counted
<1> QED
  BY <1>1, SpaceSkip, SpaceForward, SpaceOpenBucket, SpaceMergeTooLarge, SpaceMove, SpaceRootsDone,
     SpaceNextAllocation, SpaceAdopt, SpaceSqueeze DEF Next

(* Every collection of a well-formed heap accounts for its words: the new  *)
(* heap and what is left of the old one take no more than the old one, and *)
(* a second bucket is opened only if the first cannot hold what moves.     *)
THEOREM SpaceInvariant == Spec => []SpaceInv
<1>1. Init => SpaceInv
  BY SpaceInit
<1>2. SpaceInv /\ [Next]_vars => SpaceInv'
  BY SpaceStep
<1> QED
  BY <1>1, <1>2, PTL DEF Spec


-----------------------------------------------------------------------------
(* What follows for the buckets.                                           *)

LEMMA SomeWords ==
    ASSUME NEW T \in Seq(Copies), T # << >>
    PROVE  TotalSize(T) > 0
<1>1. /\ Len(T) \in Nat /\ DOMAIN T = 1 .. Len(T)
      /\ \A k \in 1 .. Len(T) : Len(T[k].body) \in Nat
  BY CopySizes
<1>2. PICK N \in Nat : N = Len(T)
  BY <1>1
<1>3. PICK u : u = Sizes(T)
  OBVIOUS
<1>4. /\ u \in Seq(Nat) /\ Len(u) = N /\ TotalSize(T) = Total(u)
      /\ \A k \in 1 .. N : u[k] = Len(T[k].body) + 1
  <2>1. DOMAIN T = 1 .. N /\ \A k \in 1 .. N : Len(T[k].body) \in Nat
    BY ONLY <1>1, <1>2
  <2>2. /\ Sizes(T) \in Seq(Nat) /\ Len(Sizes(T)) = N /\ TotalSize(T) = Total(Sizes(T))
        /\ \A k \in 1 .. N : Sizes(T)[k] = Len(T[k].body) + 1
    BY ONLY <2>1, N \in Nat, SizesAre
  <2> QED
    BY ONLY <1>3, <2>2
<1>5. 1 \in 1 .. N
  BY <1>2
<1>6. u[1] \in Nat \ {0}
  BY <1>1, <1>2, <1>4, <1>5
<1>7. PICK t : t = [u EXCEPT ![1] = 0]
  OBVIOUS
<1>8. t \in Seq(Nat) /\ Total(t) + u[1] = Total(u) + 0
  <2>1. 1 \in 1 .. Len(u) /\ 0 \in Nat
    BY ONLY <1>4, <1>5
  <2>2. LET g == [u EXCEPT ![1] = 0] IN g \in Seq(Nat) /\ Total(g) + u[1] = Total(u) + 0
    BY ONLY <1>4, <2>1, TotalExcept
  <2> QED
    BY ONLY <1>7, <2>2
<1>9. Total(t) \in Nat /\ Total(u) \in Nat
  BY ONLY <1>4, <1>8, TotalType
<1>10. Total(u) > 0
  BY ONLY <1>6, <1>8, <1>9
<1> QED
  BY <1>4, <1>10

LEMMA LimitIsInvariant == SpaceInv => HeapLimit
<1> SUFFICES ASSUME SpaceInv, AtMisfit
             PROVE  UsedWords(buckets) + MinRequired(Current[2]) <= MaxHeapWords
  BY DEF HeapLimit
<1>1. PICK h, F, T, rs, d, s, w, p, bks, e, q :
         /\ Collected(h, F, T, rs, d, s, w, p) /\ Counted(bks, e, q)
         /\ Graph(h, F, T, rs, d, s, w, p)
         /\ SpaceOK(h.allocs, F, T, bks)
  BY DEF SpaceInv
<1>2. PICK v, A : v = Current /\ A = h.allocs
  OBVIOUS
<1>3. /\ AtValue /\ IsFrom(v) /\ F[v[2]].moved = 0
      /\ ~(HeadFits(v[2]) /\ ChainFits(v[2]))
  BY <1>1, <1>2 DEF AtMisfit, AtMove, Collected
<1>4. At(T, rs, d, s, w, p, v)
  BY <1>1, <1>2, <1>3, AtCurrent
<1>5. PICK j : j = v[2]
  OBVIOUS
<1>6. /\ AllocsOK(A) /\ FromOK(A, F, Len(T)) /\ TargetOK(A, F, j) /\ Len(T) \in Nat
      /\ F[j].moved = 0 /\ j \in 1 .. Len(A)
  BY <1>1, <1>2, <1>3, <1>4, <1>5, GraphIs, CurrentIs DEF TargetOK
<1>7. /\ bks \in Seq(Bucket) /\ Len(bks) \in Nat \ {0} /\ UsedWords(bks) \in Nat
      /\ Total(Unclaimed(A, F)) \in Nat
      /\ UsedWords(bks) + Total(Unclaimed(A, F)) <= MaxHeapWords
  BY <1>1, <1>2, <1>6, SpaceIs
<1>8. PICK left : left = SpaceLeft(bks)
  OBVIOUS
<1>9. left \in Int
  <2>1. Len(bks) \in 1 .. Len(bks)
    BY ONLY <1>7
  <2>2. bks[Len(bks)] \in Bucket
    BY ONLY <1>7, <2>1, ElementOfSeq
  <2>3. Last(bks) = bks[Len(bks)]
    BY DEF Last
  <2> QED
    BY <1>8, <2>2, <2>3 DEF SpaceLeft, Bucket
<1>10. PICK size : size = Len(T)
  OBVIOUS
<1>11. MinRequired(j) \in Nat /\ MinRequired(j) <= Len(Visible(A, j)) + 1
  <2>1. F = from /\ left = SpaceLeft(buckets)
    BY <1>1, <1>8 DEF Collected, Counted
  <2>2. /\ AllocsOK(A) /\ FromOK(A, F, size) /\ TargetOK(A, F, j)
        /\ ~(HeadFits(j) /\ ChainFits(j))
    BY <1>3, <1>5, <1>6, <1>10
  <2> QED
    BY ONLY <1>9, <2>1, <2>2, MisfitIs
<1>12. PICK G : G = Marked(F, j, 1)
  OBVIOUS
<1>13. Moves(A, F, G, j)
  <2>1. AllocsOK(A) /\ FromOK(A, F, size) /\ F[j].moved = 0 /\ j \in 1 .. Len(A) /\ 1 \in Nat
    BY <1>6, <1>10
  <2>2. LET H == Marked(F, j, 1)
        IN  \A i \in 1 .. Len(A) : H[i].moved = IF i = j THEN 1 ELSE F[i].moved
    BY <2>1, MarkedIs
  <2>3. \A i \in 1 .. Len(A) : G[i].moved = IF i = j THEN 1 ELSE F[i].moved
    BY ONLY <1>12, <2>2
  <2> QED
    BY ONLY <2>3 DEF Moves
<1>14. Pays(A, F, G, j)
  <2>1. AllocsOK(A) /\ FromOK(A, F, size) /\ TargetOK(A, F, j) /\ F[j].moved = 0
    BY <1>6, <1>10
  <2> QED
    BY ONLY <1>13, <2>1, MovePays
<1>15. Total(Unclaimed(A, G)) \in Nat
  BY <1>6, UnclaimedIs
<1>16. PICK n : n = Len(Visible(A, j)) + 1
  OBVIOUS
<1>17. n \in Nat
  <2>1. PICK V : V = Visible(A, j)
    OBVIOUS
  <2>2. V \in Seq(Value)
    BY <1>6, <2>1, VisibleIs
  <2>3. Len(V) + 1 \in Nat
    BY ONLY <2>2
  <2> QED
    BY <1>16, <2>1, <2>3
<1>18. PICK a, b, k, m : /\ a = UsedWords(bks) /\ b = Total(Unclaimed(A, F))
                         /\ k = Total(Unclaimed(A, G)) /\ m = MinRequired(j)
  OBVIOUS
<1>19. /\ a \in Nat /\ b \in Nat /\ k \in Nat /\ m \in Nat /\ m <= n /\ k + n <= b
       /\ a + b <= MaxHeapWords
  BY ONLY <1>7, <1>11, <1>14, <1>15, <1>16, <1>18 DEF Pays
<1>20. a + m <= MaxHeapWords
  BY <1>17, <1>19, Constants
<1> QED
  BY <1>1, <1>2, <1>5, <1>18, <1>20 DEF Counted

(* The assertion of gc_newBucket cannot fail: the new heap never needs     *)
(* more than the largest heap size, whatever is collected and whichever    *)
(* moves start over with the size of a merged object.                      *)
THEOREM LimitHolds == Spec => []HeapLimit
  BY SpaceInvariant, LimitIsInvariant, PTL

LEMMA ExactIsInvariant == SpaceInv => SqueezeIsExact
<1> SUFFICES ASSUME SpaceInv, phase = "done", squeeze # "off", to # << >>
             PROVE  Len(buckets) = 1 /\ SpaceLeft(buckets) = 0
  BY DEF SqueezeIsExact
<1>1. PICK h, F, T, rs, d, s, w, p, bks, e, q :
         /\ Collected(h, F, T, rs, d, s, w, p) /\ Counted(bks, e, q)
         /\ Graph(h, F, T, rs, d, s, w, p)
         /\ SpaceOK(h.allocs, F, T, bks)
         /\ FirstOK(h, F, T, rs, d, s, w, p, bks, e, q)
  BY DEF SpaceInv
<1>2. p = "done" /\ q # "off" /\ T # << >> /\ buckets = bks
  BY <1>1 DEF Collected, Counted
<1>3. PICK A, R : A = h.allocs /\ R = h.roots
  OBVIOUS
<1>4. /\ AllocsOK(A) /\ T \in Seq(Copies) /\ PhaseOK(R, T, d, s, w, p)
      /\ DOMAIN A = 1 .. Len(A) /\ Len(A) \in Nat
  BY <1>1, <1>3, GraphIs
<1>5. s = Len(T)
  BY <1>2, <1>4 DEF PhaseOK
<1>6. /\ bks \in Seq(Bucket) /\ Len(bks) \in Nat \ {0} /\ UsedWords(bks) \in Nat
      /\ UsedWords(bks) <= MaxHeapWords
  BY <1>1, <1>3, <1>4, SpaceIs
<1>7. UsedWords(bks) = TotalSize(T) /\ TotalSize(T) > 0
  BY <1>1, <1>2, <1>4, SomeWords DEF SpaceOK
<1>8. e \in Nat \ {0} /\ q \in {"off", "asked", "again"} /\ bks[1].capacity = Min({e, MaxHeapWords})
  BY <1>1 DEF FirstOK
<1>9. UsedWords(bks) = e
  <2>1. CASE q = "asked"
    BY <1>1, <1>2, <2>1 DEF FirstOK
  <2>2. CASE q = "again"
    <3>1. SqueezedOK(h, e)
      BY <1>1, <2>2 DEF FirstOK
    <3>2. {i \in 1 .. Len(A) : F[i].moved # 0} = Live(h)
      BY <1>1, <1>2, <1>3, <1>5, MovedAreLive
    <3>3. \A i \in 1 .. Len(A) : F[i].moved # 0
      BY <1>3, <1>4, <3>1, <3>2 DEF SqueezedOK
    <3>4. PICK u : u = Unclaimed(A, F)
      OBVIOUS
    <3>5. /\ u \in Seq(Nat) /\ Len(u) = Len(A)
          /\ \A i \in 1 .. Len(A) : u[i] = IF Claimed(A, F, i) THEN 0 ELSE Len(A[i].body) + 1
      BY <1>4, <3>4, UnclaimedIs
    <3>6. \A i \in 1 .. Len(u) : u[i] = 0
      BY <3>3, <3>5 DEF Claimed
    <3>7. Total(u) = 0
      BY ONLY <3>5, <3>6, TotalOfZeros
    <3>8. UsedWords(bks) + Total(u) = TotalSize(A)
      BY <1>1, <1>3, <3>1, <3>4 DEF SpaceOK, SqueezedOK
    <3>9. UsedWords(bks) = TotalSize(A)
      BY ONLY <1>6, <3>7, <3>8
    <3>10. e = IF TotalSize(A) = 0 THEN EmptyEstimate ELSE TotalSize(A)
      BY <1>3, <3>1 DEF SqueezedOK
    <3> QED
      BY ONLY <1>6, <1>7, <3>9, <3>10
  <2> QED
    BY <1>2, <1>8, <2>1, <2>2
<1>10. bks[1].capacity = UsedWords(bks)
  <2>1. e \in Nat /\ e <= MaxHeapWords /\ MaxHeapWords \in Nat
    BY <1>6, <1>8, <1>9, Constants
  <2>2. Min({e, MaxHeapWords}) = e
    BY ONLY <2>1, TwoNumbers
  <2> QED
    BY ONLY <1>8, <1>9, <2>2
<1>11. ~Pending(h.allocs, F, T, rs, d, s, w, p, bks)
  BY <1>2 DEF Pending, At
<1>12. ~(UsedWords(bks) > bks[1].capacity)
  BY ONLY <1>6, <1>10
<1>13. Len(bks) = 1
  <2>1. ~(Len(bks) > 1)
    BY <1>1, <1>2, <1>11, <1>12 DEF FirstOK, Stopped
  <2>2. PICK l : l = Len(bks)
    OBVIOUS
  <2>3. l \in Nat \ {0} /\ ~(l > 1)
    BY ONLY <1>6, <2>1, <2>2
  <2> QED
    BY ONLY <2>2, <2>3
<1>14. SpaceLeft(bks) = 0
  <2>1. SpaceLeft(bks) = bks[1].capacity - UsedWords(bks)
    BY ONLY <1>6, <1>13, SingleBucket
  <2> QED
    BY ONLY <1>6, <1>10, <2>1
<1> QED
  BY <1>2, <1>13, <1>14

(* A squeeze that leaves something leaves it in one bucket with no unused  *)
(* space, whatever the size after the last collection was: if the estimate *)
(* was wrong, the size that the first collection found is right for the    *)
(* second, because there is nothing left to drop, to merge or to cut.      *)
THEOREM SqueezeFits == Spec => []SqueezeIsExact
  BY SpaceInvariant, ExactIsInvariant, PTL

LEMMA TypeIsInvariant == SpaceInv => TypeOK
<1> SUFFICES ASSUME SpaceInv PROVE TypeOK
  OBVIOUS
<1>1. PICK h, F, T, rs, d, s, w, p, bks, e, q :
         /\ Collected(h, F, T, rs, d, s, w, p) /\ Counted(bks, e, q)
         /\ Graph(h, F, T, rs, d, s, w, p)
         /\ SpaceOK(h.allocs, F, T, bks)
         /\ FirstOK(h, F, T, rs, d, s, w, p, bks, e, q)
  BY DEF SpaceInv
<1>2. PICK A, R : A = h.allocs /\ R = h.roots
  OBVIOUS
<1>3. /\ AllocsOK(A) /\ FromOK(A, F, Len(T)) /\ PhaseOK(R, T, d, s, w, p)
      /\ T \in Seq(Copies) /\ Len(T) \in Nat
      /\ rs \in Seq(NewValue) /\ Len(rs) = Len(R) /\ d \in 0 .. Len(R)
      /\ s \in 0 .. Len(T) /\ w \in Nat
  BY <1>1, <1>2, GraphIs
<1>4. \A i \in DOMAIN F : F[i].kind \in Kinds /\ F[i].moved \in 0 .. Len(T)
  <2>1. DOMAIN F = 1 .. Len(A) /\ \A i \in 1 .. Len(A) : A[i].kind \in Kinds
    BY <1>3, AllocsAre DEF FromOK
  <2> QED
    BY ONLY <1>3, <2>1 DEF FromOK
<1>5. \A k \in DOMAIN T : T[k].kind \in Kinds
  BY <1>3, CopySizes, CopyTypes
<1>6. \A n \in DOMAIN rs : rs[n][1] \in {"prim", "null", "from", "to"}
  <2> SUFFICES ASSUME NEW n \in DOMAIN rs PROVE rs[n][1] \in {"prim", "null", "from", "to"}
    OBVIOUS
  <2>1. rs[n] \in NewValue
    BY ONLY <1>3, n \in DOMAIN rs
  <2> QED
    BY <2>1 DEF NewValue
<1>7. /\ w = 0 \/ (s < Len(T) /\ w \in 0 .. Len(T[s + 1].body))
      /\ p \in {"roots", "scan", "done", "fatal", "overrun"}
  <2>1. CASE w = 0
    BY <1>3, <2>1 DEF PhaseOK
  <2>2. CASE w # 0
    <3>1. s < Len(T) /\ w <= Len(T[s + 1].body) /\ p \in {"roots", "scan", "done", "fatal", "overrun"}
      BY <1>3, <2>2 DEF PhaseOK
    <3>2. Len(T[s + 1].body) \in Nat
      <4>1. s + 1 \in 1 .. Len(T)
        BY ONLY <1>3, <3>1
      <4> QED
        BY <1>3, <4>1, CopySizes
    <3> QED
      BY ONLY <1>3, <3>1, <3>2
  <2> QED
    BY <2>1, <2>2
<1>8. /\ bks # << >> /\ UsedWords(bks) = TotalSize(T)
      /\ \A b \in Range(bks) : b.capacity \in 0 .. MaxHeapWords
  <2>1. bks \in Seq(Bucket) /\ Len(bks) > 0 /\ UsedWords(bks) = TotalSize(T)
    BY <1>1 DEF SpaceOK
  <2>2. ASSUME NEW n \in DOMAIN bks
        PROVE  bks[n].capacity \in 0 .. MaxHeapWords
    <3>1. bks[n] \in Bucket
      BY ONLY <2>1, n \in DOMAIN bks
    <3> QED
      BY <3>1 DEF Bucket
  <2> QED
    BY <2>1, <2>2 DEF Range
<1>9. e \in Nat /\ q \in {"off", "asked", "again"}
  BY <1>1 DEF FirstOK
<1>10. d \in 0 .. Len(rs)
  BY <1>3
<1> QED
  BY <1>1, <1>3, <1>4, <1>5, <1>6, <1>7, <1>8, <1>9, <1>10 DEF TypeOK, Collected, Counted

(* The collector's own state stays in bounds, and the buckets account for  *)
(* every word that was moved.                                              *)
THEOREM TypeCorrect == Spec => []TypeOK
  BY SpaceInvariant, TypeIsInvariant, PTL

=============================================================================
