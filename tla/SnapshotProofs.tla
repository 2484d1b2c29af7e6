----------------------------- MODULE SnapshotProofs -----------------------------
(***************************************************************************)
(* Proofs about Snapshot for any number of globals, heaps of any size and  *)
(* buckets of any size: what a pointer leads to survives a snapshot, and a *)
(* snapshot on the device is a checkpoint of the program.                  *)
(***************************************************************************)
EXTENDS Snapshot, IntervalLemmas, SequenceTheorems, NaturalsInduction

(* What words there are.  Values are what a global or a slot holds.        *)
HeaderWord == {Header(type, bytes) : type \in {"container", "data"}, bytes \in {1, 2}}
Value      == {Num} \cup {Ptr(n) : n \in Nat}
Word       == HeaderWord \cup Value

Bucket == [at : Nat, start : Nat, room : Nat, words : Seq(Word)]

(* The words that are headers, and where it is known that the walk finds   *)
(* them: a header word is followed by the word of its allocation, and the  *)
(* other words follow one.                                                 *)
Tagged(words) == {i \in DOMAIN words : words[i][1] = "header"}

Parsed(words) ==
    /\ \A h \in Tagged(words) :
          words[h] \in HeaderWord /\ h + 1 \in DOMAIN words /\ words[h + 1] \in Value
    /\ \A i \in DOMAIN words \ Tagged(words) : i - 1 \in Tagged(words)

LEMMA HeaderWords ==
    ASSUME NEW w \in HeaderWord
    PROVE  /\ w[1] = "header" /\ w \notin Value /\ ~IsPtr(w)
           /\ w[2] \in {"container", "data"} /\ w[3] \in {1, 2}
           /\ Words(w[3], 1) = 1
           /\ Words(w[3], 0) = IF w[3] = 2 THEN 1 ELSE 0
BY DEF HeaderWord, Header, IsPtr, Words, Value, Num, Ptr

LEMMA Values ==
    ASSUME NEW w \in Value
    PROVE  /\ w[1] # "header"
           /\ IsPtr(w) => w[2] \in Nat /\ w = Ptr(w[2])
           /\ w \notin HeaderWord
           /\ w \in Word
BY DEF Value, Num, Ptr, IsPtr, HeaderWord, Header, Word

LEMMA NumAndPtr ==
    /\ Num \in Value /\ ~IsPtr(Num)
    /\ \A n : IsPtr(Ptr(n)) /\ Ptr(n)[2] = n
    /\ \A n \in Nat : Ptr(n) \in Value
BY DEF Value, Num, Ptr, IsPtr

LEMMA TaggedAreHeaderWords ==
    ASSUME NEW words \in Seq(Word)
    PROVE  /\ Tagged(words) = {h \in DOMAIN words : words[h] \in HeaderWord}
           /\ Tagged(words) \subseteq 1 .. Len(words)
<1>1. \A i \in DOMAIN words : words[i] \in Word
  OBVIOUS
<1>2. \A w \in Word : w[1] = "header" <=> w \in HeaderWord
  BY HeaderWords, Values DEF Word
<1> QED
  BY <1>1, <1>2 DEF Tagged

(* The walk finds the header words: from the first word on, and from each  *)
(* header, it comes to a header or to the end.                             *)
LEMMA WalkFindsHeaders ==
    ASSUME NEW words \in Seq(Word), Parsed(words)
    PROVE  Headers(words) = Tagged(words)
<1> DEFINE Next1(p) == p + 1 + Words(words[p][3], 1)
           F(p) == IF p \in DOMAIN words THEN {p} \cup {q \in Tagged(words) : q > p} ELSE {}
           f == [p \in Nat |-> F(p)]
           g == CHOOSE s : s = [p \in Nat |-> IF p \in DOMAIN words THEN {p} \cup s[Next1(p)] ELSE {}]
<1>1. Len(words) \in Nat /\ DOMAIN words = 1 .. Len(words) /\ Tagged(words) \subseteq 1 .. Len(words)
  BY TaggedAreHeaderWords
<1>2. \A p \in Tagged(words) : /\ Next1(p) = p + 2
                               /\ p + 1 \in DOMAIN words /\ p + 1 \notin Tagged(words)
  <2> SUFFICES ASSUME NEW p \in Tagged(words)
               PROVE  Next1(p) = p + 2 /\ p + 1 \in DOMAIN words /\ p + 1 \notin Tagged(words)
    OBVIOUS
  <2>1. words[p] \in HeaderWord /\ p + 1 \in DOMAIN words /\ words[p + 1] \in Value
    BY DEF Parsed
  <2>2. Words(words[p][3], 1) = 1 /\ words[p + 1][1] # "header"
    BY <2>1, HeaderWords, Values
  <2>3. p \in Nat
    BY <1>1
  <2> QED
    BY <2>1, <2>2, <2>3 DEF Tagged
<1>3. \A p \in DOMAIN words \ Tagged(words) : Next1(p) = p + 1
  <2> SUFFICES ASSUME NEW p \in DOMAIN words, p \notin Tagged(words)
               PROVE  Next1(p) = p + 1
    OBVIOUS
  <2>1. words[p] \in Value
    BY TaggedAreHeaderWords DEF Word
  <2>2. words[p][3] = 0
    BY <2>1 DEF Value, Num, Ptr
  <2>3. Words(0, 1) = 0 /\ p \in Nat
    BY <1>1 DEF Words
  <2> QED
    BY <2>2, <2>3
<1>4. \A p \in DOMAIN words : Next1(p) \in Nat /\ Next1(p) > p
  BY <1>1, <1>2, <1>3
<1>5. \A p \in DOMAIN words \ Tagged(words) : p + 1 \in DOMAIN words => p + 1 \in Tagged(words)
  <2> SUFFICES ASSUME NEW p \in DOMAIN words, p \notin Tagged(words),
                      p + 1 \in DOMAIN words, p + 1 \notin Tagged(words)
               PROVE  FALSE
    OBVIOUS
  <2>1. (p + 1) - 1 = p /\ p + 1 \in DOMAIN words \ Tagged(words)
    BY <1>1
  <2> QED
    BY <2>1 DEF Parsed
<1>6. \A p \in DOMAIN words : F(p) = {p} \cup F(Next1(p))
  <2> SUFFICES ASSUME NEW p \in DOMAIN words PROVE F(p) = {p} \cup F(Next1(p))
    OBVIOUS
  <2>1. CASE p \in Tagged(words)
    <3>1. Next1(p) = p + 2 /\ p + 1 \notin Tagged(words) /\ p + 1 \in DOMAIN words
      BY <1>2, <2>1
    <3>2. p + 2 \in DOMAIN words => p + 2 \in Tagged(words)
      <4>1. p + 1 + 1 = p + 2
        BY <1>1
      <4> QED
        BY <1>5, <3>1, <4>1
    <3>3. {q \in Tagged(words) : q > p} = F(p + 2)
      BY <1>1, <3>1, <3>2
    <3> QED
      BY <3>1, <3>3
  <2>2. CASE p \notin Tagged(words)
    <3>1. {q \in Tagged(words) : q > p} = F(p + 1)
      BY <1>1, <1>5, <2>2
    <3> QED
      BY <1>3, <2>2, <3>1
  <2> QED
    BY <2>1, <2>2
<1> HIDE DEF Next1
<1>7. f = [p \in Nat |-> IF p \in DOMAIN words THEN {p} \cup f[Next1(p)] ELSE {}]
  <2>1. ASSUME NEW p \in Nat
        PROVE  F(p) = IF p \in DOMAIN words THEN {p} \cup f[Next1(p)] ELSE {}
    <3>1. CASE p \in DOMAIN words
      <4>1. f[Next1(p)] = F(Next1(p))
        BY <1>4, <3>1
      <4> HIDE DEF f, F
      <4> QED
        BY <1>6, <3>1, <4>1
    <3>2. CASE p \notin DOMAIN words
      BY <3>2
    <3> QED
      BY <3>1, <3>2
  <2> HIDE DEF F
  <2> QED
    BY <2>1
<1>8. g = [p \in Nat |-> IF p \in DOMAIN words THEN {p} \cup g[Next1(p)] ELSE {}]
  <2> HIDE DEF f
  <2> QED
    BY <1>7
<1> HIDE DEF g, f
<1>9. \A p \in Nat : g[p] = IF p \in DOMAIN words THEN {p} \cup g[Next1(p)] ELSE {}
  BY <1>8
<1>10. \A p \in Nat : p \notin DOMAIN words => g[p] = F(p)
  BY <1>9
<1> DEFINE T == {p \in 1 .. Len(words) : g[p] = F(p)}
<1>11. T = 1 .. Len(words)
  <2>1. ASSUME NEW p \in 1 .. Len(words), \A k \in p + 1 .. Len(words) : k \in T
        PROVE  p \in T
    <3>1. p \in DOMAIN words /\ p \in Nat /\ Next1(p) \in Nat /\ Next1(p) > p
      BY <1>1, <1>4
    <3>2. g[Next1(p)] = F(Next1(p))
      <4> HIDE DEF F
      <4>1. CASE Next1(p) \in DOMAIN words
        <5>1. Next1(p) \in p + 1 .. Len(words)
          BY <1>1, <3>1, <4>1
        <5> QED
          BY <2>1, <5>1
      <4>2. CASE Next1(p) \notin DOMAIN words
        BY <1>10, <3>1, <4>2
      <4> QED
        BY <4>1, <4>2
    <3> HIDE DEF F
    <3> QED
      BY <1>6, <1>9, <3>1, <3>2
  <2>2. T \in SUBSET (1 .. Len(words))
    OBVIOUS
  <2> HIDE DEF T
  <2> QED
    BY <1>1, <2>1, <2>2, IntervalDownwards
<1>12. g[1] = F(1)
  <2> HIDE DEF F
  <2>1. 1 \in DOMAIN words => 1 \in T
    BY <1>1, <1>11
  <2> QED
    BY <1>10, <2>1
<1>13. F(1) = Tagged(words)
  <2>1. 1 \in DOMAIN words => 1 \in Tagged(words)
    <3>1. 1 - 1 \notin Tagged(words)
      BY <1>1
    <3> QED
      BY <3>1 DEF Parsed
  <2>2. 1 \notin DOMAIN words => Tagged(words) = {}
    BY <1>1
  <2> QED
    BY <1>1, <2>1, <2>2
<1>14. Headers(words) = g[1]
  BY DEF Headers, g, Next1
<1> HIDE DEF F
<1> QED
  BY <1>12, <1>13, <1>14

(* The slots are the words behind the headers of containers, of two bytes  *)
(* if sizes are rounded down.                                              *)
LEMMA SlotsAreWords ==
    ASSUME NEW words \in Seq(Word), Parsed(words)
    PROVE  /\ Slots(words, 0) = {h + 1 : h \in {g \in Tagged(words) :
                                     words[g][2] = "container" /\ words[g][3] = 2}}
           /\ Slots(words, 1) = {h + 1 : h \in {g \in Tagged(words) : words[g][2] = "container"}}
           /\ Slots(words, 0) \subseteq Slots(words, 1)
           /\ \A i \in Slots(words, 1) : i \in DOMAIN words /\ words[i] \in Value
           /\ \A i \in Slots(words, 1) : i \notin Tagged(words)
<1>1. \A h \in Tagged(words) : /\ h \in Nat
                                /\ words[h][3] \in {1, 2}
                                /\ Words(words[h][3], 1) = 1
                                /\ Words(words[h][3], 0) = IF words[h][3] = 2 THEN 1 ELSE 0
  BY HeaderWords, TaggedAreHeaderWords DEF Parsed
<1>2. \A h \in Nat : h + 1 .. h + 1 = {h + 1} /\ h + 1 .. h + 0 = {}
  OBVIOUS
<1>0. Headers(words) = Tagged(words)
  BY WalkFindsHeaders
<1>3. Slots(words, 1) = {h + 1 : h \in {g \in Tagged(words) : words[g][2] = "container"}}
  BY <1>0, <1>1, <1>2 DEF Slots
<1>4. \A h \in Tagged(words) :
        h + 1 .. h + Words(words[h][3], 0) = IF words[h][3] = 2 THEN {h + 1} ELSE {}
  BY <1>1, <1>2
<1>5. Slots(words, 0) = {h + 1 : h \in {g \in Tagged(words) :
                                     words[g][2] = "container" /\ words[g][3] = 2}}
  BY <1>0, <1>4 DEF Slots
<1>6. \A i \in Slots(words, 1) : i \in DOMAIN words /\ words[i] \in Value
  BY <1>3 DEF Parsed
<1>7. \A i \in Slots(words, 1) : i \notin Tagged(words)
  BY <1>6, TaggedAreHeaderWords, Values
<1> QED
  BY <1>3, <1>5, <1>6, <1>7

LEMMA EmptyHeap == Parsed(<<>>) /\ Tagged(<<>>) = {} /\ Slots(<<>>, 0) = {}
<1>1. Tagged(<<>>) = {}
  BY DEF Tagged
<1>2. Parsed(<<>>)
  BY <1>1 DEF Parsed
<1>3. Slots(<<>>, 0) = {}
  <2>1. <<>> \in Seq(Word)
    OBVIOUS
  <2>2. Slots(<<>>, 0) \subseteq DOMAIN <<>>
    BY <1>2, <2>1, SlotsAreWords
  <2> QED
    BY <2>2
<1> QED
  BY <1>1, <1>2, <1>3

-----------------------------------------------------------------------------
(* Buckets.                                                                *)

EndOf(b) == b.start + Len(b.words)

(* The buckets are in different places, the offsets of one begin where     *)
(* those of the one before it end, and the words in each can be parsed.    *)
BucketsOK(bs) ==
    /\ bs \in Seq(Bucket)
    /\ \A i \in DOMAIN bs : \E p \in Nat : bs[i].at = Address(p)
    /\ \A i, j \in DOMAIN bs : i # j => bs[i].at # bs[j].at
    /\ 1 \in DOMAIN bs => bs[1].start = 0
    /\ \A i \in DOMAIN bs : i + 1 \in DOMAIN bs => bs[i + 1].start = EndOf(bs[i])
    /\ \A i, j \in DOMAIN bs : i < j => EndOf(bs[i]) <= bs[j].start
    /\ UsedWords(bs) <= MaxWords
    /\ \A i \in DOMAIN bs : Parsed(bs[i].words)

LEMMA BucketRecord ==
    ASSUME NEW b \in Bucket, NEW new \in Seq(Word)
    PROVE  /\ [b EXCEPT !.words = new] \in Bucket
           /\ [b EXCEPT !.words = new].at = b.at
           /\ [b EXCEPT !.words = new].start = b.start
           /\ [b EXCEPT !.words = new].words = new
BY DEF Bucket

LEMMA Sizes == Globals \in Nat \ {0} /\ MaxWords \in Nat \ {0} /\ BucketWords \in Nat \ {0}
BY SnapshotAssumption

LEMMA Addresses ==
    /\ \A p \in Nat : Address(p) \in Nat \ {0}
    /\ \A p, q \in Nat : p < q => Address(p) + MaxWords + 1 <= Address(q)
<1> USE Sizes
<1>1. ASSUME NEW p \in Nat, NEW q \in Nat, p < q
      PROVE  Address(p) + MaxWords + 1 <= Address(q)
  <2>1. PICK d \in Nat : q = p + 1 + d
    BY <1>1, q - p - 1 \in Nat
  <2>2. q * (MaxWords + 1) = p * (MaxWords + 1) + (MaxWords + 1) + d * (MaxWords + 1)
    BY <2>1
  <2>3. d * (MaxWords + 1) \in Nat
    OBVIOUS
  <2>4. p * (MaxWords + 1) \in Nat /\ q * (MaxWords + 1) \in Nat
    OBVIOUS
  <2> QED
    BY <2>2, <2>3, <2>4 DEF Address
<1>2. \A p \in Nat : Address(p) \in Nat \ {0}
  <2>1. \A p \in Nat : p * (MaxWords + 1) \in Nat
    OBVIOUS
  <2> QED
    BY <2>1 DEF Address
<1> QED
  BY <1>1, <1>2

LEMMA BucketFields ==
    ASSUME NEW bs, BucketsOK(bs), NEW i \in DOMAIN bs
    PROVE  /\ bs \in Seq(Bucket) /\ i \in 1 .. Len(bs) /\ Len(bs) \in Nat
           /\ bs[i].at \in Nat \ {0} /\ bs[i].start \in Nat
           /\ bs[i].words \in Seq(Word) /\ Len(bs[i].words) \in Nat
           /\ Parsed(bs[i].words)
           /\ EndOf(bs[i]) \in Nat
           /\ EndOf(bs[i]) <= MaxWords /\ Len(bs[i].words) <= MaxWords
           /\ EndOf(bs[i]) <= UsedWords(bs)
<1> USE Sizes
<1>1. bs \in Seq(Bucket) /\ i \in 1 .. Len(bs) /\ Len(bs) \in Nat /\ bs[i] \in Bucket
  BY DEF BucketsOK
<1>2. bs[i].at \in Nat /\ bs[i].start \in Nat /\ bs[i].words \in Seq(Word)
  BY <1>1 DEF Bucket
<1>3. bs[i].at # 0
  BY Addresses DEF BucketsOK
<1>4. Len(bs[i].words) \in Nat
  BY <1>2
<1>5. bs[Len(bs)] \in Bucket /\ Len(bs) \in DOMAIN bs
  BY <1>1
<1>6. bs[Len(bs)].start \in Nat /\ Len(bs[Len(bs)].words) \in Nat
  BY <1>5 DEF Bucket
<1>7. UsedWords(bs) = EndOf(bs[Len(bs)])
  BY <1>1 DEF UsedWords, EndOf, Last
<1>8. EndOf(bs[i]) <= UsedWords(bs)
  <2>1. CASE i = Len(bs)
    BY <2>1, <1>7, <1>6 DEF EndOf
  <2>2. CASE i # Len(bs)
    <3>1. EndOf(bs[i]) <= bs[Len(bs)].start
      BY <2>2, <1>1, <1>5 DEF BucketsOK
    <3> QED
      BY <3>1, <1>7, <1>6, <1>2, <1>4 DEF EndOf
  <2> QED
    BY <2>1, <2>2
<1>9. UsedWords(bs) <= MaxWords /\ Parsed(bs[i].words) /\ UsedWords(bs) \in Nat
  BY <1>7, <1>6 DEF BucketsOK, EndOf
<1> QED
  BY <1>1, <1>2, <1>3, <1>4, <1>8, <1>9 DEF EndOf

LEMMA UsedOfBuckets ==
    ASSUME NEW bs, BucketsOK(bs)
    PROVE  /\ bs \in Seq(Bucket) /\ UsedWords(bs) \in 0 .. MaxWords
           /\ bs = <<>> => UsedWords(bs) = 0
           /\ bs # <<>> => Len(bs) \in DOMAIN bs /\ UsedWords(bs) = EndOf(bs[Len(bs)])
<1>1. bs \in Seq(Bucket)
  BY DEF BucketsOK
<1>2. CASE bs = <<>>
  BY <1>1, <1>2, Sizes DEF UsedWords
<1>3. CASE bs # <<>>
  <2>1. Len(bs) \in DOMAIN bs
    BY <1>1, <1>3
  <2>2. UsedWords(bs) = EndOf(bs[Len(bs)])
    BY <1>1, <1>3 DEF UsedWords, EndOf, Last
  <2> QED
    BY <1>1, <1>3, <2>1, <2>2, BucketFields
<1> QED
  BY <1>2, <1>3

(* Every set of numbers has a least element, the one that Min chooses.     *)
LEMMA MinOfSet ==
    ASSUME NEW S \in SUBSET Nat, S # {}
    PROVE  Min(S) \in S /\ \A x \in S : Min(S) <= x
<1>1. PICK n \in S : TRUE
  OBVIOUS
<1> DEFINE U == {x + 1 : x \in {y \in S : y <= n}}
<1>2. U \in SUBSET (1 .. n + 1) /\ n + 1 \in U /\ n + 1 \in Nat
  OBVIOUS
<1>3. PICK m \in U : \A k \in U : m <= k
  <2> HIDE DEF U
  <2> QED
    BY <1>2, LeastPosition
<1>4. m - 1 \in S /\ m - 1 <= n
  <2>1. PICK x \in S : x <= n /\ m = x + 1
    OBVIOUS
  <2> QED
    BY <2>1
<1>5. ASSUME NEW x \in S
      PROVE  m - 1 <= x
  <2>1. CASE x <= n
    <3>1. x + 1 \in U
      BY <2>1
    <3> HIDE DEF U
    <3> QED
      BY <1>2, <1>3, <3>1
  <2> QED
    BY <1>4, <2>1
<1> QED
  BY <1>4, <1>5 DEF Min

LEMMA MaxOfOne ==
    ASSUME NEW S, NEW x, S = {x}, x \in Int
    PROVE  Max(S) = x
BY DEF Max

(* A new bucket is put where no other bucket is.                           *)
LEMMA FreeAddressIsFree ==
    ASSUME NEW bs, BucketsOK(bs)
    PROVE  /\ \E p \in Nat : FreeAddress(bs) = Address(p)
           /\ \A i \in DOMAIN bs : bs[i].at # FreeAddress(bs)
<1> DEFINE P    == 0 .. Len(bs)
           A    == {Address(p) : p \in P}
           B    == {bs[i].at : i \in DOMAIN bs}
<1>1. bs \in Seq(Bucket) /\ Len(bs) \in Nat /\ DOMAIN bs = 1 .. Len(bs)
  BY DEF BucketsOK
<1>2. A \ B # {}
  <2> SUFFICES ASSUME A \subseteq B PROVE FALSE
    OBVIOUS
  <2>1. \A p \in P : \E i \in DOMAIN bs : bs[i].at = Address(p)
    OBVIOUS
  <2> DEFINE f == [p \in P |-> CHOOSE i \in DOMAIN bs : bs[i].at = Address(p)]
  <2>2. \A p \in P : f[p] \in DOMAIN bs /\ bs[f[p]].at = Address(p)
    BY <2>1
  <2>3. f \in [P -> 1 .. Len(bs)]
    BY <2>2, <1>1
  <2>4. IsFiniteSet(P) /\ Cardinality(P) = Len(bs) + 1
    <3>1. \A n \in Nat : IsFiniteSet(0 .. n) /\ Cardinality(0 .. n) = n + 1
      BY FS_Interval
    <3> QED
      BY <1>1, <3>1
  <2>5. IsFiniteSet(1 .. Len(bs)) /\ Cardinality(1 .. Len(bs)) = Len(bs)
    BY <1>1, FS_Interval
  <2>6. \E x, y \in P : x # y /\ f[x] = f[y]
    <3> HIDE DEF P, f
    <3> QED
      BY <1>1, <2>3, <2>4, <2>5, FS_PigeonHole
  <2>7. PICK x \in P, y \in P : x # y /\ f[x] = f[y]
    BY <2>6
  <2>8. Address(x) = Address(y)
    BY <2>2, <2>7
  <2>9. x \in Nat /\ y \in Nat /\ Address(x) \in Nat /\ Address(y) \in Nat /\ (x < y \/ y < x)
    BY <1>1, <2>7, Addresses
  <2>10. MaxWords \in Nat
    BY Sizes
  <2>11. Address(x) + MaxWords + 1 <= Address(y) \/ Address(y) + MaxWords + 1 <= Address(x)
    BY <2>9, Addresses
  <2> QED
    BY <2>8, <2>9, <2>10, <2>11
<1>3. A \subseteq Nat
  BY Addresses, <1>1
<1>4. FreeAddress(bs) \in A \ B
  <2> HIDE DEF A, B
  <2>1. Min(A \ B) \in A \ B
    BY <1>2, <1>3, MinOfSet
  <2>2. FreeAddress(bs) = Min(A \ B)
    BY DEF FreeAddress, A, B
  <2> QED
    BY <2>1, <2>2
<1> QED
  BY <1>4, <1>1

(* An address of data in the i-th bucket is in no other bucket.            *)
LEMMA AddressResolves ==
    ASSUME NEW bs, BucketsOK(bs), NEW i \in DOMAIN bs, NEW h \in Tagged(bs[i].words)
    PROVE  /\ h \in 1 .. Len(bs[i].words) - 1
           /\ InBucket(bs[i], bs[i].at + h)
           /\ PointerOffsetInHeap(bs, bs[i].at + h) = bs[i].start + h
<1>1. h \in 1 .. Len(bs[i].words) - 1
  <2>1. bs[i].words \in Seq(Word) /\ Parsed(bs[i].words)
    BY BucketFields
  <2>2. h \in 1 .. Len(bs[i].words) /\ h + 1 \in 1 .. Len(bs[i].words)
    BY <2>1, TaggedAreHeaderWords DEF Parsed
  <2> QED
    BY <2>1, <2>2
<1>2. bs[i].at \in Nat /\ bs[i].start \in Nat /\ Len(bs[i].words) \in Nat /\ Len(bs[i].words) <= MaxWords
  BY BucketFields
<1>3. InBucket(bs[i], bs[i].at + h)
  BY <1>1, <1>2 DEF InBucket
<1>4. ASSUME NEW j \in DOMAIN bs, j # i
      PROVE  ~InBucket(bs[j], bs[i].at + h)
  <2>1. bs[j].at \in Nat /\ Len(bs[j].words) \in Nat /\ Len(bs[j].words) <= MaxWords
    BY BucketFields
  <2>2. PICK p \in Nat : bs[i].at = Address(p)
    BY DEF BucketsOK
  <2>3. PICK q \in Nat : bs[j].at = Address(q)
    BY DEF BucketsOK
  <2>4. bs[i].at # bs[j].at
    BY <1>4 DEF BucketsOK
  <2>5. p < q \/ q < p
    BY <2>2, <2>3, <2>4
  <2>6. bs[i].at + MaxWords + 1 <= bs[j].at \/ bs[j].at + MaxWords + 1 <= bs[i].at
    BY <2>2, <2>3, <2>5, Addresses
  <2>7. MaxWords \in Nat /\ bs[i].at \in Nat /\ h \in Nat /\ h < MaxWords /\ h >= 1
    BY <1>1, <1>2, Sizes
  <2> QED
    <3>1. bs[i].at + h < bs[j].at - 1 \/ bs[i].at + h > bs[j].at + Len(bs[j].words)
      <4>1. MaxWords \in Nat
        BY Sizes
      <4>2. CASE bs[i].at + MaxWords + 1 <= bs[j].at
        BY ONLY <2>1, <2>7, <4>1, <4>2
      <4>3. CASE bs[j].at + MaxWords + 1 <= bs[i].at
        BY ONLY <2>1, <2>7, <4>1, <4>3
      <4> QED
        BY ONLY <2>6, <4>2, <4>3
    <3> QED
      BY ONLY <3>1, <2>1, <2>7 DEF InBucket
<1>5. {j \in DOMAIN bs : InBucket(bs[j], bs[i].at + h)} = {i} /\ i \in Int
  BY <1>3, <1>4, BucketFields
<1>6. Max({j \in DOMAIN bs : InBucket(bs[j], bs[i].at + h)}) = i
  BY <1>5, MaxOfOne
<1>7. PointerOffsetInHeap(bs, bs[i].at + h) = bs[i].start + ((bs[i].at + h) - bs[i].at)
  BY <1>6 DEF PointerOffsetInHeap
<1> QED
  BY <1>1, <1>2, <1>3, <1>7

-----------------------------------------------------------------------------
(* The words of all buckets.                                               *)

(* These are the words of the buckets by their offsets.                    *)
Flat(words, bs) ==
    /\ words \in Seq(Word)
    /\ Len(words) = UsedWords(bs)
    /\ \A i \in DOMAIN bs : \A k \in 1 .. Len(bs[i].words) :
          words[bs[i].start + k] = bs[i].words[k]

\* Where the first n buckets end.
EndUpTo(bs, n) == IF n = 0 THEN 0 ELSE EndOf(bs[n])

LEMMA Ends ==
    ASSUME NEW bs, BucketsOK(bs)
    PROVE  /\ \A n \in 0 .. Len(bs) : EndUpTo(bs, n) \in 0 .. UsedWords(bs)
           /\ EndUpTo(bs, Len(bs)) = UsedWords(bs)
           /\ \A n \in 1 .. Len(bs) :
                 /\ bs[n].start = EndUpTo(bs, n - 1)
                 /\ EndUpTo(bs, n) = EndUpTo(bs, n - 1) + Len(bs[n].words)
<1>1. bs \in Seq(Bucket) /\ Len(bs) \in Nat /\ DOMAIN bs = 1 .. Len(bs) /\ UsedWords(bs) \in Nat
  BY UsedOfBuckets
<1>2. ASSUME NEW n \in 0 .. Len(bs) PROVE EndUpTo(bs, n) \in 0 .. UsedWords(bs)
  <2>1. CASE n = 0
    BY <1>1, <2>1 DEF EndUpTo
  <2>2. CASE n # 0
    <3>1. EndOf(bs[n]) \in Nat /\ EndOf(bs[n]) <= UsedWords(bs)
      BY <1>1, <2>2, BucketFields
    <3> QED
      BY <1>1, <2>2, <3>1 DEF EndUpTo
  <2> QED
    BY <2>1, <2>2
<1>3. EndUpTo(bs, Len(bs)) = UsedWords(bs)
  BY <1>1, UsedOfBuckets DEF EndUpTo
<1>4. ASSUME NEW n \in 1 .. Len(bs)
      PROVE  bs[n].start = EndUpTo(bs, n - 1)
  <2>1. CASE n = 1
    BY <1>1, <2>1 DEF EndUpTo, BucketsOK
  <2>2. CASE n # 1
    <3>1. n - 1 \in DOMAIN bs /\ (n - 1) + 1 \in DOMAIN bs /\ (n - 1) + 1 = n
      BY <1>1, <2>2
    <3>2. bs[n].start = EndOf(bs[n - 1])
      BY <3>1 DEF BucketsOK
    <3> QED
      BY <3>1, <3>2, <1>1 DEF EndUpTo
  <2> QED
    BY <2>1, <2>2
<1>5. ASSUME NEW n \in 1 .. Len(bs)
      PROVE  EndUpTo(bs, n) = EndUpTo(bs, n - 1) + Len(bs[n].words)
  BY <1>4 DEF EndUpTo, EndOf
<1> QED
  BY <1>2, <1>3, <1>4, <1>5

(* Each offset is in one bucket.                                           *)
LEMMA OffsetsAreCovered ==
    ASSUME NEW bs, BucketsOK(bs), NEW j \in 1 .. UsedWords(bs)
    PROVE  \E i \in DOMAIN bs : \E k \in 1 .. Len(bs[i].words) : j = bs[i].start + k
<1> DEFINE C(n) == j <= EndUpTo(bs, n) =>
                      \E i \in DOMAIN bs : \E k \in 1 .. Len(bs[i].words) : j = bs[i].start + k
           T == {n \in 1 .. Len(bs) : C(n)}
<1>1. Len(bs) \in Nat /\ DOMAIN bs = 1 .. Len(bs) /\ UsedWords(bs) \in Nat
  BY UsedOfBuckets
<1>2. ASSUME NEW n \in 1 .. Len(bs), ~(j <= EndUpTo(bs, n - 1))
      PROVE  C(n)
  <2> SUFFICES ASSUME j <= EndUpTo(bs, n)
               PROVE  \E i \in DOMAIN bs : \E k \in 1 .. Len(bs[i].words) : j = bs[i].start + k
    OBVIOUS
  <2>1. bs[n].start \in Nat /\ Len(bs[n].words) \in Nat
    BY <1>1, BucketFields
  <2>2. j - bs[n].start \in 1 .. Len(bs[n].words) /\ j = bs[n].start + (j - bs[n].start)
    <3>1. /\ bs[n].start = EndUpTo(bs, n - 1)
          /\ EndUpTo(bs, n) = EndUpTo(bs, n - 1) + Len(bs[n].words)
      BY Ends
    <3>2. bs[n].start < j /\ j <= bs[n].start + Len(bs[n].words) /\ j \in Nat
      BY <1>1, <1>2, <2>1, <3>1
    <3> QED
      BY <2>1, <3>2
  <2> QED
    BY <1>1, <2>2
<1>3. Len(bs) > 0 => 1 \in T
  <2>1. EndUpTo(bs, 0) = 0
    BY DEF EndUpTo
  <2>2. 1 - 1 = 0 /\ ~(j <= 0)
    BY <1>1
  <2>3. Len(bs) > 0 => C(1)
    BY <1>1, <1>2, <2>1, <2>2
  <2> QED
    BY <1>1, <2>3
<1>4. \A n \in 1 .. Len(bs) - 1 : n \in T => n + 1 \in T
  <2> SUFFICES ASSUME NEW n \in 1 .. Len(bs) - 1, n \in T PROVE C(n + 1) /\ n + 1 \in 1 .. Len(bs)
    OBVIOUS
  <2>1. n + 1 \in 1 .. Len(bs) /\ (n + 1) - 1 = n
    BY <1>1
  <2>2. CASE j <= EndUpTo(bs, n)
    BY <2>1, <2>2
  <2>3. CASE ~(j <= EndUpTo(bs, n))
    BY <1>2, <2>1, <2>3
  <2> QED
    BY <2>1, <2>2, <2>3
<1>5. T = 1 .. Len(bs)
  <2>1. T \in SUBSET (1 .. Len(bs))
    OBVIOUS
  <2> HIDE DEF T
  <2> QED
    BY <1>1, <1>3, <1>4, <2>1, IntervalInduction
<1>6. bs # <<>> /\ Len(bs) \in 1 .. Len(bs)
  BY <1>1, UsedOfBuckets
<1>7. j <= EndUpTo(bs, Len(bs))
  BY <1>1, Ends
<1> QED
  BY <1>5, <1>6, <1>7

LEMMA OffsetsAreCoveredOnce ==
    ASSUME NEW bs, BucketsOK(bs), NEW i \in DOMAIN bs, NEW j \in DOMAIN bs,
           NEW k \in 1 .. Len(bs[i].words), NEW m \in 1 .. Len(bs[j].words),
           bs[i].start + k = bs[j].start + m
    PROVE  i = j /\ k = m
<1>1. /\ i \in 1 .. Len(bs) /\ j \in 1 .. Len(bs) /\ Len(bs) \in Nat
      /\ bs[i].start \in Nat /\ bs[j].start \in Nat
      /\ Len(bs[i].words) \in Nat /\ Len(bs[j].words) \in Nat
  BY BucketFields
<1>2. ~(i < j)
  <2>1. i < j => EndOf(bs[i]) <= bs[j].start
    BY DEF BucketsOK
  <2> QED
    BY <1>1, <2>1 DEF EndOf
<1>3. ~(j < i)
  <2>1. j < i => EndOf(bs[j]) <= bs[i].start
    BY DEF BucketsOK
  <2> QED
    BY <1>1, <2>1 DEF EndOf
<1>4. i = j
  BY <1>1, <1>2, <1>3
<1> QED
  BY <1>1, <1>4

LEMMA FlatWords ==
    ASSUME NEW bs, BucketsOK(bs)
    PROVE  \E words : Flat(words, bs)
<1> DEFINE In(j)  == CHOOSE i \in DOMAIN bs : \E k \in 1 .. Len(bs[i].words) : j = bs[i].start + k
           words  == [j \in 1 .. UsedWords(bs) |-> bs[In(j)].words[j - bs[In(j)].start]]
<1>1. UsedWords(bs) \in Nat
  BY UsedOfBuckets
<1>2. ASSUME NEW i \in DOMAIN bs, NEW k \in 1 .. Len(bs[i].words)
      PROVE  /\ bs[i].start + k \in 1 .. UsedWords(bs)
             /\ words[bs[i].start + k] = bs[i].words[k]
  <2>1. bs[i].start \in Nat /\ Len(bs[i].words) \in Nat /\ EndOf(bs[i]) <= UsedWords(bs)
    BY BucketFields
  <2>2. bs[i].start + k \in 1 .. UsedWords(bs)
    BY <1>1, <2>1 DEF EndOf
  <2>3. PICK j : j = bs[i].start + k
    OBVIOUS
  <2>4. In(j) \in DOMAIN bs /\ \E m \in 1 .. Len(bs[In(j)].words) : j = bs[In(j)].start + m
    BY <2>3
  <2>5. In(j) = i
    <3> HIDE DEF In
    <3>1. PICK m \in 1 .. Len(bs[In(j)].words) : j = bs[In(j)].start + m
      BY <2>4
    <3> QED
      BY <2>3, <2>4, <3>1, OffsetsAreCoveredOnce
  <2>6. words[j] = bs[In(j)].words[j - bs[In(j)].start]
    BY <2>2, <2>3
  <2>7. j - bs[i].start = k
    BY <2>1, <2>3
  <2> HIDE DEF In, words
  <2> QED
    BY <2>2, <2>3, <2>5, <2>6, <2>7
<1>3. \A j \in 1 .. UsedWords(bs) : words[j] \in Word
  <2> SUFFICES ASSUME NEW j \in 1 .. UsedWords(bs) PROVE words[j] \in Word
    OBVIOUS
  <2>1. PICK i \in DOMAIN bs : \E k \in 1 .. Len(bs[i].words) : j = bs[i].start + k
    BY OffsetsAreCovered
  <2>4. PICK k \in 1 .. Len(bs[i].words) : j = bs[i].start + k
    BY <2>1
  <2>2. words[j] = bs[i].words[k]
    <3> HIDE DEF words
    <3> QED
      BY <2>4, <1>2
  <2>3. bs[i].words \in Seq(Word)
    BY BucketFields
  <2> HIDE DEF words
  <2> QED
    BY <2>1, <2>2, <2>3
<1>4. words \in Seq(Word) /\ Len(words) = UsedWords(bs)
  <2>1. words = [j \in 1 .. UsedWords(bs) |-> words[j]]
    OBVIOUS
  <2> HIDE DEF words
  <2> QED
    BY <1>1, <1>3, <2>1
<1>5. Flat(words, bs)
  <2> HIDE DEF words
  <2> QED
    BY <1>2, <1>4 DEF Flat
<1> QED
  BY <1>5

\* The words of the buckets one after the other, as in Heap.
Concat(bs) ==
    LET words[n \in 0 .. Len(bs)] == IF n = 0 THEN <<>> ELSE words[n - 1] \o bs[n].words
    IN  words[Len(bs)]

LEMMA HeapIsConcat == Heap = Concat(vm.buckets)
BY DEF Heap, Concat

(* What is behind a prefix of the words, and what is before a suffix.      *)
LEMMA FlatPieces ==
    ASSUME NEW bs, BucketsOK(bs), NEW words, Flat(words, bs), NEW n \in 1 .. Len(bs)
    PROVE  /\ SubSeq(words, 1, EndUpTo(bs, n)) = SubSeq(words, 1, EndUpTo(bs, n - 1)) \o bs[n].words
           /\ SubSeq(words, EndUpTo(bs, n - 1) + 1, Len(words))
                = bs[n].words \o SubSeq(words, EndUpTo(bs, n) + 1, Len(words))
<1> DEFINE d == EndUpTo(bs, n - 1)
           e == EndUpTo(bs, n)
           w == bs[n].words
<1>1. words \in Seq(Word) /\ Len(words) \in Nat /\ Len(words) = UsedWords(bs)
  BY DEF Flat
<1>2. n \in DOMAIN bs /\ w \in Seq(Word) /\ Len(w) \in Nat /\ d \in Nat /\ e \in Nat
  <2>1. n \in DOMAIN bs /\ Len(bs) \in Nat
    BY UsedOfBuckets
  <2>2. n - 1 \in 0 .. Len(bs) /\ n \in 0 .. Len(bs)
    BY <2>1
  <2> QED
    BY <2>1, <2>2, BucketFields, Ends
<1>3. bs[n].start = d /\ e = d + Len(w) /\ e <= Len(words)
  <2>1. n \in 0 .. Len(bs)
    BY UsedOfBuckets
  <2> QED
    BY <2>1, <1>1, <1>2, Ends
<1>4. \A k \in 1 .. Len(w) : words[d + k] = w[k]
  BY <1>2, <1>3 DEF Flat
<1> HIDE DEF d, e, w
<1>5. SubSeq(words, 1, e) = SubSeq(words, 1, d) \o w
  <2>1. SubSeq(words, 1, e) \in Seq(Word) /\ Len(SubSeq(words, 1, e)) = e
    BY <1>1, <1>2, <1>3
  <2>2. /\ SubSeq(words, 1, d) \in Seq(Word) /\ Len(SubSeq(words, 1, d)) = d
        /\ SubSeq(words, 1, d) \o w \in Seq(Word)
    BY <1>1, <1>2, <1>3
  <2>3. Len(SubSeq(words, 1, d) \o w) = e
    BY <2>2, <1>2, <1>3
  <2>4. ASSUME NEW k \in 1 .. e
        PROVE  SubSeq(words, 1, e)[k] = (SubSeq(words, 1, d) \o w)[k]
    <3>1. SubSeq(words, 1, e)[k] = words[k]
      BY <1>1, <1>2, <1>3
    <3>2. CASE k <= d
      <4>1. (SubSeq(words, 1, d) \o w)[k] = SubSeq(words, 1, d)[k]
        BY <2>2, <1>2, <3>2
      <4>2. SubSeq(words, 1, d)[k] = words[k]
        BY <1>1, <1>2, <1>3, <3>2
      <4> QED
        BY <3>1, <4>1, <4>2
    <3>3. CASE ~(k <= d)
      <4>1. k - d \in 1 .. Len(w) /\ d + (k - d) = k
        BY <1>2, <1>3, <3>3
      <4>2. (SubSeq(words, 1, d) \o w)[k] = w[k - d]
        BY <2>2, <1>2, <1>3, <3>3
      <4> QED
        BY <1>4, <3>1, <4>1, <4>2
    <3> QED
      BY <3>2, <3>3
  <2> QED
    BY <2>1, <2>2, <2>3, <2>4, SeqEqual
<1>6. SubSeq(words, d + 1, Len(words)) = w \o SubSeq(words, e + 1, Len(words))
  <2>1. /\ SubSeq(words, d + 1, Len(words)) \in Seq(Word)
        /\ Len(SubSeq(words, d + 1, Len(words))) = Len(words) - d
    <3>1. d + 1 \in Nat /\ Len(words) - (d + 1) + 1 = Len(words) - d /\ d <= Len(words)
      BY <1>1, <1>2, <1>3
    <3> QED
      BY <1>1, <1>2, <3>1
  <2>2. /\ SubSeq(words, e + 1, Len(words)) \in Seq(Word)
        /\ Len(SubSeq(words, e + 1, Len(words))) = Len(words) - e
        /\ w \o SubSeq(words, e + 1, Len(words)) \in Seq(Word)
    BY <1>1, <1>2, <1>3
  <2>3. Len(w \o SubSeq(words, e + 1, Len(words))) = Len(words) - d
    BY <2>2, <1>1, <1>2, <1>3
  <2>4. ASSUME NEW k \in 1 .. Len(words) - d
        PROVE  SubSeq(words, d + 1, Len(words))[k] = (w \o SubSeq(words, e + 1, Len(words)))[k]
    <3>1. SubSeq(words, d + 1, Len(words))[k] = words[d + k]
      BY <1>1, <1>2, <1>3
    <3>2. CASE k <= Len(w)
      <4>1. (w \o SubSeq(words, e + 1, Len(words)))[k] = w[k]
        BY <2>2, <1>2, <3>2
      <4> QED
        BY <1>2, <1>4, <3>1, <3>2, <4>1
    <3>3. CASE ~(k <= Len(w))
      <4>1. (w \o SubSeq(words, e + 1, Len(words)))[k] = SubSeq(words, e + 1, Len(words))[k - Len(w)]
        BY <2>2, <1>1, <1>2, <1>3, <3>3
      <4>2. SubSeq(words, e + 1, Len(words))[k - Len(w)] = words[d + k]
        <5>1. \A m \in 1 .. Len(words) - e : SubSeq(words, e + 1, Len(words))[m] = words[e + m]
          BY <1>1, <1>2, <1>3
        <5>2. k - Len(w) \in 1 .. Len(words) - e /\ e + (k - Len(w)) = d + k
          BY <1>1, <1>2, <1>3, <3>3
        <5> QED
          BY <5>1, <5>2
      <4> QED
        BY <3>1, <4>1, <4>2
    <3> QED
      BY <3>2, <3>3
  <2> QED
    BY <2>1, <2>2, <2>3, <2>4, <1>1, <1>2, SeqEqual
<1> QED
  BY <1>5, <1>6 DEF d, e, w

LEMMA ConcatIsFlat ==
    ASSUME NEW bs, BucketsOK(bs), NEW words, Flat(words, bs)
    PROVE  Concat(bs) = words
<1>1. Len(bs) \in Nat /\ words \in Seq(Word) /\ Len(words) = UsedWords(bs)
  BY UsedOfBuckets DEF Flat
<1> DEFINE P(n) == SubSeq(words, 1, EndUpTo(bs, n))
           f == [n \in 0 .. Len(bs) |-> P(n)]
           g == CHOOSE s : s = [n \in 0 .. Len(bs) |-> IF n = 0 THEN <<>> ELSE s[n - 1] \o bs[n].words]
<1>2. P(0) = <<>>
  <2>1. SubSeq(words, 1, 0) = <<>>
    BY <1>1
  <2> QED
    BY <2>1 DEF EndUpTo
<1>3. \A n \in 1 .. Len(bs) : P(n) = P(n - 1) \o bs[n].words
  BY FlatPieces
<1>4. f = [n \in 0 .. Len(bs) |-> IF n = 0 THEN <<>> ELSE f[n - 1] \o bs[n].words]
  <2>1. ASSUME NEW n \in 0 .. Len(bs)
        PROVE  P(n) = IF n = 0 THEN <<>> ELSE f[n - 1] \o bs[n].words
    <3>1. CASE n = 0
      BY <1>2, <3>1
    <3>2. CASE n # 0
      <4>1. n \in 1 .. Len(bs) /\ n - 1 \in 0 .. Len(bs)
        BY <1>1, <3>2
      <4>2. f[n - 1] = P(n - 1)
        BY <4>1
      <4> HIDE DEF f, P
      <4> QED
        BY <1>3, <3>2, <4>1, <4>2
    <3> QED
      BY <3>1, <3>2
  <2> HIDE DEF P
  <2> QED
    BY <2>1
<1>5. g = [n \in 0 .. Len(bs) |-> IF n = 0 THEN <<>> ELSE g[n - 1] \o bs[n].words]
  <2> HIDE DEF f
  <2> QED
    BY <1>4
<1> HIDE DEF g, f
<1>6. \A n \in 0 .. Len(bs) : g[n] = IF n = 0 THEN <<>> ELSE g[n - 1] \o bs[n].words
  BY <1>5
<1> DEFINE T == {n \in 1 .. Len(bs) : g[n] = P(n)}
<1>7. g[0] = P(0)
  <2>1. 0 \in 0 .. Len(bs)
    BY <1>1
  <2> HIDE DEF P
  <2> QED
    BY <1>2, <1>6, <2>1
<1>8. \A n \in 1 .. Len(bs) : g[n - 1] = P(n - 1) => g[n] = P(n)
  <2> SUFFICES ASSUME NEW n \in 1 .. Len(bs), g[n - 1] = P(n - 1) PROVE g[n] = P(n)
    OBVIOUS
  <2>1. n \in 0 .. Len(bs) /\ n # 0
    BY <1>1
  <2> HIDE DEF P
  <2> QED
    BY <1>3, <1>6, <2>1
<1> HIDE DEF P
<1>9. T = 1 .. Len(bs)
  <2>1. Len(bs) > 0 => 1 \in T
    BY <1>1, <1>7, <1>8
  <2>2. \A n \in 1 .. Len(bs) - 1 : n \in T => n + 1 \in T
    BY <1>1, <1>8
  <2>3. T \in SUBSET (1 .. Len(bs))
    OBVIOUS
  <2> HIDE DEF T
  <2> QED
    BY <1>1, <2>1, <2>2, <2>3, IntervalInduction
<1>10. g[Len(bs)] = P(Len(bs))
  BY <1>1, <1>7, <1>9
<1>11. P(Len(bs)) = words
  BY <1>1, Ends DEF P
<1> QED
  BY <1>10, <1>11 DEF Concat, g

LEMMA HeapCopiedIsFlat ==
    ASSUME NEW bs, BucketsOK(bs), NEW words, Flat(words, bs)
    PROVE  HeapCopied(bs) = words
<1>1. Len(bs) \in Nat /\ words \in Seq(Word) /\ Len(words) = UsedWords(bs)
  BY UsedOfBuckets DEF Flat
<1> DEFINE P(n) == SubSeq(words, EndUpTo(bs, n) + 1, Len(words))
           Cut(n) == SubSeq(bs[n + 1].words, 1,
                            (IF n + 1 = Len(bs) THEN UsedWords(bs) ELSE bs[n + 2].start)
                              - bs[n + 1].start)
           f == [n \in 0 .. Len(bs) |-> P(n)]
           g == CHOOSE s : s = [n \in 0 .. Len(bs) |-> IF n = Len(bs) THEN <<>>
                                                       ELSE Cut(n) \o s[n + 1]]
<1>2. P(Len(bs)) = <<>>
  <2>1. SubSeq(words, Len(words) + 1, Len(words)) = <<>>
    BY <1>1
  <2>2. EndUpTo(bs, Len(bs)) = Len(words)
    BY <1>1, Ends
  <2> QED
    BY <2>1, <2>2
<1>3. ASSUME NEW n \in 0 .. Len(bs), n # Len(bs)
      PROVE  n + 1 \in 0 .. Len(bs) /\ P(n) = Cut(n) \o P(n + 1)
  <2>1. n + 1 \in 1 .. Len(bs) /\ (n + 1) - 1 = n
    BY <1>1, <1>3
  <2>2. bs[n + 1].words \in Seq(Word) /\ Len(bs[n + 1].words) \in Nat /\ bs[n + 1].start \in Nat
    BY <2>1, BucketFields, UsedOfBuckets
  <2>3. (IF n + 1 = Len(bs) THEN UsedWords(bs) ELSE bs[n + 2].start) = EndOf(bs[n + 1])
    <3>1. CASE n + 1 = Len(bs)
      BY <1>1, <2>1, <3>1, UsedOfBuckets
    <3>2. CASE n + 1 # Len(bs)
      <4>1. n + 1 \in DOMAIN bs /\ (n + 1) + 1 \in DOMAIN bs /\ (n + 1) + 1 = n + 2
        BY <1>1, <2>1, <3>2, UsedOfBuckets
      <4>2. bs[(n + 1) + 1].start = EndOf(bs[n + 1])
        BY <4>1 DEF BucketsOK
      <4> QED
        BY <3>2, <4>1, <4>2
    <3> QED
      BY <3>1, <3>2
  <2>4. Cut(n) = bs[n + 1].words
    <3>1. EndOf(bs[n + 1]) - bs[n + 1].start = Len(bs[n + 1].words)
      BY <2>2 DEF EndOf
    <3>2. SubSeq(bs[n + 1].words, 1, Len(bs[n + 1].words)) = bs[n + 1].words
      BY <2>2
    <3> QED
      BY <2>3, <3>1, <3>2
  <2>5. P(n) = bs[n + 1].words \o P(n + 1)
    BY <2>1, FlatPieces
  <2> HIDE DEF P, Cut
  <2> QED
    BY <2>1, <2>4, <2>5
<1> HIDE DEF Cut
<1>4. f = [n \in 0 .. Len(bs) |-> IF n = Len(bs) THEN <<>> ELSE Cut(n) \o f[n + 1]]
  <2>1. ASSUME NEW n \in 0 .. Len(bs)
        PROVE  P(n) = IF n = Len(bs) THEN <<>> ELSE Cut(n) \o f[n + 1]
    <3>1. CASE n = Len(bs)
      BY <1>2, <3>1
    <3>2. CASE n # Len(bs)
      <4>1. n + 1 \in 0 .. Len(bs) /\ P(n) = Cut(n) \o P(n + 1)
        BY <1>3, <3>2
      <4>2. f[n + 1] = P(n + 1)
        BY <4>1
      <4> HIDE DEF f, P
      <4> QED
        BY <3>2, <4>1, <4>2
    <3> QED
      BY <3>1, <3>2
  <2> HIDE DEF P
  <2> QED
    BY <2>1
<1>5. g = [n \in 0 .. Len(bs) |-> IF n = Len(bs) THEN <<>> ELSE Cut(n) \o g[n + 1]]
  <2> HIDE DEF f
  <2> QED
    BY <1>4
<1> HIDE DEF g, f, P
<1>6. \A n \in 0 .. Len(bs) : g[n] = IF n = Len(bs) THEN <<>> ELSE Cut(n) \o g[n + 1]
  BY <1>5
\* Counted from the last bucket.
<1> DEFINE S == {m \in 1 .. Len(bs) : g[Len(bs) - m] = P(Len(bs) - m)}
<1>7. g[Len(bs)] = P(Len(bs))
  BY <1>1, <1>2, <1>6
<1>8. \A m \in 1 .. Len(bs) : g[Len(bs) - m + 1] = P(Len(bs) - m + 1) => g[Len(bs) - m] = P(Len(bs) - m)
  <2> SUFFICES ASSUME NEW m \in 1 .. Len(bs), g[Len(bs) - m + 1] = P(Len(bs) - m + 1)
               PROVE  g[Len(bs) - m] = P(Len(bs) - m)
    OBVIOUS
  <2>1. PICK n \in 0 .. Len(bs) : n = Len(bs) - m /\ n # Len(bs)
    BY <1>1
  <2> QED
    BY <1>3, <1>6, <2>1
<1>9. S = 1 .. Len(bs)
  <2>1. Len(bs) > 0 => 1 \in S
    <3>1. Len(bs) - 1 + 1 = Len(bs)
      BY <1>1
    <3> QED
      BY <1>1, <1>7, <1>8, <3>1
  <2>2. \A m \in 1 .. Len(bs) - 1 : m \in S => m + 1 \in S
    <3> SUFFICES ASSUME NEW m \in 1 .. Len(bs) - 1, m \in S PROVE m + 1 \in S
      OBVIOUS
    <3>1. m + 1 \in 1 .. Len(bs) /\ Len(bs) - (m + 1) + 1 = Len(bs) - m
      BY <1>1
    <3> QED
      BY <1>8, <3>1
  <2>3. S \in SUBSET (1 .. Len(bs))
    OBVIOUS
  <2> HIDE DEF S
  <2> QED
    BY <1>1, <2>1, <2>2, <2>3, IntervalInduction
<1>10. g[0] = P(0)
  <2>1. CASE Len(bs) = 0
    BY <1>7, <2>1
  <2>2. CASE Len(bs) # 0
    <3>1. Len(bs) \in 1 .. Len(bs) /\ Len(bs) - Len(bs) = 0
      BY <1>1, <2>2
    <3>2. Len(bs) \in S
      BY <1>9, <3>1
    <3> QED
      BY <3>1, <3>2
  <2> QED
    BY <2>1, <2>2
<1>11. P(0) = words
  <2>1. EndUpTo(bs, 0) + 1 = 1
    BY DEF EndUpTo
  <2>2. SubSeq(words, 1, Len(words)) = words
    BY <1>1
  <2> QED
    BY <2>1, <2>2 DEF P
<1> QED
  BY <1>10, <1>11 DEF HeapCopied, g, Cut

(* The headers of the heap are those of the buckets, and so are the slots. *)
LEMMA HeadersOfFlat ==
    ASSUME NEW bs, BucketsOK(bs), NEW words, Flat(words, bs)
    PROVE  /\ Parsed(words)
           /\ \A i \in DOMAIN bs : \A h \in Tagged(bs[i].words) :
                 /\ bs[i].start + h \in Tagged(words)
                 /\ words[bs[i].start + h] = bs[i].words[h]
                 /\ words[bs[i].start + h + 1] = bs[i].words[h + 1]
           /\ \A k \in Tagged(words) :
                 \E i \in DOMAIN bs : \E h \in Tagged(bs[i].words) : k = bs[i].start + h
           /\ \A k \in Slots(words, 0) :
                 \E i \in DOMAIN bs : \E h \in Slots(bs[i].words, 0) : words[k] = bs[i].words[h]
<1>1. words \in Seq(Word) /\ Len(words) = UsedWords(bs) /\ UsedWords(bs) \in Nat
  BY UsedOfBuckets DEF Flat
<1>2. ASSUME NEW i \in DOMAIN bs, NEW h \in Tagged(bs[i].words)
      PROVE  /\ bs[i].start + h \in Tagged(words) /\ bs[i].start + h + 1 \in DOMAIN words
             /\ words[bs[i].start + h] = bs[i].words[h]
             /\ words[bs[i].start + h + 1] = bs[i].words[h + 1]
  <2>1. /\ h \in 1 .. Len(bs[i].words) /\ h + 1 \in 1 .. Len(bs[i].words)
        /\ bs[i].start \in Nat /\ Len(bs[i].words) \in Nat /\ EndOf(bs[i]) <= UsedWords(bs)
        /\ bs[i].start + h + 1 = bs[i].start + (h + 1)
    BY BucketFields, AddressResolves
  <2>2. /\ words[bs[i].start + h] = bs[i].words[h]
        /\ words[bs[i].start + h + 1] = bs[i].words[h + 1]
    BY <2>1 DEF Flat
  <2>3. bs[i].start + h \in DOMAIN words /\ bs[i].start + h + 1 \in DOMAIN words
    BY <1>1, <2>1 DEF EndOf
  <2>4. bs[i].words[h][1] = "header"
    BY DEF Tagged
  <2> QED
    BY <2>2, <2>3, <2>4 DEF Tagged
<1>3. ASSUME NEW k \in Tagged(words)
      PROVE  \E i \in DOMAIN bs : \E h \in Tagged(bs[i].words) : k = bs[i].start + h
  <2>1. k \in 1 .. UsedWords(bs) /\ words[k][1] = "header"
    BY <1>1 DEF Tagged
  <2>2. PICK i \in DOMAIN bs : \E h \in 1 .. Len(bs[i].words) : k = bs[i].start + h
    BY <2>1, OffsetsAreCovered
  <2>3. PICK h \in 1 .. Len(bs[i].words) : k = bs[i].start + h
    BY <2>2
  <2>4. bs[i].words[h] = words[k] /\ h \in DOMAIN bs[i].words
    <3>1. bs[i].words \in Seq(Word)
      BY BucketFields
    <3> QED
      BY <2>3, <3>1 DEF Flat
  <2>5. h \in Tagged(bs[i].words)
    BY <2>1, <2>4 DEF Tagged
  <2> QED
    BY <2>3, <2>5
<1>6. ASSUME NEW k \in DOMAIN words \ Tagged(words)
      PROVE  k - 1 \in Tagged(words)
  <2>1. k \in 1 .. UsedWords(bs) /\ words[k][1] # "header"
    BY <1>1 DEF Tagged
  <2>2. PICK i \in DOMAIN bs : \E h \in 1 .. Len(bs[i].words) : k = bs[i].start + h
    BY <2>1, OffsetsAreCovered
  <2>3. PICK h \in 1 .. Len(bs[i].words) : k = bs[i].start + h
    BY <2>2
  <2>4. bs[i].words[h] = words[k] /\ h \in DOMAIN bs[i].words /\ bs[i].start \in Nat
    <3>1. bs[i].words \in Seq(Word)
      BY BucketFields
    <3> QED
      BY <2>3, <3>1, BucketFields DEF Flat
  <2>5. Parsed(bs[i].words) /\ h \notin Tagged(bs[i].words)
    BY <2>1, <2>4, BucketFields DEF Tagged
  <2>6. h - 1 \in Tagged(bs[i].words)
    BY <2>4, <2>5 DEF Parsed
  <2>7. bs[i].start + (h - 1) \in Tagged(words)
    BY <1>2, <2>6
  <2>8. bs[i].start + (h - 1) = k - 1
    BY <2>3, <2>4
  <2> QED
    BY <2>7, <2>8
<1>4. Parsed(words)
  <2> SUFFICES ASSUME NEW k \in Tagged(words)
               PROVE  words[k] \in HeaderWord /\ k + 1 \in DOMAIN words /\ words[k + 1] \in Value
    BY <1>6 DEF Parsed
  <2>1. PICK i \in DOMAIN bs : \E h \in Tagged(bs[i].words) : k = bs[i].start + h
    BY <1>3
  <2>2. PICK h \in Tagged(bs[i].words) : k = bs[i].start + h
    BY <2>1
  <2>3. bs[i].words[h] \in HeaderWord /\ bs[i].words[h + 1] \in Value
    BY BucketFields DEF Parsed
  <2> QED
    BY <1>2, <2>2, <2>3
<1>5. ASSUME NEW k \in Slots(words, 0)
      PROVE  \E i \in DOMAIN bs : \E h \in Slots(bs[i].words, 0) : words[k] = bs[i].words[h]
  <2>1. PICK g \in Tagged(words) : k = g + 1 /\ words[g][2] = "container" /\ words[g][3] = 2
    BY <1>1, <1>4, SlotsAreWords
  <2>2. PICK i \in DOMAIN bs : \E h \in Tagged(bs[i].words) : g = bs[i].start + h
    BY <1>3
  <2>3. PICK h \in Tagged(bs[i].words) : g = bs[i].start + h
    BY <2>2
  <2>4. words[g] = bs[i].words[h] /\ words[k] = bs[i].words[h + 1]
    BY <1>2, <2>1, <2>3
  <2>5. bs[i].words \in Seq(Word) /\ Parsed(bs[i].words)
    BY BucketFields
  <2>6. h + 1 \in Slots(bs[i].words, 0)
    BY <2>1, <2>4, <2>5, SlotsAreWords
  <2> QED
    BY <2>4, <2>6
<1> QED
  BY <1>2, <1>3, <1>4, <1>5

(* When only slots are overwritten, and with values, the headers stay.     *)
LEMMA Overwritten ==
    ASSUME NEW words \in Seq(Word), Parsed(words),
           NEW new, new = [i \in DOMAIN words |-> new[i]],
           \A i \in DOMAIN words : new[i] = words[i] \/ (i \in Slots(words, 1) /\ new[i] \in Value)
    PROVE  /\ new \in Seq(Word) /\ Len(new) = Len(words)
           /\ Tagged(new) = Tagged(words)
           /\ \A h \in Tagged(words) : new[h] = words[h]
           /\ Parsed(new)
           /\ Slots(new, 0) = Slots(words, 0) /\ Slots(new, 1) = Slots(words, 1)
<1>1. new \in Seq(Word) /\ Len(new) = Len(words)
  <2>1. DOMAIN words = 1 .. Len(words) /\ Len(words) \in Nat
    OBVIOUS
  <2>2. \A i \in DOMAIN words : words[i] \in Word
    OBVIOUS
  <2>3. \A i \in DOMAIN words : new[i] \in Word
    BY <2>2, Values
  <2> QED
    BY <2>1, <2>3
<1>2. DOMAIN new = DOMAIN words
  OBVIOUS
<1>3. \A h \in Tagged(words) : h \in DOMAIN words /\ h \notin Slots(words, 1)
  BY SlotsAreWords DEF Tagged
<1>4. \A h \in Tagged(words) : new[h] = words[h]
  BY <1>3
<1>5. \A i \in DOMAIN words : new[i][1] = "header" => new[i] = words[i]
  BY Values
<1>6. Tagged(new) = Tagged(words)
  BY <1>2, <1>4, <1>5 DEF Tagged
<1>7. Parsed(new)
  <2> SUFFICES ASSUME NEW h \in Tagged(words)
               PROVE  new[h] \in HeaderWord /\ h + 1 \in DOMAIN new /\ new[h + 1] \in Value
    BY <1>6 DEF Parsed
  <2>1. words[h] \in HeaderWord /\ h + 1 \in DOMAIN words /\ words[h + 1] \in Value
    BY DEF Parsed
  <2> QED
    BY <1>2, <1>4, <2>1
<1>8. Slots(new, 0) = Slots(words, 0) /\ Slots(new, 1) = Slots(words, 1)
  <2>1. /\ Slots(new, 0) = {h + 1 : h \in {g \in Tagged(new) :
                                     new[g][2] = "container" /\ new[g][3] = 2}}
        /\ Slots(new, 1) = {h + 1 : h \in {g \in Tagged(new) : new[g][2] = "container"}}
    BY <1>1, <1>7, SlotsAreWords
  <2>2. /\ {g \in Tagged(new) : new[g][2] = "container" /\ new[g][3] = 2}
             = {g \in Tagged(words) : words[g][2] = "container" /\ words[g][3] = 2}
        /\ {g \in Tagged(new) : new[g][2] = "container"}
             = {g \in Tagged(words) : words[g][2] = "container"}
    BY <1>4, <1>6
  <2> QED
    BY <2>1, <2>2, SlotsAreWords
<1> QED
  BY <1>1, <1>4, <1>6, <1>7, <1>8

-----------------------------------------------------------------------------
(* The invariant.                                                          *)

\* The pointer to the allocation with its header at h in the i-th bucket.
At(v, i, h) == IF v.native THEN v.buckets[i].at + h ELSE v.buckets[i].start + h

(* A value is no pointer, or the pointer to the data of an allocation.     *)
Leads(v, w) ==
    IsPtr(w) => \E i \in DOMAIN v.buckets : \E h \in Tagged(v.buckets[i].words) : w = Ptr(At(v, i, h))

VM == [native : BOOLEAN, globals : [1 .. Globals -> Value], buckets : Seq(Bucket)]

(* A running VM.                                                           *)
VMOK(v) ==
    /\ v \in VM
    /\ BucketsOK(v.buckets)
    /\ \A g \in 1 .. Globals : Leads(v, v.globals[g])
    /\ \A i \in DOMAIN v.buckets : \A k \in Slots(v.buckets[i].words, 0) :
          Leads(v, v.buckets[i].words[k])

\* In an image pointers are offsets.
Saved(words, w) == IsPtr(w) => \E h \in Tagged(words) : w = Ptr(h)

(* An image that is not spoilt.                                            *)
ImageOK(im) ==
    /\ im = Sealed([globals |-> im.globals, heap |-> im.heap])
    /\ im.globals \in [1 .. Globals -> Value]
    /\ im.heap \in Seq(Word) /\ Len(im.heap) <= MaxWords
    /\ Parsed(im.heap)
    /\ \A g \in 1 .. Globals : Saved(im.heap, im.globals[g])
    /\ \A k \in Slots(im.heap, 0) : Saved(im.heap, im.heap[k])

(* The inductive invariant.                                                *)
IInv ==
    /\ Running => VMOK(vm)
    /\ Intact => ImageOK(image)

LEMMA VMFields ==
    ASSUME NEW v, VMOK(v)
    PROVE  /\ v.native \in BOOLEAN
           /\ v.globals \in [1 .. Globals -> Value]
           /\ v.buckets \in Seq(Bucket)
           /\ v = [native |-> v.native, globals |-> v.globals, buckets |-> v.buckets]
BY DEF VMOK, VM

(* A pointer is decoded to the offset of its allocation.                   *)
LEMMA PointersResolve ==
    ASSUME NEW v, BucketsOK(v.buckets),
           NEW i \in DOMAIN v.buckets, NEW h \in Tagged(v.buckets[i].words)
    PROVE  /\ At(v, i, h) \in Nat
           /\ OffsetOf(v, Ptr(At(v, i, h))) = v.buckets[i].start + h
           /\ Encode(v.native, v.buckets, v.buckets[i].at + h) = Ptr(At(v, i, h))
<1>1. BucketsOK(v.buckets)
  OBVIOUS
<1>2. h \in Nat /\ v.buckets[i].at \in Nat /\ v.buckets[i].start \in Nat
  <2>1. v.buckets[i].at \in Nat /\ v.buckets[i].start \in Nat /\ Len(v.buckets[i].words) \in Nat
    BY <1>1, BucketFields
  <2>2. h \in 1 .. Len(v.buckets[i].words) - 1
    BY <1>1, AddressResolves
  <2> QED
    BY <2>1, <2>2
<1>3. PointerOffsetInHeap(v.buckets, v.buckets[i].at + h) = v.buckets[i].start + h
  BY <1>1, AddressResolves
<1>4. At(v, i, h) \in Nat
  BY <1>2 DEF At
<1>5. OffsetOf(v, Ptr(At(v, i, h))) = v.buckets[i].start + h
  BY <1>3, NumAndPtr DEF OffsetOf, At
<1>6. Encode(v.native, v.buckets, v.buckets[i].at + h) = Ptr(At(v, i, h))
  BY <1>3 DEF Encode, At
<1> QED
  BY <1>4, <1>5, <1>6

(* A value of a VM becomes a value of an image.                            *)
LEMMA ValuesSerialize ==
    ASSUME NEW v, VMOK(v), NEW words, Flat(words, v.buckets), NEW w \in Value, Leads(v, w)
    PROVE  /\ SerializePtr(v, w) \in Value
           /\ Saved(words, SerializePtr(v, w))
           /\ IsPtr(w) => OffsetOf(v, w) \in Tagged(words)
<1>1. CASE ~IsPtr(w)
  BY <1>1 DEF SerializePtr, Saved
<1>2. CASE IsPtr(w)
  <2>1. PICK i \in DOMAIN v.buckets : \E h \in Tagged(v.buckets[i].words) : w = Ptr(At(v, i, h))
    BY <1>2 DEF Leads
  <2>2. PICK h \in Tagged(v.buckets[i].words) : w = Ptr(At(v, i, h))
    BY <2>1
  <2>3. BucketsOK(v.buckets)
    BY DEF VMOK
  <2>4. OffsetOf(v, w) = v.buckets[i].start + h
    BY <2>2, <2>3, PointersResolve
  <2>5. OffsetOf(v, w) \in Tagged(words)
    BY <2>3, <2>4, HeadersOfFlat
  <2>6. OffsetOf(v, w) \in Nat
    BY <2>3, <2>4, BucketFields, AddressResolves
  <2>7. SerializePtr(v, w) = Ptr(OffsetOf(v, w))
    BY <1>2 DEF SerializePtr
  <2> QED
    BY <2>5, <2>6, <2>7, NumAndPtr DEF Saved
<1> QED
  BY <1>1, <1>2

LEMMA RunningIsExact == Running /\ VMOK(vm) => PointersAreExact
<1> SUFFICES ASSUME VMOK(vm),
                    NEW w \in ToSet(vm.globals) \cup {Heap[i] : i \in Slots(Heap, 0)}, IsPtr(w)
             PROVE  OffsetOf(vm, w) \in Headers(Heap)
  BY DEF PointersAreExact
<1>1. BucketsOK(vm.buckets)
  BY DEF VMOK
<1>2. Flat(Heap, vm.buckets)
  BY <1>1, FlatWords, ConcatIsFlat, HeapIsConcat
<1>0. Headers(Heap) = Tagged(Heap)
  BY <1>1, <1>2, HeadersOfFlat, WalkFindsHeaders DEF Flat
<1>3. w \in Value /\ Leads(vm, w)
  <2>1. CASE w \in ToSet(vm.globals)
    BY <2>1 DEF VMOK, VM, ToSet
  <2>2. CASE w \in {Heap[i] : i \in Slots(Heap, 0)}
    <3>1. PICK k \in Slots(Heap, 0) : w = Heap[k]
      BY <2>2
    <3>2. PICK i \in DOMAIN vm.buckets : \E h \in Slots(vm.buckets[i].words, 0) :
                Heap[k] = vm.buckets[i].words[h]
      BY <1>1, <1>2, <3>1, HeadersOfFlat
    <3>3. PICK h \in Slots(vm.buckets[i].words, 0) : Heap[k] = vm.buckets[i].words[h]
      BY <3>2
    <3>4. vm.buckets[i].words \in Seq(Word) /\ Parsed(vm.buckets[i].words)
      BY <1>1, BucketFields
    <3>5. vm.buckets[i].words[h] \in Value
      BY <3>4, SlotsAreWords
    <3> QED
      BY <3>1, <3>3, <3>5 DEF VMOK
  <2> QED
    BY <2>1, <2>2
<1> QED
  BY <1>0, <1>2, <1>3, ValuesSerialize

-----------------------------------------------------------------------------
(* The snapshot and the way back.                                          *)

LEMMA SealedParts ==
    ASSUME NEW globals, NEW words
    PROVE  LET im == Sealed([globals |-> globals, heap |-> words])
           IN  /\ im.globals = globals /\ im.heap = words
               /\ im = Sealed([globals |-> im.globals, heap |-> im.heap])
BY DEF Sealed

LEMMA InitEstablishes == Init => IInv
<1> SUFFICES ASSUME Init PROVE IInv
  OBVIOUS
<1>1. ~Running
  BY DEF Init, Running
<1> DEFINE globals == [g \in 1 .. Globals |-> Num]
<1>2. image = Sealed([globals |-> globals, heap |-> <<>>])
  BY DEF Init
<1>3. image.globals = globals /\ image.heap = <<>>
      /\ image = Sealed([globals |-> image.globals, heap |-> image.heap])
  BY <1>2, SealedParts
<1>4. image.globals \in [1 .. Globals -> Value]
  BY <1>3, NumAndPtr
<1>5. Tagged(<<>>) = {}
  BY DEF Tagged
<1>6. Parsed(<<>>) /\ Slots(<<>>, 0) = {}
  BY EmptyHeap
<1>7. \A g \in 1 .. Globals : ~IsPtr(image.globals[g])
  BY <1>3, NumAndPtr
<1>8. <<>> \in Seq(Word) /\ Len(<<>>) <= MaxWords
  BY Sizes
<1> QED
  BY <1>1, <1>3, <1>4, <1>6, <1>7, <1>8 DEF IInv, ImageOK, Saved

LEMMA SnapshotWords ==
    ASSUME NEW v, VMOK(v), NEW words, Flat(words, v.buckets), NEW new,
           new = [i \in DOMAIN words |-> IF i \in Slots(words, 0) THEN SerializePtr(v, words[i])
                                         ELSE words[i]]
    PROVE  /\ new \in Seq(Word) /\ Len(new) = Len(words)
           /\ Tagged(new) = Tagged(words)
           /\ \A h \in Tagged(words) : new[h] = words[h]
           /\ Parsed(new)
           /\ Slots(new, 0) = Slots(words, 0)
           /\ \A k \in Slots(new, 0) : Saved(new, new[k])
<1>1. BucketsOK(v.buckets)
  BY DEF VMOK
<1>2. words \in Seq(Word) /\ Parsed(words)
  BY <1>1, HeadersOfFlat DEF Flat
<1>3. ASSUME NEW k \in Slots(words, 0)
      PROVE  words[k] \in Value /\ Leads(v, words[k])
  <2>1. words[k] \in Value
    BY <1>2, SlotsAreWords
  <2>2. PICK i \in DOMAIN v.buckets : \E h \in Slots(v.buckets[i].words, 0) :
              words[k] = v.buckets[i].words[h]
    BY <1>1, HeadersOfFlat
  <2> QED
    BY <2>1, <2>2 DEF VMOK
<1>4. \A k \in Slots(words, 0) : k \in DOMAIN words /\ k \in Slots(words, 1)
  BY <1>2, SlotsAreWords
<1>5. \A k \in Slots(words, 0) : new[k] = SerializePtr(v, words[k])
  BY <1>4
<1>6. \A k \in Slots(words, 0) : SerializePtr(v, words[k]) \in Value /\ Saved(words, SerializePtr(v, words[k]))
  BY <1>3, ValuesSerialize
<1>7. \A i \in DOMAIN words : new[i] = words[i] \/ (i \in Slots(words, 1) /\ new[i] \in Value)
  BY <1>4, <1>5, <1>6
<1>8. new = [i \in DOMAIN words |-> new[i]]
  OBVIOUS
<1>9. /\ new \in Seq(Word) /\ Len(new) = Len(words)
      /\ Tagged(new) = Tagged(words)
      /\ \A h \in Tagged(words) : new[h] = words[h]
      /\ Parsed(new)
      /\ Slots(new, 0) = Slots(words, 0)
  BY ONLY <1>2, <1>7, <1>8, Overwritten
<1>10. \A k \in Slots(new, 0) : Saved(new, new[k])
  BY <1>5, <1>6, <1>9 DEF Saved
<1> QED
  BY <1>9, <1>10

\* A snapshot that is not too large, and malloc did not fail.
Taken ==
    /\ Running
    /\ image' = Sealed(SerializePointers(vm, vm.globals, HeapCopied(vm.buckets)))
    /\ UNCHANGED <<status, vm>>

LEMMA SnapshotOrNone ==
    CreateSnapshot => \/ Taken
                      \/ UNCHANGED vars
                      \/ Running /\ status' = "fatal" /\ UNCHANGED <<vm, image>>
BY DEF CreateSnapshot, Taken, vars

LEMMA TakenPreserves == IInv /\ Taken => IInv'
<1> SUFFICES ASSUME IInv, Taken PROVE IInv'
  OBVIOUS
<1>1. VMOK(vm) /\ BucketsOK(vm.buckets) /\ vm' = vm /\ status' = status
  BY DEF IInv, Taken, VMOK
<1>2. PICK words : Flat(words, vm.buckets)
  BY <1>1, FlatWords
<1>3. HeapCopied(vm.buckets) = words
  BY <1>1, <1>2, HeapCopiedIsFlat
<1> DEFINE globals == [g \in DOMAIN vm.globals |-> SerializePtr(vm, vm.globals[g])]
           new     == [i \in DOMAIN words |-> IF i \in Slots(words, 0)
                                              THEN SerializePtr(vm, words[i]) ELSE words[i]]
<1>4. image' = Sealed([globals |-> globals, heap |-> new])
  BY <1>3 DEF Taken, SerializePointers
<1>5. /\ image'.globals = globals /\ image'.heap = new
      /\ image' = Sealed([globals |-> image'.globals, heap |-> image'.heap])
  <2> HIDE DEF globals, new
  <2> QED
    BY <1>4, SealedParts
<1>6. /\ new \in Seq(Word) /\ Len(new) = Len(words)
      /\ Tagged(new) = Tagged(words)
      /\ Parsed(new)
      /\ \A k \in Slots(new, 0) : Saved(new, new[k])
  <2>1. new = [i \in DOMAIN words |-> IF i \in Slots(words, 0)
                                      THEN SerializePtr(vm, words[i]) ELSE words[i]]
    OBVIOUS
  <2> HIDE DEF new
  <2> QED
    BY <1>1, <1>2, <2>1, SnapshotWords
<1>7. \A g \in 1 .. Globals : SerializePtr(vm, vm.globals[g]) \in Value
                              /\ Saved(words, SerializePtr(vm, vm.globals[g]))
  <2> SUFFICES ASSUME NEW g \in 1 .. Globals
               PROVE  SerializePtr(vm, vm.globals[g]) \in Value
                      /\ Saved(words, SerializePtr(vm, vm.globals[g]))
    OBVIOUS
  <2>1. vm.globals[g] \in Value /\ Leads(vm, vm.globals[g])
    BY <1>1, VMFields DEF VMOK
  <2> QED
    BY <1>1, <1>2, <2>1, ValuesSerialize
<1>8. globals \in [1 .. Globals -> Value] /\ \A g \in 1 .. Globals : Saved(new, globals[g])
  <2>1. DOMAIN vm.globals = 1 .. Globals
    BY <1>1, VMFields
  <2> HIDE DEF new
  <2> QED
    BY <1>6, <1>7, <2>1 DEF Saved
<1>9. Len(new) <= MaxWords
  BY <1>1, <1>2, <1>6, UsedOfBuckets DEF Flat
<1>10. ImageOK(image')
  <2> HIDE DEF globals, new
  <2> QED
    BY <1>5, <1>6, <1>8, <1>9 DEF ImageOK
<1> QED
  BY <1>1, <1>10 DEF IInv, Running

LEMMA CreateSnapshotPreserves == IInv /\ CreateSnapshot => IInv'
<1> SUFFICES ASSUME IInv, CreateSnapshot PROVE IInv'
  OBVIOUS
<1>1. CASE UNCHANGED vars
  <2>1. status' = status /\ vm' = vm /\ image' = image
    BY <1>1 DEF vars
  <2> QED
    BY <2>1 DEF IInv, Running, Intact
<1>2. CASE Running /\ status' = "fatal" /\ UNCHANGED <<vm, image>>
  <2>1. ~Running' /\ image' = image
    BY <1>2 DEF Running
  <2> QED
    BY <2>1 DEF IInv, Intact
<1> QED
  BY <1>1, <1>2, TakenPreserves, SnapshotOrNone

-----------------------------------------------------------------------------
(* mvm_restore.                                                            *)

\* What becomes of a word of the image that is taken for a value.
LoadOf(native, w) ==
    IF IsPtr(w) THEN Encode(native, <<FirstBucket>>, Min({FirstBucket.at + w[2], Far})) ELSE w

LEMMA OneBucket ==
    ASSUME NEW b \in Bucket, b.at = Address(0), b.start = 0, Parsed(b.words),
           Len(b.words) <= MaxWords
    PROVE  BucketsOK(<<b>>) /\ UsedWords(<<b>>) = Len(b.words) /\ Flat(b.words, <<b>>)
<1>1. <<b>> \in Seq(Bucket) /\ Len(<<b>>) = 1 /\ DOMAIN <<b>> = {1} /\ <<b>>[1] = b
  OBVIOUS
<1>2. b.words \in Seq(Word) /\ Len(b.words) \in Nat
  BY DEF Bucket
<1>3. UsedWords(<<b>>) = Len(b.words)
  BY <1>1, <1>2 DEF UsedWords, Last
<1>4. BucketsOK(<<b>>)
  BY <1>1, <1>3 DEF BucketsOK
<1>5. Flat(b.words, <<b>>)
  BY <1>1, <1>2, <1>3 DEF Flat
<1> QED
  BY <1>3, <1>4, <1>5

LEMMA FirstBucketOK ==
    ASSUME ImageOK(image)
    PROVE  /\ FirstBucket \in Bucket
           /\ FirstBucket.at = Address(0) /\ FirstBucket.at = 1 /\ FirstBucket.start = 0
           /\ FirstBucket.words = image.heap
           /\ BucketsOK(<<FirstBucket>>)
<1>1. BucketsOK(<<>>)
  <2>1. <<>> \in Seq(Bucket) /\ DOMAIN <<>> = {}
    OBVIOUS
  <2>2. UsedWords(<<>>) <= MaxWords
    BY Sizes DEF UsedWords
  <2> QED
    BY <2>1, <2>2 DEF BucketsOK
<1>2. FreeAddress(<<>>) = Address(0)
  <2>1. {Address(p) : p \in 0 .. Len(<<>>)} \ {<<>>[i].at : i \in DOMAIN <<>>} = {Address(0)}
    OBVIOUS
  <2>2. Address(0) \in Nat
    BY Addresses
  <2>3. Min({Address(0)}) = Address(0)
    BY <2>2, MinOfSet
  <2> QED
    BY <2>1, <2>3 DEF FreeAddress
<1>3. Address(0) = 1
  BY Sizes DEF Address
<1>4. image.heap \in Seq(Word) /\ Len(image.heap) \in Nat /\ Len(image.heap) <= MaxWords /\ Parsed(image.heap)
  BY DEF ImageOK
<1>5. FirstBucket \in Bucket /\ FirstBucket.at = 1 /\ FirstBucket.start = 0
      /\ FirstBucket.words = image.heap
  BY <1>2, <1>3, <1>4 DEF FirstBucket, Bucket
<1> QED
  BY <1>3, <1>4, <1>5, OneBucket

LEMMA MinOfTwo ==
    ASSUME NEW a \in Nat, NEW b \in Nat
    PROVE  Min({a, b}) = IF a <= b THEN a ELSE b
<1>1. Min({a, b}) \in {a, b} /\ \A x \in {a, b} : Min({a, b}) <= x
  BY MinOfSet
<1> QED
  BY <1>1

LEMMA FarIsFar == Far \in Nat /\ MaxWords + 1 < Far
<1>1. PICK m \in Nat : m = MaxWords + 1 /\ m > 1
  BY Sizes
<1>2. m * m >= 2 * m
  BY <1>1
<1> QED
  BY <1>1, <1>2 DEF Far

(* A pointer to an allocation is loaded as one.                            *)
LEMMA PointersLoad ==
    ASSUME ImageOK(image), NEW native \in BOOLEAN, NEW h \in Tagged(image.heap)
    PROVE  LoadOf(native, Ptr(h)) = Ptr(IF native THEN FirstBucket.at + h ELSE FirstBucket.start + h)
<1>1. BucketsOK(<<FirstBucket>>) /\ 1 \in DOMAIN <<FirstBucket>> /\ <<FirstBucket>>[1] = FirstBucket
  BY FirstBucketOK
<1>2. /\ h \in 1 .. Len(image.heap) - 1
      /\ PointerOffsetInHeap(<<FirstBucket>>, FirstBucket.at + h) = FirstBucket.start + h
  BY <1>1, FirstBucketOK, AddressResolves
<1>3. Len(image.heap) \in Nat /\ Len(image.heap) <= MaxWords /\ FirstBucket.at = 1
  BY FirstBucketOK DEF ImageOK
<1>4. Min({FirstBucket.at + h, Far}) = FirstBucket.at + h
  BY <1>2, <1>3, FarIsFar, MinOfTwo, Sizes
<1> QED
  BY <1>2, <1>4, NumAndPtr DEF LoadOf, Encode

(* The other words that are taken for values become values.                *)
LEMMA SlotsLoad ==
    ASSUME ImageOK(image), image.heap # <<>>, NEW native \in BOOLEAN, ~Unloadable(native),
           NEW i \in LoadedSlots
    PROVE  LoadOf(native, image.heap[i]) \in Value
<1>1. image.heap[i] \in Value
  BY SlotsAreWords DEF ImageOK, LoadedSlots
<1>2. CASE ~IsPtr(image.heap[i])
  BY <1>1, <1>2 DEF LoadOf
<1>3. CASE IsPtr(image.heap[i])
  <2> DEFINE n == image.heap[i][2]
             a == FirstBucket.at + n
  <2>1. n \in Nat /\ FirstBucket.at = 1
    BY <1>1, <1>3, Values, FirstBucketOK
  <2>2. Min({a, Far}) \in Nat
    <3>1. a \in Nat /\ Far \in Nat
      BY <2>1, FarIsFar
    <3> HIDE DEF a
    <3> QED
      BY <3>1, MinOfTwo
  <2>3. CASE native
    BY <1>3, <2>2, <2>3, NumAndPtr DEF LoadOf, Encode
  <2>4. CASE ~native
    <3>1. InBucket(FirstBucket, a)
      BY <1>3, <2>4 DEF Unloadable
    <3>2. a <= 1 + MaxWords
      <4>1. Len(FirstBucket.words) \in Nat /\ Len(FirstBucket.words) <= MaxWords
        BY FirstBucketOK DEF ImageOK
      <4> QED
        BY <2>1, <3>1, <4>1, Sizes DEF InBucket
    <3>3. Min({a, Far}) = a
      BY <2>1, <3>2, FarIsFar, MinOfTwo, Sizes
    <3>4. Max({j \in DOMAIN <<FirstBucket>> : InBucket(<<FirstBucket>>[j], a)}) = 1
      <4>1. {j \in DOMAIN <<FirstBucket>> : InBucket(<<FirstBucket>>[j], a)} = {1}
        BY <3>1
      <4> QED
        BY <4>1, MaxOfOne
    <3>5. PointerOffsetInHeap(<<FirstBucket>>, a) = n
      <4>1. <<FirstBucket>>[1] = FirstBucket /\ FirstBucket.start = 0
        BY FirstBucketOK
      <4>2. PointerOffsetInHeap(<<FirstBucket>>, a) = FirstBucket.start + (a - FirstBucket.at)
        BY <3>4, <4>1 DEF PointerOffsetInHeap
      <4> QED
        BY <2>1, <4>1, <4>2
    <3> QED
      BY <1>3, <2>1, <2>4, <3>3, <3>5, NumAndPtr DEF LoadOf, Encode
  <2> QED
    BY <2>3, <2>4
<1> QED
  BY <1>2, <1>3

(* The VM that mvm_restore makes of an image with a heap.                  *)
LEMMA LoadedVM ==
    ASSUME ImageOK(image), image.heap # <<>>, NEW native \in BOOLEAN, ~Unloadable(native)
    PROVE  LET v     == LoadPointers(native)
               words == v.buckets[1].words
           IN
           /\ VMOK(v)
           /\ v.native = native /\ v.globals = [g \in 1 .. Globals |-> LoadOf(native, image.globals[g])]
           /\ Flat(words, v.buckets)
           /\ words = [i \in DOMAIN image.heap |-> IF i \in LoadedSlots THEN LoadOf(native, image.heap[i])
                                                   ELSE image.heap[i]]
           /\ Tagged(words) = Tagged(image.heap)
           /\ \A h \in Tagged(words) : words[h] = image.heap[h]
           /\ Slots(words, 0) = Slots(image.heap, 0) /\ Slots(words, 0) \subseteq LoadedSlots
           /\ \A h \in Tagged(words) : LoadOf(native, Ptr(h)) = Ptr(At(v, 1, h))
           /\ v.buckets[1] = [FirstBucket EXCEPT !.words = words] /\ Len(v.buckets) = 1
<1> DEFINE v     == LoadPointers(native)
           words == v.buckets[1].words
<1> HIDE DEF v, words
<1> DEFINE new == [i \in DOMAIN image.heap |-> IF i \in LoadedSlots THEN LoadOf(native, image.heap[i])
                                               ELSE image.heap[i]]
           b == [FirstBucket EXCEPT !.words = new]
           globals == [g \in 1 .. Globals |-> LoadOf(native, image.globals[g])]
<1>1. image.heap \in Seq(Word) /\ Parsed(image.heap) /\ FirstBucket.words = image.heap
  BY FirstBucketOK DEF ImageOK
<1>2. DOMAIN image.globals = 1 .. Globals
  BY DEF ImageOK
<1>3. FirstBucket = [at |-> FreeAddress(<<>>), start |-> 0, room |-> Len(image.heap), words |-> image.heap]
  BY DEF FirstBucket
<1>4. [FirstBucket EXCEPT !.words =
          [i \in DOMAIN @ |-> IF i \in LoadedSlots THEN LoadOf(native, @[i]) ELSE @[i]]] = b
  BY <1>1
<1>5. v = [native |-> native, globals |-> globals, buckets |-> <<b>>]
  <2>1. v = [native  |-> native,
             globals |-> [g \in DOMAIN image.globals |-> LoadOf(native, image.globals[g])],
             buckets |-> <<[FirstBucket EXCEPT !.words =
                [i \in DOMAIN @ |-> IF i \in LoadedSlots THEN LoadOf(native, @[i]) ELSE @[i]]]>>]
    BY DEF LoadPointers, LoadOf, v
  <2> QED
    BY <1>2, <1>4, <2>1
<1>6. v.native = native /\ v.globals = globals /\ v.buckets = <<b>> /\ v.buckets[1] = b
  <2> HIDE DEF globals, b
  <2> QED
    BY <1>5
<1>7. b.at = FirstBucket.at /\ b.start = FirstBucket.start /\ b.words = new /\ words = new
      /\ b.room = FirstBucket.room
  <2>1. words = b.words
    BY <1>6 DEF words
  <2> HIDE DEF new
  <2> QED
    BY <1>3, <2>1
<1>8. /\ new \in Seq(Word) /\ Len(new) = Len(image.heap)
      /\ Tagged(new) = Tagged(image.heap)
      /\ \A h \in Tagged(image.heap) : new[h] = image.heap[h]
      /\ Parsed(new)
      /\ Slots(new, 0) = Slots(image.heap, 0) /\ Slots(new, 1) = Slots(image.heap, 1)
  <2>1. new = [i \in DOMAIN image.heap |-> new[i]]
    OBVIOUS
  <2>2. \A i \in DOMAIN image.heap : new[i] = image.heap[i]
                                     \/ (i \in Slots(image.heap, 1) /\ new[i] \in Value)
    BY SlotsLoad DEF LoadedSlots
  <2> HIDE DEF new
  <2> QED
    BY ONLY <1>1, <2>1, <2>2, Overwritten
<1>9. Slots(new, 0) \subseteq LoadedSlots
  BY <1>1, <1>8, SlotsAreWords DEF LoadedSlots
<1> HIDE DEF new
<1>10. b \in Bucket
  BY <1>3, <1>8, FirstBucketOK DEF Bucket
<1>11. BucketsOK(<<b>>) /\ Flat(new, <<b>>)
  <2>1. b.at = Address(0) /\ b.start = 0 /\ Parsed(b.words) /\ Len(b.words) <= MaxWords
    BY <1>7, <1>8, FirstBucketOK DEF ImageOK
  <2> HIDE DEF b
  <2> QED
    BY <1>7, <1>10, <2>1, OneBucket
<1> HIDE DEF b
<1>12. \A h \in Tagged(new) : LoadOf(native, Ptr(h)) = Ptr(At(v, 1, h))
  BY <1>6, <1>7, <1>8, PointersLoad DEF At
<1>13. ASSUME NEW w \in Value, Saved(image.heap, w)
       PROVE  LoadOf(native, w) \in Value /\ Leads(v, LoadOf(native, w))
  <2>1. CASE ~IsPtr(w)
    BY <2>1 DEF LoadOf, Leads
  <2>2. CASE IsPtr(w)
    <3>1. PICK h \in Tagged(new) : w = Ptr(h)
      BY <1>8, <1>13, <2>2 DEF Saved
    <3>2. LoadOf(native, w) = Ptr(At(v, 1, h))
      BY <1>12, <3>1
    <3>3. At(v, 1, h) \in Nat
      <4>1. h \in Nat /\ b.at \in Nat /\ b.start \in Nat
        BY <1>7, <1>8, FirstBucketOK, TaggedAreHeaderWords
      <4> QED
        BY <1>6, <4>1 DEF At
    <3>4. 1 \in DOMAIN v.buckets /\ h \in Tagged(v.buckets[1].words)
      BY <1>6, <1>7, <3>1
    <3> QED
      BY <3>2, <3>3, <3>4, NumAndPtr DEF Leads
  <2> QED
    BY <2>1, <2>2
<1>14. \A g \in 1 .. Globals : LoadOf(native, image.globals[g]) \in Value /\ Leads(v, LoadOf(native, image.globals[g]))
  BY <1>13 DEF ImageOK
<1>15. \A k \in Slots(new, 0) : Leads(v, new[k])
  <2> SUFFICES ASSUME NEW k \in Slots(new, 0) PROVE Leads(v, new[k])
    OBVIOUS
  <2>1. new[k] = LoadOf(native, image.heap[k])
    <3>1. k \in DOMAIN image.heap
      BY <1>1, <1>8, SlotsAreWords
    <3> QED
      BY <1>9, <3>1 DEF new
  <2>2. image.heap[k] \in Value /\ Saved(image.heap, image.heap[k])
    BY <1>1, <1>8, SlotsAreWords DEF ImageOK
  <2> QED
    BY <1>13, <2>1, <2>2
<1>16. v \in VM
  <2>1. globals \in [1 .. Globals -> Value]
    BY <1>14
  <2>2. <<b>> \in Seq(Bucket)
    BY <1>10
  <2> HIDE DEF globals
  <2> QED
    BY <1>5, <2>1, <2>2 DEF VM
<1>17. VMOK(v)
  <2>1. \A g \in 1 .. Globals : Leads(v, v.globals[g])
    BY <1>6, <1>14
  <2>2. \A i \in DOMAIN v.buckets : \A k \in Slots(v.buckets[i].words, 0) : Leads(v, v.buckets[i].words[k])
    BY <1>6, <1>7, <1>15
  <2> QED
    BY <1>6, <1>11, <1>16, <2>1, <2>2 DEF VMOK
<1>18. b = [FirstBucket EXCEPT !.words = words] /\ Len(v.buckets) = 1
  BY <1>6, <1>7 DEF b
<1>19. words = [i \in DOMAIN image.heap |-> IF i \in LoadedSlots THEN LoadOf(native, image.heap[i])
                                            ELSE image.heap[i]]
  BY <1>7 DEF new
<1>20. Flat(words, v.buckets)
  BY <1>6, <1>7, <1>11
<1> QED
  <2> HIDE DEF globals
  <2>1. v.globals = [g \in 1 .. Globals |-> LoadOf(native, image.globals[g])]
    BY <1>6 DEF globals
  <2> QED
    BY <1>6, <1>7, <1>8, <1>9, <1>12, <1>17, <1>18, <1>19, <1>20, <2>1 DEF v, words

LEMMA RestorePreserves == \A native \in BOOLEAN : IInv /\ Restore(native) => IInv'
<1> SUFFICES ASSUME IInv, NEW native \in BOOLEAN, Restore(native) PROVE IInv'
  OBVIOUS
<1>1. ImageOK(image) /\ image' = image
  BY DEF IInv, Restore
<1>2. Intact' => ImageOK(image')
  BY <1>1
<1>3. ASSUME Running' PROVE VMOK(vm')
  <2>1. ~Unloadable(native)
    BY <1>3 DEF Restore, Running
  <2>2. CASE image.heap = <<>>
    <3>1. vm' = [native |-> native, globals |-> image.globals, buckets |-> <<>>]
      BY <2>2 DEF Restore
    <3>2. Tagged(<<>>) = {}
      BY DEF Tagged
    <3>3. \A g \in 1 .. Globals : ~IsPtr(image.globals[g])
      BY <1>1, <2>2, <3>2 DEF ImageOK, Saved
    <3>4. BucketsOK(<<>>)
      <4>1. <<>> \in Seq(Bucket) /\ DOMAIN <<>> = {} /\ UsedWords(<<>>) = 0
        BY DEF UsedWords
      <4> QED
        BY <4>1, Sizes DEF BucketsOK
    <3>5. <<>> \in Seq(Bucket) /\ image.globals \in [1 .. Globals -> Value]
      BY <1>1 DEF ImageOK
    <3>6. vm'.globals = image.globals /\ vm'.buckets = <<>>
      BY <3>1
    <3>7. vm' \in VM
      BY <3>1, <3>5 DEF VM
    <3> QED
      BY <3>3, <3>4, <3>6, <3>7 DEF VMOK, Leads
  <2>3. CASE image.heap # <<>>
    <3>1. vm' = LoadPointers(native)
      BY <2>1, <2>3 DEF Restore
    <3> QED
      BY <1>1, <2>1, <2>3, <3>1, LoadedVM
  <2> QED
    BY <2>2, <2>3
<1> QED
  BY <1>2, <1>3 DEF IInv

-----------------------------------------------------------------------------
(* Allocations.                                                            *)

\* The words of a bucket with one more allocation.
Longer(words, header, content) == words \o <<header, content>>

LEMMA WordsExtended ==
    ASSUME NEW words \in Seq(Word), Parsed(words), NEW header \in HeaderWord, NEW content \in Value
    PROVE  LET new == Longer(words, header, content) IN
           /\ new \in Seq(Word) /\ Len(new) = Len(words) + 2
           /\ Tagged(new) = Tagged(words) \cup {Len(words) + 1}
           /\ Parsed(new)
           /\ \A k \in Slots(new, 0) :
                 \/ k \in Slots(words, 0) /\ new[k] = words[k]
                 \/ header[2] = "container" /\ header[3] = 2 /\ new[k] = content
<1> DEFINE new == Longer(words, header, content)
<1> HIDE DEF new
<1>1. Len(words) \in Nat /\ header \in Word /\ content \in Word
  BY Values DEF Word
<1>2. <<header, content>> \in Seq(Word) /\ Len(<<header, content>>) = 2
  BY <1>1
<1>3. new \in Seq(Word) /\ Len(new) = Len(words) + 2
  BY <1>2 DEF new, Longer
<1>4. /\ \A k \in 1 .. Len(words) : new[k] = words[k]
      /\ new[Len(words) + 1] = header /\ new[Len(words) + 2] = content
  <2>1. \A k \in 1 .. Len(words) : new[k] = words[k]
    BY <1>1, <1>2 DEF new, Longer
  <2>2. \A k \in Len(words) + 1 .. Len(words) + 2 : new[k] = <<header, content>>[k - Len(words)]
    BY <1>1, <1>2 DEF new, Longer
  <2>3. /\ new[Len(words) + 1] = <<header, content>>[1]
        /\ new[Len(words) + 2] = <<header, content>>[2]
    <3>1. /\ Len(words) + 1 - Len(words) = 1 /\ Len(words) + 2 - Len(words) = 2
          /\ Len(words) + 1 \in Len(words) + 1 .. Len(words) + 2
          /\ Len(words) + 2 \in Len(words) + 1 .. Len(words) + 2
      BY <1>1
    <3> QED
      BY <2>2, <3>1
  <2> QED
    BY <2>1, <2>3
<1>5. \A k \in 1 .. Len(new) : k \in 1 .. Len(words) \/ k = Len(words) + 1 \/ k = Len(words) + 2
  BY <1>1, <1>3
<1>6. header[1] = "header" /\ content[1] # "header"
  BY HeaderWords, Values
<1>7. DOMAIN new = 1 .. Len(new) /\ DOMAIN words = 1 .. Len(words)
  BY <1>3
<1>8. 1 .. Len(words) \subseteq 1 .. Len(new) /\ Len(words) + 1 \in 1 .. Len(new) /\ Len(words) + 2 \in 1 .. Len(new)
  BY <1>1, <1>3
<1>9. Tagged(new) = Tagged(words) \cup {Len(words) + 1}
  BY <1>4, <1>5, <1>6, <1>7, <1>8 DEF Tagged
<1>10. Parsed(new)
  <2> SUFFICES ASSUME NEW h \in Tagged(new)
               PROVE  new[h] \in HeaderWord /\ h + 1 \in DOMAIN new /\ new[h + 1] \in Value
    <3>1. ASSUME NEW k \in DOMAIN new \ Tagged(new)
          PROVE  k - 1 \in Tagged(new)
      <4>1. CASE k \in 1 .. Len(words)
        <5>1. k \notin Tagged(words)
          BY <1>9, <3>1
        <5>2. k - 1 \in Tagged(words)
          BY <1>7, <4>1, <5>1 DEF Parsed
        <5> QED
          BY <1>9, <5>2
      <4>2. CASE k = Len(words) + 2
        <5>1. k - 1 = Len(words) + 1
          BY <1>1, <4>2
        <5> QED
          BY <1>9, <5>1
      <4>3. k # Len(words) + 1
        BY <1>9, <3>1
      <4> QED
        BY <1>5, <1>7, <3>1, <4>1, <4>2, <4>3
    <3> QED
      BY <3>1 DEF Parsed
  <2>1. CASE h \in Tagged(words)
    <3>1. h \in 1 .. Len(words) /\ h + 1 \in 1 .. Len(words)
          /\ words[h] \in HeaderWord /\ words[h + 1] \in Value
      BY <1>7, <2>1 DEF Parsed, Tagged
    <3> QED
      BY <1>4, <1>7, <1>8, <3>1
  <2>2. CASE h = Len(words) + 1
    <3>1. h + 1 = Len(words) + 2
      BY <1>1, <2>2
    <3> QED
      BY <1>4, <1>7, <1>8, <2>2, <3>1
  <2> QED
    BY <1>9, <2>1, <2>2
<1>11. ASSUME NEW k \in Slots(new, 0)
       PROVE  \/ k \in Slots(words, 0) /\ new[k] = words[k]
              \/ header[2] = "container" /\ header[3] = 2 /\ new[k] = content
  <2>1. PICK h \in Tagged(new) : k = h + 1 /\ new[h][2] = "container" /\ new[h][3] = 2
    <3>1. Slots(new, 0) = {h + 1 : h \in {g \in Tagged(new) : new[g][2] = "container" /\ new[g][3] = 2}}
      BY ONLY <1>3, <1>10, SlotsAreWords
    <3> QED
      BY <3>1
  <2>2. CASE h \in Tagged(words)
    <3>1. h \in 1 .. Len(words) /\ h + 1 \in 1 .. Len(words)
      BY <1>7, <2>2 DEF Parsed, Tagged
    <3>2. new[h] = words[h] /\ new[k] = words[k]
      BY <1>4, <2>1, <3>1
    <3>3. k \in Slots(words, 0)
      BY <2>1, <2>2, <3>2, SlotsAreWords
    <3> QED
      BY <3>2, <3>3
  <2>3. CASE h = Len(words) + 1
    <3>1. k = Len(words) + 2
      BY <1>1, <2>1, <2>3
    <3> QED
      BY <1>4, <2>1, <2>3, <3>1
  <2> QED
    BY <1>9, <2>2, <2>3
<1> QED
  BY <1>3, <1>9, <1>10, <1>11 DEF new

(* What an allocation keeps of the buckets and what it adds.               *)
Grown(bs, nb, header, content) ==
    /\ BucketsOK(nb) /\ nb # <<>>
    /\ \A i \in DOMAIN bs :
          /\ i \in DOMAIN nb
          /\ nb[i].at = bs[i].at /\ nb[i].start = bs[i].start
          /\ Tagged(bs[i].words) \subseteq Tagged(nb[i].words)
    /\ Len(nb[Len(nb)].words) - 1 \in Tagged(nb[Len(nb)].words)
    /\ \A i \in DOMAIN nb : \A k \in Slots(nb[i].words, 0) :
          \/ i \in DOMAIN bs /\ k \in Slots(bs[i].words, 0) /\ nb[i].words[k] = bs[i].words[k]
          \/ header[2] = "container" /\ header[3] = 2 /\ nb[i].words[k] = content

LEMMA LastBucketGrows ==
    ASSUME NEW bs, BucketsOK(bs), bs # <<>>, NEW header \in HeaderWord, NEW content \in Value,
           NEW nb, nb = [bs EXCEPT ![Len(bs)].words = @ \o <<header, content>>],
           UsedWords(nb) <= MaxWords
    PROVE  Grown(bs, nb, header, content)
<1> DEFINE l   == Len(bs)
           new == Longer(bs[l].words, header, content)
<1>1. bs \in Seq(Bucket) /\ l \in DOMAIN bs /\ l \in Nat /\ DOMAIN bs = 1 .. l
  BY UsedOfBuckets
<1>2. bs[l].words \in Seq(Word) /\ Parsed(bs[l].words) /\ Len(bs[l].words) \in Nat
  BY <1>1, BucketFields
<1>3. /\ new \in Seq(Word) /\ Len(new) = Len(bs[l].words) + 2
      /\ Tagged(new) = Tagged(bs[l].words) \cup {Len(bs[l].words) + 1}
      /\ Parsed(new)
      /\ \A k \in Slots(new, 0) :
            \/ k \in Slots(bs[l].words, 0) /\ new[k] = bs[l].words[k]
            \/ header[2] = "container" /\ header[3] = 2 /\ new[k] = content
  BY <1>2, WordsExtended
<1>4. nb = [bs EXCEPT ![l] = [bs[l] EXCEPT !.words = new]]
  BY DEF Longer
<1> HIDE DEF new
<1>5. bs[l] \in Bucket /\ [bs[l] EXCEPT !.words = new] \in Bucket
  <2>1. bs[l] \in Bucket
    BY <1>1
  <2> QED
    BY <1>3, <2>1, BucketRecord
<1>6. nb \in Seq(Bucket) /\ Len(nb) = l /\ DOMAIN nb = DOMAIN bs
  <2>1. nb \in Seq(Bucket) /\ Len(nb) = Len(bs)
    BY ONLY <1>1, <1>4, <1>5, ExceptSeq
  <2> QED
    BY <1>1, <2>1
<1>7. /\ \A i \in DOMAIN bs : i # l => nb[i] = bs[i]
      /\ nb[l].at = bs[l].at /\ nb[l].start = bs[l].start /\ nb[l].words = new
  <2>1. nb[l] = [bs[l] EXCEPT !.words = new] /\ \A i \in DOMAIN bs : i # l => nb[i] = bs[i]
    BY <1>1, <1>4
  <2> DEFINE changed == [bs[l] EXCEPT !.words = new]
  <2>2. changed.at = bs[l].at /\ changed.start = bs[l].start /\ changed.words = new
    BY ONLY <1>3, <1>5, BucketRecord
  <2>3. nb[l] = changed
    BY <2>1
  <2> HIDE DEF changed
  <2> QED
    BY ONLY <2>1, <2>2, <2>3
<1>8. \A i \in DOMAIN bs : nb[i].at = bs[i].at /\ nb[i].start = bs[i].start
  BY <1>7
<1>9. \A i \in DOMAIN bs : i # l => EndOf(nb[i]) = EndOf(bs[i])
  BY <1>7 DEF EndOf
<1>10. \A i \in DOMAIN bs : i + 1 \in DOMAIN bs => i # l
  BY <1>1
<1>11. \A i, j \in DOMAIN bs : i < j => i # l
  BY <1>1
<1>12. BucketsOK(nb)
  <2>1. \A i \in DOMAIN nb : \E p \in Nat : nb[i].at = Address(p)
    BY <1>6, <1>8 DEF BucketsOK
  <2>2. \A i, j \in DOMAIN nb : i # j => nb[i].at # nb[j].at
    BY <1>6, <1>8 DEF BucketsOK
  <2>3. 1 \in DOMAIN nb => nb[1].start = 0
    BY <1>6, <1>8 DEF BucketsOK
  <2>4. \A i \in DOMAIN nb : i + 1 \in DOMAIN nb => nb[i + 1].start = EndOf(nb[i])
    BY <1>6, <1>8, <1>9, <1>10 DEF BucketsOK
  <2>5. \A i, j \in DOMAIN nb : i < j => EndOf(nb[i]) <= nb[j].start
    BY <1>6, <1>8, <1>9, <1>11 DEF BucketsOK
  <2>6. \A i \in DOMAIN nb : Parsed(nb[i].words)
    BY <1>3, <1>6, <1>7 DEF BucketsOK
  <2> QED
    BY <1>6, <2>1, <2>2, <2>3, <2>4, <2>5, <2>6 DEF BucketsOK
<1>13. ASSUME NEW i \in DOMAIN bs
       PROVE  Tagged(bs[i].words) \subseteq Tagged(nb[i].words)
  BY <1>3, <1>7
<1>14. Len(nb[Len(nb)].words) - 1 \in Tagged(nb[Len(nb)].words)
  <2>1. Len(new) - 1 = Len(bs[l].words) + 1
    BY <1>2, <1>3
  <2> QED
    BY <1>3, <1>6, <1>7, <2>1
<1>15. ASSUME NEW i \in DOMAIN nb, NEW k \in Slots(nb[i].words, 0)
       PROVE  \/ i \in DOMAIN bs /\ k \in Slots(bs[i].words, 0) /\ nb[i].words[k] = bs[i].words[k]
              \/ header[2] = "container" /\ header[3] = 2 /\ nb[i].words[k] = content
  <2>1. CASE i # l
    BY <1>6, <1>7, <2>1
  <2>2. CASE i = l
    BY <1>1, <1>3, <1>7, <2>2
  <2> QED
    BY <2>1, <2>2
<1>16. nb # <<>>
  BY <1>1, <1>6
<1> QED
  BY <1>6, <1>8, <1>12, <1>13, <1>14, <1>15, <1>16 DEF Grown

LEMMA BucketAdded ==
    ASSUME NEW bs, BucketsOK(bs), NEW header \in HeaderWord, NEW content \in Value, NEW room \in Nat,
           NEW b, b = [at |-> FreeAddress(bs), start |-> UsedWords(bs), room |-> room,
                       words |-> <<header, content>>],
           NEW nb, nb = Append(bs, b), UsedWords(nb) <= MaxWords
    PROVE  Grown(bs, nb, header, content)
<1> DEFINE new == <<header, content>>
           l   == Len(bs) + 1
<1>1. bs \in Seq(Bucket) /\ Len(bs) \in Nat /\ DOMAIN bs = 1 .. Len(bs) /\ UsedWords(bs) \in Nat
  BY UsedOfBuckets
<1>2. /\ new \in Seq(Word) /\ Len(new) = 2
      /\ Tagged(new) = {1}
      /\ Parsed(new)
      /\ \A k \in Slots(new, 0) : header[2] = "container" /\ header[3] = 2 /\ new[k] = content
  <2>1. /\ <<>> \in Seq(Word) /\ Tagged(<<>>) = {} /\ Len(<<>>) = 0
        /\ new = Longer(<<>>, header, content)
    BY DEF Tagged, Longer
  <2>2. Parsed(<<>>) /\ Slots(<<>>, 0) = {}
    BY EmptyHeap
  <2> DEFINE more == Longer(<<>>, header, content)
  <2>3. /\ more \in Seq(Word) /\ Len(more) = Len(<<>>) + 2
        /\ Tagged(more) = Tagged(<<>>) \cup {Len(<<>>) + 1}
        /\ Parsed(more)
        /\ \A k \in Slots(more, 0) :
              \/ k \in Slots(<<>>, 0) /\ more[k] = <<>>[k]
              \/ header[2] = "container" /\ header[3] = 2 /\ more[k] = content
    <3>1. <<>> \in Seq(Word)
      OBVIOUS
    <3> QED
      BY ONLY <2>2, <3>1, header \in HeaderWord, content \in Value, WordsExtended
  <2>4. new = more
    BY <2>1
  <2> HIDE DEF new, more
  <2> QED
    BY <2>1, <2>2, <2>3, <2>4
<1>3. FreeAddress(bs) \in Nat
  BY FreeAddressIsFree, Addresses
<1>4. b.at = FreeAddress(bs) /\ b.start = UsedWords(bs) /\ b.words = new /\ b \in Bucket
  BY <1>1, <1>2, <1>3 DEF Bucket
<1> HIDE DEF new
<1>5. /\ nb \in Seq(Bucket) /\ Len(nb) = l /\ DOMAIN nb = 1 .. l
      /\ nb[l] = b
      /\ \A i \in DOMAIN bs : nb[i] = bs[i] /\ i \in DOMAIN nb /\ i # l
      /\ \A i \in DOMAIN nb : i \in DOMAIN bs \/ i = l
  BY <1>1, <1>4
<1>6. BucketsOK(nb)
  <2>1. \A i \in DOMAIN nb : \E p \in Nat : nb[i].at = Address(p)
    BY <1>4, <1>5, FreeAddressIsFree DEF BucketsOK
  <2>2. \A i, j \in DOMAIN nb : i # j => nb[i].at # nb[j].at
    <3>1. \A i, j \in DOMAIN bs : i # j => nb[i].at # nb[j].at
      BY <1>5 DEF BucketsOK
    <3>2. \A i \in DOMAIN bs : nb[i].at # nb[l].at
      BY <1>4, <1>5, FreeAddressIsFree
    <3> QED
      BY <1>5, <3>1, <3>2
  <2>3. 1 \in DOMAIN nb => nb[1].start = 0
    <3>1. CASE bs = <<>>
      BY <1>4, <1>5, <3>1, UsedOfBuckets
    <3>2. CASE bs # <<>>
      <4>1. 1 \in DOMAIN bs
        BY <1>1, <3>2
      <4> QED
        BY <1>5, <4>1 DEF BucketsOK
    <3> QED
      BY <3>1, <3>2
  <2>4. ASSUME NEW i \in DOMAIN nb, i + 1 \in DOMAIN nb PROVE nb[i + 1].start = EndOf(nb[i])
    <3>1. i \in DOMAIN bs
      BY <1>1, <1>5, <2>4
    <3>2. CASE i + 1 \in DOMAIN bs
      BY <1>5, <3>1, <3>2 DEF BucketsOK
    <3>3. CASE i + 1 = l
      <4>1. i = Len(bs) /\ bs # <<>>
        BY <1>1, <3>1, <3>3
      <4>2. nb[i + 1].start = UsedWords(bs)
        BY <1>4, <1>5, <3>3
      <4>3. nb[i] = bs[i]
        BY <1>5, <3>1
      <4> QED
        BY <4>1, <4>2, <4>3, UsedOfBuckets
    <3> QED
      BY <1>5, <2>4, <3>2, <3>3
  <2>5. ASSUME NEW i \in DOMAIN nb, NEW j \in DOMAIN nb, i < j PROVE EndOf(nb[i]) <= nb[j].start
    <3>1. i \in DOMAIN bs
      BY <1>1, <1>5, <2>5
    <3>2. CASE j \in DOMAIN bs
      BY <1>5, <2>5, <3>1, <3>2 DEF BucketsOK
    <3>3. CASE j = l
      <4>1. nb[i] = bs[i] /\ nb[j].start = UsedWords(bs)
        BY <1>4, <1>5, <3>1, <3>3
      <4> QED
        BY <3>1, <4>1, BucketFields
    <3> QED
      BY <1>5, <3>2, <3>3
  <2>6. \A i \in DOMAIN nb : Parsed(nb[i].words)
    BY <1>2, <1>4, <1>5 DEF BucketsOK
  <2> QED
    BY <1>5, <2>1, <2>2, <2>3, <2>4, <2>5, <2>6 DEF BucketsOK
<1>7. ASSUME NEW i \in DOMAIN nb, NEW k \in Slots(nb[i].words, 0)
      PROVE  \/ i \in DOMAIN bs /\ k \in Slots(bs[i].words, 0) /\ nb[i].words[k] = bs[i].words[k]
             \/ header[2] = "container" /\ header[3] = 2 /\ nb[i].words[k] = content
  <2>1. CASE i \in DOMAIN bs
    BY <1>5, <2>1
  <2>2. CASE i = l
    BY <1>2, <1>4, <1>5, <2>2
  <2> QED
    BY <1>5, <2>1, <2>2
<1>8. Len(nb[Len(nb)].words) - 1 \in Tagged(nb[Len(nb)].words) /\ nb # <<>>
  <2>1. nb[Len(nb)].words = new /\ Len(new) - 1 = 1
    BY <1>2, <1>4, <1>5
  <2>2. nb # <<>>
    BY <1>1, <1>5
  <2> QED
    BY <1>2, <2>1, <2>2
<1> QED
  BY <1>5, <1>6, <1>7, <1>8 DEF Grown

LEMMA BucketsGrow ==
    ASSUME NEW bs, BucketsOK(bs), NEW header \in HeaderWord, NEW content \in Value,
           UsedWords(Extended(bs, <<header, content>>)) <= MaxWords
    PROVE  Grown(bs, Extended(bs, <<header, content>>), header, content)
<1> DEFINE new == <<header, content>>
           nb  == Extended(bs, new)
           fits == bs # <<>> /\ Len(Last(bs).words) + Len(new) <= Last(bs).room
<1>1. CASE fits
  <2>1. nb = [bs EXCEPT ![Len(bs)].words = @ \o <<header, content>>] /\ bs # <<>>
    BY <1>1 DEF Extended
  <2> HIDE DEF nb
  <2> QED
    BY <2>1, LastBucketGrows DEF nb
<1>2. CASE ~fits
  <2> DEFINE room == Max({BucketWords, Len(new)})
             b == [at |-> FreeAddress(bs), start |-> UsedWords(bs), room |-> room, words |-> new]
  <2>1. nb = Append(bs, b)
    BY <1>2 DEF Extended
  <2>2. room \in Nat
    <3>1. Len(new) = 2 /\ BucketWords \in Nat
      BY Sizes
    <3>2. room = IF BucketWords >= 2 THEN BucketWords ELSE 2
      BY <3>1 DEF Max
    <3> QED
      BY <3>1, <3>2
  <2> HIDE DEF room, nb
  <2> QED
    BY <2>1, <2>2, BucketAdded DEF nb
<1> QED
  BY <1>1, <1>2

LEMMA GrownPointers ==
    ASSUME NEW u, NEW v, v.native = u.native, NEW header, NEW content,
           Grown(u.buckets, v.buckets, header, content), NEW w, Leads(u, w)
    PROVE  Leads(v, w)
<1> SUFFICES ASSUME IsPtr(w) PROVE Leads(v, w)
  BY DEF Leads
<1>1. PICK i \in DOMAIN u.buckets : \E h \in Tagged(u.buckets[i].words) : w = Ptr(At(u, i, h))
  BY DEF Leads
<1>2. PICK h \in Tagged(u.buckets[i].words) : w = Ptr(At(u, i, h))
  BY <1>1
<1>3. i \in DOMAIN v.buckets /\ h \in Tagged(v.buckets[i].words)
      /\ v.buckets[i].at = u.buckets[i].at /\ v.buckets[i].start = u.buckets[i].start
  BY DEF Grown
<1>4. At(v, i, h) = At(u, i, h)
  BY <1>3 DEF At
<1> QED
  BY <1>2, <1>3, <1>4 DEF Leads

LEMMA AllocatePreserves ==
    ASSUME VMOK(vm), NEW g \in 1 .. Globals, NEW type \in {"container", "data"},
           NEW bytes \in {1, 2}, NEW content \in Value,
           type = "container" /\ bytes = 2 => content = Num,
           Allocate(g, type, bytes, content)
    PROVE  VMOK(vm')
<1> DEFINE header == Header(type, bytes)
           nb     == Extended(vm.buckets, <<header, content>>)
           l      == Len(nb)
           h      == Len(nb[l].words) - 1
<1>1. Words(bytes, 1) = 1
  BY DEF Words
<1>2. <<header>> \o [i \in 1 .. Words(bytes, 1) |-> content] = <<header, content>>
  <2>1. [i \in 1 .. Words(bytes, 1) |-> content] = <<content>>
    BY <1>1
  <2> HIDE DEF header
  <2>2. <<header>> \o <<content>> = <<header, content>>
    <3>1. PICK S : header \in S /\ content \in S
      <4>1. header \in {header, content} /\ content \in {header, content}
        OBVIOUS
      <4> QED
        BY <4>1
    <3>2. <<header>> \in Seq(S) /\ <<content>> \in Seq(S) /\ <<header, content>> \in Seq(S)
      BY <3>1
    <3>3. Len(<<header>>) = 1 /\ Len(<<content>>) = 1 /\ Len(<<header, content>>) = 2
      OBVIOUS
    <3>4. <<header>> \o <<content>> \in Seq(S) /\ Len(<<header>> \o <<content>>) = 2
      BY <3>2, <3>3
    <3>5. (<<header>> \o <<content>>)[1] = header /\ (<<header>> \o <<content>>)[2] = content
      BY <3>2, <3>3
    <3>6. \A k \in 1 .. 2 : (<<header>> \o <<content>>)[k] = <<header, content>>[k]
      <4>1. \A k \in 1 .. 2 : k = 1 \/ k = 2
        OBVIOUS
      <4>2. <<header, content>>[1] = header /\ <<header, content>>[2] = content
        OBVIOUS
      <4> QED
        BY <3>5, <4>1, <4>2
    <3> QED
      BY <3>2, <3>3, <3>4, <3>6, SeqEqual
  <2> QED
    BY <2>1, <2>2
<1>3. /\ UsedWords(nb) <= MaxWords
      /\ vm' = [vm EXCEPT !.buckets = nb,
                          !.globals[g] = Encode(vm.native, nb, Last(nb).at + Len(Last(nb).words) - 1)]
  BY <1>1, <1>2 DEF Allocate
<1>4. header \in HeaderWord /\ header[2] = type /\ header[3] = bytes
  BY DEF HeaderWord, Header
<1> HIDE DEF header
<1>5. BucketsOK(vm.buckets)
  BY DEF VMOK
<1>6. Grown(vm.buckets, nb, header, content)
  BY <1>3, <1>4, <1>5, BucketsGrow
<1> HIDE DEF nb
<1>7. BucketsOK(nb) /\ nb \in Seq(Bucket) /\ l \in DOMAIN nb /\ Last(nb) = nb[l] /\ h \in Tagged(nb[l].words)
  <2>1. BucketsOK(nb) /\ nb # <<>> /\ h \in Tagged(nb[l].words)
    BY <1>6 DEF Grown
  <2> HIDE DEF h
  <2> QED
    BY <2>1, UsedOfBuckets DEF Last
<1>8. Last(nb).at + Len(Last(nb).words) - 1 = nb[l].at + h
  <2>1. nb[l].at \in Nat /\ Len(nb[l].words) \in Nat
    BY <1>7, BucketFields
  <2> QED
    BY <1>7, <2>1
<1> DEFINE p == Encode(vm.native, nb, nb[l].at + h)
<1>9. vm' = [vm EXCEPT !.buckets = nb, !.globals[g] = p]
  BY <1>3, <1>8
<1> HIDE DEF h, p
<1>10. /\ vm'.native = vm.native /\ vm'.buckets = nb
       /\ vm'.globals = [vm.globals EXCEPT ![g] = p]
       /\ vm' = [native |-> vm.native, globals |-> [vm.globals EXCEPT ![g] = p], buckets |-> nb]
  <2>1. vm \in [native : BOOLEAN, globals : [1 .. Globals -> Value], buckets : Seq(Bucket)]
    BY DEF VMOK, VM
  <2> QED
    BY <1>9, <2>1
<1>11. p = Ptr(At(vm', l, h)) /\ At(vm', l, h) \in Nat
  <2>1. BucketsOK(vm'.buckets) /\ l \in DOMAIN vm'.buckets /\ h \in Tagged(vm'.buckets[l].words)
    BY <1>7, <1>10
  <2>2. /\ Encode(vm'.native, vm'.buckets, vm'.buckets[l].at + h) = Ptr(At(vm', l, h))
        /\ At(vm', l, h) \in Nat
    BY <2>1, PointersResolve
  <2> QED
    BY <1>10, <2>2 DEF p
<1>12. p \in Value /\ Leads(vm', p)
  BY <1>7, <1>10, <1>11, NumAndPtr DEF Leads
<1>13. \A w : Leads(vm, w) => Leads(vm', w)
  BY <1>6, <1>10, GrownPointers
<1>14. vm' \in VM
  <2>1. [vm.globals EXCEPT ![g] = p] \in [1 .. Globals -> Value]
    BY <1>12, VMFields
  <2> QED
    BY <1>7, <1>10, <2>1, VMFields DEF VM
<1>15. \A x \in 1 .. Globals : Leads(vm', vm'.globals[x])
  BY <1>10, <1>12, <1>13, VMFields DEF VMOK
<1>16. ASSUME NEW i \in DOMAIN nb, NEW k \in Slots(nb[i].words, 0)
       PROVE  Leads(vm', nb[i].words[k])
  <2>1. CASE i \in DOMAIN vm.buckets /\ k \in Slots(vm.buckets[i].words, 0)
             /\ nb[i].words[k] = vm.buckets[i].words[k]
    BY <1>13, <2>1 DEF VMOK
  <2>2. CASE header[2] = "container" /\ header[3] = 2 /\ nb[i].words[k] = content
    BY <1>4, <2>2, NumAndPtr DEF Leads
  <2> QED
    BY <1>6, <2>1, <2>2 DEF Grown
<1> QED
  BY <1>7, <1>10, <1>14, <1>15, <1>16 DEF VMOK

-----------------------------------------------------------------------------
(* Stores.                                                                 *)

LEMMA PlaceResolves ==
    ASSUME NEW v, BucketsOK(v.buckets),
           NEW i \in DOMAIN v.buckets, NEW h \in Tagged(v.buckets[i].words)
    PROVE  Place(v, Ptr(At(v, i, h))) = <<i, h>>
<1> DEFINE offset == v.buckets[i].start + h
           In(j) == v.buckets[j].start < offset
                      /\ offset <= v.buckets[j].start + Len(v.buckets[j].words)
           b == CHOOSE j \in DOMAIN v.buckets : In(j)
<1>1. OffsetOf(v, Ptr(At(v, i, h))) = offset
  BY PointersResolve
<1>2. /\ v.buckets[i].start \in Nat /\ Len(v.buckets[i].words) \in Nat
      /\ h \in 1 .. Len(v.buckets[i].words)
  <2>1. v.buckets[i].start \in Nat /\ Len(v.buckets[i].words) \in Nat
    BY BucketFields
  <2>2. h \in 1 .. Len(v.buckets[i].words) - 1
    BY AddressResolves
  <2> QED
    BY <2>1, <2>2
<1>3. In(i)
  BY <1>2
<1>4. \A j \in DOMAIN v.buckets : In(j) => j = i
  <2> SUFFICES ASSUME NEW j \in DOMAIN v.buckets, In(j) PROVE j = i
    OBVIOUS
  <2>1. v.buckets[j].start \in Nat /\ Len(v.buckets[j].words) \in Nat
    BY BucketFields
  <2>2. offset - v.buckets[j].start \in 1 .. Len(v.buckets[j].words)
        /\ offset = v.buckets[j].start + (offset - v.buckets[j].start)
    <3>1. offset \in Nat
      BY <1>2
    <3>2. v.buckets[j].start < offset /\ offset <= v.buckets[j].start + Len(v.buckets[j].words)
      OBVIOUS
    <3> HIDE DEF offset
    <3> QED
      BY <2>1, <3>1, <3>2
  <2> QED
    BY <1>2, <2>2, OffsetsAreCoveredOnce
<1>5. b = i
  <2> HIDE DEF In
  <2> QED
    BY <1>3, <1>4
<1>6. offset - v.buckets[i].start = h
  BY <1>2
<1>7. Place(v, Ptr(At(v, i, h))) = <<b, offset - v.buckets[b].start>>
  BY <1>1 DEF Place
<1> HIDE DEF offset, b
<1> QED
  BY <1>5, <1>6, <1>7

\* The buckets with other words in one of them.
Reworded(bs, i, new) == [bs EXCEPT ![i] = [bs[i] EXCEPT !.words = new]]

LEMMA BucketReworded ==
    ASSUME NEW bs, BucketsOK(bs), NEW i \in DOMAIN bs, NEW new \in Seq(Word),
           Len(new) = Len(bs[i].words), Parsed(new)
    PROVE  LET nb == Reworded(bs, i, new) IN
           /\ BucketsOK(nb)
           /\ DOMAIN nb = DOMAIN bs
           /\ nb[i].words = new
           /\ \A j \in DOMAIN bs : /\ j # i => nb[j] = bs[j]
                                   /\ nb[j].at = bs[j].at /\ nb[j].start = bs[j].start
<1> DEFINE nb == Reworded(bs, i, new)
<1> HIDE DEF nb
<1>0. nb = [bs EXCEPT ![i] = [bs[i] EXCEPT !.words = new]]
  BY DEF nb, Reworded
<1>1. bs \in Seq(Bucket) /\ i \in 1 .. Len(bs) /\ bs[i] \in Bucket
  BY BucketFields
<1>2. [bs[i] EXCEPT !.words = new] \in Bucket
  BY <1>1, BucketRecord
<1>3. nb \in Seq(Bucket) /\ Len(nb) = Len(bs)
  BY ONLY <1>0, <1>1, <1>2, ExceptSeq
<1>4. DOMAIN nb = DOMAIN bs /\ DOMAIN bs = 1 .. Len(bs) /\ Len(bs) \in Nat
  BY <1>0, <1>1
<1>5. /\ nb[i].words = new /\ nb[i].at = bs[i].at /\ nb[i].start = bs[i].start
      /\ \A j \in DOMAIN bs : j # i => nb[j] = bs[j]
  <2>1. nb[i] = [bs[i] EXCEPT !.words = new] /\ \A j \in DOMAIN bs : j # i => nb[j] = bs[j]
    BY <1>0
  <2> DEFINE changed == [bs[i] EXCEPT !.words = new]
  <2>2. changed.at = bs[i].at /\ changed.start = bs[i].start /\ changed.words = new
    BY <1>1, BucketRecord
  <2>3. nb[i] = changed
    BY <2>1
  <2> HIDE DEF changed
  <2> QED
    BY ONLY <2>1, <2>2, <2>3
<1>6. \A j \in DOMAIN bs : /\ nb[j].at = bs[j].at /\ nb[j].start = bs[j].start
                           /\ Len(nb[j].words) = Len(bs[j].words)
  BY <1>5
<1>7. \A j \in DOMAIN bs : EndOf(nb[j]) = EndOf(bs[j])
  BY <1>6 DEF EndOf
<1>8. UsedWords(nb) = UsedWords(bs)
  <2>1. bs # <<>> /\ nb # <<>> /\ Len(bs) \in DOMAIN bs
    BY <1>1, <1>3
  <2>2. UsedWords(nb) = nb[Len(bs)].start + Len(nb[Len(bs)].words)
    BY <1>3, <2>1 DEF UsedWords, Last
  <2>3. UsedWords(bs) = bs[Len(bs)].start + Len(bs[Len(bs)].words)
    BY <2>1 DEF UsedWords, Last
  <2> QED
    BY <1>6, <2>1, <2>2, <2>3
<1>9. BucketsOK(nb)
  <2>1. \A j \in DOMAIN nb : Parsed(nb[j].words)
    BY <1>4, <1>5 DEF BucketsOK
  <2>2. \A j, k \in DOMAIN nb : j < k => EndOf(nb[j]) <= nb[k].start
    BY <1>4, <1>6, <1>7 DEF BucketsOK
  <2>3. /\ \A j \in DOMAIN nb : \E p \in Nat : nb[j].at = Address(p)
        /\ \A j, k \in DOMAIN nb : j # k => nb[j].at # nb[k].at
        /\ 1 \in DOMAIN nb => nb[1].start = 0
    <3>1. /\ \A j \in DOMAIN bs : \E p \in Nat : bs[j].at = Address(p)
          /\ \A j, k \in DOMAIN bs : j # k => bs[j].at # bs[k].at
          /\ 1 \in DOMAIN bs => bs[1].start = 0
      BY DEF BucketsOK
    <3>2. DOMAIN nb = DOMAIN bs
      BY <1>4
    <3>3. \A j \in DOMAIN bs : nb[j].at = bs[j].at /\ nb[j].start = bs[j].start
      BY <1>6
    <3>4. \A j \in DOMAIN nb : \E p \in Nat : nb[j].at = Address(p)
      BY ONLY <3>1, <3>2, <3>3
    <3>5. \A j, k \in DOMAIN nb : j # k => nb[j].at # nb[k].at
      BY ONLY <3>1, <3>2, <3>3
    <3>6. 1 \in DOMAIN nb => nb[1].start = 0
      BY ONLY <3>1, <3>2, <3>3
    <3> QED
      BY <3>4, <3>5, <3>6
  <2>4. \A j \in DOMAIN nb : j + 1 \in DOMAIN nb => nb[j + 1].start = EndOf(nb[j])
    BY <1>4, <1>6, <1>7 DEF BucketsOK
  <2>5. UsedWords(nb) <= MaxWords
    BY <1>8 DEF BucketsOK
  <2> QED
    BY <1>3, <2>1, <2>2, <2>3, <2>4, <2>5 DEF BucketsOK
<1> QED
  BY <1>4, <1>5, <1>6, <1>9 DEF nb

LEMMA WritePreserves ==
    ASSUME VMOK(vm), NEW g \in 1 .. Globals, NEW val \in {Num} \cup ToSet(vm.globals), Write(g, val)
    PROVE  VMOK(vm')
<1>1. BucketsOK(vm.buckets) /\ vm.globals[g] \in Value /\ IsPtr(vm.globals[g]) /\ Leads(vm, vm.globals[g])
  BY VMFields DEF VMOK, Write
<1>2. val \in Value /\ Leads(vm, val)
  <2>1. CASE val = Num
    BY <2>1, NumAndPtr DEF Leads
  <2>2. CASE val \in ToSet(vm.globals)
    <3>1. PICK x \in 1 .. Globals : val = vm.globals[x]
      BY <2>2, VMFields DEF ToSet
    <3> QED
      BY <3>1, VMFields DEF VMOK
  <2> QED
    BY <2>1, <2>2
<1>3. PICK i \in DOMAIN vm.buckets : \E x \in Tagged(vm.buckets[i].words) : vm.globals[g] = Ptr(At(vm, i, x))
  BY <1>1 DEF Leads
<1>4. PICK h \in Tagged(vm.buckets[i].words) : vm.globals[g] = Ptr(At(vm, i, h))
  BY <1>3
<1> DEFINE bs    == vm.buckets
           words == bs[i].words
           new   == [words EXCEPT ![h + 1] = val]
           nb    == Reworded(bs, i, new)
<1>5. Place(vm, vm.globals[g]) = <<i, h>>
  BY <1>1, <1>4, PlaceResolves
<1>6. /\ words[h][2] = "container" /\ Words(words[h][3], 0) = 1
      /\ vm' = [vm EXCEPT !.buckets[i].words[h + 1] = val]
  BY <1>5 DEF Write
<1>7. vm' = [native |-> vm.native, globals |-> vm.globals, buckets |-> nb]
  <2>1. vm \in [native : BOOLEAN, globals : [1 .. Globals -> Value], buckets : Seq(Bucket)]
    BY DEF VMOK, VM
  <2> QED
    BY <1>6, <2>1 DEF Reworded
<1>8. words \in Seq(Word) /\ Parsed(words) /\ h \in 1 .. Len(words) - 1 /\ Len(words) \in Nat
  BY <1>1, BucketFields, AddressResolves
<1>9. h + 1 \in Slots(words, 0) /\ h + 1 \in Slots(words, 1)
  <2>1. words[h] \in HeaderWord
    BY <1>8 DEF Parsed
  <2>2. words[h][3] = 2
    BY <1>6, <2>1, HeaderWords
  <2> HIDE DEF words
  <2> QED
    BY <1>6, <1>8, <2>2, SlotsAreWords DEF words
<1> HIDE DEF words, bs
<1>10. /\ new \in Seq(Word) /\ Len(new) = Len(words)
       /\ Tagged(new) = Tagged(words)
       /\ Parsed(new)
       /\ Slots(new, 0) = Slots(words, 0)
  <2>1. new = [k \in DOMAIN words |-> new[k]]
    <3>1. words = [k \in DOMAIN words |-> words[k]]
      BY <1>8
    <3> QED
      BY <3>1
  <2>2. \A k \in DOMAIN words : new[k] = words[k] \/ (k \in Slots(words, 1) /\ new[k] \in Value)
    BY <1>2, <1>9
  <2> HIDE DEF new
  <2> QED
    BY ONLY <1>8, <2>1, <2>2, Overwritten
<1>11. \A k \in Slots(new, 0) : new[k] = words[k] \/ new[k] = val
  <2>1. \A k \in Slots(words, 0) : k \in DOMAIN words
    BY <1>8, SlotsAreWords
  <2>2. \A k \in DOMAIN words : new[k] = words[k] \/ new[k] = val
    OBVIOUS
  <2> HIDE DEF new
  <2> QED
    BY <1>10, <2>1, <2>2
<1> HIDE DEF new
<1>12. /\ BucketsOK(nb)
       /\ DOMAIN nb = DOMAIN bs
       /\ nb[i].words = new
       /\ \A j \in DOMAIN bs : /\ j # i => nb[j] = bs[j]
                               /\ nb[j].at = bs[j].at /\ nb[j].start = bs[j].start
  <2>1. BucketsOK(bs) /\ i \in DOMAIN bs
    BY <1>1 DEF bs
  <2>2. Len(new) = Len(bs[i].words)
    BY <1>10 DEF words
  <2> QED
    BY ONLY <1>10, <2>1, <2>2, BucketReworded
<1> HIDE DEF nb
<1>13. vm'.native = vm.native /\ vm'.globals = vm.globals /\ vm'.buckets = nb
  BY <1>7
<1>14. ASSUME NEW w, Leads(vm, w) PROVE Leads(vm', w)
  <2> SUFFICES ASSUME IsPtr(w) PROVE Leads(vm', w)
    BY DEF Leads
  <2>1. PICK j \in DOMAIN bs : \E x \in Tagged(bs[j].words) : w = Ptr(At(vm, j, x))
    BY <1>14 DEF Leads, bs
  <2>2. PICK x \in Tagged(bs[j].words) : w = Ptr(At(vm, j, x))
    BY <2>1
  <2>3. x \in Tagged(nb[j].words) /\ j \in DOMAIN nb
    BY <1>10, <1>12 DEF words
  <2>4. At(vm', j, x) = At(vm, j, x)
    BY <1>12, <1>13 DEF At, bs
  <2> QED
    BY <1>13, <2>2, <2>3, <2>4 DEF Leads
<1>15. vm' \in VM
  <2>1. nb \in Seq(Bucket)
    BY <1>12 DEF BucketsOK
  <2> QED
    BY <1>7, <2>1, VMFields DEF VM
<1>16. ASSUME NEW j \in DOMAIN nb, NEW k \in Slots(nb[j].words, 0)
       PROVE  Leads(vm', nb[j].words[k])
  <2>1. \A y \in DOMAIN bs : \A z \in Slots(bs[y].words, 0) : Leads(vm, bs[y].words[z])
    BY DEF VMOK, bs
  <2>2. CASE j # i
    BY <1>12, <1>14, <2>1, <2>2
  <2>3. CASE j = i
    BY <1>2, <1>10, <1>11, <1>12, <1>14, <2>1, <2>3 DEF words
  <2> QED
    BY <2>2, <2>3
<1>17. \A x \in 1 .. Globals : Leads(vm', vm'.globals[x])
  BY <1>13, <1>14 DEF VMOK
<1> QED
  BY <1>12, <1>13, <1>15, <1>16, <1>17 DEF VMOK

LEMMA DropPreserves ==
    ASSUME VMOK(vm), NEW g \in 1 .. Globals, Drop(g)
    PROVE  VMOK(vm')
<1>1. vm \in [native : BOOLEAN, globals : [1 .. Globals -> Value], buckets : Seq(Bucket)]
  BY DEF VMOK, VM
<1>2. /\ vm'.native = vm.native /\ vm'.buckets = vm.buckets
      /\ vm'.globals = [vm.globals EXCEPT ![g] = Num]
      /\ vm' \in VM
  BY <1>1, NumAndPtr DEF Drop, VM
<1>3. \A w : Leads(vm, w) => Leads(vm', w)
  BY <1>2 DEF Leads, At
<1>4. \A x \in 1 .. Globals : Leads(vm', vm'.globals[x])
  BY <1>1, <1>2, <1>3, NumAndPtr DEF VMOK, Leads
<1> QED
  BY <1>2, <1>3, <1>4 DEF VMOK

LEMMA SpoilIsFound == IInv /\ Spoil => ~Intact'
<1> SUFFICES ASSUME IInv, Spoil PROVE ~Intact'
  OBVIOUS
<1>1. Intact /\ ImageOK(image)
  BY DEF IInv, Spoil
<1> DEFINE gs == image.globals
           ws == image.heap
<1>2. image = [globals |-> gs, heap |-> ws, bytecodeSize |-> Len(gs) + Len(ws),
               crc |-> [globals |-> gs, heap |-> ws]]
  BY <1>1 DEF ImageOK, Sealed
<1>3. ws \in Seq(Word) /\ gs \in [1 .. Globals -> Value]
  BY <1>1 DEF ImageOK
<1>4. CASE image.heap # <<>> /\ image' = [image EXCEPT !.heap = Front(@)]
  <2>1. image'.crc = [globals |-> gs, heap |-> ws] /\ image'.heap = Front(ws)
    BY <1>2, <1>4
  <2>2. Front(ws) # ws
    <3>1. Len(ws) \in Nat \ {0}
      BY <1>3, <1>4
    <3>2. Len(Front(ws)) = Len(ws) - 1
      BY <1>3, <3>1 DEF Front
    <3> QED
      BY <3>1, <3>2
  <2>3. [globals |-> gs, heap |-> ws].heap # [globals |-> image'.globals, heap |-> image'.heap].heap
    BY <2>1, <2>2
  <2> QED
    BY <2>1, <2>3 DEF Intact
<1>5. ASSUME NEW g \in 1 .. Globals, IsPtr(image.globals[g]), image' = [image EXCEPT !.globals[g] = Num]
      PROVE  ~Intact'
  <2>1. image'.crc = [globals |-> gs, heap |-> ws] /\ image'.globals = [gs EXCEPT ![g] = Num]
    BY <1>2, <1>5
  <2>2. image'.globals[g] # gs[g]
    BY <1>3, <1>5, <2>1, NumAndPtr
  <2>3. [globals |-> gs, heap |-> ws].globals # [globals |-> image'.globals, heap |-> image'.heap].globals
    BY <2>2
  <2> QED
    BY <2>1, <2>3 DEF Intact
<1> QED
  BY <1>4, <1>5 DEF Spoil

LEMMA StepPreserves == IInv /\ [Next]_vars => IInv'
<1> SUFFICES ASSUME IInv, [Next]_vars PROVE IInv'
  OBVIOUS
<1>0. ASSUME Running, UNCHANGED <<status, image>>, VMOK(vm') PROVE IInv'
  BY <1>0 DEF IInv, Intact
<1>1. CASE CreateSnapshot
  BY <1>1, CreateSnapshotPreserves
<1>2. CASE \E native \in BOOLEAN : Restore(native)
  BY <1>2, RestorePreserves
<1>3. CASE PowerOff
  BY <1>3 DEF PowerOff, IInv, Running, Intact
<1>4. CASE Spoil
  BY <1>4, SpoilIsFound DEF IInv, Spoil, Running
<1>5. ASSUME NEW g \in 1 .. Globals, NEW type \in {"container", "data"}, NEW bytes \in {1, 2},
             NEW content \in Value, type = "container" /\ bytes = 2 => content = Num,
             Allocate(g, type, bytes, content)
      PROVE  IInv'
  <2>1. Running /\ UNCHANGED <<status, image>>
    BY <1>5 DEF Allocate
  <2>2. VMOK(vm')
    BY <1>5, <2>1, AllocatePreserves DEF IInv
  <2> QED
    BY <1>0, <2>1, <2>2
<1>6. ASSUME NEW g \in 1 .. Globals, AllocateClosure(g) \/ AllocateData(g) \/ AllocateEmptyKeys(g)
      PROVE  IInv'
  <2>1. Num \in Value /\ Ptr(1) \in Value /\ Ptr(Far) \in Value
    BY NumAndPtr, FarIsFar
  <2> QED
    BY <1>5, <1>6, <2>1 DEF AllocateClosure, AllocateData, AllocateEmptyKeys
<1>7. ASSUME NEW g \in 1 .. Globals, NEW val \in {Num} \cup ToSet(vm.globals), Write(g, val)
      PROVE  IInv'
  <2>1. Running /\ UNCHANGED <<status, image>>
    BY <1>7 DEF Write
  <2>2. VMOK(vm')
    BY <1>7, <2>1, WritePreserves DEF IInv
  <2> QED
    BY <1>0, <2>1, <2>2
<1>8. ASSUME NEW g \in 1 .. Globals, Drop(g)
      PROVE  IInv'
  <2>1. Running /\ UNCHANGED <<status, image>>
    BY <1>8 DEF Drop
  <2>2. VMOK(vm')
    BY <1>8, <2>1, DropPreserves DEF IInv
  <2> QED
    BY <1>0, <2>1, <2>2
<1>9. CASE UNCHANGED vars
  BY <1>9 DEF vars, IInv, Running, Intact
<1> QED
  BY <1>1, <1>2, <1>3, <1>4, <1>6, <1>7, <1>8, <1>9 DEF Next

-----------------------------------------------------------------------------
(* Theorems.                                                               *)

(* In every reachable state a running VM has buckets that can be parsed    *)
(* and pointers that lead to allocations, and so does an image whose       *)
(* checksum is right.                                                      *)
THEOREM InvariantHolds == Spec => []IInv
BY InitEstablishes, StepPreserves, PTL DEF Spec

(* Every pointer of a VM leads to the data of an allocation, however many  *)
(* buckets, snapshots, restores and power failures there were: what        *)
(* serializePointers and loadPointers convert are the pointers and nothing *)
(* else that the program sees.                                             *)
THEOREM PointersStayExact == Spec => []PointersAreExact
<1>1. IInv => PointersAreExact
  <2>1. CASE Running
    BY <2>1, RunningIsExact DEF IInv
  <2>2. CASE ~Running
    BY <2>2 DEF PointersAreExact
  <2> QED
    BY <2>1, <2>2
<1> QED
  BY <1>1, InvariantHolds, PTL

-----------------------------------------------------------------------------
(* The refinement.  None stands for no program.                            *)

NoneIsNoProgram == \A globals, allocations : None # <<globals, allocations>>

\* An allocation with what is in it, and the allocations of a heap.
Contents(words, content, h) ==
    <<h, words[h], [i \in h + 1 .. h + Words(words[h][3], 0) |-> content[i]]>>

Allocations(words, content) == {Contents(words, content, h) : h \in Tagged(words)}

\* The words of a heap with its pointers as offsets.
Relative(v, words) ==
    [i \in DOMAIN words |-> IF i \in Slots(words, 0) THEN SerializePtr(v, words[i]) ELSE words[i]]

ProgramOf(v, words) ==
    <<[g \in DOMAIN v.globals |-> SerializePtr(v, v.globals[g])],
      Allocations(words, Relative(v, words))>>

ProgramIn(im) == <<im.globals, Allocations(im.heap, im.heap)>>

LEMMA ContentsInWords ==
    ASSUME NEW words \in Seq(Word), Parsed(words), NEW h \in Tagged(words),
           NEW i \in h + 1 .. h + Words(words[h][3], 0)
    PROVE  /\ i = h + 1 /\ i \in DOMAIN words /\ i \notin Tagged(words)
           /\ i \in Slots(words, 1) => i \in Slots(words, 0)
<1>1. h \in Nat /\ words[h] \in HeaderWord /\ h + 1 \in DOMAIN words /\ words[h + 1] \in Value
  BY TaggedAreHeaderWords DEF Parsed
<1>2. Words(words[h][3], 0) = 1 /\ words[h][3] = 2
  <2>1. Words(words[h][3], 0) = IF words[h][3] = 2 THEN 1 ELSE 0
    BY <1>1, HeaderWords
  <2>2. h + 1 <= h + Words(words[h][3], 0)
    BY <1>1, <2>1
  <2> QED
    BY <1>1, <2>1, <2>2
<1>3. i = h + 1
  BY <1>1, <1>2
<1>4. i \notin Tagged(words)
  BY <1>1, <1>3, Values DEF Tagged
<1>5. i \in Slots(words, 1) => i \in Slots(words, 0)
  <2> SUFFICES ASSUME i \in Slots(words, 1) PROVE i \in Slots(words, 0)
    OBVIOUS
  <2>1. PICK g \in Tagged(words) : i = g + 1 /\ words[g][2] = "container"
    BY SlotsAreWords
  <2>2. g = h
    BY <1>1, <1>3, <2>1, TaggedAreHeaderWords
  <2> QED
    BY <1>2, <2>1, <2>2, SlotsAreWords
<1> QED
  BY <1>1, <1>3, <1>4, <1>5

LEMMA SameAllocations ==
    ASSUME NEW words \in Seq(Word), Parsed(words), NEW content,
           NEW new, NEW other, Tagged(new) = Tagged(words),
           \A h \in Tagged(words) : new[h] = words[h],
           \A h \in Tagged(words) : \A i \in h + 1 .. h + Words(words[h][3], 0) : content[i] = other[i]
    PROVE  Allocations(words, content) = Allocations(new, other)
<1>1. ASSUME NEW h \in Tagged(words)
      PROVE  Contents(words, content, h) = Contents(new, other, h)
  BY DEF Contents
<1> QED
  BY <1>1 DEF Allocations

LEMMA ProgramOfVM ==
    ASSUME VMOK(vm)
    PROVE  Program(vm.globals, Heap, Offset) = ProgramOf(vm, Concat(vm.buckets))
<1> DEFINE words == Concat(vm.buckets)
<1>1. BucketsOK(vm.buckets)
  BY DEF VMOK
<1>2. Flat(words, vm.buckets) /\ words \in Seq(Word) /\ Parsed(words)
  BY <1>1, FlatWords, ConcatIsFlat, HeadersOfFlat DEF Flat
<1>3. Heap = words
  BY HeapIsConcat
<1> HIDE DEF words
<1> DEFINE Told(h) == <<h, words[h], [i \in h + 1 .. h + Words(words[h][3], 0) |->
                          IF i \in Slots(words, 0) THEN Offset(words[i]) ELSE words[i]]>>
<1>4. \A w : Offset(w) = SerializePtr(vm, w)
  BY DEF Offset, SerializePtr
<1>5. ASSUME NEW h \in Tagged(words)
      PROVE  Told(h) = Contents(words, Relative(vm, words), h)
  <2>1. \A i \in h + 1 .. h + Words(words[h][3], 0) : i \in DOMAIN words
    BY <1>2, ContentsInWords
  <2>2. \A i \in h + 1 .. h + Words(words[h][3], 0) :
           Relative(vm, words)[i] = IF i \in Slots(words, 0) THEN Offset(words[i]) ELSE words[i]
    BY <1>4, <2>1 DEF Relative
  <2> QED
    BY <2>2 DEF Contents
<1>6. Program(vm.globals, words, Offset)
        = <<[g \in DOMAIN vm.globals |-> Offset(vm.globals[g])], {Told(h) : h \in Tagged(words)}>>
  BY <1>2, WalkFindsHeaders DEF Program
<1>7. {Told(h) : h \in Tagged(words)} = Allocations(words, Relative(vm, words))
  <2> HIDE DEF Told
  <2> QED
    BY <1>5 DEF Allocations
<1>8. [g \in DOMAIN vm.globals |-> Offset(vm.globals[g])]
        = [g \in DOMAIN vm.globals |-> SerializePtr(vm, vm.globals[g])]
  BY <1>4
<1> HIDE DEF Told
<1> QED
  BY <1>3, <1>6, <1>7, <1>8 DEF ProgramOf, words

\* What is mapped to the variables of Checkpoint.
Live == IF Running THEN Program(vm.globals, Heap, Offset) ELSE None
Kept == IF Intact THEN Program(image.globals, image.heap, LAMBDA w : w) ELSE None

LEMMA Mapped ==
    IInv => /\ Live = IF Running THEN ProgramOf(vm, Concat(vm.buckets)) ELSE None
            /\ Kept = IF Intact THEN ProgramIn(image) ELSE None
<1> SUFFICES ASSUME IInv PROVE /\ Live = IF Running THEN ProgramOf(vm, Concat(vm.buckets)) ELSE None
                               /\ Kept = IF Intact THEN ProgramIn(image) ELSE None
  OBVIOUS
<1>1. Live = IF Running THEN ProgramOf(vm, Concat(vm.buckets)) ELSE None
  BY ProgramOfVM DEF Live, IInv
<1>2. ASSUME Intact PROVE Program(image.globals, image.heap, LAMBDA w : w) = ProgramIn(image)
  <2> DEFINE words == image.heap
             Told(h) == <<h, words[h], [i \in h + 1 .. h + Words(words[h][3], 0) |->
                            IF i \in Slots(words, 0) THEN words[i] ELSE words[i]]>>
  <2>1. image.globals = [g \in DOMAIN image.globals |-> image.globals[g]]
    BY <1>2 DEF IInv, ImageOK
  <2>2. Program(image.globals, words, LAMBDA w : w)
          = <<[g \in DOMAIN image.globals |-> image.globals[g]], {Told(h) : h \in Tagged(words)}>>
    <3>1. Tagged(words) = Headers(words)
      BY <1>2, WalkFindsHeaders DEF IInv, ImageOK
    <3> QED
      BY <3>1 DEF Program
  <2>3. \A h \in Tagged(words) : Told(h) = Contents(words, words, h)
    BY DEF Contents
  <2> HIDE DEF Told
  <2> QED
    BY <2>1, <2>2, <2>3 DEF ProgramIn, Allocations
<1>3. Kept = IF Intact THEN ProgramIn(image) ELSE None
  BY <1>2 DEF Kept
<1> QED
  BY <1>1, <1>3

LEMMA MappedNext ==
    IInv' => /\ Live' = IF Running' THEN ProgramOf(vm', Concat(vm'.buckets)) ELSE None
             /\ Kept' = IF Intact' THEN ProgramIn(image') ELSE None
<1>1. IInv' => (/\ Live = IF Running THEN ProgramOf(vm, Concat(vm.buckets)) ELSE None
                /\ Kept = IF Intact THEN ProgramIn(image) ELSE None)'
  BY Mapped, PTL
<1> QED
  BY <1>1

(* A value that was saved is the same after it was loaded.                 *)
LEMMA ValuesComeBack ==
    ASSUME ImageOK(image), image.heap # <<>>, NEW native \in BOOLEAN, ~Unloadable(native),
           NEW v, v = LoadPointers(native), NEW w \in Value, Saved(image.heap, w)
    PROVE  SerializePtr(v, LoadOf(native, w)) = w
<1> DEFINE words == v.buckets[1].words
<1>1. /\ VMOK(v)
      /\ Tagged(words) = Tagged(image.heap)
      /\ \A h \in Tagged(words) : LoadOf(native, Ptr(h)) = Ptr(At(v, 1, h))
      /\ v.buckets[1] = [FirstBucket EXCEPT !.words = words] /\ Len(v.buckets) = 1
  BY LoadedVM
<1>2. CASE ~IsPtr(w)
  BY <1>2 DEF LoadOf, SerializePtr
<1>3. CASE IsPtr(w)
  <2>1. PICK h \in Tagged(words) : w = Ptr(h)
    BY <1>1, <1>3 DEF Saved
  <2>2. BucketsOK(v.buckets) /\ 1 \in DOMAIN v.buckets /\ v.buckets[1].start = 0
    <3>1. BucketsOK(v.buckets) /\ v.buckets \in Seq(Bucket)
      BY <1>1 DEF VMOK, BucketsOK
    <3> QED
      BY <1>1, <3>1 DEF BucketsOK
  <2>3. OffsetOf(v, Ptr(At(v, 1, h))) = h
    <3>1. OffsetOf(v, Ptr(At(v, 1, h))) = v.buckets[1].start + h
      BY <2>2, PointersResolve
    <3>2. h \in Nat
      <4>1. v.buckets[1].words \in Seq(Word)
        BY <2>2, BucketFields
      <4> QED
        BY <4>1, TaggedAreHeaderWords
    <3> QED
      BY <2>2, <3>1, <3>2
  <2>4. LoadOf(native, w) = Ptr(At(v, 1, h))
    BY <1>1, <2>1
  <2> QED
    BY <2>1, <2>3, <2>4, NumAndPtr DEF SerializePtr
<1> QED
  BY <1>2, <1>3

LEMMA SaveRefines ==
    ASSUME IInv, Taken
    PROVE  Intact' /\ ProgramIn(image') = ProgramOf(vm, Concat(vm.buckets))
<1>1. VMOK(vm) /\ BucketsOK(vm.buckets)
  BY DEF IInv, Taken, VMOK
<1> DEFINE words == Concat(vm.buckets)
           new == Relative(vm, words)
           globals == [g \in DOMAIN vm.globals |-> SerializePtr(vm, vm.globals[g])]
<1>2. Flat(words, vm.buckets) /\ words \in Seq(Word) /\ Parsed(words)
  BY <1>1, FlatWords, ConcatIsFlat, HeadersOfFlat DEF Flat
<1>3. HeapCopied(vm.buckets) = words
  BY <1>1, <1>2, HeapCopiedIsFlat
<1> HIDE DEF words
<1>4. image' = Sealed([globals |-> globals, heap |-> new])
  BY <1>3 DEF Taken, SerializePointers, Relative
<1>5. image'.globals = globals /\ image'.heap = new /\ Intact'
  <2> HIDE DEF globals, new
  <2> QED
    BY <1>4 DEF Sealed, Intact
<1>6. /\ Tagged(new) = Tagged(words)
      /\ \A h \in Tagged(words) : new[h] = words[h]
  <2>1. new = [i \in DOMAIN words |-> IF i \in Slots(words, 0) THEN SerializePtr(vm, words[i])
                                      ELSE words[i]]
    BY DEF Relative
  <2> HIDE DEF new
  <2> QED
    BY ONLY <1>1, <1>2, <2>1, SnapshotWords
<1> HIDE DEF new
<1>7. Allocations(words, new) = Allocations(new, new)
  BY <1>2, <1>6, SameAllocations
<1> QED
  BY <1>5, <1>7 DEF ProgramIn, ProgramOf, new, words

LEMMA RestoreRefines ==
    ASSUME IInv, NEW native \in BOOLEAN, Restore(native), Running'
    PROVE  ProgramOf(vm', Concat(vm'.buckets)) = ProgramIn(image)
<1>1. ImageOK(image) /\ ~Unloadable(native)
  BY DEF IInv, Restore, Running
<1>2. CASE image.heap = <<>>
  <2>1. vm' = [native |-> native, globals |-> image.globals, buckets |-> <<>>]
    BY <1>2 DEF Restore
  <2>2. Tagged(<<>>) = {}
    BY DEF Tagged
  <2>3. \A g \in 1 .. Globals : ~IsPtr(image.globals[g])
    BY <1>1, <1>2, <2>2 DEF ImageOK, Saved
  <2>4. Concat(<<>>) = <<>>
    <3>1. <<>> \in Seq(Bucket) /\ DOMAIN <<>> = {} /\ UsedWords(<<>>) = 0
      BY DEF UsedWords
    <3>2. BucketsOK(<<>>)
      BY <3>1, Sizes DEF BucketsOK
    <3>3. Flat(<<>>, <<>>)
      BY <3>1 DEF Flat
    <3> QED
      BY <3>2, <3>3, ConcatIsFlat
  <2>5. [g \in DOMAIN image.globals |-> SerializePtr(vm', image.globals[g])] = image.globals
    BY <1>1, <2>3 DEF ImageOK, SerializePtr
  <2>6. \A c : Allocations(<<>>, c) = {}
    BY <2>2 DEF Allocations
  <2>7. vm'.globals = image.globals /\ vm'.buckets = <<>>
    BY <2>1
  <2>8. ProgramIn(image) = <<image.globals, {}>>
    BY <1>2, <2>6 DEF ProgramIn
  <2>9. ProgramOf(vm', <<>>) = <<image.globals, {}>>
    BY <2>5, <2>6, <2>7 DEF ProgramOf
  <2> QED
    BY <2>4, <2>7, <2>8, <2>9
<1>3. CASE image.heap # <<>>
  <2> DEFINE v     == vm'
             heap  == image.heap
             words == v.buckets[1].words
  <2>1. v = LoadPointers(native)
    BY <1>1, <1>3 DEF Restore
  <2> HIDE DEF v
  <2>2. /\ VMOK(v)
        /\ v.globals = [g \in 1 .. Globals |-> LoadOf(native, image.globals[g])]
        /\ Flat(words, v.buckets)
        /\ words = [i \in DOMAIN heap |-> IF i \in LoadedSlots THEN LoadOf(native, heap[i]) ELSE heap[i]]
        /\ Tagged(words) = Tagged(heap)
        /\ \A h \in Tagged(words) : words[h] = heap[h]
        /\ Slots(words, 0) = Slots(heap, 0) /\ Slots(words, 0) \subseteq LoadedSlots
    BY <1>1, <1>3, <2>1, LoadedVM
  <2>3. BucketsOK(v.buckets) /\ words \in Seq(Word) /\ Parsed(words) /\ Concat(v.buckets) = words
    BY <2>2, HeadersOfFlat, ConcatIsFlat DEF VMOK, Flat
  <2>4. heap \in Seq(Word) /\ Parsed(heap) /\ image.globals \in [1 .. Globals -> Value]
    BY <1>1 DEF ImageOK
  <2>5. \A w \in Value : Saved(heap, w) => SerializePtr(v, LoadOf(native, w)) = w
    BY <1>1, <1>3, <2>1, ValuesComeBack
  <2> HIDE DEF v, heap, words
  <2>6. [g \in DOMAIN v.globals |-> SerializePtr(v, v.globals[g])] = image.globals
    <3>1. \A g \in 1 .. Globals : SerializePtr(v, LoadOf(native, image.globals[g])) = image.globals[g]
      BY <1>1, <2>4, <2>5 DEF ImageOK, heap
    <3>2. v.globals = [g \in 1 .. Globals |-> LoadOf(native, image.globals[g])]
      BY <2>2
    <3>3. DOMAIN image.globals = 1 .. Globals /\ image.globals = [g \in 1 .. Globals |-> image.globals[g]]
      BY <2>4
    <3>4. DOMAIN v.globals = 1 .. Globals
          /\ \A g \in 1 .. Globals : SerializePtr(v, v.globals[g]) = image.globals[g]
      BY <3>1, <3>2
    <3> QED
      BY <3>3, <3>4
  <2>7. ASSUME NEW h \in Tagged(words), NEW i \in h + 1 .. h + Words(words[h][3], 0)
        PROVE  Relative(v, words)[i] = heap[i]
    <3>1. i \in DOMAIN words /\ (i \in Slots(words, 1) => i \in Slots(words, 0))
      BY <2>3, ContentsInWords
    <3>2. h \in Tagged(heap) /\ i \in h + 1 .. h + Words(heap[h][3], 0)
      BY <2>2
    <3>3. i \in DOMAIN heap /\ (i \in LoadedSlots => i \in Slots(heap, 0))
      BY <2>4, <3>2, ContentsInWords DEF LoadedSlots, heap
    <3>4. CASE i \in Slots(words, 0)
      <4>1. Relative(v, words)[i] = SerializePtr(v, LoadOf(native, heap[i]))
        BY <2>2, <3>1, <3>3, <3>4 DEF Relative
      <4>2. heap[i] \in Value
        BY <2>2, <2>4, <3>4, SlotsAreWords
      <4>3. Saved(heap, heap[i])
        BY <1>1, <2>2, <3>4 DEF ImageOK, heap
      <4> QED
        BY <2>5, <4>1, <4>2, <4>3
    <3>5. CASE i \notin Slots(words, 0)
      BY <2>2, <3>1, <3>3, <3>5 DEF Relative
    <3> QED
      BY <3>4, <3>5
  <2>8. Allocations(words, Relative(v, words)) = Allocations(heap, heap)
    <3>1. Tagged(heap) = Tagged(words) /\ \A h \in Tagged(words) : heap[h] = words[h]
      BY <2>2
    <3> QED
      BY ONLY <2>3, <2>7, <3>1, SameAllocations
  <2>9. ProgramOf(v, words) = <<image.globals, Allocations(heap, heap)>>
    BY <2>6, <2>8 DEF ProgramOf
  <2> QED
    BY <2>3, <2>9 DEF ProgramIn, v, heap
<1> QED
  BY <1>2, <1>3

LEMMA StepRefines ==
    ASSUME NoneIsNoProgram, IInv, IInv', [Next]_vars
    PROVE  [Checkpoint!Next]_Checkpoint!vars
<1>1. /\ Running => Live = ProgramOf(vm, Concat(vm.buckets)) /\ Live # None
      /\ ~Running => Live = None
      /\ Intact => Kept = ProgramIn(image) /\ Kept # None
      /\ ~Intact => Kept = None
  BY Mapped DEF NoneIsNoProgram, ProgramOf, ProgramIn
<1>2. /\ Running' => Live' = ProgramOf(vm', Concat(vm'.buckets)) /\ Live' # None
      /\ ~Running' => Live' = None
      /\ Intact' => Kept' = ProgramIn(image') /\ Kept' # None
      /\ ~Intact' => Kept' = None
  BY MappedNext DEF NoneIsNoProgram, ProgramOf, ProgramIn
<1>3. /\ UNCHANGED <<status, vm>> => Live' = Live
      /\ UNCHANGED image => Kept' = Kept
  <2>1. UNCHANGED <<status, vm>> => Live' = Live
    BY <1>1, <1>2 DEF Running
  <2>2. UNCHANGED image => Kept' = Kept
    BY <1>1, <1>2 DEF Intact
  <2> QED
    BY <2>1, <2>2
<1>4. SUFFICES \/ Live # None /\ Live' # None /\ Kept' = Kept
               \/ Live # None /\ Kept' = Live /\ Live' = Live
               \/ Live' = None /\ Kept' = Kept
               \/ Live = None /\ Kept # None /\ Live' = Kept /\ Kept' = Kept
               \/ Kept' = None /\ Live' = Live
               \/ Kept' = Kept /\ Live' = Live
  BY DEF Checkpoint!Next, Checkpoint!Write, Checkpoint!Save, Checkpoint!PowerOff,
         Checkpoint!Restore, Checkpoint!Spoil, Checkpoint!vars, Live, Kept
<1>5. CASE CreateSnapshot
  <2>1. CASE Taken
    BY <1>1, <1>2, <1>3, <2>1, SaveRefines DEF Taken
  <2>2. CASE UNCHANGED vars
    BY <1>3, <2>2 DEF vars
  <2>3. CASE Running /\ status' = "fatal" /\ UNCHANGED <<vm, image>>
    BY <1>2, <1>3, <2>3 DEF Running
  <2> QED
    BY <1>5, <2>1, <2>2, <2>3, SnapshotOrNone
<1>6. ASSUME NEW native \in BOOLEAN, Restore(native)
      PROVE  \/ Live' = None /\ Kept' = Kept
             \/ Live = None /\ Kept # None /\ Live' = Kept /\ Kept' = Kept
  <2>1. ~Running /\ Intact /\ UNCHANGED image
    BY <1>6 DEF Restore, Running
  <2>2. CASE Running'
    BY <1>1, <1>2, <1>3, <1>6, <2>1, <2>2, RestoreRefines
  <2>3. CASE ~Running'
    BY <1>2, <1>3, <2>1, <2>3
  <2> QED
    BY <2>2, <2>3
<1>7. CASE PowerOff
  BY <1>2, <1>3, <1>7 DEF PowerOff, Running
<1>8. CASE Spoil
  BY <1>2, <1>3, <1>8, SpoilIsFound DEF Spoil
<1>9. ASSUME Running, UNCHANGED <<status, image>>
      PROVE  Live # None /\ Live' # None /\ Kept' = Kept
  BY <1>1, <1>2, <1>3, <1>9 DEF Running
<1>10. ASSUME NEW g \in 1 .. Globals,
              \/ AllocateClosure(g) \/ AllocateData(g) \/ AllocateEmptyKeys(g)
              \/ Drop(g) \/ \E val \in {Num} \cup ToSet(vm.globals) : Write(g, val)
       PROVE  Running /\ UNCHANGED <<status, image>>
  BY <1>10 DEF AllocateClosure, AllocateData, AllocateEmptyKeys, Allocate, Drop, Write
<1>11. CASE UNCHANGED vars
  BY <1>3, <1>11 DEF vars
<1> QED
  BY <1>5, <1>6, <1>7, <1>8, <1>9, <1>10, <1>11 DEF Next

LEMMA InitRefines ==
    ASSUME NoneIsNoProgram, Init
    PROVE  Checkpoint!Init
<1>1. IInv
  BY InitEstablishes
<1>2. ~Running /\ Intact
  <2>1. status = "off" /\ image = Sealed([globals |-> [g \in 1 .. Globals |-> Num], heap |-> <<>>])
    BY DEF Init
  <2> QED
    BY <2>1 DEF Running, Intact, Sealed
<1>3. Live = None /\ Kept # None
  BY <1>1, <1>2, Mapped DEF NoneIsNoProgram, ProgramIn
<1> QED
  BY <1>3 DEF Checkpoint!Init, Live, Kept

(* A snapshot is a checkpoint: a program that goes on from mvm_restore is  *)
(* in the state in which mvm_createSnapshot was called last, whatever the  *)
(* buckets and the kinds of pointers before and after, and it does not go  *)
(* on from an image that was spoilt.                                       *)
THEOREM SnapshotsAreCheckpoints ==
    ASSUME NoneIsNoProgram
    PROVE  Spec => ImplementsCheckpoint
<1>1. Init => Checkpoint!Init
  BY InitRefines
<1>2. IInv /\ IInv' /\ [Next]_vars => [Checkpoint!Next]_Checkpoint!vars
  BY StepRefines
<1> QED
  BY <1>1, <1>2, InvariantHolds, PTL DEF Spec, ImplementsCheckpoint, Checkpoint!Spec
=============================================================================
