-------------------------- MODULE GarbageCollector --------------------------
(***************************************************************************)
(* mvm_runGC of microvium.c: Cheney's copying collector, word by word.     *)
(*                                                                         *)
(* A collection moves what the roots reach from the old buckets to new     *)
(* ones and leaves a tombstone with the new address behind.  On the way it *)
(* compacts: the chain of property lists of an object becomes one list,    *)
(* and the storage of an array is cut to the length of the array.  A       *)
(* squeeze collects a second time if the first guess of the size was wrong.*)
(*                                                                         *)
(* A value is <<"from", i>> or <<"to", i>> for a pointer to allocation i   *)
(* of a space, <<"null", 0>>, or <<"prim", n>> for anything else.  Sizes   *)
(* are in words; an allocation takes one more word for its header.         *)
(***************************************************************************)
EXTENDS Integers, Sequences, FiniteSets, SequencesExt, FiniteSetsExt

CONSTANTS
    Heaps,          \* what may be collected: [allocs, roots]
    Estimates,      \* what vm->heapSizeUsedAfterLastGC may be
    EmptyEstimate,  \* the size of the first bucket if that is 0
    BucketWords,    \* MVM_ALLOCATION_BUCKET_SIZE
    MaxHeapWords,   \* MVM_MAX_HEAP_SIZE
    MaxAllocationWords  \* MAX_ALLOCATION_SIZE

Null    == <<"null", 0>>
Prim(n) == <<"prim", n>>
From(i) == <<"from", i>>
To(i)   == <<"to", i>>

IsFrom(v) == v[1] = "from"

\* leaf: strings and numbers.  cell: containers that are only copied.  data: a
\* fixed-length array.  array: <<dpData, length>>.  props: a property list
\* <<dpNext, dpProto, key, value, key, value, ...>>.
Kinds == {"leaf", "cell", "data", "array", "props"}

Size(a) == Len(a.body) + 1

Total(numbers)    == FoldLeft(LAMBDA m, n : m + n, 0, numbers)
TotalSize(allocs) == Total([i \in DOMAIN allocs |-> Size(allocs[i])])

ASSUME SizeAssumption ==
    /\ {EmptyEstimate, BucketWords, MaxHeapWords, MaxAllocationWords} \subseteq Nat \ {0}
    /\ Estimates \subseteq 0 .. MaxHeapWords
    /\ \A h \in Heaps :
          /\ TotalSize(h.allocs) <= MaxHeapWords
          /\ \A i \in DOMAIN h.allocs : Len(h.allocs[i].body) <= MaxAllocationWords

Pointers(body) == {v[2] : v \in {x \in Range(body) : IsFrom(x)}}

\* A list that extends an object and the storage of an array are parts of what
\* refers to them in its first word: no other word does.
HasPart(a) == a.kind \in {"props", "array"} /\ a.body[1] # Null
Part(a)    == a.body[1][2]
Parts(allocs) == {Part(allocs[i]) : i \in {k \in DOMAIN allocs : HasPart(allocs[k])}}
Shared(a)  == Pointers(IF HasPart(a) THEN Tail(a.body) ELSE a.body)

\* What the code asserts of the allocations: dpData is a unique pointer to storage
\* for at least `length` elements; dpNext extends an object, with a list that was
\* allocated after those it extends.
WellFormedAt(allocs, i) ==
    LET a == allocs[i]
    IN  /\ a.kind = "props" => Len(a.body) >= 2 /\ Len(a.body) % 2 = 0
        /\ a.kind = "array" => Len(a.body) = 2 /\ a.body[2][1] = "prim"
        /\ HasPart(a) =>
            /\ IsFrom(a.body[1]) /\ Part(a) \in DOMAIN allocs
            /\ \A k \in DOMAIN allocs : HasPart(allocs[k]) /\ Part(allocs[k]) = Part(a) => k = i
            /\ a.kind = "props" => allocs[Part(a)].kind = "props" /\ i < Part(a)
            /\ a.kind = "array" => /\ allocs[Part(a)].kind = "data"
                                  /\ a.body[2][2] <= Len(allocs[Part(a)].body)
        /\ a.kind # "leaf" => Shared(a) \subseteq DOMAIN allocs \ Parts(allocs)

Value == {"null", "prim", "from"} \X Nat

WellFormed(h) ==
    /\ h.allocs \in Seq([kind : Kinds, body : Seq(Value)])
    /\ h.roots \in Seq(Value)
    /\ \A i \in DOMAIN h.allocs : WellFormedAt(h.allocs, i)
    /\ Pointers(h.roots) \subseteq DOMAIN h.allocs \ Parts(h.allocs)

ASSUME HeapAssumption ==
    \A h \in Heaps : h = [allocs |-> h.allocs, roots |-> h.roots] /\ WellFormed(h)

VARIABLES
    from,       \* the old heap: allocations with their tombstones, 0 or the new index
    to,         \* the new heap: allocations in the order of their addresses
    buckets,    \* the new buckets: capacity and used words
    roots,      \* globals, handles, registers and the words of the stack frames
    rootsDone,  \* how many roots are processed
    scanned,    \* how many allocations of the new heap are scanned
    word,       \* how many words of the next one are scanned
    estimate,   \* the size that the collection asked for
    squeeze,    \* "off", "asked", or "again" in the second collection of a squeeze
    phase,      \* "roots", "scan", "done", "fatal", or "overrun": wrote behind a bucket
    before      \* history: the heap before the collection

vars == <<from, to, buckets, roots, rootsDone, scanned, word, estimate, squeeze, phase,
          before>>

-----------------------------------------------------------------------------
(* Buckets.                                                                *)

UsedWords(bks) == Total([n \in DOMAIN bks |-> bks[n].used])

SpaceLeft(bks) == Last(bks).capacity - Last(bks).used

\* gc_newBucket: the end of the new bucket is chopped off at the largest heap size.
NewBucket(bks, size, min) ==
    Append(bks, [capacity |-> Min({Max({size, min}), MaxHeapWords - UsedWords(bks)}),
                 used |-> 0])

Fill(bks, words) == [bks EXCEPT ![Len(bks)].used = @ + words]

-----------------------------------------------------------------------------
(* Compaction.                                                             *)

\* The property lists behind the one at i, in the order of the chain.
Chain(allocs, i) ==
    LET behind[k \in DOMAIN allocs] ==
            IF allocs[k].kind = "props" /\ HasPart(allocs[k])
            THEN <<Part(allocs[k])>> \o behind[Part(allocs[k])] ELSE << >>
    IN  behind[i]

Fields(a)    == SubSeq(a.body, 3, Len(a.body))
PropCount(a) == Len(Fields(a)) \div 2

\* How many properties the object at i has in its first n + 1 lists.
PropsUpTo(allocs, i, n) ==
    LET chain == Chain(allocs, i)
    IN  PropCount(allocs[i]) + Total([k \in 1 .. n |-> PropCount(allocs[chain[k]])])

\* The list at i and those behind it as one.
Merged(allocs, i) ==
    LET chain == Chain(allocs, i)
    IN  <<Null, allocs[i].body[2]>> \o Fields(allocs[i])
          \o FlattenSeq([n \in DOMAIN chain |-> Fields(allocs[chain[n]])])

\* Mutant of Compacted: only the first of the lists behind the head is merged.
CompactedOnce(allocs, i) ==
    LET a == allocs[i]
    IN  IF a.kind = "props" /\ a.body[1] # Null
        THEN [a EXCEPT !.body = <<Null, a.body[2]>> \o Fields(a)
                                \o Fields(allocs[a.body[1][2]])]
        ELSE a

\* What a move writes for the allocation at i.
Compacted(allocs, i) ==
    LET a == allocs[i]
    IN  CASE a.kind = "props" -> [a EXCEPT !.body = Merged(allocs, i)]
          [] a.kind = "array" /\ a.body[2] = Prim(0) ->
               [a EXCEPT !.body[1] = Null]
          [] OTHER -> a

\* The storage of an array is cut where it lies; it is copied when its turn comes.
CutStorage(allocs, i) ==
    LET a == allocs[i]
    IN  IF a.kind = "array" /\ HasPart(a) /\ a.body[2] # Prim(0)
        THEN [allocs EXCEPT ![Part(a)].body = SubSeq(@, 1, a.body[2][2])]
        ELSE allocs

-----------------------------------------------------------------------------
(* The space that a move asks for.                                         *)

\* The lists of the chain of i for which the check for space fails: the check
\* counts one word for each property of the list, and two are copied.
Misfits(i) ==
    LET chain == Chain(from, i)
    IN  {n \in DOMAIN chain :
            Len(from[i].body) + 1
              + 2 * (PropsUpTo(from, i, n - 1) - PropCount(from[i]))
              + PropCount(from[chain[n]]) > SpaceLeft(buckets)}

HeadFits(i) == Size(from[i]) <= SpaceLeft(buckets)

ChainFits(i) == from[i].kind = "props" => Misfits(i) = {}

\* What gc_newBucket is asked for at least: the allocation with its header, or
\* the merged list as far as the first misfit, without its header.
MinRequired(i) ==
    IF ~HeadFits(i) THEN Size(from[i]) ELSE 2 + 2 * PropsUpTo(from, i, Min(Misfits(i)))

\* What a move that is abandoned for i has written by then: nothing, or the head
\* and the fields of the lists in front of the misfit.
Abandoned(i) ==
    IF ~HeadFits(i) THEN 0
    ELSE Size(from[i]) + 2 * (PropsUpTo(from, i, Min(Misfits(i)) - 1) - PropCount(from[i]))

\* Words behind the end of the bucket belong to the host: the model stops there.
AfterWriting(words) == IF words > SpaceLeft(buckets) THEN "overrun" ELSE phase

\* The lists of i do not fit into one allocation.
TooLarge(i) == /\ from[i].kind = "props" /\ HasPart(from[i])
               /\ Len(Merged(from, i)) > MaxAllocationWords

-----------------------------------------------------------------------------
\* The first bucket of a collection.
FirstBuckets(size) == NewBucket(<< >>, IF size = 0 THEN EmptyEstimate ELSE size, 0)

Untouched(allocs) == [i \in DOMAIN allocs |->
    [kind |-> allocs[i].kind, body |-> allocs[i].body, moved |-> 0]]

Init ==
    \E h \in Heaps, size \in Estimates :
        /\ from = Untouched(h.allocs)
        /\ roots = h.roots
        /\ before = h
        /\ buckets = FirstBuckets(size)
        /\ estimate = (IF size = 0 THEN EmptyEstimate ELSE size)
        /\ to = << >>
        /\ rootsDone = 0 /\ scanned = 0 /\ word = 0
        /\ squeeze \in {"off", "asked"}
        /\ phase = "roots"

\* Containers of the new heap are scanned, leaves are skipped.
HasWord == /\ scanned < Len(to)
           /\ to[scanned + 1].kind # "leaf"
           /\ word < Len(to[scanned + 1].body)

AtValue == \/ phase = "roots" /\ rootsDone < Len(roots)
           \/ phase = "scan" /\ HasWord

\* The value that gc_processValue is given.
Current == IF phase = "roots" THEN roots[rootsDone + 1] ELSE to[scanned + 1].body[word + 1]

\* The slot of the current value becomes v, in a new heap `allocs`, and the
\* collector goes on to the next slot.
Replace(v, allocs) ==
    \/ /\ phase = "roots"
       /\ roots' = [roots EXCEPT ![rootsDone + 1] = v]
       /\ rootsDone' = rootsDone + 1
       /\ to' = allocs
       /\ UNCHANGED word
    \/ /\ phase = "scan"
       /\ to' = [allocs EXCEPT ![scanned + 1].body[word + 1] = v]
       /\ word' = word + 1
       /\ UNCHANGED <<roots, rootsDone>>

\* gc_processValue, not a pointer to the heap.
Skip ==
    /\ AtValue /\ ~IsFrom(Current)
    /\ Replace(Current, to)
    /\ UNCHANGED <<from, buckets, scanned, estimate, squeeze, phase, before>>

\* A tombstone: the allocation moved before.
Forward ==
    /\ AtValue /\ IsFrom(Current)
    /\ from[Current[2]].moved # 0
    /\ Replace(To(from[Current[2]].moved), to)
    /\ UNCHANGED <<from, buckets, scanned, estimate, squeeze, phase, before>>

\* Mutant of AtMove: the tombstone is not looked at.
AtMoveOfTombstone == AtValue /\ IsFrom(Current)

AtMove == AtValue /\ IsFrom(Current) /\ from[Current[2]].moved = 0

AtMisfit == AtMove /\ ~(HeadFits(Current[2]) /\ ChainFits(Current[2]))

\* Mutant of OpenBucket: the retry takes a bucket of the usual size.
OpenUsualBucket ==
    /\ AtMisfit
    /\ buckets' = NewBucket(SelectSeq(buckets, LAMBDA b : b.used > 0), BucketWords, 0)
    /\ phase' = AfterWriting(Abandoned(Current[2]))
    /\ UNCHANGED <<from, to, roots, rootsDone, scanned, word, estimate, squeeze, before>>

\* No space: a new bucket, and the move starts over.  What it had written by then
\* stays behind the words in use.
OpenBucket ==
    /\ AtMisfit
    /\ buckets' = NewBucket(buckets, BucketWords, MinRequired(Current[2]))
    /\ phase' = AfterWriting(Abandoned(Current[2]))
    /\ UNCHANGED <<from, to, roots, rootsDone, scanned, word, estimate, squeeze, before>>

\* MVM_E_ALLOCATION_TOO_LARGE, a fatal error, after all the lists were copied.
MergeTooLarge ==
    /\ AtMove /\ ~AtMisfit /\ TooLarge(Current[2])
    /\ phase' = IF Len(Merged(from, Current[2])) + 1 > SpaceLeft(buckets) THEN "overrun"
                ELSE "fatal"
    /\ UNCHANGED <<from, to, buckets, roots, rootsDone, scanned, word, estimate, squeeze,
                   before>>

\* The move is committed: the bucket grows and the tombstone is written.
Move ==
    /\ AtMove /\ ~AtMisfit /\ ~TooLarge(Current[2])
    /\ LET i   == Current[2]
           new == [kind |-> from[i].kind, body |-> Compacted(from, i).body]
       IN  /\ from' = [CutStorage(from, i) EXCEPT ![i].moved = Len(to) + 1]
           /\ buckets' = Fill(buckets, Size(new))
           /\ Replace(To(Len(to) + 1), Append(to, new))
           /\ phase' = AfterWriting(Size(new))
    /\ UNCHANGED <<scanned, estimate, squeeze, before>>

RootsDone ==
    /\ phase = "roots" /\ rootsDone = Len(roots)
    /\ phase' = "scan"
    /\ UNCHANGED <<from, to, buckets, roots, rootsDone, scanned, word, estimate, squeeze, before>>

NextAllocation ==
    /\ phase = "scan" /\ scanned < Len(to) /\ ~HasWord
    /\ scanned' = scanned + 1
    /\ word' = 0
    /\ UNCHANGED <<from, to, buckets, roots, rootsDone, estimate, squeeze, phase, before>>

-----------------------------------------------------------------------------
(* The end: the new heap is adopted and, for a squeeze, collected again.   *)

AllScanned == phase = "scan" /\ scanned = Len(to)

\* Mutant of SqueezeAgain: only a heap that outgrew the estimate is squeezed.
SqueezeAgainIfLarger == squeeze = "asked" /\ UsedWords(buckets) > estimate

SqueezeAgain == squeeze = "asked" /\ UsedWords(buckets) # estimate

Adopt ==
    /\ AllScanned /\ ~SqueezeAgain
    /\ phase' = "done"
    /\ UNCHANGED <<from, to, buckets, roots, rootsDone, scanned, word, estimate, squeeze, before>>

Renamed(v) == IF v[1] = "to" THEN From(v[2]) ELSE v
RenamedAll(s) == [n \in DOMAIN s |-> Renamed(s[n])]

Squeeze ==
    /\ AllScanned /\ SqueezeAgain
    /\ LET allocs == [k \in DOMAIN to |-> [to[k] EXCEPT !.body = RenamedAll(@)]]
           size   == UsedWords(buckets)
       IN  /\ from' = Untouched(allocs)
           /\ roots' = RenamedAll(roots)
           /\ before' = [allocs |-> allocs, roots |-> RenamedAll(roots)]
           /\ buckets' = FirstBuckets(size)
           /\ estimate' = IF size = 0 THEN EmptyEstimate ELSE size
    /\ to' = << >>
    /\ rootsDone' = 0 /\ scanned' = 0 /\ word' = 0
    /\ squeeze' = "again"
    /\ phase' = "roots"

Next == \/ Skip \/ Forward \/ OpenBucket \/ MergeTooLarge \/ Move
        \/ RootsDone \/ NextAllocation \/ Adopt \/ Squeeze

\* mvm_runGC is one call of a single-threaded engine: it is never suspended.
Spec == Init /\ [][Next]_vars /\ WF_vars(Next)

-----------------------------------------------------------------------------
(* Properties.                                                             *)

\* The collector's own state stays in bounds: every value has a known form,
\* tombstones point into the new heap, and the buckets account for every word
\* that was moved (the scan of a bucket ends exactly where its words end).
TypeOK ==
    /\ \A i \in DOMAIN from :
          /\ from[i].kind \in Kinds
          /\ from[i].moved \in 0 .. Len(to)
    /\ \A k \in DOMAIN to : to[k].kind \in Kinds
    /\ \A n \in DOMAIN roots : roots[n][1] \in {"prim", "null", "from", "to"}
    /\ rootsDone \in 0 .. Len(roots)
    /\ scanned \in 0 .. Len(to)
    /\ word = 0 \/ (scanned < Len(to) /\ word \in 0 .. Len(to[scanned + 1].body))
    /\ buckets # << >>
    /\ \A b \in Range(buckets) : b.capacity \in 0 .. MaxHeapWords
    /\ UsedWords(buckets) = TotalSize(to)
    /\ estimate \in Nat
    /\ squeeze \in {"off", "asked", "again"}
    /\ phase \in {"roots", "scan", "done", "fatal", "overrun"}

\* The storage of an array holds the first `length` words, and only those count.
Kept(allocs, i) ==
    LET owners == {o \in DOMAIN allocs : /\ allocs[o].kind = "array" /\ HasPart(allocs[o])
                                         /\ Part(allocs[o]) = i}
        body   == allocs[i].body
    IN  IF owners = {} THEN body
        ELSE SubSeq(body, 1, allocs[CHOOSE o \in owners : TRUE].body[2][2])

\* What the program can see of the allocation at i: an object is all its properties
\* in their order, and an array without elements has no storage.
Visible(allocs, i) ==
    LET a == allocs[i]
    IN  CASE a.kind = "props" -> Merged(allocs, i)
          [] a.kind = "array" /\ a.body[2] = Prim(0) -> <<Null, Prim(0)>>
          [] OTHER -> Kept(allocs, i)

PointersSeen(allocs, i) ==
    IF allocs[i].kind = "leaf" THEN {} ELSE Pointers(Visible(allocs, i))

\* What the roots reach.
Closed(h, S) == /\ Pointers(h.roots) \subseteq S
                /\ \A k \in S : PointersSeen(h.allocs, k) \subseteq S

Live(h) == {i \in DOMAIN h.allocs : \A S \in SUBSET DOMAIN h.allocs : Closed(h, S) => i \in S}

Image(body) == [n \in DOMAIN body |->
    IF IsFrom(body[n]) THEN To(from[body[n][2]].moved) ELSE body[n]]

\* What a collection is for: exactly the allocations that the program can reach
\* are in the new heap, each of them once; there each holds what the program saw
\* in the old one, with every pointer following its target; and so do the roots.
\* In the code the three cases of a move, the tombstones, the moves that are
\* abandoned and the scan have to work together for that, whatever the buckets are.
\* It is said of the collections that run to their end: one that ends with a fatal
\* error leaves no heap, and one that writes behind a bucket (BucketsHold, which
\* does not hold) overwrites memory of the host, with any result.
GraphPreserved ==
    phase = "done" =>
        /\ {i \in DOMAIN from : from[i].moved # 0} = Live(before)
        /\ {from[i].moved : i \in Live(before)} = DOMAIN to
        /\ Cardinality(Live(before)) = Len(to)
        /\ \A i \in Live(before) :
              to[from[i].moved] =
                 [kind |-> before.allocs[i].kind,
                  body |-> IF before.allocs[i].kind = "leaf" THEN before.allocs[i].body
                           ELSE Image(Visible(before.allocs, i))]
        /\ roots = Image(before.roots)

\* The assertion of gc_newBucket: the new heap never needs more than the largest
\* heap size, also when a move starts over with the merged size of an object.
HeapLimit ==
    AtMisfit => UsedWords(buckets) + MinRequired(Current[2]) <= MaxHeapWords

\* What the comment at the end of mvm_runGC promises of a squeeze that leaves
\* something: one bucket from the host, and no unused space in it.
SqueezeIsExact ==
    phase = "done" /\ squeeze # "off" /\ to # << >> =>
        Len(buckets) = 1 /\ SpaceLeft(buckets) = 0

\* A collection comes to an end: a move that starts over does so with a bucket
\* that brings it further, and no allocation is scanned for ever.
Termination == <>(phase \in {"done", "fatal", "overrun"})

\* The comment at the check for the fields of a child list, "Check we have space
\* for the new properties": what a move writes stays inside its bucket, whether
\* the move is committed or abandoned.
BucketsHold == phase # "overrun" /\ \A b \in Range(buckets) : b.used <= b.capacity
=============================================================================
