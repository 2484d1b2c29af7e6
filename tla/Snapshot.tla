------------------------------- MODULE Snapshot -------------------------------
(***************************************************************************)
(* Snapshots on the device (mvm_createSnapshot, serializePointers,         *)
(* mvm_restore and loadPointers of microvium.c): the globals and the heap  *)
(* of a VM, whose pointers are native addresses on some ports and offsets  *)
(* on the others, become an image with offsets, from which a VM on the     *)
(* same or another port goes on after the power was lost.                  *)
(*                                                                         *)
(* Memory is a sequence of 16-bit words; addresses and offsets count       *)
(* words.  A heap is only understood by its header words.                  *)
(***************************************************************************)
EXTENDS Integers, Sequences, FiniteSets, SequencesExt, FiniteSetsExt

CONSTANTS
    Globals,     \* the number of global variables
    MaxWords,    \* bound: the words of heap in use
    BucketWords, \* MVM_ALLOCATION_BUCKET_SIZE, in words
    ImageLimit,  \* 0xFFFF: the most that globals and heap can be in an image, in words
    None         \* no state to go on in

ASSUME SnapshotAssumption ==
    {Globals, MaxWords, BucketWords} \subseteq Nat \ {0} /\ ImageLimit \in Nat

\* The header word of an allocation with its size in bytes, a value that is no
\* pointer, and a value that is one.
Header(type, size) == <<"header", type, size>>
Num                == <<"num", 0, 0>>
Ptr(n)             == <<"ptr", n, 0>>

IsPtr(word) == word[1] = "ptr"

\* Where no bucket is.
Far == (MaxWords + 1) * (MaxWords + 1)

VARIABLES
    status,  \* of the device: "off", "running", or "fatal" after a fatal error
    vm,      \* the VM: whether its pointers are native, its globals and buckets
    image    \* the snapshot in the memory of the device

vars == <<status, vm, image>>

Running == status = "running"

NoVM == [native |-> FALSE, globals |-> <<>>, buckets |-> <<>>]

-----------------------------------------------------------------------------
(* Buckets, oldest first, each with the address of its data, its           *)
(* offsetStart and the words in use.                                       *)

UsedWords(buckets) ==
    IF buckets = <<>> THEN 0 ELSE Last(buckets).start + Len(Last(buckets).words)

\* Buckets are in different places, which leave room for the header of a bucket.
Address(place) == place * (MaxWords + 1) + 1

FreeAddress(buckets) ==
    Min({Address(p) : p \in 0 .. Len(buckets)} \ {buckets[i].at : i \in DOMAIN buckets})

\* An address of data is between the header of the bucket and the end of what is used.
InBucket(b, a) == b.at - 1 <= a /\ a <= b.at + Len(b.words)

PointerOffsetInHeap(buckets, a) ==
    LET b == buckets[Max({i \in DOMAIN buckets : InBucket(buckets[i], a)})]
    IN  b.start + (a - b.at)

\* ShortPtr_decode and then pointerOffsetInHeap: only a native pointer changes.
OffsetOf(v, word) == IF v.native THEN PointerOffsetInHeap(v.buckets, word[2]) ELSE word[2]

\* ShortPtr_encode of an address in a heap with these buckets.
Encode(native, buckets, a) == Ptr(IF native THEN a ELSE PointerOffsetInHeap(buckets, a))

-----------------------------------------------------------------------------
(* The walk over the allocations of a heap.                                *)

\* A size in bytes as words, with the byte that is added to round an odd one up.
Words(bytes, added) == (bytes + added) \div 2

\* The positions of the headers, counted from 1: where the walk is that takes the
\* first word for a header and goes on behind the allocation, whose size is rounded
\* up.
Headers(words) ==
    LET from[p \in Nat] ==
            IF p \in DOMAIN words THEN {p} \cup from[p + 1 + Words(words[p][3], 1)] ELSE {}
    IN  from[1]

\* Mutant of Slots: all allocations are taken for containers.
SlotsOfAll(words, added) ==
    UNION {h + 1 .. h + Words(words[h][3], added) : h \in Headers(words)}

\* The words of containers.
Slots(words, added) ==
    UNION {h + 1 .. h + Words(words[h][3], added) :
        h \in {g \in Headers(words) : words[g][2] = "container"}}

-----------------------------------------------------------------------------
(* mvm_createSnapshot.                                                     *)

\* Mutant of SerializePtr: the pointer is copied as it is.
SerializePtrRaw(v, word) == word

SerializePtr(v, word) == IF IsPtr(word) THEN Ptr(OffsetOf(v, word)) ELSE word

SerializePointers(v, globals, words) ==
    LET slots == Slots(words, 0)
    IN  [globals |-> [g \in DOMAIN globals |-> SerializePtr(v, globals[g])],
         heap    |-> [i \in DOMAIN words |->
                         IF i \in slots THEN SerializePtr(v, words[i]) ELSE words[i]]]

\* The buckets are copied from the last one backwards, each up to where the one
\* behind it begins.
HeapCopied(buckets) ==
    LET target[n \in 0 .. Len(buckets)] ==   \* the words behind bucket n
            IF n = Len(buckets) THEN <<>>
            ELSE LET cursor == IF n + 1 = Len(buckets) THEN UsedWords(buckets)
                               ELSE buckets[n + 2].start
                 IN  SubSeq(buckets[n + 1].words, 1, cursor - buckets[n + 1].start)
                         \o target[n + 1]
    IN  target[0]

Sealed(parts) ==
    [globals |-> parts.globals, heap |-> parts.heap,
     bytecodeSize |-> Len(parts.globals) + Len(parts.heap), crc |-> parts]

\* The snapshot replaces the one before it.  There is none if malloc returns NULL,
\* and one that is too large is a fatal error.
CreateSnapshot ==
    /\ Running
    /\ \/ /\ Globals + UsedWords(vm.buckets) > ImageLimit
          /\ status' = "fatal"
          /\ UNCHANGED <<vm, image>>
       \/ /\ Globals + UsedWords(vm.buckets) <= ImageLimit
          /\ \/ image' = Sealed(SerializePointers(vm, vm.globals, HeapCopied(vm.buckets)))
             \/ UNCHANGED image
          /\ UNCHANGED <<status, vm>>

-----------------------------------------------------------------------------
(* mvm_restore.                                                            *)

\* The size that the header says is that of the image, and so is the checksum.
Intact ==
    /\ image.bytecodeSize = Len(image.globals) + Len(image.heap)
    /\ image.crc = [globals |-> image.globals, heap |-> image.heap]

FirstBucket == [at |-> FreeAddress(<<>>), start |-> 0, room |-> Len(image.heap), words |-> image.heap]

\* What loadPointers takes for values in the heap: it rounds up.
LoadedSlots == Slots(image.heap, 1)

\* A value that is a pointer to no place in the heap is a fatal error, on a port
\* that has to convert it.
Unloadable(native) ==
    ~native /\ image.heap # <<>> /\ \E i \in LoadedSlots :
        IsPtr(image.heap[i]) /\ ~InBucket(FirstBucket, FirstBucket.at + image.heap[i][2])

LoadPointers(native) ==
    LET Target(w) == Min({FirstBucket.at + w[2], Far})
        Load(w)   == IF IsPtr(w) THEN Encode(native, <<FirstBucket>>, Target(w)) ELSE w
    IN  [native  |-> native,
         globals |-> [g \in DOMAIN image.globals |-> Load(image.globals[g])],
         buckets |-> <<[FirstBucket EXCEPT !.words =
                           [i \in DOMAIN @ |-> IF i \in LoadedSlots THEN Load(@[i]) ELSE @[i]]]>>]

\* Without a heap in the image there is no bucket, and no pointer to load.
Restore(native) ==
    /\ status = "off"
    /\ Intact
    /\ status' = IF Unloadable(native) THEN "fatal" ELSE "running"
    /\ vm' = IF image.heap = <<>>
             THEN [native |-> native, globals |-> image.globals, buckets |-> <<>>]
             ELSE IF Unloadable(native) THEN NoVM
             ELSE LoadPointers(native)
    /\ UNCHANGED image

\* The VM and its memory are gone.
PowerOff ==
    /\ status # "off"
    /\ status' = "off" /\ vm' = NoVM
    /\ UNCHANGED image

\* While the power is off the image is cut off or gets a wrong word.
Spoil ==
    /\ status = "off" /\ Intact
    /\ \/ image.heap # <<>> /\ image' = [image EXCEPT !.heap = Front(@)]
       \/ \E g \in 1 .. Globals :
            IsPtr(image.globals[g]) /\ image' = [image EXCEPT !.globals[g] = Num]
    /\ UNCHANGED <<status, vm>>

-----------------------------------------------------------------------------
(* What the program does in between.                                       *)

\* The chain with one more allocation, in the last bucket or in a new one.
Extended(buckets, words) ==
    IF buckets # <<>> /\ Len(Last(buckets).words) + Len(words) <= Last(buckets).room
    THEN [buckets EXCEPT ![Len(buckets)].words = @ \o words]
    ELSE Append(buckets, [at |-> FreeAddress(buckets), start |-> UsedWords(buckets),
                          room |-> Max({BucketWords, Len(words)}), words |-> words])

\* An allocation for a global; what is in it at first is the word content.
Allocate(g, type, bytes, content) ==
    LET words   == <<Header(type, bytes)>> \o [i \in 1 .. Words(bytes, 1) |-> content]
        buckets == Extended(vm.buckets, words)
        data    == Last(buckets).at + Len(Last(buckets).words) - Words(bytes, 1)
    IN  /\ Running
        /\ UsedWords(buckets) <= MaxWords
        /\ vm' = [vm EXCEPT !.buckets = buckets,
                            !.globals[g] = Encode(vm.native, buckets, data)]
        /\ UNCHANGED <<status, image>>

\* A closure with one slot.
AllocateClosure(g) == Allocate(g, "container", 2, Num)

\* A string or a number, whose bytes look like a pointer.
AllocateData(g) == Allocate(g, "data", 2, Ptr(1))

\* The array that Object.keys makes for an object without properties has a size of
\* one byte, and nothing is written to its word: here it looks like a pointer.
AllocateEmptyKeys(g) == Allocate(g, "container", 1, Ptr(Far))

\* The bucket of an allocation, and the position of its header in it.
Place(v, word) ==
    LET offset == OffsetOf(v, word)
        b      == CHOOSE i \in DOMAIN v.buckets :
                      v.buckets[i].start < offset /\ offset <= v.buckets[i].start + Len(v.buckets[i].words)
    IN  <<b, offset - v.buckets[b].start>>

\* A value is stored in the slot of a closure that a global holds.
Write(g, value) ==
    /\ Running
    /\ IsPtr(vm.globals[g])
    /\ LET at     == Place(vm, vm.globals[g])
           header == vm.buckets[at[1]].words[at[2]]
       IN  /\ header[2] = "container" /\ Words(header[3], 0) = 1
           /\ vm' = [vm EXCEPT !.buckets[at[1]].words[at[2] + 1] = value]
    /\ UNCHANGED <<status, image>>

Drop(g) ==
    /\ Running
    /\ vm' = [vm EXCEPT !.globals[g] = Num]
    /\ UNCHANGED <<status, image>>

-----------------------------------------------------------------------------

\* The image that the compiler made, without a heap.
Init ==
    /\ status = "off" /\ vm = NoVM
    /\ image = Sealed([globals |-> [g \in 1 .. Globals |-> Num], heap |-> <<>>])

Next ==
    \/ CreateSnapshot
    \/ \E native \in BOOLEAN : Restore(native)
    \/ PowerOff
    \/ Spoil
    \/ \E g \in 1 .. Globals : AllocateClosure(g)
    \/ \E g \in 1 .. Globals : AllocateData(g)
    \/ \E g \in 1 .. Globals : AllocateEmptyKeys(g)
    \/ \E g \in 1 .. Globals : \E value \in {Num} \cup ToSet(vm.globals) : Write(g, value)
    \/ \E g \in 1 .. Globals : Drop(g)

Spec == Init /\ [][Next]_vars

-----------------------------------------------------------------------------
(* Properties.                                                             *)

\* What the program is, whatever the addresses are: its globals, and the
\* allocations by their offsets.  The padding behind an odd size is not part of it.
Program(globals, words, Offset(_)) ==
    LET slots   == Slots(words, 0)
        Plain(i) == IF i \in slots THEN Offset(words[i]) ELSE words[i]
    IN  <<[g \in DOMAIN globals |-> Offset(globals[g])],
          {<<h, words[h], [i \in h + 1 .. h + Words(words[h][3], 0) |-> Plain(i)]>> :
              h \in Headers(words)}>>

\* The words of all buckets by their offsets.
Heap ==
    LET words[n \in 0 .. Len(vm.buckets)] ==   \* the words up to bucket n
            IF n = 0 THEN <<>> ELSE words[n - 1] \o vm.buckets[n].words
    IN  words[Len(vm.buckets)]

Offset(word) == IF IsPtr(word) THEN Ptr(OffsetOf(vm, word)) ELSE word

\* The snapshot on the device implements Checkpoint: whatever the heap is like,
\* in one bucket or in several, with native pointers or with offsets, a program goes
\* on after the power was lost exactly where its last snapshot was taken, also on
\* a port with other pointers, and never from an image that was spoilt.
Checkpoint ==
    INSTANCE Checkpoint WITH
        live  <- IF Running THEN Program(vm.globals, Heap, Offset) ELSE None,
        saved <- IF Intact THEN Program(image.globals, image.heap, LAMBDA w : w) ELSE None

ImplementsCheckpoint == Checkpoint!Spec

\* Every pointer of a VM, in a global or in a slot, leads to the data of an
\* allocation: no word of a string was taken for a pointer and converted.
PointersAreExact ==
    Running =>
        LET words == Heap
        IN  \A w \in ToSet(vm.globals) \cup {words[i] : i \in Slots(words, 0)} :
                IsPtr(w) => OffsetOf(vm, w) \in Headers(words)

\* "The snapshot generated by this function is suitable to be used in a call to
\* mvm_restore" (microvium.h:461).
RestoreSucceeds == status # "fatal"
=============================================================================
