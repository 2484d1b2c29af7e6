-------------------------------- MODULE Heap --------------------------------
(***************************************************************************)
(* The heap of the engine: buckets of host memory in a chain, allocation   *)
(* at the end of the last bucket, and the 16-bit pointers of the program,  *)
(* which count bytes along the chain (mvm_allocate, gc_createNextBucket,   *)
(* pointerOffsetInHeap and ShortPtr_decode of microvium.c).  The host      *)
(* keeps what it allocates in handles.                                     *)
(*                                                                         *)
(* All sizes and addresses are in bytes.  Host memory is the range of      *)
(* addresses below MemorySize, of which malloc returns the lowest or the   *)
(* highest that fits.  mvm_runGC is seen from here as what it does to      *)
(* buckets and addresses; GarbageCollector has its details.                *)
(***************************************************************************)
EXTENDS Integers, FiniteSetsExt, Handles

CONSTANTS
    MaxHeapSize,      \* MVM_MAX_HEAP_SIZE
    BucketSize,       \* MVM_ALLOCATION_BUCKET_SIZE
    EmptyEstimate,    \* the size of the first bucket after a collection of nothing
    BucketHeader,     \* sizeof (TsBucket)
    MemorySize,       \* bound: the memory of the host
    Sizes             \* bound: sizes of allocations, without their headers

ASSUME HeapAssumption ==
    /\ {MaxHeapSize, BucketSize, EmptyEstimate, BucketHeader, MemorySize} \subseteq Nat \ {0}
    /\ \A n \in {MaxHeapSize, BucketSize, EmptyEstimate, BucketHeader} : n % 2 = 0
    /\ MaxHeapSize < 32768   \* pointerOffsetInHeap asserts it of an offset in a bucket
    /\ Sizes \subseteq 1 .. MaxHeapSize
    /\ Undefined \notin Nat  \* an odd number: not a short pointer

VARIABLES
    heap,       \* the chain of buckets, and the header words in them
    lastSize,   \* vm->heapSizeUsedAfterLastGC
    error,      \* the fatal error that ended the VM, and the size there was no room for
    fromTop,    \* whether malloc returns the highest address that fits, or the lowest
    holds       \* history: where the object that was put in each handle is now

vars == <<gcHandles, next, value, heap, lastSize, error, fromTop, holds>>

NoObject == 0   \* not an address of data: a bucket has a header
NoError  == <<"none", 0>>

\* chain: the buckets, oldest first, each with the address of its data, its
\* offsetStart, pEndOfUsedSpace and the end of its capacity.  header: address of
\* an allocation's data -> the size in its header word.
EmptyHeap == [chain |-> <<>>, header |-> <<>>]

-----------------------------------------------------------------------------
(* Host memory.                                                            *)

Occupied(chains) ==
    UNION {{<<b.data - BucketHeader, b.end>> : b \in {c[i] : i \in DOMAIN c}} : c \in chains}

\* Where n bytes fit, next to the memory in use or to a bound of the memory.
Free(n, used) ==
    {a \in {0, MemorySize - n} \cup {r[2] : r \in used} \cup {r[1] - n : r \in used} :
        /\ 0 <= a /\ a + n <= MemorySize
        /\ \A r \in used : a + n <= r[1] \/ r[2] <= a}

\* The null pointer of malloc, as an address that no bucket has.  Other parts of
\* the host take memory too: malloc may fail before the buckets fill the memory.
NoMemory == MemorySize

Malloc(size, chains) ==
    LET free == Free(BucketHeader + size, Occupied(chains))
    IN  CASE free = {}            -> NoMemory
          [] free # {} /\ fromTop  -> Max(free)
          [] free # {} /\ ~fromTop -> Min(free)

-----------------------------------------------------------------------------
(* Buckets.                                                                *)

\* The function f, with y at x.
Put(f, x, y) == [z \in DOMAIN f \cup {x} |-> IF z = x THEN y ELSE f[z]]

OffsetEnd(b) == b.start + (b.used - b.data)

UsedSize(chain) == IF chain = <<>> THEN 0 ELSE OffsetEnd(Last(chain))

\* Mutant of Chopped: the last bucket is as large as the others.
ChoppedNever(used, size) == size

\* The rest that still fits below the limit, if that is less than what was asked for.
Chopped(used, size) == IF used + size > MaxHeapSize THEN MaxHeapSize - used ELSE size

NewBucket(h, size, data) ==
    [chain  |-> Append(h.chain, [data |-> data, used |-> data, end |-> data + size,
                                 start |-> UsedSize(h.chain)]),
     header |-> h.header]

\* The check of malloc's result, for all buckets of a heap together.
MallocFailed(h) == \E i \in DOMAIN h.chain : h.chain[i].data > MemorySize

\* Mutant of Words: the header is not counted when the size is rounded.
WordsTooFew(size) == ((size + 2) \div 2) * 2

\* sizeIncludingHeader of mvm_allocate.
Words(size) == ((size + 3) \div 2) * 2

\* What the allocations at these addresses take up, with their headers.
SizeOf(header, allocations) == MapThenSumSet(LAMBDA a : Words(header[a]), allocations)

HasSpace(h, size) == h.chain # <<>> /\ Last(h.chain).used + Words(size) <= Last(h.chain).end

\* Where the next allocation's data will be, and the heap after it, if there is space.
Top(h) == Last(h.chain).used + 2

Bump(h, size) ==
    [chain  |-> [h.chain EXCEPT ![Len(h.chain)].used = @ + Words(size)],
     header |-> Put(h.header, Top(h), size)]

-----------------------------------------------------------------------------
(* Short pointers.                                                         *)

InBucket(b, address) == b.data - BucketHeader <= address /\ address <= b.used

\* pointerOffsetInHeap looks from the last bucket backwards.
Encode(h, address) ==
    LET b == h.chain[Max({i \in DOMAIN h.chain : InBucket(h.chain[i], address)})]
    IN  b.start + (address - b.data)

\* Mutant of Decode: the search begins with the oldest bucket.
DecodeForwards(h, offset) ==
    LET b == h.chain[Min({i \in DOMAIN h.chain : offset >= h.chain[i].start})]
    IN  b.data + (offset - b.start)

\* ShortPtr_decode also looks from the last bucket backwards.
Decode(h, offset) ==
    LET b == h.chain[Max({i \in DOMAIN h.chain : offset >= h.chain[i].start})]
    IN  b.data + (offset - b.start)

-----------------------------------------------------------------------------
(* A collection.  Objects hold no pointers here: what survives is what the *)
(* listed handles hold, in the order of the list.  MVM_FATAL_ERROR does    *)
(* not return, so what a collection does after a malloc that failed counts *)
(* for nothing: no action goes on with such a heap.                        *)

\* Chains are never in the same memory: the old heap is released at the end.
ToNewBucket(from, to, wanted, least) ==
    LET size == Chopped(UsedSize(to.chain), Max({wanted, least}))
    IN  NewBucket(to, size,
                  Malloc(size, {from.chain, to.chain}) + BucketHeader)

\* Moves the allocation with its data at a; moved is the tombstones: old -> new address.
MoveObject(from, to, moved, a) ==
    LET size  == from.header[a]
        space == IF HasSpace(to, size) THEN to
                 ELSE ToNewBucket(from, to, BucketSize, Words(size))
    IN  [to |-> Bump(space, size), moved |-> Put(moved, a, Top(space))]

\* gc_processValue for a handle: pointers to what has moved are only followed.
Visit(h, c, x) ==
    IF value[x] = Undefined \/ Decode(h, value[x]) \in DOMAIN c.moved THEN c
    ELSE MoveObject(h, c.to, c.moved, Decode(h, value[x]))

Collected(h, estimate) ==
    LET first == IF estimate = 0 THEN EmptyEstimate ELSE estimate
        visited[n \in 0 .. Len(Listed)] ==
            IF n = 0 THEN [to |-> ToNewBucket(h, EmptyHeap, first, 0), moved |-> <<>>]
            ELSE Visit(h, visited[n - 1], Listed[n])
    IN  visited[Len(Listed)]

-----------------------------------------------------------------------------
(* gc_createNextBucket: a bucket for at least so many bytes, after a       *)
(* collection if the usual bucket would go over the limit.                 *)

CollectsFirst(least) ==
    UsedSize(heap.chain) + Max({BucketSize, least}) > MaxHeapSize

\* Mutant of HeapSizeRead: it is not read again after the collection.
HeapSizeReadOnce(before, now) == UsedSize(before.chain)

HeapSizeRead(before, now) == UsedSize(now.chain)

Extended(before, now, least) ==
    LET used == HeapSizeRead(before, now)
        size == Chopped(used, Max({BucketSize, least}))
    IN  NewBucket(now, size, Malloc(size, {now.chain}) + BucketHeader)

-----------------------------------------------------------------------------
(* mvm_allocate, for a value that goes to the handle x of the host.        *)

Running == error = NoError

\* The data of the new allocation is at the top of h; v and o are what the
\* handles hold then, as values and as addresses.
Allocated(x, h, size, v, o) ==
    LET new == Bump(h, size)
    IN  /\ heap' = new
        /\ value' = [v EXCEPT ![x] = Encode(new, Top(h))]
        /\ holds' = [o EXCEPT ![x] = Top(h)]
        /\ UNCHANGED <<gcHandles, next, error, fromTop>>

\* MVM_FATAL_ERROR, in the middle of whatever was done to the heap and the handles.
Fatal(e, bytes, h, v, o) ==
    /\ error' = <<e, bytes>>
    /\ heap' = h
    /\ value' = v
    /\ holds' = o
    /\ UNCHANGED <<gcHandles, next, fromTop>>

\* The end of gc_createNextBucket, and the retry, in the heap `now`.
AllocatedInNext(x, size, now, v, o) ==
    LET h == Extended(heap, now, Words(size))
    IN  \/ Fatal("MVM_E_MALLOC_FAIL", 0, now, v, o)
        \/ ~MallocFailed(h) /\ Allocated(x, h, size, v, o)

AllocateInPlace(x, size) ==
    /\ Running
    /\ HasSpace(heap, size)
    /\ Allocated(x, heap, size, value, holds)
    /\ UNCHANGED lastSize

AllocateInNewBucket(x, size) ==
    /\ Running
    /\ ~HasSpace(heap, size) /\ ~CollectsFirst(Words(size))
    /\ AllocatedInNext(x, size, heap, value, holds)
    /\ UNCHANGED lastSize

\* Handles and objects after the collection c: listed handles are updated.
Forwarded(c) ==
    LET listed == Initialized
    IN  [x \in Handle |->
            IF x \in listed /\ value[x] # Undefined
            THEN Encode(c.to, c.moved[Decode(heap, value[x])]) ELSE value[x]]

Followed(c) ==
    [x \in Handle |-> IF holds[x] \in DOMAIN c.moved THEN c.moved[holds[x]] ELSE holds[x]]

AllocateAfterCollection(x, size) ==
    LET c == Collected(heap, lastSize)
    IN  /\ Running
        /\ ~HasSpace(heap, size) /\ CollectsFirst(Words(size))
        /\ \/ /\ Fatal("MVM_E_MALLOC_FAIL", 0, heap, value, holds)
              /\ UNCHANGED lastSize
           \/ /\ ~MallocFailed(c.to)
              /\ lastSize' = UsedSize(c.to.chain)
              /\ IF HeapSizeRead(heap, c.to) + Words(size) > MaxHeapSize
                 THEN Fatal("MVM_E_OUT_OF_MEMORY", Words(size), c.to,
                            Forwarded(c), Followed(c))
                 ELSE AllocatedInNext(x, size, c.to, Forwarded(c), Followed(c))

-----------------------------------------------------------------------------
(* mvm_runGC called by the host, and the operations on handles.            *)

\* A squeeze is this twice, if the first size was not the final one.
RunGC ==
    LET c == Collected(heap, lastSize)
    IN  /\ Running
        /\ \/ Fatal("MVM_E_MALLOC_FAIL", 0, heap, value, holds) /\ UNCHANGED lastSize
           \/ /\ ~MallocFailed(c.to)
              /\ heap' = c.to
              /\ value' = Forwarded(c)
              /\ holds' = Followed(c)
              /\ lastSize' = UsedSize(c.to.chain)
              /\ UNCHANGED <<gcHandles, next, error, fromTop>>

Initialize(x) ==
    /\ Running
    /\ InitializeHandle(x, Undefined)
    /\ holds' = [holds EXCEPT ![x] = NoObject]
    /\ UNCHANGED <<heap, lastSize, error, fromTop>>

Clone(x, source) ==
    /\ Running
    /\ CloneHandle(x, source)
    /\ holds' = [holds EXCEPT ![x] = holds[source]]
    /\ UNCHANGED <<heap, lastSize, error, fromTop>>

Release(x) ==
    /\ Running
    /\ ReleaseHandle(x)
    /\ holds' = [holds EXCEPT ![x] = NoObject]
    /\ UNCHANGED <<heap, lastSize, error, fromTop>>

Init ==
    /\ HandlesInit
    /\ heap = EmptyHeap
    /\ lastSize = 0
    /\ error = NoError
    /\ fromTop \in BOOLEAN
    /\ holds = [x \in Handle |-> NoObject]

Next ==
    \/ \E x \in Initialized, size \in Sizes : AllocateInPlace(x, size)
    \/ \E x \in Initialized, size \in Sizes : AllocateInNewBucket(x, size)
    \/ \E x \in Initialized, size \in Sizes : AllocateAfterCollection(x, size)
    \/ RunGC
    \/ \E x \in Handle : Initialize(x)
    \/ \E x \in Handle, source \in Initialized : Clone(x, source)
    \/ \E x \in Handle : Release(x)

Spec == Init /\ [][Next]_vars

-----------------------------------------------------------------------------
(* Properties.                                                             *)

\* The registers of the heap and the list have the types of their C fields.
TypeOK ==
    /\ HandlesTypeOK(0 .. MaxHeapSize \cup {Undefined})
    /\ \A i \in DOMAIN heap.chain :
        LET b == heap.chain[i] IN b.data <= b.used /\ b.used <= b.end /\ b.end <= MemorySize
    /\ lastSize \in 0 .. MaxHeapSize
    /\ holds \in [Handle -> 0 .. MemorySize]

\* Whatever was allocated, collected, cloned and released in between, a handle
\* leads to the object that was put in it: it is in the list that the collector
\* walks, and the offset that pointerOffsetInHeap gave for the object is decoded
\* to the address where the object is now.  What ShortPtr_decode asserts of an
\* offset holds: it is even, and below the used size of the heap.
HandleKeepsObject ==
    \A x \in Handle : holds[x] # NoObject =>
        /\ x \in Initialized
        /\ holds[x] \in DOMAIN heap.header
        /\ value[x] % 2 = 0 /\ value[x] < UsedSize(heap.chain)
        /\ Decode(heap, value[x]) = holds[x]

\* The walk of mvm_checkHeap and mvm_readHeap, which goes from a header over so
\* many words of data to the next, finds every allocation of a bucket and ends
\* where the used space ends.
HeapParses ==
    LET after(a) == a + 2 * ((heap.header[a] + 1) \div 2)
    IN  /\ \A i \in DOMAIN heap.chain :
            LET b      == heap.chain[i]
                inside == {a \in DOMAIN heap.header : b.data < a /\ a <= b.used}
            IN  {b.data} \cup {after(a) : a \in inside} = {a - 2 : a \in inside} \cup {b.used}
        /\ \A a \in DOMAIN heap.header : \E i \in DOMAIN heap.chain :
                heap.chain[i].data < a /\ a < heap.chain[i].used

\* No offset goes over the limit, even when the last bucket is filled, and the
\* offsets of the buckets follow each other without a gap.
OffsetsWithinLimit ==
    \A i \in DOMAIN heap.chain :
        LET b == heap.chain[i]
        IN  /\ b.start + (b.end - b.data) <= MaxHeapSize
            /\ b.start = UsedSize(SubSeq(heap.chain, 1, i - 1))

\* The VM runs out of memory only if what is reachable and the new allocation
\* are too much together: garbage and the unused ends of buckets do not count.
FailsOnlyWhenFull ==
    error[1] = "MVM_E_OUT_OF_MEMORY" =>
        LET live == {holds[x] : x \in Handle} \ {NoObject}
        IN  SizeOf(heap.header, live) + error[2] > MaxHeapSize
=============================================================================
