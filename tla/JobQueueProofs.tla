--------------------------- MODULE JobQueueProofs ---------------------------
(***************************************************************************)
(* Proofs about JobQueue for any set of jobs, any heap and any bound.      *)
(***************************************************************************)
EXTENDS JobQueue, SequenceTheorems, IntervalLemmas

(* The inductive invariant.                                                *)
IInv == TypeOK /\ NoDanglingReference /\ QueueIsCycle

(* An allocation takes an address of the current half that is free.        *)
LEMMA FreshIsFree ==
    ASSUME HasRoom
    PROVE  Fresh \in space /\ Fresh \notin DOMAIN heap
BY DEF HasRoom, Fresh

(* The objects that survive a collection hold the roots and whatever they  *)
(* point to.                                                               *)
LEMMA ReachableIsClosed ==
    ASSUME IInv
    PROVE  /\ Reachable \subseteq DOMAIN heap
           /\ Roots \subseteq Reachable
           /\ \A a \in Reachable : PointersIn(heap[a]) \subseteq Reachable
<1>1. Reachable \subseteq DOMAIN heap
  BY DEF Reachable
<1>2. Roots \subseteq Reachable
  BY DEF Reachable, IInv, NoDanglingReference
<1>3. ASSUME NEW a \in Reachable, NEW p \in PointersIn(heap[a])
      PROVE  p \in Reachable
  <2>1. p \in DOMAIN heap
    BY <1>1, <1>3 DEF IInv, NoDanglingReference, PointersIn, IsNode
  <2>2. ASSUME NEW S \in SUBSET DOMAIN heap, Roots \subseteq S, ClosedUnderPointers(S)
        PROVE  p \in S
    <3>1. a \in S
      BY <2>2 DEF Reachable
    <3> QED
      BY <1>3, <2>2, <3>1 DEF ClosedUnderPointers
  <2> QED
    BY <2>1, <2>2 DEF Reachable
<1> QED
  BY <1>1, <1>2, <1>3

(* Every node of the cycle, and so the closure of every pending job,       *)
(* survives a collection.                                                  *)
LEMMA CycleIsReachable ==
    ASSUME IInv, jobQueue # Undefined, IsNode(jobQueue)
    PROVE  \A i \in DOMAIN order :
              /\ order[i] \in Reachable /\ IsNode(order[i])
              /\ heap[order[i]].job \in Reachable /\ IsClosure(heap[order[i]].job)
<1> DEFINE T == {i \in 1 .. Len(order) : order[i] \in Reachable /\ IsNode(order[i])}
<1>1. order \in Seq(Addr) /\ order # << >> /\ Len(order) \in Nat /\ DOMAIN order = 1 .. Len(order)
  BY DEF IInv, TypeOK, QueueIsCycle
<1>2. 1 \in T
  <2>1. jobQueue \in Roots
    BY DEF Roots
  <2> QED
    BY <1>1, <2>1, ReachableIsClosed DEF IInv, QueueIsCycle
<1>3. ASSUME NEW i \in 1 .. Len(order) - 1, i \in T
      PROVE  i + 1 \in T
  <2>1. heap[order[i]].next = order[i + 1]
    BY <1>1, <1>3 DEF IInv, QueueIsCycle
  <2>2. order[i + 1] \in PointersIn(heap[order[i]])
    BY <1>3, <2>1 DEF PointersIn, IsNode
  <2>3. order[i + 1] \in Reachable
    BY <1>3, <2>2, ReachableIsClosed
  <2>4. IsNode(order[i + 1])
    BY <1>3, <2>1, ReachableIsClosed DEF IInv, NoDanglingReference
  <2> QED
    BY <1>1, <1>3, <2>3, <2>4
<1>4. T = 1 .. Len(order)
  <2> HIDE DEF T
  <2>1. T \in SUBSET (1 .. Len(order))
    BY DEF T
  <2> QED
    BY <1>1, <1>2, <1>3, <2>1, IntervalInduction
<1>5. ASSUME NEW i \in DOMAIN order
      PROVE  heap[order[i]].job \in Reachable /\ IsClosure(heap[order[i]].job)
  <2>1. order[i] \in Reachable /\ IsNode(order[i])
    BY <1>1, <1>4
  <2>2. heap[order[i]].job \in PointersIn(heap[order[i]])
    BY <2>1 DEF PointersIn, IsNode
  <2> QED
    BY <2>1, <2>2, ReachableIsClosed DEF IInv, NoDanglingReference
<1> QED
  BY <1>1, <1>4, <1>5

-----------------------------------------------------------------------------
(* What a collection does to the heap: an address is allocated afterwards  *)
(* exactly when it is the copy of a reachable one.                         *)
LEMMA CollectMoves ==
    ASSUME IInv, Collect
    PROVE  /\ \A a \in Reachable : /\ Other[a] \in DOMAIN heap'
                                   /\ heap'[Other[a]] = MoveObject(heap[a])
                                   /\ a \in DOMAIN heap /\ a \in Addr
           /\ \A b \in DOMAIN heap' : \E a \in Reachable : b = Other[a]
<1>1. Reachable \subseteq DOMAIN heap
  BY ReachableIsClosed
<1>2. \A a \in Reachable : a \in Addr /\ Other[Other[a]] = a
  BY <1>1, SpaceAssumption DEF IInv, TypeOK
<1> QED
  BY <1>1, <1>2 DEF Collect

LEMMA InitEstablishes == Init => IInv
<1> SUFFICES ASSUME Init PROVE IInv
  OBVIOUS
<1>1. DOMAIN heap = {}
  BY DEF Init
<1>2. TypeOK
  BY <1>1 DEF Init, TypeOK
<1>3. NoDanglingReference
  BY <1>1 DEF Init, NoDanglingReference, Roots
<1>4. QueueIsCycle
  BY DEF Init, QueueIsCycle
<1> QED
  BY <1>2, <1>3, <1>4 DEF IInv

LEMMA ScheduleFirstPreserves ==
    ASSUME IInv, NEW j \in Jobs, ScheduleFirst(j)
    PROVE  IInv'
<1> USE DEF IInv
<1>1. Fresh \in space /\ Fresh \notin DOMAIN heap /\ Fresh \in Addr
  BY FreshIsFree, SpaceAssumption DEF ScheduleFirst, TypeOK
<1>2. /\ DOMAIN heap' = DOMAIN heap \cup {Fresh}
      /\ heap'[Fresh] = Closure(j)
      /\ \A a \in DOMAIN heap : heap'[a] = heap[a]
  BY <1>1 DEF ScheduleFirst, Allocated, Store
<1>3. jobQueue' = Fresh /\ Fresh # Undefined
  BY <1>1, AddrAssumption DEF ScheduleFirst
<1>4. TypeOK'
  BY <1>1, <1>2, <1>3 DEF ScheduleFirst, TypeOK, Closure
<1>5. NoDanglingReference'
  <2>1. anchors = << >>
    BY DEF ScheduleFirst, QueueIsCycle, TypeOK
  <2>2. Roots' = {Fresh}
    BY <1>3, <2>1 DEF ScheduleFirst, Roots
  <2> QED
    BY <1>2, <2>1, <2>2 DEF ScheduleFirst, NoDanglingReference, IsNode, IsClosure, Closure
<1>6. QueueIsCycle'
  BY <1>1, <1>2, <1>3 DEF ScheduleFirst, QueueIsCycle, IsNode, IsClosure, Closure
<1> QED
  BY <1>4, <1>5, <1>6

LEMMA ScheduleMorePreserves ==
    ASSUME IInv, NEW j \in Jobs, ScheduleMore(j)
    PROVE  IInv'
<1> USE DEF IInv
<1>1. Fresh \in space /\ Fresh \notin DOMAIN heap /\ Fresh \in Addr
  BY FreshIsFree, SpaceAssumption DEF ScheduleMore, TypeOK
<1>2. /\ DOMAIN heap' = DOMAIN heap \cup {Fresh}
      /\ heap'[Fresh] = Closure(j)
      /\ \A a \in DOMAIN heap : heap'[a] = heap[a]
  BY <1>1 DEF ScheduleMore, Allocated, Store
<1>3. anchors' = <<Fresh>>
  BY DEF ScheduleMore, QueueIsCycle, TypeOK
<1>4. jobQueue' = jobQueue /\ jobQueue \in DOMAIN heap
  BY DEF ScheduleMore, NoDanglingReference, Roots
<1>5. TypeOK'
  BY <1>1, <1>2, <1>3 DEF ScheduleMore, TypeOK, Closure
<1>6. NoDanglingReference'
  <2>1. Roots' = {jobQueue, Fresh}
    BY <1>3, <1>4 DEF ScheduleMore, Roots
  <2> QED
    BY <1>2, <1>3, <1>4, <2>1 DEF ScheduleMore, NoDanglingReference, IsNode, IsClosure, Closure
<1>7. QueueIsCycle'
  <2>1. IsNode(jobQueue) => \A i \in DOMAIN order : order[i] \in DOMAIN heap
    BY CycleIsReachable, ReachableIsClosed DEF ScheduleMore
  <2>2. IsNode(jobQueue)' <=> IsNode(jobQueue)
    BY <1>2, <1>4 DEF IsNode
  <2>3. IsClosure(jobQueue)' <=> IsClosure(jobQueue)
    BY <1>2, <1>4 DEF IsClosure
  <2>4. IsClosure(jobQueue) \/ IsNode(jobQueue)
    BY <1>4 DEF TypeOK, IsClosure, IsNode
  <2>5. Len(anchors') = 1 /\ order' = order
    BY <1>3 DEF ScheduleMore
  <2>6. order \in Seq(Addr)
    BY DEF TypeOK
  <2> QED
    BY <1>2, <1>4, <2>1, <2>2, <2>3, <2>4, <2>5, <2>6 DEF ScheduleMore, QueueIsCycle
<1> QED
  BY <1>5, <1>6, <1>7

LEMMA PromotePreserves ==
    ASSUME IInv, Promote
    PROVE  IInv'
<1> USE DEF IInv
<1>1. Fresh \in space /\ Fresh \notin DOMAIN heap /\ Fresh \in Addr /\ Fresh # Undefined
  BY FreshIsFree, SpaceAssumption, AddrAssumption DEF Promote, TypeOK
<1>2. /\ DOMAIN heap' = DOMAIN heap \cup {Fresh}
      /\ heap'[Fresh] = Node(Fresh, jobQueue, Fresh)
      /\ \A a \in DOMAIN heap : heap'[a] = heap[a]
  BY <1>1 DEF Promote, Allocated, Store
<1>3. jobQueue \in DOMAIN heap /\ jobQueue # Undefined /\ IsClosure(jobQueue)
  BY DEF Promote, NoDanglingReference, QueueIsCycle, Roots
<1>4. jobQueue' = Fresh /\ order' = <<Fresh>> /\ anchors' = anchors
  BY DEF Promote
<1>5. TypeOK'
  BY <1>1, <1>2, <1>3, <1>4 DEF Promote, TypeOK, Node
<1>6. NoDanglingReference'
  <2>1. Roots' = {Fresh} \cup {anchors[i] : i \in DOMAIN anchors}
    BY <1>1, <1>4 DEF Roots
  <2>2. {anchors[i] : i \in DOMAIN anchors} \subseteq DOMAIN heap
    BY DEF NoDanglingReference, Roots
  <2> QED
    BY <1>1, <1>2, <1>3, <1>4, <2>1, <2>2 DEF NoDanglingReference, IsNode, IsClosure, Node
<1>7. QueueIsCycle'
  BY <1>1, <1>2, <1>4 DEF Promote, QueueIsCycle, IsNode, IsClosure, Node
<1> QED
  BY <1>5, <1>6, <1>7

LEMMA AppendNodePreserves ==
    ASSUME IInv, AppendNode
    PROVE  IInv'
<1> USE DEF IInv
<1> DEFINE first == jobQueue
           last  == heap[first].prev
           c     == anchors[1]
<1>1. Fresh \in space /\ Fresh \notin DOMAIN heap /\ Fresh \in Addr
  BY FreshIsFree, SpaceAssumption DEF AppendNode, TypeOK
<1>2. Len(anchors) = 1 /\ Last(anchors) = c /\ anchors' = << >>
  BY DEF AppendNode, TypeOK, QueueIsCycle, Last, Front
<1>3. /\ jobQueue # Undefined /\ first \in DOMAIN heap /\ IsNode(first)
      /\ last \in DOMAIN heap /\ IsNode(last)
      /\ c \in DOMAIN heap /\ IsClosure(c)
  <2>1. jobQueue # Undefined /\ IsNode(first)
    BY DEF AppendNode, QueueIsCycle
  <2>2. first \in Roots /\ c \in Roots /\ 1 \in DOMAIN anchors
    BY <1>2, <2>1 DEF Roots, TypeOK
  <2> QED
    BY <2>1, <2>2 DEF NoDanglingReference
<1>4. /\ DOMAIN heap' = DOMAIN heap \cup {Fresh}
      /\ heap'[Fresh] = Node(last, c, first)
      /\ \A a \in DOMAIN heap : ~IsNode(a) => heap'[a] = heap[a]
      /\ \A a \in DOMAIN heap : IsNode(a) =>
            heap'[a] = Node(IF a = first THEN Fresh ELSE heap[a].prev, heap[a].job,
                            IF a = last THEN Fresh ELSE heap[a].next)
  <2> DEFINE h1 == Allocated(Node(last, c, first))
             h2 == SetNext(h1, last, Fresh)
  <2>1. heap' = SetPrev(h2, first, Fresh)
    BY <1>2 DEF AppendNode
  <2>2. /\ DOMAIN h1 = DOMAIN heap \cup {Fresh}
        /\ h1[Fresh] = Node(last, c, first)
        /\ \A a \in DOMAIN heap : h1[a] = heap[a]
    BY <1>1 DEF Allocated, Store
  <2>3. /\ DOMAIN h2 = DOMAIN heap \cup {Fresh}
        /\ h2[last] = Node(heap[last].prev, heap[last].job, Fresh)
        /\ \A a \in DOMAIN h2 : a # last => h2[a] = h1[a]
    <3> HIDE DEF h1
    <3> QED
      BY <1>3, <2>2 DEF SetNext, Store
  <2>4. /\ DOMAIN heap' = DOMAIN heap \cup {Fresh}
        /\ heap'[first] = Node(Fresh, h2[first].job, h2[first].next)
        /\ \A a \in DOMAIN heap' : a # first => heap'[a] = h2[a]
    <3> HIDE DEF h2
    <3> QED
      BY <1>3, <2>1, <2>3 DEF SetPrev, Store
  <2>5. \A a \in DOMAIN heap : IsNode(a) => heap[a] = Node(heap[a].prev, heap[a].job, heap[a].next)
    BY DEF TypeOK, IsNode, Node
  <2> HIDE DEF h1, h2
  <2> QED
    BY <1>1, <1>3, <2>2, <2>3, <2>4, <2>5 DEF Node
<1>5. \A a \in DOMAIN heap :
         /\ IsNode(a)' <=> IsNode(a)
         /\ IsClosure(a)' <=> IsClosure(a)
         /\ IsNode(a) => /\ heap'[a].job = heap[a].job
                         /\ heap'[a].next = (IF a = last THEN Fresh ELSE heap[a].next)
                         /\ heap'[a].prev = (IF a = first THEN Fresh ELSE heap[a].prev)
  BY <1>4 DEF IsNode, IsClosure, Node
<1>6. /\ jobQueue' = jobQueue /\ space' = space /\ order' = Append(order, Fresh)
      /\ pc' = "idle" /\ delivered' = delivered
  BY DEF AppendNode
<1>7. TypeOK'
  <2>1. \A a \in DOMAIN heap : IsNode(a) => /\ heap[a].prev \in Addr /\ heap[a].job \in Addr
                                            /\ heap[a].next \in Addr
    BY DEF TypeOK, IsNode
  <2>2. \A a \in DOMAIN heap' : heap'[a] \in [kind : {"closure"}, job : Jobs]
                                  \cup [kind : {"node"}, prev : Addr, job : Addr, next : Addr]
    BY <1>1, <1>3, <1>4, <2>1, SpaceAssumption DEF TypeOK, Node
  <2> QED
    BY <1>1, <1>2, <1>4, <1>6, <2>2 DEF TypeOK
<1>8. NoDanglingReference'
  <2>1. Roots' = {first}
    BY <1>2, <1>3, <1>6 DEF Roots
  <2>2. \A a \in DOMAIN heap : IsNode(a) =>
          /\ heap[a].prev \in DOMAIN heap /\ heap[a].job \in DOMAIN heap
          /\ heap[a].next \in DOMAIN heap
          /\ IsNode(heap[a].prev) /\ IsNode(heap[a].next) /\ IsClosure(heap[a].job)
    BY DEF NoDanglingReference
  <2>3. /\ heap'[Fresh].kind = "node" /\ heap'[Fresh].prev = last /\ heap'[Fresh].job = c
        /\ heap'[Fresh].next = first
    BY <1>4 DEF IsNode, Node
  <2>4. ASSUME NEW a \in DOMAIN heap', heap'[a].kind = "node"
        PROVE  /\ {heap'[a].prev, heap'[a].job, heap'[a].next} \subseteq DOMAIN heap'
               /\ heap'[heap'[a].prev].kind = "node" /\ heap'[heap'[a].next].kind = "node"
               /\ heap'[heap'[a].job].kind = "closure"
    <3>1. CASE a = Fresh
      BY <3>1, <1>3, <1>4, <1>5, <2>3 DEF IsNode, IsClosure
    <3>2. CASE a \in DOMAIN heap
      BY <2>4, <3>2, <1>3, <1>4, <1>5, <2>2, <2>3 DEF IsNode, IsClosure
    <3> QED
      BY <1>4, <3>1, <3>2
  <2>5. DOMAIN anchors' = {}
    BY <1>2
  <2> QED
    BY <1>3, <1>4, <2>1, <2>4, <2>5 DEF NoDanglingReference, IsNode, IsClosure
<1>9. QueueIsCycle'
  <2> DEFINE m == Len(order)
  <2>1. /\ order \in Seq(Addr) /\ m \in Nat \ {0} /\ DOMAIN order = 1 .. m
        /\ \A i \in 1 .. m : order[i] \in DOMAIN heap /\ IsNode(order[i])
    BY <1>3, CycleIsReachable, ReachableIsClosed DEF TypeOK, QueueIsCycle
  <2>2. /\ Len(order') = m + 1 /\ DOMAIN order' = 1 .. m + 1 /\ order' # << >>
        /\ order'[m + 1] = Fresh
        /\ \A i \in 1 .. m : order'[i] = order[i]
    BY <1>1, <1>6, <2>1
  <2>3. first = order[1] /\ last = order[m]
    BY <1>3, <2>1 DEF QueueIsCycle
  <2>4. \A i, k \in 1 .. m : order[i] = order[k] => i = k
    BY <1>3, <2>1 DEF QueueIsCycle
  <2>5. \A i, k \in DOMAIN order' : order'[i] = order'[k] => i = k
    BY <1>1, <2>1, <2>2, <2>4
  <2>6. \A i \in 1 .. m - 1 : heap[order[i]].next = order[i + 1] /\ heap[order[i + 1]].prev = order[i]
    BY <1>3, <2>1 DEF QueueIsCycle
  <2>7. \A i \in 1 .. m - 1 : heap'[order[i]].next = order[i + 1] /\ heap'[order[i + 1]].prev = order[i]
    BY <1>5, <2>1, <2>3, <2>4, <2>6
  <2>8. heap'[last].next = Fresh /\ heap'[first].prev = Fresh
    BY <1>3, <1>5
  <2>9. heap'[Fresh].prev = last /\ heap'[Fresh].next = first
    BY <1>4 DEF Node
  <2>10. ASSUME NEW i \in DOMAIN order'
         PROVE  LET n == IF i = Len(order') THEN 1 ELSE i + 1
                IN  heap'[order'[i]].next = order'[n] /\ heap'[order'[n]].prev = order'[i]
    <3>1. CASE i = m + 1
      BY <3>1, <2>1, <2>2, <2>3, <2>8, <2>9
    <3>2. CASE i = m
      BY <3>2, <2>1, <2>2, <2>3, <2>8, <2>9
    <3>3. CASE i \in 1 .. m - 1
      BY <3>3, <2>1, <2>2, <2>7
    <3> QED
      BY <2>1, <2>2, <3>1, <3>2, <3>3
  <2>11. IsNode(jobQueue)' /\ ~IsClosure(jobQueue)'
    BY <1>3, <1>5, <1>6 DEF IsNode, IsClosure
  <2>12. jobQueue' = order'[1]
    BY <1>6, <2>1, <2>2, <2>3
  <2> HIDE DEF m
  <2> QED
    BY <1>2, <1>3, <1>6, <2>2, <2>5, <2>10, <2>11, <2>12 DEF QueueIsCycle
<1> QED
  BY <1>7, <1>8, <1>9

LEMMA DequeueOnlyPreserves ==
    ASSUME IInv, DequeueOnly
    PROVE  IInv'
<1> USE DEF IInv
<1>1. TypeOK'
  BY DEF DequeueOnly, TypeOK, NoDanglingReference, Roots, IsClosure
<1>2. NoDanglingReference'
  BY DEF DequeueOnly, NoDanglingReference, Roots, IsNode, IsClosure
<1>3. QueueIsCycle'
  BY DEF DequeueOnly, QueueIsCycle, IsClosure
<1> QED
  BY <1>1, <1>2, <1>3

LEMMA DequeueLastNodePreserves ==
    ASSUME IInv, DequeueLastNode
    PROVE  IInv'
<1> USE DEF IInv
<1>1. heap[heap[jobQueue].job].job \in Jobs
  <2>1. jobQueue \in DOMAIN heap /\ IsNode(jobQueue)
    BY DEF DequeueLastNode, NoDanglingReference, Roots
  <2>2. heap[jobQueue].job \in DOMAIN heap /\ IsClosure(heap[jobQueue].job)
    BY <2>1 DEF NoDanglingReference
  <2> QED
    BY <2>2 DEF TypeOK, IsClosure
<1>2. TypeOK'
  BY <1>1 DEF DequeueLastNode, TypeOK
<1>3. NoDanglingReference'
  BY DEF DequeueLastNode, NoDanglingReference, Roots, IsNode, IsClosure
<1>4. QueueIsCycle'
  BY DEF DequeueLastNode, QueueIsCycle
<1> QED
  BY <1>2, <1>3, <1>4

LEMMA DequeueFirstNodePreserves ==
    ASSUME IInv, DequeueFirstNode
    PROVE  IInv'
<1> USE DEF IInv
<1> DEFINE first  == heap[jobQueue]
           last   == first.prev
           second == first.next
           m      == Len(order)
<1>1. /\ jobQueue # Undefined /\ jobQueue \in DOMAIN heap /\ IsNode(jobQueue)
      /\ last \in DOMAIN heap /\ IsNode(last) /\ second \in DOMAIN heap /\ IsNode(second)
      /\ first.job \in DOMAIN heap /\ IsClosure(first.job)
  BY DEF DequeueFirstNode, NoDanglingReference, Roots
<1>2. /\ DOMAIN heap' = DOMAIN heap
      /\ \A a \in DOMAIN heap : ~IsNode(a) => heap'[a] = heap[a]
      /\ \A a \in DOMAIN heap : IsNode(a) =>
            heap'[a] = Node(IF a = second THEN last ELSE heap[a].prev, heap[a].job,
                            IF a = last THEN second ELSE heap[a].next)
  <2> DEFINE h1 == SetNext(heap, last, second)
  <2>1. heap' = SetPrev(h1, second, last)
    BY DEF DequeueFirstNode
  <2>2. /\ DOMAIN h1 = DOMAIN heap
        /\ h1[last] = Node(heap[last].prev, heap[last].job, second)
        /\ \A a \in DOMAIN heap : a # last => h1[a] = heap[a]
    BY <1>1 DEF SetNext, Store
  <2>3. /\ DOMAIN heap' = DOMAIN heap
        /\ heap'[second] = Node(last, h1[second].job, h1[second].next)
        /\ \A a \in DOMAIN heap : a # second => heap'[a] = h1[a]
    <3> HIDE DEF h1
    <3> QED
      BY <1>1, <2>1, <2>2 DEF SetPrev, Store
  <2>4. \A a \in DOMAIN heap : IsNode(a) => heap[a] = Node(heap[a].prev, heap[a].job, heap[a].next)
    BY DEF TypeOK, IsNode, Node
  <2> HIDE DEF h1
  <2> QED
    BY <1>1, <2>2, <2>3, <2>4 DEF Node
<1>3. \A a \in DOMAIN heap :
         /\ IsNode(a)' <=> IsNode(a)
         /\ IsClosure(a)' <=> IsClosure(a)
         /\ IsNode(a) => /\ heap'[a].job = heap[a].job
                         /\ heap'[a].next = (IF a = last THEN second ELSE heap[a].next)
                         /\ heap'[a].prev = (IF a = second THEN last ELSE heap[a].prev)
  BY <1>2 DEF IsNode, IsClosure, Node
<1>4. /\ jobQueue' = second /\ order' = Tail(order) /\ anchors' = anchors /\ pc' = pc
      /\ space' = space /\ delivered' = heap[first.job].job /\ pc = "idle"
  BY DEF DequeueFirstNode
<1>5. anchors = << >>
  BY <1>4 DEF TypeOK, QueueIsCycle
<1>6. /\ order \in Seq(Addr) /\ m \in Nat \ {0} /\ DOMAIN order = 1 .. m
      /\ \A i \in 1 .. m : order[i] \in DOMAIN heap /\ IsNode(order[i])
      /\ jobQueue = order[1]
      /\ \A i, k \in 1 .. m : order[i] = order[k] => i = k
      /\ \A i \in 1 .. m - 1 : /\ heap[order[i]].next = order[i + 1]
                               /\ heap[order[i + 1]].prev = order[i]
      /\ heap[order[m]].next = order[1] /\ heap[order[1]].prev = order[m]
  <2>1. /\ order \in Seq(Addr) /\ m \in Nat \ {0} /\ DOMAIN order = 1 .. m
        /\ \A i \in 1 .. m : order[i] \in DOMAIN heap /\ IsNode(order[i])
    BY <1>1, CycleIsReachable, ReachableIsClosed DEF TypeOK, QueueIsCycle
  <2> QED
    BY <1>1, <2>1 DEF QueueIsCycle
<1>7. m > 1 /\ last = order[m] /\ second = order[2] /\ last # jobQueue
  BY <1>6 DEF DequeueFirstNode
<1>8. TypeOK'
  <2>1. \A a \in DOMAIN heap : IsNode(a) => /\ heap[a].prev \in Addr /\ heap[a].job \in Addr
                                            /\ heap[a].next \in Addr
    BY DEF TypeOK, IsNode
  <2>2. last \in Addr /\ second \in Addr
    BY <1>1, <2>1
  <2>3. \A a \in DOMAIN heap' : heap'[a] \in [kind : {"closure"}, job : Jobs]
                                  \cup [kind : {"node"}, prev : Addr, job : Addr, next : Addr]
    BY <1>2, <2>1, <2>2 DEF TypeOK, Node
  <2>4. delivered' \in Jobs
    BY <1>1, <1>4 DEF TypeOK, IsClosure
  <2>5. order' \in Seq(Addr)
    BY <1>4, <1>6, <1>7
  <2> QED
    BY <1>2, <1>4, <2>2, <2>3, <2>4, <2>5 DEF TypeOK
<1>9. NoDanglingReference'
  <2>1. Roots' = {second}
    BY <1>1, <1>4, <1>5, AddrAssumption DEF Roots, TypeOK, IsNode
  <2>2. \A a \in DOMAIN heap : IsNode(a) =>
          /\ heap[a].prev \in DOMAIN heap /\ heap[a].job \in DOMAIN heap
          /\ heap[a].next \in DOMAIN heap
          /\ IsNode(heap[a].prev) /\ IsNode(heap[a].next) /\ IsClosure(heap[a].job)
    BY DEF NoDanglingReference
  <2>3. ASSUME NEW a \in DOMAIN heap', heap'[a].kind = "node"
        PROVE  /\ {heap'[a].prev, heap'[a].job, heap'[a].next} \subseteq DOMAIN heap'
               /\ heap'[heap'[a].prev].kind = "node" /\ heap'[heap'[a].next].kind = "node"
               /\ heap'[heap'[a].job].kind = "closure"
    BY <2>3, <1>1, <1>2, <1>3, <2>2 DEF IsNode, IsClosure
  <2>4. DOMAIN anchors' = {}
    BY <1>4, <1>5
  <2> QED
    BY <1>1, <1>2, <2>1, <2>3, <2>4 DEF NoDanglingReference, IsNode, IsClosure
<1>10. QueueIsCycle'
  <2>1. /\ Len(order') = m - 1 /\ DOMAIN order' = 1 .. m - 1 /\ order' # << >>
        /\ \A i \in 1 .. m - 1 : order'[i] = order[i + 1]
    <3>1. order' = Tail(order) /\ order # << >>
      BY <1>4, <1>6
    <3> HIDE DEF first, last, second
    <3>2. /\ Tail(order) \in Seq(Addr) /\ Len(Tail(order)) = m - 1
          /\ \A i \in 1 .. Len(Tail(order)) : Tail(order)[i] = order[i + 1]
      BY <1>6, <3>1, HeadTailProperties
    <3>3. DOMAIN Tail(order) = 1 .. m - 1
      BY <1>6, <3>2, LenProperties
    <3>4. m \in Nat /\ m > 1 /\ m - 1 \in Nat /\ m - 1 # 0
      BY <1>6, <1>7
    <3>5. Tail(order) # << >>
      BY <3>2, <3>4, EmptySeq
    <3> HIDE DEF m
    <3> QED
      BY <3>1, <3>2, <3>3, <3>4, <3>5
  <2>2. \A i, k \in DOMAIN order' : order'[i] = order'[k] => i = k
    BY <1>6, <2>1
  <2>3. \A i \in 2 .. m - 1 : heap'[order[i]].next = order[i + 1] /\ heap'[order[i + 1]].prev = order[i]
    <3>1. \A i \in 2 .. m - 1 : /\ order[i] # order[m] /\ order[i + 1] # order[2]
                                /\ i \in 1 .. m - 1 /\ i \in 1 .. m /\ i + 1 \in 1 .. m
      BY <1>6
    <3>2. \A a \in DOMAIN heap : IsNode(a) =>
            /\ a # last => heap'[a].next = heap[a].next
            /\ a # second => heap'[a].prev = heap[a].prev
      BY <1>3
    <3> HIDE DEF m, first, last, second
    <3> QED
      BY <1>6, <1>7, <3>1, <3>2
  <2>4. heap'[order[m]].next = order[2] /\ heap'[order[2]].prev = order[m]
    BY <1>1, <1>3, <1>7
  <2>5. ASSUME NEW i \in DOMAIN order'
        PROVE  LET n == IF i = Len(order') THEN 1 ELSE i + 1
               IN  heap'[order'[i]].next = order'[n] /\ heap'[order'[n]].prev = order'[i]
    <3>1. CASE i = m - 1
      BY <3>1, <1>6, <1>7, <2>1, <2>4
    <3>2. CASE i \in 1 .. m - 2
      <4>1. i + 1 \in 2 .. m - 1 /\ i + 1 \in 1 .. m - 1 /\ i # Len(order')
        BY <3>2, <1>6, <2>1
      <4>2. order'[i] = order[i + 1] /\ order'[i + 1] = order[(i + 1) + 1]
        BY <4>1, <2>1
      <4> QED
        BY <4>1, <4>2, <2>3
    <3> QED
      BY <1>6, <2>1, <3>1, <3>2
  <2>6. heap'[second].kind = "node" /\ jobQueue' = order'[1]
    BY <1>1, <1>3, <1>4, <1>6, <1>7, <2>1 DEF IsNode
  <2>7. /\ pc' = "idle" /\ Len(anchors') = 0 /\ ~IsClosure(jobQueue)'
    BY <1>4, <1>5, <2>6 DEF IsClosure
  <2>8. jobQueue' # Undefined
    <3>1. second \in Addr
      BY <1>1, SpaceAssumption DEF TypeOK
    <3> QED
      BY <1>4, <3>1, AddrAssumption
  <2> HIDE DEF m, first, last, second
  <2> QED
    BY <2>1, <2>2, <2>5, <2>6, <2>7, <2>8 DEF QueueIsCycle
<1> QED
  BY <1>8, <1>9, <1>10

LEMMA CollectPreserves ==
    ASSUME IInv, Collect
    PROVE  IInv'
<1> USE DEF IInv
<1>1. /\ \A a \in Reachable : /\ Other[a] \in DOMAIN heap'
                               /\ heap'[Other[a]] = MoveObject(heap[a])
                               /\ a \in DOMAIN heap /\ a \in Addr
      /\ \A b \in DOMAIN heap' : \E a \in Reachable : b = Other[a]
  BY CollectMoves
<1>2. /\ Roots \subseteq Reachable
      /\ \A a \in Reachable : PointersIn(heap[a]) \subseteq Reachable
  BY ReachableIsClosed
<1>3. \A a \in Reachable : IsNode(a) =>
         /\ heap[a].prev \in Reachable /\ heap[a].job \in Reachable /\ heap[a].next \in Reachable
         /\ IsNode(heap[a].prev) /\ IsNode(heap[a].next) /\ IsClosure(heap[a].job)
         /\ heap'[Other[a]].kind = "node"
         /\ heap'[Other[a]].prev = Other[heap[a].prev]
         /\ heap'[Other[a]].job = Other[heap[a].job]
         /\ heap'[Other[a]].next = Other[heap[a].next]
         /\ heap'[Other[a]] = Node(Other[heap[a].prev], Other[heap[a].job], Other[heap[a].next])
  <2> SUFFICES ASSUME NEW a \in Reachable, IsNode(a)
               PROVE  /\ heap[a].prev \in Reachable /\ heap[a].job \in Reachable
                      /\ heap[a].next \in Reachable
                      /\ IsNode(heap[a].prev) /\ IsNode(heap[a].next) /\ IsClosure(heap[a].job)
                      /\ heap'[Other[a]] =
                            Node(Other[heap[a].prev], Other[heap[a].job], Other[heap[a].next])
    BY DEF Node
  <2>1. heap'[Other[a]] = Node(Other[heap[a].prev], Other[heap[a].job], Other[heap[a].next])
    BY <1>1 DEF MoveObject, IsNode
  <2> QED
    BY <1>1, <1>2, <2>1 DEF NoDanglingReference, PointersIn, IsNode
<1>4. \A a \in Reachable : IsClosure(a) => heap'[Other[a]] = heap[a]
  BY <1>1 DEF IsClosure, MoveObject
<1>5. \A a \in Reachable : /\ heap'[Other[a]].kind = heap[a].kind
                           /\ heap[a].kind \in {"node", "closure"}
  <2>1. \A a \in Reachable : IsNode(a) \/ IsClosure(a)
    BY <1>1 DEF TypeOK, IsNode, IsClosure
  <2> QED
    BY <1>3, <1>4, <2>1 DEF IsNode, IsClosure
<1>6. /\ jobQueue' = (IF jobQueue = Undefined THEN Undefined ELSE Other[jobQueue])
      /\ anchors' = [i \in DOMAIN anchors |-> Other[anchors[i]]]
      /\ order' = [i \in DOMAIN order |-> Other[order[i]]]
      /\ space' = Addr \ space /\ pc' = pc /\ delivered' = delivered
  BY DEF Collect
<1>7. \A a \in Addr : Other[a] \in Addr /\ Other[a] # Undefined
  BY SpaceAssumption, AddrAssumption
<1>8. jobQueue # Undefined => jobQueue \in Reachable
  BY <1>2 DEF Roots
<1>9. \A i \in DOMAIN anchors : anchors[i] \in Reachable
  BY <1>2 DEF Roots
<1>10. TypeOK'
  <2>1. DOMAIN heap' \subseteq space'
    BY <1>1, <1>6, SpaceAssumption DEF TypeOK
  <2>2. ASSUME NEW b \in DOMAIN heap'
        PROVE  heap'[b] \in [kind : {"closure"}, job : Jobs]
                   \cup [kind : {"node"}, prev : Addr, job : Addr, next : Addr]
    <3>1. PICK a \in Reachable : b = Other[a]
      BY <1>1
    <3>2. CASE IsNode(a)
      <4>1. heap'[b] = Node(Other[heap[a].prev], Other[heap[a].job], Other[heap[a].next])
        BY <1>3, <3>1, <3>2
      <4>2. heap[a].prev \in Reachable /\ heap[a].job \in Reachable /\ heap[a].next \in Reachable
        BY <1>3, <3>2
      <4>3. Other[heap[a].prev] \in Addr /\ Other[heap[a].job] \in Addr /\ Other[heap[a].next] \in Addr
        BY <1>1, <1>7, <4>2
      <4> QED
        BY <4>1, <4>3 DEF Node
    <3>3. CASE IsClosure(a)
      BY <1>1, <1>4, <3>1, <3>3 DEF TypeOK, IsClosure
    <3> QED
      BY <1>1, <3>2, <3>3 DEF TypeOK, IsNode, IsClosure
  <2>3. jobQueue' \in Addr \cup {Undefined}
    BY <1>6, <1>7 DEF TypeOK
  <2>4. anchors' \in Seq(Addr) /\ order' \in Seq(Addr)
    <3>1. anchors \in Seq(Addr) /\ order \in Seq(Addr)
      BY DEF TypeOK
    <3>2. /\ DOMAIN anchors = 1 .. Len(anchors) /\ Len(anchors) \in Nat
          /\ \A i \in 1 .. Len(anchors) : anchors[i] \in Addr
          /\ DOMAIN order = 1 .. Len(order) /\ Len(order) \in Nat
          /\ \A i \in 1 .. Len(order) : order[i] \in Addr
      BY <3>1
    <3>3. /\ anchors' \in [1 .. Len(anchors) -> Addr]
          /\ order' \in [1 .. Len(order) -> Addr]
      BY <1>6, <1>7, <3>2
    <3> QED
      BY <3>2, <3>3, SeqDef
  <2>5. space' \in {LowSpace, Addr \ LowSpace}
    BY <1>6, SpaceAssumption DEF TypeOK
  <2> QED
    BY <1>6, <2>1, <2>2, <2>3, <2>4, <2>5 DEF TypeOK
<1>11. NoDanglingReference'
  <2>1. Roots' \subseteq DOMAIN heap'
    <3>1. DOMAIN anchors' = DOMAIN anchors
      BY <1>6
    <3> QED
      BY <1>1, <1>6, <1>8, <1>9, <3>1 DEF Roots
  <2>2. \A i \in DOMAIN anchors' : heap'[anchors'[i]].kind = "closure"
    BY <1>5, <1>6, <1>9 DEF NoDanglingReference, IsClosure
  <2>3. ASSUME NEW b \in DOMAIN heap', heap'[b].kind = "node"
        PROVE  /\ {heap'[b].prev, heap'[b].job, heap'[b].next} \subseteq DOMAIN heap'
               /\ heap'[heap'[b].prev].kind = "node" /\ heap'[heap'[b].next].kind = "node"
               /\ heap'[heap'[b].job].kind = "closure"
    <3>1. PICK a \in Reachable : b = Other[a]
      BY <1>1
    <3>2. IsNode(a)
      BY <1>5, <2>3, <3>1 DEF IsNode
    <3>3. /\ heap'[b].prev = Other[heap[a].prev] /\ heap'[b].job = Other[heap[a].job]
          /\ heap'[b].next = Other[heap[a].next]
      BY <1>3, <3>1, <3>2
    <3> QED
      BY <1>1, <1>3, <1>5, <3>2, <3>3 DEF IsNode, IsClosure
  <2> QED
    BY <2>1, <2>2, <2>3 DEF NoDanglingReference, IsNode, IsClosure
<1>12. QueueIsCycle'
  <2>1. /\ order \in Seq(Addr) /\ anchors \in Seq(Addr)
        /\ DOMAIN order = 1 .. Len(order) /\ DOMAIN anchors = 1 .. Len(anchors)
        /\ Len(order) \in Nat /\ Len(anchors) \in Nat
    BY DEF TypeOK
  <2>2. Len(anchors') = Len(anchors) /\ Len(order') = Len(order) /\ DOMAIN order' = DOMAIN order
    BY <1>6, <2>1
  <2>3. jobQueue' = Undefined <=> jobQueue = Undefined
    BY <1>6, <1>7 DEF TypeOK
  <2>4. jobQueue # Undefined =>
           /\ (heap'[jobQueue'].kind = "node") <=> IsNode(jobQueue)
           /\ (heap'[jobQueue'].kind = "closure") <=> IsClosure(jobQueue)
    BY <1>5, <1>6, <1>8 DEF IsNode, IsClosure
  <2>5. order = << >> => order' = << >>
    BY <1>6
  <2>6. ASSUME jobQueue # Undefined, IsNode(jobQueue)
        PROVE  /\ order' # << >> /\ jobQueue' = order'[1]
               /\ \A i, k \in DOMAIN order' : order'[i] = order'[k] => i = k
               /\ \A i \in DOMAIN order' :
                     LET n == IF i = Len(order') THEN 1 ELSE i + 1
                     IN  heap'[order'[i]].next = order'[n] /\ heap'[order'[n]].prev = order'[i]
    <3>1. /\ order # << >> /\ jobQueue = order[1] /\ Len(order) # 0
          /\ \A i, k \in DOMAIN order : order[i] = order[k] => i = k
      BY <2>1, <2>6 DEF QueueIsCycle
    <3>2. \A i \in DOMAIN order : order[i] \in Reachable /\ IsNode(order[i])
      BY <2>6, CycleIsReachable
    <3>3. order' # << >> /\ jobQueue' = order'[1]
      BY <1>6, <2>1, <2>2, <2>6, <3>1
    <3>4. \A i, k \in DOMAIN order' : order'[i] = order'[k] => i = k
      BY <1>1, <1>6, <2>2, <3>1, <3>2, SpaceAssumption
    <3>5. ASSUME NEW i \in DOMAIN order'
          PROVE  LET n == IF i = Len(order') THEN 1 ELSE i + 1
                 IN  heap'[order'[i]].next = order'[n] /\ heap'[order'[n]].prev = order'[i]
      <4> DEFINE n == IF i = Len(order) THEN 1 ELSE i + 1
      <4>1. n \in DOMAIN order /\ i \in DOMAIN order
        BY <2>1, <2>2
      <4>2. heap[order[i]].next = order[n] /\ heap[order[n]].prev = order[i]
        BY <2>6, <4>1 DEF QueueIsCycle
      <4>3. order'[i] = Other[order[i]] /\ order'[n] = Other[order[n]]
        BY <1>6, <4>1
      <4>4. heap'[Other[order[i]]].next = Other[order[n]] /\ heap'[Other[order[n]]].prev = Other[order[i]]
        <5> HIDE DEF n
        <5> QED
          BY <1>3, <3>2, <4>1, <4>2
      <4> QED
        BY <2>2, <4>3, <4>4
    <3> QED
      BY <3>3, <3>4, <3>5
  <2>7. /\ Len(anchors') = IF pc' = "idle" THEN 0 ELSE 1
        /\ pc' = "promote" => jobQueue' # Undefined /\ heap'[jobQueue'].kind = "closure"
        /\ pc' = "append" => jobQueue' # Undefined /\ heap'[jobQueue'].kind = "node"
        /\ (jobQueue' = Undefined \/ heap'[jobQueue'].kind = "closure") => order' = << >>
    <3>1. /\ Len(anchors) = IF pc = "idle" THEN 0 ELSE 1
          /\ pc = "promote" => jobQueue # Undefined /\ IsClosure(jobQueue)
          /\ pc = "append" => jobQueue # Undefined /\ IsNode(jobQueue)
          /\ (jobQueue = Undefined \/ IsClosure(jobQueue)) => order = << >>
      BY DEF QueueIsCycle
    <3> QED
      BY <1>6, <2>2, <2>3, <2>4, <2>5, <3>1 DEF IsNode, IsClosure
  <2>8. (jobQueue' # Undefined /\ heap'[jobQueue'].kind = "node") =>
            jobQueue # Undefined /\ IsNode(jobQueue)
    BY <2>3, <2>4 DEF IsNode
  <2> QED
    BY <2>6, <2>7, <2>8 DEF QueueIsCycle, IsNode, IsClosure
<1> QED
  BY <1>10, <1>11, <1>12

(* The invariant is preserved by every step.                               *)
LEMMA NextPreserves == IInv /\ [Next]_vars => IInv'
<1> SUFFICES ASSUME IInv, [Next]_vars PROVE IInv'
  OBVIOUS
<1>1. CASE Next
  BY <1>1, ScheduleFirstPreserves, ScheduleMorePreserves, PromotePreserves,
     AppendNodePreserves, DequeueOnlyPreserves, DequeueLastNodePreserves,
     DequeueFirstNodePreserves, CollectPreserves DEF Next
<1>2. CASE UNCHANGED vars
  BY <1>2 DEF vars, IInv, TypeOK, NoDanglingReference, QueueIsCycle, Roots, IsNode, IsClosure
<1> QED
  BY <1>1, <1>2

(* Whatever is collected when, the queue's registers and objects keep      *)
(* their types, no reference dangles, and the links form the cycle that    *)
(* vm_enqueueJob and vm_dequeueJob assume.                                 *)
THEOREM QueueSafe == Spec => [](TypeOK /\ NoDanglingReference /\ QueueIsCycle)
<1>1. Init => IInv
  BY InitEstablishes
<1>2. IInv /\ [Next]_vars => IInv'
  BY NextPreserves
<1> QED
  BY <1>1, <1>2, PTL DEF Spec, IInv

(* A set that holds the roots and what its members point to holds all that *)
(* survives a collection.                                                  *)
LEMMA ReachableIsLeast ==
    ASSUME NEW S \in SUBSET DOMAIN heap, Roots \subseteq S, ClosedUnderPointers(S)
    PROVE  Reachable \subseteq S
BY DEF Reachable

(* In every state of the invariant, the queue keeps alive nothing but the  *)
(* nodes and closures of the jobs that are pending or being enqueued.      *)
LEMMA NothingElseIsReachable == IInv => NoLeak
<1> SUFFICES ASSUME IInv PROVE NoLeak
  OBVIOUS
<1> DEFINE nodes == {order[i] : i \in DOMAIN order}
           jobs  == {heap[order[i]].job : i \in DOMAIN order}
<1>1. Roots \subseteq DOMAIN heap /\ Roots \subseteq Reachable
  BY ReachableIsClosed DEF IInv, NoDanglingReference
<1>2. \A i \in DOMAIN anchors : PointersIn(heap[anchors[i]]) = {}
  BY DEF IInv, NoDanglingReference, IsClosure, PointersIn
<1>3. CASE jobQueue = Undefined \/ IsClosure(jobQueue)
  <2>1. ClosedUnderPointers(Roots)
    BY <1>2, <1>3 DEF ClosedUnderPointers, Roots, PointersIn, IsClosure
  <2> QED
    BY <1>1, <1>3, <2>1, ReachableIsLeast DEF NoLeak
<1>4. CASE jobQueue # Undefined /\ ~ IsClosure(jobQueue)
  <2>1. IsNode(jobQueue)
    BY <1>1, <1>4 DEF IInv, TypeOK, Roots, IsNode, IsClosure
  <2>2. /\ nodes \cup jobs \subseteq Reachable
        /\ \A i \in DOMAIN order : IsNode(order[i]) /\ IsClosure(heap[order[i]].job)
    BY <1>4, <2>1, CycleIsReachable
  <2>3. /\ order \in Seq(Addr) /\ order # << >> /\ Len(order) \in Nat
        /\ DOMAIN order = 1 .. Len(order) /\ jobQueue = order[1]
    BY <1>4, <2>1 DEF IInv, TypeOK, QueueIsCycle
  <2>4. ASSUME NEW i \in DOMAIN order
        PROVE  heap[order[i]].next \in nodes /\ heap[order[i]].prev \in nodes
    <3> DEFINE n == IF i = Len(order) THEN 1 ELSE i + 1
               p == IF i = 1 THEN Len(order) ELSE i - 1
    <3>1. heap[order[i]].next = order[n] /\ n \in DOMAIN order
      BY <1>4, <2>1, <2>3 DEF IInv, QueueIsCycle
    <3>2. p \in DOMAIN order /\ i = (IF p = Len(order) THEN 1 ELSE p + 1)
      BY <2>3
    <3>3. heap[order[i]].prev = order[p]
      <4> HIDE DEF p
      <4> QED
        BY <1>4, <2>1, <3>2 DEF IInv, QueueIsCycle
    <3> QED
      BY <3>1, <3>2, <3>3
  <2> DEFINE S == nodes \cup jobs \cup Roots
  <2>5. ASSUME NEW a \in S PROVE PointersIn(heap[a]) \subseteq S
    <3>1. CASE a \in nodes
      BY <2>2, <2>4, <3>1 DEF PointersIn, IsNode
    <3>2. CASE a \in jobs
      BY <2>2, <3>2 DEF PointersIn, IsClosure
    <3>3. CASE a \in Roots
      <4>1. a = jobQueue \/ \E i \in DOMAIN anchors : a = anchors[i]
        BY <3>3 DEF Roots
      <4>2. CASE a = jobQueue
        BY <2>3, <3>1, <4>2
      <4> QED
        BY <1>2, <4>1, <4>2
    <3> QED
      BY <2>5, <3>1, <3>2, <3>3
  <2>6. S \subseteq DOMAIN heap
    BY <1>1, <2>2, ReachableIsClosed
  <2>7. Reachable \subseteq S
    <3>1. ClosedUnderPointers(S)
      BY <2>5 DEF ClosedUnderPointers
    <3> HIDE DEF S
    <3> QED
      BY <2>6, <3>1, ReachableIsLeast DEF S
  <2> QED
    BY <1>1, <1>4, <2>2, <2>7 DEF NoLeak
<1> QED
  BY <1>3, <1>4

(* For every heap and every number of jobs, what an enqueue holds across a *)
(* collection is never a dangling reference: vm_push makes it a root.      *)
THEOREM ReferencesSurvive == Spec => []NoDanglingReference
<1>1. Spec => [](TypeOK /\ NoDanglingReference /\ QueueIsCycle)
  BY QueueSafe
<1> QED
  BY <1>1, PTL

(* A job that has been delivered is garbage: the queue never leaks one.    *)
THEOREM QueueNeverLeaks == Spec => []NoLeak
<1>1. Init => IInv
  BY InitEstablishes
<1>2. IInv /\ [Next]_vars => IInv'
  BY NextPreserves
<1>3. IInv => NoLeak
  BY NothingElseIsReachable
<1> QED
  BY <1>1, <1>2, <1>3, PTL DEF Spec

-----------------------------------------------------------------------------
(* Refinement.  The jobs that the register stands for, in the three forms  *)
(* of the register.                                                        *)
JobAt(i) == heap[heap[order[i]].job].job

PendingMatchesRegister ==
    /\ jobQueue = Undefined => Pending = << >>
    /\ jobQueue # Undefined /\ IsClosure(jobQueue) => Pending = <<heap[jobQueue].job>>
    /\ jobQueue # Undefined /\ IsNode(jobQueue) =>
         /\ Pending \in Seq(Jobs) /\ Len(Pending) = Len(order) /\ Len(order) \in Nat \ {0}
         /\ \A i \in 1 .. Len(order) : Pending[i] = JobAt(i) /\ order[i] \in Reachable

LEMMA PendingForms == IInv => PendingMatchesRegister
<1> SUFFICES ASSUME IInv PROVE PendingMatchesRegister
  OBVIOUS
<1>1. /\ jobQueue = Undefined => Pending = << >>
      /\ jobQueue # Undefined /\ IsClosure(jobQueue) => Pending = <<heap[jobQueue].job>>
  BY DEF Pending
<1>2. ASSUME jobQueue # Undefined, IsNode(jobQueue)
      PROVE  /\ Pending \in Seq(Jobs) /\ Len(Pending) = Len(order) /\ Len(order) \in Nat \ {0}
             /\ \A i \in 1 .. Len(order) : Pending[i] = JobAt(i)
  <2>1. order \in Seq(Addr) /\ order # << >> /\ Len(order) \in Nat \ {0} /\ DOMAIN order = 1 .. Len(order)
    BY <1>2 DEF IInv, TypeOK, QueueIsCycle
  <2>2. Pending = [i \in 1 .. Len(order) |-> JobAt(i)]
    BY <1>2, <2>1 DEF Pending, JobAt, IsNode, IsClosure
  <2>3. \A i \in 1 .. Len(order) : JobAt(i) \in Jobs
    <3>1. \A i \in 1 .. Len(order) : /\ heap[order[i]].job \in DOMAIN heap
                                     /\ IsClosure(heap[order[i]].job)
      BY <1>2, <2>1, CycleIsReachable, ReachableIsClosed
    <3> QED
      BY <3>1 DEF IInv, TypeOK, IsClosure, JobAt
  <2>4. Pending \in [1 .. Len(order) -> Jobs]
    BY <2>2, <2>3
  <2>5. Pending \in Seq(Jobs)
    BY <2>1, <2>4, SeqDef
  <2>6. Len(Pending) = Len(order)
    BY <2>1, <2>4, <2>5, LenProperties
  <2> QED
    BY <2>1, <2>2, <2>5, <2>6
<1>3. ASSUME jobQueue # Undefined, IsNode(jobQueue), NEW i \in 1 .. Len(order)
      PROVE  order[i] \in Reachable
  BY <1>3, CycleIsReachable DEF IInv, TypeOK
<1> QED
  BY <1>1, <1>2, <1>3 DEF PendingMatchesRegister

LEMMA ScheduleFirstRefines ==
    ASSUME IInv, NEW j \in Jobs, ScheduleFirst(j)
    PROVE  Fifo!Enqueue(j)
<1>1. Pending = << >>
  BY DEF ScheduleFirst, Pending
<1>2. heap'[jobQueue'] = Closure(j) /\ jobQueue' # Undefined
  BY FreshIsFree, SpaceAssumption, AddrAssumption
     DEF ScheduleFirst, Allocated, Store, IInv, TypeOK
<1>3. Pending' = <<j>>
  BY <1>2 DEF Pending, IsClosure, Closure
<1> QED
  BY <1>1, <1>3 DEF ScheduleFirst, Fifo!Enqueue

(* While the closures and nodes of the queue keep their job slots, the     *)
(* queue stands for the same jobs.                                         *)
LEMMA PendingUnchanged ==
    ASSUME IInv, jobQueue # Undefined, jobQueue' = jobQueue, order' = order,
           \A a \in DOMAIN heap : heap'[a].kind = heap[a].kind /\ heap'[a].job = heap[a].job
    PROVE  Pending' = Pending
<1>1. jobQueue \in DOMAIN heap
  BY DEF IInv, NoDanglingReference, Roots
<1>2. CASE IsClosure(jobQueue)
  BY <1>1, <1>2 DEF Pending, IsClosure
<1>3. CASE IsNode(jobQueue)
  <2>1. \A i \in DOMAIN order : order[i] \in DOMAIN heap /\ heap[order[i]].job \in DOMAIN heap
    BY <1>3, CycleIsReachable, ReachableIsClosed
  <2> QED
    BY <1>1, <1>3, <2>1 DEF Pending, IsClosure, IsNode
<1> QED
  BY <1>1, <1>2, <1>3 DEF IInv, TypeOK, IsClosure, IsNode

LEMMA ScheduleMoreRefines ==
    ASSUME IInv, NEW j \in Jobs, ScheduleMore(j)
    PROVE  Pending' = Pending /\ delivered' = delivered
<1>1. \A a \in DOMAIN heap : heap'[a] = heap[a]
  BY FreshIsFree DEF ScheduleMore, Allocated, Store
<1> QED
  BY <1>1, PendingUnchanged DEF ScheduleMore

LEMMA PromoteRefines ==
    ASSUME IInv, Promote
    PROVE  Pending' = Pending /\ delivered' = delivered
<1>1. jobQueue # Undefined /\ IsClosure(jobQueue) /\ jobQueue \in DOMAIN heap
  BY DEF Promote, IInv, QueueIsCycle, NoDanglingReference, Roots
<1>2. Fresh \notin DOMAIN heap /\ Fresh \in Addr /\ Fresh # Undefined
  BY FreshIsFree, SpaceAssumption, AddrAssumption DEF Promote, IInv, TypeOK
<1>3. heap'[Fresh] = Node(Fresh, jobQueue, Fresh) /\ heap'[jobQueue] = heap[jobQueue]
  BY <1>1, <1>2 DEF Promote, Allocated, Store
<1>4. jobQueue' = Fresh /\ order' = <<Fresh>>
  BY DEF Promote
<1>5. Pending' = <<heap[jobQueue].job>>
  <2>1. heap'[jobQueue'].kind # "closure"
    BY <1>3, <1>4 DEF Node
  <2>2. Pending' = [i \in DOMAIN order' |-> heap'[heap'[order'[i]].job].job]
    BY <1>2, <1>4, <2>1 DEF Pending, IsClosure
  <2>3. DOMAIN order' = 1 .. 1 /\ order'[1] = Fresh /\ heap'[Fresh].job = jobQueue
    BY <1>3, <1>4 DEF Node
  <2> QED
    BY <1>3, <2>2, <2>3
<1> QED
  BY <1>1, <1>5 DEF Promote, Pending

LEMMA AppendNodeRefines ==
    ASSUME IInv, AppendNode
    PROVE  \E j \in Jobs : Fifo!Enqueue(j)
<1> DEFINE c == anchors[1]
           m == Len(order)
           j == heap[c].job
<1>1. IInv' /\ PendingMatchesRegister' /\ PendingMatchesRegister
  <2>1. IInv'
    BY AppendNodePreserves
  <2>2. PendingMatchesRegister
    BY PendingForms
  <2>3. (IInv => PendingMatchesRegister)'
    BY PendingForms, PTL
  <2> QED
    BY <2>1, <2>2, <2>3
<1>2. Len(anchors) = 1 /\ Last(anchors) = c /\ c \in DOMAIN heap /\ IsClosure(c)
  <2>1. Len(anchors) = 1 /\ 1 \in DOMAIN anchors
    BY DEF AppendNode, IInv, TypeOK, QueueIsCycle
  <2> QED
    BY <2>1 DEF IInv, NoDanglingReference, Roots, Last
<1>3. jobQueue # Undefined /\ IsNode(jobQueue) /\ jobQueue \in DOMAIN heap
  BY DEF AppendNode, IInv, QueueIsCycle, NoDanglingReference, Roots
<1>4. /\ heap[jobQueue].prev \in DOMAIN heap
      /\ Fresh \notin DOMAIN heap
  BY <1>3, FreshIsFree DEF AppendNode, IInv, NoDanglingReference
<1>5. /\ \A a \in DOMAIN heap : heap'[a].job = heap[a].job
      /\ heap'[jobQueue].kind = "node" /\ heap'[Fresh].job = c
  <2> DEFINE first == jobQueue
             last  == heap[first].prev
             h1    == Allocated(Node(last, c, first))
             h2    == SetNext(h1, last, Fresh)
  <2>1. heap' = SetPrev(h2, first, Fresh)
    BY <1>2 DEF AppendNode
  <2>2. \A a \in DOMAIN heap : h1[a] = heap[a]
    BY <1>4 DEF Allocated, Store
  <2>3. h1[Fresh].job = c /\ DOMAIN h1 = DOMAIN heap \cup {Fresh}
    BY DEF Allocated, Store, Node
  <2> HIDE DEF h1
  <2>4. DOMAIN h2 = DOMAIN h1 /\ \A a \in DOMAIN h1 : h2[a].job = h1[a].job
    BY <1>4, <2>3 DEF SetNext, Store, Node
  <2> HIDE DEF h2
  <2>5. /\ DOMAIN heap' = DOMAIN h1 /\ \A a \in DOMAIN h1 : heap'[a].job = h2[a].job
        /\ heap'[first].kind = "node"
    BY <1>3, <2>1, <2>3, <2>4 DEF SetPrev, Store, Node
  <2> QED
    BY <2>2, <2>3, <2>4, <2>5
<1>6. /\ jobQueue' = jobQueue /\ order' = Append(order, Fresh) /\ delivered' = delivered
  BY DEF AppendNode
<1>7. j \in Jobs
  BY <1>2 DEF IInv, TypeOK, IsClosure
<1>8. /\ order \in Seq(Addr) /\ m \in Nat \ {0} /\ DOMAIN order = 1 .. m
      /\ Len(order') = m + 1 /\ order'[m + 1] = Fresh
      /\ \A i \in 1 .. m : order'[i] = order[i]
  BY <1>1, <1>3, <1>6 DEF IInv, TypeOK, PendingMatchesRegister
<1>9. /\ Pending \in Seq(Jobs) /\ Len(Pending) = m
      /\ \A i \in 1 .. m : Pending[i] = heap[heap[order[i]].job].job
      /\ Pending' \in Seq(Jobs) /\ Len(Pending') = m + 1
      /\ \A i \in 1 .. m + 1 : Pending'[i] = heap'[heap'[order'[i]].job].job
  <2>1. jobQueue' # Undefined /\ heap'[jobQueue'].kind = "node"
    BY <1>3, <1>5, <1>6
  <2> QED
    BY <1>1, <1>3, <1>8, <2>1 DEF PendingMatchesRegister, IsNode, JobAt
<1>10. \A i \in 1 .. m : /\ order[i] \in DOMAIN heap /\ heap[order[i]].job \in DOMAIN heap
                         /\ Pending'[i] = Pending[i]
  <2>1. \A i \in 1 .. m : order[i] \in DOMAIN heap /\ heap[order[i]].job \in DOMAIN heap
    BY <1>3, <1>8, CycleIsReachable, ReachableIsClosed
  <2> QED
    BY <1>5, <1>8, <1>9, <2>1
<1>11. Pending'[m + 1] = j
  BY <1>2, <1>5, <1>8, <1>9
<1>12. Pending' = Append(Pending, j)
  <2>1. /\ Append(Pending, j) \in Seq(Jobs) /\ Len(Append(Pending, j)) = m + 1
        /\ \A i \in 1 .. m : Append(Pending, j)[i] = Pending[i]
        /\ Append(Pending, j)[m + 1] = j
    BY <1>7, <1>9, AppendProperties
  <2>2. \A i \in 1 .. m + 1 : Pending'[i] = Append(Pending, j)[i]
    BY <1>8, <1>10, <1>11, <2>1
  <2> HIDE DEF m, j
  <2> QED
    BY <1>9, <2>1, <2>2, SeqEqual
<1> QED
  BY <1>6, <1>7, <1>12 DEF Fifo!Enqueue

LEMMA DequeueOnlyRefines ==
    ASSUME IInv, DequeueOnly
    PROVE  Fifo!Deliver
<1>1. Pending = <<heap[jobQueue].job>> /\ Pending' = << >>
  BY DEF DequeueOnly, Pending
<1> QED
  BY <1>1 DEF DequeueOnly, Fifo!Deliver

LEMMA DequeueLastNodeRefines ==
    ASSUME IInv, DequeueLastNode
    PROVE  Fifo!Deliver
<1> DEFINE m == Len(order)
<1>1. PendingMatchesRegister /\ Pending' = << >>
  BY PendingForms DEF DequeueLastNode, Pending
<1>2. /\ order \in Seq(Addr) /\ m \in Nat \ {0} /\ DOMAIN order = 1 .. m
      /\ Pending \in Seq(Jobs) /\ Len(Pending) = m
      /\ \A i \in 1 .. m : Pending[i] = JobAt(i)
  BY <1>1 DEF DequeueLastNode, IInv, TypeOK, PendingMatchesRegister
<1>3. m = 1 /\ order[1] = jobQueue
  <2>1. /\ order[1] = jobQueue /\ heap[order[1]].prev = order[m]
        /\ \A i, k \in 1 .. m : order[i] = order[k] => i = k
    BY <1>2 DEF DequeueLastNode, IInv, QueueIsCycle
  <2>2. order[m] = order[1]
    BY <2>1 DEF DequeueLastNode
  <2> QED
    BY <1>2, <2>1, <2>2
<1>4. Head(Pending) = heap[heap[jobQueue].job].job /\ Tail(Pending) = << >> /\ Pending # << >>
  <2>1. Pending = <<JobAt(1)>>
    BY <1>2, <1>3
  <2> QED
    BY <1>3, <2>1 DEF JobAt
<1> QED
  BY <1>1, <1>4 DEF DequeueLastNode, Fifo!Deliver

LEMMA DequeueFirstNodeRefines ==
    ASSUME IInv, DequeueFirstNode
    PROVE  Fifo!Deliver
<1> DEFINE m == Len(order)
<1>1. IInv' /\ PendingMatchesRegister' /\ PendingMatchesRegister
  <2>1. IInv'
    BY DequeueFirstNodePreserves
  <2>2. PendingMatchesRegister
    BY PendingForms
  <2>3. (IInv => PendingMatchesRegister)'
    BY PendingForms, PTL
  <2> QED
    BY <2>1, <2>2, <2>3
<1>2. jobQueue # Undefined /\ IsNode(jobQueue) /\ jobQueue = order[1]
  BY DEF DequeueFirstNode, IInv, QueueIsCycle
<1>3. /\ order \in Seq(Addr) /\ order # << >> /\ m \in Nat \ {0} /\ DOMAIN order = 1 .. m
      /\ Pending \in Seq(Jobs) /\ Len(Pending) = m /\ Pending # << >>
      /\ \A i \in 1 .. m : Pending[i] = JobAt(i)
  BY <1>1, <1>2, EmptySeq DEF IInv, TypeOK, PendingMatchesRegister
<1>4. /\ \A i \in 1 .. m : order[i] \in DOMAIN heap /\ heap[order[i]].job \in DOMAIN heap
      /\ heap[jobQueue].prev \in DOMAIN heap /\ heap[jobQueue].next \in DOMAIN heap
      /\ IsNode(heap[jobQueue].next)
  BY <1>2, <1>3, CycleIsReachable, ReachableIsClosed
     DEF IInv, NoDanglingReference, Roots
<1>5. /\ \A a \in DOMAIN heap : heap'[a].job = heap[a].job
      /\ heap'[jobQueue'].kind = "node"
  <2> DEFINE first == heap[jobQueue]
             h1    == SetNext(heap, first.prev, first.next)
  <2>1. heap' = SetPrev(h1, first.next, first.prev) /\ jobQueue' = first.next
    BY DEF DequeueFirstNode
  <2>2. DOMAIN h1 = DOMAIN heap /\ \A a \in DOMAIN heap : h1[a].job = heap[a].job
    BY <1>4 DEF SetNext, Store, Node
  <2> HIDE DEF h1
  <2> QED
    BY <1>4, <2>1, <2>2 DEF SetPrev, Store, Node
<1>6. /\ order' = Tail(order) /\ Len(order') = m - 1
      /\ \A i \in 1 .. m - 1 : order'[i] = order[i + 1]
  <2>1. order' = Tail(order)
    BY DEF DequeueFirstNode
  <2> QED
    BY <1>3, <2>1, HeadTailProperties
<1>7. /\ Pending' \in Seq(Jobs) /\ Len(Pending') = m - 1
      /\ \A i \in 1 .. m - 1 : Pending'[i] = heap'[heap'[order'[i]].job].job
  <2>1. jobQueue' # Undefined
    BY <1>4, AddrAssumption, SpaceAssumption DEF DequeueFirstNode, IInv, TypeOK
  <2> QED
    BY <1>1, <1>5, <1>6, <2>1 DEF PendingMatchesRegister, IsNode, JobAt
<1>8. /\ Tail(Pending) \in Seq(Jobs) /\ Len(Tail(Pending)) = m - 1
      /\ \A i \in 1 .. m - 1 : Tail(Pending)[i] = Pending[i + 1]
  BY <1>3, HeadTailProperties
<1>9. \A i \in 1 .. m - 1 : Pending'[i] = Tail(Pending)[i]
  <2> SUFFICES ASSUME NEW i \in 1 .. m - 1 PROVE Pending'[i] = Tail(Pending)[i]
    OBVIOUS
  <2>1. i + 1 \in 1 .. m /\ order'[i] = order[i + 1]
    BY <1>3, <1>6
  <2>2. Pending'[i] = heap[heap[order[i + 1]].job].job
    BY <1>4, <1>5, <1>7, <2>1
  <2> QED
    BY <1>3, <1>8, <2>1, <2>2 DEF JobAt
<1>10. Pending' = Tail(Pending)
  <2> HIDE DEF m
  <2> QED
    BY <1>7, <1>8, <1>9, SeqEqual
<1>11. Head(Pending) = delivered'
  <2>1. Head(Pending) = Pending[1] /\ 1 \in 1 .. m
    BY <1>3
  <2> QED
    BY <1>2, <1>3, <2>1 DEF DequeueFirstNode, JobAt
<1> QED
  BY <1>3, <1>10, <1>11 DEF Fifo!Deliver

LEMMA CollectRefines ==
    ASSUME IInv, Collect
    PROVE  Pending' = Pending /\ delivered' = delivered
<1>1. /\ \A a \in Reachable : heap'[Other[a]] = MoveObject(heap[a]) /\ a \in Addr
      /\ Roots \subseteq Reachable
      /\ \A a \in Addr : Other[a] # Undefined
  BY CollectMoves, ReachableIsClosed, SpaceAssumption, AddrAssumption
<1>2. /\ jobQueue' = (IF jobQueue = Undefined THEN Undefined ELSE Other[jobQueue])
      /\ order' = [i \in DOMAIN order |-> Other[order[i]]] /\ delivered' = delivered
  BY DEF Collect
<1>3. CASE jobQueue = Undefined
  BY <1>2, <1>3 DEF Pending
<1>4. CASE jobQueue # Undefined /\ IsClosure(jobQueue)
  <2>1. jobQueue \in Reachable
    BY <1>1, <1>4 DEF Roots
  <2>2. jobQueue' # Undefined /\ heap'[jobQueue'] = heap[jobQueue]
    BY <1>1, <1>2, <1>4, <2>1 DEF MoveObject, IsClosure
  <2> QED
    BY <1>2, <1>4, <2>2 DEF Pending, IsClosure
<1>5. CASE jobQueue # Undefined /\ IsNode(jobQueue)
  <2>1. jobQueue \in Reachable
    BY <1>1, <1>5 DEF Roots
  <2> DEFINE Moved(a) == Node(Other[heap[a].prev], Other[heap[a].job], Other[heap[a].next])
  <2>n. ASSUME NEW a \in Reachable, IsNode(a)
        PROVE  heap'[Other[a]].kind = "node" /\ heap'[Other[a]].job = Other[heap[a].job]
    <3>1. heap'[Other[a]] = Moved(a)
      BY <1>1, <2>n DEF MoveObject, IsNode
    <3>2. Moved(a).kind = "node" /\ Moved(a).job = Other[heap[a].job]
      BY DEF Node
    <3> QED
      BY <3>1, <3>2
  <2>2. jobQueue' # Undefined /\ heap'[jobQueue'].kind = "node"
    BY <1>1, <1>2, <1>5, <2>1, <2>n
  <2>3. \A i \in DOMAIN order : heap'[heap'[order'[i]].job].job = heap[heap[order[i]].job].job
    <3> SUFFICES ASSUME NEW i \in DOMAIN order
                 PROVE  heap'[heap'[order'[i]].job].job = heap[heap[order[i]].job].job
      OBVIOUS
    <3>1. /\ order[i] \in Reachable /\ IsNode(order[i])
          /\ heap[order[i]].job \in Reachable /\ IsClosure(heap[order[i]].job)
      BY <1>5, CycleIsReachable
    <3>2. heap'[order'[i]].job = Other[heap[order[i]].job]
      BY <1>2, <2>n, <3>1
    <3>3. heap'[Other[heap[order[i]].job]] = heap[heap[order[i]].job]
      BY <1>1, <3>1 DEF MoveObject, IsClosure
    <3> QED
      BY <3>2, <3>3
  <2> QED
    BY <1>2, <1>5, <2>2, <2>3 DEF Pending, IsClosure, IsNode
<1> QED
  BY <1>2, <1>3, <1>4, <1>5, CollectMoves, ReachableIsClosed
     DEF IInv, TypeOK, Roots, NoDanglingReference, IsClosure, IsNode

LEMMA StepRefines == IInv /\ [Next]_vars => [Fifo!Next]_Fifo!vars
<1> SUFFICES ASSUME IInv, [Next]_vars PROVE [Fifo!Next]_Fifo!vars
  OBVIOUS
<1> USE DEF Fifo!Next, Fifo!vars
<1>1. ASSUME NEW j \in Jobs, ScheduleFirst(j) PROVE Fifo!Next
  BY <1>1, ScheduleFirstRefines
<1>2. ASSUME NEW j \in Jobs, ScheduleMore(j) PROVE UNCHANGED Fifo!vars
  BY <1>2, ScheduleMoreRefines
<1>3. CASE Promote
  BY <1>3, PromoteRefines
<1>4. CASE AppendNode
  BY <1>4, AppendNodeRefines
<1>5. CASE DequeueOnly
  BY <1>5, DequeueOnlyRefines
<1>6. CASE DequeueLastNode
  BY <1>6, DequeueLastNodeRefines
<1>7. CASE DequeueFirstNode
  BY <1>7, DequeueFirstNodeRefines
<1>8. CASE Collect
  BY <1>8, CollectRefines
<1>9. CASE UNCHANGED vars
  BY <1>9 DEF vars, Pending, IsClosure
<1> QED
  BY <1>1, <1>2, <1>3, <1>4, <1>5, <1>6, <1>7, <1>8, <1>9 DEF Next

(* The cycle in the collected heap implements the abstract queue: jobs are *)
(* delivered once each and in the order in which they were scheduled.      *)
THEOREM QueueImplementsFIFO == Spec => ImplementsFIFO
<1>1. Init => Fifo!Init
  BY DEF Init, Fifo!Init, Pending
<1>2. Init => IInv
  BY InitEstablishes
<1>3. IInv /\ [Next]_vars => IInv'
  BY NextPreserves
<1>4. IInv /\ [Next]_vars => [Fifo!Next]_Fifo!vars
  BY StepRefines
<1> QED
  BY <1>1, <1>2, <1>3, <1>4, PTL DEF Spec, ImplementsFIFO, Fifo!Spec
=============================================================================
