------------------------------ MODULE JobQueue ------------------------------
(***************************************************************************)
(* The job queue of the engine (vm_scheduleContinuation, vm_enqueueJob and *)
(* vm_dequeueJob of microvium.c) over the garbage-collected heap.          *)
(*                                                                         *)
(* The queue lives in one register.  It is undefined when there is no job, *)
(* the job's closure itself when there is one, and otherwise a reference   *)
(* to the first node of a linked cycle of [prev, job, next] triples.       *)
(* Every mvm_allocate may run a collection, which moves every object that  *)
(* is reachable from the registers and the stack and frees the others, so  *)
(* an enqueue is a sequence of steps, one for each allocation it makes,    *)
(* and Collect may run before each of them.                                *)
(***************************************************************************)
EXTENDS Naturals, Sequences, FiniteSets, SequencesExt

CONSTANTS
    Jobs,         \* payload of a job closure: continuation, success flag, result
    NoJob,        \* not a job
    Undefined,    \* VM_VALUE_UNDEFINED in the queue register
    Addr,         \* addresses of heap objects, over the from-space and the to-space
    LowSpace,     \* the half of Addr that the first bucket chain covers
    Other,        \* where a collection copies the object at an address
    MaxPending    \* bound: schedule only while fewer jobs are pending

ASSUME JobAssumption  == NoJob \notin Jobs
ASSUME AddrAssumption == Undefined \notin Addr
ASSUME SpaceAssumption ==
    /\ LowSpace \subseteq Addr
    /\ Other \in [Addr -> Addr]
    /\ \A a \in Addr : Other[Other[a]] = a
    /\ \A a \in Addr : a \in LowSpace <=> Other[a] \notin LowSpace
ASSUME BoundAssumption == MaxPending \in Nat

VARIABLES
    heap,       \* address -> object, for the allocated addresses
    space,      \* the half of Addr that objects are allocated in
    jobQueue,   \* reg->jobQueue
    anchors,    \* what vm_push has put on the stack, which is a GC root
    pc,         \* the allocation the running enqueue makes next, or "idle"
    delivered,  \* the payload of the job that vm_dequeueJob returned last
    order       \* history: the nodes of the cycle, first to last

vars == <<heap, space, jobQueue, anchors, pc, delivered, order>>

Closure(j)   == [kind |-> "closure", job |-> j]
Node(p, c, n) == [kind |-> "node", prev |-> p, job |-> c, next |-> n]

IsClosure(a) == heap[a].kind = "closure"
IsNode(a)    == heap[a].kind = "node"

-----------------------------------------------------------------------------
(* The collector, as the queue sees it.                                    *)

PointersIn(o) == IF o.kind = "node" THEN {o.prev, o.job, o.next} ELSE {}

Roots == (IF jobQueue = Undefined THEN {} ELSE {jobQueue})
            \cup {anchors[i] : i \in DOMAIN anchors}

ClosedUnderPointers(S) == \A a \in S : PointersIn(heap[a]) \subseteq S

\* The least set that holds the roots and what its members point to.
Reachable ==
    {a \in DOMAIN heap :
        \A S \in SUBSET DOMAIN heap :
            Roots \subseteq S /\ ClosedUnderPointers(S) => a \in S}

\* Mutant of MoveObject: the prev slot of a node is not forwarded.
MoveObjectKeepsPrev(o) ==
    IF o.kind = "node" THEN Node(o.prev, Other[o.job], Other[o.next]) ELSE o

MoveObject(o) ==
    IF o.kind = "node" THEN Node(Other[o.prev], Other[o.job], Other[o.next]) ELSE o

\* A collection: survivors are copied to the other half, every reference to
\* them is updated, and the old half is freed.
Collect ==
    LET moved == {Other[a] : a \in Reachable}
    IN  /\ heap' = [b \in moved |-> MoveObject(heap[Other[b]])]
        /\ space' = Addr \ space
        /\ jobQueue' = IF jobQueue = Undefined THEN Undefined ELSE Other[jobQueue]
        /\ anchors' = [i \in DOMAIN anchors |-> Other[anchors[i]]]
        /\ order' = [i \in DOMAIN order |-> Other[order[i]]]
        /\ UNCHANGED <<pc, delivered>>

-----------------------------------------------------------------------------
(* Allocation: some free address of the current half.                      *)

HasRoom == space \ DOMAIN heap # {}

Fresh == CHOOSE a \in space : a \notin DOMAIN heap

\* The heap h with object o at address a, and with one link of the node at a changed.
Store(h, a, o)   == [x \in DOMAIN h \cup {a} |-> IF x = a THEN o ELSE h[x]]

\* Mutants of SetNext and SetPrev: the link is forgotten.
SetNextForgotten(h, a, n) == h
SetPrevForgotten(h, a, p) == h

SetNext(h, a, n) == Store(h, a, Node(h[a].prev, h[a].job, n))
SetPrev(h, a, p) == Store(h, a, Node(p, h[a].job, h[a].next))

Allocated(o) == Store(heap, Fresh, o)

-----------------------------------------------------------------------------
(* vm_scheduleContinuation allocates the job's closure and calls           *)
(* vm_enqueueJob, which first looks at what the register holds.            *)

ScheduleFirst(j) ==
    /\ pc = "idle" /\ HasRoom
    /\ MaxPending > 0
    /\ jobQueue = Undefined
    /\ heap' = Allocated(Closure(j))
    /\ jobQueue' = Fresh
    /\ UNCHANGED <<space, anchors, pc, delivered, order>>

ScheduleMore(j) ==
    /\ pc = "idle" /\ HasRoom
    /\ jobQueue # Undefined
    /\ (IF IsClosure(jobQueue) THEN 1 ELSE Len(order)) < MaxPending
    /\ heap' = Allocated(Closure(j))
    /\ anchors' = Append(anchors, Fresh)
    /\ pc' = IF IsClosure(jobQueue) THEN "promote" ELSE "append"
    /\ UNCHANGED <<space, jobQueue, delivered, order>>

\* The register held a closure: put it in a cycle of one node.
Promote ==
    /\ pc = "promote" /\ HasRoom
    /\ heap' = Allocated(Node(Fresh, jobQueue, Fresh))
    /\ jobQueue' = Fresh
    /\ order' = <<Fresh>>
    /\ pc' = "append"
    /\ UNCHANGED <<space, anchors, delivered>>

\* Link a new node in before the first node, which is after the last.
AppendNode ==
    LET first   == jobQueue
        last    == heap[first].prev
        newNode == Node(last, Last(anchors), first)
    IN  /\ pc = "append" /\ HasRoom
        /\ heap' = SetPrev(SetNext(Allocated(newNode), last, Fresh), first, Fresh)
        /\ anchors' = Front(anchors)
        /\ order' = Append(order, Fresh)
        /\ pc' = "idle"
        /\ UNCHANGED <<space, jobQueue, delivered>>

-----------------------------------------------------------------------------
(* vm_dequeueJob: the three forms of the register.                         *)

DequeueOnly ==
    /\ pc = "idle" /\ jobQueue # Undefined /\ IsClosure(jobQueue)
    /\ delivered' = heap[jobQueue].job
    /\ jobQueue' = Undefined
    /\ UNCHANGED <<heap, space, anchors, pc, order>>

DequeueLastNode ==
    /\ pc = "idle" /\ jobQueue # Undefined /\ IsNode(jobQueue)
    /\ heap[jobQueue].prev = jobQueue
    /\ delivered' = heap[heap[jobQueue].job].job
    /\ jobQueue' = Undefined
    /\ order' = << >>
    /\ UNCHANGED <<heap, space, anchors, pc>>

\* Mutant of DequeueFirstNode: the job of the last node is delivered.
DequeueFirstNodeFromTheEnd ==
    LET first  == heap[jobQueue]
    IN  /\ pc = "idle" /\ jobQueue # Undefined /\ IsNode(jobQueue)
        /\ first.prev # jobQueue
        /\ delivered' = heap[heap[first.prev].job].job
        /\ heap' = SetPrev(SetNext(heap, first.prev, first.next), first.next, first.prev)
        /\ jobQueue' = first.next
        /\ order' = Tail(order)
        /\ UNCHANGED <<space, anchors, pc>>

DequeueFirstNode ==
    LET first  == heap[jobQueue]
    IN  /\ pc = "idle" /\ jobQueue # Undefined /\ IsNode(jobQueue)
        /\ first.prev # jobQueue
        /\ delivered' = heap[first.job].job
        /\ heap' = SetPrev(SetNext(heap, first.prev, first.next), first.next, first.prev)
        /\ jobQueue' = first.next
        /\ order' = Tail(order)
        /\ UNCHANGED <<space, anchors, pc>>

-----------------------------------------------------------------------------
Init ==
    /\ heap = [a \in {} |-> Closure(NoJob)]
    /\ space = LowSpace
    /\ jobQueue = Undefined
    /\ anchors = << >>
    /\ pc = "idle"
    /\ delivered = NoJob
    /\ order = << >>

Next ==
    \/ \E j \in Jobs : ScheduleFirst(j)
    \/ \E j \in Jobs : ScheduleMore(j)
    \/ Promote
    \/ AppendNode
    \/ DequeueOnly
    \/ DequeueLastNode
    \/ DequeueFirstNode
    \/ Collect

Spec == Init /\ [][Next]_vars

-----------------------------------------------------------------------------
(* Properties.                                                             *)

\* Type invariant of the registers, the heap and the history variable.
TypeOK ==
    /\ space \in {LowSpace, Addr \ LowSpace}
    /\ DOMAIN heap \subseteq space
    /\ \A a \in DOMAIN heap : heap[a] \in [kind : {"closure"}, job : Jobs]
                                  \cup [kind : {"node"}, prev : Addr, job : Addr, next : Addr]
    /\ jobQueue \in Addr \cup {Undefined}
    /\ anchors \in Seq(Addr)
    /\ pc \in {"idle", "promote", "append"}
    /\ delivered \in Jobs \cup {NoJob}
    /\ order \in Seq(Addr)

\* No reference dangles: whatever an enqueue keeps in a register, on the stack or in
\* a node is still an allocated object after a collection that ran in the middle of it,
\* a node's job slot is a closure and its links are nodes ("jobs are always closures").
NoDanglingReference ==
    /\ Roots \subseteq DOMAIN heap
    /\ \A i \in DOMAIN anchors : IsClosure(anchors[i])
    /\ \A a \in DOMAIN heap : IsNode(a) =>
          /\ {heap[a].prev, heap[a].job, heap[a].next} \subseteq DOMAIN heap
          /\ IsNode(heap[a].prev) /\ IsNode(heap[a].next) /\ IsClosure(heap[a].job)

\* The register, the links and the phase of the enqueue agree: the nodes form one
\* cycle in which next and prev are inverse, the register is its first node, and a
\* closure is pushed exactly while an enqueue is under way.
QueueIsCycle ==
    /\ Len(anchors) = IF pc = "idle" THEN 0 ELSE 1
    /\ pc = "promote" => jobQueue # Undefined /\ IsClosure(jobQueue)
    /\ pc = "append" => jobQueue # Undefined /\ IsNode(jobQueue)
    /\ (jobQueue = Undefined \/ IsClosure(jobQueue)) => order = << >>
    /\ (jobQueue # Undefined /\ IsNode(jobQueue)) =>
          /\ order # << >> /\ jobQueue = order[1]
          /\ \A i, k \in DOMAIN order : order[i] = order[k] => i = k
          /\ \A i \in DOMAIN order :
                LET n == IF i = Len(order) THEN 1 ELSE i + 1
                IN  heap[order[i]].next = order[n] /\ heap[order[n]].prev = order[i]

\* The queue keeps no garbage alive: what it reaches is the nodes of the jobs that are
\* pending, their closures, and the closure that an enqueue under way has pushed.
NoLeak ==
    Reachable = (IF jobQueue = Undefined \/ IsClosure(jobQueue) THEN {}
                 ELSE {order[i] : i \in DOMAIN order}
                         \cup {heap[order[i]].job : i \in DOMAIN order})
                \cup Roots

\* The jobs that the register stands for, oldest first.
Pending ==
    IF jobQueue = Undefined THEN << >>
    ELSE IF IsClosure(jobQueue) THEN <<heap[jobQueue].job>>
    ELSE [i \in DOMAIN order |-> heap[heap[order[i]].job].job]

\* The linked cycle implements the queue that its users rely on: every job that was
\* scheduled is delivered once, in the order of scheduling, whatever is collected when.
Fifo == INSTANCE JobFIFO WITH pending <- Pending, delivered <- delivered
ImplementsFIFO == Fifo!Spec
=============================================================================
