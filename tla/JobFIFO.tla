------------------------------ MODULE JobFIFO ------------------------------
(***************************************************************************)
(* What the job queue of the engine promises to the code that schedules    *)
(* jobs: a job that was enqueued is delivered exactly once and jobs are    *)
(* delivered in the order in which they were enqueued.  JobQueue.tla is    *)
(* shown to implement this specification.                                  *)
(***************************************************************************)
EXTENDS Sequences

CONSTANTS Jobs,     \* what a job can be: a continuation with its result
          NoJob     \* stands for "nothing was delivered yet"

VARIABLES pending,    \* the jobs enqueued and not yet delivered, oldest first
          delivered   \* the job delivered last

vars == <<pending, delivered>>

Init == pending = << >> /\ delivered = NoJob

Enqueue(j) ==
    /\ pending' = Append(pending, j)
    /\ UNCHANGED delivered

Deliver ==
    /\ pending # << >>
    /\ delivered' = Head(pending)
    /\ pending' = Tail(pending)

Next == Deliver \/ \E j \in Jobs : Enqueue(j)

Spec == Init /\ [][Next]_vars
=============================================================================
