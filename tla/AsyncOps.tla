------------------------------ MODULE AsyncOps ------------------------------
(***************************************************************************)
(* What async functions, promises and host callbacks promise to a program. *)
(* An operation begins, completes and hands its outcome to every async     *)
(* function that waits for it, exactly once and from a queue, never while  *)
(* that function is still running.  It completes once, but a promise of    *)
(* the program has two functions that settle it: the second one replaces   *)
(* the outcome for whoever awaits it later, and wakes up nobody.           *)
(* Callbacks and continuations do not appear.  Async.tla is shown to       *)
(* implement this.                                                         *)
(***************************************************************************)
EXTENDS Naturals, Sequences, SequencesExt

CONSTANT Ops    \* operations: runs of async functions, promises, host operations

VARIABLES
    phase,      \* of each operation: "none", "running", "suspended", "done"
    outcome,    \* of each operation: "none", "resolved", "rejected"
    waiters,    \* the functions that wait for each operation, in order
    open,       \* the promises that a function of the program is left to settle
    ready       \* the functions to wake up, with the operation and its outcome

vars == <<phase, outcome, waiters, open, ready>>

Init ==
    /\ phase = [o \in Ops |-> "none"]
    /\ outcome = [o \in Ops |-> "none"]
    /\ waiters = [o \in Ops |-> << >>]
    /\ open = {}
    /\ ready = << >>

Waits(a) ==
    \/ \E o \in Ops : a \in ToSet(waiters[o])
    \/ \E i \in DOMAIN ready : ready[i].op = a

\* An operation begins.  When a function calls it to await it, it waits from the start,
\* and the operation is none of the promises that the program settles.
Begin(o, ws) ==
    /\ phase[o] = "none"
    /\ ws \in {<< >>} \cup {<<a>> : a \in {b \in Ops : phase[b] = "running" /\ ~ Waits(b)}}
    /\ phase' = [phase EXCEPT ![o] = "running"]
    /\ waiters' = [waiters EXCEPT ![o] = ws]
    /\ open' = open \/ (ws = << >> /\ open' = open \cup {o})
    /\ UNCHANGED <<outcome, ready>>

\* A function that waits already is suspended.
Suspend(a) ==
    /\ phase[a] = "running" /\ Waits(a)
    /\ phase' = [phase EXCEPT ![a] = "suspended"]
    /\ UNCHANGED <<outcome, waiters, open, ready>>

\* A function awaits an operation that began earlier and may be done.
Await(a, o) ==
    /\ phase[a] = "running" /\ ~ Waits(a) /\ phase[o] # "none"
    /\ phase' = [phase EXCEPT ![a] = "suspended"]
    /\ IF phase[o] = "done"
       THEN /\ ready' = Append(ready, [op |-> a, from |-> o, how |-> outcome[o]])
            /\ UNCHANGED waiters
       ELSE /\ waiters' = [waiters EXCEPT ![o] = Append(@, a)]
            /\ UNCHANGED ready
    /\ UNCHANGED <<outcome, open>>

\* An operation completes and wakes up everything that waits for it.
Complete(o, how) ==
    /\ phase[o] = "running" /\ ~ Waits(o)
    /\ phase' = [phase EXCEPT ![o] = "done"]
    /\ outcome' = [outcome EXCEPT ![o] = how]
    /\ waiters' = [waiters EXCEPT ![o] = << >>]
    /\ ready' = ready \o [i \in DOMAIN waiters[o] |-> [op |-> waiters[o][i], from |-> o, how |-> how]]
    /\ UNCHANGED open

\* The function that did not settle a promise runs, too.
SettleAgain(o, how) ==
    /\ phase[o] = "done" /\ o \in open
    /\ outcome' = [outcome EXCEPT ![o] = how]
    /\ open' = open \ {o}
    /\ UNCHANGED <<phase, waiters, ready>>

\* The first function of the queue goes on with what it waited for.
Resume ==
    /\ ready # << >> /\ phase[Head(ready).op] = "suspended"
    /\ phase' = [phase EXCEPT ![Head(ready).op] = "running"]
    /\ ready' = Tail(ready)
    /\ UNCHANGED <<outcome, waiters, open>>

Next ==
    \/ \E o \in Ops : \E ws \in {<< >>} \cup {<<a>> : a \in Ops} : Begin(o, ws)
    \/ \E a \in Ops : Suspend(a)
    \/ \E a, o \in Ops : Await(a, o)
    \/ \E o \in Ops, how \in {"resolved", "rejected"} : Complete(o, how) \/ SettleAgain(o, how)
    \/ Resume

Spec == Init /\ [][Next]_vars
=============================================================================
