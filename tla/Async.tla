------------------------------- MODULE Async -------------------------------
(***************************************************************************)
(* Async functions, await, promises and callbacks of the host, as          *)
(* microvium.c executes them.                                              *)
(*                                                                         *)
(* A run of an async function is a closure.  Slot 0 is what a call of the  *)
(* closure executes (`cont`), slot 1 what is to be called when the run     *)
(* completes (`callback`): nothing, the closure of the caller that awaits  *)
(* the call, or a promise that stands for its subscribers.  A caller hands *)
(* its closure to the callee in the register cpsCallback, which also       *)
(* nested calls and host functions use.  The callbacks that the host gets  *)
(* from mvm_asyncStart and the functions that settle a promise have the    *)
(* same two slots and complete through the same code.                      *)
(*                                                                         *)
(* The words of the frames are the subject of CallMachine, the form of the *)
(* job queue that of JobQueue: here a frame is a record and the queue a    *)
(* sequence.  What an async function keeps across an await is abstracted.  *)
(***************************************************************************)
EXTENDS Naturals, Sequences, FiniteSets, SequencesExt, FiniteSetsExt

CONSTANTS
    MaxClosures,        \* bound: closures with a continuation and a callback
    MaxPromises,        \* bound: promises
    MaxDepth,           \* bound: frames on the stack
    MaxSize             \* bound: frames and closures together, when one is added

ASSUME BoundsAssumption == {MaxClosures, MaxPromises, MaxDepth, MaxSize} \subseteq Nat

VARIABLES
    closures,   \* the closures in the order of their creation
    promises,   \* the promises in the order of their creation
    stack,      \* the frames, and host functions that run in them, outermost first
    cps,        \* the register cpsCallback
    queue,      \* the jobs in the queue
    outcome     \* history: how each operation completed

vars == <<closures, promises, stack, cps, queue, outcome>>

-----------------------------------------------------------------------------
(* Values.                                                                 *)

Undefined  == [is |-> "undefined", of |-> << >>]
Deleted    == [is |-> "deleted", of |-> << >>]
Resume     == [is |-> "resume", of |-> << >>]        \* the code behind an await
NoOp       == [is |-> "noop", of |-> << >>]          \* VM_VALUE_NO_OP_FUNC
Closure(c) == [is |-> "closure", of |-> <<c>>]
Promise(p) == [is |-> "promise", of |-> <<p>>]
Array(cs)  == [is |-> "array", of |-> cs]            \* of subscribers
Result(o)  == [is |-> "result", of |-> <<o>>]        \* a value that only o completes with
Stale      == [is |-> "stale", of |-> << >>]         \* a pointer to where an object was
Nothing    == [is |-> "nothing", of |-> << >>]       \* no value is on the stack

PromiseOf(v) == v.of[1]

Op == 1 .. MaxClosures

\* resolve and reject are two closures of one operation, resolve the first of them.
OpOf(c) == IF closures[c].kind = "reject" THEN c - 1 ELSE c

-----------------------------------------------------------------------------
(* Frames.                                                                 *)

\* call:    who called: the host, the job loop or a kind of JS call.
\* sync:    var[0] of an async function, the result slot of a host function.
\* saved:   registerValuesAtEntry.cpsCallback of the mvm_call that starts here.
\* operand: what an await-call returned.
\* fresh:   a host function that has not used the VM yet.
Frame(kind, c, sync, call) ==
    [kind |-> kind, closure |-> c, sync |-> sync, call |-> call,
     saved |-> IF call = "host" THEN cps ELSE Nothing,
     operand |-> Nothing, fresh |-> kind = "host"]

Top == stack[Len(stack)]
Idle == stack = << >>

JSRuns   == ~ Idle /\ Top.kind # "host" /\ Top.operand = Nothing
HostRuns == IF Idle THEN queue = << >> ELSE Top.kind = "host"

HasRoom == Len(stack) < MaxDepth /\ Len(stack) + Len(closures) < MaxSize

\* Once a host function has used the VM it may no longer call mvm_asyncStart.
Used(stk) == IF stk = << >> \/ stk[Len(stk)].kind # "host" THEN stk
             ELSE [stk EXCEPT ![Len(stk)].fresh = FALSE]

Enter(f) == stack' = Append(Used(stack), f)

\* SUB_RETURN, SUB_POP_ARGS and SUB_RETURN_TO_HOST: the top frame returns v.
ReturnValue(v) ==
    LET below == Front(stack)
    IN /\ stack' = IF Top.call = "await" THEN [below EXCEPT ![Len(below)].operand = v] ELSE below
       /\ cps' = IF Top.call = "host" THEN Top.saved ELSE Deleted

-----------------------------------------------------------------------------
(* Calls from JS code.                                                     *)

\* VM_OP2_CALL_3 and VM_OP3_AWAIT_CALL: the new value of cpsCallback.  CALL_HOST and the
\* short calls, which leave the register alone, are never emitted by the compiler.
CpsFor(call) == IF call = "await" THEN Closure(Top.closure) ELSE Undefined

\* VM_OP3_AWAIT_CALL poisons slot 0 of the caller.
Calling(call) ==
    IF call = "await" THEN [closures EXCEPT ![Top.closure].cont = Deleted] ELSE closures

JSCalls == {"normal", "void"} \cup (IF Top.kind = "async" THEN {"await"} ELSE {})

\* vm_asyncStartUnsafe: the synchronous result, the callback and the promises there are then.
AsyncStartUnsafe(cb, void) ==
    CASE cb.is = "closure" -> [sync |-> Deleted, callback |-> cb, promises |-> promises]
      [] cb.is # "closure" /\ void -> [sync |-> Deleted, callback |-> NoOp, promises |-> promises]
      [] OTHER -> LET p == Promise(Len(promises) + 1)
                  IN [sync |-> p, callback |-> p,
                      promises |-> Append(promises, [status |-> "pending", out |-> Undefined])]

\* A call of an async function up to the end of its first instruction, ASYNC_START.
CallAsync(call, cs, cb) ==
    LET s == AsyncStartUnsafe(cb, call = "void")
    IN /\ HasRoom /\ Len(closures) < MaxClosures
       /\ Len(s.promises) <= MaxPromises
       /\ closures' = Append(cs, [kind |-> "async", cont |-> Deleted, callback |-> s.callback])
       /\ promises' = s.promises
       /\ Enter(Frame("async", Len(cs) + 1, s.sync, call))
       /\ cps' = Deleted
       /\ UNCHANGED <<queue, outcome>>

JSCallsAsync ==
    JSRuns /\ \E call \in JSCalls : CallAsync(call, Calling(call), CpsFor(call))

\* A call of any other bytecode function, or of a host function.
JSCallsOther ==
    /\ JSRuns /\ HasRoom
    /\ \E call \in JSCalls, kind \in {"plain", "host"} :
        /\ closures' = Calling(call)
        /\ cps' = CpsFor(call)
        /\ Enter(Frame(kind, 0, Undefined, call))
    /\ UNCHANGED <<promises, queue, outcome>>

\* new Promise(executor).  What the executor does is done by its caller after it.
NewPromise ==
    /\ JSRuns /\ Len(promises) < MaxPromises /\ Len(closures) + 2 <= MaxClosures
    /\ LET p == Promise(Len(promises) + 1)
       IN closures' = closures \o <<[kind |-> "resolve", cont |-> Undefined, callback |-> p],
                                    [kind |-> "reject", cont |-> Undefined, callback |-> p]>>
    /\ promises' = Append(promises, [status |-> "pending", out |-> Undefined])
    /\ cps' = Deleted
    /\ UNCHANGED <<stack, queue, outcome>>

-----------------------------------------------------------------------------
(* Promises and completion.                                                *)

Job(c, o, how) == [continuation |-> c, how |-> how, result |-> Result(o)]

\* The subscribers in the slot VM_OIS_PROMISE_OUT: none, one or a list.  What
\* the code does with a result that it takes for a list is not modelled.
Subscribers(out) == IF out.is \in {"closure", "array"} THEN out.of ELSE << >>

SubscribedLast(out, c) ==      \* mutant of Subscribed: the list is made without the first one
    IF out.is = "array" THEN Array(Append(out.of, c)) ELSE Closure(c)
Subscribed(out, c) ==
    IF out.is = "undefined" THEN Closure(c) ELSE Array(Append(out.of, c))

\* mvm_subscribeToPromise.
SubscribeToPromise(p, c) ==
    IF promises[p].status = "pending"
    THEN /\ promises' = [promises EXCEPT ![p].out = Subscribed(@, c)]
         /\ UNCHANGED queue
    ELSE /\ queue' = Append(queue, [continuation |-> c, how |-> promises[p].status,
                                    result |-> promises[p].out])
         /\ UNCHANGED promises

\* The continuations that the callback of c stands for.
ToSchedule(c) ==
    LET cb == closures[c].callback
    IN IF cb.is = "promise" THEN Subscribers(promises[PromiseOf(cb)].out) ELSE cb.of

ScheduledInReverse(cs, o, how) ==    \* mutant of Scheduled
    queue \o [i \in DOMAIN cs |-> Job(Reverse(cs)[i], o, how)]
Scheduled(cs, o, how) == queue \o [i \in DOMAIN cs |-> Job(cs[i], o, how)]

StillArmed(c) == closures            \* mutant of Disarmed
Disarmed(c) == [closures EXCEPT ![c].cont = NoOp]

\* SUB_ASYNC_COMPLETE, without the return behind it.
AsyncComplete(c, how) ==
    LET cb == closures[c].callback
        o == OpOf(c)
    IN /\ queue' = Scheduled(ToSchedule(c), o, how)
       /\ promises' = IF cb.is = "promise"
                      THEN [promises EXCEPT ![PromiseOf(cb)] = [status |-> how, out |-> Result(o)]]
                      ELSE promises
       /\ closures' = Disarmed(c)
       /\ outcome' = [outcome EXCEPT ![o] = how]

\* A program does not hold the promise of a call that has not returned.
Visible(p) == \A i \in DOMAIN stack : stack[i].sync # Promise(p)
VisiblePromises == {p \in DOMAIN promises : Visible(p)}

-----------------------------------------------------------------------------
(* Await and return of an async function.                                  *)

NotSuspended(c) == closures          \* mutant of Suspended
Suspended(c) == [closures EXCEPT ![c].cont = Resume]

\* SUB_AWAIT of v: the caller gets var[0].
Await(v) ==
    /\ closures' = Suspended(Top.closure)
    /\ IF v = Deleted THEN UNCHANGED <<promises, queue>>
                      ELSE SubscribeToPromise(PromiseOf(v), Top.closure)
    /\ ReturnValue(Top.sync)
    /\ UNCHANGED outcome

AwaitPromise ==
    JSRuns /\ Top.kind = "async" /\ \E p \in VisiblePromises : Await(Promise(p))

\* Nothing comes between an await-call and its await.
AwaitCallee ==
    ~ Idle /\ Top.operand # Nothing /\ Await(Top.operand)

\* ASYNC_RETURN, or the catch block at the bottom of every async function.
Complete(how) ==
    /\ JSRuns /\ Top.kind = "async"
    /\ AsyncComplete(Top.closure, how)
    /\ ReturnValue(Top.sync)

\* What a function that does not complete asynchronously returns: an await needs a promise.
Results(call) ==
    IF call = "await" THEN {Promise(p) : p \in VisiblePromises} ELSE {Undefined}

PlainReturns ==
    /\ JSRuns /\ Top.kind = "plain"
    /\ \E v \in Results(Top.call) : ReturnValue(v)
    /\ UNCHANGED <<closures, promises, queue, outcome>>

\* SUB_THROW to an async function below, where user code or the catch block at
\* the bottom goes on.  One that leaves mvm_call is the subject of CallMachine.
\* The host returns promptly after mvm_asyncStart (microvium.h, line 440): it does not throw.
Throw ==
    /\ ~ Idle /\ Top.kind \in {"plain", "host"} /\ Top.sync = Undefined
    /\ \E i \in DOMAIN stack :
        /\ stack[i].kind = "async"
        /\ \A j \in i + 1 .. Len(stack) : stack[j].kind # "async" /\ stack[j].call # "host"
        /\ stack' = SubSeq(stack, 1, i)
    /\ UNCHANGED <<closures, promises, cps, queue, outcome>>

-----------------------------------------------------------------------------
(* The job loop: asyncContinue calls the continuation, whose first         *)
(* instruction is ASYNC_RESUME.                                            *)

RunJob ==
    /\ Idle /\ queue # << >>
    /\ LET c == Head(queue).continuation
       IN /\ closures[c].cont = Resume
          /\ closures' = [closures EXCEPT ![c].cont = Deleted]
          /\ stack' = <<Frame("async", c, Undefined, "job")>>
    /\ queue' = Tail(queue)
    /\ cps' = Undefined
    /\ UNCHANGED <<promises, outcome>>

-----------------------------------------------------------------------------
(* The host: functions that JS called, and calls of mvm_call.              *)

HostCalls ==
    /\ HostRuns
    /\ \/ CallAsync("host", closures, Undefined)
       \/ /\ HasRoom
          /\ \E kind \in {"plain", "host"} : Enter(Frame(kind, 0, Undefined, "host"))
          /\ cps' = Undefined
          /\ UNCHANGED <<closures, promises, queue, outcome>>

\* mvm_asyncStart, before the host function does anything else.
HostAsyncStart ==
    /\ ~ Idle /\ Top.kind = "host" /\ Top.fresh
    /\ LET s == AsyncStartUnsafe(cps, Top.call = "void")
       IN /\ Len(s.promises) <= MaxPromises
          /\ promises' = s.promises
          /\ stack' = [Used(stack) EXCEPT ![Len(stack)].sync = s.sync]
          /\ IF s.callback = NoOp
             THEN UNCHANGED closures
             ELSE /\ Len(closures) < MaxClosures
                  /\ closures' = Append(closures, [kind |-> "host", cont |-> Undefined,
                                                   callback |-> s.callback])
    /\ cps' = Deleted
    /\ UNCHANGED <<queue, outcome>>

HostReturns ==
    /\ ~ Idle /\ Top.kind = "host"
    /\ \E v \in IF Top.sync = Undefined THEN Results(Top.call) ELSE {Top.sync} : ReturnValue(v)
    /\ UNCHANGED <<closures, promises, queue, outcome>>

\* What SUB_EXIT finds of a value that it saved on entry, if a collection came between.
Restored(v) == {v} \cup (IF v.is = "closure" THEN {Stale} ELSE {})

\* A call of a callback of mvm_asyncStart (by the host), or of resolve or
\* reject.  It completes an operation the first time, later it does nothing.
Completers(c) ==
    CASE closures[c].kind = "host" -> IF HostRuns THEN {"resolved", "rejected"} ELSE {}
      [] closures[c].kind = "resolve" -> {"resolved"}
      [] closures[c].kind = "reject" -> {"rejected"}
      [] OTHER -> {}

Settle(c, how) ==
    /\ HostRuns \/ JSRuns
    /\ IF closures[c].cont = NoOp
       THEN UNCHANGED <<closures, promises, queue, outcome>>
       ELSE AsyncComplete(c, how)
    /\ cps' \in IF HostRuns THEN Restored(cps) ELSE {Deleted}
    /\ stack' = Used(stack)

\* A collection, before any allocation: it moves every object and updates its
\* roots, but not the C variables of mvm_call.  With a stale root the effect
\* is not defined, and the model ends.
Collect ==
    /\ ~ Idle /\ cps # Stale
    /\ stack' = [i \in DOMAIN stack |->
                    IF stack[i].saved.is = "closure" THEN [stack[i] EXCEPT !.saved = Stale]
                                                     ELSE stack[i]]
    /\ UNCHANGED <<closures, promises, cps, queue, outcome>>

-----------------------------------------------------------------------------

Init ==
    /\ closures = << >> /\ promises = << >> /\ stack = << >> /\ queue = << >>
    /\ cps = Deleted
    /\ outcome = [o \in Op |-> "none"]

Next ==
    \/ JSCallsAsync \/ JSCallsOther \/ NewPromise
    \/ AwaitPromise \/ AwaitCallee
    \/ \E how \in {"resolved", "rejected"} : Complete(how)
    \/ PlainReturns \/ Throw
    \/ RunJob
    \/ HostCalls \/ HostAsyncStart \/ HostReturns
    \/ \E c \in DOMAIN closures : \E how \in Completers(c) : Settle(c, how)
    \/ Collect

Spec == Init /\ [][Next]_vars
-----------------------------------------------------------------------------
(* Properties.                                                             *)

Values ==
    {Undefined, Deleted, NoOp, Stale, Nothing}
    \cup {Closure(c) : c \in DOMAIN closures} \cup {Promise(p) : p \in DOMAIN promises}

IsAsync(c) == c \in DOMAIN closures /\ closures[c].kind = "async"

\* Every reference leads to an object of the right kind; in particular only
\* async functions subscribe, and a list of subscribers has at least two.
TypeOK ==
    /\ \A c \in DOMAIN closures :
        /\ closures[c].kind \in {"async", "host", "resolve", "reject"}
        /\ closures[c].cont.is \in
            (IF closures[c].kind = "async" THEN {"deleted", "resume", "noop"} ELSE {"undefined", "noop"})
        /\ LET cb == closures[c].callback
           IN \/ cb = NoOp
              \/ cb.is = "promise" /\ PromiseOf(cb) \in DOMAIN promises
              \/ cb.is = "closure" /\ IsAsync(cb.of[1])
    /\ \A p \in DOMAIN promises :
        LET out == promises[p].out
        IN IF promises[p].status = "pending"
           THEN \/ out = Undefined
                \/ out.is = "closure" /\ IsAsync(out.of[1])
                \/ out.is = "array" /\ Len(out.of) > 1 /\ \A i \in DOMAIN out.of : IsAsync(out.of[i])
           ELSE promises[p].status \in {"resolved", "rejected"} /\ out.is = "result"
    /\ \A i \in DOMAIN stack :
        /\ stack[i].kind \in {"plain", "async", "host"}
        /\ stack[i].kind = "async" => IsAsync(stack[i].closure)
        /\ {stack[i].sync, stack[i].saved, stack[i].operand} \subseteq Values
    /\ cps \in Values
    /\ \A i \in DOMAIN queue : IsAsync(queue[i].continuation)
    /\ outcome \in [Op -> {"none", "resolved", "rejected"}]

OnStack(c) == \E i \in DOMAIN stack : stack[i].kind = "async" /\ stack[i].closure = c

IsSuspended(c) == IsAsync(c) /\ closures[c].cont # NoOp /\ ~ OnStack(c)

\* The places that will wake c up: jobs, subscriptions, callbacks of what is not complete.
WakersOf(c) ==
    {<<"job", i>> : i \in {j \in DOMAIN queue : queue[j].continuation = c}}
    \cup {<<"callback", d>> : d \in {e \in DOMAIN closures :
                                        closures[e].callback = Closure(c) /\ closures[e].cont # NoOp}}
    \cup UNION {{<<"promise", p, i>> : i \in {j \in DOMAIN Subscribers(promises[p].out) :
                                                Subscribers(promises[p].out)[j] = c}}
                : p \in DOMAIN promises}

\* A suspended function is woken up by exactly one place, one that runs by at
\* most one and one that is complete by none: no wake-up is lost or doubled in
\* SUB_AWAIT, mvm_subscribeToPromise and SUB_ASYNC_COMPLETE.
ExactlyOneWakeUp ==
    \A c \in DOMAIN closures : closures[c].kind = "async" =>
        LET n == Cardinality(WakersOf(c))
        IN CASE IsSuspended(c) -> n = 1
             [] closures[c].cont = NoOp -> n = 0
             [] OTHER -> n <= 1

\* Whenever the job loop runs, the continuation of every job is a resume point:
\* neither the poison of AWAIT_CALL nor a function that is complete is called.
ContinuationsAreArmed ==
    Idle => \A i \in DOMAIN queue : closures[queue[i].continuation].cont = Resume

\* SUB_ASYNC_COMPLETE, line 2381: a promise leaves the pending state only once.
PromiseSettledOnce ==
    [][\A p \in DOMAIN promises : promises[p].status # "pending" => promises'[p] = promises[p]]_vars

\* Whatever the program does with resolve and reject, and whoever else completes what and
\* when: a settled promise changes only when one of its two functions runs for the first
\* time after the other one settled it.
RunsAfterTwin(c, d, p) ==
    /\ {closures[c].kind, closures[d].kind} = {"resolve", "reject"}
    /\ closures[c].callback = Promise(p) /\ closures[d].callback = Promise(p)
    /\ closures[d].cont = NoOp
    /\ closures[c].cont # NoOp /\ closures'[c].cont = NoOp
OnlyTwinSettlesAgain ==
    [][\A p \in DOMAIN promises :
        promises[p].status # "pending" /\ promises'[p] # promises[p] =>
            \E c, d \in DOMAIN closures : RunsAfterTwin(c, d, p)]_vars

\* SUB_POP_ARGS, line 2506: after a call, the register does not hold what it held
\* before; it never holds a pointer that a collection has made stale.
NoStaleCallback == cps # Stale

-----------------------------------------------------------------------------
(* The refinement of AsyncOps.                                             *)

PhaseOf(o) ==
    CASE o \notin DOMAIN closures -> "none"
      [] o \in DOMAIN closures /\ closures[o].kind = "reject" -> "none"
      [] OTHER -> IF outcome[o] # "none" THEN "done"
                  ELSE IF IsSuspended(o) THEN "suspended" ELSE "running"

\* A promise of the program that resolve or reject has still to settle.
IsOpen(o) ==
    /\ o \in DOMAIN closures /\ closures[o].kind = "resolve"
    /\ \E d \in DOMAIN closures : OpOf(d) = o /\ closures[d].cont # NoOp
OpenPromises == {o \in Op : IsOpen(o)}

Operations == INSTANCE AsyncOps WITH
    Ops <- Op,
    phase <- [o \in Op |-> PhaseOf(o)],
    waiters <- [o \in Op |-> IF PhaseOf(o) \in {"running", "suspended"} THEN ToSchedule(o) ELSE << >>],
    open <- OpenPromises,
    ready <- [i \in DOMAIN queue |-> [op |-> queue[i].continuation, from |-> queue[i].result.of[1],
                                      how |-> queue[i].how]]

\* Promises, callbacks and continuations do what AsyncOps promises: an operation
\* completes once, or twice if the program settles its promise twice, and every
\* function that awaits it goes on once, from the queue, in order, with the outcome
\* that the operation had then.
ImplementsAsyncOps == Operations!Spec
=============================================================================
