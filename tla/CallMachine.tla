---------------------------- MODULE CallMachine ----------------------------
(***************************************************************************)
(* Calls, exceptions and the entry and exit of mvm_call in microvium.c.    *)
(*                                                                         *)
(* All JS frames, catch targets and arguments of a VM share one array of   *)
(* words.  A frame boundary holds what the caller had in its registers, a  *)
(* catch target is two words linked to the next outer one by a relative    *)
(* offset, and host functions run inside the frame of their caller.  The   *)
(* host may call back into the VM: every running mvm_call is a C           *)
(* activation that restores, on any exit, the registers it found on entry. *)
(* When the outermost call returns it first runs the jobs of the queue.    *)
(*                                                                         *)
(* A word is <<tag, content>>; positions in the stack count from 1 and a   *)
(* pointer to no word is 0.  The stack pointer is the length of stack.     *)
(***************************************************************************)
EXTENDS Integers, Sequences, FiniteSets, FiniteSetsExt, SequencesExt

CONSTANTS
    Functions,      \* bytecode functions; as a pc, the code of the function
    Closures,       \* those that are called through a closure of the same name
    JobFunction,    \* the closure that every job is
    Handlers,       \* landing pads of catch targets
    HandlersOf,     \* the landing pads in the code of each function
    NoCode,         \* the pc of the host, "essentially treated as a null value"
    ArgCounts,      \* numbers of arguments of a JS call, with `this`
    HostArgCounts,  \* numbers of arguments that the host passes
    MaxArgCount,    \* AF_ARG_COUNT_MASK - 1
    ThisHosts,      \* the depths at which the host uses mvm_callEx
    StackWords,     \* MVM_STACK_SIZE / 2
    FrameWords,     \* the stack height in the header of each function
    MaxJobs,        \* bound: jobs in the queue
    MaxCalls        \* bound: running activations of mvm_call

ASSUME JobFunctionAssumption == JobFunction \in Closures /\ Closures \subseteq Functions
ASSUME HandlersAssumption ==
    /\ HandlersOf \in [Functions -> SUBSET Handlers]
    /\ \A f, g \in Functions : f # g => HandlersOf[f] \cap HandlersOf[g] = {}
    /\ Functions \cap Handlers = {}
ASSUME TargetsAssumption == Functions \cap {"host", "noop", "uncallable"} = {}
ASSUME StackAssumption == StackWords \in Nat /\ FrameWords \in [Functions -> Nat]
ASSUME CountsAssumption ==
    ArgCounts \cup HostArgCounts \cup {MaxArgCount, MaxJobs, MaxCalls} \subseteq Nat

VARIABLES
    allocated,  \* whether vm->stack exists
    stack,      \* the words below the stack pointer
    reg,        \* the registers
    calls,      \* the running activations of mvm_call, outermost first
    mode,       \* who executes: "host" or "js"
    outcome     \* how the last outermost activation ended, until the VM runs again

vars == <<allocated, stack, reg, calls, mode, outcome>>

-----------------------------------------------------------------------------
(* Registers and words.                                                    *)

NoFlags == [argc |-> 0, pushed |-> FALSE, void |-> FALSE, fromHost |-> FALSE,
            override |-> FALSE]

FreshRegisters ==
    [fb |-> 0, pc |-> NoCode, flags |-> NoFlags, closure |-> "undefined",
     catch |-> 0, queue |-> 0]

\* What an activation keeps in locals while a host function runs: nothing.
NotInHost == [flags |-> NoFlags, savedFlags |-> NoFlags, regCopy |-> FreshRegisters, sp |-> 0]

NotReturned == [err |-> "none", value |-> "none"]

Val == <<"value", 0>>
Values(n) == [i \in 1 .. n |-> Val]

ScopeOf(f) == IF f \in Closures THEN f ELSE "undefined"

TopCall == calls[Len(calls)]
SetTop(cs, a) == [cs EXCEPT ![Len(cs)] = a]

BoundaryWords == 4   \* VM_FRAME_BOUNDARY_SAVE_SIZE_WORDS

SlackForResult == 1   \* mutant of Temporaries: the slot for the result of a host function
Temporaries    == 5   \* the slack of SUB_CALL_BYTECODE_FUNC

\* PUSH_REGISTERS, and what POP_REGISTERS finds under the frame that starts after b words.
Boundary(stk, r) ==
    <<<<"size", Len(stk) - r.fb>>, <<"closure", r.closure>>,
      <<"flags", r.flags>>, <<"pc", r.pc>>>>

CallerBase(stk, b) == b - BoundaryWords - stk[b - 3][2]

Restored(stk, r, b) ==
    [r EXCEPT !.fb = CallerBase(stk, b), !.closure = stk[b - 2][2],
              !.flags = stk[b - 1][2], !.pc = stk[b][2]]

\* Mutant of OuterCatch: the register is cleared.
OuterCatchCleared(stk, c) == 0

\* UNWIND_CATCH_TARGET: the catch target outside the one at position c.
OuterCatch(stk, c) == IF stk[c][2] = 0 THEN 0 ELSE c + stk[c][2]

HasSpace(stk, words) == Len(stk) + words <= StackWords

-----------------------------------------------------------------------------
(* The subroutines of mvm_call.  Each gives the whole next state from the  *)
(* stack, the registers and the activations that its caller hands over.    *)

Running(who, stk, r, cs) ==
    /\ allocated' = TRUE
    /\ stack' = stk
    /\ reg' = r
    /\ calls' = cs
    /\ mode' = who
    /\ outcome' = NotReturned

\* Mutant of AtExit: the catch target of the code that failed stays.
AtExitCatchStays(entry, r) ==
    [entry EXCEPT !.queue = r.queue, !.closure = r.closure, !.catch = r.catch]

\* Mutant of AtExit: the caller of the activation has no catch target any more.
AtExitCatchCleared(entry, r) ==
    [entry EXCEPT !.queue = r.queue, !.closure = r.closure, !.catch = 0]

AtExit(entry, r) == [entry EXCEPT !.queue = r.queue, !.closure = r.closure]

\* The activation returns err: the registers are as they were on entry, except for the
\* queue and the closure, and a stack that is empty again is freed.
SubExit(stk, r, cs, err) ==
    LET a == cs[Len(cs)]
        empty == a.sp = 0
    IN  /\ stack' = SubSeq(stk, 1, a.sp)
        /\ reg' = IF empty THEN FreshRegisters
                  ELSE AtExit(a.entry, r)
        /\ allocated' = ~empty
        /\ calls' = Front(cs)
        /\ mode' = "host"
        /\ outcome' = IF empty THEN [err |-> err, value |-> a.out] ELSE NotReturned

SubCallBytecode(stk, r, cs, flags, f) ==
    IF ~HasSpace(stk, FrameWords[f] + BoundaryWords + Temporaries)
    THEN SubExit(stk, r, cs, "error")
    ELSE Running("js", stk \o Boundary(stk, r),
                 [r EXCEPT !.fb = Len(stk) + BoundaryWords, !.pc = f,
                           !.flags = flags, !.closure = ScopeOf(f)],
                 cs)

\* Mutant of JobIsDue: jobs run at the end of a nested call too.
JobIsDueAnywhere(stk, r) == r.queue > 0

JobIsDue(stk, r) == r.queue > 0 /\ stk = << >>

\* What the activation a stores through out_result, unless a job runs: then it is NULL.
Given(a, v) == IF a.asked THEN [a EXCEPT !.out = v] ELSE a

\* The result is given to the host, and the next job runs if nothing is on the stack.
SubReturnToHost(stk, r, cs) ==
    LET a == Given(cs[Len(cs)], "result")
    IN  IF JobIsDue(stk, r)
        THEN SubCallBytecode(stk, [r EXCEPT !.queue = @ - 1],
                 SetTop(cs, [a EXCEPT !.asked = FALSE]),
                 [NoFlags EXCEPT !.fromHost = TRUE], JobFunction)
        ELSE SubExit(stk, r, SetTop(cs, a), "success")

\* Mutant of Operands: the function reference is left on the stack.
OperandsWithoutFunction(flags) == flags.argc

Operands(flags) == flags.argc + (IF flags.pushed THEN 1 ELSE 0)

SubPopArgs(stk, r, cs, flags) ==
    LET rest == SubSeq(stk, 1, Len(stk) - Operands(flags))
    IN  IF flags.fromHost THEN SubReturnToHost(rest, r, cs)
        ELSE Running("js", IF flags.void THEN rest ELSE Append(rest, Val), r, cs)

\* Host functions run in the frame of the caller, on top of a slot for their result.
\* regCopy is what the engine, in safe mode, expects to find when they return.
SubCallHost(stk, r, cs, flags) ==
    LET inHost == [r EXCEPT !.flags = flags]
    IN  Running("host", Append(stk, Val), inHost,
            SetTop(cs, [cs[Len(cs)] EXCEPT !.host =
                [flags |-> flags, savedFlags |-> r.flags, regCopy |-> inHost, sp |-> Len(stk) + 1]]))

SubCall(stk, r, cs, flags, target) ==
    CASE target \in Functions  -> SubCallBytecode(stk, r, cs, flags, target)
      [] target = "host"       -> SubCallHost(stk, r, cs, flags)
      [] target = "noop"       -> SubPopArgs(stk, r, cs, flags)
      [] target = "uncallable" -> SubExit(stk, r, cs, "error")

Targets == Functions \cup {"host", "noop", "uncallable"}

\* The outermost of the frames to pop so that the frame in use starts before the
\* catch target c: the while loop of SUB_THROW.
OutermostPopped(stk, c) ==
    LET popped[b \in Nat] ==
            IF CallerBase(stk, b) \in c .. b - 1 THEN popped[CallerBase(stk, b)] ELSE b
    IN  popped

SubThrow(stk, r, cs) ==
    LET c == r.catch
        r1 == IF r.fb >= c THEN Restored(stk, r, OutermostPopped(stk, c)[r.fb]) ELSE r
    IN  IF c = 0
        THEN SubExit(stk, r, SetTop(cs, Given(cs[Len(cs)], "exception")), "uncaught")
        ELSE Running("js", Append(SubSeq(stk, 1, c - 1), Val),
                 [r1 EXCEPT !.catch = OuterCatch(stk, c), !.pc = stk[c + 1][2]], cs)

-----------------------------------------------------------------------------
(* The host.  mvm_call and mvm_callEx begin with the registers as they are *)
(* or with a new stack.                                                    *)

CurrentRegisters == IF allocated THEN reg ELSE FreshRegisters

\* mvm_callEx leaves `this` above the stack pointer and a flag for mvm_call.
WithThis(ex, r) == IF ex THEN [r EXCEPT !.flags.override = TRUE] ELSE r

HostMayPass(n) ==
    /\ mode = "host" /\ Len(calls) < MaxCalls
    /\ n \in HostArgCounts

\* Mutant of SetUp: the catch target of the host function's caller stays in force.
SetUpWithCatch(entry) == [entry EXCEPT !.flags.override = FALSE]

\* The registers that mvm_call sets up: exceptions register as host errors.
SetUp(entry) == [entry EXCEPT !.catch = 0, !.flags.override = FALSE]

\* The C activation of an mvm_call with the registers r on entry.
Activation(r) ==
    [entry |-> r, sp |-> Len(stack), asked |-> TRUE, out |-> "unset",
     host |-> NotInHost]

HostCalls(ex, target, n) ==
    LET entry  == WithThis(ex, CurrentRegisters)
        r      == SetUp(entry)
        called == Append(calls, Activation(entry))
        flags  == [NoFlags EXCEPT !.argc = n + 1, !.pushed = TRUE, !.fromHost = TRUE]
    IN  /\ HostMayPass(n) /\ n <= MaxArgCount
        /\ ex => Len(calls) \in ThisHosts /\ HasSpace(stack, n + 2)
        /\ IF HasSpace(stack, n + 2)
           THEN SubCall(stack \o Values(n + 2), r, called, flags, target)
           ELSE SubExit(stack, r, called, "error")

\* The early return of mvm_call: nothing that it set up is undone.  A host function that
\* passes too many arguments loses the catch target of its caller.
HostPassesTooMany(ex, n) ==
    /\ HostMayPass(n) /\ n > MaxArgCount
    /\ ex => Len(calls) \in ThisHosts /\ HasSpace(stack, n + 2)
    /\ reg' = [WithThis(ex, CurrentRegisters) EXCEPT !.catch = 0]
    /\ allocated' = TRUE
    /\ UNCHANGED <<stack, calls, mode, outcome>>

\* The early return of mvm_callEx.
HostCallsExWithoutSpace(n) ==
    /\ mode = "host" /\ Len(calls) \in ThisHosts
    /\ ~HasSpace(stack, n + 2)
    /\ reg' = CurrentRegisters
    /\ allocated' = TRUE
    /\ UNCHANGED <<stack, calls, mode, outcome>>

InHostFunction == mode = "host" /\ calls # << >>

\* The catch register while the host function that calls[k] runs is the innermost one, or
\* when it will be again, and whether it lost the catch target of its caller.
CatchRegister(k) == IF k = Len(calls) THEN reg.catch ELSE calls[k + 1].entry.catch
HasHost(k)       == k \in DOMAIN calls /\ (k < Len(calls) \/ mode # "js")
CatchIsLost(k)   == HasHost(k) /\ CatchRegister(k) # calls[k].host.regCopy.catch

\* The host function that the innermost activation called returns.  If the catch target is
\* lost, a safe build stops at the assertion that compares the registers; any other build
\* goes on until END_TRY pops the null pointer that the target has become: undefined.
HostIsDone == InHostFunction /\ ~CatchIsLost(Len(calls))

BackFromHost == [reg EXCEPT !.flags = TopCall.host.savedFlags]
Resumed == SetTop(calls, [TopCall EXCEPT !.host = NotInHost])

HostReturns == HostIsDone /\ SubPopArgs(Front(stack), BackFromHost, Resumed, TopCall.host.flags)
HostThrows  == HostIsDone /\ SubThrow(stack, BackFromHost, Resumed)
HostFails   == HostIsDone /\ SubExit(stack, BackFromHost, Resumed, "error")

-----------------------------------------------------------------------------
(* Instructions.  The compiler computes FrameWords, closes the try blocks  *)
(* that a return leaves, and pushes the operands of a call just before it. *)

\* The function whose code the pc is in.
FunctionOf(pc) == CHOOSE f \in Functions : pc = f \/ pc \in HandlersOf[f]

FrameHasRoom(words) == Len(stack) - reg.fb + words <= FrameWords[FunctionOf(reg.pc)]

StartTry(h) ==
    LET c == Len(stack) + 1
        offset == IF reg.catch = 0 THEN 0 ELSE reg.catch - c
    IN  /\ mode = "js" /\ FrameHasRoom(2) /\ h \in HandlersOf[FunctionOf(reg.pc)]
        /\ Running("js", stack \o <<<<"catch", offset>>, <<"handler", h>>>>,
               [reg EXCEPT !.catch = c], calls)

TryIsOpen == reg.catch > reg.fb

EndTry ==
    /\ mode = "js" /\ TryIsOpen
    /\ Running("js", SubSeq(stack, 1, reg.catch - 1),
           [reg EXCEPT !.catch = OuterCatch(stack, reg.catch)], calls)

\* CALL_3 and AWAIT_CALL push the function, and CALL_3 can be void; CALL_HOST names the
\* host function in the instruction.
JSCalls(kind, target, n) ==
    LET static == kind = "static"
        flags == [NoFlags EXCEPT !.argc = n, !.pushed = ~static, !.void = (kind = "void")]
        operands == IF static THEN n ELSE n + 1
    IN  /\ mode = "js" /\ FrameHasRoom(operands)
        /\ static => target = "host"
        /\ SubCall(stack \o Values(operands), reg, calls, flags, target)

Return ==
    /\ mode = "js" /\ ~TryIsOpen
    /\ SubPopArgs(SubSeq(stack, 1, reg.fb - BoundaryWords), Restored(stack, reg, reg.fb),
                  calls, reg.flags)

Throw == mode = "js" /\ SubThrow(stack, reg, calls)

\* An instruction fails with a host error, or the instruction count is reached.
Fail == mode = "js" /\ SubExit(stack, reg, calls, "error")

\* JS code or a host function makes a job ready (JobQueue.tla has the queue itself).
EnqueueJob ==
    /\ calls # << >> /\ reg.queue < MaxJobs
    /\ Running(mode, stack, [reg EXCEPT !.queue = @ + 1], calls)

-----------------------------------------------------------------------------
Init ==
    /\ allocated = FALSE
    /\ stack = << >>
    /\ reg = FreshRegisters
    /\ calls = << >>
    /\ mode = "host"
    /\ outcome = NotReturned

Next ==
    \/ \E ex \in BOOLEAN, t \in Targets, n \in HostArgCounts : HostCalls(ex, t, n)
    \/ \E ex \in BOOLEAN, n \in HostArgCounts : HostPassesTooMany(ex, n)
    \/ \E n \in HostArgCounts : HostCallsExWithoutSpace(n)
    \/ HostReturns
    \/ HostThrows
    \/ HostFails
    \/ \E h \in Handlers : StartTry(h)
    \/ EndTry
    \/ \E k \in {"normal", "void", "static"}, t \in Targets, n \in ArgCounts :
           JSCalls(k, t, n)
    \/ Return
    \/ Throw
    \/ Fail
    \/ EnqueueJob

Spec == Init /\ [][Next]_vars

-----------------------------------------------------------------------------
(* Properties.                                                             *)

AllFlags == [argc : Nat, pushed : BOOLEAN, void : BOOLEAN, fromHost : BOOLEAN, override : BOOLEAN]
Code     == Functions \cup Handlers \cup {NoCode}
Scopes   == Closures \cup {"undefined"}

\* What a word of each tag can hold.
Content ==
    [value |-> {0}, size |-> 0 .. StackWords, closure |-> Scopes, flags |-> AllFlags, pc |-> Code,
     catch |-> (-StackWords) .. 0, handler |-> Handlers]

\* Type invariant of the stack, the registers and the activations.
TypeOK ==
    /\ \A i \in DOMAIN stack : stack[i][2] \in Content[stack[i][1]]
    /\ reg.fb \in 0 .. Len(stack) /\ reg.catch \in 0 .. Len(stack)
    /\ reg.pc \in Code /\ reg.closure \in Scopes /\ reg.flags \in AllFlags
    /\ reg.queue \in 0 .. MaxJobs
    /\ mode \in {"host", "js"} /\ (mode = "js" => calls # << >>)
    /\ allocated \/ stack = << >>
    /\ \A i \in DOMAIN calls : calls[i].sp \in 0 .. Len(stack)
    /\ outcome.err \in {"none", "success", "uncaught", "error"}

\* The words of the stack that are in use, or that the next vm_push of the engine may put in
\* use, without a check of its own.  In JS code at any height an instruction anchors one value
\* (SUB_NEW, vm_enqueueJob, vm_newArray).  SUB_AWAIT and SUB_ASYNC_COMPLETE cut the stack of
\* an async function to the slot of its result and anchor up to four: three and a new array
\* in mvm_subscribeToPromise, or two and those of vm_scheduleContinuation.  No async function
\* needs fewer words than ASYNC_START pushes.  A host function uses mvm_asyncStart: one.
AsyncStartWords == 3
AwaitWords      == 1 + 4
MayAwait(f)     == FrameWords[f] >= AsyncStartWords
WordsInUse ==
    IF mode = "js" /\ MayAwait(FunctionOf(reg.pc))
    THEN Max({Len(stack) + 1, reg.fb + AwaitWords})
    ELSE Len(stack) + 1

\* JS code and the host functions it calls never pass the end of the stack, although the
\* result slot and the anchors are pushed without a check: "The +5 is for various temporaries
\* that `mvm_call` pushes to the stack, and the result slot if we call the host".
NoStackOverflowInJS ==
    mode = "js" \/ (InHostFunction /\ ~TopCall.host.flags.fromHost) => WordsInUse <= StackWords

\* What that comment says of every host function, those that mvm_call calls directly, too:
\* the checks of the stack space cover each word.
NoStackOverflow == Len(stack) <= StackWords

\* The catch targets that are linked from a catch register are exactly the ones on the
\* stack, unless a host function lost some, and the register of an activation reaches none
\* from before its mvm_call: no return, throw or EndTry leaves one behind or skips one.
CatchTargets ==
    LET from[c \in Nat] ==
            IF c = 0 THEN {}
            ELSE {c} \cup (IF OuterCatch(stack, c) \in 0 .. c - 1 THEN from[OuterCatch(stack, c)] ELSE {})
    IN  from
HandlerPositions ==
    CatchTargets[reg.catch] \cup UNION {CatchTargets[calls[k].entry.catch] : k \in DOMAIN calls}
CatchChainIsExact ==
    /\ \/ HandlerPositions = {p \in DOMAIN stack : stack[p][1] = "catch"}
       \/ \E k \in DOMAIN calls : CatchIsLost(k)
    /\ \A p \in HandlerPositions : OuterCatch(stack, p) \in 0 .. p - 1
    /\ mode = "js" => \A p \in CatchTargets[reg.catch] : p > TopCall.sp

\* While a host function runs, whatever calls it makes into the VM and however they end,
\* the stack pointer, the frame and the code of its caller are in place, and the catch target
\* is, or is none at all.  The flag that mvm_callEx leaves and the closure register may
\* differ: HostLeavesRegisters compares them, too.
HostKeepsFrame ==
    InHostFunction =>
        LET copy == TopCall.host.regCopy
        IN  /\ Len(stack) = TopCall.host.sp
            /\ reg.fb = copy.fb /\ reg.pc = copy.pc /\ reg.catch \in {copy.catch, 0}
            /\ [reg.flags EXCEPT !.override = FALSE] = copy.flags

\* The only mvm_call that costs a host function the catch target of its caller, now or once
\* the activations above it have ended, is one that returns before it runs anything: each
\* that ends with a result, an exception or an error puts the register back.
CatchLostByEarlyReturn ==
    [][\A k \in DOMAIN calls' :
          CatchIsLost(k)' /\ ~CatchIsLost(k) => UNCHANGED <<stack, calls, mode>>]_vars

\* Code that an mvm_call runs never changes a word that was on the stack before: an
\* exception or a return stays within the frames of its own activation.
OnlyOwnFrames ==
    [][calls # << >> /\ allocated' =>
          /\ Len(stack') >= TopCall.sp
          /\ SubSeq(stack', 1, TopCall.sp) = SubSeq(stack, 1, TopCall.sp)]_vars

\* A job starts only when no other JS code or host function is active.
JobsOnlyWhenIdle ==
    [][allocated' /\ reg'.queue < reg.queue =>
          /\ Len(calls) = 1 /\ Len(calls') = 1
          /\ mode' = "js" /\ Len(stack') = BoundaryWords]_vars

\* An outermost mvm_call that succeeds has run every job: the stack is balanced after
\* each function whatever was called in it, or the queue would be left alone.
DrainedOnSuccess ==
    [][calls' = << >> /\ outcome'.err = "success" => reg.queue = 0]_vars

\* The control state that the words stand for, from the bottom of the stack up: a boundary
\* starts the frame of a function, a catch target is a try block, and under the words of an
\* activation is the host function that waits for it.
Item(kind, at) == [kind |-> kind, at |-> at]
Host == Item("host", NoCode)

\* The code of the frame above b words: it is in the next boundary, or in the register.
CodeOf(stk, pc, b) ==
    IF \E p \in b + 1 .. Len(stk) : stk[p][1] = "pc"
    THEN stk[CHOOSE p \in b + 1 .. Len(stk) :
                 stk[p][1] = "pc" /\ \A q \in b + 1 .. p - 1 : stk[q][1] # "pc"][2]
    ELSE pc

ControlOf(stk, pc, cs) ==
    LET upTo[p \in 0 .. Len(stk)] ==
            IF p = 0 THEN IF cs = << >> THEN << >> ELSE <<Host>>
            ELSE IF stk[p][1] = "pc" THEN Append(upTo[p - 1], Item("js", CodeOf(stk, pc, p)))
            ELSE IF stk[p][1] = "catch" THEN Append(upTo[p - 1], Item("try", stk[p + 1][2]))
            ELSE IF \E k \in DOMAIN cs : cs[k].sp = p THEN Append(upTo[p - 1], Host)
            ELSE upTo[p - 1]
    IN  upTo[Len(stk)]

Control ==
    LET waiting == ControlOf(stack, reg.pc, calls)
    IN  IF mode = "host" THEN Append(waiting, Host) ELSE waiting

\* The words, the offsets and the saved registers implement structured control flow:
\* every return resumes the right caller and every exception the right handler.
Structured == INSTANCE CallSpec WITH Code <- Functions, HostCode <- NoCode, control <- Control
ImplementsCalls == Structured!Spec

\* "The host function should leave the VM registers in the same state": the registers
\* that the assertion in SUB_CALL_HOST_COMMON compares when a host function returns.
HostLeavesRegisters ==
    InHostFunction =>
        [reg EXCEPT !.queue = 0] = [TopCall.host.regCopy EXCEPT !.queue = 0]

\* "Except the job queue needs to be preserved": a job leaves the queue only to run.
JobsNotLost ==
    [][reg'.queue < reg.queue => mode' = "js" /\ reg'.queue = reg.queue - 1]_vars

\* "If the JS code throws an exception, the return value will be
\* MVM_E_UNCAUGHT_EXCEPTION and the exception value will be put into out_result".
UncaughtGivesException == outcome.err = "uncaught" => outcome.value = "exception"
=============================================================================
