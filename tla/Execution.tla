------------------------------ MODULE Execution ------------------------------
(***************************************************************************)
(* A compiled function as the virtual machine runs it, one instruction at  *)
(* a time (src/lib/virtual-machine.ts), next to what the program means.    *)
(*                                                                         *)
(* There is one frame, the function's.  What it calls is the world, which  *)
(* returns or throws; a catch target is the place on the stack where the   *)
(* handler's record starts, and records are chained by the distance to the *)
(* one before.  An async function keeps its stack in a closure while it is *)
(* suspended; the world resumes it with a value or an error.               *)
(***************************************************************************)
EXTENDS Codegen

CONSTANTS Programs,    \* a set of functions, each [body, isAsync]
          MaxEffects   \* effects that a run is followed for

ASSUME MaxEffectsAssumption == MaxEffects \in Nat

VARIABLES program,      \* the function that runs
          compiled,     \* what the compiler made of it
          block, index, \* the next instruction
          stack,        \* the variables of the frame
          catchTarget,  \* the innermost handler
          caller,       \* the handler around the call of the function
          closure,      \* the slots of a suspended function after the first two
          effects,      \* what happened, each with its outcome
          status,       \* running, suspended, returned, thrown or TDZ
          result        \* what the function returned or threw
vars == <<program, compiled, block, index, stack, catchTarget, caller, closure, effects, status,
          result>>

\* No handler at all, and one in a frame further down.
NoCatch == -100
CallersCatch == -2

Op == compiled.code[block].ops[index]
Effects == DOMAIN Outcomes

-----------------------------------------------------------------------------
Init ==
    /\ program \in Programs
    /\ compiled = CompileFunction(program)
    /\ block = 1
    /\ index = 1
    /\ stack = <<>>
    /\ caller \in {NoCatch, CallersCatch}
    /\ catchTarget = caller
    /\ closure = <<>>
    /\ effects = <<>>
    /\ status = "running"
    /\ result = Undefined

Executes(ops) == status = "running" /\ Op.op \in ops

Popped(n) == SubSeq(stack, 1, Len(stack) - n)
Taken(n) == SubSeq(stack, Len(stack) - n + 1, Len(stack))

Continue(s) ==
    /\ stack' = s
    /\ index' = index + 1
    /\ UNCHANGED <<program, compiled, block, caller, status, result>>
GoTo(b) ==
    /\ block' = b
    /\ index' = 1
    /\ UNCHANGED <<program, compiled, catchTarget, caller, closure, effects, status, result>>
Leaves(how, value) ==
    /\ status' = how
    /\ result' = value
    /\ UNCHANGED <<program, compiled, block, index>>

\* pushCatchTarget: the record is the distance to the one before, and where
\* the handler is; block 0 rejects the promise of an async function.
CatchRecord(height, handler) ==
    <<Delta(IF catchTarget = NoCatch THEN 0 ELSE catchTarget - height), Handler(handler)>>
\* popCatchTarget
Previous(s, target) == IF s[target + 1][2] = 0 THEN NoCatch ELSE target + s[target + 1][2]

RECURSIVE Outermost(_, _)
\* Ends every try up to the one that starts at place 1.
Outermost(s, target) ==
    IF target > 1 THEN Outermost(s, Previous(s, target)) ELSE Previous(s, target)

\* operationThrow
Raise(s, target, v) ==
    LET handler == s[target + 2][2]
    IN  \/ /\ target < 0
           /\ stack' = <<>>
           /\ catchTarget' = target
           /\ Leaves("thrown", v)
        \/ /\ target >= 0
           /\ handler = 0
           /\ stack' = SubSeq(s, 1, target)
           /\ catchTarget' = Previous(s, target)
           /\ Leaves("thrown", v)
        \/ /\ target >= 0
           /\ handler > 0
           /\ stack' = Append(SubSeq(s, 1, target), v)
           /\ catchTarget' = Previous(s, target)
           /\ block' = handler
           /\ index' = 1
           /\ status' = "running"
           /\ UNCHANGED <<program, compiled, result>>

-----------------------------------------------------------------------------
(***************************************************************************)
(* Instructions that only change the stack                                 *)
(***************************************************************************)
\* What replaces the operands: how many they are, and the value.
Pure ==
    LET top == Last(stack)
    IN  CASE Op.op = "Literal" -> <<0, Op.args[1]>>
          [] Op.op = "LoadGlobal" -> <<0, Global(Op.args[1])>>
          [] Op.op = "LoadVar" -> <<0, stack[Op.args[1] + 1]>>
          [] Op.op = "BinOp" -> <<2, Computed(Op.args[1], Taken(2))>>
          [] Op.op = "UnOp" -> <<1, Computed(Op.args[1], Taken(1))>>
          [] Op.op = "ObjectGet" -> <<2, Property(Taken(2)[1], top, Len(effects))>>

Uninitialized == Op.op = "LoadVar" /\ stack[Op.args[1] + 1] = Deleted

Push ==
    /\ Executes({"Literal", "LoadGlobal", "LoadVar", "BinOp", "UnOp", "ObjectGet"})
    /\ ~Uninitialized
    /\ Continue(Append(Popped(Pure[1]), Pure[2]))
    /\ UNCHANGED <<catchTarget, closure, effects>>

LoadUninitialized ==
    /\ Executes({"LoadVar"})
    /\ Uninitialized
    /\ Leaves("TDZ", Undefined)
    /\ UNCHANGED <<stack, caller, catchTarget, closure, effects>>

PopValues ==
    /\ Executes({"Pop"})
    /\ Continue(Popped(Op.args[1]))
    /\ UNCHANGED <<catchTarget, closure, effects>>

StoreVar ==
    /\ Executes({"StoreVar"})
    /\ Continue([Popped(1) EXCEPT ![Op.args[1] + 1] = Last(stack)])
    /\ UNCHANGED <<catchTarget, closure, effects>>

-----------------------------------------------------------------------------
(***************************************************************************)
(* Control                                                                 *)
(***************************************************************************)
OperationJump == Executes({"Jump"}) /\ GoTo(Op.args[1]) /\ UNCHANGED stack

OperationBranch ==
    /\ Executes({"Branch"})
    /\ GoTo(IF IsTruthy(Last(stack)) THEN Op.args[1] ELSE Op.args[2])
    /\ stack' = Popped(1)

OperationNop ==
    /\ Executes({"Nop"})
    /\ Continue(stack)
    /\ UNCHANGED <<catchTarget, closure, effects>>

StartTry ==
    /\ Executes({"StartTry"})
    /\ Continue(stack \o CatchRecord(Len(stack), Op.args[1]))
    /\ catchTarget' = Len(stack)
    /\ UNCHANGED <<closure, effects>>

\* Whatever the block has left on the stack goes as well.
EndTry ==
    /\ Executes({"EndTry"})
    /\ Continue(SubSeq(stack, 1, catchTarget))
    /\ catchTarget' = Previous(stack, catchTarget)
    /\ UNCHANGED <<closure, effects>>

Throw ==
    /\ Executes({"Throw"})
    /\ Raise(Popped(1), catchTarget, Last(stack))
    /\ UNCHANGED <<caller, closure, effects>>

Return ==
    /\ Executes({"Return"})
    /\ Leaves("returned", Last(stack))
    /\ stack' = <<>>
    /\ UNCHANGED <<catchTarget, caller, closure, effects>>

-----------------------------------------------------------------------------
(***************************************************************************)
(* The world                                                               *)
(***************************************************************************)
\* The place for `this` of a new object is not an operand.
EffectOperands ==
    CASE Op.op \in {"Call", "AwaitCall"} -> Taken(Op.args[1] + 1)
      [] Op.op = "New" -> RemoveAt(Taken(Op.args[1] + 1), 2)
      [] Op.op = "ObjectSet" -> Taken(3)
      [] Op.op = "Equals" -> Taken(2)
      [] Op.op = "Await" -> Taken(1)
      [] Op.op \in {"ObjectNew", "ArrayNew"} -> <<>>
Consumed == Len(EffectOperands) + (IF Op.op = "New" THEN 1 ELSE 0)
Silent == Op.op = "ObjectSet" \/ (Op.op = "Call" /\ Op.args[2])

Happens(outcome) ==
    /\ Len(effects) < MaxEffects
    /\ effects' = Append(effects, [effect |-> Effect(Op.op, EffectOperands), outcome |-> outcome])

PerformEffect ==
    /\ Executes(Effects \ {"Await"})
    /\ \E outcome \in Outcomes[Op.op] :
        LET v == Result(Len(effects) + 1, outcome)
        IN  /\ Happens(outcome)
            /\ \/ /\ outcome = "throw"
                  /\ Raise(Popped(Consumed), catchTarget, v)
                  /\ UNCHANGED caller
               \/ /\ outcome # "throw"
                  /\ Continue(Popped(Consumed) \o (IF Silent THEN <<>> ELSE <<v>>))
                  /\ UNCHANGED catchTarget
    /\ UNCHANGED closure

-----------------------------------------------------------------------------
(***************************************************************************)
(* Async functions                                                         *)
(***************************************************************************)
AsyncStart ==
    /\ Executes({"AsyncStart"})
    /\ Continue(<<Undefined>> \o CatchRecord(1, 0))
    /\ catchTarget' = 1
    /\ UNCHANGED <<closure, effects>>

\* The stack above the root handler is saved, the handlers are taken down, and
\* the caller goes on.
Await ==
    /\ Executes({"Await"})
    /\ \E outcome \in Outcomes.Await : Happens(outcome)
    /\ closure' = SubSeq(Popped(1), 4, Len(stack) - 1)
    /\ stack' = <<>>
    /\ catchTarget' = Outermost(stack, catchTarget)
    /\ index' = index + 1
    /\ status' = "suspended"
    /\ UNCHANGED <<program, compiled, block, caller, result>>

\* A job, so that nothing is around the frame.
AsyncResume ==
    LET restored == <<Undefined, Delta(0), Handler(0)>> \o SubSeq(closure, 1, Op.args[1])
        target == Len(restored) - Op.args[2]
        outcome == Last(effects).outcome
        v == Result(Len(effects), outcome)
    IN  /\ status = "suspended"
        /\ caller' = NoCatch
        /\ \/ /\ outcome = "throw"
              /\ Raise(restored, target, v)
           \/ /\ outcome # "throw"
              /\ status' = "running"
              /\ stack' = Append(restored, v)
              /\ catchTarget' = target
              /\ index' = index + 1
              /\ UNCHANGED <<program, compiled, block, result>>
        /\ UNCHANGED <<closure, effects>>

AsyncReturn ==
    /\ Executes({"AsyncReturn"})
    /\ Leaves("returned", Last(stack))
    /\ stack' = <<>>
    /\ catchTarget' = Outermost(stack, catchTarget)
    /\ UNCHANGED <<caller, closure, effects>>

Next ==
    \/ Push
    \/ LoadUninitialized
    \/ PopValues
    \/ StoreVar
    \/ OperationJump
    \/ OperationBranch
    \/ OperationNop
    \/ StartTry
    \/ EndTry
    \/ Throw
    \/ Return
    \/ PerformEffect
    \/ AsyncStart
    \/ Await
    \/ AsyncResume
    \/ AsyncReturn

Spec == Init /\ [][Next]_vars

-----------------------------------------------------------------------------
(***************************************************************************)
(* Properties                                                              *)
(***************************************************************************)
AgreesWith(r) ==
    CASE status = "running" ->
            /\ r.end = "pending"
            /\ r.log = Append([i \in DOMAIN effects |-> effects[i].effect],
                              Effect(Op.op, EffectOperands))
      [] status = "returned" -> r.end = "return" /\ r.value = result
      [] status = "thrown" -> r.end = "throw" /\ r.value = result
      [] status = "TDZ" -> r.end = "TDZ"

\* The compiled function does what the program says: each effect that it is
\* about to have is the next one of the program, on the same values, given
\* what came of the effects before; and it returns or throws what the program
\* does.  The cleanup of the stack at every way out of a block, the temporary
\* values of expressions, and what an await saves and restores all have to
\* agree for that (src-to-il.ts:492-571, 1443-1551, virtual-machine.ts:1206).
RunsAsWritten ==
    (status = "running" /\ Op.op \in Effects) \/ status \in {"returned", "thrown", "TDZ"} =>
        AgreesWith(Run(program, [i \in DOMAIN effects |-> effects[i].outcome]))

\* The stack has at each instruction the depth that the compiler worked out
\* for it; a variable's place is on the stack when it is used; a try that ends
\* is one of this function; and an async function's closure has room for what
\* an await saves (stackDepthBefore, maxStackDepth and the size of the closure:
\* src-to-il.ts:617, pass-2-compute-slots.ts:120, virtual-machine.ts:943).
StackAsCompiled ==
    /\ compiled.ok
    /\ status = "running" =>
        /\ Len(stack) = Op.before
        /\ Len(stack) <= compiled.maxStackDepth
        /\ Op.op = "LoadVar" => Op.args[1] < Len(stack)
        /\ Op.op = "StoreVar" => Op.args[1] < Len(stack) - 1
        /\ Op.op = "EndTry" => catchTarget >= 0 /\ Len(stack) >= catchTarget + 2
    /\ status = "suspended" =>
        /\ Op.op = "AsyncResume"
        /\ Op.args[1] = Len(closure)
        /\ 2 + Len(closure) <= compiled.closureSize

\* When the function gives control back, by a return, an exception or an
\* await, the handlers in force are those of its caller: no way out of a block
\* leaves a handler of the function behind, nor takes down one of the caller
\* (compileReturnStatement, src-to-il.ts:545; operationAwait,
\* virtual-machine.ts:1232).
CallersCatchTarget == status \in {"suspended", "returned", "thrown"} => catchTarget = caller
=============================================================================
