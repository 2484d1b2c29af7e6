------------------------------ MODULE Language ------------------------------
(***************************************************************************)
(* What the statements and expressions that src/lib/src-to-il/src-to-il.ts *)
(* compiles mean in JavaScript.  This is the reference against which       *)
(* Execution runs the compiled code.                                       *)
(*                                                                         *)
(* A program is the body of a function, a tree of records whose field type *)
(* says what they are; None stands for a part that is not there.  The      *)
(* names in a program are unique.  The program acts on the world by calls, *)
(* by stores to properties, by new objects, by comparing and by awaiting;  *)
(* the world decides what comes of each of these effects.                  *)
(***************************************************************************)
EXTENDS Integers, Sequences, SequencesExt, TLC

None == [type |-> "None"]

-----------------------------------------------------------------------------
(***************************************************************************)
(* Values are terms: what a value was made of tells it from every other.   *)
(* The last component says whether it counts as true.                      *)
(***************************************************************************)
Undefined == <<"literal", "undefined", FALSE>>
Deleted == <<"deleted", 0, FALSE>>
LiteralValue(e) == <<"literal", e.value, e.truthy>>
Global(name) == <<"global", name, TRUE>>
Delta(n) == <<"delta", n, FALSE>>
Handler(block) == <<"handler", block, TRUE>>
IsTruthy(v) == v[3]

\* What the n-th effect of a run gives back.
Result(n, outcome) == <<"result", n, outcome # "falsy">>
\* Operators on primitive values, and the property of an object at the time
\* at which n effects have happened.
Computed(op, operands) == <<op, operands, TRUE>>
Property(object, key, n) == <<"property", <<object, key, n>>, TRUE>>

\* What the program does that the world can see, with the outcomes there are.
Outcomes == [Call |-> {"truthy", "falsy", "throw"}, AwaitCall |-> {"truthy", "throw"},
             Await |-> {"truthy", "falsy", "throw"}, New |-> {"truthy", "throw"},
             ObjectNew |-> {"truthy"}, ArrayNew |-> {"truthy"}, ObjectSet |-> {"truthy"},
             Equals |-> {"truthy", "falsy"}]
Effect(op, operands) == [op |-> op, operands |-> operands]

-----------------------------------------------------------------------------
(***************************************************************************)
(* A run so far: the variables, the effects there were, how the last part  *)
(* ended and with which value.  outs lists what the world has decided; an  *)
(* effect that it has not decided yet leaves the run "pending".            *)
(***************************************************************************)
Begin(outs) == [env |-> <<>>, log |-> <<>>, outs |-> outs, end |-> "normal", value |-> Undefined]

Bind(r, name, v) == [r EXCEPT !.env = (name :> v) @@ @]
Yield(r, v) == [r EXCEPT !.value = v]
End(r, end) == IF r.end = "normal" THEN [r EXCEPT !.end = end] ELSE r
Normal(r) == r.end = "normal"

\* The n-th effect of a run, and what comes of it.
Outcome(r, n) ==
    IF n > Len(r.outs) THEN End(r, "pending")
    ELSE Yield(IF r.outs[n] = "throw" THEN End(r, "throw") ELSE r, Result(n, r.outs[n]))
Do(r, op, operands) ==
    IF ~Normal(r) THEN r
    ELSE Outcome([r EXCEPT !.log = Append(@, Effect(op, operands))], Len(r.log) + 1)

-----------------------------------------------------------------------------
RECURSIVE Evaluate(_, _)

\* The operands from left to right: a run, and the values.
Operands(r, expressions) ==
    LET append(values, next) == [run |-> next, values |-> Append(values, next.value)]
        operand(acc, e) == append(acc.values, Evaluate(acc.run, e))
    IN  FoldLeft(operand, [run |-> r, values |-> <<>>], expressions)

ReadVariable(r, name) ==
    IF name \notin DOMAIN r.env THEN Yield(r, Global(name))
    ELSE IF r.env[name] = Deleted THEN End(r, "TDZ")
    ELSE Yield(r, r.env[name])

\* A property as it is at this time.
Get(r, object, key) == IF Normal(r) THEN Yield(r, Property(object, key, Len(r.log))) ELSE r

\* What an assignment assigns to is determined once, before its right side.
\* A place is a run, and the values that tell which place it is.
Place(r, left) == Operands(r, IF left.type = "Identifier" THEN <<>>
                              ELSE <<left.object, left.property>>)
ReadPlace(left, place) ==
    IF left.type = "Identifier" THEN ReadVariable(place.run, left.name)
    ELSE Get(place.run, place.values[1], place.values[2])
Write(r, left, place, v) ==
    IF ~Normal(r) THEN r
    ELSE IF left.type # "Identifier" THEN Yield(Do(r, "ObjectSet", Append(place.values, v)), v)
    ELSE IF r.env[left.name] = Deleted THEN End(r, "TDZ")
    ELSE Yield(Bind(r, left.name, v), v)

Assign(r, e) ==
    LET simple(place, right) == Write(right, e.left, place, right.value)
        compound(place, old, right) ==
            Write(right, e.left, place, Computed(e.operator, <<old.value, right.value>>))
        update(place, old) == compound(place, old, Evaluate(old, e.right))
        assign(place) == IF e.operator = "=" THEN simple(place, Evaluate(place.run, e.right))
                         ELSE update(place, ReadPlace(e.left, place))
    IN  assign(Place(r, e.left))

Update(r, e) ==
    LET result(old, new) == IF e.prefix \/ ~Normal(new) THEN new ELSE Yield(new, old.value)
        update(place, old) ==
            result(old, Write(old, e.argument, place,
                              Computed("+", <<old.value, LiteralValue(e.one)>>)))
        from(place) == update(place, ReadPlace(e.argument, place))
    IN  from(Place(r, e.argument))

\* A function that is a property is called with the object as `this`.
Callee(r, callee) ==
    LET method(place, f) == [run |-> f, values |-> <<f.value, place.values[1]>>]
        of(place) == method(place, ReadPlace(callee, place))
        function(f) == [run |-> f, values |-> <<f.value, Undefined>>]
    IN  IF callee.type = "Member" THEN of(Place(r, callee)) ELSE function(Evaluate(r, callee))

CallWith(r, callee, arguments, op) ==
    LET call(f, args) == Do(args.run, op, f.values \o args.values)
        with(f) == call(f, Operands(f.run, arguments))
    IN  with(Callee(r, callee))

Elements(r, e) ==
    LET store(object, i, v) == Do(v, "ObjectSet", <<object.value, LiteralValue(e.keys[i]), v.value>>)
        result(object, done) == IF Normal(done) THEN Yield(done, object.value) ELSE done
        fill(object) ==
            result(object, FoldLeft(LAMBDA acc, i : store(object, i, Evaluate(acc, e.values[i])),
                                    object, [i \in DOMAIN e.values |-> i]))
    IN  fill(Do(r, e.type, <<>>))

\* The value of an operator.
Compute(e, o) == IF Normal(o.run) THEN Yield(o.run, Computed(e.operator, o.values)) ELSE o.run
\* The second operand of && and ||.
Shortcut(left, e) ==
    IF Normal(left) /\ IsTruthy(left.value) = (e.operator = "&&")
    THEN Evaluate(left, e.right) ELSE left
Choose(test, e) == Evaluate(test, IF IsTruthy(test.value) THEN e.consequent ELSE e.alternate)
Suspend(r) == Do(r, "Await", <<r.value>>)
Construct(o) == Do(o.run, "New", o.values)

Evaluate(r, e) ==
    IF ~Normal(r) THEN r
    ELSE CASE e.type = "Literal" -> Yield(r, LiteralValue(e))
           [] e.type = "Identifier" -> ReadVariable(r, e.name)
           [] e.type = "Binary" -> Compute(e, Operands(r, <<e.left, e.right>>))
           [] e.type = "Unary" -> Compute(e, Operands(r, <<e.argument>>))
           [] e.type = "Member" -> ReadPlace(e, Place(r, e))
           [] e.type = "Assignment" -> Assign(r, e)
           [] e.type = "Update" -> Update(r, e)
           [] e.type = "Logical" -> Shortcut(Evaluate(r, e.left), e)
           [] e.type = "Conditional" -> Choose(Evaluate(r, e.test), e)
           [] e.type \in {"ArrayNew", "ObjectNew"} -> Elements(r, e)
           [] e.type = "Call" -> CallWith(r, e.callee, e.arguments, "Call")
           [] e.type = "New" -> Construct(Operands(r, <<e.callee>> \o e.arguments))
           [] e.type = "Await" ->
                Suspend(IF e.argument.type = "Call"
                        THEN CallWith(r, e.argument.callee, e.argument.arguments, "AwaitCall")
                        ELSE Evaluate(r, e.argument))

-----------------------------------------------------------------------------
RECURSIVE Execute(_, _)

Declared(body) == {body[i].name : i \in {j \in DOMAIN body : body[j].type = "VariableDeclaration"}}

\* The variables of a block exist from its start, and can be used after their
\* declaration.
ExecuteBlock(r, body) ==
    FoldLeft(Execute, [r EXCEPT !.env = [name \in Declared(body) |-> Deleted] @@ @], body)

\* What a break leaves behind.
AfterBreak(r) == IF r.end = "break" THEN [r EXCEPT !.end = "normal"] ELSE r

RECURSIVE Loop(_, _)
\* A while loop; update is what a for loop does after its body.
Loop(r, s) ==
    LET again(body) == IF ~Normal(body) THEN body
                       ELSE Loop(IF s.type = "For" THEN Evaluate(body, s.update) ELSE body, s)
        iterate(test) == IF Normal(test) /\ IsTruthy(test.value) THEN again(Execute(test, s.body))
                         ELSE test
    IN  iterate(Evaluate(r, s.test))
RECURSIVE DoLoop(_, _)
DoLoop(r, s) ==
    LET again(test) == IF Normal(test) /\ IsTruthy(test.value) THEN DoLoop(test, s) ELSE test
    IN  again(Evaluate(Execute(r, s.body), s.test))

\* The tests of the cases in their order, up to the one that is met.
RECURSIVE Select(_, _, _, _)
Select(r, s, v, i) ==
    LET test(t) == Do(t, "Equals", <<v, t.value>>)
        decide(equal) == IF Normal(equal) /\ ~IsTruthy(equal.value)
                         THEN Select(equal, s, v, i + 1) ELSE [run |-> equal, case |-> i]
    IN  IF i > Len(s.cases)
        THEN [run |-> r, case |-> SelectInSeq(s.cases, LAMBDA c : c.test = None)]
        ELSE IF s.cases[i].test = None THEN Select(r, s, v, i + 1)
        ELSE decide(test(Evaluate(r, s.cases[i].test)))
Switch(r, s) ==
    LET from(selected) ==
            IF selected.case = 0 THEN selected.run
            ELSE FoldLeft(Execute, selected.run,
                          FlattenSeq([j \in 1 .. Len(s.cases) - selected.case + 1 |->
                                          s.cases[selected.case + j - 1].consequent]))
        on(v) == IF Normal(v) THEN from(Select(v, s, v.value, 1)) ELSE v
    IN  on(Evaluate(r, s.discriminant))

If(test, s) ==
    IF IsTruthy(test.value) THEN Execute(test, s.consequent)
    ELSE IF s.alternate = None THEN test ELSE Execute(test, s.alternate)

Catch(body, s) ==
    IF body.end # "throw" THEN body
    ELSE LET caught == [body EXCEPT !.end = "normal"]
         IN  ExecuteBlock(IF s.param = "" THEN caught ELSE Bind(caught, s.param, body.value),
                          s.handler)

Declare(r, name) == IF Normal(r) THEN Bind(r, name, r.value) ELSE r

Execute(r, s) ==
    IF ~Normal(r) THEN r
    ELSE CASE s.type = "Expression" -> Evaluate(r, s.expression)
           [] s.type = "VariableDeclaration" -> Declare(Evaluate(r, s.init), s.name)
           [] s.type = "Block" -> ExecuteBlock(r, s.body)
           [] s.type = "If" -> If(Evaluate(r, s.test), s)
           [] s.type = "While" -> AfterBreak(Loop(r, s))
           [] s.type = "DoWhile" -> AfterBreak(DoLoop(r, s))
           [] s.type = "For" -> AfterBreak(Loop(ExecuteBlock(r, <<s.init>>), s))
           [] s.type = "Switch" -> AfterBreak(Switch(r, s))
           [] s.type = "Break" -> End(r, "break")
           [] s.type = "Return" -> End(Evaluate(r, s.argument), "return")
           [] s.type = "Throw" -> End(Evaluate(r, s.argument), "throw")
           [] s.type = "Try" -> Catch(ExecuteBlock(r, s.block), s)
           [] s.type = "Nop" -> r

\* A function that reaches its end returns undefined.
Completed(r) == IF Normal(r) THEN [r EXCEPT !.end = "return", !.value = Undefined] ELSE r
Run(program, outs) == Completed(ExecuteBlock(Begin(outs), program.body))
=============================================================================
