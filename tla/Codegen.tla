------------------------------ MODULE Codegen ------------------------------
(***************************************************************************)
(* The body of a function as a tree of statements, and the instructions    *)
(* that the compiler makes of it (src/lib/src-to-il/src-to-il.ts).         *)
(*                                                                         *)
(* The compiler walks the tree with a cursor that knows the block it       *)
(* appends to, the depth that the stack will have there, whether the place *)
(* can be reached, the scopes around it and the target of a break.  A      *)
(* local variable is a place on the stack, which the analysis of the       *)
(* scopes has numbered beforehand (analyze-scopes/pass-2-compute-slots.ts) *)
(* without seeing the instructions; the two have to agree.                 *)
(*                                                                         *)
(* Captured variables are the matter of Scopes; functions inside a         *)
(* function, classes and `this` are not here.                              *)
(***************************************************************************)
EXTENDS Language, FiniteSets, FiniteSetsExt

-----------------------------------------------------------------------------
(***************************************************************************)
(* The cursor                                                              *)
(***************************************************************************)
\* By how much an instruction changes the depth at the one that follows it in
\* the code.
StackChange(op, args) ==
    CASE op \in {"Literal", "LoadVar", "LoadGlobal", "ObjectNew", "ArrayNew",
                 "AsyncResume"} -> 1
      [] op \in {"Return", "AsyncReturn", "Branch", "BinOp", "Equals", "ObjectGet", "StoreVar",
                 "Throw", "Await"} -> -1
      [] op \in {"Jump", "UnOp", "Nop"} -> 0
      [] op = "StartTry" -> 2
      [] op = "AsyncStart" -> 3
      [] op = "ObjectSet" -> -3
      [] op = "Pop" -> -args[1]
      [] op = "Call" -> -args[1] - 1 + (IF args[2] THEN 0 ELSE 1)
      [] op \in {"New", "AwaitCall"} -> -args[1]

Assert_(c, condition) == [c EXCEPT !.ok = @ /\ condition]

Targets(op, args) == IF op \in {"Jump", "Branch"} THEN ToSet(args) ELSE {}

\* An instruction after which the stack has the given depth.
AddOpTo(c, op, args, after) ==
    IF ~c.reachable THEN c
    ELSE Assert_([c EXCEPT !.code[c.block].ops = Append(@, [op |-> op, args |-> args,
                                                            before |-> c.depth, after |-> after]),
                           !.depth = after],
                 /\ after >= 0
                 /\ \A b \in Targets(op, args) : c.code[b].entry \in {-1, after})
AddOp(c, op, args) == AddOpTo(c, op, args, c.depth + StackChange(op, args))

Literal(c, v) == AddOp(c, "Literal", <<v>>)
Pop(c, n) == AddOp(c, "Pop", <<n>>)
Jump(c, block) == AddOp(c, "Jump", <<block>>)
Branch(c, ifTrue, ifFalse) == AddOp(c, "Branch", <<ifTrue, ifFalse>>)
Dup(c) == AddOp(c, "LoadVar", <<c.depth - 1>>)

\* Makes the next n numbers those of blocks: c.next is the first.
Predeclare(c, n) ==
    [c EXCEPT !.next = @ + n,
              !.code = @ @@ [b \in c.next .. c.next + n - 1 |-> [entry |-> -1, ops |-> <<>>]]]

\* Goes on with a new block that follows the place `from`.  The code written
\* so far is that of c.  The order of creation is one that the encoder sees.
CreateBlock(c, from, block) ==
    [c EXCEPT !.code[block].entry = from.depth, !.order = Append(@, block), !.block = block,
              !.depth = from.depth, !.reachable = TRUE, !.scopes = from.scopes,
              !.breaks = from.breaks]

\* With a block that follows the place where c is.
Follow(c, block) == CreateBlock(c, c, block)

\* Goes on at c with the code that t has written.
With(c, t) == [c EXCEPT !.code = t.code, !.order = t.order, !.next = t.next, !.ok = t.ok]

-----------------------------------------------------------------------------
(***************************************************************************)
(* Scopes.  The cursor's env and slots are the result of pass 2: the place *)
(* of each variable, and the number of places taken.                       *)
(***************************************************************************)
PushScope(c, kind, epilogue, catchTarget) ==
    [c EXCEPT !.scopes = Append(@, [kind |-> kind, entry |-> c.depth, prolog |-> c.depth,
                                    epilogue |-> epilogue, catchTarget |-> catchTarget])]
EndProlog(c) == [c EXCEPT !.scopes[Len(c.scopes)].prolog = c.depth]

\* The variables that a block declares itself.
LexicalDeclarations(body) ==
    LET IsDeclaration(s) == s.type = "VariableDeclaration"
    IN  [i \in DOMAIN SelectSeq(body, IsDeclaration) |->
            SelectSeq(body, IsDeclaration)[i].name]

\* A slot is initialised by pushing the value: the stack ends where it is.
InitializeSlot(c, name) ==
    Literal(Assert_([c EXCEPT !.env = @ @@ (name :> c.slots), !.slots = @ + 1],
                    c.depth = c.slots), Deleted)

\* The exception is on the stack before the prologue of the handler.
EnterCatch(c, param) ==
    LET thrown == [c EXCEPT !.depth = @ + 1]
    IN  IF param = "" THEN Pop(thrown, 1)
        ELSE [thrown EXCEPT !.env = @ @@ (param :> c.slots), !.slots = @ + 1]

EnterBlock(c, kind, names, param, catchTarget) ==
    LET count == Len(names) + (IF kind = "catch" /\ param # "" THEN 1 ELSE 0)
        epilogue == IF kind = "try" THEN <<[op |-> "EndTry", n |-> c.slots]>>
                    ELSE IF count > 0 THEN <<[op |-> "Pop", n |-> count]>> ELSE <<>>
        start(pushed) ==
            CASE kind = "try" ->
                    [AddOp(pushed, "StartTry", <<catchTarget>>) EXCEPT !.slots = @ + 2]
              [] kind = "catch" -> EnterCatch(pushed, param)
              [] OTHER -> pushed
    IN  EndProlog(FoldLeft(InitializeSlot,
                           start(PushScope(c, "block", epilogue, catchTarget)), names))

CompileEpilogueStep(c, step, operation) ==
    IF operation = "return" /\ step.op = "Pop" THEN c
    ELSE IF step.op = "Pop" THEN Pop(c, step.n)
    ELSE [AddOpTo(c, "EndTry", <<>>, step.n) EXCEPT !.depth = step.n]

LeaveScope(c, operation) ==
    LET top == Last(c.scopes)
        step(acc, s) == CompileEpilogueStep(acc, s, operation)
        balanced(cursor, depth) == Assert_(cursor, operation # "return" => cursor.depth = depth)
        epilogue(cursor) == IF top.kind = "function" THEN cursor
                            ELSE balanced(FoldLeft(step, cursor, top.epilogue), top.entry)
    IN  [IF c.reachable THEN epilogue(balanced(c, top.prolog)) ELSE [c EXCEPT !.depth = top.entry]
            EXCEPT !.scopes = Front(@)]

\* Leaves the scopes above the first n, for a break or a return.
Unwind(c, n, operation) ==
    LET step(acc, i) == LeaveScope(acc, operation)
    IN  FoldLeft(step, c, [i \in 1 .. Len(c.scopes) - n |-> i])
PushBreak(c, target) ==
    [c EXCEPT !.breaks = Append(@, [target |-> target, scopes |-> Len(c.scopes)])]
PopBreak(c) == [c EXCEPT !.breaks = Front(@)]

-----------------------------------------------------------------------------
(***************************************************************************)
(* Expressions leave their value on the stack.                             *)
(***************************************************************************)
RECURSIVE Compile(_, _)

CompileAll(c, expressions) == FoldLeft(Compile, c, expressions)

\* Locals are on the stack, other names are global.
LoadVariable(c, name) ==
    IF name \in DOMAIN c.env
    THEN AddOp(Assert_(c, c.env[name] < c.depth), "LoadVar", <<c.env[name]>>)
    ELSE AddOp(c, "LoadGlobal", <<name>>)

CompileMember(c, e) == AddOp(CompileAll(c, <<e.object, e.property>>), "ObjectGet", <<>>)

\* A reference to a variable or a property: object and property are compiled
\* again for each use.
Load(c, left) ==
    IF left.type = "Identifier" THEN LoadVariable(c, left.name) ELSE CompileMember(c, left)
\* Stores what is at the place `index`, and leaves it there.
Store(c, left, index) ==
    IF left.type = "Identifier"
    THEN AddOp(AddOp(Assert_(c, c.env[left.name] < c.depth), "LoadVar", <<index>>),
               "StoreVar", <<c.env[left.name]>>)
    ELSE AddOp(AddOp(CompileAll(c, <<left.object, left.property>>), "LoadVar", <<index>>),
               "ObjectSet", <<>>)

\* The value is on top of the stack.
StoreTop(c, left) == Store(c, left, c.depth - 1)

CompileAssignment(c, e) ==
    StoreTop(IF e.operator = "=" THEN Compile(c, e.right)
             ELSE AddOp(Compile(Load(c, e.left), e.right), "BinOp", <<e.operator>>),
             e.left)

CompileUpdate(c, e) ==
    LET update(loaded) ==
            StoreTop(AddOp(Literal(loaded, LiteralValue(e.one)), "BinOp", <<"+">>), e.argument)
        prefix(loaded) == IF e.prefix THEN update(loaded) ELSE Pop(update(Dup(loaded)), 1)
    IN  prefix(Load(c, e.argument))

CompileLogical(c, e) ==
    LET right == c.next
        end == c.next + 1
        branch(left) == IF e.operator = "&&" THEN Branch(left, right, end)
                        ELSE Branch(left, end, right)
        rightCur(left) == Jump(Compile(Pop(Follow(left, right), 1), e.right), end)
    IN  Follow(rightCur(branch(Dup(Compile(Predeclare(c, 2), e.left)))), end)

CompileConditional(c, e) ==
    LET after == c.next + 2
        consequent(t) == Jump(Compile(Follow(t, c.next), e.consequent), after)
        alternate(t, done) ==
            Jump(Compile(CreateBlock(done, t, c.next + 1), e.alternate), after)
        branches(t) == Follow(alternate(t, consequent(t)), after)
    IN  branches(Branch(Compile(Predeclare(c, 3), e.test), c.next, c.next + 1))

\* An array or an object: each element is stored in the one that stays below.
CompileElements(c, e) ==
    LET element(acc, i) ==
            AddOp(Compile(
                      Literal(AddOp(acc, "LoadVar", <<c.depth>>), LiteralValue(e.keys[i])),
                      e.values[i]), "ObjectSet", <<>>)
        capacity == IF e.type = "ArrayNew" THEN <<Len(e.values)>> ELSE <<>>
    IN  FoldLeft(element, AddOp(c, e.type, capacity), [i \in DOMAIN e.values |-> i])

\* The function goes below the object that it is a property of.
CompileCallee(c, callee) ==
    LET object == Dup(Compile(Literal(c, Undefined), callee.object))
        property == AddOp(Compile(object, callee.property), "ObjectGet", <<>>)
    IN  IF callee.type = "Member" THEN AddOp(property, "StoreVar", <<c.depth>>)
        ELSE Literal(Compile(c, callee), Undefined)

\* kind is "value", "void" for a statement, "await" for the operand of await.
CompileCall(c, e, kind) ==
    LET n == Len(e.arguments) + 1
        final == c.depth + (IF kind = "void" THEN 0 ELSE 1)
        move(called) == IF kind = "void" THEN called ELSE AddOp(called, "StoreVar", <<c.depth>>)
        cleanUp(moved) ==
            Assert_(IF moved.depth > final THEN Pop(moved, moved.depth - final) ELSE moved,
                    kind # "await")
        finish(called) == IF called.depth <= final THEN called ELSE cleanUp(move(called))
    IN  finish(AddOp(CompileAll(CompileCallee(c, e.callee), e.arguments),
                     IF kind = "await" THEN "AwaitCall" ELSE "Call",
                     IF kind = "await" THEN <<n>> ELSE <<n, kind = "void">>))

CompileNew(c, e) ==
    AddOp(CompileAll(Literal(Compile(c, e.callee), Undefined), e.arguments),
          "New", <<Len(e.arguments) + 1>>)

\* Mutant of HandlerScope: the outermost one.
HandlerScopeFromOutside(c) == LET S == {i \in DOMAIN c.scopes : c.scopes[i].catchTarget # 0}
                              IN  IF S = {} THEN 0 ELSE Min(S)
\* The scope with the closest handler of this function, from place i inwards;
\* 0 if there is none.
HandlerScope(c) == LET S == {i \in DOMAIN c.scopes : c.scopes[i].catchTarget # 0}
                   IN  IF S = {} THEN 0 ELSE Max(S)

\* The frame starts with the result of the call and the root catch target:
\* places 0 to 2.
CompileAwait(c, e) ==
    LET operand == IF e.argument.type = "Call" THEN CompileCall(c, e.argument, "await")
                   ELSE Compile(c, e.argument)
        resume(awaited, target) ==
            AddOp(Assert_(awaited, target >= 2), "AsyncResume", <<awaited.depth - 1 - 2, target>>)
        closest(awaited, i) ==
            resume(awaited, awaited.depth - (IF i = 0 THEN 1 ELSE awaited.scopes[i].entry))
        suspend(awaited) == closest(awaited, HandlerScope(awaited))
    IN  suspend(AddOp(operand, "Await", <<>>))

CompileExpression(c, e) ==
    CASE e.type = "Literal" -> Literal(c, LiteralValue(e))
      [] e.type = "Identifier" -> LoadVariable(c, e.name)
      [] e.type = "Binary" ->
           AddOp(CompileAll(c, <<e.left, e.right>>), "BinOp", <<e.operator>>)
      [] e.type = "Unary" -> AddOp(Compile(c, e.argument), "UnOp", <<e.operator>>)
      [] e.type = "Member" -> CompileMember(c, e)
      [] e.type = "Assignment" -> CompileAssignment(c, e)
      [] e.type = "Update" -> CompileUpdate(c, e)
      [] e.type = "Logical" -> CompileLogical(c, e)
      [] e.type = "Conditional" -> CompileConditional(c, e)
      [] e.type \in {"ArrayNew", "ObjectNew"} -> CompileElements(c, e)
      [] e.type = "Call" -> CompileCall(c, e, "value")
      [] e.type = "New" -> CompileNew(c, e)
      [] e.type = "Await" -> CompileAwait(c, e)

-----------------------------------------------------------------------------
(***************************************************************************)
(* Statements leave the stack as it was.                                   *)
(***************************************************************************)
CompileBody(c, body) == FoldLeft(Compile, c, body)

CompileBlock(c, body, kind, param, catchTarget) ==
    LET statements(entered) ==
            FoldLeft(LAMBDA acc, s : Compile(Assert_(acc, acc.depth = entered.depth), s),
                     entered, body)
    IN  [LeaveScope(statements(EnterBlock(c, kind, LexicalDeclarations(body), param, catchTarget)),
                    "normal") EXCEPT !.env = c.env, !.slots = c.slots]

\* A call for nothing but its effects does not push its result.
CompileExpressionStatement(c, s) ==
    IF s.expression.type = "Call" THEN CompileCall(c, s.expression, "void")
    ELSE Pop(Compile(c, s.expression), 1)

\* The initial value goes through the top of the stack to the slot.
CompileVariableDeclaration(c, s) ==
    AddOp(Compile(Assert_(c, c.env[s.name] < c.depth), s.init),
          "StoreVar", <<c.env[s.name]>>)

CompileIf(c, s) ==
    LET after == c.next + 2
        otherwise == IF s.alternate = None THEN after ELSE c.next + 1
        consequent(t) == Jump(Compile(Follow(t, c.next), s.consequent), after)
        alternate(t, done) ==
            Jump(Compile(CreateBlock(done, t, c.next + 1), s.alternate), after)
        end(t, done) == IF s.alternate = None THEN CreateBlock(done, t, after)
                        ELSE CreateBlock(alternate(t, done), done, after)
        branches(t) == end(t, consequent(t))
    IN  branches(Branch(Compile(Predeclare(c, 3), s.test), c.next, otherwise))

CompileWhile(c, s) ==
    LET exit == c.next
        test == c.next + 1
        body == c.next + 2
        testCur(start) == Branch(Compile(Follow(start, test), s.test), body, exit)
        bodyCur(start) ==
            Jump(Compile(CreateBlock(testCur(start), start, body), s.body), test)
        loop(start) == PopBreak(CreateBlock(bodyCur(start), start, exit))
    IN  loop(Jump(PushBreak(Predeclare(c, 3), exit), test))

CompileDoWhile(c, s) ==
    LET after == c.next
        body == c.next + 1
        start == Jump(PushBreak(Predeclare(c, 2), after), body)
        bodyCur == Compile(Follow(start, body), s.body)
    IN  PopBreak(Follow(Branch(Compile(bodyCur, s.test), body, after), after))

\* A break leaves the loop but not the scope of its variables.
CompileFor(c, s) ==
    LET loop == c.next
        terminate == c.next + 1
        body == c.next + 2
        entered == EnterBlock(Predeclare(c, 3), "for", LexicalDeclarations(<<s.init>>), "", 0)
        init == Jump(PushBreak(Compile(entered, s.init), terminate), loop)
        loopCur == Branch(Compile(Follow(init, loop), s.test), body, terminate)
        bodyCur == Compile(Follow(loopCur, body), s.body)
        update == Jump(Pop(Compile(bodyCur, s.update), 1), loop)
    IN  [LeaveScope(PopBreak(Follow(update, terminate)), "normal")
            EXCEPT !.env = c.env, !.slots = c.slots]

\* All the tests, then all the consequents, each of which falls through to the
\* next; the value that is tested stays on the stack until the end.
CompileSwitch(c, s) ==
    LET n == Len(s.cases)
        cases == [i \in 1 .. n |-> i]
        breakBlock == c.next + 2 * n
        isTest(i) == s.cases[i].test # None
        \* Test block k, counted from 0, and the consequent of case i.
        testBlock(k) == IF k < n THEN c.next + k ELSE breakBlock
        consequentBlock(i) == IF i <= n THEN c.next + n + i - 1 ELSE breakBlock
        number(i) == Cardinality({j \in 1 .. i - 1 : isTest(j)})
        test(acc, start, i) ==
            Branch(AddOp(Compile(
                             Dup(CreateBlock(acc, start, testBlock(number(i)))),
                             s.cases[i].test), "Equals", <<>>),
                   consequentBlock(i), testBlock(number(i) + 1))
        default(acc, start, i) ==
            Jump(CreateBlock(acc, start, testBlock(n - 1)), consequentBlock(i))
        consequent(acc, start, i) ==
            Jump(CompileBody(CreateBlock(acc, start, consequentBlock(i)), s.cases[i].consequent),
                 consequentBlock(i + 1))
        tests(start) == FoldLeft(LAMBDA acc, i : IF isTest(i) THEN test(acc, start, i) ELSE acc,
                                 start, cases)
        defaults(start) ==
            FoldLeft(LAMBDA acc, i : IF isTest(i) THEN acc ELSE default(acc, start, i),
                     tests(start), cases)
        all(start) == CreateBlock(FoldLeft(LAMBDA acc, i : consequent(acc, start, i),
                                           defaults(start), cases), start, breakBlock)
        discriminant == Compile(Predeclare(c, 2 * n + 1), s.discriminant)
    IN  PopBreak(Pop(all(Jump(PushBreak(discriminant, breakBlock), testBlock(0))), 1))

\* What follows a jump out of a block is not reached.
Leave(c, t) == [With(c, t) EXCEPT !.reachable = FALSE]

CompileBreak(c) == Leave(c, Jump(Unwind(c, Last(c.breaks).scopes, "break"), Last(c.breaks).target))

\* Mutant of CompileReturn: without the epilogues.
CompileReturnAtOnce(c, s) ==
    Leave(c, AddOp(Compile(c, s.argument), IF c.isAsync THEN "AsyncReturn" ELSE "Return", <<>>))
\* The epilogues of the blocks come before the value.
CompileReturn(c, s) ==
    Leave(c, AddOp(Compile(Unwind(c, 1, "return"), s.argument),
                   IF c.isAsync THEN "AsyncReturn" ELSE "Return", <<>>))

CompileThrow(c, s) ==
    [AddOp(Compile(c, s.argument), "Throw", <<>>) EXCEPT !.reachable = FALSE]

CompileTry(c, s) ==
    LET catchBlock == c.next
        after == c.next + 1
        body == Jump(CompileBlock(Predeclare(c, 2), s.block, "try", "", catchBlock), after)
    IN  Follow(Jump(CompileBlock(Follow(body, catchBlock), s.handler, "catch", s.param, 0), after),
               after)

StatementTypes == {"Expression", "VariableDeclaration", "Block", "If", "While", "DoWhile", "For",
                   "Switch", "Break", "Return", "Throw", "Try", "Nop"}
CompileStatement(c, s) ==
    CASE s.type = "Expression" -> CompileExpressionStatement(c, s)
      [] s.type = "VariableDeclaration" -> CompileVariableDeclaration(c, s)
      [] s.type = "Block" -> CompileBlock(c, s.body, "block", "", 0)
      [] s.type = "If" -> CompileIf(c, s)
      [] s.type = "While" -> CompileWhile(c, s)
      [] s.type = "DoWhile" -> CompileDoWhile(c, s)
      [] s.type = "For" -> CompileFor(c, s)
      [] s.type = "Switch" -> CompileSwitch(c, s)
      [] s.type = "Break" -> CompileBreak(c)
      [] s.type = "Return" -> CompileReturn(c, s)
      [] s.type = "Throw" -> CompileThrow(c, s)
      [] s.type = "Try" -> CompileTry(c, s)
      [] s.type = "Nop" -> AddOp(c, "Nop", <<s.size>>)

\* Nothing is compiled where control cannot come.
Compile(c, node) ==
    IF ~c.reachable THEN c
    ELSE IF node.type \in StatementTypes THEN CompileStatement(c, node)
    ELSE CompileExpression(c, node)

-----------------------------------------------------------------------------
(***************************************************************************)
(* A function                                                              *)
(***************************************************************************)
Start(isAsync) ==
    [code |-> 1 :> [entry |-> 0, ops |-> <<>>], order |-> <<1>>, next |-> 2, block |-> 1,
     depth |-> 0, reachable |-> TRUE, scopes |-> <<>>, breaks |-> <<>>, env |-> <<>>, slots |-> 0,
     isAsync |-> isAsync, ok |-> TRUE]

Ops(c) == UNION {ToSet(c.code[b].ops) : b \in DOMAIN c.code}

\* computeMaximumStackDepth
MaxStackDepth(c) == Max({0} \cup UNION {{op.before, op.after} : op \in Ops(c)})

\* Mutant of ClosureSize: the slot of the callback is not counted.
ClosureSizeOfContinuation(c) ==
    1 + Max({0} \cup {op.before - 3 - 1 : op \in {o \in Ops(c) : o.op = "Await"}})

\* The second compilation knows how deep the stack is at each await, and pass
\* 2 gives the closure a slot for each value above the root catch target, after
\* the continuation and the callback.
ClosureSize(c) == 2 + Max({0} \cup {op.before - 3 - 1 : op \in {o \in Ops(c) : o.op = "Await"}})

CompileFunction(f) ==
    LET pushed == PushScope(Start(f.isAsync), "function", <<>>, 0)
        start == EndProlog(IF f.isAsync
                           THEN [AddOp(pushed, "AsyncStart", <<>>) EXCEPT !.slots = 3]
                           ELSE pushed)
        body == Literal(CompileBlock(start, f.body, "block", "", 0), Undefined)
        result(c) == [code |-> c.code, order |-> c.order, ok |-> c.ok, maxStackDepth |-> MaxStackDepth(c),
                      closureSize |-> ClosureSize(c)]
    IN  result(LeaveScope(AddOp(body, IF f.isAsync THEN "AsyncReturn" ELSE "Return", <<>>),
                          "return"))
=============================================================================
