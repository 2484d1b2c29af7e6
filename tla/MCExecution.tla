----------------------------- MODULE MCExecution -----------------------------
(***************************************************************************)
(* Functions to compile and run: ways out of nested statements, and        *)
(* operands that have effects.                                             *)
(***************************************************************************)
EXTENDS Bytecode

Lit(value) == [type |-> "Literal", value |-> value, truthy |-> TRUE]
Id(name) == [type |-> "Identifier", name |-> name]
Apply(f, arguments) == [type |-> "Call", callee |-> Id(f), arguments |-> arguments]
AwaitOf(e) == [type |-> "Await", argument |-> e]
Member(object, key) == [type |-> "Member", object |-> object, property |-> key]
Assigned(left, op, right) ==
    [type |-> "Assignment", operator |-> op, left |-> left, right |-> right]

Expr(e) == [type |-> "Expression", expression |-> e]
Let(name, init) == [type |-> "VariableDeclaration", name |-> name, init |-> init]
Block(body) == [type |-> "Block", body |-> body]
ReturnOf(e) == [type |-> "Return", argument |-> e]
TryCatch(body, param, handler) ==
    [type |-> "Try", block |-> body, param |-> param, handler |-> handler]

Function(isAsync, body) == [isAsync |-> isAsync, body |-> body]

-----------------------------------------------------------------------------
(***************************************************************************)
(* A way out inside statements of the given kinds, from the outside in.    *)
(* Each statement has a variable of its own that it uses afterwards.       *)
(***************************************************************************)
Names == <<"x", "y", "z">>
Others == <<"p", "q", "r">>
\* A statement of this kind around a body, the n-th from the outside.
Around(kind, n, body) ==
    LET x == Names[n]
        use == Expr(Apply("use", <<Id(x)>>))
        test == Apply("test", <<>>)
    IN  CASE kind = "block" -> Block(<<Let(x, Lit("1"))>> \o body \o <<use>>)
          [] kind = "if" ->
                [type |-> "If", test |-> test, consequent |-> Block(body),
                 alternate |-> Expr(Apply("otherwise", <<>>))]
          [] kind = "while" -> [type |-> "While", test |-> test, body |-> Block(body)]
          [] kind = "do" -> [type |-> "DoWhile", test |-> test, body |-> Block(body)]
          [] kind = "for" ->
                [type |-> "For", init |-> Let(x, Lit("1")), test |-> Apply("test", <<Id(x)>>),
                 update |-> Assigned(Id(x), "+", Lit("1")), body |-> Block(body)]
          [] kind = "switch" ->
                [type |-> "Switch", discriminant |-> Id("d"),
                 cases |-> <<[test |-> Lit("1"), consequent |-> body],
                             [test |-> None, consequent |-> <<Expr(Apply("default", <<>>))>>],
                             [test |-> Lit("2"), consequent |-> <<[type |-> "Break"]>>]>>]
          [] kind = "try" ->
                TryCatch(<<Let(x, Lit("1"))>> \o body \o <<use>>,
                         "e", <<Expr(Apply("caught", <<Id("e")>>))>>)
          [] kind = "catch" ->
                TryCatch(<<Expr(Apply("try", <<>>))>>,
                         x, <<Let(Others[n], Lit("2"))>> \o body \o <<use>>)
Nest(kinds, inner) ==
    FoldRight(LAMBDA n, body : <<Around(kinds[n], n, body)>>, [n \in DOMAIN kinds |-> n], inner)

Kinds == {"block", "if", "while", "do", "for", "switch", "try", "catch"}
\* The statements that may stand in a switch.
InSwitch == {"if", "while", "do", "switch"}
Breakable == {"while", "do", "for", "switch"}
Nestings(n, used) ==
    {kinds \in [1 .. n -> used] :
        \A i, j \in 1 .. n : i < j /\ kinds[i] = "switch" => kinds[j] \in InSwitch}

F == Apply("f", <<>>)
WaysOut(kinds, isAsync) ==
    {<<ReturnOf(Lit("3"))>>, <<[type |-> "Throw", argument |-> F]>>}
    \cup (IF Breakable \cap ToSet(kinds) # {} THEN {<<[type |-> "Break"]>>} ELSE {<<Expr(F)>>})
    \cup (IF "try" \notin ToSet(kinds) THEN {<<ReturnOf(F)>>} ELSE {})
    \cup (IF isAsync THEN {<<Expr(AwaitOf(F))>>} ELSE {})

Statements(n, used) ==
    UNION {{Function(isAsync, Append(Nest(kinds, inner), Expr(Apply("after", <<>>)))) :
                inner \in WaysOut(kinds, isAsync)} : kinds \in Nestings(n, used), isAsync \in BOOLEAN}

-----------------------------------------------------------------------------
(***************************************************************************)
(* An expression as an operand of others, from the inside out.             *)
(***************************************************************************)
Contexts(e) ==
    {[type |-> "Binary", operator |-> "+", left |-> Id("x"), right |-> e],
     [type |-> "Binary", operator |-> "+", left |-> e, right |-> Apply("g", <<>>)],
     [type |-> "Unary", operator |-> "-", argument |-> e],
     [type |-> "Logical", operator |-> "&&", left |-> e, right |-> Apply("g", <<>>)],
     [type |-> "Logical", operator |-> "||", left |-> Apply("g", <<>>), right |-> e],
     [type |-> "Conditional", test |-> e, consequent |-> Id("x"), alternate |-> Lit("0")],
     [type |-> "Conditional", test |-> Id("c"), consequent |-> e, alternate |-> Lit("0")],
     Assigned(Id("x"), "=", e), Assigned(Id("x"), "+", e),
     Assigned(Member(Id("o"), Lit("k")), "=", e), Member(Id("o"), e),
     [type |-> "Update", prefix |-> FALSE, argument |-> Id("x"), one |-> Lit("1")],
     [type |-> "Update", prefix |-> TRUE, argument |-> Member(Id("o"), Lit("k")), one |-> Lit("1")],
     [type |-> "ArrayNew", keys |-> <<Lit("0"), Lit("1")>>, values |-> <<Apply("g", <<>>), e>>],
     [type |-> "ObjectNew", keys |-> <<Lit("k")>>, values |-> <<e>>],
     Apply("g", <<Lit("1"), e, Id("x")>>),
     [type |-> "Call", callee |-> Member(e, Lit("m")), arguments |-> <<Lit("1")>>],
     [type |-> "Call", callee |-> Member(Id("o"), Lit("m")), arguments |-> <<e>>],
     [type |-> "New", callee |-> Id("C"), arguments |-> <<e>>]}
AsyncContexts(e) ==
    {AwaitOf(e), AwaitOf(Apply("g", <<e>>)),
     [type |-> "Binary", operator |-> "+", left |-> Apply("g", <<>>), right |-> AwaitOf(e)],
     AwaitOf([type |-> "Call", callee |-> Member(Id("o"), Lit("m")), arguments |-> <<e>>])}

AllContexts(e, isAsync) == Contexts(e) \cup (IF isAsync THEN AsyncContexts(e) ELSE {})
Expressions(isAsync) ==
    UNION {AllContexts(e, isAsync) : e \in {F} \cup AllContexts(F, isAsync)}

\* As a value that is used, in a try, and as a statement.
Uses(e) ==
    LET use == Expr(Apply("use", <<Id("x"), Id("y")>>))
        value == <<Let("x", Apply("h", <<>>)), Let("y", e), use>>
    IN  {value, <<TryCatch(value, "e", <<Expr(Apply("caught", <<Id("e")>>))>>)>>,
         <<Let("x", Lit("1")), Expr(e), Expr(Apply("use", <<Id("x")>>))>>}
Operators(expressions, isAsync) ==
    {Function(isAsync, body) : body \in UNION {Uses(e) : e \in expressions}}

\* A variable that is used before its declaration.
Early == Function(FALSE, <<Expr(F), Expr(Apply("use", <<Id("x")>>)), Let("x", Lit("1"))>>)

-----------------------------------------------------------------------------
(***************************************************************************)
(* Bodies whose jumps are short or long: a Nop takes as many bytes as it   *)
(* says.  The sizes are around those at which a jump needs two bytes.      *)
(***************************************************************************)
NopOf(n, e) == <<[type |-> "Nop", size |-> n], Expr(e)>>
Long(kind, n, isAsync) ==
    Function(isAsync, Nest(<<kind>>, NopOf(n, IF isAsync THEN AwaitOf(F) ELSE F)))
\* Two statements one in the other, with a Nop before the inner one.
LongTwice(outer, inner, m, n) ==
    Function(FALSE, <<Around(outer, 1, NopOf(m, F) \o <<Around(inner, 2, NopOf(n, F))>>)>>)

LongPrograms ==
    LET jumping == Kinds \ {"block", "do"}
    IN  {Long(kind, n, FALSE) : kind \in jumping, n \in {3, 300} \cup 102 .. 126}
        \cup {Long(kind, n, TRUE) : kind \in jumping, n \in {3, 300} \cup 106 .. 112}
        \cup {LongTwice(outer, inner, m, n) : outer, inner \in {"if", "for", "try"},
                                              m \in {4, 300}, n \in 95 .. 105}
\* Instructions for what Codegen leaves out, at the sizes of their operands.
Samples ==
    LET sample(op, args, before) == [op |-> op, args |-> args, before |-> before]
    IN  {sample(op, <<>>, 0) : op \in
            {"AsyncComplete", "ClassCreate", "ClosureNew", "EnqueueJob", "ObjectKeys", "ScopeClone",
             "ScopeDiscard", "ScopePop", "ScopeSave", "TypeCodeOf", "Uint8ArrayNew"}}
        \cup {sample(op, <<n>>, 0) : op \in {"LoadArg", "LoadScoped", "StoreScoped"},
                                     n \in {0, 15, 16, 255}}
        \cup {sample(op, <<n>>, 0) : op \in {"LoadScoped", "StoreScoped"}, n \in {256, 40000}}
        \cup {sample(op, <<n>>, 300) : op \in {"LoadVar", "StoreVar"}, n \in {48, 282, 283, 284, 297}}
        \cup {sample(op, <<n>>, 0) : op \in {"ScopePush", "ScopeNew", "ArrayNew", "New", "Pop"},
                                     n \in {1, 2, 255}}
        \cup {sample(op, <<n, flag>>, 0) : op \in {"Call", "AsyncStart"}, n \in {0, 127},
                                           flag \in BOOLEAN}
        \cup {sample("Literal", <<v>>, 0) : v \in {"deleted", "undefined", "null", "false", "true",
                                                    "-1", "0", "5", "6", "-0", "name"}}
        \cup {sample("BinOp", <<o>>, 0) : o \in {"+", "===", "!==", "-", "*", "/", "%", "**", "<", ">",
                                                  "<=", ">=", "DIVIDE_AND_TRUNC", ">>", ">>>",
                                                  "<<", "|", "&", "^"}}
        \cup {sample("UnOp", <<o>>, 0) : o \in {"-", "+", "!", "~", "typeof", "typeCodeOf"}}
        \cup {sample("LoadReg", <<"closure">>, 0), sample("StoreGlobal", <<"g">>, 0),
              sample("Nop", <<3>>, 0), sample("Nop", <<300>>, 0)}

\* What is encoded and decoded too, as a set that TLC enumerates once.
Encoded ==
    {p \in Statements(1, Kinds) \cup Statements(2, Kinds) \cup {Early} \cup LongPrograms
           \cup Operators(AllContexts(F, FALSE), FALSE) \cup Operators(AllContexts(F, TRUE), TRUE) :
        TRUE}

MCPrograms ==
    Encoded \cup Statements(3, Kinds \ {"if", "do", "while"})
    \cup Operators(Expressions(FALSE), FALSE) \cup Operators(Expressions(TRUE), TRUE)
MCMaxEffects == 5

EngineReadsSamples == \A o \in Samples : EngineReadsInstruction(o)
DecoderReadsSamples == \A o \in Samples : DecoderReadsInstruction(o)

\* The engine reads the instructions that the compiler made: each stands where
\* the one before it, a jump, a branch, a handler or a suspended function goes
\* to, and means the same operation on the same variable, whatever sizes the
\* jumps got and wherever padding moved what follows.  Every function without a
\* do-while loop is encoded: no assertion of the encoder fails
\* (encode-snapshot-function-body.ts:168-345, microvium.c:355, 2206, 2437).
EngineReadsCode ==
    /\ AtStart /\ program \in Encoded => EngineReads(writeFunction(compiled))
    /\ EngineReadsSamples

\* What is decoded is what was encoded: the blocks that can be reached have
\* their instructions, with the depths of the stack that the compiler worked
\* out, and each jump leads to a block that is there; a block that continues in
\* the next one is one with it, unless that is jumped to; and every point at
\* which a function can be resumed is found again (decode-snapshot.ts:852).
DecoderReadsCode ==
    /\ AtStart /\ program \in Encoded => DecoderReads(writeFunction(compiled))
    /\ DecoderReadsSamples

-----------------------------------------------------------------------------
(***************************************************************************)
(* Functions that the compiler does not treat as JavaScript does, none of  *)
(* which are above: MCExecutionLimits.cfg.                                 *)
(***************************************************************************)
Switch1(body) == [type |-> "Switch", discriminant |-> Id("d"),
                  cases |-> <<[test |-> Lit("1"), consequent |-> body]>>]
Caught == <<Expr(Apply("caught", <<>>))>>
\* The value is computed when the try has ended, and its locals are still there.
ReturnInTry == <<TryCatch(<<ReturnOf(F)>>, "", Caught)>>
ReturnOfLocal == <<TryCatch(<<Let("x", Lit("1")), ReturnOf(Id("x"))>>, "", Caught)>>
\* The object and the key are computed twice, or after the value.
KeyTwice == <<Expr(Assigned(Member(Id("o"), F), "+", Lit("1")))>>
ObjectLast == <<Expr(Assigned(Member(F, Lit("k")), "=", Apply("g", <<>>)))>>
\* The analysis of the scopes does not count the value that is tested.
BlockInSwitch == <<Switch1(<<Block(<<Let("x", Lit("1"))>>)>>)>>
TryInSwitch == <<Switch1(<<TryCatch(<<ReturnOf(Lit("1"))>>, "", Caught)>>)>>
\* Nothing looks at the old value of a variable that is assigned.
AssignedEarly == <<Expr(Assigned(Id("x"), "=", Lit("1"))), Let("x", Lit("2"))>>

LimitPrograms ==
    {Function(FALSE, body) : body \in {ReturnInTry, ReturnOfLocal, KeyTwice, ObjectLast,
                                        BlockInSwitch, TryInSwitch, AssignedEarly}}
=============================================================================
