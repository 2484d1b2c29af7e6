------------------------------- MODULE Scopes -------------------------------
(***************************************************************************)
(* How the compiler turns nested scopes into closures                      *)
(* (src/lib/src-to-il/analyze-scopes and the scope instructions that       *)
(* src-to-il.ts emits), and how the machine runs the result                *)
(* (src/lib/virtual-machine.ts, src/native-vm/microvium.c).                *)
(*                                                                         *)
(* A program is a tree of scopes with the variables they bind and the      *)
(* references to them; nothing else of the source text matters here.  The  *)
(* analysis decides for each variable whether it lives on the stack, in an *)
(* argument or in a slot of a closure, which scopes get a closure of their *)
(* own, and with which relative index each reference finds its slot.  The  *)
(* rest of the module runs the program in any order that its structure     *)
(* allows, and marks every slot with the variable it was filled for: a     *)
(* binding of one instance of its scope, as the language defines it.       *)
(***************************************************************************)
EXTENDS Integers, Sequences, FiniteSets, FiniteSetsExt, SequencesExt

CONSTANTS
    Shapes,           \* scope trees: sequences of [parent, kind, binds, awaits]
    OnlyWithinLimits, \* leave out programs that are known to go wrong
    MaxReferences,    \* references in a program
    MaxInstances,     \* instances of scopes in a run
    MaxCalls,         \* activations on the stack
    MaxClosures       \* function values in a run

(***************************************************************************)
(* Kinds of scopes.  Scope 1 is the module; a parent precedes its          *)
(* children, in the order of the source.  "body" is the block of a for     *)
(* statement, "constructor" what a class declaration makes of its          *)
(* property initialisers and its constructor.                              *)
(***************************************************************************)
Functions == {"function", "declaration", "async", "constructor"}
SharesInstance == {"block", "while", "try", "catch", "class"}
Kinds == {"module", "for", "body"} \cup Functions \cup SharesInstance

ASSUME ShapesAssumption ==
    \A shape \in Shapes : \A s \in DOMAIN shape :
        /\ shape[s].kind \in Kinds /\ (s = 1) = (shape[s].kind = "module")
        /\ s > 1 => shape[s].parent \in 1 .. s - 1
ASSUME BoundsAssumption ==
    /\ OnlyWithinLimits \in BOOLEAN
    /\ {MaxReferences, MaxInstances, MaxCalls, MaxClosures} \subseteq Nat

-----------------------------------------------------------------------------
(***************************************************************************)
(* Pass 1: scopes, bindings and references                                 *)
(***************************************************************************)
\* The scopes around s, s included: the scope stack while s is traversed.
ScopeStack(p) ==
    LET around[s \in DOMAIN p] ==
            IF s = 1 THEN {1} ELSE {s} \cup around[p[s].parent]
    IN  around

IsFunction(p, s) == p[s].kind \in Functions
ContainingFunction(p, s) ==
    Max({a \in ScopeStack(p)[s] : a = 1 \/ IsFunction(p, a)})

\* The scopes from s outwards, up to and without the scope t around it.
Between(p, s, t) == {a \in ScopeStack(p)[s] : a > t}

\* The scope whose closure holds the captured variables of s.
InstanceScope(p, s) ==
    Max({a \in ScopeStack(p)[s] : p[a].kind \notin SharesInstance})

Binding(s, k, f) == [scope |-> s, kind |-> k, func |-> f]
Declared(p, s) == {f \in DOMAIN p : p[f].kind = "declaration" /\ p[f].parent = s}
Bindings(p) ==
    UNION {{Binding(s, k, 0) : k \in p[s].binds}
             \cup {Binding(s, "function", f) : f \in Declared(p, s)} : s \in DOMAIN p}

\* Every reference that could be written: the binding is in a scope around.
PossibleReferences(p) ==
    {r \in [from : DOMAIN p, to : Bindings(p)] :
        r.to.scope \in ScopeStack(p)[r.from] /\ p[r.from].kind # "class"}

IsCaptured(p, refs, b) ==
    \E r \in refs : r.to = b /\ ContainingFunction(p, r.from)
                                # ContainingFunction(p, b.scope)

\* markClosureChain for each reference that leaves its function.
AccessesParent(p, refs) ==
    UNION {Between(p, r.from, r.to.scope) :
             r \in {q \in refs : /\ q.to.scope # 1
                                 /\ ContainingFunction(p, q.from)
                                      # ContainingFunction(p, q.to.scope)}}

FunctionIsClosure(p, refs) == {f \in AccessesParent(p, refs) : IsFunction(p, f)}

\* The functions that registerWithEmbeddingLocation gives to scope h and that
\* turn out to be closures.
EmbeddingCandidates(p, refs, h) ==
    {f \in FunctionIsClosure(p, refs) :
        p[f].kind # "constructor" /\ InstanceScope(p, p[f].parent) = h}

-----------------------------------------------------------------------------
(***************************************************************************)
(* Pass 2: slots                                                           *)
(***************************************************************************)
IsAsync(p, s) == p[s].kind = "async"

EmbeddedAll(p, refs) == {f \in FunctionIsClosure(p, refs) : p[f].kind # "constructor"}
\* The functions that are embedded: the first closure of each scope that is
\* not an async function.
Embedded(p, refs) ==
    {Min(EmbeddingCandidates(p, refs, h)) :
        h \in {g \in DOMAIN p : /\ ~IsAsync(p, g)
                                /\ EmbeddingCandidates(p, refs, g) # {}}}

SlotType(p, refs, b) ==
    LET used == \E r \in refs : r.to = b
        capt == IsCaptured(p, refs, b)
    IN  IF b.scope = 1 /\ capt THEN "global"
        ELSE IF b.kind = "this"
             THEN IF capt \/ (IsAsync(p, b.scope) /\ used) THEN "closure" ELSE "argument"
        ELSE IF b.kind \in {"param", "written"}
             THEN IF capt \/ IsAsync(p, b.scope) THEN "closure"
                  ELSE IF b.kind = "written" THEN "local" ELSE "argument"
        ELSE IF capt THEN "closure" ELSE "local"

\* The order in which slots are given out: scope by scope, and in a scope
\* first this, the parameters, the exception, var, functions, let and const.
Turn(b) ==
    LET rank == [this |-> 0, param |-> 1, written |-> 1, catchParam |-> 2,
                 var |-> 3, function |-> 4, let |-> 5]
    IN  b.scope * 100 + rank[b.kind] * 10 + b.func

\* var declarations go to the closure of the function, all others to that of
\* the scope that has an instance of its own.
ClosureScope(p, b) ==
    IF b.kind = "var" THEN ContainingFunction(p, b.scope)
    ELSE InstanceScope(p, b.scope)

ClosureBindings(p, refs, h) ==
    {b \in Bindings(p) : SlotType(p, refs, b) = "closure" /\ ClosureScope(p, b) = h}
LocalBindings(p, refs, s) ==
    {b \in Bindings(p) : b.scope = s /\ SlotType(p, refs, b) = "local"}

\* Stack slots: the synchronous result and the catch target of an async
\* function, the catch target of a try block, then the variables.
Reserved(p, s) == IF IsAsync(p, s) THEN 3 ELSE IF p[s].kind = "try" THEN 2 ELSE 0
DepthInside(p, refs, s) ==
    MapThenSumSet(LAMBDA a : Reserved(p, a) + Cardinality(LocalBindings(p, refs, a)),
                  {a \in ScopeStack(p)[s] : a >= ContainingFunction(p, s)})
DepthOutside(p, refs, s) ==
    DepthInside(p, refs, s) - Reserved(p, s) - Cardinality(LocalBindings(p, refs, s))

\* Slots of a closure in front of the variables: the continuation, the
\* callback and what an await saves; or the function that is embedded.
AwaitSaves(p, refs, f) ==
    Max({0} \cup {DepthInside(p, refs, a) - 3 :
                    a \in {s \in DOMAIN p : p[s].awaits /\ ContainingFunction(p, s) = f}})
Leading(p, refs, h) ==
    IF IsAsync(p, h) THEN 2 + AwaitSaves(p, refs, h)
    ELSE IF EmbeddingCandidates(p, refs, h) # {} THEN 1 ELSE 0

\* The size of the closure of a scope, 0 if it needs none.  The last slot of a
\* closure that has a parent refers to it.
SlotCount(p, refs, h) ==
    LET own == Leading(p, refs, h) + Cardinality(ClosureBindings(p, refs, h))
    IN  IF own > 0 /\ h \in AccessesParent(p, refs) THEN own + 1 ELSE own

SlotIndex(p, refs, b) ==
    IF SlotType(p, refs, b) = "closure"
    THEN Leading(p, refs, ClosureScope(p, b))
           + Cardinality({c \in ClosureBindings(p, refs, ClosureScope(p, b)) : Turn(c) < Turn(b)})
    ELSE DepthOutside(p, refs, b.scope) + Reserved(p, b.scope)
           + Cardinality({c \in LocalBindings(p, refs, b.scope) : Turn(c) < Turn(b)})

-----------------------------------------------------------------------------
(***************************************************************************)
(* Pass 3: the index of a slot relative to the scope of a reference        *)
(***************************************************************************)
StepOverFlat(p, refs, s) == SlotCount(p, refs, s)
StepOver(p, refs, s) ==
    SlotCount(p, refs, s)
      + (IF IsFunction(p, s) /\ s \notin Embedded(p, refs) THEN 2 ELSE 0)
RelativeIndex(p, refs, r) ==
    SlotIndex(p, refs, r.to)
      + MapThenSumSet(LAMBDA s : StepOver(p, refs, s), Between(p, r.from, r.to.scope))

\* What the code generator knows of a program.
Compiled(p, refs) ==
    [slotCount |-> [s \in DOMAIN p |-> SlotCount(p, refs, s)],
     capture   |-> AccessesParent(p, refs),
     embedded  |-> Embedded(p, refs),
     slotType  |-> [b \in Bindings(p) |-> SlotType(p, refs, b)],
     index     |-> [b \in Bindings(p) |-> SlotIndex(p, refs, b)],
     depth     |-> [s \in DOMAIN p |-> DepthOutside(p, refs, s)],
     access    |-> [r \in refs |-> RelativeIndex(p, refs, r)]]

-----------------------------------------------------------------------------
(***************************************************************************)
(* The machine                                                             *)
(***************************************************************************)
VARIABLES
    prog,       \* the scope tree
    refs,       \* its references
    code,       \* what the compiler made of it
    heap,       \* closures: sequences of slots
    instances,  \* instances of scopes, with the instance around each
    values,     \* function values that the program has created
    stack,      \* activations; the closure of each is the closure register
    suspended   \* activations of async functions that wait

vars == <<prog, refs, code, heap, instances, values, stack, suspended>>

\* What a slot holds: the variable of an instance of a scope, a function, a
\* reference to another closure, or something else.
Var(b, i) == <<"var", b, i>>
Code(f) == <<"code", f>>
ScopeRef(c) == <<"scope", c>>
Other == <<"other">>

\* The closure that the last slot of one refers to.
Parent(slots) == IF Last(slots)[1] = "scope" THEN Last(slots)[2] ELSE 0

\* The closure and slot that an index finds from closure c on: what does not
\* fit in a closure goes on in the one that its last slot refers to.
FindScopedVariable(h, c, index) ==
    LET from[o \in 0 .. Len(h), k \in 0 .. index] ==
            IF o = 0 THEN <<0, 0>>
            ELSE IF k < Len(h[o]) THEN <<o, k + 1>>
            ELSE from[Parent(h[o]), k - Len(h[o])]
    IN  from[c, index]

StoreScoped(h, c, index, value) ==
    LET at == FindScopedVariable(h, c, index)
    IN  IF at[1] = 0 THEN h ELSE [h EXCEPT ![at[1]][at[2]] = value]

\* ScopePush, ScopeNew and AsyncStart: the closure of an instance of scope s.
ScopePushOrNew(h, c, s) ==
    LET n == code.slotCount[s]
    IN  IF n = 0 THEN h
        ELSE Append(h, [k \in 1 .. n |-> IF k = n /\ s \in code.capture
                                         THEN ScopeRef(c) ELSE Other])

\* The function values that scope s, with closure c, makes of functions fs: a
\* plain function, the closure itself, or a new closure of two slots.
NewClosures(fs) == {f \in fs : f \in code.capture /\ f \notin code.embedded}
CreateOn(h, c, fs) ==
    LET embed == IF fs \cap code.capture \cap code.embedded = {} THEN h
                 ELSE StoreScoped(h, c, 0, Code(Min(fs \cap code.capture \cap code.embedded)))
        order == SetToSortSeq(NewClosures(fs), <)
    IN  embed \o [n \in DOMAIN order |-> <<Code(order[n]), ScopeRef(c)>>]
Created(h, c, fs, i) ==
    {[func |-> f, inst |-> i,
      closure |-> IF f \notin code.capture THEN 0
                  ELSE IF f \in code.embedded THEN c
                  ELSE Len(h) + Cardinality({g \in NewClosures(fs) : g <= f})] : f \in fs}

\* The prologue of scope s: its closure, its variables in closure slots, its
\* variables on the stack and the functions it declares.
ScopeSlots(s, type) == {b \in DOMAIN code.slotType : b.scope = s /\ code.slotType[b] = type}
Initialised(h, c, s, i) ==
    FoldSet(LAMBDA b, g : StoreScoped(g, c, code.index[b], Var(b, i)), h, ScopeSlots(s, "closure"))
PushedVars(s, i) ==
    LET order == SetToSortSeq(ScopeSlots(s, "local"), LAMBDA a, b : Turn(a) < Turn(b))
    IN  [n \in 1 .. Reserved(prog, s) |-> Other] \o [n \in DOMAIN order |-> Var(order[n], i)]

\* frame is the activation in front of the prologue, i the instance around s.
EnterScope(below, frame, s, i) ==
    /\ Len(instances) < MaxInstances
    /\ instances' = Append(instances, [scope |-> s, up |-> i])
    /\ \E inst \in {Len(instances) + 1} :
       \E c \in {IF code.slotCount[s] = 0 THEN frame.closure ELSE Len(heap) + 1} :
       \E h \in {Initialised(ScopePushOrNew(heap, frame.closure, s), c, s, inst)} :
          /\ heap' = CreateOn(h, c, Declared(prog, s))
          /\ values' = values \cup Created(h, c, Declared(prog, s), inst)
          /\ stack' = Append(below, [scope   |-> s, inst |-> inst, closure |-> c,
                                     vars    |-> frame.vars \o PushedVars(s, inst)])
    /\ Cardinality(values') <= MaxClosures

Top == stack[Len(stack)]
Below == Front(stack)
Frame(c, vs) == [closure |-> c, vars |-> vs]

\* The statements of a scope run in order; a part of it runs once in each
\* instance of the scope.
LaterPartsUntouched(s) ==
    /\ \A n \in DOMAIN instances :
          instances[n].up = Top.inst /\ ~IsFunction(prog, instances[n].scope)
             => \/ instances[n].scope < s
                \/ prog[s].kind = "while" /\ instances[n].scope = s
    /\ \A v \in values : v.inst = Top.inst /\ prog[v.func].kind # "declaration" => v.func < s
IsPartOfTop(s) ==
    /\ stack # <<>> /\ s # 1
    /\ \/ prog[s].parent = Top.scope
       \/ /\ prog[prog[s].parent].kind = "class"
          /\ prog[prog[s].parent].parent = Top.scope
    /\ LaterPartsUntouched(s)

\* A block, a loop or a try statement is entered.
Enter(s) ==
    /\ IsPartOfTop(s) /\ prog[s].kind \in {"block", "while", "for", "body", "try"}
    /\ EnterScope(Below, Frame(Top.closure, Top.vars), s, Top.inst)
    /\ UNCHANGED <<prog, refs, code, suspended>>

\* The epilogue: ScopePop, ScopeDiscard, Pop and EndTry.
Leave ==
    /\ stack # <<>> /\ Top.scope # 1 /\ ~IsFunction(prog, Top.scope)
    /\ stack' = Append(Below,
          [scope   |-> prog[Top.scope].parent,
           inst    |-> instances[Top.inst].up,
           closure |-> IF code.slotCount[Top.scope] = 0 THEN Top.closure
                       ELSE IF Top.scope \in code.capture
                            THEN Parent(heap[Top.closure])
                       ELSE 0,
           vars    |-> SubSeq(Top.vars, 1, code.depth[Top.scope])])
    /\ UNCHANGED <<prog, refs, code, heap, instances, values, suspended>>

\* The end of an iteration: the loop variables get a new instance, and the
\* closure that holds them is cloned.
Iterate ==
    /\ stack # <<>> /\ prog[Top.scope].kind = "for" /\ Len(instances) < MaxInstances
    /\ instances' = Append(instances, instances[Top.inst])
    /\ \E inst \in {Len(instances) + 1} :
       \E renew \in {[v \in {Var(b, Top.inst) : b \in {c \in Bindings(prog) : c.scope = Top.scope}}
                        |-> Var(v[2], inst)]} :
       \E Renewed \in {[vs \in {Top.vars} \cup (IF Top.closure = 0 THEN {} ELSE {heap[Top.closure]})
                          |-> [n \in DOMAIN vs |-> IF vs[n] \in DOMAIN renew THEN renew[vs[n]]
                                                   ELSE vs[n]]]} :
          IF code.slotCount[Top.scope] > 0
          THEN /\ heap' = Append(heap, Renewed[heap[Top.closure]])
               /\ stack' = Append(Below, [Top EXCEPT !.inst = inst, !.closure = Len(heap) + 1,
                                                     !.vars = Renewed[Top.vars]])
          ELSE /\ stack' = Append(Below, [Top EXCEPT !.inst = inst, !.vars = Renewed[Top.vars]])
               /\ UNCHANGED heap
    /\ UNCHANGED <<prog, refs, code, values, suspended>>

\* A function expression, a method or a class is evaluated.
Evaluate(f) ==
    /\ IsPartOfTop(f) /\ IsFunction(prog, f) /\ prog[f].kind # "declaration"
    /\ Cardinality(values) < MaxClosures
    /\ heap' = CreateOn(heap, Top.closure, {f})
    /\ values' = values \cup Created(heap, Top.closure, {f}, Top.inst)
    /\ UNCHANGED <<prog, refs, code, instances, stack, suspended>>

\* A call of a function value, by the program or by the host.
Call(v) ==
    /\ Len(stack) < MaxCalls
    /\ EnterScope(stack, Frame(v.closure, <<>>), v.func, v.inst)
    /\ UNCHANGED <<prog, refs, code, suspended>>

Return ==
    /\ stack # <<>> /\ stack' = Below
    /\ UNCHANGED <<prog, refs, code, heap, instances, values, suspended>>

\* The instance of scope s around instance i.
InstanceAround(i, s) ==
    LET around[n \in 0 .. i] ==
            IF n = 0 THEN 0 ELSE IF instances[n].scope = s THEN n ELSE around[instances[n].up]
    IN  around[i]

\* The try blocks that activation n is in, and the handler of one.
OpenTries(n) ==
    {t \in Between(prog, stack[n].scope, ContainingFunction(prog, stack[n].scope)) :
        prog[t].kind = "try"}
Handler(t) ==
    Min({c \in DOMAIN prog : c > t /\ prog[c].kind = "catch" /\ prog[c].parent = prog[t].parent})

\* A throw goes to the innermost try block.  Frames are popped and the stack
\* is cut; the closure register stays as it is in the frame that catches.
Throw ==
    /\ \E n \in DOMAIN stack :
       /\ OpenTries(n) # {} /\ \A m \in n + 1 .. Len(stack) : OpenTries(m) = {}
       /\ \E t \in {Max(OpenTries(n))} :
             EnterScope(SubSeq(stack, 1, n - 1),
                        Frame(stack[n].closure, SubSeq(stack[n].vars, 1, code.depth[t])),
                        Handler(t), instances[InstanceAround(stack[n].inst, t)].up)
    /\ UNCHANGED <<prog, refs, code, suspended>>

\* An await saves the stack in the closure, from its third slot on, and the
\* code where to go on in its first; resuming loads the stack from there.
Await ==
    /\ stack # <<>> /\ prog[Top.scope].awaits
    /\ \E saved \in {SubSeq(Top.vars, 4, Len(Top.vars))} :
          /\ heap' = FoldSet(LAMBDA n, h : StoreScoped(h, Top.closure, n + 1, saved[n]),
                             StoreScoped(heap, Top.closure, 0, Other), DOMAIN saved)
          /\ suspended' = suspended \cup {[frame |-> Top, count |-> Len(saved)]}
    /\ stack' = Below
    /\ UNCHANGED <<prog, refs, code, instances, values>>

Resume(w) ==
    /\ stack = <<>>
    /\ suspended' = suspended \ {w}
    /\ stack' = <<[w.frame EXCEPT !.vars =
          [n \in 1 .. 3 + w.count |->
              IF n <= 3 THEN Other
              ELSE \* slot of the closure at index n - 2
                   LET at == FindScopedVariable(heap, w.frame.closure, n - 2)
                   IN  IF at[1] = 0 THEN Other ELSE heap[at[1]][at[2]]]]>>
    /\ UNCHANGED <<prog, refs, code, heap, instances, values>>

-----------------------------------------------------------------------------
(***************************************************************************)
(* Programs that the compiler translates wrongly are excluded by name.     *)
(***************************************************************************)
\* A loop or a loop body with a closure of its own.
HasOwnClosure(s) == prog[s].kind \in {"for", "body"} /\ code.slotCount[s] > 0
OutsideInFunction(s) ==
    {a \in ScopeStack(prog)[s] : a < s /\ a >= ContainingFunction(prog, s)}

\* The closure of a loop refers to the closure around it, if there is one that
\* the function may still need.
LoopsKeepTheirParent ==
    \A s \in DOMAIN prog :
        HasOwnClosure(s) =>
            \/ s \in code.capture
            \/ /\ \A a \in OutsideInFunction(s) : code.slotCount[a] = 0
               /\ ContainingFunction(prog, s) \notin code.capture

\* Nothing of this kind happens inside such a loop.
InLoopWithClosure(s) == \E a \in OutsideInFunction(s) \cup {s} : HasOwnClosure(a)
NoAwaitInLoop == \A s \in DOMAIN prog : prog[s].awaits => ~InLoopWithClosure(s)
NoThrowOutOfLoop ==
    \A t \in DOMAIN prog, a \in DOMAIN prog :
        prog[t].kind = "try" /\ HasOwnClosure(a) => t \notin OutsideInFunction(a)
NoVarOfCatchInLoop ==
    \A b \in DOMAIN code.slotType :
        b.kind = "var" /\ code.slotType[b] = "closure" => ~InLoopWithClosure(b.scope)

\* No variable of the body of a while loop is captured.
NoCaptureInWhile ==
    \A b \in DOMAIN code.slotType : code.slotType[b] = "closure" =>
        \A a \in Between(prog, b.scope, InstanceScope(prog, b.scope)) : prog[a].kind # "while"

WithinLimits ==
    LoopsKeepTheirParent /\ NoAwaitInLoop /\ NoThrowOutOfLoop /\ NoVarOfCatchInLoop
      /\ NoCaptureInWhile

Init ==
    /\ prog \in Shapes
    /\ refs \in UNION {kSubset(k, PossibleReferences(prog)) : k \in 0 .. MaxReferences}
    /\ code = Compiled(prog, refs)
    /\ OnlyWithinLimits => WithinLimits
    /\ heap = <<>> /\ instances = <<>> /\ values = {} /\ stack = <<>> /\ suspended = {}

\* The entry function of the module.
Load ==
    /\ instances = <<>>
    /\ EnterScope(<<>>, Frame(0, <<>>), 1, 0)
    /\ UNCHANGED <<prog, refs, code, suspended>>

Next ==
    \/ Load
    \/ \E s \in DOMAIN prog : Enter(s) \/ Evaluate(s)
    \/ Leave \/ Iterate \/ Return \/ Throw \/ Await
    \/ \E v \in values : Call(v)
    \/ \E w \in suspended : Resume(w)

Spec == Init /\ [][Next]_vars


-----------------------------------------------------------------------------
(***************************************************************************)
(* Lexical scoping                                                         *)
(***************************************************************************)
\* What a reference of an activation finds in the slot that it is compiled to.
Reads(frame, r) ==
    IF code.slotType[r.to] = "local" THEN frame.vars[code.index[r.to] + 1]
    ELSE LET at == FindScopedVariable(heap, frame.closure, code.access[r])
         IN  IF at[1] = 0 THEN Other ELSE heap[at[1]][at[2]]

FindsBinding(frame) ==
    \A r \in refs :
        r.from = frame.scope /\ code.slotType[r.to] \in {"local", "closure"}
          => Reads(frame, r) = Var(r.to, InstanceAround(frame.inst, r.to.scope))

\* Lexical scoping: whatever closures were created, called, cloned, suspended
\* and left before, every reference that is compiled to a slot of the stack or
\* to a relative index reaches the slot of its variable, in the instance of
\* the scope that the language prescribes.  That is, for the programs within limits, where
\* the layout and the closure register of the machine agree: OnlyWithinLimits leaves out a
\* loop with a closure of its own in a function with captured variables, and inside such a
\* loop a var in a catch block, a throw out of it and an await; and the body of a while or
\* do loop, which has one instance for all iterations.
ReferencesFindBindings ==
    \A n \in DOMAIN stack : FindsBinding(stack[n])

\* A function value runs its function: the first slot of a closure, which may
\* also be the scope of many variables, holds that function as long as the
\* value exists.
ClosuresRunTheirFunction ==
    \A v \in values : v.closure # 0 => heap[v.closure][1] = Code(v.func)
=============================================================================
