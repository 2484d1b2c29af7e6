------------------------------ MODULE MCScopes ------------------------------
(***************************************************************************)
(* Small programs for Scopes.  A shape lists the scopes of a program; TLC  *)
(* adds every set of up to MaxReferences references.                       *)
(***************************************************************************)
EXTENDS Scopes

Scope(parent, kind, binds) ==
    [parent |-> parent, kind |-> kind, binds |-> binds, awaits |-> FALSE]
Awaiting(parent, kind, binds) ==
    [parent |-> parent, kind |-> kind, binds |-> binds, awaits |-> TRUE]
Module == Scope(0, "module", {})

\* Two functions in one scope, one of them in a block.
Siblings == <<Module, Scope(1, "function", {"param", "let"}), Scope(2, "function", {}),
              Scope(2, "block", {"let"}), Scope(4, "function", {})>>
\* Functions in functions.
Nested == <<Module, Scope(1, "function", {"let"}), Scope(2, "function", {"written"}),
            Scope(3, "function", {"this"})>>
\* Function declarations next to each other and inside each other.
Declarations == <<Module, Scope(1, "declaration", {"param"}), Scope(2, "declaration", {"var"}),
                  Scope(2, "declaration", {})>>
\* A block at the top level of a module.
TopLevel == <<Scope(0, "module", {"let"}), Scope(1, "block", {"let"}),
              Scope(2, "declaration", {}), Scope(2, "function", {"let"})>>
\* A for loop whose body creates a function.
Loop == <<Module, Scope(1, "function", {"param"}), Scope(2, "for", {"let"}),
          Scope(3, "body", {"let"}), Scope(4, "function", {})>>
\* A for loop whose header creates a function.
LoopHeader == <<Module, Scope(1, "function", {"written"}), Scope(2, "for", {"let"}),
                Scope(3, "function", {})>>
\* A while loop whose body creates a function.
WhileLoop == <<Module, Scope(1, "function", {"let"}), Scope(2, "while", {"let"}),
               Scope(3, "function", {})>>
\* Functions in a try block and in its handler.
TryCatch == <<Module, Scope(1, "function", {"let"}), Scope(2, "try", {"let"}),
              Scope(3, "function", {}), Scope(2, "catch", {"catchParam", "var"}),
              Scope(5, "function", {})>>
\* A class in a function: its constructor or a method, and a function in there.
Class == <<Module, Scope(1, "function", {"param"}), Scope(2, "class", {}),
           Scope(3, "constructor", {"this"}), Scope(4, "block", {"written"}),
           Scope(5, "function", {})>>
Method == <<Module, Scope(1, "function", {"let"}), Scope(2, "class", {}),
            Scope(3, "function", {"this"}), Scope(4, "function", {})>>
\* An async function that waits in a block.
AsyncFunction == <<Module, Scope(1, "async", {"param"}), Awaiting(2, "block", {"let", "var"}),
                   Scope(3, "function", {})>>
\* An async function with a loop.
AsyncLoop == <<Module, Awaiting(1, "async", {"param"}), Scope(2, "for", {"let"}),
               Awaiting(3, "body", {"let"}), Scope(4, "function", {})>>
\* A handler in a loop, with a variable of its own.
HandlerInLoop == <<Module, Scope(1, "function", {"let"}), Scope(2, "for", {"let"}),
                   Scope(3, "body", {}), Scope(4, "try", {}), Scope(4, "catch", {"var"}),
                   Scope(6, "function", {})>>

\* A loop between a captured variable and its use in the same function.
LoopInClosure == <<Module, Scope(1, "function", {"let"}), Scope(2, "function", {}),
                   Scope(2, "for", {"let"}), Scope(4, "function", {})>>
\* A loop in a try block.
LoopInTry == <<Module, Scope(1, "function", {}), Scope(2, "try", {}), Scope(3, "for", {"let"}),
               Scope(4, "function", {}), Scope(2, "catch", {"catchParam"}),
               Scope(6, "function", {})>>

MCLoopShapes == {LoopInClosure}
MCShapes == {Siblings, Nested, Declarations, TopLevel, Loop, LoopHeader, WhileLoop, TryCatch,
             Class, Method, AsyncFunction, AsyncLoop, HandlerInLoop,
             LoopInClosure, LoopInTry}
=============================================================================
