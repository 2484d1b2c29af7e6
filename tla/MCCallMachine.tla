--------------------------- MODULE MCCallMachine ---------------------------
(***************************************************************************)
(* CallMachine for TLC.  The function f has a catch block and room for it  *)
(* and the operands of a call; the closure g, which is also every job, has *)
(* room for the operands only.  The stack holds f, two frames of g that    *)
(* its try block calls, and a host function that is called from there.     *)
(***************************************************************************)
EXTENDS CallMachine, TLC

CONSTANTS f, g, h

MCHandlersOf == (f :> {h}) @@ (g :> {})
MCFrameWords == (f :> 4) @@ (g :> 2)
=============================================================================
