------------------------------ MODULE CallSpec ------------------------------
(***************************************************************************)
(* Structured control flow, as the users of the engine understand it: JS   *)
(* functions and host functions call each other to any depth, a JS         *)
(* function opens and closes try blocks, an exception goes to the nearest  *)
(* open try block that no host function separates from the throw, and a    *)
(* failed mvm_call gives control back to the host function that made it.   *)
(* CallMachine.tla is shown to implement this with one stack of words.     *)
(***************************************************************************)
EXTENDS Sequences, SequencesExt

CONSTANTS Code,       \* what a JS activation can be executing
          Handlers,   \* the catch blocks
          HostCode    \* stands for whatever a host function executes

VARIABLE control   \* what is active, outermost first

Item(k, at) == [kind |-> k, at |-> at]
Host   == Item("host", HostCode)
JS(c)  == Item("js", c)
Try(h) == Item("try", h)

\* The position of the last item of the kind in c, 0 if there is none.
LastOf(c, kind) == SelectLastInSeq(c, LAMBDA item : item.kind = kind)

\* Control goes back to the innermost host function of c.
Failed(c) == SubSeq(c, 1, LastOf(c, "host"))

\* An exception unwinds c: the function with the innermost try block goes on in its
\* handler, unless a host function is in the way.
Thrown(c) ==
    LET try  == LastOf(c, "try")
        kept == SubSeq(c, 1, try - 1)
    IN  IF try < LastOf(c, "host") THEN Failed(c)
        ELSE [kept EXCEPT ![LastOf(kept, "js")] = JS(c[try].at)]

\* A function ended and left c; the outermost call may go on with a job.
Left(c) == {c} \cup (IF Len(c) = 1 THEN {Append(c, JS(job)) : job \in Code} ELSE {})

\* What can be active after one step.
FromAny(c)  == {Append(c, JS(f)) : f \in Code} \cup {Append(c, Host)}
FromJS(c)   == Left(Front(c)) \cup {Thrown(c), Failed(c)} \cup {Append(c, Try(h)) : h \in Handlers}
FromTry(c)  == {Front(c), Thrown(c), Failed(c)} \cup {Append(c, Try(h)) : h \in Handlers}
FromHost(c) == Left(Front(c)) \cup {Thrown(Front(c)), Failed(Front(c))}

Successors(c) ==
    FromAny(c) \cup CASE Last(c).kind = "js"  -> FromJS(c)
                      [] Last(c).kind = "try" -> FromTry(c)
                      [] Last(c).kind = "host" /\ Len(c) > 1 -> FromHost(c)
                      [] OTHER -> {}

Init == control = <<Host>>
Next == control' \in Successors(control)
Spec == Init /\ [][Next]_control
=============================================================================
