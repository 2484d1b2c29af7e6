------------------------------ MODULE Checkpoint ------------------------------
(***************************************************************************)
(* What mvm_createSnapshot and mvm_restore promise together: the state of  *)
(* a program can be saved, and after the power was lost the program goes   *)
(* on in the state that was saved last, or not at all.                     *)
(***************************************************************************)
CONSTANT None   \* no state: the power is off, or what was saved is not readable

VARIABLES
    live,    \* the state of the program
    saved    \* the state that was saved last

vars == <<live, saved>>

\* The program runs, from any state that is saved to any other.
Write == live # None /\ live' # None /\ UNCHANGED saved

Save == live # None /\ saved' = live /\ UNCHANGED live

PowerOff == live' = None /\ UNCHANGED saved

Restore == live = None /\ saved # None /\ live' = saved /\ UNCHANGED saved

\* The medium loses what was saved, and whoever reads it finds out.
Spoil == saved' = None /\ UNCHANGED live

Init == live = None /\ saved # None

Next == Write \/ Save \/ PowerOff \/ Restore \/ Spoil

Spec == Init /\ [][Next]_vars
=============================================================================
