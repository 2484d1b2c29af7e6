------------------------------- MODULE Handles -------------------------------
(***************************************************************************)
(* The handles of the engine (mvm_initializeHandle, vm_cloneHandle and     *)
(* mvm_releaseHandle of microvium.c).  A handle is a record in memory of   *)
(* the host, and vm->gc_handles starts a list that runs through these      *)
(* records.  The collector walks the list: what a listed handle holds      *)
(* survives, and the handle is updated when it moves.                      *)
(***************************************************************************)
EXTENDS Naturals, Sequences, FiniteSets, SequencesExt

CONSTANTS
    Handle,      \* the records of type mvm_Handle that the host has
    Nil,         \* the null pointer
    Undefined    \* VM_VALUE_UNDEFINED

ASSUME HandleAssumption == Nil \notin Handle /\ IsFiniteSet(Handle)

VARIABLES
    gcHandles,   \* vm->gc_handles, the first handle of the list
    next,        \* handle->_next
    value        \* handle->_value

handleVars == <<gcHandles, next, value>>

HandlesTypeOK(Values) ==
    /\ gcHandles \in Handle \cup {Nil}
    /\ next \in [Handle -> Handle \cup {Nil}]
    /\ value \in [Handle -> Values]

HandlesInit ==
    /\ gcHandles = Nil
    /\ next = [h \in Handle |-> Nil]
    /\ value = [h \in Handle |-> Undefined]

-----------------------------------------------------------------------------
(* The walk along the list, n handles far.                                 *)

Walk[n \in 0 .. Cardinality(Handle)] ==
    IF n = 0 THEN <<>>
    ELSE LET before    == Walk[n - 1]
             following == IF before = <<>> THEN gcHandles ELSE next[Last(before)]
         IN  IF following = Nil THEN before ELSE Append(before, following)

Listed == Walk[Cardinality(Handle)]

Initialized == {Listed[i] : i \in DOMAIN Listed}

-----------------------------------------------------------------------------
(* The operations.  The host sees to it that a handle is not in the list   *)
(* when it is initialised: vm_isHandleInitialized asserts it.              *)

InitializeHandle(h, v) ==
    /\ h \notin Initialized
    /\ next' = [next EXCEPT ![h] = gcHandles]
    /\ gcHandles' = h
    /\ value' = [value EXCEPT ![h] = v]

CloneHandle(target, source) == InitializeHandle(target, value[source])

\* The link that points to the handle, *h in the code, points behind it afterwards.
Unlink(h) ==
    IF gcHandles = h
    THEN /\ gcHandles' = next[h]
         /\ next' = [next EXCEPT ![h] = Nil]
    ELSE LET previous == CHOOSE p \in Initialized : next[p] = h
         IN  /\ next' = [next EXCEPT ![previous] = next[h], ![h] = Nil]
             /\ UNCHANGED gcHandles

\* A handle that is not in the list is only cleared: MVM_E_INVALID_HANDLE.
ReleaseHandle(h) ==
    /\ IF h \in Initialized
       THEN Unlink(h)
       ELSE next' = [next EXCEPT ![h] = Nil] /\ UNCHANGED gcHandles
    /\ value' = [value EXCEPT ![h] = Undefined]
=============================================================================
