-------------------------- MODULE SyncSocketProofs --------------------------
(***************************************************************************)
(* Proofs about SyncSocket for any number of messages and sends, with and  *)
(* without a timeout.                                                      *)
(***************************************************************************)
EXTENDS SyncSocket, SequenceTheorems, TLAPS

Kinds == {"listening", "error", "client-connected", "message", "close", "socket error"}
Posted == [kind : Kinds, wide : BOOLEAN]

(* What is in the variables.  A thread is in `asleep` exactly when its     *)
(* program counter says so, and the class is closed only between calls.    *)
Types ==
    /\ signal \in {NO_MESSAGE, MESSAGE_WAITING}
    /\ buffer \in Nat
    /\ nested \in Nat
    /\ kinds \in Seq(Posted)
    /\ wpc \in {"start", "idle", "wait", "asleep", "check", "write", "signal", "length", "notify", "dead"}
    /\ mpc \in {"idle", "wait", "asleep", "check", "length", "decode", "clear", "reset", "notify", "handle"}
    /\ asleep \subseteq {"main", "worker"}
    /\ "main" \in asleep <=> mpc = "asleep"
    /\ "worker" \in asleep <=> wpc = "asleep"
    /\ state = "closed" => mpc = "idle"
    /\ received \in Seq([message : Nat, length : Nat])
    /\ length \in Nat /\ heard \in Nat

(* The message that the worker posts is in the buffer from the first write *)
(* on, and before it the message before.  The first write follows a flag   *)
(* that says that the buffer is vacant.                                    *)
BufferHolds ==
    /\ wpc \in {"wait", "asleep", "check"} => buffer + 1 = Message
    /\ wpc \in {"start", "idle", "signal", "length", "notify"} => buffer = Message
    /\ wpc \in {"write", "dead"} => buffer \in {Message, Message - 1}
    /\ wpc = "write" /\ buffer # Message => signal = NO_MESSAGE

LastMessage == IF received = << >> THEN 0 ELSE Last.message

(* The main thread has read what is in the buffer or the message before    *)
(* that; not yet the one in the buffer only if the flag is up or about to  *)
(* be raised, or if the worker has ended.                                  *)
MainFollows ==
    /\ LastMessage \in {buffer, buffer - 1}
    /\ signal = NO_MESSAGE /\ wpc \notin {"signal", "dead"} => LastMessage = buffer
    /\ mpc \in {"length", "decode", "clear"} => signal = MESSAGE_WAITING
    /\ mpc = "clear" => LastMessage = buffer

(* The inductive invariant.                                                *)
IInv == Types /\ BufferHolds /\ MainFollows /\ NoLostWakeUp /\ NoMessageSkipped

USE SocketAssumption DEF NO_MESSAGE, MESSAGE_WAITING, Short


LEMMA InitEstablishes == Init => IInv
BY DEF Init, IInv, Types, BufferHolds, MainFollows, NoLostWakeUp, NoMessageSkipped, LastMessage,
       Message

-----------------------------------------------------------------------------
(* The worker.  A message has the next number when it is posted.           *)
LEMMA PostPreserves ==
    ASSUME IInv, wpc \in {"start", "idle"}, UNCHANGED <<shared, asleep, nested, main>>,
           NEW kind \in Kinds, Post(kind)
    PROVE  IInv'
<1> USE DEF IInv, shared, main
<1>1. kinds' \in Seq(Posted) /\ Message' = Message + 1 /\ Message \in Nat
  <2>1. PICK wide \in BOOLEAN : kinds' = Append(kinds, [kind |-> kind, wide |-> wide])
    BY DEF Post
  <2>2. [kind |-> kind, wide |-> wide] \in Posted
    BY DEF Posted
  <2>3. kinds \in Seq(Posted)
    BY DEF Types
  <2> QED
    BY <2>1, <2>2, <2>3 DEF Message
<1>2. Types'
  BY <1>1 DEF Types, Post
<1>3. BufferHolds'
  BY <1>1 DEF Types, BufferHolds, Post
<1>4. MainFollows'
  BY DEF MainFollows, LastMessage, Last, Post
<1>5. NoLostWakeUp'
  BY DEF Types, NoLostWakeUp, Post
<1>6. NoMessageSkipped'
  BY DEF NoMessageSkipped
<1> QED
  BY <1>2, <1>3, <1>4, <1>5, <1>6

LEMMA WorkerEventPreserves ==
    ASSUME IInv, StartServer \/ Connect \/ ForwardEvent \/ FromPrimary
    PROVE  IInv'
<1>1. CASE StartServer
  BY <1>1, PostPreserves DEF StartServer, Kinds
<1>2. CASE Connect
  BY <1>2, PostPreserves DEF Connect, Kinds
<1>3. CASE ForwardEvent
  BY <1>3, PostPreserves DEF ForwardEvent, Kinds
<1>4. CASE FromPrimary
  <2>1. CASE Post("error")
    BY <1>4, <2>1, PostPreserves DEF FromPrimary, Kinds
  <2>2. CASE UNCHANGED <<wpc, kinds>>
    <3> USE <1>4, <2>2 DEF FromPrimary, IInv, shared, main
    <3>1. Types'
      BY DEF Types
    <3>2. BufferHolds' /\ MainFollows'
      BY DEF BufferHolds, MainFollows, LastMessage, Last, Message
    <3>3. NoLostWakeUp' /\ NoMessageSkipped'
      BY DEF NoLostWakeUp, NoMessageSkipped
    <3> QED
      BY <3>1, <3>2, <3>3
  <2> QED
    BY <1>4, <2>1, <2>2 DEF FromPrimary
<1> QED
  BY <1>1, <1>2, <1>3, <1>4

LEMMA WorkerWaitsPreserves ==
    ASSUME IInv, WorkerWaits \/ WorkerChecks
    PROVE  IInv'
<1> USE DEF IInv, WaitedOn, shared, main
<1>1. Types'
  <2>1. CASE WorkerWaits
    BY <2>1 DEF WorkerWaits, Types
  <2>2. CASE WorkerChecks
    BY <2>2 DEF WorkerChecks, Types
  <2> QED
    BY <2>1, <2>2
<1> USE DEF WorkerWaits, WorkerChecks
<1>2. BufferHolds'
  <2>1. Message' = Message
    BY DEF Message
  <2>2. CASE WorkerWaits
    BY <2>1, <2>2 DEF Types, BufferHolds
  <2>3. CASE WorkerChecks
    <3>1. buffer + 1 = Message /\ buffer' = buffer /\ buffer \in Nat
      BY <2>3 DEF BufferHolds, Types
    <3>2. \/ wpc' = "write" /\ signal' = NO_MESSAGE
          \/ wpc' = "wait"
      BY <2>3
    <3>3. buffer = Message - 1
      BY <3>1
    <3> QED
      BY <2>1, <3>1, <3>2, <3>3 DEF BufferHolds
  <2> QED
    BY <2>2, <2>3
<1>3. MainFollows'
  BY DEF MainFollows, LastMessage, Last
<1>4. NoLostWakeUp' /\ NoMessageSkipped'
  BY DEF Types, NoLostWakeUp, NoMessageSkipped
<1> QED
  BY <1>1, <1>2, <1>3, <1>4

(* The first write of a message finds that the main thread has read the    *)
(* one before; a later one changes nothing.                                *)
LEMMA WorkerWritesPreserves ==
    ASSUME IInv, WorkerWrites
    PROVE  IInv'
<1> USE DEF IInv, WorkerWrites, main
<1>1. Message \in Nat /\ Message' = Message
  BY DEF Types, Message
<1>2. Types'
  BY <1>1 DEF Types
<1>3. BufferHolds'
  BY <1>1 DEF BufferHolds
<1>4. MainFollows'
  <2>1. LastMessage' = LastMessage
    BY DEF LastMessage, Last
  <2>2. buffer # Message => signal = NO_MESSAGE /\ buffer = Message - 1
    BY DEF BufferHolds
  <2>3. LastMessage \in {Message, Message - 1}
    BY <1>1, <2>2 DEF MainFollows
  <2>4. mpc = "clear" => LastMessage = Message
    BY <2>2 DEF MainFollows
  <2> QED
    BY <1>1, <2>1, <2>3, <2>4 DEF MainFollows
<1>5. NoLostWakeUp' /\ NoMessageSkipped'
  BY DEF Types, NoLostWakeUp, NoMessageSkipped
<1> QED
  BY <1>2, <1>3, <1>4, <1>5

LEMMA WorkerRaisesFlagPreserves ==
    ASSUME IInv, WorkerSignals \/ WorkerStoresLength
    PROVE  IInv'
<1> USE DEF IInv, main
<1>1. Types'
  <2>1. CASE WorkerSignals
    BY <2>1 DEF WorkerSignals, Types
  <2>2. CASE WorkerStoresLength
    BY <2>2 DEF WorkerStoresLength, Types, Message
  <2> QED
    BY <2>1, <2>2
<1> USE DEF WorkerSignals, WorkerStoresLength
<1>2. BufferHolds'
  BY DEF Types, BufferHolds, Message
<1>3. MainFollows'
  BY DEF MainFollows, LastMessage, Last
<1>4. NoLostWakeUp' /\ NoMessageSkipped'
  BY DEF Types, NoLostWakeUp, NoMessageSkipped
<1> QED
  BY <1>1, <1>2, <1>3, <1>4

(* When the worker notifies, nobody but the main thread can be asleep, and *)
(* it wakes up.                                                            *)
LEMMA WorkerNotifiesPreserves ==
    ASSUME IInv, WorkerNotifies
    PROVE  IInv'
<1> USE DEF IInv, shared
<1>1. /\ wpc = "notify" /\ wpc' \in {"write", "idle"} /\ nested' \in Nat
      /\ \/ mpc # "asleep" /\ mpc' = mpc /\ asleep = {} /\ asleep' = {}
         \/ mpc = "asleep" /\ mpc' = "check" /\ asleep = {"main"} /\ asleep' = {}
      /\ UNCHANGED <<signal, length, buffer, kinds, state, heard, received>>
  <2>1. wpc = "notify" /\ asleep \in {{}, {"main"}} /\ nested \in Nat
    BY DEF WorkerNotifies, Types
  <2>2. nested' \in Nat
    BY <2>1 DEF WorkerNotifies
  <2>3. CASE asleep = {}
    BY <2>1, <2>2, <2>3 DEF WorkerNotifies, Notify, Types
  <2>4. CASE asleep = {"main"}
    BY <2>1, <2>2, <2>4 DEF WorkerNotifies, Notify, Types
  <2> QED
    BY <2>1, <2>3, <2>4
<1>2. Types'
  BY <1>1 DEF Types
<1>3. BufferHolds'
  BY <1>1 DEF Types, BufferHolds, Message
<1>4. MainFollows'
  BY <1>1 DEF Types, MainFollows, LastMessage, Last
<1>5. NoLostWakeUp' /\ NoMessageSkipped'
  BY <1>1 DEF Types, NoLostWakeUp, NoMessageSkipped
<1> QED
  BY <1>2, <1>3, <1>4, <1>5

(* The worker is terminated only after the class was closed, when the main *)
(* thread does not wait for it any more.                                   *)
LEMMA WorkerEndsPreserves ==
    ASSUME IInv, WorkerTimesOut \/ Terminate
    PROVE  IInv'
<1> USE DEF IInv, shared, main
<1>1. Types' /\ BufferHolds'
  <2>1. CASE WorkerTimesOut
    BY <2>1 DEF WorkerTimesOut, Types, BufferHolds, Message
  <2>2. CASE Terminate
    BY <2>2 DEF Terminate, Types, BufferHolds, Message
  <2> QED
    BY <2>1, <2>2
<1> USE DEF WorkerTimesOut, Terminate
<1>3. MainFollows'
  BY DEF MainFollows, LastMessage, Last
<1>4. NoLostWakeUp' /\ NoMessageSkipped'
  BY DEF Types, NoLostWakeUp, NoMessageSkipped
<1> QED
  BY <1>1, <1>3, <1>4

-----------------------------------------------------------------------------
(* The main thread.                                                        *)
LEMMA MainCallsPreserves ==
    ASSUME IInv, Receive \/ Send \/ Close
    PROVE  IInv'
<1> USE DEF IInv, Receive, Send, Close, Closed, MainOnly, shared, worker
<1>1. Types'
  BY DEF Types
<1>2. BufferHolds'
  BY DEF BufferHolds, Message
<1>3. MainFollows'
  BY DEF MainFollows, LastMessage, Last
<1>4. NoLostWakeUp' /\ NoMessageSkipped'
  BY DEF Types, NoLostWakeUp, NoMessageSkipped
<1> QED
  BY <1>1, <1>2, <1>3, <1>4

LEMMA MainWaitsPreserves ==
    ASSUME IInv, MainWaits \/ MainTimesOut \/ MainChecks \/ MainReadsLength
    PROVE  IInv'
<1> USE DEF IInv, MainWaits, MainTimesOut, MainChecks, MainReadsLength, WaitedOn, Closed, MainOnly,
            shared, worker
<1>1. Types'
  BY DEF Types
<1>2. BufferHolds'
  BY DEF BufferHolds, Message
<1>3. MainFollows'
  BY DEF Types, MainFollows, LastMessage, Last
<1>4. NoLostWakeUp' /\ NoMessageSkipped'
  BY DEF Types, NoLostWakeUp, NoMessageSkipped
<1> QED
  BY <1>1, <1>2, <1>3, <1>4

(* What is read is what is in the buffer, which is the message that was    *)
(* read last or the next one.                                              *)
LEMMA MainDecodesPreserves ==
    ASSUME IInv, MainDecodes
    PROVE  IInv'
<1> USE DEF IInv, MainDecodes, MainOnly, shared, worker
<1> DEFINE r == [message |-> buffer, length |-> heard]
<1>1. received' = Append(received, r) /\ r \in [message : Nat, length : Nat]
  BY DEF Types
<1>2. Types'
  BY <1>1 DEF Types
<1>3. BufferHolds'
  BY DEF BufferHolds, Message
<1>4. /\ Len(received) \in Nat /\ Len(received') = Len(received) + 1
      /\ DOMAIN received = 1 .. Len(received) /\ DOMAIN received' = 1 .. Len(received')
      /\ \A i \in 1 .. Len(received) : received'[i] = received[i]
      /\ received'[Len(received')] = r
  <2> HIDE DEF r
  <2>1. received \in Seq([message : Nat, length : Nat])
    BY DEF Types
  <2>2. received' \in Seq([message : Nat, length : Nat])
    BY <1>1, <2>1, AppendProperties
  <2> QED
    BY <1>1, <2>1, <2>2, AppendProperties, LenProperties
<1>5. MainFollows'
  <2>1. LastMessage' = buffer
    BY <1>4 DEF LastMessage, Last
  <2> QED
    BY <2>1 DEF Types, MainFollows
<1>6. NoLostWakeUp'
  BY DEF Types, NoLostWakeUp
<1>7. NoMessageSkipped'
  <2> SUFFICES ASSUME NEW i \in DOMAIN received'
               PROVE  received'[i].message \in
                        LET before == IF i = 1 THEN 0 ELSE received'[i - 1].message
                        IN  {before, before + 1}
    BY DEF NoMessageSkipped
  <2>1. CASE i \in DOMAIN received
    BY <1>4, <2>1 DEF NoMessageSkipped
  <2>2. CASE i = Len(received) + 1
    <3>1. received'[i].message = buffer
      BY <1>4, <2>2
    <3>2. (IF i = 1 THEN 0 ELSE received'[i - 1].message) = LastMessage
      <4>1. i = 1 <=> received = << >>
        BY <2>2 DEF Types
      <4>2. i # 1 => received'[i - 1] = received[Len(received)]
        <5>1. i # 1 => i - 1 = Len(received) /\ i - 1 \in 1 .. Len(received)
          BY <1>4, <2>2
        <5> QED
          BY <1>4, <5>1
      <4> QED
        BY <4>1, <4>2 DEF LastMessage, Last
    <3>3. LastMessage \in {buffer, buffer - 1} /\ buffer \in Nat
      BY DEF Types, MainFollows
    <3>4. buffer \in {LastMessage, LastMessage + 1}
      BY <3>3
    <3> QED
      BY <3>1, <3>2, <3>4 DEF LastMessage
  <2> QED
    BY <1>4, <2>1, <2>2
<1> QED
  BY <1>2, <1>3, <1>5, <1>6, <1>7

LEMMA MainClearsPreserves ==
    ASSUME IInv, MainClearsFlag \/ MainResetsLength
    PROVE  IInv'
<1> USE DEF IInv, worker
<1>1. Types'
  <2>1. CASE MainClearsFlag
    BY <2>1 DEF MainClearsFlag, Types
  <2>2. CASE MainResetsLength
    BY <2>2 DEF MainResetsLength, Types
  <2> QED
    BY <2>1, <2>2
<1> USE DEF MainClearsFlag, MainResetsLength
<1>2. BufferHolds'
  BY DEF BufferHolds, Message
<1>3. MainFollows'
  BY DEF Types, MainFollows, LastMessage, Last
<1>4. NoLostWakeUp' /\ NoMessageSkipped'
  BY DEF Types, NoLostWakeUp, NoMessageSkipped
<1> QED
  BY <1>1, <1>2, <1>3, <1>4

LEMMA MainNotifiesPreserves ==
    ASSUME IInv, MainNotifies
    PROVE  IInv'
<1> USE DEF IInv, MainNotifies, Notify, shared
<1>1. asleep \in {{}, {"worker"}}
  BY DEF Types
<1>2. Types'
  BY <1>1 DEF Types
<1>3. BufferHolds'
  BY <1>1 DEF Types, BufferHolds, Message
<1>4. MainFollows'
  BY <1>1 DEF Types, MainFollows, LastMessage, Last
<1>5. NoLostWakeUp' /\ NoMessageSkipped'
  BY <1>1 DEF Types, NoLostWakeUp, NoMessageSkipped
<1> QED
  BY <1>2, <1>3, <1>4, <1>5

LEMMA MainHandlesPreserves ==
    ASSUME IInv, MainHandles
    PROVE  IInv'
<1> USE DEF IInv
<1>1. /\ mpc = "handle" /\ mpc' \in {"idle", "wait"}
      /\ state' = "closed" => mpc' = "idle"
      /\ UNCHANGED <<shared, asleep, worker, heard, received, sends>>
  BY DEF MainHandles, Ends, Closed, Types
<1> USE DEF shared, worker
<1>2. Types'
  BY <1>1 DEF Types
<1>3. BufferHolds'
  BY <1>1 DEF BufferHolds, Message
<1>4. MainFollows'
  BY <1>1 DEF MainFollows, LastMessage, Last
<1>5. NoLostWakeUp' /\ NoMessageSkipped'
  BY <1>1 DEF Types, NoLostWakeUp, NoMessageSkipped
<1> QED
  BY <1>2, <1>3, <1>4, <1>5

-----------------------------------------------------------------------------
LEMMA NextPreserves == IInv /\ [Next]_vars => IInv'
<1> SUFFICES ASSUME IInv, [Next]_vars PROVE IInv'
  OBVIOUS
<1>1. CASE UNCHANGED vars
  BY <1>1 DEF vars, shared, worker, main, IInv, Types, BufferHolds, MainFollows, NoLostWakeUp,
              NoMessageSkipped, LastMessage, Last, Message
<1>2. CASE StartServer \/ Connect \/ ForwardEvent \/ FromPrimary
  BY <1>2, WorkerEventPreserves
<1>3. CASE WorkerStep
  BY <1>3, WorkerWaitsPreserves, WorkerWritesPreserves, WorkerRaisesFlagPreserves,
     WorkerNotifiesPreserves DEF WorkerStep
<1>4. CASE WorkerTimesOut \/ Terminate
  BY <1>4, WorkerEndsPreserves
<1>5. CASE Receive \/ Send \/ Close
  BY <1>5, MainCallsPreserves
<1>6. CASE MainStep \/ MainTimesOut
  BY <1>6, MainWaitsPreserves, MainDecodesPreserves, MainClearsPreserves, MainNotifiesPreserves,
     MainHandlesPreserves DEF MainStep
<1> QED
  BY <1>1, <1>2, <1>3, <1>4, <1>5, <1>6 DEF Next

(* No wake-up is lost, whatever the timeouts and however often a message   *)
(* is posted again: a thread sleeps only while the flag says that it has   *)
(* nothing to do or the other thread is about to notify it.                *)
THEOREM SleepsOnlyWhenDue == Spec => []NoLostWakeUp
<1>1. IInv => NoLostWakeUp
  BY DEF IInv
<1> QED
  BY InitEstablishes, NextPreserves, <1>1, PTL DEF Spec

(* No message is skipped or overtaken: what the main thread reads is the   *)
(* message that it read last or the next one that the worker posted.       *)
THEOREM MessagesInOrder == Spec => []NoMessageSkipped
<1>1. IInv => NoMessageSkipped
  BY DEF IInv
<1> QED
  BY InitEstablishes, NextPreserves, <1>1, PTL DEF Spec

=============================================================================
