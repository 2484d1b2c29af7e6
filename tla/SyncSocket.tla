----------------------------- MODULE SyncSocket -----------------------------
(***************************************************************************)
(* The debug server: the synchronous virtual machine on the main thread    *)
(* receives what a web socket on a worker thread produces through one      *)
(* shared buffer, a flag and a length, with Atomics.wait and notify        *)
(* (index.ts, worker-thread.ts).                                           *)
(*                                                                         *)
(* A step is one access to shared memory of one thread.  Messages are      *)
(* numbered in the order in which the worker posts them; the number stands *)
(* for the text and for its bytes, as texts differ in length.  The trace   *)
(* of worker states, which only informs the user, is left out, and so is a *)
(* message that does not fit in the buffer.                                *)
(***************************************************************************)
EXTENDS Naturals, Sequences, FiniteSets

CONSTANTS
    HasTimeout,     \* the option `timeout` is set
    MaxMessages,    \* bound: messages that the worker posts
    MaxSends        \* bound: messages that the main thread sends

ASSUME SocketAssumption == HasTimeout \in BOOLEAN /\ {MaxMessages, MaxSends} \subseteq Nat

VARIABLES
    signal,     \* signalingArray[0]
    length,     \* signalingArray[1], as the number of the message of that many bytes,
                \* or Short
    buffer,     \* messageDataArray: the message in it
    asleep,     \* the threads that Atomics.wait has put to sleep
    wpc,        \* where the worker is
    nested,     \* calls of postMessage that wait for a nested call to return
    kinds,      \* the kinds of all messages posted, by number, and whether they are wide:
                \* texts that are not ASCII
    connection, \* of the client: "none", "open", "closed"
    inbox,      \* messages to the worker
    mpc,        \* where the main thread is
    call,       \* what it executes: "constructor", "waitForConnection", "receive", "none"
    state,      \* SynchronousWebSocketServer.state
    heard,      \* the length that receiveFromWorker has read
    received,   \* history: messages that receiveFromWorker has read, with the length it used
    sends       \* history: number of messages sent

worker == <<wpc, nested, kinds, connection>>
main == <<mpc, call, state, heard, received, sends>>
shared == <<signal, length, buffer>>
vars == <<shared, asleep, worker, inbox, main>>

NO_MESSAGE == 0
MESSAGE_WAITING == 1

\* A length that is not that of any message: 0, or fewer bytes than the message has.
Short == 0

-----------------------------------------------------------------------------
(* Atomics.wait and Atomics.notify on signalingArray[0].                   *)

\* A thread goes to sleep if the flag has value v, or goes on.
WaitedOn(v) == IF signal = v THEN "asleep" ELSE "check"

\* One of the threads that sleep wakes up, if there is one.  It looks at the flag next.
\* pc is where the threads are, after the one that notifies has gone on.
NotifyNobody(pc) ==        \* mutant of Notify
    wpc' = pc.worker /\ mpc' = pc.main /\ UNCHANGED asleep
Notify(pc) ==
    \/ asleep = {} /\ wpc' = pc.worker /\ mpc' = pc.main /\ UNCHANGED asleep
    \/ \E s \in asleep :
        /\ asleep' = asleep \ {s}
        /\ wpc' = IF s = "worker" THEN "check" ELSE pc.worker
        /\ mpc' = IF s = "main" THEN "check" ELSE pc.main

-----------------------------------------------------------------------------
(* The worker thread.                                                      *)

Message == Len(kinds)      \* the message that the worker posts

\* postMessage is called.  What comes from the client or from an error may have any
\* characters.
Post(kind) ==
    /\ Len(kinds) < MaxMessages
    /\ \E wide \in BOOLEAN :
        /\ wide => kind \in {"error", "message"}
        /\ kinds' = Append(kinds, [kind |-> kind, wide |-> wide])
    /\ wpc' = "wait"

\* The script of the worker starts the server, or fails to.
StartServer ==
    /\ wpc = "start"
    /\ \E kind \in {"listening", "error"} : Post(kind)
    /\ UNCHANGED <<shared, asleep, nested, connection, inbox, main>>

Listening == kinds # << >> /\ kinds[1].kind = "listening"

Connect ==
    /\ wpc = "idle" /\ Listening /\ connection = "none"
    /\ connection' = "open"
    /\ Post("client-connected")
    /\ UNCHANGED <<shared, asleep, nested, inbox, main>>

\* An event of the web socket is forwarded; after "close" the server is closed.
ForwardEvent ==
    /\ wpc = "idle" /\ connection = "open"
    /\ \E event \in {"message", "close", "socket error"} :
        /\ Post(event)
        /\ connection' = IF event = "close" THEN "closed" ELSE "open"
    /\ UNCHANGED <<shared, asleep, nested, inbox, main>>

\* parentPort.on('message'), registered when the client connects: send or close.
FromPrimary ==
    /\ wpc = "idle" /\ connection # "none" /\ inbox # << >>
    /\ inbox' = Tail(inbox)
    /\ IF Head(inbox) = "close"
       THEN connection' = "closed" /\ UNCHANGED <<wpc, kinds>>
       ELSE \/ UNCHANGED <<connection, wpc, kinds>>
            \/ Post("error") /\ UNCHANGED connection      \* ws.send throws
    /\ UNCHANGED <<shared, asleep, nested, main>>

WorkerWaits ==
    /\ wpc = "wait"
    /\ wpc' = WaitedOn(MESSAGE_WAITING)
    /\ asleep' = IF signal = MESSAGE_WAITING THEN asleep \cup {"worker"} ELSE asleep
    /\ UNCHANGED <<shared, nested, kinds, connection, inbox, main>>

\* A wake-up with the flag unchanged: a nested call posts the message, and then
\* this call does so as well.
WorkerDoesNotCheck ==      \* mutant of WorkerChecks: every wake-up is taken for a vacant buffer
    /\ wpc = "check"
    /\ wpc' = "write"
    /\ UNCHANGED <<shared, asleep, nested, kinds, connection, inbox, main>>
WorkerChecks ==
    /\ wpc = "check"
    /\ IF signal = NO_MESSAGE
       THEN wpc' = "write" /\ UNCHANGED nested
       ELSE wpc' = "wait" /\ nested' = nested + 1
    /\ UNCHANGED <<shared, asleep, kinds, connection, inbox, main>>

WorkerWrites ==
    /\ wpc = "write"
    /\ buffer' = Message
    /\ wpc' = "signal"
    /\ UNCHANGED <<signal, length, asleep, nested, kinds, connection, inbox, main>>

WorkerSignals ==
    /\ wpc = "signal"
    /\ signal' = MESSAGE_WAITING
    /\ wpc' = "length"
    /\ UNCHANGED <<length, buffer, asleep, nested, kinds, connection, inbox, main>>

\* messageJSON.length counts UTF-16 units, which are fewer than the bytes of a text
\* that is not ASCII.
WorkerStoresLength ==
    /\ wpc = "length"
    /\ length' = IF kinds[Message].wide THEN Short ELSE Message
    /\ wpc' = "notify"
    /\ UNCHANGED <<signal, buffer, asleep, nested, kinds, connection, inbox, main>>

WorkerNotifies ==
    /\ wpc = "notify"
    /\ Notify([worker |-> IF nested > 0 THEN "write" ELSE "idle", main |-> mpc])
    /\ nested' = IF nested > 0 THEN nested - 1 ELSE 0
    /\ UNCHANGED <<shared, kinds, connection, inbox, call, state, heard, received, sends>>

\* The error that postMessage throws after a timeout ends the thread.
WorkerTimesOut ==
    /\ HasTimeout /\ "worker" \in asleep
    /\ wpc' = "dead"
    /\ asleep' = asleep \ {"worker"}
    /\ UNCHANGED <<shared, nested, kinds, connection, inbox, main>>

\* worker.terminate() takes effect, at some time.
Terminate ==
    /\ state = "closed" /\ wpc # "dead"
    /\ wpc' = "dead"
    /\ asleep' = asleep \ {"worker"}
    /\ UNCHANGED <<shared, nested, kinds, connection, inbox, main>>

-----------------------------------------------------------------------------
(* The main thread.                                                        *)

MainOnly == UNCHANGED <<shared, asleep, worker, inbox>>

\* The functions of the class that receive.
Receive ==
    /\ mpc = "idle" /\ state \in {"listening", "connected"}
    /\ \E f \in {"waitForConnection", "receive"} :
        /\ f = "waitForConnection" => state = "listening"
        /\ call' = f
    /\ mpc' = "wait"
    /\ UNCHANGED <<state, heard, received, sends>> /\ MainOnly

Send ==
    /\ mpc = "idle" /\ state # "initial" /\ sends < MaxSends
    /\ inbox' = Append(inbox, "send")
    /\ sends' = sends + 1
    /\ UNCHANGED <<shared, asleep, worker, mpc, call, state, heard, received>>

\* The class is closed, and its current function, if any, ends.
Closed ==
    /\ state' = "closed"
    /\ inbox' = IF state = "closed" THEN inbox ELSE Append(inbox, "close")
    /\ mpc' = "idle" /\ call' = "none"

Close ==
    /\ mpc = "idle" /\ state \in {"listening", "connected"}
    /\ Closed
    /\ UNCHANGED <<shared, asleep, worker, heard, received, sends>>

MainWaits ==
    /\ mpc = "wait"
    /\ mpc' = WaitedOn(NO_MESSAGE)
    /\ asleep' = IF signal = NO_MESSAGE THEN asleep \cup {"main"} ELSE asleep
    /\ UNCHANGED <<shared, worker, inbox, call, state, heard, received, sends>>

MainTimesOut ==
    /\ HasTimeout /\ "main" \in asleep
    /\ asleep' = asleep \ {"main"}
    /\ Closed
    /\ UNCHANGED <<shared, worker, heard, received, sends>>

MainChecks ==
    /\ mpc = "check"
    /\ mpc' = IF signal = MESSAGE_WAITING THEN "length" ELSE "wait"
    /\ UNCHANGED <<call, state, heard, received, sends>> /\ MainOnly

MainReadsLength ==
    /\ mpc = "length"
    /\ heard' = length
    /\ mpc' = "decode"
    /\ UNCHANGED <<call, state, received, sends>> /\ MainOnly

MainDecodes ==
    /\ mpc = "decode"
    /\ received' = Append(received, [message |-> buffer, length |-> heard])
    /\ mpc' = "clear"
    /\ UNCHANGED <<call, state, heard, sends>> /\ MainOnly

MainClearsFlag ==
    /\ mpc = "clear"
    /\ signal' = NO_MESSAGE
    /\ mpc' = "reset"
    /\ UNCHANGED <<length, buffer, asleep, worker, inbox, call, state, heard, received, sends>>

MainResetsLength ==
    /\ mpc = "reset"
    /\ length' = Short
    /\ mpc' = "notify"
    /\ UNCHANGED <<signal, buffer, asleep, worker, inbox, call, state, heard, received, sends>>

MainForgetsToNotify ==     \* mutant of MainNotifies
    /\ mpc = "notify" /\ mpc' = "handle"
    /\ UNCHANGED <<call, state, heard, received, sends>> /\ MainOnly
MainNotifies ==
    /\ mpc = "notify"
    /\ Notify([worker |-> wpc, main |-> "handle"])
    /\ UNCHANGED <<shared, nested, kinds, connection, inbox, call, state, heard, received, sends>>

Last == received[Len(received)]
Intact(r) == r.length = r.message

\* The current function returns, or throws, in the state s.
Ends(s) == mpc' = "idle" /\ call' = "none" /\ state' = s /\ UNCHANGED inbox

\* JSON.parse throws when the length was not that of the message, and a message of
\* type error is thrown as well; the function that called receiveFromWorker handles the
\* others.  While it waits for the connection, it passes over whatever is not that.
MainHandles ==
    /\ mpc = "handle"
    /\ LET kind == kinds[Last.message].kind
       IN CASE ~ Intact(Last) \/ kind = "error" -> Ends(state)
            [] OTHER ->
               CASE call = "constructor" ->
                        Ends(IF kind = "listening" THEN "listening" ELSE state)
                 [] call # "constructor" /\ state = "listening" ->
                        \* waitForConnection, called by itself or by receiveSocketEvent
                        IF kind = "client-connected" /\ call = "waitForConnection"
                        THEN Ends("connected")
                        ELSE /\ mpc' = "wait"
                             /\ state' = IF kind = "client-connected" THEN "connected" ELSE state
                             /\ UNCHANGED <<call, inbox>>
                 [] OTHER -> IF kind = "close" THEN Closed ELSE Ends(state)
    /\ UNCHANGED <<shared, asleep, worker, heard, received, sends>>

-----------------------------------------------------------------------------

Init ==
    /\ signal = NO_MESSAGE /\ length = Short /\ buffer = 0
    /\ asleep = {}
    /\ wpc = "start" /\ nested = 0 /\ kinds = << >> /\ connection = "none"
    /\ inbox = << >>
    /\ mpc = "wait" /\ call = "constructor" /\ state = "initial"
    /\ heard = 0 /\ received = << >> /\ sends = 0

\* Steps of a thread that the operating system lets run.
WorkerStep ==
    \/ WorkerWaits \/ WorkerChecks \/ WorkerWrites \/ WorkerSignals
    \/ WorkerStoresLength \/ WorkerNotifies

MainStep ==
    \/ MainWaits \/ MainChecks \/ MainReadsLength \/ MainDecodes
    \/ MainClearsFlag \/ MainResetsLength \/ MainNotifies \/ MainHandles

Next ==
    \/ StartServer \/ Connect \/ ForwardEvent \/ FromPrimary
    \/ WorkerStep \/ WorkerTimesOut \/ Terminate
    \/ Receive \/ Send \/ Close
    \/ MainStep \/ MainTimesOut

Fairness == WF_vars(WorkerStep) /\ WF_vars(MainStep) /\ WF_vars(StartServer)

Spec == Init /\ [][Next]_vars /\ Fairness
-----------------------------------------------------------------------------
(* Properties.                                                             *)

InCall == call # "none"
Posting == wpc \in {"wait", "asleep", "check", "write", "signal", "length", "notify"}

\* The waiting of worker-thread.ts:65 and index.ts:148: a thread sleeps only while the
\* flag says that it has nothing to do, or while the other one is about to notify.
NoLostWakeUp ==
    /\ "main" \in asleep => signal = NO_MESSAGE \/ wpc \in {"length", "notify"}
    /\ "worker" \in asleep => signal = MESSAGE_WAITING \/ mpc \in {"reset", "notify"}

\* No message overtakes another one or is skipped, whatever the delays; the
\* same message may be read again.
NoMessageSkipped ==
    \A i \in DOMAIN received :
        LET before == IF i = 1 THEN 0 ELSE received[i - 1].message
        IN received[i].message \in {before, before + 1}

\* When the main thread receives and the worker posts, the main thread goes on.
ReceiveProgresses == (mpc = "asleep" /\ Posting) ~> (mpc # "asleep" \/ wpc = "dead")

\* index.ts:17-18: "second int is message length if a message is waiting"; so what
\* receiveFromWorker reads has the length of the message.
MessagesAreIntact == \A i \in DOMAIN received : Intact(received[i])

\* worker-thread.ts:64: "Wait for the shared buffer to be vacant so we can put
\* the message into it".
WritesVacantBuffer == [][buffer' # buffer \/ (wpc = "write" /\ wpc' = "signal") =>
                            signal = NO_MESSAGE]_vars
=============================================================================
