----------------------------- MODULE AsyncProofs -----------------------------
(***************************************************************************)
(* Proofs about Async for any number of closures, promises and frames: its *)
(* invariants first, then that it implements AsyncOps.                     *)
(***************************************************************************)
EXTENDS Async, FiniteSetTheorems, SequenceTheorems, TLAPS

-----------------------------------------------------------------------------
(* The inductive invariant.                                                *)

Value ==
    [is : {"undefined", "deleted", "resume", "noop", "closure", "promise", "array", "result",
           "stale", "nothing"},
     of : Seq(Nat)]

ClosureRecord == [kind : {"async", "host", "resolve", "reject"}, cont : Value, callback : Value]
PromiseRecord == [status : {"pending", "resolved", "rejected"}, out : Value]
FrameRecord ==
    [kind : {"plain", "async", "host"}, closure : Nat, sync : Value,
     call : {"host", "job", "normal", "void", "await"}, saved : Value, operand : Value,
     fresh : BOOLEAN]
JobRecord == [continuation : Nat, how : {"resolved", "rejected"}, result : Value]

Shapes ==
    /\ closures \in Seq(ClosureRecord)
    /\ promises \in Seq(PromiseRecord)
    /\ stack \in Seq(FrameRecord)
    /\ queue \in Seq(JobRecord)
    /\ cps \in Value

IsPromise(v) == \E p \in DOMAIN promises : v = Promise(p)

(* What the slots of closures and promises lead to.                        *)
SlotsFit(c) ==
    LET f == closures[c]
    IN  /\ f.kind = "async" => f.cont \in {Deleted, Resume, NoOp}
        /\ f.kind # "async" => f.cont \in {Undefined, NoOp}
        /\ \/ f.callback = NoOp
           \/ IsPromise(f.callback)
           \/ \E a \in DOMAIN closures : f.callback = Closure(a) /\ IsAsync(a)

OutFits(p) ==
    LET out == promises[p].out
    IN  /\ promises[p].status = "pending" => out = Undefined \/ out.is \in {"closure", "array"}
        /\ promises[p].status # "pending" => out.is = "result"
        /\ \A i \in DOMAIN Subscribers(out) : IsAsync(Subscribers(out)[i])

References ==
    /\ \A c \in DOMAIN closures : SlotsFit(c)
    /\ \A p \in DOMAIN promises : OutFits(p)
    /\ \A i \in DOMAIN queue : IsAsync(queue[i].continuation)

(* How frames follow each other, and what is in them.                      *)
FrameFits(i) ==
    LET f == stack[i]
    IN  /\ f.kind = "async" => IsAsync(f.closure)
        /\ f.operand # Nothing =>
            i = Len(stack) /\ f.kind = "async" /\ (f.operand = Deleted \/ IsPromise(f.operand))
        /\ i = 1 => f.call \in {"host", "job"}
        /\ i > 1 =>
            /\ f.call = "host" <=> stack[i - 1].kind = "host"
            /\ f.call # "job"
            /\ f.call = "await" => stack[i - 1].kind = "async"
        /\ f.kind = "plain" => f.sync = Undefined
        /\ f.call = "await" => f.sync = Deleted \/ (f.kind # "async" /\ f.sync = Undefined)
        /\ f.kind = "host" /\ f.fresh => i = Len(stack) /\ f.sync = Undefined

Frames == \A i \in DOMAIN stack : FrameFits(i)

(* A function that runs is on the stack, once, and its continuation is     *)
(* poisoned.                                                               *)
RunsOnce ==
    /\ \A c \in DOMAIN closures : closures[c].kind = "async" => (closures[c].cont = Deleted <=> OnStack(c))
    /\ \A i, j \in DOMAIN stack :
        stack[i].kind = "async" /\ stack[j].kind = "async" /\ stack[i].closure = stack[j].closure => i = j

(* The function of the frame i waits for what it called: the callee went   *)
(* on to run asynchronously.                                               *)
Waiting(i) ==
    IF i = Len(stack) THEN stack[i].operand = Deleted
    ELSE stack[i + 1].call = "await" /\ stack[i + 1].sync = Deleted

(* What wakes up a function, also while it is on the stack.                *)
Wakers ==
    /\ \A c \in DOMAIN closures : closures[c].kind = "async" =>
        /\ \A x, y \in WakersOf(c) : x = y
        /\ closures[c].cont = Resume => WakersOf(c) # {}
        /\ closures[c].cont = NoOp => WakersOf(c) = {}
    /\ \A i \in DOMAIN stack : stack[i].kind = "async" =>
        (WakersOf(stack[i].closure) # {} <=> Waiting(i))

(* A promise that no function settled is pending, and only resolve and     *)
(* reject share one.                                                       *)
Settled ==
    /\ \A p \in DOMAIN promises :
        (\A c \in DOMAIN closures : closures[c].callback = Promise(p) => closures[c].cont # NoOp)
            => promises[p].status = "pending"
    /\ \A c, d \in DOMAIN closures :
        c # d /\ closures[c].callback = closures[d].callback /\ closures[c].callback.is = "promise" =>
            /\ {closures[c].kind, closures[d].kind} = {"resolve", "reject"}
            /\ OpOf(c) = OpOf(d)

(* A host function that has just been called finds in cpsCallback the       *)
(* closure of the function that awaits it.                                  *)
CallbackOfCaller ==
    (~ Idle /\ Top.kind = "host" /\ Top.fresh) =>
        cps = (IF Top.call = "await" THEN Closure(stack[Len(stack) - 1].closure) ELSE Undefined)

IInv == Shapes /\ References /\ Frames /\ RunsOnce /\ Wakers /\ Settled /\ CallbackOfCaller

-----------------------------------------------------------------------------
(* Values.                                                                 *)

(* Each form of value has a tag of its own, and all of them are shaped     *)
(* alike.                                                                  *)
LEMMA ValueForms ==
    /\ Undefined.is = "undefined" /\ Deleted.is = "deleted" /\ Resume.is = "resume"
    /\ NoOp.is = "noop" /\ Stale.is = "stale" /\ Nothing.is = "nothing" /\ NoOp.of = << >>
    /\ \A c : Closure(c).is = "closure" /\ Closure(c).of = <<c>>
    /\ \A p : Promise(p).is = "promise" /\ PromiseOf(Promise(p)) = p
    /\ \A s : Array(s).is = "array" /\ Array(s).of = s
    /\ \A o : Result(o).is = "result"
BY DEF Undefined, Deleted, Resume, NoOp, Stale, Nothing, Closure, Promise, PromiseOf, Array, Result

LEMMA ClosuresDiffer == \A a, b : Closure(a) = Closure(b) => a = b
<1> SUFFICES ASSUME NEW a, NEW b, Closure(a) = Closure(b) PROVE a = b
  OBVIOUS
<1>1. <<a>> = <<b>>
  BY ValueForms
<1> QED
  BY <1>1

LEMMA PromisesDiffer == \A p, q : Promise(p) = Promise(q) => p = q
BY ValueForms

LEMMA ValueShapes ==
    /\ {Undefined, Deleted, Resume, NoOp, Stale, Nothing} \subseteq Value
    /\ \A n \in Nat : Closure(n) \in Value /\ Promise(n) \in Value /\ Result(n) \in Value
    /\ \A s \in Seq(Nat) : Array(s) \in Value
<1>1. << >> \in Seq(Nat) /\ \A n \in Nat : <<n>> \in Seq(Nat)
  OBVIOUS
<1> QED
  BY <1>1 DEF Value, Undefined, Deleted, Resume, NoOp, Stale, Nothing, Closure, Promise, Array, Result

LEMMA ShapesOpen ==
    ASSUME Shapes
    PROVE  /\ Len(closures) \in Nat /\ DOMAIN closures = 1 .. Len(closures)
           /\ Len(promises) \in Nat /\ DOMAIN promises = 1 .. Len(promises)
           /\ Len(stack) \in Nat /\ DOMAIN stack = 1 .. Len(stack)
           /\ Len(queue) \in Nat /\ DOMAIN queue = 1 .. Len(queue)
           /\ \A c \in DOMAIN closures : closures[c] \in ClosureRecord
           /\ \A p \in DOMAIN promises : promises[p] \in PromiseRecord
           /\ \A i \in DOMAIN stack : stack[i] \in FrameRecord
           /\ \A i \in DOMAIN queue : queue[i] \in JobRecord
           /\ ~ Idle => Len(stack) \in DOMAIN stack /\ Top \in FrameRecord
<1> HIDE DEF ClosureRecord, PromiseRecord, FrameRecord, JobRecord
<1>1. ~ Idle => Len(stack) \in 1 .. Len(stack)
  BY DEF Shapes, Idle
<1> QED
  BY <1>1 DEF Shapes, Top

(* The subscribers in a slot are a sequence, whatever is in it.            *)
LEMMA SubscribersShape ==
    \A out \in Value : Subscribers(out) \in Seq(Nat)
<1>1. << >> \in Seq(Nat)
  OBVIOUS
<1>2. ASSUME NEW out \in Value PROVE out.of \in Seq(Nat)
  BY DEF Value
<1>3. ASSUME NEW out \in Value PROVE Subscribers(out) \in {out.of, << >>}
  BY DEF Subscribers
<1> QED
  BY <1>1, <1>2, <1>3

-----------------------------------------------------------------------------
(* Wake-ups.                                                               *)

LEMMA WakerForms ==
    ASSUME NEW a, NEW x
    PROVE  x \in WakersOf(a) <=>
              \/ \E i \in DOMAIN queue : x = <<"job", i>> /\ queue[i].continuation = a
              \/ \E p \in DOMAIN promises : \E i \in DOMAIN Subscribers(promises[p].out) :
                    x = <<"promise", p, i>> /\ Subscribers(promises[p].out)[i] = a
              \/ \E d \in DOMAIN closures :
                    x = <<"callback", d>> /\ closures[d].callback = Closure(a) /\ closures[d].cont # NoOp
BY DEF WakersOf

(* If the queue and the subscriptions stay and closures keep their         *)
(* callbacks and whether they are complete, only new closures are new      *)
(* wake-ups.                                                               *)
LEMMA WakersGrow ==
    ASSUME NEW a,
           UNCHANGED queue,
           DOMAIN promises \subseteq DOMAIN promises',
           \A p \in DOMAIN promises : promises'[p].out = promises[p].out,
           \A p \in DOMAIN promises' \ DOMAIN promises : Subscribers(promises'[p].out) = << >>,
           DOMAIN closures \subseteq DOMAIN closures',
           \A d \in DOMAIN closures : /\ closures'[d].callback = closures[d].callback
                                      /\ closures'[d].cont = NoOp <=> closures[d].cont = NoOp
    PROVE  WakersOf(a)' = WakersOf(a) \cup
              {<<"callback", d>> : d \in {e \in DOMAIN closures' \ DOMAIN closures :
                                            closures'[e].callback = Closure(a) /\ closures'[e].cont # NoOp}}
<1> DEFINE jobs == {<<"job", i>> : i \in {j \in DOMAIN queue : queue[j].continuation = a}}
           subs(p) == {<<"promise", p, i>> : i \in {j \in DOMAIN Subscribers(promises[p].out) :
                                                Subscribers(promises[p].out)[j] = a}}
           subscriptions == UNION {subs(p) : p \in DOMAIN promises}
           calls(S) == {<<"callback", d>> : d \in {e \in S : closures'[e].callback = Closure(a)
                                                            /\ closures'[e].cont # NoOp}}
<1>1. jobs' = jobs
  OBVIOUS
<1>2. \A p \in DOMAIN promises : subs(p)' = subs(p)
  OBVIOUS
<1>3. \A p \in DOMAIN promises' \ DOMAIN promises : subs(p)' = {}
  OBVIOUS
<1>4. subscriptions' = subscriptions
  <2> HIDE DEF subs
  <2> QED
    BY <1>2, <1>3
<1>5. WakersOf(a)' = jobs' \cup subscriptions' \cup calls(DOMAIN closures')
  BY DEF WakersOf
<1>6. WakersOf(a) = jobs \cup subscriptions \cup calls(DOMAIN closures)
  <2>1. calls(DOMAIN closures) = {<<"callback", d>> : d \in {e \in DOMAIN closures :
                                        closures[e].callback = Closure(a) /\ closures[e].cont # NoOp}}
    OBVIOUS
  <2> QED
    BY <2>1 DEF WakersOf
<1>7. calls(DOMAIN closures') = calls(DOMAIN closures) \cup calls(DOMAIN closures' \ DOMAIN closures)
  OBVIOUS
<1>8. calls(DOMAIN closures' \ DOMAIN closures) =
        {<<"callback", d>> : d \in {e \in DOMAIN closures' \ DOMAIN closures :
                                      closures'[e].callback = Closure(a) /\ closures'[e].cont # NoOp}}
  OBVIOUS
<1> HIDE DEF jobs, subscriptions, calls
<1> QED
  BY <1>1, <1>4, <1>5, <1>6, <1>7, <1>8

-----------------------------------------------------------------------------
(* What steps have in common: objects stay, frames are pushed and popped.  *)

\* No step takes an object away, changes what it is or what it calls back.
ObjectsStay ==
    /\ DOMAIN closures \subseteq DOMAIN closures'
    /\ \A c \in DOMAIN closures : /\ closures'[c].kind = closures[c].kind
                                  /\ closures'[c].callback = closures[c].callback
    /\ DOMAIN promises \subseteq DOMAIN promises'

SameFrame(i) ==
    /\ stack'[i].kind = stack[i].kind /\ stack'[i].closure = stack[i].closure
    /\ stack'[i].sync = stack[i].sync /\ stack'[i].call = stack[i].call

LEMMA ReferencesStay ==
    ASSUME ObjectsStay
    PROVE  /\ \A a : IsAsync(a) => IsAsync(a)'
           /\ \A v : IsPromise(v) => IsPromise(v)'
BY DEF ObjectsStay, IsAsync, IsPromise

(* A host function that enters another is not fresh any more.              *)
LEMMA UsedFrames ==
    ASSUME Shapes
    PROVE  /\ Used(stack) \in Seq(FrameRecord) /\ Len(Used(stack)) = Len(stack)
           /\ \A i \in DOMAIN stack :
                /\ Used(stack)[i].kind = stack[i].kind /\ Used(stack)[i].closure = stack[i].closure
                /\ Used(stack)[i].sync = stack[i].sync /\ Used(stack)[i].call = stack[i].call
                /\ Used(stack)[i].operand = stack[i].operand
                /\ Used(stack)[i].saved = stack[i].saved
                /\ Used(stack)[i].fresh => stack[i].fresh /\ (i = Len(stack) => stack[i].kind # "host")
<1>1. CASE stack = << >> \/ stack[Len(stack)].kind # "host"
  BY <1>1, ShapesOpen DEF Used, Shapes
<1>2. CASE ~ (stack = << >> \/ stack[Len(stack)].kind # "host")
  <2> DEFINE n == Len(stack)
             g == [stack[n] EXCEPT !.fresh = FALSE]
  <2>1. n \in 1 .. Len(stack) /\ stack[n] \in FrameRecord /\ stack \in Seq(FrameRecord)
    BY <1>2, ShapesOpen DEF Idle, Top, Shapes
  <2>2. g \in FrameRecord /\ g.fresh = FALSE
        /\ g.kind = stack[n].kind /\ g.closure = stack[n].closure /\ g.sync = stack[n].sync
        /\ g.call = stack[n].call /\ g.operand = stack[n].operand /\ g.saved = stack[n].saved
    BY <2>1 DEF FrameRecord
  <2>3. Used(stack) = [stack EXCEPT ![n] = g]
    BY <1>2 DEF Used
  <2> HIDE DEF g, FrameRecord
  <2>4. /\ Used(stack) \in Seq(FrameRecord) /\ Len(Used(stack)) = Len(stack)
        /\ \A j \in 1 .. Len(stack) : Used(stack)[j] = IF j = n THEN g ELSE stack[j]
    BY <2>1, <2>2, <2>3, ExceptSeq
  <2> QED
    BY <2>1, <2>2, <2>4, ShapesOpen
<1> QED
  BY <1>1, <1>2

(* A call pushes a frame that follows the calling convention.              *)
LEMMA EnterFrames ==
    ASSUME Shapes, Frames, ObjectsStay,
           NEW f \in FrameRecord, Enter(f),
           ~ Idle => Top.operand = Nothing,
           f.operand = Nothing,
           f.kind = "async" => IsAsync(f.closure)',
           IF Idle \/ Top.kind = "host" THEN f.call = "host" ELSE f.call \notin {"host", "job"},
           f.call = "await" => /\ Top.kind = "async"
                               /\ f.sync = Deleted \/ (f.kind # "async" /\ f.sync = Undefined),
           f.kind = "plain" => f.sync = Undefined,
           f.kind = "host" /\ f.fresh => f.sync = Undefined
    PROVE  /\ stack' \in Seq(FrameRecord) /\ Len(stack') = Len(stack) + 1
           /\ stack'[Len(stack) + 1] = f
           /\ \A i \in DOMAIN stack : SameFrame(i) /\ stack'[i].operand = Nothing
           /\ Frames'
<1>1. /\ stack' \in Seq(FrameRecord) /\ Len(stack') = Len(stack) + 1
      /\ stack'[Len(stack) + 1] = f
      /\ \A i \in DOMAIN stack : stack'[i] = Used(stack)[i]
      /\ DOMAIN stack' = 1 .. Len(stack) + 1
  <2> HIDE DEF FrameRecord
  <2>1. Used(stack) \in Seq(FrameRecord) /\ Len(Used(stack)) = Len(stack)
    BY UsedFrames
  <2> QED
    BY <2>1, AppendProperties, LenProperties, ShapesOpen DEF Enter
<1>2. \A i \in DOMAIN stack :
        /\ SameFrame(i) /\ stack'[i].operand = stack[i].operand
        /\ stack'[i].kind = "host" => ~ stack'[i].fresh
  BY <1>1, UsedFrames, ShapesOpen DEF SameFrame, Frames, FrameFits
<1>3. \A i \in DOMAIN stack : stack'[i].operand = Nothing
  BY <1>2, ShapesOpen DEF Frames, FrameFits, Top, Idle
<1>4. Frames'
  <2> SUFFICES ASSUME NEW i \in 1 .. Len(stack) + 1 PROVE FrameFits(i)'
    BY <1>1 DEF Frames
  <2>1. CASE i \in 1 .. Len(stack)
    <3>1. i > 1 => i - 1 \in 1 .. Len(stack) /\ stack'[i - 1].kind = stack[i - 1].kind
      BY <2>1, <1>2, ShapesOpen DEF SameFrame
    <3>2. SameFrame(i) /\ i \in DOMAIN stack /\ stack'[i].operand = Nothing
      BY <2>1, <1>2, <1>3, ShapesOpen
    <3> QED
      BY <3>1, <3>2, <1>2, ReferencesStay DEF Frames, FrameFits, SameFrame
  <2>2. CASE i = Len(stack) + 1
    <3>1. stack'[i] = f
      BY <2>2, <1>1
    <3>2. i > 1 => ~ Idle /\ i - 1 = Len(stack) /\ i - 1 \in DOMAIN stack
      BY <2>2, ShapesOpen DEF Idle
    <3>3. i > 1 => stack'[i - 1].kind = Top.kind
      BY <3>2, <1>2 DEF SameFrame, Top
    <3>4. i = 1 => Idle
      BY <2>2, ShapesOpen DEF Idle, Shapes
    <3> QED
      BY <3>1, <3>2, <3>3, <3>4, <2>2, <1>1 DEF FrameFits
  <2> QED
    BY <2>1, <2>2, ShapesOpen
<1> QED
  BY <1>1, <1>2, <1>3, <1>4

(* A return pops a frame, and the result of an await-call reaches the      *)
(* caller: the caller waits for the callee as it did before.               *)
LEMMA ReturnFrames ==
    ASSUME Shapes, Frames, ObjectsStay, ~ Idle,
           NEW v \in Value, ReturnValue(v),
           Top.call = "await" => (v = Deleted \/ IsPromise(v)') /\ (v = Deleted <=> Top.sync = Deleted)
    PROVE  /\ stack' \in Seq(FrameRecord) /\ Len(stack') = Len(stack) - 1
           /\ \A i \in 1 .. Len(stack) - 1 : SameFrame(i) /\ (Waiting(i)' <=> Waiting(i))
           /\ Frames'
           /\ CallbackOfCaller'
<1> DEFINE n == Len(stack)
           below == Front(stack)
<1>1. n \in Nat \ {0} /\ DOMAIN stack = 1 .. n /\ stack \in Seq(FrameRecord)
  BY ShapesOpen DEF Shapes, Idle
<1>2. /\ below \in Seq(FrameRecord) /\ Len(below) = n - 1
      /\ \A i \in 1 .. n - 1 : below[i] = stack[i]
  <2> HIDE DEF FrameRecord
  <2>1. \A i \in 1 .. n - 1 : stack[i] \in FrameRecord
    BY <1>1
  <2>2. below = SubSeq(stack, 1, n - 1) /\ n - 1 \in Int /\ 1 \in Int
    BY <1>1 DEF Front
  <2> HIDE DEF below, n
  <2> QED
    BY <1>1, <2>1, <2>2, SubSeqProperties
<1>3. Top.call = "await" => n > 1 /\ stack[n - 1].kind = "async"
  BY <1>1, ShapesOpen DEF Frames, FrameFits, Top
<1>4. /\ stack' \in Seq(FrameRecord) /\ Len(stack') = n - 1
      /\ \A i \in 1 .. n - 1 :
            SameFrame(i) /\ stack'[i].fresh = stack[i].fresh
      /\ \A i \in 1 .. n - 1 :
            stack'[i].operand = IF i = n - 1 /\ Top.call = "await" THEN v ELSE stack[i].operand
  <2>1. CASE Top.call = "await"
    <3> DEFINE g == [below[n - 1] EXCEPT !.operand = v]
    <3>1. n - 1 \in 1 .. Len(below) /\ below[n - 1] \in FrameRecord
      BY <2>1, <1>1, <1>2, <1>3, ShapesOpen
    <3>2. g \in FrameRecord /\ g.operand = v /\ g.kind = stack[n - 1].kind
          /\ g.closure = stack[n - 1].closure /\ g.sync = stack[n - 1].sync
          /\ g.call = stack[n - 1].call /\ g.fresh = stack[n - 1].fresh
      BY <3>1, <1>2 DEF FrameRecord
    <3>3. stack' = [below EXCEPT ![n - 1] = g]
      BY <2>1, <1>2 DEF ReturnValue
    <3> HIDE DEF g, FrameRecord, below
    <3>4. /\ stack' \in Seq(FrameRecord) /\ Len(stack') = Len(below)
          /\ \A j \in 1 .. Len(below) : stack'[j] = IF j = n - 1 THEN g ELSE below[j]
      BY <3>1, <3>2, <3>3, <1>2, ExceptSeq
    <3> QED
      BY <1>1, <1>2, <2>1, <3>2, <3>4 DEF SameFrame
  <2>2. CASE Top.call # "await"
    <3>1. stack' = below
      BY <2>2 DEF ReturnValue
    <3> HIDE DEF below
    <3> QED
      BY <3>1, <1>2, <2>2 DEF SameFrame
  <2> QED
    BY <2>1, <2>2
<1>5. \A i \in 1 .. n - 1 : stack[i].operand = Nothing /\ (stack[i].kind = "host" => ~ stack[i].fresh)
  BY <1>1 DEF Frames, FrameFits
<1>6. DOMAIN stack' = 1 .. n - 1
  <2> HIDE DEF FrameRecord
  <2> QED
    BY <1>4, LenProperties
<1>7. ASSUME NEW i \in 1 .. n - 1 PROVE Waiting(i)' <=> Waiting(i)
  <2>1. CASE i = n - 1
    <3>1. Waiting(i)' <=> stack'[i].operand = Deleted
      BY <2>1, <1>4 DEF Waiting
    <3>2. i # n /\ i + 1 = n
      BY <2>1, <1>1
    <3>3. Waiting(i) <=> Top.call = "await" /\ Top.sync = Deleted
      BY <3>2 DEF Waiting, Top
    <3>4. Nothing # Deleted
      BY ValueForms
    <3> QED
      BY <2>1, <3>1, <3>3, <3>4, <1>4, <1>5
  <2>2. CASE i # n - 1
    <3> HIDE DEF n
    <3>1. i # n /\ i + 1 \in 1 .. n - 1
      BY <2>2, <1>1
    <3>2. i # Len(stack) /\ i # Len(stack') /\ SameFrame(i + 1)
      BY <3>1, <2>2, <1>4 DEF n
    <3> QED
      BY <3>2 DEF Waiting, SameFrame
  <2> QED
    BY <2>1, <2>2
<1>8. Frames'
  <2> SUFFICES ASSUME NEW i \in 1 .. n - 1 PROVE FrameFits(i)'
    BY <1>6 DEF Frames
  <2> HIDE DEF n
  <2>0. i \in 1 .. n /\ (i > 1 => i - 1 \in 1 .. n - 1)
    BY <1>1
  <2>1. i > 1 => stack'[i - 1].kind = stack[i - 1].kind
    BY <2>0, <1>4 DEF SameFrame
  <2>2. SameFrame(i) /\ FrameFits(i) /\ stack'[i].fresh = stack[i].fresh
    <3>1. FrameFits(i)
      BY <2>0, <1>1 DEF Frames
    <3>2. SameFrame(i) /\ stack'[i].fresh = stack[i].fresh
      BY <1>4
    <3> QED
      BY <3>1, <3>2
  <2>3. CASE i = n - 1 /\ Top.call = "await"
    <3>1. stack'[i].operand = v /\ stack'[i].kind = "async" /\ i = Len(stack')
      BY <1>3, <1>4, <2>3, <2>2 DEF SameFrame
    <3>2. v = Deleted \/ IsPromise(v)'
      BY <2>3
    <3> QED
      BY <3>1, <3>2, <2>1, <2>2, ReferencesStay DEF FrameFits, SameFrame
  <2>4. CASE ~ (i = n - 1 /\ Top.call = "await")
    <3>1. stack'[i].operand = Nothing
      BY <1>4, <1>5, <2>4
    <3> QED
      BY <3>1, <2>1, <2>2, <1>5, ReferencesStay DEF FrameFits, SameFrame
  <2> QED
    BY <2>3, <2>4
<1>9. CallbackOfCaller'
  <2>1. ~ Idle' => Len(stack') \in 1 .. n - 1
    BY <1>4, <1>1 DEF Idle
  <2> QED
    BY <2>1, <1>4, <1>5 DEF CallbackOfCaller, Top, SameFrame
<1> QED
  BY <1>4, <1>7, <1>8, <1>9

(* If no closure gets complete, no promise settled and no object made,     *)
(* promises stay with who settles them.                                    *)
LEMMA SettledStays ==
    ASSUME Settled, ObjectsStay,
           DOMAIN closures' = DOMAIN closures, DOMAIN promises' = DOMAIN promises,
           \A c \in DOMAIN closures : closures[c].cont = NoOp => closures'[c].cont = NoOp,
           \A p \in DOMAIN promises : promises'[p].status = promises[p].status
    PROVE  Settled'
<1>1. \A p : (\A c \in DOMAIN closures : closures'[c].callback = Promise(p) => closures'[c].cont # NoOp)
            => (\A c \in DOMAIN closures : closures[c].callback = Promise(p) => closures[c].cont # NoOp)
  BY DEF ObjectsStay
<1>2. \A c \in DOMAIN closures : OpOf(c)' = OpOf(c) /\ closures'[c].kind = closures[c].kind
                                   /\ closures'[c].callback = closures[c].callback
  BY DEF ObjectsStay, OpOf
<1>3. ASSUME NEW p \in DOMAIN promises',
             \A c \in DOMAIN closures' : closures'[c].callback = Promise(p) => closures'[c].cont # NoOp
      PROVE  promises'[p].status = "pending"
  BY <1>1, <1>3 DEF Settled
<1>4. ASSUME NEW c \in DOMAIN closures', NEW d \in DOMAIN closures',
             c # d, closures'[c].callback = closures'[d].callback, closures'[c].callback.is = "promise"
      PROVE  {closures'[c].kind, closures'[d].kind} = {"resolve", "reject"} /\ OpOf(c)' = OpOf(d)'
  BY <1>2, <1>4 DEF Settled
<1> QED
  BY <1>3, <1>4 DEF Settled

LEMMA WakersStay ==
    ASSUME ObjectsStay, UNCHANGED queue,
           \A p \in DOMAIN promises : promises'[p].out = promises[p].out,
           \A p \in DOMAIN promises' \ DOMAIN promises : Subscribers(promises'[p].out) = << >>,
           \A d \in DOMAIN closures : closures'[d].cont = NoOp <=> closures[d].cont = NoOp,
           \A d \in DOMAIN closures' \ DOMAIN closures : closures'[d].callback.is # "closure"
    PROVE  \A a : WakersOf(a)' = WakersOf(a)
<1> SUFFICES ASSUME NEW a PROVE WakersOf(a)' = WakersOf(a)
  OBVIOUS
<1>1. \A e \in DOMAIN closures' \ DOMAIN closures : closures'[e].callback # Closure(a)
  BY ValueForms
<1>2. {<<"callback", d>> : d \in {e \in DOMAIN closures' \ DOMAIN closures :
                                   closures'[e].callback = Closure(a) /\ closures'[e].cont # NoOp}} = {}
  BY <1>1
<1>3. WakersOf(a)' = WakersOf(a) \cup
        {<<"callback", d>> : d \in {e \in DOMAIN closures' \ DOMAIN closures :
                                      closures'[e].callback = Closure(a) /\ closures'[e].cont # NoOp}}
  BY WakersGrow DEF ObjectsStay
<1> QED
  BY <1>2, <1>3

(* References only grow; what the queue and the promises hold stays as it  *)
(* is, and what is new is right.                                           *)
LEMMA NewReferences ==
    ASSUME References, ObjectsStay, UNCHANGED queue,
           \A p \in DOMAIN promises : promises'[p] = promises[p],
           \A p \in DOMAIN promises' \ DOMAIN promises : promises'[p] = [status |-> "pending", out |-> Undefined],
           \A c \in DOMAIN closures' :
                c \notin DOMAIN closures \/ closures'[c].cont # closures[c].cont => SlotsFit(c)'
    PROVE  References'
<1>1. ASSUME NEW c \in DOMAIN closures' PROVE SlotsFit(c)'
  <2>1. CASE c \notin DOMAIN closures \/ closures'[c].cont # closures[c].cont
    BY <2>1
  <2>2. CASE ~ (c \notin DOMAIN closures \/ closures'[c].cont # closures[c].cont)
    <3>1. closures'[c].kind = closures[c].kind /\ closures'[c].callback = closures[c].callback
          /\ closures'[c].cont = closures[c].cont /\ SlotsFit(c)
      BY <2>2 DEF ObjectsStay, References
    <3> QED
      BY <3>1, ReferencesStay DEF SlotsFit, ObjectsStay
  <2> QED
    BY <2>1, <2>2
<1>2. ASSUME NEW p \in DOMAIN promises' PROVE OutFits(p)'
  <2>1. Subscribers(Undefined) = << >>
    BY ValueForms DEF Subscribers
  <2>2. CASE p \in DOMAIN promises
    <3>1. OutFits(p) /\ promises'[p] = promises[p]
      BY <2>2 DEF References
    <3> QED
      BY <3>1, ReferencesStay DEF OutFits
  <2>3. CASE p \notin DOMAIN promises
    BY <2>1, <2>3 DEF OutFits
  <2> QED
    BY <2>2, <2>3
<1>3. (\A i \in DOMAIN queue : IsAsync(queue[i].continuation))'
  BY ReferencesStay DEF References
<1> QED
  BY <1>1, <1>2, <1>3 DEF References

-----------------------------------------------------------------------------
(* Calls.                                                                  *)

(* The poison of AWAIT_CALL is there already: ASYNC_START and ASYNC_RESUME *)
(* poison the continuation of the function that runs.                      *)
LEMMA CallingPoisonsAgain ==
    ASSUME IInv, JSRuns, NEW call \in JSCalls
    PROVE  Calling(call) = closures
<1>1. CASE call # "await"
  BY <1>1 DEF Calling
<1>2. CASE call = "await"
  <2> DEFINE t == Top.closure
  <2>1. Top.kind = "async" /\ Len(stack) \in DOMAIN stack
    BY <1>2, ShapesOpen DEF JSCalls, JSRuns, IInv
  <2>2. IsAsync(t) /\ OnStack(t)
    BY <2>1 DEF IInv, Frames, FrameFits, OnStack, Top
  <2>3. t \in DOMAIN closures /\ closures[t].cont = Deleted /\ closures[t] \in ClosureRecord
    BY <2>2, ShapesOpen DEF IInv, RunsOnce, IsAsync
  <2>4. [closures[t] EXCEPT !.cont = Deleted] = closures[t]
    BY <2>3 DEF ClosureRecord
  <2>5. closures \in [DOMAIN closures -> ClosureRecord]
    <3> HIDE DEF ClosureRecord
    <3> QED
      BY LenProperties DEF IInv, Shapes
  <2>6. [closures EXCEPT ![t] = closures[t]] = closures
    <3> HIDE DEF ClosureRecord, t
    <3> QED
      BY <2>5, <2>3
  <2>7. Calling(call) = [closures EXCEPT ![t] = [closures[t] EXCEPT !.cont = Deleted]]
    BY <1>2 DEF Calling
  <2> QED
    BY <2>4, <2>6, <2>7
<1> QED
  BY <1>1, <1>2

(* Nobody but the caller waits for a function that was just called.        *)
LEMMA EnterWaiting ==
    ASSUME Shapes, Len(stack') = Len(stack) + 1,
           stack'[Len(stack) + 1].operand = Nothing,
           \A i \in DOMAIN stack : SameFrame(i)
    PROVE  /\ \A i \in DOMAIN stack : i # Len(stack) => (Waiting(i)' <=> Waiting(i))
           /\ \A i \in DOMAIN stack : i = Len(stack) =>
                (Waiting(i)' <=> stack'[i + 1].call = "await" /\ stack'[i + 1].sync = Deleted)
           /\ \A i : i = Len(stack) + 1 => ~ Waiting(i)'
<1> DEFINE n == Len(stack)
           m == Len(stack')
<1>1. n \in Nat /\ DOMAIN stack = 1 .. n /\ m = n + 1
  BY ShapesOpen
<1> HIDE DEF n, m
<1>2. ASSUME NEW i \in DOMAIN stack, i # n PROVE Waiting(i)' <=> Waiting(i)
  <2>1. i + 1 \in 1 .. n /\ i # m
    BY <1>1, <1>2
  <2>2. SameFrame(i + 1)
    BY <1>1, <2>1
  <2> QED
    BY <1>2, <2>1, <2>2 DEF Waiting, SameFrame, n, m
<1>3. ASSUME NEW i \in DOMAIN stack, i = n
      PROVE  Waiting(i)' <=> stack'[i + 1].call = "await" /\ stack'[i + 1].sync = Deleted
  <2>1. i # m
    BY <1>1, <1>3
  <2> QED
    BY <2>1 DEF Waiting, m
<1>4. ASSUME NEW i, i = n + 1 PROVE ~ Waiting(i)'
  <2>1. i = m /\ stack'[i].operand = Nothing
    BY <1>1, <1>4 DEF n
  <2> QED
    BY <2>1, ValueForms DEF Waiting, m
<1> QED
  BY <1>2, <1>3, <1>4 DEF n

LEMMA OtherCallPreserves ==
    ASSUME IInv, NEW call, NEW kind \in {"plain", "host"},
           \/ JSRuns /\ call \in JSCalls /\ cps' = CpsFor(call)
           \/ HostRuns /\ call = "host" /\ cps' = Undefined,
           Enter(Frame(kind, 0, Undefined, call)),
           UNCHANGED <<closures, promises, queue>>
    PROVE  IInv'
<1> USE DEF IInv
<1> DEFINE f == Frame(kind, 0, Undefined, call)
           n == Len(stack)
<1>1. /\ f.kind = kind /\ f.sync = Undefined /\ f.call = call /\ f.operand = Nothing
      /\ f.fresh => kind = "host"
  BY DEF Frame
<1>2. /\ ~ Idle => Top.operand = Nothing
      /\ IF Idle \/ Top.kind = "host" THEN call = "host" ELSE call \in JSCalls
      /\ call \in {"host", "normal", "void", "await"}
      /\ call = "await" => ~ Idle /\ Top.kind = "async"
  BY ShapesOpen DEF JSRuns, HostRuns, JSCalls, Frames, FrameFits, Top
<1>3. f \in FrameRecord
  <2>1. cps \in Value /\ Undefined \in Value /\ Nothing \in Value
    BY ValueShapes DEF Shapes
  <2> HIDE DEF Value
  <2> QED
    BY <2>1, <1>2 DEF Frame, FrameRecord
<1>4. ObjectsStay
  BY DEF ObjectsStay
<1>5. /\ stack' \in Seq(FrameRecord) /\ Len(stack') = n + 1 /\ stack'[n + 1] = f
      /\ \A i \in DOMAIN stack : SameFrame(i) /\ stack'[i].operand = Nothing
      /\ Frames'
  <2> HIDE DEF f
  <2>1. call \notin {"job"} /\ (call = "host" \/ call \in JSCalls)
    BY <1>2
  <2>2. call = "host" => Idle \/ Top.kind = "host"
    BY DEF JSCalls, HostRuns
  <2> QED
    BY <1>1, <1>2, <1>3, <1>4, <2>1, <2>2, EnterFrames DEF f
<1> HIDE DEF f
<1>6. n \in Nat /\ DOMAIN stack = 1 .. n /\ DOMAIN stack' = 1 .. n + 1
  <2> HIDE DEF FrameRecord
  <2> QED
    BY <1>5, LenProperties, ShapesOpen
<1>7. Shapes'
  <2>1. cps' \in Value
    <3>1. ~ Idle => Top.closure \in Nat
      BY ShapesOpen DEF FrameRecord
    <3> QED
      BY <3>1, <1>2, ValueShapes DEF CpsFor
  <2> QED
    BY <2>1, <1>5 DEF Shapes
<1>8. References'
  BY <1>4, NewReferences
<1>9. \A i \in DOMAIN stack' : stack'[i].kind = "async" =>
          i \in DOMAIN stack /\ stack[i].kind = "async" /\ stack'[i].closure = stack[i].closure
  BY <1>1, <1>5, <1>6 DEF SameFrame
<1>10. RunsOnce'
  <2>1. \A c : OnStack(c)' <=> OnStack(c)
    BY <1>5, <1>6, <1>9 DEF OnStack, SameFrame
  <2> QED
    BY <2>1, <1>9 DEF RunsOnce
<1>11. Wakers'
  <2>1. \A a : WakersOf(a)' = WakersOf(a)
    BY DEF WakersOf
  <2>2. ASSUME NEW i \in DOMAIN stack, stack[i].kind = "async" PROVE Waiting(i)' <=> Waiting(i)
    <3>1. CASE i = n
      <4>1. ~ Waiting(i)
        BY <3>1, <1>2, <1>6, ValueForms DEF Waiting, Top, Idle
      <4>2. f.sync # Deleted
        BY <1>1, ValueForms
      <4> QED
        BY <3>1, <4>1, <4>2, <1>1, <1>5, EnterWaiting DEF Idle
    <3> QED
      BY <3>1, <1>1, <1>5, EnterWaiting
  <2> QED
    BY <2>1, <2>2, <1>9 DEF Wakers
<1>12. Settled'
  BY <1>4, SettledStays
<1>13. CallbackOfCaller'
  <2>1. Top' = f /\ Len(stack') - 1 = n
    BY <1>5, <1>6 DEF Top
  <2>2. CASE call = "await"
    <3>1. stack'[n].closure = Top.closure
      BY <2>2, <1>2, <1>5, ShapesOpen DEF Top, SameFrame
    <3> QED
      BY <2>1, <2>2, <3>1, <1>1 DEF CallbackOfCaller, CpsFor, JSCalls
  <2>3. CASE call # "await"
    BY <2>1, <2>3, <1>1 DEF CallbackOfCaller, CpsFor
  <2> QED
    BY <2>2, <2>3
<1> QED
  BY <1>5, <1>7, <1>8, <1>10, <1>11, <1>12, <1>13

(* New closures that settle new promises.                                  *)
LEMMA SettledGrows ==
    ASSUME Settled, References, ObjectsStay,
           \A c \in DOMAIN closures : closures'[c].cont = closures[c].cont,
           \A p \in DOMAIN promises : promises'[p] = promises[p],
           \A p \in DOMAIN promises' \ DOMAIN promises : promises'[p].status = "pending",
           \A c \in DOMAIN closures' \ DOMAIN closures :
                \A p : closures'[c].callback = Promise(p) => p \notin DOMAIN promises,
           \A c, d \in DOMAIN closures' \ DOMAIN closures :
                c # d /\ closures'[c].callback = closures'[d].callback /\ closures'[c].callback.is = "promise" =>
                    /\ {closures'[c].kind, closures'[d].kind} = {"resolve", "reject"}
                    /\ OpOf(c)' = OpOf(d)'
    PROVE  Settled'
<1>1. ASSUME NEW p \in DOMAIN promises',
             \A c \in DOMAIN closures' : closures'[c].callback = Promise(p) => closures'[c].cont # NoOp
      PROVE  promises'[p].status = "pending"
  <2>1. \A c \in DOMAIN closures : closures[c].callback = Promise(p) => closures[c].cont # NoOp
    BY <1>1 DEF ObjectsStay
  <2> QED
    BY <2>1 DEF Settled
<1>2. \A c \in DOMAIN closures : OpOf(c)' = OpOf(c) /\ closures'[c].kind = closures[c].kind
                                   /\ closures'[c].callback = closures[c].callback
  BY DEF ObjectsStay, OpOf
<1>3. \A c \in DOMAIN closures : \A d \in DOMAIN closures' \ DOMAIN closures :
        closures'[c].callback.is = "promise" => closures'[c].callback # closures'[d].callback
  <2> SUFFICES ASSUME NEW c \in DOMAIN closures, closures[c].callback.is = "promise"
               PROVE  \E p \in DOMAIN promises : closures[c].callback = Promise(p)
    BY <1>2
  <2>1. SlotsFit(c)
    BY DEF References
  <2> QED
    BY <2>1, ValueForms DEF SlotsFit, IsPromise
<1>4. ASSUME NEW c \in DOMAIN closures', NEW d \in DOMAIN closures',
             c # d, closures'[c].callback = closures'[d].callback, closures'[c].callback.is = "promise"
      PROVE  {closures'[c].kind, closures'[d].kind} = {"resolve", "reject"} /\ OpOf(c)' = OpOf(d)'
  <2>1. CASE c \in DOMAIN closures /\ d \in DOMAIN closures
    BY <1>2, <1>4, <2>1 DEF Settled
  <2>2. CASE c \notin DOMAIN closures /\ d \notin DOMAIN closures
    BY <1>4, <2>2
  <2>3. CASE c \in DOMAIN closures <=> d \notin DOMAIN closures
    BY <1>3, <1>4, <2>3
  <2> QED
    BY <2>1, <2>2, <2>3
<1> QED
  BY <1>1, <1>4 DEF Settled

(* A function that does not wait has nothing that would wake it up.        *)
LEMMA NoWakerAtTop ==
    ASSUME IInv, JSRuns, Top.kind = "async"
    PROVE  WakersOf(Top.closure) = {}
<1>1. Len(stack) \in DOMAIN stack /\ Top.operand = Nothing
  BY ShapesOpen DEF IInv, JSRuns
<1>2. ~ Waiting(Len(stack))
  BY <1>1, ValueForms DEF Waiting, Top
<1> QED
  BY <1>1, <1>2 DEF IInv, Wakers, Top

(* What vm_asyncStartUnsafe makes for a caller that awaits, one that does  *)
(* not use the result, and any other.                                      *)
LEMMA AsyncStarts ==
    ASSUME Shapes, NEW cb \in Value, NEW void \in BOOLEAN
    PROVE  LET s == AsyncStartUnsafe(cb, void)
           IN  /\ cb.is = "closure" => s.sync = Deleted /\ s.callback = cb
               /\ cb.is # "closure" /\ void => s.sync = Deleted /\ s.callback = NoOp
               /\ cb.is # "closure" /\ ~ void =>
                    /\ s.sync = Promise(Len(promises) + 1) /\ s.callback = Promise(Len(promises) + 1)
                    /\ Len(promises) + 1 \in DOMAIN s.promises
               /\ s.sync \in Value /\ s.callback \in Value
               /\ s.promises \in Seq(PromiseRecord)
               /\ DOMAIN promises \subseteq DOMAIN s.promises
               /\ \A p \in DOMAIN promises : s.promises[p] = promises[p]
               /\ \A p \in DOMAIN s.promises \ DOMAIN promises :
                    s.promises[p] = [status |-> "pending", out |-> Undefined]
<1> DEFINE s == AsyncStartUnsafe(cb, void)
           n == Len(promises)
           r == [status |-> "pending", out |-> Undefined]
<1>1. n \in Nat /\ promises \in Seq(PromiseRecord) /\ DOMAIN promises = 1 .. n
  BY ShapesOpen DEF Shapes
<1>2. Deleted \in Value /\ NoOp \in Value /\ Promise(n + 1) \in Value /\ Undefined \in Value
  BY <1>1, ValueShapes
<1>3. r \in PromiseRecord
  <2> HIDE DEF Value
  <2> QED
    BY <1>2 DEF PromiseRecord
<1>4. CASE cb.is = "closure"
  <2>1. s.sync = Deleted /\ s.callback = cb /\ s.promises = promises
    BY <1>4 DEF AsyncStartUnsafe
  <2> HIDE DEF s, Value, PromiseRecord
  <2> QED
    BY <1>1, <1>2, <1>4, <2>1 DEF s
<1>5. CASE cb.is # "closure" /\ void
  <2>1. s.sync = Deleted /\ s.callback = NoOp /\ s.promises = promises
    BY <1>5 DEF AsyncStartUnsafe
  <2> HIDE DEF s, Value, PromiseRecord
  <2> QED
    BY <1>1, <1>2, <1>5, <2>1 DEF s
<1>6. CASE cb.is # "closure" /\ ~ void
  <2>1. s.sync = Promise(n + 1) /\ s.callback = Promise(n + 1) /\ s.promises = Append(promises, r)
    BY <1>6 DEF AsyncStartUnsafe
  <2>2. /\ Append(promises, r) \in Seq(PromiseRecord)
        /\ DOMAIN Append(promises, r) = 1 .. n + 1
        /\ \A p \in 1 .. n : Append(promises, r)[p] = promises[p]
        /\ Append(promises, r)[n + 1] = r
    <3> HIDE DEF PromiseRecord, r
    <3> QED
      BY <1>1, <1>3, AppendProperties, LenProperties
  <2> HIDE DEF s, n, PromiseRecord, Value
  <2>3. \A p \in DOMAIN s.promises \ DOMAIN promises : p = n + 1
    BY <1>1, <2>1, <2>2
  <2> QED
    BY <1>1, <1>2, <1>6, <2>1, <2>2, <2>3 DEF s, n
<1> QED
  BY <1>4, <1>5, <1>6

LEMMA CallAsyncPreserves ==
    ASSUME IInv, NEW call, NEW cb,
           \/ JSRuns /\ call \in JSCalls /\ cb = CpsFor(call)
           \/ HostRuns /\ call = "host" /\ cb = Undefined,
           CallAsync(call, closures, cb)
    PROVE  IInv'
<1> USE DEF IInv
<1>s. PICK s : s = AsyncStartUnsafe(cb, call = "void")
  OBVIOUS
<1>k. PICK k : k = Len(closures) + 1
  OBVIOUS
<1>r. PICK r : r = [kind |-> "async", cont |-> Deleted, callback |-> s.callback]
  OBVIOUS
<1>f. PICK f : f = Frame("async", k, s.sync, call)
  OBVIOUS
<1>n. PICK n : n = Len(stack)
  OBVIOUS
<1>1. /\ ~ Idle => Top.operand = Nothing
      /\ IF Idle \/ Top.kind = "host" THEN call = "host" ELSE call \in JSCalls
      /\ call \in {"host", "normal", "void", "await"}
      /\ call = "await" => ~ Idle /\ Top.kind = "async" /\ JSRuns
      /\ cb = IF call = "await" THEN Closure(Top.closure) ELSE Undefined
  BY ShapesOpen DEF JSRuns, HostRuns, JSCalls, Frames, FrameFits, Top, CpsFor
<1>2. /\ n \in Nat /\ DOMAIN stack = 1 .. n
      /\ k \in Nat \ {0} /\ DOMAIN closures = 1 .. k - 1 /\ closures \in Seq(ClosureRecord)
      /\ call = "await" => n \in DOMAIN stack /\ IsAsync(Top.closure) /\ Top.closure \in Nat
  <2>1. call = "await" => n \in DOMAIN stack /\ IsAsync(Top.closure)
    BY <1>1, <1>n, ShapesOpen DEF Frames, FrameFits, Top
  <2> QED
    BY <2>1, <1>k, <1>n, ShapesOpen DEF Shapes, IsAsync
<1>3. /\ cb \in Value /\ (call = "void") \in BOOLEAN
      /\ call = "await" => cb.is = "closure"
      /\ call # "await" => cb.is # "closure"
  BY <1>1, <1>2, ValueShapes, ValueForms
<1>4. /\ call = "await" => s.sync = Deleted /\ s.callback = Closure(Top.closure)
      /\ call = "void" => s.sync = Deleted /\ s.callback = NoOp
      /\ call \in {"host", "normal"} =>
            \E p : p \notin DOMAIN promises /\ p \in DOMAIN promises' /\ s.callback = Promise(p)
      /\ s.sync \in Value /\ s.callback \in Value
      /\ promises' \in Seq(PromiseRecord)
      /\ DOMAIN promises \subseteq DOMAIN promises'
      /\ \A p \in DOMAIN promises : promises'[p] = promises[p]
      /\ \A p \in DOMAIN promises' \ DOMAIN promises :
            promises'[p] = [status |-> "pending", out |-> Undefined]
  <2>1. promises' = s.promises
    BY <1>s DEF CallAsync
  <2>2. Len(promises) + 1 \notin DOMAIN promises
    BY ShapesOpen
  <2> HIDE DEF Value, PromiseRecord
  <2>3. /\ cb.is = "closure" => s.sync = Deleted /\ s.callback = cb
        /\ cb.is # "closure" /\ call = "void" => s.sync = Deleted /\ s.callback = NoOp
        /\ cb.is # "closure" /\ call # "void" =>
             s.callback = Promise(Len(promises) + 1) /\ Len(promises) + 1 \in DOMAIN s.promises
        /\ s.sync \in Value /\ s.callback \in Value
        /\ s.promises \in Seq(PromiseRecord)
        /\ DOMAIN promises \subseteq DOMAIN s.promises
        /\ \A p \in DOMAIN promises : s.promises[p] = promises[p]
        /\ \A p \in DOMAIN s.promises \ DOMAIN promises :
             s.promises[p] = [status |-> "pending", out |-> Undefined]
    BY <1>3, <1>s, AsyncStarts
  <2>4. call = "await" => cb = Closure(Top.closure)
    BY <1>1
  <2>5. call \in {"host", "normal"} => cb.is # "closure" /\ call # "void"
    BY <1>3
  <2> QED
    BY <1>3, <2>1, <2>2, <2>3, <2>4, <2>5
<1>5. UNCHANGED <<queue, outcome>> /\ cps' = Deleted /\ closures' = Append(closures, r) /\ Enter(f)
  BY <1>s, <1>k, <1>r, <1>f DEF CallAsync
<1>6. /\ f.kind = "async" /\ f.closure = k /\ f.sync = s.sync /\ f.call = call /\ f.operand = Nothing
      /\ f.fresh = FALSE
  BY <1>f DEF Frame
<1>7. f \in FrameRecord
  <2>1. cps \in Value /\ Nothing \in Value
    BY ValueShapes DEF Shapes
  <2> HIDE DEF Value
  <2> QED
    BY <2>1, <1>1, <1>2, <1>4, <1>f DEF Frame, FrameRecord
<1>8. r \in ClosureRecord /\ r.kind = "async" /\ r.cont = Deleted /\ r.callback = s.callback
  <2> HIDE DEF Value
  <2> QED
    BY <1>4, <1>r, ValueShapes DEF ClosureRecord
<1>9. /\ closures' \in Seq(ClosureRecord) /\ DOMAIN closures' = 1 .. k
      /\ \A c \in DOMAIN closures : closures'[c] = closures[c]
      /\ closures'[k] = r /\ k \notin DOMAIN closures
      /\ DOMAIN closures' \ DOMAIN closures = {k}
  <2> HIDE DEF ClosureRecord
  <2>1. /\ closures' \in Seq(ClosureRecord) /\ DOMAIN closures' = 1 .. k
        /\ \A c \in DOMAIN closures : closures'[c] = closures[c]
        /\ closures'[k] = r
    BY <1>2, <1>5, <1>8, AppendProperties, LenProperties
  <2> QED
    BY <2>1, <1>2
<1>10. ObjectsStay
  BY <1>4, <1>9, <1>2 DEF ObjectsStay
<1>11. IsAsync(k)'
  BY <1>8, <1>9, <1>2 DEF IsAsync
<1>12. /\ stack' \in Seq(FrameRecord) /\ Len(stack') = n + 1 /\ stack'[n + 1] = f
       /\ \A i \in DOMAIN stack : SameFrame(i) /\ stack'[i].operand = Nothing
       /\ Frames'
  <2>1. IF Idle \/ Top.kind = "host" THEN call = "host" ELSE call \notin {"host", "job"}
    BY <1>1 DEF JSCalls
  <2> QED
    BY <1>1, <1>4, <1>5, <1>6, <1>7, <1>10, <1>11, <1>n, <2>1, EnterFrames
<1>13. Shapes'
  BY <1>4, <1>5, <1>9, <1>12, ValueShapes DEF Shapes
<1>14. References'
  <2>1. SlotsFit(k)'
    <3>1. (\E a \in DOMAIN closures : r.callback = Closure(a) /\ IsAsync(a))' \/ r.callback = NoOp
          \/ IsPromise(r.callback)'
      <4>1. CASE call = "await"
        <5>1. Top.closure \in DOMAIN closures'
          BY <4>1, <1>2, <1>10 DEF IsAsync, ObjectsStay
        <5>2. PICK t : t = Top.closure
          OBVIOUS
        <5>3. IsAsync(t)' /\ t \in DOMAIN closures'
          BY <4>1, <5>1, <5>2, <1>2, <1>10, ReferencesStay
        <5> QED
          BY <4>1, <5>2, <5>3, <1>4, <1>8
      <4>2. CASE call # "await"
        BY <4>2, <1>1, <1>4, <1>8 DEF IsPromise
      <4> QED
        BY <4>1, <4>2
    <3> QED
      BY <3>1, <1>8, <1>9 DEF SlotsFit
  <2> QED
    BY <2>1, <1>4, <1>5, <1>9, <1>10, NewReferences
<1>15. \A i \in DOMAIN stack' : \/ i \in DOMAIN stack /\ SameFrame(i)
                                \/ i = n + 1 /\ i \notin DOMAIN stack
  <2>1. DOMAIN stack' = 1 .. n + 1
    <3> HIDE DEF FrameRecord
    <3> QED
      BY <1>12, LenProperties
  <2> QED
    BY <2>1, <1>2, <1>12
<1>16. n + 1 \in DOMAIN stack' /\ DOMAIN stack \subseteq DOMAIN stack'
  <2> HIDE DEF FrameRecord
  <2> QED
    BY <1>2, <1>12, LenProperties
<1>17. ~ OnStack(k) /\ \A i \in DOMAIN stack : stack[i].kind = "async" => stack[i].closure # k
  BY <1>9 DEF OnStack, Frames, FrameFits, IsAsync
<1>18. RunsOnce'
  <2>1. \A c \in DOMAIN closures : OnStack(c)' <=> OnStack(c)
    BY <1>6, <1>9, <1>12, <1>15, <1>16 DEF OnStack, SameFrame
  <2>2. OnStack(k)'
    BY <1>6, <1>12, <1>16 DEF OnStack
  <2>3. \A c \in DOMAIN closures' : c = k \/ c \in DOMAIN closures
    BY <1>9
  <2>4. \A c \in DOMAIN closures' : closures'[c].kind = "async" => (closures'[c].cont = Deleted <=> OnStack(c)')
    BY <2>1, <2>2, <2>3, <1>8, <1>9 DEF RunsOnce
  <2>5. \A i, j \in DOMAIN stack' :
          stack'[i].kind = "async" /\ stack'[j].kind = "async" /\ stack'[i].closure = stack'[j].closure => i = j
    BY <1>6, <1>12, <1>15, <1>17 DEF RunsOnce, SameFrame
  <2> QED
    BY <2>4, <2>5 DEF RunsOnce
<1>19. Settled'
  <2>1. \A p : r.callback = Promise(p) => p \notin DOMAIN promises
    BY <1>1, <1>4, <1>8, ValueForms
  <2> QED
    BY <2>1, <1>4, <1>9, <1>10, SettledGrows
<1>20. CallbackOfCaller'
  BY <1>6, <1>12 DEF CallbackOfCaller, Top
<1>21. WakersOf(k) = {}
  <2>1. ASSUME NEW x \in WakersOf(k) PROVE FALSE
    <3>1. CASE \E i \in DOMAIN queue : queue[i].continuation = k
      BY <3>1, <1>9 DEF References, IsAsync
    <3>2. CASE \E p \in DOMAIN promises : \E i \in DOMAIN Subscribers(promises[p].out) :
                    Subscribers(promises[p].out)[i] = k
      BY <3>2, <1>9 DEF References, OutFits, IsAsync
    <3>3. CASE \E d \in DOMAIN closures : closures[d].callback = Closure(k)
      <4>1. PICK d \in DOMAIN closures : closures[d].callback = Closure(k)
        BY <3>3
      <4>2. SlotsFit(d)
        BY DEF References
      <4> QED
        BY <4>1, <4>2, <1>9, ValueForms, ClosuresDiffer DEF SlotsFit, IsPromise
    <3> QED
      BY <2>1, <3>1, <3>2, <3>3, WakerForms
  <2> QED
    BY <2>1
<1>22. /\ \A i \in DOMAIN stack : i # n => (Waiting(i)' <=> Waiting(i))
       /\ \A i \in DOMAIN stack : i = n => (Waiting(i)' <=> call = "await" /\ s.sync = Deleted)
       /\ \A i : i = n + 1 => ~ Waiting(i)'
  BY <1>6, <1>12, <1>n, EnterWaiting
<1>23. CASE call = "await"
  <2>1. PICK t : t = Top.closure
    OBVIOUS
  <2>2. t \in DOMAIN closures /\ t # k /\ n \in DOMAIN stack /\ stack[n].kind = "async" /\ stack[n].closure = t
    BY <1>1, <1>2, <1>9, <1>23, <1>n, <2>1 DEF IsAsync, Top
  <2>3. WakersOf(t) = {} /\ closures[t].cont = Deleted
    BY <1>1, <1>23, <2>1, <2>2, NoWakerAtTop DEF RunsOnce, OnStack, Frames, FrameFits, IsAsync
  <2>4. \A a : WakersOf(a)' = WakersOf(a) \cup (IF a = t THEN {<<"callback", k>>} ELSE {})
    <3> SUFFICES ASSUME NEW a
                 PROVE  WakersOf(a)' = WakersOf(a) \cup (IF a = t THEN {<<"callback", k>>} ELSE {})
      OBVIOUS
    <3>1. r.callback = Closure(t) /\ r.cont # NoOp
      BY <1>4, <1>8, <1>23, <2>1, ValueForms
    <3>2. r.callback = Closure(a) <=> a = t
      BY <3>1, ClosuresDiffer
    <3>3. {<<"callback", d>> : d \in {e \in DOMAIN closures' \ DOMAIN closures :
                                        closures'[e].callback = Closure(a) /\ closures'[e].cont # NoOp}}
            = IF a = t THEN {<<"callback", k>>} ELSE {}
      BY <1>9, <3>1, <3>2
    <3>4. \A p \in DOMAIN promises' \ DOMAIN promises : Subscribers(promises'[p].out) = << >>
      BY <1>4, ValueForms DEF Subscribers
    <3>5. WakersOf(a)' = WakersOf(a) \cup
             {<<"callback", d>> : d \in {e \in DOMAIN closures' \ DOMAIN closures :
                                        closures'[e].callback = Closure(a) /\ closures'[e].cont # NoOp}}
      BY <1>4, <1>5, <1>9, <1>10, <3>4, WakersGrow DEF ObjectsStay
    <3> QED
      BY <3>3, <3>5
  <2>5. ASSUME NEW c \in DOMAIN closures', closures'[c].kind = "async"
        PROVE  /\ \A x, y \in WakersOf(c)' : x = y
               /\ closures'[c].cont = Resume => WakersOf(c)' # {}
               /\ closures'[c].cont = NoOp => WakersOf(c)' = {}
    <3>1. CASE c = t
      <4>1. WakersOf(t)' = {<<"callback", k>>}
        BY <2>3, <2>4
      <4>2. closures'[t].cont = Deleted
        BY <2>2, <2>3, <1>9
      <4> QED
        BY <3>1, <4>1, <4>2, ValueForms
    <3>2. CASE c = k
      BY <3>2, <2>2, <2>4, <1>8, <1>9, <1>21, ValueForms
    <3>3. CASE c # t /\ c # k
      <4>1. c \in DOMAIN closures /\ closures'[c] = closures[c]
        BY <3>3, <1>9
      <4>2. WakersOf(c)' = WakersOf(c)
        BY <3>3, <2>4
      <4> QED
        BY <4>1, <4>2, <2>5 DEF Wakers
    <3> QED
      BY <3>1, <3>2, <3>3
  <2>6. ASSUME NEW i \in DOMAIN stack', stack'[i].kind = "async", NEW a, a = stack'[i].closure
        PROVE  WakersOf(a)' # {} <=> Waiting(i)'
    <3>1. CASE i = n + 1
      <4>1. a = k
        BY <3>1, <2>6, <1>6, <1>12
      <4>2. WakersOf(a)' = {}
        BY <4>1, <2>2, <2>4, <1>21
      <4> QED
        BY <3>1, <4>2, <1>22
    <3>2. CASE i = n
      <4>1. a = t
        BY <3>2, <2>6, <2>2, <1>12 DEF SameFrame
      <4>2. <<"callback", k>> \in WakersOf(a)'
        BY <4>1, <2>4
      <4>3. s.sync = Deleted
        BY <1>4, <1>23
      <4> QED
        BY <3>2, <4>2, <4>3, <1>22, <1>23, <2>2
    <3>3. CASE i \in DOMAIN stack /\ i # n
      <4>1. stack[i].kind = "async" /\ stack[i].closure = a
        BY <3>3, <2>6, <1>12 DEF SameFrame
      <4>2. a # t
        BY <3>3, <4>1, <2>2 DEF RunsOnce
      <4>3. WakersOf(a)' = WakersOf(a)
        BY <4>2, <2>4
      <4>4. WakersOf(a) # {} <=> Waiting(i)
        BY <3>3, <4>1 DEF Wakers
      <4> QED
        BY <3>3, <4>3, <4>4, <1>22
    <3> QED
      BY <3>1, <3>2, <3>3, <1>15
  <2>7. Wakers'
    BY <2>5, <2>6 DEF Wakers
  <2> QED
    BY <2>7, <1>12, <1>13, <1>14, <1>18, <1>19, <1>20
<1>24. CASE call # "await"
  <2>1. \A a : WakersOf(a)' = WakersOf(a)
    <3>1. \A p \in DOMAIN promises' \ DOMAIN promises : Subscribers(promises'[p].out) = << >>
      BY <1>4, ValueForms DEF Subscribers
    <3>2. r.callback.is # "closure"
      BY <1>1, <1>4, <1>8, <1>24, ValueForms
    <3> QED
      BY <3>1, <3>2, <1>4, <1>5, <1>9, <1>10, WakersStay DEF ObjectsStay
  <2>2. ASSUME NEW c \in DOMAIN closures', closures'[c].kind = "async"
        PROVE  /\ \A x, y \in WakersOf(c)' : x = y
               /\ closures'[c].cont = Resume => WakersOf(c)' # {}
               /\ closures'[c].cont = NoOp => WakersOf(c)' = {}
    <3>1. CASE c = k
      BY <3>1, <2>1, <1>8, <1>9, <1>21, ValueForms
    <3>2. CASE c # k
      <4>1. c \in DOMAIN closures /\ closures'[c] = closures[c] /\ WakersOf(c)' = WakersOf(c)
        BY <3>2, <2>1, <1>9
      <4> QED
        BY <4>1, <2>2 DEF Wakers
    <3> QED
      BY <3>1, <3>2
  <2>3. ASSUME NEW i \in DOMAIN stack', stack'[i].kind = "async", NEW a, a = stack'[i].closure
        PROVE  WakersOf(a)' # {} <=> Waiting(i)'
    <3>1. CASE i = n + 1
      <4>1. a = k
        BY <3>1, <2>3, <1>6, <1>12
      <4> QED
        BY <3>1, <4>1, <2>1, <1>21, <1>22
    <3>2. CASE i \in DOMAIN stack
      <4>1. stack[i].kind = "async" /\ stack[i].closure = a
        BY <3>2, <2>3, <1>12 DEF SameFrame
      <4>2. WakersOf(a) # {} <=> Waiting(i)
        BY <3>2, <4>1 DEF Wakers
      <4>3. CASE i = n
        <5>1. ~ Waiting(i)
          BY <4>3, <3>2, <1>1, <1>2, <1>n, ValueForms DEF Waiting, Top, Idle
        <5> QED
          BY <4>2, <4>3, <5>1, <3>2, <2>1, <1>22, <1>24
      <4>4. CASE i # n
        BY <4>2, <4>4, <3>2, <2>1, <1>22
      <4> QED
        BY <4>3, <4>4
    <3> QED
      BY <3>1, <3>2, <1>15
  <2>4. Wakers'
    BY <2>2, <2>3 DEF Wakers
  <2> QED
    BY <2>4, <1>12, <1>13, <1>14, <1>18, <1>19, <1>20
<1> QED
  BY <1>23, <1>24

-----------------------------------------------------------------------------
(* Steps that change no async function.                                    *)

LEMMA WakersPreserved ==
    ASSUME Wakers,
           \A a : WakersOf(a)' = WakersOf(a),
           \A c \in DOMAIN closures' : closures'[c].kind = "async" =>
                c \in DOMAIN closures /\ closures'[c].kind = closures[c].kind
                                      /\ closures'[c].cont = closures[c].cont,
           \A i \in DOMAIN stack' : stack'[i].kind = "async" =>
                i \in DOMAIN stack /\ SameFrame(i) /\ (Waiting(i)' <=> Waiting(i))
    PROVE  Wakers'
<1>1. ASSUME NEW c \in DOMAIN closures', closures'[c].kind = "async"
      PROVE  /\ \A x, y \in WakersOf(c)' : x = y
             /\ closures'[c].cont = Resume => WakersOf(c)' # {}
             /\ closures'[c].cont = NoOp => WakersOf(c)' = {}
  BY <1>1 DEF Wakers
<1>2. ASSUME NEW i \in DOMAIN stack', stack'[i].kind = "async", NEW a, a = stack'[i].closure
      PROVE  WakersOf(a)' # {} <=> Waiting(i)'
  <2>1. i \in DOMAIN stack /\ stack[i].kind = "async" /\ stack[i].closure = a
    BY <1>2 DEF SameFrame
  <2>2. WakersOf(a) # {} <=> Waiting(i)
    BY <2>1 DEF Wakers
  <2> QED
    BY <1>2, <2>2
<1> QED
  BY <1>1, <1>2 DEF Wakers

LEMMA RunsOncePreserved ==
    ASSUME RunsOnce,
           \A c \in DOMAIN closures' : closures'[c].kind = "async" =>
                c \in DOMAIN closures /\ closures'[c].kind = closures[c].kind
                                      /\ closures'[c].cont = closures[c].cont,
           \A i \in DOMAIN stack' : stack'[i].kind = "async" => i \in DOMAIN stack /\ SameFrame(i),
           \A i \in DOMAIN stack : stack[i].kind = "async" => i \in DOMAIN stack' /\ SameFrame(i)
    PROVE  RunsOnce'
<1>1. \A c : OnStack(c)' <=> OnStack(c)
  BY DEF OnStack, SameFrame
<1>2. \A i, j \in DOMAIN stack' :
        stack'[i].kind = "async" /\ stack'[j].kind = "async" /\ stack'[i].closure = stack'[j].closure => i = j
  BY DEF RunsOnce, SameFrame
<1> QED
  BY <1>1, <1>2 DEF RunsOnce

(* Frames stay as they are but for what the next collection or the use of  *)
(* the VM changes.                                                         *)
LEMMA FramesStay ==
    ASSUME Shapes, Frames, ObjectsStay,
           Len(stack') = Len(stack), DOMAIN stack' = DOMAIN stack,
           \A i \in DOMAIN stack :
                /\ SameFrame(i) /\ stack'[i].operand = stack[i].operand
                /\ stack'[i].fresh => stack[i].fresh
    PROVE  Frames' /\ \A i \in DOMAIN stack : Waiting(i)' <=> Waiting(i)
<1>1. DOMAIN stack = 1 .. Len(stack) /\ Len(stack) \in Nat
  BY ShapesOpen
<1>2. ASSUME NEW i \in DOMAIN stack PROVE FrameFits(i)'
  <2>1. FrameFits(i) /\ SameFrame(i) /\ stack'[i].operand = stack[i].operand
        /\ (stack'[i].fresh => stack[i].fresh)
    BY DEF Frames
  <2>2. i > 1 => stack'[i - 1].kind = stack[i - 1].kind
    <3>1. i > 1 => i - 1 \in DOMAIN stack
      BY <1>1
    <3> QED
      BY <3>1 DEF SameFrame
  <2> QED
    BY <2>1, <2>2, ReferencesStay DEF FrameFits, SameFrame
<1>3. ASSUME NEW i \in DOMAIN stack PROVE Waiting(i)' <=> Waiting(i)
  <2>1. CASE i = Len(stack)
    BY <2>1 DEF Waiting
  <2>2. CASE i # Len(stack)
    <3>1. i + 1 \in DOMAIN stack
      BY <1>1, <2>2
    <3> QED
      BY <2>2, <3>1 DEF Waiting, SameFrame
  <2> QED
    BY <2>1, <2>2
<1> QED
  BY <1>2, <1>3 DEF Frames

LEMMA UsedStays ==
    ASSUME Shapes, Frames, ObjectsStay, stack' = Used(stack)
    PROVE  /\ stack' \in Seq(FrameRecord) /\ Len(stack') = Len(stack) /\ DOMAIN stack' = DOMAIN stack
           /\ \A i \in DOMAIN stack : SameFrame(i) /\ (Waiting(i)' <=> Waiting(i))
           /\ Frames' /\ CallbackOfCaller'
<1>1. stack' \in Seq(FrameRecord) /\ Len(stack') = Len(stack) /\ DOMAIN stack' = DOMAIN stack
  <2> HIDE DEF FrameRecord
  <2> QED
    BY UsedFrames, LenProperties, ShapesOpen
<1>2. \A i \in DOMAIN stack :
        /\ SameFrame(i) /\ stack'[i].operand = stack[i].operand
        /\ stack'[i].fresh => stack[i].fresh /\ (i = Len(stack) => stack[i].kind # "host")
  BY UsedFrames DEF SameFrame
<1>3. CallbackOfCaller'
  <2>1. ~ Idle' => Len(stack) \in DOMAIN stack
    BY <1>1, ShapesOpen DEF Idle, Shapes
  <2> QED
    BY <1>1, <1>2, <2>1 DEF CallbackOfCaller, Top, SameFrame
<1> QED
  BY <1>1, <1>2, <1>3, FramesStay

LEMMA NewPromisePreserves ==
    ASSUME IInv, NewPromise
    PROVE  IInv'
<1> USE DEF IInv
<1>k. PICK k : k = Len(closures) + 1
  OBVIOUS
<1>m. PICK m : m = Len(promises) + 1
  OBVIOUS
<1>r. PICK r : r = [kind |-> "resolve", cont |-> Undefined, callback |-> Promise(m)]
  OBVIOUS
<1>s. PICK s : s = [kind |-> "reject", cont |-> Undefined, callback |-> Promise(m)]
  OBVIOUS
<1>p. PICK p : p = [status |-> "pending", out |-> Undefined]
  OBVIOUS
<1>1. k \in Nat /\ m \in Nat /\ DOMAIN closures = 1 .. k - 1 /\ DOMAIN promises = 1 .. m - 1
      /\ k \notin DOMAIN closures /\ k + 1 \notin DOMAIN closures /\ m \notin DOMAIN promises
  BY <1>k, <1>m, ShapesOpen
<1>2. /\ closures' = closures \o <<r, s>> /\ promises' = Append(promises, p)
      /\ UNCHANGED <<stack, queue, outcome>> /\ cps' = Deleted /\ JSRuns
  BY <1>m, <1>r, <1>s, <1>p DEF NewPromise
<1>3. r \in ClosureRecord /\ s \in ClosureRecord /\ p \in PromiseRecord
  <2>1. Undefined \in Value /\ Promise(m) \in Value
    BY <1>1, ValueShapes
  <2> HIDE DEF Value
  <2> QED
    BY <2>1, <1>r, <1>s, <1>p DEF ClosureRecord, PromiseRecord
<1>4. /\ closures' \in Seq(ClosureRecord) /\ DOMAIN closures' = DOMAIN closures \cup {k, k + 1}
      /\ \A c \in DOMAIN closures : closures'[c] = closures[c]
      /\ closures'[k] = r /\ closures'[k + 1] = s
  <2> HIDE DEF ClosureRecord
  <2>1. <<r, s>> \in Seq(ClosureRecord) /\ Len(<<r, s>>) = 2 /\ <<r, s>>[1] = r /\ <<r, s>>[2] = s
    BY <1>3
  <2>2. /\ closures' \in Seq(ClosureRecord) /\ Len(closures') = Len(closures) + 2
        /\ \A i \in 1 .. Len(closures) + 2 :
             closures'[i] = IF i <= Len(closures) THEN closures[i] ELSE <<r, s>>[i - Len(closures)]
    BY <1>2, <2>1, ConcatProperties DEF Shapes
  <2>3. DOMAIN closures' = 1 .. Len(closures) + 2
    BY <2>2, LenProperties
  <2>4. closures'[k] = <<r, s>>[1] /\ closures'[k + 1] = <<r, s>>[2]
    <3>1. Len(closures) \in Nat /\ k = Len(closures) + 1
      BY <1>k, ShapesOpen
    <3>2. k - Len(closures) = 1 /\ k + 1 - Len(closures) = 2 /\ k \in 1 .. Len(closures) + 2
          /\ k + 1 \in 1 .. Len(closures) + 2 /\ ~ (k <= Len(closures)) /\ ~ (k + 1 <= Len(closures))
      BY <3>1
    <3> QED
      BY <2>2, <3>2
  <2>5. Len(closures) \in Nat /\ DOMAIN closures = 1 .. Len(closures)
    BY ShapesOpen
  <2>6. 1 .. Len(closures) + 2 = (1 .. Len(closures)) \cup {k, k + 1}
    BY <2>5, <1>k
  <2>7. \A c \in DOMAIN closures : closures'[c] = closures[c]
    BY <2>2, <2>5
  <2> QED
    BY <2>1, <2>2, <2>3, <2>4, <2>5, <2>6, <2>7
<1>5. /\ promises' \in Seq(PromiseRecord) /\ DOMAIN promises' = DOMAIN promises \cup {m}
      /\ \A q \in DOMAIN promises : promises'[q] = promises[q]
      /\ promises'[m] = p
  <2> HIDE DEF PromiseRecord
  <2>1. /\ promises' \in Seq(PromiseRecord) /\ DOMAIN promises' = 1 .. m
        /\ \A q \in 1 .. m - 1 : promises'[q] = promises[q]
        /\ promises'[m] = p
    BY <1>1, <1>m, <1>2, <1>3, AppendProperties, LenProperties DEF Shapes
  <2>2. 1 .. m = (1 .. m - 1) \cup {m} /\ m \in 1 .. m
    BY <1>1, <1>m, ShapesOpen
  <2> QED
    BY <1>1, <2>1, <2>2
<1>6. ObjectsStay
  BY <1>4, <1>5 DEF ObjectsStay
<1>7. Shapes'
  BY <1>2, <1>4, <1>5, ValueShapes DEF Shapes
<1>8. DOMAIN closures' \ DOMAIN closures = {k, k + 1} /\ DOMAIN promises' \ DOMAIN promises = {m}
  BY <1>1, <1>4, <1>5
<1>9. References'
  <2>1. SlotsFit(k)' /\ (SlotsFit(k + 1))'
    BY <1>4, <1>5, <1>r, <1>s DEF SlotsFit, IsPromise
  <2> QED
    BY <2>1, <1>2, <1>4, <1>5, <1>6, <1>8, <1>p, NewReferences
<1>10. Frames' /\ \A i \in DOMAIN stack : Waiting(i)' <=> Waiting(i)
  BY <1>2, <1>6, FramesStay DEF SameFrame
<1>11. \A c \in DOMAIN closures' : closures'[c].kind = "async" =>
          c \in DOMAIN closures /\ closures'[c] = closures[c]
  BY <1>4, <1>r, <1>s
<1>12. RunsOnce'
  BY <1>2, <1>11, RunsOncePreserved DEF SameFrame
<1>13. Wakers'
  <2>1. \A a : WakersOf(a)' = WakersOf(a)
    <3>1. Subscribers(p.out) = << >>
      BY <1>p, ValueForms DEF Subscribers
    <3>2. r.callback.is # "closure" /\ s.callback.is # "closure"
      BY <1>r, <1>s, ValueForms
    <3> QED
      BY <3>1, <3>2, <1>2, <1>4, <1>5, <1>6, <1>8, WakersStay
  <2> QED
    BY <2>1, <1>2, <1>10, <1>11, WakersPreserved DEF SameFrame
<1>14. Settled'
  <2>1. OpOf(k)' = k /\ (OpOf(k + 1))' = k
    BY <1>1, <1>4, <1>r, <1>s DEF OpOf
  <2>2. \A c \in {k, k + 1} : \A q : closures'[c].callback = Promise(q) => q \notin DOMAIN promises
    BY <1>1, <1>4, <1>r, <1>s, PromisesDiffer
  <2>3. \A c, d \in {k, k + 1} : c # d =>
            {closures'[c].kind, closures'[d].kind} = {"resolve", "reject"} /\ OpOf(c)' = OpOf(d)'
    BY <2>1, <1>4, <1>r, <1>s
  <2>4. \A q \in DOMAIN promises' \ DOMAIN promises : promises'[q].status = "pending"
    BY <1>5, <1>8, <1>p
  <2> QED
    BY <2>2, <2>3, <2>4, <1>4, <1>5, <1>6, <1>8, SettledGrows
<1>15. CallbackOfCaller'
  BY <1>2 DEF CallbackOfCaller, JSRuns, Top, Idle
<1> QED
  BY <1>7, <1>9, <1>10, <1>12, <1>13, <1>14, <1>15

LEMMA CollectPreserves ==
    ASSUME IInv, Collect
    PROVE  IInv'
<1> USE DEF IInv
<1>1. UNCHANGED <<closures, promises, cps, queue>> /\ ~ Idle
  BY DEF Collect
<1>2. ObjectsStay
  BY <1>1 DEF ObjectsStay
<1>3. /\ stack' \in Seq(FrameRecord) /\ Len(stack') = Len(stack) /\ DOMAIN stack' = DOMAIN stack
      /\ \A i \in DOMAIN stack :
            SameFrame(i) /\ stack'[i].operand = stack[i].operand /\ stack'[i].fresh = stack[i].fresh
  <2>1. ASSUME NEW f \in FrameRecord
        PROVE  LET g == [f EXCEPT !.saved = Stale]
               IN  /\ g \in FrameRecord /\ g.kind = f.kind /\ g.closure = f.closure /\ g.sync = f.sync
                   /\ g.call = f.call /\ g.operand = f.operand /\ g.fresh = f.fresh
    <3>1. Stale \in Value
      BY ValueShapes
    <3> HIDE DEF Value
    <3> QED
      BY <3>1 DEF FrameRecord
  <2> HIDE DEF FrameRecord
  <2>2. \A i \in DOMAIN stack :
            /\ stack'[i] \in FrameRecord
            /\ stack'[i].kind = stack[i].kind /\ stack'[i].closure = stack[i].closure
            /\ stack'[i].sync = stack[i].sync /\ stack'[i].call = stack[i].call
            /\ stack'[i].operand = stack[i].operand /\ stack'[i].fresh = stack[i].fresh
    BY <2>1, ShapesOpen DEF Collect
  <2>3. Len(stack) \in Nat /\ DOMAIN stack = 1 .. Len(stack)
    BY ShapesOpen
  <2>4. stack' \in [1 .. Len(stack) -> FrameRecord]
    BY <2>2, <2>3 DEF Collect
  <2>5. stack' \in Seq(FrameRecord) /\ Len(stack') = Len(stack)
    BY <2>3, <2>4
  <2> QED
    BY <2>2, <2>3, <2>4, <2>5 DEF SameFrame
<1>4. Frames' /\ \A i \in DOMAIN stack : Waiting(i)' <=> Waiting(i)
  BY <1>2, <1>3, FramesStay
<1>5. Shapes'
  BY <1>1, <1>3 DEF Shapes
<1>6. References'
  BY <1>1, <1>2, NewReferences
<1>7. RunsOnce'
  BY <1>1, <1>3, RunsOncePreserved
<1>8. Wakers'
  <2>1. \A a : WakersOf(a)' = WakersOf(a)
    BY <1>1 DEF WakersOf
  <2> QED
    BY <2>1, <1>1, <1>3, <1>4, WakersPreserved
<1>9. Settled'
  BY <1>1, <1>2, SettledStays
<1>10. CallbackOfCaller'
  <2>1. Len(stack) \in DOMAIN stack
    BY <1>1, ShapesOpen
  <2>2. Top.call = "await" => Len(stack) - 1 \in DOMAIN stack
    <3>1. FrameFits(Len(stack)) /\ DOMAIN stack = 1 .. Len(stack) /\ Len(stack) \in Nat
      BY <2>1, ShapesOpen DEF Frames
    <3> QED
      BY <2>1, <3>1 DEF FrameFits, Top
  <2> QED
    BY <2>1, <2>2, <1>1, <1>3 DEF CallbackOfCaller, Top, SameFrame
<1> QED
  BY <1>4, <1>5, <1>6, <1>7, <1>8, <1>9, <1>10

(* A return of what is not an async function.                              *)
LEMMA PlainReturnPreserves ==
    ASSUME IInv, PlainReturns \/ HostReturns
    PROVE  IInv'
<1> USE DEF IInv
<1>1. /\ UNCHANGED <<closures, promises, queue>> /\ ~ Idle /\ Top.kind \in {"plain", "host"}
      /\ \E v \in IF Top.sync = Undefined THEN Results(Top.call) ELSE {Top.sync} : ReturnValue(v)
  <2>1. CASE PlainReturns
    <3>1. Top.sync = Undefined
      BY <2>1, ShapesOpen DEF PlainReturns, JSRuns, Frames, FrameFits, Top
    <3> QED
      BY <2>1, <3>1 DEF PlainReturns, JSRuns
  <2>2. CASE HostReturns
    BY <2>2 DEF HostReturns
  <2> QED
    BY <2>1, <2>2
<1>2. PICK v \in IF Top.sync = Undefined THEN Results(Top.call) ELSE {Top.sync} : ReturnValue(v)
  BY <1>1
<1>3. ObjectsStay
  BY <1>1 DEF ObjectsStay
<1>n. PICK n : n = Len(stack)
  OBVIOUS
<1>4. n \in DOMAIN stack /\ Top = stack[n] /\ Top \in FrameRecord /\ FrameFits(n)
      /\ DOMAIN stack = 1 .. n /\ n \in Nat
  BY <1>1, <1>n, ShapesOpen DEF Top, Frames
<1>5. /\ v \in Value
      /\ Top.call = "await" => (v = Deleted \/ IsPromise(v)) /\ (v = Deleted <=> Top.sync = Deleted)
  <2>1. Top.sync \in Value /\ Undefined \in Value
    BY <1>4, ValueShapes DEF FrameRecord
  <2>2. \A p \in VisiblePromises : IsPromise(Promise(p)) /\ Promise(p) \in Value /\ Promise(p) # Deleted
    BY ShapesOpen, ValueShapes, ValueForms DEF VisiblePromises, IsPromise
  <2>3. v = Top.sync \/ v = Undefined \/ \E p \in VisiblePromises : v = Promise(p)
    BY DEF Results
  <2>4. v \in Value
    BY <2>1, <2>2, <2>3
  <2>5. ASSUME Top.call = "await"
        PROVE  (v = Deleted \/ IsPromise(v)) /\ (v = Deleted <=> Top.sync = Deleted)
    <3>1. Top.sync = Deleted \/ Top.sync = Undefined
      BY <1>4, <2>5 DEF FrameFits
    <3>2. Undefined # Deleted
      BY ValueForms
    <3>3. CASE Top.sync = Undefined
      <4>1. \E p \in VisiblePromises : v = Promise(p)
        BY <3>3, <2>5, <1>2 DEF Results
      <4> QED
        BY <4>1, <3>2, <3>3, <2>2
    <3>4. CASE Top.sync = Deleted
      BY <3>2, <3>4
    <3> QED
      BY <3>1, <3>3, <3>4
  <2> QED
    BY <2>4, <2>5
<1>6. /\ stack' \in Seq(FrameRecord) /\ Len(stack') = n - 1
      /\ \A i \in 1 .. n - 1 : SameFrame(i) /\ (Waiting(i)' <=> Waiting(i))
      /\ Frames' /\ CallbackOfCaller'
  <2>1. Top.call = "await" => (v = Deleted \/ IsPromise(v)') /\ (v = Deleted <=> Top.sync = Deleted)
    BY <1>3, <1>5, ReferencesStay
  <2> HIDE DEF FrameRecord, Value
  <2> QED
    BY <1>1, <1>2, <1>3, <1>5, <1>n, <2>1, ReturnFrames
<1>7. DOMAIN stack' = 1 .. n - 1 /\ \A i \in DOMAIN stack : stack[i].kind = "async" => i \in 1 .. n - 1
  <2> HIDE DEF FrameRecord
  <2> QED
    BY <1>1, <1>4, <1>6, LenProperties
<1>8. Shapes'
  <2>1. cps' \in Value
    <3>1. cps' = Deleted \/ cps' = Top.saved
      BY <1>2 DEF ReturnValue
    <3> QED
      BY <3>1, <1>4, ValueShapes DEF FrameRecord
  <2> QED
    BY <2>1, <1>1, <1>6 DEF Shapes
<1>9. References'
  BY <1>1, <1>3, NewReferences
<1>10. RunsOnce'
  BY <1>1, <1>4, <1>6, <1>7, RunsOncePreserved
<1>11. Wakers'
  <2>1. \A a : WakersOf(a)' = WakersOf(a)
    BY <1>1 DEF WakersOf
  <2>2. \A i \in DOMAIN stack' : i \in DOMAIN stack
    BY <1>4, <1>7
  <2> QED
    BY <2>1, <2>2, <1>1, <1>6, <1>7, WakersPreserved
<1>12. Settled'
  BY <1>1, <1>3, SettledStays
<1> QED
  BY <1>6, <1>8, <1>9, <1>10, <1>11, <1>12

LEMMA ThrowPreserves ==
    ASSUME IInv, Throw
    PROVE  IInv'
<1> USE DEF IInv
<1>1. UNCHANGED <<closures, promises, cps, queue>> /\ ~ Idle /\ Top.kind \in {"plain", "host"}
      /\ Top.sync = Undefined
  BY DEF Throw
<1>2. PICK k \in DOMAIN stack :
        /\ stack[k].kind = "async"
        /\ \A j \in k + 1 .. Len(stack) : stack[j].kind # "async" /\ stack[j].call # "host"
        /\ stack' = SubSeq(stack, 1, k)
  BY DEF Throw
<1>n. PICK n : n = Len(stack)
  OBVIOUS
<1>3. ObjectsStay
  BY <1>1 DEF ObjectsStay
<1>4. n \in DOMAIN stack /\ Top = stack[n] /\ DOMAIN stack = 1 .. n /\ n \in Nat
  BY <1>1, <1>n, ShapesOpen DEF Top
<1>5. k \in 1 .. n - 1
  <2>1. k # n
    BY <1>1, <1>2, <1>4
  <2> QED
    BY <2>1, <1>4
<1>6. /\ stack' \in Seq(FrameRecord) /\ Len(stack') = k /\ DOMAIN stack' = 1 .. k
      /\ \A i \in 1 .. k : stack'[i] = stack[i]
  <2>1. \A i \in 1 .. k : stack[i] \in FrameRecord
    BY <1>4, <1>5, ShapesOpen
  <2> HIDE DEF FrameRecord
  <2>2. /\ stack' \in Seq(FrameRecord) /\ Len(stack') = k
        /\ \A i \in 1 .. k : stack'[i] = stack[i]
    BY <1>2, <1>5, <2>1, SubSeqProperties
  <2> QED
    BY <2>2, LenProperties
<1>7. \A i \in 1 .. k : stack[i].operand = Nothing /\ (stack[i].kind = "host" => ~ stack[i].fresh)
  BY <1>4, <1>5, <1>n DEF Frames, FrameFits
<1>8. Frames'
  <2> SUFFICES ASSUME NEW i \in 1 .. k PROVE FrameFits(i)'
    BY <1>6 DEF Frames
  <2>1. i \in DOMAIN stack /\ (i > 1 => i - 1 \in 1 .. k)
    BY <1>4, <1>5
  <2>2. FrameFits(i) /\ stack'[i] = stack[i] /\ (i > 1 => stack'[i - 1] = stack[i - 1])
    BY <2>1, <1>6 DEF Frames
  <2> QED
    BY <2>2, <1>7, <1>3, ReferencesStay DEF FrameFits
<1>9. ~ Waiting(k)
  <2>1. k # Len(stack) /\ k + 1 \in DOMAIN stack /\ stack[k + 1].kind # "async"
    BY <1>2, <1>4, <1>5, <1>n
  <2>2. stack[k + 1].sync = Undefined
    <3>1. CASE k + 1 = n
      BY <3>1, <1>1, <1>4
    <3>2. CASE k + 1 # n
      <4>1. k + 2 \in DOMAIN stack /\ k + 2 > 1 /\ k + 2 - 1 = k + 1 /\ k + 2 \in k + 1 .. Len(stack)
        BY <3>2, <2>1, <1>4, <1>5, <1>n
      <4>2. stack[k + 2].call # "host" /\ FrameFits(k + 2)
        BY <4>1, <1>2 DEF Frames
      <4>3. stack[k + 1].kind # "host"
        BY <4>1, <4>2 DEF FrameFits
      <4>4. stack[k + 1].kind = "plain"
        BY <4>3, <2>1, ShapesOpen DEF FrameRecord
      <4> QED
        BY <4>4, <2>1 DEF Frames, FrameFits
    <3> QED
      BY <3>1, <3>2
  <2> QED
    BY <2>1, <2>2, ValueForms DEF Waiting
<1>10. ASSUME NEW i \in 1 .. k PROVE Waiting(i)' <=> Waiting(i)
  <2>1. CASE i = k
    BY <2>1, <1>6, <1>7, <1>9, ValueForms DEF Waiting
  <2>2. CASE i # k
    <3>1. n \in Nat /\ k \in 1 .. n - 1
      BY <1>4, <1>5
    <3>2. i + 1 \in 1 .. k /\ i # n
      BY <2>2, <3>1
    <3>3. stack'[i + 1] = stack[i + 1] /\ i # Len(stack')
      BY <2>2, <3>2, <1>6
    <3> QED
      BY <3>2, <3>3, <1>n DEF Waiting
  <2> QED
    BY <2>1, <2>2
<1>11. \A i \in DOMAIN stack : stack[i].kind = "async" => i \in 1 .. k
  BY <1>2, <1>4, <1>5, <1>n
<1>12. \A i \in DOMAIN stack' : i \in DOMAIN stack /\ SameFrame(i)
  BY <1>4, <1>5, <1>6 DEF SameFrame
<1>13. Shapes'
  BY <1>1, <1>6 DEF Shapes
<1>14. References'
  BY <1>1, <1>3, NewReferences
<1>15. RunsOnce'
  BY <1>1, <1>6, <1>11, <1>12, RunsOncePreserved
<1>16. Wakers'
  <2>1. \A a : WakersOf(a)' = WakersOf(a)
    BY <1>1 DEF WakersOf
  <2> QED
    BY <2>1, <1>1, <1>6, <1>10, <1>12, WakersPreserved
<1>17. Settled'
  BY <1>1, <1>3, SettledStays
<1>18. CallbackOfCaller'
  BY <1>2, <1>5, <1>6 DEF CallbackOfCaller, Top
<1> QED
  BY <1>8, <1>13, <1>14, <1>15, <1>16, <1>17, <1>18

-----------------------------------------------------------------------------
(* mvm_asyncStart.                                                         *)

LEMMA HostAsyncStartPreserves ==
    ASSUME IInv, HostAsyncStart
    PROVE  IInv'
<1> USE DEF IInv
<1>n. PICK n : n = Len(stack)
  OBVIOUS
<1>1. /\ ~ Idle /\ Top.kind = "host" /\ Top.fresh /\ cps' = Deleted /\ UNCHANGED queue
      /\ n \in DOMAIN stack /\ n \in Nat /\ DOMAIN stack = 1 .. n /\ Top = stack[n]
      /\ FrameFits(n) /\ Top.sync = Undefined /\ Top \in FrameRecord
  BY <1>n, ShapesOpen DEF HostAsyncStart, Frames, FrameFits, Top
<1>2. /\ Top.call = "await" => n - 1 \in DOMAIN stack /\ stack[n - 1].kind = "async"
                               /\ cps = Closure(stack[n - 1].closure)
      /\ Top.call # "await" => cps = Undefined
  <2>1. cps = IF Top.call = "await" THEN Closure(stack[n - 1].closure) ELSE Undefined
    BY <1>1, <1>n DEF CallbackOfCaller
  <2>2. Top.call = "await" => n - 1 \in DOMAIN stack /\ stack[n - 1].kind = "async"
    BY <1>1 DEF FrameFits
  <2> QED
    BY <2>1, <2>2
<1>3. /\ cps \in Value /\ (Top.call = "void") \in BOOLEAN
      /\ Top.call = "await" => cps.is = "closure"
      /\ Top.call # "await" => cps.is # "closure"
  BY <1>2, ValueForms DEF Shapes
<1>s. PICK s : s = AsyncStartUnsafe(cps, Top.call = "void")
  OBVIOUS
<1>4. /\ Top.call = "await" => s.sync = Deleted /\ s.callback = cps
      /\ Top.call = "void" => s.sync = Deleted /\ s.callback = NoOp
      /\ Top.call \notin {"await", "void"} =>
            \E p : p \notin DOMAIN promises /\ p \in DOMAIN promises' /\ s.callback = Promise(p)
      /\ s.sync \in Value /\ s.callback \in Value
      /\ promises' \in Seq(PromiseRecord)
      /\ DOMAIN promises \subseteq DOMAIN promises'
      /\ \A p \in DOMAIN promises : promises'[p] = promises[p]
      /\ \A p \in DOMAIN promises' \ DOMAIN promises :
            promises'[p] = [status |-> "pending", out |-> Undefined]
  <2>1. promises' = s.promises
    BY <1>s DEF HostAsyncStart
  <2>2. Len(promises) + 1 \notin DOMAIN promises
    BY ShapesOpen
  <2> HIDE DEF Value, PromiseRecord
  <2>3. /\ cps.is = "closure" => s.sync = Deleted /\ s.callback = cps
        /\ cps.is # "closure" /\ Top.call = "void" => s.sync = Deleted /\ s.callback = NoOp
        /\ cps.is # "closure" /\ Top.call # "void" =>
             s.callback = Promise(Len(promises) + 1) /\ Len(promises) + 1 \in DOMAIN s.promises
        /\ s.sync \in Value /\ s.callback \in Value
        /\ s.promises \in Seq(PromiseRecord)
        /\ DOMAIN promises \subseteq DOMAIN s.promises
        /\ \A p \in DOMAIN promises : s.promises[p] = promises[p]
        /\ \A p \in DOMAIN s.promises \ DOMAIN promises :
             s.promises[p] = [status |-> "pending", out |-> Undefined]
    BY <1>3, <1>s, AsyncStarts
  <2>4. Top.call \notin {"await", "void"} => cps.is # "closure" /\ Top.call # "void"
    BY <1>3
  <2>5. Top.call = "void" => Top.call # "await"
    OBVIOUS
  <2> QED
    BY <1>3, <2>1, <2>2, <2>3, <2>4, <2>5
<1>5. s.callback = NoOp <=> Top.call = "void"
  BY <1>2, <1>4, ValueForms
<1>k. PICK k : k = Len(closures) + 1
  OBVIOUS
<1>r. PICK r : r = [kind |-> "host", cont |-> Undefined, callback |-> s.callback]
  OBVIOUS
<1>6. /\ Top.call = "void" => closures' = closures
      /\ Top.call # "void" => closures' = Append(closures, r)
      /\ stack' = [Used(stack) EXCEPT ![n].sync = s.sync]
  BY <1>5, <1>s, <1>r, <1>n DEF HostAsyncStart
<1>7. r \in ClosureRecord /\ r.kind = "host" /\ r.cont = Undefined /\ r.callback = s.callback
  <2> HIDE DEF Value
  <2> QED
    BY <1>4, <1>r, ValueShapes DEF ClosureRecord
<1>8. k \in Nat \ {0} /\ DOMAIN closures = 1 .. k - 1 /\ closures \in Seq(ClosureRecord)
      /\ k \notin DOMAIN closures
  BY <1>k, ShapesOpen DEF Shapes
<1>9. /\ closures' \in Seq(ClosureRecord)
      /\ \A c \in DOMAIN closures : c \in DOMAIN closures' /\ closures'[c] = closures[c]
      /\ Top.call # "void" => k \in DOMAIN closures' /\ closures'[k] = r
      /\ DOMAIN closures' \ DOMAIN closures = IF Top.call = "void" THEN {} ELSE {k}
  <2> HIDE DEF ClosureRecord
  <2>1. CASE Top.call = "void"
    BY <2>1, <1>6, <1>8
  <2>2. CASE Top.call # "void"
    <3>1. /\ closures' \in Seq(ClosureRecord) /\ DOMAIN closures' = 1 .. k
          /\ \A c \in DOMAIN closures : closures'[c] = closures[c]
          /\ closures'[k] = r
      BY <2>2, <1>k, <1>6, <1>7, <1>8, AppendProperties, LenProperties
    <3>2. 1 .. k = (1 .. k - 1) \cup {k}
      BY <1>8
    <3> QED
      BY <2>2, <3>1, <3>2, <1>8
  <2> QED
    BY <2>1, <2>2
<1>10. ObjectsStay
  BY <1>4, <1>9 DEF ObjectsStay
<1>11. /\ stack' \in Seq(FrameRecord) /\ Len(stack') = n /\ DOMAIN stack' = 1 .. n
       /\ \A i \in 1 .. n - 1 : SameFrame(i) /\ stack'[i].operand = stack[i].operand
                                 /\ (stack'[i].kind = "host" => ~ stack'[i].fresh)
       /\ stack'[n].kind = "host" /\ stack'[n].closure = stack[n].closure
       /\ stack'[n].call = stack[n].call /\ stack'[n].operand = stack[n].operand
       /\ stack'[n].sync = s.sync /\ ~ stack'[n].fresh
  <2>1. PICK u : u = Used(stack)
    OBVIOUS
  <2>2. PICK g : g = [u[n] EXCEPT !.sync = s.sync]
    OBVIOUS
  <2>3. /\ u \in Seq(FrameRecord) /\ Len(u) = n
        /\ \A i \in DOMAIN stack :
                /\ u[i].kind = stack[i].kind /\ u[i].closure = stack[i].closure
                /\ u[i].sync = stack[i].sync /\ u[i].call = stack[i].call
                /\ u[i].operand = stack[i].operand
                /\ u[i].fresh => stack[i].fresh /\ (i = n => stack[i].kind # "host")
    BY <2>1, <1>n, UsedFrames
  <2>4. u[n] \in FrameRecord
    <3> HIDE DEF FrameRecord
    <3> QED
      BY <2>3, <1>1, ElementOfSeq
  <2>5. /\ g \in FrameRecord /\ g.kind = u[n].kind /\ g.closure = u[n].closure /\ g.sync = s.sync
        /\ g.call = u[n].call /\ g.operand = u[n].operand /\ g.fresh = u[n].fresh
    <3> HIDE DEF Value
    <3> QED
      BY <2>2, <2>4, <1>4 DEF FrameRecord
  <2>6. stack' = [u EXCEPT ![n] = g]
    BY <2>1, <2>2, <1>6
  <2>7. /\ stack' \in Seq(FrameRecord) /\ Len(stack') = n /\ DOMAIN stack' = 1 .. n
        /\ \A i \in 1 .. n : stack'[i] = IF i = n THEN g ELSE u[i]
    <3> HIDE DEF FrameRecord
    <3> QED
      BY <2>3, <2>5, <2>6, <1>1, ExceptSeq, LenProperties
  <2>8. \A i \in 1 .. n - 1 : i \in 1 .. n /\ i # n
    BY <1>1
  <2>9. \A i \in 1 .. n - 1 : stack[i].kind = "host" => ~ stack[i].fresh
    BY <2>8, <1>1, <1>n DEF Frames, FrameFits
  <2>10. \A i \in 1 .. n - 1 : SameFrame(i) /\ stack'[i].operand = stack[i].operand
                                 /\ (stack'[i].kind = "host" => ~ stack'[i].fresh)
    BY <2>3, <2>7, <2>8, <2>9, <1>1 DEF SameFrame
  <2> QED
    BY <2>3, <2>5, <2>7, <2>10, <1>1
<1>12. Shapes'
  BY <1>1, <1>4, <1>9, <1>11, ValueShapes DEF Shapes
<1>13. Frames'
  <2> SUFFICES ASSUME NEW i \in 1 .. n PROVE FrameFits(i)'
    BY <1>11 DEF Frames
  <2>1. FrameFits(i) /\ (i > 1 => i - 1 \in 1 .. n - 1)
    BY <1>1 DEF Frames
  <2>2. i > 1 => stack'[i - 1].kind = stack[i - 1].kind
    BY <2>1, <1>11 DEF SameFrame
  <2>3. CASE i = n
    <3>1. stack[n].call = "await" => s.sync = Deleted
      BY <1>1, <1>4
    <3> QED
      BY <2>1, <2>2, <2>3, <3>1, <1>1, <1>11 DEF FrameFits
  <2>4. CASE i # n
    <3>1. i \in 1 .. n - 1
      BY <2>4, <1>1
    <3> QED
      BY <2>1, <2>2, <3>1, <1>10, <1>11, <1>n, ReferencesStay DEF FrameFits, SameFrame
  <2> QED
    BY <2>3, <2>4
<1>14. RunsOnce'
  <2>1. \A c \in DOMAIN closures' : closures'[c].kind = "async" => c \in DOMAIN closures
    BY <1>7, <1>9
  <2>2. \A i \in 1 .. n : stack[i].kind = "async" \/ stack'[i].kind = "async" => i \in 1 .. n - 1
    BY <1>1, <1>11
  <2> QED
    BY <2>1, <2>2, <1>1, <1>9, <1>11, RunsOncePreserved
<1>15. Settled'
  <2>1. Top.call # "void" => \A p : r.callback = Promise(p) => p \notin DOMAIN promises
    BY <1>2, <1>4, <1>7, ValueForms, PromisesDiffer
  <2> QED
    BY <2>1, <1>4, <1>9, <1>10, SettledGrows
<1>16. References'
  <2>1. Top.call # "void" => SlotsFit(k)'
    <3>1. CASE Top.call = "await"
      <4>1. PICK t : t = stack[n - 1].closure
        OBVIOUS
      <4>2. IsAsync(t) /\ r.callback = Closure(t)
        BY <3>1, <4>1, <1>2, <1>4, <1>7 DEF Frames, FrameFits
      <4>3. IsAsync(t)' /\ t \in DOMAIN closures'
        BY <4>2, <1>10, ReferencesStay DEF IsAsync, ObjectsStay
      <4> QED
        BY <3>1, <4>2, <4>3, <1>7, <1>9 DEF SlotsFit
    <3>2. CASE Top.call \notin {"await", "void"}
      BY <3>2, <1>4, <1>7, <1>9 DEF SlotsFit, IsPromise
    <3> QED
      BY <3>1, <3>2
  <2> QED
    BY <2>1, <1>1, <1>4, <1>9, <1>10, NewReferences
<1>17. CallbackOfCaller'
  BY <1>11 DEF CallbackOfCaller, Top
<1>18. \A p \in DOMAIN promises' \ DOMAIN promises : Subscribers(promises'[p].out) = << >>
  BY <1>4, ValueForms DEF Subscribers
<1>19. \A i \in 1 .. n - 1 : i # n - 1 => (Waiting(i)' <=> Waiting(i))
  <2> SUFFICES ASSUME NEW i \in 1 .. n - 1, i # n - 1 PROVE Waiting(i)' <=> Waiting(i)
    OBVIOUS
  <2>1. i + 1 \in 1 .. n - 1 /\ i # n
    BY <1>1
  <2>2. SameFrame(i + 1) /\ i # Len(stack) /\ i # Len(stack')
    BY <2>1, <1>11, <1>n
  <2> QED
    BY <2>2 DEF Waiting, SameFrame
<1>20. \A i \in 1 .. n - 1 : i = n - 1 => ~ Waiting(i) /\ (Waiting(i)' <=> Top.call = "await")
  <2> SUFFICES ASSUME NEW i \in 1 .. n - 1, i = n - 1
               PROVE  ~ Waiting(i) /\ (Waiting(i)' <=> Top.call = "await")
    OBVIOUS
  <2>1. i # Len(stack) /\ i # Len(stack') /\ i + 1 = n
    BY <1>1, <1>11, <1>n
  <2>2. ~ Waiting(i)
    BY <2>1, <1>1, ValueForms DEF Waiting
  <2>3. Waiting(i)' <=> Top.call = "await" /\ s.sync = Deleted
    BY <2>1, <1>1, <1>11 DEF Waiting
  <2> QED
    BY <2>2, <2>3, <1>4
<1>21. \A i \in DOMAIN stack' : stack'[i].kind = "async" =>
          i \in 1 .. n - 1 /\ i \in DOMAIN stack /\ SameFrame(i)
  BY <1>1, <1>11
<1>22. Wakers'
  <2>1. CASE Top.call # "await"
    <3>1. \A a : WakersOf(a)' = WakersOf(a)
      <4>1. Top.call # "void" => r.callback.is # "closure"
        BY <2>1, <1>4, <1>7, ValueForms
      <4> QED
        BY <4>1, <1>1, <1>4, <1>9, <1>10, <1>18, WakersStay
    <3>2. \A i \in 1 .. n - 1 : Waiting(i)' <=> Waiting(i)
      BY <2>1, <1>19, <1>20
    <3>3. \A c \in DOMAIN closures' : closures'[c].kind = "async" => c \in DOMAIN closures
      BY <1>7, <1>9
    <3> QED
      BY <3>1, <3>2, <3>3, <1>9, <1>21, WakersPreserved
  <2>2. CASE Top.call = "await"
    <3>1. PICK t : t = stack[n - 1].closure
      OBVIOUS
    <3>2. n - 1 \in 1 .. n - 1 /\ n - 1 \in DOMAIN stack /\ stack[n - 1].kind = "async"
          /\ stack[n - 1].closure = t /\ t \in DOMAIN closures
      BY <2>2, <3>1, <1>1, <1>2 DEF Frames, FrameFits, IsAsync
    <3>3. WakersOf(t) = {} /\ closures[t].cont = Deleted
      <4>1. ~ Waiting(n - 1)
        BY <3>2, <1>20
      <4>2. OnStack(t) /\ closures[t].kind = "async"
        BY <3>2 DEF OnStack, Frames, FrameFits, IsAsync
      <4> QED
        BY <3>2, <4>1, <4>2 DEF Wakers, RunsOnce
    <3>4. r.callback = Closure(t) /\ r.cont # NoOp /\ DOMAIN closures' \ DOMAIN closures = {k}
      BY <2>2, <3>1, <1>2, <1>4, <1>7, <1>9, ValueForms
    <3>5. \A a : WakersOf(a)' = WakersOf(a) \cup (IF a = t THEN {<<"callback", k>>} ELSE {})
      <4> SUFFICES ASSUME NEW a
                   PROVE  WakersOf(a)' = WakersOf(a) \cup (IF a = t THEN {<<"callback", k>>} ELSE {})
        OBVIOUS
      <4>1. r.callback = Closure(a) <=> a = t
        BY <3>4, ClosuresDiffer
      <4>2. {<<"callback", d>> : d \in {e \in DOMAIN closures' \ DOMAIN closures :
                                          closures'[e].callback = Closure(a) /\ closures'[e].cont # NoOp}}
              = IF a = t THEN {<<"callback", k>>} ELSE {}
        BY <2>2, <3>4, <4>1, <1>9
      <4>3. WakersOf(a)' = WakersOf(a) \cup
               {<<"callback", d>> : d \in {e \in DOMAIN closures' \ DOMAIN closures :
                                          closures'[e].callback = Closure(a) /\ closures'[e].cont # NoOp}}
        BY <1>1, <1>4, <1>9, <1>10, <1>18, WakersGrow DEF ObjectsStay
      <4> QED
        BY <4>2, <4>3
    <3>6. ASSUME NEW c \in DOMAIN closures', closures'[c].kind = "async"
          PROVE  /\ \A x, y \in WakersOf(c)' : x = y
                 /\ closures'[c].cont = Resume => WakersOf(c)' # {}
                 /\ closures'[c].cont = NoOp => WakersOf(c)' = {}
      <4>1. c \in DOMAIN closures /\ closures'[c] = closures[c]
        BY <2>2, <3>6, <1>7, <1>9
      <4>2. CASE c = t
        <5>1. WakersOf(t)' = {<<"callback", k>>}
          BY <3>3, <3>5
        <5> QED
          BY <4>1, <4>2, <5>1, <3>3, ValueForms
      <4>3. CASE c # t
        <5>1. WakersOf(c)' = WakersOf(c)
          BY <4>3, <3>5
        <5> QED
          BY <4>1, <5>1, <3>6 DEF Wakers
      <4> QED
        BY <4>2, <4>3
    <3>7. ASSUME NEW i \in DOMAIN stack', stack'[i].kind = "async", NEW a, a = stack'[i].closure
          PROVE  WakersOf(a)' # {} <=> Waiting(i)'
      <4>1. i \in 1 .. n - 1 /\ i \in DOMAIN stack /\ stack[i].kind = "async" /\ stack[i].closure = a
        BY <3>7, <1>21 DEF SameFrame
      <4>2. CASE i = n - 1
        <5>1. <<"callback", k>> \in WakersOf(a)'
          BY <4>1, <4>2, <3>2, <3>5
        <5> QED
          BY <4>1, <4>2, <5>1, <2>2, <1>20
      <4>3. CASE i # n - 1
        <5>1. a # t
          BY <4>1, <4>3, <3>2 DEF RunsOnce
        <5>2. WakersOf(a)' = WakersOf(a)
          BY <5>1, <3>5
        <5>3. WakersOf(a) # {} <=> Waiting(i)
          BY <4>1 DEF Wakers
        <5> QED
          BY <4>1, <4>3, <5>2, <5>3, <1>19
      <4> QED
        BY <4>2, <4>3
    <3> QED
      BY <3>6, <3>7 DEF Wakers
  <2> QED
    BY <2>1, <2>2
<1> QED
  BY <1>12, <1>13, <1>14, <1>15, <1>16, <1>17, <1>22

-----------------------------------------------------------------------------
(* The job loop and completion: wake-ups move.                             *)

LEMMA WakerFormsNext ==
    ASSUME NEW a, NEW x
    PROVE  x \in WakersOf(a)' <=>
              \/ \E i \in DOMAIN queue' : x = <<"job", i>> /\ queue'[i].continuation = a
              \/ \E p \in DOMAIN promises' : \E i \in DOMAIN Subscribers(promises'[p].out) :
                    x = <<"promise", p, i>> /\ Subscribers(promises'[p].out)[i] = a
              \/ \E d \in DOMAIN closures' :
                    x = <<"callback", d>> /\ closures'[d].callback = Closure(a) /\ closures'[d].cont # NoOp
BY DEF WakersOf

(* The form of a wake-up tells where it is.                                *)
LEMMA WakersDiffer ==
    /\ \A i, j : <<"job", i>> = <<"job", j>> => i = j
    /\ \A i, p, j : <<"job", i>> # <<"promise", p, j>>
    /\ \A i, d : <<"job", i>> # <<"callback", d>>
    /\ \A p, j, d : <<"promise", p, j>> # <<"callback", d>>
    /\ \A d, e : <<"callback", d>> = <<"callback", e>> => d = e
    /\ \A p, q, i, j : <<"promise", p, i>> = <<"promise", q, j>> => p = q /\ i = j
OBVIOUS

LEMMA RunJobPreserves ==
    ASSUME IInv, RunJob
    PROVE  IInv'
<1> USE DEF IInv
<1>c. PICK c : c = Head(queue).continuation
  OBVIOUS
<1>f. PICK f : f = Frame("async", c, Undefined, "job")
  OBVIOUS
<1>q. PICK q : q = Len(queue)
  OBVIOUS
<1>1. /\ Idle /\ queue # << >> /\ closures[c].cont = Resume
      /\ closures' = [closures EXCEPT ![c].cont = Deleted]
      /\ stack' = <<f>> /\ queue' = Tail(queue) /\ cps' = Undefined
      /\ UNCHANGED <<promises, outcome>>
  BY <1>c, <1>f DEF RunJob
<1>2. /\ q \in Nat \ {0} /\ DOMAIN queue = 1 .. q /\ c = queue[1].continuation
      /\ queue' \in Seq(JobRecord) /\ DOMAIN queue' = 1 .. q - 1
      /\ \A i \in 1 .. q - 1 : queue'[i] = queue[i + 1]
  <2> HIDE DEF JobRecord
  <2>1. queue \in Seq(JobRecord) /\ DOMAIN queue = 1 .. q /\ q \in Nat
    BY <1>q, ShapesOpen DEF Shapes
  <2>2. q # 0
    BY <1>1, <1>q, <2>1, EmptySeq
  <2>3. /\ queue' \in Seq(JobRecord) /\ Len(queue') = q - 1
        /\ \A i \in 1 .. Len(queue') : queue'[i] = queue[i + 1]
    BY <1>1, <1>q, <2>1, HeadTailProperties
  <2> QED
    BY <1>c, <2>1, <2>2, <2>3, LenProperties
<1>3. IsAsync(c) /\ c \in Nat
  <2>1. 1 \in DOMAIN queue
    BY <1>2
  <2>2. IsAsync(c)
    BY <1>2, <2>1 DEF References
  <2> QED
    BY <2>2, ShapesOpen DEF IsAsync
<1>4. /\ closures' \in Seq(ClosureRecord) /\ DOMAIN closures' = DOMAIN closures
      /\ \A d \in DOMAIN closures : d # c => closures'[d] = closures[d]
      /\ closures'[c].kind = "async" /\ closures'[c].cont = Deleted
      /\ closures'[c].callback = closures[c].callback
  <2>1. PICK r : r = [closures[c] EXCEPT !.cont = Deleted]
    OBVIOUS
  <2>2. /\ closures[c] \in ClosureRecord /\ closures[c].kind = "async"
        /\ closures \in Seq(ClosureRecord) /\ c \in 1 .. Len(closures) /\ DOMAIN closures = 1 .. Len(closures)
    BY <1>3, ShapesOpen DEF IsAsync, Shapes
  <2>3. r \in ClosureRecord /\ r.kind = "async" /\ r.cont = Deleted /\ r.callback = closures[c].callback
    <3>1. Deleted \in Value
      BY ValueShapes
    <3> HIDE DEF Value
    <3> QED
      BY <2>1, <2>2, <3>1 DEF ClosureRecord
  <2>4. closures' = [closures EXCEPT ![c] = r]
    BY <1>1, <2>1
  <2> HIDE DEF ClosureRecord
  <2>5. /\ closures' \in Seq(ClosureRecord) /\ Len(closures') = Len(closures)
        /\ \A d \in 1 .. Len(closures) : closures'[d] = IF d = c THEN r ELSE closures[d]
    BY <2>2, <2>3, <2>4, ExceptSeq
  <2> QED
    BY <2>2, <2>3, <2>5, LenProperties
<1>5. ObjectsStay
  BY <1>1, <1>3, <1>4 DEF ObjectsStay, IsAsync
<1>6. /\ f.kind = "async" /\ f.closure = c /\ f.call = "job" /\ f.operand = Nothing /\ f.fresh = FALSE
      /\ f \in FrameRecord
  <2>1. Undefined \in Value /\ Nothing \in Value
    BY ValueShapes
  <2> HIDE DEF Value
  <2> QED
    BY <2>1, <1>3, <1>f DEF Frame, FrameRecord
<1>7. stack' \in Seq(FrameRecord) /\ Len(stack') = 1 /\ DOMAIN stack' = {1} /\ stack'[1] = f
  <2> HIDE DEF FrameRecord
  <2> QED
    BY <1>1, <1>6
<1>8. DOMAIN stack = {} /\ \A a : ~ OnStack(a)
  BY <1>1 DEF Idle, OnStack
<1>9. Shapes'
  BY <1>1, <1>2, <1>4, <1>7, ValueShapes DEF Shapes
<1>10. \A d \in DOMAIN closures : closures'[d].cont = NoOp <=> closures[d].cont = NoOp
  BY <1>1, <1>4, ValueForms
<1>11. References'
  <2>1. \A d \in DOMAIN closures' : SlotsFit(d)'
    <3> SUFFICES ASSUME NEW d \in DOMAIN closures PROVE SlotsFit(d)'
      BY <1>4
    <3>1. SlotsFit(d) /\ closures'[d].kind = closures[d].kind /\ closures'[d].callback = closures[d].callback
          /\ (d # c => closures'[d].cont = closures[d].cont)
      BY <1>4, <1>5 DEF References, ObjectsStay
    <3> QED
      BY <3>1, <1>4, <1>5, ReferencesStay DEF SlotsFit
  <2>2. \A p \in DOMAIN promises' : OutFits(p)'
    BY <1>1, <1>5, ReferencesStay DEF References, OutFits
  <2>3. (\A i \in DOMAIN queue : IsAsync(queue[i].continuation))'
    <3>1. \A i \in 1 .. q - 1 : i + 1 \in 1 .. q
      BY <1>2
    <3> QED
      BY <3>1, <1>2, <1>5, ReferencesStay DEF References
  <2> QED
    BY <2>1, <2>2, <2>3 DEF References
<1>12. Frames'
  BY <1>3, <1>5, <1>6, <1>7, ReferencesStay DEF Frames, FrameFits
<1>13. RunsOnce'
  <2>1. \A d : OnStack(d)' <=> d = c
    BY <1>6, <1>7 DEF OnStack
  <2>2. \A d \in DOMAIN closures : closures[d].kind = "async" => closures[d].cont # Deleted
    BY <1>8 DEF RunsOnce
  <2>3. \A d \in DOMAIN closures' : closures'[d].kind = "async" => (closures'[d].cont = Deleted <=> d = c)
    BY <2>2, <1>4
  <2> QED
    BY <2>1, <2>3, <1>7 DEF RunsOnce
<1>14. Settled'
  BY <1>1, <1>4, <1>5, <1>10, SettledStays
<1>15. CallbackOfCaller'
  BY <1>6, <1>7 DEF CallbackOfCaller, Top
<1>16. ASSUME NEW a, NEW y \in WakersOf(a)'
       PROVE  \E x \in WakersOf(a) : /\ x # <<"job", 1>>
                                     /\ \/ x = y /\ \A i : y # <<"job", i>>
                                        \/ \E i \in 1 .. q - 1 : y = <<"job", i>> /\ x = <<"job", i + 1>>
  <2>1. CASE \E i \in DOMAIN queue' : y = <<"job", i>> /\ queue'[i].continuation = a
    <3>1. PICK i \in 1 .. q - 1 : y = <<"job", i>> /\ queue'[i].continuation = a
      BY <2>1, <1>2
    <3>2. i + 1 \in 1 .. q /\ i + 1 # 1 /\ queue[i + 1].continuation = a
      BY <3>1, <1>2
    <3>3. <<"job", i + 1>> \in WakersOf(a) /\ <<"job", i + 1>> # <<"job", 1>>
      BY <3>2, <1>2, WakerForms, WakersDiffer
    <3> QED
      BY <3>1, <3>3
  <2>2. CASE \E p \in DOMAIN promises' : \E i \in DOMAIN Subscribers(promises'[p].out) :
                y = <<"promise", p, i>> /\ Subscribers(promises'[p].out)[i] = a
    BY <2>2, <1>1, WakerForms, WakersDiffer
  <2>3. CASE \E d \in DOMAIN closures' :
                y = <<"callback", d>> /\ closures'[d].callback = Closure(a) /\ closures'[d].cont # NoOp
    BY <2>3, <1>4, <1>5, <1>10, WakerForms, WakersDiffer DEF ObjectsStay
  <2> QED
    BY <1>16, <2>1, <2>2, <2>3, WakerFormsNext
<1>17. <<"job", 1>> \in WakersOf(c)
  BY <1>2, WakerForms
<1>18. WakersOf(c)' = {}
  <2>1. \A x \in WakersOf(c) : x = <<"job", 1>>
    BY <1>3, <1>17 DEF Wakers, IsAsync
  <2> QED
    BY <2>1, <1>16
<1>19. ASSUME NEW a, a # c, WakersOf(a) # {} PROVE WakersOf(a)' # {}
  <2>1. PICK x : x \in WakersOf(a)
    BY <1>19
  <2>2. CASE \E i \in DOMAIN queue : x = <<"job", i>> /\ queue[i].continuation = a
    <3>1. PICK i \in 1 .. q : queue[i].continuation = a
      BY <2>2, <1>2
    <3>2. i # 1
      BY <3>1, <1>2, <1>19
    <3>3. i - 1 \in 1 .. q - 1 /\ i - 1 + 1 = i
      BY <3>2, <1>2
    <3>4. queue'[i - 1] = queue[i] /\ i - 1 \in DOMAIN queue'
      BY <3>3, <1>2
    <3>5. <<"job", i - 1>> \in WakersOf(a)'
      BY <3>1, <3>4, WakerFormsNext
    <3> QED
      BY <3>5
  <2>3. CASE \E p \in DOMAIN promises : \E i \in DOMAIN Subscribers(promises[p].out) :
                x = <<"promise", p, i>> /\ Subscribers(promises[p].out)[i] = a
    BY <2>3, <1>1, WakerFormsNext
  <2>4. CASE \E d \in DOMAIN closures :
                x = <<"callback", d>> /\ closures[d].callback = Closure(a) /\ closures[d].cont # NoOp
    BY <2>4, <1>4, <1>5, <1>10, WakerFormsNext DEF ObjectsStay
  <2> QED
    BY <2>1, <2>2, <2>3, <2>4, WakerForms
<1>20. ASSUME NEW d \in DOMAIN closures', closures'[d].kind = "async"
       PROVE  /\ \A x, y \in WakersOf(d)' : x = y
              /\ closures'[d].cont = Resume => WakersOf(d)' # {}
              /\ closures'[d].cont = NoOp => WakersOf(d)' = {}
  <2>1. CASE d = c
    BY <2>1, <1>4, <1>18, ValueForms
  <2>2. CASE d # c
    <3>1. d \in DOMAIN closures /\ closures'[d] = closures[d]
      BY <2>2, <1>4
    <3>2. \A x, y \in WakersOf(d) : x = y
      BY <3>1, <1>20 DEF Wakers
    <3>3. ASSUME NEW x \in WakersOf(d)', NEW y \in WakersOf(d)' PROVE x = y
      <4>1. PICK v \in WakersOf(d) :
                \/ v = x /\ \A i : x # <<"job", i>>
                \/ \E i \in 1 .. q - 1 : x = <<"job", i>> /\ v = <<"job", i + 1>>
        BY <1>16
      <4>2. PICK w \in WakersOf(d) :
                \/ w = y /\ \A i : y # <<"job", i>>
                \/ \E i \in 1 .. q - 1 : y = <<"job", i>> /\ w = <<"job", i + 1>>
        BY <1>16
      <4>3. v = w
        BY <3>2
      <4>4. CASE \E i \in 1 .. q - 1 : x = <<"job", i>> /\ v = <<"job", i + 1>>
        <5>1. PICK i \in 1 .. q - 1 : x = <<"job", i>> /\ v = <<"job", i + 1>>
          BY <4>4
        <5>2. PICK j \in 1 .. q - 1 : y = <<"job", j>> /\ w = <<"job", j + 1>>
          BY <4>2, <4>3, <5>1
        <5>3. i + 1 = j + 1
          BY <4>3, <5>1, <5>2, WakersDiffer
        <5>4. i = j
          BY <5>3, <1>2
        <5> QED
          BY <5>1, <5>2, <5>4
      <4>5. CASE v = x /\ \A i : x # <<"job", i>>
        BY <4>2, <4>3, <4>5
      <4> QED
        BY <4>1, <4>4, <4>5
    <3>4. closures[d].cont = Resume => WakersOf(d)' # {}
      BY <3>1, <2>2, <1>19, <1>20 DEF Wakers
    <3>5. closures[d].cont = NoOp => WakersOf(d)' = {}
      BY <3>1, <1>16, <1>20 DEF Wakers
    <3> QED
      BY <3>1, <3>3, <3>4, <3>5
  <2> QED
    BY <2>1, <2>2
<1>21. Wakers'
  <2>1. ASSUME NEW i \in DOMAIN stack', NEW a, a = stack'[i].closure
        PROVE  WakersOf(a)' # {} <=> Waiting(i)'
    BY <2>1, <1>6, <1>7, <1>18, ValueForms DEF Waiting
  <2> QED
    BY <2>1, <1>20 DEF Wakers
<1> QED
  BY <1>9, <1>11, <1>12, <1>13, <1>14, <1>15, <1>21

(* An async function that awaits or completes leaves the stack.            *)
LEMMA AsyncReturns ==
    ASSUME IInv, ~ Idle, Top.kind = "async", ReturnValue(Top.sync), ObjectsStay,
           NEW t, t = Top.closure,
           DOMAIN closures' = DOMAIN closures,
           closures'[t].cont \in {Resume, NoOp},
           \A d \in DOMAIN closures : d # t => closures'[d] = closures[d]
    PROVE  /\ t \in DOMAIN closures /\ t \in Nat /\ closures[t].kind = "async" /\ closures[t].cont = Deleted
           /\ WakersOf(t) # {} <=> Top.operand = Deleted
           /\ stack' \in Seq(FrameRecord) /\ cps' \in Value
           /\ Frames' /\ CallbackOfCaller' /\ RunsOnce'
           /\ \A i \in DOMAIN stack' : stack'[i].kind = "async" =>
                /\ i \in DOMAIN stack /\ SameFrame(i) /\ (Waiting(i)' <=> Waiting(i))
                /\ stack[i].closure # t
<1> USE DEF IInv
<1>n. PICK n : n = Len(stack)
  OBVIOUS
<1>1. n \in DOMAIN stack /\ Top = stack[n] /\ Top \in FrameRecord /\ FrameFits(n)
      /\ DOMAIN stack = 1 .. n /\ n \in Nat
  BY <1>n, ShapesOpen DEF Top, Frames
<1>2. t \in DOMAIN closures /\ t \in Nat /\ closures[t].kind = "async" /\ closures[t].cont = Deleted
  <2>1. IsAsync(t) /\ OnStack(t)
    BY <1>1 DEF FrameFits, OnStack
  <2> QED
    BY <2>1, ShapesOpen DEF IsAsync, RunsOnce
<1>3. WakersOf(t) # {} <=> Top.operand = Deleted
  <2>1. Waiting(n) <=> Top.operand = Deleted
    BY <1>1, <1>n DEF Waiting
  <2> QED
    BY <2>1, <1>1 DEF Wakers
<1>4. /\ stack' \in Seq(FrameRecord) /\ Len(stack') = n - 1
      /\ \A i \in 1 .. n - 1 : SameFrame(i) /\ (Waiting(i)' <=> Waiting(i))
      /\ Frames' /\ CallbackOfCaller'
  <2>1. Top.sync \in Value /\ (Top.call = "await" => Top.sync = Deleted)
    BY <1>1 DEF FrameFits, FrameRecord
  <2> HIDE DEF FrameRecord, Value
  <2> QED
    BY <1>n, <2>1, ReturnFrames
<1>5. DOMAIN stack' = 1 .. n - 1 /\ \A i \in 1 .. n - 1 : i \in DOMAIN stack /\ i # n
  <2> HIDE DEF FrameRecord
  <2>1. DOMAIN stack' = 1 .. n - 1
    BY <1>4, LenProperties
  <2> QED
    BY <2>1, <1>1
<1>6. cps' \in Value
  <2>1. cps' = Deleted \/ cps' = Top.saved
    BY DEF ReturnValue
  <2> QED
    BY <2>1, <1>1, ValueShapes DEF FrameRecord
<1>7. \A i \in 1 .. n - 1 : stack'[i].kind = "async" =>
          SameFrame(i) /\ stack[i].closure # t
  BY <1>1, <1>4, <1>5 DEF RunsOnce, SameFrame
<1>8. RunsOnce'
  <2>1. \A c : OnStack(c)' <=> OnStack(c) /\ c # t
    <3>1. ASSUME NEW c, OnStack(c)' PROVE OnStack(c) /\ c # t
      BY <3>1, <1>5, <1>7 DEF OnStack, SameFrame
    <3>2. ASSUME NEW c, OnStack(c), c # t PROVE OnStack(c)'
      <4>1. PICK i \in DOMAIN stack : stack[i].kind = "async" /\ stack[i].closure = c
        BY <3>2 DEF OnStack
      <4>2. i \in 1 .. n - 1
        BY <3>2, <4>1, <1>1
      <4> QED
        BY <4>1, <4>2, <1>4, <1>5 DEF OnStack, SameFrame
    <3> QED
      BY <3>1, <3>2
  <2>2. ASSUME NEW c \in DOMAIN closures', closures'[c].kind = "async"
        PROVE  closures'[c].cont = Deleted <=> OnStack(c)'
    <3>1. CASE c = t
      BY <3>1, <2>1, ValueForms
    <3>2. CASE c # t
      BY <3>2, <2>1, <2>2 DEF RunsOnce
    <3> QED
      BY <3>1, <3>2
  <2>3. \A i, j \in DOMAIN stack' :
          stack'[i].kind = "async" /\ stack'[j].kind = "async" /\ stack'[i].closure = stack'[j].closure => i = j
    BY <1>5, <1>7 DEF RunsOnce, SameFrame
  <2> QED
    BY <2>2, <2>3 DEF RunsOnce
<1> QED
  BY <1>2, <1>3, <1>4, <1>5, <1>6, <1>7, <1>8

(* mvm_subscribeToPromise adds one wake-up of the function that awaits.    *)
LEMMA SubscribeAdds ==
    ASSUME Shapes, References, ObjectsStay,
           NEW t, IsAsync(t), t \in Nat, NEW p \in DOMAIN promises,
           SubscribeToPromise(p, t),
           DOMAIN closures' = DOMAIN closures,
           \A d \in DOMAIN closures : closures'[d].cont = NoOp <=> closures[d].cont = NoOp
    PROVE  /\ promises' \in Seq(PromiseRecord) /\ queue' \in Seq(JobRecord)
           /\ DOMAIN promises' = DOMAIN promises
           /\ \A r \in DOMAIN promises : promises'[r].status = promises[r].status /\ OutFits(r)'
           /\ (\A i \in DOMAIN queue : IsAsync(queue[i].continuation))'
           /\ \E w : \A a : WakersOf(a)' = WakersOf(a) \cup (IF a = t THEN {w} ELSE {})
<1>1. /\ promises[p] \in PromiseRecord /\ OutFits(p) /\ promises \in Seq(PromiseRecord)
      /\ queue \in Seq(JobRecord) /\ p \in 1 .. Len(promises) /\ DOMAIN promises = 1 .. Len(promises)
  BY ShapesOpen DEF References, Shapes
<1>2. CASE promises[p].status = "pending"
  <2>1. UNCHANGED queue /\ promises' = [promises EXCEPT ![p].out = Subscribed(promises[p].out, t)]
    BY <1>2 DEF SubscribeToPromise
  <2>2. PICK out : out = promises[p].out
    OBVIOUS
  <2>3. PICK subs : subs = Subscribers(out)
    OBVIOUS
  <2>4. PICK new : new = Subscribed(out, t)
    OBVIOUS
  <2>5. out \in Value /\ subs \in Seq(Nat) /\ out.of \in Seq(Nat)
    BY <1>1, <2>2, <2>3, SubscribersShape DEF PromiseRecord, Value
  <2>6. new \in Value /\ new.is \in {"closure", "array"} /\ Subscribers(new) = Append(subs, t)
    <3>1. CASE out = Undefined
      <4>1. subs = << >> /\ new = Closure(t) /\ new.of = <<t>>
        BY <3>1, <2>3, <2>4, ValueForms DEF Subscribers, Subscribed
      <4>2. Append(subs, t) = <<t>>
        BY <4>1
      <4> QED
        BY <4>1, <4>2, ValueForms, ValueShapes DEF Subscribers
    <3>2. CASE out # Undefined
      <4>1. out.is \in {"closure", "array"}
        BY <3>2, <1>1, <1>2, <2>2 DEF OutFits
      <4>2. out.is # "undefined"
        BY <4>1
      <4>3. new = Array(Append(out.of, t)) /\ subs = out.of
        BY <4>1, <4>2, <2>3, <2>4 DEF Subscribed, Subscribers
      <4>4. Append(out.of, t) \in Seq(Nat)
        BY <2>5, AppendProperties
      <4> QED
        BY <4>3, <4>4, ValueForms, ValueShapes DEF Subscribers
    <3> QED
      BY <3>1, <3>2
  <2>7. PICK r : r = [promises[p] EXCEPT !.out = new]
    OBVIOUS
  <2>8. r \in PromiseRecord /\ r.status = "pending" /\ r.out = new
    <3> HIDE DEF Value
    <3> QED
      BY <1>1, <1>2, <2>6, <2>7 DEF PromiseRecord
  <2>9. promises' = [promises EXCEPT ![p] = r]
    BY <2>1, <2>2, <2>4, <2>7
  <2>10. /\ promises' \in Seq(PromiseRecord) /\ DOMAIN promises' = DOMAIN promises
         /\ promises'[p] = r /\ \A q \in DOMAIN promises : q # p => promises'[q] = promises[q]
    <3> HIDE DEF PromiseRecord
    <3> QED
      BY <1>1, <2>8, <2>9, ExceptSeq, LenProperties
  <2>11. /\ Len(subs) \in Nat /\ DOMAIN subs = 1 .. Len(subs)
         /\ DOMAIN Subscribers(new) = (DOMAIN subs) \cup {Len(subs) + 1}
         /\ \A i \in DOMAIN subs : Subscribers(new)[i] = subs[i]
         /\ Subscribers(new)[Len(subs) + 1] = t
    <3>1. /\ Len(subs) \in Nat /\ DOMAIN subs = 1 .. Len(subs)
          /\ DOMAIN Append(subs, t) = 1 .. Len(subs) + 1
          /\ \A i \in 1 .. Len(subs) : Append(subs, t)[i] = subs[i]
          /\ Append(subs, t)[Len(subs) + 1] = t
      BY <2>5, AppendProperties, LenProperties
    <3>2. 1 .. Len(subs) + 1 = (1 .. Len(subs)) \cup {Len(subs) + 1}
      BY <3>1
    <3> QED
      BY <2>6, <3>1, <3>2
  <2>12. \A q \in DOMAIN promises : promises'[q].status = promises[q].status /\ OutFits(q)'
    <3> SUFFICES ASSUME NEW q \in DOMAIN promises
                 PROVE  promises'[q].status = promises[q].status /\ OutFits(q)'
      OBVIOUS
    <3>1. CASE q = p
      <4>1. \A i \in DOMAIN subs : IsAsync(subs[i])
        BY <1>1, <2>2, <2>3 DEF OutFits
      <4>2. \A i \in DOMAIN Subscribers(new) : Subscribers(new)[i] = t \/ \E j \in DOMAIN subs : Subscribers(new)[i] = subs[j]
        BY <2>11
      <4>3. \A i \in DOMAIN Subscribers(new) : IsAsync(Subscribers(new)[i])
        BY <4>1, <4>2
      <4>4. \A i \in DOMAIN Subscribers(new) : IsAsync(Subscribers(new)[i])'
        BY <4>3, ReferencesStay
      <4> QED
        BY <3>1, <4>4, <1>2, <2>6, <2>8, <2>10 DEF OutFits
    <3>2. CASE q # p
      BY <3>2, <2>10, ReferencesStay DEF References, OutFits
    <3> QED
      BY <3>1, <3>2
  <2>13. (\A i \in DOMAIN queue : IsAsync(queue[i].continuation))'
    BY <2>1, ReferencesStay DEF References
  <2>14. ASSUME NEW a
         PROVE  WakersOf(a)' = WakersOf(a) \cup (IF a = t THEN {<<"promise", p, Len(subs) + 1>>} ELSE {})
    <3>1. ASSUME NEW x \in WakersOf(a)
          PROVE  x \in WakersOf(a)'
      <4>1. CASE \E i \in DOMAIN queue : x = <<"job", i>> /\ queue[i].continuation = a
        BY <4>1, <2>1, WakerFormsNext
      <4>2. CASE \E q \in DOMAIN promises : \E i \in DOMAIN Subscribers(promises[q].out) :
                    x = <<"promise", q, i>> /\ Subscribers(promises[q].out)[i] = a
        <5>1. PICK q \in DOMAIN promises : \E i \in DOMAIN Subscribers(promises[q].out) :
                    x = <<"promise", q, i>> /\ Subscribers(promises[q].out)[i] = a
          BY <4>2
        <5>2. PICK i \in DOMAIN Subscribers(promises[q].out) :
                    x = <<"promise", q, i>> /\ Subscribers(promises[q].out)[i] = a
          BY <5>1
        <5>3. i \in DOMAIN Subscribers(promises'[q].out) /\ Subscribers(promises'[q].out)[i] = a
          BY <5>2, <2>2, <2>3, <2>8, <2>10, <2>11
        <5> QED
          BY <5>2, <5>3, <2>10, WakerFormsNext
      <4>3. CASE \E d \in DOMAIN closures :
                    x = <<"callback", d>> /\ closures[d].callback = Closure(a) /\ closures[d].cont # NoOp
        BY <4>3, WakerFormsNext DEF ObjectsStay
      <4> QED
        BY <3>1, <4>1, <4>2, <4>3, WakerForms
    <3>2. a = t => <<"promise", p, Len(subs) + 1>> \in WakersOf(a)'
      BY <2>8, <2>10, <2>11, WakerFormsNext
    <3>3. ASSUME NEW x \in WakersOf(a)'
          PROVE  x \in WakersOf(a) \/ (a = t /\ x = <<"promise", p, Len(subs) + 1>>)
      <4>1. CASE \E i \in DOMAIN queue' : x = <<"job", i>> /\ queue'[i].continuation = a
        BY <4>1, <2>1, WakerForms
      <4>2. CASE \E q \in DOMAIN promises' : \E i \in DOMAIN Subscribers(promises'[q].out) :
                    x = <<"promise", q, i>> /\ Subscribers(promises'[q].out)[i] = a
        <5>1. PICK q \in DOMAIN promises' : \E i \in DOMAIN Subscribers(promises'[q].out) :
                    x = <<"promise", q, i>> /\ Subscribers(promises'[q].out)[i] = a
          BY <4>2
        <5>2. PICK i \in DOMAIN Subscribers(promises'[q].out) :
                    x = <<"promise", q, i>> /\ Subscribers(promises'[q].out)[i] = a
          BY <5>1
        <5>3. CASE q = p /\ i = Len(subs) + 1
          BY <5>2, <5>3, <2>8, <2>10, <2>11
        <5>4. CASE q = p /\ i # Len(subs) + 1
          <6>1. i \in DOMAIN Subscribers(promises[p].out) /\ Subscribers(promises[p].out)[i] = a
            BY <5>2, <5>4, <2>2, <2>3, <2>8, <2>10, <2>11
          <6> QED
            BY <5>2, <5>4, <6>1, WakerForms
        <5>5. CASE q # p
          BY <5>2, <5>5, <2>10, WakerForms
        <5> QED
          BY <5>3, <5>4, <5>5
      <4>3. CASE \E d \in DOMAIN closures' :
                    x = <<"callback", d>> /\ closures'[d].callback = Closure(a) /\ closures'[d].cont # NoOp
        BY <4>3, WakerForms DEF ObjectsStay
      <4> QED
        BY <3>3, <4>1, <4>2, <4>3, WakerFormsNext
    <3> QED
      BY <3>1, <3>2, <3>3
  <2> QED
    BY <2>1, <2>10, <2>12, <2>13, <2>14, <1>1
<1>3. CASE promises[p].status # "pending"
  <2>1. PICK r : r = [continuation |-> t, how |-> promises[p].status, result |-> promises[p].out]
    OBVIOUS
  <2>2. UNCHANGED promises /\ queue' = Append(queue, r)
    BY <1>3, <2>1 DEF SubscribeToPromise
  <2>3. r \in JobRecord /\ r.continuation = t
    <3> HIDE DEF Value
    <3> QED
      BY <1>1, <1>3, <2>1 DEF JobRecord, PromiseRecord
  <2>4. PICK q : q = Len(queue)
    OBVIOUS
  <2>5. /\ queue' \in Seq(JobRecord) /\ DOMAIN queue' = 1 .. q + 1 /\ DOMAIN queue = 1 .. q
        /\ queue'[q + 1] = r /\ \A i \in 1 .. q : queue'[i] = queue[i]
        /\ q \in Nat
    <3> HIDE DEF JobRecord
    <3> QED
      BY <1>1, <2>2, <2>3, <2>4, AppendProperties, LenProperties
  <2>6. \A i \in 1 .. q + 1 : i \in 1 .. q \/ i = q + 1
    BY <2>5
  <2>7. \A i \in 1 .. q : i \in 1 .. q + 1
    BY <2>5
  <2>8. q + 1 \in 1 .. q + 1
    BY <2>5
  <2>9. (\A i \in DOMAIN queue : IsAsync(queue[i].continuation))'
    <3> SUFFICES ASSUME NEW i \in 1 .. q + 1, NEW c, c = queue'[i].continuation PROVE IsAsync(c)'
      BY <2>5
    <3>1. IsAsync(c)
      BY <2>3, <2>5, <2>6 DEF References
    <3> QED
      BY <3>1, ReferencesStay
  <2>10. \A s \in DOMAIN promises : promises'[s].status = promises[s].status /\ OutFits(s)'
    BY <2>2, ReferencesStay DEF References, OutFits
  <2>11. ASSUME NEW a
         PROVE  WakersOf(a)' = WakersOf(a) \cup (IF a = t THEN {<<"job", q + 1>>} ELSE {})
    <3>1. ASSUME NEW x \in WakersOf(a) PROVE x \in WakersOf(a)'
      <4>1. CASE \E i \in DOMAIN queue : x = <<"job", i>> /\ queue[i].continuation = a
        BY <4>1, <2>5, <2>7, WakerFormsNext
      <4>2. CASE \E s \in DOMAIN promises : \E i \in DOMAIN Subscribers(promises[s].out) :
                    x = <<"promise", s, i>> /\ Subscribers(promises[s].out)[i] = a
        BY <4>2, <2>2, WakerFormsNext
      <4>3. CASE \E d \in DOMAIN closures :
                    x = <<"callback", d>> /\ closures[d].callback = Closure(a) /\ closures[d].cont # NoOp
        BY <4>3, WakerFormsNext DEF ObjectsStay
      <4> QED
        BY <3>1, <4>1, <4>2, <4>3, WakerForms
    <3>2. a = t => <<"job", q + 1>> \in WakersOf(a)'
      BY <2>3, <2>5, <2>8, WakerFormsNext
    <3>3. ASSUME NEW x \in WakersOf(a)' PROVE x \in WakersOf(a) \/ (a = t /\ x = <<"job", q + 1>>)
      <4>1. CASE \E i \in DOMAIN queue' : x = <<"job", i>> /\ queue'[i].continuation = a
        BY <4>1, <2>3, <2>5, <2>6, WakerForms
      <4>2. CASE \E s \in DOMAIN promises' : \E i \in DOMAIN Subscribers(promises'[s].out) :
                    x = <<"promise", s, i>> /\ Subscribers(promises'[s].out)[i] = a
        BY <4>2, <2>2, WakerForms
      <4>3. CASE \E d \in DOMAIN closures' :
                    x = <<"callback", d>> /\ closures'[d].callback = Closure(a) /\ closures'[d].cont # NoOp
        BY <4>3, WakerForms DEF ObjectsStay
      <4> QED
        BY <3>3, <4>1, <4>2, <4>3, WakerFormsNext
    <3> QED
      BY <3>1, <3>2, <3>3
  <2> QED
    BY <2>2, <2>5, <2>9, <2>10, <2>11, <1>1
<1> QED
  BY <1>2, <1>3

LEMMA AwaitPreserves ==
    ASSUME IInv, ~ Idle, Top.kind = "async", NEW v, Await(v),
           \/ Top.operand = Nothing /\ IsPromise(v)
           \/ Top.operand # Nothing /\ v = Top.operand
    PROVE  IInv'
<1> USE DEF IInv
<1>t. PICK t : t = Top.closure
  OBVIOUS
<1>1. closures' = [closures EXCEPT ![t].cont = Resume] /\ ReturnValue(Top.sync) /\ UNCHANGED outcome
  BY <1>t DEF Await, Suspended
<1>2. t \in DOMAIN closures /\ closures[t].kind = "async" /\ t \in 1 .. Len(closures)
      /\ closures[t] \in ClosureRecord /\ closures[t].cont = Deleted
  <2>1. IsAsync(t) /\ OnStack(t)
    BY <1>t, ShapesOpen DEF Frames, FrameFits, OnStack, Top
  <2> QED
    BY <2>1, ShapesOpen DEF RunsOnce, IsAsync
<1>3. /\ closures' \in Seq(ClosureRecord) /\ DOMAIN closures' = DOMAIN closures
      /\ \A d \in DOMAIN closures : d # t => closures'[d] = closures[d]
      /\ closures'[t].kind = "async" /\ closures'[t].cont = Resume
      /\ closures'[t].callback = closures[t].callback
  <2>1. PICK r : r = [closures[t] EXCEPT !.cont = Resume]
    OBVIOUS
  <2>2. r \in ClosureRecord /\ r.kind = "async" /\ r.cont = Resume /\ r.callback = closures[t].callback
    <3>1. Resume \in Value
      BY ValueShapes
    <3> HIDE DEF Value
    <3> QED
      BY <1>2, <2>1, <3>1 DEF ClosureRecord
  <2>3. closures' = [closures EXCEPT ![t] = r]
    BY <1>1, <2>1
  <2> HIDE DEF ClosureRecord
  <2>4. /\ closures' \in Seq(ClosureRecord) /\ Len(closures') = Len(closures)
        /\ \A d \in 1 .. Len(closures) : closures'[d] = IF d = t THEN r ELSE closures[d]
    BY <1>2, <2>2, <2>3, ExceptSeq DEF Shapes
  <2> QED
    BY <1>2, <2>2, <2>4, LenProperties, ShapesOpen
<1>4. /\ DOMAIN promises \subseteq DOMAIN promises'
      /\ \/ v = Deleted /\ UNCHANGED <<promises, queue>>
         \/ v # Deleted /\ \E p \in DOMAIN promises : SubscribeToPromise(p, t)
      /\ v = Deleted <=> Top.operand = Deleted
  <2>1. v = Deleted \/ IsPromise(v)
    BY ShapesOpen DEF Frames, FrameFits, Top
  <2>2. CASE v = Deleted
    <3>1. Top.operand = Deleted
      BY <2>2, ValueForms DEF IsPromise
    <3>2. UNCHANGED <<promises, queue>>
      BY <2>2 DEF Await
    <3>3. DOMAIN promises \subseteq DOMAIN promises'
      BY <3>2
    <3> QED
      BY <2>2, <3>1, <3>2, <3>3
  <2>3. CASE v # Deleted
    <3>1. PICK p \in DOMAIN promises : v = Promise(p)
      BY <2>1, <2>3 DEF IsPromise
    <3>2. SubscribeToPromise(p, t)
      BY <2>3, <3>1, <1>t, ValueForms DEF Await
    <3>3. DOMAIN promises' = DOMAIN promises
      BY <3>2 DEF SubscribeToPromise
    <3>4. Top.operand # Deleted
      BY <2>3, ValueForms
    <3> QED
      BY <2>3, <3>2, <3>3, <3>4
  <2> QED
    BY <2>2, <2>3
<1>5. ObjectsStay
  BY <1>2, <1>3, <1>4 DEF ObjectsStay
<1>6. \A d \in DOMAIN closures : closures'[d].cont = NoOp <=> closures[d].cont = NoOp
  BY <1>2, <1>3, ValueForms
<1>7. /\ t \in Nat
      /\ WakersOf(t) # {} <=> Top.operand = Deleted
      /\ stack' \in Seq(FrameRecord) /\ cps' \in Value
      /\ Frames' /\ CallbackOfCaller' /\ RunsOnce'
      /\ \A i \in DOMAIN stack' : stack'[i].kind = "async" =>
           /\ i \in DOMAIN stack /\ SameFrame(i) /\ (Waiting(i)' <=> Waiting(i))
           /\ stack[i].closure # t
  <2> HIDE DEF IInv
  <2> QED
    BY <1>1, <1>3, <1>5, <1>t, AsyncReturns
<1>8. /\ promises' \in Seq(PromiseRecord) /\ queue' \in Seq(JobRecord)
      /\ DOMAIN promises' = DOMAIN promises
      /\ \A r \in DOMAIN promises : promises'[r].status = promises[r].status /\ OutFits(r)'
      /\ (\A i \in DOMAIN queue : IsAsync(queue[i].continuation))'
      /\ \A a : a # t => WakersOf(a)' = WakersOf(a)
      /\ \E w : WakersOf(t)' = {w}
  <2>1. CASE v = Deleted /\ UNCHANGED <<promises, queue>>
    <3>1. \A a : WakersOf(a)' = WakersOf(a)
      BY <2>1, <1>3, <1>5, <1>6, WakersStay
    <3>2. WakersOf(t) # {} /\ \A x, y \in WakersOf(t) : x = y
      BY <2>1, <1>2, <1>4, <1>7 DEF Wakers
    <3>3. \E w : WakersOf(t)' = {w}
      BY <3>1, <3>2
    <3>4. \A r \in DOMAIN promises : OutFits(r)'
      BY <2>1, <1>5, ReferencesStay DEF References, OutFits
    <3>5. (\A i \in DOMAIN queue : IsAsync(queue[i].continuation))'
      BY <2>1, <1>5, ReferencesStay DEF References
    <3> QED
      BY <2>1, <3>1, <3>3, <3>4, <3>5 DEF Shapes
  <2>2. CASE v # Deleted /\ \E p \in DOMAIN promises : SubscribeToPromise(p, t)
    <3>1. PICK p \in DOMAIN promises : SubscribeToPromise(p, t)
      BY <2>2
    <3>2. IsAsync(t)
      BY <1>2 DEF IsAsync
    <3>3. /\ promises' \in Seq(PromiseRecord) /\ queue' \in Seq(JobRecord)
          /\ DOMAIN promises' = DOMAIN promises
          /\ \A r \in DOMAIN promises : promises'[r].status = promises[r].status /\ OutFits(r)'
          /\ (\A i \in DOMAIN queue : IsAsync(queue[i].continuation))'
          /\ \E w : \A a : WakersOf(a)' = WakersOf(a) \cup (IF a = t THEN {w} ELSE {})
      BY <3>1, <3>2, <1>3, <1>5, <1>6, <1>7, SubscribeAdds
    <3>4. PICK w : \A a : WakersOf(a)' = WakersOf(a) \cup (IF a = t THEN {w} ELSE {})
      BY <3>3
    <3>5. WakersOf(t) = {}
      BY <2>2, <1>4, <1>7
    <3>6. WakersOf(t)' = {w}
      BY <3>4, <3>5
    <3>7. \A a : a # t => WakersOf(a)' = WakersOf(a)
      BY <3>4
    <3> QED
      BY <3>3, <3>6, <3>7
  <2> QED
    BY <1>4, <2>1, <2>2
<1>9. Shapes'
  BY <1>3, <1>7, <1>8 DEF Shapes
<1>10. References'
  <2>1. ASSUME NEW c \in DOMAIN closures PROVE SlotsFit(c)'
    <3>1. SlotsFit(c) /\ closures'[c].kind = closures[c].kind /\ closures'[c].callback = closures[c].callback
          /\ (c # t => closures'[c].cont = closures[c].cont)
      BY <1>3, <1>5 DEF References, ObjectsStay
    <3> QED
      BY <3>1, <1>3, <1>5, ReferencesStay DEF SlotsFit
  <2> QED
    BY <2>1, <1>3, <1>8 DEF References
<1>11. Settled'
  BY <1>3, <1>5, <1>6, <1>8, SettledStays
<1>12. Wakers'
  <2>1. ASSUME NEW c \in DOMAIN closures', closures'[c].kind = "async"
        PROVE  /\ \A x, y \in WakersOf(c)' : x = y
               /\ closures'[c].cont = Resume => WakersOf(c)' # {}
               /\ closures'[c].cont = NoOp => WakersOf(c)' = {}
    <3>1. CASE c = t
      BY <3>1, <1>3, <1>8, ValueForms
    <3>2. CASE c # t
      BY <2>1, <3>2, <1>3, <1>8 DEF Wakers
    <3> QED
      BY <3>1, <3>2
  <2>2. ASSUME NEW i \in DOMAIN stack', stack'[i].kind = "async", NEW a, a = stack'[i].closure
        PROVE  WakersOf(a)' # {} <=> Waiting(i)'
    <3>1. i \in DOMAIN stack /\ stack[i].kind = "async" /\ stack[i].closure = a /\ a # t
          /\ (Waiting(i)' <=> Waiting(i))
      BY <2>2, <1>7 DEF SameFrame
    <3>2. WakersOf(a) # {} <=> Waiting(i)
      BY <3>1 DEF Wakers
    <3> QED
      BY <3>1, <3>2, <1>8
  <2> QED
    BY <2>1, <2>2 DEF Wakers
<1> QED
  BY <1>7, <1>9, <1>10, <1>11, <1>12

(* A function that completes, or the host, hands its wake-ups to the queue: *)
(* each job in it stands for one that was a subscription or the callback.   *)
LEMMA CompletionMovesWakers ==
    ASSUME Shapes, References, NEW c \in DOMAIN closures, closures[c].cont # NoOp,
           NEW cs, cs = ToSchedule(c), cs \in Seq(Nat),
           queue' \in Seq(JobRecord), DOMAIN queue' = 1 .. Len(queue) + Len(cs),
           \A i \in 1 .. Len(queue) : queue'[i] = queue[i],
           \A i \in 1 .. Len(cs) : queue'[Len(queue) + i].continuation = cs[i],
           DOMAIN promises' = DOMAIN promises,
           \A p \in DOMAIN promises :
                IF closures[c].callback = Promise(p) THEN promises'[p].out.is = "result"
                                                     ELSE promises'[p] = promises[p],
           DOMAIN closures' = DOMAIN closures,
           closures'[c].cont = NoOp,
           \A d \in DOMAIN closures : /\ closures'[d].callback = closures[d].callback
                                      /\ d # c => closures'[d].cont = closures[d].cont
    PROVE  \A a : /\ WakersOf(a)' # {} <=> WakersOf(a) # {}
                  /\ (\A x, y \in WakersOf(a) : x = y) => (\A x, y \in WakersOf(a)' : x = y)
<1>q. PICK q : q = Len(queue)
  OBVIOUS
<1>m. PICK m : m = Len(cs)
  OBVIOUS
<1>1. q \in Nat /\ m \in Nat /\ DOMAIN queue = 1 .. q /\ DOMAIN cs = 1 .. m /\ DOMAIN queue' = 1 .. q + m
      /\ (\A i \in 1 .. q : queue'[i] = queue[i])
      /\ (\A i \in 1 .. m : queue'[q + i].continuation = cs[i])
  BY <1>q, <1>m, ShapesOpen, LenProperties
<1> DEFINE Moves(mv) ==
        /\ \A a : \A i \in 1 .. m : mv[i] \in WakersOf(a) <=> cs[i] = a
        /\ \A i, j \in 1 .. m : mv[i] = mv[j] => i = j
        /\ \A j : \A i \in 1 .. m : mv[i] # <<"job", j>>
        /\ \A a, r, k : <<"promise", r, k>> \in WakersOf(a)' <=>
                /\ <<"promise", r, k>> \in WakersOf(a)
                /\ \A i \in 1 .. m : mv[i] # <<"promise", r, k>>
        /\ \A a, d : <<"callback", d>> \in WakersOf(a)' <=>
                /\ <<"callback", d>> \in WakersOf(a)
                /\ \A i \in 1 .. m : mv[i] # <<"callback", d>>
<1>2. \E mv : Moves(mv)
  <2>1. ASSUME NEW a, NEW r, NEW k
        PROVE  /\ <<"promise", r, k>> \in WakersOf(a) <=>
                    /\ r \in DOMAIN promises /\ k \in DOMAIN Subscribers(promises[r].out)
                    /\ Subscribers(promises[r].out)[k] = a
               /\ <<"promise", r, k>> \in WakersOf(a)' <=>
                    /\ r \in DOMAIN promises' /\ k \in DOMAIN Subscribers(promises'[r].out)
                    /\ Subscribers(promises'[r].out)[k] = a
    BY WakerForms, WakerFormsNext, WakersDiffer
  <2>2. ASSUME NEW a, NEW d
        PROVE  /\ <<"callback", d>> \in WakersOf(a) <=>
                    d \in DOMAIN closures /\ closures[d].callback = Closure(a) /\ closures[d].cont # NoOp
               /\ <<"callback", d>> \in WakersOf(a)' <=>
                    d \in DOMAIN closures' /\ closures'[d].callback = Closure(a) /\ closures'[d].cont # NoOp
    BY WakerForms, WakerFormsNext, WakersDiffer
  <2>3. ASSUME NEW r \in DOMAIN promises, promises'[r].out.is = "result"
        PROVE  Subscribers(promises'[r].out) = << >>
    BY <2>3 DEF Subscribers
  <2>4. CASE closures[c].callback = NoOp
    <3>1. cs = << >> /\ m = 0
      BY <2>4, <1>m, ValueForms DEF ToSchedule
    <3>2. \A i \in 1 .. m : FALSE
      BY <3>1
    <3>3. \A p : closures[c].callback # Promise(p) /\ closures[c].callback # Closure(p)
      BY <2>4, ValueForms
    <3>4. \A a, r, k : <<"promise", r, k>> \in WakersOf(a)' <=> <<"promise", r, k>> \in WakersOf(a)
      <4> SUFFICES ASSUME NEW a, NEW r, NEW k
                   PROVE  <<"promise", r, k>> \in WakersOf(a)' <=> <<"promise", r, k>> \in WakersOf(a)
        OBVIOUS
      <4>1. r \in DOMAIN promises => promises'[r] = promises[r]
        BY <3>3
      <4> QED
        BY <4>1, <2>1
    <3>5. \A a, d : <<"callback", d>> \in WakersOf(a)' <=> <<"callback", d>> \in WakersOf(a)
      BY <2>2, <3>3
    <3> QED
      BY <3>2, <3>4, <3>5
  <2>5. ASSUME NEW p \in DOMAIN promises, closures[c].callback = Promise(p)
        PROVE  \E mv : Moves(mv)
    <3>1. cs = Subscribers(promises[p].out)
      BY <2>5, ValueForms DEF ToSchedule
    <3>2. PICK mv : mv = [i \in 1 .. m |-> <<"promise", p, i>>]
      OBVIOUS
    <3>3. \A i \in 1 .. m : mv[i] = <<"promise", p, i>>
      BY <3>2
    <3>4. \A r \in DOMAIN promises : r # p => promises'[r] = promises[r]
      BY <2>5, PromisesDiffer
    <3>5. Subscribers(promises'[p].out) = << >>
      BY <2>3, <2>5
    <3>6. \A a : \A i \in 1 .. m : mv[i] \in WakersOf(a) <=> cs[i] = a
      <4> SUFFICES ASSUME NEW i \in 1 .. m, NEW a PROVE mv[i] \in WakersOf(a) <=> cs[i] = a
        OBVIOUS
      <4>1. mv[i] = <<"promise", p, i>> /\ i \in DOMAIN Subscribers(promises[p].out)
        BY <3>1, <3>3, <1>1
      <4> QED
        BY <4>1, <3>1, <2>1
    <3>7. \A i, j \in 1 .. m : mv[i] = mv[j] => i = j
      <4> SUFFICES ASSUME NEW i \in 1 .. m, NEW j \in 1 .. m, mv[i] = mv[j] PROVE i = j
        OBVIOUS
      <4>1. <<"promise", p, i>> = <<"promise", p, j>>
        BY <3>3
      <4> QED
        BY <4>1, WakersDiffer
    <3>8. \A j : \A i \in 1 .. m : mv[i] # <<"job", j>>
      BY <3>3, WakersDiffer
    <3>9. ASSUME NEW a, NEW r, NEW k
          PROVE  <<"promise", r, k>> \in WakersOf(a)' <=>
                    /\ <<"promise", r, k>> \in WakersOf(a)
                    /\ \A i \in 1 .. m : mv[i] # <<"promise", r, k>>
      <4>1. CASE r = p
        <5>1. <<"promise", r, k>> \notin WakersOf(a)'
          BY <4>1, <3>5, <2>1
        <5>2. <<"promise", r, k>> \in WakersOf(a) => k \in 1 .. m /\ mv[k] = <<"promise", r, k>>
          BY <4>1, <3>1, <3>3, <2>1, <1>1
        <5> QED
          BY <5>1, <5>2
      <4>2. CASE r # p
        <5>1. \A i \in 1 .. m : mv[i] # <<"promise", r, k>>
          BY <4>2, <3>3, WakersDiffer
        <5>2. r \in DOMAIN promises => promises'[r] = promises[r]
          BY <4>2, <3>4
        <5>3. <<"promise", r, k>> \in WakersOf(a)' <=> <<"promise", r, k>> \in WakersOf(a)
          BY <5>2, <2>1
        <5> QED
          BY <5>1, <5>3
      <4> QED
        BY <4>1, <4>2
    <3>10. ASSUME NEW a, NEW d
           PROVE  <<"callback", d>> \in WakersOf(a)' <=>
                    /\ <<"callback", d>> \in WakersOf(a)
                    /\ \A i \in 1 .. m : mv[i] # <<"callback", d>>
      <4>1. closures[c].callback # Closure(a)
        BY <2>5, ValueForms
      <4>2. \A i \in 1 .. m : mv[i] # <<"callback", d>>
        BY <3>3, WakersDiffer
      <4> QED
        BY <4>1, <4>2, <2>2
    <3>11. Moves(mv)
      BY <3>6, <3>7, <3>8, <3>9, <3>10
    <3> HIDE DEF Moves
    <3> QED
      BY <3>11
  <2>6. ASSUME NEW b, closures[c].callback = Closure(b)
        PROVE  \E mv : Moves(mv)
    <3>1. cs = <<b>> /\ m = 1 /\ cs[1] = b
      <4>1. cs = <<b>>
        BY <2>6, ValueForms DEF ToSchedule
      <4> QED
        BY <4>1, <1>m
    <3>2. PICK mv : mv = [i \in 1 .. m |-> <<"callback", c>>]
      OBVIOUS
    <3>3. 1 .. m = {1} /\ mv[1] = <<"callback", c>>
      BY <3>1, <3>2
    <3>4. \A i \in 1 .. m : i = 1
      BY <3>3
    <3>5. \A p : closures[c].callback # Promise(p)
      BY <2>6, ValueForms
    <3>6. \A a : mv[1] \in WakersOf(a) <=> cs[1] = a
      BY <3>1, <3>3, <2>2, <2>6, ClosuresDiffer
    <3>7. \A a : \A i \in 1 .. m : mv[i] \in WakersOf(a) <=> cs[i] = a
      BY <3>4, <3>6
    <3>8. \A j : \A i \in 1 .. m : mv[i] # <<"job", j>>
      BY <3>3, <3>4, WakersDiffer
    <3>9. ASSUME NEW a, NEW r, NEW k
          PROVE  <<"promise", r, k>> \in WakersOf(a)' <=>
                    /\ <<"promise", r, k>> \in WakersOf(a)
                    /\ \A i \in 1 .. m : mv[i] # <<"promise", r, k>>
      <4>1. \A i \in 1 .. m : mv[i] # <<"promise", r, k>>
        BY <3>3, <3>4, WakersDiffer
      <4> QED
        BY <4>1, <3>5, <2>1
    <3>10. ASSUME NEW a, NEW d
           PROVE  <<"callback", d>> \in WakersOf(a)' <=>
                    /\ <<"callback", d>> \in WakersOf(a)
                    /\ \A i \in 1 .. m : mv[i] # <<"callback", d>>
      <4>1. CASE d = c
        BY <4>1, <3>3, <2>2
      <4>2. CASE d # c
        <5>1. \A i \in 1 .. m : mv[i] # <<"callback", d>>
          BY <4>2, <3>3, <3>4, WakersDiffer
        <5> QED
          BY <4>2, <5>1, <2>2
      <4> QED
        BY <4>1, <4>2
    <3>11. \A i, j \in 1 .. m : mv[i] = mv[j] => i = j
      BY <3>4
    <3>12. Moves(mv)
      BY <3>7, <3>8, <3>9, <3>10, <3>11
    <3> HIDE DEF Moves
    <3> QED
      BY <3>12
  <2> QED
    BY <2>4, <2>5, <2>6 DEF References, SlotsFit, IsPromise
<1>3. PICK mv : Moves(mv)
  BY <1>2
<1> DEFINE From(a, y) == \E x \in WakersOf(a) :
                \/ y = x /\ \A i \in 1 .. m : x # mv[i]
                \/ \E i \in 1 .. m : y = <<"job", q + i>> /\ x = mv[i]
<1>4. ASSUME NEW a, NEW j
      PROVE  /\ <<"job", j>> \in WakersOf(a) <=> j \in 1 .. q /\ queue[j].continuation = a
             /\ <<"job", j>> \in WakersOf(a)' <=> j \in 1 .. q + m /\ queue'[j].continuation = a
  BY <1>1, WakerForms, WakerFormsNext, WakersDiffer
<1>5. ASSUME NEW j \in 1 .. q + m PROVE j \in 1 .. q \/ \E i \in 1 .. m : j = q + i
  <2>1. CASE j <= q
    BY <2>1, <1>1
  <2>2. CASE j > q
    <3>1. j - q \in 1 .. m /\ j = q + (j - q)
      BY <2>2, <1>1
    <3> QED
      BY <3>1
  <2> QED
    BY <2>1, <2>2, <1>1
<1>6. \A j \in 1 .. q : j \in 1 .. q + m
  BY <1>1
<1>7. \A i \in 1 .. m : q + i \in 1 .. q + m /\ q + i \notin 1 .. q
  BY <1>1
<1>8. ASSUME NEW a, NEW y \in WakersOf(a)'
      PROVE  From(a, y)
  <2>1. ASSUME NEW j \in DOMAIN queue', y = <<"job", j>>, queue'[j].continuation = a
        PROVE  From(a, y)
    <3>1. CASE j \in 1 .. q
      <4>1. y \in WakersOf(a)
        BY <2>1, <3>1, <1>1, <1>4
      <4>2. \A i \in 1 .. m : y # mv[i]
        BY <2>1, <1>3
      <4> QED
        BY <4>1, <4>2
    <3>2. ASSUME NEW i \in 1 .. m, j = q + i PROVE From(a, y)
      <4>1. cs[i] = a
        BY <2>1, <3>2, <1>1
      <4>2. mv[i] \in WakersOf(a)
        BY <4>1, <1>3
      <4> QED
        BY <4>2, <2>1, <3>2
    <3>3. j \in 1 .. q + m
      BY <2>1, <1>1
    <3>4. j \in 1 .. q \/ \E i \in 1 .. m : j = q + i
      BY <3>3, <1>5
    <3> HIDE DEF From
    <3> QED
      BY <3>1, <3>2, <3>4
  <2>2. ASSUME NEW r, NEW k, y = <<"promise", r, k>> PROVE From(a, y)
    <3>1. y \in WakersOf(a) /\ \A i \in 1 .. m : mv[i] # y
      BY <2>2, <1>3, <1>8
    <3> QED
      BY <3>1
  <2>3. ASSUME NEW d, y = <<"callback", d>> PROVE From(a, y)
    <3>1. y \in WakersOf(a) /\ \A i \in 1 .. m : mv[i] # y
      BY <2>3, <1>3, <1>8
    <3> QED
      BY <3>1
  <2> HIDE DEF From
  <2> QED
    BY <1>8, <2>1, <2>2, <2>3, WakerFormsNext
<1>9. ASSUME NEW a, NEW x \in WakersOf(a)
      PROVE  WakersOf(a)' # {}
  <2>1. ASSUME NEW i \in 1 .. m, x = mv[i] PROVE WakersOf(a)' # {}
    <3>1. cs[i] = a
      BY <2>1, <1>3, <1>9
    <3>2. <<"job", q + i>> \in WakersOf(a)'
      BY <3>1, <1>1, <1>4, <1>7
    <3> QED
      BY <3>2
  <2>2. CASE \A i \in 1 .. m : x # mv[i]
    <3>1. ASSUME NEW j \in DOMAIN queue, x = <<"job", j>>, queue[j].continuation = a
          PROVE  x \in WakersOf(a)'
      BY <3>1, <1>1, <1>4, <1>6
    <3>2. ASSUME NEW r, NEW k, x = <<"promise", r, k>> PROVE x \in WakersOf(a)'
      BY <2>2, <3>2, <1>3, <1>9
    <3>3. ASSUME NEW d, x = <<"callback", d>> PROVE x \in WakersOf(a)'
      BY <2>2, <3>3, <1>3, <1>9
    <3>4. x \in WakersOf(a)'
      BY <1>9, <3>1, <3>2, <3>3, WakerForms
    <3> QED
      BY <3>4
  <2> QED
    BY <2>1, <2>2
<1>10. ASSUME NEW a, \A x, y \in WakersOf(a) : x = y, NEW v \in WakersOf(a)', NEW w \in WakersOf(a)'
       PROVE  v = w
  <2>1. PICK x \in WakersOf(a) :
                \/ v = x /\ \A i \in 1 .. m : x # mv[i]
                \/ \E i \in 1 .. m : v = <<"job", q + i>> /\ x = mv[i]
    BY <1>8
  <2>2. PICK y \in WakersOf(a) :
                \/ w = y /\ \A i \in 1 .. m : y # mv[i]
                \/ \E i \in 1 .. m : w = <<"job", q + i>> /\ y = mv[i]
    BY <1>8
  <2>3. x = y
    BY <1>10
  <2>4. ASSUME NEW i \in 1 .. m, v = <<"job", q + i>>, x = mv[i] PROVE v = w
    <3>1. PICK j \in 1 .. m : w = <<"job", q + j>> /\ y = mv[j]
      BY <2>2, <2>3, <2>4
    <3>2. i = j
      BY <3>1, <2>3, <2>4, <1>3
    <3> QED
      BY <3>1, <3>2, <2>4
  <2>5. CASE v = x /\ \A i \in 1 .. m : x # mv[i]
    BY <2>2, <2>3, <2>5
  <2> QED
    BY <2>1, <2>4, <2>5
<1> QED
  BY <1>8, <1>9, <1>10

(* What SUB_ASYNC_COMPLETE leaves behind.                                  *)
LEMMA AsyncCompletes ==
    ASSUME Shapes, References, Settled, NEW c \in DOMAIN closures, closures[c].cont # NoOp,
           NEW how \in {"resolved", "rejected"}, AsyncComplete(c, how)
    PROVE  /\ closures' \in Seq(ClosureRecord) /\ promises' \in Seq(PromiseRecord)
           /\ queue' \in Seq(JobRecord)
           /\ ObjectsStay /\ References' /\ Settled'
           /\ DOMAIN closures' = DOMAIN closures /\ closures'[c].cont = NoOp
           /\ \A d \in DOMAIN closures : d # c => closures'[d] = closures[d]
           /\ closures'[c].kind = closures[c].kind
           /\ \A a : /\ WakersOf(a)' # {} <=> WakersOf(a) # {}
                     /\ (\A x, y \in WakersOf(a) : x = y) => (\A x, y \in WakersOf(a)' : x = y)
<1>o. PICK o : o = OpOf(c)
  OBVIOUS
<1>cs. PICK cs : cs = ToSchedule(c)
  OBVIOUS
<1>cb. PICK cb : cb = closures[c].callback
  OBVIOUS
<1>1. /\ c \in 1 .. Len(closures) /\ closures[c] \in ClosureRecord /\ SlotsFit(c) /\ cb \in Value
  BY <1>cb, ShapesOpen DEF References, ClosureRecord
<1>2. o \in Nat
  <2>1. o \in {c, c - 1}
    BY <1>o DEF OpOf
  <2> QED
    BY <2>1, <1>1, ShapesOpen
<1>3. Result(o) \in Value /\ Result(o).is = "result"
  BY <1>2, ValueShapes, ValueForms
<1>4. /\ queue' = queue \o [i \in DOMAIN cs |-> Job(cs[i], o, how)]
      /\ closures' = [closures EXCEPT ![c].cont = NoOp]
      /\ promises' = IF cb.is = "promise"
                     THEN [promises EXCEPT ![PromiseOf(cb)] = [status |-> how, out |-> Result(o)]]
                     ELSE promises
  BY <1>o, <1>cs, <1>cb DEF AsyncComplete, Scheduled, Disarmed
<1>5. /\ closures' \in Seq(ClosureRecord) /\ DOMAIN closures' = DOMAIN closures
      /\ \A d \in DOMAIN closures : d # c => closures'[d] = closures[d]
      /\ closures'[c].kind = closures[c].kind /\ closures'[c].cont = NoOp
      /\ closures'[c].callback = closures[c].callback
  <2>1. PICK r : r = [closures[c] EXCEPT !.cont = NoOp]
    OBVIOUS
  <2>2. r \in ClosureRecord /\ r.kind = closures[c].kind /\ r.cont = NoOp /\ r.callback = closures[c].callback
    <3>1. NoOp \in Value
      BY ValueShapes
    <3> HIDE DEF Value
    <3> QED
      BY <1>1, <2>1, <3>1 DEF ClosureRecord
  <2>3. closures' = [closures EXCEPT ![c] = r]
    BY <1>4, <2>1
  <2> HIDE DEF ClosureRecord
  <2>4. /\ closures' \in Seq(ClosureRecord) /\ Len(closures') = Len(closures)
        /\ \A d \in 1 .. Len(closures) : closures'[d] = IF d = c THEN r ELSE closures[d]
    BY <1>1, <2>2, <2>3, ExceptSeq DEF Shapes
  <2> QED
    BY <1>1, <2>2, <2>4, LenProperties, ShapesOpen
<1>6. cs \in Seq(Nat)
  <2>1. CASE cb.is = "promise"
    <3>1. PICK p \in DOMAIN promises : cb = Promise(p)
      BY <2>1, <1>1, <1>cb, ValueForms DEF SlotsFit, IsPromise
    <3>2. promises[p].out \in Value
      BY ShapesOpen DEF PromiseRecord
    <3>3. cs = Subscribers(promises[p].out)
      BY <3>1, <1>cs, <1>cb, ValueForms DEF ToSchedule
    <3> QED
      BY <3>2, <3>3, SubscribersShape
  <2>2. CASE cb.is # "promise"
    BY <2>2, <1>1, <1>cs, <1>cb DEF ToSchedule, Value
  <2> QED
    BY <2>1, <2>2
<1>7. \A i \in DOMAIN cs : IsAsync(cs[i])
  <2>1. CASE cb = NoOp
    <3>1. cs = << >>
      BY <2>1, <1>cs, <1>cb, ValueForms DEF ToSchedule
    <3> QED
      BY <3>1
  <2>2. ASSUME NEW p \in DOMAIN promises, cb = Promise(p) PROVE \A i \in DOMAIN cs : IsAsync(cs[i])
    <3>1. cs = Subscribers(promises[p].out)
      BY <2>2, <1>cs, <1>cb, ValueForms DEF ToSchedule
    <3> QED
      BY <3>1 DEF References, OutFits
  <2>3. ASSUME NEW a, cb = Closure(a), IsAsync(a) PROVE \A i \in DOMAIN cs : IsAsync(cs[i])
    <3>1. cs = <<a>>
      BY <2>3, <1>cs, <1>cb, ValueForms DEF ToSchedule
    <3> QED
      BY <3>1, <2>3
  <2> QED
    BY <1>1, <1>cb, <2>1, <2>2, <2>3 DEF SlotsFit, IsPromise
<1>q. PICK q : q = Len(queue)
  OBVIOUS
<1>m. PICK m : m = Len(cs)
  OBVIOUS
<1>8. /\ queue' \in Seq(JobRecord) /\ DOMAIN queue' = 1 .. q + m /\ q \in Nat /\ m \in Nat
      /\ DOMAIN queue = 1 .. q /\ DOMAIN cs = 1 .. m
      /\ \A i \in 1 .. q : queue'[i] = queue[i]
      /\ \A i \in 1 .. m : queue'[q + i].continuation = cs[i]
  <2>1. PICK js : js = [i \in DOMAIN cs |-> Job(cs[i], o, how)]
    OBVIOUS
  <2>2. \A i \in DOMAIN cs : cs[i] \in Nat
    BY <1>6
  <2>3. \A i \in DOMAIN cs : Job(cs[i], o, how) \in JobRecord /\ Job(cs[i], o, how).continuation = cs[i]
    <3> HIDE DEF Value
    <3> QED
      BY <2>2, <1>3 DEF Job, JobRecord
  <2> HIDE DEF JobRecord
  <2>4. DOMAIN cs = 1 .. m /\ m \in Nat /\ q \in Nat /\ DOMAIN queue = 1 .. q
    BY <1>6, <1>m, <1>q, ShapesOpen, LenProperties
  <2>5. \A i \in 1 .. m : js[i] \in JobRecord /\ js[i].continuation = cs[i]
    BY <2>1, <2>3, <2>4
  <2>6. js \in Seq(JobRecord) /\ Len(js) = m
    BY <2>1, <2>3, <2>4, IsASeq
  <2>7. queue' = queue \o js
    BY <1>4, <2>1
  <2>8. /\ queue' \in Seq(JobRecord) /\ Len(queue') = q + m
        /\ \A i \in 1 .. q + m : queue'[i] = IF i <= q THEN queue[i] ELSE js[i - q]
    BY <2>6, <2>7, <1>q, ConcatProperties DEF Shapes
  <2>9. DOMAIN queue' = 1 .. q + m
    BY <2>8, LenProperties
  <2>10. ASSUME NEW i \in 1 .. q PROVE queue'[i] = queue[i]
    <3>1. i \in 1 .. q + m /\ i <= q
      BY <2>4
    <3> QED
      BY <3>1, <2>8
  <2>11. ASSUME NEW i \in 1 .. m PROVE queue'[q + i].continuation = cs[i]
    <3>1. q + i \in 1 .. q + m /\ ~ (q + i <= q) /\ (q + i) - q = i
      BY <2>4
    <3>2. queue'[q + i] = js[i]
      BY <3>1, <2>8
    <3> QED
      BY <3>2, <2>5
  <2> QED
    BY <2>4, <2>8, <2>9, <2>10, <2>11
<1>9. /\ promises' \in Seq(PromiseRecord) /\ DOMAIN promises' = DOMAIN promises
      /\ \A p \in DOMAIN promises :
            IF cb = Promise(p) THEN promises'[p] = [status |-> how, out |-> Result(o)]
                               ELSE promises'[p] = promises[p]
  <2>1. CASE cb.is = "promise"
    <3>1. PICK p \in DOMAIN promises : cb = Promise(p)
      BY <2>1, <1>1, <1>cb, ValueForms DEF SlotsFit, IsPromise
    <3>2. PICK r : r = [status |-> how, out |-> Result(o)]
      OBVIOUS
    <3>3. r \in PromiseRecord
      <4> HIDE DEF Value
      <4> QED
        BY <3>2, <1>3 DEF PromiseRecord
    <3>4. promises' = [promises EXCEPT ![p] = r]
      BY <2>1, <3>1, <3>2, <1>4, ValueForms
    <3> HIDE DEF PromiseRecord
    <3>5. /\ promises' \in Seq(PromiseRecord) /\ Len(promises') = Len(promises)
          /\ \A s \in 1 .. Len(promises) : promises'[s] = IF s = p THEN r ELSE promises[s]
      BY <3>1, <3>3, <3>4, ShapesOpen, ExceptSeq DEF Shapes
    <3>6. DOMAIN promises' = DOMAIN promises /\ DOMAIN promises = 1 .. Len(promises)
      BY <3>5, LenProperties, ShapesOpen
    <3>7. ASSUME NEW s \in DOMAIN promises
          PROVE  IF cb = Promise(s) THEN promises'[s] = [status |-> how, out |-> Result(o)]
                                    ELSE promises'[s] = promises[s]
      <4>1. cb = Promise(s) <=> s = p
        BY <3>1, PromisesDiffer
      <4> QED
        BY <4>1, <3>2, <3>5, <3>6
    <3> QED
      BY <3>5, <3>6, <3>7
  <2>2. CASE cb.is # "promise"
    <3>1. \A p : cb # Promise(p)
      BY <2>2, ValueForms
    <3> QED
      BY <2>2, <3>1, <1>4 DEF Shapes
  <2> QED
    BY <2>1, <2>2
<1>10. ObjectsStay
  BY <1>5, <1>9 DEF ObjectsStay
<1>11. \A a : /\ WakersOf(a)' # {} <=> WakersOf(a) # {}
              /\ (\A x, y \in WakersOf(a) : x = y) => (\A x, y \in WakersOf(a)' : x = y)
  <2>1. \A p \in DOMAIN promises :
            IF closures[c].callback = Promise(p) THEN promises'[p].out.is = "result"
                                                 ELSE promises'[p] = promises[p]
    BY <1>3, <1>9, <1>cb
  <2>2. \A d \in DOMAIN closures : /\ closures'[d].callback = closures[d].callback
                                   /\ d # c => closures'[d].cont = closures[d].cont
    BY <1>5
  <2>3. DOMAIN queue' = 1 .. Len(queue) + Len(cs)
    BY <1>8, <1>q, <1>m
  <2>4. \A i \in 1 .. Len(queue) : queue'[i] = queue[i]
    BY <1>8, <1>q
  <2>5. \A i \in 1 .. Len(cs) : queue'[Len(queue) + i].continuation = cs[i]
    BY <1>8, <1>q, <1>m
  <2> QED
    BY <1>cs, <1>5, <1>6, <1>8, <1>9, <2>1, <2>2, <2>3, <2>4, <2>5, CompletionMovesWakers
<1>12. References'
  <2>1. ASSUME NEW d \in DOMAIN closures PROVE SlotsFit(d)'
    <3>1. SlotsFit(d) /\ closures'[d].kind = closures[d].kind /\ closures'[d].callback = closures[d].callback
          /\ (d # c => closures'[d].cont = closures[d].cont)
      BY <1>5, <1>10 DEF References, ObjectsStay
    <3> QED
      BY <3>1, <1>5, <1>10, ReferencesStay DEF SlotsFit
  <2>2. ASSUME NEW p \in DOMAIN promises PROVE OutFits(p)'
    <3>1. CASE cb = Promise(p)
      <4>1. promises'[p].status = how /\ promises'[p].out = Result(o)
        BY <3>1, <1>9
      <4>2. Subscribers(promises'[p].out) = << >>
        BY <4>1, <1>3 DEF Subscribers
      <4> QED
        BY <4>1, <4>2, <1>3 DEF OutFits
    <3>2. CASE cb # Promise(p)
      BY <3>2, <1>9, <1>10, ReferencesStay DEF References, OutFits
    <3> QED
      BY <3>1, <3>2
  <2>3. (\A i \in DOMAIN queue : IsAsync(queue[i].continuation))'
    <3> SUFFICES ASSUME NEW i \in 1 .. q + m, NEW a, a = queue'[i].continuation PROVE IsAsync(a)'
      BY <1>8
    <3>1. CASE i \in 1 .. q
      <4>1. IsAsync(a)
        BY <3>1, <1>8 DEF References
      <4> QED
        BY <4>1, <1>10, ReferencesStay
    <3>2. CASE i \notin 1 .. q
      <4>1. PICK j \in 1 .. m : i = q + j
        <5>1. i - q \in 1 .. m /\ i = q + (i - q)
          BY <3>2, <1>8
        <5> QED
          BY <5>1
      <4>2. a = cs[j] /\ j \in DOMAIN cs
        BY <4>1, <1>8
      <4>3. IsAsync(a)
        BY <4>2, <1>7
      <4> QED
        BY <4>3, <1>10, ReferencesStay
    <3> QED
      BY <3>1, <3>2
  <2> QED
    BY <2>1, <2>2, <2>3, <1>5, <1>9 DEF References
<1>13. Settled'
  <2>1. ASSUME NEW p \in DOMAIN promises',
               (\A d \in DOMAIN closures : closures[d].callback = Promise(p) => closures[d].cont # NoOp)'
        PROVE  promises'[p].status = "pending"
    <3>1. cb # Promise(p)
      BY <2>1, <1>5, <1>cb
    <3>2. \A d \in DOMAIN closures : closures[d].callback = Promise(p) => closures[d].cont # NoOp
      BY <2>1, <1>5
    <3>3. promises[p].status = "pending"
      BY <2>1, <3>2, <1>9 DEF Settled
    <3> QED
      BY <2>1, <3>1, <3>3, <1>9
  <2>2. \A d \in DOMAIN closures : OpOf(d)' = OpOf(d)
    BY <1>5, <1>10 DEF OpOf, ObjectsStay
  <2>3. ASSUME NEW d \in DOMAIN closures, NEW e \in DOMAIN closures, d # e,
               closures'[d].callback = closures'[e].callback, closures'[d].callback.is = "promise"
        PROVE  /\ {closures'[d].kind, closures'[e].kind} = {"resolve", "reject"}
               /\ OpOf(d)' = OpOf(e)'
    <3>1. /\ closures'[d].kind = closures[d].kind /\ closures'[e].kind = closures[e].kind
          /\ closures'[d].callback = closures[d].callback /\ closures'[e].callback = closures[e].callback
      BY <1>10 DEF ObjectsStay
    <3>2. /\ {closures[d].kind, closures[e].kind} = {"resolve", "reject"} /\ OpOf(d) = OpOf(e)
      BY <2>3, <3>1 DEF Settled
    <3> QED
      BY <2>2, <3>1, <3>2
  <2>4. (\A p \in DOMAIN promises :
            (\A d \in DOMAIN closures : closures[d].callback = Promise(p) => closures[d].cont # NoOp)
                => promises[p].status = "pending")'
    BY <2>1, <1>9
  <2>5. (\A d, e \in DOMAIN closures :
            d # e /\ closures[d].callback = closures[e].callback /\ closures[d].callback.is = "promise" =>
                /\ {closures[d].kind, closures[e].kind} = {"resolve", "reject"}
                /\ OpOf(d) = OpOf(e))'
    BY <2>3, <1>5
  <2> QED
    BY <2>4, <2>5 DEF Settled
<1> QED
  BY <1>5, <1>8, <1>9, <1>10, <1>11, <1>12, <1>13

LEMMA CompletePreserves ==
    ASSUME IInv, NEW how \in {"resolved", "rejected"}, Complete(how)
    PROVE  IInv'
<1> USE DEF IInv
<1>t. PICK t : t = Top.closure
  OBVIOUS
<1>1. ~ Idle /\ JSRuns /\ Top.kind = "async" /\ AsyncComplete(t, how) /\ ReturnValue(Top.sync)
  BY <1>t DEF Complete, JSRuns
<1>2. t \in DOMAIN closures /\ closures[t].kind = "async" /\ closures[t].cont # NoOp
  <2>1. IsAsync(t) /\ OnStack(t)
    BY <1>1, <1>t, ShapesOpen DEF Frames, FrameFits, OnStack, Top
  <2> QED
    BY <2>1, ValueForms DEF RunsOnce, IsAsync
<1>3. /\ closures' \in Seq(ClosureRecord) /\ promises' \in Seq(PromiseRecord)
      /\ queue' \in Seq(JobRecord)
      /\ ObjectsStay /\ References' /\ Settled'
      /\ DOMAIN closures' = DOMAIN closures /\ closures'[t].cont = NoOp
      /\ \A d \in DOMAIN closures : d # t => closures'[d] = closures[d]
      /\ closures'[t].kind = closures[t].kind
      /\ \A a : /\ WakersOf(a)' # {} <=> WakersOf(a) # {}
                /\ (\A x, y \in WakersOf(a) : x = y) => (\A x, y \in WakersOf(a)' : x = y)
  <2> HIDE DEF IInv
  <2>1. Shapes /\ References /\ Settled
    BY DEF IInv
  <2> QED
    BY <1>1, <1>2, <2>1, AsyncCompletes
<1>4. WakersOf(t) = {}
  BY <1>1, <1>t, NoWakerAtTop
<1>5. /\ stack' \in Seq(FrameRecord) /\ cps' \in Value
      /\ Frames' /\ CallbackOfCaller' /\ RunsOnce'
      /\ \A i \in DOMAIN stack' : stack'[i].kind = "async" =>
           /\ i \in DOMAIN stack /\ SameFrame(i) /\ (Waiting(i)' <=> Waiting(i))
           /\ stack[i].closure # t
  <2> HIDE DEF IInv
  <2> QED
    BY <1>1, <1>3, <1>t, AsyncReturns
<1>6. Wakers'
  <2>1. ASSUME NEW c \in DOMAIN closures', closures'[c].kind = "async"
        PROVE  /\ \A x, y \in WakersOf(c)' : x = y
               /\ closures'[c].cont = Resume => WakersOf(c)' # {}
               /\ closures'[c].cont = NoOp => WakersOf(c)' = {}
    <3>1. closures[c].kind = "async"
      BY <2>1, <1>2, <1>3
    <3>2. \A x, y \in WakersOf(c) : x = y
      BY <2>1, <3>1, <1>3 DEF Wakers
    <3>3. CASE c = t
      BY <3>2, <3>3, <1>3, <1>4, ValueForms
    <3>4. CASE c # t
      <4>1. closures'[c] = closures[c]
        BY <2>1, <3>4, <1>3
      <4>2. /\ closures[c].cont = Resume => WakersOf(c) # {}
            /\ closures[c].cont = NoOp => WakersOf(c) = {}
        BY <2>1, <3>1, <1>3 DEF Wakers
      <4> QED
        BY <4>1, <4>2, <3>2, <1>3
    <3> QED
      BY <3>3, <3>4
  <2>2. ASSUME NEW i \in DOMAIN stack', stack'[i].kind = "async", NEW a, a = stack'[i].closure
        PROVE  WakersOf(a)' # {} <=> Waiting(i)'
    <3>1. i \in DOMAIN stack /\ stack[i].kind = "async" /\ stack[i].closure = a
          /\ (Waiting(i)' <=> Waiting(i))
      BY <2>2, <1>5 DEF SameFrame
    <3>2. WakersOf(a) # {} <=> Waiting(i)
      BY <3>1 DEF Wakers
    <3> QED
      BY <3>1, <3>2, <1>3
  <2> QED
    BY <2>1, <2>2 DEF Wakers
<1> QED
  BY <1>3, <1>5, <1>6 DEF Shapes

(* The host or JS code calls resolve, reject or a callback of              *)
(* mvm_asyncStart.                                                         *)
LEMMA SettlePreserves ==
    ASSUME IInv, NEW c \in DOMAIN closures, NEW how \in {"resolved", "rejected"},
           closures[c].kind # "async", Settle(c, how)
    PROVE  IInv'
<1> USE DEF IInv
<1>1. /\ closures' \in Seq(ClosureRecord) /\ promises' \in Seq(PromiseRecord)
      /\ queue' \in Seq(JobRecord)
      /\ ObjectsStay /\ References' /\ Settled'
      /\ DOMAIN closures' = DOMAIN closures
      /\ \A d \in DOMAIN closures : closures[d].kind = "async" => closures'[d] = closures[d]
      /\ \A d \in DOMAIN closures : closures'[d].kind = closures[d].kind
      /\ \A a : /\ WakersOf(a)' # {} <=> WakersOf(a) # {}
                /\ (\A x, y \in WakersOf(a) : x = y) => (\A x, y \in WakersOf(a)' : x = y)
  <2>1. CASE closures[c].cont = NoOp
    <3>1. UNCHANGED <<closures, promises, queue>>
      BY <2>1 DEF Settle
    <3>2. ObjectsStay
      BY <3>1 DEF ObjectsStay
    <3>3. References'
      BY <3>1, <3>2, NewReferences
    <3>4. Settled'
      BY <3>1, <3>2, SettledStays
    <3>5. \A a : WakersOf(a)' = WakersOf(a)
      BY <3>1, <3>2, WakersStay
    <3> QED
      BY <3>1, <3>2, <3>3, <3>4, <3>5 DEF Shapes
  <2>2. CASE closures[c].cont # NoOp
    <3> HIDE DEF IInv
    <3>1. Shapes /\ References /\ Settled
      BY DEF IInv
    <3>2. AsyncComplete(c, how)
      BY <2>2 DEF Settle
    <3>3. /\ closures' \in Seq(ClosureRecord) /\ promises' \in Seq(PromiseRecord)
          /\ queue' \in Seq(JobRecord)
          /\ ObjectsStay /\ References' /\ Settled'
          /\ DOMAIN closures' = DOMAIN closures /\ closures'[c].cont = NoOp
          /\ \A d \in DOMAIN closures : d # c => closures'[d] = closures[d]
          /\ closures'[c].kind = closures[c].kind
          /\ \A a : /\ WakersOf(a)' # {} <=> WakersOf(a) # {}
                    /\ (\A x, y \in WakersOf(a) : x = y) => (\A x, y \in WakersOf(a)' : x = y)
      BY <2>2, <3>1, <3>2, AsyncCompletes
    <3>4. \A d \in DOMAIN closures : closures'[d].kind = closures[d].kind
      BY <3>3
    <3> QED
      BY <3>3, <3>4
  <2> QED
    BY <2>1, <2>2
<1>2. /\ stack' \in Seq(FrameRecord) /\ Len(stack') = Len(stack) /\ DOMAIN stack' = DOMAIN stack
      /\ \A i \in DOMAIN stack : SameFrame(i) /\ (Waiting(i)' <=> Waiting(i))
      /\ Frames' /\ CallbackOfCaller'
  <2>1. stack' = Used(stack)
    BY DEF Settle
  <2> QED
    BY <1>1, <2>1, UsedStays
<1>3. cps' \in Value
  <2>1. cps' \in {cps, Stale, Deleted}
    BY DEF Settle, Restored
  <2> QED
    BY <2>1, ValueShapes DEF Shapes
<1>4. RunsOnce'
  <2>1. \A d \in DOMAIN closures' : closures'[d].kind = "async" =>
                d \in DOMAIN closures /\ closures'[d].kind = closures[d].kind
                                      /\ closures'[d].cont = closures[d].cont
    BY <1>1
  <2> QED
    BY <1>2, <2>1, RunsOncePreserved
<1>5. Wakers'
  <2>1. ASSUME NEW d \in DOMAIN closures', closures'[d].kind = "async"
        PROVE  /\ \A x, y \in WakersOf(d)' : x = y
               /\ closures'[d].cont = Resume => WakersOf(d)' # {}
               /\ closures'[d].cont = NoOp => WakersOf(d)' = {}
    <3>1. closures[d].kind = "async" /\ closures'[d] = closures[d] /\ d \in DOMAIN closures
      BY <2>1, <1>1
    <3>2. /\ \A x, y \in WakersOf(d) : x = y
          /\ closures[d].cont = Resume => WakersOf(d) # {}
          /\ closures[d].cont = NoOp => WakersOf(d) = {}
      BY <3>1 DEF Wakers
    <3> QED
      BY <3>1, <3>2, <1>1
  <2>2. ASSUME NEW i \in DOMAIN stack', stack'[i].kind = "async", NEW a, a = stack'[i].closure
        PROVE  WakersOf(a)' # {} <=> Waiting(i)'
    <3>1. i \in DOMAIN stack /\ stack[i].kind = "async" /\ stack[i].closure = a
          /\ (Waiting(i)' <=> Waiting(i))
      BY <2>2, <1>2 DEF SameFrame
    <3>2. WakersOf(a) # {} <=> Waiting(i)
      BY <3>1 DEF Wakers
    <3> QED
      BY <3>1, <3>2, <1>1
  <2> QED
    BY <2>1, <2>2 DEF Wakers
<1> QED
  BY <1>1, <1>2, <1>3, <1>4, <1>5 DEF Shapes

-----------------------------------------------------------------------------
(* The invariant holds.                                                    *)

LEMMA InitEstablishes == Init => IInv
<1> SUFFICES ASSUME Init PROVE IInv
  OBVIOUS
<1>1. closures = << >> /\ promises = << >> /\ stack = << >> /\ queue = << >> /\ cps = Deleted
  BY DEF Init
<1>2. Shapes
  <2> HIDE DEF Value, ClosureRecord, PromiseRecord, FrameRecord, JobRecord
  <2> QED
    BY <1>1, ValueShapes DEF Shapes
<1>3. /\ \A i \in DOMAIN closures : FALSE
      /\ \A i \in DOMAIN promises : FALSE
      /\ \A i \in DOMAIN stack : FALSE
      /\ \A i \in DOMAIN queue : FALSE
  BY <1>1
<1>4. References /\ Frames /\ RunsOnce /\ Wakers /\ Settled
  BY <1>3 DEF References, Frames, RunsOnce, Wakers, Settled
<1>5. CallbackOfCaller
  BY <1>1 DEF CallbackOfCaller, Idle
<1> QED
  BY <1>2, <1>4, <1>5 DEF IInv

LEMMA NextPreserves == IInv /\ [Next]_vars => IInv'
<1> SUFFICES ASSUME IInv, [Next]_vars PROVE IInv'
  OBVIOUS
<1>1. CASE JSCallsAsync
  <2>1. PICK call \in JSCalls : JSRuns /\ CallAsync(call, Calling(call), CpsFor(call))
    BY <1>1 DEF JSCallsAsync
  <2>2. Calling(call) = closures
    BY <2>1, CallingPoisonsAgain
  <2>3. CallAsync(call, closures, CpsFor(call))
    BY <2>1, <2>2
  <2> QED
    BY <2>1, <2>3, CallAsyncPreserves
<1>2. CASE JSCallsOther
  <2>1. PICK call \in JSCalls, kind \in {"plain", "host"} :
            /\ closures' = Calling(call) /\ cps' = CpsFor(call)
            /\ Enter(Frame(kind, 0, Undefined, call))
    BY <1>2 DEF JSCallsOther
  <2>2. JSRuns /\ UNCHANGED <<promises, queue>>
    BY <1>2 DEF JSCallsOther
  <2>3. UNCHANGED closures
    BY <2>1, <2>2, CallingPoisonsAgain
  <2> QED
    BY <2>1, <2>2, <2>3, OtherCallPreserves
<1>3. CASE NewPromise
  BY <1>3, NewPromisePreserves
<1>4. CASE AwaitPromise
  <2>1. PICK p \in VisiblePromises : Await(Promise(p))
    BY <1>4 DEF AwaitPromise
  <2>2. ~ Idle /\ Top.operand = Nothing /\ Top.kind = "async"
    BY <1>4 DEF AwaitPromise, JSRuns
  <2>3. IsPromise(Promise(p))
    BY <2>1 DEF VisiblePromises, IsPromise
  <2> QED
    BY <2>1, <2>2, <2>3, AwaitPreserves
<1>5. CASE AwaitCallee
  <2>1. ~ Idle /\ Top.operand # Nothing /\ Await(Top.operand)
    BY <1>5 DEF AwaitCallee
  <2>2. Top.kind = "async"
    BY <2>1, ShapesOpen DEF IInv, Frames, FrameFits, Top
  <2>3. PICK v : v = Top.operand
    OBVIOUS
  <2> QED
    BY <2>1, <2>2, <2>3, AwaitPreserves
<1>6. ASSUME NEW how \in {"resolved", "rejected"}, Complete(how) PROVE IInv'
  BY <1>6, CompletePreserves
<1>7. CASE PlainReturns \/ HostReturns
  BY <1>7, PlainReturnPreserves
<1>8. CASE Throw
  BY <1>8, ThrowPreserves
<1>9. CASE RunJob
  BY <1>9, RunJobPreserves
<1>10. CASE HostCalls
  <2>1. CASE CallAsync("host", closures, Undefined)
    BY <1>10, <2>1, CallAsyncPreserves DEF HostCalls
  <2>2. ASSUME NEW kind \in {"plain", "host"}, Enter(Frame(kind, 0, Undefined, "host")),
               cps' = Undefined, UNCHANGED <<closures, promises, queue, outcome>>
        PROVE  IInv'
    BY <1>10, <2>2, OtherCallPreserves DEF HostCalls
  <2> QED
    BY <1>10, <2>1, <2>2 DEF HostCalls
<1>11. CASE HostAsyncStart
  BY <1>11, HostAsyncStartPreserves
<1>12. ASSUME NEW c \in DOMAIN closures, NEW how \in Completers(c), Settle(c, how) PROVE IInv'
  <2>1. how \in {"resolved", "rejected"} /\ closures[c].kind # "async"
    <3>1. closures[c].kind \in {"async", "host", "resolve", "reject"}
      BY ShapesOpen DEF IInv, ClosureRecord
    <3> QED
      BY <3>1 DEF Completers
  <2> QED
    BY <1>12, <2>1, SettlePreserves
<1>13. CASE Collect
  BY <1>13, CollectPreserves
<1>14. CASE UNCHANGED vars
  <2>1. closures' = closures /\ promises' = promises /\ stack' = stack /\ queue' = queue /\ cps' = cps
    BY <1>14 DEF vars
  <2>2. Shapes'
    BY <2>1 DEF IInv, Shapes
  <2>3. References'
    BY <2>1 DEF IInv, References, SlotsFit, OutFits, IsAsync, IsPromise
  <2>4. Frames'
    BY <2>1 DEF IInv, Frames, FrameFits, IsAsync, IsPromise
  <2>5. RunsOnce'
    BY <2>1 DEF IInv, RunsOnce, OnStack
  <2>6. \A a : WakersOf(a)' = WakersOf(a)
    BY <2>1 DEF WakersOf
  <2>7. \A i \in DOMAIN stack : Waiting(i)' <=> Waiting(i)
    BY <2>1 DEF Waiting
  <2>8. Wakers'
    BY <2>1, <2>6, <2>7 DEF IInv, Wakers
  <2>9. \A c : OpOf(c)' = OpOf(c)
    BY <2>1 DEF OpOf
  <2>10. Settled'
    BY <2>1, <2>9 DEF IInv, Settled
  <2>11. CallbackOfCaller'
    BY <2>1 DEF IInv, CallbackOfCaller, Top, Idle
  <2> QED
    BY <2>2, <2>3, <2>4, <2>5, <2>8, <2>10, <2>11 DEF IInv
<1> QED
  BY <1>1, <1>2, <1>3, <1>4, <1>5, <1>6, <1>7, <1>8, <1>9, <1>10, <1>11, <1>12, <1>13, <1>14 DEF Next

(* The invariant is inductive: it holds whatever the bounds are, and        *)
(* whether or not programs are careful.                                     *)
THEOREM InvariantHolds == Spec => []IInv
BY InitEstablishes, NextPreserves, PTL DEF Spec

(* SUB_AWAIT, mvm_subscribeToPromise and SUB_ASYNC_COMPLETE neither lose     *)
(* nor double a wake-up: a suspended function has exactly one.               *)
THEOREM WakeUpsAreExact == Spec => []ExactlyOneWakeUp
<1>1. IInv => ExactlyOneWakeUp
  <2> SUFFICES ASSUME IInv, NEW c \in DOMAIN closures, closures[c].kind = "async",
                      NEW S, S = WakersOf(c), NEW n, n = Cardinality(S)
               PROVE  CASE IsSuspended(c) -> n = 1
                        [] closures[c].cont = NoOp -> n = 0
                        [] OTHER -> n <= 1
    BY DEF ExactlyOneWakeUp
  <2>1. /\ \A x, y \in S : x = y
        /\ closures[c].cont = Resume => S # {}
        /\ closures[c].cont = NoOp => S = {}
        /\ closures[c].cont \in {Deleted, Resume, NoOp}
        /\ closures[c].cont = Deleted <=> OnStack(c)
    BY DEF IInv, Wakers, References, SlotsFit, RunsOnce
  <2>2. (S = {} /\ n = 0) \/ (S # {} /\ n = 1)
    <3>1. CASE S = {}
      BY <3>1, FS_EmptySet
    <3>2. ASSUME NEW x \in S PROVE S = {x} /\ n = 1
      <4>1. S = {x}
        BY <2>1, <3>2
      <4> QED
        BY <4>1, FS_Singleton
    <3> QED
      BY <3>1, <3>2
  <2>3. CASE IsSuspended(c)
    <3>1. S # {} /\ closures[c].cont # NoOp
      BY <2>1, <2>3 DEF IsSuspended
    <3> QED
      BY <2>2, <2>3, <3>1
  <2>4. CASE ~ IsSuspended(c) /\ closures[c].cont = NoOp
    BY <2>1, <2>2, <2>4
  <2>5. CASE ~ IsSuspended(c) /\ closures[c].cont # NoOp
    BY <2>2, <2>5
  <2> QED
    BY <2>3, <2>4, <2>5
<1> QED
  BY <1>1, InvariantHolds, PTL

(* Whatever job the loop takes next, its continuation is a resume point.    *)
THEOREM JobsResumeFunctions == Spec => []ContinuationsAreArmed
<1>1. IInv => ContinuationsAreArmed
  <2> SUFFICES ASSUME IInv, Idle, NEW i \in DOMAIN queue, NEW c, c = queue[i].continuation
               PROVE  closures[c].cont = Resume
    BY DEF ContinuationsAreArmed
  <2>1. c \in DOMAIN closures /\ closures[c].kind = "async" /\ closures[c].cont \in {Deleted, Resume, NoOp}
    BY DEF IInv, References, SlotsFit, IsAsync
  <2>2. <<"job", i>> \in WakersOf(c)
    BY WakerForms
  <2>3. closures[c].cont # NoOp
    BY <2>1, <2>2 DEF IInv, Wakers
  <2>4. ~ OnStack(c)
    BY DEF OnStack, Idle
  <2>5. closures[c].cont # Deleted
    BY <2>1, <2>4 DEF IInv, RunsOnce
  <2> QED
    BY <2>1, <2>3, <2>5
<1> QED
  BY <1>1, InvariantHolds, PTL

-----------------------------------------------------------------------------
(* Who settles a promise.                                                  *)

(* What completes settles a pending promise, unless its twin was first.    *)
LEMMA CompletionSettles ==
    ASSUME IInv, NEW c \in DOMAIN closures, closures[c].cont # NoOp, NEW how, AsyncComplete(c, how),
           NEW p \in DOMAIN promises, promises[p].status # "pending", promises'[p] # promises[p]
    PROVE  \E b, d \in DOMAIN closures : RunsAfterTwin(b, d, p)
<1>cb. PICK cb : cb = closures[c].callback
  OBVIOUS
<1>1. cb = Promise(p)
  <2> SUFFICES ASSUME cb # Promise(p) PROVE promises'[p] = promises[p]
    OBVIOUS
  <2>1. CASE cb.is = "promise"
    <3>1. PICK q \in DOMAIN promises : cb = Promise(q)
      BY <2>1, <1>cb, ValueForms DEF IInv, References, SlotsFit, IsPromise
    <3>2. promises' = [promises EXCEPT ![q] = [status |-> how, out |-> Result(OpOf(c))]]
      <4>1. PromiseOf(cb) = q
        BY <3>1, ValueForms
      <4>2. promises' = IF cb.is = "promise"
                        THEN [promises EXCEPT ![PromiseOf(cb)] = [status |-> how, out |-> Result(OpOf(c))]]
                        ELSE promises
        BY <1>cb DEF AsyncComplete
      <4> QED
        BY <2>1, <4>1, <4>2
    <3> QED
      BY <3>1, <3>2
  <2>2. CASE cb.is # "promise"
    BY <2>2, <1>cb DEF AsyncComplete
  <2> QED
    BY <2>1, <2>2
<1>2. PICK d \in DOMAIN closures : closures[d].callback = Promise(p) /\ closures[d].cont = NoOp
  BY DEF IInv, Settled
<1>3. c # d /\ closures[c].callback = closures[d].callback /\ closures[c].callback.is = "promise"
  <2>1. Promise(p).is = "promise"
    BY ValueForms
  <2> QED
    BY <1>cb, <1>1, <1>2, <2>1
<1>4. {closures[c].kind, closures[d].kind} = {"resolve", "reject"}
  BY <1>2, <1>3 DEF IInv, Settled
<1>5. closures'[c].cont = NoOp
  <2>1. closures' = [closures EXCEPT ![c].cont = NoOp]
    BY DEF AsyncComplete, Disarmed
  <2>2. closures[c] \in ClosureRecord
    BY ShapesOpen DEF IInv
  <2>3. closures'[c] = [closures[c] EXCEPT !.cont = NoOp]
    BY <2>1
  <2>4. PICK n : n = NoOp
    OBVIOUS
  <2>5. [closures[c] EXCEPT !.cont = n].cont = n
    BY <2>2 DEF ClosureRecord
  <2> QED
    BY <2>3, <2>4, <2>5
<1> QED
  BY <1>cb, <1>1, <1>2, <1>4, <1>5 DEF RunsAfterTwin

(* Promises that are there keep their place when one is made.              *)
LEMMA StartKeepsPromises ==
    ASSUME Shapes, NEW cb, NEW void \in BOOLEAN, promises' = AsyncStartUnsafe(cb, void).promises,
           NEW p \in DOMAIN promises
    PROVE  promises'[p] = promises[p]
<1>1. PICK r : r = [status |-> "pending", out |-> Undefined]
  OBVIOUS
<1>2. promises' = promises \/ promises' = Append(promises, r)
  BY <1>1 DEF AsyncStartUnsafe
<1>3. r \in PromiseRecord
  <2>1. Undefined \in Value
    BY ValueShapes
  <2> HIDE DEF Value
  <2> QED
    BY <1>1, <2>1 DEF PromiseRecord
<1> HIDE DEF PromiseRecord
<1>4. CASE promises' = Append(promises, r)
  BY <1>3, <1>4, AppendProperties, ShapesOpen DEF Shapes
<1> QED
  BY <1>2, <1>4

LEMMA StepsSettleAgain ==
    ASSUME IInv, Next, NEW p \in DOMAIN promises, promises[p].status # "pending",
           promises'[p] # promises[p]
    PROVE  \E c, d \in DOMAIN closures : RunsAfterTwin(c, d, p)
<1>1. ASSUME NEW call, NEW cs, NEW cb, CallAsync(call, cs, cb) PROVE promises'[p] = promises[p]
  <2>1. promises' = AsyncStartUnsafe(cb, call = "void").promises /\ (call = "void") \in BOOLEAN
    BY <1>1 DEF CallAsync
  <2>2. PICK void \in BOOLEAN : void = (call = "void")
    BY <2>1
  <2> QED
    BY <2>1, <2>2, StartKeepsPromises DEF IInv
<1>2. ASSUME NEW q, NEW c, SubscribeToPromise(q, c) PROVE promises'[p] = promises[p]
  BY <1>2 DEF SubscribeToPromise
<1>3. ASSUME NEW v, Await(v) PROVE promises'[p] = promises[p]
  BY <1>2, <1>3 DEF Await
<1>4. CASE JSCallsAsync
  BY <1>1, <1>4 DEF JSCallsAsync
<1>5. CASE NewPromise
  <2>1. PICK r : r = [status |-> "pending", out |-> Undefined]
    OBVIOUS
  <2>2. promises' = Append(promises, r)
    BY <1>5, <2>1 DEF NewPromise
  <2>3. r \in PromiseRecord
    <3>1. Undefined \in Value
      BY ValueShapes
    <3> HIDE DEF Value
    <3> QED
      BY <2>1, <3>1 DEF PromiseRecord
  <2> HIDE DEF PromiseRecord
  <2> QED
    BY <2>2, <2>3, AppendProperties, ShapesOpen DEF IInv, Shapes
<1>6. CASE AwaitPromise
  BY <1>3, <1>6 DEF AwaitPromise
<1>7. CASE AwaitCallee
  BY <1>3, <1>7 DEF AwaitCallee
<1>8. ASSUME NEW how \in {"resolved", "rejected"}, Complete(how)
      PROVE  \E b, d \in DOMAIN closures : RunsAfterTwin(b, d, p)
  <2>1. PICK t : t = Top.closure
    OBVIOUS
  <2>2. ~ Idle /\ Top.kind = "async" /\ AsyncComplete(t, how)
    BY <1>8, <2>1 DEF Complete, JSRuns
  <2>3. IsAsync(t) /\ OnStack(t)
    BY <2>1, <2>2, ShapesOpen DEF IInv, Frames, FrameFits, OnStack, Top
  <2>4. t \in DOMAIN closures /\ closures[t].kind = "async" /\ closures[t].cont # NoOp
    BY <2>3, ValueForms DEF IInv, RunsOnce, IsAsync
  <2> QED
    BY <2>2, <2>4, CompletionSettles
<1>9. CASE HostCalls
  BY <1>1, <1>9 DEF HostCalls
<1>10. CASE HostAsyncStart
  <2>1. promises' = AsyncStartUnsafe(cps, Top.call = "void").promises
    BY <1>10 DEF HostAsyncStart
  <2>2. PICK void \in BOOLEAN : void = (Top.call = "void")
    OBVIOUS
  <2>3. PICK cb : cb = cps
    OBVIOUS
  <2> QED
    BY <2>1, <2>2, <2>3, StartKeepsPromises DEF IInv
<1>11. ASSUME NEW c \in DOMAIN closures, NEW how \in Completers(c), Settle(c, how)
       PROVE  \E b, d \in DOMAIN closures : RunsAfterTwin(b, d, p)
  <2>1. closures[c].cont # NoOp /\ AsyncComplete(c, how)
    BY <1>11 DEF Settle
  <2> QED
    BY <2>1, CompletionSettles
<1>12. CASE JSCallsOther \/ PlainReturns \/ Throw \/ RunJob \/ HostReturns \/ Collect
  BY <1>12 DEF JSCallsOther, PlainReturns, Throw, RunJob, HostReturns, Collect
<1> QED
  BY <1>4, <1>5, <1>6, <1>7, <1>8, <1>9, <1>10, <1>11, <1>12 DEF Next

(* Line 2381 asserts that a promise is pending when it is settled.  That    *)
(* holds of every completion, by any program and host, but for that of a    *)
(* function whose twin has run before it.                                   *)
THEOREM OnlyTwinsSettleAgain == Spec => OnlyTwinSettlesAgain
<1>1. IInv /\ [Next]_vars =>
        [\A p \in DOMAIN promises :
            promises[p].status # "pending" /\ promises'[p] # promises[p] =>
                \E c, d \in DOMAIN closures : RunsAfterTwin(c, d, p)]_vars
  BY StepsSettleAgain
<1> QED
  BY <1>1, InvariantHolds, PTL DEF Spec, OnlyTwinSettlesAgain

-----------------------------------------------------------------------------
(***************************************************************************)
(* Async implements AsyncOps: each step of the engine is a step of the     *)
(* operations or leaves them unchanged.  First, what the operations are    *)
(* beside IInv.                                                            *)
(***************************************************************************)

\* The history says of an operation that it completed as soon as one of its closures has run.
Outcomes ==
    /\ Len(closures) <= MaxClosures
    /\ outcome \in [Op -> {"none", "resolved", "rejected"}]
    /\ \A o \in Op :
        outcome[o] # "none" <=> \E d \in DOMAIN closures : OpOf(d) = o /\ closures[d].cont = NoOp

\* resolve and reject stand side by side and settle the same promise.
PairFits(c) ==
    /\ closures[c].kind \in {"resolve", "reject"} => IsPromise(closures[c].callback)
    /\ closures[c].kind = "reject" =>
        /\ c - 1 \in DOMAIN closures /\ closures[c - 1].kind = "resolve"
        /\ closures[c - 1].callback = closures[c].callback
    /\ closures[c].kind = "resolve" => c + 1 \in DOMAIN closures /\ closures[c + 1].kind = "reject"
Pairs == \A c \in DOMAIN closures : PairFits(c)

\* A promise tells the outcome of the operation whose callback it is.
Tells(p, c) ==
    /\ closures[c].kind # "reject" /\ closures[c].callback = Promise(p)
    /\ outcome[c] = "none" => promises[p].status = "pending"
    /\ outcome[c] # "none" => promises[p].status = outcome[c] /\ promises[p].out = Result(c)

Owners == \A p \in DOMAIN promises : \E c \in DOMAIN closures : Tells(p, c)

Owned == Outcomes /\ Pairs /\ Owners

-----------------------------------------------------------------------------
(* The variables of AsyncOps.                                              *)

Stage(o) ==
    IF o \notin DOMAIN closures \/ closures[o].kind = "reject" THEN "none"
    ELSE IF outcome[o] # "none" THEN "done"
    ELSE IF closures[o].cont = Resume THEN "suspended" ELSE "running"

WaitersOf(o) == IF Stage(o) \in {"running", "suspended"} THEN ToSchedule(o) ELSE << >>

ReadyOf(j) == [op |-> j.continuation, from |-> j.result.of[1], how |-> j.how]
Ready(q) == [i \in DOMAIN q |-> ReadyOf(q[i])]

(* A function on the stack is not suspended, and no other is poisoned.     *)
LEMMA Phases == IInv => \A o : PhaseOf(o) = Stage(o)
<1> SUFFICES ASSUME IInv, NEW o PROVE PhaseOf(o) = Stage(o)
  OBVIOUS
<1>1. CASE o \notin DOMAIN closures
  BY <1>1 DEF PhaseOf, Stage
<1>2. CASE o \in DOMAIN closures /\ closures[o].kind = "reject"
  BY <1>2 DEF PhaseOf, Stage
<1>3. CASE o \in DOMAIN closures /\ closures[o].kind # "reject"
  <2>1. IsSuspended(o) <=> closures[o].cont = Resume
    <3>1. SlotsFit(o)
      BY <1>3 DEF IInv, References
    <3>2. CASE closures[o].kind = "async"
      <4>1. closures[o].cont = Deleted <=> OnStack(o)
        BY <1>3, <3>2 DEF IInv, RunsOnce
      <4> QED
        BY <1>3, <3>1, <3>2, <4>1, ValueForms DEF SlotsFit, IsSuspended, IsAsync
    <3>3. CASE closures[o].kind # "async"
      BY <3>1, <3>3, ValueForms DEF SlotsFit, IsSuspended, IsAsync
    <3> QED
      BY <3>2, <3>3
  <2> QED
    BY <1>3, <2>1 DEF PhaseOf, Stage
<1> QED
  BY <1>1, <1>2, <1>3

LEMMA Mapping ==
    ASSUME IInv
    PROVE  /\ [o \in Op |-> PhaseOf(o)] = [o \in Op |-> Stage(o)]
           /\ [o \in Op |-> IF PhaseOf(o) \in {"running", "suspended"} THEN ToSchedule(o) ELSE << >>]
                = [o \in Op |-> WaitersOf(o)]
           /\ [i \in DOMAIN queue |-> [op |-> queue[i].continuation, from |-> queue[i].result.of[1],
                                       how |-> queue[i].how]] = Ready(queue)
BY Phases DEF WaitersOf, Ready, ReadyOf

LEMMA MappingNext ==
    ASSUME IInv'
    PROVE  /\ [o \in Op |-> PhaseOf(o)]' = [o \in Op |-> Stage(o)']
           /\ [o \in Op |-> IF PhaseOf(o) \in {"running", "suspended"} THEN ToSchedule(o) ELSE << >>]'
                = [o \in Op |-> WaitersOf(o)']
           /\ [i \in DOMAIN queue |-> [op |-> queue[i].continuation, from |-> queue[i].result.of[1],
                                       how |-> queue[i].how]]' = Ready(queue')
<1>1. (IInv => \A o : PhaseOf(o) = Stage(o))'
  BY Phases, PTL
<1>2. \A o : PhaseOf(o)' = Stage(o)'
  BY <1>1
<1> QED
  BY <1>2 DEF WaitersOf, Ready, ReadyOf

(* A function waits for an operation in AsyncOps when some place will wake *)
(* it up here.                                                             *)
WaitsHere(a) == (\E o \in Op : a \in ToSet(WaitersOf(o))) \/ \E i \in DOMAIN queue : queue[i].continuation = a

LEMMA WaitsMapped ==
    ASSUME IInv, NEW a
    PROVE  Operations!Waits(a) <=> WaitsHere(a)
<1>1. \A o \in Op : WaitersOf(o) = [x \in Op |-> IF PhaseOf(x) \in {"running", "suspended"}
                                               THEN ToSchedule(x) ELSE << >>][o]
  BY Phases DEF WaitersOf
<1>2. ASSUME NEW s PROVE ToSet(s) = Operations!ToSet(s)
  BY DEF ToSet, Operations!ToSet
<1>3. (\E o \in Op : a \in ToSet(WaitersOf(o))) <=>
        \E o \in Op : a \in Operations!ToSet([x \in Op |-> IF PhaseOf(x) \in {"running", "suspended"}
                                                         THEN ToSchedule(x) ELSE << >>][o])
  BY <1>1, <1>2
<1> QED
  BY <1>3 DEF Operations!Waits, WaitsHere

(* The operations of AsyncOps, seen from here.                             *)
LEMMA BeginMapped ==
    ASSUME IInv, IInv', NEW o \in Op, Stage(o) = "none", NEW ws,
           ws = << >> \/ \E b \in Op : ws = <<b>> /\ Stage(b) = "running" /\ ~ WaitsHere(b),
           \A x \in Op : Stage(x)' = IF x = o THEN "running" ELSE Stage(x),
           \A x \in Op : WaitersOf(x)' = IF x = o THEN ws ELSE WaitersOf(x),
           OpenPromises' = OpenPromises \/ (ws = << >> /\ OpenPromises' = OpenPromises \cup {o}),
           UNCHANGED <<queue, outcome>>
    PROVE  Operations!Next
<1>1. Operations!Begin(o, ws)
  <2>1. ws = << >> \/ \E b \in Op : ws = <<b>> /\ Stage(b) = "running" /\ ~ Operations!Waits(b)
    BY WaitsMapped
  <2>2. [x \in Op |-> Stage(x)'] = [[x \in Op |-> Stage(x)] EXCEPT ![o] = "running"]
    OBVIOUS
  <2>3. [x \in Op |-> WaitersOf(x)'] = [[x \in Op |-> WaitersOf(x)] EXCEPT ![o] = ws]
    OBVIOUS
  <2>4. Ready(queue') = Ready(queue)
    OBVIOUS
  <2>5. [x \in Op |-> Stage(x)][o] = "none" /\ \A b \in Op : [x \in Op |-> Stage(x)][b] = Stage(b)
    OBVIOUS
  <2>6. ws \in {<< >>} \cup {<<a>> : a \in {b \in Op : [x \in Op |-> PhaseOf(x)][b] = "running" /\ ~ Operations!Waits(b)}}
    BY <2>1, Phases
  <2> QED
    BY <2>2, <2>3, <2>4, <2>5, <2>6, Mapping, MappingNext DEF Operations!Begin
<1>2. ws \in {<< >>} \cup {<<a>> : a \in Op}
  OBVIOUS
<1> QED
  BY <1>1, <1>2 DEF Operations!Next

LEMMA SuspendMapped ==
    ASSUME IInv, IInv', NEW a \in Op, Stage(a) = "running", WaitsHere(a),
           \A x \in Op : Stage(x)' = IF x = a THEN "suspended" ELSE Stage(x),
           \A x \in Op : WaitersOf(x)' = WaitersOf(x),
           UNCHANGED <<queue, outcome, OpenPromises>>
    PROVE  Operations!Next
<1>1. Operations!Suspend(a)
  <2>1. [x \in Op |-> Stage(x)'] = [[x \in Op |-> Stage(x)] EXCEPT ![a] = "suspended"]
    OBVIOUS
  <2>2. [x \in Op |-> WaitersOf(x)'] = [x \in Op |-> WaitersOf(x)]
    OBVIOUS
  <2>3. Ready(queue') = Ready(queue)
    OBVIOUS
  <2> QED
    BY <2>1, <2>2, <2>3, WaitsMapped, Mapping, MappingNext DEF Operations!Suspend
<1> QED
  BY <1>1 DEF Operations!Next

LEMMA AwaitMapped ==
    ASSUME IInv, IInv', NEW a \in Op, NEW o \in Op,
           Stage(a) = "running", ~ WaitsHere(a), Stage(o) # "none",
           \A x \in Op : Stage(x)' = IF x = a THEN "suspended" ELSE Stage(x),
           Stage(o) = "done" =>
                /\ Ready(queue') = Append(Ready(queue), [op |-> a, from |-> o, how |-> outcome[o]])
                /\ \A x \in Op : WaitersOf(x)' = WaitersOf(x),
           Stage(o) # "done" =>
                /\ UNCHANGED queue
                /\ \A x \in Op : WaitersOf(x)' = IF x = o THEN Append(WaitersOf(x), a) ELSE WaitersOf(x),
           UNCHANGED <<outcome, OpenPromises>>
    PROVE  Operations!Next
<1>1. Operations!Await(a, o)
  <2>1. [x \in Op |-> Stage(x)'] = [[x \in Op |-> Stage(x)] EXCEPT ![a] = "suspended"]
    OBVIOUS
  <2>2. CASE Stage(o) = "done"
    <3>1. [x \in Op |-> WaitersOf(x)'] = [x \in Op |-> WaitersOf(x)]
      BY <2>2
    <3> QED
      BY <2>1, <2>2, <3>1, WaitsMapped, Mapping, MappingNext DEF Operations!Await
  <2>3. CASE Stage(o) # "done"
    <3>1. [x \in Op |-> WaitersOf(x)']
            = [[x \in Op |-> WaitersOf(x)] EXCEPT ![o] = Append([x \in Op |-> WaitersOf(x)][o], a)]
      BY <2>3
    <3>2. Ready(queue') = Ready(queue)
      BY <2>3
    <3> QED
      BY <2>1, <2>3, <3>1, <3>2, WaitsMapped, Mapping, MappingNext DEF Operations!Await
  <2> QED
    BY <2>2, <2>3
<1> QED
  BY <1>1 DEF Operations!Next

LEMMA CompleteMapped ==
    ASSUME IInv, IInv', NEW o \in Op, NEW how \in {"resolved", "rejected"},
           Stage(o) = "running", ~ WaitsHere(o),
           \A x \in Op : Stage(x)' = IF x = o THEN "done" ELSE Stage(x),
           \A x \in Op : WaitersOf(x)' = IF x = o THEN << >> ELSE WaitersOf(x),
           Ready(queue') = Ready(queue)
                \o [i \in DOMAIN WaitersOf(o) |-> [op |-> WaitersOf(o)[i], from |-> o, how |-> how]],
           outcome' = [outcome EXCEPT ![o] = how], UNCHANGED OpenPromises
    PROVE  Operations!Next
<1>1. Operations!Complete(o, how)
  <2>1. [x \in Op |-> Stage(x)'] = [[x \in Op |-> Stage(x)] EXCEPT ![o] = "done"]
    OBVIOUS
  <2>2. [x \in Op |-> WaitersOf(x)'] = [[x \in Op |-> WaitersOf(x)] EXCEPT ![o] = << >>]
    OBVIOUS
  <2>3. [x \in Op |-> WaitersOf(x)][o] = WaitersOf(o)
    OBVIOUS
  <2> QED
    BY <2>1, <2>2, <2>3, WaitsMapped, Mapping, MappingNext DEF Operations!Complete
<1> QED
  BY <1>1 DEF Operations!Next

LEMMA SettleAgainMapped ==
    ASSUME IInv, IInv', NEW o \in Op, NEW how \in {"resolved", "rejected"},
           Stage(o) = "done", o \in OpenPromises, OpenPromises' = OpenPromises \ {o},
           \A x \in Op : Stage(x)' = Stage(x) /\ WaitersOf(x)' = WaitersOf(x),
           Ready(queue') = Ready(queue),
           outcome' = [outcome EXCEPT ![o] = how]
    PROVE  Operations!Next
<1>1. Operations!SettleAgain(o, how)
  <2>1. [x \in Op |-> Stage(x)'] = [x \in Op |-> Stage(x)]
    OBVIOUS
  <2>2. [x \in Op |-> WaitersOf(x)'] = [x \in Op |-> WaitersOf(x)]
    OBVIOUS
  <2>3. [x \in Op |-> Stage(x)][o] = "done"
    OBVIOUS
  <2> QED
    BY <2>1, <2>2, <2>3, Mapping, MappingNext DEF Operations!SettleAgain
<1> QED
  BY <1>1 DEF Operations!Next

LEMMA ResumeMapped ==
    ASSUME IInv, IInv', queue # << >>, NEW c \in Op, c = Head(queue).continuation, Stage(c) = "suspended",
           \A x \in Op : Stage(x)' = IF x = c THEN "running" ELSE Stage(x),
           \A x \in Op : WaitersOf(x)' = WaitersOf(x),
           queue' = Tail(queue), UNCHANGED <<outcome, OpenPromises>>
    PROVE  Operations!Next
<1>1. /\ Ready(queue) # << >> /\ Head(Ready(queue)).op = c
      /\ Ready(queue') = Tail(Ready(queue))
  <2>1. queue \in Seq(JobRecord) /\ Len(queue) \in Nat \ {0} /\ DOMAIN queue = 1 .. Len(queue)
    <3> HIDE DEF JobRecord
    <3> QED
      BY ShapesOpen DEF IInv, Shapes
  <2> QED
    BY <2>1 DEF Ready, ReadyOf
<1>2. Operations!Resume
  <2>1. [x \in Op |-> Stage(x)'] = [[x \in Op |-> Stage(x)] EXCEPT ![c] = "running"]
    OBVIOUS
  <2>2. [x \in Op |-> WaitersOf(x)'] = [x \in Op |-> WaitersOf(x)]
    OBVIOUS
  <2>3. [x \in Op |-> Stage(x)][c] = "suspended"
    OBVIOUS
  <2> QED
    BY <1>1, <2>1, <2>2, <2>3, Mapping, MappingNext DEF Operations!Resume
<1> QED
  BY <1>2 DEF Operations!Next

LEMMA StutterMapped ==
    ASSUME IInv, IInv', \A x \in Op : Stage(x)' = Stage(x) /\ WaitersOf(x)' = WaitersOf(x),
           UNCHANGED <<queue, outcome, OpenPromises>>
    PROVE  UNCHANGED Operations!vars
<1>1. [x \in Op |-> Stage(x)'] = [x \in Op |-> Stage(x)]
  OBVIOUS
<1>2. [x \in Op |-> WaitersOf(x)'] = [x \in Op |-> WaitersOf(x)]
  OBVIOUS
<1>3. Ready(queue') = Ready(queue)
  OBVIOUS
<1> QED
  BY <1>1, <1>2, <1>3, Mapping, MappingNext DEF Operations!vars

-----------------------------------------------------------------------------
(* Operations and their closures.                                          *)

(* Only reject is a second closure of its operation.                       *)
LEMMA OperationOf ==
    ASSUME Shapes, Pairs, NEW c \in DOMAIN closures
    PROVE  /\ OpOf(c) \in DOMAIN closures /\ OpOf(c) \in Nat /\ closures[OpOf(c)].kind # "reject"
           /\ closures[c].kind # "reject" => OpOf(c) = c
           /\ closures[c].kind = "reject" => OpOf(c) = c - 1 /\ closures[OpOf(c)].kind = "resolve"
           /\ closures[OpOf(c)].callback = closures[c].callback
BY ShapesOpen DEF Pairs, PairFits, OpOf

LEMMA Twins ==
    ASSUME Shapes, Pairs, NEW c \in DOMAIN closures
    PROVE  /\ closures[c].kind = "resolve" =>
                /\ c + 1 \in DOMAIN closures /\ c + 1 # c /\ OpOf(c) = c /\ OpOf(c + 1) = c
                /\ \A d \in DOMAIN closures : OpOf(d) = c => d \in {c, c + 1}
           /\ closures[c].kind \in {"async", "host"} =>
                \A d \in DOMAIN closures : OpOf(d) = c => d = c
<1>1. c \in Nat /\ \A d \in DOMAIN closures : d \in Nat
  BY ShapesOpen
<1>2. ASSUME NEW d \in DOMAIN closures, OpOf(d) = c PROVE d = c \/ (d = c + 1 /\ closures[c].kind = "resolve")
  BY <1>1, <1>2, OperationOf
<1> QED
  BY <1>1, <1>2 DEF Pairs, PairFits, OpOf

LEMMA OperationsAreOps ==
    ASSUME Shapes, Owned
    PROVE  DOMAIN closures \subseteq Op
BY ShapesOpen, BoundsAssumption DEF Owned, Outcomes, Op

(* A function or a callback of the host is done when its only closure is.  *)
LEMMA OwnOutcome ==
    ASSUME Shapes, Owned, NEW c \in DOMAIN closures, closures[c].kind \in {"async", "host"}
    PROVE  outcome[c] # "none" <=> closures[c].cont = NoOp
<1>1. \A d \in DOMAIN closures : OpOf(d) = c <=> d = c
  <2> SUFFICES ASSUME NEW d \in DOMAIN closures PROVE OpOf(d) = c <=> d = c
    OBVIOUS
  <2> QED
    BY OperationOf DEF Owned
<1>2. c \in Op
  BY OperationsAreOps
<1> QED
  BY <1>1, <1>2 DEF Owned, Outcomes

(* Whoever is subscribed or is a callback waits, and nobody else.          *)
LEMMA WaitsForAWaker ==
    ASSUME IInv, Owned, NEW a
    PROVE  WaitsHere(a) <=> WakersOf(a) # {}
<1>1. ASSUME NEW i \in DOMAIN queue, queue[i].continuation = a PROVE WakersOf(a) # {}
  BY <1>1, WakerForms
<1>2. ASSUME NEW o \in Op, a \in ToSet(WaitersOf(o)) PROVE WakersOf(a) # {}
  <2>1. /\ o \in DOMAIN closures /\ closures[o].kind # "reject" /\ outcome[o] = "none"
        /\ a \in ToSet(ToSchedule(o))
    BY <1>2 DEF WaitersOf, Stage, ToSet
  <2>2. SlotsFit(o) /\ closures[o].cont # NoOp
    <3>1. OpOf(o) = o
      BY <2>1 DEF OpOf
    <3> QED
      BY <2>1, <3>1 DEF IInv, References, Owned, Outcomes
  <2>3. CASE closures[o].callback = NoOp
    BY <2>1, <2>3, ValueForms DEF ToSchedule, ToSet
  <2>4. ASSUME NEW p \in DOMAIN promises, closures[o].callback = Promise(p) PROVE WakersOf(a) # {}
    <3>1. ToSchedule(o) = Subscribers(promises[p].out)
      BY <2>4, ValueForms DEF ToSchedule
    <3>2. PICK i \in DOMAIN Subscribers(promises[p].out) : Subscribers(promises[p].out)[i] = a
      BY <2>1, <3>1 DEF ToSet
    <3>3. <<"promise", p, i>> \in WakersOf(a)
      BY <3>2, WakerForms
    <3> QED
      BY <3>3
  <2>5. ASSUME NEW b, closures[o].callback = Closure(b) PROVE WakersOf(a) # {}
    <3>1. ToSchedule(o) = <<b>>
      BY <2>5, ValueForms DEF ToSchedule
    <3>2. a = b
      BY <2>1, <3>1 DEF ToSet
    <3>3. <<"callback", o>> \in WakersOf(a)
      BY <2>1, <2>2, <2>5, <3>2, WakerForms
    <3> QED
      BY <3>3
  <2> QED
    BY <2>2, <2>3, <2>4, <2>5 DEF SlotsFit, IsPromise
<1>3. ASSUME NEW d \in DOMAIN closures, closures[d].callback = Closure(a), closures[d].cont # NoOp
      PROVE  WaitsHere(a)
  <2>1. closures[d].kind \in {"async", "host"}
    <3>1. ~ IsPromise(closures[d].callback)
      BY <1>3, ValueForms DEF IsPromise
    <3>2. closures[d].kind \in {"async", "host", "resolve", "reject"}
      BY ShapesOpen DEF IInv, ClosureRecord
    <3> QED
      BY <3>1, <3>2 DEF Owned, Pairs, PairFits
  <2>2. outcome[d] = "none" /\ d \in Op
    BY <1>3, <2>1, OwnOutcome, OperationsAreOps DEF IInv
  <2>3. WaitersOf(d) = <<a>>
    <3>1. ToSchedule(d) = <<a>>
      BY <1>3, ValueForms DEF ToSchedule
    <3> QED
      BY <2>1, <2>2, <3>1 DEF WaitersOf, Stage
  <2>4. a \in ToSet(WaitersOf(d))
    BY <2>3 DEF ToSet
  <2> QED
    BY <2>2, <2>4 DEF WaitsHere
<1>4. ASSUME NEW p \in DOMAIN promises, NEW i \in DOMAIN Subscribers(promises[p].out),
             Subscribers(promises[p].out)[i] = a
      PROVE  WaitsHere(a)
  <2>1. PICK c \in DOMAIN closures : Tells(p, c)
    BY DEF Owned, Owners
  <2>2. outcome[c] = "none"
    <3>1. promises[p].out.is # "result"
      <4>1. promises[p].out.is \in {"closure", "array"}
        BY <1>4 DEF Subscribers
      <4> QED
        BY <4>1
    <3> QED
      BY <2>1, <3>1, ValueForms DEF Tells
  <2>3. WaitersOf(c) = Subscribers(promises[p].out)
    BY <2>1, <2>2, ValueForms DEF Tells, WaitersOf, Stage, ToSchedule
  <2>4. a \in ToSet(WaitersOf(c)) /\ c \in Op
    BY <1>4, <2>3, OperationsAreOps DEF ToSet, IInv
  <2> QED
    BY <2>4 DEF WaitsHere
<1> QED
  BY <1>1, <1>2, <1>3, <1>4, WakerForms DEF WaitsHere

-----------------------------------------------------------------------------
(* What keeps the operations in order.                                     *)

(* Closures and promises that are there do not change but for what they    *)
(* do next.                                                                *)
LEMMA OwnedStays ==
    ASSUME Shapes, Owned, DOMAIN closures' = DOMAIN closures, Len(closures') = Len(closures),
           \A c \in DOMAIN closures :
                /\ closures'[c].kind = closures[c].kind /\ closures'[c].callback = closures[c].callback
                /\ closures'[c].cont = NoOp <=> closures[c].cont = NoOp,
           DOMAIN promises' = DOMAIN promises,
           \A p \in DOMAIN promises :
                /\ promises'[p].status = promises[p].status
                /\ promises[p].status # "pending" => promises'[p] = promises[p],
           UNCHANGED outcome
    PROVE  Owned' /\ UNCHANGED OpenPromises
<1>1. \A c \in DOMAIN closures : OpOf(c)' = OpOf(c)
  BY DEF OpOf
<1>2. Outcomes'
  BY <1>1 DEF Owned, Outcomes, Op
<1>3. Pairs'
  BY DEF Owned, Pairs, PairFits, IsPromise
<1>4. Owners'
  <2> SUFFICES ASSUME NEW p \in DOMAIN promises PROVE \E c \in DOMAIN closures : Tells(p, c)'
    BY DEF Owners
  <2>1. PICK c \in DOMAIN closures : Tells(p, c)
    BY DEF Owned, Owners
  <2>2. outcome[c] # "none" => promises[p].status # "pending"
    <3>1. outcome[c] # "pending"
      BY OperationsAreOps DEF Owned, Outcomes
    <3> QED
      BY <2>1, <3>1 DEF Tells
  <2> QED
    BY <2>1, <2>2 DEF Tells
<1>5. UNCHANGED OpenPromises
  BY <1>1 DEF OpenPromises, IsOpen, Op
<1> QED
  BY <1>2, <1>3, <1>4, <1>5 DEF Owned

(* New closures and promises: a promise belongs to one of the closures that *)
(* are made with it.                                                       *)
LEMMA OwnedGrows ==
    ASSUME Shapes, Shapes', Owned, DOMAIN closures \subseteq DOMAIN closures', Len(closures') <= MaxClosures,
           \A c \in DOMAIN closures : closures'[c] = closures[c],
           \A c \in DOMAIN closures' \ DOMAIN closures : closures'[c].cont # NoOp,
           Pairs',
           \A p \in DOMAIN promises : promises'[p] = promises[p],
           \A p \in DOMAIN promises' \ DOMAIN promises :
                /\ promises'[p].status = "pending"
                /\ \E c \in DOMAIN closures' \ DOMAIN closures :
                        closures'[c].kind # "reject" /\ closures'[c].callback = Promise(p),
           UNCHANGED outcome
    PROVE  Owned' /\ \A o \in Op \ DOMAIN closures : outcome[o] = "none"
<1>1. \A c \in DOMAIN closures : OpOf(c)' = OpOf(c) /\ OpOf(c) \in DOMAIN closures
  BY OperationOf DEF OpOf, Owned
<1>2. Outcomes'
  BY <1>1 DEF Owned, Outcomes, Op
<1>3. \A o \in Op \ DOMAIN closures : outcome[o] = "none"
  BY <1>1 DEF Owned, Outcomes
<1>4. DOMAIN closures' \subseteq Op
  <2>1. DOMAIN closures' = 1 .. Len(closures') /\ Len(closures') \in Nat
    <3>1. (Shapes => DOMAIN closures = 1 .. Len(closures) /\ Len(closures) \in Nat)'
      BY ShapesOpen, PTL
    <3> QED
      BY <3>1
  <2> QED
    BY <2>1, BoundsAssumption DEF Op
<1>5. Owners'
  <2> SUFFICES ASSUME NEW p \in DOMAIN promises' PROVE \E c \in DOMAIN closures' : Tells(p, c)'
    BY DEF Owners
  <2>1. CASE p \in DOMAIN promises
    <3>1. PICK c \in DOMAIN closures : Tells(p, c)
      BY <2>1 DEF Owned, Owners
    <3> QED
      BY <2>1, <3>1 DEF Tells
  <2>2. CASE p \notin DOMAIN promises
    <3>1. PICK c \in DOMAIN closures' \ DOMAIN closures :
            closures'[c].kind # "reject" /\ closures'[c].callback = Promise(p)
      BY <2>2
    <3>2. outcome'[c] = "none"
      BY <1>3, <1>4
    <3> QED
      BY <2>2, <3>1, <3>2 DEF Tells
  <2> QED
    BY <2>1, <2>2
<1> QED
  BY <1>2, <1>3, <1>5 DEF Owned

(* What is created leaves the operations that are there alone.             *)
LEMMA OldOperationsStay ==
    ASSUME IInv, DOMAIN closures \subseteq DOMAIN closures',
           \A c \in DOMAIN closures : closures'[c] = closures[c],
           \A p \in DOMAIN promises : promises'[p] = promises[p],
           UNCHANGED outcome,
           NEW x \in DOMAIN closures
    PROVE  Stage(x)' = Stage(x) /\ WaitersOf(x)' = WaitersOf(x)
<1>1. Stage(x)' = Stage(x)
  BY DEF Stage
<1>2. ToSchedule(x)' = ToSchedule(x)
  <2>1. CASE IsPromise(closures[x].callback)
    <3>1. PICK p \in DOMAIN promises : closures[x].callback = Promise(p)
      BY <2>1 DEF IsPromise
    <3> QED
      BY <3>1, ValueForms DEF ToSchedule
  <2>2. CASE closures[x].callback.is # "promise"
    BY <2>2 DEF ToSchedule
  <2> QED
    BY <2>1, <2>2, ValueForms DEF IInv, References, SlotsFit
<1> QED
  BY <1>1, <1>2 DEF WaitersOf

LEMMA NewOperation ==
    ASSUME IInv, IInv', Owned, Len(closures) < MaxClosures, NEW f \in ClosureRecord,
           NEW m, m = Len(closures) + 1,
           closures' = Append(closures, f),
           f.kind \in {"async", "host"}, f.cont \in {Deleted, Undefined},
           UNCHANGED outcome,
           DOMAIN promises \subseteq DOMAIN promises',
           \A p \in DOMAIN promises : promises'[p] = promises[p],
           \A p \in DOMAIN promises' \ DOMAIN promises :
                promises'[p].status = "pending" /\ f.callback = Promise(p)
    PROVE  /\ Owned'
           /\ m \in Op /\ Stage(m) = "none"
           /\ \A x \in Op : Stage(x)' = IF x = m THEN "running" ELSE Stage(x)
           /\ \A x \in Op : x # m => WaitersOf(x)' = WaitersOf(x)
           /\ WaitersOf(m)' = ToSchedule(m)'
           /\ closures'[m] = f
           /\ UNCHANGED OpenPromises
<1>1. /\ DOMAIN closures = 1 .. m - 1 /\ DOMAIN closures' = 1 .. m /\ m \in Nat \ {0} /\ Len(closures') = m
      /\ \A c \in DOMAIN closures : closures'[c] = closures[c]
      /\ closures'[m] = f
  <2>1. closures \in Seq(ClosureRecord) /\ Len(closures) \in Nat /\ DOMAIN closures = 1 .. Len(closures)
    BY ShapesOpen DEF IInv, Shapes
  <2> HIDE DEF ClosureRecord
  <2> QED
    BY <2>1, AppendProperties
<1>2. f.cont # NoOp /\ f.cont # Resume
  BY ValueForms
<1>3. Pairs'
  <2>1. \A v : IsPromise(v) => IsPromise(v)'
    BY DEF IsPromise
  <2>2. \A c \in DOMAIN closures : c - 1 \in DOMAIN closures => c - 1 \in DOMAIN closures' /\ closures'[c - 1] = closures[c - 1]
    BY <1>1
  <2>c. \A c \in DOMAIN closures : c + 1 \in DOMAIN closures => c + 1 \in DOMAIN closures' /\ closures'[c + 1] = closures[c + 1]
    BY <1>1
  <2>3. ASSUME NEW c \in DOMAIN closures' PROVE PairFits(c)'
    <3>1. CASE c \in DOMAIN closures
      BY <1>1, <2>1, <2>2, <2>c, <3>1 DEF Owned, Pairs, PairFits
    <3>2. CASE c = m
      BY <1>1, <3>2 DEF PairFits
    <3> QED
      BY <1>1, <3>1, <3>2
  <2> QED
    BY <2>3 DEF Pairs
<1>4. \A c \in DOMAIN closures' \ DOMAIN closures : c = m
  BY <1>1
<1>5. m \in DOMAIN closures' \ DOMAIN closures /\ m <= MaxClosures
  BY <1>1, BoundsAssumption
<1>6. Shapes /\ Shapes' /\ DOMAIN closures \subseteq DOMAIN closures'
  BY <1>1 DEF IInv
<1>7. \A p \in DOMAIN promises' \ DOMAIN promises :
        /\ promises'[p].status = "pending"
        /\ \E c \in DOMAIN closures' \ DOMAIN closures :
                closures'[c].kind # "reject" /\ closures'[c].callback = Promise(p)
  BY <1>1, <1>5
<1>8. \A c \in DOMAIN closures' \ DOMAIN closures : closures'[c].cont # NoOp
  BY <1>1, <1>2, <1>4
<1>9. Owned' /\ \A o \in Op \ DOMAIN closures : outcome[o] = "none"
  BY <1>1, <1>3, <1>5, <1>6, <1>7, <1>8, OwnedGrows
<1>10. m \in Op /\ outcome[m] = "none"
  BY <1>1, <1>5, <1>9 DEF Op
<1>11. ASSUME NEW x \in Op, x # m PROVE Stage(x)' = Stage(x) /\ WaitersOf(x)' = WaitersOf(x)
  <2>1. CASE x \in DOMAIN closures
    BY <1>1, <1>6, <2>1, OldOperationsStay
  <2>2. CASE x \notin DOMAIN closures
    <3>1. x \notin DOMAIN closures'
      BY <1>1, <1>11, <2>2
    <3> QED
      BY <2>2, <3>1 DEF Stage, WaitersOf
  <2> QED
    BY <2>1, <2>2
<1>12. Stage(m) = "none" /\ Stage(m)' = "running"
  BY <1>1, <1>2, <1>10 DEF Stage
<1>13. WaitersOf(m)' = ToSchedule(m)'
  BY <1>12 DEF WaitersOf
<1>14. UNCHANGED OpenPromises
  <2> SUFFICES ASSUME NEW x \in Op PROVE IsOpen(x)' <=> IsOpen(x)
    BY DEF OpenPromises, Op
  <2>1. OpOf(m)' = m /\ \A d \in DOMAIN closures : OpOf(d)' = OpOf(d)
    BY <1>1 DEF OpOf
  <2>2. CASE x \in DOMAIN closures
    BY <1>1, <2>1, <2>2 DEF IsOpen
  <2>3. CASE x \notin DOMAIN closures
    BY <1>1, <2>3 DEF IsOpen
  <2> QED
    BY <2>2, <2>3
<1> QED
  BY <1>1, <1>9, <1>10, <1>11, <1>12, <1>13, <1>14

(* A call that finds the closure of its caller in the register is awaited  *)
(* from the start.                                                         *)
AwaitedBy(cb, a) ==
    /\ a \in DOMAIN closures /\ cb = Closure(a)
    /\ closures[a].kind = "async" /\ closures[a].cont = Deleted /\ WakersOf(a) = {}

LEMMA StartMapped ==
    ASSUME IInv, IInv', Owned, Len(closures) < MaxClosures,
           NEW cb \in Value, NEW void \in BOOLEAN, NEW k \in {"async", "host"}, NEW x \in {Deleted, Undefined},
           cb.is = "closure" => \E a : AwaitedBy(cb, a),
           closures' = Append(closures, [kind |-> k, cont |-> x, callback |-> AsyncStartUnsafe(cb, void).callback]),
           promises' = AsyncStartUnsafe(cb, void).promises,
           UNCHANGED <<queue, outcome>>
    PROVE  Owned' /\ Operations!Next
<1>s. PICK s : s = AsyncStartUnsafe(cb, void)
  OBVIOUS
<1>f. PICK f : f = [kind |-> k, cont |-> x, callback |-> s.callback]
  OBVIOUS
<1>1. /\ cb.is = "closure" => s.callback = cb
      /\ cb.is # "closure" /\ void => s.callback = NoOp
      /\ cb.is # "closure" /\ ~ void => s.callback = Promise(Len(promises) + 1)
      /\ s.callback \in Value
      /\ DOMAIN promises \subseteq DOMAIN promises'
      /\ \A p \in DOMAIN promises : promises'[p] = promises[p]
      /\ \A p \in DOMAIN promises' \ DOMAIN promises :
            promises'[p] = [status |-> "pending", out |-> Undefined]
  BY <1>s, AsyncStarts DEF IInv
<1>2. \A p \in DOMAIN promises' \ DOMAIN promises : f.callback = Promise(p)
  <2>1. PICK r : r = [status |-> "pending", out |-> Undefined]
    OBVIOUS
  <2>2. \/ promises' = promises
        \/ cb.is # "closure" /\ ~ void /\ promises' = Append(promises, r)
    BY <1>s, <2>1 DEF AsyncStartUnsafe
  <2>3. r \in PromiseRecord /\ promises \in Seq(PromiseRecord) /\ DOMAIN promises = 1 .. Len(promises)
        /\ Len(promises) \in Nat
    <3>1. Undefined \in Value
      BY ValueShapes
    <3>2. r \in PromiseRecord
      <4> HIDE DEF Value
      <4> QED
        BY <2>1, <3>1 DEF PromiseRecord
    <3> QED
      BY <3>2, ShapesOpen DEF IInv, Shapes
  <2> HIDE DEF PromiseRecord
  <2>4. promises' = Append(promises, r) => DOMAIN promises' = 1 .. Len(promises) + 1
    BY <2>3, AppendProperties
  <2> QED
    BY <1>f, <1>1, <2>2, <2>3, <2>4
<1>3. f \in ClosureRecord /\ f.kind = k /\ f.cont = x /\ f.callback = s.callback
  <2>1. x \in Value
    BY ValueShapes
  <2> HIDE DEF Value
  <2> QED
    BY <1>f, <1>1, <2>1 DEF ClosureRecord
<1>4. closures' = Append(closures, f)
  BY <1>s, <1>f
<1>m. PICK m : m = Len(closures) + 1
  OBVIOUS
<1>5. /\ Owned'
      /\ m \in Op /\ Stage(m) = "none"
      /\ \A o \in Op : Stage(o)' = IF o = m THEN "running" ELSE Stage(o)
      /\ \A o \in Op : o # m => WaitersOf(o)' = WaitersOf(o)
      /\ WaitersOf(m)' = ToSchedule(m)'
      /\ closures'[m] = f
      /\ UNCHANGED OpenPromises
  <2>1. \A p \in DOMAIN promises' \ DOMAIN promises :
            promises'[p].status = "pending" /\ f.callback = Promise(p)
    BY <1>1, <1>2
  <2>2. f.kind \in {"async", "host"} /\ f.cont \in {Deleted, Undefined} /\ f \in ClosureRecord
    BY <1>3
  <2>3. UNCHANGED outcome /\ DOMAIN promises \subseteq DOMAIN promises'
        /\ \A p \in DOMAIN promises : promises'[p] = promises[p]
    BY <1>1
  <2> HIDE DEF ClosureRecord
  <2> QED
    BY <1>4, <1>m, <2>1, <2>2, <2>3, NewOperation
<1>6. ASSUME NEW ws, ws = << >> \/ \E b \in Op : ws = <<b>> /\ Stage(b) = "running" /\ ~ WaitsHere(b),
             ToSchedule(m)' = ws
      PROVE  Operations!Next
  <2>1. \A o \in Op : WaitersOf(o)' = IF o = m THEN ws ELSE WaitersOf(o)
    BY <1>5, <1>6
  <2> QED
    BY <1>5, <1>6, <2>1, BeginMapped
<1>7. CASE cb.is = "closure"
  <2>1. PICK a : AwaitedBy(cb, a)
    BY <1>7
  <2>2. ToSchedule(m)' = <<a>>
    <3>1. closures'[m].callback = Closure(a)
      BY <1>1, <1>3, <1>5, <1>7, <2>1 DEF AwaitedBy
    <3> QED
      BY <3>1, ValueForms DEF ToSchedule
  <2>3. a \in Op /\ ~ WaitsHere(a)
    BY <2>1, OperationsAreOps, WaitsForAWaker DEF AwaitedBy, IInv
  <2>4. Stage(a) = "running"
    <3>1. outcome[a] = "none" /\ closures[a].cont # Resume
      BY <2>1, OwnOutcome, ValueForms DEF AwaitedBy, IInv
    <3> QED
      BY <2>1, <3>1 DEF AwaitedBy, Stage
  <2> QED
    BY <1>5, <1>6, <2>2, <2>3, <2>4
<1>8. CASE cb.is # "closure" /\ void
  <2>1. ToSchedule(m)' = << >>
    <3>1. closures'[m].callback = NoOp
      BY <1>1, <1>3, <1>5, <1>8
    <3> QED
      BY <3>1, ValueForms DEF ToSchedule
  <2> QED
    BY <1>5, <1>6, <2>1
<1>9. CASE cb.is # "closure" /\ ~ void
  <2>1. ToSchedule(m)' = Subscribers(promises'[Len(promises) + 1].out)
    <3>1. closures'[m].callback = Promise(Len(promises) + 1)
      BY <1>1, <1>3, <1>5, <1>9
    <3> QED
      BY <3>1, ValueForms DEF ToSchedule
  <2>2. Len(promises) + 1 \in DOMAIN promises' \ DOMAIN promises
    BY <1>s, <1>9, AsyncStarts, ShapesOpen DEF IInv
  <2>3. ToSchedule(m)' = << >>
    BY <1>1, <2>1, <2>2, ValueForms DEF Subscribers
  <2> QED
    BY <1>5, <1>6, <2>3
<1> QED
  BY <1>7, <1>8, <1>9

(* new Promise is one operation with two closures.                         *)
LEMMA NewPromiseMapped ==
    ASSUME IInv, IInv', Owned, NewPromise
    PROVE  Owned' /\ Operations!Next
<1>m. PICK m : m = Len(closures) + 1
  OBVIOUS
<1>p. PICK p : p = Len(promises) + 1
  OBVIOUS
<1>r. PICK r : r = [status |-> "pending", out |-> Undefined]
  OBVIOUS
<1>f. PICK f : f = [kind |-> "resolve", cont |-> Undefined, callback |-> Promise(p)]
  OBVIOUS
<1>g. PICK g : g = [kind |-> "reject", cont |-> Undefined, callback |-> Promise(p)]
  OBVIOUS
<1>1. /\ closures' = closures \o <<f, g>> /\ promises' = Append(promises, r)
      /\ Len(closures) + 2 <= MaxClosures /\ UNCHANGED <<queue, outcome>>
  BY <1>p, <1>r, <1>f, <1>g DEF NewPromise
<1>2. r \in PromiseRecord /\ f \in ClosureRecord /\ g \in ClosureRecord /\ p \in Nat \ {0} /\ m \in Nat \ {0}
  <2>1. p \in Nat \ {0} /\ m \in Nat \ {0}
    BY <1>p, <1>m, ShapesOpen DEF IInv
  <2>2. Undefined \in Value /\ Promise(p) \in Value
    BY <2>1, ValueShapes
  <2> HIDE DEF Value
  <2> QED
    BY <1>r, <1>f, <1>g, <2>1, <2>2 DEF PromiseRecord, ClosureRecord
<1>3. /\ DOMAIN closures = 1 .. m - 1 /\ DOMAIN closures' = 1 .. m + 1 /\ Len(closures') = m + 1
      /\ \A c \in DOMAIN closures : closures'[c] = closures[c]
      /\ closures'[m] = f /\ closures'[m + 1] = g
  <2>1. closures \in Seq(ClosureRecord) /\ Len(closures) \in Nat /\ DOMAIN closures = 1 .. Len(closures)
        /\ <<f, g>> \in Seq(ClosureRecord)
    <3> HIDE DEF ClosureRecord
    <3> QED
      BY <1>2, ShapesOpen DEF IInv, Shapes
  <2> HIDE DEF ClosureRecord
  <2> QED
    BY <1>1, <1>m, <2>1, ConcatProperties
<1>4. /\ DOMAIN promises = 1 .. p - 1 /\ DOMAIN promises' = 1 .. p
      /\ \A q \in DOMAIN promises : promises'[q] = promises[q]
      /\ promises'[p] = r
  <2>1. promises \in Seq(PromiseRecord) /\ Len(promises) \in Nat /\ DOMAIN promises = 1 .. Len(promises)
    BY ShapesOpen DEF IInv, Shapes
  <2> HIDE DEF PromiseRecord
  <2> QED
    BY <1>1, <1>2, <1>p, <2>1, AppendProperties
<1>5. /\ f.kind = "resolve" /\ f.cont = Undefined /\ f.callback = Promise(p)
      /\ g.kind = "reject" /\ g.cont = Undefined /\ g.callback = Promise(p)
      /\ r.status = "pending" /\ r.out = Undefined
  BY <1>f, <1>g, <1>r
<1>6. Pairs'
  <2>d. /\ DOMAIN promises \subseteq DOMAIN promises' /\ p \in DOMAIN promises'
        /\ DOMAIN closures \subseteq DOMAIN closures'
    BY <1>2, <1>3, <1>4
  <2>1. \A v : IsPromise(v) => IsPromise(v)'
    BY <2>d DEF IsPromise
  <2>2. \A v : v = Promise(p) => IsPromise(v)'
    BY <2>d DEF IsPromise
  <2>3. \A c \in DOMAIN closures : c - 1 \in DOMAIN closures =>
            c - 1 \in DOMAIN closures' /\ closures'[c - 1] = closures[c - 1]
    BY <1>3, <2>d
  <2>c. \A c \in DOMAIN closures : c + 1 \in DOMAIN closures =>
            c + 1 \in DOMAIN closures' /\ closures'[c + 1] = closures[c + 1]
    BY <1>3, <2>d
  <2>4. ASSUME NEW c \in DOMAIN closures' PROVE PairFits(c)'
    <3>1. CASE c \in DOMAIN closures
      BY <1>3, <2>1, <2>3, <2>c, <3>1 DEF Owned, Pairs, PairFits
    <3>2. CASE c = m
      <4>1. m + 1 \in DOMAIN closures'
        BY <1>2, <1>3
      <4> QED
        BY <1>3, <1>5, <2>2, <3>2, <4>1 DEF PairFits
    <3>3. CASE c = m + 1
      <4>1. c - 1 = m /\ m \in DOMAIN closures'
        BY <1>2, <1>3, <3>3
      <4> QED
        BY <1>3, <1>5, <2>2, <3>3, <4>1 DEF PairFits
    <3> QED
      BY <1>2, <1>3, <3>1, <3>2, <3>3
  <2> QED
    BY <2>4 DEF Pairs
<1>7. Owned' /\ \A o \in Op \ DOMAIN closures : outcome[o] = "none"
  <2>1. \A c \in DOMAIN closures' \ DOMAIN closures : c = m \/ c = m + 1
    BY <1>2, <1>3
  <2>2. m \in DOMAIN closures' \ DOMAIN closures /\ Len(closures') <= MaxClosures
    BY <1>1, <1>2, <1>3, <1>m, BoundsAssumption
  <2>3. \A c \in DOMAIN closures' \ DOMAIN closures : closures'[c].cont # NoOp
    BY <1>3, <1>5, <2>1, ValueForms
  <2>4. \A q \in DOMAIN promises' \ DOMAIN promises : q = p
    BY <1>2, <1>4
  <2>5. \A q \in DOMAIN promises' \ DOMAIN promises :
            /\ promises'[q].status = "pending"
            /\ \E c \in DOMAIN closures' \ DOMAIN closures :
                    closures'[c].kind # "reject" /\ closures'[c].callback = Promise(q)
    BY <1>3, <1>4, <1>5, <2>2, <2>4
  <2>6. Shapes /\ Shapes' /\ DOMAIN closures \subseteq DOMAIN closures'
    BY <1>2, <1>3 DEF IInv
  <2> QED
    BY <1>1, <1>3, <1>4, <1>6, <2>2, <2>3, <2>5, <2>6, OwnedGrows
<1>8. m \in Op /\ m + 1 \in Op /\ outcome[m] = "none"
  <2>1. m \in Op /\ m + 1 \in Op
    BY <1>1, <1>2, <1>m, BoundsAssumption, ShapesOpen DEF Op, IInv
  <2> QED
    BY <1>2, <1>3, <1>7, <2>1
<1>9. ASSUME NEW x \in Op, x # m PROVE Stage(x)' = Stage(x) /\ WaitersOf(x)' = WaitersOf(x)
  <2>1. CASE x \in DOMAIN closures
    <3>1. DOMAIN closures \subseteq DOMAIN closures'
      BY <1>2, <1>3
    <3> QED
      BY <1>1, <1>3, <1>4, <2>1, <3>1, OldOperationsStay
  <2>2. CASE x = m + 1
    <3>1. x \notin DOMAIN closures /\ closures'[x].kind = "reject"
      BY <1>2, <1>3, <1>5, <2>2
    <3> QED
      BY <3>1 DEF Stage, WaitersOf
  <2>3. CASE x \notin DOMAIN closures /\ x # m + 1
    <3>1. x \notin DOMAIN closures'
      BY <1>2, <1>3, <1>9, <2>3 DEF Op
    <3> QED
      BY <2>3, <3>1 DEF Stage, WaitersOf
  <2> QED
    BY <2>1, <2>2, <2>3
<1>10. Stage(m) = "none" /\ Stage(m)' = "running"
  BY <1>1, <1>2, <1>3, <1>5, <1>8, ValueForms DEF Stage
<1>11. WaitersOf(m)' = << >>
  <2>1. closures'[m].callback = Promise(p)
    BY <1>3, <1>5
  <2>2. ToSchedule(m)' = Subscribers(promises'[p].out)
    BY <2>1, ValueForms DEF ToSchedule
  <2> QED
    BY <1>4, <1>5, <1>10, <2>2, ValueForms DEF WaitersOf, Subscribers
<1>12. OpenPromises' = OpenPromises \cup {m}
  <2> SUFFICES ASSUME NEW x \in Op PROVE IsOpen(x)' <=> IsOpen(x) \/ x = m
    BY <1>8 DEF OpenPromises, Op
  <2>1. /\ \A d \in DOMAIN closures : OpOf(d)' = OpOf(d) /\ OpOf(d) \in DOMAIN closures
        /\ OpOf(m)' = m /\ OpOf(m + 1)' = m
    BY <1>2, <1>3, <1>5, OperationOf DEF OpOf, Owned, IInv
  <2>2. CASE x \in DOMAIN closures
    BY <1>2, <1>3, <2>1, <2>2 DEF IsOpen
  <2>3. CASE x = m
    BY <1>2, <1>3, <1>5, <2>1, <2>3, ValueForms DEF IsOpen
  <2>4. CASE x \notin DOMAIN closures /\ x # m
    BY <1>2, <1>3, <1>5, <2>4 DEF IsOpen
  <2> QED
    BY <2>2, <2>3, <2>4
<1>13. Operations!Next
  <2>1. PICK ws : ws = << >>
    OBVIOUS
  <2>2. \A x \in Op : WaitersOf(x)' = IF x = m THEN ws ELSE WaitersOf(x)
    BY <1>9, <1>11, <2>1
  <2>3. \A x \in Op : Stage(x)' = IF x = m THEN "running" ELSE Stage(x)
    BY <1>9, <1>10
  <2> QED
    BY <1>1, <1>8, <1>10, <1>12, <2>1, <2>2, <2>3, BeginMapped
<1> QED
  BY <1>7, <1>13

-----------------------------------------------------------------------------
(* Await.                                                                  *)

(* One operation has one callback: two that tell of a promise are one.     *)
LEMMA OneOwner ==
    ASSUME IInv, Owned, NEW c \in DOMAIN closures, NEW d \in DOMAIN closures, NEW p,
           closures[c].callback = Promise(p), closures[d].callback = Promise(p)
    PROVE  OpOf(c) = OpOf(d)
<1>1. CASE c = d
  BY <1>1
<1>2. CASE c # d
  <2>1. closures[c].callback = closures[d].callback /\ closures[c].callback.is = "promise"
    BY ValueForms
  <2> QED
    BY <1>2, <2>1 DEF IInv, Settled
<1> QED
  BY <1>1, <1>2

LEMMA SubscribersGrow ==
    ASSUME NEW out \in Value, out = Undefined \/ out.is \in {"closure", "array"}, NEW t
    PROVE  Subscribers(Subscribed(out, t)) = Append(Subscribers(out), t)
<1>1. CASE out = Undefined
  <2>1. Subscribed(out, t) = Closure(t) /\ Subscribers(out) = << >>
    BY <1>1, ValueForms DEF Subscribed, Subscribers
  <2>2. Subscribers(Closure(t)) = <<t>>
    BY ValueForms DEF Subscribers
  <2> QED
    BY <2>1, <2>2
<1>2. CASE out.is \in {"closure", "array"}
  <2>1. Subscribed(out, t) = Array(Append(out.of, t)) /\ Subscribers(out) = out.of
    BY <1>2, ValueForms DEF Subscribed, Subscribers
  <2>2. Subscribers(Array(Append(out.of, t))) = Append(out.of, t)
    BY ValueForms DEF Subscribers
  <2> QED
    BY <2>1, <2>2
<1> QED
  BY <1>1, <1>2

(* Jobs are mapped one by one.                                             *)
LEMMA ReadyIsSeq ==
    ASSUME NEW S, NEW q \in Seq(S), NEW R, \A j \in S : ReadyOf(j) \in R
    PROVE  /\ Ready(q) \in Seq(R) /\ Len(Ready(q)) = Len(q)
           /\ \A i \in 1 .. Len(q) : Ready(q)[i] = ReadyOf(q[i])
<1>1. Len(q) \in Nat /\ DOMAIN q = 1 .. Len(q) /\ \A i \in 1 .. Len(q) : q[i] \in S
  BY LenProperties
<1>2. PICK n \in Nat : n = Len(q)
  BY <1>1
<1>3. Ready(q) = [i \in 1 .. n |-> ReadyOf(q[i])]
  BY <1>1, <1>2 DEF Ready
<1>4. Ready(q) \in [1 .. n -> R]
  BY <1>1, <1>2, <1>3
<1>5. Ready(q) \in Seq(R)
  BY <1>4, SeqDef
<1>6. Len(Ready(q)) = n
  BY <1>3, <1>5, LenProperties
<1> QED
  BY <1>2, <1>3, <1>5, <1>6

LEMMA ReadyAppends ==
    ASSUME Shapes, NEW j
    PROVE  Ready(Append(queue, j)) = Append(Ready(queue), ReadyOf(j))
<1>1. PICK S : S = JobRecord \cup {j}
  OBVIOUS
<1>2. PICK R : R = {ReadyOf(k) : k \in S}
  OBVIOUS
<1>3. queue \in Seq(S) /\ j \in S
  <2> HIDE DEF JobRecord
  <2> QED
    BY <1>1, SeqMonotonic DEF Shapes
<1>4. \A k \in S : ReadyOf(k) \in R
  BY <1>2
<1>5. PICK q : q = Append(queue, j)
  OBVIOUS
<1>6. /\ q \in Seq(S) /\ Len(q) = Len(queue) + 1 /\ Len(queue) \in Nat
      /\ \A i \in 1 .. Len(queue) : q[i] = queue[i]
      /\ q[Len(queue) + 1] = j
  BY <1>3, <1>5, AppendProperties, LenProperties
<1>7. /\ Ready(queue) \in Seq(R) /\ Len(Ready(queue)) = Len(queue)
      /\ \A i \in 1 .. Len(queue) : Ready(queue)[i] = ReadyOf(queue[i])
  BY <1>3, <1>4, ReadyIsSeq
<1>8. /\ Ready(q) \in Seq(R) /\ Len(Ready(q)) = Len(q)
      /\ \A i \in 1 .. Len(q) : Ready(q)[i] = ReadyOf(q[i])
  BY <1>4, <1>6, ReadyIsSeq
<1>9. PICK a : a = Append(Ready(queue), ReadyOf(j))
  OBVIOUS
<1>10. /\ a \in Seq(R) /\ Len(a) = Len(queue) + 1
       /\ \A i \in 1 .. Len(queue) : a[i] = Ready(queue)[i]
       /\ a[Len(queue) + 1] = ReadyOf(j)
  <2>1. ReadyOf(j) \in R
    BY <1>3, <1>4
  <2> QED
    BY <1>7, <1>9, <2>1, AppendProperties
<1>11. \A i \in 1 .. Len(q) : i \in 1 .. Len(queue) \/ i = Len(queue) + 1
  BY <1>6
<1>12. Ready(q) = a
  <2>1. \A i \in 1 .. Len(Ready(q)) : Ready(q)[i] = a[i]
    BY <1>6, <1>7, <1>8, <1>10, <1>11
  <2>2. Len(Ready(q)) = Len(a)
    BY <1>6, <1>8, <1>10
  <2> QED
    BY <1>8, <1>10, <2>1, <2>2, SeqEqual
<1> QED
  BY <1>5, <1>9, <1>12

LEMMA ReadyConcat ==
    ASSUME NEW S, NEW q \in Seq(S), NEW r \in Seq(S)
    PROVE  Ready(q \o r) = Ready(q) \o Ready(r)
<1>1. PICK R : R = {ReadyOf(k) : k \in S}
  OBVIOUS
<1>2. \A k \in S : ReadyOf(k) \in R
  BY <1>1
<1>3. PICK s : s = q \o r
  OBVIOUS
<1>4. /\ s \in Seq(S) /\ Len(s) = Len(q) + Len(r) /\ Len(q) \in Nat /\ Len(r) \in Nat
      /\ \A i \in 1 .. Len(q) + Len(r) : s[i] = IF i <= Len(q) THEN q[i] ELSE r[i - Len(q)]
  BY <1>3, ConcatProperties, LenProperties
<1>5. /\ Ready(q) \in Seq(R) /\ Len(Ready(q)) = Len(q)
      /\ \A i \in 1 .. Len(q) : Ready(q)[i] = ReadyOf(q[i])
  BY <1>2, ReadyIsSeq
<1>6. /\ Ready(r) \in Seq(R) /\ Len(Ready(r)) = Len(r)
      /\ \A i \in 1 .. Len(r) : Ready(r)[i] = ReadyOf(r[i])
  BY <1>2, ReadyIsSeq
<1>7. /\ Ready(s) \in Seq(R) /\ Len(Ready(s)) = Len(s)
      /\ \A i \in 1 .. Len(s) : Ready(s)[i] = ReadyOf(s[i])
  BY <1>2, <1>4, ReadyIsSeq
<1>8. PICK a : a = Ready(q) \o Ready(r)
  OBVIOUS
<1>9. /\ a \in Seq(R) /\ Len(a) = Len(q) + Len(r)
      /\ \A i \in 1 .. Len(q) + Len(r) : a[i] = IF i <= Len(q) THEN Ready(q)[i] ELSE Ready(r)[i - Len(q)]
  <2>1. Ready(q) \in Seq(R) /\ Ready(r) \in Seq(R)
    BY <1>5, <1>6
  <2>2. /\ a \in Seq(R) /\ Len(a) = Len(Ready(q)) + Len(Ready(r))
        /\ \A i \in 1 .. Len(Ready(q)) + Len(Ready(r)) :
                a[i] = IF i <= Len(Ready(q)) THEN Ready(q)[i] ELSE Ready(r)[i - Len(Ready(q))]
    BY <1>8, <2>1, ConcatProperties
  <2>3. Len(Ready(q)) = Len(q) /\ Len(Ready(r)) = Len(r)
    BY <1>5, <1>6
  <2> QED
    BY <2>2, <2>3
<1>10. ASSUME NEW i \in 1 .. Len(s) PROVE Ready(s)[i] = a[i]
  <2>1. CASE i <= Len(q)
    BY <1>4, <1>5, <1>7, <1>9, <2>1
  <2>2. CASE ~ (i <= Len(q))
    <3>1. i - Len(q) \in 1 .. Len(r)
      BY <1>4, <2>2
    <3> QED
      BY <1>4, <1>6, <1>7, <1>9, <2>2, <3>1
  <2> QED
    BY <2>1, <2>2
<1>11. Ready(s) = a
  BY <1>4, <1>7, <1>9, <1>10, SeqEqual
<1> QED
  BY <1>3, <1>8, <1>11

(* The closures keep what they are and whom they tell; one of them goes on *)
(* later or now.                                                           *)
LEMMA OnlyItsStage ==
    ASSUME IInv, Owned, NEW t \in DOMAIN closures, closures[t].kind = "async",
           NEW x \in {Resume, Deleted}, closures[t].cont \in {Resume, Deleted},
           closures' = [closures EXCEPT ![t].cont = x],
           UNCHANGED outcome
    PROVE  /\ DOMAIN closures' = DOMAIN closures /\ Len(closures') = Len(closures)
           /\ \A c \in DOMAIN closures :
                /\ closures'[c].kind = closures[c].kind /\ closures'[c].callback = closures[c].callback
                /\ closures'[c].cont = NoOp <=> closures[c].cont = NoOp
           /\ t \in Op
           /\ Stage(t) = IF closures[t].cont = Resume THEN "suspended" ELSE "running"
           /\ \A o \in Op : Stage(o)' = IF o = t THEN (IF x = Resume THEN "suspended" ELSE "running")
                                        ELSE Stage(o)
           /\ \A o \in Op : Stage(o) \in {"running", "suspended"} <=> Stage(o)' \in {"running", "suspended"}
<1>1. DOMAIN closures' = DOMAIN closures /\ Len(closures') = Len(closures)
      /\ \A c \in DOMAIN closures : closures[c] \in ClosureRecord
  <2>1. closures \in Seq(ClosureRecord) /\ \A c \in DOMAIN closures : closures[c] \in ClosureRecord
    BY ShapesOpen DEF IInv, Shapes
  <2> HIDE DEF ClosureRecord
  <2> QED
    BY <2>1
<1>2. \A c \in DOMAIN closures :
        /\ closures'[c].kind = closures[c].kind /\ closures'[c].callback = closures[c].callback
        /\ c # t => closures'[c].cont = closures[c].cont
  BY <1>1 DEF ClosureRecord
<1>3. closures'[t].cont = x
  BY <1>1 DEF ClosureRecord
<1>4. \A c \in DOMAIN closures : closures'[c].cont = NoOp <=> closures[c].cont = NoOp
  BY <1>2, <1>3, ValueForms
<1>5. t \in Op /\ outcome[t] = "none"
  BY OperationsAreOps, OwnOutcome, ValueForms DEF IInv
<1>6. Stage(t) = IF closures[t].cont = Resume THEN "suspended" ELSE "running"
  BY <1>5 DEF Stage
<1>7. \A o \in Op : Stage(o)' = IF o = t THEN (IF x = Resume THEN "suspended" ELSE "running") ELSE Stage(o)
  BY <1>1, <1>2, <1>3, <1>5 DEF Stage
<1> QED
  BY <1>1, <1>2, <1>4, <1>5, <1>6, <1>7

LEMMA AwaitRefines ==
    ASSUME IInv, IInv', Owned, ~ Idle, Top.kind = "async", NEW v, Await(v), v = Deleted \/ IsPromise(v),
           Top.operand = v \/ (Top.operand = Nothing /\ v # Deleted)
    PROVE  Owned' /\ Operations!Next
<1>t. PICK t : t = Top.closure
  OBVIOUS
<1>1. /\ t \in DOMAIN closures /\ closures[t].kind = "async" /\ closures[t].cont = Deleted
      /\ WakersOf(t) # {} <=> Top.operand = Deleted
  <2>1. Len(stack) \in DOMAIN stack
    BY ShapesOpen DEF IInv
  <2>2. IsAsync(t) /\ OnStack(t) /\ (WakersOf(t) # {} <=> Waiting(Len(stack)))
    BY <1>t, <2>1 DEF IInv, Frames, FrameFits, Wakers, OnStack, Top
  <2> QED
    BY <2>2 DEF IInv, RunsOnce, IsAsync, Waiting, Top
<1>2. closures' = [closures EXCEPT ![t].cont = Resume] /\ UNCHANGED outcome
      /\ IF v = Deleted THEN UNCHANGED <<promises, queue>> ELSE SubscribeToPromise(PromiseOf(v), t)
  BY <1>t DEF Await, Suspended
<1>3. /\ DOMAIN closures' = DOMAIN closures /\ Len(closures') = Len(closures)
      /\ \A c \in DOMAIN closures :
            /\ closures'[c].kind = closures[c].kind /\ closures'[c].callback = closures[c].callback
            /\ closures'[c].cont = NoOp <=> closures[c].cont = NoOp
      /\ t \in Op /\ Stage(t) = "running"
      /\ \A o \in Op : Stage(o)' = IF o = t THEN "suspended" ELSE Stage(o)
      /\ \A o \in Op : Stage(o) \in {"running", "suspended"} <=> Stage(o)' \in {"running", "suspended"}
  BY <1>1, <1>2, OnlyItsStage, ValueForms
<1>4. WaitsHere(t) <=> Top.operand = Deleted
  BY <1>1, WaitsForAWaker
<1>5. \A o \in Op : Stage(o) \in {"running", "suspended"} => o \in DOMAIN closures
  BY DEF Stage
<1>6. CASE v = Deleted
  <2>1. Owned' /\ UNCHANGED OpenPromises
    BY <1>2, <1>3, <1>6, OwnedStays DEF IInv
  <2>2. \A o \in DOMAIN closures : ToSchedule(o)' = ToSchedule(o)
    BY <1>2, <1>3, <1>6 DEF ToSchedule
  <2>3. \A o \in Op : WaitersOf(o)' = WaitersOf(o)
    BY <1>3, <1>5, <2>2 DEF WaitersOf
  <2>4. Operations!Next
    <3>1. WaitsHere(t)
      BY <1>4, <1>6, ValueForms
    <3> QED
      BY <1>2, <1>3, <1>6, <2>1, <2>3, <3>1, SuspendMapped
  <2> QED
    BY <2>1, <2>4
<1>7. CASE v # Deleted
  <2>1. PICK p \in DOMAIN promises : v = Promise(p)
    BY <1>7 DEF IsPromise
  <2>2. SubscribeToPromise(p, t)
    BY <1>2, <1>7, <2>1, ValueForms
  <2>3. /\ DOMAIN promises' = DOMAIN promises
        /\ \A q \in DOMAIN promises : promises'[q].status = promises[q].status
        /\ \A q \in DOMAIN promises : promises[q].status # "pending" => promises'[q] = promises[q]
        /\ \A q \in DOMAIN promises : q # p => promises'[q] = promises[q]
    <3>1. promises[p] \in PromiseRecord
      BY ShapesOpen DEF IInv
    <3> QED
      BY <2>2, <3>1 DEF SubscribeToPromise, PromiseRecord
  <2>4. Owned' /\ UNCHANGED OpenPromises
    BY <1>2, <1>3, <2>3, OwnedStays DEF IInv
  <2>5. PICK c \in DOMAIN closures : Tells(p, c)
    BY DEF Owned, Owners
  <2>6. c \in Op /\ ~ WaitsHere(t)
    BY <1>4, <1>7, OperationsAreOps, ValueForms DEF IInv
  <2>7. ASSUME NEW o \in Op, o # c PROVE WaitersOf(o)' = WaitersOf(o)
    <3>1. CASE Stage(o) \in {"running", "suspended"}
      <4>1. o \in DOMAIN closures /\ closures[o].kind # "reject"
        BY <3>1 DEF Stage
      <4>2. closures[o].callback # Promise(p)
        <5>1. OpOf(o) = o /\ OpOf(c) = c
          BY <2>5, <4>1 DEF OpOf, Tells
        <5> QED
          BY <2>5, <2>7, <4>1, <5>1, OneOwner DEF Tells
      <4>3. ToSchedule(o)' = ToSchedule(o)
        <5>1. CASE IsPromise(closures[o].callback)
          <6>1. PICK q \in DOMAIN promises : closures[o].callback = Promise(q)
            BY <5>1 DEF IsPromise
          <6>2. promises'[q] = promises[q] /\ closures'[o].callback = Promise(q)
            BY <1>3, <2>3, <4>1, <4>2, <6>1
          <6> QED
            BY <6>1, <6>2, ValueForms DEF ToSchedule
        <5>2. CASE closures[o].callback.is # "promise"
          BY <1>3, <4>1, <5>2 DEF ToSchedule
        <5> QED
          BY <4>1, <5>1, <5>2, ValueForms DEF IInv, References, SlotsFit
      <4> QED
        BY <1>3, <3>1, <4>3 DEF WaitersOf
    <3>2. CASE Stage(o) \notin {"running", "suspended"}
      BY <1>3, <3>2 DEF WaitersOf
    <3> QED
      BY <3>1, <3>2
  <2>8. CASE promises[p].status = "pending"
    <3>1. outcome[c] = "none"
      BY <2>5, <2>6, <2>8 DEF Tells, Owned, Outcomes
    <3>2. Stage(c) \in {"running", "suspended"}
      BY <2>5, <3>1 DEF Stage, Tells
    <3>3. ToSchedule(c) = Subscribers(promises[p].out) /\ ToSchedule(c)' = Subscribers(promises'[p].out)
      BY <1>3, <2>5, ValueForms DEF Tells, ToSchedule
    <3>4. Subscribers(promises'[p].out) = Append(Subscribers(promises[p].out), t)
      <4>1. PICK out : out = promises[p].out
        OBVIOUS
      <4>2. out \in Value /\ (out = Undefined \/ out.is \in {"closure", "array"})
        <5>1. promises[p] \in PromiseRecord /\ OutFits(p)
          BY ShapesOpen DEF IInv, References
        <5> QED
          BY <2>8, <4>1, <5>1 DEF OutFits, PromiseRecord
      <4>3. promises'[p].out = Subscribed(out, t)
        <5>1. promises[p] \in PromiseRecord
          BY ShapesOpen DEF IInv
        <5> QED
          BY <2>2, <2>8, <4>1, <5>1 DEF SubscribeToPromise, PromiseRecord
      <4> QED
        BY <4>1, <4>2, <4>3, SubscribersGrow
    <3>5. WaitersOf(c)' = Append(WaitersOf(c), t)
      BY <1>3, <2>6, <3>2, <3>3, <3>4 DEF WaitersOf
    <3>6. \A o \in Op : WaitersOf(o)' = IF o = c THEN Append(WaitersOf(o), t) ELSE WaitersOf(o)
      BY <2>7, <3>5
    <3>7. UNCHANGED queue
      BY <2>2, <2>8 DEF SubscribeToPromise
    <3>8. Stage(c) # "done" /\ Stage(c) # "none"
      BY <3>2
    <3>9. Operations!Next
      BY <1>2, <1>3, <2>4, <2>6, <3>6, <3>7, <3>8, AwaitMapped
    <3> QED
      BY <2>4, <3>9
  <2>9. CASE promises[p].status # "pending"
    <3>1. outcome[c] # "none" /\ promises[p].status = outcome[c] /\ promises[p].out = Result(c)
      BY <2>5, <2>9 DEF Tells
    <3>2. Stage(c) = "done"
      BY <2>5, <3>1 DEF Stage, Tells
    <3>3. \A o \in Op : WaitersOf(o)' = WaitersOf(o)
      <4>1. WaitersOf(c)' = WaitersOf(c)
        BY <1>3, <2>6, <3>2 DEF WaitersOf
      <4> QED
        BY <2>7, <4>1
    <3>4. Ready(queue') = Append(Ready(queue), [op |-> t, from |-> c, how |-> outcome[c]])
      <4>1. PICK j : j = [continuation |-> t, how |-> outcome[c], result |-> Result(c)]
        OBVIOUS
      <4>2. queue' = Append(queue, j)
        BY <2>2, <2>9, <3>1, <4>1 DEF SubscribeToPromise
      <4>3. ReadyOf(j) = [op |-> t, from |-> c, how |-> outcome[c]]
        BY <4>1 DEF ReadyOf, Result
      <4> QED
        BY <4>2, <4>3, ReadyAppends DEF IInv
    <3>5. Operations!Next
      BY <1>2, <1>3, <2>4, <2>6, <3>2, <3>3, <3>4, AwaitMapped
    <3> QED
      BY <2>4, <3>5
  <2> QED
    BY <2>8, <2>9
<1> QED
  BY <1>6, <1>7

LEMMA ToScheduleShape ==
    ASSUME Shapes, References, NEW c \in DOMAIN closures
    PROVE  ToSchedule(c) \in Seq(Nat)
<1>1. closures[c].callback \in Value /\ SlotsFit(c)
  BY ShapesOpen DEF References, ClosureRecord
<1>2. ASSUME NEW p \in DOMAIN promises, closures[c].callback = Promise(p) PROVE ToSchedule(c) \in Seq(Nat)
  <2>1. promises[p].out \in Value
    BY ShapesOpen DEF PromiseRecord
  <2> QED
    BY <1>2, <2>1, SubscribersShape, ValueForms DEF ToSchedule
<1>3. CASE closures[c].callback.is # "promise"
  BY <1>1, <1>3 DEF ToSchedule, Value
<1> QED
  BY <1>1, <1>2, <1>3, ValueForms DEF SlotsFit, IsPromise

-----------------------------------------------------------------------------
(* Completion.                                                             *)

(* SUB_ASYNC_COMPLETE changes the closure that completes, the promise that  *)
(* it settles and its operation.                                           *)
LEMMA CompletionKeeps ==
    ASSUME IInv, IInv', Owned, NEW c \in DOMAIN closures, NEW how \in {"resolved", "rejected"},
           AsyncComplete(c, how), NEW o, o = OpOf(c), NEW cb, cb = closures[c].callback
    PROVE  /\ o \in DOMAIN closures /\ o \in Op /\ closures[o].kind # "reject" /\ closures[o].callback = cb
           /\ closures[c].kind # "reject" => o = c
           /\ closures[c].kind = "reject" => closures[o].kind = "resolve" /\ o # c
           /\ DOMAIN closures' = DOMAIN closures
           /\ \A d \in DOMAIN closures :
                /\ closures'[d].kind = closures[d].kind
                /\ d # c => closures'[d].cont = closures[d].cont
                /\ OpOf(d)' = OpOf(d)
           /\ closures'[c].cont = NoOp
           /\ outcome' = [outcome EXCEPT ![o] = how] /\ outcome'[o] = how
           /\ Owned'
           /\ \A x \in Op : x # o => Stage(x)' = Stage(x) /\ WaitersOf(x)' = WaitersOf(x)
           /\ \A x \in Op : x # o => (IsOpen(x)' <=> IsOpen(x))
           /\ \A d \in DOMAIN closures :
                closures[d].kind # "reject" /\ closures[d].callback = cb /\ cb.is = "promise" => d = o
<1>1. /\ o \in DOMAIN closures /\ o \in Op /\ closures[o].kind # "reject" /\ closures[o].callback = cb
      /\ closures[c].kind # "reject" => o = c
      /\ closures[c].kind = "reject" => closures[o].kind = "resolve" /\ o # c
  BY OperationOf, OperationsAreOps DEF IInv, Owned
<1>3. /\ DOMAIN closures' = DOMAIN closures /\ Len(closures') = Len(closures)
      /\ \A d \in DOMAIN closures :
            /\ closures'[d].kind = closures[d].kind /\ closures'[d].callback = closures[d].callback
            /\ d # c => closures'[d].cont = closures[d].cont
      /\ closures'[c].cont = NoOp
  <2>1. \A d \in DOMAIN closures : closures[d] \in ClosureRecord
    BY ShapesOpen DEF IInv
  <2>2. closures' = [closures EXCEPT ![c].cont = NoOp]
    BY DEF AsyncComplete, Disarmed
  <2>3. Len(closures') = Len(closures)
    <3>1. closures \in Seq(ClosureRecord)
      BY DEF IInv, Shapes
    <3> HIDE DEF ClosureRecord
    <3> QED
      BY <2>2, <3>1
  <2> QED
    BY <2>1, <2>2, <2>3 DEF ClosureRecord
<1>4. outcome' = [outcome EXCEPT ![o] = how] /\ outcome \in [Op -> {"none", "resolved", "rejected"}]
  BY DEF AsyncComplete, Owned, Outcomes
<1>5. /\ \A p \in DOMAIN promises : cb = Promise(p) => promises'[p] = [status |-> how, out |-> Result(o)]
      /\ \A p \in DOMAIN promises : cb # Promise(p) => promises'[p] = promises[p]
      /\ DOMAIN promises' = DOMAIN promises
  <2>1. promises' = IF cb.is = "promise"
                    THEN [promises EXCEPT ![PromiseOf(cb)] = [status |-> how, out |-> Result(o)]]
                    ELSE promises
    BY DEF AsyncComplete
  <2>2. SlotsFit(c)
    BY DEF IInv, References
  <2>3. ASSUME NEW q \in DOMAIN promises, cb = Promise(q)
        PROVE  promises' = [promises EXCEPT ![q] = [status |-> how, out |-> Result(o)]]
    <3>1. cb.is = "promise" /\ PromiseOf(cb) = q
      BY <2>3, ValueForms
    <3> QED
      BY <2>1, <3>1
  <2>4. CASE \E q \in DOMAIN promises : cb = Promise(q)
    <3>1. PICK q \in DOMAIN promises : cb = Promise(q)
      BY <2>4
    <3>2. promises' = [promises EXCEPT ![q] = [status |-> how, out |-> Result(o)]]
      BY <2>3, <3>1
    <3>3. \A p \in DOMAIN promises : cb = Promise(p) <=> p = q
      BY <3>1, PromisesDiffer
    <3> QED
      BY <3>2, <3>3
  <2>5. CASE ~ \E q \in DOMAIN promises : cb = Promise(q)
    <3>1. cb.is # "promise"
      BY <2>2, <2>5, ValueForms DEF SlotsFit, IsPromise
    <3> QED
      BY <2>1, <2>5, <3>1
  <2> QED
    BY <2>4, <2>5
<1>6. \A d \in DOMAIN closures : OpOf(d)' = OpOf(d)
  BY <1>3 DEF OpOf
<1>7. ASSUME NEW d \in DOMAIN closures, closures[d].kind # "reject", closures[d].callback = cb, cb.is = "promise"
      PROVE  d = o
  <2>1. PICK p : cb = Promise(p)
    BY <1>7, ValueForms DEF IInv, References, SlotsFit, IsPromise
  <2>2. OpOf(d) = OpOf(c)
    BY <1>7, <2>1, OneOwner
  <2> QED
    BY <1>7, <2>2 DEF OpOf
<1>8. Owned'
  <2>1. Outcomes'
    <3>1. ASSUME NEW x \in Op
          PROVE  outcome'[x] # "none" <=> \E d \in DOMAIN closures' : OpOf(d)' = x /\ closures'[d].cont = NoOp
      <4>1. CASE x = o
        BY <1>3, <1>4, <1>6, <3>1, <4>1
      <4>2. CASE x # o
        <5>1. outcome'[x] = outcome[x]
          BY <1>4, <3>1, <4>2
        <5>2. \A d \in DOMAIN closures : OpOf(d) = x => closures'[d].cont = closures[d].cont
          BY <1>3, <4>2
        <5> QED
          BY <1>3, <1>6, <5>1, <5>2 DEF Owned, Outcomes
      <4> QED
        BY <4>1, <4>2
    <3>2. outcome' \in [Op -> {"none", "resolved", "rejected"}]
      BY <1>1, <1>4
    <3>3. Len(closures') <= MaxClosures
      BY <1>3 DEF Owned, Outcomes
    <3> QED
      BY <3>1, <3>2, <3>3 DEF Outcomes, Op
  <2>2. Pairs'
    BY <1>3, <1>5 DEF Owned, Pairs, PairFits, IsPromise
  <2>3. Owners'
    <3> SUFFICES ASSUME NEW p \in DOMAIN promises PROVE \E d \in DOMAIN closures : Tells(p, d)'
      BY <1>3, <1>5 DEF Owners
    <3>1. PICK d \in DOMAIN closures : Tells(p, d)
      BY DEF Owned, Owners
    <3>2. CASE cb = Promise(p)
      <4>1. d = o
        BY <1>7, <3>1, <3>2, ValueForms DEF Tells
      <4>2. outcome'[o] = how /\ promises'[p].status = how /\ promises'[p].out = Result(o)
        BY <1>1, <1>4, <1>5, <3>2
      <4> QED
        BY <1>3, <3>1, <4>1, <4>2 DEF Tells
    <3>3. CASE cb # Promise(p)
      <4>1. d # o
        BY <1>1, <3>1, <3>3 DEF Tells
      <4>2. outcome'[d] = outcome[d] /\ promises'[p] = promises[p]
        BY <1>4, <1>5, <3>3, <4>1, OperationsAreOps DEF IInv
      <4> QED
        BY <1>3, <3>1, <4>2 DEF Tells
    <3> QED
      BY <3>2, <3>3
  <2> QED
    BY <2>1, <2>2, <2>3 DEF Owned
<1>11. ASSUME NEW x \in Op, x # o PROVE Stage(x)' = Stage(x) /\ WaitersOf(x)' = WaitersOf(x)
  <2>1. Stage(x)' = Stage(x)
    <3>1. outcome'[x] = outcome[x]
      BY <1>4, <1>11
    <3>2. x \in DOMAIN closures /\ closures[x].kind # "reject" => x # c
      BY <1>1, <1>11
    <3> QED
      BY <1>3, <3>1, <3>2 DEF Stage
  <2>2. CASE Stage(x) \in {"running", "suspended"}
    <3>1. x \in DOMAIN closures /\ closures[x].kind # "reject"
      BY <2>2 DEF Stage
    <3>2. ToSchedule(x)' = ToSchedule(x)
      <4>1. CASE IsPromise(closures[x].callback)
        <5>1. PICK q \in DOMAIN promises : closures[x].callback = Promise(q)
          BY <4>1 DEF IsPromise
        <5>2. cb # Promise(q)
          BY <1>7, <1>11, <3>1, <5>1, ValueForms
        <5>3. promises'[q] = promises[q] /\ closures'[x].callback = Promise(q)
          BY <1>3, <1>5, <3>1, <5>1, <5>2
        <5> QED
          BY <5>1, <5>3, ValueForms DEF ToSchedule
      <4>2. CASE closures[x].callback.is # "promise"
        BY <1>3, <3>1, <4>2 DEF ToSchedule
      <4> QED
        BY <3>1, <4>1, <4>2, ValueForms DEF IInv, References, SlotsFit
    <3> QED
      BY <2>1, <2>2, <3>2 DEF WaitersOf
  <2>3. CASE Stage(x) \notin {"running", "suspended"}
    BY <2>1, <2>3 DEF WaitersOf
  <2> QED
    BY <2>1, <2>2, <2>3
<1>12. ASSUME NEW x \in Op, x # o PROVE IsOpen(x)' <=> IsOpen(x)
  BY <1>3, <1>6, <1>12 DEF IsOpen
<1>13. outcome'[o] = how
  BY <1>1, <1>4
<1> QED
  BY <1>1, <1>3, <1>4, <1>6, <1>7, <1>8, <1>11, <1>12, <1>13

(* SUB_ASYNC_COMPLETE for the first time: an operation of which no closure *)
(* has run is done, and whoever waits for it is in the queue.              *)
LEMMA CompletionRefines ==
    ASSUME IInv, IInv', Owned, NEW c \in DOMAIN closures, NEW how \in {"resolved", "rejected"},
           AsyncComplete(c, how), closures[c].cont \in {Deleted, Undefined},
           \A d \in DOMAIN closures : OpOf(d) = OpOf(c) => closures[d].cont # NoOp,
           WakersOf(OpOf(c)) = {}
    PROVE  Owned' /\ Operations!Next
<1>o. PICK o : o = OpOf(c)
  OBVIOUS
<1>cs. PICK cs : cs = ToSchedule(c)
  OBVIOUS
<1>cb. PICK cb : cb = closures[c].callback
  OBVIOUS
<1>1. /\ o \in DOMAIN closures /\ o \in Op /\ closures[o].kind # "reject" /\ closures[o].callback = cb
      /\ closures[c].kind # "reject" => o = c
      /\ closures[c].kind = "reject" => closures[o].kind = "resolve" /\ o # c
  BY <1>o, <1>cb, CompletionKeeps
<1>2. outcome[o] = "none"
  BY <1>1, <1>o DEF Owned, Outcomes
<1>3. /\ DOMAIN closures' = DOMAIN closures
      /\ \A d \in DOMAIN closures :
            /\ closures'[d].kind = closures[d].kind
            /\ d # c => closures'[d].cont = closures[d].cont
      /\ closures'[c].cont = NoOp
  BY <1>o, <1>cb, CompletionKeeps
<1>4. outcome' = [outcome EXCEPT ![o] = how] /\ outcome'[o] = how
  BY <1>o, <1>cb, CompletionKeeps
<1>6. \A d \in DOMAIN closures : OpOf(d)' = OpOf(d)
  BY <1>o, <1>cb, CompletionKeeps
<1>8. Owned' /\ \A x \in Op : x # o => (IsOpen(x)' <=> IsOpen(x))
  BY <1>o, <1>cb, CompletionKeeps
<1>9. Stage(o) = "running"
  <2>1. closures[o].cont # Resume
    <3>1. CASE o = c
      BY <3>1, ValueForms
    <3>2. CASE o # c
      <4>1. closures[o].kind = "resolve" /\ SlotsFit(o)
        BY <1>1, <3>2 DEF IInv, References
      <4> QED
        BY <4>1, ValueForms DEF SlotsFit
    <3> QED
      BY <3>1, <3>2
  <2> QED
    BY <1>1, <1>2, <2>1 DEF Stage
<1>10. Stage(o)' = "done"
  <2>1. outcome'[o] # "none"
    BY <1>1, <1>4
  <2> QED
    BY <1>1, <1>3, <2>1 DEF Stage
<1>11. ASSUME NEW x \in Op, x # o PROVE Stage(x)' = Stage(x) /\ WaitersOf(x)' = WaitersOf(x)
  BY <1>o, <1>cb, <1>11, CompletionKeeps
<1>12. WaitersOf(o) = cs /\ WaitersOf(o)' = << >>
  <2>1. ToSchedule(o) = cs
    BY <1>1, <1>cs, <1>cb DEF ToSchedule
  <2> QED
    BY <1>9, <1>10, <2>1 DEF WaitersOf
<1>13. Ready(queue') = Ready(queue)
            \o [i \in DOMAIN WaitersOf(o) |-> [op |-> WaitersOf(o)[i], from |-> o, how |-> how]]
  <2>1. PICK js : js = [i \in DOMAIN cs |-> Job(cs[i], o, how)]
    OBVIOUS
  <2>2. queue' = queue \o js
    BY <1>o, <1>cs, <2>1 DEF AsyncComplete, Scheduled
  <2>3. queue \in Seq(JobRecord) /\ js \in Seq(JobRecord)
    <3>1. cs \in Seq(Nat)
      BY <1>cs, ToScheduleShape DEF IInv
    <3>2. o \in Nat
      BY <1>1 DEF Op
    <3>3. \A n \in Nat : Job(n, o, how) \in JobRecord
      <4>1. Result(o) \in Value
        BY <3>2, ValueShapes
      <4> HIDE DEF Value
      <4> QED
        BY <4>1 DEF Job, JobRecord
    <3> HIDE DEF JobRecord
    <3>4. js \in Seq(JobRecord)
      <4>1. PICK n \in Nat : DOMAIN cs = 1 .. n
        BY <3>1, LenProperties
      <4>2. \A i \in 1 .. n : cs[i] \in Nat
        BY <3>1, <4>1, LenProperties
      <4>3. js \in [1 .. n -> JobRecord]
        BY <2>1, <3>3, <4>1, <4>2
      <4> QED
        BY <4>3, SeqDef
    <3> QED
      BY <3>4 DEF IInv, Shapes
  <2>4. Ready(js) = [i \in DOMAIN cs |-> [op |-> cs[i], from |-> o, how |-> how]]
    BY <2>1 DEF Ready, ReadyOf, Job, Result
  <2>5. Ready(queue') = Ready(queue) \o Ready(js)
    <3> HIDE DEF JobRecord
    <3> QED
      BY <2>2, <2>3, ReadyConcat
  <2> QED
    BY <1>12, <2>4, <2>5
<1>14. ~ WaitsHere(o)
  BY <1>o, WaitsForAWaker
<1>15. UNCHANGED OpenPromises
  <2> SUFFICES ASSUME NEW x \in Op PROVE IsOpen(x)' <=> IsOpen(x)
    BY DEF OpenPromises, Op
  <2>1. CASE x # o
    BY <1>8, <2>1
  <2>2. CASE x = o /\ closures[o].kind = "resolve"
    <3>1. PICK d \in DOMAIN closures : OpOf(d) = o /\ d # c
      BY <1>1, <1>o, <2>2, Twins DEF IInv, Owned
    <3>2. closures[d].cont # NoOp /\ closures'[d].cont # NoOp
      BY <1>o, <1>3, <3>1
    <3> QED
      BY <1>3, <1>6, <2>2, <3>1, <3>2 DEF IsOpen
  <2>3. CASE x = o /\ closures[o].kind # "resolve"
    BY <1>1, <1>3, <2>3 DEF IsOpen
  <2> QED
    BY <2>1, <2>2, <2>3
<1>16. Operations!Next
  <2>1. \A x \in Op : Stage(x)' = IF x = o THEN "done" ELSE Stage(x)
    BY <1>10, <1>11
  <2>2. \A x \in Op : WaitersOf(x)' = IF x = o THEN << >> ELSE WaitersOf(x)
    BY <1>11, <1>12
  <2> QED
    BY <1>1, <1>4, <1>9, <1>13, <1>14, <1>15, <2>1, <2>2, CompleteMapped
<1> QED
  BY <1>8, <1>16

(* For the second time: it replaces the outcome of a promise of the program, *)
(* for which nobody waits any more.                                        *)
LEMMA SettleAgainRefines ==
    ASSUME IInv, IInv', Owned, NEW c \in DOMAIN closures, NEW how \in {"resolved", "rejected"},
           AsyncComplete(c, how), closures[c].cont # NoOp, closures[c].kind # "async",
           NEW d \in DOMAIN closures, OpOf(d) = OpOf(c), closures[d].cont = NoOp
    PROVE  Owned' /\ Operations!Next
<1>o. PICK o : o = OpOf(c)
  OBVIOUS
<1>cb. PICK cb : cb = closures[c].callback
  OBVIOUS
<1>1. /\ o \in DOMAIN closures /\ o \in Op /\ closures[o].kind # "reject" /\ closures[o].callback = cb
      /\ closures[c].kind # "reject" => o = c
      /\ closures[c].kind = "reject" => closures[o].kind = "resolve" /\ o # c
      /\ DOMAIN closures' = DOMAIN closures
      /\ \A e \in DOMAIN closures :
            /\ closures'[e].kind = closures[e].kind /\ OpOf(e)' = OpOf(e)
            /\ e # c => closures'[e].cont = closures[e].cont
      /\ closures'[c].cont = NoOp
      /\ outcome' = [outcome EXCEPT ![o] = how] /\ outcome'[o] = how /\ Owned'
  BY <1>o, <1>cb, CompletionKeeps
<1>2. \A x \in Op : x # o =>
        /\ Stage(x)' = Stage(x) /\ WaitersOf(x)' = WaitersOf(x)
        /\ IsOpen(x)' <=> IsOpen(x)
  BY <1>o, <1>cb, CompletionKeeps
<1>3. closures[o].kind = "resolve"
  <2>1. closures[c].kind \in {"host", "resolve", "reject"}
    BY ShapesOpen DEF IInv, ClosureRecord
  <2>2. closures[c].kind # "host"
    BY <1>o, <1>1, Twins DEF IInv, Owned
  <2> QED
    BY <1>1, <2>1, <2>2
<1>4. \A e \in DOMAIN closures : OpOf(e) = o => e \in {c, d}
  <2>1. c # d
    OBVIOUS
  <2> QED
    BY <1>o, <1>1, <1>3, <2>1, Twins DEF IInv, Owned
<1>5. outcome[o] # "none"
  BY <1>o, <1>1 DEF Owned, Outcomes
<1>6. Stage(o) = "done" /\ Stage(o)' = "done"
  BY <1>1, <1>5 DEF Stage
<1>7. WaitersOf(o)' = WaitersOf(o)
  BY <1>6 DEF WaitersOf
<1>8. OpenPromises' = OpenPromises \ {o} /\ o \in OpenPromises
  <2>1. IsOpen(o)
    BY <1>o, <1>1, <1>3 DEF IsOpen
  <2>2. ~ IsOpen(o)'
    BY <1>1, <1>4 DEF IsOpen
  <2>3. \A x \in Op : IsOpen(x)' <=> IsOpen(x) /\ x # o
    BY <1>2, <2>2
  <2>4. /\ \A x : x \in OpenPromises <=> x \in Op /\ IsOpen(x)
        /\ \A x : x \in OpenPromises' <=> x \in Op /\ IsOpen(x)'
    BY DEF OpenPromises, Op
  <2> QED
    BY <1>1, <2>1, <2>3, <2>4
<1>9. Ready(queue') = Ready(queue)
  <2>1. PICK p \in DOMAIN promises : cb = Promise(p)
    BY <1>1, <1>3 DEF Owned, Pairs, PairFits, IsPromise
  <2>2. PICK e \in DOMAIN closures : Tells(p, e)
    BY DEF Owned, Owners
  <2>3. e = o
    <3>1. cb.is = "promise" /\ closures[e].kind # "reject" /\ closures[e].callback = cb
      BY <2>1, <2>2, ValueForms DEF Tells
    <3>2. \A f \in DOMAIN closures :
            closures[f].kind # "reject" /\ closures[f].callback = cb /\ cb.is = "promise" => f = o
      BY <1>o, <1>cb, CompletionKeeps
    <3> QED
      BY <3>1, <3>2
  <2>4. ToSchedule(c) = << >>
    <3>1. promises[p].out = Result(o)
      BY <1>5, <2>2, <2>3 DEF Tells
    <3>2. ToSchedule(c) = Subscribers(promises[p].out)
      BY <1>cb, <2>1, ValueForms DEF ToSchedule
    <3> QED
      BY <3>1, <3>2 DEF Subscribers, Result
  <2>5. queue' = queue \o << >>
    <3>1. queue' = Scheduled(<< >>, o, how)
      BY <1>o, <2>4 DEF AsyncComplete
    <3> QED
      BY <3>1 DEF Scheduled
  <2>6. queue \o << >> = queue
    <3>1. queue \in Seq(JobRecord)
      BY DEF IInv, Shapes
    <3> HIDE DEF JobRecord
    <3> QED
      BY <3>1, ConcatEmptySeq
  <2>7. queue' = queue
    BY <2>5, <2>6
  <2> QED
    BY <2>7 DEF Ready
<1>10. \A x \in Op : Stage(x)' = Stage(x) /\ WaitersOf(x)' = WaitersOf(x)
  BY <1>2, <1>6, <1>7
<1>11. Operations!Next
  BY <1>1, <1>6, <1>8, <1>9, <1>10, SettleAgainMapped
<1> QED
  BY <1>1, <1>11

-----------------------------------------------------------------------------
(* Every step.                                                             *)

LEMMA RunJobRefines ==
    ASSUME IInv, IInv', Owned, RunJob
    PROVE  Owned' /\ Operations!Next
<1>c. PICK c : c = Head(queue).continuation
  OBVIOUS
<1>1. /\ closures[c].cont = Resume /\ closures' = [closures EXCEPT ![c].cont = Deleted]
      /\ queue # << >> /\ queue' = Tail(queue) /\ UNCHANGED <<promises, outcome>>
  BY <1>c DEF RunJob
<1>2. c \in DOMAIN closures /\ closures[c].kind = "async"
  <2>1. 1 \in DOMAIN queue /\ Head(queue) = queue[1]
    <3>1. queue \in Seq(JobRecord)
      BY DEF IInv, Shapes
    <3> HIDE DEF JobRecord
    <3> QED
      BY <1>1, <3>1
  <2> QED
    BY <1>c, <2>1 DEF IInv, References, IsAsync
<1>3. /\ DOMAIN closures' = DOMAIN closures /\ Len(closures') = Len(closures)
      /\ \A d \in DOMAIN closures :
            /\ closures'[d].kind = closures[d].kind /\ closures'[d].callback = closures[d].callback
            /\ closures'[d].cont = NoOp <=> closures[d].cont = NoOp
      /\ c \in Op /\ Stage(c) = "suspended"
      /\ \A o \in Op : Stage(o)' = IF o = c THEN "running" ELSE Stage(o)
      /\ \A o \in Op : Stage(o) \in {"running", "suspended"} <=> Stage(o)' \in {"running", "suspended"}
  BY <1>1, <1>2, OnlyItsStage, ValueForms
<1>4. Owned' /\ UNCHANGED OpenPromises
  BY <1>1, <1>3, OwnedStays DEF IInv
<1>5. \A o \in Op : WaitersOf(o)' = WaitersOf(o)
  <2>1. \A o \in DOMAIN closures : ToSchedule(o)' = ToSchedule(o)
    BY <1>1, <1>3 DEF ToSchedule
  <2>2. \A o \in Op : Stage(o) \in {"running", "suspended"} => o \in DOMAIN closures
    BY DEF Stage
  <2> QED
    BY <1>3, <2>1, <2>2 DEF WaitersOf
<1> QED
  BY <1>1, <1>3, <1>4, <1>5, <1>c, ResumeMapped

(* What happens in frames only does not concern the operations.            *)
LEMMA FramesAreHidden ==
    ASSUME IInv, IInv', Owned, UNCHANGED <<closures, promises, queue, outcome>>
    PROVE  Owned' /\ UNCHANGED Operations!vars
<1>1. Owned' /\ UNCHANGED OpenPromises
  BY OwnedStays DEF IInv
<1>2. \A x : Stage(x)' = Stage(x) /\ ToSchedule(x)' = ToSchedule(x)
  BY DEF Stage, ToSchedule
<1>3. \A x \in Op : Stage(x)' = Stage(x) /\ WaitersOf(x)' = WaitersOf(x)
  BY <1>2 DEF WaitersOf
<1> QED
  BY <1>1, <1>3, StutterMapped

(* Only async functions wait.                                              *)
LEMMA OthersDoNotWait ==
    ASSUME IInv, NEW o, ~ IsAsync(o)
    PROVE  WakersOf(o) = {}
<1> SUFFICES ASSUME NEW x \in WakersOf(o) PROVE FALSE
  OBVIOUS
<1>1. \A i \in DOMAIN queue : queue[i].continuation # o
  BY DEF IInv, References
<1>2. \A p \in DOMAIN promises : \A i \in DOMAIN Subscribers(promises[p].out) : Subscribers(promises[p].out)[i] # o
  BY DEF IInv, References, OutFits
<1>3. \A d \in DOMAIN closures : closures[d].callback # Closure(o)
  BY ClosuresDiffer, ValueForms DEF IInv, References, SlotsFit, IsPromise
<1> QED
  BY <1>1, <1>2, <1>3, WakerForms

LEMMA CallAsyncRefines ==
    ASSUME IInv, IInv', Owned, NEW call, NEW cb \in Value, CallAsync(call, closures, cb),
           cb.is = "closure" => \E a : AwaitedBy(cb, a)
    PROVE  Owned' /\ Operations!Next
<1>1. PICK void \in BOOLEAN : void = (call = "void")
  OBVIOUS
<1>2. /\ closures' = Append(closures, [kind |-> "async", cont |-> Deleted,
                                       callback |-> AsyncStartUnsafe(cb, void).callback])
      /\ promises' = AsyncStartUnsafe(cb, void).promises
      /\ Len(closures) < MaxClosures /\ UNCHANGED <<queue, outcome>>
  BY <1>1 DEF CallAsync
<1> QED
  BY <1>2, StartMapped

LEMMA HostStartRefines ==
    ASSUME IInv, IInv', Owned, HostAsyncStart
    PROVE  Owned' /\ (Operations!Next \/ UNCHANGED Operations!vars)
<1>v. PICK void \in BOOLEAN : void = (Top.call = "void")
  OBVIOUS
<1>c. PICK cb : cb = cps
  OBVIOUS
<1>s. PICK s : s = AsyncStartUnsafe(cb, void)
  OBVIOUS
<1>1. /\ promises' = s.promises /\ UNCHANGED <<queue, outcome>>
      /\ IF s.callback = NoOp THEN UNCHANGED closures
         ELSE /\ Len(closures) < MaxClosures
              /\ closures' = Append(closures, [kind |-> "host", cont |-> Undefined, callback |-> s.callback])
      /\ ~ Idle /\ Top.kind = "host" /\ Top.fresh
  BY <1>v, <1>c, <1>s DEF HostAsyncStart
<1>2. cb \in Value
  BY <1>c DEF IInv, Shapes
<1>3. cb.is = "closure" => \E a : AwaitedBy(cb, a)
  <2>n. PICK n : n = Len(stack)
    OBVIOUS
  <2>1. n \in DOMAIN stack /\ n \in Nat /\ DOMAIN stack = 1 .. n /\ Top = stack[n]
    BY <1>1, <2>n, ShapesOpen DEF IInv, Top
  <2>2. cb = IF Top.call = "await" THEN Closure(stack[n - 1].closure) ELSE Undefined
    BY <1>1, <1>c, <2>n DEF IInv, CallbackOfCaller
  <2>3. CASE Top.call = "await"
    <3>1. FrameFits(n)
      BY <2>1 DEF IInv, Frames
    <3>2. n > 1 /\ n - 1 \in DOMAIN stack /\ stack[n - 1].kind = "async" /\ stack[n].sync = Undefined
      BY <1>1, <2>1, <2>3, <2>n, <3>1 DEF FrameFits
    <3>3. IsAsync(stack[n - 1].closure) /\ OnStack(stack[n - 1].closure)
      BY <3>2 DEF IInv, Frames, FrameFits, OnStack
    <3>4. ~ Waiting(n - 1)
      <4>1. (n - 1) + 1 = n /\ n - 1 # Len(stack)
        <5>1. n \in Nat
          BY <2>1
        <5>2. (n - 1) + 1 = n /\ n - 1 # n
          BY <5>1
        <5> QED
          BY <2>n, <5>2
      <4>2. stack[n].sync # Deleted
        BY <3>2, ValueForms
      <4> QED
        BY <4>1, <4>2 DEF Waiting
    <3>5. WakersOf(stack[n - 1].closure) = {}
      BY <3>2, <3>4 DEF IInv, Wakers
    <3>6. AwaitedBy(cb, stack[n - 1].closure)
      BY <2>2, <2>3, <3>3, <3>5 DEF AwaitedBy, IInv, RunsOnce, IsAsync
    <3> QED
      BY <3>6
  <2>4. CASE Top.call # "await"
    BY <2>2, <2>4, ValueForms
  <2> QED
    BY <2>3, <2>4
<1>4. CASE s.callback = NoOp
  <2>1. promises' = promises
    BY <1>1, <1>4, <1>s, <1>2, AsyncStarts, ValueForms DEF AsyncStartUnsafe
  <2> QED
    BY <1>1, <1>4, <2>1, FramesAreHidden
<1>5. CASE s.callback # NoOp
  <2>1. /\ closures' = Append(closures, [kind |-> "host", cont |-> Undefined,
                                         callback |-> AsyncStartUnsafe(cb, void).callback])
        /\ promises' = AsyncStartUnsafe(cb, void).promises
        /\ Len(closures) < MaxClosures /\ UNCHANGED <<queue, outcome>>
    BY <1>1, <1>5, <1>s
  <2> QED
    BY <1>2, <1>3, <2>1, StartMapped
<1> QED
  BY <1>4, <1>5

LEMMA SettleRefines ==
    ASSUME IInv, IInv', Owned,
           NEW c \in DOMAIN closures, NEW how \in {"resolved", "rejected"}, closures[c].kind # "async",
           Settle(c, how)
    PROVE  Owned' /\ (Operations!Next \/ UNCHANGED Operations!vars)
<1>1. CASE closures[c].cont = NoOp
  BY <1>1, FramesAreHidden DEF Settle
<1>2. CASE closures[c].cont # NoOp
  <2>1. AsyncComplete(c, how)
    BY <1>2 DEF Settle
  <2>2. CASE \E d \in DOMAIN closures : OpOf(d) = OpOf(c) /\ closures[d].cont = NoOp
    BY <1>2, <2>1, <2>2, SettleAgainRefines
  <2>3. closures[c].cont \in {Deleted, Undefined}
    BY <1>2 DEF IInv, References, SlotsFit
  <2>4. WakersOf(OpOf(c)) = {}
    <3>1. PICK o : o = OpOf(c)
      OBVIOUS
    <3>2. ~ IsAsync(o)
      BY <3>1, OperationOf DEF IInv, Owned, IsAsync
    <3> QED
      BY <3>1, <3>2, OthersDoNotWait
  <2> QED
    BY <2>1, <2>2, <2>3, <2>4, CompletionRefines
<1> QED
  BY <1>1, <1>2

LEMMA CompleteRefines ==
    ASSUME IInv, IInv', Owned, NEW how \in {"resolved", "rejected"}, Complete(how)
    PROVE  Owned' /\ Operations!Next
<1>t. PICK t : t = Top.closure
  OBVIOUS
<1>1. JSRuns /\ Top.kind = "async" /\ AsyncComplete(t, how)
  BY <1>t DEF Complete
<1>2. t \in DOMAIN closures /\ closures[t].kind = "async" /\ closures[t].cont = Deleted /\ WakersOf(t) = {}
  <2>1. Len(stack) \in DOMAIN stack
    BY <1>1, ShapesOpen DEF IInv, JSRuns
  <2>2. IsAsync(t) /\ OnStack(t)
    BY <1>t, <1>1, <2>1 DEF IInv, Frames, FrameFits, OnStack, Top
  <2> QED
    BY <1>t, <1>1, <2>2, NoWakerAtTop DEF IInv, RunsOnce, IsAsync
<1>3. OpOf(t) = t
  BY <1>2 DEF OpOf
<1>4. \A d \in DOMAIN closures : OpOf(d) = OpOf(t) => closures[d].cont # NoOp
  <2> SUFFICES ASSUME NEW d \in DOMAIN closures, OpOf(d) = t PROVE closures[d].cont # NoOp
    BY <1>3
  <2>1. d = t
    BY <1>2, OperationOf DEF IInv, Owned
  <2> QED
    BY <1>2, <2>1, ValueForms
<1> QED
  BY <1>1, <1>2, <1>3, <1>4, CompletionRefines

LEMMA NextRefines ==
    ASSUME IInv, IInv', Owned, [Next]_vars
    PROVE  Owned' /\ [Operations!Next]_Operations!vars
<1>0. ASSUME Operations!Next \/ UNCHANGED Operations!vars PROVE [Operations!Next]_Operations!vars
  BY <1>0
<1>1. CASE JSCallsAsync
  <2>1. PICK call \in JSCalls : JSRuns /\ CallAsync(call, Calling(call), CpsFor(call))
    BY <1>1 DEF JSCallsAsync
  <2>2. Calling(call) = closures
    BY <2>1, CallingPoisonsAgain
  <2>3. PICK cb : cb = CpsFor(call)
    OBVIOUS
  <2>4. CallAsync(call, closures, cb)
    BY <2>1, <2>2, <2>3
  <2>5. cb \in Value /\ (cb.is = "closure" => \E a : AwaitedBy(cb, a))
    <3>1. CASE call = "await"
      <4>1. PICK t : t = Top.closure
        OBVIOUS
      <4>2. Top.kind = "async" /\ Len(stack) \in DOMAIN stack
        BY <2>1, <3>1, ShapesOpen DEF JSCalls, JSRuns, IInv
      <4>3. IsAsync(t) /\ OnStack(t) /\ WakersOf(t) = {}
        BY <2>1, <4>1, <4>2, NoWakerAtTop DEF IInv, Frames, FrameFits, OnStack, Top
      <4>4. cb = Closure(t) /\ t \in Nat
        <5>1. t \in Nat
          BY <4>3, ShapesOpen DEF IInv, IsAsync
        <5> QED
          BY <2>3, <3>1, <4>1, <5>1 DEF CpsFor
      <4>5. AwaitedBy(cb, t)
        BY <4>3, <4>4 DEF AwaitedBy, IInv, RunsOnce, IsAsync
      <4> QED
        BY <4>4, <4>5, ValueShapes
    <3>2. CASE call # "await"
      BY <2>3, <3>2, ValueForms, ValueShapes DEF CpsFor
    <3> QED
      BY <3>1, <3>2
  <2> QED
    BY <1>0, <2>4, <2>5, CallAsyncRefines
<1>2. CASE JSCallsOther
  <2>1. PICK call \in JSCalls : closures' = Calling(call)
    BY <1>2 DEF JSCallsOther
  <2>2. UNCHANGED <<closures, promises, queue, outcome>>
    BY <1>2, <2>1, CallingPoisonsAgain DEF JSCallsOther
  <2> QED
    BY <1>0, <2>2, FramesAreHidden
<1>3. CASE NewPromise
  BY <1>0, <1>3, NewPromiseMapped
<1>4. CASE AwaitPromise
  <2>1. PICK p \in VisiblePromises : Await(Promise(p))
    BY <1>4 DEF AwaitPromise
  <2>2. ~ Idle /\ Top.operand = Nothing /\ Top.kind = "async"
    BY <1>4 DEF AwaitPromise, JSRuns
  <2>3. IsPromise(Promise(p)) /\ Promise(p) # Deleted
    BY <2>1, ValueForms DEF VisiblePromises, IsPromise
  <2> QED
    BY <1>0, <2>1, <2>2, <2>3, AwaitRefines
<1>5. CASE AwaitCallee
  <2>1. ~ Idle /\ Top.operand # Nothing /\ Await(Top.operand)
    BY <1>5 DEF AwaitCallee
  <2>2. Top.kind = "async" /\ (Top.operand = Deleted \/ IsPromise(Top.operand))
    BY <2>1, ShapesOpen DEF IInv, Frames, FrameFits, Top
  <2>3. PICK v : v = Top.operand
    OBVIOUS
  <2> QED
    <3>1. Await(v) /\ (v = Deleted \/ IsPromise(v)) /\ Top.operand = v
      BY <2>1, <2>2, <2>3
    <3> QED
      BY <1>0, <2>1, <2>2, <3>1, AwaitRefines
<1>6. ASSUME NEW how \in {"resolved", "rejected"}, Complete(how)
      PROVE  Owned' /\ [Operations!Next]_Operations!vars
  BY <1>0, <1>6, CompleteRefines
<1>7. CASE PlainReturns \/ Throw \/ HostReturns \/ Collect
  <2>1. UNCHANGED <<closures, promises, queue, outcome>>
    BY <1>7 DEF PlainReturns, Throw, HostReturns, Collect
  <2> QED
    BY <1>0, <2>1, FramesAreHidden
<1>8. CASE RunJob
  BY <1>0, <1>8, RunJobRefines
<1>9. CASE HostCalls
  <2>1. CASE CallAsync("host", closures, Undefined)
    <3>1. Undefined \in Value /\ Undefined.is # "closure"
      BY ValueForms, ValueShapes
    <3> QED
      BY <1>0, <2>1, <3>1, CallAsyncRefines
  <2>2. CASE UNCHANGED <<closures, promises, queue, outcome>>
    BY <1>0, <2>2, FramesAreHidden
  <2> QED
    BY <1>9, <2>1, <2>2 DEF HostCalls
<1>10. CASE HostAsyncStart
  BY <1>0, <1>10, HostStartRefines
<1>11. ASSUME NEW c \in DOMAIN closures, NEW how \in Completers(c), Settle(c, how)
       PROVE  Owned' /\ [Operations!Next]_Operations!vars
  <2>1. how \in {"resolved", "rejected"} /\ closures[c].kind # "async"
    <3>1. closures[c].kind \in {"async", "host", "resolve", "reject"}
      BY ShapesOpen DEF IInv, ClosureRecord
    <3> QED
      BY <3>1 DEF Completers
  <2> QED
    BY <1>0, <1>11, <2>1, SettleRefines
<1>12. CASE UNCHANGED vars
  <2>1. UNCHANGED <<closures, promises, queue, outcome>>
    BY <1>12 DEF vars
  <2> QED
    BY <1>0, <2>1, FramesAreHidden
<1> QED
  BY <1>1, <1>2, <1>3, <1>4, <1>5, <1>6, <1>7, <1>8, <1>9, <1>10, <1>11, <1>12 DEF Next

LEMMA InitRefines == Init => Owned /\ Operations!Init
<1> SUFFICES ASSUME Init PROVE Owned /\ Operations!Init
  OBVIOUS
<1>1. IInv
  BY InitEstablishes
<1>2. closures = << >> /\ promises = << >> /\ queue = << >> /\ outcome = [o \in Op |-> "none"]
  BY DEF Init
<1>3. Owned
  <2>1. Outcomes
    BY <1>2, BoundsAssumption DEF Outcomes
  <2> QED
    BY <1>2, <2>1 DEF Owned, Pairs, Owners
<1>4. \A o : Stage(o) = "none" /\ WaitersOf(o) = << >>
  BY <1>2 DEF Stage, WaitersOf
<1>5. Ready(queue) = << >>
  BY <1>2 DEF Ready
<1>6. OpenPromises = {}
  BY <1>2 DEF OpenPromises, IsOpen
<1> QED
  BY <1>1, <1>2, <1>3, <1>4, <1>5, <1>6, Mapping DEF Operations!Init

(* The closures and promises of the engine do what AsyncOps says of        *)
(* operations: each completes once, or twice if the program settles its    *)
(* promise twice, and whoever awaits it is woken up once by the queue,     *)
(* with the outcome of then and not while it runs.                         *)
THEOREM AsyncImplementsOps == Spec => ImplementsAsyncOps
<1>1. Init => Owned /\ Operations!Init
  BY InitRefines
<1>2. IInv /\ IInv' /\ Owned /\ [Next]_vars => Owned' /\ [Operations!Next]_Operations!vars
  BY NextRefines
<1> QED
  BY <1>1, <1>2, InvariantHolds, PTL DEF Spec, ImplementsAsyncOps, Operations!Spec
=============================================================================
