----------------------------- MODULE CallProofs -----------------------------
(***************************************************************************)
(* Proofs about CallMachine for any functions, any size of the stack and   *)
(* any number of nested calls of mvm_call.                                 *)
(*                                                                         *)
(* The early return of mvm_call for too many arguments clears the catch    *)
(* target of the code that called the host function (HostPassesTooMany).   *)
(* The theorems are about hosts that do not do this in a nested call.      *)
(***************************************************************************)
EXTENDS CallMachine, NaturalsInduction, WellFoundedInduction, SequenceTheorems, TLAPS

-----------------------------------------------------------------------------
(* The inductive invariant.                                                *)

Word == UNION {{Val}, {"size"} \X Nat, {"closure"} \X Scopes, {"flags"} \X AllFlags,
               {"pc"} \X Code, {"catch"} \X Int, {"handler"} \X Handlers}

Registers == [fb : Nat, pc : Code, flags : AllFlags, closure : Scopes, catch : Nat, queue : Nat]
InHost == [flags : AllFlags, savedFlags : AllFlags, regCopy : Registers, sp : Nat]
Activations == [entry : Registers, sp : Nat, asked : BOOLEAN,
                out : {"unset", "result", "exception"}, host : InHost]

Shapes ==
    /\ stack \in Seq(Word)
    /\ reg \in Registers
    /\ calls \in Seq(Activations)

IsCatch(stk, p) == stk[p][1] = "catch"
IsReturn(stk, b) == stk[b][1] = "pc"

(* The words above `from` are not of catch targets, and no frame starts    *)
(* there.                                                                  *)
OnlyOperands(stk, from, to) ==
    \A p \in from + 1 .. to : ~ IsCatch(stk, p) /\ ~ IsReturn(stk, p) /\ stk[p][1] # "handler"

(* A frame of JS code starts after b words, of which s are older than its  *)
(* activation.                                                             *)
Boundaried(stk, s, b) ==
    /\ b >= s + BoundaryWords
    /\ IsReturn(stk, b) /\ stk[b - 1][1] = "flags" /\ stk[b - 2][1] = "closure" /\ stk[b - 3][1] = "size"
    /\ CallerBase(stk, b) >= 0

(* A frame with the flags f returns to another one of its activation or to *)
(* the host.                                                               *)
Frame(stk, s, b, f) ==
    LET below == b - BoundaryWords - Operands(f)
    IN  /\ Boundaried(stk, s, b)
        /\ OnlyOperands(stk, below, b - 1)
        /\ IF f.fromHost THEN below = s /\ CallerBase(stk, b) <= s
                         ELSE CallerBase(stk, b) \in s + 1 .. below

(* The function whose code the frame at b executes finds its room, and the *)
(* catch targets above b are its own.                                      *)
RoomFor(b, pc, words) ==
    /\ FunctionOf(pc) \in Functions
    /\ b + FrameWords[FunctionOf(pc)] + Temporaries <= StackWords
    /\ words <= FrameWords[FunctionOf(pc)]

OwnCatch(stk, b, pc, t) ==
    \A p \in b + 1 .. t : IsCatch(stk, p) =>
        /\ p + 1 <= t /\ p + 1 - b <= FrameWords[FunctionOf(pc)]
        /\ \E h \in HandlersOf[FunctionOf(pc)] : stk[p + 1] = <<"handler", h>>

(* The catch targets of an activation are linked, c is the innermost.      *)
Chained(stk, s, c, t) ==
    /\ c = 0 \/ (c \in s + 1 .. t - 1 /\ IsCatch(stk, c))
    /\ \A p \in s + 1 .. t : IsCatch(stk, p) =>
        /\ p <= c
        /\ OuterCatch(stk, p) = 0 \/ (OuterCatch(stk, p) \in s + 1 .. p - 2 /\ IsCatch(stk, OuterCatch(stk, p)))
        /\ \A q \in s + 1 .. p - 1 : IsCatch(stk, q) => q <= OuterCatch(stk, p)

(* The frames of an activation below the innermost one have their room,    *)
(* too.                                                                    *)
Linked(stk, s, t) ==
    \A b \in s + 1 .. t : IsReturn(stk, b) =>
        /\ Boundaried(stk, s, b)
        /\ CallerBase(stk, b) > s =>
            /\ CallerBase(stk, b) <= b - BoundaryWords
            /\ Frame(stk, s, CallerBase(stk, b), stk[b - 1][2])
            /\ RoomFor(CallerBase(stk, b), stk[b][2], b - BoundaryWords - CallerBase(stk, b))
            /\ OwnCatch(stk, CallerBase(stk, b), stk[b][2], b - BoundaryWords)

(* JS code with the registers r uses the stack up to t.                    *)
JSState(stk, s, r, t) ==
    /\ r.fb <= t
    /\ Frame(stk, s, r.fb, r.flags)
    /\ RoomFor(r.fb, r.pc, t - r.fb - 1)
    /\ OwnCatch(stk, r.fb, r.pc, t)
    /\ Chained(stk, s, r.catch, t)
    /\ Linked(stk, s, t)

(* The operands of a call are on the stack up to t, for code with the      *)
(* registers r or for the host.                                            *)
Ready(stk, s, r, f, t) ==
    LET below == t - Operands(f)
    IN  /\ OnlyOperands(stk, below, t)
        /\ IF f.fromHost THEN below = s /\ r.fb <= s /\ r.catch = 0
                         ELSE JSState(stk, s, r, below) /\ RoomFor(r.fb, r.pc, t - r.fb)

(* The registers r of a host function that the activation a called as its  *)
(* caller will find them, with the catch target it should have.            *)
CallerOf(a, r) == [r EXCEPT !.flags = a.host.savedFlags, !.catch = a.host.regCopy.catch]

(* A host function that the activation a called runs, with the registers r *)
(* and the stack up to t, the last word the slot for its result.  The      *)
(* catch target may be lost: see HostPassesTooMany.                        *)
HostState(stk, a, r, t) ==
    /\ a.host.sp = t /\ t > a.sp
    /\ r.fb = a.host.regCopy.fb /\ r.pc = a.host.regCopy.pc /\ r.catch \in {a.host.regCopy.catch, 0}
    /\ [r.flags EXCEPT !.override = FALSE] = a.host.regCopy.flags
    /\ ~ IsCatch(stk, t) /\ ~ IsReturn(stk, t)
    /\ Ready(stk, a.sp, CallerOf(a, r), a.host.flags, t - 1)

(* The activations below the innermost one wait in host functions.         *)
Suspended(stk, cs) ==
    /\ cs # << >> => cs[1].sp = 0 /\ cs[1].entry.catch = 0 /\ cs[1].entry.fb = 0
    /\ \A i, j \in DOMAIN cs : i < j => cs[i].sp < cs[j].sp
    /\ \A k \in 2 .. Len(cs) : HostState(stk, cs[k - 1], cs[k].entry, cs[k].sp)

Consistent ==
    /\ Suspended(stack, calls)
    /\ calls = << >> => mode = "host" /\ stack = << >> /\ reg.fb = 0 /\ reg.catch = 0 /\ reg.queue = 0
    /\ calls # << >> /\ mode = "js" => JSState(stack, TopCall.sp, reg, Len(stack))
    /\ calls # << >> /\ mode # "js" => HostState(stack, TopCall, reg, Len(stack))

\* CurrentRegisters: what is allocated is what the registers are about.
Allocated == ~ allocated => stack = << >> /\ calls = << >>

IInv == Shapes /\ Allocated /\ Consistent

-----------------------------------------------------------------------------
(* Induction and the loop of SUB_THROW.                                    *)

(* A set of natural numbers has a least element.                           *)
LEMMA LeastNatural ==
    ASSUME NEW T, T \subseteq Nat, T # {}
    PROVE  \E n \in T : \A m \in T : n <= m
<1>1. PICK n \in T : \A m \in T : ~ (<<m, n>> \in OpToRel(<, Nat))
  BY NatLessThanWellFounded, WFMin
<1>2. \A m \in T : <<m, n>> \in OpToRel(<, Nat) <=> m < n
  BY DEF OpToRel
<1>3. ASSUME NEW m \in T PROVE n <= m
  <2>1. ~ (m < n)
    BY <1>1, <1>2
  <2>2. m \in Nat /\ n \in Nat
    OBVIOUS
  <2> QED
    BY <2>1, <2>2
<1> QED
  BY <1>3

(* The recursive definition of OutermostPopped has a solution: the last    *)
(* element of the chain of frames that the loop visits.                    *)
LEMMA PoppedUnfolds ==
    ASSUME NEW stk, NEW c \in Nat
    PROVE  \A b \in Nat : OutermostPopped(stk, c)[b] =
                IF CallerBase(stk, b) \in c .. b - 1 THEN OutermostPopped(stk, c)[CallerBase(stk, b)]
                ELSE b
<1> DEFINE Goes(b) == CallerBase(stk, b) \in c .. b - 1
           Closed(S) == \A x \in S : Goes(x) => CallerBase(stk, x) \in S
           Chain(b) == {x \in Nat : \A S \in SUBSET Nat : b \in S /\ Closed(S) => x \in S}
           Ends(b) == {x \in Chain(b) : ~ Goes(x)}
           One(S) == CHOOSE x : x \in S
           f == [b \in Nat |-> IF Goes(b) THEN One(Ends(b)) ELSE b]
           Eq(g) == g = [b \in Nat |-> IF CallerBase(stk, b) \in c .. b - 1 THEN g[CallerBase(stk, b)] ELSE b]
<1>1. ASSUME NEW b \in Nat, ~ Goes(b) PROVE Chain(b) = {b}
  <2>1. {b} \in SUBSET Nat /\ b \in {b} /\ Closed({b})
    BY <1>1
  <2>2. \A x \in Chain(b) : x \in {b}
    BY <2>1
  <2>3. b \in Chain(b)
    OBVIOUS
  <2> QED
    BY <2>2, <2>3
<1>2. ASSUME NEW b \in Nat, Goes(b) PROVE Ends(b) = Ends(CallerBase(stk, b))
  <2>d. PICK d : d = CallerBase(stk, b)
    OBVIOUS
  <2>1. d \in Nat
    BY <1>2, <2>d
  <2>2. Chain(b) \subseteq {b} \cup Chain(d)
    <3>1. Closed({b} \cup Chain(d))
      <4>1. d \in Chain(d)
        BY <2>1
      <4>2. ASSUME NEW x \in Chain(d), Goes(x) PROVE CallerBase(stk, x) \in Chain(d)
        <5>1. CallerBase(stk, x) \in Nat
          BY <4>2
        <5>2. ASSUME NEW S \in SUBSET Nat, d \in S, Closed(S) PROVE CallerBase(stk, x) \in S
          BY <4>2, <5>2
        <5> QED
          BY <5>1, <5>2
      <4> HIDE DEF Chain, Goes
      <4> QED
        BY <4>1, <4>2, <2>d
    <3>2. {b} \cup Chain(d) \in SUBSET Nat
      OBVIOUS
    <3> HIDE DEF Closed
    <3> QED
      BY <3>1, <3>2
  <2>3. Chain(d) \subseteq Chain(b)
    BY <1>2, <2>d, <2>1
  <2>4. b \notin Ends(b)
    BY <1>2
  <2> HIDE DEF Chain, Goes
  <2> QED
    BY <2>2, <2>3, <2>4, <2>d, <1>2
<1>3. Eq(f)
  <2>1. ASSUME NEW b \in Nat
        PROVE  f[b] = IF CallerBase(stk, b) \in c .. b - 1 THEN f[CallerBase(stk, b)] ELSE b
    <3>1. CASE Goes(b)
      <4>d. PICK d : d = CallerBase(stk, b)
        OBVIOUS
      <4>1. d \in Nat /\ Ends(b) = Ends(d)
        BY <3>1, <4>d, <1>2
      <4>2. f[b] = One(Ends(b))
        BY <3>1
      <4>3. f[d] = One(Ends(d))
        <5>1. CASE Goes(d)
          BY <4>1, <5>1
        <5>2. CASE ~ Goes(d)
          <6>1. Ends(d) = {d}
            BY <5>2, <4>1, <1>1
          <6>2. f[d] = d
            BY <5>2, <4>1
          <6> QED
            BY <6>1, <6>2
        <5> QED
          BY <5>1, <5>2
      <4>4. f[b] = f[d]
        <5> HIDE DEF f, One, Ends
        <5> QED
          BY <4>1, <4>2, <4>3
      <4>5. CallerBase(stk, b) \in c .. b - 1
        BY <3>1
      <4> HIDE DEF f
      <4> QED
        BY <4>4, <4>5, <4>d
    <3>2. CASE ~ Goes(b)
      BY <3>2
    <3> QED
      BY <3>1, <3>2
  <2>2. f = [b \in Nat |-> f[b]]
    OBVIOUS
  <2> HIDE DEF f
  <2> QED
    BY <2>1, <2>2
<1>4. OutermostPopped(stk, c) = CHOOSE g : Eq(g)
  BY DEF OutermostPopped
<1> HIDE DEF Eq
<1>5. Eq(OutermostPopped(stk, c))
  BY <1>3, <1>4
<1> QED
  BY <1>5 DEF Eq

-----------------------------------------------------------------------------
(* Words.                                                                  *)

LEMMA Words ==
    ASSUME NEW w \in Word
    PROVE  /\ w[1] = "size" => w[2] \in Nat
           /\ w[1] = "closure" => w[2] \in Scopes
           /\ w[1] = "flags" => w[2] \in AllFlags
           /\ w[1] = "pc" => w[2] \in Code
           /\ w[1] = "catch" => w[2] \in Int
           /\ w[1] = "handler" => w[2] \in Handlers
BY DEF Word, Val

LEMMA NewWords ==
    /\ Val \in Word /\ Val[1] = "value"
    /\ \A n \in Nat : <<"size", n>> \in Word
    /\ \A s \in Scopes : <<"closure", s>> \in Word
    /\ \A f \in AllFlags : <<"flags", f>> \in Word
    /\ \A c \in Code : <<"pc", c>> \in Word
    /\ \A n \in Int : <<"catch", n>> \in Word
    /\ \A h \in Handlers : <<"handler", h>> \in Word
BY DEF Word, Val

(* The first words of a stack, and a stack with more words on top.         *)
LEMMA CutShape ==
    ASSUME NEW S, NEW stk \in Seq(S), NEW n \in 0 .. Len(stk)
    PROVE  /\ SubSeq(stk, 1, n) \in Seq(S) /\ Len(SubSeq(stk, 1, n)) = n
           /\ \A i \in 1 .. n : SubSeq(stk, 1, n)[i] = stk[i]
<1>1. n \in Nat /\ Len(stk) \in Nat
  BY LenProperties
<1>2. 1 \in Int /\ n \in Int /\ \A i \in 1 .. n : stk[i] \in S
  BY <1>1
<1>3. PICK m : m = 1
  OBVIOUS
<1>4. /\ SubSeq(stk, m, n) \in Seq(S)
      /\ Len(SubSeq(stk, m, n)) = IF m <= n THEN n - m + 1 ELSE 0
      /\ \A i \in 1 .. n - m + 1 : SubSeq(stk, m, n)[i] = stk[m + i - 1]
  BY <1>2, <1>3, SubSeqProperties
<1>5. IF m <= n THEN n - m + 1 = n ELSE n = 0
  BY <1>1, <1>3
<1>6. n - m + 1 = n /\ \A i \in 1 .. n : m + i - 1 = i
  BY <1>1, <1>3
<1> QED
  BY <1>3, <1>4, <1>5, <1>6

LEMMA FrontShape ==
    ASSUME NEW S, NEW cs \in Seq(S), cs # << >>
    PROVE  /\ Front(cs) \in Seq(S) /\ Len(Front(cs)) = Len(cs) - 1
           /\ \A i \in 1 .. Len(cs) - 1 : Front(cs)[i] = cs[i]
<1>1. Len(cs) \in Nat /\ Len(cs) # 0
  BY LenProperties, EmptySeq
<1>2. PICK n : n = Len(cs) - 1
  OBVIOUS
<1>3. n \in 0 .. Len(cs)
  BY <1>1, <1>2
<1>4. Front(cs) = SubSeq(cs, 1, n)
  BY <1>2, Zenon DEF Front
<1> QED
  BY <1>2, <1>3, <1>4, CutShape

LEMMA FlagsShape ==
    /\ \A f \in AllFlags : Operands(f) \in Nat /\ f.fromHost \in BOOLEAN /\ f.void \in BOOLEAN
    /\ NoFlags \in AllFlags /\ NoFlags.fromHost = FALSE
BY DEF AllFlags, Operands, NoFlags

LEMMA BoundaryShape ==
    ASSUME NEW stk \in Seq(Word), NEW s \in Nat, NEW b \in Int, b <= Len(stk), Boundaried(stk, s, b)
    PROVE  /\ b \in Nat /\ b - 1 \in 1 .. Len(stk) /\ b - 2 \in 1 .. Len(stk) /\ b - 3 \in s + 1 .. Len(stk)
           /\ b \in 1 .. Len(stk)
           /\ CallerBase(stk, b) \in Nat /\ CallerBase(stk, b) <= b - 4
           /\ stk[b - 2][2] \in Scopes /\ stk[b - 1][2] \in AllFlags /\ stk[b][2] \in Code
<1>1. b \in Nat /\ b >= 4 /\ b - 3 \in s + 1 .. Len(stk) /\ Len(stk) \in Nat
  BY LenProperties DEF Boundaried, BoundaryWords
<1>2. b - 1 \in 1 .. Len(stk) /\ b - 2 \in 1 .. Len(stk) /\ b \in 1 .. Len(stk) /\ b - 3 \in 1 .. Len(stk)
  BY <1>1
<1>3. stk[b] \in Word /\ stk[b - 1] \in Word /\ stk[b - 2] \in Word /\ stk[b - 3] \in Word
  <2> HIDE DEF Word
  <2> QED
    BY <1>2
<1>4. stk[b - 3][2] \in Nat /\ stk[b - 2][2] \in Scopes /\ stk[b - 1][2] \in AllFlags /\ stk[b][2] \in Code
  BY <1>3, Words DEF Boundaried, IsReturn
<1>5. CallerBase(stk, b) \in Nat /\ CallerBase(stk, b) <= b - 4
  BY <1>1, <1>4, SMTT(20) DEF Boundaried, CallerBase, BoundaryWords
<1> QED
  BY <1>1, <1>2, <1>4, <1>5

(* The outer target of a catch target is computed from the words there.    *)
LEMMA OuterCatchShape ==
    ASSUME NEW stk \in Seq(Word), NEW p \in 1 .. Len(stk), IsCatch(stk, p)
    PROVE  OuterCatch(stk, p) \in Int
<1>1. stk[p] \in Word
  <2> HIDE DEF Word
  <2> QED
    OBVIOUS
<1>2. stk[p][2] \in Int /\ p \in Int
  BY <1>1, Words, LenProperties DEF IsCatch
<1> QED
  BY <1>2 DEF OuterCatch

-----------------------------------------------------------------------------
(* What an activation has on the stack does not depend on anything else.   *)

LEMMA BoundarySame ==
    ASSUME NEW stk \in Seq(Word), NEW s \in Nat, NEW t \in Nat, t <= Len(stk), NEW stk2,
           \A p \in s + 1 .. t : stk2[p] = stk[p],
           NEW b \in Int, b <= t, Boundaried(stk, s, b)
    PROVE  /\ Boundaried(stk2, s, b) /\ CallerBase(stk2, b) = CallerBase(stk, b)
           /\ stk2[b - 1] = stk[b - 1] /\ stk2[b] = stk[b]
<1>1. b \in s + 1 .. t /\ b - 1 \in s + 1 .. t /\ b - 2 \in s + 1 .. t /\ b - 3 \in s + 1 .. t
  BY DEF Boundaried, BoundaryWords
<1>2. stk2[b] = stk[b] /\ stk2[b - 1] = stk[b - 1] /\ stk2[b - 2] = stk[b - 2] /\ stk2[b - 3] = stk[b - 3]
  BY <1>1
<1> QED
  BY <1>2 DEF Boundaried, CallerBase, IsReturn

LEMMA OperandsSame ==
    ASSUME NEW stk, NEW stk2, NEW s \in Int, NEW t \in Int, \A p \in s + 1 .. t : stk2[p] = stk[p],
           NEW from \in Int, NEW to \in Int, s <= from, to <= t, OnlyOperands(stk, from, to)
    PROVE  OnlyOperands(stk2, from, to)
<1>1. ASSUME NEW p \in from + 1 .. to 
      PROVE  ~ IsCatch(stk2, p) /\ ~ IsReturn(stk2, p) /\ stk2[p][1] # "handler"
  <2>1. p \in s + 1 .. t
    OBVIOUS
  <2> QED
    BY <2>1 DEF OnlyOperands, IsCatch, IsReturn
<1> QED
  BY <1>1 DEF OnlyOperands

LEMMA FrameSame ==
    ASSUME NEW stk \in Seq(Word), NEW s \in Nat, NEW t \in Nat, t <= Len(stk), NEW stk2,
           \A p \in s + 1 .. t : stk2[p] = stk[p],
           NEW b \in Int, b <= t, NEW f \in AllFlags, Frame(stk, s, b, f)
    PROVE  Frame(stk2, s, b, f)
<1>w. PICK w : w = b - BoundaryWords - Operands(f)
  OBVIOUS
<1>1. Boundaried(stk, s, b) /\ OnlyOperands(stk, w, b - 1)
      /\ (IF f.fromHost THEN w = s /\ CallerBase(stk, b) <= s ELSE CallerBase(stk, b) \in s + 1 .. w)
  BY <1>w DEF Frame
<1>2. w \in Int /\ w <= b /\ Len(stk) \in Nat
  BY <1>w, FlagsShape, LenProperties DEF BoundaryWords
<1>3. CallerBase(stk, b) \in Nat
  BY <1>1, <1>2, BoundaryShape
<1>4. s <= w
  BY <1>1, <1>2, <1>3, FlagsShape
<1>5. Boundaried(stk2, s, b) /\ CallerBase(stk2, b) = CallerBase(stk, b)
  BY <1>1, BoundarySame
<1>6. OnlyOperands(stk2, w, b - 1)
  <2>1. PICK u : u = b - 1
    OBVIOUS
  <2>2. u \in Int /\ u <= t /\ s \in Int /\ t \in Int /\ OnlyOperands(stk, w, u)
    BY <1>1, <2>1
  <2>3. OnlyOperands(stk2, w, u)
    BY <1>2, <1>4, <2>2, OperandsSame
  <2> QED
    BY <2>1, <2>3
<1> QED
  BY <1>1, <1>5, <1>6, <1>w DEF Frame

(* Catch targets stay where they are, also if what is above t is cut off.  *)
LEMMA OwnCatchSame ==
    ASSUME NEW stk, NEW stk2, NEW s \in Int, NEW t \in Int, NEW u \in Int,
           \A p \in s + 1 .. t : stk2[p] = stk[p],
           NEW b \in Int, s <= b, NEW pc, OwnCatch(stk, b, pc, u), t <= u,
           \A p \in b + 1 .. t : IsCatch(stk, p) => p + 1 <= t
    PROVE  OwnCatch(stk2, b, pc, t)
<1>1. ASSUME NEW p \in b + 1 .. t, IsCatch(stk2, p)
      PROVE  /\ p + 1 <= t /\ p + 1 - b <= FrameWords[FunctionOf(pc)]
             /\ \E h \in HandlersOf[FunctionOf(pc)] : stk2[p + 1] = <<"handler", h>>
  <2>1. p \in s + 1 .. t /\ p \in b + 1 .. u
    OBVIOUS
  <2>2. IsCatch(stk, p)
    BY <1>1, <2>1 DEF IsCatch
  <2>3. p + 1 \in s + 1 .. t
    BY <2>1, <2>2
  <2>4. stk2[p + 1] = stk[p + 1]
    BY <2>3
  <2> QED
    BY <2>1, <2>2, <2>3, <2>4 DEF OwnCatch
<1> QED
  BY <1>1 DEF OwnCatch

LEMMA ChainedSame ==
    ASSUME NEW stk \in Seq(Word), NEW s \in Nat, NEW t \in Nat, t <= Len(stk), NEW stk2,
           \A p \in s + 1 .. t : stk2[p] = stk[p],
           NEW c \in Nat, Chained(stk, s, c, t)
    PROVE  Chained(stk2, s, c, t)
<1>1. \A p \in s + 1 .. t : (IsCatch(stk2, p) <=> IsCatch(stk, p)) /\ OuterCatch(stk2, p) = OuterCatch(stk, p)
  BY DEF IsCatch, OuterCatch
<1>2. c = 0 \/ (c \in s + 1 .. t - 1 /\ c \in s + 1 .. t /\ IsCatch(stk, c))
  BY DEF Chained
<1>3. ASSUME NEW p \in s + 1 .. t, IsCatch(stk, p)
      PROVE  /\ p <= c
             /\ OuterCatch(stk, p) = 0 \/ (OuterCatch(stk, p) \in s + 1 .. p - 2 /\ IsCatch(stk2, OuterCatch(stk, p)))
             /\ \A q \in s + 1 .. p - 1 : IsCatch(stk2, q) => q <= OuterCatch(stk, p)
  <2>1. /\ p <= c
        /\ OuterCatch(stk, p) = 0 \/ (OuterCatch(stk, p) \in s + 1 .. p - 2 /\ IsCatch(stk, OuterCatch(stk, p)))
        /\ \A q \in s + 1 .. p - 1 : IsCatch(stk, q) => q <= OuterCatch(stk, p)
    BY <1>3 DEF Chained
  <2>2. \A q \in s + 1 .. p - 1 : q \in s + 1 .. t
    OBVIOUS
  <2>3. \A q \in s + 1 .. p - 2 : q \in s + 1 .. t
    OBVIOUS
  <2> QED
    BY <1>1, <2>1, <2>2, <2>3
<1> QED
  BY <1>1, <1>2, <1>3 DEF Chained

LEMMA LinkedSame ==
    ASSUME NEW stk \in Seq(Word), NEW s \in Nat, NEW t \in Nat, t <= Len(stk), NEW stk2,
           \A p \in s + 1 .. t : stk2[p] = stk[p],
           NEW u \in Int, t <= u, Linked(stk, s, u)
    PROVE  Linked(stk2, s, t)
<1> SUFFICES ASSUME NEW b \in s + 1 .. t, IsReturn(stk2, b)
             PROVE  /\ Boundaried(stk2, s, b)
                    /\ CallerBase(stk2, b) > s =>
                        /\ CallerBase(stk2, b) <= b - BoundaryWords
                        /\ Frame(stk2, s, CallerBase(stk2, b), stk2[b - 1][2])
                        /\ RoomFor(CallerBase(stk2, b), stk2[b][2], b - BoundaryWords - CallerBase(stk2, b))
                        /\ OwnCatch(stk2, CallerBase(stk2, b), stk2[b][2], b - BoundaryWords)
  BY DEF Linked
<1>1. IsReturn(stk, b) /\ b \in Int /\ b <= t /\ b \in s + 1 .. u
  BY DEF IsReturn
<1>2. /\ Boundaried(stk, s, b)
      /\ CallerBase(stk, b) > s =>
            /\ CallerBase(stk, b) <= b - BoundaryWords
            /\ Frame(stk, s, CallerBase(stk, b), stk[b - 1][2])
            /\ RoomFor(CallerBase(stk, b), stk[b][2], b - BoundaryWords - CallerBase(stk, b))
            /\ OwnCatch(stk, CallerBase(stk, b), stk[b][2], b - BoundaryWords)
  BY <1>1 DEF Linked
<1>3. Boundaried(stk2, s, b) /\ CallerBase(stk2, b) = CallerBase(stk, b) /\ stk2[b - 1] = stk[b - 1]
      /\ stk2[b] = stk[b]
  BY <1>1, <1>2, BoundarySame
<1>4. Len(stk) \in Nat /\ b <= Len(stk)
  BY <1>1, LenProperties
<1>5. CallerBase(stk, b) \in Nat /\ stk[b - 1][2] \in AllFlags /\ CallerBase(stk, b) <= b - 4
  BY <1>1, <1>2, <1>4, BoundaryShape
<1>6. ASSUME NEW d \in Nat, d = CallerBase(stk, b), d > s
      PROVE  Frame(stk2, s, d, stk[b - 1][2]) /\ OwnCatch(stk2, d, stk[b][2], b - BoundaryWords)
  <2>1. d <= t /\ Frame(stk, s, d, stk[b - 1][2]) /\ OwnCatch(stk, d, stk[b][2], b - BoundaryWords)
    BY <1>1, <1>2, <1>5, <1>6
  <2>2. Frame(stk2, s, d, stk[b - 1][2])
    <3>f. PICK f : f = stk[b - 1][2]
      OBVIOUS
    <3>1. f \in AllFlags /\ d \in Int /\ Frame(stk, s, d, f)
      BY <1>5, <2>1, <3>f
    <3> HIDE DEF Word
    <3>2. Frame(stk2, s, d, f)
      BY <2>1, <3>1, FrameSame
    <3> QED
      BY <3>2, <3>f
  <2>3. PICK v : v = b - BoundaryWords
    OBVIOUS
  <2>4. v \in Int /\ v <= t /\ s \in Int /\ s <= d /\ d \in Int
    BY <1>1, <1>6, <2>3 DEF BoundaryWords
  <2>5. \A p \in s + 1 .. v : stk2[p] = stk[p]
    BY <2>4
  <2>6. \A p \in d + 1 .. v : IsCatch(stk, p) => p + 1 <= v
    BY <2>1, <2>3 DEF OwnCatch
  <2>7. OwnCatch(stk2, d, stk[b][2], v)
    <3>c. PICK c : c = stk[b][2]
      OBVIOUS
    <3>1. OwnCatch(stk, d, c, v) /\ v <= v
      BY <2>1, <2>3, <2>4, <3>c
    <3>2. OwnCatch(stk2, d, c, v)
      BY <2>4, <2>5, <2>6, <3>1, OwnCatchSame
    <3> QED
      BY <3>2, <3>c
  <2> QED
    BY <2>2, <2>3, <2>7
<1> QED
  BY <1>2, <1>3, <1>5, <1>6

LEMMA JSStateSame ==
    ASSUME NEW stk \in Seq(Word), NEW s \in Nat, NEW t \in Nat, t <= Len(stk), NEW stk2,
           \A p \in s + 1 .. t : stk2[p] = stk[p],
           NEW r \in Registers, NEW r2, r2.fb = r.fb, r2.pc = r.pc, r2.flags = r.flags, r2.catch = r.catch,
           JSState(stk, s, r, t)
    PROVE  JSState(stk2, s, r2, t)
<1>1. r.fb \in Nat /\ r.flags \in AllFlags /\ r.catch \in Nat
  BY DEF Registers
<1>2. /\ r.fb <= t
      /\ Frame(stk, s, r.fb, r.flags)
      /\ RoomFor(r.fb, r.pc, t - r.fb - 1)
      /\ OwnCatch(stk, r.fb, r.pc, t)
      /\ Chained(stk, s, r.catch, t)
      /\ Linked(stk, s, t)
  BY DEF JSState
<1>3. Frame(stk2, s, r.fb, r.flags)
  <2>1. PICK b, f : b = r.fb /\ f = r.flags
    OBVIOUS
  <2>2. b \in Int /\ b <= t /\ f \in AllFlags /\ Frame(stk, s, b, f)
    BY <1>1, <1>2, <2>1
  <2> HIDE DEF Word
  <2>3. Frame(stk2, s, b, f)
    BY <2>2, FrameSame
  <2> QED
    BY <2>1, <2>3
<1>4. OwnCatch(stk2, r.fb, r.pc, t)
  <2>1. s \in Int /\ t \in Int /\ r.fb \in Int /\ s <= r.fb
    BY <1>1, <1>2 DEF Frame, Boundaried, BoundaryWords
  <2>2. \A p \in r.fb + 1 .. t : IsCatch(stk, p) => p + 1 <= t
    BY <1>2 DEF OwnCatch
  <2>3. PICK b, c : b = r.fb /\ c = r.pc
    OBVIOUS
  <2>4. b \in Int /\ s <= b /\ OwnCatch(stk, b, c, t) /\ t <= t
    BY <1>2, <2>1, <2>3
  <2>5. \A p \in b + 1 .. t : IsCatch(stk, p) => p + 1 <= t
    BY <2>2, <2>3
  <2>6. OwnCatch(stk2, b, c, t)
    BY <2>1, <2>4, <2>5, OwnCatchSame
  <2> QED
    BY <2>3, <2>6
<1>5. Chained(stk2, s, r.catch, t)
  BY <1>1, <1>2, ChainedSame
<1>6. Linked(stk2, s, t)
  BY <1>2, LinkedSame
<1> QED
  BY <1>2, <1>3, <1>4, <1>5, <1>6 DEF JSState

(* More operands.                                                          *)
LEMMA JSStateGrows ==
    ASSUME NEW stk \in Seq(Word), NEW s \in Nat, NEW t \in Nat, NEW u \in Nat, t <= u,
           NEW r \in Registers, JSState(stk, s, r, t),
           OnlyOperands(stk, t, u), RoomFor(r.fb, r.pc, u - r.fb - 1)
    PROVE  JSState(stk, s, r, u)
<1>1. r.fb \in Nat /\ r.catch \in Nat
  BY DEF Registers
<1>2. /\ r.fb <= t
      /\ Frame(stk, s, r.fb, r.flags)
      /\ OwnCatch(stk, r.fb, r.pc, t)
      /\ Chained(stk, s, r.catch, t)
      /\ Linked(stk, s, t)
  BY DEF JSState
<1>3. \A p \in s + 1 .. u : p \in s + 1 .. t \/ (~ IsCatch(stk, p) /\ ~ IsReturn(stk, p))
  BY DEF OnlyOperands
<1>4. s <= r.fb
  BY <1>1, <1>2 DEF Frame, Boundaried, BoundaryWords
<1>5. OwnCatch(stk, r.fb, r.pc, u)
  <2>1. ASSUME NEW p \in r.fb + 1 .. u, IsCatch(stk, p)
        PROVE  /\ p + 1 <= u /\ p + 1 - r.fb <= FrameWords[FunctionOf(r.pc)]
               /\ \E h \in HandlersOf[FunctionOf(r.pc)] : stk[p + 1] = <<"handler", h>>
    <3>1. p \in s + 1 .. u
      BY <1>1, <1>4
    <3>2. p \in r.fb + 1 .. t
      BY <2>1, <3>1, <1>1, <1>3
    <3> QED
      BY <2>1, <3>2, <1>1, <1>2 DEF OwnCatch
  <2> QED
    BY <2>1 DEF OwnCatch
<1>6. Chained(stk, s, r.catch, u)
  <2>1. r.catch = 0 \/ (r.catch \in s + 1 .. u - 1 /\ IsCatch(stk, r.catch))
    BY <1>1, <1>2 DEF Chained
  <2>2. \A p \in s + 1 .. u : IsCatch(stk, p) => p \in s + 1 .. t
    BY <1>3
  <2> QED
    BY <1>2, <2>1, <2>2 DEF Chained
<1>7. Linked(stk, s, u)
  <2>1. \A b \in s + 1 .. u : IsReturn(stk, b) => b \in s + 1 .. t
    BY <1>3
  <2> QED
    BY <1>2, <2>1 DEF Linked
<1> QED
  BY <1>1, <1>2, <1>5, <1>6, <1>7 DEF JSState

LEMMA ReadySame ==
    ASSUME NEW stk \in Seq(Word), NEW s \in Nat, NEW t \in Nat, t <= Len(stk), NEW stk2,
           \A p \in s + 1 .. t : stk2[p] = stk[p],
           NEW r \in Registers, NEW r2, r2.fb = r.fb, r2.pc = r.pc, r2.flags = r.flags, r2.catch = r.catch,
           NEW f \in AllFlags, Ready(stk, s, r, f, t)
    PROVE  Ready(stk2, s, r2, f, t)
<1>w. PICK w : w = t - Operands(f)
  OBVIOUS
<1>1. w \in Int /\ w <= t /\ Len(stk) \in Nat
  BY <1>w, FlagsShape, LenProperties
<1>2. /\ OnlyOperands(stk, w, t)
      /\ IF f.fromHost THEN w = s /\ r.fb <= s /\ r.catch = 0
                       ELSE JSState(stk, s, r, w) /\ RoomFor(r.fb, r.pc, t - r.fb)
  BY <1>w DEF Ready
<1>3. s <= w /\ w \in Nat
  <2>1. CASE f.fromHost
    BY <2>1, <1>2
  <2>2. CASE ~ f.fromHost
    <3>1. r.fb \in Nat /\ r.fb <= w /\ r.fb >= s + 4
      BY <2>2, <1>2 DEF JSState, Frame, Boundaried, BoundaryWords, Registers
    <3> QED
      BY <3>1, <1>1
  <2> QED
    BY <2>1, <2>2
<1>4. OnlyOperands(stk2, w, t)
  <2>1. s \in Int /\ t \in Int /\ t <= t
    OBVIOUS
  <2>2. \A p \in s + 1 .. t : stk2[p] = stk[p]
    OBVIOUS
  <2> QED
    BY <1>1, <1>2, <1>3, <2>1, <2>2, OperandsSame
<1>5. JSState(stk, s, r, w) => JSState(stk2, s, r2, w)
  <2>1. \A p \in s + 1 .. w : stk2[p] = stk[p]
    BY <1>1, <1>3
  <2>2. w <= Len(stk)
    BY <1>1
  <2> QED
    BY <1>3, <2>1, <2>2, JSStateSame
<1> QED
  BY <1>2, <1>4, <1>5, <1>w DEF Ready

LEMMA HostStateSame ==
    ASSUME NEW stk \in Seq(Word), NEW a \in Activations, NEW t \in Nat, t <= Len(stk), NEW stk2,
           \A p \in a.sp + 1 .. t : stk2[p] = stk[p],
           NEW r \in Registers, HostState(stk, a, r, t),
           NEW r2, r2.fb = r.fb, r2.pc = r.pc, r2.catch \in {r.catch, 0},
           [r2.flags EXCEPT !.override = FALSE] = [r.flags EXCEPT !.override = FALSE],
           NEW a2, a2.sp = a.sp, a2.host = a.host, r2 \in Registers
    PROVE  HostState(stk2, a2, r2, t)
<1>1. /\ a.sp \in Nat /\ a.host.savedFlags \in AllFlags /\ a.host.flags \in AllFlags /\ a.sp < t
      /\ a.host.regCopy \in Registers
  BY DEF Activations, InHost, HostState
<1>2. PICK q : q = CallerOf(a, r)
  OBVIOUS
<1>3. PICK q2 : q2 = CallerOf(a, r2)
  OBVIOUS
<1>4. q \in Registers /\ q2.fb = q.fb /\ q2.pc = q.pc /\ q2.flags = q.flags /\ q2.catch = q.catch
  BY <1>1, <1>2, <1>3 DEF Registers, CallerOf
<1>5. Ready(stk, a.sp, q, a.host.flags, t - 1)
  BY <1>2 DEF HostState
<1>6. Ready(stk2, a.sp, q2, a.host.flags, t - 1)
  <2>1. PICK u : u = t - 1
    OBVIOUS
  <2>2. u \in Nat /\ u <= Len(stk) /\ \A p \in a.sp + 1 .. u : stk2[p] = stk[p]
    BY <1>1, <2>1, LenProperties
  <2>3. PICK s, f : s = a.sp /\ f = a.host.flags
    OBVIOUS
  <2>4. s \in Nat /\ f \in AllFlags /\ Ready(stk, s, q, f, u) /\ \A p \in s + 1 .. u : stk2[p] = stk[p]
    BY <1>1, <1>5, <2>1, <2>2, <2>3
  <2> HIDE DEF Word
  <2>5. Ready(stk2, s, q2, f, u)
    BY <1>4, <2>2, <2>4, ReadySame
  <2> QED
    BY <2>1, <2>3, <2>5
<1>7. t \in a.sp + 1 .. t
  BY <1>1
<1>8. stk2[t] = stk[t]
  BY <1>7
<1>9. CallerOf(a2, r2) = q2
  BY <1>3 DEF CallerOf
<1>10. r2.catch \in {a.host.regCopy.catch, 0}
  BY DEF HostState
<1> QED
  BY <1>6, <1>8, <1>9, <1>10 DEF HostState, IsCatch, IsReturn

(* The activations that wait do not depend on what is above their stacks.  *)
LEMMA SuspendedSame ==
    ASSUME NEW stk \in Seq(Word), NEW cs \in Seq(Activations), NEW m \in Nat, Suspended(stk, cs),
           m <= Len(stk), \A k \in DOMAIN cs : cs[k].sp <= m,
           NEW stk2, \A p \in 1 .. m : stk2[p] = stk[p],
           NEW cs2 \in Seq(Activations), Len(cs2) <= Len(cs),
           \A k \in DOMAIN cs2 : cs2[k].sp = cs[k].sp /\ cs2[k].entry = cs[k].entry,
           \A k \in DOMAIN cs2 : k < Len(cs2) => cs2[k] = cs[k]
    PROVE  Suspended(stk2, cs2)
<1> HIDE DEF Word, Activations
<1>0. /\ Len(cs) \in Nat /\ Len(cs2) \in Nat /\ Len(stk) \in Nat
      /\ DOMAIN cs = 1 .. Len(cs) /\ DOMAIN cs2 = 1 .. Len(cs2)
      /\ \A k \in DOMAIN cs2 : k \in DOMAIN cs
  BY LenProperties
<1>1. ASSUME cs2 # << >> PROVE cs2[1].sp = 0 /\ cs2[1].entry.catch = 0 /\ cs2[1].entry.fb = 0
  <2>1. Len(cs2) # 0
    BY <1>1, EmptySeq
  <2>2. 1 \in DOMAIN cs2 /\ 1 \in DOMAIN cs
    BY <2>1, <1>0
  <2>3. cs # << >>
    BY <2>2
  <2>4. cs[1].sp = 0 /\ cs[1].entry.catch = 0 /\ cs[1].entry.fb = 0
    BY <2>3 DEF Suspended
  <2>5. cs2[1].sp = cs[1].sp /\ cs2[1].entry = cs[1].entry
    BY <2>2
  <2> QED
    BY <2>4, <2>5
<1>2. \A i, j \in DOMAIN cs2 : i < j => cs2[i].sp < cs2[j].sp
  BY <1>0 DEF Suspended
<1>3. ASSUME NEW k \in 2 .. Len(cs2) PROVE HostState(stk2, cs2[k - 1], cs2[k].entry, cs2[k].sp)
  <2>1. k \in DOMAIN cs2 /\ k - 1 \in DOMAIN cs2 /\ k - 1 < Len(cs2) /\ k \in 2 .. Len(cs)
    BY <1>0
  <2>2. PICK a, r, t : a = cs[k - 1] /\ r = cs[k].entry /\ t = cs[k].sp
    OBVIOUS
  <2>3. cs2[k - 1] = a /\ cs2[k].entry = r /\ cs2[k].sp = t
    BY <2>1, <2>2
  <2>4. HostState(stk, a, r, t)
    BY <2>1, <2>2 DEF Suspended
  <2>5. cs[k] \in Activations /\ a \in Activations
    BY <2>1, <2>2, <1>0
  <2>6. r \in Registers /\ t \in Nat /\ a.sp \in Nat
    BY <2>2, <2>5 DEF Activations
  <2>7. t <= m
    BY <2>1, <2>2, <1>0
  <2>8. t <= Len(stk) /\ \A p \in a.sp + 1 .. t : stk2[p] = stk[p]
    BY <2>6, <2>7, <1>0
  <2>9. HostState(stk2, a, r, t)
    BY <2>4, <2>5, <2>6, <2>8, HostStateSame
  <2> QED
    BY <2>3, <2>9
<1> QED
  BY <1>1, <1>2, <1>3 DEF Suspended

(* The activations of a stack, seen from the innermost one.                *)
LEMMA TopShape ==
    ASSUME NEW stk, NEW cs \in Seq(Activations), cs # << >>, Suspended(stk, cs)
    PROVE  /\ Len(cs) \in 1 .. Len(cs) /\ Len(cs) \in Nat /\ DOMAIN cs = 1 .. Len(cs)
           /\ cs[Len(cs)] \in Activations /\ cs[Len(cs)].sp \in Nat
           /\ \A k \in DOMAIN cs : cs[k].sp <= cs[Len(cs)].sp
           /\ cs[Len(cs)].sp = 0 <=> Len(cs) = 1
<1> HIDE DEF Activations
<1>1. Len(cs) \in Nat /\ DOMAIN cs = 1 .. Len(cs) /\ Len(cs) # 0
  BY LenProperties, EmptySeq
<1>2. Len(cs) \in 1 .. Len(cs) /\ 1 \in DOMAIN cs
  BY <1>1
<1>3. \A k \in DOMAIN cs : cs[k] \in Activations
  BY <1>1
<1>4. \A k \in DOMAIN cs : cs[k].sp \in Nat
  BY <1>3 DEF Activations
<1>5. ASSUME NEW k \in DOMAIN cs PROVE cs[k].sp <= cs[Len(cs)].sp
  <2>1. CASE k = Len(cs)
    BY <2>1, <1>4
  <2>2. CASE k # Len(cs)
    <3>1. k < Len(cs)
      BY <2>2, <1>1
    <3>2. cs[k].sp < cs[Len(cs)].sp
      BY <3>1, <1>1, <1>2 DEF Suspended
    <3> QED
      BY <3>2, <1>4, <1>1, <1>2
  <2> QED
    BY <2>1, <2>2
<1>6. cs[1].sp = 0
  BY DEF Suspended
<1>7. ASSUME Len(cs) # 1 PROVE cs[Len(cs)].sp # 0
  <2>1. 1 < Len(cs)
    BY <1>7, <1>1
  <2>2. cs[1].sp < cs[Len(cs)].sp
    BY <2>1, <1>1, <1>2 DEF Suspended
  <2> QED
    BY <2>2, <1>6
<1> QED
  BY <1>1, <1>2, <1>3, <1>4, <1>5, <1>6, <1>7

(* SetTop changes the innermost activation.                                *)
LEMMA SetTopShape ==
    ASSUME NEW cs \in Seq(Activations), cs # << >>, NEW a \in Activations
    PROVE  /\ SetTop(cs, a) \in Seq(Activations) /\ Len(SetTop(cs, a)) = Len(cs)
           /\ SetTop(cs, a) # << >>
           /\ SetTop(cs, a)[Len(cs)] = a
           /\ \A k \in DOMAIN cs : k # Len(cs) => SetTop(cs, a)[k] = cs[k]
           /\ Front(SetTop(cs, a)) = Front(cs)
<1> HIDE DEF Activations
<1>1. Len(cs) \in Nat /\ DOMAIN cs = 1 .. Len(cs) /\ Len(cs) # 0
  BY LenProperties, EmptySeq
<1>2. Len(cs) \in 1 .. Len(cs)
  BY <1>1
<1>3. PICK n : n = Len(cs)
  OBVIOUS
<1>4. PICK cs2 : cs2 = [cs EXCEPT ![n] = a]
  OBVIOUS
<1>5. cs2 \in Seq(Activations) /\ Len(cs2) = n /\ \A j \in 1 .. n : cs2[j] = IF j = n THEN a ELSE cs[j]
  BY <1>2, <1>3, <1>4, ExceptSeq
<1>6. cs2 # << >>
  BY <1>5, <1>3, <1>1, EmptySeq
<1>7. Front(cs2) = Front(cs)
  <2>1. PICK t, t2 : t = Front(cs) /\ t2 = Front(cs2)
    OBVIOUS
  <2>2. t \in Seq(Activations) /\ Len(t) = n - 1 /\ \A i \in 1 .. n - 1 : t[i] = cs[i]
    BY <2>1, <1>3, FrontShape
  <2>3. t2 \in Seq(Activations) /\ Len(t2) = n - 1 /\ \A i \in 1 .. n - 1 : t2[i] = cs2[i]
    BY <2>1, <1>5, <1>6, FrontShape
  <2>4. \A i \in 1 .. n - 1 : t[i] = t2[i]
    BY <2>2, <2>3, <1>1, <1>3, <1>5
  <2>5. t = t2
    BY <2>2, <2>3, <2>4, SeqEqual
  <2> QED
    BY <2>1, <2>5
<1> QED
  BY <1>1, <1>2, <1>3, <1>4, <1>5, <1>6, <1>7 DEF SetTop

-----------------------------------------------------------------------------
(* More words on the stack.                                                *)

LEMMA PushedShape ==
    ASSUME NEW stk \in Seq(Word), NEW w \in Word
    PROVE  /\ Append(stk, w) \in Seq(Word) /\ Len(Append(stk, w)) = Len(stk) + 1
           /\ \A p \in 1 .. Len(stk) : Append(stk, w)[p] = stk[p]
           /\ Append(stk, w)[Len(stk) + 1] = w
<1> HIDE DEF Word
<1> QED
  BY AppendProperties

LEMMA OperandsPushed ==
    ASSUME NEW stk \in Seq(Word), NEW n \in Nat
    PROVE  /\ stk \o Values(n) \in Seq(Word) /\ Len(stk \o Values(n)) = Len(stk) + n
           /\ \A p \in 1 .. Len(stk) : (stk \o Values(n))[p] = stk[p]
           /\ OnlyOperands(stk \o Values(n), Len(stk), Len(stk) + n)
<1> HIDE DEF Word
<1>1. PICK v : v = Values(n)
  OBVIOUS
<1>2. v = [i \in 1 .. n |-> Val] /\ Val \in Word /\ Val[1] = "value"
  BY <1>1, NewWords DEF Values
<1>3. v \in Seq(Word) /\ Len(v) = n /\ \A i \in 1 .. n : v[i] = Val
  <2>1. \A i \in 1 .. n : Val \in Word
    BY <1>2
  <2>2. v \in Seq(Word)
    BY <1>2, <2>1, IsASeq
  <2>3. DOMAIN v = 1 .. n /\ DOMAIN v = 1 .. Len(v) /\ Len(v) \in Nat
    BY <1>2, <2>2, LenProperties
  <2>4. Len(v) = n
    BY <2>3
  <2> QED
    BY <1>2, <2>2, <2>4
<1>4. PICK m : m = Len(stk)
  OBVIOUS
<1>5. m \in Nat
  BY <1>4, LenProperties
<1>6. /\ stk \o v \in Seq(Word) /\ Len(stk \o v) = m + n
      /\ \A p \in 1 .. m + n : (stk \o v)[p] = IF p <= m THEN stk[p] ELSE v[p - m]
  BY <1>3, <1>4, ConcatProperties
<1>7. \A p \in 1 .. m : p \in 1 .. m + n /\ p <= m
  BY <1>5
<1>8. ASSUME NEW p \in m + 1 .. m + n PROVE (stk \o v)[p] = Val
  <2>1. p \in 1 .. m + n /\ ~ (p <= m) /\ p - m \in 1 .. n
    BY <1>5
  <2> QED
    BY <1>3, <1>6, <2>1
<1>9. OnlyOperands(stk \o v, m, m + n)
  BY <1>8, <1>2 DEF OnlyOperands, IsCatch, IsReturn
<1> QED
  BY <1>1, <1>4, <1>6, <1>7, <1>9

(* stk2 has the caller's registers r on top of stk.                        *)
Called(stk, r, stk2) == stk2 = stk \o Boundary(stk, r)

LEMMA BoundaryPushed ==
    ASSUME NEW stk \in Seq(Word), NEW r \in Registers, r.fb <= Len(stk), NEW b \in Int, b - Len(stk) = 4,
           NEW stk2, Called(stk, r, stk2)
    PROVE  /\ stk2 \in Seq(Word) /\ Len(stk2) = b /\ b \in Nat
           /\ \A p \in 1 .. Len(stk) : stk2[p] = stk[p]
           /\ OnlyOperands(stk2, Len(stk), b - 1)
           /\ IsReturn(stk2, b) /\ stk2[b][2] = r.pc
           /\ CallerBase(stk2, b) = r.fb /\ stk2[b - 1][2] = r.flags
           /\ \A s \in Nat : s <= Len(stk) => Boundaried(stk2, s, b)
<1> HIDE DEF Word
<1>1. PICK m : m = Len(stk)
  OBVIOUS
<1>2. m \in Nat /\ b \in Int /\ b = m + 4 /\ r.fb \in Nat /\ r.fb <= m /\ m - r.fb \in Nat
  BY <1>1, LenProperties DEF Registers, BoundaryWords
<1>3. PICK w1, w2, w3, w4 : /\ w1 = <<"size", m - r.fb>> /\ w2 = <<"closure", r.closure>>
                            /\ w3 = <<"flags", r.flags>> /\ w4 = <<"pc", r.pc>>
  OBVIOUS
<1>4. w1 \in Word /\ w2 \in Word /\ w3 \in Word /\ w4 \in Word
  <2>1. r.closure \in Scopes /\ r.flags \in AllFlags /\ r.pc \in Code
    BY DEF Registers
  <2> QED
    BY <2>1, <1>2, <1>3, NewWords
<1>t. /\ w1[1] = "size" /\ w1[2] = m - r.fb /\ w2[1] = "closure" /\ w3[1] = "flags" /\ w3[2] = r.flags
      /\ w4[1] = "pc" /\ w4[2] = r.pc
  BY <1>3
<1>5. PICK v : v = <<w1, w2, w3, w4>>
  OBVIOUS
<1>6. v = Boundary(stk, r)
  BY <1>1, <1>3, <1>5 DEF Boundary
<1>7. v \in Seq(Word) /\ Len(v) = 4 /\ v[1] = w1 /\ v[2] = w2 /\ v[3] = w3 /\ v[4] = w4
  BY <1>4, <1>5
<1>8. /\ stk2 \in Seq(Word) /\ Len(stk2) = m + 4
      /\ \A p \in 1 .. m + 4 : stk2[p] = IF p <= m THEN stk[p] ELSE v[p - m]
  <2>1. /\ stk \o v \in Seq(Word) /\ Len(stk \o v) = Len(stk) + Len(v)
        /\ \A p \in 1 .. Len(stk) + Len(v) : (stk \o v)[p] = IF p <= Len(stk) THEN stk[p] ELSE v[p - Len(stk)]
    BY <1>7, ConcatProperties
  <2>2. stk2 = stk \o v
    BY <1>6 DEF Called
  <2>3. Len(stk) + Len(v) = m + 4
    BY <1>1, <1>7
  <2> QED
    BY <2>1, <2>2, <2>3, <1>1
<1>9. \A p \in 1 .. m : stk2[p] = stk[p]
  <2>1. \A p \in 1 .. m : p \in 1 .. m + 4 /\ p <= m
    BY <1>2
  <2> QED
    BY <1>8, <2>1
<1>10. stk2[b - 3] = w1 /\ stk2[b - 2] = w2 /\ stk2[b - 1] = w3 /\ stk2[b] = w4
  <2>1. /\ b - 3 \in 1 .. m + 4 /\ b - 2 \in 1 .. m + 4 /\ b - 1 \in 1 .. m + 4 /\ b \in 1 .. m + 4
        /\ ~ (b - 3 <= m) /\ ~ (b - 2 <= m) /\ ~ (b - 1 <= m) /\ ~ (b <= m)
        /\ (b - 3) - m = 1 /\ (b - 2) - m = 2 /\ (b - 1) - m = 3 /\ b - m = 4
    BY <1>2
  <2> QED
    BY <1>7, <1>8, <2>1
<1>11. OnlyOperands(stk2, m, b - 1)
  <2>1. ASSUME NEW p \in m + 1 .. b - 1
        PROVE  ~ IsCatch(stk2, p) /\ ~ IsReturn(stk2, p) /\ stk2[p][1] # "handler"
    <3>1. p = b - 3 \/ p = b - 2 \/ p = b - 1
      BY <1>2
    <3>2. stk2[p] = w1 \/ stk2[p] = w2 \/ stk2[p] = w3
      BY <3>1, <1>10
    <3> QED
      BY <3>2, <1>t DEF IsCatch, IsReturn
  <2> QED
    BY <2>1 DEF OnlyOperands
<1>12. CallerBase(stk2, b) = r.fb
  <2>1. CallerBase(stk2, b) = b - 4 - w1[2]
    BY <1>10 DEF CallerBase, BoundaryWords
  <2> QED
    BY <2>1, <1>2, <1>t
<1>13. ASSUME NEW s \in Nat, s <= m PROVE Boundaried(stk2, s, b)
  <2>1. b >= s + 4
    BY <1>2, <1>13
  <2>2. CallerBase(stk2, b) >= 0
    BY <1>2, <1>12
  <2>3. stk2[b - 3][1] = "size" /\ stk2[b - 2][1] = "closure" /\ stk2[b - 1][1] = "flags" /\ stk2[b][1] = "pc"
    BY <1>t, <1>10
  <2> QED
    BY <2>1, <2>2, <2>3 DEF Boundaried, IsReturn, BoundaryWords
<1> QED
  BY <1>1, <1>2, <1>t, <1>8, <1>9, <1>10, <1>11, <1>12, <1>13 DEF IsReturn

-----------------------------------------------------------------------------
(* The subroutines of mvm_call.                                            *)

(* What a subroutine is handed.                                            *)
Inside(stk, r, cs) ==
    /\ stk \in Seq(Word) /\ r \in Registers /\ cs \in Seq(Activations)
    /\ cs # << >> /\ Suspended(stk, cs)
    /\ cs[Len(cs)].sp <= Len(stk)

(* It leaves the words alone that are older than the activation.           *)
Kept(stk, s) == allocated' => s <= Len(stack') /\ \A p \in 1 .. s : stack'[p] = stk[p]

(* It takes a job only at the end of the outermost activation, which       *)
(* succeeds only when no job is left.                                      *)
Queued(r, cs) ==
    /\ allocated' /\ reg'.queue # r.queue =>
            Len(cs) = 1 /\ Len(calls') = 1 /\ mode' = "js" /\ Len(stack') = BoundaryWords
    /\ calls' = << >> /\ outcome'.err = "success" => r.queue = 0

Fine(stk, r, cs) == IInv' /\ Kept(stk, cs[Len(cs)].sp) /\ Queued(r, cs)

LEMMA ToHost ==
    ASSUME NEW stk2 \in Seq(Word), NEW r2 \in Registers, NEW cs2 \in Seq(Activations), cs2 # << >>,
           Suspended(stk2, cs2), HostState(stk2, cs2[Len(cs2)], r2, Len(stk2)),
           stack' = stk2, reg' = r2, calls' = cs2, mode' # "js", allocated'
    PROVE  IInv'
<1> HIDE DEF Word, Registers, Activations
<1> QED
  BY DEF IInv, Shapes, Allocated, Consistent, TopCall

LEMMA ToJS ==
    ASSUME NEW stk2 \in Seq(Word), NEW r2 \in Registers, NEW cs2 \in Seq(Activations), cs2 # << >>,
           Suspended(stk2, cs2), JSState(stk2, cs2[Len(cs2)].sp, r2, Len(stk2)),
           stack' = stk2, reg' = r2, calls' = cs2, mode' = "js", allocated'
    PROVE  IInv'
<1> HIDE DEF Word, Registers, Activations
<1> QED
  BY DEF IInv, Shapes, Allocated, Consistent, TopCall

LEMMA FreshShape == FreshRegisters \in Registers /\ NotInHost \in InHost
BY FlagsShape DEF FreshRegisters, Registers, Code, Scopes, NotInHost, InHost

LEMMA AtExitShape ==
    ASSUME NEW e \in Registers, NEW r \in Registers
    PROVE  /\ AtExit(e, r) \in Registers
           /\ AtExit(e, r).fb = e.fb /\ AtExit(e, r).pc = e.pc /\ AtExit(e, r).flags = e.flags
           /\ AtExit(e, r).catch = e.catch /\ AtExit(e, r).queue = r.queue
BY DEF Registers, AtExit

LEMMA ExitFine ==
    ASSUME NEW stk, NEW r, NEW cs, Inside(stk, r, cs), NEW err,
           err = "success" /\ cs[Len(cs)].sp = 0 => r.queue = 0,
           SubExit(stk, r, cs, err)
    PROVE  Fine(stk, r, cs)
<1> HIDE DEF Word, Registers, Activations
<1>1. stk \in Seq(Word) /\ r \in Registers /\ cs \in Seq(Activations) /\ cs # << >> /\ Suspended(stk, cs)
  BY DEF Inside
<1>2. PICK n, a, s : n = Len(cs) /\ a = cs[n] /\ s = a.sp
  OBVIOUS
<1>3. s <= Len(stk) /\ Len(stk) \in Nat
  BY <1>1, <1>2, LenProperties DEF Inside
<1>4. /\ n \in Nat /\ n \in 1 .. n /\ DOMAIN cs = 1 .. n /\ a \in Activations /\ s \in Nat
      /\ (s = 0 <=> n = 1) /\ \A k \in DOMAIN cs : cs[k].sp <= s
  BY <1>1, <1>2, TopShape
<1>5. /\ stack' = SubSeq(stk, 1, s)
      /\ reg' = IF s = 0 THEN FreshRegisters ELSE AtExit(a.entry, r)
      /\ (allocated' <=> s # 0)
      /\ calls' = Front(cs)
      /\ mode' = "host"
      /\ outcome' = IF s = 0 THEN [err |-> err, value |-> a.out] ELSE NotReturned
  BY <1>2 DEF SubExit
<1>6. s \in 0 .. Len(stk)
  BY <1>3, <1>4
<1>7. PICK stk2 : stk2 = SubSeq(stk, 1, s)
  OBVIOUS
<1>8. stk2 \in Seq(Word) /\ Len(stk2) = s /\ \A p \in 1 .. s : stk2[p] = stk[p]
  BY <1>1, <1>6, <1>7, CutShape
<1>9. PICK cs2 : cs2 = Front(cs)
  OBVIOUS
<1>10. cs2 \in Seq(Activations) /\ Len(cs2) = n - 1 /\ \A k \in 1 .. n - 1 : cs2[k] = cs[k]
  BY <1>1, <1>2, <1>9, FrontShape
<1>11. Kept(stk, s)
  BY <1>5, <1>7, <1>8, <1>4 DEF Kept
<1>12. CASE s = 0
  <2>1. stk2 = << >> /\ cs2 = << >>
    <3>1. Len(stk2) = 0 /\ Len(cs2) = 0
      BY <1>4, <1>8, <1>10, <1>12
    <3> QED
      BY <3>1, <1>8, <1>10, EmptySeq
  <2>2. Suspended(<< >>, << >>)
    <3>1. DOMAIN << >> = {}
      OBVIOUS
    <3>2. Len(<< >>) = 0
      OBVIOUS
    <3>3. 2 .. Len(<< >>) = {}
      BY <3>2
    <3> QED
      BY <3>1, <3>3 DEF Suspended
  <2>3. stack' = << >> /\ calls' = << >> /\ reg' = FreshRegisters /\ mode' = "host" /\ ~ allocated'
        /\ outcome' = [err |-> err, value |-> a.out]
    BY <2>1, <1>5, <1>7, <1>9, <1>12
  <2>4. FreshRegisters.fb = 0 /\ FreshRegisters.catch = 0 /\ FreshRegisters.queue = 0
    BY DEF FreshRegisters
  <2>5. Shapes'
    BY <2>3, FreshShape, EmptySeq DEF Shapes
  <2>6. Allocated' /\ Consistent'
    BY <2>2, <2>3, <2>4 DEF Allocated, Consistent
  <2>7. Queued(r, cs)
    BY <2>3, <1>2, <1>12 DEF Queued
  <2> QED
    BY <2>5, <2>6, <2>7, <1>11, <1>2 DEF Fine, IInv
<1>13. CASE s # 0
  <2>1. n - 1 \in 1 .. n - 1 /\ n - 1 \in Nat /\ n \in 2 .. n
    BY <1>4, <1>13
  <2>2. cs2 # << >>
    BY <2>1, <1>10, EmptySeq
  <2>3. PICK b, e : b = cs[n - 1] /\ e = a.entry
    OBVIOUS
  <2>4. b \in Activations /\ e \in Registers
    <3>1. n - 1 \in 1 .. Len(cs)
      BY <2>1, <1>2, <1>4
    <3>2. b \in Activations
      BY <3>1, <2>3, <1>1, ElementOfSeq
    <3>3. e \in Registers
      BY <2>3, <1>4 DEF Activations
    <3> QED
      BY <3>2, <3>3
  <2>5. HostState(stk, b, e, s)
    BY <2>1, <2>3, <1>1, <1>2 DEF Suspended
  <2>6. PICK r2 : r2 = AtExit(e, r)
    OBVIOUS
  <2>7. r2 \in Registers /\ r2.fb = e.fb /\ r2.pc = e.pc /\ r2.flags = e.flags /\ r2.catch = e.catch /\ r2.queue = r.queue
    BY <2>4, <2>6, <1>1, AtExitShape
  <2>8. HostState(stk2, b, r2, s)
    <3>1. \A p \in b.sp + 1 .. s : stk2[p] = stk[p]
      <4>1. b.sp \in Nat
        BY <2>4 DEF Activations
      <4>2. \A p \in b.sp + 1 .. s : p \in 1 .. s
        BY <4>1, <1>4
      <4> QED
        BY <4>2, <1>8
    <3>2. s \in Nat /\ s <= Len(stk) /\ [r2.flags EXCEPT !.override = FALSE] = [e.flags EXCEPT !.override = FALSE]
      BY <1>3, <1>4, <2>7
    <3> QED
      BY <1>1, <2>4, <2>5, <2>7, <3>1, <3>2, HostStateSame
  <2>9. Suspended(stk2, cs2)
    <3>1. DOMAIN cs2 = 1 .. n - 1 /\ Len(cs2) <= Len(cs) /\ \A k \in DOMAIN cs2 : k \in 1 .. n - 1
      BY <1>2, <1>4, <1>10, LenProperties
    <3>2. /\ \A k \in DOMAIN cs2 : cs2[k].sp = cs[k].sp /\ cs2[k].entry = cs[k].entry
          /\ \A k \in DOMAIN cs2 : k < Len(cs2) => cs2[k] = cs[k]
      BY <3>1, <1>10
    <3> QED
      BY <1>1, <1>3, <1>4, <1>8, <1>10, <3>1, <3>2, SuspendedSame
  <2>10. /\ stack' = stk2 /\ reg' = r2 /\ calls' = cs2 /\ mode' = "host" /\ allocated' /\ outcome' = NotReturned
         /\ cs2[Len(cs2)] = b
    BY <1>5, <1>7, <1>9, <1>10, <1>13, <2>1, <2>3, <2>6
  <2>11. HostState(stk2, cs2[Len(cs2)], r2, Len(stk2))
    BY <2>8, <2>10, <1>8
  <2>12. IInv'
    BY <2>2, <2>7, <2>9, <2>10, <2>11, <1>8, <1>10, ToHost
  <2>13. Queued(r, cs)
    BY <2>2, <2>7, <2>10 DEF Queued
  <2> QED
    BY <2>12, <2>13, <1>11, <1>2 DEF Fine
<1> QED
  BY <1>12, <1>13

-----------------------------------------------------------------------------
(* A bytecode function is called.                                          *)

LEMMA FunctionOfCode ==
    ASSUME NEW f \in Functions
    PROVE  FunctionOf(f) = f /\ \A h \in HandlersOf[f] : FunctionOf(h) = f
<1>1. \A g \in Functions : HandlersOf[g] \subseteq Handlers
  BY HandlersAssumption
<1>2. \A g \in Functions : (f = g \/ f \in HandlersOf[g]) <=> g = f
  BY <1>1, HandlersAssumption
<1>3. FunctionOf(f) = f
  BY <1>2 DEF FunctionOf
<1>4. ASSUME NEW h \in HandlersOf[f] PROVE FunctionOf(h) = f
  <2>1. \A g \in Functions : (h = g \/ h \in HandlersOf[g]) <=> g = f
    BY <1>1, HandlersAssumption
  <2> QED
    BY <2>1 DEF FunctionOf
<1> QED
  BY <1>3, <1>4

(* A frame that has room for some words has room for fewer.                *)
LEMMA RoomForFewer ==
    ASSUME NEW b \in Int, NEW pc, NEW m \in Int, NEW n \in Int, n <= m, RoomFor(b, pc, m)
    PROVE  RoomFor(b, pc, n)
<1>1. FunctionOf(pc) \in Functions
  BY DEF RoomFor
<1>2. FrameWords[FunctionOf(pc)] \in Nat
  BY <1>1, StackAssumption
<1> QED
  BY <1>2 DEF RoomFor

LEMMA CallState ==
    ASSUME NEW stk \in Seq(Word), NEW s \in Nat, s <= Len(stk), NEW r \in Registers,
           NEW flags \in AllFlags, NEW f \in Functions, Ready(stk, s, r, flags, Len(stk)),
           HasSpace(stk, FrameWords[f] + BoundaryWords + Temporaries),
           NEW r2 \in Registers, r2.fb = Len(stk) + BoundaryWords, r2.pc = f, r2.flags = flags, r2.catch = r.catch,
           NEW stk2, Called(stk, r, stk2)
    PROVE  /\ stk2 \in Seq(Word) /\ Len(stk2) = Len(stk) + BoundaryWords
           /\ \A p \in 1 .. Len(stk) : stk2[p] = stk[p]
           /\ JSState(stk2, s, r2, Len(stk2))
<1> HIDE DEF Word, Registers
<1>m. PICK m : m = Len(stk)
  OBVIOUS
<1>b. PICK b : b = m + 4
  OBVIOUS
<1>w. PICK w : w = m - Operands(flags)
  OBVIOUS
<1>1. m \in Nat /\ w \in Int /\ w <= m /\ b \in Int /\ b = m + 4 /\ s <= m
  BY <1>m, <1>b, <1>w, FlagsShape, LenProperties
<1>2. /\ OnlyOperands(stk, w, m)
      /\ IF flags.fromHost THEN w = s /\ r.fb <= s /\ r.catch = 0
                           ELSE JSState(stk, s, r, w) /\ RoomFor(r.fb, r.pc, m - r.fb)
  BY <1>m, <1>w DEF Ready
<1>3. r.fb \in Nat /\ r.fb <= m /\ s <= w /\ w \in Nat /\ (~ flags.fromHost => r.fb >= s + 4 /\ r.fb <= w)
  <2>0. r.fb \in Nat
    BY DEF Registers
  <2>1. CASE flags.fromHost
    BY <2>0, <2>1, <1>1, <1>2
  <2>2. CASE ~ flags.fromHost
    <3>1. r.fb <= w /\ r.fb >= s + 4
      BY <2>2, <1>2 DEF JSState, Frame, Boundaried, BoundaryWords
    <3> QED
      BY <3>1, <2>0, <2>2, <1>1
  <2> QED
    BY <2>1, <2>2
<1>4. /\ stk2 \in Seq(Word) /\ Len(stk2) = b /\ b \in Nat
      /\ \A p \in 1 .. m : stk2[p] = stk[p]
      /\ OnlyOperands(stk2, m, b - 1)
      /\ IsReturn(stk2, b) /\ stk2[b][2] = r.pc
      /\ CallerBase(stk2, b) = r.fb /\ stk2[b - 1][2] = r.flags
      /\ Boundaried(stk2, s, b)
  <2>1. r.fb <= Len(stk) /\ b - Len(stk) = 4 /\ b \in Int /\ s <= Len(stk)
    BY <1>m, <1>1, <1>3
  <2>2. /\ stk2 \in Seq(Word) /\ Len(stk2) = b /\ b \in Nat
        /\ \A p \in 1 .. Len(stk) : stk2[p] = stk[p]
        /\ OnlyOperands(stk2, Len(stk), b - 1)
        /\ IsReturn(stk2, b) /\ stk2[b][2] = r.pc
        /\ CallerBase(stk2, b) = r.fb /\ stk2[b - 1][2] = r.flags
        /\ \A q \in Nat : q <= Len(stk) => Boundaried(stk2, q, b)
    BY <2>1, BoundaryPushed
  <2> QED
    BY <2>1, <2>2, <1>m
<1>5. \A p \in s + 1 .. m : stk2[p] = stk[p]
  <2>1. \A p \in s + 1 .. m : p \in 1 .. m
    BY <1>1
  <2> QED
    BY <2>1, <1>4
<1>6. OnlyOperands(stk2, w, m)
  <2>1. s \in Int /\ m \in Int /\ m <= m
    BY <1>1
  <2> QED
    BY <2>1, <1>1, <1>2, <1>3, <1>5, OperandsSame
<1>7. OnlyOperands(stk2, w, b - 1)
  <2>1. \A p \in w + 1 .. b - 1 : p \in w + 1 .. m \/ p \in m + 1 .. b - 1
    BY <1>1
  <2> QED
    BY <2>1, <1>4, <1>6 DEF OnlyOperands
<1>8. \A p \in m + 1 .. b : ~ IsCatch(stk2, p) /\ (IsReturn(stk2, p) => p = b)
  <2>1. \A p \in m + 1 .. b : p \in m + 1 .. b - 1 \/ p = b
    BY <1>1
  <2>2. ~ IsCatch(stk2, b)
    BY <1>4 DEF IsReturn, IsCatch
  <2> QED
    BY <2>1, <2>2, <1>4 DEF OnlyOperands
<1>9. Frame(stk2, s, b, flags)
  <2>1. b - BoundaryWords - Operands(flags) = w
    <3>1. Operands(flags) \in Nat
      BY FlagsShape
    <3> QED
      BY <3>1, <1>1, <1>w DEF BoundaryWords
  <2>2. IF flags.fromHost THEN w = s /\ CallerBase(stk2, b) <= s ELSE CallerBase(stk2, b) \in s + 1 .. w
    BY <1>1, <1>2, <1>3, <1>4
  <2> QED
    BY <2>1, <2>2, <1>4, <1>7 DEF Frame
<1>10. RoomFor(b, f, b - b - 1)
  <2>1. FrameWords[f] \in Nat /\ FunctionOf(f) = f
    BY StackAssumption, FunctionOfCode
  <2>2. m + (FrameWords[f] + 4 + 5) <= StackWords
    BY <2>1, <1>1, <1>m, StackAssumption DEF HasSpace, BoundaryWords, Temporaries
  <2>3. b + FrameWords[f] + 5 <= StackWords /\ b - b - 1 <= FrameWords[f]
    BY <2>1, <2>2, <1>1, StackAssumption
  <2> QED
    BY <2>1, <2>3 DEF RoomFor, Temporaries
<1>11. OwnCatch(stk2, b, f, b)
  <2>1. b + 1 .. b = {}
    BY <1>1
  <2> QED
    BY <2>1 DEF OwnCatch
<1>12. ~ flags.fromHost => JSState(stk2, s, r, m)
  <2> SUFFICES ASSUME ~ flags.fromHost PROVE JSState(stk2, s, r, m)
    OBVIOUS
  <2>1. JSState(stk, s, r, w) /\ RoomFor(r.fb, r.pc, m - r.fb)
    BY <1>2
  <2>2. w <= Len(stk) /\ \A p \in s + 1 .. w : stk2[p] = stk[p]
    BY <1>m, <1>1, <1>3, <1>5
  <2>3. JSState(stk2, s, r, w)
    BY <2>1, <2>2, <1>3, JSStateSame
  <2>4. RoomFor(r.fb, r.pc, m - r.fb - 1)
    <3>1. PICK d, x, y, c : d = r.fb /\ x = m - r.fb /\ y = m - r.fb - 1 /\ c = r.pc
      OBVIOUS
    <3>2. d \in Int /\ x \in Int /\ y \in Int /\ y <= x /\ RoomFor(d, c, x)
      BY <3>1, <2>1, <1>1, <1>3
    <3>3. RoomFor(d, c, y)
      BY <3>2, RoomForFewer
    <3> QED
      BY <3>1, <3>3
  <2> QED
    BY <2>3, <2>4, <1>1, <1>3, <1>4, <1>6, JSStateGrows
<1>13. Chained(stk2, s, r.catch, b)
  <2>1. r.catch \in Nat
    BY DEF Registers
  <2>2. \A p \in s + 1 .. b : p \in s + 1 .. m \/ p \in m + 1 .. b
    BY <1>1
  <2>3. CASE flags.fromHost
    <3>1. r.catch = 0 /\ w = s
      BY <2>3, <1>2
    <3>2. \A p \in s + 1 .. b : ~ IsCatch(stk2, p)
      BY <2>2, <3>1, <1>6, <1>8 DEF OnlyOperands
    <3> QED
      BY <3>1, <3>2 DEF Chained
  <2>4. CASE ~ flags.fromHost
    <3>1. Chained(stk2, s, r.catch, m)
      BY <2>4, <1>12 DEF JSState
    <3>2. r.catch = 0 \/ (r.catch \in s + 1 .. b - 1 /\ IsCatch(stk2, r.catch))
      BY <3>1, <2>1, <1>1 DEF Chained
    <3>3. \A p \in s + 1 .. b : IsCatch(stk2, p) => p \in s + 1 .. m
      BY <2>2, <1>8
    <3> QED
      BY <3>1, <3>2, <3>3 DEF Chained
  <2> QED
    BY <2>3, <2>4
<1>14. Linked(stk2, s, b)
  <2>1. \A p \in s + 1 .. b : IsReturn(stk2, p) => p = b \/ p \in s + 1 .. m
    <3>1. \A p \in s + 1 .. b : p \in s + 1 .. m \/ p \in m + 1 .. b
      BY <1>1
    <3> QED
      BY <3>1, <1>8
  <2>2. CASE flags.fromHost
    <3>1. w = s /\ r.fb <= s
      BY <2>2, <1>2
    <3>2. \A p \in s + 1 .. m : ~ IsReturn(stk2, p)
      BY <3>1, <1>6 DEF OnlyOperands
    <3>3. ~ (CallerBase(stk2, b) > s)
      BY <3>1, <1>3, <1>4
    <3> QED
      BY <2>1, <3>2, <3>3, <1>4 DEF Linked
  <2>3. CASE ~ flags.fromHost
    <3>1. /\ Frame(stk2, s, r.fb, r.flags) /\ OwnCatch(stk2, r.fb, r.pc, m) /\ Linked(stk2, s, m)
      BY <2>3, <1>12 DEF JSState
    <3>2. b - BoundaryWords = m
      BY <1>1 DEF BoundaryWords
    <3>3. r.fb <= m /\ RoomFor(r.fb, r.pc, m - r.fb)
      BY <2>3, <1>2, <1>3
    <3>4. /\ CallerBase(stk2, b) <= b - BoundaryWords
          /\ Frame(stk2, s, CallerBase(stk2, b), stk2[b - 1][2])
          /\ RoomFor(CallerBase(stk2, b), stk2[b][2], b - BoundaryWords - CallerBase(stk2, b))
          /\ OwnCatch(stk2, CallerBase(stk2, b), stk2[b][2], b - BoundaryWords)
      BY <3>1, <3>2, <3>3, <1>4
    <3> QED
      BY <2>1, <3>1, <3>4, <1>4 DEF Linked
  <2> QED
    BY <2>2, <2>3
<1>15. JSState(stk2, s, r2, b)
  <2>1. r2.fb = b /\ r2.pc = f /\ r2.flags = flags /\ r2.catch = r.catch
    BY <1>m, <1>b DEF BoundaryWords
  <2>2. r2.fb <= b
    BY <2>1, <1>1
  <2> QED
    BY <2>1, <2>2, <1>9, <1>10, <1>11, <1>13, <1>14 DEF JSState
<1> QED
  BY <1>m, <1>b, <1>4, <1>15 DEF BoundaryWords

(* A call succeeds in starting the function, or its activation fails.      *)
LEMMA CallFine ==
    ASSUME NEW stk, NEW r, NEW cs, Inside(stk, r, cs), NEW flags \in AllFlags, NEW f \in Functions,
           Ready(stk, cs[Len(cs)].sp, r, flags, Len(stk)),
           SubCallBytecode(stk, r, cs, flags, f)
    PROVE  /\ Fine(stk, r, cs)
           /\ allocated' => reg'.queue = r.queue
           /\ stk = << >> /\ allocated' => mode' = "js" /\ Len(calls') = Len(cs) /\ Len(stack') = BoundaryWords
           /\ outcome'.err # "success"
<1> HIDE DEF Word, Registers, Activations
<1>1. stk \in Seq(Word) /\ r \in Registers /\ cs \in Seq(Activations) /\ cs # << >> /\ Suspended(stk, cs)
  BY DEF Inside
<1>2. PICK n, a, s : n = Len(cs) /\ a = cs[n] /\ s = a.sp
  OBVIOUS
<1>3. s <= Len(stk) /\ Len(stk) \in Nat
  BY <1>1, <1>2, LenProperties DEF Inside
<1>4. /\ n \in Nat /\ n \in 1 .. n /\ DOMAIN cs = 1 .. n /\ a \in Activations /\ s \in Nat
      /\ (s = 0 <=> n = 1) /\ \A k \in DOMAIN cs : cs[k].sp <= s
  BY <1>1, <1>2, TopShape
<1>5. CASE ~ HasSpace(stk, FrameWords[f] + BoundaryWords + Temporaries)
  <2>1. SubExit(stk, r, cs, "error")
    BY <1>5 DEF SubCallBytecode
  <2>2. Fine(stk, r, cs)
    <3>1. PICK e : e = "error"
      OBVIOUS
    <3>2. SubExit(stk, r, cs, e) /\ e # "success"
      BY <2>1, <3>1
    <3> QED
      BY <3>2, ExitFine
  <2>3. /\ reg' = (IF s = 0 THEN FreshRegisters ELSE AtExit(a.entry, r))
        /\ (allocated' <=> s # 0)
        /\ outcome' = (IF s = 0 THEN [err |-> "error", value |-> a.out] ELSE NotReturned)
    BY <2>1, <1>2 DEF SubExit
  <2>4. a.entry \in Registers
    BY <1>4 DEF Activations
  <2>5. AtExit(a.entry, r).queue = r.queue
    BY <2>4, <1>1, AtExitShape
  <2>6. stk = << >> => s = 0
    <3>1. stk = << >> => Len(stk) = 0
      BY EmptySeq
    <3> QED
      BY <3>1, <1>3, <1>4
  <2> QED
    BY <2>2, <2>3, <2>5, <2>6 DEF NotReturned
<1>6. CASE HasSpace(stk, FrameWords[f] + BoundaryWords + Temporaries)
  <2>1. PICK stk2, r2 : /\ stk2 = stk \o Boundary(stk, r)
                        /\ r2 = [r EXCEPT !.fb = Len(stk) + BoundaryWords, !.pc = f,
                                          !.flags = flags, !.closure = ScopeOf(f)]
    OBVIOUS
  <2>2. /\ allocated' = TRUE /\ stack' = stk2 /\ reg' = r2 /\ calls' = cs /\ mode' = "js"
        /\ outcome' = NotReturned
    BY <2>1, <1>6 DEF SubCallBytecode, Running
  <2>3. /\ r2 \in Registers /\ r2.fb = Len(stk) + BoundaryWords /\ r2.pc = f /\ r2.flags = flags
        /\ r2.catch = r.catch /\ r2.queue = r.queue
    <3>1. ScopeOf(f) \in Scopes /\ f \in Code /\ Len(stk) + BoundaryWords \in Nat
      BY <1>3 DEF ScopeOf, Scopes, Code, BoundaryWords
    <3> QED
      BY <2>1, <1>1, <3>1 DEF Registers
  <2>4. Called(stk, r, stk2)
    BY <2>1 DEF Called
  <2>5. Ready(stk, s, r, flags, Len(stk))
    BY <1>2
  <2>6. /\ stk2 \in Seq(Word) /\ Len(stk2) = Len(stk) + BoundaryWords
        /\ \A p \in 1 .. Len(stk) : stk2[p] = stk[p]
        /\ JSState(stk2, s, r2, Len(stk2))
    BY <1>1, <1>3, <1>4, <1>6, <2>3, <2>4, <2>5, CallState
  <2>7. \A p \in 1 .. s : stk2[p] = stk[p]
    <3>1. \A p \in 1 .. s : p \in 1 .. Len(stk)
      BY <1>3, <1>4
    <3> QED
      BY <2>6, <3>1
  <2>8. Suspended(stk2, cs)
    <3>1. /\ \A k \in DOMAIN cs : cs[k].sp = cs[k].sp /\ cs[k].entry = cs[k].entry
          /\ \A k \in DOMAIN cs : k < Len(cs) => cs[k] = cs[k]
          /\ Len(cs) <= Len(cs)
      BY <1>2, <1>4
    <3> QED
      BY <1>1, <1>3, <1>4, <2>7, <3>1, SuspendedSame
  <2>9. IInv'
    <3>1. JSState(stk2, cs[Len(cs)].sp, r2, Len(stk2))
      BY <2>6, <1>2
    <3> QED
      BY <1>1, <2>2, <2>3, <2>6, <2>8, <3>1, ToJS
  <2>10. Kept(stk, s)
    <3>1. s <= Len(stk2)
      BY <2>6, <1>3, <1>4 DEF BoundaryWords
    <3> QED
      BY <2>2, <2>7, <3>1 DEF Kept
  <2>11. outcome'.err = "none"
    BY <2>2 DEF NotReturned
  <2>12. Queued(r, cs)
    BY <2>2, <2>3, <2>11, <1>1 DEF Queued
  <2>13. stk = << >> => Len(stack') = BoundaryWords
    <3>1. stk = << >> => Len(stk) = 0
      BY EmptySeq
    <3> QED
      BY <3>1, <2>2, <2>6 DEF BoundaryWords
  <2> QED
    BY <2>2, <2>3, <2>9, <2>10, <2>11, <2>12, <2>13, <1>2 DEF Fine
<1> QED
  BY <1>5, <1>6

-----------------------------------------------------------------------------
(* The result of a call.                                                   *)

(* Given and SetTop on the innermost activation.                           *)
LEMMA TopChanged ==
    ASSUME NEW stk \in Seq(Word), NEW r \in Registers, NEW cs, Inside(stk, r, cs),
           NEW a \in Activations, a.sp = cs[Len(cs)].sp, a.entry = cs[Len(cs)].entry
    PROVE  /\ Inside(stk, r, SetTop(cs, a)) /\ Len(SetTop(cs, a)) = Len(cs)
           /\ SetTop(cs, a)[Len(SetTop(cs, a))] = a
<1> HIDE DEF Word, Registers, Activations
<1>1. cs \in Seq(Activations) /\ cs # << >> /\ Suspended(stk, cs) /\ cs[Len(cs)].sp <= Len(stk)
  BY DEF Inside
<1>2. PICK n, s, cs2 : n = Len(cs) /\ s = a.sp /\ cs2 = SetTop(cs, a)
  OBVIOUS
<1>3. /\ cs2 \in Seq(Activations) /\ Len(cs2) = n /\ cs2 # << >> /\ cs2[n] = a
      /\ \A k \in DOMAIN cs : k # n => cs2[k] = cs[k]
  BY <1>1, <1>2, SetTopShape
<1>4. /\ n \in Nat /\ n \in 1 .. n /\ DOMAIN cs = 1 .. n /\ s \in Nat /\ s <= Len(stk)
      /\ \A k \in DOMAIN cs : cs[k].sp <= s
  BY <1>1, <1>2, TopShape
<1>5. DOMAIN cs2 = 1 .. n
  BY <1>3, LenProperties
<1>6. \A k \in DOMAIN cs2 : cs2[k].sp = cs[k].sp /\ cs2[k].entry = cs[k].entry
  BY <1>2, <1>3, <1>4, <1>5
<1>7. \A k \in DOMAIN cs2 : k < Len(cs2) => cs2[k] = cs[k]
  BY <1>3, <1>4, <1>5
<1>8. Len(cs2) <= Len(cs)
  BY <1>2, <1>3, <1>4
<1>9. Suspended(stk, cs2)
  <2>1. \A p \in 1 .. s : stk[p] = stk[p]
    OBVIOUS
  <2> QED
    BY <1>1, <1>3, <1>4, <1>6, <1>7, <1>8, <2>1, SuspendedSame
<1>10. Inside(stk, r, cs2)
  BY <1>2, <1>3, <1>4, <1>9 DEF Inside
<1> QED
  BY <1>2, <1>3, <1>10

LEMMA InsideSame ==
    ASSUME NEW stk, NEW r, NEW cs, Inside(stk, r, cs), NEW s, s = cs[Len(cs)].sp,
           NEW stk2 \in Seq(Word), s <= Len(stk2), \A p \in 1 .. s : stk2[p] = stk[p], NEW r2 \in Registers
    PROVE  Inside(stk2, r2, cs)
<1> HIDE DEF Word, Registers, Activations
<1>1. /\ stk \in Seq(Word) /\ cs \in Seq(Activations) /\ cs # << >> /\ Suspended(stk, cs)
      /\ cs[Len(cs)].sp <= Len(stk)
  BY DEF Inside
<1>2. cs[Len(cs)].sp \in Nat /\ \A k \in DOMAIN cs : cs[k].sp <= cs[Len(cs)].sp
  BY <1>1, TopShape
<1>3. PICK m : m = cs[Len(cs)].sp
  OBVIOUS
<1>4. m \in Nat /\ m <= Len(stk) /\ \A k \in DOMAIN cs : cs[k].sp <= m
  BY <1>1, <1>2, <1>3
<1>5. \A p \in 1 .. m : stk2[p] = stk[p]
  BY <1>3
<1>6. Len(cs) \in Nat
  BY <1>1, LenProperties
<1>7. /\ \A k \in DOMAIN cs : cs[k].sp = cs[k].sp /\ cs[k].entry = cs[k].entry
      /\ \A k \in DOMAIN cs : k < Len(cs) => cs[k] = cs[k]
      /\ Len(cs) <= Len(cs)
  BY <1>6
<1>8. Suspended(stk2, cs)
  BY <1>1, <1>4, <1>5, <1>7, SuspendedSame
<1> QED
  BY <1>1, <1>8 DEF Inside

LEMMA FineSame ==
    ASSUME NEW stk, NEW stk2, NEW r, NEW r2, r2.queue = r.queue, NEW cs, NEW cs2, Len(cs2) = Len(cs),
           NEW s \in Nat, cs2[Len(cs2)].sp = s, cs[Len(cs)].sp = s, \A p \in 1 .. s : stk2[p] = stk[p],
           Fine(stk2, r2, cs2)
    PROVE  Fine(stk, r, cs)
BY DEF Fine, Kept, Queued

(* JS code goes on in the same activation.                                 *)
LEMMA RunFine ==
    ASSUME NEW stk, NEW r, NEW cs, Inside(stk, r, cs), NEW s, s = cs[Len(cs)].sp,
           NEW stk2 \in Seq(Word), \A p \in 1 .. s : stk2[p] = stk[p],
           NEW r2 \in Registers, r2.queue = r.queue, JSState(stk2, s, r2, Len(stk2)),
           Running("js", stk2, r2, cs)
    PROVE  Fine(stk, r, cs)
<1> HIDE DEF Word, Registers, Activations
<1>1. r2.fb \in Nat /\ r2.fb <= Len(stk2) /\ r2.fb >= s + 4
  BY DEF JSState, Frame, Boundaried, BoundaryWords, Registers
<1>2. s \in Nat /\ Len(stk2) \in Nat /\ cs \in Seq(Activations) /\ cs # << >>
  BY TopShape, LenProperties DEF Inside
<1>3. s <= Len(stk2)
  BY <1>1, <1>2
<1>4. Inside(stk2, r2, cs)
  BY <1>3, InsideSame
<1>5. Suspended(stk2, cs) /\ JSState(stk2, cs[Len(cs)].sp, r2, Len(stk2))
  BY <1>4 DEF Inside
<1>6. /\ stack' = stk2 /\ reg' = r2 /\ calls' = cs /\ mode' = "js" /\ allocated'
      /\ outcome' = NotReturned
  BY DEF Running
<1>7. IInv'
  BY <1>2, <1>5, <1>6, ToJS
<1>8. Kept(stk, cs[Len(cs)].sp)
  BY <1>3, <1>6 DEF Kept
<1>9. Queued(r, cs)
  BY <1>2, <1>6 DEF Queued
<1> QED
  BY <1>7, <1>8, <1>9 DEF Fine

LEMMA GivenShape ==
    ASSUME NEW a \in Activations, NEW v \in {"result", "exception"}
    PROVE  /\ Given(a, v) \in Activations /\ Given(a, v).sp = a.sp /\ Given(a, v).entry = a.entry
           /\ [Given(a, v) EXCEPT !.asked = FALSE] \in Activations
           /\ [Given(a, v) EXCEPT !.asked = FALSE].sp = a.sp
           /\ [Given(a, v) EXCEPT !.asked = FALSE].entry = a.entry
BY DEF Given, Activations

(* The outermost activation ends with the job queue empty.                 *)
LEMMA ReturnToHostFine ==
    ASSUME NEW stk, NEW r, NEW cs, Inside(stk, r, cs), Len(stk) = cs[Len(cs)].sp,
           r.fb <= Len(stk), r.catch = 0, SubReturnToHost(stk, r, cs)
    PROVE  Fine(stk, r, cs)
<1> HIDE DEF Word, Registers, Activations
<1>1. stk \in Seq(Word) /\ r \in Registers /\ cs \in Seq(Activations) /\ cs # << >> /\ Suspended(stk, cs)
  BY DEF Inside
<1>2. PICK n, s, a : n = Len(cs) /\ s = Len(stk) /\ a = Given(cs[n], "result")
  OBVIOUS
<1>3. n \in Nat /\ cs[n] \in Activations /\ s \in Nat /\ cs[n].sp = s /\ (s = 0 <=> n = 1)
  BY <1>1, <1>2, TopShape
<1>4. /\ a \in Activations /\ a.sp = s /\ a.entry = cs[n].entry
      /\ [a EXCEPT !.asked = FALSE] \in Activations
      /\ [a EXCEPT !.asked = FALSE].sp = s /\ [a EXCEPT !.asked = FALSE].entry = cs[n].entry
  BY <1>2, <1>3, GivenShape
<1>5. r.queue \in Nat /\ r.fb \in Nat
  BY <1>1 DEF Registers
<1>6. \A p \in 1 .. s : stk[p] = stk[p]
  OBVIOUS
<1>7. stk = << >> <=> s = 0
  BY <1>1, <1>2, EmptySeq
<1>8. CASE JobIsDue(stk, r)
  <2>1. stk = << >> /\ r.queue > 0 /\ s = 0 /\ n = 1
    BY <1>7, <1>8, <1>3 DEF JobIsDue
  <2>2. PICK r2, b, flags : /\ r2 = [r EXCEPT !.queue = @ - 1] /\ b = [a EXCEPT !.asked = FALSE]
                            /\ flags = [NoFlags EXCEPT !.fromHost = TRUE]
    OBVIOUS
  <2>3. r2 \in Registers /\ r2.fb = r.fb /\ r2.catch = r.catch
    BY <2>1, <2>2, <1>1, <1>5 DEF Registers
  <2>4. flags \in AllFlags /\ flags.fromHost /\ Operands(flags) = 0
    <3>1. flags \in AllFlags /\ flags.fromHost = TRUE /\ flags.argc = 0 /\ flags.pushed = FALSE
      BY <2>2 DEF AllFlags, NoFlags
    <3> QED
      BY <3>1 DEF Operands
  <2>5. PICK cs2 : cs2 = SetTop(cs, b)
    OBVIOUS
  <2>6. SubCallBytecode(stk, r2, cs2, flags, JobFunction)
    BY <1>2, <1>8, <2>2, <2>5 DEF SubReturnToHost
  <2>7. Inside(stk, r2, cs2) /\ Len(cs2) = n /\ cs2[n] = b /\ b.sp = 0
    <3>1. Inside(stk, r2, cs)
      BY <1>1, <1>2, <1>3, <2>3 DEF Inside
    <3>2. b \in Activations /\ b.sp = cs[Len(cs)].sp /\ b.entry = cs[Len(cs)].entry
      BY <1>2, <1>3, <1>4, <2>2
    <3>3. /\ Inside(stk, r2, SetTop(cs, b)) /\ Len(SetTop(cs, b)) = Len(cs)
          /\ SetTop(cs, b)[Len(SetTop(cs, b))] = b
      BY <3>1, <3>2, <2>3, <1>1, TopChanged
    <3> QED
      BY <3>2, <3>3, <2>1, <2>5, <1>2, <1>3
  <2>8. Ready(stk, cs2[Len(cs2)].sp, r2, flags, Len(stk))
    <3>1. cs2[Len(cs2)].sp = 0 /\ Len(stk) = 0 /\ r2.fb = 0 /\ r2.catch = 0
      BY <2>1, <2>3, <2>7, <1>2, <1>5
    <3>2. Ready(stk, 0, r2, flags, 0)
      <4>1. 0 - Operands(flags) = 0 /\ OnlyOperands(stk, 0, 0)
        <5>1. 0 + 1 .. 0 = {}
          OBVIOUS
        <5> QED
          BY <5>1, <2>4 DEF OnlyOperands
      <4> QED
        BY <4>1, <3>1, <2>4 DEF Ready
    <3> QED
      BY <3>1, <3>2
  <2>9. JobFunction \in Functions
    BY JobFunctionAssumption
  <2>10. /\ Fine(stk, r2, cs2)
         /\ stk = << >> /\ allocated' => mode' = "js" /\ Len(calls') = Len(cs2) /\ Len(stack') = BoundaryWords
         /\ outcome'.err # "success"
    BY <2>4, <2>6, <2>7, <2>8, <2>9, CallFine
  <2>11. Kept(stk, cs[Len(cs)].sp)
    BY <2>10, <2>7, <2>1, <1>2, <1>3 DEF Fine
  <2>12. Queued(r, cs)
    BY <2>10, <2>7, <2>1, <1>2 DEF Queued
  <2> QED
    BY <2>10, <2>11, <2>12 DEF Fine
<1>9. CASE ~ JobIsDue(stk, r)
  <2>1. PICK cs2 : cs2 = SetTop(cs, a)
    OBVIOUS
  <2>2. SubExit(stk, r, cs2, "success")
    BY <1>2, <1>9, <2>1 DEF SubReturnToHost
  <2>3. Inside(stk, r, cs2) /\ Len(cs2) = n /\ cs2[n] = a
    BY <2>1, <1>1, <1>2, <1>3, <1>4, TopChanged
  <2>4. cs2[Len(cs2)].sp = 0 => r.queue = 0
    <3>1. cs2[Len(cs2)].sp = 0 => stk = << >>
      BY <2>3, <1>4, <1>7
    <3> QED
      BY <3>1, <1>5, <1>9 DEF JobIsDue
  <2>5. Fine(stk, r, cs2)
    <3>1. PICK e : e = "success"
      OBVIOUS
    <3>2. SubExit(stk, r, cs2, e)
      BY <2>2, <3>1
    <3> QED
      BY <2>3, <2>4, <3>2, ExitFine
  <2>6. cs2[Len(cs2)].sp = s /\ cs[Len(cs)].sp = s /\ Len(cs2) = Len(cs) /\ r.queue = r.queue
    BY <2>3, <1>2, <1>3, <1>4
  <2> QED
    BY <2>5, <2>6, <1>3, <1>6, FineSame
<1> QED
  BY <1>8, <1>9

(* Arguments are popped, and the result goes to the caller.                *)
LEMMA PopArgsFine ==
    ASSUME NEW stk, NEW r, NEW cs, Inside(stk, r, cs), NEW flags \in AllFlags,
           Ready(stk, cs[Len(cs)].sp, r, flags, Len(stk)), SubPopArgs(stk, r, cs, flags)
    PROVE  Fine(stk, r, cs)
<1> HIDE DEF Word, Registers, Activations
<1>1. stk \in Seq(Word) /\ r \in Registers /\ cs \in Seq(Activations) /\ cs # << >> /\ Suspended(stk, cs)
  BY DEF Inside
<1>2. PICK m, s, w : m = Len(stk) /\ s = cs[Len(cs)].sp /\ w = m - Operands(flags)
  OBVIOUS
<1>3. m \in Nat /\ s \in Nat /\ s <= m /\ w \in Int /\ w <= m
  BY <1>1, <1>2, TopShape, FlagsShape, LenProperties DEF Inside
<1>4. /\ OnlyOperands(stk, w, m)
      /\ IF flags.fromHost THEN w = s /\ r.fb <= s /\ r.catch = 0
                           ELSE JSState(stk, s, r, w) /\ RoomFor(r.fb, r.pc, m - r.fb)
  BY <1>2 DEF Ready
<1>5. r.fb \in Nat /\ r.catch \in Nat
  BY <1>1 DEF Registers
<1>6. s <= w /\ (~ flags.fromHost => r.fb <= w)
  <2>1. CASE flags.fromHost
    BY <2>1, <1>3, <1>4
  <2>2. CASE ~ flags.fromHost
    <3>1. r.fb <= w /\ r.fb >= s + 4
      BY <2>2, <1>4 DEF JSState, Frame, Boundaried, BoundaryWords
    <3> QED
      BY <3>1, <1>3, <1>5
  <2> QED
    BY <2>1, <2>2
<1>7. w \in 0 .. Len(stk) /\ w \in Nat
  BY <1>2, <1>3, <1>6
<1>8. PICK rest : rest = SubSeq(stk, 1, w)
  OBVIOUS
<1>9. rest \in Seq(Word) /\ Len(rest) = w /\ \A p \in 1 .. w : rest[p] = stk[p]
  BY <1>1, <1>7, <1>8, CutShape
<1>10. \A p \in 1 .. s : rest[p] = stk[p]
  <2>1. \A p \in 1 .. s : p \in 1 .. w
    BY <1>3, <1>6
  <2> QED
    BY <2>1, <1>9
<1>11. CASE flags.fromHost
  <2>1. SubReturnToHost(rest, r, cs)
    BY <1>2, <1>8, <1>11 DEF SubPopArgs
  <2>2. Inside(rest, r, cs)
    BY <1>1, <1>2, <1>6, <1>9, <1>10, InsideSame
  <2>3. Len(rest) = cs[Len(cs)].sp /\ r.fb <= Len(rest) /\ r.catch = 0
    BY <1>2, <1>4, <1>9, <1>11
  <2>4. Fine(rest, r, cs)
    BY <2>1, <2>2, <2>3, ReturnToHostFine
  <2> QED
    BY <2>4, <1>2, <1>3, <1>10, FineSame
<1>12. CASE ~ flags.fromHost
  <2>1. PICK stk2 : stk2 = IF flags.void THEN rest ELSE Append(rest, Val)
    OBVIOUS
  <2>2. Running("js", stk2, r, cs)
    BY <1>2, <1>8, <1>12, <2>1 DEF SubPopArgs
  <2>3. JSState(stk, s, r, w) /\ RoomFor(r.fb, r.pc, m - r.fb)
    BY <1>4, <1>12
  <2>4. \A p \in s + 1 .. w : p \in 1 .. w
    BY <1>3
  <2>5. CASE flags.void
    <3>1. stk2 = rest
      BY <2>1, <2>5
    <3>2. w <= Len(stk) /\ \A p \in s + 1 .. w : rest[p] = stk[p]
      BY <2>4, <1>2, <1>3, <1>9
    <3>3. JSState(rest, s, r, w)
      BY <2>3, <3>2, <1>1, <1>3, <1>7, JSStateSame
    <3>4. JSState(stk2, s, r, Len(stk2))
      BY <3>1, <3>3, <1>9
    <3> QED
      BY <2>2, <3>1, <3>4, <1>1, <1>2, <1>9, <1>10, RunFine
  <2>6. CASE ~ flags.void
    <3>1. stk2 = Append(rest, Val)
      BY <2>1, <2>6
    <3>2. /\ stk2 \in Seq(Word) /\ Len(stk2) = w + 1 /\ \A p \in 1 .. w : stk2[p] = rest[p]
          /\ stk2[w + 1] = Val /\ Val[1] = "value"
      BY <3>1, <1>9, NewWords, PushedShape
    <3>3. \A p \in 1 .. w : stk2[p] = stk[p]
      BY <3>2, <1>9
    <3>4. w <= Len(stk) /\ \A p \in s + 1 .. w : stk2[p] = stk[p]
      BY <2>4, <3>3, <1>2, <1>3
    <3>5. JSState(stk2, s, r, w)
      BY <2>3, <3>4, <1>1, <1>3, <1>7, JSStateSame
    <3>6. OnlyOperands(stk2, w, w + 1)
      <4>1. \A p \in w + 1 .. w + 1 : p = w + 1
        BY <1>7
      <4> QED
        BY <3>2, <4>1 DEF OnlyOperands, IsCatch, IsReturn
    <3>7. PICK u : u = w + 1
      OBVIOUS
    <3>8. RoomFor(r.fb, r.pc, u - r.fb - 1)
      <4>1. PICK d, x, y, c : d = r.fb /\ x = m - r.fb /\ y = u - r.fb - 1 /\ c = r.pc
        OBVIOUS
      <4>2. d \in Int /\ x \in Int /\ y \in Int /\ y <= x /\ RoomFor(d, c, x)
        BY <4>1, <3>7, <2>3, <1>3, <1>5, <1>7, SMTT(20)
      <4>3. RoomFor(d, c, y)
        BY <4>2, RoomForFewer
      <4> QED
        BY <4>1, <4>3
    <3>9. u \in Nat /\ w <= u /\ OnlyOperands(stk2, w, u)
      BY <3>6, <3>7, <1>7
    <3>10. JSState(stk2, s, r, u)
      BY <3>2, <3>5, <3>8, <3>9, <1>1, <1>3, <1>7, JSStateGrows
    <3>11. JSState(stk2, s, r, Len(stk2))
      BY <3>2, <3>7, <3>10
    <3>12. \A p \in 1 .. s : stk2[p] = stk[p]
      <4>1. \A p \in 1 .. s : p \in 1 .. w
        BY <1>3, <1>6
      <4> QED
        BY <4>1, <3>3
    <3> QED
      BY <2>2, <3>2, <3>11, <3>12, <1>1, <1>2, RunFine
  <2> QED
    BY <2>5, <2>6
<1> QED
  BY <1>11, <1>12

(* A host function is called.                                              *)
LEMMA CallHostFine ==
    ASSUME NEW stk, NEW r, NEW cs, Inside(stk, r, cs), NEW flags \in AllFlags, flags.override = FALSE,
           Ready(stk, cs[Len(cs)].sp, r, flags, Len(stk)), SubCallHost(stk, r, cs, flags)
    PROVE  Fine(stk, r, cs)
<1> HIDE DEF Word, Registers, Activations
<1>1. stk \in Seq(Word) /\ r \in Registers /\ cs \in Seq(Activations) /\ cs # << >> /\ Suspended(stk, cs)
  BY DEF Inside
<1>2. PICK m, n, s : m = Len(stk) /\ n = Len(cs) /\ s = cs[n].sp
  OBVIOUS
<1>3. m \in Nat /\ s \in Nat /\ s <= m /\ n \in Nat /\ cs[n] \in Activations
  BY <1>1, <1>2, TopShape, LenProperties DEF Inside
<1>4. PICK r2, h, a : /\ r2 = [r EXCEPT !.flags = flags]
                      /\ h = [flags |-> flags, savedFlags |-> r.flags, regCopy |-> r2, sp |-> m + 1]
                      /\ a = [cs[n] EXCEPT !.host = h]
  OBVIOUS
<1>5. /\ r2 \in Registers /\ r2.flags = flags /\ r2.fb = r.fb /\ r2.pc = r.pc /\ r2.catch = r.catch
      /\ r2.queue = r.queue /\ r.flags \in AllFlags
  BY <1>1, <1>4 DEF Registers
<1>6. h \in InHost /\ h.flags = flags /\ h.savedFlags = r.flags /\ h.regCopy = r2 /\ h.sp = m + 1
  BY <1>3, <1>4, <1>5 DEF InHost
<1>7. a \in Activations /\ a.sp = s /\ a.entry = cs[n].entry /\ a.host = h
  BY <1>2, <1>3, <1>4, <1>6 DEF Activations
<1>8. PICK cs2, stk2 : cs2 = SetTop(cs, a) /\ stk2 = Append(stk, Val)
  OBVIOUS
<1>9. /\ stk2 \in Seq(Word) /\ Len(stk2) = m + 1 /\ \A p \in 1 .. m : stk2[p] = stk[p]
      /\ stk2[m + 1] = Val /\ Val[1] = "value"
  BY <1>1, <1>2, <1>8, NewWords, PushedShape
<1>10. Inside(stk2, r2, cs2) /\ Len(cs2) = n /\ cs2[n] = a
  <2>1. s <= Len(stk2) /\ \A p \in 1 .. s : stk2[p] = stk[p]
    <3>1. \A p \in 1 .. s : p \in 1 .. m
      BY <1>3
    <3> QED
      BY <3>1, <1>3, <1>9
  <2>2. Inside(stk2, r2, cs)
    BY <2>1, <1>2, <1>5, <1>9, InsideSame
  <2>3. a.sp = cs[Len(cs)].sp /\ a.entry = cs[Len(cs)].entry
    BY <1>2, <1>7
  <2>4. /\ Inside(stk2, r2, SetTop(cs, a)) /\ Len(SetTop(cs, a)) = Len(cs)
        /\ SetTop(cs, a)[Len(SetTop(cs, a))] = a
    <3>1. stk2 \in Seq(Word) /\ r2 \in Registers /\ a \in Activations
      BY <1>5, <1>7, <1>9
    <3> QED
      BY <2>2, <2>3, <3>1, TopChanged
  <2> QED
    BY <2>4, <1>2, <1>8
<1>11. /\ stack' = stk2 /\ reg' = r2 /\ calls' = cs2 /\ mode' = "host" /\ allocated'
       /\ outcome' = NotReturned
  BY <1>2, <1>4, <1>8 DEF SubCallHost, Running
<1>12. HostState(stk2, a, r2, m + 1)
  <2>1. PICK q : q = CallerOf(a, r2)
    OBVIOUS
  <2>2. q.fb = r.fb /\ q.pc = r.pc /\ q.flags = r.flags /\ q.catch = r.catch
    BY <2>1, <1>5, <1>6, <1>7 DEF Registers, CallerOf
  <2>3. \A p \in s + 1 .. m : stk2[p] = stk[p]
    <3>1. \A p \in s + 1 .. m : p \in 1 .. m
      BY <1>3
    <3> QED
      BY <3>1, <1>9
  <2>4. Ready(stk, s, r, flags, m) /\ m <= Len(stk)
    BY <1>2, <1>3
  <2>5. Ready(stk2, s, q, flags, m)
    BY <2>2, <2>3, <2>4, <1>1, <1>3, ReadySame
  <2>6. Ready(stk2, a.sp, CallerOf(a, r2), a.host.flags, (m + 1) - 1)
    <3>1. (m + 1) - 1 = m
      BY <1>3
    <3> QED
      BY <2>1, <2>5, <3>1, <1>6, <1>7
  <2>7. [r2.flags EXCEPT !.override = FALSE] = flags
    BY <1>5 DEF AllFlags
  <2>8. a.host.regCopy.fb = r2.fb /\ a.host.regCopy.pc = r2.pc /\ a.host.regCopy.catch = r2.catch
        /\ a.host.regCopy.flags = flags /\ a.host.sp = m + 1 /\ m + 1 > a.sp
    BY <1>3, <1>5, <1>6, <1>7
  <2> QED
    BY <2>6, <2>7, <2>8, <1>9 DEF HostState, IsCatch, IsReturn
<1>13. cs2 \in Seq(Activations) /\ cs2 # << >> /\ Suspended(stk2, cs2)
  BY <1>10 DEF Inside
<1>14. IInv'
  <2>1. HostState(stk2, cs2[Len(cs2)], r2, Len(stk2))
    BY <1>9, <1>10, <1>12
  <2> QED
    BY <2>1, <1>5, <1>9, <1>11, <1>13, ToHost
<1>15. Kept(stk, cs[Len(cs)].sp)
  <2>1. s <= Len(stk2) /\ \A p \in 1 .. s : p \in 1 .. m
    BY <1>3, <1>9
  <2> QED
    BY <2>1, <1>2, <1>9, <1>11 DEF Kept
<1>16. Queued(r, cs)
  BY <1>5, <1>11, <1>13 DEF Queued
<1> QED
  BY <1>14, <1>15, <1>16 DEF Fine

LEMMA SubCallFine ==
    ASSUME NEW stk, NEW r, NEW cs, Inside(stk, r, cs), NEW flags \in AllFlags, flags.override = FALSE,
           NEW target \in Targets,
           Ready(stk, cs[Len(cs)].sp, r, flags, Len(stk)), SubCall(stk, r, cs, flags, target)
    PROVE  Fine(stk, r, cs)
<1> USE TargetsAssumption
<1>1. CASE target \in Functions
  <2>1. SubCallBytecode(stk, r, cs, flags, target)
    BY <1>1 DEF SubCall
  <2> QED
    BY <1>1, <2>1, CallFine
<1>2. CASE target = "host"
  <2>1. SubCallHost(stk, r, cs, flags)
    BY <1>2 DEF SubCall
  <2> QED
    BY <2>1, CallHostFine
<1>3. CASE target = "noop"
  <2>1. SubPopArgs(stk, r, cs, flags)
    BY <1>3 DEF SubCall
  <2> QED
    BY <2>1, PopArgsFine
<1>4. CASE target = "uncallable"
  <2>1. PICK e : e = "error"
    OBVIOUS
  <2>2. SubExit(stk, r, cs, e) /\ e # "success"
    BY <2>1, <1>4 DEF SubCall
  <2> QED
    BY <2>2, ExitFine
<1> QED
  BY <1>1, <1>2, <1>3, <1>4 DEF Targets

-----------------------------------------------------------------------------
(* Catch targets.                                                          *)

(* The chain goes on below its innermost catch target.                     *)
LEMMA ChainBelow ==
    ASSUME NEW stk \in Seq(Word), NEW s \in Nat, NEW t \in Nat, t <= Len(stk), NEW c \in Nat, c # 0,
           Chained(stk, s, c, t)
    PROVE  /\ c \in s + 1 .. t - 1 /\ IsCatch(stk, c) /\ OuterCatch(stk, c) \in Nat
           /\ Chained(stk, s, OuterCatch(stk, c), c - 1)
<1>1. c \in s + 1 .. t - 1 /\ c \in s + 1 .. t /\ IsCatch(stk, c)
  BY DEF Chained
<1>2. PICK o : o = OuterCatch(stk, c)
  OBVIOUS
<1>3. /\ o = 0 \/ (o \in s + 1 .. c - 2 /\ IsCatch(stk, o))
      /\ \A q \in s + 1 .. c - 1 : IsCatch(stk, q) => q <= o
  BY <1>1, <1>2 DEF Chained
<1>4. o \in Nat /\ (o = 0 \/ (o \in s + 1 .. (c - 1) - 1 /\ IsCatch(stk, o)))
  BY <1>3
<1>5. \A p \in s + 1 .. c - 1 : p \in s + 1 .. t
  BY <1>1
<1>6. Chained(stk, s, o, c - 1)
  BY <1>3, <1>4, <1>5 DEF Chained
<1> QED
  BY <1>1, <1>2, <1>4, <1>6

(* What is on the stack when code goes on below the catch target c of its  *)
(* own frame: r are its registers, and u is how far its frame reached.     *)
LEMMA CutAtCatch ==
    ASSUME NEW stk \in Seq(Word), NEW s \in Nat, NEW t \in Nat, t <= Len(stk), NEW c \in Nat, c # 0,
           Chained(stk, s, c, t), Linked(stk, s, t),
           NEW r \in Registers, NEW x, Frame(stk, s, r.fb, r.flags), RoomFor(r.fb, r.pc, x),
           NEW u \in Int, r.fb < c, c <= u, u <= t, OwnCatch(stk, r.fb, r.pc, u),
           NEW stk2, \A p \in 1 .. c - 1 : stk2[p] = stk[p],
           NEW r2, r2.fb = r.fb, r2.flags = r.flags, r2.catch = OuterCatch(stk, c),
           FunctionOf(r2.pc) = FunctionOf(r.pc)
    PROVE  JSState(stk2, s, r2, c - 1) /\ RoomFor(r2.fb, r2.pc, c - r2.fb - 1)
<1>1. /\ c \in s + 1 .. t - 1 /\ IsCatch(stk, c) /\ OuterCatch(stk, c) \in Nat
      /\ Chained(stk, s, OuterCatch(stk, c), c - 1)
  BY ChainBelow
<1>2. PICK m, b, f, F, o : m = c - 1 /\ b = r.fb /\ f = r.flags /\ F = FunctionOf(r.pc) /\ o = OuterCatch(stk, c)
  OBVIOUS
<1>3. b \in Nat /\ f \in AllFlags /\ F \in Functions /\ Len(stk) \in Nat
  BY <1>2, LenProperties DEF Registers, RoomFor
<1>4. m \in Nat /\ m <= Len(stk) /\ b <= m /\ m <= t /\ m <= u /\ c = m + 1
  BY <1>1, <1>2, <1>3
<1>5. \A p \in s + 1 .. m : stk2[p] = stk[p]
  <2>1. \A p \in s + 1 .. m : p \in 1 .. c - 1
    BY <1>4
  <2> QED
    BY <2>1
<1>6. s <= b
  <2>1. b >= s + 4
    BY <1>2 DEF Frame, Boundaried, BoundaryWords
  <2> QED
    BY <2>1, <1>3
<1>7. Frame(stk2, s, b, f)
  <2>1. Frame(stk, s, b, f) /\ b \in Int
    BY <1>2, <1>3
  <2> HIDE DEF Word
  <2> QED
    BY <2>1, <1>3, <1>4, <1>5, FrameSame
<1>8. /\ c + 1 - b <= FrameWords[F]
      /\ \E h \in HandlersOf[F] : stk[c + 1] = <<"handler", h>>
  <2>1. c \in b + 1 .. u
    BY <1>1, <1>2, <1>3
  <2> QED
    BY <2>1, <1>1, <1>2 DEF OwnCatch
<1>9. RoomFor(r2.fb, r2.pc, c - r2.fb - 1) /\ RoomFor(r2.fb, r2.pc, m - r2.fb - 1)
  <2>1. FrameWords[F] \in Nat
    BY <1>3, StackAssumption
  <2>2. c - b - 1 <= FrameWords[F] /\ m - b - 1 <= FrameWords[F]
    BY <2>1, <1>3, <1>4, <1>8
  <2>3. b + FrameWords[F] + Temporaries <= StackWords
    BY <1>2 DEF RoomFor
  <2>4. FunctionOf(r2.pc) = F /\ r2.fb = b
    BY <1>2
  <2> QED
    BY <2>2, <2>3, <2>4, <1>3 DEF RoomFor
<1>10. OwnCatch(stk2, b, r2.pc, m)
  <2>1. \A p \in b + 1 .. m : IsCatch(stk, p) => p + 1 <= m
    <3>1. SUFFICES ASSUME NEW p \in b + 1 .. m, IsCatch(stk, p), ~ (p + 1 <= m) PROVE FALSE
      OBVIOUS
    <3>2. p + 1 = c /\ p \in b + 1 .. u
      BY <3>1, <1>3, <1>4
    <3>3. \E h \in HandlersOf[F] : stk[p + 1] = <<"handler", h>>
      BY <3>1, <3>2, <1>2 DEF OwnCatch
    <3> QED
      BY <3>2, <3>3, <1>1 DEF IsCatch
  <2>2. PICK pc : pc = r.pc
    OBVIOUS
  <2>3. OwnCatch(stk, b, pc, u) /\ s \in Int /\ b \in Int /\ m \in Int
    BY <2>2, <1>2, <1>3, <1>4
  <2>4. OwnCatch(stk2, b, pc, m)
    BY <2>1, <2>3, <1>4, <1>5, <1>6, OwnCatchSame
  <2>5. FunctionOf(r2.pc) = FunctionOf(pc)
    BY <2>2
  <2> QED
    BY <2>4, <2>5 DEF OwnCatch
<1>11. Chained(stk2, s, o, m)
  <2>1. o \in Nat /\ Chained(stk, s, o, m)
    BY <1>1, <1>2
  <2> HIDE DEF Word
  <2> QED
    BY <2>1, <1>4, <1>5, ChainedSame
<1>12. Linked(stk2, s, m)
  <2>1. t \in Int
    OBVIOUS
  <2> HIDE DEF Word
  <2> QED
    BY <2>1, <1>4, <1>5, LinkedSame
<1>13. JSState(stk2, s, r2, m)
  BY <1>2, <1>4, <1>7, <1>9, <1>10, <1>11, <1>12 DEF JSState
<1> QED
  BY <1>2, <1>9, <1>13

(* The loop of SUB_THROW stops at a frame that was called, in the same     *)
(* activation, by the code that the catch target belongs to.               *)
LEMMA PoppedFrame ==
    ASSUME NEW stk \in Seq(Word), NEW s \in Nat, NEW t \in Nat, t <= Len(stk),
           NEW c \in Nat, c \in s + 1 .. t, IsCatch(stk, c), Linked(stk, s, t),
           NEW b \in Nat, c <= b, b <= t, NEW f \in AllFlags, Frame(stk, s, b, f)
    PROVE  \E d \in c .. b : /\ d = OutermostPopped(stk, c)[b]
                             /\ IsReturn(stk, d) /\ Boundaried(stk, s, d)
                             /\ CallerBase(stk, d) \in s + 1 .. c - 1
<1> DEFINE Good(x) == \E d \in c .. x : /\ d = OutermostPopped(stk, c)[x]
                                        /\ IsReturn(stk, d) /\ Boundaried(stk, s, d)
                                        /\ CallerBase(stk, d) \in s + 1 .. c - 1
           Starts(x) == \E g \in AllFlags : Frame(stk, s, x, g)
           T == {x \in c .. t : Starts(x) /\ ~ Good(x)}
<1>1. SUFFICES ASSUME T # {} PROVE FALSE
  <2>1. b \in c .. t /\ Starts(b)
    OBVIOUS
  <2> HIDE DEF Good, Starts
  <2>2. Good(b)
    BY <2>1, <1>1
  <2> QED
    BY <2>2 DEF Good
<1>2. T \subseteq Nat
  BY DEF T
<1> HIDE DEF T
<1>3. PICK x \in T : \A y \in T : x <= y
  BY <1>1, <1>2, LeastNatural
<1>4. x \in c .. t /\ x \in Nat /\ Starts(x) /\ ~ Good(x)
  BY <1>2 DEF T
<1>5. PICK g \in AllFlags : Frame(stk, s, x, g)
  BY <1>4
<1>6. PICK w : w = x - BoundaryWords - Operands(g)
  OBVIOUS
<1>7. /\ Boundaried(stk, s, x) /\ OnlyOperands(stk, w, x - 1)
      /\ IF g.fromHost THEN w = s /\ CallerBase(stk, x) <= s ELSE CallerBase(stk, x) \in s + 1 .. w
  BY <1>5, <1>6 DEF Frame
<1>8. IsReturn(stk, x) /\ x \in Int /\ Len(stk) \in Nat /\ x <= Len(stk)
  BY <1>4, <1>7, LenProperties DEF Boundaried
<1>9. PICK e : e = CallerBase(stk, x)
  OBVIOUS
<1>10. e \in Nat /\ e <= x - 4 /\ stk[x - 1][2] \in AllFlags
  BY <1>7, <1>8, <1>9, BoundaryShape
<1>11. c # x /\ c < x
  <2>1. c # x
    BY <1>8 DEF IsCatch, IsReturn
  <2> QED
    BY <2>1, <1>4
<1>12. ~ g.fromHost
  <2>1. SUFFICES ASSUME g.fromHost PROVE FALSE
    OBVIOUS
  <2>2. w = s
    BY <2>1, <1>7
  <2>3. c \in w + 1 .. x - 1
    BY <2>2, <1>11, <1>4
  <2> QED
    BY <2>3, <1>7 DEF OnlyOperands
<1>13. e > s
  BY <1>7, <1>9, <1>12
<1>14. OutermostPopped(stk, c)[x] = IF e \in c .. x - 1 THEN OutermostPopped(stk, c)[e] ELSE x
  BY <1>4, <1>9, PoppedUnfolds
<1>15. CASE e >= c
  <2>1. e \in c .. x - 1 /\ e \in c .. t
    BY <1>4, <1>10, <1>15
  <2>2. x \in s + 1 .. t
    BY <1>4, <1>11
  <2>3. Frame(stk, s, e, stk[x - 1][2])
    BY <2>2, <1>8, <1>9, <1>13 DEF Linked
  <2>4. Starts(e)
    BY <2>3, <1>10
  <2>5. e \notin T
    BY <1>3, <1>10, <1>4
  <2>6. Good(e)
    <3> HIDE DEF Good, Starts
    <3> QED
      BY <2>1, <2>4, <2>5 DEF T
  <2>7. OutermostPopped(stk, c)[x] = OutermostPopped(stk, c)[e]
    BY <2>1, <1>14
  <2>8. \A d \in c .. e : d \in c .. x
    BY <2>1, <1>4
  <2>9. Good(x)
    BY <2>6, <2>7, <2>8
  <2> QED
    BY <2>9, <1>4
<1>16. CASE e < c
  <2>1. OutermostPopped(stk, c)[x] = x
    BY <1>14, <1>16, <1>10
  <2>2. x \in c .. x /\ e \in s + 1 .. c - 1
    BY <1>4, <1>10, <1>13, <1>16
  <2>3. Good(x)
    BY <2>1, <2>2, <1>7, <1>8, <1>9
  <2> QED
    BY <2>3, <1>4
<1> QED
  BY <1>15, <1>16, <1>10

-----------------------------------------------------------------------------
(* Exceptions.                                                             *)

LEMMA RestoredShape ==
    ASSUME NEW stk \in Seq(Word), NEW r \in Registers, NEW s \in Nat, NEW b \in Int, b <= Len(stk),
           Boundaried(stk, s, b)
    PROVE  /\ Restored(stk, r, b) \in Registers
           /\ Restored(stk, r, b).fb = CallerBase(stk, b) /\ Restored(stk, r, b).flags = stk[b - 1][2]
           /\ Restored(stk, r, b).pc = stk[b][2]
           /\ Restored(stk, r, b).catch = r.catch /\ Restored(stk, r, b).queue = r.queue
<1>1. CallerBase(stk, b) \in Nat /\ stk[b - 2][2] \in Scopes /\ stk[b - 1][2] \in AllFlags /\ stk[b][2] \in Code
  <2> HIDE DEF Word
  <2> QED
    BY BoundaryShape
<1> QED
  BY <1>1 DEF Restored, Registers

(* An exception goes to the innermost catch target of its activation, or   *)
(* ends it.                                                                *)
LEMMA ThrowFine ==
    ASSUME NEW stk, NEW r, NEW cs, Inside(stk, r, cs), SubThrow(stk, r, cs),
           r.catch = 0 \/ \E t \in Nat : t <= Len(stk) /\ JSState(stk, cs[Len(cs)].sp, r, t)
    PROVE  Fine(stk, r, cs)
<1> HIDE DEF Word, Registers, Activations
<1>1. stk \in Seq(Word) /\ r \in Registers /\ cs \in Seq(Activations) /\ cs # << >> /\ Suspended(stk, cs)
  BY DEF Inside
<1>2. PICK m, n, s : m = Len(stk) /\ n = Len(cs) /\ s = cs[n].sp
  OBVIOUS
<1>3. m \in Nat /\ s \in Nat /\ s <= m /\ n \in Nat /\ cs[n] \in Activations
  BY <1>1, <1>2, TopShape, LenProperties DEF Inside
<1>4. r.fb \in Nat /\ r.catch \in Nat /\ r.flags \in AllFlags
  BY <1>1 DEF Registers
<1>5. CASE r.catch = 0
  <2>1. PICK a, cs2, e : a = Given(cs[n], "exception") /\ cs2 = SetTop(cs, a) /\ e = "uncaught"
    OBVIOUS
  <2>2. a \in Activations /\ a.sp = s /\ a.entry = cs[n].entry
    BY <2>1, <1>2, <1>3, GivenShape
  <2>3. SubExit(stk, r, cs2, e) /\ e # "success"
    BY <2>1, <1>2, <1>5 DEF SubThrow
  <2>4. Inside(stk, r, cs2) /\ Len(cs2) = n /\ cs2[n] = a
    BY <2>1, <2>2, <1>1, <1>2, <1>3, TopChanged
  <2>5. Fine(stk, r, cs2)
    BY <2>3, <2>4, ExitFine
  <2>6. \A p \in 1 .. s : stk[p] = stk[p]
    OBVIOUS
  <2>7. cs2[Len(cs2)].sp = s /\ cs[Len(cs)].sp = s /\ Len(cs2) = Len(cs) /\ r.queue = r.queue
    BY <2>2, <2>4, <1>2
  <2> QED
    BY <2>5, <2>6, <2>7, <1>3, FineSame
<1>6. CASE r.catch # 0
  <2>1. PICK t \in Nat : t <= Len(stk) /\ JSState(stk, s, r, t)
    BY <1>2, <1>6
  <2>2. PICK c : c = r.catch
    OBVIOUS
  <2>3. c \in Nat /\ c # 0 /\ Chained(stk, s, c, t) /\ Linked(stk, s, t)
    BY <2>1, <2>2, <1>4, <1>6 DEF JSState
  <2>4. c \in s + 1 .. t - 1 /\ c \in s + 1 .. t /\ IsCatch(stk, c) /\ OuterCatch(stk, c) \in Nat
    BY <2>1, <2>3, <1>1, <1>3, ChainBelow
  <2>5. PICK r1 : r1 = IF r.fb >= c THEN Restored(stk, r, OutermostPopped(stk, c)[r.fb]) ELSE r
    OBVIOUS
  <2>6. PICK r2 : r2 = [r1 EXCEPT !.catch = OuterCatch(stk, c), !.pc = stk[c + 1][2]]
    OBVIOUS
  <2>7. PICK stk2 : stk2 = Append(SubSeq(stk, 1, c - 1), Val)
    OBVIOUS
  <2>8. Running("js", stk2, r2, cs)
    <3>1. SubThrow(stk, r, cs) <=> Running("js", Append(SubSeq(stk, 1, c - 1), Val),
             [r1 EXCEPT !.catch = OuterCatch(stk, c), !.pc = stk[c + 1][2]], cs)
      BY <1>6, <2>2, <2>5 DEF SubThrow
    <3> QED
      BY <3>1, <2>6, <2>7
  <2>9. /\ r1 \in Registers /\ r1.queue = r.queue
        /\ Frame(stk, s, r1.fb, r1.flags) /\ \E x \in Int : RoomFor(r1.fb, r1.pc, x)
        /\ r1.fb < c /\ \E u \in Int : c <= u /\ u <= t /\ OwnCatch(stk, r1.fb, r1.pc, u)
    <3>1. CASE r.fb < c
      <4>1. r1 = r
        BY <3>1, <2>3, <2>5, <1>4
      <4>2. Frame(stk, s, r.fb, r.flags) /\ RoomFor(r.fb, r.pc, t - r.fb - 1) /\ OwnCatch(stk, r.fb, r.pc, t)
        BY <2>1 DEF JSState
      <4>3. t - r.fb - 1 \in Int /\ t \in Int /\ c <= t /\ t <= t
        BY <2>4, <1>4
      <4> QED
        BY <4>1, <4>2, <4>3, <3>1, <1>1
    <3>2. CASE r.fb >= c
      <4>1. PICK b, f : b = r.fb /\ f = r.flags
        OBVIOUS
      <4>2. b \in Nat /\ c <= b /\ b <= t /\ f \in AllFlags /\ Frame(stk, s, b, f)
        BY <4>1, <3>2, <2>1, <2>3, <1>4 DEF JSState
      <4>3. PICK d \in c .. b : /\ d = OutermostPopped(stk, c)[b]
                                /\ IsReturn(stk, d) /\ Boundaried(stk, s, d)
                                /\ CallerBase(stk, d) \in s + 1 .. c - 1
        BY <4>2, <2>1, <2>3, <2>4, <1>1, <1>3, PoppedFrame
      <4>4. d \in Int /\ d \in s + 1 .. t /\ d <= Len(stk)
        BY <4>2, <4>3, <2>1, <2>4, <1>2, <1>3, SMTT(20)
      <4>5. r1 = Restored(stk, r, d)
        BY <4>1, <4>3, <3>2, <2>5
      <4>6. /\ r1 \in Registers /\ r1.fb = CallerBase(stk, d) /\ r1.flags = stk[d - 1][2]
            /\ r1.pc = stk[d][2] /\ r1.queue = r.queue
        BY <4>3, <4>4, <4>5, <1>1, <1>3, RestoredShape, SMTT(20)
      <4>7. PICK u : u = d - BoundaryWords
        OBVIOUS
      <4>8. /\ Frame(stk, s, r1.fb, r1.flags) /\ RoomFor(r1.fb, r1.pc, u - r1.fb)
            /\ OwnCatch(stk, r1.fb, r1.pc, u) /\ r1.fb <= u
        <5>1. CallerBase(stk, d) > s
          BY <4>3, <1>3
        <5> QED
          BY <5>1, <4>3, <4>4, <4>6, <4>7, <2>3 DEF Linked
      <4>9. c # d /\ c # d - 1 /\ c # d - 2 /\ c # d - 3
        BY <4>3, <2>4 DEF Boundaried, IsReturn, IsCatch
      <4>10. u \in Int /\ u - r1.fb \in Int /\ c <= u /\ u <= t
        <5>1. c <= d - 4
          <6>1. c <= d /\ c \in Int /\ d \in Int
            BY <4>2, <2>3, <4>4
          <6> QED
            BY <6>1, <4>9
        <5>2. r1.fb \in Nat
          BY <4>6 DEF Registers
        <5>3. u = d - 4
          BY <4>7 DEF BoundaryWords
        <5> QED
          BY <5>1, <5>2, <5>3, <4>4, <2>3
      <4>11. r1.fb < c
        BY <4>3, <4>6, <1>3, <2>3
      <4> QED
        BY <4>6, <4>8, <4>10, <4>11
    <3> QED
      BY <3>1, <3>2, <1>4, <2>3
  <2>10. PICK x \in Int : RoomFor(r1.fb, r1.pc, x)
    BY <2>9
  <2>11. PICK u \in Int : c <= u /\ u <= t /\ OwnCatch(stk, r1.fb, r1.pc, u)
    BY <2>9
  <2>12. PICK F : F = FunctionOf(r1.pc)
    OBVIOUS
  <2>13. F \in Functions /\ r1.fb \in Nat
    BY <2>9, <2>10, <2>12 DEF RoomFor, Registers
  <2>14. PICK h \in HandlersOf[F] : stk[c + 1] = <<"handler", h>>
    <3>1. c \in r1.fb + 1 .. u
      BY <2>3, <2>9, <2>11, <2>13
    <3> QED
      BY <3>1, <2>4, <2>11, <2>12 DEF OwnCatch
  <2>15. h \in Handlers /\ FunctionOf(h) = F
    BY <2>13, <2>14, HandlersAssumption, FunctionOfCode
  <2>16. /\ r2 \in Registers /\ r2.fb = r1.fb /\ r2.flags = r1.flags /\ r2.catch = OuterCatch(stk, c)
         /\ r2.pc = h /\ r2.queue = r.queue
    <3>1. stk[c + 1][2] = h /\ h \in Code
      BY <2>14, <2>15 DEF Code
    <3> QED
      BY <3>1, <2>4, <2>6, <2>9 DEF Registers
  <2>17. /\ stk2 \in Seq(Word) /\ Len(stk2) = c /\ \A p \in 1 .. c - 1 : stk2[p] = stk[p]
         /\ stk2[c] = Val /\ Val[1] = "value"
    <3>1. PICK k, cut : k = c - 1 /\ cut = SubSeq(stk, 1, k)
      OBVIOUS
    <3>2. k \in 0 .. Len(stk) /\ c = k + 1 /\ k \in Nat
      BY <3>1, <2>1, <2>3, <2>4, <1>2, <1>3
    <3>3. cut \in Seq(Word) /\ Len(cut) = k /\ \A p \in 1 .. k : cut[p] = stk[p]
      BY <3>1, <3>2, <1>1, CutShape
    <3>4. stk2 = Append(cut, Val)
      BY <3>1, <2>7
    <3>5. /\ stk2 \in Seq(Word) /\ Len(stk2) = k + 1 /\ \A p \in 1 .. k : stk2[p] = cut[p]
          /\ stk2[k + 1] = Val /\ Val[1] = "value"
      BY <3>3, <3>4, NewWords, PushedShape
    <3> QED
      BY <3>1, <3>2, <3>3, <3>5
  <2>18. JSState(stk2, s, r2, c - 1) /\ RoomFor(r2.fb, r2.pc, c - r2.fb - 1)
    <3>1. FunctionOf(r2.pc) = FunctionOf(r1.pc)
      BY <2>12, <2>15, <2>16
    <3> QED
      BY <3>1, <1>1, <1>3, <2>1, <2>3, <2>9, <2>10, <2>11, <2>16, <2>17, CutAtCatch
  <2>19. JSState(stk2, s, r2, c)
    <3>1. PICK k : k = c - 1
      OBVIOUS
    <3>2. k \in Nat /\ k <= c /\ JSState(stk2, s, r2, k)
      BY <3>1, <2>3, <2>18
    <3>3. OnlyOperands(stk2, k, c)
      <4>1. \A p \in k + 1 .. c : p = c
        BY <3>1, <2>3
      <4> QED
        BY <4>1, <2>17 DEF OnlyOperands, IsCatch, IsReturn
    <3> QED
      BY <3>2, <3>3, <2>3, <2>16, <2>17, <2>18, <1>3, JSStateGrows
  <2>20. JSState(stk2, s, r2, Len(stk2))
    BY <2>17, <2>19
  <2>21. \A p \in 1 .. s : stk2[p] = stk[p]
    <3>1. \A p \in 1 .. s : p \in 1 .. c - 1
      BY <2>4, <1>3
    <3> QED
      BY <3>1, <2>17
  <2> QED
    BY <2>8, <2>16, <2>17, <2>20, <2>21, <1>2, RunFine
<1> QED
  BY <1>5, <1>6

-----------------------------------------------------------------------------
(* The steps.                                                              *)

(* What each step is shown to do: it preserves the invariant, and it is as *)
(* the action properties OnlyOwnFrames, JobsOnlyWhenIdle and               *)
(* DrainedOnSuccess say.                                                   *)
Stepped ==
    /\ IInv'
    /\ calls # << >> /\ allocated' =>
            /\ Len(stack') >= TopCall.sp
            /\ SubSeq(stack', 1, TopCall.sp) = SubSeq(stack, 1, TopCall.sp)
    /\ allocated' /\ reg'.queue < reg.queue =>
            Len(calls) = 1 /\ Len(calls') = 1 /\ mode' = "js" /\ Len(stack') = BoundaryWords
    /\ calls' = << >> /\ outcome'.err = "success" => reg.queue = 0

(* What the innermost activation has to go on with.                        *)
LEMMA InsideNow ==
    ASSUME NEW stk, NEW r, NEW cs, stk = stack, r = reg, cs = calls, IInv, cs # << >>
    PROVE  /\ Inside(stk, r, cs) /\ cs[Len(cs)].sp < Len(stk) /\ TopCall = cs[Len(cs)]
           /\ mode = "js" => JSState(stk, cs[Len(cs)].sp, r, Len(stk))
           /\ mode # "js" => HostState(stk, cs[Len(cs)], r, Len(stk))
<1> HIDE DEF Word, Registers, Activations
<1>1. /\ stk \in Seq(Word) /\ r \in Registers /\ cs \in Seq(Activations) /\ Suspended(stk, cs)
      /\ TopCall = cs[Len(cs)]
      /\ mode = "js" => JSState(stk, cs[Len(cs)].sp, r, Len(stk))
      /\ mode # "js" => HostState(stk, cs[Len(cs)], r, Len(stk))
  BY DEF IInv, Shapes, Consistent, TopCall
<1>2. cs[Len(cs)].sp \in Nat /\ Len(stk) \in Nat /\ r.fb \in Nat
  BY <1>1, TopShape, LenProperties DEF Registers
<1>3. CASE mode = "js"
  <2>1. r.fb <= Len(stk) /\ r.fb >= cs[Len(cs)].sp + 4
    BY <1>1, <1>3 DEF JSState, Frame, Boundaried, BoundaryWords
  <2>2. cs[Len(cs)].sp < Len(stk)
    BY <2>1, <1>2
  <2> QED
    BY <2>2, <1>1, <1>2 DEF Inside
<1>4. CASE mode # "js"
  <2>1. cs[Len(cs)].sp < Len(stk)
    BY <1>1, <1>2, <1>4 DEF HostState
  <2> QED
    BY <2>1, <1>1, <1>2 DEF Inside
<1> QED
  BY <1>3, <1>4

(* Stacks that agree have the same first words.                            *)
LEMMA SamePrefix ==
    ASSUME NEW stk \in Seq(Word), NEW stk2 \in Seq(Word), NEW s \in Nat, s <= Len(stk), s <= Len(stk2),
           \A p \in 1 .. s : stk2[p] = stk[p]
    PROVE  SubSeq(stk2, 1, s) = SubSeq(stk, 1, s)
<1> HIDE DEF Word
<1>1. s \in 0 .. Len(stk) /\ s \in 0 .. Len(stk2)
  BY LenProperties
<1>2. PICK a, b : a = SubSeq(stk, 1, s) /\ b = SubSeq(stk2, 1, s)
  OBVIOUS
<1>3. a \in Seq(Word) /\ Len(a) = s /\ \A p \in 1 .. s : a[p] = stk[p]
  BY <1>1, <1>2, CutShape
<1>4. b \in Seq(Word) /\ Len(b) = s /\ \A p \in 1 .. s : b[p] = stk2[p]
  BY <1>1, <1>2, CutShape
<1>5. a = b
  BY <1>3, <1>4, SeqEqual
<1> QED
  BY <1>2, <1>5

(* A subroutine that the innermost activation continues with.              *)
LEMMA FineStep ==
    ASSUME IInv, calls # << >>, NEW stk, NEW r, NEW cs, Fine(stk, r, cs),
           r.queue = reg.queue, Len(cs) = Len(calls), cs[Len(cs)].sp = TopCall.sp,
           \A p \in 1 .. TopCall.sp : stk[p] = stack[p]
    PROVE  Stepped
<1> HIDE DEF Word, Registers, Activations
<1>1. PICK stk0, r0, cs0, s : stk0 = stack /\ r0 = reg /\ cs0 = calls /\ s = TopCall.sp
  OBVIOUS
<1>2. Inside(stk0, r0, cs0) /\ cs0[Len(cs0)].sp < Len(stk0) /\ TopCall = cs0[Len(cs0)]
  BY <1>1, InsideNow
<1>3. stk0 \in Seq(Word) /\ s \in Nat /\ s <= Len(stk0) /\ r0.queue \in Nat
  BY <1>1, <1>2, TopShape, LenProperties DEF Inside, Registers
<1>4. IInv' /\ Kept(stk, s) /\ Queued(r, cs)
  BY <1>1 DEF Fine
<1>5. ASSUME allocated' PROVE Len(stack') >= s /\ SubSeq(stack', 1, s) = SubSeq(stack, 1, s)
  <2>1. PICK stk2 : stk2 = stack'
    OBVIOUS
  <2>2. s <= Len(stk2) /\ \A p \in 1 .. s : stk2[p] = stk[p]
    BY <2>1, <1>4, <1>5 DEF Kept
  <2>3. stk2 \in Seq(Word)
    BY <2>1, <1>4 DEF IInv, Shapes
  <2>4. \A p \in 1 .. s : stk2[p] = stk0[p]
    BY <2>2, <1>1
  <2>5. SubSeq(stk2, 1, s) = SubSeq(stk0, 1, s)
    BY <2>2, <2>3, <2>4, <1>3, SamePrefix
  <2>6. Len(stk2) \in Nat
    BY <2>3, LenProperties
  <2> QED
    BY <2>1, <2>2, <2>5, <2>6, <1>1, <1>3
<1>6. allocated' /\ reg'.queue < reg.queue =>
          Len(calls) = 1 /\ Len(calls') = 1 /\ mode' = "js" /\ Len(stack') = BoundaryWords
  <2>1. reg'.queue < reg.queue => reg'.queue # r.queue
    <3>1. PICK q : q = r.queue
      OBVIOUS
    <3>2. q \in Nat /\ reg.queue = q
      BY <3>1, <1>1, <1>3
    <3>3. ~ (q < q)
      BY <3>2
    <3> QED
      BY <3>1, <3>2, <3>3
  <2> QED
    BY <2>1, <1>4 DEF Queued
<1>7. calls' = << >> /\ outcome'.err = "success" => reg.queue = 0
  BY <1>4 DEF Queued
<1> QED
  BY <1>1, <1>4, <1>5, <1>6, <1>7 DEF Stepped

LEMMA FailStep ==
    ASSUME IInv, Fail
    PROVE  Stepped
<1>1. calls # << >>
  BY DEF Fail, IInv, Consistent
<1>2. PICK stk, r, cs, e : stk = stack /\ r = reg /\ cs = calls /\ e = "error"
  OBVIOUS
<1>3. Inside(stk, r, cs)
  BY <1>1, <1>2, InsideNow
<1>4. SubExit(stk, r, cs, e) /\ e # "success"
  BY <1>2 DEF Fail
<1>5. Fine(stk, r, cs)
  BY <1>3, <1>4, ExitFine
<1> QED
  BY <1>1, <1>2, <1>5, FineStep DEF TopCall

LEMMA ThrowStep ==
    ASSUME IInv, Throw
    PROVE  Stepped
<1>1. calls # << >> /\ mode = "js"
  BY DEF Throw, IInv, Consistent
<1>2. PICK stk, r, cs : stk = stack /\ r = reg /\ cs = calls
  OBVIOUS
<1>3. Inside(stk, r, cs) /\ JSState(stk, cs[Len(cs)].sp, r, Len(stk))
  BY <1>1, <1>2, InsideNow
<1>4. Len(stk) \in Nat /\ Len(stk) <= Len(stk)
  <2> HIDE DEF Word
  <2>1. Len(stk) \in Nat
    BY <1>3, LenProperties DEF Inside
  <2> QED
    BY <2>1
<1>5. SubThrow(stk, r, cs)
  BY <1>2 DEF Throw
<1>6. Fine(stk, r, cs)
  BY <1>3, <1>4, <1>5, ThrowFine
<1> QED
  BY <1>1, <1>2, <1>6, FineStep DEF TopCall

LEMMA EnqueueJobStep ==
    ASSUME IInv, EnqueueJob
    PROVE  Stepped
<1> HIDE DEF Word, Registers, Activations
<1>1. calls # << >>
  BY DEF EnqueueJob
<1>2. PICK stk, r, cs, s : stk = stack /\ r = reg /\ cs = calls /\ s = cs[Len(cs)].sp
  OBVIOUS
<1>3. /\ Inside(stk, r, cs) /\ s < Len(stk) /\ TopCall = cs[Len(cs)]
      /\ mode = "js" => JSState(stk, s, r, Len(stk))
      /\ mode # "js" => HostState(stk, cs[Len(cs)], r, Len(stk))
  BY <1>1, <1>2, InsideNow
<1>4. /\ stk \in Seq(Word) /\ r \in Registers /\ cs \in Seq(Activations) /\ cs # << >> /\ Suspended(stk, cs)
      /\ Len(stk) \in Nat /\ s \in Nat /\ cs[Len(cs)] \in Activations
  BY <1>2, <1>3, TopShape, LenProperties DEF Inside
<1>5. PICK r2 : r2 = [r EXCEPT !.queue = @ + 1]
  OBVIOUS
<1>6. /\ r2 \in Registers /\ r2.fb = r.fb /\ r2.pc = r.pc /\ r2.flags = r.flags /\ r2.catch = r.catch
      /\ r2.queue = r.queue + 1 /\ r.queue \in Nat
  BY <1>4, <1>5 DEF Registers
<1>7. /\ stack' = stk /\ reg' = r2 /\ calls' = cs /\ mode' = mode /\ allocated' /\ outcome' = NotReturned
  BY <1>2, <1>5 DEF EnqueueJob, Running
<1>8. IInv'
  <2>1. CASE mode = "js"
    <3>1. \A p \in s + 1 .. Len(stk) : stk[p] = stk[p]
      OBVIOUS
    <3>2. PICK t : t = Len(stk)
      OBVIOUS
    <3>3. t \in Nat /\ t <= Len(stk) /\ JSState(stk, s, r, t) /\ \A p \in s + 1 .. t : stk[p] = stk[p]
      BY <3>1, <3>2, <2>1, <1>3, <1>4
    <3>4. JSState(stk, s, r2, t)
      BY <3>3, <1>4, <1>6, JSStateSame
    <3>5. JSState(stk, cs[Len(cs)].sp, r2, Len(stk))
      BY <3>2, <3>4, <1>2
    <3> QED
      BY <3>5, <2>1, <1>4, <1>6, <1>7, ToJS
  <2>2. CASE mode # "js"
    <3>1. [r2.flags EXCEPT !.override = FALSE] = [r.flags EXCEPT !.override = FALSE]
      BY <1>6
    <3>2. PICK t, a : t = Len(stk) /\ a = cs[Len(cs)]
      OBVIOUS
    <3>3. /\ t \in Nat /\ t <= Len(stk) /\ a \in Activations /\ HostState(stk, a, r, t)
          /\ \A p \in a.sp + 1 .. t : stk[p] = stk[p]
      BY <3>2, <2>2, <1>3, <1>4
    <3>4. HostState(stk, a, r2, t)
      BY <3>1, <3>3, <1>4, <1>6, HostStateSame
    <3>5. HostState(stk, cs[Len(cs)], r2, Len(stk)) /\ mode' # "js"
      BY <3>2, <3>4, <2>2, <1>7
    <3> QED
      BY <3>5, <1>4, <1>6, <1>7, ToHost
  <2> QED
    BY <2>1, <2>2
<1>9. Kept(stk, cs[Len(cs)].sp)
  <2>1. s <= Len(stk)
    BY <1>3, <1>4
  <2> QED
    BY <2>1, <1>2, <1>7 DEF Kept
<1>10. Stepped
  <2>1. Len(stack') >= TopCall.sp /\ SubSeq(stack', 1, TopCall.sp) = SubSeq(stack, 1, TopCall.sp)
    BY <1>2, <1>3, <1>4, <1>7
  <2>2. ~ (reg'.queue < reg.queue)
    BY <1>2, <1>6, <1>7
  <2>3. calls' # << >>
    BY <1>2, <1>4, <1>7
  <2> QED
    BY <2>1, <2>2, <2>3, <1>8 DEF Stepped
<1> QED
  BY <1>10

LEMMA EndTryStep ==
    ASSUME IInv, EndTry
    PROVE  Stepped
<1> HIDE DEF Word, Registers, Activations
<1>1. calls # << >> /\ mode = "js"
  BY DEF EndTry, IInv, Consistent
<1>2. PICK stk, r, cs, s, t, c : /\ stk = stack /\ r = reg /\ cs = calls /\ s = cs[Len(cs)].sp
                                 /\ t = Len(stk) /\ c = r.catch
  OBVIOUS
<1>3. Inside(stk, r, cs) /\ TopCall = cs[Len(cs)] /\ JSState(stk, s, r, t)
  BY <1>1, <1>2, InsideNow
<1>4. /\ stk \in Seq(Word) /\ r \in Registers /\ t \in Nat /\ s \in Nat /\ t <= Len(stk)
  BY <1>2, <1>3, TopShape, LenProperties DEF Inside
<1>5. r.fb \in Nat /\ c \in Nat /\ r.flags \in AllFlags
  BY <1>2, <1>4 DEF Registers
<1>6. r.fb < c
  BY <1>2, <1>5 DEF EndTry, TryIsOpen
<1>7. /\ Frame(stk, s, r.fb, r.flags) /\ RoomFor(r.fb, r.pc, t - r.fb - 1) /\ OwnCatch(stk, r.fb, r.pc, t)
      /\ Chained(stk, s, c, t) /\ Linked(stk, s, t)
  BY <1>2, <1>3 DEF JSState
<1>8. c # 0 /\ c \in Nat
  BY <1>5, <1>6
<1>9. c \in s + 1 .. t - 1 /\ OuterCatch(stk, c) \in Nat
  BY <1>4, <1>7, <1>8, ChainBelow
<1>10. PICK stk2, r2, k : /\ stk2 = SubSeq(stk, 1, k) /\ r2 = [r EXCEPT !.catch = OuterCatch(stk, c)]
                          /\ k = c - 1
  OBVIOUS
<1>11. k \in 0 .. Len(stk) /\ k \in Nat /\ s <= k /\ c <= t
  BY <1>4, <1>9, <1>10, <1>8
<1>12. stk2 \in Seq(Word) /\ Len(stk2) = k /\ \A p \in 1 .. k : stk2[p] = stk[p]
  BY <1>4, <1>10, <1>11, CutShape
<1>13. /\ r2 \in Registers /\ r2.fb = r.fb /\ r2.pc = r.pc /\ r2.flags = r.flags
       /\ r2.catch = OuterCatch(stk, c) /\ r2.queue = r.queue
  BY <1>4, <1>9, <1>10 DEF Registers
<1>14. JSState(stk2, s, r2, c - 1)
  <2>1. /\ \A p \in 1 .. c - 1 : stk2[p] = stk[p]
        /\ FunctionOf(r2.pc) = FunctionOf(r.pc) /\ t \in Int /\ t <= t
    BY <1>4, <1>10, <1>12, <1>13
  <2>2. PICK x : x = t - r.fb - 1
    OBVIOUS
  <2>3. RoomFor(r.fb, r.pc, x)
    BY <2>2, <1>7
  <2> QED
    BY <2>1, <2>3, <1>4, <1>6, <1>7, <1>8, <1>11, <1>13, CutAtCatch
<1>15. JSState(stk2, s, r2, Len(stk2))
  BY <1>10, <1>12, <1>14
<1>16. \A p \in 1 .. s : stk2[p] = stk[p]
  <2>1. \A p \in 1 .. s : p \in 1 .. k
    BY <1>4, <1>11
  <2> QED
    BY <2>1, <1>12
<1>17. Running("js", stk2, r2, cs)
  BY <1>2, <1>10 DEF EndTry
<1>18. Fine(stk, r, cs)
  BY <1>2, <1>3, <1>12, <1>13, <1>15, <1>16, <1>17, RunFine
<1> QED
  BY <1>1, <1>2, <1>3, <1>18, FineStep DEF TopCall

(* The two words of a catch target.                                        *)
Trying(stk2, stk, o, h) == stk2 = stk \o << <<"catch", o>>, <<"handler", h>> >>

LEMMA TryPushed ==
    ASSUME NEW stk \in Seq(Word), NEW t, t = Len(stk), NEW o \in Int, NEW h \in Handlers,
           NEW stk2, Trying(stk2, stk, o, h)
    PROVE  /\ stk2 \in Seq(Word) /\ Len(stk2) = t + 2 /\ \A p \in 1 .. t : stk2[p] = stk[p]
           /\ stk2[t + 1] = <<"catch", o>> /\ stk2[t + 2] = <<"handler", h>>
<1> HIDE DEF Word
<1>0. t \in Nat
  BY LenProperties
<1>1. PICK w1, w2, v : w1 = <<"catch", o>> /\ w2 = <<"handler", h>> /\ v = <<w1, w2>>
  OBVIOUS
<1>2. w1 \in Word /\ w2 \in Word
  BY <1>1, NewWords
<1>3. v \in Seq(Word) /\ Len(v) = 2 /\ v[1] = w1 /\ v[2] = w2
  BY <1>1, <1>2
<1>4. stk2 = stk \o v
  BY <1>1 DEF Trying
<1>5. /\ stk \o v \in Seq(Word) /\ Len(stk \o v) = Len(stk) + Len(v)
      /\ \A p \in 1 .. Len(stk) + Len(v) : (stk \o v)[p] = IF p <= Len(stk) THEN stk[p] ELSE v[p - Len(stk)]
  BY <1>3, ConcatProperties
<1>6. /\ stk2 \in Seq(Word) /\ Len(stk2) = t + 2
      /\ \A p \in 1 .. t + 2 : stk2[p] = IF p <= t THEN stk[p] ELSE v[p - t]
  BY <1>3, <1>4, <1>5
<1>7. \A p \in 1 .. t : p \in 1 .. t + 2 /\ p <= t
  BY <1>0
<1>8. /\ t + 1 \in 1 .. t + 2 /\ t + 2 \in 1 .. t + 2 /\ ~ (t + 1 <= t) /\ ~ (t + 2 <= t)
      /\ (t + 1) - t = 1 /\ (t + 2) - t = 2
  BY <1>0
<1>9. stk2[t + 1] = v[1] /\ stk2[t + 2] = v[2]
  BY <1>6, <1>8
<1> QED
  BY <1>1, <1>3, <1>6, <1>7, <1>9

LEMMA StartTryStep ==
    ASSUME IInv, NEW h \in Handlers, StartTry(h)
    PROVE  Stepped
<1> HIDE DEF Word, Registers, Activations
<1>1. calls # << >> /\ mode = "js"
  BY DEF StartTry, IInv, Consistent
<1>2. PICK stk, r, cs, s, t : /\ stk = stack /\ r = reg /\ cs = calls /\ s = cs[Len(cs)].sp
                              /\ t = Len(stk)
  OBVIOUS
<1>3. Inside(stk, r, cs) /\ TopCall = cs[Len(cs)] /\ JSState(stk, s, r, t)
  BY <1>1, <1>2, InsideNow
<1>4. /\ stk \in Seq(Word) /\ r \in Registers /\ t \in Nat /\ s \in Nat /\ t <= Len(stk)
  BY <1>2, <1>3, TopShape, LenProperties DEF Inside
<1>5. r.fb \in Nat /\ r.catch \in Nat /\ r.flags \in AllFlags
  BY <1>4 DEF Registers
<1>6. PICK F, o : F = FunctionOf(r.pc) /\ o = IF r.catch = 0 THEN 0 ELSE r.catch - (t + 1)
  OBVIOUS
<1>7. /\ r.fb <= t /\ Frame(stk, s, r.fb, r.flags) /\ RoomFor(r.fb, r.pc, t - r.fb - 1) /\ OwnCatch(stk, r.fb, r.pc, t)
      /\ Chained(stk, s, r.catch, t) /\ Linked(stk, s, t)
  BY <1>3 DEF JSState
<1>8. F \in Functions /\ h \in HandlersOf[F] /\ t - r.fb + 2 <= FrameWords[F] /\ FrameWords[F] \in Nat
      /\ r.fb + FrameWords[F] + Temporaries <= StackWords
  BY <1>2, <1>6, <1>7, StackAssumption DEF StartTry, FrameHasRoom, RoomFor
<1>9. PICK stk2, r2, u : /\ stk2 = stk \o << <<"catch", o>>, <<"handler", h>> >>
                         /\ r2 = [r EXCEPT !.catch = t + 1] /\ u = t + 2
  OBVIOUS
<1>10. Running("js", stk2, r2, cs)
  BY <1>2, <1>6, <1>9 DEF StartTry
<1>11. /\ r2 \in Registers /\ r2.fb = r.fb /\ r2.pc = r.pc /\ r2.flags = r.flags
       /\ r2.catch = t + 1 /\ r2.queue = r.queue
  <2>1. PICK c : c = t + 1
    OBVIOUS
  <2>2. c \in Nat
    BY <2>1, <1>4
  <2>3. r2 = [r EXCEPT !.catch = c]
    BY <2>1, <1>9
  <2>4. /\ r2 \in Registers /\ r2.fb = r.fb /\ r2.pc = r.pc /\ r2.flags = r.flags
        /\ r2.catch = c /\ r2.queue = r.queue
    BY <2>2, <2>3, <1>4 DEF Registers
  <2> QED
    BY <2>1, <2>4
<1>12. /\ stk2 \in Seq(Word) /\ Len(stk2) = u /\ \A p \in 1 .. t : stk2[p] = stk[p]
       /\ stk2[t + 1] = <<"catch", o>> /\ stk2[t + 2] = <<"handler", h>>
  <2>1. o \in Int /\ h \in Handlers
    BY <1>4, <1>5, <1>6
  <2>2. Trying(stk2, stk, o, h)
    BY <1>9 DEF Trying
  <2>3. stk \in Seq(Word) /\ t = Len(stk)
    BY <1>2, <1>4
  <2>4. /\ stk2 \in Seq(Word) /\ Len(stk2) = t + 2 /\ \A p \in 1 .. t : stk2[p] = stk[p]
        /\ stk2[t + 1] = <<"catch", o>> /\ stk2[t + 2] = <<"handler", h>>
    BY <2>1, <2>2, <2>3, TryPushed
  <2>5. u = t + 2
    BY <1>9
  <2> QED
    BY <2>4, <2>5
<1>13. IsCatch(stk2, t + 1) /\ ~ IsCatch(stk2, t + 2) /\ ~ IsReturn(stk2, t + 1) /\ ~ IsReturn(stk2, t + 2)
       /\ stk2[t + 1][2] = o
  BY <1>12 DEF IsCatch, IsReturn
<1>14. \A p \in 1 .. u : p \in 1 .. t \/ p = t + 1 \/ p = t + 2
  BY <1>4, <1>9
<1>15. \A p \in s + 1 .. t : stk2[p] = stk[p]
  <2>1. \A p \in s + 1 .. t : p \in 1 .. t
    BY <1>4
  <2> QED
    BY <2>1, <1>12
<1>16. s <= r.fb
  <2>1. r.fb >= s + 4
    BY <1>7 DEF Frame, Boundaried, BoundaryWords
  <2> QED
    BY <2>1, <1>4, <1>5
<1>17. JSState(stk2, s, r, t)
  <2>1. JSState(stk, s, r, t)
    BY <1>3
  <2> QED
    BY <2>1, <1>4, <1>15, JSStateSame
<1>18. /\ Frame(stk2, s, r.fb, r.flags) /\ OwnCatch(stk2, r.fb, r.pc, t)
       /\ Chained(stk2, s, r.catch, t) /\ Linked(stk2, s, t)
  BY <1>17 DEF JSState
<1>19. RoomFor(r.fb, r.pc, u - r.fb - 1)
  <2>1. u - r.fb - 1 <= FrameWords[F]
    BY <1>4, <1>5, <1>8, <1>9, SMTT(20)
  <2> QED
    BY <2>1, <1>6, <1>8 DEF RoomFor
<1>20. OwnCatch(stk2, r.fb, r.pc, u)
  <2>1. ASSUME NEW p \in r.fb + 1 .. u, IsCatch(stk2, p)
        PROVE  /\ p + 1 <= u /\ p + 1 - r.fb <= FrameWords[FunctionOf(r.pc)]
               /\ \E g \in HandlersOf[FunctionOf(r.pc)] : stk2[p + 1] = <<"handler", g>>
    <3>1. p \in 1 .. u
      BY <1>5
    <3>2. CASE p = t + 1
      <4>0. PICK b, w : b = r.fb /\ w = FrameWords[F]
        OBVIOUS
      <4>1. p + 1 = t + 2 /\ p + 1 <= u /\ p + 1 - r.fb <= FrameWords[F]
        <5>1. b \in Nat /\ w \in Nat /\ t \in Nat /\ t - b + 2 <= w /\ u = t + 2
          BY <4>0, <1>4, <1>5, <1>8, <1>9
        <5> QED
          BY <5>1, <4>0, <3>2
      <4> QED
        BY <4>1, <1>6, <1>8, <1>12
    <3>3. CASE p \in 1 .. t
      <4>1. p \in r.fb + 1 .. t
        BY <3>3, <1>5, <1>4
      <4>2. /\ p + 1 <= t /\ p + 1 - r.fb <= FrameWords[FunctionOf(r.pc)]
            /\ \E g \in HandlersOf[FunctionOf(r.pc)] : stk2[p + 1] = <<"handler", g>>
        BY <4>1, <2>1, <1>18 DEF OwnCatch
      <4>3. p + 1 <= u
        BY <4>2, <3>3, <1>4, <1>9
      <4> QED
        BY <4>2, <4>3
    <3> QED
      BY <2>1, <3>1, <3>2, <3>3, <1>13, <1>14
  <2> QED
    BY <2>1 DEF OwnCatch
<1>21. Chained(stk2, s, t + 1, u)
  <2>1. t + 1 \in s + 1 .. u - 1
    <3>1. s <= t
      BY <1>4, <1>5, <1>7, <1>16
    <3> QED
      BY <3>1, <1>4, <1>9
  <2>2. OuterCatch(stk2, t + 1) = r.catch
    <3>1. CASE r.catch = 0
      BY <3>1, <1>6, <1>13 DEF OuterCatch
    <3>2. CASE r.catch # 0
      <4>1. r.catch \in s + 1 .. t - 1
        BY <3>2, <1>7 DEF Chained
      <4>2. o = r.catch - (t + 1) /\ o # 0 /\ (t + 1) + o = r.catch
        BY <4>1, <3>2, <1>4, <1>5, <1>6
      <4> QED
        BY <4>2, <1>13 DEF OuterCatch
    <3> QED
      BY <3>1, <3>2
  <2>3. ASSUME NEW p \in s + 1 .. u, IsCatch(stk2, p)
        PROVE  /\ p <= t + 1
               /\ OuterCatch(stk2, p) = 0 \/ (OuterCatch(stk2, p) \in s + 1 .. p - 2 /\ IsCatch(stk2, OuterCatch(stk2, p)))
               /\ \A q \in s + 1 .. p - 1 : IsCatch(stk2, q) => q <= OuterCatch(stk2, p)
    <3>1. p \in 1 .. u
      BY <1>4
    <3>2. CASE p = t + 1
      <4>1. p <= t + 1 /\ p - 1 = t /\ p - 2 = t - 1
        BY <3>2, <1>4
      <4>2. OuterCatch(stk2, p) = r.catch
        BY <3>2, <2>2
      <4>3. r.catch = 0 \/ (r.catch \in s + 1 .. t - 1 /\ IsCatch(stk2, r.catch))
        BY <1>18 DEF Chained
      <4>4. \A q \in s + 1 .. t : IsCatch(stk2, q) => q <= r.catch
        BY <1>18 DEF Chained
      <4> QED
        BY <4>1, <4>2, <4>3, <4>4
    <3>3. CASE p \in 1 .. t
      <4>1. p \in s + 1 .. t /\ p <= t + 1
        BY <3>3, <1>4
      <4> QED
        BY <4>1, <2>3, <1>18 DEF Chained
    <3> QED
      BY <2>3, <3>1, <3>2, <3>3, <1>13, <1>14
  <2> QED
    BY <2>1, <2>3, <1>13 DEF Chained
<1>22. Linked(stk2, s, u)
  <2>1. \A b \in s + 1 .. u : IsReturn(stk2, b) => b \in s + 1 .. t
    <3>1. \A b \in s + 1 .. u : b \in s + 1 .. t \/ b = t + 1 \/ b = t + 2
      BY <1>4, <1>9
    <3> QED
      BY <3>1, <1>13
  <2> QED
    BY <2>1, <1>18 DEF Linked
<1>23. JSState(stk2, s, r2, Len(stk2))
  <2>1. r.fb <= u
    BY <1>4, <1>5, <1>7, <1>9
  <2> QED
    BY <2>1, <1>11, <1>12, <1>18, <1>19, <1>20, <1>21, <1>22 DEF JSState
<1>24. \A p \in 1 .. s : stk2[p] = stk[p]
  <2>1. \A p \in 1 .. s : p \in 1 .. t
    BY <1>4, <1>5, <1>7, <1>16
  <2> QED
    BY <2>1, <1>12
<1>25. Fine(stk, r, cs)
  BY <1>2, <1>3, <1>10, <1>11, <1>12, <1>23, <1>24, RunFine
<1> QED
  BY <1>1, <1>2, <1>3, <1>25, FineStep DEF TopCall

(* The words with the operands of a call by JS code.                       *)
CallReady(stk2, flags, stk, r, cs, target) ==
    /\ Inside(stk2, r, cs) /\ SubCall(stk2, r, cs, flags, target)
    /\ flags \in AllFlags /\ flags.override = FALSE
    /\ Ready(stk2, cs[Len(cs)].sp, r, flags, Len(stk2))
    /\ Len(stk) <= Len(stk2) /\ OnlyOperands(stk2, Len(stk), Len(stk2))
    /\ \A p \in 1 .. Len(stk) : stk2[p] = stk[p]

LEMMA CallIsReady ==
    ASSUME IInv, NEW kind \in {"normal", "void", "static"}, NEW target \in Targets, NEW argc \in ArgCounts,
           JSCalls(kind, target, argc), NEW stk, NEW r, NEW cs, stk = stack, r = reg, cs = calls
    PROVE  \E stk2, flags : CallReady(stk2, flags, stk, r, cs, target)
<1> HIDE DEF Word, Registers, Activations
<1>1. calls # << >> /\ mode = "js"
  BY DEF JSCalls, IInv, Consistent
<1>2. PICK s, t : s = cs[Len(cs)].sp /\ t = Len(stk)
  OBVIOUS
<1>3. Inside(stk, r, cs) /\ TopCall = cs[Len(cs)] /\ JSState(stk, s, r, t) /\ s < t
  BY <1>1, <1>2, InsideNow
<1>4. /\ stk \in Seq(Word) /\ r \in Registers /\ t \in Nat /\ s \in Nat /\ t <= Len(stk)
  BY <1>2, <1>3, TopShape, LenProperties DEF Inside
<1>5. r.fb \in Nat /\ argc \in Nat
  BY <1>4, CountsAssumption DEF Registers
<1>6. PICK flags, n : /\ flags = [NoFlags EXCEPT !.argc = argc, !.pushed = ~ (kind = "static"),
                                                 !.void = (kind = "void")]
                      /\ n = IF kind = "static" THEN argc ELSE argc + 1
  OBVIOUS
<1>7. /\ flags \in AllFlags /\ flags.override = FALSE /\ flags.fromHost = FALSE
      /\ flags.argc = argc /\ flags.pushed = ~ (kind = "static")
  BY <1>5, <1>6 DEF AllFlags, NoFlags
<1>8. Operands(flags) = n /\ n \in Nat
  <2>1. CASE kind = "static"
    <3>1. n = argc /\ flags.argc = argc /\ flags.pushed = FALSE
      BY <2>1, <1>6, <1>7
    <3> QED
      BY <3>1, <1>5 DEF Operands
  <2>2. CASE kind # "static"
    <3>1. n = argc + 1 /\ flags.argc = argc /\ flags.pushed = TRUE
      BY <2>2, <1>6, <1>7
    <3> QED
      BY <3>1, <1>5 DEF Operands
  <2> QED
    BY <2>1, <2>2
<1>9. PICK stk2, u : stk2 = stk \o Values(n) /\ u = t + n
  OBVIOUS
<1>10. /\ stk2 \in Seq(Word) /\ Len(stk2) = u /\ \A p \in 1 .. t : stk2[p] = stk[p]
       /\ OnlyOperands(stk2, t, u)
  BY <1>2, <1>4, <1>8, <1>9, OperandsPushed
<1>11. u - Operands(flags) = t /\ u \in Nat /\ s <= u
  BY <1>3, <1>4, <1>8, <1>9
<1>12. FrameHasRoom(n) /\ SubCall(stk2, r, cs, flags, target)
  BY <1>2, <1>6, <1>9 DEF JSCalls
<1>13. RoomFor(r.fb, r.pc, u - r.fb)
  <2>1. RoomFor(r.fb, r.pc, t - r.fb - 1)
    BY <1>3 DEF JSState
  <2>2. PICK F : F = FunctionOf(r.pc)
    OBVIOUS
  <2>3. F \in Functions /\ FrameWords[F] \in Nat
    BY <2>1, <2>2, StackAssumption DEF RoomFor
  <2>4. t - r.fb + n <= FrameWords[F]
    BY <2>2, <1>2, <1>12 DEF FrameHasRoom
  <2>5. u - r.fb <= FrameWords[F]
    BY <2>3, <2>4, <1>4, <1>5, <1>8, <1>9
  <2> QED
    BY <2>1, <2>2, <2>5 DEF RoomFor
<1>14. JSState(stk2, s, r, t)
  <2>1. \A p \in s + 1 .. t : p \in 1 .. t
    BY <1>4
  <2>2. \A p \in s + 1 .. t : stk2[p] = stk[p]
    BY <2>1, <1>10
  <2> QED
    BY <2>2, <1>3, <1>4, JSStateSame
<1>15. Ready(stk2, s, r, flags, u)
  BY <1>7, <1>10, <1>11, <1>13, <1>14 DEF Ready
<1>16. \A p \in 1 .. s : stk2[p] = stk[p]
  <2>1. \A p \in 1 .. s : p \in 1 .. t
    BY <1>3, <1>4
  <2> QED
    BY <2>1, <1>10
<1>17. Inside(stk2, r, cs)
  <2>1. s <= Len(stk2)
    BY <1>10, <1>11
  <2> QED
    BY <2>1, <1>2, <1>3, <1>4, <1>10, <1>16, InsideSame
<1>18. Ready(stk2, cs[Len(cs)].sp, r, flags, Len(stk2))
  BY <1>2, <1>10, <1>15
<1>19. Len(stk) <= Len(stk2) /\ OnlyOperands(stk2, Len(stk), Len(stk2)) /\ \A p \in 1 .. Len(stk) : stk2[p] = stk[p]
  BY <1>2, <1>4, <1>8, <1>9, <1>10
<1> QED
  BY <1>7, <1>12, <1>17, <1>18, <1>19 DEF CallReady

LEMMA JSCallsStep ==
    ASSUME IInv, NEW kind \in {"normal", "void", "static"}, NEW target \in Targets, NEW argc \in ArgCounts,
           JSCalls(kind, target, argc)
    PROVE  Stepped
<1> HIDE DEF Word, Registers, Activations
<1>1. calls # << >> /\ mode = "js"
  BY DEF JSCalls, IInv, Consistent
<1>2. PICK stk, r, cs, s, t : /\ stk = stack /\ r = reg /\ cs = calls /\ s = cs[Len(cs)].sp
                              /\ t = Len(stk)
  OBVIOUS
<1>3. Inside(stk, r, cs) /\ TopCall = cs[Len(cs)] /\ s < t
  BY <1>1, <1>2, InsideNow
<1>4. t \in Nat /\ s \in Nat
  BY <1>2, <1>3, TopShape, LenProperties DEF Inside
<1>5. PICK stk2, flags : CallReady(stk2, flags, stk, r, cs, target)
  BY <1>2, CallIsReady
<1>6. Fine(stk2, r, cs)
  BY <1>5, SubCallFine DEF CallReady
<1>7. \A p \in 1 .. s : stk2[p] = stk[p]
  <2>1. \A p \in 1 .. s : p \in 1 .. t
    BY <1>3, <1>4
  <2> QED
    BY <2>1, <1>2, <1>5 DEF CallReady
<1>8. /\ r.queue = reg.queue /\ Len(cs) = Len(calls) /\ cs[Len(cs)].sp = TopCall.sp
      /\ \A p \in 1 .. TopCall.sp : stk2[p] = stack[p]
  BY <1>2, <1>3, <1>7
<1> QED
  BY <1>1, <1>6, <1>8, FineStep

(* A return pops the frame with the arguments that are below it.           *)
(* The words and the registers after the frame is popped.                  *)
Returning(stk, r, cs, s, f, stk2, r2) ==
    /\ stk = stack /\ r = reg /\ cs = calls /\ s = cs[Len(cs)].sp /\ f = r.flags
    /\ r2 = Restored(stk, r, r.fb) /\ stk2 = SubSeq(stk, 1, r.fb - BoundaryWords)

LEMMA ReturnIsReady ==
    ASSUME IInv, Return, NEW stk, NEW r, NEW cs, NEW s, NEW f, NEW stk2, NEW r2,
           Returning(stk, r, cs, s, f, stk2, r2)
    PROVE  /\ Inside(stk2, r2, cs) /\ f \in AllFlags /\ Ready(stk2, s, r2, f, Len(stk2)) /\ SubPopArgs(stk2, r2, cs, f)
           /\ r2.queue = r.queue /\ r2.fb = CallerBase(stk, r.fb) /\ r2.pc = stk[r.fb][2]
           /\ Len(stk2) = r.fb - BoundaryWords /\ \A p \in 1 .. Len(stk2) : stk2[p] = stk[p]
           /\ TopCall = cs[Len(cs)] /\ \A p \in 1 .. s : stk2[p] = stk[p]
<1> HIDE DEF Word, Registers, Activations
<1>1. calls # << >> /\ mode = "js"
  BY DEF Return, IInv, Consistent
<1>p. PICK t : t = Len(stk)
  OBVIOUS
<1>2. stk = stack /\ r = reg /\ cs = calls /\ s = cs[Len(cs)].sp /\ f = r.flags /\ t = Len(stk)
  BY <1>p DEF Returning
<1>3. Inside(stk, r, cs) /\ TopCall = cs[Len(cs)] /\ JSState(stk, s, r, t)
  BY <1>1, <1>2, InsideNow
<1>4. /\ stk \in Seq(Word) /\ r \in Registers /\ t \in Nat /\ s \in Nat /\ t <= Len(stk)
  BY <1>2, <1>3, TopShape, LenProperties DEF Inside
<1>5. r.fb \in Nat /\ r.catch \in Nat /\ r.flags \in AllFlags
  BY <1>4 DEF Registers
<1>6. PICK b, d : b = r.fb /\ f = r.flags /\ d = CallerBase(stk, b)
  BY <1>2
<1>7. PICK k, w : k = b - BoundaryWords /\ w = k - Operands(f)
  OBVIOUS
<1>8. /\ b <= t /\ Frame(stk, s, b, f) /\ Chained(stk, s, r.catch, t) /\ Linked(stk, s, t)
  BY <1>3, <1>6 DEF JSState
<1>9. /\ Boundaried(stk, s, b) /\ OnlyOperands(stk, w, b - 1)
      /\ IF f.fromHost THEN w = s /\ d <= s ELSE d \in s + 1 .. w
  BY <1>6, <1>7, <1>8 DEF Frame
<1>10. b \in Int /\ b <= Len(stk) /\ b \in Nat
  BY <1>4, <1>5, <1>6, <1>8, <1>2
<1>11. d \in Nat /\ d <= b - 4 /\ stk[b - 1][2] \in AllFlags /\ b - 3 \in s + 1 .. Len(stk)
  BY <1>4, <1>6, <1>9, <1>10, BoundaryShape
<1>12. k = b - 4 /\ k \in Nat /\ w \in Int /\ w <= k /\ s <= k /\ k <= Len(stk) /\ s <= w
  <2>1. k = b - 4 /\ b >= s + 4
    BY <1>7, <1>9 DEF BoundaryWords, Boundaried
  <2>2. Operands(f) \in Nat
    BY <1>5, <1>6, FlagsShape
  <2>3. k \in Nat /\ w \in Int /\ w <= k /\ s <= k /\ k <= Len(stk)
    BY <2>1, <2>2, <1>4, <1>7, <1>10
  <2>4. s <= w
    BY <2>3, <1>4, <1>9, <1>11
  <2> QED
    BY <2>1, <2>3, <2>4
<1>13. r2 = Restored(stk, r, b) /\ stk2 = SubSeq(stk, 1, k)
  BY <1>6, <1>7 DEF Returning
<1>14. /\ r2 \in Registers /\ r2.fb = d /\ r2.flags = stk[b - 1][2] /\ r2.pc = stk[b][2]
       /\ r2.catch = r.catch /\ r2.queue = r.queue
  BY <1>4, <1>6, <1>9, <1>10, <1>13, RestoredShape
<1>15. stk2 \in Seq(Word) /\ Len(stk2) = k /\ \A p \in 1 .. k : stk2[p] = stk[p]
  <2>1. k \in 0 .. Len(stk)
    BY <1>12
  <2> QED
    BY <2>1, <1>4, <1>13, CutShape
<1>16. SubPopArgs(stk2, r2, cs, f)
  BY <1>2, <1>6, <1>7, <1>13 DEF Return
<1>17. OnlyOperands(stk, w, k)
  <2>1. \A p \in w + 1 .. k : p \in w + 1 .. b - 1
    BY <1>10, <1>12
  <2> QED
    BY <2>1, <1>9 DEF OnlyOperands
<1>18. r.catch <= b
  BY <1>2, <1>5, <1>6, <1>10 DEF Return, TryIsOpen
<1>19. r.catch = 0 \/ (r.catch \in s + 1 .. w /\ IsCatch(stk, r.catch))
  <2>1. SUFFICES ASSUME r.catch # 0 PROVE r.catch \in s + 1 .. w /\ IsCatch(stk, r.catch)
    OBVIOUS
  <2>2. r.catch \in s + 1 .. t - 1 /\ IsCatch(stk, r.catch)
    BY <2>1, <1>8 DEF Chained
  <2>3. r.catch # b
    BY <2>2, <1>9 DEF Boundaried, IsReturn, IsCatch
  <2>4. r.catch \notin w + 1 .. b - 1
    BY <2>2, <1>9 DEF OnlyOperands
  <2>5. r.catch \in s + 1 .. w
    BY <2>2, <2>3, <2>4, <1>4, <1>5, <1>10, <1>12, <1>18
  <2> QED
    BY <2>2, <2>5
<1>20. \A p \in s + 1 .. k : stk2[p] = stk[p]
  <2>1. \A p \in s + 1 .. k : p \in 1 .. k
    BY <1>4
  <2> QED
    BY <2>1, <1>15
<1>21. Ready(stk, s, r2, f, k)
  <2>1. CASE f.fromHost
    <3>1. w = s /\ d <= s
      BY <2>1, <1>9
    <3>2. r.catch = 0
      BY <3>1, <1>4, <1>19
    <3> QED
      BY <2>1, <3>1, <3>2, <1>7, <1>14, <1>17 DEF Ready
  <2>2. CASE ~ f.fromHost
    <3>1. d \in s + 1 .. w /\ d > s
      BY <2>2, <1>4, <1>9
    <3>2. b \in s + 1 .. t /\ IsReturn(stk, b)
      BY <1>4, <1>8, <1>9, <1>10, <1>12 DEF Boundaried
    <3>3. /\ Frame(stk, s, d, stk[b - 1][2]) /\ RoomFor(d, stk[b][2], k - d) /\ OwnCatch(stk, d, stk[b][2], k)
      BY <3>1, <3>2, <1>6, <1>7, <1>8 DEF Linked
    <3>4. IsReturn(stk, d)
      BY <3>3 DEF Frame, Boundaried
    <3>5. \A p \in d + 1 .. w : IsCatch(stk, p) => p + 1 <= w
      <4>1. SUFFICES ASSUME NEW p \in d + 1 .. w, IsCatch(stk, p), ~ (p + 1 <= w) PROVE FALSE
        OBVIOUS
      <4>2. p \in d + 1 .. k /\ p + 1 = w + 1
        BY <4>1, <1>11, <1>12
      <4>3. p + 1 <= k /\ \E h \in HandlersOf[FunctionOf(stk[b][2])] : stk[p + 1] = <<"handler", h>>
        BY <4>1, <4>2, <3>3 DEF OwnCatch
      <4>4. p + 1 \in w + 1 .. k
        BY <4>2, <4>3, <1>12
      <4> QED
        BY <4>3, <4>4, <1>17 DEF OnlyOperands
    <3>6. OwnCatch(stk, d, stk[b][2], w)
      <4>1. PICK pc : pc = stk[b][2]
        OBVIOUS
      <4>2. OwnCatch(stk, d, pc, k)
        BY <4>1, <3>3
      <4>3. s \in Int /\ w \in Int /\ k \in Int /\ d \in Int /\ s <= d /\ w <= k
        BY <3>1, <1>4, <1>11, <1>12
      <4>4. \A p \in s + 1 .. w : stk[p] = stk[p]
        OBVIOUS
      <4>5. OwnCatch(stk, d, pc, w)
        BY <4>2, <4>3, <4>4, <3>5, OwnCatchSame
      <4> QED
        BY <4>1, <4>5
    <3>7. r.catch = 0 \/ (r.catch \in s + 1 .. w - 1 /\ IsCatch(stk, r.catch))
      <4>1. SUFFICES ASSUME r.catch # 0 PROVE r.catch \in s + 1 .. w - 1 /\ IsCatch(stk, r.catch)
        OBVIOUS
      <4>2. r.catch \in s + 1 .. w /\ IsCatch(stk, r.catch)
        BY <4>1, <1>19
      <4>3. r.catch # w
        <5>1. SUFFICES ASSUME r.catch = w PROVE FALSE
          OBVIOUS
        <5>2. d # w
          BY <5>1, <4>2, <3>4 DEF IsReturn, IsCatch
        <5>3. w \in d + 1 .. w
          BY <5>2, <3>1, <1>11, <1>12
        <5>4. w + 1 <= w
          BY <5>1, <5>3, <4>2, <3>5
        <5> QED
          BY <5>4, <1>12
      <4> QED
        BY <4>2, <4>3, <1>5, <1>12
    <3>8. \A p \in s + 1 .. w : p \in s + 1 .. t
      BY <1>4, <1>8, <1>10, <1>12
    <3>9. Chained(stk, s, r.catch, w)
      BY <3>7, <3>8, <1>8 DEF Chained
    <3>10. Linked(stk, s, w)
      BY <3>8, <1>8 DEF Linked
    <3>11. RoomFor(d, stk[b][2], w - d - 1)
      <4>1. PICK pc, x, y : pc = stk[b][2] /\ x = k - d /\ y = w - d - 1
        OBVIOUS
      <4>2. d \in Int /\ x \in Int /\ y \in Int /\ y <= x /\ RoomFor(d, pc, x)
        BY <4>1, <3>3, <1>11, <1>12, SMTT(20)
      <4>3. RoomFor(d, pc, y)
        BY <4>2, RoomForFewer
      <4> QED
        BY <4>1, <4>3
    <3>12. d <= w
      BY <3>1
    <3>13. JSState(stk, s, r2, w)
      BY <3>3, <3>6, <3>9, <3>10, <3>11, <3>12, <1>14 DEF JSState
    <3> QED
      BY <2>2, <3>3, <3>13, <1>7, <1>14, <1>17 DEF Ready
  <2> QED
    BY <2>1, <2>2
<1>22. Ready(stk2, s, r2, f, k)
  <2>1. f \in AllFlags
    BY <1>5, <1>6
  <2> QED
    BY <2>1, <1>4, <1>12, <1>14, <1>20, <1>21, ReadySame
<1>23. \A p \in 1 .. s : stk2[p] = stk[p]
  <2>1. \A p \in 1 .. s : p \in 1 .. k
    BY <1>4, <1>12
  <2> QED
    BY <2>1, <1>15
<1>24. Inside(stk2, r2, cs)
  <2>1. s <= Len(stk2)
    BY <1>12, <1>15
  <2> QED
    BY <2>1, <1>2, <1>3, <1>14, <1>15, <1>23, InsideSame
<1>25. f \in AllFlags /\ Ready(stk2, s, r2, f, Len(stk2)) /\ Len(stk2) = r.fb - BoundaryWords
       /\ \A p \in 1 .. Len(stk2) : stk2[p] = stk[p]
  BY <1>5, <1>6, <1>7, <1>15, <1>22
<1> QED
  BY <1>3, <1>6, <1>14, <1>16, <1>23, <1>24, <1>25

LEMMA ReturnStep ==
    ASSUME IInv, Return
    PROVE  Stepped
<1> HIDE DEF Word, Registers, Activations
<1>1. PICK stk, r, cs, s, f, stk2, r2 : Returning(stk, r, cs, s, f, stk2, r2)
  BY DEF Returning
<1>2. /\ Inside(stk2, r2, cs) /\ f \in AllFlags /\ Ready(stk2, s, r2, f, Len(stk2)) /\ SubPopArgs(stk2, r2, cs, f)
      /\ r2.queue = r.queue /\ TopCall = cs[Len(cs)] /\ \A p \in 1 .. s : stk2[p] = stk[p]
  BY <1>1, ReturnIsReady
<1>3. Fine(stk2, r2, cs)
  BY <1>1, <1>2, PopArgsFine DEF Returning
<1>4. calls # << >>
  BY DEF Return, IInv, Consistent
<1>5. /\ r2.queue = reg.queue /\ Len(cs) = Len(calls) /\ cs[Len(cs)].sp = TopCall.sp
      /\ \A p \in 1 .. TopCall.sp : stk2[p] = stack[p]
  BY <1>1, <1>2 DEF Returning
<1> QED
  BY <1>3, <1>4, <1>5, FineStep

-----------------------------------------------------------------------------
(* Steps of the host.                                                      *)

LEMMA InHostShape ==
    ASSUME NEW a \in Activations
    PROVE  /\ a.host.flags \in AllFlags /\ a.host.savedFlags \in AllFlags /\ a.sp \in Nat
           /\ [a EXCEPT !.host = NotInHost] \in Activations
           /\ [a EXCEPT !.host = NotInHost].sp = a.sp /\ [a EXCEPT !.host = NotInHost].entry = a.entry
BY FreshShape DEF Activations, InHost

(* What the engine has when a host function comes back.                    *)
LEMMA BackInside ==
    ASSUME IInv, HostIsDone, NEW stk, NEW r, NEW cs, NEW s, NEW f,
           stk = stack, r = BackFromHost, cs = Resumed, s = TopCall.sp, f = TopCall.host.flags
    PROVE  /\ Inside(stk, r, cs) /\ s \in Nat /\ s < Len(stk) /\ Len(cs) = Len(calls) /\ cs[Len(cs)].sp = s
           /\ r.queue = reg.queue /\ f \in AllFlags
           /\ Ready(stk, s, r, f, Len(stk) - 1)
<1> HIDE DEF Word, Registers, Activations
<1>1. calls # << >> /\ mode # "js"
  BY DEF HostIsDone, InHostFunction
<1>2. PICK r0, cs0, a : r0 = reg /\ cs0 = calls /\ a = TopCall
  OBVIOUS
<1>3. /\ Inside(stk, r0, cs0) /\ cs0[Len(cs0)].sp < Len(stk) /\ a = cs0[Len(cs0)]
      /\ HostState(stk, a, r0, Len(stk))
  BY <1>1, <1>2, InsideNow
<1>4. /\ stk \in Seq(Word) /\ r0 \in Registers /\ cs0 \in Seq(Activations) /\ cs0 # << >> /\ Suspended(stk, cs0)
  BY <1>3 DEF Inside
<1>5. a \in Activations
  BY <1>3, <1>4, TopShape
<1>6. PICK b : b = [a EXCEPT !.host = NotInHost]
  OBVIOUS
<1>7. /\ f \in AllFlags /\ a.host.savedFlags \in AllFlags /\ s \in Nat
      /\ b \in Activations /\ b.sp = a.sp /\ b.entry = a.entry /\ a.sp = s
  BY <1>2, <1>5, <1>6, InHostShape
<1>8. r = [r0 EXCEPT !.flags = a.host.savedFlags]
  BY <1>2 DEF BackFromHost
<1>9. r \in Registers /\ r.queue = r0.queue
  BY <1>4, <1>7, <1>8 DEF Registers
<1>10. cs = SetTop(cs0, b)
  BY <1>2, <1>6 DEF Resumed
<1>11. Inside(stk, r, cs0)
  BY <1>3, <1>9 DEF Inside
<1>12. Inside(stk, r, cs) /\ Len(cs) = Len(cs0) /\ cs[Len(cs)] = b
  <2>1. b.sp = cs0[Len(cs0)].sp /\ b.entry = cs0[Len(cs0)].entry /\ b \in Activations
    BY <1>3, <1>7
  <2>2. Inside(stk, r, SetTop(cs0, b)) /\ Len(SetTop(cs0, b)) = Len(cs0) /\ SetTop(cs0, b)[Len(SetTop(cs0, b))] = b
    BY <2>1, <1>4, <1>9, <1>11, TopChanged
  <2> QED
    BY <2>2, <1>10
<1>13. r0.catch = a.host.regCopy.catch
  <2>1. Len(cs0) \in DOMAIN cs0
    BY <1>3, <1>4, TopShape
  <2> QED
    BY <2>1, <1>1, <1>2, <1>3 DEF HostIsDone, InHostFunction, CatchIsLost, CatchRegister, HasHost
<1>14. r = CallerOf(a, r0)
  BY <1>4, <1>8, <1>13 DEF CallerOf, Registers
<1>15. Ready(stk, s, r, f, Len(stk) - 1)
  BY <1>2, <1>3, <1>7, <1>14 DEF HostState
<1> QED
  BY <1>2, <1>3, <1>7, <1>9, <1>12, <1>15

LEMMA HostFailsStep ==
    ASSUME IInv, HostFails
    PROVE  Stepped
<1>1. PICK stk, r, cs, s, f, e : /\ stk = stack /\ r = BackFromHost /\ cs = Resumed /\ s = TopCall.sp
                                 /\ f = TopCall.host.flags /\ e = "error"
  OBVIOUS
<1>2. HostIsDone /\ calls # << >>
  BY DEF HostFails, HostIsDone, InHostFunction
<1>3. /\ Inside(stk, r, cs) /\ Len(cs) = Len(calls) /\ cs[Len(cs)].sp = s /\ r.queue = reg.queue
  BY <1>1, <1>2, BackInside
<1>4. SubExit(stk, r, cs, e) /\ e # "success"
  BY <1>1 DEF HostFails
<1>5. Fine(stk, r, cs)
  BY <1>3, <1>4, ExitFine
<1> QED
  BY <1>1, <1>2, <1>3, <1>5, FineStep

LEMMA HostThrowsStep ==
    ASSUME IInv, HostThrows
    PROVE  Stepped
<1>1. PICK stk, r, cs, s, f : /\ stk = stack /\ r = BackFromHost /\ cs = Resumed /\ s = TopCall.sp
                              /\ f = TopCall.host.flags
  OBVIOUS
<1>2. HostIsDone /\ calls # << >>
  BY DEF HostThrows, HostIsDone, InHostFunction
<1>3. /\ Inside(stk, r, cs) /\ s \in Nat /\ s < Len(stk) /\ Len(cs) = Len(calls) /\ cs[Len(cs)].sp = s
      /\ r.queue = reg.queue /\ f \in AllFlags
      /\ Ready(stk, s, r, f, Len(stk) - 1)
  BY <1>1, <1>2, BackInside
<1>4. SubThrow(stk, r, cs)
  BY <1>1 DEF HostThrows
<1>5. r.catch = 0 \/ \E t \in Nat : t <= Len(stk) /\ JSState(stk, cs[Len(cs)].sp, r, t)
  <2>1. CASE f.fromHost
    BY <2>1, <1>3 DEF Ready
  <2>2. CASE ~ f.fromHost
    <3>1. PICK t : t = Len(stk) - 1 - Operands(f)
      OBVIOUS
    <3>2. JSState(stk, s, r, t)
      BY <2>2, <3>1, <1>3 DEF Ready
    <3>3. Operands(f) \in Nat /\ Len(stk) \in Nat /\ r.fb \in Nat
      <4> HIDE DEF Word
      <4>1. Len(stk) \in Nat
        BY <1>3, LenProperties DEF Inside
      <4>2. r.fb \in Nat
        BY <1>3 DEF Inside, Registers
      <4> QED
        BY <4>1, <4>2, <1>3, FlagsShape
    <3>4. r.fb <= t
      BY <3>2 DEF JSState
    <3>5. t \in Nat /\ t <= Len(stk)
      BY <3>1, <3>3, <3>4
    <3> QED
      BY <3>2, <3>5, <1>3
  <2> QED
    BY <2>1, <2>2
<1>6. Fine(stk, r, cs)
  BY <1>3, <1>4, <1>5, ThrowFine
<1> QED
  BY <1>1, <1>2, <1>3, <1>6, FineStep

LEMMA HostReturnsStep ==
    ASSUME IInv, HostReturns
    PROVE  Stepped
<1> HIDE DEF Word, Registers, Activations
<1>1. PICK stk, r, cs, s, f : /\ stk = stack /\ r = BackFromHost /\ cs = Resumed /\ s = TopCall.sp
                              /\ f = TopCall.host.flags
  OBVIOUS
<1>2. HostIsDone /\ calls # << >>
  BY DEF HostReturns, HostIsDone, InHostFunction
<1>3. /\ Inside(stk, r, cs) /\ s \in Nat /\ s < Len(stk) /\ Len(cs) = Len(calls) /\ cs[Len(cs)].sp = s
      /\ r.queue = reg.queue /\ f \in AllFlags
      /\ Ready(stk, s, r, f, Len(stk) - 1)
  BY <1>1, <1>2, BackInside
<1>4. stk \in Seq(Word) /\ r \in Registers
  BY <1>3 DEF Inside
<1>5. PICK t, stk2 : t = Len(stk) - 1 /\ stk2 = Front(stk)
  OBVIOUS
<1>6. t \in Nat /\ t <= Len(stk) /\ s <= t /\ stk # << >>
  <2>1. Len(stk) \in Nat
    BY <1>4, LenProperties
  <2>2. stk # << >>
    BY <2>1, <1>3, EmptySeq
  <2> QED
    BY <2>1, <2>2, <1>3, <1>5
<1>7. stk2 \in Seq(Word) /\ Len(stk2) = t /\ \A p \in 1 .. t : stk2[p] = stk[p]
  BY <1>4, <1>5, <1>6, FrontShape
<1>8. SubPopArgs(stk2, r, cs, f)
  BY <1>1, <1>5 DEF HostReturns
<1>9. \A p \in s + 1 .. t : stk2[p] = stk[p]
  <2>1. \A p \in s + 1 .. t : p \in 1 .. t
    BY <1>3
  <2> QED
    BY <2>1, <1>7
<1>10. \A p \in 1 .. s : stk2[p] = stk[p]
  <2>1. \A p \in 1 .. s : p \in 1 .. t
    BY <1>3, <1>6
  <2> QED
    BY <2>1, <1>7
<1>11. Ready(stk2, s, r, f, t)
  <2>1. Ready(stk, s, r, f, t)
    BY <1>3, <1>5
  <2> QED
    BY <2>1, <1>3, <1>4, <1>6, <1>9, ReadySame
<1>12. Inside(stk2, r, cs)
  BY <1>3, <1>4, <1>6, <1>7, <1>10, InsideSame
<1>13. Ready(stk2, cs[Len(cs)].sp, r, f, Len(stk2))
  BY <1>3, <1>7, <1>11
<1>14. Fine(stk2, r, cs)
  BY <1>3, <1>8, <1>12, <1>13, PopArgsFine
<1>15. \A p \in 1 .. TopCall.sp : stk2[p] = stack[p]
  BY <1>1, <1>10
<1> QED
  BY <1>1, <1>2, <1>3, <1>14, <1>15, FineStep

(* What a host function finds in the registers is about its caller.        *)
LEMMA HostStateBase ==
    ASSUME NEW stk \in Seq(Word), NEW a \in Activations, NEW r \in Registers, NEW t \in Nat, t <= Len(stk),
           HostState(stk, a, r, t)
    PROVE  r.fb <= t /\ a.sp < t
<1>1. PICK f, s, u : f = a.host.flags /\ s = a.sp /\ u = t - 1 - Operands(f)
  OBVIOUS
<1>2. f \in AllFlags /\ s \in Nat /\ r.fb \in Nat /\ s < t
  <2>1. f \in AllFlags /\ s \in Nat
    BY <1>1, InHostShape
  <2>2. r.fb \in Nat
    BY DEF Registers
  <2>3. s < t
    BY <1>1, <2>1 DEF HostState
  <2> QED
    BY <2>1, <2>2, <2>3
<1>3. PICK q : q = CallerOf(a, r)
  OBVIOUS
<1>4. q.fb = r.fb
  BY <1>3 DEF Registers, CallerOf
<1>5. Ready(stk, s, q, f, t - 1)
  BY <1>1, <1>3 DEF HostState
<1>6. CASE f.fromHost
  <2>1. q.fb <= s
    BY <1>5, <1>6 DEF Ready
  <2> QED
    BY <2>1, <1>1, <1>2, <1>4
<1>7. CASE ~ f.fromHost
  <2>1. q.fb <= u
    BY <1>1, <1>5, <1>7 DEF Ready, JSState
  <2>2. Operands(f) \in Nat
    BY <1>2, FlagsShape
  <2> QED
    BY <2>1, <2>2, <1>1, <1>2, <1>4
<1> QED
  BY <1>6, <1>7

LEMMA EntryShape ==
    ASSUME NEW r \in Registers, NEW ex \in BOOLEAN
    PROVE  /\ WithThis(ex, r) \in Registers /\ SetUp(WithThis(ex, r)) \in Registers
           /\ WithThis(ex, r).fb = r.fb /\ WithThis(ex, r).pc = r.pc /\ WithThis(ex, r).catch = r.catch
           /\ WithThis(ex, r).queue = r.queue
           /\ [WithThis(ex, r).flags EXCEPT !.override = FALSE] = [r.flags EXCEPT !.override = FALSE]
           /\ SetUp(WithThis(ex, r)).fb = r.fb /\ SetUp(WithThis(ex, r)).catch = 0
           /\ SetUp(WithThis(ex, r)).queue = r.queue
<1>1. r.flags \in AllFlags /\ [r.flags EXCEPT !.override = TRUE] \in AllFlags
      /\ [[r.flags EXCEPT !.override = TRUE] EXCEPT !.override = FALSE] = [r.flags EXCEPT !.override = FALSE]
  BY DEF Registers, AllFlags
<1>2. PICK f : f = [r.flags EXCEPT !.override = TRUE]
  OBVIOUS
<1>3. PICK e : e = WithThis(ex, r)
  OBVIOUS
<1>4. e = r \/ e = [r EXCEPT !.flags = f]
  BY <1>2, <1>3 DEF WithThis
<1>5. /\ e \in Registers /\ e.fb = r.fb /\ e.pc = r.pc /\ e.catch = r.catch /\ e.queue = r.queue
      /\ (e.flags = r.flags \/ e.flags = f)
  BY <1>1, <1>2, <1>4 DEF Registers
<1>6. [e.flags EXCEPT !.override = FALSE] = [r.flags EXCEPT !.override = FALSE]
  BY <1>1, <1>2, <1>5
<1>7. e.flags \in AllFlags /\ [e.flags EXCEPT !.override = FALSE] \in AllFlags
  BY <1>1, <1>2, <1>5 DEF AllFlags
<1>8. PICK g : g = [e.flags EXCEPT !.override = FALSE]
  OBVIOUS
<1>9. SetUp(e) = [e EXCEPT !.catch = 0, !.flags = g]
  BY <1>5, <1>8 DEF SetUp
<1>10. SetUp(e) \in Registers /\ SetUp(e).fb = e.fb /\ SetUp(e).catch = 0 /\ SetUp(e).queue = e.queue
  <2>1. g \in AllFlags /\ 0 \in Nat
    BY <1>7, <1>8
  <2>2. PICK e2 : e2 = [e EXCEPT !.catch = 0, !.flags = g]
    OBVIOUS
  <2>3. e2 \in Registers /\ e2.fb = e.fb /\ e2.catch = 0 /\ e2.queue = e.queue
    BY <2>1, <2>2, <1>5 DEF Registers
  <2> QED
    BY <2>2, <2>3, <1>9
<1> QED
  BY <1>3, <1>5, <1>6, <1>10

(* The registers on entry and the activation of a new mvm_call.            *)
Entering(ex, entry, stk, r, cs, s) ==
    /\ entry = WithThis(ex, CurrentRegisters)
    /\ stk = stack
    /\ r = SetUp(entry)
    /\ cs = Append(calls, Activation(entry))
    /\ s = Len(stack)

(* The new activation is on top of the ones that wait.                     *)
LEMMA Entered ==
    ASSUME IInv, mode = "host", NEW ex \in BOOLEAN, NEW entry, NEW stk, NEW r, NEW cs, NEW s,
           Entering(ex, entry, stk, r, cs, s)
    PROVE  /\ Inside(stk, r, cs) /\ s \in Nat /\ s = Len(stk) /\ cs[Len(cs)].sp = s /\ Len(cs) = Len(calls) + 1
           /\ r.fb <= s /\ r.catch = 0
           /\ calls # << >> => r.queue = reg.queue
<1> USE DEF Entering
<1> HIDE DEF Word, Registers, Activations
<1>1. PICK cs0, r0, a, n : cs0 = calls /\ r0 = CurrentRegisters /\ a = Activation(entry) /\ n = Len(cs0)
  OBVIOUS
<1>2. stk \in Seq(Word) /\ cs0 \in Seq(Activations) /\ Suspended(stk, cs0)
  BY <1>1 DEF IInv, Shapes, Consistent
<1>3. s \in Nat /\ s = Len(stk) /\ n \in Nat /\ DOMAIN cs0 = 1 .. n
  BY <1>1, <1>2, LenProperties
<1>4. r0 \in Registers /\ (cs0 # << >> => r0 = reg)
  BY <1>1, FreshShape DEF CurrentRegisters, IInv, Shapes, Allocated
<1>5. /\ entry \in Registers /\ r \in Registers
      /\ entry.fb = r0.fb /\ entry.pc = r0.pc /\ entry.catch = r0.catch /\ entry.queue = r0.queue
      /\ [entry.flags EXCEPT !.override = FALSE] = [r0.flags EXCEPT !.override = FALSE]
      /\ r.fb = r0.fb /\ r.catch = 0 /\ r.queue = r0.queue
  BY <1>1, <1>4, EntryShape
<1>6. a \in Activations /\ a.sp = s /\ a.entry = entry
  <2>1. a = [entry |-> entry, sp |-> s, asked |-> TRUE, out |-> "unset", host |-> NotInHost]
    BY <1>1 DEF Activation
  <2> QED
    BY <2>1, <1>3, <1>5, FreshShape DEF Activations
<1>7. cs = Append(cs0, a)
  BY <1>1
<1>8. /\ cs \in Seq(Activations) /\ Len(cs) = n + 1 /\ cs[n + 1] = a
      /\ \A k \in 1 .. n : cs[k] = cs0[k]
  BY <1>1, <1>2, <1>6, <1>7, AppendProperties
<1>9. cs # << >> /\ DOMAIN cs = 1 .. n + 1
  BY <1>3, <1>8, EmptySeq, LenProperties
<1>10. CASE cs0 = << >>
  <2>1. n = 0
    BY <1>1, <1>10, EmptySeq
  <2>2. s = 0 /\ r0.fb = 0 /\ r0.catch = 0
    <3>1. stack = << >> /\ reg.fb = 0 /\ reg.catch = 0
      BY <1>1, <1>10 DEF IInv, Consistent
    <3>2. s = 0
      BY <3>1, EmptySeq
    <3> QED
      BY <3>1, <3>2, <1>1 DEF CurrentRegisters, FreshRegisters
  <2>3. Suspended(stk, cs)
    <3>1. cs[1] = a /\ Len(cs) = 1 /\ DOMAIN cs = {1}
      BY <2>1, <1>8, <1>9
    <3>2. 2 .. Len(cs) = {}
      BY <3>1
    <3> QED
      BY <3>1, <3>2, <2>2, <1>5, <1>6 DEF Suspended
  <2>4. r.fb <= s
    BY <2>2, <1>5
  <2> QED
    BY <2>3, <2>4, <1>1, <1>2, <1>3, <1>5, <1>6, <1>8, <1>9, <1>10 DEF Inside
<1>11. CASE cs0 # << >>
  <2>1. r0 = reg
    BY <1>4, <1>11
  <2>2. /\ Inside(stk, r0, cs0) /\ cs0[n].sp < s /\ HostState(stk, cs0[n], r0, s)
    <3>1. mode # "js"
      OBVIOUS
    <3> QED
      BY <3>1, <2>1, <1>1, <1>3, <1>11, InsideNow
  <2>3. n \in 1 .. n /\ cs0[n] \in Activations /\ \A k \in DOMAIN cs0 : cs0[k].sp <= cs0[n].sp /\ cs0[k].sp \in Nat
    <3>1. n \in 1 .. n /\ cs0[n] \in Activations /\ \A k \in DOMAIN cs0 : cs0[k].sp <= cs0[n].sp
      BY <1>1, <1>2, <1>11, TopShape
    <3>2. \A k \in DOMAIN cs0 : cs0[k] \in Activations
      BY <1>2, <1>3
    <3>3. \A k \in DOMAIN cs0 : cs0[k].sp \in Nat
      BY <3>2 DEF Activations
    <3> QED
      BY <3>1, <3>3
  <2>4. r0.fb <= s
    <3>1. s <= Len(stk)
      BY <1>3
    <3> QED
      BY <3>1, <2>2, <2>3, <1>2, <1>3, <1>4, HostStateBase
  <2>5. HostState(stk, cs0[n], entry, s)
    <3>1. PICK b : b = cs0[n]
      OBVIOUS
    <3>2. s <= Len(stk) /\ \A p \in b.sp + 1 .. s : stk[p] = stk[p]
      BY <1>3
    <3>3. b \in Activations /\ HostState(stk, b, r0, s)
      BY <3>1, <2>2, <2>3
    <3>4. HostState(stk, b, entry, s)
      BY <3>2, <3>3, <1>2, <1>3, <1>4, <1>5, HostStateSame
    <3> QED
      BY <3>1, <3>4
  <2>6. Suspended(stk, cs)
    <3>1. cs[1].sp = 0 /\ cs[1].entry.catch = 0 /\ cs[1].entry.fb = 0
      <4>1. cs[1] = cs0[1]
        BY <2>3, <1>3, <1>8
      <4> QED
        BY <4>1, <1>2, <1>11 DEF Suspended
    <3>2. ASSUME NEW i \in DOMAIN cs, NEW j \in DOMAIN cs, i < j PROVE cs[i].sp < cs[j].sp
      <4>1. i \in 1 .. n /\ cs[i] = cs0[i]
        BY <3>2, <1>3, <1>8, <1>9
      <4>2. CASE j = n + 1
        <5>1. cs0[i].sp <= cs0[n].sp /\ cs0[i].sp \in Nat /\ cs0[n].sp \in Nat
          BY <4>1, <2>3, <1>3
        <5>2. cs[j].sp = s
          BY <4>2, <1>6, <1>8
        <5> QED
          BY <4>1, <5>1, <5>2, <2>2, <1>3
      <4>3. CASE j # n + 1
        <5>1. j \in 1 .. n /\ cs[j] = cs0[j]
          BY <4>3, <1>3, <1>8, <1>9
        <5> QED
          BY <3>2, <4>1, <5>1, <1>2, <1>3 DEF Suspended
      <4> QED
        BY <4>2, <4>3
    <3>3. ASSUME NEW k \in 2 .. Len(cs) PROVE HostState(stk, cs[k - 1], cs[k].entry, cs[k].sp)
      <4>1. k - 1 \in 1 .. n /\ cs[k - 1] = cs0[k - 1]
        BY <1>3, <1>8
      <4>2. CASE k = n + 1
        <5>1. cs[k - 1] = cs0[n] /\ cs[k] = a
          BY <4>1, <4>2, <1>3, <1>8
        <5> QED
          BY <5>1, <2>5, <1>6
      <4>3. CASE k # n + 1
        <5>1. k \in 2 .. n /\ cs[k] = cs0[k]
          BY <4>3, <1>3, <1>8
        <5> QED
          BY <4>1, <5>1, <1>1, <1>2 DEF Suspended
      <4> QED
        BY <4>2, <4>3
    <3> QED
      BY <3>1, <3>2, <3>3 DEF Suspended
  <2>7. s <= Len(stk)
    BY <1>3
  <2> QED
    BY <2>1, <2>4, <2>6, <2>7, <1>1, <1>2, <1>3, <1>5, <1>6, <1>8, <1>9 DEF Inside
<1> QED
  BY <1>10, <1>11

LEMMA HostCallsStep ==
    ASSUME IInv, NEW ex \in BOOLEAN, NEW target \in Targets, NEW n \in HostArgCounts,
           HostCalls(ex, target, n)
    PROVE  Stepped
<1> HIDE DEF Word, Registers, Activations
<1>p. PICK entry, stk, r, cs, s : Entering(ex, entry, stk, r, cs, s)
  BY DEF Entering
<1>2. mode = "host"
  BY DEF HostCalls, HostMayPass
<1>3. /\ Inside(stk, r, cs) /\ s \in Nat /\ s = Len(stk) /\ cs[Len(cs)].sp = s /\ Len(cs) = Len(calls) + 1
      /\ r.fb <= s /\ r.catch = 0
      /\ calls # << >> => r.queue = reg.queue
  BY <1>p, <1>2, Entered
<1>1. /\ entry = WithThis(ex, CurrentRegisters) /\ stk = stack
      /\ r = SetUp(entry) /\ cs = Append(calls, Activation(entry))
      /\ s = Len(stack)
  BY <1>p DEF Entering
<1>4. stk \in Seq(Word) /\ r \in Registers /\ n \in Nat
  BY <1>3, CountsAssumption DEF Inside
<1>5. PICK flags, m : /\ flags = [NoFlags EXCEPT !.argc = n + 1, !.pushed = TRUE, !.fromHost = TRUE]
                      /\ m = n + 2
  OBVIOUS
<1>6. flags \in AllFlags /\ flags.override = FALSE /\ flags.fromHost = TRUE /\ Operands(flags) = m /\ m \in Nat
  <2>1. PICK k : k = n + 1
    OBVIOUS
  <2>2. k \in Nat
    BY <2>1, <1>4
  <2>3. flags = [NoFlags EXCEPT !.argc = k, !.pushed = TRUE, !.fromHost = TRUE]
    BY <2>1, <1>5
  <2>4. flags \in AllFlags /\ flags.override = FALSE /\ flags.fromHost = TRUE /\ flags.argc = k /\ flags.pushed = TRUE
    BY <2>2, <2>3 DEF AllFlags, NoFlags
  <2>5. Operands(flags) = k + 1
    BY <2>4 DEF Operands
  <2> QED
    BY <2>1, <2>4, <2>5, <1>4, <1>5
<1>7. PICK stk2 : stk2 = stk \o Values(m)
  OBVIOUS
<1>8. /\ stk2 \in Seq(Word) /\ Len(stk2) = s + m /\ \A p \in 1 .. s : stk2[p] = stk[p]
      /\ OnlyOperands(stk2, s, s + m)
  BY <1>3, <1>4, <1>6, <1>7, OperandsPushed
<1>9. Fine(stk, r, cs)
  <2>1. CASE HasSpace(stk, m)
    <3>1. SubCall(stk2, r, cs, flags, target)
      BY <1>1, <1>5, <1>7, <2>1 DEF HostCalls
    <3>2. Inside(stk2, r, cs)
      <4>1. s <= Len(stk2)
        BY <1>3, <1>6, <1>8
      <4> QED
        BY <4>1, <1>3, <1>4, <1>8, InsideSame
    <3>3. Ready(stk2, cs[Len(cs)].sp, r, flags, Len(stk2))
      <4>1. (s + m) - Operands(flags) = s
        BY <1>3, <1>6
      <4>2. Ready(stk2, s, r, flags, s + m)
        BY <4>1, <1>3, <1>6, <1>8 DEF Ready
      <4> QED
        BY <4>2, <1>3, <1>8
    <3>4. Fine(stk2, r, cs)
      BY <3>1, <3>2, <3>3, <1>6, SubCallFine
    <3>5. r.queue = r.queue /\ Len(cs) = Len(cs) /\ \A p \in 1 .. s : stk2[p] = stk[p]
      BY <1>8
    <3> QED
      BY <3>4, <3>5, <1>3, FineSame
  <2>2. CASE ~ HasSpace(stk, m)
    <3>1. PICK e : e = "error"
      OBVIOUS
    <3>2. SubExit(stk, r, cs, e) /\ e # "success"
      BY <3>1, <1>1, <1>5, <2>2 DEF HostCalls
    <3> QED
      BY <3>2, <1>3, ExitFine
  <2> QED
    BY <2>1, <2>2
<1>10. IInv' /\ Kept(stk, s) /\ Queued(r, cs)
  BY <1>3, <1>9 DEF Fine
<1>11. ASSUME calls # << >>, allocated'
       PROVE  Len(stack') >= TopCall.sp /\ SubSeq(stack', 1, TopCall.sp) = SubSeq(stack, 1, TopCall.sp)
  <2>1. PICK r0, cs0, v : r0 = reg /\ cs0 = calls /\ v = TopCall.sp
    OBVIOUS
  <2>2. Inside(stk, r0, cs0) /\ v < s /\ cs0[Len(cs0)].sp = v
    BY <2>1, <1>1, <1>11, InsideNow
  <2>3. v \in Nat
    BY <2>1, <2>2, <1>11, TopShape DEF Inside
  <2>4. PICK stk3 : stk3 = stack'
    OBVIOUS
  <2>5. stk3 \in Seq(Word)
    BY <2>4, <1>10 DEF IInv, Shapes
  <2>6. s <= Len(stk3) /\ \A p \in 1 .. s : stk3[p] = stk[p]
    BY <2>4, <1>10, <1>11 DEF Kept
  <2>7. Len(stk3) \in Nat /\ v <= s /\ v <= Len(stk3) /\ v <= Len(stk) /\ \A p \in 1 .. v : p \in 1 .. s
    <3>1. Len(stk3) \in Nat
      BY <2>5, LenProperties
    <3> QED
      BY <3>1, <2>2, <2>3, <2>6, <1>3
  <2>8. \A p \in 1 .. v : stk3[p] = stk[p]
    BY <2>6, <2>7
  <2>9. SubSeq(stk3, 1, v) = SubSeq(stk, 1, v)
    BY <2>3, <2>5, <2>7, <2>8, <1>4, SamePrefix
  <2> QED
    BY <2>1, <2>3, <2>4, <2>7, <2>9, <1>1
<1>12. calls = << >> => reg.queue = 0
  BY DEF IInv, Consistent
<1>13. Len(calls) \in Nat /\ (calls # << >> => Len(cs) # 1) /\ reg.queue \in Nat /\ reg'.queue \in Nat
  <2>1. calls \in Seq(Activations) /\ reg \in Registers /\ reg' \in Registers
    BY <1>10 DEF IInv, Shapes
  <2>2. Len(calls) \in Nat /\ (calls # << >> => Len(calls) # 0)
    BY <2>1, LenProperties, EmptySeq
  <2>3. reg.queue \in Nat /\ reg'.queue \in Nat
    BY <2>1 DEF Registers
  <2> QED
    BY <2>2, <2>3, <1>3
<1>14. ~ (allocated' /\ reg'.queue < reg.queue)
  <2>1. CASE calls = << >>
    BY <2>1, <1>12, <1>13
  <2>2. CASE calls # << >>
    <3>1. allocated' => reg'.queue = r.queue
      BY <2>2, <1>10, <1>13 DEF Queued
    <3> QED
      BY <3>1, <2>2, <1>3, <1>13
  <2> QED
    BY <2>1, <2>2
<1>15. calls' = << >> /\ outcome'.err = "success" => reg.queue = 0
  BY <1>3, <1>10, <1>12 DEF Queued
<1> QED
  BY <1>10, <1>11, <1>14, <1>15 DEF Stepped

-----------------------------------------------------------------------------
(* The early returns, and the whole next-state relation.                   *)

(* What the early return of a nested mvm_call leaves of the registers r.   *)
LeavesCaller(r2, r) ==
    /\ r2 \in Registers
    /\ r2.fb = r.fb /\ r2.pc = r.pc /\ r2.queue = r.queue /\ r2.catch \in {r.catch, 0}
    /\ [r2.flags EXCEPT !.override = FALSE] = [r.flags EXCEPT !.override = FALSE]

(* A step that leaves the stack and the activations alone, and the         *)
(* registers, too, unless no activation uses them or a host function does. *)
LEMMA StackStays ==
    ASSUME IInv, UNCHANGED <<stack, calls, mode>>, allocated => allocated',
           \/ reg' = reg
           \/ calls = << >> /\ reg' \in Registers /\ reg'.fb = 0 /\ reg'.catch = 0 /\ reg'.queue = 0
           \/ mode = "host" /\ calls # << >> /\ LeavesCaller(reg', reg)
    PROVE  Stepped
<1> HIDE DEF Word, Registers, Activations
<1>1. stack' = stack /\ calls' = calls /\ mode' = mode
  OBVIOUS
<1>2. TopCall' = TopCall
  BY <1>1 DEF TopCall
<1>3. Shapes'
  BY <1>1 DEF IInv, Shapes, LeavesCaller
<1>4. Allocated'
  BY <1>1 DEF IInv, Allocated
<1>5. Consistent'
  <2>1. Suspended(stack', calls')
    BY <1>1 DEF IInv, Consistent
  <2>2. CASE calls = << >>
    <3>1. calls' = << >> /\ mode' = "host" /\ stack' = << >>
      BY <1>1, <2>2 DEF IInv, Consistent
    <3>2. reg'.fb = 0 /\ reg'.catch = 0 /\ reg'.queue = 0
      BY <2>2 DEF IInv, Consistent
    <3> QED
      BY <2>1, <3>1, <3>2 DEF Consistent
  <2>3. CASE calls # << >>
    <3>1. reg' = reg \/ (mode = "host" /\ LeavesCaller(reg', reg))
      BY <2>3
    <3>2. mode = "js" => JSState(stack', TopCall'.sp, reg', Len(stack'))
      BY <1>1, <1>2, <2>3, <3>1 DEF IInv, Consistent
    <3>3. ASSUME mode # "js" PROVE HostState(stack', TopCall', reg', Len(stack'))
      <4>1. CASE reg' = reg
        BY <1>1, <1>2, <2>3, <3>3, <4>1 DEF IInv, Consistent
      <4>2. CASE LeavesCaller(reg', reg)
        <5>1. PICK stk, r, r2, a, t : /\ stk = stack /\ r = reg /\ r2 = reg'
                                      /\ a = TopCall /\ t = Len(stk)
          OBVIOUS
        <5>2. /\ stk \in Seq(Word) /\ r \in Registers /\ a \in Activations /\ t \in Nat /\ t <= Len(stk)
              /\ HostState(stk, a, r, t)
          <6>1. PICK cs : cs = calls
            OBVIOUS
          <6>2. Inside(stk, r, cs) /\ a = cs[Len(cs)] /\ HostState(stk, a, r, t)
            BY <2>3, <3>3, <5>1, <6>1, InsideNow
          <6> QED
            BY <2>3, <5>1, <6>1, <6>2, TopShape, LenProperties DEF Inside
        <5>3. LeavesCaller(r2, r)
          BY <4>2, <5>1
        <5>4. HostState(stk, a, r2, t)
          BY <5>2, <5>3, HostStateSame DEF LeavesCaller
        <5> QED
          BY <1>1, <1>2, <5>1, <5>4
      <4> QED
        BY <3>1, <3>3, <4>1, <4>2
    <3> QED
      BY <1>1, <2>1, <2>3, <3>2, <3>3 DEF Consistent
  <2> QED
    BY <2>2, <2>3
<1>6. calls # << >> => Len(stack) >= TopCall.sp
  <2>1. PICK stk, r, cs : stk = stack /\ r = reg /\ cs = calls
    OBVIOUS
  <2>2. ASSUME cs # << >> PROVE Len(stk) >= cs[Len(cs)].sp /\ TopCall = cs[Len(cs)]
    <3>1. Inside(stk, r, cs) /\ cs[Len(cs)].sp < Len(stk) /\ TopCall = cs[Len(cs)]
      BY <2>1, <2>2, InsideNow
    <3>2. cs[Len(cs)].sp \in Nat /\ Len(stk) \in Nat
      BY <2>2, <3>1, TopShape, LenProperties DEF Inside
    <3> QED
      BY <3>1, <3>2
  <2> QED
    BY <2>1, <2>2
<1>7. calls = << >> => reg.queue = 0
  BY DEF IInv, Consistent
<1>8. ~ (reg'.queue < reg.queue)
  <2>1. reg'.queue = reg.queue
    BY <1>7 DEF LeavesCaller
  <2>2. reg.queue \in Nat
    BY DEF IInv, Shapes, Registers
  <2> QED
    BY <2>1, <2>2
<1> QED
  BY <1>1, <1>3, <1>4, <1>5, <1>6, <1>7, <1>8 DEF IInv, Stepped

(* A mvm_call that returns early clears the catch register, and mvm_callEx *)
(* leaves its flag.                                                        *)
LEMMA EarlyReturn ==
    ASSUME NEW r \in Registers, NEW ex \in BOOLEAN, NEW r2, r2 = [WithThis(ex, r) EXCEPT !.catch = 0]
    PROVE  LeavesCaller(r2, r) /\ r2.catch = 0
<1>1. PICK e : e = WithThis(ex, r)
  OBVIOUS
<1>2. /\ e \in Registers /\ e.fb = r.fb /\ e.pc = r.pc /\ e.queue = r.queue
      /\ [e.flags EXCEPT !.override = FALSE] = [r.flags EXCEPT !.override = FALSE]
  BY <1>1, EntryShape
<1>3. r2 = [e EXCEPT !.catch = 0]
  BY <1>1
<1>4. /\ r2 \in Registers /\ r2.fb = e.fb /\ r2.pc = e.pc /\ r2.queue = e.queue
      /\ r2.catch = 0 /\ r2.flags = e.flags
  <2>1. PICK d : d = [e EXCEPT !.catch = 0]
    OBVIOUS
  <2>2. /\ d \in Registers /\ d.fb = e.fb /\ d.pc = e.pc /\ d.queue = e.queue
        /\ d.catch = 0 /\ d.flags = e.flags
    <3>1. e \in Registers /\ 0 \in Nat
      BY <1>2
    <3> QED
      BY <2>1, <3>1 DEF Registers
  <2> QED
    BY <2>1, <2>2, <1>3
<1>5. PICK f : f = r2.flags
  OBVIOUS
<1>6. [f EXCEPT !.override = FALSE] = [r.flags EXCEPT !.override = FALSE]
  BY <1>2, <1>4, <1>5
<1> HIDE DEF Registers
<1> QED
  BY <1>2, <1>4, <1>5, <1>6 DEF LeavesCaller

LEMMA HostPassesTooManyStep ==
    ASSUME IInv, NEW ex \in BOOLEAN, NEW n \in HostArgCounts, HostPassesTooMany(ex, n)
    PROVE  Stepped
<1> HIDE DEF Word, Registers, Activations
<1>1. PICK r, r2 : r = CurrentRegisters /\ r2 = [WithThis(ex, r) EXCEPT !.catch = 0]
  OBVIOUS
<1>2. reg' = r2 /\ UNCHANGED <<stack, calls, mode>> /\ allocated' /\ mode = "host"
  BY <1>1 DEF HostPassesTooMany, HostMayPass
<1>3. /\ r \in Registers /\ (calls # << >> => r = reg)
      /\ (calls = << >> => r.fb = 0 /\ r.queue = 0)
  <2>1. reg \in Registers /\ (calls = << >> => reg.fb = 0 /\ reg.queue = 0)
    BY DEF IInv, Shapes, Consistent
  <2>2. FreshRegisters \in Registers /\ FreshRegisters.fb = 0 /\ FreshRegisters.queue = 0
    BY FreshShape DEF FreshRegisters
  <2>3. calls # << >> => allocated
    BY DEF IInv, Allocated
  <2> QED
    BY <1>1, <2>1, <2>2, <2>3 DEF CurrentRegisters
<1>4. LeavesCaller(r2, r) /\ r2.catch = 0
  BY <1>1, <1>3, EarlyReturn
<1>5. CASE calls = << >>
  <2>1. reg' \in Registers /\ reg'.fb = 0 /\ reg'.catch = 0 /\ reg'.queue = 0
    BY <1>2, <1>3, <1>4, <1>5 DEF LeavesCaller
  <2> QED
    BY <2>1, <1>2, <1>5, StackStays
<1>6. CASE calls # << >>
  <2>1. LeavesCaller(reg', reg)
    BY <1>2, <1>3, <1>4, <1>6
  <2> QED
    BY <2>1, <1>2, <1>6, StackStays
<1> QED
  BY <1>5, <1>6

LEMMA HostCallsExWithoutSpaceStep ==
    ASSUME IInv, NEW n \in HostArgCounts, HostCallsExWithoutSpace(n)
    PROVE  Stepped
<1> HIDE DEF Word, Registers, Activations
<1>1. CASE allocated
  BY <1>1, StackStays DEF HostCallsExWithoutSpace, CurrentRegisters
<1>2. CASE ~ allocated
  <2>1. calls = << >> /\ reg' = FreshRegisters
    BY <1>2 DEF IInv, Allocated, HostCallsExWithoutSpace, CurrentRegisters
  <2>2. reg' \in Registers /\ reg'.fb = 0 /\ reg'.catch = 0 /\ reg'.queue = 0
    BY <2>1, FreshShape DEF FreshRegisters
  <2> QED
    BY <2>1, <2>2, StackStays DEF HostCallsExWithoutSpace
<1> QED
  BY <1>1, <1>2

LEMMA InitEstablishes == Init => IInv
<1> SUFFICES ASSUME Init PROVE IInv
  OBVIOUS
<1> HIDE DEF Word, Registers, Activations
<1>1. stack = << >> /\ calls = << >> /\ reg = FreshRegisters /\ mode = "host"
  BY DEF Init
<1>2. Shapes
  <2>1. << >> \in Seq(Word) /\ << >> \in Seq(Activations)
    BY EmptySeq
  <2> QED
    BY <1>1, <2>1, FreshShape DEF Shapes
<1>3. Suspended(<< >>, << >>)
  <2>1. DOMAIN << >> = {} /\ 2 .. Len(<< >>) = {}
    OBVIOUS
  <2> QED
    BY <2>1 DEF Suspended
<1>4. Consistent
  <2>1. reg.fb = 0 /\ reg.catch = 0 /\ reg.queue = 0
    BY <1>1 DEF FreshRegisters
  <2> QED
    BY <1>1, <1>3, <2>1 DEF Consistent
<1> QED
  BY <1>1, <1>2, <1>4 DEF IInv, Allocated

LEMMA NextPreserves ==
    ASSUME IInv, [Next]_vars
    PROVE  Stepped
<1>1. ASSUME NEW ex \in BOOLEAN, NEW t \in Targets, NEW n \in HostArgCounts, HostCalls(ex, t, n)
      PROVE  Stepped
  BY <1>1, HostCallsStep
<1>2. ASSUME NEW ex \in BOOLEAN, NEW n \in HostArgCounts, HostPassesTooMany(ex, n) PROVE Stepped
  BY <1>2, HostPassesTooManyStep
<1>3. ASSUME NEW n \in HostArgCounts, HostCallsExWithoutSpace(n) PROVE Stepped
  BY <1>3, HostCallsExWithoutSpaceStep
<1>4. CASE HostReturns
  BY <1>4, HostReturnsStep
<1>5. CASE HostThrows
  BY <1>5, HostThrowsStep
<1>6. CASE HostFails
  BY <1>6, HostFailsStep
<1>7. ASSUME NEW h \in Handlers, StartTry(h) PROVE Stepped
  BY <1>7, StartTryStep
<1>8. CASE EndTry
  BY <1>8, EndTryStep
<1>9. ASSUME NEW k \in {"normal", "void", "static"}, NEW t \in Targets, NEW n \in ArgCounts,
             JSCalls(k, t, n)
      PROVE  Stepped
  BY <1>9, JSCallsStep
<1>10. CASE Return
  BY <1>10, ReturnStep
<1>11. CASE Throw
  BY <1>11, ThrowStep
<1>12. CASE Fail
  BY <1>12, FailStep
<1>13. CASE EnqueueJob
  BY <1>13, EnqueueJobStep
<1>14. CASE UNCHANGED vars
  BY <1>14, StackStays DEF vars
<1> QED
  BY <1>1, <1>2, <1>3, <1>4, <1>5, <1>6, <1>7, <1>8, <1>9, <1>10, <1>11, <1>12, <1>13, <1>14 DEF Next

-----------------------------------------------------------------------------
(* The theorems.                                                           *)

(* IInv is an invariant: at any time the words of the stack are frames,    *)
(* catch targets and operands that fit the registers, one activation of    *)
(* mvm_call above the other.                                               *)
THEOREM InvariantHolds == Spec => []IInv
<1>1. Init => IInv
  BY InitEstablishes
<1>2. IInv /\ [Next]_vars => IInv'
  BY NextPreserves DEF Stepped
<1> QED
  BY <1>1, <1>2, PTL DEF Spec

(* A host function finds the stack pointer, the frame, the code and the    *)
(* catch target of its caller in place after any calls into the VM, those  *)
(* that fail and those that throw as well.                                 *)
THEOREM HostFunctionsKeepFrames == Spec => []HostKeepsFrame
<1>1. IInv => HostKeepsFrame
  BY DEF IInv, Consistent, HostState, HostKeepsFrame, InHostFunction
<1> QED
  BY <1>1, InvariantHolds, PTL

(* The room of JS code, its operands included, ends within the stack.      *)
LEMMA RoomIsInStack ==
    ASSUME NEW b \in Nat, NEW pc, NEW t \in Int, RoomFor(b, pc, t - b)
    PROVE  t + Temporaries <= StackWords
BY StackAssumption DEF RoomFor, Temporaries

LEMMA MaxOfTwo ==
    ASSUME NEW x \in Int, NEW y \in Int
    PROVE  Max({x, y}) \in {x, y}
<1>1. \E z \in {x, y} : \A w \in {x, y} : z >= w
  <2>1. x >= y \/ y >= x
    OBVIOUS
  <2> QED
    BY <2>1
<1> QED
  BY <1>1 DEF Max

(* JS code, and the host functions that it calls, stay within the stack.   *)
(* The slot for a host function's result is pushed without a check: it     *)
(* fits the slack that the last call of a bytecode function asked for.     *)
THEOREM SlackIsEnough == Spec => []NoStackOverflowInJS
<1>1. ASSUME IInv PROVE NoStackOverflowInJS
  <2>1. PICK t, b : t = Len(stack) /\ b = reg.fb
    OBVIOUS
  <2>2. t \in Nat /\ b \in Nat
    <3>1. stack \in Seq(Word) /\ reg \in Registers
      BY <1>1 DEF IInv, Shapes
    <3> HIDE DEF Word
    <3> QED
      BY <2>1, <3>1, LenProperties DEF Registers
  <2>3. ASSUME mode = "js" PROVE t + 1 <= StackWords /\ b + AwaitWords <= StackWords
    <3>1. RoomFor(b, reg.pc, t - b - 1)
      BY <1>1, <2>1, <2>3 DEF IInv, Consistent, JSState
    <3>2. PICK u : u = t - 1
      OBVIOUS
    <3>3. u \in Int /\ u - b = t - b - 1
      BY <2>2, <3>2
    <3>4. u + Temporaries <= StackWords
      BY <2>2, <3>1, <3>3, RoomIsInStack
    <3>5. b + Temporaries <= StackWords
      <4>1. PICK w : w = FrameWords[FunctionOf(reg.pc)]
        OBVIOUS
      <4>2. w \in Nat /\ b + w + Temporaries <= StackWords
        BY <3>1, <4>1, StackAssumption DEF RoomFor
      <4> QED
        BY <2>2, <4>2, StackAssumption DEF Temporaries
    <3> QED
      BY <2>2, <3>2, <3>4, <3>5, StackAssumption DEF Temporaries, AwaitWords
  <2>4. ASSUME InHostFunction, ~ TopCall.host.flags.fromHost PROVE t + 1 <= StackWords
    <3>1. HostState(stack, TopCall, reg, t)
      BY <1>1, <2>1, <2>4 DEF IInv, Consistent, InHostFunction
    <3>2. PICK r : r = CallerOf(TopCall, reg)
      OBVIOUS
    <3>3. PICK u : u = t - 1
      OBVIOUS
    <3>4. Ready(stack, TopCall.sp, r, TopCall.host.flags, u)
      BY <3>1, <3>2, <3>3 DEF HostState
    <3>5. r.fb = b
      BY <1>1, <2>1, <3>2 DEF IInv, Shapes, Registers, CallerOf
    <3>6. RoomFor(b, r.pc, u - b)
      BY <2>4, <3>4, <3>5 DEF Ready
    <3>7. u \in Int
      BY <2>2, <3>3
    <3>8. u + Temporaries <= StackWords
      BY <2>2, <3>6, <3>7, RoomIsInStack
    <3> QED
      BY <2>2, <3>3, <3>8, StackAssumption DEF Temporaries
  <2>5. WordsInUse = t + 1 \/ (mode = "js" /\ WordsInUse = Max({t + 1, b + AwaitWords}))
    BY <2>1 DEF WordsInUse
  <2>6. Max({t + 1, b + AwaitWords}) \in {t + 1, b + AwaitWords}
    <3>1. t + 1 \in Int /\ b + AwaitWords \in Int
      BY <2>2 DEF AwaitWords
    <3> QED
      BY <3>1, MaxOfTwo
  <2> QED
    BY <2>3, <2>4, <2>5, <2>6 DEF NoStackOverflowInJS, InHostFunction
<1> QED
  BY <1>1, InvariantHolds, PTL

(* An exception, a return or an error unwinds no word that was on the      *)
(* stack before the innermost activation of mvm_call.                      *)
THEOREM ActivationsKeepOlderWords == Spec => OnlyOwnFrames
<1>1. IInv /\ [Next]_vars
      => [calls # << >> /\ allocated' =>
            /\ Len(stack') >= TopCall.sp
            /\ SubSeq(stack', 1, TopCall.sp) = SubSeq(stack, 1, TopCall.sp)]_vars
  BY NextPreserves DEF Stepped
<1> QED
  BY <1>1, InvariantHolds, PTL DEF Spec, OnlyOwnFrames

(* A job is taken from the queue only to run as the first code on an empty *)
(* stack, in the outermost activation.                                     *)
THEOREM JobsWaitForIdle == Spec => JobsOnlyWhenIdle
<1>1. IInv /\ [Next]_vars
      => [allocated' /\ reg'.queue < reg.queue =>
            /\ Len(calls) = 1 /\ Len(calls') = 1
            /\ mode' = "js" /\ Len(stack') = BoundaryWords]_vars
  BY NextPreserves DEF Stepped
<1> QED
  BY <1>1, InvariantHolds, PTL DEF Spec, JobsOnlyWhenIdle

(* The outermost mvm_call returns success only when no job is left.        *)
THEOREM SuccessDrainsQueue == Spec => DrainedOnSuccess
<1>1. IInv /\ [Next]_vars => [calls' = << >> /\ outcome'.err = "success" => reg.queue = 0]_vars
  BY NextPreserves DEF Stepped
<1> QED
  BY <1>1, InvariantHolds, PTL DEF Spec, DrainedOnSuccess

-----------------------------------------------------------------------------
(* The catch targets.                                                      *)

(* The recursive definition of CatchTargets has a solution: what can be    *)
(* reached along the links of the catch targets.                           *)
LEMMA TargetsUnfold ==
    \A c \in Nat : CatchTargets[c] =
        IF c = 0 THEN {}
        ELSE {c} \cup (IF OuterCatch(stack, c) \in 0 .. c - 1 THEN CatchTargets[OuterCatch(stack, c)] ELSE {})
<1> DEFINE Goes(b) == b # 0 /\ OuterCatch(stack, b) \in 0 .. b - 1
           Closed(S) == \A x \in S : Goes(x) => OuterCatch(stack, x) \in S
           Chain(b) == {x \in Nat : \A S \in SUBSET Nat : b \in S /\ Closed(S) => x \in S}
           Proper(b) == Chain(b) \ {0}
           f == [b \in Nat |-> Proper(b)]
           Eq(g) == g = [c \in Nat |->
                IF c = 0 THEN {}
                ELSE {c} \cup (IF OuterCatch(stack, c) \in 0 .. c - 1 THEN g[OuterCatch(stack, c)] ELSE {})]
<1>1. ASSUME NEW b \in Nat, ~ Goes(b) PROVE Chain(b) = {b}
  <2>1. {b} \in SUBSET Nat /\ b \in {b} /\ Closed({b})
    BY <1>1
  <2>2. \A x \in Chain(b) : x \in {b}
    BY <2>1
  <2>3. b \in Chain(b)
    OBVIOUS
  <2> QED
    BY <2>2, <2>3
<1>2. ASSUME NEW b \in Nat, Goes(b) PROVE Chain(b) = {b} \cup Chain(OuterCatch(stack, b))
  <2>d. PICK d : d = OuterCatch(stack, b)
    OBVIOUS
  <2>1. d \in Nat
    BY <1>2, <2>d
  <2>2. Chain(b) \subseteq {b} \cup Chain(d)
    <3>1. Closed({b} \cup Chain(d))
      <4>1. d \in Chain(d)
        BY <2>1
      <4>2. ASSUME NEW x \in Chain(d), Goes(x) PROVE OuterCatch(stack, x) \in Chain(d)
        <5>1. OuterCatch(stack, x) \in Nat
          BY <4>2
        <5>2. ASSUME NEW S \in SUBSET Nat, d \in S, Closed(S) PROVE OuterCatch(stack, x) \in S
          BY <4>2, <5>2
        <5> QED
          BY <5>1, <5>2
      <4> HIDE DEF Chain, Goes
      <4> QED
        BY <4>1, <4>2, <2>d
    <3>2. {b} \cup Chain(d) \in SUBSET Nat
      OBVIOUS
    <3> HIDE DEF Closed
    <3> QED
      BY <3>1, <3>2
  <2>3. Chain(d) \subseteq Chain(b)
    BY <1>2, <2>d, <2>1
  <2>4. b \in Chain(b)
    OBVIOUS
  <2> HIDE DEF Chain, Goes
  <2> QED
    BY <2>2, <2>3, <2>4, <2>d
<1>3. Eq(f)
  <2>1. ASSUME NEW c \in Nat
        PROVE  f[c] = IF c = 0 THEN {}
                      ELSE {c} \cup (IF OuterCatch(stack, c) \in 0 .. c - 1 THEN f[OuterCatch(stack, c)] ELSE {})
    <3>1. CASE c = 0
      <4>1. Chain(c) = {c}
        BY <3>1, <1>1
      <4> HIDE DEF Chain
      <4> QED
        BY <3>1, <4>1
    <3>2. CASE c # 0 /\ ~ (OuterCatch(stack, c) \in 0 .. c - 1)
      <4>1. Chain(c) = {c}
        BY <3>2, <1>1
      <4> HIDE DEF Chain
      <4> QED
        BY <3>2, <4>1
    <3>3. CASE c # 0 /\ OuterCatch(stack, c) \in 0 .. c - 1
      <4>d. PICK d : d = OuterCatch(stack, c)
        OBVIOUS
      <4>1. d \in Nat /\ Chain(c) = {c} \cup Chain(d)
        BY <3>3, <4>d, <1>2
      <4> HIDE DEF Chain
      <4>2. f[c] = {c} \cup f[d]
        BY <3>3, <4>1
      <4> HIDE DEF f
      <4> QED
        BY <3>3, <4>d, <4>2
    <3> QED
      BY <3>1, <3>2, <3>3
  <2>2. f = [b \in Nat |-> f[b]]
    OBVIOUS
  <2> HIDE DEF f
  <2> QED
    BY <2>1, <2>2
<1>4. CatchTargets = CHOOSE g : Eq(g)
  BY DEF CatchTargets
<1> HIDE DEF Eq
<1>5. Eq(CatchTargets)
  BY <1>3, <1>4
<1> QED
  BY <1>5 DEF Eq

CatchesIn(stk, s, t) == {p \in s + 1 .. t : IsCatch(stk, p)}

(* The targets linked from c are those of the activation up to c: by       *)
(* induction along the links.                                              *)
LEMMA ChainIsExact ==
    ASSUME NEW s \in Nat, NEW t \in Nat, NEW c \in Nat, Chained(stack, s, c, t)
    PROVE  /\ CatchTargets[c] = CatchesIn(stack, s, t)
           /\ \A p \in CatchesIn(stack, s, t) : OuterCatch(stack, p) \in 0 .. p - 1
<1> DEFINE Holds(b) == b = 0 \/ b \in CatchesIn(stack, s, t) => CatchTargets[b] = CatchesIn(stack, s, b)
           Bad == {b \in Nat : ~ Holds(b)}
<1>1. ASSUME NEW p \in CatchesIn(stack, s, t)
      PROVE  /\ p \in Nat /\ p # 0 /\ OuterCatch(stack, p) \in 0 .. p - 1
             /\ OuterCatch(stack, p) = 0 \/ OuterCatch(stack, p) \in CatchesIn(stack, s, t)
             /\ \A q \in s + 1 .. p - 1 : IsCatch(stack, q) => q <= OuterCatch(stack, p)
  <2>1. p \in s + 1 .. t /\ IsCatch(stack, p)
    BY <1>1 DEF CatchesIn
  <2>2. PICK d : d = OuterCatch(stack, p)
    OBVIOUS
  <2>3. /\ d = 0 \/ (d \in s + 1 .. p - 2 /\ IsCatch(stack, d))
        /\ \A q \in s + 1 .. p - 1 : IsCatch(stack, q) => q <= d
    BY <2>1, <2>2 DEF Chained
  <2>4. p \in Nat /\ p # 0 /\ d \in 0 .. p - 1 /\ (d = 0 \/ d \in CatchesIn(stack, s, t))
    BY <2>1, <2>3 DEF CatchesIn
  <2> QED
    BY <2>2, <2>3, <2>4
<1>2. Bad = {}
  <2>1. SUFFICES ASSUME Bad # {} PROVE FALSE
    OBVIOUS
  <2>2. PICK b \in Bad : \A m \in Bad : b <= m
    <3>1. Bad \subseteq Nat
      OBVIOUS
    <3> HIDE DEF Bad
    <3> QED
      BY <2>1, <3>1, LeastNatural
  <2>3. b \in Nat /\ ~ Holds(b)
    OBVIOUS
  <2>4. CASE b = 0
    <3>1. CatchTargets[b] = {}
      BY <2>3, <2>4, TargetsUnfold
    <3>2. CatchesIn(stack, s, b) = {}
      BY <2>4 DEF CatchesIn
    <3> QED
      BY <2>3, <3>1, <3>2
  <2>5. CASE b # 0
    <3>1. b \in CatchesIn(stack, s, t) /\ CatchTargets[b] # CatchesIn(stack, s, b)
      BY <2>3, <2>5
    <3>2. PICK d : d = OuterCatch(stack, b)
      OBVIOUS
    <3>3. d \in 0 .. b - 1 /\ (d = 0 \/ d \in CatchesIn(stack, s, t))
          /\ \A q \in s + 1 .. b - 1 : IsCatch(stack, q) => q <= d
      BY <3>1, <3>2, <1>1
    <3>4. d \in Nat /\ d < b
      BY <2>3, <3>3
    <3>5. CatchTargets[d] = CatchesIn(stack, s, d)
      <4>1. ~ (d \in Bad)
        BY <2>2, <2>3, <3>4
      <4> QED
        BY <3>3, <3>4, <4>1
    <3>6. CatchTargets[b] = {b} \cup CatchTargets[d]
      BY <2>3, <2>5, <3>2, <3>3, TargetsUnfold
    <3>7. CatchesIn(stack, s, b) = {b} \cup CatchesIn(stack, s, d)
      <4>1. b \in s + 1 .. t /\ IsCatch(stack, b)
        BY <3>1 DEF CatchesIn
      <4> QED
        BY <2>3, <3>3, <3>4, <4>1 DEF CatchesIn
    <3> QED
      BY <3>1, <3>5, <3>6, <3>7
  <2> QED
    BY <2>4, <2>5
<1>3. c = 0 \/ c \in CatchesIn(stack, s, t)
  BY DEF Chained, CatchesIn
<1>4. CatchTargets[c] = CatchesIn(stack, s, c)
  BY <1>2, <1>3
<1>5. CatchesIn(stack, s, c) = CatchesIn(stack, s, t)
  <2>1. \A p \in s + 1 .. t : IsCatch(stack, p) => p <= c
    BY DEF Chained
  <2>2. c = 0 \/ c <= t
    BY DEF Chained
  <2> QED
    BY <2>1, <2>2 DEF CatchesIn
<1> QED
  BY <1>1, <1>4, <1>5

(* An activation that waits in a host function: what lies above the catch  *)
(* targets of its JS code holds none.                                      *)
LEMMA WaitingChain ==
    ASSUME NEW a \in Activations, NEW r \in Registers, NEW t \in Nat, HostState(stack, a, r, t)
    PROVE  Chained(stack, a.sp, a.host.regCopy.catch, t)
<1> HIDE DEF Word, Registers
<1>1. PICK s, c, u, f, r2 : /\ s = a.sp /\ c = a.host.regCopy.catch /\ u = t - 1 /\ f = a.host.flags
                            /\ r2 = CallerOf(a, r)
  OBVIOUS
<1>2. s \in Nat /\ c \in Nat /\ u \in Int /\ f \in AllFlags /\ r2.catch = c /\ u < t /\ t = u + 1
  BY <1>1 DEF Activations, InHost, Registers, CallerOf
<1>3. ~ IsCatch(stack, t) /\ t > s /\ Ready(stack, s, r2, f, u)
  BY <1>1 DEF HostState
<1>4. PICK w : w = u - Operands(f)
  OBVIOUS
<1>5. w \in Int /\ w <= u
  BY <1>2, <1>4, FlagsShape
<1>6. \A p \in w + 1 .. t : ~ IsCatch(stack, p)
  <2>1. \A p \in w + 1 .. u : ~ IsCatch(stack, p)
    BY <1>3, <1>4 DEF Ready, OnlyOperands
  <2> QED
    BY <2>1, <1>2, <1>3, <1>5
<1>7. CASE f.fromHost
  <2>1. w = s /\ c = 0
    BY <1>2, <1>3, <1>4, <1>7 DEF Ready
  <2>2. \A p \in s + 1 .. t : ~ IsCatch(stack, p)
    BY <1>6, <2>1
  <2>3. Chained(stack, s, c, t)
    BY <2>1, <2>2 DEF Chained
  <2> QED
    BY <1>1, <2>3
<1>8. CASE ~ f.fromHost
  <2>1. Chained(stack, s, c, w)
    BY <1>2, <1>3, <1>4, <1>8 DEF Ready, JSState
  <2>2. \A p \in s + 1 .. t : IsCatch(stack, p) => p \in s + 1 .. w
    BY <1>2, <1>5, <1>6
  <2>3. c = 0 \/ c \in s + 1 .. w - 1
    BY <2>1 DEF Chained
  <2>4. c = 0 \/ c \in s + 1 .. t - 1
    BY <1>2, <1>5, <2>3
  <2>5. Chained(stack, s, c, t)
    BY <2>1, <2>2, <2>4 DEF Chained
  <2> QED
    BY <1>1, <2>5
<1> QED
  BY <1>7, <1>8

(* The part of the stack that belongs to each activation.                  *)
Below(k) == calls[k].sp
Above(k) == IF k = Len(calls) THEN Len(stack) ELSE calls[k + 1].sp

LEMMA PartIsExact ==
    ASSUME IInv, NEW k \in DOMAIN calls
    PROVE  /\ IF CatchIsLost(k) THEN CatchRegister(k) = 0
              ELSE CatchTargets[CatchRegister(k)] = CatchesIn(stack, Below(k), Above(k))
           /\ \A p \in CatchesIn(stack, Below(k), Above(k)) : OuterCatch(stack, p) \in 0 .. p - 1
           /\ Below(k) \in Nat /\ Above(k) \in Nat /\ Above(k) <= Len(stack)
<1> HIDE DEF Word, Registers, Activations
<1>1. PICK stk, cs, n, t : stk = stack /\ cs = calls /\ n = Len(cs) /\ t = Len(stk)
  OBVIOUS
<1>2. cs \in Seq(Activations) /\ stk \in Seq(Word) /\ reg \in Registers /\ n \in Nat /\ t \in Nat
  <2>1. cs \in Seq(Activations) /\ stk \in Seq(Word) /\ reg \in Registers
    BY <1>1 DEF IInv, Shapes
  <2> QED
    BY <1>1, <2>1, LenProperties
<1>3. DOMAIN cs = 1 .. n /\ cs # << >> /\ k \in 1 .. n /\ \A i \in 1 .. n : cs[i] \in Activations
  <2>1. DOMAIN cs = 1 .. n
    BY <1>1, <1>2, LenProperties
  <2>2. k \in 1 .. n
    BY <1>1, <2>1
  <2>3. cs # << >>
    BY <1>1, <1>2, <2>2, EmptySeq
  <2> QED
    BY <1>2, <2>1, <2>2, <2>3
<1>9. cs[n].sp \in Nat /\ cs[n].sp < t /\ \A i \in 1 .. n : cs[i].sp <= cs[n].sp
  <2>1. PICK r0 : r0 = reg
    OBVIOUS
  <2>2. cs[Len(cs)].sp < Len(stk) /\ Inside(stk, r0, cs)
    BY <2>1, <1>1, <1>3, InsideNow
  <2>3. Suspended(stk, cs)
    BY <2>2 DEF Inside
  <2>4. cs[Len(cs)].sp \in Nat /\ \A i \in DOMAIN cs : cs[i].sp <= cs[Len(cs)].sp
    BY <2>3, <1>2, <1>3, TopShape
  <2> QED
    BY <2>2, <2>4, <1>1, <1>3
<1>4. PICK a, r, u, c : /\ a = cs[k] /\ u = Above(k)
                        /\ r = IF k = n THEN reg ELSE cs[k + 1].entry
                        /\ c = IF HasHost(k) THEN a.host.regCopy.catch ELSE r.catch
  OBVIOUS
<1>5. a \in Activations /\ a.sp \in Nat /\ Below(k) = a.sp /\ CatchRegister(k) = r.catch
  <2>1. a \in Activations
    BY <1>3, <1>4
  <2> QED
    BY <2>1, <1>1, <1>4 DEF Activations, Below, CatchRegister
<1>6. /\ r \in Registers /\ c \in Nat /\ u \in Nat /\ u <= t /\ Chained(stk, a.sp, c, u)
      /\ r.catch \in {c, 0}
  <2>1. CASE k = n
    <3>1. r = reg /\ u = t /\ a = TopCall
      BY <1>1, <1>4, <2>1 DEF Above, TopCall
    <3>2. u <= t
      BY <1>2, <3>1
    <3>3. CASE mode = "js"
      <4>1. JSState(stk, a.sp, reg, t)
        BY <1>1, <1>3, <3>1, <3>3 DEF IInv, Consistent
      <4>2. c = reg.catch
        BY <1>1, <1>4, <2>1, <3>1, <3>3 DEF HasHost
      <4> QED
        BY <4>1, <4>2, <3>1, <3>2, <1>2 DEF JSState, Registers
    <3>4. CASE mode # "js"
      <4>1. HostState(stack, a, r, u)
        BY <1>1, <1>3, <3>1, <3>4 DEF IInv, Consistent
      <4>2. r \in Registers /\ u \in Nat
        BY <3>1, <1>2
      <4>3. c = a.host.regCopy.catch
        BY <3>4, <1>1, <1>4 DEF HasHost
      <4>4. Chained(stack, a.sp, c, u) /\ r.catch \in {c, 0}
        BY <4>1, <4>2, <4>3, <1>5, WaitingChain DEF HostState
      <4>5. c \in Nat
        BY <4>3, <1>5 DEF Activations, InHost, Registers
      <4> QED
        BY <4>2, <4>4, <4>5, <3>2, <1>1
    <3> QED
      BY <3>3, <3>4
  <2>2. CASE k # n
    <3>1. PICK j : j = k + 1
      OBVIOUS
    <3>2. j \in 2 .. n /\ j - 1 = k /\ j \in 1 .. n
      BY <1>2, <1>3, <2>2, <3>1
    <3>3. r = cs[j].entry /\ u = cs[j].sp
      BY <1>1, <1>4, <2>2, <3>1 DEF Above
    <3>4. r \in Registers /\ u \in Nat
      <4>1. cs[j] \in Activations
        BY <1>3, <3>2
      <4> QED
        BY <4>1, <3>3 DEF Activations
    <3>5. HostState(stack, a, r, u)
      <4>1. Suspended(stk, cs)
        BY <1>1 DEF IInv, Consistent
      <4>2. HostState(stk, cs[j - 1], cs[j].entry, cs[j].sp)
        BY <4>1, <3>2, <1>1 DEF Suspended
      <4> QED
        BY <4>2, <3>2, <3>3, <1>1, <1>4
    <3>6. Chained(stack, a.sp, c, u) /\ r.catch \in {c, 0} /\ c \in Nat
      <4>1. c = a.host.regCopy.catch
        BY <3>1, <3>2, <1>1, <1>2, <1>3, <1>4, <2>2 DEF HasHost
      <4>2. c \in Nat
        BY <4>1, <1>5 DEF Activations, InHost, Registers
      <4> QED
        BY <4>1, <4>2, <3>4, <3>5, <1>5, WaitingChain DEF HostState
    <3>7. u <= t
      <4>1. cs[j].sp <= cs[n].sp /\ cs[n].sp \in Nat
        BY <3>2, <1>9
      <4> QED
        BY <4>1, <3>3, <3>4, <1>2, <1>9
    <3> QED
      BY <3>4, <3>6, <3>7, <1>1
  <2> QED
    BY <2>1, <2>2
<1>7. /\ CatchTargets[c] = CatchesIn(stack, a.sp, u)
      /\ \A p \in CatchesIn(stack, a.sp, u) : OuterCatch(stack, p) \in 0 .. p - 1
  BY <1>1, <1>5, <1>6, ChainIsExact
<1>8. CatchIsLost(k) <=> r.catch # c
  BY <1>1, <1>4, <1>5 DEF CatchIsLost
<1> QED
  BY <1>1, <1>4, <1>5, <1>6, <1>7, <1>8

(* The parts of the activations make up the whole stack.                   *)
LEMMA PartsCoverStack ==
    ASSUME IInv, NEW p \in DOMAIN stack
    PROVE  \E k \in DOMAIN calls : p \in Below(k) + 1 .. Above(k)
<1> HIDE DEF Word, Registers, Activations
<1>1. PICK cs, n, t : cs = calls /\ n = Len(cs) /\ t = Len(stack)
  OBVIOUS
<1>2. cs \in Seq(Activations) /\ stack \in Seq(Word)
  BY <1>1 DEF IInv, Shapes
<1>3. n \in Nat /\ t \in Nat /\ DOMAIN cs = 1 .. n /\ p \in 1 .. t
  BY <1>1, <1>2, LenProperties
<1>4. cs # << >>
  <2>1. stack # << >>
    BY <1>1, <1>3, EmptySeq
  <2> QED
    BY <2>1, <1>1 DEF IInv, Consistent
<1>5. n \in 1 .. n
  BY <1>1, <1>2, <1>3, <1>4, EmptySeq
<1>6. cs[1].sp = 0 /\ \A k \in 1 .. n : cs[k].sp \in Nat
  <2>1. cs[1].sp = 0
    BY <1>1, <1>4 DEF IInv, Consistent, Suspended
  <2>2. \A k \in 1 .. n : cs[k] \in Activations
    BY <1>2, <1>3
  <2> QED
    BY <2>1, <2>2 DEF Activations
<1> DEFINE Higher == {j \in 1 .. n : p <= cs[j].sp}
<1>7. CASE Higher = {}
  <2>1. ~ (p <= cs[n].sp)
    BY <1>5, <1>7
  <2>2. p \in cs[n].sp + 1 .. t
    BY <2>1, <1>3, <1>5, <1>6
  <2>3. Below(n) = cs[n].sp /\ Above(n) = t
    BY <1>1 DEF Below, Above
  <2> QED
    BY <2>2, <2>3, <1>1, <1>3, <1>5
<1>8. CASE Higher # {}
  <2>1. PICK j \in Higher : \A m \in Higher : j <= m
    <3>1. Higher \subseteq Nat
      OBVIOUS
    <3> HIDE DEF Higher
    <3> QED
      BY <3>1, <1>8, LeastNatural
  <2>2. j \in 1 .. n /\ p <= cs[j].sp /\ j # 1
    BY <1>3, <1>6
  <2>3. PICK k : k = j - 1
    OBVIOUS
  <2>4. k \in 1 .. n /\ k + 1 = j /\ k # n /\ ~ (j <= k)
    BY <2>2, <2>3, <1>3
  <2>5. ~ (p <= cs[k].sp)
    BY <2>1, <2>4
  <2>6. Below(k) = cs[k].sp /\ Above(k) = cs[j].sp
    BY <2>4, <1>1 DEF Below, Above
  <2>7. p \in cs[k].sp + 1 .. cs[j].sp
    BY <2>2, <2>4, <2>5, <1>3, <1>6
  <2> QED
    BY <2>4, <2>6, <2>7, <1>1, <1>3
<1> QED
  BY <1>7, <1>8

(* The catch targets linked from the register and from the registers that  *)
(* the waiting activations will restore are those on the stack, and code   *)
(* reaches none from before its mvm_call.                                  *)
THEOREM CatchTargetsAreLinked == Spec => []CatchChainIsExact
<1>1. ASSUME IInv PROVE CatchChainIsExact
  <2> HIDE DEF Word, Registers, Activations
  <2>1. CatchTargets[0] = {}
    BY TargetsUnfold
  <2>2. \A p \in DOMAIN stack : p \in Nat
    <3>1. stack \in Seq(Word)
      BY <1>1 DEF IInv, Shapes
    <3> QED
      BY <3>1, LenProperties
  <2>3. CASE calls = << >>
    <3>1. reg.catch = 0 /\ stack = << >> /\ mode # "js"
      BY <1>1, <2>3 DEF IInv, Consistent
    <3>2. HandlerPositions = {}
      BY <2>1, <2>3, <3>1 DEF HandlerPositions
    <3>3. DOMAIN stack = {}
      BY <3>1
    <3> QED
      BY <3>1, <3>2, <3>3 DEF CatchChainIsExact
  <2>4. CASE calls # << >>
    <3>1. PICK n : n = Len(calls)
      OBVIOUS
    <3>2. calls \in Seq(Activations) /\ stack \in Seq(Word)
      BY <1>1 DEF IInv, Shapes
    <3>3. n \in 1 .. n /\ DOMAIN calls = 1 .. n /\ Len(stack) \in Nat /\ DOMAIN stack = 1 .. Len(stack) /\ n \in Nat
      BY <2>4, <3>1, <3>2, LenProperties, EmptySeq
    <3>4. ASSUME NEW k \in 1 .. n
          PROVE  /\ CatchTargets[CatchRegister(k)] \subseteq CatchesIn(stack, Below(k), Above(k))
                 /\ ~ CatchIsLost(k) => CatchTargets[CatchRegister(k)] = CatchesIn(stack, Below(k), Above(k))
                 /\ \A p \in CatchesIn(stack, Below(k), Above(k)) : OuterCatch(stack, p) \in 0 .. p - 1
                 /\ Below(k) \in Nat /\ Above(k) \in Nat /\ Above(k) <= Len(stack)
      BY <1>1, <2>1, <3>3, <3>4, PartIsExact
    <3>5. calls[1].entry.catch = 0
      BY <1>1, <2>4 DEF IInv, Consistent, Suspended
    <3>6. HandlerPositions = UNION {CatchTargets[CatchRegister(k)] : k \in 1 .. n}
      <4>1. CatchRegister(n) = reg.catch /\ \A k \in 1 .. n : k # n => CatchRegister(k) = calls[k + 1].entry.catch
        BY <3>1 DEF CatchRegister
      <4>2. ASSUME NEW k \in DOMAIN calls
            PROVE  \/ CatchTargets[calls[k].entry.catch] = {}
                   \/ \E j \in 1 .. n : CatchTargets[calls[k].entry.catch] = CatchTargets[CatchRegister(j)]
        <5>1. CASE k = 1
          BY <5>1, <2>1, <3>5
        <5>2. CASE k # 1
          <6>1. PICK j : j = k - 1
            OBVIOUS
          <6>2. j \in 1 .. n /\ j # n /\ j + 1 = k
            BY <3>3, <5>2, <6>1
          <6> QED
            BY <4>1, <6>2
        <5> QED
          BY <5>1, <5>2
      <4>3. ASSUME NEW j \in 1 .. n
            PROVE  \/ CatchTargets[CatchRegister(j)] = CatchTargets[reg.catch]
                   \/ \E k \in DOMAIN calls : CatchTargets[CatchRegister(j)] = CatchTargets[calls[k].entry.catch]
        <5>1. CASE j = n
          BY <4>1, <5>1
        <5>2. CASE j # n
          <6>1. j + 1 \in DOMAIN calls
            BY <3>3, <5>2
          <6> QED
            BY <4>1, <5>2, <6>1
        <5> QED
          BY <5>1, <5>2
      <4>4. HandlerPositions \subseteq UNION {CatchTargets[CatchRegister(k)] : k \in 1 .. n}
        BY <3>3, <4>1, <4>2 DEF HandlerPositions
      <4>5. UNION {CatchTargets[CatchRegister(k)] : k \in 1 .. n} \subseteq HandlerPositions
        BY <4>3 DEF HandlerPositions
      <4> QED
        BY <4>4, <4>5
    <3>7. ASSUME NEW p \in HandlerPositions
          PROVE  p \in DOMAIN stack /\ IsCatch(stack, p) /\ OuterCatch(stack, p) \in 0 .. p - 1
      <4>1. PICK k \in 1 .. n : p \in CatchesIn(stack, Below(k), Above(k))
        BY <3>4, <3>6
      <4>2. p \in Below(k) + 1 .. Above(k) /\ IsCatch(stack, p)
        BY <4>1 DEF CatchesIn
      <4>3. p \in 1 .. Len(stack)
        BY <3>3, <3>4, <4>2
      <4> QED
        BY <3>3, <3>4, <4>1, <4>2, <4>3
    <3>8. ASSUME NEW p \in DOMAIN stack, IsCatch(stack, p), \A k \in DOMAIN calls : ~ CatchIsLost(k)
          PROVE  p \in HandlerPositions
      <4>1. PICK k \in DOMAIN calls : p \in Below(k) + 1 .. Above(k)
        BY <1>1, PartsCoverStack
      <4>2. p \in CatchesIn(stack, Below(k), Above(k))
        BY <3>8, <4>1 DEF CatchesIn
      <4>3. p \in CatchTargets[CatchRegister(k)] /\ k \in 1 .. n
        BY <3>3, <3>4, <3>8, <4>2
      <4> QED
        BY <3>6, <4>3
    <3>9. \A p \in CatchTargets[reg.catch] : p > TopCall.sp
      <4>1. CatchRegister(n) = reg.catch /\ Below(n) = TopCall.sp
        BY <3>1 DEF CatchRegister, Below, TopCall
      <4>2. CatchTargets[reg.catch] \subseteq CatchesIn(stack, TopCall.sp, Above(n)) /\ TopCall.sp \in Nat /\ Above(n) \in Nat
        BY <3>3, <3>4, <4>1
      <4> QED
        BY <4>2 DEF CatchesIn
    <3> QED
      BY <3>7, <3>8, <3>9 DEF CatchChainIsExact, IsCatch
  <2> QED
    BY <2>3, <2>4
<1> QED
  BY <1>1, InvariantHolds, PTL

-----------------------------------------------------------------------------
(* The control state that the words of the stack stand for, and why the    *)
(* machine implements CallSpec.                                            *)

(* A position that stands for an item of the control state, and the item.  *)
IsHost(cs, p) == \E k \in DOMAIN cs : cs[k].sp = p
IsMark(stk, cs, p) == IF p = 0 THEN cs # << >> ELSE IsReturn(stk, p) \/ IsCatch(stk, p) \/ IsHost(cs, p)
Marks(stk, cs, t) == {p \in 0 .. t : IsMark(stk, cs, p)}
Marked(stk, pc, p) ==
    IF p = 0 THEN Host
    ELSE IF IsReturn(stk, p) THEN Item("js", CodeOf(stk, pc, p))
    ELSE IF IsCatch(stk, p) THEN Item("try", stk[p + 1][2])
    ELSE Host
AllMarked(stk, pc) == {Marked(stk, pc, p) : p \in Nat}

(* The items up to the position p, given those of the position below.      *)
Extended(stk, pc, cs, p, lower) ==
    IF p = 0 THEN IF cs = << >> THEN << >> ELSE <<Host>>
    ELSE IF IsMark(stk, cs, p) THEN Append(lower, Marked(stk, pc, p)) ELSE lower

(* The items c of the positions up to t are at the positions s.            *)
Reads(c, s, stk, pc, cs, t) ==
    /\ s \in Seq(Nat) /\ c \in Seq(AllMarked(stk, pc)) /\ Len(c) = Len(s)
    /\ \A i, j \in 1 .. Len(s) : i < j => s[i] < s[j]
    /\ \A i \in 1 .. Len(s) : s[i] \in Marks(stk, cs, t) /\ c[i] = Marked(stk, pc, s[i])
    /\ \A p \in Marks(stk, cs, t) : \E i \in 1 .. Len(s) : s[i] = p

LEMMA ItemShape ==
    ASSUME NEW k, NEW a
    PROVE  Item(k, a).kind = k /\ Item(k, a).at = a
BY DEF Item

(* One more position.                                                      *)
LEMMA ReadsMore ==
    ASSUME NEW stk, NEW pc, NEW cs, NEW t \in Nat, t # 0, NEW c, NEW s, Reads(c, s, stk, pc, cs, t - 1)
    PROVE  \E s2 : Reads(Extended(stk, pc, cs, t, c), s2, stk, pc, cs, t)
<1> DEFINE S == AllMarked(stk, pc)
<1>1. /\ s \in Seq(Nat) /\ c \in Seq(S) /\ Len(c) = Len(s)
      /\ \A i, j \in 1 .. Len(s) : i < j => s[i] < s[j]
      /\ \A i \in 1 .. Len(s) : s[i] \in Marks(stk, cs, t - 1) /\ c[i] = Marked(stk, pc, s[i])
      /\ \A p \in Marks(stk, cs, t - 1) : \E i \in 1 .. Len(s) : s[i] = p
  BY DEF Reads
<1>2. \A p : p \in Marks(stk, cs, t) <=> p \in Marks(stk, cs, t - 1) \/ (p = t /\ IsMark(stk, cs, t))
  <2>1. \A p : p \in 0 .. t <=> p \in 0 .. t - 1 \/ p = t
    OBVIOUS
  <2> QED
    BY <2>1 DEF Marks
<1>3. CASE ~ IsMark(stk, cs, t)
  <2>1. Extended(stk, pc, cs, t, c) = c
    BY <1>3 DEF Extended
  <2>2. Marks(stk, cs, t) = Marks(stk, cs, t - 1)
    BY <1>2, <1>3
  <2>3. Reads(c, s, stk, pc, cs, t)
    BY <2>2 DEF Reads
  <2> QED
    BY <2>1, <2>3
<1>4. CASE IsMark(stk, cs, t)
  <2>1. PICK m, c2, s2, x : /\ m = Len(s) /\ x = Marked(stk, pc, t) /\ c2 = Append(c, x) /\ s2 = Append(s, t)
    OBVIOUS
  <2>2. Extended(stk, pc, cs, t, c) = c2
    BY <2>1, <1>4 DEF Extended
  <2>3. m \in Nat /\ x \in S
    BY <2>1, <1>1, LenProperties DEF AllMarked
  <2> HIDE DEF S
  <2>4. /\ c2 \in Seq(S) /\ Len(c2) = m + 1 /\ c2[m + 1] = x /\ \A i \in 1 .. m : c2[i] = c[i]
        /\ s2 \in Seq(Nat) /\ Len(s2) = m + 1 /\ s2[m + 1] = t /\ \A i \in 1 .. m : s2[i] = s[i]
    BY <2>1, <2>3, <1>1, AppendProperties
  <2>5. \A i \in 1 .. m + 1 : i \in 1 .. m \/ i = m + 1
    BY <2>3
  <2>6. \A i \in 1 .. m : s[i] \in Nat /\ s[i] < t /\ i \in 1 .. m + 1
    <3>1. ASSUME NEW i \in 1 .. m PROVE s[i] \in Nat /\ s[i] < t /\ i \in 1 .. m + 1
      <4>1. s[i] \in 0 .. t - 1
        BY <2>1, <1>1 DEF Marks
      <4> QED
        BY <4>1, <2>3
    <3> QED
      BY <3>1
  <2>7. ASSUME NEW i \in 1 .. m + 1, NEW j \in 1 .. m + 1, i < j PROVE s2[i] < s2[j]
    <3>1. i \in 1 .. m
      BY <2>3, <2>7
    <3>2. CASE j \in 1 .. m
      BY <3>1, <3>2, <2>1, <2>4, <2>7, <1>1
    <3>3. CASE j = m + 1
      BY <3>1, <3>3, <2>4, <2>6
    <3> QED
      BY <3>2, <3>3, <2>5
  <2>8. ASSUME NEW i \in 1 .. m + 1 PROVE s2[i] \in Marks(stk, cs, t) /\ c2[i] = Marked(stk, pc, s2[i])
    <3>1. CASE i \in 1 .. m
      BY <3>1, <2>1, <2>4, <1>1, <1>2
    <3>2. CASE i = m + 1
      BY <3>2, <2>1, <2>4, <1>2, <1>4
    <3> QED
      BY <3>1, <3>2, <2>5
  <2>9. ASSUME NEW p \in Marks(stk, cs, t) PROVE \E i \in 1 .. m + 1 : s2[i] = p
    <3>1. CASE p = t
      <4>1. m + 1 \in 1 .. m + 1
        BY <2>3
      <4> QED
        BY <3>1, <4>1, <2>4
    <3>2. CASE p \in Marks(stk, cs, t - 1)
      <4>1. PICK i \in 1 .. m : s[i] = p
        BY <3>2, <2>1, <1>1
      <4> QED
        BY <4>1, <2>4, <2>6
    <3> QED
      BY <3>1, <3>2, <1>2
  <2>10. Reads(c2, s2, stk, pc, cs, t)
    <3> USE DEF S
    <3> QED
      BY <2>4, <2>7, <2>8, <2>9 DEF Reads
  <2> QED
    BY <2>2, <2>10
<1> QED
  BY <1>3, <1>4

LEMMA ReadsNone ==
    ASSUME NEW stk, NEW pc, NEW cs, NEW lower
    PROVE  \E s : Reads(Extended(stk, pc, cs, 0, lower), s, stk, pc, cs, 0)
<1> DEFINE S == AllMarked(stk, pc)
<1>1. \A p : p \in Marks(stk, cs, 0) <=> p = 0 /\ cs # << >>
  <2>1. \A p : p \in 0 .. 0 <=> p = 0
    OBVIOUS
  <2> QED
    BY <2>1 DEF Marks, IsMark
<1>2. CASE cs = << >>
  <2>1. Extended(stk, pc, cs, 0, lower) = << >>
    BY <1>2 DEF Extended
  <2>2. << >> \in Seq(Nat) /\ << >> \in Seq(S) /\ Len(<< >>) = 0 /\ 1 .. 0 = {}
    BY EmptySeq
  <2>3. Reads(<< >>, << >>, stk, pc, cs, 0)
    BY <2>2, <1>1, <1>2 DEF Reads
  <2> QED
    BY <2>1, <2>3
<1>3. CASE cs # << >>
  <2>1. Extended(stk, pc, cs, 0, lower) = <<Host>>
    BY <1>3 DEF Extended
  <2>2. Marked(stk, pc, 0) = Host
    BY DEF Marked
  <2>3. Host \in S
    BY <2>2 DEF AllMarked
  <2>4. <<Host>> \in Seq(S) /\ Len(<<Host>>) = 1 /\ <<Host>>[1] = Host
    BY <2>3
  <2>5. <<0>> \in Seq(Nat) /\ Len(<<0>>) = 1 /\ <<0>>[1] = 0
    OBVIOUS
  <2>6. PICK s, c : s = <<0>> /\ c = <<Host>>
    OBVIOUS
  <2>7. /\ s \in Seq(Nat) /\ c \in Seq(AllMarked(stk, pc)) /\ Len(c) = Len(s) /\ Len(s) = 1
        /\ s[1] = 0 /\ c[1] = Host
    BY <2>4, <2>5, <2>6
  <2>8. \A i \in 1 .. 1 : i = 1
    OBVIOUS
  <2>9. Reads(c, s, stk, pc, cs, 0)
    BY <2>2, <2>7, <2>8, <1>1, <1>3 DEF Reads
  <2> QED
    BY <2>1, <2>6, <2>9
<1> QED
  BY <1>2, <1>3

(* The recursive definition of ControlOf has a solution, and it reads the  *)
(* marks of the stack in their order.                                      *)
LEMMA ControlReads ==
    ASSUME NEW stk, Len(stk) \in Nat, NEW pc, NEW cs
    PROVE  \E s : Reads(ControlOf(stk, pc, cs), s, stk, pc, cs, Len(stk))
<1> DEFINE E(p, lower) == Extended(stk, pc, cs, p, lower)
           Upto(n) == \E g : \A p \in 0 .. n : g[p] = E(p, g[p - 1])
           Eq(g) == g = [p \in 0 .. Len(stk) |->
                IF p = 0 THEN IF cs = << >> THEN << >> ELSE <<Host>>
                ELSE IF stk[p][1] = "pc" THEN Append(g[p - 1], Item("js", CodeOf(stk, pc, p)))
                ELSE IF stk[p][1] = "catch" THEN Append(g[p - 1], Item("try", stk[p + 1][2]))
                ELSE IF \E k \in DOMAIN cs : cs[k].sp = p THEN Append(g[p - 1], Host)
                ELSE g[p - 1]]
           T == {n \in Nat : ~ Upto(n)}
<1>e. ASSUME NEW p, NEW lower
      PROVE  E(p, lower) = IF p = 0 THEN IF cs = << >> THEN << >> ELSE <<Host>>
                ELSE IF stk[p][1] = "pc" THEN Append(lower, Item("js", CodeOf(stk, pc, p)))
                ELSE IF stk[p][1] = "catch" THEN Append(lower, Item("try", stk[p + 1][2]))
                ELSE IF \E k \in DOMAIN cs : cs[k].sp = p THEN Append(lower, Host)
                ELSE lower
  BY DEF Extended, IsMark, Marked, IsReturn, IsCatch, IsHost
<1>1. Upto(Len(stk))
  <2>1. SUFFICES ASSUME T # {} PROVE FALSE
    OBVIOUS
  <2>2. T \subseteq Nat
    OBVIOUS
  <2>3. PICK n \in T : \A m \in T : n <= m
    <3> HIDE DEF T
    <3> QED
      BY <2>1, <2>2, LeastNatural
  <2>4. n \in Nat /\ ~ Upto(n)
    OBVIOUS
  <2>5. CASE n = 0
    <3>1. PICK x : x = E(0, 0)
      OBVIOUS
    <3>2. PICK g : g = [p \in 0 .. 0 |-> x]
      OBVIOUS
    <3>3. \A p \in 0 .. 0 : p = 0 /\ g[p] = x
      BY <3>2
    <3>4. E(0, g[0 - 1]) = x
      BY <3>1 DEF Extended
    <3> HIDE DEF E
    <3>5. \A p \in 0 .. n : g[p] = E(p, g[p - 1])
      BY <3>3, <3>4, <2>5
    <3> QED
      BY <3>5, <2>4
  <2>6. CASE n # 0
    <3>1. PICK m : m = n - 1
      OBVIOUS
    <3>2. m \in Nat /\ ~ (n <= m)
      BY <3>1, <2>4, <2>6
    <3>3. Upto(m)
      BY <3>2, <2>3
    <3>4. PICK g : \A p \in 0 .. m : g[p] = E(p, g[p - 1])
      BY <3>3
    <3> HIDE DEF E
    <3>5. PICK h : h = [p \in (-1) .. n |-> IF p = n THEN E(n, g[m]) ELSE g[p]]
      OBVIOUS
    <3>6. ASSUME NEW p \in 0 .. n PROVE h[p] = E(p, h[p - 1])
      <4>1. p \in (-1) .. n /\ p - 1 \in (-1) .. n /\ p - 1 # n
        BY <2>4
      <4>2. h[p - 1] = g[p - 1]
        BY <4>1, <3>5
      <4>3. CASE p = n
        BY <4>1, <4>2, <4>3, <3>1, <3>5
      <4>4. CASE p # n
        <5>1. p \in 0 .. m
          BY <4>4, <3>1, <2>4
        <5> QED
          BY <5>1, <4>1, <4>2, <4>4, <3>4, <3>5
      <4> QED
        BY <4>3, <4>4
    <3>7. Upto(n)
      BY <3>6
    <3> QED
      BY <3>7, <2>4
  <2> QED
    BY <2>5, <2>6
<1>2. PICK g : \A p \in 0 .. Len(stk) : g[p] = E(p, g[p - 1])
  BY <1>1
<1>3. PICK n : n = Len(stk)
  OBVIOUS
<1>4. PICK f : f = [p \in 0 .. n |-> g[p]]
  OBVIOUS
<1>5. ASSUME NEW p \in 0 .. n PROVE f[p] = E(p, f[p - 1])
  <2>1. f[p] = g[p] /\ g[p] = E(p, g[p - 1])
    <3> HIDE DEF E
    <3> QED
      BY <1>2, <1>3, <1>4
  <2>2. CASE p = 0
    BY <2>1, <2>2 DEF Extended
  <2>3. CASE p # 0
    <3>1. p - 1 \in 0 .. n
      BY <2>3, <1>3
    <3>2. f[p - 1] = g[p - 1]
      BY <3>1, <1>4
    <3> QED
      BY <3>2, <2>1
  <2> QED
    BY <2>2, <2>3
<1>6. Eq(f)
  <2>1. ASSUME NEW p \in 0 .. n
        PROVE  f[p] = IF p = 0 THEN IF cs = << >> THEN << >> ELSE <<Host>>
                ELSE IF stk[p][1] = "pc" THEN Append(f[p - 1], Item("js", CodeOf(stk, pc, p)))
                ELSE IF stk[p][1] = "catch" THEN Append(f[p - 1], Item("try", stk[p + 1][2]))
                ELSE IF \E k \in DOMAIN cs : cs[k].sp = p THEN Append(f[p - 1], Host)
                ELSE f[p - 1]
    <3> HIDE DEF E
    <3> QED
      BY <1>5, <1>e
  <2>2. f = [p \in 0 .. n |-> f[p]]
    BY <1>4
  <2> QED
    BY <2>1, <2>2, <1>3
<1>7. ControlOf(stk, pc, cs) = (CHOOSE h : Eq(h))[Len(stk)]
  BY DEF ControlOf
<1>8. PICK h : h = CHOOSE k : Eq(k)
  OBVIOUS
<1>9. Eq(h)
  <2> HIDE DEF Eq
  <2> QED
    BY <1>6, <1>8
<1>10. ASSUME NEW p \in 0 .. n PROVE h[p] = E(p, h[p - 1])
  <2>1. h[p] = IF p = 0 THEN IF cs = << >> THEN << >> ELSE <<Host>>
                ELSE IF stk[p][1] = "pc" THEN Append(h[p - 1], Item("js", CodeOf(stk, pc, p)))
                ELSE IF stk[p][1] = "catch" THEN Append(h[p - 1], Item("try", stk[p + 1][2]))
                ELSE IF \E k \in DOMAIN cs : cs[k].sp = p THEN Append(h[p - 1], Host)
                ELSE h[p - 1]
    BY <1>9, <1>3
  <2> HIDE DEF E
  <2> QED
    BY <2>1, <1>e
<1> DEFINE Wrong == {p \in 0 .. n : ~ \E s : Reads(h[p], s, stk, pc, cs, p)}
<1>11. Wrong = {}
  <2>1. SUFFICES ASSUME Wrong # {} PROVE FALSE
    OBVIOUS
  <2>2. Wrong \subseteq Nat
    BY <1>3
  <2>3. PICK p \in Wrong : \A q \in Wrong : p <= q
    <3> HIDE DEF Wrong
    <3> QED
      BY <2>1, <2>2, LeastNatural
  <2>4. p \in 0 .. n /\ p \in Nat /\ ~ \E s : Reads(h[p], s, stk, pc, cs, p)
    BY <1>3
  <2>5. h[p] = Extended(stk, pc, cs, p, h[p - 1])
    BY <2>4, <1>10
  <2>6. CASE p = 0
    <3>1. \E s : Reads(Extended(stk, pc, cs, 0, h[p - 1]), s, stk, pc, cs, 0)
      BY ReadsNone
    <3> QED
      BY <3>1, <2>4, <2>5, <2>6
  <2>7. CASE p # 0
    <3>1. p - 1 \in 0 .. n /\ ~ (p <= p - 1)
      BY <2>4, <2>7, <1>3
    <3>2. p - 1 \notin Wrong
      <4> HIDE DEF Wrong
      <4> QED
        BY <3>1, <2>3
    <3>3. PICK s : Reads(h[p - 1], s, stk, pc, cs, p - 1)
      BY <3>1, <3>2
    <3>4. \E s2 : Reads(Extended(stk, pc, cs, p, h[p - 1]), s2, stk, pc, cs, p)
      BY <3>3, <2>4, <2>7, ReadsMore
    <3> QED
      BY <3>4, <2>4, <2>5
  <2> QED
    BY <2>6, <2>7
<1>12. n \in 0 .. n
  BY <1>3
<1>13. \E s : Reads(h[n], s, stk, pc, cs, n)
  BY <1>11, <1>12
<1> QED
  BY <1>13, <1>3, <1>7, <1>8

(* Two readings of which the second has only the lower marks.              *)
LEMMA LowerReads ==
    ASSUME NEW c, NEW s, NEW stk, NEW pc, NEW cs, NEW t \in Nat, Reads(c, s, stk, pc, cs, t),
           NEW c2, NEW s2, NEW stk2, NEW pc2, NEW cs2, NEW t2 \in Nat, Reads(c2, s2, stk2, pc2, cs2, t2),
           \A p \in Marks(stk2, cs2, t2) : p \in Marks(stk, cs, t),
           \A p \in Marks(stk2, cs2, t2) : \A q \in Marks(stk, cs, t) : q < p => q \in Marks(stk2, cs2, t2)
    PROVE  /\ Len(c2) \in 0 .. Len(c) /\ Len(c) \in Nat
           /\ \A i \in 1 .. Len(c2) :
            s2[i] = s[i] /\ (Marked(stk2, pc2, s[i]) = Marked(stk, pc, s[i]) => c2[i] = c[i])
           /\ \A i \in 1 .. Len(c) : s[i] \in Marks(stk2, cs2, t2) <=> i <= Len(c2)
<1>1. PICK m, n : m = Len(s) /\ n = Len(s2)
  OBVIOUS
<1>2. /\ m \in Nat /\ n \in Nat /\ Len(c) = m /\ Len(c2) = n
      /\ \A i \in 1 .. m : s[i] \in Nat
      /\ \A i \in 1 .. n : s2[i] \in Nat
  BY <1>1, LenProperties DEF Reads, Marks
<1>3. PICK M, M2 : M = Marks(stk, cs, t) /\ M2 = Marks(stk2, cs2, t2)
  OBVIOUS
<1>4. /\ \A i, j \in 1 .. m : i < j => s[i] < s[j]
      /\ \A i \in 1 .. m : s[i] \in M /\ c[i] = Marked(stk, pc, s[i])
      /\ \A p \in M : \E i \in 1 .. m : s[i] = p
  BY <1>1, <1>3 DEF Reads
<1>5. /\ \A i, j \in 1 .. n : i < j => s2[i] < s2[j]
      /\ \A i \in 1 .. n : s2[i] \in M2 /\ c2[i] = Marked(stk2, pc2, s2[i])
      /\ \A p \in M2 : \E i \in 1 .. n : s2[i] = p
  BY <1>1, <1>3 DEF Reads
<1>6. /\ \A p \in M2 : p \in M
      /\ \A p \in M2 : \A q \in M : q < p => q \in M2
  BY <1>3
<1> DEFINE W == {i \in 1 .. n : ~ (i <= m /\ s2[i] = s[i])}
<1>7. W = {}
  <2>1. SUFFICES ASSUME W # {} PROVE FALSE
    OBVIOUS
  <2>2. W \subseteq Nat
    OBVIOUS
  <2>3. PICK i \in W : \A j \in W : i <= j
    <3> HIDE DEF W
    <3> QED
      BY <2>1, <2>2, LeastNatural
  <2>4. i \in 1 .. n /\ i \in Nat /\ ~ (i <= m /\ s2[i] = s[i])
    OBVIOUS
  <2>5. \A k \in 1 .. n : k < i => k <= m /\ s2[k] = s[k]
    <3>1. ASSUME NEW k \in 1 .. n, k < i PROVE k <= m /\ s2[k] = s[k]
      <4>1. k \notin W
        <5> HIDE DEF W
        <5> QED
          BY <3>1, <2>3, <2>4
      <4> QED
        BY <4>1
    <3> QED
      BY <3>1
  <2> HIDE DEF W
  <2>6. PICK j \in 1 .. m : s[j] = s2[i]
    BY <2>4, <1>4, <1>5, <1>6
  <2>7. ~ (j < i)
    <3>1. SUFFICES ASSUME j < i PROVE FALSE
      OBVIOUS
    <3>2. j \in 1 .. n
      BY <3>1, <2>4, <1>2
    <3>3. s2[j] = s[j] /\ s2[j] < s2[i]
      BY <3>1, <3>2, <2>4, <2>5, <1>5
    <3>4. s2[i] \in Nat
      BY <2>4, <1>2
    <3> QED
      BY <3>3, <3>4, <2>6
  <2>8. j # i
    BY <2>4, <2>6, <1>2
  <2>9. i < j /\ i \in 1 .. m
    BY <2>4, <2>7, <2>8, <1>2
  <2>10. s[i] < s2[i] /\ s[i] \in M2
    BY <2>4, <2>6, <2>9, <1>4, <1>5, <1>6
  <2>11. PICK k \in 1 .. n : s2[k] = s[i]
    BY <2>10, <1>5
  <2>12. k < i
    <3>1. SUFFICES ASSUME ~ (k < i) PROVE FALSE
      OBVIOUS
    <3>2. k = i \/ i < k
      BY <3>1, <2>4, <1>2
    <3>3. s2[i] <= s2[k]
      BY <3>2, <2>4, <1>2, <1>5
    <3> QED
      BY <3>3, <2>4, <2>9, <2>10, <2>11, <1>2
  <2>13. s[k] = s[i] /\ k \in 1 .. m
    BY <2>5, <2>11, <2>12, <1>2
  <2>14. s[k] < s[i]
    BY <2>9, <2>12, <2>13, <1>4
  <2> QED
    BY <2>9, <2>13, <2>14, <1>2
<1>8. \A i \in 1 .. n : i <= m /\ s2[i] = s[i]
  BY <1>7
<1>9. n <= m
  <2>1. CASE n = 0
    BY <2>1, <1>2
  <2>2. CASE n # 0
    <3>1. n \in 1 .. n
      BY <2>2, <1>2
    <3> QED
      BY <3>1, <1>8
  <2> QED
    BY <2>1, <2>2
<1>10. ASSUME NEW i \in 1 .. n
       PROVE  s2[i] = s[i] /\ (Marked(stk2, pc2, s[i]) = Marked(stk, pc, s[i]) => c2[i] = c[i])
  <2>1. s2[i] = s[i] /\ i \in 1 .. m
    BY <1>2, <1>8
  <2> QED
    BY <2>1, <1>4, <1>5
<1>11. ASSUME NEW i \in 1 .. m PROVE s[i] \in M2 <=> i <= n
  <2>1. ASSUME i <= n PROVE s[i] \in M2
    <3>1. i \in 1 .. n
      BY <2>1, <1>2
    <3> QED
      BY <3>1, <1>5, <1>10
  <2>2. ASSUME s[i] \in M2 PROVE i <= n
    <3>1. PICK k \in 1 .. n : s2[k] = s[i]
      BY <2>2, <1>5
    <3>2. s[k] = s[i] /\ k \in 1 .. m
      BY <3>1, <1>8, <1>2
    <3>3. ~ (k < i) /\ ~ (i < k)
      BY <3>2, <1>2, <1>4
    <3>4. k = i
      BY <3>3, <1>2
    <3> QED
      BY <3>4, <1>2
  <2> QED
    BY <2>1, <2>2
<1> QED
  BY <1>2, <1>3, <1>9, <1>10, <1>11

LEMMA SeqAlike ==
    ASSUME NEW S, NEW T, NEW c \in Seq(S), NEW d \in Seq(T), Len(c) = Len(d), \A i \in 1 .. Len(c) : c[i] = d[i]
    PROVE  c = d
<1>1. PICK U : U = S \cup T
  OBVIOUS
<1>2. c \in Seq(U) /\ d \in Seq(U)
  BY <1>1, SeqMonotonic
<1> QED
  BY <1>2, SeqEqual

(* The marks of a stack below another one, with the same items.            *)
Under(stk2, pc2, cs2, stk, pc, cs) ==
    /\ Len(stk) \in Nat /\ Len(stk2) \in Nat
    /\ \A p \in Marks(stk2, cs2, Len(stk2)) :
            p \in Marks(stk, cs, Len(stk)) /\ Marked(stk2, pc2, p) = Marked(stk, pc, p)
    /\ \A p \in Marks(stk2, cs2, Len(stk2)) : \A q \in Marks(stk, cs, Len(stk)) :
            q < p => q \in Marks(stk2, cs2, Len(stk2))

LEMMA UnderReads ==
    ASSUME NEW stk, NEW pc, NEW cs, NEW stk2, NEW pc2, NEW cs2, Under(stk2, pc2, cs2, stk, pc, cs),
           NEW t, NEW t2, t = Len(stk), t2 = Len(stk2),
           NEW c, NEW s, Reads(c, s, stk, pc, cs, t), NEW c2, NEW s2, Reads(c2, s2, stk2, pc2, cs2, t2)
    PROVE  /\ Len(c2) \in 0 .. Len(c) /\ Len(c) \in Nat
           /\ \A i \in 1 .. Len(c2) : s2[i] = s[i] /\ c2[i] = c[i]
           /\ \A i \in 1 .. Len(c) : s[i] \in Marks(stk2, cs2, t2) <=> i <= Len(c2)
<1>1. t \in Nat /\ t2 \in Nat
  BY DEF Under
<1>2. /\ \A p \in Marks(stk2, cs2, t2) : p \in Marks(stk, cs, t) /\ Marked(stk2, pc2, p) = Marked(stk, pc, p)
      /\ \A p \in Marks(stk2, cs2, t2) : \A q \in Marks(stk, cs, t) : q < p => q \in Marks(stk2, cs2, t2)
  BY DEF Under
<1>3. /\ Len(c2) \in 0 .. Len(c) /\ Len(c) \in Nat
      /\ \A i \in 1 .. Len(c2) :
            s2[i] = s[i] /\ (Marked(stk2, pc2, s[i]) = Marked(stk, pc, s[i]) => c2[i] = c[i])
      /\ \A i \in 1 .. Len(c) : s[i] \in Marks(stk2, cs2, t2) <=> i <= Len(c2)
  BY <1>1, <1>2, LowerReads
<1>4. ASSUME NEW i \in 1 .. Len(c2) PROVE s[i] \in Marks(stk2, cs2, t2)
  <2>1. i \in 1 .. Len(c) /\ i <= Len(c2)
    BY <1>3
  <2> QED
    BY <2>1, <1>3
<1>5. \A i \in 1 .. Len(c2) : s2[i] = s[i] /\ c2[i] = c[i]
  <2>1. ASSUME NEW i \in 1 .. Len(c2) PROVE s2[i] = s[i] /\ c2[i] = c[i]
    <3>1. PICK p : p = s[i]
      OBVIOUS
    <3>2. Marked(stk2, pc2, p) = Marked(stk, pc, p)
      <4>1. p \in Marks(stk2, cs2, t2)
        BY <3>1, <1>4
      <4> QED
        BY <4>1, <1>2
    <3>3. Marked(stk2, pc2, s[i]) = Marked(stk, pc, s[i])
      BY <3>1, <3>2
    <3> QED
      BY <3>3, <1>3
  <2> QED
    BY <2>1
<1> QED
  BY <1>3, <1>5

LEMMA SameControl ==
    ASSUME NEW stk, NEW pc, NEW cs, NEW stk2, NEW pc2, NEW cs2, Under(stk2, pc2, cs2, stk, pc, cs),
           \A q \in Marks(stk, cs, Len(stk)) : q \in Marks(stk2, cs2, Len(stk2))
    PROVE  ControlOf(stk2, pc2, cs2) = ControlOf(stk, pc, cs)
<1>1. PICK c, c2, t, t2 : /\ c = ControlOf(stk, pc, cs) /\ c2 = ControlOf(stk2, pc2, cs2)
                          /\ t = Len(stk) /\ t2 = Len(stk2)
  OBVIOUS
<1>2. t \in Nat /\ t2 \in Nat
  BY <1>1 DEF Under
<1>3. PICK s : Reads(c, s, stk, pc, cs, t)
  BY <1>1, <1>2, ControlReads
<1>4. PICK s2 : Reads(c2, s2, stk2, pc2, cs2, t2)
  BY <1>1, <1>2, ControlReads
<1>5. /\ Len(c2) \in 0 .. Len(c) /\ Len(c) \in Nat
      /\ \A i \in 1 .. Len(c2) : s2[i] = s[i] /\ c2[i] = c[i]
      /\ \A i \in 1 .. Len(c) : s[i] \in Marks(stk2, cs2, t2) <=> i <= Len(c2)
  BY <1>1, <1>3, <1>4, UnderReads
<1>6. \A i \in 1 .. Len(c) : s[i] \in Marks(stk2, cs2, t2)
  BY <1>1, <1>3 DEF Reads
<1>7. Len(c2) = Len(c)
  <2>1. CASE Len(c) = 0
    BY <2>1, <1>5
  <2>2. CASE Len(c) # 0
    <3>1. Len(c) \in 1 .. Len(c)
      BY <2>2, <1>5
    <3> QED
      BY <3>1, <1>5, <1>6
  <2> QED
    BY <2>1, <2>2
<1>8. c \in Seq(AllMarked(stk, pc)) /\ c2 \in Seq(AllMarked(stk2, pc2))
  BY <1>3, <1>4 DEF Reads
<1>9. c2 = c
  BY <1>5, <1>7, <1>8, SeqAlike
<1> QED
  BY <1>1, <1>9

LEMMA PushedControl ==
    ASSUME NEW stk, NEW pc, NEW cs, NEW stk2, NEW pc2, NEW cs2, Under(stk2, pc2, cs2, stk, pc, cs),
           NEW m \in Marks(stk, cs, Len(stk)), m \notin Marks(stk2, cs2, Len(stk2)),
           \A q \in Marks(stk, cs, Len(stk)) : q = m \/ q \in Marks(stk2, cs2, Len(stk2))
    PROVE  ControlOf(stk, pc, cs) = Append(ControlOf(stk2, pc2, cs2), Marked(stk, pc, m))
<1>1. PICK c, c2, t, t2, x : /\ c = ControlOf(stk, pc, cs) /\ c2 = ControlOf(stk2, pc2, cs2)
                             /\ t = Len(stk) /\ t2 = Len(stk2) /\ x = Marked(stk, pc, m)
  OBVIOUS
<1>2. t \in Nat /\ t2 \in Nat
  BY <1>1 DEF Under
<1>3. PICK s : Reads(c, s, stk, pc, cs, t)
  BY <1>1, <1>2, ControlReads
<1>4. PICK s2 : Reads(c2, s2, stk2, pc2, cs2, t2)
  BY <1>1, <1>2, ControlReads
<1>5. /\ Len(c2) \in 0 .. Len(c) /\ Len(c) \in Nat
      /\ \A i \in 1 .. Len(c2) : s2[i] = s[i] /\ c2[i] = c[i]
      /\ \A i \in 1 .. Len(c) : s[i] \in Marks(stk2, cs2, t2) <=> i <= Len(c2)
  BY <1>1, <1>3, <1>4, UnderReads
<1>6. /\ c \in Seq(AllMarked(stk, pc)) /\ c2 \in Seq(AllMarked(stk2, pc2)) /\ Len(s) = Len(c)
      /\ \A i, j \in 1 .. Len(c) : i < j => s[i] < s[j]
      /\ \A i \in 1 .. Len(c) : s[i] \in Marks(stk, cs, t) /\ c[i] = Marked(stk, pc, s[i])
      /\ \A p \in Marks(stk, cs, t) : \E i \in 1 .. Len(c) : s[i] = p
  BY <1>3, <1>4 DEF Reads
<1>7. PICK i \in 1 .. Len(c) : s[i] = m
  BY <1>1, <1>6
<1>8. i > Len(c2)
  BY <1>1, <1>5, <1>7
<1>9. \A j \in 1 .. Len(c) : j > Len(c2) => j = i
  <2>1. ASSUME NEW j \in 1 .. Len(c), j > Len(c2) PROVE j = i
    <3>1. s[j] = m
      <4>1. s[j] \notin Marks(stk2, cs2, t2)
        BY <2>1, <1>5
      <4> QED
        BY <4>1, <1>1, <1>6
    <3>2. m \in Nat
      BY <1>1, <1>2 DEF Marks
    <3>3. ~ (i < j) /\ ~ (j < i)
      BY <3>1, <3>2, <1>6, <1>7
    <3> QED
      BY <3>3, <1>5
  <2> QED
    BY <2>1
<1>10. Len(c) = Len(c2) + 1 /\ i = Len(c)
  <2>1. Len(c2) + 1 \in 1 .. Len(c) /\ Len(c2) + 1 > Len(c2) /\ Len(c) \in 1 .. Len(c) /\ Len(c) > Len(c2)
    BY <1>5, <1>7, <1>8
  <2> QED
    BY <2>1, <1>9
<1>11. c[Len(c2) + 1] = x
  BY <1>1, <1>6, <1>7, <1>10
<1>12. PICK U : U = AllMarked(stk2, pc2) \cup {x}
  OBVIOUS
<1>13. c2 \in Seq(U) /\ x \in U
  BY <1>6, <1>12, SeqMonotonic
<1>14. PICK d : d = Append(c2, x)
  OBVIOUS
<1>15. d \in Seq(U) /\ Len(d) = Len(c2) + 1 /\ d[Len(c2) + 1] = x /\ \A j \in 1 .. Len(c2) : d[j] = c2[j]
  BY <1>13, <1>14, AppendProperties
<1>16. \A j \in 1 .. Len(c) : c[j] = d[j]
  <2>1. \A j \in 1 .. Len(c) : j \in 1 .. Len(c2) \/ j = Len(c2) + 1
    BY <1>5, <1>10
  <2> QED
    BY <2>1, <1>5, <1>11, <1>15
<1>17. c = d
  BY <1>6, <1>10, <1>15, <1>16, SeqAlike
<1> QED
  BY <1>1, <1>14, <1>17

-----------------------------------------------------------------------------
(* The operators of CallSpec.                                              *)

LEMMA LastOfKind ==
    ASSUME NEW S, NEW c \in Seq(S), NEW k, NEW i \in 1 .. Len(c), c[i].kind = k,
           \A j \in 1 .. Len(c) : i < j => c[j].kind # k
    PROVE  Structured!LastOf(c, k) = i
<1>1. PICK I : I = {j \in 1 .. Len(c) : c[j].kind = k}
  OBVIOUS
<1>2. i \in I /\ \A j \in I : j <= i
  BY <1>1, LenProperties
<1>3. I # {} /\ I \subseteq Int
  BY <1>1, <1>2
<1>4. PICK x : x = CHOOSE j \in I : \A y \in I : j >= y
  OBVIOUS
<1>5. x \in I /\ \A y \in I : x >= y
  BY <1>2, <1>3, <1>4
<1>6. x = i
  BY <1>2, <1>3, <1>5
<1> QED
  BY <1>1, <1>3, <1>4, <1>6 DEF Structured!LastOf, Structured!SelectLastInSeq, Structured!Max

LEMMA LastOfBelow ==
    ASSUME NEW S, NEW c \in Seq(S), NEW k, NEW i \in Nat \ {0}, \A j \in 1 .. Len(c) : i <= j => c[j].kind # k
    PROVE  Structured!LastOf(c, k) < i /\ Structured!LastOf(c, k) \in Nat
<1>1. PICK I : I = {j \in 1 .. Len(c) : c[j].kind = k}
  OBVIOUS
<1>2. I \subseteq Nat /\ \A j \in I : j < i /\ j \in 1 .. Len(c)
  BY <1>1, LenProperties
<1>3. CASE I = {}
  BY <1>1, <1>3 DEF Structured!LastOf, Structured!SelectLastInSeq
<1>4. CASE I # {}
  <2>1. PICK T : T = {x \in Nat : \A j \in I : j <= x}
    OBVIOUS
  <2>2. i \in T /\ T \subseteq Nat
    BY <2>1, <1>2
  <2>3. PICK x \in T : \A y \in T : x <= y
    BY <2>2, LeastNatural
  <2>4. x \in Nat /\ \A j \in I : j <= x
    BY <2>1, <2>3
  <2>5. x \in I
    <3>1. SUFFICES ASSUME x \notin I PROVE FALSE
      OBVIOUS
    <3>2. PICK j \in I : TRUE
      BY <1>4
    <3>3. x # 0 /\ x - 1 \in Nat
      BY <3>2, <2>4, <1>2
    <3>4. \A y \in I : y <= x - 1
      BY <3>1, <2>4, <1>2
    <3>5. x - 1 \in T
      BY <3>3, <3>4, <2>1
    <3> QED
      BY <3>5, <2>3, <2>4
  <2>6. x \in 1 .. Len(c) /\ c[x].kind = k /\ \A j \in 1 .. Len(c) : x < j => c[j].kind # k
    <3>1. x \in 1 .. Len(c) /\ c[x].kind = k
      BY <2>5, <1>1
    <3>2. ASSUME NEW j \in 1 .. Len(c), x < j PROVE c[j].kind # k
      <4>1. j \in I => j <= x
        BY <2>4
      <4> QED
        BY <4>1, <3>2, <2>4, <1>1
    <3> QED
      BY <3>1, <3>2
  <2>7. Structured!LastOf(c, k) = x
    BY <2>6, LastOfKind
  <2> QED
    BY <2>5, <2>7, <1>2
<1> QED
  BY <1>3, <1>4

LEMMA FailedAt ==
    ASSUME NEW S, NEW c \in Seq(S), NEW i \in 1 .. Len(c), c[i].kind = "host",
           \A j \in 1 .. Len(c) : i < j => c[j].kind # "host"
    PROVE  Structured!Failed(c) = SubSeq(c, 1, i)
<1>1. PICK k : k = "host"
  OBVIOUS
<1>2. Structured!LastOf(c, k) = i
  BY <1>1, LastOfKind
<1> QED
  BY <1>1, <1>2 DEF Structured!Failed

LEMMA ThrownToHost ==
    ASSUME NEW S, NEW c \in Seq(S), NEW i \in 1 .. Len(c), c[i].kind = "host",
           \A j \in 1 .. Len(c) : i < j => c[j].kind # "host" /\ c[j].kind # "try"
    PROVE  Structured!Thrown(c) = Structured!Failed(c)
<1>1. PICK k, l : k = "host" /\ l = "try"
  OBVIOUS
<1>2. Structured!LastOf(c, k) = i
  BY <1>1, LastOfKind
<1>3. i \in Nat \ {0} /\ \A j \in 1 .. Len(c) : i <= j => c[j].kind # l
  <2>1. i \in Nat \ {0}
    BY LenProperties
  <2>2. ASSUME NEW j \in 1 .. Len(c), i <= j PROVE c[j].kind # l
    <3>1. i = j \/ i < j
      BY <2>1, <2>2, LenProperties
    <3> QED
      BY <3>1, <1>1
  <2> QED
    BY <2>1, <2>2
<1>4. Structured!LastOf(c, l) < i
  BY <1>3, LastOfBelow
<1>5. Structured!LastOf(c, "try") < Structured!LastOf(c, "host")
  BY <1>1, <1>2, <1>4
<1> QED
  BY <1>5, Zenon DEF Structured!Thrown

LEMMA LastOfKept ==
    ASSUME NEW S, NEW c, NEW kept \in Seq(S), NEW m, Len(kept) = m, \A j \in 1 .. m : kept[j] = c[j],
           NEW k, NEW b \in 1 .. m, c[b].kind = k, \A j \in 1 .. m : b < j => c[j].kind # k
    PROVE  Structured!LastOf(kept, k) = b
<1>1. kept[b].kind = k /\ \A j \in 1 .. m : b < j => kept[j].kind # k
  OBVIOUS
<1>2. b \in 1 .. Len(kept) /\ \A j \in 1 .. Len(kept) : b < j => kept[j].kind # k
  BY <1>1
<1> QED
  BY <1>1, <1>2, LastOfKind

(* The catch block at i of the function at b handles an exception.         *)
HandledAt(c, i, b) ==
    /\ i \in 1 .. Len(c) /\ c[i].kind = "try"
    /\ \A j \in 1 .. Len(c) : i < j => c[j].kind # "host" /\ c[j].kind # "try"
    /\ b \in 1 .. i - 1 /\ c[b].kind = "js"
    /\ \A j \in 1 .. i - 1 : b < j => c[j].kind # "js"

LEMMA ThrownToTry ==
    ASSUME NEW S, NEW c \in Seq(S), NEW i, NEW b, HandledAt(c, i, b), NEW kept, kept = SubSeq(c, 1, i - 1)
    PROVE  Structured!Thrown(c) = [kept EXCEPT ![b] = Item("js", c[i].at)]
<1>0. /\ i \in 1 .. Len(c) /\ c[i].kind = "try"
      /\ \A j \in 1 .. Len(c) : i < j => c[j].kind # "host" /\ c[j].kind # "try"
      /\ b \in 1 .. i - 1 /\ c[b].kind = "js"
      /\ \A j \in 1 .. i - 1 : b < j => c[j].kind # "js"
  BY DEF HandledAt
<1>1. PICK k, l, z : k = "host" /\ l = "try" /\ z = "js"
  OBVIOUS
<1>2. Structured!LastOf(c, l) = i
  <2>1. c[i].kind = l /\ \A j \in 1 .. Len(c) : i < j => c[j].kind # l
    BY <1>0, <1>1
  <2>2. i \in 1 .. Len(c)
    BY <1>0
  <2> QED
    BY <2>1, <2>2, LastOfKind
<1>3. Structured!LastOf(c, k) < i /\ Structured!LastOf(c, k) \in Nat
  <2>1. i \in Nat \ {0} /\ \A j \in 1 .. Len(c) : i <= j => c[j].kind # k
    <3>1. i \in Nat \ {0}
      BY <1>0, LenProperties
    <3>2. ASSUME NEW j \in 1 .. Len(c), i <= j PROVE c[j].kind # k
      <4>1. i = j \/ i < j
        BY <3>1, <3>2, LenProperties
      <4> QED
        BY <4>1, <1>0, <1>1
    <3> QED
      BY <3>1, <3>2
  <2> QED
    BY <2>1, LastOfBelow
<1>4. kept \in Seq(S) /\ Len(kept) = i - 1 /\ \A j \in 1 .. i - 1 : kept[j] = c[j]
  <2>1. PICK m : m = i - 1
    OBVIOUS
  <2>2. m \in 0 .. Len(c)
    BY <2>1, <1>0, LenProperties
  <2>3. SubSeq(c, 1, m) \in Seq(S) /\ Len(SubSeq(c, 1, m)) = m /\ \A j \in 1 .. m : SubSeq(c, 1, m)[j] = c[j]
    BY <2>2, CutShape
  <2> QED
    BY <2>1, <2>3
<1>5. Structured!LastOf(kept, z) = b
  <2>1. PICK m : m = i - 1
    OBVIOUS
  <2>2. ASSUME NEW d \in Seq(S), Len(d) = m, \A j \in 1 .. m : d[j] = c[j] PROVE Structured!LastOf(d, z) = b
    <3>1. b \in 1 .. m /\ c[b].kind = z /\ \A j \in 1 .. m : b < j => c[j].kind # z
      BY <2>1, <1>0, <1>1
    <3> QED
      BY <3>1, <2>2, LastOfKept
  <2>3. kept \in Seq(S) /\ Len(kept) = m /\ \A j \in 1 .. m : kept[j] = c[j]
    BY <2>1, <1>4
  <2> QED
    BY <2>2, <2>3
<1>6. Structured!LastOf(c, "try") = i /\ ~ (i < Structured!LastOf(c, "host")) /\ Structured!LastOf(kept, "js") = b
  <2>1. PICK x : x = Structured!LastOf(c, k)
    OBVIOUS
  <2>2. x < i
    BY <2>1, <1>3
  <2>3. x \in Int /\ i \in Int
    BY <2>1, <1>0, <1>3, LenProperties
  <2>4. ~ (i < x)
    BY <2>2, <2>3
  <2> QED
    BY <1>1, <1>2, <1>5, <2>1, <2>4
<1>7. Structured!Thrown(c) = [SubSeq(c, 1, i - 1) EXCEPT ![Structured!LastOf(SubSeq(c, 1, i - 1), "js")] = Structured!JS(c[i].at)]
  BY <1>6, Zenon DEF Structured!Thrown
<1>8. Structured!JS(c[i].at) = Item("js", c[i].at)
  BY DEF Structured!JS, Structured!Item, Item
<1> QED
  BY <1>0, <1>6, <1>7, <1>8

-----------------------------------------------------------------------------
(* The order of the frames.                                                *)

(* Among the first t words b is the last that ends a boundary, or 0.       *)
LastReturn(stk, b, t) ==
    /\ b \in 0 .. t /\ (b = 0 \/ IsReturn(stk, b))
    /\ \A p \in b + 1 .. t : ~ IsReturn(stk, p)

(* The frame base is the last boundary, and each boundary refers to the    *)
(* one before it; an activation remembers the frame and the code that were *)
(* the innermost ones when it began.                                       *)
InOrder(stk, r, cs) ==
    /\ LastReturn(stk, r.fb, Len(stk))
    /\ \A b \in 1 .. Len(stk) : IsReturn(stk, b) => b > 3 /\ LastReturn(stk, CallerBase(stk, b), b - 1)
    /\ \A p \in 1 .. Len(stk) : IsCatch(stk, p) => p + 1 <= Len(stk) /\ stk[p + 1][1] = "handler"
    /\ \A k \in DOMAIN cs :
        LastReturn(stk, cs[k].entry.fb, cs[k].sp) /\ cs[k].entry.pc = CodeOf(stk, r.pc, cs[k].sp)

Ordered == InOrder(stack, reg, calls)

LEMMA CodeNext ==
    ASSUME NEW stk, Len(stk) \in Nat, NEW pc, NEW b \in Nat, NEW p \in b + 1 .. Len(stk), IsReturn(stk, p),
           \A q \in b + 1 .. p - 1 : ~ IsReturn(stk, q)
    PROVE  CodeOf(stk, pc, b) = stk[p][2]
<1> DEFINE P(x) == x \in b + 1 .. Len(stk) /\ stk[x][1] = "pc" /\ \A q \in b + 1 .. x - 1 : stk[q][1] # "pc"
<1>1. P(p)
  BY DEF IsReturn
<1>2. ASSUME NEW x, P(x) PROVE x = p
  <2>1. x \in Nat /\ p \in Nat
    BY <1>2
  <2>2. ~ (x < p)
    <3>1. SUFFICES ASSUME x < p PROVE FALSE
      OBVIOUS
    <3>2. x \in b + 1 .. p - 1
      BY <2>1, <3>1, <1>2
    <3> QED
      BY <3>2, <1>1, <1>2
  <2>3. ~ (p < x)
    <3>1. SUFFICES ASSUME p < x PROVE FALSE
      OBVIOUS
    <3>2. p \in b + 1 .. x - 1
      BY <2>1, <3>1, <1>1
    <3> QED
      BY <3>2, <1>1, <1>2
  <2> QED
    BY <2>1, <2>2, <2>3
<1>3. p = CHOOSE x \in b + 1 .. Len(stk) : stk[x][1] = "pc" /\ \A q \in b + 1 .. x - 1 : stk[q][1] # "pc"
  BY <1>1, <1>2
<1>4. \E x \in b + 1 .. Len(stk) : stk[x][1] = "pc"
  BY <1>1
<1> QED
  BY <1>3, <1>4 DEF CodeOf

LEMMA CodeLast ==
    ASSUME NEW stk, NEW pc, NEW b, \A q \in b + 1 .. Len(stk) : ~ IsReturn(stk, q)
    PROVE  CodeOf(stk, pc, b) = pc
BY DEF CodeOf, IsReturn

(* The first boundary above b words, if there is one below n.              *)
LEMMA FirstReturn ==
    ASSUME NEW stk, NEW b \in Nat, NEW n \in Nat, ~ \A p \in b + 1 .. n : ~ IsReturn(stk, p)
    PROVE  \E p \in b + 1 .. n : IsReturn(stk, p) /\ \A q \in b + 1 .. p - 1 : ~ IsReturn(stk, q)
<1>1. PICK T : T = {p \in b + 1 .. n : IsReturn(stk, p)}
  OBVIOUS
<1>2. T \subseteq Nat /\ T # {}
  BY <1>1
<1>3. PICK p \in T : \A q \in T : p <= q
  BY <1>2, LeastNatural
<1>4. p \in b + 1 .. n /\ IsReturn(stk, p)
  BY <1>1
<1>5. ASSUME NEW q \in b + 1 .. p - 1 PROVE ~ IsReturn(stk, q)
  <2>1. q \in b + 1 .. n /\ ~ (p <= q)
    BY <1>4
  <2> QED
    BY <2>1, <1>1, <1>3
<1> QED
  BY <1>4, <1>5

(* Cutting a stack leaves the code of the frames below as it was, when the *)
(* register gets the code of the frame that is innermost then.             *)
LEMMA CodeCut ==
    ASSUME NEW stk, Len(stk) \in Nat, NEW stk2, Len(stk2) \in Nat, NEW pc, NEW t \in Nat,
           t <= Len(stk), t <= Len(stk2), \A p \in 1 .. t : stk2[p] = stk[p],
           \A p \in t + 1 .. Len(stk2) : ~ IsReturn(stk2, p), NEW b \in 0 .. t
    PROVE  CodeOf(stk2, CodeOf(stk, pc, t), b) = CodeOf(stk, pc, b)
<1>1. PICK x : x = CodeOf(stk, pc, t)
  OBVIOUS
<1>2. b \in Nat /\ \A p \in b + 1 .. t : IsReturn(stk2, p) <=> IsReturn(stk, p)
  BY DEF IsReturn
<1>3. CASE ~ \A p \in b + 1 .. t : ~ IsReturn(stk, p)
  <2>1. PICK p \in b + 1 .. t : IsReturn(stk, p) /\ \A q \in b + 1 .. p - 1 : ~ IsReturn(stk, q)
    BY <1>2, <1>3, FirstReturn
  <2>2. p \in b + 1 .. Len(stk) /\ p \in b + 1 .. Len(stk2) /\ p \in 1 .. t
    BY <1>2
  <2>3. CodeOf(stk, pc, b) = stk[p][2]
    BY <2>1, <2>2, <1>2, CodeNext
  <2>4. IsReturn(stk2, p) /\ \A q \in b + 1 .. p - 1 : ~ IsReturn(stk2, q)
    <3>1. \A q \in b + 1 .. p - 1 : q \in b + 1 .. t
      BY <2>2, <1>2
    <3> QED
      BY <3>1, <2>1, <1>2
  <2>5. CodeOf(stk2, x, b) = stk2[p][2]
    BY <2>2, <2>4, <1>2, CodeNext
  <2> QED
    BY <2>2, <2>3, <2>5, <1>1
<1>4. CASE \A p \in b + 1 .. t : ~ IsReturn(stk, p)
  <2>1. \A q \in b + 1 .. Len(stk2) : ~ IsReturn(stk2, q)
    <3>1. \A q \in b + 1 .. Len(stk2) : q \in b + 1 .. t \/ q \in t + 1 .. Len(stk2)
      BY <1>2
    <3> QED
      BY <3>1, <1>2, <1>4
  <2>2. CodeOf(stk2, x, b) = x
    BY <2>1, CodeLast
  <2>3. CASE ~ \A p \in t + 1 .. Len(stk) : ~ IsReturn(stk, p)
    <3>1. PICK p \in t + 1 .. Len(stk) : IsReturn(stk, p) /\ \A q \in t + 1 .. p - 1 : ~ IsReturn(stk, q)
      BY <2>3, FirstReturn
    <3>2. CodeOf(stk, pc, t) = stk[p][2]
      BY <3>1, CodeNext
    <3>3. p \in b + 1 .. Len(stk)
      BY <1>2
    <3>4. \A q \in b + 1 .. p - 1 : ~ IsReturn(stk, q)
      <4>1. \A q \in b + 1 .. p - 1 : q \in b + 1 .. t \/ q \in t + 1 .. p - 1
        BY <1>2
      <4> QED
        BY <4>1, <3>1, <1>4
    <3>5. CodeOf(stk, pc, b) = stk[p][2]
      BY <3>1, <3>3, <3>4, <1>2, CodeNext
    <3> QED
      BY <3>2, <3>5, <2>2, <1>1
  <2>4. CASE \A p \in t + 1 .. Len(stk) : ~ IsReturn(stk, p)
    <3>1. CodeOf(stk, pc, t) = pc
      BY <2>4, CodeLast
    <3>2. \A q \in b + 1 .. Len(stk) : ~ IsReturn(stk, q)
      <4>1. \A q \in b + 1 .. Len(stk) : q \in b + 1 .. t \/ q \in t + 1 .. Len(stk)
        BY <1>2
      <4> QED
        BY <4>1, <2>4, <1>4
    <3>3. CodeOf(stk, pc, b) = pc
      BY <3>2, CodeLast
    <3> QED
      BY <3>1, <3>3, <2>2, <1>1
  <2> QED
    BY <2>3, <2>4
<1> QED
  BY <1>3, <1>4

LEMMA LastReturnSame ==
    ASSUME NEW stk, NEW stk2, NEW t \in Nat, \A p \in 1 .. t : stk2[p] = stk[p],
           NEW u \in Nat, u <= t, NEW b, LastReturn(stk, b, u)
    PROVE  LastReturn(stk2, b, u)
<1>1. b \in 0 .. u /\ (b = 0 \/ IsReturn(stk, b)) /\ \A p \in b + 1 .. u : ~ IsReturn(stk, p)
  BY DEF LastReturn
<1>2. \A p \in b + 1 .. u : p \in 1 .. t
  BY <1>1
<1>3. b # 0 => b \in 1 .. t
  BY <1>1
<1>4. (b = 0 \/ IsReturn(stk2, b)) /\ \A p \in b + 1 .. u : ~ IsReturn(stk2, p)
  BY <1>1, <1>2, <1>3 DEF IsReturn
<1> QED
  BY <1>1, <1>4 DEF LastReturn

-----------------------------------------------------------------------------
(* Cutting the stack and ending activations, or the reverse.               *)

Cut(stk2, r2, cs2, stk, r, cs, t) ==
    /\ Len(stk) \in Nat /\ Len(stk2) \in Nat /\ t \in Nat /\ t <= Len(stk) /\ t <= Len(stk2)
    /\ \A p \in 1 .. t : stk2[p] = stk[p]
    /\ \A p \in t + 1 .. Len(stk2) : ~ IsReturn(stk2, p) /\ ~ IsCatch(stk2, p)
    /\ t # 0 => ~ IsCatch(stk, t)
    /\ Len(cs) \in Nat /\ Len(cs2) \in Nat /\ Len(cs2) <= Len(cs)
    /\ DOMAIN cs = 1 .. Len(cs) /\ DOMAIN cs2 = 1 .. Len(cs2)
    /\ (cs = << >> <=> Len(cs) = 0) /\ (cs2 = << >> <=> Len(cs2) = 0)
    /\ \A k \in 1 .. Len(cs2) : cs2[k].sp = cs[k].sp /\ cs2[k].entry = cs[k].entry /\ cs2[k].sp \in 0 .. t
    /\ \A k \in 1 .. Len(cs) : cs[k].sp < t => k <= Len(cs2)
    /\ cs # << >> /\ t # 0 => cs2 # << >>
    /\ LastReturn(stk, r2.fb, t) /\ r2.pc = CodeOf(stk, r.pc, t)

LEMMA CutMarks ==
    ASSUME NEW stk, NEW r, NEW cs, NEW stk2, NEW r2, NEW cs2, NEW t, Cut(stk2, r2, cs2, stk, r, cs, t)
    PROVE  /\ Under(stk2, r2.pc, cs2, stk, r.pc, cs)
           /\ \A p \in Marks(stk2, cs2, Len(stk2)) : p \in 0 .. t
           /\ \A q \in Marks(stk, cs, Len(stk)) : q < t => q \in Marks(stk2, cs2, Len(stk2))
           /\ Len(cs2) = Len(cs) => \A q \in Marks(stk, cs, Len(stk)) : q <= t => q \in Marks(stk2, cs2, Len(stk2))
<1>1. PICK m, m2, n, n2 : m = Len(stk) /\ m2 = Len(stk2) /\ n = Len(cs) /\ n2 = Len(cs2)
  OBVIOUS
<1>2. /\ m \in Nat /\ m2 \in Nat /\ t \in Nat /\ t <= m /\ t <= m2 /\ n \in Nat /\ n2 \in Nat /\ n2 <= n
      /\ DOMAIN cs = 1 .. n /\ DOMAIN cs2 = 1 .. n2 /\ (cs = << >> <=> n = 0) /\ (cs2 = << >> <=> n2 = 0)
  BY <1>1 DEF Cut
<1>3. /\ \A p \in 1 .. t : stk2[p] = stk[p]
      /\ \A p \in t + 1 .. m2 : ~ IsReturn(stk2, p) /\ ~ IsCatch(stk2, p)
      /\ t # 0 => ~ IsCatch(stk, t)
  BY <1>1 DEF Cut
<1>4. /\ \A k \in 1 .. n2 : cs2[k].sp = cs[k].sp /\ cs2[k].sp \in 0 .. t
      /\ \A k \in 1 .. n : cs[k].sp < t => k <= n2
      /\ cs # << >> /\ t # 0 => cs2 # << >>
  BY <1>1 DEF Cut
<1>5. ASSUME NEW p \in 1 .. t PROVE (IsReturn(stk2, p) <=> IsReturn(stk, p)) /\ (IsCatch(stk2, p) <=> IsCatch(stk, p))
  BY <1>3 DEF IsReturn, IsCatch
<1>6. ASSUME NEW p \in Nat, p # 0, IsHost(cs2, p) PROVE IsHost(cs, p) /\ p \in 1 .. t
  <2>1. PICK k \in 1 .. n2 : cs2[k].sp = p
    BY <1>2, <1>6 DEF IsHost
  <2>2. k \in 1 .. n /\ cs[k].sp = p /\ p \in 0 .. t
    BY <2>1, <1>2, <1>4
  <2> QED
    BY <2>2, <1>2, <1>6 DEF IsHost
<1>7. ASSUME NEW p \in Nat, IsHost(cs, p), p < t \/ n2 = n PROVE IsHost(cs2, p)
  <2>1. PICK k \in 1 .. n : cs[k].sp = p
    BY <1>2, <1>7 DEF IsHost
  <2>2. k \in 1 .. n2
    BY <2>1, <1>2, <1>4, <1>7
  <2>3. cs2[k].sp = p
    BY <2>1, <2>2, <1>4
  <2> QED
    BY <2>2, <2>3, <1>2 DEF IsHost
<1>8. ASSUME NEW p \in Marks(stk2, cs2, m2) PROVE p \in 0 .. t /\ p \in Marks(stk, cs, m)
  <2>1. p \in 0 .. m2 /\ p \in Nat /\ IsMark(stk2, cs2, p)
    BY DEF Marks
  <2>2. CASE p = 0
    <3>1. cs # << >>
      BY <2>1, <2>2, <1>2 DEF IsMark
    <3>2. IsMark(stk, cs, p) /\ p \in 0 .. m
      BY <3>1, <2>2, <1>2 DEF IsMark
    <3> QED
      BY <3>2, <2>2, <1>2 DEF Marks
  <2>3. CASE p # 0
    <3>1. IsReturn(stk2, p) \/ IsCatch(stk2, p) \/ IsHost(cs2, p)
      BY <2>1, <2>3 DEF IsMark
    <3>2. p \in 1 .. t
      <4>1. p \in 1 .. t \/ p \in t + 1 .. m2
        BY <2>1, <2>3, <1>2
      <4> QED
        BY <4>1, <3>1, <2>1, <2>3, <1>3, <1>6
    <3>3. IsMark(stk, cs, p)
      BY <3>1, <3>2, <2>1, <2>3, <1>5, <1>6 DEF IsMark
    <3>4. p \in 0 .. t /\ p \in 0 .. m
      BY <3>2, <1>2
    <3> QED
      BY <3>3, <3>4 DEF Marks
  <2> QED
    BY <2>2, <2>3
<1>9. ASSUME NEW q \in Marks(stk, cs, m), q < t \/ (n2 = n /\ q <= t) PROVE q \in Marks(stk2, cs2, m2)
  <2>1. q \in 0 .. m /\ q \in Nat /\ IsMark(stk, cs, q)
    BY DEF Marks
  <2>2. q \in 0 .. m2
    BY <2>1, <1>2, <1>9
  <2>3. CASE q = 0
    <3>1. cs2 # << >>
      BY <2>1, <2>3, <1>2, <1>4, <1>9 DEF IsMark
    <3>2. IsMark(stk2, cs2, q)
      BY <3>1, <2>3 DEF IsMark
    <3> QED
      BY <3>2, <2>2 DEF Marks
  <2>4. CASE q # 0
    <3>1. IsReturn(stk, q) \/ IsCatch(stk, q) \/ IsHost(cs, q)
      BY <2>1, <2>4 DEF IsMark
    <3>2. q \in 1 .. t
      BY <2>1, <2>4, <1>2, <1>9
    <3>3. IsMark(stk2, cs2, q)
      BY <3>1, <3>2, <2>1, <2>4, <1>5, <1>7, <1>9 DEF IsMark
    <3> QED
      BY <3>3, <2>2 DEF Marks
  <2> QED
    BY <2>3, <2>4
<1>10. ASSUME NEW p \in Marks(stk2, cs2, m2) PROVE Marked(stk2, r2.pc, p) = Marked(stk, r.pc, p)
  <2>1. p \in 0 .. t /\ p \in Nat
    BY <1>8, <1>2
  <2>2. CASE p = 0
    BY <2>2 DEF Marked
  <2>3. CASE p # 0
    <3>1. p \in 1 .. t
      BY <2>1, <2>3
    <3>2. CodeOf(stk2, r2.pc, p) = CodeOf(stk, r.pc, p)
      <4>1. PICK pc : pc = r.pc
        OBVIOUS
      <4>2. CodeOf(stk2, CodeOf(stk, pc, t), p) = CodeOf(stk, pc, p)
        BY <2>1, <1>1, <1>2, <1>3, CodeCut
      <4>3. r2.pc = CodeOf(stk, pc, t)
        BY <4>1 DEF Cut
      <4> QED
        BY <4>1, <4>2, <4>3
    <3>3. IsCatch(stk, p) => stk2[p + 1] = stk[p + 1]
      <4>1. SUFFICES ASSUME IsCatch(stk, p) PROVE p + 1 \in 1 .. t
        BY <1>3
      <4>2. p # t
        BY <4>1, <3>1, <1>3
      <4> QED
        BY <4>2, <3>1, <1>2
    <3> QED
      BY <3>1, <3>2, <3>3, <1>5, <2>3 DEF Marked
  <2> QED
    BY <2>2, <2>3
<1>11. ASSUME NEW p \in Marks(stk2, cs2, m2), NEW q \in Marks(stk, cs, m), q < p PROVE q \in Marks(stk2, cs2, m2)
  <2>1. p \in 0 .. t /\ q \in Nat
    BY <1>8 DEF Marks
  <2>2. q < t
    BY <2>1, <1>2, <1>11
  <2> QED
    BY <2>2, <1>9
<1>12. Under(stk2, r2.pc, cs2, stk, r.pc, cs)
  BY <1>1, <1>2, <1>8, <1>10, <1>11 DEF Under
<1> QED
  BY <1>1, <1>8, <1>9, <1>12

(* Words of a boundary below t are the same in stacks that agree up to t.  *)
LEMMA CallerBaseSame ==
    ASSUME NEW stk, NEW stk2, NEW t \in Nat, \A p \in 1 .. t : stk2[p] = stk[p],
           NEW b \in 1 .. t, b > 3
    PROVE  CallerBase(stk2, b) = CallerBase(stk, b)
<1>1. b - 3 \in 1 .. t
  OBVIOUS
<1> QED
  BY <1>1 DEF CallerBase

LEMMA CutOrder ==
    ASSUME NEW stk, NEW r, NEW cs, NEW stk2, NEW r2, NEW cs2, NEW t, Cut(stk2, r2, cs2, stk, r, cs, t),
           InOrder(stk, r, cs)
    PROVE  InOrder(stk2, r2, cs2)
<1>1. PICK m, m2, n2 : m = Len(stk) /\ m2 = Len(stk2) /\ n2 = Len(cs2)
  OBVIOUS
<1>2. m \in Nat /\ m2 \in Nat /\ t \in Nat /\ t <= m /\ t <= m2 /\ n2 \in Nat /\ n2 <= Len(cs) /\ DOMAIN cs2 = 1 .. n2
      /\ DOMAIN cs = 1 .. Len(cs) /\ Len(cs) \in Nat
  BY <1>1 DEF Cut
<1>3. /\ \A p \in 1 .. t : stk2[p] = stk[p]
      /\ \A p \in t + 1 .. m2 : ~ IsReturn(stk2, p) /\ ~ IsCatch(stk2, p)
      /\ t # 0 => ~ IsCatch(stk, t)
  BY <1>1 DEF Cut
<1>4. \A k \in 1 .. n2 : cs2[k].sp = cs[k].sp /\ cs2[k].entry = cs[k].entry /\ cs2[k].sp \in 0 .. t
  BY <1>1 DEF Cut
<1>5. LastReturn(stk, r2.fb, t) /\ r2.pc = CodeOf(stk, r.pc, t)
  BY DEF Cut
<1>6. /\ \A b \in 1 .. m : IsReturn(stk, b) => b > 3 /\ LastReturn(stk, CallerBase(stk, b), b - 1)
      /\ \A p \in 1 .. m : IsCatch(stk, p) => p + 1 <= m /\ stk[p + 1][1] = "handler"
      /\ \A k \in DOMAIN cs :
            LastReturn(stk, cs[k].entry.fb, cs[k].sp) /\ cs[k].entry.pc = CodeOf(stk, r.pc, cs[k].sp)
  BY <1>1 DEF InOrder
<1>7. LastReturn(stk2, r2.fb, m2)
  <2>1. PICK b : b = r2.fb
    OBVIOUS
  <2>2. LastReturn(stk2, b, t)
    <3>1. t <= t /\ LastReturn(stk, b, t)
      BY <2>1, <1>2, <1>5
    <3> QED
      BY <3>1, <1>2, <1>3, LastReturnSame
  <2>3. b \in 0 .. t /\ (b = 0 \/ IsReturn(stk2, b)) /\ \A p \in b + 1 .. t : ~ IsReturn(stk2, p)
    BY <2>2 DEF LastReturn
  <2>4. \A p \in b + 1 .. m2 : p \in b + 1 .. t \/ p \in t + 1 .. m2
    BY <2>3, <1>2
  <2>5. b \in 0 .. m2 /\ \A p \in b + 1 .. m2 : ~ IsReturn(stk2, p)
    BY <2>3, <2>4, <1>2, <1>3
  <2> QED
    BY <2>1, <2>3, <2>5 DEF LastReturn
<1>8. ASSUME NEW p \in 1 .. m2, IsReturn(stk2, p) \/ IsCatch(stk2, p)
      PROVE  p \in 1 .. t /\ p \in 1 .. m /\ stk2[p] = stk[p]
  <2>1. p \in 1 .. t \/ p \in t + 1 .. m2
    BY <1>2
  <2>2. p \in 1 .. t
    BY <2>1, <1>3, <1>8
  <2> QED
    BY <2>2, <1>2, <1>3
<1>9. ASSUME NEW b \in 1 .. m2, IsReturn(stk2, b)
      PROVE  b > 3 /\ LastReturn(stk2, CallerBase(stk2, b), b - 1)
  <2>1. b \in 1 .. t /\ b \in 1 .. m /\ IsReturn(stk, b)
    BY <1>8, <1>9 DEF IsReturn
  <2>2. PICK d, u : d = CallerBase(stk, b) /\ u = b - 1
    OBVIOUS
  <2>3. b > 3 /\ LastReturn(stk, d, u)
    BY <2>1, <2>2, <1>6
  <2>4. CallerBase(stk2, b) = d
    <3>1. t \in Nat /\ b \in 1 .. t /\ b > 3 /\ \A p \in 1 .. t : stk2[p] = stk[p]
      BY <2>1, <2>3, <1>2, <1>3
    <3>2. CallerBase(stk2, b) = CallerBase(stk, b)
      BY <3>1, CallerBaseSame
    <3> QED
      BY <3>2, <2>2
  <2>5. u \in Nat /\ u <= t
    BY <2>1, <2>2, <1>2
  <2>6. LastReturn(stk2, d, u)
    BY <2>3, <2>5, <1>2, <1>3, LastReturnSame
  <2> QED
    BY <2>2, <2>3, <2>4, <2>6
<1>10. ASSUME NEW p \in 1 .. m2, IsCatch(stk2, p) PROVE p + 1 <= m2 /\ stk2[p + 1][1] = "handler"
  <2>1. p \in 1 .. t /\ p \in 1 .. m /\ IsCatch(stk, p)
    BY <1>8, <1>10 DEF IsCatch
  <2>2. p # t
    BY <2>1, <1>3
  <2>3. p + 1 \in 1 .. t /\ p + 1 <= m2
    BY <2>1, <2>2, <1>2
  <2> QED
    BY <2>1, <2>3, <1>3, <1>6
<1>11. ASSUME NEW k \in 1 .. n2
       PROVE  LastReturn(stk2, cs2[k].entry.fb, cs2[k].sp) /\ cs2[k].entry.pc = CodeOf(stk2, r2.pc, cs2[k].sp)
  <2>1. PICK u, e, pc : u = cs[k].sp /\ e = cs[k].entry.fb /\ pc = r.pc
    OBVIOUS
  <2>2. u \in 0 .. t /\ u \in Nat /\ u <= t /\ cs2[k].sp = u /\ cs2[k].entry = cs[k].entry
    BY <2>1, <1>2, <1>4
  <2>3. k \in DOMAIN cs
    BY <1>2
  <2>4. LastReturn(stk, e, u) /\ cs[k].entry.pc = CodeOf(stk, pc, u)
    BY <2>1, <2>3, <1>6
  <2>5. LastReturn(stk2, e, u)
    BY <2>2, <2>4, <1>2, <1>3, LastReturnSame
  <2>6. CodeOf(stk2, CodeOf(stk, pc, t), u) = CodeOf(stk, pc, u)
    BY <2>2, <1>1, <1>2, <1>3, CodeCut
  <2>7. r2.pc = CodeOf(stk, pc, t)
    BY <2>1, <1>5
  <2> QED
    BY <2>1, <2>2, <2>4, <2>5, <2>6, <2>7
<1> QED
  BY <1>1, <1>2, <1>7, <1>9, <1>10, <1>11 DEF InOrder

(* The reverse: stk is what was there, stk2 has more words, cs2 may have   *)
(* more activations.                                                       *)
LEMMA GrowOrder ==
    ASSUME NEW stk, NEW r, NEW cs, NEW stk2, NEW r2, NEW cs2, NEW t, t = Len(stk),
           Cut(stk, r, cs, stk2, r2, cs2, t), InOrder(stk, r, cs),
           LastReturn(stk2, r2.fb, Len(stk2)),
           \A b \in t + 1 .. Len(stk2) : IsReturn(stk2, b) => b > 3 /\ LastReturn(stk2, CallerBase(stk2, b), b - 1),
           \A p \in t + 1 .. Len(stk2) : IsCatch(stk2, p) => p + 1 <= Len(stk2) /\ stk2[p + 1][1] = "handler",
           \A k \in Len(cs) + 1 .. Len(cs2) :
               LastReturn(stk2, cs2[k].entry.fb, cs2[k].sp) /\ cs2[k].entry.pc = CodeOf(stk2, r2.pc, cs2[k].sp)
    PROVE  InOrder(stk2, r2, cs2)
<1>1. PICK m2, n, n2 : m2 = Len(stk2) /\ n = Len(cs) /\ n2 = Len(cs2)
  OBVIOUS
<1>2. m2 \in Nat /\ t \in Nat /\ t <= m2 /\ n \in Nat /\ n2 \in Nat /\ n <= n2 /\ DOMAIN cs2 = 1 .. n2
      /\ DOMAIN cs = 1 .. n
  BY <1>1 DEF Cut
<1>3. \A p \in 1 .. t : stk2[p] = stk[p]
  <2>1. \A p \in 1 .. t : stk[p] = stk2[p]
    BY DEF Cut
  <2> QED
    BY <2>1
<1>4. \A k \in 1 .. n : cs2[k].sp = cs[k].sp /\ cs2[k].entry = cs[k].entry /\ cs[k].sp \in 0 .. t
  BY <1>1 DEF Cut
<1>5. r.pc = CodeOf(stk2, r2.pc, t)
  BY DEF Cut
<1>6. /\ \A b \in 1 .. t : IsReturn(stk, b) => b > 3 /\ LastReturn(stk, CallerBase(stk, b), b - 1)
      /\ \A p \in 1 .. t : IsCatch(stk, p) => p + 1 <= t /\ stk[p + 1][1] = "handler"
      /\ \A k \in DOMAIN cs :
            LastReturn(stk, cs[k].entry.fb, cs[k].sp) /\ cs[k].entry.pc = CodeOf(stk, r.pc, cs[k].sp)
  BY DEF InOrder
<1>7. \A p \in 1 .. m2 : p \in 1 .. t \/ p \in t + 1 .. m2
  BY <1>2
<1>9. ASSUME NEW b \in 1 .. m2, IsReturn(stk2, b)
      PROVE  b > 3 /\ LastReturn(stk2, CallerBase(stk2, b), b - 1)
  <2>1. CASE b \in t + 1 .. m2
    BY <2>1, <1>1, <1>9
  <2>2. CASE b \in 1 .. t
    <3>1. IsReturn(stk, b)
      BY <2>2, <1>3, <1>9 DEF IsReturn
    <3>2. PICK d, u : d = CallerBase(stk, b) /\ u = b - 1
      OBVIOUS
    <3>3. b > 3 /\ LastReturn(stk, d, u)
      BY <2>2, <3>1, <3>2, <1>6
    <3>4. CallerBase(stk2, b) = d
      <4>1. CallerBase(stk2, b) = CallerBase(stk, b)
        <5>1. b - 3 \in 1 .. t
          BY <2>2, <3>3, <1>2
        <5>2. stk2[b - 3] = stk[b - 3]
          BY <5>1, <1>3
        <5> QED
          BY <5>2 DEF CallerBase
      <4> QED
        BY <4>1, <3>2
    <3>5. u \in Nat /\ u <= t
      BY <2>2, <3>2, <1>2
    <3>6. LastReturn(stk2, d, u)
      BY <3>3, <3>5, <1>2, <1>3, LastReturnSame
    <3> QED
      BY <3>2, <3>3, <3>4, <3>6
  <2> QED
    BY <2>1, <2>2, <1>7
<1>10. ASSUME NEW p \in 1 .. m2, IsCatch(stk2, p) PROVE p + 1 <= m2 /\ stk2[p + 1][1] = "handler"
  <2>1. CASE p \in t + 1 .. m2
    BY <2>1, <1>1, <1>10
  <2>2. CASE p \in 1 .. t
    <3>1. IsCatch(stk, p)
      BY <2>2, <1>3, <1>10 DEF IsCatch
    <3>2. p + 1 <= t /\ stk[p + 1][1] = "handler"
      BY <2>2, <3>1, <1>6
    <3>3. p + 1 \in 1 .. t /\ p + 1 <= m2
      BY <2>2, <3>2, <1>2
    <3> QED
      BY <3>2, <3>3, <1>3
  <2> QED
    BY <2>1, <2>2, <1>7
<1>11. ASSUME NEW k \in 1 .. n2
       PROVE  LastReturn(stk2, cs2[k].entry.fb, cs2[k].sp) /\ cs2[k].entry.pc = CodeOf(stk2, r2.pc, cs2[k].sp)
  <2>1. CASE k \in n + 1 .. n2
    BY <2>1, <1>1
  <2>2. CASE k \in 1 .. n
    <3>1. PICK u, e, pc : u = cs[k].sp /\ e = cs[k].entry.fb /\ pc = r2.pc
      OBVIOUS
    <3>2. u \in 0 .. t /\ u \in Nat /\ u <= t /\ cs2[k].sp = u /\ cs2[k].entry = cs[k].entry
      BY <3>1, <2>2, <1>2, <1>4
    <3>3. k \in DOMAIN cs
      BY <2>2, <1>2
    <3>4. LastReturn(stk, e, u) /\ cs[k].entry.pc = CodeOf(stk, r.pc, u)
      BY <3>1, <3>3, <1>6
    <3>5. LastReturn(stk2, e, u)
      BY <3>2, <3>4, <1>2, <1>3, LastReturnSame
    <3>6. CodeOf(stk, CodeOf(stk2, pc, t), u) = CodeOf(stk2, pc, u)
      <4>1. /\ Len(stk) \in Nat /\ Len(stk2) \in Nat /\ t <= Len(stk2) /\ t <= Len(stk)
            /\ \A p \in 1 .. t : stk[p] = stk2[p]
            /\ \A p \in t + 1 .. Len(stk) : ~ IsReturn(stk, p)
        BY DEF Cut
      <4> QED
        BY <4>1, <3>2, <1>2, CodeCut
    <3>7. r.pc = CodeOf(stk2, pc, t)
      BY <3>1, <1>5
    <3> QED
      BY <3>1, <3>2, <3>4, <3>5, <3>6, <3>7
  <2>3. k \in 1 .. n \/ k \in n + 1 .. n2
    BY <1>2
  <2> QED
    BY <2>1, <2>2, <2>3
<1> QED
  BY <1>1, <1>2, <1>9, <1>10, <1>11 DEF InOrder

(* No item of the control state is above t.                                *)
NothingAbove(stk, cs, t) ==
    /\ \A p \in t + 1 .. Len(stk) : ~ IsReturn(stk, p) /\ ~ IsCatch(stk, p)
    /\ \A k \in DOMAIN cs : cs[k].sp <= t

LEMMA CutSame ==
    ASSUME NEW stk, NEW r, NEW cs, NEW stk2, NEW r2, NEW cs2, NEW t, Cut(stk2, r2, cs2, stk, r, cs, t),
           Len(cs2) = Len(cs), NothingAbove(stk, cs, t)
    PROVE  ControlOf(stk2, r2.pc, cs2) = ControlOf(stk, r.pc, cs)
<1>1. t \in Nat /\ t <= Len(stk) /\ Len(stk) \in Nat
  BY DEF Cut
<1>2. ASSUME NEW q \in Marks(stk, cs, Len(stk)) PROVE q <= t
  <2>1. q \in 0 .. Len(stk) /\ IsMark(stk, cs, q)
    BY DEF Marks
  <2>2. CASE q = 0
    BY <2>2, <1>1
  <2>3. CASE q # 0
    <3>1. IsReturn(stk, q) \/ IsCatch(stk, q) \/ IsHost(cs, q)
      BY <2>1, <2>3 DEF IsMark
    <3>2. IsHost(cs, q) => q <= t
      BY DEF IsHost, NothingAbove
    <3>3. q \in t + 1 .. Len(stk) => ~ IsReturn(stk, q) /\ ~ IsCatch(stk, q)
      BY DEF NothingAbove
    <3>4. q <= t \/ q \in t + 1 .. Len(stk)
      BY <2>1, <1>1
    <3> QED
      BY <3>1, <3>2, <3>3, <3>4
  <2> QED
    BY <2>2, <2>3
<1>3. /\ Under(stk2, r2.pc, cs2, stk, r.pc, cs)
      /\ \A q \in Marks(stk, cs, Len(stk)) : q <= t => q \in Marks(stk2, cs2, Len(stk2))
  BY CutMarks
<1>4. \A q \in Marks(stk, cs, Len(stk)) : q \in Marks(stk2, cs2, Len(stk2))
  BY <1>2, <1>3
<1>5. PICK pc, pc2 : pc = r.pc /\ pc2 = r2.pc
  OBVIOUS
<1>6. Under(stk2, pc2, cs2, stk, pc, cs)
  BY <1>3, <1>5
<1>7. ControlOf(stk2, pc2, cs2) = ControlOf(stk, pc, cs)
  BY <1>4, <1>6, SameControl
<1> QED
  BY <1>5, <1>7

(* One item is above t: the boundary or the catch target at m.             *)
LEMMA CutPushed ==
    ASSUME NEW stk, NEW r, NEW cs, NEW stk2, NEW r2, NEW cs2, NEW t, Cut(stk2, r2, cs2, stk, r, cs, t),
           Len(cs2) = Len(cs), \A k \in DOMAIN cs : cs[k].sp <= t,
           NEW m \in t + 1 .. Len(stk), IsReturn(stk, m) \/ IsCatch(stk, m),
           \A p \in t + 1 .. Len(stk) : p # m => ~ IsReturn(stk, p) /\ ~ IsCatch(stk, p)
    PROVE  ControlOf(stk, r.pc, cs) = Append(ControlOf(stk2, r2.pc, cs2), Marked(stk, r.pc, m))
<1>1. t \in Nat /\ t <= Len(stk) /\ Len(stk) \in Nat
  BY DEF Cut
<1>2. ASSUME NEW q \in Marks(stk, cs, Len(stk)) PROVE q = m \/ q <= t
  <2>1. q \in 0 .. Len(stk) /\ IsMark(stk, cs, q)
    BY DEF Marks
  <2>2. CASE q = 0
    BY <2>2, <1>1
  <2>3. CASE q # 0
    <3>1. IsReturn(stk, q) \/ IsCatch(stk, q) \/ IsHost(cs, q)
      BY <2>1, <2>3 DEF IsMark
    <3>2. IsHost(cs, q) => q <= t
      BY DEF IsHost
    <3>3. q \in t + 1 .. Len(stk) => q = m \/ (~ IsReturn(stk, q) /\ ~ IsCatch(stk, q))
      OBVIOUS
    <3>4. q <= t \/ q \in t + 1 .. Len(stk)
      BY <2>1, <1>1
    <3> QED
      BY <3>1, <3>2, <3>3, <3>4
  <2> QED
    BY <2>2, <2>3
<1>3. /\ Under(stk2, r2.pc, cs2, stk, r.pc, cs)
      /\ \A p \in Marks(stk2, cs2, Len(stk2)) : p \in 0 .. t
      /\ \A q \in Marks(stk, cs, Len(stk)) : q <= t => q \in Marks(stk2, cs2, Len(stk2))
  BY CutMarks
<1>4. \A q \in Marks(stk, cs, Len(stk)) : q = m \/ q \in Marks(stk2, cs2, Len(stk2))
  BY <1>2, <1>3
<1>5. m \notin Marks(stk2, cs2, Len(stk2))
  <2>1. m \notin 0 .. t
    BY <1>1
  <2> QED
    BY <2>1, <1>3
<1>6. m \in Marks(stk, cs, Len(stk))
  <2>1. m \in 0 .. Len(stk) /\ m # 0
    BY <1>1
  <2>2. IsMark(stk, cs, m)
    BY <2>1 DEF IsMark
  <2> QED
    BY <2>1, <2>2 DEF Marks
<1>7. PICK pc, pc2 : pc = r.pc /\ pc2 = r2.pc
  OBVIOUS
<1>8. Under(stk2, pc2, cs2, stk, pc, cs)
  BY <1>3, <1>7
<1>9. ControlOf(stk, pc, cs) = Append(ControlOf(stk2, pc2, cs2), Marked(stk, pc, m))
  BY <1>4, <1>5, <1>6, <1>8, PushedControl
<1> QED
  BY <1>7, <1>9

-----------------------------------------------------------------------------
(* Unwinding.                                                              *)

LEMMA CodeSame ==
    ASSUME NEW stk, Len(stk) \in Nat, NEW pc, NEW pc2, NEW b \in Nat, NEW d \in b + 1 .. Len(stk), IsReturn(stk, d)
    PROVE  CodeOf(stk, pc2, b) = CodeOf(stk, pc, b)
<1>1. PICK p \in b + 1 .. Len(stk) : IsReturn(stk, p) /\ \A q \in b + 1 .. p - 1 : ~ IsReturn(stk, q)
  BY FirstReturn
<1>2. CodeOf(stk, pc, b) = stk[p][2]
  BY <1>1, CodeNext
<1>3. CodeOf(stk, pc2, b) = stk[p][2]
  BY <1>1, CodeNext
<1> QED
  BY <1>2, <1>3

(* Which code the innermost frame executes is nothing the frames below     *)
(* tell.                                                                   *)
LEMMA PcOrder ==
    ASSUME NEW stk, Len(stk) \in Nat, NEW r, NEW r2, NEW cs, InOrder(stk, r, cs), r2.fb = r.fb,
           NEW d \in 1 .. Len(stk), IsReturn(stk, d), \A k \in DOMAIN cs : cs[k].sp \in Nat /\ cs[k].sp < d
    PROVE  InOrder(stk, r2, cs)
<1>1. ASSUME NEW k \in DOMAIN cs PROVE CodeOf(stk, r2.pc, cs[k].sp) = CodeOf(stk, r.pc, cs[k].sp)
  <2>1. PICK b, pc, pc2 : b = cs[k].sp /\ pc = r.pc /\ pc2 = r2.pc
    OBVIOUS
  <2>2. b \in Nat /\ d \in b + 1 .. Len(stk)
    BY <2>1
  <2>3. CodeOf(stk, pc2, b) = CodeOf(stk, pc, b)
    BY <2>2, CodeSame
  <2> QED
    BY <2>1, <2>3
<1> QED
  BY <1>1 DEF InOrder

LEMMA MarkedKinds ==
    ASSUME NEW stk, NEW pc, NEW p
    PROVE  /\ p # 0 /\ IsReturn(stk, p) =>
                Marked(stk, pc, p) = Item("js", CodeOf(stk, pc, p)) /\ Marked(stk, pc, p).kind = "js"
           /\ p # 0 /\ IsCatch(stk, p) =>
                /\ Marked(stk, pc, p) = Item("try", stk[p + 1][2]) /\ Marked(stk, pc, p).kind = "try"
                /\ Marked(stk, pc, p).at = stk[p + 1][2]
           /\ p = 0 \/ ~ (IsReturn(stk, p) \/ IsCatch(stk, p)) =>
                Marked(stk, pc, p) = Host /\ Marked(stk, pc, p).kind = "host"
<1>1. Host.kind = "host"
  BY DEF Host, Item
<1>2. IsCatch(stk, p) => ~ IsReturn(stk, p)
  BY DEF IsReturn, IsCatch
<1> QED
  BY <1>1, <1>2, ItemShape DEF Marked

(* The first n of the positions s are those in M, and m is the first mark  *)
(* that is not.                                                            *)
FirstIn(s, c, M, n) == n \in 0 .. Len(c) /\ \A i \in 1 .. Len(c) : s[i] \in M <=> i <= n
FirstOutside(m, M, stk, cs, t) ==
    /\ m \in Marks(stk, cs, t) /\ m \notin M
    /\ \A q \in Marks(stk, cs, t) : q < m => q \in M

LEMMA NextMark ==
    ASSUME NEW c, NEW s, NEW stk, NEW pc, NEW cs, NEW t \in Nat, Reads(c, s, stk, pc, cs, t),
           NEW M, NEW n, FirstIn(s, c, M, n), NEW m, FirstOutside(m, M, stk, cs, t)
    PROVE  /\ Len(c) \in Nat /\ n + 1 \in 1 .. Len(c) /\ s[n + 1] = m
           /\ \A j \in 1 .. Len(c) : n + 1 < j => s[j] \in Marks(stk, cs, t) /\ s[j] \in Nat /\ m < s[j]
<1>1. /\ Len(c) \in Nat /\ Len(s) = Len(c) /\ n \in Nat
      /\ \A i, j \in 1 .. Len(c) : i < j => s[i] < s[j]
      /\ \A i \in 1 .. Len(c) : s[i] \in Marks(stk, cs, t)
      /\ \A p \in Marks(stk, cs, t) : \E i \in 1 .. Len(c) : s[i] = p
      /\ \A p \in Marks(stk, cs, t) : p \in Nat
      /\ \A i \in 1 .. Len(c) : s[i] \in M <=> i <= n
      /\ m \in Marks(stk, cs, t) /\ m \notin M /\ \A q \in Marks(stk, cs, t) : q < m => q \in M
  <2>1. /\ Len(c) \in Nat /\ n \in 0 .. Len(c)
        /\ \A i \in 1 .. Len(c) : s[i] \in M <=> i <= n
        /\ m \in Marks(stk, cs, t) /\ m \notin M /\ \A q \in Marks(stk, cs, t) : q < m => q \in M
    BY LenProperties DEF Reads, FirstIn, FirstOutside
  <2>2. /\ Len(s) = Len(c)
        /\ \A i, j \in 1 .. Len(c) : i < j => s[i] < s[j]
        /\ \A i \in 1 .. Len(c) : s[i] \in Marks(stk, cs, t)
        /\ \A p \in Marks(stk, cs, t) : \E i \in 1 .. Len(c) : s[i] = p
        /\ \A p \in Marks(stk, cs, t) : p \in Nat
    BY DEF Reads, Marks
  <2> QED
    BY <2>1, <2>2
<1>2. PICK i \in 1 .. Len(c) : s[i] = m
  BY <1>1
<1>3. i > n
  BY <1>1, <1>2
<1>4. n + 1 \in 1 .. Len(c)
  BY <1>1, <1>3
<1>5. ~ (n + 1 < i)
  <2>1. SUFFICES ASSUME n + 1 < i PROVE FALSE
    OBVIOUS
  <2>2. s[n + 1] < m /\ s[n + 1] \in Marks(stk, cs, t)
    <3>1. PICK k : k = n + 1
      OBVIOUS
    <3>2. k \in 1 .. Len(c) /\ k < i
      BY <3>1, <2>1, <1>4
    <3>3. s[k] < s[i] /\ s[k] \in Marks(stk, cs, t)
      BY <3>2, <1>1
    <3>4. s[k] < m
      BY <3>3, <1>2
    <3> QED
      BY <3>1, <3>3, <3>4, Zenon
  <2>3. s[n + 1] \in M
    BY <2>2, <1>1
  <2> QED
    BY <2>3, <1>1, <1>4
<1>6. i = n + 1
  BY <1>1, <1>3, <1>5
<1> QED
  BY <1>1, <1>2, <1>4, <1>6

LEMMA ControlShape ==
    ASSUME NEW stk, NEW pc, NEW cs, NEW c, NEW s, NEW t, Reads(c, s, stk, pc, cs, t)
    PROVE  /\ c \in Seq(AllMarked(stk, pc)) /\ Len(c) \in Nat /\ Len(s) = Len(c)
           /\ \A i, j \in 1 .. Len(c) : i < j => s[i] < s[j]
           /\ \A i \in 1 .. Len(c) : s[i] \in Marks(stk, cs, t) /\ c[i] = Marked(stk, pc, s[i])
           /\ \A p \in Marks(stk, cs, t) : \E i \in 1 .. Len(c) : s[i] = p
BY LenProperties DEF Reads

(* An activation ended: the host function that called it goes on.          *)
LEMMA FailedControl ==
    ASSUME NEW stk, NEW r, NEW cs, NEW stk2, NEW r2, NEW cs2, NEW t, Cut(stk2, r2, cs2, stk, r, cs, t),
           NEW n, n = Len(cs), Len(cs2) < n, cs[n].sp = t,
           \A k \in 1 .. n : k # n => cs[k].sp < t, t # 0 => ~ IsReturn(stk, t)
    PROVE  Structured!Failed(ControlOf(stk, r.pc, cs)) = Append(ControlOf(stk2, r2.pc, cs2), Host)
<1>1. PICK pc, pc2, m, m2 : pc = r.pc /\ pc2 = r2.pc /\ m = Len(stk) /\ m2 = Len(stk2)
  OBVIOUS
<1>2. /\ m \in Nat /\ m2 \in Nat /\ t \in Nat /\ t <= m /\ t <= m2 /\ n \in Nat /\ n # 0 /\ n \in 1 .. n
      /\ Len(cs2) \in Nat /\ DOMAIN cs = 1 .. n /\ DOMAIN cs2 = 1 .. Len(cs2) /\ cs # << >>
      /\ (cs2 = << >> <=> Len(cs2) = 0)
      /\ \A k \in 1 .. Len(cs2) : cs2[k].sp = cs[k].sp /\ k \in 1 .. n /\ k # n /\ cs2[k].sp \in 0 .. t
      /\ \A p \in 1 .. t : stk2[p] = stk[p]
      /\ (t # 0 => ~ IsCatch(stk, t))
  <2>1. /\ m \in Nat /\ m2 \in Nat /\ t \in Nat /\ t <= m /\ t <= m2 /\ n \in Nat
        /\ Len(cs2) \in Nat /\ DOMAIN cs = 1 .. n /\ DOMAIN cs2 = 1 .. Len(cs2) /\ (cs = << >> <=> n = 0)
        /\ (cs2 = << >> <=> Len(cs2) = 0)
        /\ \A k \in 1 .. Len(cs2) : cs2[k].sp = cs[k].sp /\ cs2[k].sp \in 0 .. t
        /\ \A p \in 1 .. t : stk2[p] = stk[p]
        /\ (t # 0 => ~ IsCatch(stk, t))
    BY <1>1 DEF Cut
  <2>2. n # 0 /\ n \in 1 .. n /\ \A k \in 1 .. Len(cs2) : k \in 1 .. n /\ k # n
    BY <2>1
  <2> QED
    BY <2>1, <2>2
<1>3. PICK c, c2 : c = ControlOf(stk, pc, cs) /\ c2 = ControlOf(stk2, pc2, cs2)
  OBVIOUS
<1>4. PICK s : Reads(c, s, stk, pc, cs, m)
  BY <1>1, <1>2, <1>3, ControlReads
<1>5. PICK s2 : Reads(c2, s2, stk2, pc2, cs2, m2)
  BY <1>1, <1>2, <1>3, ControlReads
<1>6. PICK M, M2 : M = Marks(stk, cs, m) /\ M2 = Marks(stk2, cs2, m2)
  OBVIOUS
<1>7. /\ Under(stk2, pc2, cs2, stk, pc, cs)
      /\ \A p \in M2 : p \in 0 .. t
      /\ \A q \in M : q < t => q \in M2
  BY <1>1, <1>6, CutMarks
<1>8. /\ Len(c2) \in 0 .. Len(c) /\ Len(c) \in Nat
      /\ \A i \in 1 .. Len(c2) : c2[i] = c[i]
      /\ \A i \in 1 .. Len(c) : s[i] \in M2 <=> i <= Len(c2)
  BY <1>1, <1>4, <1>5, <1>6, <1>7, UnderReads
<1>9. t \notin M2
  <2>1. CASE t = 0
    <3>1. Len(cs2) = 0
      <4>1. SUFFICES ASSUME Len(cs2) # 0 PROVE FALSE
        OBVIOUS
      <4>2. 1 \in 1 .. Len(cs2)
        BY <4>1, <1>2
      <4>3. cs[1].sp < t /\ cs[1].sp \in 0 .. t
        BY <4>2, <1>2
      <4> QED
        BY <4>3, <2>1
    <3> QED
      BY <3>1, <2>1, <1>2, <1>6 DEF Marks, IsMark
  <2>2. CASE t # 0
    <3>1. t \in 1 .. t
      BY <2>2, <1>2
    <3>2. ~ IsReturn(stk2, t) /\ ~ IsCatch(stk2, t)
      BY <3>1, <2>2, <1>2 DEF IsReturn, IsCatch
    <3>3. ~ IsHost(cs2, t)
      <4>1. \A k \in 1 .. Len(cs2) : cs2[k].sp < t
        BY <1>2
      <4>2. \A k \in 1 .. Len(cs2) : cs2[k].sp # t
        BY <4>1, <1>2
      <4> QED
        BY <4>2, <1>2 DEF IsHost
    <3> QED
      BY <3>2, <3>3, <2>2, <1>6 DEF Marks, IsMark
  <2> QED
    BY <2>1, <2>2
<1>10. t \in M
  <2>1. IsHost(cs, t)
    BY <1>2 DEF IsHost
  <2> QED
    BY <2>1, <1>2, <1>6 DEF Marks, IsMark
<1>11. PICK l : l = Len(c2)
  OBVIOUS
<1>12. /\ l + 1 \in 1 .. Len(c) /\ s[l + 1] = t
       /\ \A j \in 1 .. Len(c) : l + 1 < j => s[j] \in M /\ s[j] \in Nat /\ t < s[j]
  <2>1. FirstIn(s, c, M2, l)
    BY <1>8, <1>11 DEF FirstIn
  <2>2. FirstOutside(t, M2, stk, cs, m)
    BY <1>6, <1>7, <1>9, <1>10 DEF FirstOutside
  <2>3. /\ Len(c) \in Nat /\ l + 1 \in 1 .. Len(c) /\ s[l + 1] = t
        /\ \A j \in 1 .. Len(c) : l + 1 < j => s[j] \in Marks(stk, cs, m) /\ s[j] \in Nat /\ t < s[j]
    <3>1. m \in Nat
      BY <1>2
    <3> QED
      BY <2>1, <2>2, <3>1, <1>4, NextMark
  <2> QED
    BY <2>3, <1>6
<1>13. c \in Seq(AllMarked(stk, pc)) /\ \A i \in 1 .. Len(c) : c[i] = Marked(stk, pc, s[i])
  BY <1>4, ControlShape
<1>14. c[l + 1] = Host /\ c[l + 1].kind = "host"
  BY <1>2, <1>12, <1>13, MarkedKinds
<1>15. ASSUME NEW j \in 1 .. Len(c), l + 1 < j PROVE c[j].kind # "host"
  <2>1. PICK p : p = s[j]
    OBVIOUS
  <2>2. p \in M /\ p \in Nat /\ t < p
    BY <2>1, <1>12, <1>15
  <2>3. p # 0 /\ IsMark(stk, cs, p)
    BY <2>2, <1>2, <1>6 DEF Marks
  <2>4. ~ IsHost(cs, p)
    <3>1. ASSUME NEW k \in 1 .. n PROVE cs[k].sp # p
      BY <2>2, <1>2
    <3> QED
      BY <3>1, <1>2 DEF IsHost
  <2>5. IsReturn(stk, p) \/ IsCatch(stk, p)
    BY <2>3, <2>4 DEF IsMark
  <2>6. Marked(stk, pc, p).kind \in {"js", "try"}
    BY <2>3, <2>5, MarkedKinds
  <2> QED
    BY <2>1, <2>6, <1>13
<1>16. PICK k, f : k = l + 1 /\ f = SubSeq(c, 1, k)
  OBVIOUS
<1>17. Structured!Failed(c) = f
  <2>1. k \in 1 .. Len(c) /\ c[k].kind = "host" /\ \A j \in 1 .. Len(c) : k < j => c[j].kind # "host"
    BY <1>12, <1>14, <1>15, <1>16
  <2> QED
    BY <2>1, <1>13, <1>16, FailedAt
<1>18. f \in Seq(AllMarked(stk, pc)) /\ Len(f) = k /\ \A i \in 1 .. k : f[i] = c[i]
  <2>1. k \in 0 .. Len(c)
    BY <1>8, <1>12, <1>16
  <2> QED
    BY <2>1, <1>13, <1>16, CutShape
<1>19. PICK U, x, d : U = AllMarked(stk2, pc2) \cup {Host} /\ x = Host /\ d = Append(c2, x)
  OBVIOUS
<1>20. c2 \in Seq(U) /\ x \in U
  BY <1>5, <1>19, ControlShape, SeqMonotonic
<1>21. d \in Seq(U) /\ Len(d) = l + 1 /\ d[l + 1] = x /\ \A j \in 1 .. l : d[j] = c2[j]
  BY <1>11, <1>19, <1>20, AppendProperties
<1>22. \A j \in 1 .. k : f[j] = d[j]
  <2>1. \A j \in 1 .. k : j \in 1 .. l \/ j = l + 1
    BY <1>8, <1>11, <1>16
  <2> QED
    BY <2>1, <1>8, <1>11, <1>14, <1>16, <1>18, <1>19, <1>21
<1>23. f = d
  BY <1>16, <1>18, <1>21, <1>22, SeqAlike
<1> QED
  BY <1>1, <1>3, <1>17, <1>19, <1>23

(* A new activation.                                                       *)
LEMMA EnterControl ==
    ASSUME NEW stk, NEW r, NEW cs, NEW stk2, NEW r2, NEW cs2, NEW t, Cut(stk2, r2, cs2, stk, r, cs, t),
           NEW n, n = Len(cs), Len(cs2) < n, cs[n].sp = t, NothingAbove(stk, cs, t),
           \A k \in 1 .. n : k # n => cs[k].sp < t, t # 0 => ~ IsReturn(stk, t)
    PROVE  ControlOf(stk, r.pc, cs) = Append(ControlOf(stk2, r2.pc, cs2), Host)
<1>1. PICK pc, m : pc = r.pc /\ m = Len(stk)
  OBVIOUS
<1>2. /\ m \in Nat /\ t \in Nat /\ t <= m /\ n \in Nat /\ n # 0 /\ n \in 1 .. n
      /\ DOMAIN cs = 1 .. n /\ cs # << >> /\ (t # 0 => ~ IsCatch(stk, t))
      /\ Len(cs2) \in Nat
  <2>1. /\ m \in Nat /\ t \in Nat /\ t <= m /\ n \in Nat /\ Len(cs2) \in Nat
        /\ DOMAIN cs = 1 .. n /\ (cs = << >> <=> n = 0) /\ (t # 0 => ~ IsCatch(stk, t))
    BY <1>1 DEF Cut
  <2>2. n # 0 /\ n \in 1 .. n
    BY <2>1
  <2> QED
    BY <2>1, <2>2
<1>3. PICK c : c = ControlOf(stk, pc, cs)
  OBVIOUS
<1>4. PICK s : Reads(c, s, stk, pc, cs, m)
  BY <1>1, <1>2, <1>3, ControlReads
<1>5. /\ c \in Seq(AllMarked(stk, pc)) /\ Len(c) \in Nat
      /\ \A i, j \in 1 .. Len(c) : i < j => s[i] < s[j]
      /\ \A i \in 1 .. Len(c) : s[i] \in Marks(stk, cs, m) /\ c[i] = Marked(stk, pc, s[i])
      /\ \A p \in Marks(stk, cs, m) : \E i \in 1 .. Len(c) : s[i] = p
  BY <1>4, ControlShape
<1>6. ASSUME NEW p \in Marks(stk, cs, m) PROVE p \in 0 .. t
  <2>1. p \in 0 .. m /\ p \in Nat /\ IsMark(stk, cs, p)
    BY DEF Marks
  <2>2. CASE p \in t + 1 .. m
    <3>1. ~ IsReturn(stk, p) /\ ~ IsCatch(stk, p) /\ p # 0
      BY <2>2, <1>1, <1>2 DEF NothingAbove
    <3>2. PICK k \in DOMAIN cs : cs[k].sp = p
      BY <2>1, <3>1 DEF IsMark, IsHost
    <3>3. cs[k].sp <= t
      BY DEF NothingAbove
    <3> QED
      BY <3>2, <3>3, <2>1, <1>2
  <2> QED
    BY <2>1, <2>2, <1>2
<1>7. t \in Marks(stk, cs, m)
  <2>1. IsHost(cs, t)
    BY <1>2 DEF IsHost
  <2> QED
    BY <2>1, <1>2 DEF Marks, IsMark
<1>8. PICK i \in 1 .. Len(c) : s[i] = t
  BY <1>5, <1>7
<1>9. i = Len(c)
  <2>1. SUFFICES ASSUME i # Len(c) PROVE FALSE
    OBVIOUS
  <2>2. Len(c) \in 1 .. Len(c) /\ i < Len(c)
    BY <2>1, <1>5
  <2>3. t < s[Len(c)] /\ s[Len(c)] \in 0 .. t
    BY <2>2, <1>5, <1>6, <1>8
  <2> QED
    BY <2>3, <1>2
<1>10. c[i] = Host /\ c[i].kind = "host"
  BY <1>2, <1>5, <1>8, MarkedKinds
<1>11. Structured!Failed(c) = SubSeq(c, 1, i)
  <2>1. \A j \in 1 .. Len(c) : i < j => c[j].kind # "host"
    <3>1. \A j \in 1 .. Len(c) : ~ (i < j)
      BY <1>5, <1>9
    <3> QED
      BY <3>1
  <2> QED
    BY <2>1, <1>5, <1>10, FailedAt
<1>12. SubSeq(c, 1, i) = c
  <2>1. PICK f : f = SubSeq(c, 1, i)
    OBVIOUS
  <2>2. i \in 0 .. Len(c)
    BY <1>5
  <2>3. f \in Seq(AllMarked(stk, pc)) /\ Len(f) = i /\ \A j \in 1 .. i : f[j] = c[j]
    BY <2>1, <2>2, <1>5, CutShape
  <2>4. f = c
    BY <2>3, <1>5, <1>9, SeqEqual
  <2> QED
    BY <2>1, <2>4
<1>13. Structured!Failed(ControlOf(stk, r.pc, cs)) = Append(ControlOf(stk2, r2.pc, cs2), Host)
  BY FailedControl
<1> QED
  BY <1>1, <1>3, <1>11, <1>12, <1>13

(* An exception: the stack is cut below the catch target c, and the frame  *)
(* that is innermost then goes on in the handler of c.                     *)
LEMMA ThrownControl ==
    ASSUME NEW stk, NEW r, NEW cs, NEW stk2, NEW r2, NEW t, Cut(stk2, r2, cs, stk, r, cs, t),
           NEW c \in 1 .. Len(stk), t = c - 1, IsCatch(stk, c),
           \A p \in c + 1 .. Len(stk) : ~ IsCatch(stk, p), \A k \in DOMAIN cs : cs[k].sp < c, cs # << >>,
           NEW d \in 1 .. t, d = r2.fb, NEW h, h = stk[c + 1][2]
    PROVE  ControlOf(stk2, h, cs) = Structured!Thrown(ControlOf(stk, r.pc, cs))
<1>1. PICK pc, pc2, m, m2, n : pc = r.pc /\ pc2 = r2.pc /\ m = Len(stk) /\ m2 = Len(stk2) /\ n = Len(cs)
  OBVIOUS
<1>2. /\ m \in Nat /\ m2 \in Nat /\ t \in Nat /\ t <= m /\ t <= m2 /\ n \in Nat /\ DOMAIN cs = 1 .. n
      /\ \A p \in 1 .. t : stk2[p] = stk[p]
      /\ \A p \in t + 1 .. m2 : ~ IsReturn(stk2, p) /\ ~ IsCatch(stk2, p)
      /\ LastReturn(stk, d, t)
  BY <1>1 DEF Cut
<1>3. c \in Nat /\ c = t + 1 /\ c # 0 /\ d \in Nat /\ d # 0 /\ d <= t /\ d <= m2 /\ d < c /\ c \in 1 .. m
  BY <1>1, <1>2
<1>4. /\ IsReturn(stk, d) /\ IsReturn(stk2, d)
      /\ \A p \in d + 1 .. m2 : ~ IsReturn(stk2, p)
      /\ \A p \in d + 1 .. t : ~ IsReturn(stk, p)
  <2>1. IsReturn(stk, d) /\ \A p \in d + 1 .. t : ~ IsReturn(stk, p)
    BY <1>2, <1>3 DEF LastReturn
  <2>2. IsReturn(stk2, d)
    BY <2>1, <1>2 DEF IsReturn
  <2>3. ASSUME NEW p \in d + 1 .. m2 PROVE ~ IsReturn(stk2, p)
    <3>1. CASE p \in t + 1 .. m2
      BY <3>1, <1>2
    <3>2. CASE p \in d + 1 .. t
      <4>1. p \in 1 .. t
        BY <3>2, <1>3
      <4>2. stk2[p] = stk[p]
        BY <4>1, <1>2
      <4> QED
        BY <4>2, <3>2, <2>1 DEF IsReturn
    <3> QED
      BY <3>1, <3>2, <1>2, <1>3
  <2> QED
    BY <2>1, <2>2, <2>3
<1>5. PICK x, x2, x3 : x = ControlOf(stk, pc, cs) /\ x2 = ControlOf(stk2, pc2, cs) /\ x3 = ControlOf(stk2, h, cs)
  OBVIOUS
<1>6. PICK s : Reads(x, s, stk, pc, cs, m)
  BY <1>1, <1>2, <1>5, ControlReads
<1>7. PICK s2 : Reads(x2, s2, stk2, pc2, cs, m2)
  BY <1>1, <1>2, <1>5, ControlReads
<1>8. PICK s3 : Reads(x3, s3, stk2, h, cs, m2)
  BY <1>1, <1>2, <1>5, ControlReads
<1>9. PICK M, M2 : M = Marks(stk, cs, m) /\ M2 = Marks(stk2, cs, m2)
  OBVIOUS
<1>10. /\ Under(stk2, pc2, cs, stk, pc, cs)
       /\ \A p \in M2 : p \in 0 .. t
       /\ \A q \in M : q < t => q \in M2
       /\ \A q \in M : q <= t => q \in M2
  BY <1>1, <1>9, CutMarks
<1>11. PICK l : l = Len(x2)
  OBVIOUS
<1>12. /\ l \in 0 .. Len(x) /\ Len(x) \in Nat
       /\ \A i \in 1 .. l : s2[i] = s[i] /\ x2[i] = x[i]
       /\ \A i \in 1 .. Len(x) : s[i] \in M2 <=> i <= l
  BY <1>1, <1>6, <1>7, <1>9, <1>10, <1>11, UnderReads
(* Reading stk2 with h in the register gives the same positions.           *)
<1>13. /\ Len(x3) = l
       /\ \A i \in 1 .. l : s3[i] = s2[i] /\ (Marked(stk2, h, s2[i]) = Marked(stk2, pc2, s2[i]) => x3[i] = x2[i])
  <2>1. /\ Len(x3) \in 0 .. Len(x2) /\ Len(x2) \in Nat
        /\ \A i \in 1 .. Len(x3) :
                s3[i] = s2[i] /\ (Marked(stk2, h, s2[i]) = Marked(stk2, pc2, s2[i]) => x3[i] = x2[i])
        /\ \A i \in 1 .. Len(x2) : s2[i] \in Marks(stk2, cs, m2) <=> i <= Len(x3)
    BY <1>2, <1>7, <1>8, LowerReads
  <2>2. \A i \in 1 .. Len(x2) : s2[i] \in Marks(stk2, cs, m2)
    BY <1>7, ControlShape
  <2>3. Len(x3) = Len(x2)
    <3>1. CASE Len(x2) = 0
      BY <3>1, <2>1
    <3>2. CASE Len(x2) # 0
      <4>1. Len(x2) \in 1 .. Len(x2)
        BY <3>2, <2>1
      <4> QED
        BY <4>1, <2>1, <2>2
    <3> QED
      BY <3>1, <3>2
  <2> QED
    BY <2>1, <2>3, <1>11
<1>14. c \in M /\ c \notin M2
  <2>1. c \in M
    BY <1>1, <1>3, <1>9 DEF Marks, IsMark
  <2>2. c \notin 0 .. t
    BY <1>2, <1>3
  <2> QED
    BY <2>1, <2>2, <1>10
<1>15. PICK i : i = l + 1
  OBVIOUS
<1>16. /\ i \in 1 .. Len(x) /\ s[i] = c /\ i - 1 = l /\ l \in Nat
       /\ \A j \in 1 .. Len(x) : i < j => s[j] \in M /\ s[j] \in Nat /\ c < s[j]
  <2>1. FirstIn(s, x, M2, l)
    BY <1>12 DEF FirstIn
  <2>2. \A q \in M : q < c => q \in M2
    <3>1. \A q \in M : q \in Nat
      BY <1>9 DEF Marks
    <3>2. \A q \in M : q < c => q <= t
      BY <3>1, <1>2, <1>3
    <3> QED
      BY <3>2, <1>10
  <2>3. FirstOutside(c, M2, stk, cs, m)
    BY <2>2, <1>9, <1>14 DEF FirstOutside
  <2>4. /\ Len(x) \in Nat /\ l + 1 \in 1 .. Len(x) /\ s[l + 1] = c
        /\ \A j \in 1 .. Len(x) : l + 1 < j => s[j] \in Marks(stk, cs, m) /\ s[j] \in Nat /\ c < s[j]
    <3>1. m \in Nat
      BY <1>2
    <3> QED
      BY <2>1, <2>3, <3>1, <1>6, NextMark
  <2>5. l \in Nat
    BY <1>12
  <2> QED
    BY <2>4, <2>5, <1>9, <1>15
<1>17. /\ x \in Seq(AllMarked(stk, pc)) /\ x3 \in Seq(AllMarked(stk2, h))
       /\ \A j \in 1 .. Len(x) : s[j] \in M /\ x[j] = Marked(stk, pc, s[j])
       /\ \A j \in 1 .. Len(x3) : x3[j] = Marked(stk2, h, s3[j])
  BY <1>6, <1>8, <1>9, ControlShape
<1>18. x[i].kind = "try" /\ x[i].at = h
  BY <1>3, <1>16, <1>17, MarkedKinds
<1>19. ASSUME NEW j \in 1 .. Len(x), i < j PROVE x[j].kind # "host" /\ x[j].kind # "try"
  <2>1. PICK p : p = s[j]
    OBVIOUS
  <2>2. p \in M /\ p \in Nat /\ c < p
    BY <2>1, <1>16, <1>19
  <2>3. p # 0 /\ IsMark(stk, cs, p) /\ p \in c + 1 .. m
    BY <2>2, <1>2, <1>3, <1>9 DEF Marks
  <2>4. ~ IsHost(cs, p)
    <3>1. ASSUME NEW k \in DOMAIN cs PROVE cs[k].sp # p
      BY <2>2, <1>3
    <3> QED
      BY <3>1 DEF IsHost
  <2>5. ~ IsCatch(stk, p)
    BY <2>3, <1>1
  <2>6. IsReturn(stk, p)
    BY <2>3, <2>4, <2>5 DEF IsMark
  <2>7. Marked(stk, pc, p).kind = "js"
    BY <2>3, <2>6, MarkedKinds
  <2> QED
    BY <2>1, <2>7, <1>17
<1>20. PICK b \in 1 .. l : s2[b] = d
  <2>1. d \in Marks(stk2, cs, m2)
    BY <1>3, <1>4 DEF Marks, IsMark
  <2> QED
    BY <2>1, <1>7, <1>11, ControlShape
<1>21. b \in 1 .. Len(x) /\ s[b] = d /\ x[b].kind = "js"
  <2>1. b \in 1 .. Len(x) /\ s[b] = d
    BY <1>12, <1>20
  <2> QED
    BY <2>1, <1>3, <1>4, <1>17, MarkedKinds
<1>22. ASSUME NEW j \in 1 .. l, b < j PROVE x[j].kind # "js"
  <2>1. PICK p : p = s[j]
    OBVIOUS
  <2>2. j \in 1 .. Len(x) /\ p \in M2
    BY <2>1, <1>12
  <2>3. d < p
    BY <2>1, <2>2, <1>6, <1>21, <1>22, ControlShape
  <2>4. p \in d + 1 .. t /\ p # 0
    BY <2>2, <2>3, <1>2, <1>3, <1>10
  <2>5. ~ IsReturn(stk, p)
    BY <2>4, <1>4
  <2>6. Marked(stk, pc, p).kind \in {"try", "host"}
    BY <2>4, <2>5, MarkedKinds
  <2> QED
    BY <2>1, <2>2, <2>6, <1>17
<1>23. PICK kept, y : kept = SubSeq(x, 1, l) /\ y = [kept EXCEPT ![b] = Item("js", h)]
  OBVIOUS
<1>24. Structured!Thrown(x) = y
  <2>1. HandledAt(x, i, b) /\ kept = SubSeq(x, 1, i - 1)
    BY <1>16, <1>18, <1>19, <1>20, <1>21, <1>22, <1>23 DEF HandledAt
  <2>2. x \in Seq(AllMarked(stk, pc))
    BY <1>17
  <2>3. Structured!Thrown(x) = [kept EXCEPT ![b] = Item("js", x[i].at)]
    BY <2>1, <2>2, ThrownToTry
  <2> QED
    BY <2>3, <1>18, <1>23
<1>25. PICK U : U = AllMarked(stk, pc) \cup {Item("js", h)}
  OBVIOUS
<1>26. kept \in Seq(U) /\ Len(kept) = l /\ \A j \in 1 .. l : kept[j] = x[j]
  <2>1. /\ SubSeq(x, 1, l) \in Seq(AllMarked(stk, pc)) /\ Len(SubSeq(x, 1, l)) = l
        /\ \A j \in 1 .. l : SubSeq(x, 1, l)[j] = x[j]
    BY <1>12, <1>17, CutShape
  <2>2. kept \in Seq(AllMarked(stk, pc)) /\ AllMarked(stk, pc) \subseteq U
    BY <2>1, <1>23, <1>25
  <2>3. kept \in Seq(U)
    BY <2>2, SeqMonotonic
  <2> QED
    BY <2>1, <2>3, <1>23
<1>27. y \in Seq(U) /\ Len(y) = l /\ \A j \in 1 .. l : y[j] = IF j = b THEN Item("js", h) ELSE x[j]
  <2>1. PICK z : z = Item("js", h)
    OBVIOUS
  <2>2. z \in U /\ b \in 1 .. Len(kept) /\ y = [kept EXCEPT ![b] = z]
    BY <2>1, <1>20, <1>23, <1>25, <1>26
  <2>3. y \in Seq(U) /\ Len(y) = Len(kept) /\ \A j \in 1 .. Len(kept) : y[j] = IF j = b THEN z ELSE kept[j]
    BY <2>2, <1>26, ExceptSeq
  <2> QED
    BY <2>1, <2>3, <1>26
<1>28. ASSUME NEW j \in 1 .. l PROVE x3[j] = y[j]
  <2>1. PICK p : p = s[j]
    OBVIOUS
  <2>2. p \in M2 /\ p \in M /\ p = s2[j] /\ p = s3[j] /\ j \in 1 .. Len(x) /\ j \in 1 .. Len(x3)
    BY <2>1, <1>12, <1>13, <1>17
  <2>3. CASE j = b
    <3>1. p = d
      BY <2>1, <2>3, <1>21
    <3>2. CodeOf(stk2, h, d) = h
      BY <1>1, <1>4, CodeLast
    <3>3. x3[j] = Item("js", h)
      BY <3>1, <3>2, <2>2, <1>3, <1>4, <1>17, MarkedKinds
    <3> QED
      BY <3>3, <2>3, <1>27
  <2>4. CASE j # b
    <3>1. p # d
      <4>1. j < b \/ b < j
        BY <2>4
      <4>2. p < d \/ d < p
        <5>1. \A u, v \in 1 .. Len(x) : u < v => s[u] < s[v]
          BY <1>6, ControlShape
        <5>2. s[b] = d /\ s[j] = p /\ b \in 1 .. Len(x) /\ j \in 1 .. Len(x)
          BY <2>1, <2>2, <1>21
        <5>3. s[j] < s[b] \/ s[b] < s[j]
          BY <4>1, <5>1, <5>2
        <5> QED
          BY <5>2, <5>3
      <4> QED
        BY <4>2, <1>3
    <3>2. p \in 0 .. t /\ p \in Nat
      BY <2>2, <1>2, <1>10
    <3>3. Marked(stk2, h, p) = Marked(stk2, pc2, p)
      <4>1. CASE p # 0 /\ IsReturn(stk2, p)
        <5>1. p \notin d + 1 .. m2
          BY <4>1, <1>4
        <5>2. d \in p + 1 .. m2
          BY <5>1, <3>1, <3>2, <1>2, <1>3
        <5>3. CodeOf(stk2, h, p) = CodeOf(stk2, pc2, p)
          BY <5>2, <3>2, <1>1, <1>2, <1>4, CodeSame
        <5> QED
          BY <4>1, <5>3, MarkedKinds
      <4>2. CASE ~ (p # 0 /\ IsReturn(stk2, p))
        BY <4>2 DEF Marked
      <4> QED
        BY <4>1, <4>2
    <3>4. x3[j] = x2[j] /\ x2[j] = x[j]
      BY <3>3, <2>1, <2>2, <1>12, <1>13
    <3> QED
      BY <3>4, <2>4, <1>27
  <2> QED
    BY <2>3, <2>4
<1>29. x3 = y
  BY <1>13, <1>17, <1>27, <1>28, SeqAlike
<1> QED
  BY <1>1, <1>5, <1>24, <1>29

-----------------------------------------------------------------------------
(* What the subroutines do to the control state.                           *)

(* Activations with the same words below them and the same registers on    *)
(* entry.                                                                  *)
Alike(cs2, cs) ==
    /\ Len(cs2) = Len(cs) /\ cs \in Seq(Activations) /\ cs2 \in Seq(Activations)
    /\ \A k \in 1 .. Len(cs) : cs2[k].sp = cs[k].sp /\ cs2[k].entry = cs[k].entry

(* Inside, with what it says of the activations below the innermost one.   *)
LEMMA InsideShape ==
    ASSUME NEW stk, NEW r, NEW cs, Inside(stk, r, cs), NEW n, NEW s, n = Len(cs), s = cs[n].sp
    PROVE  /\ stk \in Seq(Word) /\ r \in Registers /\ cs \in Seq(Activations) /\ cs # << >>
           /\ Len(stk) \in Nat /\ n \in Nat /\ n # 0 /\ n \in 1 .. n /\ DOMAIN cs = 1 .. n
           /\ s \in Nat /\ s <= Len(stk) /\ (s = 0 <=> n = 1)
           /\ \A k \in 1 .. n : cs[k].sp \in 0 .. s /\ (k # n => cs[k].sp < s)
           /\ s # 0 => ~ IsCatch(stk, s) /\ ~ IsReturn(stk, s)
<1> HIDE DEF Word, Registers, Activations
<1>1. stk \in Seq(Word) /\ r \in Registers /\ cs \in Seq(Activations) /\ cs # << >> /\ Suspended(stk, cs)
  BY DEF Inside
<1>2. /\ n \in Nat /\ n \in 1 .. n /\ DOMAIN cs = 1 .. n /\ s \in Nat
      /\ (s = 0 <=> n = 1) /\ \A k \in DOMAIN cs : cs[k].sp <= s
  BY <1>1, TopShape
<1>3. s <= Len(stk) /\ Len(stk) \in Nat
  BY <1>1, LenProperties DEF Inside
<1>4. ASSUME NEW k \in 1 .. n PROVE cs[k].sp \in 0 .. s /\ (k # n => cs[k].sp < s)
  <2>1. cs[k] \in Activations
    BY <1>1, ElementOfSeq
  <2>2. cs[k].sp \in Nat
    BY <2>1 DEF Activations
  <2>3. \A i, j \in DOMAIN cs : i < j => cs[i].sp < cs[j].sp
    BY <1>1 DEF Suspended
  <2>4. k # n => k < n
    BY <1>2
  <2>5. k # n => cs[k].sp < s
    BY <2>3, <2>4, <1>2
  <2> QED
    BY <2>2, <2>5, <1>2
<1>5. ASSUME s # 0 PROVE ~ IsCatch(stk, s) /\ ~ IsReturn(stk, s)
  <2>1. n \in 2 .. Len(cs)
    BY <1>2, <1>5
  <2>2. HostState(stk, cs[n - 1], cs[n].entry, s)
    BY <2>1, <1>1 DEF Suspended
  <2> QED
    BY <2>2 DEF HostState
<1> QED
  BY <1>1, <1>2, <1>3, <1>4, <1>5

(* JS code or a host function goes on.                                     *)
LEMMA NowJS ==
    ASSUME NEW stk2, NEW r2, NEW cs2, Running("js", stk2, r2, cs2), InOrder(stk2, r2, cs2)
    PROVE  Ordered' /\ Control' = ControlOf(stk2, r2.pc, cs2)
BY DEF Running, Ordered, Control

LEMMA NowHost ==
    ASSUME NEW stk2, NEW r2, NEW cs2, Running("host", stk2, r2, cs2), InOrder(stk2, r2, cs2)
    PROVE  Ordered' /\ Control' = Append(ControlOf(stk2, r2.pc, cs2), Host)
BY DEF Running, Ordered, Control

(* The words above t are not of frames or try blocks.                      *)
PlainAbove(stk, t) ==
    /\ Len(stk) \in Nat /\ t <= Len(stk)
    /\ \A p \in t + 1 .. Len(stk) : ~ IsReturn(stk, p) /\ ~ IsCatch(stk, p)

(* The words above t, which stand for no item, are exchanged for others    *)
(* that do not, either.                                                    *)
LEMMA Swap ==
    ASSUME NEW stk, NEW r, NEW cs, Inside(stk, r, cs), InOrder(stk, r, cs),
           NEW s, s = cs[Len(cs)].sp, NEW t \in Nat, s <= t, PlainAbove(stk, t), t # 0 => ~ IsCatch(stk, t),
           NEW stk2, PlainAbove(stk2, t), \A p \in 1 .. t : stk2[p] = stk[p],
           NEW r2, r2.fb = r.fb, r2.pc = r.pc, NEW cs2, Alike(cs2, cs)
    PROVE  InOrder(stk2, r2, cs2) /\ ControlOf(stk2, r2.pc, cs2) = ControlOf(stk, r.pc, cs)
<1> HIDE DEF Word, Registers, Activations
<1> USE DEF PlainAbove
<1>1. PICK n : n = Len(cs)
  OBVIOUS
<1>2. /\ cs # << >> /\ Len(stk) \in Nat /\ n \in Nat /\ n # 0 /\ DOMAIN cs = 1 .. n
      /\ s \in Nat /\ \A k \in 1 .. n : cs[k].sp \in 0 .. s
  BY <1>1, InsideShape
<1>3. /\ Len(cs2) = n /\ DOMAIN cs2 = 1 .. n /\ cs2 # << >>
      /\ \A k \in 1 .. n : cs2[k].sp = cs[k].sp /\ cs2[k].entry = cs[k].entry
  <2>1. Len(cs2) = n /\ cs2 \in Seq(Activations) /\ \A k \in 1 .. n : cs2[k].sp = cs[k].sp /\ cs2[k].entry = cs[k].entry
    BY <1>1 DEF Alike
  <2>2. DOMAIN cs2 = 1 .. n /\ cs2 # << >>
    BY <2>1, <1>2, LenProperties, EmptySeq
  <2> QED
    BY <2>1, <2>2
<1>4. \A k \in 1 .. n : cs[k].sp \in 0 .. t
  BY <1>2
<1>5. LastReturn(stk, r2.fb, t)
  <2>1. LastReturn(stk, r.fb, Len(stk))
    BY DEF InOrder
  <2>2. r.fb \in 0 .. Len(stk) /\ (r.fb = 0 \/ IsReturn(stk, r.fb)) /\ \A p \in r.fb + 1 .. Len(stk) : ~ IsReturn(stk, p)
    BY <2>1 DEF LastReturn
  <2>3. r.fb \in 0 .. t
    <3>1. r.fb \notin t + 1 .. Len(stk) \/ r.fb = 0
      BY <2>2
    <3> QED
      BY <3>1, <2>2, <1>2
  <2>4. \A p \in r.fb + 1 .. t : p \in r.fb + 1 .. Len(stk)
    BY <1>2, <2>3
  <2> QED
    BY <2>2, <2>3, <2>4 DEF LastReturn
<1>6. r2.pc = CodeOf(stk, r.pc, t)
  BY CodeLast
<1>7. Cut(stk2, r2, cs2, stk, r, cs, t)
  <2>1. \A k \in 1 .. n : k <= n
    BY <1>2
  <2>2. \A k \in 1 .. n : cs2[k].sp \in 0 .. t
    BY <1>3, <1>4
  <2>3. n <= n /\ cs # << >> /\ cs2 # << >> /\ n # 0
    BY <1>2, <1>3
  <2> QED
    BY <1>1, <1>2, <1>3, <1>5, <1>6, <2>1, <2>2, <2>3 DEF Cut
<1>8. NothingAbove(stk, cs, t)
  <2>1. \A k \in 1 .. n : cs[k].sp <= t
    BY <1>4
  <2> QED
    BY <2>1, <1>2 DEF NothingAbove
<1>9. Len(cs2) = Len(cs)
  BY <1>1, <1>3
<1> QED
  BY <1>7, <1>8, <1>9, CutOrder, CutSame

LEMMA AlikeSelf ==
    ASSUME NEW cs \in Seq(Activations)
    PROVE  Alike(cs, cs)
BY DEF Alike

LEMMA AlikeTop ==
    ASSUME NEW cs \in Seq(Activations), cs # << >>, NEW a \in Activations,
           a.sp = cs[Len(cs)].sp, a.entry = cs[Len(cs)].entry
    PROVE  Alike(SetTop(cs, a), cs)
<1> HIDE DEF Activations
<1>1. PICK n, cs2 : n = Len(cs) /\ cs2 = SetTop(cs, a)
  OBVIOUS
<1>2. /\ cs2 \in Seq(Activations) /\ Len(cs2) = n /\ cs2[n] = a
      /\ \A k \in DOMAIN cs : k # n => cs2[k] = cs[k]
  BY <1>1, SetTopShape
<1>3. DOMAIN cs = 1 .. n
  BY <1>1, LenProperties
<1> QED
  BY <1>1, <1>2, <1>3 DEF Alike

(* No catch target is the last word.                                       *)
LEMMA LastWord ==
    ASSUME NEW stk, NEW r, NEW cs, InOrder(stk, r, cs), NEW t, t = Len(stk), t \in Nat, t # 0
    PROVE  ~ IsCatch(stk, t)
<1>1. t \in 1 .. Len(stk)
  OBVIOUS
<1>2. IsCatch(stk, t) => t + 1 <= t
  BY <1>1 DEF InOrder
<1> QED
  BY <1>2

(* The activations do without the empty stack.                             *)
LEMMA ControlNone ==
    ASSUME NEW pc
    PROVE  ControlOf(<< >>, pc, << >>) = << >>
<1>1. PICK stk, cs, c : stk = << >> /\ cs = << >> /\ c = ControlOf(stk, pc, cs)
  OBVIOUS
<1>2. Len(stk) = 0
  BY <1>1
<1>3. PICK s : Reads(c, s, stk, pc, cs, 0)
  BY <1>1, <1>2, ControlReads
<1>4. Marks(stk, cs, 0) = {}
  <2>1. 0 .. 0 = {0}
    OBVIOUS
  <2>2. ~ IsMark(stk, cs, 0)
    BY <1>1 DEF IsMark
  <2> QED
    BY <2>1, <2>2 DEF Marks
<1>5. /\ c \in Seq(AllMarked(stk, pc)) /\ Len(c) \in Nat
      /\ \A i \in 1 .. Len(c) : s[i] \in Marks(stk, cs, 0)
  BY <1>3, ControlShape
<1>6. Len(c) = 0
  <2>1. Len(c) # 0 => 1 \in 1 .. Len(c)
    BY <1>5
  <2> QED
    BY <2>1, <1>4, <1>5
<1>7. c = << >>
  BY <1>5, <1>6, EmptySeq
<1> QED
  BY <1>1, <1>7

(* What is left when the innermost activation ends.                        *)
Outer(stk2, r2, cs2, stk, r, cs) ==
    /\ stk2 = SubSeq(stk, 1, cs[Len(cs)].sp)
    /\ r2.fb = cs[Len(cs)].entry.fb /\ r2.pc = cs[Len(cs)].entry.pc
    /\ cs2 = Front(cs)

LEMMA OuterControl ==
    ASSUME NEW stk, NEW r, NEW cs, Inside(stk, r, cs), InOrder(stk, r, cs),
           NEW stk2, NEW r2, NEW cs2, Outer(stk2, r2, cs2, stk, r, cs)
    PROVE  /\ InOrder(stk2, r2, cs2)
           /\ Structured!Failed(ControlOf(stk, r.pc, cs)) = Append(ControlOf(stk2, r2.pc, cs2), Host)
           /\ NothingAbove(stk, cs, cs[Len(cs)].sp) =>
                  ControlOf(stk, r.pc, cs) = Append(ControlOf(stk2, r2.pc, cs2), Host)
<1> HIDE DEF Word, Registers, Activations
<1>1. PICK n, s : n = Len(cs) /\ s = cs[n].sp
  OBVIOUS
<1>2. /\ stk \in Seq(Word) /\ cs \in Seq(Activations) /\ cs # << >>
      /\ Len(stk) \in Nat /\ n \in Nat /\ n # 0 /\ n \in 1 .. n /\ DOMAIN cs = 1 .. n
      /\ s \in Nat /\ s <= Len(stk) /\ (s = 0 <=> n = 1)
      /\ \A k \in 1 .. n : cs[k].sp \in 0 .. s /\ (k # n => cs[k].sp < s)
      /\ (s # 0 => ~ IsCatch(stk, s) /\ ~ IsReturn(stk, s))
  BY <1>1, InsideShape
<1>3. stk2 \in Seq(Word) /\ Len(stk2) = s /\ \A p \in 1 .. s : stk2[p] = stk[p]
  <2>1. s \in 0 .. Len(stk)
    BY <1>2
  <2>2. stk2 = SubSeq(stk, 1, s)
    BY <1>1 DEF Outer
  <2> QED
    BY <2>1, <2>2, <1>2, CutShape
<1>4. /\ cs2 \in Seq(Activations) /\ Len(cs2) = n - 1 /\ DOMAIN cs2 = 1 .. Len(cs2)
      /\ (cs2 = << >> <=> Len(cs2) = 0)
      /\ \A k \in 1 .. Len(cs2) : cs2[k] = cs[k] /\ k \in 1 .. n
  <2>1. cs2 \in Seq(Activations) /\ Len(cs2) = n - 1 /\ \A k \in 1 .. n - 1 : cs2[k] = cs[k]
    BY <1>1, <1>2, FrontShape DEF Outer
  <2>2. DOMAIN cs2 = 1 .. Len(cs2) /\ (cs2 = << >> <=> Len(cs2) = 0)
    BY <2>1, LenProperties, EmptySeq
  <2>3. \A k \in 1 .. n - 1 : k \in 1 .. n
    BY <1>2
  <2> QED
    BY <2>1, <2>2, <2>3
<1>5. LastReturn(stk, r2.fb, s) /\ r2.pc = CodeOf(stk, r.pc, s)
  <2>1. LastReturn(stk, cs[n].entry.fb, cs[n].sp) /\ cs[n].entry.pc = CodeOf(stk, r.pc, cs[n].sp)
    BY <1>2 DEF InOrder
  <2>2. r2.fb = cs[n].entry.fb /\ r2.pc = cs[n].entry.pc
    BY <1>1 DEF Outer
  <2> QED
    BY <2>1, <2>2, <1>1
<1>6. Cut(stk2, r2, cs2, stk, r, cs, s)
  <2>1. \A p \in s + 1 .. s : ~ IsReturn(stk2, p) /\ ~ IsCatch(stk2, p)
    BY <1>2
  <2>2. \A k \in 1 .. Len(cs2) : cs2[k].sp = cs[k].sp /\ cs2[k].entry = cs[k].entry /\ cs2[k].sp \in 0 .. s
    BY <1>2, <1>4
  <2>3. \A k \in 1 .. n : cs[k].sp < s => k <= Len(cs2)
    <3>1. \A k \in 1 .. n : k # n => k <= n - 1
      BY <1>2
    <3>2. ~ (cs[n].sp < s)
      BY <1>1, <1>2
    <3> QED
      BY <3>1, <3>2, <1>4
  <2>4. s # 0 => Len(cs2) # 0
    BY <1>2, <1>4
  <2>5. Len(cs2) \in Nat /\ Len(cs2) <= n /\ s <= s
    BY <1>2, <1>4
  <2> QED
    BY <1>1, <1>2, <1>3, <1>4, <1>5, <2>1, <2>2, <2>3, <2>4, <2>5 DEF Cut
<1>7. InOrder(stk2, r2, cs2)
  BY <1>6, CutOrder
<1>8. /\ Len(cs2) < n /\ cs[n].sp = s /\ \A k \in 1 .. n : k # n => cs[k].sp < s
      /\ s # 0 => ~ IsReturn(stk, s)
  BY <1>1, <1>2, <1>4
<1>9. Structured!Failed(ControlOf(stk, r.pc, cs)) = Append(ControlOf(stk2, r2.pc, cs2), Host)
  BY <1>1, <1>6, <1>8, FailedControl
<1>10. NothingAbove(stk, cs, s) => ControlOf(stk, r.pc, cs) = Append(ControlOf(stk2, r2.pc, cs2), Host)
  BY <1>1, <1>6, <1>8, EnterControl
<1> QED
  BY <1>1, <1>7, <1>9, <1>10

(* When no frame and no try block of the activation are left, there is     *)
(* nothing to unwind.                                                      *)
LEMMA NothingToUnwind ==
    ASSUME NEW stk, NEW r, NEW cs, Inside(stk, r, cs), InOrder(stk, r, cs),
           NothingAbove(stk, cs, cs[Len(cs)].sp)
    PROVE  Structured!Failed(ControlOf(stk, r.pc, cs)) = ControlOf(stk, r.pc, cs)
<1>1. PICK n : n = Len(cs)
  OBVIOUS
<1>2. PICK stk2, r2, cs2 : stk2 = SubSeq(stk, 1, cs[n].sp) /\ r2 = cs[n].entry /\ cs2 = Front(cs)
  OBVIOUS
<1>3. Outer(stk2, r2, cs2, stk, r, cs)
  BY <1>1, <1>2 DEF Outer
<1> QED
  BY <1>3, OuterControl, SMTT(20)

LEMMA ExitControl ==
    ASSUME NEW stk, NEW r, NEW cs, Inside(stk, r, cs), InOrder(stk, r, cs), NEW err, SubExit(stk, r, cs, err)
    PROVE  Ordered' /\ Control' = Structured!Failed(ControlOf(stk, r.pc, cs))
<1> HIDE DEF Word, Registers, Activations
<1>1. PICK n, a, s : n = Len(cs) /\ a = cs[n] /\ s = a.sp
  OBVIOUS
<1>2. /\ stk \in Seq(Word) /\ r \in Registers /\ cs \in Seq(Activations) /\ cs # << >>
      /\ Len(stk) \in Nat /\ n \in Nat /\ n \in 1 .. n /\ s \in Nat /\ s <= Len(stk) /\ (s = 0 <=> n = 1)
  BY <1>1, InsideShape
<1>3. PICK stk2, cs2 : stk2 = SubSeq(stk, 1, s) /\ cs2 = Front(cs)
  OBVIOUS
<1>4. /\ stack' = stk2 /\ calls' = cs2 /\ mode' = "host"
      /\ reg' = IF s = 0 THEN FreshRegisters ELSE AtExit(a.entry, r)
  BY <1>1, <1>3 DEF SubExit
<1>5. PICK e : e = a.entry
  OBVIOUS
<1>6. Outer(stk2, e, cs2, stk, r, cs)
  BY <1>1, <1>3, <1>5 DEF Outer
<1>7. /\ InOrder(stk2, e, cs2)
      /\ Structured!Failed(ControlOf(stk, r.pc, cs)) = Append(ControlOf(stk2, e.pc, cs2), Host)
  BY <1>6, OuterControl
<1>8. Control' = Append(ControlOf(stk2, reg'.pc, cs2), Host)
  BY <1>4 DEF Control
<1>9. CASE s = 0
  <2>1. stk2 = << >> /\ cs2 = << >>
    <3>1. 0 \in 0 .. Len(stk)
      BY <1>2
    <3>2. stk2 \in Seq(Word) /\ Len(stk2) = 0
      BY <3>1, <1>2, <1>3, <1>9, CutShape
    <3>3. cs2 \in Seq(Activations) /\ Len(cs2) = 0
      BY <1>1, <1>2, <1>3, <1>9, FrontShape
    <3> QED
      BY <3>2, <3>3, EmptySeq
  <2>2. ControlOf(stk2, reg'.pc, cs2) = << >> /\ ControlOf(stk2, e.pc, cs2) = << >>
    BY <2>1, ControlNone
  <2>3. reg'.fb = 0 /\ stack' = << >> /\ calls' = << >>
    BY <2>1, <1>4, <1>9 DEF FreshRegisters
  <2>4. Ordered'
    <3>1. \A p \in 1 .. 0 : FALSE
      OBVIOUS
    <3>2. Len(<< >>) = 0 /\ DOMAIN << >> = {}
      OBVIOUS
    <3>3. InOrder(<< >>, reg', << >>)
      BY <2>3, <3>1, <3>2 DEF InOrder, LastReturn
    <3> QED
      BY <2>3, <3>3 DEF Ordered
  <2> QED
    BY <2>2, <2>4, <1>7, <1>8
<1>10. CASE s # 0
  <2>1. reg' = AtExit(e, r)
    BY <1>4, <1>5, <1>10
  <2>2. e \in Registers
    <3>1. a \in Activations
      BY <1>1, <1>2, ElementOfSeq
    <3> QED
      BY <3>1, <1>5 DEF Activations
  <2>3. reg'.fb = e.fb /\ reg'.pc = e.pc
    BY <2>1, <2>2, <1>2, AtExitShape
  <2>4. InOrder(stk2, reg', cs2)
    BY <2>3, <1>7 DEF InOrder
  <2> QED
    BY <2>3, <2>4, <1>4, <1>7, <1>8 DEF Ordered
<1> QED
  BY <1>9, <1>10

(* A frame starts above the words stk.                                     *)
LEMMA FrameControl ==
    ASSUME NEW stk, NEW r, NEW cs, Inside(stk, r, cs), InOrder(stk, r, cs),
           NEW stk2, Called(stk, r, stk2), NEW b, b = Len(stk) + BoundaryWords,
           NEW r2, r2.fb = b
    PROVE  /\ InOrder(stk2, r2, cs)
           /\ ControlOf(stk2, r2.pc, cs) = Append(ControlOf(stk, r.pc, cs), Item("js", r2.pc))
<1> HIDE DEF Word, Registers, Activations
<1>1. PICK n, s, t : n = Len(cs) /\ s = cs[n].sp /\ t = Len(stk)
  OBVIOUS
<1>2. /\ stk \in Seq(Word) /\ r \in Registers /\ cs \in Seq(Activations) /\ cs # << >>
      /\ t \in Nat /\ n \in Nat /\ n # 0 /\ DOMAIN cs = 1 .. n
      /\ s \in Nat /\ s <= t /\ \A k \in 1 .. n : cs[k].sp \in 0 .. s
  BY <1>1, InsideShape
<1>3. b = t + 4 /\ b \in Nat /\ t < b /\ b \in t + 1 .. b
  BY <1>1, <1>2 DEF BoundaryWords
<1>4. LastReturn(stk, r.fb, t)
  BY <1>1 DEF InOrder
<1>5. r.fb \in 0 .. t /\ r.fb <= t
  <2>1. r.fb \in 0 .. t
    BY <1>4 DEF LastReturn
  <2> QED
    BY <2>1, <1>2
<1>6. /\ Len(stk2) = b /\ \A p \in 1 .. t : stk2[p] = stk[p]
      /\ OnlyOperands(stk2, t, b - 1) /\ IsReturn(stk2, b) /\ stk2[b][2] = r.pc
      /\ CallerBase(stk2, b) = r.fb
  <2>1. b \in Int /\ b - Len(stk) = 4 /\ r.fb <= Len(stk)
    BY <1>1, <1>2, <1>3, <1>5
  <2>2. /\ Len(stk2) = b /\ \A p \in 1 .. Len(stk) : stk2[p] = stk[p]
        /\ OnlyOperands(stk2, Len(stk), b - 1) /\ IsReturn(stk2, b) /\ stk2[b][2] = r.pc
        /\ CallerBase(stk2, b) = r.fb
    BY <2>1, <1>2, BoundaryPushed
  <2> QED
    BY <2>2, <1>1
<1>7. \A p \in t + 1 .. b : p # b => ~ IsReturn(stk2, p) /\ ~ IsCatch(stk2, p)
  <2>1. \A p \in t + 1 .. b : p # b => p \in t + 1 .. b - 1
    BY <1>2, <1>3
  <2> QED
    BY <2>1, <1>6 DEF OnlyOperands
<1>8. ~ IsCatch(stk2, b)
  BY <1>6 DEF IsReturn, IsCatch
<1>9. LastReturn(stk2, r.fb, t)
  <2>1. t <= t
    BY <1>2
  <2> QED
    BY <2>1, <1>2, <1>4, <1>6, LastReturnSame
<1>10. r.pc = CodeOf(stk2, r2.pc, t)
  <2>1. \A q \in t + 1 .. b - 1 : ~ IsReturn(stk2, q)
    BY <1>6 DEF OnlyOperands
  <2>2. b \in t + 1 .. Len(stk2) /\ Len(stk2) \in Nat
    BY <1>3, <1>6
  <2> QED
    BY <2>1, <2>2, <1>2, <1>6, CodeNext, SMTT(20)
<1>11. t # 0 => ~ IsCatch(stk2, t)
  <2>1. SUFFICES ASSUME t # 0 PROVE ~ IsCatch(stk2, t)
    OBVIOUS
  <2>2. ~ IsCatch(stk, t)
    BY <2>1, <1>1, <1>2, LastWord
  <2>3. stk2[t] = stk[t]
    BY <2>1, <1>2, <1>6
  <2> QED
    BY <2>2, <2>3 DEF IsCatch
<1>12. Cut(stk, r, cs, stk2, r2, cs, t)
  <2>1. t <= t /\ t <= b /\ n <= n /\ \A k \in 1 .. n : k <= n
    BY <1>2, <1>3
  <2>2. \A p \in 1 .. t : stk[p] = stk2[p]
    BY <1>6
  <2>3. \A p \in t + 1 .. t : ~ IsReturn(stk, p) /\ ~ IsCatch(stk, p)
    BY <1>2
  <2>4. \A k \in 1 .. n : cs[k].sp \in 0 .. t
    BY <1>2
  <2> QED
    BY <1>1, <1>2, <1>3, <1>6, <1>9, <1>10, <1>11, <2>1, <2>2, <2>3, <2>4 DEF Cut
<1>13. LastReturn(stk2, b, b)
  <2>1. b \in 0 .. b /\ \A p \in b + 1 .. b : FALSE
    BY <1>3
  <2> QED
    BY <2>1, <1>6 DEF LastReturn
<1>14. LastReturn(stk2, r.fb, b - 1)
  <2>1. r.fb \in 0 .. b - 1
    <3>1. PICK d : d = r.fb
      OBVIOUS
    <3>2. d \in 0 .. t
      BY <3>1, <1>5
    <3>3. d \in 0 .. b - 1
      BY <3>2, <1>2, <1>3
    <3> QED
      BY <3>1, <3>3
  <2>2. \A p \in r.fb + 1 .. b - 1 : p \in r.fb + 1 .. t \/ p \in t + 1 .. b - 1
    BY <1>2, <1>5
  <2>3. /\ r.fb = 0 \/ IsReturn(stk2, r.fb)
        /\ \A p \in r.fb + 1 .. t : ~ IsReturn(stk2, p)
    BY <1>9 DEF LastReturn
  <2>4. \A p \in t + 1 .. b - 1 : ~ IsReturn(stk2, p)
    BY <1>6 DEF OnlyOperands
  <2>5. \A p \in r.fb + 1 .. b - 1 : ~ IsReturn(stk2, p)
    BY <2>2, <2>3, <2>4
  <2> QED
    BY <2>1, <2>3, <2>5 DEF LastReturn
<1>15. InOrder(stk2, r2, cs)
  <2>1. LastReturn(stk2, r2.fb, Len(stk2))
    BY <1>6, <1>13
  <2>2. \A p \in t + 1 .. Len(stk2) : IsReturn(stk2, p) => p > 3 /\ LastReturn(stk2, CallerBase(stk2, p), p - 1)
    <3>1. \A p \in t + 1 .. Len(stk2) : IsReturn(stk2, p) => p = b
      BY <1>6, <1>7
    <3>2. b > 3 /\ LastReturn(stk2, CallerBase(stk2, b), b - 1)
      BY <1>2, <1>3, <1>6, <1>14
    <3> QED
      BY <3>1, <3>2
  <2>3. \A p \in t + 1 .. Len(stk2) : IsCatch(stk2, p) => p + 1 <= Len(stk2) /\ stk2[p + 1][1] = "handler"
    BY <1>6, <1>7, <1>8
  <2>4. \A k \in Len(cs) + 1 .. Len(cs) : LastReturn(stk2, cs[k].entry.fb, cs[k].sp) /\ cs[k].entry.pc = CodeOf(stk2, r2.pc, cs[k].sp)
    BY <1>1, <1>2
  <2> QED
    BY <2>1, <2>2, <2>3, <2>4, <1>1, <1>12, GrowOrder
<1>16. ControlOf(stk2, r2.pc, cs) = Append(ControlOf(stk, r.pc, cs), Marked(stk2, r2.pc, b))
  <2>1. \A k \in DOMAIN cs : cs[k].sp <= t
    BY <1>2
  <2>2. b \in t + 1 .. Len(stk2) /\ \A p \in t + 1 .. Len(stk2) : p # b => ~ IsReturn(stk2, p) /\ ~ IsCatch(stk2, p)
    BY <1>3, <1>6, <1>7
  <2>3. Len(cs) = Len(cs)
    OBVIOUS
  <2> QED
    BY <2>1, <2>2, <2>3, <1>6, <1>12, CutPushed
<1>17. Marked(stk2, r2.pc, b) = Item("js", r2.pc)
  <2>1. \A q \in b + 1 .. Len(stk2) : ~ IsReturn(stk2, q)
    BY <1>3, <1>6
  <2>2. CodeOf(stk2, r2.pc, b) = r2.pc
    BY <2>1, CodeLast
  <2>3. b # 0
    BY <1>2, <1>3
  <2> QED
    BY <2>2, <2>3, <1>6, MarkedKinds
<1> QED
  BY <1>15, <1>16, <1>17

LEMMA CallControl ==
    ASSUME NEW stk, NEW r, NEW cs, Inside(stk, r, cs), InOrder(stk, r, cs), NEW flags, NEW f,
           SubCallBytecode(stk, r, cs, flags, f)
    PROVE  /\ Ordered'
           /\ \/ Control' = Append(ControlOf(stk, r.pc, cs), Item("js", f))
              \/ Control' = Structured!Failed(ControlOf(stk, r.pc, cs))
<1> HIDE DEF Word, Registers, Activations
<1>1. PICK words : words = FrameWords[f] + BoundaryWords + Temporaries
  OBVIOUS
<1>2. CASE ~ HasSpace(stk, words)
  <2>1. PICK e : e = "error"
    OBVIOUS
  <2>2. SubExit(stk, r, cs, e)
    BY <2>1, <1>1, <1>2 DEF SubCallBytecode
  <2> QED
    BY <2>2, ExitControl
<1>3. CASE HasSpace(stk, words)
  <2>1. PICK stk2, r2, b : /\ stk2 = stk \o Boundary(stk, r) /\ b = Len(stk) + BoundaryWords
                           /\ r2 = [r EXCEPT !.fb = b, !.pc = f, !.flags = flags, !.closure = ScopeOf(f)]
    OBVIOUS
  <2>2. Running("js", stk2, r2, cs)
    BY <2>1, <1>1, <1>3 DEF SubCallBytecode
  <2>3. r2.fb = b /\ r2.pc = f
    BY <2>1 DEF Inside, Registers
  <2>4. Called(stk, r, stk2)
    BY <2>1 DEF Called
  <2>5. InOrder(stk2, r2, cs) /\ ControlOf(stk2, r2.pc, cs) = Append(ControlOf(stk, r.pc, cs), Item("js", r2.pc))
    <3>1. b = Len(stk) + BoundaryWords
      BY <2>1
    <3> QED
      BY <3>1, <2>3, <2>4, FrameControl
  <2> QED
    BY <2>2, <2>3, <2>5, NowJS
<1> QED
  BY <1>2, <1>3

LEMMA LeftShape ==
    ASSUME NEW c
    PROVE  /\ c \in Structured!Left(c)
           /\ Len(c) = 1 => \A f \in Functions : Append(c, Item("js", f)) \in Structured!Left(c)
BY DEF Structured!Left, Structured!JS, Structured!Item, Item

LEMMA BaseControl ==
    ASSUME NEW stk, NEW r, NEW cs, Inside(stk, r, cs), InOrder(stk, r, cs), stk = << >>
    PROVE  Len(ControlOf(stk, r.pc, cs)) = 1
<1> HIDE DEF Word, Registers, Activations
<1>1. PICK n, s : n = Len(cs) /\ s = cs[n].sp
  OBVIOUS
<1>2. /\ cs \in Seq(Activations) /\ cs # << >> /\ Len(stk) = 0 /\ n \in Nat /\ DOMAIN cs = 1 .. n
      /\ s \in Nat /\ s <= Len(stk) /\ (s = 0 <=> n = 1) /\ \A k \in 1 .. n : cs[k].sp \in 0 .. s
  BY <1>1, InsideShape
<1>3. s = 0 /\ n = 1
  BY <1>2
<1>4. PICK stk2, r2, cs2 : stk2 = SubSeq(stk, 1, s) /\ r2 = cs[n].entry /\ cs2 = Front(cs)
  OBVIOUS
<1>5. Outer(stk2, r2, cs2, stk, r, cs)
  BY <1>1, <1>4 DEF Outer
<1>6. NothingAbove(stk, cs, cs[Len(cs)].sp)
  BY <1>1, <1>2, <1>3 DEF NothingAbove
<1>7. ControlOf(stk, r.pc, cs) = Append(ControlOf(stk2, r2.pc, cs2), Host)
  BY <1>5, <1>6, OuterControl
<1>8. stk2 = << >> /\ cs2 = << >>
  <2>1. stk \in Seq(Word) /\ 0 \in 0 .. Len(stk)
    BY <1>2 DEF Inside
  <2>2. stk2 \in Seq(Word) /\ Len(stk2) = 0
    BY <2>1, <1>3, <1>4, CutShape
  <2>3. cs2 \in Seq(Activations) /\ Len(cs2) = 0
    BY <1>1, <1>2, <1>3, <1>4, FrontShape
  <2> QED
    BY <2>2, <2>3, EmptySeq
<1>9. ControlOf(stk2, r2.pc, cs2) = << >>
  BY <1>8, ControlNone
<1> QED
  BY <1>7, <1>9

LEMMA ReturnToHostControl ==
    ASSUME NEW stk, NEW r, NEW cs, Inside(stk, r, cs), InOrder(stk, r, cs), Len(stk) = cs[Len(cs)].sp,
           SubReturnToHost(stk, r, cs)
    PROVE  Ordered' /\ Control' \in Structured!Left(ControlOf(stk, r.pc, cs))
<1> HIDE DEF Word, Registers, Activations
<1>1. PICK n, s, c : n = Len(cs) /\ s = cs[n].sp /\ c = ControlOf(stk, r.pc, cs)
  OBVIOUS
<1>2. /\ stk \in Seq(Word) /\ r \in Registers /\ cs \in Seq(Activations) /\ cs # << >>
      /\ Len(stk) \in Nat /\ Len(stk) = s /\ s \in Nat /\ n \in Nat /\ n \in 1 .. n /\ DOMAIN cs = 1 .. n
      /\ \A k \in 1 .. n : cs[k].sp \in 0 .. s
  BY <1>1, InsideShape
<1>3. NothingAbove(stk, cs, cs[Len(cs)].sp)
  <2>1. /\ \A p \in s + 1 .. Len(stk) : ~ IsReturn(stk, p) /\ ~ IsCatch(stk, p)
        /\ \A k \in 1 .. n : cs[k].sp <= s
    BY <1>2
  <2> QED
    BY <2>1, <1>1, <1>2 DEF NothingAbove
<1>4. Structured!Failed(c) = c
  BY <1>1, <1>3, NothingToUnwind
<1>5. PICK a : a = Given(cs[n], "result")
  OBVIOUS
<1>6. cs[n] \in Activations
  BY <1>1, <1>2, ElementOfSeq
<1>7. /\ a \in Activations /\ a.sp = cs[n].sp /\ a.entry = cs[n].entry
      /\ [a EXCEPT !.asked = FALSE] \in Activations
      /\ [a EXCEPT !.asked = FALSE].sp = cs[n].sp /\ [a EXCEPT !.asked = FALSE].entry = cs[n].entry
  BY <1>5, <1>6, GivenShape
(* The activation and the queue change, but nothing that stands for an item. *)
<1>8. ASSUME NEW a2 \in Activations, a2.sp = cs[n].sp, a2.entry = cs[n].entry,
             NEW r2 \in Registers, r2.fb = r.fb, r2.pc = r.pc
      PROVE  /\ Inside(stk, r2, SetTop(cs, a2)) /\ InOrder(stk, r2, SetTop(cs, a2))
             /\ ControlOf(stk, r2.pc, SetTop(cs, a2)) = c
  <2>1. PICK cs2 : cs2 = SetTop(cs, a2)
    OBVIOUS
  <2>2. Inside(stk, r2, cs)
    BY <1>8 DEF Inside
  <2>3. Inside(stk, r2, cs2)
    BY <2>1, <2>2, <1>1, <1>2, <1>8, TopChanged
  <2>4. Alike(cs2, cs)
    BY <2>1, <1>1, <1>2, <1>8, AlikeTop
  <2>5. s <= s /\ PlainAbove(stk, s) /\ \A p \in 1 .. s : stk[p] = stk[p]
    BY <1>2 DEF PlainAbove
  <2>6. s # 0 => ~ IsCatch(stk, s)
    BY <1>2, LastWord
  <2>7. InOrder(stk, r2, cs2) /\ ControlOf(stk, r2.pc, cs2) = ControlOf(stk, r.pc, cs)
    BY <2>4, <2>5, <2>6, <1>1, <1>2, <1>8, Swap
  <2> QED
    BY <2>1, <2>3, <2>7, <1>1
<1>9. CASE JobIsDue(stk, r)
  <2>1. PICK r2, cs2, flags : /\ r2 = [r EXCEPT !.queue = @ - 1] /\ cs2 = SetTop(cs, [a EXCEPT !.asked = FALSE])
                              /\ flags = [NoFlags EXCEPT !.fromHost = TRUE]
    OBVIOUS
  <2>2. SubCallBytecode(stk, r2, cs2, flags, JobFunction)
    BY <2>1, <1>1, <1>5, <1>9 DEF SubReturnToHost
  <2>3. r2 \in Registers /\ r2.fb = r.fb /\ r2.pc = r.pc
    <3>1. r.queue > 0 /\ r.queue \in Nat
      BY <1>2, <1>9 DEF JobIsDue, Registers
    <3>2. PICK q : q = r.queue - 1
      OBVIOUS
    <3>3. q \in Nat /\ r2 = [r EXCEPT !.queue = q]
      BY <2>1, <3>1, <3>2
    <3> QED
      BY <3>3, <1>2 DEF Registers
  <2>4. Inside(stk, r2, cs2) /\ InOrder(stk, r2, cs2) /\ ControlOf(stk, r2.pc, cs2) = c
    BY <2>1, <2>3, <1>7, <1>8
  <2>5. /\ Ordered'
        /\ Control' = Append(c, Item("js", JobFunction)) \/ Control' = Structured!Failed(c)
    BY <2>2, <2>4, CallControl
  <2>6. Len(c) = 1
    BY <1>1, <1>9, BaseControl DEF JobIsDue
  <2>7. JobFunction \in Functions
    BY JobFunctionAssumption
  <2> QED
    BY <2>5, <2>6, <2>7, <1>1, <1>4, LeftShape
<1>10. CASE ~ JobIsDue(stk, r)
  <2>1. PICK cs2, e : cs2 = SetTop(cs, a) /\ e = "success"
    OBVIOUS
  <2>2. SubExit(stk, r, cs2, e)
    BY <2>1, <1>1, <1>5, <1>10 DEF SubReturnToHost
  <2>3. Inside(stk, r, cs2) /\ InOrder(stk, r, cs2) /\ ControlOf(stk, r.pc, cs2) = c
    BY <2>1, <1>2, <1>7, <1>8
  <2>4. Ordered' /\ Control' = Structured!Failed(c)
    BY <2>2, <2>3, ExitControl
  <2> QED
    BY <2>4, <1>1, <1>4, LeftShape
<1> QED
  BY <1>9, <1>10

(* What is below the operands of a call is not the first word of a catch   *)
(* target.                                                                 *)
LEMMA ReadyTop ==
    ASSUME NEW stk, NEW s \in Nat, NEW r, NEW f \in AllFlags, NEW t \in Nat, Ready(stk, s, r, f, t),
           NEW w, w = t - Operands(f), s # 0 => ~ IsCatch(stk, s), r \in Registers
    PROVE  /\ w \in Nat /\ s <= w /\ w <= t /\ OnlyOperands(stk, w, t)
           /\ w # 0 => ~ IsCatch(stk, w)
           /\ f.fromHost => w = s
<1>1. OnlyOperands(stk, w, t) /\ Operands(f) \in Nat
  BY FlagsShape DEF Ready
<1>2. CASE f.fromHost
  <2>1. w = s
    BY <1>2 DEF Ready
  <2> QED
    BY <2>1, <1>1
<1>3. CASE ~ f.fromHost
  <2>1. JSState(stk, s, r, w)
    BY <1>3 DEF Ready
  <2>2. r.fb <= w /\ Boundaried(stk, s, r.fb) /\ OwnCatch(stk, r.fb, r.pc, w)
    BY <2>1 DEF JSState, Frame
  <2>3. PICK b : b = r.fb
    OBVIOUS
  <2>4. b \in Nat /\ b >= s + 4 /\ IsReturn(stk, b)
    BY <2>2, <2>3 DEF Boundaried, BoundaryWords, Registers
  <2>5. w \in Nat /\ s <= w /\ w <= t /\ b <= w
    BY <2>2, <2>3, <2>4, <1>1
  <2>6. CASE w = b
    BY <2>4, <2>5, <2>6, <1>1, <1>3 DEF IsReturn, IsCatch
  <2>7. CASE w # b
    <3>1. w \in b + 1 .. w /\ ~ (w + 1 <= w)
      BY <2>4, <2>5, <2>7
    <3>2. ~ IsCatch(stk, w)
      BY <3>1, <2>2, <2>3 DEF OwnCatch
    <3> QED
      BY <3>2, <2>5, <1>1, <1>3
  <2> QED
    BY <2>6, <2>7
<1> QED
  BY <1>2, <1>3

LEMMA PopArgsControl ==
    ASSUME NEW stk, NEW r, NEW cs, Inside(stk, r, cs), InOrder(stk, r, cs), NEW flags \in AllFlags,
           Ready(stk, cs[Len(cs)].sp, r, flags, Len(stk)), SubPopArgs(stk, r, cs, flags)
    PROVE  Ordered' /\ Control' \in Structured!Left(ControlOf(stk, r.pc, cs))
<1> HIDE DEF Word, Registers, Activations
<1>1. PICK n, s, t, w, c : /\ n = Len(cs) /\ s = cs[n].sp /\ t = Len(stk) /\ w = t - Operands(flags)
                           /\ c = ControlOf(stk, r.pc, cs)
  OBVIOUS
<1>2. /\ stk \in Seq(Word) /\ r \in Registers /\ cs \in Seq(Activations)
      /\ t \in Nat /\ s \in Nat /\ (s # 0 => ~ IsCatch(stk, s))
  BY <1>1, InsideShape
<1>3. /\ w \in Nat /\ s <= w /\ w <= t /\ OnlyOperands(stk, w, t) /\ (w # 0 => ~ IsCatch(stk, w))
      /\ (flags.fromHost => w = s)
  <2>1. Ready(stk, s, r, flags, t)
    BY <1>1
  <2> QED
    BY <2>1, <1>1, <1>2, ReadyTop
<1>4. PICK rest : rest = SubSeq(stk, 1, w)
  OBVIOUS
<1>5. rest \in Seq(Word) /\ Len(rest) = w /\ \A p \in 1 .. w : rest[p] = stk[p]
  <2>1. w \in 0 .. Len(stk)
    BY <1>1, <1>2, <1>3
  <2> QED
    BY <2>1, <1>2, <1>4, CutShape
<1>6. PlainAbove(stk, w)
  BY <1>1, <1>2, <1>3 DEF OnlyOperands, PlainAbove
<1>7. Alike(cs, cs)
  BY <1>2, AlikeSelf
<1>8. ASSUME NEW stk2, PlainAbove(stk2, w), \A p \in 1 .. w : stk2[p] = stk[p]
      PROVE  InOrder(stk2, r, cs) /\ ControlOf(stk2, r.pc, cs) = c
  <2>1. s = cs[Len(cs)].sp /\ r.fb = r.fb /\ r.pc = r.pc
    BY <1>1
  <2> QED
    BY <2>1, <1>1, <1>3, <1>6, <1>7, <1>8, Swap
<1>9. InOrder(rest, r, cs) /\ ControlOf(rest, r.pc, cs) = c
  <2>1. PlainAbove(rest, w)
    BY <1>3, <1>5 DEF PlainAbove
  <2> QED
    BY <2>1, <1>5, <1>8
<1>10. CASE flags.fromHost
  <2>1. SubReturnToHost(rest, r, cs)
    BY <1>1, <1>4, <1>10 DEF SubPopArgs
  <2>2. Inside(rest, r, cs)
    <3>1. \A p \in 1 .. s : p \in 1 .. w
      BY <1>2, <1>3
    <3>2. s <= Len(rest) /\ \A p \in 1 .. s : rest[p] = stk[p]
      BY <3>1, <1>3, <1>5
    <3>3. s = cs[Len(cs)].sp
      BY <1>1
    <3> QED
      BY <3>2, <3>3, <1>2, <1>5, InsideSame
  <2>3. Len(rest) = cs[Len(cs)].sp
    BY <1>1, <1>3, <1>5, <1>10
  <2>4. Ordered' /\ Control' \in Structured!Left(ControlOf(rest, r.pc, cs))
    BY <2>1, <2>2, <2>3, <1>9, ReturnToHostControl
  <2> QED
    BY <2>4, <1>1, <1>9
<1>11. CASE ~ flags.fromHost
  <2>1. PICK stk2 : stk2 = IF flags.void THEN rest ELSE Append(rest, Val)
    OBVIOUS
  <2>2. Running("js", stk2, r, cs)
    <3>1. SubPopArgs(stk, r, cs, flags) <=> Running("js", IF flags.void THEN rest ELSE Append(rest, Val), r, cs)
      BY <1>1, <1>4, <1>11 DEF SubPopArgs
    <3> QED
      BY <3>1, <2>1
  <2>3. InOrder(stk2, r, cs) /\ ControlOf(stk2, r.pc, cs) = c
    <3>1. CASE flags.void
      BY <3>1, <2>1, <1>9
    <3>2. CASE ~ flags.void
      <4>1. stk2 = Append(rest, Val)
        BY <3>2, <2>1
      <4>2. /\ Len(stk2) = w + 1 /\ \A p \in 1 .. w : stk2[p] = rest[p]
            /\ stk2[w + 1] = Val /\ Val[1] = "value"
        BY <4>1, <1>5, NewWords, PushedShape
      <4>3. \A p \in w + 1 .. w + 1 : p = w + 1
        BY <1>3
      <4>4. /\ Len(stk2) \in Nat /\ w <= Len(stk2) /\ \A p \in 1 .. w : stk2[p] = stk[p]
        BY <4>2, <1>3, <1>5
      <4>5. PlainAbove(stk2, w)
        BY <4>2, <4>3, <4>4 DEF IsReturn, IsCatch, PlainAbove
      <4> QED
        BY <4>4, <4>5, <1>8
    <3> QED
      BY <3>1, <3>2
  <2>4. Ordered' /\ Control' = c
    BY <2>2, <2>3, NowJS
  <2> QED
    BY <2>4, <1>1, LeftShape
<1> QED
  BY <1>10, <1>11

LEMMA CallHostControl ==
    ASSUME NEW stk, NEW r, NEW cs, Inside(stk, r, cs), InOrder(stk, r, cs), NEW flags \in AllFlags,
           SubCallHost(stk, r, cs, flags)
    PROVE  Ordered' /\ Control' = Append(ControlOf(stk, r.pc, cs), Host)
<1> HIDE DEF Word, Registers, Activations
<1>1. PICK n, s, t : n = Len(cs) /\ s = cs[n].sp /\ t = Len(stk)
  OBVIOUS
<1>2. /\ stk \in Seq(Word) /\ r \in Registers /\ cs \in Seq(Activations) /\ cs # << >> /\ n \in 1 .. n
      /\ t \in Nat /\ s \in Nat /\ s <= t
  BY <1>1, InsideShape
<1>3. PICK r2, stk2, h, a, cs2 :
        /\ r2 = [r EXCEPT !.flags = flags] /\ stk2 = Append(stk, Val)
        /\ h = [flags |-> flags, savedFlags |-> r.flags, regCopy |-> r2, sp |-> t + 1]
        /\ a = [cs[n] EXCEPT !.host = h] /\ cs2 = SetTop(cs, a)
  OBVIOUS
<1>4. Running("host", stk2, r2, cs2)
  BY <1>1, <1>3 DEF SubCallHost
<1>5. r2 \in Registers /\ r2.fb = r.fb /\ r2.pc = r.pc /\ r.flags \in AllFlags
  BY <1>2, <1>3 DEF Registers
<1>6. h \in InHost
  <2>1. PICK u : u = t + 1
    OBVIOUS
  <2>2. u \in Nat
    BY <2>1, <1>2
  <2> QED
    BY <2>1, <2>2, <1>3, <1>5 DEF InHost
<1>7. a \in Activations /\ a.sp = cs[n].sp /\ a.entry = cs[n].entry
  <2>1. cs[n] \in Activations
    BY <1>1, <1>2, ElementOfSeq
  <2> QED
    BY <2>1, <1>3, <1>6 DEF Activations
<1>8. Alike(cs2, cs)
  BY <1>1, <1>2, <1>3, <1>7, AlikeTop
<1>9. PlainAbove(stk2, t) /\ \A p \in 1 .. t : stk2[p] = stk[p]
  <2>1. /\ Len(stk2) = t + 1 /\ \A p \in 1 .. t : stk2[p] = stk[p]
        /\ stk2[t + 1] = Val /\ Val[1] = "value"
    BY <1>1, <1>2, <1>3, NewWords, PushedShape
  <2>2. \A p \in t + 1 .. t + 1 : p = t + 1
    BY <1>2
  <2>3. t + 1 \in Nat /\ t <= t + 1
    BY <1>2
  <2> QED
    BY <2>1, <2>2, <2>3 DEF PlainAbove, IsReturn, IsCatch
<1>10. PlainAbove(stk, t) /\ (t # 0 => ~ IsCatch(stk, t))
  <2>1. t # 0 => ~ IsCatch(stk, t)
    BY <1>1, <1>2, LastWord
  <2>2. t <= t /\ \A p \in t + 1 .. t : ~ IsReturn(stk, p) /\ ~ IsCatch(stk, p)
    BY <1>2
  <2> QED
    BY <2>1, <2>2, <1>1, <1>2 DEF PlainAbove
<1>11. InOrder(stk2, r2, cs2) /\ ControlOf(stk2, r2.pc, cs2) = ControlOf(stk, r.pc, cs)
  BY <1>1, <1>2, <1>5, <1>8, <1>9, <1>10, Swap, SMTT(20)
<1> QED
  BY <1>4, <1>11, NowHost

(* What can follow on a call.                                              *)
AfterCall(c) == Structured!FromAny(c) \cup Structured!Left(c) \cup {Structured!Failed(c)}

LEMMA FromAnyShape ==
    ASSUME NEW c
    PROVE  /\ \A f \in Functions : Append(c, Item("js", f)) \in Structured!FromAny(c)
           /\ Append(c, Host) \in Structured!FromAny(c)
BY DEF Structured!FromAny, Structured!JS, Structured!Host, Structured!Item, Item, Host

LEMMA SubCallControl ==
    ASSUME NEW stk, NEW r, NEW cs, Inside(stk, r, cs), InOrder(stk, r, cs), NEW flags \in AllFlags,
           NEW target \in Targets, Ready(stk, cs[Len(cs)].sp, r, flags, Len(stk)),
           SubCall(stk, r, cs, flags, target)
    PROVE  Ordered' /\ Control' \in AfterCall(ControlOf(stk, r.pc, cs))
<1> HIDE DEF Word, Registers, Activations
<1>1. PICK c : c = ControlOf(stk, r.pc, cs)
  OBVIOUS
<1>2. CASE target \in Functions
  <2>1. SubCallBytecode(stk, r, cs, flags, target)
    BY <1>2, TargetsAssumption DEF SubCall
  <2>2. Ordered' /\ (Control' = Append(c, Item("js", target)) \/ Control' = Structured!Failed(c))
    BY <2>1, <1>1, CallControl
  <2> QED
    BY <2>2, <1>1, <1>2, FromAnyShape DEF AfterCall
<1>3. CASE target = "host"
  <2>1. SubCallHost(stk, r, cs, flags)
    BY <1>3, TargetsAssumption DEF SubCall
  <2>2. Ordered' /\ Control' = Append(c, Host)
    BY <2>1, <1>1, CallHostControl
  <2> QED
    BY <2>2, <1>1, FromAnyShape DEF AfterCall
<1>4. CASE target = "noop"
  <2>1. SubPopArgs(stk, r, cs, flags)
    BY <1>4, TargetsAssumption DEF SubCall
  <2>2. Ordered' /\ Control' \in Structured!Left(c)
    BY <2>1, <1>1, PopArgsControl
  <2> QED
    BY <2>2, <1>1 DEF AfterCall
<1>5. CASE target = "uncallable"
  <2>1. PICK e : e = "error"
    OBVIOUS
  <2>2. SubExit(stk, r, cs, e)
    BY <2>1, <1>5, TargetsAssumption DEF SubCall
  <2>3. Ordered' /\ Control' = Structured!Failed(c)
    BY <2>2, <1>1, ExitControl
  <2> QED
    BY <2>3, <1>1 DEF AfterCall
<1> QED
  BY <1>2, <1>3, <1>4, <1>5 DEF Targets

-----------------------------------------------------------------------------
(* An exception.                                                           *)

(* No catch target is above the frame that throws, or there is none.       *)
Throws(stk, s, r) ==
    \/ r.catch = 0 /\ \A p \in s + 1 .. Len(stk) : ~ IsCatch(stk, p)
    \/ \E t \in Nat : /\ t <= Len(stk) /\ JSState(stk, s, r, t)
                      /\ \A p \in t + 1 .. Len(stk) : ~ IsCatch(stk, p)

(* No try block is above the host function that waits.                     *)
LEMMA UncaughtControl ==
    ASSUME NEW stk, NEW r, NEW cs, Inside(stk, r, cs), InOrder(stk, r, cs),
           \A p \in cs[Len(cs)].sp + 1 .. Len(stk) : ~ IsCatch(stk, p)
    PROVE  Structured!Thrown(ControlOf(stk, r.pc, cs)) = Structured!Failed(ControlOf(stk, r.pc, cs))
<1> HIDE DEF Word, Registers, Activations
<1>1. PICK n, u, m, pc, x : n = Len(cs) /\ u = cs[n].sp /\ m = Len(stk) /\ pc = r.pc /\ x = ControlOf(stk, pc, cs)
  OBVIOUS
<1>2. /\ cs # << >> /\ m \in Nat /\ n \in Nat /\ n \in 1 .. n /\ DOMAIN cs = 1 .. n
      /\ u \in Nat /\ u <= m /\ \A k \in 1 .. n : cs[k].sp \in 0 .. u
      /\ (u # 0 => ~ IsCatch(stk, u) /\ ~ IsReturn(stk, u))
  BY <1>1, InsideShape
<1>3. PICK s : Reads(x, s, stk, pc, cs, m)
  BY <1>1, <1>2, ControlReads
<1>4. /\ x \in Seq(AllMarked(stk, pc)) /\ Len(x) \in Nat
      /\ \A i, j \in 1 .. Len(x) : i < j => s[i] < s[j]
      /\ \A i \in 1 .. Len(x) : s[i] \in Marks(stk, cs, m) /\ x[i] = Marked(stk, pc, s[i])
      /\ \A p \in Marks(stk, cs, m) : \E i \in 1 .. Len(x) : s[i] = p
  BY <1>3, ControlShape
<1>5. u \in Marks(stk, cs, m)
  <2>1. IsHost(cs, u)
    BY <1>1, <1>2 DEF IsHost
  <2> QED
    BY <2>1, <1>2 DEF Marks, IsMark
<1>6. PICK i \in 1 .. Len(x) : s[i] = u
  BY <1>4, <1>5
<1>7. x[i].kind = "host"
  <2>1. x[i] = Marked(stk, pc, u)
    BY <1>4, <1>6
  <2> QED
    BY <2>1, <1>2, MarkedKinds
<1>8. ASSUME NEW j \in 1 .. Len(x), i < j PROVE x[j].kind # "host" /\ x[j].kind # "try"
  <2>1. PICK p : p = s[j]
    OBVIOUS
  <2>2. p \in Marks(stk, cs, m) /\ u < p /\ x[j] = Marked(stk, pc, p)
    BY <2>1, <1>4, <1>6, <1>8
  <2>3. p \in u + 1 .. m /\ p # 0 /\ IsMark(stk, cs, p)
    BY <2>2, <1>2 DEF Marks
  <2>4. ~ IsHost(cs, p)
    <3>1. ASSUME NEW k \in DOMAIN cs PROVE cs[k].sp # p
      BY <2>3, <1>2
    <3> QED
      BY <3>1 DEF IsHost
  <2>5. ~ IsCatch(stk, p)
    BY <2>3, <1>1
  <2>6. IsReturn(stk, p)
    BY <2>3, <2>4, <2>5 DEF IsMark
  <2>7. Marked(stk, pc, p).kind = "js"
    BY <2>3, <2>6, MarkedKinds
  <2> QED
    BY <2>2, <2>7
<1>9. Structured!Thrown(x) = Structured!Failed(x)
  BY <1>4, <1>7, <1>8, ThrownToHost
<1> QED
  BY <1>1, <1>9

(* The activations and the registers change in nothing that counts.        *)
LEMMA Unchanged ==
    ASSUME NEW stk, NEW r, NEW cs, Inside(stk, r, cs), InOrder(stk, r, cs),
           NEW r2, r2.fb = r.fb, r2.pc = r.pc, NEW cs2, Alike(cs2, cs)
    PROVE  InOrder(stk, r2, cs2) /\ ControlOf(stk, r2.pc, cs2) = ControlOf(stk, r.pc, cs)
<1> HIDE DEF Word, Registers, Activations
<1>1. PICK n, s, t : n = Len(cs) /\ s = cs[n].sp /\ t = Len(stk)
  OBVIOUS
<1>2. t \in Nat /\ s \in Nat /\ s <= t
  BY <1>1, InsideShape
<1>3. t # 0 => ~ IsCatch(stk, t)
  BY <1>1, <1>2, LastWord
<1>4. PlainAbove(stk, t) /\ \A p \in 1 .. t : stk[p] = stk[p]
  <2>1. t <= t /\ \A p \in t + 1 .. t : ~ IsReturn(stk, p) /\ ~ IsCatch(stk, p)
    BY <1>2
  <2> QED
    BY <2>1, <1>1, <1>2 DEF PlainAbove
<1> QED
  BY <1>1, <1>2, <1>3, <1>4, Swap

(* The frame that is innermost below the catch target c.                   *)
LEMMA FrameOfCatch ==
    ASSUME NEW stk, NEW r, NEW cs, Inside(stk, r, cs), InOrder(stk, r, cs), NEW s, s = cs[Len(cs)].sp,
           NEW t \in Nat, t <= Len(stk), JSState(stk, s, r, t), NEW c, c = r.catch, c # 0,
           NEW r1, r1 = IF r.fb >= c THEN Restored(stk, r, OutermostPopped(stk, c)[r.fb]) ELSE r
    PROVE  /\ r1 \in Registers /\ c \in s + 1 .. t - 1 /\ IsCatch(stk, c)
           /\ s < r1.fb /\ r1.fb < c /\ LastReturn(stk, r1.fb, c - 1)
<1> HIDE DEF Word, Registers, Activations
<1>1. /\ stk \in Seq(Word) /\ r \in Registers /\ Len(stk) \in Nat /\ s \in Nat /\ s <= Len(stk)
  <2>1. PICK n : n = Len(cs)
    OBVIOUS
  <2> QED
    BY <2>1, InsideShape
<1>2. r.fb \in Nat /\ c \in Nat /\ r.flags \in AllFlags
  BY <1>1 DEF Registers
<1>3. Chained(stk, s, c, t) /\ Linked(stk, s, t) /\ Frame(stk, s, r.fb, r.flags) /\ r.fb <= t
  BY DEF JSState
<1>4. c \in s + 1 .. t - 1 /\ IsCatch(stk, c)
  BY <1>1, <1>2, <1>3, ChainBelow
<1>5. PICK b, f : b = r.fb /\ f = r.flags
  OBVIOUS
<1>6. b \in Nat /\ b <= t /\ Frame(stk, s, b, f) /\ f \in AllFlags /\ LastReturn(stk, b, Len(stk))
  BY <1>2, <1>3, <1>5 DEF InOrder
<1>7. CASE b < c
  <2>1. r1 = r
    BY <1>2, <1>5, <1>6, <1>7
  <2>2. s < b
    BY <1>1, <1>6 DEF Frame, Boundaried, BoundaryWords
  <2>3. LastReturn(stk, b, c - 1)
    <3>1. b \in 0 .. c - 1 /\ \A p \in b + 1 .. c - 1 : p \in b + 1 .. Len(stk)
      BY <1>1, <1>2, <1>4, <1>6, <1>7
    <3> QED
      BY <3>1, <1>6 DEF LastReturn
  <2> QED
    BY <2>1, <2>2, <2>3, <1>1, <1>4, <1>5, <1>7
<1>8. CASE b >= c
  <2>1. c <= b /\ c \in s + 1 .. t
    BY <1>2, <1>4, <1>6, <1>8
  <2>2. PICK d \in c .. b : /\ d = OutermostPopped(stk, c)[b]
                            /\ IsReturn(stk, d) /\ Boundaried(stk, s, d)
                            /\ CallerBase(stk, d) \in s + 1 .. c - 1
    BY <2>1, <1>1, <1>2, <1>3, <1>4, <1>6, PoppedFrame
  <2>3. r1 = Restored(stk, r, d)
    BY <2>2, <1>5, <1>8
  <2>4. d \in Int /\ c <= d /\ d <= b /\ d <= Len(stk) /\ d \in 1 .. Len(stk)
    BY <2>2, <1>1, <1>2, <1>4, <1>6, SMTT(20)
  <2>5. r1 \in Registers /\ r1.fb = CallerBase(stk, d)
    BY <2>2, <2>3, <2>4, <1>1, RestoredShape
  <2>6. PICK e : e = CallerBase(stk, d)
    OBVIOUS
  <2>7. e \in s + 1 .. c - 1 /\ LastReturn(stk, e, d - 1)
    BY <2>2, <2>4, <2>6 DEF InOrder
  <2>8. LastReturn(stk, e, c - 1)
    <3>1. e \in 0 .. c - 1 /\ \A p \in e + 1 .. c - 1 : p \in e + 1 .. d - 1
      BY <2>4, <2>7, <1>1, <1>2, SMTT(20)
    <3> QED
      BY <3>1, <2>7 DEF LastReturn
  <2>9. s < e /\ e < c
    BY <2>7, <1>1, <1>2
  <2> QED
    BY <2>5, <2>6, <2>8, <2>9, <1>4
<1> QED
  BY <1>2, <1>6, <1>7, <1>8

LEMMA ThrowControl ==
    ASSUME NEW stk, NEW r, NEW cs, Inside(stk, r, cs), InOrder(stk, r, cs), NEW s, s = cs[Len(cs)].sp,
           Throws(stk, s, r), SubThrow(stk, r, cs)
    PROVE  Ordered' /\ Control' = Structured!Thrown(ControlOf(stk, r.pc, cs))
<1> HIDE DEF Word, Registers, Activations
<1>1. PICK n, m : n = Len(cs) /\ m = Len(stk)
  OBVIOUS
<1>2. /\ stk \in Seq(Word) /\ r \in Registers /\ cs \in Seq(Activations) /\ cs # << >>
      /\ m \in Nat /\ n \in Nat /\ n # 0 /\ n \in 1 .. n /\ DOMAIN cs = 1 .. n
      /\ s \in Nat /\ s <= m /\ \A k \in 1 .. n : cs[k].sp \in 0 .. s
  BY <1>1, InsideShape
<1>3. cs[n] \in Activations
  BY <1>1, <1>2, ElementOfSeq
<1>4. CASE r.catch = 0
  <2>1. PICK a, cs2, e : a = Given(cs[n], "exception") /\ cs2 = SetTop(cs, a) /\ e = "uncaught"
    OBVIOUS
  <2>2. a \in Activations /\ a.sp = cs[n].sp /\ a.entry = cs[n].entry
    BY <2>1, <1>3, GivenShape
  <2>3. SubExit(stk, r, cs2, e)
    BY <2>1, <1>1, <1>4 DEF SubThrow
  <2>4. Inside(stk, r, cs2)
    BY <2>1, <2>2, <1>1, <1>2, TopChanged
  <2>5. Alike(cs2, cs)
    BY <2>1, <2>2, <1>1, <1>2, AlikeTop
  <2>6. InOrder(stk, r, cs2) /\ ControlOf(stk, r.pc, cs2) = ControlOf(stk, r.pc, cs)
    BY <2>5, Unchanged
  <2>7. Ordered' /\ Control' = Structured!Failed(ControlOf(stk, r.pc, cs))
    <3>1. Ordered' /\ Control' = Structured!Failed(ControlOf(stk, r.pc, cs2))
      BY <2>3, <2>4, <2>6, ExitControl
    <3> QED
      BY <3>1, <2>6
  <2>8. \A p \in s + 1 .. Len(stk) : ~ IsCatch(stk, p)
    <3>1. SUFFICES ASSUME NEW t \in Nat, t <= Len(stk), JSState(stk, s, r, t),
                          \A p \in t + 1 .. Len(stk) : ~ IsCatch(stk, p)
                   PROVE  \A p \in s + 1 .. Len(stk) : ~ IsCatch(stk, p)
      BY DEF Throws
    <3>2. \A p \in s + 1 .. t : IsCatch(stk, p) => p <= 0
      BY <3>1, <1>4 DEF JSState, Chained
    <3>3. \A p \in s + 1 .. t : ~ (p <= 0)
      BY <1>2
    <3>4. \A p \in s + 1 .. m : p \in s + 1 .. t \/ p \in t + 1 .. m
      BY <1>2
    <3> QED
      BY <3>1, <3>2, <3>3, <3>4, <1>1
  <2>9. Structured!Thrown(ControlOf(stk, r.pc, cs)) = Structured!Failed(ControlOf(stk, r.pc, cs))
    BY <2>8, UncaughtControl
  <2> QED
    BY <2>7, <2>9
<1>5. CASE r.catch # 0
  <2>1. PICK t \in Nat : /\ t <= Len(stk) /\ JSState(stk, s, r, t)
                         /\ \A p \in t + 1 .. Len(stk) : ~ IsCatch(stk, p)
    BY <1>5 DEF Throws
  <2>2. PICK c, r1 : c = r.catch /\ r1 = IF r.fb >= c THEN Restored(stk, r, OutermostPopped(stk, c)[r.fb]) ELSE r
    OBVIOUS
  <2>3. PICK h, r2, stk2 : /\ h = stk[c + 1][2] /\ r2 = [r1 EXCEPT !.catch = OuterCatch(stk, c), !.pc = h]
                           /\ stk2 = Append(SubSeq(stk, 1, c - 1), Val)
    OBVIOUS
  <2>4. Running("js", stk2, r2, cs)
    <3>1. SubThrow(stk, r, cs) <=> Running("js", Append(SubSeq(stk, 1, c - 1), Val),
             [r1 EXCEPT !.catch = OuterCatch(stk, c), !.pc = stk[c + 1][2]], cs)
      BY <1>5, <2>2 DEF SubThrow
    <3> QED
      BY <3>1, <2>3
  <2>5. /\ r1 \in Registers /\ c \in s + 1 .. t - 1 /\ IsCatch(stk, c)
        /\ s < r1.fb /\ r1.fb < c /\ LastReturn(stk, r1.fb, c - 1)
    BY <2>1, <2>2, <1>5, FrameOfCatch
  <2>6. PICK d, k : d = r1.fb /\ k = c - 1
    OBVIOUS
  <2>7. d \in Nat
    BY <2>5, <2>6 DEF Registers
  <2>8. /\ c \in Nat /\ k \in Nat /\ c = k + 1 /\ k \in 0 .. m /\ s <= k /\ k <= m /\ c \in 1 .. m
        /\ d \in 1 .. k /\ s < d /\ LastReturn(stk, d, k)
    BY <2>1, <2>5, <2>6, <2>7, <1>1, <1>2, SMTT(20)
  <2>9. r2.fb = d /\ r2.pc = h
    BY <2>3, <2>5, <2>6 DEF Registers
  <2>10. /\ Len(stk2) = c /\ \A p \in 1 .. k : stk2[p] = stk[p]
         /\ stk2[c] = Val /\ Val[1] = "value"
    <3>1. PICK cut : cut = SubSeq(stk, 1, k)
      OBVIOUS
    <3>2. cut \in Seq(Word) /\ Len(cut) = k /\ \A p \in 1 .. k : cut[p] = stk[p]
      BY <3>1, <2>8, <1>1, <1>2, CutShape
    <3>3. stk2 = Append(cut, Val)
      BY <3>1, <2>3, <2>6
    <3>4. /\ Len(stk2) = k + 1 /\ \A p \in 1 .. k : stk2[p] = cut[p] /\ stk2[k + 1] = Val /\ Val[1] = "value"
      BY <3>2, <3>3, NewWords, PushedShape
    <3>5. stk2[k + 1] = Val /\ Val[1] = "value"
      BY <3>2, <3>3, NewWords, PushedShape
    <3> QED
      BY <3>2, <3>4, <3>5, <2>8
  <2>11. PICK r3 : r3 = [fb |-> d, pc |-> CodeOf(stk, r.pc, k)]
    OBVIOUS
  <2>12. r3.fb = d /\ r3.pc = CodeOf(stk, r.pc, k)
    BY <2>11
  <2>13. Cut(stk2, r3, cs, stk, r, cs, k)
    <3>1. \A p \in k + 1 .. Len(stk2) : ~ IsReturn(stk2, p) /\ ~ IsCatch(stk2, p)
      <4>1. \A p \in k + 1 .. Len(stk2) : p = c
        BY <2>8, <2>10
      <4> QED
        BY <4>1, <2>10 DEF IsReturn, IsCatch
    <3>2. k # 0 => ~ IsCatch(stk, k)
      <4>1. SUFFICES ASSUME k # 0, IsCatch(stk, k) PROVE FALSE
        OBVIOUS
      <4>2. k \in 1 .. Len(stk)
        BY <4>1, <2>8, <1>1
      <4>3. stk[k + 1][1] = "handler"
        BY <4>1, <4>2 DEF InOrder
      <4> QED
        BY <4>3, <2>5, <2>8 DEF IsCatch
    <3>3. \A j \in 1 .. n : cs[j].sp \in 0 .. k /\ j <= n
      BY <2>8, <1>2
    <3>4. k <= Len(stk2) /\ Len(stk2) \in Nat /\ k <= Len(stk) /\ n <= n
      BY <2>8, <2>10, <1>1, <1>2
    <3> QED
      BY <3>1, <3>2, <3>3, <3>4, <2>8, <2>10, <2>12, <1>1, <1>2 DEF Cut
  <2>14. InOrder(stk2, r3, cs)
    BY <2>13, CutOrder
  <2>15. InOrder(stk2, r2, cs)
    <3>1. IsReturn(stk2, d)
      <4>1. IsReturn(stk, d) /\ d \in 1 .. k
        BY <2>8 DEF LastReturn
      <4> QED
        BY <4>1, <2>10 DEF IsReturn
    <3>2. d \in 1 .. Len(stk2) /\ Len(stk2) \in Nat
      BY <2>8, <2>10
    <3>3. \A j \in DOMAIN cs : cs[j].sp \in Nat /\ cs[j].sp < d
      BY <2>7, <2>8, <1>2
    <3>4. r2.fb = r3.fb
      BY <2>9, <2>12
    <3> QED
      BY <3>1, <3>2, <3>3, <3>4, <2>14, PcOrder
  <2>16. ControlOf(stk2, h, cs) = Structured!Thrown(ControlOf(stk, r.pc, cs))
    <3>1. \A p \in c + 1 .. Len(stk) : ~ IsCatch(stk, p)
      <4>1. \A p \in s + 1 .. t : IsCatch(stk, p) => p <= c
        BY <2>1, <2>2 DEF JSState, Chained
      <4>2. \A p \in c + 1 .. m : ~ (p <= c) /\ (p \in s + 1 .. t \/ p \in t + 1 .. m)
        BY <2>8, <1>2
      <4> QED
        BY <4>1, <4>2, <2>1, <1>1
    <3>2. \A j \in DOMAIN cs : cs[j].sp < c
      BY <2>8, <1>2
    <3>3. c \in 1 .. Len(stk) /\ k = c - 1 /\ IsCatch(stk, c) /\ d \in 1 .. k /\ d = r3.fb /\ h = stk[c + 1][2]
      BY <2>3, <2>5, <2>6, <2>8, <2>12, <1>1
    <3>4. cs # << >> /\ Cut(stk2, r3, cs, stk, r, cs, k)
      BY <2>13, <1>2
    <3> QED
      BY <3>1, <3>2, <3>3, <3>4, ThrownControl, SMTT(20)
  <2> QED
    BY <2>4, <2>9, <2>15, <2>16, NowJS
<1> QED
  BY <1>4, <1>5

-----------------------------------------------------------------------------
(* The steps.                                                              *)

(* What each step does to the control state.                               *)
Moves == Ordered' /\ (Control' \in Structured!Successors(Control) \/ Control' = Control)

LEMMA SuccessorShape ==
    ASSUME NEW c, NEW k, c[Len(c)].kind = k
    PROVE  /\ Structured!FromAny(c) \subseteq Structured!Successors(c)
           /\ k = "js" => Structured!FromJS(c) \subseteq Structured!Successors(c)
           /\ k = "try" => Structured!FromTry(c) \subseteq Structured!Successors(c)
           /\ k = "host" /\ Len(c) > 1 => Structured!FromHost(c) \subseteq Structured!Successors(c)
<1>1. Structured!Last(c).kind = k
  BY DEF Structured!Last
<1> QED
  BY <1>1 DEF Structured!Successors

LEMMA FromCode ==
    ASSUME NEW c, c[Len(c)].kind \in {"js", "try"}
    PROVE  /\ Structured!FromAny(c) \subseteq Structured!Successors(c)
           /\ Structured!Thrown(c) \in Structured!Successors(c) /\ Structured!Failed(c) \in Structured!Successors(c)
           /\ \A h \in Handlers : Append(c, Item("try", h)) \in Structured!Successors(c)
<1>1. PICK k : k = c[Len(c)].kind
  OBVIOUS
<1>2. /\ Structured!FromAny(c) \subseteq Structured!Successors(c)
      /\ k = "js" => Structured!FromJS(c) \subseteq Structured!Successors(c)
      /\ k = "try" => Structured!FromTry(c) \subseteq Structured!Successors(c)
  BY <1>1, SuccessorShape
<1>3. /\ Structured!Thrown(c) \in Structured!FromJS(c) /\ Structured!Failed(c) \in Structured!FromJS(c)
      /\ Structured!Thrown(c) \in Structured!FromTry(c) /\ Structured!Failed(c) \in Structured!FromTry(c)
  BY DEF Structured!FromJS, Structured!FromTry
<1>4. \A h \in Handlers : /\ Append(c, Item("try", h)) \in Structured!FromJS(c)
                          /\ Append(c, Item("try", h)) \in Structured!FromTry(c)
  BY DEF Structured!FromJS, Structured!FromTry, Structured!Try, Structured!Item, Item
<1> QED
  BY <1>1, <1>2, <1>3, <1>4

(* The last item when JS code runs is its function or one of its try       *)
(* blocks.                                                                 *)
LEMMA InCode ==
    ASSUME IInv, Ordered, mode = "js", NEW stk, NEW r, NEW cs, NEW s, NEW t, NEW c,
           stk = stack, r = reg, cs = calls, s = cs[Len(cs)].sp, t = Len(stk), c = Control
    PROVE  /\ Inside(stk, r, cs) /\ InOrder(stk, r, cs) /\ JSState(stk, s, r, t) /\ cs # << >>
           /\ c = ControlOf(stk, r.pc, cs) /\ c[Len(c)].kind \in {"js", "try"}
<1> HIDE DEF Word, Registers, Activations
<1>1. cs # << >>
  BY DEF IInv, Consistent
<1>2. Inside(stk, r, cs) /\ JSState(stk, s, r, t) /\ InOrder(stk, r, cs)
  BY <1>1, InsideNow DEF Ordered
<1>3. c = ControlOf(stk, r.pc, cs)
  BY DEF Control
<1>4. PICK n, b, pc : n = Len(cs) /\ b = r.fb /\ pc = r.pc
  OBVIOUS
<1>5. /\ r \in Registers /\ t \in Nat /\ n \in Nat /\ DOMAIN cs = 1 .. n
      /\ s \in Nat /\ \A k \in 1 .. n : cs[k].sp \in 0 .. s
  BY <1>2, <1>4, InsideShape
<1>6. b \in Nat /\ b <= t /\ s < b /\ IsReturn(stk, b) /\ b \in 0 .. t /\ b # 0
  <2>1. b \in Nat
    BY <1>4, <1>5 DEF Registers
  <2>2. b <= t /\ b >= s + 4 /\ IsReturn(stk, b)
    BY <1>2, <1>4 DEF JSState, Frame, Boundaried, BoundaryWords
  <2> QED
    BY <2>1, <2>2, <1>5
<1>7. PICK x : Reads(c, x, stk, pc, cs, t)
  BY <1>3, <1>4, <1>5, ControlReads
<1>8. /\ Len(c) \in Nat
      /\ \A i, j \in 1 .. Len(c) : i < j => x[i] < x[j]
      /\ \A i \in 1 .. Len(c) : x[i] \in Marks(stk, cs, t) /\ c[i] = Marked(stk, pc, x[i])
      /\ \A p \in Marks(stk, cs, t) : \E i \in 1 .. Len(c) : x[i] = p
  BY <1>7, ControlShape
<1>9. PICK i \in 1 .. Len(c) : x[i] = b
  <2>1. b \in Marks(stk, cs, t)
    BY <1>6 DEF Marks, IsMark
  <2> QED
    BY <2>1, <1>8
<1>10. PICK l, p : l = Len(c) /\ p = x[l]
  OBVIOUS
<1>11. l \in 1 .. Len(c) /\ p \in Marks(stk, cs, t) /\ c[l] = Marked(stk, pc, p) /\ b <= p
  <2>1. l \in 1 .. Len(c)
    BY <1>8, <1>9, <1>10
  <2>2. i = l \/ i < l
    BY <1>8, <1>9, <1>10
  <2>3. i < l => b < p
    BY <2>1, <1>8, <1>9, <1>10
  <2>4. i = l => b = p
    BY <1>9, <1>10
  <2>5. p \in Marks(stk, cs, t) /\ c[l] = Marked(stk, pc, p)
    BY <2>1, <1>8, <1>10
  <2>6. p \in Nat
    BY <2>5 DEF Marks
  <2> QED
    BY <2>1, <2>2, <2>3, <2>4, <2>5, <2>6, <1>6
<1>12. p \in Nat /\ p # 0 /\ IsMark(stk, cs, p)
  BY <1>6, <1>11 DEF Marks
<1>13. ~ IsHost(cs, p)
  <2>1. ASSUME NEW k \in DOMAIN cs PROVE cs[k].sp # p
    BY <1>5, <1>6, <1>11, <1>12
  <2> QED
    BY <2>1 DEF IsHost
<1>14. IsReturn(stk, p) \/ IsCatch(stk, p)
  BY <1>12, <1>13 DEF IsMark
<1>15. c[l].kind \in {"js", "try"}
  BY <1>11, <1>12, <1>14, MarkedKinds
<1> QED
  BY <1>1, <1>2, <1>3, <1>10, <1>15

(* A call by JS code, and one by the host, which is the last item.         *)
LEMMA AfterCallMoves ==
    ASSUME NEW c, c = Control, c[Len(c)].kind \in {"js", "try"} \/ Structured!Failed(c) = c,
           Ordered', Control' \in AfterCall(c)
    PROVE  Moves
<1>1. Structured!FromAny(c) \subseteq Structured!Successors(c)
  <2>1. PICK k : k = c[Len(c)].kind
    OBVIOUS
  <2> QED
    BY <2>1, SuccessorShape
<1>2. Structured!Left(c) \subseteq {c} \cup Structured!FromAny(c)
  BY DEF Structured!Left, Structured!FromAny
<1>3. Structured!Failed(c) \in Structured!Successors(c) \/ Structured!Failed(c) = c
  BY FromCode
<1> QED
  BY <1>1, <1>2, <1>3 DEF Moves, AfterCall

LEMMA FailMoves ==
    ASSUME IInv, Ordered, Fail
    PROVE  Moves
<1>1. PICK stk, r, cs, s, t, c, e : /\ stk = stack /\ r = reg /\ cs = calls /\ s = cs[Len(cs)].sp /\ t = Len(stk)
                                    /\ c = Control /\ e = "error"
  OBVIOUS
<1>2. mode = "js" /\ SubExit(stk, r, cs, e)
  BY <1>1 DEF Fail
<1>3. /\ Inside(stk, r, cs) /\ InOrder(stk, r, cs)
      /\ c = ControlOf(stk, r.pc, cs) /\ c[Len(c)].kind \in {"js", "try"}
  BY <1>1, <1>2, InCode
<1>4. Ordered' /\ Control' = Structured!Failed(c)
  BY <1>2, <1>3, ExitControl
<1> QED
  BY <1>1, <1>3, <1>4, FromCode DEF Moves

LEMMA ThrowMoves ==
    ASSUME IInv, Ordered, Throw
    PROVE  Moves
<1>1. PICK stk, r, cs, s, t, c : /\ stk = stack /\ r = reg /\ cs = calls /\ s = cs[Len(cs)].sp /\ t = Len(stk)
                                 /\ c = Control
  OBVIOUS
<1>2. mode = "js" /\ SubThrow(stk, r, cs)
  BY <1>1 DEF Throw
<1>3. /\ Inside(stk, r, cs) /\ InOrder(stk, r, cs) /\ JSState(stk, s, r, t)
      /\ c = ControlOf(stk, r.pc, cs) /\ c[Len(c)].kind \in {"js", "try"}
  BY <1>1, <1>2, InCode
<1>4. Throws(stk, s, r)
  <2>1. t \in Nat
    <3> HIDE DEF Word
    <3> QED
      BY <1>1, <1>3, LenProperties DEF Inside
  <2>2. t <= Len(stk) /\ \A p \in t + 1 .. Len(stk) : FALSE
    BY <2>1, <1>1
  <2> QED
    BY <2>1, <2>2, <1>3 DEF Throws
<1>5. Ordered' /\ Control' = Structured!Thrown(c)
  BY <1>1, <1>2, <1>3, <1>4, ThrowControl
<1> QED
  BY <1>1, <1>3, <1>5, FromCode DEF Moves

LEMMA JSCallsMoves ==
    ASSUME IInv, Ordered, NEW kind \in {"normal", "void", "static"}, NEW target \in Targets,
           NEW argc \in ArgCounts, JSCalls(kind, target, argc)
    PROVE  Moves
<1> HIDE DEF Word, Registers, Activations
<1>1. PICK stk, r, cs, s, t, c : /\ stk = stack /\ r = reg /\ cs = calls /\ s = cs[Len(cs)].sp /\ t = Len(stk)
                                 /\ c = Control
  OBVIOUS
<1>2. mode = "js"
  BY DEF JSCalls
<1>3. /\ Inside(stk, r, cs) /\ InOrder(stk, r, cs)
      /\ c = ControlOf(stk, r.pc, cs) /\ c[Len(c)].kind \in {"js", "try"}
  BY <1>1, <1>2, InCode
<1>4. PICK stk2, flags : CallReady(stk2, flags, stk, r, cs, target)
  BY <1>1, CallIsReady
<1>5. /\ Inside(stk2, r, cs) /\ SubCall(stk2, r, cs, flags, target) /\ flags \in AllFlags
      /\ Ready(stk2, cs[Len(cs)].sp, r, flags, Len(stk2))
  BY <1>4 DEF CallReady
<1>6. t <= Len(stk2) /\ OnlyOperands(stk2, t, Len(stk2)) /\ \A p \in 1 .. t : stk2[p] = stk[p]
  BY <1>1, <1>4 DEF CallReady
<1>7. cs \in Seq(Activations) /\ t \in Nat /\ s <= t
  <2>1. PICK n : n = Len(cs)
    OBVIOUS
  <2> QED
    BY <2>1, <1>1, <1>3, InsideShape
<1>8. PlainAbove(stk2, t)
  <2>1. Len(stk2) \in Nat
    BY <1>5, LenProperties DEF Inside
  <2> QED
    BY <2>1, <1>6 DEF PlainAbove, OnlyOperands
<1>9. PlainAbove(stk, t) /\ (t # 0 => ~ IsCatch(stk, t))
  <2>1. t # 0 => ~ IsCatch(stk, t)
    BY <1>1, <1>3, <1>7, LastWord
  <2>2. t <= t /\ \A p \in t + 1 .. t : ~ IsReturn(stk, p) /\ ~ IsCatch(stk, p)
    BY <1>7
  <2> QED
    BY <2>1, <2>2, <1>1, <1>7 DEF PlainAbove
<1>10. Alike(cs, cs)
  BY <1>7, AlikeSelf
<1>11. InOrder(stk2, r, cs) /\ ControlOf(stk2, r.pc, cs) = c
  BY <1>1, <1>3, <1>6, <1>7, <1>8, <1>9, <1>10, Swap
<1>12. Ordered' /\ Control' \in AfterCall(c)
  BY <1>5, <1>11, SubCallControl
<1> QED
  BY <1>1, <1>3, <1>12, AfterCallMoves

LEMMA Appended ==
    ASSUME NEW S, NEW d \in Seq(S), NEW x, NEW c, c = Append(d, x)
    PROVE  /\ Len(c) = Len(d) + 1 /\ c[Len(c)] = x /\ Structured!Front(c) = d /\ Front(c) = d
           /\ Len(d) \in Nat
<1>1. PICK T : T = S \cup {x}
  OBVIOUS
<1>2. d \in Seq(T) /\ x \in T
  BY <1>1, SeqMonotonic
<1>3. Len(d) \in Nat /\ c \in Seq(T) /\ Len(c) = Len(d) + 1 /\ c[Len(d) + 1] = x /\ \A i \in 1 .. Len(d) : c[i] = d[i]
  BY <1>2, AppendProperties, LenProperties
<1>4. c # << >> /\ Len(c) - 1 = Len(d)
  BY <1>3, EmptySeq
<1>5. PICK e, l : e = Front(c) /\ l = Len(d)
  OBVIOUS
<1>6. e \in Seq(T) /\ Len(e) = l /\ \A i \in 1 .. l : e[i] = c[i]
  <2>1. Front(c) \in Seq(T) /\ Len(Front(c)) = Len(c) - 1 /\ \A i \in 1 .. Len(c) - 1 : Front(c)[i] = c[i]
    BY <1>3, <1>4, FrontShape
  <2> QED
    BY <2>1, <1>4, <1>5
<1>7. e = d
  BY <1>2, <1>3, <1>5, <1>6, SeqEqual
<1>8. Structured!Front(c) = Front(c)
  BY DEF Structured!Front, Front
<1> QED
  BY <1>3, <1>5, <1>7, <1>8

LEMMA ControlSeq ==
    ASSUME NEW stk, Len(stk) \in Nat, NEW pc, NEW cs
    PROVE  ControlOf(stk, pc, cs) \in Seq(AllMarked(stk, pc))
<1>1. PICK c, t : c = ControlOf(stk, pc, cs) /\ t = Len(stk)
  OBVIOUS
<1>2. PICK s : Reads(c, s, stk, pc, cs, t)
  BY <1>1, ControlReads
<1> QED
  BY <1>1, <1>2 DEF Reads

LEMMA StartTryMoves ==
    ASSUME IInv, Ordered, NEW h \in Handlers, StartTry(h)
    PROVE  Moves
<1> HIDE DEF Word, Registers, Activations
<1>1. PICK stk, r, cs, s, t, c : /\ stk = stack /\ r = reg /\ cs = calls /\ s = cs[Len(cs)].sp /\ t = Len(stk)
                                 /\ c = Control
  OBVIOUS
<1>2. mode = "js"
  BY DEF StartTry
<1>3. /\ Inside(stk, r, cs) /\ InOrder(stk, r, cs) /\ JSState(stk, s, r, t)
      /\ c = ControlOf(stk, r.pc, cs) /\ c[Len(c)].kind \in {"js", "try"}
  BY <1>1, <1>2, InCode
<1>4. PICK n : n = Len(cs)
  OBVIOUS
<1>5. /\ stk \in Seq(Word) /\ r \in Registers /\ cs # << >>
      /\ t \in Nat /\ n \in Nat /\ n # 0 /\ DOMAIN cs = 1 .. n
      /\ s \in Nat /\ s <= t /\ \A k \in 1 .. n : cs[k].sp \in 0 .. s
  BY <1>1, <1>3, <1>4, InsideShape
<1>6. PICK o, stk2, r2, m : /\ o = (IF r.catch = 0 THEN 0 ELSE r.catch - (t + 1)) /\ Trying(stk2, stk, o, h)
                            /\ r2 = [r EXCEPT !.catch = m] /\ m = t + 1
  BY DEF Trying
<1>7. Running("js", stk2, r2, cs)
  BY <1>1, <1>6 DEF StartTry, Trying
<1>8. r2.fb = r.fb /\ r2.pc = r.pc
  BY <1>5, <1>6 DEF Registers
<1>9. o \in Int
  BY <1>5, <1>6 DEF Registers
<1>10. /\ Len(stk2) = t + 2 /\ (\A p \in 1 .. t : stk2[p] = stk[p])
       /\ stk2[t + 1] = <<"catch", o>> /\ stk2[t + 2] = <<"handler", h>>
  <2>1. stk \in Seq(Word) /\ t = Len(stk) /\ o \in Int /\ Trying(stk2, stk, o, h)
    BY <1>1, <1>5, <1>6, <1>9
  <2> QED
    BY <2>1, TryPushed
<1>11. /\ IsCatch(stk2, m) /\ m \in t + 1 .. Len(stk2) /\ stk2[m + 1][2] = h /\ m + 1 <= Len(stk2)
       /\ stk2[m + 1][1] = "handler"
       /\ \A p \in t + 1 .. Len(stk2) : ~ IsReturn(stk2, p) /\ (p # m => ~ IsCatch(stk2, p))
  <2>1. m + 1 = t + 2 /\ m \in t + 1 .. Len(stk2) /\ m + 1 <= Len(stk2)
    BY <1>5, <1>6, <1>10
  <2>2. \A p \in t + 1 .. Len(stk2) : p = t + 1 \/ p = t + 2
    BY <1>5, <1>10
  <2>3. IsCatch(stk2, m) /\ ~ IsReturn(stk2, m) /\ ~ IsCatch(stk2, t + 2) /\ ~ IsReturn(stk2, t + 2)
    BY <1>6, <1>10 DEF IsCatch, IsReturn
  <2>4. stk2[m + 1][2] = h /\ stk2[m + 1][1] = "handler"
    BY <2>1, <1>10
  <2> QED
    BY <2>1, <2>2, <2>3, <2>4, <1>6
<1>12. LastReturn(stk2, r.fb, t)
  <2>1. LastReturn(stk, r.fb, t)
    BY <1>1, <1>3 DEF InOrder
  <2>2. t <= t
    BY <1>5
  <2> QED
    BY <2>1, <2>2, <1>5, <1>10, LastReturnSame
<1>13. r.pc = CodeOf(stk2, r2.pc, t)
  BY <1>8, <1>11, CodeLast
<1>14. Cut(stk, r, cs, stk2, r2, cs, t)
  <2>1. Len(stk2) \in Nat /\ t <= Len(stk2) /\ t <= t /\ n <= n
    BY <1>5, <1>10
  <2>2. \A p \in t + 1 .. Len(stk) : ~ IsReturn(stk, p) /\ ~ IsCatch(stk, p)
    BY <1>1, <1>5
  <2>3. t # 0 => ~ IsCatch(stk2, t)
    <3>1. t # 0 => ~ IsCatch(stk, t)
      BY <1>1, <1>3, <1>5, LastWord
    <3>2. t # 0 => t \in 1 .. t
      BY <1>5
    <3> QED
      BY <3>1, <3>2, <1>10 DEF IsCatch
  <2>4. \A k \in 1 .. n : cs[k].sp \in 0 .. t
    BY <1>5
  <2>5. \A k \in 1 .. n : k <= n
    BY <1>5
  <2>6. \A p \in 1 .. t : stk[p] = stk2[p]
    BY <1>10
  <2> QED
    BY <2>1, <2>2, <2>3, <2>4, <2>5, <2>6, <1>1, <1>4, <1>5, <1>12, <1>13 DEF Cut
<1>15. InOrder(stk2, r2, cs)
  <2>1. LastReturn(stk2, r2.fb, Len(stk2))
    <3>1. /\ r.fb \in 0 .. t /\ (r.fb = 0 \/ IsReturn(stk2, r.fb))
          /\ \A p \in r.fb + 1 .. t : ~ IsReturn(stk2, p)
      BY <1>12 DEF LastReturn
    <3>2. r.fb \in 0 .. Len(stk2) /\ \A p \in r.fb + 1 .. Len(stk2) : p \in r.fb + 1 .. t \/ p \in t + 1 .. Len(stk2)
      BY <3>1, <1>5, <1>10
    <3> QED
      BY <3>1, <3>2, <1>8, <1>11 DEF LastReturn
  <2>2. \A b \in t + 1 .. Len(stk2) : ~ IsReturn(stk2, b)
    BY <1>11
  <2>3. \A p \in t + 1 .. Len(stk2) : IsCatch(stk2, p) => p + 1 <= Len(stk2) /\ stk2[p + 1][1] = "handler"
    BY <1>11
  <2>4. \A k \in Len(cs) + 1 .. Len(cs) :
            LastReturn(stk2, cs[k].entry.fb, cs[k].sp) /\ cs[k].entry.pc = CodeOf(stk2, r2.pc, cs[k].sp)
    BY <1>4, <1>5
  <2> QED
    BY <2>1, <2>2, <2>3, <2>4, <1>1, <1>3, <1>14, GrowOrder
<1>16. ControlOf(stk2, r2.pc, cs) = Append(c, Item("try", h))
  <2>1. \A k \in DOMAIN cs : cs[k].sp <= t
    BY <1>5
  <2>2. IsReturn(stk2, m) \/ IsCatch(stk2, m)
    BY <1>11
  <2>3. \A p \in t + 1 .. Len(stk2) : p # m => ~ IsReturn(stk2, p) /\ ~ IsCatch(stk2, p)
    BY <1>11
  <2>4. PICK y : y = Marked(stk2, r2.pc, m)
    OBVIOUS
  <2>5. ControlOf(stk2, r2.pc, cs) = Append(ControlOf(stk, r.pc, cs), y)
    BY <2>1, <2>2, <2>3, <2>4, <1>11, <1>14, CutPushed
  <2>6. y = Item("try", h)
    <3>1. m # 0
      BY <1>5, <1>6
    <3> QED
      BY <3>1, <2>4, <1>11, MarkedKinds
  <2> QED
    BY <2>5, <2>6, <1>3
<1>17. Ordered' /\ Control' = Append(c, Item("try", h))
  BY <1>7, <1>15, <1>16, NowJS
<1> QED
  BY <1>1, <1>3, <1>17, FromCode DEF Moves

LEMMA EndTryMoves ==
    ASSUME IInv, Ordered, EndTry
    PROVE  Moves
<1> HIDE DEF Word, Registers, Activations
<1>1. PICK stk, r, cs, s, t, c, x : /\ stk = stack /\ r = reg /\ cs = calls /\ s = cs[Len(cs)].sp /\ t = Len(stk)
                                    /\ x = Control /\ c = r.catch
  OBVIOUS
<1>2. mode = "js"
  BY DEF EndTry
<1>3. /\ Inside(stk, r, cs) /\ InOrder(stk, r, cs) /\ JSState(stk, s, r, t)
      /\ x = ControlOf(stk, r.pc, cs)
  BY <1>1, <1>2, InCode
<1>4. PICK n : n = Len(cs)
  OBVIOUS
<1>5. /\ stk \in Seq(Word) /\ r \in Registers /\ cs # << >>
      /\ t \in Nat /\ n \in Nat /\ n # 0 /\ DOMAIN cs = 1 .. n
      /\ s \in Nat /\ s <= t /\ \A k \in 1 .. n : cs[k].sp \in 0 .. s
  BY <1>1, <1>3, <1>4, InsideShape
<1>6. r.fb \in Nat /\ c \in Nat
  BY <1>1, <1>5 DEF Registers
<1>7. r.fb < c
  BY <1>1, <1>6 DEF EndTry, TryIsOpen
<1>8. Chained(stk, s, c, t) /\ c # 0
  BY <1>1, <1>3, <1>6, <1>7 DEF JSState
<1>9. c \in s + 1 .. t - 1 /\ IsCatch(stk, c)
  <2>1. t <= Len(stk)
    BY <1>1, <1>5
  <2> QED
    BY <2>1, <1>5, <1>6, <1>8, ChainBelow
<1>10. PICK m, stk2, r2 : /\ m = c - 1 /\ stk2 = SubSeq(stk, 1, m)
                          /\ r2 = [r EXCEPT !.catch = OuterCatch(stk, c)]
  OBVIOUS
<1>11. Running("js", stk2, r2, cs)
  BY <1>1, <1>10 DEF EndTry
<1>12. r2.fb = r.fb /\ r2.pc = r.pc
  BY <1>5, <1>10 DEF Registers
<1>13. m \in Nat /\ s <= m /\ m < t /\ m <= t /\ c = m + 1 /\ c \in m + 1 .. t /\ r.fb <= m
  BY <1>5, <1>6, <1>7, <1>9, <1>10
<1>14. Len(stk2) = m /\ \A p \in 1 .. m : stk2[p] = stk[p]
  <2>1. m \in 0 .. Len(stk)
    BY <1>1, <1>5, <1>13
  <2> QED
    BY <2>1, <1>5, <1>10, CutShape
<1>15. /\ r.fb \in 0 .. t /\ (r.fb = 0 \/ IsReturn(stk, r.fb))
       /\ \A p \in r.fb + 1 .. t : ~ IsReturn(stk, p)
  BY <1>1, <1>3 DEF InOrder, LastReturn
<1>16. \A p \in m + 1 .. t : ~ IsReturn(stk, p)
  <2>1. \A p \in m + 1 .. t : p \in r.fb + 1 .. t
    BY <1>6, <1>13
  <2> QED
    BY <2>1, <1>15
<1>17. LastReturn(stk, r2.fb, m)
  <2>1. r.fb \in 0 .. m /\ \A p \in r.fb + 1 .. m : p \in r.fb + 1 .. t
    BY <1>6, <1>13, <1>5
  <2> QED
    BY <2>1, <1>12, <1>15 DEF LastReturn
<1>18. r2.pc = CodeOf(stk, r.pc, m)
  BY <1>1, <1>12, <1>16, CodeLast
<1>19. m # 0 => ~ IsCatch(stk, m)
  <2>1. SUFFICES ASSUME m # 0, IsCatch(stk, m) PROVE FALSE
    OBVIOUS
  <2>2. m \in 1 .. Len(stk)
    BY <2>1, <1>1, <1>5, <1>13
  <2>3. stk[m + 1][1] = "handler"
    BY <2>1, <2>2, <1>3 DEF InOrder
  <2> QED
    BY <2>3, <1>9, <1>13 DEF IsCatch
<1>20. Cut(stk2, r2, cs, stk, r, cs, m)
  <2>1. Len(stk2) \in Nat /\ m <= m /\ n <= n
    BY <1>5, <1>13, <1>14
  <2>2. \A p \in m + 1 .. Len(stk2) : ~ IsReturn(stk2, p) /\ ~ IsCatch(stk2, p)
    BY <1>13, <1>14
  <2>3. \A k \in 1 .. n : cs[k].sp \in 0 .. m
    BY <1>5, <1>13
  <2>4. \A k \in 1 .. n : k <= n
    BY <1>5
  <2> QED
    BY <2>1, <2>2, <2>3, <2>4, <1>1, <1>4, <1>5, <1>13, <1>14, <1>17, <1>18, <1>19 DEF Cut
<1>21. InOrder(stk2, r2, cs)
  BY <1>3, <1>20, CutOrder
<1>22. PICK d, y : d = ControlOf(stk2, r2.pc, cs) /\ y = Marked(stk, r.pc, c)
  OBVIOUS
<1>23. x = Append(d, y)
  <2>1. \A k \in DOMAIN cs : cs[k].sp <= m
    BY <1>5, <1>13
  <2>2. IsReturn(stk, c) \/ IsCatch(stk, c)
    BY <1>9
  <2>3. \A p \in m + 1 .. Len(stk) : p # c => ~ IsReturn(stk, p) /\ ~ IsCatch(stk, p)
    <3>1. ASSUME NEW p \in m + 1 .. t, p # c PROVE ~ IsCatch(stk, p)
      <4>1. p \in s + 1 .. t /\ ~ (p <= c)
        BY <3>1, <1>5, <1>13
      <4> QED
        BY <4>1, <1>8 DEF Chained
    <3> QED
      BY <3>1, <1>1, <1>16
  <2>4. c \in m + 1 .. Len(stk)
    BY <1>1, <1>13
  <2> QED
    BY <2>1, <2>2, <2>3, <2>4, <1>3, <1>20, <1>22, CutPushed
<1>24. Len(stk2) \in Nat
  BY <1>13, <1>14
<1>25. x[Len(x)] = y /\ Structured!Front(x) = d
  <2>1. PICK pc, S : pc = r2.pc /\ S = AllMarked(stk2, pc)
    OBVIOUS
  <2>2. d \in Seq(S)
    BY <2>1, <1>22, <1>24, ControlSeq
  <2> QED
    BY <2>2, <1>23, Appended
<1>26. y.kind = "try"
  BY <1>8, <1>9, <1>22, MarkedKinds
<1>27. Structured!FromTry(x) \subseteq Structured!Successors(x)
  BY <1>25, <1>26, SuccessorShape
<1>28. d \in Structured!FromTry(x)
  BY <1>25 DEF Structured!FromTry
<1>29. Ordered' /\ Control' = d
  BY <1>11, <1>21, <1>22, NowJS
<1> QED
  BY <1>1, <1>27, <1>28, <1>29 DEF Moves

LEMMA ReturnMoves ==
    ASSUME IInv, Ordered, Return
    PROVE  Moves
<1> HIDE DEF Word, Registers, Activations
<1>1. PICK stk, r, cs, s, f, stk2, r2 : Returning(stk, r, cs, s, f, stk2, r2)
  BY DEF Returning
<1>2. PICK t, x, b : t = Len(stk) /\ x = Control /\ b = r.fb
  OBVIOUS
<1>3. stk = stack /\ r = reg /\ cs = calls /\ s = cs[Len(cs)].sp /\ f = r.flags
  BY <1>1 DEF Returning
<1>4. mode = "js"
  BY DEF Return
<1>5. /\ Inside(stk, r, cs) /\ InOrder(stk, r, cs) /\ JSState(stk, s, r, t)
      /\ x = ControlOf(stk, r.pc, cs)
  BY <1>2, <1>3, <1>4, InCode
<1>6. /\ Inside(stk2, r2, cs) /\ f \in AllFlags /\ Ready(stk2, s, r2, f, Len(stk2)) /\ SubPopArgs(stk2, r2, cs, f)
      /\ r2.fb = CallerBase(stk, r.fb) /\ r2.pc = stk[r.fb][2]
      /\ Len(stk2) = r.fb - BoundaryWords /\ \A p \in 1 .. Len(stk2) : stk2[p] = stk[p]
  BY <1>1, ReturnIsReady
<1>7. PICK n, u : n = Len(cs) /\ u = Len(stk2)
  OBVIOUS
<1>8. /\ stk \in Seq(Word) /\ r \in Registers /\ cs # << >>
      /\ t \in Nat /\ n \in Nat /\ n # 0 /\ DOMAIN cs = 1 .. n
      /\ s \in Nat /\ s <= t /\ \A k \in 1 .. n : cs[k].sp \in 0 .. s
  BY <1>2, <1>3, <1>5, <1>7, InsideShape
<1>9. b \in Nat /\ r.catch \in Nat /\ b <= t /\ Boundaried(stk, s, b) /\ Chained(stk, s, r.catch, t)
  BY <1>2, <1>5, <1>8 DEF JSState, Frame, Registers
<1>10. PICK d : d = CallerBase(stk, b)
  OBVIOUS
<1>11. d \in Nat /\ d <= b - 4 /\ b \in 1 .. t
  <2>1. b \in Int /\ b <= Len(stk)
    BY <1>2, <1>9
  <2> QED
    BY <2>1, <1>2, <1>8, <1>9, <1>10, BoundaryShape
<1>12. u = b - 4 /\ u \in Nat /\ s <= u /\ u < b /\ u <= t /\ b - 3 = u + 1 /\ b \in u + 1 .. t /\ d <= u
  <2>1. u = b - 4 /\ b >= s + 4
    BY <1>2, <1>6, <1>7, <1>9 DEF Boundaried, BoundaryWords
  <2> QED
    BY <2>1, <1>8, <1>9, <1>11
<1>13. /\ IsReturn(stk, b) /\ stk[b - 1][1] = "flags" /\ stk[b - 2][1] = "closure" /\ stk[b - 3][1] = "size"
  BY <1>9 DEF Boundaried
<1>14. LastReturn(stk, d, b - 1) /\ \A p \in b + 1 .. t : ~ IsReturn(stk, p)
  <2>1. LastReturn(stk, b, t)
    BY <1>2, <1>5 DEF InOrder
  <2>2. b \in 1 .. Len(stk)
    BY <1>2, <1>11
  <2>3. LastReturn(stk, d, b - 1)
    BY <2>2, <1>5, <1>10, <1>13 DEF InOrder
  <2> QED
    BY <2>1, <2>3 DEF LastReturn
<1>15. /\ (d = 0 \/ IsReturn(stk, d)) /\ \A p \in d + 1 .. b - 1 : ~ IsReturn(stk, p)
  BY <1>14 DEF LastReturn
<1>16. LastReturn(stk, r2.fb, u)
  <2>1. d \in 0 .. u /\ \A p \in d + 1 .. u : p \in d + 1 .. b - 1
    BY <1>9, <1>11, <1>12
  <2> QED
    BY <2>1, <1>2, <1>6, <1>10, <1>15 DEF LastReturn
<1>17. r2.pc = CodeOf(stk, r.pc, u)
  <2>1. \A q \in u + 1 .. b - 1 : ~ IsReturn(stk, q)
    <3>1. \A q \in u + 1 .. b - 1 : q \in d + 1 .. b - 1
      BY <1>9, <1>11, <1>12
    <3> QED
      BY <3>1, <1>15
  <2>2. CodeOf(stk, r.pc, u) = stk[b][2]
    <3>1. b \in u + 1 .. Len(stk) /\ Len(stk) \in Nat
      BY <1>2, <1>8, <1>12
    <3> QED
      BY <3>1, <2>1, <1>12, <1>13, CodeNext, SMTT(20)
  <2> QED
    BY <2>2, <1>2, <1>6
<1>18. u # 0 => ~ IsCatch(stk, u)
  <2>1. SUFFICES ASSUME u # 0, IsCatch(stk, u) PROVE FALSE
    OBVIOUS
  <2>2. u \in 1 .. Len(stk)
    BY <2>1, <1>2, <1>12
  <2>3. stk[u + 1][1] = "handler"
    BY <2>1, <2>2, <1>5 DEF InOrder
  <2> QED
    BY <2>3, <1>12, <1>13
<1>19. Cut(stk2, r2, cs, stk, r, cs, u)
  <2>1. Len(stk2) \in Nat /\ u <= Len(stk2) /\ n <= n
    BY <1>7, <1>8, <1>12
  <2>2. \A p \in u + 1 .. Len(stk2) : ~ IsReturn(stk2, p) /\ ~ IsCatch(stk2, p)
    BY <1>7, <1>12
  <2>3. \A k \in 1 .. n : cs[k].sp \in 0 .. u
    BY <1>8, <1>12
  <2>4. \A k \in 1 .. n : k <= n
    BY <1>8
  <2>5. \A p \in 1 .. u : stk2[p] = stk[p]
    BY <1>6, <1>7
  <2> QED
    BY <2>1, <2>2, <2>3, <2>4, <2>5, <1>2, <1>7, <1>8, <1>12, <1>16, <1>17, <1>18 DEF Cut
<1>20. InOrder(stk2, r2, cs)
  BY <1>5, <1>19, CutOrder
<1>21. PICK c, y : c = ControlOf(stk2, r2.pc, cs) /\ y = Marked(stk, r.pc, b)
  OBVIOUS
<1>22. x = Append(c, y)
  <2>1. \A k \in DOMAIN cs : cs[k].sp <= u
    BY <1>8, <1>12
  <2>2. IsReturn(stk, b) \/ IsCatch(stk, b)
    BY <1>13
  <2>3. \A p \in u + 1 .. Len(stk) : p # b => ~ IsReturn(stk, p) /\ ~ IsCatch(stk, p)
    <3>1. ASSUME NEW p \in u + 1 .. t, p # b PROVE ~ IsReturn(stk, p) /\ ~ IsCatch(stk, p)
      <4>1. CASE p < b
        <5>1. p \in d + 1 .. b - 1 /\ (p = b - 1 \/ p = b - 2 \/ p = b - 3)
          BY <3>1, <4>1, <1>9, <1>11, <1>12
        <5> QED
          BY <5>1, <1>13, <1>15 DEF IsCatch
      <4>2. CASE b < p
        <5>1. p \in b + 1 .. t /\ p \in s + 1 .. t
          BY <3>1, <4>2, <1>8, <1>9, <1>12
        <5>2. ~ (p <= r.catch)
          <6>1. r.catch <= b
            BY <1>2, <1>3, <1>9 DEF Return, TryIsOpen
          <6> QED
            BY <6>1, <5>1, <1>9
        <5> QED
          BY <5>1, <5>2, <1>9, <1>14 DEF Chained
      <4> QED
        BY <3>1, <4>1, <4>2, <1>9, <1>12
    <3> QED
      BY <3>1, <1>2
  <2>4. b \in u + 1 .. Len(stk)
    BY <1>2, <1>12
  <2> QED
    BY <2>1, <2>2, <2>3, <2>4, <1>5, <1>19, <1>21, CutPushed
<1>23. x[Len(x)] = y /\ Structured!Front(x) = c
  <2>1. PICK pc, S : pc = r2.pc /\ S = AllMarked(stk2, pc)
    OBVIOUS
  <2>2. Len(stk2) \in Nat
    BY <1>7, <1>12
  <2>3. c \in Seq(S)
    BY <2>1, <2>2, <1>21, ControlSeq
  <2> QED
    BY <2>3, <1>22, Appended
<1>24. y.kind = "js"
  <2>1. b # 0
    BY <1>12
  <2> QED
    BY <2>1, <1>13, <1>21, MarkedKinds
<1>25. Structured!FromJS(x) \subseteq Structured!Successors(x)
  BY <1>23, <1>24, SuccessorShape
<1>26. Structured!Left(c) \subseteq Structured!FromJS(x)
  BY <1>23 DEF Structured!FromJS
<1>27. Ordered' /\ Control' \in Structured!Left(c)
  BY <1>3, <1>6, <1>20, <1>21, PopArgsControl
<1> QED
  BY <1>2, <1>25, <1>26, <1>27 DEF Moves

-----------------------------------------------------------------------------
(* The steps of the host.                                                  *)

(* A host function that the engine called comes back.                      *)
LEMMA BackControl ==
    ASSUME IInv, Ordered, HostIsDone, NEW stk, NEW r, NEW cs, NEW s, NEW f, NEW x,
           stk = stack, r = BackFromHost, cs = Resumed, s = TopCall.sp, f = TopCall.host.flags, x = Control
    PROVE  /\ Inside(stk, r, cs) /\ InOrder(stk, r, cs) /\ s = cs[Len(cs)].sp /\ s \in Nat /\ s < Len(stk)
           /\ f \in AllFlags /\ Ready(stk, s, r, f, Len(stk) - 1) /\ ~ IsReturn(stk, Len(stk))
           /\ Structured!Front(x) = ControlOf(stk, r.pc, cs)
           /\ Structured!FromHost(x) \subseteq Structured!Successors(x)
<1> HIDE DEF Word, Registers, Activations
<1>1. calls # << >> /\ mode # "js" /\ mode = "host"
  BY DEF HostIsDone, InHostFunction
<1>2. /\ Inside(stk, r, cs) /\ s \in Nat /\ s < Len(stk) /\ Len(cs) = Len(calls) /\ cs[Len(cs)].sp = s
      /\ f \in AllFlags /\ Ready(stk, s, r, f, Len(stk) - 1)
  BY BackInside
<1>3. PICK r0, cs0, a : r0 = reg /\ cs0 = calls /\ a = TopCall
  OBVIOUS
<1>4. /\ Inside(stk, r0, cs0) /\ InOrder(stk, r0, cs0) /\ a = cs0[Len(cs0)] /\ HostState(stk, a, r0, Len(stk))
  BY <1>1, <1>3, InsideNow DEF Ordered
<1>5. cs0 \in Seq(Activations) /\ r0 \in Registers /\ a \in Activations /\ cs0 # << >>
  BY <1>3, <1>4, TopShape DEF Inside
<1>6. PICK b : b = [a EXCEPT !.host = NotInHost]
  OBVIOUS
<1>7. b \in Activations /\ b.sp = a.sp /\ b.entry = a.entry
  BY <1>5, <1>6, InHostShape
<1>8. cs = SetTop(cs0, b)
  BY <1>3, <1>6 DEF Resumed
<1>9. Alike(cs, cs0)
  BY <1>4, <1>5, <1>7, <1>8, AlikeTop
<1>10. r.fb = r0.fb /\ r.pc = r0.pc
  BY <1>3, <1>5 DEF BackFromHost, Registers
<1>11. InOrder(stk, r, cs) /\ ControlOf(stk, r.pc, cs) = ControlOf(stk, r0.pc, cs0)
  BY <1>4, <1>9, <1>10, Unchanged
<1>12. ~ IsReturn(stk, Len(stk))
  BY <1>4 DEF HostState
<1>13. PICK c : c = ControlOf(stk, r0.pc, cs0)
  OBVIOUS
<1>14. x = Append(c, Host)
  BY <1>1, <1>3, <1>13 DEF Control
<1>15. Len(stk) \in Nat
  BY <1>2, LenProperties DEF Inside
<1>16. Len(x) = Len(c) + 1 /\ x[Len(x)] = Host /\ Structured!Front(x) = c /\ Len(c) \in Nat
  <2>1. PICK pc, S : pc = r0.pc /\ S = AllMarked(stk, pc)
    OBVIOUS
  <2>2. c \in Seq(S)
    BY <2>1, <1>13, <1>15, ControlSeq
  <2> QED
    BY <2>2, <1>14, Appended
<1>17. Len(c) # 0
  <2>1. PICK pc, t : pc = r0.pc /\ t = Len(stk)
    OBVIOUS
  <2>2. PICK y : Reads(c, y, stk, pc, cs0, t)
    BY <2>1, <1>13, <1>15, ControlReads
  <2>3. \A p \in Marks(stk, cs0, t) : \E i \in 1 .. Len(c) : y[i] = p
    BY <2>2, ControlShape
  <2>4. 0 \in Marks(stk, cs0, t)
    BY <2>1, <1>5, <1>15 DEF Marks, IsMark
  <2> QED
    BY <2>3, <2>4, <1>16
<1>18. x[Len(x)].kind = "host" /\ Len(x) > 1
  <2>1. Host.kind = "host"
    BY DEF Host, Item
  <2> QED
    BY <2>1, <1>16, <1>17
<1>19. Structured!FromHost(x) \subseteq Structured!Successors(x)
  BY <1>18, SuccessorShape
<1> QED
  BY <1>2, <1>11, <1>12, <1>13, <1>16, <1>19

LEMMA HostFailsMoves ==
    ASSUME IInv, Ordered, HostFails
    PROVE  Moves
<1>1. PICK stk, r, cs, s, f, x, e : /\ stk = stack /\ r = BackFromHost /\ cs = Resumed /\ s = TopCall.sp
                                    /\ f = TopCall.host.flags /\ x = Control /\ e = "error"
  OBVIOUS
<1>2. HostIsDone /\ SubExit(stk, r, cs, e)
  BY <1>1 DEF HostFails
<1>3. /\ Inside(stk, r, cs) /\ InOrder(stk, r, cs) /\ Structured!Front(x) = ControlOf(stk, r.pc, cs)
      /\ Structured!FromHost(x) \subseteq Structured!Successors(x)
  BY <1>1, <1>2, BackControl
<1>4. Ordered' /\ Control' = Structured!Failed(Structured!Front(x))
  BY <1>2, <1>3, ExitControl
<1>5. Structured!Failed(Structured!Front(x)) \in Structured!FromHost(x)
  BY DEF Structured!FromHost
<1> QED
  BY <1>1, <1>3, <1>4, <1>5 DEF Moves

LEMMA HostThrowsMoves ==
    ASSUME IInv, Ordered, HostThrows
    PROVE  Moves
<1>1. PICK stk, r, cs, s, f, x : /\ stk = stack /\ r = BackFromHost /\ cs = Resumed /\ s = TopCall.sp
                                 /\ f = TopCall.host.flags /\ x = Control
  OBVIOUS
<1>2. HostIsDone /\ SubThrow(stk, r, cs)
  BY <1>1 DEF HostThrows
<1>3. /\ Inside(stk, r, cs) /\ InOrder(stk, r, cs) /\ s = cs[Len(cs)].sp /\ s \in Nat /\ s < Len(stk)
      /\ f \in AllFlags /\ Ready(stk, s, r, f, Len(stk) - 1)
      /\ Structured!Front(x) = ControlOf(stk, r.pc, cs)
      /\ Structured!FromHost(x) \subseteq Structured!Successors(x)
  BY <1>1, <1>2, BackControl
<1>4. PICK m, w : m = Len(stk) /\ w = m - 1 - Operands(f)
  OBVIOUS
<1>5. m \in Nat /\ w \in Int /\ w < m
  <2>1. m \in Nat
    <3> HIDE DEF Word
    <3> QED
      BY <1>3, <1>4, LenProperties DEF Inside
  <2>2. Operands(f) \in Nat
    BY <1>3, FlagsShape
  <2> QED
    BY <2>1, <2>2, <1>4
<1>6. ~ IsCatch(stk, m)
  BY <1>3, <1>4, <1>5, LastWord
<1>7. \A p \in w + 1 .. m : ~ IsCatch(stk, p)
  <2>1. OnlyOperands(stk, w, m - 1)
    BY <1>3, <1>4 DEF Ready
  <2>2. \A p \in w + 1 .. m : p = m \/ p \in w + 1 .. m - 1
    BY <1>5
  <2> QED
    BY <2>1, <2>2, <1>6 DEF OnlyOperands
<1>8. Throws(stk, s, r)
  <2>1. CASE f.fromHost
    <3>1. w = s /\ r.catch = 0
      BY <2>1, <1>3, <1>4 DEF Ready
    <3> QED
      BY <3>1, <1>4, <1>7 DEF Throws
  <2>2. CASE ~ f.fromHost
    <3>1. JSState(stk, s, r, w)
      BY <2>2, <1>3, <1>4 DEF Ready
    <3>2. w \in Nat /\ w <= m
      <4>1. r \in Registers
        BY <1>3 DEF Inside
      <4>2. r.fb \in Nat
        BY <4>1 DEF Registers
      <4>3. r.fb <= w
        BY <3>1 DEF JSState
      <4> QED
        BY <4>2, <4>3, <1>5
    <3> QED
      BY <3>1, <3>2, <1>4, <1>7 DEF Throws
  <2> QED
    BY <2>1, <2>2
<1>9. Ordered' /\ Control' = Structured!Thrown(Structured!Front(x))
  BY <1>2, <1>3, <1>8, ThrowControl
<1>10. Structured!Thrown(Structured!Front(x)) \in Structured!FromHost(x)
  BY DEF Structured!FromHost
<1> QED
  BY <1>1, <1>3, <1>9, <1>10 DEF Moves

LEMMA HostReturnsMoves ==
    ASSUME IInv, Ordered, HostReturns
    PROVE  Moves
<1> HIDE DEF Word, Registers, Activations
<1>1. PICK stk, r, cs, s, f, x : /\ stk = stack /\ r = BackFromHost /\ cs = Resumed /\ s = TopCall.sp
                                 /\ f = TopCall.host.flags /\ x = Control
  OBVIOUS
<1>2. HostIsDone
  BY DEF HostReturns
<1>3. /\ Inside(stk, r, cs) /\ InOrder(stk, r, cs) /\ s = cs[Len(cs)].sp /\ s \in Nat /\ s < Len(stk)
      /\ f \in AllFlags /\ Ready(stk, s, r, f, Len(stk) - 1) /\ ~ IsReturn(stk, Len(stk))
      /\ Structured!Front(x) = ControlOf(stk, r.pc, cs)
      /\ Structured!FromHost(x) \subseteq Structured!Successors(x)
  BY <1>1, <1>2, BackControl
<1>4. PICK m, t, stk2 : m = Len(stk) /\ t = m - 1 /\ stk2 = Front(stk)
  OBVIOUS
<1>5. /\ stk \in Seq(Word) /\ r \in Registers /\ cs \in Seq(Activations) /\ m \in Nat
      /\ (s # 0 => ~ IsCatch(stk, s))
  <2>1. PICK n : n = Len(cs)
    OBVIOUS
  <2> QED
    BY <2>1, <1>3, <1>4, InsideShape
<1>6. t \in Nat /\ t <= m /\ s <= t /\ stk # << >> /\ m # 0 /\ t <= t
  <2>1. stk # << >>
    BY <1>3, <1>4, <1>5, EmptySeq
  <2> QED
    BY <2>1, <1>3, <1>4, <1>5
<1>7. stk2 \in Seq(Word) /\ Len(stk2) = t /\ \A p \in 1 .. t : stk2[p] = stk[p]
  BY <1>4, <1>5, <1>6, FrontShape
<1>8. SubPopArgs(stk2, r, cs, f)
  BY <1>1, <1>4 DEF HostReturns
<1>9. Ready(stk, s, r, f, t)
  BY <1>3, <1>4
<1>10. Ready(stk2, s, r, f, t)
  <2>1. \A p \in s + 1 .. t : p \in 1 .. t
    BY <1>3
  <2>2. \A p \in s + 1 .. t : stk2[p] = stk[p]
    BY <2>1, <1>7
  <2>3. t <= Len(stk)
    BY <1>4, <1>6
  <2> QED
    BY <2>2, <2>3, <1>3, <1>5, <1>6, <1>9, ReadySame
<1>11. Inside(stk2, r, cs)
  <2>1. \A p \in 1 .. s : p \in 1 .. t
    BY <1>3, <1>6
  <2>2. \A p \in 1 .. s : stk2[p] = stk[p]
    BY <2>1, <1>7
  <2>3. s <= Len(stk2)
    BY <1>6, <1>7
  <2> QED
    BY <2>2, <2>3, <1>3, <1>5, <1>7, InsideSame
<1>12. t # 0 => ~ IsCatch(stk, t)
  <2>1. PICK w : w = t - Operands(f)
    OBVIOUS
  <2>2. w \in Nat /\ w <= t /\ OnlyOperands(stk, w, t) /\ (w # 0 => ~ IsCatch(stk, w))
    BY <2>1, <1>3, <1>5, <1>6, <1>9, ReadyTop
  <2>3. w # t => t \in w + 1 .. t
    BY <2>2, <1>6
  <2> QED
    BY <2>2, <2>3 DEF OnlyOperands
<1>13. PlainAbove(stk, t)
  <2>1. ~ IsCatch(stk, m) /\ ~ IsReturn(stk, m)
    BY <1>3, <1>4, <1>5, <1>6, LastWord
  <2>2. \A p \in t + 1 .. m : p = m
    BY <1>4, <1>5
  <2> QED
    BY <2>1, <2>2, <1>4, <1>5, <1>6 DEF PlainAbove
<1>14. PlainAbove(stk2, t)
  <2>1. \A p \in t + 1 .. t : ~ IsReturn(stk2, p) /\ ~ IsCatch(stk2, p)
    BY <1>6
  <2> QED
    BY <2>1, <1>6, <1>7 DEF PlainAbove
<1>15. Alike(cs, cs)
  BY <1>5, AlikeSelf
<1>16. InOrder(stk2, r, cs) /\ ControlOf(stk2, r.pc, cs) = ControlOf(stk, r.pc, cs)
  BY <1>3, <1>6, <1>7, <1>12, <1>13, <1>14, <1>15, Swap
<1>17. Ready(stk2, cs[Len(cs)].sp, r, f, Len(stk2))
  BY <1>3, <1>7, <1>10
<1>18. Ordered' /\ Control' \in Structured!Left(ControlOf(stk2, r.pc, cs))
  BY <1>3, <1>8, <1>11, <1>16, <1>17, PopArgsControl
<1>19. Structured!Left(Structured!Front(x)) \subseteq Structured!FromHost(x)
  BY DEF Structured!FromHost
<1> QED
  BY <1>1, <1>3, <1>16, <1>18, <1>19 DEF Moves

(* A step that leaves the stack and the activations alone.                 *)
LEMMA StaysMoves ==
    ASSUME IInv, Ordered, UNCHANGED <<stack, calls, mode>>,
           (reg'.fb = reg.fb /\ reg'.pc = reg.pc) \/ (calls = << >> /\ reg'.fb = 0)
    PROVE  Moves
<1> HIDE DEF Word, Registers, Activations
<1>1. PICK stk, r, cs, r2 : stk = stack /\ r = reg /\ cs = calls /\ r2 = reg'
  OBVIOUS
<1>2. stack' = stk /\ calls' = cs /\ mode' = mode /\ reg' = r2 /\ InOrder(stk, r, cs)
  BY <1>1 DEF Ordered
<1>3. CASE cs # << >>
  <2>1. r2.fb = r.fb /\ r2.pc = r.pc
    BY <1>1, <1>3
  <2>2. Inside(stk, r, cs)
    BY <1>1, <1>3, InsideNow
  <2>3. cs \in Seq(Activations)
    BY <2>2 DEF Inside
  <2>4. Alike(cs, cs)
    BY <2>3, AlikeSelf
  <2>5. InOrder(stk, r2, cs) /\ ControlOf(stk, r2.pc, cs) = ControlOf(stk, r.pc, cs)
    BY <2>1, <2>2, <2>4, <1>2, Unchanged
  <2> QED
    BY <2>5, <1>1, <1>2 DEF Moves, Ordered, Control
<1>4. CASE cs = << >>
  <2>1. stk = << >> /\ reg.fb = 0
    BY <1>1, <1>4 DEF IInv, Consistent
  <2>2. r2.fb = 0
    BY <2>1, <1>1
  <2>3. Len(stk) = 0 /\ DOMAIN cs = {}
    BY <2>1, <1>4
  <2>4. InOrder(stk, r2, cs)
    <3>1. LastReturn(stk, r2.fb, Len(stk))
      BY <2>2, <2>3 DEF LastReturn
    <3>2. 1 .. Len(stk) = {}
      BY <2>3
    <3> QED
      BY <3>1, <3>2, <2>3 DEF InOrder
  <2>5. ControlOf(stk, r2.pc, cs) = << >> /\ ControlOf(stk, r.pc, cs) = << >>
    BY <2>1, <1>4, ControlNone
  <2>6. Control' = Control
    BY <2>5, <1>1, <1>2 DEF Control
  <2> QED
    BY <2>4, <2>6, <1>2 DEF Moves, Ordered
<1> QED
  BY <1>3, <1>4

LEMMA EnqueueJobMoves ==
    ASSUME IInv, Ordered, EnqueueJob
    PROVE  Moves
<1>1. UNCHANGED <<stack, calls, mode>> /\ reg' = [reg EXCEPT !.queue = @ + 1]
  BY DEF EnqueueJob, Running
<1>2. reg \in Registers
  BY DEF IInv, Shapes
<1>3. reg'.fb = reg.fb /\ reg'.pc = reg.pc
  BY <1>1, <1>2 DEF Registers
<1> QED
  BY <1>1, <1>3, StaysMoves

LEMMA HostPassesTooManyMoves ==
    ASSUME IInv, Ordered, NEW ex \in BOOLEAN, NEW n \in HostArgCounts, HostPassesTooMany(ex, n)
    PROVE  Moves
<1> HIDE DEF Word, Registers, Activations
<1>1. PICK r, r2 : r = CurrentRegisters /\ r2 = [WithThis(ex, r) EXCEPT !.catch = 0]
  OBVIOUS
<1>2. reg' = r2 /\ UNCHANGED <<stack, calls, mode>>
  BY <1>1 DEF HostPassesTooMany
<1>3. r \in Registers /\ (calls # << >> => r = reg) /\ (calls = << >> => r.fb = 0)
  <2>1. reg \in Registers /\ (calls = << >> => reg.fb = 0)
    BY DEF IInv, Shapes, Consistent
  <2>2. FreshRegisters \in Registers /\ FreshRegisters.fb = 0
    BY FreshShape DEF FreshRegisters
  <2>3. calls # << >> => allocated
    BY DEF IInv, Allocated
  <2> QED
    BY <1>1, <2>1, <2>2, <2>3 DEF CurrentRegisters
<1>4. r2.fb = r.fb /\ r2.pc = r.pc
  BY <1>1, <1>3, EarlyReturn DEF LeavesCaller
<1>5. (reg'.fb = reg.fb /\ reg'.pc = reg.pc) \/ (calls = << >> /\ reg'.fb = 0)
  BY <1>2, <1>3, <1>4
<1> QED
  BY <1>2, <1>5, StaysMoves

LEMMA HostCallsExWithoutSpaceMoves ==
    ASSUME IInv, Ordered, NEW n \in HostArgCounts, HostCallsExWithoutSpace(n)
    PROVE  Moves
<1>1. CASE allocated
  BY <1>1, StaysMoves DEF HostCallsExWithoutSpace, CurrentRegisters
<1>2. CASE ~ allocated
  <2>1. calls = << >> /\ reg' = FreshRegisters
    BY <1>2 DEF IInv, Allocated, HostCallsExWithoutSpace, CurrentRegisters
  <2>2. reg'.fb = 0
    BY <2>1 DEF FreshRegisters
  <2> QED
    BY <2>1, <2>2, StaysMoves DEF HostCallsExWithoutSpace
<1> QED
  BY <1>1, <1>2

(* A new activation stands for the host that waits for it.                 *)
LEMMA EnteredControl ==
    ASSUME IInv, Ordered, mode = "host", NEW ex \in BOOLEAN, NEW entry, NEW stk, NEW r, NEW cs, NEW s,
           Entering(ex, entry, stk, r, cs, s), NEW x, x = Control
    PROVE  InOrder(stk, r, cs) /\ x = ControlOf(stk, r.pc, cs) /\ Structured!Failed(x) = x
<1> HIDE DEF Word, Registers, Activations
<1>1. /\ Inside(stk, r, cs) /\ s \in Nat /\ s = Len(stk) /\ cs[Len(cs)].sp = s /\ Len(cs) = Len(calls) + 1
  BY Entered
<1>2. PICK cs0, r0, a, n, q : cs0 = calls /\ r0 = CurrentRegisters /\ a = Activation(entry) /\ n = Len(cs0) /\ q = reg
  OBVIOUS
<1>3. /\ entry = WithThis(ex, r0) /\ stk = stack /\ r = SetUp(entry) /\ cs = Append(cs0, a) /\ s = Len(stack)
  BY <1>2 DEF Entering
<1>4. stk \in Seq(Word) /\ cs0 \in Seq(Activations) /\ q \in Registers
  BY <1>2, <1>3 DEF IInv, Shapes
<1>5. n \in Nat /\ DOMAIN cs0 = 1 .. n /\ (cs0 = << >> <=> n = 0)
  BY <1>2, <1>4, LenProperties, EmptySeq
<1>6. r0 \in Registers /\ (cs0 # << >> => r0 = q) /\ (cs0 = << >> => stk = << >> /\ r0.fb = 0)
  <2>1. r0 \in Registers /\ (cs0 # << >> => r0 = q)
    BY <1>2, <1>4, FreshShape DEF CurrentRegisters, IInv, Allocated
  <2>2. cs0 = << >> => stack = << >> /\ reg.fb = 0
    BY <1>2 DEF IInv, Consistent
  <2>3. FreshRegisters.fb = 0
    BY DEF FreshRegisters
  <2> QED
    BY <2>1, <2>2, <2>3, <1>2, <1>3 DEF CurrentRegisters
<1>7. entry \in Registers /\ entry.fb = r0.fb /\ entry.pc = r0.pc /\ r.fb = r0.fb
  BY <1>3, <1>6, EntryShape
<1>8. r.pc = r0.pc
  BY <1>3, <1>7 DEF SetUp, Registers
<1>9. a.sp = s /\ a.entry = entry
  BY <1>2, <1>3 DEF Activation
<1>10. /\ Len(cs) = n + 1 /\ DOMAIN cs = 1 .. n + 1 /\ cs[n + 1] = a
       /\ (\A k \in 1 .. n : cs[k] = cs0[k]) /\ Front(cs) = cs0
  <2>1. PICK T : T = Activations \cup {a}
    OBVIOUS
  <2>2. cs0 \in Seq(T) /\ a \in T
    BY <2>1, <1>4, SeqMonotonic
  <2>3. cs \in Seq(T) /\ Len(cs) = n + 1 /\ cs[n + 1] = a /\ \A k \in 1 .. n : cs[k] = cs0[k]
    BY <2>2, <1>2, <1>3, AppendProperties
  <2>4. DOMAIN cs = 1 .. n + 1
    BY <2>3, <1>5, LenProperties
  <2>5. Front(cs) = cs0
    BY <2>2, <1>3, Appended
  <2> QED
    BY <2>3, <2>4, <2>5
<1>11. InOrder(stk, q, cs0)
  BY <1>2, <1>3 DEF Ordered
<1>12. LastReturn(stk, r0.fb, s)
  <2>1. CASE cs0 = << >>
    <3>1. s = 0 /\ r0.fb = 0
      BY <2>1, <1>1, <1>6
    <3> QED
      BY <3>1 DEF LastReturn
  <2>2. CASE cs0 # << >>
    BY <2>2, <1>1, <1>6, <1>11 DEF InOrder
  <2> QED
    BY <2>1, <2>2
<1>13. entry.pc = CodeOf(stk, r.pc, s)
  <2>1. \A p \in s + 1 .. Len(stk) : ~ IsReturn(stk, p)
    BY <1>1
  <2> QED
    BY <2>1, <1>7, <1>8, CodeLast
<1>14. InOrder(stk, r, cs)
  <2>1. LastReturn(stk, r.fb, Len(stk))
    BY <1>1, <1>7, <1>12
  <2>2. ASSUME NEW k \in DOMAIN cs
        PROVE  LastReturn(stk, cs[k].entry.fb, cs[k].sp) /\ cs[k].entry.pc = CodeOf(stk, r.pc, cs[k].sp)
    <3>1. CASE k = n + 1
      <4>1. cs[k].entry = entry /\ cs[k].sp = s
        BY <3>1, <1>9, <1>10
      <4> QED
        BY <4>1, <1>7, <1>12, <1>13
    <3>2. CASE k # n + 1
      <4>1. k \in 1 .. n
        BY <3>2, <1>5, <1>10
      <4>2. cs[k] = cs0[k] /\ k \in DOMAIN cs0 /\ cs0 # << >>
        BY <4>1, <1>5, <1>10
      <4>3. LastReturn(stk, cs0[k].entry.fb, cs0[k].sp) /\ cs0[k].entry.pc = CodeOf(stk, q.pc, cs0[k].sp)
        BY <4>2, <1>11 DEF InOrder
      <4>4. r.pc = q.pc
        BY <4>2, <1>6, <1>8
      <4> QED
        BY <4>2, <4>3, <4>4
    <3> QED
      BY <3>1, <3>2
  <2> QED
    BY <2>1, <2>2, <1>11 DEF InOrder
<1>15. Outer(stk, entry, cs0, stk, r, cs)
  <2>1. SubSeq(stk, 1, s) \in Seq(Word) /\ Len(SubSeq(stk, 1, s)) = s /\ \A i \in 1 .. s : SubSeq(stk, 1, s)[i] = stk[i]
    <3>1. s \in 0 .. Len(stk)
      BY <1>1
    <3> QED
      BY <3>1, <1>4, CutShape
  <2>2. SubSeq(stk, 1, s) = stk
    BY <2>1, <1>1, <1>4, SeqEqual
  <2>3. cs[Len(cs)] = a
    BY <1>10
  <2> QED
    BY <2>2, <2>3, <1>9, <1>10 DEF Outer
<1>16. NothingAbove(stk, cs, cs[Len(cs)].sp)
  <2>1. \A p \in s + 1 .. Len(stk) : ~ IsReturn(stk, p) /\ ~ IsCatch(stk, p)
    BY <1>1
  <2>2. PICK l : l = Len(cs)
    OBVIOUS
  <2>3. \A k \in 1 .. l : cs[k].sp \in 0 .. s
    BY <2>2, <1>1, InsideShape
  <2>4. \A k \in DOMAIN cs : cs[k].sp <= s
    BY <2>2, <2>3, <1>1, <1>10
  <2> QED
    BY <2>1, <2>4, <1>1 DEF NothingAbove
<1>17. PICK y, z : y = ControlOf(stk, r.pc, cs) /\ z = ControlOf(stk, entry.pc, cs0)
  OBVIOUS
<1>18. y = Append(z, Host)
  BY <1>1, <1>14, <1>15, <1>16, <1>17, OuterControl
<1>19. Structured!Failed(y) = y
  BY <1>1, <1>14, <1>16, <1>17, NothingToUnwind
<1>20. z = ControlOf(stk, q.pc, cs0)
  <2>1. CASE cs0 = << >>
    BY <2>1, <1>6, <1>17, ControlNone
  <2>2. CASE cs0 # << >>
    BY <2>2, <1>6, <1>7, <1>17
  <2> QED
    BY <2>1, <2>2
<1>21. x = Append(z, Host)
  BY <1>2, <1>3, <1>20 DEF Control
<1> QED
  BY <1>14, <1>17, <1>18, <1>19, <1>21

LEMMA HostCallsMoves ==
    ASSUME IInv, Ordered, NEW ex \in BOOLEAN, NEW target \in Targets, NEW n \in HostArgCounts,
           HostCalls(ex, target, n)
    PROVE  Moves
<1> HIDE DEF Word, Registers, Activations
<1>1. PICK entry, stk, r, cs, s, x : Entering(ex, entry, stk, r, cs, s) /\ x = Control
  BY DEF Entering
<1>2. mode = "host"
  BY DEF HostCalls, HostMayPass
<1>3. /\ Inside(stk, r, cs) /\ s \in Nat /\ s = Len(stk) /\ cs[Len(cs)].sp = s /\ r.fb <= s /\ r.catch = 0
  BY <1>1, <1>2, Entered
<1>4. InOrder(stk, r, cs) /\ x = ControlOf(stk, r.pc, cs) /\ Structured!Failed(x) = x
  BY <1>1, <1>2, EnteredControl
<1>5. PICK flags, m : /\ flags = [NoFlags EXCEPT !.argc = n + 1, !.pushed = TRUE, !.fromHost = TRUE]
                      /\ m = n + 2
  OBVIOUS
<1>6. stk \in Seq(Word) /\ r \in Registers /\ cs \in Seq(Activations) /\ n \in Nat
  BY <1>3, CountsAssumption DEF Inside
<1>7. flags \in AllFlags /\ flags.fromHost = TRUE /\ Operands(flags) = m /\ m \in Nat
  <2>1. PICK k : k = n + 1
    OBVIOUS
  <2>2. k \in Nat
    BY <2>1, <1>6
  <2>3. flags = [NoFlags EXCEPT !.argc = k, !.pushed = TRUE, !.fromHost = TRUE]
    BY <2>1, <1>5
  <2>4. flags \in AllFlags /\ flags.fromHost = TRUE /\ flags.argc = k /\ flags.pushed = TRUE
    BY <2>2, <2>3 DEF AllFlags, NoFlags
  <2>5. Operands(flags) = k + 1
    BY <2>4 DEF Operands
  <2> QED
    BY <2>1, <2>4, <2>5, <1>5, <1>6
<1>8. PICK stk2 : stk2 = stk \o Values(m)
  OBVIOUS
<1>9. /\ stk2 \in Seq(Word) /\ Len(stk2) = s + m /\ \A p \in 1 .. s : stk2[p] = stk[p]
      /\ OnlyOperands(stk2, s, s + m)
  BY <1>3, <1>6, <1>7, <1>8, OperandsPushed
<1>10. CASE HasSpace(stk, m)
  <2>1. SubCall(stk2, r, cs, flags, target)
    BY <1>1, <1>5, <1>8, <1>10 DEF HostCalls, Entering
  <2>2. Inside(stk2, r, cs)
    <3>1. s <= Len(stk2)
      BY <1>3, <1>7, <1>9
    <3> QED
      BY <3>1, <1>3, <1>6, <1>9, InsideSame
  <2>3. Ready(stk2, cs[Len(cs)].sp, r, flags, Len(stk2))
    <3>1. (s + m) - Operands(flags) = s
      BY <1>3, <1>7
    <3>2. Ready(stk2, s, r, flags, s + m)
      BY <3>1, <1>3, <1>7, <1>9 DEF Ready
    <3> QED
      BY <3>2, <1>3, <1>9
  <2>4. PlainAbove(stk2, s)
    <3>1. Len(stk2) \in Nat /\ s <= Len(stk2)
      BY <1>3, <1>7, <1>9
    <3> QED
      BY <3>1, <1>9 DEF PlainAbove, OnlyOperands
  <2>5. PlainAbove(stk, s) /\ (s # 0 => ~ IsCatch(stk, s))
    <3>1. s # 0 => ~ IsCatch(stk, s)
      BY <1>3, <1>4, LastWord
    <3>2. s <= s /\ \A p \in s + 1 .. s : ~ IsReturn(stk, p) /\ ~ IsCatch(stk, p)
      BY <1>3
    <3> QED
      BY <3>1, <3>2, <1>3 DEF PlainAbove
  <2>6. Alike(cs, cs) /\ s <= s
    BY <1>3, <1>6, AlikeSelf
  <2>7. InOrder(stk2, r, cs) /\ ControlOf(stk2, r.pc, cs) = x
    BY <2>4, <2>5, <2>6, <1>3, <1>4, <1>9, Swap
  <2>8. Ordered' /\ Control' \in AfterCall(x)
    BY <2>1, <2>2, <2>3, <2>7, <1>7, SubCallControl
  <2> QED
    BY <2>8, <1>1, <1>4, AfterCallMoves
<1>11. CASE ~ HasSpace(stk, m)
  <2>1. PICK e : e = "error"
    OBVIOUS
  <2>2. SubExit(stk, r, cs, e)
    BY <2>1, <1>1, <1>5, <1>11 DEF HostCalls, Entering
  <2>3. Ordered' /\ Control' = x
    BY <2>2, <1>3, <1>4, ExitControl
  <2> QED
    BY <2>3, <1>1 DEF Moves
<1> QED
  BY <1>10, <1>11

LEMMA NextMoves ==
    ASSUME IInv, Ordered, [Next]_vars
    PROVE  Moves
<1>1. ASSUME NEW ex \in BOOLEAN, NEW t \in Targets, NEW n \in HostArgCounts, HostCalls(ex, t, n)
      PROVE  Moves
  BY <1>1, HostCallsMoves
<1>2. ASSUME NEW ex \in BOOLEAN, NEW n \in HostArgCounts, HostPassesTooMany(ex, n) PROVE Moves
  BY <1>2, HostPassesTooManyMoves
<1>3. ASSUME NEW n \in HostArgCounts, HostCallsExWithoutSpace(n) PROVE Moves
  BY <1>3, HostCallsExWithoutSpaceMoves
<1>4. CASE HostReturns
  BY <1>4, HostReturnsMoves
<1>5. CASE HostThrows
  BY <1>5, HostThrowsMoves
<1>6. CASE HostFails
  BY <1>6, HostFailsMoves
<1>7. ASSUME NEW h \in Handlers, StartTry(h) PROVE Moves
  BY <1>7, StartTryMoves
<1>8. CASE EndTry
  BY <1>8, EndTryMoves
<1>9. ASSUME NEW k \in {"normal", "void", "static"}, NEW t \in Targets, NEW n \in ArgCounts,
             JSCalls(k, t, n)
      PROVE  Moves
  BY <1>9, JSCallsMoves
<1>10. CASE Return
  BY <1>10, ReturnMoves
<1>11. CASE Throw
  BY <1>11, ThrowMoves
<1>12. CASE Fail
  BY <1>12, FailMoves
<1>13. CASE EnqueueJob
  BY <1>13, EnqueueJobMoves
<1>14. CASE UNCHANGED vars
  BY <1>14, StaysMoves DEF vars
<1> QED
  BY <1>1, <1>2, <1>3, <1>4, <1>5, <1>6, <1>7, <1>8, <1>9, <1>10, <1>11, <1>12, <1>13, <1>14 DEF Next

(* At first only the host is active.                                       *)
LEMMA InitOrdered ==
    ASSUME Init
    PROVE  Ordered /\ Structured!Init
<1>1. stack = << >> /\ calls = << >> /\ mode = "host" /\ reg.fb = 0
  BY DEF Init, FreshRegisters
<1>2. PICK stk, cs, r : stk = stack /\ cs = calls /\ r = reg
  OBVIOUS
<1>3. stk = << >> /\ cs = << >> /\ Len(stk) = 0 /\ DOMAIN cs = {} /\ 1 .. Len(stk) = {}
  BY <1>1, <1>2
<1>4. InOrder(stk, r, cs)
  <2>1. LastReturn(stk, r.fb, Len(stk))
    BY <1>1, <1>2, <1>3 DEF LastReturn
  <2> QED
    BY <2>1, <1>3 DEF InOrder
<1>5. ControlOf(stk, r.pc, cs) = << >>
  BY <1>3, ControlNone
<1>6. Control = Append(<< >>, Host)
  BY <1>1, <1>2, <1>5 DEF Control
<1>7. Append(<< >>, Host) = <<Host>>
  OBVIOUS
<1>8. Structured!Host = Host
  BY DEF Structured!Host, Structured!Item, Host, Item
<1> QED
  BY <1>2, <1>4, <1>6, <1>7, <1>8 DEF Ordered, Structured!Init

(* The frame base is always the last boundary, every boundary leads to the *)
(* one below it, and what an activation remembers is the frame and the     *)
(* code that were the innermost ones when it began.                        *)
THEOREM FramesAreOrdered == Spec => []Ordered
<1>1. Init => Ordered
  BY InitOrdered
<1>2. IInv /\ Ordered /\ [Next]_vars => Ordered'
  BY NextMoves DEF Moves
<1> QED
  BY <1>1, <1>2, InvariantHolds, PTL DEF Spec

(* The words of the stack implement structured control flow: every return, *)
(* exception, failure and call of the host leaves exactly the functions,   *)
(* try blocks and host functions active that CallSpec allows.              *)
THEOREM StackImplementsCalls == Spec => ImplementsCalls
<1>1. Init => Structured!Init
  BY InitOrdered
<1>2. IInv /\ Ordered /\ [Next]_vars => [Structured!Next]_Control
  BY NextMoves DEF Moves, Structured!Next
<1> QED
  BY <1>1, <1>2, InvariantHolds, FramesAreOrdered, PTL DEF Spec, ImplementsCalls, Structured!Spec
=============================================================================
