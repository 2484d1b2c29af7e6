-------------------------------- MODULE Numbers --------------------------------
(***************************************************************************)
(* The operators on numbers, twice: in the virtual machine that runs a     *)
(* program until its snapshot (virtual-machine.ts), where numbers are      *)
(* those of the host, and in the engine (microvium.c), where a number is a *)
(* virtual integer of 14 bits, an allocated integer of 32 bits, an         *)
(* allocated double or one of two well-known values, and integers are used *)
(* as far as possible.  A program must not notice which one it runs on.    *)
(***************************************************************************)
EXTENDS Doubles, Sequences, FiniteSets, FiniteSetsExt

CONSTANTS
    IntBits,        \* the width of int32_t
    SmallBits,      \* the width of a virtual integer: 14
    OverflowChecks, \* MVM_PORT_INT32_OVERFLOW_CHECKS, and the option of the other machine
    MaxSize,        \* bound: numerators and denominators that go into another operator
    Texts           \* strings, as <<sign, digits>>; no digits for one that is no number

ASSUME NumbersAssumption ==
    /\ SmallBits \in Nat /\ SmallBits > 2 /\ IntBits \in Nat /\ IntBits >= 2 * SmallBits
    /\ OverflowChecks \in BOOLEAN
    /\ MaxSize \in Nat

MinInt == -(2^(IntBits - 1))
MaxInt == 2^(IntBits - 1) - 1
Ints   == MinInt .. MaxInt

VM_MIN_INT14 == -(2^(SmallBits - 1))
VM_MAX_INT14 == 2^(SmallBits - 1) - 1

VARIABLES
    acc,    \* a value of the engine that an operator gave
    last    \* the last operator, its operands, and the result on each machine

vars == <<acc, last>>

None == [op |-> "none"]

-----------------------------------------------------------------------------
(* Integers of IntBits bits.                                               *)

Wrap(n) == ((n - MinInt) % 2^IntBits) + MinInt

Unsigned(n) == n % 2^IntBits

Bit(n, i) == (Unsigned(n) \div 2^i) % 2

\* The integer whose bits are where B holds.
FromBits(B(_)) == Wrap(MapThenSumSet(LAMBDA i : 2^i, {i \in 0 .. IntBits - 1 : B(i)}))

\* The five low bits, for 32 bits, are what a shift looks at.
Distance(n) == n % IntBits

\* Division rounds towards zero.
DivInt(a, b) == Truncated(Over(Whole(a), Whole(b)))

\* An operator on bits for two integers; >>> gives an unsigned result.
BitResult(op, a, b) ==
    CASE op = ">>"  -> a \div 2^Distance(b)
      [] op = ">>>" -> Unsigned(a) \div 2^Distance(b)
      [] op = "<<"  -> Wrap(a * 2^Distance(b))
      [] op = "|"   -> FromBits(LAMBDA i : 1 \in {Bit(a, i), Bit(b, i)})
      [] op = "&"   -> FromBits(LAMBDA i : Bit(a, i) = 1 /\ Bit(b, i) = 1)
      [] op = "^"   -> FromBits(LAMBDA i : Bit(a, i) # Bit(b, i))
      [] op = "~"   -> -a - 1

Shifts      == {">>", ">>>", "<<"}
BitOps      == Shifts \cup {"|", "&", "^"}
Comparisons == {"<", ">", "<=", ">="}
Arithmetic  == {"+", "-", "*", "/", "DIVIDE_AND_TRUNC", "%"}
BinOps      == BitOps \cup Comparisons \cup Arithmetic \cup {"===", "!=="}
UnOps       == {"negate", "plus", "~", "!"}

Compare(op, x, y) ==
    CASE op = "<"  -> Less(x, y)
      [] op = ">"  -> Less(y, x)
      [] op = "<=" -> LessOrSame(x, y)
      [] op = ">=" -> LessOrSame(y, x)

-----------------------------------------------------------------------------
(* The machine that runs until the snapshot.  A value is <<type, value>>.  *)

Number(x)  == <<"NumberValue", x>>
Boolean(b) == <<"BooleanValue", b>>

\* The number that a text stands for.
NumberOf(text) ==
    IF text[2] = <<>> THEN NaN
    ELSE LET n[i \in 0 .. Len(text[2])] == IF i = 0 THEN 0 ELSE 10 * n[i - 1] + text[2][i]
         IN  IF text[1] < 0 THEN Neg(Whole(n[Len(text[2])])) ELSE Whole(n[Len(text[2])])

ConvertToNumber(v) ==
    CASE v[1] = "NumberValue"  -> v[2]
      [] v[1] = "StringValue"  -> NumberOf(v[2])
      [] v[1] = "BooleanValue" -> Whole(IF v[2] THEN 1 ELSE 0)
      [] v[1] = "NullValue"    -> Whole(0)
      [] OTHER                 -> NaN

\* ToInt32 of JavaScript.
HostInt32(x) == IF IsFinite(x) THEN Wrap(Truncated(x)) ELSE 0

IsSInt32(x) == IsFinite(x) /\ Same(x, Whole(HostInt32(x)))

AreValuesEqual(v, w) ==
    v[1] = w[1] /\ IF v[1] = "NumberValue" THEN Same(v[2], w[2]) ELSE v[2] = w[2]

IsTruthy(v) ==
    CASE v[1] = "NumberValue"                     -> v[2] # NaN /\ v[2] \notin Zeros
      [] v[1] = "BooleanValue"                    -> v[2]
      [] v[1] \in {"NullValue", "UndefinedValue"} -> FALSE
      [] OTHER                                    -> TRUE

OperationBinOp(op, v, w) ==
    LET x == ConvertToNumber(v)
        y == ConvertToNumber(w)
        result ==
            CASE op = "+"                -> Plus(x, y)
              [] op = "-"                -> Plus(x, Neg(y))
              [] op = "*"                -> Times(x, y)
              [] op = "/"                -> Over(x, y)
              [] op = "DIVIDE_AND_TRUNC" -> Whole(HostInt32(Over(x, y)))
              [] op = "%"                -> Remainder(x, y)
              [] op \in BitOps           -> Whole(BitResult(op, HostInt32(x), HostInt32(y)))
        narrow == ~OverflowChecks /\ op \notin {"/", "%"} /\ IsSInt32(x) /\ IsSInt32(y)
    IN  CASE op = "==="          -> Boolean(AreValuesEqual(v, w))
          [] op = "!=="          -> Boolean(~AreValuesEqual(v, w))
          [] op \in Comparisons  -> Boolean(Compare(op, x, y))
          [] OTHER               -> Number(IF narrow THEN Whole(HostInt32(result)) ELSE result)

\* Without overflow checks the minus sign is lost: "result = n | 0".
OperationUnOp(op, v) ==
    LET x == ConvertToNumber(v)
    IN  CASE op = "!"      -> Boolean(~IsTruthy(v))
          [] op = "plus"   -> Number(x)
          [] op = "negate" -> Number(IF ~OverflowChecks /\ IsSInt32(x) THEN Whole(HostInt32(x)) ELSE Neg(x))
          [] op = "~"      -> Number(Whole(BitResult("~", HostInt32(x), 0)))

-----------------------------------------------------------------------------
(* The engine.  A value is <<type code, value>>.                           *)

\* What undefined behaviour may give: the instructions of common processors give
\* the smallest integer, or the nearest one.
Undefined == {MinInt, MaxInt, 0}

Flag(b) == <<(IF b THEN "TRUE" ELSE "FALSE"), 0>>

\* Mutant of NewInt32: the limit of a virtual integer is missed by one.
NewInt32OffByOne(n) ==
    <<(IF VM_MIN_INT14 <= n /\ n < VM_MAX_INT14 THEN "INT14" ELSE "INT32"), n>>

NewInt32(n) == <<(IF VM_MIN_INT14 <= n /\ n <= VM_MAX_INT14 THEN "INT14" ELSE "INT32"), n>>

\* A cast to int32_t.
Cast(x, ub) == IF IsFinite(x) /\ Truncated(x) \in Ints THEN Truncated(x) ELSE ub

Float64ToInt32(x, ub) == IF IsFinite(x) THEN Cast(x, ub) ELSE 0

NewNumber(x) ==
    CASE x = NaN     -> <<"NAN", 0>>
      [] x = NegZero -> <<"NEG_ZERO", 0>>
      [] OTHER       -> IF \E n \in Ints : x = Whole(n) THEN NewInt32(x[1]) ELSE <<"FLOAT64", x>>

\* The digits are added up in 32 bits, and an overflow is noticed by the number
\* getting smaller.
StrToInt32(text) ==
    LET add(n, d) == Wrap(10 * n + d)
        read[i \in 0 .. Len(text[2])] ==   \* the number so far, and isFloat
            IF i = 0 THEN <<0, FALSE>>
            ELSE LET before == read[i - 1]
                     n2     == add(before[1], text[2][i])
                 IN  <<n2, before[2] \/ n2 < before[1]>>
        n == read[Len(text[2])]
    IN  IF text[2] = <<>> THEN <<"MVM_E_NAN", 0>>
        ELSE IF n[2] THEN <<"MVM_E_FLOAT64", 0>>
        ELSE <<"MVM_E_SUCCESS", Wrap(text[1] * n[1])>>

ToInt32Internal(v) ==
    CASE v[1] \in {"INT14", "INT32"} -> <<"MVM_E_SUCCESS", v[2]>>
      [] v[1] = "FLOAT64"            -> <<"MVM_E_FLOAT64", 0>>
      [] v[1] = "STRING"             -> StrToInt32(v[2])
      [] v[1] \in {"NULL", "FALSE"}  -> <<"MVM_E_SUCCESS", 0>>
      [] v[1] = "TRUE"               -> <<"MVM_E_SUCCESS", 1>>
      [] v[1] = "NEG_ZERO"           -> <<"MVM_E_NEG_ZERO", 0>>
      [] OTHER                       -> <<"MVM_E_NAN", 0>>

\* A string that is no integer is read as if it were the memory of a double.
ToFloat64(v, ub) ==
    LET n == ToInt32Internal(v)
    IN  CASE n[1] = "MVM_E_SUCCESS"  -> Whole(n[2])
          [] n[1] = "MVM_E_NAN"      -> NaN
          [] n[1] = "MVM_E_NEG_ZERO" -> NegZero
          [] OTHER                   -> IF v[1] = "FLOAT64" THEN v[2] ELSE Whole(ub)

ToInt32(v, ub) ==
    IF ToInt32Internal(v)[1] = "MVM_E_FLOAT64" THEN Cast(ToFloat64(v, ub), ub)
    ELSE ToInt32Internal(v)[2]

\* -0 and 0 are two values here, and NaN is equal to nothing.
MvmEqual(v, w) == v = w /\ v[1] # "NAN"

\* An allocated number is never zero, and yet it counts as false.
ToBool(v) ==
    CASE v[1] = "INT14"                                                     -> v[2] # 0
      [] v[1] \in {"INT32", "FLOAT64", "NAN", "NEG_ZERO", "FALSE", "NULL", "UNDEFINED"} -> FALSE
      [] OTHER                                                              -> TRUE

BitOp(op, v, w, ub) ==
    LET a      == ToInt32(v, ub)
        result == BitResult(op, a, ToInt32(w, ub))
    IN  IF OverflowChecks /\ op = ">>>" THEN NewNumber(Whole(result)) ELSE NewInt32(Wrap(result))

NumOpFloat64(op, v, w, ub) ==
    LET x == ToFloat64(v, ub)
        y == ToFloat64(w, ub)
    IN  CASE op \in Comparisons         -> Flag(Compare(op, x, y))
          [] op = "+"                   -> NewNumber(Plus(x, y))
          [] op = "-"                   -> NewNumber(Plus(x, Neg(y)))
          [] op = "*"                   -> NewNumber(Times(x, y))
          [] op = "/"                   -> NewNumber(Over(x, y))
          [] op = "DIVIDE_AND_TRUNC"    -> NewNumber(Whole(Float64ToInt32(Over(x, y), ub)))
          [] op = "%"                   -> NewNumber(Remainder(x, y))
          [] op = "negate"              -> NewNumber(Neg(y))
          [] op = "plus"                -> NewNumber(y)

\* The sum of two integers overflows if its sign is that of neither.
SumOverflows(a, b) ==
    LET sum == Wrap(a + b) IN (a < 0) # (sum < 0) /\ (b < 0) # (sum < 0)

\* Whether an integer operator has to be done with doubles: builtin says that the
\* compiler has the functions that find overflows.
NeedsFloat(op, v, w, builtin) ==
    LET a == ToInt32Internal(v)[2]
        b == ToInt32Internal(w)[2]
    IN  \/ op = "/"
        \/ /\ OverflowChecks
           /\ \/ op = "+" /\ SumOverflows(a, b)
              \/ op = "-" /\ IF builtin THEN a - b \notin Ints ELSE SumOverflows(a, Wrap(-b))
              \/ op = "*" /\ IF builtin THEN a * b \notin Ints ELSE ~(v[1] = "INT14" /\ w[1] = "INT14")
              \/ op = "negate" /\ b \in {MinInt, 0}

\* An operator on two integers (for a unary one, on the second).
NumOpInt32(op, a, b, ub) ==
    CASE op \in Comparisons -> Flag(Compare(op, Whole(a), Whole(b)))
      [] op = "+"           -> NewInt32(Wrap(a + b))
      [] op = "-"           -> NewInt32(Wrap(a - b))
      [] op = "*"           -> NewInt32(Wrap(a * b))
      [] op = "DIVIDE_AND_TRUNC" ->
             NewInt32(IF b = 0 THEN 0 ELSE IF DivInt(a, b) \in Ints THEN DivInt(a, b) ELSE ub)
      [] op = "%"           ->
             IF b = 0 THEN <<"NAN", 0>>
             ELSE NewInt32(IF a = MinInt /\ b = -1 THEN ub ELSE a - b * DivInt(a, b))
      [] op = "negate"      -> NewInt32(Wrap(-b))
      [] op = "plus"        -> NewInt32(b)

NumOp(op, v, w, ub, builtin) ==
    LET a == ToInt32Internal(v)
        b == ToInt32Internal(w)
    IN  IF a[1] # "MVM_E_SUCCESS" \/ b[1] # "MVM_E_SUCCESS" \/ NeedsFloat(op, v, w, builtin)
        THEN NumOpFloat64(op, v, w, ub)
        ELSE NumOpInt32(op, a[2], b[2], ub)

IsVirtualUInt12(v) == v[1] = "INT14" /\ v[2] \in 0 .. 2^(SmallBits - 2) - 1

\* Small positive integers are added without any check.
Add(v, w, ub, builtin) ==
    IF IsVirtualUInt12(v) /\ IsVirtualUInt12(w) THEN <<"INT14", v[2] + w[2]>>
    ELSE NumOp("+", v, w, ub, builtin)

\* The result of the engine; a unary operator has its operand twice.
Engine(op, v, w, ub, builtin) ==
    CASE op = "==="                 -> Flag(MvmEqual(v, w))
      [] op = "!=="                 -> Flag(~MvmEqual(v, w))
      [] op = "!"                   -> Flag(~ToBool(w))
      [] op \in BitOps \cup {"~"}   -> IF op = "~" THEN NewInt32(BitResult("~", ToInt32(w, ub), 0))
                                       ELSE BitOp(op, v, w, ub)
      [] op = "+"                   -> Add(v, w, ub, builtin)
      [] OTHER                      -> NumOp(op, v, w, ub, builtin)

-----------------------------------------------------------------------------
(* A value of the first machine in the image for the second, and back.     *)

EncodeNumber(x) ==
    CASE x = NaN     -> <<"NAN", 0>>
      [] x = NegZero -> <<"NEG_ZERO", 0>>
      [] x[2] = 1 /\ x[1] \in VM_MIN_INT14 .. VM_MAX_INT14         -> <<"INT14", x[1]>>
      [] x[2] = 1 /\ x[1] \in Ints \ (VM_MIN_INT14 .. VM_MAX_INT14) -> <<"INT32", x[1]>>
      [] OTHER       -> <<"FLOAT64", x>>

EncodeValue(v) ==
    CASE v[1] = "NumberValue"    -> EncodeNumber(v[2])
      [] v[1] = "BooleanValue"   -> Flag(v[2])
      [] v[1] = "StringValue"    -> <<"STRING", v[2]>>
      [] v[1] = "NullValue"      -> <<"NULL", 0>>
      [] v[1] = "UndefinedValue" -> <<"UNDEFINED", 0>>

DecodeValue(v) ==
    CASE v[1] \in {"TRUE", "FALSE"} -> Boolean(v[1] = "TRUE")
      [] v[1] = "STRING"            -> <<"StringValue", v[2]>>
      [] v[1] = "NULL"              -> <<"NullValue", 0>>
      [] v[1] = "UNDEFINED"         -> <<"UndefinedValue", 0>>
      [] OTHER                      -> Number(ToFloat64(v, 0))

\* The integers where something changes.
Limits ==
    {MinInt, MinInt + 1, MaxInt - 1, MaxInt, VM_MIN_INT14 - 1, VM_MIN_INT14, VM_MAX_INT14,
     VM_MAX_INT14 + 1, -1, 0, 1, 2}

\* The values a program starts with.
Literals ==
    {Number(Whole(n)) : n \in Limits} \cup {Number(x) : x \in {NaN, Inf, NegInf, NegZero, <<1, 2>>, <<-3, 2>>}}
        \cup {Boolean(TRUE), Boolean(FALSE), <<"NullValue", 0>>, <<"UndefinedValue", 0>>}
        \cup {<<"StringValue", t>> : t \in Texts}

Bounded(v) ==
    v[1] = "FLOAT64" => AbsInt(v[2][1]) <= MaxSize /\ v[2][2] <= MaxSize

\* Both machines do the same, the engine with the value it has.
Operate(op, v, w) ==
    \E ub \in Undefined, builtin \in BOOLEAN :
        LET engine == Engine(op, v, w, ub, builtin)
            x      == DecodeValue(v)
            y      == DecodeValue(w)
        IN  /\ last = None
            /\ last' = [op |-> op, left |-> x, right |-> y, builtin |-> builtin, engine |-> engine,
                        host |-> IF op \in UnOps THEN OperationUnOp(op, y) ELSE OperationBinOp(op, x, y)]
            /\ acc' = IF Bounded(engine) THEN engine ELSE acc

\* A sum of strings is a string, which is not modelled.
IsSum(op, v, w) == op = "+" /\ "STRING" \in {v[1], w[1]}

Init ==
    /\ acc \in {EncodeValue(v) : v \in Literals}
    /\ last = None

BinOp ==
    \E op \in BinOps, literal \in Literals :
        \/ ~IsSum(op, acc, EncodeValue(literal)) /\ Operate(op, acc, EncodeValue(literal))
        \/ ~IsSum(op, acc, EncodeValue(literal)) /\ Operate(op, EncodeValue(literal), acc)

UnOp == \E op \in UnOps : Operate(op, acc, acc)

\* The program goes on with the result.
GoOn == last # None /\ last' = None /\ UNCHANGED acc

Next == BinOp \/ UnOp \/ GoOn

Spec == Init /\ [][Next]_vars

-----------------------------------------------------------------------------
(* Properties.                                                             *)

\* Where the engine is left to what C does not define, or is known to differ: see
\* the README for each.
Differs(op, x, y, builtin) ==
    LET InRange(z) == IsFinite(z) => Truncated(z) \in Ints
        m          == ConvertToNumber(x)
        n          == ConvertToNumber(y)
    IN  \/ ("StringValue" \in {x[1], y[1]} /\ (~InRange(m) \/ ~InRange(n)))
        \/ op \in BitOps \cup {"~"} /\ (~InRange(m) \/ ~InRange(n) \/ {m, n} \cap {Inf, NegInf} # {})
        \/ op = "DIVIDE_AND_TRUNC" /\ ~InRange(Over(m, n))
        \/ op = "%" /\ m = Whole(MinInt) /\ n = Whole(-1)
        \/ op = "-" /\ n = Whole(MinInt) /\ ~builtin
        \/ op \in {"===", "!=="} /\ {m, n} = Zeros
        \/ op = "!" /\ NewNumber(n)[1] \in {"INT32", "FLOAT64"}

Alike(v, w) == v = w \/ (v[1] = "NumberValue" /\ w[1] = "NumberValue" /\ Same(v[2], w[2]))

\* A program gives the same results before and after its snapshot, whatever
\* mixture of 14-bit, 32-bit and floating point numbers the engine has for the
\* operands, at every limit where it goes from one to the other; a zero may have
\* another sign.
OperatorsAgree ==
    last # None /\ ~Differs(last.op, last.left, last.right, last.builtin)
        => Alike(last.host, DecodeValue(last.engine))

\* "Int32 can't be zero, otherwise it would be encoded as an int14"
\* (microvium.c:5309): an allocated number is as true as on the other machine.
TruthAgrees == last # None /\ last.op = "!" => last.host = DecodeValue(last.engine)
=============================================================================
