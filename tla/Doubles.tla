-------------------------------- MODULE Doubles --------------------------------
(***************************************************************************)
(* Floating point numbers without their rounding: pairs <<n, d>> for the   *)
(* number n/d in lowest terms, with infinities, NaN and a negative zero,   *)
(* and the operators of C and JavaScript on them.                          *)
(***************************************************************************)
EXTENDS Integers

NaN     == <<0, 0>>
Inf     == <<1, 0>>
NegInf  == <<-1, 0>>
NegZero == <<0, -1>>

Whole(n) == <<n, 1>>

Zeros == {Whole(0), NegZero}

AbsInt(n) == IF n < 0 THEN -n ELSE n

IsNegative(x) == x[1] < 0 \/ x = NegZero

IsFinite(x) == x[2] # 0

\* The number with this sign and magnitude n/d, where 0/0 is NaN and n/0 infinity.
Signed(negative, n, d) ==
    IF n = 0 /\ d = 0 THEN NaN
    ELSE IF n = 0 THEN (IF negative THEN NegZero ELSE Whole(0))
    ELSE IF d = 0 THEN (IF negative THEN NegInf ELSE Inf)
    ELSE LET g == CHOOSE g \in 1 .. n : /\ n % g = 0 /\ d % g = 0
                                        /\ \A h \in g + 1 .. n : n % h # 0 \/ d % h # 0
         IN  <<(IF negative THEN -n ELSE n) \div g, d \div g>>

Neg(x) ==
    IF x \in Zeros THEN CHOOSE z \in Zeros : z # x ELSE <<-x[1], x[2]>>

\* A sum that is zero is only negative if both are.
Plus(x, y) ==
    LET dx == AbsInt(x[2])
        dy == AbsInt(y[2])
        n  == x[1] * dy + y[1] * dx
    IN  IF x = y /\ x \in {Inf, NegInf} THEN x
        ELSE Signed(n < 0 \/ (n = 0 /\ x = NegZero /\ y = NegZero), AbsInt(n), dx * dy)

Times(x, y) ==
    Signed(IsNegative(x) # IsNegative(y), AbsInt(x[1] * y[1]), AbsInt(x[2] * y[2]))

Over(x, y) ==
    Signed(IsNegative(x) # IsNegative(y), AbsInt(x[1] * y[2]), AbsInt(x[2] * y[1]))

\* The integer part of a finite number.
Truncated(x) ==
    LET n == AbsInt(x[1]) \div AbsInt(x[2]) IN IF x[1] < 0 THEN -n ELSE n

\* fmod, and % of JavaScript: the sign is that of the first operand.
Remainder(x, y) ==
    IF NaN \in {x, y} \/ ~IsFinite(x) \/ y \in Zeros THEN NaN
    ELSE IF ~IsFinite(y) THEN x
    ELSE LET q == Whole(AbsInt(Truncated(Over(x, y))))
             r == Plus(Signed(FALSE, AbsInt(x[1]), AbsInt(x[2])),
                       Neg(Times(q, Signed(FALSE, AbsInt(y[1]), AbsInt(y[2])))))
         IN  Signed(IsNegative(x), r[1], AbsInt(r[2]))

\* Neither holds of NaN.
Less(x, y) ==
    /\ NaN \notin {x, y}
    /\ \/ x[1] * AbsInt(y[2]) < y[1] * AbsInt(x[2])
       \/ ~IsFinite(x) /\ ~IsFinite(y) /\ x[1] < y[1]

Same(x, y) == x # NaN /\ (x = y \/ {x, y} = Zeros)

LessOrSame(x, y) == Less(x, y) \/ Same(x, y)
=============================================================================
