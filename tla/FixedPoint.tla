---------------------------- MODULE FixedPoint ----------------------------
(***************************************************************************)
(* The fixed-point arithmetic of fix16.c.  A fix16_t has F fraction bits   *)
(* and F integer bits, F being 16 in the code.  The global flag            *)
(* fix16_error_occurred only ever grows during a computation, so it is     *)
(* carried by the values: a value is [v, error], its error is set if an    *)
(* operation it depends on set the flag, and the flag is the disjunction   *)
(* of the errors of what was computed.                                     *)
(***************************************************************************)
EXTENDS Integers

CONSTANTS F,          \* fraction bits
          NO_64BIT    \* is FIXMATH_NO_64BIT defined (LPC11Uxx, PC) or not (PIC32)?

Half == 2 ^ (2 * F - 1)
WordSize == 2 ^ (2 * F)

fix16_overflow == -Half
fix16_one == 2 ^ F
FIX16_RECIPROCAL_OF(x) == fix16_one \div x

\* A 32-bit result read as a signed number.
Signed(x) == ((x + Half) % WordSize) - Half

Exactly(x) == [v |-> x, error |-> FALSE]
fix16_from_int(i) == Exactly(Signed(i * fix16_one))
Cleared(x) == [x EXCEPT !.error = FALSE]

Result(a, b, failed, value) ==
    [v     |-> IF failed THEN fix16_overflow ELSE value,
     error |-> a.error \/ b.error \/ failed]

fix16_add(a, b) ==
    LET sum == Signed(a.v + b.v) IN
    Result(a, b, (a.v < 0) = (b.v < 0) /\ (sum < 0) # (a.v < 0), sum)

fix16_sub(a, b) ==
    LET diff == Signed(a.v - b.v) IN
    Result(a, b, (a.v < 0) # (b.v < 0) /\ (diff < 0) # (a.v < 0), diff)

\* Mutation: the rounding of negative products is not compensated.
MultiplyRoundsUp(a, b) ==
    LET product == a.v * b.v
        limit   == 2 ^ (3 * F - 1)
    IN  Result(a, b, product < -limit \/ product >= limit,
               Signed((product \div fix16_one) + ((product \div 2 ^ (F - 1)) % 2)))

\* The version with a product of twice the width.
Multiply64(a, b) ==
    LET product == a.v * b.v
        limit   == 2 ^ (3 * F - 1)
        rounded == IF product < 0 THEN product - 1 ELSE product
    IN  Result(a, b, product < -limit \/ product >= limit,
               Signed((rounded \div fix16_one) + ((rounded \div 2 ^ (F - 1)) % 2)))

\* The rounded upper part of the product hi, lo.
Rounded(hi, lo, less) ==
    Signed((IF less > lo THEN hi - 1 ELSE hi) * fix16_one + less \div fix16_one + 1)

\* The product of halves is BD, and AD_CB in the middle, and AC above.
FromHalves(a, b, AC, AD_CB, BD) ==
    LET lo == (BD + AD_CB * fix16_one) % WordSize
        hi == AC + AD_CB \div fix16_one + (IF lo < BD THEN 1 ELSE 0)
    IN  Result(a, b, hi \div Half # hi \div 2 ^ (F - 1),
               Rounded(hi, lo, (lo - 2 ^ (F - 1) - (IF hi < 0 THEN 1 ELSE 0)) % WordSize))

\* The version that multiplies halves: (A, B) times (C, D).
Multiply32(a, b) ==
    LET A == a.v \div fix16_one
        B == a.v % fix16_one
        C == b.v \div fix16_one
        D == b.v % fix16_one
    IN  FromHalves(a, b, A * C, Signed(A * D + C * B), B * D)

fix16_mul(a, b) == IF NO_64BIT THEN Multiply32(a, b) ELSE Multiply64(a, b)

fix16_rs(x) == (x \div 2) + (x % 2)

RECURSIVE Normalised(_, _)
\* Both while loops of fix16_log2(): the exponent and the value in [1, 2).
Normalised(x, exponent) ==
    IF x >= 2 * fix16_one THEN Normalised(fix16_rs(x), exponent + 1)
    ELSE IF x < fix16_one THEN Normalised(2 * x, exponent - 1)
    ELSE [x |-> x, result |-> exponent]

RECURSIVE LogDigits(_, _, _)
\* The loop that squares x and takes one bit of the logarithm each time.
LogDigits(x, result, i) ==
    LET square == fix16_mul(Exactly(x), Exactly(x)).v IN
    IF i = 0 THEN IF square >= 2 * fix16_one THEN result + 1 ELSE result
    ELSE IF square >= 2 * fix16_one
         THEN LogDigits(fix16_rs(square), 2 * result + 1, i - 1)
         ELSE LogDigits(square, 2 * result, i - 1)

\* Squares of values below 2 stay below 4, so no product of the loop overflows.
fix16_log2(a) ==
    IF a.v <= 0 THEN Result(a, a, TRUE, 0)
    ELSE LET n == Normalised(a.v, 0) IN
         Result(a, a, FALSE, LogDigits(n.x, n.result, F))

\* ------------------------------------------------------------ references

\* The nearest multiple of the last place, halves away from zero.
Nearest(numerator, denominator) ==
    IF numerator >= 0 THEN (2 * numerator + denominator) \div (2 * denominator)
    ELSE -((2 * (-numerator) + denominator) \div (2 * denominator))

Magnitude(x) == IF x < 0 THEN -x ELSE x
=============================================================================
