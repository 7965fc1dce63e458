------------------------------- MODULE BigNum -------------------------------
(***************************************************************************)
(* The multi-precision arithmetic of bignum256.c.  A number is a sequence  *)
(* of Size digits of W bits, least significant first (32 bytes of 8 bits   *)
(* in the program).  The caller's arrays are cells of "mem", so that       *)
(* operands may alias the result, as the functions allow.                  *)
(***************************************************************************)
EXTENDS Integers, Sequences, SequencesExt

CONSTANTS
    W,                  \* bits in a digit: 8
    Size,               \* digits in a number: 32
    N,                  \* the prime modulus n
    SizeComplement,     \* digits of complement_n
    Samples             \* values of the operands

VARIABLES
    mem,        \* contents of the caller's arrays
    args,       \* the last call, with the bits bigInvert() has yet to use, or Idle
    before      \* mem before the call

vars == <<mem, args, before>>

Base == 2^W

Modulus == Base^Size

(* The number of "len" digits that has value v. *)
Digits(v, len) == <<>> \o [i \in 1..len |-> (v \div Base^(i - 1)) % Base]

Value(x) == FoldRight(LAMBDA d, v : d + Base * v, x, 0)

n == Digits(N, Size)

complement_n == Digits(Modulus - N, SizeComplement)

zero == Digits(0, Size)

Indices(k) == [i \in 1..k |-> i]
-----------------------------------------------------------------------------
bigCompareVariableSize(op1, op2) ==
    LET Step(r, i) == IF r # "EQUAL" \/ op1[i] = op2[i] THEN r
                      ELSE IF op1[i] > op2[i] THEN "GREATER" ELSE "LESS"
    IN  FoldLeft(Step, "EQUAL", Reverse(Indices(Len(op1))))

(* bigAddVariableSizeNoModulo(r, op1, op2) on the cells of m: the new m    *)
(* and the carry.  Each digit of r is written before the next digits of    *)
(* op1 and op2 are read.                                                   *)
bigAddNoModulo(m, r, op1, op2) ==
    LET Step(a, i) ==
            LET partial == a.mem[op1][i] + a.mem[op2][i] + a.out
            IN  [mem |-> [a.mem EXCEPT ![r][i] = partial % Base], out |-> partial \div Base]
    IN  FoldLeft(Step, [mem |-> m, out |-> 0], Indices(Len(m[r])))

bigSubtractNoModulo(m, r, op1, op2) ==
    LET Step(a, i) ==
            LET partial == a.mem[op1][i] - a.mem[op2][i] - a.out
            IN  [mem |-> [a.mem EXCEPT ![r][i] = partial % Base],
                 out |-> IF partial < 0 THEN 1 ELSE 0]
    IN  FoldLeft(Step, [mem |-> m, out |-> 0], Indices(Size))

(* The cells "zero" and "n" stand for the arrays that lookup[] points at. *)
bigModulo(m, r, op1) ==
    LET lookup == IF bigCompareVariableSize(m[op1], n) = "LESS" THEN "zero" ELSE "n"
    IN  bigSubtractNoModulo(m, r, op1, lookup).mem

(* Mutation: the result is compared with n, but the carry is ignored. *)
AddIgnoringCarry(m, r, op1, op2) ==
    LET sum == bigAddNoModulo(m, r, op1, op2).mem
    IN  bigModulo(sum, r, r)

bigAdd(m, r, op1, op2) ==
    LET sum == bigAddNoModulo(m, r, op1, op2)
        too_big == sum.out = 1 \/ bigCompareVariableSize(sum.mem[r], n) # "LESS"
    IN  bigSubtractNoModulo(sum.mem, r, r, IF too_big THEN "n" ELSE "zero").mem

bigSubtract(m, r, op1, op2) ==
    LET difference == bigSubtractNoModulo(m, r, op1, op2)
        too_small == difference.out = 1
    IN  bigAddNoModulo(difference.mem, r, r, IF too_small THEN "n" ELSE "zero").mem

bigShiftRightNoModulo(m, r, op1) ==
    LET Step(a, i) ==
            [num |-> [a.num EXCEPT ![i] = (@ \div 2) + a.carry * (Base \div 2)],
             carry |-> a.num[i] % 2]
    IN  [m EXCEPT ![r] =
            FoldLeft(Step, [num |-> m[op1], carry |-> 0], Reverse(Indices(Size))).num]

(* Schoolbook multiplication.  The result may not alias an operand. *)
bigMultiplyNoModulo(op1, op2) ==
    LET Row(r, i) ==
            LET Step(a, j) ==
                    LET product == op1[i] * op2[j]
                        low == a.r[i + j - 1] + (product % Base)
                        high == a.r[i + j] + (product \div Base) + (low \div Base) + a.carry
                    IN  [r |-> [a.r EXCEPT ![i + j - 1] = low % Base, ![i + j] = high % Base],
                         carry |-> high \div Base]
            IN  FoldLeft(Step, [r |-> r, carry |-> 0], Indices(Len(op2))).r
    IN  FoldLeft(Row, Digits(0, Len(op1) + Len(op2)), Indices(Len(op1)))

(* One round of the loop of bigMultiply(): the digits above the lowest     *)
(* Size ones, up to "remaining", are multiplied by complement_n and added  *)
(* to the lowest ones.                                                     *)
Reduce(full_r, remaining) ==
    LET upper == SubSeq(full_r, Size + 1, remaining)
        lower == SubSeq(full_r, 1, Size) \o Digits(0, remaining - Size)
        temp == bigMultiplyNoModulo(complement_n, upper) \o Digits(0, remaining)
    IN  bigAddNoModulo([r |-> lower, t |-> temp], "r", "r", "t").mem.r

(* The values of "remaining" in that loop: 2 * Size, then less by          *)
(* Size - SizeComplement each time, as long as it is above Size.           *)
Remainings ==
    LET less == Size - SizeComplement
    IN  [i \in 1..(Size + less - 1) \div less |-> 2 * Size - (i - 1) * less]

bigMultiply(m, r, op1, op2) ==
    LET full_r == FoldLeft(Reduce, bigMultiplyNoModulo(m[op1], m[op2]), Remainings)
    IN  bigModulo([m EXCEPT ![r] = SubSeq(full_r, 1, Size)], r, r)

(* The bits of n - 2, most significant first, as bigInvert() takes them    *)
(* from the bytes of n; 2 is subtracted from the lowest byte only.         *)
BitsOfNMinus2 ==
    LET byte(i) == IF i = 1 THEN (n[1] - 2) % Base ELSE n[i]
    IN  [b \in 1..W * Size |->
            LET low == W * Size - b IN (byte(1 + (low \div W)) \div 2^(low % W)) % 2]

(* bigInvert() up to its loop: the operand is copied before r is set. *)
InvertStart(m, r, op1) == [m EXCEPT !["temp"] = m[op1], ![r] = Digits(1, Size)]

(* One round of that loop, a step of a Montgomery ladder. *)
InvertRound(m, r, bit) ==
    LET lookup == IF bit = 1 THEN <<r, "temp">> ELSE <<"temp", r>>
        product == bigMultiply(m, lookup[1], r, "temp")
    IN  bigMultiply(product, lookup[2], lookup[2], lookup[2])
-----------------------------------------------------------------------------
(* The arrays of a caller. *)
Cells == {"r", "a", "b"}

(* Functions with two operands, and whether they need operands below n. *)
Binary == {"bigAdd", "bigSubtract", "bigMultiply"}

Unary == {"bigModulo", "bigInvert", "bigShiftRight"}

Idle == [fn |-> "none", bits |-> <<>>]

Blank == [c \in Cells \cup {"temp", "n", "zero"} |-> IF c = "n" THEN n ELSE zero]

Init == mem = Blank /\ args = Idle /\ before = Blank

Apply(m, fn, r, op1, op2) ==
    CASE fn = "bigAdd" -> bigAdd(m, r, op1, op2)
      [] fn = "bigSubtract" -> bigSubtract(m, r, op1, op2)
      [] fn = "bigMultiply" -> bigMultiply(m, r, op1, op2)
      [] fn = "bigModulo" -> bigModulo(m, r, op1)
      [] fn = "bigInvert" -> InvertStart(m, r, op1)
      [] fn = "bigShiftRight" -> bigShiftRightNoModulo(m, r, op1)

(* One call, with every way in which the documentation lets the arguments  *)
(* alias each other; the loop of bigInvert() follows in steps of its own.  *)
(* bigAdd() and bigSubtract() need operands below n.                       *)
Call(fn, r, op1, op2) ==
    /\ args = Idle
    /\ fn \in Unary => op2 = op1
    /\ \E x \in Samples, y \in Samples :
         /\ fn \in {"bigAdd", "bigSubtract"} => x < N /\ y < N
         /\ op1 = op2 => x = y
         /\ before' = [Blank EXCEPT ![op1] = Digits(x, Size), ![op2] = Digits(y, Size)]
    /\ mem' = Apply(before', fn, r, op1, op2)
    /\ args' = [fn |-> fn, r |-> r, op1 |-> op1, op2 |-> op2,
                bits |-> IF fn = "bigInvert" THEN BitsOfNMinus2 ELSE <<>>]

(* The loop of bigInvert(), over the bits of n - 2. *)
bigInvert ==
    /\ args.bits # <<>>
    /\ mem' = InvertRound(mem, args.r, Head(args.bits))
    /\ args' = [args EXCEPT !.bits = Tail(@)]
    /\ UNCHANGED before

(* The caller goes on to other numbers. *)
Forget ==
    /\ args # Idle /\ args.bits = <<>>
    /\ mem' = Blank /\ args' = Idle /\ before' = Blank

Next ==
    \/ \E fn \in Binary \cup Unary, r \in Cells, op1 \in {"a"}, op2 \in {"a", "b"} :
          Call(fn, r, op1, op2)
    \/ bigInvert
    \/ Forget

Spec == Init /\ [][Next]_vars
-----------------------------------------------------------------------------
(* What each function is for, on integers. *)
Expected(fn, x, y) ==
    CASE fn = "bigAdd" -> (x + y) % N
      [] fn = "bigSubtract" -> (x - y) % N
      [] fn = "bigMultiply" -> (x * y) % N
      [] fn = "bigModulo" -> x % N
      [] fn = "bigShiftRight" -> x \div 2

(* Every function leaves in r the number that its documentation states,    *)
(* as digits, whichever of its arguments are the same array: digits that   *)
(* have been overwritten are not read again as operands.  No other array   *)
(* of the caller changes.  The inverse is the number whose product with    *)
(* the operand is 1 modulo n.                                              *)
ResultIsExact ==
    args # Idle /\ args.bits = <<>> =>
        LET x == Value(before[args.op1])
            y == Value(before[args.op2])
            v == Value(mem[args.r])
        IN  /\ IF args.fn = "bigInvert"
               THEN v < N /\ (x % N # 0 => (v * x) % N = 1)
               ELSE v = Expected(args.fn, x, y)
            /\ mem[args.r] = Digits(v, Size)
            /\ \A c \in Cells \ {args.r} : mem[c] = before[c]
=============================================================================
