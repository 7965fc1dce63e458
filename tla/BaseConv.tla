----------------------------- MODULE BaseConv -----------------------------
(***************************************************************************)
(* baseconv.c: amounts as decimal text and hashes as base 58 addresses.    *)
(* Both divide a little-endian number again and again and then edit a      *)
(* character array in place.  A character is its digit, Dot or Nul; the    *)
(* digit 0 of base 58 is the character '1'.                                *)
(***************************************************************************)
EXTENDS Integers, Sequences, FiniteSets, SequencesExt, FiniteSetsExt

CONSTANTS
    W,                      \* bits in a byte: 8
    AmountSize,             \* bytes in an amount: 8
    AmountBase,             \* 10
    AmountDigits,           \* digits that hold every amount: 20
    Decimals,               \* digits after the point: 8
    AddressSize,            \* bytes in version, hash and checksum: 25
    AddressBase,            \* 58
    AddressDigits           \* digits that hold every address: 35

VARIABLES
    phase,      \* what the function is doing
    number,     \* its argument, as a number
    quotient,   \* r, what is left to convert
    i,          \* the loop variable
    out         \* the text, indexed from 0

vars == <<phase, number, quotient, i, out>>

Dot == -1

Nul == -2

Init == phase = "idle" /\ number = 0 /\ quotient = 0 /\ i = 0 /\ out = <<>>

(* bigDivide(): shift and subtract, from the highest bit of the highest    *)
(* byte downwards.  "remainder" is what is left in op1.                    *)
bigDivide(dividend, n, size) ==
    LET Step(a, bit) ==
            IF n * 2^bit <= a.remainder
            THEN [remainder |-> a.remainder - n * 2^bit, r |-> a.r + 2^bit]
            ELSE a
    IN  FoldLeft(Step, [remainder |-> dividend, r |-> 0],
                 [b \in 1..W * size |-> W * size - b])

(* The two editing loops move or clear characters one at a time. *)
DropFirst(text) ==
    [k \in DOMAIN text |-> IF k + 1 \in DOMAIN text THEN text[k + 1] ELSE text[k]]

InsertFirst(text, c) == [k \in DOMAIN text |-> IF k = 0 THEN c ELSE text[k - 1]]
-----------------------------------------------------------------------------
amountToText(v) ==
    /\ phase = "idle"
    /\ phase' = "amount"
    /\ number' = v /\ quotient' = v /\ i' = 0
    /\ out' = [k \in 0..AmountDigits + 1 |-> Nul]

(* One digit, from the right; the point comes after the decimals. *)
AmountDigit ==
    /\ phase = "amount" /\ i < AmountDigits
    /\ LET d == bigDivide(quotient, AmountBase, AmountSize)
           index == AmountDigits - i - (IF i >= Decimals THEN 1 ELSE 0)
           written == [out EXCEPT ![index] = d.remainder]
       IN  /\ quotient' = d.r
           /\ out' = IF i = Decimals THEN [written EXCEPT ![index + 1] = Dot] ELSE written
    /\ i' = i + 1
    /\ UNCHANGED <<phase, number>>

AmountWritten ==
    /\ phase = "amount" /\ i = AmountDigits
    /\ phase' = "trailing" /\ i' = AmountDigits
    /\ UNCHANGED <<number, quotient, out>>

(* Mutation: the point is kept when nothing follows it. *)
OnlyZero(c) == c = 0

(* What is removed at the end of an amount. *)
Removable(c) == c \in {0, Dot}

(* "Truncate trailing zeroes up to the decimal point." *)
TrimTrailing ==
    /\ phase = "trailing"
    /\ IF i > AmountDigits - Decimals - 1 /\ Removable(out[i])
       THEN out' = [out EXCEPT ![i] = Nul] /\ i' = i - 1 /\ UNCHANGED phase
       ELSE phase' = "leading" /\ i' = 0 /\ UNCHANGED out
    /\ UNCHANGED <<number, quotient>>

(* "Remove leading zeroes up to one zero before the decimal point." *)
TrimLeading ==
    /\ phase = "leading"
    /\ IF i < AmountDigits - Decimals - 1 /\ out[0] = 0
       THEN out' = DropFirst(out) /\ i' = i + 1 /\ UNCHANGED phase
       ELSE phase' = "text" /\ i' = 0 /\ UNCHANGED out
    /\ UNCHANGED <<number, quotient>>
-----------------------------------------------------------------------------
(* Version, hash and checksum as one number; the checksum may be anything. *)
hashToAddr(v) ==
    /\ phase = "idle"
    /\ phase' = "addr"
    /\ number' = v /\ quotient' = v /\ i' = 0
    /\ out' = [k \in 0..AddressDigits |-> Nul]

AddressDigit ==
    /\ phase = "addr" /\ i < AddressDigits
    /\ LET d == bigDivide(quotient, AddressBase, AddressSize)
       IN  /\ quotient' = d.r
           /\ out' = [out EXCEPT ![AddressDigits - 1 - i] = d.remainder]
    /\ i' = i + 1
    /\ UNCHANGED <<phase, number>>

AddressWritten ==
    /\ phase = "addr" /\ i = AddressDigits
    /\ phase' = "strip" /\ i' = 0
    /\ UNCHANGED <<number, quotient, out>>

StripZero ==
    /\ phase = "strip"
    /\ IF i < AddressDigits /\ out[0] = 0
       THEN out' = DropFirst(out) /\ i' = i + 1 /\ UNCHANGED phase
       ELSE phase' = "insert" /\ i' = 0 /\ UNCHANGED out
    /\ UNCHANGED <<number, quotient>>

(* Mutation: the byte that ends the count is counted too. *)
LeadingZeroBytesPlusOne(v) ==
    Min({AddressSize, 1 + Max({0} \cup {k \in 1..AddressSize : v < 2^(W * (AddressSize - k))})})

(* The count of leading zero bytes of the number. *)
LeadingZeroBytes(v) == Max({0} \cup {k \in 1..AddressSize : v < 2^(W * (AddressSize - k))})

(* One '1' for each leading zero byte. *)
InsertOne ==
    /\ phase = "insert"
    /\ IF i < LeadingZeroBytes(number)
       THEN out' = InsertFirst(out, 0) /\ i' = i + 1 /\ UNCHANGED phase
       ELSE phase' = "address" /\ i' = 0 /\ UNCHANGED out
    /\ UNCHANGED <<number, quotient>>

(* The text has been shown. *)
Return ==
    /\ phase \in {"text", "address"}
    /\ phase' = "idle" /\ number' = 0 /\ quotient' = 0 /\ i' = 0 /\ out' = <<>>

Next ==
    \/ \E v \in 0..2^(W * AmountSize) - 1 : amountToText(v)
    \/ \E v \in 0..2^(W * AddressSize) - 1 : hashToAddr(v)
    \/ AmountDigit \/ AmountWritten \/ TrimTrailing \/ TrimLeading
    \/ AddressDigit \/ AddressWritten \/ StripZero \/ InsertOne
    \/ Return

Spec == Init /\ [][Next]_vars
-----------------------------------------------------------------------------
(* The text up to its terminator. *)
Text ==
    LET end == Min({k \in DOMAIN out : out[k] = Nul})
    IN  SubSeq([k \in 1..end |-> out[k - 1]], 1, end)

Value(digits, base) == FoldLeft(LAMBDA v, d : v * base + d, 0, digits)

(* The text that amountToText() ends with reads back as the amount: digits,*)
(* then at most Decimals more after a point, with no digit that could be   *)
(* left out.  It is terminated inside its array.                           *)
AmountText ==
    phase = "text" =>
        /\ \E k \in DOMAIN out : out[k] = Nul
        /\ LET point == IF Contains(Text, Dot) THEN SelectInSeq(Text, LAMBDA c : c = Dot)
                        ELSE Len(Text) + 1
               whole == SubSeq(Text, 1, point - 1)
               part == SubSeq(Text, point + 1, Len(Text))
           IN  /\ Value(whole \o part, AmountBase) * AmountBase^(Decimals - Len(part)) = number
               /\ whole # <<>> /\ (Len(whole) > 1 => whole[1] # 0)
               /\ point <= Len(Text) => part # <<>> /\ part[Len(part)] # 0

(* An address decodes to the version, hash and checksum it was made from:  *)
(* its digits have their value, and it starts with exactly one '1' for     *)
(* each leading zero byte, so that their number can be recovered.          *)
AddressText ==
    phase = "address" =>
        /\ \E k \in DOMAIN out : out[k] = Nul
        /\ \A k \in 1..Len(Text) : Text[k] \in 0..AddressBase - 1
        /\ Value(Text, AddressBase) = number
        /\ Max({0} \cup {k \in 1..Len(Text) : \A j \in 1..k : Text[j] = 0})
             = Cardinality({k \in 1..AddressSize : number < 2^(W * (AddressSize - k))})

(* What the user reads on the display is the amount and the address that   *)
(* were parsed: the texts of amountToText() and hashToAddr() read back.    *)
TextReadsBack == AmountText /\ AddressText
=============================================================================
