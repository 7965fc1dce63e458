-------------------------------- MODULE Aes --------------------------------
(***************************************************************************)
(* AES-128 of aes.c and the XEX mode of xex.c on one block, on bytes as    *)
(* the code computes them.  A block is encrypted with xexEncrypt() and the *)
(* result decrypted with xexDecrypt(); "plan" lists what is still to be    *)
(* done.  Arrays are sequences, so that element i is at i + 1.             *)
(***************************************************************************)
EXTENDS Integers, Sequences, SequencesExt, FiniteSetsExt

CONSTANTS
    Blocks,     \* plaintexts
    Keys,       \* pairs of an encryption key and a tweak key
    Numbers,    \* numbers of data units
    Seqs        \* numbers of blocks in a data unit

VARIABLES
    job,            \* the plaintext, the keys and the tweak
    plan,           \* operations still to be done
    round,          \* round of aesEncrypt() or aesDecrypt(), -1 between them
    aes,            \* the array "out" of the cipher
    expanded_key,
    delta, buffer   \* of xexEnDecrypt()

vars == <<job, plan, round, aes, expanded_key, delta, buffer>>

(* Exclusive or of two bytes. *)
a ^^ b ==
    LET bit(i) == IF (a \div i) % 2 = (b \div i) % 2 THEN 0 ELSE i
    IN  bit(1) + bit(2) + bit(4) + bit(8) + bit(16) + bit(32) + bit(64) + bit(128)

sbox ==
    <<99, 124, 119, 123, 242, 107, 111, 197, 48, 1, 103, 43, 254, 215, 171, 118, 202, 130, 201, 125, 250, 89,
      71, 240, 173, 212, 162, 175, 156, 164, 114, 192, 183, 253, 147, 38, 54, 63, 247, 204, 52, 165, 229, 241,
      113, 216, 49, 21, 4, 199, 35, 195, 24, 150, 5, 154, 7, 18, 128, 226, 235, 39, 178, 117, 9, 131,
      44, 26, 27, 110, 90, 160, 82, 59, 214, 179, 41, 227, 47, 132, 83, 209, 0, 237, 32, 252, 177, 91,
      106, 203, 190, 57, 74, 76, 88, 207, 208, 239, 170, 251, 67, 77, 51, 133, 69, 249, 2, 127, 80, 60,
      159, 168, 81, 163, 64, 143, 146, 157, 56, 245, 188, 182, 218, 33, 16, 255, 243, 210, 205, 12, 19, 236,
      95, 151, 68, 23, 196, 167, 126, 61, 100, 93, 25, 115, 96, 129, 79, 220, 34, 42, 144, 136, 70, 238,
      184, 20, 222, 94, 11, 219, 224, 50, 58, 10, 73, 6, 36, 92, 194, 211, 172, 98, 145, 149, 228, 121,
      231, 200, 55, 109, 141, 213, 78, 169, 108, 86, 244, 234, 101, 122, 174, 8, 186, 120, 37, 46, 28, 166,
      180, 198, 232, 221, 116, 31, 75, 189, 139, 138, 112, 62, 181, 102, 72, 3, 246, 14, 97, 53, 87, 185,
      134, 193, 29, 158, 225, 248, 152, 17, 105, 217, 142, 148, 155, 30, 135, 233, 206, 85, 40, 223, 140, 161,
      137, 13, 191, 230, 66, 104, 65, 153, 45, 15, 176, 84, 187, 22>>

inv_sbox ==
    <<82, 9, 106, 213, 48, 54, 165, 56, 191, 64, 163, 158, 129, 243, 215, 251, 124, 227, 57, 130, 155, 47,
      255, 135, 52, 142, 67, 68, 196, 222, 233, 203, 84, 123, 148, 50, 166, 194, 35, 61, 238, 76, 149, 11,
      66, 250, 195, 78, 8, 46, 161, 102, 40, 217, 36, 178, 118, 91, 162, 73, 109, 139, 209, 37, 114, 248,
      246, 100, 134, 104, 152, 22, 212, 164, 92, 204, 93, 101, 182, 146, 108, 112, 72, 80, 253, 237, 185, 218,
      94, 21, 70, 87, 167, 141, 157, 132, 144, 216, 171, 0, 140, 188, 211, 10, 247, 228, 88, 5, 184, 179,
      69, 6, 208, 44, 30, 143, 202, 63, 15, 2, 193, 175, 189, 3, 1, 19, 138, 107, 58, 145, 17, 65,
      79, 103, 220, 234, 151, 242, 207, 206, 240, 180, 230, 115, 150, 172, 116, 34, 231, 173, 53, 133, 226, 249,
      55, 232, 28, 117, 223, 110, 71, 241, 26, 113, 29, 41, 197, 137, 111, 183, 98, 14, 170, 24, 190, 27,
      252, 86, 62, 75, 198, 210, 121, 32, 154, 219, 192, 254, 120, 205, 90, 244, 31, 221, 168, 51, 136, 7,
      199, 49, 177, 18, 16, 89, 39, 128, 236, 95, 96, 81, 127, 169, 25, 181, 74, 13, 45, 229, 122, 159,
      147, 201, 156, 239, 160, 224, 59, 77, 174, 42, 245, 176, 200, 235, 187, 60, 131, 83, 153, 97, 23, 43,
      4, 126, 186, 119, 214, 38, 225, 105, 20, 99, 85, 33, 12, 125>>

Sbox(x) == sbox[x + 1]

InvSbox(x) == inv_sbox[x + 1]

(* Mutation: the reduction polynomial is wrong. *)
Times2Wrong(x) == IF x >= 128 THEN ((2 * x) % 256) ^^ 29 ELSE 2 * x

xTimes2InGF(x) == IF x >= 128 THEN ((2 * x) % 256) ^^ 27 ELSE 2 * x

xTimes3InGF(x) == xTimes2InGF(x) ^^ x

xTimes4InGF(x) == xTimes2InGF(xTimes2InGF(x))

xTimes8InGF(x) == xTimes2InGF(xTimes4InGF(x))

xTimes9InGF(x) == xTimes8InGF(x) ^^ x

xTimesBInGF(x) == xTimes9InGF(x) ^^ xTimes2InGF(x)

(* Mutation: 13 x is taken to be 11 x + 2 x. *)
TimesDWrong(x) == xTimesBInGF(x) ^^ xTimes2InGF(x)

xTimesDInGF(x) == xTimes9InGF(x) ^^ xTimes4InGF(x)

xTimesEInGF(x) == (xTimes8InGF(x) ^^ xTimes4InGF(x)) ^^ xTimes2InGF(x)

(* Both directions substitute bytes; shift is 5 or 13. *)
shiftOrInvShiftRows(s, shift) ==
    [n \in 1 .. 16 |->
        LET k == n - 1
            from == s[(((k % 4) * shift + 4 * (k \div 4)) % 16) + 1]
        IN  IF shift = 5 THEN Sbox(from) ELSE InvSbox(from)]

(* Substitution, shift of rows and mix of columns in one. *)
mixSubColumns(s) ==
    [n \in 1 .. 16 |->
        LET k == n - 1
            in(q) == Sbox(s[((5 * ((k + q) % 4) + 4 * (k \div 4)) % 16) + 1])
        IN  ((xTimes2InGF(in(0)) ^^ xTimes3InGF(in(1))) ^^ in(2)) ^^ in(3)]

(* The columns are un-mixed to places five apart and substituted there. *)
invMixSubColumns(s) ==
    [n \in 1 .. 16 |->
        LET i == (13 * (n - 1)) % 16            \* 5 * i % 16 = n - 1
            in(q) == s[((i + q) % 4) + 4 * (i \div 4) + 1]
        IN  InvSbox(((xTimesEInGF(in(0)) ^^ xTimesBInGF(in(1))) ^^ xTimesDInGF(in(2)))
                       ^^ xTimes9InGF(in(3)))]

xor16Bytes(r, op1) == [n \in 1 .. 16 |-> r[n] ^^ op1[n]]

(* Mutation: the last powers are not reduced. *)
RconTruncated == <<0, 1, 2, 4, 8, 16, 32, 64, 128, 0, 0>>

r_con == <<0, 1, 2, 4, 8, 16, 32, 64, 128, 27, 54>>

RoundKey(r) == SubSeq(expanded_key, 16 * r + 1, 16 * r + 16)
-----------------------------------------------------------------------------
(* The four bytes of the expanded key after k. *)
NextWord(k) ==
    LET idx == Len(k)
        tmp == SubSeq(k, idx - 3, idx)
        word == IF idx % 16 = 0
                  THEN <<Sbox(tmp[2]) ^^ r_con[idx \div 16 + 1], Sbox(tmp[3]), Sbox(tmp[4]), Sbox(tmp[1])>>
                  ELSE tmp
    IN  [b \in 1 .. 4 |-> k[idx - 16 + b] ^^ word[b]]

(* The next operation of the plan, if it is op. *)
Doing(op) == plan # <<>> /\ Head(plan) = op

(* aesExpandKey(): copies the key, then adds a word at a time. *)
aesExpandKey(op, key) ==
    /\ Doing(op)
    /\ expanded_key' = IF Len(expanded_key) \in {0, 176} THEN key ELSE expanded_key \o NextWord(expanded_key)
    /\ plan' = IF Len(expanded_key') = 176 THEN Tail(plan) ELSE plan
    /\ UNCHANGED <<job, round, aes, delta, buffer>>

(* Rounds of aesEncrypt(), which ends by storing to the array "out". *)
aesEncrypt(op, in) ==
    /\ Doing(op)
    /\ LET r == round + 1
           out == CASE r = 0 -> in
                    [] r \in 1 .. 9 -> mixSubColumns(aes)
                    [] r = 10 -> shiftOrInvShiftRows(aes, 5)
       IN  /\ aes' = xor16Bytes(out, RoundKey(r))
           /\ round' = IF r = 10 THEN -1 ELSE r
           /\ plan' = IF r = 10 THEN Tail(plan) ELSE plan
           /\ delta' = IF r = 10 /\ op = "encrypt n" THEN aes' ELSE delta
    /\ UNCHANGED <<job, expanded_key, buffer>>

(* Rounds of aesDecrypt(). *)
aesDecrypt(in) ==
    /\ Doing("decrypt")
    /\ LET r == IF round = -1 THEN 10 ELSE round - 1
           keyed == xor16Bytes(IF r = 10 THEN in ELSE aes, RoundKey(r))
       IN  /\ aes' = CASE r = 10 -> shiftOrInvShiftRows(keyed, 13)
                       [] r \in 1 .. 9 -> invMixSubColumns(keyed)
                       [] r = 0 -> keyed
           /\ round' = IF r = 0 THEN -1 ELSE r
           /\ plan' = IF r = 0 THEN Tail(plan) ELSE plan
    /\ UNCHANGED <<job, expanded_key, delta, buffer>>
-----------------------------------------------------------------------------
(* Mutation: the carry out of the top bit is lost. *)
doubleNoReduction(op1) ==
    [n \in 1 .. 16 |-> ((2 * op1[n]) % 256) + (IF n = 1 THEN 0 ELSE op1[n - 1] \div 128)]

(* 128-bit little-endian numbers under x^128 + x^7 + x^2 + x + 1. *)
doubleInGF(op1) ==
    [n \in 1 .. 16 |->
        LET shifted == ((2 * op1[n]) % 256) + (IF n = 1 THEN 0 ELSE op1[n - 1] \div 128)
        IN  IF n = 1 /\ op1[16] >= 128 THEN shifted ^^ 135 ELSE shifted]

Double ==
    /\ Doing("double")
    /\ delta' = doubleInGF(delta)
    /\ plan' = Tail(plan)
    /\ UNCHANGED <<job, round, aes, expanded_key, buffer>>

(* The input, exclusive-or-ed with delta. *)
Mask(in) ==
    /\ Doing("mask")
    /\ buffer' = xor16Bytes(in, delta)
    /\ plan' = Tail(plan)
    /\ UNCHANGED <<job, round, aes, expanded_key, delta>>

Unmask ==
    /\ Doing("unmask")
    /\ buffer' = xor16Bytes(aes, delta)
    /\ plan' = Tail(plan)
    /\ UNCHANGED <<job, round, aes, expanded_key, delta>>

(* Mutation: the number of the data unit is encrypted with the wrong key.  *)
OneKey(seq, is_decrypt) ==
    <<"expand key", "encrypt n">> \o [k \in 1 .. seq |-> "double"] \o
    <<"mask", "expand key", IF is_decrypt THEN "decrypt" ELSE "encrypt", "unmask">>

(* What xexEnDecrypt() does, in its order. *)
xexEnDecrypt(seq, is_decrypt) ==
    <<"expand tweak key", "encrypt n">> \o [k \in 1 .. seq |-> "double"] \o
    <<"mask", "expand key", IF is_decrypt THEN "decrypt" ELSE "encrypt", "unmask">>

xexEncrypt(seq) == xexEnDecrypt(seq, FALSE)

xexDecrypt(seq) == xexEnDecrypt(seq, TRUE)

Init ==
    /\ job \in [block : Blocks, keys : Keys, n : Numbers, seq : Seqs]
    /\ plan = xexEncrypt(job.seq) \o xexDecrypt(job.seq)
    /\ round = -1
    /\ aes = <<>> /\ expanded_key = <<>> /\ delta = <<>> /\ buffer = job.block

Next ==
    \/ aesExpandKey("expand tweak key", job.keys.tweak)
    \/ aesExpandKey("expand key", job.keys.encrypt)
    \/ aesEncrypt("encrypt n", job.n)
    \/ Double
    \/ Mask(buffer)
    \/ aesEncrypt("encrypt", buffer)
    \/ aesDecrypt(buffer)
    \/ Unmask

Spec == Init /\ [][Next]_vars
-----------------------------------------------------------------------------
(* The product of a and b in GF(2^8), from the definition of the field. *)
Product(a, b) ==
    LET twice(p) == IF p >= 128 THEN (2 * p - 256) ^^ 27 ELSE 2 * p
        a1 == twice(a)  a2 == twice(a1)  a3 == twice(a2)  a4 == twice(a3)
        a5 == twice(a4)  a6 == twice(a5)  a7 == twice(a6)
        t(p, i) == IF (b \div 2^i) % 2 = 1 THEN p ELSE 0
    IN  (((t(a, 0) ^^ t(a1, 1)) ^^ (t(a2, 2) ^^ t(a3, 3)))
            ^^ ((t(a4, 4) ^^ t(a5, 5)) ^^ (t(a6, 6) ^^ t(a7, 7))))

(* s is the entry for x in the S-box of FIPS 197: undoing its affine map   *)
(* gives the inverse of x, or 0 for 0.                                     *)
Substitutes(x, s) ==
    LET bit(i) == (s \div 2^(i % 8)) % 2
        b(i) == 2^i * ((bit(i + 2) + bit(i + 5) + bit(i + 7) + 5 \div 2^i) % 2)
        inverse == b(0) + b(1) + b(2) + b(3) + b(4) + b(5) + b(6) + b(7)
    IN  IF x = 0 THEN inverse = 0 ELSE Product(x, inverse) = 1

(* A round of FIPS 197, column by column: row r of the substituted bytes   *)
(* is shifted by r columns, columns are multiplied by the matrix unless    *)
(* the round is the last, and the round key is added.                      *)
StandardRound(s, key, last) ==
    LET shifted(r, c) == Sbox(s[4 * ((c + r) % 4) + r + 1])
        matrix == <<2, 3, 1, 1>>
        term(r, c, k) == Product(shifted(k, c), matrix[((k - r) % 4) + 1])
        mixed(r, c) == ((term(r, c, 0) ^^ term(r, c, 1)) ^^ term(r, c, 2)) ^^ term(r, c, 3)
        byte(r, c) == (IF last THEN shifted(r, c) ELSE mixed(r, c)) ^^ key[4 * c + r + 1]
        column(c) == <<byte(0, c), byte(1, c), byte(2, c), byte(3, c)>>
    IN  column(0) \o column(1) \o column(2) \o column(3)

(* The key schedule of FIPS 197: a word is the one four places earlier     *)
(* plus the one before it, which is rotated, substituted and has a power   *)
(* of x added for every fourth word.                                       *)
ExpandsTo(key, expanded) ==
    LET byte(i, b) == expanded[4 * i + b]
        power(k) == IF k < 8 THEN 2^k ELSE Product(128, 2^(k - 7))
        turned(i, b) == Sbox(byte(i - 1, (b % 4) + 1)) ^^ (IF b = 1 THEN power(i \div 4 - 1) ELSE 0)
    IN  /\ SubSeq(expanded, 1, 16) = key
        /\ \A i \in 4 .. 43, b \in 1 .. 4 :
              byte(i, b) = byte(i - 4, b) ^^ (IF i % 4 = 0 THEN turned(i, b) ELSE byte(i - 1, b))

(* The states of FIPS 197 before the first round and after each. *)
RECURSIVE StandardStates(_)
StandardStates(states) ==
    LET r == Len(states)
    IN  IF r = 11 THEN states
        ELSE StandardStates(Append(states, StandardRound(states[r], RoundKey(r), r = 10)))

(* AES-128 of FIPS 197 with the present round keys. *)
StandardAes(in) == StandardStates(<<xor16Bytes(in, RoundKey(0))>>)[11]

(* The bits of a little-endian number. *)
BitsOf(bytes) == {k \in 0 .. 127 : (bytes[(k \div 8) + 1] \div 2^(k % 8)) % 2 = 1}

(* The product of a number, as its bits, and x^i in GF(2^128). *)
RECURSIVE TimesPower(_, _)
TimesPower(bits, i) ==
    IF i = 0 THEN bits
    ELSE TimesPower(SymDiff({k + 1 : k \in bits \ {127}}, IF 127 \in bits THEN {0, 1, 2, 7} ELSE {}), i - 1)

(* xexEncrypt() has made its block. *)
Encrypted == plan = xexDecrypt(job.seq) /\ Len(expanded_key) = 176

(* The tables are the S-box of FIPS 197 and its inverse, and keys are      *)
(* expanded as it says.  The mask delta is x^seq times the encrypted       *)
(* number of the data unit, and xexEncrypt() encrypts its block between    *)
(* two additions of the mask, both with AES-128 by a definition of its     *)
(* own.  xexDecrypt() gives the block back.  "A byte-oriented AES          *)
(* (Rijndael) implementation" (aes.c), "AES in XEX mode here is identical  *)
(* in operation to XTS-AES" (xex.c).                                       *)
CipherIsStandard ==
    /\ expanded_key = <<>> /\ job.seq = 1 =>
           \A x \in 0 .. 255 : Substitutes(x, Sbox(x)) /\ InvSbox(Sbox(x)) = x
    /\ Doing("encrypt n") /\ round = -1 => ExpandsTo(job.keys.tweak, expanded_key)
    /\ Doing("encrypt") /\ round = -1 => ExpandsTo(job.keys.encrypt, expanded_key)
    /\ Doing("mask") => BitsOf(delta) = TimesPower(BitsOf(StandardAes(job.n)), job.seq)
    /\ Encrypted => xor16Bytes(buffer, delta) = StandardAes(xor16Bytes(job.block, delta))
    /\ plan = <<>> => buffer = job.block
=============================================================================
