---------------------------- MODULE Compression ----------------------------
(***************************************************************************)
(* The compression functions of the hashes: sha256Block() of sha256.c,     *)
(* ripemd160Block() of ripemd160.c and sha512Block() of hmac_sha512.c,     *)
(* with their tables, a step per word of the message schedule and per      *)
(* round.  A word is a sequence of 16-bit limbs, the most significant      *)
(* first: two for uint32_t, four for uint64_t.  Hashing has the rest of    *)
(* the hash functions.                                                     *)
(***************************************************************************)
EXTENDS Integers, Sequences, SequencesExt

CONSTANTS Vectors   \* known answers: the algorithm, the blocks and the hash value

VARIABLES
    vector,     \* the known answer under test
    n,          \* blocks hashed
    h,          \* the hash value
    w,          \* the message schedule so far; for RIPEMD-160 the block
    reg,        \* the variables a, b, ... of the function; two lines of them for RIPEMD-160
    t,          \* rounds done
    stage       \* "block", "schedule", "round", "add" or "done"

vars == <<vector, n, h, w, reg, t, stage>>

Limb == 65536

(* The bits of three limbs, combined by f. *)
BitByBit(f(_, _, _), x, y, z) ==
    LET b(i) == i * f((x \div i) % 2, (y \div i) % 2, (z \div i) % 2)
    IN  b(1) + b(2) + b(4) + b(8) + b(16) + b(32) + b(64) + b(128) + b(256) + b(512)
        + b(1024) + b(2048) + b(4096) + b(8192) + b(16384) + b(32768)

Words(f(_, _, _), x, y, z) == [i \in DOMAIN x |-> BitByBit(f, x[i], y[i], z[i])]

Odd(a, b, c) == (a + b + c) % 2

Xor(x, y, z) == Words(Odd, x, y, z)

(* The sum of a sequence of words, without the last carry. *)
Plus(words) ==
    LET size == Len(words[1])
        column(i) == FoldLeft(LAMBDA sum, word : sum + word[i], 0, words)
        total[i \in 1 .. size] == column(i) + (IF i = size THEN 0 ELSE total[i + 1] \div Limb)
    IN  [i \in 1 .. size |-> total[i] % Limb]

(* Limb i of x shifted right by count; the limb before the first is        *)
(* outside(i), which tells a rotation from a shift.                        *)
ShiftedLimb(x, count, i, outside(_)) ==
    LET at(j) == IF j >= 1 THEN x[j] ELSE outside(j)
        s == 2^(count % 16)
        j == i - count \div 16
    IN  at(j) \div s + (at(j - 1) % s) * (Limb \div s)

rotateRight(x, count) ==
    [i \in DOMAIN x |-> ShiftedLimb(x, count, i, LAMBDA j : x[j + Len(x)])]

ShiftRight(x, count) == [i \in DOMAIN x |-> ShiftedLimb(x, count, i, LAMBDA j : 0)]

rol(x, count) == rotateRight(x, 32 - count)

ch(x, y, z) == Words(LAMBDA a, b, c : Odd(a * b, (1 - a) * c, 0), x, y, z)

maj(x, y, z) == Words(LAMBDA a, b, c : Odd(a * b, a * c, b * c), x, y, z)

k ==
    <<<<\h428a, \h2f98>>, <<\h7137, \h4491>>, <<\hb5c0, \hfbcf>>, <<\he9b5, \hdba5>>,
      <<\h3956, \hc25b>>, <<\h59f1, \h11f1>>, <<\h923f, \h82a4>>, <<\hab1c, \h5ed5>>,
      <<\hd807, \haa98>>, <<\h1283, \h5b01>>, <<\h2431, \h85be>>, <<\h550c, \h7dc3>>,
      <<\h72be, \h5d74>>, <<\h80de, \hb1fe>>, <<\h9bdc, \h06a7>>, <<\hc19b, \hf174>>,
      <<\he49b, \h69c1>>, <<\hefbe, \h4786>>, <<\h0fc1, \h9dc6>>, <<\h240c, \ha1cc>>,
      <<\h2de9, \h2c6f>>, <<\h4a74, \h84aa>>, <<\h5cb0, \ha9dc>>, <<\h76f9, \h88da>>,
      <<\h983e, \h5152>>, <<\ha831, \hc66d>>, <<\hb003, \h27c8>>, <<\hbf59, \h7fc7>>,
      <<\hc6e0, \h0bf3>>, <<\hd5a7, \h9147>>, <<\h06ca, \h6351>>, <<\h1429, \h2967>>,
      <<\h27b7, \h0a85>>, <<\h2e1b, \h2138>>, <<\h4d2c, \h6dfc>>, <<\h5338, \h0d13>>,
      <<\h650a, \h7354>>, <<\h766a, \h0abb>>, <<\h81c2, \hc92e>>, <<\h9272, \h2c85>>,
      <<\ha2bf, \he8a1>>, <<\ha81a, \h664b>>, <<\hc24b, \h8b70>>, <<\hc76c, \h51a3>>,
      <<\hd192, \he819>>, <<\hd699, \h0624>>, <<\hf40e, \h3585>>, <<\h106a, \ha070>>,
      <<\h19a4, \hc116>>, <<\h1e37, \h6c08>>, <<\h2748, \h774c>>, <<\h34b0, \hbcb5>>,
      <<\h391c, \h0cb3>>, <<\h4ed8, \haa4a>>, <<\h5b9c, \hca4f>>, <<\h682e, \h6ff3>>,
      <<\h748f, \h82ee>>, <<\h78a5, \h636f>>, <<\h84c8, \h7814>>, <<\h8cc7, \h0208>>,
      <<\h90be, \hfffa>>, <<\ha450, \h6ceb>>, <<\hbef9, \ha3f7>>, <<\hc671, \h78f2>>>>

bigSigma0(x) == Xor(rotateRight(x, 2), rotateRight(x, 13), rotateRight(x, 22))

bigSigma1(x) == Xor(rotateRight(x, 6), rotateRight(x, 11), rotateRight(x, 25))

(* Mutation: the shift is a rotation. *)
littleSigma0Rotated(x) == Xor(rotateRight(x, 7), rotateRight(x, 18), rotateRight(x, 3))

littleSigma0(x) == Xor(rotateRight(x, 7), rotateRight(x, 18), ShiftRight(x, 3))

littleSigma1(x) == Xor(rotateRight(x, 17), rotateRight(x, 19), ShiftRight(x, 10))

(* The same of hmac_sha512.c, on words of 64 bits. *)
k512 ==
    <<<<\h428a, \h2f98, \hd728, \hae22>>, <<\h7137, \h4491, \h23ef, \h65cd>>,
      <<\hb5c0, \hfbcf, \hec4d, \h3b2f>>, <<\he9b5, \hdba5, \h8189, \hdbbc>>,
      <<\h3956, \hc25b, \hf348, \hb538>>, <<\h59f1, \h11f1, \hb605, \hd019>>,
      <<\h923f, \h82a4, \haf19, \h4f9b>>, <<\hab1c, \h5ed5, \hda6d, \h8118>>,
      <<\hd807, \haa98, \ha303, \h0242>>, <<\h1283, \h5b01, \h4570, \h6fbe>>,
      <<\h2431, \h85be, \h4ee4, \hb28c>>, <<\h550c, \h7dc3, \hd5ff, \hb4e2>>,
      <<\h72be, \h5d74, \hf27b, \h896f>>, <<\h80de, \hb1fe, \h3b16, \h96b1>>,
      <<\h9bdc, \h06a7, \h25c7, \h1235>>, <<\hc19b, \hf174, \hcf69, \h2694>>,
      <<\he49b, \h69c1, \h9ef1, \h4ad2>>, <<\hefbe, \h4786, \h384f, \h25e3>>,
      <<\h0fc1, \h9dc6, \h8b8c, \hd5b5>>, <<\h240c, \ha1cc, \h77ac, \h9c65>>,
      <<\h2de9, \h2c6f, \h592b, \h0275>>, <<\h4a74, \h84aa, \h6ea6, \he483>>,
      <<\h5cb0, \ha9dc, \hbd41, \hfbd4>>, <<\h76f9, \h88da, \h8311, \h53b5>>,
      <<\h983e, \h5152, \hee66, \hdfab>>, <<\ha831, \hc66d, \h2db4, \h3210>>,
      <<\hb003, \h27c8, \h98fb, \h213f>>, <<\hbf59, \h7fc7, \hbeef, \h0ee4>>,
      <<\hc6e0, \h0bf3, \h3da8, \h8fc2>>, <<\hd5a7, \h9147, \h930a, \ha725>>,
      <<\h06ca, \h6351, \he003, \h826f>>, <<\h1429, \h2967, \h0a0e, \h6e70>>,
      <<\h27b7, \h0a85, \h46d2, \h2ffc>>, <<\h2e1b, \h2138, \h5c26, \hc926>>,
      <<\h4d2c, \h6dfc, \h5ac4, \h2aed>>, <<\h5338, \h0d13, \h9d95, \hb3df>>,
      <<\h650a, \h7354, \h8baf, \h63de>>, <<\h766a, \h0abb, \h3c77, \hb2a8>>,
      <<\h81c2, \hc92e, \h47ed, \haee6>>, <<\h9272, \h2c85, \h1482, \h353b>>,
      <<\ha2bf, \he8a1, \h4cf1, \h0364>>, <<\ha81a, \h664b, \hbc42, \h3001>>,
      <<\hc24b, \h8b70, \hd0f8, \h9791>>, <<\hc76c, \h51a3, \h0654, \hbe30>>,
      <<\hd192, \he819, \hd6ef, \h5218>>, <<\hd699, \h0624, \h5565, \ha910>>,
      <<\hf40e, \h3585, \h5771, \h202a>>, <<\h106a, \ha070, \h32bb, \hd1b8>>,
      <<\h19a4, \hc116, \hb8d2, \hd0c8>>, <<\h1e37, \h6c08, \h5141, \hab53>>,
      <<\h2748, \h774c, \hdf8e, \heb99>>, <<\h34b0, \hbcb5, \he19b, \h48a8>>,
      <<\h391c, \h0cb3, \hc5c9, \h5a63>>, <<\h4ed8, \haa4a, \he341, \h8acb>>,
      <<\h5b9c, \hca4f, \h7763, \he373>>, <<\h682e, \h6ff3, \hd6b2, \hb8a3>>,
      <<\h748f, \h82ee, \h5def, \hb2fc>>, <<\h78a5, \h636f, \h4317, \h2f60>>,
      <<\h84c8, \h7814, \ha1f0, \hab72>>, <<\h8cc7, \h0208, \h1a64, \h39ec>>,
      <<\h90be, \hfffa, \h2363, \h1e28>>, <<\ha450, \h6ceb, \hde82, \hbde9>>,
      <<\hbef9, \ha3f7, \hb2c6, \h7915>>, <<\hc671, \h78f2, \he372, \h532b>>,
      <<\hca27, \h3ece, \hea26, \h619c>>, <<\hd186, \hb8c7, \h21c0, \hc207>>,
      <<\heada, \h7dd6, \hcde0, \heb1e>>, <<\hf57d, \h4f7f, \hee6e, \hd178>>,
      <<\h06f0, \h67aa, \h7217, \h6fba>>, <<\h0a63, \h7dc5, \ha2c8, \h98a6>>,
      <<\h113f, \h9804, \hbef9, \h0dae>>, <<\h1b71, \h0b35, \h131c, \h471b>>,
      <<\h28db, \h77f5, \h2304, \h7d84>>, <<\h32ca, \hab7b, \h40c7, \h2493>>,
      <<\h3c9e, \hbe0a, \h15c9, \hbebc>>, <<\h431d, \h67c4, \h9c10, \h0d4c>>,
      <<\h4cc5, \hd4be, \hcb3e, \h42b6>>, <<\h597f, \h299c, \hfc65, \h7e2a>>,
      <<\h5fcb, \h6fab, \h3ad6, \hfaec>>, <<\h6c44, \h198c, \h4a47, \h5817>>>>

bigSigma0Long(x) == Xor(rotateRight(x, 28), rotateRight(x, 34), rotateRight(x, 39))

bigSigma1Long(x) == Xor(rotateRight(x, 14), rotateRight(x, 18), rotateRight(x, 41))

littleSigma0Long(x) == Xor(rotateRight(x, 1), rotateRight(x, 8), ShiftRight(x, 7))

littleSigma1Long(x) == Xor(rotateRight(x, 19), rotateRight(x, 61), ShiftRight(x, 6))

(* Of ripemd160.c: message words and rotations of both lines. *)
r1 ==
    <<0, 1, 2, 3, 4, 5, 6, 7, 8, 9, 10, 11, 12, 13, 14, 15,
      7, 4, 13, 1, 10, 6, 15, 3, 12, 0, 9, 5, 2, 14, 11, 8,
      3, 10, 14, 4, 9, 15, 8, 1, 2, 7, 0, 6, 13, 11, 5, 12,
      1, 9, 11, 10, 0, 8, 12, 4, 13, 3, 7, 15, 14, 5, 6, 2,
      4, 0, 5, 9, 7, 12, 2, 10, 14, 1, 3, 8, 11, 6, 15, 13>>

r2 ==
    <<5, 14, 7, 0, 9, 2, 11, 4, 13, 6, 15, 8, 1, 10, 3, 12,
      6, 11, 3, 7, 0, 13, 5, 10, 14, 15, 8, 12, 4, 9, 1, 2,
      15, 5, 1, 3, 7, 14, 6, 9, 11, 8, 12, 2, 10, 0, 4, 13,
      8, 6, 4, 1, 3, 11, 15, 0, 5, 12, 2, 13, 9, 7, 10, 14,
      12, 15, 10, 4, 1, 5, 8, 7, 6, 2, 13, 14, 0, 3, 9, 11>>

s1 ==
    <<11, 14, 15, 12, 5, 8, 7, 9, 11, 13, 14, 15, 6, 7, 9, 8,
      7, 6, 8, 13, 11, 9, 7, 15, 7, 12, 15, 9, 11, 7, 13, 12,
      11, 13, 6, 7, 14, 9, 13, 15, 14, 8, 13, 6, 5, 12, 7, 5,
      11, 12, 14, 15, 14, 15, 9, 8, 9, 14, 5, 6, 8, 6, 5, 12,
      9, 15, 5, 11, 6, 8, 13, 12, 5, 12, 13, 14, 11, 8, 5, 6>>

s2 ==
    <<8, 9, 9, 11, 13, 15, 15, 5, 7, 7, 8, 11, 14, 14, 12, 6,
      9, 13, 15, 7, 12, 8, 9, 11, 7, 7, 12, 7, 6, 15, 13, 11,
      9, 7, 15, 11, 8, 6, 6, 14, 12, 13, 5, 14, 13, 13, 7, 5,
      15, 5, 8, 11, 14, 14, 6, 14, 6, 9, 12, 9, 12, 5, 15, 8,
      8, 5, 12, 9, 12, 5, 14, 6, 8, 13, 6, 5, 15, 13, 11, 11>>

f0(x, y, z) == Xor(x, y, z)

f1(x, y, z) == Words(LAMBDA a, b, c : IF a = 1 THEN b ELSE c, x, y, z)

f2(x, y, z) == Words(LAMBDA a, b, c : Odd(IF a = 1 \/ b = 0 THEN 1 ELSE 0, c, 0), x, y, z)

f3(x, y, z) == Words(LAMBDA a, b, c : IF c = 1 THEN a ELSE b, x, y, z)

f4(x, y, z) == Words(LAMBDA a, b, c : Odd(a, IF b = 1 \/ c = 0 THEN 1 ELSE 0, 0), x, y, z)

K1 ==
    <<<<\h0000, \h0000>>, <<\h5a82, \h7999>>, <<\h6ed9, \heba1>>, <<\h8f1b, \hbcdc>>, <<\ha953, \hfd4e>>>>

K2 ==
    <<<<\h50a2, \h8be6>>, <<\h5c4d, \hd124>>, <<\h6d70, \h3ef3>>, <<\h7a6d, \h76e9>>, <<\h0000, \h0000>>>>

F(selector, x, y, z) ==
    CASE selector = 0 -> f0(x, y, z) [] selector = 1 -> f1(x, y, z) [] selector = 2 -> f2(x, y, z)
      [] selector = 3 -> f3(x, y, z) [] selector = 4 -> f4(x, y, z)
-----------------------------------------------------------------------------
(* The values of h that sha256Begin(), ripemd160Begin() and sha512Begin()  *)
(* set.                                                                    *)
sha256Begin ==
    <<<<\h6a09, \he667>>, <<\hbb67, \hae85>>, <<\h3c6e, \hf372>>, <<\ha54f, \hf53a>>,
      <<\h510e, \h527f>>, <<\h9b05, \h688c>>, <<\h1f83, \hd9ab>>, <<\h5be0, \hcd19>>>>

ripemd160Begin ==
    <<<<\h6745, \h2301>>, <<\hefcd, \hab89>>, <<\h98ba, \hdcfe>>, <<\h1032, \h5476>>, <<\hc3d2, \he1f0>>>>

sha512Begin ==
    <<<<\h6a09, \he667, \hf3bc, \hc908>>, <<\hbb67, \hae85, \h84ca, \ha73b>>,
      <<\h3c6e, \hf372, \hfe94, \hf82b>>, <<\ha54f, \hf53a, \h5f1d, \h36f1>>,
      <<\h510e, \h527f, \hade6, \h82d1>>, <<\h9b05, \h688c, \h2b3e, \h6c1f>>,
      <<\h1f83, \hd9ab, \hfb41, \hbd6b>>, <<\h5be0, \hcd19, \h137e, \h2179>>>>

Begin(algorithm) ==
    CASE algorithm = "SHA-256" -> sha256Begin
      [] algorithm = "RIPEMD-160" -> ripemd160Begin
      [] algorithm = "SHA-512" -> sha512Begin

Init ==
    /\ vector \in Vectors
    /\ n = 0 /\ h = Begin(vector.algorithm)
    /\ w = <<>> /\ reg = <<>> /\ t = 0 /\ stage = "block"

Is(algorithm, where) == vector.algorithm = algorithm /\ stage = where

(* hashBlock() is called with a full message buffer: m becomes the start   *)
(* of the schedule, h the start of the variables.                          *)
hashBlock ==
    /\ stage = "block"
    /\ w' = vector.blocks[n + 1]
    /\ reg' = IF vector.algorithm = "RIPEMD-160" THEN <<h, h>> ELSE h
    /\ t' = 0
    /\ stage' = IF vector.algorithm = "RIPEMD-160" THEN "round" ELSE "schedule"
    /\ UNCHANGED <<vector, n, h>>

(* The word of the schedule that many places before the next one. *)
Before(count) == w[Len(w) + 1 - count]

(* The loop that extends the schedule to "rounds" words, with the small    *)
(* sigmas of two words before the next one.                                *)
Schedule(sigma0, sigma1, rounds) ==
    /\ w' = Append(w, Plus(<<sigma1, Before(7), sigma0, Before(16)>>))
    /\ stage' = IF Len(w) + 1 = rounds THEN "round" ELSE "schedule"
    /\ UNCHANGED <<vector, n, h, reg, t>>

(* The variables after one round, which adds the constant key and the big  *)
(* sigmas of two of the variables.                                         *)
Turned(sigma0, sigma1, key) ==
    LET t1 == Plus(<<reg[8], sigma1, ch(reg[5], reg[6], reg[7]), key, w[t + 1]>>)
        t2 == Plus(<<sigma0, maj(reg[1], reg[2], reg[3])>>)
    IN  <<Plus(<<t1, t2>>), reg[1], reg[2], reg[3], Plus(<<reg[4], t1>>), reg[5], reg[6], reg[7]>>

Round(next, rounds) ==
    /\ reg' = next
    /\ t' = t + 1
    /\ stage' = IF t + 1 = rounds THEN "add" ELSE "round"
    /\ UNCHANGED <<vector, n, h, w>>

sha256Block ==
    \/ Is("SHA-256", "schedule") /\ Schedule(littleSigma0(Before(15)), littleSigma1(Before(2)), 64)
    \/ Is("SHA-256", "round") /\ Round(Turned(bigSigma0(reg[1]), bigSigma1(reg[5]), k[t + 1]), 64)

sha512Block ==
    \/ Is("SHA-512", "schedule") /\ Schedule(littleSigma0Long(Before(15)), littleSigma1Long(Before(2)), 80)
    \/ Is("SHA-512", "round") /\ Round(Turned(bigSigma0Long(reg[1]), bigSigma1Long(reg[5]), k512[t + 1]), 80)

(* One line of a round of RIPEMD-160. *)
LineTurned(line, selector, word, key, rotation) ==
    LET T == Plus(<<rol(Plus(<<line[1], F(selector, line[2], line[3], line[4]), word, key>>), rotation),
                    line[5]>>)
    IN  <<line[5], T, line[2], rol(line[3], 10), line[4]>>

ripemd160Block ==
    /\ Is("RIPEMD-160", "round")
    /\ LET selector == t \div 16
           j == t + 1
       IN  Round(<<LineTurned(reg[1], selector, w[r1[j] + 1], K1[selector + 1], s1[j]),
                   LineTurned(reg[2], 4 - selector, w[r2[j] + 1], K2[selector + 1], s2[j])>>, 80)

(* Mutation: the two lines are combined without turning h. *)
CombineStraight == [i \in 1 .. 5 |-> Plus(<<h[i], reg[1][i], reg[2][i]>>)]

(* The end of ripemd160Block(): the lines are combined with h, turned. *)
Combine ==
    LET at(i) == (i % 5) + 1
    IN  [i \in 1 .. 5 |-> Plus(<<h[at(i)], reg[1][at(i + 1)], reg[2][at(i + 2)]>>)]

(* The end of the block functions, and what calls them next. *)
AddBlock ==
    /\ stage = "add"
    /\ h' = IF vector.algorithm = "RIPEMD-160" THEN Combine
            ELSE [i \in 1 .. 8 |-> Plus(<<h[i], reg[i]>>)]
    /\ n' = n + 1
    /\ stage' = IF n + 1 = Len(vector.blocks) THEN "done" ELSE "block"
    /\ w' = <<>> /\ reg' = <<>> /\ t' = 0
    /\ UNCHANGED vector

Next == hashBlock \/ sha256Block \/ sha512Block \/ ripemd160Block \/ AddBlock

Spec == Init /\ [][Next]_vars
-----------------------------------------------------------------------------
(* The block functions compute the known answers: the published hash       *)
(* values of messages of one block and of two.                             *)
BlocksAreStandard == stage = "done" => h = vector.hash
=============================================================================
