------------------------------ MODULE Hashing ------------------------------
(***************************************************************************)
(* The message buffer, the padding and the output of the hash functions:   *)
(* hash.c (used by sha256.c and ripemd160.c) and the SHA-512 of            *)
(* hmac_sha512.c, at their real sizes.  The mixing of a block is ideal: a  *)
(* hash value stands for the sequence of blocks it was made from           *)
(* (Compression models it).                                                *)
(*                                                                         *)
(* A word is the sequence of its bytes, most significant first.  A byte of *)
(* a hash value is 1000 + its number in the value, counted from the most   *)
(* significant byte of h[0]; such a byte is different from all others.     *)
(***************************************************************************)
EXTENDS Integers, Sequences, SequencesExt

CONSTANTS Lengths       \* lengths of the messages, far below the 2^29 bytes that overflow length_bits

VARIABLES
    hs,         \* the HashState, or the HashState64
    message,    \* history: the bytes written since "Begin"
    stage,      \* "write", "pad", "length", "again" or "done"
    todo,       \* bytes that a loop of the current stage has still to write
    order,      \* how the hash value is asked for
    digest,     \* the byte array that receives the hash value
    first       \* history: the blocks of the first hash of a double one

vars == <<hs, message, stage, todo, order, digest, first>>

(* What the words of a message buffer hold when a byte is or-ed onto       *)
(* another one.                                                            *)
Garbled == 9999

(* clearM(), of hash.c and of hmac_sha512.c. *)
clearM(s) ==
    [s EXCEPT !.index_m = 0, !.byte_position_m = 0,
              !.m = [i \in 1 .. 16 |-> [b \in 1 .. s.width |-> 0]]]

Begin(algorithm, width, big) ==
    clearM([algorithm |-> algorithm, width |-> width, is_big_endian |-> big,
            blocks |-> <<>>, swapped |-> FALSE, message_length |-> 0,
            index_m |-> 0, byte_position_m |-> 0, m |-> <<>>])

sha256Begin == Begin("SHA-256", 4, TRUE)

ripemd160Begin == Begin("RIPEMD-160", 4, FALSE)

sha512Begin == Begin("SHA-512", 8, TRUE)

(* The call of the compression function, ideal: the value h remembers      *)
(* every block.  Compression models the functions themselves.              *)
hashBlock(s) == [s EXCEPT !.blocks = Append(@, s.m)]

(* A byte is or-ed into its place of the current word. *)
Placed(s, byte) ==
    LET pos == IF s.is_big_endian THEN s.byte_position_m ELSE s.width - 1 - s.byte_position_m
    IN  [s EXCEPT !.message_length = @ + 1,
                  !.m[s.index_m + 1][pos + 1] = IF @ = 0 THEN byte ELSE IF byte = 0 THEN @ ELSE Garbled,
                  !.index_m = IF s.byte_position_m = s.width - 1 THEN @ + 1 ELSE @,
                  !.byte_position_m = (@ + 1) % s.width]

(* Mutation: the buffer is not cleared after a block. *)
WriteUncleared(s, byte) ==
    LET t == Placed(s, byte)
    IN  IF t.index_m = 16 THEN [hashBlock(t) EXCEPT !.index_m = 0] ELSE t

hashWriteByte(s, byte) ==
    LET t == Placed(s, byte)
    IN  IF t.index_m = 16 THEN clearM(hashBlock(t)) ELSE t

(* sha512WriteByte() is the same on words of eight bytes. *)
sha512WriteByte(s, byte) ==
    LET t == Placed(s, byte)
    IN  IF t.index_m = 16 THEN clearM(hashBlock(t)) ELSE t

WriteByte(s, byte) ==
    IF s.algorithm = "SHA-512" THEN sha512WriteByte(s, byte) ELSE hashWriteByte(s, byte)

writeU32BigEndian(n) == <<n \div 2^24, (n \div 2^16) % 256, (n \div 2^8) % 256, n % 256>>

writeU32LittleEndian(n) == <<n % 256, (n \div 2^8) % 256, (n \div 2^16) % 256, n \div 2^24>>

Zeros(n) == [i \in 1 .. n |-> 0]

(* Word i of the hash value, after swapEndian() if it was called. *)
HashWord(s, i) ==
    LET word == [b \in 1 .. s.width |-> 1000 + s.width * i + b - 1]
    IN  IF s.swapped THEN Reverse(word) ELSE word

writeHashToByteArray(s, do_write_big_endian) ==
    FlattenSeq([i \in 1 .. 8 |->
        IF do_write_big_endian THEN HashWord(s, i - 1) ELSE Reverse(HashWord(s, 8 - i))])
-----------------------------------------------------------------------------
(* The bytes of the messages: no two near each other are the same. *)
MessageByte(i) == 1 + (i % 251)

Orders == [double : BOOLEAN, big : BOOLEAN]

Init ==
    /\ hs \in {sha256Begin, ripemd160Begin, sha512Begin}
    /\ message = <<>> /\ stage = "write" /\ todo = <<>>
    /\ order = [double |-> FALSE, big |-> TRUE] /\ digest = <<>> /\ first = <<>>

(* The caller writes a byte: sha256WriteByte(), ripemd160WriteByte() or    *)
(* sha512WriteByte().                                                      *)
Write ==
    /\ stage = "write"
    /\ \E n \in Lengths : Len(message) < n
    /\ LET byte == MessageByte(Len(message))
       IN  hs' = WriteByte(hs, byte) /\ message' = Append(message, byte)
    /\ UNCHANGED <<stage, todo, order, digest, first>>

(* Mutation: the length is that of the message with its one bit. *)
LengthLate(s) ==
    LET bits == (s.message_length + 1) * 8
    IN  IF s.is_big_endian THEN Zeros(4) \o writeU32BigEndian(bits)
                           ELSE writeU32LittleEndian(bits) \o Zeros(4)

(* The length field of hashFinish(), made before the padding is written. *)
LengthField(s) ==
    LET bits == s.message_length * 8
    IN  IF s.is_big_endian THEN Zeros(4) \o writeU32BigEndian(bits)
                           ELSE writeU32LittleEndian(bits) \o Zeros(4)

(* Mutation: the length goes to the first half of its field. *)
LengthFirst512(s) == Zeros(4) \o writeU32BigEndian(s.message_length * 8) \o Zeros(8)

(* The length field of sha512Finish(). *)
LengthField512(s) == Zeros(12) \o writeU32BigEndian(s.message_length * 8)

(* hashFinish() or sha512Finish() begins. *)
BeginFinish ==
    /\ hs' = WriteByte(hs, 128)
    /\ todo' = IF hs.algorithm = "SHA-512" THEN LengthField512(hs) ELSE LengthField(hs)
    /\ stage' = "pad"

(* The caller asks for the hash value: sha256Finish(), ripemd160Finish(),  *)
(* sha512Finish() or sha256FinishDouble().                                 *)
Finish(o) ==
    /\ stage = "write" /\ Len(message) \in Lengths
    /\ o.double => hs.algorithm = "SHA-256"
    /\ hs.algorithm = "SHA-512" => o.big
    /\ BeginFinish
    /\ order' = o
    /\ UNCHANGED <<message, digest, first>>

(* The loop that pads to two words below a block. *)
Pad ==
    /\ stage = "pad"
    /\ IF hs.index_m # 14 \/ hs.byte_position_m # 0
         THEN hs' = WriteByte(hs, 0) /\ UNCHANGED stage
         ELSE stage' = "length" /\ UNCHANGED hs
    /\ UNCHANGED <<message, todo, order, digest, first>>

(* The loop that writes the length field. *)
WriteLength ==
    /\ stage = "length" /\ todo # <<>>
    /\ hs' = WriteByte(hs, Head(todo)) /\ todo' = Tail(todo)
    /\ UNCHANGED <<message, stage, order, digest, first>>

(* swapEndian() and the output.  sha256FinishDouble() begins a second hash *)
(* with it, big-endian.                                                    *)
Output ==
    /\ stage = "length" /\ todo = <<>>
    /\ LET s == [hs EXCEPT !.swapped = ~hs.is_big_endian]
           again == order.double /\ first = <<>>
       IN  /\ digest' = writeHashToByteArray(s, IF again THEN TRUE ELSE order.big)
           /\ first' = IF again THEN s.blocks ELSE first
           /\ hs' = IF again THEN sha256Begin ELSE s
           /\ todo' = IF again THEN digest' ELSE <<>>
           /\ stage' = IF again THEN "again" ELSE "done"
    /\ UNCHANGED <<message, order>>

(* The loop of sha256FinishDouble() over the first hash value. *)
sha256FinishDouble ==
    /\ stage = "again"
    /\ IF todo # <<>>
         THEN hs' = WriteByte(hs, Head(todo)) /\ todo' = Tail(todo) /\ UNCHANGED stage
         ELSE BeginFinish
    /\ UNCHANGED <<message, order, digest, first>>

Next ==
    \/ Write
    \/ \E o \in Orders : Finish(o)
    \/ Pad
    \/ WriteLength
    \/ Output
    \/ sha256FinishDouble

Spec == Init /\ [][Next]_vars
-----------------------------------------------------------------------------
(* The padded message of FIPS 180 and of RIPEMD-160: a one bit, as few     *)
(* zeros as fill whole blocks, and the length in bits in two words.        *)
PaddedMessage(s, bytes) ==
    LET size == 16 * s.width
        zeros == (14 * s.width - Len(bytes) - 1) % size
        bits == writeU32BigEndian(8 * Len(bytes))
        field == Zeros(2 * s.width - 4) \o bits
    IN  bytes \o <<128>> \o Zeros(zeros) \o
        (IF s.algorithm = "RIPEMD-160" THEN Reverse(field) ELSE field)

(* The words of the blocks of a padded message. *)
Blocks(s, bytes) ==
    [n \in 1 .. Len(bytes) \div (16 * s.width) |->
        [i \in 1 .. 16 |->
            LET at == (n - 1) * 16 * s.width + (i - 1) * s.width
                word == SubSeq(bytes, at + 1, at + s.width)
            IN  IF s.algorithm = "RIPEMD-160" THEN Reverse(word) ELSE word]]

(* A hash value of n bytes in the order of its standard. *)
Standard(s, n) ==
    [j \in 1 .. n |->
        IF s.algorithm = "RIPEMD-160" THEN 1000 + 4 * ((j - 1) \div 4) + 3 - ((j - 1) % 4)
                                      ELSE 1000 + j - 1]

(* Whatever its length, a message is hashed in the blocks its standard     *)
(* says, nothing of one block is left in the next, and the hash value      *)
(* comes out in the order of the standard, or wholly reversed for the      *)
(* little-endian numbers that ecdsaSign() takes.                           *)
HashIsStandard ==
    stage = "done" =>
        LET n == IF hs.algorithm = "RIPEMD-160" THEN 20 ELSE 8 * hs.width
            once == Blocks(hs, PaddedMessage(hs, message))
        IN  /\ IF order.double
                 THEN first = once /\ hs.blocks = Blocks(hs, PaddedMessage(hs, Standard(hs, 32)))
                 ELSE hs.blocks = once
            /\ order.big => SubSeq(digest, 1, n) = Standard(hs, n)
            /\ ~order.big /\ n = 32 => digest = Reverse(Standard(hs, n))
=============================================================================
