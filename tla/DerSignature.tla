--------------------------- MODULE DerSignature ---------------------------
(***************************************************************************)
(* encapsulateSignature() of transaction.c: the DER encoding of r and s in *)
(* one buffer, from which leading zeroes are removed in place.  A number   *)
(* has Size bytes (32 in the program), and a byte has W bits.              *)
(***************************************************************************)
EXTENDS Integers, Sequences, SequencesExt

CONSTANTS
    Size,       \* bytes in r and in s
    W           \* bits in a byte of r or s

VARIABLES
    phase,              \* "idle", "s" and "r" (the loops), "header", "done"
    r, s,               \* the numbers to encode
    signature,          \* the buffer, indexed from 0
    sequence_length

vars == <<phase, r, s, signature, sequence_length>>

(* R_OFFSET, S_OFFSET and the index of the hash type, which is the last.   *)
R_OFFSET == 4

S_OFFSET == R_OFFSET + Size + 1 + 2

EndIndex == S_OFFSET + Size + 1

Byte == 0..2^W - 1

(* Tags of DER, and the hash type. *)
INTEGER == 2

SEQUENCE == 48

HASHTYPE == 1

Empty == [i \in 0..EndIndex |-> 0]

Zeroes == [i \in 1..Size |-> 0]

Init ==
    /\ phase = "idle" /\ r = Zeroes /\ s = Zeroes
    /\ signature = Empty /\ sequence_length = 0

(* The buffer before anything is removed: both numbers big-endian, each    *)
(* behind a zero byte.  r and s have their least significant byte first.   *)
Unpruned(rr, ss) ==
    [i \in 0..EndIndex |->
        CASE i \in {R_OFFSET - 2, S_OFFSET - 2} -> INTEGER
          [] i \in {R_OFFSET - 1, S_OFFSET - 1} -> Size + 1
          [] i \in R_OFFSET + 1..R_OFFSET + Size -> rr[Size + 1 - (i - R_OFFSET)]
          [] i \in S_OFFSET + 1..S_OFFSET + Size -> ss[Size + 1 - (i - S_OFFSET)]
          [] i = EndIndex -> HASHTYPE
          [] OTHER -> 0]

encapsulateSignature(rr, ss) ==
    /\ phase = "idle"
    /\ phase' = "s"
    /\ r' = rr /\ s' = ss
    /\ signature' = Unpruned(rr, ss)
    /\ sequence_length' = 2 * (Size + 3)

(* Mutation: zeroes are removed without a look at the sign bit. *)
AnyLeadingZero(offset) == signature[offset] = 0

(* A leading zero that is not needed to keep the number positive. *)
LeadingZero(offset) ==
    /\ signature[offset] = 0
    /\ signature[offset + 1] < 2^(W - 1)

(* One round of the loop that removes the leading zeroes of the number at  *)
(* "offset".  The loop ends when one byte is left.                         *)
Prune(p, offset, nextPhase) ==
    /\ phase = p
    /\ IF LeadingZero(offset)
       THEN LET length == signature[offset - 1] - 1
            IN  /\ signature' = [i \in 0..EndIndex |->
                       IF i = offset - 1 THEN length
                       ELSE IF i \in offset..EndIndex - 1 THEN signature[i + 1]
                       ELSE signature[i]]
                /\ sequence_length' = sequence_length - 1
                /\ phase' = IF length = 1 THEN nextPhase ELSE p
       ELSE /\ phase' = nextPhase
            /\ UNCHANGED <<signature, sequence_length>>
    /\ UNCHANGED <<r, s>>

PruneS == Prune("s", S_OFFSET, "r")

PruneR == Prune("r", R_OFFSET, "header")

Header ==
    /\ phase = "header"
    /\ phase' = "done"
    /\ signature' = [signature EXCEPT ![0] = SEQUENCE, ![1] = sequence_length]
    /\ UNCHANGED <<r, s, sequence_length>>

(* The caller sends the signature and forgets it. *)
Return ==
    /\ phase = "done"
    /\ phase' = "idle" /\ r' = Zeroes /\ s' = Zeroes
    /\ signature' = Empty /\ sequence_length' = 0

Next ==
    \/ \E rr \in [1..Size -> Byte], ss \in [1..Size -> Byte] : encapsulateSignature(rr, ss)
    \/ PruneS
    \/ PruneR
    \/ Header
    \/ Return

Spec == Init /\ [][Next]_vars
-----------------------------------------------------------------------------
(* A DER reader: the value of a non-negative integer in its shortest form. *)
Contents(at) == SubSeq([i \in 1..EndIndex |-> signature[i]], at + 1, at + signature[at])

Shortest(c) ==
    /\ c # <<>> /\ \A i \in DOMAIN c : c[i] \in Byte
    /\ c[1] < 2^(W - 1)
    /\ Len(c) > 1 /\ c[1] = 0 => c[2] >= 2^(W - 1)

Value(c) == FoldLeft(LAMBDA v, d : v * 2^W + d, 0, c)

(* The finished buffer reads as a DER sequence of the integers r and s in  *)
(* their shortest form, followed by the hash type as the last of the bytes *)
(* that are sent: each removal moves the rest of the buffer, and the       *)
(* lengths that earlier removals changed still describe it.                *)
DerReadsBack ==
    phase = "done" =>
        LET rAt == 3
            sTag == rAt + signature[rAt] + 1
            end == sTag + 1 + signature[sTag + 1]
        IN  /\ signature[0] = SEQUENCE /\ signature[2] = INTEGER
            /\ signature[sTag] = INTEGER
            /\ Shortest(Contents(rAt)) /\ Value(Contents(rAt)) = Value(Reverse(r))
            /\ Shortest(Contents(sTag + 1)) /\ Value(Contents(sTag + 1)) = Value(Reverse(s))
            /\ signature[1] = end - 1 /\ sequence_length = end - 1
            /\ signature[end + 1] = HASHTYPE
=============================================================================
