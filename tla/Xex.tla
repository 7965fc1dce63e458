-------------------------------- MODULE Xex --------------------------------
(***************************************************************************)
(* Encrypted access to non-volatile memory in xex.c, block by block, over  *)
(* memory operations that may fail.  The cipher is ideal: a block reads    *)
(* back with the key and the number it was encrypted with, and is junk     *)
(* with any other.  (Module Aes has the cipher itself.)                    *)
(***************************************************************************)
EXTENDS Integers, Sequences

CONSTANTS
    Block,      \* bytes in a block: 16
    NumBlocks,  \* blocks in the partition
    Top,        \* addresses are computed modulo this: 2^32
    EncKeys,    \* combined keys; the key of zeros is 0
    MaxLength,  \* longest access
    MaxAccesses \* bound on accesses

VARIABLES
    nv,         \* the partition: for each block its key, its number and its plaintext
    key,        \* nv_storage_encrypt_key and nv_storage_tweak_key
    access,     \* the access in progress, or the last one
    got,        \* bytes that a read has put into "data"
    seen,       \* history: the plaintext under "key" when the access began
    accesses

vars == <<nv, key, access, got, seen, accesses>>

Junk == 0

(* xexEncrypt() and xexDecrypt(), for the second tweak parameter 1. *)
xexEncrypt(k, n, text) == [key |-> k, n |-> n, text |-> text]

xexDecrypt(k, n, c) == IF c.key = k /\ c.n = n THEN c.text ELSE [i \in 1 .. Block |-> Junk]

(* The partition as it reads under a key. *)
View(k) ==
    [a \in 0 .. NumBlocks * Block - 1 |->
        xexDecrypt(k, (a \div Block) * Block, nv[a \div Block])[(a % Block) + 1]]

(* Byte i of the data of access number c. *)
DataByte(c, i) == 100 * c + i + 1

(* An address rounded down to a block. *)
Start(a) == (a \div Block) * Block

NoAccess == [kind |-> "none", address |-> 0, length |-> 0, left |-> 0, block_start |-> 0,
             block_offset |-> 0, block_end |-> 0]

Init ==
    /\ nv = [b \in 0 .. NumBlocks - 1 |->
                [key |-> -1, n |-> 0, text |-> [i \in 1 .. Block |-> Junk]]]
    /\ key = 0 /\ access = NoAccess /\ got = <<>> /\ accesses = 0
    /\ seen = [a \in 0 .. NumBlocks * Block - 1 |-> Junk]

Resting == access.kind \in {"none", "wrote", "read", "failed"}

setEncryptionKey(k) ==
    /\ Resting /\ k # key
    /\ key' = k
    /\ access' = NoAccess /\ got' = <<>>
    /\ UNCHANGED <<nv, seen, accesses>>

clearEncryptionKey ==
    /\ Resting /\ key # 0
    /\ key' = 0
    /\ access' = NoAccess /\ got' = <<>>
    /\ UNCHANGED <<nv, seen, accesses>>

(* encryptedNonVolatileWrite() or encryptedNonVolatileRead() begins.  A    *)
(* length of 0 at address 0 makes block_end the last block of all: the     *)
(* loop then goes on until an address is refused.                          *)
Begin(kind, address, length) ==
    /\ Resting /\ accesses < MaxAccesses
    /\ accesses' = accesses + 1
    /\ seen' = View(key) /\ got' = <<>>
    /\ access' = IF (address + length) % Top < address
                   THEN [NoAccess EXCEPT !.kind = "failed"]
                   ELSE [kind |-> kind, address |-> address, length |-> length, left |-> length,
                         block_start |-> Start(address), block_offset |-> address % Block,
                         block_end |-> Start((address + length - 1) % Top)]
    /\ UNCHANGED <<nv, key>>

(* How many bytes of the current block the access is about. *)
Portion ==
    IF access.left < Block - access.block_offset THEN access.left ELSE Block - access.block_offset

(* Mutation: the bytes that the access is not about are not kept. *)
MergeFresh(plaintext) ==
    [i \in 1 .. Block |->
        LET o == i - 1 - access.block_offset
        IN  IF o \in 0 .. Portion - 1 THEN DataByte(accesses, access.length - access.left + o) ELSE Junk]

(* The plaintext of the block with the new bytes in their places. *)
Merge(plaintext) ==
    [i \in 1 .. Block |->
        LET o == i - 1 - access.block_offset
        IN  IF o \in 0 .. Portion - 1
              THEN DataByte(accesses, access.length - access.left + o) ELSE plaintext[i]]

(* Mutation: only the first block is entered at an offset, but the offset  *)
(* is kept.                                                                *)
KeepOffset ==
    [access EXCEPT !.left = @ - Portion, !.block_start = @ + Block]

NextBlock == [access EXCEPT !.left = @ - Portion, !.block_offset = 0, !.block_start = @ + Block]

Plaintext ==
    xexDecrypt(key, access.block_start, nv[access.block_start \div Block])

InPartition == access.block_start \div Block < NumBlocks

(* One round of the loop of encryptedNonVolatileWrite(). *)
WriteBlock ==
    /\ access.kind = "write" /\ access.block_start <= access.block_end /\ InPartition
    /\ nv' = [nv EXCEPT ![access.block_start \div Block] =
                 xexEncrypt(key, access.block_start, Merge(Plaintext))]
    /\ access' = NextBlock
    /\ UNCHANGED <<key, got, seen, accesses>>

ReadBlock ==
    /\ access.kind = "reading" /\ access.block_start <= access.block_end /\ InPartition
    /\ got' = got \o SubSeq(Plaintext, access.block_offset + 1, access.block_offset + Portion)
    /\ access' = NextBlock
    /\ UNCHANGED <<nv, key, seen, accesses>>

Return ==
    /\ ~Resting /\ access.block_start > access.block_end
    /\ access' = [access EXCEPT !.kind = IF @ = "write" THEN "wrote" ELSE "read"]
    /\ UNCHANGED <<nv, key, got, seen, accesses>>

(* nonVolatileRead() or nonVolatileWrite() returns an error, always if the *)
(* address is not in the partition.  A block lies in one sector, so that   *)
(* nothing or all of it is written.                                        *)
Fail ==
    /\ ~Resting /\ access.block_start <= access.block_end
    /\ access' = [access EXCEPT !.kind = "failed"]
    /\ UNCHANGED <<nv, key, got, seen, accesses>>

Next ==
    \/ \E k \in EncKeys : setEncryptionKey(k)
    \/ clearEncryptionKey
    \/ \E kind \in {"write", "reading"}, length \in 0 .. MaxLength, address \in 0 .. Top - 1 :
           /\ address <= NumBlocks * Block \/ address = Top - 1
           /\ Begin(kind, address, length)
    \/ WriteBlock
    \/ ReadBlock
    \/ Return
    \/ Fail

Spec == Init /\ [][Next]_vars
-----------------------------------------------------------------------------
(* A write that succeeds can be read back, it changes no byte next to      *)
(* those it was asked to write although it rewrites whole blocks, and a    *)
(* read returns what was there.  A write that fails leaves in each place   *)
(* the old byte or the new one.                                            *)
EncryptedReadsBack ==
    LET range == access.address .. access.address + access.length - 1
        new(a) == DataByte(accesses, a - access.address)
    IN  /\ \A a \in DOMAIN seen :
              access.kind # "none" =>
                  \/ View(key)[a] = seen[a] /\ ~(access.kind = "wrote" /\ a \in range)
                  \/ View(key)[a] = new(a) /\ a \in range /\ access.kind \in {"write", "wrote", "failed"}
        /\ access.kind = "read" => got = [i \in 1 .. access.length |-> seen[access.address + i - 1]]
=============================================================================
