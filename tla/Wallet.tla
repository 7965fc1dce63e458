------------------------------- MODULE Wallet -------------------------------
(***************************************************************************)
(* wallet.c: the wallet records kept in the accounts partition, the one    *)
(* that is loaded, and the operations of wallet.h on them, with the parts  *)
(* of xex.c (encryption key), prandom.c (entropy pool, parent public key   *)
(* cache) and storage that they change.                                    *)
(*                                                                         *)
(* Storage is used through the contract of NvStore: "nv" is what reads     *)
(* return and "flash" what the next power-up finds.  Every call that       *)
(* writes may succeed, fail at any point, or be cut short by a power loss; *)
(* MaxFaults bounds how often something goes wrong in one behaviour.       *)
(***************************************************************************)
EXTENDS Integers

CONSTANTS
    NumWallets,         \* how many records fit in the accounts partition
    Names, UUIDs, Seeds, Passwords,
    DegenerateSeeds,    \* seeds that generateDeterministic256() rejects
    NoPassword,         \* a password of length 0
    Junk,               \* bytes that mean nothing
    MAX_ADDRESSES,
    MaxFaults           \* bound on I/O errors, RNG failures and power losses

ASSUME WalletAssumption ==
    /\ NumWallets \in Nat \ {0}
    /\ MAX_ADDRESSES \in Nat
    /\ MaxFaults \in Nat
    /\ DegenerateSeeds \subseteq Seeds
    /\ NoPassword \notin Passwords

VARIABLES
    nv,                 \* contents of non-volatile memory as reads see it
    flash,              \* contents that survive a power loss
    wallet_loaded,
    is_hidden_wallet,
    current_wallet,
    wallet_nv_address,  \* as a wallet number
    encryption_key,
    parent_key_cache,   \* the seed whose parent public key is cached, or Junk
    last,               \* the last call, its wallet number and what it returned
    issued,             \* history: highest handle returned for each wallet
    diverged,           \* history: a write of the loaded record has failed
    faults

ram == <<wallet_loaded, is_hidden_wallet, current_wallet, wallet_nv_address,
         encryption_key, parent_key_cache>>
vars == <<nv, flash, ram, last, issued, diverged, faults>>

Slot == 0 .. NumWallets - 1
Version == {"NOTHING_THERE", "UNENCRYPTED", "IS_ENCRYPTED", "UNKNOWN"}

(* A wallet record in RAM, decrypted.  The checksum is computed whenever   *)
(* the record is written, and is not kept here.                            *)
WalletRecord ==
    [version : Version, name : Names \cup {Junk}, uuid : UUIDs \cup {Junk},
     num_addresses : 0 .. MAX_ADDRESSES, seed : Seeds]

(* deriveAndSetEncryptionKey(): the UUID salts the password; no password   *)
(* gives the all-zero key.                                                 *)
ZeroKey == [password |-> NoPassword, salt |-> Junk]
DeriveKey(password, uuid) ==
    IF password = NoPassword THEN ZeroKey ELSE [password |-> password, salt |-> uuid]
AnyPassword == Passwords \cup {NoPassword}
Key == [password : AnyPassword, salt : UUIDs \cup {Junk}]

(* The encrypted half of a record can be read back only under the key it   *)
(* was written with.  The checksum stands for SHA-256 of everything else   *)
(* in the record: it equals exactly the contents it was computed from.     *)
Encrypted ==
    [key : Key, num_addresses : 0 .. MAX_ADDRESSES, seed : Seeds, checksum : WalletRecord]

(* What is not the encryption of any record reads as Junk. *)
ASSUME JunkAssumption == Junk \notin Encrypted

StoredRecord ==
    [version : Version, name : Names \cup {Junk}, uuid : UUIDs \cup {Junk},
     encrypted : Encrypted \cup {Junk}]

(* Non-volatile memory: whether the entropy pool agrees with its checksum, *)
(* and the wallet records.                                                 *)
Memory == [pool : BOOLEAN, wallet : [Slot -> StoredRecord]]

(* Mutation: the checksum covers the encrypted half only. *)
ChecksumOfEncryptedHalf(rec) == [rec EXCEPT !.version = "UNKNOWN", !.name = Junk, !.uuid = Junk]

calculateWalletChecksum(rec) == rec

Sealed(rec, key) ==
    [version |-> rec.version, name |-> rec.name, uuid |-> rec.uuid,
     encrypted |-> [key |-> key, num_addresses |-> rec.num_addresses,
                    seed |-> rec.seed, checksum |-> calculateWalletChecksum(rec)]]

(* readWalletRecord(), when the key is the right one. *)
Opened(w) ==
    [version |-> w.version, name |-> w.name, uuid |-> w.uuid,
     num_addresses |-> w.encrypted.num_addresses, seed |-> w.encrypted.seed]

(* The checksum of initWallet(): under a wrong key the decrypted half is junk. *)
ChecksumOK(w, key) ==
    /\ w.encrypted # Junk
    /\ w.encrypted.key = key
    /\ w.encrypted.checksum = calculateWalletChecksum(Opened(w))

----------------------------------------------------------------------------
(* What storage can do.                                                    *)

(* Memory in address order: the pool, then four fields for each wallet.    *)
(* Splice(a, b, n) has the first n of these from b and the rest from a.    *)
Location == 0 .. 4 * NumWallets + 1
Splice(a, b, n) ==
    [pool |-> IF n > 0 THEN b.pool ELSE a.pool,
     wallet |-> [s \in Slot |->
        [version   |-> IF n > 4 * s + 1 THEN b.wallet[s].version ELSE a.wallet[s].version,
         name      |-> IF n > 4 * s + 2 THEN b.wallet[s].name ELSE a.wallet[s].name,
         uuid      |-> IF n > 4 * s + 3 THEN b.wallet[s].uuid ELSE a.wallet[s].uuid,
         encrypted |-> IF n > 4 * s + 4 THEN b.wallet[s].encrypted ELSE a.wallet[s].encrypted]]]

ErasedRecord == [version |-> "UNKNOWN", name |-> Junk, uuid |-> Junk, encrypted |-> Junk]
ErasedMemory == [pool |-> FALSE, wallet |-> [s \in Slot |-> ErasedRecord]]

(* nonVolatileFlush() erases and reprograms the sector that holds all of   *)
(* memory.  If it stops half-way, part of the sector is left erased.       *)
Damaged(old, new) == {Splice(ErasedMemory, m, n) : m \in {old, new}, n \in Location}

Fault == faults < MaxFaults /\ faults' = faults + 1

(* Mutation: nothing is flushed. *)
PutWithoutFlush(new) == nv' = new /\ UNCHANGED <<flash, faults>>

(* Writes that take the view from "old" to "new", then a flush, starting   *)
(* with "chip" in the flash: it works, it returns an error, or power fails.*)
PutOK(new) == nv' = new /\ flash' = new /\ UNCHANGED faults

FlushFails(chip, new) == Fault /\ nv' = new /\ flash' \in Damaged(chip, new)

WriteFails(old, chip, new) ==
    Fault /\ flash' = chip /\ \E n \in Location : nv' = Splice(old, new, n)

PutFails(old, chip, new) == FlushFails(chip, new) \/ WriteFails(old, chip, new)

PutInterrupted(chip, new) == Fault /\ nv' \in Damaged(chip, new) /\ flash' = nv'

StorageUnchanged == UNCHANGED <<nv, flash, faults>>

----------------------------------------------------------------------------
Init ==
    /\ nv = ErasedMemory
    /\ flash = ErasedMemory
    /\ wallet_loaded = FALSE
    /\ is_hidden_wallet = FALSE
    /\ current_wallet = Junk
    /\ wallet_nv_address = 0
    /\ encryption_key = ZeroKey
    /\ parent_key_cache = Junk
    /\ last = [op |-> "reset", slot |-> 0, result |-> "WALLET_NO_ERROR"]
    /\ issued = [s \in Slot |-> 0]
    /\ diverged = FALSE
    /\ faults = 0

Report(op, s, result) == last' = [op |-> op, slot |-> s, result |-> result]

(* Mutation: the cached key is kept. *)
KeepParentPublicKeyCache == UNCHANGED parent_key_cache

clearParentPublicKeyCache == parent_key_cache' = Junk

(* uninitWallet(), as the other functions call it.  What is left in        *)
(* current_wallet is undefined when no wallet is loaded.                   *)
Unload ==
    /\ clearParentPublicKeyCache
    /\ wallet_loaded' = FALSE
    /\ is_hidden_wallet' = FALSE
    /\ wallet_nv_address' = 0
    /\ current_wallet' = Junk
    /\ diverged' = FALSE

(* Power fails and comes back: every variable in RAM has its initial value. *)
Reset ==
    /\ Unload
    /\ encryption_key' = ZeroKey
    /\ Report("reset", 0, "WALLET_NO_ERROR")

PowerLoss ==
    /\ Reset
    /\ nv' = flash
    /\ UNCHANGED <<flash, faults, issued>>

uninitWallet ==
    /\ Unload
    /\ Report("uninitWallet", 0, "WALLET_NO_ERROR")
    /\ StorageUnchanged
    /\ UNCHANGED <<encryption_key, issued>>

----------------------------------------------------------------------------
(* initWallet(), after the wallet number has been checked, on memory m. *)
InitResult(m, s, password) ==
    LET w == m.wallet[s]
    IN  IF w.version # "UNKNOWN" /\ ChecksumOK(w, DeriveKey(password, w.uuid))
        THEN "WALLET_NO_ERROR" ELSE "WALLET_NOT_THERE"

InitFrom(m, s, password) ==
    LET w == m.wallet[s]
        ok == InitResult(m, s, password) = "WALLET_NO_ERROR"
    IN  /\ clearParentPublicKeyCache
        /\ wallet_nv_address' = s
        /\ encryption_key' = DeriveKey(password, w.uuid)
        /\ is_hidden_wallet' = (w.version = "NOTHING_THERE")
        /\ wallet_loaded' = ok
        /\ current_wallet' = IF ok THEN Opened(w) ELSE Junk
        /\ diverged' = FALSE

(* A read of the record fails, before or after the key has been derived. *)
ReadFails(s, key) ==
    /\ Fault
    /\ clearParentPublicKeyCache
    /\ wallet_nv_address' = s
    /\ encryption_key' \in {encryption_key, key}
    /\ is_hidden_wallet' = FALSE
    /\ wallet_loaded' = FALSE
    /\ current_wallet' = Junk
    /\ diverged' = FALSE
    /\ UNCHANGED <<nv, flash>>

initWallet(s, password) ==
    /\ UNCHANGED issued
    /\ \/ /\ s \notin Slot
          /\ Unload
          /\ Report("initWallet", s, "WALLET_INVALID_WALLET_NUM")
          /\ StorageUnchanged
          /\ UNCHANGED encryption_key
       \/ /\ s \in Slot
          /\ InitFrom(nv, s, password)
          /\ Report("initWallet", s, InitResult(nv, s, password))
          /\ StorageUnchanged
       \/ /\ s \in Slot
          /\ ReadFails(s, DeriveKey(password, nv.wallet[s].uuid))
          /\ Report("initWallet", s, "WALLET_READ_ERROR")

----------------------------------------------------------------------------
(* newWallet() *)

(* updateWalletVersion(), for a wallet that is not hidden. *)
VersionFor(key) == IF key = ZeroKey THEN "UNENCRYPTED" ELSE "IS_ENCRYPTED"

(* One of a run of getRandom256() calls fails: the pool is not valid, the  *)
(* hardware generator fails, or the pool cannot be saved.  Calls that      *)
(* succeeded before it have flushed the pool, and with it all of memory.   *)
RandomFails ==
    \/ ~nv.pool /\ StorageUnchanged
    \/ nv.pool /\ Fault /\ nv' = nv /\ flash' \in Damaged(flash, nv)
    \/ nv.pool /\ Fault /\ nv' = [nv EXCEPT !.pool = FALSE] /\ flash' \in {flash, nv}

(* No wallet is loaded, but the working address is that of wallet s. *)
UnloadAt(s) ==
    /\ clearParentPublicKeyCache
    /\ wallet_loaded' = FALSE
    /\ is_hidden_wallet' = FALSE
    /\ wallet_nv_address' = s
    /\ current_wallet' = Junk
    /\ diverged' = FALSE

(* The record that newWallet() builds in current_wallet.  A hidden wallet  *)
(* leaves everything that is stored unencrypted as it finds it.            *)
NewRecord(w, name, uuid, seed, make_hidden, key) ==
    IF make_hidden
    THEN [version |-> w.version, name |-> w.name, uuid |-> w.uuid, num_addresses |-> 0, seed |-> seed]
    ELSE [version |-> VersionFor(key), name |-> name, uuid |-> uuid, num_addresses |-> 0, seed |-> seed]

(* newWallet() once the record has been found to be free.  All the random  *)
(* numbers are drawn before the record is written.                         *)
CreateIn(s, name, uuid, seed, make_hidden, password) ==
    LET key == DeriveKey(password, uuid)
        rec == NewRecord(nv.wallet[s], name, uuid, seed, make_hidden, key)
        new == [nv EXCEPT !.wallet[s] = Sealed(rec, key)]
    IN  \/ /\ RandomFails
           /\ UnloadAt(s)
           /\ encryption_key' \in {encryption_key, key}
           /\ Report("newWallet", s, "WALLET_RNG_FAILURE")
           /\ UNCHANGED issued
        \/ /\ nv.pool
           /\ PutFails(nv, nv, new)
           /\ UnloadAt(s)
           /\ encryption_key' = key
           /\ Report("newWallet", s, "WALLET_WRITE_ERROR")
           /\ issued' = [issued EXCEPT ![s] = 0]
        \/ /\ nv.pool
           /\ PutInterrupted(flash, nv) \/ PutInterrupted(nv, new)
           /\ Reset
           /\ issued' = [issued EXCEPT ![s] = 0]
        \/ /\ nv.pool
           /\ PutOK(new)
           /\ InitFrom(new, s, password)
           /\ Report("newWallet", s, InitResult(new, s, password))
           /\ issued' = [issued EXCEPT ![s] = 0]

(* Mutation: a record whose version is known may be overwritten. *)
IsFreeOrKnown(w) == w.version # "UNKNOWN"

(* The check for an existing wallet. *)
IsFree(w) == w.version = "NOTHING_THERE"

newWallet(s) ==
    \/ /\ s \notin Slot
       /\ Unload
       /\ Report("newWallet", s, "WALLET_INVALID_WALLET_NUM")
       /\ StorageUnchanged
       /\ UNCHANGED <<encryption_key, issued>>
    \/ /\ s \in Slot
       /\ ReadFails(s, encryption_key)
       /\ Report("newWallet", s, "WALLET_READ_ERROR")
       /\ UNCHANGED issued
    \/ /\ s \in Slot
       /\ ~IsFree(nv.wallet[s])
       /\ UnloadAt(s)
       /\ Report("newWallet", s, "WALLET_ALREADY_EXISTS")
       /\ StorageUnchanged
       /\ UNCHANGED <<encryption_key, issued>>
    \/ /\ s \in Slot
       /\ IsFree(nv.wallet[s])
       /\ \E name \in Names, seed \in Seeds, make_hidden \in BOOLEAN, password \in AnyPassword :
             \E uuid \in IF make_hidden THEN {nv.wallet[s].uuid} ELSE UUIDs :
                CreateIn(s, name, uuid, seed, make_hidden, password)

----------------------------------------------------------------------------
(* sanitiseNonVolatileStorage() on wallet records. *)

(* A record after pass 0 (zeroes), 1 (ones), 2 and 3 (random bytes), and   *)
(* after the version field has been written.                               *)
Fill(pass, uuid) ==
    [version |-> IF pass \in {0, 4} THEN "NOTHING_THERE" ELSE "UNKNOWN",
     name |-> Junk, uuid |-> IF pass < 2 THEN Junk ELSE uuid, encrypted |-> Junk]

(* Mutation: only the unencrypted half of each record is overwritten. *)
SweepUnencryptedHalf(m, S, u) ==
    [p \in -1 .. 4 |->
        IF p = -1 THEN m
        ELSE [m EXCEPT !.wallet = [s \in Slot |->
                IF s \in S THEN [Fill(p, u[s]) EXCEPT !.encrypted = m.wallet[s].encrypted]
                ELSE m.wallet[s]]]]

(* Sweep(m, S, u)[p]: memory m after pass p over the records S; -1 is the  *)
(* beginning and 4 the end.                                                *)
Sweep(m, S, u) ==
    [p \in -1 .. 4 |->
        IF p = -1 THEN m
        ELSE [m EXCEPT !.wallet = [s \in Slot |-> IF s \in S THEN Fill(p, u[s]) ELSE m.wallet[s]]]]

(* The outcomes of a sweep that starts with "chip" in the flash.  A failed *)
(* flush of a version field is not reported: the loop ignores it.          *)
sanitiseNonVolatileStorage(sweep, chip, result) ==
    LET Chip(p) == IF p = 0 THEN chip ELSE sweep[p - 1]
    IN  \/ /\ result = "WALLET_WRITE_ERROR"
           /\ \E p \in 0 .. 3 : PutFails(sweep[p - 1], Chip(p), sweep[p])
        \/ /\ result = "WALLET_WRITE_ERROR"
           /\ Fault
           /\ \E n \in Location : nv' = Splice(sweep[3], sweep[4], n)
           /\ flash' = nv'
        \/ /\ result = "WALLET_RNG_FAILURE"
           /\ Fault
           /\ \E p \in 2 .. 3, n \in Location :
                 /\ nv' = Splice(sweep[p - 1], sweep[p], n)
                 /\ flash' \in Damaged(sweep[p - 1], nv')
        \/ /\ result = "WALLET_RNG_FAILURE"
           /\ \/ FlushFails(sweep[3], sweep[3])
              \/ Fault /\ nv' = [sweep[3] EXCEPT !.pool = FALSE] /\ flash' = sweep[3]
        \/ /\ result = "WALLET_NO_ERROR"
           /\ \/ PutOK(sweep[4])
              \/ \E n \in Location : FlushFails(Splice(sweep[3], sweep[4], n), sweep[4])

SweepInterrupted(sweep, chip) ==
    \E p \in 0 .. 4 : PutInterrupted(IF p = 0 THEN chip ELSE sweep[p - 1], sweep[p])

SanitiseResult == {"WALLET_NO_ERROR", "WALLET_WRITE_ERROR", "WALLET_RNG_FAILURE"}

deleteWallet(s) ==
    \/ /\ s \notin Slot
       /\ Report("deleteWallet", s, "WALLET_INVALID_WALLET_NUM")
       /\ StorageUnchanged
       /\ UNCHANGED <<ram, issued, diverged>>
    \/ /\ s \in Slot
       /\ ~nv.pool
       /\ Unload
       /\ Report("deleteWallet", s, "WALLET_RNG_FAILURE")
       /\ StorageUnchanged
       /\ UNCHANGED <<encryption_key, issued>>
    \/ /\ s \in Slot
       /\ nv.pool
       /\ issued' = [issued EXCEPT ![s] = 0]
       /\ \E u \in [{s} -> UUIDs] :
             \/ \E result \in SanitiseResult :
                   /\ sanitiseNonVolatileStorage(Sweep(nv, {s}, u), flash, result)
                   /\ Unload
                   /\ Report("deleteWallet", s, result)
                   /\ UNCHANGED encryption_key
             \/ /\ SweepInterrupted(Sweep(nv, {s}, u), flash)
                /\ Reset

(* The FORMAT request: initialiseEntropyPool(), then sanitiseEverything()  *)
(* (global partition, then accounts), then uninitWallet().  The wallet     *)
(* stays loaded only when the entropy pool could not be initialised.       *)
Format ==
    LET pooled == [nv EXCEPT !.pool = TRUE]
        wiped == [nv EXCEPT !.pool = FALSE]
    IN  \/ /\ \/ FlushFails(flash, pooled)
              \/ Fault /\ nv' \in {nv, wiped} /\ flash' = flash
           /\ Report("format", 0, "WALLET_RNG_FAILURE")
           /\ UNCHANGED <<ram, issued, diverged>>
        \/ /\ PutFails(pooled, pooled, wiped)
           /\ Unload
           /\ Report("format", 0, "WALLET_WRITE_ERROR")
           /\ UNCHANGED <<encryption_key, issued>>
        \/ /\ Fault
           /\ nv' \in {pooled, wiped}
           /\ flash' \in Damaged(wiped, nv')
           /\ Unload
           /\ Report("format", 0, "WALLET_RNG_FAILURE")
           /\ UNCHANGED <<encryption_key, issued>>
        \/ /\ issued' = [s \in Slot |-> 0]
           /\ \E u \in [Slot -> UUIDs] :
                 \/ \E result \in SanitiseResult :
                       /\ sanitiseNonVolatileStorage(Sweep(pooled, Slot, u), pooled, result)
                       /\ Unload
                       /\ Report("format", 0, result)
                       /\ UNCHANGED encryption_key
                 \/ /\ SweepInterrupted(Sweep(pooled, Slot, u), pooled)
                    /\ Reset
        \/ /\ PutInterrupted(flash, pooled) \/ PutInterrupted(pooled, wiped) \/ PutInterrupted(wiped, pooled)
           /\ Reset
           /\ UNCHANGED issued

----------------------------------------------------------------------------
(* Operations on the loaded wallet. *)

EarlyReturn(op, result) ==
    /\ Report(op, wallet_nv_address, result)
    /\ StorageUnchanged
    /\ UNCHANGED <<ram, issued, diverged>>

(* Mutation: the record is written before the new key is set. *)
WithRecordUnderOldKey(rec, key) ==
    [nv EXCEPT !.wallet[wallet_nv_address] = Sealed(rec, encryption_key)]

(* Mutation: the record is written before the count is advanced. *)
WithRecordOldCount(rec, key) ==
    [nv EXCEPT !.wallet[wallet_nv_address] =
        Sealed([rec EXCEPT !.num_addresses = current_wallet.num_addresses], key)]

(* writeCurrentWalletRecord() takes the view to this memory. *)
WithRecord(rec, key) == [nv EXCEPT !.wallet[wallet_nv_address] = Sealed(rec, key)]

(* The record and the key have been changed in RAM, but the write failed,  *)
(* or power was lost during it.                                            *)
UpdateFails(op, rec, key) ==
    \/ /\ PutFails(nv, flash, WithRecord(rec, key))
       /\ current_wallet' = rec
       /\ encryption_key' = key
       /\ diverged' = TRUE
       /\ Report(op, wallet_nv_address, "WALLET_WRITE_ERROR")
       /\ UNCHANGED <<wallet_loaded, is_hidden_wallet, wallet_nv_address, parent_key_cache, issued>>
    \/ /\ PutInterrupted(flash, WithRecord(rec, key))
       /\ Reset
       /\ UNCHANGED issued

UpdateOK(rec, key) ==
    /\ PutOK(WithRecord(rec, key))
    /\ current_wallet' = rec
    /\ encryption_key' = key
    /\ diverged' = FALSE
    /\ UNCHANGED <<wallet_loaded, is_hidden_wallet, wallet_nv_address>>

(* generateDeterministic256() uses the cached parent public key if there   *)
(* is one, whatever seed it is given.                                      *)
CacheAfterUse == IF parent_key_cache = Junk THEN current_wallet.seed ELSE parent_key_cache

(* Mutation: off by one. *)
IsOverfull == current_wallet.num_addresses > MAX_ADDRESSES

IsFull == current_wallet.num_addresses >= MAX_ADDRESSES

makeNewAddress ==
    LET rec == [current_wallet EXCEPT !.num_addresses = @ + 1]
    IN  \/ /\ ~wallet_loaded
           /\ EarlyReturn("makeNewAddress", "WALLET_NOT_LOADED")
        \/ /\ wallet_loaded
           /\ IsFull
           /\ EarlyReturn("makeNewAddress", "WALLET_FULL")
        \/ /\ wallet_loaded
           /\ ~IsFull
           /\ \/ UpdateFails("makeNewAddress", rec, encryption_key)
              \/ /\ UpdateOK(rec, encryption_key)
                 /\ current_wallet.seed \in DegenerateSeeds
                 /\ Report("makeNewAddress", wallet_nv_address, "WALLET_RNG_FAILURE")
                 /\ UNCHANGED <<parent_key_cache, issued>>
              \/ /\ UpdateOK(rec, encryption_key)
                 /\ current_wallet.seed \notin DegenerateSeeds
                 /\ parent_key_cache' = CacheAfterUse
                 /\ Report("makeNewAddress", wallet_nv_address, "WALLET_NO_ERROR")
                 /\ issued' = [issued EXCEPT ![wallet_nv_address] = rec.num_addresses]

(* getPrivateKey(), and getAddressAndPublicKey() which calls it. *)
getPrivateKey(ah) ==
    LET result ==
            IF ~wallet_loaded THEN "WALLET_NOT_LOADED"
            ELSE IF current_wallet.num_addresses = 0 THEN "WALLET_EMPTY"
            ELSE IF ah \notin 1 .. current_wallet.num_addresses THEN "WALLET_INVALID_HANDLE"
            ELSE IF current_wallet.seed \in DegenerateSeeds THEN "WALLET_RNG_FAILURE"
            ELSE "WALLET_NO_ERROR"
    IN  /\ Report("query", wallet_nv_address, result)
        /\ parent_key_cache' =
              IF result = "WALLET_NO_ERROR" THEN CacheAfterUse ELSE parent_key_cache
        /\ StorageUnchanged
        /\ UNCHANGED <<wallet_loaded, is_hidden_wallet, current_wallet, wallet_nv_address,
                       encryption_key, issued, diverged>>

getNumAddresses ==
    EarlyReturn("query",
        IF ~wallet_loaded THEN "WALLET_NOT_LOADED"
        ELSE IF current_wallet.num_addresses = 0 THEN "WALLET_EMPTY" ELSE "WALLET_NO_ERROR")

getMasterPublicKey ==
    EarlyReturn("query", IF ~wallet_loaded THEN "WALLET_NOT_LOADED" ELSE "WALLET_NO_ERROR")

(* writeBackupSeed() may refuse the destination, or the user may deny it. *)
backupWallet ==
    \E result \in IF wallet_loaded THEN {"WALLET_NO_ERROR", "WALLET_BACKUP_ERROR"}
                   ELSE {"WALLET_NOT_LOADED"} :
        EarlyReturn("query", result)

(* getWalletInfo() reads any record, loaded or not. *)
getWalletInfo(s) ==
    EarlyReturn("query", IF s \in Slot THEN "WALLET_NO_ERROR" ELSE "WALLET_INVALID_WALLET_NUM")

(* Mutation: the version field of a hidden wallet is updated too. *)
RekeyedShowingHidden(key) == [current_wallet EXCEPT !.version = VersionFor(key)]

(* The version field follows the key, except that of a hidden wallet. *)
Rekeyed(key) ==
    IF is_hidden_wallet THEN current_wallet
    ELSE [current_wallet EXCEPT !.version = VersionFor(key)]

changeEncryptionKey(password) ==
    LET key == DeriveKey(password, current_wallet.uuid)
        rec == Rekeyed(key)
    IN  \/ /\ ~wallet_loaded
           /\ EarlyReturn("changeEncryptionKey", "WALLET_NOT_LOADED")
        \/ /\ wallet_loaded
           /\ UpdateFails("changeEncryptionKey", rec, key)
        \/ /\ wallet_loaded
           /\ UpdateOK(rec, key)
           /\ Report("changeEncryptionKey", wallet_nv_address, "WALLET_NO_ERROR")
           /\ UNCHANGED <<parent_key_cache, issued>>

changeWalletName(name) ==
    LET rec == [current_wallet EXCEPT !.name = name]
    IN  \/ /\ ~wallet_loaded
           /\ EarlyReturn("changeWalletName", "WALLET_NOT_LOADED")
        \/ /\ wallet_loaded
           /\ is_hidden_wallet
           /\ EarlyReturn("changeWalletName", "WALLET_INVALID_OPERATION")
        \/ /\ wallet_loaded
           /\ ~is_hidden_wallet
           /\ UpdateFails("changeWalletName", rec, encryption_key)
        \/ /\ wallet_loaded
           /\ ~is_hidden_wallet
           /\ UpdateOK(rec, encryption_key)
           /\ Report("changeWalletName", wallet_nv_address, "WALLET_NO_ERROR")
           /\ UNCHANGED <<parent_key_cache, issued>>

----------------------------------------------------------------------------
(* Wallet numbers come from the host: NumWallets is one that is too large. *)
Next ==
    \/ \E s \in 0 .. NumWallets, password \in AnyPassword : initWallet(s, password)
    \/ \E s \in 0 .. NumWallets : newWallet(s) \/ deleteWallet(s) \/ getWalletInfo(s)
    \/ \E ah \in 0 .. MAX_ADDRESSES + 1 : getPrivateKey(ah)
    \/ \E password \in AnyPassword : changeEncryptionKey(password)
    \/ \E name \in Names : changeWalletName(name)
    \/ makeNewAddress
    \/ getNumAddresses
    \/ getMasterPublicKey
    \/ backupWallet
    \/ uninitWallet
    \/ Format
    \/ PowerLoss

Spec == Init /\ [][Next]_vars

----------------------------------------------------------------------------
Result ==
    {"WALLET_NO_ERROR", "WALLET_FULL", "WALLET_EMPTY", "WALLET_READ_ERROR",
     "WALLET_WRITE_ERROR", "WALLET_NOT_THERE", "WALLET_NOT_LOADED",
     "WALLET_INVALID_HANDLE", "WALLET_BACKUP_ERROR", "WALLET_RNG_FAILURE",
     "WALLET_INVALID_WALLET_NUM", "WALLET_INVALID_OPERATION", "WALLET_ALREADY_EXISTS"}
Op ==
    {"reset", "uninitWallet", "initWallet", "newWallet", "deleteWallet", "format",
     "makeNewAddress", "changeEncryptionKey", "changeWalletName", "query"}

TypeOK ==
    /\ nv \in Memory
    /\ flash \in Memory
    /\ wallet_loaded \in BOOLEAN
    /\ is_hidden_wallet \in BOOLEAN
    /\ current_wallet \in WalletRecord \cup {Junk}
    /\ wallet_loaded => current_wallet \in WalletRecord
    /\ wallet_nv_address \in Slot
    /\ encryption_key \in Key
    /\ parent_key_cache \in Seeds \cup {Junk}
    /\ last \in [op : Op, slot : 0 .. NumWallets, result : Result]
    /\ issued \in [Slot -> 0 .. MAX_ADDRESSES]
    /\ diverged \in BOOLEAN
    /\ faults \in 0 .. MaxFaults

(* A stored record whose checksum is right, under whatever key. *)
Intact(w) == w.encrypted # Junk /\ ChecksumOK(w, w.encrypted.key)
Visible(w) == w.version \in {"UNENCRYPTED", "IS_ENCRYPTED"}

(* Unless a write of it has failed, the wallet in RAM is the one that      *)
(* reads of its record would give: current_wallet, wallet_nv_address and   *)
(* the key in xex.c never belong to different wallets.                     *)
LoadedAgreesWithStore ==
    wallet_loaded /\ ~diverged =>
        nv.wallet[wallet_nv_address] = Sealed(current_wallet, encryption_key)

(* An operation on the loaded wallet that reports WALLET_NO_ERROR has made *)
(* its effect durable: power can fail right after it.                      *)
SuccessIsDurable ==
    /\ last.op \in {"newWallet", "makeNewAddress", "changeEncryptionKey", "changeWalletName"}
    /\ last.result = "WALLET_NO_ERROR"
    => flash.wallet[wallet_nv_address] = Sealed(current_wallet, encryption_key)

(* Every address handle that makeNewAddress() has returned is still valid  *)
(* after any sequence of failed writes, reloads, key changes and power     *)
(* losses that leaves the wallet readable.                                 *)
IssuedHandlesSurvive ==
    \A s \in Slot :
        /\ Intact(flash.wallet[s]) => flash.wallet[s].encrypted.num_addresses >= issued[s]
        /\ Intact(nv.wallet[s]) => nv.wallet[s].encrypted.num_addresses >= issued[s]

(* A record with a good checksum can be opened with the password it was    *)
(* last given, and its version field tells whether that is needed: no      *)
(* crash or failed write can pair a checksum with the wrong key or UUID.   *)
IntactWalletOpens ==
    \A m \in {nv, flash}, s \in Slot :
        LET w == m.wallet[s]
        IN  Intact(w) =>
              /\ InitResult(m, s, w.encrypted.key.password) = "WALLET_NO_ERROR"
              /\ Visible(w) => (w.version = "IS_ENCRYPTED" <=> w.encrypted.key.password # NoPassword)

(* The parent public key cached by prandom.c is that of the loaded wallet: *)
(* no address or signature can come from a wallet that was loaded before.  *)
CacheBelongsToLoadedWallet ==
    parent_key_cache # Junk => wallet_loaded /\ parent_key_cache = current_wallet.seed

(* When deleteWallet() or a format reports WALLET_NO_ERROR, nothing of the *)
(* encrypted half is left, neither in the cache nor in the flash.          *)
DeletedMeansErased ==
    last.result = "WALLET_NO_ERROR" =>
        \A s \in Slot :
            last.op = "format" \/ (last.op = "deleteWallet" /\ last.slot = s) =>
                nv.wallet[s].encrypted = Junk /\ flash.wallet[s].encrypted = Junk

(* The wallet s is still there, with its seed and its addresses. *)
Kept(s) ==
    /\ Intact(nv'.wallet[s])
    /\ nv'.wallet[s].encrypted.seed = nv.wallet[s].encrypted.seed
    /\ nv'.wallet[s].encrypted.num_addresses >= nv.wallet[s].encrypted.num_addresses

(* The call just made may cost the wallet s. *)
MayCost(s) ==
    \/ last'.op \in {"reset", "format"}
    \/ last'.op = "deleteWallet" /\ last'.slot = s
    \/ last'.op = "newWallet" /\ last'.slot = s /\ ~Visible(nv.wallet[s])
    \/ last'.result = "WALLET_WRITE_ERROR" /\ last'.slot = s

KeepsWallets == \A s \in Slot : Intact(nv.wallet[s]) => Kept(s) \/ MayCost(s)

(* A wallet disappears, changes its seed or loses addresses only when it   *)
(* is deleted, formatted or (a hidden one) replaced, when its own write    *)
(* fails, or when power is lost: creating, loading or changing one wallet  *)
(* never costs another, and newWallet() never overwrites a visible one.    *)
WalletKept == [][KeepsWallets]_vars

LeavesLabels ==
    /\ wallet_loaded /\ is_hidden_wallet
    /\ last'.op \in {"makeNewAddress", "changeEncryptionKey", "changeWalletName", "query"}
    => \A s \in Slot :
         /\ nv'.wallet[s].version = nv.wallet[s].version
         /\ nv'.wallet[s].name = nv.wallet[s].name
         /\ nv'.wallet[s].uuid = nv.wallet[s].uuid

(* While a hidden wallet is loaded, no operation on it, successful or not, *)
(* changes anything that is stored unencrypted.                            *)
HiddenLeavesNoTrace == [][LeavesLabels]_vars

(* "Write VERSION_NOTHING_THERE to all possible locations of the version   *)
(* field": after a sanitise that reports WALLET_NO_ERROR, the version      *)
(* field of every sanitised record reads VERSION_NOTHING_THERE for good.   *)
SanitisedReadsNothingThere ==
    last.result = "WALLET_NO_ERROR" =>
        \A s \in Slot :
            last.op = "format" \/ (last.op = "deleteWallet" /\ last.slot = s) =>
                flash.wallet[s].version = "NOTHING_THERE"
=============================================================================
