--------------------------- MODULE Wallet_proofs ----------------------------
(***************************************************************************)
(* The wallet records of wallet.c stay sound, whatever fails and whenever  *)
(* power is lost, for any number of wallets, names, passwords and seeds.   *)
(***************************************************************************)
EXTENDS Wallet, TLAPS

\* What an encrypted half promises about the record it was made for: its
\* checksum names a version and a UUID that belong to its key.
Fitting(rec, key) ==
    /\ rec.version # "UNKNOWN"
    /\ key = DeriveKey(key.password, rec.uuid)
    /\ Visible(rec) => rec.version = VersionFor(key)

\* A memory in which every encrypted half, intact or not, was written with
\* a fitting key and counts the handles that were given out.
Good(m, handles) ==
    /\ m \in Memory
    /\ \A s \in Slot : m.wallet[s].encrypted # Junk =>
          /\ Fitting(m.wallet[s].encrypted.checksum, m.wallet[s].encrypted.key)
          /\ m.wallet[s].encrypted.num_addresses >= handles[s]

Handles == [Slot -> 0 .. MAX_ADDRESSES]

\* What is stored unencrypted in two records is the same.
SameLabel(w, rec) == w.version = rec.version /\ w.name = rec.name /\ w.uuid = rec.uuid

\* The stored record w is an earlier state of the same wallet as rec.
Behind(w, rec) ==
    w.encrypted # Junk =>
        w.encrypted.seed = rec.seed /\ w.encrypted.num_addresses <= rec.num_addresses

StoreInv ==
    /\ issued \in Handles
    /\ faults \in 0 .. MaxFaults
    /\ Good(nv, issued)
    /\ Good(flash, issued)

\* The record and the key in RAM fit each other, even after a failed write.
RamInv ==
    /\ wallet_loaded \in BOOLEAN
    /\ is_hidden_wallet \in BOOLEAN
    /\ diverged \in BOOLEAN
    /\ current_wallet \in WalletRecord \cup {Junk}
    /\ wallet_nv_address \in Slot
    /\ encryption_key \in Key
    /\ parent_key_cache \in Seeds \cup {Junk}
    /\ wallet_loaded =>
          /\ current_wallet \in WalletRecord
          /\ Fitting(current_wallet, encryption_key)
          /\ is_hidden_wallet <=> current_wallet.version = "NOTHING_THERE"
          /\ current_wallet.num_addresses >= issued[wallet_nv_address]
          /\ Behind(nv.wallet[wallet_nv_address], current_wallet)
          /\ is_hidden_wallet => SameLabel(nv.wallet[wallet_nv_address], current_wallet)
    /\ LoadedAgreesWithStore
    /\ CacheBelongsToLoadedWallet

LastInv ==
    /\ last \in [op : Op, slot : 0 .. NumWallets, result : Result]
    /\ SuccessIsDurable
    /\ DeletedMeansErased

IInv == StoreInv /\ RamInv /\ LastInv

-----------------------------------------------------------------------------
(* Memory. *)

LEMMA SlotNat == Slot \subseteq Nat /\ 0 \in Slot
BY WalletAssumption DEF Slot

LEMMA ErasedGood == ASSUME NEW handles \in Handles PROVE Good(ErasedMemory, handles)
<1>1. ErasedRecord \in StoredRecord
  BY Zenon DEF ErasedRecord, StoredRecord, Version
<1>2. ErasedMemory \in Memory
  BY Zenon, <1>1 DEF ErasedMemory, Memory
<1>. QED BY Zenon, <1>2 DEF Good, ErasedMemory, ErasedRecord

\* Each field of a spliced memory comes from one of the two.
LEMMA SpliceGood ==
    ASSUME NEW a, NEW b, NEW n \in Location, NEW handles \in Handles,
           Good(a, handles), Good(b, handles)
    PROVE  Good(Splice(a, b, n), handles)
<1>. DEFINE c == Splice(a, b, n)
<1>0. a \in Memory /\ b \in Memory
  BY Zenon DEF Good
<1>1. c.pool \in BOOLEAN /\ c = [pool |-> c.pool, wallet |-> c.wallet]
  BY Zenon, <1>0 DEF Splice, Memory
<1>2. ASSUME NEW s \in Slot
      PROVE  /\ c.wallet[s] \in StoredRecord
             /\ c.wallet[s].encrypted \in {a.wallet[s].encrypted, b.wallet[s].encrypted}
  <2>1. a.wallet[s] \in StoredRecord /\ b.wallet[s] \in StoredRecord
    BY Zenon, <1>0 DEF Memory
  <2>2. c.wallet[s] = [version   |-> IF n > 4 * s + 1 THEN b.wallet[s].version ELSE a.wallet[s].version,
         name      |-> IF n > 4 * s + 2 THEN b.wallet[s].name ELSE a.wallet[s].name,
         uuid      |-> IF n > 4 * s + 3 THEN b.wallet[s].uuid ELSE a.wallet[s].uuid,
         encrypted |-> IF n > 4 * s + 4 THEN b.wallet[s].encrypted ELSE a.wallet[s].encrypted]
    BY Zenon DEF Splice
  <2>. QED BY <2>1, <2>2 DEF StoredRecord
<1>3. c.wallet \in [Slot -> StoredRecord]
  BY Zenon, <1>2 DEF Splice
<1>4. c \in Memory
  BY Zenon, <1>1, <1>3 DEF Memory
<1>5. ASSUME NEW s \in Slot, c.wallet[s].encrypted # Junk
      PROVE  /\ Fitting(c.wallet[s].encrypted.checksum, c.wallet[s].encrypted.key)
             /\ c.wallet[s].encrypted.num_addresses >= handles[s]
  BY Zenon, <1>2, <1>5 DEF Good
<1>. HIDE DEF c
<1>. QED BY Zenon, <1>4, <1>5 DEF Good, c

LEMMA SplicedFields ==
    ASSUME NEW a, NEW b, NEW n \in Location, NEW s \in Slot
    PROVE  /\ Splice(a, b, n).wallet[s].version \in {a.wallet[s].version, b.wallet[s].version}
           /\ Splice(a, b, n).wallet[s].name \in {a.wallet[s].name, b.wallet[s].name}
           /\ Splice(a, b, n).wallet[s].uuid \in {a.wallet[s].uuid, b.wallet[s].uuid}
           /\ Splice(a, b, n).wallet[s].encrypted \in {a.wallet[s].encrypted, b.wallet[s].encrypted}
BY Zenon DEF Splice

LEMMA DamagedGood ==
    ASSUME NEW old, NEW new, NEW handles \in Handles, Good(old, handles), Good(new, handles),
           NEW m \in Damaged(old, new)
    PROVE  Good(m, handles)
BY ErasedGood, SpliceGood DEF Damaged

LEMMA FewerHandles ==
    ASSUME NEW m, NEW handles \in Handles, NEW fewer \in Handles, Good(m, handles),
           \A s \in Slot : fewer[s] <= handles[s]
    PROVE  Good(m, fewer)
<1>. SUFFICES ASSUME NEW s \in Slot, m.wallet[s].encrypted # Junk
              PROVE  m.wallet[s].encrypted.num_addresses >= fewer[s]
  BY Zenon DEF Good
<1>1. m.wallet[s].encrypted.num_addresses \in Int
  <2>1. m.wallet[s] \in StoredRecord
    BY Zenon DEF Good, Memory
  <2>. QED BY <2>1, WalletAssumption DEF StoredRecord, Encrypted
<1>. QED BY <1>1, WalletAssumption DEF Good, Handles

\* The outcomes of writing and flushing, given what they start from.
StoredWell(handles) ==
    /\ faults' \in 0 .. MaxFaults
    /\ Good(nv', handles)
    /\ Good(flash', handles)

LEMMA FaultBound == ASSUME faults \in 0 .. MaxFaults, Fault PROVE faults' \in 0 .. MaxFaults
BY WalletAssumption DEF Fault

LEMMA PutsAreGood ==
    ASSUME NEW old, NEW chip, NEW new, NEW handles \in Handles, faults \in 0 .. MaxFaults,
           Good(old, handles), Good(chip, handles), Good(new, handles),
           PutOK(new) \/ PutFails(old, chip, new) \/ PutInterrupted(chip, new)
    PROVE  StoredWell(handles)
BY Zenon, SpliceGood, DamagedGood, FaultBound
   DEF StoredWell, PutOK, PutFails, FlushFails, WriteFails, PutInterrupted

LEMMA PoolGood ==
    ASSUME NEW m, NEW handles \in Handles, Good(m, handles), NEW pool \in BOOLEAN
    PROVE  /\ Good([m EXCEPT !.pool = pool], handles)
           /\ [m EXCEPT !.pool = pool].wallet = m.wallet
<1>1. /\ [m EXCEPT !.pool = pool] \in Memory
      /\ [m EXCEPT !.pool = pool].wallet = m.wallet
  BY Zenon DEF Good, Memory
<1>. QED BY Zenon, <1>1 DEF Good

LEMMA RandomFailsWell ==
    ASSUME NEW handles \in Handles, faults \in 0 .. MaxFaults,
           Good(nv, handles), Good(flash, handles), RandomFails
    PROVE  StoredWell(handles)
<1>1. Good([nv EXCEPT !.pool = FALSE], handles)
  BY Zenon, PoolGood
<1>. QED BY Zenon, <1>1, DamagedGood, FaultBound DEF StoredWell, RandomFails, StorageUnchanged

-----------------------------------------------------------------------------
(* sanitiseNonVolatileStorage() *)

LEMMA SweepGood ==
    ASSUME NEW m, NEW handles \in Handles, Good(m, handles), NEW S \in SUBSET Slot,
           NEW u \in [S -> UUIDs], NEW p \in -1 .. 4
    PROVE  /\ Good(Sweep(m, S, u)[p], handles)
           /\ p >= 0 => \A s \in S : Sweep(m, S, u)[p].wallet[s].encrypted = Junk
<1>. DEFINE c == Sweep(m, S, u)[p]
<1>1. CASE p = -1
  BY <1>1 DEF Sweep
<1>2. CASE p >= 0
  <2>1. m \in Memory
    BY Zenon DEF Good
  <2>2. c = [m EXCEPT !.wallet = [s \in Slot |-> IF s \in S THEN Fill(p, u[s]) ELSE m.wallet[s]]]
    BY <1>2 DEF Sweep
  <2>3. c = [pool |-> m.pool, wallet |-> [s \in Slot |-> IF s \in S THEN Fill(p, u[s]) ELSE m.wallet[s]]]
    BY Zenon, <2>1, <2>2 DEF Memory
  <2>4. \A s \in S : Fill(p, u[s]) \in StoredRecord /\ Fill(p, u[s]).encrypted = Junk
    BY Zenon DEF Fill, StoredRecord, Version
  <2>. HIDE DEF c
  <2>5. c \in Memory
    BY Zenon, <2>1, <2>3, <2>4 DEF Memory
  <2>6. \A s \in Slot : c.wallet[s].encrypted = IF s \in S THEN Junk ELSE m.wallet[s].encrypted
    BY Zenon, <2>3, <2>4
  <2>7. \A s \in Slot : c.wallet[s].encrypted # Junk => c.wallet[s].encrypted = m.wallet[s].encrypted
    BY Zenon, <2>6
  <2>8. Good(c, handles)
    BY Zenon, <2>5, <2>7 DEF Good
  <2>. QED BY Zenon, <2>6, <2>8 DEF c
<1>. QED BY <1>1, <1>2

LEMMA SweepsGood ==
    ASSUME NEW m, NEW handles \in Handles, Good(m, handles), NEW S \in SUBSET Slot,
           NEW u \in [S -> UUIDs]
    PROVE  /\ \A p \in -1 .. 4 : Good(Sweep(m, S, u)[p], handles)
           /\ \A s \in S : /\ Sweep(m, S, u)[3].wallet[s].encrypted = Junk
                          /\ Sweep(m, S, u)[4].wallet[s].encrypted = Junk
<1>1. \A p \in -1 .. 4 : Good(Sweep(m, S, u)[p], handles)
  BY Zenon, SweepGood
<1>2. \A p \in 0 .. 4 : \A s \in S : Sweep(m, S, u)[p].wallet[s].encrypted = Junk
  BY SMTT(30), SweepGood
<1>. QED BY <1>1, <1>2

LEMMA SanitiseWell ==
    ASSUME NEW sweep, NEW chip, NEW handles \in Handles, faults \in 0 .. MaxFaults,
           \A p \in -1 .. 4 : Good(sweep[p], handles), Good(chip, handles), NEW result,
           \/ sanitiseNonVolatileStorage(sweep, chip, result)
           \/ SweepInterrupted(sweep, chip)
    PROVE  StoredWell(handles)
<1>1. ASSUME NEW p \in 0 .. 4
      PROVE  /\ Good(sweep[p - 1], handles) /\ Good(sweep[p], handles)
             /\ Good(IF p = 0 THEN chip ELSE sweep[p - 1], handles)
  OBVIOUS
<1>2. CASE SweepInterrupted(sweep, chip)
  BY Zenon, <1>1, <1>2, PutsAreGood DEF SweepInterrupted
<1>3. CASE \E p \in 0 .. 3 :
              PutFails(sweep[p - 1], IF p = 0 THEN chip ELSE sweep[p - 1], sweep[p])
  BY <1>1, <1>3, PutsAreGood
<1>4. CASE /\ Fault
           /\ \E n \in Location : nv' = Splice(sweep[3], sweep[4], n)
           /\ flash' = nv'
  BY <1>1, <1>4, SpliceGood, FaultBound DEF StoredWell
<1>5. CASE /\ Fault
           /\ \E p \in 2 .. 3, n \in Location :
                 /\ nv' = Splice(sweep[p - 1], sweep[p], n)
                 /\ flash' \in Damaged(sweep[p - 1], nv')
  BY <1>1, <1>5, SpliceGood, DamagedGood, FaultBound DEF StoredWell
<1>6. CASE FlushFails(sweep[3], sweep[3])
  BY <1>1, <1>6, PutsAreGood DEF PutFails
<1>7. CASE Fault /\ nv' = [sweep[3] EXCEPT !.pool = FALSE] /\ flash' = sweep[3]
  <2>1. Good(sweep[3], handles)
    BY <1>1
  <2>2. Good([sweep[3] EXCEPT !.pool = FALSE], handles)
    BY Zenon, <2>1, PoolGood
  <2>. QED BY Zenon, <2>1, <2>2, <1>7, FaultBound DEF StoredWell
<1>8. CASE PutOK(sweep[4])
  BY <1>1, <1>8, PutsAreGood
<1>9. CASE \E n \in Location : FlushFails(Splice(sweep[3], sweep[4], n), sweep[4])
  BY SMTT(30), <1>1, <1>9, SpliceGood, PutsAreGood DEF PutFails
<1>. QED BY Zenon, <1>2, <1>3, <1>4, <1>5, <1>6, <1>7, <1>8, <1>9 DEF sanitiseNonVolatileStorage

-----------------------------------------------------------------------------
(* Records and keys. *)

LEMMA KeyOfPassword ==
    ASSUME NEW password \in AnyPassword, NEW uuid \in UUIDs \cup {Junk}
    PROVE  /\ DeriveKey(password, uuid) \in Key
           /\ DeriveKey(password, uuid).password = password
           /\ VersionFor(DeriveKey(password, uuid)) =
                 IF password = NoPassword THEN "UNENCRYPTED" ELSE "IS_ENCRYPTED"
BY Zenon DEF DeriveKey, Key, AnyPassword, ZeroKey, VersionFor

\* Writing a record with a fitting key into a good memory leaves it good,
\* even if more handles of that wallet are given out.
LEMMA SealedGood ==
    ASSUME NEW m, NEW before \in Handles, Good(m, before), NEW s \in Slot,
           NEW handles \in Handles, \A t \in Slot \ {s} : handles[t] = before[t],
           NEW rec \in WalletRecord, NEW key \in Key, Fitting(rec, key),
           rec.num_addresses >= handles[s]
    PROVE  /\ Good([m EXCEPT !.wallet[s] = Sealed(rec, key)], handles)
           /\ [m EXCEPT !.wallet[s] = Sealed(rec, key)].wallet[s] = Sealed(rec, key)
<1>. DEFINE c == [m EXCEPT !.wallet[s] = Sealed(rec, key)]
<1>1. m \in Memory
  BY Zenon DEF Good
<1>2. Sealed(rec, key) \in StoredRecord
  BY Zenon DEF Sealed, StoredRecord, WalletRecord, Encrypted, calculateWalletChecksum
<1>3. c = [pool |-> m.pool, wallet |-> [m.wallet EXCEPT ![s] = Sealed(rec, key)]]
  BY <1>1 DEF Memory
<1>4. c \in Memory
  BY Zenon, <1>1, <1>2, <1>3 DEF Memory
<1>5. c.wallet[s] = Sealed(rec, key) /\ \A t \in Slot \ {s} : c.wallet[t] = m.wallet[t]
  BY Zenon, <1>1, <1>3 DEF Memory
<1>6. /\ Sealed(rec, key).encrypted.checksum = rec
      /\ Sealed(rec, key).encrypted.key = key
      /\ Sealed(rec, key).encrypted.num_addresses = rec.num_addresses
  BY Zenon DEF Sealed, calculateWalletChecksum
<1>. HIDE DEF c
<1>7. ASSUME NEW t \in Slot, c.wallet[t].encrypted # Junk
      PROVE  /\ Fitting(c.wallet[t].encrypted.checksum, c.wallet[t].encrypted.key)
             /\ c.wallet[t].encrypted.num_addresses >= handles[t]
  <2>1. CASE t = s
    BY Zenon, <2>1, <1>5, <1>6
  <2>2. CASE t # s
    BY Zenon, <2>2, <1>5, <1>7 DEF Good
  <2>. QED BY Zenon, <2>1, <2>2
<1>8. Good(c, handles)
  BY Zenon, <1>4, <1>7 DEF Good
<1>. QED BY Zenon, <1>5, <1>8 DEF c

LEMMA SealedFields ==
    ASSUME NEW rec \in WalletRecord, NEW key \in Key
    PROVE  /\ SameLabel(Sealed(rec, key), rec)
           /\ Behind(Sealed(rec, key), rec)
           /\ Intact(Sealed(rec, key))
           /\ Sealed(rec, key).encrypted.seed = rec.seed
           /\ Sealed(rec, key).encrypted.num_addresses = rec.num_addresses
<1>. DEFINE w == Sealed(rec, key)
<1>1. /\ w.version = rec.version /\ w.name = rec.name /\ w.uuid = rec.uuid
      /\ w.encrypted = [key |-> key, num_addresses |-> rec.num_addresses,
                        seed |-> rec.seed, checksum |-> rec]
  BY Zenon DEF Sealed, calculateWalletChecksum
<1>2. Opened(w) = [version |-> rec.version, name |-> rec.name, uuid |-> rec.uuid,
                   num_addresses |-> rec.num_addresses, seed |-> rec.seed]
  BY <1>1 DEF Opened
<1>3. Opened(w) = rec
  BY Zenon, <1>2 DEF WalletRecord
<1>4. w.encrypted \in Encrypted
  BY <1>1 DEF Encrypted, WalletRecord
<1>. HIDE DEF w
<1>5. Intact(w)
  BY <1>1, <1>3, <1>4, JunkAssumption DEF Intact, ChecksumOK, calculateWalletChecksum
<1>6. Behind(w, rec)
  BY <1>1, WalletAssumption DEF Behind, WalletRecord
<1>. QED BY <1>1, <1>5, <1>6 DEF SameLabel, w

\* A record that initWallet() accepts is sealed under the key it derived.
LEMMA OpenedFits ==
    ASSUME NEW m, NEW handles \in Handles, Good(m, handles), NEW s \in Slot,
           NEW password \in AnyPassword,
           InitResult(m, s, password) = "WALLET_NO_ERROR"
    PROVE  LET w == m.wallet[s]
               key == DeriveKey(password, w.uuid)
           IN  /\ Opened(w) \in WalletRecord
               /\ Fitting(Opened(w), key)
               /\ Opened(w).version = w.version
               /\ Opened(w).num_addresses >= handles[s]
               /\ w = Sealed(Opened(w), key)
<1>. DEFINE w == m.wallet[s]
            key == DeriveKey(password, w.uuid)
<1>1. w \in StoredRecord
  BY Zenon DEF Good, Memory
<1>2. ChecksumOK(w, key)
  BY Zenon DEF InitResult
<1>3. /\ w.encrypted \in Encrypted /\ w.encrypted # Junk
      /\ w.encrypted.key = key /\ w.encrypted.checksum = Opened(w)
  BY Zenon, <1>1, <1>2 DEF ChecksumOK, StoredRecord, calculateWalletChecksum
<1>4. Opened(w) \in WalletRecord
  BY Zenon, <1>1, <1>3 DEF Opened, StoredRecord, Encrypted, WalletRecord
<1>5. Fitting(Opened(w), key) /\ w.encrypted.num_addresses >= handles[s]
  BY Zenon, <1>3 DEF Good
<1>6. Opened(w).version = w.version /\ Opened(w).num_addresses = w.encrypted.num_addresses
  BY Zenon DEF Opened
<1>7. w.encrypted = [key |-> key, num_addresses |-> w.encrypted.num_addresses,
                     seed |-> w.encrypted.seed, checksum |-> Opened(w)]
  BY Zenon, <1>3 DEF Encrypted
<1>8. w = [version |-> w.version, name |-> w.name, uuid |-> w.uuid, encrypted |-> w.encrypted]
  BY Zenon, <1>1 DEF StoredRecord
<1>9. w = Sealed(Opened(w), key)
  BY Zenon, <1>7, <1>8 DEF Sealed, Opened, calculateWalletChecksum
<1>. QED BY Zenon, <1>4, <1>5, <1>6, <1>9

-----------------------------------------------------------------------------
(* RAM. *)

\* No wallet is loaded after the step.
Emptied ==
    /\ wallet_loaded' = FALSE
    /\ is_hidden_wallet' \in BOOLEAN
    /\ diverged' = FALSE
    /\ current_wallet' = Junk
    /\ wallet_nv_address' \in Slot
    /\ encryption_key' \in Key
    /\ parent_key_cache' = Junk

LEMMA EmptiedInv == ASSUME Emptied PROVE RamInv'
BY Zenon DEF Emptied, RamInv, LoadedAgreesWithStore, CacheBelongsToLoadedWallet

LEMMA Unloaded ==
    ASSUME Unload, encryption_key' \in Key
    PROVE  RamInv'
<1>1. Emptied
  BY Zenon, SlotNat DEF Unload, Emptied, clearParentPublicKeyCache
<1>. QED BY Zenon, <1>1, EmptiedInv

LEMMA UnloadedAt ==
    ASSUME NEW s \in Slot, UnloadAt(s), encryption_key' \in Key
    PROVE  RamInv'
<1>1. Emptied
  BY Zenon DEF UnloadAt, Emptied, clearParentPublicKeyCache
<1>. QED BY Zenon, <1>1, EmptiedInv

LEMMA ResetInv == ASSUME Reset PROVE RamInv' /\ LastInv'
<1>1. ZeroKey \in Key
  BY Zenon DEF ZeroKey, Key, AnyPassword
<1>2. RamInv'
  BY Zenon, <1>1, Unloaded DEF Reset
<1>3. last' = [op |-> "reset", slot |-> 0, result |-> "WALLET_NO_ERROR"]
  BY Zenon DEF Reset, Report
<1>4. LastInv'
  BY <1>3, WalletAssumption DEF LastInv, Op, Result, SuccessIsDurable, DeletedMeansErased
<1>. QED BY Zenon, <1>2, <1>4

\* The wallet in RAM does not change, nor do the records.
LEMMA RamUnchanged ==
    ASSUME RamInv, UNCHANGED <<ram, diverged, issued>>, nv'.wallet = nv.wallet
    PROVE  RamInv'
BY Zenon DEF RamInv, ram, LoadedAgreesWithStore, CacheBelongsToLoadedWallet

LEMMA LoadedFrom ==
    ASSUME NEW s \in Slot, NEW password \in AnyPassword, issued' \in Handles, Good(nv', issued'),
           InitFrom(nv', s, password)
    PROVE  /\ RamInv'
           /\ InitResult(nv', s, password) = "WALLET_NO_ERROR" =>
                 nv'.wallet[wallet_nv_address'] = Sealed(current_wallet', encryption_key')
<1>. DEFINE w == nv'.wallet[s]
            key == DeriveKey(password, w.uuid)
<1>0. w \in StoredRecord
  BY Zenon DEF Good, Memory
<1>1. key \in Key
  BY Zenon, <1>0, KeyOfPassword DEF StoredRecord
<1>2. /\ wallet_nv_address' = s /\ encryption_key' = key /\ parent_key_cache' = Junk
      /\ is_hidden_wallet' = (w.version = "NOTHING_THERE") /\ diverged' = FALSE
      /\ wallet_loaded' = (InitResult(nv', s, password) = "WALLET_NO_ERROR")
  BY Zenon DEF InitFrom, clearParentPublicKeyCache
<1>3. CASE InitResult(nv', s, password) = "WALLET_NO_ERROR"
  <2>1. current_wallet' = Opened(w)
    BY Zenon, <1>3 DEF InitFrom
  <2>2. /\ Opened(w) \in WalletRecord
        /\ Fitting(Opened(w), key)
        /\ Opened(w).version = w.version
        /\ Opened(w).num_addresses >= issued'[s]
        /\ w = Sealed(Opened(w), key)
    BY Zenon, <1>3, OpenedFits
  <2>. HIDE DEF w, key
  <2>3. w = Sealed(current_wallet', encryption_key')
    BY Zenon, <2>1, <2>2, <1>2
  <2>4. nv'.wallet[wallet_nv_address'] = Sealed(current_wallet', encryption_key')
    BY Zenon, <2>3, <1>2 DEF w
  <2>5. LoadedAgreesWithStore' /\ CacheBelongsToLoadedWallet'
    BY Zenon, <2>4, <1>2 DEF LoadedAgreesWithStore, CacheBelongsToLoadedWallet
  <2>6. /\ Behind(nv'.wallet[wallet_nv_address'], current_wallet')
        /\ SameLabel(nv'.wallet[wallet_nv_address'], current_wallet')
    BY Zenon, <1>1, <1>2, <2>1, <2>2, <2>4, SealedFields DEF key, w
  <2>7. RamInv'
    BY Zenon, <2>1, <2>2, <2>5, <2>6, <1>1, <1>2 DEF RamInv
  <2>. QED BY Zenon, <2>4, <2>7
<1>4. CASE InitResult(nv', s, password) # "WALLET_NO_ERROR"
  <2>1. Emptied
    BY Zenon, <1>1, <1>2, <1>4 DEF InitFrom, Emptied
  <2>. QED BY Zenon, <2>1, <1>4, EmptiedInv
<1>. QED BY Zenon, <1>3, <1>4

-----------------------------------------------------------------------------
(* What a call reports. *)

Promising == {"newWallet", "makeNewAddress", "changeEncryptionKey", "changeWalletName"}
Erasing == {"format", "deleteWallet"}

LEMMA Reported ==
    ASSUME NEW op \in Op, NEW s \in 0 .. NumWallets, NEW result \in Result, Report(op, s, result),
           op \in Promising /\ result = "WALLET_NO_ERROR" =>
              flash'.wallet[wallet_nv_address'] = Sealed(current_wallet', encryption_key'),
           op \in Erasing /\ result = "WALLET_NO_ERROR" =>
              \A t \in Slot : op = "format" \/ s = t =>
                 nv'.wallet[t].encrypted = Junk /\ flash'.wallet[t].encrypted = Junk
    PROVE  LastInv'
<1>1. last' = [op |-> op, slot |-> s, result |-> result]
  BY Zenon DEF Report
<1>2. last'.op = op /\ last'.slot = s /\ last'.result = result
  BY Zenon, <1>1
<1>3. last' \in [op : Op, slot : 0 .. NumWallets, result : Result]
  BY Zenon, <1>1
<1>4. SuccessIsDurable'
  BY Zenon, <1>2 DEF SuccessIsDurable, Promising
<1>5. DeletedMeansErased'
  BY Zenon, <1>2 DEF DeletedMeansErased, Erasing
<1>. QED BY Zenon, <1>3, <1>4, <1>5 DEF LastInv

LEMMA SanitiseErases ==
    ASSUME NEW sweep, NEW chip, NEW s \in Slot,
           sweep[3].wallet[s].encrypted = Junk, sweep[4].wallet[s].encrypted = Junk,
           sanitiseNonVolatileStorage(sweep, chip, "WALLET_NO_ERROR")
    PROVE  nv'.wallet[s].encrypted = Junk /\ flash'.wallet[s].encrypted = Junk
<1>1. ASSUME NEW a, NEW b, NEW n, a.wallet[s].encrypted = Junk, b.wallet[s].encrypted = Junk
      PROVE  Splice(a, b, n).wallet[s].encrypted = Junk
  BY Zenon, <1>1 DEF Splice
<1>2. ErasedMemory.wallet[s].encrypted = Junk
  BY Zenon DEF ErasedMemory, ErasedRecord
<1>3. CASE PutOK(sweep[4])
  BY Zenon, <1>3 DEF PutOK
<1>4. CASE \E n \in Location : FlushFails(Splice(sweep[3], sweep[4], n), sweep[4])
  BY <1>1, <1>2, <1>4 DEF FlushFails, Damaged
<1>. QED BY Zenon, <1>3, <1>4 DEF sanitiseNonVolatileStorage

-----------------------------------------------------------------------------
(* The operations. *)

LEMMA InitInvariant == Init => IInv
<1>. SUFFICES ASSUME Init PROVE IInv
  BY Zenon
<1>1. issued \in Handles
  BY WalletAssumption DEF Init, Handles
<1>2. StoreInv
  BY <1>1, ErasedGood, WalletAssumption DEF Init, StoreInv
<1>3. RamInv
  BY Zenon, SlotNat DEF Init, RamInv, LoadedAgreesWithStore, CacheBelongsToLoadedWallet, ZeroKey, Key, AnyPassword
<1>4. LastInv
  BY WalletAssumption DEF Init, LastInv, Op, Result, SuccessIsDurable, DeletedMeansErased
<1>. QED BY Zenon, <1>2, <1>3, <1>4 DEF IInv

\* A step that changes neither storage nor the handles.
LEMMA StoreUnchanged == ASSUME StoreInv, StorageUnchanged, UNCHANGED issued PROVE StoreInv'
BY Zenon DEF StoreInv, StorageUnchanged

LEMMA StoreUpdated == ASSUME issued' \in Handles, StoredWell(issued') PROVE StoreInv'
BY Zenon DEF StoreInv, StoredWell

LEMMA EarlyReturnInv ==
    ASSUME IInv, NEW op \in Op \ Erasing, NEW result \in Result, EarlyReturn(op, result),
           op = "query" \/ result # "WALLET_NO_ERROR"
    PROVE  IInv'
<1>1. StoreInv'
  BY Zenon, StoreUnchanged DEF IInv, EarlyReturn
<1>2. RamInv'
  BY Zenon, RamUnchanged DEF IInv, EarlyReturn, StorageUnchanged
<1>3. wallet_nv_address \in 0 .. NumWallets
  BY WalletAssumption DEF IInv, RamInv, Slot
<1>4. LastInv'
  BY Zenon, <1>3, Reported DEF EarlyReturn, Promising, Erasing
<1>. QED BY Zenon, <1>1, <1>2, <1>4 DEF IInv

LEMMA PowerLossInv == ASSUME IInv, PowerLoss PROVE IInv'
<1>1. StoreInv'
  BY Zenon DEF IInv, StoreInv, PowerLoss
<1>. QED BY Zenon, <1>1, ResetInv DEF IInv, PowerLoss

LEMMA uninitWalletInv == ASSUME IInv, uninitWallet PROVE IInv'
<1>1. StoreInv'
  BY Zenon, StoreUnchanged DEF IInv, uninitWallet
<1>2. RamInv'
  BY Zenon, Unloaded DEF IInv, RamInv, uninitWallet
<1>3. LastInv'
  BY Reported, WalletAssumption DEF uninitWallet, Op, Result, Promising, Erasing
<1>. QED BY Zenon, <1>1, <1>2, <1>3 DEF IInv

\* A failed read leaves no wallet loaded.
LEMMA ReadFailsInv ==
    ASSUME IInv, NEW s \in Slot, NEW key \in Key, ReadFails(s, key), UNCHANGED issued
    PROVE  StoreInv' /\ RamInv'
<1>1. StoreInv'
  BY Zenon, FaultBound DEF IInv, StoreInv, ReadFails
<1>2. Emptied
  BY Zenon DEF IInv, RamInv, ReadFails, Emptied, clearParentPublicKeyCache
<1>. QED BY Zenon, <1>1, <1>2, EmptiedInv

LEMMA initWalletInv ==
    ASSUME IInv, NEW s \in 0 .. NumWallets, NEW password \in AnyPassword, initWallet(s, password)
    PROVE  IInv'
<1>1. CASE s \notin Slot
  <2>1. /\ Unload /\ StorageUnchanged /\ UNCHANGED <<encryption_key, issued>>
        /\ Report("initWallet", s, "WALLET_INVALID_WALLET_NUM")
    BY Zenon, <1>1 DEF initWallet
  <2>2. StoreInv'
    BY Zenon, <2>1, StoreUnchanged DEF IInv
  <2>3. RamInv'
    BY Zenon, <2>1, Unloaded DEF IInv, RamInv
  <2>4. LastInv'
    BY Zenon, <2>1, Reported DEF Op, Result, Promising, Erasing
  <2>. QED BY Zenon, <2>2, <2>3, <2>4 DEF IInv
<1>2. CASE /\ s \in Slot /\ InitFrom(nv, s, password) /\ StorageUnchanged /\ UNCHANGED issued
           /\ Report("initWallet", s, InitResult(nv, s, password))
  <2>1. StoreInv'
    BY Zenon, <1>2, StoreUnchanged DEF IInv
  <2>2. nv' = nv
    BY Zenon, <1>2 DEF StorageUnchanged
  <2>3. InitFrom(nv', s, password)
    BY Zenon, <1>2, <2>2
  <2>4. RamInv'
    BY Zenon, <1>2, <2>1, <2>3, LoadedFrom DEF StoreInv
  <2>5. InitResult(nv, s, password) \in Result
    BY Zenon DEF InitResult, Result
  <2>6. LastInv'
    BY Zenon, <1>2, <2>5, Reported DEF Op, Promising, Erasing
  <2>. QED BY Zenon, <2>1, <2>4, <2>6 DEF IInv
<1>3. CASE /\ s \in Slot /\ ReadFails(s, DeriveKey(password, nv.wallet[s].uuid)) /\ UNCHANGED issued
           /\ Report("initWallet", s, "WALLET_READ_ERROR")
  <2>1. nv.wallet[s].uuid \in UUIDs \cup {Junk}
    BY Zenon, <1>3 DEF IInv, StoreInv, Good, Memory, StoredRecord
  <2>2. DeriveKey(password, nv.wallet[s].uuid) \in Key
    BY Zenon, <2>1, KeyOfPassword
  <2>3. StoreInv' /\ RamInv'
    BY Zenon, <1>3, <2>2, ReadFailsInv
  <2>4. LastInv'
    BY Zenon, <1>3, Reported DEF Op, Result, Promising, Erasing
  <2>. QED BY Zenon, <2>3, <2>4 DEF IInv
<1>. QED BY Zenon, <1>1, <1>2, <1>3 DEF initWallet

LEMMA ForgottenHandles ==
    ASSUME StoreInv, NEW s \in Slot, issued' = [issued EXCEPT ![s] = 0]
    PROVE  issued' \in Handles /\ issued'[s] = 0 /\ Good(nv, issued') /\ Good(flash, issued')
<1>1. issued' \in Handles /\ issued'[s] = 0 /\ \A t \in Slot : issued'[t] <= issued[t]
  BY WalletAssumption DEF StoreInv, Handles
<1>. QED BY Zenon, <1>1, FewerHandles DEF StoreInv

\* newWallet() on a free record, in all its outcomes.
LEMMA CreateInInv ==
    ASSUME IInv, NEW s \in Slot, IsFree(nv.wallet[s]),
           NEW name \in Names, NEW seed \in Seeds, NEW make_hidden \in BOOLEAN,
           NEW password \in AnyPassword,
           NEW uuid \in IF make_hidden THEN {nv.wallet[s].uuid} ELSE UUIDs,
           CreateIn(s, name, uuid, seed, make_hidden, password)
    PROVE  IInv'
<1>. DEFINE key == DeriveKey(password, uuid)
            rec == NewRecord(nv.wallet[s], name, uuid, seed, make_hidden, key)
            new == [nv EXCEPT !.wallet[s] = Sealed(rec, key)]
<1>1. nv.wallet[s] \in StoredRecord /\ s \in 0 .. NumWallets
  BY WalletAssumption DEF IInv, StoreInv, Good, Memory, Slot
<1>2. uuid \in UUIDs \cup {Junk}
  BY Zenon, <1>1 DEF StoredRecord
<1>3. key \in Key /\ key.password = password
  BY Zenon, <1>2, KeyOfPassword
<1>4. VersionFor(key) \in {"UNENCRYPTED", "IS_ENCRYPTED"}
  BY Zenon DEF VersionFor
<1>5. rec \in WalletRecord /\ rec.uuid = uuid /\ rec.num_addresses = 0
  <2>. HIDE DEF key
  <2>1. CASE make_hidden
    BY <2>1, <1>1, WalletAssumption DEF NewRecord, WalletRecord, StoredRecord
  <2>2. CASE ~make_hidden
    BY <2>2, <1>4, WalletAssumption DEF NewRecord, WalletRecord, Version
  <2>. QED BY Zenon, <2>1, <2>2
<1>6. rec.version = "NOTHING_THERE" \/ rec.version = VersionFor(key)
  BY Zenon DEF NewRecord, IsFree
<1>7. Fitting(rec, key)
  <2>1. key = DeriveKey(key.password, rec.uuid)
    BY Zenon, <1>3, <1>5
  <2>. HIDE DEF key, rec
  <2>. QED BY Zenon, <2>1, <1>4, <1>6 DEF Fitting, Visible
<1>. HIDE DEF key, rec, new
<1>8. CASE /\ RandomFails /\ UnloadAt(s) /\ encryption_key' \in {encryption_key, key}
           /\ Report("newWallet", s, "WALLET_RNG_FAILURE") /\ UNCHANGED issued
  <2>1. StoredWell(issued')
    BY Zenon, <1>8, RandomFailsWell DEF IInv, StoreInv
  <2>2. StoreInv'
    BY Zenon, <1>8, <2>1, StoreUpdated DEF IInv, StoreInv
  <2>3. encryption_key' \in Key
    BY Zenon, <1>3, <1>8 DEF IInv, RamInv
  <2>4. RamInv'
    BY Zenon, <1>8, <2>3, UnloadedAt
  <2>5. LastInv'
    BY Zenon, <1>1, <1>8, Reported DEF Op, Result, Promising, Erasing
  <2>. QED BY Zenon, <2>2, <2>4, <2>5 DEF IInv
<1>9. ASSUME issued' = [issued EXCEPT ![s] = 0]
      PROVE  /\ faults \in 0 .. MaxFaults /\ issued' \in Handles
             /\ Good(nv, issued') /\ Good(flash, issued') /\ Good(new, issued')
  <2>1. issued' \in Handles /\ issued'[s] = 0 /\ Good(nv, issued') /\ Good(flash, issued')
    BY Zenon, <1>9, ForgottenHandles DEF IInv
  <2>2. rec.num_addresses >= issued'[s]
    BY <1>5, <2>1
  <2>3. Good(new, issued')
    BY Zenon, <1>3, <1>5, <1>7, <2>1, <2>2, SealedGood DEF new
  <2>. QED BY Zenon, <2>1, <2>3 DEF IInv, StoreInv
<1>10. CASE /\ PutFails(nv, nv, new) /\ UnloadAt(s) /\ encryption_key' = key
            /\ Report("newWallet", s, "WALLET_WRITE_ERROR")
            /\ issued' = [issued EXCEPT ![s] = 0]
  <2>1. StoreInv'
    BY Zenon, <1>9, <1>10, PutsAreGood, StoreUpdated
  <2>2. RamInv'
    BY Zenon, <1>3, <1>10, UnloadedAt
  <2>3. LastInv'
    BY Zenon, <1>1, <1>10, Reported DEF Op, Result, Promising, Erasing
  <2>. QED BY Zenon, <2>1, <2>2, <2>3 DEF IInv
<1>11. CASE /\ PutInterrupted(flash, nv) \/ PutInterrupted(nv, new)
            /\ Reset
            /\ issued' = [issued EXCEPT ![s] = 0]
  <2>1. StoreInv'
    BY Zenon, <1>9, <1>11, PutsAreGood, StoreUpdated
  <2>. QED BY Zenon, <2>1, <1>11, ResetInv DEF IInv
<1>12. CASE /\ PutOK(new) /\ InitFrom(new, s, password)
            /\ Report("newWallet", s, InitResult(new, s, password))
            /\ issued' = [issued EXCEPT ![s] = 0]
  <2>1. StoreInv'
    BY Zenon, <1>9, <1>12, PutsAreGood, StoreUpdated
  <2>2. nv' = new /\ flash' = new
    BY Zenon, <1>12 DEF PutOK
  <2>3. /\ RamInv'
        /\ InitResult(new, s, password) = "WALLET_NO_ERROR" =>
              new.wallet[wallet_nv_address'] = Sealed(current_wallet', encryption_key')
    BY Zenon, <1>9, <1>12, <2>2, LoadedFrom
  <2>4. InitResult(new, s, password) \in Result
    BY Zenon DEF InitResult, Result
  <2>5. LastInv'
    BY Zenon, <1>1, <1>12, <2>2, <2>3, <2>4, Reported DEF Op, Erasing
  <2>. QED BY Zenon, <2>1, <2>3, <2>5 DEF IInv
<1>. QED BY Zenon, <1>8, <1>10, <1>11, <1>12 DEF CreateIn, key, rec, new

LEMMA newWalletInv ==
    ASSUME IInv, NEW s \in 0 .. NumWallets, newWallet(s)
    PROVE  IInv'
<1>1. CASE /\ s \notin Slot /\ Unload /\ Report("newWallet", s, "WALLET_INVALID_WALLET_NUM")
           /\ StorageUnchanged /\ UNCHANGED <<encryption_key, issued>>
  <2>1. StoreInv'
    BY Zenon, <1>1, StoreUnchanged DEF IInv
  <2>2. RamInv'
    BY Zenon, <1>1, Unloaded DEF IInv, RamInv
  <2>3. LastInv'
    BY Zenon, <1>1, Reported DEF Op, Result, Promising, Erasing
  <2>. QED BY Zenon, <2>1, <2>2, <2>3 DEF IInv
<1>2. CASE /\ s \in Slot /\ ReadFails(s, encryption_key) /\ UNCHANGED issued
           /\ Report("newWallet", s, "WALLET_READ_ERROR")
  <2>1. StoreInv' /\ RamInv'
    BY Zenon, <1>2, ReadFailsInv DEF IInv, RamInv
  <2>2. LastInv'
    BY Zenon, <1>2, Reported DEF Op, Result, Promising, Erasing
  <2>. QED BY Zenon, <2>1, <2>2 DEF IInv
<1>3. CASE /\ s \in Slot /\ UnloadAt(s) /\ Report("newWallet", s, "WALLET_ALREADY_EXISTS")
           /\ StorageUnchanged /\ UNCHANGED <<encryption_key, issued>>
  <2>1. StoreInv'
    BY Zenon, <1>3, StoreUnchanged DEF IInv
  <2>2. RamInv'
    BY Zenon, <1>3, UnloadedAt DEF IInv, RamInv
  <2>3. LastInv'
    BY Zenon, <1>3, Reported DEF Op, Result, Promising, Erasing
  <2>. QED BY Zenon, <2>1, <2>2, <2>3 DEF IInv
<1>4. CASE /\ s \in Slot
           /\ IsFree(nv.wallet[s])
           /\ \E name \in Names, seed \in Seeds, make_hidden \in BOOLEAN, password \in AnyPassword :
                 \E uuid \in IF make_hidden THEN {nv.wallet[s].uuid} ELSE UUIDs :
                    CreateIn(s, name, uuid, seed, make_hidden, password)
  BY Zenon, <1>4, CreateInInv
<1>. QED BY Zenon, <1>1, <1>2, <1>3, <1>4 DEF newWallet

LEMMA deleteWalletInv ==
    ASSUME IInv, NEW s \in 0 .. NumWallets, deleteWallet(s)
    PROVE  IInv'
<1>1. CASE /\ s \notin Slot /\ Report("deleteWallet", s, "WALLET_INVALID_WALLET_NUM")
           /\ StorageUnchanged /\ UNCHANGED <<ram, issued, diverged>>
  <2>1. StoreInv'
    BY Zenon, <1>1, StoreUnchanged DEF IInv
  <2>2. RamInv'
    BY Zenon, <1>1, RamUnchanged DEF IInv, StorageUnchanged
  <2>3. LastInv'
    BY Zenon, <1>1, Reported DEF Op, Result, Promising, Erasing
  <2>. QED BY Zenon, <2>1, <2>2, <2>3 DEF IInv
<1>2. CASE /\ s \in Slot /\ Unload /\ Report("deleteWallet", s, "WALLET_RNG_FAILURE")
           /\ StorageUnchanged /\ UNCHANGED <<encryption_key, issued>>
  <2>1. StoreInv'
    BY Zenon, <1>2, StoreUnchanged DEF IInv
  <2>2. RamInv'
    BY Zenon, <1>2, Unloaded DEF IInv, RamInv
  <2>3. LastInv'
    BY Zenon, <1>2, Reported DEF Op, Result, Promising, Erasing
  <2>. QED BY Zenon, <2>1, <2>2, <2>3 DEF IInv
<1>3. ASSUME s \in Slot, issued' = [issued EXCEPT ![s] = 0], NEW u \in [{s} -> UUIDs]
      PROVE  /\ \A p \in -1 .. 4 : Good(Sweep(nv, {s}, u)[p], issued')
             /\ Sweep(nv, {s}, u)[3].wallet[s].encrypted = Junk
             /\ Sweep(nv, {s}, u)[4].wallet[s].encrypted = Junk
             /\ issued' \in Handles /\ Good(flash, issued') /\ faults \in 0 .. MaxFaults
  <2>1. issued' \in Handles /\ Good(nv, issued') /\ Good(flash, issued')
    BY Zenon, <1>3, ForgottenHandles DEF IInv
  <2>2. {s} \in SUBSET Slot
    BY Zenon, <1>3
  <2>. QED BY SMTT(30), <1>3, <2>1, <2>2, SweepsGood DEF IInv, StoreInv
<1>4. ASSUME s \in Slot, issued' = [issued EXCEPT ![s] = 0], NEW u \in [{s} -> UUIDs],
             NEW result \in SanitiseResult,
             sanitiseNonVolatileStorage(Sweep(nv, {s}, u), flash, result),
             Unload, Report("deleteWallet", s, result), UNCHANGED encryption_key
      PROVE  IInv'
  <2>1. StoreInv'
    BY Zenon, <1>3, <1>4, SanitiseWell, StoreUpdated
  <2>2. RamInv'
    BY Zenon, <1>4, Unloaded DEF IInv, RamInv
  <2>3. result = "WALLET_NO_ERROR" =>
           nv'.wallet[s].encrypted = Junk /\ flash'.wallet[s].encrypted = Junk
    BY Zenon, <1>3, <1>4, SanitiseErases
  <2>4. result \in Result
    BY Zenon DEF SanitiseResult, Result
  <2>5. LastInv'
    BY Zenon, <1>4, <2>3, <2>4, Reported DEF Op, Promising
  <2>. QED BY Zenon, <2>1, <2>2, <2>5 DEF IInv
<1>5. ASSUME s \in Slot, issued' = [issued EXCEPT ![s] = 0], NEW u \in [{s} -> UUIDs],
             SweepInterrupted(Sweep(nv, {s}, u), flash), Reset
      PROVE  IInv'
  <2>1. StoreInv'
    BY Zenon, <1>3, <1>5, SanitiseWell, StoreUpdated
  <2>. QED BY Zenon, <2>1, <1>5, ResetInv DEF IInv
<1>. QED BY Zenon, <1>1, <1>2, <1>4, <1>5 DEF deleteWallet

LEMMA FormatInv == ASSUME IInv, Format PROVE IInv'
<1>. DEFINE pooled == [nv EXCEPT !.pool = TRUE]
            wiped == [nv EXCEPT !.pool = FALSE]
<1>1. /\ issued \in Handles /\ faults \in 0 .. MaxFaults
      /\ Good(nv, issued) /\ Good(flash, issued)
  BY Zenon DEF IInv, StoreInv
<1>2. /\ Good(pooled, issued) /\ Good(wiped, issued)
      /\ pooled.wallet = nv.wallet /\ wiped.wallet = nv.wallet
  BY Zenon, <1>1, PoolGood
<1>3. 0 \in 0 .. NumWallets /\ encryption_key \in Key
  BY WalletAssumption DEF IInv, RamInv
<1>. HIDE DEF pooled, wiped
<1>4. CASE /\ \/ FlushFails(flash, pooled)
              \/ Fault /\ nv' \in {nv, wiped} /\ flash' = flash
           /\ Report("format", 0, "WALLET_RNG_FAILURE") /\ UNCHANGED <<ram, issued, diverged>>
  <2>1. StoredWell(issued)
    BY Zenon, <1>1, <1>2, <1>4, PutsAreGood, FaultBound DEF PutFails, StoredWell
  <2>2. nv'.wallet = nv.wallet
    BY Zenon, <1>2, <1>4 DEF FlushFails
  <2>3. StoreInv'
    BY Zenon, <1>1, <1>4, <2>1, StoreUpdated
  <2>4. RamInv'
    BY Zenon, <1>4, <2>2, RamUnchanged DEF IInv
  <2>5. LastInv'
    BY Zenon, <1>3, <1>4, Reported DEF Op, Result, Promising
  <2>. QED BY Zenon, <2>3, <2>4, <2>5 DEF IInv
<1>5. CASE /\ \/ PutFails(pooled, pooled, wiped) /\ Report("format", 0, "WALLET_WRITE_ERROR")
              \/ /\ Fault /\ nv' \in {pooled, wiped} /\ flash' \in Damaged(wiped, nv')
                 /\ Report("format", 0, "WALLET_RNG_FAILURE")
           /\ Unload /\ UNCHANGED <<encryption_key, issued>>
  <2>1. StoredWell(issued)
    BY Zenon, <1>1, <1>2, <1>5, PutsAreGood, DamagedGood, FaultBound DEF StoredWell
  <2>2. StoreInv'
    BY Zenon, <1>1, <1>5, <2>1, StoreUpdated
  <2>3. RamInv'
    BY Zenon, <1>3, <1>5, Unloaded
  <2>4. LastInv'
    BY Zenon, <1>3, <1>5, Reported DEF Op, Result, Promising
  <2>. QED BY Zenon, <2>2, <2>3, <2>4 DEF IInv
<1>6. ASSUME issued' = [s \in Slot |-> 0], NEW u \in [Slot -> UUIDs]
      PROVE  /\ \A p \in -1 .. 4 : Good(Sweep(pooled, Slot, u)[p], issued')
             /\ \A s \in Slot : /\ Sweep(pooled, Slot, u)[3].wallet[s].encrypted = Junk
                               /\ Sweep(pooled, Slot, u)[4].wallet[s].encrypted = Junk
             /\ issued' \in Handles /\ Good(pooled, issued')
  <2>1. issued' \in Handles /\ \A s \in Slot : issued'[s] <= issued[s]
    BY <1>1, <1>6, WalletAssumption DEF Handles
  <2>2. Good(pooled, issued')
    BY Zenon, <1>1, <1>2, <2>1, FewerHandles
  <2>. QED BY <1>6, <2>1, <2>2, SweepsGood
<1>7. ASSUME issued' = [s \in Slot |-> 0], NEW u \in [Slot -> UUIDs], NEW result \in SanitiseResult,
             sanitiseNonVolatileStorage(Sweep(pooled, Slot, u), pooled, result),
             Unload, Report("format", 0, result), UNCHANGED encryption_key
      PROVE  IInv'
  <2>1. StoreInv'
    BY Zenon, <1>1, <1>6, <1>7, SanitiseWell, StoreUpdated
  <2>2. RamInv'
    BY Zenon, <1>3, <1>7, Unloaded
  <2>3. result = "WALLET_NO_ERROR" => \A s \in Slot :
           nv'.wallet[s].encrypted = Junk /\ flash'.wallet[s].encrypted = Junk
    BY Zenon, <1>6, <1>7, SanitiseErases
  <2>4. result \in Result
    BY Zenon DEF SanitiseResult, Result
  <2>5. LastInv'
    BY Zenon, <1>3, <1>7, <2>3, <2>4, Reported DEF Op, Promising
  <2>. QED BY Zenon, <2>1, <2>2, <2>5 DEF IInv
<1>8. ASSUME issued' = [s \in Slot |-> 0], NEW u \in [Slot -> UUIDs],
             SweepInterrupted(Sweep(pooled, Slot, u), pooled), Reset
      PROVE  IInv'
  <2>1. StoreInv'
    BY Zenon, <1>1, <1>6, <1>8, SanitiseWell, StoreUpdated
  <2>. QED BY Zenon, <2>1, <1>8, ResetInv DEF IInv
<1>9. CASE /\ PutInterrupted(flash, pooled) \/ PutInterrupted(pooled, wiped) \/ PutInterrupted(wiped, pooled)
           /\ Reset /\ UNCHANGED issued
  <2>1. StoredWell(issued)
    BY Zenon, <1>1, <1>2, <1>9, PutsAreGood
  <2>2. StoreInv'
    BY Zenon, <1>1, <1>9, <2>1, StoreUpdated
  <2>. QED BY Zenon, <2>2, <1>9, ResetInv DEF IInv
<1>. QED BY Zenon, <1>4, <1>5, <1>7, <1>8, <1>9 DEF Format, pooled, wiped

-----------------------------------------------------------------------------
(* Operations on the loaded wallet. *)

\* What an update may make of the record and the key in RAM.
Updates(rec, key) ==
    /\ rec \in WalletRecord
    /\ key \in Key
    /\ Fitting(rec, key)
    /\ is_hidden_wallet <=> rec.version = "NOTHING_THERE"
    /\ rec.num_addresses >= current_wallet.num_addresses
    /\ rec.seed = current_wallet.seed
    /\ is_hidden_wallet => SameLabel(current_wallet, rec)

LEMMA UpdateCounts ==
    ASSUME IInv, wallet_loaded, NEW rec, NEW key, Updates(rec, key)
    PROVE  /\ wallet_nv_address \in Slot
           /\ wallet_nv_address \in 0 .. NumWallets
           /\ issued[wallet_nv_address] \in Nat
           /\ current_wallet.num_addresses \in Nat
           /\ rec.num_addresses \in Nat
           /\ current_wallet.num_addresses >= issued[wallet_nv_address]
           /\ rec.num_addresses >= current_wallet.num_addresses
           /\ rec.num_addresses >= issued[wallet_nv_address]
<1>1. /\ wallet_nv_address \in Slot /\ issued \in Handles
      /\ current_wallet \in WalletRecord
      /\ current_wallet.num_addresses >= issued[wallet_nv_address]
  BY Zenon DEF IInv, RamInv, StoreInv
<1>2. rec \in WalletRecord /\ rec.num_addresses >= current_wallet.num_addresses
  BY Zenon DEF Updates
<1>3. wallet_nv_address \in 0 .. NumWallets
  BY <1>1, WalletAssumption DEF Slot
<1>4. /\ issued[wallet_nv_address] \in Nat
      /\ current_wallet.num_addresses \in Nat
      /\ rec.num_addresses \in Nat
  BY <1>1, <1>2, WalletAssumption DEF Handles, WalletRecord
<1>. QED BY <1>1, <1>2, <1>3, <1>4

LEMMA WithRecordGood ==
    ASSUME IInv, wallet_loaded, NEW rec, NEW key, Updates(rec, key), NEW handles \in Handles,
           \A s \in Slot \ {wallet_nv_address} : handles[s] = issued[s],
           handles[wallet_nv_address] \in {issued[wallet_nv_address], rec.num_addresses}
    PROVE  /\ Good(WithRecord(rec, key), handles)
           /\ WithRecord(rec, key).wallet[wallet_nv_address] = Sealed(rec, key)
<1>1. wallet_nv_address \in Slot /\ rec.num_addresses >= handles[wallet_nv_address]
  BY UpdateCounts
<1>. QED BY SMTT(30), <1>1, SealedGood DEF IInv, StoreInv, Updates, WithRecord

\* After a failed write, the stored record is the old one or the new one,
\* or begins like the new one and ends like the old one.
LEMMA PartlyWritten ==
    ASSUME IInv, wallet_loaded, NEW rec, NEW key, Updates(rec, key),
           PutFails(nv, flash, WithRecord(rec, key))
    PROVE  /\ Behind(nv'.wallet[wallet_nv_address], rec)
           /\ is_hidden_wallet => SameLabel(nv'.wallet[wallet_nv_address], rec)
<1>. DEFINE old == nv.wallet[wallet_nv_address]
            new == Sealed(rec, key)
            w == nv'.wallet[wallet_nv_address]
<1>1. /\ wallet_nv_address \in Slot /\ current_wallet \in WalletRecord
      /\ rec \in WalletRecord /\ key \in Key
  BY Zenon DEF IInv, RamInv, Updates
<1>2. old \in StoredRecord
  BY Zenon, <1>1 DEF IInv, StoreInv, Good, Memory
<1>3. WithRecord(rec, key).wallet[wallet_nv_address] = new
  BY Zenon, WithRecordGood DEF IInv, StoreInv
<1>4. /\ w.version \in {old.version, new.version} /\ w.name \in {old.name, new.name}
      /\ w.uuid \in {old.uuid, new.uuid} /\ w.encrypted \in {old.encrypted, new.encrypted}
  <2>. HIDE DEF new
  <2>. QED BY ZenonT(30), <1>1, <1>3, SplicedFields DEF PutFails, FlushFails, WriteFails
<1>5. SameLabel(new, rec) /\ Behind(new, rec)
  BY Zenon, <1>1, SealedFields
<1>6. Behind(old, rec)
  <2>1. Behind(old, current_wallet)
    BY Zenon DEF IInv, RamInv
  <2>2. old.encrypted # Junk => old.encrypted.num_addresses \in Int
    BY <1>2, WalletAssumption DEF StoredRecord, Encrypted
  <2>. QED BY SMTT(30), <1>1, <2>1, <2>2, WalletAssumption DEF Behind, Updates, WalletRecord
<1>7. is_hidden_wallet => SameLabel(old, rec)
  BY Zenon DEF IInv, RamInv, Updates, SameLabel
<1>. HIDE DEF old, new, w
<1>8. Behind(w, rec)
  BY Zenon, <1>4, <1>5, <1>6 DEF Behind
<1>9. is_hidden_wallet => SameLabel(w, rec)
  BY Zenon, <1>4, <1>5, <1>7 DEF SameLabel
<1>. QED BY Zenon, <1>8, <1>9 DEF w

LEMMA UpdateFailsInv ==
    ASSUME IInv, wallet_loaded, NEW op \in Promising, NEW rec, NEW key, Updates(rec, key),
           UpdateFails(op, rec, key)
    PROVE  IInv'
<1>1. /\ issued \in Handles /\ faults \in 0 .. MaxFaults
      /\ Good(nv, issued) /\ Good(flash, issued)
  BY Zenon DEF IInv, StoreInv
<1>2. Good(WithRecord(rec, key), issued)
  BY Zenon, <1>1, WithRecordGood
<1>3. CASE /\ PutFails(nv, flash, WithRecord(rec, key))
           /\ current_wallet' = rec /\ encryption_key' = key /\ diverged' = TRUE
           /\ Report(op, wallet_nv_address, "WALLET_WRITE_ERROR")
           /\ UNCHANGED <<wallet_loaded, is_hidden_wallet, wallet_nv_address, parent_key_cache, issued>>
  <2>1. StoredWell(issued)
    BY Zenon, <1>1, <1>2, <1>3, PutsAreGood
  <2>2. StoreInv'
    BY Zenon, <1>1, <1>3, <2>1, StoreUpdated
  <2>3. LoadedAgreesWithStore' /\ CacheBelongsToLoadedWallet'
    BY Zenon, <1>3 DEF IInv, RamInv, Updates, LoadedAgreesWithStore, CacheBelongsToLoadedWallet
  <2>4. rec.num_addresses >= issued[wallet_nv_address]
    BY Zenon, UpdateCounts
  <2>5. /\ Behind(nv'.wallet[wallet_nv_address], rec)
        /\ is_hidden_wallet => SameLabel(nv'.wallet[wallet_nv_address], rec)
    BY Zenon, <1>3, PartlyWritten
  <2>6. RamInv'
    BY Zenon, <1>3, <2>3, <2>4, <2>5 DEF IInv, RamInv, Updates
  <2>7. wallet_nv_address \in 0 .. NumWallets
    BY Zenon, UpdateCounts
  <2>8. LastInv'
    BY Zenon, <1>3, <2>7, Reported DEF Op, Result, Promising, Erasing
  <2>. QED BY Zenon, <2>2, <2>6, <2>8 DEF IInv
<1>4. CASE PutInterrupted(flash, WithRecord(rec, key)) /\ Reset /\ UNCHANGED issued
  <2>1. StoredWell(issued)
    BY Zenon, <1>1, <1>2, <1>4, PutsAreGood
  <2>2. StoreInv'
    BY Zenon, <1>1, <1>4, <2>1, StoreUpdated
  <2>. QED BY Zenon, <2>2, <1>4, ResetInv DEF IInv
<1>. QED BY Zenon, <1>3, <1>4 DEF UpdateFails

\* Deriving a key fills the cache from the loaded wallet or leaves it.
LEMMA CacheKept ==
    ASSUME RamInv, wallet_loaded,
           parent_key_cache' = parent_key_cache \/ parent_key_cache' = CacheAfterUse
    PROVE  /\ parent_key_cache' \in Seeds \cup {Junk}
           /\ parent_key_cache' # Junk => parent_key_cache' = current_wallet.seed
BY Zenon DEF RamInv, CacheAfterUse, CacheBelongsToLoadedWallet, WalletRecord

LEMMA UpdateOKInv ==
    ASSUME IInv, wallet_loaded, NEW op \in Promising, NEW rec, NEW key, Updates(rec, key),
           UpdateOK(rec, key), NEW result \in Result, Report(op, wallet_nv_address, result),
           parent_key_cache' = parent_key_cache \/ parent_key_cache' = CacheAfterUse,
           \/ UNCHANGED issued
           \/ issued' = [issued EXCEPT ![wallet_nv_address] = rec.num_addresses]
    PROVE  IInv'
<1>1. /\ issued \in Handles /\ faults \in 0 .. MaxFaults
      /\ wallet_nv_address \in Slot /\ rec.num_addresses \in 0 .. MAX_ADDRESSES
  BY Zenon DEF IInv, StoreInv, RamInv, Updates, WalletRecord
<1>2. /\ issued' \in Handles
      /\ \A s \in Slot \ {wallet_nv_address} : issued'[s] = issued[s]
      /\ issued'[wallet_nv_address] \in {issued[wallet_nv_address], rec.num_addresses}
  BY Zenon, <1>1 DEF Handles
<1>3. /\ Good(WithRecord(rec, key), issued')
      /\ WithRecord(rec, key).wallet[wallet_nv_address] = Sealed(rec, key)
  BY Zenon, <1>2, WithRecordGood
<1>4. /\ nv' = WithRecord(rec, key) /\ flash' = WithRecord(rec, key) /\ faults' = faults
      /\ current_wallet' = rec /\ encryption_key' = key /\ diverged' = FALSE
      /\ UNCHANGED <<wallet_loaded, is_hidden_wallet, wallet_nv_address>>
  BY Zenon DEF UpdateOK, PutOK
<1>5. StoreInv'
  BY Zenon, <1>1, <1>2, <1>3, <1>4 DEF StoreInv
<1>6. /\ nv'.wallet[wallet_nv_address'] = Sealed(current_wallet', encryption_key')
      /\ flash'.wallet[wallet_nv_address'] = Sealed(current_wallet', encryption_key')
  BY Zenon, <1>3, <1>4
<1>7. /\ parent_key_cache' \in Seeds \cup {Junk}
      /\ parent_key_cache' # Junk => parent_key_cache' = current_wallet.seed
  BY Zenon, CacheKept DEF IInv
<1>8. LoadedAgreesWithStore' /\ CacheBelongsToLoadedWallet'
  BY Zenon, <1>4, <1>6, <1>7 DEF Updates, LoadedAgreesWithStore, CacheBelongsToLoadedWallet
<1>9. rec.num_addresses >= issued'[wallet_nv_address]
  BY <1>2, UpdateCounts
<1>10. /\ Behind(nv'.wallet[wallet_nv_address'], current_wallet')
       /\ SameLabel(nv'.wallet[wallet_nv_address'], current_wallet')
  BY Zenon, <1>4, <1>6, SealedFields DEF Updates
<1>11. RamInv'
  BY Zenon, <1>4, <1>7, <1>8, <1>9, <1>10 DEF IInv, RamInv, Updates
<1>12. wallet_nv_address \in 0 .. NumWallets
  BY Zenon, UpdateCounts
<1>13. LastInv'
  BY Zenon, <1>6, <1>12, Reported DEF Op, Promising, Erasing
<1>. QED BY Zenon, <1>5, <1>11, <1>13 DEF IInv

LEMMA AddressUpdates ==
    ASSUME IInv, wallet_loaded, ~IsFull
    PROVE  Updates([current_wallet EXCEPT !.num_addresses = @ + 1], encryption_key)
<1>. DEFINE rec == [current_wallet EXCEPT !.num_addresses = @ + 1]
<1>1. /\ current_wallet \in WalletRecord /\ encryption_key \in Key
      /\ Fitting(current_wallet, encryption_key)
      /\ is_hidden_wallet <=> current_wallet.version = "NOTHING_THERE"
  BY Zenon DEF IInv, RamInv
<1>2. /\ rec = [version |-> current_wallet.version, name |-> current_wallet.name,
                uuid |-> current_wallet.uuid, seed |-> current_wallet.seed,
                num_addresses |-> current_wallet.num_addresses + 1]
  BY <1>1 DEF WalletRecord
<1>3. rec.num_addresses \in 0 .. MAX_ADDRESSES /\ rec.num_addresses >= current_wallet.num_addresses
  BY <1>1, <1>2, WalletAssumption DEF IsFull, WalletRecord
<1>4. rec \in WalletRecord
  BY Zenon, <1>1, <1>2, <1>3 DEF WalletRecord
<1>5. Fitting(rec, encryption_key)
  BY Zenon, <1>1, <1>2 DEF Fitting, Visible
<1>. QED BY Zenon, <1>1, <1>2, <1>3, <1>4, <1>5 DEF Updates, SameLabel

LEMMA RekeyUpdates ==
    ASSUME IInv, wallet_loaded, NEW password \in AnyPassword
    PROVE  LET key == DeriveKey(password, current_wallet.uuid)
           IN  Updates(Rekeyed(key), key)
<1>. DEFINE key == DeriveKey(password, current_wallet.uuid)
            rec == Rekeyed(key)
<1>. SUFFICES Updates(rec, key)
  BY Zenon
<1>1. /\ current_wallet \in WalletRecord
      /\ Fitting(current_wallet, encryption_key)
      /\ is_hidden_wallet <=> current_wallet.version = "NOTHING_THERE"
  BY Zenon DEF IInv, RamInv
<1>2. key \in Key /\ key.password = password
  BY Zenon, <1>1, KeyOfPassword DEF WalletRecord
<1>3. VersionFor(key) \in {"UNENCRYPTED", "IS_ENCRYPTED"}
  BY Zenon DEF VersionFor
<1>4. key = DeriveKey(key.password, current_wallet.uuid)
  BY Zenon, <1>2
<1>. HIDE DEF key
<1>5. CASE is_hidden_wallet
  <2>1. rec = current_wallet
    BY Zenon, <1>5 DEF Rekeyed
  <2>2. Fitting(rec, key)
    BY Zenon, <1>1, <1>4, <1>5, <2>1 DEF Fitting, Visible
  <2>. HIDE DEF rec
  <2>. QED BY <1>1, <1>2, <1>5, <2>1, <2>2, WalletAssumption DEF Updates, SameLabel, WalletRecord
<1>6. CASE ~is_hidden_wallet
  <2>1. rec = [version |-> VersionFor(key), name |-> current_wallet.name,
               uuid |-> current_wallet.uuid, seed |-> current_wallet.seed,
               num_addresses |-> current_wallet.num_addresses]
    BY Zenon, <1>1, <1>6 DEF Rekeyed, WalletRecord
  <2>. HIDE DEF rec
  <2>2. Fitting(rec, key)
    BY Zenon, <1>3, <1>4, <2>1 DEF Fitting, Visible
  <2>3. rec \in WalletRecord
    BY Zenon, <1>1, <1>3, <2>1 DEF WalletRecord, Version
  <2>4. rec.num_addresses >= current_wallet.num_addresses
    BY SMTT(30), <1>1, <2>1, WalletAssumption DEF WalletRecord
  <2>. QED BY Zenon, <1>2, <1>3, <1>6, <2>1, <2>2, <2>3, <2>4 DEF Updates
<1>. QED BY Zenon, <1>5, <1>6

LEMMA RenameUpdates ==
    ASSUME IInv, wallet_loaded, ~is_hidden_wallet, NEW name \in Names
    PROVE  Updates([current_wallet EXCEPT !.name = name], encryption_key)
<1>. DEFINE rec == [current_wallet EXCEPT !.name = name]
<1>1. /\ current_wallet \in WalletRecord /\ encryption_key \in Key
      /\ Fitting(current_wallet, encryption_key)
      /\ is_hidden_wallet <=> current_wallet.version = "NOTHING_THERE"
  BY Zenon DEF IInv, RamInv
<1>2. rec = [version |-> current_wallet.version, name |-> name, uuid |-> current_wallet.uuid,
             seed |-> current_wallet.seed, num_addresses |-> current_wallet.num_addresses]
  BY <1>1 DEF WalletRecord
<1>. HIDE DEF rec
<1>3. rec \in WalletRecord /\ rec.num_addresses >= current_wallet.num_addresses
  BY <1>1, <1>2, WalletAssumption DEF WalletRecord
<1>4. Fitting(rec, encryption_key)
  BY Zenon, <1>1, <1>2 DEF Fitting, Visible
<1>5. Updates(rec, encryption_key)
  BY Zenon, <1>1, <1>2, <1>3, <1>4 DEF Updates
<1>. QED BY Zenon, <1>5 DEF rec

LEMMA makeNewAddressInv == ASSUME IInv, makeNewAddress PROVE IInv'
<1>. DEFINE rec == [current_wallet EXCEPT !.num_addresses = @ + 1]
<1>1. CASE EarlyReturn("makeNewAddress", "WALLET_NOT_LOADED") \/ EarlyReturn("makeNewAddress", "WALLET_FULL")
  BY Zenon, <1>1, EarlyReturnInv DEF Op, Result, Erasing
<1>2. wallet_loaded /\ ~IsFull => Updates(rec, encryption_key)
  BY Zenon, AddressUpdates
<1>. HIDE DEF rec
<1>3. CASE wallet_loaded /\ ~IsFull /\ UpdateFails("makeNewAddress", rec, encryption_key)
  BY Zenon, <1>2, <1>3, UpdateFailsInv DEF Promising
<1>4. CASE /\ wallet_loaded /\ ~IsFull /\ UpdateOK(rec, encryption_key)
           /\ Report("makeNewAddress", wallet_nv_address, "WALLET_RNG_FAILURE")
           /\ UNCHANGED <<parent_key_cache, issued>>
  BY Zenon, <1>2, <1>4, UpdateOKInv DEF Promising, Result
<1>5. CASE /\ wallet_loaded /\ ~IsFull /\ UpdateOK(rec, encryption_key)
           /\ parent_key_cache' = CacheAfterUse
           /\ Report("makeNewAddress", wallet_nv_address, "WALLET_NO_ERROR")
           /\ issued' = [issued EXCEPT ![wallet_nv_address] = rec.num_addresses]
  BY Zenon, <1>2, <1>5, UpdateOKInv DEF Promising, Result
<1>. QED BY Zenon, <1>1, <1>3, <1>4, <1>5 DEF makeNewAddress, rec

LEMMA changeEncryptionKeyInv ==
    ASSUME IInv, NEW password \in AnyPassword, changeEncryptionKey(password)
    PROVE  IInv'
<1>. DEFINE key == DeriveKey(password, current_wallet.uuid)
            rec == Rekeyed(key)
<1>1. CASE EarlyReturn("changeEncryptionKey", "WALLET_NOT_LOADED")
  BY Zenon, <1>1, EarlyReturnInv DEF Op, Result, Erasing
<1>2. wallet_loaded => Updates(rec, key)
  BY Zenon, RekeyUpdates
<1>. HIDE DEF key, rec
<1>3. CASE wallet_loaded /\ UpdateFails("changeEncryptionKey", rec, key)
  BY Zenon, <1>2, <1>3, UpdateFailsInv DEF Promising
<1>4. CASE /\ wallet_loaded /\ UpdateOK(rec, key) /\ UNCHANGED <<parent_key_cache, issued>>
           /\ Report("changeEncryptionKey", wallet_nv_address, "WALLET_NO_ERROR")
  BY Zenon, <1>2, <1>4, UpdateOKInv DEF Promising, Result
<1>. QED BY Zenon, <1>1, <1>3, <1>4 DEF changeEncryptionKey, key, rec

LEMMA changeWalletNameInv ==
    ASSUME IInv, NEW name \in Names, changeWalletName(name)
    PROVE  IInv'
<1>. DEFINE rec == [current_wallet EXCEPT !.name = name]
<1>1. CASE \/ EarlyReturn("changeWalletName", "WALLET_NOT_LOADED")
           \/ EarlyReturn("changeWalletName", "WALLET_INVALID_OPERATION")
  BY Zenon, <1>1, EarlyReturnInv DEF Op, Result, Erasing
<1>2. wallet_loaded /\ ~is_hidden_wallet => Updates(rec, encryption_key)
  BY Zenon, RenameUpdates
<1>. HIDE DEF rec
<1>3. CASE wallet_loaded /\ ~is_hidden_wallet /\ UpdateFails("changeWalletName", rec, encryption_key)
  BY Zenon, <1>2, <1>3, UpdateFailsInv DEF Promising
<1>4. CASE /\ wallet_loaded /\ ~is_hidden_wallet /\ UpdateOK(rec, encryption_key)
           /\ UNCHANGED <<parent_key_cache, issued>>
           /\ Report("changeWalletName", wallet_nv_address, "WALLET_NO_ERROR")
  BY Zenon, <1>2, <1>4, UpdateOKInv DEF Promising, Result
<1>. QED BY Zenon, <1>1, <1>3, <1>4 DEF changeWalletName, rec

LEMMA getPrivateKeyInv ==
    ASSUME IInv, NEW ah \in 0 .. MAX_ADDRESSES + 1, getPrivateKey(ah)
    PROVE  IInv'
<1>1. /\ StorageUnchanged
      /\ UNCHANGED <<wallet_loaded, is_hidden_wallet, current_wallet, wallet_nv_address,
                     encryption_key, issued, diverged>>
      /\ parent_key_cache' = parent_key_cache \/ (wallet_loaded /\ parent_key_cache' = CacheAfterUse)
      /\ \E result \in Result : Report("query", wallet_nv_address, result)
  BY Zenon DEF getPrivateKey, Result
<1>2. StoreInv'
  BY Zenon, <1>1, StoreUnchanged DEF IInv
<1>3. RamInv'
  <2>1. CASE parent_key_cache' = parent_key_cache
    BY Zenon, <1>1, <2>1, RamUnchanged DEF IInv, ram, StorageUnchanged
  <2>2. CASE wallet_loaded /\ parent_key_cache' = CacheAfterUse
    <3>1. /\ parent_key_cache' \in Seeds \cup {Junk}
          /\ parent_key_cache' # Junk => parent_key_cache' = current_wallet.seed
      BY Zenon, <2>2, CacheKept DEF IInv
    <3>2. nv' = nv
      BY Zenon, <1>1 DEF StorageUnchanged
    <3>3. LoadedAgreesWithStore' /\ CacheBelongsToLoadedWallet'
      BY Zenon, <1>1, <2>2, <3>1, <3>2 DEF IInv, RamInv, LoadedAgreesWithStore, CacheBelongsToLoadedWallet
    <3>. QED BY Zenon, <1>1, <3>1, <3>2, <3>3 DEF IInv, RamInv
  <2>. QED BY Zenon, <1>1, <2>1, <2>2
<1>4. wallet_nv_address \in 0 .. NumWallets
  BY SMTT(30), WalletAssumption DEF IInv, RamInv, Slot
<1>5. LastInv'
  BY Zenon, <1>1, <1>4, Reported DEF Op, Promising, Erasing
<1>. QED BY Zenon, <1>2, <1>3, <1>5 DEF IInv

\* The operations that only look.
LEMMA queryInv ==
    ASSUME IInv,
           \/ getNumAddresses \/ getMasterPublicKey \/ backupWallet
           \/ \E s \in 0 .. NumWallets : getWalletInfo(s)
    PROVE  IInv'
<1>1. \E result \in Result : EarlyReturn("query", result)
  BY Zenon DEF getNumAddresses, getMasterPublicKey, backupWallet, getWalletInfo, Result
<1>. QED BY Zenon, <1>1, EarlyReturnInv DEF Op, Erasing

LEMMA NextInvariant == IInv /\ [Next]_vars => IInv'
<1>. SUFFICES ASSUME IInv, [Next]_vars PROVE IInv'
  BY Zenon
<1>1. CASE UNCHANGED vars
  BY Zenon, <1>1 DEF vars, ram, IInv, StoreInv, RamInv, LastInv, LoadedAgreesWithStore,
              CacheBelongsToLoadedWallet, SuccessIsDurable, DeletedMeansErased
<1>2. CASE Next
  BY Zenon, <1>2, initWalletInv, newWalletInv, deleteWalletInv, FormatInv, uninitWalletInv, PowerLossInv,
     makeNewAddressInv, changeEncryptionKeyInv, changeWalletNameInv, getPrivateKeyInv, queryInv DEF Next
<1>. QED BY Zenon, <1>1, <1>2

-----------------------------------------------------------------------------
(* What the invariant says of the stored records. *)

LEMMA InvariantOpens == ASSUME IInv PROVE IntactWalletOpens
<1>. SUFFICES ASSUME NEW m \in {nv, flash}, NEW s \in Slot, Intact(m.wallet[s])
              PROVE  LET w == m.wallet[s]
                     IN  /\ InitResult(m, s, w.encrypted.key.password) = "WALLET_NO_ERROR"
                         /\ Visible(w) =>
                              (w.version = "IS_ENCRYPTED" <=> w.encrypted.key.password # NoPassword)
  BY Zenon DEF IntactWalletOpens
<1>. DEFINE w == m.wallet[s]
            key == w.encrypted.key
<1>1. Good(m, issued)
  BY Zenon DEF IInv, StoreInv
<1>2. w \in StoredRecord /\ Fitting(w.encrypted.checksum, key)
  BY Zenon, <1>1 DEF Good, Memory, Intact
<1>3. /\ w.encrypted # Junk /\ w.encrypted \in Encrypted
      /\ w.encrypted.checksum = Opened(w)
  BY Zenon, <1>2 DEF Intact, ChecksumOK, StoredRecord, calculateWalletChecksum
<1>4. key.password \in AnyPassword
  BY Zenon, <1>3 DEF Encrypted, Key
<1>5. Opened(w).version = w.version /\ Opened(w).uuid = w.uuid
  BY Zenon DEF Opened
<1>. HIDE DEF key, w
<1>6. /\ w.version # "UNKNOWN" /\ key = DeriveKey(key.password, w.uuid)
      /\ Visible(w) => w.version = VersionFor(key)
  BY Zenon, <1>2, <1>3, <1>5 DEF Fitting, Visible
<1>7. ChecksumOK(w, key)
  BY Zenon, <1>3 DEF ChecksumOK, calculateWalletChecksum, key
<1>8. InitResult(m, s, key.password) = "WALLET_NO_ERROR"
  BY Zenon, <1>6, <1>7 DEF InitResult, w
<1>9. w.uuid \in UUIDs \cup {Junk}
  BY Zenon, <1>2 DEF StoredRecord
<1>10. VersionFor(key) = IF key.password = NoPassword THEN "UNENCRYPTED" ELSE "IS_ENCRYPTED"
  BY <1>4, <1>6, <1>9, KeyOfPassword
<1>11. Visible(w) => (w.version = "IS_ENCRYPTED" <=> key.password # NoPassword)
  BY Zenon, <1>6, <1>10
<1>. QED BY Zenon, <1>8, <1>11 DEF key, w

LEMMA InvariantTypes == ASSUME IInv PROVE TypeOK
<1>1. nv \in Memory /\ flash \in Memory /\ issued \in Handles /\ faults \in 0 .. MaxFaults
  BY Zenon DEF IInv, StoreInv, Good
<1>. QED BY Zenon, <1>1 DEF IInv, RamInv, LastInv, TypeOK, Handles

LEMMA InvariantHandles == ASSUME IInv PROVE IssuedHandlesSurvive
BY Zenon DEF IInv, StoreInv, Good, IssuedHandlesSurvive, Intact

-----------------------------------------------------------------------------
(* The theorems. *)

LEMMA Invariance == Spec => []IInv
BY InitInvariant, NextInvariant, PTL DEF Spec

\* Every call of wallet.h, failed or not, and every loss of power leaves
\* storage and RAM well-typed.
THEOREM TypeCorrect == Spec => []TypeOK
BY Invariance, InvariantTypes, PTL

\* The wallet in RAM is the one stored at wallet_nv_address under the key of
\* xex.c, unless a write of it has failed since it was loaded.
THEOREM RamAgreesWithStore == Spec => []LoadedAgreesWithStore
<1>1. IInv => LoadedAgreesWithStore
  BY Zenon DEF IInv, RamInv
<1>. QED BY <1>1, Invariance, PTL

\* When newWallet(), makeNewAddress(), changeEncryptionKey() or
\* changeWalletName() report success, the flash holds what they wrote.
THEOREM SuccessSurvivesPowerLoss == Spec => []SuccessIsDurable
<1>1. IInv => SuccessIsDurable
  BY Zenon DEF IInv, LastInv
<1>. QED BY <1>1, Invariance, PTL

\* No record with a good checksum, in the cache or in the flash, has fewer
\* addresses than makeNewAddress() has handed out.
THEOREM HandlesSurvive == Spec => []IssuedHandlesSurvive
BY Invariance, InvariantHandles, PTL

\* A record with a good checksum is opened by initWallet() with the password
\* it was last given, wherever writes failed or power was lost before.
THEOREM IntactRecordsOpen == Spec => []IntactWalletOpens
BY Invariance, InvariantOpens, PTL

\* The parent public key cached in prandom.c is that of the loaded wallet.
THEOREM CacheIsOfLoadedWallet == Spec => []CacheBelongsToLoadedWallet
<1>1. IInv => CacheBelongsToLoadedWallet
  BY Zenon DEF IInv, RamInv
<1>. QED BY <1>1, Invariance, PTL

\* deleteWallet() and a format report success only if no encrypted half is
\* left of the records they sanitised.
THEOREM DeletionErases == Spec => []DeletedMeansErased
<1>1. IInv => DeletedMeansErased
  BY Zenon DEF IInv, LastInv
<1>. QED BY <1>1, Invariance, PTL

-----------------------------------------------------------------------------
(* What no call of wallet.h may do to records that it is not about.         *)

LEMMA SameKept ==
    ASSUME IInv, NEW s \in Slot, nv'.wallet[s] = nv.wallet[s], Intact(nv.wallet[s])
    PROVE  Kept(s)
<1>1. nv.wallet[s] \in StoredRecord
  BY Zenon DEF IInv, StoreInv, Good, Memory
<1>2. nv.wallet[s].encrypted.num_addresses \in Int
  BY <1>1, WalletAssumption DEF Intact, StoredRecord, Encrypted
<1>. QED BY <1>2 DEF Kept

\* Splicing does not touch a record that is the same in both memories.
LEMMA SplicedSame ==
    ASSUME NEW a \in Memory, NEW b, NEW n \in Location, NEW s \in Slot, b.wallet[s] = a.wallet[s]
    PROVE  Splice(a, b, n).wallet[s] = a.wallet[s]
<1>1. a.wallet[s] \in StoredRecord
  BY Zenon DEF Memory
<1>2. Splice(a, b, n).wallet[s] =
         [version |-> a.wallet[s].version, name |-> a.wallet[s].name,
          uuid |-> a.wallet[s].uuid, encrypted |-> a.wallet[s].encrypted]
  BY Zenon DEF Splice
<1>. QED BY Zenon, <1>1, <1>2 DEF StoredRecord

LEMMA PutFailsSame ==
    ASSUME NEW old \in Memory, NEW chip, NEW new, NEW s \in Slot, new.wallet[s] = old.wallet[s],
           PutFails(old, chip, new)
    PROVE  nv'.wallet[s] = old.wallet[s]
BY SplicedSame DEF PutFails, FlushFails, WriteFails

LEMMA OtherRecords ==
    ASSUME NEW m \in Memory, NEW s \in Slot, NEW w, NEW t \in Slot \ {s}
    PROVE  [m EXCEPT !.wallet[s] = w].wallet[t] = m.wallet[t]
BY Zenon DEF Memory

LEMMA SanitiseOthers ==
    ASSUME NEW sweep, NEW chip, NEW result, NEW s \in Slot, NEW w,
           \A p \in -1 .. 4 : sweep[p] \in Memory /\ sweep[p].wallet[s] = w,
           sanitiseNonVolatileStorage(sweep, chip, result)
    PROVE  nv'.wallet[s] = w
<1>1. ASSUME NEW p \in 0 .. 4
      PROVE  /\ sweep[p - 1] \in Memory /\ sweep[p - 1].wallet[s] = w
             /\ sweep[p] \in Memory /\ sweep[p].wallet[s] = w
  OBVIOUS
<1>2. CASE \E p \in 0 .. 3 :
              PutFails(sweep[p - 1], IF p = 0 THEN chip ELSE sweep[p - 1], sweep[p])
  <2>1. PICK p \in 0 .. 3 : PutFails(sweep[p - 1], IF p = 0 THEN chip ELSE sweep[p - 1], sweep[p])
    BY Zenon, <1>2
  <2>2. /\ sweep[p - 1] \in Memory /\ sweep[p - 1].wallet[s] = w
        /\ sweep[p].wallet[s] = w
    BY <1>1
  <2>. QED BY ZenonT(30), <2>1, <2>2, PutFailsSame
<1>3. CASE \E p \in 2 .. 4, n \in Location : nv' = Splice(sweep[p - 1], sweep[p], n)
  BY <1>1, <1>3, SplicedSame
<1>4. CASE nv' \in {sweep[3], sweep[4]}
  BY <1>1, <1>4
<1>5. CASE nv' = [sweep[3] EXCEPT !.pool = FALSE]
  BY <1>1, <1>5 DEF Memory
<1>. QED BY <1>2, <1>3, <1>4, <1>5 DEF sanitiseNonVolatileStorage, FlushFails, PutOK

LEMMA UpdateLeaves ==
    ASSUME IInv, wallet_loaded, NEW op, NEW rec, NEW key, Updates(rec, key), NEW result,
           \/ UpdateFails(op, rec, key)
           \/ UpdateOK(rec, key) /\ Report(op, wallet_nv_address, result)
    PROVE  KeepsWallets /\ LeavesLabels
<1>. DEFINE a == wallet_nv_address
<1>1. /\ a \in Slot /\ nv \in Memory /\ issued \in Handles
      /\ rec \in WalletRecord /\ key \in Key /\ current_wallet \in WalletRecord
  BY Zenon DEF IInv, RamInv, StoreInv, Good, Updates
<1>2. WithRecord(rec, key).wallet[a] = Sealed(rec, key)
  BY Zenon, <1>1, WithRecordGood
<1>3. \A s \in Slot \ {a} : WithRecord(rec, key).wallet[s] = nv.wallet[s]
  BY <1>1, OtherRecords DEF WithRecord
<1>4. /\ Intact(Sealed(rec, key)) /\ SameLabel(Sealed(rec, key), rec)
      /\ Sealed(rec, key).encrypted.seed = rec.seed
      /\ Sealed(rec, key).encrypted.num_addresses = rec.num_addresses
  BY Zenon, <1>1, SealedFields
<1>5. /\ Behind(nv.wallet[a], current_wallet)
      /\ is_hidden_wallet => SameLabel(nv.wallet[a], current_wallet)
  BY Zenon DEF IInv, RamInv
<1>6. CASE Reset
  BY Zenon, <1>6 DEF Reset, Report, KeepsWallets, MayCost, LeavesLabels
<1>7. CASE /\ PutFails(nv, flash, WithRecord(rec, key))
           /\ Report(op, wallet_nv_address, "WALLET_WRITE_ERROR")
  <2>1. \A s \in Slot \ {a} : nv'.wallet[s] = nv.wallet[s]
    BY Zenon, <1>1, <1>3, <1>7, PutFailsSame
  <2>2. MayCost(a)
    BY Zenon, <1>7 DEF MayCost, Report
  <2>3. KeepsWallets
    BY Zenon, <2>1, <2>2, SameKept DEF KeepsWallets
  <2>4. is_hidden_wallet => SameLabel(nv'.wallet[a], nv.wallet[a])
    BY Zenon, <1>5, <1>7, PartlyWritten DEF SameLabel, Updates
  <2>5. LeavesLabels
    BY Zenon, <2>1, <2>4 DEF LeavesLabels, SameLabel
  <2>. QED BY Zenon, <2>3, <2>5
<1>8. CASE UpdateOK(rec, key)
  <2>1. nv' = WithRecord(rec, key)
    BY Zenon, <1>8 DEF UpdateOK, PutOK
  <2>2. \A s \in Slot \ {a} : nv'.wallet[s] = nv.wallet[s]
    BY Zenon, <1>3, <2>1
  <2>3. nv'.wallet[a] = Sealed(rec, key)
    BY Zenon, <1>2, <2>1
  <2>4. Intact(nv.wallet[a]) => Kept(a)
    <3>1. SUFFICES ASSUME Intact(nv.wallet[a]) PROVE Kept(a)
      BY Zenon
    <3>2. nv.wallet[a] \in StoredRecord /\ nv.wallet[a].encrypted # Junk
      BY Zenon, <1>1, <3>1 DEF Memory, Intact
    <3>3. nv.wallet[a].encrypted.num_addresses \in Int
      BY <3>2, WalletAssumption DEF StoredRecord, Encrypted
    <3>4. /\ nv.wallet[a].encrypted.seed = rec.seed
          /\ nv.wallet[a].encrypted.num_addresses <= rec.num_addresses
      <4>1. /\ nv.wallet[a].encrypted.seed = current_wallet.seed
            /\ nv.wallet[a].encrypted.num_addresses <= current_wallet.num_addresses
            /\ rec.seed = current_wallet.seed
        BY Zenon, <1>5, <3>2 DEF Behind, Updates
      <4>. QED BY <3>3, <4>1, UpdateCounts
    <3>. QED BY Zenon, <1>1, <1>4, <2>3, <3>3, <3>4, WalletAssumption DEF Kept, WalletRecord
  <2>5. KeepsWallets
    BY Zenon, <2>2, <2>4, SameKept DEF KeepsWallets
  <2>6. is_hidden_wallet => SameLabel(nv'.wallet[a], nv.wallet[a])
    BY Zenon, <1>4, <1>5, <2>3 DEF SameLabel, Updates
  <2>7. LeavesLabels
    BY Zenon, <2>2, <2>6 DEF LeavesLabels, SameLabel
  <2>. QED BY Zenon, <2>5, <2>7
<1>. QED BY Zenon, <1>6, <1>7, <1>8 DEF UpdateFails

\* A step that leaves the stored records as they are.
LEMMA SameLeaves ==
    ASSUME IInv, nv'.wallet = nv.wallet
    PROVE  KeepsWallets /\ LeavesLabels
BY Zenon, SameKept DEF KeepsWallets, LeavesLabels

LEMMA ResetLeaves == ASSUME Reset PROVE KeepsWallets /\ LeavesLabels
BY Zenon DEF Reset, Report, KeepsWallets, MayCost, LeavesLabels

LEMMA newWalletLeaves ==
    ASSUME IInv, NEW s \in 0 .. NumWallets, newWallet(s)
    PROVE  KeepsWallets /\ LeavesLabels
<1>1. CASE StorageUnchanged \/ ReadFails(s, encryption_key)
  <2>1. nv'.wallet = nv.wallet
    BY Zenon, <1>1 DEF StorageUnchanged, ReadFails
  <2>. QED BY Zenon, <2>1, SameLeaves
<1>2. CASE /\ s \in Slot
           /\ IsFree(nv.wallet[s])
           /\ \E name \in Names, seed \in Seeds, make_hidden \in BOOLEAN, password \in AnyPassword :
                 \E uuid \in IF make_hidden THEN {nv.wallet[s].uuid} ELSE UUIDs :
                    CreateIn(s, name, uuid, seed, make_hidden, password)
  <2>1. nv \in Memory
    BY Zenon DEF IInv, StoreInv, Good
  <2>2. CASE Reset
    BY Zenon, <2>2, ResetLeaves
  <2>3. CASE RandomFails
    <3>1. nv'.wallet = nv.wallet
      BY Zenon, <2>1, <2>3 DEF RandomFails, StorageUnchanged, Memory
    <3>. QED BY Zenon, <3>1, SameLeaves
  <2>4. CASE \E w, result :
                /\ PutFails(nv, nv, [nv EXCEPT !.wallet[s] = w]) \/ PutOK([nv EXCEPT !.wallet[s] = w])
                /\ Report("newWallet", s, result)
    <3>1. PICK w, result :
             /\ PutFails(nv, nv, [nv EXCEPT !.wallet[s] = w]) \/ PutOK([nv EXCEPT !.wallet[s] = w])
             /\ Report("newWallet", s, result)
      BY Zenon, <2>4
    <3>2. ASSUME NEW t \in Slot \ {s} PROVE nv'.wallet[t] = nv.wallet[t]
      <4>1. [nv EXCEPT !.wallet[s] = w].wallet[t] = nv.wallet[t]
        BY <1>2, <2>1, OtherRecords
      <4>. QED BY Zenon, <2>1, <3>1, <4>1, PutFailsSame DEF PutOK
    <3>3. MayCost(s)
      BY Zenon, <1>2, <3>1 DEF MayCost, Report, IsFree, Visible
    <3>4. KeepsWallets
      BY Zenon, <3>2, <3>3, SameKept DEF KeepsWallets
    <3>5. LeavesLabels
      BY Zenon, <3>1 DEF LeavesLabels, Report
    <3>. QED BY Zenon, <3>4, <3>5
  <2>5. PICK name \in Names, seed \in Seeds, make_hidden \in BOOLEAN, password \in AnyPassword :
           \E uuid \in IF make_hidden THEN {nv.wallet[s].uuid} ELSE UUIDs :
              CreateIn(s, name, uuid, seed, make_hidden, password)
    BY Zenon, <1>2
  <2>6. PICK uuid : CreateIn(s, name, uuid, seed, make_hidden, password)
    BY Zenon, <2>5
  <2>. DEFINE key == DeriveKey(password, uuid)
              rec == NewRecord(nv.wallet[s], name, uuid, seed, make_hidden, key)
              w == Sealed(rec, key)
              new == [nv EXCEPT !.wallet[s] = w]
  <2>7. \/ Reset
        \/ RandomFails
        \/ PutFails(nv, nv, new) /\ Report("newWallet", s, "WALLET_WRITE_ERROR")
        \/ PutOK(new) /\ Report("newWallet", s, InitResult(new, s, password))
    BY Zenon, <2>6 DEF CreateIn
  <2>. HIDE DEF w
  <2>. QED BY Zenon, <2>2, <2>3, <2>4, <2>7
<1>. QED BY Zenon, <1>1, <1>2 DEF newWallet

LEMMA deleteWalletLeaves ==
    ASSUME IInv, NEW s \in 0 .. NumWallets, deleteWallet(s)
    PROVE  KeepsWallets /\ LeavesLabels
<1>1. CASE StorageUnchanged
  <2>1. nv'.wallet = nv.wallet
    BY Zenon, <1>1 DEF StorageUnchanged
  <2>. QED BY Zenon, <2>1, SameLeaves
<1>2. CASE Reset
  BY Zenon, <1>2, ResetLeaves
<1>3. ASSUME s \in Slot, NEW u \in [{s} -> UUIDs], NEW result,
             sanitiseNonVolatileStorage(Sweep(nv, {s}, u), flash, result),
             Report("deleteWallet", s, result)
      PROVE  KeepsWallets /\ LeavesLabels
  <2>. DEFINE sweep == Sweep(nv, {s}, u)
  <2>1. nv \in Memory /\ Good(nv, issued) /\ issued \in Handles /\ {s} \in SUBSET Slot
    BY Zenon, <1>3 DEF IInv, StoreInv, Good
  <2>2. \A p \in -1 .. 4 : Good(sweep[p], issued)
    BY Zenon, <2>1, SweepsGood
  <2>3. ASSUME NEW t \in Slot \ {s}, NEW p \in -1 .. 4
        PROVE  sweep[p] \in Memory /\ sweep[p].wallet[t] = nv.wallet[t]
    <3>1. sweep[p] \in Memory
      BY Zenon, <2>2 DEF Good
    <3>2. sweep[p].wallet[t] = nv.wallet[t]
      BY Zenon, <2>1 DEF Sweep, Memory
    <3>. QED BY Zenon, <3>1, <3>2
  <2>. HIDE DEF sweep
  <2>4. \A t \in Slot \ {s} : nv'.wallet[t] = nv.wallet[t]
    BY Zenon, <1>3, <2>3, SanitiseOthers DEF sweep
  <2>5. MayCost(s)
    BY Zenon, <1>3 DEF MayCost, Report
  <2>6. KeepsWallets
    BY Zenon, <2>4, <2>5, SameKept DEF KeepsWallets
  <2>7. LeavesLabels
    BY Zenon, <1>3 DEF LeavesLabels, Report
  <2>. QED BY Zenon, <2>6, <2>7
<1>. QED BY Zenon, <1>1, <1>2, <1>3 DEF deleteWallet

LEMMA FormatLeaves == ASSUME Format PROVE KeepsWallets /\ LeavesLabels
<1>1. last'.op \in {"reset", "format"}
  BY DEF Format, Reset, Report
<1>. QED BY Zenon, <1>1 DEF KeepsWallets, MayCost, LeavesLabels

LEMMA NextLeaves == ASSUME IInv, Next PROVE KeepsWallets /\ LeavesLabels
<1>1. ASSUME NEW s \in 0 .. NumWallets, NEW password \in AnyPassword, initWallet(s, password)
      PROVE  KeepsWallets /\ LeavesLabels
  <2>1. nv'.wallet = nv.wallet
    BY Zenon, <1>1 DEF initWallet, StorageUnchanged, ReadFails
  <2>. QED BY Zenon, <2>1, SameLeaves
<1>2. ASSUME \/ getNumAddresses \/ getMasterPublicKey \/ backupWallet \/ uninitWallet
             \/ \E s \in 0 .. NumWallets : getWalletInfo(s)
             \/ \E ah \in 0 .. MAX_ADDRESSES + 1 : getPrivateKey(ah)
      PROVE  KeepsWallets /\ LeavesLabels
  <2>1. nv'.wallet = nv.wallet
    BY Zenon, <1>2 DEF getNumAddresses, getMasterPublicKey, backupWallet, uninitWallet, getWalletInfo,
                getPrivateKey, EarlyReturn, StorageUnchanged
  <2>. QED BY Zenon, <2>1, SameLeaves
<1>3. ASSUME PowerLoss PROVE KeepsWallets /\ LeavesLabels
  BY Zenon, <1>3, ResetLeaves DEF PowerLoss
<1>4. ASSUME NEW op, NEW result, EarlyReturn(op, result) PROVE KeepsWallets /\ LeavesLabels
  <2>1. nv'.wallet = nv.wallet
    BY Zenon, <1>4 DEF EarlyReturn, StorageUnchanged
  <2>. QED BY Zenon, <2>1, SameLeaves
<1>5. ASSUME makeNewAddress PROVE KeepsWallets /\ LeavesLabels
  BY Zenon, <1>4, <1>5, AddressUpdates, UpdateLeaves DEF makeNewAddress
<1>6. ASSUME NEW password \in AnyPassword, changeEncryptionKey(password)
      PROVE  KeepsWallets /\ LeavesLabels
  BY Zenon, <1>4, <1>6, RekeyUpdates, UpdateLeaves DEF changeEncryptionKey
<1>7. ASSUME NEW name \in Names, changeWalletName(name) PROVE KeepsWallets /\ LeavesLabels
  BY Zenon, <1>4, <1>7, RenameUpdates, UpdateLeaves DEF changeWalletName
<1>. QED BY Zenon, <1>1, <1>2, <1>3, <1>5, <1>6, <1>7, newWalletLeaves, deleteWalletLeaves, FormatLeaves DEF Next

-----------------------------------------------------------------------------
(* The theorems. *)

\* No step costs a wallet other than the one it is about, and newWallet()
\* never costs a visible one.
THEOREM WalletsAreKept == Spec => WalletKept
<1>1. IInv /\ [Next]_vars => [KeepsWallets]_vars
  BY Zenon, NextLeaves
<1>. QED BY <1>1, Invariance, PTL DEF Spec, WalletKept

\* Operations on a hidden wallet, failed or not, leave every version field,
\* name and UUID as it is.
THEOREM HiddenStaysHidden == Spec => HiddenLeavesNoTrace
<1>1. IInv /\ [Next]_vars => [LeavesLabels]_vars
  BY Zenon, NextLeaves
<1>. QED BY <1>1, Invariance, PTL DEF Spec, HiddenLeavesNoTrace
=============================================================================
