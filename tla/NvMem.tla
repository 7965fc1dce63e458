------------------------------- MODULE NvMem -------------------------------
(***************************************************************************)
(* pic32/nvmem_manager.c: byte-granular non-volatile memory on top of a    *)
(* serial flash (pic32/sst25x.c) that can only be erased a sector at a     *)
(* time.  One sector is held in a write-back cache.  Every access to the   *)
(* flash chip is a step of its own, so that power can fail, or the chip    *)
(* can do only part of its work, at every point of a call.                 *)
(***************************************************************************)
EXTENDS Integers, Sequences

CONSTANTS
    SECTOR_SIZE,
    NV_MEMORY_SIZE,
    GLOBAL_PARTITION_SIZE,
    Byte,
    ERASED,         \* what every byte of an erased sector reads as (0xff)
    MaxLength       \* bound on the length of one read or write

ASSUME SizesAssumption ==
    /\ SECTOR_SIZE \in Nat \ {0}
    /\ NV_MEMORY_SIZE \in Nat
    /\ NV_MEMORY_SIZE % SECTOR_SIZE = 0
    /\ GLOBAL_PARTITION_SIZE \in 0 .. NV_MEMORY_SIZE
    /\ MaxLength \in Nat

ASSUME ErasedAssumption == ERASED \in Byte

VARIABLES
    flash,              \* contents of the chip
    write_cache_valid,
    write_cache_tag,
    write_cache,
    pc,                 \* where the call being executed has got to
    call,               \* its remaining arguments
    ret                 \* what the last call returned

vars == <<flash, write_cache_valid, write_cache_tag, write_cache, pc, call, ret>>

Address == 0 .. NV_MEMORY_SIZE - 1
Offset == 0 .. SECTOR_SIZE - 1

(* SECTOR_TAG_MASK and SECTOR_OFFSET_MASK *)
OffsetOf(a) == a % SECTOR_SIZE
TagOf(a) == a - OffsetOf(a)

NonVolatileReturn == {"NV_NO_ERROR", "NV_INVALID_ADDRESS", "NV_IO_ERROR"}
Data == UNION {[1 .. n -> Byte] : n \in 0 .. MaxLength}
Partition == {"PARTITION_GLOBAL", "PARTITION_ACCOUNTS", "no such partition"}

(* Size of a partition; a partition that does not exist has none. *)
nonVolatileGetSize(partition) ==
    CASE partition = "PARTITION_GLOBAL" -> GLOBAL_PARTITION_SIZE
      [] partition = "PARTITION_ACCOUNTS" -> NV_MEMORY_SIZE - GLOBAL_PARTITION_SIZE
      [] OTHER -> -1

(* Mutation: only the size of the whole memory is checked. *)
AddressOKWithoutPartition(partition, address, length) ==
    /\ address < NV_MEMORY_SIZE
    /\ length <= NV_MEMORY_SIZE
    /\ address + length <= NV_MEMORY_SIZE
    /\ nonVolatileGetSize(partition) # -1

(* The range checks of checkAndTweakAddress() ... *)
AddressOK(partition, address, length) ==
    /\ address < NV_MEMORY_SIZE
    /\ length <= NV_MEMORY_SIZE
    /\ address + length <= NV_MEMORY_SIZE
    /\ nonVolatileGetSize(partition) # -1
    /\ address + length <= nonVolatileGetSize(partition)

(* ... and its conversion of a partition offset to a flash address. *)
Tweak(partition, address) ==
    IF partition = "PARTITION_ACCOUNTS" THEN address + GLOBAL_PARTITION_SIZE ELSE address

Init ==
    /\ flash \in [Address -> Byte]
    /\ write_cache_valid = FALSE
    /\ write_cache_tag = 0
    /\ write_cache = [o \in Offset |-> ERASED]
    /\ pc = "idle"
    /\ call = [op |-> "none", address |-> 0, data |-> <<>>]
    /\ ret = "NV_NO_ERROR"

cacheVars == <<write_cache_valid, write_cache_tag, write_cache>>

Return(r) ==
    /\ pc' = "idle"
    /\ ret' = r

Cached(a) == write_cache_valid /\ TagOf(a) = write_cache_tag

----------------------------------------------------------------------------
(* nonVolatileWrite(): the range check, then one step per turn of the loop. *)

nonVolatileWrite(partition, address, data) ==
    /\ pc = "idle"
    /\ IF AddressOK(partition, address, Len(data))
       THEN /\ pc' = "write"
            /\ call' = [op |-> "write", address |-> Tweak(partition, address), data |-> data]
            /\ ret' = ret
       ELSE /\ Return("NV_INVALID_ADDRESS")
            /\ call' = [op |-> "none", address |-> 0, data |-> <<>>]
    /\ UNCHANGED <<flash, cacheVars>>

Writing == pc = "write" /\ call.data # <<>>

(* The sector is in the cache: write to the cache. *)
WriteHit ==
    /\ Writing
    /\ Cached(call.address)
    /\ write_cache' = [write_cache EXCEPT ![OffsetOf(call.address)] = Head(call.data)]
    /\ call' = [call EXCEPT !.address = @ + 1, !.data = Tail(@)]
    /\ UNCHANGED <<flash, write_cache_valid, write_cache_tag, pc, ret>>

(* The cache is free: load the sector into it. *)
WriteMiss ==
    /\ Writing
    /\ ~write_cache_valid
    /\ write_cache_valid' = TRUE
    /\ write_cache_tag' = TagOf(call.address)
    /\ write_cache' = [o \in Offset |-> flash[TagOf(call.address) + o]]
    /\ UNCHANGED <<flash, pc, call, ret>>

(* The cache holds another sector: nonVolatileFlush() has to succeed first. *)
WriteEvict ==
    /\ Writing
    /\ write_cache_valid
    /\ ~Cached(call.address)
    /\ pc' = "erase"
    /\ UNCHANGED <<flash, cacheVars, call, ret>>

WriteDone ==
    /\ pc = "write"
    /\ call.data = <<>>
    /\ Return("NV_NO_ERROR")
    /\ UNCHANGED <<flash, cacheVars, call>>

----------------------------------------------------------------------------
(* nonVolatileRead() at a checked address: bytes of the cached sector come *)
(* from the cache; the others are queued, and read from the chip in one    *)
(* command when the run of uncached bytes ends.                            *)

sst25xRead(address, length) == [i \in 1 .. length |-> flash[address + i - 1]]

(* Mutation: the run of queued bytes is not ended by a cached byte. *)
ReadWithoutEndingRun(address, length) ==
    LET loop[n \in 0 .. length] ==
            IF n = 0 THEN [data |-> <<>>, nv_read_length |-> 0]
            ELSE LET s == loop[n - 1]
                     a == address + n - 1
                 IN  IF Cached(a)
                     THEN [s EXCEPT !.data = Append(@, write_cache[OffsetOf(a)])]
                     ELSE [s EXCEPT !.nv_read_length = @ + 1]
        end == loop[length]
    IN  end.data \o sst25xRead(address + length - end.nv_read_length, end.nv_read_length)

nonVolatileRead(address, length) ==
    LET loop[n \in 0 .. length] ==
            IF n = 0 THEN [data |-> <<>>, nv_read_length |-> 0]
            ELSE LET s == loop[n - 1]
                     a == address + n - 1
                     queued == sst25xRead(a - s.nv_read_length, s.nv_read_length)
                 IN  IF Cached(a)
                     THEN [data |-> s.data \o queued \o <<write_cache[OffsetOf(a)]>>,
                           nv_read_length |-> 0]
                     ELSE [s EXCEPT !.nv_read_length = @ + 1]
        end == loop[length]
    IN  end.data \o sst25xRead(address + length - end.nv_read_length, end.nv_read_length)

----------------------------------------------------------------------------
(* nonVolatileFlush(): erase, verify, program, verify, release the cache. *)

nonVolatileFlush ==
    /\ pc = "idle"
    /\ call' = [op |-> "flush", address |-> 0, data |-> <<>>]
    /\ IF ~write_cache_valid THEN Return("NV_NO_ERROR")
       ELSE IF write_cache_tag >= NV_MEMORY_SIZE THEN Return("NV_INVALID_ADDRESS")
       ELSE pc' = "erase" /\ ret' = ret
    /\ UNCHANGED <<flash, cacheVars>>

InSector(a) == TagOf(a) = write_cache_tag

(* sst25xEraseSector(): a healthy chip erases the whole sector; one that   *)
(* fails, or loses power, leaves some of it as it was.                     *)
sst25xEraseSector ==
    /\ pc = "erase"
    /\ \E done \in SUBSET Offset :
          flash' = [a \in Address |->
                      IF InSector(a) /\ OffsetOf(a) \in done THEN ERASED ELSE flash[a]]
    /\ pc' = "verify_erase"
    /\ UNCHANGED <<cacheVars, call, ret>>

SectorErased == \A a \in Address : InSector(a) => flash[a] = ERASED

VerifyErase ==
    /\ pc = "verify_erase"
    /\ IF SectorErased
       THEN pc' = "program" /\ ret' = ret
       ELSE Return("NV_IO_ERROR")
    /\ UNCHANGED <<flash, cacheVars, call>>

(* sst25xProgramSector(): words are programmed in address order. *)
sst25xProgramSector ==
    /\ pc = "program"
    /\ \E n \in 0 .. SECTOR_SIZE :
          flash' = [a \in Address |->
                      IF InSector(a) /\ OffsetOf(a) < n THEN write_cache[OffsetOf(a)] ELSE flash[a]]
    /\ pc' = "verify_program"
    /\ UNCHANGED <<cacheVars, call, ret>>

SectorProgrammed == \A a \in Address : InSector(a) => flash[a] = write_cache[OffsetOf(a)]

(* Mutation: the cache is released without the memcmp(). *)
VerifyProgramUnchecked ==
    /\ pc = "verify_program"
    /\ write_cache_valid' = FALSE
    /\ write_cache_tag' = 0
    /\ write_cache' = [o \in Offset |-> ERASED]
    /\ IF call.op = "write" THEN pc' = "write" /\ ret' = ret ELSE Return("NV_NO_ERROR")
    /\ UNCHANGED <<flash, call>>

(* The memcmp(), and on success the release of the cache; a flush called   *)
(* by nonVolatileWrite() hands control back to its loop.                   *)
VerifyProgram ==
    /\ pc = "verify_program"
    /\ IF SectorProgrammed
       THEN /\ write_cache_valid' = FALSE
            /\ write_cache_tag' = 0
            /\ write_cache' = [o \in Offset |-> ERASED]
            /\ IF call.op = "write" THEN pc' = "write" /\ ret' = ret ELSE Return("NV_NO_ERROR")
       ELSE /\ Return("NV_IO_ERROR")
            /\ UNCHANGED cacheVars
    /\ UNCHANGED <<flash, call>>

----------------------------------------------------------------------------
(* Power fails and comes back: RAM is cleared, the flash keeps what it has. *)
PowerLoss ==
    /\ write_cache_valid' = FALSE
    /\ write_cache_tag' = 0
    /\ write_cache' = [o \in Offset |-> ERASED]
    /\ pc' = "idle"
    /\ call' = [op |-> "reset", address |-> 0, data |-> <<>>]
    /\ ret' = "NV_NO_ERROR"
    /\ UNCHANGED flash

(* What the firmware does inside a call, as opposed to what it is asked. *)
Step ==
    \/ WriteHit \/ WriteMiss \/ WriteEvict \/ WriteDone
    \/ sst25xEraseSector \/ VerifyErase \/ sst25xProgramSector \/ VerifyProgram

Next ==
    \/ \E p \in Partition, a \in 0 .. NV_MEMORY_SIZE, d \in Data :
          nonVolatileWrite(p, a, d)
    \/ nonVolatileFlush
    \/ Step
    \/ PowerLoss

Spec == Init /\ [][Next]_vars

----------------------------------------------------------------------------
TypeOK ==
    /\ flash \in [Address -> Byte]
    /\ write_cache_valid \in BOOLEAN
    /\ write_cache_valid => write_cache_tag \in {TagOf(a) : a \in Address}
    /\ write_cache \in [Offset -> Byte]
    /\ pc \in {"idle", "write", "erase", "verify_erase", "program", "verify_program"}
    /\ call \in [op : {"none", "write", "flush", "reset"}, address : Nat, data : Seq(Byte)]
    /\ call.address + Len(call.data) <= NV_MEMORY_SIZE
    /\ ret \in NonVolatileReturn

(* The memory as its users see it: the cached sector hides the chip's copy. *)
View ==
    [a \in Address |-> IF Cached(a) THEN write_cache[OffsetOf(a)] ELSE flash[a]]

(* The write-back cache keeps the promises of hwinterface.h: a write is    *)
(* visible at once, a failed or unfinished flush disturbs no read and      *)
(* endangers no other sector, and a flush reports success only when        *)
(* nothing is left to be written.                                          *)
Store == INSTANCE NvStore WITH
            Block <- TagOf, view <- View, durable <- flash,
            flushed <- (pc = "idle" /\ call.op = "flush" /\ ret = "NV_NO_ERROR")

ImplementsStore == Store!Spec

(* Between calls, nonVolatileRead() returns the bytes last written, for    *)
(* every range, however the range straddles the cached sector: grouping    *)
(* the chip reads neither drops, repeats nor reorders a byte.              *)
ReadReturnsView ==
    pc = "idle" =>
        \A a \in Address : \A n \in 0 .. NV_MEMORY_SIZE - a :
            nonVolatileRead(a, n) = [i \in 1 .. n |-> View[a + i - 1]]
=============================================================================
