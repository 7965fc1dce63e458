---------------------------- MODULE Units_proofs ----------------------------
(***************************************************************************)
(* Three of the self-contained units.  nvmem_manager.c: its type invariant *)
(* and its refinement of NvStore, for every sector size, memory size and   *)
(* partitioning.  userDenied() reports acceptance only when every prompt   *)
(* was accepted by a press of its own, for every debounce time and number  *)
(* of outputs.  No random number is returned twice, for every number of    *)
(* pools, of pool states and of rounds of the hardware generator.          *)
(***************************************************************************)
EXTENDS NvMem, Prompt, EntropyPool, SequenceTheorems, WellFoundedInduction, TLAPS

-----------------------------------------------------------------------------
(* The memory manager. *)

\* The two address masks of nvmem_manager.c split an address without loss.
LEMMA SectorArithmetic ==
  ASSUME NEW a \in Nat
  PROVE  /\ OffsetOf(a) \in Offset
         /\ TagOf(a) \in Nat
         /\ a = TagOf(a) + OffsetOf(a)
  BY SizesAssumption DEF OffsetOf, TagOf, Offset

\* The quotient of a division is unique, so u is the remainder of s * q + u.
LEMMA Remainder ==
  ASSUME NEW s \in Nat \ {0}, NEW q \in Nat, NEW u \in 0 .. s - 1
  PROVE  (s * q + u) % s = u
<1>1. s * q \in Nat
  BY SMT
<1>2. PICK x \in Nat : x = s * q + u
  BY <1>1
<1>3. x % s \in 0 .. s - 1 /\ x = s * (x \div s) + (x % s) /\ x \div s \in Int
  BY <1>2
<1>. DEFINE d == x \div s
            e == x % s
<1>4. s * (d - q) = u - e
  BY <1>2, <1>3
<1>5. d = q
  <2>1. ~(d - q >= 1)
    <3>. SUFFICES ASSUME d - q >= 1 PROVE FALSE
      BY Zenon
    <3>1. s * (d - q) >= s
      BY <1>3, SMT
    <3>. QED BY <3>1, <1>3, <1>4
  <2>2. ~(d - q <= -1)
    <3>. SUFFICES ASSUME d - q <= -1 PROVE FALSE
      BY Zenon
    <3>1. s * (d - q) <= -s
      BY <1>3, SMT
    <3>. QED BY <3>1, <1>3, <1>4
  <2>. QED BY <2>1, <2>2, <1>3
<1>. QED BY <1>2, <1>3, <1>5

\* A sector that holds one address of the memory lies inside it as a whole, so that
\* filling or flushing the cache touches no address outside of the flash chip's.
LEMMA SectorInMemory ==
  ASSUME NEW a \in Address, NEW o \in Offset
  PROVE  /\ TagOf(a) + o \in Address
         /\ TagOf(TagOf(a) + o) = TagOf(a)
         /\ OffsetOf(TagOf(a) + o) = o
<1>. DEFINE s == SECTOR_SIZE
            q == a \div s
            k == NV_MEMORY_SIZE \div s
<1>1. s \in Nat \ {0} /\ NV_MEMORY_SIZE \in Nat /\ a \in Nat /\ o \in 0 .. s - 1
  BY SizesAssumption DEF Address, Offset
<1>2. q \in Nat /\ k \in Nat
  BY <1>1
<1>3. TagOf(a) = s * q
  BY <1>1 DEF TagOf, OffsetOf
<1>4. NV_MEMORY_SIZE = s * k
  BY <1>1, SizesAssumption
<1>5. s * q < s * k
  <2>1. TagOf(a) <= a
    BY <1>1, SectorArithmetic DEF Offset
  <2>2. a < NV_MEMORY_SIZE
    BY <1>1 DEF Address
  <2>. QED BY <1>1, <1>2, <1>3, <1>4, <2>1, <2>2
<1>6. q < k
  BY <1>1, <1>2, <1>5
<1>7. s * q + s <= s * k
  BY <1>1, <1>2, <1>6
<1>8. OffsetOf(TagOf(a) + o) = o
  BY Zenon, <1>1, <1>2, <1>3, Remainder DEF OffsetOf
<1>. QED BY <1>1, <1>2, <1>3, <1>4, <1>7, <1>8 DEF TagOf, Address

-----------------------------------------------------------------------------
(* Between the steps of a call: a flush in progress has a sector to write back, *)
(* and the loop of nonVolatileWrite() runs on behalf of nonVolatileWrite().     *)
Flushing == {"erase", "verify_erase", "program", "verify_program"}

CallsInProgress ==
  /\ pc \in Flushing => write_cache_valid
  /\ pc = "write" => call.op = "write"

IInv == TypeOK /\ CallsInProgress

\* The cache starts empty and no call is in progress.
LEMMA InitIInv == Init => IInv
<1>. SUFFICES ASSUME Init PROVE IInv
  BY Zenon
<1>1. call \in [op : {"none", "write", "flush", "reset"}, address : Nat, data : Seq(Byte)]
      /\ call.address + Len(call.data) <= NV_MEMORY_SIZE
  BY SizesAssumption DEF Init
<1>2. write_cache \in [Offset -> Byte]
  BY Zenon, ErasedAssumption DEF Init
<1>. QED BY Zenon, <1>1, <1>2 DEF Init, IInv, TypeOK, CallsInProgress, Flushing, NonVolatileReturn

\* The byte that nonVolatileWrite() is about to write is inside the memory.
LEMMA WritingAddress ==
  ASSUME TypeOK, Writing
  PROVE  /\ call.address \in Address
         /\ Head(call.data) \in Byte
         /\ Tail(call.data) \in Seq(Byte)
         /\ Len(Tail(call.data)) = Len(call.data) - 1
<1>1. call.data \in Seq(Byte) /\ call.data # <<>> /\ Len(call.data) > 0
  BY DEF TypeOK, Writing
<1>2. Head(call.data) \in Byte /\ Tail(call.data) \in Seq(Byte)
      /\ Len(Tail(call.data)) = Len(call.data) - 1
  BY <1>1
<1>3. call.address \in Address
  BY <1>1, SizesAssumption DEF TypeOK, Address
<1>. QED BY Zenon, <1>2, <1>3

\* A call without data has no range to be outside of the memory.
LEMMA NoDataCall ==
  ASSUME NEW x \in {"none", "write", "flush", "reset"},
         call' = [op |-> x, address |-> 0, data |-> <<>>]
  PROVE  /\ call' \in [op : {"none", "write", "flush", "reset"}, address : Nat, data : Seq(Byte)]
         /\ call'.address + Len(call'.data) <= NV_MEMORY_SIZE
         /\ call'.op = x
  BY SizesAssumption

LEMMA DataAreBytes == ASSUME NEW d \in Data PROVE d \in Seq(Byte)
BY DEF Data

\* Every step of nvmem_manager.c and of the chip keeps the invariant.
LEMMA NextIInv == IInv /\ [Next]_vars => IInv'
<1>. SUFFICES ASSUME IInv, [Next]_vars PROVE IInv'
  BY Zenon
<1>. USE DEF IInv, TypeOK, CallsInProgress, Flushing
<1>1. ASSUME NEW p \in Partition, NEW a \in 0 .. NV_MEMORY_SIZE, NEW d \in Data,
             nonVolatileWrite(p, a, d)
      PROVE  IInv'
  <2>1. d \in Seq(Byte)
    BY Zenon, DataAreBytes
  <2>2. CASE AddressOK(p, a, Len(d))
    <3>1. Tweak(p, a) \in Nat /\ Tweak(p, a) + Len(d) <= NV_MEMORY_SIZE
      <4>. HIDE DEF IInv, TypeOK, CallsInProgress
      <4>1. Len(d) \in Nat /\ a \in Nat
        BY <2>1, SizesAssumption
      <4>2. CASE p = "PARTITION_GLOBAL"
        BY Zenon, <2>2, <4>1, <4>2, SizesAssumption DEF AddressOK, Tweak, nonVolatileGetSize
      <4>3. CASE p = "PARTITION_ACCOUNTS"
        BY <2>2, <4>1, <4>3, SizesAssumption DEF AddressOK, Tweak, nonVolatileGetSize
      <4>4. CASE p = "no such partition"
        BY Zenon, <2>2, <4>1, <4>4, SizesAssumption DEF AddressOK, Tweak, nonVolatileGetSize
      <4>. QED BY Zenon, <4>2, <4>3, <4>4 DEF Partition
    <3>. QED BY <1>1, <2>1, <2>2, <3>1 DEF nonVolatileWrite, cacheVars
  <2>3. CASE ~AddressOK(p, a, Len(d))
    <3>1. call' = [op |-> "none", address |-> 0, data |-> <<>>]
      BY Zenon, <1>1, <2>3 DEF nonVolatileWrite
    <3>. QED BY Zenon, <1>1, <2>3, <3>1, NoDataCall
             DEF nonVolatileWrite, cacheVars, Return, NonVolatileReturn
  <2>. QED BY Zenon, <2>2, <2>3
<1>2. ASSUME nonVolatileFlush PROVE IInv'
  <2>1. call' = [op |-> "flush", address |-> 0, data |-> <<>>]
    BY Zenon, <1>2 DEF nonVolatileFlush
  <2>. QED BY Zenon, <1>2, <2>1, NoDataCall DEF nonVolatileFlush, cacheVars, Return, NonVolatileReturn
<1>3. ASSUME WriteHit PROVE IInv'
  <2>1. OffsetOf(call.address) \in Offset
    BY Zenon, <1>3, WritingAddress, SectorArithmetic DEF WriteHit, Address
  <2>2. write_cache' \in [Offset -> Byte]
    BY Zenon, <1>3, <2>1, WritingAddress DEF WriteHit
  <2>3. call' \in [op : {"none", "write", "flush", "reset"}, address : Nat, data : Seq(Byte)]
    <3>1. call.address + 1 \in Nat /\ Tail(call.data) \in Seq(Byte)
      BY <1>3, WritingAddress DEF WriteHit
    <3>2. call' = [call EXCEPT !.address = call.address + 1, !.data = Tail(call.data)]
      BY Zenon, <1>3 DEF WriteHit
    <3>3. call \in [op : {"none", "write", "flush", "reset"}, address : Nat, data : Seq(Byte)]
      BY Zenon
    <3>. HIDE DEF IInv, TypeOK, CallsInProgress
    <3>. QED BY Zenon, <3>1, <3>2, <3>3
  <2>4. (call.address + Len(call.data) <= NV_MEMORY_SIZE)'
    <3>1. call'.address = call.address + 1 /\ call'.data = Tail(call.data)
      BY Zenon, <1>3 DEF WriteHit
    <3>2. Len(call'.data) = Len(call.data) - 1 /\ Len(call.data) \in Nat
      BY <1>3, <3>1, WritingAddress DEF WriteHit
    <3>3. call.address \in Nat /\ call.address + Len(call.data) <= NV_MEMORY_SIZE
      BY Zenon
    <3>. HIDE DEF IInv, TypeOK, CallsInProgress
    <3>. QED BY <3>1, <3>2, <3>3, SizesAssumption
  <2>5. call'.op = call.op
    BY Zenon, <1>3 DEF WriteHit
  <2>. QED BY Zenon, <1>3, <2>2, <2>3, <2>4, <2>5 DEF WriteHit, Writing
<1>4. ASSUME WriteMiss PROVE IInv'
  <2>1. call.address \in Address
    BY Zenon, <1>4, WritingAddress DEF WriteMiss
  <2>2. \A o \in Offset : TagOf(call.address) + o \in Address
    BY Zenon, <2>1, SectorInMemory
  <2>. QED BY Zenon, <1>4, <2>1, <2>2 DEF WriteMiss, Writing
<1>5. ASSUME WriteEvict PROVE IInv'
  BY Zenon, <1>5 DEF WriteEvict, Writing, cacheVars
<1>6. ASSUME WriteDone PROVE IInv'
  BY Zenon, <1>6 DEF WriteDone, cacheVars, Return, NonVolatileReturn
<1>7. ASSUME sst25xEraseSector PROVE IInv'
  BY Zenon, <1>7, ErasedAssumption DEF sst25xEraseSector, cacheVars
<1>8. ASSUME VerifyErase PROVE IInv'
  BY Zenon, <1>8 DEF VerifyErase, cacheVars, Return, NonVolatileReturn
<1>9. ASSUME sst25xProgramSector PROVE IInv'
  <2>1. \A a \in Address : write_cache[OffsetOf(a)] \in Byte
    BY SectorArithmetic DEF Address
  <2>. QED BY Zenon, <1>9, <2>1 DEF sst25xProgramSector, cacheVars
<1>10. ASSUME VerifyProgram PROVE IInv'
  BY Zenon, <1>10, ErasedAssumption DEF VerifyProgram, cacheVars, Return, NonVolatileReturn
<1>11. ASSUME PowerLoss PROVE IInv'
  <2>1. call' \in [op : {"none", "write", "flush", "reset"}, address : Nat, data : Seq(Byte)]
        /\ call'.address + Len(call'.data) <= NV_MEMORY_SIZE
    BY Zenon, <1>11, NoDataCall DEF PowerLoss
  <2>2. write_cache' \in [Offset -> Byte]
    BY Zenon, <1>11, ErasedAssumption DEF PowerLoss
  <2>. QED BY Zenon, <1>11, <2>1, <2>2 DEF PowerLoss, NonVolatileReturn
<1>12. ASSUME UNCHANGED vars PROVE IInv'
  BY Zenon, <1>12 DEF vars
<1>. QED BY Zenon, <1>1, <1>2, <1>3, <1>4, <1>5, <1>6, <1>7, <1>8, <1>9, <1>10, <1>11, <1>12
         DEF Next, Step

\* Type correctness of nvmem_manager.c's state, for all sizes of memory and
\* sectors: in particular no write leaves the memory.
THEOREM TypeCorrect == Spec => []TypeOK
<1>1. Spec => []IInv
  BY InitIInv, NextIInv, PTL DEF Spec
<1>2. IInv => TypeOK
  BY Zenon DEF IInv
<1>. QED BY <1>1, <1>2, PTL

-----------------------------------------------------------------------------
(* The refinement of NvStore.                                               *)

\* Two addresses of a sector have different offsets.
LEMMA SameSector ==
  ASSUME NEW a \in Address, NEW b \in Address, TagOf(a) = TagOf(b), OffsetOf(a) = OffsetOf(b)
  PROVE  a = b
  BY SectorArithmetic DEF Address

\* Changing the cached sector on the chip is one step of the store's Work: the
\* cache hides the sector, and other sectors are not touched.
LEMMA SectorWork ==
  ASSUME IInv, write_cache_valid, UNCHANGED cacheVars,
         flash' \in [Address -> Byte],
         \A a \in Address : ~InSector(a) => flash'[a] = flash[a],
         pc' # "idle"
  PROVE  \E a \in Address : Store!Work(a)
<1>1. PICK a \in Address : write_cache_tag = TagOf(a)
  BY Zenon DEF IInv, TypeOK
<1>2. View' = View
  BY Zenon DEF View, Cached, cacheVars, InSector
<1>3. Store!Work(a)
  BY Zenon, <1>1, <1>2 DEF Store!Work, InSector
<1>. QED BY Zenon, <1>3

\* A step that changes no contents, and does not report a flush.
LEMMA OtherStep ==
  ASSUME flash' = flash, View' = View,
         ~(pc = "idle" /\ call.op = "flush" /\ ret = "NV_NO_ERROR")'
  PROVE  Store!Next
  BY Zenon DEF Store!Next, Store!Other

\* What is read depends only on the chip and on the cache.
LEMMA ViewDependsOn == flash' = flash /\ UNCHANGED cacheVars => View' = View
  BY DEF View, Cached, cacheVars

\* With an empty cache, the memory is what the chip holds.
LEMMA InitStore == Init => Store!Init
  BY DEF Init, Store!Init, View, Cached

\* Each step is a step of the store, or leaves it as it is.
LEMMA NextStore ==
  ASSUME IInv, IInv', [Next]_vars
  PROVE  [Store!Next]_(Store!vars)
<1>1. ASSUME NEW p \in Partition, NEW a \in 0 .. NV_MEMORY_SIZE, NEW d \in Data,
             nonVolatileWrite(p, a, d)
      PROVE  Store!Next
  <2>1. flash' = flash /\ View' = View
    BY Zenon, <1>1, ViewDependsOn DEF nonVolatileWrite
  <2>2. ~(pc = "idle" /\ call.op = "flush" /\ ret = "NV_NO_ERROR")'
    BY Zenon, <1>1 DEF nonVolatileWrite, Return
  <2>. QED BY Zenon, <2>1, <2>2, OtherStep
<1>2. ASSUME nonVolatileFlush PROVE Store!Next
  <2>1. flash' = flash /\ View' = View
    BY Zenon, <1>2, ViewDependsOn DEF nonVolatileFlush
  <2>2. CASE ~write_cache_valid
    <3>1. flash = View
      BY Zenon, <2>2 DEF View, Cached, IInv, TypeOK
    <3>2. (pc = "idle" /\ call.op = "flush" /\ ret = "NV_NO_ERROR")'
      BY Zenon, <1>2, <2>2 DEF nonVolatileFlush, Return
    <3>. QED BY Zenon, <2>1, <3>1, <3>2 DEF Store!Next, Store!Flush
  <2>3. CASE write_cache_valid
    <3>1. ~(pc = "idle" /\ call.op = "flush" /\ ret = "NV_NO_ERROR")'
      BY Zenon, <1>2, <2>3 DEF nonVolatileFlush, Return
    <3>. QED BY Zenon, <2>1, <3>1, OtherStep
  <2>. QED BY Zenon, <2>2, <2>3 DEF IInv, TypeOK
<1>3. ASSUME WriteHit PROVE Store!Next
  <2>. DEFINE a == call.address
              b == Head(call.data)
  <2>1. a \in Address /\ b \in Byte /\ OffsetOf(a) \in Offset
    BY <1>3, WritingAddress, SectorArithmetic DEF WriteHit, IInv, Address
  <2>2. View' = [View EXCEPT ![a] = b]
    <3>1. ASSUME NEW c \in Address PROVE View'[c] = [View EXCEPT ![a] = b][c]
      <4>1. OffsetOf(c) \in Offset
        BY SectorArithmetic DEF Address
      <4>2. Cached(c)' <=> Cached(c)
        BY Zenon, <1>3 DEF WriteHit, Cached
      <4>3. CASE c = a
        BY Zenon, <1>3, <2>1, <4>2, <4>3 DEF WriteHit, View, IInv, TypeOK
      <4>4. CASE c # a /\ Cached(c)
        <5>1. OffsetOf(c) # OffsetOf(a)
          BY Zenon, <1>3, <2>1, <4>4, SameSector DEF WriteHit, Cached
        <5>. QED BY Zenon, <1>3, <2>1, <4>1, <4>2, <4>4, <5>1 DEF WriteHit, View, IInv, TypeOK
      <4>5. CASE c # a /\ ~Cached(c)
        BY Zenon, <1>3, <2>1, <4>2, <4>5 DEF WriteHit, View
      <4>. QED BY Zenon, <4>3, <4>4, <4>5
    <3>. QED BY Zenon, <3>1 DEF View
  <2>3. Store!Write(a, b)
    BY Zenon, <1>3, <2>2 DEF WriteHit, Writing, Store!Write
  <2>. QED BY Zenon, <2>1, <2>3 DEF Store!Next
<1>4. ASSUME WriteMiss PROVE Store!Next
  <2>. DEFINE a == call.address
  <2>1. a \in Address
    BY Zenon, <1>4, WritingAddress DEF WriteMiss, IInv
  <2>2. View' = View
    <3>1. ASSUME NEW c \in Address PROVE View'[c] = View[c]
      <4>1. c \in Nat /\ OffsetOf(c) \in Offset /\ c = TagOf(c) + OffsetOf(c)
        BY SectorArithmetic DEF Address
      <4>2. CASE Cached(c)'
        BY Zenon, <1>4, <4>1, <4>2 DEF WriteMiss, View, Cached
      <4>3. CASE ~Cached(c)'
        BY Zenon, <1>4, <4>3 DEF WriteMiss, View, Cached
      <4>. QED BY Zenon, <4>2, <4>3
    <3>. QED BY Zenon, <3>1 DEF View
  <2>. QED BY Zenon, <1>4, <2>2, OtherStep DEF WriteMiss, Writing
<1>5. ASSUME WriteEvict PROVE Store!Next
  BY Zenon, <1>5, ViewDependsOn, OtherStep DEF WriteEvict
<1>6. ASSUME WriteDone PROVE Store!Next
  BY Zenon, <1>6, ViewDependsOn, OtherStep DEF WriteDone, IInv, CallsInProgress
<1>7. ASSUME sst25xEraseSector PROVE Store!Next
  <2>1. \A a \in Address : ~InSector(a) => flash'[a] = flash[a]
    BY Zenon, <1>7 DEF sst25xEraseSector
  <2>2. write_cache_valid /\ flash' \in [Address -> Byte] /\ pc' # "idle" /\ UNCHANGED cacheVars
    BY Zenon, <1>7 DEF sst25xEraseSector, IInv, TypeOK, CallsInProgress, Flushing
  <2>. QED BY Zenon, <2>1, <2>2, SectorWork DEF Store!Next
<1>8. ASSUME VerifyErase PROVE Store!Next
  <2>1. ~(pc = "idle" /\ call.op = "flush" /\ ret = "NV_NO_ERROR")'
    BY Zenon, <1>8 DEF VerifyErase, Return
  <2>. QED BY Zenon, <1>8, <2>1, ViewDependsOn, OtherStep DEF VerifyErase
<1>9. ASSUME sst25xProgramSector PROVE Store!Next
  <2>1. \A a \in Address : ~InSector(a) => flash'[a] = flash[a]
    BY Zenon, <1>9 DEF sst25xProgramSector
  <2>2. write_cache_valid /\ flash' \in [Address -> Byte] /\ pc' # "idle" /\ UNCHANGED cacheVars
    BY Zenon, <1>9 DEF sst25xProgramSector, IInv, TypeOK, CallsInProgress, Flushing
  <2>. QED BY Zenon, <2>1, <2>2, SectorWork DEF Store!Next
<1>10. ASSUME VerifyProgram PROVE Store!Next
  <2>1. CASE SectorProgrammed
    <3>1. View = flash
      BY Zenon, <2>1 DEF SectorProgrammed, InSector, View, Cached, IInv, TypeOK
    <3>2. View' = flash /\ flash' = flash
      BY Zenon, <1>10, <2>1 DEF VerifyProgram, View, Cached, IInv, TypeOK
    <3>3. CASE (pc = "idle" /\ call.op = "flush" /\ ret = "NV_NO_ERROR")'
      BY Zenon, <3>1, <3>2, <3>3 DEF Store!Next, Store!Flush
    <3>4. CASE ~(pc = "idle" /\ call.op = "flush" /\ ret = "NV_NO_ERROR")'
      BY Zenon, <3>1, <3>2, <3>4, OtherStep
    <3>. QED BY Zenon, <3>3, <3>4
  <2>2. CASE ~SectorProgrammed
    <3>1. ~(pc = "idle" /\ call.op = "flush" /\ ret = "NV_NO_ERROR")'
      BY Zenon, <1>10, <2>2 DEF VerifyProgram, Return
    <3>. QED BY Zenon, <1>10, <2>2, <3>1, ViewDependsOn, OtherStep DEF VerifyProgram
  <2>. QED BY Zenon, <2>1, <2>2
<1>11. ASSUME PowerLoss PROVE Store!Next
  <2>1. View' = flash /\ flash' = flash
    BY Zenon, <1>11 DEF PowerLoss, View, Cached, IInv, TypeOK
  <2>2. ~(pc = "idle" /\ call.op = "flush" /\ ret = "NV_NO_ERROR")'
    BY Zenon, <1>11 DEF PowerLoss
  <2>. QED BY Zenon, <2>1, <2>2 DEF Store!Next, Store!PowerLoss
<1>12. ASSUME UNCHANGED vars PROVE UNCHANGED Store!vars
  BY Zenon, <1>12, ViewDependsOn DEF vars, cacheVars, Store!vars
<1>. QED BY Zenon, <1>1, <1>2, <1>3, <1>4, <1>5, <1>6, <1>7, <1>8, <1>9, <1>10, <1>11, <1>12
         DEF Next, Step

\* The write-back cache of nvmem_manager.c implements the contract of hwinterface.h,
\* for every sector size, memory size and partitioning: whatever the chip does
\* wrong and wherever power fails, reads see the last write, only the sector being
\* flushed is endangered, and a flush that reports success has left nothing to write.
THEOREM Refinement == Spec => ImplementsStore
<1>1. Init /\ [][Next]_vars => []IInv
  BY InitIInv, NextIInv, PTL
<1>2. IInv /\ IInv' /\ [Next]_vars => [Store!Next]_(Store!vars)
  BY Zenon, NextStore
<1>. QED BY <1>1, <1>2, InitStore, PTL DEF Spec, ImplementsStore, Store!Spec

-----------------------------------------------------------------------------
(* nonVolatileRead(): what its loop collects, for a range of any length.    *)

\* The induction principle, for a set of numbers.
LEMMA SetInduction ==
  ASSUME NEW T, 0 \in T, \A n \in Nat : n \in T => n + 1 \in T
  PROVE  Nat \subseteq T
<1>. DEFINE M == Nat \ T
            R == {p \in Nat \X Nat : p[1] < p[2]}
<1>1. IsWellFoundedOn(R, Nat)
  BY Zenon, NatLessThanWellFounded DEF OpToRel
<1>2. SUFFICES ASSUME M # {} PROVE FALSE
  BY Zenon
<1>3. PICK x \in M : \A y \in M : ~(<<y, x>> \in R)
  <2>. HIDE DEF R
  <2>. QED BY Zenon, <1>1, <1>2, WFMin
<1>4. x \in Nat /\ x # 0 /\ x - 1 \in Nat
  OBVIOUS
<1>5. x - 1 \notin T
  BY <1>4
<1>6. <<x - 1, x>> \in R
  BY <1>4
<1>. QED BY Zenon, <1>3, <1>4, <1>5, <1>6

\* One turn of the loop.
ReadStep(address, s, n) ==
  LET a == address + n - 1
      queued == sst25xRead(a - s.nv_read_length, s.nv_read_length)
  IN  IF Cached(a)
      THEN [data |-> s.data \o queued \o <<write_cache[OffsetOf(a)]>>, nv_read_length |-> 0]
      ELSE [s EXCEPT !.nv_read_length = @ + 1]

\* After n bytes, the last u of which are queued because they are not cached.
ReadSoFar(address, s, n) ==
  \E u \in 0 .. n :
    /\ s = [data |-> [k \in 1 .. n - u |-> View[address + k - 1]], nv_read_length |-> u]
    /\ \A j \in n - u + 1 .. n : ~Cached(address + j - 1)

LEMMA ViewTyped == ASSUME IInv, NEW a \in Address PROVE View[a] \in Byte
<1>1. OffsetOf(a) \in Offset
  BY SectorArithmetic DEF Address
<1>2. flash[a] \in Byte /\ write_cache[OffsetOf(a)] \in Byte
  BY Zenon, <1>1 DEF IInv, TypeOK
<1>. QED BY Zenon, <1>2 DEF View

\* Joining what was collected with what was queued.
LEMMA JoinedView ==
  ASSUME IInv, NEW address \in Nat, NEW n \in Nat, NEW u \in 0 .. n,
         address + n <= NV_MEMORY_SIZE,
         \A j \in n - u + 1 .. n : ~Cached(address + j - 1)
  PROVE  /\ [k \in 1 .. n - u |-> View[address + k - 1]] \o sst25xRead(address + n - u, u)
              = [k \in 1 .. n |-> View[address + k - 1]]
         /\ [k \in 1 .. n |-> View[address + k - 1]] \in Seq(Byte)
<1>. DEFINE V(m) == [k \in 1 .. m |-> View[address + k - 1]]
            q == sst25xRead(address + n - u, u)
<1>1. \A k \in 1 .. n : address + k - 1 \in Address
  BY SizesAssumption DEF Address
<1>2. \A k \in 1 .. n : View[address + k - 1] \in Byte
  BY Zenon, <1>1, ViewTyped
<1>3. V(n) \in Seq(Byte) /\ Len(V(n)) = n
  BY <1>2
<1>4. V(n - u) \in Seq(Byte) /\ Len(V(n - u)) = n - u
  BY <1>2
<1>5. \A k \in 1 .. u : flash[(address + n - u) + k - 1] = View[address + (n - u + k) - 1]
  <2>1. ASSUME NEW k \in 1 .. u PROVE flash[(address + n - u) + k - 1] = View[address + (n - u + k) - 1]
    <3>1. /\ n - u + k \in n - u + 1 .. n /\ n - u + k \in 1 .. n
          /\ (address + n - u) + k - 1 = address + (n - u + k) - 1
      OBVIOUS
    <3>2. PICK a \in Address : a = address + (n - u + k) - 1 /\ ~Cached(a)
      BY Zenon, <1>1, <3>1
    <3>. QED BY Zenon, <3>1, <3>2 DEF View
  <2>. QED BY Zenon, <2>1
<1>6. /\ q \in Seq(Byte) /\ Len(q) = u
      /\ \A k \in 1 .. u : q[k] = View[address + (n - u + k) - 1]
  <2>1. \A k \in 1 .. u : flash[(address + n - u) + k - 1] \in Byte
    <3>1. \A k \in 1 .. u : n - u + k \in 1 .. n
      OBVIOUS
    <3>. QED BY Zenon, <1>2, <1>5, <3>1
  <2>2. PICK b : b = address + n - u
    BY Zenon
  <2>3. q = [k \in 1 .. u |-> flash[b + k - 1]]
    BY Zenon, <2>2 DEF sst25xRead
  <2>4. \A k \in 1 .. u : q[k] = flash[b + k - 1] /\ q[k] \in Byte
    BY Zenon, <2>1, <2>2, <2>3
  <2>5. \A k \in 1 .. u : flash[b + k - 1] \in Byte
    BY Zenon, <2>1, <2>2
  <2>. HIDE DEF q
  <2>6. q \in Seq(Byte) /\ Len(q) = u
    BY <2>3, <2>5
  <2>. QED BY Zenon, <1>5, <2>2, <2>4, <2>6
<1>7. \A k \in 1 .. n - u : V(n - u)[k] = View[address + k - 1]
  BY Zenon
<1>8. \A k \in 1 .. n : V(n)[k] = View[address + k - 1]
  BY Zenon
<1>9. PICK v, w : v = V(n - u) /\ w = V(n)
  BY Zenon
<1>. HIDE DEF V, q
<1>10. /\ v \o q \in Seq(Byte) /\ Len(v \o q) = n
       /\ \A k \in 1 .. n : (v \o q)[k] = IF k <= n - u THEN v[k] ELSE q[k - (n - u)]
  <2>1. v \in Seq(Byte) /\ Len(v) = n - u /\ (n - u) + u = n
    BY <1>4, <1>9
  <2>2. /\ v \o q \in Seq(Byte) /\ Len(v \o q) = Len(v) + Len(q)
        /\ \A k \in 1 .. Len(v) + Len(q) :
              (v \o q)[k] = IF k <= Len(v) THEN v[k] ELSE q[k - Len(v)]
    BY Zenon, <1>6, <2>1, ConcatProperties
  <2>3. Len(v) = n - u /\ Len(v) + Len(q) = n
    BY Zenon, <1>6, <2>1
  <2>. QED BY Zenon, <2>2, <2>3
<1>11. \A k \in 1 .. n : (v \o q)[k] = w[k]
  <2>1. ASSUME NEW k \in 1 .. n PROVE (v \o q)[k] = w[k]
    <3>1. CASE k <= n - u
      <4>1. k \in 1 .. n - u
        BY <3>1
      <4>2. v[k] = View[address + k - 1] /\ w[k] = View[address + k - 1]
        BY Zenon, <1>7, <1>8, <1>9, <4>1
      <4>. QED BY Zenon, <1>10, <3>1, <4>2
    <3>2. CASE k > n - u
      <4>1. k - (n - u) \in 1 .. u /\ address + (n - u + (k - (n - u))) - 1 = address + k - 1
        BY <3>2
      <4>2. q[k - (n - u)] = View[address + k - 1]
        BY Zenon, <1>6, <4>1
      <4>3. w[k] = View[address + k - 1] /\ ~(k <= n - u)
        BY <1>8, <1>9, <3>2
      <4>. QED BY Zenon, <1>10, <4>2, <4>3
    <3>3. k <= n - u \/ k > n - u
      OBVIOUS
    <3>. QED BY ONLY Zenon, <3>1, <3>2, <3>3
  <2>. QED BY Zenon, <2>1
<1>12. v \o q = w
  BY Zenon, <1>3, <1>9, <1>10, <1>11, SeqEqual
<1>. QED BY Zenon, <1>3, <1>9, <1>12 DEF V, q

\* Each turn of the loop accounts for one more byte.
LEMMA ReadStepGood ==
  ASSUME IInv, NEW address \in Nat, NEW n \in Nat, address + n + 1 <= NV_MEMORY_SIZE,
         NEW s, ReadSoFar(address, s, n)
  PROVE  ReadSoFar(address, ReadStep(address, s, n + 1), n + 1)
<1>. DEFINE a == address + n
            V(m) == [k \in 1 .. m |-> View[address + k - 1]]
<1>1. a = address + (n + 1) - 1 /\ a \in Address
  BY SizesAssumption DEF Address
<1>2. PICK u \in 0 .. n :
         /\ s = [data |-> V(n - u), nv_read_length |-> u]
         /\ \A j \in n - u + 1 .. n : ~Cached(address + j - 1)
  BY Zenon DEF ReadSoFar
<1>3. CASE Cached(a)
  <2>. DEFINE t == V(n - u) \o sst25xRead(a - u, u)
  <2>1. t = V(n) /\ V(n) \in Seq(Byte)
    <3>1. a - u = address + n - u
      OBVIOUS
    <3>2. address + n <= NV_MEMORY_SIZE
      BY SizesAssumption
    <3>3. /\ V(n - u) \o sst25xRead(address + n - u, u) = V(n)
          /\ V(n) \in Seq(Byte)
      BY Zenon, <1>2, <3>2, JoinedView
    <3>. HIDE DEF V
    <3>. QED BY Zenon, <3>1, <3>3
  <2>2. View[a] = write_cache[OffsetOf(a)] /\ View[a] \in Byte
    BY Zenon, <1>1, <1>3, ViewTyped DEF View
  <2>3. V(n) \o <<View[a]>> = V(n + 1)
    <3>1. Len(V(n)) = n /\ \A k \in 1 .. n : V(n)[k] = View[address + k - 1]
      BY <2>1
    <3>2. \A k \in 1 .. n + 1 : View[address + k - 1] \in Byte
      BY ViewTyped, SizesAssumption DEF Address
    <3>3. /\ V(n + 1) \in Seq(Byte) /\ Len(V(n + 1)) = n + 1
          /\ \A k \in 1 .. n + 1 : V(n + 1)[k] = View[address + k - 1]
      BY <3>2
    <3>4. PICK v, w, b : v = V(n) /\ w = V(n + 1) /\ b = View[a]
      BY Zenon
    <3>5. /\ v \o <<b>> \in Seq(Byte) /\ Len(v \o <<b>>) = n + 1
          /\ (v \o <<b>>)[n + 1] = b
          /\ \A k \in 1 .. n : (v \o <<b>>)[k] = v[k]
      <4>. HIDE DEF V
      <4>1. v \in Seq(Byte) /\ Len(v) = n /\ b \in Byte
        BY Zenon, <2>1, <2>2, <3>1, <3>4
      <4>. QED BY ONLY <4>1, n \in Nat
    <3>6. \A k \in 1 .. n + 1 : (v \o <<b>>)[k] = w[k]
      <4>1. address + (n + 1) - 1 = a
        BY Zenon, <1>1
      <4>2. w[n + 1] = b
        BY <3>3, <3>4, <4>1
      <4>3. \A k \in 1 .. n : v[k] = w[k]
        BY <3>1, <3>3, <3>4
      <4>. HIDE DEF V
      <4>. QED BY <3>5, <4>2, <4>3
    <3>. HIDE DEF V
    <3>7. v \o <<b>> = w
      BY Zenon, <3>3, <3>4, <3>5, <3>6, SeqEqual
    <3>. QED BY Zenon, <3>4, <3>7
  <2>4. ReadStep(address, s, n + 1) = [data |-> V((n + 1) - 0), nv_read_length |-> 0]
    <3>1. s.data = V(n - u) /\ s.nv_read_length = u
      BY Zenon, <1>2
    <3>2. (n + 1) - 0 = n + 1
      OBVIOUS
    <3>. HIDE DEF V
    <3>. QED BY Zenon, <1>1, <1>3, <2>1, <2>2, <2>3, <3>1, <3>2 DEF ReadStep
  <2>5. 0 \in 0 .. n + 1 /\ \A j \in (n + 1) - 0 + 1 .. n + 1 : FALSE
    OBVIOUS
  <2>. QED BY Zenon, <2>4, <2>5 DEF ReadSoFar
<1>4. CASE ~Cached(a)
  <2>1. u + 1 \in 0 .. n + 1 /\ (n + 1) - (u + 1) = n - u
    OBVIOUS
  <2>2. ReadStep(address, s, n + 1) = [data |-> V((n + 1) - (u + 1)), nv_read_length |-> u + 1]
    <3>1. ReadStep(address, s, n + 1) = [s EXCEPT !.nv_read_length = s.nv_read_length + 1]
      BY Zenon, <1>1, <1>4 DEF ReadStep
    <3>. HIDE DEF V
    <3>. QED BY Zenon, <1>2, <2>1, <3>1
  <2>3. \A j \in (n + 1) - (u + 1) + 1 .. n + 1 : ~Cached(address + j - 1)
    <3>1. ASSUME NEW j \in (n + 1) - (u + 1) + 1 .. n + 1
          PROVE  ~Cached(address + j - 1)
      <4>1. j \in n - u + 1 .. n \/ j = n + 1
        OBVIOUS
      <4>2. CASE j \in n - u + 1 .. n
        BY Zenon, <1>2, <4>2
      <4>3. CASE j = n + 1
        BY Zenon, <1>1, <1>4, <4>3
      <4>. QED BY Zenon, <4>1, <4>2, <4>3
    <3>. QED BY Zenon, <3>1
  <2>. QED BY Zenon, <2>1, <2>2, <2>3 DEF ReadSoFar
<1>. QED BY Zenon, <1>3, <1>4

\* The states of the loop for a range inside the memory.
LEMMA ReadLoopExists ==
  ASSUME IInv, NEW address \in Nat, NEW length \in Nat, address + length <= NV_MEMORY_SIZE
  PROVE  \E f : f = [n \in 0 .. length |->
                       IF n = 0 THEN [data |-> <<>>, nv_read_length |-> 0]
                       ELSE ReadStep(address, f[n - 1], n)]
<1>. DEFINE First == [data |-> <<>>, nv_read_length |-> 0]
            Loop(f, m) == f = [n \in 0 .. m |-> IF n = 0 THEN First ELSE ReadStep(address, f[n - 1], n)]
            T == {m \in Nat : \E f : Loop(f, m)}
<1>1. 0 \in T
  <2>1. Loop([n \in 0 .. 0 |-> First], 0)
    <3>1. \A n \in 0 .. 0 : n = 0
      OBVIOUS
    <3>. HIDE DEF First
    <3>. QED BY Zenon, <3>1
  <2>. HIDE DEF Loop
  <2>. QED BY Zenon, <2>1
<1>2. ASSUME NEW m \in Nat, m \in T
      PROVE  m + 1 \in T
  <2>1. PICK f : Loop(f, m)
    BY Zenon, <1>2
  <2>. DEFINE g == [n \in 0 .. m + 1 |-> IF n <= m THEN f[n] ELSE ReadStep(address, f[m], m + 1)]
  <2>. HIDE DEF First
  <2>2. \A n \in 0 .. m : f[n] = IF n = 0 THEN First ELSE ReadStep(address, f[n - 1], n)
    BY Zenon, <2>1
  <2>3. \A n \in 0 .. m : g[n] = f[n]
    OBVIOUS
  <2>4. g[m + 1] = ReadStep(address, f[m], m + 1)
    OBVIOUS
  <2>5. \A n \in 0 .. m + 1 : g[n] = IF n = 0 THEN First ELSE ReadStep(address, g[n - 1], n)
    <3>1. ASSUME NEW n \in 0 .. m + 1
          PROVE  g[n] = IF n = 0 THEN First ELSE ReadStep(address, g[n - 1], n)
      <4>. HIDE DEF g
      <4>1. CASE n = 0
        BY <2>2, <2>3, <4>1
      <4>2. CASE n \in 1 .. m
        <5>1. n \in 0 .. m /\ n - 1 \in 0 .. m /\ n # 0
          BY <4>2
        <5>2. g[n] = f[n] /\ g[n - 1] = f[n - 1]
          BY Zenon, <2>3, <5>1
        <5>3. f[n] = ReadStep(address, f[n - 1], n)
          BY Zenon, <2>2, <5>1
        <5>. QED BY Zenon, <5>1, <5>2, <5>3
      <4>3. CASE n = m + 1
        <5>1. m \in 0 .. m /\ n # 0 /\ n - 1 = m
          BY <4>3
        <5>2. g[m] = f[m]
          BY Zenon, <2>3, <5>1
        <5>. QED BY Zenon, <2>4, <4>3, <5>1, <5>2
      <4>. QED BY <4>1, <4>2, <4>3
    <3>. QED BY Zenon, <3>1
  <2>6. g = [n \in 0 .. m + 1 |-> g[n]]
    BY Zenon
  <2>. HIDE DEF g
  <2>7. g = [n \in 0 .. m + 1 |-> IF n = 0 THEN First ELSE ReadStep(address, g[n - 1], n)]
    BY Zenon, <2>5, <2>6
  <2>8. Loop(g, m + 1)
    BY Zenon, <2>7
  <2>. HIDE DEF Loop
  <2>. QED BY <2>8
<1>. HIDE DEF T, Loop
<1>3. length \in T
  BY Zenon, <1>1, <1>2, SetInduction
<1>. QED BY Zenon, <1>3 DEF T, Loop

\* Between calls, nonVolatileRead() returns the bytes last written.
LEMMA ReadIsView ==
  ASSUME IInv, NEW address \in Address, NEW length \in 0 .. NV_MEMORY_SIZE - address
  PROVE  nonVolatileRead(address, length) = [k \in 1 .. length |-> View[address + k - 1]]
<1>. DEFINE loop[n \in 0 .. length] ==
              IF n = 0 THEN [data |-> <<>>, nv_read_length |-> 0]
              ELSE ReadStep(address, loop[n - 1], n)
<1>1. address \in Nat /\ length \in Nat /\ address + length <= NV_MEMORY_SIZE
  BY SizesAssumption DEF Address
<1>2. nonVolatileRead(address, length) =
        loop[length].data \o sst25xRead(address + length - loop[length].nv_read_length,
                                        loop[length].nv_read_length)
  BY Zenon DEF nonVolatileRead, ReadStep
<1>3. loop = [n \in 0 .. length |->
                IF n = 0 THEN [data |-> <<>>, nv_read_length |-> 0]
                ELSE ReadStep(address, loop[n - 1], n)]
  BY Zenon, <1>1, ReadLoopExists
<1>. HIDE DEF loop
<1>4. ReadSoFar(address, loop[length], length)
  <2>. DEFINE T == {n \in Nat : n <= length => ReadSoFar(address, loop[n], n)}
  <2>1. 0 \in T
    <3>1. 0 \in 0 .. length
      BY <1>1
    <3>2. loop[0] = [data |-> <<>>, nv_read_length |-> 0]
      BY Zenon, <1>3, <3>1
    <3>3. [k \in 1 .. 0 - 0 |-> View[address + k - 1]] = <<>>
      OBVIOUS
    <3>4. 0 \in 0 .. 0 /\ \A j \in 0 - 0 + 1 .. 0 : FALSE
      OBVIOUS
    <3>5. ReadSoFar(address, loop[0], 0)
      BY Zenon, <3>2, <3>3, <3>4 DEF ReadSoFar
    <3>. QED BY Zenon, <3>5
  <2>2. ASSUME NEW n \in Nat, n \in T
        PROVE  n + 1 \in T
    <3>1. SUFFICES ASSUME n + 1 <= length PROVE ReadSoFar(address, loop[n + 1], n + 1)
      OBVIOUS
    <3>2. n + 1 \in 0 .. length /\ n + 1 # 0 /\ (n + 1) - 1 = n /\ n <= length
          /\ address + n + 1 <= NV_MEMORY_SIZE
      BY <1>1, <3>1, SizesAssumption
    <3>3. loop[n + 1] = ReadStep(address, loop[n], n + 1)
      BY Zenon, <1>3, <3>2
    <3>4. ReadSoFar(address, loop[n], n)
      BY Zenon, <2>2, <3>2
    <3>. QED BY Zenon, <1>1, <3>2, <3>3, <3>4, ReadStepGood
  <2>. HIDE DEF T
  <2>3. length \in T
    BY Zenon, <1>1, <2>1, <2>2, SetInduction
  <2>. QED BY <1>1, <2>3 DEF T
<1>5. PICK u \in 0 .. length :
        /\ loop[length] = [data |-> [k \in 1 .. length - u |-> View[address + k - 1]], nv_read_length |-> u]
        /\ \A j \in length - u + 1 .. length : ~Cached(address + j - 1)
  BY Zenon, <1>4 DEF ReadSoFar
<1>6. /\ loop[length].data = [k \in 1 .. length - u |-> View[address + k - 1]]
      /\ loop[length].nv_read_length = u
  BY <1>5
<1>7. [k \in 1 .. length - u |-> View[address + k - 1]] \o sst25xRead(address + length - u, u)
        = [k \in 1 .. length |-> View[address + k - 1]]
  BY Zenon, <1>1, <1>5, JoinedView
<1>. QED BY Zenon, <1>2, <1>6, <1>7

\* For every sector size, memory size and range, and whatever the cache holds:
\* nonVolatileRead() returns the bytes last written, in order and each once.
THEOREM ReadsReturnView == Spec => []ReadReturnsView
<1>1. Spec => []IInv
  BY InitIInv, NextIInv, PTL DEF Spec
<1>2. IInv => ReadReturnsView
  BY Zenon, ReadIsView DEF ReadReturnsView
<1>. QED BY <1>1, <1>2, PTL

-----------------------------------------------------------------------------
(* Prompts. *)

Answer == [button : {"accept", "cancel"}, released : BOOLEAN]

PromptTypeOK ==
    /\ phase \in {"idle", "release", "press", "done"}
    /\ command \in Command
    /\ list_index \in Nat
    /\ transaction_fee_set \in BOOLEAN
    /\ i \in Nat /\ counter \in Nat /\ quiet \in Nat
    /\ r \in BOOLEAN
    /\ answers \in Seq(Answer)

\* The prompts of the call in progress.
Total == Prompts(command, list_index, transaction_fee_set)

\* All answers so far accept, each after a release of the buttons.
AllAccepted ==
    \A k \in 1 .. Len(answers) : answers[k] = [button |-> "accept", released |-> TRUE]

\* While prompts are asked, those before were accepted.  The counter of
\* waitForNoButtonPress() falls as the time without a press grows, so that
\* waitForButtonPress() only starts after DEBOUNCE_COUNT samples without one.
PromptInv ==
    /\ PromptTypeOK
    /\ Len(answers) = i
    /\ phase = "idle" => i = 0 /\ quiet = 0
    /\ phase \in {"release", "press"} =>
          /\ AllAccepted
          /\ i < Total
          /\ counter \in 1 .. DEBOUNCE_COUNT
          /\ quiet <= DEBOUNCE_COUNT
    /\ phase = "release" => quiet >= DEBOUNCE_COUNT - counter
    /\ phase = "press" => quiet = DEBOUNCE_COUNT
    /\ phase = "done" /\ ~r =>
          /\ AllAccepted
          /\ command # "unknown"
          /\ i > 0 /\ i = Total

-----------------------------------------------------------------------------
LEMMA PromptsNat ==
    ASSUME NEW c \in Command, NEW listed \in Nat, NEW fee \in BOOLEAN
    PROVE  Prompts(c, listed, fee) \in Nat
BY DEF Prompts, Command

LEMMA PromptInitInvariant == PromptInit => PromptInv
<1>. SUFFICES ASSUME PromptInit PROVE PromptInv
  OBVIOUS
<1>1. answers = <<>> /\ Len(answers) = 0 /\ answers \in Seq(Answer)
  BY DEF PromptInit
<1>2. PromptTypeOK
  BY Zenon, <1>1 DEF PromptInit, PromptTypeOK, Command
<1>. QED BY <1>1, <1>2 DEF PromptInit, PromptInv

\* userDenied() starts with an empty list of answers.
LEMMA CallInvariant ==
    ASSUME PromptInv,
           NEW c \in Command, NEW listed \in 0 .. MaxOutputs, NEW fee \in BOOLEAN,
           userDenied(c, listed, fee)
    PROVE  PromptInv'
<1>1. listed \in Nat /\ Total' = Prompts(c, listed, fee) /\ Total' \in Nat
  BY PromptsNat, PromptAssumption DEF userDenied, Total
<1>2. Len(answers) = 0 /\ i = 0 /\ quiet = 0
  BY DEF userDenied, PromptInv
<1>3. AllAccepted'
  BY <1>2 DEF userDenied, AllAccepted
<1>4. PromptTypeOK'
  BY <1>1, PromptAssumption DEF userDenied, PromptInv, PromptTypeOK
<1>5. /\ Len(answers') = 0 /\ i' = 0 /\ quiet' = 0 /\ r'
      /\ \/ Total' = 0 /\ phase' = "done"
         \/ Total' # 0 /\ phase' = "release" /\ counter' = DEBOUNCE_COUNT
  BY <1>1, <1>2 DEF userDenied
<1>. QED
  BY <1>1, <1>3, <1>4, <1>5, PromptAssumption DEF PromptInv

\* A sample of waitForNoButtonPress() either starts the time over or counts.
LEMMA ReleaseInvariant ==
    ASSUME PromptInv, NEW accept \in BOOLEAN, NEW cancel \in BOOLEAN,
           waitForNoButtonPress(accept, cancel)
    PROVE  PromptInv'
<1>1. PromptTypeOK'
  BY PromptAssumption DEF waitForNoButtonPress, PromptInv, PromptTypeOK
<1>2. AllAccepted'
  BY Zenon DEF waitForNoButtonPress, PromptInv, AllAccepted
<1>3. /\ Total' = Total /\ phase = "release" /\ UNCHANGED <<i, r, answers>>
      /\ \/ phase' = "release" /\ counter' = DEBOUNCE_COUNT /\ quiet' = 0
         \/ /\ phase' = "release" /\ counter' = counter - 1 /\ counter # 1
            /\ quiet' = IF quiet < DEBOUNCE_COUNT THEN quiet + 1 ELSE quiet
         \/ /\ phase' = "press" /\ counter = 1 /\ counter' = DEBOUNCE_COUNT
            /\ quiet' = IF quiet < DEBOUNCE_COUNT THEN quiet + 1 ELSE quiet
  BY DEF waitForNoButtonPress, Total
<1>4. counter \in Nat /\ quiet \in Nat /\ DEBOUNCE_COUNT \in Nat \ {0}
  BY PromptAssumption DEF PromptInv, PromptTypeOK
<1>5. /\ counter' \in 1 .. DEBOUNCE_COUNT /\ quiet' <= DEBOUNCE_COUNT
      /\ phase' = "release" => quiet' >= DEBOUNCE_COUNT - counter'
      /\ phase' = "press" => quiet' = DEBOUNCE_COUNT
  BY <1>3, <1>4 DEF PromptInv
<1>. QED
  BY <1>1, <1>2, <1>3, <1>5 DEF PromptInv

\* A press that is long enough adds an answer; it came after a release.
LEMMA PressInvariant ==
    ASSUME PromptInv, NEW accept \in BOOLEAN, NEW cancel \in BOOLEAN,
           waitForButtonPress(accept, cancel)
    PROVE  PromptInv'
<1>. DEFINE answer == [button |-> IF cancel THEN "cancel" ELSE "accept",
                       released |-> quiet = DEBOUNCE_COUNT]
<1>1. Total \in Nat /\ Total' = Total
  BY PromptsNat DEF waitForButtonPress, PromptInv, PromptTypeOK, Total
<1>2. CASE (~accept /\ ~cancel) \/ counter > 1
  <2>1. /\ counter' \in 1 .. DEBOUNCE_COUNT
        /\ phase = "press"
        /\ UNCHANGED <<phase, i, r, answers, quiet, command, list_index, transaction_fee_set>>
    BY <1>2, PromptAssumption DEF waitForButtonPress, PromptInv, PromptTypeOK
  <2>2. PromptTypeOK'
    BY <2>1 DEF PromptInv, PromptTypeOK
  <2>3. AllAccepted'
    BY Zenon, <2>1 DEF PromptInv, AllAccepted
  <2>. QED
    BY <1>1, <2>1, <2>2, <2>3 DEF PromptInv
<1>3. CASE (accept \/ cancel) /\ ~(counter > 1)
  <2>1. /\ r' = (cancel \/ command = "unknown")
        /\ answers' = Append(answers, answer)
        /\ i' = i + 1 /\ quiet' = 0
        /\ UNCHANGED <<command, list_index, transaction_fee_set>>
        /\ IF ~cancel /\ i + 1 < Total
           THEN phase' = "release" /\ counter' = DEBOUNCE_COUNT
           ELSE phase' = "done" /\ counter' = 0
    BY <1>3 DEF waitForButtonPress, AskNext, NextPrompt, Total
  <2>2. answer \in Answer
    BY DEF Answer
  <2>3. /\ answers' \in Seq(Answer) /\ Len(answers') = i + 1
        /\ \A k \in 1 .. i : answers'[k] = answers[k]
        /\ answers'[i + 1] = answer
    BY <2>1, <2>2 DEF PromptInv, PromptTypeOK
  <2>4. PromptTypeOK'
    BY <2>1, <2>3, PromptAssumption DEF PromptInv, PromptTypeOK
  <2>5. phase = "press" /\ quiet = DEBOUNCE_COUNT /\ AllAccepted /\ i < Total
    BY DEF waitForButtonPress, PromptInv
  <2>6. ~cancel => AllAccepted'
    <3>1. SUFFICES ASSUME ~cancel, NEW k \in 1 .. i + 1
                   PROVE  answers'[k] = [button |-> "accept", released |-> TRUE]
      BY <2>3 DEF AllAccepted
    <3>2. CASE k \in 1 .. i
      BY <3>2, <2>3, <2>5 DEF AllAccepted, PromptInv
    <3>3. CASE k = i + 1
      BY Zenon, <3>1, <3>3, <2>3, <2>5
    <3>. QED BY <3>2, <3>3 DEF PromptInv, PromptTypeOK
  <2>7. command = "unknown" => Total = 1
    BY DEF Prompts, Total
  <2>8. CASE ~cancel /\ i + 1 < Total
    BY <1>1, <2>1, <2>3, <2>4, <2>5, <2>6, <2>8, PromptAssumption DEF PromptInv, PromptTypeOK
  <2>9. CASE ~(~cancel /\ i + 1 < Total)
    <3>1. ~r' => ~cancel /\ command # "unknown" /\ i + 1 = Total
      <4>1. ~r' => ~cancel /\ command # "unknown"
        BY Zenon, <2>1
      <4>2. i + 1 >= Total \/ cancel
        BY <2>9, <1>1 DEF PromptInv, PromptTypeOK
      <4>. QED BY <1>1, <2>5, <4>1, <4>2 DEF PromptInv, PromptTypeOK
    <3>2. phase' = "done" /\ i' = i + 1 /\ command' = command /\ i \in Nat
      BY <2>1, <2>9 DEF PromptInv, PromptTypeOK
    <3>. QED
      BY <1>1, <2>3, <2>4, <2>6, <3>1, <3>2 DEF PromptInv
  <2>. QED BY <2>8, <2>9
<1>. QED BY <1>2, <1>3

LEMMA PromptNextInvariant == PromptInv /\ [PromptNext]_promptVars => PromptInv'
<1>. SUFFICES ASSUME PromptInv, [PromptNext]_promptVars PROVE PromptInv'
  OBVIOUS
<1>1. ASSUME NEW c \in Command, NEW listed \in 0 .. MaxOutputs, NEW fee \in BOOLEAN,
             userDenied(c, listed, fee)
      PROVE  PromptInv'
  BY <1>1, CallInvariant
<1>2. ASSUME NEW accept \in BOOLEAN, NEW cancel \in BOOLEAN,
             waitForNoButtonPress(accept, cancel)
      PROVE  PromptInv'
  BY <1>2, ReleaseInvariant
<1>3. ASSUME NEW accept \in BOOLEAN, NEW cancel \in BOOLEAN,
             waitForButtonPress(accept, cancel)
      PROVE  PromptInv'
  BY <1>3, PressInvariant
<1>4. CASE ReturnAnswer
  <2>1. answers' = <<>> /\ Len(answers') = 0 /\ answers' \in Seq(Answer)
    BY <1>4 DEF ReturnAnswer
  <2>2. PromptTypeOK'
    BY Zenon, <1>4, <2>1 DEF ReturnAnswer, PromptInv, PromptTypeOK, Command
  <2>. QED BY <1>4, <2>1, <2>2 DEF ReturnAnswer, PromptInv
<1>5. CASE UNCHANGED promptVars
  <2>1. PromptTypeOK'
    BY <1>5 DEF promptVars, PromptInv, PromptTypeOK
  <2>2. AllAccepted => AllAccepted'
    BY <1>5 DEF promptVars, AllAccepted
  <2>3. Total' = Total
    BY <1>5 DEF promptVars, Total
  <2>. QED
    BY <1>5, <2>1, <2>2, <2>3 DEF promptVars, PromptInv
<1>. QED BY <1>1, <1>2, <1>3, <1>4, <1>5 DEF PromptNext

\* What the invariant says of an acceptance.
LEMMA InvariantAccepts == PromptInv => AcceptedMeansAll
<1>. SUFFICES ASSUME PromptInv, phase = "done", ~r
              PROVE  /\ command # "unknown"
                     /\ command = "sign" => list_index > 0
                     /\ Len(answers) = CASE command = "sign" ->
                                              list_index + (IF transaction_fee_set THEN 1 ELSE 0)
                                         [] command = "format" -> 3
                                         [] OTHER -> 1
                     /\ \A k \in DOMAIN answers :
                           answers[k] = [button |-> "accept", released |-> TRUE]
  BY DEF AcceptedMeansAll
<1>1. /\ AllAccepted /\ command # "unknown" /\ Len(answers) > 0
      /\ Len(answers) = Total
  BY DEF PromptInv
<1>2. DOMAIN answers = 1 .. Len(answers)
  BY DEF PromptInv, PromptTypeOK
<1>. QED
  BY <1>1, <1>2 DEF AllAccepted, Total, Prompts, PromptInv, PromptTypeOK, Command

\* userDenied() returns FALSE only when each prompt was accepted, by a press that
\* began after both buttons had been released for the debounce time.
THEOREM AcceptanceIsComplete == PromptSpec => []AcceptedMeansAll
<1>1. PromptInit => PromptInv
  BY PromptInitInvariant
<1>2. PromptInv /\ [PromptNext]_promptVars => PromptInv'
  BY PromptNextInvariant
<1>3. PromptInv => AcceptedMeansAll
  BY InvariantAccepts
<1>. QED BY <1>1, <1>2, <1>3, PTL DEF PromptSpec

-----------------------------------------------------------------------------
(* The entropy pool. *)

PoolWriting == {"pool", "sum", "flush"}

Contents == [pool : Int, sum : Int]

PoolTypeOK ==
    /\ stage \in {"idle", "gather", "sanitise", "output"} \cup PoolWriting
    /\ total_entropy \in Nat
    /\ new \in Nat
    /\ view \in Contents /\ durable \in Contents
    /\ pools \in Nat
    /\ outputs \subseteq Nat /\ temporary \subseteq Nat
    /\ repeated \in BOOLEAN

\* A pool in memory is garbage, or newer than all that produced an output and older
\* than the pools still to be brought in.
Usable(p) ==
    p # Garbage =>
        /\ p \in Nat
        /\ p < InitialPool(pools)
        /\ \A o \in outputs : o < p

\* What the sanitiser has drawn is newer than every output and older than the pool
\* that it holds.
Drawn ==
    /\ temporary # {} => stage \in PoolWriting \cup {"sanitise"} /\ total_entropy = 0
    /\ \A d \in temporary : d < new /\ \A o \in outputs : o < d

\* No pool that produced an output is left anywhere in memory, and none will be
\* written.  Before a number is returned, the pool that follows its own is durable.
PoolInv ==
    /\ PoolTypeOK /\ Drawn
    /\ stage \in {"idle", "sanitise"} => total_entropy = 0
    /\ stage \in PoolWriting => total_entropy = 0 \/ total_entropy >= Needed
    /\ \A o \in outputs : o < InitialPool(pools)
    /\ Usable(view.pool) /\ Usable(durable.pool)
    /\ stage \in PoolWriting \cup {"sanitise"} => new # Garbage /\ Usable(new)
    /\ stage \in PoolWriting \cup {"output"} /\ total_entropy >= Needed =>
          new > 0 /\ \A o \in outputs : o < new - 1
    /\ stage \in {"sum", "flush"} => view.pool = new
    /\ stage = "output" =>
          /\ total_entropy >= Needed
          /\ view.pool = new /\ durable.pool = new /\ new < InitialPool(pools)
    /\ stage = "output" => view = durable
    /\ ~repeated

-----------------------------------------------------------------------------
\* A multiple of the distance between initial pools leaves no remainder.
LEMMA InitialPools ==
    ASSUME NEW k \in Nat
    PROVE  /\ InitialPool(k) \in Nat
           /\ InitialPool(k) % (MaxPool + 1) = 0
           /\ InitialPool(k + 1) = InitialPool(k) + MaxPool + 1
<1>. DEFINE m == MaxPool + 1
<1>1. m \in Nat \ {0}
  BY EntropyAssumption
<1>. HIDE DEF m
<1>2. k * m \in Nat /\ (k + 1) * m = k * m + m
  BY <1>1
<1>3. PICK x \in Nat : x = k * m
  BY <1>2
<1>4. x % m \in 0 .. m - 1 /\ x = m * (x \div m) + (x % m) /\ x \div m \in Int
  BY <1>1, <1>3
<1>. DEFINE d == x \div m
            e == x % m
<1>5. m * (k - d) = e /\ d \in Int /\ e \in 0 .. m - 1
  BY <1>1, <1>3, <1>4
<1>. HIDE DEF d, e
<1>6. k - d >= 1 => m * (k - d) >= m
  BY <1>1, <1>5
<1>7. k - d <= -1 => m * (k - d) <= -m
  BY <1>1, <1>5
<1>8. e = 0
  BY <1>1, <1>5, <1>6, <1>7
<1>9. InitialPool(k) = x /\ InitialPool(k + 1) = x + m
  BY <1>2, <1>3 DEF InitialPool, m
<1>10. x % m = 0
  BY <1>8 DEF e
<1>. QED BY <1>9, <1>10, <1>1, EntropyAssumption DEF m

\* The next state of a pool belongs to the same initial pool.
LEMMA NextPool ==
    ASSUME NEW k \in Nat, NEW p \in Nat,
           p < InitialPool(k), (p + 1) % (MaxPool + 1) # 0
    PROVE  p + 1 < InitialPool(k)
<1>1. InitialPool(k) \in Nat /\ p + 1 # InitialPool(k)
  BY InitialPools
<1>. QED BY <1>1

LEMMA PoolInitInvariant == PoolInit => PoolInv
<1>. SUFFICES ASSUME PoolInit PROVE PoolInv
  OBVIOUS
<1>1. view \in Contents /\ view.pool = Garbage /\ durable = view /\ outputs = {}
      /\ temporary = {}
  BY DEF PoolInit, Blank, Contents, Garbage
<1>2. PoolTypeOK
  BY Zenon, <1>1 DEF PoolInit, PoolTypeOK
<1>3. Usable(view.pool) /\ Usable(durable.pool)
  BY <1>1 DEF Usable
<1>. QED BY <1>1, <1>2, <1>3 DEF PoolInit, PoolInv, Drawn, PoolWriting

-----------------------------------------------------------------------------
\* A new pool is newer than everything before it.
LEMMA InitialiseInvariant ==
    ASSUME PoolInv, initialiseEntropyPool PROVE PoolInv'
<1>0. pools \in Nat /\ MaxPool \in Nat
  BY EntropyAssumption DEF PoolInv, PoolTypeOK
<1>1. /\ InitialPool(pools) \in Nat /\ InitialPool(pools + 1) \in Nat
      /\ InitialPool(pools) < InitialPool(pools + 1)
      /\ pools \in Nat
  <2>1. /\ InitialPool(pools) \in Nat
        /\ InitialPool(pools + 1) = InitialPool(pools) + MaxPool + 1
    BY <1>0, InitialPools
  <2>. QED BY <1>0, <2>1
<1>2. /\ stage = "idle" /\ new' = InitialPool(pools) /\ pools' = pools + 1 /\ stage' = "pool"
      /\ UNCHANGED <<total_entropy, temporary, view, durable, outputs, repeated>>
  BY DEF initialiseEntropyPool
<1>3. PoolTypeOK'
  BY <1>1, <1>2 DEF PoolInv, PoolTypeOK, PoolWriting
<1>4. \A p : Usable(p) => Usable(p)'
  BY <1>1, <1>2 DEF Usable
<1>5. outputs \subseteq Nat /\ \A o \in outputs : o < InitialPool(pools)
  BY DEF PoolInv, PoolTypeOK
<1>6. new' # Garbage /\ Usable(new)'
  BY <1>1, <1>2, <1>5 DEF Usable, Garbage
<1>7. \A o \in outputs' : o < InitialPool(pools')
  BY <1>1, <1>2, <1>5
<1>8. total_entropy' = 0 /\ ~(total_entropy' >= Needed)
  BY <1>2, EntropyAssumption DEF PoolInv
<1>9. Usable(view.pool)' /\ Usable(durable.pool)'
  BY <1>2, <1>4 DEF PoolInv
<1>10. Drawn'
  BY <1>2 DEF PoolInv, Drawn, PoolWriting
<1>. QED
  BY <1>2, <1>3, <1>6, <1>7, <1>8, <1>9, <1>10 DEF PoolInv, PoolWriting

\* The pool that is read is newer than all that produced an output.
LEMMA ReadInvariant ==
    ASSUME PoolInv, ReadPool PROVE PoolInv'
<1>1. /\ view.pool # Garbage /\ (view.pool + 1) % (MaxPool + 1) # 0
      /\ stage = "gather" /\ new' = view.pool + 1 /\ stage' = "pool" /\ total_entropy >= Needed
      /\ UNCHANGED <<total_entropy, temporary, view, durable, pools, outputs, repeated>>
  BY DEF ReadPool, Valid
<1>2. /\ view.pool \in Nat /\ view.pool < InitialPool(pools)
      /\ \A o \in outputs : o < view.pool
      /\ outputs \subseteq Nat /\ pools \in Nat
  BY <1>1 DEF PoolInv, Usable, PoolTypeOK
<1>3. view.pool + 1 < InitialPool(pools)
  BY <1>1, <1>2, NextPool
<1>4. /\ new' \in Nat /\ new' > 0 /\ new' # Garbage /\ new' < InitialPool(pools')
      /\ \A o \in outputs' : o < new' - 1 /\ o < new'
  BY <1>1, <1>2, <1>3 DEF Garbage
<1>5. PoolTypeOK'
  BY <1>1, <1>4 DEF PoolInv, PoolTypeOK, PoolWriting
<1>6. Usable(new)' /\ Usable(view.pool)' /\ Usable(durable.pool)'
  BY <1>1, <1>4 DEF PoolInv, Usable
<1>7. Drawn'
  BY <1>1 DEF PoolInv, Drawn, PoolWriting
<1>. QED
  BY <1>1, <1>4, <1>5, <1>6, <1>7 DEF PoolInv, PoolWriting

\* Both parts of the write put the new pool where the old one was.
LEMMA WriteInvariant ==
    ASSUME PoolInv, WritePool \/ WriteChecksum PROVE PoolInv'
<1>1. /\ stage \in {"pool", "sum"} /\ stage' \in {"sum", "flush"}
      /\ view'.pool = new /\ view' \in Contents
      /\ UNCHANGED <<total_entropy, new, temporary, durable, pools, outputs, repeated>>
  BY DEF WritePool, WriteChecksum, PoolInv, PoolTypeOK, Contents
<1>2. PoolTypeOK'
  BY <1>1 DEF PoolInv, PoolTypeOK, PoolWriting
<1>3. new # Garbage /\ Usable(new)
  BY <1>1 DEF PoolInv, PoolWriting
<1>4. Usable(view.pool)' /\ Usable(durable.pool)' /\ Usable(new)'
  BY <1>1, <1>3 DEF PoolInv, Usable
<1>5. Drawn'
  BY <1>1 DEF PoolInv, Drawn, PoolWriting
<1>. QED
  BY <1>1, <1>2, <1>3, <1>4, <1>5 DEF PoolInv, PoolWriting

\* Wherever power fails, what is found is old, new or garbage.
LEMMA WorkInvariant ==
    ASSUME PoolInv, Work PROVE PoolInv'
<1>1. /\ durable' \in Contents
      /\ durable'.pool \in {durable.pool, view.pool, Garbage}
      /\ view # durable
      /\ UNCHANGED <<stage, total_entropy, new, temporary, view, pools, outputs, repeated>>
  BY DEF Work, PoolInv, PoolTypeOK, Contents, Garbage
<1>2. PoolTypeOK'
  BY <1>1 DEF PoolInv, PoolTypeOK
<1>3. Usable(view.pool)' /\ Usable(durable.pool)'
  BY <1>1 DEF PoolInv, Usable
<1>4. stage' \in PoolWriting \cup {"sanitise"} => new' # Garbage /\ Usable(new)'
  BY <1>1 DEF PoolInv, Usable
<1>5. /\ stage # "output"
      /\ stage' \in PoolWriting \cup {"output"} /\ total_entropy' >= Needed =>
            new' > 0 /\ \A o \in outputs' : o < new' - 1
  BY <1>1 DEF PoolInv
<1>6. \A o \in outputs' : o < InitialPool(pools')
  BY <1>1 DEF PoolInv
<1>7. Drawn'
  BY <1>1 DEF PoolInv, Drawn
<1>. QED
  BY <1>1, <1>2, <1>3, <1>4, <1>5, <1>6, <1>7 DEF PoolInv

\* The pool that is now durable is newer than what the sanitiser drew.
LEMMA FlushInvariant ==
    ASSUME PoolInv, Flush PROVE PoolInv'
<1>1. /\ stage = "flush" /\ durable' = view
      /\ stage' = IF total_entropy >= Needed THEN "output" ELSE "idle"
      /\ new' = IF total_entropy >= Needed THEN new ELSE 0
      /\ repeated' = (repeated \/ temporary \cap outputs # {})
      /\ outputs' = outputs \cup temporary /\ temporary' = {}
      /\ UNCHANGED <<total_entropy, view, pools>>
  BY DEF Flush, Flushed
<1>2. /\ new \in Nat /\ new # Garbage /\ Usable(new) /\ view.pool = new
      /\ outputs \subseteq Nat /\ temporary \subseteq Nat /\ pools \in Nat
  BY <1>1 DEF PoolInv, PoolTypeOK, PoolWriting
<1>3. /\ \A d \in temporary : d < new /\ \A o \in outputs : o < d
      /\ temporary # {} => total_entropy = 0
  BY DEF PoolInv, Drawn
<1>4. /\ new < InitialPool(pools) /\ InitialPool(pools) \in Nat
      /\ \A o \in outputs : o < new
  BY <1>2, InitialPools DEF Usable
<1>5. \A o \in outputs' : o < new /\ o < InitialPool(pools')
  BY <1>1, <1>2, <1>3, <1>4
<1>6. ~repeated'
  <2>1. temporary \cap outputs = {}
    BY <1>2, <1>3
  <2>2. ~repeated
    BY DEF PoolInv
  <2>. QED BY Zenon, <1>1, <2>1, <2>2
<1>7. PoolTypeOK'
  BY <1>1, <1>2, <1>6 DEF PoolInv, PoolTypeOK
<1>8. Usable(view.pool)' /\ Usable(durable.pool)'
  BY <1>1, <1>2, <1>4, <1>5 DEF Usable
<1>9. total_entropy = 0 \/ total_entropy >= Needed
  BY <1>1 DEF PoolInv, PoolWriting
<1>10. total_entropy >= Needed => outputs' = outputs
  BY <1>1, <1>3, EntropyAssumption
<1>11. Drawn'
  BY <1>1 DEF Drawn
<1>12. total_entropy >= Needed => new > 0 /\ \A o \in outputs : o < new - 1
  BY <1>1 DEF PoolInv, PoolWriting
<1>. QED
  BY SMTT(20), <1>1, <1>2, <1>4, <1>5, <1>6, <1>7, <1>8, <1>9, <1>10, <1>11, <1>12 DEF PoolInv, PoolWriting

\* The output was made from the pool before the one that is now durable.
LEMMA OutputInvariant ==
    ASSUME PoolInv, Output PROVE PoolInv'
<1>1. /\ stage = "output" /\ repeated' = (repeated \/ (new - 1) \in outputs)
      /\ outputs' = outputs \cup {new - 1}
      /\ stage' = "idle" /\ total_entropy' = 0 /\ new' = 0
      /\ UNCHANGED <<temporary, view, durable, pools>>
  BY DEF Output
<1>2. /\ new \in Nat /\ new > 0 /\ new < InitialPool(pools)
      /\ view.pool = new /\ durable.pool = new
      /\ outputs \subseteq Nat /\ pools \in Nat
      /\ \A o \in outputs : o < new - 1
  BY <1>1 DEF PoolInv, PoolTypeOK
<1>3. InitialPool(pools) \in Nat
  BY <1>2, InitialPools
<1>4. ~repeated'
  <2>1. new - 1 \notin outputs
    BY <1>2
  <2>2. ~repeated
    BY DEF PoolInv
  <2>. QED BY Zenon, <1>1, <2>1, <2>2
<1>5. outputs' \subseteq Nat /\ \A o \in outputs' : o < new /\ o < InitialPool(pools')
  BY <1>1, <1>2, <1>3
<1>6. PoolTypeOK'
  BY <1>1, <1>4, <1>5 DEF PoolInv, PoolTypeOK
<1>7. Usable(view.pool)' /\ Usable(durable.pool)'
  BY <1>1, <1>2, <1>5 DEF Usable
<1>8. Drawn'
  BY <1>1 DEF PoolInv, Drawn, PoolWriting
<1>. QED
  BY <1>1, <1>4, <1>5, <1>6, <1>7, <1>8 DEF PoolInv, PoolWriting

\* A call that ends early leaves the pools as they are, or as power-up finds them.
LEMMA EarlyEndInvariant ==
    ASSUME PoolInv, Fail \/ PoolPowerLoss PROVE PoolInv'
<1>1. /\ stage' = "idle" /\ total_entropy' = 0 /\ new' = 0 /\ temporary' = {}
      /\ view' \in {view, durable}
      /\ UNCHANGED <<durable, pools, outputs, repeated>>
  BY DEF Fail, PoolPowerLoss
<1>2. PoolTypeOK'
  BY <1>1 DEF PoolInv, PoolTypeOK
<1>3. Usable(view.pool)' /\ Usable(durable.pool)'
  BY <1>1 DEF PoolInv, Usable
<1>4. \A o \in outputs' : o < InitialPool(pools')
  BY <1>1 DEF PoolInv
<1>5. Drawn'
  BY <1>1 DEF Drawn
<1>. QED
  BY <1>1, <1>2, <1>3, <1>4, <1>5 DEF PoolInv, PoolWriting

\* Gathering entropy changes nothing that is stored.
LEMMA GatherInvariant ==
    ASSUME PoolInv, getRandom256 \/ \E entropy \in Reports : Gather(entropy)
    PROVE  PoolInv'
<1>1. /\ stage \in {"idle", "gather"} /\ stage' = "gather" /\ total_entropy' \in Nat
      /\ UNCHANGED <<new, temporary, view, durable, pools, outputs, repeated>>
  BY EntropyAssumption DEF getRandom256, Gather, PoolInv, PoolTypeOK
<1>2. PoolTypeOK'
  BY <1>1 DEF PoolInv, PoolTypeOK
<1>3. Usable(view.pool)' /\ Usable(durable.pool)'
  BY <1>1 DEF PoolInv, Usable
<1>4. \A o \in outputs' : o < InitialPool(pools')
  BY <1>1 DEF PoolInv
<1>5. Drawn'
  BY <1>1 DEF PoolInv, Drawn, PoolWriting
<1>. QED
  BY <1>1, <1>2, <1>3, <1>4, <1>5 DEF PoolInv, PoolWriting

\* The sanitiser starts from the pool in memory, and leaves that or nothing.
LEMMA SanitiseInvariant ==
    ASSUME PoolInv, Sanitise \/ Overwrite \/ WriteBack PROVE PoolInv'
<1>1. /\ stage \in {"idle", "sanitise"} /\ stage' \in {"sanitise", "pool"} /\ total_entropy = 0
      /\ view' \in {view, Blank}
      /\ new' # Garbage /\ Usable(new')
      /\ new' # new => stage = "idle"
      /\ UNCHANGED <<total_entropy, temporary, durable, pools, outputs, repeated>>
  <2>1. CASE Sanitise
    BY <2>1 DEF Sanitise, Valid, PoolInv
  <2>2. CASE Overwrite \/ WriteBack
    BY <2>2 DEF Overwrite, WriteBack, PoolInv
  <2>. QED BY <2>1, <2>2
<1>2. Blank \in Contents /\ Blank.pool = Garbage
  BY DEF Blank, Contents, Garbage
<1>3. new' \in Nat
  BY <1>1 DEF Usable
<1>4. PoolTypeOK'
  BY <1>1, <1>2, <1>3 DEF PoolInv, PoolTypeOK, PoolWriting
<1>5. Usable(new)' /\ Usable(view.pool)' /\ Usable(durable.pool)'
  BY <1>1, <1>2 DEF PoolInv, Usable
<1>6. Drawn'
  BY <1>1 DEF PoolInv, Drawn, PoolWriting
<1>7. ~(total_entropy' >= Needed)
  BY <1>1, EntropyAssumption
<1>. QED
  BY <1>1, <1>4, <1>5, <1>6, <1>7 DEF PoolInv, PoolWriting

\* Each draw moves the pool in RAM past what was drawn.
LEMMA DrawInvariant ==
    ASSUME PoolInv, OverwriteRandomly PROVE PoolInv'
<1>1. /\ stage = "sanitise" /\ stage' = stage /\ (new + 1) % (MaxPool + 1) # 0
      /\ temporary' = temporary \cup {new} /\ new' = new + 1
      /\ view' \in {view, Blank}
      /\ UNCHANGED <<total_entropy, durable, pools, outputs, repeated>>
  BY DEF OverwriteRandomly
<1>2. /\ new \in Nat /\ new < InitialPool(pools) /\ total_entropy = 0
      /\ \A o \in outputs : o < new
      /\ outputs \subseteq Nat /\ temporary \subseteq Nat /\ pools \in Nat
  BY <1>1 DEF PoolInv, PoolTypeOK, Usable
<1>3. new + 1 < InitialPool(pools)
  BY <1>1, <1>2, NextPool
<1>4. new' \in Nat /\ new' # Garbage /\ new' < InitialPool(pools') /\ \A o \in outputs' : o < new'
  BY <1>1, <1>2, <1>3 DEF Garbage
<1>5. Blank \in Contents /\ Blank.pool = Garbage
  BY DEF Blank, Contents, Garbage
<1>6. PoolTypeOK'
  BY <1>1, <1>2, <1>4, <1>5 DEF PoolInv, PoolTypeOK
<1>7. Usable(new)' /\ Usable(view.pool)' /\ Usable(durable.pool)'
  BY <1>1, <1>4, <1>5 DEF PoolInv, Usable
<1>8. \A d \in temporary : d < new /\ \A o \in outputs : o < d
  BY DEF PoolInv, Drawn
<1>9. Drawn'
  BY <1>1, <1>2, <1>8 DEF Drawn
<1>. QED
  BY <1>1, <1>2, <1>4, <1>6, <1>7, <1>9 DEF PoolInv, PoolWriting

LEMMA PoolNextInvariant == PoolInv /\ [PoolNext]_poolVars => PoolInv'
<1>. SUFFICES ASSUME PoolInv, [PoolNext]_poolVars PROVE PoolInv'
  OBVIOUS
<1>1. CASE initialiseEntropyPool
  BY <1>1, InitialiseInvariant
<1>2. CASE getRandom256 \/ \E entropy \in Reports : Gather(entropy)
  BY <1>2, GatherInvariant
<1>3. CASE ReadPool
  BY <1>3, ReadInvariant
<1>4. CASE WritePool \/ WriteChecksum
  BY <1>4, WriteInvariant
<1>5. CASE Work
  BY <1>5, WorkInvariant
<1>6. CASE Flush
  BY <1>6, FlushInvariant
<1>7. CASE Output
  BY <1>7, OutputInvariant
<1>8. CASE Fail \/ PoolPowerLoss
  BY <1>8, EarlyEndInvariant
<1>9. CASE Sanitise \/ Overwrite \/ WriteBack
  BY SMTT(20), <1>9, SanitiseInvariant
<1>10. CASE OverwriteRandomly
  BY <1>10, DrawInvariant
<1>11. CASE UNCHANGED poolVars
  BY <1>11 DEF poolVars, PoolInv, PoolTypeOK, Usable, Drawn
<1>. QED
  BY <1>1, <1>2, <1>3, <1>4, <1>5, <1>6, <1>7, <1>8, <1>9, <1>10, <1>11 DEF PoolNext

\* No random number is returned twice, wherever power or an operation of memory fails.
THEOREM OutputsAreFresh == PoolSpec => []NoOutputTwice
<1>1. PoolInit => PoolInv
  BY PoolInitInvariant
<1>2. PoolInv /\ [PoolNext]_poolVars => PoolInv'
  BY PoolNextInvariant
<1>3. PoolInv => NoOutputTwice
  BY DEF PoolInv, NoOutputTwice
<1>. QED BY <1>1, <1>2, <1>3, PTL DEF PoolSpec
=============================================================================
