---------------------------- MODULE EntropyPool ----------------------------
(***************************************************************************)
(* The persistent entropy pool of prandom.c, over non-volatile memory that *)
(* may fail and lose power, and the copy in RAM that the sanitiser of      *)
(* wallet.c draws from while it overwrites that memory.  The hardware      *)
(* generator is at its worst: it always returns the same bytes, so that    *)
(* the pool alone tells two outputs apart.  Pool states are numbers; a     *)
(* hash of pool k is pool k + 1 or output k.                               *)
(***************************************************************************)
EXTENDS Integers

CONSTANTS
    MaxPool,        \* bound on pool states
    Needed,         \* entropy asked for: 256 * ENTROPY_SAFETY_FACTOR
    Reports,        \* amounts of entropy the hardware generator reports, 0 included
    NumPools        \* pools that initialiseEntropyPool() brings in

VARIABLES
    stage,          \* where getRandom256(), initialiseEntropyPool() or the sanitiser is
    total_entropy,  \* entropy gathered in this call
    new,            \* the pool to be written; pool_state of the sanitiser
    temporary,      \* outputs drawn from the pool in RAM, not yet written back
    view,           \* memory as it is read: the pool and its checksum
    durable,        \* memory as power-up would find it
    pools,          \* pools used so far for initialisation
    outputs,        \* history: outputs of getRandom256(), and those written back
    repeated        \* history: an output was returned again

poolVars == <<stage, total_entropy, new, temporary, view, durable, pools, outputs, repeated>>

ASSUME EntropyAssumption ==
    /\ MaxPool \in Nat /\ Needed \in Nat \ {0} /\ NumPools \in Nat
    /\ Reports \subseteq Nat

(* Contents that no checksum matches. *)
Garbage == -1

(* The pool that initialisation k brings in: far from the others. *)
InitialPool(k) == k * (MaxPool + 1)

Blank == [pool |-> Garbage, sum |-> Garbage]

PoolInit ==
    /\ stage = "idle" /\ total_entropy = 0 /\ new = 0 /\ temporary = {}
    /\ view = Blank /\ durable = Blank
    /\ pools = 0 /\ outputs = {} /\ repeated = FALSE

(* A call returns an error: the generator fails, the memory fails, or the  *)
(* checksum does not match.  Nothing can fail after the flush.             *)
Fail ==
    /\ stage \in {"gather", "sanitise", "pool", "sum", "flush"}
    /\ stage' = "idle" /\ total_entropy' = 0 /\ new' = 0 /\ temporary' = {}
    /\ UNCHANGED <<view, durable, pools, outputs, repeated>>
-----------------------------------------------------------------------------
(* getEntropyPool(): the checksum must match. *)
Valid(c) == c.pool # Garbage /\ c.sum = c.pool

(* initialiseEntropyPool(): a valid pool is mixed with the new one, which  *)
(* gives a pool as new as that one; any other is replaced by it.  The      *)
(* caller is taken to bring a pool that it has not brought before.         *)
initialiseEntropyPool ==
    /\ stage = "idle" /\ pools < NumPools
    /\ new' = InitialPool(pools)
    /\ pools' = pools + 1
    /\ stage' = "pool"
    /\ UNCHANGED <<total_entropy, temporary, view, durable, outputs, repeated>>

getRandom256 ==
    /\ stage = "idle"
    /\ stage' = "gather" /\ total_entropy' = 0
    /\ UNCHANGED <<new, temporary, view, durable, pools, outputs, repeated>>

(* One round of the loop over hardwareRandom32Bytes(), which reports the   *)
(* entropy of 32 bytes, 0 while it needs more samples.  It may also fail.  *)
Gather(entropy) ==
    /\ stage = "gather" /\ total_entropy < Needed
    /\ total_entropy' =
         IF total_entropy + entropy > Needed THEN Needed ELSE total_entropy + entropy
    /\ UNCHANGED <<stage, new, temporary, view, durable, pools, outputs, repeated>>

(* The pool is read, checked and hashed. *)
ReadPool ==
    /\ stage = "gather" /\ total_entropy >= Needed
    /\ Valid(view) /\ (view.pool + 1) % (MaxPool + 1) # 0
    /\ new' = view.pool + 1
    /\ stage' = "pool"
    /\ UNCHANGED <<total_entropy, temporary, view, durable, pools, outputs, repeated>>
-----------------------------------------------------------------------------
(* sanitiseNonVolatileStorage(): the pool is read into RAM and checked. *)
Sanitise ==
    /\ stage = "idle" /\ Valid(view)
    /\ new' = view.pool
    /\ stage' = "sanitise"
    /\ UNCHANGED <<total_entropy, temporary, view, durable, pools, outputs, repeated>>

(* The first passes: the area, the pool in it, gets all zeros or all ones. *)
Overwrite ==
    /\ stage = "sanitise" /\ temporary = {}
    /\ view' = Blank
    /\ UNCHANGED <<stage, total_entropy, new, temporary, durable, pools, outputs, repeated>>

(* The last passes: a part of the area, with or without the pool, gets     *)
(* what getRandom256TemporaryPool() draws from the pool in RAM.            *)
OverwriteRandomly ==
    /\ stage = "sanitise" /\ (new + 1) % (MaxPool + 1) # 0
    /\ temporary' = temporary \cup {new}
    /\ new' = new + 1
    /\ view' \in {view, Blank}
    /\ UNCHANGED <<stage, total_entropy, durable, pools, outputs, repeated>>

(* The passes are over, or the generator has failed: setEntropyPool(). *)
WriteBack ==
    /\ stage = "sanitise"
    /\ stage' = "pool"
    /\ UNCHANGED <<total_entropy, new, temporary, view, durable, pools, outputs, repeated>>
-----------------------------------------------------------------------------
(* setEntropyPool(), one memory operation at a time.  Each may also fail.  *)
WritePool ==
    /\ stage = "pool"
    /\ view' = [view EXCEPT !.pool = new]
    /\ stage' = "sum"
    /\ UNCHANGED <<total_entropy, new, temporary, durable, pools, outputs, repeated>>

WriteChecksum ==
    /\ stage = "sum"
    /\ view' = [view EXCEPT !.sum = new]
    /\ stage' = "flush"
    /\ UNCHANGED <<total_entropy, new, temporary, durable, pools, outputs, repeated>>

(* The memory works on the sector that holds the pool and its checksum, in *)
(* a flush or to make room in the cache, perhaps long after a call failed: *)
(* if power fails now, each of them may be old, new or neither.            *)
Work ==
    /\ view # durable
    /\ durable' \in [pool : {durable.pool, view.pool, Garbage}, sum : {durable.sum, view.sum, Garbage}]
    /\ UNCHANGED <<stage, total_entropy, new, temporary, view, pools, outputs, repeated>>

(* Mutation: the write is left in the cache. *)
FlushNothing == durable

(* What a successful nonVolatileFlush() leaves on the device. *)
Flushed == view

(* The flush succeeds.  Only getRandom256() has entropy to show for it,    *)
(* and only the sanitiser outputs that await it.                           *)
Flush ==
    /\ stage = "flush"
    /\ durable' = Flushed
    /\ stage' = IF total_entropy >= Needed THEN "output" ELSE "idle"
    /\ new' = IF total_entropy >= Needed THEN new ELSE 0
    /\ repeated' = (repeated \/ temporary \cap outputs # {})
    /\ outputs' = outputs \cup temporary
    /\ temporary' = {}
    /\ UNCHANGED <<total_entropy, view, pools>>

(* The output is returned: it was made from the pool before the new one. *)
Output ==
    /\ stage = "output"
    /\ repeated' = (repeated \/ (new - 1) \in outputs)
    /\ outputs' = outputs \cup {new - 1}
    /\ stage' = "idle" /\ total_entropy' = 0 /\ new' = 0
    /\ UNCHANGED <<temporary, view, durable, pools>>

PoolPowerLoss ==
    /\ view # durable \/ stage # "idle"
    /\ view' = durable
    /\ stage' = "idle" /\ total_entropy' = 0 /\ new' = 0 /\ temporary' = {}
    /\ UNCHANGED <<durable, pools, outputs, repeated>>

PoolNext ==
    \/ initialiseEntropyPool
    \/ getRandom256
    \/ \E entropy \in Reports : Gather(entropy)
    \/ ReadPool
    \/ Sanitise
    \/ Overwrite
    \/ OverwriteRandomly
    \/ WriteBack
    \/ WritePool
    \/ WriteChecksum
    \/ Work
    \/ Flush
    \/ Output
    \/ Fail
    \/ PoolPowerLoss

PoolSpec == PoolInit /\ [][PoolNext]_poolVars
-----------------------------------------------------------------------------
(* No random number is returned twice, although the hardware generator     *)
(* repeats itself: a pool that has produced an output is never used again, *)
(* wherever power fails and whichever memory operation fails.  That holds  *)
(* of getRandom256(), and of what the sanitiser draws from its copy of the *)
(* pool once that copy is back in memory; what it drew before its work was *)
(* cut short does not count, since it was only filler.  "Save the          *)
(* pool state to non-volatile memory immediately as we don't want it to be *)
(* possible to reuse the pool state" (prandom.c:333).                      *)
NoOutputTwice == ~repeated
=============================================================================
