------------------------------ MODULE NvStore ------------------------------
(***************************************************************************)
(* The contract of hwinterface.h for non-volatile memory, as wallet.c and  *)
(* prandom.c rely on it.  "view" is what nonVolatileRead() returns and     *)
(* "durable" is what the next power-up will find.  Writes may be buffered, *)
(* so the two differ until nonVolatileFlush() returns NV_NO_ERROR.         *)
(***************************************************************************)
EXTENDS Integers

CONSTANTS
    Address,    \* locations of non-volatile memory
    Byte,       \* what one location can hold
    Block(_)    \* the erase unit that a location belongs to

VARIABLES
    view,       \* what a read returns
    durable,    \* what survives a power loss
    flushed     \* TRUE right after a nonVolatileFlush() that returned NV_NO_ERROR

vars == <<view, durable, flushed>>

TypeOK ==
    /\ view \in [Address -> Byte]
    /\ durable \in [Address -> Byte]
    /\ flushed \in BOOLEAN

Init ==
    /\ durable \in [Address -> Byte]
    /\ view = durable
    /\ flushed = FALSE

(* A caller's byte is accepted: later reads see it at once. *)
Write(a, b) ==
    /\ view' = [view EXCEPT ![a] = b]
    /\ durable' = durable
    /\ flushed' = FALSE

(* The device is working on the erase unit of location a.  Anything may be *)
(* found there if power fails now, but reads are not affected and no other *)
(* erase unit is touched.                                                  *)
Work(a) ==
    /\ durable' \in [Address -> Byte]
    /\ \A b \in Address : Block(b) # Block(a) => durable'[b] = durable[b]
    /\ view' = view
    /\ flushed' = FALSE

(* nonVolatileFlush() reports success: nothing is left to be written. *)
Flush ==
    /\ durable = view
    /\ flushed' = TRUE
    /\ UNCHANGED <<view, durable>>

(* Any other call or return (an address error, an I/O error, the start of  *)
(* a call) promises nothing about durability and changes no contents.      *)
Other ==
    /\ flushed' = FALSE
    /\ UNCHANGED <<view, durable>>

(* Power fails: what had not reached the device is gone. *)
PowerLoss ==
    /\ view' = durable
    /\ durable' = durable
    /\ flushed' = FALSE

Next ==
    \/ \E a \in Address, b \in Byte : Write(a, b)
    \/ \E a \in Address : Work(a)
    \/ Flush
    \/ Other
    \/ PowerLoss

Spec == Init /\ [][Next]_vars
=============================================================================
