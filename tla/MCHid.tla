------------------------------- MODULE MCHid -------------------------------
(***************************************************************************)
(* Four hosts for HidStream in one run: one that only sends to the device, *)
(* one that only receives from it, one that does both at all endpoints at  *)
(* once, and one that does anything.                                       *)
(***************************************************************************)
EXTENDS MCHidStream

(* A host that is not well-behaved may halt the device. *)
Halted == ~WellBehaved /\ fatal /\ UNCHANGED <<env, vars>>

HostSpec == Init /\ [][Next \/ Halted]_<<env, vars>>
=============================================================================
