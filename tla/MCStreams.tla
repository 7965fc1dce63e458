----------------------------- MODULE MCStreams -----------------------------
(***************************************************************************)
(* The packets of StreamComm, and the serial links of the LPC11Uxx and the *)
(* AVR that carry them, for TLC.  "part" tells which one a behaviour is    *)
(* about; the others rest.                                                 *)
(***************************************************************************)
EXTENDS MCStreamComm, SerialLinks

allVars == <<vars, serialVars>>

lpcLink == <<linkVars, appVars, lpcVars>>

avrLink == <<linkVars, appVars, avrVars>>

StreamsInit == Init /\ SerialInit

(* A line error stops the device; a window that is hit may leave it asleep. *)
Stuck == {"halted"} \cup (IF part = "lpc windows" THEN {"read asleep", "readCredit asleep"} ELSE {})

StreamsNext ==
    \/ part = "packets" /\ Next /\ UNCHANGED serialVars
    \/ SerialNext /\ UNCHANGED vars
    \/ call \in Stuck /\ UNCHANGED allVars

(* The device and its interrupt handlers run, bytes on the line arrive,    *)
(* and the host reads what it is sent and finishes what it started.        *)
StreamsSpec ==
    /\ StreamsInit /\ [][StreamsNext]_allVars
    /\ WF_vars(part = "packets" /\ Device) /\ WF_vars(part = "packets" /\ HostReceives)
    /\ WF_lpcLink(part = "lpc" /\ LpcApp) /\ WF_lpcLink(part = "lpc" /\ LpcShift)
    /\ WF_lpcLink(part = "lpc" /\ LpcReceiveInterrupt)
    /\ WF_lpcLink(part = "lpc" /\ TransmitInterrupt)
    /\ WF_lpcLink(part = "lpc" /\ HostStep /\ UNCHANGED <<appVars, lpcVars>>)
    /\ WF_avrLink(part = "avr" /\ AvrApp) /\ WF_avrLink(part = "avr" /\ AvrShift)
    /\ WF_avrLink(part = "avr" /\ AvrReceiveInterrupt)
    /\ WF_avrLink(part = "avr" /\ EmptyInterrupt)
    /\ WF_avrLink(part = "avr" /\ HostStep /\ UNCHANGED <<appVars, avrVars>>)
=============================================================================
