---------------------------- MODULE SerialLinks ----------------------------
(***************************************************************************)
(* The serial links of the LPC11Uxx and of the AVR.  They share the line   *)
(* and the host; "part" tells which one a behaviour is about, and the      *)
(* other rests.                                                            *)
(***************************************************************************)
EXTENDS SerialLpc, SerialAvr

CONSTANTS
    Parts,      \* what is looked at
    Races       \* windows of the LPC11Uxx that are hit in part "lpc"

VARIABLE part

(* An interval fits into an acknowledgement, and a receive buffer holds    *)
(* what the host may send before the first one.                            *)
ASSUME SerialAssumption ==
    /\ FF \in Nat \ {0} /\ AckBytes \in Nat \ {0} /\ MaxPacket \in Nat
    /\ TRANSMIT_BUFFER_SIZE \in Nat \ {0} /\ TX_BUFFER_SIZE \in Nat \ {0}
    /\ DEFAULT_ACKNOWLEDGE_INTERVAL \in Nat \ {0}
    /\ \A v \in {RX_ACKNOWLEDGE_INTERVAL, RECEIVE_BUFFER_SIZE, RX_BUFFER_SIZE} :
          v \in Nat \ {0} /\ Number(Word(v)) = v
    /\ DEFAULT_ACKNOWLEDGE_INTERVAL <= RECEIVE_BUFFER_SIZE
    /\ DEFAULT_ACKNOWLEDGE_INTERVAL <= RX_BUFFER_SIZE

serialVars == <<part, linkVars, appVars, lpcVars, avrVars>>

(* In part "lpc windows", the windows of enterSleepMode() and of           *)
(* serialSendNotify() are open, but no transmit interrupt hits the latter. *)
(* Line errors and sanitiseRam() are left to part "lpc".                   *)
NotOvertaken ==
    /\ holding # <<>> => transmit_buffer' = transmit_buffer
    /\ errors' = errors /\ call' # "sanitise"

SerialInit ==
    /\ part \in Parts
    /\ races = IF part = "lpc windows" THEN {"sleep", "notify"} ELSE Races
    /\ LinkInit /\ LpcInit /\ AvrInit

SerialNext ==
    /\ UNCHANGED part
    /\ \/ part = "lpc" /\ LpcNext /\ UNCHANGED avrVars
       \/ part = "lpc windows" /\ LpcNext /\ NotOvertaken /\ UNCHANGED avrVars
       \/ part = "avr" /\ AvrNext /\ UNCHANGED lpcVars

SerialSpec == SerialInit /\ [][SerialNext]_serialVars
-----------------------------------------------------------------------------
(* Serial links: bytes arrive once and in order in both directions, no     *)
(* acknowledgement is taken for data, the receive buffer is large enough   *)
(* for a host that respects the acknowledgements, and the counters of both *)
(* ends agree whenever nothing is on its way, also after sanitiseRam().    *)
StreamInOrder ==
    /\ part \in {"lpc", "lpc windows"} => LpcInOrder /\ LpcCountersAgree
    /\ part = "avr" => AvrInOrder /\ AvrCountersAgree

(* Every packet that the host starts to send over a serial link is read    *)
(* and answered, unless a line error stops the device: no call of          *)
(* streamGetOneByte() or streamPutOneByte() blocks for ever.               *)
PacketsAnswered ==
    (tester.pc # "idle" /\ part # "lpc windows") ~> (tester.pc = "idle" \/ errors > 0)
=============================================================================
