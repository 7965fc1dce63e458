------------------------------ MODULE SerialAvr ------------------------------
(***************************************************************************)
(* The byte stream of the AVR port, avr/usart.c: two ring buffers with a   *)
(* flag that tells full from empty, filled and emptied by two interrupt    *)
(* service routines.  "line" is UDR0 on its way out.                       *)
(***************************************************************************)
EXTENDS SerialLink

CONSTANTS TX_BUFFER_SIZE, RX_BUFFER_SIZE

VARIABLES
    tx, rx,     \* buffer, index of the first and after the last byte, full
    rx_buffer_overrun,
    rx_acknowledge, tx_acknowledge,
    immediate,  \* send_immediately of usartSend()
    udrie       \* the data register empty interrupt is enabled

avrVars == <<tx, rx, rx_buffer_overrun, rx_acknowledge, tx_acknowledge, immediate, udrie>>

Ring(size) == [buffer |-> [k \in 0..(size - 1) |-> 0], start |-> 0, end |-> 0, full |-> FALSE]

AvrInit ==
    /\ tx = Ring(TX_BUFFER_SIZE) /\ rx = Ring(RX_BUFFER_SIZE) /\ rx_buffer_overrun = FALSE
    /\ rx_acknowledge = DEFAULT_ACKNOWLEDGE_INTERVAL
    /\ tx_acknowledge = DEFAULT_ACKNOWLEDGE_INTERVAL
    /\ immediate = FALSE /\ udrie = FALSE

Empty(b) == b.start = b.end /\ ~b.full

First(b) == b.buffer[b.start]

(* Mutation: taking a byte out of a full buffer does not make room. *)
StaysFull(b, size) ==
    [b EXCEPT !.start = (@ + 1) % size, !.buffer[b.start] = 0]

(* What the buffer holds outside of its bytes is not read: it is 0 here. *)
Take(b, size) ==
    [b EXCEPT !.start = (@ + 1) % size, !.full = FALSE, !.buffer[b.start] = 0]

Enqueue(b, d, size) ==
    [b EXCEPT !.buffer[b.end] = d, !.end = (@ + 1) % size,
              !.full = b.full \/ b.start = (b.end + 1) % size]
-----------------------------------------------------------------------------
AvrBegin == Begin /\ UNCHANGED avrVars

(* What streamGetOneByte() does last. *)
GetEnds(reply) ==
    call' \in IF rx_buffer_overrun THEN {"halted"}
              ELSE IF reply > 0 THEN {"idle", "sanitise"} ELSE {"idle"}

(* usartReceive() and the rest of streamGetOneByte(). *)
AvrGet ==
    /\ call = "read" /\ ~Empty(rx)
    /\ rx' = Take(rx, RX_BUFFER_SIZE)
    /\ Got(First(rx))
    /\ IF rx_acknowledge = 1
       THEN /\ rx_acknowledge' = RX_BUFFER_SIZE
            /\ todo' = Acknowledgement(RX_BUFFER_SIZE) /\ call' = "write"
       ELSE /\ rx_acknowledge' = rx_acknowledge - 1
            /\ GetEnds(packet'.reply) /\ UNCHANGED todo
    /\ UNCHANGED <<wire, line, inbox, tester, tx, rx_buffer_overrun, tx_acknowledge, immediate,
                   credit, udrie>>

(* usartSend(), first part: whether the byte can go out at once. *)
Decide ==
    /\ call = "write"
    /\ immediate' = (Empty(tx) /\ line = <<>>)
    /\ call' = "sending"
    /\ UNCHANGED <<linkVars, tx, rx, rx_buffer_overrun, rx_acknowledge, tx_acknowledge, todo,
                   credit, udrie>>

(* What follows usartSend(): the next byte of an acknowledgement, or the   *)
(* end of streamGetOneByte(), or the count of streamPutOneByte().          *)
Sent ==
    /\ todo' = Tail(todo)
    /\ IF Tail(todo) # <<>> THEN call' = "write" /\ UNCHANGED tx_acknowledge
       ELSE IF packet.put = 0 THEN GetEnds(packet.reply) /\ UNCHANGED tx_acknowledge
       ELSE /\ tx_acknowledge' = tx_acknowledge - 1
            /\ call' = IF tx_acknowledge = 1 THEN "readCredit" ELSE "idle"

(* Mutation: a byte is written to the register although others are queued. *)
SendPastQueue ==
    /\ call = "sending"
    /\ IF line = <<>>
       THEN line' = <<Head(todo)>> /\ UNCHANGED <<tx, udrie>>
       ELSE /\ ~tx.full
            /\ tx' = Enqueue(tx, Head(todo), TX_BUFFER_SIZE)
            /\ udrie' = TRUE /\ UNCHANGED line
    /\ Sent
    /\ UNCHANGED <<wire, inbox, tester, packet, garbled, rx, rx_buffer_overrun, rx_acknowledge,
                   immediate, credit>>

(* usartSend(), second part: to the register, or to the buffer. *)
usartSend ==
    /\ call = "sending"
    /\ IF immediate
       THEN line' = Append(line, Head(todo)) /\ UNCHANGED <<tx, udrie>>
       ELSE /\ ~tx.full
            /\ tx' = Enqueue(tx, Head(todo), TX_BUFFER_SIZE)
            /\ udrie' = TRUE /\ UNCHANGED line
    /\ Sent
    /\ UNCHANGED <<wire, inbox, tester, packet, garbled, rx, rx_buffer_overrun, rx_acknowledge,
                   immediate, credit>>

(* streamPutOneByte() waiting for an acknowledgement. *)
AvrReadCredit ==
    /\ call = "readCredit" /\ ~Empty(rx)
    /\ rx' = Take(rx, RX_BUFFER_SIZE)
    /\ LET read == IF credit = <<>> /\ First(rx) # FF THEN <<>> ELSE Append(credit, First(rx))
       IN  IF Len(read) = 1 + AckBytes
           THEN tx_acknowledge' = Number(Tail(read)) /\ credit' = <<>> /\ call' = "idle"
           ELSE credit' = read /\ UNCHANGED <<tx_acknowledge, call>>
    /\ UNCHANGED <<linkVars, tx, rx_buffer_overrun, rx_acknowledge, todo, immediate, udrie>>

(* sanitiseRam(): once the buffer is empty, all variables are cleared,     *)
(* which is how initUsart() sets them; the counters are restored.          *)
AvrSanitiseRam ==
    /\ call = "sanitise" /\ Empty(tx)
    /\ tx' = Ring(TX_BUFFER_SIZE) /\ rx' = Ring(RX_BUFFER_SIZE) /\ rx_buffer_overrun' = FALSE
    /\ call' = "idle"
    /\ UNCHANGED <<linkVars, rx_acknowledge, tx_acknowledge, todo, immediate, credit, udrie>>

AvrApp == AvrBegin \/ AvrGet \/ Decide \/ usartSend \/ AvrReadCredit \/ AvrSanitiseRam
-----------------------------------------------------------------------------
(* The line is slow: streamPutOneByte(), when it has to take an            *)
(* acknowledgement out of the buffer, is not overtaken by a full buffer.   *)
AvrInTime == call \in {"sending", "readCredit"} => ~rx.full

AvrReceiveInterrupt ==
    /\ call # "halted" /\ wire # <<>> /\ AvrInTime
    /\ wire' = Tail(wire)
    /\ IF rx.full
       THEN rx_buffer_overrun' = TRUE /\ UNCHANGED rx
       ELSE rx' = Enqueue(rx, Head(wire), RX_BUFFER_SIZE) /\ UNCHANGED rx_buffer_overrun
    /\ UNCHANGED <<line, inbox, tester, packet, garbled, appVars, tx, rx_acknowledge,
                   tx_acknowledge, immediate, udrie>>

(* USART_UDRE_vect, while the data register is empty. *)
EmptyInterrupt ==
    /\ call # "halted" /\ udrie /\ line = <<>>
    /\ IF ~Empty(tx)
       THEN line' = <<First(tx)>> /\ tx' = Take(tx, TX_BUFFER_SIZE) /\ UNCHANGED udrie
       ELSE udrie' = FALSE /\ UNCHANGED <<line, tx>>
    /\ UNCHANGED <<wire, inbox, tester, packet, garbled, appVars, rx, rx_buffer_overrun, rx_acknowledge,
                   tx_acknowledge, immediate>>

AvrShift ==
    /\ line # <<>>
    /\ inbox' = Append(inbox, Head(line)) /\ line' = Tail(line)
    /\ UNCHANGED <<wire, tester, packet, garbled, appVars, avrVars>>

AvrHostActs == (HostStart \/ HostStep) /\ UNCHANGED <<appVars, avrVars>>

AvrNext == AvrApp \/ AvrReceiveInterrupt \/ EmptyInterrupt \/ AvrShift \/ AvrHostActs
-----------------------------------------------------------------------------
(* As for the LPC11Uxx port: bytes arrive once and in order in both        *)
(* directions, and the receive buffer is large enough.                     *)
AvrInOrder == ~garbled /\ ~rx_buffer_overrun

(* The counters of both ends agree when nothing is on its way.             *)
AvrCountersAgree ==
    Quiet /\ Empty(rx) /\ Empty(tx)
    => rx_acknowledge = tester.tx_bytes_to_ack /\ tx_acknowledge = tester.rx_bytes_to_ack
=============================================================================
