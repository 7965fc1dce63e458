------------------------------ MODULE SerialLpc ------------------------------
(***************************************************************************)
(* The byte stream of the LPC11Uxx port: lpc11uxx/serial_fifo.c, the       *)
(* interrupt handler and serialSendNotify() of lpc11uxx/usart.c.           *)
(*                                                                         *)
(* A step of the application ends where interrupts are enabled again.      *)
(* Three windows of a few instructions are steps of their own only if      *)
(* their name is in races: between finding a buffer empty or full and      *)
(* sleeping ("sleep"), between taking a byte out of the transmit buffer    *)
(* and writing it to the transmit register ("notify"), and between         *)
(* clearing memory and initialising the buffers again ("sanitise").        *)
(***************************************************************************)
EXTENDS SerialLink

CONSTANTS
    TRANSMIT_BUFFER_SIZE, RECEIVE_BUFFER_SIZE,
    MaxLineErrors   \* bound on receive line errors

VARIABLES
    transmit_buffer, receive_buffer,    \* CircularBuffer
    receive_acknowledge, transmit_acknowledge,
    holding,    \* the byte that serialSendNotify() holds, as a sequence
    saved,      \* the counters that sanitiseRam() saved
    thre,       \* the transmit interrupt is pending
    errors,     \* line errors so far
    races       \* which windows an interrupt may hit, always the same

lpcVars == <<transmit_buffer, receive_buffer, receive_acknowledge, transmit_acknowledge,
             holding, saved, thre, errors, races>>

Buffer(size) ==
    [next |-> 0, remaining |-> 0, size |-> size, error_occurred |-> FALSE,
     storage |-> [k \in 0..(size - 1) |-> 0]]

Cleared == [Buffer(0) EXCEPT !.storage = <<>>]

LpcInit ==
    /\ transmit_buffer = Buffer(TRANSMIT_BUFFER_SIZE)
    /\ receive_buffer = Buffer(RECEIVE_BUFFER_SIZE)
    /\ receive_acknowledge = DEFAULT_ACKNOWLEDGE_INTERVAL
    /\ transmit_acknowledge = DEFAULT_ACKNOWLEDGE_INTERVAL
    /\ holding = <<>> /\ saved = <<>> /\ thre = FALSE /\ errors = 0

isCircularBufferEmpty(b) == b.remaining = 0

Oldest(b) == b.storage[b.next]

(* circularBufferRead() without its wait: Oldest(b) is returned.  What the *)
(* storage holds outside of the remaining bytes is not read: it is 0 here. *)
ReadBuffer(b) ==
    [b EXCEPT !.remaining = @ - 1, !.next = (@ + 1) % b.size, !.storage[b.next] = 0]

(* Mutation: the new byte is stored one place too far when the buffer wraps. *)
StoreUnwrapped(b, d) ==
    LET index == IF b.next + b.remaining >= b.size THEN b.next ELSE b.next + b.remaining
    IN  [b EXCEPT !.storage[index] = d, !.remaining = @ + 1]

Store(b, d) ==
    [b EXCEPT !.storage[(b.next + b.remaining) % b.size] = d, !.remaining = @ + 1]

(* circularBufferWrite() from an interrupt handler. *)
WriteFromIrq(b, d) ==
    IF b.remaining = b.size THEN [b EXCEPT !.error_occurred = TRUE] ELSE Store(b, d)
-----------------------------------------------------------------------------
LpcBegin == Begin /\ UNCHANGED lpcVars

MustWait ==
    \/ call \in {"read", "readCredit"} /\ isCircularBufferEmpty(receive_buffer)
    \/ call = "write" /\ transmit_buffer.remaining = transmit_buffer.size

Asleep == [read |-> "read asleep", readCredit |-> "readCredit asleep", write |-> "write asleep"]

Drowsy == [read |-> "read drowsy", readCredit |-> "readCredit drowsy", write |-> "write drowsy"]

(* The loops around enterSleepMode(): the test, then "wfi". *)
Wait ==
    /\ MustWait
    /\ call' = IF "sleep" \in races THEN Drowsy[call] ELSE Asleep[call]
    /\ UNCHANGED <<linkVars, transmit_buffer, receive_buffer, receive_acknowledge,
                   transmit_acknowledge, todo, holding, credit, saved, thre, errors, races>>

enterSleepMode ==
    /\ \E p \in DOMAIN Drowsy : call = Drowsy[p] /\ call' = Asleep[p]
    /\ UNCHANGED <<linkVars, transmit_buffer, receive_buffer, receive_acknowledge,
                   transmit_acknowledge, todo, holding, credit, saved, thre, errors, races>>

(* streamGetOneByte() once a byte is there.  After the last byte of a      *)
(* request the device may go through sanitiseRam() before it replies.      *)
LpcGet ==
    /\ call = "read" /\ ~MustWait
    /\ IF receive_buffer.error_occurred
       THEN /\ call' = "halted"
            /\ UNCHANGED <<packet, garbled, receive_buffer, receive_acknowledge, todo>>
       ELSE /\ receive_buffer' = ReadBuffer(receive_buffer)
            /\ Got(Oldest(receive_buffer))
            /\ IF receive_acknowledge = 1
               THEN /\ receive_acknowledge' = RECEIVE_BUFFER_SIZE
                    /\ todo' = Acknowledgement(RECEIVE_BUFFER_SIZE)
                    /\ call' = "write"
               ELSE /\ receive_acknowledge' = receive_acknowledge - 1
                    /\ call' \in IF packet'.reply > 0 THEN {"idle", "sanitise"} ELSE {"idle"}
                    /\ UNCHANGED todo
    /\ UNCHANGED <<wire, line, inbox, tester, transmit_buffer, transmit_acknowledge, holding,
                   credit, saved, thre, errors, races>>

(* circularBufferWrite() to the transmit buffer; its error flag is never set. *)
Put ==
    /\ call = "write" /\ ~MustWait
    /\ transmit_buffer' = Store(transmit_buffer, Head(todo))
    /\ todo' = Tail(todo)
    /\ call' = IF Tail(todo) # <<>> THEN "write"
               ELSE IF packet.put > 0 THEN "notify of put" ELSE "notify of get"
    /\ UNCHANGED <<linkVars, receive_buffer, receive_acknowledge, transmit_acknowledge,
                   holding, credit, saved, thre, errors, races>>

(* What follows serialSendNotify() in streamGetOneByte(), and in           *)
(* streamPutOneByte(), which counts the byte and may have to wait.         *)
AfterNotify ==
    IF call = "notify of put"
    THEN /\ transmit_acknowledge' = transmit_acknowledge - 1
         /\ call' = IF transmit_acknowledge = 1 THEN "readCredit" ELSE "idle"
    ELSE /\ call' \in IF packet.reply > 0 THEN {"idle", "sanitise"} ELSE {"idle"}
         /\ UNCHANGED transmit_acknowledge

(* Mutation: the transmit register is written although it is in use. *)
NotifyBusy ==
    /\ call \in {"notify of put", "notify of get"} /\ holding = <<>>
    /\ IF ~isCircularBufferEmpty(transmit_buffer)
       THEN /\ transmit_buffer' = ReadBuffer(transmit_buffer)
            /\ line' = <<Oldest(transmit_buffer)>> /\ thre' = FALSE
       ELSE UNCHANGED <<transmit_buffer, line, thre>>
    /\ AfterNotify
    /\ UNCHANGED <<wire, inbox, tester, packet, garbled, receive_buffer, receive_acknowledge,
                   todo, holding, credit, saved, errors, races>>

(* serialSendNotify().  circularBufferRead() enables interrupts before the *)
(* byte it returns is written to the register.                             *)
serialSendNotify ==
    /\ call \in {"notify of put", "notify of get"} /\ holding = <<>>
    /\ IF ~isCircularBufferEmpty(transmit_buffer) /\ line = <<>>
       THEN /\ transmit_buffer' = ReadBuffer(transmit_buffer)
            /\ IF "notify" \in races
               THEN /\ holding' = <<Oldest(transmit_buffer)>>
                    /\ UNCHANGED <<line, thre, call, transmit_acknowledge>>
               ELSE /\ line' = <<Oldest(transmit_buffer)>> /\ thre' = FALSE
                    /\ AfterNotify /\ UNCHANGED holding
       ELSE AfterNotify /\ UNCHANGED <<transmit_buffer, line, holding, thre>>
    /\ UNCHANGED <<wire, inbox, tester, packet, garbled, receive_buffer, receive_acknowledge,
                   todo, credit, saved, errors, races>>

WriteHeld ==
    /\ holding # <<>>
    /\ line' = line \o holding /\ holding' = <<>> /\ thre' = FALSE
    /\ AfterNotify
    /\ UNCHANGED <<wire, inbox, tester, packet, garbled, transmit_buffer, receive_buffer,
                   receive_acknowledge, todo, credit, saved, errors, races>>

(* streamPutOneByte() waiting: bytes are dropped until 0xff, then the      *)
(* number of bytes that may be sent is read.                               *)
LpcReadCredit ==
    /\ call = "readCredit" /\ ~MustWait
    /\ IF receive_buffer.error_occurred
       THEN call' = "halted" /\ UNCHANGED <<receive_buffer, credit, transmit_acknowledge>>
       ELSE LET b == Oldest(receive_buffer)
                read == IF credit = <<>> /\ b # FF THEN <<>> ELSE Append(credit, b)
            IN  /\ receive_buffer' = ReadBuffer(receive_buffer)
                /\ IF Len(read) = 1 + AckBytes
                   THEN /\ transmit_acknowledge' = Number(Tail(read))
                        /\ credit' = <<>> /\ call' = "idle"
                   ELSE credit' = read /\ UNCHANGED <<transmit_acknowledge, call>>
    /\ UNCHANGED <<linkVars, transmit_buffer, receive_acknowledge, todo, holding, saved, thre, errors, races>>

initSerialFIFO ==
    /\ transmit_buffer' = Buffer(TRANSMIT_BUFFER_SIZE)
    /\ receive_buffer' = Buffer(RECEIVE_BUFFER_SIZE)

(* Mutation: the counters are not saved. *)
SanitiseForgets ==
    /\ call = "sanitise" /\ isCircularBufferEmpty(transmit_buffer)
    /\ initSerialFIFO
    /\ receive_acknowledge' = DEFAULT_ACKNOWLEDGE_INTERVAL
    /\ transmit_acknowledge' = DEFAULT_ACKNOWLEDGE_INTERVAL
    /\ call' = "idle"
    /\ UNCHANGED <<linkVars, todo, holding, credit, saved, thre, errors, races>>

(* sanitiseRam(): wait for the transmit buffer, clear memory, initialise   *)
(* the buffers, restore the counters.                                      *)
LpcSanitiseRam ==
    /\ call = "sanitise" /\ isCircularBufferEmpty(transmit_buffer)
    /\ IF "sanitise" \in races
       THEN /\ transmit_buffer' = Cleared /\ receive_buffer' = Cleared
            /\ receive_acknowledge' = 0 /\ transmit_acknowledge' = 0
            /\ saved' = <<receive_acknowledge, transmit_acknowledge>>
            /\ call' = "cleared"
       ELSE /\ initSerialFIFO /\ call' = "idle"
            /\ UNCHANGED <<receive_acknowledge, transmit_acknowledge, saved>>
    /\ UNCHANGED <<linkVars, todo, holding, credit, thre, errors, races>>

Reinitialise ==
    /\ call = "cleared"
    /\ initSerialFIFO
    /\ receive_acknowledge' = saved[1] /\ transmit_acknowledge' = saved[2]
    /\ saved' = <<>> /\ call' = "idle"
    /\ UNCHANGED <<linkVars, todo, holding, credit, thre, errors, races>>

LpcApp == LpcBegin \/ Wait \/ enterSleepMode \/ LpcGet \/ Put \/ serialSendNotify \/ WriteHeld
          \/ LpcReadCredit \/ LpcSanitiseRam \/ Reinitialise
-----------------------------------------------------------------------------
(* An interrupt ends "wfi"; the loop around it then tests again. *)
Woken == IF \E p \in DOMAIN Asleep : call = Asleep[p]
         THEN CHOOSE p \in DOMAIN Asleep : call = Asleep[p] ELSE call

(* The line is slow: streamPutOneByte(), when it has to take an            *)
(* acknowledgement out of the buffer, is not overtaken by a full buffer.   *)
LpcInTime ==
    call \in {"notify of put", "readCredit", Drowsy["readCredit"], Asleep["readCredit"]}
    => receive_buffer.remaining < receive_buffer.size

(* UART_IRQHandler(): a byte was received. *)
LpcReceiveInterrupt ==
    /\ call # "halted" /\ wire # <<>> /\ LpcInTime
    /\ receive_buffer' = WriteFromIrq(receive_buffer, Head(wire))
    /\ wire' = Tail(wire)
    /\ call' = Woken
    /\ UNCHANGED <<line, inbox, tester, packet, garbled, todo, credit, transmit_buffer,
                   receive_acknowledge, transmit_acknowledge, holding, saved, thre, errors, races>>

(* UART_IRQHandler(): the transmit register is empty. *)
TransmitInterrupt ==
    /\ call # "halted" /\ thre
    /\ thre' = FALSE
    /\ IF ~isCircularBufferEmpty(transmit_buffer) /\ line = <<>>
       THEN /\ line' = <<Oldest(transmit_buffer)>>
            /\ transmit_buffer' = ReadBuffer(transmit_buffer)
       ELSE UNCHANGED <<line, transmit_buffer>>
    /\ call' = Woken
    /\ UNCHANGED <<wire, inbox, tester, packet, garbled, todo, credit, receive_buffer,
                   receive_acknowledge, transmit_acknowledge, holding, saved, errors, races>>

(* UART_IRQHandler(): the next byte was received wrongly; the interrupt    *)
(* for this comes before the one that fetches the byte.                    *)
LineErrorInterrupt ==
    /\ call # "halted" /\ wire # <<>> /\ errors < MaxLineErrors
    /\ errors' = errors + 1
    /\ receive_buffer' = [receive_buffer EXCEPT !.error_occurred = TRUE]
    /\ \E b \in 0..FF : wire' = <<b>> \o Tail(wire)
    /\ call' = Woken
    /\ UNCHANGED <<line, inbox, tester, packet, garbled, todo, credit, transmit_buffer,
                   receive_acknowledge, transmit_acknowledge, holding, saved, thre, races>>

Interrupt == LpcReceiveInterrupt \/ TransmitInterrupt \/ LineErrorInterrupt

(* The transmitter: a byte leaves the register for the host. *)
LpcShift ==
    /\ line # <<>>
    /\ inbox' = Append(inbox, Head(line)) /\ line' = Tail(line)
    /\ thre' = (thre \/ Tail(line) = <<>>)
    /\ UNCHANGED <<wire, tester, packet, garbled, appVars, transmit_buffer, receive_buffer,
                   receive_acknowledge, transmit_acknowledge, holding, saved, errors, races>>

LpcHostActs == (HostStart \/ HostStep) /\ UNCHANGED <<appVars, lpcVars>>

LpcNext == LpcApp \/ Interrupt \/ LpcShift \/ LpcHostActs
-----------------------------------------------------------------------------
(* Every byte that streamGetOneByte() returns and every byte that the host *)
(* reads is the one that the other side sent at that place, and no         *)
(* acknowledgement is taken for data; the receive buffer is never too      *)
(* small for a host that respects acknowledgements.                        *)
LpcInOrder ==
    /\ ~garbled
    /\ errors = 0 => ~receive_buffer.error_occurred

(* The counters of both ends agree when nothing is on its way, also after  *)
(* sanitiseRam(), which says that clearing them "would cause them to go    *)
(* out of sync with the host".                                             *)
LpcCountersAgree ==
    Quiet /\ isCircularBufferEmpty(receive_buffer) /\ isCircularBufferEmpty(transmit_buffer)
    => /\ receive_acknowledge = tester.tx_bytes_to_ack
       /\ transmit_acknowledge = tester.rx_bytes_to_ack
=============================================================================
