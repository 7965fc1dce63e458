------------------------------ MODULE HidStream ------------------------------
(***************************************************************************)
(* The byte stream that the PIC32 port runs over USB HID reports:          *)
(* src/pic32/usb_hid_stream.c (FIFOs, reports, streamGetOneByte and        *)
(* streamPutOneByte), src/pic32/usb_standard_requests.c (the stages of a   *)
(* control transfer) and src/pic32/usb_hal.c (buffer descriptors, data     *)
(* toggles, the interrupt handler).                                        *)
(*                                                                         *)
(* Three actors share the state.  The application calls streamGetOneByte   *)
(* and streamPutOneByte; its critical sections are single steps.  The      *)
(* interrupt handler _USBHandler takes one completed transaction at a time *)
(* from the U1STAT queue (stat); it is never interrupted.  The host and    *)
(* the USB module together perform transactions whenever a buffer          *)
(* descriptor is owned by the module (its name is in uown), the endpoint   *)
(* is not stalled and packet processing is not disabled (pktdis).          *)
(*                                                                         *)
(* A byte is its position in its stream, modulo KReceive or KTransmit, so  *)
(* that a byte lost, duplicated or reordered is a gap between neighbours.  *)
(***************************************************************************)
EXTENDS Integers, Sequences

CONSTANT Environments    \* sizes and hosts; each is a record with the fields below

VARIABLE env             \* the one of this behaviour

MAX_PACKET_SIZE == env.MAX_PACKET_SIZE  \* usb_hal.h: largest packet, report ID included
TRANSMIT_FIFO_SIZE == env.TRANSMIT_FIFO_SIZE
RECEIVE_FIFO_SIZE == env.RECEIVE_FIFO_SIZE
KReceive == env.KReceive          \* moduli of the byte positions
KTransmit == env.KTransmit
AppOps == env.AppOps              \* subset of {"get", "put"}: what the application does
Requests == env.Requests          \* control requests the host makes
Simultaneous == env.Simultaneous  \* the host uses all endpoints at the same time
LosesAcks == env.LosesAcks        \* endpoints whose acknowledgements may be lost
Aborts == env.Aborts              \* the host abandons control transfers
Resets == env.Resets              \* the host resets the bus

\* All the requests of the model: a report of n data bytes read or written, a
\* descriptor of n bytes of which the host asked for exactly n or for more, the
\* device configured or unconfigured, and one that no handler knows.
Request(size) ==
       [kind : {"GetReport"}, n : 0 .. size - 1]
  \cup [kind : {"SetReport"}, n : 0 .. size - 1, good : BOOLEAN]
  \cup [kind : {"GetDescriptor"}, n : 1 .. 2 * size, exact : BOOLEAN]
  \cup [kind : {"SetConfiguration"}, n : {0, 1}]
  \cup [kind : {"Unsupported"}, n : {0}]

\* Mutation: only one endpoint is provided for.
HEADROOM_FOR_ONE == MAX_PACKET_SIZE

RECEIVE_HEADROOM == 2 * MAX_PACKET_SIZE

ASSUME HidAssumption ==
  \A e \in Environments :
    /\ e.MAX_PACKET_SIZE \in Nat \ {0, 1}
    /\ e.TRANSMIT_FIFO_SIZE \in Nat \ {0}
    /\ e.RECEIVE_FIFO_SIZE \in Nat /\ e.RECEIVE_FIFO_SIZE >= 2 * e.MAX_PACKET_SIZE
    /\ e.KReceive \in Nat \ {0} /\ e.KTransmit \in Nat \ {0}
    /\ e.AppOps \subseteq {"get", "put"}
    /\ e.Requests \subseteq Request(e.MAX_PACKET_SIZE)
    /\ {e.Simultaneous, e.Aborts, e.Resets} \subseteq BOOLEAN
    /\ e.LosesAcks \subseteq {0, 2}

VARIABLES
  transmit_fifo, receive_fifo,
  interrupt_transmit_queued, interrupt_receive_queued,
  interrupt_packet,             \* data bytes of the packet queued on endpoint 1
  do_control_receive_queue, expect_control_report,
  do_build_transmit_report, desired_transmit_report_length,
  report,                       \* data bytes of get_report_packet_buffer
  configuration,                \* old_configuration_value = current_configuration_value
  current_stage,
  transmit_remaining,           \* of the control endpoint; 0 unless is_extended_transmit
  data_sequence,                \* of the control and of the receive endpoint
  uown, stat, pktdis, stalled,  \* buffer descriptors, U1STAT, PKTDIS, EPSTALL of endpoint 0
  urstif,                       \* a bus reset waits for the handler
  fatal,                        \* usbFatalError() was called
  pc, put, taken,               \* the application and the bytes it put and took
  transfer,                     \* the host's control transfer
  host_sequence, unacknowledged,\* the host's toggle for endpoint 2; its packet to repeat
  sent, got                     \* bytes the host sent and got

fifos == <<transmit_fifo, receive_fifo>>
interruptVars == <<interrupt_transmit_queued, interrupt_receive_queued, interrupt_packet>>
setReportVars == <<do_control_receive_queue, expect_control_report>>
getReportVars == <<do_build_transmit_report, desired_transmit_report_length, report>>
controlVars == <<configuration, current_stage, transmit_remaining, data_sequence>>
busVars == <<pktdis, stalled, urstif>>
appVars == <<pc, put, taken>>
hostVars == <<transfer, host_sequence, unacknowledged, sent, got>>
deviceVars == <<fifos, interruptVars, setReportVars, getReportVars, controlVars>>
vars == <<deviceVars, uown, stat, busVars, fatal, appVars, hostVars>>

NoReport == -1
NoTransfer == [req |-> [kind |-> "Unsupported", n |-> 0], phase |-> "none", left |-> 0]

-----------------------------------------------------------------------------
(* Bytes.                                                                   *)

\* The n bytes of a stream from position p on.
Bytes(p, n, k) == [i \in 1 .. n |-> (p + i - 1) % k]

Least(m, n) == IF m < n THEN m ELSE n
Prefix(s, n) == SubSeq(s, 1, Least(n, Len(s)))
Drop(s, n) == SubSeq(s, Least(n, Len(s)) + 1, Len(s))

circularBufferSpaceRemaining(fifo) == RECEIVE_FIFO_SIZE - Len(fifo)

\* There is room for a report from each of the two endpoints that receive.
HasHeadroom(fifo) == circularBufferSpaceRemaining(fifo) >= RECEIVE_HEADROOM

-----------------------------------------------------------------------------
Init ==
  /\ env \in Environments
  /\ transmit_fifo = <<>> /\ receive_fifo = <<>>
  /\ interrupt_transmit_queued = FALSE /\ interrupt_receive_queued = FALSE
  /\ interrupt_packet = <<>>
  /\ do_control_receive_queue = FALSE /\ expect_control_report = NoReport
  /\ do_build_transmit_report = FALSE /\ desired_transmit_report_length = 0
  /\ report = <<>>
  /\ configuration = 0 /\ current_stage = "SETUP"
  /\ transmit_remaining = 0 /\ data_sequence = [e \in {0, 2} |-> 0]
  /\ uown = {"rx0"} /\ stat = <<>> /\ pktdis = FALSE /\ stalled = FALSE
  /\ urstif = FALSE /\ fatal = FALSE
  /\ pc = "ready" /\ put = 0 /\ taken = 0
  /\ transfer = NoTransfer
  /\ host_sequence = 0 /\ unacknowledged = -1 /\ sent = 0 /\ got = 0

\* main.c:34: the device stops; nothing that the rest of the handler would
\* have done happens.
usbFatalError ==
  /\ fatal' = TRUE
  /\ UNCHANGED <<deviceVars, uown, stat, busVars, appVars, hostVars>>

-----------------------------------------------------------------------------
(* The application: its calls into usb_hid_stream.c.                        *)

\* The packet on endpoint 1 that the flags say is queued.
QueuedPacket == IF interrupt_transmit_queued THEN interrupt_packet ELSE <<>>

\* fillTransmitPacketBufferAndTransmit() on the FIFO contents f, when no packet
\* is queued on endpoint 1 according to owned.
CannotFill(f, owned) == f # <<>> /\ (configuration = 0 \/ "tx1" \in owned)
FillTransmitPacketBufferAndTransmit(f) ==
  /\ interrupt_packet' = Prefix(f, MAX_PACKET_SIZE - 1)
  /\ transmit_fifo' = Drop(f, MAX_PACKET_SIZE - 1)
  /\ interrupt_transmit_queued' = (f # <<>>)
FilledOwner(f) == IF f # <<>> THEN {"tx1"} ELSE {}

CallGet ==
  /\ ~fatal /\ pc = "ready" /\ "get" \in AppOps
  /\ pc' = "reading"
  /\ UNCHANGED <<deviceVars, uown, stat, busVars, fatal, put, taken, hostVars>>

\* Responses go only to a host that has configured the device and sent a packet.
CallPut ==
  /\ ~fatal /\ pc = "ready" /\ "put" \in AppOps /\ configuration = 1
  /\ pc' = "writing"
  /\ UNCHANGED <<deviceVars, uown, stat, busVars, fatal, put, taken, hostVars>>

\* The critical section of circularBufferRead(&receive_fifo, false); while the
\* FIFO is empty the application idles, woken at the latest by Timer2.
circularBufferRead ==
  /\ ~fatal /\ pc = "reading" /\ receive_fifo # <<>>
  /\ taken' = (taken + 1) % KReceive
  /\ receive_fifo' = Tail(receive_fifo)
  /\ pc' = "read"
  /\ UNCHANGED <<transmit_fifo, interruptVars, setReportVars, getReportVars,
                 controlVars, uown, stat, busVars, fatal, put, hostVars>>

\* Mutation: interrupt transfers take precedence.
ControlSecond == do_control_receive_queue /\ interrupt_receive_queued

\* "Control transfers take precedence over interrupt transfers".
ControlFirst == do_control_receive_queue

\* Mutation: a receive that is already queued is queued again.
InterruptAgain == ~ControlFirst

\* Endpoint 2 is next in line for a receive.
InterruptNext == ~ControlFirst /\ ~interrupt_receive_queued

\* The rest of streamGetOneByte(): a receive is queued once there is room, on
\* the control endpoint if a "Set Report" waits there.
streamGetOneByte ==
  /\ ~fatal /\ pc = "read"
  /\ LET queue == HasHeadroom(receive_fifo)
         control == queue /\ ControlFirst
         interrupt == queue /\ InterruptNext
     IN  IF \/ control /\ "rx0" \in uown
            \/ interrupt /\ ("rx2" \in uown \/ configuration = 0)
         THEN usbFatalError
         ELSE /\ do_control_receive_queue' = (do_control_receive_queue /\ ~control)
              /\ interrupt_receive_queued' = (interrupt_receive_queued \/ interrupt)
              /\ uown' = uown \cup (IF control THEN {"rx0"} ELSE {})
                              \cup (IF interrupt THEN {"rx2"} ELSE {})
              /\ pc' = "ready"
              /\ UNCHANGED <<fifos, interrupt_transmit_queued, interrupt_packet,
                             expect_control_report, getReportVars, controlVars,
                             stat, busVars, fatal, put, taken, hostVars>>

\* streamPutOneByte() from the point where the transmit FIFO has space: the
\* byte goes to the report under construction or to the FIFO, and a packet is
\* queued on endpoint 1 if none is.
streamPutOneByte ==
  /\ ~fatal /\ pc = "writing" /\ Len(transmit_fifo) < TRANSMIT_FIFO_SIZE
  /\ LET build == do_build_transmit_report
         complete == build /\ Len(report) + 2 = desired_transmit_report_length
         f == IF build THEN transmit_fifo ELSE Append(transmit_fifo, put)
     IN  IF \/ complete /\ "tx0" \in uown
            \/ ~interrupt_transmit_queued /\ CannotFill(f, uown)
         THEN usbFatalError
         ELSE /\ report' = IF build THEN Append(report, put) ELSE report
              /\ do_build_transmit_report' = (build /\ ~complete)
              /\ IF interrupt_transmit_queued
                   THEN transmit_fifo' = f /\ UNCHANGED <<interrupt_packet, interrupt_transmit_queued>>
                   ELSE FillTransmitPacketBufferAndTransmit(f)
              /\ uown' = uown \cup (IF complete THEN {"tx0"} ELSE {})
                              \cup (IF interrupt_transmit_queued THEN {} ELSE FilledOwner(f))
              /\ transmit_remaining' = IF complete THEN 0 ELSE transmit_remaining
              /\ put' = (put + 1) % KTransmit /\ pc' = "ready"
              /\ UNCHANGED <<receive_fifo, interrupt_receive_queued, setReportVars,
                             desired_transmit_report_length, configuration,
                             current_stage, data_sequence, stat,
                             busVars, fatal, taken, hostVars>>

-----------------------------------------------------------------------------
(* The interrupt handler: one completed transaction, or a bus reset.        *)

Handling(ev) == ~fatal /\ stat # <<>> /\ Head(stat).ev = ev

\* usbClassAbortControlTransfer() as far as "Get Report" is concerned.
AbortGetReport ==
  /\ do_build_transmit_report' = FALSE /\ report' = <<>>
  /\ UNCHANGED desired_transmit_report_length

\* Mutation: streamGetOneByte() stays redirected to the control endpoint.
AbortSetReportStillWaiting ==
  /\ do_control_receive_queue' = do_control_receive_queue
  /\ expect_control_report' = NoReport

\* The same for "Set Report".
AbortSetReport == do_control_receive_queue' = FALSE /\ expect_control_report' = NoReport

\* A SETUP packet was received: the previous transfer is aborted, the toggle
\* becomes 1, and packet processing, which the module disabled, goes on.
Setup(kind) == Handling("setup") /\ Head(stat).req.kind = kind
SetupDone ==
  /\ stat' = Tail(stat) /\ pktdis' = FALSE
  /\ data_sequence' = [data_sequence EXCEPT ![0] = 1]
  /\ UNCHANGED <<urstif, fatal, appVars, hostVars>>

\* Mutation: the transmit FIFO is emptied before the queued packet.
FIFOThenPacket == transmit_fifo \o QueuedPacket

\* The bytes that "Get Report" can have, in the order in which it takes them.
PacketThenFIFO == QueuedPacket \o transmit_fifo

\* Mutation: streamPutOneByte() is relied on to queue the next packet.
NeverRefilled(packet) == FALSE

\* Nothing is left of the packet: another is queued, "to avoid this deadlock".
Refilled(packet) == packet = <<>>

\* "Get Report": bytes are taken out of the packet queued on endpoint 1, which is
\* cancelled and queued again without them, then out of the transmit FIFO.  If
\* they do not suffice, streamPutOneByte() completes the report.
getReport ==
  /\ Setup("GetReport")
  /\ LET n == Head(stat).req.n
         available == PacketThenFIFO
         complete == n <= Len(available)
         packet == Drop(QueuedPacket, n)
         fifo == Drop(transmit_fifo, n - Least(n, Len(QueuedPacket)))
         owned == IF packet = <<>> THEN uown \ {"tx1"} ELSE uown
     IN  IF \/ n > 0 /\ interrupt_transmit_queued /\ "tx1" \notin uown
            \/ complete /\ "tx0" \in uown
            \/ Refilled(packet) /\ CannotFill(fifo, owned)
            \/ "rx0" \in uown
         THEN usbFatalError
         ELSE /\ report' = Prefix(available, n)
              /\ desired_transmit_report_length' = n + 1
              /\ do_build_transmit_report' = ~complete
              /\ IF Refilled(packet)
                   THEN FillTransmitPacketBufferAndTransmit(fifo)
                   ELSE /\ interrupt_packet' = packet /\ transmit_fifo' = fifo
                        /\ interrupt_transmit_queued' = (packet # <<>>)
              /\ uown' = owned \cup {"rx0"} \cup (IF complete THEN {"tx0"} ELSE {})
                               \cup (IF Refilled(packet) THEN FilledOwner(fifo) ELSE {})
              /\ transmit_remaining' = IF complete THEN 0 ELSE transmit_remaining
              /\ current_stage' = "DATA"
              /\ AbortSetReport /\ SetupDone
              /\ UNCHANGED <<receive_fifo, interrupt_receive_queued, configuration, stalled>>

\* "Set Report": without room in the receive FIFO, the endpoint is not made
\* ready for the Data stage until streamGetOneByte() has made room.
setReport ==
  /\ Setup("SetReport")
  /\ IF "rx0" \in uown
       THEN usbFatalError
       ELSE /\ expect_control_report' = Head(stat).req.n
            /\ do_control_receive_queue' = ~HasHeadroom(receive_fifo)
            /\ uown' = uown \cup (IF HasHeadroom(receive_fifo) THEN {"rx0"} ELSE {})
            /\ current_stage' = "DATA"
            /\ AbortGetReport /\ SetupDone
            /\ UNCHANGED <<fifos, interruptVars, configuration, transmit_remaining, stalled>>

\* Mutation: a transmit which fits into one packet is extended as well.
AlwaysExtended(n) == n

\* What an extended transmit of n bytes has to keep track of: nothing if the
\* data fits into one packet with room to spare.
ExtendedTransmit(n) == IF n >= MAX_PACKET_SIZE THEN n ELSE 0

\* "Get Descriptor" (and the other reads of fixed data): an extended transmit.
getDescriptor ==
  /\ Setup("GetDescriptor")
  /\ IF {"rx0", "tx0"} \cap uown # {}
       THEN usbFatalError
       ELSE /\ transmit_remaining' = ExtendedTransmit(Head(stat).req.n)
            /\ uown' = uown \cup {"rx0", "tx0"}
            /\ current_stage' = "DATA"
            /\ AbortGetReport /\ AbortSetReport /\ SetupDone
            /\ UNCHANGED <<fifos, interruptVars, configuration, stalled>>

\* Mutation: the packet on endpoint 1 is still taken to be queued.
SetConfigurationKeepingTransmit(v) ==
  /\ configuration' = v
  /\ UNCHANGED interrupt_transmit_queued
  /\ interrupt_receive_queued' = (v = 1)

\* usbClassSetConfiguration(): the endpoints are enabled or disabled when the
\* configuration changes.  Enabling endpoint 2 queues a receive.
usbClassSetConfiguration(v) ==
  /\ configuration' = v
  /\ IF v = configuration
       THEN UNCHANGED <<interrupt_transmit_queued, interrupt_receive_queued>>
       ELSE /\ interrupt_transmit_queued' = FALSE
            /\ interrupt_receive_queued' = (v = 1)
OwnedAfter(v, owned) ==
  CASE v = configuration -> owned
    [] v = 1 /\ configuration = 0 -> owned \cup {"rx2"}
    [] v = 0 /\ configuration = 1 -> owned \ {"tx1", "rx2"}

\* "Set Configuration": no Data stage, a null packet reports success.
setConfiguration ==
  /\ Setup("SetConfiguration")
  /\ LET v == Head(stat).req.n
     IN  IF \/ {"rx0", "tx0"} \cap uown # {}
            \/ v = 1 /\ configuration = 0 /\ "rx2" \in uown
         THEN usbFatalError
         ELSE /\ usbClassSetConfiguration(v)
              /\ uown' = OwnedAfter(v, uown) \cup {"rx0", "tx0"}
              /\ data_sequence' = [e \in {0, 2} |->
                    IF e = 0 THEN 1 ELSE IF v = 1 /\ configuration = 0 THEN 0 ELSE data_sequence[e]]
              /\ current_stage' = "STATUS" /\ transmit_remaining' = 0 /\ stalled' = FALSE
              /\ AbortGetReport /\ AbortSetReport
              /\ stat' = Tail(stat) /\ pktdis' = FALSE
              /\ UNCHANGED <<fifos, interrupt_packet, urstif, fatal, appVars, hostVars>>

\* A request that neither handleControlSetup() nor usbClassHandleControlSetup()
\* knows: the endpoint is stalled.
protocolStall ==
  /\ Setup("Unsupported")
  /\ IF "rx0" \in uown
       THEN usbFatalError
       ELSE /\ stalled' = TRUE /\ current_stage' = "SETUP"
            /\ uown' = uown \cup {"rx0"}
            /\ AbortGetReport /\ AbortSetReport /\ SetupDone
            /\ UNCHANGED <<fifos, interruptVars, configuration, transmit_remaining>>

\* Mutation: a repeated packet is taken for a new one.
AnySequence(e, endpoint) == TRUE

\* Section 8.6.4 of the USB specification: the packet is not a repetition.
InSequence(e, endpoint) == e.toggle = data_sequence[endpoint]

\* A data packet was received on the control endpoint.  If its toggle is not
\* the expected one it is ignored.  Otherwise it is the report of a "Set
\* Report" in the Data stage, or it ends the Status stage.  Its field id is the
\* report ID, which is the number of data bytes, or NoReport if it is empty.
controlReceiveCallback ==
  /\ Handling("out0")
  /\ LET e == Head(stat)
         accepted == InSequence(e, 0)
         stage == IF accepted THEN current_stage ELSE "ignored"
         store == /\ stage = "DATA" /\ expect_control_report # NoReport
                  /\ e.good /\ e.id = expect_control_report
         stall == stage = "DATA" /\ ~store
     IN  IF \/ stage = "SETUP"
            \/ "rx0" \in uown
            \/ store /\ (Len(e.data) > circularBufferSpaceRemaining(receive_fifo) \/ "tx0" \in uown)
         THEN usbFatalError
         ELSE /\ receive_fifo' = IF store THEN receive_fifo \o e.data ELSE receive_fifo
              /\ expect_control_report' = IF stage = "DATA" THEN NoReport ELSE expect_control_report
              /\ do_control_receive_queue' = (do_control_receive_queue /\ ~stall)
              /\ do_build_transmit_report' = (do_build_transmit_report /\ ~stall)
              /\ stalled' = (stalled \/ stall)
              /\ current_stage' = CASE store -> "STATUS"
                                    [] stall \/ stage = "STATUS" -> "SETUP"
                                    [] stage = "ignored" -> current_stage
              /\ data_sequence' = [data_sequence EXCEPT ![0] =
                    IF store THEN 1 ELSE IF accepted THEN 1 - @ ELSE @]
              /\ transmit_remaining' = IF store THEN 0 ELSE transmit_remaining
              /\ uown' = uown \cup {"rx0"} \cup (IF store THEN {"tx0"} ELSE {})
              /\ stat' = Tail(stat)
              /\ UNCHANGED <<transmit_fifo, interruptVars, desired_transmit_report_length,
                             report, configuration, pktdis, urstif, fatal, appVars, hostVars>>

\* A packet was transmitted on the control endpoint: the next part of an
\* extended transmit is queued, or else the transfer enters its next stage.
controlTransmitCallback ==
  /\ Handling("in0")
  /\ LET extended == transmit_remaining >= MAX_PACKET_SIZE
     IN  IF (IF extended THEN "tx0" \in uown ELSE current_stage = "SETUP")
         THEN usbFatalError
         ELSE /\ transmit_remaining' =
                    IF extended THEN ExtendedTransmit(transmit_remaining - MAX_PACKET_SIZE) ELSE 0
              /\ uown' = uown \cup (IF extended THEN {"tx0"} ELSE {})
              /\ current_stage' = CASE extended -> current_stage
                                    [] ~extended /\ current_stage = "DATA" -> "STATUS"
                                    [] ~extended /\ current_stage = "STATUS" -> "SETUP"
              /\ data_sequence' = [data_sequence EXCEPT ![0] =
                    IF ~extended /\ current_stage = "DATA" THEN 1 ELSE 1 - @]
              /\ stat' = Tail(stat)
              /\ UNCHANGED <<fifos, interruptVars, setReportVars, getReportVars,
                             configuration, busVars, fatal, appVars, hostVars>>

\* A packet was transmitted on endpoint 1: the next one is filled.
ep1TransmitCallback ==
  /\ Handling("in1")
  /\ IF configuration = 0 \/ CannotFill(transmit_fifo, uown)
       THEN usbFatalError
       ELSE /\ FillTransmitPacketBufferAndTransmit(transmit_fifo)
            /\ uown' = uown \cup FilledOwner(transmit_fifo)
            /\ stat' = Tail(stat)
            /\ UNCHANGED <<receive_fifo, interrupt_receive_queued, setReportVars,
                           getReportVars, controlVars, busVars, fatal, appVars, hostVars>>

\* A packet was received on endpoint 2: unless it is a repetition, its bytes go
\* into the receive FIFO, and another receive is queued if there is room.
ep2ReceiveCallback ==
  /\ Handling("out2")
  /\ LET e == Head(stat)
         accepted == InSequence(e, 2)
         fifo == IF accepted THEN receive_fifo \o e.data ELSE receive_fifo
         queue == ~accepted \/ HasHeadroom(fifo)
     IN  IF \/ configuration = 0
            \/ accepted /\ Len(e.data) > circularBufferSpaceRemaining(receive_fifo)
            \/ queue /\ "rx2" \in uown
         THEN usbFatalError
         ELSE /\ receive_fifo' = fifo
              /\ interrupt_receive_queued' = IF accepted THEN queue ELSE interrupt_receive_queued
              /\ uown' = uown \cup (IF queue THEN {"rx2"} ELSE {})
              /\ data_sequence' = [data_sequence EXCEPT ![2] = IF accepted THEN 1 - @ ELSE @]
              /\ stat' = Tail(stat)
              /\ UNCHANGED <<transmit_fifo, interrupt_transmit_queued, interrupt_packet,
                             setReportVars, getReportVars, configuration, current_stage,
                             transmit_remaining, busVars, fatal, appVars, hostVars>>

\* usbHALReset(), once no transaction waits.
usbHALReset ==
  /\ ~fatal /\ stat = <<>> /\ urstif
  /\ urstif' = FALSE
  /\ data_sequence' = [e \in {0, 2} |-> 0]
  /\ current_stage' = "SETUP"
  /\ AbortGetReport /\ AbortSetReport
  /\ usbClassSetConfiguration(0)
  /\ uown' = OwnedAfter(0, uown)
  /\ UNCHANGED <<fifos, interrupt_packet, transmit_remaining, stat, pktdis, stalled,
                 fatal, appVars, hostVars>>

-----------------------------------------------------------------------------
(* The host and the USB module.  A transaction needs a buffer descriptor that *)
(* the module owns; it gives the descriptor back and adds an entry to U1STAT. *)

BusReady == ~fatal /\ ~pktdis /\ ~urstif
Transact(bd, entry) ==
  /\ BusReady /\ bd \in uown
  /\ uown' = uown \ {bd}
  /\ stat' = Append(stat, entry)
  /\ UNCHANGED <<deviceVars, urstif, fatal, appVars>>

FirstPhase(r) == CASE r.kind \in {"GetReport", "GetDescriptor", "Unsupported"} -> "dataIn"
                   [] r.kind = "SetReport" -> "dataOut"
                   [] r.kind = "SetConfiguration" -> "statusIn"

\* The host begins a control transfer, possibly abandoning the previous one.
\* Packet processing is disabled until the handler has seen the SETUP packet,
\* and the endpoint is no longer stalled.
HostSetup(r) ==
  /\ transfer.phase = "none" \/ Aborts
  /\ r.kind = "SetConfiguration" => r.n # configuration
  /\ r.kind \in {"GetReport", "SetReport"} => configuration = 1
  /\ Simultaneous \/ unacknowledged = -1
  /\ Transact("rx0", [ev |-> "setup", req |-> r])
  /\ pktdis' = TRUE /\ stalled' = FALSE
  /\ transfer' = [req |-> r, phase |-> FirstPhase(r), left |-> r.n]
  /\ UNCHANGED <<host_sequence, unacknowledged, sent, got>>

\* The host reads a packet of the Data stage: a report, or part of a descriptor,
\* whose last part is a short packet unless the host asked for exactly that much.
HostReadsData ==
  /\ transfer.phase = "dataIn" /\ ~stalled
  /\ Transact("tx0", [ev |-> "in0"])
  /\ LET size == Least(transfer.left, MAX_PACKET_SIZE)
         left == transfer.left - size
         last == \/ transfer.req.kind = "GetReport"
                 \/ size < MAX_PACKET_SIZE
                 \/ transfer.req.exact /\ left = 0
     IN  transfer' = [transfer EXCEPT !.left = left,
                                      !.phase = IF last THEN "statusOut" ELSE "dataIn"]
  /\ got' = IF transfer.req.kind = "GetReport" THEN (got + Len(report)) % KTransmit ELSE got
  /\ UNCHANGED <<pktdis, stalled, host_sequence, unacknowledged, sent>>

\* The host writes the report of a "Set Report".  If the acknowledgement is
\* lost, the host will repeat the packet.
HostWritesData(acknowledged) ==
  /\ transfer.phase = "dataOut" /\ ~stalled
  /\ acknowledged \/ 0 \in LosesAcks
  /\ Transact("rx0", [ev |-> "out0", toggle |-> 1, id |-> transfer.req.n,
                      good |-> transfer.req.good, data |-> Bytes(sent, transfer.req.n, KReceive)])
  /\ transfer' = [transfer EXCEPT !.phase = IF acknowledged THEN "statusIn" ELSE @]
  /\ sent' = IF acknowledged /\ transfer.req.good THEN (sent + transfer.req.n) % KReceive ELSE sent
  /\ UNCHANGED <<pktdis, stalled, host_sequence, unacknowledged, got>>

HostReadsStatus ==
  /\ transfer.phase = "statusIn" /\ ~stalled
  /\ Transact("tx0", [ev |-> "in0"])
  /\ transfer' = NoTransfer
  /\ host_sequence' = IF transfer.req.kind = "SetConfiguration" THEN 0 ELSE host_sequence
  /\ UNCHANGED <<pktdis, stalled, unacknowledged, sent, got>>

HostWritesStatus(acknowledged) ==
  /\ transfer.phase = "statusOut" /\ ~stalled
  /\ acknowledged \/ 0 \in LosesAcks
  /\ Transact("rx0", [ev |-> "out0", toggle |-> 1, id |-> NoReport, good |-> FALSE, data |-> <<>>])
  /\ transfer' = IF acknowledged THEN NoTransfer ELSE transfer
  /\ UNCHANGED <<pktdis, stalled, host_sequence, unacknowledged, sent, got>>

\* The endpoint answers with a stall handshake, which ends the transfer.
HostSeesStall ==
  /\ BusReady /\ stalled /\ transfer.phase # "none"
  /\ transfer' = NoTransfer
  /\ UNCHANGED <<deviceVars, uown, stat, busVars, fatal, appVars, host_sequence,
                 unacknowledged, sent, got>>

UsesInterruptEndpoints == configuration = 1 /\ (Simultaneous \/ transfer.phase = "none")

\* The host polls endpoint 1.
HostPolls ==
  /\ UsesInterruptEndpoints
  /\ Transact("tx1", [ev |-> "in1"])
  /\ got' = (got + Len(interrupt_packet)) % KTransmit
  /\ UNCHANGED <<pktdis, stalled, transfer, host_sequence, unacknowledged, sent>>

\* The host writes a report of n data bytes to endpoint 2, or repeats one.
HostWrites(n, acknowledged) ==
  /\ UsesInterruptEndpoints
  /\ unacknowledged \in {-1, n}
  /\ acknowledged \/ 2 \in LosesAcks
  /\ Transact("rx2", [ev |-> "out2", toggle |-> host_sequence, data |-> Bytes(sent, n, KReceive)])
  /\ unacknowledged' = IF acknowledged THEN -1 ELSE n
  /\ host_sequence' = IF acknowledged THEN 1 - host_sequence ELSE host_sequence
  /\ sent' = IF acknowledged THEN (sent + n) % KReceive ELSE sent
  /\ UNCHANGED <<pktdis, stalled, transfer, got>>

HostResets ==
  /\ Resets /\ BusReady
  /\ urstif' = TRUE
  /\ transfer' = NoTransfer /\ host_sequence' = 0 /\ unacknowledged' = -1
  /\ UNCHANGED <<deviceVars, uown, stat, pktdis, stalled, fatal, appVars, sent, got>>

-----------------------------------------------------------------------------
Application == CallGet \/ CallPut \/ circularBufferRead \/ streamGetOneByte \/ streamPutOneByte

USBHandler ==
  \/ getReport \/ setReport \/ getDescriptor \/ setConfiguration \/ protocolStall
  \/ controlReceiveCallback \/ controlTransmitCallback
  \/ ep1TransmitCallback \/ ep2ReceiveCallback
  \/ usbHALReset

ControlTransactions ==
  \/ HostReadsData \/ HostReadsStatus \/ HostSeesStall
  \/ \E acknowledged \in BOOLEAN : HostWritesData(acknowledged) \/ HostWritesStatus(acknowledged)

Host ==
  \/ \E r \in Requests : HostSetup(r)
  \/ ControlTransactions
  \/ HostPolls
  \/ \E n \in 0 .. MAX_PACKET_SIZE - 1, acknowledged \in BOOLEAN : HostWrites(n, acknowledged)
  \/ HostResets

Next == (Application \/ USBHandler \/ Host) /\ UNCHANGED env

Spec == Init /\ [][Next]_<<env, vars>>

-----------------------------------------------------------------------------
(* Properties.                                                              *)

Byte(k) == 0 .. k - 1
IsFIFO(s, n, k) == s \in Seq(Byte(k)) /\ Len(s) <= n
Entry ==
       [ev : {"in0", "in1"}]
  \cup [ev : {"setup"}, req : Request(MAX_PACKET_SIZE)]
  \cup [ev : {"out0"}, toggle : {1}, id : NoReport .. MAX_PACKET_SIZE - 1, good : BOOLEAN,
        data : Seq(Byte(KReceive))]
  \cup [ev : {"out2"}, toggle : {0, 1}, data : Seq(Byte(KReceive))]

\* Every variable keeps its type; in particular the FIFOs stay within their
\* sizes, and U1STAT within the one entry per buffer descriptor that it can hold.
TypeOK ==
  /\ IsFIFO(transmit_fifo, TRANSMIT_FIFO_SIZE, KTransmit)
  /\ IsFIFO(receive_fifo, RECEIVE_FIFO_SIZE, KReceive)
  /\ {interrupt_transmit_queued, interrupt_receive_queued, do_control_receive_queue,
      do_build_transmit_report, pktdis, stalled, urstif, fatal} \subseteq BOOLEAN
  /\ IsFIFO(interrupt_packet, MAX_PACKET_SIZE - 1, KTransmit)
  /\ IsFIFO(report, MAX_PACKET_SIZE - 1, KTransmit)
  /\ expect_control_report \in NoReport .. MAX_PACKET_SIZE - 1
  /\ desired_transmit_report_length \in 0 .. MAX_PACKET_SIZE
  /\ configuration \in {0, 1}
  /\ current_stage \in {"SETUP", "DATA", "STATUS"}
  /\ transmit_remaining \in {0} \cup MAX_PACKET_SIZE .. 2 * MAX_PACKET_SIZE
  /\ data_sequence \in [{0, 2} -> {0, 1}]
  /\ uown \subseteq {"rx0", "tx0", "tx1", "rx2"}
  /\ Len(stat) <= 4 /\ \A i \in 1 .. Len(stat) : stat[i] \in Entry
  /\ pc \in {"ready", "reading", "read", "writing"}
  /\ {taken, sent} \subseteq Byte(KReceive) /\ {put, got} \subseteq Byte(KTransmit)
  /\ transfer.phase \in {"none", "dataIn", "dataOut", "statusIn", "statusOut"}
  /\ transfer.req \in Request(MAX_PACKET_SIZE) /\ transfer.left \in 0 .. 2 * MAX_PACKET_SIZE
  /\ host_sequence \in {0, 1} /\ unacknowledged \in -1 .. MAX_PACKET_SIZE - 1

Pending(ev) == \E i \in 1 .. Len(stat) : stat[i].ev = ev

\* The flags that usb_hid_stream.c keeps agree with the USB module.  A packet of
\* an interrupt endpoint is marked as queued exactly while the module owns its buffer
\* or its completion waits for the handler; otherwise a second packet would be
\* queued over the first, or none ever again.  A "Set Report" whose data the
\* driver is still to accept is either waiting for streamGetOneByte(), with the endpoint
\* not ready, or the endpoint is ready or its packet has arrived, and the transfer is
\* in its Data stage.
FlagsMatchHardware ==
  /\ interrupt_transmit_queued <=> ("tx1" \in uown \/ Pending("in1"))
  /\ interrupt_receive_queued <=> ("rx2" \in uown \/ Pending("out2"))
  /\ do_control_receive_queue => expect_control_report # NoReport /\ "rx0" \notin uown
  /\ expect_control_report # NoReport /\ ~do_control_receive_queue =>
        "rx0" \in uown \/ Pending("out0") \/ Pending("setup")
  /\ expect_control_report # NoReport => current_stage = "DATA"

\* The receives that are queued at the moment, each of which may bring a
\* full report.
QueuedReceives == (IF interrupt_receive_queued THEN 1 ELSE 0)
                + (IF expect_control_report # NoReport /\ ~do_control_receive_queue THEN 1 ELSE 0)

\* "There should always be enough space, since a receive is never queued unless
\* there is enough space" (transferIntoReceiveFIFO): whatever is in the receive
\* FIFO, full reports on all the queued receives still fit.
ReceiveFits ==
  Len(receive_fifo) + QueuedReceives * (MAX_PACKET_SIZE - 1) <= RECEIVE_FIFO_SIZE

\* No "This should never happen" of the driver happens.
NoFatalError == ~fatal

\* The application gets what the host sent, in order, nothing lost and nothing
\* twice: the FIFO continues where the application stopped, and when nothing is
\* under way it ends where the host stopped.
ReceivedInOrder ==
  /\ receive_fifo = Bytes(taken, Len(receive_fifo), KReceive)
  /\ stat = <<>> /\ unacknowledged = -1 /\ ~fatal =>
        (taken + Len(receive_fifo)) % KReceive = sent

\* The host gets what the application put, in order, nothing lost and nothing
\* twice, although "Get Report" takes bytes back out of a packet that is already queued.
TransmittedInOrder ==
  LET reading == \/ do_build_transmit_report
                 \/ "tx0" \in uown /\ transfer.req.kind = "GetReport" /\ transfer.phase = "dataIn"
      packet == IF "tx1" \in uown THEN interrupt_packet ELSE <<>>
      underway == (IF reading THEN report ELSE <<>>) \o packet \o transmit_fifo
  IN  /\ underway = Bytes(got, Len(underway), KTransmit)
      /\ (got + Len(underway)) % KTransmit = put

\* Hosts that configure the device once and never reset the bus, and among them those
\* that abandon no control transfer, miss no acknowledgement of endpoint 0, and do not
\* ask for exactly as much of a descriptor as fills its packets, after which the
\* driver would still queue an empty one.
ConfiguresOnce == ~Resets /\ \A r \in Requests : r.kind = "SetConfiguration" => r.n = 1
WellBehaved ==
  /\ ConfiguresOnce /\ ~Aborts /\ 0 \notin LosesAcks
  /\ \A r \in Requests : r.kind = "GetDescriptor" /\ r.exact =>
        r.n \notin {MAX_PACKET_SIZE, 2 * MAX_PACKET_SIZE}

\* With any host, FIFOs, packets and U1STAT stay within their sizes (TypeOK).  With one
\* that configures the device once, there is always room for the reports that may come.
ReportsFit == TypeOK /\ (ConfiguresOnce => ReceiveFits)

\* No "This should never happen" of the driver happens, with a well-behaved host.
NothingFatal == WellBehaved => NoFatalError

\* With such a host that uses one endpoint at a time, bytes arrive once and in order: those
\* of the host in the application, although acknowledgements of endpoint 2 are lost,
\* and those of the application in the host, although "Get Report" takes them back
\* out of packets that are queued.
BytesInOrder == WellBehaved /\ ~Simultaneous => ReceivedInOrder /\ TransmittedInOrder

-----------------------------------------------------------------------------
(* Liveness.  The interrupt handler runs when its interrupt is pending; the     *)
(* application goes on whenever its wait is over, because Timer2 wakes it         *)
(* even if the interrupt it waited for came before it idled, and it keeps         *)
(* reading requests and sending responses, as processPacket() does; the host      *)
(* carries on with its control transfers, polls endpoint 1 and writes to          *)
(* endpoint 2 as often as the device lets it.                                     *)
Fairness ==
  /\ WF_vars(USBHandler)
  /\ WF_vars(circularBufferRead) /\ WF_vars(streamGetOneByte) /\ WF_vars(streamPutOneByte)
  /\ SF_vars(CallGet) /\ SF_vars(CallPut)
  /\ WF_vars(ControlTransactions)
  /\ SF_vars(HostPolls)
  /\ SF_vars(\E n \in 1 .. MAX_PACKET_SIZE - 1 : HostWrites(n, TRUE))

FairSpec == Spec /\ Fairness

\* streamGetOneByte() and streamPutOneByte() return: neither waits for ever on
\* a FIFO that nobody will fill or empty.
CallsReturn ==
  /\ (pc = "reading" /\ configuration = 1) ~> (pc = "ready")
  /\ pc = "writing" ~> pc = "ready"

\* A control transfer that the host does not abandon ends, even a "Set Report" that
\* found the receive FIFO full.
TransfersEnd == (transfer.phase # "none") ~> (transfer.phase = "none")
=============================================================================
