-------------------------- MODULE HidStream_proofs --------------------------
(***************************************************************************)
(* With any host, for every size of packet and FIFO, and every stream: the *)
(* flags of usb_hid_stream.c agree with the USB module, and its variables  *)
(* keep their types and sizes.                                             *)
(***************************************************************************)
EXTENDS HidStream, TLAPS

\* The buffer descriptor that a completed transaction gave back.
Buffer(ev) ==
  CASE ev = "setup" -> "rx0" [] ev = "out0" -> "rx0" [] ev = "in0" -> "tx0"
    [] ev = "in1" -> "tx1" [] ev = "out2" -> "rx2"

Events == {"setup", "out0", "in0", "in1", "out2"}

IsSeq(s) == \E S : s \in Seq(S)

\* What is known of an entry of U1STAT by itself.
IsEntry(e) ==
  /\ e.ev \in Events
  /\ e.ev = "out0" => e.toggle = 1
  /\ e.ev = "setup" => e.req \in Request(MAX_PACKET_SIZE)

\* U1STAT: a SETUP packet is the last entry, since it disables packet processing,
\* and the host waits for the answer to it.  A descriptor is given back once; only
\* on the transmitting side of the control endpoint may a stale packet interfere.
Queue ==
  /\ IsSeq(stat)
  /\ \A i \in 1 .. Len(stat) :
        /\ IsEntry(stat[i])
        /\ stat[i].ev = "setup" =>
              i = Len(stat) /\ pktdis /\ transfer.phase = FirstPhase(stat[i].req)
        /\ stat[i].ev # "in0" =>
              /\ Buffer(stat[i].ev) \notin uown
              /\ \A j \in 1 .. Len(stat) : j # i => Buffer(stat[j].ev) # Buffer(stat[i].ev)

Types ==
  /\ env \in Environments
  /\ configuration \in {0, 1}
  /\ interrupt_transmit_queued \in BOOLEAN /\ interrupt_receive_queued \in BOOLEAN
  /\ do_control_receive_queue \in BOOLEAN /\ pktdis \in BOOLEAN
  /\ data_sequence \in [{0, 2} -> Int]

\* The interrupt endpoints are idle while the device is not configured.
Disabled ==
  configuration = 0 =>
    uown \cap {"tx1", "rx2"} = {} /\ ~Pending("in1") /\ ~Pending("out2")

\* A "Set Report" is waited for.  The toggle is that of its packet, and that packet
\* is handled before the host reads anything on the control endpoint.
Expecting ==
  expect_control_report # NoReport =>
    /\ data_sequence[0] = 1
    /\ transfer.phase \in {"dataOut", "none"} \/ Pending("out0") \/ Pending("setup")
    /\ \A i \in 1 .. Len(stat) :
          stat[i].ev = "in0" => \E j \in 1 .. i - 1 : stat[j].ev = "out0"

\* Until streamGetOneByte() has made room, nothing comes on the control endpoint.
Postponed == do_control_receive_queue => ~Pending("out0") /\ ~Pending("setup")

IInv == Types /\ Queue /\ Disabled /\ Expecting /\ Postponed /\ FlagsMatchHardware

-----------------------------------------------------------------------------
(* U1STAT as a sequence.                                                    *)

LEMMA Appended ==
  ASSUME NEW s, NEW e, IsSeq(s)
  PROVE  /\ IsSeq(Append(s, e)) /\ Len(s) \in Nat /\ Len(Append(s, e)) = Len(s) + 1
         /\ \A i \in 1 .. Len(s) : Append(s, e)[i] = s[i]
         /\ Append(s, e)[Len(s) + 1] = e
<1>1. PICK S : s \in Seq(S)
  BY Zenon DEF IsSeq
<1>2. s \in Seq(S \cup {e}) /\ e \in S \cup {e}
  BY <1>1
<1>. QED BY <1>2 DEF IsSeq

LEMMA WithoutHead ==
  ASSUME NEW s, IsSeq(s), s # <<>>
  PROVE  /\ IsSeq(Tail(s)) /\ Len(s) \in Nat \ {0} /\ Len(Tail(s)) = Len(s) - 1
         /\ \A i \in 1 .. Len(s) - 1 : Tail(s)[i] = s[i + 1]
         /\ Head(s) = s[1]
<1>1. PICK S : s \in Seq(S)
  BY Zenon DEF IsSeq
<1>. QED BY <1>1 DEF IsSeq

LEMMA Buffers ==
  /\ Buffer("setup") = "rx0" /\ Buffer("out0") = "rx0" /\ Buffer("in0") = "tx0"
  /\ Buffer("in1") = "tx1" /\ Buffer("out2") = "rx2"
BY Zenon DEF Buffer

\* A step that leaves alone what the invariant speaks of.
LEMMA Unaffected ==
  ASSUME IInv,
         UNCHANGED <<env, configuration, interrupt_transmit_queued, interrupt_receive_queued,
                     do_control_receive_queue, expect_control_report, current_stage,
                     data_sequence, uown, stat, pktdis, transfer>>
  PROVE  IInv'
<1>1. \A ev : Pending(ev)' <=> Pending(ev)
  BY Zenon DEF Pending
<1>2. \A e : IsEntry(e)' <=> IsEntry(e)
  BY Zenon DEF IsEntry, MAX_PACKET_SIZE
<1>3. Types' /\ Queue'
  BY Zenon, <1>2 DEF IInv, Types, Queue
<1>4. Disabled' /\ Expecting' /\ Postponed'
  BY Zenon, <1>1 DEF IInv, Disabled, Expecting, Postponed
<1>5. FlagsMatchHardware'
  BY Zenon, <1>1 DEF IInv, FlagsMatchHardware
<1>. QED BY Zenon, <1>3, <1>4, <1>5 DEF IInv

-----------------------------------------------------------------------------
(* The host.                                                                *)

\* What is common to the transactions: a descriptor is given back.
LEMMA TransactInvariant ==
  ASSUME IInv, NEW bd, NEW e, Transact(bd, e), env' = env,
         IsEntry(e), bd = Buffer(e.ev),
         e.ev = "setup" => pktdis' = TRUE /\ transfer'.phase = FirstPhase(e.req),
         e.ev # "setup" => pktdis' = pktdis,
         e.ev \in {"in1", "out2"} => configuration = 1,
         expect_control_report # NoReport =>
            /\ e.ev = "in0" => Pending("out0")
            /\ transfer'.phase \in {"dataOut", "none"} \/ e.ev \in {"out0", "setup"} \/ Pending("out0")
  PROVE  IInv'
<1>1. /\ ~pktdis /\ bd \in uown /\ uown' = uown \ {bd} /\ stat' = Append(stat, e)
      /\ UNCHANGED <<env, configuration, interrupt_transmit_queued, interrupt_receive_queued,
                     do_control_receive_queue, expect_control_report, current_stage, data_sequence>>
  BY Zenon DEF Transact, BusReady, deviceVars, interruptVars, setReportVars, controlVars
<1>. DEFINE n == Len(stat)
<1>2. /\ IsSeq(stat') /\ n \in Nat /\ Len(stat') = n + 1
      /\ \A i \in 1 .. n : stat'[i] = stat[i]
      /\ stat'[n + 1] = e
  BY <1>1, Appended DEF IInv, Queue
<1>3. \A ev : Pending(ev)' <=> Pending(ev) \/ ev = e.ev
  BY <1>2 DEF Pending
<1>4. \A x : IsEntry(x)' <=> IsEntry(x)
  BY Zenon, <1>1 DEF IsEntry, MAX_PACKET_SIZE
<1>5. \A i \in 1 .. n :
         /\ IsEntry(stat[i]) /\ stat[i].ev # "setup"
         /\ stat[i].ev # "in0" =>
               /\ Buffer(stat[i].ev) \notin uown
               /\ \A j \in 1 .. n : j # i => Buffer(stat[j].ev) # Buffer(stat[i].ev)
  BY Zenon, <1>1 DEF IInv, Queue
<1>6. \A i \in 1 .. n : Buffer(stat[i].ev) = bd => stat[i].ev = "in0" /\ e.ev = "in0"
  <2>. SUFFICES ASSUME NEW i \in 1 .. n, Buffer(stat[i].ev) = bd
                PROVE  stat[i].ev = "in0" /\ e.ev = "in0"
    BY Zenon
  <2>1. stat[i].ev = "in0"
    BY Zenon, <1>1, <1>5
  <2>. QED BY Zenon, <2>1, Buffers DEF IsEntry, Events
<1>7. Queue'
  <2>. SUFFICES ASSUME NEW i \in 1 .. n + 1
                PROVE  /\ IsEntry(stat'[i])
                       /\ stat'[i].ev = "setup" =>
                             i = n + 1 /\ pktdis' /\ transfer'.phase = FirstPhase(stat'[i].req)
                       /\ stat'[i].ev # "in0" =>
                             /\ Buffer(stat'[i].ev) \notin uown'
                             /\ \A j \in 1 .. n + 1 : j # i => Buffer(stat'[j].ev) # Buffer(stat'[i].ev)
    BY Zenon, <1>2, <1>4 DEF Queue
  <2>1. CASE i = n + 1
    BY <2>1, <1>1, <1>2, <1>6
  <2>2. CASE i \in 1 .. n
    <3>1. stat'[i] = stat[i] /\ i # n + 1
      BY <1>2, <2>2
    <3>2. stat[i].ev # "in0" => Buffer(stat[i].ev) # bd
      BY Zenon, <1>6, <2>2
    <3>3. ASSUME stat[i].ev # "in0", NEW j \in 1 .. n + 1, j # i
          PROVE  Buffer(stat'[j].ev) # Buffer(stat[i].ev)
      <4>1. CASE j = n + 1
        BY Zenon, <1>2, <3>2, <3>3, <4>1
      <4>2. CASE j \in 1 .. n
        BY Zenon, <1>2, <1>5, <2>2, <3>3, <4>2
      <4>. QED BY <4>1, <4>2, <1>2
    <3>4. IsEntry(stat[i]) /\ stat[i].ev # "setup"
      BY Zenon, <1>5, <2>2
    <3>5. stat[i].ev # "in0" => Buffer(stat[i].ev) \notin uown'
      BY Zenon, <1>1, <1>5, <2>2
    <3>. QED BY Zenon, <3>1, <3>3, <3>4, <3>5
  <2>. QED BY <2>1, <2>2, <1>2
<1>8. Types'
  BY Zenon, <1>1 DEF IInv, Types
<1>9. Disabled'
  BY <1>1, <1>3 DEF IInv, Disabled
<1>10. Expecting'
  <2>. SUFFICES ASSUME expect_control_report # NoReport
                PROVE  /\ data_sequence[0] = 1
                       /\ transfer'.phase \in {"dataOut", "none"} \/ Pending("out0")' \/ Pending("setup")'
                       /\ \A i \in 1 .. n + 1 :
                             stat'[i].ev = "in0" => \E j \in 1 .. i - 1 : stat'[j].ev = "out0"
    BY Zenon, <1>1, <1>2 DEF Expecting
  <2>1. data_sequence[0] = 1
    BY Zenon DEF IInv, Expecting
  <2>2. transfer'.phase \in {"dataOut", "none"} \/ Pending("out0")' \/ Pending("setup")'
    BY Zenon, <1>3
  <2>3. ASSUME NEW i \in 1 .. n + 1, stat'[i].ev = "in0"
        PROVE  \E j \in 1 .. i - 1 : stat'[j].ev = "out0"
    <3>1. CASE i = n + 1
      <4>1. Pending("out0")
        BY Zenon, <1>2, <2>3, <3>1
      <4>2. PICK j \in 1 .. n : stat[j].ev = "out0"
        BY Zenon, <4>1 DEF Pending
      <4>. QED BY <4>2, <3>1, <1>2
    <3>2. CASE i \in 1 .. n
      <4>1. PICK j \in 1 .. i - 1 : stat[j].ev = "out0"
        BY Zenon, <1>2, <2>3, <3>2 DEF IInv, Expecting
      <4>2. j \in 1 .. n
        BY <1>2, <3>2, <4>1
      <4>. QED BY Zenon, <4>1, <4>2, <1>2
    <3>. QED BY <3>1, <3>2, <1>2
  <2>. QED BY Zenon, <2>1, <2>2, <2>3
<1>11. e.ev \in {"out0", "setup"} => ~do_control_receive_queue
  BY Zenon, <1>1, Buffers DEF IInv, FlagsMatchHardware
<1>12. Postponed'
  BY Zenon, <1>1, <1>3, <1>11 DEF IInv, Postponed
<1>13. FlagsMatchHardware'
  <2>1. e.ev \in Events
    BY Zenon DEF IsEntry
  <2>2. "tx1" \in uown' \/ Pending("in1")' <=> "tx1" \in uown \/ Pending("in1")
    BY Zenon, <1>1, <1>3, <2>1, Buffers DEF Events
  <2>3. "rx2" \in uown' \/ Pending("out2")' <=> "rx2" \in uown \/ Pending("out2")
    BY Zenon, <1>1, <1>3, <2>1, Buffers DEF Events
  <2>4. "rx0" \in uown => "rx0" \in uown' \/ Pending("out0")' \/ Pending("setup")'
    BY Zenon, <1>1, <1>3, <2>1, Buffers DEF Events
  <2>. QED BY Zenon, <1>1, <1>3, <2>2, <2>3, <2>4 DEF IInv, FlagsMatchHardware
<1>. QED BY Zenon, <1>7, <1>8, <1>9, <1>10, <1>12, <1>13 DEF IInv

\* While packets are processed, what is expected comes next from the host.
LEMMA StillExpected ==
  ASSUME IInv, ~pktdis, expect_control_report # NoReport
  PROVE  transfer.phase \in {"dataOut", "none"} \/ Pending("out0")
<1>1. ~Pending("setup")
  BY Zenon DEF IInv, Queue, Pending
<1>. QED BY Zenon, <1>1 DEF IInv, Expecting

LEMMA HostControlInvariant ==
  ASSUME IInv, env' = env, HidAssumption,
         \/ \E r \in Requests : HostSetup(r)
         \/ HostReadsData \/ HostReadsStatus
         \/ \E acknowledged \in BOOLEAN : HostWritesData(acknowledged) \/ HostWritesStatus(acknowledged)
  PROVE  IInv'
<1>1. ASSUME NEW r \in Requests, HostSetup(r) PROVE IInv'
  <2>. DEFINE e == [ev |-> "setup", req |-> r]
  <2>1. r \in Request(MAX_PACKET_SIZE)
    BY Zenon DEF IInv, Types, HidAssumption, Requests, MAX_PACKET_SIZE
  <2>2. e.ev = "setup" /\ e.req = r /\ Transact("rx0", e)
    BY Zenon, <1>1 DEF HostSetup
  <2>3. pktdis' = TRUE /\ transfer'.phase = FirstPhase(r)
    BY Zenon, <1>1 DEF HostSetup
  <2>. HIDE DEF e
  <2>4. IsEntry(e)
    BY Zenon, <2>1, <2>2 DEF IsEntry, Events
  <2>. QED BY Zenon, <2>2, <2>3, <2>4, Buffers, TransactInvariant
<1>2. ASSUME HostReadsData \/ HostReadsStatus PROVE IInv'
  <2>. DEFINE e == [ev |-> "in0"]
  <2>1. /\ e.ev = "in0" /\ Transact("tx0", e) /\ pktdis' = pktdis
        /\ transfer.phase \in {"dataIn", "statusIn"}
    BY Zenon, <1>2 DEF HostReadsData, HostReadsStatus
  <2>. HIDE DEF e
  <2>2. expect_control_report # NoReport => Pending("out0")
    BY Zenon, <2>1, StillExpected DEF Transact, BusReady
  <2>3. IsEntry(e)
    BY Zenon, <2>1 DEF IsEntry, Events
  <2>. QED BY Zenon, <2>1, <2>2, <2>3, Buffers, TransactInvariant
<1>3. ASSUME NEW acknowledged \in BOOLEAN,
             HostWritesData(acknowledged) \/ HostWritesStatus(acknowledged)
      PROVE  IInv'
  <2>1. PICK e : e.ev = "out0" /\ e.toggle = 1 /\ Transact("rx0", e) /\ pktdis' = pktdis
    <3>1. CASE HostWritesData(acknowledged)
      BY Zenon, <3>1 DEF HostWritesData
    <3>2. CASE HostWritesStatus(acknowledged)
      BY Zenon, <3>2 DEF HostWritesStatus
    <3>. QED BY Zenon, <1>3, <3>1, <3>2
  <2>2. IsEntry(e)
    BY Zenon, <2>1 DEF IsEntry, Events
  <2>. QED BY Zenon, <2>1, <2>2, Buffers, TransactInvariant
<1>. QED BY Zenon, <1>1, <1>2, <1>3

LEMMA HostInterruptInvariant ==
  ASSUME IInv, env' = env,
         \/ HostPolls
         \/ \E n \in 0 .. MAX_PACKET_SIZE - 1, acknowledged \in BOOLEAN : HostWrites(n, acknowledged)
  PROVE  IInv'
<1>1. PICK bd, e : /\ e.ev \in {"in1", "out2"} /\ bd = Buffer(e.ev) /\ Transact(bd, e)
                   /\ pktdis' = pktdis /\ transfer' = transfer /\ configuration = 1
  <2>1. CASE HostPolls
    BY Zenon, <2>1, Buffers DEF HostPolls, UsesInterruptEndpoints
  <2>2. ASSUME NEW n, NEW acknowledged, HostWrites(n, acknowledged)
        PROVE  \E e : /\ e.ev = "out2" /\ Transact("rx2", e)
                      /\ pktdis' = pktdis /\ transfer' = transfer /\ configuration = 1
    BY Zenon, <2>2 DEF HostWrites, UsesInterruptEndpoints
  <2>. QED BY Zenon, <2>1, <2>2, Buffers
<1>2. expect_control_report # NoReport => transfer.phase \in {"dataOut", "none"} \/ Pending("out0")
  BY Zenon, <1>1, StillExpected DEF Transact, BusReady
<1>3. IsEntry(e)
  BY Zenon, <1>1 DEF IsEntry, Events
<1>. QED BY Zenon, <1>1, <1>2, <1>3, TransactInvariant

\* A stall or a bus reset ends the transfer for the host.
LEMMA HostEndsInvariant ==
  ASSUME IInv, env' = env, HostSeesStall \/ HostResets
  PROVE  IInv'
<1>1. /\ ~pktdis /\ transfer'.phase = "none"
      /\ UNCHANGED <<env, configuration, interrupt_transmit_queued, interrupt_receive_queued,
                     do_control_receive_queue, expect_control_report, current_stage,
                     data_sequence, uown, stat, pktdis>>
  BY DEF HostSeesStall, HostResets, BusReady, NoTransfer, deviceVars, interruptVars,
         setReportVars, controlVars, busVars
<1>2. \A ev : Pending(ev)' <=> Pending(ev)
  BY Zenon, <1>1 DEF Pending
<1>3. \A e : IsEntry(e)' <=> IsEntry(e)
  BY Zenon, <1>1 DEF IsEntry, MAX_PACKET_SIZE
<1>4. Types' /\ Queue'
  BY Zenon, <1>1, <1>3 DEF IInv, Types, Queue
<1>5. Disabled' /\ Expecting' /\ Postponed'
  BY Zenon, <1>1, <1>2 DEF IInv, Disabled, Expecting, Postponed
<1>6. FlagsMatchHardware'
  BY Zenon, <1>1, <1>2 DEF IInv, FlagsMatchHardware
<1>. QED BY Zenon, <1>4, <1>5, <1>6 DEF IInv

-----------------------------------------------------------------------------
(* The interrupt handler: SETUP packets.                                    *)

\* A SETUP packet is handled when nothing else waits.
LEMMA SetupAlone ==
  ASSUME IInv, Handling("setup")
  PROVE  /\ IsEntry(Head(stat)) /\ transfer.phase = FirstPhase(Head(stat).req)
         /\ "rx0" \notin uown
         /\ interrupt_transmit_queued <=> "tx1" \in uown
         /\ interrupt_receive_queued <=> "rx2" \in uown
         /\ IsSeq(Tail(stat)) /\ Len(Tail(stat)) = 0
<1>1. stat # <<>> /\ Head(stat).ev = "setup" /\ IsSeq(stat)
  BY Zenon DEF Handling, IInv, Queue
<1>2. /\ Len(stat) \in Nat \ {0} /\ Head(stat) = stat[1]
      /\ IsSeq(Tail(stat)) /\ Len(Tail(stat)) = Len(stat) - 1
  BY Zenon, <1>1, WithoutHead
<1>3. stat[1].ev = "setup"
  BY Zenon, <1>1, <1>2
<1>4. 1 \in 1 .. Len(stat)
  BY <1>2
<1>5. /\ IsEntry(stat[1]) /\ Len(stat) = 1 /\ transfer.phase = FirstPhase(stat[1].req)
      /\ Buffer(stat[1].ev) \notin uown
  BY Zenon, <1>3, <1>4 DEF IInv, Queue
<1>6. ~Pending("in1") /\ ~Pending("out2")
  BY <1>3, <1>5 DEF Pending
<1>7. /\ interrupt_transmit_queued <=> "tx1" \in uown
      /\ interrupt_receive_queued <=> "rx2" \in uown
  BY Zenon, <1>6 DEF IInv, FlagsMatchHardware
<1>8. "rx0" \notin uown
  BY Zenon, <1>3, <1>5, Buffers
<1>9. Len(Tail(stat)) = 0
  BY <1>2, <1>5
<1>. QED BY Zenon, <1>2, <1>5, <1>7, <1>8, <1>9

\* What the invariant says when nothing waits.
LEMMA NothingWaits ==
  ASSUME Types', IsSeq(stat'), Len(stat') = 0,
         interrupt_transmit_queued' <=> "tx1" \in uown',
         interrupt_receive_queued' <=> "rx2" \in uown',
         configuration' = 0 => "tx1" \notin uown' /\ "rx2" \notin uown',
         do_control_receive_queue' => expect_control_report' # NoReport /\ "rx0" \notin uown',
         expect_control_report' # NoReport =>
            /\ data_sequence'[0] = 1 /\ current_stage' = "DATA"
            /\ transfer'.phase \in {"dataOut", "none"}
            /\ do_control_receive_queue' \/ "rx0" \in uown'
  PROVE  IInv'
<1>1. \A ev : ~Pending(ev)'
  BY DEF Pending
<1>2. Queue' /\ Disabled' /\ Postponed'
  BY <1>1 DEF Queue, Disabled, Postponed
<1>3. Expecting'
  BY DEF Expecting
<1>4. FlagsMatchHardware'
  BY Zenon, <1>1 DEF FlagsMatchHardware
<1>. QED BY Zenon, <1>2, <1>3, <1>4 DEF IInv

LEMMA FatalInvariant == ASSUME IInv, env' = env, usbFatalError PROVE IInv'
<1>1. UNCHANGED <<env, configuration, interrupt_transmit_queued, interrupt_receive_queued,
                  do_control_receive_queue, expect_control_report, current_stage,
                  data_sequence, uown, stat, pktdis, transfer>>
  BY Zenon DEF usbFatalError, deviceVars, interruptVars, setReportVars, controlVars, busVars, hostVars
<1>. QED BY Zenon, <1>1, Unaffected

\* Nothing is left of no bytes.
LEMMA DropNothing == ASSUME NEW n \in Nat PROVE Drop(<<>>, n) = <<>>
BY DEF Drop, Least

\* "Get Report" and the packet on endpoint 1: what is left of it stays queued, or
\* else the next packet is queued or none.
LEMMA GetReportInvariant == ASSUME IInv, env' = env, getReport PROVE IInv'
<1>. DEFINE n == Head(stat).req.n
            packet == Drop(QueuedPacket, n)
            fifo == Drop(transmit_fifo, n - Least(n, Len(QueuedPacket)))
            owned == IF packet = <<>> THEN uown \ {"tx1"} ELSE uown
            complete == n <= Len(PacketThenFIFO)
            failed == \/ n > 0 /\ interrupt_transmit_queued /\ "tx1" \notin uown
                      \/ complete /\ "tx0" \in uown
                      \/ Refilled(packet) /\ CannotFill(fifo, owned)
                      \/ "rx0" \in uown
<1>1. Handling("setup") /\ Head(stat).req.kind = "GetReport"
  BY Zenon DEF getReport, Setup
<1>2. /\ IsEntry(Head(stat))
      /\ interrupt_transmit_queued <=> "tx1" \in uown
      /\ interrupt_receive_queued <=> "rx2" \in uown
      /\ IsSeq(Tail(stat)) /\ Len(Tail(stat)) = 0
  BY Zenon, <1>1, SetupAlone
<1>3. n \in Nat
  <2>1. Head(stat).req \in Request(MAX_PACKET_SIZE)
    BY Zenon, <1>1, <1>2 DEF IsEntry, Handling
  <2>2. MAX_PACKET_SIZE \in Nat
    BY Zenon, HidAssumption DEF IInv, Types, MAX_PACKET_SIZE
  <2>. QED BY <2>1, <2>2 DEF Request
<1>4. CASE failed
  <2>1. usbFatalError
    BY Zenon, <1>4 DEF getReport
  <2>. QED BY Zenon, <2>1, FatalInvariant
<1>5. CASE ~failed
  <2>1. /\ IF Refilled(packet)
             THEN FillTransmitPacketBufferAndTransmit(fifo)
             ELSE interrupt_transmit_queued' = (packet # <<>>)
        /\ uown' = owned \cup {"rx0"} \cup (IF complete THEN {"tx0"} ELSE {})
                         \cup (IF Refilled(packet) THEN FilledOwner(fifo) ELSE {})
        /\ AbortSetReport /\ SetupDone
        /\ UNCHANGED <<interrupt_receive_queued, configuration>>
    BY Zenon, <1>5 DEF getReport
  <2>2. stat' = Tail(stat) /\ pktdis' = FALSE /\ data_sequence' \in [{0, 2} -> Int]
    BY <2>1 DEF SetupDone, IInv, Types
  <2>3. do_control_receive_queue' = FALSE /\ expect_control_report' = NoReport
    BY Zenon, <2>1 DEF AbortSetReport
  <2>4. packet # <<>> => interrupt_transmit_queued
    BY Zenon, <1>3, DropNothing DEF QueuedPacket
  <2>5. Refilled(packet) <=> packet = <<>>
    BY Zenon DEF Refilled
  <2>6. FilledOwner(fifo) = IF fifo # <<>> THEN {"tx1"} ELSE {}
    BY Zenon DEF FilledOwner
  <2>7. packet = <<>> => interrupt_transmit_queued' = (fifo # <<>>)
    BY Zenon, <2>1, <2>5 DEF FillTransmitPacketBufferAndTransmit
  <2>8. packet = <<>> /\ fifo # <<>> => configuration = 1
    BY Zenon, <1>5, <2>5 DEF CannotFill, IInv, Types
  <2>. HIDE DEF packet, fifo, complete
  <2>9. /\ interrupt_transmit_queued' <=> "tx1" \in uown'
        /\ interrupt_transmit_queued' \in BOOLEAN
    <3>1. CASE packet = <<>>
      BY Zenon, <3>1, <2>1, <2>5, <2>6, <2>7
    <3>2. CASE packet # <<>>
      BY Zenon, <3>2, <1>2, <2>1, <2>4, <2>5
    <3>. QED BY Zenon, <3>1, <3>2
  <2>10. "rx2" \in uown' <=> "rx2" \in uown
    BY <2>1, <2>6
  <2>11. configuration = 0 => "tx1" \notin uown' /\ "rx2" \notin uown'
    BY <2>1, <2>5, <2>6, <2>8, <2>10 DEF IInv, Disabled
  <2>12. Types'
    BY Zenon, <2>1, <2>2, <2>3, <2>9 DEF IInv, Types
  <2>. QED BY Zenon, <1>2, <2>1, <2>2, <2>3, <2>9, <2>10, <2>11, <2>12, NothingWaits
<1>. QED BY Zenon, <1>4, <1>5

\* "Set Report": the endpoint is made ready now, or streamGetOneByte() will do it.
LEMMA SetReportInvariant == ASSUME IInv, env' = env, setReport PROVE IInv'
<1>1. Handling("setup") /\ Head(stat).req.kind = "SetReport"
  BY Zenon DEF setReport, Setup
<1>2. /\ IsEntry(Head(stat)) /\ transfer.phase = FirstPhase(Head(stat).req)
      /\ "rx0" \notin uown
      /\ interrupt_transmit_queued <=> "tx1" \in uown
      /\ interrupt_receive_queued <=> "rx2" \in uown
      /\ IsSeq(Tail(stat)) /\ Len(Tail(stat)) = 0
  BY Zenon, <1>1, SetupAlone
<1>3. transfer.phase = "dataOut"
  BY Zenon, <1>1, <1>2 DEF FirstPhase
<1>4. /\ do_control_receive_queue' = ~HasHeadroom(receive_fifo)
      /\ uown' = uown \cup (IF HasHeadroom(receive_fifo) THEN {"rx0"} ELSE {})
      /\ current_stage' = "DATA"
      /\ expect_control_report' = Head(stat).req.n
      /\ SetupDone
      /\ UNCHANGED <<interrupt_transmit_queued, interrupt_receive_queued, configuration>>
  BY Zenon, <1>2 DEF setReport, interruptVars
<1>5. expect_control_report' # NoReport
  <2>1. Head(stat).req \in Request(MAX_PACKET_SIZE)
    BY Zenon, <1>1, <1>2 DEF IsEntry, Handling
  <2>2. MAX_PACKET_SIZE \in Nat
    BY Zenon, HidAssumption DEF IInv, Types, MAX_PACKET_SIZE
  <2>3. Head(stat).req.n \in Nat
    BY <2>1, <2>2 DEF Request
  <2>. QED BY <1>4, <2>3 DEF NoReport
<1>6. /\ stat' = Tail(stat) /\ pktdis' = FALSE /\ transfer' = transfer
      /\ data_sequence' \in [{0, 2} -> Int] /\ data_sequence'[0] = 1
  BY <1>4 DEF SetupDone, hostVars, IInv, Types
<1>7. Types'
  BY Zenon, <1>4, <1>6 DEF IInv, Types
<1>8. configuration' = 0 => "tx1" \notin uown' /\ "rx2" \notin uown'
  BY Zenon, <1>4 DEF IInv, Disabled
<1>9. do_control_receive_queue' <=> "rx0" \notin uown'
  BY Zenon, <1>2, <1>4
<1>10. ("tx1" \in uown' <=> "tx1" \in uown) /\ ("rx2" \in uown' <=> "rx2" \in uown)
  BY Zenon, <1>4
<1>. QED BY Zenon, <1>2, <1>3, <1>4, <1>5, <1>6, <1>7, <1>8, <1>9, <1>10, NothingWaits

\* The other requests end a "Set Report" and leave the interrupt endpoints alone.
LEMMA OtherRequestInvariant ==
  ASSUME IInv, env' = env, getDescriptor \/ protocolStall PROVE IInv'
<1>1. Handling("setup")
  BY Zenon DEF getDescriptor, protocolStall, Setup
<1>2. /\ interrupt_transmit_queued <=> "tx1" \in uown
      /\ interrupt_receive_queued <=> "rx2" \in uown
      /\ IsSeq(Tail(stat)) /\ Len(Tail(stat)) = 0
  BY Zenon, <1>1, SetupAlone
<1>3. CASE usbFatalError
  BY Zenon, <1>3, FatalInvariant
<1>4. CASE ~usbFatalError
  <2>1. /\ AbortSetReport /\ SetupDone
        /\ uown' \in {uown \cup {"rx0", "tx0"}, uown \cup {"rx0"}}
        /\ UNCHANGED <<interrupt_transmit_queued, interrupt_receive_queued, configuration>>
    BY Zenon, <1>4 DEF getDescriptor, protocolStall, interruptVars
  <2>2. /\ stat' = Tail(stat) /\ pktdis' = FALSE /\ data_sequence' \in [{0, 2} -> Int]
        /\ do_control_receive_queue' = FALSE /\ expect_control_report' = NoReport
    BY <2>1 DEF SetupDone, AbortSetReport, IInv, Types
  <2>3. Types'
    BY Zenon, <2>1, <2>2 DEF IInv, Types
  <2>4. ("tx1" \in uown' <=> "tx1" \in uown) /\ ("rx2" \in uown' <=> "rx2" \in uown)
    BY Zenon, <2>1
  <2>5. configuration' = 0 => "tx1" \notin uown' /\ "rx2" \notin uown'
    BY Zenon, <2>1, <2>4 DEF IInv, Disabled
  <2>. QED BY Zenon, <1>2, <2>1, <2>2, <2>3, <2>4, <2>5, NothingWaits
<1>. QED BY Zenon, <1>3, <1>4

\* The interrupt endpoints after the configuration has become v.
LEMMA Configured ==
  ASSUME IInv, NEW v \in {0, 1}, usbClassSetConfiguration(v),
         interrupt_transmit_queued <=> "tx1" \in uown,
         interrupt_receive_queued <=> "rx2" \in uown
  PROVE  /\ configuration' \in {0, 1}
         /\ interrupt_transmit_queued' \in BOOLEAN /\ interrupt_receive_queued' \in BOOLEAN
         /\ interrupt_transmit_queued' <=> "tx1" \in OwnedAfter(v, uown)
         /\ interrupt_receive_queued' <=> "rx2" \in OwnedAfter(v, uown)
         /\ configuration' = 0 => "tx1" \notin OwnedAfter(v, uown) /\ "rx2" \notin OwnedAfter(v, uown)
<1>1. /\ configuration \in {0, 1}
      /\ interrupt_transmit_queued \in BOOLEAN /\ interrupt_receive_queued \in BOOLEAN
      /\ configuration = 0 => "tx1" \notin uown /\ "rx2" \notin uown
  BY Zenon DEF IInv, Types, Disabled
<1>2. CASE v = configuration
  BY <1>1, <1>2 DEF usbClassSetConfiguration, OwnedAfter
<1>3. CASE v = 1 /\ configuration = 0
  <2>1. OwnedAfter(v, uown) = uown \cup {"rx2"}
    BY <1>3 DEF OwnedAfter
  <2>2. v # configuration /\ 1 # 0
    BY <1>3
  <2>3. configuration' = 1 /\ ~interrupt_transmit_queued' /\ interrupt_receive_queued'
    BY Zenon, <1>3, <2>2 DEF usbClassSetConfiguration
  <2>4. interrupt_transmit_queued' \in BOOLEAN /\ interrupt_receive_queued' \in BOOLEAN
    BY Zenon, <1>3, <2>2 DEF usbClassSetConfiguration
  <2>5. "tx1" \notin OwnedAfter(v, uown) /\ "rx2" \in OwnedAfter(v, uown)
    BY Zenon, <1>1, <1>3, <2>1
  <2>. QED BY Zenon, <2>2, <2>3, <2>4, <2>5
<1>4. CASE v = 0 /\ configuration = 1
  <2>1. OwnedAfter(v, uown) = uown \ {"tx1", "rx2"}
    BY <1>4 DEF OwnedAfter
  <2>2. v # configuration /\ v # 1
    BY <1>4
  <2>3. configuration' = 0 /\ ~interrupt_transmit_queued' /\ ~interrupt_receive_queued'
    BY Zenon, <1>4, <2>2 DEF usbClassSetConfiguration
  <2>4. interrupt_transmit_queued' \in BOOLEAN /\ interrupt_receive_queued' \in BOOLEAN
    BY Zenon, <1>4, <2>2 DEF usbClassSetConfiguration
  <2>5. "tx1" \notin OwnedAfter(v, uown) /\ "rx2" \notin OwnedAfter(v, uown)
    BY Zenon, <2>1
  <2>. QED BY Zenon, <2>3, <2>4, <2>5
<1>. QED BY Zenon, <1>1, <1>2, <1>3, <1>4

LEMMA SetConfigurationInvariant == ASSUME IInv, env' = env, setConfiguration PROVE IInv'
<1>. DEFINE v == Head(stat).req.n
<1>1. Handling("setup") /\ Head(stat).req.kind = "SetConfiguration"
  BY Zenon DEF setConfiguration, Setup
<1>2. /\ IsEntry(Head(stat))
      /\ interrupt_transmit_queued <=> "tx1" \in uown
      /\ interrupt_receive_queued <=> "rx2" \in uown
      /\ IsSeq(Tail(stat)) /\ Len(Tail(stat)) = 0
  BY Zenon, <1>1, SetupAlone
<1>3. v \in {0, 1}
  <2>1. Head(stat).req \in Request(MAX_PACKET_SIZE)
    BY Zenon, <1>1, <1>2 DEF IsEntry, Handling
  <2>. QED BY Zenon, <1>1, <2>1 DEF Request
<1>4. CASE usbFatalError
  BY Zenon, <1>4, FatalInvariant
<1>5. CASE ~usbFatalError
  <2>1. /\ usbClassSetConfiguration(v)
        /\ uown' = OwnedAfter(v, uown) \cup {"rx0", "tx0"}
        /\ AbortSetReport /\ stat' = Tail(stat) /\ pktdis' = FALSE
        /\ data_sequence' = [e \in {0, 2} |->
              IF e = 0 THEN 1 ELSE IF v = 1 /\ configuration = 0 THEN 0 ELSE data_sequence[e]]
    BY Zenon, <1>5 DEF setConfiguration
  <2>2. do_control_receive_queue' = FALSE /\ expect_control_report' = NoReport
    BY Zenon, <2>1 DEF AbortSetReport
  <2>3. data_sequence' \in [{0, 2} -> Int]
    BY <2>1 DEF IInv, Types
  <2>. HIDE DEF v
  <2>4. /\ configuration' \in {0, 1}
        /\ interrupt_transmit_queued' \in BOOLEAN /\ interrupt_receive_queued' \in BOOLEAN
        /\ interrupt_transmit_queued' <=> "tx1" \in uown'
        /\ interrupt_receive_queued' <=> "rx2" \in uown'
        /\ configuration' = 0 => "tx1" \notin uown' /\ "rx2" \notin uown'
    BY Zenon, <1>2, <1>3, <2>1, Configured
  <2>5. Types'
    BY Zenon, <2>1, <2>2, <2>3, <2>4 DEF IInv, Types
  <2>. QED BY Zenon, <1>2, <2>1, <2>2, <2>4, <2>5, NothingWaits
<1>. QED BY Zenon, <1>4, <1>5

LEMMA ResetInvariant == ASSUME IInv, env' = env, usbHALReset PROVE IInv'
<1>1. /\ stat = <<>> /\ usbClassSetConfiguration(0) /\ uown' = OwnedAfter(0, uown)
      /\ AbortSetReport /\ data_sequence' = [e \in {0, 2} |-> 0]
      /\ UNCHANGED <<stat, pktdis>>
  BY Zenon DEF usbHALReset
<1>2. do_control_receive_queue' = FALSE /\ expect_control_report' = NoReport
  BY Zenon, <1>1 DEF AbortSetReport
<1>3. Len(stat) = 0 /\ IsSeq(stat')
  BY Zenon, <1>1 DEF IInv, Queue
<1>4. ~Pending("in1") /\ ~Pending("out2")
  BY <1>3 DEF Pending
<1>5. /\ interrupt_transmit_queued <=> "tx1" \in uown
      /\ interrupt_receive_queued <=> "rx2" \in uown
  BY Zenon, <1>4 DEF IInv, FlagsMatchHardware
<1>6. /\ configuration' \in {0, 1}
      /\ interrupt_transmit_queued' \in BOOLEAN /\ interrupt_receive_queued' \in BOOLEAN
      /\ interrupt_transmit_queued' <=> "tx1" \in uown'
      /\ interrupt_receive_queued' <=> "rx2" \in uown'
      /\ configuration' = 0 => "tx1" \notin uown' /\ "rx2" \notin uown'
  BY Zenon, <1>1, <1>5, Configured
<1>7. data_sequence' \in [{0, 2} -> Int]
  BY <1>1
<1>8. Types'
  BY Zenon, <1>1, <1>2, <1>6, <1>7 DEF IInv, Types
<1>. QED BY Zenon, <1>1, <1>2, <1>3, <1>6, <1>8, NothingWaits

-----------------------------------------------------------------------------
(* The interrupt handler: data packets.                                     *)

\* An entry other than a SETUP packet leaves U1STAT.
LEMMA EntryHandled ==
  ASSUME IInv, NEW event \in Events \ {"setup"}, Handling(event), env' = env,
         stat' = Tail(stat), pktdis' = pktdis, transfer' = transfer,
         uown' \subseteq uown \cup {"tx0", Buffer(event)}
  PROVE  /\ Queue' /\ IsEntry(Head(stat)) /\ Pending(event)
         /\ \A ev \in Events : ev # event => (Pending(ev)' <=> Pending(ev))
         /\ event # "in0" => ~Pending(event)' /\ Buffer(event) \notin uown
         /\ expect_control_report # NoReport =>
               /\ event # "in0"
               /\ event # "out0" =>
                     \A i \in 1 .. Len(stat') :
                        stat'[i].ev = "in0" => \E j \in 1 .. i - 1 : stat'[j].ev = "out0"
<1>. DEFINE n == Len(stat)
<1>1. stat # <<>> /\ Head(stat).ev = event /\ IsSeq(stat)
  BY Zenon DEF Handling, IInv, Queue
<1>2. /\ n \in Nat \ {0} /\ Head(stat) = stat[1]
      /\ IsSeq(stat') /\ Len(stat') = n - 1
      /\ \A i \in 1 .. n - 1 : stat'[i] = stat[i + 1]
  BY Zenon, <1>1, WithoutHead
<1>3. stat[1].ev = event
  BY Zenon, <1>1, <1>2
<1>. HIDE DEF n
<1>4. \A i \in 1 .. n :
         /\ IsEntry(stat[i])
         /\ stat[i].ev = "setup" => i = n /\ pktdis /\ transfer.phase = FirstPhase(stat[i].req)
         /\ stat[i].ev # "in0" =>
               /\ Buffer(stat[i].ev) \notin uown
               /\ \A j \in 1 .. n : j # i => Buffer(stat[j].ev) # Buffer(stat[i].ev)
  BY Zenon DEF IInv, Queue, n
<1>5. 1 \in 1 .. n
  BY <1>2
<1>6. IsEntry(Head(stat))
  BY Zenon, <1>2, <1>4, <1>5
<1>7. Pending(event)
  BY Zenon, <1>3, <1>5 DEF Pending, n
<1>8. ASSUME NEW ev \in Events, ev # event PROVE Pending(ev)' <=> Pending(ev)
  <2>1. ASSUME Pending(ev) PROVE Pending(ev)'
    <3>1. PICK i \in 1 .. n : stat[i].ev = ev
      BY Zenon, <2>1 DEF Pending, n
    <3>2. i # 1
      BY Zenon, <1>3, <1>8, <3>1
    <3>3. i - 1 \in 1 .. n - 1 /\ (i - 1) + 1 = i
      BY <1>2, <3>1, <3>2
    <3>4. stat'[i - 1].ev = ev
      BY Zenon, <1>2, <3>1, <3>3
    <3>. QED BY Zenon, <1>2, <3>3, <3>4 DEF Pending
  <2>2. ASSUME Pending(ev)' PROVE Pending(ev)
    <3>1. PICK i \in 1 .. n - 1 : stat'[i].ev = ev
      BY Zenon, <1>2, <2>2 DEF Pending
    <3>2. i + 1 \in 1 .. n /\ stat[i + 1].ev = ev
      BY <1>2, <3>1
    <3>. QED BY Zenon, <3>2 DEF Pending, n
  <2>. QED BY Zenon, <2>1, <2>2
<1>9. event # "in0" =>
         /\ Buffer(event) \notin uown
         /\ \A j \in 1 .. n : j # 1 => Buffer(stat[j].ev) # Buffer(event)
  BY Zenon, <1>3, <1>4, <1>5
<1>10. event # "in0" => ~Pending(event)'
  <2>. SUFFICES ASSUME event # "in0", NEW i \in 1 .. n - 1, stat'[i].ev = event PROVE FALSE
    BY Zenon, <1>2 DEF Pending
  <2>1. i + 1 \in 1 .. n /\ i + 1 # 1 /\ stat[i + 1].ev = event
    BY <1>2
  <2>. QED BY Zenon, <1>9, <2>1
<1>11. Queue'
  <2>. SUFFICES ASSUME NEW i \in 1 .. n - 1
                PROVE  /\ IsEntry(stat'[i])
                       /\ stat'[i].ev = "setup" =>
                             i = n - 1 /\ pktdis' /\ transfer'.phase = FirstPhase(stat'[i].req)
                       /\ stat'[i].ev # "in0" =>
                             /\ Buffer(stat'[i].ev) \notin uown'
                             /\ \A j \in 1 .. n - 1 : j # i => Buffer(stat'[j].ev) # Buffer(stat'[i].ev)
    <3>1. \A x : IsEntry(x)' <=> IsEntry(x)
      BY Zenon DEF IsEntry, MAX_PACKET_SIZE
    <3>. QED BY Zenon, <1>2, <3>1 DEF Queue
  <2>1. i + 1 \in 1 .. n /\ i + 1 # 1 /\ stat'[i] = stat[i + 1]
    BY <1>2
  <2>2. IsEntry(stat[i + 1])
    BY Zenon, <1>4, <2>1
  <2>3. IsEntry(stat'[i])
    BY Zenon, <2>1, <2>2
  <2>4. stat[i + 1].ev = "setup" => i + 1 = n /\ pktdis /\ transfer.phase = FirstPhase(stat[i + 1].req)
    BY Zenon, <1>4, <2>1
  <2>5. ASSUME stat[i + 1].ev # "in0" PROVE Buffer(stat[i + 1].ev) \notin uown'
    <3>1. Buffer(stat[i + 1].ev) \notin uown
      BY Zenon, <1>4, <2>1, <2>5
    <3>2. Buffer(stat[i + 1].ev) # "tx0"
      BY Zenon, <2>2, <2>5, Buffers DEF IsEntry, Events
    <3>3. Buffer(stat[i + 1].ev) # Buffer(event)
      <4>1. CASE event = "in0"
        BY Zenon, <3>2, <4>1, Buffers
      <4>2. CASE event # "in0"
        BY Zenon, <1>9, <2>1, <4>2
      <4>. QED BY Zenon, <4>1, <4>2
    <3>. QED BY Zenon, <3>1, <3>2, <3>3
  <2>6. ASSUME stat[i + 1].ev # "in0", NEW j \in 1 .. n - 1, j # i
        PROVE  Buffer(stat'[j].ev) # Buffer(stat[i + 1].ev)
    <3>1. j + 1 \in 1 .. n /\ j + 1 # i + 1 /\ stat'[j] = stat[j + 1]
      BY <1>2, <2>6
    <3>. QED BY Zenon, <1>4, <2>1, <2>6, <3>1
  <2>. QED BY <1>2, <2>1, <2>3, <2>4, <2>5, <2>6
<1>12. ASSUME expect_control_report # NoReport
       PROVE  /\ event # "in0"
              /\ event # "out0" =>
                    \A i \in 1 .. Len(stat') :
                       stat'[i].ev = "in0" => \E j \in 1 .. i - 1 : stat'[j].ev = "out0"
  <2>1. \A i \in 1 .. n : stat[i].ev = "in0" => \E j \in 1 .. i - 1 : stat[j].ev = "out0"
    BY Zenon, <1>12 DEF IInv, Expecting, n
  <2>2. event # "in0"
    BY <1>3, <1>5, <2>1
  <2>3. ASSUME event # "out0", NEW i \in 1 .. Len(stat'), stat'[i].ev = "in0"
        PROVE  \E j \in 1 .. i - 1 : stat'[j].ev = "out0"
    <3>1. i + 1 \in 1 .. n /\ stat[i + 1].ev = "in0" /\ i \in 1 .. n - 1
      BY <1>2, <2>3
    <3>2. PICK j \in 1 .. (i + 1) - 1 : stat[j].ev = "out0"
      BY Zenon, <2>1, <3>1
    <3>3. j # 1
      BY Zenon, <1>3, <2>3, <3>2
    <3>4. j - 1 \in 1 .. i - 1 /\ j - 1 \in 1 .. n - 1 /\ (j - 1) + 1 = j
      BY <1>2, <3>1, <3>2, <3>3
    <3>5. stat'[j - 1].ev = "out0"
      BY Zenon, <1>2, <3>2, <3>4
    <3>. QED BY Zenon, <3>4, <3>5
  <2>. QED BY Zenon, <2>2, <2>3
<1>. QED BY Zenon, <1>6, <1>7, <1>8, <1>9, <1>10, <1>11, <1>12

\* A packet on the control endpoint, after which no report is expected.
LEMMA ControlHandled ==
  ASSUME IInv, NEW event \in {"in0", "out0"}, Handling(event), env' = env,
         stat' = Tail(stat), pktdis' = pktdis, transfer' = transfer,
         uown \subseteq uown', uown' \subseteq uown \cup {"tx0", Buffer(event)},
         expect_control_report' = NoReport, do_control_receive_queue' = FALSE,
         data_sequence' \in [{0, 2} -> Int],
         UNCHANGED <<interrupt_transmit_queued, interrupt_receive_queued, configuration>>
  PROVE  IInv'
<1>1. event \in Events \ {"setup"} /\ event # "in1" /\ event # "out2"
  BY Zenon DEF Events
<1>2. Queue' /\ \A ev \in Events : ev # event => (Pending(ev)' <=> Pending(ev))
  BY Zenon, <1>1, EntryHandled
<1>3. (Pending("in1")' <=> Pending("in1")) /\ (Pending("out2")' <=> Pending("out2"))
  BY Zenon, <1>1, <1>2 DEF Events
<1>4. ("tx1" \in uown' <=> "tx1" \in uown) /\ ("rx2" \in uown' <=> "rx2" \in uown)
  BY Zenon, Buffers
<1>5. Types'
  BY Zenon DEF IInv, Types
<1>6. Disabled' /\ Expecting' /\ Postponed'
  BY Zenon, <1>3, <1>4 DEF IInv, Disabled, Expecting, Postponed
<1>7. FlagsMatchHardware'
  BY Zenon, <1>3, <1>4 DEF IInv, FlagsMatchHardware
<1>. QED BY Zenon, <1>2, <1>5, <1>6, <1>7 DEF IInv

\* The report that was expected has come, whatever is in it.
LEMMA ControlReceiveInvariant ==
  ASSUME IInv, env' = env, controlReceiveCallback PROVE IInv'
<1>. DEFINE e == Head(stat)
            accepted == InSequence(e, 0)
            stage == IF accepted THEN current_stage ELSE "ignored"
            store == /\ stage = "DATA" /\ expect_control_report # NoReport
                     /\ e.good /\ e.id = expect_control_report
            stall == stage = "DATA" /\ ~store
<1>1. Handling("out0")
  BY Zenon DEF controlReceiveCallback
<1>2. CASE usbFatalError
  BY Zenon, <1>2, FatalInvariant
<1>3. CASE ~usbFatalError
  <2>1. /\ expect_control_report' = IF stage = "DATA" THEN NoReport ELSE expect_control_report
        /\ do_control_receive_queue' = (do_control_receive_queue /\ ~stall)
        /\ data_sequence' = [data_sequence EXCEPT ![0] =
              IF store THEN 1 ELSE IF accepted THEN 1 - @ ELSE @]
        /\ uown' = uown \cup {"rx0"} \cup (IF store THEN {"tx0"} ELSE {})
        /\ stat' = Tail(stat) /\ pktdis' = pktdis /\ transfer' = transfer
        /\ UNCHANGED <<interrupt_transmit_queued, interrupt_receive_queued, configuration>>
    BY Zenon, <1>3 DEF controlReceiveCallback, interruptVars, hostVars
  <2>2. "out0" \in Events \ {"setup"} /\ uown' \subseteq uown \cup {"tx0", Buffer("out0")}
    BY Zenon, <2>1, Buffers DEF Events
  <2>3. IsEntry(e) /\ Pending("out0")
    BY Zenon, <1>1, <2>1, <2>2, EntryHandled
  <2>4. e.toggle = 1
    BY Zenon, <1>1, <2>3 DEF IsEntry, Handling
  <2>5. expect_control_report # NoReport => stage = "DATA"
    BY Zenon, <2>4 DEF InSequence, IInv, Expecting, FlagsMatchHardware
  <2>6. expect_control_report' = NoReport
    BY Zenon, <2>1, <2>5
  <2>7. ~do_control_receive_queue
    BY Zenon, <2>3 DEF IInv, Postponed
  <2>. HIDE DEF e, accepted, stage, store, stall
  <2>8. do_control_receive_queue' = FALSE
    BY Zenon, <2>1, <2>7
  <2>9. data_sequence' \in [{0, 2} -> Int]
    BY <2>1 DEF IInv, Types
  <2>10. uown \subseteq uown'
    BY Zenon, <2>1
  <2>. QED BY Zenon, <1>1, <2>1, <2>2, <2>6, <2>8, <2>9, <2>10, ControlHandled
<1>. QED BY Zenon, <1>2, <1>3

\* Nothing is transmitted on the control endpoint while a report is expected.
LEMMA ControlTransmitInvariant ==
  ASSUME IInv, env' = env, controlTransmitCallback PROVE IInv'
<1>. DEFINE extended == transmit_remaining >= MAX_PACKET_SIZE
<1>1. Handling("in0")
  BY Zenon DEF controlTransmitCallback
<1>2. CASE usbFatalError
  BY Zenon, <1>2, FatalInvariant
<1>3. CASE ~usbFatalError
  <2>1. /\ uown' = uown \cup (IF extended THEN {"tx0"} ELSE {})
        /\ data_sequence' = [data_sequence EXCEPT ![0] =
              IF ~extended /\ current_stage = "DATA" THEN 1 ELSE 1 - @]
        /\ stat' = Tail(stat) /\ pktdis' = pktdis /\ transfer' = transfer
        /\ UNCHANGED <<interrupt_transmit_queued, interrupt_receive_queued, configuration,
                       do_control_receive_queue, expect_control_report>>
    BY Zenon, <1>3 DEF controlTransmitCallback, interruptVars, setReportVars, busVars, hostVars
  <2>. HIDE DEF extended
  <2>2. "in0" \in Events \ {"setup"} /\ uown' \subseteq uown \cup {"tx0", Buffer("in0")}
    BY Zenon, <2>1 DEF Events
  <2>3. expect_control_report = NoReport
    BY Zenon, <1>1, <2>1, <2>2, EntryHandled
  <2>4. do_control_receive_queue = FALSE
    BY Zenon, <2>3 DEF IInv, Types, FlagsMatchHardware
  <2>5. data_sequence' \in [{0, 2} -> Int]
    BY <2>1 DEF IInv, Types
  <2>6. uown \subseteq uown'
    BY Zenon, <2>1
  <2>. QED BY Zenon, <1>1, <2>1, <2>2, <2>3, <2>4, <2>5, <2>6, ControlHandled
<1>. QED BY Zenon, <1>2, <1>3

-----------------------------------------------------------------------------
(* The interrupt endpoints.                                                 *)

\* A packet on an interrupt endpoint leaves what the control endpoint waits for.
LEMMA InterruptHandled ==
  ASSUME IInv, NEW event \in {"in1", "out2"}, Handling(event), env' = env,
         stat' = Tail(stat), pktdis' = pktdis, transfer' = transfer,
         uown' = uown \/ uown' = uown \cup {Buffer(event)}, configuration # 0,
         data_sequence' \in [{0, 2} -> Int], data_sequence'[0] = data_sequence[0],
         interrupt_transmit_queued' \in BOOLEAN, interrupt_receive_queued' \in BOOLEAN,
         event = "in1" => interrupt_receive_queued' = interrupt_receive_queued,
         event = "in1" => (interrupt_transmit_queued' <=> "tx1" \in uown'),
         event = "out2" => interrupt_transmit_queued' = interrupt_transmit_queued,
         event = "out2" => (interrupt_receive_queued' <=> "rx2" \in uown'),
         UNCHANGED <<configuration, do_control_receive_queue, expect_control_report,
                     current_stage>>
  PROVE  IInv'
<1>1. event \in Events \ {"setup"} /\ event # "in0" /\ event # "out0" /\ event # "setup"
  BY Zenon DEF Events
<1>2. /\ Queue' /\ ~Pending(event)'
      /\ \A ev \in Events : ev # event => (Pending(ev)' <=> Pending(ev))
      /\ expect_control_report # NoReport =>
           \A i \in 1 .. Len(stat') :
              stat'[i].ev = "in0" => \E j \in 1 .. i - 1 : stat'[j].ev = "out0"
  BY Zenon, <1>1, EntryHandled
<1>3. (Pending("out0")' <=> Pending("out0")) /\ (Pending("setup")' <=> Pending("setup"))
  BY Zenon, <1>1, <1>2 DEF Events
<1>4. Types'
  BY Zenon DEF IInv, Types
<1>5. Disabled' /\ Postponed'
  BY Zenon, <1>3 DEF IInv, Disabled, Postponed
<1>6. Expecting'
  BY Zenon, <1>2, <1>3 DEF IInv, Expecting
<1>7. "rx0" \in uown' <=> "rx0" \in uown
  BY Zenon, Buffers
<1>8. (interrupt_transmit_queued <=> ("tx1" \in uown \/ Pending("in1")))'
  <2>1. CASE event = "in1"
    BY Zenon, <2>1, <1>2
  <2>2. CASE event = "out2"
    <3>1. Pending("in1")' <=> Pending("in1")
      BY Zenon, <2>2, <1>2 DEF Events
    <3>2. "tx1" \in uown' <=> "tx1" \in uown
      BY Zenon, <2>2, Buffers
    <3>. QED BY Zenon, <2>2, <3>1, <3>2 DEF IInv, FlagsMatchHardware
  <2>. QED BY Zenon, <2>1, <2>2
<1>9. (interrupt_receive_queued <=> ("rx2" \in uown \/ Pending("out2")))'
  <2>1. CASE event = "out2"
    BY Zenon, <2>1, <1>2
  <2>2. CASE event = "in1"
    <3>1. Pending("out2")' <=> Pending("out2")
      BY Zenon, <2>2, <1>2 DEF Events
    <3>2. "rx2" \in uown' <=> "rx2" \in uown
      BY Zenon, <2>2, Buffers
    <3>. QED BY Zenon, <2>2, <3>1, <3>2 DEF IInv, FlagsMatchHardware
  <2>. QED BY Zenon, <2>1, <2>2
<1>10. FlagsMatchHardware'
  BY Zenon, <1>3, <1>7, <1>8, <1>9 DEF IInv, FlagsMatchHardware
<1>. QED BY Zenon, <1>2, <1>4, <1>5, <1>6, <1>10 DEF IInv

LEMMA Ep1TransmitInvariant == ASSUME IInv, env' = env, ep1TransmitCallback PROVE IInv'
<1>1. Handling("in1")
  BY Zenon DEF ep1TransmitCallback
<1>2. CASE configuration = 0 \/ CannotFill(transmit_fifo, uown)
  BY Zenon, <1>2, FatalInvariant DEF ep1TransmitCallback
<1>3. CASE ~(configuration = 0 \/ CannotFill(transmit_fifo, uown))
  <2>1. /\ interrupt_transmit_queued' = (transmit_fifo # <<>>)
        /\ uown' = uown \cup FilledOwner(transmit_fifo)
        /\ stat' = Tail(stat) /\ pktdis' = pktdis /\ transfer' = transfer
        /\ UNCHANGED <<interrupt_receive_queued, configuration, do_control_receive_queue,
                       expect_control_report, current_stage, data_sequence>>
    BY Zenon, <1>3 DEF ep1TransmitCallback, FillTransmitPacketBufferAndTransmit, setReportVars,
                controlVars, busVars, hostVars
  <2>2. Buffer("in1") = "tx1" /\ "in1" \in Events \ {"setup"}
    BY Zenon, Buffers DEF Events
  <2>3. uown' = uown \/ uown' = uown \cup {Buffer("in1")}
    BY Zenon, <2>1, <2>2 DEF FilledOwner
  <2>4. "tx1" \notin uown
    BY Zenon, <1>1, <2>1, <2>2, <2>3, EntryHandled
  <2>5. interrupt_transmit_queued' <=> "tx1" \in uown'
    BY Zenon, <2>1, <2>4 DEF FilledOwner
  <2>6. interrupt_transmit_queued' \in BOOLEAN /\ interrupt_receive_queued' \in BOOLEAN
    BY Zenon, <2>1 DEF IInv, Types
  <2>7. data_sequence' \in [{0, 2} -> Int] /\ data_sequence'[0] = data_sequence[0]
    BY Zenon, <2>1 DEF IInv, Types
  <2>. QED BY Zenon, <1>1, <1>3, <2>1, <2>3, <2>5, <2>6, <2>7, InterruptHandled
<1>. QED BY Zenon, <1>2, <1>3

\* A packet out of sequence is not stored, and the buffer is queued again.
LEMMA Ep2ReceiveInvariant == ASSUME IInv, env' = env, ep2ReceiveCallback PROVE IInv'
<1>. DEFINE e == Head(stat)
            accepted == InSequence(e, 2)
            fifo == IF accepted THEN receive_fifo \o e.data ELSE receive_fifo
            queue == ~accepted \/ HasHeadroom(fifo)
            error == \/ configuration = 0
                     \/ accepted /\ Len(e.data) > circularBufferSpaceRemaining(receive_fifo)
                     \/ queue /\ "rx2" \in uown
<1>1. Handling("out2")
  BY Zenon DEF ep2ReceiveCallback
<1>2. CASE error
  BY Zenon, <1>2, FatalInvariant DEF ep2ReceiveCallback
<1>3. CASE ~error
  <2>1. /\ interrupt_receive_queued' = IF accepted THEN queue ELSE interrupt_receive_queued
        /\ uown' = uown \cup (IF queue THEN {"rx2"} ELSE {})
        /\ data_sequence' = [data_sequence EXCEPT ![2] = IF accepted THEN 1 - @ ELSE @]
        /\ stat' = Tail(stat) /\ pktdis' = pktdis /\ transfer' = transfer
        /\ UNCHANGED <<interrupt_transmit_queued, configuration, do_control_receive_queue,
                       expect_control_report, current_stage>>
    BY Zenon, <1>3 DEF ep2ReceiveCallback, setReportVars, busVars, hostVars
  <2>2. configuration # 0 /\ queue \in BOOLEAN /\ (~accepted => queue)
    BY Zenon, <1>3
  <2>. HIDE DEF e, accepted, fifo, queue
  <2>3. Buffer("out2") = "rx2" /\ "out2" \in Events \ {"setup"}
    BY Zenon, Buffers DEF Events
  <2>4. uown' = uown \/ uown' = uown \cup {Buffer("out2")}
    BY Zenon, <2>1, <2>3
  <2>5. "rx2" \notin uown /\ Pending("out2")
    BY Zenon, <1>1, <2>1, <2>3, <2>4, EntryHandled
  <2>6. interrupt_receive_queued = TRUE
    BY Zenon, <2>5 DEF IInv, Types, FlagsMatchHardware
  <2>7. interrupt_receive_queued' <=> "rx2" \in uown'
    BY Zenon, <2>1, <2>2, <2>5, <2>6
  <2>8. interrupt_transmit_queued' \in BOOLEAN /\ interrupt_receive_queued' \in BOOLEAN
    BY Zenon, <2>1, <2>2 DEF IInv, Types
  <2>9. data_sequence' \in [{0, 2} -> Int] /\ data_sequence'[0] = data_sequence[0]
    BY <2>1 DEF IInv, Types
  <2>. QED BY Zenon, <1>1, <2>1, <2>2, <2>4, <2>7, <2>8, <2>9, InterruptHandled
<1>. QED BY Zenon, <1>2, <1>3

-----------------------------------------------------------------------------
(* The application, between two interrupts.                                 *)

\* The application queues buffers that no entry of U1STAT gave back.
LEMMA Queued ==
  ASSUME IInv, UNCHANGED <<env, stat, pktdis, transfer>>,
         NEW added, uown' = uown \cup added, added \subseteq {"rx0", "tx0", "tx1", "rx2"},
         "rx0" \in added => ~Pending("out0") /\ ~Pending("setup"),
         "tx1" \in added => ~Pending("in1"),
         "rx2" \in added => ~Pending("out2")
  PROVE  Queue' /\ \A ev : Pending(ev)' <=> Pending(ev)
<1>1. \A ev : Pending(ev)' <=> Pending(ev)
  BY Zenon DEF Pending
<1>2. \A e : IsEntry(e)' <=> IsEntry(e)
  BY Zenon DEF IsEntry, MAX_PACKET_SIZE
<1>3. \A i \in 1 .. Len(stat) : stat[i].ev # "in0" => Buffer(stat[i].ev) \notin added
  <2>1. SUFFICES ASSUME NEW i \in 1 .. Len(stat), stat[i].ev # "in0"
                 PROVE  Buffer(stat[i].ev) \notin added
    BY Zenon
  <2>2. stat[i].ev \in Events /\ Pending(stat[i].ev)
    BY Zenon DEF IInv, Queue, IsEntry, Pending
  <2>. QED BY Zenon, <2>1, <2>2, Buffers DEF Events
<1>. QED BY Zenon, <1>1, <1>2, <1>3 DEF IInv, Queue

LEMMA GetOneByteInvariant == ASSUME IInv, env' = env, streamGetOneByte PROVE IInv'
<1>. DEFINE queue == HasHeadroom(receive_fifo)
            control == queue /\ ControlFirst
            interrupt == queue /\ InterruptNext
            error == \/ control /\ "rx0" \in uown
                     \/ interrupt /\ ("rx2" \in uown \/ configuration = 0)
            added == (IF control THEN {"rx0"} ELSE {}) \cup (IF interrupt THEN {"rx2"} ELSE {})
<1>1. CASE error
  BY Zenon, <1>1, FatalInvariant DEF streamGetOneByte
<1>2. CASE ~error
  <2>1. /\ do_control_receive_queue' = (do_control_receive_queue /\ ~control)
        /\ interrupt_receive_queued' = (interrupt_receive_queued \/ interrupt)
        /\ uown' = uown \cup added
        /\ UNCHANGED <<stat, pktdis, transfer>>
        /\ UNCHANGED <<interrupt_transmit_queued, configuration, expect_control_report,
                       current_stage, data_sequence>>
    BY Zenon, <1>2 DEF streamGetOneByte, controlVars, busVars, hostVars
  <2>2. /\ control => do_control_receive_queue
        /\ interrupt => ~interrupt_receive_queued /\ configuration # 0
        /\ "rx0" \in added <=> control
        /\ "rx2" \in added <=> interrupt
        /\ "tx1" \notin added /\ added \subseteq {"rx0", "tx0", "tx1", "rx2"}
        /\ control \in BOOLEAN /\ interrupt \in BOOLEAN
    BY Zenon, <1>2 DEF ControlFirst, InterruptNext
  <2>. HIDE DEF control, interrupt, added
  <2>3. /\ control => ~Pending("out0") /\ ~Pending("setup")
        /\ interrupt => ~Pending("out2")
    BY Zenon, <2>2 DEF IInv, Postponed, FlagsMatchHardware
  <2>4. Queue' /\ \A ev : Pending(ev)' <=> Pending(ev)
    BY Zenon, <2>1, <2>2, <2>3, Queued
  <2>5. Types'
    BY Zenon, <2>1, <2>2 DEF IInv, Types
  <2>6. Disabled' /\ Postponed'
    BY Zenon, <2>1, <2>2, <2>4 DEF IInv, Disabled, Postponed
  <2>7. Expecting'
    BY Zenon, <2>1, <2>4 DEF IInv, Expecting
  <2>8. FlagsMatchHardware'
    BY Zenon, <2>1, <2>2, <2>4 DEF IInv, Types, FlagsMatchHardware
  <2>. QED BY Zenon, <2>4, <2>5, <2>6, <2>7, <2>8 DEF IInv
<1>. QED BY Zenon, <1>1, <1>2

LEMMA PutOneByteInvariant == ASSUME IInv, env' = env, streamPutOneByte PROVE IInv'
<1>. DEFINE build == do_build_transmit_report
            complete == build /\ Len(report) + 2 = desired_transmit_report_length
            f == IF build THEN transmit_fifo ELSE Append(transmit_fifo, put)
            error == \/ complete /\ "tx0" \in uown
                     \/ ~interrupt_transmit_queued /\ CannotFill(f, uown)
            filled == ~interrupt_transmit_queued /\ f # <<>>
            added == (IF complete THEN {"tx0"} ELSE {}) \cup (IF filled THEN {"tx1"} ELSE {})
<1>1. CASE error
  BY Zenon, <1>1, FatalInvariant DEF streamPutOneByte
<1>2. CASE ~error
  <2>1. /\ interrupt_transmit_queued' = (interrupt_transmit_queued \/ filled)
        /\ uown' = uown \cup added
        /\ UNCHANGED <<stat, pktdis, transfer>>
        /\ UNCHANGED <<interrupt_receive_queued, do_control_receive_queue, configuration,
                       expect_control_report, current_stage, data_sequence>>
    <3>1. /\ IF interrupt_transmit_queued
               THEN interrupt_transmit_queued' = interrupt_transmit_queued
               ELSE interrupt_transmit_queued' = (f # <<>>)
          /\ uown' = uown \cup (IF complete THEN {"tx0"} ELSE {})
                          \cup (IF interrupt_transmit_queued THEN {} ELSE FilledOwner(f))
          /\ UNCHANGED <<stat, pktdis, transfer>>
          /\ UNCHANGED <<interrupt_receive_queued, do_control_receive_queue, configuration,
                         expect_control_report, current_stage, data_sequence>>
      BY Zenon, <1>2 DEF streamPutOneByte, FillTransmitPacketBufferAndTransmit, setReportVars,
                  busVars, hostVars
    <3>2. interrupt_transmit_queued \in BOOLEAN
      BY Zenon DEF IInv, Types
    <3>. HIDE DEF f, complete
    <3>. QED BY Zenon, <3>1, <3>2 DEF FilledOwner
  <2>2. /\ filled => ~interrupt_transmit_queued /\ configuration # 0
        /\ "tx1" \in added <=> filled
        /\ "rx0" \notin added /\ "rx2" \notin added
        /\ added \subseteq {"rx0", "tx0", "tx1", "rx2"}
        /\ filled \in BOOLEAN
    BY Zenon, <1>2 DEF CannotFill
  <2>. HIDE DEF filled, added
  <2>3. filled => ~Pending("in1")
    BY Zenon, <2>2 DEF IInv, FlagsMatchHardware
  <2>4. Queue' /\ \A ev : Pending(ev)' <=> Pending(ev)
    BY Zenon, <2>1, <2>2, <2>3, Queued
  <2>5. Types'
    BY Zenon, <2>1, <2>2 DEF IInv, Types
  <2>6. Disabled' /\ Postponed'
    BY Zenon, <2>1, <2>2, <2>4 DEF IInv, Disabled, Postponed
  <2>7. Expecting'
    BY Zenon, <2>1, <2>4 DEF IInv, Expecting
  <2>8. FlagsMatchHardware'
    BY Zenon, <2>1, <2>2, <2>4 DEF IInv, Types, FlagsMatchHardware
  <2>. QED BY Zenon, <2>4, <2>5, <2>6, <2>7, <2>8 DEF IInv
<1>. QED BY Zenon, <1>1, <1>2

-----------------------------------------------------------------------------

LEMMA InitInvariant == Init => IInv
<1>. SUFFICES ASSUME Init PROVE IInv
  BY Zenon
<1>1. stat = <<>> /\ Len(stat) = 0 /\ IsSeq(stat)
  <2>1. stat = <<>> /\ <<>> \in Seq({})
    BY DEF Init
  <2>. QED BY Zenon, <2>1 DEF IsSeq
<1>2. \A ev : ~Pending(ev)
  BY <1>1 DEF Pending
<1>3. Types
  BY DEF Init, Types
<1>4. Queue
  BY <1>1 DEF Queue
<1>5. Disabled /\ Expecting /\ Postponed
  BY Zenon, <1>2 DEF Init, Disabled, Expecting, Postponed
<1>6. FlagsMatchHardware
  BY Zenon, <1>2 DEF Init, FlagsMatchHardware
<1>. QED BY Zenon, <1>3, <1>4, <1>5, <1>6 DEF IInv

LEMMA NextInvariant == IInv /\ [Next]_<<env, vars>> => IInv'
<1>. SUFFICES ASSUME IInv, [Next]_<<env, vars>> PROVE IInv'
  BY Zenon
<1>1. CASE Application /\ env' = env
  <2>1. CASE CallGet \/ CallPut \/ circularBufferRead
    <3>1. UNCHANGED <<env, configuration, interrupt_transmit_queued, interrupt_receive_queued,
                      do_control_receive_queue, expect_control_report, current_stage,
                      data_sequence, uown, stat, pktdis, transfer>>
      BY Zenon, <1>1, <2>1 DEF CallGet, CallPut, circularBufferRead, deviceVars, interruptVars,
                        setReportVars, controlVars, busVars, hostVars
    <3>. QED BY Zenon, <3>1, Unaffected
  <2>. QED BY Zenon, <1>1, <2>1, GetOneByteInvariant, PutOneByteInvariant DEF Application
<1>2. CASE USBHandler /\ env' = env
  BY Zenon, <1>2, GetReportInvariant, SetReportInvariant, OtherRequestInvariant,
     SetConfigurationInvariant, ControlReceiveInvariant, ControlTransmitInvariant,
     Ep1TransmitInvariant, Ep2ReceiveInvariant, ResetInvariant DEF USBHandler
<1>3. CASE Host /\ env' = env
  BY Zenon, <1>3, HidAssumption, HostControlInvariant, HostInterruptInvariant, HostEndsInvariant
     DEF Host, ControlTransactions
<1>4. CASE UNCHANGED <<env, vars>>
  <2>1. UNCHANGED <<env, configuration, interrupt_transmit_queued, interrupt_receive_queued,
                    do_control_receive_queue, expect_control_report, current_stage,
                    data_sequence, uown, stat, pktdis, transfer>>
    BY Zenon, <1>4 DEF vars, deviceVars, interruptVars, setReportVars, controlVars, busVars, hostVars
  <2>. QED BY Zenon, <2>1, Unaffected
<1>. QED BY Zenon, <1>1, <1>2, <1>3, <1>4 DEF Next

\* interrupt_transmit_queued, interrupt_receive_queued, do_control_receive_queue and
\* expect_control_report of usb_hid_stream.c always say what the USB module holds, so
\* that no buffer is taken for idle while it is queued, or for queued while it is idle,
\* in any order of control transfers, interrupt transactions, lost acknowledgements,
\* bus resets and stream calls.
THEOREM FlagsAreTrue == Spec => []FlagsMatchHardware
<1>1. IInv => FlagsMatchHardware
  BY Zenon DEF IInv
<1>. QED BY <1>1, InitInvariant, NextInvariant, PTL DEF Spec

-----------------------------------------------------------------------------
(* Sizes and types.                                                         *)

\* FIFOs, packets and the positions in the streams.  A report that is being built
\* lacks at least one byte.
FifoTypes ==
  /\ IsFIFO(transmit_fifo, TRANSMIT_FIFO_SIZE, KTransmit)
  /\ IsFIFO(receive_fifo, RECEIVE_FIFO_SIZE, KReceive)
  /\ IsFIFO(interrupt_packet, MAX_PACKET_SIZE - 1, KTransmit)
  /\ IsFIFO(report, MAX_PACKET_SIZE - 1, KTransmit)
  /\ {taken, sent} \subseteq Byte(KReceive) /\ {put, got} \subseteq Byte(KTransmit)
  /\ desired_transmit_report_length \in 0 .. MAX_PACKET_SIZE
  /\ do_build_transmit_report \in BOOLEAN
  /\ do_build_transmit_report => Len(report) + 2 <= desired_transmit_report_length

\* The variables of the driver and of the USB module.
DriverTypes ==
  /\ {stalled, urstif, fatal} \subseteq BOOLEAN
  /\ expect_control_report \in NoReport .. MAX_PACKET_SIZE - 1
  /\ current_stage \in {"SETUP", "DATA", "STATUS"}
  /\ transmit_remaining \in {0} \cup MAX_PACKET_SIZE .. 2 * MAX_PACKET_SIZE
  /\ data_sequence \in [{0, 2} -> {0, 1}]
  /\ uown \subseteq {"rx0", "tx0", "tx1", "rx2"}
  /\ pc \in {"ready", "reading", "read", "writing"}

Phase == {"none", "dataIn", "dataOut", "statusIn", "statusOut"}

\* The host and its control transfer.
HostTypes ==
  /\ transfer \in [req : Request(MAX_PACKET_SIZE), phase : Phase, left : 0 .. 2 * MAX_PACKET_SIZE]
  /\ \/ transfer.phase = "none"
     \/ transfer.phase \in {"dataIn", "statusOut"}
        /\ transfer.req.kind \in {"GetReport", "GetDescriptor", "Unsupported"}
     \/ transfer.phase \in {"dataOut", "statusIn"} /\ transfer.req.kind = "SetReport"
     \/ transfer.phase = "statusIn" /\ transfer.req.kind = "SetConfiguration"
  /\ host_sequence \in {0, 1} /\ unacknowledged \in -1 .. MAX_PACKET_SIZE - 1

\* U1STAT.
StatTypes ==
  /\ \A i \in 1 .. Len(stat) : stat[i] \in Entry
  /\ \A i \in 1 .. Len(stat) : stat[i].ev \in {"out0", "out2"} => Len(stat[i].data) < MAX_PACKET_SIZE

\* A descriptor of the control endpoint is given back once.  The device works on the
\* transfer that the host has begun, and what it transmits for it is read once.
ReadOnce ==
  /\ pktdis => Pending("setup")
  /\ \A i \in 1 .. Len(stat) : stat[i].ev = "setup" =>
       transfer.req = stat[i].req /\ transfer.left = stat[i].req.n
  /\ \A i, j \in 1 .. Len(stat) : stat[i].ev = "in0" /\ stat[j].ev = "in0" => i = j
  /\ ~pktdis /\ transfer.phase # "none" =>
       /\ expect_control_report # NoReport => transfer.req.kind = "SetReport"
       /\ do_build_transmit_report => transfer.req.kind = "GetReport"
  /\ ~pktdis /\ Pending("in0") => transfer.phase # "dataOut"
  /\ ~pktdis /\ Pending("in0") /\ transfer.phase \in {"dataIn", "statusIn"} =>
       "tx0" \notin uown /\ ~do_build_transmit_report /\ expect_control_report = NoReport

Sized == IInv /\ FifoTypes /\ DriverTypes /\ HostTypes /\ StatTypes /\ ReadOnce

\* The sizes never change.
LEMMA Sizes ==
  ASSUME IInv
  PROVE  /\ MAX_PACKET_SIZE \in Nat \ {0, 1}
         /\ TRANSMIT_FIFO_SIZE \in Nat \ {0}
         /\ RECEIVE_FIFO_SIZE \in Nat /\ RECEIVE_FIFO_SIZE >= 2 * MAX_PACKET_SIZE
         /\ KReceive \in Nat \ {0} /\ KTransmit \in Nat \ {0}
         /\ Requests \subseteq Request(MAX_PACKET_SIZE)
BY Zenon, HidAssumption DEF IInv, Types, MAX_PACKET_SIZE, TRANSMIT_FIFO_SIZE, RECEIVE_FIFO_SIZE, KReceive,
   KTransmit, Requests

LEMMA SameSizes ==
  ASSUME env' = env
  PROVE  /\ MAX_PACKET_SIZE' = MAX_PACKET_SIZE /\ TRANSMIT_FIFO_SIZE' = TRANSMIT_FIFO_SIZE
         /\ RECEIVE_FIFO_SIZE' = RECEIVE_FIFO_SIZE
         /\ KReceive' = KReceive /\ KTransmit' = KTransmit /\ Requests' = Requests
BY Zenon DEF MAX_PACKET_SIZE, TRANSMIT_FIFO_SIZE, RECEIVE_FIFO_SIZE, KReceive, KTransmit, Requests

LEMMA PrefixFIFO ==
  ASSUME NEW k, NEW n \in Nat, NEW m \in Nat, NEW s, IsFIFO(s, n, k)
  PROVE  IsFIFO(Prefix(s, m), m, k) /\ Len(Prefix(s, m)) = Least(m, Len(s))
BY DEF IsFIFO, Prefix, Least

LEMMA DropFIFO ==
  ASSUME NEW k, NEW n \in Nat, NEW m \in Nat, NEW s, IsFIFO(s, n, k)
  PROVE  IsFIFO(Drop(s, m), n, k) /\ Len(Drop(s, m)) = Len(s) - Least(m, Len(s))
<1>1. s \in Seq(Byte(k)) /\ Len(s) \in Nat /\ Len(s) <= n
  BY DEF IsFIFO
<1>2. PICK l \in 0 .. Len(s) : l = Least(m, Len(s))
  BY <1>1 DEF Least
<1>3. SubSeq(s, l + 1, Len(s)) \in Seq(Byte(k)) /\ Len(SubSeq(s, l + 1, Len(s))) = Len(s) - l
  BY <1>1
<1>. QED BY <1>1, <1>2, <1>3 DEF IsFIFO, Drop

LEMMA BytesFIFO ==
  ASSUME NEW k \in Nat \ {0}, NEW p \in Byte(k), NEW n \in Nat
  PROVE  Bytes(p, n, k) \in Seq(Byte(k)) /\ Len(Bytes(p, n, k)) = n
<1>1. \A i \in 1 .. n : (p + i - 1) % k \in Byte(k)
  BY DEF Byte
<1>. QED BY <1>1 DEF Bytes

LEMMA NextByte ==
  ASSUME NEW k \in Nat \ {0}, NEW p \in Byte(k), NEW n \in Nat
  PROVE  (p + n) % k \in Byte(k)
BY DEF Byte

\* fillTransmitPacketBufferAndTransmit() on bytes that fit.
LEMMA FillTypes ==
  ASSUME Sized, env' = env, NEW f, IsFIFO(f, TRANSMIT_FIFO_SIZE, KTransmit),
         FillTransmitPacketBufferAndTransmit(f)
  PROVE  /\ IsFIFO(transmit_fifo', TRANSMIT_FIFO_SIZE, KTransmit)
         /\ IsFIFO(interrupt_packet', MAX_PACKET_SIZE - 1, KTransmit)
<1>1. TRANSMIT_FIFO_SIZE \in Nat /\ MAX_PACKET_SIZE - 1 \in Nat
  BY Sizes DEF Sized
<1>. QED BY Zenon, <1>1, PrefixFIFO, DropFIFO DEF FillTransmitPacketBufferAndTransmit

LEMMA SameFifos ==
  ASSUME FifoTypes, env' = env,
         UNCHANGED <<fifos, interrupt_packet, getReportVars, put, taken, sent, got>>
  PROVE  FifoTypes'
BY Zenon, SameSizes DEF FifoTypes, fifos, getReportVars

LEMMA FifosAfterApplication ==
  ASSUME Sized, env' = env, Application
  PROVE  FifoTypes'
<1>1. CASE CallGet \/ CallPut
  BY Zenon, <1>1, SameFifos DEF Sized, CallGet, CallPut, deviceVars, interruptVars, hostVars
<1>2. CASE streamGetOneByte
  BY Zenon, <1>2, SameFifos DEF Sized, streamGetOneByte, usbFatalError, deviceVars, interruptVars, hostVars, appVars
<1>3. CASE circularBufferRead
  <2>1. /\ taken' = (taken + 1) % KReceive /\ receive_fifo # <<>> /\ receive_fifo' = Tail(receive_fifo)
        /\ UNCHANGED <<transmit_fifo, interrupt_packet, getReportVars, put, sent, got>>
    BY Zenon, <1>3 DEF circularBufferRead, interruptVars, hostVars
  <2>2. taken' \in Byte(KReceive)
    BY Zenon, <2>1, Sizes, NextByte DEF Sized, FifoTypes
  <2>3. IsFIFO(receive_fifo', RECEIVE_FIFO_SIZE, KReceive)
    BY <2>1, Sizes DEF Sized, FifoTypes, IsFIFO
  <2>. QED BY Zenon, <2>1, <2>2, <2>3, SameSizes DEF Sized, FifoTypes, getReportVars
<1>4. CASE streamPutOneByte
  <2>. DEFINE build == do_build_transmit_report
              complete == build /\ Len(report) + 2 = desired_transmit_report_length
              f == IF build THEN transmit_fifo ELSE Append(transmit_fifo, put)
  <2>1. CASE usbFatalError
    BY Zenon, <2>1, SameFifos DEF Sized, usbFatalError, deviceVars, interruptVars, hostVars, appVars
  <2>2. CASE ~usbFatalError
    <3>1. /\ Len(transmit_fifo) < TRANSMIT_FIFO_SIZE
          /\ report' = IF build THEN Append(report, put) ELSE report
          /\ do_build_transmit_report' = (build /\ ~complete)
          /\ \/ transmit_fifo' = f /\ interrupt_packet' = interrupt_packet
             \/ FillTransmitPacketBufferAndTransmit(f)
          /\ put' = (put + 1) % KTransmit
          /\ UNCHANGED <<receive_fifo, desired_transmit_report_length, taken, sent, got>>
      BY Zenon, <1>4, <2>2 DEF streamPutOneByte, hostVars
    <3>2. IsFIFO(f, TRANSMIT_FIFO_SIZE, KTransmit)
      BY <3>1, Sizes DEF Sized, FifoTypes, IsFIFO
    <3>. HIDE DEF f
    <3>3. /\ IsFIFO(transmit_fifo', TRANSMIT_FIFO_SIZE, KTransmit)
          /\ IsFIFO(interrupt_packet', MAX_PACKET_SIZE - 1, KTransmit)
      BY Zenon, <3>1, <3>2, FillTypes DEF Sized, FifoTypes
    <3>4. put' \in Byte(KTransmit)
      BY Zenon, <3>1, Sizes, NextByte DEF Sized, FifoTypes
    <3>5. IsFIFO(report', MAX_PACKET_SIZE - 1, KTransmit)
      BY SMTT(20), <3>1, Sizes DEF Sized, FifoTypes, IsFIFO
    <3>6. do_build_transmit_report' \in BOOLEAN
      BY Zenon, <3>1
    <3>7. ASSUME do_build_transmit_report'
          PROVE  Len(report') + 2 <= desired_transmit_report_length
      <4>1. build /\ Len(report) + 2 # desired_transmit_report_length
        BY Zenon, <3>1, <3>7
      <4>2. /\ Len(report) \in Nat /\ desired_transmit_report_length \in Nat
            /\ Len(report) + 2 <= desired_transmit_report_length
            /\ Len(Append(report, put)) = Len(report) + 1
        BY <4>1, Sizes DEF Sized, FifoTypes, IsFIFO
      <4>3. report' = Append(report, put)
        BY Zenon, <3>1, <4>1
      <4>. QED BY <4>1, <4>2, <4>3
    <3>. QED BY Zenon, <3>1, <3>3, <3>4, <3>5, <3>6, <3>7, SameSizes DEF Sized, FifoTypes
  <2>. QED BY Zenon, <2>1, <2>2
<1>. QED BY Zenon, <1>1, <1>2, <1>3, <1>4 DEF Application

LEMMA FifosAfterHost ==
  ASSUME Sized, env' = env, Host
  PROVE  FifoTypes'
<1>. USE DEF deviceVars, interruptVars, appVars
<1>1. UNCHANGED <<fifos, interrupt_packet, getReportVars, put, taken>>
  BY Zenon DEF Host, ControlTransactions, HostSetup, HostReadsData, HostWritesData, HostReadsStatus, HostWritesStatus,
         HostSeesStall, HostPolls, HostWrites, HostResets, Transact
<1>2. sent' \in Byte(KReceive)
  <2>1. \/ sent' = sent
        \/ \E n \in Nat : sent' = (sent + n) % KReceive
    <3>1. ASSUME NEW a \in BOOLEAN, HostWritesData(a)
          PROVE  sent' = sent \/ \E n \in Nat : sent' = (sent + n) % KReceive
      <4>1. transfer.req.n \in Nat
        BY Sizes DEF Sized, HostTypes, Request
      <4>. QED BY Zenon, <3>1, <4>1 DEF HostWritesData
    <3>2. ASSUME NEW n \in 0 .. MAX_PACKET_SIZE - 1, NEW a \in BOOLEAN, HostWrites(n, a)
          PROVE  n \in Nat /\ (sent' = sent \/ sent' = (sent + n) % KReceive)
      BY <3>2, Sizes DEF HostWrites, Sized
    <3>. QED BY Zenon, <3>1, <3>2 DEF Host, ControlTransactions, HostSetup, HostReadsData, HostReadsStatus, HostWritesStatus,
                HostSeesStall, HostPolls, HostResets
  <2>. QED BY Zenon, <2>1, Sizes, NextByte DEF Sized, FifoTypes
<1>3. got' \in Byte(KTransmit)
  <2>1. got' = got \/ \E n \in Nat : got' = (got + n) % KTransmit
    <3>1. Len(report) \in Nat /\ Len(interrupt_packet) \in Nat
      BY DEF Sized, FifoTypes, IsFIFO
    <3>. QED BY Zenon, <3>1 DEF Host, ControlTransactions, HostSetup, HostReadsData, HostWritesData, HostReadsStatus,
                HostWritesStatus, HostSeesStall, HostPolls, HostWrites, HostResets
  <2>. QED BY Zenon, <2>1, Sizes, NextByte DEF Sized, FifoTypes
<1>. QED BY Zenon, <1>1, <1>2, <1>3, SameSizes DEF Sized, FifoTypes, fifos, getReportVars

\* The bytes that a data packet brings.
LEMMA EntryData ==
  ASSUME Sized, NEW i \in 1 .. Len(stat), stat[i].ev \in {"out0", "out2"}
  PROVE  stat[i].data \in Seq(Byte(KReceive)) /\ Len(stat[i].data) < MAX_PACKET_SIZE
BY Zenon DEF Sized, StatTypes, Entry

\* The entry that is handled.
LEMMA FirstEntry ==
  ASSUME IInv, stat # <<>>
  PROVE  /\ Len(stat) \in Nat /\ 1 \in 1 .. Len(stat) /\ Head(stat) = stat[1]
         /\ IsSeq(Tail(stat)) /\ Len(Tail(stat)) = Len(stat) - 1
         /\ \A i \in 1 .. Len(stat) - 1 : Tail(stat)[i] = stat[i + 1]
BY WithoutHead DEF IInv, Queue

LEMMA FifosAfterHandler ==
  ASSUME Sized, env' = env, USBHandler
  PROVE  FifoTypes'
<1>0. CASE usbFatalError
  BY Zenon, <1>0, SameFifos DEF Sized, usbFatalError, deviceVars, interruptVars, hostVars, appVars
<1>a. ASSUME UNCHANGED <<fifos, interrupt_packet, put, taken, sent, got>>, AbortGetReport
      PROVE  FifoTypes'
  <2>1. IsFIFO(<<>>, MAX_PACKET_SIZE - 1, KTransmit)
    BY Sizes DEF Sized, IsFIFO
  <2>. QED BY Zenon, <1>a, <2>1, SameSizes DEF Sized, FifoTypes, fifos, AbortGetReport
<1>1. CASE setReport
  BY Zenon, <1>0, <1>1, <1>a DEF setReport, SetupDone, interruptVars, hostVars, appVars
<1>2. CASE getDescriptor
  BY Zenon, <1>0, <1>2, <1>a DEF getDescriptor, SetupDone, interruptVars, hostVars, appVars
<1>3. CASE setConfiguration
  BY Zenon, <1>0, <1>3, <1>a DEF setConfiguration, hostVars, appVars
<1>4. CASE protocolStall
  BY Zenon, <1>0, <1>4, <1>a DEF protocolStall, SetupDone, interruptVars, hostVars, appVars
<1>5. CASE usbHALReset
  BY Zenon, <1>5, <1>a DEF usbHALReset, hostVars, appVars
<1>6. CASE controlTransmitCallback
  BY Zenon, <1>0, <1>6, SameFifos DEF Sized, controlTransmitCallback, interruptVars, hostVars, appVars
<1>7. CASE ep1TransmitCallback
  <2>1. CASE ~usbFatalError
    <3>1. /\ FillTransmitPacketBufferAndTransmit(transmit_fifo)
          /\ UNCHANGED <<receive_fifo, getReportVars, put, taken, sent, got>>
      BY Zenon, <1>7, <2>1 DEF ep1TransmitCallback, appVars, hostVars
    <3>2. /\ IsFIFO(transmit_fifo', TRANSMIT_FIFO_SIZE, KTransmit)
          /\ IsFIFO(interrupt_packet', MAX_PACKET_SIZE - 1, KTransmit)
      BY Zenon, <3>1, FillTypes DEF Sized, FifoTypes
    <3>. QED BY Zenon, <3>1, <3>2, SameSizes DEF Sized, FifoTypes, getReportVars
  <2>. QED BY Zenon, <1>0, <2>1
<1>8. ASSUME NEW data \in Seq(Byte(KReceive)),
             Len(data) <= circularBufferSpaceRemaining(receive_fifo)
      PROVE  IsFIFO(receive_fifo \o data, RECEIVE_FIFO_SIZE, KReceive)
  BY <1>8, Sizes DEF Sized, FifoTypes, IsFIFO, circularBufferSpaceRemaining
<1>9. CASE ep2ReceiveCallback
  <2>1. CASE ~usbFatalError
    <3>1. /\ stat # <<>> /\ Head(stat).ev = "out2"
          /\ UNCHANGED <<transmit_fifo, interrupt_packet, getReportVars, put, taken, sent, got>>
          /\ \/ receive_fifo' = receive_fifo
             \/ /\ receive_fifo' = receive_fifo \o Head(stat).data
                /\ ~(Len(Head(stat).data) > circularBufferSpaceRemaining(receive_fifo))
      BY Zenon, <1>9, <2>1 DEF ep2ReceiveCallback, Handling, appVars, hostVars
    <3>2. Head(stat).data \in Seq(Byte(KReceive))
      BY Zenon, <3>1, FirstEntry, EntryData DEF Sized
    <3>3. IsFIFO(receive_fifo', RECEIVE_FIFO_SIZE, KReceive)
      <4>1. circularBufferSpaceRemaining(receive_fifo) \in Int /\ Len(Head(stat).data) \in Nat
        BY SMTT(30), <3>2, Sizes DEF Sized, FifoTypes, IsFIFO, circularBufferSpaceRemaining
      <4>2. CASE receive_fifo' = receive_fifo
        BY Zenon, <4>2 DEF Sized, FifoTypes
      <4>3. CASE ~(Len(Head(stat).data) > circularBufferSpaceRemaining(receive_fifo))
        <5>1. Len(Head(stat).data) <= circularBufferSpaceRemaining(receive_fifo)
          BY <4>1, <4>3
        <5>2. IsFIFO(receive_fifo \o Head(stat).data, RECEIVE_FIFO_SIZE, KReceive)
          BY Zenon, <1>8, <3>2, <5>1
        <5>. QED BY Zenon, <3>1, <4>2, <5>2
      <4>. QED BY Zenon, <3>1, <4>2, <4>3
    <3>. QED BY Zenon, <3>1, <3>3, SameSizes DEF Sized, FifoTypes, getReportVars
  <2>. QED BY Zenon, <1>0, <2>1
<1>10. CASE controlReceiveCallback
  <2>1. CASE ~usbFatalError
    <3>1. /\ stat # <<>> /\ Head(stat).ev = "out0"
          /\ UNCHANGED <<transmit_fifo, interrupt_packet, report, desired_transmit_report_length,
                         put, taken, sent, got>>
          /\ \E stall \in BOOLEAN : do_build_transmit_report' = (do_build_transmit_report /\ ~stall)
          /\ \/ receive_fifo' = receive_fifo
             \/ /\ receive_fifo' = receive_fifo \o Head(stat).data
                /\ ~(Len(Head(stat).data) > circularBufferSpaceRemaining(receive_fifo))
      BY Zenon, <1>10, <2>1 DEF controlReceiveCallback, Handling, appVars, hostVars, interruptVars
    <3>2. Head(stat).data \in Seq(Byte(KReceive))
      BY Zenon, <3>1, FirstEntry, EntryData DEF Sized
    <3>3. IsFIFO(receive_fifo', RECEIVE_FIFO_SIZE, KReceive)
      <4>1. circularBufferSpaceRemaining(receive_fifo) \in Int /\ Len(Head(stat).data) \in Nat
        BY <3>2, Sizes DEF Sized, FifoTypes, IsFIFO, circularBufferSpaceRemaining
      <4>2. CASE receive_fifo' = receive_fifo
        BY Zenon, <4>2 DEF Sized, FifoTypes
      <4>3. CASE ~(Len(Head(stat).data) > circularBufferSpaceRemaining(receive_fifo))
        <5>1. Len(Head(stat).data) <= circularBufferSpaceRemaining(receive_fifo)
          BY <4>1, <4>3
        <5>2. IsFIFO(receive_fifo \o Head(stat).data, RECEIVE_FIFO_SIZE, KReceive)
          BY Zenon, <1>8, <3>2, <5>1
        <5>. QED BY Zenon, <3>1, <4>2, <5>2
      <4>. QED BY Zenon, <3>1, <4>2, <4>3
    <3>4. /\ do_build_transmit_report' \in BOOLEAN
          /\ do_build_transmit_report' => do_build_transmit_report
      BY Zenon, <3>1
    <3>. QED BY Zenon, <3>1, <3>3, <3>4, SameSizes DEF Sized, FifoTypes
  <2>. QED BY Zenon, <1>0, <2>1
<1>11. CASE getReport
  <2>1. CASE ~usbFatalError
    <3>. DEFINE n == Head(stat).req.n
                packet == Drop(QueuedPacket, n)
                fifo == Drop(transmit_fifo, n - Least(n, Len(QueuedPacket)))
                complete == n <= Len(PacketThenFIFO)
    <3>1. /\ Handling("setup") /\ Head(stat).req.kind = "GetReport"
          /\ report' = Prefix(PacketThenFIFO, n)
          /\ desired_transmit_report_length' = n + 1
          /\ do_build_transmit_report' = ~complete
          /\ \/ FillTransmitPacketBufferAndTransmit(fifo)
             \/ interrupt_packet' = packet /\ transmit_fifo' = fifo
          /\ UNCHANGED <<receive_fifo, put, taken, sent, got>>
      BY Zenon, <1>11, <2>1 DEF getReport, Setup, SetupDone, appVars, hostVars
    <3>2. n \in 0 .. MAX_PACKET_SIZE - 1
      <4>1. IsEntry(Head(stat)) /\ Head(stat).ev = "setup"
        BY Zenon, <3>1, SetupAlone DEF Sized, Handling
      <4>. QED BY Zenon, <3>1, <4>1, Sizes DEF Sized, IsEntry, Request
    <3>. HIDE DEF n
    <3>3. IsFIFO(QueuedPacket, MAX_PACKET_SIZE - 1, KTransmit)
      BY Sizes DEF Sized, FifoTypes, QueuedPacket, IsFIFO
    <3>4. PICK all : /\ all = PacketThenFIFO /\ Len(all) \in Nat
                     /\ IsFIFO(all, Len(all), KTransmit)
      <4>1. QueuedPacket \in Seq(Byte(KTransmit)) /\ transmit_fifo \in Seq(Byte(KTransmit))
        BY Zenon, <3>3 DEF Sized, FifoTypes, IsFIFO
      <4>2. PICK a, b, S : a = QueuedPacket /\ b = transmit_fifo /\ S = Byte(KTransmit)
        BY Zenon
      <4>3. a \o b \in Seq(S) /\ Len(a \o b) \in Nat
        BY <4>1, <4>2
      <4>4. Len(a \o b) <= Len(a \o b)
        BY <4>3
      <4>5. IsFIFO(a \o b, Len(a \o b), KTransmit)
        BY Zenon, <4>2, <4>3, <4>4 DEF IsFIFO
      <4>. QED BY Zenon, <4>2, <4>3, <4>5 DEF PacketThenFIFO
    <3>5. /\ IsFIFO(report', n, KTransmit) /\ Len(report') = Least(n, Len(all))
      <4>1. n \in Nat
        BY <3>2, Sizes DEF Sized
      <4>2. IsFIFO(Prefix(all, n), n, KTransmit) /\ Len(Prefix(all, n)) = Least(n, Len(all))
        BY ONLY <3>4, <4>1, PrefixFIFO
      <4>. QED BY Zenon, <3>1, <3>4, <4>2
    <3>6. IsFIFO(report', MAX_PACKET_SIZE - 1, KTransmit)
      BY <3>2, <3>5, Sizes DEF Sized, IsFIFO
    <3>7. do_build_transmit_report' \in BOOLEAN
      BY Zenon, <3>1
    <3>8. ASSUME do_build_transmit_report'
          PROVE  Len(report') + 2 <= n + 1
      <4>1. ~(n <= Len(all))
        BY Zenon, <3>1, <3>4, <3>8
      <4>. QED BY <3>2, <3>4, <3>5, <4>1, Sizes DEF Sized, Least
    <3>9. IsFIFO(packet, MAX_PACKET_SIZE - 1, KTransmit)
      BY <3>2, <3>3, Sizes, DropFIFO DEF Sized
    <3>10. IsFIFO(fifo, TRANSMIT_FIFO_SIZE, KTransmit)
      <4>1. PICK m \in Nat : m = n - Least(n, Len(QueuedPacket))
        <5>1. Len(QueuedPacket) \in Nat
          BY <3>3 DEF IsFIFO
        <5>2. n \in Nat
          BY <3>2, Sizes DEF Sized
        <5>. QED BY <5>1, <5>2 DEF Least
      <4>2. TRANSMIT_FIFO_SIZE \in Nat
        BY Zenon, Sizes DEF Sized
      <4>. QED BY Zenon, <4>1, <4>2, DropFIFO DEF Sized, FifoTypes
    <3>. HIDE DEF packet, fifo
    <3>11. /\ IsFIFO(transmit_fifo', TRANSMIT_FIFO_SIZE, KTransmit)
           /\ IsFIFO(interrupt_packet', MAX_PACKET_SIZE - 1, KTransmit)
      BY Zenon, <3>1, <3>9, <3>10, FillTypes
    <3>12. n + 1 \in 0 .. MAX_PACKET_SIZE
      BY <3>2, Sizes DEF Sized
    <3>. QED BY Zenon, <3>1, <3>6, <3>7, <3>8, <3>11, <3>12, SameSizes DEF Sized, FifoTypes
  <2>. QED BY Zenon, <1>0, <2>1
<1>. QED BY Zenon, <1>1, <1>2, <1>3, <1>4, <1>5, <1>6, <1>7, <1>9, <1>10, <1>11 DEF USBHandler

\* An entry of U1STAT is handled and removed; there was no other of its kind.
LEMMA HeadGone ==
  ASSUME Sized, NEW ev, Handling(ev), stat' = Tail(stat)
  PROVE  /\ Pending(ev) /\ ~Pending(ev)'
         /\ \A x : x # ev => (Pending(x)' <=> Pending(x))
         /\ Len(stat') = Len(stat) - 1 /\ Len(stat) \in Nat \ {0}
         /\ \A i \in 1 .. Len(stat') : i + 1 \in 1 .. Len(stat) /\ stat'[i] = stat[i + 1]
<1>1. stat # <<>> /\ Head(stat).ev = ev
  BY Zenon DEF Handling
<1>2. /\ Len(stat) \in Nat \ {0} /\ 1 \in 1 .. Len(stat) /\ stat[1].ev = ev
      /\ Len(stat') = Len(stat) - 1
      /\ \A i \in 1 .. Len(stat) - 1 : stat'[i] = stat[i + 1]
  BY <1>1, FirstEntry DEF Sized
<1>3. \A i \in 1 .. Len(stat') : i + 1 \in 1 .. Len(stat) /\ i + 1 # 1 /\ stat'[i] = stat[i + 1]
  BY <1>2
<1>4. \A i \in 1 .. Len(stat) : i # 1 => stat[i].ev # ev
  <2>1. CASE ev = "in0"
    BY Zenon, <1>2, <2>1 DEF Sized, ReadOnce
  <2>2. CASE ev # "in0"
    <3>1. \A i \in 1 .. Len(stat) : i # 1 => Buffer(stat[i].ev) # Buffer(stat[1].ev)
      BY Zenon, <1>2, <2>2 DEF Sized, IInv, Queue
    <3>. QED BY Zenon, <1>2, <3>1
  <2>. QED BY Zenon, <2>1, <2>2
<1>5. \A i \in 1 .. Len(stat) : i # 1 => i - 1 \in 1 .. Len(stat') /\ stat'[i - 1] = stat[i]
  BY <1>2
<1>6. ~Pending(ev)'
  BY Zenon, <1>3, <1>4 DEF Pending
<1>7. ASSUME NEW x, x # ev PROVE Pending(x)' <=> Pending(x)
  <2>1. ASSUME NEW i \in 1 .. Len(stat'), stat'[i].ev = x PROVE Pending(x)
    BY ONLY Zenon, <1>3, <2>1 DEF Pending
  <2>2. ASSUME NEW i \in 1 .. Len(stat), stat[i].ev = x PROVE Pending(x)'
    <3>1. i # 1
      BY ONLY Zenon, <1>2, <1>7, <2>2
    <3>. QED BY ONLY Zenon, <1>5, <2>2, <3>1 DEF Pending
  <2>. QED BY ONLY Zenon, <2>1, <2>2 DEF Pending
<1>. QED BY Zenon, <1>2, <1>3, <1>6, <1>7 DEF Pending

LEMMA StatTail ==
  ASSUME Sized, env' = env, NEW ev, Handling(ev), stat' = Tail(stat)
  PROVE  /\ StatTypes'
         /\ \A i, j \in 1 .. Len(stat') : stat'[i].ev = "in0" /\ stat'[j].ev = "in0" => i = j
<1>1. \A i \in 1 .. Len(stat') : i + 1 \in 1 .. Len(stat) /\ stat'[i] = stat[i + 1]
  BY Zenon, HeadGone
<1>2. Entry' = Entry
  BY Zenon, SameSizes DEF Entry
<1>3. StatTypes'
  BY Zenon, <1>1, <1>2, SameSizes DEF Sized, StatTypes
<1>4. ASSUME NEW i \in 1 .. Len(stat'), NEW j \in 1 .. Len(stat'), stat'[i].ev = "in0", stat'[j].ev = "in0"
      PROVE  i = j
  <2>1. i + 1 = j + 1
    BY Zenon, <1>1, <1>4 DEF Sized, ReadOnce
  <2>. QED BY <2>1, HeadGone
<1>. QED BY Zenon, <1>3, <1>4

LEMMA StatAppend ==
  ASSUME Sized, env' = env, NEW bd, NEW e, Transact(bd, e), e \in Entry,
         e.ev \in {"out0", "out2"} => Len(e.data) < MAX_PACKET_SIZE,
         e.ev = "in0" => ~Pending("in0")
  PROVE  /\ StatTypes'
         /\ \A i, j \in 1 .. Len(stat') : stat'[i].ev = "in0" /\ stat'[j].ev = "in0" => i = j
         /\ \A ev : Pending(ev)' <=> Pending(ev) \/ ev = e.ev
<1>. DEFINE n == Len(stat)
<1>1. /\ n \in Nat /\ Len(stat') = n + 1
      /\ \A i \in 1 .. n : stat'[i] = stat[i]
      /\ stat'[n + 1] = e
  BY Appended DEF Sized, IInv, Queue, Transact
<1>2. \A i \in 1 .. n + 1 : i \in 1 .. n \/ i = n + 1
  BY <1>1
<1>3. Entry' = Entry
  BY Zenon, SameSizes DEF Entry
<1>4. StatTypes'
  BY Zenon, <1>1, <1>2, <1>3, SameSizes DEF Sized, StatTypes
<1>5. ASSUME NEW i \in 1 .. n + 1, NEW j \in 1 .. n + 1, stat'[i].ev = "in0", stat'[j].ev = "in0"
      PROVE  i = j
  BY Zenon, <1>1, <1>2, <1>5 DEF Sized, ReadOnce, Pending
<1>6. \A ev : Pending(ev)' <=> Pending(ev) \/ ev = e.ev
  BY <1>1, <1>2 DEF Pending
<1>. QED BY Zenon, <1>1, <1>4, <1>5, <1>6

LEMMA SameDriver ==
  ASSUME DriverTypes, env' = env, fatal' \in BOOLEAN, pc' \in {"ready", "reading", "read", "writing"},
         UNCHANGED <<stalled, urstif, expect_control_report, current_stage, transmit_remaining,
                     data_sequence>>,
         uown' \subseteq uown \cup {"rx0", "tx0", "tx1", "rx2"}
  PROVE  DriverTypes'
BY Zenon, SameSizes DEF DriverTypes

LEMMA DriverAfterApplication ==
  ASSUME Sized, env' = env, Application
  PROVE  DriverTypes'
<1>. USE DEF deviceVars, setReportVars, controlVars, busVars, appVars
<1>1. pc' \in {"ready", "reading", "read", "writing"}
  BY Zenon DEF Application, CallGet, CallPut, circularBufferRead, streamGetOneByte, streamPutOneByte,
         usbFatalError, Sized, DriverTypes
<1>2. fatal' \in BOOLEAN
  BY Zenon DEF Application, CallGet, CallPut, circularBufferRead, streamGetOneByte, streamPutOneByte,
         usbFatalError, Sized, DriverTypes
<1>3. /\ UNCHANGED <<stalled, urstif, expect_control_report, current_stage, data_sequence>>
      /\ transmit_remaining' \in {0, transmit_remaining}
      /\ uown' \subseteq uown \cup {"rx0", "tx0", "tx1", "rx2"}
  <2>1. CASE CallGet \/ CallPut \/ circularBufferRead \/ streamGetOneByte
    BY Zenon, <2>1 DEF CallGet, CallPut, circularBufferRead, streamGetOneByte, usbFatalError
  <2>2. CASE streamPutOneByte
    BY Zenon, <2>2 DEF streamPutOneByte, usbFatalError, FilledOwner
  <2>. QED BY Zenon, <2>1, <2>2 DEF Application
<1>. QED BY Zenon, <1>1, <1>2, <1>3, SameSizes DEF Sized, DriverTypes

LEMMA DriverAfterHost ==
  ASSUME Sized, env' = env, Host
  PROVE  DriverTypes'
<1>. USE DEF deviceVars, setReportVars, controlVars, busVars, appVars
<1>1. /\ UNCHANGED <<fatal, pc, expect_control_report, current_stage, data_sequence, transmit_remaining>>
      /\ stalled' \in {FALSE, stalled} /\ urstif' \in {TRUE, urstif}
      /\ uown' \subseteq uown
  BY Zenon DEF Host, ControlTransactions, HostSetup, HostReadsData, HostWritesData, HostReadsStatus, HostWritesStatus,
         HostSeesStall, HostPolls, HostWrites, HostResets, Transact
<1>. QED BY Zenon, <1>1, SameSizes DEF Sized, DriverTypes

LEMMA DriverAfterHandler ==
  ASSUME Sized, env' = env, USBHandler
  PROVE  DriverTypes'
<1>. USE DEF setReportVars, controlVars, busVars, appVars
<1>0. CASE usbFatalError
  BY Zenon, <1>0, SameDriver DEF Sized, DriverTypes, usbFatalError, deviceVars
<1>1. /\ NoReport \in NoReport .. MAX_PACKET_SIZE - 1
      /\ \A s \in {0, 1} : 1 - s \in {0, 1}
  BY Sizes DEF Sized, NoReport
<1>2. CASE getReport /\ ~usbFatalError
  BY Zenon, <1>1, <1>2, SameSizes DEF getReport, SetupDone, AbortSetReport, FilledOwner, Sized, DriverTypes
<1>3. CASE setReport /\ ~usbFatalError
  <2>1. Head(stat).req.n \in NoReport .. MAX_PACKET_SIZE - 1
    <3>1. IsEntry(Head(stat)) /\ Head(stat).ev = "setup" /\ Head(stat).req.kind = "SetReport"
      BY Zenon, <1>3, SetupAlone DEF Sized, setReport, Setup, Handling
    <3>. QED BY <3>1, Sizes DEF Sized, IsEntry, Request, NoReport
  <2>. QED BY Zenon, <1>3, <2>1, SameSizes DEF setReport, SetupDone, Sized, DriverTypes
<1>4. CASE getDescriptor /\ ~usbFatalError
  <2>1. transmit_remaining' \in {0} \cup MAX_PACKET_SIZE .. 2 * MAX_PACKET_SIZE
    <3>1. IsEntry(Head(stat)) /\ Head(stat).ev = "setup" /\ Head(stat).req.kind = "GetDescriptor"
      BY Zenon, <1>4, SetupAlone DEF Sized, getDescriptor, Setup, Handling
    <3>2. Head(stat).req.n \in 1 .. 2 * MAX_PACKET_SIZE
      BY Zenon, <3>1, Sizes DEF Sized, IsEntry, Request
    <3>. QED BY <1>4, <3>2, Sizes DEF getDescriptor, ExtendedTransmit, Sized
  <2>. QED BY Zenon, <1>1, <1>4, <2>1, SameSizes DEF getDescriptor, SetupDone, AbortSetReport, Sized, DriverTypes
<1>5. CASE setConfiguration /\ ~usbFatalError
  <2>1. Head(stat).req.n \in {0, 1}
    <3>1. IsEntry(Head(stat)) /\ Head(stat).ev = "setup" /\ Head(stat).req.kind = "SetConfiguration"
      BY Zenon, <1>5, SetupAlone DEF Sized, setConfiguration, Setup, Handling
    <3>. QED BY Zenon, <3>1 DEF IsEntry, Request
  <2>2. OwnedAfter(Head(stat).req.n, uown) \subseteq uown \cup {"rx2"}
    BY Zenon, <2>1 DEF Sized, IInv, Types, OwnedAfter
  <2>. QED BY Zenon, <1>1, <1>5, <2>2, SameSizes DEF setConfiguration, AbortSetReport, Sized, DriverTypes
<1>6. CASE protocolStall /\ ~usbFatalError
  BY Zenon, <1>1, <1>6, SameSizes DEF protocolStall, SetupDone, AbortSetReport, Sized, DriverTypes
<1>7. CASE controlReceiveCallback /\ ~usbFatalError
  <2>1. /\ expect_control_report' \in {NoReport, expect_control_report}
        /\ \E stall \in BOOLEAN : stalled' = (stalled \/ stall)
        /\ data_sequence'  \in {[data_sequence EXCEPT ![0] = s] : s \in {0, 1, data_sequence[0], 1 - data_sequence[0]}}
        /\ transmit_remaining' \in {0, transmit_remaining}
        /\ uown' \subseteq uown \cup {"rx0", "tx0"}
        /\ UNCHANGED <<urstif, fatal, pc>>
    BY Zenon, <1>7 DEF controlReceiveCallback
  <2>2. current_stage' \in {"SETUP", "DATA", "STATUS"}
    BY Zenon, <1>7 DEF controlReceiveCallback, Sized, DriverTypes
  <2>3. stalled' \in BOOLEAN
    BY Zenon, <2>1
  <2>. QED BY Zenon, <1>1, <2>1, <2>2, <2>3, SameSizes DEF Sized, DriverTypes
<1>8. CASE controlTransmitCallback /\ ~usbFatalError
  <2>1. transmit_remaining' \in {0} \cup MAX_PACKET_SIZE .. 2 * MAX_PACKET_SIZE
    BY <1>8, Sizes DEF controlTransmitCallback, ExtendedTransmit, Sized, DriverTypes
  <2>2. current_stage' \in {"SETUP", "DATA", "STATUS"}
    BY Zenon, <1>8 DEF controlTransmitCallback, Sized, DriverTypes
  <2>3. data_sequence' \in [{0, 2} -> {0, 1}]
    BY Zenon, <1>1, <1>8 DEF controlTransmitCallback, Sized, DriverTypes
  <2>4. /\ uown' \subseteq uown \cup {"tx0"}
        /\ UNCHANGED <<stalled, urstif, fatal, pc, expect_control_report>>
    BY Zenon, <1>8 DEF controlTransmitCallback
  <2>. QED BY Zenon, <2>1, <2>2, <2>3, <2>4, SameSizes DEF Sized, DriverTypes
<1>9. CASE ep1TransmitCallback /\ ~usbFatalError
  BY Zenon, <1>9, SameDriver DEF ep1TransmitCallback, FilledOwner, Sized, DriverTypes
<1>10. CASE ep2ReceiveCallback /\ ~usbFatalError
  BY Zenon, <1>1, <1>10, SameSizes DEF ep2ReceiveCallback, Sized, DriverTypes
<1>11. CASE usbHALReset
  <2>1. OwnedAfter(0, uown) \subseteq uown
    BY DEF Sized, IInv, Types, OwnedAfter
  <2>. QED BY Zenon, <1>1, <1>11, <2>1, SameSizes DEF usbHALReset, AbortSetReport, Sized, DriverTypes
<1>. QED BY Zenon, <1>0, <1>2, <1>3, <1>4, <1>5, <1>6, <1>7, <1>8, <1>9, <1>10, <1>11 DEF USBHandler

\* What the application does leaves U1STAT and the host alone.
LEMMA ReadOnceAfterApplication ==
  ASSUME Sized, env' = env, Application
  PROVE  HostTypes' /\ StatTypes' /\ ReadOnce'
<1>. USE DEF deviceVars, setReportVars, getReportVars, busVars, hostVars
<1>1. UNCHANGED <<stat, hostVars, pktdis, expect_control_report>>
  BY Zenon DEF Application, CallGet, CallPut, circularBufferRead, streamGetOneByte, streamPutOneByte,
         usbFatalError
<1>2. /\ do_build_transmit_report' => do_build_transmit_report
      /\ "tx0" \in uown' => "tx0" \in uown \/ do_build_transmit_report
  <2>1. CASE CallGet \/ CallPut \/ circularBufferRead \/ streamGetOneByte
    BY <2>1 DEF CallGet, CallPut, circularBufferRead, streamGetOneByte, usbFatalError
  <2>2. CASE streamPutOneByte
    <3>. DEFINE complete == do_build_transmit_report /\ Len(report) + 2 = desired_transmit_report_length
    <3>1. CASE usbFatalError
      BY Zenon, <3>1 DEF usbFatalError
    <3>2. CASE ~usbFatalError
      <4>1. /\ do_build_transmit_report' = (do_build_transmit_report /\ ~complete)
            /\ "tx0" \in uown' => "tx0" \in uown \/ complete
        BY <2>2, <3>2 DEF streamPutOneByte, FilledOwner
      <4>. QED BY Zenon, <4>1
    <3>. QED BY Zenon, <3>1, <3>2
  <2>. QED BY Zenon, <2>1, <2>2 DEF Application
<1>3. HostTypes'
  BY Zenon, <1>1, SameSizes DEF Sized, HostTypes
<1>4. Entry' = Entry
  BY Zenon, SameSizes DEF Entry
<1>5. StatTypes'
  BY Zenon, <1>1, <1>4, SameSizes DEF Sized, StatTypes
<1>6. ReadOnce'
  BY Zenon, <1>1, <1>2 DEF Sized, ReadOnce, Pending
<1>. QED BY Zenon, <1>3, <1>5, <1>6

\* The handler removes at most the first entry.
LEMMA ReadOnceAfterHandler ==
  ASSUME Sized, env' = env, USBHandler
  PROVE  HostTypes' /\ StatTypes' /\ ReadOnce'
<1>. USE DEF setReportVars, getReportVars, busVars, hostVars
<1>1. UNCHANGED <<transfer, host_sequence, unacknowledged>>
  BY Zenon DEF USBHandler, getReport, setReport, getDescriptor, setConfiguration, protocolStall, SetupDone,
         controlReceiveCallback, controlTransmitCallback, ep1TransmitCallback, ep2ReceiveCallback,
         usbHALReset, usbFatalError
<1>2. HostTypes'
  BY Zenon, <1>1, SameSizes DEF Sized, HostTypes
<1>3. Entry' = Entry
  BY Zenon, SameSizes DEF Entry
<1>4. ASSUME stat' = stat PROVE StatTypes'
  BY Zenon, <1>3, <1>4, SameSizes DEF Sized, StatTypes
<1>5. CASE usbFatalError
  <2>1. UNCHANGED <<stat, pktdis, uown, expect_control_report, do_build_transmit_report>>
    BY Zenon, <1>5 DEF usbFatalError, deviceVars
  <2>2. ReadOnce'
    BY Zenon, <1>1, <2>1 DEF Sized, ReadOnce, Pending
  <2>. QED BY Zenon, <1>2, <1>4, <2>1, <2>2
<1>6. CASE usbHALReset
  <2>1. UNCHANGED <<stat, pktdis>> /\ stat = <<>> /\ ~do_build_transmit_report' /\ expect_control_report' = NoReport
    BY Zenon, <1>6 DEF usbHALReset, AbortGetReport, AbortSetReport
  <2>2. ~Pending("in0")'
    BY <2>1 DEF Pending
  <2>3. ReadOnce'
    BY Zenon, <1>1, <2>1, <2>2 DEF Sized, ReadOnce, Pending
  <2>. QED BY Zenon, <1>2, <1>4, <2>1, <2>3
<1>7. ASSUME Handling("setup"), stat' = Tail(stat), pktdis' = FALSE,
             expect_control_report' # NoReport => Head(stat).req.kind = "SetReport",
             do_build_transmit_report' => Head(stat).req.kind = "GetReport"
      PROVE  StatTypes' /\ ReadOnce'
  <2>1. StatTypes' /\ \A i, j \in 1 .. Len(stat') : stat'[i].ev = "in0" /\ stat'[j].ev = "in0" => i = j
    BY Zenon, <1>7, StatTail
  <2>2. Len(stat') = 0
    BY Zenon, <1>7, SetupAlone DEF Sized
  <2>3. transfer.req = Head(stat).req
    BY Zenon, <1>7, FirstEntry DEF Sized, ReadOnce, Handling
  <2>4. ReadOnce'
    BY <1>1, <1>7, <2>2, <2>3 DEF ReadOnce, Pending
  <2>. QED BY Zenon, <2>1, <2>4
<1>8. CASE ~usbFatalError /\ (getReport \/ setReport \/ getDescriptor \/ setConfiguration \/ protocolStall)
  <2>1. /\ Handling("setup") /\ stat' = Tail(stat) /\ pktdis' = FALSE
        /\ expect_control_report' # NoReport => Head(stat).req.kind = "SetReport"
        /\ do_build_transmit_report' => Head(stat).req.kind = "GetReport"
    BY Zenon, <1>8 DEF getReport, setReport, getDescriptor, setConfiguration, protocolStall, SetupDone, Setup,
         AbortGetReport, AbortSetReport
  <2>. QED BY Zenon, <1>2, <1>7, <2>1
<1>9. ASSUME NEW ev \in {"out0", "in0", "in1", "out2"}, Handling(ev), stat' = Tail(stat), pktdis' = pktdis,
             expect_control_report' # NoReport => expect_control_report # NoReport,
             do_build_transmit_report' => do_build_transmit_report,
             ev # "in0" /\ "tx0" \in uown' => "tx0" \in uown \/ expect_control_report # NoReport
      PROVE  StatTypes' /\ ReadOnce'
  <2>1. StatTypes' /\ \A i, j \in 1 .. Len(stat') : stat'[i].ev = "in0" /\ stat'[j].ev = "in0" => i = j
    BY Zenon, <1>9, StatTail
  <2>2. /\ ~Pending(ev)' /\ \A x : x # ev => (Pending(x)' <=> Pending(x))
        /\ \A i \in 1 .. Len(stat') : i + 1 \in 1 .. Len(stat) /\ stat'[i] = stat[i + 1]
    BY Zenon, <1>9, HeadGone
  <2>3. Pending("setup")' <=> Pending("setup")
    BY Zenon, <2>2
  <2>4. Pending("in0")' => Pending("in0") /\ ev # "in0"
    BY Zenon, <2>2
  <2>5. \A i \in 1 .. Len(stat') : stat'[i].ev = "setup" =>
           transfer'.req = stat'[i].req /\ transfer'.left = stat'[i].req.n
    BY Zenon, <1>1, <2>2 DEF Sized, ReadOnce
  <2>6. ReadOnce'
    BY Zenon, <1>1, <1>9, <2>1, <2>3, <2>4, <2>5 DEF Sized, ReadOnce
  <2>. QED BY Zenon, <2>1, <2>6
<1>10. CASE ~usbFatalError /\ controlReceiveCallback
  <2>1. /\ Handling("out0") /\ stat' = Tail(stat) /\ pktdis' = pktdis
        /\ expect_control_report' # NoReport => expect_control_report # NoReport
        /\ do_build_transmit_report' => do_build_transmit_report
        /\ "tx0" \in uown' => "tx0" \in uown \/ expect_control_report # NoReport
    <3>1. /\ Handling("out0") /\ stat' = Tail(stat) /\ pktdis' = pktdis
          /\ expect_control_report' # NoReport => expect_control_report # NoReport
          /\ \E stall : do_build_transmit_report' = (do_build_transmit_report /\ ~stall)
          /\ "tx0" \in uown' => "tx0" \in uown \/ expect_control_report # NoReport
      BY <1>10 DEF controlReceiveCallback
    <3>. QED BY Zenon, <3>1
  <2>. QED BY Zenon, <1>2, <1>9, <2>1
<1>11. CASE ~usbFatalError /\ controlTransmitCallback
  <2>1. /\ Handling("in0") /\ stat' = Tail(stat) /\ pktdis' = pktdis
        /\ UNCHANGED <<expect_control_report, do_build_transmit_report>>
    BY Zenon, <1>11 DEF controlTransmitCallback
  <2>. QED BY Zenon, <1>2, <1>9, <2>1
<1>12. CASE ~usbFatalError /\ ep1TransmitCallback
  <2>1. /\ Handling("in1") /\ stat' = Tail(stat) /\ pktdis' = pktdis
        /\ "tx0" \in uown' => "tx0" \in uown
        /\ UNCHANGED <<expect_control_report, do_build_transmit_report>>
    BY <1>12 DEF ep1TransmitCallback, FilledOwner
  <2>. QED BY Zenon, <1>2, <1>9, <2>1
<1>13. CASE ~usbFatalError /\ ep2ReceiveCallback
  <2>1. /\ Handling("out2") /\ stat' = Tail(stat) /\ pktdis' = pktdis
        /\ "tx0" \in uown' => "tx0" \in uown
        /\ UNCHANGED <<expect_control_report, do_build_transmit_report>>
    BY <1>13 DEF ep2ReceiveCallback
  <2>. QED BY Zenon, <1>2, <1>9, <2>1
<1>. QED BY Zenon, <1>5, <1>6, <1>8, <1>10, <1>11, <1>12, <1>13 DEF USBHandler

\* What is common to the transactions other than SETUP.
LEMMA ReadOnceTransact ==
  ASSUME Sized, env' = env, NEW bd, NEW e, Transact(bd, e), e \in Entry, e.ev # "setup", pktdis' = pktdis,
         e.ev \in {"out0", "out2"} => Len(e.data) < MAX_PACKET_SIZE,
         e.ev = "in0" => ~Pending("in0"),
         transfer'.phase # "none" => transfer.phase # "none" /\ transfer'.req = transfer.req,
         Pending("in0") \/ e.ev = "in0" =>
            /\ transfer'.phase # "dataOut"
            /\ transfer'.phase \in {"dataIn", "statusIn"} =>
                 "tx0" \notin uown' /\ ~do_build_transmit_report /\ expect_control_report = NoReport
  PROVE  StatTypes' /\ ReadOnce'
<1>1. ~pktdis /\ UNCHANGED <<do_build_transmit_report, expect_control_report>>
  BY Zenon DEF Transact, BusReady, deviceVars, getReportVars, setReportVars
<1>2. /\ StatTypes'
      /\ \A i, j \in 1 .. Len(stat') : stat'[i].ev = "in0" /\ stat'[j].ev = "in0" => i = j
      /\ \A ev : Pending(ev)' <=> Pending(ev) \/ ev = e.ev
  BY Zenon, StatAppend
<1>3. ~Pending("setup")
  BY Zenon, <1>1 DEF Sized, IInv, Queue, Pending
<1>4. ~Pending("setup")'
  BY Zenon, <1>2, <1>3
<1>5. \A i \in 1 .. Len(stat') : stat'[i].ev # "setup"
  BY Zenon, <1>4 DEF Pending
<1>6. ReadOnce'
  BY Zenon, <1>1, <1>2, <1>5 DEF Sized, ReadOnce
<1>. QED BY Zenon, <1>2, <1>6

\* While nothing is abandoned, a request is in the phase that suits it.
LEMMA Phases ==
  ASSUME Sized
  PROVE  /\ transfer.req \in Request(MAX_PACKET_SIZE) /\ transfer.left \in 0 .. 2 * MAX_PACKET_SIZE
         /\ transfer.phase \in Phase
         /\ transfer.phase = "dataOut" => transfer.req.kind = "SetReport"
         /\ transfer.phase \in {"dataIn", "statusOut"} =>
              transfer.req.kind \in {"GetReport", "GetDescriptor", "Unsupported"}
BY Zenon DEF Sized, HostTypes, Phase

LEMMA TransferType ==
  ASSUME NEW r, NEW p, NEW l, NEW t, t = [req |-> r, phase |-> p, left |-> l],
         r \in Request(MAX_PACKET_SIZE), p \in Phase, l \in 0 .. 2 * MAX_PACKET_SIZE
  PROVE  /\ t \in [req : Request(MAX_PACKET_SIZE), phase : Phase, left : 0 .. 2 * MAX_PACKET_SIZE]
         /\ t.req = r /\ t.phase = p /\ t.left = l
BY Zenon

LEMMA NothingTransferred ==
  ASSUME Sized
  PROVE  /\ NoTransfer \in [req : Request(MAX_PACKET_SIZE), phase : Phase, left : 0 .. 2 * MAX_PACKET_SIZE]
         /\ NoTransfer.phase = "none"
BY Sizes DEF Sized, NoTransfer, Request, Phase

LEMMA ReadOnceAfterHost ==
  ASSUME Sized, env' = env, Host
  PROVE  HostTypes' /\ StatTypes' /\ ReadOnce'
<1>0. MAX_PACKET_SIZE \in Nat \ {0, 1} /\ KReceive \in Nat \ {0} /\ sent \in Byte(KReceive)
  BY Zenon, Sizes DEF Sized, FifoTypes
<1>. DEFINE T == [req : Request(MAX_PACKET_SIZE), phase : Phase, left : 0 .. 2 * MAX_PACKET_SIZE]
<1>1. /\ transfer \in T /\ transfer = [req |-> transfer.req, phase |-> transfer.phase, left |-> transfer.left]
      /\ host_sequence \in {0, 1} /\ unacknowledged \in -1 .. MAX_PACKET_SIZE - 1
  BY Zenon DEF Sized, HostTypes
<1>2. ASSUME NEW r \in Requests, HostSetup(r) PROVE HostTypes' /\ StatTypes' /\ ReadOnce'
  <2>. DEFINE e == [ev |-> "setup", req |-> r]
  <2>1. /\ Transact("rx0", e) /\ pktdis' = TRUE
        /\ transfer' = [req |-> r, phase |-> FirstPhase(r), left |-> r.n]
        /\ UNCHANGED <<host_sequence, unacknowledged>>
    BY Zenon, <1>2 DEF HostSetup
  <2>2. r \in Request(MAX_PACKET_SIZE)
    BY Zenon, Sizes DEF Sized
  <2>3. /\ FirstPhase(r) \in Phase /\ r.n \in 0 .. 2 * MAX_PACKET_SIZE
        /\ FirstPhase(r) = "dataIn" => r.kind \in {"GetReport", "GetDescriptor", "Unsupported"}
        /\ FirstPhase(r) = "dataOut" => r.kind = "SetReport"
        /\ FirstPhase(r) = "statusIn" => r.kind = "SetConfiguration"
        /\ FirstPhase(r) \notin {"none", "statusOut"}
    BY <1>0, <2>2 DEF Request, FirstPhase, Phase
  <2>4. /\ transfer' \in T /\ transfer'.req = r /\ transfer'.phase = FirstPhase(r) /\ transfer'.left = r.n
    BY Zenon, <2>1, <2>2, <2>3, TransferType
  <2>5. HostTypes'
    BY Zenon, <1>1, <2>1, <2>3, <2>4, SameSizes DEF HostTypes, Phase
  <2>6. e \in Entry /\ e.ev = "setup" /\ e.req = r
    BY Zenon, <2>2 DEF Entry
  <2>. HIDE DEF e
  <2>7. /\ StatTypes'
        /\ \A i, j \in 1 .. Len(stat') : stat'[i].ev = "in0" /\ stat'[j].ev = "in0" => i = j
        /\ \A ev : Pending(ev)' <=> Pending(ev) \/ ev = e.ev
    BY Zenon, <2>1, <2>6, StatAppend
  <2>8. ASSUME NEW i \in 1 .. Len(stat'), stat'[i].ev = "setup" PROVE stat'[i].req = r
    <3>1. \A j \in 1 .. Len(stat) : stat[j].ev # "setup"
      BY Zenon, <2>1 DEF Transact, BusReady, Sized, IInv, Queue
    <3>2. /\ Len(stat) \in Nat /\ Len(stat') = Len(stat) + 1
          /\ \A j \in 1 .. Len(stat) : stat'[j] = stat[j]
          /\ stat'[Len(stat) + 1] = e
      BY <2>1, Appended DEF Sized, IInv, Queue, Transact
    <3>3. i \in 1 .. Len(stat) \/ i = Len(stat) + 1
      BY <3>2
    <3>. QED BY Zenon, <2>6, <2>8, <3>1, <3>2, <3>3
  <2>9. ReadOnce'
    BY Zenon, <2>1, <2>4, <2>6, <2>7, <2>8 DEF ReadOnce
  <2>. QED BY Zenon, <2>5, <2>7, <2>9
<1>3. ASSUME HostReadsData PROVE HostTypes' /\ StatTypes' /\ ReadOnce'
  <2>. DEFINE size == Least(transfer.left, MAX_PACKET_SIZE)
              left == transfer.left - size
              last == \/ transfer.req.kind = "GetReport"
                      \/ size < MAX_PACKET_SIZE
                      \/ transfer.req.exact /\ left = 0
              e == [ev |-> "in0"]
              p == IF last THEN "statusOut" ELSE "dataIn"
  <2>1. /\ Transact("tx0", e) /\ transfer.phase = "dataIn" /\ pktdis' = pktdis
        /\ transfer' = [transfer EXCEPT !.left = left, !.phase = p]
        /\ UNCHANGED <<host_sequence, unacknowledged>>
    BY Zenon, <1>3 DEF HostReadsData
  <2>2. left \in 0 .. 2 * MAX_PACKET_SIZE
    BY <1>0, Phases DEF Least
  <2>3. p \in {"statusOut", "dataIn"} /\ (p = "dataIn" => transfer.req.kind # "GetReport")
    BY Zenon
  <2>4. e \in Entry /\ e.ev = "in0"
    BY Zenon DEF Entry
  <2>. HIDE DEF left, e, p
  <2>5. transfer' = [req |-> transfer.req, phase |-> p, left |-> left]
    BY Zenon, <1>1, <2>1
  <2>6. p \in Phase
    BY Zenon, <2>3 DEF Phase
  <2>7. /\ transfer' \in T /\ transfer'.req = transfer.req /\ transfer'.phase = p
    BY Zenon, <2>2, <2>5, <2>6, Phases, TransferType
  <2>8. HostTypes'
    BY Zenon, <1>1, <2>1, <2>3, <2>7, Phases, SameSizes DEF HostTypes, Phase
  <2>9. ~pktdis /\ "tx0" \in uown /\ "tx0" \notin uown'
    BY Zenon, <2>1 DEF Transact, BusReady
  <2>10. ~Pending("in0")
    BY Zenon, <2>1, <2>9 DEF Sized, ReadOnce
  <2>11. p = "dataIn" => ~do_build_transmit_report /\ expect_control_report = NoReport
    BY Zenon, <2>1, <2>3, <2>9, Phases DEF Sized, ReadOnce
  <2>. QED BY Zenon, <2>1, <2>3, <2>4, <2>7, <2>8, <2>9, <2>10, <2>11, ReadOnceTransact
<1>4. ASSUME HostReadsStatus PROVE HostTypes' /\ StatTypes' /\ ReadOnce'
  <2>. DEFINE e == [ev |-> "in0"]
  <2>1. /\ Transact("tx0", e) /\ transfer.phase = "statusIn" /\ pktdis' = pktdis /\ transfer' = NoTransfer
        /\ host_sequence' \in {0, host_sequence} /\ unacknowledged' = unacknowledged
    BY Zenon, <1>4 DEF HostReadsStatus
  <2>2. HostTypes'
    BY Zenon, <1>1, <2>1, NothingTransferred, SameSizes DEF HostTypes
  <2>3. e \in Entry /\ e.ev = "in0"
    BY Zenon DEF Entry
  <2>. HIDE DEF e
  <2>4. ~Pending("in0")
    BY Zenon, <2>1 DEF Transact, BusReady, Sized, ReadOnce
  <2>. QED BY Zenon, <2>1, <2>2, <2>3, <2>4, NothingTransferred, ReadOnceTransact
<1>5. ASSUME NEW a \in BOOLEAN, HostWritesData(a) PROVE HostTypes' /\ StatTypes' /\ ReadOnce'
  <2>. DEFINE n == transfer.req.n
              e == [ev |-> "out0", toggle |-> 1, id |-> n, good |-> transfer.req.good,
                    data |-> Bytes(sent, n, KReceive)]
  <2>1. /\ Transact("rx0", e) /\ transfer.phase = "dataOut" /\ pktdis' = pktdis
        /\ transfer' = [transfer EXCEPT !.phase = IF a THEN "statusIn" ELSE @]
        /\ UNCHANGED <<host_sequence, unacknowledged>>
    BY Zenon, <1>5 DEF HostWritesData
  <2>2. transfer.req.kind = "SetReport"
    BY Zenon, <2>1, Phases
  <2>3. n \in 0 .. MAX_PACKET_SIZE - 1 /\ transfer.req.good \in BOOLEAN
    BY Zenon, <1>0, <2>2, Phases DEF Request
  <2>4. Bytes(sent, n, KReceive) \in Seq(Byte(KReceive)) /\ Len(Bytes(sent, n, KReceive)) = n
    <3>1. n \in Nat
      BY <1>0, <2>3
    <3>. HIDE DEF n
    <3>. QED BY Zenon, <1>0, <3>1, BytesFIFO
  <2>5. e \in Entry /\ e.ev = "out0" /\ Len(e.data) < MAX_PACKET_SIZE
    BY <1>0, <2>3, <2>4 DEF Entry, NoReport
  <2>. HIDE DEF e
  <2>6. PICK p \in {"dataOut", "statusIn"} : transfer' = [req |-> transfer.req, phase |-> p, left |-> transfer.left]
    BY Zenon, <1>1, <2>1
  <2>7. transfer' \in T /\ transfer'.req = transfer.req /\ transfer'.phase = p
    <3>1. p \in Phase
      BY Zenon DEF Phase
    <3>. QED BY Zenon, <2>6, <3>1, Phases, TransferType
  <2>8. HostTypes'
    BY Zenon, <1>1, <2>1, <2>2, <2>7, SameSizes DEF HostTypes
  <2>9. ~pktdis /\ ~Pending("in0")
    BY Zenon, <2>1 DEF Transact, BusReady, Sized, ReadOnce
  <2>. QED BY Zenon, <2>1, <2>5, <2>7, <2>8, <2>9, ReadOnceTransact
<1>6. ASSUME NEW a \in BOOLEAN, HostWritesStatus(a) PROVE HostTypes' /\ StatTypes' /\ ReadOnce'
  <2>. DEFINE e == [ev |-> "out0", toggle |-> 1, id |-> NoReport, good |-> FALSE, data |-> <<>>]
  <2>1. /\ Transact("rx0", e) /\ transfer.phase = "statusOut" /\ pktdis' = pktdis
        /\ transfer' = NoTransfer \/ transfer' = transfer
        /\ UNCHANGED <<host_sequence, unacknowledged>>
    BY Zenon, <1>6 DEF HostWritesStatus
  <2>2. e \in Entry /\ e.ev = "out0" /\ Len(e.data) < MAX_PACKET_SIZE
    BY <1>0 DEF Entry, NoReport
  <2>. HIDE DEF e
  <2>3. HostTypes'
    BY Zenon, <1>1, <2>1, NothingTransferred, SameSizes DEF Sized, HostTypes
  <2>. QED BY Zenon, <2>1, <2>2, <2>3, NothingTransferred, ReadOnceTransact
<1>7. ASSUME NEW bd, NEW e, Transact(bd, e), e \in Entry, e.ev \in {"in1", "out2"}, pktdis' = pktdis,
             e.ev = "out2" => Len(e.data) < MAX_PACKET_SIZE, transfer' = transfer,
             host_sequence' \in {0, 1}, unacknowledged' \in -1 .. MAX_PACKET_SIZE - 1
      PROVE  HostTypes' /\ StatTypes' /\ ReadOnce'
  <2>1. HostTypes'
    BY Zenon, <1>1, <1>7, SameSizes DEF Sized, HostTypes
  <2>2. Pending("in0") =>
           /\ transfer.phase # "dataOut"
           /\ transfer.phase \in {"dataIn", "statusIn"} =>
                "tx0" \notin uown' /\ ~do_build_transmit_report /\ expect_control_report = NoReport
    BY Zenon, <1>7 DEF Sized, ReadOnce, Transact, BusReady
  <2>. QED BY Zenon, <1>7, <2>1, <2>2, ReadOnceTransact
<1>8. ASSUME HostPolls PROVE HostTypes' /\ StatTypes' /\ ReadOnce'
  <2>1. [ev |-> "in1"] \in Entry
    BY Zenon DEF Entry
  <2>. QED BY Zenon, <1>1, <1>7, <1>8, <2>1 DEF HostPolls
<1>9. ASSUME NEW n \in 0 .. MAX_PACKET_SIZE - 1, NEW a \in BOOLEAN, HostWrites(n, a)
      PROVE  HostTypes' /\ StatTypes' /\ ReadOnce'
  <2>. DEFINE e == [ev |-> "out2", toggle |-> host_sequence, data |-> Bytes(sent, n, KReceive)]
  <2>1. /\ Transact("rx2", e) /\ pktdis' = pktdis /\ transfer' = transfer
        /\ unacknowledged' \in {-1, n} /\ host_sequence' \in {host_sequence, 1 - host_sequence}
    BY Zenon, <1>9 DEF HostWrites
  <2>2. Bytes(sent, n, KReceive) \in Seq(Byte(KReceive)) /\ Len(Bytes(sent, n, KReceive)) = n
    BY <1>0, BytesFIFO
  <2>3. e \in Entry /\ e.ev = "out2" /\ Len(e.data) < MAX_PACKET_SIZE
    BY <1>0, <1>1, <2>2 DEF Entry
  <2>. HIDE DEF e
  <2>4. unacknowledged' \in -1 .. MAX_PACKET_SIZE - 1 /\ host_sequence' \in {0, 1}
    BY <1>0, <1>1, <2>1
  <2>. QED BY Zenon, <1>7, <2>1, <2>3, <2>4
<1>10. ASSUME HostSeesStall \/ HostResets PROVE HostTypes' /\ StatTypes' /\ ReadOnce'
  <2>1. /\ UNCHANGED <<stat, pktdis>> /\ transfer' = NoTransfer /\ ~pktdis
        /\ host_sequence' \in {0, host_sequence} /\ unacknowledged' \in {-1, unacknowledged}
    BY Zenon, <1>10 DEF HostSeesStall, HostResets, busVars, BusReady
  <2>2. HostTypes'
    BY <1>0, <1>1, <2>1, NothingTransferred, SameSizes DEF HostTypes
  <2>3. Entry' = Entry
    BY Zenon, SameSizes DEF Entry
  <2>4. StatTypes'
    BY Zenon, <2>1, <2>3, SameSizes DEF Sized, StatTypes
  <2>5. \A i \in 1 .. Len(stat) : stat[i].ev # "setup"
    BY Zenon, <2>1 DEF Sized, IInv, Queue
  <2>6. ReadOnce'
    BY Zenon, <2>1, <2>5, NothingTransferred DEF Sized, ReadOnce, Pending
  <2>. QED BY Zenon, <2>2, <2>4, <2>6
<1>. QED BY Zenon, <1>2, <1>3, <1>4, <1>5, <1>6, <1>8, <1>9, <1>10 DEF Host, ControlTransactions

LEMMA InitSized == Init => Sized
<1>. SUFFICES ASSUME Init PROVE Sized
  BY Zenon
<1>1. IInv
  BY Zenon, InitInvariant
<1>2. <<>> \in Seq(Byte(KTransmit)) /\ <<>> \in Seq(Byte(KReceive)) /\ Len(<<>>) = 0
  OBVIOUS
<1>a. do_build_transmit_report \in BOOLEAN /\ ~do_build_transmit_report /\ {stalled, urstif, fatal} \subseteq BOOLEAN
  BY Zenon DEF Init
<1>b. 0 \in Byte(KTransmit) /\ 0 \in Byte(KReceive)
  BY <1>1, Sizes DEF Byte
<1>3. FifoTypes
  <2>1. \A n \in Nat : IsFIFO(<<>>, n, KTransmit) /\ IsFIFO(<<>>, n, KReceive)
    BY <1>2 DEF IsFIFO
  <2>2. /\ MAX_PACKET_SIZE - 1 \in Nat /\ TRANSMIT_FIFO_SIZE \in Nat /\ RECEIVE_FIFO_SIZE \in Nat
        /\ 0 \in 0 .. MAX_PACKET_SIZE
    BY <1>1, Sizes
  <2>. QED BY Zenon, <1>a, <1>b, <2>1, <2>2 DEF Init, FifoTypes
<1>4. DriverTypes
  <2>1. NoReport \in NoReport .. MAX_PACKET_SIZE - 1
    BY <1>1, Sizes DEF NoReport
  <2>. QED BY Zenon, <1>a, <2>1 DEF Init, DriverTypes
<1>5. HostTypes
  BY <1>1, Sizes DEF Init, HostTypes, NoTransfer, Request, Phase
<1>6. StatTypes /\ ReadOnce
  BY SMTT(30) DEF Init, StatTypes, ReadOnce, Pending, NoTransfer
<1>. QED BY Zenon, <1>1, <1>3, <1>4, <1>5, <1>6 DEF Sized

LEMMA NextSized == Sized /\ [Next]_<<env, vars>> => Sized'
<1>. SUFFICES ASSUME Sized, [Next]_<<env, vars>> PROVE Sized'
  BY Zenon
<1>1. IInv'
  BY Zenon, NextInvariant DEF Sized
<1>2. CASE Application /\ env' = env
  BY Zenon, <1>1, <1>2, FifosAfterApplication, DriverAfterApplication, ReadOnceAfterApplication DEF Sized
<1>3. CASE USBHandler /\ env' = env
  BY Zenon, <1>1, <1>3, FifosAfterHandler, DriverAfterHandler, ReadOnceAfterHandler DEF Sized
<1>4. CASE Host /\ env' = env
  BY Zenon, <1>1, <1>4, FifosAfterHost, DriverAfterHost, ReadOnceAfterHost DEF Sized
<1>5. CASE UNCHANGED <<env, vars>>
  <2>. USE DEF vars, deviceVars, interruptVars, setReportVars, getReportVars, controlVars, busVars, appVars, hostVars
  <2>1. FifoTypes' /\ DriverTypes'
    BY Zenon, <1>5, SameFifos, SameDriver DEF Sized, DriverTypes
  <2>2. Entry' = Entry
    BY Zenon, <1>5, SameSizes DEF Entry
  <2>3. HostTypes' /\ StatTypes' /\ ReadOnce'
    BY Zenon, <1>5, <2>2, SameSizes DEF Sized, HostTypes, StatTypes, ReadOnce, Pending
  <2>. QED BY Zenon, <1>1, <2>1, <2>3 DEF Sized
<1>. QED BY Zenon, <1>2, <1>3, <1>4, <1>5 DEF Next

\* The entries of U1STAT gave back different descriptors, of which there are four.
LEMMA FourDescriptors == ASSUME Sized PROVE Len(stat) <= 4
<1>1. Len(stat) \in Nat
  BY Zenon, Appended DEF Sized, IInv, Queue
<1>2. \A i \in 1 .. Len(stat) : Buffer(stat[i].ev) \in {"rx0", "tx0", "tx1", "rx2"}
  <2>1. \A i \in 1 .. Len(stat) : stat[i].ev \in Events
    BY Zenon DEF Sized, IInv, Queue, IsEntry
  <2>. QED BY Zenon, <2>1, Buffers DEF Events
<1>3. \A i, j \in 1 .. Len(stat) : i # j => Buffer(stat[i].ev) # Buffer(stat[j].ev)
  <2>. SUFFICES ASSUME NEW i \in 1 .. Len(stat), NEW j \in 1 .. Len(stat), i # j
                PROVE  Buffer(stat[i].ev) # Buffer(stat[j].ev)
    BY Zenon
  <2>1. CASE stat[i].ev # "in0" \/ stat[j].ev # "in0"
    BY Zenon, <2>1 DEF Sized, IInv, Queue
  <2>2. CASE stat[i].ev = "in0" /\ stat[j].ev = "in0"
    BY Zenon, <2>2 DEF Sized, ReadOnce
  <2>. QED BY Zenon, <2>1, <2>2
<1>4. ASSUME ~(Len(stat) <= 4) PROVE FALSE
  <2>1. 1 .. 5 \subseteq 1 .. Len(stat)
    BY <1>1, <1>4
  <2>2. PICK a, b, c, d, e : /\ a = Buffer(stat[1].ev) /\ b = Buffer(stat[2].ev) /\ c = Buffer(stat[3].ev)
                             /\ d = Buffer(stat[4].ev) /\ e = Buffer(stat[5].ev)
    BY Zenon
  <2>3. 1 \in 1 .. Len(stat) /\ 2 \in 1 .. Len(stat) /\ 3 \in 1 .. Len(stat) /\ 4 \in 1 .. Len(stat) /\ 5 \in 1 .. Len(stat)
    BY <2>1
  <2>4. {a, b, c, d, e} \subseteq {"rx0", "tx0", "tx1", "rx2"}
    BY Zenon, <1>2, <2>2, <2>3
  <2>5. /\ a # b /\ a # c /\ a # d /\ a # e /\ b # c /\ b # d /\ b # e
        /\ c # d /\ c # e /\ d # e
    BY <1>3, <2>2, <2>3
  <2>. QED BY ONLY Zenon, <2>4, <2>5
<1>. QED BY Zenon, <1>4

LEMMA SizedTypes == ASSUME Sized PROVE TypeOK
<1>1. FifoTypes /\ DriverTypes /\ HostTypes /\ StatTypes /\ Types
  BY Zenon DEF Sized, IInv
<1>2. {interrupt_transmit_queued, interrupt_receive_queued, do_control_receive_queue,
       do_build_transmit_report, pktdis, stalled, urstif, fatal} \subseteq BOOLEAN
  BY Zenon, <1>1 DEF FifoTypes, DriverTypes, Types
<1>3. transfer.phase \in {"none", "dataIn", "dataOut", "statusIn", "statusOut"}
  BY Zenon, Phases DEF Phase
<1>. QED BY Zenon, <1>1, <1>2, <1>3, FourDescriptors, Phases
         DEF TypeOK, FifoTypes, DriverTypes, HostTypes, StatTypes, Types

=============================================================================
