------------------------- MODULE HidControl_proofs --------------------------
(***************************************************************************)
(* With a host that configures the device once, the receive FIFO has room  *)
(* for every report.  With a well-behaved host, the control transfers go   *)
(* on step by step and no error is fatal; if it uses one endpoint at a     *)
(* time, the bytes of both streams arrive once and in order.               *)
(***************************************************************************)
EXTENDS HidStream_proofs

(* Room for reports, with a host that configures the device once.           *)

ControlQueued == expect_control_report # NoReport /\ ~do_control_receive_queue

\* Nothing is received before the device is configured, and that happens once.
Fresh ==
  /\ ~urstif
  /\ configuration = 0 =>
       receive_fifo = <<>> /\ expect_control_report = NoReport /\ pc \notin {"read", "writing"}
  /\ \A i \in 1 .. Len(stat) : stat[i].ev = "setup" =>
       /\ stat[i].req.kind = "SetConfiguration" => stat[i].req.n = 1
       /\ stat[i].req.kind \in {"SetReport", "GetReport"} => configuration = 1
  /\ ReceiveFits

LEMMA Room ==
  ASSUME NEW l \in Nat, NEW m \in Nat, NEW r \in Nat, NEW i \in BOOLEAN, NEW c \in BOOLEAN
  PROVE  l + ((IF i THEN 1 ELSE 0) + (IF c THEN 1 ELSE 0)) * m <= r <=>
         l + (IF i THEN m ELSE 0) + (IF c THEN m ELSE 0) <= r
<1>1. CASE i /\ c
  BY <1>1
<1>2. CASE i /\ ~c
  BY <1>2
<1>3. CASE ~i /\ c
  BY <1>3
<1>4. CASE ~i /\ ~c
  BY <1>4
<1>. QED BY Zenon, <1>1, <1>2, <1>3, <1>4

\* When full reports still fit: there is headroom, or nothing has been added, or it was
\* added from a receive that was queued.
LEMMA StillFits ==
  ASSUME Sized, Sized', env' = env, ReceiveFits,
         \/ Len(receive_fifo') + 2 * MAX_PACKET_SIZE <= RECEIVE_FIFO_SIZE
         \/ /\ Len(receive_fifo') <= Len(receive_fifo)
            /\ (interrupt_receive_queued' => interrupt_receive_queued) /\ (ControlQueued' => ControlQueued)
         \/ /\ Len(receive_fifo') <= Len(receive_fifo) + MAX_PACKET_SIZE - 1
            /\ interrupt_receive_queued /\ ~interrupt_receive_queued' /\ (ControlQueued' => ControlQueued)
         \/ /\ Len(receive_fifo') <= Len(receive_fifo) + MAX_PACKET_SIZE - 1
            /\ (interrupt_receive_queued' => interrupt_receive_queued) /\ ControlQueued /\ ~ControlQueued'
  PROVE  ReceiveFits'
<1>1. /\ MAX_PACKET_SIZE - 1 \in Nat /\ RECEIVE_FIFO_SIZE \in Nat
      /\ Len(receive_fifo) \in Nat /\ Len(receive_fifo') \in Nat
  <2>1. receive_fifo \in Seq(Byte(KReceive)) /\ receive_fifo' \in Seq(Byte(KReceive'))
    BY Zenon DEF Sized, FifoTypes, IsFIFO
  <2>2. MAX_PACKET_SIZE \in Nat \ {0, 1} /\ RECEIVE_FIFO_SIZE \in Nat
    BY Zenon, Sizes DEF Sized
  <2>. QED BY ONLY <2>1, <2>2
<1>2. PICK m, r, i, c, j, d :
         /\ m = MAX_PACKET_SIZE - 1 /\ r = RECEIVE_FIFO_SIZE
         /\ i = interrupt_receive_queued /\ c = ControlQueued
         /\ j = interrupt_receive_queued' /\ d = ControlQueued'
  BY Zenon
<1>3. i \in BOOLEAN /\ j \in BOOLEAN /\ c \in BOOLEAN /\ d \in BOOLEAN /\ m \in Nat /\ r \in Nat
  BY Zenon, <1>1, <1>2 DEF Sized, IInv, Types, ControlQueued
<1>4. Len(receive_fifo) + (IF i THEN m ELSE 0) + (IF c THEN m ELSE 0) <= r
  <2>1. Len(receive_fifo) + ((IF i THEN 1 ELSE 0) + (IF c THEN 1 ELSE 0)) * m <= r
    BY Zenon, <1>2 DEF ReceiveFits, QueuedReceives, ControlQueued
  <2>. QED BY Zenon, <1>1, <1>3, <2>1, Room
<1>5. Len(receive_fifo') + (IF j THEN m ELSE 0) + (IF d THEN m ELSE 0) <= r
  <2>1. \/ Len(receive_fifo') + m + m <= r
        \/ Len(receive_fifo') <= Len(receive_fifo) /\ (j => i) /\ (d => c)
        \/ Len(receive_fifo') <= Len(receive_fifo) + m /\ i /\ ~j /\ (d => c)
        \/ Len(receive_fifo') <= Len(receive_fifo) + m /\ (j => i) /\ c /\ ~d
    <3>1. /\ Len(receive_fifo') + 2 * MAX_PACKET_SIZE <= RECEIVE_FIFO_SIZE => Len(receive_fifo') + m + m <= r
          /\ Len(receive_fifo') <= Len(receive_fifo) + MAX_PACKET_SIZE - 1 => Len(receive_fifo') <= Len(receive_fifo) + m
      <4>1. m = MAX_PACKET_SIZE - 1 /\ r = RECEIVE_FIFO_SIZE /\ MAX_PACKET_SIZE \in Nat
        BY Zenon, <1>2, Sizes DEF Sized
      <4>. QED BY <1>1, <4>1
    <3>. QED BY Zenon, <1>2, <3>1
  <2>2. PICK l \in Nat, k \in Nat : l = Len(receive_fifo) /\ k = Len(receive_fifo')
    BY Zenon, <1>1
  <2>a. PICK x, y, z, w : /\ x = (IF i THEN m ELSE 0) /\ y = (IF j THEN m ELSE 0)
                          /\ z = (IF c THEN m ELSE 0) /\ w = (IF d THEN m ELSE 0)
    BY Zenon
  <2>b. /\ x \in {0, m} /\ y \in {0, m} /\ z \in {0, m} /\ w \in {0, m}
        /\ (j => i) => y \in {0, x}
        /\ (d => c) => w \in {0, z}
    BY Zenon, <1>3, <2>a
  <2>3. CASE k + m + m <= r
    <3>1. k + y + w <= r
      BY <1>3, <2>2, <2>3, <2>b
    <3>. QED BY Zenon, <2>2, <2>a, <3>1
  <2>4. CASE k <= l /\ (j => i) /\ (d => c)
    <3>1. y \in {0, x} /\ w \in {0, z} /\ l + x + z <= r
      BY Zenon, <1>4, <2>2, <2>4, <2>a, <2>b
    <3>2. k + y + w <= r
      BY <1>3, <2>2, <2>4, <2>b, <3>1
    <3>. QED BY Zenon, <2>2, <2>a, <3>2
  <2>5. CASE k <= l + m /\ i /\ ~j /\ (d => c)
    BY <1>3, <1>4, <2>2, <2>5
  <2>6. CASE k <= l + m /\ (j => i) /\ c /\ ~d
    BY <1>3, <1>4, <2>2, <2>6
  <2>. QED BY Zenon, <2>1, <2>2, <2>3, <2>4, <2>5, <2>6
<1>6. Len(receive_fifo') + ((IF j THEN 1 ELSE 0) + (IF d THEN 1 ELSE 0)) * m <= r
  BY Zenon, <1>1, <1>3, <1>5, Room
<1>7. m = MAX_PACKET_SIZE' - 1 /\ r = RECEIVE_FIFO_SIZE'
  BY Zenon, <1>2, SameSizes
<1>. QED BY Zenon, <1>2, <1>6, <1>7 DEF ReceiveFits, QueuedReceives, ControlQueued

LEMMA FreshAfterApplication ==
  ASSUME Sized, Sized', env' = env, Fresh, Application
  PROVE  Fresh'
<1>. USE DEF deviceVars, fifos, interruptVars, setReportVars, controlVars, busVars, appVars
<1>1. UNCHANGED <<stat, urstif, configuration, expect_control_report>>
  BY Zenon DEF Application, CallGet, CallPut, circularBufferRead, streamGetOneByte, streamPutOneByte,
         usbFatalError
<1>2. ASSUME configuration = 0 PROVE receive_fifo' = receive_fifo /\ pc' \notin {"read", "writing"}
  <2>1. receive_fifo = <<>> /\ pc # "read" /\ pc # "writing"
    BY Zenon, <1>2 DEF Fresh
  <2>2. CallGet
    BY <1>2, <2>1 DEF Application, CallPut, circularBufferRead, streamGetOneByte, streamPutOneByte
  <2>. QED BY Zenon, <2>2 DEF CallGet
<1>3. ReceiveFits'
  <2>0. Len(receive_fifo) \in Nat /\ receive_fifo \in Seq(Byte(KReceive)) /\ Len(receive_fifo) <= Len(receive_fifo)
    BY DEF Sized, FifoTypes, IsFIFO
  <2>1. CASE CallGet \/ CallPut \/ usbFatalError \/ streamPutOneByte
    <3>1. UNCHANGED <<receive_fifo, interrupt_receive_queued, setReportVars>>
      BY Zenon, <2>1 DEF CallGet, CallPut, usbFatalError, streamPutOneByte
    <3>. QED BY Zenon, <2>0, <3>1, StillFits DEF Fresh, ControlQueued
  <2>2. CASE circularBufferRead
    <3>1. /\ receive_fifo # <<>> /\ receive_fifo' = Tail(receive_fifo)
          /\ UNCHANGED <<interrupt_receive_queued, setReportVars>>
      BY Zenon, <2>2 DEF circularBufferRead
    <3>2. Len(receive_fifo') <= Len(receive_fifo)
      BY <2>0, <3>1
    <3>. QED BY Zenon, <3>1, <3>2, StillFits DEF Fresh, ControlQueued
  <2>3. CASE streamGetOneByte /\ ~usbFatalError
    <3>1. CASE HasHeadroom(receive_fifo)
      <4>1. receive_fifo' = receive_fifo
        BY Zenon, <2>3 DEF streamGetOneByte
      <4>2. Len(receive_fifo') + 2 * MAX_PACKET_SIZE <= RECEIVE_FIFO_SIZE
        BY <2>0, <3>1, <4>1, Sizes DEF HasHeadroom, circularBufferSpaceRemaining, RECEIVE_HEADROOM, Sized
      <4>. QED BY Zenon, <4>2, StillFits DEF Fresh
    <3>2. CASE ~HasHeadroom(receive_fifo)
      <4>1. /\ receive_fifo' = receive_fifo /\ expect_control_report' = expect_control_report
            /\ do_control_receive_queue' = (do_control_receive_queue /\ ~(HasHeadroom(receive_fifo) /\ ControlFirst))
            /\ interrupt_receive_queued' = (interrupt_receive_queued \/ (HasHeadroom(receive_fifo) /\ InterruptNext))
        BY Zenon, <2>3 DEF streamGetOneByte
      <4>2. /\ interrupt_receive_queued' => interrupt_receive_queued
            /\ do_control_receive_queue => do_control_receive_queue'
        BY Zenon, <3>2, <4>1
      <4>3. ControlQueued' => ControlQueued
        BY Zenon, <4>1, <4>2 DEF ControlQueued
      <4>. QED BY Zenon, <2>0, <4>1, <4>2, <4>3, StillFits DEF Fresh
    <3>. QED BY Zenon, <3>1, <3>2
  <2>. QED BY Zenon, <2>1, <2>2, <2>3 DEF Application
<1>. QED BY Zenon, <1>1, <1>2, <1>3 DEF Fresh

LEMMA FreshAfterHost ==
  ASSUME Sized, Sized', env' = env, ConfiguresOnce, Fresh, Host
  PROVE  Fresh'
<1>. USE DEF deviceVars, fifos, interruptVars, setReportVars, controlVars, busVars, appVars
<1>1. /\ UNCHANGED <<configuration, receive_fifo, interrupt_receive_queued, expect_control_report,
                     do_control_receive_queue, pc>>
      /\ urstif' = urstif
  BY Zenon DEF Host, ControlTransactions, HostSetup, HostReadsData, HostWritesData, HostReadsStatus, HostWritesStatus,
         HostSeesStall, HostPolls, HostWrites, HostResets, Transact, ConfiguresOnce
<1>2. ReceiveFits'
  <2>1. Len(receive_fifo) <= Len(receive_fifo)
    BY DEF Sized, FifoTypes, IsFIFO
  <2>. QED BY Zenon, <1>1, <2>1, StillFits DEF Fresh, ControlQueued
<1>3. \/ stat' = stat
      \/ \E e : stat' = Append(stat, e) /\ e.ev # "setup"
      \/ \E e : /\ stat' = Append(stat, e)
                /\ e.req.kind = "SetConfiguration" => e.req.n = 1
                /\ e.req.kind \in {"SetReport", "GetReport"} => configuration = 1
  <2>1. ASSUME NEW r \in Requests, HostSetup(r)
        PROVE  \E e : /\ stat' = Append(stat, e)
                      /\ e.req.kind = "SetConfiguration" => e.req.n = 1
                      /\ e.req.kind \in {"SetReport", "GetReport"} => configuration = 1
    BY SMTT(30), <2>1 DEF HostSetup, Transact, ConfiguresOnce
  <2>2. CASE \E bd, e : Transact(bd, e) /\ e.ev # "setup"
    BY Zenon, <2>2 DEF Transact
  <2>3. ASSUME HostReadsData \/ HostReadsStatus \/ HostPolls
        PROVE  \E bd, e : Transact(bd, e) /\ e.ev # "setup"
    BY <2>3 DEF HostReadsData, HostReadsStatus, HostPolls
  <2>4. ASSUME NEW a, HostWritesData(a) PROVE \E bd, e : Transact(bd, e) /\ e.ev # "setup"
    BY <2>4 DEF HostWritesData
  <2>5. ASSUME NEW a, HostWritesStatus(a) PROVE \E bd, e : Transact(bd, e) /\ e.ev # "setup"
    BY <2>5 DEF HostWritesStatus
  <2>6. ASSUME NEW n, NEW a, HostWrites(n, a) PROVE \E bd, e : Transact(bd, e) /\ e.ev # "setup"
    BY <2>6 DEF HostWrites
  <2>7. CASE HostSeesStall \/ HostResets
    BY Zenon, <2>7 DEF HostSeesStall, HostResets
  <2>. QED BY Zenon, <2>1, <2>2, <2>3, <2>4, <2>5, <2>6, <2>7 DEF Host, ControlTransactions
<1>4. ASSUME NEW i \in 1 .. Len(stat'), stat'[i].ev = "setup"
      PROVE  /\ stat'[i].req.kind = "SetConfiguration" => stat'[i].req.n = 1
             /\ stat'[i].req.kind \in {"SetReport", "GetReport"} => configuration = 1
  <2>1. CASE stat' = stat
    BY Zenon, <1>4, <2>1 DEF Fresh
  <2>2. ASSUME NEW e, stat' = Append(stat, e) PROVE (i \in 1 .. Len(stat) /\ stat'[i] = stat[i]) \/ stat'[i] = e
    <3>1. /\ Len(stat) \in Nat /\ Len(stat') = Len(stat) + 1
          /\ \A j \in 1 .. Len(stat) : stat'[j] = stat[j]
          /\ stat'[Len(stat) + 1] = e
      <4>1. IsSeq(stat)
        BY Zenon DEF Sized, IInv, Queue
      <4>. QED BY ONLY Zenon, <2>2, <4>1, Appended
    <3>2. i \in 1 .. Len(stat) \/ i = Len(stat) + 1
      BY <3>1
    <3>. QED BY Zenon, <3>1, <3>2
  <2>. QED BY Zenon, <1>3, <1>4, <2>1, <2>2 DEF Fresh
<1>. QED BY Zenon, <1>1, <1>2, <1>4 DEF Fresh

LEMMA FreshAfterHandler ==
  ASSUME Sized, Sized', env' = env, Fresh, USBHandler
  PROVE  Fresh'
<1>. USE DEF deviceVars, fifos, interruptVars, setReportVars, controlVars, busVars, appVars
<1>0. Len(receive_fifo) \in Nat /\ receive_fifo \in Seq(Byte(KReceive)) /\ Len(receive_fifo) <= Len(receive_fifo)
  BY DEF Sized, FifoTypes, IsFIFO
<1>1. CASE usbFatalError
  <2>1. UNCHANGED <<stat, urstif, configuration, receive_fifo, interrupt_receive_queued, setReportVars, pc>>
    BY Zenon, <1>1 DEF usbFatalError
  <2>2. ReceiveFits'
    BY Zenon, <1>0, <2>1, StillFits DEF Fresh, ControlQueued
  <2>. QED BY Zenon, <2>1, <2>2 DEF Fresh
<1>2. ~usbHALReset
  BY Zenon DEF usbHALReset, Fresh
<1>3. ASSUME Handling("setup"), stat' = Tail(stat)
      PROVE  \A i \in 1 .. Len(stat') : stat'[i].ev = "setup" =>
               /\ stat'[i].req.kind = "SetConfiguration" => stat'[i].req.n = 1
               /\ stat'[i].req.kind \in {"SetReport", "GetReport"} => configuration' = 1
  BY SMTT(30), <1>3, SetupAlone DEF Sized
<1>4. ASSUME NEW ev, Handling(ev), stat' = Tail(stat), configuration' = configuration
      PROVE  \A i \in 1 .. Len(stat') : stat'[i].ev = "setup" =>
               /\ stat'[i].req.kind = "SetConfiguration" => stat'[i].req.n = 1
               /\ stat'[i].req.kind \in {"SetReport", "GetReport"} => configuration' = 1
  <2>1. \A i \in 1 .. Len(stat') : i + 1 \in 1 .. Len(stat) /\ stat'[i] = stat[i + 1]
    BY Zenon, <1>4, HeadGone
  <2>. QED BY Zenon, <1>4, <2>1 DEF Fresh
<1>5. CASE ~usbFatalError /\ (getReport \/ getDescriptor \/ protocolStall)
  <2>1. /\ Handling("setup") /\ stat' = Tail(stat) /\ expect_control_report' = NoReport
        /\ UNCHANGED <<urstif, configuration, receive_fifo, interrupt_receive_queued, pc>>
    BY Zenon, <1>5 DEF getReport, getDescriptor, protocolStall, Setup, SetupDone, AbortSetReport
  <2>2. ReceiveFits'
    BY Zenon, <1>0, <2>1, StillFits DEF Fresh, ControlQueued
  <2>. QED BY Zenon, <1>3, <2>1, <2>2 DEF Fresh
<1>6. CASE ~usbFatalError /\ setReport
  <2>1. /\ Handling("setup") /\ Head(stat).req.kind = "SetReport" /\ stat' = Tail(stat)
        /\ do_control_receive_queue' = ~HasHeadroom(receive_fifo)
        /\ UNCHANGED <<urstif, configuration, receive_fifo, interrupt_receive_queued, pc>>
    BY Zenon, <1>6 DEF setReport, Setup, SetupDone
  <2>2. configuration = 1
    <3>1. 1 \in 1 .. Len(stat) /\ stat[1] = Head(stat) /\ Head(stat).ev = "setup"
      BY Zenon, <2>1, FirstEntry DEF Sized, Handling
    <3>. QED BY Zenon, <2>1, <3>1 DEF Fresh
  <2>3. ReceiveFits'
    <3>1. CASE HasHeadroom(receive_fifo)
      <4>1. Len(receive_fifo') + 2 * MAX_PACKET_SIZE <= RECEIVE_FIFO_SIZE
        BY <1>0, <2>1, <3>1, Sizes DEF HasHeadroom, circularBufferSpaceRemaining, RECEIVE_HEADROOM, Sized
      <4>. QED BY Zenon, <4>1, StillFits DEF Fresh
    <3>2. CASE ~HasHeadroom(receive_fifo)
      <4>1. ~ControlQueued'
        BY Zenon, <2>1, <3>2 DEF ControlQueued
      <4>. QED BY Zenon, <1>0, <2>1, <4>1, StillFits DEF Fresh
    <3>. QED BY Zenon, <3>1, <3>2
  <2>. QED BY SMTT(30), <1>3, <2>1, <2>2, <2>3 DEF Fresh
<1>7. CASE ~usbFatalError /\ setConfiguration
  <2>1. /\ Handling("setup") /\ Head(stat).req.kind = "SetConfiguration" /\ stat' = Tail(stat)
        /\ usbClassSetConfiguration(Head(stat).req.n)
        /\ expect_control_report' = NoReport
        /\ UNCHANGED <<urstif, receive_fifo, pc>>
    BY Zenon, <1>7 DEF setConfiguration, Setup, AbortSetReport
  <2>2. Head(stat).req.n = 1
    <3>1. 1 \in 1 .. Len(stat) /\ stat[1] = Head(stat) /\ Head(stat).ev = "setup"
      BY Zenon, <2>1, FirstEntry DEF Sized, Handling
    <3>. QED BY Zenon, <2>1, <3>1 DEF Fresh
  <2>3. configuration' = 1
    BY Zenon, <2>1, <2>2 DEF usbClassSetConfiguration
  <2>4. ReceiveFits'
    <3>1. CASE configuration = 1
      <4>1. interrupt_receive_queued' = interrupt_receive_queued
        BY Zenon, <2>1, <2>2, <3>1 DEF usbClassSetConfiguration
      <4>. QED BY Zenon, <1>0, <2>1, <4>1, StillFits DEF Fresh, ControlQueued
    <3>2. CASE configuration = 0
      <4>1. Len(receive_fifo') + 2 * MAX_PACKET_SIZE <= RECEIVE_FIFO_SIZE
        BY SMTT(30), <2>1, <3>2, Sizes DEF Fresh, Sized
      <4>. QED BY Zenon, <4>1, StillFits DEF Fresh
    <3>. QED BY Zenon, <3>1, <3>2 DEF Sized, IInv, Types
  <2>. QED BY <1>3, <2>1, <2>3, <2>4 DEF Fresh
<1>8. CASE ~usbFatalError /\ (controlTransmitCallback \/ ep1TransmitCallback)
  <2>1. /\ UNCHANGED <<urstif, configuration, receive_fifo, interrupt_receive_queued, setReportVars, pc>>
        /\ stat' = Tail(stat) /\ \E ev : Handling(ev)
    BY Zenon, <1>8 DEF controlTransmitCallback, ep1TransmitCallback
  <2>2. ReceiveFits'
    BY Zenon, <1>0, <2>1, StillFits DEF Fresh, ControlQueued
  <2>. QED BY Zenon, <1>4, <2>1, <2>2 DEF Fresh
<1>9. ASSUME NEW ev \in {"out0", "out2"}, Handling(ev)
      PROVE  /\ Head(stat).data \in Seq(Byte(KReceive)) /\ Len(Head(stat).data) < MAX_PACKET_SIZE
             /\ Len(receive_fifo \o Head(stat).data) <= Len(receive_fifo) + MAX_PACKET_SIZE - 1
  <2>1. Head(stat).data \in Seq(Byte(KReceive)) /\ Len(Head(stat).data) < MAX_PACKET_SIZE
    BY Zenon, <1>9, FirstEntry, EntryData DEF Sized, Handling
  <2>. QED BY <1>0, <2>1, Sizes DEF Sized
<1>10. CASE ~usbFatalError /\ controlReceiveCallback
  <2>1. /\ Handling("out0") /\ stat' = Tail(stat)
        /\ UNCHANGED <<urstif, configuration, interrupt_receive_queued, pc>>
        /\ \/ /\ receive_fifo' = receive_fifo
              /\ expect_control_report' \in {NoReport, expect_control_report}
           \/ /\ receive_fifo' = receive_fifo \o Head(stat).data
              /\ expect_control_report # NoReport /\ expect_control_report' = NoReport
        /\ \E stall : do_control_receive_queue' = (do_control_receive_queue /\ ~stall)
    BY Zenon, <1>10 DEF controlReceiveCallback
  <2>2. do_control_receive_queue = FALSE /\ do_control_receive_queue' = FALSE
    <3>1. Pending("out0")
      BY Zenon, <2>1, HeadGone
    <3>2. ~do_control_receive_queue
      BY Zenon, <3>1 DEF Sized, IInv, Postponed
    <3>. QED BY Zenon, <2>1, <3>2 DEF Sized, IInv, Types
  <2>3. ReceiveFits'
    <3>1. CASE receive_fifo' = receive_fifo /\ expect_control_report' \in {NoReport, expect_control_report}
      BY Zenon, <1>0, <2>1, <2>2, <3>1, StillFits DEF Fresh, ControlQueued
    <3>2. CASE /\ receive_fifo' = receive_fifo \o Head(stat).data
               /\ expect_control_report # NoReport /\ expect_control_report' = NoReport
      <4>1. Len(receive_fifo') <= Len(receive_fifo) + MAX_PACKET_SIZE - 1
        BY Zenon, <1>9, <2>1, <3>2
      <4>2. ControlQueued /\ ~ControlQueued'
        BY Zenon, <2>2, <3>2 DEF ControlQueued
      <4>. QED BY Zenon, <2>1, <4>1, <4>2, StillFits DEF Fresh
    <3>. QED BY Zenon, <2>1, <3>1, <3>2
  <2>. QED BY Zenon, <1>4, <2>1, <2>3 DEF Fresh
<1>11. CASE ~usbFatalError /\ ep2ReceiveCallback
  <2>. DEFINE accepted == InSequence(Head(stat), 2)
              fifo == IF accepted THEN receive_fifo \o Head(stat).data ELSE receive_fifo
              queue == ~accepted \/ HasHeadroom(fifo)
  <2>1. /\ Handling("out2") /\ stat' = Tail(stat) /\ configuration # 0
        /\ receive_fifo' = fifo
        /\ interrupt_receive_queued' = IF accepted THEN queue ELSE interrupt_receive_queued
        /\ UNCHANGED <<urstif, configuration, setReportVars, pc>>
    BY Zenon, <1>11 DEF ep2ReceiveCallback
  <2>2. interrupt_receive_queued = TRUE
    <3>1. Pending("out2")
      BY Zenon, <2>1, HeadGone
    <3>. QED BY Zenon, <3>1 DEF Sized, IInv, Types, FlagsMatchHardware
  <2>3. ReceiveFits'
    <3>1. CASE ~accepted
      BY Zenon, <1>0, <2>1, <2>2, <3>1, StillFits DEF Fresh, ControlQueued
    <3>2. CASE accepted /\ HasHeadroom(fifo)
      <4>1. Len(receive_fifo') \in Nat
        BY DEF Sized, FifoTypes, IsFIFO
      <4>2. Len(receive_fifo') + 2 * MAX_PACKET_SIZE <= RECEIVE_FIFO_SIZE
        <5>1. HasHeadroom(receive_fifo')
          BY Zenon, <2>1, <3>2 DEF HasHeadroom, circularBufferSpaceRemaining
        <5>. QED BY <4>1, <5>1, SameSizes, Sizes DEF HasHeadroom, circularBufferSpaceRemaining, RECEIVE_HEADROOM, Sized
      <4>. QED BY Zenon, <4>2, StillFits DEF Fresh
    <3>3. CASE accepted /\ ~HasHeadroom(fifo)
      <4>1. ~interrupt_receive_queued'
        BY Zenon, <2>1, <3>3
      <4>2. Len(receive_fifo') <= Len(receive_fifo) + MAX_PACKET_SIZE - 1
        BY Zenon, <1>9, <2>1, <3>3
      <4>. QED BY Zenon, <2>1, <2>2, <4>1, <4>2, StillFits DEF Fresh, ControlQueued
    <3>. QED BY Zenon, <3>1, <3>2, <3>3
  <2>. QED BY Zenon, <1>4, <2>1, <2>3 DEF Fresh
<1>. QED BY Zenon, <1>1, <1>2, <1>5, <1>6, <1>7, <1>8, <1>10, <1>11 DEF USBHandler

LEMMA InitFresh == Init => Fresh
<1>. SUFFICES ASSUME Init PROVE Fresh
  BY Zenon
<1>1. IInv
  BY Zenon, InitInvariant
<1>2. QueuedReceives = 0 /\ Len(receive_fifo) = 0
  BY DEF Init, QueuedReceives
<1>3. ReceiveFits
  BY <1>1, <1>2, Sizes DEF ReceiveFits
<1>. QED BY <1>3 DEF Init, Fresh

LEMMA NextFresh == Sized /\ (ConfiguresOnce => Fresh) /\ [Next]_<<env, vars>> => (ConfiguresOnce => Fresh)'
<1>. SUFFICES ASSUME Sized, ConfiguresOnce => Fresh, [Next]_<<env, vars>>, ConfiguresOnce' PROVE Fresh'
  BY Zenon
<1>1. Sized' /\ env' = env
  BY Zenon, NextSized DEF Next
<1>2. ConfiguresOnce /\ Fresh
  BY Zenon, <1>1 DEF ConfiguresOnce, Resets, Requests
<1>3. CASE UNCHANGED <<env, vars>>
  <2>1. UNCHANGED <<stat, urstif, configuration, receive_fifo, interrupt_receive_queued,
                    do_control_receive_queue, expect_control_report, pc, env>>
    BY Zenon, <1>3 DEF vars, deviceVars, fifos, interruptVars, setReportVars, controlVars, busVars, appVars
  <2>2. ReceiveFits'
    BY Zenon, <1>2, <2>1, SameSizes DEF Fresh, ReceiveFits, QueuedReceives
  <2>. QED BY Zenon, <1>2, <2>1, <2>2 DEF Fresh
<1>. QED BY Zenon, <1>1, <1>2, <1>3, FreshAfterApplication, FreshAfterHandler, FreshAfterHost DEF Next

\* FIFOs, packets, positions and U1STAT stay within their sizes with any host.  With one
\* that configures the device once, "there should always be enough space"
\* (transferIntoReceiveFIFO) is true: whatever is in the receive FIFO, a full report on
\* each receive that is queued still fits, on the interrupt and on the control endpoint.
THEOREM ReportsAlwaysFit == Spec => []ReportsFit
<1>1. Sized /\ (ConfiguresOnce => Fresh) => ReportsFit
  BY Zenon, SizedTypes DEF ReportsFit, Fresh
<1>. QED BY <1>1, InitSized, NextSized, InitFresh, NextFresh, PTL DEF Spec

-----------------------------------------------------------------------------
(* A control transfer with a well-behaved host, step by step.               *)

\* The device has nothing to transmit or to expect on the control endpoint.
Quiet ==
  /\ expect_control_report = NoReport /\ ~do_build_transmit_report
  /\ "tx0" \notin uown /\ transmit_remaining = 0

\* No transfer is under way.
Resting ==
  /\ transfer.phase = "none" /\ current_stage = "SETUP" /\ "rx0" \in uown /\ Quiet
  /\ ~Pending("setup") /\ ~Pending("out0") /\ ~Pending("in0")

\* A SETUP packet waits, perhaps behind the end of the last transfer.
Beginning ==
  /\ Pending("setup") /\ ~Pending("out0") /\ Quiet /\ ~stalled /\ transfer.req \in Requests
  /\ Pending("in0") => current_stage = "STATUS"

\* The host will see that the request is refused.
Stalled ==
  /\ stalled /\ transfer.phase # "none" /\ current_stage = "SETUP" /\ "rx0" \in uown /\ Quiet
  /\ ~Pending("setup") /\ ~Pending("out0") /\ ~Pending("in0")

\* The Data stage of a read: a report, or a descriptor in several packets.
ReadingReport ==
  /\ transfer.phase = "dataIn" /\ transfer.req.kind = "GetReport"
  /\ ~stalled /\ current_stage = "DATA" /\ "rx0" \in uown
  /\ expect_control_report = NoReport /\ transmit_remaining = 0
  /\ do_build_transmit_report <=> "tx0" \notin uown
  /\ ~Pending("setup") /\ ~Pending("out0") /\ ~Pending("in0")
ReadingDescriptor ==
  /\ transfer.phase = "dataIn" /\ transfer.req.kind = "GetDescriptor"
  /\ ~stalled /\ current_stage = "DATA" /\ "rx0" \in uown
  /\ expect_control_report = NoReport /\ ~do_build_transmit_report
  /\ transfer.req.exact => transfer.left \notin {MAX_PACKET_SIZE, 2 * MAX_PACKET_SIZE}
  /\ ~Pending("setup") /\ ~Pending("out0")
  /\ IF "tx0" \in uown THEN ~Pending("in0") /\ transmit_remaining = ExtendedTransmit(transfer.left)
                       ELSE Pending("in0") /\ transmit_remaining = transfer.left + MAX_PACKET_SIZE

\* Everything was read; then the host has also confirmed it.
LastRead ==
  /\ ~stalled /\ Quiet /\ ~Pending("setup")
  /\ IF Pending("in0") THEN current_stage = "DATA"
                       ELSE current_stage = "STATUS" /\ data_sequence[0] = 1
AllRead == LastRead /\ transfer.phase = "statusOut" /\ "rx0" \in uown /\ ~Pending("out0")
ReadConfirmed ==
  /\ LastRead /\ transfer.phase = "none" /\ Pending("out0")
  /\ \A i, j \in 1 .. Len(stat) : stat[i].ev = "in0" /\ stat[j].ev = "out0" => i < j

\* The Data stage of a write, before and after its packet has come.
WriteExpected ==
  /\ transfer.req.kind = "SetReport" /\ expect_control_report = transfer.req.n
  /\ ~stalled /\ current_stage = "DATA" /\ data_sequence[0] = 1
  /\ "tx0" \notin uown /\ ~do_build_transmit_report /\ transmit_remaining = 0
  /\ ~Pending("setup") /\ ~Pending("in0")
Writing == WriteExpected /\ transfer.phase = "dataOut" /\ ~Pending("out0")
Written ==
  /\ WriteExpected /\ transfer.phase = "statusIn" /\ Pending("out0")
  /\ \A i \in 1 .. Len(stat) : stat[i].ev = "out0" =>
       stat[i].id = transfer.req.n /\ stat[i].good = transfer.req.good

\* The device confirms a write; then the host has read that.
Confirmation ==
  /\ ~stalled /\ current_stage = "STATUS" /\ "rx0" \in uown
  /\ expect_control_report = NoReport /\ ~do_build_transmit_report /\ transmit_remaining = 0
  /\ ~Pending("setup") /\ ~Pending("out0")
Confirming == Confirmation /\ transfer.phase = "statusIn" /\ "tx0" \in uown /\ ~Pending("in0")
Confirmed == Confirmation /\ transfer.phase = "none" /\ "tx0" \notin uown /\ Pending("in0")

InStep ==
  \/ Resting \/ Beginning \/ Stalled \/ ReadingReport \/ ReadingDescriptor \/ AllRead \/ ReadConfirmed
  \/ Writing \/ Written \/ Confirming \/ Confirmed

\* A step that leaves the control endpoint alone, but for giving its receiving
\* descriptor to the module.
LEMMA OutOfStep ==
  ASSUME InStep, env' = env,
         UNCHANGED <<stalled, expect_control_report, do_build_transmit_report, transmit_remaining,
                     current_stage, transfer>>,
         data_sequence'[0] = data_sequence[0],
         "tx0" \in uown' <=> "tx0" \in uown, "rx0" \in uown => "rx0" \in uown',
         Pending("setup")' <=> Pending("setup"), Pending("out0")' <=> Pending("out0"),
         Pending("in0")' <=> Pending("in0"),
         \A i \in 1 .. Len(stat') : stat'[i].ev = "out0" =>
            \E j \in 1 .. Len(stat) : stat[j] = stat'[i],
         (\A i, j \in 1 .. Len(stat) : stat[i].ev = "in0" /\ stat[j].ev = "out0" => i < j)
            => (\A i, j \in 1 .. Len(stat') : stat'[i].ev = "in0" /\ stat'[j].ev = "out0" => i < j)
  PROVE  InStep'
<1>1. Requests' = Requests /\ MAX_PACKET_SIZE' = MAX_PACKET_SIZE
  BY Zenon, SameSizes
<1>2. (Quiet <=> Quiet') /\ (LastRead <=> LastRead') /\ (WriteExpected <=> WriteExpected')
  BY Zenon DEF Quiet, LastRead, WriteExpected
<1>3. Confirmation => Confirmation'
  BY Zenon DEF Confirmation
<1>4. CASE Resting \/ Beginning \/ Stalled
  BY Zenon, <1>1, <1>2, <1>4 DEF InStep, Resting, Beginning, Stalled
<1>5. CASE ReadingReport
  BY Zenon, <1>5 DEF InStep, ReadingReport
<1>6. CASE ReadingDescriptor
  BY Zenon, <1>1, <1>6 DEF InStep, ReadingDescriptor, ExtendedTransmit
<1>7. CASE AllRead \/ ReadConfirmed
  BY Zenon, <1>2, <1>7 DEF InStep, AllRead, ReadConfirmed
<1>8. CASE Writing \/ Written
  BY Zenon, <1>2, <1>8 DEF InStep, Writing, Written
<1>9. CASE Confirming \/ Confirmed
  BY Zenon, <1>3, <1>9 DEF InStep, Confirming, Confirmed
<1>. QED BY Zenon, <1>4, <1>5, <1>6, <1>7, <1>8, <1>9 DEF InStep

LEMMA StepsAfterApplication ==
  ASSUME Sized, env' = env, Fresh, ~fatal, InStep, Application
  PROVE  ~fatal' /\ InStep'
<1>. USE DEF deviceVars, fifos, interruptVars, setReportVars, getReportVars, controlVars, busVars, appVars, hostVars
<1>1. /\ UNCHANGED <<stat, stalled, expect_control_report, current_stage, data_sequence, transfer>>
      /\ \A ev : Pending(ev)' <=> Pending(ev)
  BY Zenon DEF Application, CallGet, CallPut, circularBufferRead, streamGetOneByte, streamPutOneByte,
         usbFatalError, Pending
<1>2. ASSUME ~fatal', UNCHANGED <<do_build_transmit_report, transmit_remaining>>,
             uown \subseteq uown', "tx0" \in uown' => "tx0" \in uown
      PROVE  ~fatal' /\ InStep'
  BY Zenon, <1>1, <1>2, OutOfStep
<1>3. CASE CallGet \/ CallPut \/ circularBufferRead
  BY Zenon, <1>2, <1>3 DEF CallGet, CallPut, circularBufferRead
<1>4. CASE streamGetOneByte
  <2>. DEFINE control == HasHeadroom(receive_fifo) /\ ControlFirst
              interrupt == HasHeadroom(receive_fifo) /\ InterruptNext
  <2>1. ~(control /\ "rx0" \in uown)
    BY Zenon DEF Sized, IInv, FlagsMatchHardware, ControlFirst
  <2>2. configuration # 0
    BY Zenon, <1>4 DEF streamGetOneByte, Fresh
  <2>3. ~(interrupt /\ ("rx2" \in uown \/ configuration = 0))
    BY Zenon, <2>2 DEF Sized, IInv, FlagsMatchHardware, InterruptNext
  <2>4. /\ UNCHANGED <<fatal, do_build_transmit_report, transmit_remaining>>
        /\ uown \subseteq uown' /\ ("tx0" \in uown' => "tx0" \in uown)
    BY <1>4, <2>1, <2>3 DEF streamGetOneByte
  <2>. QED BY Zenon, <1>2, <2>4
<1>5. CASE streamPutOneByte
  <2>. DEFINE build == do_build_transmit_report
              complete == build /\ Len(report) + 2 = desired_transmit_report_length
              f == IF build THEN transmit_fifo ELSE Append(transmit_fifo, put)
  <2>1. build => ReadingReport /\ "tx0" \notin uown
    BY Zenon DEF InStep, Resting, Beginning, Stalled, ReadingReport, ReadingDescriptor, AllRead, ReadConfirmed, LastRead,
           Writing, Written, WriteExpected, Confirming, Confirmed, Confirmation, Quiet
  <2>2. ~(complete /\ "tx0" \in uown)
    BY Zenon, <2>1
  <2>3. configuration # 0
    BY Zenon, <1>5 DEF streamPutOneByte, Fresh
  <2>4. ~(~interrupt_transmit_queued /\ CannotFill(f, uown))
    BY Zenon, <2>3 DEF Sized, IInv, FlagsMatchHardware, CannotFill
  <2>5. /\ fatal' = fatal
        /\ do_build_transmit_report' = (build /\ ~complete)
        /\ transmit_remaining' = IF complete THEN 0 ELSE transmit_remaining
        /\ uown \subseteq uown' /\ ("tx0" \in uown' <=> "tx0" \in uown \/ complete)
    BY <1>5, <2>2, <2>4 DEF streamPutOneByte, FilledOwner
  <2>. HIDE DEF complete
  <2>6. CASE ~complete
    <3>1. do_build_transmit_report' = do_build_transmit_report
      BY Zenon, <2>5, <2>6 DEF Sized, FifoTypes
    <3>. QED BY Zenon, <1>2, <2>5, <2>6, <3>1
  <2>7. CASE complete
    <3>1. ReadingReport
      BY Zenon, <2>1, <2>7 DEF complete
    <3>2. ~do_build_transmit_report' /\ "tx0" \in uown' /\ transmit_remaining' = 0
      BY Zenon, <2>5, <2>7
    <3>. QED BY Zenon, <1>1, <2>5, <3>1, <3>2 DEF InStep, ReadingReport
  <2>. QED BY Zenon, <2>6, <2>7
<1>. QED BY Zenon, <1>3, <1>4, <1>5 DEF Application

\* What a transaction adds to U1STAT.
LEMMA StatAdded ==
  ASSUME Sized, NEW bd, NEW e, Transact(bd, e)
  PROVE  /\ Len(stat) \in Nat /\ Len(stat') = Len(stat) + 1
         /\ \A i \in 1 .. Len(stat) : stat'[i] = stat[i]
         /\ stat'[Len(stat) + 1] = e
         /\ \A i \in 1 .. Len(stat') : i \in 1 .. Len(stat) \/ i = Len(stat) + 1
         /\ \A ev : Pending(ev)' <=> Pending(ev) \/ ev = e.ev
<1>1. /\ Len(stat) \in Nat /\ Len(stat') = Len(stat) + 1
      /\ \A i \in 1 .. Len(stat) : stat'[i] = stat[i]
      /\ stat'[Len(stat) + 1] = e
  BY Appended DEF Sized, IInv, Queue, Transact
<1>2. \A i \in 1 .. Len(stat') : i \in 1 .. Len(stat) \/ i = Len(stat) + 1
  BY <1>1
<1>3. \A ev : Pending(ev)' <=> Pending(ev) \/ ev = e.ev
  BY <1>1, <1>2 DEF Pending
<1>. QED BY Zenon, <1>1, <1>2, <1>3

LEMMA StepsAfterHost ==
  ASSUME Sized, env' = env, WellBehaved, Fresh, ~fatal, InStep, Host
  PROVE  ~fatal' /\ InStep'
<1>. USE DEF deviceVars, fifos, interruptVars, setReportVars, getReportVars, controlVars, busVars, appVars, hostVars
<1>. DEFINE kept == <<expect_control_report, do_build_transmit_report, transmit_remaining,
                      current_stage, data_sequence, fatal>>
<1>0. Requests' = Requests /\ MAX_PACKET_SIZE' = MAX_PACKET_SIZE /\ MAX_PACKET_SIZE \in Nat \ {0, 1}
  BY Zenon, SameSizes, Sizes DEF Sized
<1>1. ASSUME NEW bd, NEW e, Transact(bd, e)
      PROVE  /\ UNCHANGED kept /\ ~pktdis /\ bd \in uown /\ uown' = uown \ {bd}
             /\ ~Pending("setup")
             /\ \A ev : Pending(ev)' <=> Pending(ev) \/ ev = e.ev
  <2>1. UNCHANGED kept /\ ~pktdis /\ bd \in uown /\ uown' = uown \ {bd}
    BY Zenon, <1>1 DEF Transact, BusReady
  <2>2. ~Pending("setup")
    BY Zenon, <2>1 DEF Sized, IInv, Queue, Pending
  <2>3. \A ev : Pending(ev)' <=> Pending(ev) \/ ev = e.ev
    BY Zenon, <1>1, StatAdded
  <2>. QED BY Zenon, <2>1, <2>2, <2>3
<1>2. ASSUME NEW r \in Requests, HostSetup(r) PROVE ~fatal' /\ InStep'
  <2>. DEFINE e == [ev |-> "setup", req |-> r]
  <2>1. /\ Transact("rx0", e) /\ e.ev = "setup" /\ transfer.phase = "none"
        /\ stalled' = FALSE /\ transfer'.req = r
    BY Zenon, <1>2 DEF HostSetup, WellBehaved
  <2>. HIDE DEF e
  <2>2. /\ UNCHANGED kept /\ "rx0" \in uown /\ uown' = uown \ {"rx0"} /\ ~Pending("setup")
        /\ \A ev : Pending(ev)' <=> Pending(ev) \/ ev = "setup"
    BY Zenon, <1>1, <2>1
  <2>3. Pending("setup")' /\ (Pending("out0")' <=> Pending("out0")) /\ (Pending("in0")' <=> Pending("in0"))
    BY Zenon, <2>2
  <2>4. ~Pending("out0")
    BY Zenon, <2>2, Buffers DEF Sized, IInv, Queue, Pending
  <2>5. Resting \/ Confirmed
    BY Zenon, <2>1, <2>2, <2>4 DEF InStep, Resting, Beginning, Stalled, ReadingReport, ReadingDescriptor, AllRead,
       ReadConfirmed, LastRead, Writing, Written, WriteExpected, Confirming, Confirmed, Confirmation
  <2>6. Quiet' /\ ~Pending("out0")' /\ (Pending("in0")' => current_stage' = "STATUS")
    BY Zenon, <2>2, <2>3, <2>5 DEF Resting, Confirmed, Confirmation, Quiet
  <2>. QED BY Zenon, <1>0, <2>1, <2>2, <2>3, <2>6 DEF InStep, Beginning
<1>3. ASSUME HostReadsData PROVE ~fatal' /\ InStep'
  <2>. DEFINE size == Least(transfer.left, MAX_PACKET_SIZE)
              left == transfer.left - size
              last == \/ transfer.req.kind = "GetReport"
                      \/ size < MAX_PACKET_SIZE
                      \/ transfer.req.exact /\ left = 0
              e == [ev |-> "in0"]
  <2>1. /\ Transact("tx0", e) /\ e.ev = "in0" /\ transfer.phase = "dataIn" /\ ~stalled /\ stalled' = stalled
        /\ transfer' = [transfer EXCEPT !.left = left, !.phase = IF last THEN "statusOut" ELSE "dataIn"]
    BY Zenon, <1>3 DEF HostReadsData
  <2>. HIDE DEF e
  <2>2. /\ UNCHANGED kept /\ "tx0" \in uown /\ uown' = uown \ {"tx0"} /\ ~Pending("setup")
        /\ \A ev : Pending(ev)' <=> Pending(ev) \/ ev = "in0"
    BY Zenon, <1>1, <2>1
  <2>3. ~Pending("setup")' /\ (Pending("out0")' <=> Pending("out0")) /\ Pending("in0")'
    BY Zenon, <2>2
  <2>4. ReadingReport \/ ReadingDescriptor
    BY Zenon, <2>1, <2>2 DEF InStep, Resting, Beginning, Stalled, AllRead,
       ReadConfirmed, LastRead, Writing, Written, WriteExpected, Confirming, Confirmed, Confirmation
  <2>5. transfer \in [req : Request(MAX_PACKET_SIZE), phase : Phase, left : 0 .. 2 * MAX_PACKET_SIZE]
    BY Zenon DEF Sized, HostTypes
  <2>6. /\ transfer'.req = transfer.req /\ transfer'.left = left
        /\ transfer'.phase = IF last THEN "statusOut" ELSE "dataIn"
    BY Zenon, <2>1, <2>5
  <2>7. ASSUME last, transmit_remaining = 0 PROVE AllRead'
    BY Zenon, <2>1, <2>2, <2>3, <2>4, <2>6, <2>7 DEF AllRead, LastRead, Quiet, ReadingReport, ReadingDescriptor
  <2>8. CASE ReadingReport
    BY Zenon, <2>2, <2>7, <2>8 DEF InStep, ReadingReport
  <2>9. CASE ReadingDescriptor
    <3>0. transfer.left \in 0 .. 2 * MAX_PACKET_SIZE /\ transmit_remaining = ExtendedTransmit(transfer.left)
      BY Zenon, <2>2, <2>9, Phases DEF ReadingDescriptor
    <3>1. CASE transfer.left < MAX_PACKET_SIZE
      <4>1. size < MAX_PACKET_SIZE /\ transmit_remaining = 0
        BY <1>0, <3>0, <3>1 DEF Least, ExtendedTransmit
      <4>2. last
        BY Zenon, <4>1
      <4>. QED BY Zenon, <2>2, <2>7, <4>1, <4>2 DEF InStep
    <3>2. CASE ~(transfer.left < MAX_PACKET_SIZE)
      <4>1. /\ size = MAX_PACKET_SIZE /\ transmit_remaining = transfer.left
            /\ left = transfer.left - MAX_PACKET_SIZE
        BY <1>0, <3>0, <3>2 DEF Least, ExtendedTransmit
      <4>2. ~(size < MAX_PACKET_SIZE) /\ transfer.req.kind # "GetReport"
        BY <1>0, <2>9, <4>1 DEF ReadingDescriptor
      <4>3. ASSUME transfer.req.exact PROVE left # 0 /\ left # MAX_PACKET_SIZE /\ left # 2 * MAX_PACKET_SIZE
        <5>1. transfer.left # MAX_PACKET_SIZE /\ transfer.left # 2 * MAX_PACKET_SIZE
          BY Zenon, <2>9, <4>3 DEF ReadingDescriptor
        <5>. QED BY <1>0, <3>0, <4>1, <5>1
      <4>4. ~last
        BY Zenon, <4>2, <4>3
      <4>5. transfer'.phase = "dataIn" /\ transmit_remaining' = transfer'.left + MAX_PACKET_SIZE
        BY <1>0, <2>2, <2>6, <3>0, <4>1, <4>4
      <4>6. transfer'.req.exact => transfer'.left \notin {MAX_PACKET_SIZE, 2 * MAX_PACKET_SIZE}
        BY Zenon, <2>6, <4>3
      <4>7. "tx0" \notin uown' /\ "rx0" \in uown'
        BY Zenon, <2>2, <2>9 DEF ReadingDescriptor
      <4>8. ReadingDescriptor'
        BY Zenon, <1>0, <2>1, <2>2, <2>3, <2>6, <2>9, <4>5, <4>6, <4>7 DEF ReadingDescriptor
      <4>. QED BY Zenon, <2>2, <4>8 DEF InStep
    <3>. QED BY Zenon, <3>1, <3>2
  <2>. QED BY Zenon, <2>4, <2>8, <2>9
<1>4. ASSUME HostReadsStatus PROVE ~fatal' /\ InStep'
  <2>. DEFINE e == [ev |-> "in0"]
  <2>1. /\ Transact("tx0", e) /\ e.ev = "in0" /\ transfer.phase = "statusIn" /\ ~stalled /\ stalled' = stalled
        /\ transfer'.phase = "none"
    BY Zenon, <1>4, NothingTransferred DEF HostReadsStatus
  <2>. HIDE DEF e
  <2>2. /\ UNCHANGED kept /\ "tx0" \in uown /\ uown' = uown \ {"tx0"} /\ ~Pending("setup")
        /\ \A ev : Pending(ev)' <=> Pending(ev) \/ ev = "in0"
    BY Zenon, <1>1, <2>1
  <2>3. ~Pending("setup")' /\ (Pending("out0")' <=> Pending("out0")) /\ Pending("in0")'
    BY Zenon, <2>2
  <2>4. Confirming
    BY Zenon, <2>1, <2>2 DEF InStep, Resting, Beginning, Stalled, ReadingReport, ReadingDescriptor, AllRead,
       ReadConfirmed, LastRead, Writing, Written, WriteExpected, Confirmed, Confirmation
  <2>5. Confirmed'
    BY Zenon, <2>1, <2>2, <2>3, <2>4 DEF Confirming, Confirmed, Confirmation
  <2>. QED BY Zenon, <2>2, <2>5 DEF InStep
<1>5. ASSUME NEW a \in BOOLEAN, HostWritesData(a) PROVE ~fatal' /\ InStep'
  <2>. DEFINE e == [ev |-> "out0", toggle |-> 1, id |-> transfer.req.n, good |-> transfer.req.good,
                    data |-> Bytes(sent, transfer.req.n, KReceive)]
  <2>0. a
    BY Zenon, <1>5 DEF HostWritesData, WellBehaved
  <2>1. /\ Transact("rx0", e) /\ transfer.phase = "dataOut" /\ ~stalled /\ stalled' = stalled
        /\ transfer' = [transfer EXCEPT !.phase = "statusIn"]
        /\ e.ev = "out0" /\ e.id = transfer.req.n /\ e.good = transfer.req.good
    BY Zenon, <1>5, <2>0 DEF HostWritesData
  <2>. HIDE DEF e
  <2>2. /\ UNCHANGED kept /\ "rx0" \in uown /\ uown' = uown \ {"rx0"} /\ ~Pending("setup")
        /\ \A ev : Pending(ev)' <=> Pending(ev) \/ ev = "out0"
    BY Zenon, <1>1, <2>1
  <2>3. ~Pending("setup")' /\ (Pending("in0")' <=> Pending("in0")) /\ Pending("out0")'
    BY Zenon, <2>2
  <2>4. Writing
    BY Zenon, <2>1, <2>2 DEF InStep, Resting, Beginning, Stalled, ReadingReport, ReadingDescriptor, AllRead,
       ReadConfirmed, LastRead, Written, WriteExpected, Confirming, Confirmed, Confirmation
  <2>5. transfer'.req = transfer.req /\ transfer'.phase = "statusIn"
    BY Zenon, <2>1 DEF Sized, HostTypes
  <2>6. \A i \in 1 .. Len(stat') : stat'[i].ev = "out0" =>
          stat'[i].id = transfer.req.n /\ stat'[i].good = transfer.req.good
    <3>1. \A i \in 1 .. Len(stat) : stat[i].ev # "out0"
      BY Zenon, <2>4 DEF Writing, Pending
    <3>. QED BY Zenon, <2>1, <3>1, StatAdded
  <2>7. Written'
    BY Zenon, <2>1, <2>2, <2>3, <2>4, <2>5, <2>6 DEF Writing, Written, WriteExpected
  <2>. QED BY Zenon, <2>2, <2>7 DEF InStep
<1>6. ASSUME NEW a \in BOOLEAN, HostWritesStatus(a) PROVE ~fatal' /\ InStep'
  <2>. DEFINE e == [ev |-> "out0", toggle |-> 1, id |-> NoReport, good |-> FALSE, data |-> <<>>]
  <2>0. a
    BY Zenon, <1>6 DEF HostWritesStatus, WellBehaved
  <2>1. /\ Transact("rx0", e) /\ transfer.phase = "statusOut" /\ ~stalled /\ stalled' = stalled
        /\ transfer'.phase = "none" /\ e.ev = "out0"
    BY Zenon, <1>6, <2>0, NothingTransferred DEF HostWritesStatus
  <2>. HIDE DEF e
  <2>2. /\ UNCHANGED kept /\ "rx0" \in uown /\ uown' = uown \ {"rx0"} /\ ~Pending("setup")
        /\ \A ev : Pending(ev)' <=> Pending(ev) \/ ev = "out0"
    BY Zenon, <1>1, <2>1
  <2>3. ~Pending("setup")' /\ (Pending("in0")' <=> Pending("in0")) /\ Pending("out0")'
    BY Zenon, <2>2
  <2>4. AllRead
    BY Zenon, <2>1, <2>2 DEF InStep, Resting, Beginning, Stalled, ReadingReport, ReadingDescriptor,
       ReadConfirmed, LastRead, Writing, Written, WriteExpected, Confirming, Confirmed, Confirmation
  <2>5. ASSUME NEW i \in 1 .. Len(stat'), NEW j \in 1 .. Len(stat'), stat'[i].ev = "in0", stat'[j].ev = "out0"
        PROVE  i < j
    <3>1. \A k \in 1 .. Len(stat) : stat[k].ev # "out0"
      BY Zenon, <2>4 DEF AllRead, Pending
    <3>2. j = Len(stat) + 1
      BY Zenon, <2>1, <2>5, <3>1, StatAdded
    <3>3. i \in 1 .. Len(stat)
      BY Zenon, <2>1, <2>5, StatAdded
    <3>. QED BY <2>1, <3>2, <3>3, StatAdded
  <2>6. LastRead'
    BY Zenon, <2>1, <2>2, <2>3, <2>4 DEF AllRead, LastRead, Quiet
  <2>7. ReadConfirmed'
    BY Zenon, <2>1, <2>3, <2>5, <2>6 DEF ReadConfirmed
  <2>. QED BY Zenon, <2>2, <2>7 DEF InStep
<1>7. ASSUME NEW bd \in {"tx1", "rx2"}, NEW e, Transact(bd, e), e.ev \in {"in1", "out2"},
             transfer' = transfer, stalled' = stalled
      PROVE  ~fatal' /\ InStep'
  <2>1. /\ UNCHANGED kept /\ uown' = uown \ {bd}
        /\ \A ev : Pending(ev)' <=> Pending(ev) \/ ev = e.ev
    BY Zenon, <1>1, <1>7
  <2>2. /\ Pending("setup")' <=> Pending("setup")
        /\ Pending("out0")' <=> Pending("out0")
        /\ Pending("in0")' <=> Pending("in0")
    BY Zenon, <1>7, <2>1
  <2>3. \A i \in 1 .. Len(stat') : stat'[i].ev \in {"in0", "out0"} => i \in 1 .. Len(stat) /\ stat'[i] = stat[i]
    BY Zenon, <1>7, StatAdded
  <2>. QED BY Zenon, <1>7, <2>1, <2>2, <2>3, OutOfStep
<1>8. ASSUME HostPolls PROVE ~fatal' /\ InStep'
  BY Zenon, <1>7, <1>8 DEF HostPolls
<1>9. ASSUME NEW n \in 0 .. MAX_PACKET_SIZE - 1, NEW a \in BOOLEAN, HostWrites(n, a) PROVE ~fatal' /\ InStep'
  <2>1. PICK e : Transact("rx2", e) /\ e.ev = "out2" /\ transfer' = transfer /\ stalled' = stalled
    BY Zenon, <1>9 DEF HostWrites
  <2>. QED BY Zenon, <1>7, <2>1
<1>10. ASSUME HostSeesStall PROVE ~fatal' /\ InStep'
  <2>1. /\ stalled /\ transfer.phase # "none" /\ transfer'.phase = "none" /\ UNCHANGED kept
        /\ UNCHANGED <<stat, uown>>
    BY Zenon, <1>10, NothingTransferred DEF HostSeesStall
  <2>2. Stalled
    BY Zenon, <2>1 DEF InStep, Resting, Beginning, ReadingReport, ReadingDescriptor, AllRead,
       ReadConfirmed, LastRead, Writing, Written, WriteExpected, Confirming, Confirmed, Confirmation
  <2>3. Resting'
    BY Zenon, <2>1, <2>2 DEF Stalled, Resting, Quiet, Pending
  <2>. QED BY Zenon, <2>1, <2>3 DEF InStep
<1>11. ~HostResets
  BY Zenon DEF HostResets, WellBehaved, ConfiguresOnce
<1>. QED BY Zenon, <1>2, <1>3, <1>4, <1>5, <1>6, <1>8, <1>9, <1>10, <1>11 DEF Host, ControlTransactions

\* The SETUP packet that is handled begins the transfer that the host is in.
LEMMA SetupInStep ==
  ASSUME Sized, InStep, NEW kind, Setup(kind)
  PROVE  /\ Beginning /\ transfer.req = Head(stat).req /\ transfer.left = Head(stat).req.n
         /\ transfer.req.kind = kind /\ transfer.phase = FirstPhase(transfer.req)
         /\ "rx0" \notin uown
         /\ Len(Tail(stat)) = 0
<1>1. Handling("setup") /\ Head(stat).req.kind = kind
  BY Zenon DEF Setup
<1>2. stat # <<>> /\ Head(stat).ev = "setup"
  BY Zenon, <1>1 DEF Handling
<1>3. 1 \in 1 .. Len(stat) /\ Head(stat) = stat[1]
  BY Zenon, <1>2, FirstEntry DEF Sized
<1>4. Pending("setup")
  BY Zenon, <1>2, <1>3 DEF Pending
<1>5. Beginning
  BY Zenon, <1>4 DEF InStep, Resting, Stalled, ReadingReport, ReadingDescriptor, AllRead,
       ReadConfirmed, LastRead, Writing, Written, WriteExpected, Confirming, Confirmed, Confirmation
<1>6. transfer.req = Head(stat).req /\ transfer.left = Head(stat).req.n
  BY Zenon, <1>2, <1>3 DEF Sized, ReadOnce
<1>7. transfer.phase = FirstPhase(Head(stat).req) /\ "rx0" \notin uown /\ Len(Tail(stat)) = 0
  BY Zenon, <1>1, SetupAlone DEF Sized
<1>. QED BY Zenon, <1>1, <1>5, <1>6, <1>7

LEMMA StepsAfterSetup ==
  ASSUME Sized, env' = env, WellBehaved, Fresh, ~fatal, InStep,
         getReport \/ setReport \/ getDescriptor \/ setConfiguration \/ protocolStall
  PROVE  ~fatal' /\ InStep'
<1>. USE DEF deviceVars, fifos, interruptVars, setReportVars, getReportVars, controlVars, busVars, appVars, hostVars
<1>0. MAX_PACKET_SIZE' = MAX_PACKET_SIZE
  BY Zenon, SameSizes
<1>1. ASSUME stat' = Tail(stat), NEW kind, Setup(kind) PROVE \A ev : ~Pending(ev)'
  BY <1>1, SetupInStep DEF Pending
<1>2. CASE getReport
  <2>. DEFINE n == Head(stat).req.n
              packet == Drop(QueuedPacket, n)
              fifo == Drop(transmit_fifo, n - Least(n, Len(QueuedPacket)))
              owned == IF packet = <<>> THEN uown \ {"tx1"} ELSE uown
              complete == n <= Len(PacketThenFIFO)
  <2>1. Setup("GetReport")
    BY Zenon, <1>2 DEF getReport
  <2>2. /\ Beginning /\ transfer.req = Head(stat).req /\ transfer.req.kind = "GetReport"
        /\ transfer.phase = FirstPhase(transfer.req) /\ "rx0" \notin uown
    BY Zenon, <2>1, SetupInStep
  <2>3. transfer.phase = "dataIn"
    BY Zenon, <2>2 DEF FirstPhase
  <2>4. "tx0" \notin uown /\ ~stalled /\ transmit_remaining = 0
    BY Zenon, <2>2 DEF Beginning, Quiet
  <2>5. ~(n > 0 /\ interrupt_transmit_queued /\ "tx1" \notin uown)
    BY Zenon, <2>1, SetupAlone DEF Setup, Sized
  <2>6. configuration = 1
    <3>1. 1 \in 1 .. Len(stat) /\ Head(stat) = stat[1] /\ Head(stat).ev = "setup"
      BY Zenon, <2>1, FirstEntry DEF Sized, Setup, Handling
    <3>. QED BY Zenon, <2>1, <3>1 DEF Setup, Fresh
  <2>7. ~(Refilled(packet) /\ CannotFill(fifo, owned))
    BY <2>6 DEF Refilled, CannotFill
  <2>8. /\ do_build_transmit_report' = ~complete
        /\ uown' = owned \cup {"rx0"} \cup (IF complete THEN {"tx0"} ELSE {})
                         \cup (IF Refilled(packet) THEN FilledOwner(fifo) ELSE {})
        /\ transmit_remaining' = IF complete THEN 0 ELSE transmit_remaining
        /\ current_stage' = "DATA" /\ expect_control_report' = NoReport /\ stat' = Tail(stat)
        /\ UNCHANGED <<stalled, transfer, fatal>>
    BY Zenon, <1>2, <2>2, <2>4, <2>5, <2>7 DEF getReport, AbortSetReport, SetupDone
  <2>9. /\ transmit_remaining' = 0 /\ "rx0" \in uown' /\ ("tx0" \in uown' <=> complete)
    BY Zenon, <2>4, <2>8 DEF FilledOwner
  <2>10. do_build_transmit_report' <=> "tx0" \notin uown'
    BY Zenon, <2>8, <2>9
  <2>11. \A ev : ~Pending(ev)'
    BY Zenon, <1>1, <2>1, <2>8
  <2>12. ReadingReport'
    BY Zenon, <2>2, <2>3, <2>4, <2>8, <2>9, <2>10, <2>11 DEF ReadingReport
  <2>. QED BY Zenon, <2>8, <2>12 DEF InStep
<1>3. CASE setReport
  <2>1. Setup("SetReport")
    BY Zenon, <1>3 DEF setReport
  <2>2. /\ Beginning /\ transfer.req = Head(stat).req /\ transfer.req.kind = "SetReport"
        /\ transfer.phase = FirstPhase(transfer.req) /\ "rx0" \notin uown
    BY Zenon, <2>1, SetupInStep
  <2>3. transfer.phase = "dataOut"
    BY Zenon, <2>2 DEF FirstPhase
  <2>4. "tx0" \notin uown /\ ~stalled /\ transmit_remaining = 0
    BY Zenon, <2>2 DEF Beginning, Quiet
  <2>5. /\ expect_control_report' = Head(stat).req.n /\ current_stage' = "DATA"
        /\ ~do_build_transmit_report' /\ "tx0" \notin uown' /\ data_sequence'[0] = 1 /\ stat' = Tail(stat)
        /\ UNCHANGED <<stalled, transfer, fatal, transmit_remaining>>
    BY <1>3, <2>2, <2>4 DEF setReport, AbortGetReport, SetupDone, Sized, IInv, Types
  <2>6. \A ev : ~Pending(ev)'
    BY Zenon, <1>1, <2>1, <2>5
  <2>7. Writing'
    BY Zenon, <2>2, <2>3, <2>4, <2>5, <2>6 DEF Writing, WriteExpected
  <2>. QED BY Zenon, <2>5, <2>7 DEF InStep
<1>4. CASE getDescriptor
  <2>1. Setup("GetDescriptor")
    BY Zenon, <1>4 DEF getDescriptor
  <2>2. /\ Beginning /\ transfer.req = Head(stat).req /\ transfer.req.kind = "GetDescriptor"
        /\ transfer.left = Head(stat).req.n
        /\ transfer.phase = FirstPhase(transfer.req) /\ "rx0" \notin uown
    BY Zenon, <2>1, SetupInStep
  <2>3. transfer.phase = "dataIn"
    BY Zenon, <2>2 DEF FirstPhase
  <2>4. "tx0" \notin uown /\ ~stalled /\ transfer.req \in Requests
    BY Zenon, <2>2 DEF Beginning, Quiet
  <2>5. /\ transmit_remaining' = ExtendedTransmit(transfer.left) /\ current_stage' = "DATA"
        /\ ~do_build_transmit_report' /\ expect_control_report' = NoReport
        /\ "tx0" \in uown' /\ "rx0" \in uown' /\ stat' = Tail(stat)
        /\ UNCHANGED <<stalled, transfer, fatal>>
    BY Zenon, <1>4, <2>2, <2>4 DEF getDescriptor, AbortGetReport, AbortSetReport, SetupDone
  <2>6. \A ev : ~Pending(ev)'
    BY Zenon, <1>1, <2>1, <2>5
  <2>7. transfer.req.exact => transfer.left \notin {MAX_PACKET_SIZE, 2 * MAX_PACKET_SIZE}
    BY Zenon, <2>2, <2>4 DEF WellBehaved
  <2>8. ReadingDescriptor'
    BY Zenon, <1>0, <2>2, <2>3, <2>4, <2>5, <2>6, <2>7 DEF ReadingDescriptor, ExtendedTransmit
  <2>. QED BY Zenon, <2>5, <2>8 DEF InStep
<1>5. CASE setConfiguration
  <2>1. Setup("SetConfiguration")
    BY Zenon, <1>5 DEF setConfiguration
  <2>2. /\ Beginning /\ transfer.req = Head(stat).req /\ transfer.req.kind = "SetConfiguration"
        /\ transfer.phase = FirstPhase(transfer.req) /\ "rx0" \notin uown
    BY Zenon, <2>1, SetupInStep
  <2>3. transfer.phase = "statusIn"
    BY Zenon, <2>2 DEF FirstPhase
  <2>4. "tx0" \notin uown /\ ~stalled
    BY Zenon, <2>2 DEF Beginning, Quiet
  <2>5. ~(Head(stat).req.n = 1 /\ configuration = 0 /\ "rx2" \in uown)
    BY Zenon DEF Sized, IInv, Disabled
  <2>6. /\ current_stage' = "STATUS" /\ transmit_remaining' = 0 /\ stalled' = FALSE
        /\ ~do_build_transmit_report' /\ expect_control_report' = NoReport
        /\ "tx0" \in uown' /\ "rx0" \in uown' /\ stat' = Tail(stat)
        /\ UNCHANGED <<transfer, fatal>>
    BY Zenon, <1>5, <2>2, <2>4, <2>5 DEF setConfiguration, AbortGetReport, AbortSetReport
  <2>7. \A ev : ~Pending(ev)'
    BY Zenon, <1>1, <2>1, <2>6
  <2>8. Confirming'
    BY Zenon, <2>3, <2>6, <2>7 DEF Confirming, Confirmation
  <2>. QED BY Zenon, <2>6, <2>8 DEF InStep
<1>6. CASE protocolStall
  <2>1. Setup("Unsupported")
    BY Zenon, <1>6 DEF protocolStall
  <2>2. /\ Beginning /\ transfer.req.kind = "Unsupported"
        /\ transfer.phase = FirstPhase(transfer.req) /\ "rx0" \notin uown
    BY Zenon, <2>1, SetupInStep
  <2>3. transfer.phase = "dataIn"
    BY Zenon, <2>2 DEF FirstPhase
  <2>4. "tx0" \notin uown /\ transmit_remaining = 0
    BY Zenon, <2>2 DEF Beginning, Quiet
  <2>5. /\ current_stage' = "SETUP" /\ stalled' = TRUE
        /\ ~do_build_transmit_report' /\ expect_control_report' = NoReport
        /\ "tx0" \notin uown' /\ "rx0" \in uown' /\ stat' = Tail(stat)
        /\ UNCHANGED <<transfer, fatal, transmit_remaining>>
    BY <1>6, <2>2, <2>4 DEF protocolStall, AbortGetReport, AbortSetReport, SetupDone
  <2>6. \A ev : ~Pending(ev)'
    BY Zenon, <1>1, <2>1, <2>5
  <2>7. Stalled'
    BY Zenon, <2>3, <2>4, <2>5, <2>6 DEF Stalled, Quiet
  <2>. QED BY Zenon, <2>5, <2>7 DEF InStep
<1>. QED BY Zenon, <1>2, <1>3, <1>4, <1>5, <1>6

\* The entry that is handled, on the control endpoint.
LEMMA StepsAfterControl ==
  ASSUME Sized, env' = env, Fresh, ~fatal, InStep, controlReceiveCallback \/ controlTransmitCallback
  PROVE  ~fatal' /\ InStep'
<1>. USE DEF deviceVars, fifos, interruptVars, setReportVars, getReportVars, controlVars, busVars, appVars, hostVars
<1>0. MAX_PACKET_SIZE' = MAX_PACKET_SIZE /\ MAX_PACKET_SIZE \in Nat \ {0, 1} /\ Requests' = Requests
  BY Zenon, SameSizes, Sizes DEF Sized
<1>1. ASSUME NEW ev, Handling(ev)
      PROVE  /\ 1 \in 1 .. Len(stat) /\ stat[1] = Head(stat) /\ stat[1].ev = ev /\ Pending(ev)
             /\ ev # "in0" => Buffer(ev) \notin uown
  <2>1. stat # <<>> /\ Head(stat).ev = ev
    BY Zenon, <1>1 DEF Handling
  <2>2. 1 \in 1 .. Len(stat) /\ stat[1] = Head(stat)
    BY Zenon, <2>1, FirstEntry DEF Sized
  <2>. QED BY Zenon, <2>1, <2>2 DEF Sized, IInv, Queue, Pending
<1>2. CASE controlReceiveCallback
  <2>. DEFINE e == Head(stat)
              accepted == InSequence(e, 0)
              stage == IF accepted THEN current_stage ELSE "ignored"
              store == /\ stage = "DATA" /\ expect_control_report # NoReport
                       /\ e.good /\ e.id = expect_control_report
              stall == stage = "DATA" /\ ~store
              error == \/ stage = "SETUP"
                       \/ "rx0" \in uown
                       \/ store /\ (Len(e.data) > circularBufferSpaceRemaining(receive_fifo) \/ "tx0" \in uown)
  <2>1. Handling("out0")
    BY Zenon, <1>2 DEF controlReceiveCallback
  <2>2. 1 \in 1 .. Len(stat) /\ stat[1] = e /\ e.ev = "out0" /\ Pending("out0") /\ "rx0" \notin uown
    BY Zenon, <1>1, <2>1, Buffers
  <2>3. e.toggle = 1
    BY Zenon, <2>2 DEF Sized, IInv, Queue, IsEntry
  <2>4. ReadConfirmed \/ Written
    BY Zenon, <2>2 DEF InStep, Resting, Beginning, Stalled, ReadingReport, ReadingDescriptor, AllRead,
       Writing, Confirming, Confirmed, Confirmation
  <2>5. ASSUME ReadConfirmed PROVE ~Pending("in0")
    <3>1. \A i \in 1 .. Len(stat) : stat[i].ev = "in0" => i < 1
      BY Zenon, <2>2, <2>5 DEF ReadConfirmed
    <3>. QED BY <3>1 DEF Pending
  <2>6. data_sequence[0] = 1 /\ (ReadConfirmed => current_stage = "STATUS") /\ (Written => current_stage = "DATA")
    BY Zenon, <2>4, <2>5 DEF ReadConfirmed, LastRead, Written, WriteExpected
  <2>7. accepted
    BY Zenon, <2>3, <2>6 DEF InSequence
  <2>8. stage = current_stage
    BY Zenon, <2>7
  <2>. HIDE DEF stage, accepted
  <2>9. Written => expect_control_report # NoReport /\ e.id = expect_control_report /\ "tx0" \notin uown
    <3>1. ASSUME Written PROVE expect_control_report # NoReport
      BY <3>1, <1>0, Phases DEF Written, WriteExpected, Request, NoReport
    <3>2. ASSUME Written PROVE e.id = transfer.req.n
      BY Zenon, <2>2, <3>2 DEF Written
    <3>. QED BY Zenon, <3>1, <3>2 DEF Written, WriteExpected
  <2>10. ~error
    <3>1. stage # "SETUP"
      BY Zenon, <2>4, <2>6, <2>8
    <3>2. ASSUME store PROVE Written
      BY Zenon, <2>4, <2>6, <2>8, <3>2
    <3>3. ASSUME Written PROVE ~(Len(e.data) > circularBufferSpaceRemaining(receive_fifo))
      <4>1. Len(e.data) \in Nat /\ Len(e.data) <= MAX_PACKET_SIZE - 1
        <5>1. e.data \in Seq(Byte(KReceive)) /\ Len(e.data) < MAX_PACKET_SIZE
          BY Zenon, <2>2, EntryData
        <5>. QED BY <1>0, <5>1
      <4>2. ~do_control_receive_queue
        BY Zenon, <2>2 DEF Sized, IInv, Postponed
      <4>3. PICK q \in {1, 2} : QueuedReceives = q
        BY <2>9, <3>3, <4>2 DEF QueuedReceives
      <4>4. Len(receive_fifo) \in Nat /\ RECEIVE_FIFO_SIZE \in Nat
        BY Sizes DEF Sized, FifoTypes, IsFIFO
      <4>5. Len(receive_fifo) + q * (MAX_PACKET_SIZE - 1) <= RECEIVE_FIFO_SIZE
        BY Zenon, <4>3 DEF Fresh, ReceiveFits
      <4>6. CASE q = 1
        BY <1>0, <4>1, <4>4, <4>5, <4>6 DEF circularBufferSpaceRemaining
      <4>7. CASE q = 2
        BY <1>0, <4>1, <4>4, <4>5, <4>7 DEF circularBufferSpaceRemaining
      <4>. QED BY Zenon, <4>6, <4>7
    <3>. QED BY Zenon, <2>2, <2>9, <3>1, <3>2, <3>3
  <2>11. /\ expect_control_report' = IF stage = "DATA" THEN NoReport ELSE expect_control_report
         /\ do_build_transmit_report' = (do_build_transmit_report /\ ~stall)
         /\ stalled' = (stalled \/ stall)
         /\ current_stage' = CASE store -> "STATUS"
                               [] stall \/ stage = "STATUS" -> "SETUP"
                               [] stage = "ignored" -> current_stage
         /\ transmit_remaining' = IF store THEN 0 ELSE transmit_remaining
         /\ uown' = uown \cup {"rx0"} \cup (IF store THEN {"tx0"} ELSE {})
         /\ stat' = Tail(stat)
         /\ UNCHANGED <<transfer, fatal>>
    BY Zenon, <1>2, <2>10 DEF controlReceiveCallback, stage, accepted
  <2>12. ~Pending("out0")' /\ (Pending("setup")' <=> Pending("setup")) /\ (Pending("in0")' <=> Pending("in0"))
    BY Zenon, <2>1, <2>11, HeadGone
  <2>13. CASE ReadConfirmed
    <3>1. stage = "STATUS" /\ ~store /\ ~stall /\ ~Pending("in0")
      BY Zenon, <2>5, <2>6, <2>8, <2>13
    <3>2. expect_control_report' = expect_control_report /\ transmit_remaining' = transmit_remaining
      BY Zenon, <2>11, <3>1
    <3>3. current_stage' = "SETUP" /\ uown' = uown \cup {"rx0"}
      BY Zenon, <2>11, <3>1
    <3>4. do_build_transmit_report' => do_build_transmit_report
      BY Zenon, <2>11
    <3>5. Resting'
      BY Zenon, <2>11, <2>12, <2>13, <3>1, <3>2, <3>3, <3>4 DEF ReadConfirmed, LastRead, Resting, Quiet
    <3>. QED BY Zenon, <2>11, <3>5 DEF InStep
  <2>14. CASE Written
    <3>1. stage = "DATA" /\ (store <=> e.good) /\ (stall <=> ~store)
      BY Zenon, <2>6, <2>8, <2>9, <2>14
    <3>2. expect_control_report' = NoReport
      BY Zenon, <2>11, <3>1
    <3>3. do_build_transmit_report' => do_build_transmit_report
      BY Zenon, <2>11
    <3>4. transmit_remaining' = 0 /\ "rx0" \in uown'
      BY Zenon, <2>11, <2>14 DEF Written, WriteExpected
    <3>5. CASE store
      <4>1. current_stage' = "STATUS" /\ "tx0" \in uown'
        BY Zenon, <2>11, <3>5
      <4>2. ~stalled'
        BY Zenon, <2>11, <2>14, <3>1, <3>5 DEF Written, WriteExpected
      <4>3. Confirming'
        BY Zenon, <2>11, <2>12, <2>14, <3>2, <3>3, <3>4, <4>1, <4>2 DEF Confirming, Confirmation, Written, WriteExpected
      <4>. QED BY Zenon, <2>11, <4>3 DEF InStep
    <3>6. CASE ~store
      <4>1. current_stage' = "SETUP" /\ uown' = uown \cup {"rx0"}
        BY Zenon, <2>11, <3>1, <3>6
      <4>2. stalled'
        BY Zenon, <2>11, <3>1, <3>6
      <4>3. Stalled'
        BY Zenon, <2>11, <2>12, <2>14, <3>2, <3>3, <3>4, <4>1, <4>2 DEF Stalled, Quiet, Written, WriteExpected
      <4>. QED BY Zenon, <2>11, <4>3 DEF InStep
    <3>. QED BY Zenon, <3>5, <3>6
  <2>. QED BY Zenon, <2>4, <2>13, <2>14
<1>3. CASE controlTransmitCallback
  <2>. DEFINE extended == transmit_remaining >= MAX_PACKET_SIZE
  <2>1. Handling("in0")
    BY Zenon, <1>3 DEF controlTransmitCallback
  <2>2. 1 \in 1 .. Len(stat) /\ stat[1].ev = "in0" /\ Pending("in0")
    BY Zenon, <1>1, <2>1
  <2>3. Beginning \/ ReadingDescriptor \/ AllRead \/ ReadConfirmed \/ Confirmed
    BY Zenon, <2>2 DEF InStep, Resting, Stalled, ReadingReport, Writing, Written, WriteExpected, Confirming
  <2>4. /\ ReadingDescriptor => "tx0" \notin uown /\ transmit_remaining = transfer.left + MAX_PACKET_SIZE
        /\ ~ReadingDescriptor => transmit_remaining = 0 /\ current_stage \in {"DATA", "STATUS"}
    BY Zenon, <2>2, <2>3 DEF Beginning, Quiet, ReadingDescriptor, AllRead, ReadConfirmed, LastRead, Confirmed, Confirmation
  <2>5. extended <=> ReadingDescriptor
    BY <1>0, <2>4, Phases
  <2>6. ~(IF extended THEN "tx0" \in uown ELSE current_stage = "SETUP")
    BY Zenon, <2>4, <2>5
  <2>7. /\ transmit_remaining' =
             IF extended THEN ExtendedTransmit(transmit_remaining - MAX_PACKET_SIZE) ELSE 0
        /\ uown' = uown \cup (IF extended THEN {"tx0"} ELSE {})
        /\ current_stage' = CASE extended -> current_stage
                              [] ~extended /\ current_stage = "DATA" -> "STATUS"
                              [] ~extended /\ current_stage = "STATUS" -> "SETUP"
        /\ data_sequence' = [data_sequence EXCEPT ![0] =
             IF ~extended /\ current_stage = "DATA" THEN 1 ELSE 1 - @]
        /\ stat' = Tail(stat)
        /\ UNCHANGED <<fatal, stalled, transfer, expect_control_report, do_build_transmit_report>>
    BY Zenon, <1>3, <2>6 DEF controlTransmitCallback
  <2>8. /\ ~Pending("in0")' /\ (Pending("setup")' <=> Pending("setup")) /\ (Pending("out0")' <=> Pending("out0"))
    BY Zenon, <2>1, <2>7, HeadGone
  <2>. HIDE DEF extended
  <2>9. CASE ReadingDescriptor
    <3>1. extended
      BY Zenon, <2>5, <2>9
    <3>2. current_stage' = current_stage /\ uown' = uown \cup {"tx0"}
      BY Zenon, <2>7, <3>1
    <3>3. transmit_remaining' = ExtendedTransmit(transfer.left)
      <4>1. transmit_remaining - MAX_PACKET_SIZE = transfer.left
        BY <1>0, <2>4, <2>9, Phases
      <4>. QED BY Zenon, <2>7, <3>1, <4>1
    <3>4. ReadingDescriptor'
      BY Zenon, <1>0, <2>7, <2>8, <2>9, <3>2, <3>3 DEF ReadingDescriptor, ExtendedTransmit
    <3>. QED BY Zenon, <2>7, <3>4 DEF InStep
  <2>10. CASE ~ReadingDescriptor
    <3>1. ~extended /\ transmit_remaining' = 0 /\ uown' = uown
      BY Zenon, <2>5, <2>7, <2>10
    <3>2. /\ current_stage = "DATA" => current_stage' = "STATUS" /\ data_sequence'[0] = 1
          /\ current_stage = "STATUS" => current_stage' = "SETUP"
      BY Zenon, <2>7, <3>1 DEF Sized, IInv, Types
    <3>3. CASE Beginning
      <4>1. Beginning'
        BY Zenon, <1>0, <2>7, <2>8, <3>1, <3>3 DEF Beginning, Quiet
      <4>. QED BY Zenon, <2>7, <4>1 DEF InStep
    <3>4. LastRead => LastRead'
      BY Zenon, <2>2, <2>7, <2>8, <3>1, <3>2 DEF LastRead, Quiet
    <3>5. CASE AllRead
      <4>1. AllRead'
        BY Zenon, <2>7, <2>8, <3>1, <3>4, <3>5 DEF AllRead
      <4>. QED BY Zenon, <2>7, <4>1 DEF InStep
    <3>6. CASE ReadConfirmed
      <4>1. \A i \in 1 .. Len(stat') : stat'[i].ev # "in0"
        BY Zenon, <2>8 DEF Pending
      <4>2. ReadConfirmed'
        BY Zenon, <2>7, <2>8, <3>4, <3>6, <4>1 DEF ReadConfirmed
      <4>. QED BY Zenon, <2>7, <4>2 DEF InStep
    <3>7. CASE Confirmed
      <4>1. Resting'
        BY Zenon, <2>7, <2>8, <3>1, <3>2, <3>7 DEF Confirmed, Confirmation, Resting, Quiet
      <4>. QED BY Zenon, <2>7, <4>1 DEF InStep
    <3>. QED BY Zenon, <2>3, <2>10, <3>3, <3>5, <3>6, <3>7
  <2>. QED BY Zenon, <2>9, <2>10
<1>. QED BY Zenon, <1>2, <1>3

\* The interrupt endpoints.
LEMMA StepsAfterInterrupt ==
  ASSUME Sized, env' = env, Fresh, ~fatal, InStep, ep1TransmitCallback \/ ep2ReceiveCallback
  PROVE  ~fatal' /\ InStep'
<1>. USE DEF deviceVars, fifos, interruptVars, setReportVars, getReportVars, controlVars, busVars, appVars, hostVars
<1>0. MAX_PACKET_SIZE \in Nat \ {0, 1}
  BY Zenon, Sizes DEF Sized
<1>1. ASSUME NEW ev, Handling(ev), ev # "in0"
      PROVE  1 \in 1 .. Len(stat) /\ stat[1] = Head(stat) /\ stat[1].ev = ev /\ Pending(ev) /\ Buffer(ev) \notin uown
  <2>1. stat # <<>> /\ Head(stat).ev = ev
    BY Zenon, <1>1 DEF Handling
  <2>2. 1 \in 1 .. Len(stat) /\ stat[1] = Head(stat)
    BY Zenon, <2>1, FirstEntry DEF Sized
  <2>. QED BY Zenon, <1>1, <2>1, <2>2 DEF Sized, IInv, Queue, Pending
<1>2. ASSUME NEW ev \in {"in1", "out2"}, Handling(ev), stat' = Tail(stat), ~fatal',
             UNCHANGED <<stalled, expect_control_report, do_build_transmit_report, transmit_remaining,
                         current_stage, transfer>>,
             data_sequence'[0] = data_sequence[0],
             \A bd \in {"rx0", "tx0"} : bd \in uown' <=> bd \in uown
      PROVE  ~fatal' /\ InStep'
  <2>1. /\ \A x : x # ev => (Pending(x)' <=> Pending(x))
        /\ \A i \in 1 .. Len(stat') : i + 1 \in 1 .. Len(stat) /\ stat'[i] = stat[i + 1]
        /\ Len(stat') = Len(stat) - 1 /\ Len(stat) \in Nat
    BY Zenon, <1>2, HeadGone
  <2>2. /\ Pending("setup")' <=> Pending("setup")
        /\ Pending("out0")' <=> Pending("out0")
        /\ Pending("in0")' <=> Pending("in0")
    BY Zenon, <2>1
  <2>3. ASSUME \A i, j \in 1 .. Len(stat) : stat[i].ev = "in0" /\ stat[j].ev = "out0" => i < j,
               NEW i \in 1 .. Len(stat'), NEW j \in 1 .. Len(stat'), stat'[i].ev = "in0", stat'[j].ev = "out0"
        PROVE  i < j
    <3>1. i + 1 < j + 1
      BY Zenon, <2>1, <2>3
    <3>. QED BY <2>1, <3>1
  <2>4. \A i \in 1 .. Len(stat') : stat'[i].ev = "out0" => \E j \in 1 .. Len(stat) : stat[j] = stat'[i]
    BY Zenon, <2>1
  <2>. QED BY Zenon, <1>2, <2>2, <2>3, <2>4, OutOfStep
<1>3. CASE ep1TransmitCallback
  <2>1. Handling("in1")
    BY Zenon, <1>3 DEF ep1TransmitCallback
  <2>2. Pending("in1") /\ "tx1" \notin uown
    BY Zenon, <1>1, <2>1, Buffers
  <2>3. configuration # 0
    BY Zenon, <2>2 DEF Sized, IInv, Disabled
  <2>4. ~CannotFill(transmit_fifo, uown)
    BY Zenon, <2>2, <2>3 DEF CannotFill
  <2>5. /\ stat' = Tail(stat) /\ uown' = uown \cup FilledOwner(transmit_fifo)
        /\ UNCHANGED <<fatal, stalled, expect_control_report, do_build_transmit_report, transmit_remaining,
                       current_stage, transfer, data_sequence>>
    BY Zenon, <1>3, <2>3, <2>4 DEF ep1TransmitCallback
  <2>6. \A bd \in {"rx0", "tx0"} : bd \in uown' <=> bd \in uown
    BY Zenon, <2>5 DEF FilledOwner
  <2>. QED BY Zenon, <1>2, <2>1, <2>5, <2>6
<1>4. CASE ep2ReceiveCallback
  <2>. DEFINE e == Head(stat)
              accepted == InSequence(e, 2)
              fifo == IF accepted THEN receive_fifo \o e.data ELSE receive_fifo
              queue == ~accepted \/ HasHeadroom(fifo)
              error == \/ configuration = 0
                       \/ accepted /\ Len(e.data) > circularBufferSpaceRemaining(receive_fifo)
                       \/ queue /\ "rx2" \in uown
  <2>1. Handling("out2")
    BY Zenon, <1>4 DEF ep2ReceiveCallback
  <2>2. 1 \in 1 .. Len(stat) /\ stat[1] = e /\ e.ev = "out2" /\ Pending("out2") /\ "rx2" \notin uown
    BY Zenon, <1>1, <2>1, Buffers
  <2>3. configuration # 0
    BY Zenon, <2>2 DEF Sized, IInv, Disabled
  <2>4. ~(Len(e.data) > circularBufferSpaceRemaining(receive_fifo))
    <3>1. Len(e.data) \in Nat /\ Len(e.data) <= MAX_PACKET_SIZE - 1
      <4>1. e.data \in Seq(Byte(KReceive)) /\ Len(e.data) < MAX_PACKET_SIZE
        BY Zenon, <2>2, EntryData
      <4>. QED BY <1>0, <4>1
    <3>2. PICK q \in {1, 2} : QueuedReceives = q
      BY <2>2 DEF QueuedReceives, Sized, IInv, FlagsMatchHardware
    <3>3. Len(receive_fifo) \in Nat /\ RECEIVE_FIFO_SIZE \in Nat
      BY Sizes DEF Sized, FifoTypes, IsFIFO
    <3>4. Len(receive_fifo) + q * (MAX_PACKET_SIZE - 1) <= RECEIVE_FIFO_SIZE
      BY Zenon, <3>2 DEF Fresh, ReceiveFits
    <3>5. CASE q = 1
      BY <1>0, <3>1, <3>3, <3>4, <3>5 DEF circularBufferSpaceRemaining
    <3>6. CASE q = 2
      BY <1>0, <3>1, <3>3, <3>4, <3>6 DEF circularBufferSpaceRemaining
    <3>. QED BY Zenon, <3>5, <3>6
  <2>5. ~error
    BY Zenon, <2>2, <2>3, <2>4
  <2>6. /\ stat' = Tail(stat) /\ uown' = uown \cup (IF queue THEN {"rx2"} ELSE {})
        /\ data_sequence' = [data_sequence EXCEPT ![2] = IF accepted THEN 1 - @ ELSE @]
        /\ UNCHANGED <<fatal, stalled, expect_control_report, do_build_transmit_report, transmit_remaining,
                       current_stage, transfer>>
    BY Zenon, <1>4, <2>5 DEF ep2ReceiveCallback
  <2>. HIDE DEF accepted, queue
  <2>7. \A bd \in {"rx0", "tx0"} : bd \in uown' <=> bd \in uown
    BY Zenon, <2>6
  <2>8. data_sequence'[0] = data_sequence[0]
    BY <2>6 DEF Sized, IInv, Types
  <2>. QED BY Zenon, <1>2, <2>1, <2>6, <2>7, <2>8
<1>. QED BY Zenon, <1>3, <1>4

LEMMA InitInStep == Init => ~fatal /\ InStep
BY DEF Init, InStep, Resting, Quiet, NoTransfer, Pending

LEMMA NextInStep ==
  ASSUME Sized, WellBehaved, Fresh, ~fatal, InStep, [Next]_<<env, vars>>
  PROVE  ~fatal' /\ InStep'
<1>1. CASE Application /\ env' = env
  BY Zenon, <1>1, StepsAfterApplication
<1>2. CASE USBHandler /\ env' = env
  <2>1. ~usbHALReset
    BY Zenon DEF usbHALReset, Fresh
  <2>. QED BY Zenon, <1>2, <2>1, StepsAfterSetup, StepsAfterControl, StepsAfterInterrupt DEF USBHandler
<1>3. CASE Host /\ env' = env
  BY Zenon, <1>3, StepsAfterHost
<1>4. CASE UNCHANGED <<env, vars>>
  <2>1. /\ UNCHANGED <<stalled, expect_control_report, do_build_transmit_report, transmit_remaining,
                       current_stage, transfer, data_sequence, uown, stat, fatal, env>>
        /\ \A ev : Pending(ev)' <=> Pending(ev)
    BY Zenon, <1>4 DEF vars, deviceVars, setReportVars, getReportVars, controlVars, busVars, hostVars, Pending
  <2>. QED BY Zenon, <2>1, OutOfStep
<1>. QED BY Zenon, <1>1, <1>2, <1>3, <1>4 DEF Next

\* None of the calls of usbFatalError() ("This should never happen") in usb_hid_stream.c,
\* usb_standard_requests.c and usb_hal.c is reached with a well-behaved host: the device
\* goes through every control transfer in step with the host, never queues a packet over
\* another, never gets one in the wrong stage, and has room for what it gets, while both
\* interrupt endpoints and the stream calls go on.
THEOREM NoErrorIsFatal == Spec => []NothingFatal
<1>. DEFINE Inv == /\ Sized /\ (ConfiguresOnce => Fresh)
                   /\ WellBehaved => ~fatal /\ InStep
<1>1. Init => Inv
  BY Zenon, InitSized, InitFresh, InitInStep
<1>2. Inv /\ [Next]_<<env, vars>> => Inv'
  <2>. SUFFICES ASSUME Inv, [Next]_<<env, vars>> PROVE Inv'
    BY Zenon
  <2>1. Sized' /\ (ConfiguresOnce => Fresh)'
    BY Zenon, NextSized, NextFresh
  <2>2. ASSUME WellBehaved' PROVE ~fatal' /\ InStep'
    <3>1. env' = env
      BY Zenon DEF Next
    <3>2. WellBehaved /\ ConfiguresOnce
      BY Zenon, <2>2, <3>1 DEF WellBehaved, ConfiguresOnce, Resets, Requests, Aborts, LosesAcks, MAX_PACKET_SIZE
    <3>. QED BY Zenon, <3>2, NextInStep
  <2>. QED BY Zenon, <2>1, <2>2
<1>3. Inv => NothingFatal
  BY Zenon DEF NothingFatal, NoFatalError
<1>. HIDE DEF Inv
<1>. QED BY <1>1, <1>2, <1>3, PTL DEF Spec

-----------------------------------------------------------------------------
(* The streams, with a well-behaved host that uses one endpoint at a time.  *)

\* The bytes of s are those of a stream from position a up to position b.
InOrder(s, a, b, k) == s = Bytes(a, Len(s), k) /\ b = (a + Len(s)) % k

\* The position after all bytes that the application has or can take.
Arrived == (taken + Len(receive_fifo)) % KReceive

\* The report of a "Set Report" waits for the handler.
Reported == transfer.phase = "statusIn" /\ Pending("out0")

\* The host and the driver agree on what has arrived.
Settled ==
  /\ unacknowledged = -1 /\ ~Pending("out2") /\ ~Reported
  /\ host_sequence = data_sequence[2] /\ sent = Arrived

\* The report continues what has arrived, unless it will be refused.
Reporting ==
  /\ unacknowledged = -1 /\ ~Pending("out2") /\ Reported
  /\ host_sequence = data_sequence[2]
  /\ \A i \in 1 .. Len(stat) : stat[i].ev = "out0" =>
       IF transfer.req.good THEN InOrder(stat[i].data, Arrived, sent, KReceive) ELSE sent = Arrived

\* Packet e of endpoint 2 waits for the handler: it is new or was stored before, and the host
\* has received its acknowledgement or not.
Arriving(e) ==
  \/ /\ e.toggle = data_sequence[2] /\ unacknowledged = -1
     /\ host_sequence = 1 - data_sequence[2] /\ InOrder(e.data, Arrived, sent, KReceive)
  \/ /\ e.toggle = data_sequence[2] /\ unacknowledged = Len(e.data)
     /\ host_sequence = data_sequence[2] /\ sent = Arrived
     /\ InOrder(e.data, Arrived, (sent + unacknowledged) % KReceive, KReceive)
  \/ /\ e.toggle # data_sequence[2] /\ unacknowledged = -1
     /\ host_sequence = data_sequence[2] /\ sent = Arrived
  \/ /\ e.toggle # data_sequence[2] /\ unacknowledged # -1
     /\ host_sequence = 1 - data_sequence[2] /\ Arrived = (sent + unacknowledged) % KReceive

\* A packet was stored, but the host will repeat it.
Unanswered ==
  /\ unacknowledged # -1 /\ ~Pending("out2")
  /\ host_sequence = 1 - data_sequence[2] /\ Arrived = (sent + unacknowledged) % KReceive

Delivery ==
  /\ receive_fifo = Bytes(taken, Len(receive_fifo), KReceive)
  /\ \/ Settled \/ Reporting \/ Unanswered
     \/ ~Reported /\ \E i \in 1 .. Len(stat) : stat[i].ev = "out2" /\ Arriving(stat[i])

\* Endpoints are used one at a time, and endpoint 2 not before it is enabled.
Alternating ==
  /\ transfer.phase # "none" => unacknowledged = -1 /\ (Pending("setup") \/ ~Pending("out2"))
  /\ configuration = 0 \/ (transfer.phase # "none" /\ transfer.req.kind = "SetConfiguration") =>
       host_sequence = 0 /\ data_sequence[2] = 0 /\ unacknowledged = -1
  /\ Pending("setup") /\ transfer.req.kind = "SetConfiguration" => configuration = 0

\* What the host has still to read, first to last.  While a report lacks bytes, there is
\* nothing else.
Reading == \/ do_build_transmit_report
           \/ "tx0" \in uown /\ transfer.req.kind = "GetReport" /\ transfer.phase = "dataIn"
Built == IF Reading THEN report ELSE <<>>
Packet == IF "tx1" \in uown THEN interrupt_packet ELSE <<>>
Underway == Built \o Packet \o transmit_fifo
Transmission ==
  /\ InOrder(Underway, got, put, KTransmit)
  /\ do_build_transmit_report => "tx1" \notin uown /\ transmit_fifo = <<>>

\* The quotient of a division is unique, so r is the remainder of s * q + r.
LEMMA Remainder ==
  ASSUME NEW s \in Nat \ {0}, NEW q \in Nat, NEW r \in 0 .. s - 1
  PROVE  (s * q + r) % s = r
<1>1. s * q \in Nat
  BY SMT
<1>2. PICK x \in Nat : x = s * q + r
  BY <1>1
<1>3. x % s \in 0 .. s - 1 /\ x = s * (x \div s) + (x % s) /\ x \div s \in Int
  BY <1>2
<1>. DEFINE d == x \div s
            e == x % s
<1>4. s * (d - q) = r - e
  BY <1>2, <1>3
<1>5. d = q
  <2>1. ~(d - q >= 1)
    <3>. SUFFICES ASSUME d - q >= 1 PROVE FALSE
      BY Zenon
    <3>1. s * (d - q) >= s
      BY <1>3, SMT
    <3>. QED BY <3>1, <1>3, <1>4
  <2>2. ~(d - q <= -1)
    <3>. SUFFICES ASSUME d - q <= -1 PROVE FALSE
      BY Zenon
    <3>1. s * (d - q) <= -s
      BY <1>3, SMT
    <3>. QED BY <3>1, <1>3, <1>4
  <2>. QED BY <2>1, <2>2, <1>3
<1>. QED BY <1>2, <1>3, <1>5

\* Positions in a stream can be advanced one packet after another.
LEMMA Advance ==
  ASSUME NEW k \in Nat \ {0}, NEW x \in Nat, NEW n \in Nat
  PROVE  ((x % k) + n) % k = (x + n) % k
<1>. DEFINE q == x \div k
            y == (x % k) + n
            d == y \div k
            r == y % k
<1>1. q \in Nat /\ x % k \in Nat /\ x = k * q + (x % k)
  BY SMT
<1>2. y \in Nat
  BY <1>1
<1>3. d \in Nat /\ r \in 0 .. k - 1 /\ y = k * d + r
  BY <1>2
<1>. HIDE DEF q, d, r
<1>4. q + d \in Nat /\ k * q + k * d = k * (q + d)
  BY <1>1, <1>3
<1>5. x + n = k * (q + d) + r
  <2>1. x + n = k * q + y
    BY <1>1
  <2>2. k * q \in Nat /\ k * d \in Nat
    BY <1>1, <1>3
  <2>. QED BY <1>3, <1>4, <2>1, <2>2
<1>6. (x + n) % k = r
  BY Zenon, <1>3, <1>4, <1>5, Remainder
<1>. QED BY Zenon, <1>6 DEF r

LEMMA OrderIndex ==
  ASSUME NEW k \in Nat \ {0}, NEW s \in Seq(Byte(k)), NEW a \in Byte(k)
  PROVE  s = Bytes(a, Len(s), k) <=> \A i \in 1 .. Len(s) : s[i] = (a + i - 1) % k
<1>1. Bytes(a, Len(s), k) \in Seq(Byte(k)) /\ Len(Bytes(a, Len(s), k)) = Len(s)
  BY BytesFIFO
<1>2. \A i \in 1 .. Len(s) : Bytes(a, Len(s), k)[i] = (a + i - 1) % k
  BY Zenon DEF Bytes
<1>. QED BY <1>1, <1>2

LEMMA OrderBytes ==
  ASSUME NEW k \in Nat \ {0}, NEW a \in Byte(k), NEW n \in Nat
  PROVE  InOrder(Bytes(a, n, k), a, (a + n) % k, k)
BY Zenon, BytesFIFO DEF InOrder

LEMMA OrderEmpty ==
  ASSUME NEW k \in Nat \ {0}, NEW a \in Byte(k)
  PROVE  InOrder(<<>>, a, a, k)
<1>1. <<>> \in Seq(Byte(k)) /\ Len(<<>>) = 0
  OBVIOUS
<1>2. <<>> = Bytes(a, Len(<<>>), k)
  <2>1. \A i \in 1 .. Len(<<>>) : <<>>[i] = (a + i - 1) % k
    BY <1>1
  <2>. QED BY Zenon, <1>1, <2>1, OrderIndex
<1>3. (a + Len(<<>>)) % k = a
  BY <1>1 DEF Byte
<1>. QED BY Zenon, <1>2, <1>3 DEF InOrder

LEMMA OrderConcat ==
  ASSUME NEW k \in Nat \ {0}, NEW s \in Seq(Byte(k)), NEW t \in Seq(Byte(k)),
         NEW a \in Byte(k), NEW b, NEW c, InOrder(s, a, b, k), InOrder(t, b, c, k)
  PROVE  InOrder(s \o t, a, c, k)
<1>. DEFINE m == Len(s)
            n == Len(t)
            u == s \o t
<1>1. /\ m \in Nat /\ n \in Nat /\ u \in Seq(Byte(k)) /\ Len(u) = m + n
      /\ \A i \in 1 .. m : u[i] = s[i]
      /\ \A i \in 1 .. m + n : i > m => u[i] = t[i - m]
  OBVIOUS
<1>2. a \in Nat /\ b \in Byte(k) /\ b = (a + m) % k /\ c = (b + n) % k
  <2>1. a \in Nat
    BY DEF Byte
  <2>2. b = (a + m) % k /\ c = (b + n) % k
    BY Zenon DEF InOrder
  <2>. QED BY Zenon, <1>1, <2>1, <2>2, NextByte
<1>3. \A i \in 1 .. m : s[i] = (a + i - 1) % k
  BY Zenon, OrderIndex DEF InOrder
<1>4. \A i \in 1 .. n : t[i] = (b + i - 1) % k
  BY Zenon, <1>2, OrderIndex DEF InOrder
<1>. HIDE DEF m, n, u
<1>5. ASSUME NEW i \in 1 .. m + n PROVE u[i] = (a + i - 1) % k
  <2>1. CASE i \in 1 .. m
    BY Zenon, <1>1, <1>3, <2>1
  <2>2. CASE ~(i \in 1 .. m)
    <3>1. i > m /\ i - m \in 1 .. n /\ i - m - 1 \in Nat /\ a + m \in Nat
      BY <1>1, <1>2, <2>2
    <3>2. u[i] = (b + (i - m) - 1) % k
      BY Zenon, <1>1, <1>4, <3>1
    <3>3. b + (i - m) - 1 = ((a + m) % k) + (i - m - 1) /\ (a + m) + (i - m - 1) = a + i - 1
      BY <1>1, <1>2 DEF Byte
    <3>4. (((a + m) % k) + (i - m - 1)) % k = ((a + m) + (i - m - 1)) % k
      BY Zenon, <3>1, Advance
    <3>. QED BY Zenon, <3>2, <3>3, <3>4
  <2>. QED BY Zenon, <2>1, <2>2
<1>6. u = Bytes(a, Len(u), k)
  BY Zenon, <1>1, <1>5, OrderIndex
<1>7. c = (a + Len(u)) % k
  <2>1. a + m \in Nat /\ (a + m) + n = a + (m + n)
    BY <1>1, <1>2
  <2>2. (((a + m) % k) + n) % k = ((a + m) + n) % k
    BY Zenon, <1>1, <2>1, Advance
  <2>. QED BY Zenon, <1>1, <1>2, <2>1, <2>2
<1>. QED BY Zenon, <1>6, <1>7 DEF InOrder, u

LEMMA OrderRest ==
  ASSUME NEW k \in Nat \ {0}, NEW s \in Seq(Byte(k)), NEW t \in Seq(Byte(k)),
         NEW a \in Byte(k), NEW c, InOrder(s \o t, a, c, k)
  PROVE  InOrder(t, (a + Len(s)) % k, c, k)
<1>. DEFINE m == Len(s)
            n == Len(t)
            u == s \o t
            b == (a + m) % k
<1>1. /\ m \in Nat /\ n \in Nat /\ u \in Seq(Byte(k)) /\ Len(u) = m + n
      /\ \A i \in 1 .. n : m + i \in 1 .. m + n /\ u[m + i] = t[i]
  OBVIOUS
<1>2. a \in Nat /\ b \in Byte(k) /\ c = (a + (m + n)) % k
  <2>1. a \in Nat
    BY DEF Byte
  <2>2. c = (a + (m + n)) % k
    BY Zenon, <1>1 DEF InOrder
  <2>. QED BY Zenon, <1>1, <2>1, <2>2, NextByte
<1>3. \A i \in 1 .. m + n : u[i] = (a + i - 1) % k
  BY Zenon, <1>1, OrderIndex DEF InOrder
<1>4. \A i \in Nat : (b + i) % k = ((a + m) + i) % k
  <2>1. a + m \in Nat
    BY <1>1, <1>2
  <2>. QED BY Zenon, <2>1, Advance
<1>. HIDE DEF m, n, u, b
<1>5. ASSUME NEW i \in 1 .. n PROVE t[i] = (b + i - 1) % k
  <2>1. i - 1 \in Nat /\ a + (m + i) - 1 = (a + m) + (i - 1) /\ b + i - 1 = b + (i - 1)
    BY <1>1, <1>2 DEF Byte
  <2>2. t[i] = (a + (m + i) - 1) % k
    BY Zenon, <1>1, <1>3
  <2>. QED BY Zenon, <1>4, <2>1, <2>2
<1>6. t = Bytes(b, Len(t), k)
  BY Zenon, <1>2, <1>5, OrderIndex DEF n
<1>7. c = (b + Len(t)) % k
  <2>1. a + (m + n) = (a + m) + n
    BY <1>1, <1>2
  <2>. QED BY Zenon, <1>1, <1>2, <1>4, <2>1 DEF n
<1>. QED BY Zenon, <1>6, <1>7 DEF InOrder, b, m

LEMMA OrderAppend ==
  ASSUME NEW k \in Nat \ {0}, NEW s \in Seq(Byte(k)), NEW a \in Byte(k), NEW b \in Byte(k),
         InOrder(s, a, b, k)
  PROVE  InOrder(Append(s, b), a, (b + 1) % k, k)
<1>1. <<b>> \in Seq(Byte(k)) /\ Len(<<b>>) = 1 /\ s \o <<b>> = Append(s, b)
  OBVIOUS
<1>2. <<b>> = Bytes(b, Len(<<b>>), k)
  <2>1. \A i \in 1 .. Len(<<b>>) : <<b>>[i] = (b + i - 1) % k
    <3>1. b \in 0 .. k - 1
      BY Zenon DEF Byte
    <3>2. b % k = b /\ b + 1 - 1 = b
      BY <3>1
    <3>3. <<b>>[1] = b
      OBVIOUS
    <3>4. \A i \in 1 .. Len(<<b>>) : i = 1
      BY <1>1
    <3>. QED BY Zenon, <3>2, <3>3, <3>4
  <2>. QED BY Zenon, <1>1, <2>1, OrderIndex
<1>3. InOrder(<<b>>, b, (b + 1) % k, k)
  BY Zenon, <1>1, <1>2 DEF InOrder
<1>4. InOrder(s \o <<b>>, a, (b + 1) % k, k)
  BY Zenon, <1>1, <1>3, OrderConcat
<1>. QED BY Zenon, <1>1, <1>4

LEMMA SameSeq ==
  ASSUME NEW S, NEW s \in Seq(S), NEW t \in Seq(S), Len(s) = Len(t),
         \A i \in 1 .. Len(s) : s[i] = t[i]
  PROVE  s = t
OBVIOUS

LEMMA Joined ==
  ASSUME NEW S, NEW s \in Seq(S), NEW t \in Seq(S)
  PROVE  /\ Len(s) \in Nat /\ Len(t) \in Nat /\ s \o t \in Seq(S) /\ Len(s \o t) = Len(s) + Len(t)
         /\ \A i \in 1 .. Len(s) : (s \o t)[i] = s[i]
         /\ \A i \in 1 .. Len(t) : (s \o t)[Len(s) + i] = t[i]
OBVIOUS

\* Bytes are taken from the front of a FIFO, or of a packet and then a FIFO.
LEMMA Cut ==
  ASSUME NEW S, NEW s \in Seq(S), NEW n \in Nat
  PROVE  /\ Prefix(s, n) \in Seq(S) /\ Drop(s, n) \in Seq(S) /\ Prefix(s, n) \o Drop(s, n) = s
         /\ n >= Len(s) => Drop(s, n) = <<>>
<1>1. PICK l \in 0 .. Len(s) : l = Least(n, Len(s)) /\ (n >= Len(s) => l = Len(s))
  BY DEF Least
<1>2. /\ SubSeq(s, 1, l) \in Seq(S) /\ Len(SubSeq(s, 1, l)) = l
      /\ SubSeq(s, l + 1, Len(s)) \in Seq(S) /\ Len(SubSeq(s, l + 1, Len(s))) = Len(s) - l
      /\ \A i \in 1 .. l : SubSeq(s, 1, l)[i] = s[i]
      /\ \A i \in 1 .. Len(s) - l : SubSeq(s, l + 1, Len(s))[i] = s[l + i]
  BY <1>1
<1>3. SubSeq(s, 1, l) \o SubSeq(s, l + 1, Len(s)) = s
  <2>. DEFINE x == SubSeq(s, 1, l)
              y == SubSeq(s, l + 1, Len(s))
  <2>. HIDE DEF x, y
  <2>1. x \in Seq(S) /\ Len(x) = l /\ y \in Seq(S) /\ Len(y) = Len(s) - l
    BY Zenon, <1>2 DEF x, y
  <2>2. (\A i \in 1 .. l : x[i] = s[i]) /\ (\A i \in 1 .. Len(s) - l : y[i] = s[l + i])
    BY Zenon, <1>2 DEF x, y
  <2>3. /\ x \o y \in Seq(S) /\ Len(x \o y) = Len(s)
        /\ \A i \in 1 .. l : (x \o y)[i] = x[i]
        /\ \A i \in 1 .. Len(s) - l : (x \o y)[l + i] = y[i]
    BY <1>1, <2>1, Joined
  <2>4. ASSUME NEW i \in 1 .. Len(s) PROVE (x \o y)[i] = s[i]
    <3>1. i \in 1 .. l \/ (i - l \in 1 .. Len(s) - l /\ l + (i - l) = i)
      BY <1>1
    <3>. QED BY Zenon, <2>2, <2>3, <3>1
  <2>5. x \o y = s
    BY Zenon, <2>3, <2>4, SameSeq
  <2>. QED BY Zenon, <2>5 DEF x, y
<1>4. n >= Len(s) => SubSeq(s, l + 1, Len(s)) = <<>>
  BY <1>1, <1>2
<1>. QED BY Zenon, <1>1, <1>2, <1>3, <1>4 DEF Prefix, Drop

LEMMA CutBoth ==
  ASSUME NEW S, NEW q \in Seq(S), NEW f \in Seq(S), NEW n \in Nat
  PROVE  /\ n - Least(n, Len(q)) \in Nat
         /\ Drop(q \o f, n) = Drop(q, n) \o Drop(f, n - Least(n, Len(q)))
<1>1. /\ Len(q) \in Nat /\ Len(f) \in Nat /\ q \o f \in Seq(S) /\ Len(q \o f) = Len(q) + Len(f)
      /\ \A i \in 1 .. Len(q) : (q \o f)[i] = q[i]
      /\ \A i \in 1 .. Len(f) : (q \o f)[Len(q) + i] = f[i]
  OBVIOUS
<1>2. CASE n <= Len(q)
  <2>1. Least(n, Len(q)) = n /\ n - n = 0 /\ Least(n, Len(q) + Len(f)) = n
    BY <1>1, <1>2 DEF Least
  <2>2. Drop(f, 0) = f
    <3>1. Least(0, Len(f)) = 0
      BY <1>1 DEF Least
    <3>. QED BY <3>1 DEF Drop
  <2>3. Drop(q, n) = SubSeq(q, n + 1, Len(q)) /\ Drop(q \o f, n) = SubSeq(q \o f, n + 1, Len(q) + Len(f))
    BY Zenon, <1>1, <2>1 DEF Drop
  <2>4. SubSeq(q \o f, n + 1, Len(q) + Len(f)) = SubSeq(q, n + 1, Len(q)) \o f
    <3>. DEFINE u == q \o f
                x == SubSeq(u, n + 1, Len(q) + Len(f))
                y == SubSeq(q, n + 1, Len(q))
    <3>. HIDE DEF u
    <3>1. u \in Seq(S) /\ Len(u) = Len(q) + Len(f)
      BY Zenon, <1>1 DEF u
    <3>2. /\ x \in Seq(S) /\ Len(x) = Len(q) + Len(f) - n
          /\ \A i \in 1 .. Len(q) + Len(f) - n : x[i] = u[n + i]
      BY <1>1, <1>2, <3>1
    <3>3. y \in Seq(S) /\ Len(y) = Len(q) - n /\ \A i \in 1 .. Len(q) - n : y[i] = q[n + i]
      BY <1>1, <1>2
    <3>. HIDE DEF x, y
    <3>4. /\ y \o f \in Seq(S) /\ Len(y \o f) = Len(q) - n + Len(f)
          /\ \A i \in 1 .. Len(q) - n : (y \o f)[i] = y[i]
          /\ \A i \in 1 .. Len(f) : (y \o f)[Len(q) - n + i] = f[i]
      <4>1. /\ y \o f \in Seq(S) /\ Len(y \o f) = Len(y) + Len(f)
            /\ \A i \in 1 .. Len(y) : (y \o f)[i] = y[i]
            /\ \A i \in 1 .. Len(f) : (y \o f)[Len(y) + i] = f[i]
        <5>1. y \in Seq(S) /\ f \in Seq(S)
          BY Zenon, <3>3
        <5>. QED BY ONLY <5>1
      <4>. QED BY Zenon, <3>3, <4>1
    <3>5. ASSUME NEW i \in 1 .. Len(x) PROVE x[i] = (y \o f)[i]
      <4>1. i \in 1 .. Len(q) + Len(f) - n /\ x[i] = u[n + i] /\ i \in 1 .. Len(y \o f)
        BY <1>1, <1>2, <3>2, <3>4
      <4>2. CASE i <= Len(q) - n
        <5>1. n + i \in 1 .. Len(q) /\ i \in 1 .. Len(q) - n
          BY <1>1, <1>2, <4>1, <4>2
        <5>. QED BY Zenon, <1>1, <3>3, <3>4, <4>1, <4>2, <5>1 DEF u
      <4>3. CASE ~(i <= Len(q) - n)
        <5>1. /\ i - (Len(q) - n) \in 1 .. Len(f) /\ Len(q) + (i - (Len(q) - n)) = n + i
              /\ Len(q) - n + (i - (Len(q) - n)) = i
          BY <1>1, <1>2, <4>1, <4>3
        <5>. QED BY Zenon, <1>1, <3>4, <4>1, <4>3, <5>1 DEF u
      <4>. QED BY Zenon, <4>2, <4>3
    <3>6. Len(x) = Len(y \o f)
      BY <1>1, <1>2, <3>2, <3>4
    <3>7. x = y \o f
      BY Zenon, <3>2, <3>4, <3>5, <3>6, SameSeq
    <3>. QED BY Zenon, <3>7 DEF x, y, u
  <2>5. n - Least(n, Len(q)) = 0 /\ 0 \in Nat
    BY <2>1
  <2>. QED BY Zenon, <2>2, <2>3, <2>4, <2>5
<1>3. CASE ~(n <= Len(q))
  <2>. DEFINE m == n - Len(q)
              l == Least(m, Len(f))
  <2>1. Least(n, Len(q)) = Len(q) /\ m \in Nat
    BY <1>1, <1>3 DEF Least
  <2>2. l \in 0 .. Len(f) /\ Least(n, Len(q) + Len(f)) = Len(q) + l
    BY <1>1, <1>3, <2>1 DEF Least
  <2>3. Drop(q, n) = <<>>
    <3>1. n >= Len(q)
      BY <1>1, <1>3
    <3>. QED BY Zenon, <3>1, Cut
  <2>. HIDE DEF l, m
  <2>4. Drop(f, m) = SubSeq(f, l + 1, Len(f)) /\ Drop(q \o f, n) = SubSeq(q \o f, Len(q) + l + 1, Len(q) + Len(f))
    BY Zenon, <1>1, <2>1, <2>2 DEF Drop, l
  <2>5. SubSeq(q \o f, Len(q) + l + 1, Len(q) + Len(f)) = SubSeq(f, l + 1, Len(f))
    <3>. DEFINE u == q \o f
                x == SubSeq(u, Len(q) + l + 1, Len(q) + Len(f))
                y == SubSeq(f, l + 1, Len(f))
    <3>. HIDE DEF u
    <3>1. u \in Seq(S) /\ Len(u) = Len(q) + Len(f)
      BY Zenon, <1>1 DEF u
    <3>2. x \in Seq(S) /\ Len(x) = Len(f) - l /\ \A i \in 1 .. Len(f) - l : x[i] = u[Len(q) + l + i]
      BY <1>1, <2>2, <3>1
    <3>3. y \in Seq(S) /\ Len(y) = Len(f) - l /\ \A i \in 1 .. Len(f) - l : y[i] = f[l + i]
      BY <1>1, <2>2
    <3>. HIDE DEF x, y
    <3>4. ASSUME NEW i \in 1 .. Len(f) - l PROVE x[i] = y[i]
      <4>1. l + i \in 1 .. Len(f) /\ Len(q) + l + i = Len(q) + (l + i)
        BY <1>1, <2>2
      <4>. QED BY Zenon, <1>1, <3>2, <3>3, <4>1 DEF u
    <3>5. x = y
      BY Zenon, <3>2, <3>3, <3>4, SameSeq
    <3>. QED BY Zenon, <3>5 DEF x, y, u
  <2>6. <<>> \o SubSeq(f, l + 1, Len(f)) = SubSeq(f, l + 1, Len(f))
    BY <1>1, <2>2
  <2>. QED BY Zenon, <2>1, <2>3, <2>4, <2>5, <2>6 DEF m
<1>. QED BY Zenon, <1>2, <1>3

-----------------------------------------------------------------------------
(* From the application to the host.                                        *)

\* What has not gone out yet: the report and what follows it.
LEMMA Parts ==
  ASSUME Sized
  PROVE  /\ KTransmit \in Nat \ {0} /\ got \in Byte(KTransmit) /\ put \in Byte(KTransmit)
         /\ report \in Seq(Byte(KTransmit)) /\ transmit_fifo \in Seq(Byte(KTransmit))
         /\ interrupt_packet \in Seq(Byte(KTransmit))
         /\ Built \in Seq(Byte(KTransmit)) /\ Packet \in Seq(Byte(KTransmit))
         /\ Packet \o transmit_fifo \in Seq(Byte(KTransmit))
         /\ Underway = Built \o (Packet \o transmit_fifo)
<1>1. /\ KTransmit \in Nat \ {0} /\ got \in Byte(KTransmit) /\ put \in Byte(KTransmit)
      /\ report \in Seq(Byte(KTransmit)) /\ transmit_fifo \in Seq(Byte(KTransmit))
      /\ interrupt_packet \in Seq(Byte(KTransmit))
  BY Zenon, Sizes DEF Sized, FifoTypes, IsFIFO
<1>2. <<>> \in Seq(Byte(KTransmit))
  OBVIOUS
<1>3. Built \in Seq(Byte(KTransmit)) /\ Packet \in Seq(Byte(KTransmit))
  BY Zenon, <1>1, <1>2 DEF Built, Packet
<1>4. Packet \o transmit_fifo \in Seq(Byte(KTransmit))
  BY Zenon, <1>1, <1>3, Joined
<1>5. Underway = Built \o (Packet \o transmit_fifo)
  BY SMTT(20), <1>1, <1>3 DEF Underway
<1>. QED BY Zenon, <1>1, <1>3, <1>4, <1>5

LEMMA PartsAfter ==
  ASSUME Sized, Sized', env' = env
  PROVE  Underway' = Built' \o (Packet' \o transmit_fifo') /\ KTransmit' = KTransmit
<1>1. KTransmit' = KTransmit
  BY Zenon, SameSizes
<1>2. /\ report' \in Seq(Byte(KTransmit)) /\ transmit_fifo' \in Seq(Byte(KTransmit))
      /\ interrupt_packet' \in Seq(Byte(KTransmit))
  BY Zenon, <1>1 DEF Sized, FifoTypes, IsFIFO
<1>3. <<>> \in Seq(Byte(KTransmit))
  OBVIOUS
<1>4. Built' \in Seq(Byte(KTransmit)) /\ Packet' \in Seq(Byte(KTransmit))
  BY Zenon, <1>2, <1>3 DEF Built, Packet
<1>5. Underway' = Built' \o (Packet' \o transmit_fifo')
  BY SMTT(20), <1>2, <1>4 DEF Underway
<1>. QED BY Zenon, <1>1, <1>5

\* The host reads a report exactly in that state of the control endpoint.
LEMMA Readings ==
  ASSUME InStep
  PROVE  (Reading <=> ReadingReport) /\ (do_build_transmit_report => ReadingReport)
BY Zenon DEF Reading, InStep, Resting, Beginning, Stalled, ReadingReport, ReadingDescriptor, AllRead,
   ReadConfirmed, LastRead, Writing, Written, WriteExpected, Confirming, Confirmed, Confirmation, Quiet

\* A step that sends nothing.
LEMMA SameTransmission ==
  ASSUME Transmission, env' = env, UNCHANGED <<transmit_fifo, interrupt_packet, got, put>>,
         "tx1" \in uown' <=> "tx1" \in uown, Reading' <=> Reading, Reading => report' = report,
         do_build_transmit_report' => do_build_transmit_report
  PROVE  Transmission'
<1>1. Built' = Built /\ Packet' = Packet
  BY Zenon DEF Built, Packet
<1>2. Underway' = Underway /\ KTransmit' = KTransmit
  BY Zenon, <1>1, SameSizes DEF Underway
<1>. QED BY Zenon, <1>2 DEF Transmission, InOrder

\* fillTransmitPacketBufferAndTransmit() moves bytes from the FIFO to the packet.
LEMMA Refill ==
  ASSUME Sized, env' = env, NEW f \in Seq(Byte(KTransmit)), FillTransmitPacketBufferAndTransmit(f),
         "tx1" \in uown' <=> f # <<>>
  PROVE  Packet' \o transmit_fifo' = f /\ (f = <<>> => transmit_fifo' = <<>>)
<1>1. MAX_PACKET_SIZE - 1 \in Nat
  BY Sizes DEF Sized
<1>. DEFINE m == MAX_PACKET_SIZE - 1
<1>. HIDE DEF m
<1>2. interrupt_packet' = Prefix(f, m) /\ transmit_fifo' = Drop(f, m)
  BY Zenon DEF FillTransmitPacketBufferAndTransmit, m
<1>3. CASE f = <<>>
  <2>1. Drop(f, m) = <<>>
    BY Zenon, <1>1, <1>3, DropNothing DEF m
  <2>2. Packet' = <<>>
    BY Zenon, <1>3 DEF Packet
  <2>3. <<>> \o <<>> = <<>>
    OBVIOUS
  <2>. QED BY Zenon, <1>2, <1>3, <2>1, <2>2, <2>3
<1>4. CASE f # <<>>
  <2>1. Packet' = Prefix(f, m)
    BY Zenon, <1>2, <1>4 DEF Packet
  <2>2. Prefix(f, m) \o Drop(f, m) = f
    BY Zenon, <1>1, Cut DEF m
  <2>. QED BY Zenon, <1>2, <1>4, <2>1, <2>2
<1>. QED BY Zenon, <1>3, <1>4

LEMMA RequestSize ==
  ASSUME Sized, NEW r \in Request(MAX_PACKET_SIZE)
  PROVE  r.n \in Nat
BY Sizes DEF Sized, Request

LEMMA TransmissionAfterApplication ==
  ASSUME Sized, Sized', env' = env, ~fatal', InStep, Transmission, Application
  PROVE  Transmission'
<1>. USE DEF deviceVars, fifos, interruptVars, setReportVars, getReportVars, controlVars, busVars, appVars, hostVars
<1>0. ~usbFatalError
  BY Zenon DEF usbFatalError
<1>1. CASE CallGet \/ CallPut \/ circularBufferRead
  <2>1. UNCHANGED <<transmit_fifo, interrupt_packet, got, put, uown, transfer, report, do_build_transmit_report>>
    BY Zenon, <1>1 DEF CallGet, CallPut, circularBufferRead
  <2>. QED BY Zenon, <2>1, SameTransmission DEF Reading
<1>2. CASE streamGetOneByte
  <2>1. /\ UNCHANGED <<transmit_fifo, interrupt_packet, got, put, transfer, report, do_build_transmit_report>>
        /\ \A bd \in {"tx0", "tx1"} : bd \in uown' <=> bd \in uown
    BY Zenon, <1>0, <1>2 DEF streamGetOneByte
  <2>. QED BY Zenon, <2>1, SameTransmission DEF Reading
<1>3. CASE streamPutOneByte
  <2>. DEFINE build == do_build_transmit_report
              complete == build /\ Len(report) + 2 = desired_transmit_report_length
              f == IF build THEN transmit_fifo ELSE Append(transmit_fifo, put)
              rest == Packet \o transmit_fifo
              k == KTransmit
  <2>. HIDE DEF complete, f
  <2>1. /\ report' = IF build THEN Append(report, put) ELSE report
        /\ do_build_transmit_report' = (build /\ ~complete)
        /\ IF interrupt_transmit_queued
             THEN transmit_fifo' = f /\ UNCHANGED <<interrupt_packet, interrupt_transmit_queued>>
             ELSE FillTransmitPacketBufferAndTransmit(f)
        /\ uown' = uown \cup (IF complete THEN {"tx0"} ELSE {})
                        \cup (IF interrupt_transmit_queued THEN {} ELSE FilledOwner(f))
        /\ put' = (put + 1) % KTransmit
        /\ UNCHANGED <<transfer, got>>
    BY Zenon, <1>0, <1>3 DEF streamPutOneByte, complete, f
  <2>2. /\ k \in Nat \ {0} /\ got \in Byte(k) /\ put \in Byte(k)
        /\ Built \in Seq(Byte(k)) /\ rest \in Seq(Byte(k)) /\ transmit_fifo \in Seq(Byte(k))
        /\ Packet \in Seq(Byte(k)) /\ report \in Seq(Byte(k)) /\ Underway = Built \o rest
    BY Zenon, Parts
  <2>3. Underway' = Built' \o (Packet' \o transmit_fifo') /\ KTransmit' = k
    BY Zenon, PartsAfter
  <2>4. InOrder(Underway, got, put, k) /\ (build => "tx1" \notin uown /\ transmit_fifo = <<>>)
    BY Zenon DEF Transmission
  <2>5. InOrder(Append(Underway, put), got, put', k)
    <3>1. Built \o rest \in Seq(Byte(k))
      BY Zenon, <2>2, Joined
    <3>. QED BY Zenon, <2>1, <2>2, <2>4, <3>1, OrderAppend
  <2>6. interrupt_transmit_queued <=> ("tx1" \in uown \/ Pending("in1"))
    BY Zenon DEF Sized, IInv, FlagsMatchHardware
  <2>7. f \in Seq(Byte(k))
    BY <2>2 DEF f
  <2>8. Packet' \o transmit_fifo' = IF interrupt_transmit_queued THEN Packet \o f ELSE f
    <3>1. CASE interrupt_transmit_queued
      <4>1. "tx1" \in uown' <=> "tx1" \in uown
        BY Zenon, <2>1, <3>1
      <4>2. Packet' = Packet
        BY Zenon, <2>1, <3>1, <4>1 DEF Packet
      <4>. QED BY Zenon, <2>1, <3>1, <4>2
    <3>2. CASE ~interrupt_transmit_queued
      <4>1. "tx1" \in uown' <=> f # <<>>
        BY Zenon, <2>1, <2>6, <3>2 DEF FilledOwner
      <4>. QED BY Zenon, <2>1, <2>7, <3>2, <4>1, Refill
    <3>. QED BY Zenon, <3>1, <3>2
  <2>9. "tx1" \notin uown => Packet = <<>>
    BY Zenon DEF Packet
  <2>10. Packet' \o transmit_fifo' = Packet \o f
    <3>1. <<>> \o f = f
      BY <2>7
    <3>. QED BY Zenon, <2>6, <2>8, <2>9, <3>1
  <2>11. CASE build
    <3>1. f = <<>> /\ Packet = <<>> /\ transmit_fifo = <<>> /\ "tx1" \notin uown
      BY Zenon, <2>4, <2>9, <2>11 DEF f
    <3>2. ReadingReport
      BY Zenon, <2>11, Readings
    <3>3. Reading /\ Reading'
      <4>1. "tx0" \in uown' \/ do_build_transmit_report'
        BY Zenon, <2>1, <2>11
      <4>. QED BY Zenon, <2>1, <2>11, <3>2, <4>1 DEF ReadingReport, Reading
    <3>4. Built = report /\ Built' = Append(report, put)
      BY Zenon, <2>1, <2>11, <3>3 DEF Built
    <3>5. <<>> \o <<>> = <<>> /\ report \o <<>> = report /\ Append(report, put) \o <<>> = Append(report, put)
      BY <2>2
    <3>6. Underway = report /\ Underway' = Append(report, put)
      BY Zenon, <2>2, <2>3, <2>10, <3>1, <3>4, <3>5
    <3>7. "tx1" \notin uown' /\ transmit_fifo' = <<>>
      <4>1. "tx1" \notin uown'
        BY Zenon, <2>1, <3>1 DEF FilledOwner
      <4>2. interrupt_transmit_queued => transmit_fifo' = <<>>
        BY Zenon, <2>1, <3>1
      <4>3. ASSUME ~interrupt_transmit_queued PROVE transmit_fifo' = <<>>
        BY Zenon, <2>1, <2>7, <3>1, <4>1, <4>3, Refill
      <4>. QED BY Zenon, <4>1, <4>2, <4>3
    <3>. QED BY Zenon, <2>1, <2>3, <2>5, <3>6, <3>7 DEF Transmission
  <2>12. CASE ~build
    <3>1. ~do_build_transmit_report' /\ report' = report
      BY Zenon, <2>1, <2>12
    <3>2. "tx0" \in uown' <=> "tx0" \in uown
      BY Zenon, <2>1, <2>12 DEF FilledOwner, complete
    <3>3. Built' = Built
      BY Zenon, <2>1, <2>12, <3>1, <3>2 DEF Built, Reading
    <3>4. f = Append(transmit_fifo, put)
      BY Zenon, <2>12 DEF f
    <3>5. Packet \o Append(transmit_fifo, put) = Append(rest, put)
      <4>1. Packet \in Seq(Byte(k)) /\ transmit_fifo \in Seq(Byte(k)) /\ put \in Byte(k)
        BY Zenon, <2>2
      <4>. QED BY <4>1
    <3>6. Built \o Append(rest, put) = Append(Built \o rest, put)
      <4>. HIDE DEF rest
      <4>. QED BY SMTT(20), <2>2
    <3>7. Underway' = Append(Underway, put)
      BY Zenon, <2>2, <2>3, <2>10, <3>3, <3>4, <3>5, <3>6
    <3>. QED BY Zenon, <2>1, <2>3, <2>5, <3>1, <3>7 DEF Transmission
  <2>. QED BY Zenon, <2>11, <2>12
<1>. QED BY Zenon, <1>1, <1>2, <1>3 DEF Application

LEMMA TransmissionAfterHandler ==
  ASSUME Sized, Sized', env' = env, Fresh, ~fatal', InStep, InStep', Transmission, USBHandler
  PROVE  Transmission'
<1>. USE DEF deviceVars, fifos, interruptVars, setReportVars, getReportVars, controlVars, busVars, appVars, hostVars
<1>0. ~usbFatalError /\ ~usbHALReset
  BY Zenon DEF usbFatalError, usbHALReset, Fresh
<1>1. (Reading <=> ReadingReport) /\ (do_build_transmit_report => ReadingReport)
  BY Zenon, Readings
<1>2. ASSUME ~ReadingReport', ~do_build_transmit_report' PROVE ~Reading'
  BY Zenon, <1>2 DEF Reading, InStep, Resting, Beginning, Stalled, ReadingReport, ReadingDescriptor, AllRead,
     ReadConfirmed, LastRead, Writing, Written, WriteExpected, Confirming, Confirmed, Confirmation, Quiet
<1>3. ASSUME NEW kind, Setup(kind)
      PROVE  /\ ~Reading /\ ~do_build_transmit_report /\ "tx0" \notin uown
             /\ transfer.req.kind = kind /\ transfer.req = Head(stat).req /\ transfer.phase = FirstPhase(transfer.req)
             /\ interrupt_transmit_queued <=> "tx1" \in uown
  <2>1. /\ Beginning /\ transfer.req = Head(stat).req
        /\ transfer.req.kind = kind /\ transfer.phase = FirstPhase(transfer.req)
    BY Zenon, <1>3, SetupInStep
  <2>2. interrupt_transmit_queued <=> "tx1" \in uown
    BY Zenon, <1>3, SetupAlone DEF Setup, Sized
  <2>3. ~ReadingReport
    BY Zenon, <2>1 DEF Beginning, ReadingReport
  <2>. QED BY Zenon, <1>1, <2>1, <2>2, <2>3 DEF Beginning, Quiet
<1>4. CASE getReport
  <2>. DEFINE n == Head(stat).req.n
              k == KTransmit
              Q == QueuedPacket
              complete == n <= Len(PacketThenFIFO)
              packet == Drop(QueuedPacket, n)
              fifo == Drop(transmit_fifo, n - Least(n, Len(QueuedPacket)))
              owned == IF packet = <<>> THEN uown \ {"tx1"} ELSE uown
  <2>1. Setup("GetReport")
    BY Zenon, <1>4 DEF getReport
  <2>2. /\ ~Reading /\ transfer.req.kind = "GetReport" /\ transfer.phase = "dataIn"
        /\ interrupt_transmit_queued <=> "tx1" \in uown
    <3>1. /\ ~Reading /\ transfer.req.kind = "GetReport" /\ transfer.phase = FirstPhase(transfer.req)
          /\ interrupt_transmit_queued <=> "tx1" \in uown
      BY Zenon, <1>3, <2>1
    <3>2. FirstPhase(transfer.req) = "dataIn"
      BY <3>1 DEF FirstPhase
    <3>. QED BY Zenon, <3>1, <3>2
  <2>. HIDE DEF complete, packet, fifo, owned
  <2>3. /\ report' = Prefix(PacketThenFIFO, n)
        /\ do_build_transmit_report' = ~complete
        /\ IF Refilled(packet)
             THEN FillTransmitPacketBufferAndTransmit(fifo)
             ELSE interrupt_packet' = packet /\ transmit_fifo' = fifo
        /\ uown' = owned \cup {"rx0"} \cup (IF complete THEN {"tx0"} ELSE {})
                         \cup (IF Refilled(packet) THEN FilledOwner(fifo) ELSE {})
        /\ UNCHANGED <<got, put, transfer>>
    BY Zenon, <1>0, <1>4 DEF getReport, SetupDone, complete, packet, fifo, owned
  <2>4. n \in Nat
    BY Zenon, <1>3, <2>1, <2>2, Phases, RequestSize
  <2>5. /\ k \in Nat \ {0} /\ Packet \in Seq(Byte(k)) /\ transmit_fifo \in Seq(Byte(k))
        /\ Packet \o transmit_fifo \in Seq(Byte(k))
        /\ Underway = Built \o (Packet \o transmit_fifo)
    BY Zenon, Parts
  <2>6. Built = <<>> /\ Q = Packet
    BY Zenon, <2>2 DEF Built, QueuedPacket, Packet
  <2>7. PacketThenFIFO = Packet \o transmit_fifo /\ Underway = PacketThenFIFO
    <3>1. <<>> \o (Packet \o transmit_fifo) = Packet \o transmit_fifo
      BY <2>5
    <3>. QED BY Zenon, <2>5, <2>6, <3>1 DEF PacketThenFIFO
  <2>8. /\ packet \in Seq(Byte(k)) /\ fifo \in Seq(Byte(k))
        /\ Drop(PacketThenFIFO, n) = packet \o fifo
    <3>1. n - Least(n, Len(Packet)) \in Nat /\ Drop(Packet \o transmit_fifo, n) = packet \o fifo
      BY ZenonT(30), <2>4, <2>5, <2>6, CutBoth DEF packet, fifo
    <3>. QED BY Zenon, <2>4, <2>5, <2>6, <2>7, <3>1, Cut DEF packet, fifo
  <2>9. /\ Prefix(PacketThenFIFO, n) \o (packet \o fifo) = PacketThenFIFO
        /\ n >= Len(PacketThenFIFO) => packet \o fifo = <<>>
    BY ZenonT(30), <2>4, <2>5, <2>7, <2>8, Cut
  <2>10. Packet' \o transmit_fifo' = packet \o fifo
    <3>1. CASE packet = <<>>
      <4>1. "tx1" \in uown' <=> fifo # <<>>
        BY Zenon, <2>3, <3>1 DEF Refilled, FilledOwner, owned
      <4>2. Packet' \o transmit_fifo' = fifo
        BY Zenon, <2>3, <2>8, <3>1, <4>1, Refill DEF Refilled
      <4>3. <<>> \o fifo = fifo
        BY <2>8
      <4>. QED BY Zenon, <3>1, <4>2, <4>3
    <3>2. CASE packet # <<>>
      <4>1. Packet # <<>>
        BY Zenon, <2>4, <2>6, <3>2, DropNothing DEF packet
      <4>2. "tx1" \in uown'
        BY Zenon, <2>3, <3>2, <4>1 DEF owned, Packet
      <4>. QED BY Zenon, <2>3, <3>2, <4>2 DEF Refilled, Packet
    <3>. QED BY Zenon, <3>1, <3>2
  <2>11. Built' = Prefix(PacketThenFIFO, n)
    <3>1. "tx0" \in uown' \/ do_build_transmit_report'
      BY Zenon, <2>3
    <3>2. Reading'
      BY Zenon, <2>2, <2>3, <3>1 DEF Reading
    <3>. QED BY Zenon, <2>3, <3>2 DEF Built
  <2>12. Underway' = Underway /\ KTransmit' = KTransmit
    BY Zenon, <2>7, <2>9, <2>10, <2>11, PartsAfter
  <2>13. ASSUME do_build_transmit_report' PROVE "tx1" \notin uown' /\ transmit_fifo' = <<>>
    <3>1. n >= Len(PacketThenFIFO)
      <4>1. ~(n <= Len(PacketThenFIFO))
        BY Zenon, <2>3, <2>13 DEF complete
      <4>2. Len(PacketThenFIFO) \in Nat
        BY SMTT(20), <2>5, <2>7
      <4>. QED BY <2>4, <4>1, <4>2
    <3>2. packet = <<>> /\ fifo = <<>>
      BY <2>8, <2>9, <3>1
    <3>3. "tx1" \notin uown'
      BY Zenon, <2>3, <3>2 DEF Refilled, FilledOwner, owned
    <3>. QED BY Zenon, <2>3, <2>8, <3>2, <3>3, Refill DEF Refilled
  <2>. QED BY Zenon, <2>3, <2>12, <2>13 DEF Transmission
<1>5. CASE setReport \/ getDescriptor \/ setConfiguration \/ protocolStall
  <2>1. PICK kind \in {"SetReport", "GetDescriptor", "SetConfiguration", "Unsupported"} : Setup(kind)
    BY Zenon, <1>5 DEF setReport, getDescriptor, setConfiguration, protocolStall
  <2>2. UNCHANGED <<transmit_fifo, interrupt_packet, got, put, transfer>> /\ ~do_build_transmit_report'
    BY Zenon, <1>0, <1>5 DEF setReport, getDescriptor, setConfiguration, protocolStall, SetupDone, AbortGetReport
  <2>3. ~Reading /\ transfer.req.kind # "GetReport"
    BY Zenon, <1>3, <2>1
  <2>4. ~Reading'
    BY Zenon, <2>2, <2>3 DEF Reading
  <2>5. "tx1" \in uown' <=> "tx1" \in uown
    <3>1. CASE setReport \/ getDescriptor \/ protocolStall
      <4>1. PICK B \in {{}, {"rx0"}, {"rx0", "tx0"}} : uown' = uown \cup B
        BY Zenon, <1>0, <3>1 DEF setReport, getDescriptor, protocolStall
      <4>. QED BY Zenon, <4>1
    <3>2. CASE setConfiguration
      <4>1. 1 \in 1 .. Len(stat) /\ Head(stat) = stat[1] /\ Head(stat).ev = "setup"
        BY Zenon, <2>1, FirstEntry DEF Sized, Setup, Handling
      <4>2. Head(stat).req.n = 1
        BY Zenon, <3>2, <4>1 DEF setConfiguration, Setup, Fresh
      <4>3. configuration \in {0, 1}
        BY Zenon DEF Sized, IInv, Types
      <4>4. OwnedAfter(1, uown) \in {uown, uown \cup {"rx2"}}
        BY <4>3 DEF OwnedAfter
      <4>5. uown' = OwnedAfter(1, uown) \cup {"rx0", "tx0"}
        BY Zenon, <1>0, <3>2, <4>2 DEF setConfiguration
      <4>. QED BY Zenon, <4>4, <4>5
    <3>. QED BY Zenon, <1>5, <3>1, <3>2
  <2>. QED BY Zenon, <2>2, <2>3, <2>4, <2>5, SameTransmission
<1>6. CASE controlReceiveCallback \/ controlTransmitCallback
  <2>1. PICK ev \in {"out0", "in0"} : Handling(ev) /\ stat' = Tail(stat)
    BY Zenon, <1>0, <1>6 DEF controlReceiveCallback, controlTransmitCallback
  <2>2. Pending(ev) /\ (Pending("setup")' <=> Pending("setup"))
    BY Zenon, <2>1, HeadGone
  <2>3. ~ReadingReport
    BY Zenon, <2>1, <2>2 DEF ReadingReport
  <2>4. /\ UNCHANGED <<transmit_fifo, interrupt_packet, got, put, transfer>>
        /\ do_build_transmit_report' => do_build_transmit_report
        /\ "tx1" \in uown' <=> "tx1" \in uown
    <3>1. PICK X \in {{}, {"rx0"}}, Y \in {{}, {"tx0"}} : uown' = uown \cup X \cup Y
      <4>1. CASE controlReceiveCallback
        BY Zenon, <1>0, <4>1 DEF controlReceiveCallback
      <4>2. CASE controlTransmitCallback
        <5>1. PICK Y \in {{}, {"tx0"}} : uown' = uown \cup Y
          BY Zenon, <1>0, <4>2 DEF controlTransmitCallback
        <5>2. uown \cup Y = uown \cup {} \cup Y
          OBVIOUS
        <5>. QED BY Zenon, <5>1, <5>2
      <4>. QED BY Zenon, <1>6, <4>1, <4>2
    <3>2. "tx1" \in uown' <=> "tx1" \in uown
      BY Zenon, <3>1
    <3>3. /\ UNCHANGED <<transmit_fifo, interrupt_packet, got, put, transfer>>
          /\ do_build_transmit_report' => do_build_transmit_report
      BY Zenon, <1>0, <1>6 DEF controlReceiveCallback, controlTransmitCallback
    <3>. QED BY Zenon, <3>2, <3>3
  <2>5. ~Reading /\ ~do_build_transmit_report'
    BY Zenon, <1>1, <2>3, <2>4
  <2>6. ~ReadingReport'
    BY Zenon, <2>1, <2>2, <2>4 DEF InStep, Resting, Beginning, Stalled, ReadingReport, ReadingDescriptor, AllRead,
       ReadConfirmed, LastRead, Writing, Written, WriteExpected, Confirming, Confirmed, Confirmation
  <2>. QED BY Zenon, <1>2, <2>4, <2>5, <2>6, SameTransmission
<1>7. CASE ep1TransmitCallback
  <2>1. Handling("in1")
    BY Zenon, <1>7 DEF ep1TransmitCallback
  <2>2. /\ FillTransmitPacketBufferAndTransmit(transmit_fifo)
        /\ uown' = uown \cup FilledOwner(transmit_fifo) /\ stat' = Tail(stat)
        /\ UNCHANGED <<do_build_transmit_report, report, transfer, got, put>>
    BY Zenon, <1>0, <1>7 DEF ep1TransmitCallback
  <2>3. "tx1" \notin uown
    <3>1. Pending("in1")
      BY Zenon, <2>1, <2>2, HeadGone
    <3>. QED BY Zenon, <3>1, Buffers DEF Sized, IInv, Queue, Pending
  <2>4. "tx1" \in uown' <=> transmit_fifo # <<>>
    BY Zenon, <2>2, <2>3 DEF FilledOwner
  <2>5. transmit_fifo \in Seq(Byte(KTransmit)) /\ Underway = Built \o (Packet \o transmit_fifo)
    BY Zenon, Parts
  <2>6. Packet' \o transmit_fifo' = transmit_fifo /\ (transmit_fifo = <<>> => transmit_fifo' = <<>>)
    BY Zenon, <2>2, <2>4, <2>5, Refill
  <2>7. Packet \o transmit_fifo = transmit_fifo
    <3>1. <<>> \o transmit_fifo = transmit_fifo
      BY <2>5
    <3>. QED BY Zenon, <2>3, <3>1 DEF Packet
  <2>8. "tx0" \in uown' <=> "tx0" \in uown
    BY Zenon, <2>2 DEF FilledOwner
  <2>9. Built' = Built
    BY Zenon, <2>2, <2>8 DEF Built, Reading
  <2>10. Underway' = Underway /\ KTransmit' = KTransmit
    BY Zenon, <2>5, <2>6, <2>7, <2>9, PartsAfter
  <2>. QED BY Zenon, <2>2, <2>4, <2>6, <2>10 DEF Transmission
<1>8. CASE ep2ReceiveCallback
  <2>1. /\ UNCHANGED <<transmit_fifo, interrupt_packet, got, put, transfer, report, do_build_transmit_report>>
        /\ \A bd \in {"tx0", "tx1"} : bd \in uown' <=> bd \in uown
    BY Zenon, <1>0, <1>8 DEF ep2ReceiveCallback
  <2>. QED BY Zenon, <2>1, SameTransmission DEF Reading
<1>. QED BY Zenon, <1>0, <1>4, <1>5, <1>6, <1>7, <1>8 DEF USBHandler

LEMMA TransmissionAfterHost ==
  ASSUME Sized, Sized', env' = env, WellBehaved, ~Simultaneous, ~fatal', InStep, InStep', Transmission, Host
  PROVE  Transmission'
<1>. USE DEF deviceVars, fifos, interruptVars, setReportVars, getReportVars, controlVars, busVars, appVars, hostVars
<1>1. (Reading <=> ReadingReport) /\ (do_build_transmit_report => ReadingReport)
  BY Zenon, Readings
<1>2. ASSUME NEW bd \in {"rx0", "tx0"}, NEW e, Transact(bd, e), got' = got, ~ReadingReport, transfer'.phase # "dataIn"
      PROVE  Transmission'
  <2>1. /\ UNCHANGED <<transmit_fifo, interrupt_packet, put, do_build_transmit_report>>
        /\ "tx1" \in uown' <=> "tx1" \in uown
    BY Zenon, <1>2 DEF Transact
  <2>2. ~Reading /\ ~Reading'
    BY Zenon, <1>1, <1>2, <2>1 DEF Reading
  <2>. QED BY Zenon, <1>2, <2>1, <2>2, SameTransmission
<1>3. ASSUME NEW r \in Requests, HostSetup(r) PROVE Transmission'
  <2>1. Transact("rx0", [ev |-> "setup", req |-> r]) /\ transfer.phase = "none" /\ got' = got
    BY Zenon, <1>3 DEF HostSetup, WellBehaved
  <2>2. "tx0" \notin uown
    <3>1. "rx0" \in uown
      BY Zenon, <2>1 DEF Transact
    <3>2. ~Pending("out0") /\ ~Pending("setup")
      BY Zenon, <3>1, Buffers DEF Sized, IInv, Queue, Pending
    <3>. QED BY Zenon, <2>1, <3>2 DEF InStep, Resting, Beginning, Stalled, ReadingReport, ReadingDescriptor, AllRead,
       ReadConfirmed, LastRead, Writing, Written, WriteExpected, Confirming, Confirmed, Confirmation, Quiet
  <2>3. /\ UNCHANGED <<transmit_fifo, interrupt_packet, put, do_build_transmit_report>>
        /\ \A bd \in {"tx0", "tx1"} : bd \in uown' <=> bd \in uown
    BY Zenon, <2>1 DEF Transact
  <2>4. ~Reading
    BY Zenon, <1>1, <2>1 DEF ReadingReport
  <2>5. ~Reading'
    BY Zenon, <2>2, <2>3, <2>4 DEF Reading
  <2>. QED BY Zenon, <2>1, <2>3, <2>4, <2>5, SameTransmission
<1>4. ASSUME HostReadsData PROVE Transmission'
  <2>1. /\ Transact("tx0", [ev |-> "in0"]) /\ transfer.phase = "dataIn" /\ ~stalled
        /\ got' = IF transfer.req.kind = "GetReport" THEN (got + Len(report)) % KTransmit ELSE got
        /\ transfer'.req = transfer.req
        /\ transfer.req.kind = "GetReport" => transfer'.phase = "statusOut"
    <3>1. transfer \in [req : Request(MAX_PACKET_SIZE), phase : Phase, left : 0 .. 2 * MAX_PACKET_SIZE]
      BY Zenon DEF Sized, HostTypes
    <3>. QED BY Zenon, <1>4, <3>1 DEF HostReadsData
  <2>2. /\ UNCHANGED <<transmit_fifo, interrupt_packet, put, do_build_transmit_report>>
        /\ "tx1" \in uown' <=> "tx1" \in uown
        /\ "tx0" \in uown /\ "tx0" \notin uown' /\ ~pktdis
    BY Zenon, <2>1 DEF Transact, BusReady
  <2>3. CASE transfer.req.kind # "GetReport"
    <3>1. ~Reading /\ ~Reading'
      BY Zenon, <1>1, <2>1, <2>2, <2>3 DEF ReadingReport, Reading
    <3>. QED BY Zenon, <2>1, <2>2, <2>3, <3>1, SameTransmission
  <2>4. CASE transfer.req.kind = "GetReport"
    <3>1. Reading /\ ~do_build_transmit_report
      BY Zenon, <1>1, <2>1, <2>2, <2>4 DEF Reading, ReadingReport
    <3>2. ~Reading'
      BY Zenon, <2>2, <3>1 DEF Reading
    <3>3. Built = report /\ Built' = <<>> /\ Packet' = Packet
      BY Zenon, <2>2, <3>1, <3>2 DEF Built, Packet
    <3>. DEFINE rest == Packet \o transmit_fifo
    <3>4. /\ KTransmit \in Nat \ {0} /\ got \in Byte(KTransmit) /\ report \in Seq(Byte(KTransmit))
          /\ rest \in Seq(Byte(KTransmit)) /\ Underway = Built \o rest
      BY Zenon, Parts
    <3>5. <<>> \o rest = rest
      <4>. HIDE DEF rest
      <4>. QED BY <3>4
    <3>6. Underway' = rest /\ KTransmit' = KTransmit
      BY Zenon, <2>2, <3>3, <3>5, PartsAfter
    <3>7. InOrder(report \o rest, got, put, KTransmit)
      BY Zenon, <3>3, <3>4 DEF Transmission
    <3>8. InOrder(rest, got', put, KTransmit)
      <4>. HIDE DEF rest
      <4>. QED BY Zenon, <2>1, <2>4, <3>4, <3>7, OrderRest
    <3>. QED BY Zenon, <2>2, <3>1, <3>6, <3>8 DEF Transmission
  <2>. QED BY Zenon, <2>3, <2>4
<1>5. ASSUME HostReadsStatus PROVE Transmission'
  <2>1. Transact("tx0", [ev |-> "in0"]) /\ transfer.phase = "statusIn" /\ got' = got /\ transfer'.phase = "none"
    BY Zenon, <1>5, NothingTransferred DEF HostReadsStatus
  <2>. QED BY Zenon, <1>2, <2>1 DEF ReadingReport
<1>6. ASSUME NEW a \in BOOLEAN, HostWritesData(a) PROVE Transmission'
  <2>1. a
    BY Zenon, <1>6 DEF HostWritesData, WellBehaved
  <2>2. PICK e : Transact("rx0", e) /\ transfer.phase = "dataOut" /\ got' = got /\ transfer'.phase = "statusIn"
    BY Zenon, <1>6, <2>1 DEF HostWritesData, Sized, HostTypes
  <2>. QED BY Zenon, <1>2, <2>2 DEF ReadingReport
<1>7. ASSUME NEW a \in BOOLEAN, HostWritesStatus(a) PROVE Transmission'
  <2>1. a
    BY Zenon, <1>7 DEF HostWritesStatus, WellBehaved
  <2>2. PICK e : Transact("rx0", e) /\ transfer.phase = "statusOut" /\ got' = got /\ transfer'.phase = "none"
    BY Zenon, <1>7, <2>1, NothingTransferred DEF HostWritesStatus
  <2>. QED BY Zenon, <1>2, <2>2 DEF ReadingReport
<1>8. ASSUME HostSeesStall PROVE Transmission'
  <2>1. /\ stalled /\ transfer'.phase = "none"
        /\ UNCHANGED <<transmit_fifo, interrupt_packet, got, put, uown, do_build_transmit_report>>
    BY Zenon, <1>8, NothingTransferred DEF HostSeesStall
  <2>2. ~Reading /\ ~Reading'
    BY Zenon, <1>1, <2>1 DEF ReadingReport, Reading
  <2>. QED BY Zenon, <2>1, <2>2, SameTransmission
<1>9. ASSUME HostPolls PROVE Transmission'
  <2>1. /\ Transact("tx1", [ev |-> "in1"]) /\ transfer.phase = "none" /\ transfer' = transfer
        /\ got' = (got + Len(interrupt_packet)) % KTransmit
    BY Zenon, <1>9 DEF HostPolls, UsesInterruptEndpoints
  <2>2. /\ UNCHANGED <<transmit_fifo, interrupt_packet, put, do_build_transmit_report>>
        /\ "tx1" \in uown /\ "tx1" \notin uown'
    BY Zenon, <2>1 DEF Transact
  <2>3. ~Reading /\ ~Reading' /\ ~do_build_transmit_report
    BY Zenon, <1>1, <2>1, <2>2 DEF ReadingReport, Reading
  <2>4. Built = <<>> /\ Built' = <<>> /\ Packet = interrupt_packet /\ Packet' = <<>>
    BY Zenon, <2>2, <2>3 DEF Built, Packet
  <2>5. /\ KTransmit \in Nat \ {0} /\ got \in Byte(KTransmit) /\ interrupt_packet \in Seq(Byte(KTransmit))
        /\ transmit_fifo \in Seq(Byte(KTransmit)) /\ Underway = Built \o (Packet \o transmit_fifo)
    BY Zenon, Parts
  <2>6. /\ <<>> \o (interrupt_packet \o transmit_fifo) = interrupt_packet \o transmit_fifo
        /\ <<>> \o (<<>> \o transmit_fifo) = transmit_fifo
    BY <2>5
  <2>7. Underway = interrupt_packet \o transmit_fifo /\ Underway' = transmit_fifo /\ KTransmit' = KTransmit
    BY Zenon, <2>2, <2>4, <2>5, <2>6, PartsAfter
  <2>8. InOrder(transmit_fifo, got', put, KTransmit)
    BY Zenon, <2>1, <2>5, <2>7, OrderRest DEF Transmission
  <2>. QED BY Zenon, <2>2, <2>3, <2>7, <2>8 DEF Transmission
<1>10. ASSUME NEW n, NEW a, HostWrites(n, a) PROVE Transmission'
  <2>1. PICK e : Transact("rx2", e) /\ transfer' = transfer /\ got' = got
    BY Zenon, <1>10 DEF HostWrites
  <2>2. /\ UNCHANGED <<transmit_fifo, interrupt_packet, put, report, do_build_transmit_report>>
        /\ \A bd \in {"tx0", "tx1"} : bd \in uown' <=> bd \in uown
    BY Zenon, <2>1 DEF Transact
  <2>. QED BY Zenon, <2>1, <2>2, SameTransmission DEF Reading
<1>11. ~HostResets
  BY Zenon DEF HostResets, WellBehaved, ConfiguresOnce
<1>. QED BY Zenon, <1>3, <1>4, <1>5, <1>6, <1>7, <1>8, <1>9, <1>10, <1>11 DEF Host, ControlTransactions

-----------------------------------------------------------------------------
(* What the host sends.                                                     *)

LEMMA Receiving ==
  ASSUME Sized, Delivery
  PROVE  /\ KReceive \in Nat \ {0} /\ taken \in Byte(KReceive) /\ sent \in Byte(KReceive)
         /\ receive_fifo \in Seq(Byte(KReceive)) /\ InOrder(receive_fifo, taken, Arrived, KReceive)
<1>1. /\ KReceive \in Nat \ {0} /\ taken \in Byte(KReceive) /\ sent \in Byte(KReceive)
      /\ receive_fifo \in Seq(Byte(KReceive))
  BY Zenon, Sizes DEF Sized, FifoTypes, IsFIFO
<1>. QED BY Zenon, <1>1 DEF Delivery, InOrder, Arrived

\* The toggle of the control endpoint is not that of endpoint 2.
LEMMA OtherToggle ==
  ASSUME Sized, NEW x, data_sequence' = [data_sequence EXCEPT ![0] = x]
  PROVE  data_sequence'[2] = data_sequence[2]
<1>1. data_sequence \in [{0, 2} -> Int]
  BY Zenon DEF Sized, IInv, Types
<1>. QED BY <1>1

\* What is in order in the receive FIFO after a step.
LEMMA NowArrived ==
  ASSUME env' = env, NEW b, InOrder(receive_fifo', taken', b, KReceive)
  PROVE  receive_fifo' = Bytes(taken', Len(receive_fifo'), KReceive') /\ Arrived' = b
BY Zenon, SameSizes DEF InOrder, Arrived

\* A step that delivers nothing.
LEMMA DeliveryKept ==
  ASSUME Delivery, env' = env, UNCHANGED <<host_sequence, unacknowledged, sent>>,
         data_sequence'[2] = data_sequence[2], InOrder(receive_fifo', taken', Arrived, KReceive),
         Pending("out2")' <=> Pending("out2"), Reported' <=> Reported, Reported => transfer'.req = transfer.req,
         \A i \in 1 .. Len(stat) : stat[i].ev = "out2" => \E j \in 1 .. Len(stat') : stat'[j] = stat[i],
         Reported => \A j \in 1 .. Len(stat') : stat'[j].ev = "out0" => \E i \in 1 .. Len(stat) : stat[i] = stat'[j]
  PROVE  Delivery'
<1>1. receive_fifo' = Bytes(taken', Len(receive_fifo'), KReceive') /\ Arrived' = Arrived
  BY Zenon, NowArrived
<1>2. KReceive' = KReceive
  BY Zenon, SameSizes
<1>3. CASE Settled
  <2>1. Settled'
    BY Zenon, <1>1, <1>3 DEF Settled
  <2>. QED BY Zenon, <1>1, <2>1 DEF Delivery
<1>4. CASE Unanswered
  <2>1. Unanswered'
    BY Zenon, <1>1, <1>2, <1>4 DEF Unanswered
  <2>. QED BY Zenon, <1>1, <2>1 DEF Delivery
<1>5. CASE Reporting
  <2>1. ASSUME NEW j \in 1 .. Len(stat'), stat'[j].ev = "out0"
        PROVE  IF transfer'.req.good THEN InOrder(stat'[j].data, Arrived', sent', KReceive') ELSE sent' = Arrived'
    <3>1. PICK i \in 1 .. Len(stat) : stat[i] = stat'[j]
      BY Zenon, <1>5, <2>1 DEF Reporting
    <3>2. IF transfer.req.good THEN InOrder(stat[i].data, Arrived, sent, KReceive) ELSE sent = Arrived
      BY Zenon, <1>5, <2>1, <3>1 DEF Reporting
    <3>3. transfer'.req = transfer.req
      BY Zenon, <1>5 DEF Reporting
    <3>. QED BY Zenon, <1>1, <1>2, <3>1, <3>2, <3>3
  <2>2. Reporting'
    BY Zenon, <1>5, <2>1 DEF Reporting
  <2>. QED BY Zenon, <1>1, <2>2 DEF Delivery
<1>6. ASSUME ~Reported, NEW i \in 1 .. Len(stat), stat[i].ev = "out2", Arriving(stat[i]) PROVE Delivery'
  <2>1. PICK j \in 1 .. Len(stat') : stat'[j] = stat[i]
    BY Zenon, <1>6
  <2>2. Arriving(stat[j])'
    BY Zenon, <1>1, <1>2, <1>6, <2>1 DEF Arriving
  <2>. QED BY Zenon, <1>1, <1>6, <2>1, <2>2 DEF Delivery
<1>. QED BY Zenon, <1>3, <1>4, <1>5, <1>6 DEF Delivery

LEMMA DeliveryAfterApplication ==
  ASSUME Sized, env' = env, ~fatal', Delivery, Application
  PROVE  Delivery'
<1>. USE DEF deviceVars, fifos, interruptVars, setReportVars, getReportVars, controlVars, busVars, appVars, hostVars
<1>0. ~usbFatalError
  BY Zenon DEF usbFatalError
<1>1. UNCHANGED <<host_sequence, unacknowledged, sent, data_sequence, transfer, stat>>
  BY Zenon, <1>0 DEF Application, CallGet, CallPut, circularBufferRead, streamGetOneByte, streamPutOneByte
<1>2. InOrder(receive_fifo', taken', Arrived, KReceive)
  <2>0. /\ KReceive \in Nat \ {0} /\ taken \in Byte(KReceive)
        /\ receive_fifo \in Seq(Byte(KReceive)) /\ InOrder(receive_fifo, taken, Arrived, KReceive)
    BY Zenon, Receiving
  <2>1. CASE CallGet \/ CallPut \/ streamGetOneByte \/ streamPutOneByte
    <3>1. UNCHANGED <<receive_fifo, taken>>
      BY Zenon, <1>0, <2>1 DEF CallGet, CallPut, streamGetOneByte, streamPutOneByte
    <3>. QED BY Zenon, <2>0, <3>1
  <2>2. CASE circularBufferRead
    <3>1. receive_fifo # <<>> /\ receive_fifo' = Tail(receive_fifo) /\ taken' = (taken + 1) % KReceive
      BY Zenon, <2>2 DEF circularBufferRead
    <3>. DEFINE h == <<Head(receive_fifo)>>
    <3>2. /\ h \in Seq(Byte(KReceive)) /\ Len(h) = 1 /\ Tail(receive_fifo) \in Seq(Byte(KReceive))
          /\ receive_fifo = h \o Tail(receive_fifo)
      BY <2>0, <3>1
    <3>. HIDE DEF h
    <3>3. InOrder(h \o Tail(receive_fifo), taken, Arrived, KReceive)
      BY Zenon, <2>0, <3>2
    <3>4. InOrder(Tail(receive_fifo), (taken + Len(h)) % KReceive, Arrived, KReceive)
      BY Zenon, <2>0, <3>2, <3>3, OrderRest
    <3>. QED BY Zenon, <3>1, <3>2, <3>4
  <2>. QED BY Zenon, <2>1, <2>2 DEF Application
<1>. QED BY Zenon, <1>1, <1>2, DeliveryKept DEF Pending, Reported

\* An entry of U1STAT is handled; the others are kept.
LEMMA OthersKept ==
  ASSUME Sized, NEW ev, Handling(ev), stat' = Tail(stat)
  PROVE  /\ \A i \in 1 .. Len(stat) : stat[i].ev # ev => \E j \in 1 .. Len(stat') : stat'[j] = stat[i]
         /\ \A j \in 1 .. Len(stat') : \E i \in 1 .. Len(stat) : stat[i] = stat'[j]
         /\ \A x : x # ev => (Pending(x)' <=> Pending(x))
         /\ ~Pending(ev)' /\ Pending(ev) /\ 1 \in 1 .. Len(stat) /\ stat[1] = Head(stat) /\ stat[1].ev = ev
<1>1. stat # <<>> /\ Head(stat).ev = ev
  BY Zenon DEF Handling
<1>2. /\ Len(stat) \in Nat \ {0} /\ 1 \in 1 .. Len(stat) /\ stat[1] = Head(stat) /\ stat[1].ev = ev
      /\ Len(stat') = Len(stat) - 1
      /\ \A i \in 1 .. Len(stat) - 1 : stat'[i] = stat[i + 1]
  BY <1>1, FirstEntry DEF Sized
<1>3. \A i \in 1 .. Len(stat) : i # 1 => i - 1 \in 1 .. Len(stat') /\ stat'[i - 1] = stat[i]
  BY <1>2
<1>4. \A i \in 1 .. Len(stat) : stat[i].ev # ev => \E j \in 1 .. Len(stat') : stat'[j] = stat[i]
  BY ONLY Zenon, <1>2, <1>3
<1>. QED BY Zenon, <1>2, <1>4, HeadGone

\* The other endpoint of the control transfer, or endpoint 1.
LEMMA OtherDelivery ==
  ASSUME Sized, env' = env, Delivery, NEW ev, ev # "out2", Handling(ev), stat' = Tail(stat),
         ev = "out0" => ~Reported,
         UNCHANGED <<host_sequence, unacknowledged, sent, transfer, receive_fifo, taken>>,
         data_sequence'[2] = data_sequence[2]
  PROVE  Delivery'
<1>1. InOrder(receive_fifo', taken', Arrived, KReceive)
  BY Zenon, Receiving
<1>2. /\ \A i \in 1 .. Len(stat) : stat[i].ev # ev => \E j \in 1 .. Len(stat') : stat'[j] = stat[i]
      /\ \A j \in 1 .. Len(stat') : \E i \in 1 .. Len(stat) : stat[i] = stat'[j]
      /\ \A x : x # ev => (Pending(x)' <=> Pending(x))
      /\ ~Pending(ev)'
  BY Zenon, OthersKept
<1>3. Reported' <=> Reported
  BY Zenon, <1>2 DEF Reported
<1>. QED BY Zenon, <1>1, <1>2, <1>3, DeliveryKept

LEMMA DeliveryAfterSetup ==
  ASSUME Sized, env' = env, Fresh, ~fatal', InStep, Delivery, Alternating,
         getReport \/ setReport \/ getDescriptor \/ setConfiguration \/ protocolStall
  PROVE  /\ Delivery' /\ ~Pending("out2")' /\ ~Pending("setup")'
         /\ UNCHANGED <<host_sequence, unacknowledged, transfer>> /\ data_sequence'[2] = data_sequence[2]
         /\ configuration' = configuration \/ (setConfiguration /\ configuration' = 1)
<1>. USE DEF deviceVars, fifos, interruptVars, setReportVars, getReportVars, controlVars, busVars, appVars, hostVars
<1>0. ~usbFatalError
  BY Zenon DEF usbFatalError
<1>1. PICK kind : Setup(kind) /\ (setConfiguration => kind = "SetConfiguration")
  BY Zenon DEF getReport, setReport, getDescriptor, setConfiguration, protocolStall
<1>2. Handling("setup") /\ Head(stat).req.kind = kind
  BY Zenon, <1>1 DEF Setup
<1>3. stat' = Tail(stat) /\ UNCHANGED <<host_sequence, unacknowledged, sent, transfer, receive_fifo, taken>>
  BY Zenon, <1>0 DEF getReport, setReport, getDescriptor, setConfiguration, protocolStall, SetupDone
<1>4. data_sequence'[2] = data_sequence[2] /\ (configuration' = configuration \/ (setConfiguration /\ configuration' = 1))
  <2>1. CASE getReport \/ setReport \/ getDescriptor \/ protocolStall
    <3>1. data_sequence' = [data_sequence EXCEPT ![0] = 1] /\ configuration' = configuration
      BY Zenon, <1>0, <2>1 DEF getReport, setReport, getDescriptor, protocolStall, SetupDone
    <3>2. data_sequence'[2] = data_sequence[2]
      BY Zenon, <3>1, OtherToggle
    <3>. QED BY Zenon, <3>1, <3>2
  <2>2. CASE setConfiguration
    <3>. DEFINE v == Head(stat).req.n
    <3>1. /\ usbClassSetConfiguration(v)
          /\ data_sequence' = [e \in {0, 2} |->
               IF e = 0 THEN 1 ELSE IF v = 1 /\ configuration = 0 THEN 0 ELSE data_sequence[e]]
      BY Zenon, <1>0, <2>2 DEF setConfiguration
    <3>2. v = 1
      <4>1. 1 \in 1 .. Len(stat) /\ stat[1] = Head(stat) /\ stat[1].ev = "setup"
        BY Zenon, <1>2, <1>3, OthersKept
      <4>. QED BY Zenon, <1>1, <1>2, <2>2, <4>1 DEF Fresh
    <3>3. configuration' = 1
      BY Zenon, <3>1, <3>2 DEF usbClassSetConfiguration
    <3>4. data_sequence'[2] = IF v = 1 /\ configuration = 0 THEN 0 ELSE data_sequence[2]
      <4>. HIDE DEF v
      <4>. QED BY <3>1
    <3>5. configuration = 0 => data_sequence[2] = 0
      BY Zenon DEF Alternating
    <3>. QED BY Zenon, <2>2, <3>3, <3>4, <3>5
  <2>. QED BY Zenon, <2>1, <2>2
<1>5. ~Pending("out2")' /\ ~Pending("setup")'
  BY <1>1, <1>3, SetupInStep DEF Pending
<1>6. Delivery'
  BY Zenon, <1>2, <1>3, <1>4, OtherDelivery
<1>. QED BY Zenon, <1>3, <1>4, <1>5, <1>6

\* The report of a "Set Report" is stored, or it is refused.
LEMMA DeliveryAfterControlReceive ==
  ASSUME Sized, env' = env, ~fatal', InStep, Delivery, Alternating, controlReceiveCallback
  PROVE  Delivery'
<1>. USE DEF deviceVars, fifos, interruptVars, setReportVars, getReportVars, controlVars, busVars, appVars, hostVars
<1>0. ~usbFatalError
  BY Zenon DEF usbFatalError
<1>. DEFINE e == Head(stat)
            accepted == InSequence(e, 0)
            stage == IF accepted THEN current_stage ELSE "ignored"
            store == /\ stage = "DATA" /\ expect_control_report # NoReport
                     /\ e.good /\ e.id = expect_control_report
<1>1. Handling("out0")
  BY Zenon DEF controlReceiveCallback
<1>2. /\ receive_fifo' = IF store THEN receive_fifo \o e.data ELSE receive_fifo
      /\ stat' = Tail(stat) /\ UNCHANGED <<host_sequence, unacknowledged, sent, transfer, taken>>
      /\ \E x : data_sequence' = [data_sequence EXCEPT ![0] = x]
  BY Zenon, <1>0 DEF controlReceiveCallback
<1>3. data_sequence'[2] = data_sequence[2]
  BY Zenon, <1>2, OtherToggle
<1>4. /\ \A x : x # "out0" => (Pending(x)' <=> Pending(x))
      /\ ~Pending("out0")' /\ Pending("out0") /\ 1 \in 1 .. Len(stat) /\ stat[1] = e /\ stat[1].ev = "out0"
  BY Zenon, <1>1, <1>2, OthersKept
<1>5. e.toggle = 1
  BY Zenon, <1>4 DEF Sized, IInv, Queue, IsEntry
<1>6. ReadConfirmed \/ Written
  BY Zenon, <1>4 DEF InStep, Resting, Beginning, Stalled, ReadingReport, ReadingDescriptor, AllRead,
     Writing, Confirming, Confirmed, Confirmation
<1>7. CASE ReadConfirmed
  <2>1. expect_control_report = NoReport /\ ~Reported
    BY Zenon, <1>7 DEF ReadConfirmed, LastRead, Quiet, Reported
  <2>2. receive_fifo' = receive_fifo
    BY Zenon, <1>2, <2>1
  <2>. QED BY Zenon, <1>1, <1>2, <1>3, <2>1, <2>2, OtherDelivery
<1>8. CASE Written
  <2>1. /\ transfer.phase = "statusIn" /\ current_stage = "DATA" /\ data_sequence[0] = 1
        /\ expect_control_report = transfer.req.n /\ e.id = transfer.req.n /\ e.good = transfer.req.good
    BY Zenon, <1>4, <1>8 DEF Written, WriteExpected
  <2>2. stage = "DATA"
    BY Zenon, <1>5, <2>1 DEF InSequence
  <2>3. expect_control_report # NoReport
    <3>1. transfer.req.n \in Nat
      BY Zenon, Phases, RequestSize
    <3>. QED BY <2>1, <3>1 DEF NoReport
  <2>4. store <=> transfer.req.good
    BY Zenon, <2>1, <2>2, <2>3
  <2>. HIDE DEF store
  <2>5. Reported /\ unacknowledged = -1
    BY Zenon, <1>4, <2>1 DEF Reported, Alternating
  <2>6. Reporting
    BY Zenon, <2>5 DEF Delivery, Settled, Unanswered
  <2>7. IF transfer.req.good THEN InOrder(e.data, Arrived, sent, KReceive) ELSE sent = Arrived
    BY Zenon, <1>4, <2>6 DEF Reporting
  <2>8. InOrder(receive_fifo', taken', sent, KReceive)
    <3>1. /\ KReceive \in Nat \ {0} /\ taken \in Byte(KReceive)
          /\ receive_fifo \in Seq(Byte(KReceive)) /\ InOrder(receive_fifo, taken, Arrived, KReceive)
      BY Zenon, Receiving
    <3>2. e.data \in Seq(Byte(KReceive))
      BY Zenon, <1>4, EntryData
    <3>3. CASE transfer.req.good
      <4>1. InOrder(receive_fifo \o e.data, taken, sent, KReceive)
        <5>. HIDE DEF e
        <5>. QED BY Zenon, <2>7, <3>1, <3>2, <3>3, OrderConcat
      <4>. QED BY Zenon, <1>2, <2>4, <3>3, <4>1
    <3>4. CASE ~transfer.req.good
      BY Zenon, <1>2, <2>4, <2>7, <3>1, <3>4
    <3>. QED BY Zenon, <3>3, <3>4
  <2>9. receive_fifo' = Bytes(taken', Len(receive_fifo'), KReceive') /\ Arrived' = sent
    BY Zenon, <2>8, NowArrived
  <2>10. ~Reported'
    BY Zenon, <1>4 DEF Reported
  <2>11. Settled'
    BY Zenon, <1>2, <1>3, <1>4, <2>6, <2>9, <2>10 DEF Settled, Reporting
  <2>. QED BY Zenon, <2>9, <2>11 DEF Delivery
<1>. QED BY Zenon, <1>6, <1>7, <1>8

\* A packet of endpoint 2 is stored, or it is a repetition.
LEMMA DeliveryAfterEndpoint2 ==
  ASSUME Sized, env' = env, ~fatal', InStep, Delivery, ep2ReceiveCallback
  PROVE  Delivery'
<1>. USE DEF deviceVars, fifos, interruptVars, setReportVars, getReportVars, controlVars, busVars, appVars, hostVars
<1>0. ~usbFatalError
  BY Zenon DEF usbFatalError
<1>. DEFINE e == Head(stat)
            accepted == InSequence(e, 2)
<1>1. Handling("out2")
  BY Zenon DEF ep2ReceiveCallback
<1>2. /\ receive_fifo' = IF accepted THEN receive_fifo \o e.data ELSE receive_fifo
      /\ stat' = Tail(stat) /\ UNCHANGED <<host_sequence, unacknowledged, sent, transfer, taken>>
      /\ data_sequence' = [data_sequence EXCEPT ![2] = IF accepted THEN 1 - @ ELSE @]
  BY Zenon, <1>0 DEF ep2ReceiveCallback
<1>3. /\ \A x : x # "out2" => (Pending(x)' <=> Pending(x))
      /\ ~Pending("out2")' /\ Pending("out2") /\ 1 \in 1 .. Len(stat) /\ stat[1] = e /\ stat[1].ev = "out2"
  BY Zenon, <1>1, <1>2, OthersKept
<1>4. ~Reported /\ Arriving(e)
  <2>1. PICK i \in 1 .. Len(stat) : ~Reported /\ stat[i].ev = "out2" /\ Arriving(stat[i])
    BY Zenon, <1>3 DEF Delivery, Settled, Reporting, Unanswered
  <2>2. \A j \in 1 .. Len(stat) : j # 1 => Buffer(stat[j].ev) # Buffer(stat[1].ev)
    BY Zenon, <1>3 DEF Sized, IInv, Queue
  <2>3. i = 1
    BY Zenon, <1>3, <2>1, <2>2
  <2>. QED BY Zenon, <1>3, <2>1, <2>3
<1>5. ~Reported'
  BY Zenon, <1>2, <1>3, <1>4 DEF Reported
<1>6. /\ KReceive \in Nat \ {0} /\ taken \in Byte(KReceive)
      /\ receive_fifo \in Seq(Byte(KReceive)) /\ InOrder(receive_fifo, taken, Arrived, KReceive)
  BY Zenon, Receiving
<1>7. e.data \in Seq(Byte(KReceive)) /\ Len(e.data) # -1
  <2>1. e.data \in Seq(Byte(KReceive))
    BY Zenon, <1>3, EntryData
  <2>. HIDE DEF e
  <2>. QED BY <2>1
<1>. HIDE DEF e
<1>8. CASE e.toggle = data_sequence[2]
  <2>1. accepted
    BY Zenon, <1>8 DEF InSequence
  <2>2. receive_fifo' = receive_fifo \o e.data /\ data_sequence'[2] = 1 - data_sequence[2]
    BY Zenon, <1>2, <2>1 DEF Sized, IInv, Types
  <2>3. 1 - data_sequence'[2] = data_sequence[2]
    <3>1. data_sequence[2] \in {0, 1}
      BY Zenon DEF Sized, DriverTypes
    <3>. QED BY <2>2, <3>1
  <2>4. CASE /\ unacknowledged = -1 /\ host_sequence = 1 - data_sequence[2]
             /\ InOrder(e.data, Arrived, sent, KReceive)
    <3>1. InOrder(receive_fifo', taken', sent, KReceive)
      BY Zenon, <1>2, <1>6, <1>7, <2>2, <2>4, OrderConcat
    <3>2. receive_fifo' = Bytes(taken', Len(receive_fifo'), KReceive') /\ Arrived' = sent
      BY Zenon, <3>1, NowArrived
    <3>3. Settled'
      BY Zenon, <1>2, <1>3, <1>5, <2>2, <2>4, <3>2 DEF Settled
    <3>. QED BY Zenon, <3>2, <3>3 DEF Delivery
  <2>5. CASE /\ unacknowledged = Len(e.data) /\ host_sequence = data_sequence[2]
             /\ InOrder(e.data, Arrived, (sent + unacknowledged) % KReceive, KReceive)
    <3>1. InOrder(receive_fifo', taken', (sent + unacknowledged) % KReceive, KReceive)
      BY Zenon, <1>2, <1>6, <1>7, <2>2, <2>5, OrderConcat
    <3>2. receive_fifo' = Bytes(taken', Len(receive_fifo'), KReceive') /\ Arrived' = (sent + unacknowledged) % KReceive
      BY Zenon, <3>1, NowArrived
    <3>3. Unanswered'
      BY Zenon, <1>2, <1>3, <1>7, <2>3, <2>5, <3>2, SameSizes DEF Unanswered
    <3>. QED BY Zenon, <3>2, <3>3 DEF Delivery
  <2>. QED BY Zenon, <1>4, <1>8, <2>4, <2>5 DEF Arriving
<1>9. CASE e.toggle # data_sequence[2]
  <2>1. ~accepted
    BY Zenon, <1>9 DEF InSequence
  <2>2. receive_fifo' = receive_fifo /\ data_sequence'[2] = data_sequence[2]
    BY Zenon, <1>2, <2>1 DEF Sized, IInv, Types
  <2>3. receive_fifo' = Bytes(taken', Len(receive_fifo'), KReceive') /\ Arrived' = Arrived
    BY Zenon, <1>2, <1>6, <2>2, NowArrived
  <2>4. Settled' \/ Unanswered'
    BY Zenon, <1>2, <1>3, <1>4, <1>5, <1>9, <2>2, <2>3, SameSizes DEF Settled, Unanswered, Arriving
  <2>. QED BY Zenon, <2>3, <2>4 DEF Delivery
<1>. QED BY Zenon, <1>8, <1>9

LEMMA AlternatingKept ==
  ASSUME Alternating, UNCHANGED <<host_sequence, unacknowledged, transfer, configuration>>,
         data_sequence'[2] = data_sequence[2], Pending("setup")' <=> Pending("setup"),
         Pending("out2")' => Pending("out2")
  PROVE  Alternating'
BY Zenon DEF Alternating

LEMMA ReceivedAfterHandler ==
  ASSUME Sized, env' = env, Fresh, ~fatal', InStep, Delivery, Alternating, USBHandler
  PROVE  Delivery' /\ Alternating'
<1>. USE DEF deviceVars, fifos, interruptVars, setReportVars, getReportVars, controlVars, busVars, appVars, hostVars
<1>0. ~usbFatalError /\ ~usbHALReset
  BY Zenon DEF usbFatalError, usbHALReset, Fresh
<1>1. CASE getReport \/ setReport \/ getDescriptor \/ setConfiguration \/ protocolStall
  <2>1. /\ Delivery' /\ ~Pending("out2")' /\ ~Pending("setup")'
        /\ UNCHANGED <<host_sequence, unacknowledged, transfer>> /\ data_sequence'[2] = data_sequence[2]
        /\ configuration' = configuration \/ (setConfiguration /\ configuration' = 1)
    BY Zenon, <1>1, DeliveryAfterSetup
  <2>2. configuration' = 0 => configuration = 0
    BY <2>1
  <2>. QED BY Zenon, <2>1, <2>2 DEF Alternating
<1>2. CASE controlReceiveCallback
  <2>1. /\ Handling("out0") /\ stat' = Tail(stat)
        /\ UNCHANGED <<host_sequence, unacknowledged, transfer, configuration>>
        /\ \E x : data_sequence' = [data_sequence EXCEPT ![0] = x]
    BY Zenon, <1>0, <1>2 DEF controlReceiveCallback
  <2>2. data_sequence'[2] = data_sequence[2]
    BY Zenon, <2>1, OtherToggle
  <2>3. (Pending("setup")' <=> Pending("setup")) /\ (Pending("out2")' <=> Pending("out2"))
    BY Zenon, <2>1, HeadGone
  <2>. QED BY Zenon, <1>2, <2>1, <2>2, <2>3, AlternatingKept, DeliveryAfterControlReceive
<1>3. CASE controlTransmitCallback \/ ep1TransmitCallback
  <2>1. PICK ev \in {"in0", "in1"} :
        /\ Handling(ev) /\ stat' = Tail(stat)
        /\ UNCHANGED <<host_sequence, unacknowledged, transfer, configuration, sent, receive_fifo, taken>>
        /\ \E x : data_sequence' \in {data_sequence, [data_sequence EXCEPT ![0] = x]}
    BY Zenon, <1>0, <1>3 DEF controlTransmitCallback, ep1TransmitCallback
  <2>2. data_sequence'[2] = data_sequence[2]
    BY Zenon, <2>1, OtherToggle
  <2>3. (Pending("setup")' <=> Pending("setup")) /\ (Pending("out2")' <=> Pending("out2"))
    BY Zenon, <2>1, HeadGone
  <2>4. ev # "out2" /\ ev # "out0"
    BY Zenon, <2>1
  <2>. QED BY Zenon, <2>1, <2>2, <2>3, <2>4, AlternatingKept, OtherDelivery
<1>4. CASE ep2ReceiveCallback
  <2>1. /\ Handling("out2") /\ stat' = Tail(stat)
        /\ UNCHANGED <<host_sequence, unacknowledged, transfer, configuration>>
    BY Zenon, <1>0, <1>4 DEF ep2ReceiveCallback
  <2>2. (Pending("setup")' <=> Pending("setup")) /\ ~Pending("out2")' /\ Pending("out2")
    BY Zenon, <2>1, HeadGone
  <2>3. configuration # 0
    BY Zenon, <2>2 DEF Sized, IInv, Disabled
  <2>4. Alternating'
    BY Zenon, <2>1, <2>2, <2>3 DEF Alternating
  <2>. QED BY Zenon, <1>4, <2>4, DeliveryAfterEndpoint2
<1>. QED BY Zenon, <1>0, <1>1, <1>2, <1>3, <1>4 DEF USBHandler

\* A transaction that delivers nothing.
LEMMA DeliveryTransacted ==
  ASSUME Sized, env' = env, Delivery, NEW bd, NEW e, Transact(bd, e), e.ev # "out2", ~Reported, ~Reported',
         UNCHANGED <<host_sequence, unacknowledged, sent>>
  PROVE  Delivery'
<1>1. UNCHANGED <<receive_fifo, taken, data_sequence>>
  BY Zenon DEF Transact, deviceVars, fifos, controlVars, appVars
<1>2. InOrder(receive_fifo', taken', Arrived, KReceive)
  BY Zenon, <1>1, Receiving
<1>3. /\ \A i \in 1 .. Len(stat) : i \in 1 .. Len(stat') /\ stat'[i] = stat[i]
      /\ Pending("out2")' <=> Pending("out2")
  <2>1. /\ Len(stat) \in Nat /\ Len(stat') = Len(stat) + 1
        /\ \A i \in 1 .. Len(stat) : stat'[i] = stat[i]
        /\ \A ev : Pending(ev)' <=> Pending(ev) \/ ev = e.ev
    BY Zenon, StatAdded
  <2>2. \A i \in 1 .. Len(stat) : i \in 1 .. Len(stat')
    BY <2>1
  <2>. QED BY Zenon, <2>1, <2>2
<1>. QED BY Zenon, <1>1, <1>2, <1>3, DeliveryKept

LEMMA ReceivedAfterHost ==
  ASSUME Sized, Sized', env' = env, WellBehaved, ~Simultaneous, InStep, Delivery, Alternating, Host
  PROVE  Delivery' /\ Alternating'
<1>. USE DEF deviceVars, fifos, interruptVars, setReportVars, getReportVars, controlVars, busVars, appVars, hostVars
<1>1. ASSUME NEW bd, NEW e, Transact(bd, e)
      PROVE  /\ UNCHANGED <<configuration, data_sequence, receive_fifo, taken>> /\ bd \in uown /\ ~Pending("setup")
             /\ \A ev : Pending(ev)' <=> Pending(ev) \/ ev = e.ev
             /\ bd = "rx0" => ~Pending("out0")
             /\ bd = "rx2" => ~Pending("out2")
  <2>1. UNCHANGED <<configuration, data_sequence, receive_fifo, taken>> /\ bd \in uown /\ ~pktdis
    BY Zenon, <1>1 DEF Transact, BusReady
  <2>2. ~Pending("setup") /\ (bd = "rx0" => ~Pending("out0")) /\ (bd = "rx2" => ~Pending("out2"))
    BY Zenon, <2>1, Buffers DEF Sized, IInv, Queue, Pending
  <2>. QED BY Zenon, <1>1, <2>1, <2>2, StatAdded
<1>2. ASSUME NEW r \in Requests, HostSetup(r) PROVE Delivery' /\ Alternating'
  <2>. DEFINE e == [ev |-> "setup", req |-> r]
  <2>1. /\ Transact("rx0", e) /\ transfer.phase = "none" /\ unacknowledged = -1
        /\ r.kind = "SetConfiguration" => r.n # configuration
        /\ transfer'.req = r
        /\ UNCHANGED <<host_sequence, unacknowledged, sent>>
    BY Zenon, <1>2 DEF HostSetup, WellBehaved
  <2>2. e.ev = "setup"
    BY Zenon
  <2>. HIDE DEF e
  <2>3. /\ ~Pending("out0")' /\ Pending("setup")' /\ UNCHANGED <<configuration, data_sequence>>
        /\ ~Reported /\ ~Reported'
    BY Zenon, <1>1, <2>1, <2>2 DEF Reported
  <2>4. r.kind = "SetConfiguration" => configuration = 0
    <3>1. r.kind = "SetConfiguration" => r.n = 1
      BY Zenon, <1>2 DEF WellBehaved, ConfiguresOnce
    <3>2. configuration \in {0, 1}
      BY Zenon DEF Sized, IInv, Types
    <3>. QED BY Zenon, <2>1, <3>1, <3>2
  <2>5. Alternating'
    BY Zenon, <2>1, <2>3, <2>4 DEF Alternating
  <2>6. e.ev # "out2"
    BY Zenon, <2>2
  <2>. QED BY Zenon, <2>1, <2>3, <2>5, <2>6, DeliveryTransacted
<1>3. ASSUME HostReadsData PROVE Delivery' /\ Alternating'
  <2>. DEFINE e == [ev |-> "in0"]
  <2>1. /\ Transact("tx0", e) /\ transfer.phase = "dataIn" /\ transfer'.req = transfer.req
        /\ transfer'.phase \in {"dataIn", "statusOut"}
        /\ UNCHANGED <<host_sequence, unacknowledged, sent>>
    <3>1. transfer \in [req : Request(MAX_PACKET_SIZE), phase : Phase, left : 0 .. 2 * MAX_PACKET_SIZE]
      BY Zenon DEF Sized, HostTypes
    <3>. QED BY Zenon, <1>3, <3>1 DEF HostReadsData
  <2>2. e.ev = "in0"
    BY Zenon
  <2>. HIDE DEF e
  <2>3. /\ ~Reported /\ ~Reported' /\ UNCHANGED <<configuration, data_sequence>>
        /\ ~Pending("setup")' /\ ~Pending("setup") /\ (Pending("out2")' <=> Pending("out2"))
    BY Zenon, <1>1, <2>1, <2>2 DEF Reported
  <2>4. Alternating'
    BY Zenon, <2>1, <2>3 DEF Alternating
  <2>5. e.ev # "out2"
    BY Zenon, <2>2
  <2>. QED BY Zenon, <2>1, <2>3, <2>4, <2>5, DeliveryTransacted
<1>4. ASSUME HostReadsStatus PROVE Delivery' /\ Alternating'
  <2>. DEFINE e == [ev |-> "in0"]
  <2>1. /\ Transact("tx0", e) /\ transfer.phase = "statusIn" /\ ~stalled /\ transfer'.phase = "none"
        /\ host_sequence' = IF transfer.req.kind = "SetConfiguration" THEN 0 ELSE host_sequence
        /\ UNCHANGED <<unacknowledged, sent>>
    BY Zenon, <1>4, NothingTransferred DEF HostReadsStatus
  <2>2. e.ev = "in0"
    BY Zenon
  <2>. HIDE DEF e
  <2>3. host_sequence' = host_sequence
    BY Zenon, <2>1 DEF Alternating
  <2>4. /\ "tx0" \in uown /\ ~Reported' /\ UNCHANGED <<configuration, data_sequence>> /\ ~Pending("setup")'
    BY Zenon, <1>1, <2>1, <2>2 DEF Reported
  <2>5. ~Reported
    BY Zenon, <2>1, <2>4 DEF Reported, InStep, Resting, Beginning, Stalled, ReadingReport, ReadingDescriptor, AllRead,
       ReadConfirmed, LastRead, Writing, Written, WriteExpected, Confirming, Confirmed, Confirmation, Quiet
  <2>6. Alternating'
    BY Zenon, <2>1, <2>3, <2>4 DEF Alternating
  <2>7. e.ev # "out2"
    BY Zenon, <2>2
  <2>. QED BY Zenon, <2>1, <2>3, <2>4, <2>5, <2>6, <2>7, DeliveryTransacted
<1>5. ASSUME NEW a \in BOOLEAN, HostWritesStatus(a) PROVE Delivery' /\ Alternating'
  <2>. DEFINE e == [ev |-> "out0", toggle |-> 1, id |-> NoReport, good |-> FALSE, data |-> <<>>]
  <2>1. a
    BY Zenon, <1>5 DEF HostWritesStatus, WellBehaved
  <2>2. /\ Transact("rx0", e) /\ transfer.phase = "statusOut" /\ transfer'.phase = "none"
        /\ UNCHANGED <<host_sequence, unacknowledged, sent>>
    BY Zenon, <1>5, <2>1, NothingTransferred DEF HostWritesStatus
  <2>3. e.ev = "out0"
    BY Zenon
  <2>. HIDE DEF e
  <2>4. ~Reported /\ ~Reported' /\ UNCHANGED <<configuration, data_sequence>> /\ ~Pending("setup")'
    BY Zenon, <1>1, <2>2, <2>3 DEF Reported
  <2>5. Alternating'
    BY Zenon, <2>2, <2>4 DEF Alternating
  <2>6. e.ev # "out2"
    BY Zenon, <2>3
  <2>. QED BY Zenon, <2>2, <2>4, <2>5, <2>6, DeliveryTransacted
<1>6. ASSUME HostPolls PROVE Delivery' /\ Alternating'
  <2>. DEFINE e == [ev |-> "in1"]
  <2>1. /\ Transact("tx1", e) /\ transfer.phase = "none" /\ configuration = 1
        /\ UNCHANGED <<host_sequence, unacknowledged, sent, transfer>>
    BY Zenon, <1>6 DEF HostPolls, UsesInterruptEndpoints
  <2>2. e.ev = "in1"
    BY Zenon
  <2>. HIDE DEF e
  <2>3. ~Reported /\ ~Reported' /\ UNCHANGED <<configuration, data_sequence>> /\ ~Pending("setup")'
    BY Zenon, <1>1, <2>1, <2>2 DEF Reported
  <2>4. Alternating'
    BY Zenon, <2>1, <2>3 DEF Alternating
  <2>5. e.ev # "out2"
    BY Zenon, <2>2
  <2>. QED BY Zenon, <2>1, <2>3, <2>4, <2>5, DeliveryTransacted
<1>7. ASSUME HostSeesStall PROVE Delivery' /\ Alternating'
  <2>1. /\ stalled /\ transfer.phase # "none" /\ transfer' = NoTransfer
        /\ UNCHANGED <<host_sequence, unacknowledged, sent, stat, configuration, data_sequence, receive_fifo, taken>>
    BY Zenon, <1>7 DEF HostSeesStall
  <2>2. transfer'.phase = "none" /\ transfer'.req.kind = "Unsupported"
    BY <2>1 DEF NoTransfer
  <2>3. Stalled
    BY Zenon, <2>1 DEF InStep, Resting, Beginning, ReadingReport, ReadingDescriptor, AllRead,
       ReadConfirmed, LastRead, Writing, Written, WriteExpected, Confirming, Confirmed, Confirmation
  <2>4. ~Reported /\ ~Reported'
    BY Zenon, <2>2, <2>3 DEF Stalled, Reported
  <2>5. InOrder(receive_fifo', taken', Arrived, KReceive)
    BY Zenon, <2>1, Receiving
  <2>6. \A ev : Pending(ev)' <=> Pending(ev)
    BY Zenon, <2>1 DEF Pending
  <2>7. Delivery'
    BY Zenon, <2>1, <2>4, <2>5, <2>6, DeliveryKept
  <2>8. Alternating'
    BY Zenon, <2>1, <2>2, <2>6 DEF Alternating
  <2>. QED BY Zenon, <2>7, <2>8
<1>8. ASSUME NEW a \in BOOLEAN, HostWritesData(a) PROVE Delivery' /\ Alternating'
  <2>. DEFINE n == transfer.req.n
              e == [ev |-> "out0", toggle |-> 1, id |-> n, good |-> transfer.req.good, data |-> Bytes(sent, n, KReceive)]
  <2>1. a
    BY Zenon, <1>8 DEF HostWritesData, WellBehaved
  <2>2. /\ Transact("rx0", e) /\ transfer.phase = "dataOut"
        /\ transfer'.phase = "statusIn" /\ transfer'.req = transfer.req
        /\ sent' = IF transfer.req.good THEN (sent + n) % KReceive ELSE sent
        /\ UNCHANGED <<host_sequence, unacknowledged>>
    <3>1. transfer \in [req : Request(MAX_PACKET_SIZE), phase : Phase, left : 0 .. 2 * MAX_PACKET_SIZE]
      BY Zenon DEF Sized, HostTypes
    <3>. QED BY Zenon, <1>8, <2>1, <3>1 DEF HostWritesData
  <2>3. e.ev = "out0" /\ e.data = Bytes(sent, n, KReceive)
    BY Zenon
  <2>4. n \in Nat
    BY Zenon, Phases, RequestSize
  <2>. HIDE DEF e, n
  <2>5. /\ UNCHANGED <<configuration, data_sequence, receive_fifo, taken>> /\ ~Pending("setup") /\ ~Pending("out0")
        /\ ~Pending("setup")' /\ Pending("out0")' /\ (Pending("out2")' <=> Pending("out2"))
    BY Zenon, <1>1, <2>2, <2>3
  <2>6. ~Reported /\ Reported' /\ unacknowledged = -1 /\ ~Pending("out2")
    BY Zenon, <2>2, <2>5 DEF Reported, Alternating
  <2>7. Settled
    BY Zenon, <2>6 DEF Delivery, Reporting, Unanswered, Pending
  <2>8. /\ KReceive \in Nat \ {0} /\ sent \in Byte(KReceive) /\ InOrder(receive_fifo', taken', Arrived, KReceive)
    BY Zenon, <2>5, Receiving
  <2>9. receive_fifo' = Bytes(taken', Len(receive_fifo'), KReceive') /\ Arrived' = Arrived /\ KReceive' = KReceive
    BY Zenon, <2>8, NowArrived, SameSizes
  <2>10. IF transfer.req.good THEN InOrder(e.data, Arrived, sent', KReceive) ELSE sent' = Arrived
    BY Zenon, <2>2, <2>3, <2>4, <2>7, <2>8, OrderBytes DEF Settled
  <2>11. ASSUME NEW i \in 1 .. Len(stat'), stat'[i].ev = "out0" PROVE stat'[i] = e
    <3>1. /\ i \in 1 .. Len(stat) \/ i = Len(stat) + 1
          /\ \A j \in 1 .. Len(stat) : stat'[j] = stat[j]
          /\ stat'[Len(stat) + 1] = e
      BY Zenon, <2>2, StatAdded
    <3>2. \A j \in 1 .. Len(stat) : stat[j].ev # "out0"
      BY Zenon, <2>5 DEF Pending
    <3>. QED BY ONLY Zenon, <2>11, <3>1, <3>2
  <2>12. Reporting'
    BY Zenon, <2>2, <2>5, <2>6, <2>7, <2>9, <2>10, <2>11 DEF Reporting, Settled
  <2>13. Alternating'
    BY Zenon, <2>2, <2>5, <2>6 DEF Alternating
  <2>. QED BY Zenon, <2>9, <2>12, <2>13 DEF Delivery
<1>9. ASSUME NEW n \in 0 .. MAX_PACKET_SIZE - 1, NEW a \in BOOLEAN, HostWrites(n, a) PROVE Delivery' /\ Alternating'
  <2>. DEFINE t == (sent + n) % KReceive
  <2>0. PICK e : e = [ev |-> "out2", toggle |-> host_sequence, data |-> Bytes(sent, n, KReceive)]
    BY Zenon
  <2>1. /\ Transact("rx2", e) /\ transfer.phase = "none" /\ configuration = 1 /\ unacknowledged \in {-1, n}
        /\ unacknowledged' = IF a THEN -1 ELSE n
        /\ host_sequence' = IF a THEN 1 - host_sequence ELSE host_sequence
        /\ sent' = IF a THEN t ELSE sent
        /\ transfer' = transfer
    BY Zenon, <1>9, <2>0 DEF HostWrites, UsesInterruptEndpoints
  <2>2. e.ev = "out2" /\ e.toggle = host_sequence /\ e.data = Bytes(sent, n, KReceive)
    BY Zenon, <2>0
  <2>3. n \in Nat /\ n # -1
    BY Sizes DEF Sized
  <2>4. /\ UNCHANGED <<configuration, data_sequence, receive_fifo, taken>> /\ ~Pending("setup")' /\ ~Pending("out2")
    BY Zenon, <1>1, <2>1, <2>2
  <2>5. ~Reported /\ ~Reported'
    BY Zenon, <2>1 DEF Reported
  <2>6. /\ KReceive \in Nat \ {0} /\ sent \in Byte(KReceive) /\ InOrder(receive_fifo', taken', Arrived, KReceive)
    BY Zenon, <2>4, Receiving
  <2>7. receive_fifo' = Bytes(taken', Len(receive_fifo'), KReceive') /\ Arrived' = Arrived /\ KReceive' = KReceive
    BY Zenon, <2>6, NowArrived, SameSizes
  <2>8. InOrder(e.data, sent, t, KReceive) /\ Len(e.data) = n
    <3>1. n \in Nat /\ KReceive \in Nat \ {0} /\ sent \in Byte(KReceive)
      BY Zenon, <2>3, <2>6
    <3>2. InOrder(Bytes(sent, n, KReceive), sent, (sent + n) % KReceive, KReceive)
      BY Zenon, <3>1, OrderBytes
    <3>3. Len(Bytes(sent, n, KReceive)) = n
      BY Zenon, <3>1, BytesFIFO
    <3>. QED BY Zenon, <2>2, <3>2, <3>3
  <2>9. Alternating'
    <3>1. configuration' # 0
      BY <2>1, <2>4
    <3>. QED BY Zenon, <2>1, <2>4, <3>1 DEF Alternating
  <2>10. /\ data_sequence[2] \in {0, 1} /\ host_sequence \in {0, 1}
    BY Zenon DEF Sized, DriverTypes, HostTypes
  <2>11. Settled \/ Unanswered
    BY Zenon, <2>4, <2>5 DEF Delivery, Reporting, Pending
  <2>. HIDE DEF t
  <2>12. Arriving(e)'
    <3>1. CASE Settled
      <4>1. unacknowledged = -1 /\ host_sequence = data_sequence[2] /\ sent = Arrived
        BY Zenon, <3>1 DEF Settled
      <4>2. CASE a
        <5>1. /\ e.toggle = data_sequence'[2] /\ unacknowledged' = -1
              /\ host_sequence' = 1 - data_sequence'[2] /\ InOrder(e.data, Arrived', sent', KReceive')
          BY Zenon, <2>1, <2>2, <2>4, <2>7, <2>8, <4>1, <4>2
        <5>. QED BY Zenon, <5>1 DEF Arriving
      <4>3. CASE ~a
        <5>1. /\ e.toggle = data_sequence'[2] /\ unacknowledged' = Len(e.data)
              /\ host_sequence' = data_sequence'[2] /\ sent' = Arrived'
              /\ InOrder(e.data, Arrived', (sent' + unacknowledged') % KReceive', KReceive')
          BY Zenon, <2>1, <2>2, <2>4, <2>7, <2>8, <4>1, <4>3 DEF t
        <5>. QED BY Zenon, <5>1 DEF Arriving
      <4>. QED BY Zenon, <4>2, <4>3
    <3>2. CASE Unanswered
      <4>1. unacknowledged = n /\ host_sequence = 1 - data_sequence[2] /\ Arrived = t
        BY Zenon, <2>1, <3>2 DEF Unanswered, t
      <4>2. host_sequence # data_sequence[2] /\ 1 - host_sequence = data_sequence[2]
        BY <2>10, <4>1
      <4>3. CASE a
        <5>1. /\ e.toggle # data_sequence'[2] /\ unacknowledged' = -1
              /\ host_sequence' = data_sequence'[2] /\ sent' = Arrived'
          BY Zenon, <2>1, <2>2, <2>4, <2>7, <4>1, <4>2, <4>3
        <5>. QED BY Zenon, <5>1 DEF Arriving
      <4>4. CASE ~a
        <5>1. /\ e.toggle # data_sequence'[2] /\ unacknowledged' # -1
              /\ host_sequence' = 1 - data_sequence'[2] /\ Arrived' = (sent' + unacknowledged') % KReceive'
          BY Zenon, <2>1, <2>2, <2>3, <2>4, <2>7, <4>1, <4>2, <4>4 DEF t
        <5>. QED BY Zenon, <5>1 DEF Arriving
      <4>. QED BY Zenon, <4>3, <4>4
    <3>. QED BY Zenon, <2>11, <3>1, <3>2
  <2>13. PICK i \in 1 .. Len(stat') : stat'[i] = e
    <3>1. Len(stat) \in Nat /\ Len(stat') = Len(stat) + 1 /\ stat'[Len(stat) + 1] = e
      BY Zenon, <2>1, StatAdded
    <3>2. Len(stat) + 1 \in 1 .. Len(stat')
      BY <3>1
    <3>. QED BY Zenon, <3>1, <3>2
  <2>14. Arriving(stat[i])' /\ stat'[i].ev = "out2"
    BY Zenon, <2>2, <2>12, <2>13 DEF Arriving
  <2>. QED BY Zenon, <2>5, <2>7, <2>9, <2>14 DEF Delivery
<1>10. ~HostResets
  BY Zenon DEF HostResets, WellBehaved, ConfiguresOnce
<1>. QED BY Zenon, <1>2, <1>3, <1>4, <1>5, <1>6, <1>7, <1>8, <1>9, <1>10 DEF Host, ControlTransactions

LEMMA AlternatingAfterApplication ==
  ASSUME Alternating, Application
  PROVE  Alternating'
<1>1. UNCHANGED <<host_sequence, unacknowledged, transfer, configuration, data_sequence, stat>>
  BY Zenon DEF Application, CallGet, CallPut, circularBufferRead, streamGetOneByte, streamPutOneByte,
     usbFatalError, deviceVars, controlVars, hostVars
<1>. QED BY Zenon, <1>1, AlternatingKept DEF Pending

LEMMA InitStreams == Init => Delivery /\ Alternating /\ Transmission
<1>. SUFFICES ASSUME Init PROVE Delivery /\ Alternating /\ Transmission
  BY Zenon
<1>1. KReceive \in Nat \ {0} /\ KTransmit \in Nat \ {0}
  BY Zenon, InitSized, Sizes DEF Sized
<1>2. ASSUME NEW k \in Nat \ {0} PROVE <<>> = Bytes(0, Len(<<>>), k) /\ 0 = (0 + Len(<<>>)) % k
  <2>1. 0 \in Byte(k)
    BY DEF Byte
  <2>. QED BY Zenon, <2>1, OrderEmpty DEF InOrder
<1>3. \A ev : ~Pending(ev)
  BY DEF Init, Pending
<1>4. /\ receive_fifo = <<>> /\ taken = 0 /\ sent = 0 /\ unacknowledged = -1 /\ host_sequence = 0
      /\ data_sequence[2] = 0 /\ transfer.phase = "none"
      /\ ~do_build_transmit_report /\ uown = {"rx0"} /\ transmit_fifo = <<>> /\ got = 0 /\ put = 0
  BY DEF Init, NoTransfer
<1>5. Delivery
  <2>1. receive_fifo = Bytes(taken, Len(receive_fifo), KReceive) /\ Arrived = 0
    BY Zenon, <1>1, <1>2, <1>4 DEF Arrived
  <2>2. Settled
    BY Zenon, <1>3, <1>4, <2>1 DEF Settled, Reported
  <2>. QED BY Zenon, <2>1, <2>2 DEF Delivery
<1>6. Alternating
  BY Zenon, <1>3, <1>4 DEF Alternating
<1>7. Transmission
  <2>1. Built = <<>> /\ Packet = <<>>
    BY <1>4 DEF Built, Packet, Reading
  <2>2. Underway = <<>>
    BY <1>4, <2>1 DEF Underway
  <2>. QED BY Zenon, <1>1, <1>2, <1>4, <2>2 DEF Transmission, InOrder
<1>. QED BY Zenon, <1>5, <1>6, <1>7

LEMMA NextStreams ==
  ASSUME Sized, Sized', WellBehaved, ~Simultaneous, Fresh, ~fatal', InStep, InStep',
         Delivery, Alternating, Transmission, [Next]_<<env, vars>>
  PROVE  Delivery' /\ Alternating' /\ Transmission'
<1>1. CASE Application /\ env' = env
  BY Zenon, <1>1, DeliveryAfterApplication, AlternatingAfterApplication, TransmissionAfterApplication
<1>2. CASE USBHandler /\ env' = env
  BY Zenon, <1>2, ReceivedAfterHandler, TransmissionAfterHandler
<1>3. CASE Host /\ env' = env
  BY Zenon, <1>3, ReceivedAfterHost, TransmissionAfterHost
<1>4. CASE UNCHANGED <<env, vars>>
  <2>1. UNCHANGED <<env, host_sequence, unacknowledged, transfer, configuration, data_sequence, stat, sent,
                    receive_fifo, taken, transmit_fifo, interrupt_packet, got, put, uown, report, do_build_transmit_report>>
    BY Zenon, <1>4 DEF vars, deviceVars, fifos, interruptVars, getReportVars, controlVars, appVars, hostVars
  <2>2. InOrder(receive_fifo', taken', Arrived, KReceive)
    BY Zenon, <2>1, Receiving
  <2>3. Delivery'
    BY Zenon, <2>1, <2>2, DeliveryKept DEF Pending, Reported
  <2>4. Alternating'
    BY Zenon, <2>1, AlternatingKept DEF Pending
  <2>5. Transmission'
    BY Zenon, <2>1, SameTransmission DEF Reading
  <2>. QED BY Zenon, <2>3, <2>4, <2>5
<1>. QED BY Zenon, <1>1, <1>2, <1>3, <1>4 DEF Next

\* streamGetOneByte() returns the bytes that the host sent, and the host reads those that
\* streamPutOneByte() was given, each once and in order, for every size of report, packet and
\* FIFO.  The host may repeat packets of endpoint 2, mix them with "Set Report", and read with
\* "Get Report" what is queued on endpoint 1: it is well-behaved and uses one endpoint at a time.
THEOREM StreamsKeepOrder == Spec => []BytesInOrder
<1>. DEFINE Inv == /\ Sized /\ (ConfiguresOnce => Fresh)
                   /\ WellBehaved => ~fatal /\ InStep
                   /\ WellBehaved /\ ~Simultaneous => Delivery /\ Alternating /\ Transmission
<1>1. Init => Inv
  BY Zenon, InitSized, InitFresh, InitInStep, InitStreams
<1>2. Inv /\ [Next]_<<env, vars>> => Inv'
  <2>. SUFFICES ASSUME Inv, [Next]_<<env, vars>> PROVE Inv'
    BY Zenon
  <2>1. Sized' /\ (ConfiguresOnce => Fresh)'
    BY Zenon, NextSized, NextFresh
  <2>2. env' = env
    BY Zenon DEF Next
  <2>3. (WellBehaved' <=> WellBehaved) /\ (Simultaneous' <=> Simultaneous)
    BY Zenon, <2>2 DEF WellBehaved, ConfiguresOnce, Resets, Requests, Aborts, LosesAcks, MAX_PACKET_SIZE, Simultaneous
  <2>4. ASSUME WellBehaved PROVE Fresh /\ ~fatal' /\ InStep'
    BY Zenon, <2>4, NextInStep DEF WellBehaved
  <2>5. ASSUME WellBehaved, ~Simultaneous PROVE Delivery' /\ Alternating' /\ Transmission'
    BY Zenon, <2>1, <2>4, <2>5, NextStreams
  <2>. QED BY Zenon, <2>1, <2>3, <2>4, <2>5
<1>3. Inv => BytesInOrder
  <2>. SUFFICES ASSUME Inv, WellBehaved, ~Simultaneous PROVE ReceivedInOrder /\ TransmittedInOrder
    BY Zenon DEF BytesInOrder
  <2>1. Delivery /\ Transmission /\ InStep
    BY Zenon
  <2>2. ReceivedInOrder
    <3>1. ASSUME stat = <<>>, unacknowledged = -1 PROVE Arrived = sent
      <4>1. \A ev : ~Pending(ev)
        BY <3>1 DEF Pending
      <4>2. ~Reported
        BY Zenon, <4>1 DEF Reported
      <4>3. Settled
        BY Zenon, <2>1, <3>1, <4>1, <4>2 DEF Delivery, Reporting, Unanswered, Pending
      <4>. QED BY Zenon, <4>3 DEF Settled
    <3>. QED BY Zenon, <2>1, <3>1 DEF ReceivedInOrder, Delivery, Arrived
  <2>3. TransmittedInOrder
    BY Zenon, <2>1 DEF Transmission, InOrder, TransmittedInOrder, Underway, Built, Packet, Reading
  <2>. QED BY Zenon, <2>2, <2>3
<1>. HIDE DEF Inv
<1>. QED BY <1>1, <1>2, <1>3, PTL DEF Spec

=============================================================================
