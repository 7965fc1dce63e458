----------------------------- MODULE SerialLink -----------------------------
(***************************************************************************)
(* The host's end of the serial link, as avr/tester/hwb_tester.c runs it,  *)
(* the order of packets that stream_comm.c follows (the host sends a       *)
(* packet, the device answers with one), and what both ports have in       *)
(* common on the device's end.                                             *)
(*                                                                         *)
(* Both ends count the bytes until the next acknowledgement; an            *)
(* acknowledgement is FF followed by the number of bytes that may follow,  *)
(* AckBytes bytes, little-endian (4 in the code).  Bytes are 0 .. FF; the  *)
(* first byte of a packet is FF, so that data looks like an                *)
(* acknowledgement.                                                        *)
(***************************************************************************)
EXTENDS Integers, Sequences

CONSTANTS
    FF, AckBytes,
    DEFAULT_ACKNOWLEDGE_INTERVAL,   \* bytes before the first acknowledgement
    RX_ACKNOWLEDGE_INTERVAL,        \* the interval that the host announces
    MaxPacket                       \* bound on the length of a packet

VARIABLES
    \* the line, and the host
    wire,       \* bytes that the host wrote and the device has not taken
    line,       \* bytes in the device's transmit register
    inbox,      \* bytes that reached the host and that it has not read
    tester,     \* what the host does: pc, index of the next byte, counters
    packet,     \* lengths: of the request, of the reply; bytes got and put
    garbled,    \* a byte was not the one that the other side sent there
    \* the device
    call,       \* the call of the stream that the application is in, and where
    todo,       \* bytes that it still has to write to the transmit buffer
    credit      \* bytes of an acknowledgement read so far

linkVars == <<wire, line, inbox, tester, packet, garbled>>

appVars == <<call, todo, credit>>

Data(i) == (FF + i) % (FF + 1)

(* writeU32LittleEndian() and readU32LittleEndian(), AckBytes bytes wide. *)
Word(v) == [k \in 1..AckBytes |-> (v \div (FF + 1)^(k - 1)) % (FF + 1)]

Number(bytes) ==
    LET from[k \in 1..(Len(bytes) + 1)] ==
          IF k > Len(bytes) THEN 0 ELSE bytes[k] + (FF + 1) * from[k + 1]
    IN  from[1]

Acknowledgement(v) == <<FF>> \o Word(v)

LinkInit ==
    /\ wire = <<>> /\ line = <<>> /\ inbox = <<>>
    /\ tester = [pc |-> "idle", i |-> 0,
               tx_bytes_to_ack |-> DEFAULT_ACKNOWLEDGE_INTERVAL,
               rx_bytes_to_ack |-> DEFAULT_ACKNOWLEDGE_INTERVAL]
    /\ packet = [request |-> 0, got |-> 0, reply |-> 0, put |-> 0]
    /\ garbled = FALSE
    /\ call = "idle" /\ todo = <<>> /\ credit = <<>>

(* main(): a new packet is sent once the last one was answered. *)
HostStart ==
    /\ tester.pc = "idle"
    /\ \E n \in 1..MaxPacket :
          packet' = [request |-> n, got |-> 0, reply |-> 0, put |-> 0]
    /\ tester' = [tester EXCEPT !.pc = "send", !.i = 0]
    /\ UNCHANGED <<wire, line, inbox, garbled>>

(* The loop of main() around sendByte(), and receivePacket() after it. *)
AfterSend(i) == IF i = packet.request THEN "receive" ELSE "send"

(* sendByte(): the byte, then a wait for the acknowledgement if it is due. *)
SendByte ==
    /\ tester.pc = "send"
    /\ wire' = Append(wire, Data(tester.i))
    /\ LET left == tester.tx_bytes_to_ack - 1
       IN  tester' = [tester EXCEPT
              !.tx_bytes_to_ack = left,
              !.i = IF left > 0 /\ AfterSend(tester.i + 1) = "receive" THEN 0 ELSE tester.i + 1,
              !.pc = IF left = 0 THEN "acknowledge" ELSE AfterSend(tester.i + 1)]
    /\ UNCHANGED <<line, inbox, packet, garbled>>

ReadAcknowledgement ==
    /\ tester.pc = "acknowledge" /\ Len(inbox) >= 1 + AckBytes
    /\ garbled' = (garbled \/ inbox[1] # FF)
    /\ inbox' = SubSeq(inbox, 2 + AckBytes, Len(inbox))
    /\ tester' = [tester EXCEPT
          !.tx_bytes_to_ack = Number(SubSeq(inbox, 2, 1 + AckBytes)),
          !.pc = IF inbox[1] # FF THEN "exit" ELSE AfterSend(tester.i),
          !.i = IF AfterSend(tester.i) = "receive" THEN 0 ELSE tester.i]
    /\ UNCHANGED <<wire, line, packet>>

(* receiveByte(), called by receivePacket() for every byte of the reply. *)
ReceiveByte ==
    /\ tester.pc = "receive" /\ inbox # <<>>
    /\ garbled' = (garbled \/ Head(inbox) # Data(tester.i))
    /\ inbox' = Tail(inbox)
    /\ LET due == tester.rx_bytes_to_ack = 1
           next == IF due THEN RX_ACKNOWLEDGE_INTERVAL ELSE tester.rx_bytes_to_ack - 1
       IN  /\ wire' = IF due THEN wire \o Acknowledgement(next) ELSE wire
           /\ tester' = [tester EXCEPT !.rx_bytes_to_ack = next, !.i = tester.i + 1,
                          !.pc = IF tester.i + 1 = packet.reply THEN "idle" ELSE "receive"]
    /\ UNCHANGED <<line, packet>>

HostStep == SendByte \/ ReadAcknowledgement \/ ReceiveByte

(* The device's processPacket(), as far as the link can see: a byte of the *)
(* request is returned by streamGetOneByte(); after the last one the       *)
(* length of the reply is known.                                           *)
Got(b) ==
    /\ garbled' = (garbled \/ b # Data(packet.got))
    /\ \E n \in 1..MaxPacket :
          packet' = [packet EXCEPT !.got = @ + 1,
                                   !.reply = IF packet.got + 1 = packet.request THEN n ELSE 0]

Replying == packet.put < packet.reply

(* streamGetOneByte() or streamPutOneByte() is called. *)
Begin ==
    /\ call = "idle"
    /\ IF Replying
       THEN /\ call' = "write" /\ todo' = <<Data(packet.put)>>
            /\ packet' = [packet EXCEPT !.put = @ + 1]
       ELSE call' = "read" /\ UNCHANGED <<todo, packet>>
    /\ UNCHANGED <<wire, line, inbox, tester, garbled, credit>>

(* Nothing is on its way: the counters of both ends should agree.          *)
Quiet == wire = <<>> /\ line = <<>> /\ inbox = <<>> /\ tester.pc = "idle" /\ call = "idle"
=============================================================================
