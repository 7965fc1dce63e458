----------------------------- MODULE MCHidStream -----------------------------
(***************************************************************************)
(* The hosts of HidStream for TLC, with reports of at most two data bytes. *)
(***************************************************************************)
EXTENDS HidStream

\* An environment from what distinguishes it.
Environment(packet, transmit, receive, moduli, ops, requests, host, lossy) ==
    [MAX_PACKET_SIZE |-> packet, TRANSMIT_FIFO_SIZE |-> transmit, RECEIVE_FIFO_SIZE |-> receive,
     KReceive |-> moduli[1], KTransmit |-> moduli[2], AppOps |-> ops, Requests |-> requests,
     Simultaneous |-> "simultaneous" \in host, Aborts |-> "aborts" \in host,
     Resets |-> "resets" \in host,
     LosesAcks |-> lossy]

Configure == [kind |-> "SetConfiguration", n |-> 1]
Unconfigure == [kind |-> "SetConfiguration", n |-> 0]
Unsupported == [kind |-> "Unsupported", n |-> 0]
SetReport(n) == [kind |-> "SetReport", n |-> n, good |-> TRUE]
BadReport == [kind |-> "SetReport", n |-> 1, good |-> FALSE]
GetReport(n) == [kind |-> "GetReport", n |-> n]
GetDescriptor(n, exact) == [kind |-> "GetDescriptor", n |-> n, exact |-> exact]

\* A host that only sends, and repeats what it takes to be lost.
ReceiveHost ==
    Environment(3, 2, 8, <<9, 1>>, {"get"},
        {Configure, Unsupported, BadReport, SetReport(0), SetReport(2), GetDescriptor(2, TRUE)},
        {}, {2})

\* A host that only receives.
TransmitHost ==
    Environment(3, 2, 8, <<1, 8>>, {"put"},
        {Configure, GetReport(0), GetReport(1), GetReport(2),
         GetDescriptor(2, FALSE), GetDescriptor(3, FALSE), GetDescriptor(5, TRUE)}, {}, {})

\* A host that does anything.
AnyHost ==
    Environment(2, 1, 5, <<1, 1>>, {"get", "put"},
        {Configure, Unconfigure, SetReport(1), GetReport(1)},
        {"simultaneous", "aborts", "resets"}, {0, 2})

\* A host that carries its transfers through, at all endpoints at once.
LiveHost ==
    Environment(2, 2, 6, <<1, 1>>, {"get", "put"},
        {Configure, SetReport(1), GetReport(1)}, {"simultaneous"}, {})

\* A host that does all that the driver allows for, at all endpoints at once.
BusyHost ==
    Environment(2, 1, 5, <<1, 1>>, {"get", "put"},
        {Configure, Unsupported, BadReport, SetReport(1), GetReport(1),
         GetDescriptor(2, FALSE), GetDescriptor(3, TRUE)},
        {"simultaneous"}, {2})

\* A host that abandons transfers.
AbortHost ==
    Environment(3, 2, 8, <<1, 1>>, {"get", "put"},
        {Configure, GetDescriptor(2, FALSE)}, {"simultaneous", "aborts"}, {})

Hosts == {ReceiveHost, TransmitHost, BusyHost, AnyHost}
OnlyLiveHost == {LiveHost}
OnlyAbortHost == {AbortHost}
=============================================================================
