--------------------------- MODULE SerialAvr_proofs ---------------------------
(***************************************************************************)
(* The serial link, which the LPC11Uxx and the AVR share, and the AVR's    *)
(* end of it: each step keeps the bytes of both directions in order, and   *)
(* the counters of both ends in agreement.                                 *)
(*                                                                         *)
(* What is on its way is the concatenation of the buffers it passes, so    *)
(* that handing a byte on leaves it as it is.  "Link" says what it must    *)
(* be; it is shared by both ports and knows only these two sequences, the  *)
(* counters, the packets and the host.                                     *)
(***************************************************************************)
EXTENDS SerialLinks, SequenceTheorems, TLAPS

-----------------------------------------------------------------------------
(* The bytes on their way, and what they should be. *)

\* The intervals that an acknowledgement may announce.
Intervals == {RX_ACKNOWLEDGE_INTERVAL, RECEIVE_BUFFER_SIZE, RX_BUFFER_SIZE}

Octets == (0 .. FF) \cup UNION {{Word(v)[k] : k \in 1 .. AckBytes} : v \in Intervals}

\* Bytes a + 1 to a + n of a packet.
Piece(a, n) == [k \in 1 .. n |-> Data(a + k - 1)]

\* The n bytes of a circular buffer from "start" on.
Window(storage, start, n, size) == [k \in 1 .. n |-> storage[(start + k - 1) % size]]

\* s consists of the bytes e, or of as many if some may have been received wrongly.
Carries(s, e, wrong) == Len(s) = Len(e) /\ (wrong = FALSE => s = e)

Hosts == [pc : {"idle", "send", "acknowledge", "receive"}, i : Nat,
          tx_bytes_to_ack : Nat, rx_bytes_to_ack : Nat \ {0}]

Lengths == [request : Nat, got : Nat, reply : Nat, put : Nat]

\* Bytes of the request that host h has written, and bytes of the reply that it has read.
Written(p, h) == IF h.pc \in {"send", "acknowledge"} THEN h.i ELSE p.request
Heard(h) == IF h.pc \in {"idle", "receive"} THEN h.i ELSE 0

-----------------------------------------------------------------------------
(* The invariant of a link, in terms of the packets p, the host h, the     *)
(* bytes "up" and "down" on their way to and from the device, and the      *)
(* counters of the device.                                                 *)

\* Request and reply: the reply begins when all of the request was read.
Turns(p, h) ==
  /\ p \in Lengths /\ h \in Hosts
  /\ p.got <= Written(p, h) /\ Written(p, h) <= p.request
  /\ Heard(h) <= p.put /\ p.put <= p.reply
  /\ p.reply > 0 <=> p.request > 0 /\ p.got = p.request
  /\ h.pc = "idle" => p.got = p.request /\ h.i = p.reply
  /\ h.pc # "idle" => p.request > 0
  /\ h.pc = "send" => h.i < p.request
  /\ h.pc = "receive" /\ p.reply > 0 => h.i < p.reply
  /\ h.tx_bytes_to_ack = 0 <=> h.pc = "acknowledge"

\* Bytes of the request that the device has not read, and of the reply that the host has not.
Unread(p, h) == Piece(p.got, Written(p, h) - p.got)
Unheard(p, h) == Piece(Heard(h), p.put - Heard(h))

\* To the device: either both ends will next stop at the same byte of the reply, or the
\* device waits for an acknowledgement that is on its way, before any byte of a request.
\* t is what the device may still send.
UpAgreed(p, h, up, t, read, wrong) ==
  /\ h.rx_bytes_to_ack = (p.put - Heard(h)) + t
  /\ read = <<>> /\ Carries(up, Unread(p, h), wrong)

UpAnswered(p, h, up, t, read, wrong) ==
  /\ t = 0 /\ p.put = Heard(h) /\ h.rx_bytes_to_ack = RX_ACKNOWLEDGE_INTERVAL
  /\ Len(read) <= AckBytes
  /\ Carries(read \o up, Acknowledgement(RX_ACKNOWLEDGE_INTERVAL) \o Unread(p, h), wrong)

\* From the device: either both ends will next stop at the same byte of the request, or the
\* host waits for an acknowledgement that is on its way, before any byte of a reply.
\* r is what the device may still receive, and its receive buffer has size bytes.
DownAgreed(p, h, down, r) ==
  r = h.tx_bytes_to_ack + (Written(p, h) - p.got) /\ down = Unheard(p, h)

DownAnswered(p, h, down, r, size) ==
  /\ h.pc = "acknowledge" /\ p.got = h.i /\ r = size
  /\ down = Acknowledgement(size) \o Unheard(p, h)

\* All of it, where only a byte that was received wrongly makes "wrong" TRUE.
Link(p, h, up, down, t, read, wrong, r, size) ==
  /\ up \in Seq(Octets) /\ down \in Seq(Octets) /\ t \in Nat /\ read \in Seq(Octets)
  /\ Turns(p, h)
  /\ UpAgreed(p, h, up, t, read, wrong) \/ UpAnswered(p, h, up, t, read, wrong)
  /\ DownAgreed(p, h, down, r) \/ DownAnswered(p, h, down, r, size)
  /\ r \in 1 .. size

-----------------------------------------------------------------------------
(* The AVR. *)

Rings(size) ==
  [buffer : [0 .. size - 1 -> Octets], start : 0 .. size - 1, end : 0 .. size - 1, full : BOOLEAN]

Count(b, size) ==
  IF b.full THEN size ELSE IF b.end >= b.start THEN b.end - b.start ELSE b.end - b.start + size

IsRing(b, size) == b \in Rings(size) /\ (b.full => b.start = b.end)

Held(b, size) == Window(b.buffer, b.start, Count(b, size), size)

AvrUp == Held(rx, RX_BUFFER_SIZE) \o wire
AvrDown == inbox \o (line \o (Held(tx, TX_BUFFER_SIZE) \o todo))

AvrWriting == call \in {"write", "sending"}

\* What the device may send after the byte that it is sending.
AvrLeft == IF AvrWriting /\ packet.put > 0 THEN tx_acknowledge - 1 ELSE tx_acknowledge

LineTypes ==
  /\ wire \in Seq(Octets) /\ line \in Seq(Octets) /\ inbox \in Seq(Octets)
  /\ todo \in Seq(Octets) /\ credit \in Seq(Octets)

AvrState ==
  /\ IsRing(tx, TX_BUFFER_SIZE) /\ IsRing(rx, RX_BUFFER_SIZE)
  /\ immediate \in BOOLEAN /\ tx_acknowledge \in Nat
  /\ call \in {"idle", "read", "write", "sending", "readCredit", "sanitise"}
  /\ tx_acknowledge = 0 <=> call = "readCredit"
  /\ todo # <<>> <=> AvrWriting
  /\ AvrWriting /\ packet.put > 0 => Len(todo) = 1
  /\ call = "sanitise" => packet.reply > 0 /\ packet.put = 0
  /\ call = "sending" /\ immediate => Empty(tx) /\ line = <<>>

AvrInv ==
  /\ LineTypes /\ AvrState
  /\ Link(packet, tester, AvrUp, AvrDown, AvrLeft, credit, FALSE, rx_acknowledge, RX_BUFFER_SIZE)
  /\ ~garbled /\ ~rx_buffer_overrun

-----------------------------------------------------------------------------
(* Positions in a circular buffer. *)

\* The quotient of a division is unique, so r is the remainder of s * q + r.
LEMMA Remainder ==
  ASSUME NEW s \in Nat \ {0}, NEW q \in Nat, NEW r \in 0 .. s - 1
  PROVE  (s * q + r) % s = r
<1>1. s * q \in Nat
  BY SMT
<1>2. PICK x \in Nat : x = s * q + r
  BY <1>1
<1>3. x % s \in 0 .. s - 1 /\ x = s * (x \div s) + (x % s) /\ x \div s \in Int
  BY <1>2
<1>. DEFINE d == x \div s
            e == x % s
<1>4. s * (d - q) = r - e
  BY <1>2, <1>3
<1>5. d = q
  <2>1. ~(d - q >= 1)
    <3>. SUFFICES ASSUME d - q >= 1 PROVE FALSE
      BY Zenon
    <3>1. s * (d - q) >= s
      BY <1>3, SMT
    <3>. QED BY <3>1, <1>3, <1>4
  <2>2. ~(d - q <= -1)
    <3>. SUFFICES ASSUME d - q <= -1 PROVE FALSE
      BY Zenon
    <3>1. s * (d - q) <= -s
      BY <1>3, SMT
    <3>. QED BY <3>1, <1>3, <1>4
  <2>. QED BY <2>1, <2>2, <1>3
<1>. QED BY <1>2, <1>3, <1>5

\* An index wraps at most once.
LEMMA Wraps ==
  ASSUME NEW s \in Nat \ {0}, NEW x \in 0 .. 2 * s - 1
  PROVE  x % s = IF x < s THEN x ELSE x - s
<1>1. CASE x < s
  <2>1. (s * 0 + x) % s = x
    BY <1>1, Remainder
  <2>2. s * 0 + x = x
    OBVIOUS
  <2>. QED BY Zenon, <1>1, <2>1, <2>2
<1>2. CASE ~(x < s)
  <2>1. (s * 1 + (x - s)) % s = x - s
    BY <1>2, Remainder
  <2>2. s * 1 + (x - s) = x
    OBVIOUS
  <2>. QED BY Zenon, <1>2, <2>1, <2>2
<1>. QED BY Zenon, <1>1, <1>2

-----------------------------------------------------------------------------
(* Windows of a circular buffer. *)

LEMMA WindowBasics ==
  ASSUME NEW s \in Nat \ {0}, NEW b \in [0 .. s - 1 -> Octets], NEW a \in 0 .. s - 1, NEW n \in 0 .. s
  PROVE  /\ Window(b, a, n, s) \in Seq(Octets) /\ Len(Window(b, a, n, s)) = n
         /\ \A k \in 1 .. n : Window(b, a, n, s)[k] = b[(a + k - 1) % s]
<1>1. \A k \in 1 .. n : (a + k - 1) % s \in 0 .. s - 1
  OBVIOUS
<1>2. \A k \in 1 .. n : b[(a + k - 1) % s] \in Octets
  BY Zenon, <1>1
<1>3. n \in Nat
  OBVIOUS
<1>. QED BY <1>1, <1>2, <1>3 DEF Window

LEMMA NoWindow ==
  ASSUME NEW b, NEW a, NEW s
  PROVE  Window(b, a, 0, s) = <<>>
BY DEF Window

LEMMA Cons ==
  ASSUME NEW S, NEW w \in Seq(S), NEW v \in Seq(S), NEW x \in S, Len(w) = Len(v) + 1, w[1] = x,
         \A k \in 1 .. Len(v) : w[k + 1] = v[k]
  PROVE  w = <<x>> \o v
<1>. DEFINE u == <<x>> \o v
<1>1. u \in Seq(S) /\ Len(u) = Len(v) + 1 /\ Len(v) \in Nat
  OBVIOUS
<1>2. ASSUME NEW k \in 1 .. Len(w) PROVE w[k] = u[k]
  <2>1. CASE k = 1
    BY <2>1
  <2>2. CASE k # 1
    <3>1. k - 1 \in 1 .. Len(v) /\ (k - 1) + 1 = k
      BY <1>1, <2>2
    <3>2. w[k] = v[k - 1]
      BY Zenon, <3>1
    <3>3. u[k] = v[k - 1]
      BY <3>1
    <3>. QED BY Zenon, <3>2, <3>3
  <2>. QED BY Zenon, <2>1, <2>2
<1>. HIDE DEF u
<1>3. w = u
  BY <1>1, <1>2, SeqEqual
<1>. QED BY Zenon, <1>3 DEF u

LEMMA Snoc ==
  ASSUME NEW S, NEW w \in Seq(S), NEW v \in Seq(S), NEW x \in S, Len(w) = Len(v) + 1, w[Len(v) + 1] = x,
         \A k \in 1 .. Len(v) : w[k] = v[k]
  PROVE  w = v \o <<x>>
<1>. DEFINE u == v \o <<x>>
<1>1. u \in Seq(S) /\ Len(u) = Len(v) + 1 /\ Len(v) \in Nat
  OBVIOUS
<1>2. ASSUME NEW k \in 1 .. Len(w) PROVE w[k] = u[k]
  <2>1. CASE k = Len(v) + 1
    BY <1>1, <2>1
  <2>2. CASE k # Len(v) + 1
    <3>1. k \in 1 .. Len(v)
      BY <1>1, <2>2
    <3>2. w[k] = v[k]
      BY Zenon, <3>1
    <3>3. u[k] = v[k]
      BY <3>1
    <3>. QED BY Zenon, <3>2, <3>3
  <2>. QED BY Zenon, <2>1, <2>2
<1>. HIDE DEF u
<1>3. w = u
  BY <1>1, <1>2, SeqEqual
<1>. QED BY Zenon, <1>3 DEF u

\* Storage c differs from b at most at position a.
Differs(b, c, a, s) == c \in [0 .. s - 1 -> Octets] /\ \A k \in 0 .. s - 1 : k # a => c[k] = b[k]

LEMMA TakeFromWindow ==
  ASSUME NEW s \in Nat \ {0}, NEW b \in [0 .. s - 1 -> Octets], NEW a \in 0 .. s - 1, NEW n \in 1 .. s,
         NEW c, Differs(b, c, a, s)
  PROVE  Window(b, a, n, s) = <<b[a]>> \o Window(c, (a + 1) % s, n - 1, s)
<1>. DEFINE w == Window(b, a, n, s)
            e == (a + 1) % s
            v == Window(c, e, n - 1, s)
<1>1. e = (IF a + 1 < s THEN a + 1 ELSE 0) /\ e \in 0 .. s - 1
  <2>1. a + 1 \in 0 .. 2 * s - 1
    OBVIOUS
  <2>2. e = (IF a + 1 < s THEN a + 1 ELSE (a + 1) - s)
    BY Zenon, <2>1, Wraps
  <2>. QED BY <2>2
<1>2. c \in [0 .. s - 1 -> Octets] /\ n \in 0 .. s /\ n - 1 \in 0 .. s
  BY DEF Differs
<1>. HIDE DEF e
<1>3. /\ w \in Seq(Octets) /\ Len(w) = n /\ v \in Seq(Octets) /\ Len(v) = n - 1
      /\ \A k \in 1 .. n : w[k] = b[(a + k - 1) % s]
      /\ \A k \in 1 .. n - 1 : v[k] = c[(e + k - 1) % s]
  <2>1. w \in Seq(Octets) /\ Len(w) = n /\ \A k \in 1 .. n : w[k] = b[(a + k - 1) % s]
    BY Zenon, <1>2, WindowBasics
  <2>2. v \in Seq(Octets) /\ Len(v) = n - 1 /\ \A k \in 1 .. n - 1 : v[k] = c[(e + k - 1) % s]
    BY ZenonT(30), <1>1, <1>2, WindowBasics
  <2>. QED BY Zenon, <2>1, <2>2
<1>. HIDE DEF w, v
<1>4. ASSUME NEW k \in 1 .. n - 1 PROVE w[k + 1] = v[k]
  <2>1. e + k - 1 \in 0 .. 2 * s - 1 /\ a + (k + 1) - 1 \in 0 .. 2 * s - 1 /\ k + 1 \in 1 .. n
    BY <1>1
  <2>2. (e + k - 1) % s = (IF e + k - 1 < s THEN e + k - 1 ELSE (e + k - 1) - s)
    BY Zenon, <2>1, Wraps
  <2>3. (a + (k + 1) - 1) % s = (IF a + (k + 1) - 1 < s THEN a + (k + 1) - 1 ELSE (a + (k + 1) - 1) - s)
    BY Zenon, <2>1, Wraps
  <2>4. (e + k - 1) % s = (a + (k + 1) - 1) % s /\ (e + k - 1) % s # a /\ (e + k - 1) % s \in 0 .. s - 1
    BY <1>1, <2>2, <2>3
  <2>5. c[(e + k - 1) % s] = b[(e + k - 1) % s]
    BY Zenon, <2>4 DEF Differs
  <2>. QED BY Zenon, <1>3, <2>1, <2>4, <2>5
<1>5. w[1] = b[a] /\ b[a] \in Octets
  <2>1. a \in 0 .. 2 * s - 1 /\ a + 1 - 1 = a /\ 1 \in 1 .. n /\ a < s
    OBVIOUS
  <2>2. a % s = a
    BY Zenon, <2>1, Wraps
  <2>3. w[1] = b[(a + 1 - 1) % s]
    BY Zenon, <1>3, <2>1
  <2>. QED BY Zenon, <2>1, <2>2, <2>3
<1>6. w = <<b[a]>> \o v
  <2>1. Len(w) = Len(v) + 1 /\ \A k \in 1 .. Len(v) : w[k + 1] = v[k]
    <3>1. Len(w) = n /\ Len(v) = n - 1
      BY Zenon, <1>3
    <3>2. n = (n - 1) + 1
      OBVIOUS
    <3>. QED BY Zenon, <1>4, <3>1, <3>2
  <2>2. w \in Seq(Octets) /\ v \in Seq(Octets)
    BY Zenon, <1>3
  <2>. QED BY SMTT(90), <2>1, <2>2, <1>5, Cons
<1>. QED BY Zenon, <1>6 DEF w, v, e

LEMMA AddToWindow ==
  ASSUME NEW s \in Nat \ {0}, NEW b \in [0 .. s - 1 -> Octets], NEW a \in 0 .. s - 1, NEW n \in 0 .. s - 1,
         NEW c, Differs(b, c, (a + n) % s, s)
  PROVE  Window(c, a, n + 1, s) = Window(b, a, n, s) \o <<c[(a + n) % s]>>
<1>. DEFINE e == (a + n) % s
            d == c[e]
            w == Window(b, a, n, s)
            v == Window(c, a, n + 1, s)
<1>1. e = (IF a + n < s THEN a + n ELSE (a + n) - s) /\ e \in 0 .. s - 1
  <2>1. a + n \in 0 .. 2 * s - 1
    OBVIOUS
  <2>2. e = (IF a + n < s THEN a + n ELSE (a + n) - s)
    BY Zenon, <2>1, Wraps
  <2>. QED BY <2>2
<1>2. c \in [0 .. s - 1 -> Octets] /\ n \in 0 .. s /\ n + 1 \in 0 .. s
  BY DEF Differs
<1>. HIDE DEF e
<1>3. /\ w \in Seq(Octets) /\ Len(w) = n /\ v \in Seq(Octets) /\ Len(v) = n + 1
      /\ \A k \in 1 .. n : w[k] = b[(a + k - 1) % s]
      /\ \A k \in 1 .. n + 1 : v[k] = c[(a + k - 1) % s]
  <2>1. w \in Seq(Octets) /\ Len(w) = n /\ \A k \in 1 .. n : w[k] = b[(a + k - 1) % s]
    BY Zenon, <1>2, WindowBasics
  <2>2. v \in Seq(Octets) /\ Len(v) = n + 1 /\ \A k \in 1 .. n + 1 : v[k] = c[(a + k - 1) % s]
    BY Zenon, <1>2, WindowBasics
  <2>. QED BY Zenon, <2>1, <2>2
<1>. HIDE DEF w, v, d
<1>4. ASSUME NEW k \in 1 .. n PROVE v[k] = w[k]
  <2>1. a + k - 1 \in 0 .. 2 * s - 1 /\ k \in 1 .. n + 1
    OBVIOUS
  <2>2. (a + k - 1) % s = (IF a + k - 1 < s THEN a + k - 1 ELSE (a + k - 1) - s)
    BY Zenon, <2>1, Wraps
  <2>3. (a + k - 1) % s # e /\ (a + k - 1) % s \in 0 .. s - 1
    BY <1>1, <2>2
  <2>4. c[(a + k - 1) % s] = b[(a + k - 1) % s]
    BY Zenon, <2>3 DEF Differs, e
  <2>. QED BY Zenon, <1>3, <2>1, <2>4
<1>5. v[n + 1] = d
  <2>1. a + (n + 1) - 1 = a + n /\ n + 1 \in 1 .. n + 1
    OBVIOUS
  <2>2. c[e] = d
    BY Zenon DEF d
  <2>3. v[n + 1] = c[(a + (n + 1) - 1) % s]
    BY Zenon, <1>3, <2>1
  <2>. QED BY Zenon, <2>1, <2>2, <2>3 DEF e
<1>6. v = w \o <<d>>
  <2>1. Len(v) = Len(w) + 1 /\ v[Len(w) + 1] = d /\ \A k \in 1 .. Len(w) : v[k] = w[k]
    BY Zenon, <1>3, <1>4, <1>5
  <2>2. w \in Seq(Octets) /\ v \in Seq(Octets)
    BY Zenon, <1>3
  <2>3. d \in Octets
    BY Zenon, <1>1, <1>2 DEF d
  <2>. QED BY SMTT(90), <2>1, <2>2, <2>3, Snoc
<1>. QED BY Zenon, <1>6 DEF w, v, d, e

-----------------------------------------------------------------------------
(* The bytes of packets and acknowledgements. *)

LEMMA DataOctets ==
  /\ 0 \in Octets /\ FF \in Octets /\ 0 .. FF \subseteq Octets
  /\ \A i \in Nat : Data(i) \in Octets
<1>1. FF \in Nat \ {0}
  BY Zenon, SerialAssumption
<1>2. 0 \in 0 .. FF /\ FF \in 0 .. FF /\ \A i \in Nat : Data(i) \in 0 .. FF
  BY <1>1 DEF Data
<1>. QED BY Zenon, <1>2 DEF Octets

LEMMA PieceBasics ==
  ASSUME NEW a \in Nat, NEW n \in Nat
  PROVE  /\ Piece(a, n) \in Seq(Octets) /\ Len(Piece(a, n)) = n
         /\ \A k \in 1 .. n : Piece(a, n)[k] = Data(a + k - 1)
<1>1. \A k \in 1 .. n : a + k - 1 \in Nat
  OBVIOUS
<1>2. \A k \in 1 .. n : Data(a + k - 1) \in Octets
  BY Zenon, <1>1, DataOctets
<1>. QED BY <1>2 DEF Piece

LEMMA NoPiece ==
  ASSUME NEW a
  PROVE  Piece(a, 0) = <<>>
BY DEF Piece

LEMMA PieceFirst ==
  ASSUME NEW a \in Nat, NEW n \in Nat \ {0}
  PROVE  Piece(a, n) = <<Data(a)>> \o Piece(a + 1, n - 1)
<1>1. a + 1 \in Nat /\ n - 1 \in Nat /\ n \in Nat /\ 1 \in 1 .. n /\ a + 1 - 1 = a
  OBVIOUS
<1>2. /\ Piece(a, n) \in Seq(Octets) /\ Len(Piece(a, n)) = n
      /\ \A k \in 1 .. n : Piece(a, n)[k] = Data(a + k - 1)
  BY Zenon, <1>1, PieceBasics
<1>3. /\ Piece(a + 1, n - 1) \in Seq(Octets) /\ Len(Piece(a + 1, n - 1)) = n - 1
      /\ \A k \in 1 .. n - 1 : Piece(a + 1, n - 1)[k] = Data((a + 1) + k - 1)
  BY Zenon, <1>1, PieceBasics
<1>4. Data(a) \in Octets /\ Piece(a, n)[1] = Data(a)
  <2>1. Piece(a, n)[1] = Data(a + 1 - 1)
    BY Zenon, <1>1, <1>2
  <2>. QED BY Zenon, <1>1, <2>1, DataOctets
<1>5. \A k \in 1 .. n - 1 : Piece(a, n)[k + 1] = Piece(a + 1, n - 1)[k]
  <2>1. \A k \in 1 .. n - 1 : k + 1 \in 1 .. n /\ a + (k + 1) - 1 = (a + 1) + k - 1
    OBVIOUS
  <2>2. \A k \in 1 .. n - 1 : Piece(a, n)[k + 1] = Data(a + (k + 1) - 1)
    BY Zenon, <1>2, <2>1
  <2>. QED BY Zenon, <1>3, <2>1, <2>2
<1>6. Len(Piece(a, n)) = Len(Piece(a + 1, n - 1)) + 1
  <2>1. n = (n - 1) + 1
    OBVIOUS
  <2>. QED BY Zenon, <1>2, <1>3, <2>1
<1>7. \A k \in 1 .. Len(Piece(a + 1, n - 1)) : Piece(a, n)[k + 1] = Piece(a + 1, n - 1)[k]
  BY Zenon, <1>3, <1>5
<1>8. Piece(a, n) \in Seq(Octets) /\ Piece(a + 1, n - 1) \in Seq(Octets)
  BY Zenon, <1>2, <1>3
<1>. DEFINE w == Piece(a, n)
            v == Piece(a + 1, n - 1)
            x == Data(a)
<1>9. /\ w \in Seq(Octets) /\ v \in Seq(Octets) /\ x \in Octets /\ Len(w) = Len(v) + 1 /\ w[1] = x
      /\ \A k \in 1 .. Len(v) : w[k + 1] = v[k]
  BY Zenon, <1>4, <1>6, <1>7, <1>8
<1>. HIDE DEF w, v, x
<1>10. w = <<x>> \o v
  BY <1>9, Cons
<1>. QED BY Zenon, <1>10 DEF w, v, x

LEMMA PieceLast ==
  ASSUME NEW a \in Nat, NEW n \in Nat
  PROVE  Piece(a, n + 1) = Piece(a, n) \o <<Data(a + n)>>
<1>1. a + n \in Nat /\ n + 1 \in Nat /\ n + 1 \in 1 .. n + 1 /\ a + (n + 1) - 1 = a + n
  OBVIOUS
<1>2. /\ Piece(a, n) \in Seq(Octets) /\ Len(Piece(a, n)) = n
      /\ \A k \in 1 .. n : Piece(a, n)[k] = Data(a + k - 1)
  BY Zenon, PieceBasics
<1>3. /\ Piece(a, n + 1) \in Seq(Octets) /\ Len(Piece(a, n + 1)) = n + 1
      /\ \A k \in 1 .. n + 1 : Piece(a, n + 1)[k] = Data(a + k - 1)
  BY Zenon, <1>1, PieceBasics
<1>4. Data(a + n) \in Octets /\ Piece(a, n + 1)[n + 1] = Data(a + n)
  <2>1. Piece(a, n + 1)[n + 1] = Data(a + (n + 1) - 1)
    BY Zenon, <1>1, <1>3
  <2>. QED BY Zenon, <1>1, <2>1, DataOctets
<1>5. \A k \in 1 .. n : Piece(a, n + 1)[k] = Piece(a, n)[k]
  <2>1. \A k \in 1 .. n : k \in 1 .. n + 1
    OBVIOUS
  <2>. QED BY Zenon, <1>2, <1>3, <2>1
<1>6. /\ Len(Piece(a, n + 1)) = Len(Piece(a, n)) + 1
      /\ Piece(a, n + 1)[Len(Piece(a, n)) + 1] = Data(a + n)
      /\ \A k \in 1 .. Len(Piece(a, n)) : Piece(a, n + 1)[k] = Piece(a, n)[k]
  BY Zenon, <1>2, <1>3, <1>4, <1>5
<1>7. Piece(a, n) \in Seq(Octets) /\ Piece(a, n + 1) \in Seq(Octets)
  BY Zenon, <1>2, <1>3
<1>. QED BY SMTT(20), <1>4, <1>6, <1>7, Snoc

LEMMA AcknowledgementBasics ==
  ASSUME NEW v \in Intervals
  PROVE  /\ v \in Nat \ {0} /\ Number(Word(v)) = v /\ AckBytes \in Nat \ {0}
         /\ Word(v) \in Seq(Octets) /\ Len(Word(v)) = AckBytes
         /\ Acknowledgement(v) = <<FF>> \o Word(v)
         /\ Acknowledgement(v) \in Seq(Octets) /\ Len(Acknowledgement(v)) = 1 + AckBytes
<1>1. v \in Nat \ {0} /\ Number(Word(v)) = v /\ AckBytes \in Nat \ {0}
  BY Zenon, SerialAssumption DEF Intervals
<1>2. \A k \in 1 .. AckBytes : Word(v)[k] \in Octets
  <2>. DEFINE S == {Word(v)[k] : k \in 1 .. AckBytes}
  <2>1. S \in {{Word(w)[k] : k \in 1 .. AckBytes} : w \in Intervals}
    BY Zenon
  <2>2. S \subseteq Octets
    BY Zenon, <2>1 DEF Octets
  <2>3. \A k \in 1 .. AckBytes : Word(v)[k] \in S
    BY Zenon
  <2>. QED BY Zenon, <2>2, <2>3
<1>3. Word(v) \in Seq(Octets) /\ Len(Word(v)) = AckBytes
  <2>1. \A k \in 1 .. AckBytes : (v \div (FF + 1)^(k - 1)) % (FF + 1) \in Octets
    BY Zenon, <1>2 DEF Word
  <2>. DEFINE f(k) == (v \div (FF + 1)^(k - 1)) % (FF + 1)
  <2>2. Word(v) = [k \in 1 .. AckBytes |-> f(k)]
    BY Zenon DEF Word
  <2>. HIDE DEF f
  <2>3. \A k \in 1 .. AckBytes : f(k) \in Octets
    BY Zenon, <2>1 DEF f
  <2>. QED BY <1>1, <2>2, <2>3
<1>4. FF \in Octets
  BY Zenon, DataOctets
<1>5. Acknowledgement(v) = <<FF>> \o Word(v)
  BY Zenon DEF Acknowledgement
<1>6. (<<FF>> \o Word(v)) \in Seq(Octets) /\ Len(<<FF>> \o Word(v)) = 1 + AckBytes
  BY <1>1, <1>3, <1>4
<1>. QED BY Zenon, <1>1, <1>3, <1>5, <1>6

-----------------------------------------------------------------------------
(* Sequences. *)

LEMMA Associative ==
  ASSUME NEW s \in Seq(Octets), NEW t \in Seq(Octets), NEW u \in Seq(Octets)
  PROVE  (s \o t) \o u = s \o (t \o u) /\ s \o (t \o u) \in Seq(Octets) /\ t \o u \in Seq(Octets)
<1>1. t \o u \in Seq(Octets)
  OBVIOUS
<1>2. s \o (t \o u) \in Seq(Octets)
  BY <1>1
<1>. QED BY <1>1, <1>2, ConcatAssociative

LEMMA Plain ==
  ASSUME NEW s \in Seq(Octets), NEW t \in Seq(Octets), NEW x \in Octets
  PROVE  /\ s \o t \in Seq(Octets) /\ Len(s \o t) = Len(s) + Len(t) /\ Len(s) \in Nat
         /\ <<x>> \in Seq(Octets) /\ Len(<<x>>) = 1 /\ <<x>> \o s # <<>> /\ Append(s, x) = s \o <<x>>
         /\ <<>> \in Seq(Octets) /\ s \o <<>> = s /\ <<>> \o s = s
         /\ (Len(s) = 0 <=> s = <<>>)
         /\ (s \o t = <<>> <=> s = <<>> /\ t = <<>>)
OBVIOUS

LEMMA Split ==
  ASSUME NEW s \in Seq(Octets), s # <<>>
  PROVE  /\ s = <<Head(s)>> \o Tail(s) /\ Head(s) \in Octets /\ Tail(s) \in Seq(Octets)
         /\ Len(Tail(s)) = Len(s) - 1
OBVIOUS

LEMMA SameSplit ==
  ASSUME NEW s \in Seq(Octets), NEW t \in Seq(Octets), NEW x \in Octets, NEW y \in Octets,
         <<x>> \o s = <<y>> \o t
  PROVE  x = y /\ s = t
<1>. DEFINE u == <<x>> \o s
            v == <<y>> \o t
<1>1. u[1] = x /\ v[1] = y /\ u = v
  OBVIOUS
<1>2. Len(u) = Len(s) + 1 /\ Len(v) = Len(t) + 1 /\ Len(s) \in Nat /\ Len(t) \in Nat
  OBVIOUS
<1>3. Len(s) = Len(t)
  BY <1>1, <1>2
<1>4. \A i \in 1 .. Len(s) : u[i + 1] = s[i]
  OBVIOUS
<1>5. \A i \in 1 .. Len(t) : v[i + 1] = t[i]
  OBVIOUS
<1>. HIDE DEF u, v
<1>6. \A i \in 1 .. Len(s) : s[i] = t[i]
  BY Zenon, <1>1, <1>3, <1>4, <1>5
<1>. QED BY <1>1, <1>3, <1>6, SeqEqual

\* Of two equal sequences, parts of the same length are equal.
LEMMA SameParts ==
  ASSUME NEW s \in Seq(Octets), NEW t \in Seq(Octets), NEW u \in Seq(Octets), NEW v \in Seq(Octets),
         Len(s) = Len(u), s \o t = u \o v
  PROVE  s = u /\ t = v
<1>. DEFINE a == s \o t
            b == u \o v
<1>1. a = b /\ Len(s) \in Nat /\ Len(t) \in Nat /\ Len(v) \in Nat
  OBVIOUS
<1>2. Len(t) = Len(v)
  <2>1. Len(a) = Len(s) + Len(t)
    BY ConcatProperties
  <2>2. Len(b) = Len(u) + Len(v)
    BY ConcatProperties
  <2>. HIDE DEF a, b
  <2>. QED BY <1>1, <2>1, <2>2
<1>3. (\A i \in 1 .. Len(s) : a[i] = s[i]) /\ (\A i \in 1 .. Len(t) : a[Len(s) + i] = t[i])
  <2>1. \A i \in 1 .. Len(s) + Len(t) : a[i] = IF i <= Len(s) THEN s[i] ELSE t[i - Len(s)]
    BY ConcatProperties
  <2>2. \A i \in 1 .. Len(t) : Len(s) + i \in 1 .. Len(s) + Len(t) /\ ~(Len(s) + i <= Len(s))
        /\ (Len(s) + i) - Len(s) = i
    BY <1>1
  <2>3. \A i \in 1 .. Len(s) : i \in 1 .. Len(s) + Len(t) /\ i <= Len(s)
    BY <1>1
  <2>. HIDE DEF a, b
  <2>4. \A i \in 1 .. Len(s) : a[i] = s[i]
    BY Zenon, <2>1, <2>3
  <2>5. \A i \in 1 .. Len(t) : a[Len(s) + i] = t[i]
    BY Zenon, <2>1, <2>2
  <2>. QED BY Zenon, <2>4, <2>5
<1>4. (\A i \in 1 .. Len(u) : b[i] = u[i]) /\ (\A i \in 1 .. Len(v) : b[Len(u) + i] = v[i])
  <2>1. \A i \in 1 .. Len(u) + Len(v) : b[i] = IF i <= Len(u) THEN u[i] ELSE v[i - Len(u)]
    BY ConcatProperties
  <2>2. \A i \in 1 .. Len(v) : Len(u) + i \in 1 .. Len(u) + Len(v) /\ ~(Len(u) + i <= Len(u))
        /\ (Len(u) + i) - Len(u) = i
    BY <1>1
  <2>3. \A i \in 1 .. Len(u) : i \in 1 .. Len(u) + Len(v) /\ i <= Len(u)
    BY <1>1
  <2>. HIDE DEF a, b
  <2>4. \A i \in 1 .. Len(u) : b[i] = u[i]
    BY Zenon, <2>1, <2>3
  <2>5. \A i \in 1 .. Len(v) : b[Len(u) + i] = v[i]
    BY Zenon, <2>1, <2>2
  <2>. QED BY Zenon, <2>4, <2>5
<1>. HIDE DEF a, b
<1>5. (\A i \in 1 .. Len(s) : s[i] = u[i]) /\ (\A i \in 1 .. Len(t) : t[i] = v[i])
  BY Zenon, <1>1, <1>2, <1>3, <1>4
<1>. QED BY <1>2, <1>5, SeqEqual

LEMMA FrontBack ==
  ASSUME NEW s \in Seq(Octets), NEW n \in Nat \ {0}, Len(s) >= n
  PROVE  /\ SubSeq(s, 1, n) \in Seq(Octets) /\ SubSeq(s, n + 1, Len(s)) \in Seq(Octets)
         /\ Len(SubSeq(s, 1, n)) = n /\ s[1] = SubSeq(s, 1, n)[1]
         /\ Tail(SubSeq(s, 1, n)) = SubSeq(s, 2, n)
         /\ s = SubSeq(s, 1, n) \o SubSeq(s, n + 1, Len(s))
<1>1. Len(s) \in Nat /\ n \in 1 .. Len(s) /\ 1 \in 1 .. Len(s)
  OBVIOUS
<1>2. SubSeq(s, 1, n) \in Seq(Octets) /\ Len(SubSeq(s, 1, n)) = n /\ s[1] = SubSeq(s, 1, n)[1]
  BY <1>1
<1>3. SubSeq(s, n + 1, Len(s)) \in Seq(Octets)
  BY <1>1
<1>4. Tail(SubSeq(s, 1, n)) = SubSeq(s, 2, n)
  <2>1. n \in 1 .. Len(s) /\ 1 + 1 = 2
    BY <1>1
  <2>2. Tail(SubSeq(s, 1, n)) = SubSeq(s, 1 + 1, n)
    BY <1>1, <2>1, HeadTailOfSubSeq
  <2>. QED BY <2>1, <2>2
<1>5. SubSeq(s, 1, n) \o SubSeq(s, n + 1, Len(s)) = SubSeq(s, 1, Len(s))
  <2>1. 1 \in 1 .. Len(s) + 1 /\ n \in 1 - 1 .. Len(s) /\ Len(s) \in n .. Len(s)
    BY <1>1
  <2>. QED BY Zenon, <2>1, ConcatAdjacentSubSeq
<1>6. SubSeq(s, 1, Len(s)) = s
  BY SubSeqFull
<1>. QED BY Zenon, <1>2, <1>3, <1>4, <1>5, <1>6

-----------------------------------------------------------------------------
(* A link, step by step. *)

LEMMA Shifted ==
  \A m, n \in Nat : (m + 1) - n = (m - n) + 1 /\ n + (m - n) = m
OBVIOUS

LEMMA Moved ==
  ASSUME NEW k \in Nat, NEW m \in Nat, NEW n \in Nat
  PROVE  k + (m - n) = (k - 1) + ((m + 1) - n)
OBVIOUS

LEMMA CarryTake ==
  ASSUME NEW x \in Octets, NEW y \in Octets, NEW s \in Seq(Octets), NEW e \in Seq(Octets), NEW wrong,
         Carries(<<x>> \o s, <<y>> \o e, wrong)
  PROVE  Carries(s, e, wrong) /\ (wrong = FALSE => x = y)
<1>1. Len(<<x>> \o s) = 1 + Len(s) /\ Len(<<y>> \o e) = 1 + Len(e) /\ Len(s) \in Nat /\ Len(e) \in Nat
  OBVIOUS
<1>2. Len(<<x>> \o s) = Len(<<y>> \o e) /\ (wrong = FALSE => <<x>> \o s = <<y>> \o e)
  BY Zenon DEF Carries
<1>3. Len(s) = Len(e)
  BY <1>1, <1>2
<1>4. wrong = FALSE => x = y /\ s = e
  BY Zenon, <1>2, SameSplit
<1>. QED BY Zenon, <1>3, <1>4 DEF Carries

LEMMA CarryAdd ==
  ASSUME NEW s \in Seq(Octets), NEW e \in Seq(Octets), NEW f \in Seq(Octets), NEW wrong,
         Carries(s, e, wrong)
  PROVE  Carries(s \o f, e \o f, wrong)
<1>1. Len(s \o f) = Len(s) + Len(f) /\ Len(e \o f) = Len(e) + Len(f)
  OBVIOUS
<1>. QED BY Zenon, <1>1 DEF Carries

LEMMA CarryNone ==
  ASSUME NEW s \in Seq(Octets), NEW wrong
  PROVE  Carries(s, <<>>, wrong) <=> s = <<>>
<1>1. Len(<<>>) = 0 /\ (Len(s) = 0 <=> s = <<>>)
  OBVIOUS
<1>. QED BY Zenon, <1>1 DEF Carries

LEMMA TurnsFacts ==
  ASSUME NEW p, NEW h, Turns(p, h)
  PROVE  /\ p.request \in Nat /\ p.got \in Nat /\ p.reply \in Nat /\ p.put \in Nat
         /\ h.i \in Nat /\ h.tx_bytes_to_ack \in Nat /\ h.rx_bytes_to_ack \in Nat \ {0}
         /\ Written(p, h) \in Nat /\ Heard(h) \in Nat
         /\ Written(p, h) - p.got \in Nat /\ p.put - Heard(h) \in Nat
         /\ Written(p, h) <= p.request
         /\ p.put > 0 => p.reply > 0
         /\ p.reply > 0 => p.got = p.request /\ Written(p, h) = p.got
         /\ p.got < p.request => p.reply = 0 /\ p.put = 0 /\ Heard(h) = 0
<1>1. /\ p.request \in Nat /\ p.got \in Nat /\ p.reply \in Nat /\ p.put \in Nat
      /\ h.i \in Nat /\ h.tx_bytes_to_ack \in Nat /\ h.rx_bytes_to_ack \in Nat \ {0}
  BY Zenon DEF Turns, Lengths, Hosts
<1>2. Written(p, h) \in Nat /\ Heard(h) \in Nat
  BY Zenon, <1>1 DEF Written, Heard
<1>3. /\ p.got <= Written(p, h) /\ Written(p, h) <= p.request
      /\ Heard(h) <= p.put /\ p.put <= p.reply
      /\ (p.reply > 0 <=> p.request > 0 /\ p.got = p.request)
  BY Zenon DEF Turns
<1>. QED BY <1>1, <1>2, <1>3

LEMMA PipeTypes ==
  ASSUME NEW p, NEW h, Turns(p, h)
  PROVE  /\ Unread(p, h) \in Seq(Octets) /\ Len(Unread(p, h)) = Written(p, h) - p.got
         /\ Unheard(p, h) \in Seq(Octets) /\ Len(Unheard(p, h)) = p.put - Heard(h)
         /\ (Written(p, h) = p.got => Unread(p, h) = <<>>)
         /\ (p.put = Heard(h) => Unheard(p, h) = <<>>)
<1>1. /\ p.got \in Nat /\ Written(p, h) - p.got \in Nat /\ Heard(h) \in Nat /\ p.put - Heard(h) \in Nat
      /\ p.put \in Nat /\ Written(p, h) \in Nat
  BY Zenon, TurnsFacts
<1>2. (Written(p, h) = p.got => Written(p, h) - p.got = 0) /\ (p.put = Heard(h) => p.put - Heard(h) = 0)
  BY <1>1
<1>. QED BY Zenon, <1>1, <1>2, PieceBasics, NoPiece DEF Unread, Unheard

\* Nothing is on its way down while the host is idle, and the reply is complete.
LEMMA LinkIdle ==
  ASSUME NEW p, NEW h, NEW up, NEW down, NEW t, NEW read, NEW wrong, NEW r, NEW size,
         Link(p, h, up, down, t, read, wrong, r, size), h.pc = "idle"
  PROVE  /\ p.put = p.reply /\ p.put = Heard(h) /\ h.i = p.put
         /\ Written(p, h) = p.got /\ p.got = p.request
         /\ down = <<>> /\ r = h.tx_bytes_to_ack
         /\ t > 0 => h.rx_bytes_to_ack = t
<1>1. Turns(p, h) /\ t \in Nat
  BY Zenon DEF Link
<1>2. p.got = p.request /\ h.i = p.reply /\ Heard(h) <= p.put /\ p.put <= p.reply /\ "idle" # "acknowledge"
  BY <1>1 DEF Turns
<1>3. Heard(h) = h.i /\ Written(p, h) = p.request
  BY DEF Heard, Written
<1>4. p.put \in Nat /\ p.reply \in Nat /\ h.rx_bytes_to_ack \in Nat /\ h.tx_bytes_to_ack \in Nat /\ p.got \in Nat
  BY Zenon, <1>1, TurnsFacts
<1>5. p.put = p.reply /\ p.put = Heard(h) /\ h.i = p.put
  BY <1>2, <1>3, <1>4
<1>6. DownAgreed(p, h, down, r)
  BY Zenon, <1>2 DEF Link, DownAnswered
<1>7. down = <<>>
  BY Zenon, <1>1, <1>5, <1>6, PipeTypes DEF DownAgreed
<1>8. r = h.tx_bytes_to_ack
  <2>1. r = h.tx_bytes_to_ack + (Written(p, h) - p.got)
    BY Zenon, <1>6 DEF DownAgreed
  <2>. QED BY <1>2, <1>3, <1>4, <2>1
<1>9. t > 0 => h.rx_bytes_to_ack = t
  <2>1. t > 0 => t # 0
    BY <1>1
  <2>2. t > 0 => h.rx_bytes_to_ack = (p.put - Heard(h)) + t
    BY Zenon, <2>1 DEF Link, UpAgreed, UpAnswered
  <2>. QED BY <1>1, <1>4, <1>5, <2>2
<1>. QED BY Zenon, <1>2, <1>3, <1>5, <1>7, <1>8, <1>9

\* The host begins a packet.
Starts(h, q, g) ==
  /\ h.pc = "idle"
  /\ q \in Lengths /\ q.request > 0 /\ q.got = 0 /\ q.reply = 0 /\ q.put = 0
  /\ g \in Hosts /\ g.pc = "send" /\ g.i = 0
  /\ g.tx_bytes_to_ack = h.tx_bytes_to_ack /\ g.rx_bytes_to_ack = h.rx_bytes_to_ack

LEMMA LinkStart ==
  ASSUME NEW p, NEW h, NEW up, NEW down, NEW t, NEW read, NEW wrong, NEW r, NEW size,
         Link(p, h, up, down, t, read, wrong, r, size), NEW q, NEW g, Starts(h, q, g)
  PROVE  Link(q, g, up, down, t, read, wrong, r, size)
<1>1. /\ p.put = Heard(h) /\ Written(p, h) = p.got /\ down = <<>> /\ r = h.tx_bytes_to_ack
      /\ (t > 0 => h.rx_bytes_to_ack = t)
  <2>1. h.pc = "idle"
    BY Zenon DEF Starts
  <2>2. p.put = Heard(h) /\ Written(p, h) = p.got /\ down = <<>> /\ r = h.tx_bytes_to_ack
    BY <2>1, LinkIdle
  <2>3. t > 0 => h.rx_bytes_to_ack = t
    BY Zenon, <2>1, LinkIdle
  <2>. QED BY Zenon, <2>2, <2>3
<1>2. Turns(p, h)
  BY Zenon DEF Link
<1>3. h.tx_bytes_to_ack \in Nat /\ h.rx_bytes_to_ack \in Nat \ {0} /\ h.tx_bytes_to_ack # 0 /\ p.put \in Nat
  <2>1. h.tx_bytes_to_ack # 0
    BY <1>2 DEF Turns, Starts
  <2>. QED BY Zenon, <1>2, <2>1, TurnsFacts
<1>4. Written(q, g) = 0 /\ Heard(g) = 0
  BY DEF Written, Heard, Starts
<1>5. Turns(q, g)
  BY <1>3, <1>4 DEF Turns, Lengths, Starts
<1>6. Unread(q, g) = Unread(p, h) /\ Unheard(q, g) = <<>>
  BY Zenon, <1>1, <1>2, <1>4, <1>5, PipeTypes DEF Starts
<1>7. q.put - Heard(g) = p.put - Heard(h) /\ q.put = Heard(g)
  BY <1>1, <1>3, <1>4 DEF Starts
<1>8. UpAgreed(p, h, up, t, read, wrong) => UpAgreed(q, g, up, t, read, wrong)
  BY Zenon, <1>6, <1>7 DEF UpAgreed, Starts
<1>9. UpAnswered(p, h, up, t, read, wrong) => UpAnswered(q, g, up, t, read, wrong)
  BY Zenon, <1>6, <1>7 DEF UpAnswered, Starts
<1>10. DownAgreed(q, g, down, r)
  <2>1. r = g.tx_bytes_to_ack + (Written(q, g) - q.got)
    BY <1>1, <1>3, <1>4 DEF Starts
  <2>. QED BY Zenon, <1>1, <1>6, <2>1 DEF DownAgreed
<1>. QED BY Zenon, <1>5, <1>8, <1>9, <1>10 DEF Link

\* The host writes a byte of the request.
Writes(p, h, g) ==
  /\ h.pc = "send" /\ g \in Hosts
  /\ g.rx_bytes_to_ack = h.rx_bytes_to_ack /\ g.tx_bytes_to_ack = h.tx_bytes_to_ack - 1
  /\ g.tx_bytes_to_ack = 0 => g.pc = "acknowledge" /\ g.i = h.i + 1
  /\ g.tx_bytes_to_ack # 0 /\ h.i + 1 = p.request => g.pc = "receive" /\ g.i = 0
  /\ g.tx_bytes_to_ack # 0 /\ h.i + 1 # p.request => g.pc = "send" /\ g.i = h.i + 1

LEMMA LinkSend ==
  ASSUME NEW p, NEW h, NEW up, NEW down, NEW t, NEW read, NEW wrong, NEW r, NEW size,
         Link(p, h, up, down, t, read, wrong, r, size), NEW g, Writes(p, h, g)
  PROVE  Link(p, g, up \o <<Data(h.i)>>, down, t, read, wrong, r, size)
<1>1. Turns(p, h) /\ up \in Seq(Octets) /\ read \in Seq(Octets)
  BY Zenon DEF Link
<1>2. /\ p.got \in Nat /\ p.request \in Nat /\ p.put \in Nat /\ p.reply \in Nat
      /\ h.i \in Nat /\ h.tx_bytes_to_ack \in Nat /\ g.tx_bytes_to_ack \in Nat
  BY Zenon, <1>1, TurnsFacts DEF Hosts, Writes
<1>3. /\ Written(p, h) = h.i /\ Heard(h) = 0
  BY DEF Written, Heard, Writes
<1>4. p.got <= h.i /\ h.i < p.request /\ h.i - p.got \in Nat
  BY SMTT(20), <1>1, <1>2, <1>3 DEF Turns, Writes
<1>5. g.pc \in {"acknowledge", "receive", "send"} /\ (g.pc = "receive" => h.i + 1 = p.request)
  BY <1>2 DEF Writes
<1>6. Written(p, g) = h.i + 1 /\ Heard(g) = 0
  BY <1>2, <1>5 DEF Written, Heard, Writes
<1>7. Turns(p, g)
  <2>1. /\ p \in Lengths /\ p.got <= Written(p, g) /\ Written(p, g) <= p.request
        /\ Heard(g) <= p.put /\ p.put <= p.reply
        /\ (p.reply > 0 <=> p.request > 0 /\ p.got = p.request)
    BY SMTT(60), <1>1, <1>2, <1>3, <1>4, <1>6 DEF Turns
  <2>2. /\ g.pc # "idle" /\ p.request > 0
        /\ (g.pc = "send" => g.i < p.request)
        /\ (g.pc = "receive" => g.i = 0)
        /\ (g.tx_bytes_to_ack = 0 <=> g.pc = "acknowledge")
    <3>1. p.request > 0 /\ (h.i + 1 # p.request => h.i + 1 < p.request)
      BY <1>2, <1>4
    <3>2. "idle" # "send" /\ "idle" # "receive" /\ "idle" # "acknowledge" /\ "acknowledge" # "send"
          /\ "acknowledge" # "receive" /\ "send" # "receive"
      OBVIOUS
    <3>. QED BY Zenon, <1>5, <3>1, <3>2 DEF Writes
  <2>. QED BY Zenon, <2>1, <2>2 DEF Turns, Writes
<1>8. Unread(p, g) = Unread(p, h) \o <<Data(h.i)>> /\ Unread(p, h) \in Seq(Octets)
  <2>1. (h.i + 1) - p.got = (h.i - p.got) + 1 /\ p.got + (h.i - p.got) = h.i
    BY Zenon, <1>2, Shifted
  <2>2. Piece(p.got, (h.i - p.got) + 1) = Piece(p.got, h.i - p.got) \o <<Data(p.got + (h.i - p.got))>>
    BY Zenon, <1>2, <1>4, PieceLast
  <2>. QED BY Zenon, <1>1, <1>3, <1>6, <2>1, <2>2, PipeTypes DEF Unread
<1>9. Unheard(p, g) = Unheard(p, h)
  BY Zenon, <1>3, <1>6 DEF Unheard
<1>10. Data(h.i) \in Octets /\ <<Data(h.i)>> \in Seq(Octets)
  <2>1. Data(h.i) \in Octets
    BY Zenon, <1>2, DataOctets
  <2>. QED BY <2>1
<1>11. UpAgreed(p, h, up, t, read, wrong) => UpAgreed(p, g, up \o <<Data(h.i)>>, t, read, wrong)
  BY Zenon, <1>3, <1>6, <1>1, <1>8, <1>10, CarryAdd DEF UpAgreed, Writes
<1>12. ASSUME UpAnswered(p, h, up, t, read, wrong)
       PROVE  UpAnswered(p, g, up \o <<Data(h.i)>>, t, read, wrong)
  <2>. DEFINE ack == Acknowledgement(RX_ACKNOWLEDGE_INTERVAL)
              new == <<Data(h.i)>>
  <2>1. Carries(read \o up, ack \o Unread(p, h), wrong)
    BY Zenon, <1>12 DEF UpAnswered
  <2>2. ack \in Seq(Octets)
    BY Zenon, AcknowledgementBasics DEF Intervals
  <2>. HIDE DEF ack, new
  <2>3. new \in Seq(Octets)
    BY Zenon, <1>10 DEF new
  <2>4. (read \o up) \o new = read \o (up \o new)
    BY Zenon, <1>1, <2>3, Associative
  <2>9. (ack \o Unread(p, h)) \o new = ack \o (Unread(p, h) \o new)
    BY Zenon, <1>8, <2>2, <2>3, Associative
  <2>5. read \o up \in Seq(Octets) /\ ack \o Unread(p, h) \in Seq(Octets)
    BY <1>1, <1>8, <2>2
  <2>6. Carries((read \o up) \o new, (ack \o Unread(p, h)) \o new, wrong)
    BY Zenon, <2>1, <2>3, <2>5, CarryAdd
  <2>7. Carries(read \o (up \o new), ack \o Unread(p, g), wrong)
    BY Zenon, <1>8, <2>4, <2>6, <2>9 DEF new
  <2>8. t = 0 /\ p.put = Heard(g) /\ g.rx_bytes_to_ack = RX_ACKNOWLEDGE_INTERVAL /\ Len(read) <= AckBytes
    BY Zenon, <1>3, <1>6, <1>12 DEF UpAnswered, Writes
  <2>. QED BY Zenon, <2>7, <2>8 DEF UpAnswered, ack, new
<1>13. DownAgreed(p, g, down, r)
  <2>1. "send" # "acknowledge"
    OBVIOUS
  <2>2. DownAgreed(p, h, down, r)
    BY Zenon, <2>1 DEF Link, DownAnswered, Writes
  <2>3. r = h.tx_bytes_to_ack + (h.i - p.got) /\ down = Unheard(p, h)
    BY Zenon, <1>3, <2>2 DEF DownAgreed
  <2>4. r = g.tx_bytes_to_ack + ((h.i + 1) - p.got)
    <3>1. h.tx_bytes_to_ack + (h.i - p.got) = (h.tx_bytes_to_ack - 1) + ((h.i + 1) - p.got)
      BY ZenonT(60), <1>2, Moved
    <3>2. g.tx_bytes_to_ack = h.tx_bytes_to_ack - 1
      BY Zenon DEF Writes
    <3>. QED BY Zenon, <2>3, <3>1, <3>2
  <2>. QED BY Zenon, <1>6, <1>9, <2>3, <2>4 DEF DownAgreed
<1>14. up \o <<Data(h.i)>> \in Seq(Octets)
  BY <1>1, <1>10
<1>. QED BY Zenon, <1>7, <1>11, <1>12, <1>13, <1>14 DEF Link

\* The host reads an acknowledgement: the first bytes on their way down are one.
Acknowledged(p, h, g, v) ==
  /\ h.pc = "acknowledge" /\ g \in Hosts
  /\ g.rx_bytes_to_ack = h.rx_bytes_to_ack /\ g.tx_bytes_to_ack = v
  /\ h.i = p.request => g.pc = "receive" /\ g.i = 0
  /\ h.i # p.request => g.pc = "send" /\ g.i = h.i

LEMMA LinkAwaits ==
  ASSUME NEW p, NEW h, NEW up, NEW down, NEW t, NEW read, NEW wrong, NEW r, NEW size,
         Link(p, h, up, down, t, read, wrong, r, size), h.pc = "acknowledge", down # <<>>
  PROVE  DownAnswered(p, h, down, r, size)
<1>. SUFFICES ASSUME DownAgreed(p, h, down, r) PROVE FALSE
  BY Zenon DEF Link
<1>1. Turns(p, h) /\ r \in 1 .. size
  BY Zenon DEF Link
<1>2. /\ Written(p, h) \in Nat /\ p.got \in Nat /\ p.request \in Nat /\ Written(p, h) <= p.request
      /\ (p.got < p.request => p.put = 0 /\ Heard(h) = 0)
  BY Zenon, <1>1, TurnsFacts
<1>3. h.tx_bytes_to_ack = 0
  BY Zenon, <1>1 DEF Turns
<1>4. r = h.tx_bytes_to_ack + (Written(p, h) - p.got) /\ down = Unheard(p, h)
  BY Zenon DEF DownAgreed
<1>5. p.got < p.request
  BY <1>1, <1>2, <1>3, <1>4
<1>6. Unheard(p, h) = <<>>
  BY Zenon, <1>1, <1>2, <1>5, PipeTypes
<1>. QED BY Zenon, <1>4, <1>6

LEMMA LinkAcknowledge ==
  ASSUME NEW p, NEW h, NEW up, NEW down, NEW t, NEW read, NEW wrong, NEW r, NEW size,
         Link(p, h, up, down, t, read, wrong, r, size), NEW g, Acknowledged(p, h, g, size),
         size \in Nat, down # <<>>
  PROVE  Link(p, g, up, Unheard(p, h), t, read, wrong, r, size)
<1>1. /\ Turns(p, h) /\ r \in 1 .. size /\ t \in Nat
      /\ up \in Seq(Octets) /\ read \in Seq(Octets)
  BY Zenon DEF Link
<1>2. h.pc = "acknowledge" /\ DownAnswered(p, h, down, r, size)
  BY Zenon, LinkAwaits DEF Acknowledged
<1>3. /\ p.got \in Nat /\ p.request \in Nat /\ p.put \in Nat /\ p.reply \in Nat /\ h.i \in Nat
  BY Zenon, <1>1, TurnsFacts
<1>4. Written(p, h) = h.i /\ Heard(h) = 0 /\ p.got = h.i /\ r = size
  BY <1>2 DEF Written, Heard, DownAnswered
<1>5. g.pc \in {"receive", "send"} /\ (g.pc = "receive" => h.i = p.request)
  BY Zenon DEF Acknowledged
<1>6. Written(p, g) = h.i /\ Heard(g) = 0
  BY <1>5 DEF Written, Heard, Acknowledged
<1>7. size # 0
  BY <1>1
<1>8. Turns(p, g)
  <2>1. /\ p \in Lengths /\ p.got <= Written(p, g) /\ Written(p, g) <= p.request
        /\ Heard(g) <= p.put /\ p.put <= p.reply /\ p.request > 0
        /\ (p.reply > 0 <=> p.request > 0 /\ p.got = p.request)
    <3>1. "acknowledge" # "idle"
      OBVIOUS
    <3>. QED BY Zenon, <1>1, <1>2, <1>4, <1>6, <3>1 DEF Turns
  <2>2. /\ g.pc # "idle" /\ (g.pc = "send" => g.i < p.request)
        /\ (g.pc = "receive" => g.i = 0)
        /\ (g.tx_bytes_to_ack = 0 <=> g.pc = "acknowledge")
    <3>1. h.i # p.request => h.i < p.request
      BY <1>3, <1>6, <2>1
    <3>2. "idle" # "send" /\ "idle" # "receive" /\ "acknowledge" # "send" /\ "acknowledge" # "receive"
          /\ "send" # "receive"
      OBVIOUS
    <3>. QED BY Zenon, <1>5, <1>7, <3>1, <3>2 DEF Acknowledged
  <2>3. g.pc = "receive" /\ p.reply > 0 => g.i < p.reply
    BY <2>2
  <2>. QED BY Zenon, <2>1, <2>2, <2>3 DEF Turns, Acknowledged
<1>9. Unread(p, g) = Unread(p, h) /\ Unheard(p, g) = Unheard(p, h)
  BY Zenon, <1>4, <1>6 DEF Unread, Unheard
<1>10. UpAgreed(p, h, up, t, read, wrong) => UpAgreed(p, g, up, t, read, wrong)
  BY Zenon, <1>4, <1>6, <1>9 DEF UpAgreed, Acknowledged
<1>11. UpAnswered(p, h, up, t, read, wrong) => UpAnswered(p, g, up, t, read, wrong)
  BY Zenon, <1>4, <1>6, <1>9 DEF UpAnswered, Acknowledged
<1>12. DownAgreed(p, g, Unheard(p, h), r)
  <2>1. g.tx_bytes_to_ack = size
    BY Zenon DEF Acknowledged
  <2>2. r = size + (h.i - h.i)
    BY <1>3, <1>4
  <2>. QED BY Zenon, <1>4, <1>6, <1>9, <2>1, <2>2 DEF DownAgreed
<1>13. Unheard(p, h) \in Seq(Octets)
  BY Zenon, <1>1, PipeTypes
<1>. QED BY Zenon, <1>1, <1>8, <1>10, <1>11, <1>12, <1>13 DEF Link

\* The host reads a byte of the reply, and may write an acknowledgement.
Reads(p, h, g) ==
  /\ h.pc = "receive" /\ g \in Hosts
  /\ g.i = h.i + 1 /\ g.tx_bytes_to_ack = h.tx_bytes_to_ack
  /\ h.rx_bytes_to_ack = 1 => g.rx_bytes_to_ack = RX_ACKNOWLEDGE_INTERVAL
  /\ h.rx_bytes_to_ack # 1 => g.rx_bytes_to_ack = h.rx_bytes_to_ack - 1
  /\ h.i + 1 = p.reply => g.pc = "idle"
  /\ h.i + 1 # p.reply => g.pc = "receive"

LEMMA LinkHears ==
  ASSUME NEW p, NEW h, NEW up, NEW down, NEW t, NEW read, NEW wrong, NEW r, NEW size,
         Link(p, h, up, down, t, read, wrong, r, size), h.pc = "receive", down # <<>>
  PROVE  /\ UpAgreed(p, h, up, t, read, wrong) /\ DownAgreed(p, h, down, r)
         /\ Heard(h) = h.i /\ p.put - h.i \in Nat \ {0} /\ p.reply > 0
         /\ p.got = p.request /\ Written(p, h) = p.got /\ up = <<>>
         /\ down = <<Data(h.i)>> \o Piece(h.i + 1, (p.put - h.i) - 1)
<1>1. Turns(p, h) /\ up \in Seq(Octets)
  BY Zenon DEF Link
<1>2. Heard(h) = h.i
  BY Zenon DEF Heard
<1>3. /\ p.put \in Nat /\ h.i \in Nat /\ p.reply \in Nat /\ p.put - h.i \in Nat
      /\ (p.put > 0 => p.reply > 0)
      /\ (p.reply > 0 => p.got = p.request /\ Written(p, h) = p.got)
  BY Zenon, <1>1, <1>2, TurnsFacts
<1>4. DownAgreed(p, h, down, r)
  <2>1. "receive" # "acknowledge"
    OBVIOUS
  <2>. QED BY Zenon, <2>1 DEF Link, DownAnswered
<1>5. down = Piece(h.i, p.put - h.i)
  BY Zenon, <1>2, <1>4 DEF DownAgreed, Unheard
<1>6. p.put - h.i # 0
  BY Zenon, <1>5, NoPiece
<1>7. p.put - h.i \in Nat \ {0} /\ p.put > 0 /\ p.put # h.i
  BY <1>3, <1>6
<1>8. down = <<Data(h.i)>> \o Piece(h.i + 1, (p.put - h.i) - 1)
  BY Zenon, <1>3, <1>5, <1>7, PieceFirst
<1>9. UpAgreed(p, h, up, t, read, wrong)
  BY Zenon, <1>2, <1>7 DEF Link, UpAnswered
<1>10. up = <<>>
  <2>1. Unread(p, h) = <<>>
    BY Zenon, <1>1, <1>3, <1>7, PipeTypes
  <2>2. Carries(up, <<>>, wrong)
    BY Zenon, <1>9, <2>1 DEF UpAgreed
  <2>. QED BY Zenon, <1>1, <2>2, CarryNone
<1>. QED BY <1>2, <1>3, <1>4, <1>7, <1>8, <1>9, <1>10

LEMMA LinkRead ==
  ASSUME NEW p, NEW h, NEW up, NEW down, NEW t, NEW read, NEW wrong, NEW r, NEW size,
         Link(p, h, up, down, t, read, wrong, r, size), NEW g, Reads(p, h, g), down # <<>>,
         NEW new, new = (IF h.rx_bytes_to_ack = 1 THEN Acknowledgement(RX_ACKNOWLEDGE_INTERVAL) ELSE <<>>)
  PROVE  Link(p, g, up \o new, Piece(h.i + 1, (p.put - h.i) - 1), t, read, wrong, r, size)
<1>. DEFINE ack == Acknowledgement(RX_ACKNOWLEDGE_INTERVAL)
<1>1. /\ Turns(p, h) /\ r \in 1 .. size /\ t \in Nat
      /\ up \in Seq(Octets) /\ read \in Seq(Octets)
  BY Zenon DEF Link
<1>2. h.pc = "receive"
  BY ZenonT(30) DEF Reads
<1>3. /\ UpAgreed(p, h, up, t, read, wrong) /\ DownAgreed(p, h, down, r)
      /\ Heard(h) = h.i /\ p.put - h.i \in Nat \ {0} /\ p.reply > 0
      /\ p.got = p.request /\ Written(p, h) = p.got /\ up = <<>>
  BY Zenon, <1>2, LinkHears
<1>4. /\ p.got \in Nat /\ p.request \in Nat /\ p.put \in Nat /\ p.reply \in Nat /\ h.i \in Nat
      /\ h.tx_bytes_to_ack \in Nat /\ h.rx_bytes_to_ack \in Nat \ {0}
  BY Zenon, <1>1, TurnsFacts
<1>5. g.pc \in {"receive", "idle"} /\ g.i = h.i + 1
  BY Zenon DEF Reads
<1>6. Written(p, g) = p.got /\ Heard(g) = h.i + 1
  BY <1>3, <1>5 DEF Written, Heard
<1>7. h.i < p.reply /\ p.put <= p.reply /\ p.request > 0 /\ h.tx_bytes_to_ack # 0
  <2>1. "receive" # "acknowledge" /\ "receive" # "idle"
    OBVIOUS
  <2>. QED BY Zenon, <1>1, <1>2, <1>3, <2>1 DEF Turns
<1>8. Turns(p, g)
  <2>1. p.got <= Written(p, g) /\ Written(p, g) <= p.request /\ Heard(g) <= p.put
    BY <1>3, <1>4, <1>6
  <2>2. h.i + 1 # p.reply => h.i + 1 < p.reply
    BY <1>4, <1>7
  <2>3. "receive" # "acknowledge" /\ "receive" # "idle" /\ "idle" # "acknowledge" /\ "receive" # "send"
        /\ "idle" # "send"
    OBVIOUS
  <2>4. p \in Lengths /\ g \in Hosts
    BY Zenon, <1>1 DEF Turns, Reads
  <2>5. /\ (g.pc = "idle" => p.got = p.request /\ g.i = p.reply)
        /\ (g.pc = "receive" => g.i < p.reply)
        /\ (g.tx_bytes_to_ack = 0 <=> g.pc = "acknowledge")
    BY Zenon, <1>3, <1>5, <1>7, <2>2, <2>3 DEF Reads
  <2>. QED BY Zenon, <1>3, <1>5, <1>7, <2>1, <2>3, <2>4, <2>5 DEF Turns
<1>9. Unread(p, g) = <<>> /\ Unheard(p, g) = Piece(h.i + 1, (p.put - h.i) - 1)
  <2>1. p.put - (h.i + 1) = (p.put - h.i) - 1
    BY <1>4
  <2>. QED BY Zenon, <1>6, <1>8, <2>1, PipeTypes DEF Unheard
<1>10. h.rx_bytes_to_ack = (p.put - h.i) + t /\ read = <<>>
  BY Zenon, <1>3 DEF UpAgreed
<1>11. ASSUME h.rx_bytes_to_ack = 1
       PROVE  up \o new \in Seq(Octets) /\ UpAnswered(p, g, up \o new, t, read, wrong)
  <2>1. t = 0 /\ p.put = h.i + 1
    BY SMTT(60), <1>1, <1>3, <1>4, <1>10, <1>11
  <2>2. g.rx_bytes_to_ack = RX_ACKNOWLEDGE_INTERVAL /\ new = ack
    BY Zenon, <1>11 DEF Reads
  <2>3. ack \in Seq(Octets) /\ AckBytes \in Nat \ {0}
    BY Zenon, AcknowledgementBasics DEF Intervals
  <2>. HIDE DEF ack
  <2>4. up \o ack = ack /\ read \o (up \o ack) = ack \o <<>> /\ up \o ack \in Seq(Octets) /\ Len(read) <= AckBytes
    BY <1>3, <1>10, <2>3
  <2>5. Carries(ack \o <<>>, ack \o <<>>, wrong)
    BY Zenon DEF Carries
  <2>6. UpAnswered(p, g, up \o ack, t, read, wrong)
    BY Zenon, <1>6, <1>9, <2>1, <2>2, <2>4, <2>5 DEF UpAnswered, ack
  <2>. QED BY Zenon, <2>2, <2>4, <2>6
<1>12. ASSUME h.rx_bytes_to_ack # 1
       PROVE  up \o new \in Seq(Octets) /\ UpAgreed(p, g, up \o new, t, read, wrong)
  <2>1. g.rx_bytes_to_ack = h.rx_bytes_to_ack - 1 /\ new = <<>>
    BY Zenon, <1>12 DEF Reads
  <2>2. h.rx_bytes_to_ack - 1 = (p.put - (h.i + 1)) + t
    <3>1. PICK a, b, c : a = p.put /\ b = h.i /\ c = h.rx_bytes_to_ack
      BY Zenon
    <3>2. a \in Nat /\ b \in Nat /\ t \in Nat /\ c = (a - b) + t
      BY Zenon, <1>1, <1>4, <1>10, <3>1
    <3>3. c - 1 = (a - (b + 1)) + t
      BY <3>2
    <3>. QED BY Zenon, <3>1, <3>3
  <2>3. up \o new = <<>> /\ up \o new \in Seq(Octets)
    <3>1. <<>> \o <<>> = <<>> /\ <<>> \in Seq(Octets)
      OBVIOUS
    <3>. QED BY Zenon, <1>3, <2>1, <3>1
  <2>4. Carries(up \o new, Unread(p, g), wrong)
    BY Zenon, <1>9, <2>3, CarryNone
  <2>5. UpAgreed(p, g, up \o new, t, read, wrong)
    BY Zenon, <1>6, <1>10, <2>1, <2>2, <2>4 DEF UpAgreed
  <2>. QED BY Zenon, <2>3, <2>5
<1>13. DownAgreed(p, g, Piece(h.i + 1, (p.put - h.i) - 1), r)
  BY Zenon, <1>3, <1>6, <1>9 DEF DownAgreed, Reads
<1>14. Piece(h.i + 1, (p.put - h.i) - 1) \in Seq(Octets)
  BY Zenon, <1>8, <1>9, PipeTypes
<1>. QED BY Zenon, <1>1, <1>8, <1>11, <1>12, <1>13, <1>14 DEF Link

\* The device reads a byte of the request, and may write an acknowledgement.
Gets(p, q) ==
  /\ q \in Lengths /\ q.request = p.request /\ q.got = p.got + 1 /\ q.put = p.put
  /\ q.reply > 0 <=> p.got + 1 = p.request

LEMMA LinkGets ==
  ASSUME NEW p, NEW h, NEW down, NEW t, NEW read, NEW wrong, NEW r, NEW size,
         NEW x \in Octets, NEW rest \in Seq(Octets),
         Link(p, h, <<x>> \o rest, down, t, read, wrong, r, size), t > 0, wrong = FALSE
  PROVE  /\ x = Data(p.got) /\ UpAgreed(p, h, <<x>> \o rest, t, read, wrong)
         /\ rest = Piece(p.got + 1, (Written(p, h) - p.got) - 1)
         /\ Written(p, h) - p.got \in Nat \ {0} /\ p.reply = 0 /\ p.put = 0 /\ Heard(h) = 0
         /\ h.pc # "idle" /\ p.request > 0
         /\ h.rx_bytes_to_ack = t /\ DownAgreed(p, h, down, r) /\ Unheard(p, h) = <<>>
<1>. DEFINE up == <<x>> \o rest
<1>1. Turns(p, h) /\ t \in Nat
  BY Zenon DEF Link
<1>2. /\ p.got \in Nat /\ p.request \in Nat /\ p.put \in Nat /\ p.reply \in Nat /\ h.i \in Nat
      /\ Written(p, h) \in Nat /\ Written(p, h) - p.got \in Nat /\ Written(p, h) <= p.request
      /\ (p.got < p.request => p.reply = 0 /\ p.put = 0 /\ Heard(h) = 0)
      /\ h.rx_bytes_to_ack \in Nat \ {0}
  BY Zenon, <1>1, TurnsFacts
<1>3. UpAgreed(p, h, up, t, read, wrong)
  <2>1. t # 0
    BY <1>1
  <2>. QED BY Zenon, <2>1 DEF Link, UpAnswered
<1>4. /\ h.rx_bytes_to_ack = (p.put - Heard(h)) + t /\ read = <<>>
      /\ up = Piece(p.got, Written(p, h) - p.got)
  BY Zenon, <1>3 DEF UpAgreed, Carries, Unread
<1>5. Written(p, h) - p.got # 0
  <2>1. <<x>> \o rest # <<>>
    OBVIOUS
  <2>. QED BY Zenon, <1>4, <2>1, NoPiece
<1>6. Written(p, h) - p.got \in Nat \ {0} /\ p.got < p.request /\ p.request > 0
      /\ (Written(p, h) - p.got) - 1 \in Nat /\ p.got + 1 \in Nat
  BY SMTT(60), <1>2, <1>5
<1>7. up = <<Data(p.got)>> \o Piece(p.got + 1, (Written(p, h) - p.got) - 1)
  BY Zenon, <1>2, <1>4, <1>6, PieceFirst
<1>8. Data(p.got) \in Octets /\ Piece(p.got + 1, (Written(p, h) - p.got) - 1) \in Seq(Octets)
  BY Zenon, <1>2, <1>6, DataOctets, PieceBasics
<1>9. x = Data(p.got) /\ rest = Piece(p.got + 1, (Written(p, h) - p.got) - 1)
  <2>1. <<x>> \o rest = <<Data(p.got)>> \o Piece(p.got + 1, (Written(p, h) - p.got) - 1)
    BY Zenon, <1>7
  <2>. DEFINE y == Data(p.got)
              s == Piece(p.got + 1, (Written(p, h) - p.got) - 1)
  <2>2. y \in Octets /\ s \in Seq(Octets) /\ <<x>> \o rest = <<y>> \o s
    BY Zenon, <1>8, <2>1
  <2>. HIDE DEF y, s
  <2>3. x = y /\ rest = s
    BY SMTT(60), <2>2, SameSplit
  <2>. QED BY Zenon, <2>3 DEF y, s
<1>10. p.got # p.request /\ h.pc # "idle"
  <2>1. p.got # p.request
    BY <1>2, <1>6
  <2>. QED BY Zenon, <1>1, <2>1 DEF Turns
<1>11. h.rx_bytes_to_ack = t
  BY SMTT(20), <1>1, <1>2, <1>4, <1>6
<1>12. DownAgreed(p, h, down, r)
  <2>1. DownAnswered(p, h, down, r, size) => Written(p, h) = p.got
    BY Zenon DEF DownAnswered, Written
  <2>2. Written(p, h) # p.got
    BY <1>2, <1>5
  <2>. QED BY Zenon, <2>1, <2>2 DEF Link
<1>13. Unheard(p, h) = <<>>
  BY Zenon, <1>1, <1>2, <1>6, PipeTypes
<1>. QED BY Zenon, <1>2, <1>3, <1>6, <1>9, <1>10, <1>11, <1>12, <1>13

LEMMA Counted ==
  ASSUME NEW k \in Nat, NEW m \in Nat, NEW n \in Nat
  PROVE  (k + (m - n)) - 1 = k + (m - (n + 1))
OBVIOUS

LEMMA LinkGet ==
  ASSUME NEW p, NEW h, NEW down, NEW t, NEW read, NEW wrong, NEW r, NEW size,
         NEW x \in Octets, NEW rest \in Seq(Octets),
         Link(p, h, <<x>> \o rest, down, t, read, wrong, r, size), t > 0, wrong = FALSE,
         NEW q, Gets(p, q), size \in Intervals
  PROVE  /\ x = Data(p.got) /\ p.put = 0 /\ p.reply = 0 /\ Len(down) = 0
         /\ r = 1 => Link(q, h, rest, Acknowledgement(size), t, read, wrong, size, size)
         /\ r # 1 => Link(q, h, rest, <<>>, t, read, wrong, r - 1, size)
<1>1. /\ Turns(p, h) /\ r \in 1 .. size /\ t \in Nat /\ read \in Seq(Octets)
  BY Zenon DEF Link
<1>2. /\ x = Data(p.got) /\ read = <<>> /\ rest = Piece(p.got + 1, (Written(p, h) - p.got) - 1)
      /\ Written(p, h) - p.got \in Nat \ {0} /\ p.reply = 0 /\ p.put = 0 /\ Heard(h) = 0
      /\ h.pc # "idle" /\ p.request > 0
      /\ h.rx_bytes_to_ack = t /\ DownAgreed(p, h, down, r) /\ down = <<>>
  <2>1. /\ x = Data(p.got) /\ UpAgreed(p, h, <<x>> \o rest, t, read, wrong)
        /\ rest = Piece(p.got + 1, (Written(p, h) - p.got) - 1)
        /\ Written(p, h) - p.got \in Nat \ {0} /\ p.reply = 0 /\ p.put = 0 /\ Heard(h) = 0
        /\ h.pc # "idle" /\ p.request > 0
        /\ h.rx_bytes_to_ack = t /\ DownAgreed(p, h, down, r) /\ Unheard(p, h) = <<>>
    BY ZenonT(60), LinkGets
  <2>. QED BY Zenon, <2>1 DEF UpAgreed, DownAgreed
<1>3. /\ p.got \in Nat /\ p.request \in Nat /\ h.i \in Nat /\ Written(p, h) \in Nat /\ h.tx_bytes_to_ack \in Nat
      /\ Written(p, h) <= p.request
  BY Zenon, <1>1, TurnsFacts
<1>4. Written(q, h) = Written(p, h) /\ q.got = p.got + 1 /\ q.put = 0 /\ q.request = p.request
  BY Zenon, <1>2 DEF Written, Gets
<1>5. q.reply \in Nat /\ (q.reply > 0 <=> q.got = q.request)
  BY Zenon DEF Gets, Lengths
<1>6. Turns(q, h)
  <2>1. q.got <= Written(q, h) /\ Written(q, h) <= q.request /\ Heard(h) <= q.put /\ q.put <= q.reply
    BY <1>2, <1>3, <1>4, <1>5
  <2>2. h.pc = "receive" => h.i = 0
    BY Zenon, <1>2 DEF Heard
  <2>3. h.pc = "receive" /\ q.reply > 0 => h.i < q.reply
    BY <1>5, <2>2
  <2>4. q \in Lengths /\ h \in Hosts
    BY Zenon, <1>1 DEF Turns, Gets
  <2>5. (h.pc = "send" => h.i < q.request) /\ (h.tx_bytes_to_ack = 0 <=> h.pc = "acknowledge")
    BY Zenon, <1>1, <1>4 DEF Turns
  <2>. QED BY Zenon, <1>2, <1>4, <1>5, <2>1, <2>3, <2>4, <2>5 DEF Turns
<1>7. Unread(q, h) = rest /\ Unheard(q, h) = <<>>
  <2>1. Written(p, h) - (p.got + 1) = (Written(p, h) - p.got) - 1
    BY <1>3
  <2>. QED BY Zenon, <1>2, <1>4, <1>6, <2>1, PipeTypes DEF Unread
<1>8. UpAgreed(q, h, rest, t, read, wrong)
  <2>1. t = (0 - 0) + t
    BY <1>1
  <2>2. Carries(rest, rest, wrong)
    BY Zenon DEF Carries
  <2>. QED BY Zenon, <1>2, <1>4, <1>7, <2>1, <2>2 DEF UpAgreed
<1>9. r = h.tx_bytes_to_ack + (Written(p, h) - p.got)
  BY Zenon, <1>2 DEF DownAgreed
<1>10. size \in Nat \ {0} /\ Acknowledgement(size) \in Seq(Octets)
  BY Zenon, AcknowledgementBasics
<1>11. ASSUME r = 1
       PROVE  Link(q, h, rest, Acknowledgement(size), t, read, wrong, size, size)
  <2>1. h.tx_bytes_to_ack = 0 /\ Written(p, h) = p.got + 1
    <3>1. h.tx_bytes_to_ack + (Written(p, h) - p.got) = 1
      BY Zenon, <1>9, <1>11
    <3>2. PICK k \in Nat, m \in Nat, n \in Nat : k = h.tx_bytes_to_ack /\ m = Written(p, h) /\ n = p.got
      BY Zenon, <1>3
    <3>3. k + (m - n) = 1 /\ m - n \in Nat \ {0}
      BY Zenon, <1>2, <3>1, <3>2
    <3>4. k = 0 /\ m = n + 1
      BY <3>3
    <3>. QED BY Zenon, <3>2, <3>4
  <2>2. h.pc = "acknowledge"
    BY Zenon, <1>1, <2>1 DEF Turns
  <2>3. q.got = h.i
    BY Zenon, <1>4, <2>1, <2>2 DEF Written
  <2>4. Acknowledgement(size) = Acknowledgement(size) \o Unheard(q, h)
    <3>. DEFINE a == Acknowledgement(size)
    <3>. HIDE DEF a
    <3>1. a \in Seq(Octets)
      BY Zenon, <1>10 DEF a
    <3>2. a \o <<>> = a
      BY <3>1
    <3>. QED BY Zenon, <1>7, <3>2 DEF a
  <2>5. DownAnswered(q, h, Acknowledgement(size), size, size)
    BY Zenon, <2>2, <2>3, <2>4 DEF DownAnswered
  <2>6. size \in 1 .. size
    BY <1>10
  <2>. QED BY Zenon, <1>1, <1>6, <1>8, <1>10, <2>5, <2>6 DEF Link
<1>12. ASSUME r # 1
       PROVE  Link(q, h, rest, <<>>, t, read, wrong, r - 1, size)
  <2>1. r - 1 = h.tx_bytes_to_ack + (Written(p, h) - (p.got + 1)) /\ r - 1 \in 1 .. size
    <3>1. r - 1 = h.tx_bytes_to_ack + (Written(p, h) - (p.got + 1))
      BY ZenonT(60), <1>2, <1>3, <1>9, Counted
    <3>2. r - 1 \in 1 .. size
      BY <1>1, <1>10, <1>12
    <3>. QED BY Zenon, <3>1, <3>2
  <2>2. DownAgreed(q, h, <<>>, r - 1)
    BY Zenon, <1>4, <1>7, <2>1 DEF DownAgreed
  <2>3. <<>> \in Seq(Octets)
    OBVIOUS
  <2>. QED BY Zenon, <1>1, <1>6, <1>8, <2>1, <2>2, <2>3 DEF Link
<1>13. Len(<<>>) = 0
  OBVIOUS
<1>. QED BY Zenon, <1>2, <1>11, <1>12, <1>13

\* The device writes a byte of the reply.
Puts(p, q) ==
  /\ p.put < p.reply
  /\ q \in Lengths /\ q.request = p.request /\ q.got = p.got /\ q.reply = p.reply /\ q.put = p.put + 1

LEMMA LinkPut ==
  ASSUME NEW p, NEW h, NEW up, NEW down, NEW t, NEW read, NEW wrong, NEW r, NEW size,
         Link(p, h, up, down, t, read, wrong, r, size), t > 0, NEW q, Puts(p, q), size \in Intervals
  PROVE  Link(q, h, up, down \o <<Data(p.put)>>, t - 1, read, wrong, r, size)
<1>1. /\ Turns(p, h) /\ r \in 1 .. size /\ t \in Nat /\ read \in Seq(Octets)
      /\ up \in Seq(Octets) /\ down \in Seq(Octets)
  BY Zenon DEF Link
<1>2. /\ p.got \in Nat /\ p.request \in Nat /\ p.put \in Nat /\ p.reply \in Nat /\ h.i \in Nat
      /\ Written(p, h) \in Nat /\ Heard(h) \in Nat /\ p.put - Heard(h) \in Nat
  BY Zenon, <1>1, TurnsFacts
<1>3. Written(q, h) = Written(p, h) /\ Unread(q, h) = Unread(p, h)
  BY Zenon DEF Written, Unread, Puts
<1>4. Turns(q, h)
  <2>1. p.put + 1 <= p.reply /\ Heard(h) <= p.put + 1
    BY <1>2 DEF Puts
  <2>. QED BY Zenon, <1>1, <1>3, <2>1 DEF Turns, Puts
<1>5. <<Data(p.put)>> \in Seq(Octets)
  <2>1. Data(p.put) \in Octets
    BY Zenon, <1>2, DataOctets
  <2>. QED BY <2>1
<1>6. Unheard(q, h) = Unheard(p, h) \o <<Data(p.put)>> /\ Unheard(p, h) \in Seq(Octets)
  <2>1. (p.put + 1) - Heard(h) = (p.put - Heard(h)) + 1 /\ Heard(h) + (p.put - Heard(h)) = p.put
    BY Zenon, <1>2, Shifted
  <2>2. Piece(Heard(h), (p.put - Heard(h)) + 1)
          = Piece(Heard(h), p.put - Heard(h)) \o <<Data(Heard(h) + (p.put - Heard(h)))>>
    BY Zenon, <1>2, PieceLast
  <2>. QED BY Zenon, <1>1, <2>1, <2>2, PipeTypes DEF Unheard, Puts
<1>7. UpAgreed(q, h, up, t - 1, read, wrong)
  <2>1. t # 0
    BY <1>1
  <2>2. UpAgreed(p, h, up, t, read, wrong)
    BY Zenon, <2>1 DEF Link, UpAnswered
  <2>3. (p.put - Heard(h)) + t = ((p.put + 1) - Heard(h)) + (t - 1)
    BY SMTT(20), <1>1, <1>2
  <2>. QED BY Zenon, <1>3, <2>2, <2>3 DEF UpAgreed, Puts
<1>8. DownAgreed(p, h, down, r) => DownAgreed(q, h, down \o <<Data(p.put)>>, r)
  BY Zenon, <1>3, <1>6 DEF DownAgreed, Puts
<1>9. ASSUME DownAnswered(p, h, down, r, size)
      PROVE  DownAnswered(q, h, down \o <<Data(p.put)>>, r, size)
  <2>1. Acknowledgement(size) \in Seq(Octets)
    BY Zenon, AcknowledgementBasics
  <2>2. (Acknowledgement(size) \o Unheard(p, h)) \o <<Data(p.put)>>
          = Acknowledgement(size) \o (Unheard(p, h) \o <<Data(p.put)>>)
    BY Zenon, <1>5, <1>6, <2>1, Associative
  <2>. QED BY Zenon, <1>6, <1>9, <2>2 DEF DownAnswered, Puts
<1>10. t - 1 \in Nat /\ down \o <<Data(p.put)>> \in Seq(Octets)
  BY <1>1, <1>5
<1>. QED BY Zenon, <1>1, <1>4, <1>7, <1>8, <1>9, <1>10 DEF Link

\* The device reads a byte of an acknowledgement.
LEMMA LinkCredit ==
  ASSUME NEW p, NEW h, NEW down, NEW read, NEW wrong, NEW r, NEW size,
         NEW x \in Octets, NEW rest \in Seq(Octets),
         Link(p, h, <<x>> \o rest, down, 0, read, wrong, r, size), wrong = FALSE
  PROVE  /\ Len(read) = 0 => x = FF
         /\ Len(read) + 1 = 1 + AckBytes =>
              /\ Number(Tail(read \o <<x>>)) = RX_ACKNOWLEDGE_INTERVAL
              /\ Link(p, h, rest, down, RX_ACKNOWLEDGE_INTERVAL, <<>>, wrong, r, size)
         /\ Len(read) + 1 # 1 + AckBytes =>
              Link(p, h, rest, down, 0, read \o <<x>>, wrong, r, size)
<1>. DEFINE up == <<x>> \o rest
            ack == Acknowledgement(RX_ACKNOWLEDGE_INTERVAL)
            word == Word(RX_ACKNOWLEDGE_INTERVAL)
            u == Unread(p, h)
            new == read \o <<x>>
<1>1. Turns(p, h) /\ read \in Seq(Octets)
  BY Zenon DEF Link
<1>2. /\ p.put \in Nat /\ Heard(h) \in Nat /\ h.rx_bytes_to_ack \in Nat \ {0}
      /\ (p.put > 0 => p.reply > 0) /\ (p.reply > 0 => Written(p, h) = p.got)
  BY Zenon, <1>1, TurnsFacts
<1>3. u \in Seq(Octets) /\ (Written(p, h) = p.got => u = <<>>)
  BY Zenon, <1>1, PipeTypes
<1>4. UpAnswered(p, h, up, 0, read, wrong)
  <2>. SUFFICES ASSUME UpAgreed(p, h, up, 0, read, wrong) PROVE FALSE
    BY Zenon DEF Link
  <2>1. h.rx_bytes_to_ack = (p.put - Heard(h)) + 0 /\ up = u
    BY Zenon DEF UpAgreed, Carries
  <2>2. p.put > 0
    BY <1>2, <2>1
  <2>3. up # <<>>
    OBVIOUS
  <2>. QED BY Zenon, <1>2, <1>3, <2>1, <2>2, <2>3
<1>5. /\ p.put = Heard(h) /\ h.rx_bytes_to_ack = RX_ACKNOWLEDGE_INTERVAL /\ Len(read) <= AckBytes
      /\ read \o (<<x>> \o rest) = ack \o u
  BY Zenon, <1>4 DEF UpAnswered, Carries
<1>6. /\ RX_ACKNOWLEDGE_INTERVAL \in Nat \ {0} /\ Number(word) = RX_ACKNOWLEDGE_INTERVAL
      /\ AckBytes \in Nat \ {0} /\ word \in Seq(Octets) /\ Len(word) = AckBytes
      /\ ack = <<FF>> \o word /\ ack \in Seq(Octets) /\ Len(ack) = 1 + AckBytes
  BY Zenon, AcknowledgementBasics DEF Intervals
<1>7. FF \in Octets
  BY Zenon, DataOctets
<1>8. <<x>> \in Seq(Octets) /\ new \in Seq(Octets) /\ Len(new) = Len(read) + 1 /\ Len(read) \in Nat
  BY <1>1
<1>9. /\ DownAgreed(p, h, down, r) \/ DownAnswered(p, h, down, r, size)
      /\ r \in 1 .. size /\ down \in Seq(Octets)
  BY Zenon DEF Link
<1>10. new \o rest = ack \o u
  BY Zenon, <1>1, <1>5, <1>8, Associative
<1>. HIDE DEF ack, word, u, new
<1>11. ASSUME Len(read) = 0 PROVE x = FF
  <2>1. read = <<>>
    BY <1>1, <1>11
  <2>2. read \o (<<x>> \o rest) = <<x>> \o rest
    BY <2>1
  <2>3. ack \o u = <<FF>> \o (word \o u) /\ word \o u \in Seq(Octets)
    <3>1. <<FF>> \in Seq(Octets)
      BY <1>7
    <3>2. word \in Seq(Octets) /\ u \in Seq(Octets) /\ ack = <<FF>> \o word
      BY Zenon, <1>3, <1>6
    <3>3. (<<FF>> \o word) \o u = <<FF>> \o (word \o u) /\ word \o u \in Seq(Octets)
      BY Zenon, <3>1, <3>2, Associative
    <3>. QED BY Zenon, <3>2, <3>3
  <2>4. PICK w : w = word \o u
    BY Zenon
  <2>5. <<x>> \o rest = <<FF>> \o w /\ w \in Seq(Octets) /\ FF \in Octets
    BY Zenon, <1>5, <1>7, <2>2, <2>3, <2>4
  <2>. QED BY Zenon, <2>5, SameSplit
<1>12. ASSUME Len(read) + 1 = 1 + AckBytes
       PROVE  /\ Number(Tail(new)) = RX_ACKNOWLEDGE_INTERVAL
              /\ Link(p, h, rest, down, RX_ACKNOWLEDGE_INTERVAL, <<>>, wrong, r, size)
  <2>1. new = ack /\ rest = u
    <3>1. Len(new) = Len(ack)
      BY Zenon, <1>6, <1>8, <1>12
    <3>. QED BY Zenon, <1>3, <1>6, <1>8, <1>10, <3>1, SameParts
  <2>2. Tail(new) = word
    <3>1. Tail(<<FF>> \o word) = word
      BY <1>6, <1>7
    <3>. QED BY Zenon, <1>6, <2>1, <3>1
  <2>3. RX_ACKNOWLEDGE_INTERVAL = (p.put - Heard(h)) + RX_ACKNOWLEDGE_INTERVAL
    BY <1>2, <1>5, <1>6
  <2>4. UpAgreed(p, h, rest, RX_ACKNOWLEDGE_INTERVAL, <<>>, wrong)
    BY Zenon, <1>5, <2>1, <2>3 DEF UpAgreed, Carries, u
  <2>5. <<>> \in Seq(Octets) /\ RX_ACKNOWLEDGE_INTERVAL \in Nat
    BY <1>6
  <2>. QED BY Zenon, <1>1, <1>6, <1>9, <2>2, <2>4, <2>5 DEF Link
<1>13. ASSUME Len(read) + 1 # 1 + AckBytes
       PROVE  Link(p, h, rest, down, 0, new, wrong, r, size)
  <2>1. Len(new) <= AckBytes
    BY <1>5, <1>6, <1>8, <1>13
  <2>2. UpAnswered(p, h, rest, 0, new, wrong)
    BY Zenon, <1>5, <1>10, <2>1 DEF UpAnswered, Carries, ack, u
  <2>3. 0 \in Nat
    OBVIOUS
  <2>. QED BY Zenon, <1>1, <1>8, <1>9, <2>2, <2>3 DEF Link
<1>. QED BY Zenon, <1>11, <1>12, <1>13 DEF new

\* The receive buffer is large enough.
LEMMA LinkRoom ==
  ASSUME NEW p, NEW h, NEW up, NEW down, NEW t, NEW read, NEW wrong, NEW r, NEW size,
         Link(p, h, up, down, t, read, wrong, r, size), t > 0 \/ Heard(h) < p.put, size \in Nat
  PROVE  Len(up) <= size
<1>1. Turns(p, h) /\ t \in Nat /\ r \in 1 .. size
  BY Zenon DEF Link
<1>2. /\ p.put \in Nat /\ Heard(h) \in Nat /\ Written(p, h) \in Nat /\ p.got \in Nat
      /\ h.tx_bytes_to_ack \in Nat /\ Written(p, h) - p.got \in Nat
  BY Zenon, <1>1, TurnsFacts
<1>3. UpAgreed(p, h, up, t, read, wrong)
  <2>1. ~(t = 0 /\ p.put = Heard(h))
    BY <1>1, <1>2
  <2>. QED BY Zenon, <2>1 DEF Link, UpAnswered
<1>4. Len(up) = Written(p, h) - p.got
  BY Zenon, <1>1, <1>3, PipeTypes DEF UpAgreed, Carries
<1>5. \/ r = h.tx_bytes_to_ack + (Written(p, h) - p.got)
      \/ Written(p, h) = p.got
  BY Zenon DEF Link, DownAgreed, DownAnswered, Written
<1>. QED BY <1>1, <1>2, <1>4, <1>5

\* The host has not read all of the reply that the device has written.
LEMMA LinkPending ==
  ASSUME NEW p, NEW h, NEW up, NEW down, NEW t, NEW read, NEW wrong, NEW r, NEW size,
         Link(p, h, up, down, t, read, wrong, r, size), p.put > 0, Len(down) # 0
  PROVE  Heard(h) < p.put
<1>1. Turns(p, h)
  BY Zenon DEF Link
<1>2. p.put \in Nat /\ Heard(h) \in Nat /\ p.put - Heard(h) \in Nat
  BY Zenon, <1>1, TurnsFacts
<1>3. CASE DownAgreed(p, h, down, r)
  <2>1. p.put - Heard(h) # 0
    BY Zenon, <1>1, <1>3, PipeTypes DEF DownAgreed
  <2>. QED BY <1>2, <2>1
<1>4. CASE DownAnswered(p, h, down, r, size)
  <2>1. Heard(h) = 0
    BY <1>4 DEF DownAnswered, Heard
  <2>. QED BY <1>2, <2>1
<1>. QED BY Zenon, <1>3, <1>4 DEF Link

\* When a reply is due, nothing is on its way to a device that does not wait for it.
LEMMA LinkReplies ==
  ASSUME NEW p, NEW h, NEW up, NEW down, NEW t, NEW read, NEW wrong, NEW r, NEW size,
         Link(p, h, up, down, t, read, wrong, r, size), t > 0, p.reply > 0
  PROVE  /\ Len(up) = 0
         /\ \A w : Link(p, h, <<>>, down, t, read, w, r, size)
<1>1. /\ Turns(p, h) /\ t \in Nat /\ r \in 1 .. size
      /\ up \in Seq(Octets) /\ down \in Seq(Octets) /\ read \in Seq(Octets)
      /\ DownAgreed(p, h, down, r) \/ DownAnswered(p, h, down, r, size)
  BY Zenon DEF Link
<1>2. Unread(p, h) = <<>>
  BY Zenon, <1>1, TurnsFacts, PipeTypes
<1>3. UpAgreed(p, h, up, t, read, wrong)
  <2>1. t # 0
    BY <1>1
  <2>. QED BY Zenon, <2>1 DEF Link, UpAnswered
<1>4. Len(<<>>) = 0 /\ <<>> \in Seq(Octets)
  OBVIOUS
<1>5. Len(up) = 0
  BY Zenon, <1>2, <1>3, <1>4 DEF UpAgreed, Carries
<1>6. ASSUME NEW w PROVE Link(p, h, <<>>, down, t, read, w, r, size)
  <2>1. UpAgreed(p, h, <<>>, t, read, w)
    BY Zenon, <1>2, <1>3 DEF UpAgreed, Carries
  <2>. QED BY Zenon, <1>1, <1>4, <2>1 DEF Link
<1>. QED BY Zenon, <1>5, <1>6

\* Bytes on their way to the device are received wrongly.
LEMMA LinkErrs ==
  ASSUME NEW p, NEW h, NEW up, NEW down, NEW t, NEW read, NEW wrong, NEW r, NEW size,
         Link(p, h, up, down, t, read, wrong, r, size), NEW other \in Seq(Octets), Len(other) = Len(up)
  PROVE  Link(p, h, other, down, t, read, TRUE, r, size)
<1>1. /\ Turns(p, h) /\ t \in Nat /\ r \in 1 .. size
      /\ up \in Seq(Octets) /\ down \in Seq(Octets) /\ read \in Seq(Octets)
      /\ DownAgreed(p, h, down, r) \/ DownAnswered(p, h, down, r, size)
  BY Zenon DEF Link
<1>2. Len(read \o up) = Len(read \o other)
  BY SMTT(60), <1>1
<1>3. UpAgreed(p, h, up, t, read, wrong) => UpAgreed(p, h, other, t, read, TRUE)
  BY Zenon DEF UpAgreed, Carries
<1>4. UpAnswered(p, h, up, t, read, wrong) => UpAnswered(p, h, other, t, read, TRUE)
  BY Zenon, <1>2 DEF UpAnswered, Carries
<1>. QED BY Zenon, <1>1, <1>3, <1>4 DEF Link

-----------------------------------------------------------------------------
(* The host's steps, on either link. *)

LEMMA HostMoves ==
  ASSUME NEW first, NEW rest, NEW t, NEW read, NEW wrong, NEW r, NEW size,
         Link(packet, tester, first \o wire, inbox \o rest, t, read, wrong, r, size),
         first \in Seq(Octets), rest \in Seq(Octets), LineTypes, ~garbled, size \in Intervals,
         HostStart \/ HostStep
  PROVE  /\ Link(packet', tester', first \o wire', inbox' \o rest, t, read, wrong, r, size)
         /\ wire' \in Seq(Octets) /\ inbox' \in Seq(Octets) /\ line' = line /\ ~garbled'
         /\ packet' = packet \/ tester.pc = "idle"
<1>1. Turns(packet, tester) /\ packet \in Lengths /\ tester \in Hosts
  BY Zenon DEF Link, Turns
<1>2. wire \in Seq(Octets) /\ inbox \in Seq(Octets)
  BY Zenon DEF LineTypes
<1>3. tester.i \in Nat /\ tester.tx_bytes_to_ack \in Nat /\ tester.rx_bytes_to_ack \in Nat \ {0}
  BY Zenon, <1>1, TurnsFacts
<1>4. CASE HostStart
  <2>1. /\ tester.pc = "idle" /\ tester' = [tester EXCEPT !.pc = "send", !.i = 0]
        /\ wire' = wire /\ line' = line /\ inbox' = inbox /\ garbled' = garbled
    BY Zenon, <1>4 DEF HostStart
  <2>2. PICK n \in 1 .. MaxPacket : packet' = [request |-> n, got |-> 0, reply |-> 0, put |-> 0]
    BY Zenon, <1>4 DEF HostStart
  <2>3. /\ packet' \in Lengths /\ packet'.request > 0
        /\ packet'.got = 0 /\ packet'.reply = 0 /\ packet'.put = 0
    BY <2>2 DEF Lengths
  <2>4. /\ tester' \in Hosts /\ tester'.pc = "send" /\ tester'.i = 0
        /\ tester'.tx_bytes_to_ack = tester.tx_bytes_to_ack
        /\ tester'.rx_bytes_to_ack = tester.rx_bytes_to_ack
    BY Zenon, <1>1, <2>1 DEF Hosts
  <2>5. Starts(tester, packet', tester')
    BY Zenon, <2>1, <2>3, <2>4 DEF Starts
  <2>6. Link(packet', tester', first \o wire, inbox \o rest, t, read, wrong, r, size)
    BY Zenon, <2>5, LinkStart
  <2>. QED BY Zenon, <1>2, <2>1, <2>6
<1>5. CASE SendByte
  <2>. DEFINE left == tester.tx_bytes_to_ack - 1
  <2>1. /\ tester.pc = "send" /\ wire' = Append(wire, Data(tester.i))
        /\ line' = line /\ inbox' = inbox /\ garbled' = garbled /\ packet' = packet
        /\ tester' = [tester EXCEPT
              !.tx_bytes_to_ack = left,
              !.i = IF left > 0 /\ AfterSend(tester.i + 1) = "receive" THEN 0 ELSE tester.i + 1,
              !.pc = IF left = 0 THEN "acknowledge" ELSE AfterSend(tester.i + 1)]
    BY Zenon, <1>5 DEF SendByte
  <2>2. tester.tx_bytes_to_ack # 0
    <3>1. "send" # "acknowledge"
      OBVIOUS
    <3>. QED BY Zenon, <1>1, <2>1, <3>1 DEF Turns
  <2>3. left \in Nat /\ (left # 0 => left > 0) /\ (left = 0 => ~(left > 0))
    BY <1>3, <2>2
  <2>4. Writes(packet, tester, tester')
    <3>1. AfterSend(tester.i + 1) \in {"receive", "send"}
      BY Zenon DEF AfterSend
    <3>2. /\ (tester.i + 1 = packet.request => AfterSend(tester.i + 1) = "receive")
          /\ (tester.i + 1 # packet.request => AfterSend(tester.i + 1) = "send")
      BY Zenon DEF AfterSend
    <3>. HIDE DEF left
    <3>3. /\ tester'.rx_bytes_to_ack = tester.rx_bytes_to_ack /\ tester'.tx_bytes_to_ack = left
          /\ tester'.i = (IF left > 0 /\ AfterSend(tester.i + 1) = "receive" THEN 0 ELSE tester.i + 1)
          /\ tester'.pc = (IF left = 0 THEN "acknowledge" ELSE AfterSend(tester.i + 1))
      BY <1>1, <2>1 DEF Hosts
    <3>4. tester' \in Hosts
      <4>1. (IF left > 0 /\ AfterSend(tester.i + 1) = "receive" THEN 0 ELSE tester.i + 1) \in Nat
        BY <1>3
      <4>2. (IF left = 0 THEN "acknowledge" ELSE AfterSend(tester.i + 1)) \in {"idle", "send", "acknowledge", "receive"}
        BY Zenon, <3>1
      <4>. QED BY Zenon, <1>1, <2>1, <2>3, <4>1, <4>2 DEF Hosts
    <3>5. "send" # "receive"
      OBVIOUS
    <3>6. /\ (left = 0 => tester'.pc = "acknowledge" /\ tester'.i = tester.i + 1)
          /\ (left # 0 /\ tester.i + 1 = packet.request => tester'.pc = "receive" /\ tester'.i = 0)
          /\ (left # 0 /\ tester.i + 1 # packet.request => tester'.pc = "send" /\ tester'.i = tester.i + 1)
      BY Zenon, <2>3, <3>2, <3>3, <3>5
    <3>. QED BY Zenon, <2>1, <3>3, <3>4, <3>6 DEF Writes, left
  <2>5. Link(packet, tester', (first \o wire) \o <<Data(tester.i)>>, inbox \o rest, t, read, wrong, r, size)
    BY Zenon, <2>4, LinkSend
  <2>6. Data(tester.i) \in Octets
    BY Zenon, <1>3, DataOctets
  <2>7. wire' = wire \o <<Data(tester.i)>> /\ wire' \in Seq(Octets) /\ <<Data(tester.i)>> \in Seq(Octets)
    BY <1>2, <2>1, <2>6
  <2>8. (first \o wire) \o <<Data(tester.i)>> = first \o wire'
    <3>1. PICK d : d = <<Data(tester.i)>>
      BY Zenon
    <3>2. d \in Seq(Octets) /\ first \in Seq(Octets) /\ wire \in Seq(Octets)
      BY Zenon, <1>2, <2>7, <3>1
    <3>3. (first \o wire) \o d = first \o (wire \o d)
      BY ZenonT(60), <3>2, Associative
    <3>. QED BY Zenon, <2>7, <3>1, <3>3
  <2>. QED BY Zenon, <1>2, <2>1, <2>5, <2>7, <2>8
<1>6. CASE ReadAcknowledgement
  <2>. DEFINE ack == Acknowledgement(size)
              u == Unheard(packet, tester)
              front == SubSeq(inbox, 1, 1 + AckBytes)
              back == SubSeq(inbox, 2 + AckBytes, Len(inbox))
              v == Number(SubSeq(inbox, 2, 1 + AckBytes))
  <2>1. /\ tester.pc = "acknowledge" /\ Len(inbox) >= 1 + AckBytes
        /\ garbled' = (garbled \/ inbox[1] # FF)
        /\ inbox' = back /\ wire' = wire /\ line' = line /\ packet' = packet
        /\ tester' = [tester EXCEPT
              !.tx_bytes_to_ack = v,
              !.pc = IF inbox[1] # FF THEN "exit" ELSE AfterSend(tester.i),
              !.i = IF AfterSend(tester.i) = "receive" THEN 0 ELSE tester.i]
    BY Zenon, <1>6 DEF ReadAcknowledgement
  <2>2. /\ size \in Nat \ {0} /\ Number(Word(size)) = size /\ AckBytes \in Nat \ {0}
        /\ Word(size) \in Seq(Octets) /\ Len(Word(size)) = AckBytes
        /\ ack = <<FF>> \o Word(size) /\ ack \in Seq(Octets) /\ Len(ack) = 1 + AckBytes
    BY Zenon, AcknowledgementBasics
  <2>3. inbox \o rest # <<>>
    <3>1. Len(inbox \o rest) = Len(inbox) + Len(rest) /\ Len(rest) \in Nat /\ Len(inbox) \in Nat /\ Len(<<>>) = 0
      BY <1>2
    <3>2. Len(inbox \o rest) # 0
      BY <2>1, <2>2, <3>1
    <3>. QED BY Zenon, <3>1, <3>2
  <2>4. DownAnswered(packet, tester, inbox \o rest, r, size)
    BY Zenon, <2>1, <2>3, LinkAwaits
  <2>5. inbox \o rest = ack \o u
    BY Zenon, <2>4 DEF DownAnswered
  <2>6. u \in Seq(Octets)
    BY Zenon, <1>1, PipeTypes
  <2>7. /\ front \in Seq(Octets) /\ back \in Seq(Octets) /\ Len(front) = 1 + AckBytes
        /\ inbox = front \o back /\ inbox[1] = front[1] /\ SubSeq(inbox, 2, 1 + AckBytes) = Tail(front)
    <3>1. 1 + AckBytes \in Nat \ {0} /\ (1 + AckBytes) + 1 = 2 + AckBytes
      BY <2>2
    <3>. DEFINE n == 1 + AckBytes
    <3>2. back = SubSeq(inbox, n + 1, Len(inbox)) /\ front = SubSeq(inbox, 1, n)
      BY Zenon, <3>1
    <3>3. n \in Nat \ {0} /\ Len(inbox) >= n
      BY Zenon, <2>1, <3>1
    <3>. HIDE DEF n, back, front
    <3>4. /\ SubSeq(inbox, 1, n) \in Seq(Octets) /\ SubSeq(inbox, n + 1, Len(inbox)) \in Seq(Octets)
          /\ Len(SubSeq(inbox, 1, n)) = n /\ inbox[1] = SubSeq(inbox, 1, n)[1]
          /\ Tail(SubSeq(inbox, 1, n)) = SubSeq(inbox, 2, n)
          /\ inbox = SubSeq(inbox, 1, n) \o SubSeq(inbox, n + 1, Len(inbox))
      BY Zenon, <1>2, <3>3, FrontBack
    <3>5. /\ front \in Seq(Octets) /\ back \in Seq(Octets) /\ Len(front) = n
          /\ inbox[1] = front[1] /\ SubSeq(inbox, 2, n) = Tail(front)
      BY Zenon, <3>2, <3>4
    <3>6. inbox = front \o back
      BY Zenon, <3>2, <3>4
    <3>. QED BY Zenon, <3>5, <3>6 DEF n
  <2>. HIDE DEF ack, u, front, back
  <2>8. front = ack /\ back \o rest = u
    <3>1. front \o (back \o rest) = ack \o u /\ back \o rest \in Seq(Octets)
      <4>3. front \in Seq(Octets) /\ back \in Seq(Octets)
        BY Zenon, <2>7
      <4>1. (front \o back) \o rest = front \o (back \o rest)
        BY ZenonT(60), <4>3, Associative
      <4>2. back \o rest \in Seq(Octets)
        BY Zenon, <4>3, Associative
      <4>. QED BY Zenon, <2>5, <2>7, <4>1, <4>2
    <3>. QED BY Zenon, <2>2, <2>6, <2>7, <3>1, SameParts
  <2>9. inbox[1] = FF /\ v = size
    <3>1. (<<FF>> \o Word(size))[1] = FF /\ Tail(<<FF>> \o Word(size)) = Word(size)
      BY <2>2, DataOctets
    <3>. QED BY Zenon, <2>2, <2>7, <2>8, <3>1
  <2>. HIDE DEF v
  <2>10. Acknowledged(packet, tester, tester', size)
    <3>1. /\ (tester.i = packet.request => AfterSend(tester.i) = "receive")
          /\ (tester.i # packet.request => AfterSend(tester.i) = "send")
      BY Zenon DEF AfterSend
    <3>2. /\ tester'.rx_bytes_to_ack = tester.rx_bytes_to_ack /\ tester'.tx_bytes_to_ack = v
          /\ tester'.i = (IF AfterSend(tester.i) = "receive" THEN 0 ELSE tester.i)
          /\ tester'.pc = (IF inbox[1] # FF THEN "exit" ELSE AfterSend(tester.i))
      BY <1>1, <2>1 DEF Hosts
    <3>3. tester' \in Hosts
      <4>1. (IF AfterSend(tester.i) = "receive" THEN 0 ELSE tester.i) \in Nat
        BY <1>3
      <4>2. (IF inbox[1] # FF THEN "exit" ELSE AfterSend(tester.i)) \in {"idle", "send", "acknowledge", "receive"}
        BY Zenon, <2>9, <3>1
      <4>3. v \in Nat
        BY <2>2, <2>9
      <4>. QED BY Zenon, <1>1, <2>1, <4>1, <4>2, <4>3 DEF Hosts
    <3>4. "send" # "receive"
      OBVIOUS
    <3>. QED BY Zenon, <2>1, <2>9, <3>1, <3>2, <3>3, <3>4 DEF Acknowledged
  <2>11. Link(packet, tester', first \o wire, u, t, read, wrong, r, size)
    <3>1. size \in Nat
      BY <2>2
    <3>. QED BY Zenon, <2>3, <2>10, <3>1, LinkAcknowledge DEF u
  <2>. QED BY Zenon, <1>2, <2>1, <2>7, <2>8, <2>9, <2>11
<1>7. CASE ReceiveByte
  <2>. DEFINE due == tester.rx_bytes_to_ack = 1
              next == IF due THEN RX_ACKNOWLEDGE_INTERVAL ELSE tester.rx_bytes_to_ack - 1
              new == IF due THEN Acknowledgement(RX_ACKNOWLEDGE_INTERVAL) ELSE <<>>
              left == Piece(tester.i + 1, (packet.put - tester.i) - 1)
  <2>1. /\ tester.pc = "receive" /\ inbox # <<>>
        /\ garbled' = (garbled \/ Head(inbox) # Data(tester.i)) /\ inbox' = Tail(inbox)
        /\ wire' = (IF due THEN wire \o Acknowledgement(next) ELSE wire)
        /\ tester' = [tester EXCEPT !.rx_bytes_to_ack = next, !.i = tester.i + 1,
                          !.pc = IF tester.i + 1 = packet.reply THEN "idle" ELSE "receive"]
        /\ line' = line /\ packet' = packet
    BY Zenon, <1>7 DEF ReceiveByte
  <2>2. inbox = <<Head(inbox)>> \o Tail(inbox) /\ Head(inbox) \in Octets /\ Tail(inbox) \in Seq(Octets)
    BY Zenon, <1>2, <2>1, Split
  <2>3. inbox \o rest = <<Head(inbox)>> \o (Tail(inbox) \o rest) /\ Tail(inbox) \o rest \in Seq(Octets)
    <3>1. <<Head(inbox)>> \in Seq(Octets)
      BY <2>2
    <3>2. (<<Head(inbox)>> \o Tail(inbox)) \o rest = <<Head(inbox)>> \o (Tail(inbox) \o rest)
      BY Zenon, <2>2, <3>1, Associative
    <3>3. Tail(inbox) \o rest \in Seq(Octets)
      BY Zenon, <2>2, Associative
    <3>. QED BY Zenon, <2>2, <3>2, <3>3
  <2>4. inbox \o rest # <<>>
    <3>. DEFINE x == Head(inbox)
                s == Tail(inbox) \o rest
    <3>1. x \in Octets /\ s \in Seq(Octets) /\ inbox \o rest = <<x>> \o s
      BY Zenon, <2>2, <2>3
    <3>. HIDE DEF x, s
    <3>2. <<x>> \o s # <<>>
      BY <3>1
    <3>. QED BY Zenon, <3>1, <3>2
  <2>5. /\ inbox \o rest = <<Data(tester.i)>> \o left /\ packet.put - tester.i \in Nat \ {0}
    BY Zenon, <2>1, <2>4, LinkHears
  <2>6. Head(inbox) = Data(tester.i) /\ Tail(inbox) \o rest = left
    <3>1. Data(tester.i) \in Octets
      BY Zenon, <1>3, DataOctets
    <3>2. left \in Seq(Octets)
      <4>1. tester.i + 1 \in Nat /\ (packet.put - tester.i) - 1 \in Nat
        <5>1. PICK k \in Nat \ {0} : k = packet.put - tester.i
          BY Zenon, <2>5
        <5>2. k - 1 \in Nat
          OBVIOUS
        <5>. QED BY <1>3, <5>1, <5>2
      <4>. QED BY Zenon, <4>1, PieceBasics
    <3>. HIDE DEF left
    <3>3. <<Head(inbox)>> \o (Tail(inbox) \o rest) = <<Data(tester.i)>> \o left
      BY Zenon, <2>3, <2>5
    <3>. DEFINE x == Head(inbox)
                s == Tail(inbox) \o rest
                y == Data(tester.i)
    <3>4. x \in Octets /\ s \in Seq(Octets) /\ y \in Octets /\ <<x>> \o s = <<y>> \o left
      BY Zenon, <2>2, <2>3, <3>1, <3>3
    <3>. HIDE DEF x, s, y
    <3>5. x = y /\ s = left
      BY Zenon, <3>2, <3>4, SameSplit
    <3>. QED BY Zenon, <3>5 DEF x, s, y
  <2>7. RX_ACKNOWLEDGE_INTERVAL \in Nat \ {0} /\ Acknowledgement(RX_ACKNOWLEDGE_INTERVAL) \in Seq(Octets)
    BY Zenon, AcknowledgementBasics DEF Intervals
  <2>8. next \in Nat \ {0}
    BY <1>3, <2>7
  <2>9. new \in Seq(Octets) /\ wire' = wire \o new /\ wire' \in Seq(Octets)
    <3>1. wire \o <<>> = wire /\ <<>> \in Seq(Octets)
      BY <1>2
    <3>2. new \in Seq(Octets) /\ wire' = wire \o new
      BY Zenon, <2>1, <2>7, <3>1
    <3>. HIDE DEF new
    <3>. QED BY <1>2, <3>2
  <2>10. Reads(packet, tester, tester')
    <3>. HIDE DEF next
    <3>1. /\ tester'.rx_bytes_to_ack = next /\ tester'.tx_bytes_to_ack = tester.tx_bytes_to_ack
          /\ tester'.i = tester.i + 1
          /\ tester'.pc = (IF tester.i + 1 = packet.reply THEN "idle" ELSE "receive")
      BY <1>1, <2>1 DEF Hosts
    <3>2. tester' \in Hosts
      <4>1. tester.i + 1 \in Nat
        BY <1>3
      <4>. QED BY Zenon, <1>1, <2>1, <2>8, <4>1 DEF Hosts
    <3>. QED BY Zenon, <2>1, <3>1, <3>2 DEF Reads, next
  <2>11. Link(packet, tester', (first \o wire) \o new, left, t, read, wrong, r, size)
    BY Zenon, <2>4, <2>10, LinkRead
  <2>12. (first \o wire) \o new = first \o wire'
    <3>. HIDE DEF new
    <3>1. PICK n : n = new
      BY Zenon
    <3>2. n \in Seq(Octets) /\ wire' = wire \o n
      BY Zenon, <2>9, <3>1
    <3>3. wire \in Seq(Octets)
      BY Zenon, <1>2
    <3>4. (first \o wire) \o n = first \o (wire \o n)
      BY ZenonT(60), <3>2, <3>3, Associative
    <3>. QED BY Zenon, <3>1, <3>2, <3>4
  <2>. QED BY Zenon, <2>1, <2>2, <2>6, <2>9, <2>11, <2>12
<1>. QED BY Zenon, <1>4, <1>5, <1>6, <1>7 DEF HostStep

-----------------------------------------------------------------------------
(* The device's steps that both ports share. *)

LEMMA GotGets ==
  ASSUME NEW b, Got(b), packet \in Lengths
  PROVE  Gets(packet, packet') /\ (~garbled /\ b = Data(packet.got) => ~garbled')
<1>1. PICK n \in 1 .. MaxPacket :
        packet' = [packet EXCEPT !.got = @ + 1, !.reply = IF packet.got + 1 = packet.request THEN n ELSE 0]
  BY Zenon DEF Got
<1>2. packet.got + 1 \in Nat /\ n \in Nat /\ n > 0
  BY DEF Lengths
<1>3. (IF packet.got + 1 = packet.request THEN n ELSE 0) \in Nat
  BY <1>2
<1>4. /\ packet' \in Lengths /\ packet'.request = packet.request /\ packet'.put = packet.put
      /\ packet'.got = packet.got + 1
      /\ packet'.reply = (IF packet.got + 1 = packet.request THEN n ELSE 0)
  BY Zenon, <1>1, <1>2, <1>3 DEF Lengths
<1>5. packet'.reply > 0 <=> packet.got + 1 = packet.request
  BY <1>2, <1>4
<1>6. ~garbled /\ b = Data(packet.got) => ~garbled'
  BY Zenon DEF Got
<1>. QED BY Zenon, <1>4, <1>5, <1>6 DEF Gets

LEMMA BeginPuts ==
  ASSUME packet \in Lengths, Begin, Replying
  PROVE  Puts(packet, packet') /\ packet'.put > 0
<1>1. packet' = [packet EXCEPT !.put = @ + 1] /\ packet.put < packet.reply
  BY Zenon DEF Begin, Replying
<1>2. packet.put + 1 \in Nat /\ packet.put + 1 > 0
  BY DEF Lengths
<1>3. /\ packet' \in Lengths /\ packet'.request = packet.request /\ packet'.put = packet.put + 1
      /\ packet'.got = packet.got /\ packet'.reply = packet.reply
  BY <1>1, <1>2 DEF Lengths
<1>. QED BY Zenon, <1>1, <1>2, <1>3 DEF Puts

\* A byte that is added to the last of several queues is added to all of them.
Queues(a, b, c, x) == a \in Seq(Octets) /\ b \in Seq(Octets) /\ c \in Seq(Octets) /\ x \in Seq(Octets)

LEMMA Rear ==
  ASSUME NEW a, NEW b, NEW c, NEW x, Queues(a, b, c, x)
  PROVE  a \o (b \o (c \o x)) = (a \o (b \o c)) \o x
<1>. USE DEF Queues
<1>1. b \o c \in Seq(Octets)
  OBVIOUS
<1>2. (b \o c) \o x = b \o (c \o x)
  BY Associative
<1>4. (a \o (b \o c)) \o x = a \o ((b \o c) \o x)
  BY SMTT(60), <1>1, Associative
<1>. QED BY Zenon, <1>2, <1>4

LEMMA Nothing ==
  ASSUME NEW a \in Seq(Octets), NEW b \in Seq(Octets), Len(a \o b) = 0
  PROVE  Len(a) = 0 /\ Len(b) = 0
OBVIOUS

LEMMA LinkRests ==
  ASSUME NEW p, NEW h, NEW up, NEW down, NEW t, NEW read, NEW wrong, NEW r, NEW size,
         Link(p, h, up, down, t, read, wrong, r, size), h.pc = "idle"
  PROVE  Len(down) = 0 /\ p.put = p.reply /\ r = h.tx_bytes_to_ack /\ (t > 0 => h.rx_bytes_to_ack = t)
<1>1. down = <<>> /\ p.put = p.reply /\ r = h.tx_bytes_to_ack /\ (t > 0 => h.rx_bytes_to_ack = t)
  BY LinkIdle
<1>2. Len(down) = 0
  BY <1>1
<1>. QED BY Zenon, <1>1, <1>2

\* A byte that moves from one queue to the next one.
LEMMA Forward ==
  ASSUME NEW a \in Seq(Octets), NEW b \in Seq(Octets), NEW x \in Octets
  PROVE  (a \o <<x>>) \o b = a \o (<<x>> \o b)
<1>1. <<x>> \in Seq(Octets)
  OBVIOUS
<1>. QED BY Zenon, <1>1, Associative

-----------------------------------------------------------------------------
(* The ring buffers of the AVR. *)

LEMMA Sizes ==
  /\ TX_BUFFER_SIZE \in Nat \ {0} /\ RX_BUFFER_SIZE \in Nat \ {0}
  /\ TRANSMIT_BUFFER_SIZE \in Nat \ {0} /\ RECEIVE_BUFFER_SIZE \in Nat \ {0}
  /\ RX_BUFFER_SIZE \in Intervals /\ RECEIVE_BUFFER_SIZE \in Intervals
BY Zenon, SerialAssumption DEF Intervals

LEMMA RingBasics ==
  ASSUME NEW size \in Nat \ {0}, NEW b, IsRing(b, size)
  PROVE  /\ b.buffer \in [0 .. size - 1 -> Octets] /\ b.start \in 0 .. size - 1
         /\ b.end \in 0 .. size - 1 /\ b.full \in BOOLEAN
         /\ Count(b, size) \in 0 .. size
         /\ b.end = (b.start + Count(b, size)) % size
         /\ (Empty(b) <=> Count(b, size) = 0) /\ (b.full <=> Count(b, size) = size)
         /\ Held(b, size) \in Seq(Octets) /\ Len(Held(b, size)) = Count(b, size)
<1>1. /\ b.buffer \in [0 .. size - 1 -> Octets] /\ b.start \in 0 .. size - 1
      /\ b.end \in 0 .. size - 1 /\ b.full \in BOOLEAN /\ (b.full => b.start = b.end)
  BY Zenon DEF IsRing, Rings
<1>2. PICK m \in 0 .. size - 1, n \in 0 .. size - 1 : m = b.start /\ n = b.end
  BY Zenon, <1>1
<1>3. ASSUME b.full PROVE /\ b.buffer \in [0 .. size - 1 -> Octets] /\ b.start \in 0 .. size - 1
                     /\ b.end \in 0 .. size - 1 /\ b.full \in BOOLEAN /\ Count(b, size) \in 0 .. size
                     /\ b.end = (b.start + Count(b, size)) % size
                     /\ (Empty(b) <=> Count(b, size) = 0) /\ (b.full <=> Count(b, size) = size)
  <2>1. Count(b, size) = size /\ m = n
    BY Zenon, <1>1, <1>2, <1>3 DEF Count
  <2>2. m + size \in 0 .. 2 * size - 1 /\ ~(m + size < size) /\ (m + size) - size = m /\ size \in 0 .. size /\ size # 0
    OBVIOUS
  <2>3. (m + size) % size = m
    BY Zenon, <2>2, Wraps
  <2>. QED BY Zenon, <1>1, <1>2, <1>3, <2>1, <2>2, <2>3 DEF Empty
<1>4. ASSUME ~b.full PROVE /\ b.buffer \in [0 .. size - 1 -> Octets] /\ b.start \in 0 .. size - 1
                      /\ b.end \in 0 .. size - 1 /\ b.full \in BOOLEAN /\ Count(b, size) \in 0 .. size
                      /\ b.end = (b.start + Count(b, size)) % size
                      /\ (Empty(b) <=> Count(b, size) = 0) /\ (b.full <=> Count(b, size) = size)
  <2>. DEFINE k == IF n >= m THEN n - m ELSE (n - m) + size
  <2>2. Count(b, size) = k
    <3>1. n - m + size = (n - m) + size
      OBVIOUS
    <3>. QED BY Zenon, <1>2, <1>4, <3>1 DEF Count
  <2>3. k \in 0 .. size /\ k # size /\ (k = 0 <=> m = n) /\ m + k \in 0 .. 2 * size - 1
        /\ n = (IF m + k < size THEN m + k ELSE (m + k) - size)
    OBVIOUS
  <2>. HIDE DEF k
  <2>4. (m + k) % size = n
    BY Zenon, <2>3, Wraps
  <2>. QED BY Zenon, <1>1, <1>2, <1>4, <2>2, <2>3, <2>4 DEF Empty
<1>5. Count(b, size) \in 0 .. size
  BY Zenon, <1>3, <1>4
<1>6. Held(b, size) \in Seq(Octets) /\ Len(Held(b, size)) = Count(b, size)
  BY Zenon, <1>1, <1>5, WindowBasics DEF Held
<1>. QED BY Zenon, <1>3, <1>4, <1>6

\* The number of bytes is known from the positions.
LEMMA RingCount ==
  ASSUME NEW size \in Nat \ {0}, NEW b, NEW n \in 0 .. size, b.start \in 0 .. size - 1,
         b.end = (b.start + n) % size, b.full <=> n = size
  PROVE  Count(b, size) = n
<1>1. PICK m \in 0 .. size - 1 : m = b.start
  BY Zenon
<1>2. CASE n = size
  BY Zenon, <1>2 DEF Count
<1>3. CASE n # size
  <2>1. m + n \in 0 .. 2 * size - 1
    BY <1>3
  <2>2. (m + n) % size = (IF m + n < size THEN m + n ELSE (m + n) - size)
    BY Zenon, <2>1, Wraps
  <2>3. PICK e : e = (m + n) % size
    OBVIOUS
  <2>4. e \in Int /\ (IF e >= m THEN e - m ELSE e - m + size) = n
    BY <1>3, <2>2, <2>3
  <2>5. b.end = e /\ ~b.full
    BY Zenon, <1>1, <1>3, <2>3
  <2>. QED BY Zenon, <1>1, <2>4, <2>5 DEF Count
<1>. QED BY Zenon, <1>2, <1>3

LEMMA DiffersExcept ==
  ASSUME NEW s, NEW b \in [0 .. s - 1 -> Octets], NEW a \in 0 .. s - 1, NEW d \in Octets
  PROVE  /\ Differs(b, [b EXCEPT ![a] = d], a, s) /\ [b EXCEPT ![a] = d][a] = d
         /\ [b EXCEPT ![a] = d] \in [0 .. s - 1 -> Octets]
BY DEF Differs

LEMMA TakeFields ==
  ASSUME NEW size \in Nat \ {0}, NEW b \in Rings(size), 0 \in Octets, (b.start + 1) % size \in 0 .. size - 1
  PROVE  /\ Take(b, size) \in Rings(size) /\ Take(b, size).start = (b.start + 1) % size
         /\ Take(b, size).end = b.end /\ Take(b, size).full = FALSE
         /\ Differs(b.buffer, Take(b, size).buffer, b.start, size)
<1>1. b.buffer \in [0 .. size - 1 -> Octets] /\ b.start \in 0 .. size - 1
  BY DEF Rings
<1>2. /\ [b.buffer EXCEPT ![b.start] = 0] \in [0 .. size - 1 -> Octets]
      /\ Differs(b.buffer, [b.buffer EXCEPT ![b.start] = 0], b.start, size)
  BY Zenon, <1>1, DiffersExcept
<1>3. Take(b, size) \in Rings(size)
  BY Zenon, <1>2 DEF Rings, Take
<1>4. /\ Take(b, size).start = (b.start + 1) % size /\ Take(b, size).end = b.end
      /\ Take(b, size).full = FALSE /\ Take(b, size).buffer = [b.buffer EXCEPT ![b.start] = 0]
  BY DEF Take, Rings
<1>. QED BY Zenon, <1>2, <1>3, <1>4

LEMMA EnqueueFields ==
  ASSUME NEW size \in Nat \ {0}, NEW b \in Rings(size), NEW d \in Octets, (b.end + 1) % size \in 0 .. size - 1
  PROVE  LET c == Enqueue(b, d, size)
         IN  /\ c \in Rings(size) /\ c.start = b.start /\ c.end = (b.end + 1) % size
             /\ (c.full <=> b.full \/ b.start = (b.end + 1) % size)
             /\ Differs(b.buffer, c.buffer, b.end, size) /\ c.buffer[b.end] = d
<1>1. b.buffer \in [0 .. size - 1 -> Octets] /\ b.end \in 0 .. size - 1
  BY DEF Rings
<1>2. /\ [b.buffer EXCEPT ![b.end] = d] \in [0 .. size - 1 -> Octets]
      /\ Differs(b.buffer, [b.buffer EXCEPT ![b.end] = d], b.end, size)
      /\ [b.buffer EXCEPT ![b.end] = d][b.end] = d
  BY Zenon, <1>1, DiffersExcept
<1>3. Enqueue(b, d, size) \in Rings(size)
  BY Zenon, <1>2 DEF Rings, Enqueue
<1>4. /\ Enqueue(b, d, size).start = b.start /\ Enqueue(b, d, size).end = (b.end + 1) % size
      /\ Enqueue(b, d, size).buffer = [b.buffer EXCEPT ![b.end] = d]
  BY DEF Enqueue, Rings
<1>5. Enqueue(b, d, size).full <=> b.full \/ b.start = (b.end + 1) % size
  BY Zenon DEF Enqueue, Rings
<1>. QED BY Zenon, <1>2, <1>3, <1>4, <1>5

LEMMA RingTake ==
  ASSUME NEW size \in Nat \ {0}, NEW b, IsRing(b, size), ~Empty(b)
  PROVE  /\ IsRing(Take(b, size), size) /\ First(b) \in Octets
         /\ Held(b, size) = <<First(b)>> \o Held(Take(b, size), size)
<1>. DEFINE n == Count(b, size)
            c == Take(b, size)
            s == (b.start + 1) % size
<1>1. /\ b.buffer \in [0 .. size - 1 -> Octets] /\ b.start \in 0 .. size - 1
      /\ b.end \in 0 .. size - 1 /\ b.full \in BOOLEAN /\ n \in 0 .. size /\ n # 0
      /\ b.end = (b.start + n) % size
  BY Zenon, RingBasics
<1>2. PICK m \in 0 .. size - 1 : m = b.start
  BY Zenon, <1>1
<1>3. s \in 0 .. size - 1 /\ s = (IF m + 1 < size THEN m + 1 ELSE (m + 1) - size)
  <2>1. m + 1 \in 0 .. 2 * size - 1
    OBVIOUS
  <2>2. (m + 1) % size = (IF m + 1 < size THEN m + 1 ELSE (m + 1) - size)
    BY Zenon, <2>1, Wraps
  <2>3. (m + 1) % size \in 0 .. size - 1
    BY <2>2
  <2>. QED BY Zenon, <1>2, <2>2, <2>3
<1>4. 0 \in Octets
  BY Zenon, DataOctets
<1>5. b \in Rings(size)
  BY Zenon DEF IsRing
<1>6. /\ c \in Rings(size) /\ c.start = s /\ c.end = b.end /\ c.full = FALSE
      /\ Differs(b.buffer, c.buffer, b.start, size)
  BY Zenon, <1>3, <1>4, <1>5, TakeFields
<1>. HIDE DEF c, s
<1>9. IsRing(c, size)
  BY Zenon, <1>6 DEF IsRing
<1>10. Count(c, size) = n - 1 /\ n - 1 \in 0 .. size /\ n \in 1 .. size
  <2>1. PICK k \in 1 .. size : k = n
    BY <1>1
  <2>2. k - 1 \in 0 .. size /\ k - 1 # size /\ k \in 1 .. size
    OBVIOUS
  <2>3. b.end = (s + (k - 1)) % size
    <3>1. m + k \in 0 .. 2 * size - 1 /\ s + (k - 1) \in 0 .. 2 * size - 1
      BY <1>3
    <3>2. (m + k) % size = (IF m + k < size THEN m + k ELSE (m + k) - size)
      BY Zenon, <3>1, Wraps
    <3>3. (s + (k - 1)) % size = (IF s + (k - 1) < size THEN s + (k - 1) ELSE (s + (k - 1)) - size)
      BY Zenon, <3>1, Wraps
    <3>4. (s + (k - 1)) % size = (m + k) % size
      BY <1>3, <3>2, <3>3
    <3>. QED BY Zenon, <1>1, <1>2, <2>1, <3>4
  <2>4. c.full <=> k - 1 = size
    BY Zenon, <1>6, <2>2
  <2>5. Count(c, size) = k - 1
    BY Zenon, <1>3, <1>6, <2>2, <2>3, <2>4, RingCount
  <2>. QED BY Zenon, <2>1, <2>2, <2>5
<1>11. Held(c, size) = Window(c.buffer, s, n - 1, size)
  BY Zenon, <1>6, <1>10 DEF Held
<1>. HIDE DEF n
<1>12. Window(b.buffer, b.start, n, size) = <<b.buffer[b.start]>> \o Window(c.buffer, (b.start + 1) % size, n - 1, size)
  <2>1. PICK x, y, k : x = b.buffer /\ y = c.buffer /\ k = n
    BY Zenon
  <2>2. x \in [0 .. size - 1 -> Octets] /\ k \in 1 .. size /\ Differs(x, y, m, size)
    BY Zenon, <1>1, <1>2, <1>6, <1>10, <2>1
  <2>3. Window(x, m, k, size) = <<x[m]>> \o Window(y, (m + 1) % size, k - 1, size)
    BY ZenonT(60), <2>2, TakeFromWindow
  <2>. QED BY Zenon, <1>2, <2>1, <2>3
<1>13. First(b) \in Octets /\ First(b) = b.buffer[b.start]
  BY Zenon, <1>1 DEF First
<1>. QED BY Zenon, <1>9, <1>11, <1>12, <1>13 DEF c, Held, n, s

LEMMA RingEnqueue ==
  ASSUME NEW size \in Nat \ {0}, NEW b, IsRing(b, size), ~b.full, NEW d \in Octets
  PROVE  /\ IsRing(Enqueue(b, d, size), size)
         /\ Held(Enqueue(b, d, size), size) = Held(b, size) \o <<d>>
<1>. DEFINE n == Count(b, size)
            c == Enqueue(b, d, size)
            e == (b.end + 1) % size
<1>1. /\ b.buffer \in [0 .. size - 1 -> Octets] /\ b.start \in 0 .. size - 1
      /\ b.end \in 0 .. size - 1 /\ b.full \in BOOLEAN /\ n \in 0 .. size /\ n # size
      /\ b.end = (b.start + n) % size
  BY Zenon, RingBasics
<1>2. PICK m \in 0 .. size - 1, k \in 0 .. size - 1, g \in 0 .. size - 1 : m = b.start /\ k = n /\ g = b.end
  <2>1. n \in 0 .. size - 1
    BY <1>1
  <2>. QED BY Zenon, <1>1, <2>1
<1>3. /\ g = (IF m + k < size THEN m + k ELSE (m + k) - size)
      /\ e = (IF g + 1 < size THEN g + 1 ELSE (g + 1) - size)
  <2>1. m + k \in 0 .. 2 * size - 1 /\ g + 1 \in 0 .. 2 * size - 1
    OBVIOUS
  <2>2. (m + k) % size = (IF m + k < size THEN m + k ELSE (m + k) - size)
    BY Zenon, <2>1, Wraps
  <2>3. (g + 1) % size = (IF g + 1 < size THEN g + 1 ELSE (g + 1) - size)
    BY Zenon, <2>1, Wraps
  <2>. QED BY Zenon, <1>1, <1>2, <2>2, <2>3
<1>4. e \in 0 .. size - 1
  BY <1>3
<1>5. b \in Rings(size)
  BY Zenon DEF IsRing
<1>6. /\ c \in Rings(size) /\ c.start = b.start /\ c.end = e /\ (c.full <=> b.start = e)
      /\ Differs(b.buffer, c.buffer, b.end, size) /\ c.buffer[b.end] = d
  <2>1. /\ c \in Rings(size) /\ c.start = b.start /\ c.end = e /\ (c.full <=> b.full \/ b.start = e)
        /\ Differs(b.buffer, c.buffer, b.end, size) /\ c.buffer[b.end] = d
    BY <1>4, <1>5, EnqueueFields
  <2>2. c.full <=> b.start = e
    BY Zenon, <2>1
  <2>. QED BY Zenon, <2>1, <2>2
<1>. HIDE DEF c, e
<1>9. IsRing(c, size)
  BY Zenon, <1>6 DEF IsRing
<1>10. Count(c, size) = n + 1
  <2>1. k + 1 \in 0 .. size
    OBVIOUS
  <2>2. e = (m + (k + 1)) % size /\ (m = e <=> k + 1 = size)
    <3>1. CASE k + 1 = size
      <4>1. e = m
        BY <1>3, <3>1
      <4>2. m + size \in 0 .. 2 * size - 1 /\ ~(m + size < size) /\ (m + size) - size = m
        OBVIOUS
      <4>3. (m + size) % size = m
        BY Zenon, <4>2, Wraps
      <4>. QED BY Zenon, <3>1, <4>1, <4>3
    <3>2. CASE k + 1 # size
      <4>1. m + (k + 1) \in 0 .. 2 * size - 1
        BY <3>2
      <4>2. (m + (k + 1)) % size = (IF m + (k + 1) < size THEN m + (k + 1) ELSE (m + (k + 1)) - size)
        BY Zenon, <4>1, Wraps
      <4>3. e = (m + (k + 1)) % size /\ m # e
        BY <1>3, <3>2, <4>2
      <4>. QED BY Zenon, <3>2, <4>3
    <3>. QED BY Zenon, <3>1, <3>2
  <2>3. c.full <=> k + 1 = size
    BY Zenon, <1>2, <1>6, <2>2
  <2>4. Count(c, size) = k + 1
    BY Zenon, <1>1, <1>2, <1>6, <2>1, <2>2, <2>3, RingCount
  <2>. QED BY Zenon, <1>2, <2>4
<1>11. Held(c, size) = Window(c.buffer, b.start, n + 1, size)
  BY Zenon, <1>6, <1>10 DEF Held
<1>. HIDE DEF n
<1>12. Window(c.buffer, b.start, n + 1, size) = Window(b.buffer, b.start, n, size) \o <<d>>
  <2>1. PICK x, y : x = b.buffer /\ y = c.buffer
    BY Zenon
  <2>2. x \in [0 .. size - 1 -> Octets] /\ Differs(x, y, (m + k) % size, size)
    BY Zenon, <1>1, <1>2, <1>6, <2>1
  <2>3. Window(y, m, k + 1, size) = Window(x, m, k, size) \o <<y[(m + k) % size]>>
    BY ZenonT(60), <2>2, AddToWindow
  <2>4. y[(m + k) % size] = d
    BY Zenon, <1>1, <1>2, <1>6, <2>1
  <2>. QED BY Zenon, <1>2, <2>1, <2>3, <2>4
<1>. QED BY Zenon, <1>9, <1>11, <1>12 DEF c, Held, n

LEMMA RingNew ==
  ASSUME NEW size \in Nat \ {0}
  PROVE  IsRing(Ring(size), size) /\ Held(Ring(size), size) = <<>> /\ Empty(Ring(size))
<1>. DEFINE b == Ring(size)
<1>1. 0 \in Octets
  BY Zenon, DataOctets
<1>2. 0 \in 0 .. size - 1 /\ 0 >= 0 /\ 0 - 0 = 0
  OBVIOUS
<1>3. [k \in 0 .. (size - 1) |-> 0] \in [0 .. size - 1 -> Octets]
  BY <1>1
<1>4. IsRing(b, size)
  BY <1>2, <1>3 DEF IsRing, Rings, Ring
<1>5. b.start = 0 /\ b.end = 0 /\ b.full = FALSE
  BY DEF Ring
<1>. HIDE DEF b
<1>6. Count(b, size) = 0
  BY Zenon, <1>2, <1>5 DEF Count
<1>7. Held(b, size) = <<>>
  BY Zenon, <1>6, NoWindow DEF Held
<1>. QED BY Zenon, <1>4, <1>5, <1>7 DEF b, Empty

-----------------------------------------------------------------------------
(* Steps of the AVR. *)

LEMMA AvrFacts ==
  ASSUME AvrInv
  PROVE  /\ Held(rx, RX_BUFFER_SIZE) \in Seq(Octets) /\ Held(tx, TX_BUFFER_SIZE) \in Seq(Octets)
         /\ packet \in Lengths /\ tx_acknowledge \in Nat /\ AvrUp \in Seq(Octets) /\ AvrDown \in Seq(Octets)
         /\ call # "readCredit" => tx_acknowledge > 0
         /\ ~AvrWriting => todo = <<>> /\ AvrLeft = tx_acknowledge
<1>1. AvrState /\ Link(packet, tester, AvrUp, AvrDown, AvrLeft, credit, FALSE, rx_acknowledge, RX_BUFFER_SIZE)
  BY Zenon DEF AvrInv
<1>2. IsRing(tx, TX_BUFFER_SIZE) /\ IsRing(rx, RX_BUFFER_SIZE)
  BY Zenon, <1>1 DEF AvrState
<1>3. Held(rx, RX_BUFFER_SIZE) \in Seq(Octets) /\ Held(tx, TX_BUFFER_SIZE) \in Seq(Octets)
  BY Zenon, <1>2, RingBasics, Sizes
<1>4. packet \in Lengths /\ AvrUp \in Seq(Octets) /\ AvrDown \in Seq(Octets)
  BY Zenon, <1>1 DEF Link, Turns
<1>5. tx_acknowledge \in Nat /\ (call # "readCredit" => tx_acknowledge # 0)
  BY Zenon, <1>1 DEF AvrState
<1>6. tx_acknowledge # 0 => tx_acknowledge > 0
  BY <1>5
<1>7. ~AvrWriting => todo = <<>> /\ AvrLeft = tx_acknowledge
  BY Zenon, <1>1 DEF AvrState, AvrLeft
<1>. QED BY Zenon, <1>3, <1>4, <1>5, <1>6, <1>7

\* The bytes to the host, when todo is added to.
LEMMA AvrDownRear ==
  ASSUME AvrInv, todo = <<>>, NEW more \in Seq(Octets)
  PROVE  inbox \o (line \o (Held(tx, TX_BUFFER_SIZE) \o more)) = AvrDown \o more
<1>1. /\ inbox \in Seq(Octets) /\ line \in Seq(Octets) /\ Held(tx, TX_BUFFER_SIZE) \in Seq(Octets)
  BY Zenon, AvrFacts DEF AvrInv, LineTypes
<1>2. Queues(inbox, line, Held(tx, TX_BUFFER_SIZE), more)
  BY Zenon, <1>1 DEF Queues
<1>3. inbox \o (line \o (Held(tx, TX_BUFFER_SIZE) \o more)) = (inbox \o (line \o Held(tx, TX_BUFFER_SIZE))) \o more
  BY SMTT(20), <1>2, Rear
<1>4. Held(tx, TX_BUFFER_SIZE) \o <<>> = Held(tx, TX_BUFFER_SIZE)
  BY <1>1
<1>. QED BY Zenon, <1>3, <1>4 DEF AvrDown

LEMMA AvrBegins ==
  ASSUME AvrInv, AvrBegin
  PROVE  AvrInv'
<1>1. /\ call = "idle" /\ wire' = wire /\ line' = line /\ inbox' = inbox /\ tester' = tester
      /\ garbled' = garbled /\ credit' = credit /\ tx' = tx /\ rx' = rx
      /\ rx_buffer_overrun' = rx_buffer_overrun /\ rx_acknowledge' = rx_acknowledge
      /\ tx_acknowledge' = tx_acknowledge /\ immediate' = immediate
  BY Zenon DEF AvrBegin, Begin, avrVars
<1>2. /\ ~AvrWriting /\ todo = <<>> /\ AvrLeft = tx_acknowledge /\ tx_acknowledge \in Nat
      /\ tx_acknowledge > 0 /\ packet \in Lengths
  <2>1. ~AvrWriting /\ call # "readCredit"
    BY <1>1 DEF AvrWriting
  <2>. QED BY Zenon, <2>1, AvrFacts
<1>3. AvrState /\ LineTypes /\ ~garbled /\ ~rx_buffer_overrun
      /\ Link(packet, tester, AvrUp, AvrDown, AvrLeft, credit, FALSE, rx_acknowledge, RX_BUFFER_SIZE)
  BY Zenon DEF AvrInv
<1>4. AvrUp' = AvrUp
  BY Zenon, <1>1 DEF AvrUp
<1>5. ASSUME ~Replying PROVE AvrInv'
  <2>1. call' = "read" /\ todo' = todo /\ packet' = packet
    BY Zenon, <1>5 DEF AvrBegin, Begin
  <2>2. ~AvrWriting'
    BY <2>1 DEF AvrWriting
  <2>3. AvrDown' = AvrDown
    BY Zenon, <1>1, <2>1 DEF AvrDown
  <2>4. AvrLeft' = AvrLeft
    BY Zenon, <1>1, <1>2, <2>2 DEF AvrLeft
  <2>5. AvrState'
    BY <1>1, <1>2, <1>3, <2>1, <2>2 DEF AvrState
  <2>6. LineTypes'
    BY Zenon, <1>1, <1>3, <2>1 DEF LineTypes
  <2>. QED BY Zenon, <1>1, <1>3, <1>4, <2>1, <2>3, <2>4, <2>5, <2>6 DEF AvrInv
<1>6. ASSUME Replying PROVE AvrInv'
  <2>1. call' = "write" /\ todo' = <<Data(packet.put)>>
    BY Zenon, <1>6 DEF AvrBegin, Begin
  <2>2. Puts(packet, packet') /\ packet'.put > 0
    BY Zenon, <1>2, <1>6, BeginPuts DEF AvrBegin
  <2>3. Data(packet.put) \in Octets
    <3>1. packet.put \in Nat
      BY <1>2 DEF Lengths
    <3>. QED BY Zenon, <3>1, DataOctets
  <2>4. todo' \in Seq(Octets) /\ Len(todo') = 1 /\ todo' # <<>>
    BY <2>1, <2>3
  <2>5. AvrWriting'
    BY <2>1 DEF AvrWriting
  <2>6. AvrDown' = AvrDown \o <<Data(packet.put)>>
    <3>1. <<Data(packet.put)>> \in Seq(Octets)
      BY Zenon, <2>1, <2>4
    <3>2. inbox \o (line \o (Held(tx, TX_BUFFER_SIZE) \o <<Data(packet.put)>>)) = AvrDown \o <<Data(packet.put)>>
      BY Zenon, <1>2, <3>1, AvrDownRear
    <3>. QED BY Zenon, <1>1, <2>1, <3>2 DEF AvrDown
  <2>7. AvrLeft' = AvrLeft - 1
    BY Zenon, <1>1, <1>2, <2>2, <2>5 DEF AvrLeft
  <2>8. Link(packet', tester, AvrUp, AvrDown \o <<Data(packet.put)>>, AvrLeft - 1, credit, FALSE,
             rx_acknowledge, RX_BUFFER_SIZE)
    BY Zenon, <1>2, <1>3, <2>2, LinkPut, Sizes
  <2>9. AvrState'
    BY <1>1, <1>2, <1>3, <2>1, <2>4, <2>5 DEF AvrState
  <2>10. LineTypes'
    BY Zenon, <1>1, <1>3, <2>4 DEF LineTypes
  <2>. QED BY Zenon, <1>1, <1>3, <1>4, <2>6, <2>7, <2>8, <2>9, <2>10 DEF AvrInv
<1>. QED BY Zenon, <1>5, <1>6

\* A byte is taken out of the receive buffer.
LEMMA AvrTakes ==
  ASSUME AvrInv, ~Empty(rx)
  PROVE  /\ IsRing(Take(rx, RX_BUFFER_SIZE), RX_BUFFER_SIZE) /\ First(rx) \in Octets
         /\ Held(Take(rx, RX_BUFFER_SIZE), RX_BUFFER_SIZE) \o wire \in Seq(Octets)
         /\ AvrUp = <<First(rx)>> \o (Held(Take(rx, RX_BUFFER_SIZE), RX_BUFFER_SIZE) \o wire)
<1>. DEFINE rest == Held(Take(rx, RX_BUFFER_SIZE), RX_BUFFER_SIZE) \o wire
            x == First(rx)
<1>1. IsRing(rx, RX_BUFFER_SIZE) /\ wire \in Seq(Octets)
  BY Zenon DEF AvrInv, AvrState, LineTypes
<1>2. /\ IsRing(Take(rx, RX_BUFFER_SIZE), RX_BUFFER_SIZE) /\ x \in Octets
      /\ Held(rx, RX_BUFFER_SIZE) = <<x>> \o Held(Take(rx, RX_BUFFER_SIZE), RX_BUFFER_SIZE)
  BY Zenon, <1>1, RingTake, Sizes
<1>3. Held(Take(rx, RX_BUFFER_SIZE), RX_BUFFER_SIZE) \in Seq(Octets)
  BY Zenon, <1>2, RingBasics, Sizes
<1>4. rest \in Seq(Octets)
  BY Zenon, <1>1, <1>2, <1>3, Plain
<1>5. <<x>> \in Seq(Octets)
  BY <1>2
<1>6. (<<x>> \o Held(Take(rx, RX_BUFFER_SIZE), RX_BUFFER_SIZE)) \o wire = <<x>> \o rest
  BY Zenon, <1>1, <1>3, <1>5, Associative
<1>. QED BY Zenon, <1>2, <1>4, <1>6 DEF AvrUp

LEMMA AvrGets ==
  ASSUME AvrInv, AvrGet
  PROVE  AvrInv'
<1>. DEFINE rest == Held(Take(rx, RX_BUFFER_SIZE), RX_BUFFER_SIZE) \o wire
            x == First(rx)
<1>1. /\ call = "read" /\ wire' = wire /\ line' = line /\ inbox' = inbox /\ tester' = tester
      /\ credit' = credit /\ tx' = tx /\ rx' = Take(rx, RX_BUFFER_SIZE) /\ ~Empty(rx)
      /\ rx_buffer_overrun' = rx_buffer_overrun /\ tx_acknowledge' = tx_acknowledge /\ immediate' = immediate
      /\ Got(x)
  BY Zenon DEF AvrGet
<1>2. /\ ~AvrWriting /\ todo = <<>> /\ AvrLeft = tx_acknowledge /\ tx_acknowledge \in Nat
      /\ tx_acknowledge > 0 /\ packet \in Lengths /\ AvrDown \in Seq(Octets)
  <2>1. ~AvrWriting /\ call # "readCredit"
    BY <1>1 DEF AvrWriting
  <2>. QED BY Zenon, <2>1, AvrFacts
<1>3. AvrState /\ LineTypes /\ ~garbled /\ ~rx_buffer_overrun
      /\ Link(packet, tester, AvrUp, AvrDown, AvrLeft, credit, FALSE, rx_acknowledge, RX_BUFFER_SIZE)
  BY Zenon DEF AvrInv
<1>4. /\ IsRing(rx', RX_BUFFER_SIZE) /\ x \in Octets /\ rest \in Seq(Octets) /\ AvrUp = <<x>> \o rest
  BY Zenon, <1>1, AvrTakes
<1>5. AvrUp' = rest
  BY Zenon, <1>1 DEF AvrUp
<1>. HIDE DEF x, rest
<1>6. Gets(packet, packet') /\ (~garbled /\ x = Data(packet.got) => ~garbled')
  BY Zenon, <1>1, <1>2, GotGets
<1>7. Link(packet, tester, <<x>> \o rest, AvrDown, AvrLeft, credit, FALSE, rx_acknowledge, RX_BUFFER_SIZE)
      /\ AvrLeft > 0
  BY Zenon, <1>2, <1>3, <1>4
<1>8. /\ x = Data(packet.got) /\ packet.put = 0 /\ Len(AvrDown) = 0
      /\ rx_acknowledge = 1 => Link(packet', tester, rest, Acknowledgement(RX_BUFFER_SIZE), AvrLeft, credit, FALSE,
                                    RX_BUFFER_SIZE, RX_BUFFER_SIZE)
      /\ rx_acknowledge # 1 => Link(packet', tester, rest, <<>>, AvrLeft, credit, FALSE, rx_acknowledge - 1,
                                    RX_BUFFER_SIZE)
  BY Zenon, <1>4, <1>6, <1>7, LinkGet, Sizes
<1>9. ~garbled' /\ packet'.put = 0 /\ packet' \in Lengths
  BY Zenon, <1>3, <1>6, <1>8 DEF Gets
<1>10. AvrDown = <<>> /\ \A s \in Seq(Octets) : AvrDown \o s = s
  BY <1>2, <1>8
<1>11. ASSUME rx_acknowledge = 1 PROVE AvrInv'
  <2>1. rx_acknowledge' = RX_BUFFER_SIZE /\ todo' = Acknowledgement(RX_BUFFER_SIZE) /\ call' = "write"
    BY Zenon, <1>11 DEF AvrGet
  <2>2. Acknowledgement(RX_BUFFER_SIZE) \in Seq(Octets)
        /\ Len(Acknowledgement(RX_BUFFER_SIZE)) = 1 + AckBytes /\ AckBytes \in Nat
    BY Zenon, AcknowledgementBasics, Sizes
  <2>3. todo' \in Seq(Octets) /\ todo' # <<>>
    BY <2>1, <2>2
  <2>4. AvrWriting'
    BY <2>1 DEF AvrWriting
  <2>5. AvrDown' = Acknowledgement(RX_BUFFER_SIZE)
    <3>1. inbox \o (line \o (Held(tx, TX_BUFFER_SIZE) \o Acknowledgement(RX_BUFFER_SIZE)))
            = AvrDown \o Acknowledgement(RX_BUFFER_SIZE)
      BY Zenon, <1>2, <2>2, AvrDownRear
    <3>2. AvrDown \o Acknowledgement(RX_BUFFER_SIZE) = Acknowledgement(RX_BUFFER_SIZE)
      BY Zenon, <1>10, <2>2
    <3>. QED BY Zenon, <1>1, <2>1, <3>1, <3>2 DEF AvrDown
  <2>6. AvrLeft' = AvrLeft
    <3>1. ~(packet'.put > 0)
      BY <1>9
    <3>. QED BY Zenon, <1>1, <1>2, <3>1 DEF AvrLeft
  <2>7. AvrState'
    <3>1. ~(packet'.put > 0)
      BY <1>9
    <3>. QED BY <1>1, <1>2, <1>3, <1>4, <2>1, <2>3, <2>4, <3>1 DEF AvrState
  <2>8. LineTypes'
    BY Zenon, <1>1, <1>3, <2>3 DEF LineTypes
  <2>. QED BY Zenon, <1>1, <1>3, <1>5, <1>8, <1>9, <1>11, <2>1, <2>5, <2>6, <2>7, <2>8 DEF AvrInv
<1>12. ASSUME rx_acknowledge # 1 PROVE AvrInv'
  <2>1. rx_acknowledge' = rx_acknowledge - 1 /\ todo' = todo /\ GetEnds(packet'.reply)
    BY Zenon, <1>12 DEF AvrGet
  <2>2. call' = "idle" \/ (call' = "sanitise" /\ packet'.reply > 0)
    BY <1>3, <2>1 DEF GetEnds
  <2>3. ~AvrWriting' /\ call' # "readCredit" /\ call' # "sending" /\ call' \in {"idle", "sanitise"}
    BY <2>2 DEF AvrWriting
  <2>4. AvrDown' = AvrDown
    BY Zenon, <1>1, <2>1 DEF AvrDown
  <2>5. AvrLeft' = AvrLeft
    BY Zenon, <1>1, <1>2, <2>3 DEF AvrLeft
  <2>6. AvrState'
    BY <1>1, <1>2, <1>3, <1>4, <1>9, <2>1, <2>2, <2>3 DEF AvrState
  <2>7. LineTypes'
    BY Zenon, <1>1, <1>3, <2>1 DEF LineTypes
  <2>. QED BY Zenon, <1>1, <1>3, <1>5, <1>8, <1>9, <1>10, <1>12, <2>1, <2>4, <2>5, <2>6, <2>7 DEF AvrInv
<1>. QED BY Zenon, <1>11, <1>12

LEMMA AvrDecides ==
  ASSUME AvrInv, Decide
  PROVE  AvrInv'
<1>1. /\ call = "write" /\ call' = "sending" /\ wire' = wire /\ line' = line /\ inbox' = inbox /\ tester' = tester
      /\ packet' = packet /\ garbled' = garbled /\ credit' = credit /\ tx' = tx /\ rx' = rx /\ todo' = todo
      /\ rx_buffer_overrun' = rx_buffer_overrun /\ rx_acknowledge' = rx_acknowledge
      /\ tx_acknowledge' = tx_acknowledge /\ immediate' = (Empty(tx) /\ line = <<>>)
  BY Zenon DEF Decide, linkVars
<1>2. AvrWriting /\ AvrWriting'
  BY <1>1 DEF AvrWriting
<1>3. AvrUp' = AvrUp /\ AvrDown' = AvrDown /\ AvrLeft' = AvrLeft
  BY Zenon, <1>1, <1>2 DEF AvrUp, AvrDown, AvrLeft
<1>4. AvrState'
  <2>1. immediate' \in BOOLEAN /\ (immediate' => Empty(tx') /\ line' = <<>>)
    BY Zenon, <1>1
  <2>2. /\ IsRing(tx', TX_BUFFER_SIZE) /\ IsRing(rx', RX_BUFFER_SIZE) /\ tx_acknowledge' \in Nat /\ tx_acknowledge' # 0
        /\ todo' # <<>> /\ (packet'.put > 0 => Len(todo') = 1)
    <3>1. call # "readCredit"
      BY <1>1
    <3>. QED BY Zenon, <1>1, <1>2, <3>1 DEF AvrInv, AvrState
  <2>. QED BY <1>1, <1>2, <2>1, <2>2 DEF AvrState
<1>5. LineTypes'
  BY Zenon, <1>1 DEF AvrInv, LineTypes
<1>. QED BY Zenon, <1>1, <1>3, <1>4, <1>5 DEF AvrInv

LEMMA AvrSends ==
  ASSUME AvrInv, usartSend
  PROVE  AvrInv'
<1>. DEFINE d == Head(todo)
            T == Tail(todo)
            H == Held(tx, TX_BUFFER_SIZE)
<1>1. /\ call = "sending" /\ wire' = wire /\ inbox' = inbox /\ tester' = tester /\ packet' = packet
      /\ garbled' = garbled /\ credit' = credit /\ rx' = rx /\ rx_buffer_overrun' = rx_buffer_overrun
      /\ rx_acknowledge' = rx_acknowledge /\ immediate' = immediate /\ todo' = T
  BY Zenon DEF usartSend, Sent
<1>2. /\ AvrState /\ LineTypes /\ ~garbled /\ ~rx_buffer_overrun
      /\ Link(packet, tester, AvrUp, AvrDown, AvrLeft, credit, FALSE, rx_acknowledge, RX_BUFFER_SIZE)
  BY Zenon DEF AvrInv
<1>3. /\ IsRing(tx, TX_BUFFER_SIZE) /\ H \in Seq(Octets) /\ packet \in Lengths
      /\ tx_acknowledge \in Nat /\ tx_acknowledge > 0 /\ AvrWriting
  <2>1. call # "readCredit" /\ AvrWriting
    BY <1>1 DEF AvrWriting
  <2>. QED BY Zenon, <1>2, <2>1, AvrFacts DEF AvrState
<1>4. todo = <<d>> \o T /\ d \in Octets /\ T \in Seq(Octets) /\ Len(T) = Len(todo) - 1
  <2>1. todo \in Seq(Octets) /\ todo # <<>>
    BY Zenon, <1>2, <1>3 DEF AvrState, LineTypes
  <2>. QED BY Zenon, <2>1, Split
<1>. HIDE DEF d, T, H
<1>5. /\ IsRing(tx, TX_BUFFER_SIZE)' /\ line' \in Seq(Octets) /\ AvrDown' = AvrDown
      /\ IF immediate THEN tx' = tx ELSE line' = line
  <2>1. CASE immediate
    <3>1. line' = Append(line, d) /\ tx' = tx
      BY Zenon, <2>1 DEF usartSend, d
    <3>2. Empty(tx) /\ line = <<>>
      BY Zenon, <1>1, <1>2, <2>1 DEF AvrState
    <3>3. H = <<>>
      <4>1. Len(H) = 0
        BY Zenon, <1>3, <3>2, RingBasics, Sizes DEF H
      <4>. QED BY <1>3, <4>1
    <3>4. line' = <<d>> /\ line' \in Seq(Octets)
      BY <1>4, <3>1, <3>2
    <3>5. <<>> \o T = T /\ <<>> \o (<<d>> \o T) = <<d>> \o T
      BY <1>4
    <3>6. AvrDown = inbox \o (<<d>> \o T)
      BY Zenon, <1>4, <3>2, <3>3, <3>5 DEF AvrDown, H
    <3>7. AvrDown' = inbox' \o (line' \o (H \o todo'))
      BY Zenon, <3>1 DEF AvrDown, H
    <3>. QED BY Zenon, <1>1, <1>3, <2>1, <3>1, <3>3, <3>4, <3>5, <3>6, <3>7
  <2>2. CASE ~immediate
    <3>1. line' = line /\ ~tx.full /\ tx' = Enqueue(tx, d, TX_BUFFER_SIZE)
      BY Zenon, <2>2 DEF usartSend, d
    <3>2. /\ IsRing(tx', TX_BUFFER_SIZE) /\ Held(tx', TX_BUFFER_SIZE) = H \o <<d>>
      BY Zenon, <1>3, <1>4, <3>1, RingEnqueue, Sizes DEF H
    <3>3. (H \o <<d>>) \o T = H \o (<<d>> \o T)
      BY Zenon, <1>3, <1>4, Forward
    <3>4. AvrDown = inbox \o (line \o (H \o (<<d>> \o T)))
      BY Zenon, <1>4 DEF AvrDown, H
    <3>5. AvrDown' = inbox' \o (line' \o (Held(tx', TX_BUFFER_SIZE) \o todo'))
      BY Zenon DEF AvrDown
    <3>6. line' \in Seq(Octets)
      BY Zenon, <1>2, <3>1 DEF LineTypes
    <3>. QED BY Zenon, <1>1, <2>2, <3>1, <3>2, <3>3, <3>4, <3>5, <3>6
  <2>. QED BY Zenon, <2>1, <2>2
<1>6. AvrUp' = AvrUp
  BY Zenon, <1>1 DEF AvrUp
<1>7. LineTypes'
  BY Zenon, <1>1, <1>2, <1>4, <1>5 DEF LineTypes
<1>8. IsRing(rx, RX_BUFFER_SIZE)' /\ immediate' \in BOOLEAN /\ (packet.put > 0 => Len(todo) = 1)
  BY Zenon, <1>1, <1>2, <1>3 DEF AvrState
<1>9. AvrState' /\ AvrLeft' = AvrLeft
  <2>1. CASE T # <<>>
    <3>1. call' = "write" /\ tx_acknowledge' = tx_acknowledge
      BY Zenon, <2>1 DEF usartSend, Sent, T
    <3>2. AvrWriting' /\ ~(packet.put > 0)
      <4>1. Len(T) # 0
        BY <1>4, <2>1
      <4>2. Len(todo) # 1
        BY <1>2, <1>4, <4>1 DEF LineTypes
      <4>3. AvrWriting'
        BY <3>1 DEF AvrWriting
      <4>. QED BY Zenon, <1>8, <4>2, <4>3
    <3>3. AvrLeft' = AvrLeft
      BY Zenon, <1>1, <3>1, <3>2 DEF AvrLeft
    <3>4. AvrState'
      BY SMTT(20), <1>1, <1>3, <1>5, <1>8, <2>1, <3>1, <3>2 DEF AvrState
    <3>. QED BY Zenon, <3>3, <3>4
  <2>2. CASE T = <<>> /\ packet.put = 0
    <3>1. GetEnds(packet.reply) /\ tx_acknowledge' = tx_acknowledge
      BY Zenon, <2>2 DEF usartSend, Sent, T
    <3>2. call' = "idle" \/ (call' = "sanitise" /\ packet.reply > 0)
      BY <1>2, <3>1 DEF GetEnds
    <3>3. ~AvrWriting' /\ call' # "readCredit" /\ call' # "sending" /\ call' \in {"idle", "sanitise"}
      BY <3>2 DEF AvrWriting
    <3>4. AvrLeft' = AvrLeft
      <4>1. ~(packet.put > 0)
        BY <2>2
      <4>. QED BY Zenon, <1>1, <3>1, <3>3, <4>1 DEF AvrLeft
    <3>5. AvrState'
      BY SMTT(20), <1>1, <1>3, <1>5, <1>8, <2>2, <3>1, <3>2, <3>3 DEF AvrState
    <3>. QED BY Zenon, <3>4, <3>5
  <2>3. CASE T = <<>> /\ packet.put # 0
    <3>1. tx_acknowledge' = tx_acknowledge - 1 /\ call' = IF tx_acknowledge = 1 THEN "readCredit" ELSE "idle"
      BY Zenon, <2>3 DEF usartSend, Sent, T
    <3>2. ~AvrWriting' /\ call' \in {"readCredit", "idle"}
      BY <3>1 DEF AvrWriting
    <3>3. packet.put > 0
      BY <1>3, <2>3 DEF Lengths
    <3>4. AvrLeft' = AvrLeft
      BY Zenon, <1>1, <1>3, <3>1, <3>2, <3>3 DEF AvrLeft
    <3>5. tx_acknowledge' \in Nat /\ (tx_acknowledge' = 0 <=> call' = "readCredit")
      BY <1>3, <3>1
    <3>6. AvrState'
      BY <1>1, <1>5, <1>8, <2>3, <3>2, <3>5 DEF AvrState
    <3>. QED BY Zenon, <3>4, <3>6
  <2>. QED BY Zenon, <2>1, <2>2, <2>3
<1>. QED BY Zenon, <1>1, <1>2, <1>5, <1>6, <1>7, <1>9 DEF AvrInv

LEMMA AvrReadsCredit ==
  ASSUME AvrInv, AvrReadCredit
  PROVE  AvrInv'
<1>. DEFINE rest == Held(Take(rx, RX_BUFFER_SIZE), RX_BUFFER_SIZE) \o wire
            x == First(rx)
<1>1. /\ call = "readCredit" /\ wire' = wire /\ line' = line /\ inbox' = inbox /\ tester' = tester
      /\ packet' = packet /\ garbled' = garbled /\ todo' = todo
      /\ tx' = tx /\ rx' = Take(rx, RX_BUFFER_SIZE) /\ ~Empty(rx)
      /\ rx_buffer_overrun' = rx_buffer_overrun /\ rx_acknowledge' = rx_acknowledge /\ immediate' = immediate
  BY Zenon DEF AvrReadCredit, linkVars
<1>2. ~AvrWriting /\ todo = <<>> /\ AvrLeft = tx_acknowledge /\ tx_acknowledge = 0
  <2>1. ~AvrWriting
    BY <1>1 DEF AvrWriting
  <2>. QED BY Zenon, <1>1, <2>1, AvrFacts DEF AvrInv, AvrState
<1>3. AvrState /\ LineTypes /\ ~garbled /\ ~rx_buffer_overrun
      /\ Link(packet, tester, AvrUp, AvrDown, AvrLeft, credit, FALSE, rx_acknowledge, RX_BUFFER_SIZE)
  BY Zenon DEF AvrInv
<1>4. /\ IsRing(rx', RX_BUFFER_SIZE) /\ x \in Octets /\ rest \in Seq(Octets) /\ AvrUp = <<x>> \o rest
  BY Zenon, <1>1, AvrTakes
<1>5. AvrUp' = rest /\ AvrDown' = AvrDown
  BY Zenon, <1>1 DEF AvrUp, AvrDown
<1>. HIDE DEF x, rest
<1>6. credit \in Seq(Octets) /\ <<x>> \in Seq(Octets) /\ Append(credit, x) = credit \o <<x>>
      /\ credit \o <<x>> \in Seq(Octets) /\ Len(credit \o <<x>>) = Len(credit) + 1 /\ (credit = <<>> => Len(credit) = 0)
  BY <1>3, <1>4 DEF LineTypes
<1>7. Link(packet, tester, <<x>> \o rest, AvrDown, 0, credit, FALSE, rx_acknowledge, RX_BUFFER_SIZE)
  BY Zenon, <1>2, <1>3, <1>4
<1>8. /\ Len(credit) = 0 => x = FF
      /\ Len(credit) + 1 = 1 + AckBytes =>
           /\ Number(Tail(credit \o <<x>>)) = RX_ACKNOWLEDGE_INTERVAL
           /\ Link(packet, tester, rest, AvrDown, RX_ACKNOWLEDGE_INTERVAL, <<>>, FALSE, rx_acknowledge, RX_BUFFER_SIZE)
      /\ Len(credit) + 1 # 1 + AckBytes =>
           Link(packet, tester, rest, AvrDown, 0, credit \o <<x>>, FALSE, rx_acknowledge, RX_BUFFER_SIZE)
  BY Zenon, <1>4, <1>7, LinkCredit
<1>9. (IF credit = <<>> /\ x # FF THEN <<>> ELSE Append(credit, x)) = credit \o <<x>>
  BY Zenon, <1>6, <1>8
<1>10. IF Len(credit \o <<x>>) = 1 + AckBytes
       THEN tx_acknowledge' = Number(Tail(credit \o <<x>>)) /\ credit' = <<>> /\ call' = "idle"
       ELSE credit' = credit \o <<x>> /\ tx_acknowledge' = tx_acknowledge /\ call' = call
  BY Zenon, <1>9 DEF AvrReadCredit, x
<1>11. CASE Len(credit) + 1 = 1 + AckBytes
  <2>1. tx_acknowledge' = RX_ACKNOWLEDGE_INTERVAL /\ credit' = <<>> /\ call' = "idle"
    BY Zenon, <1>6, <1>8, <1>10, <1>11
  <2>2. ~AvrWriting' /\ call' # "readCredit" /\ call' # "sending" /\ call' # "sanitise"
    BY <2>1 DEF AvrWriting
  <2>3. AvrLeft' = RX_ACKNOWLEDGE_INTERVAL
    BY Zenon, <2>1, <2>2 DEF AvrLeft
  <2>4. RX_ACKNOWLEDGE_INTERVAL \in Nat \ {0}
    BY Zenon, SerialAssumption
  <2>5. AvrState'
    BY <1>1, <1>2, <1>3, <1>4, <2>1, <2>2, <2>4 DEF AvrState
  <2>6. credit' \in Seq(Octets)
    BY <2>1
  <2>7. LineTypes'
    BY Zenon, <1>1, <1>3, <2>6 DEF LineTypes
  <2>. QED BY Zenon, <1>1, <1>3, <1>5, <1>8, <1>11, <2>1, <2>3, <2>5, <2>7 DEF AvrInv
<1>12. CASE Len(credit) + 1 # 1 + AckBytes
  <2>1. credit' = credit \o <<x>> /\ tx_acknowledge' = tx_acknowledge /\ call' = call
    BY Zenon, <1>6, <1>10, <1>12
  <2>2. ~AvrWriting'
    BY Zenon, <1>2, <2>1 DEF AvrWriting
  <2>3. AvrLeft' = 0
    BY Zenon, <1>2, <2>1, <2>2 DEF AvrLeft
  <2>4. AvrState'
    BY <1>1, <1>2, <1>3, <1>4, <2>1, <2>2 DEF AvrState
  <2>5. LineTypes'
    BY Zenon, <1>1, <1>3, <1>6, <2>1 DEF LineTypes
  <2>. QED BY Zenon, <1>1, <1>3, <1>5, <1>8, <1>12, <2>1, <2>3, <2>4, <2>5 DEF AvrInv
<1>. QED BY Zenon, <1>11, <1>12

LEMMA AvrSanitises ==
  ASSUME AvrInv, AvrSanitiseRam
  PROVE  AvrInv'
<1>1. /\ call = "sanitise" /\ call' = "idle" /\ wire' = wire /\ line' = line /\ inbox' = inbox /\ tester' = tester
      /\ packet' = packet /\ garbled' = garbled /\ credit' = credit /\ todo' = todo
      /\ tx' = Ring(TX_BUFFER_SIZE) /\ rx' = Ring(RX_BUFFER_SIZE) /\ Empty(tx) /\ ~rx_buffer_overrun'
      /\ rx_acknowledge' = rx_acknowledge /\ tx_acknowledge' = tx_acknowledge /\ immediate' = immediate
  BY Zenon DEF AvrSanitiseRam, linkVars
<1>2. /\ AvrState /\ LineTypes /\ ~garbled
      /\ Link(packet, tester, AvrUp, AvrDown, AvrLeft, credit, FALSE, rx_acknowledge, RX_BUFFER_SIZE)
  BY Zenon DEF AvrInv
<1>3. /\ ~AvrWriting /\ ~AvrWriting' /\ call' # "readCredit" /\ call' # "sending" /\ call' # "sanitise"
      /\ call # "readCredit"
  BY <1>1 DEF AvrWriting
<1>4. /\ AvrLeft = tx_acknowledge /\ AvrLeft' = tx_acknowledge /\ tx_acknowledge > 0 /\ tx_acknowledge \in Nat
      /\ packet.reply > 0 /\ todo = <<>>
      /\ IsRing(tx, TX_BUFFER_SIZE) /\ IsRing(rx, RX_BUFFER_SIZE) /\ wire \in Seq(Octets)
  BY Zenon, <1>1, <1>2, <1>3, AvrFacts DEF AvrState, AvrLeft, LineTypes
<1>5. /\ IsRing(tx, TX_BUFFER_SIZE)' /\ IsRing(rx, RX_BUFFER_SIZE)' /\ Held(tx, TX_BUFFER_SIZE)' = <<>>
      /\ Held(rx, RX_BUFFER_SIZE)' = <<>>
  BY Zenon, <1>1, RingNew, Sizes
<1>6. Held(tx, TX_BUFFER_SIZE) = <<>>
  <2>1. Held(tx, TX_BUFFER_SIZE) \in Seq(Octets) /\ Len(Held(tx, TX_BUFFER_SIZE)) = 0
    BY Zenon, <1>1, <1>4, RingBasics, Sizes
  <2>. QED BY <2>1
<1>7. Len(AvrUp) = 0 /\ Link(packet, tester, <<>>, AvrDown, AvrLeft, credit, FALSE, rx_acknowledge, RX_BUFFER_SIZE)
  BY Zenon, <1>2, <1>4, LinkReplies
<1>8. wire = <<>>
  <2>1. PICK s : s = Held(rx, RX_BUFFER_SIZE)
    OBVIOUS
  <2>2. s \in Seq(Octets) /\ Len(s \o wire) = 0
    BY Zenon, <1>4, <1>7, <2>1, RingBasics, Sizes DEF AvrUp
  <2>. QED BY <1>4, <2>2
<1>9. AvrUp' = <<>>
  <2>1. <<>> \o <<>> = <<>>
    OBVIOUS
  <2>. QED BY Zenon, <1>1, <1>5, <1>8, <2>1 DEF AvrUp
<1>10. AvrDown' = AvrDown
  BY Zenon, <1>1, <1>5, <1>6 DEF AvrDown
<1>11. AvrState'
  BY <1>1, <1>2, <1>3, <1>4, <1>5 DEF AvrState
<1>12. LineTypes'
  BY Zenon, <1>1, <1>2 DEF LineTypes
<1>. QED BY Zenon, <1>1, <1>2, <1>4, <1>7, <1>9, <1>10, <1>11, <1>12 DEF AvrInv

LEMMA AvrReceives ==
  ASSUME AvrInv, AvrReceiveInterrupt
  PROVE  AvrInv'
<1>. DEFINE H == Held(rx, RX_BUFFER_SIZE)
            d == Head(wire)
            W == Tail(wire)
<1>1. /\ line' = line /\ inbox' = inbox /\ tester' = tester /\ wire' = W /\ wire # <<>> /\ AvrInTime
      /\ packet' = packet /\ garbled' = garbled /\ credit' = credit /\ todo' = todo /\ call' = call
      /\ tx' = tx /\ rx_acknowledge' = rx_acknowledge /\ tx_acknowledge' = tx_acknowledge /\ immediate' = immediate
  BY Zenon DEF AvrReceiveInterrupt, appVars
<1>2. /\ AvrState /\ LineTypes /\ ~garbled /\ ~rx_buffer_overrun
      /\ Link(packet, tester, AvrUp, AvrDown, AvrLeft, credit, FALSE, rx_acknowledge, RX_BUFFER_SIZE)
  BY Zenon DEF AvrInv
<1>3. /\ IsRing(rx, RX_BUFFER_SIZE) /\ wire \in Seq(Octets) /\ H \in Seq(Octets)
      /\ wire = <<d>> \o W /\ d \in Octets /\ W \in Seq(Octets) /\ Len(wire) # 0
  <2>1. IsRing(rx, RX_BUFFER_SIZE) /\ wire \in Seq(Octets) /\ H \in Seq(Octets)
    BY Zenon, <1>2, AvrFacts DEF AvrState, LineTypes
  <2>2. wire = <<d>> \o W /\ d \in Octets /\ W \in Seq(Octets)
    BY Zenon, <1>1, <2>1, Split
  <2>3. Len(wire) # 0
    BY <1>1, <2>1
  <2>. QED BY Zenon, <2>1, <2>2, <2>3
<1>4. ~rx.full
  <2>1. SUFFICES ASSUME rx.full PROVE FALSE
    BY Zenon
  <2>2. call \notin {"sending", "readCredit"}
    BY Zenon, <1>1, <2>1 DEF AvrInTime
  <2>3. AvrLeft > 0 \/ Heard(tester) < packet.put
    <3>1. CASE AvrWriting /\ packet.put > 0
      <4>1. todo # <<>> /\ todo \in Seq(Octets) /\ inbox \in Seq(Octets) /\ line \in Seq(Octets)
            /\ Held(tx, TX_BUFFER_SIZE) \in Seq(Octets)
        BY Zenon, <1>2, <3>1, AvrFacts DEF AvrState, LineTypes
      <4>2. Len(AvrDown) # 0
        <5>1. PICK c : c = Held(tx, TX_BUFFER_SIZE)
          OBVIOUS
        <5>2. c \in Seq(Octets) /\ Len(todo) > 0
          BY <4>1, <5>1
        <5>3. Len(inbox \o (line \o (c \o todo))) # 0
          BY <4>1, <5>2
        <5>. QED BY Zenon, <5>1, <5>3 DEF AvrDown
      <4>. QED BY Zenon, <1>2, <3>1, <4>2, LinkPending
    <3>2. CASE ~(AvrWriting /\ packet.put > 0)
      <4>1. call # "readCredit"
        BY <2>2
      <4>. QED BY Zenon, <3>2, <4>1, AvrFacts DEF AvrLeft
    <3>. QED BY Zenon, <3>1, <3>2
  <2>4. RX_BUFFER_SIZE \in Nat /\ Len(H) = RX_BUFFER_SIZE
    BY Zenon, <1>3, <2>1, RingBasics, Sizes
  <2>5. Len(AvrUp) <= RX_BUFFER_SIZE
    BY Zenon, <1>2, <2>3, <2>4, LinkRoom
  <2>. HIDE DEF H
  <2>6. Len(H \o wire) > RX_BUFFER_SIZE
    BY <1>3, <2>4
  <2>7. Len(H \o wire) <= RX_BUFFER_SIZE
    BY Zenon, <2>5 DEF AvrUp, H
  <2>. QED BY <1>3, <2>4, <2>6, <2>7
<1>5. rx' = Enqueue(rx, d, RX_BUFFER_SIZE) /\ rx_buffer_overrun' = rx_buffer_overrun
  BY Zenon, <1>4 DEF AvrReceiveInterrupt
<1>6. IsRing(rx', RX_BUFFER_SIZE) /\ Held(rx', RX_BUFFER_SIZE) = H \o <<d>>
  BY Zenon, <1>3, <1>4, <1>5, RingEnqueue, Sizes
<1>. HIDE DEF H, d, W
<1>7. (H \o <<d>>) \o W = H \o (<<d>> \o W)
  BY Zenon, <1>3, Forward
<1>8. AvrUp' = AvrUp
  BY Zenon, <1>1, <1>3, <1>6, <1>7 DEF AvrUp, H
<1>9. AvrDown' = AvrDown /\ AvrLeft' = AvrLeft
  BY Zenon, <1>1 DEF AvrDown, AvrLeft, AvrWriting
<1>10. AvrState'
  BY Zenon, <1>1, <1>2, <1>6 DEF AvrState, AvrWriting
<1>11. LineTypes'
  BY Zenon, <1>1, <1>2, <1>3 DEF LineTypes
<1>. QED BY Zenon, <1>1, <1>2, <1>5, <1>8, <1>9, <1>10, <1>11 DEF AvrInv

LEMMA AvrEmpties ==
  ASSUME AvrInv, EmptyInterrupt
  PROVE  AvrInv'
<1>1. /\ wire' = wire /\ inbox' = inbox /\ tester' = tester /\ line = <<>>
      /\ packet' = packet /\ garbled' = garbled /\ credit' = credit /\ todo' = todo /\ call' = call
      /\ rx' = rx /\ rx_buffer_overrun' = rx_buffer_overrun
      /\ rx_acknowledge' = rx_acknowledge /\ tx_acknowledge' = tx_acknowledge /\ immediate' = immediate
  BY Zenon DEF EmptyInterrupt, appVars
<1>2. /\ AvrState /\ LineTypes /\ ~garbled /\ ~rx_buffer_overrun
      /\ Link(packet, tester, AvrUp, AvrDown, AvrLeft, credit, FALSE, rx_acknowledge, RX_BUFFER_SIZE)
  BY Zenon DEF AvrInv
<1>3. AvrUp' = AvrUp /\ AvrLeft' = AvrLeft
  BY Zenon, <1>1 DEF AvrUp, AvrLeft, AvrWriting
<1>4. CASE Empty(tx)
  <2>1. line' = line /\ tx' = tx
    BY Zenon, <1>4 DEF EmptyInterrupt
  <2>2. AvrDown' = AvrDown
    BY Zenon, <1>1, <2>1 DEF AvrDown
  <2>3. AvrState' /\ LineTypes'
    BY Zenon, <1>1, <1>2, <2>1 DEF AvrState, AvrWriting, LineTypes
  <2>. QED BY Zenon, <1>1, <1>2, <1>3, <2>2, <2>3 DEF AvrInv
<1>5. CASE ~Empty(tx)
  <2>. DEFINE d == First(tx)
              H == Held(Take(tx, TX_BUFFER_SIZE), TX_BUFFER_SIZE)
  <2>1. line' = <<d>> /\ tx' = Take(tx, TX_BUFFER_SIZE)
    BY Zenon, <1>5 DEF EmptyInterrupt
  <2>2. IsRing(tx, TX_BUFFER_SIZE) /\ todo \in Seq(Octets)
    BY Zenon, <1>2 DEF AvrState, LineTypes
  <2>3. IsRing(tx', TX_BUFFER_SIZE) /\ d \in Octets /\ Held(tx, TX_BUFFER_SIZE) = <<d>> \o H
    BY Zenon, <1>5, <2>1, <2>2, RingTake, Sizes
  <2>4. H \in Seq(Octets)
    BY Zenon, <2>1, <2>3, RingBasics, Sizes
  <2>5. Held(tx', TX_BUFFER_SIZE) = H
    BY Zenon, <2>1
  <2>. HIDE DEF d, H
  <2>6. line' \in Seq(Octets)
    BY <2>1, <2>3
  <2>7. (<<d>> \o H) \o todo = <<d>> \o (H \o todo)
    BY ZenonT(60), <2>1, <2>2, <2>4, <2>6, Associative
  <2>8. <<>> \o (Held(tx, TX_BUFFER_SIZE) \o todo) = Held(tx, TX_BUFFER_SIZE) \o todo
    <3>1. Held(tx, TX_BUFFER_SIZE) \o todo \in Seq(Octets)
      BY Zenon, <2>2, <2>3, AvrFacts, Plain
    <3>. QED BY <3>1
  <2>9. AvrDown' = AvrDown
    BY Zenon, <1>1, <2>1, <2>3, <2>5, <2>7, <2>8 DEF AvrDown
  <2>10. ~(call = "sending" /\ immediate)
    BY Zenon, <1>2, <1>5 DEF AvrState
  <2>11. AvrState'
    BY Zenon, <1>1, <1>2, <2>3, <2>10 DEF AvrState, AvrWriting
  <2>12. LineTypes'
    BY Zenon, <1>1, <1>2, <2>6 DEF LineTypes
  <2>. QED BY Zenon, <1>1, <1>2, <1>3, <2>9, <2>11, <2>12 DEF AvrInv
<1>. QED BY Zenon, <1>4, <1>5

\* A byte leaves the register.
LEMMA Shifts ==
  ASSUME LineTypes, line # <<>>, inbox' = Append(inbox, Head(line)), line' = Tail(line), NEW rest \in Seq(Octets)
  PROVE  inbox' \in Seq(Octets) /\ line' \in Seq(Octets) /\ inbox' \o (line' \o rest) = inbox \o (line \o rest)
<1>. DEFINE d == Head(line)
            T == Tail(line)
<1>1. inbox \in Seq(Octets) /\ line \in Seq(Octets)
  BY Zenon DEF LineTypes
<1>2. line = <<d>> \o T /\ d \in Octets /\ T \in Seq(Octets)
  BY Zenon, <1>1, Split
<1>. HIDE DEF d, T
<1>3. inbox' = inbox \o <<d>> /\ inbox' \in Seq(Octets) /\ line' = T /\ T \o rest \in Seq(Octets)
      /\ <<d>> \in Seq(Octets)
  BY <1>1, <1>2 DEF d, T
<1>4. (<<d>> \o T) \o rest = <<d>> \o (T \o rest)
  BY ZenonT(60), <1>2, <1>3, Associative
<1>5. (inbox \o <<d>>) \o (T \o rest) = inbox \o (<<d>> \o (T \o rest))
  BY Zenon, <1>1, <1>2, <1>3, Forward
<1>. QED BY Zenon, <1>2, <1>3, <1>4, <1>5

LEMMA AvrShifts ==
  ASSUME AvrInv, AvrShift
  PROVE  AvrInv'
<1>. DEFINE rest == Held(tx, TX_BUFFER_SIZE) \o todo
<1>1. /\ wire' = wire /\ inbox' = Append(inbox, Head(line)) /\ line' = Tail(line) /\ tester' = tester /\ line # <<>>
      /\ packet' = packet /\ garbled' = garbled /\ credit' = credit /\ todo' = todo /\ call' = call
      /\ rx' = rx /\ tx' = tx /\ rx_buffer_overrun' = rx_buffer_overrun
      /\ rx_acknowledge' = rx_acknowledge /\ tx_acknowledge' = tx_acknowledge /\ immediate' = immediate
  BY Zenon DEF AvrShift, appVars, avrVars
<1>2. /\ AvrState /\ LineTypes /\ ~garbled /\ ~rx_buffer_overrun
      /\ Link(packet, tester, AvrUp, AvrDown, AvrLeft, credit, FALSE, rx_acknowledge, RX_BUFFER_SIZE)
  BY Zenon DEF AvrInv
<1>3. AvrUp' = AvrUp /\ AvrLeft' = AvrLeft
  BY Zenon, <1>1 DEF AvrUp, AvrLeft, AvrWriting
<1>4. rest \in Seq(Octets) /\ rest' = rest
  <2>1. Held(tx, TX_BUFFER_SIZE) \in Seq(Octets) /\ todo \in Seq(Octets)
    BY Zenon, <1>2, AvrFacts DEF LineTypes
  <2>2. rest \in Seq(Octets)
    BY <2>1
  <2>. QED BY Zenon, <1>1, <2>2
<1>. HIDE DEF rest
<1>5. inbox' \in Seq(Octets) /\ line' \in Seq(Octets) /\ inbox' \o (line' \o rest) = inbox \o (line \o rest)
  BY Zenon, <1>1, <1>2, <1>4, Shifts
<1>6. AvrDown' = AvrDown
  BY Zenon, <1>4, <1>5 DEF AvrDown, rest
<1>7. ~(call = "sending" /\ immediate)
  BY Zenon, <1>1, <1>2 DEF AvrState
<1>8. AvrState'
  BY Zenon, <1>1, <1>2, <1>7 DEF AvrState, AvrWriting
<1>9. LineTypes'
  BY Zenon, <1>1, <1>2, <1>5 DEF LineTypes
<1>. QED BY Zenon, <1>1, <1>2, <1>3, <1>6, <1>8, <1>9 DEF AvrInv

LEMMA AvrHostMoves ==
  ASSUME AvrInv, AvrHostActs
  PROVE  AvrInv'
<1>. DEFINE rest == line \o (Held(tx, TX_BUFFER_SIZE) \o todo)
            first == Held(rx, RX_BUFFER_SIZE)
<1>1. /\ credit' = credit /\ todo' = todo /\ call' = call /\ (HostStart \/ HostStep)
      /\ rx' = rx /\ tx' = tx /\ rx_buffer_overrun' = rx_buffer_overrun
      /\ rx_acknowledge' = rx_acknowledge /\ tx_acknowledge' = tx_acknowledge /\ immediate' = immediate
  BY Zenon DEF AvrHostActs, appVars, avrVars
<1>2. /\ AvrState /\ LineTypes /\ ~garbled /\ ~rx_buffer_overrun
      /\ Link(packet, tester, AvrUp, AvrDown, AvrLeft, credit, FALSE, rx_acknowledge, RX_BUFFER_SIZE)
  BY Zenon DEF AvrInv
<1>3. rest \in Seq(Octets) /\ first \in Seq(Octets)
  <2>1. /\ Held(tx, TX_BUFFER_SIZE) \in Seq(Octets) /\ todo \in Seq(Octets) /\ line \in Seq(Octets)
        /\ first \in Seq(Octets)
    BY Zenon, <1>2, AvrFacts DEF LineTypes
  <2>2. rest \in Seq(Octets)
    BY <2>1
  <2>. QED BY Zenon, <2>1, <2>2
<1>4. Link(packet, tester, first \o wire, inbox \o rest, AvrLeft, credit, FALSE, rx_acknowledge, RX_BUFFER_SIZE)
  BY Zenon, <1>2 DEF AvrUp, AvrDown
<1>. HIDE DEF first, rest
<1>5. /\ Link(packet', tester', first \o wire', inbox' \o rest, AvrLeft, credit, FALSE, rx_acknowledge, RX_BUFFER_SIZE)
      /\ wire' \in Seq(Octets) /\ inbox' \in Seq(Octets) /\ line' = line /\ ~garbled'
      /\ packet' = packet \/ tester.pc = "idle"
  BY Zenon, <1>1, <1>2, <1>3, <1>4, HostMoves, Sizes
<1>6. AvrUp' = first \o wire' /\ AvrDown' = inbox' \o rest
  BY Zenon, <1>1, <1>5 DEF AvrUp, AvrDown, first, rest
<1>7. AvrWriting' <=> AvrWriting
  BY Zenon, <1>1 DEF AvrWriting
<1>8. AvrState' /\ AvrLeft' = AvrLeft
  <2>1. CASE packet' = packet
    BY Zenon, <1>1, <1>2, <1>5, <1>7, <2>1 DEF AvrState, AvrLeft
  <2>2. CASE tester.pc = "idle"
    <3>1. Len(inbox \o rest) = 0 /\ packet.put = packet.reply
      BY Zenon, <1>4, <2>2, LinkRests
    <3>2. todo = <<>>
      <4>1. PICK c : c = Held(tx, TX_BUFFER_SIZE)
        OBVIOUS
      <4>2. c \in Seq(Octets) /\ inbox \in Seq(Octets) /\ line \in Seq(Octets) /\ todo \in Seq(Octets)
        BY Zenon, <1>2, <4>1, AvrFacts DEF LineTypes
      <4>3. Len(inbox \o (line \o (c \o todo))) = 0
        BY Zenon, <3>1, <4>1 DEF rest
      <4>4. c \o todo \in Seq(Octets) /\ line \o (c \o todo) \in Seq(Octets)
        BY <4>2
      <4>5. Len(line \o (c \o todo)) = 0
        BY Zenon, <4>2, <4>3, <4>4, Nothing
      <4>6. Len(c \o todo) = 0
        BY Zenon, <4>2, <4>4, <4>5, Nothing
      <4>7. Len(todo) = 0
        BY Zenon, <4>2, <4>6, Nothing
      <4>. QED BY <4>2, <4>7
    <3>3. ~AvrWriting /\ ~AvrWriting' /\ call # "sanitise"
      <4>1. packet \in Lengths
        BY Zenon, AvrFacts
      <4>2. ~(packet.reply > 0 /\ packet.put = 0)
        BY <3>1, <4>1 DEF Lengths
      <4>. QED BY Zenon, <1>2, <1>7, <3>2, <4>2 DEF AvrState
    <3>4. AvrLeft' = AvrLeft
      BY Zenon, <1>1, <3>3 DEF AvrLeft
    <3>5. AvrState'
      BY Zenon, <1>1, <1>2, <1>5, <3>3 DEF AvrState
    <3>. QED BY Zenon, <3>4, <3>5
  <2>. QED BY Zenon, <1>5, <2>1, <2>2
<1>9. LineTypes'
  BY Zenon, <1>1, <1>2, <1>5 DEF LineTypes
<1>. QED BY Zenon, <1>1, <1>2, <1>5, <1>6, <1>8, <1>9 DEF AvrInv

LEMMA AvrKept ==
  ASSUME AvrInv, AvrNext
  PROVE  AvrInv'
BY Zenon, AvrBegins, AvrGets, AvrDecides, AvrSends, AvrReadsCredit, AvrSanitises, AvrReceives, AvrEmpties, AvrShifts,
   AvrHostMoves DEF AvrNext, AvrApp
=============================================================================
