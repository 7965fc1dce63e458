---------------------------- MODULE Serial_proofs ----------------------------
(***************************************************************************)
(* The serial links of the LPC11Uxx and of the AVR keep the bytes of both  *)
(* directions in order, and the counters of both ends in agreement.  The   *)
(* lemmas about the link and about the AVR are in SerialAvr_proofs; here   *)
(* are the LPC11Uxx's end of the link, and the theorem.                    *)
(***************************************************************************)
EXTENDS SerialAvr_proofs

-----------------------------------------------------------------------------
(* The LPC11Uxx. *)

IsBuffer(b, size) ==
  b \in [next : 0 .. size - 1, remaining : 0 .. size, size : {size}, error_occurred : BOOLEAN,
          storage : [0 .. size - 1 -> Octets]]

Remaining(b) == Window(b.storage, b.next, b.remaining, b.size)

LpcUp == Remaining(receive_buffer) \o wire
LpcDown == inbox \o (line \o (holding \o (Remaining(transmit_buffer) \o todo)))

LpcWriting == call \in {"write", "write drowsy", "write asleep"}
Awaiting == call \in {"readCredit", "readCredit drowsy", "readCredit asleep"}
Notifying == call \in {"notify of put", "notify of get"}

\* The counters, which sanitiseRam() keeps while memory is clear.
LpcReceives == IF call = "cleared" THEN saved[1] ELSE receive_acknowledge
LpcSends == IF call = "cleared" THEN saved[2] ELSE transmit_acknowledge
LpcLeft ==
  IF call = "notify of put" \/ (LpcWriting /\ packet.put > 0) THEN LpcSends - 1 ELSE LpcSends

LpcBuffers ==
  /\ IF call = "cleared"
     THEN transmit_buffer = Cleared /\ receive_buffer = Cleared /\ saved \in Nat \X Nat
     ELSE IsBuffer(transmit_buffer, TRANSMIT_BUFFER_SIZE) /\ IsBuffer(receive_buffer, RECEIVE_BUFFER_SIZE)
  /\ holding \in Seq(Octets) /\ errors \in Nat
  /\ receive_buffer.error_occurred => errors > 0

LpcControl ==
  /\ \/ LpcWriting \/ Awaiting \/ Notifying
     \/ call \in {"idle", "read", "read drowsy", "read asleep", "sanitise", "cleared", "halted"}
  /\ LpcSends \in Nat
  /\ Awaiting => LpcSends = 0
  /\ LpcSends = 0 => Awaiting \/ call = "halted"
  /\ todo # <<>> <=> LpcWriting
  /\ LpcWriting /\ packet.put > 0 => Len(todo) = 1
  /\ call = "notify of get" => packet.put = 0
  /\ call \in {"sanitise", "cleared"} => packet.reply > 0 /\ packet.put = 0
  /\ holding # <<>> => Notifying /\ "notify" \in races

LpcInv ==
  /\ LineTypes /\ LpcBuffers /\ LpcControl
  /\ Link(packet, tester, LpcUp, LpcDown, LpcLeft, credit, receive_buffer.error_occurred,
          LpcReceives, RECEIVE_BUFFER_SIZE)
  /\ ~garbled

-----------------------------------------------------------------------------
SerialInv ==
  /\ part = "avr" => AvrInv
  /\ part \in {"lpc", "lpc windows"} => LpcInv
  /\ part = "lpc" => races = Races

-----------------------------------------------------------------------------
(* The circular buffers of the LPC11Uxx. *)

LEMMA BufferBasics ==
  ASSUME NEW size \in Nat \ {0}, NEW b, IsBuffer(b, size)
  PROVE  /\ b.size = size /\ b.remaining \in 0 .. size /\ b.next \in 0 .. size - 1
         /\ b.storage \in [0 .. size - 1 -> Octets] /\ b.error_occurred \in BOOLEAN
         /\ Remaining(b) \in Seq(Octets) /\ Len(Remaining(b)) = b.remaining
<1>1. /\ b.size = size /\ b.remaining \in 0 .. size /\ b.next \in 0 .. size - 1
      /\ b.storage \in [0 .. size - 1 -> Octets] /\ b.error_occurred \in BOOLEAN
  BY DEF IsBuffer
<1>2. Remaining(b) \in Seq(Octets) /\ Len(Remaining(b)) = b.remaining
  <2>1. PICK x, m, k : x = b.storage /\ m = b.next /\ k = b.remaining
    BY Zenon
  <2>2. x \in [0 .. size - 1 -> Octets] /\ m \in 0 .. size - 1 /\ k \in 0 .. size
    BY Zenon, <1>1, <2>1
  <2>3. Window(x, m, k, size) \in Seq(Octets) /\ Len(Window(x, m, k, size)) = k
    BY Zenon, <2>2, WindowBasics
  <2>. QED BY Zenon, <1>1, <2>1, <2>3 DEF Remaining
<1>. QED BY Zenon, <1>1, <1>2

LEMMA BufferRead ==
  ASSUME NEW size \in Nat \ {0}, NEW b, IsBuffer(b, size), b.remaining # 0
  PROVE  /\ IsBuffer(ReadBuffer(b), size) /\ Oldest(b) \in Octets
         /\ ReadBuffer(b).error_occurred = b.error_occurred /\ ReadBuffer(b).remaining = b.remaining - 1
         /\ Remaining(b) = <<Oldest(b)>> \o Remaining(ReadBuffer(b))
<1>. DEFINE c == ReadBuffer(b)
<1>1. /\ b.size = size /\ b.remaining \in 0 .. size /\ b.next \in 0 .. size - 1
      /\ b.storage \in [0 .. size - 1 -> Octets] /\ b.error_occurred \in BOOLEAN
  BY Zenon, BufferBasics
<1>2. PICK m \in 0 .. size - 1, k \in 1 .. size : m = b.next /\ k = b.remaining
  <2>1. b.remaining \in 1 .. size
    BY <1>1
  <2>. QED BY Zenon, <1>1, <2>1
<1>3. (b.next + 1) % b.size \in 0 .. size - 1 /\ b.remaining - 1 \in 0 .. size
  <2>1. (m + 1) % size \in 0 .. size - 1 /\ k - 1 \in 0 .. size
    OBVIOUS
  <2>. QED BY Zenon, <1>1, <1>2, <2>1
<1>4. 0 \in Octets
  BY Zenon, DataOctets
<1>5. /\ [b.storage EXCEPT ![b.next] = 0] \in [0 .. size - 1 -> Octets]
      /\ Differs(b.storage, [b.storage EXCEPT ![b.next] = 0], b.next, size)
  BY Zenon, <1>1, <1>4, DiffersExcept
<1>6. IsBuffer(c, size)
  BY Zenon, <1>1, <1>3, <1>5 DEF IsBuffer, ReadBuffer
<1>7. /\ c.next = (b.next + 1) % b.size /\ c.remaining = b.remaining - 1 /\ c.size = b.size
      /\ c.error_occurred = b.error_occurred /\ c.storage = [b.storage EXCEPT ![b.next] = 0]
  BY DEF IsBuffer, ReadBuffer
<1>. HIDE DEF c
<1>8. Remaining(b) = <<Oldest(b)>> \o Remaining(c)
  <2>1. PICK x, y : x = b.storage /\ y = c.storage
    BY Zenon
  <2>2. x \in [0 .. size - 1 -> Octets] /\ Differs(x, y, m, size)
    BY Zenon, <1>1, <1>2, <1>5, <1>7, <2>1
  <2>3. Window(x, m, k, size) = <<x[m]>> \o Window(y, (m + 1) % size, k - 1, size)
    BY ZenonT(60), <2>2, TakeFromWindow
  <2>. QED BY Zenon, <1>1, <1>2, <1>7, <2>1, <2>3 DEF Remaining, Oldest
<1>9. Oldest(b) \in Octets
  BY Zenon, <1>1 DEF Oldest
<1>. QED BY Zenon, <1>6, <1>7, <1>8, <1>9 DEF c

LEMMA BufferStore ==
  ASSUME NEW size \in Nat \ {0}, NEW b, IsBuffer(b, size), b.remaining # b.size, NEW d \in Octets
  PROVE  /\ IsBuffer(Store(b, d), size) /\ Store(b, d).error_occurred = b.error_occurred
         /\ Remaining(Store(b, d)) = Remaining(b) \o <<d>>
<1>. DEFINE c == Store(b, d)
            e == (b.next + b.remaining) % b.size
<1>1. /\ b.size = size /\ b.remaining \in 0 .. size /\ b.next \in 0 .. size - 1
      /\ b.storage \in [0 .. size - 1 -> Octets] /\ b.error_occurred \in BOOLEAN
  BY Zenon, BufferBasics
<1>2. PICK m \in 0 .. size - 1, k \in 0 .. size - 1 : m = b.next /\ k = b.remaining
  <2>1. b.remaining \in 0 .. size - 1
    BY <1>1
  <2>. QED BY Zenon, <1>1, <2>1
<1>3. e \in 0 .. size - 1 /\ b.remaining + 1 \in 0 .. size /\ e = (m + k) % size
  <2>1. (m + k) % size \in 0 .. size - 1 /\ k + 1 \in 0 .. size
    OBVIOUS
  <2>. QED BY Zenon, <1>1, <1>2, <2>1
<1>4. /\ [b.storage EXCEPT ![e] = d] \in [0 .. size - 1 -> Octets]
      /\ Differs(b.storage, [b.storage EXCEPT ![e] = d], e, size)
      /\ [b.storage EXCEPT ![e] = d][e] = d
  <2>. HIDE DEF e
  <2>1. PICK f \in [0 .. size - 1 -> Octets], a \in 0 .. size - 1 : f = b.storage /\ a = e
    BY Zenon, <1>1, <1>3
  <2>2. /\ [f EXCEPT ![a] = d] \in [0 .. size - 1 -> Octets]
        /\ Differs(f, [f EXCEPT ![a] = d], a, size) /\ [f EXCEPT ![a] = d][a] = d
    BY Zenon, DiffersExcept
  <2>. QED BY Zenon, <2>1, <2>2
<1>5. IsBuffer(c, size)
  BY Zenon, <1>1, <1>3, <1>4 DEF IsBuffer, Store
<1>6. /\ c.next = b.next /\ c.remaining = b.remaining + 1 /\ c.size = b.size
      /\ c.error_occurred = b.error_occurred /\ c.storage = [b.storage EXCEPT ![e] = d]
  BY DEF IsBuffer, Store
<1>. HIDE DEF c, e
<1>7. Remaining(c) = Remaining(b) \o <<d>>
  <2>1. PICK x, y : x = b.storage /\ y = c.storage
    BY Zenon
  <2>2. x \in [0 .. size - 1 -> Octets] /\ Differs(x, y, (m + k) % size, size)
    BY Zenon, <1>1, <1>3, <1>4, <1>6, <2>1
  <2>3. Window(y, m, k + 1, size) = Window(x, m, k, size) \o <<y[(m + k) % size]>>
    BY ZenonT(60), <2>2, AddToWindow
  <2>4. y[(m + k) % size] = d
    BY Zenon, <1>3, <1>4, <1>6, <2>1
  <2>. QED BY Zenon, <1>1, <1>2, <1>6, <2>1, <2>3, <2>4 DEF Remaining
<1>. QED BY Zenon, <1>5, <1>6, <1>7 DEF c

LEMMA BufferNew ==
  ASSUME NEW size \in Nat \ {0}
  PROVE  /\ IsBuffer(Buffer(size), size) /\ Remaining(Buffer(size)) = <<>>
         /\ Buffer(size).error_occurred = FALSE
<1>1. 0 \in Octets
  BY Zenon, DataOctets
<1>2. [k \in 0 .. (size - 1) |-> 0] \in [0 .. size - 1 -> Octets] /\ 0 \in 0 .. size - 1 /\ 0 \in 0 .. size
  BY <1>1
<1>3. IsBuffer(Buffer(size), size) /\ Buffer(size).error_occurred = FALSE /\ Buffer(size).remaining = 0
  BY <1>2 DEF IsBuffer, Buffer
<1>. QED BY Zenon, <1>3, NoWindow DEF Remaining

LEMMA BufferCleared ==
  /\ Remaining(Cleared) = <<>> /\ Cleared.error_occurred = FALSE /\ Cleared.remaining = 0
<1>1. Cleared.error_occurred = FALSE /\ Cleared.remaining = 0
  BY DEF Cleared, Buffer
<1>. QED BY Zenon, <1>1, NoWindow DEF Remaining

LEMMA BufferErrs ==
  ASSUME NEW size \in Nat \ {0}, NEW b, IsBuffer(b, size)
  PROVE  LET c == [b EXCEPT !.error_occurred = TRUE]
         IN  IsBuffer(c, size) /\ Remaining(c) = Remaining(b) /\ c.error_occurred = TRUE
<1>. DEFINE c == [b EXCEPT !.error_occurred = TRUE]
<1>1. IsBuffer(c, size)
  BY Zenon DEF IsBuffer
<1>2. c.next = b.next /\ c.remaining = b.remaining /\ c.size = b.size /\ c.storage = b.storage
      /\ c.error_occurred = TRUE
  BY DEF IsBuffer
<1>. HIDE DEF c
<1>3. Remaining(c) = Remaining(b)
  BY Zenon, <1>2 DEF Remaining
<1>. QED BY Zenon, <1>1, <1>2, <1>3 DEF c

-----------------------------------------------------------------------------
(* Steps of the LPC11Uxx. *)

LEMMA LpcFacts ==
  ASSUME LpcInv
  PROVE  /\ LineTypes /\ LpcBuffers /\ LpcControl /\ ~garbled
         /\ Link(packet, tester, LpcUp, LpcDown, LpcLeft, credit, receive_buffer.error_occurred,
                 LpcReceives, RECEIVE_BUFFER_SIZE)
         /\ packet \in Lengths /\ holding \in Seq(Octets) /\ LpcSends \in Nat
         /\ Remaining(receive_buffer) \in Seq(Octets) /\ Remaining(transmit_buffer) \in Seq(Octets)
         /\ call # "cleared" => /\ IsBuffer(transmit_buffer, TRANSMIT_BUFFER_SIZE)
                                /\ IsBuffer(receive_buffer, RECEIVE_BUFFER_SIZE)
         /\ ~Awaiting /\ call # "halted" => LpcSends > 0
<1>1. /\ LineTypes /\ LpcBuffers /\ LpcControl /\ ~garbled
      /\ Link(packet, tester, LpcUp, LpcDown, LpcLeft, credit, receive_buffer.error_occurred,
              LpcReceives, RECEIVE_BUFFER_SIZE)
  BY Zenon DEF LpcInv
<1>2. packet \in Lengths
  BY Zenon, <1>1 DEF Link, Turns
<1>3. call # "cleared" => /\ IsBuffer(transmit_buffer, TRANSMIT_BUFFER_SIZE)
                          /\ IsBuffer(receive_buffer, RECEIVE_BUFFER_SIZE)
  BY Zenon, <1>1 DEF LpcBuffers
<1>4. Remaining(receive_buffer) \in Seq(Octets) /\ Remaining(transmit_buffer) \in Seq(Octets)
  <2>1. CASE call = "cleared"
    <3>1. <<>> \in Seq(Octets)
      OBVIOUS
    <3>. QED BY Zenon, <1>1, <2>1, <3>1, BufferCleared DEF LpcBuffers
  <2>2. CASE call # "cleared"
    BY Zenon, <1>3, <2>2, BufferBasics, Sizes
  <2>. QED BY Zenon, <2>1, <2>2
<1>5. LpcSends \in Nat /\ holding \in Seq(Octets)
  BY Zenon, <1>1 DEF LpcControl, LpcBuffers
<1>6. ~Awaiting /\ call # "halted" => LpcSends # 0
  BY Zenon, <1>1 DEF LpcControl
<1>7. LpcSends # 0 => LpcSends > 0
  BY <1>5
<1>. QED BY Zenon, <1>1, <1>2, <1>3, <1>4, <1>5, <1>6, <1>7

\* The bytes to the host.
LEMMA LpcDownTypes ==
  ASSUME LpcInv
  PROVE  /\ inbox \in Seq(Octets) /\ line \in Seq(Octets) /\ todo \in Seq(Octets) /\ wire \in Seq(Octets)
         /\ credit \in Seq(Octets)
         /\ Remaining(transmit_buffer) \o todo \in Seq(Octets)
         /\ holding \o (Remaining(transmit_buffer) \o todo) \in Seq(Octets)
         /\ line \o (holding \o (Remaining(transmit_buffer) \o todo)) \in Seq(Octets)
<1>1. PICK r : r = Remaining(transmit_buffer)
  OBVIOUS
<1>2. /\ inbox \in Seq(Octets) /\ line \in Seq(Octets) /\ todo \in Seq(Octets) /\ holding \in Seq(Octets)
      /\ r \in Seq(Octets) /\ wire \in Seq(Octets) /\ credit \in Seq(Octets)
  BY Zenon, <1>1, LpcFacts DEF LineTypes
<1>3. r \o todo \in Seq(Octets)
  BY <1>2
<1>4. holding \o (r \o todo) \in Seq(Octets)
  BY <1>2, <1>3
<1>5. line \o (holding \o (r \o todo)) \in Seq(Octets)
  BY <1>2, <1>4
<1>. QED BY Zenon, <1>1, <1>2, <1>3, <1>4, <1>5

\* The bytes to the host, when todo is added to.
LEMMA LpcDownRear ==
  ASSUME LpcInv, todo = <<>>, NEW more \in Seq(Octets)
  PROVE  inbox \o (line \o (holding \o (Remaining(transmit_buffer) \o more))) = LpcDown \o more
<1>1. PICK r : r = Remaining(transmit_buffer)
  OBVIOUS
<1>2. /\ inbox \in Seq(Octets) /\ line \in Seq(Octets) /\ holding \in Seq(Octets) /\ r \in Seq(Octets)
  BY Zenon, <1>1, LpcFacts, LpcDownTypes
<1>3. holding \o r \in Seq(Octets)
  BY <1>2
<1>4. (holding \o r) \o more = holding \o (r \o more)
  <2>1. holding \in Seq(Octets) /\ r \in Seq(Octets)
    BY Zenon, <1>2
  <2>. QED BY ZenonT(30), <2>1, Associative
<1>5. Queues(inbox, line, holding \o r, more)
  BY Zenon, <1>2, <1>3 DEF Queues
<1>6. inbox \o (line \o ((holding \o r) \o more)) = (inbox \o (line \o (holding \o r))) \o more
  BY SMTT(20), <1>5, Rear
<1>7. r \o <<>> = r
  BY <1>2
<1>. QED BY Zenon, <1>1, <1>4, <1>6, <1>7 DEF LpcDown

\* Calls that differ only in whether the device sleeps.
SameCall(c, d) ==
  \/ c = d
  \/ {c, d} \subseteq {"read", "read drowsy", "read asleep"}
  \/ {c, d} \subseteq {"readCredit", "readCredit drowsy", "readCredit asleep"}
  \/ {c, d} \subseteq {"write", "write drowsy", "write asleep"}

LEMMA SameCalls ==
  ASSUME SameCall(call, call'), LpcControl, packet' = packet, todo' = todo, holding' = holding, races' = races,
         saved' = saved, transmit_acknowledge' = transmit_acknowledge, receive_acknowledge' = receive_acknowledge
  PROVE  /\ LpcControl' /\ LpcLeft' = LpcLeft /\ LpcReceives' = LpcReceives
         /\ call' = "cleared" <=> call = "cleared"
<1>1. /\ LpcWriting' <=> LpcWriting
      /\ Awaiting' <=> Awaiting
      /\ Notifying' <=> Notifying
      /\ call' = "cleared" <=> call = "cleared"
      /\ call' = "halted" <=> call = "halted"
      /\ call' = "notify of put" <=> call = "notify of put"
      /\ call' = "notify of get" <=> call = "notify of get"
      /\ call' \in {"sanitise", "cleared"} <=> call \in {"sanitise", "cleared"}
      /\ call \in {"idle", "read", "read drowsy", "read asleep", "sanitise", "cleared", "halted"}
         => call' \in {"idle", "read", "read drowsy", "read asleep", "sanitise", "cleared", "halted"}
  BY DEF SameCall, LpcWriting, Awaiting, Notifying
<1>2. LpcSends' = LpcSends /\ LpcReceives' = LpcReceives
  BY Zenon, <1>1 DEF LpcSends, LpcReceives
<1>3. LpcLeft' = LpcLeft
  BY Zenon, <1>1, <1>2 DEF LpcLeft
<1>4. LpcControl'
  BY Zenon, <1>1, <1>2 DEF LpcControl
<1>. QED BY Zenon, <1>1, <1>2, <1>3, <1>4

LEMMA WokenSame == SameCall(call, Woken)
<1>1. DOMAIN Asleep = {"read", "readCredit", "write"}
  BY DEF Asleep
<1>2. /\ Asleep["read"] = "read asleep" /\ Asleep["readCredit"] = "readCredit asleep"
      /\ Asleep["write"] = "write asleep"
  BY DEF Asleep
<1>3. CASE \E p \in DOMAIN Asleep : call = Asleep[p]
  <2>1. Woken \in DOMAIN Asleep /\ call = Asleep[Woken]
    BY Zenon, <1>3 DEF Woken
  <2>2. PICK w : w = Woken
    OBVIOUS
  <2>3. w \in {"read", "readCredit", "write"} /\ call = Asleep[w]
    BY Zenon, <1>1, <2>1, <2>2
  <2>4. SameCall(call, w)
    BY <1>2, <2>3 DEF SameCall
  <2>. QED BY Zenon, <2>2, <2>4
<1>4. CASE ~\E p \in DOMAIN Asleep : call = Asleep[p]
  BY Zenon, <1>4 DEF Woken, SameCall
<1>. QED BY Zenon, <1>3, <1>4

LEMMA LpcSleeps ==
  ASSUME LpcInv, Wait \/ enterSleepMode
  PROVE  LpcInv'
<1>1. /\ wire' = wire /\ line' = line /\ inbox' = inbox /\ tester' = tester /\ packet' = packet
      /\ garbled' = garbled /\ todo' = todo /\ credit' = credit /\ transmit_buffer' = transmit_buffer
      /\ receive_buffer' = receive_buffer /\ receive_acknowledge' = receive_acknowledge
      /\ transmit_acknowledge' = transmit_acknowledge /\ holding' = holding /\ saved' = saved
      /\ errors' = errors /\ races' = races
  BY Zenon DEF Wait, enterSleepMode, linkVars
<1>2. /\ DOMAIN Drowsy = {"read", "readCredit", "write"}
      /\ Drowsy["read"] = "read drowsy" /\ Drowsy["readCredit"] = "readCredit drowsy"
      /\ Drowsy["write"] = "write drowsy"
      /\ Asleep["read"] = "read asleep" /\ Asleep["readCredit"] = "readCredit asleep"
      /\ Asleep["write"] = "write asleep"
  BY DEF Drowsy, Asleep
<1>3. SameCall(call, call')
  <2>1. CASE Wait
    <3>1. call \in {"read", "readCredit", "write"}
      BY <2>1 DEF Wait, MustWait
    <3>2. call' = Drowsy[call] \/ call' = Asleep[call]
      BY Zenon, <2>1 DEF Wait
    <3>. QED BY <1>2, <3>1, <3>2 DEF SameCall
  <2>2. CASE enterSleepMode
    <3>1. PICK p \in {"read", "readCredit", "write"} : call = Drowsy[p] /\ call' = Asleep[p]
      BY Zenon, <1>2, <2>2 DEF enterSleepMode
    <3>. QED BY <1>2, <3>1 DEF SameCall
  <2>. QED BY Zenon, <2>1, <2>2
<1>4. /\ LpcControl' /\ LpcLeft' = LpcLeft /\ LpcReceives' = LpcReceives /\ (call' = "cleared" <=> call = "cleared")
  BY Zenon, <1>1, <1>3, LpcFacts, SameCalls
<1>5. LpcBuffers' /\ LineTypes'
  BY Zenon, <1>1, <1>4, LpcFacts DEF LpcBuffers, LineTypes
<1>6. LpcUp' = LpcUp /\ LpcDown' = LpcDown
  BY Zenon, <1>1 DEF LpcUp, LpcDown
<1>. QED BY Zenon, <1>1, <1>4, <1>5, <1>6, LpcFacts DEF LpcInv

\* Between two calls, and where a call begins or ends.
LEMMA LpcRuns ==
  ASSUME LpcInv, call \in {"idle", "read", "sanitise"}
  PROVE  /\ ~LpcWriting /\ call # "cleared" /\ todo = <<>> /\ holding = <<>>
         /\ LpcSends = transmit_acknowledge /\ LpcReceives = receive_acknowledge
         /\ LpcLeft = transmit_acknowledge /\ transmit_acknowledge \in Nat /\ transmit_acknowledge > 0
<1>1. /\ ~LpcWriting /\ ~Awaiting /\ ~Notifying /\ call # "cleared" /\ call # "halted" /\ call # "notify of put"
  BY DEF LpcWriting, Awaiting, Notifying
<1>2. LpcSends = transmit_acknowledge /\ LpcReceives = receive_acknowledge /\ LpcLeft = LpcSends
  BY Zenon, <1>1 DEF LpcSends, LpcReceives, LpcLeft
<1>3. todo = <<>> /\ holding = <<>>
  BY Zenon, <1>1, LpcFacts DEF LpcControl
<1>. QED BY Zenon, <1>1, <1>2, <1>3, LpcFacts

LEMMA LpcReturns ==
  ASSUME call' \in {"idle", "read", "sanitise"}, transmit_acknowledge' \in Nat \ {0}, todo' = <<>>, holding' = <<>>,
         call' = "sanitise" => packet'.reply > 0 /\ packet'.put = 0
  PROVE  /\ LpcControl' /\ call' # "cleared" /\ LpcLeft' = transmit_acknowledge'
         /\ LpcReceives' = receive_acknowledge'
<1>1. /\ ~LpcWriting' /\ ~Awaiting' /\ ~Notifying' /\ call' # "cleared" /\ call' # "halted"
      /\ call' # "notify of put" /\ call' # "notify of get"
      /\ call' \in {"sanitise", "cleared"} => call' = "sanitise"
      /\ call' \in {"idle", "read", "read drowsy", "read asleep", "sanitise", "cleared", "halted"}
  BY DEF LpcWriting, Awaiting, Notifying
<1>2. LpcSends' = transmit_acknowledge' /\ LpcReceives' = receive_acknowledge' /\ LpcLeft' = transmit_acknowledge'
  BY Zenon, <1>1 DEF LpcSends, LpcReceives, LpcLeft
<1>3. transmit_acknowledge' \in Nat /\ transmit_acknowledge' # 0
  OBVIOUS
<1>4. LpcControl'
  BY Zenon, <1>1, <1>2, <1>3 DEF LpcControl
<1>. QED BY Zenon, <1>1, <1>2, <1>4

\* A write begins.
LEMMA LpcWrites ==
  ASSUME call' = "write", transmit_acknowledge' \in Nat \ {0}, todo' # <<>>, holding' = <<>>,
         packet'.put > 0 => Len(todo') = 1
  PROVE  /\ LpcControl' /\ call' # "cleared"
         /\ LpcLeft' = IF packet'.put > 0 THEN transmit_acknowledge' - 1 ELSE transmit_acknowledge'
         /\ LpcReceives' = receive_acknowledge'
<1>1. /\ LpcWriting' /\ ~Awaiting' /\ ~Notifying' /\ call' # "cleared" /\ call' # "halted"
      /\ call' # "notify of put" /\ call' # "notify of get" /\ call' \notin {"sanitise", "cleared"}
  BY DEF LpcWriting, Awaiting, Notifying
<1>2. LpcSends' = transmit_acknowledge' /\ LpcReceives' = receive_acknowledge'
  BY Zenon, <1>1 DEF LpcSends, LpcReceives
<1>3. LpcLeft' = IF packet'.put > 0 THEN transmit_acknowledge' - 1 ELSE transmit_acknowledge'
  BY Zenon, <1>1, <1>2 DEF LpcLeft
<1>4. transmit_acknowledge' \in Nat /\ transmit_acknowledge' # 0
  OBVIOUS
<1>5. LpcControl'
  BY Zenon, <1>1, <1>2, <1>4 DEF LpcControl
<1>. QED BY Zenon, <1>1, <1>2, <1>3, <1>5

LEMMA LpcBegins ==
  ASSUME LpcInv, LpcBegin
  PROVE  LpcInv'
<1>1. /\ call = "idle" /\ wire' = wire /\ line' = line /\ inbox' = inbox /\ tester' = tester
      /\ garbled' = garbled /\ credit' = credit /\ transmit_buffer' = transmit_buffer
      /\ receive_buffer' = receive_buffer /\ receive_acknowledge' = receive_acknowledge
      /\ transmit_acknowledge' = transmit_acknowledge /\ holding' = holding /\ saved' = saved
      /\ errors' = errors /\ races' = races
  BY Zenon DEF LpcBegin, Begin, lpcVars
<1>2. /\ call # "cleared" /\ todo = <<>> /\ holding = <<>> /\ LpcReceives = receive_acknowledge
      /\ LpcLeft = transmit_acknowledge /\ transmit_acknowledge \in Nat /\ transmit_acknowledge > 0
      /\ transmit_acknowledge' \in Nat \ {0}
  <2>1. call \in {"idle", "read", "sanitise"}
    BY <1>1
  <2>2. /\ call # "cleared" /\ todo = <<>> /\ holding = <<>> /\ LpcReceives = receive_acknowledge
        /\ LpcLeft = transmit_acknowledge /\ transmit_acknowledge \in Nat /\ transmit_acknowledge > 0
    BY Zenon, <2>1, LpcRuns
  <2>3. transmit_acknowledge \in Nat \ {0}
    BY <2>2
  <2>. QED BY Zenon, <1>1, <2>2, <2>3
<1>3. LpcUp' = LpcUp
  BY Zenon, <1>1 DEF LpcUp
<1>4. ASSUME call' # "cleared" PROVE LpcBuffers'
  BY Zenon, <1>1, <1>2, <1>4, LpcFacts DEF LpcBuffers
<1>5. ASSUME ~Replying PROVE LpcInv'
  <2>1. call' = "read" /\ todo' = todo /\ packet' = packet
    BY Zenon, <1>5 DEF LpcBegin, Begin
  <2>2. call' \in {"idle", "read", "sanitise"} /\ call' # "sanitise"
    BY <2>1
  <2>3. LpcControl' /\ call' # "cleared" /\ LpcLeft' = transmit_acknowledge' /\ LpcReceives' = receive_acknowledge'
    BY Zenon, <1>1, <1>2, <2>1, <2>2, LpcReturns
  <2>4. LpcDown' = LpcDown
    BY Zenon, <1>1, <2>1 DEF LpcDown
  <2>5. LineTypes' /\ LpcBuffers'
    BY Zenon, <1>1, <1>4, <2>1, <2>3, LpcFacts DEF LineTypes
  <2>. QED BY Zenon, <1>1, <1>2, <1>3, <2>1, <2>3, <2>4, <2>5, LpcFacts DEF LpcInv
<1>6. ASSUME Replying PROVE LpcInv'
  <2>1. call' = "write" /\ todo' = <<Data(packet.put)>>
    BY Zenon, <1>6 DEF LpcBegin, Begin
  <2>2. Puts(packet, packet') /\ packet'.put > 0
    BY Zenon, <1>6, BeginPuts, LpcFacts DEF LpcBegin
  <2>3. Data(packet.put) \in Octets
    <3>1. packet \in Lengths
      BY Zenon, LpcFacts
    <3>2. packet.put \in Nat
      BY <3>1 DEF Lengths
    <3>. QED BY Zenon, <3>2, DataOctets
  <2>4. todo' \in Seq(Octets) /\ Len(todo') = 1 /\ todo' # <<>>
    BY <2>1, <2>3
  <2>5. LpcControl' /\ call' # "cleared" /\ LpcLeft' = transmit_acknowledge' - 1 /\ LpcReceives' = receive_acknowledge'
    BY Zenon, <1>1, <1>2, <2>1, <2>2, <2>4, LpcWrites
  <2>6. LpcDown' = LpcDown \o <<Data(packet.put)>>
    <3>1. <<Data(packet.put)>> \in Seq(Octets)
      BY Zenon, <2>1, <2>4
    <3>2. inbox \o (line \o (holding \o (Remaining(transmit_buffer) \o <<Data(packet.put)>>)))
            = LpcDown \o <<Data(packet.put)>>
      BY Zenon, <1>2, <3>1, LpcDownRear
    <3>. QED BY Zenon, <1>1, <2>1, <3>2 DEF LpcDown
  <2>7. LpcLeft' = LpcLeft - 1
    BY Zenon, <1>1, <1>2, <2>5
  <2>8. Link(packet', tester, LpcUp, LpcDown \o <<Data(packet.put)>>, LpcLeft - 1, credit,
             receive_buffer.error_occurred,
             LpcReceives, RECEIVE_BUFFER_SIZE)
    BY Zenon, <1>2, <2>2, LpcFacts, LinkPut, Sizes
  <2>9. LineTypes' /\ LpcBuffers'
    BY Zenon, <1>1, <1>4, <2>4, <2>5, LpcFacts DEF LineTypes
  <2>. QED BY Zenon, <1>1, <1>2, <1>3, <2>5, <2>6, <2>7, <2>8, <2>9, LpcFacts DEF LpcInv
<1>. QED BY Zenon, <1>5, <1>6

\* A byte is taken out of the receive buffer.
LEMMA LpcTakes ==
  ASSUME LpcInv, call # "cleared", receive_buffer.remaining # 0
  PROVE  /\ IsBuffer(ReadBuffer(receive_buffer), RECEIVE_BUFFER_SIZE) /\ Oldest(receive_buffer) \in Octets
         /\ ReadBuffer(receive_buffer).error_occurred = receive_buffer.error_occurred
         /\ Remaining(ReadBuffer(receive_buffer)) \o wire \in Seq(Octets)
         /\ LpcUp = <<Oldest(receive_buffer)>> \o (Remaining(ReadBuffer(receive_buffer)) \o wire)
<1>. DEFINE c == ReadBuffer(receive_buffer)
            x == Oldest(receive_buffer)
<1>1. IsBuffer(receive_buffer, RECEIVE_BUFFER_SIZE) /\ wire \in Seq(Octets)
  BY Zenon, LpcFacts, LpcDownTypes
<1>2. /\ IsBuffer(c, RECEIVE_BUFFER_SIZE) /\ x \in Octets /\ c.error_occurred = receive_buffer.error_occurred
      /\ Remaining(receive_buffer) = <<x>> \o Remaining(c)
  BY Zenon, <1>1, BufferRead, Sizes
<1>3. Remaining(c) \in Seq(Octets)
  BY Zenon, <1>2, BufferBasics, Sizes
<1>. HIDE DEF c, x
<1>4. Remaining(c) \o wire \in Seq(Octets)
  BY Zenon, <1>1, <1>2, <1>3, Plain
<1>5. <<x>> \in Seq(Octets)
  BY <1>2
<1>6. (<<x>> \o Remaining(c)) \o wire = <<x>> \o (Remaining(c) \o wire)
  BY Zenon, <1>1, <1>3, <1>5, Associative
<1>. QED BY Zenon, <1>2, <1>4, <1>6 DEF LpcUp, c, x

\* The device stops at a byte that was received wrongly.
LEMMA LpcHalts ==
  ASSUME LpcInv, call \in {"read", "readCredit"}, call' = "halted", UNCHANGED linkVars, UNCHANGED <<todo, credit>>,
         UNCHANGED lpcVars
  PROVE  LpcInv'
<1>1. /\ wire' = wire /\ line' = line /\ inbox' = inbox /\ tester' = tester /\ packet' = packet
      /\ garbled' = garbled /\ todo' = todo /\ credit' = credit /\ transmit_buffer' = transmit_buffer
      /\ receive_buffer' = receive_buffer /\ receive_acknowledge' = receive_acknowledge
      /\ transmit_acknowledge' = transmit_acknowledge /\ holding' = holding /\ saved' = saved
      /\ errors' = errors /\ races' = races
  BY Zenon DEF linkVars, lpcVars
<1>2. /\ ~LpcWriting /\ ~Notifying /\ call # "cleared" /\ call # "notify of put"
  BY DEF LpcWriting, Notifying
<1>3. /\ ~LpcWriting' /\ ~Awaiting' /\ ~Notifying' /\ call' # "cleared"
      /\ call' # "notify of put" /\ call' # "notify of get" /\ call' \notin {"sanitise", "cleared"}
      /\ call' \in {"idle", "read", "read drowsy", "read asleep", "sanitise", "cleared", "halted"}
  BY DEF LpcWriting, Awaiting, Notifying
<1>4. LpcSends' = LpcSends /\ LpcReceives' = LpcReceives /\ LpcLeft' = LpcLeft
  BY Zenon, <1>1, <1>2, <1>3 DEF LpcSends, LpcReceives, LpcLeft
<1>5. LpcControl'
  BY Zenon, <1>1, <1>2, <1>3, <1>4, LpcFacts DEF LpcControl
<1>6. LpcBuffers' /\ LineTypes'
  BY Zenon, <1>1, <1>2, <1>3, LpcFacts DEF LpcBuffers, LineTypes
<1>7. LpcUp' = LpcUp /\ LpcDown' = LpcDown
  BY Zenon, <1>1 DEF LpcUp, LpcDown
<1>. QED BY Zenon, <1>1, <1>4, <1>5, <1>6, <1>7, LpcFacts DEF LpcInv

LEMMA LpcGets ==
  ASSUME LpcInv, LpcGet
  PROVE  LpcInv'
<1>. DEFINE c == ReadBuffer(receive_buffer)
            x == Oldest(receive_buffer)
            rest == Remaining(c) \o wire
<1>1. /\ call = "read" /\ ~MustWait /\ wire' = wire /\ line' = line /\ inbox' = inbox /\ tester' = tester
      /\ transmit_buffer' = transmit_buffer /\ transmit_acknowledge' = transmit_acknowledge
      /\ holding' = holding /\ credit' = credit /\ saved' = saved /\ errors' = errors /\ races' = races /\ thre' = thre
  BY Zenon DEF LpcGet
<1>2. call \in {"idle", "read", "sanitise"} /\ call \in {"read", "readCredit"}
  BY <1>1
<1>3. ASSUME receive_buffer.error_occurred PROVE LpcInv'
  <2>1. /\ call' = "halted" /\ packet' = packet /\ garbled' = garbled /\ receive_buffer' = receive_buffer
        /\ receive_acknowledge' = receive_acknowledge /\ todo' = todo
    BY Zenon, <1>3 DEF LpcGet
  <2>2. UNCHANGED linkVars /\ UNCHANGED <<todo, credit>> /\ UNCHANGED lpcVars
    BY Zenon, <1>1, <2>1 DEF linkVars, lpcVars
  <2>. QED BY Zenon, <1>2, <2>1, <2>2, LpcHalts
<1>4. ASSUME ~receive_buffer.error_occurred PROVE LpcInv'
  <2>1. receive_buffer' = c /\ Got(x)
    BY Zenon, <1>4 DEF LpcGet
  <2>2. /\ call # "cleared" /\ todo = <<>> /\ holding = <<>> /\ LpcReceives = receive_acknowledge
        /\ LpcLeft = transmit_acknowledge /\ transmit_acknowledge \in Nat /\ transmit_acknowledge > 0
    BY Zenon, <1>2, LpcRuns
  <2>3. transmit_acknowledge' \in Nat \ {0}
    BY <1>1, <2>2
  <2>4. /\ IsBuffer(c, RECEIVE_BUFFER_SIZE) /\ x \in Octets /\ c.error_occurred = receive_buffer.error_occurred
        /\ rest \in Seq(Octets) /\ LpcUp = <<x>> \o rest
    <3>1. receive_buffer.remaining # 0
      BY Zenon, <1>1, <1>2 DEF MustWait, isCircularBufferEmpty
    <3>. QED BY Zenon, <2>2, <3>1, LpcTakes
  <2>5. LpcUp' = rest
    BY Zenon, <1>1, <2>1 DEF LpcUp
  <2>. HIDE DEF c, x, rest
  <2>6. receive_buffer.error_occurred = FALSE /\ c.error_occurred = FALSE
    <3>1. receive_buffer.error_occurred \in BOOLEAN
      BY Zenon, <2>2, LpcFacts, BufferBasics, Sizes
    <3>2. receive_buffer.error_occurred = FALSE
      BY Zenon, <1>4, <3>1
    <3>. QED BY Zenon, <2>4, <3>2
  <2>7. Gets(packet, packet') /\ (~garbled /\ x = Data(packet.got) => ~garbled')
    BY Zenon, <2>1, LpcFacts, GotGets
  <2>8. Link(packet, tester, <<x>> \o rest, LpcDown, LpcLeft, credit, FALSE, receive_acknowledge,
             RECEIVE_BUFFER_SIZE) /\ LpcLeft > 0
    BY Zenon, <2>2, <2>4, <2>6, LpcFacts
  <2>9. /\ x = Data(packet.got) /\ packet.put = 0 /\ Len(LpcDown) = 0
        /\ receive_acknowledge = 1 => Link(packet', tester, rest, Acknowledgement(RECEIVE_BUFFER_SIZE),
                                           LpcLeft, credit, FALSE,
                                           RECEIVE_BUFFER_SIZE, RECEIVE_BUFFER_SIZE)
        /\ receive_acknowledge # 1 => Link(packet', tester, rest, <<>>, LpcLeft, credit, FALSE, receive_acknowledge - 1,
                                           RECEIVE_BUFFER_SIZE)
    <3>1. x \in Octets /\ rest \in Seq(Octets) /\ Gets(packet, packet') /\ RECEIVE_BUFFER_SIZE \in Intervals
      BY Zenon, <2>4, <2>7, Sizes
    <3>. QED BY Zenon, <2>8, <3>1, LinkGet
  <2>10. ~garbled' /\ packet'.put = 0
    BY Zenon, <2>7, <2>9, LpcFacts DEF Gets
  <2>11. LpcDown = <<>> /\ \A s \in Seq(Octets) : LpcDown \o s = s
    <3>1. LpcDown \in Seq(Octets)
      BY Zenon, <2>8 DEF Link
    <3>. QED BY <2>9, <3>1
  <2>12. ASSUME call' # "cleared" PROVE LpcBuffers'
    BY Zenon, <1>1, <2>1, <2>2, <2>4, <2>6, <2>12, LpcFacts DEF LpcBuffers
  <2>13. ASSUME receive_acknowledge = 1 PROVE LpcInv'
    <3>1. receive_acknowledge' = RECEIVE_BUFFER_SIZE /\ todo' = Acknowledgement(RECEIVE_BUFFER_SIZE) /\ call' = "write"
      BY Zenon, <1>4, <2>13 DEF LpcGet
    <3>2. Acknowledgement(RECEIVE_BUFFER_SIZE) \in Seq(Octets)
          /\ Len(Acknowledgement(RECEIVE_BUFFER_SIZE)) = 1 + AckBytes /\ AckBytes \in Nat
      BY Zenon, AcknowledgementBasics, Sizes
    <3>3. todo' \in Seq(Octets) /\ todo' # <<>>
      BY <3>1, <3>2
    <3>4. ~(packet'.put > 0)
      BY <2>10
    <3>5. LpcControl' /\ call' # "cleared" /\ LpcLeft' = transmit_acknowledge' /\ LpcReceives' = receive_acknowledge'
      BY Zenon, <1>1, <2>2, <2>3, <3>1, <3>3, <3>4, LpcWrites
    <3>6. LpcDown' = Acknowledgement(RECEIVE_BUFFER_SIZE)
      <4>1. inbox \o (line \o (holding \o (Remaining(transmit_buffer) \o Acknowledgement(RECEIVE_BUFFER_SIZE))))
              = LpcDown \o Acknowledgement(RECEIVE_BUFFER_SIZE)
        BY Zenon, <2>2, <3>2, LpcDownRear
      <4>2. LpcDown \o Acknowledgement(RECEIVE_BUFFER_SIZE) = Acknowledgement(RECEIVE_BUFFER_SIZE)
        BY Zenon, <2>11, <3>2
      <4>. QED BY Zenon, <1>1, <3>1, <4>1, <4>2 DEF LpcDown
    <3>7. LineTypes'
      BY Zenon, <1>1, <3>3, LpcFacts DEF LineTypes
    <3>. QED BY Zenon, <1>1, <2>1, <2>2, <2>5, <2>6, <2>9, <2>10, <2>12, <2>13, <3>1, <3>5, <3>6, <3>7 DEF LpcInv
  <2>14. ASSUME receive_acknowledge # 1 PROVE LpcInv'
    <3>1. /\ receive_acknowledge' = receive_acknowledge - 1 /\ todo' = todo
          /\ call' \in IF packet'.reply > 0 THEN {"idle", "sanitise"} ELSE {"idle"}
      BY Zenon, <1>4, <2>14 DEF LpcGet
    <3>2. call' \in {"idle", "read", "sanitise"} /\ (call' = "sanitise" => packet'.reply > 0)
      BY <3>1
    <3>3. LpcControl' /\ call' # "cleared" /\ LpcLeft' = transmit_acknowledge' /\ LpcReceives' = receive_acknowledge'
      BY Zenon, <1>1, <2>2, <2>3, <2>10, <3>1, <3>2, LpcReturns
    <3>4. LpcDown' = LpcDown
      BY Zenon, <1>1, <3>1 DEF LpcDown
    <3>5. LineTypes'
      BY Zenon, <1>1, <3>1, LpcFacts DEF LineTypes
    <3>. QED BY Zenon, <1>1, <2>1, <2>2, <2>5, <2>6, <2>9, <2>10, <2>11, <2>12, <2>14, <3>1, <3>3, <3>4, <3>5 DEF LpcInv
  <2>. QED BY Zenon, <2>13, <2>14
<1>. QED BY Zenon, <1>3, <1>4

\* A byte enters the transmit buffer.
LEMMA LpcPuts ==
  ASSUME LpcInv, Put
  PROVE  LpcInv'
<1>. DEFINE d == Head(todo)
            T == Tail(todo)
            R == Remaining(transmit_buffer)
<1>1. /\ call = "write" /\ ~MustWait /\ wire' = wire /\ line' = line /\ inbox' = inbox /\ tester' = tester
      /\ packet' = packet
      /\ garbled' = garbled /\ todo' = T /\ credit' = credit /\ transmit_buffer' = Store(transmit_buffer, d)
      /\ receive_buffer' = receive_buffer /\ receive_acknowledge' = receive_acknowledge
      /\ transmit_acknowledge' = transmit_acknowledge /\ holding' = holding /\ saved' = saved
      /\ errors' = errors /\ races' = races
      /\ call' = IF T # <<>> THEN "write" ELSE IF packet.put > 0 THEN "notify of put" ELSE "notify of get"
  BY Zenon DEF Put, linkVars
<1>2. /\ LpcWriting /\ ~Awaiting /\ ~Notifying /\ call # "cleared" /\ call # "halted" /\ call # "notify of put"
  BY <1>1 DEF LpcWriting, Awaiting, Notifying
<1>3. /\ todo # <<>> /\ (packet.put > 0 => Len(todo) = 1) /\ holding = <<>> /\ LpcSends \in Nat /\ LpcSends > 0
      /\ LpcSends = transmit_acknowledge /\ LpcReceives = receive_acknowledge
      /\ packet \in Lengths /\ todo \in Seq(Octets)
  BY Zenon, <1>2, LpcFacts DEF LpcControl, LpcSends, LpcReceives, LineTypes
<1>4. todo = <<d>> \o T /\ d \in Octets /\ T \in Seq(Octets) /\ Len(T) = Len(todo) - 1
  BY Zenon, <1>3, Split
<1>5. IsBuffer(transmit_buffer, TRANSMIT_BUFFER_SIZE) /\ transmit_buffer.remaining # transmit_buffer.size
      /\ R \in Seq(Octets)
  BY Zenon, <1>1, <1>2, LpcFacts DEF MustWait
<1>6. IsBuffer(transmit_buffer', TRANSMIT_BUFFER_SIZE) /\ Remaining(transmit_buffer') = R \o <<d>>
  BY ZenonT(60), <1>1, <1>4, <1>5, BufferStore, Sizes
<1>. HIDE DEF d, T, R
<1>7. LpcDown' = LpcDown
  <2>1. (R \o <<d>>) \o T = R \o (<<d>> \o T)
    BY Zenon, <1>4, <1>5, Forward
  <2>. QED BY Zenon, <1>1, <1>4, <1>6, <2>1 DEF LpcDown, R
<1>8. LpcUp' = LpcUp
  BY Zenon, <1>1 DEF LpcUp
<1>9. LpcControl' /\ call' # "cleared" /\ LpcLeft' = LpcLeft /\ LpcReceives' = receive_acknowledge
  <2>1. LpcLeft = IF packet.put > 0 THEN transmit_acknowledge - 1 ELSE transmit_acknowledge
    BY Zenon, <1>2, <1>3 DEF LpcLeft
  <2>2. transmit_acknowledge' \in Nat \ {0}
    <3>1. transmit_acknowledge \in Nat /\ transmit_acknowledge > 0
      BY Zenon, <1>3
    <3>2. transmit_acknowledge \in Nat \ {0}
      BY <3>1
    <3>. QED BY Zenon, <1>1, <3>2
  <2>3. CASE T # <<>>
    <3>1. ~(packet'.put > 0)
      <4>1. Len(T) # 0
        BY <1>4, <2>3
      <4>2. Len(todo) # 1
        BY <1>3, <1>4, <4>1
      <4>. QED BY Zenon, <1>1, <1>3, <4>2
    <3>2. LpcControl' /\ call' # "cleared" /\ LpcLeft' = transmit_acknowledge' /\ LpcReceives' = receive_acknowledge'
      BY Zenon, <1>1, <1>3, <2>2, <2>3, <3>1, LpcWrites
    <3>. QED BY Zenon, <1>1, <2>1, <3>1, <3>2
  <2>4. CASE T = <<>>
    <3>1. call' = IF packet.put > 0 THEN "notify of put" ELSE "notify of get"
      BY Zenon, <1>1, <2>4
    <3>2. /\ ~LpcWriting' /\ ~Awaiting' /\ Notifying' /\ call' # "cleared" /\ call' \notin {"sanitise", "cleared"}
          /\ (call' = "notify of put" <=> packet.put > 0) /\ (call' = "notify of get" => ~(packet.put > 0))
      BY <3>1 DEF LpcWriting, Awaiting, Notifying
    <3>3. LpcSends' = transmit_acknowledge /\ LpcReceives' = receive_acknowledge
      BY Zenon, <1>1, <3>2 DEF LpcSends, LpcReceives
    <3>4. LpcLeft' = LpcLeft
      BY Zenon, <2>1, <3>2, <3>3 DEF LpcLeft
    <3>5. ~(packet.put > 0) => packet.put = 0
      BY <1>3 DEF Lengths
    <3>6. transmit_acknowledge \in Nat /\ transmit_acknowledge # 0
      BY <1>3
    <3>7. LpcControl'
      BY Zenon, <1>1, <1>3, <2>4, <3>2, <3>3, <3>5, <3>6 DEF LpcControl
    <3>. QED BY Zenon, <3>2, <3>3, <3>4, <3>7
  <2>. QED BY Zenon, <2>3, <2>4
<1>10. LpcBuffers' /\ LineTypes'
  BY Zenon, <1>1, <1>2, <1>4, <1>6, <1>9, LpcFacts DEF LpcBuffers, LineTypes
<1>. QED BY Zenon, <1>1, <1>3, <1>7, <1>8, <1>9, <1>10, LpcFacts DEF LpcInv

LEMMA AfterNotifies ==
  ASSUME LpcInv, Notifying, AfterNotify, packet' = packet, todo' = todo, holding' = <<>>,
         receive_acknowledge' = receive_acknowledge
  PROVE  LpcControl' /\ call # "cleared" /\ call' # "cleared" /\ LpcLeft' = LpcLeft /\ LpcReceives' = LpcReceives
<1>1. /\ ~LpcWriting /\ ~Awaiting /\ call # "cleared" /\ call # "halted" /\ call \in {"notify of put", "notify of get"}
  BY DEF LpcWriting, Awaiting, Notifying
<1>2. /\ todo' = <<>> /\ LpcSends \in Nat /\ LpcSends > 0
      /\ LpcSends = transmit_acknowledge /\ LpcReceives = receive_acknowledge
  BY Zenon, <1>1, LpcFacts DEF LpcControl, LpcSends, LpcReceives
<1>3. transmit_acknowledge \in Nat /\ transmit_acknowledge > 0
  BY Zenon, <1>2
<1>4. CASE call = "notify of put"
  <2>1. /\ transmit_acknowledge' = transmit_acknowledge - 1
        /\ call' = IF transmit_acknowledge = 1 THEN "readCredit" ELSE "idle"
    BY Zenon, <1>4 DEF AfterNotify
  <2>2. LpcLeft = transmit_acknowledge - 1
    BY Zenon, <1>2, <1>4 DEF LpcLeft
  <2>3. CASE transmit_acknowledge = 1
    <3>1. call' = "readCredit" /\ transmit_acknowledge' = 0
      BY <2>1, <2>3
    <3>2. /\ ~LpcWriting' /\ Awaiting' /\ ~Notifying' /\ call' # "cleared" /\ call' \notin {"sanitise", "cleared"}
          /\ call' # "notify of put" /\ call' # "notify of get" /\ 0 \in Nat
      BY <3>1 DEF LpcWriting, Awaiting, Notifying
    <3>3. LpcSends' = transmit_acknowledge' /\ LpcReceives' = receive_acknowledge' /\ LpcLeft' = transmit_acknowledge'
      BY Zenon, <3>2 DEF LpcSends, LpcReceives, LpcLeft
    <3>4. LpcControl'
      BY Zenon, <1>2, <3>1, <3>2, <3>3 DEF LpcControl
    <3>. QED BY Zenon, <1>1, <1>2, <2>1, <2>2, <3>2, <3>3, <3>4
  <2>4. CASE transmit_acknowledge # 1
    <3>1. transmit_acknowledge' \in Nat \ {0} /\ call' \in {"idle", "read", "sanitise"} /\ call' # "sanitise"
      BY <1>3, <2>1, <2>4
    <3>2. LpcControl' /\ call' # "cleared" /\ LpcLeft' = transmit_acknowledge' /\ LpcReceives' = receive_acknowledge'
      BY Zenon, <1>2, <3>1, LpcReturns
    <3>. QED BY Zenon, <1>1, <1>2, <2>1, <2>2, <3>2
  <2>. QED BY Zenon, <2>3, <2>4
<1>5. CASE call # "notify of put"
  <2>1. /\ transmit_acknowledge' = transmit_acknowledge
        /\ call' \in IF packet.reply > 0 THEN {"idle", "sanitise"} ELSE {"idle"}
    BY Zenon, <1>5 DEF AfterNotify
  <2>2. LpcLeft = transmit_acknowledge
    BY Zenon, <1>1, <1>2, <1>5 DEF LpcLeft
  <2>3. packet'.put = 0
    BY Zenon, <1>1, <1>5, LpcFacts DEF LpcControl
  <2>4. transmit_acknowledge' \in Nat \ {0} /\ call' \in {"idle", "read", "sanitise"}
        /\ (call' = "sanitise" => packet'.reply > 0)
    BY <1>3, <2>1
  <2>5. LpcControl' /\ call' # "cleared" /\ LpcLeft' = transmit_acknowledge' /\ LpcReceives' = receive_acknowledge'
    BY Zenon, <1>2, <2>3, <2>4, LpcReturns
  <2>. QED BY Zenon, <1>1, <1>2, <2>1, <2>2, <2>5
<1>. QED BY Zenon, <1>4, <1>5

\* The oldest byte of the transmit buffer enters the register.
LEMMA LpcTransmits ==
  ASSUME LpcInv, call # "cleared", transmit_buffer.remaining # 0, holding = <<>>, line = <<>>
  PROVE  /\ IsBuffer(ReadBuffer(transmit_buffer), TRANSMIT_BUFFER_SIZE) /\ Oldest(transmit_buffer) \in Octets
         /\ LpcDown = inbox \o (<<Oldest(transmit_buffer)>> \o (Remaining(ReadBuffer(transmit_buffer)) \o todo))
         /\ Remaining(ReadBuffer(transmit_buffer)) \o todo \in Seq(Octets)
         /\ <<Oldest(transmit_buffer)>> \in Seq(Octets)
<1>. DEFINE c == ReadBuffer(transmit_buffer)
            x == Oldest(transmit_buffer)
<1>1. IsBuffer(transmit_buffer, TRANSMIT_BUFFER_SIZE) /\ todo \in Seq(Octets)
  BY Zenon, LpcFacts, LpcDownTypes
<1>2. IsBuffer(c, TRANSMIT_BUFFER_SIZE) /\ x \in Octets /\ Remaining(transmit_buffer) = <<x>> \o Remaining(c)
  BY Zenon, <1>1, BufferRead, Sizes
<1>3. Remaining(c) \in Seq(Octets)
  BY Zenon, <1>2, BufferBasics, Sizes
<1>. HIDE DEF c, x
<1>4. Remaining(c) \o todo \in Seq(Octets)
  BY Zenon, <1>1, <1>2, <1>3, Plain
<1>5. <<x>> \in Seq(Octets)
  BY <1>2
<1>6. (<<x>> \o Remaining(c)) \o todo = <<x>> \o (Remaining(c) \o todo)
  BY Zenon, <1>1, <1>3, <1>5, Associative
<1>7. LpcDown = inbox \o (Remaining(transmit_buffer) \o todo)
  <2>1. PICK s : s = Remaining(transmit_buffer) \o todo
    BY Zenon
  <2>2. s \in Seq(Octets)
    BY Zenon, <2>1, LpcDownTypes
  <2>3. <<>> \o s = s
    BY <2>2
  <2>. QED BY Zenon, <2>1, <2>3 DEF LpcDown
<1>. QED BY Zenon, <1>2, <1>4, <1>5, <1>6, <1>7 DEF c, x

LEMMA LpcNotifies ==
  ASSUME LpcInv, serialSendNotify
  PROVE  LpcInv'
<1>. DEFINE c == ReadBuffer(transmit_buffer)
            x == Oldest(transmit_buffer)
<1>1. /\ wire' = wire /\ inbox' = inbox /\ tester' = tester /\ packet' = packet /\ holding = <<>>
      /\ garbled' = garbled /\ todo' = todo /\ credit' = credit
      /\ receive_buffer' = receive_buffer /\ receive_acknowledge' = receive_acknowledge
      /\ saved' = saved /\ errors' = errors /\ races' = races /\ Notifying
  BY Zenon DEF serialSendNotify, Notifying
<1>2. LpcUp' = LpcUp
  BY Zenon, <1>1 DEF LpcUp
<1>3. call # "cleared"
  BY <1>1 DEF Notifying
<1>4. CASE ~(~isCircularBufferEmpty(transmit_buffer) /\ line = <<>>)
  <2>1. AfterNotify /\ transmit_buffer' = transmit_buffer /\ line' = line /\ holding' = holding
    BY Zenon, <1>4 DEF serialSendNotify
  <2>2. LpcControl' /\ call' # "cleared" /\ LpcLeft' = LpcLeft /\ LpcReceives' = LpcReceives
    BY Zenon, <1>1, <2>1, AfterNotifies
  <2>3. LpcDown' = LpcDown
    BY Zenon, <1>1, <2>1 DEF LpcDown
  <2>4. LpcBuffers' /\ LineTypes'
    BY Zenon, <1>1, <1>3, <2>1, <2>2, LpcFacts DEF LpcBuffers, LineTypes
  <2>. QED BY Zenon, <1>1, <1>2, <2>2, <2>3, <2>4, LpcFacts DEF LpcInv
<1>5. CASE ~isCircularBufferEmpty(transmit_buffer) /\ line = <<>>
  <2>1. transmit_buffer' = c
    BY Zenon, <1>5 DEF serialSendNotify
  <2>2. /\ IsBuffer(c, TRANSMIT_BUFFER_SIZE) /\ x \in Octets /\ <<x>> \in Seq(Octets)
        /\ LpcDown = inbox \o (<<x>> \o (Remaining(c) \o todo)) /\ Remaining(c) \o todo \in Seq(Octets)
    BY Zenon, <1>1, <1>3, <1>5, LpcTransmits DEF isCircularBufferEmpty
  <2>3. CASE "notify" \in races
    <3>1. holding' = <<x>> /\ line' = line /\ call' = call /\ transmit_acknowledge' = transmit_acknowledge
      BY Zenon, <1>5, <2>3 DEF serialSendNotify
    <3>. HIDE DEF c, x
    <3>2. LpcDown' = LpcDown
      <4>1. PICK s : s = <<x>> \o (Remaining(c) \o todo)
        BY Zenon
      <4>2. s \in Seq(Octets)
        BY <2>2, <4>1
      <4>3. <<>> \o s = s
        BY <4>2
      <4>4. LpcDown' = inbox \o (<<>> \o s)
        BY Zenon, <1>1, <1>5, <2>1, <3>1, <4>1 DEF LpcDown
      <4>. QED BY Zenon, <2>2, <4>1, <4>3, <4>4
    <3>3. LpcLeft' = LpcLeft /\ LpcReceives' = LpcReceives /\ LpcSends' = LpcSends /\ Notifying'
      BY Zenon, <1>1, <3>1 DEF LpcLeft, LpcReceives, LpcSends, LpcWriting, Notifying
    <3>4. LpcControl'
      <4>1. (LpcWriting' <=> LpcWriting) /\ (Awaiting' <=> Awaiting)
        BY Zenon, <3>1 DEF LpcWriting, Awaiting
      <4>. QED BY Zenon, <1>1, <2>3, <3>1, <3>3, <4>1, LpcFacts DEF LpcControl
    <3>5. LpcBuffers' /\ LineTypes'
      BY Zenon, <1>1, <1>3, <2>1, <2>2, <3>1, LpcFacts DEF LpcBuffers, LineTypes
    <3>. QED BY Zenon, <1>1, <1>2, <3>2, <3>3, <3>4, <3>5, LpcFacts DEF LpcInv
  <2>4. CASE "notify" \notin races
    <3>1. holding' = holding /\ line' = <<x>> /\ AfterNotify
      BY Zenon, <1>5, <2>4 DEF serialSendNotify
    <3>2. LpcControl' /\ call' # "cleared" /\ LpcLeft' = LpcLeft /\ LpcReceives' = LpcReceives
      BY Zenon, <1>1, <3>1, AfterNotifies
    <3>. HIDE DEF c, x
    <3>3. LpcDown' = LpcDown
      <4>1. <<>> \o (Remaining(c) \o todo) = Remaining(c) \o todo
        BY <2>2
      <4>2. LpcDown' = inbox \o (<<x>> \o (<<>> \o (Remaining(c) \o todo)))
        BY Zenon, <1>1, <2>1, <3>1 DEF LpcDown
      <4>. QED BY Zenon, <2>2, <4>1, <4>2
    <3>4. LpcBuffers' /\ LineTypes'
      BY Zenon, <1>1, <1>3, <2>1, <2>2, <3>1, <3>2, LpcFacts DEF LpcBuffers, LineTypes
    <3>. QED BY Zenon, <1>1, <1>2, <3>2, <3>3, <3>4, LpcFacts DEF LpcInv
  <2>. QED BY Zenon, <2>3, <2>4
<1>. QED BY Zenon, <1>4, <1>5

LEMMA LpcWritesHeld ==
  ASSUME LpcInv, WriteHeld
  PROVE  LpcInv'
<1>1. /\ wire' = wire /\ inbox' = inbox /\ tester' = tester /\ packet' = packet /\ holding # <<>>
      /\ garbled' = garbled /\ todo' = todo /\ credit' = credit /\ transmit_buffer' = transmit_buffer
      /\ receive_buffer' = receive_buffer /\ receive_acknowledge' = receive_acknowledge
      /\ saved' = saved /\ errors' = errors /\ races' = races /\ AfterNotify
      /\ line' = line \o holding /\ holding' = <<>>
  BY Zenon DEF WriteHeld
<1>2. Notifying
  BY Zenon, <1>1, LpcFacts DEF LpcControl
<1>3. LpcControl' /\ call # "cleared" /\ call' # "cleared" /\ LpcLeft' = LpcLeft /\ LpcReceives' = LpcReceives
  BY Zenon, <1>1, <1>2, AfterNotifies
<1>4. LpcUp' = LpcUp
  BY Zenon, <1>1 DEF LpcUp
<1>5. LpcDown' = LpcDown
  <2>1. PICK s : s = Remaining(transmit_buffer) \o todo
    BY Zenon
  <2>2. s \in Seq(Octets) /\ line \in Seq(Octets) /\ holding \in Seq(Octets)
    BY Zenon, <2>1, LpcDownTypes, LpcFacts
  <2>3. <<>> \o s = s
    BY <2>2
  <2>4. (line \o holding) \o s = line \o (holding \o s)
    BY Zenon, <2>2, Associative
  <2>5. LpcDown' = inbox \o ((line \o holding) \o (<<>> \o s))
    BY Zenon, <1>1, <2>1 DEF LpcDown
  <2>6. LpcDown = inbox \o (line \o (holding \o s))
    BY Zenon, <2>1 DEF LpcDown
  <2>. QED BY Zenon, <2>3, <2>4, <2>5, <2>6
<1>6. line' \in Seq(Octets) /\ holding' \in Seq(Octets)
  <2>1. line \in Seq(Octets) /\ holding \in Seq(Octets)
    BY Zenon, LpcDownTypes, LpcFacts
  <2>. QED BY <1>1, <2>1
<1>7. LpcBuffers' /\ LineTypes'
  BY Zenon, <1>1, <1>3, <1>6, LpcFacts DEF LpcBuffers, LineTypes
<1>. QED BY Zenon, <1>1, <1>3, <1>4, <1>5, <1>7, LpcFacts DEF LpcInv

LEMMA LpcReadsCredit ==
  ASSUME LpcInv, LpcReadCredit
  PROVE  LpcInv'
<1>. DEFINE c == ReadBuffer(receive_buffer)
            x == Oldest(receive_buffer)
            rest == Remaining(c) \o wire
<1>1. /\ call = "readCredit" /\ ~MustWait /\ wire' = wire /\ line' = line /\ inbox' = inbox /\ tester' = tester
      /\ packet' = packet /\ garbled' = garbled /\ todo' = todo
      /\ transmit_buffer' = transmit_buffer /\ receive_acknowledge' = receive_acknowledge
      /\ holding' = holding /\ saved' = saved /\ errors' = errors /\ races' = races /\ thre' = thre
  BY Zenon DEF LpcReadCredit, linkVars
<1>2. call \in {"read", "readCredit"}
  BY <1>1
<1>3. ASSUME receive_buffer.error_occurred PROVE LpcInv'
  <2>1. /\ call' = "halted" /\ receive_buffer' = receive_buffer /\ credit' = credit
        /\ transmit_acknowledge' = transmit_acknowledge
    BY Zenon, <1>3 DEF LpcReadCredit
  <2>2. UNCHANGED linkVars /\ UNCHANGED <<todo, credit>> /\ UNCHANGED lpcVars
    BY Zenon, <1>1, <2>1 DEF linkVars, lpcVars
  <2>. QED BY Zenon, <1>2, <2>1, <2>2, LpcHalts
<1>4. ASSUME ~receive_buffer.error_occurred PROVE LpcInv'
  <2>1. /\ ~LpcWriting /\ Awaiting /\ ~Notifying /\ call # "cleared" /\ call # "notify of put" /\ call # "notify of get"
        /\ call \notin {"sanitise", "cleared"}
    BY <1>1 DEF LpcWriting, Awaiting, Notifying
  <2>2. /\ todo = <<>> /\ holding = <<>> /\ LpcSends = transmit_acknowledge /\ LpcReceives = receive_acknowledge
        /\ LpcLeft = transmit_acknowledge /\ transmit_acknowledge = 0
    BY Zenon, <2>1, LpcFacts DEF LpcControl, LpcSends, LpcReceives, LpcLeft
  <2>3. /\ IsBuffer(c, RECEIVE_BUFFER_SIZE) /\ x \in Octets /\ c.error_occurred = receive_buffer.error_occurred
        /\ rest \in Seq(Octets) /\ LpcUp = <<x>> \o rest
    <3>1. receive_buffer.remaining # 0
      BY Zenon, <1>1, <1>2 DEF MustWait, isCircularBufferEmpty
    <3>. QED BY Zenon, <2>1, <3>1, LpcTakes
  <2>4. receive_buffer' = c
    BY Zenon, <1>4 DEF LpcReadCredit
  <2>5. LpcUp' = rest /\ LpcDown' = LpcDown
    BY Zenon, <1>1, <2>4 DEF LpcUp, LpcDown
  <2>. HIDE DEF c, x, rest
  <2>6. receive_buffer.error_occurred = FALSE /\ c.error_occurred = FALSE
    <3>1. receive_buffer.error_occurred \in BOOLEAN
      BY Zenon, <2>1, LpcFacts, BufferBasics, Sizes
    <3>2. receive_buffer.error_occurred = FALSE
      BY Zenon, <1>4, <3>1
    <3>. QED BY Zenon, <2>3, <3>2
  <2>7. credit \in Seq(Octets) /\ <<x>> \in Seq(Octets) /\ Append(credit, x) = credit \o <<x>>
        /\ credit \o <<x>> \in Seq(Octets) /\ Len(credit \o <<x>>) = Len(credit) + 1
        /\ (credit = <<>> => Len(credit) = 0)
    <3>1. credit \in Seq(Octets) /\ x \in Octets
      BY Zenon, <2>3, LpcDownTypes
    <3>. QED BY <3>1
  <2>8. Link(packet, tester, <<x>> \o rest, LpcDown, 0, credit, FALSE, receive_acknowledge, RECEIVE_BUFFER_SIZE)
    BY Zenon, <2>2, <2>3, <2>6, LpcFacts
  <2>9. /\ Len(credit) = 0 => x = FF
        /\ Len(credit) + 1 = 1 + AckBytes =>
             /\ Number(Tail(credit \o <<x>>)) = RX_ACKNOWLEDGE_INTERVAL
             /\ Link(packet, tester, rest, LpcDown, RX_ACKNOWLEDGE_INTERVAL, <<>>, FALSE, receive_acknowledge,
                     RECEIVE_BUFFER_SIZE)
        /\ Len(credit) + 1 # 1 + AckBytes =>
             Link(packet, tester, rest, LpcDown, 0, credit \o <<x>>, FALSE, receive_acknowledge, RECEIVE_BUFFER_SIZE)
    BY Zenon, <2>3, <2>8, LinkCredit
  <2>10. (IF credit = <<>> /\ x # FF THEN <<>> ELSE Append(credit, x)) = credit \o <<x>>
    BY Zenon, <2>7, <2>9
  <2>11. IF Len(credit \o <<x>>) = 1 + AckBytes
         THEN transmit_acknowledge' = Number(Tail(credit \o <<x>>)) /\ credit' = <<>> /\ call' = "idle"
         ELSE credit' = credit \o <<x>> /\ transmit_acknowledge' = transmit_acknowledge /\ call' = call
    BY Zenon, <1>4, <2>10 DEF LpcReadCredit, x
  <2>12. ASSUME call' # "cleared" PROVE LpcBuffers'
    BY Zenon, <1>1, <2>1, <2>3, <2>4, <2>12, LpcFacts DEF LpcBuffers
  <2>13. CASE Len(credit) + 1 = 1 + AckBytes
    <3>1. transmit_acknowledge' = RX_ACKNOWLEDGE_INTERVAL /\ credit' = <<>> /\ call' = "idle"
      BY Zenon, <2>7, <2>9, <2>11, <2>13
    <3>2. call' \in {"idle", "read", "sanitise"} /\ call' # "sanitise"
      BY <3>1
    <3>3. transmit_acknowledge' \in Nat \ {0}
      BY Zenon, <3>1, SerialAssumption
    <3>4. LpcControl' /\ call' # "cleared" /\ LpcLeft' = transmit_acknowledge' /\ LpcReceives' = receive_acknowledge'
      BY Zenon, <1>1, <2>2, <3>2, <3>3, LpcReturns
    <3>5. credit' \in Seq(Octets)
      BY <3>1
    <3>6. LineTypes' /\ LpcBuffers'
      BY Zenon, <1>1, <2>12, <3>4, <3>5, LpcFacts DEF LineTypes
    <3>. QED BY Zenon, <1>1, <2>4, <2>5, <2>6, <2>9, <2>13, <3>1, <3>4, <3>6, LpcFacts DEF LpcInv
  <2>14. CASE Len(credit) + 1 # 1 + AckBytes
    <3>1. credit' = credit \o <<x>> /\ transmit_acknowledge' = transmit_acknowledge /\ call' = call
      BY Zenon, <2>7, <2>11, <2>14
    <3>2. SameCall(call, call')
      BY Zenon, <3>1 DEF SameCall
    <3>3. LpcControl' /\ call' # "cleared" /\ LpcLeft' = LpcLeft /\ LpcReceives' = LpcReceives
      BY Zenon, <1>1, <2>1, <3>1, <3>2, LpcFacts, SameCalls
    <3>4. LineTypes' /\ LpcBuffers'
      BY Zenon, <1>1, <2>7, <2>12, <3>1, <3>3, LpcFacts DEF LineTypes
    <3>. QED BY Zenon, <1>1, <2>2, <2>4, <2>5, <2>6, <2>9, <2>14, <3>1, <3>3, <3>4, LpcFacts DEF LpcInv
  <2>. QED BY Zenon, <2>13, <2>14
<1>. QED BY Zenon, <1>3, <1>4

\* Before the first byte of a reply, nothing is on its way to the device.
LEMMA LpcQuiet ==
  ASSUME LpcInv, call \in {"sanitise", "cleared"}
  PROVE  /\ wire = <<>> /\ todo = <<>> /\ holding = <<>> /\ LpcLeft = LpcSends /\ LpcSends \in Nat /\ LpcSends > 0
         /\ packet.reply > 0 /\ packet.put = 0
         /\ \A w : Link(packet, tester, <<>>, LpcDown, LpcLeft, credit, w, LpcReceives, RECEIVE_BUFFER_SIZE)
<1>1. /\ ~LpcWriting /\ ~Awaiting /\ ~Notifying /\ call # "halted" /\ call # "notify of put"
  BY DEF LpcWriting, Awaiting, Notifying
<1>2. /\ LpcLeft = LpcSends /\ LpcSends \in Nat /\ LpcSends > 0 /\ packet.reply > 0 /\ packet.put = 0
      /\ todo = <<>> /\ holding = <<>>
  BY Zenon, <1>1, LpcFacts DEF LpcControl, LpcLeft
<1>3. /\ Len(LpcUp) = 0
      /\ \A w : Link(packet, tester, <<>>, LpcDown, LpcLeft, credit, w, LpcReceives, RECEIVE_BUFFER_SIZE)
  <2>1. LpcLeft > 0
    BY Zenon, <1>2
  <2>. QED BY Zenon, <1>2, <2>1, LpcFacts, LinkReplies
<1>4. wire = <<>>
  <2>1. PICK s : s = Remaining(receive_buffer)
    OBVIOUS
  <2>2. s \in Seq(Octets) /\ wire \in Seq(Octets) /\ Len(s \o wire) = 0
    BY Zenon, <1>3, <2>1, LpcFacts, LpcDownTypes DEF LpcUp
  <2>. QED BY <2>2
<1>. QED BY Zenon, <1>2, <1>3, <1>4

\* The buffers are empty, and were.
LEMMA LpcAfresh ==
  ASSUME LpcInv, call \in {"sanitise", "cleared"}, Remaining(transmit_buffer) = <<>>,
         UNCHANGED linkVars, todo' = todo, holding' = holding, credit' = credit,
         Remaining(transmit_buffer)' = <<>>, Remaining(receive_buffer)' = <<>>
  PROVE  /\ LpcUp' = <<>> /\ LpcDown' = LpcDown /\ LineTypes' /\ ~garbled'
         /\ packet' = packet /\ tester' = tester
<1>1. /\ wire' = wire /\ line' = line /\ inbox' = inbox /\ tester' = tester /\ packet' = packet /\ garbled' = garbled
  BY Zenon DEF linkVars
<1>2. LpcUp' = <<>>
  <2>1. <<>> \o <<>> = <<>>
    OBVIOUS
  <2>. QED BY Zenon, <1>1, <2>1, LpcQuiet DEF LpcUp
<1>3. LpcDown' = LpcDown
  BY Zenon, <1>1 DEF LpcDown
<1>. QED BY Zenon, <1>1, <1>2, <1>3, LpcFacts DEF LineTypes

LEMMA LpcSanitises ==
  ASSUME LpcInv, LpcSanitiseRam
  PROVE  LpcInv'
<1>1. /\ call = "sanitise" /\ UNCHANGED linkVars /\ todo' = todo /\ holding' = holding /\ credit' = credit
      /\ errors' = errors /\ races' = races /\ isCircularBufferEmpty(transmit_buffer)
  BY Zenon DEF LpcSanitiseRam
<1>2. call \in {"idle", "read", "sanitise"} /\ call \in {"sanitise", "cleared"}
  BY <1>1
<1>3. /\ call # "cleared" /\ todo = <<>> /\ holding = <<>> /\ LpcReceives = receive_acknowledge
      /\ LpcLeft = transmit_acknowledge /\ transmit_acknowledge \in Nat /\ transmit_acknowledge > 0
      /\ packet.reply > 0 /\ packet.put = 0
      /\ \A w : Link(packet, tester, <<>>, LpcDown, LpcLeft, credit, w, LpcReceives, RECEIVE_BUFFER_SIZE)
  BY Zenon, <1>2, LpcRuns, LpcQuiet
<1>4. Remaining(transmit_buffer) = <<>>
  <2>1. Remaining(transmit_buffer) \in Seq(Octets) /\ Len(Remaining(transmit_buffer)) = 0
    BY Zenon, <1>1, <1>3, LpcFacts, BufferBasics, Sizes DEF isCircularBufferEmpty
  <2>. QED BY <2>1
<1>5. errors \in Nat /\ holding \in Seq(Octets)
  BY Zenon, LpcFacts DEF LpcBuffers
<1>6. CASE "sanitise" \in races
  <2>1. /\ transmit_buffer' = Cleared /\ receive_buffer' = Cleared
        /\ saved' = <<receive_acknowledge, transmit_acknowledge>> /\ call' = "cleared"
    BY Zenon, <1>6 DEF LpcSanitiseRam
  <2>2. /\ LpcUp' = <<>> /\ LpcDown' = LpcDown /\ LineTypes' /\ ~garbled' /\ packet' = packet /\ tester' = tester
    <3>1. Remaining(transmit_buffer)' = <<>> /\ Remaining(receive_buffer)' = <<>>
      BY Zenon, <2>1, BufferCleared
    <3>. QED BY Zenon, <1>1, <1>2, <1>4, <3>1, LpcAfresh
  <2>3. receive_acknowledge \in Nat
    <3>1. receive_acknowledge \in 1 .. RECEIVE_BUFFER_SIZE
      BY Zenon, <1>3, LpcFacts DEF Link
    <3>. QED BY <3>1, Sizes
  <2>4. saved' \in Nat \X Nat /\ saved'[1] = receive_acknowledge /\ saved'[2] = transmit_acknowledge
    BY <1>3, <2>1, <2>3
  <2>5. /\ ~LpcWriting' /\ ~Awaiting' /\ ~Notifying' /\ call' # "halted" /\ call' # "notify of put"
        /\ call' # "notify of get"
        /\ call' \in {"idle", "read", "read drowsy", "read asleep", "sanitise", "cleared", "halted"}
        /\ transmit_acknowledge # 0
    BY <1>3, <2>1 DEF LpcWriting, Awaiting, Notifying
  <2>6. LpcReceives' = receive_acknowledge /\ LpcSends' = transmit_acknowledge /\ LpcLeft' = transmit_acknowledge
    BY Zenon, <2>1, <2>4, <2>5 DEF LpcReceives, LpcSends, LpcLeft
  <2>7. LpcControl'
    BY Zenon, <1>1, <1>3, <2>2, <2>5, <2>6 DEF LpcControl
  <2>8. receive_buffer'.error_occurred = FALSE
    BY Zenon, <2>1, BufferCleared
  <2>9. LpcBuffers'
    BY Zenon, <1>1, <1>5, <2>1, <2>4, <2>8 DEF LpcBuffers
  <2>. QED BY Zenon, <1>1, <1>3, <2>2, <2>6, <2>7, <2>8, <2>9 DEF LpcInv
<1>7. CASE "sanitise" \notin races
  <2>1. /\ transmit_buffer' = Buffer(TRANSMIT_BUFFER_SIZE) /\ receive_buffer' = Buffer(RECEIVE_BUFFER_SIZE)
        /\ call' = "idle"
        /\ receive_acknowledge' = receive_acknowledge /\ transmit_acknowledge' = transmit_acknowledge
    BY Zenon, <1>7 DEF LpcSanitiseRam, initSerialFIFO
  <2>2. /\ Remaining(transmit_buffer)' = <<>> /\ Remaining(receive_buffer)' = <<>>
        /\ IsBuffer(transmit_buffer, TRANSMIT_BUFFER_SIZE)' /\ IsBuffer(receive_buffer, RECEIVE_BUFFER_SIZE)'
        /\ receive_buffer'.error_occurred = FALSE
    BY Zenon, <2>1, BufferNew, Sizes
  <2>3. /\ LpcUp' = <<>> /\ LpcDown' = LpcDown /\ LineTypes' /\ ~garbled' /\ packet' = packet /\ tester' = tester
    BY Zenon, <1>1, <1>2, <1>4, <2>2, LpcAfresh
  <2>4. transmit_acknowledge' \in Nat \ {0} /\ call' \in {"idle", "read", "sanitise"} /\ call' # "sanitise"
    BY <1>3, <2>1
  <2>5. LpcControl' /\ call' # "cleared" /\ LpcLeft' = transmit_acknowledge' /\ LpcReceives' = receive_acknowledge'
    BY Zenon, <1>1, <1>3, <2>4, LpcReturns
  <2>6. LpcBuffers'
    BY Zenon, <1>1, <1>5, <2>2, <2>5 DEF LpcBuffers
  <2>. QED BY Zenon, <1>1, <1>3, <2>1, <2>2, <2>3, <2>5, <2>6 DEF LpcInv
<1>. QED BY Zenon, <1>6, <1>7

LEMMA LpcReinitialises ==
  ASSUME LpcInv, Reinitialise
  PROVE  LpcInv'
<1>1. /\ call = "cleared" /\ UNCHANGED linkVars /\ todo' = todo /\ holding' = holding /\ credit' = credit
      /\ errors' = errors /\ races' = races /\ call' = "idle"
      /\ transmit_buffer' = Buffer(TRANSMIT_BUFFER_SIZE) /\ receive_buffer' = Buffer(RECEIVE_BUFFER_SIZE)
      /\ receive_acknowledge' = saved[1] /\ transmit_acknowledge' = saved[2]
  BY Zenon DEF Reinitialise, initSerialFIFO
<1>2. call \in {"sanitise", "cleared"}
  BY <1>1
<1>3. /\ todo = <<>> /\ holding = <<>> /\ LpcLeft = LpcSends /\ LpcSends \in Nat /\ LpcSends > 0
      /\ \A w : Link(packet, tester, <<>>, LpcDown, LpcLeft, credit, w, LpcReceives, RECEIVE_BUFFER_SIZE)
  BY Zenon, <1>2, LpcQuiet
<1>4. LpcSends = transmit_acknowledge' /\ LpcReceives = receive_acknowledge'
  BY Zenon, <1>1 DEF LpcSends, LpcReceives
<1>5. /\ Remaining(transmit_buffer)' = <<>> /\ Remaining(receive_buffer)' = <<>>
      /\ IsBuffer(transmit_buffer, TRANSMIT_BUFFER_SIZE)' /\ IsBuffer(receive_buffer, RECEIVE_BUFFER_SIZE)'
      /\ receive_buffer'.error_occurred = FALSE
  BY Zenon, <1>1, BufferNew, Sizes
<1>6. Remaining(transmit_buffer) = <<>> /\ errors \in Nat /\ holding \in Seq(Octets)
  BY Zenon, <1>1, LpcFacts, BufferCleared DEF LpcBuffers
<1>7. /\ LpcUp' = <<>> /\ LpcDown' = LpcDown /\ LineTypes' /\ ~garbled' /\ packet' = packet /\ tester' = tester
  BY Zenon, <1>1, <1>2, <1>5, <1>6, LpcAfresh
<1>8. LpcSends \in Nat \ {0} /\ call' \in {"idle", "read", "sanitise"} /\ call' # "sanitise"
  BY <1>1, <1>3
<1>9. LpcControl' /\ call' # "cleared" /\ LpcLeft' = transmit_acknowledge' /\ LpcReceives' = receive_acknowledge'
  BY Zenon, <1>1, <1>3, <1>4, <1>8, LpcReturns
<1>10. LpcBuffers'
  BY Zenon, <1>1, <1>5, <1>6, <1>9 DEF LpcBuffers
<1>. QED BY Zenon, <1>1, <1>3, <1>4, <1>5, <1>7, <1>9, <1>10 DEF LpcInv

LEMMA LpcReceivesByte ==
  ASSUME LpcInv, LpcReceiveInterrupt
  PROVE  LpcInv'
<1>. DEFINE H == Remaining(receive_buffer)
            d == Head(wire)
            W == Tail(wire)
<1>1. /\ line' = line /\ inbox' = inbox /\ tester' = tester /\ wire' = W /\ wire # <<>> /\ LpcInTime
      /\ packet' = packet /\ garbled' = garbled /\ credit' = credit /\ todo' = todo /\ call' = Woken /\ call # "halted"
      /\ receive_buffer' = WriteFromIrq(receive_buffer, d)
      /\ transmit_buffer' = transmit_buffer /\ receive_acknowledge' = receive_acknowledge
      /\ transmit_acknowledge' = transmit_acknowledge /\ holding' = holding /\ saved' = saved
      /\ errors' = errors /\ races' = races
  BY Zenon DEF LpcReceiveInterrupt
<1>2. call # "cleared"
  <2>1. call = "cleared" => call \in {"sanitise", "cleared"}
    OBVIOUS
  <2>. QED BY Zenon, <1>1, <2>1, LpcQuiet
<1>3. /\ IsBuffer(receive_buffer, RECEIVE_BUFFER_SIZE) /\ wire \in Seq(Octets) /\ H \in Seq(Octets)
      /\ wire = <<d>> \o W /\ d \in Octets /\ W \in Seq(Octets) /\ Len(wire) # 0
  <2>1. IsBuffer(receive_buffer, RECEIVE_BUFFER_SIZE) /\ wire \in Seq(Octets) /\ H \in Seq(Octets)
    BY Zenon, <1>2, LpcFacts, LpcDownTypes
  <2>2. wire = <<d>> \o W /\ d \in Octets /\ W \in Seq(Octets)
    BY Zenon, <1>1, <2>1, Split
  <2>3. Len(wire) # 0
    BY <1>1, <2>1
  <2>. QED BY Zenon, <2>1, <2>2, <2>3
<1>4. receive_buffer.remaining # receive_buffer.size
  <2>1. SUFFICES ASSUME receive_buffer.remaining = receive_buffer.size PROVE FALSE
    BY Zenon
  <2>2. receive_buffer.size = RECEIVE_BUFFER_SIZE /\ Len(H) = RECEIVE_BUFFER_SIZE /\ RECEIVE_BUFFER_SIZE \in Nat
    <3>1. RECEIVE_BUFFER_SIZE \in Nat \ {0} /\ RECEIVE_BUFFER_SIZE \in Nat
      BY Sizes
    <3>2. receive_buffer.size = RECEIVE_BUFFER_SIZE /\ Len(H) = receive_buffer.remaining
      BY Zenon, <1>3, <3>1, BufferBasics
    <3>. QED BY Zenon, <2>1, <3>1, <3>2
  <2>3. ~(receive_buffer.remaining < receive_buffer.size)
    BY <2>1, <2>2
  <2>4. call \notin {"notify of put", "readCredit", Drowsy["readCredit"], Asleep["readCredit"]}
    BY Zenon, <1>1, <2>3 DEF LpcInTime
  <2>5. Drowsy["readCredit"] = "readCredit drowsy" /\ Asleep["readCredit"] = "readCredit asleep"
    BY DEF Drowsy, Asleep
  <2>6. call # "notify of put" /\ ~Awaiting
    BY Zenon, <2>4, <2>5 DEF Awaiting
  <2>7. LpcLeft > 0 \/ Heard(tester) < packet.put
    <3>1. CASE LpcWriting /\ packet.put > 0
      <4>1. todo # <<>>
        BY Zenon, <3>1, LpcFacts DEF LpcControl
      <4>2. Len(LpcDown) # 0
        <5>1. PICK r : r = Remaining(transmit_buffer)
          OBVIOUS
        <5>2. r \in Seq(Octets) /\ todo \in Seq(Octets) /\ holding \in Seq(Octets) /\ line \in Seq(Octets)
              /\ inbox \in Seq(Octets)
          BY Zenon, <5>1, LpcFacts, LpcDownTypes
        <5>3. r \o todo \in Seq(Octets) /\ Len(r \o todo) > 0
          BY <4>1, <5>2
        <5>4. PICK s : s = r \o todo
          BY Zenon
        <5>5. s \in Seq(Octets) /\ Len(s) > 0
          BY Zenon, <5>3, <5>4
        <5>6. Len(inbox \o (line \o (holding \o s))) # 0
          BY <5>2, <5>5
        <5>. QED BY Zenon, <5>1, <5>4, <5>6 DEF LpcDown
      <4>. QED BY Zenon, <3>1, <4>2, LpcFacts, LinkPending
    <3>2. CASE ~(LpcWriting /\ packet.put > 0)
      BY Zenon, <1>1, <2>6, <3>2, LpcFacts DEF LpcLeft
    <3>. QED BY Zenon, <3>1, <3>2
  <2>8. Len(LpcUp) <= RECEIVE_BUFFER_SIZE
    BY Zenon, <2>2, <2>7, LpcFacts, LinkRoom
  <2>. HIDE DEF H
  <2>9. Len(H \o wire) > RECEIVE_BUFFER_SIZE
    BY <1>3, <2>2
  <2>10. Len(H \o wire) <= RECEIVE_BUFFER_SIZE
    BY Zenon, <2>8 DEF LpcUp, H
  <2>. QED BY SMTT(20), <1>3, <2>2, <2>9, <2>10
<1>5. receive_buffer' = Store(receive_buffer, d)
  BY Zenon, <1>1, <1>4 DEF WriteFromIrq
<1>6. /\ IsBuffer(receive_buffer', RECEIVE_BUFFER_SIZE) /\ Remaining(receive_buffer') = H \o <<d>>
      /\ receive_buffer'.error_occurred = receive_buffer.error_occurred
  BY Zenon, <1>3, <1>4, <1>5, BufferStore, Sizes
<1>. HIDE DEF H, d, W
<1>7. (H \o <<d>>) \o W = H \o (<<d>> \o W)
  BY Zenon, <1>3, Forward
<1>8. LpcUp' = LpcUp
  BY Zenon, <1>1, <1>3, <1>6, <1>7 DEF LpcUp, H
<1>9. LpcDown' = LpcDown
  BY Zenon, <1>1 DEF LpcDown
<1>10. LpcControl' /\ LpcLeft' = LpcLeft /\ LpcReceives' = LpcReceives /\ call' # "cleared"
  <2>1. SameCall(call, call')
    BY Zenon, <1>1, WokenSame
  <2>. QED BY Zenon, <1>1, <1>2, <2>1, LpcFacts, SameCalls
<1>11. LpcBuffers' /\ LineTypes'
  BY Zenon, <1>1, <1>2, <1>3, <1>6, <1>10, LpcFacts DEF LpcBuffers, LineTypes
<1>. QED BY Zenon, <1>1, <1>6, <1>8, <1>9, <1>10, <1>11, LpcFacts DEF LpcInv

\* The transmit interrupt must not hit serialSendNotify() between its two steps.
LEMMA LpcEmpties ==
  ASSUME LpcInv, TransmitInterrupt, holding # <<>> => transmit_buffer' = transmit_buffer
  PROVE  LpcInv'
<1>. DEFINE c == ReadBuffer(transmit_buffer)
            x == Oldest(transmit_buffer)
<1>1. /\ wire' = wire /\ inbox' = inbox /\ tester' = tester
      /\ packet' = packet /\ garbled' = garbled /\ credit' = credit /\ todo' = todo /\ call' = Woken
      /\ receive_buffer' = receive_buffer /\ receive_acknowledge' = receive_acknowledge
      /\ transmit_acknowledge' = transmit_acknowledge /\ holding' = holding /\ saved' = saved
      /\ errors' = errors /\ races' = races
  BY Zenon DEF TransmitInterrupt
<1>2. LpcControl' /\ LpcLeft' = LpcLeft /\ LpcReceives' = LpcReceives /\ (call' = "cleared" <=> call = "cleared")
  <2>1. SameCall(call, call')
    BY Zenon, <1>1, WokenSame
  <2>. QED BY Zenon, <1>1, <2>1, LpcFacts, SameCalls
<1>3. LpcUp' = LpcUp
  BY Zenon, <1>1 DEF LpcUp
<1>4. CASE ~(~isCircularBufferEmpty(transmit_buffer) /\ line = <<>>)
  <2>1. line' = line /\ transmit_buffer' = transmit_buffer
    BY Zenon, <1>4 DEF TransmitInterrupt
  <2>2. LpcDown' = LpcDown
    BY Zenon, <1>1, <2>1 DEF LpcDown
  <2>3. LpcBuffers' /\ LineTypes'
    BY Zenon, <1>1, <1>2, <2>1, LpcFacts DEF LpcBuffers, LineTypes
  <2>. QED BY Zenon, <1>1, <1>2, <1>3, <2>2, <2>3, LpcFacts DEF LpcInv
<1>5. CASE ~isCircularBufferEmpty(transmit_buffer) /\ line = <<>>
  <2>1. line' = <<x>> /\ transmit_buffer' = c
    BY Zenon, <1>5 DEF TransmitInterrupt
  <2>2. call # "cleared" /\ transmit_buffer.remaining # 0
    BY Zenon, <1>5, LpcFacts, BufferCleared DEF LpcBuffers, isCircularBufferEmpty
  <2>3. holding = <<>>
    <3>1. /\ transmit_buffer.remaining \in 0 .. TRANSMIT_BUFFER_SIZE
          /\ c.remaining = transmit_buffer.remaining - 1
      BY Zenon, <2>2, LpcFacts, BufferBasics, BufferRead, Sizes
    <3>2. c.remaining # transmit_buffer.remaining
      BY <3>1, Sizes
    <3>. QED BY Zenon, <2>1, <3>2
  <2>4. /\ IsBuffer(c, TRANSMIT_BUFFER_SIZE) /\ <<x>> \in Seq(Octets)
        /\ LpcDown = inbox \o (<<x>> \o (Remaining(c) \o todo)) /\ Remaining(c) \o todo \in Seq(Octets)
    BY Zenon, <1>5, <2>2, <2>3, LpcTransmits
  <2>. HIDE DEF c, x
  <2>5. LpcDown' = LpcDown
    <3>1. <<>> \o (Remaining(c) \o todo) = Remaining(c) \o todo
      BY <2>4
    <3>2. LpcDown' = inbox \o (<<x>> \o (<<>> \o (Remaining(c) \o todo)))
      BY Zenon, <1>1, <2>1, <2>3 DEF LpcDown
    <3>. QED BY Zenon, <2>4, <3>1, <3>2
  <2>6. LpcBuffers' /\ LineTypes'
    BY Zenon, <1>1, <1>2, <2>1, <2>2, <2>4, LpcFacts DEF LpcBuffers, LineTypes
  <2>. QED BY Zenon, <1>1, <1>2, <1>3, <2>5, <2>6, LpcFacts DEF LpcInv
<1>. QED BY Zenon, <1>4, <1>5

LEMMA LpcErrs ==
  ASSUME LpcInv, LineErrorInterrupt
  PROVE  LpcInv'
<1>1. /\ line' = line /\ inbox' = inbox /\ tester' = tester /\ wire # <<>>
      /\ packet' = packet /\ garbled' = garbled /\ credit' = credit /\ todo' = todo /\ call' = Woken
      /\ transmit_buffer' = transmit_buffer /\ receive_acknowledge' = receive_acknowledge
      /\ transmit_acknowledge' = transmit_acknowledge /\ holding' = holding /\ saved' = saved
      /\ errors' = errors + 1 /\ races' = races
      /\ receive_buffer' = [receive_buffer EXCEPT !.error_occurred = TRUE]
  BY Zenon DEF LineErrorInterrupt
<1>2. PICK b \in 0 .. FF : wire' = <<b>> \o Tail(wire)
  BY Zenon DEF LineErrorInterrupt
<1>3. call # "cleared"
  <2>1. call = "cleared" => call \in {"sanitise", "cleared"}
    OBVIOUS
  <2>. QED BY Zenon, <1>1, <2>1, LpcQuiet
<1>4. /\ IsBuffer(receive_buffer', RECEIVE_BUFFER_SIZE) /\ Remaining(receive_buffer') = Remaining(receive_buffer)
      /\ receive_buffer'.error_occurred = TRUE
  BY Zenon, <1>1, <1>3, LpcFacts, BufferErrs, Sizes
<1>5. b \in Octets
  BY Zenon DEF Octets
<1>6. wire' \in Seq(Octets) /\ Len(wire') = Len(wire)
  <2>1. wire \in Seq(Octets)
    BY Zenon, LpcDownTypes
  <2>2. <<b>> \in Seq(Octets) /\ Len(<<b>>) = 1
    BY <1>5
  <2>3. Tail(wire) \in Seq(Octets) /\ Len(Tail(wire)) = Len(wire) - 1 /\ Len(wire) \in Nat
    BY <1>1, <2>1
  <2>. QED BY <1>2, <2>2, <2>3
<1>7. LpcUp' \in Seq(Octets) /\ Len(LpcUp') = Len(LpcUp)
  <2>1. PICK r : r = Remaining(receive_buffer)
    OBVIOUS
  <2>2. r \in Seq(Octets) /\ wire \in Seq(Octets) /\ LpcUp = r \o wire /\ LpcUp' = r \o wire'
    BY Zenon, <1>4, <2>1, LpcFacts, LpcDownTypes DEF LpcUp
  <2>3. PICK w : w = wire'
    OBVIOUS
  <2>4. r \in Seq(Octets) /\ wire \in Seq(Octets) /\ w \in Seq(Octets) /\ Len(w) = Len(wire)
    BY Zenon, <1>6, <2>2, <2>3
  <2>5. r \o w \in Seq(Octets) /\ Len(r \o w) = Len(r \o wire)
    BY <2>4
  <2>. QED BY Zenon, <2>2, <2>3, <2>5
<1>8. LpcDown' = LpcDown
  BY Zenon, <1>1 DEF LpcDown
<1>9. LpcControl' /\ LpcLeft' = LpcLeft /\ LpcReceives' = LpcReceives /\ call' # "cleared"
  <2>1. SameCall(call, call')
    BY Zenon, <1>1, WokenSame
  <2>. QED BY Zenon, <1>1, <1>3, <2>1, LpcFacts, SameCalls
<1>10. errors' \in Nat /\ errors' > 0
  <2>1. errors \in Nat
    BY Zenon, LpcFacts DEF LpcBuffers
  <2>. QED BY <1>1, <2>1
<1>11. LpcBuffers' /\ LineTypes'
  BY Zenon, <1>1, <1>3, <1>4, <1>6, <1>9, <1>10, LpcFacts DEF LpcBuffers, LineTypes
<1>12. Link(packet, tester, LpcUp', LpcDown, LpcLeft, credit, TRUE, LpcReceives, RECEIVE_BUFFER_SIZE)
  BY Zenon, <1>7, LpcFacts, LinkErrs
<1>. QED BY Zenon, <1>1, <1>4, <1>8, <1>9, <1>11, <1>12, LpcFacts DEF LpcInv

LEMMA LpcShifts ==
  ASSUME LpcInv, LpcShift
  PROVE  LpcInv'
<1>. DEFINE rest == holding \o (Remaining(transmit_buffer) \o todo)
<1>1. /\ wire' = wire /\ inbox' = Append(inbox, Head(line)) /\ line' = Tail(line) /\ tester' = tester /\ line # <<>>
      /\ packet' = packet /\ garbled' = garbled /\ credit' = credit /\ todo' = todo /\ call' = call
      /\ transmit_buffer' = transmit_buffer /\ receive_buffer' = receive_buffer
      /\ receive_acknowledge' = receive_acknowledge /\ transmit_acknowledge' = transmit_acknowledge
      /\ holding' = holding /\ saved' = saved /\ errors' = errors /\ races' = races
  BY Zenon DEF LpcShift, appVars
<1>2. LpcControl' /\ LpcLeft' = LpcLeft /\ LpcReceives' = LpcReceives /\ (call' = "cleared" <=> call = "cleared")
  <2>1. SameCall(call, call')
    BY Zenon, <1>1 DEF SameCall
  <2>. QED BY Zenon, <1>1, <2>1, LpcFacts, SameCalls
<1>3. LpcUp' = LpcUp
  BY Zenon, <1>1 DEF LpcUp
<1>4. rest \in Seq(Octets) /\ rest' = rest
  BY Zenon, <1>1, LpcDownTypes
<1>. HIDE DEF rest
<1>5. inbox' \in Seq(Octets) /\ line' \in Seq(Octets) /\ inbox' \o (line' \o rest) = inbox \o (line \o rest)
  BY Zenon, <1>1, <1>4, LpcFacts, Shifts
<1>6. LpcDown' = LpcDown
  BY Zenon, <1>4, <1>5 DEF LpcDown, rest
<1>7. LpcBuffers' /\ LineTypes'
  BY Zenon, <1>1, <1>2, <1>5, LpcFacts DEF LpcBuffers, LineTypes
<1>. QED BY Zenon, <1>1, <1>2, <1>3, <1>6, <1>7, LpcFacts DEF LpcInv

LEMMA LpcHostMoves ==
  ASSUME LpcInv, LpcHostActs
  PROVE  LpcInv'
<1>. DEFINE rest == line \o (holding \o (Remaining(transmit_buffer) \o todo))
            first == Remaining(receive_buffer)
<1>1. /\ credit' = credit /\ todo' = todo /\ call' = call /\ (HostStart \/ HostStep)
      /\ transmit_buffer' = transmit_buffer /\ receive_buffer' = receive_buffer
      /\ receive_acknowledge' = receive_acknowledge /\ transmit_acknowledge' = transmit_acknowledge
      /\ holding' = holding /\ saved' = saved /\ errors' = errors /\ races' = races
  BY Zenon DEF LpcHostActs, appVars, lpcVars
<1>2. /\ rest \in Seq(Octets) /\ first \in Seq(Octets)
      /\ Link(packet, tester, first \o wire, inbox \o rest, LpcLeft, credit, receive_buffer.error_occurred,
              LpcReceives, RECEIVE_BUFFER_SIZE)
  BY Zenon, LpcFacts, LpcDownTypes DEF LpcUp, LpcDown
<1>. HIDE DEF first, rest
<1>3. /\ Link(packet', tester', first \o wire', inbox' \o rest, LpcLeft, credit, receive_buffer.error_occurred,
              LpcReceives, RECEIVE_BUFFER_SIZE)
      /\ wire' \in Seq(Octets) /\ inbox' \in Seq(Octets) /\ line' = line /\ ~garbled'
      /\ packet' = packet \/ tester.pc = "idle"
  BY Zenon, <1>1, <1>2, LpcFacts, HostMoves, Sizes
<1>4. LpcUp' = first \o wire' /\ LpcDown' = inbox' \o rest
  BY Zenon, <1>1, <1>3 DEF LpcUp, LpcDown, first, rest
<1>5. /\ (LpcWriting' <=> LpcWriting) /\ (Awaiting' <=> Awaiting) /\ (Notifying' <=> Notifying)
      /\ LpcSends' = LpcSends /\ LpcReceives' = LpcReceives
  BY Zenon, <1>1 DEF LpcWriting, Awaiting, Notifying, LpcSends, LpcReceives
<1>6. LpcControl' /\ LpcLeft' = LpcLeft
  <2>1. CASE packet' = packet
    BY Zenon, <1>1, <1>5, <2>1, LpcFacts DEF LpcControl, LpcLeft
  <2>2. CASE packet' # packet
    <3>1. Len(inbox \o rest) = 0 /\ packet.put = packet.reply
      BY Zenon, <1>2, <1>3, <2>2, LinkRests
    <3>2. todo = <<>>
      <4>1. PICK r : r = Remaining(transmit_buffer)
        OBVIOUS
      <4>2. /\ r \in Seq(Octets) /\ inbox \in Seq(Octets) /\ line \in Seq(Octets) /\ todo \in Seq(Octets)
            /\ holding \in Seq(Octets) /\ r \o todo \in Seq(Octets) /\ holding \o (r \o todo) \in Seq(Octets)
            /\ line \o (holding \o (r \o todo)) \in Seq(Octets)
        BY Zenon, <4>1, LpcFacts, LpcDownTypes
      <4>3. Len(inbox \o (line \o (holding \o (r \o todo)))) = 0
        BY Zenon, <3>1, <4>1 DEF rest
      <4>4. Len(line \o (holding \o (r \o todo))) = 0
        BY Zenon, <4>2, <4>3, Nothing
      <4>5. Len(holding \o (r \o todo)) = 0
        BY Zenon, <4>2, <4>4, Nothing
      <4>6. Len(r \o todo) = 0
        BY Zenon, <4>2, <4>5, Nothing
      <4>7. Len(todo) = 0
        BY Zenon, <4>2, <4>6, Nothing
      <4>. QED BY <4>2, <4>7
    <3>3. ~LpcWriting /\ call \notin {"sanitise", "cleared"}
      <4>1. packet \in Lengths
        BY Zenon, LpcFacts
      <4>2. ~(packet.reply > 0 /\ packet.put = 0)
        BY <3>1, <4>1 DEF Lengths
      <4>. QED BY Zenon, <3>2, <4>2, LpcFacts DEF LpcControl
    <3>4. LpcLeft' = LpcLeft
      BY Zenon, <1>1, <1>5, <3>3 DEF LpcLeft
    <3>5. packet'.put = 0
      <4>1. ~HostStep
        BY Zenon, <2>2 DEF HostStep, SendByte, ReadAcknowledgement, ReceiveByte
      <4>2. PICK n \in 1 .. MaxPacket : packet' = [request |-> n, got |-> 0, reply |-> 0, put |-> 0]
        BY Zenon, <1>1, <4>1 DEF HostStart
      <4>. QED BY <4>2
    <3>6. LpcControl'
      BY Zenon, <1>1, <1>5, <3>3, <3>5, LpcFacts DEF LpcControl
    <3>. QED BY Zenon, <3>4, <3>6
  <2>. QED BY Zenon, <2>1, <2>2
<1>7. LpcBuffers' /\ LineTypes'
  BY Zenon, <1>1, <1>3, LpcFacts DEF LpcBuffers, LineTypes
<1>. QED BY Zenon, <1>1, <1>3, <1>4, <1>5, <1>6, <1>7 DEF LpcInv

LEMMA LpcKept ==
  ASSUME LpcInv, LpcNext, holding # <<>> => transmit_buffer' = transmit_buffer
  PROVE  LpcInv'
BY Zenon, LpcBegins, LpcSleeps, LpcGets, LpcPuts, LpcNotifies, LpcWritesHeld, LpcReadsCredit, LpcSanitises,
   LpcReinitialises, LpcReceivesByte, LpcEmpties, LpcErrs, LpcShifts, LpcHostMoves
   DEF LpcNext, LpcApp, Interrupt

LEMMA RacesSame ==
  ASSUME LpcNext
  PROVE  races' = races
BY Zenon DEF LpcNext, LpcApp, Interrupt, LpcBegin, Wait, enterSleepMode, LpcGet, Put, serialSendNotify, WriteHeld,
   LpcReadCredit, LpcSanitiseRam, Reinitialise, LpcReceiveInterrupt, TransmitInterrupt, LineErrorInterrupt, LpcShift,
   LpcHostActs, lpcVars

-----------------------------------------------------------------------------
(* The theorem. *)

LEMMA LinkStarts ==
  ASSUME LinkInit, NEW size \in Nat \ {0}, DEFAULT_ACKNOWLEDGE_INTERVAL <= size, NEW wrong
  PROVE  /\ Link(packet, tester, <<>>, <<>>, DEFAULT_ACKNOWLEDGE_INTERVAL, <<>>, wrong,
                 DEFAULT_ACKNOWLEDGE_INTERVAL, size)
         /\ LineTypes /\ ~garbled
<1>1. /\ wire = <<>> /\ line = <<>> /\ inbox = <<>> /\ todo = <<>> /\ credit = <<>> /\ ~garbled
      /\ packet = [request |-> 0, got |-> 0, reply |-> 0, put |-> 0]
      /\ tester = [pc |-> "idle", i |-> 0, tx_bytes_to_ack |-> DEFAULT_ACKNOWLEDGE_INTERVAL,
                   rx_bytes_to_ack |-> DEFAULT_ACKNOWLEDGE_INTERVAL]
  BY Zenon DEF LinkInit
<1>2. DEFAULT_ACKNOWLEDGE_INTERVAL \in Nat \ {0}
  BY Zenon, SerialAssumption
<1>3. /\ packet \in Lengths /\ packet.request = 0 /\ packet.got = 0 /\ packet.reply = 0 /\ packet.put = 0
  BY <1>1 DEF Lengths
<1>4. /\ tester \in Hosts /\ tester.pc = "idle" /\ tester.i = 0
      /\ tester.tx_bytes_to_ack = DEFAULT_ACKNOWLEDGE_INTERVAL
      /\ tester.rx_bytes_to_ack = DEFAULT_ACKNOWLEDGE_INTERVAL
  BY <1>1, <1>2 DEF Hosts
<1>5. tester.pc \notin {"send", "acknowledge"} /\ tester.pc \in {"idle", "receive"}
  BY <1>4
<1>6. Written(packet, tester) = 0 /\ Heard(tester) = 0
  BY Zenon, <1>3, <1>4, <1>5 DEF Written, Heard
<1>7. Turns(packet, tester)
  BY SMTT(20), <1>2, <1>3, <1>4, <1>6 DEF Turns
<1>8. LineTypes
  BY <1>1 DEF LineTypes
<1>9. 0 - 0 = 0 /\ 0 + DEFAULT_ACKNOWLEDGE_INTERVAL = DEFAULT_ACKNOWLEDGE_INTERVAL
      /\ DEFAULT_ACKNOWLEDGE_INTERVAL + 0 = DEFAULT_ACKNOWLEDGE_INTERVAL
      /\ Piece(0, 0) = <<>> /\ DEFAULT_ACKNOWLEDGE_INTERVAL \in 1 .. size /\ DEFAULT_ACKNOWLEDGE_INTERVAL \in Nat
      /\ <<>> \in Seq(Octets) /\ Len(<<>>) = 0
  BY <1>2 DEF Piece
<1>10. Unread(packet, tester) = <<>> /\ Unheard(packet, tester) = <<>>
  BY Zenon, <1>3, <1>6, <1>9 DEF Unread, Unheard
<1>11. DownAgreed(packet, tester, <<>>, DEFAULT_ACKNOWLEDGE_INTERVAL)
  BY Zenon, <1>3, <1>4, <1>6, <1>9, <1>10 DEF DownAgreed
<1>12. UpAgreed(packet, tester, <<>>, DEFAULT_ACKNOWLEDGE_INTERVAL, <<>>, wrong)
  BY Zenon, <1>3, <1>4, <1>6, <1>9, <1>10 DEF UpAgreed, Carries
<1>. QED BY Zenon, <1>1, <1>7, <1>8, <1>9, <1>11, <1>12 DEF Link

LEMMA AvrStarts ==
  ASSUME LinkInit, AvrInit
  PROVE  AvrInv
<1>1. /\ wire = <<>> /\ line = <<>> /\ inbox = <<>> /\ todo = <<>> /\ credit = <<>> /\ call = "idle"
      /\ tx = Ring(TX_BUFFER_SIZE) /\ rx = Ring(RX_BUFFER_SIZE) /\ rx_buffer_overrun = FALSE /\ immediate = FALSE
      /\ rx_acknowledge = DEFAULT_ACKNOWLEDGE_INTERVAL /\ tx_acknowledge = DEFAULT_ACKNOWLEDGE_INTERVAL
  BY Zenon DEF LinkInit, AvrInit
<1>2. /\ LineTypes /\ ~garbled
      /\ Link(packet, tester, <<>>, <<>>, DEFAULT_ACKNOWLEDGE_INTERVAL, <<>>, FALSE,
              DEFAULT_ACKNOWLEDGE_INTERVAL, RX_BUFFER_SIZE)
  BY Zenon, LinkStarts, Sizes, SerialAssumption
<1>3. /\ IsRing(tx, TX_BUFFER_SIZE) /\ IsRing(rx, RX_BUFFER_SIZE)
      /\ Held(tx, TX_BUFFER_SIZE) = <<>> /\ Held(rx, RX_BUFFER_SIZE) = <<>>
  BY Zenon, <1>1, RingNew, Sizes
<1>4. <<>> \o <<>> = <<>>
  OBVIOUS
<1>5. ~AvrWriting
  BY <1>1 DEF AvrWriting
<1>6. AvrUp = <<>> /\ AvrDown = <<>> /\ AvrLeft = DEFAULT_ACKNOWLEDGE_INTERVAL
  BY Zenon, <1>1, <1>3, <1>4, <1>5 DEF AvrUp, AvrDown, AvrLeft
<1>7. DEFAULT_ACKNOWLEDGE_INTERVAL \in Nat \ {0}
  BY Zenon, SerialAssumption
<1>8. AvrState
  BY Zenon, <1>1, <1>3, <1>5, <1>7 DEF AvrState
<1>. QED BY Zenon, <1>1, <1>2, <1>6, <1>8 DEF AvrInv

LEMMA LpcStarts ==
  ASSUME LinkInit, LpcInit
  PROVE  LpcInv
<1>1. /\ wire = <<>> /\ line = <<>> /\ inbox = <<>> /\ todo = <<>> /\ credit = <<>> /\ call = "idle"
      /\ transmit_buffer = Buffer(TRANSMIT_BUFFER_SIZE) /\ receive_buffer = Buffer(RECEIVE_BUFFER_SIZE)
      /\ receive_acknowledge = DEFAULT_ACKNOWLEDGE_INTERVAL /\ transmit_acknowledge = DEFAULT_ACKNOWLEDGE_INTERVAL
      /\ holding = <<>> /\ errors = 0
  BY Zenon DEF LinkInit, LpcInit
<1>2. /\ LineTypes /\ ~garbled
      /\ Link(packet, tester, <<>>, <<>>, DEFAULT_ACKNOWLEDGE_INTERVAL, <<>>, FALSE,
              DEFAULT_ACKNOWLEDGE_INTERVAL, RECEIVE_BUFFER_SIZE)
  BY Zenon, LinkStarts, Sizes, SerialAssumption
<1>3. /\ IsBuffer(transmit_buffer, TRANSMIT_BUFFER_SIZE) /\ IsBuffer(receive_buffer, RECEIVE_BUFFER_SIZE)
      /\ Remaining(transmit_buffer) = <<>> /\ Remaining(receive_buffer) = <<>>
      /\ receive_buffer.error_occurred = FALSE
  BY Zenon, <1>1, BufferNew, Sizes
<1>4. <<>> \o <<>> = <<>> /\ <<>> \in Seq(Octets) /\ 0 \in Nat
  OBVIOUS
<1>5. /\ ~LpcWriting /\ ~Awaiting /\ ~Notifying /\ call # "cleared" /\ call # "halted"
      /\ call # "notify of put" /\ call # "notify of get" /\ call \notin {"sanitise", "cleared"}
      /\ call \in {"idle", "read", "read drowsy", "read asleep", "sanitise", "cleared", "halted"}
  BY <1>1 DEF LpcWriting, Awaiting, Notifying
<1>6. /\ LpcUp = <<>> /\ LpcDown = <<>> /\ LpcSends = DEFAULT_ACKNOWLEDGE_INTERVAL
      /\ LpcLeft = DEFAULT_ACKNOWLEDGE_INTERVAL /\ LpcReceives = DEFAULT_ACKNOWLEDGE_INTERVAL
  BY Zenon, <1>1, <1>3, <1>4, <1>5 DEF LpcUp, LpcDown, LpcSends, LpcLeft, LpcReceives
<1>7. DEFAULT_ACKNOWLEDGE_INTERVAL \in Nat /\ DEFAULT_ACKNOWLEDGE_INTERVAL # 0
  BY SerialAssumption
<1>8. LpcControl
  BY Zenon, <1>1, <1>5, <1>6, <1>7 DEF LpcControl
<1>9. LpcBuffers
  BY Zenon, <1>1, <1>3, <1>4, <1>5 DEF LpcBuffers
<1>. QED BY Zenon, <1>1, <1>2, <1>3, <1>6, <1>8, <1>9 DEF LpcInv

LEMMA SerialStarts ==
  ASSUME SerialInit
  PROVE  SerialInv
<1>1. LinkInit /\ LpcInit /\ AvrInit
  BY Zenon DEF SerialInit
<1>2. part = "lpc" => part # "lpc windows"
  OBVIOUS
<1>3. part = "lpc" => races = Races
  BY Zenon, <1>2 DEF SerialInit
<1>. QED BY Zenon, <1>1, <1>3, AvrStarts, LpcStarts DEF SerialInv

LEMMA AvrRests ==
  ASSUME AvrInv, UNCHANGED linkVars, UNCHANGED appVars, UNCHANGED avrVars
  PROVE  AvrInv'
<1>1. /\ wire' = wire /\ line' = line /\ inbox' = inbox /\ tester' = tester /\ packet' = packet /\ garbled' = garbled
      /\ call' = call /\ todo' = todo /\ credit' = credit /\ tx' = tx /\ rx' = rx
      /\ rx_buffer_overrun' = rx_buffer_overrun /\ rx_acknowledge' = rx_acknowledge
      /\ tx_acknowledge' = tx_acknowledge /\ immediate' = immediate
  BY Zenon DEF linkVars, appVars, avrVars
<1>2. AvrUp' = AvrUp /\ AvrDown' = AvrDown /\ AvrLeft' = AvrLeft
  BY Zenon, <1>1 DEF AvrUp, AvrDown, AvrLeft, AvrWriting
<1>3. AvrState' /\ LineTypes'
  BY Zenon, <1>1 DEF AvrInv, AvrState, AvrWriting, LineTypes
<1>. QED BY Zenon, <1>1, <1>2, <1>3 DEF AvrInv

LEMMA LpcRests ==
  ASSUME LpcInv, UNCHANGED linkVars, UNCHANGED appVars, UNCHANGED lpcVars
  PROVE  LpcInv'
<1>1. /\ wire' = wire /\ line' = line /\ inbox' = inbox /\ tester' = tester /\ packet' = packet /\ garbled' = garbled
      /\ call' = call /\ todo' = todo /\ credit' = credit
      /\ transmit_buffer' = transmit_buffer /\ receive_buffer' = receive_buffer
      /\ receive_acknowledge' = receive_acknowledge /\ transmit_acknowledge' = transmit_acknowledge
      /\ holding' = holding /\ saved' = saved /\ errors' = errors /\ races' = races
  BY Zenon DEF linkVars, appVars, lpcVars
<1>2. LpcUp' = LpcUp /\ LpcDown' = LpcDown
  BY Zenon, <1>1 DEF LpcUp, LpcDown
<1>3. LpcControl' /\ LpcLeft' = LpcLeft /\ LpcReceives' = LpcReceives /\ (call' = "cleared" <=> call = "cleared")
  <2>1. SameCall(call, call')
    BY Zenon, <1>1 DEF SameCall
  <2>. QED BY Zenon, <1>1, <2>1, LpcFacts, SameCalls
<1>4. LpcBuffers' /\ LineTypes'
  BY Zenon, <1>1, LpcFacts DEF LpcBuffers, LineTypes
<1>. QED BY Zenon, <1>1, <1>2, <1>3, <1>4, LpcFacts DEF LpcInv

\* One step, where no transmit interrupt hits serialSendNotify() in part "lpc".
LEMMA SerialKept ==
  ASSUME "notify" \notin Races, SerialInv, [SerialNext]_serialVars
  PROVE  SerialInv'
<1>1. CASE UNCHANGED serialVars
  <2>1. part' = part /\ UNCHANGED linkVars /\ UNCHANGED appVars /\ UNCHANGED lpcVars /\ UNCHANGED avrVars
    BY Zenon, <1>1 DEF serialVars
  <2>2. races' = races
    BY Zenon, <2>1 DEF lpcVars
  <2>. QED BY Zenon, <2>1, <2>2, AvrRests, LpcRests DEF SerialInv
<1>2. CASE SerialNext
  <2>1. part' = part
    BY Zenon, <1>2 DEF SerialNext
  <2>2. CASE part = "lpc" /\ LpcNext
    <3>1. LpcInv /\ races = Races /\ part # "avr" /\ part' # "avr"
      BY <2>1, <2>2 DEF SerialInv
    <3>2. holding = <<>>
      BY Zenon, <3>1, LpcFacts DEF LpcControl
    <3>3. LpcInv' /\ races' = races
      BY Zenon, <2>2, <3>1, <3>2, LpcKept, RacesSame
    <3>. QED BY Zenon, <3>1, <3>3 DEF SerialInv
  <2>3. CASE part = "lpc windows" /\ LpcNext /\ NotOvertaken
    <3>1. LpcInv /\ part' # "avr" /\ part' # "lpc"
      BY <2>1, <2>3 DEF SerialInv
    <3>2. LpcInv'
      BY Zenon, <2>3, <3>1, LpcKept DEF NotOvertaken
    <3>. QED BY Zenon, <3>1, <3>2 DEF SerialInv
  <2>4. CASE part = "avr" /\ AvrNext
    <3>1. part' # "lpc" /\ part' \notin {"lpc", "lpc windows"} /\ AvrInv
      BY <2>1, <2>4 DEF SerialInv
    <3>2. AvrInv'
      BY Zenon, <2>4, <3>1, AvrKept
    <3>. QED BY Zenon, <3>1, <3>2 DEF SerialInv
  <2>. QED BY Zenon, <1>2, <2>2, <2>3, <2>4 DEF SerialNext
<1>. QED BY Zenon, <1>1, <1>2

LEMMA SerialMeans ==
  ASSUME SerialInv
  PROVE  StreamInOrder
<1>1. ASSUME AvrInv PROVE AvrInOrder /\ AvrCountersAgree
  <2>1. /\ ~garbled /\ ~rx_buffer_overrun
        /\ Link(packet, tester, AvrUp, AvrDown, AvrLeft, credit, FALSE, rx_acknowledge, RX_BUFFER_SIZE)
    BY Zenon, <1>1 DEF AvrInv
  <2>2. ASSUME Quiet PROVE rx_acknowledge = tester.tx_bytes_to_ack /\ tx_acknowledge = tester.rx_bytes_to_ack
    <3>1. call = "idle" /\ tester.pc = "idle"
      BY Zenon, <2>2 DEF Quiet
    <3>2. ~AvrWriting /\ call # "readCredit"
      BY <3>1 DEF AvrWriting
    <3>3. AvrLeft = tx_acknowledge /\ tx_acknowledge > 0
      BY Zenon, <1>1, <3>2, AvrFacts DEF AvrLeft
    <3>. QED BY Zenon, <2>1, <3>1, <3>3, LinkRests
  <2>. QED BY Zenon, <2>1, <2>2 DEF AvrInOrder, AvrCountersAgree
<1>2. ASSUME LpcInv PROVE LpcInOrder /\ LpcCountersAgree
  <2>1. /\ ~garbled /\ errors \in Nat /\ (receive_buffer.error_occurred => errors > 0)
        /\ Link(packet, tester, LpcUp, LpcDown, LpcLeft, credit, receive_buffer.error_occurred,
                LpcReceives, RECEIVE_BUFFER_SIZE)
    BY Zenon, <1>2, LpcFacts DEF LpcBuffers
  <2>2. errors = 0 => ~(errors > 0)
    OBVIOUS
  <2>3. ASSUME Quiet
        PROVE  /\ receive_acknowledge = tester.tx_bytes_to_ack
               /\ transmit_acknowledge = tester.rx_bytes_to_ack
    <3>1. call = "idle" /\ tester.pc = "idle"
      BY Zenon, <2>3 DEF Quiet
    <3>2. call \in {"idle", "read", "sanitise"}
      BY <3>1
    <3>3. LpcLeft = transmit_acknowledge /\ transmit_acknowledge > 0 /\ LpcReceives = receive_acknowledge
      BY Zenon, <1>2, <3>2, LpcRuns
    <3>. QED BY Zenon, <2>1, <3>1, <3>3, LinkRests
  <2>. QED BY Zenon, <2>1, <2>2, <2>3 DEF LpcInOrder, LpcCountersAgree
<1>. QED BY Zenon, <1>1, <1>2 DEF SerialInv, StreamInOrder

\* Over both serial links, every byte arrives once and in order in both directions, no
\* acknowledgement is taken for data or the reverse, no receive buffer overflows while the
\* host respects the acknowledgements, and whenever nothing is on its way the counters of
\* streamGetOneByte() and streamPutOneByte() are those of the host, also after
\* sanitiseRam().  On the LPC11Uxx this needs that no transmit interrupt hits
\* serialSendNotify() between reading the transmit buffer and writing the register.
THEOREM SerialKeepsOrder ==
  ASSUME "notify" \notin Races
  PROVE  SerialSpec => []StreamInOrder
<1>1. SerialInit => SerialInv
  BY Zenon, SerialStarts
<1>2. SerialInv /\ [SerialNext]_serialVars => SerialInv'
  BY Zenon, SerialKept
<1>3. SerialInv => StreamInOrder
  BY Zenon, SerialMeans
<1>. QED BY <1>1, <1>2, <1>3, PTL DEF SerialSpec
=============================================================================
