-------------------------- MODULE StreamComm_proofs -------------------------
(***************************************************************************)
(* What stream_comm.c does only with the user's consent, for any packets   *)
(* the host may send, in any order.                                        *)
(***************************************************************************)
EXTENDS StreamComm, SequenceTheorems, TLAPS

\* The request that an interjection is about has obtained all the earlier
\* ones that its command asks for, and waits for the next.
Waiting ==
    /\ request \in DOMAIN Commands
    /\ stage \in Nat
    /\ stage < Len(Commands[request].ask)
    /\ pc = Commands[request].ask[stage + 1]
    /\ \A k \in 1 .. stage : Commands[request].ask[k] \in given

IsSeq(s) == \E S : s \in Seq(S)

IInv ==
    /\ input \in Seq(Units)
    /\ IsSeq(output)
    /\ payload_length \in Nat
    /\ pc = "idle" => stage = 0
    /\ pc = "decoding" => request = "SIGN_TRANSACTION"
    /\ pc \in Interjections /\ request # "SIGN_TRANSACTION" => Waiting
    /\ prev_transaction_hash # None => prev_transaction_hash \in approved
    /\ ConsentBeforeEffect

\* What a step that starts or continues a request other than SIGN_TRANSACTION
\* leaves behind.
Handled ==
    /\ IsSeq(output') /\ SendsApproved
    /\ ConsentBeforeEffect'
    /\ pc' = "idle" => stage' = 0
    /\ pc' # "decoding"
    /\ pc' \in Interjections => Waiting'

-----------------------------------------------------------------------------
(* The table of commands. *)

LEMMA InterjectionNames ==
    /\ Interjections = {"BUTTON", "OTP", "PIN"}
    /\ \A i \in Interjections : Ask[i] # "SIGNATURE"
BY DEF Interjections, Ack, Ask

\* What a command needs is among what it asks for, and only SIGN_TRANSACTION
\* answers with a signature.
LEMMA CommandFacts ==
    ASSUME NEW id \in DOMAIN Commands
    PROVE  /\ Len(Commands[id].ask) \in 0 .. 2
           /\ \A k \in 1 .. Len(Commands[id].ask) : Commands[id].ask[k] \in Interjections
           /\ \A i \in Needs(id) : \E k \in 1 .. Len(Commands[id].ask) : Commands[id].ask[k] = i
           /\ id # "SIGN_TRANSACTION" => Commands[id].answer # "SIGNATURE"
<1>1. CASE id \in {"DELETE_WALLET", "FORMAT", "CHANGE_KEY", "GET_MASTER_KEY"}
  <2>1. Commands[id].ask = <<"BUTTON", "OTP">> /\ Commands[id].answer # "SIGNATURE"
    BY SMTT(30), <1>1 DEF Commands, AsksTwice
  <2>2. Needs(id) = {"BUTTON", "OTP"}
    BY Zenon, <1>1 DEF Needs
  <2>. QED BY <2>1, <2>2, InterjectionNames
<1>2. CASE id \in {"NEW_WALLET", "NEW_ADDRESS", "CHANGE_NAME", "BACKUP_WALLET", "RESTORE_WALLET",
                   "SIGN_TRANSACTION"}
  <2>1. /\ Commands[id].ask = <<"BUTTON">>
        /\ id # "SIGN_TRANSACTION" => Commands[id].answer # "SIGNATURE"
    BY SMTT(30), <1>2 DEF Commands, Asks
  <2>2. Needs(id) \subseteq {"BUTTON"}
    BY Zenon, <1>2 DEF Needs
  <2>. QED BY <2>1, <2>2, InterjectionNames
<1>3. CASE id = "LOAD_WALLET"
  <2>1. Commands[id].ask = <<"PIN">> /\ Commands[id].answer # "SIGNATURE"
    BY Zenon, <1>3 DEF Commands, Plain
  <2>2. Needs(id) = {}
    BY Zenon, <1>3 DEF Needs
  <2>. QED BY <2>1, <2>2, InterjectionNames
<1>4. CASE id \in {"INITIALIZE", "PING", "GET_NUM_ADDRESSES", "GET_ADDRESS_PUBKEY", "LIST_WALLETS",
                   "GET_DEVICE_UUID", "GET_ENTROPY"}
  <2>1. Commands[id].ask = <<>> /\ Commands[id].answer # "SIGNATURE"
    BY <1>4 DEF Commands, Plain
  <2>2. Needs(id) = {}
    BY Zenon, <1>4 DEF Needs
  <2>. QED BY <2>1, <2>2
<1>. QED BY Zenon, <1>1, <1>2, <1>3, <1>4 DEF Commands

-----------------------------------------------------------------------------
(* The two directions of the stream. *)

LEMMA RestOfSeq ==
    ASSUME NEW S, NEW s \in Seq(S), NEW m \in Nat
    PROVE  SubSeq(s, m + 1, Len(s)) \in Seq(S)
<1>1. CASE m <= Len(s)
  BY <1>1, SubSeqProperties
<1>2. CASE m > Len(s)
  <2>1. SubSeq(s, m + 1, Len(s)) = << >>
    BY <1>2
  <2>. QED BY <2>1
<1>. QED BY <1>1, <1>2

LEMMA SeqWithin ==
    ASSUME NEW S, NEW s \in Seq(S), NEW T, \A i \in 1 .. Len(s) : s[i] \in T
    PROVE  s \in Seq(T)
<1>1. Len(s) \in Nat /\ s \in [1 .. Len(s) -> T]
  OBVIOUS
<1>. QED BY <1>1

LEMMA UnitFacts ==
    ASSUME NEW u \in Units
    PROVE  IF u.tag = "##" THEN u.length \in Nat ELSE u.value # None
<1>1. PICK p \in Packets : u \in {Header(p)} \cup {p.fields[i] : i \in 1 .. Len(p.fields)}
  BY Zenon DEF Units
<1>2. Len(p.fields) \in Nat
  BY PacketsAssumption
<1>3. CASE u = Header(p)
  BY Zenon, <1>2, <1>3 DEF Header
<1>4. CASE \E i \in 1 .. Len(p.fields) : u = p.fields[i]
  BY Zenon, <1>4, PacketsAssumption
<1>. QED BY Zenon, <1>1, <1>3, <1>4

LEMMA HeadOfInput ==
    ASSUME input \in Seq(Units), Arrived
    PROVE  Head(input) \in Units /\ Tail(input) \in Seq(Units)
BY DEF Arrived

LEMMA PacketRead ==
    ASSUME input \in Seq(Units), AtHeader
    PROVE  Head(input).length \in Nat /\ AfterPacket \in Seq(Units)
<1>1. Head(input).length \in Nat
  BY Zenon, HeadOfInput, UnitFacts DEF AtHeader
<1>2. Head(input).length + 2 = (Head(input).length + 1) + 1
  BY <1>1
<1>. QED BY <1>1, <1>2, RestOfSeq DEF AfterPacket

LEMMA PacketWritten ==
    ASSUME input \in Seq(Units), NEW p \in Packets
    PROVE  input \o <<Header(p)>> \o p.fields \in Seq(Units)
<1>. DEFINE U(q) == {Header(q)} \cup {q.fields[i] : i \in 1 .. Len(q.fields)}
<1>1. U(p) \subseteq Units
  BY Zenon DEF Units
<1>2. Header(p) \in Units /\ \A i \in 1 .. Len(p.fields) : p.fields[i] \in Units
  BY Zenon, <1>1
<1>3. p.fields \in Seq(Units)
  BY Zenon, <1>2, PacketsAssumption, SeqWithin
<1>. HIDE DEF U
<1>. QED BY <1>2, <1>3

\* A packet other than a signature, or the signature of what was approved.
LEMMA SendWell ==
    ASSUME IsSeq(output), NEW id, NEW value, sendPacket(id, value),
           id # "SIGNATURE" \/ value \in approved'
    PROVE  IsSeq(output') /\ SendsApproved
<1>. DEFINE sent == [id |-> id, value |-> value, unread |-> payload_length']
<1>1. PICK S : output \in Seq(S)
  BY Zenon DEF IsSeq
<1>2. output \in Seq(S \cup {sent}) /\ sent \in S \cup {sent}
  BY <1>1
<1>3. sent.id = id /\ sent.value = value
  BY Zenon
<1>. HIDE DEF sent
<1>4. output' = Append(output, sent)
  BY Zenon DEF sendPacket, sent
<1>5. output' \in Seq(S \cup {sent}) /\ output'[Len(output')] = sent
  BY <1>2, <1>4
<1>. QED BY Zenon, <1>3, <1>5 DEF IsSeq, SendsApproved

LEMMA SilentWell ==
    ASSUME IsSeq(output), UNCHANGED output
    PROVE  IsSeq(output') /\ SendsApproved
<1>1. Len(output) \in Nat
  BY DEF IsSeq
<1>. QED BY <1>1 DEF SendsApproved

-----------------------------------------------------------------------------
(* Parts of the handlers. *)

LEMMA FailureWell ==
    ASSUME IsSeq(output), NEW code, writeFailureString(code)
    PROVE  IsSeq(output') /\ SendsApproved
BY Zenon, SendWell DEF writeFailureString

LEMMA AnswerWell ==
    ASSUME IsSeq(output), NEW id, id # "SIGNATURE", translateWalletError(id)
    PROVE  IsSeq(output') /\ SendsApproved
BY Zenon, SendWell, FailureWell DEF translateWalletError

LEMMA PerformWell ==
    ASSUME IsSeq(output), NEW id \in DOMAIN Commands, id # "SIGN_TRANSACTION",
           Needs(id) \subseteq given', Perform(id)
    PROVE  /\ IsSeq(output') /\ SendsApproved
           /\ ConsentBeforeEffect'
           /\ Done
<1>1. ConsentBeforeEffect'
  <2>1. effect'.op = id /\ effect'.consent = given'
    BY Zenon DEF Perform, Carried
  <2>. QED BY Zenon, <2>1 DEF ConsentBeforeEffect
<1>2. Done
  BY Zenon DEF Perform
<1>3. Commands[id].answer # "SIGNATURE"
  BY Zenon, CommandFacts
<1>4. \/ \E answer, value : answer # "SIGNATURE" /\ sendPacket(answer, value)
      \/ \E code : writeFailureString(code)
      \/ \E answer : answer # "SIGNATURE" /\ translateWalletError(answer)
  <2>1. CASE id = "PING"
    <3>1. sendPacket("PING_RESPONSE", session_id')
      BY Zenon, <2>1 DEF Perform
    <3>. QED BY Zenon, <3>1
  <2>2. CASE id = "INITIALIZE"
    <3>1. sendPacket("FEATURES", session_id') \/ writeFailureString("WALLET")
      BY Zenon, <2>2 DEF Perform
    <3>. QED BY Zenon, <3>1
  <2>3. CASE id \in {"NEW_ADDRESS", "GET_ADDRESS_PUBKEY"}
    <3>1. translateWalletError("ADDRESS_PUBKEY")
      BY Zenon, <2>3 DEF Perform, getAndSendAddressAndPublicKey
    <3>. QED BY Zenon, <3>1
  <2>4. CASE id = "GET_ENTROPY"
    <3>1. writeFailureString("PARAM_TOO_LARGE") \/ translateWalletError("ENTROPY")
      BY Zenon, <2>4 DEF Perform, getBytesOfEntropy
    <3>. QED BY Zenon, <3>1
  <2>5. CASE id = "LIST_WALLETS"
    <3>1. translateWalletError("WALLETS")
      BY Zenon, <2>5 DEF Perform, listWallets
    <3>. QED BY Zenon, <3>1
  <2>6. CASE id \notin {"PING", "INITIALIZE", "NEW_ADDRESS", "GET_ADDRESS_PUBKEY", "GET_ENTROPY",
                        "LIST_WALLETS"}
    <3>1. translateWalletError(Commands[id].answer)
      BY Zenon, <2>6 DEF Perform
    <3>. QED BY Zenon, <1>3, <3>1
  <2>. QED BY Zenon, <2>1, <2>2, <2>3, <2>4, <2>5, <2>6
<1>5. IsSeq(output') /\ SendsApproved
  BY Zenon, <1>4, SendWell, FailureWell, AnswerWell
<1>. QED BY Zenon, <1>1, <1>2, <1>5

\* A request that has obtained its first n interjections asks for the next
\* or, if there is none, has all that it needs.
LEMMA AheadWell ==
    ASSUME IsSeq(output), ConsentBeforeEffect, NEW id \in DOMAIN Commands, id # "SIGN_TRANSACTION",
           NEW n \in Nat, n <= Len(Commands[id].ask),
           \A k \in 1 .. n : Commands[id].ask[k] \in given',
           Ahead(id, n), pc' # "idle" => request' = id
    PROVE  Handled
<1>1. CASE n < Len(Commands[id].ask) /\ pc' = Commands[id].ask[n + 1] /\ stage' = n
           /\ sendPacket(Ask[pc'], None) /\ UNCHANGED effect
  <2>1. pc' \in Interjections
    BY <1>1, CommandFacts
  <2>2. pc' # "idle" /\ pc' # "decoding" /\ Ask[pc'] # "SIGNATURE"
    BY Zenon, <2>1, InterjectionNames
  <2>3. IsSeq(output') /\ SendsApproved
    BY Zenon, <1>1, <2>2, SendWell
  <2>4. ConsentBeforeEffect'
    BY Zenon, <1>1 DEF ConsentBeforeEffect
  <2>5. Waiting'
    BY Zenon, <1>1, <2>2 DEF Waiting
  <2>. QED BY Zenon, <2>2, <2>3, <2>4, <2>5 DEF Handled
<1>2. CASE n = Len(Commands[id].ask) /\ Perform(id)
  <2>1. Needs(id) \subseteq given'
    BY <1>2, CommandFacts
  <2>2. IsSeq(output') /\ SendsApproved /\ ConsentBeforeEffect' /\ Done
    BY Zenon, <1>2, <2>1, PerformWell
  <2>3. pc' = "idle" /\ stage' = 0
    BY Zenon, <2>2 DEF Done
  <2>. QED BY Zenon, <2>2, <2>3, InterjectionNames DEF Handled
<1>. QED BY Zenon, <1>1, <1>2 DEF Ahead

\* initWallet() without a password needs no consent.
LEMMA LoadWalletWell ==
    ASSUME IsSeq(output), stage = 0, LoadWallet, pc' # "idle" => request' = "LOAD_WALLET"
    PROVE  Handled
<1>1. ConsentBeforeEffect'
  <2>1. effect'.op = "LOAD_WALLET"
    BY Zenon DEF LoadWallet, Carried
  <2>2. Needs("LOAD_WALLET") = {}
    BY Zenon DEF Needs
  <2>. QED BY Zenon, <2>1, <2>2 DEF ConsentBeforeEffect
<1>2. CASE writeFailureString("WALLET") /\ Done
  BY Zenon, <1>1, <1>2, FailureWell, InterjectionNames DEF Done, Handled
<1>3. CASE sendPacket("SUCCESS", None) /\ Done
  BY Zenon, <1>1, <1>3, SendWell, InterjectionNames DEF Done, Handled
<1>4. CASE sendPacket(Ask["PIN"], None) /\ pc' = "PIN" /\ UNCHANGED stage
  <2>1. IsSeq(output') /\ SendsApproved
    <3>1. Ask["PIN"] # "SIGNATURE"
      BY Zenon, InterjectionNames
    <3>. QED BY Zenon, <1>4, <3>1, SendWell
  <2>2. "LOAD_WALLET" \in DOMAIN Commands /\ Commands["LOAD_WALLET"].ask = <<"PIN">>
    BY Zenon DEF Commands, Plain
  <2>3. Waiting'
    BY <1>4, <2>2 DEF Waiting
  <2>. QED BY Zenon, <1>1, <1>4, <2>1, <2>3 DEF Handled
<1>. QED BY Zenon, <1>2, <1>3, <1>4 DEF LoadWallet

\* A signature needs no consent for the request itself, but that of the
\* transaction.
LEMMA SignWell ==
    ASSUME IsSeq(output), ConsentBeforeEffect, NEW t, t \in approved', Sign(t)
    PROVE  IsSeq(output') /\ SendsApproved /\ ConsentBeforeEffect'
<1>1. CASE /\ sendPacket("SIGNATURE", t)
           /\ effect' = [op |-> "SIGN_TRANSACTION", password |-> None, consent |-> given']
  <2>1. Needs("SIGN_TRANSACTION") = {} /\ effect'.op = "SIGN_TRANSACTION"
    BY Zenon, <1>1 DEF Needs
  <2>2. ConsentBeforeEffect'
    BY Zenon, <2>1 DEF ConsentBeforeEffect
  <2>. QED BY Zenon, <1>1, <2>2, SendWell
<1>2. CASE writeFailureString("WALLET") /\ UNCHANGED effect
  BY Zenon, <1>2, FailureWell DEF ConsentBeforeEffect
<1>. QED BY Zenon, <1>1, <1>2 DEF Sign

-----------------------------------------------------------------------------
(* The handlers. *)

LEMMA processPacketInv == ASSUME IInv, processPacket PROVE IInv' /\ SendsApproved
<1>1. /\ input \in Seq(Units) /\ IsSeq(output) /\ stage = 0 /\ ConsentBeforeEffect
      /\ prev_transaction_hash # None => prev_transaction_hash \in approved
  BY Zenon DEF IInv, processPacket
<1>2. input' \in Seq(Units) /\ payload_length' \in Nat
  BY Zenon, <1>1, PacketRead DEF processPacket, AfterUnexpected
<1>3. prev_transaction_hash' # None => prev_transaction_hash' \in approved'
  BY Zenon, <1>1 DEF processPacket, AfterInitialize
<1>4. Handled
  <2>1. ASSUME NEW code, writeFailureString(code), Done, UNCHANGED effect
        PROVE  Handled
    BY Zenon, <1>1, <2>1, FailureWell, InterjectionNames DEF Done, ConsentBeforeEffect, Handled
  <2>2. CASE pc' = "fatal" /\ UNCHANGED <<output, effect>>
    BY Zenon, <1>1, <2>2, SilentWell, InterjectionNames DEF ConsentBeforeEffect, Handled
  <2>3. CASE /\ Id \in DOMAIN Commands
             /\ IF Id = "LOAD_WALLET" THEN LoadWallet ELSE Ahead(Id, 0)
             /\ pc' # "idle" => request' = Id
    <3>1. CASE Id = "LOAD_WALLET"
      BY Zenon, <1>1, <2>3, <3>1, LoadWalletWell
    <3>2. CASE Id # "LOAD_WALLET"
      <4>1. 0 <= Len(Commands[Id].ask)
        BY <2>3, CommandFacts
      <4>2. Id # "SIGN_TRANSACTION"
        BY Zenon DEF processPacket
      <4>. QED BY <1>1, <2>3, <3>2, <4>1, <4>2, AheadWell
    <3>. QED BY Zenon, <3>1, <3>2
  <2>. QED BY Zenon, <2>1, <2>2, <2>3 DEF processPacket
<1>. QED BY Zenon, <1>2, <1>3, <1>4 DEF IInv, Handled

LEMMA BeginSigningInv == ASSUME IInv, BeginSigning PROVE IInv' /\ SendsApproved
<1>1. input' \in Seq(Units) /\ payload_length' \in Nat
  BY Zenon, HeadOfInput, PacketRead DEF IInv, BeginSigning, AtHeader
<1>2. IsSeq(output') /\ SendsApproved
  BY Zenon, SilentWell DEF IInv, BeginSigning
<1>. QED BY Zenon, <1>1, <1>2, InterjectionNames DEF IInv, BeginSigning, ConsentBeforeEffect

LEMMA DecodeFieldInv == ASSUME IInv, DecodeField PROVE IInv' /\ SendsApproved
<1>1. /\ input \in Seq(Units) /\ IsSeq(output) /\ ConsentBeforeEffect /\ pc = "decoding"
      /\ request = "SIGN_TRANSACTION"
      /\ prev_transaction_hash # None => prev_transaction_hash \in approved
  BY Zenon DEF IInv, DecodeField
<1>2. UNCHANGED <<request, prev_transaction_hash, approved>>
  BY Zenon DEF DecodeField
<1>3. input' \in Seq(Units) /\ payload_length' \in Nat
  BY <1>1, HeadOfInput DEF IInv, DecodeField, Consumed
<1>4. /\ IsSeq(output') /\ SendsApproved /\ ConsentBeforeEffect'
      /\ pc' \in {"decoding", "BUTTON"}
  <2>1. CASE Head(input).tag # "transaction_data"
    BY Zenon, <1>1, <2>1, SilentWell DEF DecodeField, ConsentBeforeEffect
  <2>2. CASE Head(input).tag = "transaction_data"
    <3>. DEFINE t == Head(input).value
    <3>1. t # None
      BY Zenon, <1>1, <2>2, HeadOfInput, UnitFacts DEF DecodeField
    <3>2. signTransactionCallback(t)
      BY Zenon, <2>2 DEF DecodeField
    <3>. HIDE DEF t
    <3>3. CASE writeFailureString("TRANSACTION") /\ UNCHANGED <<pc, effect>>
      BY Zenon, <1>1, <3>3, FailureWell DEF ConsentBeforeEffect
    <3>4. CASE t = prev_transaction_hash /\ Sign(t) /\ UNCHANGED pc
      BY Zenon, <1>1, <1>2, <3>1, <3>4, SignWell
    <3>5. CASE sendPacket(Ask["BUTTON"], None) /\ pc' = "BUTTON" /\ UNCHANGED effect
      <4>1. Ask["BUTTON"] # "SIGNATURE"
        BY Zenon, InterjectionNames
      <4>. QED BY Zenon, <1>1, <3>5, <4>1, SendWell DEF ConsentBeforeEffect
    <3>. QED BY Zenon, <3>2, <3>3, <3>4, <3>5 DEF signTransactionCallback
  <2>. QED BY Zenon, <2>1, <2>2
<1>. QED BY Zenon, <1>1, <1>2, <1>3, <1>4 DEF IInv

LEMMA EndDecodingInv == ASSUME IInv, EndDecoding PROVE IInv' /\ SendsApproved
<1>1. input' \in Seq(Units) /\ payload_length' \in Nat
  BY Zenon, RestOfSeq DEF IInv, EndDecoding
<1>2. IsSeq(output') /\ SendsApproved
  BY Zenon, SilentWell, FailureWell DEF IInv, EndDecoding
<1>. QED BY Zenon, <1>1, <1>2, InterjectionNames DEF IInv, EndDecoding, Done, ConsentBeforeEffect

LEMMA RefusedWell ==
    ASSUME IInv, NEW code, Refused(code)
    PROVE  /\ IsSeq(output') /\ SendsApproved /\ ConsentBeforeEffect'
           /\ prev_transaction_hash' # None => prev_transaction_hash' \in approved'
           /\ \/ pc' = "idle" /\ stage' = 0
              \/ pc' = "decoding" /\ request' = "SIGN_TRANSACTION"
<1>1. IsSeq(output') /\ SendsApproved
  BY Zenon, FailureWell DEF IInv, Refused
<1>. QED BY Zenon, <1>1 DEF IInv, Refused, GiveUp, Done, ConsentBeforeEffect

\* The interjection that was waited for has succeeded.
LEMMA AcceptWell ==
    ASSUME IInv, pc \in Interjections, pc = "OTP" => OTPMatches, Accept
    PROVE  /\ IsSeq(output') /\ SendsApproved /\ ConsentBeforeEffect'
           /\ prev_transaction_hash' # None => prev_transaction_hash' \in approved'
           /\ pc' = "idle" => stage' = 0
           /\ pc' = "decoding" => request' = "SIGN_TRANSACTION"
           /\ pc' \in Interjections /\ request' # "SIGN_TRANSACTION" => Waiting'
<1>1. given' = given \cup {pc}
  BY Zenon DEF Accept, OTPMatches
<1>2. CASE /\ request = "SIGN_TRANSACTION"
           /\ prev_transaction_hash' = transaction
           /\ approved' = approved \cup {transaction}
           /\ Sign(transaction)
           /\ pc' = "decoding"
           /\ UNCHANGED request
  BY Zenon, <1>2, SignWell DEF IInv
<1>3. CASE /\ request # "SIGN_TRANSACTION"
           /\ Ahead(request, stage + 1)
           /\ pc' # "idle" => UNCHANGED request
           /\ UNCHANGED <<prev_transaction_hash, approved>>
  <2>1. Waiting
    BY Zenon, <1>3 DEF IInv
  <2>2. /\ request \in DOMAIN Commands /\ stage + 1 \in Nat
        /\ stage + 1 <= Len(Commands[request].ask)
    BY <2>1, CommandFacts DEF Waiting
  <2>3. \A k \in 1 .. stage + 1 : Commands[request].ask[k] \in given'
    BY <1>1, <2>1 DEF Waiting
  <2>4. Handled
    BY Zenon, <1>3, <2>2, <2>3, AheadWell DEF IInv
  <2>. QED BY Zenon, <1>3, <2>4 DEF IInv, Handled
<1>. QED BY Zenon, <1>2, <1>3 DEF Accept, Granted

LEMMA ReplyInv == ASSUME IInv, Reply PROVE IInv' /\ SendsApproved
<1>1. input' \in Seq(Units) /\ payload_length' \in Nat
  BY Zenon, PacketRead DEF IInv, Reply, AfterUnexpected
<1>2. CASE \E code : Refused(code)
  BY Zenon, <1>1, <1>2, RefusedWell, InterjectionNames DEF IInv
<1>3. CASE (pc = "OTP" => OTPMatches) /\ Accept
  <2>1. pc \in Interjections
    BY Zenon DEF Reply
  <2>. QED BY Zenon, <1>1, <1>3, <2>1, AcceptWell DEF IInv
<1>. QED BY Zenon, <1>2, <1>3 DEF Reply, Cancelled

LEMMA HostReceivesInv == ASSUME IInv, HostReceives PROVE IInv' /\ SendsApproved
<1>1. PICK S : output \in Seq(S)
  BY Zenon DEF IInv, IsSeq
<1>2. output' \in Seq(S) /\ ~(Len(output') > Len(output))
  BY <1>1 DEF HostReceives
<1>3. IsSeq(output') /\ SendsApproved
  BY Zenon, <1>2 DEF IsSeq, SendsApproved
<1>. QED BY Zenon, <1>3 DEF IInv, HostReceives, device, ConsentBeforeEffect, Waiting

LEMMA PowerLossInv == ASSUME IInv, PowerLoss PROVE IInv' /\ SendsApproved
<1>1. PICK S : output \in Seq(S)
  BY Zenon DEF IInv, IsSeq
<1>2. output' \in Seq(S) /\ ~(Len(output') > Len(output))
  BY <1>1 DEF PowerLoss
<1>3. IsSeq(output') /\ SendsApproved
  BY Zenon, <1>2 DEF IsSeq, SendsApproved
<1>. QED BY <1>3, InterjectionNames DEF IInv, PowerLoss, ConsentBeforeEffect

\* The remaining steps send nothing to the host.
LEMMA SilentInv ==
    ASSUME IInv, EndOfStream \/ InvalidHeader \/ HostSends
    PROVE  IInv' /\ SendsApproved
<1>1. UNCHANGED <<output, request, stage, prev_transaction_hash, effect, given, approved>>
  BY Zenon DEF EndOfStream, InvalidHeader, HostSends, device
<1>2. IsSeq(output') /\ SendsApproved
  BY Zenon, <1>1, SilentWell DEF IInv
<1>3. input' \in Seq(Units)
  BY Zenon, PacketWritten DEF IInv, EndOfStream, InvalidHeader, HostSends
<1>4. UNCHANGED payload_length /\ (pc' = pc \/ pc' = "fatal")
  BY Zenon DEF EndOfStream, InvalidHeader, HostSends, device
<1>. QED BY Zenon, <1>1, <1>2, <1>3, <1>4, InterjectionNames DEF IInv, ConsentBeforeEffect, Waiting

LEMMA InitIInv == Init => IInv
<1>1. <<>> \in Seq(Units) /\ IsSeq(<<>>)
  BY DEF IsSeq
<1>. QED BY <1>1, InterjectionNames DEF Init, IInv, ConsentBeforeEffect

LEMMA NextIInv == ASSUME IInv, Next PROVE IInv' /\ SendsApproved
BY Zenon, processPacketInv, BeginSigningInv, DecodeFieldInv, EndDecodingInv, ReplyInv, HostReceivesInv,
   PowerLossInv, SilentInv DEF Next, Device

LEMMA StutterIInv == ASSUME IInv, UNCHANGED vars PROVE IInv'
BY Zenon DEF IInv, vars, device, ConsentBeforeEffect, Waiting

LEMMA Invariance == Spec => []IInv
<1>1. IInv /\ [Next]_vars => IInv'
  BY Zenon, NextIInv, StutterIInv
<1>. QED BY <1>1, InitIInv, PTL DEF Spec

-----------------------------------------------------------------------------
(* The theorems. *)

\* Whatever packets the host sends, in whatever order, and wherever power is
\* lost: no command is carried out unless the button press and the one-time
\* password that it needs were obtained for that very command.
THEOREM ConsentComesFirst == Spec => []ConsentBeforeEffect
<1>1. IInv => ConsentBeforeEffect
  BY Zenon DEF IInv
<1>. QED BY <1>1, Invariance, PTL

\* The device sends a signature only for a transaction that the user has
\* approved since it was last initialised or lost power, also if the message
\* repeats its fields or is interrupted by packets nobody asked for.
THEOREM SignaturesAreApproved == Spec => SignedWasApproved
<1>1. IInv /\ [Next]_vars => [SendsApproved]_vars
  BY Zenon, NextIInv
<1>. QED BY <1>1, Invariance, PTL DEF Spec, SignedWasApproved

-----------------------------------------------------------------------------
(* Taking turns with a host whose messages have the form that libraries     *)
(* give them.                                                               *)

Framed(p) == <<Header(p)>> \o p.fields

\* A header in the stream is followed by the whole of its packet.
Framing ==
    \A i \in 1 .. Len(input) :
        input[i].tag = "##" =>
            \E p \in Packets :
                /\ input[i] = Header(p)
                /\ i + Len(p.fields) <= Len(input)
                /\ \A j \in 1 .. Len(p.fields) : input[i + j] = p.fields[j]

\* What the host believes the device to wait for.
Expects == IF pc \in Interjections THEN Ask[pc] ELSE None

\* The packet has been dealt with, or answered from inside the decoder at its end.
Answerable ==
    \/ pc = "idle" \/ pc \in Interjections
    \/ /\ pc = "decoding"
       /\ payload_length = 0
       /\ Required("SIGN_TRANSACTION") \subseteq seen

PasswordKept == pc \in Interjections /\ request \in TakesPassword => field_hash = supplied

HostsTurn ==
    /\ host = "turn" /\ input = <<>> /\ output = <<>>
    /\ Answerable /\ asked = Expects
    /\ session_id = session /\ PasswordKept

Sent(p) ==
    /\ IsRegular(p) /\ input = Framed(p)
    /\ session = IF pc \in Interjections THEN session_id ELSE NewSession(p.id, p.fields)
    /\ IF pc \in Interjections THEN p.id # "PIN_ACK" => PasswordKept
       ELSE supplied = Value(p.fields, "password")

Underway ==
    /\ host = "wait" /\ output = <<>>
    /\ Answerable /\ asked = Expects
    /\ \E p \in Packets : Sent(p)

\* The first n fields of a SignTransaction have been read.
DecodedUpTo(p, n) ==
    /\ IsRegular(p) /\ p.id = "SIGN_TRANSACTION"
    /\ input = SubSeq(p.fields, n + 1, Len(p.fields))
    /\ payload_length = Len(p.fields) - n /\ bytes_left = payload_length
    /\ seen = {p.fields[j].tag : j \in 1 .. n}
    /\ "transaction_data" \notin seen

Decoding ==
    /\ host = "wait" /\ output = <<>>
    /\ pc = "decoding" /\ session_id = session
    /\ \E p \in Packets : \E n \in 0 .. Len(p.fields) : DecodedUpTo(p, n)

\* The answer says what the device waits for, and a Ping has the session.
Fits(answer) ==
    /\ answer.unread = 0
    /\ IF pc \in Interjections THEN answer.id = Ask[pc]
       ELSE \A i \in Interjections : answer.id # Ask[i]
    /\ answer.id = "PING_RESPONSE" => answer.value = session

Answered ==
    /\ host = "wait" /\ input = <<>>
    /\ Len(output) = 1 /\ Fits(output[1])
    /\ Answerable /\ session_id = session /\ PasswordKept

InStep ==
    /\ pc \in Interjections /\ request = "SIGN_TRANSACTION" =>
        Required("SIGN_TRANSACTION") \subseteq seen
    /\ HostsTurn \/ Underway \/ Decoding \/ Answered

TurnsInv == IInv /\ TypeOK /\ Framing /\ (regular => InStep)

-----------------------------------------------------------------------------
(* Whole packets in the stream. *)

LEMMA FieldsOfPacket ==
    ASSUME NEW p \in Packets
    PROVE  /\ Len(p.fields) \in Nat /\ IsSeq(p.fields)
           /\ \A j \in 1 .. Len(p.fields) : p.fields[j].tag # "##"
           /\ Header(p).tag = "##" /\ Header(p).id = p.id /\ Header(p).length = Len(p.fields)
<1>1. p.fields \in Seq({p.fields[i] : i \in 1 .. Len(p.fields)})
  BY Zenon, PacketsAssumption
<1>2. \A j \in 1 .. Len(p.fields) : p.fields[j].tag # "##"
  BY Zenon, PacketsAssumption
<1>. QED BY <1>1, <1>2 DEF IsSeq, Header

\* What is left of the stream keeps its packets whole.
LEMMA DroppedFraming ==
    ASSUME input \in Seq(Units), Framing, NEW m \in Nat,
           input' = SubSeq(input, m + 1, Len(input))
    PROVE  Framing'
<1>1. CASE m >= Len(input)
  <2>1. input' = <<>>
    BY <1>1
  <2>. QED BY SMTT(30), <2>1 DEF Framing
<1>2. CASE m < Len(input)
  <2>1. Len(input') = Len(input) - m /\ \A i \in 1 .. Len(input') : input'[i] = input[m + i]
    BY <1>2
  <2>2. SUFFICES ASSUME NEW i \in 1 .. Len(input'), input'[i].tag = "##"
                 PROVE  \E p \in Packets :
                           /\ input'[i] = Header(p)
                           /\ i + Len(p.fields) <= Len(input')
                           /\ \A j \in 1 .. Len(p.fields) : input'[i + j] = p.fields[j]
    BY Zenon DEF Framing
  <2>3. m + i \in 1 .. Len(input) /\ input[m + i] = input'[i]
    BY SMTT(30), <1>2, <2>1
  <2>4. PICK p \in Packets :
           /\ input[m + i] = Header(p)
           /\ m + i + Len(p.fields) <= Len(input)
           /\ \A j \in 1 .. Len(p.fields) : input[m + i + j] = p.fields[j]
    BY Zenon, <2>2, <2>3 DEF Framing
  <2>5. Len(p.fields) \in Nat
    BY Zenon, FieldsOfPacket
  <2>8. Len(input) \in Nat /\ Len(input') \in Nat /\ i \in Nat
    BY <1>2, <2>1
  <2>6. i + Len(p.fields) <= Len(input')
    <3>1. PICK a \in Nat, b \in Nat, l \in Nat : a = Len(input) /\ b = Len(input') /\ l = Len(p.fields)
      BY Zenon, <2>5, <2>8
    <3>2. b = a - m /\ m + i + l <= a
      BY Zenon, <2>1, <2>4, <3>1
    <3>3. i + l <= b
      BY ONLY <2>8, <3>2, m \in Nat, a \in Nat, b \in Nat, l \in Nat
    <3>. QED BY Zenon, <3>1, <3>3
  <2>7. \A j \in 1 .. Len(p.fields) : input'[i + j] = p.fields[j]
    <3>1. ASSUME NEW j \in 1 .. Len(p.fields)
          PROVE  input'[i + j] = p.fields[j]
      <4>1. i + j \in 1 .. Len(input') /\ m + (i + j) = m + i + j
        BY <2>5, <2>6, <2>8
      <4>2. input'[i + j] = input[m + (i + j)]
        BY Zenon, <2>1, <4>1
      <4>. QED BY Zenon, <2>4, <4>1, <4>2
    <3>. QED BY Zenon, <3>1
  <2>. QED BY Zenon, <2>3, <2>4, <2>6, <2>7
<1>. QED BY <1>1, <1>2

\* What stands where after a header and fields have been appended.
LEMMA AppendedPlaces ==
    ASSUME NEW T, NEW s \in Seq(T), NEW h \in T, NEW f \in Seq(T),
           NEW t, t = s \o <<h>> \o f
    PROVE  /\ Len(t) = Len(s) + 1 + Len(f)
           /\ \A i \in 1 .. Len(s) : t[i] = s[i]
           /\ t[Len(s) + 1] = h
           /\ \A j \in 1 .. Len(f) : t[Len(s) + 1 + j] = f[j]
OBVIOUS

LEMMA AppendedFraming ==
    ASSUME input \in Seq(Units), Framing, NEW p \in Packets,
           input' = input \o <<Header(p)>> \o p.fields
    PROVE  Framing'
<1>1. PICK S : p.fields \in Seq(S)
  BY Zenon, FieldsOfPacket DEF IsSeq
<1>2. PICK n, k, t, f : n = Len(input) /\ k = Len(p.fields) /\ t = input' /\ f = p.fields
  BY Zenon
<1>3. /\ n \in Nat /\ k \in Nat
      /\ Len(t) = n + 1 + k
      /\ \A i \in 1 .. n : t[i] = input[i]
      /\ t[n + 1] = Header(p)
      /\ \A j \in 1 .. k : t[n + 1 + j] = f[j]
  <2>. DEFINE T == Units \cup {Header(p)} \cup S
  <2>1. input \in Seq(T) /\ Header(p) \in T /\ p.fields \in Seq(T)
    BY <1>1
  <2>. HIDE DEF T
  <2>2. t = input \o <<Header(p)>> \o f
    BY Zenon, <1>2
  <2>3. /\ Len(t) = Len(input) + 1 + Len(f)
        /\ \A i \in 1 .. Len(input) : t[i] = input[i]
        /\ t[Len(input) + 1] = Header(p)
        /\ \A j \in 1 .. Len(f) : t[Len(input) + 1 + j] = f[j]
    <3>1. f \in Seq(T)
      BY Zenon, <1>2, <2>1
    <3>. QED BY ONLY <2>1, <2>2, <3>1, AppendedPlaces
  <2>4. n \in Nat /\ k \in Nat
    BY <1>2, <2>1
  <2>. QED BY Zenon, <1>2, <2>3, <2>4
<1>4. SUFFICES ASSUME NEW i \in 1 .. Len(t), t[i].tag = "##"
               PROVE  \E q \in Packets :
                         /\ t[i] = Header(q)
                         /\ i + Len(q.fields) <= Len(t)
                         /\ \A j \in 1 .. Len(q.fields) : t[i + j] = q.fields[j]
  BY Zenon, <1>2 DEF Framing
<1>5. CASE i \in 1 .. n
  <2>1. PICK q \in Packets :
           /\ input[i] = Header(q)
           /\ i + Len(q.fields) <= n
           /\ \A j \in 1 .. Len(q.fields) : input[i + j] = q.fields[j]
    BY Zenon, <1>2, <1>3, <1>4, <1>5 DEF Framing
  <2>2. PICK m \in Nat : m = Len(q.fields)
    BY Zenon, FieldsOfPacket
  <2>3. \A j \in 1 .. m : t[i + j] = input[i + j]
    BY ONLY <1>3, <1>5, <2>1, <2>2
  <2>4. i + m <= Len(t)
    BY ONLY <1>3, <1>5, <2>1, <2>2
  <2>. QED BY Zenon, <1>3, <1>5, <2>1, <2>2, <2>3, <2>4
<1>6. CASE i = n + 1
  <2>1. i + k <= Len(t) /\ t[i] = Header(p) /\ \A j \in 1 .. k : t[i + j] = f[j]
    BY ONLY <1>3, <1>6
  <2>. QED BY Zenon, <1>2, <2>1
<1>7. CASE i \in n + 2 .. Len(t)
  <2>1. i - (n + 1) \in 1 .. k /\ t[n + 1 + (i - (n + 1))] = f[i - (n + 1)]
    BY ONLY <1>3, <1>7
  <2>2. n + 1 + (i - (n + 1)) = i
    BY ONLY <1>3, <1>7
  <2>. QED BY Zenon, <1>2, <1>4, <2>1, <2>2, FieldsOfPacket
<1>8. i \in 1 .. n \/ i = n + 1 \/ i \in n + 2 .. Len(t)
  BY ONLY <1>3, i \in 1 .. Len(t)
<1>. QED BY ONLY Zenon, <1>5, <1>6, <1>7, <1>8

\* The packet at the head of the stream is one that the host sent.
LEMMA FieldsAtHeader ==
    ASSUME input \in Seq(Units), Framing, AtHeader
    PROVE  \E p \in Packets : Id = p.id /\ Fields = p.fields
<1>1. Len(input) \in Nat \ {0} /\ Head(input) = input[1]
  BY DEF AtHeader, Arrived
<1>2. input[1].tag = "##"
  BY Zenon, <1>1 DEF AtHeader
<1>3. PICK p \in Packets :
         /\ input[1] = Header(p)
         /\ 1 + Len(p.fields) <= Len(input)
         /\ \A j \in 1 .. Len(p.fields) : input[1 + j] = p.fields[j]
  BY <1>1, <1>2 DEF Framing
<1>4. Len(p.fields) \in Nat /\ IsSeq(p.fields) /\ Head(input).length = Len(p.fields)
      /\ Id = p.id
  BY Zenon, <1>1, <1>3, FieldsOfPacket DEF Id
<1>5. PICK S : p.fields \in Seq(S)
  BY Zenon, <1>4 DEF IsSeq
<1>6. \A i \in 2 .. Len(p.fields) + 1 : input[i] \in Units
  BY <1>1, <1>3, <1>4
<1>7. /\ Fields \in Seq(Units) /\ Len(Fields) = Len(p.fields)
      /\ \A j \in 1 .. Len(p.fields) : Fields[j] = input[1 + j]
  BY <1>3, <1>4, <1>6, SubSeqProperties DEF Fields
<1>8. Fields = p.fields
  BY SMTT(30), <1>3, <1>5, <1>7, SeqEqual
<1>. QED BY Zenon, <1>4, <1>8

-----------------------------------------------------------------------------
(* What a request sends. *)

\* The end of a request, or of an interjection that failed.
Says(answer, value) ==
    /\ sendPacket(answer, value)
    /\ \A i \in Interjections : answer # Ask[i]
    /\ answer = "PING_RESPONSE" => value = session_id'

\* One packet is sent, and it asks for what the device then waits for.
Speaks ==
    \/ pc' \in Interjections /\ sendPacket(Ask[pc'], None)
    \/ pc' \notin Interjections /\ \E answer, value : Says(answer, value)

\* A step of a request other than SIGN_TRANSACTION.
Conducted(id) ==
    /\ Speaks
    /\ stage' \in 0 .. 1
    /\ otp' \in OTPs \cup {None}
    /\ transaction' \in {transaction, None}
    /\ \/ pc' = "idle" /\ request' = None
       \/ pc' \in Interjections /\ request' = id
    /\ \/ UNCHANGED effect
       \/ effect'.op = id /\ (id \in TakesPassword => effect'.password = field_hash')

AnswerRecords == \A i \in 1 .. Len(output) : DOMAIN output[i] = {"id", "value", "unread"}

LEMMA SendRecords ==
    ASSUME IsSeq(output), AnswerRecords, NEW id, NEW value, sendPacket(id, value)
    PROVE  AnswerRecords'
<1>. DEFINE sent == [id |-> id, value |-> value, unread |-> payload_length']
<1>1. PICK S : output \in Seq(S)
  BY Zenon DEF IsSeq
<1>2. output \in Seq(S \cup {sent}) /\ sent \in S \cup {sent}
  BY <1>1
<1>3. DOMAIN sent = {"id", "value", "unread"}
  BY Zenon
<1>. HIDE DEF sent
<1>4. output' = Append(output, sent)
  BY Zenon DEF sendPacket, sent
<1>5. /\ Len(output') = Len(output) + 1 /\ output'[Len(output) + 1] = sent
      /\ Len(output) \in Nat
      /\ \A i \in 1 .. Len(output) : output'[i] = output[i]
  BY <1>2, <1>4
<1>. QED BY <1>3, <1>5 DEF AnswerRecords

LEMMA SendFirst ==
    ASSUME output = <<>>, NEW id, NEW value, sendPacket(id, value)
    PROVE  /\ Len(output') = 1
           /\ output'[1].id = id /\ output'[1].value = value
           /\ output'[1].unread = payload_length'
BY DEF sendPacket

LEMMA AskNames ==
    /\ \A i \in Interjections : Ask[i] \in {"BUTTON_REQUEST", "OTP_REQUEST", "PIN_REQUEST"}
    /\ \A i, j \in Interjections : Ask[i] = Ask[j] => i = j
BY DEF Interjections, Ack, Ask

LEMMA FailureSays ==
    ASSUME NEW code, writeFailureString(code)
    PROVE  \E answer, value : Says(answer, value)
BY AskNames DEF writeFailureString, Says

LEMMA AnswerSays ==
    ASSUME NEW id, translateWalletError(id),
           id \notin {"BUTTON_REQUEST", "OTP_REQUEST", "PIN_REQUEST", "PING_RESPONSE"}
    PROVE  \E answer, value : Says(answer, value)
BY Zenon, AskNames, FailureSays DEF translateWalletError, Says

\* Only Ping echoes the session, and no command answers with an interjection.
LEMMA CommandAnswers ==
    ASSUME NEW id \in DOMAIN Commands, id # "PING"
    PROVE  Commands[id].answer
               \notin {"BUTTON_REQUEST", "OTP_REQUEST", "PIN_REQUEST", "PING_RESPONSE"}
<1>1. CASE id \in {"DELETE_WALLET", "FORMAT", "CHANGE_KEY", "GET_MASTER_KEY"}
  BY SMTT(30), <1>1 DEF Commands, AsksTwice
<1>2. CASE id \in {"NEW_WALLET", "NEW_ADDRESS", "CHANGE_NAME", "BACKUP_WALLET", "RESTORE_WALLET",
                   "SIGN_TRANSACTION"}
  BY SMTT(30), <1>2 DEF Commands, Asks
<1>3. CASE id \in {"INITIALIZE", "LOAD_WALLET", "GET_NUM_ADDRESSES", "GET_ADDRESS_PUBKEY",
                   "LIST_WALLETS", "GET_DEVICE_UUID", "GET_ENTROPY"}
  BY SMTT(30), <1>3 DEF Commands, Plain
<1>. QED BY Zenon, <1>1, <1>2, <1>3 DEF Commands

LEMMA PerformSays ==
    ASSUME NEW id \in DOMAIN Commands, Perform(id)
    PROVE  \E answer, value : Says(answer, value)
<1>1. CASE id = "PING"
  <2>1. sendPacket("PING_RESPONSE", session_id')
    BY Zenon, <1>1 DEF Perform
  <2>. QED BY Zenon, <2>1, AskNames DEF Says
<1>2. CASE id = "INITIALIZE"
  <2>1. sendPacket("FEATURES", session_id') \/ writeFailureString("WALLET")
    BY Zenon, <1>2 DEF Perform
  <2>. QED BY <2>1, AskNames, FailureSays DEF Says
<1>3. CASE id \in {"NEW_ADDRESS", "GET_ADDRESS_PUBKEY"}
  <2>1. translateWalletError("ADDRESS_PUBKEY")
    BY Zenon, <1>3 DEF Perform, getAndSendAddressAndPublicKey
  <2>. QED BY Zenon, <2>1, AnswerSays
<1>4. CASE id = "GET_ENTROPY"
  <2>1. writeFailureString("PARAM_TOO_LARGE") \/ translateWalletError("ENTROPY")
    BY Zenon, <1>4 DEF Perform, getBytesOfEntropy
  <2>. QED BY Zenon, <2>1, AnswerSays, FailureSays
<1>5. CASE id = "LIST_WALLETS"
  <2>1. translateWalletError("WALLETS")
    BY Zenon, <1>5 DEF Perform, listWallets
  <2>. QED BY Zenon, <2>1, AnswerSays
<1>6. CASE id \notin {"PING", "INITIALIZE", "NEW_ADDRESS", "GET_ADDRESS_PUBKEY", "GET_ENTROPY",
                      "LIST_WALLETS"}
  <2>1. translateWalletError(Commands[id].answer)
    BY Zenon, <1>6 DEF Perform
  <2>. QED BY Zenon, <1>6, <2>1, AnswerSays, CommandAnswers
<1>. QED BY Zenon, <1>1, <1>2, <1>3, <1>4, <1>5, <1>6

LEMMA AheadConducted ==
    ASSUME NEW id \in DOMAIN Commands, NEW n \in Nat, n <= Len(Commands[id].ask),
           Ahead(id, n), pc' # "idle" => request' = id
    PROVE  Conducted(id)
<1>1. CASE /\ n < Len(Commands[id].ask) /\ pc' = Commands[id].ask[n + 1] /\ stage' = n
           /\ sendPacket(Ask[pc'], None) /\ UNCHANGED <<effect, transaction>>
           /\ IF pc' = "OTP" THEN otp' \in OTPs ELSE otp' = None
  <2>1. pc' \in Interjections /\ n < 2
    BY <1>1, CommandFacts
  <2>2. pc' # "idle"
    BY Zenon, <2>1, InterjectionNames
  <2>3. otp' \in OTPs \cup {None}
    BY Zenon, <1>1
  <2>. QED BY <1>1, <2>1, <2>2, <2>3 DEF Conducted, Speaks
<1>2. CASE otp' = None /\ Perform(id)
  <2>1. \E answer, value : Says(answer, value)
    BY Zenon, <1>2, PerformSays
  <2>2. pc' = "idle" /\ request' = None /\ stage' = 0 /\ transaction' = None
    BY Zenon, <1>2 DEF Perform, Done
  <2>3. effect'.op = id /\ (id \in TakesPassword => effect'.password = field_hash')
    BY Zenon, <1>2 DEF Perform, Carried
  <2>. QED BY <1>2, <2>1, <2>2, <2>3, InterjectionNames DEF Conducted, Speaks
<1>. QED BY Zenon, <1>1, <1>2 DEF Ahead

LEMMA LoadWalletConducted ==
    ASSUME stage = 0, LoadWallet, pc' # "idle" => request' = "LOAD_WALLET"
    PROVE  Conducted("LOAD_WALLET")
<1>1. otp' = None /\ effect'.op = "LOAD_WALLET" /\ "LOAD_WALLET" \notin TakesPassword
  BY Zenon DEF LoadWallet, Carried, TakesPassword
<1>2. CASE (writeFailureString("WALLET") \/ sendPacket("SUCCESS", None)) /\ Done
  <2>1. \E answer, value : Says(answer, value)
    BY <1>2, FailureSays, AskNames DEF Says
  <2>2. pc' = "idle" /\ request' = None /\ stage' = 0 /\ transaction' = None
    BY Zenon, <1>2 DEF Done
  <2>. QED BY <1>1, <2>1, <2>2, InterjectionNames DEF Conducted, Speaks
<1>3. CASE sendPacket(Ask["PIN"], None) /\ pc' = "PIN" /\ UNCHANGED <<stage, transaction>>
  BY <1>1, <1>3, InterjectionNames DEF Conducted, Speaks
<1>. QED BY Zenon, <1>2, <1>3 DEF LoadWallet

-----------------------------------------------------------------------------
(* Types and framing, step by step. *)

LEMMA SpeakRecords ==
    ASSUME IsSeq(output), AnswerRecords, Speaks
    PROVE  AnswerRecords'
BY Zenon, SendRecords DEF Speaks, Says

LEMMA InputTyped ==
    ASSUME input \in Seq(Units)
    PROVE  \A i \in 1 .. Len(input) : input[i] \in Units
OBVIOUS

LEMMA PacketFraming ==
    ASSUME input \in Seq(Units), Framing, AtHeader, input' = AfterPacket
    PROVE  Framing'
<1>1. PICK m \in Nat : m = Head(input).length + 1
  BY PacketRead
<1>2. m + 1 = Head(input).length + 2
  BY <1>1, PacketRead
<1>. QED BY Zenon, <1>2, DroppedFraming DEF AfterPacket

LEMMA TailFraming ==
    ASSUME input \in Seq(Units), Framing, Arrived, input' = Tail(input)
    PROVE  Framing'
<1>1. Tail(input) = SubSeq(input, 1 + 1, Len(input))
  BY DEF Arrived
<1>. QED BY Zenon, <1>1, DroppedFraming

\* A value that a packet has for a tag.
LEMMA ValueTyped ==
    ASSUME input \in Seq(Units), Framing, AtHeader
    PROVE  Value(Fields, "password") \in Passwords /\ Value(Fields, "session_id") \in Sessions
<1>1. PICK p \in Packets : Fields = p.fields
  BY Zenon, FieldsAtHeader
<1>. QED BY Zenon, <1>1 DEF Passwords, Sessions

LEMMA processPacketTyped ==
    ASSUME IInv, TypeOK, Framing, processPacket
    PROVE  TypeOK' /\ Framing'
<1>1. /\ input \in Seq(Units) /\ IsSeq(output) /\ stage = 0 /\ AnswerRecords
  BY Zenon DEF IInv, TypeOK, processPacket, AnswerRecords
<1>2. AtHeader /\ input' = AfterPacket
  BY Zenon DEF processPacket, AfterUnexpected
<1>3. Framing'
  BY Zenon, <1>1, <1>2, PacketFraming
<1>4. \A i \in 1 .. Len(input') : input'[i] \in Units
  BY <1>1, <1>2, PacketRead
<1>5. /\ field_hash' \in Passwords /\ session_id' \in Sessions
      /\ prev_transaction_hash' \in Transactions
  <2>1. field_hash' \in Passwords
    BY Zenon, <1>1, <1>2, ValueTyped DEF TypeOK, processPacket, NewFieldHash
  <2>2. session_id' \in Sessions
    BY Zenon, <1>1, <1>2, ValueTyped DEF TypeOK, processPacket, NewSession, Sessions
  <2>3. prev_transaction_hash' \in Transactions
    BY Zenon DEF TypeOK, processPacket, AfterInitialize, Transactions
  <2>. QED BY Zenon, <2>1, <2>2, <2>3
<1>6. /\ payload_length' = 0 /\ bytes_left' = 0 /\ given' = {} /\ host' = host
      /\ approved' \in {approved, {}}
  BY Zenon DEF processPacket
<1>. DEFINE Typed == /\ AnswerRecords' /\ stage' \in 0 .. 1
                     /\ pc' \in {"idle", "decoding", "fatal"} \cup Interjections
                     /\ request' \in DOMAIN Commands \cup {None}
                     /\ otp' \in OTPs \cup {None} /\ transaction' \in Transactions
<1>7. Typed
  <2>1. None \in Transactions /\ transaction \in Transactions
    BY Zenon DEF TypeOK, Transactions
  <2>2. ASSUME NEW code, writeFailureString(code), Done, UNCHANGED otp
        PROVE  Typed
    <3>1. AnswerRecords'
      BY Zenon, <1>1, <2>2, SendRecords DEF writeFailureString
    <3>. QED BY <2>1, <2>2, <3>1 DEF TypeOK, Done
  <2>3. CASE pc' = "fatal" /\ UNCHANGED <<output, request, stage, otp, transaction>>
    BY Zenon, <1>1, <2>3 DEF TypeOK, AnswerRecords
  <2>4. CASE /\ Id \in DOMAIN Commands
             /\ IF Id = "LOAD_WALLET" THEN LoadWallet ELSE Ahead(Id, 0)
             /\ pc' # "idle" => request' = Id
    <3>1. Conducted(Id)
      <4>1. 0 <= Len(Commands[Id].ask)
        BY <2>4, CommandFacts
      <4>. QED BY Zenon, <1>1, <2>4, <4>1, LoadWalletConducted, AheadConducted
    <3>2. AnswerRecords'
      BY Zenon, <1>1, <3>1, SpeakRecords DEF Conducted
    <3>. QED BY Zenon, <2>1, <2>4, <3>1, <3>2 DEF Conducted
  <2>. HIDE DEF Typed
  <2>. QED BY Zenon, <2>2, <2>3, <2>4 DEF processPacket
<1>. QED BY Zenon, <1>3, <1>4, <1>5, <1>6, <1>7 DEF TypeOK, AnswerRecords

LEMMA BeginSigningTyped ==
    ASSUME IInv, TypeOK, Framing, BeginSigning
    PROVE  TypeOK' /\ Framing'
<1>1. input \in Seq(Units) /\ Arrived /\ AtHeader /\ input' = Tail(input)
  BY Zenon DEF IInv, BeginSigning, AtHeader
<1>2. Framing' /\ input' \in Seq(Units) /\ Head(input).length \in Nat
  BY Zenon, <1>1, TailFraming, HeadOfInput, PacketRead
<1>3. \A i \in 1 .. Len(input') : input'[i] \in Units
  BY <1>2
<1>4. "SIGN_TRANSACTION" \in DOMAIN Commands
  BY Zenon DEF Commands
<1>. QED BY Zenon, <1>2, <1>3, <1>4 DEF TypeOK, BeginSigning

LEMMA SignSays ==
    ASSUME NEW t, Sign(t)
    PROVE  \E answer, value : Says(answer, value)
BY AskNames, FailureSays DEF Sign, Says

LEMMA CallbackSpeaks ==
    ASSUME NEW t, pc = "decoding", signTransactionCallback(t)
    PROVE  Speaks /\ pc' \in {"decoding", "BUTTON"}
<1>1. CASE writeFailureString("TRANSACTION") /\ UNCHANGED pc
  BY Zenon, <1>1, FailureSays, InterjectionNames DEF Speaks
<1>2. CASE Sign(t) /\ UNCHANGED pc
  BY Zenon, <1>2, SignSays, InterjectionNames DEF Speaks
<1>3. CASE sendPacket(Ask["BUTTON"], None) /\ pc' = "BUTTON"
  BY Zenon, <1>3, InterjectionNames DEF Speaks
<1>. QED BY Zenon, <1>1, <1>2, <1>3 DEF signTransactionCallback

LEMMA DecodeFieldTyped ==
    ASSUME IInv, TypeOK, Framing, DecodeField
    PROVE  TypeOK' /\ Framing'
<1>1. /\ input \in Seq(Units) /\ Arrived /\ input' = Tail(input) /\ IsSeq(output)
      /\ AnswerRecords /\ pc = "decoding"
  BY Zenon DEF IInv, TypeOK, DecodeField, AnswerRecords
<1>2. Framing' /\ input' \in Seq(Units) /\ Head(input) \in Units
  BY Zenon, <1>1, TailFraming, HeadOfInput
<1>3. \A i \in 1 .. Len(input') : input'[i] \in Units
  BY <1>2
<1>4. payload_length' \in Nat /\ bytes_left' \in Nat
  BY DEF TypeOK, DecodeField, Consumed
<1>5. AnswerRecords' /\ pc' \in {"decoding", "BUTTON"} /\ transaction' \in Transactions
  <2>1. CASE Head(input).tag = "transaction_data"
    <3>1. Head(input).value \in Transactions
      BY Zenon, <1>2, <2>1 DEF Transactions
    <3>2. signTransactionCallback(Head(input).value)
      BY Zenon, <2>1 DEF DecodeField
    <3>3. Speaks /\ pc' \in {"decoding", "BUTTON"}
      BY Zenon, <1>1, <3>2, CallbackSpeaks
    <3>4. AnswerRecords'
      BY Zenon, <1>1, <3>3, SpeakRecords
    <3>5. transaction' \in Transactions
      BY Zenon, <3>1, <3>2 DEF TypeOK, signTransactionCallback
    <3>. QED BY Zenon, <3>3, <3>4, <3>5
  <2>2. CASE Head(input).tag # "transaction_data"
    BY Zenon, <1>1, <2>2 DEF TypeOK, DecodeField, AnswerRecords
  <2>. QED BY Zenon, <2>1, <2>2
<1>. QED BY Zenon, <1>2, <1>3, <1>4, <1>5, InterjectionNames DEF TypeOK, DecodeField, AnswerRecords

LEMMA EndOfStreamTyped ==
    ASSUME IInv, TypeOK, Framing, EndOfStream
    PROVE  TypeOK' /\ Framing'
BY Zenon DEF EndOfStream, TypeOK, Framing

LEMMA EndDecodingTyped ==
    ASSUME IInv, TypeOK, Framing, EndDecoding
    PROVE  TypeOK' /\ Framing'
<1>1. /\ input \in Seq(Units) /\ payload_length \in Nat /\ IsSeq(output) /\ AnswerRecords
      /\ input' = SubSeq(input, payload_length + 1, Len(input))
  BY Zenon DEF IInv, TypeOK, EndDecoding, AnswerRecords
<1>2. Framing' /\ input' \in Seq(Units)
  BY Zenon, <1>1, DroppedFraming, RestOfSeq
<1>3. \A i \in 1 .. Len(input') : input'[i] \in Units
  BY <1>2
<1>4. AnswerRecords'
  <2>1. UNCHANGED output \/ writeFailureString("INVALID_PACKET")
    BY Zenon DEF EndDecoding
  <2>. QED BY Zenon, <1>1, <2>1, SendRecords DEF AnswerRecords, writeFailureString
<1>5. /\ pc' = "idle" /\ request' = None /\ stage' = 0 /\ transaction' = None
      /\ payload_length' = 0 /\ bytes_left' = 0
      /\ UNCHANGED <<prev_transaction_hash, field_hash, session_id, otp, given, approved, host>>
  BY Zenon DEF EndDecoding, Done
<1>6. None \in Transactions
  BY Zenon DEF Transactions
<1>. QED BY SMTT(30), <1>2, <1>3, <1>4, <1>5, <1>6 DEF TypeOK, AnswerRecords

\* A request is given up, or goes on being decoded.
LEMMA RefusedEffects ==
    ASSUME NEW code, Refused(code)
    PROVE  /\ Speaks
           /\ \/ pc' = "idle" /\ request' = None /\ stage' = 0 /\ transaction' = None
              \/ /\ request = "SIGN_TRANSACTION" /\ pc' = "decoding"
                 /\ UNCHANGED <<request, stage, transaction, seen>>
           /\ UNCHANGED <<prev_transaction_hash, effect, given, approved>> /\ otp' = None
<1>1. \E answer, value : Says(answer, value)
  BY Zenon, FailureSays DEF Refused
<1>. QED BY Zenon, <1>1, InterjectionNames DEF Refused, GiveUp, Done, Speaks

\* The interjection succeeded: sign, or go ahead with the request.
LEMMA GrantedEffects ==
    ASSUME IInv, pc \in Interjections, Granted
    PROVE  /\ Speaks
           /\ \/ /\ request = "SIGN_TRANSACTION" /\ pc' = "decoding"
                 /\ prev_transaction_hash' = transaction
                 /\ approved' = approved \cup {transaction}
                 /\ otp' = None
                 /\ UNCHANGED effect \/ effect'.op = "SIGN_TRANSACTION"
                 /\ UNCHANGED <<request, stage, transaction, seen>>
              \/ /\ request # "SIGN_TRANSACTION" /\ request \in DOMAIN Commands
                 /\ Waiting /\ Conducted(request)
                 /\ UNCHANGED <<prev_transaction_hash, approved>>
<1>1. CASE request = "SIGN_TRANSACTION"
  <2>1. /\ pc' = "decoding" /\ Sign(transaction)
        /\ prev_transaction_hash' = transaction
        /\ approved' = approved \cup {transaction}
        /\ otp' = None
        /\ UNCHANGED <<request, stage, transaction, seen>>
    BY Zenon, <1>1 DEF Granted
  <2>2. UNCHANGED effect \/ effect'.op = "SIGN_TRANSACTION"
    BY <2>1 DEF Sign
  <2>3. Speaks
    BY Zenon, <2>1, SignSays, InterjectionNames DEF Speaks
  <2>. QED BY Zenon, <1>1, <2>1, <2>2, <2>3
<1>2. CASE request # "SIGN_TRANSACTION"
  <2>1. Waiting
    BY Zenon, <1>2 DEF IInv
  <2>2. /\ request \in DOMAIN Commands /\ stage + 1 \in Nat
        /\ stage + 1 <= Len(Commands[request].ask)
    BY <2>1, CommandFacts DEF Waiting
  <2>3. /\ Ahead(request, stage + 1) /\ (pc' # "idle" => request' = request)
        /\ UNCHANGED <<prev_transaction_hash, approved>>
    BY Zenon, <1>2 DEF Granted
  <2>4. Conducted(request)
    BY Zenon, <2>2, <2>3, AheadConducted
  <2>. QED BY Zenon, <1>2, <2>1, <2>2, <2>3, <2>4 DEF Conducted
<1>. QED BY Zenon, <1>1, <1>2

LEMMA ReplyTyped ==
    ASSUME IInv, TypeOK, Framing, Reply
    PROVE  TypeOK' /\ Framing'
<1>1. /\ input \in Seq(Units) /\ IsSeq(output) /\ AnswerRecords /\ pc \in Interjections
      /\ AtHeader /\ input' = AfterPacket
  BY Zenon DEF IInv, TypeOK, Reply, AfterUnexpected, AnswerRecords
<1>2. Framing' /\ input' \in Seq(Units)
  BY Zenon, <1>1, PacketFraming, PacketRead
<1>3. \A i \in 1 .. Len(input') : input'[i] \in Units
  BY <1>2
<1>4. payload_length' = 0 /\ bytes_left' \in Nat /\ UNCHANGED <<session_id, host>>
  <2>1. Head(input).length \in Nat
    BY Zenon, <1>1, PacketRead
  <2>. QED BY Zenon, <2>1 DEF Reply
<1>5. field_hash' \in Passwords
  BY Zenon, <1>1, ValueTyped DEF TypeOK, Reply
<1>6. None \in Transactions /\ transaction \in Transactions /\ stage \in 0 .. 1
      /\ prev_transaction_hash \in Transactions /\ approved \subseteq Transactions
      /\ given \subseteq Interjections /\ request \in DOMAIN Commands \cup {None}
  BY Zenon DEF TypeOK, Transactions
<1>. DEFINE Typed == /\ Speaks
                     /\ pc' \in {"idle", "decoding", "fatal"} \cup Interjections
                     /\ request' \in DOMAIN Commands \cup {None}
                     /\ stage' \in 0 .. 1
                     /\ prev_transaction_hash' \in Transactions
                     /\ otp' \in OTPs \cup {None}
                     /\ transaction' \in Transactions
                     /\ given' \subseteq Interjections
                     /\ approved' \subseteq Transactions
<1>7. ASSUME NEW code, Refused(code)
      PROVE  Typed
  BY <1>6, <1>7, RefusedEffects
<1>8. ASSUME Accept
      PROVE  Typed
  <2>1. given' \subseteq Interjections
    BY Zenon, <1>1, <1>6, <1>8 DEF Accept
  <2>2. Granted
    BY Zenon, <1>8 DEF Accept
  <2>3. CASE /\ Speaks /\ request = "SIGN_TRANSACTION" /\ pc' = "decoding"
             /\ prev_transaction_hash' = transaction
             /\ approved' = approved \cup {transaction}
             /\ otp' = None /\ UNCHANGED <<request, stage, transaction>>
    BY Zenon, <1>6, <2>1, <2>3
  <2>4. CASE /\ request \in DOMAIN Commands /\ Conducted(request)
             /\ UNCHANGED <<prev_transaction_hash, approved>>
    BY Zenon, <1>6, <2>1, <2>4 DEF Conducted
  <2>. HIDE DEF Typed
  <2>. QED BY Zenon, <1>1, <2>2, <2>3, <2>4, GrantedEffects
<1>9. Typed
  <2>. HIDE DEF Typed
  <2>1. (\E code : Refused(code)) \/ Accept
    BY Zenon DEF Reply, Cancelled
  <2>. QED BY Zenon, <1>7, <1>8, <2>1
<1>10. AnswerRecords'
  BY Zenon, <1>1, <1>9, SpeakRecords
<1>. QED BY Zenon, <1>2, <1>3, <1>4, <1>5, <1>6, <1>9, <1>10 DEF TypeOK, AnswerRecords

LEMMA InvalidHeaderTyped ==
    ASSUME IInv, TypeOK, Framing, InvalidHeader
    PROVE  TypeOK' /\ Framing'
BY Zenon DEF InvalidHeader, TypeOK, Framing

LEMMA HostSendsTyped ==
    ASSUME IInv, TypeOK, Framing, HostSends
    PROVE  TypeOK' /\ Framing'
<1>1. PICK p \in Packets : input' = input \o <<Header(p)>> \o p.fields
  BY Zenon DEF HostSends
<1>2. input \in Seq(Units)
  BY Zenon DEF IInv
<1>3. Framing' /\ input' \in Seq(Units)
  BY Zenon, <1>1, <1>2, AppendedFraming, PacketWritten
<1>4. \A i \in 1 .. Len(input') : input'[i] \in Units
  BY <1>3
<1>5. host' = "wait" /\ UNCHANGED <<output, device, given, approved>>
  BY Zenon DEF HostSends
<1>. QED BY Zenon, <1>3, <1>4, <1>5 DEF TypeOK, device

LEMMA HostReceivesTyped ==
    ASSUME IInv, TypeOK, Framing, HostReceives
    PROVE  TypeOK' /\ Framing'
<1>1. AnswerRecords'
  <2>1. PICK S : output \in Seq(S)
    BY Zenon DEF IInv, IsSeq
  <2>2. output # <<>> /\ output' = Tail(output) /\ AnswerRecords
    BY Zenon DEF HostReceives, TypeOK, AnswerRecords
  <2>3. Len(output') = Len(output) - 1 /\ \A i \in 1 .. Len(output') : output'[i] = output[i + 1]
    BY <2>1, <2>2
  <2>4. Len(output) \in Nat
    BY <2>1
  <2>. QED BY <2>2, <2>3, <2>4 DEF AnswerRecords
<1>2. UNCHANGED <<input, device, given, approved>> /\ host' = "turn"
  BY Zenon DEF HostReceives
<1>. QED BY Zenon, <1>1, <1>2 DEF TypeOK, AnswerRecords, Framing, device

LEMMA PowerLossTyped ==
    ASSUME PowerLoss
    PROVE  TypeOK' /\ Framing'
<1>1. None \in Passwords /\ None \in Sessions /\ None \in Transactions
  BY Zenon DEF Passwords, Sessions, Transactions
<1>2. Len(<<>>) = 0
  BY Zenon
<1>. QED BY <1>1, <1>2 DEF PowerLoss, TypeOK, Framing

LEMMA InitTyped == Init => TypeOK /\ Framing
<1>1. None \in Passwords /\ None \in Sessions /\ None \in Transactions
  BY Zenon DEF Passwords, Sessions, Transactions
<1>2. Len(<<>>) = 0
  BY Zenon
<1>. QED BY <1>1, <1>2 DEF Init, TypeOK, Framing

LEMMA NextTyped == ASSUME IInv, TypeOK, Framing, Next PROVE TypeOK' /\ Framing'
BY Zenon, processPacketTyped, BeginSigningTyped, DecodeFieldTyped, EndOfStreamTyped, EndDecodingTyped,
   ReplyTyped, InvalidHeaderTyped, HostSendsTyped, HostReceivesTyped, PowerLossTyped
   DEF Next, Device

-----------------------------------------------------------------------------
(* In step with a regular host. *)

\* A packet that arrives when the stream is otherwise empty.
LEMMA PacketAlone ==
    ASSUME NEW p \in Packets, input = Framed(p)
    PROVE  /\ AtHeader /\ Id = p.id /\ Fields = p.fields /\ AfterPacket = <<>>
           /\ Head(input).length = Len(p.fields) /\ Tail(input) = p.fields
<1>1. PICK S : p.fields \in Seq(S)
  BY Zenon, FieldsOfPacket DEF IsSeq
<1>2. PICK h, f, t : h = Header(p) /\ f = p.fields /\ t = Tail(<<h>> \o f)
  BY Zenon
<1>. DEFINE T == {h} \cup S
<1>3. f \in Seq(T) /\ <<h>> \o f \in Seq(T) /\ Len(f) \in Nat
  BY <1>1, <1>2
<1>4. /\ Len(<<h>> \o f) = Len(f) + 1 /\ (<<h>> \o f)[1] = h
      /\ \A j \in 1 .. Len(f) : (<<h>> \o f)[1 + j] = f[j]
  BY <1>3
<1>5. input = <<h>> \o f
  BY Zenon, <1>2 DEF Framed
<1>. HIDE DEF T
<1>6. Head(input) = h /\ input # <<>>
  BY <1>3, <1>4, <1>5
<1>7. h.tag = "##" /\ h.id = p.id /\ h.length = Len(f)
  BY Zenon, <1>2, FieldsOfPacket
<1>8. AtHeader /\ Id = p.id /\ Head(input).length = Len(p.fields)
  BY Zenon, <1>2, <1>6, <1>7 DEF AtHeader, Arrived, Id
<1>9. Fields = f
  <2>1. Fields = SubSeq(input, 2, Len(f) + 1)
    BY Zenon, <1>6, <1>7 DEF Fields
  <2>2. /\ Fields \in Seq(T) /\ Len(Fields) = Len(f)
        /\ \A j \in 1 .. Len(f) : Fields[j] = input[1 + j]
    BY <1>3, <1>4, <1>5, <2>1
  <2>. QED BY Zenon, <1>3, <1>4, <1>5, <2>2, SeqEqual
<1>10. AfterPacket = <<>>
  BY <1>3, <1>4, <1>5, <1>6, <1>7 DEF AfterPacket
<1>11. Tail(input) = f
  <2>1. /\ Tail(input) \in Seq(T) /\ Len(Tail(input)) = Len(f)
        /\ \A j \in 1 .. Len(f) : Tail(input)[j] = input[1 + j]
    BY <1>3, <1>4, <1>5, <1>6
  <2>. QED BY Zenon, <1>3, <1>4, <1>5, <2>1, SeqEqual
<1>. QED BY Zenon, <1>2, <1>8, <1>9, <1>10, <1>11

\* The one packet that a step of a request sends is the answer.
LEMMA AnswerSent ==
    ASSUME output = <<>>, Speaks, payload_length' = 0, session_id' = session'
    PROVE  Len(output') = 1 /\ Fits(output[1])'
<1>1. CASE pc' \in Interjections /\ sendPacket(Ask[pc'], None)
  <2>1. Len(output') = 1 /\ output'[1].id = Ask[pc'] /\ output'[1].unread = 0
    BY Zenon, <1>1, SendFirst
  <2>2. Ask[pc'] # "PING_RESPONSE"
    BY Zenon, <1>1, AskNames
  <2>. QED BY Zenon, <1>1, <2>1, <2>2 DEF Fits
<1>2. CASE pc' \notin Interjections /\ \E answer, value : Says(answer, value)
  <2>1. PICK answer, value : Says(answer, value)
    BY Zenon, <1>2
  <2>2. /\ Len(output') = 1 /\ output'[1].id = answer /\ output'[1].value = value
        /\ output'[1].unread = 0
    BY Zenon, <2>1, SendFirst DEF Says
  <2>. QED BY Zenon, <1>2, <2>1, <2>2 DEF Fits, Says
<1>. QED BY Zenon, <1>1, <1>2 DEF Speaks

LEMMA SignIsNoPassword == "SIGN_TRANSACTION" \notin TakesPassword
BY Zenon DEF TakesPassword

\* None of the commands that take a password asks for a PIN.
LEMMA NoPinForPassword ==
    ASSUME NEW id \in TakesPassword
    PROVE  /\ id \in DOMAIN Commands
           /\ \A k \in 1 .. Len(Commands[id].ask) : Commands[id].ask[k] # "PIN"
<1>1. id \in DOMAIN Commands
  BY Zenon DEF TakesPassword, Commands
<1>2. CASE id = "CHANGE_KEY"
  <2>1. Commands[id].ask = <<"BUTTON", "OTP">>
    BY Zenon, <1>2 DEF Commands, AsksTwice
  <2>. QED BY <1>1, <2>1
<1>3. CASE id \in {"NEW_WALLET", "RESTORE_WALLET"}
  <2>1. Commands[id].ask = <<"BUTTON">>
    BY SMTT(30), <1>3 DEF Commands, Asks
  <2>. QED BY <1>1, <2>1
<1>. QED BY Zenon, <1>2, <1>3 DEF TakesPassword

\* What a packet in the stream says of the phase.
LEMMA PacketUnderway ==
    ASSUME InStep, input # <<>>, pc # "decoding"
    PROVE  /\ host = "wait" /\ output = <<>> /\ asked = Expects
           /\ \E p \in Packets : Sent(p)
BY Zenon DEF InStep, HostsTurn, Underway, Decoding, Answered

UsesSupplied ==
    effect' # effect /\ effect' # None /\ effect'.op \in TakesPassword =>
        effect'.password = supplied

LEMMA processPacketInStep ==
    ASSUME IInv, InStep, processPacket
    PROVE  InStep' /\ UsesSupplied
<1>1. pc = "idle" /\ input # <<>> /\ pc \notin Interjections /\ stage = 0
  BY Zenon, InterjectionNames DEF IInv, processPacket, AtHeader, Arrived
<1>2. host = "wait" /\ output = <<>> /\ \E p \in Packets : Sent(p)
  BY Zenon, <1>1, PacketUnderway
<1>3. PICK p \in Packets : Sent(p)
  BY Zenon, <1>2
<1>4. /\ IsRegular(p) /\ input = Framed(p)
      /\ session = NewSession(p.id, p.fields)
      /\ supplied = Value(p.fields, "password")
  BY Zenon, <1>1, <1>3 DEF Sent
<1>5. Id = p.id /\ Fields = p.fields /\ AfterPacket = <<>>
  BY Zenon, <1>4, PacketAlone
<1>6. /\ input' = <<>> /\ payload_length' = 0 /\ host' = host
      /\ session' = session /\ session_id' = session /\ supplied' = supplied
      /\ Id \in TakesPassword => field_hash' = supplied
  BY Zenon, <1>4, <1>5 DEF processPacket, AfterUnexpected, NewFieldHash
<1>7. /\ Speaks /\ Id # "SIGN_TRANSACTION"
      /\ \/ pc' = "idle"
         \/ pc' \in Interjections /\ request' = Id
      /\ \/ UNCHANGED effect
         \/ effect'.op = Id /\ (Id \in TakesPassword => effect'.password = field_hash')
  <2>1. Id # "SIGN_TRANSACTION"
    BY Zenon DEF processPacket
  <2>2. CASE (\E code : writeFailureString(code)) /\ Done /\ UNCHANGED effect
    <3>1. Speaks /\ pc' = "idle"
      BY Zenon, <2>2, FailureSays, InterjectionNames DEF Speaks, Done
    <3>. QED BY Zenon, <2>1, <2>2, <3>1
  <2>3. CASE /\ Id \in DOMAIN Commands
             /\ IF Id = "LOAD_WALLET" THEN LoadWallet ELSE Ahead(Id, 0)
             /\ pc' # "idle" => request' = Id
    <3>1. Conducted(Id)
      <4>1. 0 <= Len(Commands[Id].ask)
        BY <2>3, CommandFacts
      <4>. QED BY Zenon, <1>1, <2>3, <4>1, LoadWalletConducted, AheadConducted
    <3>. QED BY Zenon, <2>1, <3>1 DEF Conducted
  <2>4. ~SessionTooLong(Id, Fields)
    <3>1. ~SessionTooLong(p.id, p.fields)
      BY Zenon, <1>4 DEF IsRegular
    <3>. QED BY Zenon, <1>5, <3>1
  <2>. QED BY Zenon, <2>2, <2>3, <2>4 DEF processPacket
<1>8. Len(output') = 1 /\ Fits(output[1])'
  BY Zenon, <1>2, <1>6, <1>7, AnswerSent
<1>9. Answered'
  BY Zenon, <1>2, <1>6, <1>7, <1>8, InterjectionNames DEF Answered, Answerable, PasswordKept
<1>10. (pc \in Interjections /\ request = "SIGN_TRANSACTION" => Required("SIGN_TRANSACTION") \subseteq seen)'
  BY Zenon, <1>7, InterjectionNames
<1>11. UsesSupplied
  BY Zenon, <1>6, <1>7 DEF UsesSupplied
<1>. QED BY Zenon, <1>9, <1>10, <1>11 DEF InStep

LEMMA BeginSigningInStep ==
    ASSUME IInv, InStep, BeginSigning
    PROVE  InStep' /\ UsesSupplied
<1>1. pc = "idle" /\ input # <<>> /\ pc \notin Interjections
  BY Zenon, InterjectionNames DEF BeginSigning, AtHeader, Arrived
<1>2. host = "wait" /\ output = <<>> /\ \E p \in Packets : Sent(p)
  BY Zenon, <1>1, PacketUnderway
<1>3. PICK p \in Packets : Sent(p)
  BY Zenon, <1>2
<1>4. IsRegular(p) /\ input = Framed(p) /\ session = NewSession(p.id, p.fields)
  BY Zenon, <1>1, <1>3 DEF Sent
<1>5. Id = p.id /\ Tail(input) = p.fields /\ Head(input).length = Len(p.fields)
  BY Zenon, <1>4, PacketAlone
<1>6. p.id = "SIGN_TRANSACTION" /\ session = session_id
  BY Zenon, <1>4, <1>5 DEF BeginSigning, NewSession
<1>7. PICK S : p.fields \in Seq(S)
  BY Zenon, FieldsOfPacket DEF IsSeq
<1>8. Len(p.fields) \in Nat /\ p.fields = SubSeq(p.fields, 0 + 1, Len(p.fields))
  BY <1>7
<1>9. DecodedUpTo(p, 0)'
  <2>1. /\ input' = p.fields /\ payload_length' = Len(p.fields) - 0
        /\ bytes_left' = payload_length' /\ seen' = {}
    BY <1>5, <1>8 DEF BeginSigning
  <2>2. {p.fields[j].tag : j \in 1 .. 0} = {}
    OBVIOUS
  <2>3. IsRegular(p)'
    BY Zenon, <1>4 DEF IsRegular
  <2>. QED BY Zenon, <1>6, <1>8, <2>1, <2>2, <2>3 DEF DecodedUpTo
<1>10. 0 \in 0 .. Len(p.fields)
  BY <1>8
<1>11. Decoding'
  BY Zenon, <1>2, <1>6, <1>9, <1>10 DEF Decoding, BeginSigning
<1>. QED BY Zenon, <1>11, InterjectionNames DEF InStep, BeginSigning, UsesSupplied

\* The message of a SignTransaction that is being decoded, from its next field.
LEMMA NextField ==
    ASSUME NEW p \in Packets, NEW n \in 0 .. Len(p.fields), DecodedUpTo(p, n), payload_length > 0
    PROVE  /\ n + 1 \in 1 .. Len(p.fields) /\ Len(p.fields) \in Nat
           /\ Head(input) = p.fields[n + 1]
           /\ Tail(input) = SubSeq(p.fields, (n + 1) + 1, Len(p.fields))
           /\ Len(input) = payload_length
<1>1. PICK S : p.fields \in Seq(S)
  BY Zenon, FieldsOfPacket DEF IsSeq
<1>2. PICK f, k : f = p.fields /\ k = Len(f)
  BY Zenon
<1>3. f \in Seq(S) /\ k \in Nat /\ n \in 0 .. k /\ k - n > 0 /\ payload_length = k - n
      /\ input = SubSeq(f, n + 1, k)
  BY <1>1, <1>2 DEF DecodedUpTo
<1>4. n + 1 \in 1 .. k
  BY ONLY <1>3
<1>5. /\ input \in Seq(S) /\ Len(input) = k - n
      /\ \A j \in 1 .. k - n : input[j] = f[n + j]
  BY ONLY <1>2, <1>3, <1>4, SubSeqProperties
<1>6. Head(input) = f[n + 1] /\ input # <<>>
  <2>1. 1 \in 1 .. k - n
    BY ONLY <1>3
  <2>2. input[1] = f[n + 1]
    BY Zenon, <1>5, <2>1
  <2>3. Len(input) # 0
    BY ONLY <1>3, <1>5
  <2>. QED BY ONLY <1>5, <2>2, <2>3
<1>7. /\ Tail(input) \in Seq(S) /\ Len(Tail(input)) = k - n - 1
      /\ \A j \in 1 .. k - n - 1 : Tail(input)[j] = f[n + 1 + j]
  BY ONLY <1>3, <1>4, <1>5, <1>6
<1>8. LET r == SubSeq(f, (n + 1) + 1, k) IN
      /\ r \in Seq(S) /\ Len(r) = k - n - 1
      /\ \A j \in 1 .. k - n - 1 : r[j] = f[n + 1 + j]
  BY ONLY <1>2, <1>3, <1>4, SubSeqProperties
<1>9. Tail(input) = SubSeq(f, (n + 1) + 1, k)
  BY ONLY Zenon, <1>3, <1>7, <1>8, SeqEqual
<1>. QED BY Zenon, <1>2, <1>3, <1>4, <1>5, <1>6, <1>9

LEMMA DecodeFieldInStep ==
    ASSUME IInv, InStep, DecodeField
    PROVE  InStep' /\ UsesSupplied
<1>1. /\ pc = "decoding" /\ payload_length > 0 /\ request' = "SIGN_TRANSACTION"
      /\ pc \notin Interjections /\ payload_length \in Nat
  BY Zenon, InterjectionNames DEF IInv, DecodeField
<1>2. Decoding
  BY <1>1 DEF InStep, HostsTurn, Underway, Answered, Answerable
<1>11. PICK p \in Packets : \E n \in 0 .. Len(p.fields) : DecodedUpTo(p, n)
  BY Zenon, <1>2 DEF Decoding
<1>3. PICK n \in 0 .. Len(p.fields) : DecodedUpTo(p, n)
  BY Zenon, <1>11
<1>4. /\ host = "wait" /\ output = <<>> /\ session_id = session
      /\ UNCHANGED <<host, session_id, session>>
  BY Zenon, <1>2 DEF Decoding, DecodeField
<1>5. /\ n + 1 \in 1 .. Len(p.fields) /\ Len(p.fields) \in Nat
      /\ Head(input) = p.fields[n + 1]
      /\ input' = SubSeq(p.fields, (n + 1) + 1, Len(p.fields))
  BY Zenon, <1>1, <1>3, NextField DEF DecodeField
<1>6. /\ payload_length' = Len(p.fields) - (n + 1) /\ bytes_left' = payload_length'
      /\ seen' = seen \cup {p.fields[n + 1].tag}
  BY SMTT(30), <1>3, <1>5 DEF DecodeField, DecodedUpTo, Consumed
<1>7. seen' = {p.fields[j].tag : j \in 1 .. n + 1}
  <2>1. seen = {p.fields[j].tag : j \in 1 .. n}
    BY Zenon, <1>3 DEF DecodedUpTo
  <2>2. 1 .. n + 1 = (1 .. n) \cup {n + 1}
    OBVIOUS
  <2>. QED BY Zenon, <1>6, <2>1, <2>2
<1>8. UsesSupplied
  <2>1. UNCHANGED effect \/ effect'.op = "SIGN_TRANSACTION"
    BY SMTT(30) DEF DecodeField, signTransactionCallback, Sign
  <2>. QED BY Zenon, <2>1, SignIsNoPassword DEF UsesSupplied
<1>9. CASE Head(input).tag # "transaction_data"
  <2>1. UNCHANGED <<output, pc>>
    BY Zenon, <1>9 DEF DecodeField
  <2>2. "transaction_data" \notin seen'
    BY Zenon, <1>3, <1>5, <1>6, <1>9 DEF DecodedUpTo
  <2>3. IsRegular(p)' /\ p.id = "SIGN_TRANSACTION"
    BY Zenon, <1>3 DEF IsRegular, DecodedUpTo
  <2>4. DecodedUpTo(p, n + 1)'
    BY Zenon, <1>5, <1>6, <1>7, <2>2, <2>3 DEF DecodedUpTo
  <2>5. n + 1 \in 0 .. Len(p.fields)
    BY <1>5
  <2>6. Decoding'
    BY Zenon, <1>1, <1>4, <2>1, <2>4, <2>5 DEF Decoding
  <2>. QED BY Zenon, <1>1, <1>8, <2>1, <2>6 DEF InStep
<1>10. CASE Head(input).tag = "transaction_data"
  <2>1. Speaks /\ pc' \in {"decoding", "BUTTON"}
    BY Zenon, <1>1, <1>10, CallbackSpeaks DEF DecodeField
  <2>2. n + 1 = Len(p.fields) /\ "address_handle" \in {p.fields[j].tag : j \in 1 .. n + 1}
    BY Zenon, <1>3, <1>5, <1>10 DEF DecodedUpTo, IsRegular
  <2>3. Required("SIGN_TRANSACTION") \subseteq seen'
    BY Zenon, <1>5, <1>6, <1>7, <1>10, <2>2 DEF Required
  <2>4. input' = <<>> /\ payload_length' = 0
    <3>1. SubSeq(p.fields, Len(p.fields) + 1, Len(p.fields)) = <<>>
      BY <1>5
    <3>. QED BY <1>5, <1>6, <2>2, <3>1
  <2>5. Len(output') = 1 /\ Fits(output[1])'
    BY Zenon, <1>4, <2>1, <2>4, AnswerSent
  <2>6. Answerable' /\ PasswordKept'
    BY Zenon, <1>1, <2>1, <2>3, <2>4, SignIsNoPassword, InterjectionNames DEF Answerable, PasswordKept
  <2>7. Answered'
    BY Zenon, <1>4, <2>4, <2>5, <2>6 DEF Answered
  <2>. QED BY Zenon, <1>8, <2>3, <2>7 DEF InStep
<1>. QED BY Zenon, <1>9, <1>10

LEMMA EndOfStreamInStep ==
    ASSUME TypeOK, InStep, EndOfStream
    PROVE  InStep' /\ UsesSupplied
<1>1. ~Decoding
  BY DEF EndOfStream, Decoding, DecodedUpTo, TypeOK
<1>2. UNCHANGED <<input, output, pc, request, payload_length, field_hash, session_id, seen,
                  host, asked, supplied, session>>
  BY Zenon DEF EndOfStream
<1>6. UsesSupplied
  BY Zenon DEF EndOfStream, UsesSupplied
<1>3. CASE HostsTurn
  BY Zenon, <1>2, <1>3, <1>6 DEF InStep, HostsTurn, Answerable, Expects, PasswordKept
<1>4. CASE Underway
  <2>1. PICK p \in Packets : Sent(p)
    BY Zenon, <1>4 DEF Underway
  <2>2. Sent(p)'
    BY Zenon, <1>2, <2>1 DEF Sent, IsRegular, NewSession, PasswordKept
  <2>3. Underway'
    BY Zenon, <1>2, <1>4, <2>2 DEF Underway, Answerable, Expects
  <2>. QED BY Zenon, <1>2, <1>6, <2>3 DEF InStep
<1>5. CASE Answered
  BY Zenon, <1>2, <1>5, <1>6 DEF InStep, Answered, Answerable, Fits, PasswordKept
<1>. QED BY Zenon, <1>1, <1>3, <1>4, <1>5 DEF InStep

LEMMA EndDecodingInStep ==
    ASSUME IInv, TypeOK, InStep, EndDecoding
    PROVE  InStep' /\ UsesSupplied
<1>1. /\ pc = "decoding" /\ pc' = "idle" /\ payload_length' = 0
      /\ pc \notin Interjections /\ pc' \notin Interjections
      /\ UNCHANGED <<field_hash, session_id, effect, host, asked, supplied, session>>
      /\ input' = SubSeq(input, payload_length + 1, Len(input))
  BY Zenon, InterjectionNames DEF EndDecoding, Done
<1>2. UsesSupplied /\ Answerable' /\ PasswordKept' /\ Expects' = None /\ Expects = None
  BY Zenon, <1>1 DEF UsesSupplied, Answerable, PasswordKept, Expects
<1>3. CASE Decoding
  <2>1. PICK p \in Packets : \E n \in 0 .. Len(p.fields) : DecodedUpTo(p, n)
    BY Zenon, <1>3 DEF Decoding
  <2>2. PICK n \in 0 .. Len(p.fields) : DecodedUpTo(p, n)
    BY Zenon, <2>1
  <2>3. ~(Required("SIGN_TRANSACTION") \subseteq seen)
    BY Zenon, <2>2 DEF DecodedUpTo, Required
  <2>4. writeFailureString("INVALID_PACKET")
    BY Zenon, <2>3 DEF EndDecoding
  <2>5. Speaks
    BY Zenon, <1>1, <2>4, FailureSays DEF Speaks
  <2>6. Len(output') = 1 /\ Fits(output[1])'
    BY Zenon, <1>1, <1>3, <2>5, AnswerSent DEF Decoding
  <2>7. input' = <<>>
    <3>1. Len(input) = payload_length
      <4>1. CASE payload_length > 0
        BY Zenon, <2>2, <4>1, NextField
      <4>2. CASE payload_length = 0
        <5>1. Len(p.fields) \in Nat
          BY Zenon, FieldsOfPacket
        <5>2. n = Len(p.fields) /\ input = SubSeq(p.fields, n + 1, Len(p.fields))
          BY <2>2, <4>2, <5>1 DEF DecodedUpTo
        <5>3. input = <<>>
          BY <5>1, <5>2
        <5>. QED BY Zenon, <4>2, <5>3
      <4>. QED BY <4>1, <4>2 DEF TypeOK
    <3>. QED BY <1>1, <3>1 DEF IInv
  <2>8. Answered'
    BY Zenon, <1>1, <1>2, <1>3, <2>6, <2>7 DEF Answered, Decoding
  <2>. QED BY Zenon, <1>1, <1>2, <2>8 DEF InStep
<1>4. ASSUME Answerable
      PROVE  UNCHANGED <<input, output>>
  <2>1. payload_length = 0 /\ Required("SIGN_TRANSACTION") \subseteq seen
    BY Zenon, <1>1, <1>4 DEF Answerable
  <2>2. bytes_left = 0
    BY <2>1 DEF EndDecoding
  <2>3. UNCHANGED output
    BY Zenon, <2>1, <2>2 DEF EndDecoding
  <2>4. input = SubSeq(input, 1, Len(input))
    BY DEF IInv
  <2>. QED BY <1>1, <2>1, <2>3, <2>4
<1>5. CASE HostsTurn
  <2>1. HostsTurn'
    BY Zenon, <1>1, <1>2, <1>4, <1>5 DEF HostsTurn
  <2>. QED BY Zenon, <1>1, <1>2, <2>1 DEF InStep
<1>6. CASE Underway
  <2>1. PICK p \in Packets : Sent(p)
    BY Zenon, <1>6 DEF Underway
  <2>2. Sent(p)'
    BY Zenon, <1>1, <1>4, <1>6, <2>1 DEF Sent, IsRegular, NewSession, Underway
  <2>3. Underway'
    BY Zenon, <1>1, <1>2, <1>4, <1>6, <2>2 DEF Underway
  <2>. QED BY Zenon, <1>1, <1>2, <2>3 DEF InStep
<1>7. CASE Answered
  <2>1. Fits(output[1])'
    BY Zenon, <1>1, <1>4, <1>7 DEF Answered, Fits
  <2>2. Answered'
    BY Zenon, <1>1, <1>2, <1>4, <1>7, <2>1 DEF Answered
  <2>. QED BY Zenon, <1>1, <1>2, <2>2 DEF InStep
<1>. QED BY Zenon, <1>3, <1>5, <1>6, <1>7 DEF InStep

LEMMA ReplyInStep ==
    ASSUME IInv, InStep, Reply
    PROVE  InStep' /\ UsesSupplied
<1>1. pc \in Interjections /\ input # <<>> /\ pc # "decoding"
  BY Zenon, InterjectionNames DEF Reply, AtHeader, Arrived
<1>2. host = "wait" /\ output = <<>> /\ \E p \in Packets : Sent(p)
  BY Zenon, <1>1, PacketUnderway
<1>3. PICK p \in Packets : Sent(p)
  BY Zenon, <1>2
<1>4. /\ input = Framed(p) /\ session = session_id
      /\ p.id # "PIN_ACK" => PasswordKept
  BY Zenon, <1>1, <1>3 DEF Sent
<1>5. Id = p.id /\ AfterPacket = <<>>
  BY Zenon, <1>4, PacketAlone
<1>6. /\ input' = <<>> /\ payload_length' = 0
      /\ UNCHANGED <<host, session, session_id, supplied>>
  BY Zenon, <1>5 DEF Reply, AfterUnexpected
<1>. DEFINE Goal == /\ Speaks /\ Answerable' /\ PasswordKept' /\ UsesSupplied
                    /\ ~(pc' \in Interjections /\ request' = "SIGN_TRANSACTION")
<1>7. request = "SIGN_TRANSACTION" => Required("SIGN_TRANSACTION") \subseteq seen
  BY Zenon, <1>1 DEF InStep
<1>8. ASSUME NEW code, Refused(code)
      PROVE  Goal
  <2>1. /\ Speaks /\ pc' \notin Interjections /\ UNCHANGED effect
        /\ \/ pc' = "idle"
           \/ request = "SIGN_TRANSACTION" /\ pc' = "decoding" /\ UNCHANGED seen
    BY Zenon, <1>8, RefusedEffects, InterjectionNames
  <2>. QED BY Zenon, <1>6, <1>7, <2>1 DEF Answerable, PasswordKept, UsesSupplied
<1>9. ASSUME Id = Ack[pc], Accept
      PROVE  Goal
  <2>1. Granted
    BY Zenon, <1>9 DEF Accept
  <2>2. CASE /\ Speaks /\ request = "SIGN_TRANSACTION" /\ pc' = "decoding"
             /\ UNCHANGED effect \/ effect'.op = "SIGN_TRANSACTION"
             /\ UNCHANGED seen
    BY Zenon, <1>6, <1>7, <2>2, InterjectionNames, SignIsNoPassword
       DEF Answerable, PasswordKept, UsesSupplied
  <2>3. CASE /\ request # "SIGN_TRANSACTION" /\ request \in DOMAIN Commands
             /\ Waiting /\ Conducted(request)
    <3>1. request \in TakesPassword => field_hash' = supplied
      <4>1. SUFFICES ASSUME request \in TakesPassword PROVE field_hash' = supplied
        BY Zenon
      <4>2. pc # "PIN"
        BY <2>3, <4>1, NoPinForPassword, CommandFacts DEF Waiting
      <4>3. Id # "PIN_ACK"
        BY <1>1, <1>9, <4>2, InterjectionNames DEF Ack
      <4>4. PasswordKept
        BY Zenon, <1>4, <1>5, <4>3
      <4>. QED BY Zenon, <1>1, <4>1, <4>2, <4>4 DEF PasswordKept, Reply
    <3>2. Answerable' /\ PasswordKept'
      BY Zenon, <1>6, <2>3, <3>1, InterjectionNames DEF Conducted, Answerable, PasswordKept
    <3>3. UsesSupplied
      BY Zenon, <2>3, <3>1 DEF Conducted, UsesSupplied
    <3>. QED BY Zenon, <2>3, <3>2, <3>3, InterjectionNames DEF Conducted
  <2>. HIDE DEF Goal
  <2>. QED BY Zenon, <1>1, <2>1, <2>2, <2>3, GrantedEffects
<1>10. Goal
  <2>. HIDE DEF Goal
  <2>1. (\E code : Refused(code)) \/ (Id = Ack[pc] /\ Accept)
    BY Zenon DEF Reply, Cancelled
  <2>. QED BY Zenon, <1>8, <1>9, <2>1
<1>11. Len(output') = 1 /\ Fits(output[1])'
  BY Zenon, <1>2, <1>4, <1>6, <1>10, AnswerSent
<1>12. Answered'
  BY Zenon, <1>2, <1>4, <1>6, <1>10, <1>11 DEF Answered
<1>. QED BY Zenon, <1>10, <1>12 DEF InStep

\* A regular host sends nothing but whole packets.
LEMMA InvalidHeaderInStep ==
    ASSUME InStep, InvalidHeader
    PROVE  FALSE
<1>1. input # <<>> /\ pc # "decoding" /\ ~AtHeader
  BY Zenon, InterjectionNames DEF InvalidHeader, Arrived
<1>2. \E p \in Packets : Sent(p)
  BY Zenon, <1>1, PacketUnderway
<1>3. AtHeader
  BY Zenon, <1>2, PacketAlone DEF Sent
<1>. QED BY Zenon, <1>1, <1>3

LEMMA HostSendsInStep ==
    ASSUME InStep, HostSends, regular'
    PROVE  InStep' /\ UsesSupplied
<1>1. HostsTurn
  BY Zenon DEF InStep, Underway, Decoding, Answered, HostSends
<1>2. PICK p \in Packets :
        /\ input' = input \o <<Header(p)>> \o p.fields
        /\ supplied' = IF asked = None \/ p.id = "PIN_ACK" THEN Value(p.fields, "password")
                       ELSE supplied
        /\ session' = IF asked # None \/ p.id # "INITIALIZE" THEN session
                      ELSE IF Decodes(p.id, p.fields) THEN Value(p.fields, "session_id")
                      ELSE None
        /\ regular' = (regular /\ IsRegular(p))
  BY Zenon DEF HostSends
<1>3. /\ host' = "wait"
      /\ UNCHANGED <<output, effect, asked, pc, request, payload_length, field_hash, session_id, seen>>
  BY Zenon DEF HostSends, device
<1>4. (asked = None) <=> (pc \notin Interjections)
  BY Zenon, <1>1, AskNames, NoneAssumption DEF HostsTurn, Expects
<1>5. input' = Framed(p)
  <2>1. PICK S : p.fields \in Seq(S)
    BY Zenon, FieldsOfPacket DEF IsSeq
  <2>2. input = <<>>
    BY Zenon, <1>1 DEF HostsTurn
  <2>3. <<>> \o <<Header(p)>> = <<Header(p)>>
    OBVIOUS
  <2>. QED BY Zenon, <1>2, <2>2, <2>3 DEF Framed
<1>6. Sent(p)'
  <2>1. IsRegular(p)'
    BY Zenon, <1>2 DEF IsRegular
  <2>2. session' = IF pc' \in Interjections THEN session_id' ELSE NewSession(p.id, p.fields)'
    BY Zenon, <1>1, <1>2, <1>3, <1>4 DEF HostsTurn, NewSession
  <2>3. CASE pc \in Interjections
    <3>1. (p.id # "PIN_ACK" => PasswordKept)'
      BY Zenon, <1>1, <1>2, <1>3, <1>4, <2>3 DEF HostsTurn, PasswordKept
    <3>. QED BY Zenon, <1>3, <1>5, <2>1, <2>2, <2>3, <3>1 DEF Sent
  <2>4. CASE pc \notin Interjections
    <3>1. supplied' = Value(p.fields, "password")
      BY Zenon, <1>2, <1>4, <2>4
    <3>. QED BY Zenon, <1>3, <1>5, <2>1, <2>2, <2>4, <3>1 DEF Sent
  <2>. QED BY Zenon, <2>3, <2>4
<1>7. Underway'
  BY Zenon, <1>1, <1>3, <1>6 DEF HostsTurn, Underway, Answerable, Expects
<1>. QED BY Zenon, <1>3, <1>7 DEF InStep, UsesSupplied

LEMMA HostReceivesInStep ==
    ASSUME IInv, InStep, HostReceives
    PROVE  InStep' /\ UsesSupplied
<1>1. Answered
  BY Zenon DEF InStep, HostsTurn, Underway, Decoding, HostReceives
<1>2. PICK S : output \in Seq(S)
  BY Zenon DEF IInv, IsSeq
<1>3. Head(output) = output[1] /\ Tail(output) = <<>>
  <2>1. Len(output) = 1 /\ output # <<>>
    BY SMTT(20), <1>1, <1>2 DEF Answered
  <2>2. Tail(output) \in Seq(S) /\ Len(Tail(output)) = 0
    BY ONLY <1>2, <2>1
  <2>3. Head(output) = output[1]
    BY ONLY <1>2, <2>1
  <2>4. Tail(output) = <<>>
    BY ONLY Zenon, <2>2, EmptySeq
  <2>. QED BY Zenon, <2>3, <2>4
<1>4. /\ host' = "turn" /\ output' = <<>> /\ effect' = None
      /\ UNCHANGED <<input, pc, request, payload_length, field_hash, session_id, seen,
                     supplied, session>>
  BY Zenon, <1>3 DEF HostReceives, device
<1>5. asked' = Expects
  <2>1. Fits(output[1])
    BY Zenon, <1>1 DEF Answered
  <2>2. CASE pc \in Interjections
    <3>1. Head(output).id = Ask[pc]
      BY Zenon, <1>3, <2>1, <2>2 DEF Fits
    <3>. QED BY Zenon, <2>2, <3>1 DEF HostReceives, Expects
  <2>3. CASE pc \notin Interjections
    <3>1. \A i \in Interjections : Head(output).id # Ask[i]
      BY Zenon, <1>3, <2>1, <2>3 DEF Fits
    <3>. QED BY Zenon, <2>3, <3>1 DEF HostReceives, Expects
  <2>. QED BY Zenon, <2>2, <2>3
<1>6. HostsTurn'
  BY Zenon, <1>1, <1>4, <1>5 DEF Answered, HostsTurn, Answerable, Expects, PasswordKept
<1>. QED BY Zenon, <1>4, <1>6 DEF InStep, UsesSupplied

LEMMA PowerLossInStep ==
    ASSUME PowerLoss
    PROVE  InStep' /\ UsesSupplied
BY Zenon, InterjectionNames
   DEF PowerLoss, InStep, HostsTurn, Answerable, Expects, PasswordKept, UsesSupplied

LEMMA InitInStep == Init => InStep
BY Zenon, InterjectionNames DEF Init, InStep, HostsTurn, Answerable, Expects, PasswordKept

\* Only a packet of the host, or the loss of power, changes what it has sent.
LEMMA RegularSteps ==
    ASSUME Next
    PROVE  regular' = regular \/ HostSends \/ PowerLoss
BY Zenon DEF Next, Device, processPacket, BeginSigning, DecodeField, EndOfStream, EndDecoding, Reply,
   InvalidHeader, HostReceives

LEMMA NextTurns ==
    ASSUME TurnsInv, Next
    PROVE  TurnsInv' /\ (regular => UsesSupplied)
<1>1. IInv' /\ TypeOK' /\ Framing'
  BY Zenon, NextIInv, NextTyped DEF TurnsInv
<1>2. (regular => InStep)' /\ (regular => UsesSupplied)
  <2>1. CASE PowerLoss
    BY Zenon, <2>1, PowerLossInStep
  <2>2. CASE HostSends
    <3>1. regular' => regular
      BY Zenon, <2>2 DEF HostSends
    <3>2. UsesSupplied
      BY Zenon, <2>2 DEF HostSends, UsesSupplied
    <3>. QED BY Zenon, <2>2, <3>1, <3>2, HostSendsInStep DEF TurnsInv
  <2>3. CASE Next /\ ~PowerLoss /\ ~HostSends
    <3>1. regular' = regular
      BY Zenon, <2>3, RegularSteps
    <3>2. ASSUME regular
          PROVE  InStep' /\ UsesSupplied
      BY Zenon, <2>3, <3>2, processPacketInStep, BeginSigningInStep, DecodeFieldInStep, EndOfStreamInStep,
         EndDecodingInStep, ReplyInStep, InvalidHeaderInStep, HostReceivesInStep
         DEF TurnsInv, Next, Device
    <3>. QED BY Zenon, <3>1, <3>2
  <2>. QED BY Zenon, <2>1, <2>2, <2>3
<1>. QED BY Zenon, <1>1, <1>2 DEF TurnsInv

LEMMA StutterTurns == ASSUME TurnsInv, UNCHANGED vars PROVE TurnsInv'
<1>1. UNCHANGED <<input, output, pc, request, stage, payload_length, bytes_left,
                  prev_transaction_hash, field_hash, session_id, otp, transaction, seen>>
      /\ UNCHANGED <<effect, given, approved, host, asked, supplied, session, regular>>
  BY Zenon DEF vars, device
<1>2. IInv'
  BY Zenon, StutterIInv DEF TurnsInv
<1>3. TypeOK' /\ Framing'
  BY Zenon, <1>1 DEF TurnsInv, TypeOK, Framing
<1>4. ASSUME regular
      PROVE  InStep'
  <2>1. InStep
    BY Zenon, <1>4 DEF TurnsInv
  <2>2. HostsTurn => HostsTurn'
    BY Zenon, <1>1 DEF HostsTurn, Answerable, Expects, PasswordKept
  <2>3. Underway => Underway'
    <3>1. \A p \in Packets : Sent(p) => Sent(p)'
      BY Zenon, <1>1 DEF Sent, IsRegular, NewSession, PasswordKept
    <3>. QED BY Zenon, <1>1, <3>1 DEF Underway, Answerable, Expects
  <2>4. Decoding => Decoding'
    <3>1. ASSUME NEW p \in Packets, NEW n \in 0 .. Len(p.fields), DecodedUpTo(p, n)
          PROVE  DecodedUpTo(p, n)'
      BY Zenon, <1>1, <3>1 DEF DecodedUpTo, IsRegular
    <3>. QED BY Zenon, <1>1, <3>1 DEF Decoding
  <2>5. Answered => Answered'
    BY Zenon, <1>1 DEF Answered, Fits, Answerable, PasswordKept
  <2>. QED BY Zenon, <1>1, <2>1, <2>2, <2>3, <2>4, <2>5 DEF InStep
<1>. QED BY Zenon, <1>1, <1>2, <1>3, <1>4 DEF TurnsInv

LEMMA TurnsInvariance == Spec => []TurnsInv
<1>1. Init => TurnsInv
  BY Zenon, InitIInv, InitTyped, InitInStep DEF TurnsInv
<1>2. TurnsInv /\ [Next]_vars => TurnsInv'
  BY Zenon, NextTurns, StutterTurns
<1>. QED BY <1>1, <1>2, PTL DEF Spec

-----------------------------------------------------------------------------
(* The theorems about turns. *)

\* With a host that writes messages as libraries do, the two sides never lose
\* step, whatever it sends and wherever power is lost: it is the host's turn
\* only when both directions of the stream are empty and the device waits for
\* what the host believes, and every packet gets exactly one answer, sent
\* after the whole of the packet was read.
THEOREM TurnsAreTaken == Spec => []TakeTurns
<1>1. TurnsInv => TakeTurns
  <2>1. SUFFICES ASSUME TurnsInv, regular
                 PROVE  /\ pc # "fatal"
                        /\ Len(output) <= 1
                        /\ \A i \in 1 .. Len(output) : output[i].unread = 0
                        /\ host = "turn" => input = <<>> /\ output = <<>>
                        /\ host = "turn" => asked = Expects
                        /\ pc \in {"idle"} \cup Interjections /\ host = "wait" =>
                              (input = <<>>) # (output = <<>>)
    BY Zenon DEF TurnsInv, TakeTurns, Expects
  <2>2. Len(<<>>) = 0
    BY Zenon
  <2>3. CASE HostsTurn
    BY <2>2, <2>3, InterjectionNames DEF HostsTurn, Answerable
  <2>4. CASE Underway
    <3>1. PICK p \in Packets : Sent(p)
      BY Zenon, <2>4 DEF Underway
    <3>2. input # <<>>
      BY Zenon, <3>1, PacketAlone DEF Sent, AtHeader, Arrived
    <3>. QED BY <2>2, <2>4, <3>2, InterjectionNames DEF Underway, Answerable
  <2>5. CASE Decoding
    BY <2>2, <2>5, InterjectionNames DEF Decoding
  <2>6. CASE Answered
    <3>2. Len(output) = 1 /\ output[1].unread = 0
      BY Zenon, <2>6 DEF Answered, Fits
    <3>1. output # <<>> /\ \A i \in 1 .. Len(output) : output[i].unread = 0
      BY <2>2, <3>2
    <3>. QED BY SMTT(30), <2>6, <3>1, InterjectionNames DEF Answered, Answerable
  <2>. QED BY Zenon, <2>1, <2>3, <2>4, <2>5, <2>6 DEF TurnsInv, InStep
<1>. QED BY <1>1, TurnsInvariance, PTL

\* A Ping echoes the session of the host's last Initialize, and none if that
\* failed or power was lost since.
THEOREM SessionsAreEchoed == Spec => []EchoedSession
<1>1. TurnsInv => EchoedSession
  <2>1. SUFFICES ASSUME TurnsInv, regular, NEW i \in 1 .. Len(output),
                        output[i].id = "PING_RESPONSE"
                 PROVE  output[i].value = session
    BY Zenon DEF EchoedSession
  <2>2. output # <<>>
    OBVIOUS
  <2>3. Answered
    BY Zenon, <2>1, <2>2 DEF TurnsInv, InStep, HostsTurn, Underway, Decoding
  <2>. QED BY <2>1, <2>3 DEF Answered, Fits
<1>. QED BY <1>1, TurnsInvariance, PTL

\* newWallet(), changeEncryptionKey() and the restoring of a wallet get the
\* password that was sent with that very request, and none if there was none,
\* also after interjections that other packets came between.
THEOREM PasswordsAreOwn == Spec => PasswordUsed
<1>1. TurnsInv /\ [Next]_vars =>
        [regular /\ effect' # effect /\ effect' # None /\ effect'.op \in TakesPassword =>
            effect'.password = supplied]_vars
  BY Zenon, NextTurns DEF UsesSupplied
<1>. QED BY <1>1, TurnsInvariance, PTL DEF Spec, PasswordUsed
=============================================================================
