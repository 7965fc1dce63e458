----------------------------- MODULE StreamComm -----------------------------
(***************************************************************************)
(* stream_comm.c: the device receives a packet, decodes it, asks the host  *)
(* and the user for what the command needs, carries the command out and    *)
(* answers.  A host on the other side of the byte stream sends any packet  *)
(* whenever it is its turn.                                                *)
(*                                                                         *)
(* The stream is a sequence of units.  A unit is a packet header or one    *)
(* field of a message.  Lengths count units.  Fields that no branch of the *)
(* code depends on are left out.  What a command does to a wallet is the   *)
(* subject of Wallet; here a command that is carried out leaves a record   *)
(* in "effect" and succeeds or fails.                                      *)
(***************************************************************************)
EXTENDS Naturals, Sequences

CONSTANTS
    Packets,            \* what the host may send: [id, fields]
    OTPs,
    SESSION_ID_SIZE,    \* sizeof(session_id)
    None,
    MaxUnread           \* bound on what is unread in both directions when the host sends

(* No message ID. *)
ASSUME NoneAssumption == None \notin {"BUTTON_REQUEST", "OTP_REQUEST", "PIN_REQUEST"}

(* A field is told from a header, and has a value unless it is missing. *)
ASSUME PacketsAssumption ==
    \A p \in Packets :
        /\ p.fields \in Seq({p.fields[i] : i \in 1 .. Len(p.fields)})
        /\ \A i \in 1 .. Len(p.fields) : p.fields[i].tag # "##" /\ p.fields[i].value # None

VARIABLES
    input, output,          \* units to the device, packets to the host
    pc,                     \* what the device is blocked on or is doing
    request,                \* message ID of the packet being served
    stage,                  \* interjections of the request that succeeded
    payload_length, bytes_left,
    prev_transaction_hash,  \* None while prev_transaction_hash_valid is false
    field_hash,             \* None while field_hash_set is false
    session_id,
    otp,                    \* one-time password on the display
    transaction,            \* being signed
    seen,                   \* required fields met while decoding SignTransaction
    effect,                 \* history: the operation carried out for this answer
    given,                  \* history: consents obtained for this request
    approved,               \* history: transactions approved in this session
    host,                   \* "turn" or "wait"
    asked,                  \* the interjection the host has to answer
    supplied,               \* history: password sent with this request
    session,                \* history: what the host last initialised with
    regular                 \* history: so far the host sent what its library writes

device == <<pc, request, stage, payload_length, bytes_left, prev_transaction_hash,
            field_hash, session_id, otp, transaction, seen>>
vars == <<input, output, device, effect, given, approved, host, asked, supplied, session, regular>>

Field(tag, value) == [tag |-> tag, value |-> value]
Header(packet) == [tag |-> "##", id |-> packet.id, length |-> Len(packet.fields)]

(* The interjections of each request, in order, and its answer on success. *)
(* LOAD_WALLET asks for a PIN only if the wallet does not open without.    *)
Plain == [ask |-> <<>>, answer |-> "SUCCESS"]
Asks == [ask |-> <<"BUTTON">>, answer |-> "SUCCESS"]
AsksTwice == [ask |-> <<"BUTTON", "OTP">>, answer |-> "SUCCESS"]
Commands ==
    [INITIALIZE |-> [Plain EXCEPT !.answer = "FEATURES"],
     PING |-> [Plain EXCEPT !.answer = "PING_RESPONSE"],
     DELETE_WALLET |-> AsksTwice,
     NEW_WALLET |-> Asks,
     NEW_ADDRESS |-> [Asks EXCEPT !.answer = "ADDRESS_PUBKEY"],
     GET_NUM_ADDRESSES |-> [Plain EXCEPT !.answer = "NUM_ADDRESSES"],
     GET_ADDRESS_PUBKEY |-> [Plain EXCEPT !.answer = "ADDRESS_PUBKEY"],
     SIGN_TRANSACTION |-> [Asks EXCEPT !.answer = "SIGNATURE"],
     LOAD_WALLET |-> [Plain EXCEPT !.ask = <<"PIN">>],
     FORMAT |-> AsksTwice,
     CHANGE_KEY |-> AsksTwice,
     CHANGE_NAME |-> Asks,
     LIST_WALLETS |-> [Plain EXCEPT !.answer = "WALLETS"],
     BACKUP_WALLET |-> Asks,
     RESTORE_WALLET |-> Asks,
     GET_DEVICE_UUID |-> [Plain EXCEPT !.answer = "DEVICE_UUID"],
     GET_ENTROPY |-> [Plain EXCEPT !.answer = "ENTROPY"],
     GET_MASTER_KEY |-> [AsksTwice EXCEPT !.answer = "MASTER_KEY"]]

Cancel == [BUTTON |-> "BUTTON_CANCEL", OTP |-> "OTP_CANCEL", PIN |-> "PIN_CANCEL"]
Ack == [BUTTON |-> "BUTTON_ACK", OTP |-> "OTP_ACK", PIN |-> "PIN_ACK"]
Ask == [BUTTON |-> "BUTTON_REQUEST", OTP |-> "OTP_REQUEST", PIN |-> "PIN_REQUEST"]
Interjections == DOMAIN Ack
TakesPassword == {"NEW_WALLET", "CHANGE_KEY", "RESTORE_WALLET"}

-----------------------------------------------------------------------------
(* pb_decode(): fields are decoded in the order in which they arrive, up   *)
(* to the first that does not decode.  A later field replaces an earlier   *)
(* one with the same tag.  Required fields must have been met.             *)
Required(id) ==
    CASE id = "INITIALIZE" -> {"session_id"}
      [] id = "PIN_ACK" -> {"password"}
      [] id = "OTP_ACK" -> {"otp"}
      [] id = "SIGN_TRANSACTION" -> {"address_handle", "transaction_data"}
      [] OTHER -> {}
IsInvalid(field) == field.tag = "invalid"
Read(fields) ==
    {i \in 1 .. Len(fields) : \A j \in 1 .. i : ~IsInvalid(fields[j])}
Decodes(id, fields) ==
    /\ Read(fields) = 1 .. Len(fields)
    /\ Required(id) \subseteq {fields[i].tag : i \in Read(fields)}
Value(fields, tag) ==
    LET at == {i \in Read(fields) : fields[i].tag = tag}
    IN  IF at = {} THEN None ELSE fields[CHOOSE i \in at : \A j \in at : j <= i].value

(* receivePacketHeader(): anything else than a header is fatal. *)
Arrived == input # <<>>
AtHeader == Arrived /\ Head(input).tag = "##"
Id == Head(input).id
Fields == SubSeq(input, 2, Head(input).length + 1)

(* readAndIgnoreInput(): what is left of the stream once the packet at its *)
(* head has been read completely.                                          *)
AfterPacket == SubSeq(input, Head(input).length + 2, Len(input))

(* Mutation: the payload of an unexpected packet is left in the stream. *)
HeaderOnly == Tail(input)

AfterUnexpected == AfterPacket

sendPacket(id, value) ==
    output' = Append(output, [id |-> id, value |-> value, unread |-> payload_length'])

writeFailureString(code) == sendPacket("FAILURE", code)

(* The end of a request: the next thing the device reads is a header. *)
Done ==
    /\ pc' = "idle"
    /\ request' = None
    /\ stage' = 0
    /\ transaction' = None
    /\ seen' = {}

(* After an interjection that failed, a request is over, except that the   *)
(* decoder of SignTransaction goes on with the rest of its message.        *)
GiveUp ==
    \/ request # "SIGN_TRANSACTION" /\ Done
    \/ /\ request = "SIGN_TRANSACTION"
       /\ pc' = "decoding"
       /\ UNCHANGED <<request, stage, transaction, seen>>

-----------------------------------------------------------------------------
(* Carrying out a request that has all it needs.  The result of the wallet *)
(* and storage functions is not determined here.                           *)
Carried(id, password) ==
    effect' = [op |-> id, password |-> password, consent |-> given']

translateWalletError(answer) == sendPacket(answer, None) \/ writeFailureString("WALLET")

getAndSendAddressAndPublicKey == translateWalletError("ADDRESS_PUBKEY")

(* All the bytes are collected before any is sent. *)
getBytesOfEntropy ==
    \/ writeFailureString("PARAM_TOO_LARGE")
    \/ translateWalletError("ENTROPY")

(* listWalletsCallback() cuts the list short if a record cannot be read. *)
listWallets == translateWalletError("WALLETS")

Perform(id) ==
    /\ Carried(id, IF id \in TakesPassword \cup {"LOAD_WALLET"} THEN field_hash' ELSE None)
    /\ CASE id = "PING" -> sendPacket("PING_RESPONSE", session_id')
         [] id = "INITIALIZE" -> sendPacket("FEATURES", session_id') \/ writeFailureString("WALLET")
         [] id \in {"NEW_ADDRESS", "GET_ADDRESS_PUBKEY"} -> getAndSendAddressAndPublicKey
         [] id = "GET_ENTROPY" -> getBytesOfEntropy
         [] id = "LIST_WALLETS" -> listWallets
         [] OTHER -> translateWalletError(Commands[id].answer)
    /\ Done

(* Send the next interjection of a request, or carry it out.  displayOTP() *)
(* shows a new one-time password before the host is asked for it.          *)
Ahead(id, n) ==
    \/ /\ n < Len(Commands[id].ask)
       /\ pc' = Commands[id].ask[n + 1]
       /\ stage' = n
       /\ sendPacket(Ask[pc'], None)
       /\ IF pc' = "OTP" THEN otp' \in OTPs ELSE otp' = None
       /\ UNCHANGED <<effect, transaction, seen>>
    \/ /\ n = Len(Commands[id].ask)
       /\ otp' = None
       /\ Perform(id)

(* LOAD_WALLET: initWallet() without a password first. *)
LoadWallet ==
    /\ Carried("LOAD_WALLET", None)
    /\ otp' = None
    /\ \/ writeFailureString("WALLET") /\ Done
       \/ sendPacket("SUCCESS", None) /\ Done
       \/ /\ sendPacket(Ask["PIN"], None)
          /\ pc' = "PIN"
          /\ UNCHANGED <<stage, transaction, seen>>

(* Mutation: the hash of an earlier password is not cleared. *)
StaleFieldHash(id, fields) ==
    IF id \in TakesPassword /\ Value(fields, "password") # None
    THEN Value(fields, "password") ELSE field_hash

(* hashFieldCallback(), and the reset that precedes decoding. *)
NewFieldHash(id, fields) ==
    IF id \in TakesPassword THEN Value(fields, "password") ELSE field_hash

(* Mutation: a session outlives an Initialize that does not decode. *)
KeepSession(id, fields) ==
    IF id = "INITIALIZE" /\ Decodes(id, fields) THEN Value(fields, "session_id") ELSE session_id

NewSession(id, fields) ==
    IF id # "INITIALIZE" THEN session_id
    ELSE IF Decodes(id, fields) THEN Value(fields, "session_id") ELSE None

(* Mutation: Initialize keeps the approval of a transaction. *)
KeepApproval(id, fields) == prev_transaction_hash

AfterInitialize(id, fields) ==
    IF id = "INITIALIZE" /\ Decodes(id, fields) THEN None ELSE prev_transaction_hash

(* The sizes are compared with >=: an identifier that fills session_id is  *)
(* taken for an impossible one.                                            *)
SessionTooLong(id, fields) ==
    /\ id = "INITIALIZE"
    /\ Value(fields, "session_id") # None
    /\ Value(fields, "session_id").size >= SESSION_ID_SIZE

SeedMissing(id, fields) == id = "RESTORE_WALLET" /\ Value(fields, "seed") # "SEED_LENGTH bytes"

(* processPacket() on a complete packet, up to the first interjection. *)
processPacket ==
    /\ pc = "idle"
    /\ AtHeader
    /\ Id # "SIGN_TRANSACTION"
    /\ given' = {}
    /\ UNCHANGED <<host, asked, supplied, session, regular>>
    /\ input' = IF Id \in DOMAIN Commands THEN AfterPacket ELSE AfterUnexpected
    /\ payload_length' = 0
    /\ bytes_left' = 0
    /\ field_hash' = NewFieldHash(Id, Fields)
    /\ session_id' = NewSession(Id, Fields)
    /\ prev_transaction_hash' = AfterInitialize(Id, Fields)
    /\ \/ /\ Id \notin DOMAIN Commands
          /\ writeFailureString("UNEXPECTED_PACKET")
          /\ Done
          /\ UNCHANGED <<effect, otp>>
       \/ /\ Id \in DOMAIN Commands
          /\ ~Decodes(Id, Fields) \/ SeedMissing(Id, Fields)
          /\ writeFailureString("INVALID_PACKET")
          /\ Done
          /\ UNCHANGED <<effect, otp>>
       \/ /\ Id \in DOMAIN Commands
          /\ Decodes(Id, Fields)
          /\ SessionTooLong(Id, Fields)
          /\ pc' = "fatal"
          /\ UNCHANGED <<output, request, stage, otp, transaction, seen, effect>>
       \/ /\ Id \in DOMAIN Commands
          /\ Decodes(Id, Fields) /\ ~SeedMissing(Id, Fields) /\ ~SessionTooLong(Id, Fields)
          /\ IF Id = "LOAD_WALLET" THEN LoadWallet ELSE Ahead(Id, 0)
          /\ pc' # "idle" => request' = Id
    /\ approved' = IF Id = "INITIALIZE" /\ Decodes(Id, Fields) THEN {} ELSE approved

-----------------------------------------------------------------------------
(* SIGN_TRANSACTION.  Its message is decoded field by field, because       *)
(* signTransactionCallback() answers, and even reads other packets, while  *)
(* pb_decode() is under way.                                               *)
BeginSigning ==
    /\ pc = "idle"
    /\ AtHeader
    /\ Id = "SIGN_TRANSACTION"
    /\ pc' = "decoding"
    /\ request' = Id
    /\ input' = Tail(input)
    /\ payload_length' = Head(input).length
    /\ bytes_left' = Head(input).length
    /\ seen' = {}
    /\ given' = {}
    /\ UNCHANGED <<output, stage, prev_transaction_hash, field_hash, session_id, otp,
                   transaction, effect, approved, host, asked, supplied, session, regular>>

(* getPrivateKey() and signTransaction(). *)
Sign(t) ==
    \/ /\ sendPacket("SIGNATURE", t)
       /\ effect' = [op |-> "SIGN_TRANSACTION", password |-> None, consent |-> given']
    \/ writeFailureString("WALLET") /\ UNCHANGED effect

(* The field transaction_data has just been read: parse, then sign, or ask *)
(* first unless it is the transaction that was last approved.              *)
signTransactionCallback(t) ==
    \/ /\ t = "malformed"
       /\ writeFailureString("TRANSACTION")
       /\ UNCHANGED <<pc, transaction, effect>>
    \/ /\ t # "malformed"
       /\ t = prev_transaction_hash
       /\ Sign(t)
       /\ UNCHANGED <<pc, transaction>>
    \/ /\ t # "malformed"
       /\ t # prev_transaction_hash
       /\ sendPacket(Ask["BUTTON"], None)
       /\ pc' = "BUTTON"
       /\ transaction' = t
       /\ UNCHANGED effect

(* Mutation: the bytes of a transaction are subtracted twice. *)
ConsumedTwice(field) == IF field.tag = "transaction_data" THEN 2 ELSE 1

(* What a field takes from payload_length.  parseTransaction() reads from  *)
(* the stream itself, so the callback subtracts what it has read.          *)
Consumed(field) == 1

(* One field of the message. *)
DecodeField ==
    /\ pc = "decoding"
    /\ bytes_left > 0 /\ payload_length > 0
    /\ Arrived
    /\ ~IsInvalid(Head(input))
    /\ UNCHANGED given
    /\ input' = Tail(input)
    /\ payload_length' = payload_length - Consumed(Head(input))
    /\ bytes_left' = bytes_left - 1
    /\ seen' = seen \cup {Head(input).tag}
    /\ IF Head(input).tag = "transaction_data" THEN signTransactionCallback(Head(input).value)
       ELSE UNCHANGED <<output, pc, transaction, effect>>
    /\ UNCHANGED <<request, stage, prev_transaction_hash, field_hash, session_id, otp,
                   approved, host, asked, supplied, session, regular>>

(* mainInputStreamCallback() at the end of the payload of a packet that    *)
(* was read meanwhile: the decoder takes it for the end of its message.    *)
EndOfStream ==
    /\ pc = "decoding"
    /\ bytes_left > 0 /\ payload_length = 0
    /\ bytes_left' = 0
    /\ UNCHANGED <<input, output, pc, request, stage, payload_length, prev_transaction_hash,
                   field_hash, session_id, otp, transaction, seen, effect, given, approved,
                   host, asked, supplied, session, regular>>

(* pb_decode() returns to receiveMessage(). *)
EndDecoding ==
    /\ pc = "decoding"
    /\ \/ bytes_left = 0
       \/ bytes_left > 0 /\ payload_length > 0 /\ Arrived /\ IsInvalid(Head(input))
    /\ input' = SubSeq(input, payload_length + 1, Len(input))
    /\ payload_length' = 0
    /\ bytes_left' = 0
    /\ LET ok == bytes_left = 0 /\ Required("SIGN_TRANSACTION") \subseteq seen
       IN  IF ok /\ payload_length = 0 THEN UNCHANGED output
           ELSE writeFailureString("INVALID_PACKET")
    /\ Done
    /\ UNCHANGED <<prev_transaction_hash, field_hash, session_id, otp, effect, given,
                   approved, host, asked, supplied, session, regular>>

-----------------------------------------------------------------------------
(* buttonInterjection(), otpInterjection() and pinInterjection(), from the *)
(* arrival of the answer.  The display is cleared as soon as a header has  *)
(* arrived.  A packet that is discarded leaves bytes_left behind.          *)
Refused(code) ==
    /\ writeFailureString(code)
    /\ GiveUp
    /\ UNCHANGED <<prev_transaction_hash, effect, given, approved>>
    /\ otp' = None

(* Mutation: the host's refusal is not answered. *)
SilentlyCancelled ==
    /\ GiveUp
    /\ UNCHANGED <<output, prev_transaction_hash, effect, given, approved>>
    /\ otp' = None

Cancelled == Refused("PERMISSION_DENIED_HOST")

Granted ==
    \/ /\ request = "SIGN_TRANSACTION"
       /\ prev_transaction_hash' = transaction
       /\ approved' = approved \cup {transaction}
       /\ Sign(transaction)
       /\ pc' = "decoding"
       /\ otp' = None
       /\ UNCHANGED <<request, stage, transaction, seen>>
    \/ /\ request # "SIGN_TRANSACTION"
       /\ Ahead(request, stage + 1)
       /\ pc' # "idle" => UNCHANGED request
       /\ UNCHANGED <<prev_transaction_hash, approved>>

(* Mutation: an answer with any one-time password is accepted. *)
AnyOTP == TRUE

OTPMatches == Value(Fields, "otp") = otp

Accept ==
    /\ given' = IF pc = "OTP" /\ Value(Fields, "otp") # otp THEN given ELSE given \cup {pc}
    /\ Granted

Expected == Id \in {Ack[pc], Cancel[pc]}

Reply ==
    /\ pc \in Interjections
    /\ AtHeader
    /\ input' = IF Expected THEN AfterPacket ELSE AfterUnexpected
    /\ payload_length' = 0
    /\ bytes_left' = IF Expected /\ Decodes(Id, Fields) THEN 0 ELSE Head(input).length
    /\ field_hash' = IF pc = "PIN" /\ Id = Ack[pc] THEN Value(Fields, "password") ELSE field_hash
    /\ \/ ~Expected /\ Refused("UNEXPECTED_PACKET")
       \/ Expected /\ ~Decodes(Id, Fields) /\ Refused("INVALID_PACKET")
       \/ Id = Cancel[pc] /\ Decodes(Id, Fields) /\ Cancelled
       \/ /\ Id = Ack[pc] /\ Decodes(Id, Fields)
          /\ \/ pc = "BUTTON" /\ Refused("PERMISSION_DENIED_USER")
             \/ pc = "OTP" /\ ~OTPMatches /\ Refused("OTP_MISMATCH")
             \/ (pc = "OTP" => OTPMatches) /\ Accept
    /\ UNCHANGED <<session_id, host, asked, supplied, session, regular>>

(* Bytes that are not a header where one must be: fatalError(). *)
InvalidHeader ==
    /\ pc \in {"idle"} \cup Interjections
    /\ Arrived /\ ~AtHeader
    /\ pc' = "fatal"
    /\ UNCHANGED <<input, output, request, stage, payload_length, bytes_left,
                   prev_transaction_hash, field_hash, session_id, otp, transaction, seen,
                   effect, given, approved, host, asked, supplied, session, regular>>

-----------------------------------------------------------------------------
(* Protocol buffer libraries write fields by ascending tag, and write the  *)
(* required ones.  address_handle has the lower tag.                       *)
IsRegular(p) ==
    /\ p.id = "SIGN_TRANSACTION" =>
        \A i \in 1 .. Len(p.fields) : p.fields[i].tag = "transaction_data" =>
            i = Len(p.fields) /\ "address_handle" \in {p.fields[j].tag : j \in 1 .. i}
    /\ ~SessionTooLong(p.id, p.fields)

(* The host sends a packet when it is its turn, and waits for the answer.  *)
HostSends ==
    /\ host = "turn"
    /\ Len(input) + Len(output) <= MaxUnread
    /\ host' = "wait"
    /\ \E p \in Packets :
        /\ input' = input \o <<Header(p)>> \o p.fields
        /\ supplied' = IF asked = None \/ p.id = "PIN_ACK" THEN Value(p.fields, "password")
                       ELSE supplied
        /\ session' = IF asked # None \/ p.id # "INITIALIZE" THEN session
                      ELSE IF Decodes(p.id, p.fields) THEN Value(p.fields, "session_id")
                      ELSE None
        /\ regular' = (regular /\ IsRegular(p))
    /\ UNCHANGED <<output, device, effect, given, approved, asked>>

HostReceives ==
    /\ host = "wait"
    /\ output # <<>>
    /\ host' = "turn"
    /\ output' = Tail(output)
    /\ asked' = IF \E i \in Interjections : Head(output).id = Ask[i]
                THEN Head(output).id ELSE None
    /\ effect' = None
    /\ UNCHANGED <<input, device, given, approved, supplied, session, regular>>

Init ==
    /\ pc = "idle" /\ request = None /\ stage = 0
    /\ payload_length = 0 /\ bytes_left = 0
    /\ prev_transaction_hash = None /\ field_hash = None /\ session_id = None
    /\ otp = None /\ transaction = None /\ seen = {}
    /\ input = <<>> /\ output = <<>>
    /\ effect = None /\ given = {} /\ approved = {}
    /\ host = "turn" /\ asked = None /\ supplied = None /\ session = None
    /\ regular = TRUE

(* The device loses power; the stream restarts with it. *)
PowerLoss ==
    /\ pc' = "idle" /\ request' = None /\ stage' = 0
    /\ payload_length' = 0 /\ bytes_left' = 0
    /\ prev_transaction_hash' = None /\ field_hash' = None /\ session_id' = None
    /\ otp' = None /\ transaction' = None /\ seen' = {}
    /\ input' = <<>> /\ output' = <<>>
    /\ effect' = None /\ given' = {} /\ approved' = {}
    /\ host' = "turn" /\ asked' = None /\ supplied' = None /\ session' = None
    /\ regular' = TRUE

Device == processPacket \/ BeginSigning \/ DecodeField \/ EndOfStream \/ EndDecoding
          \/ Reply \/ InvalidHeader
Next == Device \/ HostSends \/ HostReceives \/ PowerLoss

Spec == Init /\ [][Next]_vars

(* The device runs as long as it has power, and the host reads what it is  *)
(* sent.  Nothing obliges the host to send, or the power to fail.          *)
FairSpec == Spec /\ WF_vars(Device) /\ WF_vars(HostReceives)

-----------------------------------------------------------------------------
Units == UNION {{Header(p)} \cup {p.fields[i] : i \in 1 .. Len(p.fields)} : p \in Packets}
Passwords == {None} \cup {Value(p.fields, "password") : p \in Packets}
Sessions == {None} \cup {Value(p.fields, "session_id") : p \in Packets}
Transactions == {None} \cup {u.value : u \in {f \in Units : f.tag = "transaction_data"}}

(* The variables keep the types that stream_comm.c declares for them. *)
TypeOK ==
    /\ \A i \in 1 .. Len(input) : input[i] \in Units
    /\ \A i \in 1 .. Len(output) : DOMAIN output[i] = {"id", "value", "unread"}
    /\ pc \in {"idle", "decoding", "fatal"} \cup Interjections
    /\ request \in DOMAIN Commands \cup {None}
    /\ stage \in 0 .. 1
    /\ payload_length \in Nat /\ bytes_left \in Nat
    /\ prev_transaction_hash \in Transactions
    /\ field_hash \in Passwords
    /\ session_id \in Sessions
    /\ otp \in OTPs \cup {None}
    /\ transaction \in Transactions
    /\ given \subseteq Interjections
    /\ approved \subseteq Transactions
    /\ host \in {"turn", "wait"}

(* "This function will always completely read a packet before sending a    *)
(* response packet": nothing is sent while payload_length is not 0.        *)
ReadBeforeAnswer == \A i \in 1 .. Len(output) : output[i].unread = 0

(* The host and the device take turns, packet by packet.  While it is the  *)
(* host's turn both directions of the stream are empty, and the device     *)
(* waits for precisely what the host believes it waits for.  While the     *)
(* host waits there is one packet on its way or the device is at work, and *)
(* the device never sends a second answer.  This holds as long as the host *)
(* has sent messages in the form in which libraries write them.  Whatever  *)
(* it sends, what is left to read never falls below 0 (TypeOK).            *)
TakeTurns ==
    /\ TypeOK
    /\ regular =>
        /\ pc # "fatal"
        /\ Len(output) <= 1
        /\ \A i \in 1 .. Len(output) : output[i].unread = 0
        /\ host = "turn" => input = <<>> /\ output = <<>>
        /\ host = "turn" => asked = IF pc \in Interjections THEN Ask[pc] ELSE None
        /\ pc \in {"idle"} \cup Interjections /\ host = "wait" => (input = <<>>) # (output = <<>>)

(* What each operation needs before it is carried out: the user's consent  *)
(* for whatever creates, destroys, changes, signs or reveals, and also the *)
(* one-time password shown on the device where a mistake is irreversible.  *)
Needs(op) ==
    CASE op \in {"DELETE_WALLET", "FORMAT", "CHANGE_KEY", "GET_MASTER_KEY"} -> {"BUTTON", "OTP"}
      [] op \in {"NEW_WALLET", "NEW_ADDRESS", "CHANGE_NAME", "BACKUP_WALLET", "RESTORE_WALLET"} -> {"BUTTON"}
      [] OTHER -> {}

(* Checklist item 3 of processPacket(): no operation is carried out for a  *)
(* request unless the interjections it needs succeeded for that request,   *)
(* whatever the host answered in between.                                  *)
ConsentBeforeEffect == effect # None => Needs(effect.op) \subseteq effect.consent

SendsApproved ==
    LET sent == output'[Len(output')]
    IN  Len(output') > Len(output) /\ sent.id = "SIGNATURE" => sent.value \in approved'

(* A signature is sent only for a transaction that the user approved since *)
(* the device was last initialised or lost power (prev_transaction_hash).  *)
SignedWasApproved == [][SendsApproved]_vars

(* The password that newWallet() or changeEncryptionKey() gets through     *)
(* field_hash is the one that the host sent for this very request, and no  *)
(* password is used if it sent none.                                       *)
PasswordUsed ==
    [][regular /\ effect' # effect /\ effect' # None /\ effect'.op \in TakesPassword =>
        effect'.password = supplied]_vars

(* "The host can use this as a sanity check to ensure the device hasn't    *)
(* reset itself": a session identifier that Ping echoes is the one of the  *)
(* host's last Initialize, and none if that failed or power was lost.      *)
EchoedSession ==
    regular =>
        \A i \in 1 .. Len(output) : output[i].id = "PING_RESPONSE" => output[i].value = session

(* "When the device has received the entire packet, it eventually responds *)
(* by sending a packet back to the host."                                  *)
AnswerArrives == (host = "wait" /\ regular) ~> (host = "turn")

=============================================================================
