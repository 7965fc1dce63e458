------------------------------ MODULE Protobuf ------------------------------
(***************************************************************************)
(* The messages of the device on the wire: the tables of messages.pb.c and *)
(* the parts of pb_encode.c and pb_decode.c that those tables use.         *)
(*                                                                         *)
(* A message is chosen, sized and written as sendPacket() does, a field a  *)
(* step.  It may then be cut short, given a field that the receiver does   *)
(* not know, or only the beginning of one, a field twice or a field that   *)
(* is too long, or ended by a zero, and it is decoded as receiveMessage()  *)
(* does.                                                                   *)
(*                                                                         *)
(* A field of a structure is [has, v]: has is the has_ flag of an optional *)
(* field, or says that the callback of a callback field was called; it is  *)
(* TRUE in the other fields.  A byte array or a string is a sequence.      *)
(***************************************************************************)
EXTENDS Integers, Sequences, SequencesExt, FiniteSets

CONSTANTS Group,        \* bits in each byte of a varint; 7
          WordBits,     \* width of uint32_t
          LongBits,     \* width of uint64_t
          Align,        \* alignment of size_t in bytes: 4, on the AVR 1
          UnknownTags   \* tags that no message has

VARIABLES
    stage,      \* "size", "write", "sent" or "received"
    name,       \* the message
    message,    \* its fields
    sized,      \* its length according to the sizing stream
    stream,     \* the output stream
    ends,       \* where each of the fields written so far ends
    damage,     \* what happened to the message on its way
    payload,    \* the payload as it arrived
    received    \* the outcome of receiveMessage()

vars == <<stage, name, message, sized, stream, ends, damage, payload, received>>

Byte == 2 ^ Group

WireTypes == [varint |-> 0, bit64 |-> 1, string |-> 2, bit32 |-> 5]

------------------------------------------------------------------------
(* The tables.                                                             *)

\* The declared sizes of the byte arrays, strings and arrays of the structures.
Room == [public_key |-> 65, address |-> 20, wallet_name |-> 40, uuid |-> 16,
         session_id |-> 64, pool |-> 32, chain_code |-> 32, otp |-> 16,
         greeting |-> 64, signature |-> 73, seed |-> 64, algo |-> 2]

\* size is that of a byte array or string, array_size that of an array.
Field(tag, ltype, htype, atype, size, array_size, ptr) ==
    [tag |-> tag, ltype |-> ltype, htype |-> htype, atype |-> atype,
     size |-> size, array_size |-> array_size, ptr |-> ptr]

Required(tag, ltype, size) == Field(tag, ltype, "REQUIRED", "STATIC", size, 0, "")

Optional(tag, ltype, size) == Field(tag, ltype, "OPTIONAL", "STATIC", size, 0, "")

Callback(tag, ltype, htype) == Field(tag, ltype, htype, "CALLBACK", 0, 0, "")

\* The *_fields arrays.  Messages without fields are those not named here.
WithFields ==
  [Initialize |-> <<Required(1, "BYTES", Room.session_id)>>,
   Features |-> <<Required(1, "BYTES", Room.session_id), Callback(2, "STRING", "OPTIONAL"),
                  Optional(3, "UINT32", 0), Optional(4, "UINT32", 0),
                  Callback(5, "STRING", "OPTIONAL"), Optional(6, "BOOL", 0),
                  Optional(7, "BOOL", 0), Optional(8, "BOOL", 0),
                  Field(9, "ENUM", "REPEATED", "STATIC", 0, Room.algo, ""),
                  Optional(10, "BOOL", 0)>>,
   Ping |-> <<Optional(1, "STRING", Room.greeting)>>,
   PingResponse |-> <<Optional(1, "STRING", Room.greeting),
                      Required(2, "BYTES", Room.session_id)>>,
   Failure |-> <<Required(1, "UINT32", 0), Callback(2, "STRING", "REQUIRED")>>,
   PinAck |-> <<Callback(1, "BYTES", "REQUIRED")>>,
   OtpAck |-> <<Required(1, "STRING", Room.otp)>>,
   DeleteWallet |-> <<Optional(1, "UINT32", 0)>>,
   NewWallet |-> <<Optional(1, "UINT32", 0), Callback(2, "BYTES", "OPTIONAL"),
                   Optional(3, "BYTES", Room.wallet_name), Optional(4, "BOOL", 0)>>,
   Address |-> <<Required(1, "UINT32", 0), Required(2, "BYTES", Room.public_key),
                 Required(3, "BYTES", Room.address)>>,
   NumberOfAddresses |-> <<Required(1, "UINT32", 0)>>,
   GetAddressAndPublicKey |-> <<Required(1, "UINT32", 0)>>,
   SignTransaction |-> <<Required(1, "UINT32", 0), Callback(2, "BYTES", "REQUIRED")>>,
   Signature |-> <<Required(1, "BYTES", Room.signature)>>,
   LoadWallet |-> <<Optional(1, "UINT32", 0)>>,
   FormatWalletArea |-> <<Required(1, "BYTES", Room.pool)>>,
   ChangeEncryptionKey |-> <<Callback(1, "BYTES", "OPTIONAL")>>,
   ChangeWalletName |-> <<Required(1, "BYTES", Room.wallet_name)>>,
   WalletInfo |-> <<Required(1, "UINT32", 0), Required(2, "BYTES", Room.wallet_name),
                    Required(3, "BYTES", Room.uuid)>>,
   Wallets |-> <<Field(1, "MESSAGE", "REPEATED", "CALLBACK", 0, 0, "WalletInfo")>>,
   BackupWallet |-> <<Optional(1, "BOOL", 0), Optional(2, "UINT32", 0)>>,
   RestoreWallet |-> <<Field(1, "MESSAGE", "REQUIRED", "STATIC", 0, 0, "NewWallet"),
                       Required(2, "BYTES", Room.seed)>>,
   DeviceUUID |-> <<Required(1, "BYTES", Room.uuid)>>,
   GetEntropy |-> <<Required(1, "UINT32", 0)>>,
   Entropy |-> <<Callback(1, "BYTES", "REQUIRED")>>,
   MasterPublicKey |-> <<Required(1, "BYTES", Room.public_key),
                         Required(2, "BYTES", Room.chain_code)>>]

Fields(m) == IF m \in DOMAIN WithFields THEN WithFields[m] ELSE <<>>

FieldAt(m, tag) == CHOOSE f \in ToSet(Fields(m)) : f.tag = tag

\* data_size less the size_t before the bytes: a structure is padded to whole words,
\* and its padding counts as room.
BytesRoom(f) == ((f.size + Align - 1) \div Align) * Align

IsVarint(f) == f.ltype \in {"UINT32", "ENUM", "BOOL"}

------------------------------------------------------------------------
(* Encoding.  An output stream that has failed ignores what follows.       *)

Sizing == [ok |-> TRUE, real |-> FALSE, bytes |-> <<>>, written |-> 0, max |-> 0]

Writing(max) == [Sizing EXCEPT !.real = TRUE, !.max = max]

pb_write(o, bytes) ==
    IF ~o.ok THEN o
    ELSE IF o.real /\ o.written + Len(bytes) > o.max THEN [o EXCEPT !.ok = FALSE]
    ELSE [o EXCEPT !.bytes = IF o.real THEN @ \o bytes ELSE @,
                   !.written = @ + Len(bytes)]

Groups(value) == CHOOSE n \in 1 .. LongBits :
    value < 2 ^ (Group * n) /\ (n = 1 \/ value >= 2 ^ (Group * (n - 1)))

\* Mutation: the top bit stays set in the last byte of a full group.
VarintStillMarked(o, value) ==
    LET n == Groups(value) IN
    pb_write(o, [i \in 1 .. n |->
        ((value \div (2 ^ (Group * (i - 1)))) % Byte)
            + (IF i < n \/ value = Byte - 1 THEN Byte ELSE 0)])

pb_encode_varint(o, value) ==
    LET n == Groups(value) IN
    pb_write(o, [i \in 1 .. n |->
        ((value \div (2 ^ (Group * (i - 1)))) % Byte) + (IF i < n THEN Byte ELSE 0)])

pb_encode_tag(o, wire, tag) == pb_encode_varint(o, wire + (8 * tag))

pb_encode_tag_for_field(o, f) ==
    pb_encode_tag(o, IF IsVarint(f) THEN WireTypes.varint ELSE WireTypes.string, f.tag)

pb_encode_string(o, bytes) == pb_write(pb_encode_varint(o, Len(bytes)), bytes)

pb_enc_varint(o, value) == pb_encode_varint(o, value)

pb_enc_bytes(o, f, bytes) ==
    IF Len(bytes) > BytesRoom(f) THEN [o EXCEPT !.ok = FALSE] ELSE pb_encode_string(o, bytes)

\* The string ends at its NUL or at the end of its array.
pb_enc_string(o, f, bytes) == 
    pb_encode_string(o, SubSeq(bytes, 1, IF Len(bytes) < f.size THEN Len(bytes) ELSE f.size))

\* encode_array() of a packable type: the elements are sized and then written.
encode_array(o, f, values) ==
    LET Elements(p) == FoldLeft(pb_enc_varint, p, values)
        Body(head, size) == IF head.real THEN Elements(head) ELSE [head EXCEPT !.written = @ + size]
        Sized(size) == Body(pb_encode_varint(pb_encode_tag(o, WireTypes.string, f.tag), size), size)
    IN IF values = <<>> THEN o
       ELSE IF Len(values) > f.array_size THEN [o EXCEPT !.ok = FALSE]
       ELSE Sized(Elements(Sizing).written)

RECURSIVE pb_encode(_, _, _)

\* A stream limited to the size found first writes the submessage.
AfterSubmessage(head, size, sub) ==
    [head EXCEPT !.ok = sub.ok /\ sub.written = size,
                 !.bytes = sub.bytes,
                 !.written = @ + sub.written]

AfterSize(head, size, m, value) ==
    IF ~head.ok THEN head
    ELSE IF ~head.real THEN [head EXCEPT !.written = @ + size]
    ELSE IF head.written + size > head.max THEN [head EXCEPT !.ok = FALSE]
    ELSE AfterSubmessage(head, size,
             pb_encode([head EXCEPT !.max = size, !.written = 0], Fields(m), value))

pb_encode_submessage(o, m, value) ==
    LET Sized(size) == AfterSize(pb_encode_varint(o, size), size, m, value)
    IN  Sized(pb_encode(Sizing, Fields(m), value).written)

Encoder(o, f, v) ==
    CASE IsVarint(f) -> pb_enc_varint(o, v)
      [] f.ltype = "BYTES" -> pb_enc_bytes(o, f, v)
      [] f.ltype = "STRING" -> pb_enc_string(o, f, v)
      [] f.ltype = "MESSAGE" -> pb_encode_submessage(o, f.ptr, v)

encode_static_field(o, f, d) ==
    CASE f.htype = "REPEATED" -> encode_array(o, f, d.v)
      [] f.htype = "OPTIONAL" /\ ~d.has -> o
      [] OTHER -> Encoder(pb_encode_tag_for_field(o, f), f, d.v)

\* The callbacks of stream_comm.c: a string or the entropy is a tag, a length and
\* bytes; listWalletsCallback() writes a submessage for each wallet.
encode_callback_field(o, f, d) ==
    IF ~d.has THEN o
    ELSE IF f.ltype = "MESSAGE"
    THEN FoldLeft(LAMBDA p, w : pb_encode_submessage(pb_encode_tag_for_field(p, f), f.ptr, w),
                  o, d.v)
    ELSE pb_encode_string(pb_encode_tag_for_field(o, f), d.v)

encode_field(o, f, d) ==
    IF f.atype = "STATIC" THEN encode_static_field(o, f, d)
                          ELSE encode_callback_field(o, f, d)

pb_encode(o, fields, src) ==
    FoldLeft(LAMBDA p, f : IF p.ok THEN encode_field(p, f, src[f.tag]) ELSE p, o, fields)

------------------------------------------------------------------------
(* Decoding.  An input stream is the bytes to come, of which at most left  *)
(* may be read.                                                            *)

Skip(s, n) == [bytes |-> SubSeq(s.bytes, n + 1, Len(s.bytes)), left |-> s.left - n]

Result(ok, s, v) == [ok |-> ok, s |-> s, v |-> v]

pb_read(s, n) ==
    IF s.left < n THEN Result(FALSE, s, <<>>)
    ELSE Result(TRUE, Skip(s, n), SubSeq(s.bytes, 1, n))

MaxGroups(bits) == (bits + Group - 1) \div Group

\* The first byte without its top bit, or the one after the end.
LastOfVarint(s) == Min({n \in 1 .. s.left : s.bytes[n] < Byte} \union {s.left + 1})

\* pb_decode_varint() and pb_decode_varint32(): the byte after the last group
\* that can matter is not read.
Varint(s, bits) ==
    LET n == LastOfVarint(s)
        Value[k \in 0 .. n] == IF k = 0 THEN 0
            ELSE Value[k - 1] + ((s.bytes[k] % Byte) * 2 ^ (Group * (k - 1)))
    IN IF n <= Min({s.left, MaxGroups(bits)})
       THEN Result(TRUE, Skip(s, n), Value[n] % (2 ^ bits))
       ELSE Result(FALSE, Skip(s, Min({s.left, MaxGroups(bits)})), 0)

pb_decode_varint(s) == Varint(s, LongBits)

pb_decode_varint32(s) == Varint(s, WordBits)

\* Mutation: the bytes of a tag that was not complete are taken for it.
TagFromPart(s) ==
    LET Tag(t) == [ok |-> t.v # 0, s |-> t.s, tag |-> t.v \div 8, wire |-> t.v % 8,
                   eof |-> IF t.ok THEN t.v = 0 ELSE FALSE]
    IN  Tag(pb_decode_varint32(s))

\* A stream that ends in the tag, or a zero tag, ends the message.
pb_decode_tag(s) ==
    LET Tag(t) == [ok |-> t.ok /\ t.v # 0, s |-> t.s, tag |-> t.v \div 8, wire |-> t.v % 8,
                   eof |-> IF t.ok THEN t.v = 0 ELSE t.s.left = 0]
    IN  Tag(pb_decode_varint32(s))

pb_skip_varint(s) ==
    LET n == LastOfVarint(s)
    IN IF n > s.left THEN Result(FALSE, Skip(s, s.left), 0) ELSE Result(TRUE, Skip(s, n), 0)

\* Mutation: the length of an unknown string is skipped, its bytes are not.
SkipLengthOnly(s) == pb_decode_varint32(s)

pb_skip_string(s) ==
    LET Body(length) == IF length.ok THEN pb_read(length.s, length.v) ELSE length
    IN  Body(pb_decode_varint32(s))

pb_skip_field(s, wire) ==
    CASE wire = WireTypes.varint -> pb_skip_varint(s)
      [] wire = WireTypes.bit64 -> pb_read(s, 8)
      [] wire = WireTypes.string -> pb_skip_string(s)
      [] wire = WireTypes.bit32 -> pb_read(s, 4)
      [] OTHER -> Result(FALSE, s, 0)

\* A scalar for a callback is at most ten bytes.
read_raw_value(s, wire) ==
    LET Copy(skipped, n) == IF wire = WireTypes.string \/ n > 10 THEN Result(FALSE, s, <<>>)
                            ELSE Result(skipped.ok, skipped.s, SubSeq(s.bytes, 1, n))
        Raw(skipped) == Copy(skipped, s.left - skipped.s.left)
    IN  Raw(pb_skip_field(s, wire))

\* Limits a substream to the length that comes first.  v is the substream; s is
\* the stream after pb_close_string_substream().
pb_make_string_substream(s) ==
    LET Limit(size) ==
            IF ~size.ok \/ size.s.left < size.v THEN Result(FALSE, size.s, size.s)
            ELSE Result(TRUE, Skip(size.s, size.v), [size.s EXCEPT !.left = size.v])
    IN  Limit(pb_decode_varint32(s))

pb_field_find(fields, tag) == {i \in DOMAIN fields : fields[i].tag = tag}

RECURSIVE pb_message_set_to_defaults(_)
pb_message_set_to_defaults(fields) ==
    [t \in {f.tag : f \in ToSet(fields)} |->
        LET f == CHOOSE g \in ToSet(fields) : g.tag = t
        IN [has |-> f.atype = "STATIC" /\ f.htype # "OPTIONAL",
            v |-> IF IsVarint(f) /\ f.htype # "REPEATED" THEN 0
                  ELSE IF f.ltype = "MESSAGE" /\ f.htype = "REQUIRED"
                  THEN pb_message_set_to_defaults(Fields(f.ptr))
                  ELSE <<>>]]

RECURSIVE pb_decode_noinit(_, _, _, _)

pb_decode(s, fields) ==
    pb_decode_noinit(s, fields, pb_message_set_to_defaults(fields), {})

pb_dec_varint(s, f) ==
    LET r == pb_decode_varint(s)
    IN [r EXCEPT !.v = @ % (2 ^ (IF f.ltype = "BOOL" THEN 8 ELSE WordBits))]

\* The bytes after a length, if there is room for them and a terminator.
Sized(size, terminator, room) ==
    IF ~size.ok \/ (size.v + terminator) % (2 ^ WordBits) > room THEN Result(FALSE, size.s, <<>>)
    ELSE pb_read(size.s, size.v)

\* Mutation: the length is compared with the size of the structure's array and header.
BytesOverHeader(s, f) == Sized(pb_decode_varint32(s), 0, BytesRoom(f) + Align)

pb_dec_bytes(s, f) == Sized(pb_decode_varint32(s), 0, BytesRoom(f))

pb_dec_string(s, f) == Sized(pb_decode_varint32(s), 1, f.size)

pb_dec_submessage(s, f, v) ==
    LET Close(d, sub) == Result(d.ok, [d.s EXCEPT !.left = sub.s.left], d.dest)
        Open(sub) == IF ~sub.ok THEN Result(FALSE, s, v)
                     ELSE Close(pb_decode_noinit(sub.v, Fields(f.ptr), v, {}), sub)
    IN  Open(pb_make_string_substream(s))

Decoder(s, f, v) ==
    CASE IsVarint(f) -> pb_dec_varint(s, f)
      [] f.ltype = "BYTES" -> pb_dec_bytes(s, f)
      [] f.ltype = "STRING" -> pb_dec_string(s, f)
      [] f.ltype = "MESSAGE" -> pb_dec_submessage(s, f, v)

RECURSIVE Packed(_, _, _)
\* The loop over a packed array: it stops when the array is full.
Packed(sub, f, values) ==
    IF sub.left = 0 \/ Len(values) >= f.array_size THEN Result(sub.left = 0, sub, values)
    ELSE LET Rest(r) == IF r.ok THEN Packed(r.s, f, Append(values, r.v))
                        ELSE Result(FALSE, r.s, values)
         IN  Rest(Decoder(sub, f, 0))

\* Only an array looks at the wire type.
decode_static_field(s, wire, f, d) ==
    LET One(r) == Result(r.ok, r.s, [has |-> TRUE, v |-> r.v])
        Another(r) == Result(r.ok, r.s, [has |-> TRUE, v |-> Append(d.v, r.v)])
        All(r, after) == Result(r.ok, after, [has |-> TRUE, v |-> r.v])
        Open(sub) == IF sub.ok THEN All(Packed(sub.v, f, d.v), sub.s) ELSE Result(FALSE, s, d)
    IN IF f.htype # "REPEATED" THEN One(Decoder(s, f, d.v))
       ELSE IF wire = WireTypes.string THEN Open(pb_make_string_substream(s))
       ELSE IF Len(d.v) >= f.array_size THEN Result(FALSE, s, d)
       ELSE Another(Decoder(s, f, 0))

\* The callback reads its substream to the end.  The host's, for the wallets it
\* is sent, decodes a submessage.
decode_callback_field(s, wire, f, d) ==
    LET Called(ok, after, v) == Result(ok, after, [has |-> TRUE, v |-> v])
        Scalar(raw) == Called(raw.ok, raw.s, raw.v)
        Wallet(m, after) == Called(m.ok, after, Append(d.v, m.dest))
        Open(sub) ==
            IF ~sub.ok THEN Result(FALSE, s, d)
            ELSE IF f.ltype = "MESSAGE" THEN Wallet(pb_decode(sub.v, Fields(f.ptr)), sub.s)
            ELSE Called(TRUE, sub.s, SubSeq(sub.v.bytes, 1, sub.v.left))
    IN IF wire = WireTypes.string THEN Open(pb_make_string_substream(s))
                                  ELSE Scalar(read_raw_value(s, wire))

decode_field(s, wire, f, d) ==
    IF f.atype = "STATIC" THEN decode_static_field(s, wire, f, d)
                          ELSE decode_callback_field(s, wire, f, d)

\* Mutation: only the last required field is looked for.
LastRequiredSeen(fields, seen) ==
    fields # <<>> /\ Last(fields).htype = "REQUIRED" => Len(fields) \in seen

AllRequiredSeen(fields, seen) ==
    \A i \in DOMAIN fields : fields[i].htype = "REQUIRED" => i \in seen

Outcome(ok, s, dest) == [ok |-> ok, s |-> s, dest |-> dest]

AfterSkip(skipped, fields, dest, seen) ==
    IF skipped.ok THEN pb_decode_noinit(skipped.s, fields, dest, seen)
                  ELSE Outcome(FALSE, skipped.s, dest)

AfterField(d, i, fields, dest, seen) ==
    IF d.ok
    THEN pb_decode_noinit(d.s, fields, [dest EXCEPT ![fields[i].tag] = d.v], seen \union {i})
    ELSE Outcome(FALSE, d.s, dest)

AfterTag(t, found, fields, dest, seen) ==
    CASE t.eof -> Outcome(AllRequiredSeen(fields, seen), t.s, dest)
      [] ~t.ok /\ ~t.eof -> Outcome(FALSE, t.s, dest)
      [] t.ok /\ found = {} -> AfterSkip(pb_skip_field(t.s, t.wire), fields, dest, seen)
      [] t.ok /\ found # {} ->
           LET i == CHOOSE k \in found : TRUE IN
           AfterField(decode_field(t.s, t.wire, fields[i], dest[fields[i].tag]), i,
                      fields, dest, seen)

pb_decode_noinit(s, fields, dest, seen) ==
    IF s.left = 0 THEN Outcome(AllRequiredSeen(fields, seen), s, dest)
    ELSE LET Tag(t) == AfterTag(t, pb_field_find(fields, t.tag), fields, dest, seen)
         IN  Tag(pb_decode_tag(s))

------------------------------------------------------------------------
(* The messages to send.  Their fields are all as small or all as large as *)
(* they can be, or in between.                                             *)

Fills == {"least", "one", "group", "most"}

Length(room, fill) == CASE fill = "least" -> 0 [] fill = "one" -> 1
                        [] fill = "group" -> room \div 2 [] fill = "most" -> room

Text(n) == [i \in 1 .. n |-> 2 * Byte - i]

RECURSIVE Filled(_, _, _)
Filled(fields, fill, with) ==
    [t \in {f.tag : f \in ToSet(fields)} |->
        LET f == CHOOSE g \in ToSet(fields) : g.tag = t
            has == f.htype # "OPTIONAL" \/ t \in with
            Number == CASE fill = "least" -> 0 [] fill = "one" -> Byte - 1
                        [] fill = "group" -> Byte [] fill = "most" -> 2 ^ WordBits - 1
            value ==
              CASE f.ltype = "BOOL" -> Length(1, fill)
                [] f.ltype = "UINT32" -> Number
                [] f.ltype = "ENUM" -> [i \in 1 .. Length(f.array_size, fill) |-> i - 1]
                [] f.ltype = "BYTES" /\ f.atype = "STATIC" -> Text(Length(f.size, fill))
                [] f.ltype = "STRING" /\ f.atype = "STATIC" -> Text(Length(f.size - 1, fill))
                [] f.ltype = "MESSAGE" /\ f.atype = "STATIC" -> Filled(Fields(f.ptr), fill, with)
                [] f.ltype = "MESSAGE" /\ f.atype = "CALLBACK" ->
                     [i \in 1 .. Length(2, fill) |-> Filled(Fields(f.ptr), fill, with)]
                [] OTHER -> Text(Length(Byte + 3, fill))
        IN IF has /\ (f.ltype = "MESSAGE" /\ f.atype = "CALLBACK" => value # <<>>)
           THEN [has |-> TRUE, v |-> value]
           ELSE [has |-> FALSE, v |-> pb_message_set_to_defaults(fields)[t].v]]

Init ==
    /\ stage = "size"
    /\ name \in DOMAIN WithFields \union {"Success"}
    /\ \E fill \in Fills, with \in {{}, 1 .. 10, {1, 3, 6, 9}} :
          message = Filled(Fields(name), fill, with)
    /\ sized = 0 /\ stream = Sizing /\ ends = <<>>
    /\ damage = [kind |-> "none"] /\ payload = <<>>
    /\ received = [ok |-> FALSE, dest |-> <<>>]

\* sendPacket(): the message is sized, its length goes out, and the stream that
\* writes it is limited to that length.
Size ==
    /\ stage = "size"
    /\ LET s == pb_encode(Sizing, Fields(name), message)
       IN /\ s.ok
          /\ sized' = s.written
          /\ stream' = Writing(s.written)
    /\ stage' = "write"
    /\ UNCHANGED <<name, message, ends, damage, payload, received>>

WriteField ==
    /\ stage = "write"
    /\ Len(ends) < Len(Fields(name))
    /\ LET f == Fields(name)[Len(ends) + 1]
       IN stream' = IF stream.ok THEN encode_field(stream, f, message[f.tag]) ELSE stream
    /\ ends' = Append(ends, Len(stream'.bytes))
    /\ UNCHANGED <<stage, name, message, sized, damage, payload, received>>

Start(k) == IF k = 1 THEN 0 ELSE ends[k - 1]

\* Where a field, or the message, ends.
Borders == {0} \union ToSet(ends)

\* A field that no table has, of each wire type.
UnknownField(tag, wire) ==
    pb_encode_tag(Writing(100), wire, tag).bytes \o
        CASE wire = WireTypes.varint -> <<Byte, Byte, 1>>
          [] wire = WireTypes.bit64 -> <<8, 18, 8, 18, 8, 18, 8, 18>>
          [] wire = WireTypes.string -> <<3, 8, 18, 10>>
          [] wire = WireTypes.bit32 -> <<10, 10, 10, 10>>
          [] OTHER -> <<>>

Damages ==
    {[kind |-> "none"]}
      \union [kind : {"cut"}, at : 0 .. Len(stream.bytes) - 1]
      \union [kind : {"unknown"}, at : Borders, tag : UnknownTags, wire : {0, 1, 2, 3, 5}]
      \union [kind : {"part"}, at : Borders, tag : UnknownTags, wire : {0, 1, 2, 3, 5}, length : 1 .. 9]
      \union [kind : {"zero"}, at : Borders]
      \union [kind : {"twice"}, field : {k \in DOMAIN ends : ends[k] # Start(k)}]
      \union [kind : {"long"}, field : {k \in DOMAIN ends : Fields(name)[k].size # 0},
             more : {-1, 0, 1}]

LongText(d) ==
    LET f == Fields(name)[d.field] IN
    Text((IF f.ltype = "BYTES" THEN BytesRoom(f) ELSE f.size) + d.more)

\* The first bytes of an unknown field, but not all.
PartOf(d) ==
    LET whole == UnknownField(d.tag, d.wire) IN
    SubSeq(whole, 1, Min({d.length, Len(whole) - 1}))

Before(n) == SubSeq(stream.bytes, 1, n)

After(n) == SubSeq(stream.bytes, n + 1, Len(stream.bytes))

Damaged(d) ==
    CASE d.kind = "none" -> stream.bytes
      [] d.kind = "cut" -> Before(d.at)
      [] d.kind = "unknown" -> Before(d.at) \o UnknownField(d.tag, d.wire) \o After(d.at)
      [] d.kind = "part" -> Before(d.at) \o PartOf(d)
      [] d.kind = "zero" -> Before(d.at) \o <<0>> \o After(d.at)
      [] d.kind = "twice" ->
           stream.bytes \o SubSeq(stream.bytes, Start(d.field) + 1, ends[d.field])
      [] d.kind = "long" ->
           stream.bytes \o pb_encode_string(pb_encode_tag_for_field(Writing(100),
                                                Fields(name)[d.field]), LongText(d)).bytes

Deliver ==
    /\ stage = "write"
    /\ Len(ends) = Len(Fields(name))
    /\ damage' \in Damages
    /\ payload' = Damaged(damage')
    /\ stage' = "sent"
    /\ UNCHANGED <<name, message, sized, stream, ends, received>>

\* The message must also take up the whole payload.
receiveMessage ==
    /\ stage = "sent"
    /\ LET d == pb_decode([bytes |-> payload, left |-> Len(payload)], Fields(name))
       IN received' = [ok |-> d.ok /\ d.s.left = 0, dest |-> d.dest]
    /\ stage' = "received"
    /\ UNCHANGED <<name, message, sized, stream, ends, damage, payload>>

Next == Size \/ WriteField \/ Deliver \/ receiveMessage

Spec == Init /\ [][Next]_vars

------------------------------------------------------------------------
(* What the exchange should be.                                            *)

\* The message that the fields in the first n bytes make.
Prefix(n) ==
    [t \in DOMAIN message |->
        LET k == CHOOSE j \in DOMAIN ends : Fields(name)[j].tag = t
        IN IF ends[k] <= n THEN message[t] ELSE pb_message_set_to_defaults(Fields(name))[t]]

\* A required field that lies beyond the first n bytes.
Lacks(n) == \E k \in DOMAIN ends : Fields(name)[k].htype = "REQUIRED" /\ ends[k] > n

\* The bytes of a tag with its wire type.
TagLength(tag) == IF 8 * tag < Byte THEN 1 ELSE 2

\* Two arrays in a row make one.
Twice(k) ==
    LET f == Fields(name)[k] IN
    IF f.htype = "REPEATED"
    THEN [message EXCEPT ![f.tag].v = @ \o message[f.tag].v]
    ELSE message

(***************************************************************************)
(* A message has the length that was announced, and it reads back as it    *)
(* was, whatever unknown fields lie between its fields.  A field that      *)
(* comes again replaces the first, or extends its array if that has room.  *)
(* A message that ends inside the length or the value of a field, that     *)
(* lacks a required field, that has more bytes in a field than there is    *)
(* room for in the structure, or that goes on after a terminating zero is  *)
(* refused.  One that ends inside a tag is not: it is taken as the fields  *)
(* before that tag.  A message that is accepted consists of the fields     *)
(* that came.  (sendPacket() and receiveMessage() of stream_comm.c  *)
(* over pb_encode.c and pb_decode.c.)                                      *)
(***************************************************************************)
MessagesReadBack ==
    /\ stage # "size" => stream.ok
    /\ stage \in {"sent", "received"} => sized = Len(stream.bytes)
    /\ stage = "received" =>
         CASE damage.kind = "none" -> received = [ok |-> TRUE, dest |-> message]
           [] damage.kind = "unknown" ->
                received.ok = (damage.wire # 3)
                  /\ (received.ok => received.dest = message)
           [] damage.kind = "cut" ->
                name = "Wallets" \/
                  /\ received.ok = (damage.at \in Borders /\ ~Lacks(damage.at))
                  /\ received.ok => received.dest = Prefix(damage.at)
           [] damage.kind = "part" ->
                /\ received.ok = (Len(PartOf(damage)) < TagLength(damage.tag) /\ ~Lacks(damage.at))
                /\ received.ok => received.dest = Prefix(damage.at)
           [] damage.kind = "zero" ->
                /\ received.ok = (damage.at = Len(stream.bytes))
                /\ received.ok => received.dest = message
           [] damage.kind = "twice" ->
                LET f == Fields(name)[damage.field] IN
                /\ received.ok = (f.array_size = 0 \/ 2 * Len(message[f.tag].v) <= f.array_size)
                /\ received.ok => received.dest = Twice(damage.field)
           [] damage.kind = "long" ->
                LET f == Fields(name)[damage.field] IN
                /\ received.ok = (damage.more < (IF f.ltype = "BYTES" THEN 1 ELSE 0))
                /\ received.ok =>
                     received.dest = [message EXCEPT ![f.tag] = [has |-> TRUE, v |-> LongText(damage)]]
=============================================================================
