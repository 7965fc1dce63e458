---------------------------- MODULE MCStreamComm ----------------------------
(* Packets for model checking StreamComm. *)
EXTENDS StreamComm

P(id, fields) == [id |-> id, fields |-> fields]
Handle == Field("address_handle", "any")
Tx(t) == Field("transaction_data", t)
Pw(p) == Field("password", p)
Invalid == Field("invalid", "any")
Session(n) == Field("session_id", [size |-> n])

(* Every message ID with a message of its type, and the two kinds of       *)
(* packet that nobody expects.                                             *)
Ordinary ==
    {P(id, <<>>) : id \in DOMAIN Commands
                        \ {"INITIALIZE", "RESTORE_WALLET", "SIGN_TRANSACTION"}}
    \cup {P("INITIALIZE", <<Session(0)>>), P("INITIALIZE", <<Session(1)>>),
          P("NEW_WALLET", <<Pw("p1")>>), P("CHANGE_KEY", <<Pw("p2")>>),
          P("RESTORE_WALLET", <<Pw("p1"), Field("seed", "SEED_LENGTH bytes")>>),
          P("RESTORE_WALLET", <<Field("seed", "too short")>>),
          P("SIGN_TRANSACTION", <<Handle, Tx("t1")>>), P("SIGN_TRANSACTION", <<Handle, Tx("t2")>>),
          P("SIGN_TRANSACTION", <<Handle, Tx("malformed")>>), P("SIGN_TRANSACTION", <<Handle>>)}
    \cup {P(Ack["BUTTON"], <<>>), P(Ack["PIN"], <<Pw("p2")>>), P(Ack["PIN"], <<>>)}
    \cup {P(Ack["OTP"], <<Field("otp", o)>>) : o \in OTPs}
    \cup {P(Cancel[i], <<>>) : i \in Interjections}
    \cup {P("unknown", <<>>), P("unknown", <<Invalid>>)}

(* Messages with something in them that does not decode. *)
Broken ==
    {P(id, <<Invalid>>) : id \in {"INITIALIZE", "NEW_ADDRESS", Ack["BUTTON"], Cancel["OTP"]}}
    \cup {P("CHANGE_KEY", <<Pw("p1"), Invalid>>), P("SIGN_TRANSACTION", <<Handle, Invalid>>)}

(* Messages that are legal but that a library would not write. *)
Irregular ==
    {P("SIGN_TRANSACTION", <<Tx("t1"), Handle>>), P("SIGN_TRANSACTION", <<Tx("t1")>>),
     P("INITIALIZE", <<Session(SESSION_ID_SIZE)>>)}

MCPackets == Ordinary \cup Broken \cup Irregular
=============================================================================
