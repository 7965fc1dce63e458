---------------------------- MODULE Transaction ----------------------------
(***************************************************************************)
(* transaction.c: parseTransaction() reads the input transactions and then *)
(* the spending transaction from the stream, field by field, checks them,  *)
(* works out the fee, gives the outputs to the user interface, and hashes  *)
(* what it reads.                                                          *)
(*                                                                         *)
(* A unit is a field of a transaction, with the number of bytes it takes.  *)
(* A hash is the sequence of the units that were hashed, so that different *)
(* contents have different hashes.  The host decides what each unit holds, *)
(* and how long it is, when it is read.                                    *)
(***************************************************************************)
EXTENDS Naturals, Sequences

CONSTANTS
    Lengths,            \* lengths of transaction data that the host announces
    MAX_TRANSACTION_SIZE,
    MAX_INPUTS,
    MAX_OUTPUTS,        \* of the parser
    LIST_SIZE,          \* MAX_OUTPUTS of the user interface
    max_money,
    AmountLimit,        \* what does not fit in transaction_fee_amount: 2^64
    OutputNumbers,      \* numbers that the host gives to outputs
    Scripts, Addresses,
    Sizes               \* the numbers of bytes that each field may have

Fields == {"is_ref", "output_num", "version", "num_inputs", "ref_hash", "ref_num", "input_script",
           "sequence", "num_outputs", "amount", "output_script", "locktime", "hashtype"}

(* Fields that have a varint, and are read with several calls of           *)
(* getTransactionBytes().                                                  *)
InPieces == {"num_inputs", "num_outputs", "input_script", "output_script"}

ASSUME SizesAssumption ==
    /\ Lengths \subseteq Nat
    /\ {MAX_TRANSACTION_SIZE, MAX_INPUTS, MAX_OUTPUTS, LIST_SIZE, max_money} \subseteq Nat
    /\ AmountLimit \in Nat \ {0}
    /\ OutputNumbers \subseteq Nat

ASSUME FieldsAssumption ==
    /\ DOMAIN Sizes = Fields
    /\ \A field \in Fields : Sizes[field] \subseteq Nat \ {0}
    /\ \A field \in Fields \ InPieces : \E n \in Sizes[field] : Sizes[field] = {n}

VARIABLES
    pc,                     \* the field that is read next
    transaction_length, transaction_data_index,
    result,
    is_ref, output_num_select, num_inputs, num_outputs, i,
    sig_hash, transaction_hash,
    ref_compare, ref_compare_hash,
    transaction_fee_amount,
    known,                  \* history: hashes of the input transactions read
    list, transaction_fee   \* user interface: outputs seen, fee or 0

counters == <<num_inputs, num_outputs, i>>
hashes == <<sig_hash, transaction_hash>>
references == <<ref_compare, ref_compare_hash, known>>
ui == <<list, transaction_fee>>
vars == <<pc, transaction_length, transaction_data_index, result, is_ref, output_num_select,
          counters, hashes, references, transaction_fee_amount, ui>>

(* Values that a count, an amount or a marker can have: in range, at each  *)
(* limit and past it.  A varint may also be too large to be read.          *)
TooLarge == 1000
Counts(max) == 0 .. max + 1 \cup {TooLarge}
Nonstandard == "nonstandard"
TooLong == "too long"

-----------------------------------------------------------------------------
(* getTransactionBytes(): the bytes of a unit are read if they are all     *)
(* there, and go into the hashes.  The header of a transaction is in       *)
(* neither, and input scripts are left out of the transaction hash.        *)
Unhashed == {"is_ref", "output_num"}

(* Mutation: suppress_transaction_hash stays set after an input script. *)
SuppressedFromScript == {"input_script", "sequence", "num_outputs", "amount", "output_script"}

Suppressed == {"input_script"}

Hashed(h, field, v, n) == Append(h, [field |-> field, v |-> v, size |-> n])

Fits(n) == transaction_data_index + n <= transaction_length

(* Of a unit that is found wrong while it is read, only what was read      *)
(* until then counts.                                                      *)
Take(field, v) ==
    /\ pc = field
    /\ \E n \in Sizes[field] :
        /\ Fits(n)
        /\ transaction_data_index' = transaction_data_index + n
        /\ sig_hash' = IF field \in Unhashed THEN sig_hash ELSE Hashed(sig_hash, field, v, n)
        /\ transaction_hash' = IF field \in Unhashed \cup Suppressed THEN transaction_hash
                               ELSE Hashed(transaction_hash, field, v, n)
    /\ UNCHANGED transaction_length

(* Mutation: the end is seen one byte early. *)
EndOneEarly == transaction_data_index + 1 >= transaction_length

isEndOfTransactionData == transaction_data_index >= transaction_length

Fail(error) == pc' = "rest" /\ result' = error
Goto(field) == pc' = field /\ UNCHANGED result

(* Mutation: a read past the end of the data waits for more. *)
WaitForMore == FALSE /\ UNCHANGED vars

(* The read would go past the end of the transaction data.  What was there *)
(* of the unit is left unread, up to the piece that is incomplete.         *)
Truncated ==
    /\ pc \in Fields
    /\ \E n \in Sizes[pc] : ~Fits(n)
    /\ \E n \in 0 .. transaction_length - transaction_data_index :
        /\ n > 0 => pc \in InPieces
        /\ transaction_data_index' = transaction_data_index + n
    /\ Fail("INVALID_FORMAT")
    /\ UNCHANGED <<transaction_length, is_ref, output_num_select,
                   counters, hashes, references, transaction_fee_amount, ui>>

-----------------------------------------------------------------------------
(* The user interface forgets the outputs and the fee. *)
clearOutputsSeen == list' = <<>> /\ transaction_fee' = 0

(* signTransactionCallback() clears the user interface and calls           *)
(* parseTransaction().                                                     *)
parseTransaction ==
    /\ pc \in {"idle", "done"}
    /\ pc' = "begin"
    /\ transaction_length' \in Lengths
    /\ transaction_data_index' = 0
    /\ result' = "NO_ERROR"
    /\ is_ref' = FALSE
    /\ output_num_select' = 0
    /\ num_inputs' = 0 /\ num_outputs' = 0 /\ i' = 0
    /\ sig_hash' = <<>> /\ transaction_hash' = <<>>
    /\ ref_compare' = <<>> /\ ref_compare_hash' = <<>>
    /\ transaction_fee_amount' = 0
    /\ known' = {}
    /\ clearOutputsSeen

(* parseTransactionInternal() starts. *)
BeginTransaction ==
    /\ pc = "begin"
    /\ IF transaction_length > MAX_TRANSACTION_SIZE THEN Fail("TOO_LARGE") ELSE Goto("is_ref")
    /\ sig_hash' = <<>> /\ transaction_hash' = <<>>
    /\ UNCHANGED <<transaction_length, transaction_data_index, is_ref, output_num_select,
                   counters, references, transaction_fee_amount, ui>>

(* An input transaction has the number of the output that is spent; before *)
(* the spending transaction the references collected so far are finished.  *)
ReadIsRef(v) ==
    /\ Take("is_ref", v)
    /\ is_ref' = v
    /\ output_num_select' = 0
    /\ Goto(IF v THEN "output_num" ELSE "version")
    /\ IF v THEN UNCHANGED references
       ELSE ref_compare_hash' = ref_compare /\ ref_compare' = <<>> /\ UNCHANGED known
    /\ UNCHANGED <<counters, transaction_fee_amount, ui>>

ReadOutputNum(v) ==
    /\ Take("output_num", v)
    /\ output_num_select' = v
    /\ ref_compare' = Append(ref_compare, v)
    /\ Goto("version")
    /\ UNCHANGED <<is_ref, counters, ref_compare_hash, known, transaction_fee_amount, ui>>

(* A field that must have one particular value. *)
ReadMarker(field, v, next) ==
    /\ Take(field, v)
    /\ IF v = "standard" THEN Goto(next) ELSE Fail("NON_STANDARD")

ReadVersion(v) ==
    /\ ReadMarker("version", v, "num_inputs")
    /\ UNCHANGED <<is_ref, output_num_select, counters, references, transaction_fee_amount, ui>>

BadCount(v, max) == v = 0 \/ v = TooLarge \/ v > max

(* getVarInt() and the checks of the number of inputs. *)
ReadNumInputs(v) ==
    /\ Take("num_inputs", v)
    /\ num_inputs' = v
    /\ i' = 0
    /\ \/ v \in {0, TooLarge} /\ Fail("INVALID_FORMAT")
       \/ v \notin {0, TooLarge} /\ BadCount(v, MAX_INPUTS) /\ Fail("TOO_MANY_INPUTS")
       \/ ~BadCount(v, MAX_INPUTS) /\ Goto("ref_hash")
    /\ UNCHANGED <<is_ref, output_num_select, num_outputs, references,
                   transaction_fee_amount, ui>>

(* The references of an input transaction are not looked at. *)
ReadRefHash(v) ==
    /\ Take("ref_hash", v)
    /\ Goto("ref_num")
    /\ ref_compare' = IF is_ref THEN ref_compare ELSE Append(ref_compare, v)
    /\ UNCHANGED <<is_ref, output_num_select, counters, ref_compare_hash, known,
                   transaction_fee_amount, ui>>

(* The number is hashed before the reference it follows in the data. *)
ReadRefNum(v) ==
    /\ Take("ref_num", v)
    /\ Goto("input_script")
    /\ ref_compare' = IF is_ref THEN ref_compare
                      ELSE LET last == Len(ref_compare)
                           IN  SubSeq(ref_compare, 1, last - 1) \o <<v, ref_compare[last]>>
    /\ UNCHANGED <<is_ref, output_num_select, counters, ref_compare_hash, known,
                   transaction_fee_amount, ui>>

(* getVarInt() fails, or the script is skipped. *)
ReadInputScript(v) ==
    /\ Take("input_script", v)
    /\ IF v = TooLong THEN Fail("INVALID_FORMAT") ELSE Goto("sequence")
    /\ UNCHANGED <<is_ref, output_num_select, counters, references,
                   transaction_fee_amount, ui>>

(* Mutation: the references of only the first input are compared. *)
FirstReferenceMatches ==
    /\ Len(ref_compare_hash) >= 2
    /\ SubSeq(ref_compare, 1, 2) = SubSeq(ref_compare_hash, 1, 2)

ReferencesMatch == ref_compare = ref_compare_hash

(* The last field of an input.  After the last input the references are    *)
(* compared with the input transactions.                                   *)
ReadSequence(v) ==
    /\ Take("sequence", v)
    /\ i' = i + 1
    /\ \/ v = Nonstandard /\ Fail("NON_STANDARD")
       \/ v = "final" /\ i' < num_inputs /\ Goto("ref_hash")
       \/ /\ v = "final" /\ i' = num_inputs
          /\ IF is_ref \/ ReferencesMatch THEN Goto("num_outputs")
             ELSE Fail("INVALID_REFERENCE")
    /\ UNCHANGED <<is_ref, output_num_select, num_inputs, num_outputs, references,
                   transaction_fee_amount, ui>>

ReadNumOutputs(v) ==
    /\ Take("num_outputs", v)
    /\ num_outputs' = v
    /\ i' = 0
    /\ \/ v \in {0, TooLarge} /\ Fail("INVALID_FORMAT")
       \/ v \notin {0, TooLarge} /\ BadCount(v, MAX_OUTPUTS) /\ Fail("TOO_MANY_OUTPUTS")
       \/ ~BadCount(v, MAX_OUTPUTS) /\ is_ref /\ output_num_select >= v /\ Fail("INVALID_REFERENCE")
       \/ ~BadCount(v, MAX_OUTPUTS) /\ ~(is_ref /\ output_num_select >= v) /\ Goto("amount")
    /\ UNCHANGED <<is_ref, output_num_select, num_inputs, references,
                   transaction_fee_amount, ui>>

(* The amount of the output that is spent is added to the fee, the amounts *)
(* of the spending transaction are subtracted.                             *)
ReadAmount(v) ==
    /\ Take("amount", v)
    /\ \/ v > max_money /\ Fail("INVALID_AMOUNT") /\ UNCHANGED transaction_fee_amount
       \/ /\ v <= max_money /\ is_ref /\ i # output_num_select
          /\ Goto("output_script") /\ UNCHANGED transaction_fee_amount
       \/ /\ v <= max_money /\ is_ref /\ i = output_num_select
          /\ transaction_fee_amount' = (transaction_fee_amount + v) % AmountLimit
          /\ IF transaction_fee_amount + v >= AmountLimit THEN Fail("INVALID_AMOUNT")
             ELSE Goto("output_script")
       \/ /\ v <= max_money /\ ~is_ref
          /\ transaction_fee_amount' = (transaction_fee_amount + AmountLimit - v) % AmountLimit
          /\ IF transaction_fee_amount < v THEN Fail("INVALID_AMOUNT")
             ELSE Goto("output_script")
    /\ UNCHANGED <<is_ref, output_num_select, counters, references, ui>>

(* newOutputSeen(): the amount that was read last goes with the address. *)
newOutputSeen(address) ==
    list' = Append(list, [amount |-> sig_hash[Len(sig_hash)].v, address |-> address])

(* Mutation: the size of the list is not checked. *)
ListNeverFull == FALSE

ListFull == Len(list) >= LIST_SIZE

(* The last field of an output.  Scripts of input transactions are         *)
(* skipped; those of the spending transaction must match a template.       *)
ReadOutputScript(v) ==
    /\ Take("output_script", v)
    /\ i' = i + 1
    /\ \/ v = TooLong /\ Fail("INVALID_FORMAT") /\ UNCHANGED list
       \/ ~is_ref /\ v = Nonstandard /\ Fail("NON_STANDARD") /\ UNCHANGED list
       \/ ~is_ref /\ v \in Addresses /\ ListFull /\ Fail("TOO_MANY_OUTPUTS") /\ UNCHANGED list
       \/ /\ v # TooLong
          /\ is_ref \/ (v \in Addresses /\ ~ListFull)
          /\ IF is_ref THEN UNCHANGED list ELSE newOutputSeen(v)
          /\ Goto(IF i' < num_outputs THEN "amount" ELSE "locktime")
    /\ UNCHANGED <<is_ref, output_num_select, num_inputs, num_outputs, references,
                   transaction_fee_amount, transaction_fee>>

(* The end of an input transaction: its hash joins the references, and the *)
(* next transaction begins.                                                *)
ReadLocktime(v) ==
    /\ ReadMarker("locktime", v, IF is_ref THEN "begin" ELSE "hashtype")
    /\ IF pc' = "begin"
       THEN /\ ref_compare' = Append(ref_compare, sig_hash')
            /\ known' = known \cup {sig_hash'}
            /\ UNCHANGED ref_compare_hash
       ELSE UNCHANGED references
    /\ UNCHANGED <<is_ref, output_num_select, counters, transaction_fee_amount, ui>>

(* The end of the spending transaction: nothing may follow it. *)
ReadHashtype(v) ==
    /\ Take("hashtype", v)
    /\ \/ v = Nonstandard /\ Fail("NON_STANDARD") /\ UNCHANGED transaction_fee
       \/ /\ v = "standard" /\ ~isEndOfTransactionData'
          /\ Fail("INVALID_FORMAT") /\ UNCHANGED transaction_fee
       \/ /\ v = "standard" /\ isEndOfTransactionData'
          /\ transaction_fee' = IF transaction_fee_amount # 0 THEN transaction_fee_amount
                                ELSE transaction_fee
          /\ Goto("rest")
    /\ UNCHANGED <<is_ref, output_num_select, counters, references,
                   transaction_fee_amount, list>>

(* "Always try to consume the entire stream.": one byte, or the end. *)
ConsumeRest ==
    /\ pc = "rest"
    /\ IF isEndOfTransactionData THEN pc' = "done" /\ UNCHANGED transaction_data_index
       ELSE transaction_data_index' = transaction_data_index + 1 /\ UNCHANGED pc
    /\ UNCHANGED <<transaction_length, result, is_ref, output_num_select, counters, hashes,
                   references, transaction_fee_amount, ui>>

Init ==
    /\ pc = "idle"
    /\ transaction_length = 0 /\ transaction_data_index = 0
    /\ result = "NO_ERROR"
    /\ is_ref = FALSE
    /\ output_num_select = 0
    /\ num_inputs = 0 /\ num_outputs = 0 /\ i = 0
    /\ sig_hash = <<>> /\ transaction_hash = <<>>
    /\ ref_compare = <<>> /\ ref_compare_hash = <<>>
    /\ transaction_fee_amount = 0
    /\ known = {}
    /\ list = <<>> /\ transaction_fee = 0

(* The values that the host may give to a field. *)
Markers == {"standard", Nonstandard}
RefHashes == (IF is_ref THEN {} ELSE known) \cup {<<>>}
RefNums == IF is_ref THEN {0} ELSE OutputNumbers
OutputScripts == {Nonstandard, TooLong} \cup (IF is_ref THEN {} ELSE Addresses)

Step ==
    \/ BeginTransaction
    \/ \E v \in BOOLEAN : ReadIsRef(v)
    \/ \E v \in OutputNumbers : ReadOutputNum(v)
    \/ \E v \in Markers : ReadVersion(v) \/ ReadLocktime(v) \/ ReadHashtype(v)
    \/ \E v \in Counts(MAX_INPUTS) : ReadNumInputs(v)
    \/ \E v \in RefHashes : ReadRefHash(v)
    \/ \E v \in RefNums : ReadRefNum(v)
    \/ \E v \in Scripts \cup {TooLong} : ReadInputScript(v)
    \/ \E v \in {"final", Nonstandard} : ReadSequence(v)
    \/ \E v \in Counts(MAX_OUTPUTS) : ReadNumOutputs(v)
    \/ \E v \in 0 .. max_money + 1 : ReadAmount(v)
    \/ \E v \in OutputScripts : ReadOutputScript(v)
    \/ Truncated
    \/ ConsumeRest
Next == parseTransaction \/ Step

Spec == Init /\ [][Next]_vars

(* parseTransaction() is a function that runs: it goes on while it can.    *)
FairSpec == Spec /\ WF_vars(Step)

-----------------------------------------------------------------------------
(* The reference: what the hashed data says, read back without the parser. *)
Values(h, field) ==
    LET values[n \in 0 .. Len(h)] ==
            IF n = 0 THEN <<>>
            ELSE IF h[n].field = field THEN Append(values[n - 1], h[n].v)
            ELSE values[n - 1]
    IN  values[Len(h)]
Total(amounts) ==
    LET total[n \in 0 .. Len(amounts)] == IF n = 0 THEN 0 ELSE total[n - 1] + amounts[n]
    IN  total[Len(amounts)]
Outputs(h) ==
    [n \in 1 .. Len(Values(h, "amount")) |->
        [amount |-> Values(h, "amount")[n], address |-> Values(h, "output_script")[n]]]
Spent(h) ==
    [n \in 1 .. Len(Values(h, "ref_hash")) |->
        Outputs(Values(h, "ref_hash")[n])[Values(h, "ref_num")[n] + 1].amount]

(* The number of bytes of what was hashed, and of input transactions, each *)
(* with its header.                                                        *)
Size(h) == Total([n \in 1 .. Len(h) |-> h[n].size])
FieldSize(field) == CHOOSE n \in Sizes[field] : TRUE
HeaderSize == FieldSize("is_ref") + FieldSize("output_num")
SizeSent(txs) == Total([n \in 1 .. Len(txs) |-> HeaderSize + Size(txs[n])])

Accepted == pc = "done" /\ result = "NO_ERROR"

(* The state that transaction.c and the user interface keep is well-typed, *)
(* and never more than the announced data is read.                         *)
TypeOK ==
    /\ transaction_length \in Lengths \cup {0}
    /\ transaction_data_index \in 0 .. transaction_length
    /\ result \in {"NO_ERROR", "TOO_LARGE", "INVALID_FORMAT", "NON_STANDARD", "TOO_MANY_INPUTS",
                   "TOO_MANY_OUTPUTS", "INVALID_REFERENCE", "INVALID_AMOUNT"}
    /\ is_ref \in BOOLEAN
    /\ pc \in {"amount", "output_script"} => i < num_outputs /\ num_outputs <= MAX_OUTPUTS
    /\ pc \in {"ref_hash", "ref_num", "input_script", "sequence"} =>
        i < num_inputs /\ num_inputs <= MAX_INPUTS
    /\ transaction_fee_amount \in 0 .. AmountLimit - 1
    /\ Len(list) <= LIST_SIZE
    /\ transaction_fee \in 0 .. AmountLimit - 1

(* "exactly length bytes will be read from the stream, even if the         *)
(* transaction was not parsed correctly": otherwise the rest would be      *)
(* taken for the header of the next packet.  Of an accepted transaction    *)
(* every byte is accounted for: it is in the signature hash, in the hash   *)
(* of an input transaction that an input refers to, or in a header.        *)
AllRead ==
    /\ pc = "done" => transaction_data_index = transaction_length
    /\ Accepted =>
        transaction_length = SizeSent(Values(sig_hash, "ref_hash")) + FieldSize("is_ref") + Size(sig_hash)

(* Every input of an accepted transaction refers to the input transaction  *)
(* sent for it, by the hash of its contents, and to an output it has.      *)
InputsAreKnown ==
    Accepted =>
        \A n \in 1 .. Len(Values(sig_hash, "ref_hash")) :
            /\ Values(sig_hash, "ref_hash")[n] \in known
            /\ Values(sig_hash, "ref_num")[n] < Len(Outputs(Values(sig_hash, "ref_hash")[n]))

(* The user sees all there is to see: the outputs and the fee shown are    *)
(* those of the transaction, with the fee as the amounts spent minus the   *)
(* amounts sent.  All of it can be derived from the transaction hash alone, *)
(* so whatever has the hash the user approved (prev_transaction_hash of    *)
(* stream_comm.c) pays the same amounts to the same addresses.             *)
ShownIsHashed ==
    Accepted =>
        /\ list = Outputs(transaction_hash)
        /\ Total(Spent(transaction_hash)) = transaction_fee + Total(Values(transaction_hash, "amount"))

(* parseTransaction() returns. *)
Returns == pc = "begin" ~> pc = "done"

=============================================================================
