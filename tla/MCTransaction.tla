--------------------------- MODULE MCTransaction ---------------------------
(* Transaction on small amounts, with data of the lengths of one or two    *)
(* input transactions and a spending transaction, and other lengths.       *)
EXTENDS Transaction

(* A field that is read whole and one that is read in pieces can end early. *)
FieldSizes == [field \in Fields |->
    IF field \in {"ref_hash", "output_script"} THEN {2} ELSE {1}]
=============================================================================
