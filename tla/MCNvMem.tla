------------------------------ MODULE MCNvMem ------------------------------
(* NvMem on two two-byte sectors, with the partition border inside one. *)
EXTENDS NvMem
=============================================================================
