------------------------------ MODULE MCWallet ------------------------------
(***************************************************************************)
(* Wallet on a small storage.  UUIDs, passwords and good seeds are         *)
(* interchangeable.  States that differ only in what nothing can read any  *)
(* more (the address and the key of a wallet that is not loaded, the       *)
(* result of a call that promised nothing) are visited once.  What an      *)
(* invariant reads is always kept apart: the cached parent key, and the    *)
(* wallet in RAM right after a call that promised something.               *)
(***************************************************************************)
EXTENDS Wallet, TLC

Interchangeable ==
    Permutations(UUIDs) \cup Permutations(Passwords) \cup Permutations(Seeds \ DegenerateSeeds)

Promised ==
    IF /\ last.result = "WALLET_NO_ERROR"
       /\ last.op \in {"newWallet", "makeNewAddress", "changeEncryptionKey",
                       "changeWalletName", "deleteWallet", "format"}
    THEN <<last.op, last.slot>> ELSE <<>>

Readable ==
    <<nv, flash, wallet_loaded, parent_key_cache,
      IF wallet_loaded \/ Promised # <<>> THEN <<ram, diverged>> ELSE <<>>,
      Promised, issued, faults>>
=============================================================================
