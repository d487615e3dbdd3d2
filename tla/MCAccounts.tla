----------------------------- MODULE MCAccounts -----------------------------
(* Accounts for a few users who may share their devices. *)
EXTENDS Accounts, TLC

Interchangeable == Permutations(Nicks) \cup Permutations(Devices)
=============================================================================
