----------------------------- MODULE MCAccounts -----------------------------
(* Accounts for TLC: the requests may be exchanged for one another.         *)
EXTENDS Accounts, TLC

Exchangeable == Permutations(Requests)
=============================================================================
