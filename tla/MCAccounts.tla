----------------------------- MODULE MCAccounts -----------------------------
(* Small instances of Accounts for TLC. *)
EXTENDS Accounts

CONSTANTS r1, r2, d1, d2
=============================================================================
