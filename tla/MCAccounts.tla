------------------------------ MODULE MCAccounts ------------------------------
(* Accounts on small instances: the bounds are in the .cfg files. *)
EXTENDS Accounts

CONSTANTS ann, ben

TwoAddresses == {ann, ben}
================================================================================
