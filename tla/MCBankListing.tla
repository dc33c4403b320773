--------------------------- MODULE MCBankListing ---------------------------
(* A small instance of BankListing for TLC.                                *)
EXTENDS BankListing

MCImages == {[size |-> 2, meta |-> 1]}

MCCalls == [t \in Threads |-> 2]
=============================================================================
