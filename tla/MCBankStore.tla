---------------------------- MODULE MCBankStore ----------------------------
(* Small instances of BankStore for TLC.                                   *)
EXTENDS BankStore

CONSTANT Once   \* the threads that make one call

\* Of the larger, its bytes, their whole pages, a preload's extent and its
\* metadata all differ; a source may hold the other when it is read again.
MCImages == {[size |-> 2, meta |-> 1], [size |-> 3, meta |-> 1]}

\* what calls do to each other does not depend on sizes
MCOneImage == {[size |-> 3, meta |-> 1]}

\* the other threads make two
MCCalls == [t \in Threads |-> IF t \in Once THEN 1 ELSE 2]

Symmetric == Permutations(Once) \cup Permutations(Threads \ Once)
               \cup Permutations(Labels) \cup Permutations(Banks)
=============================================================================
