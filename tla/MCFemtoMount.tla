---------------------------- MODULE MCFemtoMount ----------------------------
(* A small instance of FemtoMount for TLC: two nodes that share one blob,   *)
(* so that two pagers fault the same clean page.                            *)
EXTENDS FemtoMount, TLC

MCNodes == {"a", "b"}
MCBlob == [n \in MCNodes |-> "x"]
MCKind == [b \in {"x"} |-> [pg \in Pages |-> "spill"]]

\* one mount, and one ADD, DISCARD or kldunload by each thread that has none
MCMaxOps == [t \in Threads |-> 1]

Symmetric == Permutations(Procs) \cup Permutations(Vnodes)
=============================================================================
