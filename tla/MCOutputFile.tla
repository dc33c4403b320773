---------------------------- MODULE MCOutputFile ----------------------------
(* A small instance of OutputFile for TLC: one file and one symlink that    *)
(* users may put where the output goes.                                    *)
EXTENDS OutputFile, TLC

MCForeign == [f \in {"notes", "link"} |-> IF f = "link" THEN "symlink" ELSE "file"]

\* the forced run is alone
Symmetric == Permutations(Runs \ Forced)
=============================================================================
