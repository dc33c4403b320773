--------------------------- MODULE MCOutputDevice ---------------------------
(* Images for TLC: the one before, a shorter one, and one as long as the    *)
(* first whose metadata fills a second page.                               *)
EXTENDS OutputDevice

MCSize == [k \in 0..Runs |-> IF k = 1 THEN 2 ELSE 3]
MCMeta == [k \in 0..Runs |-> IF k = 2 THEN 2 ELSE 1]
=============================================================================
