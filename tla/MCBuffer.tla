------------------------------ MODULE MCBuffer ------------------------------
(***************************************************************************)
(* Instances of Buffer for TLC.                                            *)
(***************************************************************************)
EXTENDS Buffer

\* Record 3 takes two units, so that segments fill at different counts.
MCSize == [n \in 1..MaxRecs |-> IF n = 3 THEN 2 ELSE 1]
=============================================================================
