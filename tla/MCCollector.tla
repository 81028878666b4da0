----------------------------- MODULE MCCollector -----------------------------
(* An instance of Collector for TLC: a check every role runs, and one only a  *)
(* standby runs.                                                            *)
EXTENDS Collector, TLC

MCChecks == {"base", "receiver"}
MCRequires == [c \in MCChecks |-> IF c = "base" THEN Roles \cup {"unknown"} ELSE {"standby"}]
=============================================================================
