---------------------------- MODULE MCCommands ----------------------------
(* An instance of Commands for TLC. *)
EXTENDS Commands, TLC

MCRequests == {[kind |-> "explain", args |-> {"queryid", "analyze"}],
               [kind |-> "cancel", args |-> {"pid", "backend_start"}],
               [kind |-> "pgstattuple", args |-> {"schema", "relation"}]}

\* All gates open, and a grant taken back.
MCGates == {{"tier1", "tier2", "analyze", "signal"}, {"tier1"}}
===========================================================================
