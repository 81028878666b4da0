------------------------------ MODULE MCIngest ------------------------------
(***************************************************************************)
(* The ingest path on a pair of instances of one cluster: a is the primary *)
(* and b its standby.                                                      *)
(***************************************************************************)
EXTENDS Ingest, TLC

SlotSymmetry == Permutations(Slots)

MCOrder == <<"a", "b">>

\* A plain report; the shapes below change what they are about.
Plain(role, edges) ==
    [cluster |-> "c1", source |-> "system_identifier", owner |-> TRUE, role |-> role,
     edges |-> edges, dbs |-> {"app"}, kind |-> "known", outcome |-> "ok",
     cut |-> "complete", marker |-> TRUE, reset |-> FALSE]

Primary == Plain("primary", "none")
Orphan == Plain("standby", "low")

\* A pair whose standby has lost its upstream and whose check is cut off.
Pair == [a |-> Primary, b |-> [Orphan EXCEPT !.cut = "truncated"]]

\* The failover that follows, with a counter that was reset.
Promoted == [b |-> [Primary EXCEPT !.reset = TRUE]]

\* Two primaries at once.
Split == [a |-> Primary, b |-> Primary]

Moved == [Primary EXCEPT !.cluster = "c2", !.source = "manual", !.owner = FALSE]

\* An instance nobody owns, beside a sample of unknown kind.
Refusals == [a |-> Moved, b |-> [Orphan EXCEPT !.kind = "unknown"]]

\* The primary under another cluster's name, and the upstream found again by
\* an agent that lost its privileges.
Found == [a |-> Moved,
          b |-> [Plain("standby", "high") EXCEPT !.source = "manual", !.outcome = "skip",
                                                 !.dbs = {}, !.marker = FALSE]]

MCShapes == <<{Pair, Refusals}, {Pair, Promoted}, {Split, Found}>>
=============================================================================
