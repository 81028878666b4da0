------------------------------- MODULE MCAgent -------------------------------
(***************************************************************************)
(* Instances of Agent and Statements for TLC.  Four kinds of behaviours,   *)
(* each with its own bounds: callers on the pools while the databases      *)
(* change, the sampler next to a command and a shutdown, identities over a *)
(* restart, and scrapes of pg_stat_statements, which only share the        *)
(* process with the rest.                                                  *)
(***************************************************************************)
EXTENDS Agent, Statements

MCRankings == {<<"a", "b", "x">>, <<"b", "c", "a">>, <<"c">>}
MCBatches == {<<>>, <<"k2", "k1", "k3">>, <<"k1">>}

MCNoIdentity == [file |-> NoRead, stores |-> [t \in Targets |-> NoRead], next |-> 1,
                 told |-> [t \in Targets |-> 0], toldAgent |-> 0, known |-> {}]
\* A file from before an upgrade, whose ids were reported then.
MCOldIdentity ==
    LET old == [agent |-> 1, ids |-> [f \in Targets \cup {Legacy} |-> IF f = Legacy THEN 2 ELSE 0]]
    IN  [MCNoIdentity EXCEPT !.file = old, !.next = 3, !.toldAgent = 1, !.told[Target] = 2]

MCServer(view, denied) == [ranked |-> <<"a", "b", "x">>, view |-> view, denied |-> denied]
MCBudget(calls, changes, faults, ticks, restarts) ==
    [calls |-> calls, changes |-> changes, faults |-> faults, ticks |-> ticks, restarts |-> restarts]

MCStart(view, denied, bounds, identity) ==
    [server |-> MCServer(view, denied), budget |-> bounds, ident |-> identity]

MCPools == {MCStart("b", "never", MCBudget(3, 1, 0, 0, 0), MCNoIdentity),
            MCStart("a", "never", MCBudget(3, 0, 1, 0, 0), MCNoIdentity)}
MCSampler == {MCStart("a", "never", MCBudget(2, 0, 1, 1, 0), MCNoIdentity),
              MCStart("a", "never", MCBudget(1, 0, 1, 2, 0), MCNoIdentity)}
MCIdentities == {MCStart("a", "yes", MCBudget(2, 1, 0, 0, 1), MCOldIdentity),
                 MCStart("a", "never", MCBudget(2, 0, 1, 0, 1), MCOldIdentity),
                 MCStart("a", "never", MCBudget(2, 0, 1, 0, 1), MCNoIdentity)}
MCScrapes == MCStart("a", "never", MCBudget(0, 0, 0, 0, 0), MCNoIdentity)
MCStarts == MCPools \cup MCSampler \cup MCIdentities \cup {MCScrapes}

MCWorkload(view) == [q \in {v[1] : v \in view} |->
    LET v == CHOOSE x \in view : x[1] = q IN [primary |-> v[2], secondary |-> v[3], text |-> v[4]]]
MCViews == [i \in 1..4 |-> MCWorkload(
    CASE i = 1 -> {}
      [] i = 2 -> {<<1, 9, 1, "x">>, <<2, 5, 9, "x">>, <<3, 7, 4, "x">>}
      [] i = 3 -> {<<1, 6, 3, "x">>, <<2, 5, 2, "y">>, <<3, 8, 9, "x">>, <<4, 1, 1, "none">>}
      [] i = 4 -> {<<4, 9, 8, "none">>, <<1, 6, 5, "x">>})]

MCScope(instance, cluster) == [instance |-> instance, cluster |-> cluster, database |-> "app"]
MCScopes == {MCScope(1, 1), MCScope(2, 1), MCScope(3, 2)}

MCNone == [scrapes |-> 0, losses |-> 0, time |-> 1, scopes |-> {}, views |-> {}]
MCBounds == {MCNone,
    [scrapes |-> 4, losses |-> 0, time |-> 1, scopes |-> {MCScope(1, 1), MCScope(2, 1)}, views |-> {MCViews[i] : i \in 1..4}],
    [scrapes |-> 3, losses |-> 1, time |-> 4, scopes |-> MCScopes, views |-> {MCViews[2], MCViews[3]}]}

MCInit == Init /\ InitStatements /\ (budget = MCScrapes.budget <=> left # MCNone)
MCNext ==
    \/ Next /\ UNCHANGED statements
    \/ NextStatements /\ UNCHANGED vars
MCSpec == MCInit /\ [][MCNext]_<<vars, statements>> /\ Fairness
=============================================================================
