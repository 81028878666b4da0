----------------------------- MODULE Executors -----------------------------
(***************************************************************************)
(* The agent's three kinds of command executor (exec_explain.go with        *)
(* explain_guard.go, exec_pgstattuple.go, exec_signal.go) against one       *)
(* monitored database: the round trips each one makes, in their order, with *)
(* a failure or a refusal possible at each, and with what other users of    *)
(* the database may do in between.                                          *)
(*                                                                          *)
(* What a statement and its database hold is met at the step that reads it, *)
(* by the trait the step looks for.                                         *)
(***************************************************************************)
EXTENDS Integers, Sequences

Traits == {"plain", "unknown", "uninstalled", "several", "credential", "utility", "write",
           "parameters", "parameters_old", "plannable_function", "remote_estimate",
           "call", "hidden_call", "unplannable", "plan_node", "plan_call", "plan_credential"}
Privileges == {"plain", "signal", "signal_only", "superuser"}

VARIABLES
    job,      \* the command under way: its arguments, its next step, its world
    session,  \* the connection it uses
    pooled,   \* the session last returned to the pool
    backend,  \* the session behind the PID the operator saw
    name,     \* the object behind the relation's name: 1 is a table, 2 an index
    acted     \* what the last signal or scan really hit

execVars == <<job, session, pooled, backend, name, acted>>

NoJob == [kind |-> "none", analyze |-> FALSE, seen |-> 0, step |-> "none",
          checked |-> 0, outcome |-> "none"]
Closed == [open |-> FALSE, tx |-> FALSE, role |-> "own", residue |-> FALSE]
Fresh == [Closed EXCEPT !.open = TRUE]
NoAct == [on |-> "none", right |-> TRUE]

ExecInit ==
    /\ job = NoJob /\ session = Closed /\ pooled = Closed
    /\ backend = [start |-> 1, own |-> FALSE] /\ name = 1 /\ acted = NoAct

-----------------------------------------------------------------------------
(* The end of every executor: its deferred calls *)

\* ROLLBACK ends the transaction and the SET LOCAL role, unless the context is
\* already over; the pool destroys a connection that comes back in one.
RolledBack(s, inTime) == IF inTime THEN [s EXCEPT !.tx = FALSE, !.role = "own"] ELSE s
Released(s) == IF s.tx THEN Closed ELSE s

\* Mutant: the session of an EXPLAIN goes back to the pool.
CloseExplainReleased(s) == Released(s)

\* An EXPLAIN's session ends with the command, whatever is left in it.
CloseExplain(s) == Closed

Finish(outcome, inTime) ==
    /\ job' = [job EXCEPT !.step = "done", !.outcome = outcome]
    /\ session' = Closed
    /\ pooled' = LET s == RolledBack(session, inTime)
                 IN  IF ~session.open THEN pooled
                     ELSE IF job.kind = "explain" THEN CloseExplain(s) ELSE Released(s)
    /\ UNCHANGED <<backend, name>>

Fails == \E inTime \in BOOLEAN : Finish("error", inTime) /\ UNCHANGED acted
Rejects == Finish("rejected", TRUE) /\ UNCHANGED acted

Advance(to, s) ==
    /\ job' = [job EXCEPT !.step = to] /\ session' = s
    /\ UNCHANGED <<pooled, backend, name, acted>>

At(kind, step) == job.kind = kind /\ job.step = step

\* A step refuses on its condition, or fails, or goes on.
Step(refused, to, s) ==
    \/ refused /\ Rejects
    \/ Fails
    \/ ~refused /\ Advance(to, s)

-----------------------------------------------------------------------------
(* explain *)

\* The text of the statement, and what can be told from it.
lookupStatement ==
    /\ At("explain", "connected")
    /\ \E trait \in Traits :
         LET refused == \/ trait \in {"unknown", "uninstalled", "several", "credential", "utility"}
                        \/ job.analyze /\ trait \in {"write", "parameters"}
                        \/ ~job.analyze /\ trait = "parameters_old"
         IN  Step(refused, "begin", session)

ExplainBegin ==
    /\ At("explain", "begin")
    /\ Step(FALSE, "guard", [session EXCEPT !.tx = TRUE])

\* No function the planner may run, no foreign table it would ask about.
guardPlanning ==
    /\ At("explain", "guard")
    /\ \E trait \in Traits :
         Step(trait \in {"plannable_function", "remote_estimate"}, "drop", session)

dropExplainPrivileges ==
    /\ At("explain", "drop")
    /\ \E priv \in Privileges :
         LET refused == (job.analyze /\ priv = "superuser") \/ priv = "signal_only"
             dropped == [session EXCEPT !.role = IF priv = "plain" THEN "own" ELSE "read_all_data"]
         IN  Step(refused, IF job.analyze THEN "analyze" ELSE "plan", dropped)

\* The statement's own calls, the hidden calls of the database, the plan.
guardAnalyze ==
    /\ At("explain", "analyze")
    /\ \E trait \in Traits :
         Step(trait \in {"call", "hidden_call", "unplannable", "plan_node", "plan_call"}, "plan",
              [session EXCEPT !.residue = TRUE])

\* What runs or is planned may leave something in the session.
ExplainRun ==
    /\ At("explain", "plan")
    /\ \E trait \in Traits :
         Step(trait = "plan_credential" \/ (~job.analyze /\ trait \in {"write", "unplannable"}),
              "answer", [session EXCEPT !.residue = TRUE])

Answer ==
    /\ job.kind \in {"explain", "pgstattuple"} /\ job.step = "answer"
    /\ Finish("ok", TRUE) /\ UNCHANGED acted

-----------------------------------------------------------------------------
(* pgstattuple *)

TupleBegin ==
    /\ At("pgstattuple", "connected")
    /\ Step(FALSE, "extension", [session EXCEPT !.tx = TRUE])

TupleExtension ==
    /\ At("pgstattuple", "extension")
    /\ \E trait \in {"plain", "uninstalled"} : Step(trait = "uninstalled", "resolve", session)

\* The name is resolved once, and its kind is checked.
TupleResolve ==
    /\ At("pgstattuple", "resolve")
    /\ \/ Fails
       \/ name # 1 /\ Rejects
       \/ /\ name = 1
          /\ job' = [job EXCEPT !.step = "scan", !.checked = name]
          /\ UNCHANGED <<session, pooled, backend, name, acted>>

\* The scan is given the object the check read, whatever the name is now.
TupleScan ==
    /\ At("pgstattuple", "scan")
    /\ \/ Fails
       \/ /\ job' = [job EXCEPT !.step = "answer"]
          /\ acted' = [on |-> "relation", right |-> job.checked = 1]
          /\ UNCHANGED <<session, pooled, backend, name>>

-----------------------------------------------------------------------------
(* cancel and terminate *)

\* The backend is read: its type, its role and name, its start time.
SignalCheck ==
    LET refused == \/ backend.own
                   \/ job.seen # 0 /\ backend.start # job.seen
    IN  /\ At("signal", "connected")
        /\ \/ refused /\ Rejects
           \/ Fails
           \/ /\ ~refused
              /\ job' = [job EXCEPT !.step = "signal", !.checked = backend.start]
              /\ UNCHANGED <<session, pooled, backend, name, acted>>

\* Mutant: the statement trusts the check.
StillTheSameTrusted == TRUE
\* The statement repeats the guards on the session the check read.
StillTheSame == backend.start = job.checked /\ ~backend.own

signalVerifiedBackend ==
    /\ At("signal", "signal")
    /\ \/ Fails
       \/ ~StillTheSame /\ Rejects
       \/ /\ StillTheSame /\ Finish("ok", TRUE)
          /\ acted' = [on |-> "backend",
                       right |-> ~backend.own /\ (job.seen = 0 \/ backend.start = job.seen)
                                 /\ backend.start = job.checked]

-----------------------------------------------------------------------------
(* One command *)

\* seen: the start time the operator names, 0 for none.
BeginExec(kind, analyze, seen) ==
    /\ job.step = "none"
    /\ job' = [NoJob EXCEPT !.kind = kind, !.analyze = analyze, !.seen = seen, !.step = "connect"]
    /\ backend' = [start |-> 1, own |-> FALSE] /\ name' = 1 /\ acted' = NoAct
    /\ UNCHANGED <<session, pooled>>

\* The pool hands out a new session, or the one returned to it.
Connect ==
    /\ job.step = "connect"
    /\ \/ Fails
       \/ Advance("connected", IF pooled.open THEN pooled ELSE Fresh)

ExecStep ==
    \/ Connect \/ lookupStatement \/ ExplainBegin \/ guardPlanning \/ dropExplainPrivileges
    \/ guardAnalyze \/ ExplainRun \/ Answer
    \/ TupleBegin \/ TupleExtension \/ TupleResolve \/ TupleScan
    \/ SignalCheck \/ signalVerifiedBackend

\* Between any two round trips the PID may pass to another session, one of
\* pglens's own among them, and the name to another relation.
Others ==
    /\ job.step \in {"connected", "signal", "resolve", "scan"}
    /\ \/ job.kind = "signal" /\ backend.start = 1 /\ \E own \in BOOLEAN : backend' = [start |-> 2, own |-> own] /\ UNCHANGED name
       \/ job.kind = "pgstattuple" /\ name = 1 /\ name' = 2 /\ UNCHANGED backend
    /\ UNCHANGED <<job, session, pooled, acted>>

EndExec ==
    /\ job.step = "done" /\ job' = NoJob
    /\ backend' = [start |-> 1, own |-> FALSE] /\ name' = 1 /\ acted' = NoAct
    /\ UNCHANGED <<session, pooled>>

-----------------------------------------------------------------------------
(* A session in the pool is as it was when it was opened: no transaction,   *)
(* no changed role, and nothing a user's statement left behind, whichever   *)
(* step failed and whether or not the ROLLBACK was still sent.              *)
PoolClean == pooled \in {Closed, Fresh}

(* A signal reaches the session that was checked, which is not one of       *)
(* pglens's own and is the one the operator saw if they named it; a scan    *)
(* reads the ordinary table that was checked.  Each check and each act are  *)
(* separate round trips, with reuse of the PID or of the name in between.   *)
ActsOnWhatWasChecked == acted.right
=============================================================================
