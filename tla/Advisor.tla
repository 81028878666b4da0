------------------------------- MODULE Advisor -------------------------------
(***************************************************************************)
(* The advisor engine of the server (internal/advisor/engine.go), its      *)
(* findings table (store.go) and the mute calls of the API                 *)
(* (internal/server/api_findings.go).                                      *)
(*                                                                         *)
(* Every replica of the server runs a pass per period; the one that holds  *)
(* the advisory lock evaluates the rules on a snapshot of each active      *)
(* instance.  What the agents report is a story, chosen once: per period   *)
(* and instance, the role and the results of the envelope, sent or not.    *)
(* The tables the ingest pipeline fills are a function of the story.       *)
(***************************************************************************)
EXTENDS Snapshot

CONSTANTS
    Replicas, Instances,    \* server replicas; the instances of one cluster
    Story,                  \* name -> [Periods -> [Instances -> [role, results]]]
    Focus,                  \* name -> the rules that may panic, fail to be stored or be muted
    LastPeriod,             \* the last period, which repeats
    activeWindow, unseenInstanceGrace, purgeAge,
    MaxFaults, LastFault, MaxMutes

None == "none"
Periods == 1..LastPeriod

VARIABLES story, now, findings, holder, proc, due, faults, mutes
vars == <<story, now, findings, holder, proc, due, faults, mutes>>

-----------------------------------------------------------------------------
\* The tables at the end of a period, and what a pass makes of them.

Database(st) ==
    LET db[n \in 0..LastPeriod] ==
          LET earlier == db[n - 1]
              Before(i) == IF n = 1 THEN NewInstance ELSE earlier[n - 1][i]
          IN  IF n = 0 THEN <<>>
              ELSE Append(earlier, [i \in Instances |-> Stored(Before(i), st[n][i].role, st[n][i].results, n)])
    IN  db[LastPeriod]
Stories == DOMAIN Story
Databases == [st \in Stories |-> Database(Story[st])]
LastSeen(n, i) == Databases[story][n][i].lastSeen

missingSnapshotInput(s, need) ==
    \/ need \in s.skipped
    \/ need = "host" /\ s.host = 0
    \/ need = "monitoring_role" /\ Facts(s, "monitoring_role") = {}
    \/ /\ need \in {"pg_max_xact_age_seconds", "pg_max_idle_in_transaction_seconds",
                    "pg_oldest_prepared_xact_seconds", "pg_xact_rollback_ratio", "pg_max_datfrozenxid_age",
                    "pg_vacuum_jobs_running", "pg_connections_used_ratio", "pg_checkpoints_requested_ratio",
                    "pg_connections_idle_share", "pg_connections_used"}
       /\ \A m \in s.metrics : m.name # need

\* A rule that panics or lacks an input answers for the whole instance.
evaluateRule(r, s, panicked) ==
    IF r.id \in panicked \/ \E need \in r.needs : missingSnapshotInput(s, need)
    THEN degradedConfig(r.id) ELSE r.out

\* Mutant: a rule that could not evaluate counts as one that ran.
degradedAsWholeForgotten(out) == FALSE

degradedAsWhole(out) == \E f \in out : f.state = "degraded" /\ f.datname = "" /\ f.object = <<>>

ID(i, f) == <<i, f.rule, f.datname, f.object>>

\* The answer of a pass on one instance: its findings, and the rules that ran.
\* A rule that could not evaluate as a whole has not run.
Answer(db, i, t, panicked) ==
    LET s == LoadSnapshot(db, i, t)
        answers == {[id |-> r.id, out |-> evaluateRule(r, s, panicked)] : r \in All(s)}
        found == UNION {a.out : a \in answers}
    IN  [found |-> [id \in {ID(i, f) : f \in found} |-> (CHOOSE f \in found : ID(i, f) = id).state],
         ran |-> {a.id : a \in {x \in answers : ~degradedAsWhole(x.out) /\ x.id \notin panicked}}]

\* A pass of period t that loads the instance in t or, when it is slow, in t + 1.
After(t) == IF t < LastPeriod THEN t + 1 ELSE t
Answers ==
    [st \in Stories |-> [i \in Instances |-> [t \in Periods |-> [m \in t..After(t) |->
       [panicked \in {{}} \cup {{r} : r \in Focus[st]} |->
          Answer(Databases[st][m], i, t, panicked)]]]]]

-----------------------------------------------------------------------------
\* The findings table: id -> [state, until, resolved].

\* Mutant: the state of the rule replaces the one the mute set.
UpsertFindingUnmutes(until, state, t) == [state |-> state, until |-> until, resolved |-> NoTime]

UpsertFinding(until, state, t) ==
    [state |-> IF until > t THEN "muted" ELSE state, until |-> until, resolved |-> NoTime]

UpsertAll(rows, found, ids, t) ==
    [id \in DOMAIN rows \cup ids |->
       IF id \in ids
       THEN UpsertFinding(IF id \in DOMAIN rows THEN rows[id].until ELSE NoTime, found[id], t)
       ELSE rows[id]]

\* Mutant: a degraded finding is never closed.
CurrentEvaluated == {"open", "muted"}
Current == {"open", "degraded", "muted"}
ResolveRows(rows, ids, t) ==
    [id \in DOMAIN rows |->
       IF id \in ids /\ rows[id].state \in Current
       THEN [rows[id] EXCEPT !.state = "resolved", !.resolved = t] ELSE rows[id]]

ResolveAbsent(rows, i, a, t) ==
    ResolveRows(rows, {id \in DOMAIN rows : id[1] = i /\ id[2] \in a.ran /\ id \notin DOMAIN a.found}, t)

\* The findings of an instance nobody has heard of for the grace.
ResolveUnseen(rows, t) ==
    ResolveRows(rows, {id \in DOMAIN rows : LastSeen(now, id[1]) < t - unseenInstanceGrace}, t)

PurgeResolved(rows, t) ==
    LET kept == {id \in DOMAIN rows : rows[id].state # "resolved" \/ rows[id].resolved >= t - purgeAge}
    IN  [id \in kept |-> rows[id]]

-----------------------------------------------------------------------------
\* A pass of a replica.

Idle(lock) == [pc |-> "idle", hasLock |-> lock, at |-> 0, todo |-> <<>>, loaded |-> 0, panicked |-> {}]

Init ==
    /\ story \in Stories
    /\ now = 1 /\ findings = <<>> /\ holder = None
    /\ proc = [p \in Replicas |-> Idle(FALSE)]
    /\ due = Replicas /\ faults = 0 /\ mutes = 0

MayFail == faults < MaxFaults /\ now <= LastFault
Fault == MayFail /\ faults' = faults + 1
\* Either the whole set of choices at the price of a fault, or the one that is none.
Either(fine, failures) ==
    {<<fine, 0>>} \cup (IF MayFail THEN {<<x, 1>> : x \in failures} ELSE {})

ActiveInstances(t) == {i \in Instances : LastSeen(now, i) # NoTime /\ LastSeen(now, i) >= t - activeWindow}

Next_(todo) == IF todo = <<>> THEN "close" ELSE "load"

\* The lock is kept while the session that took it answers.
ensureLeader(p) == IF holder = None THEN p ELSE holder

Begin(p) ==
    /\ p \in due /\ proc[p].pc = "idle"
    /\ holder' = ensureLeader(p)
    /\ LET todo == SetToSeq(ActiveInstances(now))
       IN  proc' = [proc EXCEPT ![p] =
             IF holder' # p THEN Idle(FALSE)
             ELSE [Idle(TRUE) EXCEPT !.pc = Next_(todo), !.at = now, !.todo = todo]]
    /\ due' = due \ {p}
    /\ UNCHANGED <<story, now, findings, faults, mutes>>

\* The lock session or the list of instances fails: the pass ends.
BeginFails(p) ==
    /\ p \in due /\ proc[p].pc = "idle" /\ Fault
    /\ holder' \in {holder, IF holder = p THEN None ELSE holder, ensureLeader(p)}
    /\ proc' = [proc EXCEPT ![p] = Idle(holder' = p)]
    /\ due' = due \ {p}
    /\ UNCHANGED <<story, now, findings, mutes>>

\* runInstance loads the snapshot and evaluates the rules; one may panic.
Load(p) ==
    /\ proc[p].pc = "load"
    /\ \E c \in Either({}, {{r} : r \in Focus[story]}) :
         /\ proc' = [proc EXCEPT ![p].pc = "persist", ![p].loaded = now, ![p].panicked = c[1]]
         /\ faults' = faults + c[2]
    /\ UNCHANGED <<story, now, findings, holder, due, mutes>>

Following(r) == [r EXCEPT !.pc = Next_(Tail(r.todo)), !.todo = Tail(r.todo), !.loaded = 0, !.panicked = {}]

\* A snapshot that cannot be loaded costs only its instance the pass.
LoadFails(p) ==
    /\ proc[p].pc = "load" /\ Fault
    /\ proc' = [proc EXCEPT ![p] = Following(@)]
    /\ UNCHANGED <<story, now, findings, holder, due, mutes>>

AnswerOf(p) == Answers[story][Head(proc[p].todo)][proc[p].at][proc[p].loaded][proc[p].panicked]

\* The upserts of the instance; those of a rule may fail, or their answer be lost.
Persist(p) ==
    /\ proc[p].pc = "persist"
    /\ \E c \in Either(None, Focus[story]) :
         /\ LET found == AnswerOf(p).found
            IN  findings' = UpsertAll(findings, found, {id \in DOMAIN found : id[2] # c[1]}, proc[p].at)
         /\ faults' = faults + c[2]
    /\ proc' = [proc EXCEPT ![p].pc = "resolve"]
    /\ UNCHANGED <<story, now, holder, due, mutes>>

\* What was found counts as seen whether or not it was stored.
Resolve(p) ==
    /\ proc[p].pc = "resolve"
    /\ \E c \in Either(TRUE, {FALSE}) :
         /\ findings' = IF c[1] THEN ResolveAbsent(findings, Head(proc[p].todo), AnswerOf(p), proc[p].at)
                        ELSE findings
         /\ faults' = faults + c[2]
    /\ proc' = [proc EXCEPT ![p] = Following(@)]
    /\ UNCHANGED <<story, now, holder, due, mutes>>

\* The end of Run: each of the two statements may fail alone.
Close(p) ==
    /\ proc[p].pc = "close"
    /\ \E c \in Either(<<TRUE, TRUE>>, {<<FALSE, TRUE>>, <<TRUE, FALSE>>}) :
         LET closed == IF c[1][1] THEN ResolveUnseen(findings, proc[p].at) ELSE findings
         IN  /\ findings' = IF c[1][2] THEN PurgeResolved(closed, proc[p].at) ELSE closed
             /\ faults' = faults + c[2]
    /\ proc' = [proc EXCEPT ![p] = Idle(TRUE)]
    /\ UNCHANGED <<story, now, holder, due, mutes>>

\* The database ends the session that holds the lock; the replica finds out
\* when it next pings it, at its next pass.
LoseSession ==
    /\ holder # None /\ Fault
    /\ holder' = None
    /\ UNCHANGED <<story, now, findings, proc, due, mutes>>

\* The replica stops, between two instances or by a crash, and starts again.
Restart(p) ==
    /\ proc[p].pc # "idle" \/ proc[p].hasLock
    /\ Fault
    /\ proc' = [proc EXCEPT ![p] = Idle(FALSE)]
    /\ holder' = IF holder = p THEN None ELSE holder
    /\ due' = due \ {p}
    /\ UNCHANGED <<story, now, findings, mutes>>

-----------------------------------------------------------------------------
\* The API, and time.

Mutable == {id \in DOMAIN findings : id[2] \in Focus[story]}

muteFinding ==
    /\ mutes < MaxMutes /\ mutes' = mutes + 1
    /\ \E id \in Mutable, until \in (now + 1)..LastPeriod :
         findings' = [findings EXCEPT ![id].state = "muted", ![id].until = until]
    /\ UNCHANGED <<story, now, holder, proc, due, faults>>

unmuteFinding ==
    /\ \E id \in Mutable :
         /\ findings[id].until # NoTime
         /\ findings' = [findings EXCEPT ![id].until = NoTime,
              ![id].state = IF findings[id].resolved = NoTime THEN "open" ELSE "resolved"]
    /\ UNCHANGED <<story, now, holder, proc, due, faults, mutes>>

\* The next period.  A slow pass may go on into it, and is a fault.
Period ==
    /\ due = {}
    /\ LET slow == {p \in Replicas : proc[p].pc # "idle"}
       IN  /\ slow # {} => MayFail /\ now < LastPeriod /\ \A p \in slow : proc[p].at = now
           /\ faults' = faults + IF slow = {} THEN 0 ELSE 1
    /\ now' = After(now)
    /\ due' = Replicas
    /\ UNCHANGED <<story, findings, holder, proc, mutes>>

Step(p) == Begin(p) \/ Load(p) \/ Persist(p) \/ Resolve(p) \/ Close(p)

Next ==
    \/ \E p \in Replicas : Step(p) \/ BeginFails(p) \/ LoadFails(p) \/ Restart(p)
    \/ LoseSession \/ muteFinding \/ unmuteFinding \/ Period

\* Tickers fire and passes end, as every step has a budget: again and again a
\* pass moves or is due.  Of the faults that move one there are MaxFaults.
Spec == Init /\ [][Next]_vars /\ []<><<due' # due \/ proc' # proc>>_vars

-----------------------------------------------------------------------------
\* Properties.

\* How long what a check reported counts for a rule: the shortest window the
\* rule reads an input over.  Settings and the definitions of indexes do not
\* age, and without its metric a rule that names it among its needs degrades.
CatalogRules ==
    {"trigger.constraint_disabled", "trigger.user_disabled", "index.fk_unindexed",
     "extension.upgrade_available", "postgis.upgrade_available", "postgis.spatial_unindexed",
     "postgis.srid_unknown", "postgis.srid_mixed", "sequence.exhaustion_risk", "sequence.column_narrower",
     "sequence.value_hidden", "partition.default_has_rows", "partition.future_missing",
     "partition.index_invalid", "partition.parent_not_analyzed", "function.secdef_no_search_path",
     "function.untracked", "subscription.disabled", "subscription.not_receiving"}
AgelessRules ==
    {"txn.long_running", "txn.idle_in_transaction", "txn.prepared_orphan", "txn.high_rollback_ratio",
     "txn.wraparound_risk", "vacuum.disabled", "config.work_mem_oversized", "config.shared_buffers_low",
     "config.shared_buffers_high", "config.effective_cache_size_mismatch",
     "config.maintenance_work_mem_low", "config.max_connections_high", "config.track_io_timing_off",
     "config.checkpoints_too_frequent", "config.fsync_off", "config.full_page_writes_off",
     "conn.saturation", "conn.idle_share_high", "archive.disabled", "archive.failing",
     "backup.no_strategy", "security.monitoring_role_can_write", "security.monitoring_role_read_only_off"}
Window(rule) ==
    CASE rule = "lock.long_wait" -> lockSampleFresh
      [] rule = "config.wal_keep_size_low" -> replicationWindow
      [] rule \in {"index.bloat_high", "table.bloat_high", "bloat.estimate_blind"} -> bloatEstimateWindow
      [] rule \in {"index.divergence", "config.drift", "backup.no_basebackup_seen"} -> siblingActiveWindow
      [] rule \in CatalogRules -> catalogFresh
      [] rule \in AgelessRules -> LastPeriod
      [] OTHER -> recentWindow

\* Rules that read an input they do not name among their needs: a skip of its
\* check stops them no more than a failure does (see the README).
Unguarded == {"config.work_mem_low", "archive.stalled", "lock.long_wait", "config.wal_keep_size_low"}

\* The story as a pass of period t that loads in m would read it had every
\* check that is out (it did not run since) run: for certain if it is skipped
\* and skips are guarded against, and within the window if it is not.
Told(st, t, m, window, guarded) ==
    LET LastRun(i, check) ==
          Highest({n \in 1..m : \E r \in st[n][i].results : r.check = check /\ r.outcome = "ran"} \cup {NoTime})
        Guarded == {"garbled"} \cup (IF guarded THEN {"skipped"} ELSE {})
        Undone(n, i, r) ==
          /\ n > LastRun(i, r.check)
          /\ r.outcome \in Guarded \/ LastRun(i, r.check) >= t - window
    IN  [n \in Periods |-> [i \in Instances |->
           [st[n][i] EXCEPT !.results =
              {[r EXCEPT !.outcome = IF Undone(n, i, r) THEN "ran" ELSE @] : r \in @}]]]

Reading(rule) == <<Window(rule), rule \notin Unguarded>>
Readings ==
    {<<w, TRUE>> : w \in {recentWindow, bloatEstimateWindow, siblingActiveWindow, catalogFresh, LastPeriod}}
    \cup {Reading(rule) : rule \in Unguarded}
Evidence ==
    [st \in Stories |-> [t \in Periods |-> [m \in t..After(t) |-> [x \in Readings |->
       LET db == Database(Told(Story[st], t, m, x[1], x[2]))
       IN  [i \in Instances |-> DOMAIN Answer(db[m], i, t, {}).found]]]]]

Closed(id) == id \in DOMAIN findings /\ findings[id].resolved = NoTime
              /\ id \in DOMAIN findings' /\ findings'[id].resolved # NoTime

\* A finding is closed only on evidence (Engine.runInstance, ResolveAbsent,
\* ResolveUnseen): the instance is gone for the grace, or the pass that closes
\* it would not find it either had every skipped check run, and every check
\* that failed or whose agent paused within the window its rule reads it over.
\* So a skipped check, a rule that panics, a finding that fails to be stored, a
\* snapshot that fails to load, a lock tree that does not decode and a replica
\* that lost its leadership in the middle of a pass never close one.  What is
\* excepted contradicts the comments of unseenInstanceGrace and runInstance: a
\* failure or a pause that outlasts the window closes findings unseen, and for
\* the four Unguarded rules a skip counts as a failure.
ClosedOnEvidence ==
    [][\A id \in DOMAIN findings : Closed(id) =>
         \E p \in Replicas :
           \/ /\ proc[p].pc = "resolve" /\ proc'[p] # proc[p] /\ Head(proc[p].todo) = id[1]
              /\ id \notin Evidence[story][proc[p].at][proc[p].loaded][Reading(id[2])][id[1]]
           \/ proc[p].pc = "close" /\ LastSeen(now, id[1]) < proc[p].at - unseenInstanceGrace]_vars

\* A mute silences its finding until it ends, whatever passes and replicas do
\* meanwhile (UpsertFinding, muteFinding): it is muted or resolved, never open.
MuteHolds ==
    \A id \in DOMAIN findings :
      findings[id].until > now => findings[id].state \in {"muted", "resolved"}

\* The table says what the last reports say.
Agrees(rows, a, i) ==
    /\ \A id \in DOMAIN a.found : id \in DOMAIN rows /\ rows[id].state =
         IF rows[id].until > LastPeriod THEN "muted" ELSE a.found[id]
    /\ \A id \in DOMAIN rows : id[1] = i /\ id[2] \in a.ran /\ id \notin DOMAIN a.found =>
         rows[id].state = "resolved"
Settled ==
    /\ now = LastPeriod
    /\ \A i \in Instances :
         IF i \in ActiveInstances(now) THEN Agrees(findings, Answers[story][i][LastPeriod][LastPeriod][{}], i)
         ELSE LastSeen(now, i) < now - unseenInstanceGrace =>
                \A id \in DOMAIN findings : id[1] = i => findings[id].state = "resolved"

\* Once the database and the replicas behave, the findings become what the
\* rules answer on the last reports and stay so (Engine.Run): what holds is
\* open or muted, what ended is resolved, a mute that ended hides nothing, and
\* an instance that is gone keeps no open finding.
Converges == <>[]Settled
=============================================================================
