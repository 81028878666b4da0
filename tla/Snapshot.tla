------------------------------- MODULE Snapshot -------------------------------
(***************************************************************************)
(* What the server stores of an instance's check results                   *)
(* (internal/server/pipeline.go, internal/store/write.go) and what the     *)
(* advisor loads of it before it evaluates its rules                       *)
(* (internal/advisor/snapshot.go).                                         *)
(*                                                                         *)
(* The tables of one instance are a record of sets of rows; a row of a     *)
(* time series carries the period it was reported in, a fact the period it *)
(* was last seen in.  Counters are stored as the rates the rules read, and *)
(* the top-500 cuts of the loaders are left out: the sets are small.       *)
(***************************************************************************)
EXTENDS Rules

CONSTANTS
    recentWindow, pgstattupleWindow, checkpointWindow, replicationWindow,
    baselineWindow, baselineGap, siblingActiveWindow, relationPruneWindow

\* The tables before an instance's first envelope.
NewInstance ==
    [role |-> "unknown", firstSeen |-> NoTime, lastSeen |-> NoTime, facts |-> {}, metrics |-> {},
     statements |-> {}, tables |-> {}, indexes |-> {}, bloat |-> {}, replication |-> {},
     locks |-> [at |-> NoTime, nodes |-> {}, readable |-> TRUE]]

-----------------------------------------------------------------------------
\* Storing a result: [check, datname, outcome, complete, metrics, facts, rows].
\* A check ran (garbled: with a lock tree the server cannot decode), was skipped
\* with a reason, failed with an error, or is unsent: its agent is silent.

Sent(results) == {r \in results : r.outcome # "unsent"}
Ran(results) == {r \in results : r.outcome \in {"ran", "garbled"}}

ReplacedFactKinds(check) ==
    CASE check = "index_stats" -> {"index_def"}
      [] check = "settings" -> {"setting"}
      [] check = "monitoring_role" -> {"monitoring_role"}
      [] check = "trigger_inventory" -> {"trigger"}
      [] check = "fk_indexes" -> {"fk_unindexed"}
      [] check = "extensions" -> {"extension"}
      [] check = "postgis_columns" -> {"spatial_column"}
      [] check = "sequences" -> {"sequence"}
      [] check = "partitions" -> {"partitioned_table"}
      [] check = "function_stats" -> {"function_tracking"}
      [] check = "function_security" -> {"security_definer_function"}
      [] check = "logical_replication" -> {"subscription"}
      [] check = "activity" -> {"xmin_horizon"}
      [] OTHER -> {}

FactID(f) == <<f.kind, f.key, f.datname>>
Fact(kind, key, t) ==
    [kind |-> kind, key |-> key, datname |-> "", value |-> "", labels |-> <<>>, at |-> t]

\* A base backup is visible only while it streams, so that one was seen is a fact.
runningBasebackups(r) == \E m \in r.metrics : m.name = "pg_basebackup_jobs_running" /\ m.value > 0

\* The facts the results write: of a failed one, none.
Skips(results, t) == {Fact("check_skip", <<r.check>>, t) : r \in {x \in results : x.outcome = "skipped"}}
Written(ran, t) ==
    UNION {{[f EXCEPT !.datname = r.datname, !.at = t] : f \in r.facts} : r \in ran}
    \cup {Fact("backup", <<"basebackup_running">>, t) : r \in {x \in ran : runningBasebackups(x)}}

WriteObjectFacts(facts, new) == {f \in facts : \A g \in new : FactID(g) # FactID(f)} \cup new

\* A complete result removes the facts of its database it no longer lists.
PruneObjectFacts(facts, complete, t) ==
    {f \in facts : \A r \in complete :
       f.datname # r.datname \/ f.kind \notin ReplacedFactKinds(r.check) \/ f.at >= t}

\* One successful result ends the skip for the whole instance.
DeleteCheckSkipFacts(facts, ran) ==
    {f \in facts : f.kind # "check_skip" \/ \A r \in ran : f.key # <<r.check>>}

destinationTable(check) ==
    CASE check = "stat_statements" -> "statements"
      [] check = "table_stats" -> "tables"
      [] check = "index_stats" -> "indexes"
      [] check = "bloat_estimate" -> "bloat"
      [] check \in {"replication_receiver", "replication_streaming", "replication_slots"} -> "replication"
      [] OTHER -> "metrics"

replicationSource(check) ==
    CASE check = "replication_receiver" -> "receiver"
      [] check = "replication_streaming" -> "sender"
      [] check = "replication_slots" -> "slot"

\* The rows the results write to a table.
Rows(ran, table, t) ==
    UNION {{[row EXCEPT !.ts = t] : row \in r.rows} : r \in {x \in ran : destinationTable(x.check) = table}}

presentRelations(r) == {<<row.datname, row.name>> : row \in r.rows}

\* A complete sample removes the recent rows of the relations it does not
\* report; the measured bloat is not the estimate's to remove.
PruneRelationStats(rows, complete, table, t) ==
    {row \in rows : \A r \in {x \in complete : destinationTable(x.check) = table} :
       \/ row.datname # r.datname \/ row.ts < t - relationPruneWindow
       \/ table = "bloat" /\ row.method # "estimate"
       \/ <<row.datname, row.name>> \in presentRelations(r)}

\* The result of a pgstattuple command is a row of the bloat table too.
MeasuredBloat(ran, t) ==
    UNION {{[row EXCEPT !.ts = t] : row \in r.rows} : r \in {x \in ran : x.check = "pgstattuple"}}

\* Of the lock trees the newest is kept; every locks result carries one.
WriteLockSnapshots(locks, ran, t) ==
    IF \E r \in ran : r.check = "locks"
    THEN LET r == CHOOSE x \in ran : x.check = "locks"
             readable == r.outcome # "garbled"
         IN  [at |-> t, nodes |-> IF readable THEN r.rows ELSE {}, readable |-> readable]
    ELSE locks

\* One envelope, in the order of its transaction; no envelope, no change.  A
\* result that failed neither records a skip nor ends one.
Stored(d, role, results, t) ==
    LET ran == Ran(results)
        complete == {r \in ran : r.complete}
        facts == WriteObjectFacts(DeleteCheckSkipFacts(d.facts, ran), Skips(results, t) \cup Written(ran, t))
        Relations(old, table) == PruneRelationStats(old, complete, table, t) \cup Rows(ran, table, t)
    IN  IF Sent(results) = {} THEN d
        ELSE [d EXCEPT !.role = role, !.firstSeen = IF @ = NoTime THEN t ELSE @, !.lastSeen = t,
                !.facts = PruneObjectFacts(facts, complete, t),
                !.metrics = @ \cup UNION {{[m EXCEPT !.ts = t] : m \in r.metrics} : r \in ran},
                !.statements = @ \cup Rows(ran, "statements", t),
                !.replication = @ \cup UNION {{[row EXCEPT !.ts = t, !.source = replicationSource(r.check)] :
                  row \in r.rows} : r \in {x \in ran : destinationTable(x.check) = "replication"}},
                !.tables = Relations(@, "tables"),
                !.indexes = Relations(@, "indexes"),
                !.bloat = Relations(@, "bloat") \cup MeasuredBloat(ran, t),
                !.locks = WriteLockSnapshots(@, ran, t)]

-----------------------------------------------------------------------------
\* Loading the snapshot of an instance at the time of a pass.

Since(rows, t) == {r \in rows : r.ts >= t}
\* The newest row for each value of the key, a set of columns.
Latest(rows, key) == {r \in rows : \A q \in rows : (\A c \in key : q[c] = r[c]) => q.ts <= r.ts}
relation == {"datname", "name"}
Gauge(name, value, t) == [name |-> name, label |-> <<>>, value |-> value, ts |-> t]

\* The share of idle sessions, from the latest activity scrape only: a state
\* that has no session now emits no series.
IdleShare(metrics, t) ==
    LET backends == {m \in metrics : m.name = "pg_backends"}
        current == {m \in backends : \A q \in backends : q.ts <= m.ts}
        all == Total(current, LAMBDA m : m.value)
        idle == Total({m \in current : m.label = <<"idle">>}, LAMBDA m : m.value)
        share == "pg_connections_idle_share"
    IN  IF all > 0 THEN {Gauge(share, (100 * idle) \div all, t)}
        ELSE {Gauge(share, 0, t) : m \in {x \in metrics : x.name = "pg_connections_used"}}

loadMetrics(d, t) ==
    LET latest == Latest(Since(d.metrics, t - recentWindow), {"name", "label"})
    IN  latest \cup IdleShare(latest, t)

\* The usable memory of the host, when it reports what is available of it.
loadHost(metrics) ==
    LET Of(name) == {m.value : m \in {x \in metrics : x.name = name /\ x.label = <<>>}}
    IN  IF Of("host_mem_total_bytes") # {} /\ Of("host_mem_available_bytes") # {}
        THEN Highest(Of("host_mem_total_bytes")) ELSE 0

loadCheckpointRatio(d, t) ==
    LET Of(name) == {m \in Since(d.metrics, t - checkpointWindow) : m.name = name}
        samples == Of("pg_checkpoints_requested_total") \cup Of("pg_checkpoints_timed_total")
        Count(rows) == Total(rows, LAMBDA m : m.value)
        all == Count(samples)
        ratio == IF all > 0 THEN (100 * Count(Of("pg_checkpoints_requested_total"))) \div all ELSE 0
    IN  IF samples = {} THEN {} ELSE {Gauge("pg_checkpoints_requested_ratio", ratio, t)}

\* A setting no longer in the latest scrape is back to its default.
latestSettingBatch(facts) ==
    LET settings == {f \in facts : f.kind = "setting"}
    IN  {f \in settings : \A g \in settings : g.at <= f.at}
SettingFact(facts, key) == CHOOSE f \in latestSettingBatch(facts) : f.key = <<key>>
SettingKeys(facts) == {f.key[1] : f \in latestSettingBatch(facts)}
\* A setting with a unit is read as a number of MiB or of seconds.
normalizedSetting(f) == IF f.value = "" THEN f.labels.number ELSE f.value
loadSettings(facts) == [k \in SettingKeys(facts) |-> normalizedSetting(SettingFact(facts, k))]
loadContexts(facts) == [k \in SettingKeys(facts) |-> SettingFact(facts, k).labels.context]

loadFacts(d) == {f \in d.facts : f.kind # "setting" \/ f \in latestSettingBatch(d.facts)}

SkipAliases(check) ==
    CASE check = "stat_statements" -> {"Statements"}
      [] check = "table_stats" -> {"Tables"}
      [] check = "index_stats" -> {"Indexes"}
      [] check = "bloat_estimate" -> {"Bloat"}
      [] OTHER -> {}
\* A lock tree that does not decode is no empty sample.
loadLockTree(d) == IF d.locks.readable THEN {} ELSE {"LockTree"}
loadSkips(d) ==
    UNION {{f.key[1]} \cup SkipAliases(f.key[1]) : f \in {x \in d.facts : x.kind = "check_skip"}}
    \cup loadLockTree(d)

\* Each statement totalled over the recent window.
loadStatements(d, t) ==
    LET recent == Since(d.statements, t - recentWindow)
        Of(q) == {r \in recent : r.datname = q[1] /\ r.queryid = q[2]}
        Sum(q, Field(_)) == Total(Of(q), Field)
    IN  {[datname |-> q[1], queryid |-> q[2],
          calls |-> Sum(q, LAMBDA r : r.calls), ms |-> Sum(q, LAMBDA r : r.ms),
          temp |-> Sum(q, LAMBDA r : r.temp), read |-> Sum(q, LAMBDA r : r.read),
          hit |-> Sum(q, LAMBDA r : r.hit)] : q \in {<<r.datname, r.queryid>> : r \in recent}}

\* Twice the median mean time of a statement over the week before the last
\* hour; a sample without calls has no mean.
loadBaseline(d, t) ==
    LET old == {r \in Since(d.statements, t - baselineWindow) : r.ts < t - baselineGap /\ r.calls > 0}
        Mean(r) == r.ms \div r.calls
        Twice(q) ==
          LET means == SetToSortSeq({r \in old : r.queryid = q}, LAMBDA a, b : Mean(a) < Mean(b))
              n == Len(means)
          IN  Mean(means[(n + 1) \div 2]) + Mean(means[(n + 2) \div 2])
    IN  [q \in {r.queryid : r \in old} |-> Twice(q)]

IndexFact(facts, datname, name) ==
    {f \in facts : f.kind = "index_def" /\ f.datname = datname /\ f.key = <<name>>}

\* The other members of the cluster that reported within the hour.
loadSiblings(db, i, t) ==
    {LET d == db[j]
         defs == {f \in d.facts : f.kind = "index_def"}
         Key(f) == <<f.datname, f.key[1]>>
     IN  [id |-> j, role |-> d.role,
          settings |-> loadSettings(d.facts), contexts |-> loadContexts(d.facts),
          hashes |-> [k \in {Key(f) : f \in defs} |-> (CHOOSE f \in defs : Key(f) = k).labels.hash],
          scanned |-> {Key(f) : f \in {x \in defs : x.labels.lastScan # NoTime}}
                      \cup {<<r.datname, r.name>> : r \in {x \in d.indexes : x.scans > 0}},
          backup |-> Highest({f.at : f \in {x \in d.facts : x.kind = "backup"}} \cup {NoTime})]
     : j \in {x \in DOMAIN db \ {i} : db[x].lastSeen >= t - siblingActiveWindow /\ db[x].lastSeen # NoTime}}

loadReplication(d, t) ==
    LET latest == Latest({r \in Since(d.replication, t - replicationWindow) : r.source \in {"sender", "slot"}},
                         {"slot", "source"})
        senders == {r \in latest : r.source = "sender"}
    IN  [standbys |-> Cardinality(senders),
         lag |-> Highest({r.lag : r \in senders} \cup {0}),
         slots |-> Cardinality({r \in latest : r.source = "slot" /\ r.active /\ r.type = "physical"})]

Relation(r) == <<r.datname, r.name>>
loadTables(d, t) == Latest(Since(d.tables, t - recentWindow), relation)

\* An index without a fact has no readable definition.
attachIndexDefs(facts, r) ==
    LET def == IndexFact(facts, r.datname, r.name)
    IN  IF def # {} THEN (CHOOSE f \in def : TRUE).labels
        ELSE [hash |-> r.hash, method |-> "", columns |-> <<>>, predicate |-> "",
              tracked |-> FALSE, lastScan |-> NoTime, statsReset |-> NoTime]

loadIndexes(d, t) ==
    LET History(r) == {q \in d.indexes : Relation(q) = Relation(r)}
        Ages(r) == {q.ts : q \in History(r)}
    IN  {[datname |-> r.datname, table |-> r.table, name |-> r.name, size |-> r.size,
          primary |-> r.primary, unique |-> r.unique, valid |-> r.valid,
          peak |-> Highest({q.scans : q \in History(r)}), history |-> Highest(Ages(r)) - (CHOOSE t0 \in Ages(r) : \A u \in Ages(r) : t0 <= u),
          def |-> attachIndexDefs(d.facts, r)] : r \in Latest(Since(d.indexes, t - recentWindow), relation)}

\* A measurement of the last week before an estimate.
loadBloat(d, t) ==
    LET usable == {r \in Since(d.bloat, t - pgstattupleWindow) :
                     r.method = "pgstattuple" \/ r.ts >= t - bloatEstimateWindow}
        Measured(r) == \E q \in usable : Relation(q) = Relation(r) /\ q.method = "pgstattuple"
    IN  Latest({r \in usable : r.method = "pgstattuple" \/ ~Measured(r)}, relation)

LoadSnapshot(db, i, t) ==
    LET d == db[i]
        metrics == loadMetrics(d, t) \cup loadCheckpointRatio(d, t)
    IN  [now |-> t, role |-> d.role, firstSeen |-> d.firstSeen,
         metrics |-> metrics, host |-> loadHost(metrics),
         facts |-> loadFacts(d), settings |-> loadSettings(d.facts), contexts |-> loadContexts(d.facts),
         skipped |-> loadSkips(d),
         tables |-> loadTables(d, t), indexes |-> loadIndexes(d, t), bloat |-> loadBloat(d, t),
         statements |-> loadStatements(d, t), baseline |-> loadBaseline(d, t),
         siblings |-> loadSiblings(db, i, t), replication |-> loadReplication(d, t), locks |-> d.locks]
=============================================================================
