------------------------------ MODULE MCAdvisor ------------------------------
(***************************************************************************)
(* Stories of a cluster with a primary a and a standby b.  Each theme has  *)
(* results on which its rules find something and results on which they do  *)
(* not; a story is a sequence of such periods, with checks skipped or      *)
(* failing and agents silent.                                              *)
(***************************************************************************)
EXTENDS Advisor

M(name, value) == [name |-> name, label |-> <<>>, value |-> value, ts |-> 0]
ML(name, label, value) == [M(name, value) EXCEPT !.label = <<label>>]
F(kind, name, value, labels) ==
    [kind |-> kind, key |-> <<name>>, datname |-> "", value |-> value, labels |-> labels, at |-> 0]
R(check, datname, metrics, facts, rows) ==
    [check |-> check, datname |-> datname, outcome |-> "ran", complete |-> TRUE,
     metrics |-> metrics, facts |-> facts, rows |-> rows]
Metrics(check, metrics) == R(check, "", metrics, {}, {})
Catalog(check, facts) == R(check, "d", {}, facts, {})
With(results, outcome) == {[r EXCEPT !.outcome = outcome] : r \in results}
SkipAll(results) == With(results, "skipped")
Fail(results) == With(results, "failed")
Unsent(results) == With(results, "unsent")
\* The settings can always be read.
Skip(results) == {[r EXCEPT !.outcome = IF r.check = "settings" THEN @ ELSE "skipped"] : r \in results}
Garble(results) == {[r EXCEPT !.outcome = IF r.check = "locks" THEN "garbled" ELSE @] : r \in results}

NumberSettings(values) ==
    {F("setting", k, "", [context |-> "sighup", number |-> values[k]]) : k \in DOMAIN values}
TextSettings(values) ==
    {F("setting", k, values[k], [context |-> "sighup", number |-> 0]) : k \in DOMAIN values}
Settings(facts) == R("settings", "", {}, facts, {})

-----------------------------------------------------------------------------
\* Relations.

Table(name, live, dead) ==
    [datname |-> "d", name |-> name, live |-> live, dead |-> dead, mods |-> dead, vacuumed |-> dead = 0,
     age |-> IF dead = 0 THEN 0 ELSE 1500000000, seq |-> dead, idx |-> 1, ts |-> 0]
Index(name, size, valid, hash) ==
    [datname |-> "d", table |-> "t", name |-> name, scans |-> 0, size |-> size, primary |-> FALSE,
     unique |-> FALSE, valid |-> valid, hash |-> hash, ts |-> 0]
Definition(name, hash, columns) ==
    F("index_def", name, "", [hash |-> hash, method |-> "btree", columns |-> columns, predicate |-> "",
                              tracked |-> TRUE, lastScan |-> NoTime, statsReset |-> NoTime])
Bloat(name, kind, ratio) ==
    [datname |-> "d", name |-> name, kind |-> kind, ratio |-> ratio, size |-> 200, method |-> "estimate",
     ts |-> 0]

TableNames == {"t0", "t1", "t2", "t3", "t4", "t5", "t6", "t7", "t8", "t9", "t"}
RelationsBad ==
    {R("table_stats", "d", {}, {},
       {Table("t", 200000, 100000)} \cup {Table(n, 100, 50) : n \in TableNames \ {"t"}}),
     R("index_stats", "d", {},
       {Definition("i", "h1", <<"x">>), Definition("j", "h1", <<"x">>), Definition("k", "h2", <<"x", "y">>)},
       {Index("i", 20, TRUE, "h1"), Index("j", 5, FALSE, "h1"), Index("k", 5, TRUE, "h2")}),
     R("bloat_estimate", "d", {}, {F("bloat_unreadable", "tables", "", [count |-> 1])},
       {Bloat("t", "table", 50), Bloat("i", "index", 60)}),
     Metrics("vacuum_progress", {M("pg_vacuum_jobs_running", 3)}),
     Settings(NumberSettings([autovacuum_max_workers |-> 3]) \cup TextSettings([autovacuum |-> "off"]))}
RelationsGood ==
    {R("table_stats", "d", {}, {}, {Table("t", 200000, 0)}),
     R("index_stats", "d", {}, {Definition("i", "h1", <<"x">>)}, {Index("i", 5, TRUE, "h1")}),
     R("bloat_estimate", "d", {}, {}, {Bloat("t", "table", 5)}),
     Metrics("vacuum_progress", {M("pg_vacuum_jobs_running", 0)}),
     Settings(NumberSettings([autovacuum_max_workers |-> 3]) \cup TextSettings([autovacuum |-> "on"]))}
\* The standby has another definition of an index, and does not scan it either.
RelationsStandby ==
    {R("index_stats", "d", {}, {Definition("i", "h9", <<"x">>)}, {Index("i", 20, TRUE, "h9")}),
     Settings(TextSettings([autovacuum |-> "on"]))}

-----------------------------------------------------------------------------
\* Statements and transactions.

Statement(q, calls, ms, temp, read) ==
    [datname |-> "d", queryid |-> q, calls |-> calls, ms |-> ms, temp |-> temp, read |-> read,
     hit |-> 10, ts |-> 0]
Activity(age) ==
    Metrics("activity",
      {M("pg_max_xact_age_seconds", age), M("pg_max_idle_in_transaction_seconds", age),
       ML("pg_xact_rollback_ratio", "d", age), M("pg_oldest_prepared_xact_seconds", age),
       M("pg_max_datfrozenxid_age", 200000 * age),
       M("pg_connections_used", age), M("pg_connections_used_ratio", IF age = 0 THEN 10 ELSE 90),
       ML("pg_backends", "idle", age), ML("pg_backends", "active", 1)})
WorkMem == Settings(NumberSettings([work_mem |-> 2]))
QueriesBad ==
    {R("stat_statements", "d", {}, {},
       {Statement("q", 2000, 2000000, 9000, 90), Statement("r", 10, 10000, 0, 0)}),
     Activity(6000), WorkMem}
QueriesGood ==
    {R("stat_statements", "d", {}, {},
       {Statement("q", 100, 2000, 0, 0), Statement("r", 10, 300, 0, 0), Statement("s", 100, 2000, 0, 0),
        Statement("u", 100, 2000, 0, 0)}),
     Activity(0), WorkMem}

-----------------------------------------------------------------------------
\* Configuration, archiving and backups.

Memory16GiB ==
    Metrics("host", {M("host_mem_total_bytes", 16384), M("host_mem_available_bytes", 8000)})
Archiver(age, failed) ==
    Metrics("archiver", {M("pg_archiver_failed_ratio", failed), M("pg_archiver_ready_files", 5),
                         M("pg_archiver_last_archived_age_seconds", age)})
Checkpoints(requested) ==
    Metrics("checkpointer", {M("pg_checkpoints_requested_total", requested),
                             M("pg_checkpoints_timed_total", 10)})
MonitoringRole(value, default) ==
    R("monitoring_role", "", {}, {F("monitoring_role", "role", value, [readOnlyDefault |-> default])}, {})
Connections(ratio) == Metrics("connections", {M("pg_connections_used_ratio", ratio)})
Server(work, connections, buffers, cache, maintenance) ==
    NumberSettings([work_mem |-> work, max_connections |-> connections, shared_buffers |-> buffers,
                    effective_cache_size |-> cache, maintenance_work_mem |-> maintenance])
Switches(value, archive) ==
    TextSettings([fsync |-> value, full_page_writes |-> value, track_io_timing |-> value,
                  archive_mode |-> archive, port |-> value])
ConfigBad ==
    {Memory16GiB, Archiver(9000, 100), Checkpoints(10), MonitoringRole("superuser", FALSE), Connections(10),
     Settings(Server(64, 500, 1000, 1000, 64) \cup Switches("off", "on"))}
ConfigStandby ==
    {Memory16GiB, Archiver(0, 0), Checkpoints(0), MonitoringRole("read-only", TRUE), Connections(10),
     Settings(Server(4, 100, 10000, 8000, 512) \cup Switches("on", "on"))}
ConfigGood ==
    {Memory16GiB, Archiver(0, 0), Checkpoints(0), MonitoringRole("read-only", TRUE), Connections(50),
     Metrics("progress", {M("pg_basebackup_jobs_running", 1)}),
     Settings(Server(4, 100, 4000, 8000, 512) \cup Switches("on", "on"))}
ConfigUnarchived == {Settings(Switches("on", "off"))}
\* The settings alone, without archive_mode.
ConfigBare == {Settings(TextSettings([fsync |-> "on"]))}

-----------------------------------------------------------------------------
\* The catalog.

Trigger(name, kind, constraint, value) ==
    F("trigger", name, value, [kind |-> kind, table |-> "t", constraint |-> constraint, trigger |-> name])
Extension(name, upgrade) == F("extension", name, "", [upgrade |-> upgrade])
SpatialColumn(name, indexed, srid) ==
    F("spatial_column", name, "geometry", [indexed |-> indexed, sridKnown |-> srid # 0, srid |-> srid])
Sequence(name, used, source, value) ==
    F("sequence", name, value, [exhausts |-> TRUE, used |-> used, limitSource |-> source])
Partitions(rows, until, invalid, analyzed) ==
    F("partitioned_table", "p", "", [defaultRows |-> rows, coveredUntil |-> until, rows |-> 20000,
                                     invalidIndexes |-> invalid, analyzed |-> analyzed])
Tracking(tracked) == F("function_tracking", "functions", "none", [tracked |-> tracked, plFunctions |-> 2])
CatalogBad ==
    {Catalog("trigger_inventory", {Trigger("c", "internal", "fk", "disabled"),
       Trigger("u", "user", "", "disabled"), Trigger("n", "internal", "", "disabled")}),
     Catalog("fk_indexes", {F("fk_unindexed", "fk", "", <<>>)}),
     Catalog("extensions", {Extension("postgis", "available"), Extension("hstore", "available")}),
     Catalog("postgis_columns", {SpatialColumn("g", FALSE, 0), SpatialColumn("h", TRUE, 1),
       SpatialColumn("k", TRUE, 2)}),
     Catalog("sequences", {Sequence("s", 80, "column", "visible"), Sequence("z", 0, "type", "hidden")}),
     Catalog("partitions", {Partitions(5, 3, {"i"}, FALSE)}),
     Catalog("function_stats", {Tracking(0)}),
     Catalog("function_security", {F("security_definer_function", "f", "unpinned", <<>>)})}
CatalogGood ==
    {Catalog("trigger_inventory", {Trigger("u", "user", "", "enabled")}),
     Catalog("fk_indexes", {}),
     Catalog("extensions", {Extension("postgis", "current")}),
     Catalog("postgis_columns", {SpatialColumn("h", TRUE, 1)}),
     Catalog("sequences", {Sequence("s", 10, "type", "visible")}),
     Catalog("partitions", {Partitions(0, 99, {}, TRUE)}),
     Catalog("function_stats", {Tracking(1)}),
     Catalog("function_security", {F("security_definer_function", "f", "pinned", <<>>)})}

-----------------------------------------------------------------------------
\* Replication, WAL and locks.

Subscription(name, value, worker) ==
    F("subscription", name, value, [applyWorker |-> worker, receiptAt |-> NoTime])
Edge(lag) == [slot |-> "s", source |-> "", lag |-> lag, active |-> FALSE, type |-> "physical", ts |-> 0]
ReplicationBad ==
    {R("logical_replication", "", {ML("pg_subscription_apply_errors_total", "x", 1),
         ML("pg_logical_slot_spill_bytes_total", "s", 2)},
       {Subscription("x", "enabled", FALSE), Subscription("y", "disabled", FALSE)}, {}),
     R("replication_streaming", "", {}, {}, {Edge(100)}),
     R("replication_slots", "", {}, {}, {Edge(0)}),
     Metrics("wal_directory", {M("pg_wal_dir_bytes", 4000)}),
     Metrics("recovery", {ML("pg_recovery_conflicts_total", "d", 1), M("pg_recovery_replay_paused", 1)}),
     R("locks", "", {}, {}, {[blockedBy |-> {"x"}, wait |-> 400]}),
     Settings(NumberSettings([wal_keep_size |-> 0, max_wal_size |-> 1024]))}
ReplicationGood ==
    {R("logical_replication", "", {ML("pg_subscription_apply_errors_total", "x", 0),
         ML("pg_logical_slot_spill_bytes_total", "s", 0)}, {Subscription("x", "enabled", TRUE)}, {}),
     R("replication_streaming", "", {}, {}, {Edge(0)}),
     Metrics("wal_directory", {M("pg_wal_dir_bytes", 100)}),
     Metrics("recovery", {ML("pg_recovery_conflicts_total", "d", 0), M("pg_recovery_replay_paused", 0)}),
     R("locks", "", {}, {}, {}),
     Settings(NumberSettings([wal_keep_size |-> 0, max_wal_size |-> 1024]))}

-----------------------------------------------------------------------------
\* The stories: what a reports, and what b reports, in five periods.

Primary(results) == [role |-> "primary", results |-> results]
Standby(results) == [role |-> "standby", results |-> results]
Both(as, bs) == [n \in 1..5 |-> [i \in {"a", "b"} |-> IF i = "a" THEN Primary(as[n]) ELSE Standby(bs[n])]]
Throughout(results) == <<results, results, results, results, results>>
Absent == Throughout({})
\* What comes between outlasts the window of the samples before it.
Interrupted(bad, between, good) == <<bad, between, between, bad, good>>
Lapsing(bad, between, good) == <<bad, between, between, between, good>>
LeavingAfterOne(results) == <<results, Unsent(results), Unsent(results), Unsent(results), Unsent(results)>>

StoryOf ==
    [relations |-> Both(Interrupted(RelationsBad, Skip(RelationsBad), RelationsGood),
                        Throughout(RelationsStandby)),
     relationsFail |-> Both(Lapsing(RelationsBad, Fail(RelationsBad), Fail(RelationsBad)),
                            Interrupted(RelationsStandby, Fail(RelationsStandby), RelationsStandby)),
     paused |-> Both(Interrupted(RelationsBad, Unsent(RelationsBad), RelationsGood),
                     Throughout(RelationsStandby)),
     vanishing |-> Both(LeavingAfterOne(RelationsBad), Throughout(RelationsStandby)),
     abandoned |-> Both(Throughout(RelationsBad), LeavingAfterOne(RelationsStandby)),
     queries |-> Both(<<QueriesGood, QueriesGood, QueriesBad, Skip(QueriesBad), Skip(QueriesBad)>>, Absent),
     queriesFail |-> Both(<<QueriesGood, QueriesBad, Fail(QueriesBad), Fail(QueriesBad), QueriesBad>>, Absent),
     config |-> Both(Interrupted(ConfigBad, Skip(ConfigBad), ConfigGood), Throughout(ConfigStandby)),
     configFail |-> Both(Lapsing(ConfigBad, Fail(ConfigBad), ConfigGood), LeavingAfterOne(ConfigStandby)),
     unarchived |-> Both(<<ConfigUnarchived, ConfigUnarchived, SkipAll(ConfigUnarchived), ConfigUnarchived,
                           ConfigBare>>, LeavingAfterOne(ConfigUnarchived)),
     catalog |-> Both(Lapsing(CatalogBad, Skip(CatalogBad), CatalogGood), Absent),
     catalogFail |-> Both(Lapsing(CatalogBad, Fail(CatalogBad), CatalogBad), Absent),
     replication |-> Both(<<ReplicationBad, Skip(ReplicationBad), ReplicationGood, Unsent(ReplicationGood),
                            ReplicationBad>>, Absent),
     replicationFail |-> Both(<<ReplicationBad, Garble(ReplicationBad), Fail(ReplicationBad),
                                Fail(ReplicationBad), Fail(ReplicationBad)>>, Absent)]
FocusOf ==
    [st \in DOMAIN StoryOf |->
       CASE st \in {"relations", "relationsFail"} -> {"index.invalid"}
         [] st = "unarchived" -> {"backup.no_strategy"}
         [] st = "replication" -> {"subscription.disabled"}
         [] OTHER -> {}]
=============================================================================
