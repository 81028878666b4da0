-------------------------------- MODULE Rules --------------------------------
(***************************************************************************)
(* The advisor's rules (internal/advisor/rules_*.go) as operators from a   *)
(* snapshot of one instance to the findings a rule reports on it.          *)
(*                                                                         *)
(* A finding is its identity (rule, database, object) and its state: the   *)
(* severity, the texts and the evidence are left out.  An object is a      *)
(* tuple of names, <<>> for the instance as a whole.  Sizes are in MiB,    *)
(* ratios in percent, times in periods (Snapshot).                         *)
(***************************************************************************)
EXTENDS Integers, Sequences, FiniteSets, SequencesExt

CONSTANTS
    bloatEstimateWindow, catalogFresh, lockSampleFresh, monitoringRoleFresh,
    unusedWindow, backupHistory, basebackupMaxAge,
    partitionHorizon, partitionLapsedFor, subscriptionSilentFor

Open(rule, datname, object) == [rule |-> rule, datname |-> datname, object |-> object, state |-> "open"]
Degraded(rule, datname, object) == [Open(rule, datname, object) EXCEPT !.state = "degraded"]

configFinding(rule, holds) == IF holds THEN {Open(rule, "", <<>>)} ELSE {}
degradedConfig(rule) == {Degraded(rule, "", <<>>)}

NoTime == -1

Highest(S) == CHOOSE x \in S : \A y \in S : y <= x
Total(S, Field(_)) ==
    LET total[T \in SUBSET S] ==
          IF T = {} THEN 0 ELSE LET x == CHOOSE y \in T : TRUE IN Field(x) + total[T \ {x}]
    IN  total[S]

-----------------------------------------------------------------------------
\* What the rules read of a snapshot.

Has(s, name) == \E m \in s.metrics : m.name = name /\ m.label = <<>>
metricValue(s, name) == (CHOOSE m \in s.metrics : m.name = name /\ m.label = <<>>).value
Above(s, name, limit) == Has(s, name) /\ metricValue(s, name) > limit
Labelled(s, name) == {m \in s.metrics : m.name = name /\ m.label # <<>>}

metricRule(rule, s, name, limit) == configFinding(rule, Above(s, name, limit))

Set(s, key) == key \in DOMAIN s.settings
boolSetting(s, key) == Set(s, key) => s.settings[key] \in {"on", "true"}
SettingOr(s, key, default) == IF Set(s, key) /\ s.settings[key] > 0 THEN s.settings[key] ELSE default

Facts(s, kind) == {f \in s.facts : f.kind = kind}

\* The facts of a kind from each database's latest scrape, while it is fresh.
currentFacts(s, kind) ==
    {f \in Facts(s, kind) :
       /\ \A g \in Facts(s, kind) : g.datname = f.datname => g.at <= f.at
       /\ s.now - f.at <= catalogFresh}

About(rule, facts) == {Open(rule, f.datname, f.key) : f \in facts}
PerDatabase(rule, facts, object) == {Open(rule, f.datname, object) : f \in facts}
-----------------------------------------------------------------------------
\* Statements and transactions (rules_query.go).

queryFinding(rule, queries) == {Open(rule, q.datname, <<"queryid", q.queryid>>) : q \in queries}

QuerySlowMean(s) ==
    queryFinding("query.slow_mean", {q \in s.statements : q.calls >= 10 /\ q.ms > 500 * q.calls})

QueryTotalTimeShare(s) ==
    LET all == Total(s.statements, LAMBDA q : q.ms)
    IN  queryFinding("query.total_time_share", {q \in s.statements : all > 0 /\ 100 * q.ms > 30 * all})

\* The baseline of a statement is twice its median.
QueryRegression(s) ==
    queryFinding("query.regression",
      {q \in s.statements :
         /\ q.queryid \in DOMAIN s.baseline /\ s.baseline[q.queryid] > 0 /\ q.calls > 0
         /\ 2 * q.ms >= 3 * s.baseline[q.queryid] * q.calls
         /\ q.ms >= 100 * q.calls})

QueryTempBytesHigh(s) ==
    LET workMem == SettingOr(s, "work_mem", 4)
    IN  queryFinding("query.temp_bytes_high",
          {q \in s.statements : q.calls > 0 /\ q.temp > workMem * q.calls})

QueryCacheMissHigh(s) ==
    queryFinding("query.cache_miss_high",
      {q \in s.statements : q.calls > 1000 /\ 100 * q.read > 30 * (q.read + q.hit)})

TxnLongRunning(s) == metricRule("txn.long_running", s, "pg_max_xact_age_seconds", 900)
TxnIdleInTransaction(s) ==
    metricRule("txn.idle_in_transaction", s, "pg_max_idle_in_transaction_seconds", 300)
TxnPreparedOrphan(s) == metricRule("txn.prepared_orphan", s, "pg_oldest_prepared_xact_seconds", 3600)
TxnWraparoundRisk(s) == metricRule("txn.wraparound_risk", s, "pg_max_datfrozenxid_age", 1000000000)

TxnHighRollbackRatio(s) ==
    {Open("txn.high_rollback_ratio", m.label[1], <<>>) :
       m \in {x \in Labelled(s, "pg_xact_rollback_ratio") : x.value > 10}}

-----------------------------------------------------------------------------
\* Tables and indexes (rules_relation.go, rules_bloat.go).

relationFinding(rule, rows) == {Open(rule, r.datname, <<r.name>>) : r \in rows}

\* No scan since a statistics reset that is old enough, or unknown.
neverScannedSinceReset(t, i) ==
    /\ i.def.tracked /\ i.def.lastScan = NoTime
    /\ i.def.statsReset = NoTime \/ t - i.def.statsReset >= unusedWindow

IndexKey(i) == <<i.datname, i.name>>

Scanned(s, key) == \E sib \in s.siblings : key \in sib.scanned
Reported(s, key) == Scanned(s, key) \/ \E sib \in s.siblings : key \in DOMAIN sib.hashes

\* Only the primary can say that an index is unused, and only with a sibling's word.
UnusedAnswer(s, i) ==
    LET tooYoung == ~neverScannedSinceReset(s.now, i) /\ i.history < unusedWindow
        used == ~neverScannedSinceReset(s.now, i) /\ i.peak # 0
        kept == i.size <= 10 \/ i.primary \/ i.unique
    IN  CASE tooYoung -> {Degraded("index.unused", i.datname, <<i.name>>)}
          [] ~tooYoung /\ (used \/ kept \/ Scanned(s, IndexKey(i))) -> {}
          [] OTHER -> {IF Reported(s, IndexKey(i)) THEN Open("index.unused", i.datname, <<i.name>>)
                       ELSE Degraded("index.unused", i.datname, <<i.name>>)}

IndexUnused(s) ==
    IF s.role = "standby" THEN {} ELSE UNION {UnusedAnswer(s, i) : i \in s.indexes}

SameTable(i, j) == i # j /\ i.datname = j.datname /\ i.table = j.table

IndexDuplicate(s) ==
    {Open("index.duplicate", i.datname, <<i.table>>) :
       i \in {x \in s.indexes : x.def.hash # "" /\ \E y \in s.indexes :
                /\ SameTable(x, y) /\ x.def.method = y.def.method /\ x.def.hash = y.def.hash}}

IndexRedundantPrefix(s) ==
    relationFinding("index.redundant_prefix",
      {i \in s.indexes : ~i.unique /\ i.def.columns # <<>> /\ \E j \in s.indexes :
         /\ SameTable(i, j)
         /\ i.def.method = j.def.method /\ j.def.method \in {"", "btree"}
         /\ i.def.predicate = j.def.predicate
         /\ IsStrictPrefix(i.def.columns, j.def.columns)})

IndexInvalid(s) == relationFinding("index.invalid", {i \in s.indexes : ~i.valid})

relationBloat(rule, s, kind, ratio, size) ==
    relationFinding(rule, {b \in s.bloat : b.kind = kind /\ b.ratio > ratio /\ b.size > size})

IndexBloatHigh(s) == relationBloat("index.bloat_high", s, "index", 40, 50)
TableBloatHigh(s) == relationBloat("table.bloat_high", s, "table", 30, 100)

\* A sibling that reported no definition at all has not been scraped.
IndexDivergence(s) ==
    UNION {{Open("index.divergence", f.datname, <<f.key[1], sib.id>>) :
              f \in {g \in Facts(s, "index_def") :
                       LET key == <<g.datname, g.key[1]>>
                       IN  key \notin DOMAIN sib.hashes \/ sib.hashes[key] # g.labels.hash}} :
           sib \in {x \in s.siblings : DOMAIN x.hashes # {}}}

Bloated(t) == t.live > 0 /\ 100 * t.dead > 20 * t.live

TableDeadTuplesHigh(s) ==
    relationFinding("table.dead_tuples_high", {t \in s.tables : Bloated(t) /\ t.dead >= 10000})

\* A standby never vacuums.
TableNeverAutovacuumed(s) ==
    relationFinding("table.never_autovacuumed",
      {t \in s.tables : s.role # "standby" /\ t.live > 100000 /\ ~t.vacuumed})

TableAutoanalyzeStale(s) ==
    relationFinding("table.autoanalyze_stale", {t \in s.tables : t.live > 0 /\ 100 * t.mods > 20 * t.live})

TableWraparoundRisk(s) == relationFinding("table.wraparound_risk", {t \in s.tables : t.age > 1000000000})

TableSeqScanHeavy(s) ==
    relationFinding("table.seq_scan_heavy",
      {t \in s.tables : t.live > 100000 /\ t.seq > 0 /\ 10 * t.idx <= t.seq})

VacuumStarvation(s) ==
    LET workers == SettingOr(s, "autovacuum_max_workers", 0)
    IN  IF /\ Cardinality({t \in s.tables : Bloated(t)}) > 10
           /\ workers > 0 /\ Has(s, "pg_vacuum_jobs_running")
           /\ metricValue(s, "pg_vacuum_jobs_running") >= workers
        THEN {Open("vacuum.starvation", "", <<"vacuum">>)} ELSE {}

VacuumDisabled(s) ==
    IF Set(s, "autovacuum") /\ s.settings["autovacuum"] = "off"
    THEN {Open("vacuum.disabled", "", <<"cluster">>)} ELSE {}

\* Per database, always degraded: the bloat of the tables is unknown, not zero.
BloatEstimateBlind(s) ==
    {Degraded("bloat.estimate_blind", f.datname, <<"table statistics">>) :
       f \in {g \in Facts(s, "bloat_unreadable") :
                g.datname # "" /\ s.now - g.at <= bloatEstimateWindow /\ g.labels.count >= 1}}

-----------------------------------------------------------------------------
\* Configuration, archiving and backups (rules_config.go).

\* A setting below or above p percent of the host's usable memory.
BelowShare(s, key, p) == Set(s, key) /\ 100 * s.settings[key] < p * s.host
AboveShare(s, key, p) == Set(s, key) /\ 100 * s.settings[key] > p * s.host
memoryRule(rule, s, holds) == IF s.host = 0 THEN degradedConfig(rule) ELSE configFinding(rule, holds)

WorkMemOversized(s) ==
    memoryRule("config.work_mem_oversized", s,
      /\ Set(s, "max_connections") /\ Set(s, "work_mem")
      /\ 100 * s.settings["work_mem"] * s.settings["max_connections"] > 25 * s.host)
SharedBuffersLow(s) ==
    memoryRule("config.shared_buffers_low", s,
      BelowShare(s, "shared_buffers", 15))
SharedBuffersHigh(s) ==
    memoryRule("config.shared_buffers_high", s,
      AboveShare(s, "shared_buffers", 40))
EffectiveCacheSizeMismatch(s) ==
    memoryRule("config.effective_cache_size_mismatch", s,
      BelowShare(s, "effective_cache_size", 25) \/ AboveShare(s, "effective_cache_size", 150))
MaintenanceWorkMemLow(s) ==
    memoryRule("config.maintenance_work_mem_low", s,
      s.host > 8192 /\ Set(s, "maintenance_work_mem") /\ s.settings["maintenance_work_mem"] < 256)

\* Reads the statements through another rule.
WorkMemLow(s) ==
    configFinding("config.work_mem_low",
      Set(s, "work_mem") /\ s.settings["work_mem"] < 4 /\ QueryTempBytesHigh(s) # {})

MaxConnectionsHigh(s) ==
    configFinding("config.max_connections_high",
      /\ Set(s, "max_connections") /\ s.settings["max_connections"] > 200
      /\ ~Has(s, "pg_connections_used_ratio") \/ metricValue(s, "pg_connections_used_ratio") < 30)

TrackIOTimingOff(s) == configFinding("config.track_io_timing_off", ~boolSetting(s, "track_io_timing"))
FsyncOff(s) == configFinding("config.fsync_off", ~boolSetting(s, "fsync"))
FullPageWritesOff(s) == configFinding("config.full_page_writes_off", ~boolSetting(s, "full_page_writes"))
CheckpointsTooFrequent(s) ==
    metricRule("config.checkpoints_too_frequent", s, "pg_checkpoints_requested_ratio", 20)

WalKeepSizeLow(s) ==
    configFinding("config.wal_keep_size_low",
      /\ s.replication.standbys # 0 /\ s.replication.slots < s.replication.standbys
      /\ Set(s, "wal_keep_size")
      /\ s.replication.lag > s.settings["wal_keep_size"]
      /\ s.replication.lag > SettingOr(s, "wal_segment_size", 16))

DriftExcludedSettings ==
    {"data_directory", "hot_standby", "listen_addresses", "port",
     "primary_conninfo", "primary_slot_name", "synchronous_standby_names"}
SettingDriftExcluded(name, context) == context = "internal" \/ name \in DriftExcludedSettings

Drifts(s, key) ==
    \E sib \in s.siblings :
      /\ key \in DOMAIN sib.settings /\ sib.settings[key] # s.settings[key]
      /\ ~SettingDriftExcluded(key, sib.contexts[key])

ConfigDrift(s) ==
    {Open("config.drift", "", <<"setting", key>>) :
       key \in {k \in DOMAIN s.settings : ~SettingDriftExcluded(k, s.contexts[k]) /\ Drifts(s, k)}}

ConnSaturation(s) == metricRule("conn.saturation", s, "pg_connections_used_ratio", 80)
ConnIdleShareHigh(s) ==
    configFinding("conn.idle_share_high",
      Above(s, "pg_connections_idle_share", 70) /\ Above(s, "pg_connections_used", 100))

archiveMode(settings) == IF "archive_mode" \in DOMAIN settings THEN settings["archive_mode"] ELSE ""
archivingActive(role, mode) == mode = "always" \/ (mode = "on" /\ role # "standby")
Archives(s) == archivingActive(s.role, archiveMode(s.settings))
clusterArchiving(s) ==
    Archives(s) \/ \E sib \in s.siblings : archivingActive(sib.role, archiveMode(sib.settings))
deferToPrimary(s) == s.role = "standby" /\ \E sib \in s.siblings : sib.role = "primary"

\* The last base backup seen streaming from any member of the cluster.
lastBasebackup(s) ==
    Highest({f.at : f \in Facts(s, "backup")} \cup {sib.backup : sib \in s.siblings} \cup {NoTime})
monitoredFor(s) == s.now - s.firstSeen

ArchiveDisabled(s) ==
    configFinding("archive.disabled",
      archiveMode(s.settings) # "" /\ ~deferToPrimary(s) /\ ~clusterArchiving(s))

ArchiveFailing(s) ==
    IF Archives(s) /\ ~Has(s, "pg_archiver_failed_ratio") THEN degradedConfig("archive.failing")
    ELSE configFinding("archive.failing", Archives(s) /\ Above(s, "pg_archiver_failed_ratio", 99))

\* An archiver with nothing to archive is not stalled; without the count of
\* waiting segments the rule cannot tell.
ArchiveStalled(s) ==
    LET limit == Highest({3600, 10 * SettingOr(s, "archive_timeout", 0)})
        ready == "pg_archiver_ready_files"
        old == Archives(s) /\ Above(s, "pg_archiver_last_archived_age_seconds", limit)
    IN  IF old /\ ~Has(s, ready) THEN degradedConfig("archive.stalled")
        ELSE configFinding("archive.stalled", old /\ metricValue(s, ready) # 0)

NoBasebackupSeen(s) ==
    LET rule == "backup.no_basebackup_seen"
        last == lastBasebackup(s)
    IN  IF deferToPrimary(s) \/ ~clusterArchiving(s) THEN {}
        ELSE IF last = NoTime /\ monitoredFor(s) < backupHistory THEN degradedConfig(rule)
        ELSE configFinding(rule, last = NoTime \/ s.now - last >= backupHistory)

NoStrategy(s) ==
    LET rule == "backup.no_strategy"
        last == lastBasebackup(s)
        covered == last # NoTime /\ s.now - last <= basebackupMaxAge
    IN  IF archiveMode(s.settings) = "" \/ deferToPrimary(s) \/ clusterArchiving(s) \/ covered THEN {}
        ELSE IF monitoredFor(s) < backupHistory THEN degradedConfig(rule)
        ELSE configFinding(rule, TRUE)

\* The monitoring role (rules_security.go): a fact nobody refreshes says nothing.
monitoringRoleFact(s) == {f \in Facts(s, "monitoring_role") : s.now - f.at <= monitoringRoleFresh}
RoleRule(rule, s, holds) ==
    IF monitoringRoleFact(s) = {} THEN degradedConfig(rule) ELSE configFinding(rule, holds)
MonitoringRoleCanWrite(s) ==
    RoleRule("security.monitoring_role_can_write", s, \E f \in monitoringRoleFact(s) : f.value # "read-only")
MonitoringRoleReadOnlyOff(s) ==
    RoleRule("security.monitoring_role_read_only_off", s,
             \E f \in monitoringRoleFact(s) : ~f.labels.readOnlyDefault)
-----------------------------------------------------------------------------
\* The catalog (rules_catalog.go, rules_function.go).

DisabledTriggers(s, kind) ==
    {f \in currentFacts(s, "trigger") : f.labels.kind = kind /\ f.value = "disabled"}

\* The internal triggers of a constraint make one finding, named after it.
TriggerConstraintDisabled(s) ==
    {Open("trigger.constraint_disabled", f.datname,
       IF f.labels.constraint # "" THEN <<f.labels.table, f.labels.constraint>>
       ELSE <<f.labels.table>> \o SetToSeq(
              {g.labels.trigger : g \in {x \in DisabledTriggers(s, "internal") :
                 x.datname = f.datname /\ x.labels.table = f.labels.table /\ x.labels.constraint = ""}}))
     : f \in DisabledTriggers(s, "internal")}
TriggerUserDisabled(s) ==
    {Open("trigger.user_disabled", f.datname, <<f.labels.table, f.labels.trigger>>)
     : f \in DisabledTriggers(s, "user")}
IndexFkUnindexed(s) == About("index.fk_unindexed", currentFacts(s, "fk_unindexed"))

postgisExtensions ==
    {<<"postgis">>, <<"postgis_raster">>, <<"postgis_topology">>, <<"postgis_sfcgal">>,
     <<"postgis_tiger_geocoder">>, <<"address_standardizer">>, <<"address_standardizer_data_us">>}
Upgradable(s) == {f \in currentFacts(s, "extension") : f.labels.upgrade = "available"}
ExtensionUpgradeAvailable(s) ==
    About("extension.upgrade_available", {f \in Upgradable(s) : f.key \notin postgisExtensions})
PostgisUpgradeAvailable(s) ==
    PerDatabase("postgis.upgrade_available", {f \in Upgradable(s) : f.key \in postgisExtensions}, <<"postgis">>)

Spatial(s) == currentFacts(s, "spatial_column")
PostgisSpatialUnindexed(s) ==
    About("postgis.spatial_unindexed", {f \in Spatial(s) : ~f.labels.indexed})
PostgisSridUnknown(s) == About("postgis.srid_unknown", {f \in Spatial(s) : ~f.labels.sridKnown})
PostgisSridMixed(s) ==
    LET declared == {f \in Spatial(s) : f.value = "geometry" /\ f.labels.srid # 0}
    IN  PerDatabase("postgis.srid_mixed",
          {f \in declared : \E g \in declared : g.datname = f.datname /\ g.labels.srid # f.labels.srid},
          <<"postgis">>)

SequenceFacts(s) == currentFacts(s, "sequence")
SequenceExhaustionRisk(s) ==
    About("sequence.exhaustion_risk", {f \in SequenceFacts(s) : f.labels.exhausts /\ f.labels.used >= 75})
SequenceColumnNarrower(s) ==
    About("sequence.column_narrower", {f \in SequenceFacts(s) : f.labels.limitSource = "column"})
SequenceValueHidden(s) ==
    PerDatabase("sequence.value_hidden", {f \in SequenceFacts(s) : f.value = "hidden"}, <<"sequences">>)

Partitioned(s) == currentFacts(s, "partitioned_table")
PartitionDefaultHasRows(s) ==
    About("partition.default_has_rows", {f \in Partitioned(s) : f.labels.defaultRows > 0})
\* A table whose partitions ran out long ago is more likely retired than forgotten.
PartitionFutureMissing(s) ==
    About("partition.future_missing",
      {f \in Partitioned(s) :
         /\ f.labels.coveredUntil # NoTime
         /\ f.labels.coveredUntil - s.now < partitionHorizon
         /\ f.labels.coveredUntil - s.now >= -partitionLapsedFor})
PartitionIndexInvalid(s) ==
    About("partition.index_invalid", {f \in Partitioned(s) : f.labels.invalidIndexes # {}})
PartitionParentNotAnalyzed(s) ==
    About("partition.parent_not_analyzed",
      {f \in Partitioned(s) : ~f.labels.analyzed /\ f.labels.rows >= 10000})

FunctionSecdefNoSearchPath(s) ==
    About("function.secdef_no_search_path",
      {f \in currentFacts(s, "security_definer_function") : f.value = "unpinned"})
\* Another session may track although this one does not: then nothing is missing.
FunctionUntracked(s) ==
    PerDatabase("function.untracked",
      {f \in currentFacts(s, "function_tracking") :
         f.value = "none" /\ f.labels.tracked = 0 /\ f.labels.plFunctions # 0}, <<"functions">>)

-----------------------------------------------------------------------------
\* Subscriptions, standbys, WAL and locks (rules_subscription.go,
\* rules_internals.go, rules_lock.go).

Subscriptions(s) == currentFacts(s, "subscription")
subscriptionFinding(rule, facts) == {Open(rule, "", <<"subscription">> \o f.key) : f \in facts}

SubscriptionDisabled(s) ==
    subscriptionFinding("subscription.disabled", {f \in Subscriptions(s) : f.value = "disabled"})
SubscriptionNotReceiving(s) ==
    subscriptionFinding("subscription.not_receiving",
      {f \in Subscriptions(s) : f.value = "enabled" /\
         \/ ~f.labels.applyWorker
         \/ f.labels.receiptAt # NoTime /\ s.now - f.labels.receiptAt >= subscriptionSilentFor})
\* The error counters are per subscription, and stored as rates.
SubscriptionErrors(s) ==
    subscriptionFinding("subscription.errors",
      {f \in Subscriptions(s) : \E m \in s.metrics :
         /\ m.name \in {"pg_subscription_apply_errors_total", "pg_subscription_sync_errors_total"}
         /\ m.label = f.key /\ m.value > 0})
LogicalSlotSpillHigh(s) ==
    {Open("logical_slot.spill_high", "", <<"slot">> \o m.label) :
       m \in {x \in Labelled(s, "pg_logical_slot_spill_bytes_total") : x.value >= 1}}

StandbyRecoveryConflicts(s) ==
    {Open("standby.recovery_conflicts", m.label[1], <<"recovery_conflicts">>) :
       m \in {x \in Labelled(s, "pg_recovery_conflicts_total") : x.value > 0 /\ x.label[1] # ""}}
StandbyReplayPaused(s) ==
    IF Above(s, "pg_recovery_replay_paused", 0)
    THEN {Open("standby.replay_paused", "", <<"wal_replay">>)} ELSE {}
WalDirectoryLarge(s) ==
    IF /\ Set(s, "max_wal_size") /\ s.settings["max_wal_size"] > 0
       /\ Above(s, "pg_wal_dir_bytes", 2 * s.settings["max_wal_size"] + SettingOr(s, "wal_keep_size", 0))
    THEN {Open("wal.directory_large", "", <<"pg_wal">>)} ELSE {}

LockLongWait(s) ==
    configFinding("lock.long_wait",
      /\ s.locks.at # NoTime /\ s.now - s.locks.at <= lockSampleFresh
      /\ \E n \in s.locks.nodes : n.blockedBy # {} /\ n.wait >= 300)

-----------------------------------------------------------------------------
\* The registry: every rule, the inputs it says it needs, and its answer.

Rule(id, needs, out) == [id |-> id, needs |-> needs, out |-> out]

All(s) ==
    { Rule("query.slow_mean", {"Statements"}, QuerySlowMean(s)),
      Rule("query.total_time_share", {"Statements"}, QueryTotalTimeShare(s)),
      Rule("query.regression", {"Statements", "Baseline"}, QueryRegression(s)),
      Rule("query.temp_bytes_high", {"Statements"}, QueryTempBytesHigh(s)),
      Rule("query.cache_miss_high", {"Statements"}, QueryCacheMissHigh(s)),
      Rule("txn.long_running", {"pg_max_xact_age_seconds"}, TxnLongRunning(s)),
      Rule("txn.idle_in_transaction", {"pg_max_idle_in_transaction_seconds"}, TxnIdleInTransaction(s)),
      Rule("txn.prepared_orphan", {"pg_oldest_prepared_xact_seconds"}, TxnPreparedOrphan(s)),
      Rule("txn.high_rollback_ratio", {"pg_xact_rollback_ratio"}, TxnHighRollbackRatio(s)),
      Rule("txn.wraparound_risk", {"pg_max_datfrozenxid_age"}, TxnWraparoundRisk(s)),
      Rule("index.unused", {"Indexes"}, IndexUnused(s)),
      Rule("index.duplicate", {"Indexes"}, IndexDuplicate(s)),
      Rule("index.redundant_prefix", {"Indexes"}, IndexRedundantPrefix(s)),
      Rule("index.invalid", {"Indexes"}, IndexInvalid(s)),
      Rule("index.bloat_high", {"Bloat"}, IndexBloatHigh(s)),
      Rule("index.divergence", {"Siblings"}, IndexDivergence(s)),
      Rule("table.dead_tuples_high", {"Tables"}, TableDeadTuplesHigh(s)),
      Rule("table.never_autovacuumed", {"Tables"}, TableNeverAutovacuumed(s)),
      Rule("table.autoanalyze_stale", {"Tables"}, TableAutoanalyzeStale(s)),
      Rule("table.wraparound_risk", {"Tables"}, TableWraparoundRisk(s)),
      Rule("table.bloat_high", {"Bloat"}, TableBloatHigh(s)),
      Rule("table.seq_scan_heavy", {"Tables"}, TableSeqScanHeavy(s)),
      Rule("vacuum.starvation", {"Tables", "pg_vacuum_jobs_running", "settings"}, VacuumStarvation(s)),
      Rule("vacuum.disabled", {"settings"}, VacuumDisabled(s)),
      Rule("bloat.estimate_blind", {"Bloat"}, BloatEstimateBlind(s)),
      Rule("config.work_mem_oversized", {"settings", "host"}, WorkMemOversized(s)),
      Rule("config.work_mem_low", {"settings", "query.temp_bytes_high"}, WorkMemLow(s)),
      Rule("config.shared_buffers_low", {"settings", "host"}, SharedBuffersLow(s)),
      Rule("config.shared_buffers_high", {"settings", "host"}, SharedBuffersHigh(s)),
      Rule("config.effective_cache_size_mismatch", {"settings", "host"}, EffectiveCacheSizeMismatch(s)),
      Rule("config.maintenance_work_mem_low", {"settings", "host"}, MaintenanceWorkMemLow(s)),
      Rule("config.max_connections_high", {"settings", "pg_connections_used_ratio"}, MaxConnectionsHigh(s)),
      Rule("config.track_io_timing_off", {"settings"}, TrackIOTimingOff(s)),
      Rule("config.checkpoints_too_frequent", {"pg_checkpoints_requested_ratio"}, CheckpointsTooFrequent(s)),
      Rule("config.wal_keep_size_low", {"settings", "Replication"}, WalKeepSizeLow(s)),
      Rule("config.fsync_off", {"settings"}, FsyncOff(s)),
      Rule("config.full_page_writes_off", {"settings"}, FullPageWritesOff(s)),
      Rule("config.drift", {"settings", "Siblings"}, ConfigDrift(s)),
      Rule("conn.saturation", {"pg_connections_used_ratio"}, ConnSaturation(s)),
      Rule("conn.idle_share_high", {"pg_connections_idle_share", "pg_connections_used"}, ConnIdleShareHigh(s)),
      Rule("archive.disabled", {"settings"}, ArchiveDisabled(s)),
      Rule("archive.failing", {"settings"}, ArchiveFailing(s)),
      Rule("archive.stalled", {"settings"}, ArchiveStalled(s)),
      Rule("backup.no_basebackup_seen", {"settings"}, NoBasebackupSeen(s)),
      Rule("backup.no_strategy", {"settings"}, NoStrategy(s)),
      Rule("security.monitoring_role_can_write", {"monitoring_role"}, MonitoringRoleCanWrite(s)),
      Rule("security.monitoring_role_read_only_off", {"monitoring_role"}, MonitoringRoleReadOnlyOff(s)),
      Rule("trigger.constraint_disabled", {"trigger_inventory"}, TriggerConstraintDisabled(s)),
      Rule("trigger.user_disabled", {"trigger_inventory"}, TriggerUserDisabled(s)),
      Rule("index.fk_unindexed", {"fk_indexes"}, IndexFkUnindexed(s)),
      Rule("extension.upgrade_available", {"extensions"}, ExtensionUpgradeAvailable(s)),
      Rule("postgis.upgrade_available", {"extensions"}, PostgisUpgradeAvailable(s)),
      Rule("postgis.spatial_unindexed", {"postgis_columns"}, PostgisSpatialUnindexed(s)),
      Rule("postgis.srid_unknown", {"postgis_columns"}, PostgisSridUnknown(s)),
      Rule("postgis.srid_mixed", {"postgis_columns"}, PostgisSridMixed(s)),
      Rule("sequence.exhaustion_risk", {"sequences"}, SequenceExhaustionRisk(s)),
      Rule("sequence.column_narrower", {"sequences"}, SequenceColumnNarrower(s)),
      Rule("sequence.value_hidden", {"sequences"}, SequenceValueHidden(s)),
      Rule("partition.default_has_rows", {"partitions"}, PartitionDefaultHasRows(s)),
      Rule("partition.future_missing", {"partitions"}, PartitionFutureMissing(s)),
      Rule("partition.index_invalid", {"partitions"}, PartitionIndexInvalid(s)),
      Rule("partition.parent_not_analyzed", {"partitions"}, PartitionParentNotAnalyzed(s)),
      Rule("function.secdef_no_search_path", {"function_security"}, FunctionSecdefNoSearchPath(s)),
      Rule("function.untracked", {"function_stats"}, FunctionUntracked(s)),
      Rule("subscription.disabled", {"logical_replication"}, SubscriptionDisabled(s)),
      Rule("subscription.not_receiving", {"logical_replication"}, SubscriptionNotReceiving(s)),
      Rule("subscription.errors", {"logical_replication"}, SubscriptionErrors(s)),
      Rule("logical_slot.spill_high", {"logical_replication"}, LogicalSlotSpillHigh(s)),
      Rule("standby.recovery_conflicts", {"recovery"}, StandbyRecoveryConflicts(s)),
      Rule("standby.replay_paused", {"recovery"}, StandbyReplayPaused(s)),
      Rule("wal.directory_large", {"wal_directory", "settings"}, WalDirectoryLarge(s)),
      Rule("lock.long_wait", {"LockTree"}, LockLongWait(s)) }
=============================================================================
