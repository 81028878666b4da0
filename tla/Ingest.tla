------------------------------- MODULE Ingest -------------------------------
(***************************************************************************)
(* The server's ingest path for one agent: ingestHandler, the inventory,   *)
(* the pipeline with its delta and topology engines, and the tables they   *)
(* write.  The agent sends its envelopes in order and sends one again when *)
(* it gives up on the answer, while the first attempt may still run: a     *)
(* slot is one attempt in flight.  After a restart of the agent it replays *)
(* envelopes that were already stored.                                     *)
(*                                                                         *)
(* An envelope holds one result with one counter series for each instance  *)
(* it names; log keeps the envelopes the agent has made.  A transaction's  *)
(* writes take effect in its commit; the row locks of storedRole are held  *)
(* until the commit or the rollback.                                       *)
(***************************************************************************)
EXTENDS Integers, Sequences, FiniteSets, FiniteSetsExt, Functions, Folds

CONSTANTS
    Instances, Clusters, failoverWindow, orphanWindow, splitBrainWindow,
    failoverQuiet, maxGap,
    Order,          \* the instances in the order an envelope lists them
    Shapes,         \* what the n-th envelope may report: instance -> report
    Slots,          \* the attempts that may be in flight
    MaxEnvelopes,   \* envelopes the agent makes
    MaxBacklog,     \* envelopes made but not yet stored
    MaxReplay,      \* stored envelopes a restart of the agent sends again
    MaxNow,         \* the server's clock stops here
    MaxFaults,      \* rollbacks, lost commits, timeouts and restarts
    evictEvery, evictAge,   \* maybeEvict: its period and its cutoff
    truncationWindow,       \* truncationEventWindow
    NoSlot                  \* no wait, and no holder of a lock

ASSUME IngestAssumption ==
    /\ {failoverWindow, orphanWindow, splitBrainWindow, failoverQuiet, maxGap,
        evictEvery, evictAge, truncationWindow, MaxEnvelopes, MaxBacklog, MaxReplay, MaxNow, MaxFaults} \subseteq Nat
    /\ Range(Order) = Instances /\ IsInjective(Order)
    /\ NoSlot \notin Slots

INSTANCE Topology
INSTANCE Delta

VARIABLES
    now,        \* the clocks of the server and of the agent
    faults,     \* how many faults have happened
    log,        \* the envelopes the agent has made
    counters,   \* the monitored counter of each instance: [value, epoch]
    next,       \* the envelope the agent sends next
    waiting,    \* the slot whose answer the agent waits for, or NoSlot
    slot,       \* the attempts in flight
    lock,       \* the row lock of each instance: a slot or NoSlot
    prev,       \* the delta engine's baselines
    engine,     \* the topology engine
    checkCounted,   \* the newest counted result of each instance
    lastEvict,
    tally,      \* how often each result was counted while its mark could stand
    db,         \* the tables
    unsure,     \* a commit that went through was reported as failed
    stragglers  \* envelopes in flight when a restart sent the agent back by more than one

mem == <<prev, engine, checkCounted, lastEvict, tally>>
agent == <<log, counters, next, waiting, stragglers>>
vars == <<now, faults, log, counters, next, waiting, slot, lock, prev, engine,
          checkCounted, lastEvict, tally, db, unsure, stragglers>>

NoRow == [cluster |-> "", role |-> "", seen |-> 0, dbs |-> {}, edges |-> "none"]

NoAttempt == [pc |-> "idle", n |-> 0, todo |-> {}, rejected |-> {},
              stored |-> {}, marks |-> [i \in Instances |-> NoMark],
              events |-> {}, points |-> {}, read |-> [i \in Instances |-> NoBase],
              staged |-> [i \in Instances |-> NoBase], truncations |-> {}]

Init ==
    /\ now = 0 /\ faults = 0
    /\ log = <<>> /\ next = 1 /\ waiting = NoSlot
    /\ counters = [i \in Instances |-> [value |-> 1, epoch |-> 1]]
    /\ slot = [k \in Slots |-> NoAttempt]
    /\ lock = [i \in Instances |-> NoSlot]
    /\ prev = [i \in Instances |-> NoBase]
    /\ engine = NewEngine
    /\ checkCounted = [i \in Instances |-> 0]
    /\ lastEvict = 0
    /\ tally = [i \in Instances |-> <<>>]
    /\ db = [instances |-> [i \in Instances |-> NoRow],
             clusters |-> [c \in Clusters |-> "none"],
             points |-> {},
             reported |-> [i \in Instances |-> ""],     \* the role of the last role event
             orphans |-> [i \in Instances |-> <<>>],    \* the orphan_standby events
             truncations |-> [i \in Instances |-> <<>>],\* the cardinality_truncated events
             notices |-> {},                            \* the other events, by kind
             skip |-> [i \in Instances |-> FALSE],      \* the check_skip fact
             partial |-> [i \in Instances |-> "complete"]]  \* the check_partial fact
    /\ unsure = FALSE /\ stragglers = {}

-----------------------------------------------------------------------------
\* The agent.

Tick == /\ now < MaxNow
        /\ now' = now + 1
        /\ UNCHANGED <<faults, agent, slot, lock, mem, db, unsure>>

\* A flush, some time after the last: the monitored counters have moved on, or
\* were reset.
Produce(shape) ==
    /\ now < MaxNow /\ Len(log) - next < MaxBacklog
    /\ now' = now + 1
    /\ counters' = [i \in Instances |->
            IF i \in DOMAIN shape /\ shape[i].reset
            THEN [value |-> 0, epoch |-> counters[i].epoch + 1]
            ELSE [counters[i] EXCEPT !.value = @ + 1]]
    /\ log' = Append(log, [ts |-> now', reports |-> shape, counters |-> counters'])
    /\ tally' = [i \in Instances |-> Append(tally[i], 0)]
    /\ UNCHANGED <<faults, next, waiting, slot, lock, prev, engine,
                   checkCounted, lastEvict, db, unsure, stragglers>>

\* The agent gives up on the answer; the attempt goes on without it.
TimeOut ==
    /\ waiting # NoSlot /\ faults < MaxFaults
    /\ waiting' = NoSlot /\ faults' = faults + 1
    /\ UNCHANGED <<now, log, counters, next, slot, lock, mem, db, unsure, stragglers>>

\* The attempts in flight that a restart at envelope n leaves ahead of the replay.
Ahead(n) == {slot[k].n : k \in {x \in Slots : slot[x].pc # "idle" /\ slot[x].n > n + 1}}

\* A restart loses the last acknowledgements: envelopes are replayed in order.
AgentRestart(n) ==
    /\ next - n \in 1..MaxReplay /\ faults < MaxFaults
    /\ next' = n /\ waiting' = NoSlot /\ faults' = faults + 1
    /\ stragglers' = stragglers \cup Ahead(n)
    /\ UNCHANGED <<now, log, counters, slot, lock, mem, db, unsure>>

-----------------------------------------------------------------------------
\* The inventory, in a transaction of its own for each instance.

Report(a, i) == log[a.n].reports[i]
Listed(a) == {i \in Instances : i \in DOMAIN log[a.n].reports}

\* The order of the envelope, and the places in it of some of its instances.
Precedes(j, i) == \E l, m \in DOMAIN Order : l < m /\ Order[l] = j /\ Order[m] = i
Places(S) == {m \in DOMAIN Order : Order[m] \in S}

OtherCluster(d, i, r) ==
    d.instances[i] # NoRow /\ d.instances[i].cluster # r.cluster

\* A new instance needs the agent_id its owner is booked under.
NoOwner(d, i, r) == d.instances[i] = NoRow /\ ~r.owner

Rejects(d, i, r) == OtherCluster(d, i, r) \/ NoOwner(d, i, r)

\* emitRepeatable: its window is longer than any run here.
emitRepeatable(d, type, i) ==
    [d EXCEPT !.notices = @ \cup {[type |-> type, instance |-> i]}]

upsertCluster(d, i, r) ==
    LET was == d.clusters[r.cluster]
    IN  CASE was = "none" -> [d EXCEPT !.clusters[r.cluster] = r.source]
          [] was = "system_identifier" /\ r.source = "manual" ->
                emitRepeatable(d, "cluster_identity_conflict", i)
          [] OTHER -> [d EXCEPT !.clusters[r.cluster] = r.source]

\* The row starts with the role "unknown"; a database list that is empty
\* removes nothing.
upsertRow(row, r) ==
    LET known == IF row = NoRow
                 THEN [NoRow EXCEPT !.cluster = r.cluster, !.role = "unknown", !.seen = now]
                 ELSE row
    IN  [known EXCEPT !.dbs = IF r.dbs = {} THEN @ ELSE r.dbs]

\* What one instance says of its cluster, and the notices it leaves.
upsertOne(d, i, r) ==
    CASE OtherCluster(db, i, r) -> emitRepeatable(d, "cluster_id_changed", i)
      [] NoOwner(db, i, r) -> d
      [] OTHER -> upsertCluster(d, i, r)

Refused(a) == {i \in Listed(a) : Rejects(db, i, Report(a, i))}

\* The instances S of an envelope, one after the other.  Each has a row of its
\* own; the clusters and the notices are shared, and follow the order.
Upserted(a, S) ==
    LET d == MapThenFoldSet(LAMBDA i, x : upsertOne(x, i, Report(a, i)),
                            [clusters |-> db.clusters, notices |-> db.notices],
                            LAMBDA m : Order[m], Max, Places(S))
    IN  [db EXCEPT
            !.instances = [i \in Instances |-> IF i \in S \ Refused(a)
                            THEN upsertRow(db.instances[i], Report(a, i)) ELSE db.instances[i]],
            !.clusters = d.clusters, !.notices = d.notices]

\* Pipeline.maybeEvict.
Evicts == now - lastEvict >= evictEvery

maybeEvict ==
    IF Evicts
    THEN /\ prev' = [i \in Instances |-> EvictBase(prev[i], now - evictAge)]
         /\ engine' = EvictTopology(engine, now - evictAge)
         /\ checkCounted' = [i \in Instances |->
                IF checkCounted[i] < now - evictAge \/ checkCounted[i] > now + evictAge
                THEN 0 ELSE checkCounted[i]]
         /\ lastEvict' = now
    ELSE UNCHANGED <<prev, engine, checkCounted, lastEvict>>

\* The agent sends its next envelope: Inventory.Upsert, the filtering of the
\* instances it refused, and the start of Pipeline.Process.
Send(k) ==
    LET a == [NoAttempt EXCEPT !.pc = "process", !.n = next]
    IN  /\ waiting = NoSlot /\ next <= Len(log) /\ slot[k].pc = "idle"
        /\ waiting' = k
        /\ db' = Upserted(a, Listed(a))
        /\ slot' = [slot EXCEPT ![k] = [a EXCEPT
                !.rejected = Refused(a),
                !.todo = Listed(a) \ Refused(a)]]
        /\ maybeEvict
        /\ UNCHANGED <<now, faults, log, counters, next, lock, tally, unsure, stragglers>>

\* The store fails in Inventory.Upsert: what came before is committed and the
\* answer is a 500.
SendFails ==
    LET a == [NoAttempt EXCEPT !.n = next]
    IN  /\ waiting = NoSlot /\ next <= Len(log) /\ faults < MaxFaults
        /\ \E i \in Listed(a) : db' = Upserted(a, {j \in Listed(a) : Precedes(j, i)})
        /\ faults' = faults + 1
        /\ UNCHANGED <<now, agent, slot, lock, mem, unsure>>

-----------------------------------------------------------------------------
\* Pipeline.Process, one instance at a time.

normalizeRole(role) == IF role \in {"primary", "standby"} THEN role ELSE "unknown"

\* Only a standby has an upstream.
Upstream(r) == IF r.role = "standby" THEN r.edges ELSE "none"

Observed(a, i, prior) ==
    LET r == Report(a, i)
    IN  [instance |-> i, cluster |-> r.cluster, role |-> normalizeRole(r.role),
         prior |-> prior, sent |-> log[a.n].ts, edges |-> Upstream(r)]

\* One event for the counters of an instance that were reset.
counterResetEvents(seen, i) ==
    IF seen.reset THEN {Event("counter_reset_detected", i, "", now)} ELSE {}

Sample(a, i) ==
    [ts |-> log[a.n].ts, value |-> log[a.n].counters[i].value,
     statsReset |-> IF Report(a, i).marker THEN log[a.n].counters[i].epoch ELSE 0]

truncationEventDue(i, ts) ==
    ~ \E j \in DOMAIN db.truncations[i] : db.truncations[i][j] > ts - truncationWindow

\* As if the stored role were read without locking its row.
MayLockUnlocked(k, i) == TRUE

\* storedRole waits for the row lock.
MayLock(k, i) == lock[i] \in {NoSlot, k}

\* The next instance of the envelope.
ProcessInstance(k, i) ==
    LET a == slot[k]
        r == Report(a, i)
        topo == apply(engine, Observed(a, i, db.instances[i].role), now)
        seen == observe(prev[i], Sample(a, i))
    IN  /\ a.pc = "process"
        /\ i \in a.todo /\ ~ \E j \in a.todo : Precedes(j, i)
        /\ MayLock(k, i)
        /\ lock' = [lock EXCEPT ![i] = k]
        /\ IF r.kind = "unknown"
           THEN \* an unknown metric kind: the instance is rejected and undone
                /\ slot' = [slot EXCEPT ![k].todo = @ \ {i}, ![k].rejected = @ \cup {i}]
                /\ UNCHANGED engine
           ELSE /\ engine' = topo.engine
                /\ slot' = [slot EXCEPT
                     ![k].todo = @ \ {i},
                     ![k].stored = @ \cup {i},
                     ![k].marks[i] = [before |-> mark(engine, i, r.cluster),
                                      written |-> mark(topo.engine, i, r.cluster)],
                     ![k].events = @ \cup topo.events \cup counterResetEvents(seen, i),
                     ![k].points = IF seen.point = NoPoint THEN @
                                   ELSE @ \cup {[instance |-> i, from |-> seen.point.from,
                                                 to |-> seen.point.to]},
                     ![k].read[i] = prev[i],
                     ![k].staged[i] = seen.base,
                     ![k].truncations = IF r.cut = "truncated" /\ truncationEventDue(i, log[a.n].ts)
                                        THEN @ \cup {i} ELSE @]
        /\ UNCHANGED <<now, faults, agent, prev, checkCounted, lastEvict, tally, db, unsure>>

-----------------------------------------------------------------------------
\* The end of the transaction.

\* The events of an instance that the commit makes visible.
OrphanEventsOf(a, i) == {e \in a.events : e.instance = i /\ e.type = "orphan_standby"}

RoleEventsOf(a, i) == {e \in a.events : e.instance = i
                          /\ e.type \in {"role_change", "failover_detected"}}

\* ON CONFLICT DO NOTHING: a point already stored for the sample stays.
Inserted(points, new) ==
    points \cup {p \in new : ~ \E q \in points : q.instance = p.instance /\ q.to = p.to}

Failed(r) == r.outcome = "error"
Skipped(r) == r.outcome = "skip"

\* The reported role and last_seen, for the instances that are stored.
StoreRoles(rows, a) ==
    [i \in Instances |-> IF i \in a.stored
        THEN [rows[i] EXCEPT !.role = normalizeRole(Report(a, i).role), !.seen = now]
        ELSE rows[i]]

\* Replaces the edges from each stored instance.
WriteTopologyEdges(rows, a) ==
    [i \in Instances |-> IF i \in a.stored
        THEN [rows[i] EXCEPT !.edges = Upstream(Report(a, i))] ELSE rows[i]]

\* The check_skip fact: set by a skipped result, removed by one that ran.
SkipFacts(skip, a) ==
    [i \in Instances |-> IF i \notin a.stored \/ Failed(Report(a, i)) THEN skip[i]
                         ELSE Skipped(Report(a, i))]

\* The check_partial fact: what the last result that ran left out.
PartialFacts(partial, a) ==
    [i \in Instances |->
        IF i \notin a.stored \/ Failed(Report(a, i)) \/ Skipped(Report(a, i))
        THEN partial[i] ELSE Report(a, i).cut]

\* WriteEvents: the events, by what the readers tell apart.
RolesTold(reported, a) ==
    [i \in Instances |-> IF RoleEventsOf(a, i) = {} THEN reported[i]
                         ELSE (CHOOSE e \in RoleEventsOf(a, i) : TRUE).role]

OrphanTimes(orphans, a) ==
    [i \in Instances |-> IF OrphanEventsOf(a, i) = {} THEN orphans[i]
                         ELSE Append(orphans[i], (CHOOSE e \in OrphanEventsOf(a, i) : TRUE).ts)]

TruncationTimes(truncations, a) ==
    [i \in Instances |-> IF i \in a.truncations THEN Append(truncations[i], log[a.n].ts)
                         ELSE truncations[i]]

NoticesOf(a) ==
    {[type |-> e.type, instance |-> e.instance] : e \in
        {x \in a.events : x.type \in {"failover_detected", "split_brain_detected",
                                      "counter_reset_detected"}}}

WriteEvents(d, a) ==
    [d EXCEPT !.reported = RolesTold(@, a), !.orphans = OrphanTimes(@, a),
              !.truncations = TruncationTimes(@, a), !.notices = @ \cup NoticesOf(a)]

Committed(a) ==
    WriteEvents([db EXCEPT !.instances = WriteTopologyEdges(StoreRoles(@, a), a),
                           !.points = Inserted(@, a.points),
                           !.skip = SkipFacts(@, a),
                           !.partial = PartialFacts(@, a)], a)

Unlocked(k) == [i \in Instances |-> IF lock[i] = k THEN NoSlot ELSE lock[i]]

\* As if a failed envelope were not undone.
UndoneNot(a) == engine

\* The deferred undos, newest first.  An attempt has one for each instance it
\* stored, so their order matters only for what a cluster's instances share.
UndoneShared(a, c) ==
    MapThenFoldSet(LAMBDA m, x : revertShared(x, m.before, m.written), shared(engine, c),
                   LAMBDA m : a.marks[Order[m]], Min,
                   Places({i \in a.stored : a.marks[i].before.cluster = c}))

Undone(a) ==
    [instances |-> [i \in Instances |-> IF i \in a.stored
                        THEN Back(engine.instances[i], a.marks[i].before.state,
                                  a.marks[i].written.state)
                        ELSE engine.instances[i]],
     lastPrimary |-> [c \in Clusters |-> UndoneShared(a, c).lastPrimary],
     lastFailover |-> [c \in Clusters |-> UndoneShared(a, c).lastFailover],
     lastSplitBrain |-> [c \in Clusters |-> UndoneShared(a, c).lastSplitBrain]]

ReadyToCommit(k) == slot[k].pc = "process" /\ slot[k].todo = {}

Commit(k) ==
    /\ ReadyToCommit(k)
    /\ db' = Committed(slot[k])
    /\ lock' = Unlocked(k)
    /\ slot' = [slot EXCEPT ![k].pc = "settle"]
    /\ UNCHANGED <<now, faults, agent, mem, unsure>>

\* A statement failed: the envelope is undone, rolled back and answered 500.
Rollback(k) ==
    /\ slot[k].pc = "process" /\ faults < MaxFaults
    /\ faults' = faults + 1
    /\ engine' = Undone(slot[k])
    /\ lock' = Unlocked(k)
    /\ slot' = [slot EXCEPT ![k] = NoAttempt]
    /\ waiting' = IF waiting = k THEN NoSlot ELSE waiting
    /\ UNCHANGED <<now, log, counters, next, prev, checkCounted, lastEvict, tally, db, unsure, stragglers>>

\* The store commits, but the connection is lost before it says so.
CommitLost(k) ==
    /\ ReadyToCommit(k) /\ faults < MaxFaults
    /\ faults' = faults + 1
    /\ db' = Committed(slot[k])
    /\ engine' = Undone(slot[k])
    /\ lock' = Unlocked(k)
    /\ slot' = [slot EXCEPT ![k] = NoAttempt]
    /\ waiting' = IF waiting = k THEN NoSlot ELSE waiting
    /\ unsure' = TRUE
    /\ UNCHANGED <<now, log, counters, next, prev, checkCounted, lastEvict, tally, stragglers>>

\* As if every stored result counted.
CountsEvery(a, i) == i \in a.stored /\ ~Skipped(Report(a, i))

\* countChecks: a result counts when it is newer than the last one counted; a
\* skipped result is not counted.
Counts(a, i) ==
    /\ i \in a.stored /\ ~Skipped(Report(a, i))
    /\ ~ (checkCounted[i] # 0 /\ checkCounted[i] <= now /\ log[a.n].ts <= checkCounted[i])

countChecks(a) ==
    /\ checkCounted' = [i \in Instances |-> IF Counts(a, i) THEN log[a.n].ts ELSE checkCounted[i]]
    /\ tally' = [i \in Instances |->
            IF Counts(a, i) /\ now - log[a.n].ts <= evictAge
            THEN [tally[i] EXCEPT ![a.n] = @ + 1] ELSE tally[i]]

\* After the commit: the baselines move, the checks are counted, and the
\* agent, if it still waits, goes on to its next envelope.
Settle(k) ==
    LET a == slot[k]
    IN  /\ a.pc = "settle"
        /\ prev' = [i \in Instances |->
                IF i \in a.stored THEN CommitBase(prev[i], a.read[i], a.staged[i]) ELSE prev[i]]
        /\ countChecks(a)
        /\ slot' = [slot EXCEPT ![k] = NoAttempt]
        /\ IF waiting = k
           THEN waiting' = NoSlot /\ next' = a.n + 1
           ELSE UNCHANGED <<waiting, next>>
        /\ UNCHANGED <<now, faults, log, counters, lock, engine, lastEvict, db, unsure, stragglers>>

\* The server restarts: its memory and its transactions are gone.
ServerRestart ==
    /\ faults < MaxFaults
    /\ faults' = faults + 1
    /\ slot' = [k \in Slots |-> NoAttempt]
    /\ lock' = [i \in Instances |-> NoSlot]
    /\ waiting' = NoSlot
    /\ prev' = [i \in Instances |-> NoBase]
    /\ engine' = NewEngine
    /\ checkCounted' = [i \in Instances |-> 0]
    /\ tally' = [i \in Instances |-> [n \in DOMAIN tally[i] |-> 0]]
    /\ lastEvict' = now
    /\ UNCHANGED <<now, log, counters, next, db, unsure, stragglers>>

Next ==
    \/ Tick
    \/ Len(log) < MaxEnvelopes /\ \E shape \in Shapes[Len(log) + 1] : Produce(shape)
    \/ \E k \in Slots : Send(k) \/ Commit(k) \/ Rollback(k) \/ CommitLost(k) \/ Settle(k)
    \/ \E k \in Slots, i \in Instances : ProcessInstance(k, i)
    \/ SendFails
    \/ TimeOut
    \/ \E n \in DOMAIN log : AgentRestart(n)
    \/ ServerRestart

Spec == Init /\ [][Next]_vars

-----------------------------------------------------------------------------
\* The role stored for an instance is the role its last stored role event
\* announced: a rolled-back, retried, replayed or overlapping attempt, an
\* eviction or a restart of the server (pipeline.go, storedRole and the
\* deferred undos) neither loses a transition nor stores one unannounced, as
\* long as no commit was reported as failed when it had gone through.
RoleReported ==
    ~unsure => \A i \in Instances :
        \/ db.instances[i].role = db.reported[i]
        \/ db.instances[i].role = "unknown" /\ db.reported[i] = ""

SentAt(ts) == log[CHOOSE n \in DOMAIN log : log[n].ts = ts]

\* The rate points stored for a series (delta.Batch, ON CONFLICT DO NOTHING)
\* cover disjoint intervals, so no increase of a counter is stored twice, and
\* none spans a statistics reset that both of its samples marked.  One case is
\* left out: an attempt that was in flight when the agent went back by more
\* than one envelope.  If the baseline is lost as well, the attempt is measured
\* from a replayed sample and its point covers intervals stored before.
PointsSound ==
    \A p \in db.points :
        /\ \A q \in db.points \ {p} : p.instance = q.instance =>
              p.to <= q.from \/ q.to <= p.from \/ \E n \in stragglers : log[n].ts \in {p.to, q.to}
        /\ LET u == SentAt(p.from)
               v == SentAt(p.to)
           IN  u.reports[p.instance].marker /\ v.reports[p.instance].marker
               => u.counters[p.instance].epoch = v.counters[p.instance].epoch

\* A result is counted once (countChecks), however often its envelope is sent
\* again while its mark can still stand, that is, within the eviction age.
CountedOnce == \A i \in Instances : \A n \in DOMAIN tally[i] : tally[i][n] <= 1

Apart(times, window) ==
    \A j, m \in DOMAIN times : j # m => times[j] - times[m] >= window
                                        \/ times[m] - times[j] >= window

\* The events that a standing condition repeats are stored at most once a
\* window: cardinality_truncated always, orphan_standby as long as no commit
\* was reported as failed when it had gone through.
EventsSpaced ==
    \A i \in Instances : /\ Apart(db.truncations[i], truncationWindow)
                         /\ unsure \/ Apart(db.orphans[i], orphanWindow)
=============================================================================
