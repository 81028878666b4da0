-------------------------------- MODULE Agent --------------------------------
(***************************************************************************)
(* One target of an agent process: the manager's pools and its database    *)
(* discovery, the cached cluster identity, the identity file, the session  *)
(* sampler with its dedicated connection, and the shutdown that closes     *)
(* them.  Three callers share the manager: a scheduled check, the command  *)
(* dispatcher and the schedule's reconcile.                                *)
(***************************************************************************)
EXTENDS Selection

CONSTANTS
    Names, ownDB,           \* databases, and the one the target's DSN names
    Rankings,               \* databases of the instance, busiest first
    Views,                  \* where pg_stat_statements may be created next
    Batches,                \* sessions one sampling tick may see
    MaxConnsPerInstance,    \* connections of the target's shared pool
    maxConnsPerDatabase,
    Target, OtherTarget,    \* the target, and another one of the same process
    Starts                  \* environments a behaviour starts in, with its bounds

Callers == {"check", "cmd", "rec"}
Targets == {Target, OtherTarget}
None == "none"
Instance == ""              \* the datname of the shared connection
Legacy == "legacy"           \* the fingerprint Target had before an upgrade

NoRead == [agent |-> 0, ids |-> [f \in Targets \cup {Legacy} |-> 0]]

\* The id an identity file tells for a target.
Recorded(file, t) ==
    IF file.ids[t] = 0 /\ t = Target THEN file.ids[Legacy] ELSE file.ids[t]

Servers == [ranked : Seq(Names), view : Names, denied : {"never", "yes", "lifted"}]
Budgets == [calls : Nat, changes : Nat, faults : Nat, ticks : Nat, restarts : Nat]
Files == [agent : Nat, ids : [Targets \cup {Legacy} -> Nat]]
Idents == [file : Files, stores : [Targets -> Files], next : Nat \ {0},
           told : [Targets -> Nat], toldAgent : Nat, known : SUBSET Targets]

\* A file whose ids differ, or none, and what was reported from it.
Consistent(i) ==
    /\ i \in Idents
    /\ i.file.agent = 0 => i.file = NoRead
    /\ \A f \in Targets \cup {Legacy} : i.file.ids[f] < i.next
    /\ \A f, g \in Targets \cup {Legacy} : f # g /\ i.file.ids[f] = i.file.ids[g] => i.file.ids[f] = 0
    /\ \A t \in Targets : i.told[t] \in {0, Recorded(i.file, t)}
    /\ i.toldAgent \in {0, i.file.agent}

\* What an earlier process can have left: nothing of it is in memory yet.
LeftBehind(i) == Consistent(i) /\ i.stores = [t \in Targets |-> NoRead]

ASSUME AgentAssumption ==
    /\ Target # OtherTarget /\ Legacy \notin Targets
    /\ Rankings \subseteq Seq(Names) /\ Views \subseteq Names
    /\ \A s \in Starts : s.server \in Servers /\ s.budget \in Budgets /\ LeftBehind(s.ident)

VARIABLES
    server,     \* databases, where pg_stat_statements is, was pg_control_system ever refused
    budget,     \* calls, changes, faults, ticks and restarts still to come
    main,       \* the main goroutine: run, then the steps of the shutdown
    proc,       \* the callers
    pools,      \* databases with an open pool, least recently used first
    mgr,        \* the manager's monitored, scheduled and statements databases
    gate,       \* what the running schedule was built from
    cache,      \* the identity cache
    initMu,     \* the caller filling the cache
    ash,        \* the sampler and its connection
    agg,        \* the open window
    sum,        \* what was sampled and what was reported
    ident       \* the identity file, its copies in memory, the ids reported

data == <<pools, mgr, gate>>
caches == <<cache, initMu, ident>>
sampling == <<ash, agg, sum>>
vars == <<server, budget, main, proc, pools, mgr, gate, cache, initMu, ash, agg, sum, ident>>

Idle == [pc |-> "idle", db |-> None, got |-> FALSE, closed |-> FALSE, list |-> <<>>,
         todo |-> {}, where |-> None, found |-> FALSE, unknown |-> FALSE,
         listed |-> FALSE, usable |-> FALSE, again |-> FALSE, id |-> None]
NoCache == [cluster |-> None, ext |-> FALSE]
Fresh == [counts |-> NoSamples, ticks |-> 0, failed |-> 0, err |-> FALSE]
NoSum == [sampled |-> 0, ticks |-> 0, sent |-> 0, sentTicks |-> 0,
          last |-> [kind |-> "none", buckets |-> <<>>, ticks |-> 0, err |-> FALSE]]
NoAsh == [pc |-> "idle", conn |-> "none", closed |-> FALSE, wait |-> FALSE, batch |-> <<>>, ok |-> FALSE]

Init ==
    /\ \E s \in Starts : server = s.server /\ budget = s.budget /\ ident = s.ident
    /\ main = "run"
    /\ proc = [p \in Callers |-> Idle]
    /\ pools = <<>>
    /\ mgr = [monitored |-> {}, scheduled |-> {}, seeded |-> FALSE, statements |-> None]
    /\ gate = [seen |-> FALSE, databases |-> {}, statements |-> FALSE]
    /\ cache = NoCache
    /\ initMu = None
    /\ ash = NoAsh
    /\ agg = Fresh
    /\ sum = NoSum

-----------------------------------------------------------------------------
\* Locks, contexts and connections.

Locked == main = "closing"                  \* Close holds the manager's mutex
ctxDone == main # "run"
Fault == budget.faults > 0 /\ budget' = [budget EXCEPT !.faults = @ - 1]
NoFault == UNCHANGED budget

\* A caller whose context has ended is refused, and so is one whose server does
\* not answer.
Refused == IF ctxDone THEN NoFault ELSE Fault

HoldsTarget(p) ==
    \/ proc[p].pc \in {"discovering", "discovered", "identity", "fill", "refreshing"}
    \/ proc[p].pc \in {"use", "asking"} /\ proc[p].db = Instance
HoldsDatabase(p) ==
    /\ proc[p].db \in Names
    /\ proc[p].pc \in {"use", "asking"} \/ (proc[p].pc = "account" /\ proc[p].got)
SharedInUse == Cardinality({p \in Callers : HoldsTarget(p)}) + (IF ash.conn = "none" THEN 0 ELSE 1)
SharedFree == SharedInUse < MaxConnsPerInstance
\* PGVersion and HasExtension, which the reconcile calls, wait on a context of their own.
Free(p) == SharedFree /\ (~ctxDone \/ (p = "rec" /\ proc[p].pc = "init" /\ ~Locked))

perDatabaseMaxConns ==
    IF MaxConnsPerInstance > 0 /\ MaxConnsPerInstance < maxConnsPerDatabase
    THEN MaxConnsPerInstance ELSE maxConnsPerDatabase
DatabaseFree(d) ==
    /\ ~ctxDone /\ d \in Range(server.ranked)
    /\ Cardinality({p \in Callers : HoldsDatabase(p) /\ proc[p].db = d}) < perDatabaseMaxConns

At(p, pc) == main # "closed" /\ proc[p].pc = pc
Go(p, pc) == proc' = [proc EXCEPT ![p].pc = pc]
Done(p) == proc' = [proc EXCEPT ![p] = Idle]
-----------------------------------------------------------------------------
\* Starting and failing.

CanCall == main = "run" /\ budget.calls > 0 /\ budget' = [budget EXCEPT !.calls = @ - 1]

\* The first gate is read before anything else runs.
StartReconcile ==
    /\ At("rec", "idle") /\ CanCall /\ Go("rec", "discover")
    /\ UNCHANGED <<server, main, data, caches, sampling>>

isScheduled(d) == d = ownDB \/ d = mgr.statements \/ d \in mgr.scheduled
isMonitored(d) == d = ownDB \/ d \in mgr.monitored

ScheduledConnFor ==
    /\ At("check", "idle") /\ gate.seen /\ CanCall
    /\ \/ proc' = [proc EXCEPT !["check"].pc = "share", !["check"].db = Instance]
       \/ \E d \in gate.databases :
             /\ isScheduled(d)
             /\ proc' = [proc EXCEPT !["check"].pc = "pick", !["check"].db = d]
    /\ UNCHANGED <<server, main, data, caches, sampling>>

\* A command refreshes the capabilities before it asks for its connection.
StartCommand ==
    /\ At("cmd", "idle") /\ gate.seen /\ CanCall
    /\ \E d \in Names \cup {Instance} : proc' = [proc EXCEPT !["cmd"].pc = "cache", !["cmd"].db = d]
    /\ UNCHANGED <<server, main, data, caches, sampling>>

\* What each caller does after a step it asked of the manager has failed.
Fail(p) ==
    CASE p # "rec" -> Idle
      [] p = "rec" /\ proc[p].pc \in {"discover", "discovering"} ->
            IF ctxDone THEN Idle ELSE [proc[p] EXCEPT !.pc = "cache"]
      [] p = "rec" /\ proc[p].pc \in {"init", "identity", "fill"} ->
            IF proc[p].listed /\ ~proc[p].again THEN [proc[p] EXCEPT !.pc = "cache", !.again = TRUE]
            ELSE [proc[p] EXCEPT !.pc = "versioned"]
      [] OTHER -> [proc[p] EXCEPT !.pc = "locate", !.todo = @ \ {proc[p].db}, !.unknown = TRUE,
                                  !.db = None, !.got = FALSE, !.closed = FALSE]

-----------------------------------------------------------------------------
\* Discover.  The shared connection is held until the sets are published.

DiscoverConn(p) ==
    /\ At(p, "discover")
    /\ \/ Free(p) /\ Go(p, "discovering") /\ NoFault
       \/ Refused /\ proc' = [proc EXCEPT ![p] = Fail(p)]
    /\ UNCHANGED <<server, main, data, caches, sampling>>

DiscoverQuery(p) ==
    /\ At(p, "discovering")
    /\ \/ /\ proc' = [proc EXCEPT ![p].pc = "discovered", ![p].list = selectDatabases(server.ranked)]
          /\ NoFault
       \/ Refused /\ proc' = [proc EXCEPT ![p] = Fail(p)]
    /\ UNCHANGED <<server, main, data, caches, sampling>>

Discover(p) ==
    /\ At(p, "discovered") /\ ~Locked
    /\ LET latest == Monitored(proc[p].list)
       IN  mgr' = [mgr EXCEPT !.monitored = latest, !.seeded = TRUE,
                              !.scheduled = IF mgr.seeded THEN @ ELSE latest]
    /\ proc' = [proc EXCEPT ![p] = CASE p = "cmd" -> [@ EXCEPT !.pc = "recheck", !.list = <<>>]
                                     [] p = "rec" /\ ctxDone -> Idle
                                     [] OTHER -> [@ EXCEPT !.pc = "cache", !.listed = TRUE]]
    /\ UNCHANGED <<server, budget, main, pools, gate, caches, sampling>>

-----------------------------------------------------------------------------
\* The identity cache, filled once under initMu.

cacheReady == cache.cluster # None
\* PGVersion decides whether the read is usable; HasExtension asks once more.
Cached(p) == IF p = "cmd" THEN [proc[p] EXCEPT !.pc = "refresh"]
             ELSE [proc[p] EXCEPT !.pc = "versioned", !.usable = @ \/ (proc[p].listed /\ ~proc[p].again)]

ensureCache(p) ==
    /\ At(p, "cache")
    /\ \/ cacheReady /\ proc' = [proc EXCEPT ![p] = Cached(p)] /\ UNCHANGED initMu
       \/ ~cacheReady /\ initMu = None /\ initMu' = p /\ Go(p, "init")
    /\ UNCHANGED <<server, budget, main, data, cache, ident, sampling>>

CacheConn(p) ==
    /\ At(p, "init")
    /\ \/ Free(p) /\ Go(p, "identity") /\ NoFault /\ UNCHANGED initMu
       \/ Refused /\ proc' = [proc EXCEPT ![p] = Fail(p)] /\ initMu' = None
    /\ UNCHANGED <<server, main, data, cache, ident, sampling>>

\* Only a denial falls back to the manual id; any other error caches nothing.
queryClusterIdentity(p) ==
    /\ At(p, "identity")
    /\ \/ /\ proc' = [proc EXCEPT ![p].pc = "fill", ![p].id = IF server.denied = "yes" THEN "manual" ELSE "system"]
          /\ NoFault /\ UNCHANGED initMu
       \/ Refused /\ proc' = [proc EXCEPT ![p] = Fail(p)] /\ initMu' = None
    /\ UNCHANGED <<server, main, data, cache, ident, sampling>>

\* The identity file.  One store per path holds its content for the process.
StorePerTarget(t) == t
StoreKey(t) == Target
Opened(t) == LET k == StoreKey(t)
             IN  CASE ident.stores[k].agent > 0 -> ident.stores[k]
                   [] ident.stores[k].agent = 0 /\ ident.file.agent > 0 -> ident.file
                   [] OTHER -> [NoRead EXCEPT !.agent = ident.next]
persistLocked(t, content, next) ==
    [ident EXCEPT !.stores[StoreKey(t)] = content, !.file = content, !.next = next]

\* instanceID: the id of the fingerprint, the one of the legacy entry, which
\* moves, or a new one.
instanceID(t, store) ==
    LET hasLegacy == t = Target /\ store.ids[Legacy] > 0
        next == IF ident.file.agent = 0 THEN ident.next + 1 ELSE ident.next
        id == CASE store.ids[t] > 0 -> store.ids[t]
                [] store.ids[t] = 0 /\ hasLegacy -> store.ids[Legacy]
                [] OTHER -> next
    IN  [id |-> id, next |-> IF id = next THEN next + 1 ELSE next,
         store |-> [store EXCEPT !.ids = [store.ids EXCEPT ![t] = id, ![Legacy] = IF t = Target THEN 0 ELSE store.ids[Legacy]]]]

localIdentity(t) ==
    LET r == instanceID(t, Opened(t))
        known == Opened(t) = r.store
    IN  ident' = [(IF known THEN [ident EXCEPT !.stores[StoreKey(t)] = r.store]
                   ELSE persistLocked(t, r.store, r.next))
                  EXCEPT !.told[t] = r.id, !.toldAgent = r.store.agent, !.known = @ \cup {t}]

\* A failed write leaves the file and the memory as they were before it: the
\* one that creates the file, or the one that adds the id.
localIdentityFails(t) ==
    \/ ident.file.agent = 0 /\ ident' = ident
    \/ ident.file.agent = 0 /\ ident' = persistLocked(t, Opened(t), ident.next + 1)
    \/ ident.file.agent > 0 /\ ident' = [ident EXCEPT !.stores[StoreKey(t)] = Opened(t)]

\* Capabilities that cannot be read count as none until they are read again.
FillCache(p) ==
    /\ At(p, "fill")
    /\ \/ /\ localIdentity(Target)
          /\ \E read \in BOOLEAN :
               /\ IF read THEN NoFault ELSE Fault
               /\ cache' = [cluster |-> proc[p].id, ext |-> read /\ server.view = ownDB]
          /\ proc' = [proc EXCEPT ![p] = [Cached(p) EXCEPT !.id = None]]
       \/ /\ Fault /\ localIdentityFails(Target)
          /\ proc' = [proc EXCEPT ![p] = [Fail(p) EXCEPT !.id = None]] /\ UNCHANGED cache
    /\ initMu' = None
    /\ UNCHANGED <<server, main, data, sampling>>

\* The other targets of the process read their ids from the same store.
OtherIdentity ==
    /\ main = "run" /\ OtherTarget \notin ident.known /\ budget.restarts > 0
    /\ \/ NoFault /\ localIdentity(OtherTarget)
       \/ Fault /\ localIdentityFails(OtherTarget)
    /\ UNCHANGED <<server, main, proc, data, cache, initMu, sampling>>

\* A command reads the capabilities again on a connection of its own.
RefreshCapabilities(p) ==
    \/ /\ At(p, "refresh")
       /\ \/ Free(p) /\ Go(p, "refreshing") /\ NoFault
          \/ Refused /\ Done(p)
       /\ UNCHANGED <<server, main, data, caches, sampling>>
    \/ /\ At(p, "refreshing")
       /\ \/ /\ cache' = [cache EXCEPT !.ext = server.view = ownDB] /\ NoFault
             /\ Go(p, IF proc[p].db = Instance THEN "share" ELSE "require")
          \/ Refused /\ Done(p) /\ UNCHANGED cache
       /\ UNCHANGED <<server, main, data, initMu, ident, sampling>>

requireMonitored(p) ==
    /\ p = "cmd" /\ proc[p].pc \in {"require", "recheck"} /\ main # "closed" /\ ~Locked
    /\ proc' = [proc EXCEPT ![p] = CASE isMonitored(@.db) -> [@ EXCEPT !.pc = "pick"]
                                     [] ~isMonitored(@.db) /\ @.pc = "require" -> [@ EXCEPT !.pc = "discover"]
                                     [] OTHER -> Idle]
    /\ UNCHANGED <<server, budget, main, data, caches, sampling>>

-----------------------------------------------------------------------------
\* ForDatabase: pick or open the pool, acquire, account.

Waiting(p) == proc[p].pc \in {"acquire", "account"}
BusyOnceAcquired == {proc[p].db : p \in {q \in Callers : HoldsDatabase(q)}}
Busy == {proc[p].db : p \in {q \in Callers : HoldsDatabase(q) \/ Waiting(q)}}

ForDatabase(p) ==
    /\ At(p, "pick") /\ ~Locked
    /\ LET d == proc[p].db
           gone == IF d \in Range(pools) THEN {} ELSE Evict(pools, Busy)
       IN  /\ pools' = Append(SelectSeq(pools, LAMBDA e : e # d /\ e \notin gone), d)
           /\ proc' = [q \in Callers |->
                 IF q = p THEN [proc[p] EXCEPT !.pc = "acquire"]
                 ELSE [proc[q] EXCEPT !.closed = @ \/ (proc[q].db \in gone /\ (HoldsDatabase(q) \/ Waiting(q)))]]
    /\ UNCHANGED <<server, budget, main, mgr, gate, caches, sampling>>

\* A database that is gone, or a pool that was closed meanwhile, has no
\* connection to give.
Acquire(p) ==
    /\ At(p, "acquire")
    /\ \/ /\ DatabaseFree(proc[p].db) /\ ~proc[p].closed /\ NoFault
          /\ proc' = [proc EXCEPT ![p].pc = "account", ![p].got = TRUE]
       \/ /\ \/ Refused
             \/ (proc[p].closed \/ proc[p].db \notin Range(server.ranked)) /\ NoFault
          /\ Go(p, "account")
    /\ UNCHANGED <<server, main, data, caches, sampling>>

Account(p) ==
    /\ At(p, "account") /\ ~Locked
    /\ \/ proc[p].got /\ Go(p, "use") /\ NoFault
       \/ (IF proc[p].got THEN Refused ELSE NoFault) /\ proc' = [proc EXCEPT ![p] = Fail(p)]
    /\ UNCHANGED <<server, main, data, caches, sampling>>

ShareConn(p) ==
    /\ At(p, "share")
    /\ \/ Free(p) /\ Go(p, "use") /\ NoFault
       \/ Refused /\ Done(p)
    /\ UNCHANGED <<server, main, data, caches, sampling>>

\* A check or a command works on its connection, may ask the manager for its
\* scheduled or statements database meanwhile, and releases it.
Use(p) ==
    /\ p # "rec"
    /\ \/ At(p, "use") /\ (Go(p, "asking") \/ Done(p))
       \/ At(p, "asking") /\ ~Locked /\ Done(p)
    /\ UNCHANGED <<server, budget, main, data, caches, sampling>>

-----------------------------------------------------------------------------
\* readTargetGate and reconcile.

Lookup == LET r == proc["rec"]
              held == IF gate.seen /\ ~r.usable THEN gate.databases ELSE keepDatabases(gate.databases, r.list)
          IN  held \cap Listed(r.list)

ReadVersion ==
    /\ At("rec", "versioned")
    /\ LET r == proc["rec"]
       IN  proc' = [proc EXCEPT !["rec"] =
             IF r.listed THEN [r EXCEPT !.pc = "locate", !.todo = Lookup, !.found = cache.ext] ELSE [r EXCEPT !.pc = "adopt"]]
    /\ UNCHANGED <<server, budget, main, data, caches, sampling>>

\* LocateStatements looks in the order of the discovery and stops at the first
\* database with the view.
LocateNext ==
    /\ At("rec", "locate") /\ ~proc["rec"].found /\ proc["rec"].todo # {}
    /\ LET r == proc["rec"]
           first == Min({i \in DOMAIN r.list : r.list[i].name \in r.todo})
       IN  proc' = [proc EXCEPT !["rec"].pc = "pick", !["rec"].db = r.list[first].name]
    /\ UNCHANGED <<server, budget, main, data, caches, sampling>>

LookAt ==
    /\ At("rec", "use")
    /\ LET r == proc["rec"]
           looked == [r EXCEPT !.pc = "locate", !.todo = @ \ {r.db}, !.db = None, !.got = FALSE, !.closed = FALSE]
       IN  \/ /\ NoFault
              /\ proc' = [proc EXCEPT !["rec"] = IF server.view = r.db THEN [looked EXCEPT !.found = TRUE, !.where = r.db] ELSE looked]
           \/ Refused /\ proc' = [proc EXCEPT !["rec"] = Fail("rec")]
    /\ UNCHANGED <<server, main, data, caches, sampling>>

LocateStatements ==
    /\ At("rec", "locate") /\ (proc["rec"].found \/ proc["rec"].todo = {})
    /\ IF proc["rec"].found \/ ~proc["rec"].unknown
       THEN ~Locked /\ mgr' = [mgr EXCEPT !.statements = proc["rec"].where]
       ELSE UNCHANGED mgr
    /\ Go("rec", "adopt")
    /\ UNCHANGED <<server, budget, main, pools, gate, caches, sampling>>

nextGate(r) ==
    IF ~gate.seen THEN [seen |-> TRUE, databases |-> Monitored(r.list), statements |-> r.found]
    ELSE IF ~r.usable THEN gate
    ELSE [seen |-> TRUE, databases |-> keepDatabases(gate.databases, r.list),
          statements |-> IF r.found \/ ~r.unknown THEN r.found ELSE gate.statements]

\* The schedule is rebuilt when its gate changed, and never once it is stopped.
reconcile ==
    /\ At("rec", "adopt") /\ Done("rec")
    /\ LET next == nextGate(proc["rec"])
       IN  IF next = gate \/ main \notin {"run", "cancelled"} THEN UNCHANGED <<gate, mgr>>
           ELSE gate' = next /\ mgr' = [mgr EXCEPT !.scheduled = next.databases, !.seeded = TRUE]
    /\ UNCHANGED <<server, budget, main, pools, caches, sampling>>

-----------------------------------------------------------------------------
\* The session sampler.  A tick asks its connection, which is dialled again
\* when it is dead, except while a failed dial is recent and once it is closed.

FailedTick(a) == [a EXCEPT !.pc = "end", !.ok = FALSE]

SampleTick ==
    /\ main # "closed" /\ ash.pc = "idle" /\ budget.ticks > 0
    /\ budget' = [budget EXCEPT !.ticks = @ - 1]
    /\ LET a == [ash EXCEPT !.conn = IF @ = "dead" THEN "none" ELSE @]
       IN  \/ ash.closed /\ ash' = FailedTick(ash)
           \/ ~ash.closed /\ a.conn = "live" /\ ash' = [a EXCEPT !.pc = "read"]
           \/ ~ash.closed /\ a.conn = "none" /\ a.wait /\ ash' = FailedTick(a)
           \/ ~ash.closed /\ a.conn = "none" /\ ash' = [a EXCEPT !.pc = "connect"]
    /\ UNCHANGED <<server, main, proc, data, caches, agg, sum>>

connectLocked ==
    /\ main # "closed" /\ ash.pc = "connect"
    /\ \/ SharedFree /\ ~ctxDone /\ NoFault /\ ash' = [ash EXCEPT !.pc = "read", !.conn = "live", !.wait = FALSE]
       \/ Refused /\ ash' = [FailedTick(ash) EXCEPT !.wait = TRUE]
    /\ UNCHANGED <<server, main, proc, data, caches, agg, sum>>

\* The rows of a tick are held back until all of them have been read.
doSample ==
    /\ main # "closed" /\ ash.pc = "read"
    /\ \/ \E b \in Batches : NoFault /\ ash' = [ash EXCEPT !.pc = "add", !.batch = b, !.ok = TRUE]
       \/ /\ Refused
          /\ \E c \in {ash.conn, "dead"} :
                /\ c = "dead" => ash.conn = "live"
                /\ ash' = [FailedTick(ash) EXCEPT !.conn = c]
    /\ UNCHANGED <<server, main, proc, data, caches, agg, sum>>

Add ==
    /\ main # "closed" /\ ash.pc = "add"
    /\ IF ash.batch = <<>> THEN ash' = [ash EXCEPT !.pc = "end"] /\ UNCHANGED <<agg, sum>>
       ELSE /\ ash' = [ash EXCEPT !.batch = Tail(@)]
            /\ agg' = [agg EXCEPT !.counts[Head(ash.batch)] = @ + 1]
            /\ sum' = [sum EXCEPT !.sampled = @ + 1]
    /\ UNCHANGED <<server, budget, main, proc, data, caches>>

tick ==
    /\ main # "closed" /\ ash.pc = "end"
    /\ agg' = IF ash.ok THEN [agg EXCEPT !.ticks = @ + 1]
              ELSE [agg EXCEPT !.failed = @ + 1, !.err = TRUE]
    /\ sum' = IF ash.ok THEN [sum EXCEPT !.ticks = @ + 1] ELSE sum
    /\ ash' = [ash EXCEPT !.pc = "idle"]
    /\ UNCHANGED <<server, budget, main, proc, data, caches>>

Samples(buckets) == MapThenSumSet(LAMBDA k : buckets[k], DOMAIN buckets)

\* The window's end may fall between two rows of a tick.
flush ==
    /\ main \in {"run", "cancelled"} /\ agg # Fresh
    /\ LET r == ashWindowResult(agg)
       IN  sum' = [sum EXCEPT !.sent = @ + Samples(r.buckets), !.sentTicks = @ + r.ticks, !.last = r]
    /\ agg' = Fresh
    /\ UNCHANGED <<server, budget, main, proc, data, caches, ash>>

-----------------------------------------------------------------------------
\* Shutdown.

Cancel == /\ main = "run" /\ gate.seen /\ main' = "cancelled"
          /\ UNCHANGED <<server, budget, proc, data, caches, sampling>>
StopSchedules == /\ main = "cancelled" /\ main' = "stopping"
                 /\ UNCHANGED <<server, budget, proc, data, caches, sampling>>
\* Running scrapes are awaited, for a limited time.
Drained ==
    /\ main = "stopping" /\ main' = "drained"
    /\ IF proc["check"].pc = "idle" THEN NoFault ELSE Fault
    /\ UNCHANGED <<server, proc, data, caches, sampling>>
CloseSampler ==
    /\ main = "drained" /\ main' = "quiet"
    /\ ash.pc # "connect"                       \* a dial holds the connection's mutex
    /\ ash' = [ash EXCEPT !.closed = TRUE, !.conn = "none"]
    /\ UNCHANGED <<server, budget, proc, data, caches, agg, sum>>
CloseManagersFirst == /\ main = "drained" /\ main' = "closing"
                      /\ UNCHANGED <<server, budget, proc, data, caches, sampling>>
Close == /\ main = "quiet" /\ main' = "closing"
         /\ UNCHANGED <<server, budget, proc, data, caches, sampling>>
\* Every pool waits for its connections, with the manager's mutex held.
CloseEnds ==
    /\ main = "closing" /\ main' = "closed"
    /\ SharedInUse = 0 /\ \A p \in Callers : ~HoldsDatabase(p)
    /\ UNCHANGED <<server, budget, proc, data, caches, sampling>>

-----------------------------------------------------------------------------
\* Around the agent: the instance changes, the process is killed and starts.

Change ==
    /\ budget.changes > 0 /\ budget' = [budget EXCEPT !.changes = @ - 1]
    /\ \/ \E r \in Rankings \ {server.ranked} : server' = [server EXCEPT !.ranked = r]
       \/ \E d \in Views \ {server.view} : server' = [server EXCEPT !.view = d]
       \/ server.denied = "yes" /\ server' = [server EXCEPT !.denied = "lifted"]
    /\ UNCHANGED <<main, proc, data, caches, sampling>>

Restart ==
    /\ main = "run" /\ budget.restarts > 0 /\ budget' = [budget EXCEPT !.restarts = @ - 1]
    /\ proc' = [p \in Callers |-> Idle]
    /\ pools' = <<>>
    /\ mgr' = [monitored |-> {}, scheduled |-> {}, seeded |-> FALSE, statements |-> None]
    /\ gate' = [seen |-> FALSE, databases |-> {}, statements |-> FALSE]
    /\ cache' = NoCache /\ initMu' = None
    /\ ash' = NoAsh /\ agg' = Fresh /\ sum' = NoSum
    /\ ident' = [ident EXCEPT !.stores = [t \in Targets |-> NoRead], !.known = {}]
    /\ UNCHANGED <<server, main>>

Step(p) ==
    \/ DiscoverConn(p) \/ DiscoverQuery(p) \/ Discover(p)
    \/ ensureCache(p) \/ CacheConn(p) \/ queryClusterIdentity(p) \/ FillCache(p)
    \/ RefreshCapabilities(p) \/ requireMonitored(p)
    \/ ForDatabase(p) \/ Acquire(p) \/ Account(p) \/ ShareConn(p) \/ Use(p)
Reconcile == ReadVersion \/ LocateNext \/ LookAt \/ LocateStatements \/ reconcile
Sampler == connectLocked \/ doSample \/ Add \/ tick
Shutdown == StopSchedules \/ Drained \/ CloseSampler \/ Close \/ CloseEnds

Next ==
    \/ StartReconcile \/ ScheduledConnFor \/ StartCommand \/ (\E p \in Callers : Step(p)) \/ Reconcile
    \/ OtherIdentity \/ SampleTick \/ Sampler \/ flush
    \/ Cancel \/ Shutdown \/ Change \/ Restart

Fairness ==
    /\ \A p \in Callers : WF_vars(Step(p))
    /\ WF_vars(Reconcile) /\ WF_vars(Sampler) /\ WF_vars(Shutdown)

Spec == Init /\ [][Next]_vars /\ Fairness
-----------------------------------------------------------------------------
\* Properties.

(* While the agent runs, no caller ever finds the pool it was given closed: an
   eviction that makes room for another database spares every pool with a
   connection checked out and every pool a caller is still waiting on
   (Manager.ForDatabase, between its two critical sections). *)
PoolsKeptOpen ==
    main \notin {"closing", "closed"} => \A p \in Callers : ~proc[p].closed

(* Every sampled session and every successful tick is in exactly one reported
   window or in the open one, however windows, ticks and rows interleave; a
   window never reports more keys than its cap, and one that reports an error
   carries the error of one of its own ticks (Aggregator.Flush, capConserved,
   ashTicks.flush, ashWindowResult). *)
SamplesConserved ==
    /\ sum.sampled = sum.sent + Samples(agg.counts)
    /\ sum.ticks = sum.sentTicks + agg.ticks
    /\ Cardinality(DOMAIN sum.last.buckets) <= maxKeys
    /\ sum.last.kind = "error" => sum.last.err

(* The ids a target and its agent were reported under never change, not by a
   second target of the process, a failed write, an upgrade of the fingerprint
   or a restart; the cluster id never changes within a process, and it is the
   manual one only if the server really refused to tell its own
   (identity.Store, identityStore, ensureCache, queryClusterIdentity). *)
IdentityKept ==
    [][/\ \A t \in Targets : ident.told[t] > 0 => ident'.told[t] = ident.told[t]
       /\ ident.toldAgent > 0 => ident'.toldAgent = ident.toldAgent
       /\ ident'.told[Target] = ident'.told[OtherTarget] => ident'.told[Target] = 0
       /\ cacheReady /\ budget'.restarts = budget.restarts => cache'.cluster = cache.cluster
       /\ cache'.cluster = "manual" => server.denied # "never"]_vars

\* A caller that holds a connection waits for the mutex Close waits under.
HeldUp ==
    /\ main = "closing"
    /\ \E p \in Callers : (HoldsTarget(p) \/ HoldsDatabase(p)) /\ proc[p].pc \in {"discovered", "asking", "account"}

(* A shutdown ends: once the process is told to stop, every pool is eventually
   closed, whatever the sampler, the checks, the commands and the reconcile are
   in the middle of. The one exception is a caller that holds a connection and
   needs the manager's mutex in the moment Manager.Close takes it (closeTargets,
   ashConn.Close, Manager.Close). *)
ShutdownEnds == (main # "run") ~> (main = "closed" \/ HeldUp)
=============================================================================
