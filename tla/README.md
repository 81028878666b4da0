# Formal models of pglens

pglens monitors PostgreSQL. An **agent** beside the monitored instances runs
checks on a schedule, samples sessions, executes operator commands, and puts
what it collected into a **disk buffer** from which a **pusher** delivers
envelopes to the **server**. The server stores them (inventory, delta engine,
topology engine, pipeline), and three evaluators, each under a leader lock shared
by the server's replicas, work on what is stored: **alerts**, **staleness** and
the **advisor**. Operators queue **commands** at the server; the agent polls them.

The modules here are translations of that code into TLA+. TLC checks them on
small instances; TLAPS proves, for every size, the safety of the disk buffer, the
delivery, the command queue with its executors, the collector, the agent's pools and
identities, the ingest, and the alert engine. `PROJECT.json` maps each definition to the lines it
translates.

## Modules and code

| Module | Code | State and actions |
|---|---|---|
| `Buffer` | `internal/agent/buffer/buffer.go` | segments, `.acked`, the read cursor and the statistics; `Append`, `Next`, the ack, `Rewind`, `Close`, `Open`, retention by size and age, failed writes and unlinks, kills, power failures, decayed payloads |
| `RecordQueue` | the buffer's contract | the at-least-once queue that `Buffer` implements and `Delivery` uses |
| `Delivery` | `internal/agent/pusher.go`, `internal/server/ingest.go` | `RecordQueue`, the pusher's loop with its backoff and growing timeout, one request on the network, the handler with its limit and its late ends |
| `Commands` | `internal/server/commands.go`, `internal/agent/command.go`, `internal/command/*` | enqueue (count, insert), polls, claims, sweeps, the dispatcher, results, audit |
| `Executors` | `internal/command/exec_*.go`, `explain_guard.go` | what one command does on its session: guards, transaction, signal, cleanup |
| `Collector` | `internal/agent/scheduler.go`, `breaker.go`, `cmd/pglens-agent/schedule.go`, `run.go` | schedulers of two generations, worker slots, result channels, breakers, the reconcile, flushes, revocation, SIGTERM |
| `Agent`, `Selection` | `internal/agent/conn.go`, `cmd/pglens-agent/{schedule,ash,run}.go`, `internal/ash`, `internal/identity` | one target's pools, discovery, identity cache and file, the gate, the session sampler, the shutdown |
| `Statements` | `internal/check/stat_statements.go`, `scopesel.go`, `internal/cardinality/selector.go` | selection of statements per instance and database, the cache of shipped texts, the server's table of texts |
| `Ingest`, `Delta`, `Topology` | `internal/server/{ingest,inventory,pipeline}.go`, `internal/store/write.go`, `internal/delta`, `internal/topology` | envelopes of one agent, overlapping attempts and their transactions, what each engine remembers and undoes |
| `Alerts` | `internal/alert/*`, `notify/*` | the pass of a leader: samples, evaluator, table, claims, channels, retries, silences |
| `Staleness` | `internal/server/staleness.go` | the pass of a leader: `agent_down`/`agent_up`, `no_primary_in_cluster`, slots, purges |
| `Advisor`, `Rules`, `Snapshot` | `internal/advisor/*`, `internal/server/api_findings.go` | the pass of a leader, all 72 rules, the snapshot they read with its windows, mutes |

Each `MC…` module instantiates a specification for TLC; the `.cfg` files give the
constants their values. The `…Proofs` modules, with `BufferLemmas`, `EngineSteps` and
`EnginePasses`, hold the theorems.

How they interact: `Delivery` takes the buffer as `RecordQueue`, which the run
`buffer_power` shows `Buffer` to implement. `Collector`'s gate is what `Agent`'s
reconcile reads. `Ingest` starts where `Delivery`'s handler does and repeats its
retries and replays. `Alerts`, `Staleness` and `Advisor` start from the stored
rows that `Ingest` writes, given to them as a *story*: a sequence of periods,
each with the alternatives of what was reported in it.

## What the runs check

`buffer_crash`, `buffer_age`, `buffer_power` (module `MCBuffer`) differ in the
faults that are switched on. Records of one and two units, segments of two, and
a budget of two segments make every append a possible roll, and every other one
a possible removal; three or four records are enough for a removed, a partly
acked, a full and an active segment to exist at once.

- `NoSilentLoss`, `NothingStranded`: a written record is queued, acked, counted,
  or was unsynced at a power failure; the cursor skips none.
- `WithinBudget`, `DropCountExact`: the incrementally kept byte count equals the
  files and never exceeds `MaxSize`; `SamplesDropped` is exact.
- `OldestFirst`, `AckNeverMovesBack`: order of delivery, monotone acks.
- `QueueInv` is the inductive invariant of the proofs (`IndInv`) with the order of
  the records in the files; `KeepsPromise` is the refinement of `RecordQueue`. Its
  `Stop` may make settled records owed again, also those that were unsynced at an
  earlier power failure: the contract leaves open which of them survived it.

The power model takes each rename of `.acked` and each unsynced record as
revocable until the next `fsync` of a roll. It assumes that this `fsync` also
makes earlier renames in the directory durable, as journalling file systems do.

`delivery`: `Accounted`, `InOrder`, `RejectionStands`, `Delivered`. Two records,
the first of which may be unusable, one process exit, one change of the server's
mode and an attempt timeout that doubles once: a late handler, a retry and a
restart can be combined in one behaviour. `delivery_dropped` is a disagreement
between the documentation and the code, see below.

`commands`: `PoolClean` and `ActsOnWhatWasChecked` (a session returns to the pool
clean, and a signal or an `EXPLAIN` acts on what was checked), `AuditComplete`,
`AtMostOnce`, `Settled`. Two commands, two clients and a queue limit of one let
the count and the insert of two requests interleave; one fault at any point.

`collector`: `ScrapesAlone`, `SkipKept`, `ShutdownFlushes`, `FollowsRole`. Two
checks, one of them for standbys only, one worker and a results channel of one
slot make every queue full at some point.

`ingest`: `RoleReported`, `PointsSound`, `CountedOnce`, `EventsSpaced`. Three
envelopes of a primary and its standby, two attempts in flight, two faults, and a
restarted agent may send the whole log again (`MaxReplay` is its length). The
shapes of the reports contain a failover, two primaries, a report without owner,
one of another cluster, a truncated check and a statistics reset.

`alerts`: `DeliveredOnce`, `NeverStale`, `NothingSilent`, `TableFollows`. Two
replicas, a metric rule with a hold time, a spell and a pulse rule under a
silence, four periods, two faults, a history kept for two periods, so that rows and
claims are purged within a behaviour.

`staleness`: `OncePerTransition`, `SilenceAnnounced`. Two replicas, six periods
(longer than the retention of events), two faults up to the fourth.

`advisor`: `ClosedOnEvidence`, `MuteHolds`, `Converges`. Fourteen stories of five
periods in which rules fire and end, and in between checks are skipped or fail and
agents pause or leave, for less and for more than the windows of the rules; two
replicas, one fault, one mute. An instance is evaluated for longer
(`activeWindow` = 2) than its samples count (`recentWindow` = 1), as in the code.

`agent`: `PoolsKeptOpen`, `SamplesConserved`, `IdentityKept`, `ShutdownEnds`,
and for scrapes of `pg_stat_statements` `ReportSteady` and `TextsKnown`. The
starting states give each kind of behaviour (callers on the pools, the sampler,
identities over a restart, scrapes) its own budget of calls and faults. A pool
limit of one database and two connections makes callers wait and pools be
evicted. The scrapes share nothing with the rest but the process, and are run in
behaviours of their own.

`CHECK_DEADLOCK FALSE` stands where the bounds end a behaviour: the commands,
envelopes, calls or periods are used up, or the agent has exited.

### The disagreement

README.md:137 of the repository says of `dropped` that "a value above zero means
data was lost, not only delayed". `DroppedMeansLost` fails: retention
(`buffer.go:576`) also counts a record whose push is under way, and the server
may store that one.

## Fairness

Safety properties assume none. For the others:

- `Delivered`: the pusher's loop, the handler and the network's outcomes proceed
  weakly fairly. The loop is a goroutine that only ends with its context, every
  request has a timeout, every backoff a ticker. Nothing is assumed of the
  server's mode; the property speaks of behaviours in which it becomes good and
  stays so.
- `Settled`: time passes and somebody reads the command. The read sweeps expired
  commands, so the agent may be gone for good.
- `FollowsRole`: scrapes have deadlines, loops exit when told to, results are
  forwarded, and the reconcile and the push ticker fire.
- `SilenceAnnounced`: periods go by and an evaluation whose ticker fired takes its
  steps. `Converges`: passes go on, since every statement in them has a budget
  and tickers fire. The number of faults is bounded, which is the usual "once the
  database and the replicas behave".
- `ShutdownEnds`: each caller, the sampler and the main goroutine take the steps
  they can take. Waiting on a connection or a mutex is a guard, so a real
  deadlock would violate it.

## What is proved

Seven of the specifications have proofs that hold for every value of their constants.
In each, a theorem shows an inductive invariant, and the properties follow from it.
Each invariant was first checked by TLC on the instance of the runs.

**The disk buffer.** `BufferProofs`, on `BufferLemmas`, for every
number of records, sizes, budget, ages and faults:

- `IndInvariant`: `IndInv` holds always. `NothingLost`, `NoneStranded`,
  `AckMonotone` and `TypeCorrect` follow from it.

`NoSilentLoss` is not inductive. A stopped process has only its files, and what
the next `Open` makes of them depends on the checkpoint *and on those it may fall
back to* after a power failure. `FilesOK` therefore says of each possible
checkpoint that it passes no record that is neither accounted for nor unsynced;
`Fits` says that a checkpoint never lies beyond what will be appended next, the
reason why `Open` numbers new segments above it; `LeftoverOK` says that a
file whose removal failed is older than the live ones and holds nothing owed;
`CursorOK` and `InflightOK` relate the cursor, the acked position and the record
in flight. `BufferLemmas` shows what each helper (`newSegment`, `removeOldest`, the
retention loops, `Settled`, `findSegmentAfterAcked`) preserves; `BufferProofs` has one
lemma for each action and puts them together.

**Delivery.** `AgentProofs`, for every number and kind of records, every timeout,
limit of the handler and sequence of the server's modes:

- `RecordsAccounted` (`Accounted`), `ReplayInOrder` (`InOrder`) and `RejectionKept`
  (`RejectionStands`).

A `Confirm` takes a record *and all older ones* out of the queue. `DeliveryInv`
adds why that loses nothing: all that precedes the record offered, one a late handler
may still commit, or one stored, is stored, given up or counted; and an answer 202
is on the network only after the commit.

**Commands.** `WorkProofs`, for every number of commands, clients, faults, every
limit and lifetime:

- `ExecutedOnce`: a command runs at most once and only once claimed. `AtMostOnce` is
  not inductive; `OnceInv` adds that what waits was never claimed, that what was
  never claimed never ran, and that the dispatcher's command has not run until it
  starts it.
- `QueueBounded`: the waiting commands exceed `commandQueueLimit` by less than the
  number of concurrent requests (`QueueBound`, what the comment at
  `commands.go` on the count says). `QueueInv` counts the requests between their
  count and their insert with the commands that wait.
- `PoolStaysClean` and `ActsOnTheChecked`, from `ExecutorsInvariant`. `ExecInv` adds
  that only an `EXPLAIN` changes its session's role or leaves something in it, that
  there is no session outside an execution, and what was found out about the object
  that is about to be scanned or signalled.
- `AuditTells` (`AuditComplete`). `AuditInv` adds that each report under way, and the
  command in the dispatcher's hands, is the only one for a command that was claimed
  and has no outcome in the audit yet.

**The collector.** `WorkProofs`, for every set of checks and their roles, any
number of workers, slots of the results channel and changes of role:

- `ScrapesExclusive` (`ScrapesAlone`), `SkipsKept` (`SkipKept`) and
  `ShutdownLeavesNothing` (`ShutdownFlushes`).

`CollectorInv` says who may be in a critical section of `schedMu` (`Exclusion`), that
a scheduler with a closed channel has neither loop nor scrape, and one not yet started
has done nothing (`Lifecycle`). `InTime` says that, unless a scrape outlived its wait,
the schedulers that were replaced are over, and once the agent is stopped so is the
last. `Generations` bounds the schedulers started by the changes of role that have
reached the gate, so no generation falls outside the model's bound.

**The agent.** `AgentProofs`, for any databases, rankings, budgets and file left by an
earlier process:

- `NoPoolClosedUnderACaller` (`PoolsKeptOpen`) and `IdentitiesKept` (`IdentityKept`),
  from `AgentInvariant`.

`AgentInv` says that one caller at a time fills the identity cache, only while it is
empty and under `initMu`; that the manual id is in use only after the server refused
`pg_control_system`; and that the copy of the identity file in memory is the file or
nothing. Together with the different ids of the file's entries (`Consistent`) this is
why an identity that was once reported is reported again after any restart.

**Ingest.** `IngestProofs`, for any instances, clusters and shapes of envelopes, any
windows, number of attempts in flight, faults and *any depth of replay*:

- `RolesAgree` (`RoleReported`), `EventsKeepDistance` (`EventsSpaced`) and
  `ResultsCountedOnce` (`CountedOnce`), from `IngestInvariant`.

These relate the topology engine's memory, which an attempt changes before its
transaction commits, to the tables, which it changes after. `LocksOK` says that an
attempt holds the row lock of each instance it has applied, and that the engine still
holds there what the attempt wrote (or nothing, after an eviction or a restart), so
that undoing it is right. `RolesOK` says that the engine remembers the
stored role or none, except for what is in flight, where the mark to go back to does;
and that an attempt which stores another role carries its event. `OrphansOK` says
that each stored `orphan_standby` is *covered* by the engine's state and by the mark:
the state was dated since, or its evidence is gone or newer. `TruncationsOK` says that
the lock keeps true until the commit what `truncationEventDue` read. `CountsOK` says
that a counted result is below its instance's mark or too old to be counted
again. `EdgesKeep`, `ApplyKeeps` and `CommittedIs` show what reading the edges, an
observation and a commit preserve; one lemma for each action follows.

**Alerts.** `EngineProofs`, on `EngineSteps` and `EnginePasses`, for any number of
replicas, rules and channels, any silences, windows, retention, failures and any story:

- `ChannelOnce` (`DeliveredOnce`), `NoDeliveryLost` (`NothingSilent`), `TableAgrees`
  (`TableFollows`) and `FiringCurrent` (`NeverStale`), from `EngineSafe`.

`EngineInv` relates four places that no transaction spans: a replica's evaluator and
queues, the advisory lock, the two tables, and the channels. `LockInv` says that the
lock is with the session a replica believes to hold it with. `LeaderInv` says that, as
long as no pass ran beside another and no answer of the store was lost, the replica
that leads or is in its last pass has in its evaluator what the table shows open, and
the FIRING it works on is of such an episode. `ClaimInv` says that a claim is one
delivery in one replica's hands, and that what is still to be sent is not in the
channel, unless a channel accepted it and reported a failure. `RecordInv` and
`AnswerInv` say that every message is of a row on record or purged, and that for each
claim somebody answers until it is accepted, given up or reported. `purged` records
the episodes whose row or claims the purge removed: a replica that still holds such a
delivery may send it again, and the properties say so.

The assumptions are those named in the modules: natural bounds, positive sizes,
lifetimes, limits and timeouts (`Buffer`, `Delivery`, `Commands`, `Collector`, `Alerts`); an
order of the rules and a session holder that is no replica (`Alerts`); a check
is not named `"idle"` (`Collector`); targets and the legacy fingerprint differ, and a
start is from a file an earlier process left (`Agent`); an enumeration of the
instances, the order in which an envelope reports them (`Ingest`). TLC evaluates them
on every run of these modules.

### Only model-checked

- Every liveness property (`Delivered`, `Settled`, `FollowsRole`, `SilenceAnnounced`,
  `Converges`, `ShutdownEnds`): the prover does neither fairness nor `ENABLED`.
- Sums and folds (`WithinBudget`, `DropCountExact`, `SamplesConserved`): what a fold
  computes for every input needs an induction over data that it cannot use.
- `OldestFirst` and the refinement `KeepsPromise`: they also need that numbers grow
  along the segments and across them, through every recovery, which `IndInv` does
  not say. They have no proof yet.
- `PointsSound`: it depends on the intervals that the delta engine derives over
  several envelopes.
- `Staleness`, `Advisor` and `Statements` have no proofs. Several of their
  properties compare what was sent, stored or shipped with a fold over a story's
  periods or a ranking.

## Exceptions the properties name, and what they mean in the code

The properties state where a guarantee ends. These are consequences of the code,
found while the properties were made to hold:

- *Collector.* A push ticker's flush in flight at SIGTERM loses its batch if its
  envelope cannot be queued. `overran` marks the scrape that outlives
  `ShutdownTimeout`.
- *Delivery.* The pusher's in-memory queue is not used in production, where a disk
  buffer is always opened, and is not modelled.
- *Ingest.* `unsure`: a commit reported as failed that went through may leave a
  role change unannounced. `stragglers`: when a restarted agent sends again from two
  or more envelopes behind an attempt that is still in flight, and the server has
  lost its baselines, the late attempt is measured from a sample sent again, and its
  rate overlaps intervals that are stored. `PointsSound` excepts the pairs with such
  an attempt. Row locks are held until the transaction ends; the agent's clock is the
  server's; one server process takes the envelopes.
- *Alerts.* `overlapped`: a replica that lost its session within a pass may send a
  FIRING after another one's RESOLVED. `unsure`: a lost answer to an upsert may
  leave two rows. `unrecorded`: `deliver` discards the error of
  `MarkNotification` when the send failed too, so a last send that fails together
  with its mark is neither kept nor recorded nor counted, only logged as one more failed
  send, while the comment at `notifier.go:20` says that "after the last send the claim
  row records the failure". `NothingSilent` and `NoDeliveryLost` except exactly these.
  `excused` are those dropped as obsolete, given up and reported, or lost in a restart.
- *Staleness.* A deposed leader (`overlapped`) and a lost commit answer (`unsure`)
  may repeat an event, or leave the leader's memory at down so that the next
  silence is not announced. Events further apart than their retention may repeat.
  The first-seen times behind `no_primary_in_cluster` and `slot_inactive` survive a
  replica's terms, so the first of them after a change of leader may come early;
  no property covers them.
- *Advisor.* A result with an error writes neither rows nor a skip
  (`pipeline.go:453`), and a silent agent writes nothing. When a check has failed, or
  its agent has paused, for longer than the window a rule reads it over (`Window`: 15
  minutes for tables, indexes, statements and metrics, 3 hours for the catalog), the
  loaders leave its section empty but present, the rule takes that as evidence, and its
  findings are resolved unseen. The comment at `engine.go:28` says that an agent that
  pauses keeps its findings. Up to the window `ClosedOnEvidence` holds the code to that,
  and for the `AgelessRules`, which read settings or degrade without their metric, for any
  outage. Four rules (`Unguarded`) read an input they do not name among their
  needs: a skip of its check counts for them as a failure, although `engine.go:311`
  says that the findings of a rule that could not evaluate are unknown rather than gone.
  What a check missed in an outage that is over is not held against a pass: totals
  (statements, checkpoints) are of what was reported. An unmuted degraded finding is shown as open
  until the next pass. `index.duplicate` names a table, so two groups of duplicates
  of one table share a finding.
- *Agent.* `HeldUp`: `Manager.Close` holds the manager's mutex while its pools wait
  for their connections. A caller that holds a connection and needs the mutex in
  that moment (between `Acquire` and the second critical section of `ForDatabase`,
  in `Discover` before it publishes, or in a check that asks `MonitorsDatabase`)
  blocks the shutdown. `ShutdownEnds` excepts it.
- *Statements.* A conflict on a stored text only renews `last_seen`, so a changed text
  under the same id is not replaced. `TextsKnown` asks for some text.

## What the models leave out

Within modelled parts:

- Payloads, messages, labels and names are members of small sets. The digests of
  a fingerprint, the redaction of a text and the bytes of a frame are not computed.
- `Agent` has one target with all its callers, and a second one for the identity
  file only. Permission tiers, session limits and the display of endpoints are left
  out. Results of the sampler and of the host collector that arrive after the
  final flush are lost with the process and belong to no property.
- `Ingest` leaves out the agent's own metrics, the routing of metrics to tables,
  address resolution and the check for duplicate instances.
- `Alerts` leaves out the replication aggregates and regular expressions of
  matchers, and takes a channel's own three HTTP attempts as one send whose outcome may be unsure.
- `Statements` takes a scrape and the storing of its texts as one step (a text
  waits in the same first-in-first-out buffer as the report that needs it). A
  failed scrape changes nothing, and ties of the SQL order are broken by id.
- `Advisor` gives a rule's thresholds on scaled values; the windows keep their order
  (those of an hour and of three coincide) and their overlaps, not their lengths.

Not modelled, with the reason:

- The other checks (`internal/check`): one or a few SQL reads each, without memory
  between scrapes. What can go wrong is in the SQL.
- The read API, the metrics page, the web interface: stateless queries and
  rendering.
- Login sessions, the sign-in limiter, bearer tokens and headers: they decide who
  may call. The models start at a request that was let in.
- Schema migrations: an advisory lock and one transaction for each file, whose
  interleavings are PostgreSQL's.
- Configuration, flags, start-up wiring, the `check` subcommand, host metrics from
  `/proc` and cgroups, value types, the wire format, clocks, test support and
  documentation tools: no state that two steps could disagree on.

Hazards that no property covers have a note in `PROJECT.json`.
