------------------------------ MODULE Collector ------------------------------
(***************************************************************************)
(* The agent's collection side, for one target: the schedule of checks that *)
(* follows the target's role (cmd/pglens-agent/schedule.go), the scheduler   *)
(* with its workers and breakers (internal/agent/scheduler.go, breaker.go),  *)
(* the flush that turns results into envelopes, and the shutdown             *)
(* (cmd/pglens-agent/run.go).                                               *)
(*                                                                          *)
(* Each rebuild starts a new scheduler, a generation.  Results are alike:    *)
(* the model keeps how many wait in a channel and whether pending holds any; *)
(* skips are followed by the check they name.                               *)
(***************************************************************************)
EXTENDS Naturals, FiniteSets

CONSTANTS
    Checks,         \* the registered checks
    Requires,       \* Requires[c]: the roles a check runs for
    MaxWorkers,     \* ScheduleOptions.MaxWorkers
    ResultsCap,     \* the capacity of the results channel
    openAfter,      \* the failures that open a breaker, 3
    maxBackoff,     \* the last step of the breaker's ladder
    MaxChanges      \* bound: how often the target changes its role, stops or comes back

Roles == {"primary", "standby"}
Gens == 1..(MaxChanges + 2)
Flushes == {"ticker", "shutdown"}

ASSUME CollectorAssumption ==
    /\ MaxWorkers \in Nat \ {0} /\ ResultsCap \in Nat \ {0} /\ maxBackoff \in Nat \ {0}
    /\ openAfter \in Nat \ {0}
    /\ MaxChanges \in Nat /\ "idle" \notin Checks /\ \A c \in Checks : Requires[c] \subseteq Roles \cup {"unknown"}

VARIABLES
    target,     \* the monitored instance: its role, and whether it answers
    changes,    \* how often it changed
    cached,     \* the role the manager's cache holds
    gate,       \* the gate the current schedule was built from
    cur,        \* the current scheduler
    sched,      \* each scheduler: its entries, cancelled, closed
    loop,       \* the ticker loop of each entry: off, tick, slot
    scrape,     \* the scrape of each entry: none, run, send
    breaker,    \* the breaker of each entry of the current scheduler
    chan,       \* results waiting in each scheduler's channel
    pending,    \* the checks whose skips wait for a flush
    batch,      \* what each flush has taken: "idle", or a set of skips
    reported,   \* the skips sent since the schedule was built
    collected,  \* pending holds results
    schedMu,    \* who holds schedMu
    stopped, cancelled,
    reconciler, \* idle, acquire, stopping, add
    seen,       \* the role it has read
    pusher,     \* the push loop: run, stopping, done
    main,       \* run, stop, stopping, drain, flush, exited
    overran     \* a wait for scrapes or results has run out of time

env == <<target, changes>>
scheds == <<sched, loop, scrape, breaker, chan>>
procs == <<schedMu, stopped, cancelled, reconciler, seen, pusher, main>>
flushing == <<pending, collected, batch, reported>>
schedVars == <<env, cached, gate, cur, scheds, flushing, procs, overran>>

-----------------------------------------------------------------------------
(* What a check needs, and the circuit breaker *)

\* Requirements.Supports, of which the role is the gate that changes here.
Supports(c, role) == role \in Requires[c]
ScheduleEntries(role) == {c \in Checks : Supports(c, role)}

NewBreaker == [failures |-> 0, open |-> FALSE, attempts |-> 0, left |-> 0]

\* 1, 2, 4 ... up to the last step; attempts past the cap change nothing.
calculateBackoff(attempts) == IF 2^attempts > maxBackoff THEN maxBackoff ELSE 2^attempts

Allow(b) == ~b.open \/ b.left = 0

RecordSuccess(b) == [b EXCEPT !.failures = 0, !.open = FALSE, !.attempts = 0, !.left = 0]

\* Failures are counted up to those that open the circuit; one more while it is
\* open is the trial failing, and is counted while it makes the wait longer.
RecordFailure(b) ==
    IF b.open
      THEN LET n == IF calculateBackoff(b.attempts) = maxBackoff THEN b.attempts ELSE b.attempts + 1
           IN [b EXCEPT !.attempts = n, !.left = calculateBackoff(n)]
      ELSE IF b.failures + 1 >= openAfter
             THEN [failures |-> openAfter, open |-> TRUE, attempts |-> 0, left |-> calculateBackoff(0)]
             ELSE [b EXCEPT !.failures = @ + 1]

-----------------------------------------------------------------------------
(* One scheduler *)

ctxDone(g) == cancelled \/ sched[g].cancelled
alive == main # "exited"
Busy == {p \in Gens \X Checks : scrape[p[1]][p[2]] # "none"}
Of(g) == {p \in Busy : p[1] = g}

\* The tick finds no scrape of the entry and an allowing breaker, and takes a
\* worker or waits for one.  A tick that finds otherwise is skipped.
TickEntry(g, c) ==
    /\ alive /\ loop[g][c] = "tick" /\ scrape[g][c] = "none" /\ (ctxDone(g) \/ Allow(breaker[c]))
    /\ IF Cardinality(Of(g)) < MaxWorkers
         THEN scrape' = [scrape EXCEPT ![g][c] = "run"] /\ UNCHANGED loop
         ELSE loop' = [loop EXCEPT ![g][c] = "slot"] /\ UNCHANGED scrape
    /\ UNCHANGED <<env, cached, gate, cur, sched, breaker, chan, flushing, procs, overran>>

GetSlot(g, c) ==
    /\ alive /\ loop[g][c] = "slot" /\ Cardinality(Of(g)) < MaxWorkers
    /\ loop' = [loop EXCEPT ![g][c] = "tick"]
    /\ scrape' = [scrape EXCEPT ![g][c] = "run"]
    /\ UNCHANGED <<env, cached, gate, cur, sched, breaker, chan, flushing, procs, overran>>

\* The loop sees its context's end at the ticker or at the slot.
ExitLoop(g, c) ==
    /\ alive /\ loop[g][c] # "off" /\ ctxDone(g)
    /\ loop' = [loop EXCEPT ![g][c] = "off"]
    /\ UNCHANGED <<env, cached, gate, cur, sched, scrape, breaker, chan, flushing, procs, overran>>

\* The result goes into the channel when it has room; when the context has
\* ended the select may drop it instead.
SendResult(g, c) ==
    \/ /\ chan[g] < ResultsCap /\ chan' = [chan EXCEPT ![g] = @ + 1]
       /\ scrape' = [scrape EXCEPT ![g][c] = "none"]
    \/ /\ ctxDone(g) /\ scrape' = [scrape EXCEPT ![g][c] = "none"] /\ UNCHANGED chan
    \/ /\ chan[g] = ResultsCap /\ ~ctxDone(g) /\ scrape[g][c] = "run"
       /\ scrape' = [scrape EXCEPT ![g][c] = "send"] /\ UNCHANGED chan

\* The check answers, or fails because the target does not, and the breaker is
\* told before the result is sent.
scrapeEntry(g, c) ==
    /\ alive /\ scrape[g][c] = "run" /\ SendResult(g, c)
    /\ breaker' = IF ctxDone(g) THEN breaker
                  ELSE [breaker EXCEPT ![c] = IF target.up THEN RecordSuccess(@) ELSE RecordFailure(@)]
    /\ UNCHANGED <<env, cached, gate, cur, sched, loop, flushing, procs, overran>>

\* A scrape that found the channel full.
SendLater(g, c) ==
    /\ alive /\ scrape[g][c] = "send" /\ SendResult(g, c)
    /\ UNCHANGED <<env, cached, gate, cur, sched, loop, breaker, flushing, procs, overran>>

\* Mutant: the channel is closed once the loops are gone.
ReadyToCloseLoops(g) == \A c \in Checks : loop[g][c] = "off"
\* run waits for every loop, and for the scrapes they started.
ReadyToClose(g) == Of(g) = {} /\ \A c \in Checks : loop[g][c] = "off"

CloseResults(g) ==
    /\ alive /\ g <= cur /\ ~sched[g].closed /\ ReadyToClose(g)
    /\ sched' = [sched EXCEPT ![g].closed = TRUE]
    /\ UNCHANGED <<env, cached, gate, cur, loop, scrape, breaker, chan, flushing, procs, overran>>

\* forwardResults takes a result into pending.
Forward(g) ==
    /\ alive /\ chan[g] > 0
    /\ chan' = [chan EXCEPT ![g] = @ - 1]
    /\ collected' = TRUE
    /\ UNCHANGED <<env, cached, gate, cur, sched, loop, scrape, breaker, pending, batch, reported, procs, overran>>

\* Time passes for the open breakers.
BreakerTick ==
    /\ alive /\ ~ctxDone(cur) /\ \E c \in Checks : breaker[c].left > 0
    /\ breaker' = [c \in Checks |-> [breaker[c] EXCEPT !.left = IF @ = 0 THEN 0 ELSE @ - 1]]
    /\ UNCHANGED <<env, cached, gate, cur, sched, loop, scrape, chan, flushing, procs, overran>>

-----------------------------------------------------------------------------
(* The schedule set *)

\* Scheduler.Stop cancels, then waits for the scrapes and the close, but no
\* longer than ShutdownTimeout: a scrape that does not end holds it so long.
\* Bound: one wait runs out of time.
\* Its breakers decide nothing that matters any more.
Cancel(g) == sched' = [sched EXCEPT ![g].cancelled = TRUE] /\ breaker' = [c \in Checks |-> NewBreaker]
\* Mutant: Stop only cancels.
StopReturnsAtOnce(g) == UNCHANGED overran
StopReturns(g) == \/ sched[g].closed /\ UNCHANGED overran
                  \/ ~overran /\ Of(g) # {} /\ overran' = TRUE

\* A target that cannot be read in full keeps its gate; nothing but a new gate
\* rebuilds.
nextGate(read) == IF read = "fail" THEN gate ELSE read

\* readTargetGate, once stop has been looked for, and without schedMu: the role
\* is the cached one, read from the target only when the cache is empty.
ReconcileRead ==
    /\ alive /\ reconciler = "idle" /\ ~cancelled /\ schedMu = "free" /\ ~stopped
    /\ LET ok == target.up
           now == IF cached = "unknown" THEN target.role ELSE cached
           next == nextGate(IF ok THEN now ELSE "fail")
       IN /\ cached' = IF ok THEN now ELSE cached
          /\ seen' = IF next = gate THEN "none" ELSE next
          /\ reconciler' = IF next = gate THEN "idle" ELSE "acquire"
    /\ UNCHANGED <<env, gate, cur, scheds, flushing, schedMu, stopped, cancelled, pusher, main, overran>>

\* Mutant: stop is not looked at again after the read.
MayRebuildAnyway == TRUE
MayRebuild == ~stopped

ReconcileAcquire ==
    /\ alive /\ reconciler = "acquire" /\ schedMu = "free"
    /\ IF MayRebuild
         THEN /\ reconciler' = "stopping" /\ schedMu' = "reconcile" /\ Cancel(cur)
              /\ UNCHANGED seen
         ELSE /\ reconciler' = "idle" /\ seen' = "none" /\ UNCHANGED <<schedMu, sched, breaker>>
    /\ UNCHANGED <<env, cached, gate, cur, loop, scrape, chan, flushing, stopped,
                   cancelled, pusher, main, overran>>

\* The old scheduler has stopped; buildLocked drops the skips still pending,
\* which are those of the schedule replaced.
BuildDrop ==
    /\ alive /\ reconciler = "stopping" /\ StopReturns(cur)
    /\ gate' = seen /\ seen' = "none" /\ pending' = {} /\ reported' = {}
    /\ reconciler' = "add"
    /\ UNCHANGED <<env, cached, cur, scheds, collected, batch, schedMu, stopped, cancelled, pusher, main>>

\* addScheduleEntries and Start: entries for what the gate supports, skips for
\* the rest, and a new scheduler.
BuildAdd ==
    /\ alive /\ reconciler = "add"
    /\ pending' = pending \cup (Checks \ ScheduleEntries(gate))
    /\ cur' = cur + 1
    /\ loop' = [loop EXCEPT ![cur + 1] = [c \in Checks |-> IF c \in ScheduleEntries(gate) THEN "tick" ELSE "off"]]
    /\ breaker' = [c \in Checks |-> NewBreaker]
    /\ reconciler' = "idle" /\ schedMu' = "free"
    /\ UNCHANGED <<env, cached, gate, sched, scrape, chan, collected, batch, reported, stopped,
                   cancelled, seen, pusher, main, overran>>

-----------------------------------------------------------------------------
(* The flush *)

flushCtxDone(f) == f = "ticker" /\ cancelled

FlushTake(f) ==
    /\ alive /\ batch[f] = {"idle"}
    /\ IF f = "ticker" THEN ~cancelled ELSE main = "flush"
    /\ batch' = [batch EXCEPT ![f] = pending] /\ pending' = {}
    /\ collected' = FALSE
    /\ main' = IF f = "shutdown" THEN "flushing" ELSE main
    /\ UNCHANGED <<env, cached, gate, cur, scheds, reported, schedMu, stopped, cancelled, reconciler,
                   seen, pusher, overran>>

\* Mutant: the batch of a target that is left out is dropped whole.
requeueSkipsNot(b) == UNCHANGED pending
\* Skips are queued only by a build, so a batch that is not sent gives them back.
requeueSkips(b) == pending' = pending \cup b

\* Mutant: the role is the one read when the agent first connected.
RefreshRoleOnce(reached) == IF reached /\ cached = "unknown" THEN target.role ELSE cached
RefreshRole(reached) == IF reached THEN target.role ELSE cached

\* The role is refreshed from the target.  One that does not answer, or cannot
\* be identified, is left out: its results are dropped and its skips kept.
FlushSend(f) ==
    /\ alive /\ batch[f] # {"idle"}
    /\ batch' = [batch EXCEPT ![f] = {"idle"}]
    /\ main' = IF f = "shutdown" THEN "exited" ELSE main
    /\ LET reached == target.up /\ ~flushCtxDone(f)
       IN /\ cached' = RefreshRole(reached)
          /\ \E sent \in {x \in BOOLEAN : x => reached} :
               IF sent THEN reported' = reported \cup batch[f] /\ UNCHANGED pending
                       ELSE requeueSkips(batch[f]) /\ UNCHANGED reported
    /\ UNCHANGED <<env, gate, cur, scheds, collected, schedMu, stopped, cancelled, reconciler, seen, pusher, overran>>

-----------------------------------------------------------------------------
(* Revocation and shutdown *)

StopBegin(who) ==
    /\ schedMu = "free" /\ schedMu' = who
    /\ stopped' = TRUE /\ Cancel(cur)

\* The push loop stops collection once when the server has revoked the agent,
\* which it may do at any time.
PushStop ==
    /\ alive /\ pusher = "run" /\ ~cancelled /\ StopBegin("push")
    /\ pusher' = "stopping"
    /\ UNCHANGED <<env, cached, gate, cur, loop, scrape, chan, flushing, cancelled,
                   reconciler, seen, main, overran>>

PushStopped ==
    /\ alive /\ pusher = "stopping" /\ StopReturns(cur)
    /\ pusher' = "done" /\ schedMu' = "free"
    /\ UNCHANGED <<env, cached, gate, cur, scheds, flushing, stopped, cancelled, reconciler, seen, main>>

\* SIGTERM.
Terminate ==
    /\ main = "run" /\ main' = "stop" /\ cancelled' = TRUE
    /\ UNCHANGED <<env, cached, gate, cur, scheds, flushing, schedMu, stopped, reconciler, seen,
                   pusher, overran>>

MainStop ==
    /\ main = "stop" /\ StopBegin("main") /\ main' = "stopping"
    /\ UNCHANGED <<env, cached, gate, cur, loop, scrape, chan, flushing, cancelled,
                   reconciler, seen, pusher, overran>>

MainStopped ==
    /\ main = "stopping" /\ StopReturns(cur)
    /\ main' = "drain" /\ schedMu' = "free"
    /\ UNCHANGED <<env, cached, gate, cur, scheds, flushing, stopped, cancelled, reconciler, seen, pusher>>

\* Mutant: the flush does not wait for what the schedulers still hold.
DrainedCurrent == sched[cur].closed
\* Every scheduler has closed its channel and had it forwarded.
Drained == \A g \in 1..cur : sched[g].closed /\ chan[g] = 0

MainDrained ==
    /\ main = "drain"
    /\ \/ Drained /\ UNCHANGED overran
       \/ ~overran /\ Busy # {} /\ overran' = TRUE
    /\ main' = "flush"
    /\ UNCHANGED <<env, cached, gate, cur, scheds, flushing, schedMu, stopped, cancelled,
                   reconciler, seen, pusher>>

-----------------------------------------------------------------------------
(* The target *)

\* What it does after SIGTERM shows only in whether the last flush reaches it.
TargetChanges ==
    /\ ~cancelled /\ changes < MaxChanges /\ changes' = changes + 1
    /\ \/ target' = [target EXCEPT !.up = ~@]
       \/ target' = [target EXCEPT !.role = IF @ = "primary" THEN "standby" ELSE "primary"]
    /\ UNCHANGED <<cached, gate, cur, scheds, flushing, procs, overran>>

-----------------------------------------------------------------------------
\* start has read the target and built the first schedule; a target it could
\* not read is scheduled as one whose role is unknown.
SchedInit ==
    /\ target \in [role : Roles, up : BOOLEAN] /\ changes = 0
    /\ cached = IF target.up THEN target.role ELSE "unknown"
    /\ gate = cached /\ cur = 1
    /\ sched = [g \in Gens |-> [cancelled |-> FALSE, closed |-> FALSE]]
    /\ loop = [g \in Gens |-> [c \in Checks |-> IF g = 1 /\ c \in ScheduleEntries(gate) THEN "tick" ELSE "off"]]
    /\ scrape = [g \in Gens |-> [c \in Checks |-> "none"]]
    /\ breaker = [c \in Checks |-> NewBreaker]
    /\ chan = [g \in Gens |-> 0]
    /\ pending = Checks \ ScheduleEntries(gate) /\ batch = [f \in Flushes |-> {"idle"}] /\ reported = {}
    /\ collected = FALSE
    /\ schedMu = "free" /\ stopped = FALSE /\ cancelled = FALSE
    /\ reconciler = "idle" /\ seen = "none" /\ pusher = "run" /\ main = "run" /\ overran = FALSE

runEntry(c) == \E g \in Gens : TickEntry(g, c) \/ GetSlot(g, c) \/ ExitLoop(g, c)
Scraping(c) == \E g \in Gens : scrapeEntry(g, c) \/ SendLater(g, c)
ResultsMove == \E g \in Gens : CloseResults(g) \/ Forward(g)
Flush(f) == FlushTake(f) \/ FlushSend(f)
Reconcile == ReconcileRead \/ ReconcileAcquire \/ BuildDrop \/ BuildAdd
Shutdown == MainStop \/ MainStopped \/ MainDrained

SchedNext ==
    \/ \E c \in Checks : runEntry(c) \/ Scraping(c)
    \/ ResultsMove \/ BreakerTick \/ Reconcile
    \/ \E f \in Flushes : Flush(f)
    \/ PushStop \/ PushStopped \/ Terminate \/ Shutdown \/ TargetChanges

\* Goroutines that can run do run; a select does not take its ticker over its context for ever.  Nothing obliges the target, the server or the operator.
SchedFairness ==
    /\ WF_schedVars(\E c \in Checks : Scraping(c))
    /\ WF_schedVars(\E g \in Gens, c \in Checks : ExitLoop(g, c))
    /\ WF_schedVars(ResultsMove) /\ WF_schedVars(Reconcile) /\ WF_schedVars(Flush("ticker"))

SchedSpec == SchedInit /\ [][SchedNext]_schedVars /\ SchedFairness

-----------------------------------------------------------------------------
(* Properties *)

\* The results channel of a scheduler is closed only when no scrape is left
\* that could send on it (run, the second wait): such a send is a panic.  A
\* check is never scraped twice at a time, not even across a rebuild, and
\* nothing is scraped once stop has returned, whatever reconcile was doing when
\* it was called, unless a scrape outlived ShutdownTimeout.
ScrapesAlone ==
    /\ \A g \in Gens : sched[g].closed => Of(g) = {}
    /\ overran \/ /\ \A c \in Checks : Cardinality({p \in Busy : p[2] = c}) <= 1
                  /\ stopped /\ schedMu = "free" => Busy = {} /\ \A c \in Checks : loop[cur][c] = "off"

\* A check the schedule leaves out is queued as a skip once, when the schedule
\* is built: the skip waits in pending, travels with a flush, or has been sent,
\* whatever flushes failed meanwhile.
SkipKept ==
    reconciler # "add" /\ alive =>
      \A c \in Checks \ ScheduleEntries(gate) : c \in pending \cup reported \cup batch["ticker"] \cup batch["shutdown"]

\* When the process has exited, no result it scraped is left in a channel or in
\* pending, unless the wait for it ran out of time: what was collected before
\* SIGTERM is in an envelope, or was left out with its target.
ShutdownFlushes == main = "exited" /\ ~overran => ~collected /\ \A g \in Gens : Of(g) = {} /\ chan[g] = 0

ending == stopped \/ cancelled

\* A role the target keeps becomes the schedule's gate: the flush refreshes the
\* cached role and the next reconcile rebuilds from it.
FollowsRole == \A r \in Roles : <>[](target.up /\ target.role = r /\ ~ending) => <>[](gate = r)
=============================================================================
