------------------------------- MODULE Alerts -------------------------------
(***************************************************************************)
(* The alert engine (internal/alert): the replicas of the server elect a   *)
(* leader with an advisory lock, and each pass of the leader samples the   *)
(* rules, steps the evaluator, persists the transitions and notifies them, *)
(* then makes again the deliveries that failed.                            *)
(*                                                                         *)
(* The subject is one instance, so a rule has one key.  A pass is split at *)
(* its uses of the store and of the channels: a replica that loses its     *)
(* session goes on with the pass it is in while another one takes over.    *)
(***************************************************************************)
EXTENDS Integers, Sequences, FiniteSets, Functions

CONSTANTS
    Procs,          \* the replicas of the server
    Channels,       \* the notification channels, in order
    RuleOrder,      \* the rules, in the order of a pass
    Rule,           \* rule -> [event, type, for, builtin, severity]
    Silences,       \* [startsAt, endsAt, matchers]
    staleAfter,     \* store.InstanceStaleAfter
    lookback, metricGrace, forgetAge, historyRetention, purgeInterval,
    maxNotifyAttempts,
    Story,          \* what may happen in each period: [reports, events, revoked, disabled]
    MaxFaults,      \* failures, lost sessions, restarts and overruns
    Nobody          \* a model value: the lock is free

ASSUME AlertsAssumption ==
    /\ {staleAfter, lookback, metricGrace, forgetAge, historyRetention, purgeInterval,
        maxNotifyAttempts, MaxFaults} \subseteq Nat
    /\ maxNotifyAttempts > 0
    /\ RuleOrder \in Seq(DOMAIN Rule) /\ Range(RuleOrder) = DOMAIN Rule
    /\ Channels \in Seq(Range(Channels))
    /\ Nobody \notin Procs

VARIABLES
    now, faults,
    lastSeen,       \* the instance's last report
    revoked,        \* its agent was revoked
    events,         \* the events table: [type, ts]
    enabled,        \* the rules that are configured
    alerts,         \* the alerts table: [key, start, state, at]
    claims,         \* the notifications table: [id, ok, attempts, at]
    holder,         \* the replica whose session holds the advisory lock
    proc,           \* the replicas' memory
    inbox,          \* what each channel has accepted, in order
    blurred,        \* deliveries a channel accepted and reported as failed
    announced,      \* deliveries a transition asked for
    excused,        \* deliveries dropped, given up and reported, or lost in a restart
    unrecorded,     \* deliveries whose last send failed, and the write of its outcome too
    purged,         \* the episodes, as <<key, start>>, whose row or claims the purge removed
    overlapped,     \* two replicas were in a pass at the same time
    unsure          \* a write that went through was reported as failed

env == <<lastSeen, revoked, events, enabled>>
history == <<blurred, announced, excused, unrecorded, purged>>
vars == <<now, faults, env, alerts, claims, holder, proc, inbox, history, overlapped, unsure>>

Keys == DOMAIN Rule
NoEpisode == [first |-> 0, seen |-> -1, firing |-> FALSE]

\* NewEngine, NewEvaluator and NewChannelNotifier.
NewEngine ==
    [conn |-> "none", hasLock |-> FALSE, loaded |-> FALSE, pc |-> "idle", ranAt |-> 0,
     expired |-> FALSE, published |-> FALSE, live |-> {}, todo |-> <<>>, work |-> <<>>, pending |-> <<>>,
     eval |-> [k \in Keys |-> NoEpisode], purgedAt |-> -1]

Init ==
    /\ now = 0 /\ faults = 0
    /\ lastSeen = 0 /\ revoked = FALSE /\ events = {} /\ enabled = Keys
    /\ alerts = {} /\ claims = {} /\ holder = Nobody
    /\ proc = [p \in Procs |-> NewEngine]
    /\ inbox = [c \in Range(Channels) |-> <<>>]
    /\ blurred = {} /\ announced = {} /\ excused = {} /\ unrecorded = {} /\ purged = {}
    /\ overlapped = FALSE /\ unsure = FALSE

-----------------------------------------------------------------------------
\* The rest of the system.

Reports == now - lastSeen <= staleAfter

\* The time of a pass goes by: the instance reports or not, the server writes
\* events, the agent is revoked, a stored rule is disabled.  A pass is over
\* well before the next one is due.
Pass(what) ==
    /\ \A p \in Procs : proc[p].pc = "idle"
    /\ now' = now + 1
    /\ lastSeen' = IF what.reports /\ ~revoked THEN now' ELSE lastSeen
    /\ events' = events \cup {[type |-> t, ts |-> now'] : t \in what.events}
    /\ revoked' = (revoked \/ what.revoked)
    /\ enabled' = {r \in enabled : Rule[r].builtin \/ ~what.disabled}
    /\ UNCHANGED <<faults, alerts, claims, holder, proc, inbox, history, overlapped, unsure>>

-----------------------------------------------------------------------------
\* The sources.

NoSample == [ts |-> -1, true |-> FALSE]

\* The up metric: down once the last report is older than the staleness
\* threshold, and dated the rule's For before now; a revoked agent's instance
\* is inapplicable.
metricSamples(r) ==
    [ts |-> IF Reports THEN lastSeen ELSE now - Rule[r].for,
     true |-> ~revoked /\ ~Reports]

Recent(r) == {e \in events : e.type = Rule[r].type /\ e.ts >= now - lookback}

\* One sample for each event in the window, the newest first: the ones after it
\* find its episode open and only refresh it.
eventSamples(r) ==
    IF Recent(r) = {} THEN NoSample
    ELSE [ts |-> (CHOOSE e \in Recent(r) : \A x \in Recent(r) : x.ts <= e.ts).ts, true |-> TRUE]

Sample(r) == IF Rule[r].event THEN eventSamples(r) ELSE metricSamples(r)

isCleared(r) == Reports \/ revoked

spellEvents == {"instance_unreachable", "no_primary_in_cluster", "slot_inactive", "slot_lost"}

Spell(r) == Rule[r].event /\ Rule[r].type \in spellEvents

endGrace(r) == CASE Spell(r) -> lookback
                 [] Rule[r].event /\ ~Spell(r) -> 0
                 [] OTHER -> metricGrace

-----------------------------------------------------------------------------
\* The silences.

reserved(name, key) == CASE name = "rule_id" -> key
                         [] name = "severity" -> Rule[key].severity
                         [] OTHER -> ""

Active(s) == s.startsAt <= now /\ now < s.endsAt

Matches(s, key) ==
    /\ s.matchers # {}
    /\ \A m \in s.matchers : (reserved(m.name, key) = m.value) # m.negate

Suppressed(key) == \E s \in Silences : Active(s) /\ Matches(s, key)

-----------------------------------------------------------------------------
\* The evaluator: a step gives the episode that follows and the transition.

Outcome(episode, transition, start) ==
    [episode |-> episode, transition |-> transition, start |-> start]

endLocked(ep) ==
    Outcome(NoEpisode, CASE ep = NoEpisode -> "none"
                         [] ep.firing -> "resolved"
                         [] OTHER -> "cancelled", ep.first)

Step(r, s, ep) ==
    IF ~s.true THEN endLocked(ep)
    ELSE LET was == IF ep = NoEpisode THEN [NoEpisode EXCEPT !.first = s.ts] ELSE ep
             fires == ~was.firing /\ (IF ep = NoEpisode THEN Rule[r].for = 0
                                      ELSE now - was.first >= Rule[r].for)
         IN  Outcome([was EXCEPT !.seen = now, !.firing = @ \/ fires],
                     CASE fires -> "fired"
                       [] ~fires /\ ep = NoEpisode -> "opened"
                       [] ~fires /\ ep.firing -> "refresh"
                       [] OTHER -> "none", was.first)

Unsampled(ep, cutoff) == ep # NoEpisode /\ ep.seen < cutoff

\* What a pass makes of one rule.  A rule that is not configured any more ends
\* its episode at once; a configured one by its sample, or without a sample
\* after its grace, a spell only when its source confirms.
Evaluated(r, live, ep) ==
    CASE r \notin live -> IF Unsampled(ep, now) THEN endLocked(ep) ELSE Outcome(ep, "none", 0)
      [] r \in live /\ Sample(r) # NoSample -> Step(r, Sample(r), ep)
      [] OTHER -> IF Unsampled(ep, now - endGrace(r)) /\ (Spell(r) => isCleared(r))
                  THEN endLocked(ep) ELSE Outcome(ep, "none", 0)

\* As if a restored episode were given the time of its restore as its start.
RestoreFresh(row) == [first |-> now, seen |-> now, firing |-> TRUE]

Restore(row) == [first |-> row.start, seen |-> now, firing |-> row.state = "firing"]

\* Pending episodes that are not sampled any more are forgotten.
Forget(eval) == [k \in Keys |-> IF ~eval[k].firing /\ eval[k].seen < now - forgetAge
                                THEN NoEpisode ELSE eval[k]]

-----------------------------------------------------------------------------
\* The tables.

Upserted(key, start, state) ==
    {a \in alerts : a.key # key \/ a.start # start}
        \cup {[key |-> key, start |-> start, state |-> state, at |-> now]}

Open == {a \in alerts : a.state # "resolved"}

Claim(id) == [id |-> id, ok |-> FALSE, attempts |-> 0, at |-> now]
Claimed(id) == \E c \in claims : c.id = id

MarkNotification(id, ok, attempts) ==
    {c \in claims : c.id # id} \cup
    {[id |-> id, ok |-> ok, attempts |-> attempts, at |-> now] : c \in {x \in claims : x.id = id}}

PurgedAlerts(before) == {a \in alerts : ~(a.state = "resolved" /\ a.at < before)}
PurgedClaims(before) ==
    {c \in claims : c.at >= before \/ \E a \in Open : a.start = c.id.start}

-----------------------------------------------------------------------------
\* A pass: Engine.Tick.

Idle(p) == proc[p].pc = "idle"
Overlaps(p) == \E q \in Procs \ {p} : ~Idle(q)

\* A session that does not answer the ping is closed and its leadership goes
\* with it.  Taking the lock starts a term: the evaluator is reset.
ensureLeader(e) ==
    CASE e.hasLock /\ e.conn = "open" -> e
      [] ~(e.hasLock /\ e.conn = "open") /\ holder = Nobody ->
            [e EXCEPT !.conn = "open", !.hasLock = TRUE, !.loaded = FALSE,
                      !.eval = [k \in Keys |-> NoEpisode]]
      [] OTHER -> [e EXCEPT !.conn = "open", !.hasLock = FALSE]

\* The restored episodes; Active lists the rows evaluated last first, so of
\* several rows with one key the one evaluated least recently stays.
Restored(e) ==
    IF e.loaded THEN e.eval
    ELSE [k \in Keys |->
            LET rows == {a \in Open : a.key = k}
            IN  IF rows = {} THEN e.eval[k]
                ELSE Restore(CHOOSE a \in rows : \A b \in rows : a.at <= b.at)]

\* The pass of a leader starts: leadership, the restore, the rules and the
\* silences.  A store that fails ends it before or after the restore.  A pass
\* that does not get the lock does nothing.
Begin(p, ends) ==
    LET e == ensureLeader(proc[p])
    IN  /\ Idle(p) /\ proc[p].ranAt < now /\ e.hasLock
        /\ ends # "no" => faults < MaxFaults
        /\ ends = "restore" => ~e.loaded
        /\ proc' = [proc EXCEPT ![p] =
              IF ends = "restore" THEN [e EXCEPT !.ranAt = now]
              ELSE [e EXCEPT !.ranAt = now, !.loaded = TRUE, !.eval = Restored(e),
                             !.pc = IF ends = "no" THEN "rules" ELSE "idle",
                             !.live = enabled, !.todo = IF ends = "no" THEN RuleOrder ELSE <<>>,
                             !.expired = FALSE]]
        /\ holder' = p
        /\ faults' = IF ends = "no" THEN faults ELSE faults + 1
        /\ overlapped' = (overlapped \/ Overlaps(p))
        /\ UNCHANGED <<now, env, alerts, claims, inbox, history, unsure>>

\* A source that fails says nothing of its rule; after the pass's deadline it
\* ends the pass.
SampleFails(p) ==
    /\ proc[p].pc = "rules" /\ proc[p].todo # <<>> /\ proc[p].work = <<>>
    /\ Head(proc[p].todo) \in proc[p].live
    /\ IF proc[p].expired
       THEN /\ proc' = [proc EXCEPT ![p] = [proc[p] EXCEPT !.pc = "idle", !.todo = <<>>,
                                                      !.published = FALSE]]
            /\ UNCHANGED faults
       ELSE /\ faults < MaxFaults /\ faults' = faults + 1
            /\ proc' = [proc EXCEPT ![p] = [proc[p] EXCEPT !.todo = Tail(@), !.published = FALSE]]
    /\ UNCHANGED <<now, env, alerts, claims, holder, inbox, history, overlapped, unsure>>

Delivery(key, start, phase, ch) ==
    [id |-> [key |-> key, start |-> start, phase |-> phase, channel |-> ch],
     claimed |-> FALSE, retry |-> FALSE, attempts |-> 0, fresh |-> TRUE]

Ids(ds) == {d.id : d \in Range(ds)}

\* dropPending: what a queue holds at the places of S, in order.
At(ds, S) == [n \in 1 .. Cardinality(S) |-> ds[CHOOSE m \in S : Cardinality({j \in S : j <= m}) = n]]

\* Notify drops the deliveries still pending for the alert's key and makes one
\* for each channel.
Notify(e, key, start, phase) ==
    [e EXCEPT !.pending = At(@, {n \in DOMAIN @ : @[n].id.key # key}),
              !.work = [n \in DOMAIN Channels |-> Delivery(key, start, phase, Channels[n])]]

\* One rule of the pass: its sample, the evaluator's step, and refresh or
\* publish.  A transition that is not persisted is undone and not notified.
EvalRule(p, store) ==
    LET e == proc[p]
        r == Head(e.todo)
        out == Evaluated(r, e.live, e.eval[r])
        stepped == [e EXCEPT !.eval = [@ EXCEPT ![r] = out.episode], !.todo = Tail(@), !.published = FALSE]
        phase == IF out.transition = "fired" THEN "fire" ELSE "resolve"
        state == IF out.transition = "resolved" THEN "resolved" ELSE "firing"
        writes == out.transition \in {"fired", "resolved", "refresh"}
        notified == Notify(stepped, r, out.start, phase)
    IN  /\ e.pc = "rules" /\ e.todo # <<>> /\ e.work = <<>>
        /\ r \in e.live => ~e.expired
        /\ store # "ok" => writes /\ (faults < MaxFaults \/ e.expired)
        /\ e.expired /\ writes => store = "fails"
        /\ faults' = IF store = "ok" \/ e.expired THEN faults ELSE faults + 1
        /\ alerts' = IF writes /\ store # "fails" THEN Upserted(r, out.start, state) ELSE alerts
        /\ unsure' = (unsure \/ store = "lost")
        /\ LET silent == out.transition = "refresh" \/ ~writes \/ Suppressed(r)
           IN  IF silent \/ store # "ok"
               THEN /\ proc' = [proc EXCEPT ![p] =
                          IF writes /\ store # "ok" /\ out.transition # "refresh"
                          THEN [e EXCEPT !.todo = Tail(@), !.published = FALSE] ELSE stepped]
                    /\ UNCHANGED <<announced, excused>>
               ELSE /\ proc' = [proc EXCEPT ![p] =
                          [notified EXCEPT !.published = r \in e.live /\ Sample(r) # NoSample]]
                    /\ announced' = announced \cup Ids(notified.work)
                    /\ excused' = excused \cup (Ids(e.pending) \ Ids(notified.pending))
        /\ UNCHANGED <<now, env, claims, holder, inbox, blurred, unrecorded, purged, overlapped>>

\* The deadline has passed when a published transition is looked back on: the
\* pass ends, without its retries.
CutShort(p) ==
    /\ proc[p].pc = "rules" /\ proc[p].expired /\ proc[p].published /\ proc[p].work = <<>>
    /\ proc' = [proc EXCEPT ![p] = [proc[p] EXCEPT !.pc = "idle", !.todo = <<>>, !.published = FALSE]]
    /\ UNCHANGED <<now, faults, env, alerts, claims, holder, inbox, history, overlapped, unsure>>

-----------------------------------------------------------------------------
\* The notifier: the delivery at the head of the work of a pass.

Working(p) == proc[p].work # <<>>

\* As if a delivery that failed were not kept for a later pass.
KeptNever(e, d) == e.pending

\* keep and keepUnclaimed.
Kept(e, d) ==
    IF d.attempts >= maxNotifyAttempts THEN e.pending
    ELSE Append(e.pending, [d EXCEPT !.retry = TRUE, !.fresh = TRUE])

Done(e, pending) == [e EXCEPT !.work = Tail(@), !.pending = pending]

\* A claim made by another attempt: a new transition leaves it to that one, a
\* retry gives up and reports it.
NotWon(p) ==
    LET d == Head(proc[p].work)
    IN  /\ Working(p) /\ ~d.claimed /\ ~proc[p].expired /\ Claimed(d.id)
        /\ proc' = [proc EXCEPT ![p] = Done(proc[p], proc[p].pending)]
        /\ excused' = IF d.retry THEN excused \cup {d.id} ELSE excused
        /\ UNCHANGED <<now, faults, env, alerts, claims, holder, inbox, blurred, announced, unrecorded,
                       purged, overlapped, unsure>>

\* As if a claim on record did not keep a second one from being made.
WonAlways(id) == TRUE

Won(id) == ~Claimed(id)

ClaimWins(p) ==
    LET d == Head(proc[p].work)
    IN  /\ Working(p) /\ ~d.claimed /\ ~proc[p].expired /\ Won(d.id)
        /\ claims' = claims \cup {Claim(d.id)}
        /\ proc' = [proc EXCEPT ![p] = [proc[p] EXCEPT !.work = [@ EXCEPT ![1] = [d EXCEPT !.claimed = TRUE]]]]
        /\ UNCHANGED <<now, faults, env, alerts, holder, inbox, history, overlapped, unsure>>

\* The claim fails, or its answer is lost; without attempts left it is given up
\* and reported.
ClaimFails(p, lost) ==
    LET e == proc[p]
        d == Head(e.work)
        counted == [d EXCEPT !.attempts = @ + 1]
    IN  /\ Working(p) /\ ~d.claimed /\ faults < MaxFaults /\ ~e.expired
        /\ faults' = faults + 1
        /\ lost => ~Claimed(d.id)
        /\ claims' = IF lost THEN claims \cup {Claim(d.id)} ELSE claims
        /\ proc' = [proc EXCEPT ![p] = Done(e, Kept(e, counted))]
        /\ excused' = IF counted.attempts >= maxNotifyAttempts THEN excused \cup {d.id} ELSE excused
        /\ UNCHANGED <<now, env, alerts, holder, inbox, blurred, announced, unrecorded, purged, overlapped,
                       unsure>>

\* After the pass's deadline nothing is claimed or sent, and nothing counted.
Deferred(p) ==
    /\ Working(p) /\ proc[p].expired
    /\ proc' = [proc EXCEPT ![p] = Done(proc[p], Kept(proc[p], Head(proc[p].work)))]
    /\ UNCHANGED <<now, faults, env, alerts, claims, holder, inbox, history, overlapped, unsure>>

\* deliver: the channel accepts the message or not, and may accept one that it
\* reports as failed; marking the outcome may fail too.  A delivery whose last
\* send and its mark both fail is neither kept nor on record as failed.
Send(p, sent, marked) ==
    LET e == proc[p]
        d == Head(e.work)
        n == d.attempts + 1
    IN  /\ Working(p) /\ d.claimed /\ ~e.expired
        /\ sent # "ok" \/ ~marked => faults < MaxFaults
        /\ faults' = IF sent = "ok" /\ marked THEN faults ELSE faults + 1
        /\ inbox' = IF sent = "fails" THEN inbox ELSE [inbox EXCEPT ![d.id.channel] = Append(@, d.id)]
        /\ blurred' = IF sent = "blurred" THEN blurred \cup {d.id} ELSE blurred
        /\ claims' = IF marked THEN MarkNotification(d.id, sent = "ok", n) ELSE claims
        /\ unrecorded' = IF sent = "fails" /\ ~marked /\ n >= maxNotifyAttempts
                         THEN unrecorded \cup {d.id} ELSE unrecorded
        /\ proc' = [proc EXCEPT ![p] =
              Done(e, IF sent = "ok" THEN e.pending ELSE Kept(e, [d EXCEPT !.attempts = n]))]
        /\ UNCHANGED <<now, env, alerts, holder, announced, excused, purged, overlapped, unsure>>

-----------------------------------------------------------------------------
\* The end of a pass.

\* As if Settle dropped nothing.
SettledAll(e, d) == TRUE

\* A FIRING is owed only while its own episode is firing, and a later episode of
\* the key makes every older delivery obsolete.
Settled(e, d) ==
    LET ep == e.eval[d.id.key]
    IN  /\ ~(ep.firing /\ ep.first > d.id.start)
        /\ d.id.phase = "fire" => ep.firing /\ ep.first = d.id.start

\* After the rules: Forget, the purge, Settle, and the deliveries due for a
\* retry.
Retry(p) ==
    LET e == [proc[p] EXCEPT !.eval = Forget(@)]
        kept == At(e.pending, {n \in DOMAIN e.pending : Settled(e, e.pending[n])})
        purges == e.purgedAt < 0 \/ now - e.purgedAt >= purgeInterval
    IN  /\ e.pc = "rules" /\ e.todo = <<>> /\ e.work = <<>>
        /\ proc' = [proc EXCEPT ![p] = [e EXCEPT !.pc = "retry", !.published = FALSE,
              !.work = At(kept, {n \in DOMAIN kept : ~kept[n].fresh}),
              !.pending = At(kept, {n \in DOMAIN kept : kept[n].fresh}),
              !.purgedAt = IF purges THEN now ELSE @]]
        /\ alerts' = IF purges /\ ~e.expired THEN PurgedAlerts(now - historyRetention) ELSE alerts
        /\ claims' = IF purges /\ ~e.expired THEN PurgedClaims(now - historyRetention) ELSE claims
        /\ excused' = excused \cup (Ids(e.pending) \ Ids(kept))
        /\ purged' = purged \cup {<<a.key, a.start>> : a \in alerts \ alerts'}
                            \cup {<<c.id.key, c.id.start>> : c \in claims \ claims'}
        /\ UNCHANGED <<now, faults, env, holder, inbox, blurred, announced, unrecorded, overlapped, unsure>>

EndPass(p) ==
    /\ proc[p].pc = "retry" /\ proc[p].work = <<>>
    /\ proc' = [proc EXCEPT ![p] = [proc[p] EXCEPT !.pc = "idle",
          !.pending = [n \in DOMAIN @ |-> [@[n] EXCEPT !.fresh = FALSE]]]]
    /\ UNCHANGED <<now, faults, env, alerts, claims, holder, inbox, history, overlapped, unsure>>

\* The deadline of the pass.
Expire(p) ==
    /\ ~Idle(p) /\ ~proc[p].expired /\ faults < MaxFaults
    /\ faults' = faults + 1
    /\ proc' = [proc EXCEPT ![p] = [proc[p] EXCEPT !.expired = TRUE]]
    /\ UNCHANGED <<now, env, alerts, claims, holder, inbox, history, overlapped, unsure>>

\* The store ends a session; its advisory lock is free at once.
LoseSession(p) ==
    /\ proc[p].conn = "open" /\ proc[p].hasLock /\ faults < MaxFaults
    /\ faults' = faults + 1
    /\ proc' = [proc EXCEPT ![p] = [proc[p] EXCEPT !.conn = "dead"]]
    /\ holder' = IF holder = p THEN Nobody ELSE holder
    /\ UNCHANGED <<now, env, alerts, claims, inbox, history, overlapped, unsure>>

\* A replica restarts, in a pass or not: Stop, or a crash.
Restart(p) ==
    /\ proc[p] # NewEngine /\ faults < MaxFaults
    /\ faults' = faults + 1
    /\ proc' = [proc EXCEPT ![p] = [NewEngine EXCEPT !.ranAt = proc[p].ranAt]]
    /\ holder' = IF holder = p THEN Nobody ELSE holder
    /\ excused' = excused \cup Ids(proc[p].work \o proc[p].pending)
    /\ UNCHANGED <<now, env, alerts, claims, inbox, blurred, announced, unrecorded, purged, overlapped, unsure>>

Next ==
    \/ now < Len(Story) /\ \E what \in Story[now + 1] : Pass(what)
    \/ \E p \in Procs :
          \/ \E ends \in {"no", "restore", "rules"} : Begin(p, ends)
          \/ SampleFails(p) \/ CutShort(p)
          \/ \E store \in {"ok", "fails", "lost"} : EvalRule(p, store)
          \/ NotWon(p) \/ ClaimWins(p) \/ Deferred(p)
          \/ \E lost \in BOOLEAN : ClaimFails(p, lost)
          \/ \E sent \in {"ok", "fails", "blurred"}, marked \in BOOLEAN : Send(p, sent, marked)
          \/ Retry(p) \/ EndPass(p) \/ Expire(p) \/ LoseSession(p) \/ Restart(p)

Spec == Init /\ [][Next]_vars

-----------------------------------------------------------------------------
Purged(id) == <<id.key, id.start>> \in purged

\* A channel accepts a transition of an episode once (ClaimNotification), in
\* whatever order replicas lead, claims fail and deliveries are made again;
\* only one that it accepted and reported as failed, or whose claim was purged,
\* may come twice.
DeliveredOnce ==
    \A c \in DOMAIN inbox : \A m, n \in DOMAIN inbox[c] :
        inbox[c][m] = inbox[c][n] /\ m # n => inbox[c][m] \in blurred \/ Purged(inbox[c][m])

\* A FIRING is only sent while its episode is open in the table (Notify and
\* Settle drop what was overtaken, also by a RESOLVED that another replica sent
\* or that a silence kept back), as long as no replica that lost its session
\* was still in its pass.
NeverStale ==
    [][\A c \in DOMAIN inbox : inbox'[c] # inbox[c] =>
          LET id == inbox'[c][Len(inbox'[c])]
          IN  id.phase = "fire" /\ ~overlapped /\ ~unsure =>
                  \E a \in Open : a.key = id.key /\ a.start = id.start]_vars

\* A delivery that a persisted transition asked for is in a replica's memory,
\* was accepted, is on record as failed for good, or was dropped, given up and
\* reported, or lost with the replica that held it; unless its claim was purged.
\* One loss leaves no trace, although the comment of maxNotifyAttempts says that
\* after the last send the claim row records the failure: that of a delivery
\* whose last send fails when the write of its outcome fails too (deliver drops
\* the error of MarkNotification, keep drops the delivery).
NothingSilent ==
    \A id \in announced \ (excused \cup unrecorded) :
        \/ \E p \in Procs : id \in Ids(proc[p].work \o proc[p].pending)
        \/ id \in Range(inbox[id.channel])
        \/ \E c \in claims : c.id = id /\ c.attempts >= maxNotifyAttempts
        \/ Purged(id)

\* Between the passes of a leader its evaluator holds as firing exactly what
\* the table shows open (Checkpoint's undo, Restore, Reset): no alert is left
\* open that nothing will close, and a message is only sent of a row on record
\* (until the purge removes it).
TableFollows ==
    /\ ~overlapped /\ ~unsure => \A p \in Procs :
          holder = p /\ Idle(p) /\ proc[p].loaded =>
              {<<a.key, a.start>> : a \in Open} =
              {<<k, proc[p].eval[k].first>> : k \in {x \in Keys : proc[p].eval[x].firing}}
    /\ \A c \in DOMAIN inbox : \A n \in DOMAIN inbox[c] :
          \/ \E a \in alerts : a.key = inbox[c][n].key /\ a.start = inbox[c][n].start
          \/ Purged(inbox[c][n])
=============================================================================
