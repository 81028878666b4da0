------------------------------ MODULE Staleness ------------------------------
(***************************************************************************)
(* The staleness evaluator (internal/server/staleness.go): every replica   *)
(* evaluates once a period, and the one whose session holds the advisory   *)
(* lock announces, as events, the instances that fell silent or came back, *)
(* a cluster left without a primary and the replication slots that are     *)
(* inactive or lost, then drops the edges, events and query texts that are *)
(* past their retention.                                                   *)
(*                                                                         *)
(* One cluster, one slot.  An evaluation is split at its uses of the       *)
(* database: a leader whose session dies goes on with the evaluation it is *)
(* in while another replica takes the lock.                                *)
(***************************************************************************)
EXTENDS Integers, Sequences, FiniteSets, FiniteSetsExt, SequencesExt, Functions

CONSTANTS
    Procs,                  \* the replicas of the server
    Instances,
    staleAfter,             \* store.InstanceStaleAfter
    noPrimaryThreshold, slotInactiveThreshold, slotStateWindow,
    eventRetention, eventPurgeInterval, eventPurgeBatch,
    topologyEdgeLiveness,
    Story,                  \* what may happen in each period: [seen, role, revoked, slot]
    LastFault,              \* the last period in which something fails
    MaxFaults,
    Nobody                  \* a model value: the lock is free

ASSUME StalenessAssumption ==
    /\ {staleAfter, noPrimaryThreshold, slotInactiveThreshold, slotStateWindow, eventRetention,
        eventPurgeInterval, eventPurgeBatch, topologyEdgeLiveness, LastFault, MaxFaults} \subseteq Nat
    /\ Nobody \notin Procs

VARIABLES
    now, faults,
    due,            \* the replicas whose ticker has fired
    inst,           \* the instances table: [lastSeen, role, revoked]
    slot,           \* the slot's latest row: [at, active, status]
    edges,          \* the instances whose topology edges are stored
    texts,          \* the query texts: [instance, at]
    events,         \* the events table: [ts, type, of]
    holder,         \* the replica whose session holds the advisory lock
    proc,           \* the replicas' memory
    told,           \* every agent event ever written, by instance: [ts, up]
    overlapped,     \* a replica wrote an event without the lock
    unsure          \* instances whose write went through and was reported as failed

db == <<inst, slot, edges, texts, events>>
vars == <<now, faults, due, db, holder, proc, told, overlapped, unsure>>

None == [at |-> -1, active |-> TRUE, status |-> ""]
Never == -1

\* The state of a slot in memory: inactive since, and the events emitted.
NoSpell == [since |-> Never, inactive |-> FALSE, lost |-> FALSE]

NewStaleness ==
    [pc |-> "idle", conn |-> "none", hasLock |-> FALSE, announcedLoaded |-> FALSE,
     instanceUp |-> <<>>, view |-> <<>>, gauge |-> <<>>,
     primarySeen |-> Never, noPrimaryEmitted |-> FALSE, spell |-> NoSpell,
     eventPurge |-> [last |-> Never, backlog |-> FALSE],
     textPurge |-> [last |-> Never, backlog |-> FALSE]]

Init ==
    /\ now = 0 /\ faults = 0 /\ due = {}
    /\ inst = [i \in Instances |-> [lastSeen |-> 0, role |-> "standby", revoked |-> FALSE]]
    /\ slot = None /\ edges = {} /\ texts = {} /\ events = {}
    /\ holder = Nobody
    /\ proc = [p \in Procs |-> NewStaleness]
    /\ told = [i \in Instances |-> <<>>]
    /\ overlapped = FALSE /\ unsure = {}

-----------------------------------------------------------------------------
\* The rest of the system: what the pipeline stores in a period.

Seen(i, what) == i \in what.seen /\ ~inst[i].revoked

\* An evaluation is cut off well before the next one is due.
Period(what) ==
    /\ due = {} /\ \A p \in Procs : proc[p].pc = "idle"
    /\ now' = now + 1
    /\ due' = Procs
    /\ inst' = [i \in Instances |->
                  [lastSeen |-> IF Seen(i, what) THEN now' ELSE inst[i].lastSeen,
                   role |-> IF Seen(i, what) /\ i \in DOMAIN what.role THEN what.role[i] ELSE inst[i].role,
                   revoked |-> inst[i].revoked \/ i \in what.revoked]]
    /\ slot' = IF what.slot = "none" THEN slot
               ELSE [at |-> now', active |-> what.slot = "active",
                     status |-> IF what.slot = "lost" THEN "lost" ELSE ""]
    /\ edges' = edges \cup {i \in what.seen : Seen(i, what)}
    /\ texts' = {t \in texts : ~Seen(t.instance, what)}
                  \cup {[instance |-> i, at |-> now'] : i \in {j \in what.seen : Seen(j, what)}}
    /\ UNCHANGED <<faults, events, holder, proc, told, overlapped, unsure>>

-----------------------------------------------------------------------------
\* Leadership.

Fault == faults < MaxFaults /\ now <= LastFault /\ faults' = faults + 1
NoFault == UNCHANGED faults

\* A leader that regains the lock keeps the memory of its last term.
ensureLeaderKeeps(p) ==
    LET pr == proc[p]
    IN  IF ~pr.hasLock /\ pr.conn = "dead" THEN [pr EXCEPT !.conn = "none"]
        ELSE [pr EXCEPT !.conn = "live", !.hasLock = holder \in {Nobody, p}]

\* A leader pings its session; a follower finds out that its own is dead when it
\* tries the lock, gives it up and reports the error.
ensureLeader(p) ==
    LET pr == proc[p]
        kept == pr.hasLock /\ pr.conn = "live"
        broken == ~pr.hasLock /\ pr.conn = "dead"
        locked == holder \in {Nobody, p}
    IN  CASE kept -> pr
          [] broken -> [pr EXCEPT !.conn = "none"]
          [] OTHER -> [pr EXCEPT !.conn = "live", !.hasLock = locked,
                                 !.announcedLoaded = @ /\ ~(locked /\ (pr.conn = "dead" \/ ~pr.hasLock))]

\* The session is closed, and the lock goes with it.
releaseLeaderConn(p) == [proc[p] EXCEPT !.conn = "none", !.hasLock = FALSE]

-----------------------------------------------------------------------------
\* Evaluate: what an evaluation reads.

isStaleUp(lastSeen, t) == t <= lastSeen + staleAfter

Up(v, i) == isStaleUp(v[i].lastSeen, now)

Idle(p) == [proc[p] EXCEPT !.pc = "idle", !.view = <<>>]

\* The instances are read; every replica sets its gauges, and only the leader
\* goes on.
ReadInstances(pr) ==
    [pr EXCEPT !.gauge = [i \in Instances |-> Up(inst, i)],
               !.view = IF pr.hasLock THEN inst ELSE <<>>,
               !.pc = IF pr.hasLock THEN "announce" ELSE "idle"]

Begin(p) ==
    /\ p \in due /\ proc[p].pc = "idle"
    /\ due' = due \ {p}
    /\ LET pr == ensureLeader(p)
       IN  \/ /\ NoFault
              /\ proc' = [proc EXCEPT ![p] = IF pr.conn = "none" THEN pr ELSE ReadInstances(pr)]
              /\ holder' = IF pr.hasLock THEN p ELSE holder
           \/ /\ Fault        \* the read of the instances fails
              /\ proc' = [proc EXCEPT ![p] = pr]
              /\ holder' = IF pr.hasLock THEN p ELSE holder
           \/ /\ Fault        \* no connection, or the lock query fails
              /\ proc[p].conn # "live" \/ ~proc[p].hasLock
              /\ proc' = [proc EXCEPT ![p] = releaseLeaderConn(p)]
              /\ UNCHANGED holder
    /\ UNCHANGED <<now, db, told, overlapped, unsure>>

AgentEvents(i) == {e \in events : e.of = i /\ e.type \in {"agent_up", "agent_down"}}

\* The newest agent event of each instance that has one.
announcedStates ==
    [i \in {j \in Instances : AgentEvents(j) # {}} |->
        (CHOOSE e \in AgentEvents(i) : \A x \in AgentEvents(i) : x.ts <= e.ts).type = "agent_up"]

\* The map is rebuilt from the events when a term begins.  An instance silent for
\* longer than the events are kept was announced by one that is gone.
Rebuilt(v) ==
    [i \in {j \in Instances : j \in DOMAIN announcedStates \/ v[j].lastSeen < now - eventRetention} |->
        i \in DOMAIN announcedStates /\ announcedStates[i]]

\* What the loop records without writing an event: a revoked agent's instance,
\* and one seen for the first time that is up.
Noted(known, v) ==
    [i \in DOMAIN known \cup {j \in Instances : v[j].revoked \/ Up(v, j)} |->
        IF v[i].revoked \/ i \notin DOMAIN known THEN Up(v, i) ELSE known[i]]

LoadAnnounced(p) ==
    /\ proc[p].pc = "announce"
    /\ \/ /\ NoFault
          /\ LET v == proc[p].view
                 known == IF proc[p].announcedLoaded THEN proc[p].instanceUp ELSE Rebuilt(v)
             IN  proc' = [proc EXCEPT ![p].instanceUp = Noted(known, v),
                                      ![p].announcedLoaded = TRUE, ![p].pc = "emit"]
       \/ /\ Fault /\ ~proc[p].announcedLoaded
          /\ proc' = [proc EXCEPT ![p] = Idle(p)]
    /\ UNCHANGED <<now, due, db, holder, told, overlapped, unsure>>

-----------------------------------------------------------------------------
\* Evaluate: what the leader writes.

\* A transition is left to write when memory and the instance disagree.
Pending(p) ==
    LET v == proc[p].view
    IN  {i \in Instances : /\ ~v[i].revoked
                           /\ i \in DOMAIN proc[p].instanceUp => proc[p].instanceUp[i] # Up(v, i)}

transitionEvents(i, up) ==
    {[ts |-> now, type |-> t, of |-> i] :
        t \in IF up THEN {"agent_up", "instance_reachable"} ELSE {"agent_down", "instance_unreachable"}}

Deposed(p) == holder # p

\* The state moves before the events are stored.
EmitRecordsFirst(p, i) ==
    /\ proc[p].pc = "emit" /\ i \in Pending(p)
    /\ LET up == Up(proc[p].view, i)
       IN  \/ /\ NoFault
              /\ events' = events \cup transitionEvents(i, up)
              /\ told' = [told EXCEPT ![i] = Append(@, [ts |-> now, up |-> up])]
              /\ overlapped' = (overlapped \/ Deposed(p))
              /\ proc' = [proc EXCEPT ![p].instanceUp = (i :> up) @@ @]
           \/ /\ Fault
              /\ proc' = [proc EXCEPT ![p] = [Idle(p) EXCEPT !.instanceUp = (i :> up) @@ @]]
              /\ UNCHANGED <<events, told, overlapped>>
    /\ UNCHANGED <<now, due, inst, slot, edges, texts, holder, unsure>>

\* The events of a transition are stored together, and the state moves once they are.
Emit(p, i) ==
    /\ proc[p].pc = "emit" /\ i \in Pending(p)
    /\ LET up == Up(proc[p].view, i)
           stored == /\ events' = events \cup transitionEvents(i, up)
                     /\ told' = [told EXCEPT ![i] = Append(@, [ts |-> now, up |-> up])]
                     /\ overlapped' = (overlapped \/ Deposed(p))
       IN  \/ /\ NoFault /\ stored
              /\ proc' = [proc EXCEPT ![p].instanceUp = (i :> up) @@ @]
              /\ UNCHANGED unsure
           \/ /\ Fault            \* the write fails, or its answer is lost
              /\ \/ stored /\ unsure' = unsure \cup {i}
                 \/ UNCHANGED <<events, told, overlapped, unsure>>
              /\ proc' = [proc EXCEPT ![p] = Idle(p)]
    /\ UNCHANGED <<now, due, inst, slot, edges, texts, holder>>

\* A revoked agent's instances are not a subject of the check.
Watched(v) == {i \in Instances : ~v[i].revoked}
HasPrimary(v) == \E i \in Watched(v) : v[i].role = "primary" /\ Up(v, i)

NoPrimaryDue(p) ==
    /\ Watched(proc[p].view) # {} /\ ~HasPrimary(proc[p].view)
    /\ proc[p].primarySeen # Never /\ now - proc[p].primarySeen > noPrimaryThreshold
    /\ ~proc[p].noPrimaryEmitted

NoPrimary(p) ==
    /\ proc[p].pc = "emit" /\ Pending(p) = {}
    /\ LET v == proc[p].view
           noted == [proc[p] EXCEPT
                        !.primarySeen = IF Watched(v) # {} /\ (HasPrimary(v) \/ @ = Never) THEN now ELSE @,
                        !.noPrimaryEmitted = (@ /\ ~HasPrimary(v)) \/ NoPrimaryDue(p),
                        !.pc = "slots"]
       IN  \/ /\ NoFault
              /\ proc' = [proc EXCEPT ![p] = noted]
              /\ events' = events \cup {[ts |-> now, type |-> "no_primary_in_cluster", of |-> "cluster"] :
                                           x \in IF NoPrimaryDue(p) THEN {p} ELSE {}}
           \/ /\ Fault /\ NoPrimaryDue(p)
              /\ proc' = [proc EXCEPT ![p] = Idle(p)]
              /\ UNCHANGED events
    /\ UNCHANGED <<now, due, inst, slot, edges, texts, holder, told, overlapped, unsure>>

\* The slot's row, when it is recent enough to be current.
SlotRow == IF slot.at # Never /\ slot.at >= now - slotStateWindow THEN slot ELSE None

\* decideSlotInactiveEmissions and decideSlotLostEmissions: a slot that is absent
\* or active loses the state of its spell, one that is not lost its own.
decideSlotInactive(s) ==
    CASE SlotRow.active -> [s EXCEPT !.since = Never, !.inactive = FALSE]
      [] ~SlotRow.active /\ s.since = Never -> [s EXCEPT !.since = now]
      [] OTHER -> [s EXCEPT !.inactive = @ \/ now - s.since > slotInactiveThreshold]

decideSlotLost(s) == [s EXCEPT !.lost = SlotRow.status = "lost"]

SlotEvents(types) == {[ts |-> now, type |-> t, of |-> "slot"] : t \in types}

\* An emission that is not written is unmarked; an inactive one that fails leaves
\* the lost one undecided.
Slots(p) ==
    /\ proc[p].pc = "slots"
    /\ LET s == proc[p].spell
           one == decideSlotInactive(s)
           both == decideSlotLost(one)
           inactive == one.inactive /\ ~s.inactive
           lost == both.lost /\ ~s.lost
           first == {t \in {"slot_inactive"} : inactive}
           second == {t \in {"slot_lost"} : lost}
       IN  \/ /\ NoFault
              /\ events' = events \cup SlotEvents(first \cup second)
              /\ proc' = [proc EXCEPT ![p].spell = both, ![p].pc = "purge"]
           \/ /\ Fault
              /\ \/ /\ UNCHANGED events       \* the read fails
                    /\ proc' = [proc EXCEPT ![p] = Idle(p)]
                 \/ /\ inactive /\ UNCHANGED events
                    /\ proc' = [proc EXCEPT ![p] = [Idle(p) EXCEPT !.spell = [one EXCEPT !.inactive = FALSE]]]
                 \/ /\ lost /\ events' = events \cup SlotEvents(first)
                    /\ proc' = [proc EXCEPT ![p] = [Idle(p) EXCEPT !.spell = [both EXCEPT !.lost = FALSE]]]
    /\ UNCHANGED <<now, due, inst, slot, edges, texts, holder, told, overlapped, unsure>>

-----------------------------------------------------------------------------
\* The purges.

purgeTopologyEdges == {i \in edges : inst[i].lastSeen >= now - topologyEdgeLiveness}

\* One batch at a time, once per interval unless the last batch was full.
Runs(pace) == pace.backlog \/ pace.last = Never \/ now - pace.last >= eventPurgeInterval

\* The batches a DELETE ... LIMIT may take.
Batch(old) == IF Cardinality(old) <= eventPurgeBatch THEN {old} ELSE kSubset(eventPurgeBatch, old)

Paced(pace, batch) ==
    IF Runs(pace) THEN [last |-> now, backlog |-> Cardinality(batch) = eventPurgeBatch] ELSE pace

OldEvents(pace) == IF Runs(pace) THEN {e \in events : e.ts < now - eventRetention} ELSE {}
OldTexts(pace) == IF Runs(pace) THEN {t \in texts : t.at < now - eventRetention} ELSE {}

\* purgeTopologyEdges and purgeRetention; a purge of query texts that fails does
\* not stop the one of events.
Purge(p) ==
    /\ proc[p].pc = "purge"
    /\ LET pr == proc[p]
       IN  \/ /\ NoFault
              /\ edges' = purgeTopologyEdges
              /\ \E gone \in Batch(OldEvents(pr.eventPurge)), old \in Batch(OldTexts(pr.textPurge)) :
                    /\ events' = events \ gone /\ texts' = texts \ old
                    /\ proc' = [proc EXCEPT ![p] =
                         [Idle(p) EXCEPT !.eventPurge = Paced(@, gone), !.textPurge = Paced(@, old)]]
           \/ /\ Fault
              /\ \/ /\ proc' = [proc EXCEPT ![p] = Idle(p)]
                    /\ UNCHANGED <<edges, events, texts>>
                 \/ /\ edges' = purgeTopologyEdges /\ UNCHANGED texts
                    /\ \E gone \in Batch(OldEvents(pr.eventPurge)) :
                         /\ events' = events \ gone
                         /\ proc' = [proc EXCEPT ![p] = [Idle(p) EXCEPT !.eventPurge = Paced(@, gone)]]
                 \/ /\ edges' = purgeTopologyEdges /\ UNCHANGED events
                    /\ \E old \in Batch(OldTexts(pr.textPurge)) :
                         /\ texts' = texts \ old
                         /\ proc' = [proc EXCEPT ![p] = [Idle(p) EXCEPT !.textPurge = Paced(@, old)]]
    /\ UNCHANGED <<now, due, inst, slot, holder, told, overlapped, unsure>>

-----------------------------------------------------------------------------
\* A session ends on the server's side, and a replica stops and starts again.

LoseSession(p) ==
    /\ Fault /\ proc[p].conn = "live"
    /\ proc' = [proc EXCEPT ![p].conn = "dead"]
    /\ holder' = IF holder = p THEN Nobody ELSE holder
    /\ UNCHANGED <<now, due, db, told, overlapped, unsure>>

\* Stop unlocks, or closes the session; either way the lock is free.
Restart(p) ==
    /\ Fault
    /\ proc' = [proc EXCEPT ![p] = NewStaleness]
    /\ holder' = IF holder = p THEN Nobody ELSE holder
    /\ due' = due \ {p}
    /\ UNCHANGED <<now, db, told, overlapped, unsure>>

Evaluate(p) ==
    \/ Begin(p) \/ LoadAnnounced(p)
    \/ \E i \in Instances : Emit(p, i)
    \/ NoPrimary(p) \/ Slots(p) \/ Purge(p)

Happens == now < Len(Story) /\ \E what \in Story[now + 1] : Period(what)

Next ==
    \/ Happens
    \/ \E p \in Procs : Evaluate(p) \/ LoseSession(p) \/ Restart(p)

\* Time goes by, and a ticker that fired gets its evaluation.
Fairness == WF_vars(Happens) /\ \A p \in Procs : WF_vars(Evaluate(p))

Spec == Init /\ [][Next]_vars /\ Fairness

-----------------------------------------------------------------------------
\* Properties.

\* An instance's announcements alternate, whichever replica makes them and
\* whatever it has forgotten: two that say the same are further apart than the
\* events are kept.  Except for a leader that writes after it lost the lock, and
\* for a write whose answer was lost.
OncePerTransition ==
    ~overlapped =>
        \A i \in Instances \ unsure : \A n \in 1 .. Len(told[i]) - 1 :
            told[i][n].up = told[i][n + 1].up => told[i][n + 1].ts - told[i][n].ts > eventRetention

Silent(i) == ~inst[i].revoked /\ ~isStaleUp(inst[i].lastSeen, now)

\* An instance that stays silent is announced as down, whatever failed before.
\* Except when the leader does not know of a stored agent_up, and its memory stays
\* at down: its answer was lost, or a deposed leader wrote it.
SilenceAnnounced ==
    \A i \in Instances :
        Silent(i) ~> (~Silent(i) \/ i \in unsure \/ overlapped \/ (told[i] # <<>> /\ ~Last(told[i]).up))
=============================================================================
