------------------------------ MODULE Topology ------------------------------
(***************************************************************************)
(* internal/topology/engine.go: the in-memory engine that turns the        *)
(* observations of a cluster's instances into role_change, failover,       *)
(* split_brain and orphan_standby events, and that can undo an observation *)
(* whose transaction did not commit.                                       *)
(*                                                                         *)
(* The engine is a record: instances (the state of every instance, NoState *)
(* for one that is not tracked), and per cluster lastPrimary, lastFailover *)
(* and lastSplitBrain.  0 is Go's zero time and "" its empty string.       *)
(* edgeSeenAt is written and swept but never read, so it is left out; the  *)
(* clusterInstances index is the set of instances whose cluster it is.     *)
(***************************************************************************)
EXTENDS Integers, FiniteSets

CONSTANTS
    Instances,          \* the instance ids
    Clusters,           \* the cluster ids
    failoverWindow,     \* how long a primary counts as recent
    orphanWindow,       \* how long an upstream may stay unresolved
    splitBrainWindow,   \* least time between two split_brain events
    failoverQuiet       \* time after a failover without split_brain (30 s)

NoObs == [sent |-> 0, role |-> "", cluster |-> "", edges |-> "none"]

NoState == [role |-> "", cluster |-> "", timestamp |-> 0, lastObs |-> NoObs,
            quietCycles |-> 0, orphanAt |-> 0, orphanSeenAt |-> 0,
            orphanSeenSent |-> 0, orphanedAt |-> 0]

NoPrimary == [instance |-> "", timestamp |-> 0]

NewEngine == [instances |-> [i \in Instances |-> NoState],
              lastPrimary |-> [c \in Clusters |-> NoPrimary],
              lastFailover |-> [c \in Clusters |-> 0],
              lastSplitBrain |-> [c \in Clusters |-> 0]]

knownRole(r) == r \notin {"", "unknown"}

\* A recent primary, other than the observed instance, hands over to it.
HandsOver(e, o, now) ==
    LET last == e.lastPrimary[o.cluster]
    IN  /\ last # NoPrimary
        /\ now - last.timestamp < failoverWindow
        /\ last.instance # o.instance

Event(type, instance, role, now) ==
    [type |-> type, instance |-> instance, role |-> role, ts |-> now]

\* The event for a role that differs from the one last seen.  A first sighting
\* is compared with the role the store holds.
RoleEvents(e, o, now) ==
    LET was == e.instances[o.instance].role
        change == {Event("role_change", o.instance, o.role, now)}
    IN  CASE was = o.role -> {}
          [] was = "standby" /\ o.role = "primary" ->
                IF HandsOver(e, o, now)
                THEN {Event("failover_detected", o.instance, o.role, now)}
                ELSE change
          [] was = "" /\ knownRole(o.prior) /\ o.prior = o.role -> {}
          [] OTHER -> change

\* A promotion seen as such, or hidden behind an unknown role, dates the
\* cluster's last failover.
FailsOver(e, o, now) ==
    /\ e.instances[o.instance].role \in {"standby", "unknown"}
    /\ o.role = "primary"
    /\ HandsOver(e, o, now)

\* Two observations in a row without evidence, and a whole window since the
\* evidence on the server's clock and on the agent's.
orphanGapEnds(s, now, sent) ==
    /\ s.quietCycles >= 2
    /\ s.orphanSeenAt = 0 \/ now - s.orphanSeenAt >= orphanWindow
    /\ \/ sent = 0 \/ s.orphanSeenSent = 0
       \/ sent - s.orphanSeenSent >= orphanWindow

EndOrphan(s) == [s EXCEPT !.orphanAt = 0, !.orphanedAt = 0]

QuietCycle(s, now, sent) ==
    LET q == [s EXCEPT !.quietCycles = @ + 1]
    IN  IF orphanGapEnds(q, now, sent) THEN EndOrphan(q) ELSE q

OrphanCycle(s, now, sent) ==
    [s EXCEPT !.quietCycles = 0,
              !.orphanAt = IF @ = 0 THEN now ELSE @,
              !.orphanSeenAt = now, !.orphanSeenSent = sent]

\* Whether a state that has just seen evidence is due its orphan_standby event.
OrphanDue(s, now) ==
    /\ now - s.orphanAt >= orphanWindow
    /\ s.orphanedAt = 0 \/ now - s.orphanedAt >= orphanWindow

\* The state after the role's edges are read, before its event is dated.
Edges(s, o, now) ==
    CASE o.role = "standby" /\ o.edges = "high" -> QuietCycle(EndOrphan(s), now, o.sent)
      [] o.role = "standby" /\ o.edges = "low" -> OrphanCycle(s, now, o.sent)
      [] o.role = "standby" /\ o.edges = "none" -> QuietCycle(s, now, o.sent)
      [] o.role = "unknown" -> QuietCycle(s, now, o.sent)
      [] OTHER -> EndOrphan(s)

IsOrphan(s, o, now) == o.role = "standby" /\ o.edges = "low" /\ OrphanDue(s, now)

\* The primaries of a cluster seen recently and since its last failover.
Primaries(e, c, now) ==
    {i \in Instances : /\ e.instances[i].cluster = c
                       /\ e.instances[i].role = "primary"
                       /\ now - e.instances[i].timestamp < failoverWindow
                       /\ e.instances[i].timestamp >= e.lastFailover[c]}

SplitBrainDue(e, c, now) ==
    /\ Cardinality(Primaries(e, c, now)) >= 2
    /\ e.lastFailover[c] = 0 \/ now - e.lastFailover[c] > failoverQuiet
    /\ \/ e.lastSplitBrain[c] = 0
       \/ now - e.lastSplitBrain[c] >= splitBrainWindow

detectSplitBrain(e, c, now) ==
    IF SplitBrainDue(e, c, now)
    THEN [engine |-> [e EXCEPT !.lastSplitBrain[c] = now],
          events |-> {Event("split_brain_detected", "", "", now)}]
    ELSE [engine |-> IF Cardinality(Primaries(e, c, now)) < 2
                     THEN [e EXCEPT !.lastSplitBrain[c] = 0] ELSE e,
          events |-> {}]

\* A retried or replayed envelope: the same cycle, which changes nothing.
Repeats(s, o) ==
    /\ o.sent # 0
    /\ s.lastObs = [sent |-> o.sent, role |-> o.role, cluster |-> o.cluster,
                    edges |-> o.edges]

\* apply: o is [instance, cluster, role, prior, sent, edges].
apply(e, o, now) ==
    LET s == e.instances[o.instance]
        seen == [s EXCEPT !.lastObs = [sent |-> o.sent, role |-> o.role,
                                       cluster |-> o.cluster, edges |-> o.edges],
                          !.role = o.role, !.cluster = o.cluster,
                          !.timestamp = now]
        read == Edges(seen, o, now)
        due == IsOrphan(read, o, now)
        f == [e EXCEPT
                !.instances[o.instance] = IF due THEN [read EXCEPT !.orphanedAt = now]
                                                 ELSE read,
                !.lastFailover[o.cluster] = IF FailsOver(e, o, now) THEN now ELSE @,
                !.lastPrimary[o.cluster] =
                    IF o.role = "primary"
                    THEN [instance |-> o.instance, timestamp |-> now] ELSE @]
        split == detectSplitBrain(f, o.cluster, now)
    IN  IF Repeats(s, o)
        THEN [engine |-> e, events |-> {}]
        ELSE [engine |-> split.engine,
              events |-> RoleEvents(e, o, now) \cup split.events
                         \cup (IF due THEN {Event("orphan_standby", o.instance, o.role, now)} ELSE {})]

\* The state apply can change for an instance and its cluster.
shared(e, c) == [lastPrimary |-> e.lastPrimary[c], lastFailover |-> e.lastFailover[c],
                 lastSplitBrain |-> e.lastSplitBrain[c]]

mark(e, i, c) == [cluster |-> c, state |-> e.instances[i], shared |-> shared(e, c)]

NoMark == [before |-> "none", written |-> "none"]

\* revert: each piece goes back only where it still holds what apply wrote.
Back(live, before, written) == IF live = written THEN before ELSE live

revertShared(x, before, written) ==
    [lastPrimary |-> Back(x.lastPrimary, before.shared.lastPrimary, written.shared.lastPrimary),
     lastFailover |-> Back(x.lastFailover, before.shared.lastFailover, written.shared.lastFailover),
     lastSplitBrain |-> Back(x.lastSplitBrain, before.shared.lastSplitBrain,
                             written.shared.lastSplitBrain)]

\* Evict: instances not observed since the cutoff go, and a cluster's times go
\* with its last instance.
EvictTopology(e, cutoff) ==
    LET kept == {i \in Instances : e.instances[i].timestamp >= cutoff
                                   /\ e.instances[i] # NoState}
        live == {e.instances[i].cluster : i \in kept}
    IN  [instances |-> [i \in Instances |-> IF i \in kept THEN e.instances[i] ELSE NoState],
         lastPrimary |-> [c \in Clusters |-> IF c \in live THEN e.lastPrimary[c] ELSE NoPrimary],
         lastFailover |-> [c \in Clusters |-> IF c \in live THEN e.lastFailover[c] ELSE 0],
         lastSplitBrain |-> [c \in Clusters |-> IF c \in live THEN e.lastSplitBrain[c] ELSE 0]]
=============================================================================
