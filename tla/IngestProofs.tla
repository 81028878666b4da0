---------------------------- MODULE IngestProofs ----------------------------
(***************************************************************************)
(* Proofs about Ingest: for any instances, clusters, envelopes, windows    *)
(* and number of attempts in flight, roles and role events agree, repeated *)
(* events keep their distance, and a result is counted once.               *)
(***************************************************************************)
EXTENDS Ingest, TLAPS

\* What an attempt has applied to the engine and not yet committed or undone.
InFlight(k, i) == slot[k].pc = "process" /\ i \in slot[k].stored
Free(i) == \A k \in Slots : ~InFlight(k, i)

RoleOf(a, i) == normalizeRole(Report(a, i).role)

-----------------------------------------------------------------------------
\* The shape of the state.

Envelopes == [ts : Nat, reports : UNION {Shapes[n] : n \in 1..MaxEnvelopes},
              counters : [Instances -> [value : Nat, epoch : Nat]]]

\* The records of the engine and of the tables have the fields that matter
\* here; an instance's role is the one of its last observation.
StateOK(s) ==
    /\ {"role", "lastObs", "orphanAt", "orphanedAt"} \subseteq DOMAIN s
    /\ s.orphanAt \in Nat /\ s.orphanedAt \in Nat
    /\ s.role = s.lastObs.role

EngineOK(e) ==
    /\ "instances" \in DOMAIN e /\ Instances \subseteq DOMAIN e.instances
    /\ \A i \in Instances : StateOK(e.instances[i])

TablesOK(d) ==
    /\ {"instances", "reported", "orphans", "truncations"} \subseteq DOMAIN d
    /\ \A i \in Instances : "role" \in DOMAIN d.instances[i]
    /\ d.orphans \in [Instances -> Seq(Nat \ {0})]
    /\ d.truncations \in [Instances -> Seq(Nat)]

AttemptOK(a) ==
    /\ {"pc", "n", "todo", "stored", "marks", "events", "truncations"} \subseteq DOMAIN a
    /\ Instances \subseteq DOMAIN a.marks
    /\ a.pc \in {"process", "settle"} => a.n \in DOMAIN log

Shape ==
    /\ now \in Nat /\ next \in Nat \ {0} /\ unsure \in BOOLEAN
    /\ counters \in [Instances -> [value : Nat, epoch : Nat]]
    /\ log \in Seq(Envelopes)
    /\ \A n \in DOMAIN log : log[n].ts \in 1..now
    /\ Instances \subseteq DOMAIN lock /\ Slots \subseteq DOMAIN slot
    /\ \A k \in Slots : AttemptOK(slot[k])
    /\ EngineOK(engine)
    /\ TablesOK(db)

-----------------------------------------------------------------------------
\* What the inductive invariant says beyond it.

\* An attempt holds the lock of each instance it has applied, applies an
\* instance once, has events only of these, and can still undo them.
LocksOK ==
    \A k \in Slots : slot[k].pc = "process" =>
        /\ slot[k].todo \subseteq Instances /\ slot[k].stored \subseteq Instances
        /\ slot[k].todo \cap slot[k].stored = {}
        /\ slot[k].truncations \subseteq slot[k].stored
        /\ \A i \in Instances \ slot[k].stored :
              RoleEventsOf(slot[k], i) = {} /\ OrphanEventsOf(slot[k], i) = {}
        /\ \A i \in slot[k].stored :
              /\ lock[i] = k
              /\ StateOK(slot[k].marks[i].before.state)
              /\ \A e \in OrphanEventsOf(slot[k], i) : e.ts \in Nat \ {0}
              /\ engine.instances[i] \in {NoState, slot[k].marks[i].written.state}

\* The engine knows of an instance the role that is stored, or nothing.
Remembers(s, i) == s.role \in {"", db.instances[i].role}

\* An attempt that stores another role stores its event with it.
RolesOK ==
    ~unsure => \A i \in Instances :
        /\ Free(i) => Remembers(engine.instances[i], i)
        /\ \A k \in Slots : InFlight(k, i) =>
              /\ Remembers(slot[k].marks[i].before.state, i)
              /\ engine.instances[i].role \in {"", RoleOf(slot[k], i)}
              /\ RoleEventsOf(slot[k], i) = {} => RoleOf(slot[k], i) = db.instances[i].role
              /\ \A e \in RoleEventsOf(slot[k], i) : e.role = RoleOf(slot[k], i)

\* An orphan_standby event dated t holds back the next one: the state has been
\* dated since, or has no standing evidence, or has its evidence from later.
Covers(s, t) == s.orphanAt = 0 \/ s.orphanAt >= t \/ s.orphanedAt >= t
Dated(s, i) == \A j \in DOMAIN db.orphans[i] : Covers(s, db.orphans[i][j])

OrphansOK ==
    ~unsure => \A i \in Instances :
        /\ Apart(db.orphans[i], orphanWindow)
        /\ \A j \in DOMAIN db.orphans[i] : db.orphans[i][j] <= now
        /\ Dated(engine.instances[i], i)
        /\ \A k \in Slots : InFlight(k, i) =>
              /\ Dated(slot[k].marks[i].before.state, i)
              /\ \A e \in OrphanEventsOf(slot[k], i) :
                    /\ e.ts <= now
                    /\ Covers(engine.instances[i], e.ts)
                    /\ \A j \in DOMAIN db.orphans[i] : e.ts - db.orphans[i][j] >= orphanWindow

\* The lock keeps what truncationEventDue read true until the commit.
TruncationsOK ==
    \A i \in Instances :
        /\ Apart(db.truncations[i], truncationWindow)
        /\ \A k \in Slots : slot[k].pc = "process" /\ i \in slot[k].truncations =>
              \A j \in DOMAIN db.truncations[i] :
                  db.truncations[i][j] <= log[slot[k].n].ts - truncationWindow

\* A counted result is covered by its mark, or too old to be counted again.
CountsOK ==
    /\ tally \in [Instances -> Seq(Nat)]
    /\ checkCounted \in [Instances -> 0..now]
    /\ \A i \in Instances :
          /\ Len(tally[i]) = Len(log)
          /\ \A n \in DOMAIN log :
                /\ tally[i][n] <= 1
                /\ \/ tally[i][n] = 0
                   \/ checkCounted[i] >= log[n].ts
                   \/ now - log[n].ts > evictAge

(* The inductive invariant. *)
IngestInv == Shape /\ LocksOK /\ RolesOK /\ RoleReported /\ OrphansOK /\ TruncationsOK /\ CountsOK

-----------------------------------------------------------------------------
\* The topology engine.

\* Reading the edges keeps the fields and the role, and keeps what a state
\* covers unless it takes up evidence now.
LEMMA EdgesKeep ==
    ASSUME NEW s, StateOK(s), NEW o, NEW t \in Nat,
           NEW w, w = Edges(s, o, t)
    PROVE  /\ StateOK(w) /\ w.role = s.role
           /\ \A u \in 0..t : Covers(s, u) => Covers(w, u)
           /\ w.orphanedAt \in {0, s.orphanedAt}
           /\ o.role = "standby" /\ o.edges = "low" =>
                 w.orphanedAt = s.orphanedAt /\ w.orphanAt = IF s.orphanAt = 0 THEN t ELSE s.orphanAt
  <1>1. PICK e : e = EndOrphan(s)
    OBVIOUS
  <1>2. StateOK(e) /\ e.role = s.role /\ e.orphanAt = 0 /\ e.orphanedAt = 0
    BY <1>1 DEF EndOrphan, StateOK
  <1>3. ASSUME NEW q, StateOK(q), NEW r, r = QuietCycle(q, t, o.sent)
        PROVE  StateOK(r) /\ r.role = q.role
               /\ \/ r.orphanAt = q.orphanAt /\ r.orphanedAt = q.orphanedAt
                  \/ r.orphanAt = 0 /\ r.orphanedAt = 0
    <2>1. PICK p : p = [q EXCEPT !.quietCycles = @ + 1]
      BY Zenon
    <2>2. StateOK(p) /\ p.role = q.role /\ p.orphanAt = q.orphanAt /\ p.orphanedAt = q.orphanedAt
      BY <1>3, <2>1, Zenon DEF StateOK
    <2>3. PICK f : f = EndOrphan(p)
      OBVIOUS
    <2>4. StateOK(f) /\ f.role = p.role /\ f.orphanAt = 0 /\ f.orphanedAt = 0
      BY <2>2, <2>3, Zenon DEF EndOrphan, StateOK
    <2>5. r = f \/ r = p
      BY <1>3, <2>1, <2>3, Zenon DEF QuietCycle
    <2> QED
      BY <2>2, <2>4, <2>5, Zenon
  <1>4. PICK c : c = OrphanCycle(s, t, o.sent)
    OBVIOUS
  <1>5. /\ StateOK(c) /\ c.role = s.role /\ c.orphanedAt = s.orphanedAt
        /\ c.orphanAt = IF s.orphanAt = 0 THEN t ELSE s.orphanAt
    BY <1>4 DEF OrphanCycle, StateOK
  <1>6. /\ o.role = "standby" /\ o.edges = "low" => w = c
        /\ ~(o.role = "standby" /\ o.edges = "low") =>
              w = QuietCycle(e, t, o.sent) \/ w = QuietCycle(s, t, o.sent) \/ w = e
    BY <1>1, <1>4 DEF Edges
  <1>7. CASE o.role = "standby" /\ o.edges = "low"
    <2>1. w = c
      BY <1>6, <1>7, Zenon
    <2>2. ASSUME NEW u \in 0..t, Covers(s, u) PROVE Covers(c, u)
      <3>1. s.orphanAt \in Nat /\ s.orphanedAt \in Nat
        BY Zenon DEF StateOK
      <3> QED
        BY <1>5, <2>2, <3>1 DEF Covers
    <2> QED
      BY <1>5, <2>1, <2>2, Zenon
  <1>8. CASE ~(o.role = "standby" /\ o.edges = "low")
    <2>1. /\ StateOK(w) /\ w.role = s.role
          /\ \/ w.orphanAt = s.orphanAt /\ w.orphanedAt = s.orphanedAt
             \/ w.orphanAt = 0 /\ w.orphanedAt = 0
      BY <1>2, <1>3, <1>6, <1>8, ZenonT(40)
    <2>2. \A u \in 0..t : Covers(s, u) => Covers(w, u)
      BY <2>1, Zenon DEF Covers
    <2> QED
      BY <1>8, <2>1, <2>2, Zenon
  <1> QED
    BY <1>7, <1>8, Zenon

\* What apply does to the engine e, seen from the observed instance i: the
\* others keep their states; its role is the observed one; without a role event
\* that role was known; an orphan_standby event keeps its distance from every
\* event the state covered, and is covered.
Applies(e, i, o, t, topo) ==
    /\ EngineOK(topo.engine)
    /\ \A j \in Instances \ {i} : topo.engine.instances[j] = e.instances[j]
    /\ topo.engine.instances[i].role = o.role
    /\ \A x \in topo.events : x.type \in {"role_change", "failover_detected"} =>
          x.instance = i /\ x.role = o.role
    /\ \/ \E x \in topo.events : x.type \in {"role_change", "failover_detected"}
                                  /\ x.instance = i
       \/ e.instances[i].role = o.role
       \/ e.instances[i].role = "" /\ o.prior = o.role
    /\ \A x \in topo.events : x.type = "orphan_standby" =>
          /\ x.instance = i /\ x.ts = t /\ Covers(topo.engine.instances[i], t)
          /\ \A u \in 0..t : Covers(e.instances[i], u) => t - u >= orphanWindow
    /\ \A u \in 0..t : Covers(e.instances[i], u) => Covers(topo.engine.instances[i], u)

\* apply is such a step.
LEMMA ApplyKeeps ==
    ASSUME NEW e, EngineOK(e), NEW i \in Instances, NEW t \in Nat \ {0},
           NEW o, o.instance = i, NEW topo, topo = apply(e, o, t)
    PROVE  Applies(e, i, o, t, topo)
  <1> PICK s, w : s = e.instances[i] /\ w = topo.engine.instances[i]
    BY Zenon
  <1>1. CASE Repeats(s, o)
    <2>1. topo.engine = e /\ topo.events = {} /\ w = s
      BY <1>1 DEF apply
    <2>2. s.role = o.role
      BY <1>1 DEF Repeats, EngineOK, StateOK
    <2> QED
      BY <2>1, <2>2, Zenon DEF Applies
  <1>2. CASE ~Repeats(s, o)
    <2>1. PICK seen : seen = [s EXCEPT !.lastObs = [sent |-> o.sent, role |-> o.role,
                                                 cluster |-> o.cluster, edges |-> o.edges],
                                    !.role = o.role, !.cluster = o.cluster, !.timestamp = t]
      OBVIOUS
    <2>2. StateOK(s)
      BY Zenon DEF EngineOK
    <2>3. /\ StateOK(seen) /\ seen.role = o.role
          /\ seen.orphanAt = s.orphanAt /\ seen.orphanedAt = s.orphanedAt
      BY <2>1, <2>2, Zenon DEF StateOK
    <2>4. PICK read : read = Edges(seen, o, t)
      OBVIOUS
    <2>5. PICK dated : dated = [read EXCEPT !.orphanedAt = t]
      BY Zenon
    <2>6. PICK new : new = IF IsOrphan(read, o, t) THEN dated ELSE read
      OBVIOUS
    <2>7. PICK f : f = [e EXCEPT
                !.instances[o.instance] = new,
                !.lastFailover[o.cluster] = IF FailsOver(e, o, t) THEN t ELSE @,
                !.lastPrimary[o.cluster] =
                    IF o.role = "primary" THEN [instance |-> o.instance, timestamp |-> t] ELSE @]
      OBVIOUS
    <2>8. PICK split : split = detectSplitBrain(f, o.cluster, t)
      OBVIOUS
    <2>9. /\ topo.engine = split.engine
          /\ topo.events = RoleEvents(e, o, t) \cup split.events
                \cup (IF IsOrphan(read, o, t) THEN {Event("orphan_standby", i, o.role, t)} ELSE {})
      BY <1>2, <2>1, <2>4, <2>5, <2>6, <2>7, <2>8, Zenon DEF apply
    <2>10. /\ StateOK(read) /\ read.role = o.role
           /\ \A u \in 0..t : Covers(seen, u) => Covers(read, u)
           /\ o.role = "standby" /\ o.edges = "low" =>
                 /\ read.orphanedAt = s.orphanedAt
                 /\ read.orphanAt = IF s.orphanAt = 0 THEN t ELSE s.orphanAt
      BY <2>3, <2>4, EdgesKeep
    <2>11. /\ StateOK(new) /\ new.role = o.role
           /\ \A u \in 0..t : Covers(s, u) => Covers(new, u)
           /\ IsOrphan(read, o, t) => Covers(new, t)
      <3>1. StateOK(dated) /\ dated.role = o.role /\ dated.orphanedAt = t
        BY <2>5, <2>10, Zenon DEF StateOK
      <3>2. \A u \in 0..t : Covers(dated, u)
        BY <3>1 DEF Covers
      <3>3. \A u \in 0..t : Covers(s, u) => Covers(read, u)
        BY <2>3, <2>10, Zenon DEF Covers
      <3>4. t \in 0..t
        OBVIOUS
      <3> QED
        BY <2>6, <2>10, <3>1, <3>2, <3>3, <3>4, Zenon
    <2>12. ASSUME IsOrphan(read, o, t), NEW u \in 0..t, Covers(s, u)
           PROVE  t - u >= orphanWindow
      <3>1. /\ t - read.orphanAt >= orphanWindow
            /\ read.orphanedAt = 0 \/ t - read.orphanedAt >= orphanWindow
            /\ o.role = "standby" /\ o.edges = "low"
        BY <2>12, Zenon DEF IsOrphan, OrphanDue
      <3>2. s.orphanAt \in Nat /\ s.orphanedAt \in Nat /\ orphanWindow \in Nat
        BY <2>2, IngestAssumption, Zenon DEF StateOK
      <3>3. read.orphanedAt = s.orphanedAt /\ read.orphanAt = IF s.orphanAt = 0 THEN t ELSE s.orphanAt
        BY <2>10, <3>1, Zenon
      <3>4. s.orphanAt = 0 \/ s.orphanAt >= u \/ s.orphanedAt >= u
        BY <2>12, Zenon DEF Covers
      <3> QED
        BY <3>1, <3>2, <3>3, <3>4
    <2>13. /\ "instances" \in DOMAIN f /\ Instances \subseteq DOMAIN f.instances
           /\ f.instances[i] = new
           /\ \A j \in Instances \ {i} : f.instances[j] = e.instances[j]
      BY <2>7, Zenon DEF EngineOK
    <2>14. "instances" \in DOMAIN split.engine /\ split.engine.instances = f.instances
      <3>1. \/ split.engine = [f EXCEPT !.lastSplitBrain[o.cluster] = t]
            \/ split.engine = [f EXCEPT !.lastSplitBrain[o.cluster] = 0]
            \/ split.engine = f
        BY <2>8, Zenon DEF detectSplitBrain
      <3> QED
        BY <2>13, <3>1, Zenon
    <2>15. \A x \in split.events : x.type = "split_brain_detected"
      <3>1. split.events = {} \/ split.events = {Event("split_brain_detected", "", "", t)}
        BY <2>8, Zenon DEF detectSplitBrain
      <3>2. Event("split_brain_detected", "", "", t).type = "split_brain_detected"
        BY DEF Event
      <3> QED
        BY <3>1, <3>2, Zenon
    <2>16. /\ \A x \in RoleEvents(e, o, t) : /\ x.type \in {"role_change", "failover_detected"}
                                              /\ x.instance = i /\ x.role = o.role
           /\ RoleEvents(e, o, t) = {} => s.role = o.role \/ (s.role = "" /\ o.prior = o.role)
      <3>1. /\ \/ RoleEvents(e, o, t) = {}
               \/ RoleEvents(e, o, t) = {Event("role_change", i, o.role, t)}
               \/ RoleEvents(e, o, t) = {Event("failover_detected", i, o.role, t)}
            /\ \/ s.role = o.role
               \/ s.role = "" /\ o.prior = o.role
               \/ RoleEvents(e, o, t) = {Event("role_change", i, o.role, t)}
               \/ RoleEvents(e, o, t) = {Event("failover_detected", i, o.role, t)}
        <4>1. CASE s.role = o.role
          BY <4>1, Zenon DEF RoleEvents
        <4>2. CASE s.role # o.role /\ s.role = "standby" /\ o.role = "primary"
          BY <4>2 DEF RoleEvents
        <4>3. CASE s.role # o.role /\ s.role = "" /\ knownRole(o.prior) /\ o.prior = o.role
          BY <4>3, Zenon DEF RoleEvents
        <4>4. CASE /\ s.role # o.role /\ ~(s.role = "standby" /\ o.role = "primary")
                   /\ ~(s.role = "" /\ knownRole(o.prior) /\ o.prior = o.role)
          BY <4>4, Zenon DEF RoleEvents
        <4> QED
          BY <4>1, <4>2, <4>3, <4>4, Zenon
      <3>2. ASSUME NEW y \in {"role_change", "failover_detected"}, NEW x, x = Event(y, i, o.role, t)
            PROVE  /\ x.type \in {"role_change", "failover_detected"}
                   /\ x.instance = i /\ x.role = o.role
        BY <3>2 DEF Event
      <3> QED
        BY <3>1, <3>2, Zenon
    <2>17. PICK orphan : orphan = IF IsOrphan(read, o, t)
                                  THEN {Event("orphan_standby", i, o.role, t)} ELSE {}
      BY Zenon
    <2>18. \A x \in orphan : /\ x.type = "orphan_standby" /\ x.instance = i /\ x.ts = t
                             /\ IsOrphan(read, o, t)
      BY <2>17 DEF Event
    <2>19. EngineOK(topo.engine)
      BY <2>9, <2>11, <2>13, <2>14, ZenonT(40) DEF EngineOK
    <2>20. w = new /\ \A j \in Instances \ {i} : topo.engine.instances[j] = e.instances[j]
      BY <2>9, <2>13, <2>14, Zenon
    <2>21. topo.events = RoleEvents(e, o, t) \cup split.events \cup orphan
      BY <2>9, <2>17, Zenon
    <2>22. \A x \in topo.events : x.type \in {"role_change", "failover_detected"} =>
                 x.instance = i /\ x.role = o.role
      BY <2>15, <2>16, <2>18, <2>21, Zenon
    <2>23. \/ \E x \in topo.events : x.type \in {"role_change", "failover_detected"}
                                         /\ x.instance = i
           \/ s.role = o.role
           \/ s.role = "" /\ o.prior = o.role
      BY <2>16, <2>21, Zenon
    <2>24. ASSUME NEW x \in topo.events, x.type = "orphan_standby"
           PROVE  x \in orphan
      BY <2>15, <2>16, <2>21, <2>24, Zenon
    <2> QED
      BY <2>11, <2>12, <2>18, <2>19, <2>20, <2>22, <2>23, <2>24, Zenon DEF Applies
  <1> QED
    BY <1>1, <1>2, Zenon

\* What has no state covers every event.
LEMMA NoStateOK == StateOK(NoState) /\ NoState.role = "" /\ \A t : Covers(NoState, t)
  BY Zenon DEF NoState, NoObs, StateOK, Covers

\* The eviction forgets an instance or leaves it alone.
LEMMA EvictKeeps ==
    ASSUME NEW e, EngineOK(e), NEW c, NEW f, f = EvictTopology(e, c)
    PROVE  EngineOK(f) /\ \A i \in Instances : f.instances[i] \in {NoState, e.instances[i]}
  <1>1. /\ "instances" \in DOMAIN f /\ DOMAIN f.instances = Instances
        /\ \A i \in Instances : f.instances[i] \in {NoState, e.instances[i]}
    BY DEF EvictTopology
  <1> QED
    BY <1>1, NoStateOK, Zenon DEF EngineOK

-----------------------------------------------------------------------------
\* The tables.

\* A role event always names a role.
LEMMA RoleNamed == ASSUME NEW a, NEW i PROVE RoleOf(a, i) # ""
  BY Zenon DEF RoleOf, normalizeRole

\* Registering leaves the events alone, and a role unless there was none.
Registered(d) ==
    /\ TablesOK(d)
    /\ d.reported = db.reported /\ d.orphans = db.orphans /\ d.truncations = db.truncations
    /\ \A i \in Instances : \/ d.instances[i].role = db.instances[i].role
                            \/ db.instances[i].role = "" /\ d.instances[i].role = "unknown"

\* Inventory.Upsert registers.
LEMMA UpsertedIs ==
    ASSUME TablesOK(db), NEW a, NEW S, NEW d, d = Upserted(a, S)
    PROVE  Registered(d)
  <1>1. PICK rows, cs, ns :
          /\ d = [db EXCEPT !.instances = rows, !.clusters = cs, !.notices = ns]
          /\ rows = [i \in Instances |-> IF i \in S \ Refused(a)
                        THEN upsertRow(db.instances[i], Report(a, i)) ELSE db.instances[i]]
    BY Zenon DEF Upserted
  <1>2. /\ {"instances", "reported", "orphans", "truncations"} \subseteq DOMAIN d
        /\ d.instances = rows /\ d.reported = db.reported
        /\ d.orphans = db.orphans /\ d.truncations = db.truncations
    BY <1>1, Zenon DEF TablesOK
  <1>3. ASSUME NEW row, NEW r, "role" \in DOMAIN row
        PROVE  /\ "role" \in DOMAIN upsertRow(row, r)
               /\ \/ upsertRow(row, r).role = row.role
                  \/ row.role = "" /\ upsertRow(row, r).role = "unknown"
    <2> PICK new : new = upsertRow(row, r)
      OBVIOUS
    <2>1. CASE row = NoRow
      <3>1. PICK known : known = [NoRow EXCEPT !.cluster = r.cluster, !.role = "unknown", !.seen = now]
        OBVIOUS
      <3>2. "role" \in DOMAIN known /\ known.role = "unknown" /\ row.role = ""
        BY <2>1, <3>1, Zenon DEF NoRow
      <3>3. new = [known EXCEPT !.dbs = IF r.dbs = {} THEN @ ELSE r.dbs]
        BY <2>1, <3>1, Zenon DEF upsertRow
      <3> QED
        BY <3>2, <3>3, Zenon
    <2>2. CASE row # NoRow
      <3>1. new = [row EXCEPT !.dbs = IF r.dbs = {} THEN @ ELSE r.dbs]
        BY <2>2, Zenon DEF upsertRow
      <3> QED
        BY <1>3, <3>1, Zenon
    <2> QED
      BY <2>1, <2>2, Zenon
  <1>4. ASSUME NEW i \in Instances
        PROVE  /\ "role" \in DOMAIN rows[i]
               /\ \/ rows[i].role = db.instances[i].role
                  \/ db.instances[i].role = "" /\ rows[i].role = "unknown"
    <2>1. "role" \in DOMAIN db.instances[i]
      BY Zenon DEF TablesOK
    <2>2. rows[i] = db.instances[i] \/ rows[i] = upsertRow(db.instances[i], Report(a, i))
      BY <1>1, Zenon
    <2>3. CASE rows[i] = db.instances[i]
      BY <2>1, <2>3, Zenon
    <2>4. CASE rows[i] = upsertRow(db.instances[i], Report(a, i))
      <3>1. /\ "role" \in DOMAIN upsertRow(db.instances[i], Report(a, i))
            /\ \/ upsertRow(db.instances[i], Report(a, i)).role = db.instances[i].role
               \/ db.instances[i].role = "" /\ upsertRow(db.instances[i], Report(a, i)).role = "unknown"
        BY <1>3, <2>1, Zenon
      <3> QED
        BY <2>4, <3>1, Zenon
    <2> QED
      BY <2>2, <2>3, <2>4, Zenon
  <1> QED
    BY <1>2, <1>4, Zenon DEF TablesOK, Registered

\* What the commit of an attempt writes.
Writes(a, d) ==
    \A i \in Instances :
        /\ d.instances[i].role = IF i \in a.stored THEN RoleOf(a, i) ELSE db.instances[i].role
        /\ \/ RoleEventsOf(a, i) = {} /\ d.reported[i] = db.reported[i]
           \/ \E e \in RoleEventsOf(a, i) : d.reported[i] = e.role
        /\ \/ OrphanEventsOf(a, i) = {} /\ d.orphans[i] = db.orphans[i]
           \/ \E e \in OrphanEventsOf(a, i) : d.orphans[i] = Append(db.orphans[i], e.ts)
        /\ d.truncations[i] = IF i \in a.truncations
                THEN Append(db.truncations[i], log[a.n].ts) ELSE db.truncations[i]

\* The commit writes just that.
LEMMA CommittedIs ==
    ASSUME TablesOK(db), NEW a, log[a.n].ts \in Nat,
           \A i \in Instances : \A e \in OrphanEventsOf(a, i) : e.ts \in Nat \ {0},
           NEW d, d = Committed(a)
    PROVE  TablesOK(d) /\ Writes(a, d)
  <1>1. PICK rows, ps, sk, pa :
          d = WriteEvents([db EXCEPT !.instances = rows, !.points = ps, !.skip = sk,
                                     !.partial = pa], a)
          /\ rows = WriteTopologyEdges(StoreRoles(db.instances, a), a)
    BY Zenon DEF Committed
  <1>2. PICK c : c = [db EXCEPT !.instances = rows, !.points = ps, !.skip = sk, !.partial = pa]
    OBVIOUS
  <1>3. /\ {"instances", "reported", "orphans", "truncations"} \subseteq DOMAIN c
        /\ c.instances = rows /\ c.reported = db.reported
        /\ c.orphans = db.orphans /\ c.truncations = db.truncations
    BY <1>2, Zenon DEF TablesOK
  <1>4. PICK rep : rep = RolesTold(db.reported, a)
    OBVIOUS
  <1>5. PICK orp : orp = OrphanTimes(db.orphans, a)
    OBVIOUS
  <1>6. PICK tru : tru = TruncationTimes(db.truncations, a)
    OBVIOUS
  <1>7. d = [c EXCEPT !.reported = rep, !.orphans = orp, !.truncations = tru,
                      !.notices = c.notices \cup NoticesOf(a)]
    BY <1>1, <1>2, <1>3, <1>4, <1>5, <1>6, Zenon DEF WriteEvents
  <1>8. /\ {"instances", "reported", "orphans", "truncations"} \subseteq DOMAIN d
        /\ d.instances = rows /\ d.reported = rep /\ d.orphans = orp /\ d.truncations = tru
    BY <1>3, <1>7, Zenon
  <1>9. ASSUME NEW i \in Instances
        PROVE  /\ "role" \in DOMAIN rows[i]
               /\ rows[i].role = IF i \in a.stored THEN RoleOf(a, i) ELSE db.instances[i].role
    <2>1. "role" \in DOMAIN db.instances[i]
      BY Zenon DEF TablesOK
    <2>2. PICK row : row = IF i \in a.stored
                           THEN [db.instances[i] EXCEPT !.role = normalizeRole(Report(a, i).role),
                                                        !.seen = now]
                           ELSE db.instances[i]
      OBVIOUS
    <2>3. /\ "role" \in DOMAIN row
          /\ row.role = IF i \in a.stored THEN RoleOf(a, i) ELSE db.instances[i].role
      BY <2>1, <2>2, Zenon DEF RoleOf
    <2>4. StoreRoles(db.instances, a)[i] = row
      BY <2>2, Zenon DEF StoreRoles
    <2>5. rows[i] = IF i \in a.stored THEN [row EXCEPT !.edges = Upstream(Report(a, i))] ELSE row
      BY <1>1, <2>4, Zenon DEF WriteTopologyEdges
    <2> QED
      BY <2>3, <2>5, Zenon
  <1>10. ASSUME NEW i \in Instances
        PROVE  /\ orp[i] \in Seq(Nat \ {0}) /\ tru[i] \in Seq(Nat)
               /\ \/ OrphanEventsOf(a, i) = {} /\ orp[i] = db.orphans[i]
                  \/ \E e \in OrphanEventsOf(a, i) : orp[i] = Append(db.orphans[i], e.ts)
               /\ tru[i] = IF i \in a.truncations
                           THEN Append(db.truncations[i], log[a.n].ts) ELSE db.truncations[i]
               /\ \/ RoleEventsOf(a, i) = {} /\ rep[i] = db.reported[i]
                  \/ \E e \in RoleEventsOf(a, i) : rep[i] = e.role
    <2>1. db.orphans[i] \in Seq(Nat \ {0}) /\ db.truncations[i] \in Seq(Nat)
      BY DEF TablesOK
    <2>2. \/ OrphanEventsOf(a, i) = {} /\ orp[i] = db.orphans[i]
          \/ \E e \in OrphanEventsOf(a, i) : orp[i] = Append(db.orphans[i], e.ts)
      BY <1>5, Zenon DEF OrphanTimes
    <2>3. tru[i] = IF i \in a.truncations
                   THEN Append(db.truncations[i], log[a.n].ts) ELSE db.truncations[i]
      BY <1>6, Zenon DEF TruncationTimes
    <2>4. \/ RoleEventsOf(a, i) = {} /\ rep[i] = db.reported[i]
          \/ \E e \in RoleEventsOf(a, i) : rep[i] = e.role
      BY <1>4, Zenon DEF RolesTold
    <2>5. orp[i] \in Seq(Nat \ {0})
      <3>1. CASE orp[i] = db.orphans[i]
        BY <2>1, <3>1, Zenon
      <3>2. ASSUME NEW e \in OrphanEventsOf(a, i), orp[i] = Append(db.orphans[i], e.ts)
            PROVE  orp[i] \in Seq(Nat \ {0})
        <4>1. e.ts \in Nat \ {0}
          BY Zenon
        <4> QED
          BY <2>1, <3>2, <4>1
      <3> QED
        BY <2>2, <3>1, <3>2, Zenon
    <2>6. tru[i] \in Seq(Nat)
      BY <2>1, <2>3
    <2> QED
      BY <2>2, <2>3, <2>4, <2>5, <2>6, Zenon
  <1>11. orp \in [Instances -> Seq(Nat \ {0})] /\ tru \in [Instances -> Seq(Nat)]
    BY <1>5, <1>6, <1>10, Zenon DEF OrphanTimes, TruncationTimes
  <1> QED
    BY <1>8, <1>9, <1>10, <1>11, Zenon DEF TablesOK, Writes

-----------------------------------------------------------------------------
\* Steps that apply, commit and undo nothing.

Same(a, b) ==
    /\ a.pc = b.pc /\ a.n = b.n /\ a.stored = b.stored /\ a.marks = b.marks
    /\ a.events = b.events /\ a.truncations = b.truncations /\ a.todo \subseteq b.todo

Fresh(a) == a.stored = {} /\ a.events = {} /\ a.truncations = {} /\ a.todo \subseteq Instances

\* Such a step may register instances, start attempts and forget what the
\* engine knows.
Calm ==
    /\ now' \in Nat /\ now <= now' /\ unsure' = unsure
    /\ \A n \in DOMAIN log : log'[n] = log[n]
    /\ \A k \in Slots : slot'[k].pc = "process" =>
          /\ Same(slot'[k], slot[k]) \/ Fresh(slot'[k])
          /\ \A i \in slot'[k].stored : lock'[i] = lock[i]
    /\ \A i \in Instances :
          \/ engine'.instances[i] = NoState
          \/ /\ engine'.instances[i] = engine.instances[i]
             /\ \A k \in Slots : slot[k].pc = "process" => Same(slot'[k], slot[k])
    /\ db'.reported = db.reported /\ db'.orphans = db.orphans
    /\ db'.truncations = db.truncations
    /\ \A i \in Instances :
          \/ db'.instances[i].role = db.instances[i].role
          \/ db.instances[i].role = "" /\ db'.instances[i].role = "unknown"

Rest == LocksOK /\ RolesOK /\ RoleReported /\ OrphansOK /\ TruncationsOK

\* A calm step keeps the invariant.
LEMMA CalmKeeps ==
    ASSUME Shape, Rest, Calm
    PROVE  Rest'
  <1>1. ASSUME NEW k \in Slots, slot'[k].pc = "process", NEW i \in slot'[k].stored
        PROVE  /\ slot[k].pc = "process" /\ i \in slot[k].stored /\ Same(slot'[k], slot[k])
               /\ lock'[i] = lock[i]
               /\ log'[slot'[k].n] = log[slot[k].n]
    <2>1. Same(slot'[k], slot[k]) /\ lock'[i] = lock[i]
      BY <1>1, Zenon DEF Calm, Fresh
    <2>2. slot[k].n \in DOMAIN log
      BY <1>1, <2>1, Zenon DEF Shape, AttemptOK, Same
    <2> QED
      BY <1>1, <2>1, <2>2, ZenonT(40) DEF Calm, Same
  <1>2. LocksOK'
    <2> SUFFICES ASSUME NEW k \in Slots, slot'[k].pc = "process"
                 PROVE  /\ slot'[k].todo \subseteq Instances /\ slot'[k].stored \subseteq Instances
                        /\ slot'[k].todo \cap slot'[k].stored = {}
                        /\ slot'[k].truncations \subseteq slot'[k].stored
                        /\ \A i \in Instances \ slot'[k].stored :
                              RoleEventsOf(slot'[k], i) = {} /\ OrphanEventsOf(slot'[k], i) = {}
                        /\ \A i \in slot'[k].stored :
                              /\ lock'[i] = k
                              /\ StateOK(slot'[k].marks[i].before.state)
                              /\ \A e \in OrphanEventsOf(slot'[k], i) : e.ts \in Nat \ {0}
                              /\ engine'.instances[i] \in {NoState, slot'[k].marks[i].written.state}
      BY Zenon DEF LocksOK
    <2>1. CASE Fresh(slot'[k])
      BY <2>1 DEF Fresh, RoleEventsOf, OrphanEventsOf
    <2>2. CASE Same(slot'[k], slot[k])
      <3>1. \A i : /\ RoleEventsOf(slot'[k], i) = RoleEventsOf(slot[k], i)
                   /\ OrphanEventsOf(slot'[k], i) = OrphanEventsOf(slot[k], i)
        BY <2>2, Zenon DEF Same, RoleEventsOf, OrphanEventsOf
      <3>2. \A i \in Instances : engine'.instances[i] \in {NoState, engine.instances[i]}
        BY Zenon DEF Calm
      <3>3. slot[k].pc = "process"
        BY <2>2, Zenon DEF Same
      <3>4. /\ slot[k].todo \subseteq Instances /\ slot[k].stored \subseteq Instances
            /\ slot[k].todo \cap slot[k].stored = {}
            /\ slot[k].truncations \subseteq slot[k].stored
            /\ \A i \in Instances \ slot[k].stored :
                  RoleEventsOf(slot[k], i) = {} /\ OrphanEventsOf(slot[k], i) = {}
            /\ \A i \in slot[k].stored :
                  /\ lock[i] = k
                  /\ StateOK(slot[k].marks[i].before.state)
                  /\ \A e \in OrphanEventsOf(slot[k], i) : e.ts \in Nat \ {0}
                  /\ engine.instances[i] \in {NoState, slot[k].marks[i].written.state}
        BY <3>3, Zenon DEF Rest, LocksOK
      <3>5. ASSUME NEW i \in slot'[k].stored
            PROVE  /\ lock'[i] = k
                   /\ StateOK(slot'[k].marks[i].before.state)
                   /\ \A e \in OrphanEventsOf(slot'[k], i) : e.ts \in Nat \ {0}
                   /\ engine'.instances[i] \in {NoState, slot'[k].marks[i].written.state}
        <4>1. i \in slot[k].stored /\ lock'[i] = lock[i] /\ slot'[k].marks = slot[k].marks
          BY <1>1, Zenon DEF Same
        <4>2. engine'.instances[i] \in {NoState, engine.instances[i]}
          BY <3>2, <3>4, <4>1, Zenon
        <4> QED
          BY <3>1, <3>4, <4>1, <4>2, Zenon
      <3> QED
        BY <2>2, <3>1, <3>4, <3>5, Zenon DEF Same
    <2> QED
      BY <2>1, <2>2, Zenon DEF Calm
  <1>3. RolesOK'
    <2> SUFFICES ASSUME ~unsure, NEW i \in Instances
                 PROVE  /\ Free(i)' => Remembers(engine.instances[i], i)'
                        /\ \A k \in Slots : InFlight(k, i)' =>
                              /\ Remembers(slot[k].marks[i].before.state, i)'
                              /\ engine'.instances[i].role \in {"", RoleOf(slot[k], i)'}
                              /\ RoleEventsOf(slot'[k], i) = {} =>
                                    RoleOf(slot[k], i)' = db'.instances[i].role
                              /\ \A e \in RoleEventsOf(slot'[k], i) : e.role = RoleOf(slot[k], i)'
      BY Zenon DEF RolesOK, Calm
    <2>1. /\ Free(i) => Remembers(engine.instances[i], i)
          /\ \A k \in Slots : InFlight(k, i) =>
                /\ Remembers(slot[k].marks[i].before.state, i)
                /\ engine.instances[i].role \in {"", RoleOf(slot[k], i)}
                /\ RoleEventsOf(slot[k], i) = {} => RoleOf(slot[k], i) = db.instances[i].role
                /\ \A e \in RoleEventsOf(slot[k], i) : e.role = RoleOf(slot[k], i)
      BY Zenon DEF Rest, RolesOK
    <2>2. \A s : Remembers(s, i) => Remembers(s, i)'
      BY Zenon DEF Remembers, Calm
    <2>3. engine'.instances[i].role \in {"", engine.instances[i].role}
      BY NoStateOK, Zenon DEF Calm
    <2>4. ASSUME Free(i)' PROVE Remembers(engine.instances[i], i)'
      <3>1. CASE engine'.instances[i] = NoState
        BY <3>1, NoStateOK, Zenon DEF Remembers
      <3>2. CASE engine'.instances[i] = engine.instances[i]
                 /\ \A k \in Slots : slot[k].pc = "process" => Same(slot'[k], slot[k])
        <4>1. Free(i)
          BY <2>4, <3>2, Zenon DEF Free, InFlight, Same
        <4> QED
          BY <2>1, <3>2, <4>1, Zenon DEF Remembers, Calm
      <3> QED
        BY <3>1, <3>2, Zenon DEF Calm
    <2>5. ASSUME NEW k \in Slots, InFlight(k, i)'
          PROVE  /\ Remembers(slot[k].marks[i].before.state, i)'
                 /\ engine'.instances[i].role \in {"", RoleOf(slot[k], i)'}
                 /\ RoleEventsOf(slot'[k], i) = {} => RoleOf(slot[k], i)' = db'.instances[i].role
                 /\ \A e \in RoleEventsOf(slot'[k], i) : e.role = RoleOf(slot[k], i)'
      <3>1. /\ InFlight(k, i) /\ Same(slot'[k], slot[k])
            /\ RoleOf(slot[k], i)' = RoleOf(slot[k], i)
        BY <1>1, <2>5, Zenon DEF InFlight, RoleOf, Report
      <3>2. RoleEventsOf(slot'[k], i) = RoleEventsOf(slot[k], i)
        BY <3>1, Zenon DEF Same, RoleEventsOf
      <3>3. db.instances[i].role # "" => db'.instances[i].role = db.instances[i].role
        BY Zenon DEF Calm
      <3>4. slot'[k].marks = slot[k].marks
        BY <3>1, Zenon DEF Same
      <3>5. Remembers(slot[k].marks[i].before.state, i)'
        <4> PICK s : s = slot[k].marks[i].before.state
          OBVIOUS
        <4>1. Remembers(s, i)'
          BY <2>1, <2>2, <3>1, Zenon
        <4> QED
          BY <3>4, <4>1, Zenon DEF Remembers
      <3> QED
        BY <2>1, <2>3, <3>1, <3>2, <3>3, <3>5, RoleNamed, Zenon
    <2> QED
      BY <2>4, <2>5, Zenon
  <1>4. RoleReported'
    BY ZenonT(40) DEF Rest, RoleReported, Calm
  <1>5. OrphansOK'
    <2> SUFFICES ASSUME ~unsure, NEW i \in Instances
                 PROVE  /\ Apart(db'.orphans[i], orphanWindow)
                        /\ \A j \in DOMAIN db'.orphans[i] : db'.orphans[i][j] <= now'
                        /\ Dated(engine.instances[i], i)'
                        /\ \A k \in Slots : InFlight(k, i)' =>
                              /\ Dated(slot[k].marks[i].before.state, i)'
                              /\ \A e \in OrphanEventsOf(slot'[k], i) :
                                    /\ e.ts <= now'
                                    /\ Covers(engine'.instances[i], e.ts)
                                    /\ \A j \in DOMAIN db'.orphans[i] :
                                          e.ts - db'.orphans[i][j] >= orphanWindow
      BY Zenon DEF OrphansOK, Calm
    <2>1. /\ Apart(db.orphans[i], orphanWindow)
          /\ \A j \in DOMAIN db.orphans[i] : db.orphans[i][j] <= now
          /\ Dated(engine.instances[i], i)
          /\ \A k \in Slots : InFlight(k, i) =>
                /\ Dated(slot[k].marks[i].before.state, i)
                /\ \A e \in OrphanEventsOf(slot[k], i) :
                      /\ e.ts <= now
                      /\ Covers(engine.instances[i], e.ts)
                      /\ \A j \in DOMAIN db.orphans[i] : e.ts - db.orphans[i][j] >= orphanWindow
      BY Zenon DEF Rest, OrphansOK
    <2>2. db'.orphans = db.orphans /\ engine'.instances[i] \in {NoState, engine.instances[i]}
      BY Zenon DEF Calm
    <2>3. \A t : Covers(engine.instances[i], t) => Covers(engine'.instances[i], t)
      BY <2>2, NoStateOK, Zenon
    <2>4. Dated(engine.instances[i], i)'
      BY <2>1, <2>2, <2>3, Zenon DEF Dated
    <2>5. now \in Nat /\ now' \in Nat /\ now <= now'
      BY Zenon DEF Shape, Calm
    <2>6. ASSUME NEW k \in Slots, InFlight(k, i)'
          PROVE  /\ Dated(slot[k].marks[i].before.state, i)'
                 /\ \A e \in OrphanEventsOf(slot'[k], i) :
                      /\ e.ts <= now'
                      /\ Covers(engine'.instances[i], e.ts)
                      /\ \A j \in DOMAIN db'.orphans[i] : e.ts - db'.orphans[i][j] >= orphanWindow
      <3>1. InFlight(k, i) /\ Same(slot'[k], slot[k])
        BY <1>1, <2>6, Zenon DEF InFlight
      <3>2. OrphanEventsOf(slot'[k], i) = OrphanEventsOf(slot[k], i) /\ slot'[k].marks = slot[k].marks
        BY <3>1, Zenon DEF Same, OrphanEventsOf
      <3>3. Dated(slot[k].marks[i].before.state, i)'
        BY <2>1, <2>2, <3>1, <3>2, Zenon DEF Dated
      <3>4. ASSUME NEW e \in OrphanEventsOf(slot[k], i) PROVE e.ts <= now'
        <4>1. e.ts \in Nat /\ e.ts <= now
          BY <2>1, <3>1, Zenon DEF Rest, LocksOK, InFlight
        <4> QED
          BY <2>5, <4>1
      <3> QED
        BY <2>1, <2>2, <2>3, <3>1, <3>2, <3>3, <3>4, Zenon
    <2>7. \A j \in DOMAIN db.orphans[i] : db.orphans[i][j] <= now'
      <3>1. db.orphans[i] \in Seq(Nat \ {0})
        BY DEF Shape, TablesOK
      <3>2. \A j \in DOMAIN db.orphans[i] : db.orphans[i][j] \in Nat
        BY <3>1
      <3> QED
        BY <2>1, <2>5, <3>2
    <2> QED
      BY <2>1, <2>2, <2>4, <2>6, <2>7, Zenon
  <1>6. TruncationsOK'
    <2> SUFFICES ASSUME NEW i \in Instances
                 PROVE  /\ Apart(db'.truncations[i], truncationWindow)
                        /\ \A k \in Slots : slot'[k].pc = "process" /\ i \in slot'[k].truncations =>
                              \A j \in DOMAIN db'.truncations[i] :
                                  db'.truncations[i][j] <= log'[slot'[k].n].ts - truncationWindow
      BY Zenon DEF TruncationsOK
    <2>1. db'.truncations = db.truncations
      BY Zenon DEF Calm
    <2>2. ASSUME NEW k \in Slots, slot'[k].pc = "process", i \in slot'[k].truncations
          PROVE  /\ slot[k].pc = "process" /\ i \in slot[k].truncations
                 /\ log'[slot'[k].n] = log[slot[k].n]
      <3>1. i \in slot'[k].stored
        BY <1>2, <2>2, Zenon DEF LocksOK
      <3> QED
        BY <1>1, <2>2, <3>1, Zenon DEF Same
    <2> QED
      BY <2>1, <2>2, Zenon DEF Rest, TruncationsOK
  <1> QED
    BY <1>2, <1>3, <1>4, <1>5, <1>6, Zenon DEF Rest

-----------------------------------------------------------------------------
\* The end of a transaction.

\* The row lock: an instance is in flight in one attempt.
LEMMA OneHolder ==
    ASSUME LocksOK, NEW k \in Slots, NEW m \in Slots, NEW i, InFlight(k, i), InFlight(m, i)
    PROVE  k = m
  <1>1. lock[i] = k
    BY Zenon DEF LocksOK, InFlight
  <1>2. lock[i] = m
    BY Zenon DEF LocksOK, InFlight
  <1> QED
    BY <1>1, <1>2, Zenon

\* A time a window after all others keeps its distance.
LEMMA ApartAppend ==
    ASSUME NEW T \in Seq(Nat), NEW x \in Nat, NEW w \in Nat, Apart(T, w),
           \A j \in DOMAIN T : x - T[j] >= w
    PROVE  Apart(Append(T, x), w)
  <1> SUFFICES ASSUME NEW j \in DOMAIN Append(T, x), NEW m \in DOMAIN Append(T, x), j # m
               PROVE  \/ Append(T, x)[j] - Append(T, x)[m] >= w
                      \/ Append(T, x)[m] - Append(T, x)[j] >= w
    BY Zenon DEF Apart
  <1>1. j \in DOMAIN T \/ j = Len(T) + 1
    OBVIOUS
  <1>2. m \in DOMAIN T \/ m = Len(T) + 1
    OBVIOUS
  <1>3. \A n \in DOMAIN T : Append(T, x)[n] = T[n] /\ T[n] \in Nat
    OBVIOUS
  <1>4. Append(T, x)[Len(T) + 1] = x
    OBVIOUS
  <1>5. CASE j \in DOMAIN T /\ m \in DOMAIN T
    BY <1>3, <1>5, Zenon DEF Apart
  <1>6. CASE j = Len(T) + 1 /\ m \in DOMAIN T
    BY <1>3, <1>4, <1>6, Zenon
  <1>7. CASE j \in DOMAIN T /\ m = Len(T) + 1
    BY <1>3, <1>4, <1>7, Zenon
  <1> QED
    BY <1>1, <1>2, <1>5, <1>6, <1>7, Zenon

Ended(k) ==
    /\ slot[k].pc = "process" /\ slot'[k].pc # "process"
    /\ \A m \in Slots \ {k} : slot'[m] = slot[m]
    /\ lock' = Unlocked(k)
    /\ log' = log /\ now' = now

\* The other attempts keep their instances and their locks.
LEMMA EndKeepsLocks ==
    ASSUME LocksOK, NEW k \in Slots, Ended(k),
           \A i \in Instances : i \in slot[k].stored \/ engine'.instances[i] = engine.instances[i]
    PROVE  LocksOK'
  <1> SUFFICES ASSUME NEW m \in Slots, slot'[m].pc = "process"
               PROVE  /\ slot'[m].todo \subseteq Instances /\ slot'[m].stored \subseteq Instances
                      /\ slot'[m].todo \cap slot'[m].stored = {}
                      /\ slot'[m].truncations \subseteq slot'[m].stored
                      /\ \A i \in Instances \ slot'[m].stored :
                            RoleEventsOf(slot'[m], i) = {} /\ OrphanEventsOf(slot'[m], i) = {}
                      /\ \A i \in slot'[m].stored :
                            /\ lock'[i] = m
                            /\ StateOK(slot'[m].marks[i].before.state)
                            /\ \A e \in OrphanEventsOf(slot'[m], i) : e.ts \in Nat \ {0}
                            /\ engine'.instances[i] \in {NoState, slot'[m].marks[i].written.state}
    BY Zenon DEF LocksOK
  <1>1. m # k /\ slot'[m] = slot[m] /\ slot[m].pc = "process"
    BY Zenon DEF Ended
  <1>2. /\ slot[m].todo \subseteq Instances /\ slot[m].stored \subseteq Instances
        /\ slot[m].todo \cap slot[m].stored = {}
        /\ slot[m].truncations \subseteq slot[m].stored
        /\ \A i \in Instances \ slot[m].stored :
              RoleEventsOf(slot[m], i) = {} /\ OrphanEventsOf(slot[m], i) = {}
        /\ \A i \in slot[m].stored :
              /\ lock[i] = m
              /\ StateOK(slot[m].marks[i].before.state)
              /\ \A e \in OrphanEventsOf(slot[m], i) : e.ts \in Nat \ {0}
              /\ engine.instances[i] \in {NoState, slot[m].marks[i].written.state}
    BY <1>1, Zenon DEF LocksOK
  <1>3. ASSUME NEW i \in slot[m].stored
        PROVE  lock'[i] = lock[i] /\ engine'.instances[i] = engine.instances[i]
    <2>1. i \in Instances /\ lock[i] = m
      BY <1>2, Zenon
    <2>2. i \notin slot[k].stored
      BY <1>1, OneHolder, Zenon DEF InFlight, Ended
    <2>3. lock'[i] = lock[i]
      BY <1>1, <2>1, Zenon DEF Ended, Unlocked
    <2> QED
      BY <2>1, <2>2, <2>3, Zenon
  <1> QED
    BY <1>1, <1>2, <1>3, Zenon

\* The attempt's own facts, in the form its commit needs them.
LEMMA Committing ==
    ASSUME Shape, Rest, NEW k \in Slots, slot[k].pc = "process", NEW d, d = Committed(slot[k])
    PROVE  TablesOK(d) /\ Writes(slot[k], d) /\ log[slot[k].n].ts \in Nat
  <1>1. slot[k].n \in DOMAIN log
    BY Zenon DEF Shape, AttemptOK
  <1>2. log[slot[k].n].ts \in 1..now /\ now \in Nat
    BY <1>1, Zenon DEF Shape
  <1>3. log[slot[k].n].ts \in Nat
    BY <1>2
  <1>4. \A i \in Instances : \A e \in OrphanEventsOf(slot[k], i) : e.ts \in Nat \ {0}
    BY Zenon DEF Rest, LocksOK
  <1>5. TablesOK(db)
    BY Zenon DEF Shape
  <1> QED
    BY <1>3, <1>4, <1>5, CommittedIs

\* A commit stores only truncation events that are due.
LEMMA CommitKeepsTruncations ==
    ASSUME Shape, Rest, NEW k \in Slots, Ended(k), db' = Committed(slot[k])
    PROVE  TruncationsOK'
  <1> SUFFICES ASSUME NEW i \in Instances
               PROVE  /\ Apart(db'.truncations[i], truncationWindow)
                      /\ \A m \in Slots : slot'[m].pc = "process" /\ i \in slot'[m].truncations =>
                            \A j \in DOMAIN db'.truncations[i] :
                                db'.truncations[i][j] <= log'[slot'[m].n].ts - truncationWindow
    BY Zenon DEF TruncationsOK
  <1>1. slot[k].pc = "process" /\ log' = log
    BY Zenon DEF Ended
  <1>2. /\ log[slot[k].n].ts \in Nat
        /\ db'.truncations[i] = IF i \in slot[k].truncations
                THEN Append(db.truncations[i], log[slot[k].n].ts) ELSE db.truncations[i]
    <2> PICK d : d = db'
      OBVIOUS
    <2>1. Writes(slot[k], d) /\ log[slot[k].n].ts \in Nat
      BY <1>1, Committing
    <2> QED
      BY <2>1, Zenon DEF Writes
  <1>3. /\ Apart(db.truncations[i], truncationWindow)
        /\ \A m \in Slots : slot[m].pc = "process" /\ i \in slot[m].truncations =>
              \A j \in DOMAIN db.truncations[i] :
                  db.truncations[i][j] <= log[slot[m].n].ts - truncationWindow
    BY Zenon DEF Rest, TruncationsOK
  <1>4. ASSUME NEW m \in Slots, slot'[m].pc = "process", i \in slot'[m].truncations
        PROVE  /\ slot[m].pc = "process" /\ i \in slot[m].truncations /\ slot'[m] = slot[m]
               /\ i \notin slot[k].truncations
    <2>1. m # k /\ slot'[m] = slot[m]
      BY <1>4, Zenon DEF Ended
    <2>2. i \in slot[m].stored
      BY <1>4, <2>1, Zenon DEF Rest, LocksOK
    <2>3. i \in slot[k].truncations => i \in slot[k].stored
      BY <1>1, Zenon DEF Rest, LocksOK
    <2> QED
      BY <1>1, <1>4, <2>1, <2>2, <2>3, OneHolder, Zenon DEF InFlight, Rest
  <1>5. CASE i \in slot[k].truncations
    <2>1. db.truncations[i] \in Seq(Nat) /\ truncationWindow \in Nat
      BY IngestAssumption DEF Shape, TablesOK
    <2>2. \A j \in DOMAIN db.truncations[i] : db.truncations[i][j] \in Nat
      BY <2>1
    <2>3. \A j \in DOMAIN db.truncations[i] :
            log[slot[k].n].ts - db.truncations[i][j] >= truncationWindow
      <3>1. ASSUME NEW t \in Nat, NEW u \in Nat, NEW w \in Nat, u <= t - w PROVE t - u >= w
        BY <3>1
      <3> QED
        BY <1>1, <1>2, <1>3, <1>5, <2>1, <2>2, <3>1, Zenon
    <2>4. Apart(Append(db.truncations[i], log[slot[k].n].ts), truncationWindow)
      BY <1>2, <1>3, <2>1, <2>3, ApartAppend
    <2> QED
      BY <1>2, <1>4, <1>5, <2>4, Zenon
  <1>6. CASE i \notin slot[k].truncations
    BY <1>1, <1>2, <1>3, <1>4, <1>6, Zenon
  <1> QED
    BY <1>5, <1>6, Zenon

\* A commit makes the roles and events of the attempt the stored ones.
LEMMA CommitKeeps ==
    ASSUME Shape, Rest, NEW k \in Slots, Ended(k), db' = Committed(slot[k]),
           engine' = engine, unsure' = unsure
    PROVE  Rest'
  <1>1. slot[k].pc = "process" /\ log' = log /\ now' = now
    BY Zenon DEF Ended
  <1>2. \A i \in Instances :
          /\ db'.instances[i].role = IF i \in slot[k].stored THEN RoleOf(slot[k], i)
                                    ELSE db.instances[i].role
          /\ \/ RoleEventsOf(slot[k], i) = {} /\ db'.reported[i] = db.reported[i]
             \/ \E e \in RoleEventsOf(slot[k], i) : db'.reported[i] = e.role
          /\ \/ OrphanEventsOf(slot[k], i) = {} /\ db'.orphans[i] = db.orphans[i]
             \/ \E e \in OrphanEventsOf(slot[k], i) : db'.orphans[i] = Append(db.orphans[i], e.ts)
    <2> PICK d : d = db'
      OBVIOUS
    <2>1. Writes(slot[k], d)
      BY <1>1, Committing
    <2> QED
      BY <2>1, Zenon DEF Writes
  <1>3. \A i \in Instances \ slot[k].stored :
          RoleEventsOf(slot[k], i) = {} /\ OrphanEventsOf(slot[k], i) = {}
    BY <1>1, Zenon DEF Rest, LocksOK
  <1>4. ASSUME NEW m \in Slots, NEW i, InFlight(m, i)'
        PROVE  /\ m # k /\ InFlight(m, i) /\ slot'[m] = slot[m] /\ i \notin slot[k].stored
               /\ RoleOf(slot[m], i)' = RoleOf(slot[m], i)
    <2>1. m # k /\ slot'[m] = slot[m]
      BY <1>4, Zenon DEF Ended, InFlight
    <2>2. InFlight(m, i)
      BY <1>4, <2>1, Zenon DEF InFlight
    <2>3. i \notin slot[k].stored
      BY <1>1, <2>1, <2>2, OneHolder, Zenon DEF InFlight, Rest
    <2> QED
      BY <1>1, <2>1, <2>2, <2>3, Zenon DEF RoleOf, Report
  <1>5. ASSUME NEW i \in Instances, i \notin slot[k].stored, Free(i)' PROVE Free(i)
    BY <1>5, Zenon DEF Free, InFlight, Ended
  <1>6. LocksOK'
    BY EndKeepsLocks, Zenon DEF Rest
  <1>7. RolesOK'
    <2> SUFFICES ASSUME ~unsure, NEW i \in Instances
                 PROVE  /\ Free(i)' => Remembers(engine.instances[i], i)'
                        /\ \A m \in Slots : InFlight(m, i)' =>
                              /\ Remembers(slot[m].marks[i].before.state, i)'
                              /\ engine'.instances[i].role \in {"", RoleOf(slot[m], i)'}
                              /\ RoleEventsOf(slot'[m], i) = {} =>
                                    RoleOf(slot[m], i)' = db'.instances[i].role
                              /\ \A e \in RoleEventsOf(slot'[m], i) : e.role = RoleOf(slot[m], i)'
      BY Zenon DEF RolesOK
    <2>1. /\ Free(i) => Remembers(engine.instances[i], i)
          /\ \A m \in Slots : InFlight(m, i) =>
                /\ Remembers(slot[m].marks[i].before.state, i)
                /\ engine.instances[i].role \in {"", RoleOf(slot[m], i)}
                /\ RoleEventsOf(slot[m], i) = {} => RoleOf(slot[m], i) = db.instances[i].role
                /\ \A e \in RoleEventsOf(slot[m], i) : e.role = RoleOf(slot[m], i)
      BY Zenon DEF Rest, RolesOK
    <2>2. CASE i \in slot[k].stored
      <3>1. engine.instances[i].role \in {"", RoleOf(slot[k], i)}
        BY <1>1, <2>1, <2>2, Zenon DEF InFlight
      <3>2. Remembers(engine.instances[i], i)'
        BY <1>2, <2>2, <3>1, Zenon DEF Remembers
      <3> QED
        BY <1>4, <2>2, <3>2, Zenon
    <2>3. CASE i \notin slot[k].stored
      <3>1. db'.instances[i].role = db.instances[i].role
        BY <1>2, <2>3, Zenon
      <3>2. Free(i)' => Remembers(engine.instances[i], i)'
        BY <1>5, <2>1, <2>3, <3>1, Zenon DEF Remembers
      <3>3. ASSUME NEW m \in Slots, InFlight(m, i)'
            PROVE  /\ Remembers(slot[m].marks[i].before.state, i)'
                   /\ engine'.instances[i].role \in {"", RoleOf(slot[m], i)'}
                   /\ RoleEventsOf(slot'[m], i) = {} => RoleOf(slot[m], i)' = db'.instances[i].role
                   /\ \A e \in RoleEventsOf(slot'[m], i) : e.role = RoleOf(slot[m], i)'
        <4>1. InFlight(m, i) /\ slot'[m] = slot[m] /\ RoleOf(slot[m], i)' = RoleOf(slot[m], i)
          BY <1>4, <3>3, Zenon
        <4>2. Remembers(slot[m].marks[i].before.state, i)'
          BY <2>1, <3>1, <4>1, Zenon DEF Remembers
        <4> QED
          BY <2>1, <3>1, <4>1, <4>2, Zenon
      <3> QED
        BY <3>2, <3>3, Zenon
    <2> QED
      BY <2>2, <2>3, Zenon
  <1>8. RoleReported'
    <2> SUFFICES ASSUME ~unsure, NEW i \in Instances
                 PROVE  \/ db'.instances[i].role = db'.reported[i]
                        \/ db'.instances[i].role = "unknown" /\ db'.reported[i] = ""
      BY Zenon DEF RoleReported
    <2>1. \/ db.instances[i].role = db.reported[i]
          \/ db.instances[i].role = "unknown" /\ db.reported[i] = ""
      BY Zenon DEF Rest, RoleReported
    <2>2. CASE i \in slot[k].stored
      <3>1. /\ RoleEventsOf(slot[k], i) = {} => RoleOf(slot[k], i) = db.instances[i].role
            /\ \A e \in RoleEventsOf(slot[k], i) : e.role = RoleOf(slot[k], i)
        BY <1>1, <2>2, Zenon DEF Rest, RolesOK, InFlight
      <3> QED
        BY <1>2, <2>1, <2>2, <3>1, Zenon
    <2>3. CASE i \notin slot[k].stored
      BY <1>2, <1>3, <2>1, <2>3, Zenon
    <2> QED
      BY <2>2, <2>3, Zenon
  <1>9. OrphansOK'
    <2> SUFFICES ASSUME ~unsure, NEW i \in Instances
                 PROVE  /\ Apart(db'.orphans[i], orphanWindow)
                        /\ \A j \in DOMAIN db'.orphans[i] : db'.orphans[i][j] <= now'
                        /\ Dated(engine.instances[i], i)'
                        /\ \A m \in Slots : InFlight(m, i)' =>
                              /\ Dated(slot[m].marks[i].before.state, i)'
                              /\ \A e \in OrphanEventsOf(slot'[m], i) :
                                    /\ e.ts <= now'
                                    /\ Covers(engine'.instances[i], e.ts)
                                    /\ \A j \in DOMAIN db'.orphans[i] :
                                          e.ts - db'.orphans[i][j] >= orphanWindow
      BY Zenon DEF OrphansOK
    <2>1. /\ Apart(db.orphans[i], orphanWindow)
          /\ \A j \in DOMAIN db.orphans[i] : db.orphans[i][j] <= now
          /\ Dated(engine.instances[i], i)
          /\ \A m \in Slots : InFlight(m, i) =>
                /\ Dated(slot[m].marks[i].before.state, i)
                /\ \A e \in OrphanEventsOf(slot[m], i) :
                      /\ e.ts <= now
                      /\ Covers(engine.instances[i], e.ts)
                      /\ \A j \in DOMAIN db.orphans[i] : e.ts - db.orphans[i][j] >= orphanWindow
      BY Zenon DEF Rest, OrphansOK
    <2>2. CASE db'.orphans[i] = db.orphans[i]
      <3>1. Dated(engine.instances[i], i)'
        BY <2>1, <2>2, Zenon DEF Dated
      <3>2. ASSUME NEW m \in Slots, InFlight(m, i)'
            PROVE  /\ Dated(slot[m].marks[i].before.state, i)'
                   /\ \A e \in OrphanEventsOf(slot'[m], i) :
                        /\ e.ts <= now'
                        /\ Covers(engine'.instances[i], e.ts)
                        /\ \A j \in DOMAIN db'.orphans[i] : e.ts - db'.orphans[i][j] >= orphanWindow
        <4>1. InFlight(m, i) /\ slot'[m] = slot[m]
          BY <1>4, <3>2, Zenon
        <4>2. Dated(slot[m].marks[i].before.state, i)'
          BY <2>1, <2>2, <4>1, Zenon DEF Dated
        <4> QED
          BY <1>1, <2>1, <2>2, <4>1, <4>2, Zenon
      <3> QED
        BY <1>1, <2>1, <2>2, <3>1, <3>2, Zenon
    <2>3. ASSUME NEW e \in OrphanEventsOf(slot[k], i), db'.orphans[i] = Append(db.orphans[i], e.ts)
          PROVE  /\ Apart(db'.orphans[i], orphanWindow)
                 /\ \A j \in DOMAIN db'.orphans[i] : db'.orphans[i][j] <= now'
                 /\ Dated(engine.instances[i], i)'
                 /\ \A m \in Slots : ~InFlight(m, i)'
      <3>1. i \in slot[k].stored
        BY <1>3, Zenon
      <3>2. /\ e.ts <= now /\ Covers(engine.instances[i], e.ts)
            /\ \A j \in DOMAIN db.orphans[i] : e.ts - db.orphans[i][j] >= orphanWindow
        BY <1>1, <2>1, <3>1, Zenon DEF InFlight
      <3>3. e.ts \in Nat /\ orphanWindow \in Nat
        BY <1>1, <3>1, IngestAssumption, Zenon DEF Rest, LocksOK
      <3>4. db.orphans[i] \in Seq(Nat)
        <4>1. db.orphans[i] \in Seq(Nat \ {0})
          BY DEF Shape, TablesOK
        <4> QED
          BY <4>1
      <3>5. Apart(db'.orphans[i], orphanWindow)
        BY <2>1, <2>3, <3>2, <3>3, <3>4, ApartAppend
      <3>6. \A j \in DOMAIN db'.orphans[i] :
              \/ j \in DOMAIN db.orphans[i] /\ db'.orphans[i][j] = db.orphans[i][j]
              \/ db'.orphans[i][j] = e.ts
        BY <2>3, <3>3, <3>4
      <3>7. Dated(engine.instances[i], i)'
        BY <2>1, <3>2, <3>6, Zenon DEF Dated
      <3> QED
        BY <1>1, <1>4, <2>1, <3>1, <3>2, <3>5, <3>6, <3>7, Zenon
    <2> QED
      BY <1>2, <2>2, <2>3, Zenon
  <1>10. TruncationsOK'
    BY CommitKeepsTruncations
  <1> QED
    BY <1>6, <1>7, <1>8, <1>9, <1>10, Zenon DEF Rest

\* What the undo leaves of an instance: the state before, nothing, or, where
\* the attempt did not store it, what was there.
LEMMA UndoLeaves ==
    ASSUME LocksOK, NEW k \in Slots, slot[k].pc = "process", engine' = Undone(slot[k]),
           NEW i \in Instances
    PROVE  /\ i \in slot[k].stored =>
                 engine'.instances[i] \in {NoState, slot[k].marks[i].before.state}
           /\ i \notin slot[k].stored => engine'.instances[i] = engine.instances[i]
  <1>1. engine'.instances[i] =
            IF i \in slot[k].stored THEN Back(engine.instances[i], slot[k].marks[i].before.state,
                                             slot[k].marks[i].written.state)
            ELSE engine.instances[i]
    BY DEF Undone
  <1>2. i \in slot[k].stored => engine.instances[i] \in {NoState, slot[k].marks[i].written.state}
    BY Zenon DEF LocksOK
  <1> QED
    BY <1>1, <1>2, Zenon DEF Back

\* A rollback leaves the engine with what is stored.
LEMMA RollbackKeeps ==
    ASSUME Shape, Rest, NEW k \in Slots, Ended(k), db' = db,
           engine' = Undone(slot[k]), unsure' = unsure
    PROVE  Rest'
  <1>1. slot[k].pc = "process" /\ log' = log /\ now' = now
    BY Zenon DEF Ended
  <1>2. \A i \in Instances :
          /\ i \in slot[k].stored => engine'.instances[i] \in {NoState, slot[k].marks[i].before.state}
          /\ i \notin slot[k].stored => engine'.instances[i] = engine.instances[i]
    BY <1>1, UndoLeaves, Zenon DEF Rest
  <1>3. LocksOK'
    BY <1>2, EndKeepsLocks, Zenon DEF Rest
  <1>4. ASSUME NEW m \in Slots, NEW i, InFlight(m, i)'
        PROVE  /\ m # k /\ InFlight(m, i) /\ slot'[m] = slot[m] /\ i \notin slot[k].stored
               /\ RoleOf(slot[m], i)' = RoleOf(slot[m], i)
    <2>1. m # k /\ slot'[m] = slot[m]
      BY <1>4, Zenon DEF Ended, InFlight
    <2>2. InFlight(m, i)
      BY <1>4, <2>1, Zenon DEF InFlight
    <2>3. i \notin slot[k].stored
      BY <1>1, <2>1, <2>2, OneHolder, Zenon DEF InFlight, Rest
    <2> QED
      BY <1>1, <2>1, <2>2, <2>3, Zenon DEF RoleOf, Report
  <1>5. ASSUME NEW i \in Instances, i \notin slot[k].stored, Free(i)' PROVE Free(i)
    BY <1>5, Zenon DEF Free, InFlight, Ended
  <1>6. RolesOK'
    <2> SUFFICES ASSUME ~unsure, NEW i \in Instances
                 PROVE  /\ Free(i)' => Remembers(engine.instances[i], i)'
                        /\ \A m \in Slots : InFlight(m, i)' =>
                              /\ Remembers(slot[m].marks[i].before.state, i)'
                              /\ engine'.instances[i].role \in {"", RoleOf(slot[m], i)'}
                              /\ RoleEventsOf(slot'[m], i) = {} =>
                                    RoleOf(slot[m], i)' = db'.instances[i].role
                              /\ \A e \in RoleEventsOf(slot'[m], i) : e.role = RoleOf(slot[m], i)'
      BY Zenon DEF RolesOK
    <2>1. /\ Free(i) => Remembers(engine.instances[i], i)
          /\ \A m \in Slots : InFlight(m, i) =>
                /\ Remembers(slot[m].marks[i].before.state, i)
                /\ engine.instances[i].role \in {"", RoleOf(slot[m], i)}
                /\ RoleEventsOf(slot[m], i) = {} => RoleOf(slot[m], i) = db.instances[i].role
                /\ \A e \in RoleEventsOf(slot[m], i) : e.role = RoleOf(slot[m], i)
      BY Zenon DEF Rest, RolesOK
    <2>2. CASE i \in slot[k].stored
      <3>1. Remembers(slot[k].marks[i].before.state, i)
        BY <1>1, <2>1, <2>2, Zenon DEF InFlight
      <3>2. Remembers(engine.instances[i], i)'
        BY <1>2, <2>2, <3>1, NoStateOK, Zenon DEF Remembers
      <3> QED
        BY <1>4, <2>2, <3>2, Zenon
    <2>3. CASE i \notin slot[k].stored
      <3>1. engine'.instances[i] = engine.instances[i]
        BY <1>2, <2>3, Zenon
      <3>2. Free(i)' => Remembers(engine.instances[i], i)'
        BY <1>5, <2>1, <2>3, <3>1, Zenon DEF Remembers
      <3>3. ASSUME NEW m \in Slots, InFlight(m, i)'
            PROVE  /\ Remembers(slot[m].marks[i].before.state, i)'
                   /\ engine'.instances[i].role \in {"", RoleOf(slot[m], i)'}
                   /\ RoleEventsOf(slot'[m], i) = {} => RoleOf(slot[m], i)' = db'.instances[i].role
                   /\ \A e \in RoleEventsOf(slot'[m], i) : e.role = RoleOf(slot[m], i)'
        <4>1. InFlight(m, i) /\ slot'[m] = slot[m] /\ RoleOf(slot[m], i)' = RoleOf(slot[m], i)
          BY <1>4, <3>3, Zenon
        <4>2. Remembers(slot[m].marks[i].before.state, i)'
          BY <2>1, <4>1, Zenon DEF Remembers
        <4> QED
          BY <2>1, <3>1, <4>1, <4>2, Zenon
      <3> QED
        BY <3>2, <3>3, Zenon
    <2> QED
      BY <2>2, <2>3, Zenon
  <1>7. RoleReported'
    BY Zenon DEF Rest, RoleReported
  <1>8. OrphansOK'
    <2> SUFFICES ASSUME ~unsure, NEW i \in Instances
                 PROVE  /\ Apart(db'.orphans[i], orphanWindow)
                        /\ \A j \in DOMAIN db'.orphans[i] : db'.orphans[i][j] <= now'
                        /\ Dated(engine.instances[i], i)'
                        /\ \A m \in Slots : InFlight(m, i)' =>
                              /\ Dated(slot[m].marks[i].before.state, i)'
                              /\ \A e \in OrphanEventsOf(slot'[m], i) :
                                    /\ e.ts <= now'
                                    /\ Covers(engine'.instances[i], e.ts)
                                    /\ \A j \in DOMAIN db'.orphans[i] :
                                          e.ts - db'.orphans[i][j] >= orphanWindow
      BY Zenon DEF OrphansOK
    <2>1. /\ Apart(db.orphans[i], orphanWindow)
          /\ \A j \in DOMAIN db.orphans[i] : db.orphans[i][j] <= now
          /\ Dated(engine.instances[i], i)
          /\ \A m \in Slots : InFlight(m, i) =>
                /\ Dated(slot[m].marks[i].before.state, i)
                /\ \A e \in OrphanEventsOf(slot[m], i) :
                      /\ e.ts <= now
                      /\ Covers(engine.instances[i], e.ts)
                      /\ \A j \in DOMAIN db.orphans[i] : e.ts - db.orphans[i][j] >= orphanWindow
      BY Zenon DEF Rest, OrphansOK
    <2>2. Dated(engine.instances[i], i)'
      <3>1. CASE i \in slot[k].stored
        <4>1. Dated(slot[k].marks[i].before.state, i)
          BY <1>1, <2>1, <3>1, Zenon DEF InFlight
        <4> QED
          BY <1>2, <3>1, <4>1, NoStateOK, Zenon DEF Dated
      <3>2. CASE i \notin slot[k].stored
        BY <1>2, <2>1, <3>2, Zenon DEF Dated
      <3> QED
        BY <3>1, <3>2, Zenon
    <2>3. ASSUME NEW m \in Slots, InFlight(m, i)'
          PROVE  /\ Dated(slot[m].marks[i].before.state, i)'
                 /\ \A e \in OrphanEventsOf(slot'[m], i) :
                      /\ e.ts <= now'
                      /\ Covers(engine'.instances[i], e.ts)
                      /\ \A j \in DOMAIN db'.orphans[i] : e.ts - db'.orphans[i][j] >= orphanWindow
      <3>1. InFlight(m, i) /\ slot'[m] = slot[m] /\ engine'.instances[i] = engine.instances[i]
        BY <1>2, <1>4, <2>3, Zenon
      <3>2. Dated(slot[m].marks[i].before.state, i)'
        BY <2>1, <3>1, Zenon DEF Dated
      <3> QED
        BY <1>1, <2>1, <3>1, <3>2, Zenon
    <2> QED
      BY <1>1, <2>1, <2>2, <2>3, Zenon
  <1>9. TruncationsOK'
    BY <1>1, ZenonT(40) DEF Rest, TruncationsOK, Ended
  <1> QED
    BY <1>3, <1>6, <1>7, <1>8, <1>9, Zenon DEF Rest

\* A commit whose answer is lost: what is left to say is about the locks and
\* the truncations.
LEMMA LostKeeps ==
    ASSUME Shape, Rest, NEW k \in Slots, Ended(k), db' = Committed(slot[k]),
           engine' = Undone(slot[k]), unsure' = TRUE
    PROVE  Rest'
  <1>1. slot[k].pc = "process"
    BY Zenon DEF Ended
  <1>2. \A i \in Instances : i \in slot[k].stored \/ engine'.instances[i] = engine.instances[i]
    BY <1>1, UndoLeaves, Zenon DEF Rest
  <1>3. LocksOK'
    BY <1>2, EndKeepsLocks, Zenon DEF Rest
  <1>4. TruncationsOK'
    BY CommitKeepsTruncations
  <1> QED
    BY <1>3, <1>4, Zenon DEF Rest, RolesOK, RoleReported, OrphansOK

-----------------------------------------------------------------------------
\* Processing an instance.

\* The observation of an instance is applied, and the attempt notes it.
Applied(k, i) == apply(engine, Observed(slot[k], i, db.instances[i].role), now)

Stores(k, i) ==
    /\ slot[k].pc = "process" /\ i \in slot[k].todo /\ lock[i] \in {NoSlot, k}
    /\ now' = now /\ log' = log /\ db' = db /\ unsure' = unsure
    /\ lock' = [lock EXCEPT ![i] = k]
    /\ engine' = Applied(k, i).engine
    /\ \A m \in Slots \ {k} : slot'[m] = slot[m]
    /\ slot'[k].pc = "process" /\ slot'[k].n = slot[k].n
    /\ slot'[k].todo = slot[k].todo \ {i} /\ slot'[k].stored = slot[k].stored \cup {i}
    /\ slot'[k].marks[i].before.state = engine.instances[i]
    /\ slot'[k].marks[i].written.state = engine'.instances[i]
    /\ \A j \in Instances \ {i} : slot'[k].marks[j] = slot[k].marks[j]
    /\ \E seen : slot'[k].events = slot[k].events \cup Applied(k, i).events \cup counterResetEvents(seen, i)
    /\ \/ slot'[k].truncations = slot[k].truncations
       \/ /\ slot'[k].truncations = slot[k].truncations \cup {i}
          /\ truncationEventDue(i, log[slot[k].n].ts)

\* An instance is rejected, or it is stored.
LEMMA ProcessSplits ==
    ASSUME Shape, LocksOK, NEW k \in Slots, NEW i \in Instances, ProcessInstance(k, i)
    PROVE  /\ AttemptOK(slot[k])' /\ Slots \subseteq DOMAIN slot'
           /\ \A m \in Slots \ {k} : slot'[m] = slot[m]
           /\ (Calm /\ engine' = engine) \/ Stores(k, i)
  <1> DEFINE a == slot[k]
             r == Report(a, i)
             topo == Applied(k, i)
             seen == observe(prev[i], Sample(a, i))
  <1>1. /\ a.pc = "process" /\ i \in a.todo /\ lock[i] \in {NoSlot, k}
        /\ now' = now /\ log' = log /\ db' = db /\ unsure' = unsure
        /\ lock' = [lock EXCEPT ![i] = k]
    BY Zenon DEF ProcessInstance, MayLock, agent
  <1>2. /\ AttemptOK(a) /\ Slots \subseteq DOMAIN slot /\ Instances \subseteq DOMAIN lock
        /\ now \in Nat
    BY Zenon DEF Shape
  <1>3. CASE r.kind = "unknown"
    <2>1. /\ slot' = [slot EXCEPT ![k].todo = @ \ {i}, ![k].rejected = @ \cup {i}]
          /\ engine' = engine
      BY <1>3, Zenon DEF ProcessInstance
    <2>2. slot'[k] = [a EXCEPT !.todo = a.todo \ {i}, !.rejected = a.rejected \cup {i}]
      BY <1>2, <2>1, Zenon
    <2>3. \A m \in Slots \ {k} : slot'[m] = slot[m]
      BY <1>2, <2>1
    <2>4. PICK b : b = slot'[k]
      OBVIOUS
    <2>5. Same(b, a) /\ AttemptOK(b)
      BY <1>2, <2>2, <2>4, Zenon DEF Same, AttemptOK
    <2>6. ASSUME NEW m \in Slots, slot'[m].pc = "process"
          PROVE  /\ Same(slot'[m], slot[m])
                 /\ \A j \in slot'[m].stored : lock'[j] = lock[j]
      <3>1. Same(slot'[m], slot[m])
        <4>1. CASE m = k
          BY <2>4, <2>5, <4>1, Zenon
        <4>2. CASE m # k
          BY <2>3, <4>2, Zenon DEF Same
        <4> QED
          BY <4>1, <4>2, Zenon
      <3>2. ASSUME NEW j \in slot[m].stored PROVE lock'[j] = lock[j]
        <4>1. lock[j] = m /\ j \in Instances
          BY <2>6, <3>1, ZenonT(40) DEF LocksOK, Same
        <4>2. j = i => lock[j] = k
          BY <1>1, <4>1, IngestAssumption, Zenon
        <4> QED
          BY <1>1, <1>2, <4>1, <4>2, Zenon
      <3> QED
        BY <3>1, <3>2, Zenon DEF Same
    <2>7. ASSUME NEW m \in Slots, slot[m].pc = "process" PROVE Same(slot'[m], slot[m])
      <3>1. slot'[m].pc = slot[m].pc
        BY <2>3, <2>4, <2>5, Zenon DEF Same
      <3> QED
        BY <2>6, <2>7, <3>1, Zenon
    <2>8. now <= now'
      BY <1>1, <1>2
    <2>9. Calm
      BY <1>1, <1>2, <2>1, <2>6, <2>7, <2>8, Zenon DEF Calm
    <2>10. AttemptOK(slot[k])'
      BY <1>1, <2>4, <2>5, Zenon DEF AttemptOK
    <2>11. Slots \subseteq DOMAIN slot'
      BY <1>2, <2>1, Zenon
    <2> QED
      BY <2>1, <2>3, <2>9, <2>10, <2>11, Zenon
  <1>4. CASE r.kind # "unknown"
    <2>a. PICK note : note = [before |-> mark(engine, i, r.cluster),
                              written |-> mark(topo.engine, i, r.cluster)]
      BY Zenon
    <2>b. PICK cut : cut = IF r.cut = "truncated" /\ truncationEventDue(i, log[a.n].ts)
                           THEN a.truncations \cup {i} ELSE a.truncations
      BY Zenon
    <2>c. PICK rows : rows = a.events \cup topo.events \cup counterResetEvents(seen, i)
      BY Zenon
    <2>d. PICK ps : ps = IF seen.point = NoPoint THEN a.points
                         ELSE a.points \cup {[instance |-> i, from |-> seen.point.from,
                                              to |-> seen.point.to]}
      BY Zenon
    <2>e. PICK base : base = seen.base
      BY Zenon
    <2>1. /\ slot' = [slot EXCEPT
                     ![k].todo = @ \ {i}, ![k].stored = @ \cup {i}, ![k].marks[i] = note,
                     ![k].events = rows, ![k].points = ps, ![k].read[i] = prev[i],
                     ![k].staged[i] = base, ![k].truncations = cut]
          /\ engine' = topo.engine
      BY <1>4, <2>a, <2>b, <2>c, <2>d, <2>e, Zenon DEF ProcessInstance, Applied
    <2>2. slot'[k] = [a EXCEPT !.todo = a.todo \ {i}, !.stored = a.stored \cup {i}, !.marks[i] = note,
                     !.events = rows, !.points = ps, !.read[i] = prev[i],
                     !.staged[i] = base, !.truncations = cut]
      BY <1>2, <2>1, Zenon
    <2>3. \A m \in Slots \ {k} : slot'[m] = slot[m]
      BY <1>2, <2>1, Zenon
    <2>4. PICK b : b = slot'[k]
      OBVIOUS
    <2>5. /\ {"pc", "n", "todo", "stored", "marks", "events", "truncations"} \subseteq DOMAIN b
          /\ b.pc = a.pc /\ b.n = a.n /\ b.todo = a.todo \ {i} /\ b.stored = a.stored \cup {i}
          /\ b.marks = [a.marks EXCEPT ![i] = note] /\ b.events = rows /\ b.truncations = cut
      BY <1>2, <2>2, <2>4, ZenonT(40) DEF AttemptOK
    <2>6. /\ Instances \subseteq DOMAIN b.marks /\ b.marks[i] = note
          /\ \A j \in Instances \ {i} : b.marks[j] = a.marks[j]
      BY <1>2, <2>5, Zenon DEF AttemptOK
    <2>7. note.before.state = engine.instances[i] /\ note.written.state = topo.engine.instances[i]
      BY <2>a, Zenon DEF mark
    <2>8. AttemptOK(slot[k])'
      BY <1>1, <1>2, <2>4, <2>5, <2>6, Zenon DEF AttemptOK
    <2>9. Stores(k, i)
      BY <1>1, <2>1, <2>3, <2>4, <2>5, <2>6, <2>7, <2>b, <2>c, Zenon DEF Stores
    <2>10. Slots \subseteq DOMAIN slot'
      BY <1>2, <2>1, Zenon
    <2> QED
      BY <2>3, <2>8, <2>9, <2>10, Zenon
  <1> QED
    BY <1>3, <1>4, Zenon

\* Applying an observation under the lock, from what is stored.
LEMMA StoresKeeps ==
    ASSUME Shape, Rest, NEW k \in Slots, NEW i \in Instances, Stores(k, i)
    PROVE  EngineOK(engine') /\ Rest'
  <1> DEFINE a == slot[k]
             role == RoleOf(a, i)
             s == engine.instances[i]
             w == engine'.instances[i]
  <1>1. /\ a.pc = "process" /\ i \in a.todo /\ lock[i] \in {NoSlot, k}
        /\ now' = now /\ log' = log /\ db' = db /\ unsure' = unsure
        /\ slot'[k].stored = a.stored \cup {i}
        /\ slot'[k].pc = "process" /\ slot'[k].n = a.n
        /\ \A m \in Slots \ {k} : slot'[m] = slot[m]
    BY Zenon DEF Stores
  <1>2. i \notin a.stored /\ \A m \in Slots : ~InFlight(m, i)
    <2>1. i \notin a.stored
      BY <1>1, Zenon DEF Rest, LocksOK
    <2>2. ASSUME NEW m \in Slots, InFlight(m, i) PROVE FALSE
      <3>1. lock[i] = m
        BY <2>2, Zenon DEF Rest, LocksOK, InFlight
      <3>2. m = k
        BY <1>1, <3>1, IngestAssumption, Zenon
      <3> QED
        BY <2>1, <2>2, <3>2, Zenon DEF InFlight
    <2> QED
      BY <2>1, <2>2, Zenon
  <1>3. a.n \in DOMAIN log /\ log[a.n].ts \in Nat /\ now \in Nat \ {0}
    <2>1. a.n \in DOMAIN log
      BY <1>1, Zenon DEF Shape, AttemptOK
    <2>2. log[a.n].ts \in 1..now /\ now \in Nat
      BY <2>1, Zenon DEF Shape
    <2> QED
      BY <2>1, <2>2
  <1>4. PICK o, topo : /\ o = Observed(a, i, db.instances[i].role)
                       /\ topo = Applied(k, i) /\ topo = apply(engine, o, now)
    BY Zenon DEF Applied
  <1>5. o.instance = i /\ o.role = role /\ o.prior = db.instances[i].role
    BY <1>4 DEF Observed, RoleOf
  <1>6. engine' = topo.engine /\ EngineOK(engine)
    BY <1>4, Zenon DEF Stores, Shape
  <1>7. Applies(engine, i, o, now, topo)
    BY <1>3, <1>4, <1>5, <1>6, ApplyKeeps
  <1>8. /\ \A j \in Instances \ {i} : engine'.instances[j] = engine.instances[j]
        /\ w.role = role
        /\ EngineOK(engine')
    BY <1>5, <1>6, <1>7, Zenon DEF Applies
  <1>9. RoleEventsOf(a, i) = {} /\ OrphanEventsOf(a, i) = {}
    BY <1>1, <1>2, Zenon DEF Rest, LocksOK
  <1>10. /\ \A x : x \in RoleEventsOf(slot'[k], i) => x \in topo.events /\ x.role = role
         /\ RoleEventsOf(slot'[k], i) = {} => s.role = role \/ (s.role = "" /\ db.instances[i].role = role)
         /\ \A x : x \in OrphanEventsOf(slot'[k], i) => x \in topo.events /\ x.type = "orphan_standby"
         /\ \A j \in Instances \ {i} : /\ RoleEventsOf(slot'[k], j) = RoleEventsOf(a, j)
                                       /\ OrphanEventsOf(slot'[k], j) = OrphanEventsOf(a, j)
    <2>1. PICK seen : slot'[k].events = a.events \cup topo.events \cup counterResetEvents(seen, i)
      BY <1>4, Zenon DEF Stores
    <2>2. \A x \in counterResetEvents(seen, i) :
            x.type \notin {"role_change", "failover_detected", "orphan_standby"}
      <3>1. \/ counterResetEvents(seen, i) = {}
            \/ counterResetEvents(seen, i) = {Event("counter_reset_detected", i, "", now)}
        BY Zenon DEF counterResetEvents
      <3>2. Event("counter_reset_detected", i, "", now).type = "counter_reset_detected"
        BY DEF Event
      <3> QED
        BY <3>1, <3>2, Zenon
    <2>3. /\ \A x \in topo.events : x.type \in {"role_change", "failover_detected"} =>
                x.instance = i /\ x.role = role
          /\ \A x \in topo.events : x.type = "orphan_standby" => x.instance = i
          /\ \/ \E x \in topo.events : x.type \in {"role_change", "failover_detected"}
                                        /\ x.instance = i
             \/ s.role = role
             \/ s.role = "" /\ db.instances[i].role = role
      BY <1>5, <1>7, Zenon DEF Applies
    <2>4. ASSUME NEW x, x \in RoleEventsOf(slot'[k], i) PROVE x \in topo.events /\ x.role = role
      <3>1. x \in slot'[k].events /\ x.instance = i /\ x.type \in {"role_change", "failover_detected"}
        BY <2>4, Zenon DEF RoleEventsOf
      <3>2. x \notin a.events
        BY <1>9, <3>1, Zenon DEF RoleEventsOf
      <3> QED
        BY <2>1, <2>2, <2>3, <3>1, <3>2, Zenon
    <2>5. ASSUME NEW x, x \in OrphanEventsOf(slot'[k], i)
          PROVE  x \in topo.events /\ x.type = "orphan_standby"
      <3>1. x \in slot'[k].events /\ x.instance = i /\ x.type = "orphan_standby"
        BY <2>5, Zenon DEF OrphanEventsOf
      <3>2. x \notin a.events
        BY <1>9, <3>1, Zenon DEF OrphanEventsOf
      <3> QED
        BY <2>1, <2>2, <3>1, <3>2, Zenon
    <2>6. RoleEventsOf(slot'[k], i) = {} => s.role = role \/ (s.role = "" /\ db.instances[i].role = role)
      BY <2>1, <2>3, Zenon DEF RoleEventsOf
    <2>7. ASSUME NEW j \in Instances \ {i}
          PROVE  RoleEventsOf(slot'[k], j) = RoleEventsOf(a, j)
      BY <2>1, <2>2, <2>3, Zenon DEF RoleEventsOf
    <2>8. ASSUME NEW j \in Instances \ {i}
          PROVE  OrphanEventsOf(slot'[k], j) = OrphanEventsOf(a, j)
      BY <2>1, <2>2, <2>3, Zenon DEF OrphanEventsOf
    <2> QED
      BY <2>4, <2>5, <2>6, <2>7, <2>8, Zenon
  <1>11. ASSUME NEW m \in Slots, NEW j \in Instances, j # i
         PROVE  /\ InFlight(m, j)' <=> InFlight(m, j)
                /\ slot'[m].marks[j] = slot[m].marks[j]
                /\ RoleEventsOf(slot'[m], j) = RoleEventsOf(slot[m], j)
                /\ OrphanEventsOf(slot'[m], j) = OrphanEventsOf(slot[m], j)
                /\ RoleOf(slot[m], j)' = RoleOf(slot[m], j)
    <2>1. CASE m = k
      <3>1. slot'[k].marks[j] = a.marks[j]
        BY <1>11, Zenon DEF Stores
      <3>2. InFlight(k, j)' <=> InFlight(k, j)
        BY <1>1, <1>11, Zenon DEF InFlight
      <3>3. RoleOf(slot[k], j)' = RoleOf(slot[k], j)
        BY <1>1, Zenon DEF RoleOf, Report
      <3> QED
        BY <1>10, <1>11, <2>1, <3>1, <3>2, <3>3, Zenon
    <2>2. CASE m # k
      BY <1>1, <2>2, Zenon DEF InFlight, RoleOf, Report
    <2> QED
      BY <2>1, <2>2, Zenon
  <1>12. ASSUME NEW m \in Slots, InFlight(m, i)' PROVE m = k
    BY <1>1, <1>2, <1>12, Zenon DEF InFlight
  <1>13. LocksOK'
    <2> SUFFICES ASSUME NEW m \in Slots, slot'[m].pc = "process"
                 PROVE  /\ slot'[m].todo \subseteq Instances /\ slot'[m].stored \subseteq Instances
                        /\ slot'[m].todo \cap slot'[m].stored = {}
                        /\ slot'[m].truncations \subseteq slot'[m].stored
                        /\ \A j \in Instances \ slot'[m].stored :
                              RoleEventsOf(slot'[m], j) = {} /\ OrphanEventsOf(slot'[m], j) = {}
                        /\ \A j \in slot'[m].stored :
                              /\ lock'[j] = m
                              /\ StateOK(slot'[m].marks[j].before.state)
                              /\ \A e \in OrphanEventsOf(slot'[m], j) : e.ts \in Nat \ {0}
                              /\ engine'.instances[j] \in {NoState, slot'[m].marks[j].written.state}
      BY Zenon DEF LocksOK
    <2>1. slot[m].pc = "process"
      BY <1>1, Zenon
    <2>2. /\ slot[m].todo \subseteq Instances /\ slot[m].stored \subseteq Instances
          /\ slot[m].todo \cap slot[m].stored = {}
          /\ slot[m].truncations \subseteq slot[m].stored
          /\ \A j \in Instances \ slot[m].stored :
                RoleEventsOf(slot[m], j) = {} /\ OrphanEventsOf(slot[m], j) = {}
          /\ \A j \in slot[m].stored :
                /\ lock[j] = m
                /\ StateOK(slot[m].marks[j].before.state)
                /\ \A e \in OrphanEventsOf(slot[m], j) : e.ts \in Nat \ {0}
                /\ engine.instances[j] \in {NoState, slot[m].marks[j].written.state}
      BY <2>1, Zenon DEF Rest, LocksOK
    <2>3. ASSUME NEW j \in Instances, j # i
          PROVE  lock'[j] = lock[j]
      BY <2>3, Zenon DEF Stores, Shape
    <2>4. /\ slot'[m].todo \subseteq Instances /\ slot'[m].stored \subseteq Instances
          /\ slot'[m].todo \cap slot'[m].stored = {}
          /\ slot'[m].truncations \subseteq slot'[m].stored
          /\ slot[m].stored \subseteq slot'[m].stored
          /\ \A j \in Instances : j # i /\ j \in slot'[m].stored => j \in slot[m].stored
          /\ i \in slot'[m].stored <=> m = k
      <3>1. CASE m = k
        BY <1>1, <2>2, <3>1, Zenon DEF Stores
      <3>2. CASE m # k
        BY <1>1, <1>2, <2>1, <2>2, <3>2, Zenon DEF InFlight
      <3> QED
        BY <3>1, <3>2, Zenon
    <2>5. ASSUME NEW j \in Instances \ slot'[m].stored
          PROVE  RoleEventsOf(slot'[m], j) = {} /\ OrphanEventsOf(slot'[m], j) = {}
      <3>1. j \notin slot[m].stored
        BY <2>4, Zenon
      <3>2. CASE j = i
        <4>1. m # k
          BY <2>4, <3>2, Zenon
        <4> QED
          BY <1>1, <2>2, <3>1, <4>1, Zenon
      <3>3. CASE j # i
        BY <1>11, <2>2, <3>1, <3>3, Zenon
      <3> QED
        BY <3>2, <3>3, Zenon
    <2>6. ASSUME NEW j \in slot'[m].stored
          PROVE  /\ lock'[j] = m
                 /\ StateOK(slot'[m].marks[j].before.state)
                 /\ \A e \in OrphanEventsOf(slot'[m], j) : e.ts \in Nat \ {0}
                 /\ engine'.instances[j] \in {NoState, slot'[m].marks[j].written.state}
      <3>1. CASE j = i
        <4>1. m = k
          BY <2>4, <3>1, Zenon
        <4>2. lock'[i] = k
          BY Zenon DEF Stores, Shape
        <4>3. StateOK(slot'[k].marks[i].before.state)
          BY <1>6, Zenon DEF Stores, EngineOK
        <4>4. \A e \in OrphanEventsOf(slot'[k], i) : e.ts = now
          BY <1>7, <1>10, Zenon DEF Applies
        <4>5. engine'.instances[i] = slot'[k].marks[i].written.state
          BY Zenon DEF Stores
        <4> QED
          BY <1>3, <3>1, <4>1, <4>2, <4>3, <4>4, <4>5, Zenon
      <3>2. CASE j # i
        <4>1. j \in Instances /\ j \in slot[m].stored
          BY <2>4, <3>2, Zenon
        <4>2. /\ slot'[m].marks[j] = slot[m].marks[j] /\ lock'[j] = lock[j]
              /\ OrphanEventsOf(slot'[m], j) = OrphanEventsOf(slot[m], j)
              /\ engine'.instances[j] = engine.instances[j]
          BY <1>8, <1>11, <2>3, <3>2, <4>1, Zenon
        <4> QED
          BY <2>2, <4>1, <4>2, Zenon
      <3> QED
        BY <3>1, <3>2, Zenon
    <2> QED
      BY <2>4, <2>5, <2>6, Zenon
  <1>14. RolesOK'
    <2> SUFFICES ASSUME ~unsure, NEW j \in Instances
                 PROVE  /\ Free(j)' => Remembers(engine.instances[j], j)'
                        /\ \A m \in Slots : InFlight(m, j)' =>
                              /\ Remembers(slot[m].marks[j].before.state, j)'
                              /\ engine'.instances[j].role \in {"", RoleOf(slot[m], j)'}
                              /\ RoleEventsOf(slot'[m], j) = {} => RoleOf(slot[m], j)' = db'.instances[j].role
                              /\ \A e \in RoleEventsOf(slot'[m], j) : e.role = RoleOf(slot[m], j)'
      BY <1>1, Zenon DEF RolesOK
    <2>1. /\ Free(j) => Remembers(engine.instances[j], j)
          /\ \A m \in Slots : InFlight(m, j) =>
                /\ Remembers(slot[m].marks[j].before.state, j)
                /\ engine.instances[j].role \in {"", RoleOf(slot[m], j)}
                /\ RoleEventsOf(slot[m], j) = {} => RoleOf(slot[m], j) = db.instances[j].role
                /\ \A e \in RoleEventsOf(slot[m], j) : e.role = RoleOf(slot[m], j)
      BY Zenon DEF Rest, RolesOK
    <2>2. CASE j # i
      <3>1. Free(j)' => Free(j)
        BY <1>11, <2>2, Zenon DEF Free
      <3>2. engine'.instances[j] = engine.instances[j]
        BY <1>8, <2>2, Zenon
      <3>3. Free(j)' => Remembers(engine.instances[j], j)'
        BY <1>1, <2>1, <3>1, <3>2, Zenon DEF Remembers
      <3>4. ASSUME NEW m \in Slots, InFlight(m, j)'
            PROVE  /\ Remembers(slot[m].marks[j].before.state, j)'
                   /\ engine'.instances[j].role \in {"", RoleOf(slot[m], j)'}
                   /\ RoleEventsOf(slot'[m], j) = {} => RoleOf(slot[m], j)' = db'.instances[j].role
                   /\ \A e \in RoleEventsOf(slot'[m], j) : e.role = RoleOf(slot[m], j)'
        <4>1. /\ InFlight(m, j) /\ slot'[m].marks[j] = slot[m].marks[j]
              /\ RoleEventsOf(slot'[m], j) = RoleEventsOf(slot[m], j)
              /\ RoleOf(slot[m], j)' = RoleOf(slot[m], j)
          BY <1>11, <2>2, <3>4, Zenon
        <4>2. Remembers(slot[m].marks[j].before.state, j)'
          BY <1>1, <2>1, <4>1, Zenon DEF Remembers
        <4> QED
          BY <1>1, <2>1, <3>2, <4>1, <4>2, Zenon
      <3> QED
        BY <3>3, <3>4, Zenon
    <2>3. CASE j = i
      <3>1. InFlight(k, i)'
        BY <1>1, Zenon DEF InFlight
      <3>2. Remembers(s, i) /\ slot'[k].marks[i].before.state = s
        BY <1>2, <2>1, <2>3, Zenon DEF Free, Stores
      <3>3. Remembers(slot[k].marks[i].before.state, i)'
        BY <1>1, <3>2, Zenon DEF Remembers
      <3>4. RoleOf(slot[k], i)' = role
        BY <1>1, Zenon DEF RoleOf, Report
      <3>5. role # ""
        BY RoleNamed, Zenon
      <3>6. RoleEventsOf(slot'[k], i) = {} => role = db.instances[i].role
        BY <1>10, <3>2, <3>5, Zenon DEF Remembers
      <3> QED
        BY <1>1, <1>8, <1>10, <1>12, <2>3, <3>1, <3>3, <3>4, <3>6, Zenon DEF Free
    <2> QED
      BY <2>2, <2>3, Zenon
  <1>15. RoleReported'
    BY <1>1, Zenon DEF Rest, RoleReported
  <1>16. OrphansOK'
    <2> SUFFICES ASSUME ~unsure, NEW j \in Instances
                 PROVE  /\ Apart(db'.orphans[j], orphanWindow)
                        /\ \A u \in DOMAIN db'.orphans[j] : db'.orphans[j][u] <= now'
                        /\ Dated(engine.instances[j], j)'
                        /\ \A m \in Slots : InFlight(m, j)' =>
                              /\ Dated(slot[m].marks[j].before.state, j)'
                              /\ \A e \in OrphanEventsOf(slot'[m], j) :
                                    /\ e.ts <= now'
                                    /\ Covers(engine'.instances[j], e.ts)
                                    /\ \A u \in DOMAIN db'.orphans[j] :
                                          e.ts - db'.orphans[j][u] >= orphanWindow
      BY <1>1, Zenon DEF OrphansOK
    <2>1. /\ Apart(db.orphans[j], orphanWindow)
          /\ \A u \in DOMAIN db.orphans[j] : db.orphans[j][u] <= now
          /\ Dated(engine.instances[j], j)
          /\ \A m \in Slots : InFlight(m, j) =>
                /\ Dated(slot[m].marks[j].before.state, j)
                /\ \A e \in OrphanEventsOf(slot[m], j) :
                      /\ e.ts <= now
                      /\ Covers(engine.instances[j], e.ts)
                      /\ \A u \in DOMAIN db.orphans[j] : e.ts - db.orphans[j][u] >= orphanWindow
      BY Zenon DEF Rest, OrphansOK
    <2>2. CASE j # i
      <3>1. engine'.instances[j] = engine.instances[j]
        BY <1>8, <2>2, Zenon
      <3>2. Dated(engine.instances[j], j)'
        BY <1>1, <2>1, <3>1, Zenon DEF Dated
      <3>3. ASSUME NEW m \in Slots, InFlight(m, j)'
            PROVE  /\ Dated(slot[m].marks[j].before.state, j)'
                   /\ \A e \in OrphanEventsOf(slot'[m], j) :
                        /\ e.ts <= now'
                        /\ Covers(engine'.instances[j], e.ts)
                        /\ \A u \in DOMAIN db'.orphans[j] : e.ts - db'.orphans[j][u] >= orphanWindow
        <4>1. /\ InFlight(m, j) /\ slot'[m].marks[j] = slot[m].marks[j]
              /\ OrphanEventsOf(slot'[m], j) = OrphanEventsOf(slot[m], j)
          BY <1>11, <2>2, <3>3, Zenon
        <4>2. Dated(slot[m].marks[j].before.state, j)'
          BY <1>1, <2>1, <4>1, Zenon DEF Dated
        <4> QED
          BY <1>1, <2>1, <3>1, <4>1, <4>2, Zenon
      <3> QED
        BY <1>1, <2>1, <3>2, <3>3, Zenon
    <2>3. CASE j = i
      <3>1. ASSUME NEW u \in DOMAIN db.orphans[i]
            PROVE  db.orphans[i][u] \in 0..now /\ Covers(s, db.orphans[i][u])
        <4>1. db.orphans[i] \in Seq(Nat \ {0})
          BY Zenon DEF Shape, TablesOK
        <4>2. db.orphans[i][u] \in Nat
          BY <3>1, <4>1
        <4>3. db.orphans[i][u] <= now /\ Covers(s, db.orphans[i][u])
          BY <2>1, <2>3, <3>1, Zenon DEF Dated
        <4> QED
          BY <1>3, <4>2, <4>3
      <3>2. /\ \A u \in 0..now : Covers(s, u) => Covers(w, u)
            /\ \A x \in topo.events : x.type = "orphan_standby" =>
                  /\ x.ts = now /\ Covers(w, now)
                  /\ \A u \in 0..now : Covers(s, u) => now - u >= orphanWindow
        BY <1>6, <1>7, Zenon DEF Applies
      <3>3. Dated(engine.instances[i], i)'
        BY <1>1, <3>1, <3>2, Zenon DEF Dated
      <3>4. Dated(slot[k].marks[i].before.state, i)'
        <4>1. slot'[k].marks[i].before.state = s
          BY Zenon DEF Stores
        <4> QED
          BY <1>1, <3>1, <4>1, Zenon DEF Dated
      <3>5. ASSUME NEW e \in OrphanEventsOf(slot'[k], i)
            PROVE  /\ e.ts <= now'
                   /\ Covers(engine'.instances[i], e.ts)
                   /\ \A u \in DOMAIN db'.orphans[i] : e.ts - db'.orphans[i][u] >= orphanWindow
        <4>1. /\ e.ts = now /\ Covers(w, now)
              /\ \A u \in 0..now : Covers(s, u) => now - u >= orphanWindow
          BY <1>10, <3>2, <3>5, Zenon
        <4>2. now <= now
          BY <1>3
        <4> QED
          BY <1>1, <3>1, <4>1, <4>2, Zenon
      <3>6. ASSUME NEW m \in Slots, InFlight(m, i)'
            PROVE  /\ Dated(slot[m].marks[i].before.state, i)'
                   /\ \A e \in OrphanEventsOf(slot'[m], i) :
                        /\ e.ts <= now'
                        /\ Covers(engine'.instances[i], e.ts)
                        /\ \A u \in DOMAIN db'.orphans[i] : e.ts - db'.orphans[i][u] >= orphanWindow
        <4>1. m = k
          BY <1>12, <3>6, Zenon
        <4> QED
          BY <3>4, <3>5, <4>1, Zenon
      <3>7. /\ Apart(db'.orphans[i], orphanWindow)
            /\ \A u \in DOMAIN db'.orphans[i] : db'.orphans[i][u] <= now'
        BY <1>1, <2>1, <2>3, Zenon
      <3> QED
        BY <2>3, <3>3, <3>6, <3>7, Zenon
    <2> QED
      BY <2>2, <2>3, Zenon
  <1>17. TruncationsOK'
    <2> SUFFICES ASSUME NEW j \in Instances, NEW m \in Slots,
                        slot'[m].pc = "process", j \in slot'[m].truncations,
                        NEW u \in DOMAIN db.truncations[j]
                 PROVE  db.truncations[j][u] <= log[slot[m].n].ts - truncationWindow
      <3>1. \A m \in Slots : slot'[m].n = slot[m].n
        BY <1>1, Zenon
      <3> QED
        BY <1>1, <3>1, Zenon DEF Rest, TruncationsOK
    <2>1. CASE j \in slot[m].truncations
      BY <1>1, <2>1, Zenon DEF Rest, TruncationsOK
    <2>2. CASE j \notin slot[m].truncations
      <3>1. m = k /\ j = i /\ truncationEventDue(i, log[a.n].ts)
        BY <1>1, <2>2, Zenon DEF Stores
      <3>2. ~(db.truncations[i][u] > log[a.n].ts - truncationWindow)
        BY <3>1, Zenon DEF truncationEventDue
      <3>3. db.truncations[i] \in Seq(Nat) /\ truncationWindow \in Nat
        BY IngestAssumption, Zenon DEF Shape, TablesOK
      <3>4. db.truncations[i][u] \in Nat
        BY <3>1, <3>3
      <3>5. ASSUME NEW x \in Nat, NEW y \in Nat, NEW z \in Nat, ~(x > y - z) PROVE x <= y - z
        BY <3>5
      <3> QED
        BY <1>3, <3>1, <3>2, <3>3, <3>4, <3>5
    <2> QED
      BY <2>1, <2>2, Zenon
  <1> QED
    BY <1>8, <1>13, <1>14, <1>15, <1>16, <1>17, Zenon DEF Rest

-----------------------------------------------------------------------------
\* The steps, one by one.

\* A step that leaves the attempts, their locks and the engine alone.
Quiet ==
    /\ slot' = slot /\ lock' = lock /\ engine' = engine /\ unsure' = unsure
    /\ now' \in Nat /\ now <= now'
    /\ \A n \in DOMAIN log : log'[n] = log[n]
    /\ db'.reported = db.reported /\ db'.orphans = db.orphans /\ db'.truncations = db.truncations
    /\ \A i \in Instances : \/ db'.instances[i].role = db.instances[i].role
                            \/ db.instances[i].role = "" /\ db'.instances[i].role = "unknown"

\* Such a step is calm.
LEMMA QuietKeeps == ASSUME Shape, Rest, Quiet PROVE Rest'
  <1>1. \A k \in Slots : Same(slot'[k], slot[k])
    BY Zenon DEF Same, Quiet
  <1>2. Calm
    BY <1>1, Zenon DEF Calm, Quiet
  <1> QED
    BY <1>2, CalmKeeps, Zenon

\* Time passes and the counts stay: what was too old stays too old.
LEMMA CountsStay ==
    ASSUME Shape, CountsOK, now' \in {now, now + 1}, log' = log, tally' = tally,
           checkCounted' = checkCounted
    PROVE  CountsOK'
  <1>1. now \in Nat /\ now' \in Nat /\ now <= now' /\ evictAge \in Nat
    BY IngestAssumption DEF Shape
  <1>2. tally \in [Instances -> Seq(Nat)] /\ checkCounted \in [Instances -> 0..now']
    BY <1>1 DEF CountsOK
  <1>3. ASSUME NEW i \in Instances, NEW n \in DOMAIN log
        PROVE  /\ tally[i][n] <= 1
               /\ \/ tally[i][n] = 0
                  \/ checkCounted[i] >= log[n].ts
                  \/ now' - log[n].ts > evictAge
    <2>1. /\ tally[i][n] <= 1
          /\ \/ tally[i][n] = 0
             \/ checkCounted[i] >= log[n].ts
             \/ now - log[n].ts > evictAge
      BY <1>3, Zenon DEF CountsOK
    <2>2. log[n].ts \in 1..now
      BY <1>3, Zenon DEF Shape
    <2> QED
      BY <1>1, <2>1, <2>2
  <1>4. \A i \in Instances : Len(tally[i]) = Len(log)
    BY Zenon DEF CountsOK
  <1> QED
    BY <1>2, <1>3, <1>4, Zenon DEF CountsOK

\* The clock, a timeout, a restart of the agent, and no step at all.
LEMMA AgentKeeps ==
    ASSUME IngestInv,
           Tick \/ TimeOut \/ (\E n \in DOMAIN log : AgentRestart(n)) \/ UNCHANGED vars
    PROVE  IngestInv'
  <1>1. /\ slot' = slot /\ lock' = lock /\ engine' = engine /\ unsure' = unsure /\ db' = db
        /\ log' = log /\ counters' = counters /\ tally' = tally /\ checkCounted' = checkCounted
        /\ now' \in {now, now + 1}
        /\ next' = next \/ next' \in DOMAIN log
    BY Zenon DEF Tick, TimeOut, AgentRestart, agent, mem, vars
  <1>2. Shape /\ Rest /\ CountsOK
    BY Zenon DEF IngestInv, Rest
  <1>3. now \in Nat /\ now' \in Nat /\ now <= now'
    BY <1>1, <1>2 DEF Shape
  <1>4. Rest'
    <2>1. Quiet
      BY <1>1, <1>3, Zenon DEF Quiet
    <2> QED
      BY <1>2, <2>1, QuietKeeps, Zenon
  <1>5. CountsOK'
    BY <1>1, <1>2, CountsStay, Zenon
  <1>6. Shape'
    <2>1. next' \in Nat \ {0}
      <3>1. log \in Seq(Envelopes) /\ next \in Nat \ {0}
        BY <1>2, Zenon DEF Shape
      <3> QED
        BY <1>1, <3>1
    <2>2. \A n \in DOMAIN log : log[n].ts \in 1..now'
      BY <1>2, <1>3 DEF Shape
    <2>3. \A k \in Slots : AttemptOK(slot[k])'
      BY <1>1, <1>2, Zenon DEF Shape, AttemptOK
    <2>4. TablesOK(db')
      BY <1>1, <1>2, Zenon DEF Shape
    <2> QED
      BY <1>1, <1>2, <1>3, <2>1, <2>2, <2>3, <2>4, Zenon DEF Shape
  <1> QED
    BY <1>4, <1>5, <1>6, Zenon DEF IngestInv, Rest

\* A new envelope, with no result counted yet.
LEMMA ProduceKeeps ==
    ASSUME IngestInv, Len(log) < MaxEnvelopes, NEW shape \in Shapes[Len(log) + 1], Produce(shape)
    PROVE  IngestInv'
  <1>1. Shape /\ Rest /\ CountsOK
    BY Zenon DEF IngestInv, Rest
  <1>2. PICK x : x = [ts |-> now', reports |-> shape, counters |-> counters']
    BY Zenon
  <1>3. /\ now' = now + 1 /\ log' = Append(log, x)
        /\ slot' = slot /\ lock' = lock /\ engine' = engine /\ unsure' = unsure /\ db' = db
        /\ next' = next /\ checkCounted' = checkCounted
        /\ tally' = [i \in Instances |-> Append(tally[i], 0)]
    BY <1>2, Zenon DEF Produce
  <1>4. now \in Nat /\ log \in Seq(Envelopes) /\ MaxEnvelopes \in Nat /\ evictAge \in Nat
    BY <1>1, IngestAssumption, Zenon DEF Shape
  <1>5. now' \in Nat /\ now <= now' /\ now' \in 1..now'
    BY <1>3, <1>4
  <1>6. counters' \in [Instances -> [value : Nat, epoch : Nat]]
    <2>1. counters \in [Instances -> [value : Nat, epoch : Nat]]
      BY <1>1, Zenon DEF Shape
    <2>2. counters' = [i \in Instances |->
            IF i \in DOMAIN shape /\ shape[i].reset
            THEN [value |-> 0, epoch |-> counters[i].epoch + 1]
            ELSE [counters[i] EXCEPT !.value = @ + 1]]
      BY Zenon DEF Produce
    <2> QED
      BY <2>1, <2>2
  <1>7. x \in Envelopes /\ x.ts = now'
    <2>1. Len(log) + 1 \in 1..MaxEnvelopes
      BY <1>4
    <2>2. shape \in UNION {Shapes[n] : n \in 1..MaxEnvelopes}
      BY <2>1, Zenon
    <2> QED
      BY <1>2, <1>5, <1>6, <2>2 DEF Envelopes
  <1>8. /\ log' \in Seq(Envelopes) /\ Len(log') = Len(log) + 1
        /\ DOMAIN log' = DOMAIN log \cup {Len(log) + 1} /\ Len(log) + 1 \notin DOMAIN log
        /\ log'[Len(log) + 1] = x
        /\ \A n \in DOMAIN log : log'[n] = log[n]
    BY <1>3, <1>4, <1>7
  <1>9. Rest'
    <2>1. Quiet
      BY <1>3, <1>5, <1>8, Zenon DEF Quiet
    <2> QED
      BY <1>1, <2>1, QuietKeeps, Zenon
  <1>10. Shape'
    <2>1. \A n \in DOMAIN log' : log'[n].ts \in 1..now'
      <3>1. \A n \in DOMAIN log : log[n].ts \in 1..now
        BY <1>1, Zenon DEF Shape
      <3> QED
        BY <1>4, <1>5, <1>7, <1>8, <3>1
    <2>2. \A k \in Slots : AttemptOK(slot[k])'
      BY <1>1, <1>3, <1>8, Zenon DEF Shape, AttemptOK
    <2>3. EngineOK(engine') /\ TablesOK(db')
      BY <1>1, <1>3, Zenon DEF Shape
    <2> QED
      BY <1>1, <1>3, <1>5, <1>6, <1>8, <2>1, <2>2, <2>3, Zenon DEF Shape
  <1>11. CountsOK'
    <2>1. tally \in [Instances -> Seq(Nat)] /\ checkCounted \in [Instances -> 0..now]
      BY <1>1, Zenon DEF CountsOK
    <2>2. tally' \in [Instances -> Seq(Nat)] /\ checkCounted' \in [Instances -> 0..now']
      BY <1>3, <1>4, <1>5, <2>1
    <2>3. ASSUME NEW i \in Instances
          PROVE  /\ Len(tally'[i]) = Len(log')
                 /\ tally'[i][Len(log) + 1] = 0
                 /\ \A n \in DOMAIN log : tally'[i][n] = tally[i][n]
      <3>1. tally'[i] = Append(tally[i], 0) /\ tally[i] \in Seq(Nat) /\ Len(tally[i]) = Len(log)
        BY <1>1, <1>3, <2>1, Zenon DEF CountsOK
      <3> QED
        BY <1>4, <1>8, <3>1
    <2>4. ASSUME NEW i \in Instances, NEW n \in DOMAIN log
          PROVE  /\ tally'[i][n] <= 1
                 /\ \/ tally'[i][n] = 0
                    \/ checkCounted'[i] >= log'[n].ts
                    \/ now' - log'[n].ts > evictAge
      <3>1. /\ tally[i][n] <= 1
            /\ \/ tally[i][n] = 0
               \/ checkCounted[i] >= log[n].ts
               \/ now - log[n].ts > evictAge
        BY <1>1, <2>4, Zenon DEF CountsOK
      <3>2. log[n].ts \in 1..now
        BY <1>1, <2>4, Zenon DEF Shape
      <3>3. now - log[n].ts > evictAge => now' - log[n].ts > evictAge
        BY <1>3, <1>4, <3>2
      <3> QED
        BY <1>3, <1>8, <2>3, <2>4, <3>1, <3>3, Zenon
    <2>5. ASSUME NEW i \in Instances, NEW n \in DOMAIN log'
          PROVE  /\ tally'[i][n] <= 1
                 /\ \/ tally'[i][n] = 0
                    \/ checkCounted'[i] >= log'[n].ts
                    \/ now' - log'[n].ts > evictAge
      <3>1. CASE n \in DOMAIN log
        BY <2>4, <3>1, Zenon
      <3>2. CASE n = Len(log) + 1
        BY <2>3, <3>2, SMTT(60)
      <3> QED
        BY <1>8, <2>5, <3>1, <3>2, Zenon
    <2> QED
      BY <2>2, <2>3, <2>5, Zenon DEF CountsOK
  <1> QED
    BY <1>9, <1>10, <1>11, Zenon DEF IngestInv, Rest

\* Registering, when the store fails on the way.
LEMMA SendFailsKeeps ==
    ASSUME IngestInv, SendFails
    PROVE  IngestInv'
  <1>1. Shape /\ Rest /\ CountsOK
    BY Zenon DEF IngestInv, Rest
  <1>2. /\ slot' = slot /\ lock' = lock /\ engine' = engine /\ unsure' = unsure
        /\ log' = log /\ counters' = counters /\ tally' = tally /\ checkCounted' = checkCounted
        /\ now' = now /\ next' = next
    BY Zenon DEF SendFails, agent, mem
  <1>3. \E a, S : db' = Upserted(a, S)
    BY Zenon DEF SendFails
  <1>4. PICK d : d = db'
    OBVIOUS
  <1>5. Registered(d)
    <2>1. TablesOK(db)
      BY <1>1, Zenon DEF Shape
    <2>2. PICK a, S : d = Upserted(a, S)
      BY <1>3, <1>4, Zenon
    <2> QED
      BY <2>1, <2>2, UpsertedIs
  <1>6. now \in Nat /\ now <= now
    BY <1>1 DEF Shape
  <1>7. Quiet
    BY <1>2, <1>4, <1>5, <1>6, Zenon DEF Quiet, Registered
  <1>8. Rest'
    BY <1>1, <1>7, QuietKeeps, Zenon
  <1>9. CountsOK'
    BY <1>1, <1>2, CountsStay, Zenon
  <1>10. Shape'
    <2>1. \A k \in Slots : AttemptOK(slot[k])'
      BY <1>1, <1>2, Zenon DEF Shape, AttemptOK
    <2>2. TablesOK(db')
      BY <1>4, <1>5, ZenonT(40) DEF Registered
    <2> QED
      BY <1>1, <1>2, <2>1, <2>2, Zenon DEF Shape
  <1> QED
    BY <1>8, <1>9, <1>10, Zenon DEF IngestInv, Rest

\* An attempt that has not begun.
LEMMA NotBegun ==
    /\ {"pc", "n", "todo", "rejected", "stored", "marks", "events", "truncations"} \subseteq DOMAIN NoAttempt
    /\ Instances \subseteq DOMAIN NoAttempt.marks
    /\ NoAttempt.stored = {} /\ NoAttempt.events = {} /\ NoAttempt.truncations = {}
    /\ NoAttempt.pc = "idle"
  BY Zenon DEF NoAttempt

\* The eviction drops a mark only when what it covered is too old to count.
LEMMA EvictKeepsCounts ==
    ASSUME Shape, CountsOK, now' = now, log' = log, tally' = tally,
           \/ checkCounted' = checkCounted
           \/ checkCounted' = [i \in Instances |->
                 IF checkCounted[i] < now - evictAge \/ checkCounted[i] > now + evictAge
                 THEN 0 ELSE checkCounted[i]]
    PROVE  CountsOK'
  <1>1. now \in Nat /\ evictAge \in Nat /\ checkCounted \in [Instances -> 0..now]
    BY IngestAssumption, Zenon DEF Shape, CountsOK
  <1>2. checkCounted' \in [Instances -> 0..now]
    BY <1>1
  <1>3. ASSUME NEW i \in Instances, NEW n \in DOMAIN log
        PROVE  /\ tally[i][n] <= 1
               /\ \/ tally[i][n] = 0
                  \/ checkCounted'[i] >= log[n].ts
                  \/ now - log[n].ts > evictAge
    <2>1. /\ tally[i][n] <= 1
          /\ \/ tally[i][n] = 0
             \/ checkCounted[i] >= log[n].ts
             \/ now - log[n].ts > evictAge
      BY <1>3, Zenon DEF CountsOK
    <2>2. log[n].ts \in 1..now
      BY <1>3, Zenon DEF Shape
    <2>3. \/ checkCounted'[i] = checkCounted[i]
          \/ checkCounted[i] < now - evictAge
          \/ checkCounted[i] > now + evictAge
      BY <1>3, Zenon
    <2>4. checkCounted[i] \in 0..now
      BY <1>1
    <2>5. checkCounted'[i] = checkCounted[i] \/ ~(checkCounted[i] >= log[n].ts)
                                            \/ now - log[n].ts > evictAge
      <3>1. ASSUME NEW c \in 0..now, NEW t \in 1..now,
                   c < now - evictAge \/ c > now + evictAge, c >= t
            PROVE  now - t > evictAge
        BY <1>1, <3>1
      <3> QED
        BY <2>2, <2>3, <2>4, <3>1, Zenon
    <2> QED
      BY <2>1, <2>5, Zenon
  <1>4. tally \in [Instances -> Seq(Nat)] /\ \A i \in Instances : Len(tally[i]) = Len(log)
    BY Zenon DEF CountsOK
  <1> QED
    BY <1>2, <1>3, <1>4, Zenon DEF CountsOK

\* An attempt begins.
LEMMA SendKeeps ==
    ASSUME IngestInv, NEW k \in Slots, Send(k)
    PROVE  IngestInv'
  <1>1. Shape /\ Rest /\ CountsOK
    BY Zenon DEF IngestInv, Rest
  <1>2. PICK a : a = [NoAttempt EXCEPT !.pc = "process", !.n = next]
    BY Zenon
  <1>3. PICK b : b = [a EXCEPT !.rejected = Refused(a), !.todo = Listed(a) \ Refused(a)]
    BY Zenon
  <1>4. /\ next <= Len(log) /\ slot[k].pc = "idle"
        /\ db' = Upserted(a, Listed(a)) /\ slot' = [slot EXCEPT ![k] = b]
        /\ lock' = lock /\ unsure' = unsure /\ log' = log /\ counters' = counters /\ tally' = tally
        /\ now' = now /\ next' = next /\ maybeEvict
    BY <1>2, <1>3, Zenon DEF Send
  <1>5. engine' = engine \/ engine' = EvictTopology(engine, now - evictAge)
    BY <1>4, Zenon DEF maybeEvict
  <1>6. now \in Nat /\ now <= now /\ next \in DOMAIN log
    <2>1. now \in Nat /\ next \in Nat \ {0} /\ log \in Seq(Envelopes)
      BY <1>1, Zenon DEF Shape
    <2> QED
      BY <1>4, <2>1
  <1>7. slot'[k] = b /\ \A m \in Slots \ {k} : slot'[m] = slot[m]
    BY <1>1, <1>4, Zenon DEF Shape
  <1>8. /\ {"pc", "n", "todo", "stored", "marks", "events", "truncations"} \subseteq DOMAIN b
        /\ Instances \subseteq DOMAIN b.marks
        /\ Fresh(b) /\ b.pc = "process" /\ b.n = next
    <2>1. /\ {"pc", "n", "todo", "rejected", "stored", "marks", "events", "truncations"} \subseteq DOMAIN a
          /\ a.marks = NoAttempt.marks /\ a.pc = "process" /\ a.n = next
          /\ a.stored = {} /\ a.events = {} /\ a.truncations = {}
      BY <1>2, NotBegun, Zenon
    <2>2. /\ {"pc", "n", "todo", "stored", "marks", "events", "truncations"} \subseteq DOMAIN b
          /\ b.marks = a.marks /\ b.pc = a.pc /\ b.n = a.n /\ b.todo = Listed(a) \ Refused(a)
          /\ b.stored = a.stored /\ b.events = a.events /\ b.truncations = a.truncations
      BY <1>3, <2>1, Zenon
    <2>3. Listed(a) \ Refused(a) \subseteq Instances
      BY Zenon DEF Listed
    <2>4. Fresh(b)
      BY <2>1, <2>2, <2>3, Zenon DEF Fresh
    <2> QED
      BY <2>1, <2>2, <2>4, NotBegun, Zenon
  <1>9. AttemptOK(b)'
    BY <1>4, <1>6, <1>8, Zenon DEF AttemptOK
  <1>10. PICK d : d = db'
    BY Zenon
  <1>11. Registered(d)
    <2>1. TablesOK(db)
      BY <1>1, Zenon DEF Shape
    <2>2. d = Upserted(a, Listed(a))
      BY <1>4, <1>10, Zenon
    <2> QED
      BY <2>1, <2>2, UpsertedIs
  <1>12. PICK f : f = engine'
    BY Zenon
  <1>13. EngineOK(f) /\ \A i \in Instances : f.instances[i] \in {NoState, engine.instances[i]}
    <2>1. EngineOK(engine)
      BY <1>1, Zenon DEF Shape
    <2>2. CASE f = engine
      BY <2>1, <2>2, Zenon
    <2>3. CASE f = EvictTopology(engine, now - evictAge)
      BY <2>1, <2>3, EvictKeeps, Zenon
    <2> QED
      BY <1>5, <1>12, <2>2, <2>3, Zenon
  <1>14. Calm
    <2>1. ASSUME NEW m \in Slots, slot'[m].pc = "process"
          PROVE  /\ Same(slot'[m], slot[m]) \/ Fresh(slot'[m])
                 /\ \A i \in slot'[m].stored : lock'[i] = lock[i]
      BY <1>4, <1>7, <1>8, Zenon DEF Same
    <2>2. ASSUME NEW m \in Slots, slot[m].pc = "process" PROVE Same(slot'[m], slot[m])
      BY <1>4, <1>7, <2>2, Zenon DEF Same
    <2>3. \A i \in Instances : engine'.instances[i] = NoState \/ engine'.instances[i] = engine.instances[i]
      BY <1>12, <1>13, Zenon
    <2>4. /\ db'.reported = db.reported /\ db'.orphans = db.orphans
          /\ db'.truncations = db.truncations
          /\ \A i \in Instances :
                \/ db'.instances[i].role = db.instances[i].role
                \/ db.instances[i].role = "" /\ db'.instances[i].role = "unknown"
      BY <1>10, <1>11, Zenon DEF Registered
    <2> QED
      BY <1>4, <1>6, <2>1, <2>2, <2>3, <2>4, Zenon DEF Calm
  <1>15. Rest'
    BY <1>1, <1>14, CalmKeeps, Zenon
  <1>16. CountsOK'
    <2>1. \/ checkCounted' = checkCounted
          \/ checkCounted' = [i \in Instances |->
                 IF checkCounted[i] < now - evictAge \/ checkCounted[i] > now + evictAge
                 THEN 0 ELSE checkCounted[i]]
      BY <1>4, Zenon DEF maybeEvict
    <2> QED
      BY <1>1, <1>4, <2>1, EvictKeepsCounts, Zenon
  <1>17. Shape'
    <2>1. \A m \in Slots : AttemptOK(slot[m])'
      <3>1. ASSUME NEW m \in Slots, m # k PROVE AttemptOK(slot[m])'
        BY <1>1, <1>4, <1>7, <3>1, Zenon DEF Shape, AttemptOK
      <3>2. AttemptOK(slot[k])'
        BY <1>7, <1>9, Zenon
      <3> QED
        BY <3>1, <3>2, Zenon
    <2>2. TablesOK(db') /\ EngineOK(engine')
      BY <1>10, <1>11, <1>12, <1>13, Zenon DEF Registered
    <2>3. Slots \subseteq DOMAIN slot'
      BY <1>1, <1>4, Zenon DEF Shape
    <2> QED
      BY <1>1, <1>4, <2>1, <2>2, <2>3, Zenon DEF Shape
  <1> QED
    BY <1>15, <1>16, <1>17, Zenon DEF IngestInv, Rest

\* An instance is processed.
LEMMA ProcessKeeps ==
    ASSUME IngestInv, NEW k \in Slots, NEW i \in Instances, ProcessInstance(k, i)
    PROVE  IngestInv'
  <1>1. Shape /\ Rest /\ CountsOK /\ LocksOK
    BY Zenon DEF IngestInv, Rest
  <1>2. /\ AttemptOK(slot[k])' /\ Slots \subseteq DOMAIN slot'
        /\ \A m \in Slots \ {k} : slot'[m] = slot[m]
        /\ (Calm /\ engine' = engine) \/ Stores(k, i)
    BY <1>1, ProcessSplits, Zenon
  <1>3. /\ now' = now /\ log' = log /\ db' = db /\ unsure' = unsure /\ counters' = counters
        /\ next' = next /\ tally' = tally /\ checkCounted' = checkCounted
        /\ lock' = [lock EXCEPT ![i] = k]
    BY Zenon DEF ProcessInstance, agent
  <1>4. EngineOK(engine') /\ Rest'
    <2>1. CASE Calm /\ engine' = engine
      <3>1. Rest'
        BY <1>1, <2>1, CalmKeeps, Zenon
      <3> QED
        BY <1>1, <2>1, <3>1, Zenon DEF Shape
    <2>2. CASE Stores(k, i)
      BY <1>1, <2>2, StoresKeeps, Zenon
    <2> QED
      BY <1>2, <2>1, <2>2, Zenon
  <1>5. CountsOK'
    BY <1>1, <1>3, CountsStay, Zenon
  <1>6. Shape'
    <2>1. ASSUME NEW m \in Slots, m # k PROVE AttemptOK(slot[m])'
      BY <1>1, <1>2, <1>3, <2>1, Zenon DEF Shape, AttemptOK
    <2>2. \A m \in Slots : AttemptOK(slot[m])'
      BY <1>2, <2>1, Zenon
    <2>3. TablesOK(db') /\ Instances \subseteq DOMAIN lock'
      BY <1>1, <1>3, Zenon DEF Shape
    <2> QED
      BY <1>1, <1>2, <1>3, <1>4, <2>2, <2>3, Zenon DEF Shape
  <1> QED
    BY <1>4, <1>5, <1>6, Zenon DEF IngestInv, Rest

\* The undo leaves the engine in shape.
LEMMA UndoKeepsShape ==
    ASSUME Shape, LocksOK, NEW k \in Slots, slot[k].pc = "process", NEW f, f = Undone(slot[k])
    PROVE  EngineOK(f)
  <1>1. /\ "instances" \in DOMAIN f /\ DOMAIN f.instances = Instances
        /\ \A i \in Instances : f.instances[i] =
              IF i \in slot[k].stored THEN Back(engine.instances[i], slot[k].marks[i].before.state,
                                               slot[k].marks[i].written.state)
              ELSE engine.instances[i]
    BY DEF Undone
  <1>2. ASSUME NEW i \in Instances PROVE StateOK(f.instances[i])
    <2>1. StateOK(engine.instances[i])
      BY Zenon DEF Shape, EngineOK
    <2>2. i \in slot[k].stored => StateOK(slot[k].marks[i].before.state)
      BY Zenon DEF LocksOK
    <2> QED
      BY <1>1, <2>1, <2>2, Zenon DEF Back
  <1> QED
    BY <1>1, <1>2, Zenon DEF EngineOK

\* An attempt ends: it committed, was rolled back, or committed unnoticed.
LEMMA EndKeeps ==
    ASSUME IngestInv, NEW k \in Slots, Commit(k) \/ Rollback(k) \/ CommitLost(k)
    PROVE  IngestInv'
  <1>1. Shape /\ Rest /\ CountsOK /\ LocksOK
    BY Zenon DEF IngestInv, Rest
  <1>2. /\ slot[k].pc = "process" /\ lock' = Unlocked(k)
        /\ now' = now /\ log' = log /\ counters' = counters /\ next' = next
        /\ tally' = tally /\ checkCounted' = checkCounted
        /\ slot' = [slot EXCEPT ![k].pc = "settle"] \/ slot' = [slot EXCEPT ![k] = NoAttempt]
    BY Zenon DEF Commit, Rollback, CommitLost, ReadyToCommit, agent, mem
  <1>3. AttemptOK(slot[k]) /\ Slots \subseteq DOMAIN slot
    BY <1>1, Zenon DEF Shape
  <1>4. /\ Slots \subseteq DOMAIN slot' /\ \A m \in Slots \ {k} : slot'[m] = slot[m]
        /\ slot'[k] = [slot[k] EXCEPT !.pc = "settle"] \/ slot'[k] = NoAttempt
    BY <1>2, <1>3, Zenon
  <1>5. PICK b : b = slot'[k]
    BY Zenon
  <1>6. AttemptOK(b) /\ b.pc # "process"
    <2>1. CASE b = NoAttempt
      BY <2>1, NotBegun, Zenon DEF AttemptOK
    <2>2. CASE b = [slot[k] EXCEPT !.pc = "settle"]
      BY <1>2, <1>3, <2>2, Zenon DEF AttemptOK
    <2> QED
      BY <1>4, <1>5, <2>1, <2>2, Zenon
  <1>7. Ended(k)
    BY <1>2, <1>4, <1>5, <1>6, Zenon DEF Ended
  <1>8. PICK d, c, f, u : d = db' /\ c = Committed(slot[k]) /\ f = engine' /\ u = Undone(slot[k])
    BY Zenon
  <1>9. /\ \/ d = c /\ f = engine /\ unsure' = unsure
           \/ d = db /\ f = u /\ unsure' = unsure
           \/ d = c /\ f = u /\ unsure' = TRUE
    BY <1>8, Zenon DEF Commit, Rollback, CommitLost, mem
  <1>10. TablesOK(d) /\ EngineOK(f) /\ unsure' \in BOOLEAN
    <2>1. TablesOK(c)
      BY <1>1, <1>2, <1>8, Committing, Zenon
    <2>2. EngineOK(u)
      BY <1>1, <1>2, <1>8, UndoKeepsShape, Zenon
    <2> QED
      BY <1>1, <1>9, <2>1, <2>2, Zenon DEF Shape
  <1>11. Rest'
    <2>1. CASE d = c /\ f = engine /\ unsure' = unsure
      BY <1>1, <1>7, <1>8, <2>1, CommitKeeps, Zenon
    <2>2. CASE d = db /\ f = u /\ unsure' = unsure
      BY <1>1, <1>7, <1>8, <2>2, RollbackKeeps, Zenon
    <2>3. CASE d = c /\ f = u /\ unsure' = TRUE
      BY <1>1, <1>7, <1>8, <2>3, LostKeeps, Zenon
    <2> QED
      BY <1>9, <2>1, <2>2, <2>3, Zenon
  <1>12. CountsOK'
    BY <1>1, <1>2, CountsStay, Zenon
  <1>13. Shape'
    <2>1. ASSUME NEW m \in Slots, m # k PROVE AttemptOK(slot[m])'
      BY <1>1, <1>2, <1>4, <2>1, Zenon DEF Shape, AttemptOK
    <2>2. AttemptOK(slot[k])'
      BY <1>2, <1>5, <1>6, Zenon DEF AttemptOK
    <2>3. \A m \in Slots : AttemptOK(slot[m])'
      BY <2>1, <2>2, Zenon
    <2>4. Instances \subseteq DOMAIN lock'
      BY <1>2, Zenon DEF Unlocked
    <2>5. TablesOK(db') /\ EngineOK(engine')
      BY <1>8, <1>10, Zenon
    <2> QED
      BY <1>1, <1>2, <1>4, <1>10, <2>3, <2>4, <2>5, Zenon DEF Shape
  <1> QED
    BY <1>11, <1>12, <1>13, Zenon DEF IngestInv, Rest

\* A result is counted when its mark is older, and the mark then covers it.
LEMMA SettleCounts ==
    ASSUME Shape, CountsOK, NEW k \in Slots, Settle(k)
    PROVE  CountsOK'
  <1> DEFINE a == slot[k]
             t == log[a.n].ts
  <1>1. /\ a.pc = "settle" /\ now' = now /\ log' = log
        /\ checkCounted' = [i \in Instances |-> IF Counts(a, i) THEN t ELSE checkCounted[i]]
        /\ tally' = [i \in Instances |-> IF Counts(a, i) /\ now - t <= evictAge
                                         THEN [tally[i] EXCEPT ![a.n] = @ + 1] ELSE tally[i]]
    BY Zenon DEF Settle, countChecks
  <1>2. a.n \in DOMAIN log
    BY <1>1, Zenon DEF Shape, AttemptOK
  <1>3. /\ now \in Nat /\ evictAge \in Nat /\ t \in 1..now /\ log \in Seq(Envelopes)
        /\ checkCounted \in [Instances -> 0..now] /\ tally \in [Instances -> Seq(Nat)]
        /\ \A n \in DOMAIN log : log[n].ts \in 1..now
    BY <1>2, IngestAssumption, Zenon DEF Shape, CountsOK
  <1>4. checkCounted' \in [Instances -> 0..now]
    BY <1>1, <1>3
  <1>5. ASSUME NEW i \in Instances
        PROVE  /\ tally'[i] \in Seq(Nat) /\ Len(tally'[i]) = Len(log)
               /\ \A n \in DOMAIN log :
                     /\ tally'[i][n] <= 1
                     /\ \/ tally'[i][n] = 0
                        \/ checkCounted'[i] >= log[n].ts
                        \/ now - log[n].ts > evictAge
    <2>1. /\ tally[i] \in Seq(Nat) /\ Len(tally[i]) = Len(log) /\ checkCounted[i] \in 0..now
          /\ \A n \in DOMAIN log :
                /\ tally[i][n] <= 1
                /\ \/ tally[i][n] = 0
                   \/ checkCounted[i] >= log[n].ts
                   \/ now - log[n].ts > evictAge
      BY <1>3, <1>5, Zenon DEF CountsOK
    <2>2. CASE ~Counts(a, i)
      <3>1. tally'[i] = tally[i] /\ checkCounted'[i] = checkCounted[i]
        BY <1>1, <1>5, <2>2, Zenon
      <3> QED
        BY <2>1, <3>1, Zenon
    <2>3. CASE Counts(a, i)
      <3>1. checkCounted'[i] = t
        BY <1>1, <1>5, <2>3, Zenon
      <3>2. checkCounted[i] < t
        <4>1. ~(checkCounted[i] # 0 /\ checkCounted[i] <= now /\ t <= checkCounted[i])
          BY <2>3, Zenon DEF Counts
        <4>2. ASSUME NEW c \in 0..now, NEW u \in 1..now, ~(c # 0 /\ c <= now /\ u <= c)
              PROVE  c < u
          BY <1>3, <4>2
        <4> QED
          BY <1>3, <2>1, <4>1, <4>2, Zenon
      <3>3. ASSUME NEW n \in DOMAIN log, tally'[i][n] = tally[i][n]
            PROVE  /\ tally'[i][n] <= 1
                   /\ \/ tally'[i][n] = 0
                      \/ checkCounted'[i] >= log[n].ts
                      \/ now - log[n].ts > evictAge
        <4>1. checkCounted[i] >= log[n].ts => t >= log[n].ts
          <5>1. ASSUME NEW c \in 0..now, NEW u \in 1..now, NEW v \in 1..now, c < u, c >= v PROVE u >= v
            BY <1>3, <5>1
          <5> QED
            BY <1>3, <2>1, <3>2, <5>1, Zenon
        <4> QED
          BY <2>1, <3>1, <3>3, <4>1, Zenon
      <3>4. CASE now - t > evictAge
        <4>1. tally'[i] = tally[i]
          <5>1. ~(now - t <= evictAge)
            BY <1>3, <3>4
          <5> QED
            BY <1>1, <1>5, <5>1, Zenon
        <4> QED
          BY <2>1, <3>3, <4>1, Zenon
      <3>5. CASE now - t <= evictAge
        <4>1. tally'[i] = [tally[i] EXCEPT ![a.n] = @ + 1]
          BY <1>1, <1>5, <2>3, <3>5, Zenon
        <4>2. tally[i][a.n] = 0
          <5>1. ~(checkCounted[i] >= t)
            BY <1>3, <2>1, <3>2
          <5>2. ~(now - t > evictAge)
            BY <1>3, <3>5
          <5> QED
            BY <1>2, <2>1, <5>1, <5>2, Zenon
        <4>3. DOMAIN tally[i] = DOMAIN log
          BY <1>3, <2>1
        <4>4. /\ tally'[i] \in Seq(Nat) /\ Len(tally'[i]) = Len(log) /\ tally'[i][a.n] = 1
              /\ \A n \in DOMAIN log : n # a.n => tally'[i][n] = tally[i][n]
          BY <1>2, <2>1, <4>1, <4>2, <4>3
        <4>5. t >= t /\ 1 <= 1
          BY <1>3
        <4>6. ASSUME NEW n \in DOMAIN log
              PROVE  /\ tally'[i][n] <= 1
                     /\ \/ tally'[i][n] = 0
                        \/ checkCounted'[i] >= log[n].ts
                        \/ now - log[n].ts > evictAge
          <5>1. CASE n = a.n
            BY <3>1, <4>4, <4>5, <5>1, Zenon
          <5>2. CASE n # a.n
            BY <3>3, <4>4, <4>6, <5>2, Zenon
          <5> QED
            BY <5>1, <5>2, Zenon
        <4> QED
          BY <4>4, <4>6, Zenon
      <3> QED
        BY <1>3, <3>4, <3>5
    <2> QED
      BY <2>2, <2>3, Zenon
  <1>6. tally' \in [Instances -> Seq(Nat)]
    <2>1. tally' = [i \in Instances |-> tally'[i]]
      BY <1>1, Zenon
    <2> QED
      BY <1>5, <2>1
  <1> QED
    BY <1>1, <1>4, <1>5, <1>6, Zenon DEF CountsOK

\* A committed attempt is settled.
LEMMA SettleKeeps ==
    ASSUME IngestInv, NEW k \in Slots, Settle(k)
    PROVE  IngestInv'
  <1>1. Shape /\ Rest /\ CountsOK
    BY Zenon DEF IngestInv, Rest
  <1>2. /\ slot[k].pc = "settle" /\ slot' = [slot EXCEPT ![k] = NoAttempt]
        /\ now' = now /\ log' = log /\ counters' = counters /\ lock' = lock
        /\ engine' = engine /\ db' = db /\ unsure' = unsure
        /\ next' = next \/ next' = slot[k].n + 1
    BY Zenon DEF Settle
  <1>3. /\ slot'[k] = NoAttempt /\ \A m \in Slots \ {k} : slot'[m] = slot[m]
        /\ Slots \subseteq DOMAIN slot'
    BY <1>1, <1>2, Zenon DEF Shape
  <1>4. now \in Nat /\ now <= now
    BY <1>1 DEF Shape
  <1>5. Rest'
    <2>1. ASSUME NEW m \in Slots, slot'[m].pc = "process" \/ slot[m].pc = "process"
          PROVE  Same(slot'[m], slot[m])
      BY <1>2, <1>3, <2>1, NotBegun, Zenon DEF Same
    <2>2. Calm
      BY <1>2, <1>4, <2>1, Zenon DEF Calm
    <2> QED
      BY <1>1, <2>2, CalmKeeps, Zenon
  <1>6. CountsOK'
    BY <1>1, SettleCounts, Zenon
  <1>7. Shape'
    <2>1. next' \in Nat \ {0}
      <3>1. slot[k].n \in DOMAIN log /\ log \in Seq(Envelopes) /\ next \in Nat \ {0}
        BY <1>1, <1>2, Zenon DEF Shape, AttemptOK
      <3> QED
        BY <1>2, <3>1
    <2>2. ASSUME NEW m \in Slots, m # k PROVE AttemptOK(slot[m])'
      BY <1>1, <1>2, <1>3, <2>2, Zenon DEF Shape, AttemptOK
    <2>3. AttemptOK(slot[k])'
      BY <1>3, NotBegun, Zenon DEF AttemptOK
    <2>4. \A m \in Slots : AttemptOK(slot[m])'
      BY <2>2, <2>3, Zenon
    <2>5. TablesOK(db') /\ EngineOK(engine')
      BY <1>1, <1>2, Zenon DEF Shape
    <2> QED
      BY <1>1, <1>2, <1>3, <2>1, <2>4, <2>5, Zenon DEF Shape
  <1> QED
    BY <1>5, <1>6, <1>7, Zenon DEF IngestInv, Rest

\* The engine of a server that has just started knows nothing.
LEMMA NewEngineOK == EngineOK(NewEngine) /\ \A i \in Instances : NewEngine.instances[i] = NoState
  <1>1. /\ "instances" \in DOMAIN NewEngine /\ Instances \subseteq DOMAIN NewEngine.instances
        /\ \A i \in Instances : NewEngine.instances[i] = NoState
    BY DEF NewEngine
  <1> QED
    BY <1>1, NoStateOK, Zenon DEF EngineOK

\* The server restarts.
LEMMA RestartKeeps ==
    ASSUME IngestInv, ServerRestart
    PROVE  IngestInv'
  <1>1. Shape /\ Rest /\ CountsOK
    BY Zenon DEF IngestInv, Rest
  <1>2. /\ slot' = [k \in Slots |-> NoAttempt] /\ lock' = [i \in Instances |-> NoSlot]
        /\ now' = now /\ log' = log /\ counters' = counters /\ next' = next
        /\ engine' = NewEngine /\ db' = db /\ unsure' = unsure
        /\ checkCounted' = [i \in Instances |-> 0]
        /\ tally' = [i \in Instances |-> [n \in DOMAIN tally[i] |-> 0]]
    BY Zenon DEF ServerRestart
  <1>3. now \in Nat /\ now <= now /\ 0 \in 0..now
    BY <1>1 DEF Shape
  <1>4. \A k \in Slots : slot'[k] = NoAttempt
    BY <1>2, Zenon
  <1>5. Rest'
    <2>1. \A k \in Slots : slot'[k].pc # "process"
      BY <1>4, NotBegun, Zenon
    <2>2. Calm
      BY <1>2, <1>3, <2>1, NewEngineOK, Zenon DEF Calm
    <2> QED
      BY <1>1, <2>2, CalmKeeps, Zenon
  <1>6. CountsOK'
    <2>1. checkCounted' \in [Instances -> 0..now]
      BY <1>2, <1>3
    <2>2. ASSUME NEW i \in Instances
          PROVE  /\ tally'[i] \in Seq(Nat) /\ Len(tally'[i]) = Len(log)
                 /\ \A n \in DOMAIN log : tally'[i][n] = 0
      <3>1. tally[i] \in Seq(Nat) /\ Len(tally[i]) = Len(log) /\ log \in Seq(Envelopes)
        BY <1>1, <2>2, Zenon DEF Shape, CountsOK
      <3>2. tally'[i] = [n \in DOMAIN tally[i] |-> 0]
        BY <1>2, <2>2, Zenon
      <3> QED
        BY <3>1, <3>2
    <2>3. tally' \in [Instances -> Seq(Nat)]
      <3>1. tally' = [i \in Instances |-> tally'[i]]
        BY <1>2, Zenon
      <3> QED
        BY <2>2, <3>1
    <2>4. 0 <= 1
      OBVIOUS
    <2> QED
      BY <1>2, <2>1, <2>2, <2>3, <2>4, Zenon DEF CountsOK
  <1>7. Shape'
    <2>1. \A k \in Slots : AttemptOK(slot[k])'
      BY <1>4, NotBegun, Zenon DEF AttemptOK
    <2>2. TablesOK(db') /\ EngineOK(engine')
      BY <1>1, <1>2, NewEngineOK, Zenon DEF Shape
    <2>3. Slots \subseteq DOMAIN slot' /\ Instances \subseteq DOMAIN lock'
      BY <1>2, Zenon
    <2> QED
      BY <1>1, <1>2, <2>1, <2>2, <2>3, Zenon DEF Shape
  <1> QED
    BY <1>5, <1>6, <1>7, Zenon DEF IngestInv, Rest

\* Nothing has been sent.
LEMMA IngestStarts == Init => IngestInv
  <1> SUFFICES ASSUME Init PROVE IngestInv
    OBVIOUS
  <1>1. /\ now = 0 /\ log = <<>> /\ next = 1 /\ unsure = FALSE /\ engine = NewEngine
        /\ counters = [i \in Instances |-> [value |-> 1, epoch |-> 1]]
        /\ slot = [k \in Slots |-> NoAttempt] /\ lock = [i \in Instances |-> NoSlot]
        /\ checkCounted = [i \in Instances |-> 0] /\ tally = [i \in Instances |-> <<>>]
    BY Zenon DEF Init
  <1>a. /\ \A S : <<>> \in Seq(S)
        /\ Len(<<>>) = 0 /\ DOMAIN <<>> = {}
    OBVIOUS
  <1>2. /\ {"instances", "reported", "orphans", "truncations"} \subseteq DOMAIN db
        /\ \A i \in Instances : db.instances[i] = NoRow /\ db.reported[i] = ""
        /\ db.orphans = [i \in Instances |-> <<>>] /\ db.truncations = [i \in Instances |-> <<>>]
    BY Zenon DEF Init
  <1>3. "role" \in DOMAIN NoRow /\ NoRow.role = ""
    BY DEF NoRow
  <1>4. TablesOK(db)
    <2>1. db.orphans \in [Instances -> Seq(Nat \ {0})] /\ db.truncations \in [Instances -> Seq(Nat)]
      BY <1>2, <1>a, Zenon
    <2> QED
      BY <1>2, <1>3, <2>1, Zenon DEF TablesOK
  <1>5. \A k \in Slots : slot[k] = NoAttempt
    BY <1>1, Zenon
  <1>6. \A k \in Slots : AttemptOK(slot[k]) /\ slot[k].pc = "idle"
    BY <1>5, NotBegun, Zenon DEF AttemptOK
  <1>7. Shape
    <2>1. now \in Nat /\ next \in Nat \ {0} /\ unsure \in BOOLEAN
      <3>1. 0 \in Nat /\ 1 \in Nat \ {0}
        OBVIOUS
      <3> QED
        BY <1>1, <3>1, Zenon
    <2>4. counters \in [Instances -> [value : Nat, epoch : Nat]]
      <3>1. [value |-> 1, epoch |-> 1] \in [value : Nat, epoch : Nat]
        OBVIOUS
      <3> QED
        BY <1>1, <3>1, Zenon
    <2>3. log \in Seq(Envelopes) /\ DOMAIN log = {}
      BY <1>1, <1>a, Zenon
    <2>2. Instances \subseteq DOMAIN lock /\ Slots \subseteq DOMAIN slot
      BY <1>1, Zenon
    <2> QED
      BY <1>1, <1>4, <1>6, <2>1, <2>2, <2>3, <2>4, NewEngineOK, Zenon DEF Shape
  <1>8. \A i \in Instances : DOMAIN db.orphans[i] = {} /\ DOMAIN db.truncations[i] = {}
    BY <1>2, <1>a, Zenon
  <1>9. \A i \in Instances : engine.instances[i] = NoState
    BY <1>1, NewEngineOK, Zenon
  <1>10. LocksOK /\ RolesOK /\ RoleReported /\ OrphansOK /\ TruncationsOK
    <2>1. \A k \in Slots, i \in Instances : ~InFlight(k, i)
      BY <1>6, Zenon DEF InFlight
    <2>2. LocksOK
      BY <1>6, Zenon DEF LocksOK
    <2>3. RolesOK
      BY <1>9, <2>1, NoStateOK, Zenon DEF RolesOK, Remembers
    <2>4. RoleReported
      BY <1>2, <1>3, Zenon DEF RoleReported
    <2>5. OrphansOK
      BY <1>8, <2>1, Zenon DEF OrphansOK, Dated, Apart
    <2>6. TruncationsOK
      BY <1>8, Zenon DEF TruncationsOK, Apart
    <2> QED
      BY <2>2, <2>3, <2>4, <2>5, <2>6, Zenon
  <1>11. CountsOK
    <2>1. tally \in [Instances -> Seq(Nat)] /\ \A i \in Instances : Len(tally[i]) = Len(log)
      BY <1>1, <1>a, Zenon
    <2>2. checkCounted \in [Instances -> 0..now] /\ DOMAIN log = {}
      BY <1>1, <1>a
    <2> QED
      BY <2>1, <2>2, Zenon DEF CountsOK
  <1> QED
    BY <1>7, <1>10, <1>11, Zenon DEF IngestInv

\* Every step keeps the invariant.
LEMMA IngestSteps == IngestInv /\ [Next]_vars => IngestInv'
  <1> SUFFICES ASSUME IngestInv, [Next]_vars PROVE IngestInv'
    OBVIOUS
  <1>1. CASE Len(log) < MaxEnvelopes /\ \E shape \in Shapes[Len(log) + 1] : Produce(shape)
    BY <1>1, ProduceKeeps, Zenon
  <1>2. CASE \E k \in Slots : Send(k)
    BY <1>2, SendKeeps, Zenon
  <1>3. CASE \E k \in Slots : Commit(k) \/ Rollback(k) \/ CommitLost(k)
    BY <1>3, EndKeeps, Zenon
  <1>4. CASE \E k \in Slots : Settle(k)
    BY <1>4, SettleKeeps, Zenon
  <1>5. CASE \E k \in Slots, i \in Instances : ProcessInstance(k, i)
    BY <1>5, ProcessKeeps, Zenon
  <1>6. CASE SendFails
    BY <1>6, SendFailsKeeps, Zenon
  <1>7. CASE ServerRestart
    BY <1>7, RestartKeeps, Zenon
  <1>8. CASE Tick \/ TimeOut \/ (\E n \in DOMAIN log : AgentRestart(n)) \/ UNCHANGED vars
    BY <1>8, AgentKeeps, Zenon
  <1> QED
    BY <1>1, <1>2, <1>3, <1>4, <1>5, <1>6, <1>7, <1>8, Zenon DEF Next

-----------------------------------------------------------------------------
\* The inductive invariant holds: every attempt holds the locks of what it
\* applied and can undo it, and the engine agrees with the tables on all else.
THEOREM IngestInvariant == Spec => []IngestInv
  BY IngestStarts, IngestSteps, PTL DEF Spec

\* The stored role is the one the last stored role event announced (storedRole
\* under the row lock, and the deferred undos of pipeline.go), for any number
\* of overlapping attempts, replays, evictions and restarts.
THEOREM RolesAgree == Spec => []RoleReported
  <1>1. IngestInv => RoleReported
    BY Zenon DEF IngestInv
  <1> QED
    BY <1>1, IngestInvariant, PTL

\* Repeated cardinality_truncated and orphan_standby events of an instance are
\* a window apart (truncationEventDue under the row lock, and orphanedAt).
THEOREM EventsKeepDistance == Spec => []EventsSpaced
  <1>1. IngestInv => EventsSpaced
    BY Zenon DEF IngestInv, EventsSpaced, OrphansOK, TruncationsOK
  <1> QED
    BY <1>1, IngestInvariant, PTL

\* A result is counted once within the eviction age (countChecks).
THEOREM ResultsCountedOnce == Spec => []CountedOnce
  <1>1. IngestInv => CountedOnce
    <2> SUFFICES ASSUME IngestInv, NEW i \in Instances, NEW n \in DOMAIN tally[i]
                 PROVE  tally[i][n] <= 1
      BY Zenon DEF CountedOnce
    <2>1. /\ tally[i] \in Seq(Nat) /\ Len(tally[i]) = Len(log) /\ log \in Seq(Envelopes)
          /\ \A m \in DOMAIN log : tally[i][m] <= 1
      BY Zenon DEF IngestInv, Shape, CountsOK
    <2>2. DOMAIN tally[i] = DOMAIN log
      BY <2>1
    <2> QED
      BY <2>1, <2>2, Zenon
  <1> QED
    BY <1>1, IngestInvariant, PTL
=============================================================================
