---------------------------- MODULE EnginePasses ----------------------------
(***************************************************************************)
(* The alert engine: a pass's retries and its purge, a restart, the begin   *)
(* of a leader's pass, and what the evaluation of one rule does to the      *)
(* evaluator and the alerts table.                                          *)
(***************************************************************************)
EXTENDS EngineSteps

-----------------------------------------------------------------------------
\* What a pass takes up again, and a restart.

\* Forget keeps what is firing.
Remembers(new, eval) ==
    /\ new = [k \in Keys |-> new[k]]
    /\ \A k \in Keys : ShapedEpisode(new[k]) /\ (new[k].firing <=> eval[k].firing)
    /\ \A rows : (\A a \in rows : a.key \in Keys) /\ Follows(eval, rows) => Follows(new, rows)

\* Forget drops only episodes that are not firing.
LEMMA Forgotten ==
    ASSUME NEW eval, NEW new, new = Forget(eval), \A k \in Keys : ShapedEpisode(eval[k])
    PROVE  Remembers(new, eval)
  <1>1. new = [k \in Keys |-> new[k]]
    BY Zenon DEF Forget
  <1>2. ASSUME NEW k \in Keys
        PROVE  /\ ShapedEpisode(new[k]) /\ (new[k].firing <=> eval[k].firing)
               /\ eval[k].firing => new[k] = eval[k]
    <2>1. \/ new[k] = eval[k]
          \/ ~eval[k].firing /\ new[k] = NoEpisode
      BY Zenon DEF Forget
    <2>2. ShapedEpisode(NoEpisode) /\ NoEpisode.firing = FALSE
      BY DEF ShapedEpisode, NoEpisode
    <2>3. eval[k].firing \in BOOLEAN
      BY Zenon DEF ShapedEpisode
    <2> QED
      BY <2>1, <2>2, <2>3, Zenon
  <1>3. ASSUME NEW rows, \A a \in rows : a.key \in Keys, Follows(eval, rows)
        PROVE  Follows(new, rows)
    <2>1. \A a \in rows : new[a.key].firing /\ new[a.key].first = a.start
      BY <1>2, <1>3, Zenon DEF Follows
    <2>2. ASSUME NEW k \in Keys, new[k].firing
          PROVE  \E a \in rows : a.key = k /\ a.start = new[k].first
      <3>1. eval[k].firing /\ new[k] = eval[k]
        BY <1>2, <2>2, Zenon
      <3>2. PICK a \in rows : a.key = k /\ a.start = eval[k].first
        BY <1>3, <3>1, Zenon DEF Follows
      <3> QED
        BY <3>1, <3>2, Zenon
    <2> QED
      BY <2>1, <2>2, Zenon DEF Follows
  <1> QED
    BY <1>1, <1>2, <1>3, Zenon DEF Remembers

\* The ids of a queue.
LEMMA QueueIds ==
    ASSUME NEW q, Queue(q)
    PROVE  Ids(q) = {d.id : d \in In(q)}
  <1>1. DOMAIN q = 1 .. Len(q)
    BY DEF Queue
  <1> QED
    BY <1>1, Zenon DEF Ids, Range, In

\* The fields of a replica that goes on to the retries.
Onto(x, e, y, w, q) ==
    /\ e.pending = y.pending /\ e.eval = Forget(y.eval)
    /\ Fields(x) /\ x.work = w /\ x.pending = q /\ SameLeader(x, y) /\ x.pc = "retry"
    /\ x.todo = y.todo /\ x.eval = Forget(y.eval)

\* What a replica holds when it goes on to the retries.
LEMMA RetryFields ==
    ASSUME NEW y, Fields(y), NEW w, NEW q, NEW t, NEW e, e = [y EXCEPT !.eval = Forget(@)], NEW x,
           x = [e EXCEPT !.pc = "retry", !.published = FALSE, !.work = w, !.pending = q, !.purgedAt = t]
    PROVE  Onto(x, e, y, w, q)
  <1>1. /\ Fields(e) /\ SameLeader(e, y) /\ SameQueues(e, y) /\ e.pc = y.pc /\ e.todo = y.todo
        /\ e.eval = Forget(y.eval)
    BY Zenon DEF Fields, EngineFields, SameLeader, SameQueues
  <1>2. /\ Fields(x) /\ SameLeader(x, e) /\ x.work = w /\ x.pending = q /\ x.pc = "retry" /\ x.todo = e.todo
        /\ x.eval = e.eval
    BY <1>1, Zenon DEF Fields, EngineFields, SameLeader
  <1> QED
    BY <1>1, <1>2, Zenon DEF SameLeader, SameQueues, Onto

\* The purge keeps the open rows, and says which episodes it took.
LEMMA PurgeTables ==
    ASSUME NEW p, Retry(p)
    PROVE  /\ alerts' \subseteq alerts /\ Open' = Open /\ claims' \subseteq claims
           /\ purged \subseteq purged' /\ RowsLast /\ ClaimsLast
           /\ \A c \in claims : c \in claims' \/ Purged(c.id)'
  <1>1. \/ alerts' = alerts
        \/ alerts' = PurgedAlerts(now - historyRetention)
    BY Zenon DEF Retry
  <1>2. claims' = claims \/ claims' = PurgedClaims(now - historyRetention)
    BY Zenon DEF Retry
  <1>3. purged' = purged \cup {<<a.key, a.start>> : a \in alerts \ alerts'}
                         \cup {<<c.id.key, c.id.start>> : c \in claims \ claims'}
    BY Zenon DEF Retry
  <1>4. alerts' \subseteq alerts /\ \A a \in alerts : a \in alerts' \/ a.state = "resolved"
    BY <1>1, Zenon DEF PurgedAlerts
  <1>5. Open' = Open
    BY <1>4, Zenon DEF Open
  <1>6. claims' \subseteq claims
    BY <1>2, Zenon DEF PurgedClaims
  <1>7. purged \subseteq purged'
    BY <1>3, Zenon
  <1>8. \A a \in alerts : a \in alerts' \/ <<a.key, a.start>> \in purged'
    BY <1>3, Zenon
  <1>9. \A c \in claims : c \in claims' \/ <<c.id.key, c.id.start>> \in purged'
    BY <1>3, Zenon
  <1>10. \A c \in claims : c \in claims' \/ Purged(c.id)'
    BY <1>9, Zenon DEF Purged
  <1>11. RowsLast
    BY <1>8, Zenon DEF RowsLast, OnRecord, Purged
  <1>12. ClaimsLast
    BY <1>10, Zenon DEF ClaimsLast, Claimed
  <1> QED
    BY <1>4, <1>5, <1>6, <1>7, <1>10, <1>11, <1>12, Zenon

\* What Settle keeps, it keeps by the delivery's id.
KeptById(e, q, kept) ==
    /\ \A d \in In(q) : d \in In(kept) \/ \A f \in In(kept) : f.id # d.id
    /\ \A d \in In(kept) : Settled(e, d)

\* Settled looks at a delivery's id only, so a dropped one has no twin that is kept.
LEMMA SettledIds ==
    ASSUME NEW e, NEW q, Queue(q), NEW S, S = {n \in DOMAIN q : Settled(e, q[n])},
           NEW kept, In(kept) = {q[m] : m \in S}
    PROVE  KeptById(e, q, kept)
  <1>1. DOMAIN q = 1 .. Len(q)
    BY DEF Queue
  <1>3. \A d \in In(kept) : Settled(e, d)
    BY Zenon
  <1>4. ASSUME NEW d \in In(q), NEW f \in In(kept), f.id = d.id
        PROVE  d \in In(kept)
    <2>1. PICK n \in 1 .. Len(q) : d = q[n]
      BY Zenon DEF In
    <2>2. Settled(e, d)
      BY <1>3, <1>4, Zenon DEF Settled
    <2>3. n \in S
      BY <1>1, <2>1, <2>2, Zenon
    <2> QED
      BY <2>1, <2>3, Zenon
  <1> QED
    BY <1>3, <1>4, Zenon DEF KeptById

\* The claims that are left to answer for when some deliveries are dropped.
Fewer(w, r, kept, q, G, H) ==
    /\ Held(w, r) \subseteq Held(<<>>, q) /\ Holds(w, r, H) \subseteq Holds(<<>>, q, G)
    /\ Held(w, r) = {d.id : d \in In(kept)} /\ Held(<<>>, q) = {d.id : d \in In(q)}
    /\ (\A d \in In(q) : d \in In(kept) \/ \A f \in In(kept) : f.id # d.id) =>
          \A id \in Owned(<<>>, q) : id \in Owned(w, r) \/ id \in Held(<<>>, q) \ Held(w, r)

\* Dropping deliveries leaves fewer ids and claims to answer for.
LEMMA FewerDeliveries ==
    ASSUME NEW q, NEW r, NEW w, NEW kept, Memory(w, r) = In(kept), In(kept) \subseteq In(q), NEW G, NEW H, G \subseteq H
    PROVE  Fewer(w, r, kept, q, G, H)
  <1>1. Memory(<<>>, q) = In(q)
    BY EmptyQueue, Zenon DEF Memory
  <1>2. Held(w, r) = {d.id : d \in In(kept)} /\ Held(<<>>, q) = {d.id : d \in In(q)}
    BY <1>1, Zenon DEF Held
  <1>3. Held(w, r) \subseteq Held(<<>>, q)
    BY <1>2, Zenon
  <1>4. \A id : Gone(id, G) => Gone(id, H)
    BY Zenon DEF Gone
  <1>5. Holds(w, r, H) \subseteq Holds(<<>>, q, G)
    BY <1>1, <1>4, Zenon DEF Holds
  <1>6. ASSUME \A d \in In(q) : d \in In(kept) \/ \A f \in In(kept) : f.id # d.id, NEW id \in Owned(<<>>, q)
        PROVE  id \in Owned(w, r) \/ id \in Held(<<>>, q) \ Held(w, r)
    <2>1. PICK d \in In(q) : d.id = id /\ (d.claimed \/ d.retry)
      BY <1>1, Zenon DEF Owned
    <2>2. CASE d \in In(kept)
      BY <2>1, <2>2, Zenon DEF Owned
    <2>3. CASE \A f \in In(kept) : f.id # d.id
      BY <1>2, <2>1, <2>3, Zenon
    <2> QED
      BY <1>6, <2>2, <2>3, Zenon
  <1> QED
    BY <1>2, <1>3, <1>5, <1>6, Zenon DEF Fewer

\* A purge that takes more episodes leaves fewer claims to keep apart.
LEMMA SingleStays ==
    ASSUME NEW w, NEW r, NEW G, NEW H, G \subseteq H, Single(w, r, G)
    PROVE  Single(w, r, H)
  <1>1. \A d, f : Apart(d, f, G) => Apart(d, f, H)
    BY Zenon DEF Apart, Gone
  <1> QED
    BY <1>1, Zenon DEF Single

\* What a replica has in its queues when it goes on to the retries.
Retries(p, x) ==
    LET q == proc[p].pending
    IN  /\ Queue(x.work) /\ Queue(x.pending) /\ Single(x.work, x.pending, purged)
        /\ Held(x.work, x.pending) \subseteq Held(<<>>, q)
        /\ \A H : purged \subseteq H => Holds(x.work, x.pending, H) \subseteq Holds(<<>>, q, purged)
        /\ \A id \in Owned(<<>>, q) : id \in Owned(x.work, x.pending) \/ id \in excused'
        /\ \A id \in Held(<<>>, q) : id \in Held(x.work, x.pending) \/ id \in excused'
        /\ \A d \in In(x.work) : Settled(x, d)

\* Retry keeps the deliveries apart, and excuses each one it drops.
LEMMA RetryMemory ==
    ASSUME Ranks, EngineInv, NEW p \in Procs, Retry(p)
    PROVE  \E x : /\ proc' = [proc EXCEPT ![p] = x] /\ Fields(x) /\ SameLeader(x, proc[p]) /\ x.pc = "retry"
                  /\ x.todo = proc[p].todo /\ x.eval = Forget(proc[p].eval) /\ Retries(p, x)
  <1> DEFINE y == proc[p]
             e == [y EXCEPT !.eval = Forget(@)]
             S == {n \in DOMAIN e.pending : Settled(e, e.pending[n])}
             kept == At(e.pending, S)
             w == At(kept, {n \in DOMAIN kept : ~kept[n].fresh})
             r == At(kept, {n \in DOMAIN kept : kept[n].fresh})
             t == IF e.purgedAt < 0 \/ now - e.purgedAt >= purgeInterval THEN now ELSE e.purgedAt
             x == [e EXCEPT !.pc = "retry", !.published = FALSE, !.work = w, !.pending = r, !.purgedAt = t]
  <1>1. proc' = [proc EXCEPT ![p] = x] /\ excused' = excused \cup (Ids(e.pending) \ Ids(kept))
    BY Zenon DEF Retry
  <1>2. ShapedEngine(y) /\ Single(y.work, y.pending, purged)
    BY Zenon DEF EngineInv, AlertsShape, ClaimInv
  <1>3. Queue(y.pending) /\ \A m, n \in 1 .. Len(y.pending) : m # n => Apart(y.pending[m], y.pending[n], purged)
    BY <1>2, Zenon DEF ShapedEngine, Single
  <1>4. /\ e.pending = y.pending /\ e.eval = Forget(y.eval)
        /\ Fields(x) /\ x.work = w /\ x.pending = r /\ SameLeader(x, y) /\ x.pc = "retry"
        /\ x.todo = y.todo /\ x.eval = Forget(y.eval)
    <2>1. Fields(y)
      BY <1>2, Zenon DEF ShapedEngine
    <2>2. e = [y EXCEPT !.eval = Forget(@)]
      BY Zenon
    <2>3. x = [e EXCEPT !.pc = "retry", !.published = FALSE, !.work = w, !.pending = r, !.purgedAt = t]
      BY Zenon
    <2> HIDE DEF y, e, w, r, t, x
    <2>4. Onto(x, e, y, w, r)
      BY <2>1, <2>2, <2>3, RetryFields, Zenon
    <2> QED
      BY <2>4, Zenon DEF Onto
  <1> DEFINE q == y.pending
  <1>5. S = {n \in DOMAIN q : Settled(e, q[n])} /\ kept = At(q, S)
    BY <1>4, Zenon
  <1>6. w = At(kept, {n \in DOMAIN kept : ~kept[n].fresh}) /\ r = At(kept, {n \in DOMAIN kept : kept[n].fresh})
    BY Zenon
  <1>7. Queue(q) /\ \A m, n \in 1 .. Len(q) : m # n => Apart(q[m], q[n], purged)
    BY <1>3, Zenon
  <1>8. Ids(e.pending) = Ids(q)
    BY <1>4, Zenon
  <1>q. q = proc[p].pending
    BY Zenon
  <1> HIDE DEF x, e, w, r, t, S, kept, q, y
  <1>9. S \in SUBSET (1 .. Len(q))
    <2>1. DOMAIN q = 1 .. Len(q)
      BY <1>7 DEF Queue
    <2> QED
      BY <1>5, <2>1, Zenon
  <1>10. /\ Queue(w) /\ Queue(r) /\ Single(w, r, purged)
         /\ Memory(w, r) = In(kept) /\ In(kept) = {q[m] : m \in S} /\ In(kept) \subseteq In(q)
    <2>1. Split(q, S, kept, w, r, purged)
      BY <1>5, <1>6, <1>7, <1>9, RetryQueues, Zenon
    <2> QED
      BY <2>1, Zenon DEF Split
  <1>11. /\ \A d \in In(q) : d \in In(kept) \/ \A f \in In(kept) : f.id # d.id
         /\ \A d \in In(kept) : Settled(e, d)
    <2>1. KeptById(e, q, kept)
      BY <1>5, <1>7, <1>10, SettledIds, Zenon
    <2> QED
      BY <2>1, Zenon DEF KeptById
  <1>12. /\ Held(w, r) \subseteq Held(<<>>, q)
         /\ Held(w, r) = {d.id : d \in In(kept)} /\ Held(<<>>, q) = {d.id : d \in In(q)}
         /\ \A id \in Owned(<<>>, q) : id \in Owned(w, r) \/ id \in Held(<<>>, q) \ Held(w, r)
    <2>1. Fewer(w, r, kept, q, purged, purged)
      BY <1>10, FewerDeliveries, Zenon
    <2> QED
      BY <1>11, <2>1, Zenon DEF Fewer
  <1>13. \A H : purged \subseteq H => Holds(w, r, H) \subseteq Holds(<<>>, q, purged)
    <2>1. \A H : purged \subseteq H => Fewer(w, r, kept, q, purged, H)
      BY <1>10, FewerDeliveries, Zenon
    <2> QED
      BY <2>1, Zenon DEF Fewer
  <1>14. Ids(q) = Held(<<>>, q)
    BY <1>7, <1>12, QueueIds, Zenon
  <1>15. Ids(kept) = Held(w, r)
    <2>1. Queue(kept)
      BY <1>5, <1>7, <1>9, AtQueue, Zenon
    <2> QED
      BY <1>12, <2>1, QueueIds, Zenon
  <1>16. Held(<<>>, q) \ Held(w, r) \subseteq excused'
    BY <1>1, <1>8, <1>14, <1>15, Zenon
  <1>17. \A d \in In(w) : Settled(x, d)
    <2>1. In(w) \subseteq In(kept)
      BY <1>10, Zenon DEF Memory
    <2> QED
      BY <1>4, <1>11, <2>1, Zenon DEF Settled
  <1>18. Retries(p, x)
    <2>1. /\ Queue(x.work) /\ Queue(x.pending) /\ Single(x.work, x.pending, purged)
          /\ Held(x.work, x.pending) \subseteq Held(<<>>, q) /\ \A d \in In(x.work) : Settled(x, d)
      BY <1>4, <1>10, <1>12, <1>17, Zenon
    <2>2. \A H : purged \subseteq H => Holds(x.work, x.pending, H) \subseteq Holds(<<>>, q, purged)
      BY <1>4, <1>13, Zenon
    <2>3. \A id \in Owned(<<>>, q) : id \in Owned(x.work, x.pending) \/ id \in excused'
      BY <1>4, <1>12, <1>16, Zenon
    <2>4. \A id \in Held(<<>>, q) : id \in Held(x.work, x.pending) \/ id \in excused'
      BY <1>4, <1>16, Zenon
    <2> QED
      BY <1>q, <2>1, <2>2, <2>3, <2>4, Zenon DEF Retries
  <1> QED
    <2>1. y = proc[p]
      BY DEF y
    <2> QED
      BY <1>1, <1>4, <1>18, <2>1, Zenon

\* The retries.
LEMMA RetryStep ==
    ASSUME Ranks, EngineInv, NEW p \in Procs, Retry(p) PROVE EngineInv'
  <1> DEFINE y == proc[p]
  <1>1. /\ y.work = <<>> /\ y.pc = "rules" /\ excused \subseteq excused'
        /\ UNCHANGED <<holder, inbox, blurred, announced, unrecorded, overlapped, unsure>>
    <2>1. Fields(y)
      BY Zenon DEF EngineInv, AlertsShape, ShapedEngine
    <2>2. [y EXCEPT !.eval = Forget(@)].work = y.work /\ [y EXCEPT !.eval = Forget(@)].pc = y.pc
      BY <2>1, Zenon DEF Fields, EngineFields
    <2> QED
      BY <2>2, Zenon DEF Retry
  <1>2. PICK x : /\ proc' = [proc EXCEPT ![p] = x] /\ Fields(x) /\ SameLeader(x, y) /\ x.pc = "retry"
                 /\ x.todo = y.todo /\ x.eval = Forget(y.eval) /\ Retries(p, x)
    BY RetryMemory, Zenon
  <1>3. /\ alerts' \subseteq alerts /\ Open' = Open /\ claims' \subseteq claims
        /\ purged \subseteq purged' /\ RowsLast /\ ClaimsLast
        /\ \A c \in claims : c \in claims' \/ Purged(c.id)'
    BY PurgeTables, Zenon
  <1>4. ShapedEngine(y) /\ (\A a \in Open : a.key \in Keys)
    BY Zenon DEF EngineInv, AlertsShape, Open, ShapedRow
  <1>5. /\ x.eval = [k \in Keys |-> x.eval[k]]
        /\ \A k \in Keys : ShapedEpisode(x.eval[k]) /\ (x.eval[k].firing <=> y.eval[k].firing)
        /\ Follows(y.eval, Open) => Follows(x.eval, Open)
    <2>1. \A k \in Keys : ShapedEpisode(y.eval[k])
      BY <1>4, Zenon DEF ShapedEngine
    <2>2. Remembers(x.eval, y.eval)
      BY <1>2, <2>1, Forgotten, Zenon
    <2> QED
      BY <1>4, <2>2, Zenon DEF Remembers
  <1>6. proc'[p] = x /\ Others(p) /\ proc' = [q \in Procs |-> proc'[q]]
    BY <1>2, OneReplica, Zenon DEF EngineInv
  <1>7. ShapedEngine(x)
    <2>1. y.pc # "idle"
      BY <1>1
    <2>2. x.pc # "idle"
      BY <1>2
    <2> QED
      BY <1>2, <1>4, <1>5, <2>1, <2>2, Zenon DEF ShapedEngine, SameLeader, Retries
  <1>8. AlertsShape'
    BY <1>1, <1>3, <1>6, <1>7, ShapeKept, Zenon DEF EngineInv, AlertsShape
  <1>9. LockInv'
    BY <1>1, <1>2, <1>6, LockKept, Zenon DEF SameLeader, EngineInv
  <1>10. LeaderInv'
    <2>1. ~Idle(p)
      BY <1>1 DEF Idle
    <2>2. Current(x)
      BY <1>2, Zenon DEF Retries, Settled, Current
    <2>3. LeaderInv /\ Nobody \notin Procs
      BY AlertsAssumption, Zenon DEF EngineInv
    <2>4. proc'[p].loaded => y.loaded /\ (Follows(y.eval, Open) => Follows(proc'[p].eval, Open))
      BY <1>2, <1>5, <1>6, Zenon DEF SameLeader
    <2>5. Current(proc'[p]) /\ holder' \in {holder, Nobody} /\ overlapped' = overlapped /\ unsure' = unsure
      BY <1>1, <1>6, <2>2, Zenon
    <2>6. Open' = Open /\ Others(p) /\ (Idle(p) => Idle(p)')
      BY <1>3, <1>6, <2>1, Zenon
    <2> QED
      BY <2>3, <2>4, <2>5, <2>6, LeaderKept, Zenon
  <1>11. /\ HeldBy(p) = Held(<<>>, y.pending) /\ OwnedBy(p) = Owned(<<>>, y.pending)
         /\ HoldsOf(p) = Holds(<<>>, y.pending, purged)
    BY <1>1, Zenon DEF HeldBy, OwnedBy, HoldsOf
  <1>12. /\ HeldBy(p)' = Held(x.work, x.pending) /\ OwnedBy(p)' = Owned(x.work, x.pending)
         /\ HoldsOf(p)' = Holds(x.work, x.pending, purged')
    BY <1>6, Zenon DEF HeldBy, OwnedBy, HoldsOf
  <1>13. /\ HeldBy(p)' \subseteq HeldBy(p) /\ HoldsOf(p)' \subseteq HoldsOf(p)
         /\ \A id \in OwnedBy(p) : id \in OwnedBy(p)' \/ id \in excused'
         /\ \A id \in HeldBy(p) : id \in HeldBy(p)' \/ id \in excused'
    BY <1>2, <1>3, <1>11, <1>12, Zenon DEF Retries
  <1>14. ClaimInv'
    <2>1. Single(proc'[p].work, proc'[p].pending, purged')
      BY <1>2, <1>3, <1>6, SingleStays, Zenon DEF Retries
    <2>2. ClaimInv /\ inbox' = inbox /\ blurred' = blurred
      BY <1>1, Zenon DEF EngineInv
    <2> QED
      BY <1>3, <1>6, <1>13, <2>1, <2>2, ClaimKept, Zenon
  <1>15. RecordInv'
    <2>1. RecordInv /\ \A c \in Range(Channels) : In(inbox'[c]) \subseteq In(inbox[c]) \cup HeldBy(p)
      BY <1>1, Zenon DEF EngineInv
    <2> QED
      BY <1>3, <1>6, <1>13, <2>1, RecordKept, Zenon
  <1>16. AnswerInv'
    <2>1. AnswerInv /\ inbox' = inbox /\ announced' = announced
      BY <1>1, Zenon DEF EngineInv
    <2>2. \A id \in OwnedBy(p) : id \in OwnedBy(p)' \/ Closed(id)'
      BY <1>13, Zenon DEF Closed
    <2>3. \A id : Failed(id) => Answered(id)' \/ Purged(id)'
      BY <1>3, Zenon DEF Failed, Answered
    <2>4. \A c \in claims' : Claimed(c.id) \/ Answered(c.id)'
      BY <1>3, Zenon DEF Claimed
    <2>5. \A c \in claims : In(inbox[c.id.channel]) \subseteq In(inbox'[c.id.channel])
      BY <2>1, Zenon
    <2>6. \A id \in announced' : id \in announced \/ id \in HeldBy(p)'
      BY <2>1, Zenon
    <2>7. \A id \in HeldBy(p) : id \in HeldBy(p)' \/ id \in excused' \/ Claimed(id)' \/ Purged(id)'
      BY <1>13, Zenon
    <2> QED
      BY <1>1, <1>3, <1>6, <2>1, <2>2, <2>3, <2>4, <2>5, <2>6, <2>7, AnswerKept, Zenon
  <1> QED
    BY <1>8, <1>9, <1>10, <1>14, <1>15, <1>16, Zenon DEF EngineInv

\* The ids of the two queues of a replica.
LEMMA JoinedIds ==
    ASSUME NEW w, NEW q, Queue(w), Queue(q)
    PROVE  Ids(w \o q) = Held(w, q)
  <1>1. Len(w) \in Nat /\ Len(q) \in Nat /\ DOMAIN (w \o q) = 1 .. Len(w) + Len(q)
    BY DEF Queue
  <1>2. \A n \in 1 .. Len(w) : n \in DOMAIN (w \o q) /\ (w \o q)[n] = w[n]
    BY <1>1 DEF Queue
  <1>3. \A n \in 1 .. Len(q) : Len(w) + n \in DOMAIN (w \o q) /\ (w \o q)[Len(w) + n] = q[n]
    BY <1>1 DEF Queue
  <1>4. \A n \in DOMAIN (w \o q) : \/ n \in 1 .. Len(w)
                                   \/ \E m \in 1 .. Len(q) : n = Len(w) + m
    <2> TAKE n \in DOMAIN (w \o q)
    <2>1. CASE n <= Len(w)
      BY <1>1, <2>1
    <2>2. CASE ~(n <= Len(w))
      <3>1. n - Len(w) \in 1 .. Len(q) /\ n = Len(w) + (n - Len(w))
        BY <1>1, <2>2
      <3> QED
        BY <3>1, Zenon
    <2> QED
      BY <2>1, <2>2
  <1>5. Range(w \o q) = {(w \o q)[n] : n \in DOMAIN (w \o q)}
    BY Zenon DEF Range
  <1>6. Range(w \o q) \subseteq Memory(w, q)
    <2>1. \A n \in 1 .. Len(w) : w[n] \in Memory(w, q)
      BY Zenon DEF Memory, In
    <2>2. \A m \in 1 .. Len(q) : q[m] \in Memory(w, q)
      BY Zenon DEF Memory, In
    <2>3. \A n \in DOMAIN (w \o q) : (w \o q)[n] \in Memory(w, q)
      <3> TAKE n \in DOMAIN (w \o q)
      <3>1. CASE n \in 1 .. Len(w)
        BY <1>2, <2>1, <3>1
      <3>2. CASE \E m \in 1 .. Len(q) : n = Len(w) + m
        BY <1>3, <2>2, <3>2
      <3> QED
        BY <1>4, <3>1, <3>2
    <2> QED
      BY <1>5, <2>3, Zenon
  <1>7. Memory(w, q) \subseteq Range(w \o q)
    <2>1. \A n \in 1 .. Len(w) : w[n] \in Range(w \o q)
      BY <1>2, <1>5, Zenon
    <2>2. \A n \in 1 .. Len(q) : q[n] \in Range(w \o q)
      BY <1>3, <1>5, Zenon
    <2> QED
      BY <2>1, <2>2, Zenon DEF Memory, In
  <1>8. Range(w \o q) = Memory(w, q)
    BY <1>6, <1>7, Zenon
  <1> QED
    BY <1>8, Zenon DEF Ids, Held

\* A replica that starts.
LEMMA NewForm == Fields(NewEngine)
  <1>1. DOMAIN NewEngine = EngineFields
    BY DEF NewEngine, EngineFields
  <1>2. NewEngine = [f \in DOMAIN NewEngine |-> NewEngine[f]]
    BY Zenon DEF NewEngine
  <1> QED
    BY <1>1, <1>2, Zenon DEF Fields

\* A replica that starts has its shape, and holds nothing.
LEMMA NewFields ==
    ASSUME NEW t, NEW x, x = [NewEngine EXCEPT !.ranAt = t]
    PROVE  ShapedEngine(x) /\ x.work = <<>> /\ x.pending = <<>> /\ ~x.hasLock /\ ~x.loaded /\ x.pc = "idle"
  <1>1. NewEngine = [f \in EngineFields |-> NewEngine[f]]
    BY NewForm, Zenon DEF Fields
  <1>2. /\ NewEngine.work = <<>> /\ NewEngine.pending = <<>> /\ NewEngine.hasLock = FALSE
        /\ NewEngine.loaded = FALSE /\ NewEngine.pc = "idle" /\ NewEngine.todo = <<>>
        /\ NewEngine.eval = [k \in Keys |-> NoEpisode]
    BY Zenon DEF NewEngine
  <1>3. /\ Fields(x) /\ x.work = <<>> /\ x.pending = <<>> /\ x.hasLock = FALSE /\ x.loaded = FALSE
        /\ x.pc = "idle" /\ x.todo = <<>> /\ x.eval = [k \in Keys |-> NoEpisode]
    BY <1>1, <1>2, Zenon DEF Fields, EngineFields
  <1>4. ShapedEpisode(NoEpisode) /\ ~NoEpisode.firing
    BY DEF ShapedEpisode, NoEpisode
  <1>5. x.eval = [k \in Keys |-> x.eval[k]] /\ \A k \in Keys : ShapedEpisode(x.eval[k]) /\ ~x.eval[k].firing
    BY <1>3, <1>4, Zenon
  <1>6. x.todo \in Seq(Keys)
    <2>1. <<>> \in Seq(Keys)
      OBVIOUS
    <2> QED
      BY <1>3, <2>1, Zenon
  <1>7. x.hasLock \in BOOLEAN /\ x.loaded \in BOOLEAN
    BY <1>3, Zenon
  <1> QED
    BY <1>3, <1>5, <1>6, <1>7, EmptyQueue, Zenon DEF ShapedEngine

\* A restart.
LEMMA RestartStep ==
    ASSUME EngineInv, NEW p \in Procs, Restart(p) PROVE EngineInv'
  <1> DEFINE y == proc[p]
  <1>1. PICK x : x = [NewEngine EXCEPT !.ranAt = y.ranAt]
    BY Zenon
  <1>2. /\ proc' = [proc EXCEPT ![p] = x] /\ holder' = IF holder = p THEN Nobody ELSE holder
        /\ excused' = excused \cup Ids(y.work \o y.pending)
        /\ UNCHANGED <<alerts, claims, inbox, blurred, announced, unrecorded, purged, overlapped, unsure>>
    BY <1>1, Zenon DEF Restart
  <1>3. ShapedEngine(x) /\ x.work = <<>> /\ x.pending = <<>> /\ ~x.hasLock /\ ~x.loaded /\ x.pc = "idle"
    BY <1>1, NewFields, Zenon
  <1>4. proc'[p] = x /\ Others(p) /\ proc' = [q \in Procs |-> proc'[q]]
    BY <1>2, OneReplica, Zenon DEF EngineInv
  <1>5. ShapedEngine(y) /\ Nobody \notin Procs
    BY AlertsAssumption, Zenon DEF EngineInv, AlertsShape
  <1>6. excused' = excused \cup HeldBy(p)
    <2>1. Ids(y.work \o y.pending) = Held(y.work, y.pending)
      BY <1>5, JoinedIds, Zenon DEF ShapedEngine
    <2> QED
      BY <1>2, <2>1, Zenon DEF HeldBy
  <1>7. /\ alerts' = alerts /\ claims' = claims /\ inbox' = inbox /\ blurred' = blurred
        /\ announced' = announced /\ unrecorded' = unrecorded /\ purged' = purged
        /\ overlapped' = overlapped /\ unsure' = unsure /\ Open' = Open
    BY <1>2, Zenon DEF Open
  <1>8. AlertsShape'
    BY <1>3, <1>4, <1>7, ShapeKept, Zenon DEF EngineInv, AlertsShape
  <1>9. LockInv'
    <2>1. \A q \in Procs \ {p} : holder' = q <=> holder = q
      BY <1>2, <1>5, Zenon
    <2>2. holder' # p
      BY <1>2, <1>5, Zenon
    <2> QED
      BY <1>3, <1>4, <2>1, <2>2, Zenon DEF LockInv, Others, EngineInv
  <1>10. LeaderInv'
    <2>1. Current(proc'[p]) /\ Idle(p)' /\ ~proc'[p].loaded
      BY <1>3, <1>4, EmptyQueue, Zenon DEF Current, Idle
    <2>2. LeaderInv /\ holder' \in {holder, Nobody}
      BY <1>2, Zenon DEF EngineInv
    <2> QED
      BY <1>4, <1>5, <1>7, <2>1, <2>2, LeaderKept, Zenon
  <1>11. Memory(<<>>, <<>>) = {}
    BY EmptyQueue, Zenon DEF Memory
  <1>12. HeldBy(p)' = {} /\ HoldsOf(p)' = {}
    BY <1>3, <1>4, <1>11, Zenon DEF HeldBy, HoldsOf, Held, Holds
  <1>13. ClaimsLast /\ RowsLast
    BY <1>7, Zenon DEF ClaimsLast, RowsLast, Claimed, OnRecord
  <1>14. Single(proc'[p].work, proc'[p].pending, purged')
    <2>1. 1 .. Len(<<>>) = {}
      OBVIOUS
    <2> QED
      BY <1>3, <1>4, <2>1, EmptyQueue, Zenon DEF Single
  <1>15. ClaimInv'
    BY <1>4, <1>7, <1>12, <1>13, <1>14, ClaimKept, Zenon DEF EngineInv
  <1>16. RecordInv'
    BY <1>4, <1>7, <1>12, <1>13, RecordKept, Zenon DEF EngineInv
  <1>17. AnswerInv'
    <2>1. OwnedBy(p) \subseteq HeldBy(p)
      BY Zenon DEF OwnedBy, HeldBy, Owned, Held
    <2>2. \A id \in OwnedBy(p) : id \in OwnedBy(p)' \/ Closed(id)'
      BY <1>6, <2>1, Zenon DEF Closed
    <2>3. \A id : Failed(id) => Answered(id)' \/ Purged(id)'
      BY <1>7, Zenon DEF Failed, Answered
    <2>4. \A c \in claims' : Claimed(c.id) \/ Answered(c.id)'
      BY <1>7, Zenon DEF Claimed
    <2>5. \A c \in claims : In(inbox[c.id.channel]) \subseteq In(inbox'[c.id.channel])
      BY <1>7, Zenon
    <2>6. \A id \in announced' : id \in announced \/ id \in HeldBy(p)'
      BY <1>7, Zenon
    <2>7. /\ \A id \in HeldBy(p) : id \in HeldBy(p)' \/ id \in excused' \/ Claimed(id)' \/ Purged(id)'
          /\ excused \subseteq excused' /\ unrecorded \subseteq unrecorded' /\ purged \subseteq purged'
      BY <1>6, <1>7, Zenon
    <2>8. AnswerInv
      BY Zenon DEF EngineInv
    <2> QED
      BY <1>4, <1>13, <2>2, <2>3, <2>4, <2>5, <2>6, <2>7, <2>8, AnswerKept, Zenon
  <1> QED
    BY <1>8, <1>9, <1>10, <1>15, <1>16, <1>17, Zenon DEF EngineInv

-----------------------------------------------------------------------------
\* The start of a pass.

\* The times in the table.
ClockInv == now \in Nat /\ \A a \in alerts : a.at \in Nat

\* The clock moves by one, and a row is written with the time of the step.
LEMMA Rows ==
    ASSUME [Next]_vars
    PROVE  /\ now' \in {now, now + 1}
           /\ \A a \in alerts' : a \in alerts \/ a.at = now
  <1>1. CASE UNCHANGED vars
    BY <1>1, Zenon DEF vars
  <1>2. ASSUME NEW what, Pass(what)
        PROVE  now' = now + 1 /\ alerts' = alerts
    BY <1>2, Zenon DEF Pass
  <1>3. ASSUME NEW p \in Procs, NEW store, EvalRule(p, store)
        PROVE  now' = now /\ \A a \in alerts' : a \in alerts \/ a.at = now
    <2> DEFINE r == Head(proc[p].todo)
               out == Evaluated(r, proc[p].live, proc[p].eval[r])
               state == IF out.transition = "resolved" THEN "resolved" ELSE "firing"
    <2>1. now' = now /\ (alerts' = alerts \/ alerts' = Upserted(r, out.start, state))
      BY <1>3, Zenon DEF EvalRule
    <2> HIDE DEF r, out, state
    <2>2. \A a \in Upserted(r, out.start, state) :
              a \in alerts \/ a = [key |-> r, start |-> out.start, state |-> state, at |-> now]
      BY Zenon DEF Upserted
    <2>3. [key |-> r, start |-> out.start, state |-> state, at |-> now].at = now
      BY Zenon
    <2> QED
      BY <2>1, <2>2, <2>3, Zenon
  <1>4. ASSUME NEW p \in Procs, Retry(p)
        PROVE  now' = now /\ alerts' \subseteq alerts
    <2>1. now' = now /\ (alerts' = alerts \/ alerts' = PurgedAlerts(now - historyRetention))
      BY <1>4, Zenon DEF Retry
    <2> QED
      BY <2>1, Zenon DEF PurgedAlerts
  <1>5. ASSUME NEW p \in Procs, NEW ends, Begin(p, ends)
        PROVE  now' = now /\ alerts' = alerts
    BY <1>5, Zenon DEF Begin
  <1>6. ASSUME NEW p \in Procs, NEW sent, NEW marked, Send(p, sent, marked)
        PROVE  now' = now /\ alerts' = alerts
    BY <1>6, Zenon DEF Send
  <1>7. ASSUME NEW p \in Procs, NEW lost, ClaimFails(p, lost)
        PROVE  now' = now /\ alerts' = alerts
    BY <1>7, Zenon DEF ClaimFails
  <1>8. ASSUME NEW p \in Procs, SampleFails(p) \/ CutShort(p) \/ NotWon(p) \/ ClaimWins(p) \/ Deferred(p)
        PROVE  now' = now /\ alerts' = alerts
    BY <1>8, Zenon DEF SampleFails, CutShort, NotWon, ClaimWins, Deferred
  <1>9. ASSUME NEW p \in Procs, EndPass(p) \/ Expire(p) \/ LoseSession(p) \/ Restart(p)
        PROVE  now' = now /\ alerts' = alerts
    BY <1>9, Zenon DEF EndPass, Expire, LoseSession, Restart
  <1> QED
    BY <1>1, <1>2, <1>3, <1>4, <1>5, <1>6, <1>7, <1>8, <1>9, Zenon DEF Next

\* So the times stay times.
LEMMA ClockStep ==
    ASSUME ClockInv, [Next]_vars
    PROVE  ClockInv'
  <1>1. now' \in {now, now + 1} /\ \A a \in alerts' : a \in alerts \/ a.at = now
    BY Rows, Zenon
  <1>2. now' \in Nat
    BY <1>1 DEF ClockInv
  <1> QED
    BY <1>1, <1>2, Zenon DEF ClockInv

\* The restored evaluator agrees with the table.
Fits(new) ==
    /\ new = [k \in Keys |-> new[k]] /\ \A k \in Keys : ShapedEpisode(new[k])
    /\ (\A a, b \in Open : a.key = b.key => a = b) => Follows(new, Open)

\* Restore: a new leader's evaluator agrees with the open rows, when no two of them
\* have the same key.
LEMMA RestoredFollows ==
    ASSUME NEW e, ~e.loaded, e.eval = [k \in Keys |-> e.eval[k]],
           \A k \in Keys : ShapedEpisode(e.eval[k]) /\ ~e.eval[k].firing,
           NEW new, new = Restored(e), \A a \in alerts : ShapedRow(a), ClockInv
    PROVE  Fits(new)
  <1> DEFINE rows(k) == {a \in Open : a.key = k}
             row(k) == CHOOSE a \in rows(k) : \A b \in rows(k) : a.at <= b.at
  <1>1. new = [k \in Keys |-> IF rows(k) = {} THEN e.eval[k] ELSE Restore(row(k))]
    BY DEF Restored
  <1>2. new = [k \in Keys |-> new[k]]
    BY <1>1, Zenon
  <1>3. \A k \in Keys : new[k] = IF rows(k) = {} THEN e.eval[k] ELSE Restore(row(k))
    BY <1>1, Zenon
  <1> HIDE DEF row
  <1>4. ASSUME NEW a
        PROVE  /\ ShapedEpisode(Restore(a)) /\ Restore(a).first = a.start
               /\ Restore(a).firing <=> a.state = "firing"
    <2>1. ASSUME NEW b \in BOOLEAN, b = (a.state = "firing")
          PROVE  Restore(a) = [first |-> a.start, seen |-> now, firing |-> b]
      BY <2>1, Zenon DEF Restore
    <2>2. PICK b \in BOOLEAN : b = (a.state = "firing")
      BY Zenon
    <2>3. Restore(a) = [first |-> a.start, seen |-> now, firing |-> b]
      BY <2>1, <2>2, Zenon
    <2>4. Restore(a).first = a.start /\ Restore(a).seen = now /\ Restore(a).firing = b
      BY <2>3
    <2>5. Restore(a) = [first |-> Restore(a).first, seen |-> Restore(a).seen, firing |-> Restore(a).firing]
      BY <2>3, <2>4, Zenon
    <2>6. Restore(a).firing <=> a.state = "firing"
      BY <2>2, <2>4, Zenon
    <2> QED
      BY <2>2, <2>4, <2>5, <2>6, Zenon DEF ShapedEpisode
  <1>5. \A k \in Keys : ShapedEpisode(new[k])
    BY <1>3, <1>4, Zenon
  <1>6. ASSUME \A a, b \in Open : a.key = b.key => a = b
        PROVE  Follows(new, Open)
    <2>1. ASSUME NEW a \in Open
          PROVE  rows(a.key) = {a} /\ row(a.key) = a /\ a.key \in Keys /\ Restore(a).firing
      <3>1. rows(a.key) = {a}
        BY <1>6, Zenon
      <3>2. a \in alerts /\ a.state # "resolved" /\ ShapedRow(a) /\ a.at \in Nat
        BY Zenon DEF Open, ClockInv
      <3>3. a.at <= a.at
        BY <3>2
      <3>4. row(a.key) = a
        <4>1. \E f \in rows(a.key) : \A b \in rows(a.key) : f.at <= b.at
          BY <3>1, <3>3, Zenon
        <4>2. row(a.key) \in rows(a.key)
          BY <4>1, Zenon DEF row
        <4> QED
          BY <3>1, <4>2, Zenon
      <3>5. a.state = "firing" /\ a.key \in Keys
        BY <3>2, Zenon DEF ShapedRow
      <3> QED
        BY <1>4, <3>1, <3>4, <3>5, Zenon
    <2>2. ASSUME NEW a \in Open PROVE new[a.key] = Restore(a)
      BY <1>3, <2>1, Zenon
    <2>3. \A a \in Open : new[a.key].firing /\ new[a.key].first = a.start
      BY <1>4, <2>1, <2>2, Zenon
    <2>4. ASSUME NEW k \in Keys, new[k].firing
          PROVE  \E a \in Open : a.key = k /\ a.start = new[k].first
      <3>1. rows(k) # {}
        BY <1>3, <2>4, Zenon
      <3>2. PICK a \in Open : a.key = k
        BY <3>1, Zenon
      <3> QED
        BY <2>3, <3>2, Zenon
    <2> QED
      BY <2>3, <2>4, Zenon DEF Follows
  <1> QED
    BY <1>2, <1>5, <1>6, Zenon DEF Fits

\* The fields of a replica whose pass starts, or ends before its rules.
Starts(x, y, eval) ==
    /\ Fields(x) /\ SameQueues(x, y) /\ x.conn = "open" /\ x.hasLock = TRUE
    /\ \/ x.loaded = FALSE /\ x.eval = eval /\ x.pc = "idle" /\ x.todo = y.todo
       \/ x.loaded = TRUE /\ x.eval = eval /\ x.todo \in Seq(Keys)

\* The term of a leader: the one it is in, or a new one.
InTerm(e, y) ==
    \/ e = y /\ y.hasLock /\ y.conn = "open"
    \/ holder = Nobody /\ e.loaded = FALSE /\ e.eval = [k \in Keys |-> NoEpisode]

\* What a replica holds once a pass began: its own term, or a new one.
LEMMA BeginFields ==
    ASSUME NEW p \in Procs, NEW ends, Begin(p, ends), ShapedEngine(proc[p])
    PROVE  \E e, x : /\ proc' = [proc EXCEPT ![p] = x] /\ InTerm(e, proc[p])
                     /\ \/ Starts(x, proc[p], e.eval) /\ e.loaded = FALSE /\ x.loaded = FALSE
                        \/ Starts(x, proc[p], Restored(e)) /\ x.loaded = TRUE
  <1> DEFINE y == proc[p]
             e == ensureLeader(y)
             pc == IF ends = "no" THEN "rules" ELSE "idle"
             todo == IF ends = "no" THEN RuleOrder ELSE <<>>
             a == [e EXCEPT !.ranAt = now]
             b == [e EXCEPT !.ranAt = now, !.loaded = TRUE, !.eval = Restored(e), !.pc = pc,
                            !.live = enabled, !.todo = todo, !.expired = FALSE]
  <1>1. /\ Idle(p) /\ e.hasLock /\ (ends = "restore" => ~e.loaded)
        /\ proc' = [proc EXCEPT ![p] = IF ends = "restore" THEN a ELSE b]
    BY Zenon DEF Begin
  <1>2. Fields(y) /\ y.pc = "idle" /\ y.loaded \in BOOLEAN /\ y.hasLock \in BOOLEAN
    BY <1>1, Zenon DEF ShapedEngine, Idle
  <1>3. /\ Fields(e) /\ SameQueues(e, y) /\ e.pc = y.pc /\ e.todo = y.todo
        /\ \/ y.hasLock /\ y.conn = "open" /\ e = y
           \/ /\ holder = Nobody /\ e.conn = "open" /\ e.hasLock = TRUE /\ e.loaded = FALSE
              /\ e.eval = [k \in Keys |-> NoEpisode]
           \/ e.hasLock = FALSE
    <2> HIDE DEF y
    <2> QED
      BY <1>2, LeaderFields, Zenon
  <1>4. todo \in Seq(Keys)
    <2>1. <<>> \in Seq(Keys) /\ RuleOrder \in Seq(Keys)
      BY AlertsAssumption DEF Keys
    <2> QED
      BY <2>1, Zenon
  <1> HIDE DEF y, e, pc, todo
  <1>5. InTerm(e, y) /\ e.conn = "open" /\ e.hasLock = TRUE /\ e.loaded \in BOOLEAN
    BY <1>1, <1>2, <1>3, Zenon DEF InTerm
  <1>6. /\ Fields(a) /\ SameQueues(a, e) /\ SameLeader(a, e) /\ a.eval = e.eval /\ a.pc = e.pc /\ a.todo = e.todo
    BY <1>3, Zenon DEF Fields, EngineFields, SameQueues, SameLeader
  <1>7. /\ Fields(b) /\ SameQueues(b, e) /\ b.conn = e.conn /\ b.hasLock = e.hasLock /\ b.loaded = TRUE
        /\ b.eval = Restored(e) /\ b.todo = todo
    BY <1>3, Zenon DEF Fields, EngineFields, SameQueues
  <1> HIDE DEF a, b
  <1>8. CASE ends = "restore"
    <2>1. e.loaded = FALSE /\ proc' = [proc EXCEPT ![p] = a]
      BY <1>1, <1>5, <1>8, Zenon
    <2>2. Starts(a, y, e.eval) /\ a.loaded = FALSE
      BY <1>2, <1>3, <1>5, <1>6, <2>1, Zenon DEF Starts, SameQueues, SameLeader
    <2> QED
      BY <1>5, <2>1, <2>2, Zenon DEF y
  <1>9. CASE ends # "restore"
    <2>1. proc' = [proc EXCEPT ![p] = b]
      BY <1>1, <1>9, Zenon
    <2>2. Starts(b, y, Restored(e)) /\ b.loaded = TRUE
      BY <1>3, <1>4, <1>5, <1>7, Zenon DEF Starts, SameQueues
    <2> QED
      BY <1>5, <2>1, <2>2, Zenon DEF y
  <1> QED
    BY <1>8, <1>9, Zenon

\* The evaluator a pass starts with.
LEMMA BeginEval ==
    ASSUME EngineInv, ClockInv, NEW p \in Procs, NEW e, InTerm(e, proc[p])
    PROVE  /\ e.eval = [k \in Keys |-> e.eval[k]] /\ \A k \in Keys : ShapedEpisode(e.eval[k])
           /\ e.loaded = FALSE => \A k \in Keys : ~e.eval[k].firing
           /\ Restored(e) = [k \in Keys |-> Restored(e)[k]] /\ \A k \in Keys : ShapedEpisode(Restored(e)[k])
           /\ ~overlapped /\ ~unsure => Follows(Restored(e), Open)
  <1> DEFINE y == proc[p]
  <1>1. ShapedEngine(y) /\ \A a \in alerts : ShapedRow(a)
    BY Zenon DEF EngineInv, AlertsShape
  <1>2. ~overlapped /\ ~unsure => \A a, b \in Open : a.key = b.key => a = b
    BY Zenon DEF EngineInv, LeaderInv
  <1>3. CASE e = y /\ y.hasLock /\ y.conn = "open" /\ y.loaded
    <2>1. Restored(e) = y.eval
      BY <1>3, Zenon DEF Restored
    <2>2. holder = p
      BY <1>3, Zenon DEF EngineInv, LockInv
    <2>3. ~overlapped /\ ~unsure => Follows(y.eval, Open)
      BY <1>3, <2>2, Zenon DEF EngineInv, LeaderInv
    <2>4. e.loaded # FALSE
      BY <1>3, Zenon
    <2>5. y.eval = [k \in Keys |-> y.eval[k]] /\ \A k \in Keys : ShapedEpisode(y.eval[k])
      BY <1>1, Zenon DEF ShapedEngine
    <2> QED
      BY <1>3, <2>1, <2>3, <2>4, <2>5, Zenon DEF Fits
  <1>4. CASE ~e.loaded /\ e.eval = [k \in Keys |-> e.eval[k]]
             /\ \A k \in Keys : ShapedEpisode(e.eval[k]) /\ ~e.eval[k].firing
    <2>1. Fits(Restored(e))
      BY <1>1, <1>4, RestoredFollows, Zenon
    <2> QED
      BY <1>2, <1>4, <2>1, Zenon DEF Fits
  <1>5. CASE e = y /\ ~y.loaded
    BY <1>1, <1>4, <1>5, Zenon DEF ShapedEngine
  <1>6. CASE e.loaded = FALSE /\ e.eval = [k \in Keys |-> NoEpisode]
    <2>1. ShapedEpisode(NoEpisode) /\ ~NoEpisode.firing
      BY DEF ShapedEpisode, NoEpisode
    <2>2. e.eval = [k \in Keys |-> e.eval[k]] /\ \A k \in Keys : ShapedEpisode(e.eval[k]) /\ ~e.eval[k].firing
      BY <1>6, <2>1, Zenon
    <2> QED
      BY <1>4, <1>6, <2>2, Zenon
  <1> QED
    BY <1>3, <1>5, <1>6, Zenon DEF InTerm

\* The start of a pass.
LEMMA BeginStep ==
    ASSUME EngineInv, ClockInv, NEW p \in Procs, NEW ends, Begin(p, ends) PROVE EngineInv'
  <1> DEFINE y == proc[p]
  <1>1. /\ Idle(p) /\ holder' = p /\ overlapped' = (overlapped \/ Overlaps(p))
        /\ UNCHANGED <<alerts, claims, inbox, history, unsure>>
    BY Zenon DEF Begin
  <1>2. ShapedEngine(y) /\ y.work = <<>> /\ Nobody \notin Procs
    BY <1>1, AlertsAssumption, Zenon DEF EngineInv, AlertsShape, ShapedEngine, Idle
  <1>3. PICK e, x : /\ proc' = [proc EXCEPT ![p] = x] /\ InTerm(e, y)
                    /\ \/ Starts(x, y, e.eval) /\ e.loaded = FALSE /\ x.loaded = FALSE
                       \/ Starts(x, y, Restored(e)) /\ x.loaded = TRUE
    BY <1>2, BeginFields, Zenon
  <1>4. proc'[p] = x /\ Others(p) /\ proc' = [q \in Procs |-> proc'[q]]
    BY <1>3, OneReplica, Zenon DEF EngineInv
  <1>5. /\ e.eval = [k \in Keys |-> e.eval[k]] /\ \A k \in Keys : ShapedEpisode(e.eval[k])
        /\ e.loaded = FALSE => \A k \in Keys : ~e.eval[k].firing
        /\ Restored(e) = [k \in Keys |-> Restored(e)[k]] /\ \A k \in Keys : ShapedEpisode(Restored(e)[k])
        /\ ~overlapped /\ ~unsure => Follows(Restored(e), Open)
    BY <1>3, BeginEval, Zenon
  <1>6. /\ Fields(x) /\ SameQueues(x, y) /\ x.conn = "open" /\ x.hasLock = TRUE
        /\ x.loaded \in BOOLEAN /\ x.todo \in Seq(Keys) /\ (x.pc # "idle" => x.loaded)
        /\ x.eval = [k \in Keys |-> x.eval[k]] /\ \A k \in Keys : ShapedEpisode(x.eval[k])
        /\ ~x.loaded => \A k \in Keys : ~x.eval[k].firing
        /\ ~overlapped /\ ~unsure /\ x.loaded => Follows(x.eval, Open)
    <2>1. CASE Starts(x, y, e.eval) /\ e.loaded = FALSE /\ x.loaded = FALSE
      BY <1>2, <1>5, <2>1, Zenon DEF Starts, ShapedEngine
    <2>2. CASE Starts(x, y, Restored(e)) /\ x.loaded = TRUE
      BY <1>5, <2>2, Zenon DEF Starts
    <2> QED
      BY <1>3, <2>1, <2>2, Zenon
  <1>7. ShapedEngine(x) /\ x.work = <<>>
    BY <1>2, <1>6, Zenon DEF ShapedEngine, SameQueues
  <1>8. /\ alerts' = alerts /\ claims' = claims /\ inbox' = inbox /\ UNCHANGED history /\ unsure' = unsure
        /\ Open' = Open
    BY <1>1, Zenon DEF Open
  <1>9. AlertsShape'
    BY <1>4, <1>7, <1>8, ShapeKept, Zenon DEF EngineInv, AlertsShape
  <1>10. \A q \in Procs \ {p} : holder # q
    <2>1. holder \in {p, Nobody}
      BY <1>3, Zenon DEF InTerm, EngineInv, LockInv
    <2> QED
      BY <1>2, <2>1, Zenon
  <1>11. LockInv'
    <2>1. \A q \in Procs \ {p} : ~(proc'[q].hasLock /\ proc'[q].conn = "open") /\ holder' # q
      BY <1>1, <1>4, <1>10, Zenon DEF EngineInv, LockInv, Others
    <2>2. proc'[p].hasLock /\ proc'[p].conn = "open" /\ holder' = p
      BY <1>1, <1>4, <1>6, Zenon
    <2> QED
      BY <2>1, <2>2, Zenon DEF LockInv
  <1>12. LeaderInv'
    <2> SUFFICES ASSUME ~overlapped', ~unsure'
                 PROVE  LeaderInv'
      BY Zenon DEF LeaderInv
    <2>1. ~overlapped /\ ~unsure /\ ~Overlaps(p)
      <3>1. ~unsure
        BY <1>8, Zenon
      <3>2. ASSUME overlapped \/ Overlaps(p) PROVE FALSE
        <4>1. (overlapped \/ Overlaps(p)) = TRUE
          BY <3>2
        <4>2. overlapped' = (overlapped \/ Overlaps(p))
          BY <1>1
        <4>3. overlapped' = TRUE
          BY <4>1, <4>2, Zenon
        <4> QED
          BY <4>3
      <3> QED
        BY <3>1, <3>2, Zenon
    <2>2. \A a, b \in Open' : a.key = b.key => a = b
      BY <1>8, <2>1, Zenon DEF EngineInv, LeaderInv
    <2>3. \A q \in Procs \ {p} : Idle(q)' /\ Current(proc'[q]) /\ holder' # q
      BY <1>1, <1>4, <2>1, Zenon DEF Overlaps, Idle, Others, EngineInv, LeaderInv
    <2>4. Current(proc'[p]) /\ holder' = p /\ (proc'[p].loaded => Follows(proc'[p].eval, Open'))
      BY <1>1, <1>4, <1>6, <1>7, <1>8, <2>1, EmptyQueue, Zenon DEF Current
    <2>5. \A q, t \in Procs : ~Idle(q)' /\ ~Idle(t)' => q = t
      BY <2>3, Zenon
    <2>6. ASSUME NEW q \in Procs
          PROVE  /\ ~Idle(q)' => holder' \in {q, Nobody}
                 /\ proc'[q].loaded /\ (holder' = q \/ ~Idle(q)') => Follows(proc'[q].eval, Open')
                 /\ Current(proc'[q])
      BY <2>3, <2>4, Zenon
    <2> QED
      BY <2>2, <2>5, <2>6, Zenon DEF LeaderInv
  <1>13. ClaimInv' /\ RecordInv' /\ AnswerInv'
    <2>1. RowsLast /\ QuietStep(p)
      BY <1>4, <1>6, <1>8, Zenon DEF RowsLast, OnRecord, QuietStep
    <2> QED
      BY <2>1, QuietDeliveries, Zenon DEF EngineInv
  <1> QED
    BY <1>9, <1>11, <1>12, <1>13, Zenon DEF EngineInv

-----------------------------------------------------------------------------
\* The evaluator.

\* What a step of the evaluator says of an episode.
Turned(out, ep) ==
    /\ ShapedEpisode(out.episode)
    /\ \/ /\ out.transition \in {"none", "opened", "cancelled"}
          /\ out.episode.firing <=> ep.firing
          /\ ep.firing => out.episode.first = ep.first
       \/ out.transition = "fired" /\ ~ep.firing /\ out.episode.firing /\ out.episode.first = out.start
       \/ out.transition = "resolved" /\ ep.firing /\ ~out.episode.firing /\ ep.first = out.start
       \/ /\ out.transition = "refresh" /\ ep.firing /\ out.episode.firing
          /\ out.episode.first = out.start /\ ep.first = out.start

Says(out, a, b, c) == out.episode = a /\ out.transition = b /\ out.start = c

\* The fields of an outcome.
LEMMA OutcomeFields ==
    ASSUME NEW a, NEW b, NEW c
    PROVE  Says(Outcome(a, b, c), a, b, c)
  BY Zenon DEF Outcome, Says

\* The fields of an episode.
LEMMA EpisodeFields ==
    ASSUME NEW f, NEW s, NEW b, NEW x, x = [first |-> f, seen |-> s, firing |-> b]
    PROVE  /\ x.first = f /\ x.seen = s /\ x.firing = b
           /\ x = [first |-> x.first, seen |-> x.seen, firing |-> x.firing]
  BY Zenon

\* A step that says nothing.
LEMMA Unturned ==
    ASSUME NEW ep, ShapedEpisode(ep), NEW out, out = Outcome(ep, "none", 0)
    PROVE  Turned(out, ep)
  <1>1. out.episode = ep /\ out.transition = "none"
    BY Zenon DEF Outcome
  <1> QED
    BY <1>1, Zenon DEF Turned

\* The end of an episode.
LEMMA Ending ==
    ASSUME NEW ep, ShapedEpisode(ep), NEW out, out = endLocked(ep)
    PROVE  Turned(out, ep)
  <1> DEFINE t == CASE ep = NoEpisode -> "none"
                    [] ep.firing -> "resolved"
                    [] OTHER -> "cancelled"
  <1>1. out = Outcome(NoEpisode, t, ep.first)
    BY Zenon DEF endLocked
  <1>2. ShapedEpisode(NoEpisode) /\ ~NoEpisode.firing
    BY DEF ShapedEpisode, NoEpisode
  <1>3. \/ t = "none" /\ ep = NoEpisode
        \/ t = "resolved" /\ ep.firing
        \/ t = "cancelled" /\ ~ep.firing
    <2>1. CASE ep = NoEpisode
      <3>1. ~ep.firing
        BY <1>2, <2>1, Zenon
      <3>2. t = "none"
        BY <2>1, <3>1, Zenon
      <3> QED
        BY <2>1, <3>2, Zenon
    <2>2. CASE ep # NoEpisode /\ ep.firing
      BY <2>2, Zenon
    <2>3. CASE ep # NoEpisode /\ ~ep.firing
      BY <2>3, Zenon
    <2> QED
      BY <2>1, <2>2, <2>3, Zenon
  <1> HIDE DEF t
  <1>4. out.episode = NoEpisode /\ out.transition = t /\ out.start = ep.first
    <2>1. Says(out, NoEpisode, t, ep.first)
      BY <1>1, OutcomeFields, Zenon
    <2> QED
      BY <2>1, Zenon DEF Says
  <1> QED
    BY <1>2, <1>3, <1>4, Zenon DEF Turned

\* The fields of an episode that a sample keeps open.
LEMMA Sampled ==
    ASSUME NEW was, ShapedEpisode(was), NEW b \in BOOLEAN, NEW new,
           new = [was EXCEPT !.seen = now, !.firing = b]
    PROVE  ShapedEpisode(new) /\ new.first = was.first /\ new.firing = b
  <1>1. was = [first |-> was.first, seen |-> was.seen, firing |-> was.firing]
    BY Zenon DEF ShapedEpisode
  <1>2. new = [first |-> was.first, seen |-> now, firing |-> b]
    BY <1>1, Zenon
  <1>3. new.first = was.first /\ new.firing = b /\ new = [first |-> new.first, seen |-> new.seen, firing |-> new.firing]
    BY <1>2, EpisodeFields, Zenon
  <1>4. new.firing \in BOOLEAN
    BY <1>3, Zenon
  <1> QED
    BY <1>3, <1>4, Zenon DEF ShapedEpisode

\* A true sample.
LEMMA SampleTurn ==
    ASSUME NEW r, NEW s, s.true, NEW ep, ShapedEpisode(ep), NEW out, out = Step(r, s, ep)
    PROVE  Turned(out, ep)
  <1> DEFINE was == IF ep = NoEpisode THEN [NoEpisode EXCEPT !.first = s.ts] ELSE ep
             fires == ~was.firing /\ (IF ep = NoEpisode THEN Rule[r].for = 0
                                      ELSE now - was.first >= Rule[r].for)
             new == [was EXCEPT !.seen = now, !.firing = @ \/ fires]
             t == CASE fires -> "fired"
                    [] ~fires /\ ep = NoEpisode -> "opened"
                    [] ~fires /\ ep.firing -> "refresh"
                    [] OTHER -> "none"
  <1>1. out = Outcome(new, t, was.first)
    BY Zenon DEF Step
  <1>2. ~NoEpisode.firing
    BY DEF NoEpisode
  <1>3. /\ ShapedEpisode(was) /\ (was.firing <=> ep.firing) /\ (ep.firing => was.first = ep.first)
        /\ ep = NoEpisode => ~ep.firing
    <2>1. CASE ep = NoEpisode
      <3>1. was = [first |-> s.ts, seen |-> -1, firing |-> FALSE]
        BY <2>1, Zenon DEF NoEpisode
      <3>2. ShapedEpisode(was) /\ ~was.firing
        BY <3>1 DEF ShapedEpisode
      <3> QED
        BY <1>2, <2>1, <3>2, Zenon
    <2>2. CASE ep # NoEpisode
      BY <2>2, Zenon
    <2> QED
      BY <2>1, <2>2, Zenon
  <1>4. fires \in BOOLEAN /\ (fires => ~was.firing)
    BY Zenon
  <1>b. PICK b \in BOOLEAN : b = (was.firing \/ fires)
    BY Zenon
  <1>5. new = [was EXCEPT !.seen = now, !.firing = b]
    BY <1>b, Zenon
  <1>6. \/ t = "fired" /\ fires
        \/ t = "opened" /\ ~fires /\ ep = NoEpisode
        \/ t = "refresh" /\ ~fires /\ ep.firing
        \/ t = "none" /\ ~fires /\ ~ep.firing
    <2>1. CASE fires
      BY <2>1, Zenon
    <2>2. CASE ~fires /\ ep = NoEpisode
      <3>1. ~ep.firing
        BY <1>3, <2>2, Zenon
      <3> QED
        BY <2>2, <3>1, Zenon
    <2>3. CASE ~fires /\ ep # NoEpisode /\ ep.firing
      BY <2>3, Zenon
    <2>4. CASE ~fires /\ ep # NoEpisode /\ ~ep.firing
      BY <2>4, Zenon
    <2> QED
      BY <2>1, <2>2, <2>3, <2>4, Zenon
  <1> HIDE DEF was, fires, new, t
  <1>7. ShapedEpisode(new) /\ new.first = was.first /\ (new.firing <=> was.firing \/ fires)
    <2>1. ShapedEpisode(new) /\ new.first = was.first /\ new.firing = b
      BY <1>3, <1>5, Sampled, Zenon
    <2> QED
      BY <1>b, <2>1, Zenon
  <1>8. out.episode = new /\ out.transition = t /\ out.start = was.first
    <2>1. Says(out, new, t, was.first)
      BY <1>1, OutcomeFields, Zenon
    <2> QED
      BY <2>1, Zenon DEF Says
  <1> QED
    BY <1>3, <1>4, <1>6, <1>7, <1>8, Zenon DEF Turned

\* One rule of a pass.
LEMMA EvaluatedTurn ==
    ASSUME NEW r, NEW live, NEW ep, ShapedEpisode(ep), NEW out, out = Evaluated(r, live, ep)
    PROVE  Turned(out, ep)
  <1>1. \/ out = endLocked(ep) \/ out = Outcome(ep, "none", 0) \/ out = Step(r, Sample(r), ep)
    <2>1. CASE r \notin live
      BY <2>1, Zenon DEF Evaluated
    <2>2. CASE r \in live /\ Sample(r) # NoSample
      BY <2>2, Zenon DEF Evaluated
    <2>3. CASE r \in live /\ Sample(r) = NoSample
      BY <2>3, Zenon DEF Evaluated
    <2> QED
      BY <2>1, <2>2, <2>3, Zenon
  <1>2. CASE out = Step(r, Sample(r), ep)
    <2>1. CASE Sample(r).true
      BY <1>2, <2>1, SampleTurn, Zenon
    <2>2. CASE ~Sample(r).true
      BY <1>2, <2>2, Ending, Zenon DEF Step
    <2> QED
      BY <2>1, <2>2, Zenon
  <1> QED
    BY <1>1, <1>2, Ending, Unturned, Zenon

\* A row that is written.
NewRow(key, start, state) == [key |-> key, start |-> start, state |-> state, at |-> now]

\* UpsertAlert leaves the other rows, and puts the episode on record.
LEMMA UpsertRows ==
    ASSUME NEW r \in Keys, NEW start, NEW state \in {"firing", "resolved"},
           alerts' = Upserted(r, start, state), \A a \in alerts : ShapedRow(a), purged' = purged
    PROVE  /\ RowsLast /\ \A a \in alerts' : ShapedRow(a)
           /\ \A id : id.key = r /\ id.start = start => OnRecord(id)'
  <1> DEFINE n == NewRow(r, start, state)
  <1>1. alerts' = {a \in alerts : a.key # r \/ a.start # start} \cup {n}
    BY Zenon DEF Upserted, NewRow
  <1>2. n.key = r /\ n.start = start /\ n.state = state /\ ShapedRow(n)
    <2>1. n.key = r /\ n.start = start /\ n.state = state /\ n.at = now
      BY Zenon DEF NewRow
    <2>2. n = [key |-> n.key, start |-> n.start, state |-> n.state, at |-> n.at]
      BY <2>1, Zenon DEF NewRow
    <2> QED
      BY <2>1, <2>2, Zenon DEF ShapedRow
  <1> HIDE DEF n
  <1>3. \A a \in alerts' : ShapedRow(a)
    BY <1>1, <1>2, Zenon
  <1>4. n \in alerts'
    BY <1>1, Zenon
  <1>5. \A id : id.key = r /\ id.start = start => OnRecord(id)'
    BY <1>2, <1>4, Zenon DEF OnRecord
  <1>6. \A a \in alerts : a \in alerts' \/ (a.key = r /\ a.start = start)
    BY <1>1, Zenon
  <1>7. RowsLast
    BY <1>5, <1>6, Zenon DEF RowsLast, OnRecord
  <1> QED
    BY <1>3, <1>5, <1>7, Zenon

\* The evaluator and the table take the same step.
LEMMA UpsertFollows ==
    ASSUME NEW r \in Keys, NEW start, NEW state \in {"firing", "resolved"},
           alerts' = Upserted(r, start, state), NEW eval, NEW new,
           \A a, b \in Open : a.key = b.key => a = b, Follows(eval, Open),
           eval[r].firing => eval[r].first = start,
           \A k \in Keys \ {r} : new[k] = eval[k],
           new[r].firing <=> state = "firing", state = "firing" => new[r].first = start,
           \A a \in alerts : ShapedRow(a)
    PROVE  (\A a, b \in Open' : a.key = b.key => a = b) /\ Follows(new, Open')
  <1> DEFINE n == NewRow(r, start, state)
  <1>1. alerts' = {a \in alerts : a.key # r \/ a.start # start} \cup {n}
    BY Zenon DEF Upserted, NewRow
  <1>2. n.key = r /\ n.start = start /\ n.state = state
    BY Zenon DEF NewRow
  <1> HIDE DEF n
  <1>3. \A a \in Open : a.key = r => a.start = start
    <2> TAKE a \in Open
    <2> HAVE a.key = r
    <2>1. eval[a.key].firing /\ eval[a.key].first = a.start
      BY Zenon DEF Follows
    <2>2. eval[r].firing /\ eval[r].first = a.start
      BY <2>1, Zenon
    <2> QED
      BY <2>2, Zenon
  <1>4. \A a \in Open' : (a \in Open /\ a.key # r) \/ (a = n /\ state = "firing")
    <2> TAKE a \in Open'
    <2>1. a \in alerts' /\ a.state # "resolved"
      BY Zenon DEF Open
    <2>2. CASE a = n
      BY <1>2, <2>1, <2>2, Zenon
    <2>3. CASE a \in alerts /\ (a.key # r \/ a.start # start)
      BY <1>3, <2>1, <2>3, Zenon DEF Open
    <2> QED
      BY <1>1, <2>1, <2>2, <2>3, Zenon
  <1>5. \A a \in Open : a.key # r => a \in Open'
    BY <1>1, Zenon DEF Open
  <1>6. state = "firing" => n \in Open'
    BY <1>1, <1>2, Zenon DEF Open
  <1>7. \A a, b \in Open' : a.key = b.key => a = b
    <2> TAKE a, b \in Open'
    <2> HAVE a.key = b.key
    <2>1. CASE a \in Open /\ a.key # r
      <3>1. b \in Open
        BY <1>2, <1>4, <2>1, Zenon
      <3> QED
        BY <2>1, <3>1, ZenonT(40)
    <2>2. CASE a = n
      <3>1. b = n
        BY <1>2, <1>4, <2>2, Zenon
      <3> QED
        BY <2>2, <3>1, Zenon
    <2> QED
      BY <1>4, <2>1, <2>2, Zenon
  <1>8. ASSUME NEW a \in Open'
        PROVE  new[a.key].firing /\ new[a.key].first = a.start
    <2>1. CASE a = n /\ state = "firing"
      BY <1>2, <2>1, Zenon
    <2>2. CASE a \in Open /\ a.key # r
      <3>1. a.key \in Keys
        BY <2>2, Zenon DEF Open, ShapedRow
      <3> QED
        BY <2>2, <3>1, Zenon DEF Follows
    <2> QED
      BY <1>4, <2>1, <2>2, Zenon
  <1>9. ASSUME NEW k \in Keys, new[k].firing
        PROVE  \E a \in Open' : a.key = k /\ a.start = new[k].first
    <2>1. CASE k = r
      BY <1>2, <1>6, <1>9, <2>1, Zenon
    <2>2. CASE k # r
      <3>1. new[k] = eval[k]
        BY <2>2, Zenon
      <3>2. PICK a \in Open : a.key = k /\ a.start = eval[k].first
        BY <1>9, <3>1, Zenon DEF Follows
      <3> QED
        BY <1>5, <2>2, <3>1, <3>2, Zenon
    <2> QED
      BY <2>1, <2>2, Zenon
  <1> QED
    BY <1>7, <1>8, <1>9, Zenon DEF Follows

\* A transition that is not written changes nothing that the table shows.
LEMMA SameFollows ==
    ASSUME NEW r \in Keys, NEW eval, NEW new, NEW rows, Follows(eval, rows),
           \A a \in rows : a.key \in Keys, \A k \in Keys \ {r} : new[k] = eval[k],
           new[r].firing <=> eval[r].firing, eval[r].firing => new[r].first = eval[r].first
    PROVE  Follows(new, rows)
  <1>1. \A k \in Keys : (new[k].firing <=> eval[k].firing) /\ (eval[k].firing => new[k].first = eval[k].first)
    BY Zenon
  <1>2. \A a \in rows : new[a.key].firing /\ new[a.key].first = a.start
    BY <1>1, Zenon DEF Follows
  <1>3. ASSUME NEW k \in Keys, new[k].firing
        PROVE  \E a \in rows : a.key = k /\ a.start = new[k].first
    <2>1. PICK a \in rows : a.key = k /\ a.start = eval[k].first
      BY <1>1, <1>3, Zenon DEF Follows
    <2> QED
      BY <1>1, <1>3, <2>1, Zenon
  <1> QED
    BY <1>2, <1>3, Zenon DEF Follows

\* One rule of a pass: what it leaves, by what became of the transition.  A
\* transition is not written and changes nothing that the table shows, or is
\* written without an answer, or is written and silent, or is notified.
Phase(out) == IF out.transition = "fired" THEN "fire" ELSE "resolve"
State(out) == IF out.transition = "resolved" THEN "resolved" ELSE "firing"
Written(r, out) == alerts' = Upserted(r, out.start, State(out))
Silent(x, y) == SameQueues(x, y) /\ announced' = announced /\ excused' = excused
Stepped(x, y, r, out) == x.eval = [y.eval EXCEPT ![r] = out.episode]

Unwritten(x, y, r, out) ==
    /\ alerts' = alerts /\ Silent(x, y)
    /\ x.eval = y.eval \/ (Stepped(x, y, r, out) /\ out.transition \notin {"fired", "resolved"})
Unheard(x, y, r, out) ==
    /\ Written(r, out) /\ Silent(x, y) /\ unsure' = TRUE
    /\ x.eval = y.eval \/ Stepped(x, y, r, out)
Quietly(x, y, r, out) ==
    /\ Written(r, out) /\ Silent(x, y) /\ Stepped(x, y, r, out)
    /\ out.transition \in {"fired", "resolved", "refresh"}
Loudly(x, y, r, out) ==
    /\ Written(r, out) /\ out.transition \in {"fired", "resolved"}
    /\ Notified(x, y, r, out.episode, out.start, Phase(out))
    /\ announced' = announced \cup Ids(x.work)
    /\ excused' = excused \cup (Ids(y.pending) \ Ids(x.pending))

Goes(x, y) == Fields(x) /\ SameLeader(x, y) /\ x.pc = y.pc /\ x.todo = Tail(y.todo)

\* One rule is evaluated: nothing to write, a write that failed, a write whose answer
\* was lost or that needs no notification, or a transition that is notified.
LEMMA EvalCases ==
    ASSUME NEW p \in Procs, NEW store \in {"ok", "fails", "lost"}, EvalRule(p, store), Fields(proc[p]),
           NEW r, r = Head(proc[p].todo), NEW out, out = Evaluated(r, proc[p].live, proc[p].eval[r])
    PROVE  \E x : /\ proc' = [proc EXCEPT ![p] = x] /\ Goes(x, proc[p])
                  /\ \/ Unwritten(x, proc[p], r, out) \/ Unheard(x, proc[p], r, out)
                     \/ Quietly(x, proc[p], r, out) \/ Loudly(x, proc[p], r, out)
  <1> DEFINE e == proc[p]
             stepped == [e EXCEPT !.eval = [@ EXCEPT ![r] = out.episode], !.todo = Tail(@), !.published = FALSE]
             undone == [e EXCEPT !.todo = Tail(@), !.published = FALSE]
             writes == out.transition \in {"fired", "resolved", "refresh"}
             notified == Notify(stepped, r, out.start, Phase(out))
             loud == [notified EXCEPT !.published = r \in e.live /\ Sample(r) # NoSample]
             silent == out.transition = "refresh" \/ ~writes \/ Suppressed(r)
             undoes == writes /\ store # "ok" /\ out.transition # "refresh"
  <1>1. /\ store # "ok" => writes
        /\ alerts' = IF writes /\ store # "fails" THEN Upserted(r, out.start, State(out)) ELSE alerts
        /\ IF silent \/ store # "ok"
           THEN /\ proc' = [proc EXCEPT ![p] = IF undoes THEN undone ELSE stepped]
                /\ announced' = announced /\ excused' = excused
           ELSE /\ proc' = [proc EXCEPT ![p] = loud]
                /\ announced' = announced \cup Ids(notified.work)
                /\ excused' = excused \cup (Ids(e.pending) \ Ids(notified.pending))
    BY Zenon DEF EvalRule, Phase, State
  <1>2. store = "lost" => unsure' = TRUE
    <2>1. unsure' = (unsure \/ store = "lost")
      BY Zenon DEF EvalRule
    <2> QED
      BY <2>1, Zenon
  <1>3. Goes(stepped, e) /\ SameQueues(stepped, e) /\ Stepped(stepped, e, r, out)
    BY Zenon DEF Fields, EngineFields, SameLeader, SameQueues, Goes, Stepped
  <1>4. Goes(undone, e) /\ SameQueues(undone, e) /\ undone.eval = e.eval
    BY Zenon DEF Fields, EngineFields, SameLeader, SameQueues, Goes
  <1>5. Notified(loud, e, r, out.episode, out.start, Phase(out)) /\ SameQueues(loud, notified)
    <2>1. PICK b : b = (r \in e.live /\ Sample(r) # NoSample)
      BY Zenon
    <2>2. loud = [notified EXCEPT !.published = b]
      BY <2>1, Zenon
    <2>3. stepped = [e EXCEPT !.eval = [@ EXCEPT ![r] = out.episode], !.todo = Tail(@), !.published = FALSE]
      BY Zenon
    <2>4. Fields(e) /\ notified = Notify(stepped, r, out.start, Phase(out))
      BY Zenon
    <2> HIDE DEF stepped, notified, loud, e
    <2>5. PICK episode, start, phase : episode = out.episode /\ start = out.start /\ phase = Phase(out)
      BY Zenon
    <2>6. /\ stepped = [e EXCEPT !.eval = [@ EXCEPT ![r] = episode], !.todo = Tail(@), !.published = FALSE]
          /\ loud = [Notify(stepped, r, start, phase) EXCEPT !.published = b]
      BY <2>2, <2>3, <2>4, <2>5, Zenon
    <2>7. Notified(loud, e, r, episode, start, phase) /\ SameQueues(loud, Notify(stepped, r, start, phase))
      BY <2>4, <2>6, NotifyFields, Zenon
    <2> QED
      BY <2>4, <2>5, <2>7, Zenon
  <1>6. Goes(loud, e)
    BY <1>5, Zenon DEF Goes, Notified
  <1> HIDE DEF stepped, undone, notified, loud, e
  <1>7. CASE ~(silent \/ store # "ok")
    <2>1. writes /\ store = "ok" /\ out.transition # "refresh"
      BY <1>7, Zenon
    <2>2. /\ Written(r, out) /\ out.transition \in {"fired", "resolved"} /\ proc' = [proc EXCEPT ![p] = loud]
          /\ announced' = announced \cup Ids(notified.work)
          /\ excused' = excused \cup (Ids(e.pending) \ Ids(notified.pending))
      BY <1>1, <1>7, <2>1, Zenon DEF Written
    <2>3. Loudly(loud, e, r, out)
      BY <1>5, <2>2, Zenon DEF Loudly, SameQueues
    <2> QED
      BY <1>6, <2>2, <2>3, Zenon DEF e
  <1>8. CASE silent \/ store # "ok"
    <2> DEFINE x == IF undoes THEN undone ELSE stepped
    <2>1. proc' = [proc EXCEPT ![p] = x] /\ announced' = announced /\ excused' = excused
      BY <1>1, <1>8, Zenon
    <2>2. Goes(x, e) /\ Silent(x, e) /\ (x.eval = e.eval \/ (Stepped(x, e, r, out) /\ ~undoes))
      BY <1>3, <1>4, <2>1, Zenon DEF Silent
    <2> HIDE DEF x
    <2>3. CASE ~writes
      BY <1>1, <2>1, <2>2, <2>3, Zenon DEF Unwritten, e
    <2>4. CASE writes /\ store = "fails"
      <3>1. alerts' = alerts
        BY <1>1, <2>4, Zenon
      <3>2. Unwritten(x, e, r, out)
        BY <2>2, <2>4, <3>1, Zenon DEF Unwritten
      <3> QED
        BY <2>1, <2>2, <3>2, Zenon DEF e
    <2>5. CASE writes /\ store = "lost"
      <3>1. Written(r, out)
        BY <1>1, <2>5, Zenon DEF Written
      <3>2. Unheard(x, e, r, out)
        BY <1>2, <2>2, <2>5, <3>1, Zenon DEF Unheard
      <3> QED
        BY <2>1, <2>2, <3>2, Zenon DEF e
    <2>6. CASE writes /\ store = "ok"
      <3>1. Written(r, out) /\ x = stepped
        BY <1>1, <2>6, Zenon DEF Written, x
      <3>2. Quietly(x, e, r, out)
        BY <1>3, <2>2, <2>6, <3>1, Zenon DEF Quietly
      <3> QED
        BY <2>1, <2>2, <3>2, Zenon DEF e
    <2> QED
      BY <2>3, <2>4, <2>5, <2>6, Zenon
  <1> QED
    BY <1>7, <1>8, Zenon

\* What a rule leaves of a replica.
LEMMA EvalShape ==
    ASSUME NEW y, ShapedEngine(y), y.pc = "rules", y.work = <<>>, y.todo # <<>>, NEW r, r = Head(y.todo),
           NEW out, ShapedEpisode(out.episode), NEW x, Goes(x, y), x.eval = y.eval \/ Stepped(x, y, r, out),
           Queue(x.work), Queue(x.pending)
    PROVE  ShapedEngine(x)
  <1>1. r \in Keys /\ Tail(y.todo) \in Seq(Keys)
    BY DEF ShapedEngine
  <1>2. y.eval = [k \in Keys |-> y.eval[k]] /\ (\A k \in Keys : ShapedEpisode(y.eval[k])) /\ y.loaded
        /\ y.hasLock \in BOOLEAN
    BY Zenon DEF ShapedEngine
  <1>3. x.eval = [k \in Keys |-> x.eval[k]] /\ \A k \in Keys : ShapedEpisode(x.eval[k])
    <2>1. CASE x.eval = y.eval
      BY <1>2, <2>1, Zenon
    <2>2. CASE x.eval = [y.eval EXCEPT ![r] = out.episode]
      BY <1>1, <1>2, <2>2, Zenon
    <2> QED
      BY <2>1, <2>2, Zenon DEF Stepped
  <1>4. x.hasLock \in BOOLEAN /\ x.loaded = y.loaded /\ x.pc = "rules" /\ x.todo \in Seq(Keys) /\ Fields(x)
    BY <1>1, <1>2, Zenon DEF Goes, SameLeader
  <1>5. x.pc # "idle"
    BY <1>4
  <1> QED
    BY <1>2, <1>3, <1>4, <1>5, Zenon DEF ShapedEngine

\* A step of the only replica in a pass.
LEMMA LeaderStep ==
    ASSUME LeaderInv, ~overlapped, ~unsure, NEW p \in Procs, Others(p), ~Idle(p), holder' = holder,
           \A a, b \in Open' : a.key = b.key => a = b, Follows(proc'[p].eval, Open'), Current(proc'[p]),
           Nobody \notin Procs
    PROVE  LeaderInv'
  <1>1. \A q \in Procs \ {p} : Idle(q) /\ holder # q /\ Current(proc[q])
    BY Zenon DEF LeaderInv
  <1>2. \A q \in Procs \ {p} : Idle(q)' /\ holder' # q /\ Current(proc'[q])
    BY <1>1, Zenon DEF Others, Idle
  <1>3. holder' \in {p, Nobody}
    BY Zenon DEF LeaderInv
  <1>4. ASSUME NEW q \in Procs
        PROVE  /\ ~Idle(q)' => holder' \in {q, Nobody}
               /\ proc'[q].loaded /\ (holder' = q \/ ~Idle(q)') => Follows(proc'[q].eval, Open')
               /\ Current(proc'[q])
    BY <1>2, <1>3, Zenon
  <1>5. \A q, t \in Procs : ~Idle(q)' /\ ~Idle(t)' => q = t
    BY <1>2, Zenon
  <1> QED
    BY <1>4, <1>5, Zenon DEF LeaderInv

\* The evaluator and the table, one rule further.
LEMMA EvalFollows ==
    ASSUME NEW r \in Keys, NEW x, NEW y, NEW out, ShapedEngine(y), Turned(out, y.eval[r]), Goes(x, y),
           \A a \in alerts : ShapedRow(a), \A a, b \in Open : a.key = b.key => a = b, Follows(y.eval, Open),
           Unwritten(x, y, r, out) \/ Quietly(x, y, r, out) \/ Loudly(x, y, r, out)
    PROVE  (\A a, b \in Open' : a.key = b.key => a = b) /\ Follows(x.eval, Open')
  <1>1. \A a \in Open : a.key \in Keys
    BY Zenon DEF Open, ShapedRow
  <1>2. Stepped(x, y, r, out) => x.eval[r] = out.episode /\ \A k \in Keys \ {r} : x.eval[k] = y.eval[k]
    BY Zenon DEF Stepped, ShapedEngine
  <1>3. CASE Unwritten(x, y, r, out)
    <2>1. Open' = Open
      BY <1>3, Zenon DEF Unwritten, Open
    <2>2. CASE x.eval = y.eval
      BY <2>1, <2>2, Zenon
    <2>3. CASE Stepped(x, y, r, out) /\ out.transition \notin {"fired", "resolved"}
      <3>1. (x.eval[r].firing <=> y.eval[r].firing) /\ (y.eval[r].firing => x.eval[r].first = y.eval[r].first)
        BY <1>2, <2>3, Zenon DEF Turned
      <3>2. Follows(x.eval, Open)
        BY <1>1, <1>2, <2>3, <3>1, SameFollows
      <3> QED
        BY <2>1, <3>2, Zenon
    <2> QED
      BY <1>3, <2>2, <2>3, Zenon DEF Unwritten
  <1>4. CASE Quietly(x, y, r, out) \/ Loudly(x, y, r, out)
    <2>1. /\ alerts' = Upserted(r, out.start, State(out)) /\ Stepped(x, y, r, out)
          /\ out.transition \in {"fired", "resolved", "refresh"}
      BY <1>4, Zenon DEF Quietly, Loudly, Written, Notified, Stepped
    <2>2. x.eval[r] = out.episode /\ \A k \in Keys \ {r} : x.eval[k] = y.eval[k]
      BY <1>2, <2>1, Zenon
    <2>3. State(out) \in {"firing", "resolved"} /\ (State(out) = "firing" <=> out.transition # "resolved")
      BY DEF State
    <2>4. /\ y.eval[r].firing => y.eval[r].first = out.start
          /\ out.episode.firing <=> State(out) = "firing"
          /\ State(out) = "firing" => out.episode.first = out.start
      <3>1. CASE out.transition = "fired"
        BY <2>3, <3>1 DEF Turned
      <3>2. CASE out.transition = "resolved"
        BY <2>3, <3>2 DEF Turned
      <3>3. CASE out.transition = "refresh"
        BY <2>3, <3>3 DEF Turned
      <3> QED
        BY <2>1, <3>1, <3>2, <3>3, Zenon
    <2>5. (x.eval[r].firing <=> State(out) = "firing") /\ (State(out) = "firing" => x.eval[r].first = out.start)
      BY <2>2, <2>4, Zenon
    <2> QED
      BY <2>1, <2>2, <2>3, <2>4, <2>5, UpsertFollows, Zenon
  <1> QED
    BY <1>3, <1>4, Zenon

=============================================================================
