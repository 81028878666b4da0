---------------------------- MODULE EngineProofs ----------------------------
(***************************************************************************)
(* What the alert engine promises, for any number of replicas, any rules    *)
(* and channels and any number of failures: a channel accepts a transition  *)
(* once, none is lost silently, the alerts table and the leader's memory    *)
(* agree, and no firing notification goes out for an episode that is over.  *)
(***************************************************************************)
EXTENDS EnginePasses, FiniteSetTheorems

-----------------------------------------------------------------------------
\* The places of a set of places have the ranks 1, 2, ... in their order.
LEMMA PlacesRanked ==
    ASSUME NEW L \in Nat, NEW S \in SUBSET (1 .. L)
    PROVE  Ranked(S)
  <1>1. IsFiniteSet(1 .. L)
    BY FS_Interval
  <1>2. IsFiniteSet(S)
    BY <1>1, FS_Subset, Zenon
  <1>3. Cardinality(S) \in Nat
    BY <1>2, FS_CardinalityType
  <1>4. ASSUME NEW m \in S
        PROVE  /\ IsFiniteSet(Upto(S, m)) /\ Cardinality(Upto(S, m)) \in 1 .. Cardinality(S)
    <2>1. Upto(S, m) \in SUBSET S /\ m \in Upto(S, m)
      BY DEF Upto
    <2>2. IsFiniteSet(Upto(S, m)) /\ Cardinality(Upto(S, m)) <= Cardinality(S)
      BY <1>2, <2>1, FS_Subset
    <2>3. Cardinality(Upto(S, m)) \in Nat
      BY <2>2, FS_CardinalityType
    <2>4. Cardinality(Upto(S, m)) # 0
      BY <2>1, <2>2, FS_EmptySet
    <2> QED
      BY <1>3, <2>2, <2>3, <2>4
  <1>5. ASSUME NEW m \in S, NEW k \in S, m < k
        PROVE  Cardinality(Upto(S, m)) # Cardinality(Upto(S, k))
    <2>1. Upto(S, m) \in SUBSET Upto(S, k) /\ k \in Upto(S, k) /\ k \notin Upto(S, m)
      <3>1. m \in Nat /\ k \in Nat /\ \A j \in S : j \in Nat
        OBVIOUS
      <3>2. \A j \in Nat : j <= m => j <= k
        BY <1>5, <3>1
      <3>3. k <= k /\ ~(k <= m)
        BY <1>5, <3>1
      <3> QED
        BY <3>1, <3>2, <3>3, Zenon DEF Upto
    <2>2. IsFiniteSet(Upto(S, k))
      BY <1>4, Zenon
    <2>3. Cardinality(Upto(S, k)) = Cardinality(Upto(S, m)) => Upto(S, k) = Upto(S, m)
      BY <2>1, <2>2, FS_Subset, Zenon
    <2> QED
      BY <2>1, <2>3, Zenon
  <1>6. ASSUME NEW m \in S, NEW k \in S, Cardinality(Upto(S, m)) = Cardinality(Upto(S, k))
        PROVE  m = k
    <2>1. m \in Nat /\ k \in Nat
      OBVIOUS
    <2>2. ~(m < k) /\ ~(k < m)
      <3>1. ASSUME m < k PROVE FALSE
        BY <1>5, <1>6, <3>1, Zenon
      <3>2. ASSUME k < m PROVE FALSE
        BY <1>5, <1>6, <3>2, Zenon
      <3> QED
        BY <3>1, <3>2, Zenon
    <2> QED
      BY <2>1, <2>2
  <1> DEFINE rank == [m \in S |-> Cardinality(Upto(S, m))]
  <1>7. rank \in Injection(S, 1 .. Cardinality(S))
    <2>1. rank \in [S -> 1 .. Cardinality(S)]
      BY <1>4
    <2>2. \A m, k \in S : rank[m] = rank[k] => m = k
      BY <1>6
    <2> QED
      BY <2>1, <2>2 DEF Injection, IsInjective
  <1>8. IsFiniteSet(1 .. Cardinality(S)) /\ Cardinality(1 .. Cardinality(S)) = Cardinality(S)
    BY <1>3, FS_Interval
  <1>9. rank \in Surjection(S, 1 .. Cardinality(S))
    BY <1>7, <1>8, FS_Injection
  <1>10. \A n \in 1 .. Cardinality(S) : \E m \in S : rank[m] = n
    BY <1>9, Zenon DEF Surjection
  <1> QED
    BY <1>3, <1>4, <1>6, <1>10 DEF Ranked

\* Whatever the set of places is.
LEMMA AllRanked == Ranks
  BY PlacesRanked, Zenon DEF Ranks

-----------------------------------------------------------------------------
\* The queues of a replica that notifies.
Replaced(w, r, q, key, start) ==
    /\ Queue(w) /\ Queue(r)
    /\ \A G : (\A m, n \in 1 .. Len(q) : m # n => Apart(q[m], q[n], G)) =>
          Single(w, r, G) /\ Holds(w, r, G) \subseteq Holds(<<>>, q, G)
    /\ \A id \in Held(w, r) : id \in Held(<<>>, q) \/ (id.key = key /\ id.start = start)
    /\ \A id \in Owned(<<>>, q) : id \in Owned(w, r) \/ id \in Ids(q) \ Ids(r)
    /\ \A id \in Held(<<>>, q) : id \in Held(w, r) \/ id \in Ids(q) \ Ids(r)
    /\ Ids(w) \subseteq Held(w, r)

\* Notify drops what is pending for the key, and its new deliveries have no twin
\* among the rest.
LEMMA NotifyQueues ==
    ASSUME NEW q, Queue(q), NEW key \in Keys, NEW start, NEW phase, NEW w, w = NewWork(key, start, phase),
           NEW r, r = At(q, {n \in DOMAIN q : q[n].id.key # key})
    PROVE  Replaced(w, r, q, key, start)
  <1> DEFINE S == {n \in DOMAIN q : q[n].id.key # key}
  <1>1. DOMAIN q = 1 .. Len(q)
    BY DEF Queue
  <1>2. S \in SUBSET (1 .. Len(q)) /\ S = {n \in 1 .. Len(q) : q[n].id.key # key} /\ r = At(q, S)
    BY <1>1, Zenon
  <1> HIDE DEF S
  <1>3. Queue(r) /\ In(r) = {q[m] : m \in S} /\ In(r) \subseteq In(q)
    <2>1. Queue(At(q, S)) /\ In(At(q, S)) = {q[m] : m \in S} /\ In(At(q, S)) \subseteq In(q)
      BY <1>2, AllRanked, AtQueue
    <2> QED
      BY <1>2, <2>1, Zenon
  <1>4. \A d \in In(r) : d \in In(q) /\ d.id.key # key
    BY <1>2, <1>3, Zenon
  <1>5. \A d \in In(q) : d.id.key # key => d \in In(r)
    BY <1>2, <1>3, Zenon DEF In
  <1>6. Queue(w) /\ \A d \in In(w) : d.claimed = FALSE /\ d.retry = FALSE /\ d.id.key = key /\ d.id.start = start
    <2>1. Queue(w) /\ AllNew(w, key, start, phase)
      BY NewQueue, Zenon
    <2> QED
      BY <2>1, Zenon DEF AllNew
  <1>7. Memory(<<>>, q) = In(q)
    BY EmptyQueue, Zenon DEF Memory
  <1>8. ASSUME NEW G, \A m, n \in 1 .. Len(q) : m # n => Apart(q[m], q[n], G)
        PROVE  Single(w, r, G) /\ Holds(w, r, G) \subseteq Holds(<<>>, q, G)
    <2>1. \A m, n \in 1 .. Len(r) : m # n => Apart(r[m], r[n], G)
      BY <1>2, <1>8, AllRanked, AtApart, Zenon
    <2>2. \A d \in In(w) : \A f : Apart(d, f, G)
      BY <1>6, Zenon DEF Apart
    <2>3. \A m, n \in 1 .. Len(w) : Apart(w[m], w[n], G)
      BY <2>2, Zenon DEF In
    <2>4. Single(w, r, G)
      BY <2>1, <2>2, <2>3, Zenon DEF Single
    <2>5. Holds(w, r, G) \subseteq Holds(<<>>, q, G)
      BY <1>4, <1>6, <1>7, Zenon DEF Holds, Memory
    <2> QED
      BY <2>4, <2>5, Zenon
  <1>9. Ids(q) = {d.id : d \in In(q)} /\ Ids(r) = {d.id : d \in In(r)} /\ Ids(w) = {d.id : d \in In(w)}
    BY <1>3, <1>6, QueueIds, Zenon
  <1>10. \A id \in Held(w, r) : id \in Held(<<>>, q) \/ (id.key = key /\ id.start = start)
    BY <1>4, <1>6, <1>7, Zenon DEF Held, Memory
  <1>11. \A d \in In(q) : d \in In(r) \/ d.id \in Ids(q) \ Ids(r)
    BY <1>4, <1>5, <1>9, Zenon
  <1>12. \A id \in Held(<<>>, q) : id \in Held(w, r) \/ id \in Ids(q) \ Ids(r)
    BY <1>7, <1>11, Zenon DEF Held, Memory
  <1>13. \A id \in Owned(<<>>, q) : id \in Owned(w, r) \/ id \in Ids(q) \ Ids(r)
    BY <1>7, <1>11, Zenon DEF Owned, Memory
  <1>14. Ids(w) \subseteq Held(w, r)
    BY <1>9, Zenon DEF Held, Memory
  <1> QED
    BY <1>3, <1>6, <1>8, <1>10, <1>12, <1>13, <1>14, Zenon DEF Replaced

\* The deliveries, when a transition is notified.
LEMMA LoudDeliveries ==
    ASSUME EngineInv, NEW p \in Procs, NEW r \in Keys, NEW out, NEW x, proc'[p] = x, Others(p),
           proc[p].work = <<>>, Loudly(x, proc[p], r, out),
           \A id : id.key = r /\ id.start = out.start => OnRecord(id)', RowsLast,
           UNCHANGED <<claims, inbox, blurred, unrecorded, purged>>
    PROVE  ClaimInv' /\ RecordInv' /\ AnswerInv' /\ Queue(x.work) /\ Queue(x.pending)
  <1> DEFINE q == proc[p].pending
  <1>1. /\ x.work = NewWork(r, out.start, Phase(out)) /\ x.pending = At(q, {n \in DOMAIN q : q[n].id.key # r})
        /\ announced' = announced \cup Ids(x.work) /\ excused' = excused \cup (Ids(q) \ Ids(x.pending))
    BY Zenon DEF Loudly, Notified
  <1>2. Queue(q) /\ \A m, n \in 1 .. Len(q) : m # n => Apart(q[m], q[n], purged)
    BY Zenon DEF EngineInv, AlertsShape, ShapedEngine, ClaimInv, Single
  <1>3. Replaced(x.work, x.pending, q, r, out.start)
    BY <1>1, <1>2, NotifyQueues, Zenon
  <1>4. /\ claims' = claims /\ inbox' = inbox /\ blurred' = blurred /\ unrecorded' = unrecorded
        /\ purged' = purged
    BY Zenon
  <1>5. /\ HeldBy(p) = Held(<<>>, q) /\ OwnedBy(p) = Owned(<<>>, q) /\ HoldsOf(p) = Holds(<<>>, q, purged)
    BY Zenon DEF HeldBy, OwnedBy, HoldsOf
  <1>6. /\ HeldBy(p)' = Held(x.work, x.pending) /\ OwnedBy(p)' = Owned(x.work, x.pending)
        /\ HoldsOf(p)' = Holds(x.work, x.pending, purged)
    BY <1>4, Zenon DEF HeldBy, OwnedBy, HoldsOf
  <1>7. ClaimsLast
    BY <1>4, Zenon DEF ClaimsLast, Claimed
  <1>8. ClaimInv'
    <2>1. Single(x.work, x.pending, purged) /\ HoldsOf(p)' \subseteq HoldsOf(p)
      BY <1>2, <1>3, <1>5, <1>6, Zenon DEF Replaced
    <2>2. ClaimInv /\ Single(proc'[p].work, proc'[p].pending, purged')
      BY <1>4, <2>1, Zenon DEF EngineInv
    <2> QED
      BY <1>4, <1>7, <2>1, <2>2, ClaimKept, Zenon
  <1>9. RecordInv'
    <2>1. \A id \in HeldBy(p)' : id \in HeldBy(p) \/ OnRecord(id)'
      BY <1>3, <1>5, <1>6, Zenon DEF Replaced
    <2>2. RecordInv /\ \A c \in Range(Channels) : In(inbox'[c]) \subseteq In(inbox[c]) \cup HeldBy(p)
      BY <1>4, Zenon DEF EngineInv
    <2> QED
      BY <1>4, <2>1, <2>2, RecordKept, Zenon
  <1>10. AnswerInv'
    <2>1. /\ \A id \in OwnedBy(p) : id \in OwnedBy(p)' \/ Closed(id)'
          /\ \A id \in HeldBy(p) : id \in HeldBy(p)' \/ id \in excused' \/ Claimed(id)' \/ Purged(id)'
      BY <1>1, <1>3, <1>5, <1>6, Zenon DEF Replaced, Closed
    <2>2. \A id : Failed(id) => Answered(id)' \/ Purged(id)'
      BY <1>4, Zenon DEF Failed, Answered
    <2>3. \A c \in claims' : Claimed(c.id) \/ Answered(c.id)'
      BY <1>4, Zenon DEF Claimed
    <2>4. \A c \in claims : In(inbox[c.id.channel]) \subseteq In(inbox'[c.id.channel])
      BY <1>4, Zenon
    <2>5. \A id \in announced' : id \in announced \/ id \in HeldBy(p)'
      BY <1>1, <1>3, <1>6, Zenon DEF Replaced
    <2>6. /\ AnswerInv /\ excused \subseteq excused' /\ unrecorded \subseteq unrecorded'
          /\ purged \subseteq purged'
      BY <1>1, <1>4, Zenon DEF EngineInv
    <2> QED
      BY <1>7, <2>1, <2>2, <2>3, <2>4, <2>5, <2>6, AnswerKept, Zenon
  <1> QED
    BY <1>3, <1>8, <1>9, <1>10, Zenon DEF Replaced

\* A FIRING that is notified is of the episode that fired.
LEMMA LoudCurrent ==
    ASSUME NEW r \in Keys, NEW y, ShapedEngine(y), NEW out, Turned(out, y.eval[r]), NEW x, Loudly(x, y, r, out)
    PROVE  Current(x)
  <1>1. /\ x.work = NewWork(r, out.start, Phase(out)) /\ x.eval = [y.eval EXCEPT ![r] = out.episode]
        /\ out.transition \in {"fired", "resolved"}
    BY Zenon DEF Loudly, Notified
  <1>2. AllNew(x.work, r, out.start, Phase(out))
    BY <1>1, NewQueue, Zenon
  <1>3. x.eval[r] = out.episode
    BY <1>1, Zenon DEF ShapedEngine
  <1>4. Phase(out) = "fire" => out.episode.firing /\ out.episode.first = out.start
    <2>1. Phase(out) = "fire" => out.transition = "fired"
      BY DEF Phase
    <2>2. out.transition = "fired" => out.episode.firing /\ out.episode.first = out.start
      BY DEF Turned
    <2> QED
      BY <2>1, <2>2, Zenon
  <1>5. ASSUME NEW d \in In(x.work), d.id.phase = "fire"
        PROVE  x.eval[d.id.key].firing /\ x.eval[d.id.key].first = d.id.start
    <2>1. d.id.key = r /\ d.id.start = out.start /\ d.id.phase = Phase(out)
      BY <1>2, Zenon DEF AllNew
    <2>2. out.episode.firing /\ out.episode.first = out.start
      BY <1>4, <1>5, <2>1, Zenon
    <2> QED
      BY <1>3, <2>1, <2>2, Zenon
  <1> QED
    BY <1>5, Zenon DEF Current

\* One rule of a pass.
LEMMA EvalRuleStep ==
    ASSUME EngineInv, NEW p \in Procs, NEW store \in {"ok", "fails", "lost"}, EvalRule(p, store) PROVE EngineInv'
  <1> DEFINE y == proc[p]
  <1>1. /\ y.pc = "rules" /\ y.todo # <<>> /\ y.work = <<>>
        /\ UNCHANGED <<claims, holder, inbox, blurred, unrecorded, purged, overlapped>>
    BY Zenon DEF EvalRule
  <1>2. ShapedEngine(y) /\ Fields(y) /\ \A a \in alerts : ShapedRow(a)
    BY Zenon DEF EngineInv, AlertsShape, ShapedEngine
  <1>3. PICK r : r = Head(y.todo)
    BY Zenon
  <1>4. r \in Keys
    BY <1>1, <1>2, <1>3 DEF ShapedEngine
  <1>5. PICK out : out = Evaluated(r, y.live, y.eval[r])
    BY Zenon
  <1>6. Turned(out, y.eval[r])
    <2>1. ShapedEpisode(y.eval[r])
      BY <1>2, <1>4, Zenon DEF ShapedEngine
    <2> QED
      BY <1>5, <2>1, EvaluatedTurn, Zenon
  <1>7. PICK x : /\ proc' = [proc EXCEPT ![p] = x] /\ Goes(x, y)
                 /\ \/ Unwritten(x, y, r, out) \/ Unheard(x, y, r, out)
                    \/ Quietly(x, y, r, out) \/ Loudly(x, y, r, out)
    BY <1>2, <1>3, <1>5, EvalCases, Zenon
  <1>8. proc'[p] = x /\ Others(p) /\ proc' = [q \in Procs |-> proc'[q]]
    BY <1>7, OneReplica, Zenon DEF EngineInv
  <1>9. /\ claims' = claims /\ holder' = holder /\ inbox' = inbox /\ blurred' = blurred
        /\ unrecorded' = unrecorded /\ purged' = purged /\ overlapped' = overlapped
    BY <1>1, Zenon
  <1>10. /\ RowsLast /\ \A a \in alerts' : ShapedRow(a)
         /\ Loudly(x, y, r, out) => \A id : id.key = r /\ id.start = out.start => OnRecord(id)'
    <2>1. CASE alerts' = alerts /\ ~Loudly(x, y, r, out)
      BY <1>2, <2>1, Zenon DEF RowsLast, OnRecord
    <2>2. CASE Written(r, out)
      <3>1. State(out) \in {"firing", "resolved"}
        BY DEF State
      <3>2. /\ RowsLast /\ \A a \in alerts' : ShapedRow(a)
            /\ \A id : id.key = r /\ id.start = out.start => OnRecord(id)'
        BY <1>2, <1>4, <1>9, <2>2, <3>1, UpsertRows, Zenon DEF Written
      <3> QED
        BY <3>2, Zenon
    <2> QED
      BY <1>7, <2>1, <2>2, Zenon DEF Unwritten, Unheard, Quietly, Loudly
  <1>11. ClaimInv' /\ RecordInv' /\ AnswerInv' /\ Queue(x.work) /\ Queue(x.pending)
    <2>1. CASE Silent(x, y)
      <3>1. QuietStep(p)
        BY <1>8, <1>9, <2>1, Zenon DEF QuietStep, Silent, history
      <3>2. ClaimInv' /\ RecordInv' /\ AnswerInv'
        BY <1>10, <3>1, QuietDeliveries, Zenon DEF EngineInv
      <3> QED
        BY <1>2, <2>1, <3>2, Zenon DEF Silent, SameQueues, ShapedEngine
    <2>2. CASE Loudly(x, y, r, out)
      BY <1>1, <1>4, <1>8, <1>9, <1>10, <2>2, LoudDeliveries, Zenon
    <2> QED
      BY <1>7, <2>1, <2>2, Zenon DEF Unwritten, Unheard, Quietly
  <1>12. ShapedEngine(x)
    <2>1. x.eval = y.eval \/ Stepped(x, y, r, out)
      BY <1>7, Zenon DEF Unwritten, Unheard, Quietly, Loudly, Notified, Stepped
    <2>2. ShapedEpisode(out.episode)
      BY <1>6, Zenon DEF Turned
    <2> QED
      BY <1>1, <1>2, <1>3, <1>7, <1>11, <2>1, <2>2, EvalShape, Zenon
  <1>13. AlertsShape'
    BY <1>8, <1>9, <1>10, <1>12, ShapeKept, Zenon DEF EngineInv, AlertsShape
  <1>14. LockInv'
    BY <1>7, <1>8, <1>9, LockKept, Zenon DEF Goes, SameLeader, EngineInv
  <1>15. Current(x)
    <2>1. CASE Silent(x, y)
      BY <1>1, <2>1, EmptyQueue, Zenon DEF Current, Silent, SameQueues
    <2>2. CASE Loudly(x, y, r, out)
      BY <1>2, <1>4, <1>6, <2>2, LoudCurrent, Zenon
    <2> QED
      BY <1>7, <2>1, <2>2, Zenon DEF Unwritten, Unheard, Quietly
  <1>16. LeaderInv'
    <2> SUFFICES ASSUME ~overlapped', ~unsure'
                 PROVE  LeaderInv'
      BY Zenon DEF LeaderInv
    <2>1. ~unsure
      <3>1. unsure' = (unsure \/ store = "lost")
        BY Zenon DEF EvalRule
      <3>2. ASSUME unsure PROVE FALSE
        <4>1. (unsure \/ store = "lost") = TRUE
          BY <3>2, Zenon
        <4>2. unsure' = TRUE
          BY <3>1, <4>1, Zenon
        <4> QED
          BY <4>2, Zenon
      <3> QED
        BY <3>2, Zenon
    <2>2. ~overlapped /\ LeaderInv /\ Nobody \notin Procs
      BY <1>9, AlertsAssumption, Zenon DEF EngineInv
    <2>3. ~Idle(p) /\ y.loaded
      <3>1. y.pc # "idle"
        BY <1>1
      <3> QED
        BY <1>2, <3>1, Zenon DEF Idle, ShapedEngine
    <2>4. Follows(y.eval, Open) /\ \A a, b \in Open : a.key = b.key => a = b
      BY <2>1, <2>2, <2>3, Zenon DEF LeaderInv
    <2>5. Unwritten(x, y, r, out) \/ Quietly(x, y, r, out) \/ Loudly(x, y, r, out)
      BY <1>7, Zenon DEF Unheard
    <2>6. (\A a, b \in Open' : a.key = b.key => a = b) /\ Follows(x.eval, Open')
      BY <1>2, <1>4, <1>6, <1>7, <2>4, <2>5, EvalFollows, Zenon
    <2>7. Follows(proc'[p].eval, Open') /\ Current(proc'[p])
      BY <1>8, <1>15, <2>6, Zenon
    <2> QED
      BY <1>8, <1>9, <2>1, <2>2, <2>3, <2>6, <2>7, LeaderStep, Zenon
  <1> QED
    BY <1>11, <1>13, <1>14, <1>16, Zenon DEF EngineInv

-----------------------------------------------------------------------------
\* The theorems about the alert engine.

\* Time goes by.
LEMMA PassStep ==
    ASSUME EngineInv, UNCHANGED <<alerts, claims, holder, proc, inbox, history, overlapped, unsure>>
    PROVE  EngineInv'
  <1>1. /\ alerts' = alerts /\ claims' = claims /\ holder' = holder /\ proc' = proc /\ inbox' = inbox
        /\ blurred' = blurred /\ announced' = announced /\ excused' = excused
        /\ unrecorded' = unrecorded /\ purged' = purged
        /\ overlapped' = overlapped /\ unsure' = unsure
    BY Zenon DEF history
  <1>2. AlertsShape'
    BY <1>1, Zenon DEF EngineInv, AlertsShape
  <1>3. LockInv'
    BY <1>1, Zenon DEF EngineInv, LockInv
  <1>4. LeaderInv'
    <2>0. overlapped' = overlapped /\ unsure' = unsure
      BY <1>1, Zenon
    <2> SUFFICES ASSUME ~overlapped, ~unsure
                 PROVE  LeaderInv'
      BY <2>0 DEF LeaderInv
    <2>1. Open' = Open /\ \A p \in Procs : Idle(p)' <=> Idle(p)
      BY <1>1, Zenon DEF Open, Idle
    <2>2. LeaderInv
      BY Zenon DEF EngineInv
    <2>3. \A a, b \in Open' : a.key = b.key => a = b
      BY <2>1, <2>2, Zenon DEF LeaderInv
    <2>4. \A p, q \in Procs : ~Idle(p)' /\ ~Idle(q)' => p = q
      BY <2>1, <2>2, Zenon DEF LeaderInv
    <2>5. ASSUME NEW p \in Procs
          PROVE  /\ ~Idle(p)' => holder' \in {p, Nobody}
                 /\ proc'[p].loaded /\ (holder' = p \/ ~Idle(p)') => Follows(proc'[p].eval, Open')
                 /\ Current(proc'[p])
      BY <1>1, <2>1, <2>2, Zenon DEF LeaderInv
    <2> QED
      BY <2>3, <2>4, <2>5, Zenon DEF LeaderInv
  <1>5. \A p \in Procs : HoldsOf(p)' = HoldsOf(p) /\ HeldBy(p)' = HeldBy(p) /\ OwnedBy(p)' = OwnedBy(p)
    BY <1>1, Zenon DEF HoldsOf, HeldBy, OwnedBy
  <1>6. \A id : /\ (Claimed(id)' <=> Claimed(id)) /\ (Purged(id)' <=> Purged(id))
                /\ (Accepted(id)' <=> Accepted(id)) /\ (OnRecord(id)' <=> OnRecord(id))
    BY <1>1, Zenon DEF Claimed, Purged, Accepted, OnRecord
  <1>7. \A id : Answered(id) => Answered(id)'
    BY <1>1, <1>5, Zenon DEF Answered
  <1>8. ClaimInv'
    <2>1. DeliveredOnce'
      BY <1>1, <1>6, Zenon DEF EngineInv, ClaimInv, DeliveredOnce
    <2> QED
      BY <1>1, <1>5, <1>6, <2>1, Zenon DEF EngineInv, ClaimInv
  <1>9. RecordInv'
    BY <1>1, <1>5, <1>6, Zenon DEF EngineInv, RecordInv
  <1>10. AnswerInv'
    BY <1>1, <1>5, <1>6, <1>7, Zenon DEF EngineInv, AnswerInv
  <1> QED
    BY <1>2, <1>3, <1>4, <1>8, <1>9, <1>10, Zenon DEF EngineInv

\* The first state.
LEMMA EngineInit ==
    ASSUME Init
    PROVE  EngineInv /\ ClockInv
  <1>1. /\ alerts = {} /\ claims = {} /\ holder = Nobody /\ now = 0 /\ announced = {}
        /\ proc = [p \in Procs |-> NewEngine] /\ inbox = [c \in Range(Channels) |-> <<>>]
    BY Zenon DEF Init
  <1>2. \A p \in Procs : proc[p] = NewEngine
    BY <1>1, Zenon
  <1>3. /\ ShapedEngine(NewEngine) /\ NewEngine.work = <<>> /\ NewEngine.pending = <<>>
        /\ ~NewEngine.hasLock /\ ~NewEngine.loaded /\ NewEngine.pc = "idle"
    <2>1. NewEngine.ranAt = 0
      BY Zenon DEF NewEngine
    <2>2. NewEngine = [NewEngine EXCEPT !.ranAt = 0]
      BY <2>1, NewForm, Zenon DEF Fields, EngineFields
    <2> QED
      BY <2>2, NewFields, Zenon
  <1>4. \A c \in Range(Channels) : inbox[c] = <<>> /\ In(inbox[c]) = {}
    BY <1>1, EmptyQueue, Zenon
  <1>5. AlertsShape
    <2>1. Len(<<>>) \in Nat /\ <<>> = [n \in 1 .. Len(<<>>) |-> <<>>[n]]
      OBVIOUS
    <2>2. ShapedInbox(inbox)
      BY <1>1, <1>4, <2>1, Zenon DEF ShapedInbox
    <2>3. proc = [p \in Procs |-> proc[p]]
      BY <1>1, Zenon
    <2> QED
      BY <1>1, <1>2, <1>3, <2>2, <2>3, Zenon DEF AlertsShape
  <1>6. LockInv
    BY <1>1, <1>2, <1>3, AlertsAssumption, Zenon DEF LockInv
  <1>7. Memory(<<>>, <<>>) = {} /\ 1 .. Len(<<>>) = {} /\ DOMAIN <<>> = {}
    BY EmptyQueue DEF Memory
  <1>8. \A p \in Procs : HeldBy(p) = {} /\ HoldsOf(p) = {} /\ Idle(p) /\ ~proc[p].loaded /\ Current(proc[p])
    BY <1>2, <1>3, <1>7, EmptyQueue, Zenon DEF HeldBy, HoldsOf, Held, Holds, Idle, Current
  <1>9. LeaderInv
    <2>1. Open = {}
      BY <1>1, Zenon DEF Open
    <2> QED
      BY <1>8, <2>1, Zenon DEF LeaderInv
  <1>10. ClaimInv
    <2>1. DeliveredOnce
      BY <1>1, <1>7, Zenon DEF DeliveredOnce
    <2>2. \A p \in Procs : Single(proc[p].work, proc[p].pending, purged)
      BY <1>2, <1>3, <1>7, EmptyQueue, Zenon DEF Single
    <2> QED
      BY <1>4, <1>8, <2>1, <2>2, Zenon DEF ClaimInv
  <1>11. RecordInv
    BY <1>4, <1>8, Zenon DEF RecordInv
  <1>12. AnswerInv
    BY <1>1, Zenon DEF AnswerInv
  <1>13. ClockInv
    BY <1>1 DEF ClockInv
  <1> QED
    BY <1>5, <1>6, <1>9, <1>10, <1>11, <1>12, <1>13, Zenon DEF EngineInv

\* Every step keeps the invariant.
LEMMA EngineNext ==
    ASSUME EngineInv, ClockInv, [Next]_vars
    PROVE  EngineInv'
  <1>1. CASE UNCHANGED vars
    BY <1>1, PassStep, Zenon DEF vars
  <1>2. ASSUME NEW what, Pass(what)
        PROVE  EngineInv'
    BY <1>2, PassStep, Zenon DEF Pass
  <1>3. ASSUME NEW p \in Procs, NEW ends \in {"no", "restore", "rules"}, Begin(p, ends)
        PROVE  EngineInv'
    BY <1>3, BeginStep, Zenon
  <1>4. ASSUME NEW p \in Procs, SampleFails(p) \/ CutShort(p)
        PROVE  EngineInv'
    BY <1>4, SampleFailsStep, CutShortStep, Zenon
  <1>5. ASSUME NEW p \in Procs, NEW store \in {"ok", "fails", "lost"}, EvalRule(p, store)
        PROVE  EngineInv'
    BY <1>5, EvalRuleStep, Zenon
  <1>6. ASSUME NEW p \in Procs, NotWon(p) \/ ClaimWins(p) \/ Deferred(p)
        PROVE  EngineInv'
    BY <1>6, NotWonStep, ClaimWinsStep, DeferredStep, Zenon
  <1>7. ASSUME NEW p \in Procs, NEW lost \in BOOLEAN, ClaimFails(p, lost)
        PROVE  EngineInv'
    BY <1>7, ClaimFailsStep, Zenon
  <1>8. ASSUME NEW p \in Procs, NEW sent \in {"ok", "fails", "blurred"}, NEW marked \in BOOLEAN,
               Send(p, sent, marked)
        PROVE  EngineInv'
    BY <1>8, SendStep, Zenon
  <1>9. ASSUME NEW p \in Procs, Retry(p) \/ EndPass(p) \/ Expire(p) \/ LoseSession(p) \/ Restart(p)
        PROVE  EngineInv'
    BY <1>9, AllRanked, RetryStep, EndPassStep, ExpireStep, LoseSessionStep, RestartStep, Zenon
  <1> QED
    BY <1>1, <1>2, <1>3, <1>4, <1>5, <1>6, <1>7, <1>8, <1>9, Zenon DEF Next

\* Only deliver adds to what a channel accepted.
LEMMA OnlySend ==
    ASSUME [Next]_vars, inbox' # inbox
    PROVE  \E p \in Procs : \E sent \in {"ok", "fails", "blurred"}, marked \in BOOLEAN : Send(p, sent, marked)
  <1>1. ~UNCHANGED vars
    BY Zenon DEF vars
  <1>2. \A what : ~Pass(what)
    BY Zenon DEF Pass
  <1>3. \A p \in Procs, ends \in {"no", "restore", "rules"} : ~Begin(p, ends)
    BY Zenon DEF Begin
  <1>4. \A p \in Procs, store \in {"ok", "fails", "lost"} : ~EvalRule(p, store)
    <2>1. ASSUME NEW p, NEW store, EvalRule(p, store) PROVE inbox' = inbox
      BY <2>1, Zenon DEF EvalRule
    <2> QED
      BY <2>1, Zenon
  <1>5. \A p \in Procs, lost \in BOOLEAN : ~ClaimFails(p, lost)
    BY Zenon DEF ClaimFails
  <1>6. \A p \in Procs : ~SampleFails(p) /\ ~CutShort(p) /\ ~NotWon(p) /\ ~ClaimWins(p) /\ ~Deferred(p)
    BY Zenon DEF SampleFails, CutShort, NotWon, ClaimWins, Deferred
  <1>7. \A p \in Procs : ~Retry(p) /\ ~EndPass(p) /\ ~Expire(p) /\ ~LoseSession(p) /\ ~Restart(p)
    BY Zenon DEF Retry, EndPass, Expire, LoseSession, Restart
  <1> QED
    BY <1>1, <1>2, <1>3, <1>4, <1>5, <1>6, <1>7, Zenon DEF Next

\* A FIRING that a channel is sent is of an episode that the table shows open.
FiringOpen ==
    \A c \in DOMAIN inbox : inbox'[c] # inbox[c] =>
       LET id == inbox'[c][Len(inbox'[c])]
       IN  id.phase = "fire" /\ ~overlapped /\ ~unsure =>
               \E a \in Open : a.key = id.key /\ a.start = id.start

\* What is sent as firing belongs to an episode that is open.
LEMMA SendsCurrent ==
    ASSUME EngineInv, [Next]_vars
    PROVE  FiringOpen
  <1> SUFFICES ASSUME NEW c \in DOMAIN inbox, inbox'[c] # inbox[c], ~overlapped, ~unsure,
                      NEW id, id = inbox'[c][Len(inbox'[c])], id.phase = "fire"
               PROVE  \E a \in Open : a.key = id.key /\ a.start = id.start
    BY Zenon DEF FiringOpen
  <1>1. PICK p \in Procs, sent \in {"ok", "fails", "blurred"}, marked \in BOOLEAN : Send(p, sent, marked)
    BY OnlySend, Zenon
  <1> DEFINE e == proc[p]
  <1>2. PICK d : d = Head(e.work)
    BY Zenon
  <1>3. /\ e.work # <<>> /\ inbox' # inbox
        /\ inbox' = IF sent = "fails" THEN inbox ELSE [inbox EXCEPT ![d.id.channel] = Append(@, d.id)]
    BY <1>1, <1>2, Zenon DEF Send, Working
  <1>4. inbox' = [inbox EXCEPT ![d.id.channel] = Append(@, d.id)]
    BY <1>3, Zenon
  <1>5. /\ inbox = [x \in Range(Channels) |-> inbox[x]] /\ c \in Range(Channels)
        /\ Len(inbox[c]) \in Nat /\ inbox[c] = [n \in 1 .. Len(inbox[c]) |-> inbox[c][n]]
    <2>1. ShapedInbox(inbox)
      BY Zenon DEF EngineInv, AlertsShape
    <2>2. DOMAIN inbox = Range(Channels)
      BY <2>1, Zenon DEF ShapedInbox
    <2> QED
      BY <2>1, <2>2, Zenon DEF ShapedInbox
  <1>6. c = d.id.channel /\ inbox'[c] = Append(inbox[c], d.id)
    BY <1>4, <1>5, Zenon
  <1>7. id = d.id
    <2>1. Len(Append(inbox[c], d.id)) = Len(inbox[c]) + 1 /\ Append(inbox[c], d.id)[Len(inbox[c]) + 1] = d.id
      <3>1. inbox[c] \in Seq({inbox[c][n] : n \in 1 .. Len(inbox[c])} \cup {d.id})
        <4> DEFINE S == {inbox[c][n] : n \in 1 .. Len(inbox[c])} \cup {d.id}
        <4>1. \A n \in 1 .. Len(inbox[c]) : inbox[c][n] \in S
          BY Zenon
        <4> HIDE DEF S
        <4>2. inbox[c] \in Seq(S)
          BY <1>5, <4>1
        <4> QED
          BY <4>2 DEF S
      <3> QED
        BY <3>1
    <2> QED
      BY <1>6, <2>1, Zenon
  <1>8. ShapedEngine(e)
    BY Zenon DEF EngineInv, AlertsShape
  <1>9. d \in In(e.work)
    <2>1. Queue(e.work) /\ e.work # <<>>
      BY <1>3, <1>8, Zenon DEF ShapedEngine
    <2>2. 1 \in 1 .. Len(e.work) /\ Head(e.work) = e.work[1]
      BY <2>1 DEF Queue
    <2> QED
      BY <1>2, <2>2, Zenon DEF In
  <1>10. ~Idle(p) /\ e.loaded
    BY <1>3, <1>8, Zenon DEF ShapedEngine, Idle
  <1>11. Follows(e.eval, Open) /\ Current(e)
    BY <1>10, Zenon DEF EngineInv, LeaderInv
  <1>12. e.eval[d.id.key].firing /\ e.eval[d.id.key].first = d.id.start /\ d.id.key \in Keys
    <2>1. ShapedDelivery(d)
      BY <1>8, <1>9, Zenon DEF ShapedEngine, Queue
    <2> QED
      BY <1>7, <1>9, <1>11, <2>1, Zenon DEF Current, ShapedDelivery, ShapedId
  <1>13. PICK a \in Open : a.key = d.id.key /\ a.start = e.eval[d.id.key].first
    BY <1>11, <1>12, Zenon DEF Follows
  <1> QED
    BY <1>7, <1>12, <1>13, Zenon

-----------------------------------------------------------------------------
(* The theorems. *)

\* In every reachable state the replicas, the lock and the tables are related as
\* above.
THEOREM EngineSafe == Spec => [](EngineInv /\ ClockInv)
  <1>1. Init => EngineInv /\ ClockInv
    BY EngineInit
  <1>2. EngineInv /\ ClockInv /\ [Next]_vars => (EngineInv /\ ClockInv)'
    BY EngineNext, ClockStep
  <1> QED
    BY <1>1, <1>2, PTL DEF Spec

\* A channel accepts a transition of an episode once, whatever replicas lead,
\* fail, restart or overrun: only one that it accepted and reported as failed,
\* or whose claim was purged, comes twice (ClaimNotification, deliver, keep).
THEOREM ChannelOnce == Spec => []DeliveredOnce
  <1>1. EngineInv => DeliveredOnce
    BY Zenon DEF EngineInv, ClaimInv
  <1> QED
    BY <1>1, EngineSafe, PTL

\* A delivery that a persisted transition asked for is held by a replica, was
\* accepted, failed for good on record, or was dropped, given up and reported,
\* or lost in a restart (Notify, keep, keepUnclaimed, Settle); of a delivery
\* whose last send and its mark both failed (unrecorded) nothing is promised.
THEOREM NoDeliveryLost == Spec => []NothingSilent
  <1>1. EngineInv => NothingSilent
    <2> SUFFICES ASSUME EngineInv, NEW id \in announced \ (excused \cup unrecorded), ~Purged(id)
                 PROVE  \/ \E p \in Procs : id \in Ids(proc[p].work \o proc[p].pending)
                        \/ id \in Range(inbox[id.channel])
                        \/ \E c \in claims : c.id = id /\ c.attempts >= maxNotifyAttempts
      BY Zenon DEF NothingSilent
    <2>1. \A p \in Procs : Ids(proc[p].work \o proc[p].pending) = HeldBy(p)
      BY JoinedIds, Zenon DEF EngineInv, AlertsShape, ShapedEngine, HeldBy
    <2>2. CASE \E p \in Procs : id \in HeldBy(p)
      BY <2>1, <2>2, Zenon
    <2>3. CASE Claimed(id)
      <3>1. PICK c \in claims : c.id = id
        BY <2>3, Zenon DEF Claimed
      <3>2. Answered(id) /\ ShapedId(id)
        BY <3>1, Zenon DEF EngineInv, AnswerInv, AlertsShape, ShapedClaim
      <3>3. CASE \E p \in Procs : id \in OwnedBy(p)
        <4>1. \A p \in Procs : OwnedBy(p) \subseteq HeldBy(p)
          BY Zenon DEF OwnedBy, HeldBy, Owned, Held
        <4> QED
          BY <2>2, <3>3, <4>1, Zenon
      <3>4. CASE id \in In(inbox[id.channel])
        <4>1. ShapedInbox(inbox) /\ id.channel \in Range(Channels)
          BY <3>2, Zenon DEF EngineInv, AlertsShape, ShapedId
        <4>2. DOMAIN inbox[id.channel] = 1 .. Len(inbox[id.channel])
          BY <4>1, Zenon DEF ShapedInbox
        <4> QED
          BY <3>4, <4>2, Zenon DEF In, Range
      <3> QED
        BY <3>2, <3>3, <3>4, Zenon DEF Answered
    <2> QED
      BY <2>2, <2>3, Zenon DEF EngineInv, AnswerInv
  <1> QED
    BY <1>1, EngineSafe, PTL

\* Between the passes of a leader its evaluator holds as firing exactly what the
\* table shows open, and every message a channel accepted is of a row on record
\* or purged (Checkpoint's undo, Restore, Reset).
THEOREM TableAgrees == Spec => []TableFollows
  <1>1. EngineInv => TableFollows
    <2> SUFFICES ASSUME EngineInv PROVE TableFollows
      OBVIOUS
    <2>1. ASSUME ~overlapped, ~unsure, NEW p \in Procs, holder = p, proc[p].loaded
          PROVE  {<<a.key, a.start>> : a \in Open} =
                 {<<k, proc[p].eval[k].first>> : k \in {x \in Keys : proc[p].eval[x].firing}}
      <3> DEFINE ev == proc[p].eval
      <3>1. Follows(ev, Open)
        BY <2>1, Zenon DEF EngineInv, LeaderInv
      <3>2. \A a \in Open : a.key \in Keys
        BY Zenon DEF EngineInv, AlertsShape, Open, ShapedRow
      <3>3. \A a \in Open : a.key \in {x \in Keys : ev[x].firing} /\ <<a.key, a.start>> = <<a.key, ev[a.key].first>>
        BY <3>1, <3>2, Zenon DEF Follows
      <3>4. ASSUME NEW k \in Keys, ev[k].firing
            PROVE  \E a \in Open : <<k, ev[k].first>> = <<a.key, a.start>>
        <4>1. PICK a \in Open : a.key = k /\ a.start = ev[k].first
          BY <3>1, <3>4, Zenon DEF Follows
        <4> QED
          BY <4>1, Zenon
      <3> HIDE DEF ev
      <3>5. {<<a.key, a.start>> : a \in Open} \subseteq {<<k, ev[k].first>> : k \in {x \in Keys : ev[x].firing}}
        BY <3>3, Zenon
      <3>6. {<<k, ev[k].first>> : k \in {x \in Keys : ev[x].firing}} \subseteq {<<a.key, a.start>> : a \in Open}
        BY <3>4, Zenon
      <3>7. {<<a.key, a.start>> : a \in Open} = {<<k, ev[k].first>> : k \in {x \in Keys : ev[x].firing}}
        BY <3>5, <3>6, Zenon
      <3> QED
        BY <3>7, Zenon DEF ev
    <2>2. ASSUME NEW c \in DOMAIN inbox, NEW n \in DOMAIN inbox[c]
          PROVE  \/ \E a \in alerts : a.key = inbox[c][n].key /\ a.start = inbox[c][n].start
                 \/ Purged(inbox[c][n])
      <3>1. ShapedInbox(inbox)
        BY Zenon DEF EngineInv, AlertsShape
      <3>2. c \in Range(Channels)
        BY <3>1, Zenon DEF ShapedInbox
      <3>3. n \in 1 .. Len(inbox[c])
        BY <3>1, <3>2, Zenon DEF ShapedInbox
      <3>4. inbox[c][n] \in In(inbox[c])
        BY <3>3, Zenon DEF In
      <3> QED
        BY <3>2, <3>4, Zenon DEF EngineInv, RecordInv, OnRecord
    <2> QED
      BY <2>1, <2>2, Zenon DEF TableFollows
  <1> QED
    BY <1>1, EngineSafe, PTL

\* A FIRING is only sent while its episode is open in the table, as long as no
\* replica that lost its session was still in its pass (Notify, Settle).
THEOREM FiringCurrent == Spec => NeverStale
  <1>1. EngineInv /\ [Next]_vars => [FiringOpen]_vars
    BY SendsCurrent
  <1>2. NeverStale <=> [][FiringOpen]_vars
    BY PTL DEF NeverStale, FiringOpen
  <1> QED
    BY <1>1, <1>2, EngineSafe, PTL DEF Spec
=============================================================================
