---------------------------- MODULE EngineSteps -----------------------------
(***************************************************************************)
(* The alert engine (Alerts): the inductive invariant EngineInv relates     *)
(* the replicas' memory, the advisory lock, the tables and what the         *)
(* channels have, for any number of replicas, rules, channels and failures. *)
(* The steps that send a delivery, that fail, and the end of a pass keep it. *)
(***************************************************************************)
EXTENDS Alerts, TLAPS

-----------------------------------------------------------------------------
\* The alert engine: what a replica holds in memory.

ShapedId(id) ==
    /\ id = [key |-> id.key, start |-> id.start, phase |-> id.phase, channel |-> id.channel]
    /\ id.key \in Keys /\ id.channel \in Range(Channels)

ShapedDelivery(d) ==
    /\ d = [id |-> d.id, claimed |-> d.claimed, retry |-> d.retry, attempts |-> d.attempts,
            fresh |-> d.fresh]
    /\ ShapedId(d.id)
    /\ d.claimed \in BOOLEAN /\ d.retry \in BOOLEAN
    /\ d.attempts \in Nat /\ d.attempts < maxNotifyAttempts

\* What is in a queue, and a queue of deliveries.
In(ds) == {ds[n] : n \in 1 .. Len(ds)}
Queue(ds) == ds \in Seq(In(ds)) /\ \A d \in In(ds) : ShapedDelivery(d)

ShapedEpisode(ep) ==
    /\ ep = [first |-> ep.first, seen |-> ep.seen, firing |-> ep.firing]
    /\ ep.firing \in BOOLEAN

EngineFields == {"conn", "hasLock", "loaded", "pc", "ranAt", "expired", "published", "live", "todo",
                 "work", "pending", "eval", "purgedAt"}
Fields(e) == e = [f \in EngineFields |-> e[f]]

ShapedEngine(e) ==
    /\ Fields(e)
    /\ e.hasLock \in BOOLEAN /\ e.loaded \in BOOLEAN
    /\ e.todo \in Seq(Keys)
    /\ Queue(e.work) /\ Queue(e.pending)
    /\ e.eval = [k \in Keys |-> e.eval[k]]
    /\ \A k \in Keys : ShapedEpisode(e.eval[k])
    /\ ~e.loaded => \A k \in Keys : ~e.eval[k].firing
    /\ e.pc = "idle" => e.work = <<>>
    /\ e.pc # "idle" => e.loaded

ShapedRow(a) ==
    /\ a = [key |-> a.key, start |-> a.start, state |-> a.state, at |-> a.at]
    /\ a.key \in Keys /\ a.state \in {"firing", "resolved"}

ShapedClaim(c) ==
    c = [id |-> c.id, ok |-> c.ok, attempts |-> c.attempts, at |-> c.at] /\ ShapedId(c.id)

ShapedInbox(box) ==
    /\ box = [c \in Range(Channels) |-> box[c]]
    /\ \A c \in Range(Channels) : Len(box[c]) \in Nat /\ box[c] = [n \in 1 .. Len(box[c]) |-> box[c][n]]

AlertsShape ==
    /\ proc = [p \in Procs |-> proc[p]]
    /\ \A p \in Procs : ShapedEngine(proc[p])
    /\ \A a \in alerts : ShapedRow(a)
    /\ \A c \in claims : ShapedClaim(c)
    /\ ShapedInbox(inbox)

-----------------------------------------------------------------------------
\* The leader.

\* The lock is held by the session a replica believes to hold it with.
LockInv == \A p \in Procs : holder = p <=> proc[p].hasLock /\ proc[p].conn = "open"

\* An evaluator agrees with the table.
Follows(eval, rows) ==
    /\ \A a \in rows : eval[a.key].firing /\ eval[a.key].first = a.start
    /\ \A k \in Keys : eval[k].firing => \E a \in rows : a.key = k /\ a.start = eval[k].first

\* A FIRING that a replica works on is of an episode it holds as firing.
Current(e) == \A d \in In(e.work) : d.id.phase = "fire" =>
                  e.eval[d.id.key].firing /\ e.eval[d.id.key].first = d.id.start

\* As long as no pass ran beside another and no answer of the store was lost,
\* the replica that leads, or is in its last pass, agrees with the table, and a
\* FIRING that it works on is of an episode it holds as firing.
LeaderInv ==
    ~overlapped /\ ~unsure =>
        /\ \A a, b \in Open : a.key = b.key => a = b
        /\ \A p, q \in Procs : ~Idle(p) /\ ~Idle(q) => p = q
        /\ \A p \in Procs :
              /\ ~Idle(p) => holder \in {p, Nobody}
              /\ proc[p].loaded /\ (holder = p \/ ~Idle(p)) => Follows(proc[p].eval, Open)
              /\ Current(proc[p])

-----------------------------------------------------------------------------
\* The deliveries.

OnRecord(id) == \E a \in alerts : a.key = id.key /\ a.start = id.start

Gone(id, G) == <<id.key, id.start>> \in G

\* What a replica with these queues holds, what it will answer for, as it claimed
\* it or tried to, and what it holds a claim for that is still on record.
Memory(work, pending) == In(work) \cup In(pending)
Held(work, pending) == {d.id : d \in Memory(work, pending)}
Owned(work, pending) == {d.id : d \in {x \in Memory(work, pending) : x.claimed \/ x.retry}}
Holds(work, pending, G) ==
    {d.id : d \in {x \in Memory(work, pending) : x.claimed /\ ~Gone(x.id, G)}}

\* Two deliveries that are not one claim.
Apart(d, f, G) == d.claimed /\ f.claimed /\ d.id = f.id => Gone(d.id, G)

\* A replica holds a claimed delivery once.
Single(work, pending, G) ==
    /\ \A m, n \in 1 .. Len(work) : m # n => Apart(work[m], work[n], G)
    /\ \A m, n \in 1 .. Len(pending) : m # n => Apart(pending[m], pending[n], G)
    /\ \A d \in In(work), f \in In(pending) : Apart(d, f, G)

HeldBy(p) == Held(proc[p].work, proc[p].pending)
OwnedBy(p) == Owned(proc[p].work, proc[p].pending)
HoldsOf(p) == Holds(proc[p].work, proc[p].pending, purged)

Accepted(id) == \E c \in Range(Channels) : id \in In(inbox[c])

\* A claim is one delivery of one replica, on record until it is purged, and not
\* in the channel while the delivery is still to be made.
ClaimInv ==
    /\ \A p \in Procs : Single(proc[p].work, proc[p].pending, purged)
    /\ \A p, q \in Procs : p # q => HoldsOf(p) \cap HoldsOf(q) = {}
    /\ \A p \in Procs : \A id \in HoldsOf(p) : Claimed(id) /\ (Accepted(id) => id \in blurred)
    /\ \A c \in Range(Channels) : \A id \in In(inbox[c]) : Claimed(id) \/ Purged(id)
    /\ DeliveredOnce

\* A message in memory or in a channel is of a row.
RecordInv ==
    /\ \A p \in Procs : \A id \in HeldBy(p) : OnRecord(id) \/ Purged(id)
    /\ \A c \in Range(Channels) : \A id \in In(inbox[c]) : OnRecord(id) \/ Purged(id)

\* Somebody answers for a claim: the replica that made it, or that tried to and
\* did not hear, until it is accepted, given up, excused or lost unrecorded.
Answered(id) ==
    \/ id \in excused \cup unrecorded
    \/ \E p \in Procs : id \in OwnedBy(p)
    \/ id \in In(inbox[id.channel])
    \/ \E c \in claims : c.id = id /\ c.attempts >= maxNotifyAttempts

AnswerInv ==
    /\ \A c \in claims : Purged(c.id) \/ Answered(c.id)
    /\ \A id \in announced \ excused :
          Claimed(id) \/ Purged(id) \/ \E p \in Procs : id \in HeldBy(p)

-----------------------------------------------------------------------------
\* The queues.

Upto(S, m) == {j \in S : j <= m}

\* The places of a set have the ranks 1, 2, ... in their order.
Ranked(S) ==
    /\ Cardinality(S) \in Nat
    /\ \A m \in S : Cardinality(Upto(S, m)) \in 1 .. Cardinality(S)
    /\ \A n \in 1 .. Cardinality(S) : \E m \in S : Cardinality(Upto(S, m)) = n
    /\ \A m, k \in S : Cardinality(Upto(S, m)) = Cardinality(Upto(S, k)) => m = k

\* That holds of every set of places.  EngineProofs shows it (AllRanked) from the
\* library's facts about finite sets; the lemmas here that need it assume it.
Ranks == \A L \in Nat : \A S \in SUBSET (1 .. L) : Ranked(S)

\* A queue has what another one has at the places of S, each place once.
Picks(new, ds, S) ==
    \E g \in [1 .. Cardinality(S) -> S] :
        /\ \A n \in 1 .. Cardinality(S) : new[n] = ds[g[n]]
        /\ \A m, n \in 1 .. Cardinality(S) : g[m] = g[n] => m = n

\* dropPending: what is left is the queue at the places of S, each place once.
LEMMA AtPlaces ==
    ASSUME Ranks, NEW ds, Len(ds) \in Nat, NEW S \in SUBSET (1 .. Len(ds))
    PROVE  /\ Len(At(ds, S)) = Cardinality(S) /\ Cardinality(S) \in Nat
           /\ At(ds, S) = [n \in 1 .. Len(At(ds, S)) |-> At(ds, S)[n]]
           /\ In(At(ds, S)) = {ds[m] : m \in S}
           /\ Picks(At(ds, S), ds, S)
  <1> DEFINE c == Cardinality(S)
             g == [n \in 1 .. c |-> CHOOSE m \in S : Cardinality(Upto(S, m)) = n]
             new == [n \in 1 .. c |-> ds[g[n]]]
  <1>1. c \in Nat /\ \A n \in 1 .. c : \E m \in S : Cardinality(Upto(S, m)) = n
    BY Zenon DEF Ranks, Ranked
  <1>2. \A m, k \in S : Cardinality(Upto(S, m)) = Cardinality(Upto(S, k)) => m = k
    BY Zenon DEF Ranks, Ranked
  <1>3. \A n \in 1 .. c : g[n] \in S /\ Cardinality(Upto(S, g[n])) = n
    BY <1>1
  <1>4. g \in [1 .. c -> S]
    BY <1>3, Zenon
  <1>5. At(ds, S) = new
    <2>1. \A n \in 1 .. c : g[n] = CHOOSE m \in S : Cardinality(Upto(S, m)) = n
      BY Zenon
    <2> QED
      BY <2>1 DEF At, Upto
  <1>6. \A m, n \in 1 .. c : g[m] = g[n] => m = n
    BY <1>3, Zenon
  <1> HIDE DEF g
  <1>7. \A k \in S : \E n \in 1 .. c : g[n] = k
    <2> TAKE k \in S
    <2>1. Cardinality(Upto(S, k)) \in 1 .. c
      BY Zenon DEF Ranks, Ranked
    <2> QED
      BY <1>2, <1>3, <2>1, Zenon
  <1>8. Len(new) = c /\ new = [n \in 1 .. Len(new) |-> new[n]]
    <2> HIDE DEF c
    <2> QED
      BY <1>1
  <1>9. {new[n] : n \in 1 .. c} = {ds[m] : m \in S}
    <2> HIDE DEF c
    <2> QED
      BY <1>4, <1>7, Zenon
  <1>10. \A n \in 1 .. c : new[n] = ds[g[n]]
    BY <1>4, Zenon
  <1> HIDE DEF new, c
  <1>11. Picks(new, ds, S)
    BY <1>4, <1>6, <1>10, Zenon DEF Picks, c
  <1>12. In(new) = {ds[m] : m \in S}
    BY <1>8, <1>9, Zenon DEF In
  <1> QED
    BY <1>1, <1>5, <1>8, <1>11, <1>12, Zenon DEF c

\* A function on 1 .. n is a queue of what is in it.
LEMMA IsQueue ==
    ASSUME NEW ds, Len(ds) \in Nat, ds = [n \in 1 .. Len(ds) |-> ds[n]]
    PROVE  ds \in Seq(In(ds))
  <1>1. \A n \in 1 .. Len(ds) : ds[n] \in In(ds)
    BY Zenon DEF In
  <1> QED
    BY <1>1

\* A sequence is a queue of what is in it.
LEMMA OwnQueue ==
    ASSUME NEW S, NEW ds \in Seq(S)
    PROVE  ds \in Seq(In(ds)) /\ In(ds) \subseteq S
  <1>1. Len(ds) \in Nat /\ ds \in [1 .. Len(ds) -> S]
    OBVIOUS
  <1>2. ds = [n \in 1 .. Len(ds) |-> ds[n]]
    BY <1>1
  <1>3. In(ds) \subseteq S
    BY <1>1, Zenon DEF In
  <1> QED
    BY <1>1, <1>2, <1>3, IsQueue, Zenon

\* What dropPending leaves of a queue.
LEMMA AtQueue ==
    ASSUME Ranks, NEW ds, Queue(ds), NEW S \in SUBSET (1 .. Len(ds))
    PROVE  Queue(At(ds, S)) /\ In(At(ds, S)) = {ds[m] : m \in S} /\ In(At(ds, S)) \subseteq In(ds)
  <1>1. Len(ds) \in Nat
    BY DEF Queue
  <1>2. /\ Len(At(ds, S)) \in Nat /\ At(ds, S) = [n \in 1 .. Len(At(ds, S)) |-> At(ds, S)[n]]
        /\ In(At(ds, S)) = {ds[m] : m \in S}
    <2>1. Len(At(ds, S)) = Cardinality(S) /\ Cardinality(S) \in Nat
      BY <1>1, AtPlaces
    <2>2. At(ds, S) = [n \in 1 .. Len(At(ds, S)) |-> At(ds, S)[n]]
      BY <1>1, AtPlaces
    <2>3. In(At(ds, S)) = {ds[m] : m \in S}
      BY <1>1, AtPlaces
    <2> QED
      BY <2>1, <2>2, <2>3, Zenon
  <1>3. At(ds, S) \in Seq(In(At(ds, S)))
    BY <1>2, IsQueue, Zenon
  <1>4. In(At(ds, S)) \subseteq In(ds)
    BY <1>2, Zenon DEF In
  <1> QED
    BY <1>2, <1>3, <1>4, Zenon DEF Queue

\* The work without its head.
LEMMA TailQueue ==
    ASSUME NEW w, Queue(w), w # <<>>
    PROVE  /\ Queue(Tail(w)) /\ Head(w) = w[1] /\ Len(w) \in Nat /\ Len(w) > 0
           /\ ShapedDelivery(Head(w)) /\ Head(w) \in In(w)
           /\ Len(Tail(w)) = Len(w) - 1
           /\ \A n \in 1 .. Len(Tail(w)) : n + 1 \in 1 .. Len(w) /\ Tail(w)[n] = w[n + 1]
           /\ In(w) = In(Tail(w)) \cup {Head(w)}
  <1>1. w \in Seq(In(w)) /\ Len(w) \in Nat /\ Len(w) > 0 /\ Head(w) = w[1] /\ 1 \in 1 .. Len(w)
    BY DEF Queue
  <1>2. /\ Len(Tail(w)) = Len(w) - 1 /\ Tail(w) \in Seq(In(w))
        /\ \A n \in 1 .. Len(Tail(w)) : n + 1 \in 1 .. Len(w) /\ Tail(w)[n] = w[n + 1]
    BY <1>1
  <1>3. Len(Tail(w)) \in Nat
    BY <1>1, <1>2
  <1>4. Tail(w) \in Seq(In(Tail(w)))
    BY <1>2, OwnQueue, Zenon
  <1>5. Head(w) \in In(w)
    BY <1>1, Zenon DEF In
  <1>6. ASSUME NEW n \in 1 .. Len(w), n # 1
        PROVE  n - 1 \in 1 .. Len(Tail(w)) /\ Tail(w)[n - 1] = w[n]
    BY <1>1, <1>2, <1>6
  <1>7. In(w) \subseteq In(Tail(w)) \cup {Head(w)}
    BY <1>1, <1>6, Zenon DEF In
  <1>8. In(Tail(w)) \subseteq In(w)
    BY <1>2, Zenon DEF In
  <1> QED
    BY <1>1, <1>2, <1>4, <1>5, <1>7, <1>8, Zenon DEF Queue

\* A queue with one delivery more.
LEMMA AppendQueue ==
    ASSUME NEW q, Queue(q), NEW d, ShapedDelivery(d)
    PROVE  /\ Queue(Append(q, d)) /\ Len(q) \in Nat /\ Len(Append(q, d)) = Len(q) + 1
           /\ \A n \in 1 .. Len(q) : Append(q, d)[n] = q[n]
           /\ Append(q, d)[Len(q) + 1] = d
           /\ In(Append(q, d)) = In(q) \cup {d}
  <1>1. q \in Seq(In(q)) /\ Len(q) \in Nat
    BY DEF Queue
  <1>2. /\ Len(Append(q, d)) = Len(q) + 1
        /\ Append(q, d) \in Seq(In(q) \cup {d})
        /\ \A n \in 1 .. Len(q) : Append(q, d)[n] = q[n]
        /\ Append(q, d)[Len(q) + 1] = d
    BY <1>1
  <1>3. Len(Append(q, d)) \in Nat
    BY <1>1, <1>2
  <1>4. Append(q, d) \in Seq(In(Append(q, d)))
    BY <1>2, OwnQueue, Zenon
  <1>5. \A n \in 1 .. Len(Append(q, d)) : n \in 1 .. Len(q) \/ n = Len(q) + 1
    BY <1>1, <1>2
  <1>6. (\A n \in 1 .. Len(q) : n \in 1 .. Len(Append(q, d))) /\ Len(q) + 1 \in 1 .. Len(Append(q, d))
    BY <1>1, <1>2
  <1>7. In(Append(q, d)) = In(q) \cup {d}
    BY <1>2, <1>5, <1>6, Zenon DEF In
  <1> QED
    BY <1>1, <1>2, <1>4, <1>7, Zenon DEF Queue

-----------------------------------------------------------------------------
\* What a step makes of a replica's memory.

\* Done: the head of the work is dropped.
LEMMA DropHead ==
    ASSUME NEW w, NEW q, NEW G, Queue(w), Queue(q), w # <<>>, Single(w, q, G)
    PROVE  /\ Single(Tail(w), q, G)
           /\ Memory(w, q) = Memory(Tail(w), q) \cup {Head(w)}
           /\ Head(w).claimed /\ ~Gone(Head(w).id, G) => Head(w).id \notin Holds(Tail(w), q, G)
  <1>1. Memory(w, q) = Memory(Tail(w), q) \cup {Head(w)}
    BY TailQueue, Zenon DEF Memory
  <1>2. /\ Head(w) = w[1] /\ Len(w) \in Nat /\ Len(w) > 0 /\ Len(Tail(w)) = Len(w) - 1
        /\ \A n \in 1 .. Len(Tail(w)) : n + 1 \in 1 .. Len(w) /\ Tail(w)[n] = w[n + 1]
        /\ In(w) = In(Tail(w)) \cup {Head(w)}
    BY TailQueue, Zenon
  <1>3. ASSUME NEW m \in 1 .. Len(Tail(w)), NEW n \in 1 .. Len(Tail(w)), m # n
        PROVE  Apart(Tail(w)[m], Tail(w)[n], G)
    <2>1. m + 1 # n + 1
      BY <1>3
    <2> QED
      BY <1>2, <2>1, Zenon DEF Single
  <1>4. Single(Tail(w), q, G)
    BY <1>2, <1>3, Zenon DEF Single
  <1>5. ASSUME NEW d \in In(Tail(w))
        PROVE  Apart(Head(w), d, G)
    <2>1. PICK n \in 1 .. Len(Tail(w)) : d = Tail(w)[n]
      BY Zenon DEF In
    <2>2. 1 # n + 1 /\ 1 \in 1 .. Len(w)
      BY <1>2
    <2> QED
      BY <1>2, <2>1, <2>2, Zenon DEF Single
  <1>6. ASSUME NEW d \in In(q)
        PROVE  Apart(Head(w), d, G)
    BY <1>2, Zenon DEF Single
  <1>7. ASSUME Head(w).claimed, ~Gone(Head(w).id, G), Head(w).id \in Holds(Tail(w), q, G)
        PROVE  FALSE
    <2>1. PICK d \in Memory(Tail(w), q) : d.claimed /\ d.id = Head(w).id
      BY <1>7, Zenon DEF Holds
    <2> QED
      BY <1>5, <1>6, <1>7, <2>1, Zenon DEF Apart, Memory
  <1> QED
    BY <1>1, <1>4, <1>7, Zenon

\* keep and keepUnclaimed: the head of the work goes to the pending deliveries.
LEMMA KeepHead ==
    ASSUME NEW w, NEW q, NEW G, Queue(w), Queue(q), w # <<>>, Single(w, q, G),
           NEW d, ShapedDelivery(d), d.id = Head(w).id, d.claimed = Head(w).claimed
    PROVE  /\ Single(Tail(w), Append(q, d), G)
           /\ Memory(Tail(w), Append(q, d)) = Memory(Tail(w), q) \cup {d}
  <1>1. Memory(Tail(w), Append(q, d)) = Memory(Tail(w), q) \cup {d}
    BY AppendQueue DEF Memory
  <1>2. /\ Head(w) = w[1] /\ Len(w) \in Nat /\ Len(w) > 0
        /\ \A n \in 1 .. Len(Tail(w)) : n + 1 \in 1 .. Len(w) /\ Tail(w)[n] = w[n + 1]
        /\ In(w) = In(Tail(w)) \cup {Head(w)}
    BY TailQueue, Zenon
  <1>3. /\ Len(q) \in Nat /\ Len(Append(q, d)) = Len(q) + 1
        /\ \A n \in 1 .. Len(q) : Append(q, d)[n] = q[n]
        /\ Append(q, d)[Len(q) + 1] = d
        /\ In(Append(q, d)) = In(q) \cup {d}
    BY AppendQueue
  <1>4. Single(Tail(w), q, G)
    BY DropHead, Zenon
  <1>5. ASSUME NEW f \in In(q)
        PROVE  Apart(d, f, G) /\ Apart(f, d, G)
    <2>1. Apart(Head(w), f, G)
      BY <1>2, Zenon DEF Single
    <2> QED
      BY <2>1, Zenon DEF Apart
  <1>6. ASSUME NEW f \in In(Tail(w))
        PROVE  Apart(f, d, G)
    <2>1. PICK n \in 1 .. Len(Tail(w)) : f = Tail(w)[n]
      BY Zenon DEF In
    <2>2. n + 1 # 1 /\ 1 \in 1 .. Len(w)
      BY <1>2
    <2>3. Apart(f, Head(w), G)
      BY <1>2, <2>1, <2>2, Zenon DEF Single
    <2> QED
      BY <2>3, Zenon DEF Apart
  <1>7. ASSUME NEW m \in 1 .. Len(Append(q, d)), NEW n \in 1 .. Len(Append(q, d)), m # n
        PROVE  Apart(Append(q, d)[m], Append(q, d)[n], G)
    <2>1. (m \in 1 .. Len(q) \/ m = Len(q) + 1) /\ (n \in 1 .. Len(q) \/ n = Len(q) + 1)
      BY <1>3
    <2>2. CASE m \in 1 .. Len(q) /\ n \in 1 .. Len(q)
      BY <1>3, <1>7, <2>2, Zenon DEF Single
    <2>3. CASE m = Len(q) + 1 /\ n \in 1 .. Len(q)
      BY <1>3, <1>5, <2>3, Zenon DEF In
    <2>4. CASE n = Len(q) + 1 /\ m \in 1 .. Len(q)
      BY <1>3, <1>5, <2>4, Zenon DEF In
    <2> QED
      BY <1>7, <2>1, <2>2, <2>3, <2>4, Zenon
  <1>8. ASSUME NEW f \in In(Tail(w)), NEW x \in In(Append(q, d))
        PROVE  Apart(f, x, G)
    BY <1>3, <1>4, <1>6, Zenon DEF Single
  <1> QED
    BY <1>1, <1>4, <1>7, <1>8, Zenon DEF Single

\* ClaimNotification: the head of the work is claimed.
MadeClaim(w, q, G, d, v) ==
    /\ Queue(v) /\ v # <<>> /\ Single(v, q, G)
    /\ d.id = Head(w).id /\ d.claimed /\ d.retry = Head(w).retry
    /\ Memory(v, q) \subseteq Memory(w, q) \cup {d}
    /\ Memory(w, q) \cup {d} \subseteq Memory(v, q) \cup {Head(w)}
    /\ In(v) \subseteq In(w) \cup {d}

\* The head of the work can be claimed: no other delivery of the replica has its id
\* under a claim.
LEMMA ClaimHead ==
    ASSUME NEW w, NEW q, NEW G, Queue(w), Queue(q), w # <<>>, Single(w, q, G),
           Head(w).id \notin Holds(w, q, G),
           NEW d, d = [Head(w) EXCEPT !.claimed = TRUE],
           NEW v, v = [w EXCEPT ![1] = d]
    PROVE  MadeClaim(w, q, G, d, v)
  <1>1. /\ Head(w) = w[1] /\ Len(w) \in Nat /\ Len(w) > 0 /\ w \in Seq(In(w))
        /\ ShapedDelivery(Head(w)) /\ 1 \in 1 .. Len(w)
    BY TailQueue DEF Queue
  <1>2. /\ d.id = Head(w).id /\ d.claimed = TRUE /\ d.retry = Head(w).retry /\ ShapedDelivery(d)
    <2>1. d = [id |-> Head(w).id, claimed |-> TRUE, retry |-> Head(w).retry,
               attempts |-> Head(w).attempts, fresh |-> Head(w).fresh]
      BY <1>1, Zenon DEF ShapedDelivery
    <2> QED
      BY <1>1, <2>1, Zenon DEF ShapedDelivery
  <1>3. /\ v \in Seq(In(w) \cup {d}) /\ Len(v) = Len(w) /\ v[1] = d
        /\ \A n \in 1 .. Len(w) : n # 1 => v[n] = w[n]
    <2>1. w \in [1 .. Len(w) -> In(w)]
      BY <1>1
    <2>2. /\ v \in [1 .. Len(w) -> In(w) \cup {d}] /\ v[1] = d
          /\ \A n \in 1 .. Len(w) : n # 1 => v[n] = w[n]
      BY <1>1, <2>1, Zenon
    <2>3. v \in Seq(In(w) \cup {d}) /\ Len(v) = Len(w)
      BY <1>1, <2>2
    <2> QED
      BY <2>2, <2>3, Zenon
  <1>4. v \in Seq(In(v))
    BY <1>3, OwnQueue, Zenon
  <1>5. In(v) \subseteq In(w) \cup {d} /\ In(w) \cup {d} \subseteq In(v) \cup {Head(w)}
    <2>1. \A n \in 1 .. Len(v) : v[n] \in In(w) \cup {d}
      BY <1>3, Zenon DEF In
    <2>2. \A n \in 1 .. Len(w) : w[n] \in In(v) \cup {Head(w)}
      BY <1>1, <1>3, Zenon DEF In
    <2>3. d \in In(v)
      BY <1>1, <1>3, ZenonT(40) DEF In
    <2> QED
      BY <2>1, <2>2, <2>3, ZenonT(40) DEF In
  <1>6. Queue(v)
    BY <1>2, <1>4, <1>5, Zenon DEF Queue
  <1>7. v # <<>>
    BY <1>1, <1>3
  <1>8. ASSUME NEW f \in Memory(w, q)
        PROVE  Apart(d, f, G) /\ Apart(f, d, G)
    <2>1. f.claimed /\ f.id = d.id => Gone(d.id, G)
      BY <1>2, Zenon DEF Holds
    <2> QED
      BY <2>1, Zenon DEF Apart
  <1>9. ASSUME NEW m \in 1 .. Len(v), NEW n \in 1 .. Len(v), m # n
        PROVE  Apart(v[m], v[n], G)
    <2>1. CASE m # 1 /\ n # 1
      BY <1>3, <1>9, <2>1, Zenon DEF Single
    <2>2. CASE m = 1
      BY <1>3, <1>8, <1>9, <2>2, Zenon DEF Memory, In
    <2>3. CASE n = 1
      BY <1>3, <1>8, <1>9, <2>3, Zenon DEF Memory, In
    <2> QED
      BY <2>1, <2>2, <2>3, Zenon
  <1>10. ASSUME NEW f \in In(v), NEW x \in In(q)
         PROVE  Apart(f, x, G)
    BY <1>5, <1>8, Zenon DEF Single, Memory
  <1>11. Single(v, q, G)
    BY <1>9, <1>10, Zenon DEF Single
  <1> QED
    BY <1>2, <1>5, <1>6, <1>7, <1>11, Zenon DEF Memory, MadeClaim

\* dropPending takes no delivery twice.
LEMMA AtApart ==
    ASSUME Ranks, NEW q, NEW G, Queue(q), NEW S \in SUBSET (1 .. Len(q)),
           \A m, n \in 1 .. Len(q) : m # n => Apart(q[m], q[n], G)
    PROVE  \A m, n \in 1 .. Len(At(q, S)) : m # n => Apart(At(q, S)[m], At(q, S)[n], G)
  <1>1. Len(q) \in Nat
    BY DEF Queue
  <1>2. Len(At(q, S)) = Cardinality(S)
    BY <1>1, AtPlaces
  <1>3. PICK g \in [1 .. Cardinality(S) -> S] :
            /\ \A n \in 1 .. Cardinality(S) : At(q, S)[n] = q[g[n]]
            /\ \A m, n \in 1 .. Cardinality(S) : g[m] = g[n] => m = n
    <2>1. Picks(At(q, S), q, S)
      BY <1>1, AtPlaces
    <2> QED
      BY <2>1, Zenon DEF Picks
  <1>4. \A n \in 1 .. Cardinality(S) : g[n] \in 1 .. Len(q)
    BY <1>3, Zenon
  <1>5. ASSUME NEW m \in 1 .. Cardinality(S), NEW n \in 1 .. Cardinality(S), m # n
        PROVE  Apart(At(q, S)[m], At(q, S)[n], G)
    <2>1. g[m] # g[n]
      BY <1>3, <1>5, Zenon
    <2>2. At(q, S)[m] = q[g[m]] /\ At(q, S)[n] = q[g[n]]
      BY <1>3, Zenon
    <2>3. g[m] \in 1 .. Len(q) /\ g[n] \in 1 .. Len(q)
      BY <1>4, Zenon
    <2>4. Apart(q[g[m]], q[g[n]], G)
      BY <2>1, <2>3, Zenon
    <2> QED
      BY <2>2, <2>4, Zenon
  <1> QED
    BY <1>2, <1>5, Zenon

\* Notify: a delivery for each channel.
NewWork(key, start, phase) == [n \in DOMAIN Channels |-> Delivery(key, start, phase, Channels[n])]

AllNew(w, key, start, phase) ==
    \A d \in In(w) : /\ d.claimed = FALSE /\ d.retry = FALSE
                     /\ d.id.key = key /\ d.id.start = start /\ d.id.phase = phase

\* What Notify makes is a queue of deliveries nobody has claimed.
LEMMA NewQueue ==
    ASSUME NEW key \in Keys, NEW start, NEW phase, NEW w, w = NewWork(key, start, phase)
    PROVE  Queue(w) /\ AllNew(w, key, start, phase)
  <1>1. Channels \in Seq(Range(Channels)) /\ maxNotifyAttempts \in Nat /\ maxNotifyAttempts > 0
    BY AlertsAssumption
  <1>2. DOMAIN Channels = 1 .. Len(Channels) /\ Len(Channels) \in Nat
        /\ \A n \in 1 .. Len(Channels) : Channels[n] \in Range(Channels)
    BY <1>1
  <1>3. Len(w) = Len(Channels) /\ w = [n \in 1 .. Len(w) |-> w[n]]
    BY <1>2 DEF NewWork
  <1>4. w \in Seq(In(w))
    BY <1>2, <1>3, IsQueue, Zenon
  <1>5. ASSUME NEW d \in In(w)
        PROVE  /\ ShapedDelivery(d) /\ d.claimed = FALSE /\ d.retry = FALSE
               /\ d.id.key = key /\ d.id.start = start /\ d.id.phase = phase
    <2>1. PICK n \in 1 .. Len(Channels) : d = Delivery(key, start, phase, Channels[n])
      <3>1. PICK n \in 1 .. Len(w) : d = w[n]
        BY Zenon DEF In
      <3> QED
        BY <1>2, <1>3, <3>1 DEF NewWork
    <2>2. Channels[n] \in Range(Channels)
      BY <1>2
    <2>3. /\ d = [id |-> d.id, claimed |-> FALSE, retry |-> FALSE, attempts |-> 0, fresh |-> TRUE]
          /\ d.id = [key |-> key, start |-> start, phase |-> phase, channel |-> Channels[n]]
      BY <2>1 DEF Delivery
    <2>4. /\ d.claimed = FALSE /\ d.retry = FALSE /\ d.attempts = 0 /\ d.fresh = TRUE
          /\ d.id.key = key /\ d.id.start = start /\ d.id.phase = phase /\ d.id.channel = Channels[n]
      BY <2>3
    <2>5. 0 \in Nat /\ 0 < maxNotifyAttempts
      BY <1>1
    <2>6. d = [id |-> d.id, claimed |-> d.claimed, retry |-> d.retry, attempts |-> d.attempts,
               fresh |-> d.fresh]
      BY <2>3, <2>4
    <2>7. ShapedId(d.id)
      <3>1. d.id = [key |-> d.id.key, start |-> d.id.start, phase |-> d.id.phase,
                    channel |-> d.id.channel]
        BY <2>3, <2>4
      <3> QED
        BY <2>2, <2>4, <3>1, Zenon DEF ShapedId
    <2> QED
      BY <2>4, <2>5, <2>6, <2>7, Zenon DEF ShapedDelivery
  <1> QED
    BY <1>4, <1>5, Zenon DEF Queue, AllNew

\* Nothing is in the empty queue.
LEMMA EmptyQueue == Queue(<<>>) /\ In(<<>>) = {}
  <1>1. Len(<<>>) = 0 /\ 1 .. 0 = {} /\ <<>> \in Seq({})
    OBVIOUS
  <1>2. In(<<>>) = {}
    BY <1>1, Zenon DEF In
  <1> QED
    BY <1>1, <1>2, Zenon DEF Queue

\* Settle and Retry: what is not settled is split into the work and the rest.
Split(q, S, kept, w, r, G) ==
    /\ Queue(w) /\ Queue(r) /\ Single(w, r, G)
    /\ Memory(w, r) = In(kept) /\ In(kept) = {q[m] : m \in S} /\ In(kept) \subseteq In(q)

\* Settle and Retry split what they keep, and keep the deliveries apart.
LEMMA RetryQueues ==
    ASSUME Ranks, NEW q, NEW G, Queue(q), NEW S \in SUBSET (1 .. Len(q)),
           \A m, n \in 1 .. Len(q) : m # n => Apart(q[m], q[n], G),
           NEW kept, kept = At(q, S),
           NEW w, w = At(kept, {n \in DOMAIN kept : ~kept[n].fresh}),
           NEW r, r = At(kept, {n \in DOMAIN kept : kept[n].fresh})
    PROVE  Split(q, S, kept, w, r, G)
  <1> DEFINE A == {n \in DOMAIN kept : ~kept[n].fresh}
             B == {n \in DOMAIN kept : kept[n].fresh}
  <1>1. Queue(kept) /\ In(kept) = {q[m] : m \in S} /\ In(kept) \subseteq In(q)
    BY AtQueue, Zenon
  <1>2. DOMAIN kept = 1 .. Len(kept)
    BY <1>1 DEF Queue
  <1>3. A \in SUBSET (1 .. Len(kept)) /\ B \in SUBSET (1 .. Len(kept))
    BY <1>2, Zenon
  <1>4. \A m, n \in 1 .. Len(kept) : m # n => Apart(kept[m], kept[n], G)
    BY AtApart, Zenon
  <1>w. w = At(kept, A) /\ r = At(kept, B) /\ \A n \in 1 .. Len(kept) : n \in A <=> n \notin B
    BY <1>2, Zenon
  <1> HIDE DEF A, B
  <1>5. Queue(w) /\ In(w) = {kept[m] : m \in A}
    <2>1. Queue(At(kept, A)) /\ In(At(kept, A)) = {kept[m] : m \in A}
      BY <1>1, <1>3, AtQueue
    <2> QED
      BY <1>w, <2>1, Zenon
  <1>6. Queue(r) /\ In(r) = {kept[m] : m \in B}
    <2>1. Queue(At(kept, B)) /\ In(At(kept, B)) = {kept[m] : m \in B}
      BY <1>1, <1>3, AtQueue
    <2> QED
      BY <1>w, <2>1, Zenon
  <1>7. \A m, n \in 1 .. Len(w) : m # n => Apart(w[m], w[n], G)
    BY <1>1, <1>3, <1>4, <1>w, AtApart, Zenon
  <1>8. \A m, n \in 1 .. Len(r) : m # n => Apart(r[m], r[n], G)
    BY <1>1, <1>3, <1>4, <1>w, AtApart, Zenon
  <1>9. ASSUME NEW d \in In(w), NEW f \in In(r)
        PROVE  Apart(d, f, G)
    <2>1. PICK a \in A : d = kept[a]
      BY <1>5, Zenon
    <2>2. PICK b \in B : f = kept[b]
      BY <1>6, Zenon
    <2>3. a # b
      BY <1>3, <1>w, Zenon
    <2> QED
      BY <1>3, <1>4, <2>1, <2>2, <2>3, Zenon
  <1>10. Memory(w, r) = In(kept)
    <2>1. \A n \in 1 .. Len(kept) : n \in A \/ n \in B
      BY <1>w, Zenon
    <2>2. In(kept) \subseteq In(w) \cup In(r)
      BY <1>5, <1>6, <2>1, Zenon DEF In
    <2>3. In(w) \subseteq In(kept) /\ In(r) \subseteq In(kept)
      BY <1>1, <1>3, <1>w, AtQueue, Zenon
    <2> QED
      BY <2>2, <2>3, Zenon DEF Memory
  <1> QED
    BY <1>1, <1>5, <1>6, <1>7, <1>8, <1>9, <1>10, Zenon DEF Single, Split

\* A delivery that is made due is the same delivery.
LEMMA DueDelivery ==
    ASSUME NEW d, ShapedDelivery(d), NEW f, f = [d EXCEPT !.fresh = FALSE]
    PROVE  ShapedDelivery(f) /\ f.id = d.id /\ f.claimed = d.claimed /\ f.retry = d.retry
  <1>1. f = [id |-> d.id, claimed |-> d.claimed, retry |-> d.retry, attempts |-> d.attempts,
             fresh |-> FALSE]
    BY Zenon DEF ShapedDelivery
  <1>2. f.id = d.id /\ f.claimed = d.claimed /\ f.retry = d.retry /\ f.attempts = d.attempts
        /\ f.fresh = FALSE
    BY <1>1, Zenon
  <1>3. f = [id |-> f.id, claimed |-> f.claimed, retry |-> f.retry, attempts |-> f.attempts,
             fresh |-> f.fresh]
    BY <1>1, <1>2, Zenon
  <1> QED
    BY <1>2, <1>3, Zenon DEF ShapedDelivery

\* So is one that is counted and kept.
Counted(d, n) == [d EXCEPT !.attempts = n]
Again(b) == [b EXCEPT !.retry = TRUE, !.fresh = TRUE]

DeliveryFields == {"id", "claimed", "retry", "attempts", "fresh"}
Formed(d) == d = [x \in DeliveryFields |-> d[x]]

\* A delivery as a record and as a function of its fields are the same.
LEMMA FormedDelivery ==
    ASSUME NEW d
    PROVE  Formed(d) <=> d = [id |-> d.id, claimed |-> d.claimed, retry |-> d.retry,
                              attempts |-> d.attempts, fresh |-> d.fresh]
  BY SMT DEF Formed, DeliveryFields

\* keep: a delivery that was counted and kept for another pass has its shape.
LEMMA KeptDelivery ==
    ASSUME NEW d, ShapedDelivery(d), NEW n \in Nat, n < maxNotifyAttempts
    PROVE  LET f == Again(Counted(d, n))
           IN  /\ ShapedDelivery(f) /\ f.id = d.id /\ f.claimed = d.claimed /\ f.retry = TRUE
               /\ f.attempts = n
  <1> DEFINE b == Counted(d, n)
             f == Again(b)
  <1>1. Formed(d)
    BY FormedDelivery, Zenon DEF ShapedDelivery
  <1>2. Formed(b) /\ b.id = d.id /\ b.claimed = d.claimed /\ b.attempts = n
    BY <1>1, Zenon DEF Formed, DeliveryFields, Counted
  <1> HIDE DEF b
  <1>3. Formed(f) /\ f.id = b.id /\ f.claimed = b.claimed /\ f.attempts = b.attempts /\ f.retry = TRUE
    BY <1>2, Zenon DEF Formed, DeliveryFields, Again
  <1> HIDE DEF f
  <1>4. f = [id |-> f.id, claimed |-> f.claimed, retry |-> f.retry, attempts |-> f.attempts,
             fresh |-> f.fresh]
    BY <1>3, FormedDelivery, Zenon
  <1>5. /\ ShapedDelivery(f) /\ f.id = d.id /\ f.claimed = d.claimed /\ f.retry = TRUE
        /\ f.attempts = n
    BY <1>2, <1>3, <1>4, Zenon DEF ShapedDelivery
  <1> QED
    BY <1>5, Zenon DEF f, b

\* The end of a pass makes the deliveries that were kept due for the next one.
\* Deliveries that differ in no mark that is about claims.
Like(d, f) == d.id = f.id /\ d.claimed = f.claimed /\ d.retry = f.retry

Ended(q, r, G) ==
    /\ Queue(r) /\ Len(r) = Len(q)
    /\ \A m, n \in 1 .. Len(r) : m # n => Apart(r[m], r[n], G)
    /\ \A n \in 1 .. Len(q) : Like(r[n], q[n])

\* The end of a pass changes no id, claim or retry mark of the pending queue.
LEMMA EndQueue ==
    ASSUME NEW q, NEW G, Queue(q),
           \A m, n \in 1 .. Len(q) : m # n => Apart(q[m], q[n], G),
           NEW r, r = [n \in DOMAIN q |-> [q[n] EXCEPT !.fresh = FALSE]]
    PROVE  Ended(q, r, G)
  <1>1. q \in Seq(In(q)) /\ Len(q) \in Nat /\ DOMAIN q = 1 .. Len(q)
    BY DEF Queue
  <1>2. Len(r) = Len(q) /\ r = [n \in 1 .. Len(r) |-> r[n]]
    BY <1>1
  <1>3. r \in Seq(In(r))
    BY <1>1, <1>2, IsQueue, Zenon
  <1>4. ASSUME NEW n \in 1 .. Len(q)
        PROVE  /\ ShapedDelivery(r[n]) /\ r[n].id = q[n].id /\ r[n].claimed = q[n].claimed
               /\ r[n].retry = q[n].retry
    <2>1. ShapedDelivery(q[n]) /\ r[n] = [q[n] EXCEPT !.fresh = FALSE]
      BY <1>1, Zenon DEF Queue, In
    <2> QED
      BY <2>1, DueDelivery, Zenon
  <1>5. \A d \in In(r) : ShapedDelivery(d)
    BY <1>2, <1>4, Zenon DEF In
  <1>6. \A m, n \in 1 .. Len(r) : m # n => Apart(r[m], r[n], G)
    <2> SUFFICES ASSUME NEW m \in 1 .. Len(q), NEW n \in 1 .. Len(q), m # n
                 PROVE  Apart(r[m], r[n], G)
      BY <1>2, Zenon
    <2>1. Apart(q[m], q[n], G)
      BY Zenon
    <2>2. r[m].id = q[m].id /\ r[m].claimed = q[m].claimed /\ r[n].id = q[n].id /\ r[n].claimed = q[n].claimed
      BY <1>4, Zenon
    <2> QED
      BY <2>1, <2>2, Zenon DEF Apart
  <1> QED
    BY <1>1, <1>2, <1>3, <1>4, <1>5, <1>6, Zenon DEF Queue, Ended, Like

-----------------------------------------------------------------------------
\* The records of the replicas.

\* What a step on a replica leaves as it is.
SameLeader(x, e) == x.conn = e.conn /\ x.hasLock = e.hasLock /\ x.loaded = e.loaded
SameQueues(x, e) == x.work = e.work /\ x.pending = e.pending

\* Taking the lock, keeping it or finding it held.
LEMMA LeaderFields ==
    ASSUME NEW e, Fields(e), NEW x, x = ensureLeader(e)
    PROVE  /\ Fields(x) /\ SameQueues(x, e) /\ x.pc = e.pc /\ x.todo = e.todo
           /\ \/ e.hasLock /\ e.conn = "open" /\ x = e
              \/ /\ ~(e.hasLock /\ e.conn = "open") /\ holder = Nobody
                 /\ x.conn = "open" /\ x.hasLock = TRUE /\ x.loaded = FALSE
                 /\ x.eval = [k \in Keys |-> NoEpisode]
              \/ /\ ~(e.hasLock /\ e.conn = "open") /\ holder # Nobody
                 /\ x.hasLock = FALSE
  <1>1. CASE e.hasLock /\ e.conn = "open"
    BY <1>1, Zenon DEF ensureLeader, SameQueues
  <1>2. CASE ~(e.hasLock /\ e.conn = "open") /\ holder = Nobody
    <2>1. x = [e EXCEPT !.conn = "open", !.hasLock = TRUE, !.loaded = FALSE,
                        !.eval = [k \in Keys |-> NoEpisode]]
      BY <1>2, Zenon DEF ensureLeader
    <2>2. /\ Fields(x) /\ x.work = e.work /\ x.pending = e.pending /\ x.pc = e.pc /\ x.todo = e.todo
          /\ x.conn = "open" /\ x.hasLock = TRUE /\ x.loaded = FALSE
          /\ x.eval = [k \in Keys |-> NoEpisode]
      BY <2>1, Zenon DEF Fields, EngineFields
    <2> QED
      BY <1>2, <2>2, Zenon DEF SameQueues
  <1>3. CASE ~(e.hasLock /\ e.conn = "open") /\ holder # Nobody
    <2>1. x = [e EXCEPT !.conn = "open", !.hasLock = FALSE]
      BY <1>3, Zenon DEF ensureLeader
    <2>2. /\ Fields(x) /\ x.work = e.work /\ x.pending = e.pending /\ x.pc = e.pc /\ x.todo = e.todo
          /\ x.hasLock = FALSE
      BY <2>1, Zenon DEF Fields, EngineFields
    <2> QED
      BY <1>3, <2>2, Zenon DEF SameQueues
  <1> QED
    BY <1>1, <1>2, <1>3, Zenon

\* Done: the queues of a replica change and nothing else of it.
LEMMA DoneFields ==
    ASSUME NEW e, Fields(e), NEW pending, NEW x, x = Done(e, pending)
    PROVE  /\ Fields(x) /\ x.work = Tail(e.work) /\ x.pending = pending
           /\ SameLeader(x, e) /\ x.pc = e.pc /\ x.todo = e.todo /\ x.eval = e.eval
  BY Zenon DEF Done, Fields, EngineFields, SameLeader

\* A transition is persisted and notified.
Notified(x, e, r, episode, start, phase) ==
    /\ Fields(x) /\ x.work = NewWork(r, start, phase)
    /\ x.pending = At(e.pending, {n \in DOMAIN e.pending : e.pending[n].id.key # r})
    /\ SameLeader(x, e) /\ x.pc = e.pc /\ x.todo = Tail(e.todo)
    /\ x.eval = [e.eval EXCEPT ![r] = episode]

\* What a replica holds once EvalRule persisted a transition and notified.
LEMMA NotifyFields ==
    ASSUME NEW e, Fields(e), NEW r, NEW episode, NEW start, NEW phase, NEW b, NEW y, NEW x,
           y = [e EXCEPT !.eval = [@ EXCEPT ![r] = episode], !.todo = Tail(@), !.published = FALSE],
           x = [Notify(y, r, start, phase) EXCEPT !.published = b]
    PROVE  Notified(x, e, r, episode, start, phase) /\ SameQueues(x, Notify(y, r, start, phase))
  <1>1. /\ Fields(y) /\ SameLeader(y, e) /\ SameQueues(y, e) /\ y.pc = e.pc /\ y.todo = Tail(e.todo)
        /\ y.eval = [e.eval EXCEPT ![r] = episode]
    BY Zenon DEF Fields, EngineFields, SameLeader, SameQueues
  <1> DEFINE z == Notify(y, r, start, phase)
  <1>2. /\ Fields(z) /\ z.work = NewWork(r, start, phase) /\ SameLeader(z, y) /\ z.pc = y.pc
        /\ z.todo = y.todo /\ z.eval = y.eval
        /\ z.pending = At(y.pending, {n \in DOMAIN y.pending : y.pending[n].id.key # r})
    BY <1>1, ZenonT(40) DEF Notify, NewWork, Fields, EngineFields, SameLeader
  <1> HIDE DEF z
  <1>3. /\ Fields(x) /\ SameLeader(x, z) /\ SameQueues(x, z) /\ x.pc = z.pc /\ x.todo = z.todo
        /\ x.eval = z.eval
    BY <1>2, ZenonT(40) DEF Fields, EngineFields, SameLeader, SameQueues, z
  <1> QED
    <2>1. Notified(x, e, r, episode, start, phase)
      BY <1>1, <1>2, <1>3, Zenon DEF SameLeader, SameQueues, Notified
    <2> QED
      BY <1>3, <2>1, Zenon DEF z

-----------------------------------------------------------------------------
\* What a step of one replica must do for the invariants of the deliveries.

Others(p) == \A q \in Procs \ {p} : proc'[q] = proc[q]

\* A claim outlives a step unless it is purged.
ClaimsLast == \A id : Claimed(id) => Claimed(id)' \/ Purged(id)'

\* A step that adds no claim to a replica's memory and lets claims last keeps
\* ClaimInv.
LEMMA ClaimKept ==
    ASSUME ClaimInv, NEW p \in Procs, Others(p), purged \subseteq purged', ClaimsLast,
           inbox' = inbox, blurred' = blurred,
           Single(proc'[p].work, proc'[p].pending, purged'), HoldsOf(p)' \subseteq HoldsOf(p)
    PROVE  ClaimInv'
  <1>1. \A id : Purged(id) => Purged(id)'
    BY Zenon DEF Purged
  <1>2. ASSUME NEW q \in Procs, q # p
        PROVE  /\ Single(proc'[q].work, proc'[q].pending, purged')
               /\ HoldsOf(q)' \subseteq HoldsOf(q)
    <2>1. proc'[q] = proc[q]
      BY <1>2, Zenon DEF Others
    <2>2. Single(proc[q].work, proc[q].pending, purged)
      BY Zenon DEF ClaimInv
    <2>3. Single(proc[q].work, proc[q].pending, purged')
      BY <2>2, Zenon DEF Single, Apart, Gone
    <2>4. Holds(proc[q].work, proc[q].pending, purged') \subseteq HoldsOf(q)
      BY Zenon DEF HoldsOf, Holds, Gone
    <2> QED
      BY <2>1, <2>3, <2>4, Zenon DEF HoldsOf
  <1>3. \A q \in Procs : HoldsOf(q)' \subseteq HoldsOf(q)
    BY <1>2, Zenon
  <1>4. \A q \in Procs : Single(proc'[q].work, proc'[q].pending, purged')
    BY <1>2, Zenon
  <1>5. \A q, t \in Procs : q # t => HoldsOf(q)' \cap HoldsOf(t)' = {}
    BY <1>3, Zenon DEF ClaimInv
  <1>6. ASSUME NEW q \in Procs, NEW id \in HoldsOf(q)'
        PROVE  Claimed(id)' /\ (Accepted(id)' => id \in blurred')
    <2>1. Claimed(id) /\ (Accepted(id) => id \in blurred)
      BY <1>3, Zenon DEF ClaimInv
    <2>2. ~Purged(id)'
      BY Zenon DEF HoldsOf, Holds, Gone, Purged
    <2> QED
      BY <2>1, <2>2, Zenon DEF ClaimsLast, Accepted
  <1>7. \A c \in Range(Channels) : \A id \in In(inbox'[c]) : Claimed(id)' \/ Purged(id)'
    BY <1>1, Zenon DEF ClaimInv, ClaimsLast
  <1>8. DeliveredOnce'
    BY <1>1, Zenon DEF ClaimInv, DeliveredOnce
  <1> QED
    BY <1>4, <1>5, <1>6, <1>7, <1>8, Zenon DEF ClaimInv

\* Rows outlive a step unless they are purged.
RowsLast == \A id : OnRecord(id) => OnRecord(id)' \/ Purged(id)'

\* A step that holds only deliveries of rows on record keeps RecordInv.
LEMMA RecordKept ==
    ASSUME RecordInv, NEW p \in Procs, Others(p), purged \subseteq purged', RowsLast,
           \A id \in HeldBy(p)' : id \in HeldBy(p) \/ OnRecord(id)',
           \A c \in Range(Channels) : In(inbox'[c]) \subseteq In(inbox[c]) \cup HeldBy(p)
    PROVE  RecordInv'
  <1>1. \A id : OnRecord(id) \/ Purged(id) => OnRecord(id)' \/ Purged(id)'
    BY Zenon DEF Purged, RowsLast
  <1>2. ASSUME NEW q \in Procs, NEW id \in HeldBy(q)'
        PROVE  OnRecord(id)' \/ Purged(id)'
    <2>1. CASE q = p
      BY <1>1, <2>1, Zenon DEF RecordInv
    <2>2. CASE q # p
      BY <1>1, <2>2, Zenon DEF RecordInv, Others, HeldBy
    <2> QED
      BY <2>1, <2>2, Zenon
  <1>3. ASSUME NEW c \in Range(Channels), NEW id \in In(inbox'[c])
        PROVE  OnRecord(id)' \/ Purged(id)'
    BY <1>1, Zenon DEF RecordInv
  <1> QED
    BY <1>2, <1>3, Zenon DEF RecordInv

\* Given up, or accounted for otherwise than by a replica's memory.
Failed(id) == \E c \in claims : c.id = id /\ c.attempts >= maxNotifyAttempts
Closed(id) == id \in excused \cup unrecorded \/ id \in In(inbox[id.channel]) \/ Failed(id) \/ Purged(id)

\* A step keeps AnswerInv when every delivery that leaves the memory is closed or
\* claimed, and every new claim is answered for.
LEMMA AnswerKept ==
    ASSUME AnswerInv, NEW p \in Procs, Others(p), purged \subseteq purged', excused \subseteq excused',
           unrecorded \subseteq unrecorded', ClaimsLast,
           \A c \in claims : In(inbox[c.id.channel]) \subseteq In(inbox'[c.id.channel]),
           \A id \in OwnedBy(p) : id \in OwnedBy(p)' \/ Closed(id)',
           \A id \in HeldBy(p) : id \in HeldBy(p)' \/ id \in excused' \/ Claimed(id)' \/ Purged(id)',
           \A id : Failed(id) => Answered(id)' \/ Purged(id)',
           \A c \in claims' : Claimed(c.id) \/ Answered(c.id)',
           \A id \in announced' : id \in announced \/ id \in HeldBy(p)'
    PROVE  AnswerInv'
  <1>1. \A id : Purged(id) => Purged(id)'
    BY Zenon DEF Purged
  <1>2. ASSUME NEW q \in Procs, q # p
        PROVE  OwnedBy(q)' = OwnedBy(q) /\ HeldBy(q)' = HeldBy(q)
    BY <1>2, Zenon DEF Others, OwnedBy, HeldBy
  <1>3. ASSUME NEW c \in claims, Answered(c.id)
        PROVE  Answered(c.id)' \/ Purged(c.id)'
    <2>1. CASE \E q \in Procs : c.id \in OwnedBy(q)
      BY <1>2, <2>1, Zenon DEF Answered, Closed, Failed
    <2>2. CASE Failed(c.id)
      BY <2>2, Zenon
    <2>3. CASE c.id \in excused \cup unrecorded \/ c.id \in In(inbox[c.id.channel])
      BY <2>3, Zenon DEF Answered
    <2> QED
      BY <1>3, <2>1, <2>2, <2>3, Zenon DEF Answered, Failed
  <1>4. ASSUME NEW c \in claims'
        PROVE  Purged(c.id)' \/ Answered(c.id)'
    <2>1. CASE Answered(c.id)'
      BY <2>1, Zenon
    <2>2. CASE Claimed(c.id)
      <3>1. PICK b \in claims : b.id = c.id
        BY <2>2, Zenon DEF Claimed
      <3>2. Purged(b.id) \/ Answered(b.id)
        BY Zenon DEF AnswerInv
      <3> QED
        BY <1>1, <1>3, <3>1, <3>2, Zenon
    <2> QED
      BY <2>1, <2>2, Zenon
  <1>5. ASSUME NEW id \in announced' \ excused'
        PROVE  Claimed(id)' \/ Purged(id)' \/ \E q \in Procs : id \in HeldBy(q)'
    <2>1. CASE id \in HeldBy(p)'
      BY <2>1, Zenon
    <2>2. CASE id \in announced
      <3>1. Claimed(id) \/ Purged(id) \/ \E q \in Procs : id \in HeldBy(q)
        BY <2>2, Zenon DEF AnswerInv
      <3>2. CASE Claimed(id) \/ Purged(id)
        BY <1>1, <3>2, Zenon DEF ClaimsLast
      <3>3. ASSUME NEW q \in Procs, id \in HeldBy(q)
            PROVE  Claimed(id)' \/ Purged(id)' \/ \E t \in Procs : id \in HeldBy(t)'
        BY <1>2, <3>3, Zenon
      <3> QED
        BY <3>1, <3>2, <3>3, Zenon
    <2> QED
      BY <2>1, <2>2, Zenon
  <1> QED
    BY <1>4, <1>5, Zenon DEF AnswerInv

-----------------------------------------------------------------------------
\* What a step of one replica must do for the other invariants.

EngineInv == AlertsShape /\ LockInv /\ LeaderInv /\ ClaimInv /\ RecordInv /\ AnswerInv

\* A replica as before but for its queues, its place in the pass and its rules.
LEMMA ShapedAgain ==
    ASSUME NEW e, ShapedEngine(e), NEW x, Fields(x), x.hasLock \in BOOLEAN,
           x.loaded = e.loaded, x.eval = e.eval, x.todo \in Seq(Keys), Queue(x.work), Queue(x.pending),
           x.pc = "idle" => x.work = <<>>, x.pc # "idle" => e.pc # "idle"
    PROVE  ShapedEngine(x)
  BY Zenon DEF ShapedEngine

\* Only p changes.
LEMMA OneReplica ==
    ASSUME AlertsShape, NEW p \in Procs, NEW x, proc' = [proc EXCEPT ![p] = x]
    PROVE  proc'[p] = x /\ Others(p) /\ proc' = [q \in Procs |-> proc'[q]]
  <1>1. proc = [q \in Procs |-> proc[q]]
    BY Zenon DEF AlertsShape
  <1> QED
    BY <1>1 DEF Others

\* A step of one replica keeps the shapes when what it writes has them.
LEMMA ShapeKept ==
    ASSUME AlertsShape, NEW p \in Procs, Others(p), proc' = [q \in Procs |-> proc'[q]],
           ShapedEngine(proc'[p]), \A a \in alerts' : ShapedRow(a), \A c \in claims' : ShapedClaim(c),
           ShapedInbox(inbox')
    PROVE  AlertsShape'
  <1>1. \A q \in Procs : ShapedEngine(proc'[q])
    BY Zenon DEF AlertsShape, Others
  <1> QED
    BY <1>1, Zenon DEF AlertsShape

\* A step that touches neither the lock nor a session keeps LockInv.
LEMMA LockKept ==
    ASSUME LockInv, NEW p \in Procs, Others(p), holder' = holder,
           proc'[p].hasLock = proc[p].hasLock, proc'[p].conn = proc[p].conn
    PROVE  LockInv'
  BY Zenon DEF LockInv, Others

\* A step that leaves the open rows alone keeps LeaderInv when the leader's memory
\* still follows them.
LEMMA LeaderKept ==
    ASSUME LeaderInv, NEW p \in Procs, Others(p), Open' = Open, holder' \in {holder, Nobody},
           overlapped' = overlapped, unsure' = unsure, Idle(p) => Idle(p)',
           proc'[p].loaded => proc[p].loaded /\ (Follows(proc[p].eval, Open) => Follows(proc'[p].eval, Open)),
           Nobody \notin Procs, ~overlapped /\ ~unsure => Current(proc'[p])
    PROVE  LeaderInv'
  <1> SUFFICES ASSUME ~overlapped, ~unsure
               PROVE  LeaderInv'
    BY Zenon DEF LeaderInv
  <1>1. ASSUME NEW q \in Procs PROVE ~Idle(q)' => ~Idle(q)
    BY Zenon DEF Idle, Others
  <1>2. \A a, b \in Open' : a.key = b.key => a = b
    BY Zenon DEF LeaderInv
  <1>3. \A q, t \in Procs : ~Idle(q)' /\ ~Idle(t)' => q = t
    BY <1>1, Zenon DEF LeaderInv
  <1>4. ASSUME NEW q \in Procs
        PROVE  ~Idle(q)' => holder' \in {q, Nobody}
    BY <1>1, Zenon DEF LeaderInv
  <1>5. ASSUME NEW q \in Procs, proc'[q].loaded /\ (holder' = q \/ ~Idle(q)')
        PROVE  Follows(proc'[q].eval, Open)
    <2>1. holder = q \/ ~Idle(q)
      BY <1>1, <1>5, Zenon
    <2>2. CASE q = p
      BY <1>5, <2>1, <2>2, Zenon DEF LeaderInv
    <2>3. CASE q # p
      <3>1. proc'[q] = proc[q]
        BY <2>3, Zenon DEF Others
      <3>2. Follows(proc[q].eval, Open)
        BY <1>5, <2>1, <3>1, Zenon DEF LeaderInv
      <3> QED
        BY <3>1, <3>2, Zenon
    <2> QED
      BY <2>2, <2>3, Zenon
  <1>6. ASSUME NEW q \in Procs
        PROVE  Current(proc'[q])
    <2>1. CASE q = p
      BY <2>1, Zenon
    <2>2. CASE q # p
      <3>1. proc'[q] = proc[q]
        BY <2>2, Zenon DEF Others
      <3>2. Current(proc[q])
        BY Zenon DEF LeaderInv
      <3> QED
        BY <3>1, <3>2, Zenon
    <2> QED
      BY <2>1, <2>2, Zenon
  <1> QED
    BY <1>2, <1>3, <1>4, <1>5, <1>6, Zenon DEF LeaderInv

\* A step that leaves the deliveries alone.
QuietStep(p) ==
    /\ Others(p) /\ SameQueues(proc'[p], proc[p])
    /\ UNCHANGED <<claims, inbox, history>>

\* Such a step keeps the three invariants of the deliveries.
LEMMA QuietDeliveries ==
    ASSUME ClaimInv, RecordInv, AnswerInv, NEW p \in Procs, QuietStep(p), RowsLast
    PROVE  ClaimInv' /\ RecordInv' /\ AnswerInv'
  <1>1. /\ Others(p) /\ claims' = claims /\ inbox' = inbox
        /\ blurred' = blurred /\ announced' = announced /\ excused' = excused
        /\ unrecorded' = unrecorded /\ purged' = purged
        /\ proc'[p].work = proc[p].work /\ proc'[p].pending = proc[p].pending
    BY Zenon DEF QuietStep, SameQueues, history
  <1>2. HeldBy(p)' = HeldBy(p) /\ OwnedBy(p)' = OwnedBy(p) /\ HoldsOf(p)' = HoldsOf(p)
    BY <1>1, Zenon DEF HeldBy, OwnedBy, HoldsOf
  <1>3. ClaimsLast
    BY <1>1, Zenon DEF ClaimsLast, Claimed
  <1>4. Single(proc'[p].work, proc'[p].pending, purged')
    BY <1>1, Zenon DEF ClaimInv
  <1>5. ClaimInv'
    BY <1>1, <1>2, <1>3, <1>4, ClaimKept, Zenon
  <1>6. RecordInv'
    <2>1. \A c \in Range(Channels) : In(inbox'[c]) \subseteq In(inbox[c]) \cup HeldBy(p)
      BY <1>1, Zenon
    <2> QED
      BY <1>1, <1>2, <2>1, RecordKept, Zenon
  <1>7. AnswerInv'
    <2>1. \A id : Failed(id) => Answered(id)' \/ Purged(id)'
      BY <1>1, Zenon DEF Failed, Answered
    <2>2. \A c \in claims' : Claimed(c.id) \/ Answered(c.id)'
      BY <1>1, Zenon DEF Claimed
    <2>3. \A c \in claims : In(inbox[c.id.channel]) \subseteq In(inbox'[c.id.channel])
      BY <1>1, Zenon
    <2> QED
      BY <1>1, <1>2, <1>3, <2>1, <2>2, <2>3, AnswerKept, Zenon
  <1> QED
    BY <1>5, <1>6, <1>7, Zenon

-----------------------------------------------------------------------------
\* The steps that touch neither the tables nor the deliveries.

\* A step that changes only where a replica is in its pass keeps EngineInv.
LEMMA PlainStep ==
    ASSUME EngineInv, NEW p \in Procs, NEW x, proc' = [proc EXCEPT ![p] = x], ShapedEngine(x),
           SameQueues(x, proc[p]), x.loaded = proc[p].loaded, x.eval = proc[p].eval,
           x.pc = "idle" \/ x.pc = proc[p].pc, LockInv', holder' \in {holder, Nobody},
           UNCHANGED <<alerts, claims, inbox, history, overlapped, unsure>>
    PROVE  EngineInv'
  <1>1. proc'[p] = x /\ Others(p) /\ proc' = [q \in Procs |-> proc'[q]]
    BY OneReplica, Zenon DEF EngineInv
  <1>2. /\ alerts' = alerts /\ claims' = claims /\ inbox' = inbox /\ UNCHANGED history
        /\ overlapped' = overlapped /\ unsure' = unsure
    BY Zenon
  <1>3. AlertsShape'
    BY <1>1, <1>2, ShapeKept, Zenon DEF EngineInv, AlertsShape
  <1>4. Open' = Open
    BY <1>2, Zenon DEF Open
  <1>5. LeaderInv'
    <2>1. Idle(p) => Idle(p)'
      BY <1>1, Zenon DEF Idle
    <2>2. LeaderInv /\ Nobody \notin Procs
      BY AlertsAssumption, Zenon DEF EngineInv
    <2>3. ~overlapped /\ ~unsure => Current(proc'[p])
      <3>1. ~overlapped /\ ~unsure => Current(proc[p])
        BY <2>2, Zenon DEF LeaderInv
      <3> QED
        BY <1>1, <3>1, Zenon DEF Current, SameQueues
    <2>4. proc'[p].loaded => proc[p].loaded /\ (Follows(proc[p].eval, Open) => Follows(proc'[p].eval, Open))
      BY <1>1, Zenon
    <2> QED
      BY <1>1, <1>2, <1>4, <2>1, <2>2, <2>3, <2>4, LeaderKept, Zenon
  <1>6. RowsLast
    BY <1>2, Zenon DEF RowsLast, OnRecord
  <1>7. QuietStep(p)
    BY <1>1, <1>2, Zenon DEF QuietStep
  <1>8. ClaimInv' /\ RecordInv' /\ AnswerInv'
    BY <1>6, <1>7, QuietDeliveries, Zenon DEF EngineInv
  <1> QED
    BY <1>3, <1>5, <1>8, Zenon DEF EngineInv

\* What a plain step leaves of a replica.
Stays(x, e) == /\ Fields(x) /\ SameQueues(x, e) /\ x.hasLock = e.hasLock /\ x.loaded = e.loaded
               /\ x.eval = e.eval

\* A replica that stays as it was has its shape.
LEMMA StayingEngine ==
    ASSUME NEW e, ShapedEngine(e), NEW x, Stays(x, e), x.todo \in Seq(Keys),
           x.pc = e.pc \/ (x.pc = "idle" /\ e.work = <<>>)
    PROVE  ShapedEngine(x)
  <1>1. /\ Fields(x) /\ x.hasLock \in BOOLEAN /\ x.loaded = e.loaded /\ x.eval = e.eval
        /\ Queue(x.work) /\ Queue(x.pending) /\ x.work = e.work
    BY Zenon DEF Stays, SameQueues, ShapedEngine
  <1>2. x.pc = "idle" => x.work = <<>>
    BY <1>1, Zenon DEF ShapedEngine
  <1>3. x.pc # "idle" => e.pc # "idle"
    BY Zenon
  <1> QED
    BY <1>1, <1>2, <1>3, ShapedAgain, Zenon

\* A pass ends on a failed read.
LEMMA EndedFields ==
    ASSUME NEW e, ShapedEngine(e), e.work = <<>>, NEW x,
           x = [e EXCEPT !.pc = "idle", !.todo = <<>>, !.published = FALSE]
    PROVE  ShapedEngine(x) /\ Stays(x, e) /\ x.conn = e.conn /\ x.pc = "idle"
  <1>1. Fields(e)
    BY Zenon DEF ShapedEngine
  <1>2. Stays(x, e) /\ x.conn = e.conn /\ x.pc = "idle" /\ x.todo = <<>>
    BY <1>1, Zenon DEF Fields, EngineFields, Stays, SameQueues
  <1>3. x.todo \in Seq(Keys)
    BY <1>2
  <1> QED
    BY <1>2, <1>3, StayingEngine, Zenon

\* A rule is passed over.
LEMMA PassedFields ==
    ASSUME NEW e, ShapedEngine(e), e.todo # <<>>, NEW x,
           x = [e EXCEPT !.todo = Tail(@), !.published = FALSE]
    PROVE  ShapedEngine(x) /\ Stays(x, e) /\ x.conn = e.conn /\ x.pc = e.pc
  <1>1. Fields(e) /\ e.todo \in Seq(Keys)
    BY Zenon DEF ShapedEngine
  <1>2. Stays(x, e) /\ x.conn = e.conn /\ x.pc = e.pc /\ x.todo = Tail(e.todo)
    BY <1>1, Zenon DEF Fields, EngineFields, Stays, SameQueues
  <1>3. x.todo \in Seq(Keys)
    BY <1>1, <1>2
  <1> QED
    BY <1>2, <1>3, StayingEngine, Zenon

\* The deadline of a pass.
LEMMA ExpiredFields ==
    ASSUME NEW e, ShapedEngine(e), NEW x, x = [e EXCEPT !.expired = TRUE]
    PROVE  ShapedEngine(x) /\ Stays(x, e) /\ x.conn = e.conn /\ x.pc = e.pc
  <1>1. Fields(e) /\ e.todo \in Seq(Keys)
    BY Zenon DEF ShapedEngine
  <1>2. Stays(x, e) /\ x.conn = e.conn /\ x.pc = e.pc /\ x.todo = e.todo
    BY <1>1, Zenon DEF Fields, EngineFields, Stays, SameQueues
  <1> QED
    BY <1>1, <1>2, StayingEngine, Zenon

\* A session that is lost.
LEMMA DeadFields ==
    ASSUME NEW e, ShapedEngine(e), NEW x, x = [e EXCEPT !.conn = "dead"]
    PROVE  ShapedEngine(x) /\ Stays(x, e) /\ x.conn = "dead" /\ x.pc = e.pc
  <1>1. Fields(e) /\ e.todo \in Seq(Keys)
    BY Zenon DEF ShapedEngine
  <1>2. Stays(x, e) /\ x.conn = "dead" /\ x.pc = e.pc /\ x.todo = e.todo
    BY <1>1, Zenon DEF Fields, EngineFields, Stays, SameQueues
  <1> QED
    BY <1>1, <1>2, StayingEngine, Zenon

\* The replica that leads is still the one that did.
LEMMA SameSession ==
    ASSUME EngineInv, NEW p \in Procs, NEW x, proc' = [proc EXCEPT ![p] = x], ShapedEngine(x),
           Stays(x, proc[p]), x.conn = proc[p].conn, x.pc = "idle" \/ x.pc = proc[p].pc,
           UNCHANGED <<alerts, claims, holder, inbox, history, overlapped, unsure>>
    PROVE  EngineInv'
  <1>1. proc'[p] = x /\ Others(p)
    BY OneReplica, Zenon DEF EngineInv
  <1>2. LockInv'
    BY <1>1, LockKept, Zenon DEF EngineInv, Stays
  <1>3. UNCHANGED <<alerts, claims, inbox, history, overlapped, unsure>> /\ holder' \in {holder, Nobody}
    BY Zenon
  <1> QED
    BY <1>2, <1>3, PlainStep, Zenon DEF Stays

\* A source fails: its rule is passed over, or after the deadline the pass ends.
LEMMA SampleFailsStep ==
    ASSUME EngineInv, NEW p \in Procs, SampleFails(p) PROVE EngineInv'
  <1>1. ShapedEngine(proc[p]) /\ proc = [q \in Procs |-> proc[q]]
    BY Zenon DEF EngineInv, AlertsShape
  <1>2. /\ proc[p].todo # <<>> /\ proc[p].work = <<>>
        /\ UNCHANGED <<alerts, claims, holder, inbox, history, overlapped, unsure>>
    BY Zenon DEF SampleFails
  <1>3. CASE proc[p].expired
    <2> DEFINE x == [proc[p] EXCEPT !.pc = "idle", !.todo = <<>>, !.published = FALSE]
    <2>1. proc' = [proc EXCEPT ![p] = x]
      BY <1>1, <1>3, Zenon DEF SampleFails
    <2>2. ShapedEngine(x) /\ Stays(x, proc[p]) /\ x.conn = proc[p].conn /\ x.pc = "idle"
      BY <1>1, <1>2, EndedFields, Zenon
    <2> HIDE DEF x
    <2> QED
      BY <1>2, <2>1, <2>2, SameSession, Zenon
  <1>4. CASE ~proc[p].expired
    <2> DEFINE x == [proc[p] EXCEPT !.todo = Tail(@), !.published = FALSE]
    <2>2. proc' = [proc EXCEPT ![p] = x]
      BY <1>4, Zenon DEF SampleFails
    <2>3. ShapedEngine(x) /\ Stays(x, proc[p]) /\ x.conn = proc[p].conn /\ x.pc = proc[p].pc
      BY <1>1, <1>2, PassedFields, Zenon
    <2> HIDE DEF x
    <2> QED
      BY <1>2, <2>2, <2>3, SameSession, Zenon
  <1> QED
    BY <1>3, <1>4, Zenon

\* The deadline passed: the rest of the pass is left out.
LEMMA CutShortStep ==
    ASSUME EngineInv, NEW p \in Procs, CutShort(p) PROVE EngineInv'
  <1>1. ShapedEngine(proc[p]) /\ proc = [q \in Procs |-> proc[q]]
    BY Zenon DEF EngineInv, AlertsShape
  <1>2. proc[p].work = <<>> /\ UNCHANGED <<alerts, claims, holder, inbox, history, overlapped, unsure>>
    BY Zenon DEF CutShort
  <1> DEFINE x == [proc[p] EXCEPT !.pc = "idle", !.todo = <<>>, !.published = FALSE]
  <1>3. proc' = [proc EXCEPT ![p] = x]
    BY <1>1, Zenon DEF CutShort
  <1>4. ShapedEngine(x) /\ Stays(x, proc[p]) /\ x.conn = proc[p].conn /\ x.pc = "idle"
    BY <1>1, <1>2, EndedFields, Zenon
  <1> HIDE DEF x
  <1> QED
    BY <1>2, <1>3, <1>4, SameSession, Zenon

\* The deadline of a pass runs out.
LEMMA ExpireStep ==
    ASSUME EngineInv, NEW p \in Procs, Expire(p) PROVE EngineInv'
  <1>1. ShapedEngine(proc[p]) /\ proc = [q \in Procs |-> proc[q]]
    BY Zenon DEF EngineInv, AlertsShape
  <1>2. UNCHANGED <<alerts, claims, holder, inbox, history, overlapped, unsure>>
    BY Zenon DEF Expire
  <1> DEFINE x == [proc[p] EXCEPT !.expired = TRUE]
  <1>3. proc' = [proc EXCEPT ![p] = x]
    BY <1>1, Zenon DEF Expire
  <1>4. ShapedEngine(x) /\ Stays(x, proc[p]) /\ x.conn = proc[p].conn /\ x.pc = proc[p].pc
    BY <1>1, ExpiredFields, Zenon
  <1> HIDE DEF x
  <1> QED
    BY <1>2, <1>3, <1>4, SameSession, Zenon

\* The lock's session is lost.
LEMMA LoseSessionStep ==
    ASSUME EngineInv, NEW p \in Procs, LoseSession(p) PROVE EngineInv'
  <1>1. ShapedEngine(proc[p]) /\ proc = [q \in Procs |-> proc[q]]
    BY Zenon DEF EngineInv, AlertsShape
  <1>2. UNCHANGED <<alerts, claims, inbox, history, overlapped, unsure>>
    BY Zenon DEF LoseSession
  <1> DEFINE x == [proc[p] EXCEPT !.conn = "dead"]
  <1>3. proc' = [proc EXCEPT ![p] = x]
    BY <1>1, Zenon DEF LoseSession
  <1>4. ShapedEngine(x) /\ Stays(x, proc[p]) /\ x.conn = "dead" /\ x.pc = proc[p].pc
    BY <1>1, DeadFields, Zenon
  <1> HIDE DEF x
  <1>5. proc'[p] = x /\ Others(p)
    BY <1>3, OneReplica, Zenon DEF EngineInv
  <1>6. holder' = Nobody /\ holder = p
    BY Zenon DEF LoseSession, EngineInv, LockInv
  <1>7. LockInv'
    <2> SUFFICES ASSUME NEW q \in Procs
                 PROVE  holder' = q <=> proc'[q].hasLock /\ proc'[q].conn = "open"
      BY Zenon DEF LockInv
    <2>1. holder' # q
      BY <1>6, AlertsAssumption, Zenon
    <2>2. CASE q = p
      BY <1>4, <1>5, <2>1, <2>2
    <2>3. CASE q # p
      BY <1>5, <1>6, <2>1, <2>3, Zenon DEF EngineInv, LockInv, Others
    <2> QED
      BY <2>2, <2>3, Zenon
  <1> QED
    BY <1>2, <1>3, <1>4, <1>6, <1>7, PlainStep, Zenon DEF Stays

-----------------------------------------------------------------------------
\* The steps of the notifier.

\* The delivery at the head of the work is over.
LEMMA DroppedIds ==
    ASSUME NEW w, NEW q, NEW G, Queue(w), Queue(q), w # <<>>, Single(w, q, G)
    PROVE  /\ Single(Tail(w), q, G)
           /\ Held(Tail(w), q) \subseteq Held(w, q) /\ Held(w, q) \subseteq Held(Tail(w), q) \cup {Head(w).id}
           /\ Holds(Tail(w), q, G) \subseteq Holds(w, q, G)
           /\ \A id \in Owned(w, q) : id \in Owned(Tail(w), q)
                                      \/ (id = Head(w).id /\ (Head(w).claimed \/ Head(w).retry))
  <1>1. Single(Tail(w), q, G) /\ Memory(w, q) = Memory(Tail(w), q) \cup {Head(w)}
    BY DropHead, Zenon
  <1>2. Held(Tail(w), q) \subseteq Held(w, q) /\ Held(w, q) \subseteq Held(Tail(w), q) \cup {Head(w).id}
    BY <1>1, Zenon DEF Held
  <1>3. Holds(Tail(w), q, G) \subseteq Holds(w, q, G)
    BY <1>1, Zenon DEF Holds
  <1>4. \A id \in Owned(w, q) : id \in Owned(Tail(w), q)
                                 \/ (id = Head(w).id /\ (Head(w).claimed \/ Head(w).retry))
    BY <1>1, Zenon DEF Owned
  <1> QED
    BY <1>1, <1>2, <1>3, <1>4, Zenon

\* It is kept for a later pass.
LEMMA KeptIds ==
    ASSUME NEW w, NEW q, NEW G, Queue(w), Queue(q), w # <<>>, Single(w, q, G),
           NEW d, ShapedDelivery(d), d.id = Head(w).id, d.claimed = Head(w).claimed, d.retry
    PROVE  /\ Queue(Append(q, d)) /\ Single(Tail(w), Append(q, d), G)
           /\ Held(Tail(w), Append(q, d)) = Held(w, q)
           /\ Holds(Tail(w), Append(q, d), G) \subseteq Holds(w, q, G)
           /\ Owned(w, q) \cup {Head(w).id} \subseteq Owned(Tail(w), Append(q, d))
  <1>1. Memory(w, q) = Memory(Tail(w), q) \cup {Head(w)}
    BY DropHead, Zenon
  <1>2. Single(Tail(w), Append(q, d), G) /\ Memory(Tail(w), Append(q, d)) = Memory(Tail(w), q) \cup {d}
    BY KeepHead
  <1>3. Queue(Append(q, d))
    BY AppendQueue, Zenon
  <1>4. Held(Tail(w), Append(q, d)) = Held(w, q)
    <2>1. Held(Tail(w), Append(q, d)) = {f.id : f \in Memory(Tail(w), q)} \cup {d.id}
      BY <1>2, Zenon DEF Held
    <2>2. Held(w, q) = {f.id : f \in Memory(Tail(w), q)} \cup {Head(w).id}
      BY <1>1, Zenon DEF Held
    <2> QED
      BY <2>1, <2>2, Zenon
  <1>5. Holds(Tail(w), Append(q, d), G) \subseteq Holds(w, q, G)
    <2> SUFFICES ASSUME NEW f \in Memory(Tail(w), q) \cup {d}, f.claimed, ~Gone(f.id, G)
                 PROVE  f.id \in Holds(w, q, G)
      BY <1>2, Zenon DEF Holds
    <2>1. CASE f = d
      <3>1. Head(w) \in Memory(w, q) /\ Head(w).claimed /\ ~Gone(Head(w).id, G)
        BY <1>1, <2>1, Zenon
      <3> QED
        BY <2>1, <3>1, Zenon DEF Holds
    <2>2. CASE f \in Memory(Tail(w), q)
      BY <1>1, <2>2, Zenon DEF Holds
    <2> QED
      BY <2>1, <2>2, Zenon
  <1>6. Head(w).id \in Owned(Tail(w), Append(q, d))
    BY <1>2, Zenon DEF Owned
  <1>7. \A id \in Owned(w, q) : id \in Owned(Tail(w), Append(q, d))
    <2> SUFFICES ASSUME NEW f \in Memory(Tail(w), q) \cup {Head(w)}, f.claimed \/ f.retry
                 PROVE  f.id \in Owned(Tail(w), Append(q, d))
      BY <1>1, Zenon DEF Owned
    <2>1. CASE f = Head(w)
      BY <1>6, <2>1, Zenon
    <2>2. CASE f \in Memory(Tail(w), q)
      BY <1>2, <2>2, Zenon DEF Owned
    <2> QED
      BY <2>1, <2>2, Zenon
  <1> QED
    BY <1>2, <1>3, <1>4, <1>5, <1>6, <1>7, Zenon

\* What the head of the work becomes once it has been tried n times.
LEMMA KeptForm ==
    ASSUME NEW e, NEW d, ShapedDelivery(d), NEW n \in Nat, NEW b, b = Counted(d, n)
    PROVE  /\ n >= maxNotifyAttempts => Kept(e, b) = e.pending
           /\ n < maxNotifyAttempts =>
                 \E f : /\ Kept(e, b) = Append(e.pending, f) /\ ShapedDelivery(f) /\ f.id = d.id
                        /\ f.claimed = d.claimed /\ f.retry
  <1>1. b.attempts = n
    BY Zenon DEF ShapedDelivery, Counted
  <1>2. maxNotifyAttempts \in Nat
    BY AlertsAssumption
  <1>3. n >= maxNotifyAttempts => Kept(e, b) = e.pending
    BY <1>1, Zenon DEF Kept
  <1>4. ASSUME n < maxNotifyAttempts
        PROVE  \E f : /\ Kept(e, b) = Append(e.pending, f) /\ ShapedDelivery(f) /\ f.id = d.id
                      /\ f.claimed = d.claimed /\ f.retry
    <2> DEFINE f == Again(b)
    <2>1. f = Again(b)
      BY Zenon
    <2> HIDE DEF f
    <2>4. ShapedDelivery(f) /\ f.id = d.id /\ f.claimed = d.claimed /\ f.retry = TRUE
      BY <1>4, <2>1, KeptDelivery, Zenon
    <2>2. ~(n >= maxNotifyAttempts)
      BY <1>2, <1>4
    <2>3. Kept(e, b) = Append(e.pending, f)
      BY <1>1, <2>2, Zenon DEF Kept, Again, f
    <2> QED
      BY <2>3, <2>4, Zenon
  <1> QED
    BY <1>3, <1>4, Zenon

\* Only the queues of the replica change.
LEMMA DoneStep ==
    ASSUME AlertsShape, LockInv, LeaderInv, NEW p \in Procs, Working(p), NEW q, Queue(q),
           proc' = [proc EXCEPT ![p] = Done(proc[p], q)],
           UNCHANGED <<alerts, holder, overlapped, unsure>>,
           \A c \in claims' : ShapedClaim(c), ShapedInbox(inbox')
    PROVE  /\ AlertsShape' /\ LockInv' /\ LeaderInv' /\ Others(p)
           /\ proc'[p].work = Tail(proc[p].work) /\ proc'[p].pending = q
  <1> DEFINE e == proc[p]
             x == Done(e, q)
  <1>1. ShapedEngine(e) /\ e.work # <<>> /\ e.pc # "idle"
    BY Zenon DEF AlertsShape, ShapedEngine, Working
  <1>2. /\ Fields(x) /\ x.work = Tail(e.work) /\ x.pending = q
        /\ SameLeader(x, e) /\ x.pc = e.pc /\ x.todo = e.todo /\ x.eval = e.eval
    <2>1. Fields(e)
      BY <1>1, Zenon DEF ShapedEngine
    <2> QED
      BY <2>1, DoneFields
  <1> HIDE DEF x
  <1>3. Queue(e.work) /\ Queue(Tail(e.work)) /\ In(Tail(e.work)) \subseteq In(e.work)
    <2>1. Queue(e.work)
      BY <1>1, Zenon DEF ShapedEngine
    <2>2. Queue(Tail(e.work)) /\ In(e.work) = In(Tail(e.work)) \cup {Head(e.work)}
      BY <1>1, <2>1, TailQueue, Zenon
    <2> QED
      BY <2>1, <2>2, Zenon
  <1>4. ShapedEngine(x)
    <2>1. x.hasLock \in BOOLEAN /\ x.loaded = e.loaded /\ x.todo \in Seq(Keys)
      BY <1>1, <1>2, Zenon DEF SameLeader, ShapedEngine
    <2> QED
      BY <1>1, <1>2, <1>3, <2>1, ShapedAgain, Zenon
  <1>5. proc'[p] = x /\ Others(p) /\ proc' = [t \in Procs |-> proc'[t]]
    BY OneReplica, Zenon DEF x
  <1>6. AlertsShape'
    BY <1>4, <1>5, ShapeKept, Zenon DEF AlertsShape
  <1>7. LockInv'
    BY <1>2, <1>5, LockKept, Zenon DEF SameLeader
  <1>8. LeaderInv'
    <2>1. Idle(p) => Idle(p)'
      BY <1>1, Zenon DEF Idle
    <2>2. Nobody \notin Procs /\ Open' = Open
      BY AlertsAssumption, Zenon DEF Open
    <2>3. ~overlapped /\ ~unsure => Current(proc'[p])
      <3>1. ~overlapped /\ ~unsure => Current(e)
        BY Zenon DEF LeaderInv
      <3>2. In(proc'[p].work) \subseteq In(e.work) /\ proc'[p].eval = e.eval
        BY <1>2, <1>3, <1>5, Zenon
      <3> QED
        BY <3>1, <3>2, Zenon DEF Current
    <2>4. proc'[p].loaded => e.loaded /\ (Follows(e.eval, Open) => Follows(proc'[p].eval, Open))
      BY <1>2, <1>5, Zenon DEF SameLeader
    <2> QED
      BY <1>5, <2>1, <2>2, <2>3, <2>4, LeaderKept, Zenon
  <1> QED
    BY <1>2, <1>5, <1>6, <1>7, <1>8, Zenon

\* The head of the work has been tried n times and is kept, or given up.
Tried(e, q, n, G) ==
    /\ Queue(q) /\ Single(Tail(e.work), q, G)
    /\ Holds(Tail(e.work), q, G) \subseteq Holds(e.work, e.pending, G)
    /\ Held(Tail(e.work), q) \subseteq Held(e.work, e.pending)
    /\ Held(e.work, e.pending) \subseteq Held(Tail(e.work), q) \cup {Head(e.work).id}
    /\ Owned(e.work, e.pending) \subseteq Owned(Tail(e.work), q) \cup {Head(e.work).id}
    /\ n < maxNotifyAttempts => Head(e.work).id \in Owned(Tail(e.work), q)

\* keep leaves the replica with the delivery, or gives it up at the last attempt.
LEMMA TriedIds ==
    ASSUME NEW e, NEW G, Queue(e.work), Queue(e.pending), e.work # <<>>, Single(e.work, e.pending, G),
           NEW n \in Nat, NEW q, q = Kept(e, Counted(Head(e.work), n))
    PROVE  Tried(e, q, n, G)
  <1> DEFINE d == Head(e.work)
  <1>1. ShapedDelivery(d)
    BY TailQueue, ZenonT(40)
  <1>2. maxNotifyAttempts \in Nat
    BY AlertsAssumption
  <1>3. CASE n >= maxNotifyAttempts
    <2>1. q = e.pending
      BY <1>1, <1>3, KeptForm, Zenon
    <2>2. ~(n < maxNotifyAttempts)
      BY <1>2, <1>3
    <2>3. /\ Single(Tail(e.work), e.pending, G)
          /\ Held(Tail(e.work), e.pending) \subseteq Held(e.work, e.pending)
          /\ Held(e.work, e.pending) \subseteq Held(Tail(e.work), e.pending) \cup {d.id}
          /\ Holds(Tail(e.work), e.pending, G) \subseteq Holds(e.work, e.pending, G)
          /\ \A id \in Owned(e.work, e.pending) : id \in Owned(Tail(e.work), e.pending) \/ id = d.id
      BY DroppedIds, Zenon
    <2>4. Queue(q) /\ Single(Tail(e.work), q, G)
      BY <2>1, <2>3, Zenon
    <2>5. /\ Holds(Tail(e.work), q, G) \subseteq Holds(e.work, e.pending, G)
          /\ Held(Tail(e.work), q) \subseteq Held(e.work, e.pending)
          /\ Held(e.work, e.pending) \subseteq Held(Tail(e.work), q) \cup {d.id}
      BY <2>1, <2>3, Zenon
    <2>6. Owned(e.work, e.pending) \subseteq Owned(Tail(e.work), q) \cup {d.id}
      BY <2>1, <2>3, Zenon
    <2> QED
      BY <2>2, <2>4, <2>5, <2>6, Zenon DEF Tried
  <1>4. CASE n < maxNotifyAttempts
    <2>1. PICK f : /\ q = Append(e.pending, f) /\ ShapedDelivery(f) /\ f.id = d.id
                   /\ f.claimed = d.claimed /\ f.retry
      BY <1>1, <1>4, KeptForm, Zenon
    <2>2. /\ Queue(Append(e.pending, f)) /\ Single(Tail(e.work), Append(e.pending, f), G)
          /\ Held(Tail(e.work), Append(e.pending, f)) = Held(e.work, e.pending)
          /\ Holds(Tail(e.work), Append(e.pending, f), G) \subseteq Holds(e.work, e.pending, G)
          /\ Owned(e.work, e.pending) \cup {d.id} \subseteq Owned(Tail(e.work), Append(e.pending, f))
      BY <2>1, KeptIds
    <2> QED
      BY <2>1, <2>2, Zenon DEF Tried
  <1> QED
    BY <1>2, <1>3, <1>4

\* What is on record as given up is, in a larger table.
LEMMA MoreClaims ==
    ASSUME claims \subseteq claims'
    PROVE  ClaimsLast /\ \A id : Failed(id) => Answered(id)' \/ Purged(id)'
  <1>1. ClaimsLast
    BY Zenon DEF ClaimsLast, Claimed
  <1>2. \A id : Failed(id) => Answered(id)'
    BY Zenon DEF Failed, Answered
  <1> QED
    BY <1>1, <1>2, Zenon

\* The state of a replica with work to do.
LEMMA AtWork ==
    ASSUME EngineInv, NEW p \in Procs, Working(p)
    PROVE  /\ Queue(proc[p].work) /\ Queue(proc[p].pending) /\ proc[p].work # <<>>
           /\ Single(proc[p].work, proc[p].pending, purged)
           /\ ShapedDelivery(Head(proc[p].work))
           /\ Head(proc[p].work) \in Memory(proc[p].work, proc[p].pending)
           /\ \A a \in alerts : ShapedRow(a)
           /\ \A c \in claims : ShapedClaim(c)
           /\ ShapedInbox(inbox)
  <1>1. Queue(proc[p].work) /\ Queue(proc[p].pending) /\ proc[p].work # <<>>
    BY Zenon DEF EngineInv, AlertsShape, ShapedEngine, Working
  <1>2. Single(proc[p].work, proc[p].pending, purged)
    BY Zenon DEF EngineInv, ClaimInv
  <1>3. ShapedDelivery(Head(proc[p].work)) /\ Head(proc[p].work) \in In(proc[p].work)
    BY <1>1, TailQueue, Zenon
  <1>4. Head(proc[p].work) \in Memory(proc[p].work, proc[p].pending)
    BY <1>3, Zenon DEF Memory
  <1> QED
    BY <1>1, <1>2, <1>3, <1>4, Zenon DEF EngineInv, AlertsShape

\* The claim is another attempt's: the delivery is dropped.
LEMMA NotWonStep ==
    ASSUME EngineInv, NEW p \in Procs, NotWon(p) PROVE EngineInv'
  <1> DEFINE e == proc[p]
             d == Head(e.work)
  <1>1. /\ Working(p) /\ ~d.claimed /\ Claimed(d.id)
        /\ proc' = [proc EXCEPT ![p] = Done(e, e.pending)]
        /\ excused' = IF d.retry THEN excused \cup {d.id} ELSE excused
        /\ UNCHANGED <<alerts, claims, holder, inbox, blurred, announced, unrecorded, purged, overlapped, unsure>>
    BY Zenon DEF NotWon
  <1>2. /\ Queue(e.work) /\ Queue(e.pending) /\ e.work # <<>> /\ Single(e.work, e.pending, purged)
        /\ \A c \in claims : ShapedClaim(c)
        /\ ShapedInbox(inbox)
    BY <1>1, AtWork, Zenon
  <1>3. /\ AlertsShape' /\ LockInv' /\ LeaderInv' /\ Others(p)
        /\ proc'[p].work = Tail(e.work) /\ proc'[p].pending = e.pending
    BY <1>1, <1>2, DoneStep, Zenon DEF EngineInv
  <1>4. /\ Single(Tail(e.work), e.pending, purged)
        /\ HeldBy(p)' \subseteq HeldBy(p) /\ HeldBy(p) \subseteq HeldBy(p)' \cup {d.id}
        /\ HoldsOf(p)' \subseteq HoldsOf(p)
        /\ \A id \in OwnedBy(p) : id \in OwnedBy(p)' \/ (id = d.id /\ (d.claimed \/ d.retry))
    <2>1. /\ Single(Tail(e.work), e.pending, purged)
          /\ Held(Tail(e.work), e.pending) \subseteq Held(e.work, e.pending)
          /\ Held(e.work, e.pending) \subseteq Held(Tail(e.work), e.pending) \cup {d.id}
          /\ Holds(Tail(e.work), e.pending, purged) \subseteq Holds(e.work, e.pending, purged)
          /\ \A id \in Owned(e.work, e.pending) :
                id \in Owned(Tail(e.work), e.pending) \/ (id = d.id /\ (d.claimed \/ d.retry))
      BY <1>2, DroppedIds, Zenon
    <2> QED
      BY <1>1, <1>3, <2>1, Zenon DEF HeldBy, HoldsOf, OwnedBy
  <1> HIDE DEF d
  <1>5. ClaimsLast /\ \A id : Failed(id) => Answered(id)' \/ Purged(id)'
    BY <1>1, MoreClaims, Zenon
  <1>6. ClaimInv'
    BY <1>1, <1>3, <1>4, <1>5, ClaimKept, Zenon DEF EngineInv
  <1>7. RecordInv'
    <2>1. RowsLast
      BY <1>1, Zenon DEF RowsLast, OnRecord
    <2>2. \A c \in Range(Channels) : In(inbox'[c]) \subseteq In(inbox[c]) \cup HeldBy(p)
      BY <1>1, Zenon
    <2> QED
      BY <1>1, <1>3, <1>4, <2>1, <2>2, RecordKept, Zenon DEF EngineInv
  <1>8. AnswerInv'
    <2>1. excused \subseteq excused' /\ (d.retry => d.id \in excused')
      BY <1>1
    <2>2. \A id \in OwnedBy(p) : id \in OwnedBy(p)' \/ id \in excused'
      BY <1>1, <1>4, <2>1, Zenon
    <2>7. \A id \in OwnedBy(p) : id \in OwnedBy(p)' \/ Closed(id)'
      BY <2>2, Zenon DEF Closed
    <2>3. \A id : id = d.id => Claimed(id)'
      BY <1>1, Zenon DEF Claimed
    <2>4. \A id \in HeldBy(p) : id \in HeldBy(p)' \/ id \in excused' \/ Claimed(id)' \/ Purged(id)'
      BY <1>4, <2>3, Zenon
    <2>5. \A c \in claims' : Claimed(c.id) \/ Answered(c.id)'
      BY <1>1, Zenon DEF Claimed
    <2>6. \A c \in claims : In(inbox[c.id.channel]) \subseteq In(inbox'[c.id.channel])
      BY <1>1, Zenon
    <2> QED
      BY <1>1, <1>3, <1>5, <2>1, <2>4, <2>5, <2>6, <2>7, AnswerKept, Zenon DEF EngineInv
  <1> QED
    BY <1>3, <1>6, <1>7, <1>8, Zenon DEF EngineInv

\* A delivery was tried and no channel reached: it is kept, or given up and
\* reported.
LEMMA TriedStep ==
    ASSUME EngineInv, NEW p \in Procs, Working(p), NEW n \in Nat,
           NEW i, i = Head(proc[p].work).id,
           proc' = [proc EXCEPT ![p] = Done(proc[p], Kept(proc[p], Counted(Head(proc[p].work), n)))],
           UNCHANGED <<alerts, holder, inbox, blurred, announced, unrecorded, purged, overlapped, unsure>>,
           claims \subseteq claims', \A c \in claims' : c \in claims \/ (ShapedClaim(c) /\ c.id = i),
           excused \subseteq excused', n >= maxNotifyAttempts => i \in excused'
    PROVE  EngineInv'
  <1> DEFINE e == proc[p]
             q == Kept(e, Counted(Head(e.work), n))
  <1>1. /\ Queue(e.work) /\ Queue(e.pending) /\ e.work # <<>> /\ Single(e.work, e.pending, purged)
        /\ \A c \in claims : ShapedClaim(c)
        /\ ShapedInbox(inbox)
    BY AtWork, Zenon
  <1>2. /\ Queue(q) /\ Single(Tail(e.work), q, purged)
        /\ Holds(Tail(e.work), q, purged) \subseteq Holds(e.work, e.pending, purged)
        /\ Held(Tail(e.work), q) \subseteq Held(e.work, e.pending)
        /\ Held(e.work, e.pending) \subseteq Held(Tail(e.work), q) \cup {i}
        /\ Owned(e.work, e.pending) \subseteq Owned(Tail(e.work), q) \cup {i}
        /\ n < maxNotifyAttempts => i \in Owned(Tail(e.work), q)
    <2>1. q = Kept(e, Counted(Head(e.work), n))
      BY Zenon
    <2> HIDE DEF q
    <2>2. Tried(e, q, n, purged)
      BY <1>1, <2>1, TriedIds, Zenon
    <2> QED
      BY <2>2, Zenon DEF Tried
  <1> HIDE DEF q
  <1>3. /\ AlertsShape' /\ LockInv' /\ LeaderInv' /\ Others(p)
        /\ proc'[p].work = Tail(e.work) /\ proc'[p].pending = q
    <2>1. \A c \in claims' : ShapedClaim(c)
      BY <1>1, Zenon
    <2>2. proc' = [proc EXCEPT ![p] = Done(e, q)]
      BY Zenon DEF q
    <2> QED
      BY <1>1, <1>2, <2>1, <2>2, DoneStep, Zenon DEF EngineInv
  <1>4. /\ Single(proc'[p].work, proc'[p].pending, purged')
        /\ HeldBy(p)' \subseteq HeldBy(p) /\ HeldBy(p) \subseteq HeldBy(p)' \cup {i}
        /\ HoldsOf(p)' \subseteq HoldsOf(p)
        /\ OwnedBy(p) \subseteq OwnedBy(p)' \cup {i}
        /\ n < maxNotifyAttempts => i \in OwnedBy(p)'
    BY <1>2, <1>3, Zenon DEF HeldBy, HoldsOf, OwnedBy
  <1>5. ClaimsLast /\ \A id : Failed(id) => Answered(id)' \/ Purged(id)'
    BY MoreClaims, Zenon
  <1>6. purged \subseteq purged' /\ inbox' = inbox /\ blurred' = blurred /\ unrecorded' = unrecorded
    BY Zenon
  <1>7. ClaimInv'
    BY <1>3, <1>4, <1>5, <1>6, ClaimKept, Zenon DEF EngineInv
  <1>8. RecordInv'
    <2>1. RowsLast
      BY Zenon DEF RowsLast, OnRecord
    <2>2. \A c \in Range(Channels) : In(inbox'[c]) \subseteq In(inbox[c]) \cup HeldBy(p)
      BY Zenon
    <2> QED
      BY <1>3, <1>4, <1>6, <2>1, <2>2, RecordKept, Zenon DEF EngineInv
  <1>9. AnswerInv'
    <2>1. i \in excused' \/ i \in OwnedBy(p)'
      <3>1. n >= maxNotifyAttempts \/ n < maxNotifyAttempts
        BY AlertsAssumption
      <3> QED
        BY <1>4, <3>1, Zenon
    <2>2. \A id \in OwnedBy(p) : id \in OwnedBy(p)' \/ Closed(id)'
      BY <1>4, <2>1, Zenon DEF Closed
    <2>3. OwnedBy(p)' \subseteq HeldBy(p)'
      BY Zenon DEF OwnedBy, HeldBy, Owned, Held
    <2>4. \A id \in HeldBy(p) : id \in HeldBy(p)' \/ id \in excused' \/ Claimed(id)' \/ Purged(id)'
      BY <1>4, <2>1, <2>3, Zenon
    <2>5. \A c \in claims' : Claimed(c.id) \/ Answered(c.id)'
      BY <2>1, Zenon DEF Claimed, Answered
    <2>6. \A c \in claims : In(inbox[c.id.channel]) \subseteq In(inbox'[c.id.channel])
      BY Zenon
    <2>7. \A id \in announced' : id \in announced \/ id \in HeldBy(p)'
      BY Zenon
    <2> QED
      BY <1>3, <1>5, <1>6, <2>2, <2>4, <2>5, <2>6, <2>7, AnswerKept, Zenon DEF EngineInv
  <1> QED
    BY <1>3, <1>7, <1>8, <1>9, Zenon DEF EngineInv

\* After the deadline of a pass the delivery is kept, and nothing is counted.
LEMMA DeferredStep ==
    ASSUME EngineInv, NEW p \in Procs, Deferred(p) PROVE EngineInv'
  <1> DEFINE e == proc[p]
             d == Head(e.work)
  <1>1. /\ Working(p) /\ proc' = [proc EXCEPT ![p] = Done(e, Kept(e, d))]
        /\ UNCHANGED <<alerts, claims, holder, inbox, history, overlapped, unsure>>
    BY Zenon DEF Deferred
  <1>2. ShapedDelivery(d)
    BY <1>1, AtWork, Zenon
  <1>3. d.attempts \in Nat /\ ~(d.attempts >= maxNotifyAttempts)
    BY <1>2, AlertsAssumption DEF ShapedDelivery
  <1>4. Formed(d)
    BY <1>2, FormedDelivery, Zenon DEF ShapedDelivery
  <1>5. Counted(d, d.attempts) = d
    BY <1>4 DEF Counted, Formed, DeliveryFields
  <1>6. /\ UNCHANGED <<alerts, holder, inbox, blurred, announced, unrecorded, purged, overlapped, unsure>>
        /\ claims' = claims /\ excused' = excused
    BY <1>1, Zenon DEF history
  <1>7. proc' = [proc EXCEPT ![p] = Done(e, Kept(e, Counted(d, d.attempts)))]
    BY <1>1, <1>5, Zenon
  <1>8. \A c \in claims' : c \in claims
    BY <1>6, Zenon
  <1> QED
    BY <1>1, <1>3, <1>6, <1>7, <1>8, TriedStep, Zenon

\* The claim failed, or its answer was lost: keepUnclaimed.
LEMMA ClaimFailsStep ==
    ASSUME EngineInv, NEW p \in Procs, NEW lost \in BOOLEAN, ClaimFails(p, lost) PROVE EngineInv'
  <1> DEFINE e == proc[p]
             d == Head(e.work)
             n == d.attempts + 1
  <1>1. /\ Working(p) /\ claims' = IF lost THEN claims \cup {Claim(d.id)} ELSE claims
        /\ UNCHANGED <<alerts, holder, inbox, blurred, announced, unrecorded, purged, overlapped, unsure>>
    BY Zenon DEF ClaimFails
  <1>2. ShapedDelivery(d) /\ \A c \in claims : ShapedClaim(c)
    BY <1>1, AtWork, Zenon
  <1>3. n \in Nat
    BY <1>2 DEF ShapedDelivery
  <1>4. Counted(d, n) = [d EXCEPT !.attempts = @ + 1] /\ Counted(d, n).attempts = n
    <2>1. Formed(d)
      BY <1>2, FormedDelivery, Zenon DEF ShapedDelivery
    <2> QED
      BY <2>1 DEF Counted, Formed, DeliveryFields
  <1>5. /\ proc' = [proc EXCEPT ![p] = Done(e, Kept(e, Counted(d, n)))]
        /\ excused' = IF Counted(d, n).attempts >= maxNotifyAttempts THEN excused \cup {d.id} ELSE excused
    <2>1. /\ proc' = [proc EXCEPT ![p] = Done(e, Kept(e, [d EXCEPT !.attempts = @ + 1]))]
          /\ excused' = IF [d EXCEPT !.attempts = @ + 1].attempts >= maxNotifyAttempts
                        THEN excused \cup {d.id} ELSE excused
      BY Zenon DEF ClaimFails
    <2> QED
      BY <1>4, <2>1, Zenon
  <1>6. excused \subseteq excused' /\ (n >= maxNotifyAttempts => d.id \in excused')
    BY <1>4, <1>5, Zenon
  <1>7. claims \subseteq claims' /\ \A c \in claims' : c \in claims \/ (ShapedClaim(c) /\ c.id = d.id)
    <2>1. Claim(d.id).id = d.id /\ ShapedClaim(Claim(d.id))
      <3>1. ShapedId(d.id)
        BY <1>2, Zenon DEF ShapedDelivery
      <3> QED
        BY <3>1, Zenon DEF Claim, ShapedClaim
    <2> QED
      BY <1>1, <2>1, Zenon
  <1> HIDE DEF n
  <1> QED
    BY <1>1, <1>3, <1>5, <1>6, <1>7, TriedStep, Zenon

\* The channels' boxes.
LEMMA BoxDomains ==
    ASSUME NEW box, ShapedInbox(box)
    PROVE  /\ DOMAIN box = Range(Channels)
           /\ \A c \in Range(Channels) : DOMAIN box[c] = 1 .. Len(box[c]) /\ Len(box[c]) \in Nat
  <1>1. DOMAIN box = Range(Channels)
    BY Zenon DEF ShapedInbox
  <1>2. ASSUME NEW c \in Range(Channels)
        PROVE  DOMAIN box[c] = 1 .. Len(box[c]) /\ Len(box[c]) \in Nat
    BY Zenon DEF ShapedInbox
  <1> QED
    BY <1>1, <1>2, Zenon

\* A channel accepts i: what is new in its box, and what is in it twice.
Accepts(old, box, ch, i) ==
    /\ \A c \in Range(Channels) : In(box[c]) = IF c = ch THEN In(old[c]) \cup {i} ELSE In(old[c])
    /\ \A c \in Range(Channels) : \A m, n \in 1 .. Len(box[c]) :
          box[c][m] = box[c][n] /\ m # n =>
              \/ c = ch /\ box[c][m] = i /\ i \in In(old[c])
              \/ /\ m \in 1 .. Len(old[c]) /\ n \in 1 .. Len(old[c])
                 /\ box[c][m] = old[c][m] /\ box[c][n] = old[c][n]

\* What a channel has after it accepted one more delivery.
LEMMA AppendedBox ==
    ASSUME NEW old, ShapedInbox(old), NEW ch \in Range(Channels), NEW i,
           NEW box, box = [old EXCEPT ![ch] = Append(@, i)]
    PROVE  ShapedInbox(box) /\ Accepts(old, box, ch, i)
  <1>1. /\ box = [c \in Range(Channels) |-> box[c]] /\ box[ch] = Append(old[ch], i)
        /\ \A c \in Range(Channels) : c # ch => box[c] = old[c]
    BY Zenon DEF ShapedInbox
  <1> DEFINE s == old[ch]
             t == Append(s, i)
             L == Len(s)
  <1>2. L \in Nat /\ s = [n \in 1 .. L |-> s[n]]
    BY Zenon DEF ShapedInbox
  <1>3. s \in Seq(In(s))
    BY <1>2, IsQueue, Zenon
  <1>4. /\ Len(t) = L + 1 /\ t = [n \in 1 .. Len(t) |-> t[n]]
        /\ \A n \in 1 .. L : t[n] = s[n] /\ n \in 1 .. Len(t)
        /\ t[L + 1] = i /\ L + 1 \in 1 .. Len(t)
    <2> DEFINE R == In(s)
               S == R \cup {i}
    <2> HIDE DEF s, R
    <2>1. s \in Seq(S) /\ i \in S
      <3>1. s \in Seq(R)
        BY <1>3, Zenon DEF R
      <3> QED
        BY <3>1, SMTT(30)
    <2> HIDE DEF S
    <2>2. t \in Seq(S) /\ Len(t) = L + 1
      BY <1>2, <2>1
    <2>3. \A n \in 1 .. L : t[n] = s[n] /\ n \in 1 .. Len(t)
      BY <1>2, <2>1, <2>2
    <2>4. t[L + 1] = i /\ L + 1 \in 1 .. Len(t)
      BY <1>2, <2>1, <2>2
    <2> HIDE DEF t
    <2>5. t = [n \in 1 .. Len(t) |-> t[n]]
      BY <2>2
    <2> QED
      BY <2>2, <2>3, <2>4, <2>5, Zenon
  <1>5. \A n \in 1 .. Len(t) : n = L + 1 \/ n \in 1 .. L
    BY <1>2, <1>4
  <1>6. In(t) = In(s) \cup {i}
    BY <1>4, <1>5, Zenon DEF In
  <1>7. box[ch] = t /\ old[ch] = s
    BY <1>1, Zenon
  <1> HIDE DEF t, s, L
  <1>8. Len(t) \in Nat
    BY <1>2, <1>4
  <1>9. ShapedInbox(box)
    <2>1. ASSUME NEW c \in Range(Channels)
          PROVE  Len(box[c]) \in Nat /\ box[c] = [n \in 1 .. Len(box[c]) |-> box[c][n]]
      <3>1. CASE c = ch
        BY <1>4, <1>7, <1>8, <3>1, Zenon
      <3>2. CASE c # ch
        <4>1. box[c] = old[c]
          BY <1>1, <3>2, Zenon
        <4>2. Len(old[c]) \in Nat /\ old[c] = [n \in 1 .. Len(old[c]) |-> old[c][n]]
          BY Zenon DEF ShapedInbox
        <4> QED
          BY <4>1, <4>2, Zenon
      <3> QED
        BY <3>1, <3>2, Zenon
    <2> QED
      BY <1>1, <2>1, Zenon DEF ShapedInbox
  <1>10. \A c \in Range(Channels) : In(box[c]) = IF c = ch THEN In(old[c]) \cup {i} ELSE In(old[c])
    BY <1>1, <1>6, <1>7, Zenon
  <1>11. ASSUME NEW c \in Range(Channels), NEW m \in 1 .. Len(box[c]), NEW n \in 1 .. Len(box[c]),
                box[c][m] = box[c][n], m # n
         PROVE  \/ c = ch /\ box[c][m] = i /\ i \in In(old[c])
                \/ /\ m \in 1 .. Len(old[c]) /\ n \in 1 .. Len(old[c])
                   /\ box[c][m] = old[c][m] /\ box[c][n] = old[c][n]
    <2>1. CASE c # ch
      BY <1>1, <2>1, Zenon
    <2>2. CASE c = ch
      <3>1. m \in 1 .. Len(t) /\ n \in 1 .. Len(t) /\ t[m] = t[n]
        BY <1>7, <1>11, <2>2, Zenon
      <3>2. \A k \in 1 .. L : t[k] \in In(s)
        BY <1>4, Zenon DEF In, L
      <3>3. CASE m = L + 1 \/ n = L + 1
        <4>1. t[m] = i /\ (m \in 1 .. L \/ n \in 1 .. L)
          BY <1>4, <1>5, <1>11, <3>1, <3>3, Zenon
        <4>2. i \in In(s)
          BY <3>1, <3>2, <4>1, Zenon
        <4> QED
          BY <1>7, <2>2, <4>1, <4>2, Zenon
      <3>4. CASE m \in 1 .. L /\ n \in 1 .. L
        BY <1>4, <1>7, <2>2, <3>4, Zenon DEF L
      <3> QED
        BY <1>5, <3>1, <3>3, <3>4, Zenon
    <2> QED
      BY <2>1, <2>2, Zenon
  <1> QED
    BY <1>9, <1>10, <1>11, ZenonT(40) DEF Accepts

\* The outcome of a delivery is marked on its claim.
LEMMA Marked ==
    ASSUME \A c \in claims : ShapedClaim(c), NEW i, ShapedId(i), NEW ok, NEW n,
           claims' = MarkNotification(i, ok, n)
    PROVE  /\ \A c \in claims' : ShapedClaim(c) /\ Claimed(c.id)
           /\ ClaimsLast
           /\ \A c \in claims : c.id # i => c \in claims'
           /\ Claimed(i) => \E c \in claims' : c.id = i /\ c.attempts = n
  <1> DEFINE m == [id |-> i, ok |-> ok, attempts |-> n, at |-> now]
  <1>1. m.id = i /\ m.attempts = n /\ ShapedClaim(m)
    BY Zenon DEF ShapedClaim
  <1>2. claims' = {c \in claims : c.id # i} \cup {m : c \in {x \in claims : x.id = i}}
    BY Zenon DEF MarkNotification
  <1> HIDE DEF m
  <1>3. \A c \in claims' : (c \in claims /\ c.id # i) \/ (c = m /\ Claimed(i))
    BY <1>2, Zenon DEF Claimed
  <1>4. \A c \in claims' : ShapedClaim(c) /\ Claimed(c.id)
    BY <1>1, <1>3, Zenon DEF Claimed
  <1>5. \A c \in claims : c.id # i => c \in claims'
    BY <1>2, Zenon
  <1>6. Claimed(i) => m \in claims'
    BY <1>2, Zenon DEF Claimed
  <1>7. ClaimsLast
    <2> SUFFICES ASSUME NEW id, Claimed(id) PROVE Claimed(id)'
      BY Zenon DEF ClaimsLast
    <2>1. CASE id = i
      BY <1>1, <1>6, <2>1, Zenon DEF Claimed
    <2>2. CASE id # i
      BY <1>5, <2>2, Zenon DEF Claimed
    <2> QED
      BY <2>1, <2>2, Zenon
  <1> QED
    BY <1>1, <1>4, <1>5, <1>6, <1>7, Zenon

\* deliver sent a claimed delivery: it is over, or tried.
Sent(e, q, sent, n, G) ==
    \/ sent = "ok" /\ q = e.pending
    \/ sent # "ok" /\ Tried(e, q, n, G)

\* What the replica's memory has after deliver sent the head of the work.
LEMMA SentIds ==
    ASSUME NEW e, NEW G, Queue(e.work), Queue(e.pending), e.work # <<>>, Single(e.work, e.pending, G),
           NEW n, NEW sent, NEW q, Sent(e, q, sent, n, G), Head(e.work).claimed
    PROVE  /\ Queue(q) /\ Single(Tail(e.work), q, G)
           /\ Holds(Tail(e.work), q, G) \subseteq Holds(e.work, e.pending, G)
           /\ Held(Tail(e.work), q) \subseteq Held(e.work, e.pending)
           /\ Held(e.work, e.pending) \subseteq Held(Tail(e.work), q) \cup {Head(e.work).id}
           /\ Owned(e.work, e.pending) \subseteq Owned(Tail(e.work), q) \cup {Head(e.work).id}
           /\ sent = "ok" => Head(e.work).id \notin Holds(Tail(e.work), q, G)
           /\ sent # "ok" /\ n < maxNotifyAttempts => Head(e.work).id \in Owned(Tail(e.work), q)
  <1> DEFINE i == Head(e.work).id
             w == Tail(e.work)
  <1>1. CASE sent # "ok"
    BY <1>1, Zenon DEF Sent, Tried
  <1>2. CASE sent = "ok"
    <2>1. q = e.pending
      BY <1>2, Zenon DEF Sent
    <2>2. /\ Single(w, e.pending, G)
          /\ Held(w, e.pending) \subseteq Held(e.work, e.pending)
          /\ Held(e.work, e.pending) \subseteq Held(w, e.pending) \cup {i}
          /\ Holds(w, e.pending, G) \subseteq Holds(e.work, e.pending, G)
          /\ \A id \in Owned(e.work, e.pending) : id \in Owned(w, e.pending) \/ id = i
      BY DroppedIds, Zenon
    <2>3. ~Gone(i, G) => i \notin Holds(w, e.pending, G)
      BY DropHead, Zenon
    <2>4. \A id \in Holds(w, e.pending, G) : ~Gone(id, G)
      BY Zenon DEF Holds
    <2>5. i \notin Holds(w, e.pending, G)
      BY <2>3, <2>4, Zenon
    <2>6. Owned(e.work, e.pending) \subseteq Owned(w, e.pending) \cup {i}
      BY <2>2, Zenon
    <2> HIDE DEF w, i
    <2> QED
      BY <1>2, <2>1, <2>2, <2>5, <2>6, Zenon DEF w, i
  <1> QED
    BY <1>1, <1>2, Zenon

SentBy(p, sent) ==
    \E q : /\ Sent(proc[p], q, sent, Head(proc[p].work).attempts + 1, purged)
           /\ proc' = [proc EXCEPT ![p] = Done(proc[p], q)]

\* What the attempt leaves of the replica and the tables.
LEMMA SendFacts ==
    ASSUME EngineInv, NEW p \in Procs, NEW sent \in {"ok", "fails", "blurred"}, NEW marked \in BOOLEAN,
           Send(p, sent, marked)
    PROVE  LET d == Head(proc[p].work)
           IN  /\ Working(p) /\ d.claimed
               /\ SentBy(p, sent)
               /\ inbox' = IF sent = "fails" THEN inbox ELSE [inbox EXCEPT ![d.id.channel] = Append(@, d.id)]
               /\ blurred' = IF sent = "blurred" THEN blurred \cup {d.id} ELSE blurred
               /\ claims' = IF marked THEN MarkNotification(d.id, sent = "ok", d.attempts + 1) ELSE claims
               /\ unrecorded' = IF sent = "fails" /\ ~marked /\ d.attempts + 1 >= maxNotifyAttempts
                                THEN unrecorded \cup {d.id} ELSE unrecorded
               /\ UNCHANGED <<alerts, holder, announced, excused, purged, overlapped, unsure>>
  <1> DEFINE e == proc[p]
             d == Head(e.work)
             n == d.attempts + 1
  <1>1. /\ Working(p) /\ d.claimed
        /\ inbox' = IF sent = "fails" THEN inbox ELSE [inbox EXCEPT ![d.id.channel] = Append(@, d.id)]
        /\ blurred' = IF sent = "blurred" THEN blurred \cup {d.id} ELSE blurred
        /\ claims' = IF marked THEN MarkNotification(d.id, sent = "ok", d.attempts + 1) ELSE claims
        /\ unrecorded' = IF sent = "fails" /\ ~marked /\ d.attempts + 1 >= maxNotifyAttempts
                         THEN unrecorded \cup {d.id} ELSE unrecorded
        /\ UNCHANGED <<alerts, holder, announced, excused, purged, overlapped, unsure>>
    BY Zenon DEF Send
  <1>2. /\ Queue(e.work) /\ Queue(e.pending) /\ e.work # <<>> /\ Single(e.work, e.pending, purged)
        /\ ShapedDelivery(d)
    BY <1>1, AtWork, Zenon
  <1>3. n \in Nat
    BY <1>2 DEF ShapedDelivery
  <1>4. proc' = [proc EXCEPT ![p] = Done(e, IF sent = "ok" THEN e.pending ELSE Kept(e, Counted(d, n)))]
    BY Zenon DEF Send, Counted
  <1>5. CASE sent = "ok"
    <2>1. proc' = [proc EXCEPT ![p] = Done(e, e.pending)] /\ Sent(e, e.pending, sent, n, purged)
      BY <1>4, <1>5, Zenon DEF Sent
    <2> QED
      BY <1>1, <2>1, Zenon DEF SentBy
  <1>6. CASE sent # "ok"
    <2> DEFINE q == Kept(e, Counted(d, n))
    <2>1. proc' = [proc EXCEPT ![p] = Done(e, q)]
      BY <1>4, <1>6, Zenon
    <2>2. Tried(e, q, n, purged)
      BY <1>2, <1>3, TriedIds, Zenon
    <2> HIDE DEF q
    <2>3. Sent(e, q, sent, n, purged)
      BY <1>6, <2>2, Zenon DEF Sent
    <2> QED
      BY <1>1, <2>1, <2>3, Zenon DEF SentBy
  <1> QED
    BY <1>5, <1>6, Zenon

\* The channel accepts or refuses a claimed delivery.
LEMMA SendStep ==
    ASSUME EngineInv, NEW p \in Procs, NEW sent \in {"ok", "fails", "blurred"}, NEW marked \in BOOLEAN,
           Send(p, sent, marked)
    PROVE  EngineInv'
  <1> DEFINE e == proc[p]
             d == Head(e.work)
  <1>1. /\ Working(p) /\ d.claimed
        /\ UNCHANGED <<alerts, holder, announced, excused, purged, overlapped, unsure>>
    BY SendFacts, Zenon
  <1>2. PICK q : /\ Sent(e, q, sent, d.attempts + 1, purged)
                 /\ proc' = [proc EXCEPT ![p] = Done(e, q)]
    <2>1. SentBy(p, sent)
      BY SendFacts, Zenon
    <2> QED
      BY <2>1, Zenon DEF SentBy
  <1>3. PICK i, n : i = d.id /\ n = d.attempts + 1
    BY Zenon
  <1>4. /\ inbox' = IF sent = "fails" THEN inbox ELSE [inbox EXCEPT ![i.channel] = Append(@, i)]
        /\ blurred' = IF sent = "blurred" THEN blurred \cup {i} ELSE blurred
        /\ claims' = IF marked THEN MarkNotification(i, sent = "ok", n) ELSE claims
        /\ unrecorded' = IF sent = "fails" /\ ~marked /\ n >= maxNotifyAttempts
                         THEN unrecorded \cup {i} ELSE unrecorded
    <2>1. /\ inbox' = IF sent = "fails" THEN inbox ELSE [inbox EXCEPT ![d.id.channel] = Append(@, d.id)]
          /\ blurred' = IF sent = "blurred" THEN blurred \cup {d.id} ELSE blurred
          /\ claims' = IF marked THEN MarkNotification(d.id, sent = "ok", d.attempts + 1) ELSE claims
          /\ unrecorded' = IF sent = "fails" /\ ~marked /\ d.attempts + 1 >= maxNotifyAttempts
                           THEN unrecorded \cup {d.id} ELSE unrecorded
      BY SendFacts, Zenon
    <2> QED
      BY <1>3, <2>1, Zenon
  <1>5. /\ Queue(e.work) /\ Queue(e.pending) /\ e.work # <<>> /\ Single(e.work, e.pending, purged)
        /\ ShapedDelivery(d) /\ d \in Memory(e.work, e.pending)
        /\ \A c \in claims : ShapedClaim(c)
        /\ ShapedInbox(inbox)
    BY <1>1, AtWork, Zenon
  <1>6. n \in Nat /\ ShapedId(i) /\ i.channel \in Range(Channels)
    <2>1. d.attempts \in Nat /\ ShapedId(d.id)
      BY <1>5, Zenon DEF ShapedDelivery
    <2> QED
      BY <1>3, <2>1 DEF ShapedId
  <1>7. i \in HeldBy(p) /\ (Gone(i, purged) \/ i \in HoldsOf(p))
    BY <1>1, <1>3, <1>5, Zenon DEF HeldBy, Held, HoldsOf, Holds
  <1>8. Claimed(i) \/ Purged(i)
    BY <1>7, Zenon DEF EngineInv, ClaimInv, Gone, Purged
  <1>9. Accepted(i) => i \in blurred \/ Purged(i)
    BY <1>7, Zenon DEF EngineInv, ClaimInv, Gone, Purged
  \* The boxes.
  <1>10. /\ ShapedInbox(inbox')
         /\ \A c \in Range(Channels) : In(inbox[c]) \subseteq In(inbox'[c]) /\ In(inbox'[c]) \subseteq In(inbox[c]) \cup {i}
         /\ sent = "fails" => inbox' = inbox
         /\ sent # "fails" => i \in In(inbox'[i.channel]) /\ Accepts(inbox, inbox', i.channel, i)
    <2>1. CASE sent = "fails"
      BY <1>4, <1>5, <2>1, Zenon
    <2>2. CASE sent # "fails"
      <3>1. inbox' = [inbox EXCEPT ![i.channel] = Append(@, i)]
        BY <1>4, <2>2, Zenon
      <3>2. ShapedInbox(inbox') /\ Accepts(inbox, inbox', i.channel, i)
        BY <1>5, <1>6, <3>1, AppendedBox, Zenon
      <3>3. \A c \in Range(Channels) :
               In(inbox'[c]) = IF c = i.channel THEN In(inbox[c]) \cup {i} ELSE In(inbox[c])
        BY <3>2, Zenon DEF Accepts
      <3>4. \A c \in Range(Channels) :
               In(inbox[c]) \subseteq In(inbox'[c]) /\ In(inbox'[c]) \subseteq In(inbox[c]) \cup {i}
        BY <3>3, Zenon
      <3>5. i \in In(inbox'[i.channel])
        BY <1>6, <3>3, Zenon
      <3> QED
        BY <2>2, <3>2, <3>4, <3>5, Zenon
    <2> QED
      BY <2>1, <2>2, Zenon
  \* The claims.
  <1>11. /\ \A c \in claims' : ShapedClaim(c) /\ Claimed(c.id)
         /\ ClaimsLast
         /\ \A c \in claims : c.id # i => c \in claims'
         /\ marked /\ Claimed(i) => \E c \in claims' : c.id = i /\ c.attempts = n
    <2>1. CASE marked
      <3>1. claims' = MarkNotification(i, sent = "ok", n)
        BY <1>4, <2>1, Zenon
      <3> QED
        BY <1>5, <1>6, <3>1, Marked
    <2>2. CASE ~marked
      BY <1>4, <1>5, <2>2, Zenon DEF ClaimsLast, Claimed
    <2> QED
      BY <2>1, <2>2, Zenon
  \* The replica.
  <1>12. /\ Queue(q) /\ Single(Tail(e.work), q, purged)
         /\ Holds(Tail(e.work), q, purged) \subseteq Holds(e.work, e.pending, purged)
         /\ Held(Tail(e.work), q) \subseteq Held(e.work, e.pending)
         /\ Held(e.work, e.pending) \subseteq Held(Tail(e.work), q) \cup {d.id}
         /\ Owned(e.work, e.pending) \subseteq Owned(Tail(e.work), q) \cup {d.id}
         /\ sent = "ok" => d.id \notin Holds(Tail(e.work), q, purged)
         /\ sent # "ok" /\ d.attempts + 1 < maxNotifyAttempts => d.id \in Owned(Tail(e.work), q)
    BY <1>1, <1>2, <1>5, SentIds, Zenon
  <1>13. /\ AlertsShape' /\ LockInv' /\ LeaderInv' /\ Others(p)
         /\ proc'[p].work = Tail(e.work) /\ proc'[p].pending = q
    <2>1. \A c \in claims' : ShapedClaim(c)
      BY <1>11, Zenon
    <2>2. UNCHANGED <<alerts, holder, overlapped, unsure>>
      BY <1>1, Zenon
    <2> QED
      BY <1>1, <1>2, <1>10, <1>12, <2>1, <2>2, DoneStep, Zenon DEF EngineInv
  <1>14. /\ Single(proc'[p].work, proc'[p].pending, purged')
         /\ HeldBy(p)' \subseteq HeldBy(p) /\ HeldBy(p) \subseteq HeldBy(p)' \cup {i}
         /\ HoldsOf(p)' \subseteq HoldsOf(p)
         /\ OwnedBy(p) \subseteq OwnedBy(p)' \cup {i}
         /\ sent = "ok" => i \notin HoldsOf(p)'
         /\ sent # "ok" /\ n < maxNotifyAttempts => i \in OwnedBy(p)'
    BY <1>1, <1>3, <1>12, <1>13, Zenon DEF HeldBy, HoldsOf, OwnedBy
  <1>15. purged' = purged /\ blurred \subseteq blurred' /\ (sent = "blurred" => i \in blurred')
    BY <1>1, <1>4, Zenon
  <1>16. ClaimInv'
    <2>1. \A t \in Procs : t # p => proc'[t] = proc[t] /\ HoldsOf(t)' = HoldsOf(t)
      BY <1>13, <1>15, Zenon DEF Others, HoldsOf
    <2>2. \A t \in Procs : HoldsOf(t)' \subseteq HoldsOf(t)
      BY <1>14, <2>1, Zenon
    <2>3. \A t \in Procs : Single(proc'[t].work, proc'[t].pending, purged')
      BY <1>14, <1>15, <2>1, Zenon DEF EngineInv, ClaimInv
    <2>4. \A t, u \in Procs : t # u => HoldsOf(t)' \cap HoldsOf(u)' = {}
      BY <2>2, Zenon DEF EngineInv, ClaimInv
    <2>5. ASSUME NEW t \in Procs, NEW id \in HoldsOf(t)'
          PROVE  Claimed(id)' /\ (Accepted(id)' => id \in blurred')
      <3>1. Claimed(id) /\ (Accepted(id) => id \in blurred)
        BY <2>2, Zenon DEF EngineInv, ClaimInv
      <3>2. ~Purged(id) /\ ~Purged(id)'
        BY <1>15, Zenon DEF HoldsOf, Holds, Gone, Purged
      <3>3. Claimed(id)'
        BY <1>11, <3>1, <3>2, Zenon DEF ClaimsLast
      <3>4. CASE id # i
        <4>1. Accepted(id)' => Accepted(id)
          BY <1>10, <3>4, Zenon DEF Accepted
        <4> QED
          BY <1>15, <3>1, <3>3, <4>1, Zenon
      <3>5. CASE id = i /\ sent = "blurred"
        BY <1>15, <3>3, <3>5, Zenon
      <3>6. CASE sent = "fails"
        <4>1. Accepted(id)' => Accepted(id)
          BY <1>10, <3>6, Zenon DEF Accepted
        <4> QED
          BY <1>15, <3>1, <3>3, <4>1, Zenon
      <3>7. CASE id = i /\ sent = "ok"
        <4>1. t # p
          BY <1>14, <3>7, Zenon
        <4>2. i \in HoldsOf(p) /\ i \in HoldsOf(t)
          BY <1>7, <2>2, <3>2, <3>7, Zenon DEF Gone, Purged
        <4> QED
          BY <4>1, <4>2, Zenon DEF EngineInv, ClaimInv
      <3> QED
        BY <3>4, <3>5, <3>6, <3>7, Zenon
    <2>6. ASSUME NEW c \in Range(Channels), NEW id \in In(inbox'[c])
          PROVE  Claimed(id)' \/ Purged(id)'
      <3>1. Claimed(id) \/ Purged(id)
        BY <1>8, <1>10, Zenon DEF EngineInv, ClaimInv
      <3> QED
        BY <1>11, <1>15, <3>1, Zenon DEF ClaimsLast, Purged
    <2>7. DeliveredOnce'
      <3> SUFFICES ASSUME NEW c \in DOMAIN inbox', NEW m \in DOMAIN inbox'[c], NEW k \in DOMAIN inbox'[c],
                          inbox'[c][m] = inbox'[c][k], m # k
                   PROVE  \/ inbox'[c][m] \in blurred'
                          \/ <<inbox'[c][m].key, inbox'[c][m].start>> \in purged'
        BY Zenon DEF DeliveredOnce, Purged
      <3>1. /\ DOMAIN inbox = Range(Channels) /\ DOMAIN inbox' = Range(Channels)
            /\ DOMAIN inbox[c] = 1 .. Len(inbox[c]) /\ DOMAIN inbox'[c] = 1 .. Len(inbox'[c])
        BY <1>5, <1>10, BoxDomains, Zenon
      <3>2. DeliveredOnce
        BY Zenon DEF EngineInv, ClaimInv
      <3>3. CASE sent = "fails"
        BY <1>10, <1>15, <3>2, <3>3, Zenon DEF DeliveredOnce, Purged
      <3>4. CASE sent # "fails"
        <4>1. \/ c = i.channel /\ inbox'[c][m] = i /\ i \in In(inbox[c])
              \/ /\ m \in 1 .. Len(inbox[c]) /\ k \in 1 .. Len(inbox[c])
                 /\ inbox'[c][m] = inbox[c][m] /\ inbox'[c][k] = inbox[c][k]
          BY <1>10, <3>1, <3>4, Zenon DEF Accepts
        <4>2. CASE c = i.channel /\ inbox'[c][m] = i /\ i \in In(inbox[c])
          <5>1. Accepted(i)
            BY <1>6, <4>2, Zenon DEF Accepted
          <5> QED
            BY <1>9, <1>15, <4>2, <5>1, Zenon DEF Purged
        <4>3. CASE /\ m \in 1 .. Len(inbox[c]) /\ k \in 1 .. Len(inbox[c])
                   /\ inbox'[c][m] = inbox[c][m] /\ inbox'[c][k] = inbox[c][k]
          <5>1. inbox[c][m] \in blurred \/ Purged(inbox[c][m])
            BY <3>1, <3>2, <4>3, Zenon DEF DeliveredOnce
          <5> QED
            BY <1>15, <4>3, <5>1, Zenon DEF Purged
        <4> QED
          BY <4>1, <4>2, <4>3, Zenon
      <3> QED
        BY <3>3, <3>4, Zenon
    <2> QED
      BY <2>3, <2>4, <2>5, <2>6, <2>7, Zenon DEF ClaimInv
  <1>17. RecordInv'
    <2>1. RowsLast
      BY <1>1, Zenon DEF RowsLast, OnRecord
    <2>2. \A c \in Range(Channels) : In(inbox'[c]) \subseteq In(inbox[c]) \cup HeldBy(p)
      BY <1>7, <1>10, Zenon
    <2> QED
      BY <1>13, <1>14, <1>15, <2>1, <2>2, RecordKept, Zenon DEF EngineInv
  <1>18. AnswerInv'
    <2>1. i \in OwnedBy(p)' \/ Closed(i)'
      <3>1. n < maxNotifyAttempts \/ n >= maxNotifyAttempts
        BY <1>6, AlertsAssumption
      <3>2. CASE sent # "fails"
        BY <1>10, <3>2, Zenon DEF Closed
      <3>3. CASE sent = "fails" /\ n < maxNotifyAttempts
        BY <1>14, <3>3
      <3>4. CASE sent = "fails" /\ n >= maxNotifyAttempts /\ ~marked
        BY <1>4, <3>4, Zenon DEF Closed
      <3>5. CASE sent = "fails" /\ n >= maxNotifyAttempts /\ marked
        <4>1. Claimed(i) => Failed(i)'
          BY <1>11, <3>5, Zenon DEF Failed
        <4> QED
          BY <1>8, <1>15, <4>1, Zenon DEF Closed, Purged
      <3> QED
        BY <3>1, <3>2, <3>3, <3>4, <3>5, Zenon
    <2>2. \A id \in OwnedBy(p) : id \in OwnedBy(p)' \/ Closed(id)'
      BY <1>14, <2>1, Zenon
    <2>3. \A id \in HeldBy(p) : id \in HeldBy(p)' \/ id \in excused' \/ Claimed(id)' \/ Purged(id)'
      BY <1>8, <1>11, <1>14, <1>15, Zenon DEF ClaimsLast, Purged
    <2>4. \A id : Failed(id) => Answered(id)' \/ Purged(id)'
      <3> SUFFICES ASSUME NEW id, Failed(id) PROVE Answered(id)' \/ Purged(id)'
        BY Zenon
      <3>1. CASE id = i
        BY <2>1, <3>1, Zenon DEF Closed, Answered, Failed
      <3>2. CASE id # i
        BY <1>11, <3>2, Zenon DEF Failed, Answered
      <3> QED
        BY <3>1, <3>2, Zenon
    <2>5. \A c \in claims' : Claimed(c.id) \/ Answered(c.id)'
      BY <1>11, Zenon
    <2>6. \A c \in claims : In(inbox[c.id.channel]) \subseteq In(inbox'[c.id.channel])
      <3>1. \A c \in claims : c.id.channel \in Range(Channels)
        BY <1>5, Zenon DEF ShapedClaim, ShapedId
      <3> QED
        BY <1>10, <3>1, Zenon
    <2>7. /\ excused \subseteq excused' /\ unrecorded \subseteq unrecorded'
          /\ \A id \in announced' : id \in announced \/ id \in HeldBy(p)'
      BY <1>1, <1>4, Zenon
    <2> QED
      BY <1>11, <1>13, <1>15, <2>2, <2>3, <2>4, <2>5, <2>6, <2>7, AnswerKept, Zenon DEF EngineInv
  <1> QED
    BY <1>13, <1>16, <1>17, <1>18, Zenon DEF EngineInv

\* A claim is made: the delivery at the head of the work is now claimed.
LEMMA ClaimWinsStep ==
    ASSUME EngineInv, NEW p \in Procs, ClaimWins(p) PROVE EngineInv'
  <1> DEFINE e == proc[p]
             d == Head(e.work)
             f == [d EXCEPT !.claimed = TRUE]
             v == [e.work EXCEPT ![1] = f]
             x == [e EXCEPT !.work = v]
  <1>1. /\ Working(p) /\ ~d.claimed /\ ~Claimed(d.id)
        /\ claims' = claims \cup {Claim(d.id)}
        /\ proc' = [proc EXCEPT ![p] = x]
        /\ UNCHANGED <<alerts, holder, inbox, history, overlapped, unsure>>
    BY Zenon DEF ClaimWins, Won
  <1>2. /\ Queue(e.work) /\ Queue(e.pending) /\ e.work # <<>> /\ Single(e.work, e.pending, purged)
        /\ ShapedDelivery(d) /\ d \in Memory(e.work, e.pending)
        /\ \A a \in alerts : ShapedRow(a)
        /\ \A c \in claims : ShapedClaim(c)
        /\ ShapedInbox(inbox)
    BY <1>1, AtWork, Zenon
  <1>3. PICK i : i = d.id
    BY Zenon
  <1>4. i \notin Holds(e.work, e.pending, purged)
    BY <1>1, <1>3, Zenon DEF EngineInv, ClaimInv, HoldsOf
  <1>5. /\ Queue(v) /\ v # <<>> /\ Single(v, e.pending, purged)
        /\ f.id = d.id /\ f.claimed
        /\ Memory(v, e.pending) \subseteq Memory(e.work, e.pending) \cup {f}
        /\ Memory(e.work, e.pending) \cup {f} \subseteq Memory(v, e.pending) \cup {d}
        /\ In(v) \subseteq In(e.work) \cup {f}
    <2>1. f = [d EXCEPT !.claimed = TRUE] /\ v = [e.work EXCEPT ![1] = f]
      BY Zenon
    <2> HIDE DEF f, v
    <2>2. MadeClaim(e.work, e.pending, purged, f, v)
      BY <1>2, <1>3, <1>4, <2>1, ClaimHead, Zenon
    <2> QED
      BY <2>2, Zenon DEF MadeClaim
  <1>6. f.id = i /\ f # d
    BY <1>1, <1>3, <1>5, Zenon
  <1> HIDE DEF f, v
  <1>7. ShapedEngine(e)
    BY Zenon DEF EngineInv, AlertsShape
  <1>8. /\ Fields(x) /\ x.work = v /\ x.pending = e.pending /\ SameLeader(x, e) /\ x.pc = e.pc
        /\ x.todo = e.todo /\ x.eval = e.eval
    <2>1. Fields(e)
      BY <1>7, Zenon DEF ShapedEngine
    <2> QED
      BY <2>1, Zenon DEF Fields, EngineFields, SameLeader
  <1> HIDE DEF x
  <1>9. ShapedEngine(x)
    <2>1. /\ x.hasLock \in BOOLEAN /\ x.loaded = e.loaded /\ x.todo \in Seq(Keys)
          /\ x.pc # "idle"
      BY <1>2, <1>7, <1>8, Zenon DEF SameLeader, ShapedEngine
    <2> QED
      BY <1>2, <1>5, <1>7, <1>8, <2>1, ShapedAgain, Zenon
  <1>10. proc'[p] = x /\ Others(p) /\ proc' = [t \in Procs |-> proc'[t]]
    BY <1>1, OneReplica, Zenon DEF EngineInv
  <1>11. Claim(i).id = i /\ ShapedClaim(Claim(i)) /\ claims' = claims \cup {Claim(i)}
    <2>1. ShapedId(i)
      BY <1>2, <1>3, Zenon DEF ShapedDelivery
    <2> QED
      BY <1>1, <1>3, <2>1, Zenon DEF Claim, ShapedClaim
  <1>12. /\ alerts' = alerts /\ holder' = holder /\ inbox' = inbox /\ overlapped' = overlapped
         /\ unsure' = unsure /\ blurred' = blurred /\ announced' = announced /\ excused' = excused
         /\ unrecorded' = unrecorded /\ purged' = purged
    BY <1>1, Zenon DEF history
  <1>13. AlertsShape'
    <2>1. \A c \in claims' : ShapedClaim(c)
      BY <1>2, <1>11, Zenon
    <2>2. ShapedInbox(inbox') /\ \A a \in alerts' : ShapedRow(a)
      BY <1>2, <1>12, Zenon
    <2>3. ShapedEngine(proc'[p])
      BY <1>9, <1>10, Zenon
    <2> QED
      BY <1>10, <2>1, <2>2, <2>3, ShapeKept, Zenon DEF EngineInv
  <1>14. LockInv'
    BY <1>8, <1>10, <1>12, LockKept, Zenon DEF SameLeader, EngineInv
  <1>15. LeaderInv'
    <2>1. Idle(p) => Idle(p)'
      BY <1>8, <1>10, Zenon DEF Idle
    <2>2. Nobody \notin Procs /\ Open' = Open /\ LeaderInv
      BY <1>12, AlertsAssumption, Zenon DEF Open, EngineInv
    <2>3. ~overlapped /\ ~unsure => Current(proc'[p])
      <3>1. ~overlapped /\ ~unsure => Current(e)
        BY <2>2, Zenon DEF LeaderInv
      <3>2. d \in In(e.work)
        BY <1>2, TailQueue, Zenon
      <3>3. \A g \in In(proc'[p].work) : g \in In(e.work) \/ g.id = d.id
        BY <1>5, <1>8, <1>10, Zenon
      <3>4. proc'[p].eval = e.eval
        BY <1>8, <1>10, Zenon
      <3>5. ASSUME ~overlapped /\ ~unsure, NEW g \in In(proc'[p].work), g.id.phase = "fire"
            PROVE  e.eval[g.id.key].firing /\ e.eval[g.id.key].first = g.id.start
        <4>1. PICK h \in In(e.work) : h.id = g.id
          BY <3>2, <3>3, Zenon
        <4> QED
          BY <3>1, <3>5, <4>1, Zenon DEF Current
      <3> QED
        BY <3>4, <3>5, Zenon DEF Current
    <2>4. proc'[p].loaded => e.loaded /\ (Follows(e.eval, Open) => Follows(proc'[p].eval, Open))
      BY <1>8, <1>10, Zenon DEF SameLeader
    <2> QED
      BY <1>10, <1>12, <2>1, <2>2, <2>3, <2>4, LeaderKept, Zenon
  <1>16. /\ Single(proc'[p].work, proc'[p].pending, purged')
         /\ HeldBy(p)' = HeldBy(p)
         /\ HoldsOf(p)' \subseteq HoldsOf(p) \cup {i}
         /\ OwnedBy(p) \cup {i} \subseteq OwnedBy(p)'
    <2> DEFINE M == Memory(e.work, e.pending)
               N == Memory(v, e.pending)
    <2>1. N \subseteq M \cup {f} /\ M \cup {f} \subseteq N \cup {d} /\ f \in N /\ d \in M
      BY <1>2, <1>5, <1>6, Zenon
    <2>2. Memory(proc'[p].work, proc'[p].pending) = N
      BY <1>8, <1>10, Zenon
    <2> HIDE DEF M, N
    <2>3. HeldBy(p) = {g.id : g \in M} /\ HeldBy(p)' = {g.id : g \in N}
      BY <2>2, Zenon DEF HeldBy, Held, M
    <2>4. HeldBy(p)' = HeldBy(p)
      <3>1. \A g \in N : \E h \in M : h.id = g.id
        BY <1>3, <1>6, <2>1, Zenon
      <3>2. \A g \in M : \E h \in N : h.id = g.id
        BY <1>3, <1>6, <2>1, Zenon
      <3>3. HeldBy(p)' \subseteq HeldBy(p)
        BY <2>3, <3>1, Zenon
      <3>4. HeldBy(p) \subseteq HeldBy(p)'
        BY <2>3, <3>2, Zenon
      <3> QED
        BY <3>3, <3>4, Zenon
    <2>5. \A id \in HoldsOf(p)' : id \in HoldsOf(p) \/ id = i
      <3>1. HoldsOf(p) = {g.id : g \in {y \in M : y.claimed /\ ~Gone(y.id, purged)}}
        BY Zenon DEF HoldsOf, Holds, M
      <3>2. HoldsOf(p)' = {g.id : g \in {y \in N : y.claimed /\ ~Gone(y.id, purged)}}
        BY <1>12, <2>2, Zenon DEF HoldsOf, Holds
      <3> QED
        BY <1>6, <2>1, <3>1, <3>2, Zenon
    <2>6. \A id \in OwnedBy(p) \cup {i} : id \in OwnedBy(p)'
      <3>1. OwnedBy(p) = {g.id : g \in {y \in M : y.claimed \/ y.retry}}
        BY Zenon DEF OwnedBy, Owned, M
      <3>2. OwnedBy(p)' = {g.id : g \in {y \in N : y.claimed \/ y.retry}}
        BY <2>2, Zenon DEF OwnedBy, Owned
      <3>3. i \in OwnedBy(p)'
        BY <1>5, <1>6, <2>1, <3>2, Zenon
      <3> QED
        BY <1>3, <2>1, <3>1, <3>2, <3>3, Zenon
    <2>7. Single(proc'[p].work, proc'[p].pending, purged')
      BY <1>5, <1>8, <1>10, <1>12, Zenon
    <2> QED
      BY <2>4, <2>5, <2>6, <2>7, Zenon
  <1>17. ClaimsLast /\ \A id : Failed(id) => Answered(id)' \/ Purged(id)'
    BY <1>11, MoreClaims, Zenon
  <1>18. ClaimInv'
    <2>1. \A t \in Procs : t # p => proc'[t] = proc[t] /\ HoldsOf(t)' = HoldsOf(t)
      BY <1>10, <1>12, Zenon DEF Others, HoldsOf
    <2>2. \A t \in Procs : Single(proc'[t].work, proc'[t].pending, purged')
      BY <1>12, <1>16, <2>1, Zenon DEF EngineInv, ClaimInv
    <2>3. \A t \in Procs : i \notin HoldsOf(t)
      BY <1>1, <1>3, Zenon DEF EngineInv, ClaimInv
    <2>4. ASSUME NEW t \in Procs, NEW u \in Procs, t # u
          PROVE  HoldsOf(t)' \cap HoldsOf(u)' = {}
      <3>1. HoldsOf(t) \cap HoldsOf(u) = {}
        BY <2>4, Zenon DEF EngineInv, ClaimInv
      <3>2. CASE t = p
        BY <1>16, <2>1, <2>3, <2>4, <3>1, <3>2, Zenon
      <3>3. CASE u = p
        BY <1>16, <2>1, <2>3, <2>4, <3>1, <3>3, Zenon
      <3>4. CASE t # p /\ u # p
        BY <2>1, <3>1, <3>4, Zenon
      <3> QED
        BY <3>2, <3>3, <3>4, Zenon
    <2>5. ASSUME NEW t \in Procs, NEW id \in HoldsOf(t)'
          PROVE  Claimed(id)' /\ (Accepted(id)' => id \in blurred')
      <3>1. ~Purged(id)
        BY <1>12, Zenon DEF HoldsOf, Holds, Gone, Purged
      <3>2. CASE id = i
        <4>1. Claimed(id)'
          BY <1>11, <3>2, Zenon DEF Claimed
        <4>2. ~Accepted(id)
          BY <1>1, <1>3, <3>1, <3>2, Zenon DEF EngineInv, ClaimInv, Accepted
        <4> QED
          BY <1>12, <4>1, <4>2, Zenon DEF Accepted
      <3>3. CASE id # i
        <4>1. id \in HoldsOf(t)
          BY <1>16, <2>1, <3>3, Zenon
        <4>2. Claimed(id) /\ (Accepted(id) => id \in blurred)
          BY <4>1, Zenon DEF EngineInv, ClaimInv
        <4> QED
          BY <1>12, <1>17, <3>1, <4>2, Zenon DEF Accepted, ClaimsLast, Purged
      <3> QED
        BY <3>2, <3>3, Zenon
    <2>6. \A c \in Range(Channels) : \A id \in In(inbox'[c]) : Claimed(id)' \/ Purged(id)'
      BY <1>12, <1>17, Zenon DEF EngineInv, ClaimInv, ClaimsLast, Purged
    <2>7. DeliveredOnce'
      BY <1>12, Zenon DEF EngineInv, ClaimInv, DeliveredOnce, Purged
    <2> QED
      BY <2>2, <2>4, <2>5, <2>6, <2>7, Zenon DEF ClaimInv
  <1>19. RecordInv'
    <2>1. RowsLast
      BY <1>12, Zenon DEF RowsLast, OnRecord
    <2>2. \A c \in Range(Channels) : In(inbox'[c]) \subseteq In(inbox[c]) \cup HeldBy(p)
      BY <1>12, Zenon
    <2> QED
      BY <1>10, <1>12, <1>16, <2>1, <2>2, RecordKept, Zenon DEF EngineInv
  <1>20. AnswerInv'
    <2>1. \A id \in OwnedBy(p) : id \in OwnedBy(p)' \/ Closed(id)'
      BY <1>16, Zenon
    <2>2. \A id \in HeldBy(p) : id \in HeldBy(p)' \/ id \in excused' \/ Claimed(id)' \/ Purged(id)'
      BY <1>16, Zenon
    <2>3. \A c \in claims' : Claimed(c.id) \/ Answered(c.id)'
      BY <1>11, <1>16, Zenon DEF Claimed, Answered
    <2>4. \A c \in claims : In(inbox[c.id.channel]) \subseteq In(inbox'[c.id.channel])
      BY <1>12, Zenon
    <2> QED
      BY <1>10, <1>12, <1>17, <2>1, <2>2, <2>3, <2>4, AnswerKept, Zenon DEF EngineInv
  <1> QED
    BY <1>13, <1>14, <1>15, <1>18, <1>19, <1>20, Zenon DEF EngineInv

-----------------------------------------------------------------------------
\* The end of a pass.

ClaimsIn(A, G) == {d.id : d \in {x \in A : x.claimed /\ ~Gone(x.id, G)}}

\* Deliveries that are alike have the same ids, the same owned ids and claims.
LEMMA LikeIds ==
    ASSUME NEW A, NEW B, NEW G, \A d \in A : \E f \in B : Like(d, f)
    PROVE  /\ {d.id : d \in A} \subseteq {d.id : d \in B}
           /\ {d.id : d \in {x \in A : x.claimed \/ x.retry}} \subseteq
              {d.id : d \in {x \in B : x.claimed \/ x.retry}}
           /\ ClaimsIn(A, G) \subseteq ClaimsIn(B, G)
  <1>1. ASSUME NEW d \in A PROVE \E f \in B : f.id = d.id
    BY Zenon DEF Like
  <1>2. ASSUME NEW d \in A, d.claimed \/ d.retry
        PROVE  \E f \in {x \in B : x.claimed \/ x.retry} : f.id = d.id
    BY <1>2, Zenon DEF Like
  <1>3. ASSUME NEW d \in A, d.claimed /\ ~Gone(d.id, G)
        PROVE  \E f \in {x \in B : x.claimed /\ ~Gone(x.id, G)} : f.id = d.id
    BY <1>3, Zenon DEF Like
  <1>4. {d.id : d \in A} \subseteq {d.id : d \in B}
    BY <1>1, Zenon
  <1>5. {d.id : d \in {x \in A : x.claimed \/ x.retry}} \subseteq
        {d.id : d \in {x \in B : x.claimed \/ x.retry}}
    BY <1>2, Zenon
  <1>6. ClaimsIn(A, G) \subseteq ClaimsIn(B, G)
    BY <1>3, Zenon DEF ClaimsIn
  <1> QED
    BY <1>4, <1>5, <1>6, Zenon

\* Memory as before, but for other marks.
LEMMA SameMemory ==
    ASSUME NEW q, NEW r, NEW G, Len(q) = Len(r), \A n \in 1 .. Len(r) : Like(q[n], r[n])
    PROVE  /\ Held(<<>>, q) = Held(<<>>, r) /\ Owned(<<>>, q) = Owned(<<>>, r)
           /\ Holds(<<>>, q, G) = Holds(<<>>, r, G)
  <1> DEFINE A == In(q)
             B == In(r)
  <1>1. Memory(<<>>, q) = A /\ Memory(<<>>, r) = B
    BY EmptyQueue, Zenon DEF Memory
  <1>2. \A n \in 1 .. Len(r) : q[n] \in A /\ r[n] \in B
    BY Zenon DEF In
  <1>3. \A d \in A : \E n \in 1 .. Len(r) : d = q[n]
    BY Zenon DEF In
  <1>4. \A d \in B : \E n \in 1 .. Len(r) : d = r[n]
    BY Zenon DEF In
  <1> HIDE DEF A, B
  <1>5. \A d \in A : \E f \in B : Like(d, f)
    BY <1>2, <1>3, Zenon
  <1>6. \A d \in B : \E f \in A : Like(d, f)
    <2>1. \A n \in 1 .. Len(r) : Like(r[n], q[n])
      BY Zenon DEF Like
    <2> QED
      BY <1>2, <1>4, <2>1, Zenon
  <1>7. Held(<<>>, q) = Held(<<>>, r)
    <2>1. Held(<<>>, q) = {d.id : d \in A} /\ Held(<<>>, r) = {d.id : d \in B}
      BY <1>1, Zenon DEF Held
    <2>2. {d.id : d \in A} \subseteq {d.id : d \in B} /\ {d.id : d \in B} \subseteq {d.id : d \in A}
      BY <1>5, <1>6, LikeIds, Zenon
    <2> QED
      BY <2>1, <2>2, Zenon
  <1>8. Owned(<<>>, q) = Owned(<<>>, r)
    <2> DEFINE S == {d.id : d \in {x \in A : x.claimed \/ x.retry}}
               R == {d.id : d \in {x \in B : x.claimed \/ x.retry}}
    <2>1. Owned(<<>>, q) = S /\ Owned(<<>>, r) = R
      BY <1>1, Zenon DEF Owned
    <2>2. S \subseteq R
      BY <1>5, LikeIds, Zenon
    <2>3. R \subseteq S
      BY <1>6, LikeIds, Zenon
    <2> HIDE DEF S, R
    <2> QED
      BY <2>1, <2>2, <2>3, Zenon
  <1>9. Holds(<<>>, q, G) = Holds(<<>>, r, G)
    <2>1. Holds(<<>>, q, G) = ClaimsIn(A, G) /\ Holds(<<>>, r, G) = ClaimsIn(B, G)
      BY <1>1, Zenon DEF Holds, ClaimsIn
    <2>2. ClaimsIn(A, G) \subseteq ClaimsIn(B, G)
      BY <1>5, LikeIds, Zenon
    <2>3. ClaimsIn(B, G) \subseteq ClaimsIn(A, G)
      BY <1>6, LikeIds, Zenon
    <2>4. ClaimsIn(A, G) = ClaimsIn(B, G)
      BY <2>2, <2>3, Zenon
    <2> QED
      BY <2>1, <2>4, Zenon
  <1> QED
    BY <1>7, <1>8, <1>9, Zenon

\* A step of p that leaves the claims and the channels alone and what it holds.
LEMMA SameHeld ==
    ASSUME EngineInv, NEW p \in Procs, Others(p), RowsLast,
           Single(proc'[p].work, proc'[p].pending, purged'),
           HeldBy(p)' = HeldBy(p), OwnedBy(p)' = OwnedBy(p), HoldsOf(p)' = HoldsOf(p),
           UNCHANGED <<claims, inbox, history>>
    PROVE  ClaimInv' /\ RecordInv' /\ AnswerInv'
  <1>1. /\ claims' = claims /\ inbox' = inbox
        /\ blurred' = blurred /\ announced' = announced /\ excused' = excused
        /\ unrecorded' = unrecorded /\ purged' = purged
    BY Zenon DEF history
  <1>2. ClaimsLast /\ \A id : Failed(id) => Answered(id)' \/ Purged(id)'
    BY <1>1, MoreClaims, Zenon
  <1>3. ClaimInv'
    BY <1>1, <1>2, ClaimKept, Zenon DEF EngineInv
  <1>4. RecordInv'
    <2>1. \A c \in Range(Channels) : In(inbox'[c]) \subseteq In(inbox[c]) \cup HeldBy(p)
      BY <1>1, Zenon
    <2> QED
      BY <1>1, <2>1, RecordKept, Zenon DEF EngineInv
  <1>5. AnswerInv'
    <2>1. \A c \in claims' : Claimed(c.id) \/ Answered(c.id)'
      BY <1>1, Zenon DEF Claimed
    <2>2. \A c \in claims : In(inbox[c.id.channel]) \subseteq In(inbox'[c.id.channel])
      BY <1>1, Zenon
    <2> QED
      BY <1>1, <1>2, <2>1, <2>2, AnswerKept, Zenon DEF EngineInv
  <1> QED
    BY <1>3, <1>4, <1>5, Zenon

\* The end of a pass.
LEMMA EndPassStep ==
    ASSUME EngineInv, NEW p \in Procs, EndPass(p) PROVE EngineInv'
  <1> DEFINE e == proc[p]
             q == [n \in DOMAIN e.pending |-> [e.pending[n] EXCEPT !.fresh = FALSE]]
             x == [e EXCEPT !.pc = "idle", !.pending = q]
  <1>1. /\ e.work = <<>> /\ proc' = [proc EXCEPT ![p] = x]
        /\ UNCHANGED <<alerts, claims, holder, inbox, history, overlapped, unsure>>
    BY Zenon DEF EndPass
  <1>2. ShapedEngine(e) /\ Single(e.work, e.pending, purged)
    BY Zenon DEF EngineInv, AlertsShape, ClaimInv
  <1>3. Queue(e.pending) /\ \A m, n \in 1 .. Len(e.pending) : m # n => Apart(e.pending[m], e.pending[n], purged)
    BY <1>2, Zenon DEF ShapedEngine, Single
  <1>4. /\ Queue(q) /\ Len(q) = Len(e.pending)
        /\ \A m, n \in 1 .. Len(q) : m # n => Apart(q[m], q[n], purged)
        /\ \A n \in 1 .. Len(e.pending) : Like(q[n], e.pending[n])
    <2>1. q = [n \in DOMAIN e.pending |-> [e.pending[n] EXCEPT !.fresh = FALSE]]
      BY Zenon
    <2> HIDE DEF q
    <2>2. Ended(e.pending, q, purged)
      BY <1>3, <2>1, EndQueue, Zenon
    <2> QED
      BY <2>2, Zenon DEF Ended
  <1> HIDE DEF q
  <1>5. /\ Fields(x) /\ x.work = <<>> /\ x.pending = q /\ SameLeader(x, e) /\ x.pc = "idle"
        /\ x.todo = e.todo /\ x.eval = e.eval
    <2>1. Fields(e)
      BY <1>2, Zenon DEF ShapedEngine
    <2> QED
      BY <1>1, <2>1, Zenon DEF Fields, EngineFields, SameLeader
  <1> HIDE DEF x
  <1>6. ShapedEngine(x)
    <2>1. x.hasLock \in BOOLEAN /\ x.loaded = e.loaded /\ x.todo \in Seq(Keys) /\ Queue(x.work)
      BY <1>2, <1>5, EmptyQueue, Zenon DEF SameLeader, ShapedEngine
    <2> QED
      BY <1>2, <1>4, <1>5, <2>1, ShapedAgain, Zenon
  <1>7. proc'[p] = x /\ Others(p) /\ proc' = [t \in Procs |-> proc'[t]]
    BY <1>1, OneReplica, Zenon DEF EngineInv
  <1>8. /\ alerts' = alerts /\ claims' = claims /\ holder' = holder /\ inbox' = inbox
        /\ overlapped' = overlapped /\ unsure' = unsure /\ UNCHANGED history /\ purged' = purged
    BY <1>1, Zenon DEF history
  <1>9. AlertsShape'
    BY <1>6, <1>7, <1>8, ShapeKept, Zenon DEF EngineInv, AlertsShape
  <1>10. LockInv'
    BY <1>5, <1>7, <1>8, LockKept, Zenon DEF SameLeader, EngineInv
  <1>11. LeaderInv'
    <2>1. Idle(p) => Idle(p)'
      BY <1>5, <1>7, Zenon DEF Idle
    <2>2. Nobody \notin Procs /\ Open' = Open /\ LeaderInv
      BY <1>8, AlertsAssumption, Zenon DEF Open, EngineInv
    <2>3. Current(proc'[p])
      BY <1>5, <1>7, EmptyQueue, Zenon DEF Current
    <2>4. proc'[p].loaded => e.loaded /\ (Follows(e.eval, Open) => Follows(proc'[p].eval, Open))
      BY <1>5, <1>7, Zenon DEF SameLeader
    <2> QED
      BY <1>7, <1>8, <2>1, <2>2, <2>3, <2>4, LeaderKept, Zenon
  <1>12. /\ Held(x.work, x.pending) = Held(e.work, e.pending) /\ Owned(x.work, x.pending) = Owned(e.work, e.pending)
         /\ Holds(x.work, x.pending, purged) = Holds(e.work, e.pending, purged)
    <2>1. /\ Held(<<>>, q) = Held(<<>>, e.pending) /\ Owned(<<>>, q) = Owned(<<>>, e.pending)
          /\ Holds(<<>>, q, purged) = Holds(<<>>, e.pending, purged)
      BY <1>4, SameMemory, Zenon
    <2> QED
      BY <1>1, <1>5, <2>1, Zenon
  <1>13. HeldBy(p)' = HeldBy(p) /\ OwnedBy(p)' = OwnedBy(p) /\ HoldsOf(p)' = HoldsOf(p)
    BY <1>7, <1>8, <1>12, Zenon DEF HeldBy, OwnedBy, HoldsOf
  <1>14. Single(x.work, x.pending, purged)
    <2>1. \A m, n \in 1 .. Len(x.work) : m # n => Apart(x.work[m], x.work[n], purged)
      BY <1>5
    <2> QED
      BY <1>4, <1>5, <2>1, EmptyQueue, Zenon DEF Single
  <1>15. RowsLast
    BY <1>8, Zenon DEF RowsLast, OnRecord
  <1>16. ClaimInv' /\ RecordInv' /\ AnswerInv'
    <2>1. Single(proc'[p].work, proc'[p].pending, purged')
      BY <1>7, <1>8, <1>14, Zenon
    <2> QED
      BY <1>7, <1>8, <1>13, <1>15, <2>1, SameHeld, Zenon
  <1> QED
    BY <1>9, <1>10, <1>11, <1>16, Zenon DEF EngineInv

=============================================================================
