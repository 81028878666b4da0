----------------------------- MODULE AgentProofs -----------------------------
(***************************************************************************)
(* Proofs about Agent: no pool is closed under a caller, and the           *)
(* identities that were reported never change, for any set of databases,   *)
(* any limits and any history of the identity file.  And about Delivery,   *)
(* the agent's push loop: every record is accounted for, none overtakes    *)
(* another, and a rejection stays visible, for any number of records and   *)
(* whatever the network and the server do.                                 *)
(***************************************************************************)
EXTENDS Agent, Delivery, TLAPS

\* The steps of ensureCache that run under initMu.
Filling == {"init", "identity", "fill"}
Ids == {None, "manual", "system"}

\* A caller's record has the fields of Idle, whatever the lists and sets in it hold.
Shaped(r) ==
    r = [pc |-> r.pc, db |-> r.db, got |-> r.got, closed |-> r.closed, list |-> r.list,
         todo |-> r.todo, where |-> r.where, found |-> r.found, unknown |-> r.unknown,
         listed |-> r.listed, usable |-> r.usable, again |-> r.again, id |-> r.id]

\* A caller's pool is open, and it fell back to the manual id only if the server refused.
Sound(r) ==
    /\ Shaped(r)
    /\ r.closed = FALSE
    /\ r.id \in Ids
    /\ r.id = "manual" => server.denied # "never"

\* One caller at a time fills the cache, and only while it is empty.
CallersOK ==
    /\ proc = [p \in Callers |-> proc[p]]
    /\ \A p \in Callers :
          /\ Sound(proc[p])
          /\ proc[p].pc \in Filling => initMu = p /\ cache.cluster = None

CacheOK ==
    /\ cache \in [cluster : Ids, ext : BOOLEAN]
    /\ cache.cluster = "manual" => server.denied # "never"

\* The copy in memory is the file or nothing.
IdentOK == Consistent(ident) /\ ident.stores[Target] \in {NoRead, ident.file}

(* The inductive invariant. *)
AgentInv == server \in Servers /\ budget \in Budgets /\ CallersOK /\ CacheOK /\ IdentOK

-----------------------------------------------------------------------------
\* The identity file.

\* The ids two targets were reported under differ.
LEMMA ToldApart ==
    ASSUME NEW i, Consistent(i), i.told[Target] = i.told[OtherTarget]
    PROVE  i.told[Target] = 0
  <1>1. Target \in Targets /\ OtherTarget \in Targets /\ Target # OtherTarget /\ Legacy \notin Targets
    BY AgentAssumption, Zenon DEF Targets
  <1>2. /\ i.told[Target] \in {0, Recorded(i.file, Target)}
        /\ i.told[OtherTarget] \in {0, Recorded(i.file, OtherTarget)}
    BY <1>1, Zenon DEF Consistent
  <1>3. /\ Recorded(i.file, Target) \in {i.file.ids[Target], i.file.ids[Legacy]}
        /\ Recorded(i.file, OtherTarget) = i.file.ids[OtherTarget]
    BY <1>1, Zenon DEF Recorded
  <1>4. /\ i.file.ids[Target] = i.file.ids[OtherTarget] => i.file.ids[Target] = 0
        /\ i.file.ids[Legacy] = i.file.ids[OtherTarget] => i.file.ids[Legacy] = 0
    BY <1>1, Zenon DEF Consistent
  <1> QED
    BY <1>2, <1>3, <1>4, Zenon

\* Open hands out the file, or a new one with the same ids: none.
LEMMA OpensTheFile ==
    ASSUME IdentOK, NEW t \in Targets
    PROVE  /\ Opened(t) \in Files /\ Opened(t).agent > 0
           /\ Opened(t).ids = ident.file.ids
           /\ ident.file.agent > 0 => Opened(t) = ident.file
           /\ ident.file.agent = 0 => Opened(t) = [agent |-> ident.next, ids |-> NoRead.ids]
  <1>1. /\ ident.file \in Files /\ ident.next \in Nat \ {0}
        /\ ident.file.agent = 0 => ident.file = NoRead
        /\ ident.stores[Target] = NoRead \/ ident.stores[Target] = ident.file
    BY Zenon DEF IdentOK, Consistent, Idents
  <1>2. NoRead \in Files /\ NoRead.agent = 0
    BY DEF NoRead, Files
  <1>3. ident.file.agent \in Nat
    BY <1>1, Zenon DEF Files
  <1>4. CASE ident.file.agent > 0
    BY <1>1, <1>2, <1>3, <1>4 DEF Opened, StoreKey
  <1>5. CASE ident.file.agent = 0
    <2>1. ident.stores[Target] = NoRead /\ ident.file = NoRead
      BY <1>1, <1>5, Zenon
    <2>2. Opened(t) = [NoRead EXCEPT !.agent = ident.next]
      BY <2>1, <1>2, <1>5 DEF Opened, StoreKey
    <2>3. Opened(t) = [agent |-> ident.next, ids |-> NoRead.ids]
      BY <2>2 DEF NoRead
    <2> QED
      BY <2>1, <2>3, <1>1, <1>2, <1>5 DEF Files
  <1> QED
    BY <1>3, <1>4, <1>5

\* The ids of a file differ and are below the next one.
Fits(ids, n) ==
    /\ ids \in [Targets \cup {Legacy} -> Nat]
    /\ \A f \in Targets \cup {Legacy} : ids[f] < n
    /\ \A f, g \in Targets \cup {Legacy} : f # g /\ ids[f] = ids[g] => ids[f] = 0

\* The id of a target, with n the next free one, and the ids with it.
IdFor(ids, t, n) ==
    IF ids[t] > 0 THEN ids[t] ELSE IF t = Target /\ ids[Legacy] > 0 THEN ids[Legacy] ELSE n
WithId(ids, t, id) ==
    [ids EXCEPT ![t] = id, ![Legacy] = IF t = Target THEN 0 ELSE ids[Legacy]]
After(id, n) == IF id = n THEN n + 1 ELSE n

\* instanceID: the ids of a file stay different, and only the target's own
\* fingerprint and the legacy one change.
LEMMA NewIds ==
    ASSUME NEW ids, NEW n \in Nat \ {0}, NEW t \in Targets, Fits(ids, n),
           NEW id, id = IdFor(ids, t, n), NEW new, new = WithId(ids, t, id)
    PROVE  /\ Fits(new, After(id, n)) /\ id \in Nat /\ id > 0 /\ new[t] = id
           /\ \A f \in Targets : f # t => new[f] = ids[f]
           /\ new[Legacy] = IF t = Target THEN 0 ELSE ids[Legacy]
  <1> USE DEF Fits, IdFor, WithId
  <1>1. Legacy \notin Targets
    BY AgentAssumption, Zenon
  <1>2. id \in Nat /\ id > 0 /\ id <= n
    <2>1. ids[t] \in Nat /\ ids[Legacy] \in Nat /\ ids[t] < n /\ ids[Legacy] < n
      OBVIOUS
    <2> QED
      BY <2>1
  <1>3. new \in [Targets \cup {Legacy} -> Nat]
    BY <1>2
  <1>4. new[t] = id /\ \A f \in Targets : f # t => new[f] = ids[f]
    BY <1>1
  <1>5. new[Legacy] = IF t = Target THEN 0 ELSE ids[Legacy]
    BY <1>1
  <1>6. ASSUME NEW f \in Targets \cup {Legacy} PROVE new[f] < After(id, n)
    <2>1. new[f] = id \/ new[f] = ids[f] \/ new[f] = 0
      BY <1>4, <1>5, Zenon
    <2>2. ids[f] \in Nat /\ ids[f] < n
      OBVIOUS
    <2> QED
      BY <1>2, <2>1, <2>2 DEF After
  <1>7. ASSUME NEW f \in Targets \cup {Legacy}, f # t, new[f] = id
        PROVE  FALSE
    <2>1. new[f] = ids[f] /\ (f = Legacy => t # Target)
      BY <1>2, <1>4, <1>5, <1>7
    <2>2. ids[f] \in Nat /\ ids[f] < n /\ ids[t] \in Nat
      OBVIOUS
    <2>3. id # n
      BY <2>1, <2>2, <1>7
    <2>4. id = ids[t] \/ (t = Target /\ id = ids[Legacy])
      BY <2>3
    <2>5. f # Legacy \/ id = ids[t]
      BY <2>1, <2>4, Zenon
    <2>6. ids[f] = 0
      BY <2>1, <2>4, <2>5, <1>7, Zenon
    <2> QED
      BY <2>1, <2>6, <1>2, <1>7
  <1>8. ASSUME NEW f \in Targets \cup {Legacy}, NEW g \in Targets \cup {Legacy}, f # g, new[f] = new[g]
        PROVE  new[f] = 0
    <2>1. f # t /\ g # t
      BY <1>4, <1>7, <1>8, Zenon
    <2>2. new[f] = 0 \/ new[g] = 0 \/ (new[f] = ids[f] /\ new[g] = ids[g])
      BY <2>1, <1>4, <1>5, Zenon
    <2> QED
      BY <2>2, <1>8, Zenon
  <1> QED
    BY <1>2, <1>3, <1>4, <1>5, <1>6, <1>8, Zenon

\* localIdentity tells the id the file had for the target, if it had one, and
\* leaves the copy in memory equal to the file.
LEMMA TellsTheSame ==
    ASSUME IdentOK, NEW t \in Targets, localIdentity(t)
    PROVE  /\ IdentOK'
           /\ \A u \in Targets : ident.told[u] > 0 => ident'.told[u] = ident.told[u]
           /\ ident.toldAgent > 0 => ident'.toldAgent = ident.toldAgent
  <1> DEFINE F == Targets \cup {Legacy}
             o == Opened(t)
             n == IF ident.file.agent = 0 THEN ident.next + 1 ELSE ident.next
             id == IdFor(o.ids, t, n)
             new == WithId(o.ids, t, id)
             store == [agent |-> o.agent, ids |-> new]
             next == After(id, n)
  <1>1. /\ o \in Files /\ o.agent > 0 /\ o.ids = ident.file.ids
        /\ ident.file.agent > 0 => o = ident.file
        /\ ident.file.agent = 0 => o = [agent |-> ident.next, ids |-> NoRead.ids]
    BY OpensTheFile, Zenon
  <1>2. /\ ident \in Idents
        /\ ident.file \in Files /\ ident.next \in Nat \ {0} /\ ident.told \in [Targets -> Nat]
        /\ ident.stores \in [Targets -> Files] /\ ident.toldAgent \in Nat /\ ident.known \subseteq Targets
        /\ ident.file.agent = 0 => ident.file = NoRead
    BY Zenon DEF IdentOK, Consistent, Idents
  <1>3. /\ o.ids \in [F -> Nat] /\ o.agent \in Nat /\ ident.file.agent \in Nat
        /\ o = [agent |-> o.agent, ids |-> o.ids]
    BY <1>1, <1>2 DEF Files
  <1>4. /\ n \in Nat \ {0} /\ ident.next <= n
    BY <1>2
  <1>5. Fits(o.ids, n)
    <2>1. \A f \in F : o.ids[f] < ident.next /\ o.ids[f] \in Nat
      BY <1>1, <1>3, Zenon DEF IdentOK, Consistent
    <2>2. \A f \in F : o.ids[f] < n
      BY <2>1, <1>2, <1>4
    <2>3. \A f, g \in F : f # g /\ o.ids[f] = o.ids[g] => o.ids[f] = 0
      BY <1>1, Zenon DEF IdentOK, Consistent
    <2> QED
      BY <1>3, <2>2, <2>3, Zenon DEF Fits
  <1>6. instanceID(t, o) = [id |-> id, next |-> next, store |-> store]
    <2>1. o.ids[t] \in Nat /\ o.ids[Legacy] \in Nat
      BY <1>3
    <2>2. id = CASE o.ids[t] > 0 -> o.ids[t]
                 [] o.ids[t] = 0 /\ (t = Target /\ o.ids[Legacy] > 0) -> o.ids[Legacy]
                 [] OTHER -> n
      BY <2>1 DEF IdFor
    <2> HIDE DEF id, o
    <2>3. PICK new0 : new0 = new
      OBVIOUS
    <2>4. [o EXCEPT !.ids = new0] = [agent |-> o.agent, ids |-> new0]
      BY <1>3
    <2>5. [o EXCEPT !.ids = new] = store
      BY <2>3, <2>4, Zenon
    <2> QED
      BY <2>2, <2>5, Zenon DEF instanceID, WithId, After
  <1>7. /\ Fits(new, next) /\ id \in Nat /\ id > 0 /\ new[t] = id
        /\ \A f \in Targets : f # t => new[f] = o.ids[f]
        /\ new[Legacy] = IF t = Target THEN 0 ELSE o.ids[Legacy]
    <2>1. PICK ids : ids = o.ids
      OBVIOUS
    <2>2. PICK m \in Nat \ {0} : m = n
      BY <1>4
    <2>3. PICK i : i = IdFor(ids, t, m)
      OBVIOUS
    <2>4. PICK w : w = WithId(ids, t, i)
      OBVIOUS
    <2> HIDE DEF o, n
    <2>5. Fits(ids, m)
      BY <1>5, <2>1, <2>2, Zenon
    <2>6. /\ Fits(w, After(i, m)) /\ i \in Nat /\ i > 0 /\ w[t] = i
          /\ \A f \in Targets : f # t => w[f] = ids[f]
          /\ w[Legacy] = IF t = Target THEN 0 ELSE ids[Legacy]
      BY <2>3, <2>4, <2>5, NewIds, SMTT(20)
    <2> QED
      BY <2>1, <2>2, <2>3, <2>4, <2>6, Zenon
  <1> HIDE DEF id, n, new, next
  <1>8. /\ ident'.file = IF o = store THEN ident.file ELSE store
        /\ ident'.stores = [ident.stores EXCEPT ![Target] = store]
        /\ ident'.next = IF o = store THEN ident.next ELSE next
        /\ ident'.told = [ident.told EXCEPT ![t] = id]
        /\ ident'.toldAgent = o.agent
        /\ ident'.known = ident.known \cup {t}
        /\ ident' = [file |-> ident'.file, stores |-> ident'.stores, next |-> ident'.next,
                     told |-> ident'.told, toldAgent |-> ident'.toldAgent, known |-> ident'.known]
    <2> DEFINE kept == [ident EXCEPT !.stores[Target] = store]
               persisted == [ident EXCEPT !.stores[Target] = store, !.file = store, !.next = next]
    <2>1. ident' = [(IF o = store THEN kept ELSE persisted)
                    EXCEPT !.told[t] = id, !.toldAgent = store.agent, !.known = @ \cup {t}]
      <3>1. PICK r : r = instanceID(t, Opened(t))
        OBVIOUS
      <3>2. r.id = id /\ r.store = store /\ r.next = next
        BY <1>6, <3>1 DEF o
      <3>3. ident' = [(IF Opened(t) = r.store THEN [ident EXCEPT !.stores[StoreKey(t)] = r.store]
                       ELSE persistLocked(t, r.store, r.next))
                      EXCEPT !.told[t] = r.id, !.toldAgent = r.store.agent, !.known = @ \cup {t}]
        BY <3>1, Zenon DEF localIdentity
      <3> QED
        BY <3>2, <3>3, Zenon DEF persistLocked, StoreKey, o
    <2> HIDE DEF o, F
    <2>2. ident = [file |-> ident.file, stores |-> ident.stores, next |-> ident.next,
                   told |-> ident.told, toldAgent |-> ident.toldAgent, known |-> ident.known]
      BY <1>2 DEF Idents
    <2>3. PICK st : st = store
      BY Zenon
    <2>4. st.agent = o.agent
      BY <2>3, Zenon
    <2> HIDE DEF store
    <2>5. CASE o = store
      BY <2>1, <2>2, <2>3, <2>4, <2>5, Zenon
    <2>6. CASE o # store
      BY <2>1, <2>2, <2>3, <2>4, <2>6, Zenon
    <2> QED
      BY <2>5, <2>6
  <1>9. ASSUME o = store PROVE ident.file = store /\ ident.file.agent > 0
    <2>1. o.ids[t] > 0
      BY <1>7, <1>9
    <2>2. ident.file.agent # 0
      BY <1>1, <2>1 DEF NoRead
    <2> QED
      BY <1>1, <1>3, <1>9, <2>2
  <1>10. ident'.file = store
    BY <1>8, <1>9, Zenon
  <1>11. Fits(new, ident'.next) /\ ident'.next \in Nat \ {0}
    <2>1. CASE o = store
      <3>1. new = ident.file.ids
        BY <1>9, <2>1
      <3>2. Fits(ident.file.ids, ident.next)
        BY <1>2, Zenon DEF Fits, IdentOK, Consistent, Files
      <3> QED
        BY <1>2, <1>8, <2>1, <3>1, <3>2, Zenon
    <2>2. CASE o # store
      <3>1. next \in Nat \ {0}
        BY <1>4 DEF next, After
      <3> QED
        BY <1>7, <1>8, <2>2, <3>1, Zenon
    <2> QED
      BY <2>1, <2>2, Zenon
  <1>12. store \in Files
    BY <1>3, <1>7 DEF Files, Fits
  <1>13. ident' \in Idents
    <2>1. Target \in Targets
      BY Zenon DEF Targets
    <2>2. /\ [ident.stores EXCEPT ![Target] = store] \in [Targets -> Files]
          /\ [ident.told EXCEPT ![t] = id] \in [Targets -> Nat]
          /\ ident.known \cup {t} \in SUBSET Targets
      BY <1>2, <1>7, <1>12, <2>1
    <2> QED
      BY <1>3, <1>8, <1>10, <1>11, <1>12, <2>2, Zenon DEF Idents
  <1>14. store.ids = new /\ store.agent = o.agent
    OBVIOUS
  <1>15. Recorded(store, t) = id
    BY <1>7, <1>14 DEF Recorded
  <1>16. ASSUME NEW u \in Targets, u # t PROVE Recorded(store, u) = Recorded(ident.file, u)
    <2>1. t # Target \/ u # Target
      BY <1>16, Zenon
    <2> QED
      BY <1>1, <1>7, <1>14, <1>16, <2>1, Zenon DEF Recorded
  <1>17. \A u \in Targets : ident'.told[u] = IF u = t THEN id ELSE ident.told[u]
    BY <1>2, <1>8
  <1>18. \A u \in Targets : ident.told[u] \in {0, Recorded(ident.file, u)} /\ ident.told[u] \in Nat
    BY <1>2, Zenon DEF IdentOK, Consistent
  <1>19. ASSUME NEW u \in Targets PROVE ident'.told[u] \in {0, Recorded(store, u)}
    BY <1>15, <1>16, <1>17, <1>18, Zenon
  <1>20. IdentOK'
    <2>1. ident'.stores[Target] = store
      BY <1>2, <1>8 DEF Targets
    <2>2. store.agent # 0
      BY <1>1, <1>3, <1>14
    <2>3. Consistent(ident')
      <3>1. ident'.file.ids = new /\ ident'.file.agent = o.agent
        BY <1>10, <1>14, Zenon
      <3>2. /\ \A f \in F : ident'.file.ids[f] < ident'.next
            /\ \A f, g \in F : f # g /\ ident'.file.ids[f] = ident'.file.ids[g] => ident'.file.ids[f] = 0
        BY <1>11, <3>1, Zenon DEF Fits
      <3>3. \A u \in Targets : ident'.told[u] \in {0, Recorded(ident'.file, u)}
        BY <1>10, <1>19, Zenon
      <3>4. ident'.file.agent # 0 /\ ident'.toldAgent = ident'.file.agent
        BY <1>8, <1>14, <2>2, <3>1, Zenon
      <3> HIDE DEF store, o
      <3> QED
        BY <1>13, <3>2, <3>3, <3>4, Zenon DEF Consistent
    <2> QED
      BY <1>10, <2>1, <2>3, Zenon DEF IdentOK
  <1>21. ASSUME NEW u \in Targets, ident.told[u] > 0 PROVE ident'.told[u] = ident.told[u]
    <2>1. CASE u # t
      BY <1>17, <2>1, Zenon
    <2>2. CASE u = t
      <3>1. ident.told[t] = Recorded(ident.file, t) /\ Recorded(ident.file, t) > 0
        BY <1>18, <1>21, <2>2
      <3>2. id = Recorded(ident.file, t)
        <4>1. o.ids[t] \in Nat /\ o.ids[Legacy] \in Nat
          BY <1>3
        <4> QED
          BY <1>1, <3>1, <4>1 DEF id, IdFor, Recorded
      <3> QED
        BY <1>17, <2>2, <3>1, <3>2, Zenon
    <2> QED
      BY <2>1, <2>2, Zenon
  <1>22. ASSUME ident.toldAgent > 0 PROVE ident'.toldAgent = ident.toldAgent
    <2>1. ident.toldAgent = ident.file.agent
      BY <1>2, <1>22 DEF IdentOK, Consistent
    <2> QED
      BY <1>1, <1>8, <1>22, <2>1, Zenon
  <1> QED
    BY <1>20, <1>21, <1>22, Zenon

\* A write that fails reports nothing, and what it leaves is consistent.
LEMMA FailedWrite ==
    ASSUME IdentOK, NEW t \in Targets, localIdentityFails(t)
    PROVE  IdentOK' /\ ident'.told = ident.told /\ ident'.toldAgent = ident.toldAgent
  <1> DEFINE o == Opened(t)
  <1>1. /\ o \in Files /\ o.agent > 0 /\ o.ids = ident.file.ids
        /\ ident.file.agent > 0 => o = ident.file
        /\ ident.file.agent = 0 => o = [agent |-> ident.next, ids |-> NoRead.ids]
    BY OpensTheFile, Zenon
  <1>2. /\ ident = [file |-> ident.file, stores |-> ident.stores, next |-> ident.next,
                    told |-> ident.told, toldAgent |-> ident.toldAgent, known |-> ident.known]
        /\ ident.file \in Files /\ ident.next \in Nat \ {0} /\ ident.told \in [Targets -> Nat]
        /\ ident.stores \in [Targets -> Files] /\ ident.toldAgent \in Nat /\ ident.known \in SUBSET Targets
        /\ ident.file.agent = 0 => ident.file = NoRead
    BY DEF IdentOK, Consistent, Idents
  <1>3. Target \in Targets
    BY Zenon DEF Targets
  <1>4. [ident.stores EXCEPT ![Target] = o] \in [Targets -> Files] /\ [ident.stores EXCEPT ![Target] = o][Target] = o
    BY <1>1, <1>2, <1>3
  <1> HIDE DEF o
  <1>5. CASE ident' = ident
    BY <1>5, Zenon DEF IdentOK
  <1>6. CASE ident.file.agent > 0 /\ ident' = [ident EXCEPT !.stores[Target] = o]
    <2>1. ident' = [file |-> ident.file, stores |-> [ident.stores EXCEPT ![Target] = o], next |-> ident.next,
                    told |-> ident.told, toldAgent |-> ident.toldAgent, known |-> ident.known]
      BY <1>2, <1>6
    <2>2. PICK s \in [Targets -> Files] : s = [ident.stores EXCEPT ![Target] = o]
      BY <1>4, Zenon
    <2>3. ident' \in Idents /\ ident'.file = ident.file /\ ident'.next = ident.next
          /\ ident'.told = ident.told /\ ident'.toldAgent = ident.toldAgent /\ ident'.stores = s
      BY <1>2, <2>1, <2>2, Zenon DEF Idents
    <2>4. Consistent(ident')
      BY <2>3, Zenon DEF IdentOK, Consistent
    <2> QED
      BY <1>1, <1>4, <1>6, <2>2, <2>3, <2>4, Zenon DEF IdentOK
  <1>7. CASE ident.file.agent = 0 /\ ident' = [ident EXCEPT !.stores[Target] = o, !.file = o, !.next = ident.next + 1]
    <2>1. ident' = [file |-> o, stores |-> [ident.stores EXCEPT ![Target] = o], next |-> ident.next + 1,
                    told |-> ident.told, toldAgent |-> ident.toldAgent, known |-> ident.known]
      BY <1>2, <1>7, Zenon
    <2>2. PICK s \in [Targets -> Files] : s = [ident.stores EXCEPT ![Target] = o]
      BY <1>4, Zenon
    <2>3. PICK n \in Nat \ {0} : n = ident.next + 1
      BY <1>2
    <2>4. ident' \in Idents /\ ident'.file = o /\ ident'.next = n
          /\ ident'.told = ident.told /\ ident'.toldAgent = ident.toldAgent /\ ident'.stores = s
      BY <1>1, <1>2, <2>1, <2>2, <2>3, Zenon DEF Idents
    <2>5. \A f \in Targets \cup {Legacy} : o.ids[f] = 0
      BY <1>1, <1>7 DEF NoRead
    <2>6. /\ \A f \in Targets \cup {Legacy} : o.ids[f] < n
          /\ \A u \in Targets : Recorded(ident.file, u) = 0
      BY <1>1, <2>3, <2>5 DEF Recorded
    <2>7. \A u \in Targets : ident.told[u] = 0
      BY <2>6, Zenon DEF IdentOK, Consistent
    <2>8. ident.toldAgent = 0
      BY <1>7, Zenon DEF IdentOK, Consistent
    <2>9. o.agent # 0
      BY <1>1 DEF Files
    <2>10. Consistent(ident')
      BY <2>4, <2>5, <2>6, <2>7, <2>8, <2>9, Zenon DEF Consistent
    <2> QED
      BY <1>4, <2>2, <2>4, <2>10, Zenon DEF IdentOK
  <1> QED
    BY <1>5, <1>6, <1>7, Zenon DEF localIdentityFails, persistLocked, StoreKey, o

-----------------------------------------------------------------------------
\* Steps of the callers.

\* What an operation takes from the bounds of a behaviour.
LEMMA Spent ==
    ASSUME budget \in Budgets, Fault \/ NoFault \/ Refused \/ CanCall
    PROVE  budget' \in Budgets
  <1>1. \/ UNCHANGED budget
        \/ budget.faults > 0 /\ budget' = [budget EXCEPT !.faults = @ - 1]
        \/ budget.calls > 0 /\ budget' = [budget EXCEPT !.calls = @ - 1]
    BY Zenon DEF Fault, NoFault, Refused, CanCall
  <1> QED
    BY <1>1 DEF Budgets

\* A caller steps out of, or around, the steps under initMu; only the one that
\* holds it touches it and the cache.
LEMMA CallerStep ==
    ASSUME AgentInv, NEW p \in Callers, NEW r, Sound(r), r.pc \notin Filling,
           proc' = [proc EXCEPT ![p] = r], UNCHANGED server,
           (UNCHANGED initMu /\ cache'.cluster = cache.cluster) \/ initMu = p
    PROVE  CallersOK'
  <1>1. /\ proc = [q \in Callers |-> proc[q]]
        /\ \A q \in Callers : /\ Sound(proc[q])
                              /\ proc[q].pc \in Filling => initMu = q /\ cache.cluster = None
    BY Zenon DEF AgentInv, CallersOK
  <1>2. proc' = [q \in Callers |-> proc'[q]] /\ \A q \in Callers : proc'[q] = IF q = p THEN r ELSE proc[q]
    BY <1>1
  <1>4. ASSUME NEW q \in Callers
        PROVE  Sound(proc[q])' /\ (proc'[q].pc \in Filling => initMu' = q /\ cache'.cluster = None)
    <2>1. CASE q = p
      BY <1>2, <2>1, Zenon DEF Sound, Shaped
    <2>2. CASE q # p
      BY <1>1, <1>2, <2>2, Zenon DEF Sound, Shaped
    <2> QED
      BY <2>1, <2>2, Zenon
  <1> QED
    BY <1>2, <1>4, Zenon DEF CallersOK

\* A caller that does nothing.
LEMMA IdleSound == Sound(Idle) /\ Idle.pc \notin Filling
  BY Zenon DEF Idle, Sound, Shaped, Ids, None, Filling

\* A caller that fails, or finds the cache filled, is done with it.
LEMMA FailsSound ==
    ASSUME NEW p \in Callers, Sound(proc[p])
    PROVE  Sound(Fail(p)) /\ Fail(p).pc \notin Filling
  <1>1. "cache" \notin Filling /\ "versioned" \notin Filling /\ "locate" \notin Filling
    BY DEF Filling
  <1>2. CASE Fail(p) = Idle
    BY <1>2, IdleSound, Zenon
  <1>3. CASE Fail(p) = [proc[p] EXCEPT !.pc = "cache"] \/ Fail(p) = [proc[p] EXCEPT !.pc = "versioned"]
    BY <1>1, <1>3, Zenon DEF Sound, Shaped
  <1>4. CASE Fail(p) = [proc[p] EXCEPT !.pc = "cache", !.again = TRUE]
    BY <1>1, <1>4, Zenon DEF Sound, Shaped
  <1>5. CASE Fail(p) = [proc[p] EXCEPT !.pc = "locate", !.todo = @ \ {proc[p].db}, !.unknown = TRUE,
                                       !.db = None, !.got = FALSE, !.closed = FALSE]
    BY <1>1, <1>5, Zenon DEF Sound, Shaped
  <1> QED
    BY <1>2, <1>3, <1>4, <1>5, Zenon DEF Fail

\* A caller that finds the cache filled goes on with what it holds.
LEMMA CachedSound ==
    ASSUME NEW p \in Callers, Sound(proc[p])
    PROVE  Sound(Cached(p)) /\ Cached(p).pc \notin Filling
  <1>1. "refresh" \notin Filling /\ "versioned" \notin Filling
    BY DEF Filling
  <1>2. CASE Cached(p) = [proc[p] EXCEPT !.pc = "refresh"]
    BY <1>1, <1>2, Zenon DEF Sound, Shaped
  <1>3. CASE Cached(p) = [proc[p] EXCEPT !.pc = "versioned", !.usable = @ \/ (proc[p].listed /\ ~proc[p].again)]
    BY <1>1, <1>3, Zenon DEF Sound, Shaped
  <1> QED
    BY <1>2, <1>3, Zenon DEF Cached

\* What IdentityKept says of one step.
Keeps ==
    /\ \A t \in Targets : ident.told[t] > 0 => ident'.told[t] = ident.told[t]
    /\ ident.toldAgent > 0 => ident'.toldAgent = ident.toldAgent
    /\ ident'.told[Target] = ident'.told[OtherTarget] => ident'.told[Target] = 0
    /\ cacheReady /\ budget'.restarts = budget.restarts => cache'.cluster = cache.cluster
    /\ cache'.cluster = "manual" => server.denied # "never"

\* A step that leaves the identities alone.
LEMMA NothingTold ==
    ASSUME AgentInv', server'.denied = "never" \/ server.denied # "never", UNCHANGED ident, cache'.cluster = cache.cluster
    PROVE  Keeps
  <1>1. Consistent(ident') /\ (cache'.cluster = "manual" => server'.denied # "never")
    BY Zenon DEF AgentInv, IdentOK, CacheOK
  <1>2. ident'.told[Target] = ident'.told[OtherTarget] => ident'.told[Target] = 0
    BY <1>1, ToldApart, Zenon
  <1> QED
    BY <1>1, <1>2, Zenon DEF Keeps

\* A caller goes on to a step that is not under initMu.
GoesOn(p) == \E r : Sound(r) /\ r.pc \notin Filling /\ proc' = [proc EXCEPT ![p] = r]

\* A step of a caller outside ensureCache.
LEMMA PlainStep ==
    ASSUME AgentInv, NEW p \in Callers, GoesOn(p), UNCHANGED <<server, caches>>, budget' \in Budgets
    PROVE  AgentInv' /\ Keeps
  <1>1. PICK r : Sound(r) /\ r.pc \notin Filling /\ proc' = [proc EXCEPT ![p] = r]
    BY Zenon DEF GoesOn
  <1>2. CallersOK'
    BY <1>1, CallerStep, Zenon DEF caches
  <1>3. AgentInv'
    BY <1>2, Zenon DEF AgentInv, CacheOK, IdentOK, caches
  <1> QED
    BY <1>3, NothingTold, Zenon DEF caches

\* The ways a caller goes on.
LEMMA Goes ==
    ASSUME NEW p \in Callers, Sound(proc[p]), NEW x, x \notin Filling, Go(p, x)
    PROVE  GoesOn(p)
  <1>1. PICK r : r = [proc[p] EXCEPT !.pc = x]
    BY Zenon
  <1>2. Sound(r) /\ r.pc = x
    BY <1>1, Zenon DEF Sound, Shaped
  <1> QED
    BY <1>1, <1>2, Zenon DEF Go, GoesOn

\* A caller that gives up or is done.
LEMMA Ends ==
    ASSUME NEW p \in Callers, Sound(proc[p]), Done(p) \/ proc' = [proc EXCEPT ![p] = Fail(p)]
    PROVE  GoesOn(p)
  BY IdleSound, FailsSound, Zenon DEF Done, GoesOn

\* Discover.
LEMMA DiscoverKeeps ==
    ASSUME AgentInv, NEW p \in Callers, DiscoverConn(p) \/ DiscoverQuery(p) \/ Discover(p)
    PROVE  AgentInv' /\ Keeps
  <1>1. Sound(proc[p]) /\ budget \in Budgets
    BY Zenon DEF AgentInv, CallersOK
  <1>2. "discovering" \notin Filling /\ "discovered" \notin Filling /\ "recheck" \notin Filling /\ "cache" \notin Filling
    BY DEF Filling
  <1>3. UNCHANGED <<server, caches>> /\ budget' \in Budgets
    BY <1>1, Spent, Zenon DEF DiscoverConn, DiscoverQuery, Discover, NoFault
  <1>4. ASSUME DiscoverConn(p) PROVE GoesOn(p)
    BY <1>1, <1>2, <1>4, Goes, Ends, Zenon DEF DiscoverConn
  <1>5. ASSUME DiscoverQuery(p) PROVE GoesOn(p)
    <2>1. CASE proc' = [proc EXCEPT ![p].pc = "discovered", ![p].list = selectDatabases(server.ranked)]
      <3>1. PICK r : r = [proc[p] EXCEPT !.pc = "discovered", !.list = selectDatabases(server.ranked)]
        OBVIOUS
      <3>2. Sound(r) /\ r.pc = "discovered"
        BY <1>1, <3>1, Zenon DEF Sound, Shaped
      <3>3. proc' = [proc EXCEPT ![p] = r]
        BY <2>1, <3>1, Zenon
      <3> QED
        BY <1>2, <3>2, <3>3, Zenon DEF GoesOn
    <2>2. CASE proc' = [proc EXCEPT ![p] = Fail(p)]
      BY <1>1, <2>2, Ends, Zenon
    <2> QED
      BY <1>5, <2>1, <2>2, Zenon DEF DiscoverQuery
  <1>6. ASSUME Discover(p) PROVE GoesOn(p)
    <2>1. PICK r : /\ \/ r = [proc[p] EXCEPT !.pc = "recheck", !.list = <<>>]
                      \/ r = Idle
                      \/ r = [proc[p] EXCEPT !.pc = "cache", !.listed = TRUE]
                   /\ proc' = [proc EXCEPT ![p] = r]
      BY <1>6, Zenon DEF Discover
    <2>2. ASSUME r = [proc[p] EXCEPT !.pc = "recheck", !.list = <<>>] PROVE Sound(r) /\ r.pc = "recheck"
      BY <1>1, <2>2, Zenon DEF Sound, Shaped
    <2>3. ASSUME r = [proc[p] EXCEPT !.pc = "cache", !.listed = TRUE] PROVE Sound(r) /\ r.pc = "cache"
      BY <1>1, <2>3, Zenon DEF Sound, Shaped
    <2>4. Sound(r) /\ r.pc \notin Filling
      BY <1>2, <2>1, <2>2, <2>3, IdleSound, Zenon
    <2> QED
      BY <2>1, <2>4, Zenon DEF GoesOn
  <1> QED
    BY <1>3, <1>4, <1>5, <1>6, PlainStep, Zenon

\* ensureCache, up to the write of the identity file.
LEMMA CacheKeeps ==
    ASSUME AgentInv, NEW p \in Callers,
           ensureCache(p) \/ CacheConn(p) \/ queryClusterIdentity(p)
    PROVE  AgentInv' /\ Keeps
  <1>1. Sound(proc[p]) /\ budget \in Budgets /\ server \in Servers
    BY Zenon DEF AgentInv, CallersOK
  <1>2. /\ proc = [q \in Callers |-> proc[q]]
        /\ \A q \in Callers : /\ Sound(proc[q])
                              /\ proc[q].pc \in Filling => initMu = q /\ cache.cluster = None
    BY Zenon DEF AgentInv, CallersOK
  <1>3. UNCHANGED <<server, cache, ident>> /\ budget' \in Budgets
    BY <1>1, Spent, Zenon DEF ensureCache, CacheConn, queryClusterIdentity, NoFault
  <1>4. ASSUME GoesOn(p), UNCHANGED initMu \/ initMu = p PROVE CallersOK'
    <2>1. PICK r : Sound(r) /\ r.pc \notin Filling /\ proc' = [proc EXCEPT ![p] = r]
      BY <1>4, Zenon DEF GoesOn
    <2> QED
      BY <1>3, <1>4, <2>1, CallerStep, Zenon
  \* The caller that holds initMu, or takes it, stays under it.
  <1>5. ASSUME NEW r, Sound(r), proc' = [proc EXCEPT ![p] = r], initMu' = p, cache.cluster = None,
               initMu = None \/ initMu = p
        PROVE  CallersOK'
    <2>1. proc' = [q \in Callers |-> proc'[q]] /\ \A q \in Callers : proc'[q] = IF q = p THEN r ELSE proc[q]
      BY <1>2, <1>5
    <2>2. \A q \in Callers : q # p => proc[q].pc \notin Filling
      <3>1. None \notin Callers
        BY DEF None, Callers
      <3> QED
        BY <1>2, <1>5, <3>1, Zenon
    <2>3. ASSUME NEW q \in Callers
          PROVE  Sound(proc[q])' /\ (proc'[q].pc \in Filling => initMu' = q /\ cache'.cluster = None)
      <3>1. CASE q = p
        BY <1>3, <1>5, <2>1, <3>1, Zenon DEF Sound, Shaped
      <3>2. CASE q # p
        BY <1>2, <1>3, <2>1, <2>2, <3>2, Zenon DEF Sound, Shaped
      <3> QED
        BY <3>1, <3>2, Zenon
    <2> QED
      BY <2>1, <2>3, Zenon DEF CallersOK
  <1>6. CallersOK' => AgentInv' /\ Keeps
    <2>1. ASSUME CallersOK' PROVE AgentInv'
      BY <1>3, <2>1, Zenon DEF AgentInv, CacheOK, IdentOK
    <2> QED
      BY <1>3, <2>1, NothingTold, Zenon
  <1>7. ASSUME ensureCache(p) PROVE CallersOK'
    <2>1. CASE proc' = [proc EXCEPT ![p] = Cached(p)] /\ UNCHANGED initMu
      BY <1>1, <1>4, <2>1, CachedSound, Zenon DEF GoesOn
    <2>2. CASE ~cacheReady /\ initMu = None /\ initMu' = p /\ Go(p, "init")
      <3>1. PICK r : r = [proc[p] EXCEPT !.pc = "init"]
        BY Zenon
      <3>2. Sound(r)
        BY <1>1, <3>1, Zenon DEF Sound, Shaped
      <3> QED
        BY <1>5, <2>2, <3>1, <3>2, Zenon DEF Go, cacheReady
    <2> QED
      BY <1>7, <2>1, <2>2, Zenon DEF ensureCache
  <1>8. ASSUME proc[p].pc \in {"init", "identity"} PROVE initMu = p /\ cache.cluster = None
    BY <1>2, <1>8 DEF Filling
  <1>9. ASSUME CacheConn(p) PROVE CallersOK'
    <2>1. initMu = p /\ cache.cluster = None
      BY <1>8, <1>9, Zenon DEF CacheConn, At
    <2>2. CASE Go(p, "identity") /\ UNCHANGED initMu
      <3>1. PICK r : r = [proc[p] EXCEPT !.pc = "identity"]
        BY Zenon
      <3>2. Sound(r)
        BY <1>1, <3>1, Zenon DEF Sound, Shaped
      <3> QED
        BY <1>5, <2>1, <2>2, <3>1, <3>2, Zenon DEF Go
    <2>3. CASE proc' = [proc EXCEPT ![p] = Fail(p)]
      BY <1>1, <1>4, <2>1, <2>3, Ends, Zenon
    <2> QED
      BY <1>9, <2>2, <2>3, Zenon DEF CacheConn
  <1>10. ASSUME queryClusterIdentity(p) PROVE CallersOK'
    <2>1. initMu = p /\ cache.cluster = None
      BY <1>8, <1>10, Zenon DEF queryClusterIdentity, At
    <2>2. CASE /\ UNCHANGED initMu
               /\ proc' = [proc EXCEPT ![p].pc = "fill", ![p].id = IF server.denied = "yes" THEN "manual" ELSE "system"]
      <3>1. PICK i : i = IF server.denied = "yes" THEN "manual" ELSE "system"
        OBVIOUS
      <3>2. i \in Ids /\ (i = "manual" => server.denied # "never")
        BY <3>1 DEF Ids
      <3>3. PICK r : r = [proc[p] EXCEPT !.pc = "fill", !.id = i]
        OBVIOUS
      <3>4. Sound(r)
        BY <1>1, <3>2, <3>3, Zenon DEF Sound, Shaped
      <3>5. proc' = [proc EXCEPT ![p] = r]
        BY <2>2, <3>1, <3>3, Zenon
      <3> QED
        BY <1>5, <2>1, <2>2, <3>4, <3>5, Zenon
    <2>3. CASE proc' = [proc EXCEPT ![p] = Fail(p)]
      BY <1>1, <1>4, <2>1, <2>3, Ends, Zenon
    <2> QED
      BY <1>10, <2>2, <2>3, Zenon DEF queryClusterIdentity
  <1> QED
    BY <1>6, <1>7, <1>9, <1>10, Zenon

\* The write of the identity file, for this target and for another one.
LEMMA IdentityKeeps ==
    ASSUME AgentInv, NEW t \in Targets, localIdentity(t) \/ localIdentityFails(t)
    PROVE  /\ IdentOK'
           /\ \A u \in Targets : ident.told[u] > 0 => ident'.told[u] = ident.told[u]
           /\ ident.toldAgent > 0 => ident'.toldAgent = ident.toldAgent
           /\ ident'.told[Target] = ident'.told[OtherTarget] => ident'.told[Target] = 0
  <1>1. IdentOK
    BY Zenon DEF AgentInv
  <1>2. /\ IdentOK'
        /\ \A u \in Targets : ident.told[u] > 0 => ident'.told[u] = ident.told[u]
        /\ ident.toldAgent > 0 => ident'.toldAgent = ident.toldAgent
    BY <1>1, TellsTheSame, FailedWrite, Zenon
  <1>3. Consistent(ident')
    BY <1>2, Zenon DEF IdentOK
  <1> QED
    BY <1>2, <1>3, ToldApart, Zenon

\* Filling the identity cache.
LEMMA FillKeeps ==
    ASSUME AgentInv, NEW p \in Callers, FillCache(p)
    PROVE  AgentInv' /\ Keeps
  <1>1. Sound(proc[p]) /\ budget \in Budgets /\ server \in Servers
    BY Zenon DEF AgentInv, CallersOK
  <1>2. initMu = p /\ cache.cluster = None
    <2>1. proc[p].pc \in Filling
      BY Zenon DEF FillCache, At, Filling
    <2> QED
      BY <2>1, Zenon DEF AgentInv, CallersOK
  <1>3. UNCHANGED server /\ budget' \in Budgets /\ Target \in Targets
    BY <1>1, Spent, Zenon DEF FillCache, Targets
  <1>4. /\ IdentOK'
        /\ \A u \in Targets : ident.told[u] > 0 => ident'.told[u] = ident.told[u]
        /\ ident.toldAgent > 0 => ident'.toldAgent = ident.toldAgent
        /\ ident'.told[Target] = ident'.told[OtherTarget] => ident'.told[Target] = 0
    BY <1>3, IdentityKeeps, Zenon DEF FillCache
  <1>5. PICK s : /\ s = Cached(p) \/ s = Fail(p)
                 /\ proc' = [proc EXCEPT ![p] = [s EXCEPT !.id = None]]
    BY Zenon DEF FillCache
  <1>6. Sound(s) /\ s.pc \notin Filling
    BY <1>1, <1>5, CachedSound, FailsSound, Zenon
  <1>7. PICK r : r = [s EXCEPT !.id = None]
    BY Zenon
  <1>8. Sound(r) /\ r.pc = s.pc
    BY <1>6, <1>7, Zenon DEF Sound, Shaped, Ids, None
  <1>9. CallersOK'
    BY <1>2, <1>3, <1>5, <1>6, <1>7, <1>8, CallerStep, Zenon
  <1>10. CacheOK'
    <2>1. CASE UNCHANGED cache
      BY <1>3, <2>1, Zenon DEF AgentInv, CacheOK
    <2>2. CASE \E read \in BOOLEAN : cache' = [cluster |-> proc[p].id, ext |-> read /\ server.view = ownDB]
      <3>1. PICK read \in BOOLEAN : cache' = [cluster |-> proc[p].id, ext |-> read /\ server.view = ownDB]
        BY <2>2, Zenon
      <3>2. cache' \in [cluster : Ids, ext : BOOLEAN] /\ cache'.cluster = proc[p].id
        <4>1. (read /\ server.view = ownDB) \in BOOLEAN
          OBVIOUS
        <4> QED
          BY <1>1, <3>1, <4>1 DEF Sound
      <3> QED
        BY <1>1, <1>3, <3>2, Zenon DEF CacheOK, Sound
    <2> QED
      BY <2>1, <2>2, Zenon DEF FillCache
  <1>11. AgentInv'
    BY <1>1, <1>3, <1>4, <1>9, <1>10, Zenon DEF AgentInv
  <1> QED
    BY <1>2, <1>3, <1>4, <1>10, <1>11, Zenon DEF Keeps, cacheReady, CacheOK

\* The other target asks for its identity.
LEMMA OtherKeeps ==
    ASSUME AgentInv, OtherIdentity
    PROVE  AgentInv' /\ Keeps
  <1>1. OtherTarget \in Targets
    BY Zenon DEF Targets
  <1>2. /\ IdentOK'
        /\ \A u \in Targets : ident.told[u] > 0 => ident'.told[u] = ident.told[u]
        /\ ident.toldAgent > 0 => ident'.toldAgent = ident.toldAgent
        /\ ident'.told[Target] = ident'.told[OtherTarget] => ident'.told[Target] = 0
    BY <1>1, IdentityKeeps, Zenon DEF OtherIdentity
  <1>3. UNCHANGED <<server, proc, cache, initMu>> /\ budget' \in Budgets
    BY Spent, Zenon DEF OtherIdentity, AgentInv
  <1>4. AgentInv'
    BY <1>2, <1>3, Zenon DEF AgentInv, CallersOK, CacheOK, Sound, Shaped
  <1> QED
    BY <1>2, <1>3, <1>4, Zenon DEF Keeps, AgentInv, CacheOK

\* RefreshCapabilities leaves the cluster of the cache alone.
LEMMA RefreshKeeps ==
    ASSUME AgentInv, NEW p \in Callers, RefreshCapabilities(p)
    PROVE  AgentInv' /\ Keeps
  <1>1. Sound(proc[p]) /\ budget \in Budgets /\ cache \in [cluster : Ids, ext : BOOLEAN]
    BY Zenon DEF AgentInv, CallersOK, CacheOK
  <1>2. "refreshing" \notin Filling /\ "share" \notin Filling /\ "require" \notin Filling
    BY DEF Filling
  <1>3. /\ UNCHANGED <<server, initMu, ident>> /\ budget' \in Budgets
        /\ UNCHANGED cache \/ cache' = [cache EXCEPT !.ext = server.view = ownDB]
    BY <1>1, Spent, Zenon DEF RefreshCapabilities, caches
  <1>4. cache' \in [cluster : Ids, ext : BOOLEAN] /\ cache'.cluster = cache.cluster
    BY <1>1, <1>3, Zenon
  <1>5. GoesOn(p)
    BY <1>1, <1>2, Goes, Ends, Zenon DEF RefreshCapabilities
  <1>6. PICK r : Sound(r) /\ r.pc \notin Filling /\ proc' = [proc EXCEPT ![p] = r]
    BY <1>5, Zenon DEF GoesOn
  <1>7. CallersOK'
    BY <1>3, <1>4, <1>6, CallerStep, Zenon
  <1>8. AgentInv'
    BY <1>3, <1>4, <1>7, Zenon DEF AgentInv, CacheOK, IdentOK
  <1> QED
    BY <1>3, <1>4, <1>8, NothingTold, Zenon

\* requireMonitored sends a command on, to a discovery or home.
LEMMA RequireKeeps ==
    ASSUME AgentInv, NEW p \in Callers, requireMonitored(p)
    PROVE  AgentInv' /\ Keeps
  <1>1. Sound(proc[p]) /\ budget \in Budgets
    BY Zenon DEF AgentInv, CallersOK
  <1>2. "pick" \notin Filling /\ "discover" \notin Filling
    BY DEF Filling
  <1>3. PICK r : /\ \/ r = [proc[p] EXCEPT !.pc = "pick"]
                    \/ r = [proc[p] EXCEPT !.pc = "discover"]
                    \/ r = Idle
                 /\ proc' = [proc EXCEPT ![p] = r]
    BY Zenon DEF requireMonitored
  <1>4. ASSUME NEW x, r = [proc[p] EXCEPT !.pc = x] PROVE Sound(r) /\ r.pc = x
    BY <1>1, <1>4, Zenon DEF Sound, Shaped
  <1>5. Sound(r) /\ r.pc \notin Filling
    <2>1. CASE r = [proc[p] EXCEPT !.pc = "pick"]
      BY <1>2, <1>4, <2>1, Zenon
    <2>2. CASE r = [proc[p] EXCEPT !.pc = "discover"]
      BY <1>2, <1>4, <2>2, Zenon
    <2> QED
      BY <1>3, <2>1, <2>2, IdleSound, Zenon
  <1>6. GoesOn(p)
    BY <1>3, <1>5, Zenon DEF GoesOn
  <1> QED
    BY <1>1, <1>6, PlainStep, Zenon DEF requireMonitored

\* An eviction spares what is busy.
LEMMA EvictSpares ==
    ASSUME NEW busy, NEW d \in Evict(pools, busy)
    PROVE  d \notin busy
  <1>1. PICK i \in DOMAIN pools : d = pools[i] /\ pools[i] \notin busy
    BY Zenon DEF Evict
  <1> QED
    BY <1>1, Zenon

\* ForDatabase closes no pool a caller holds a connection of or waits on.
LEMMA ForDatabaseKeeps ==
    ASSUME AgentInv, NEW p \in Callers, ForDatabase(p)
    PROVE  AgentInv' /\ Keeps
  <1> DEFINE gone == IF proc[p].db \in Range(pools) THEN {} ELSE Evict(pools, Busy)
  <1>1. /\ \A q \in Callers : /\ Sound(proc[q])
                              /\ proc[q].pc \in Filling => initMu = q /\ cache.cluster = None
    BY Zenon DEF AgentInv, CallersOK
  <1>2. UNCHANGED <<server, budget, cache, initMu, ident>>
    BY Zenon DEF ForDatabase, caches
  <1>3. proc' = [q \in Callers |->
          IF q = p THEN [proc[p] EXCEPT !.pc = "acquire"]
          ELSE [proc[q] EXCEPT !.closed = @ \/ (proc[q].db \in gone /\ (HoldsDatabase(q) \/ Waiting(q)))]]
    BY Zenon DEF ForDatabase
  <1>4. ASSUME NEW q \in Callers, HoldsDatabase(q) \/ Waiting(q) PROVE proc[q].db \notin gone
    <2>1. proc[q].db \in Busy
      BY <1>4, Zenon DEF Busy
    <2> QED
      BY <2>1, EvictSpares, Zenon
  <1> HIDE DEF gone
  <1>5. ASSUME NEW q \in Callers, q # p
        PROVE  Sound(proc'[q]) /\ proc'[q].pc = proc[q].pc
    <2>1. PICK e : e = (proc[q].closed \/ (proc[q].db \in gone /\ (HoldsDatabase(q) \/ Waiting(q))))
      OBVIOUS
    <2>2. e = FALSE
      BY <1>1, <1>4, <2>1, Zenon DEF Sound
    <2>3. proc'[q] = [proc[q] EXCEPT !.closed = e]
      BY <1>3, <1>5, <2>1, Zenon
    <2> QED
      BY <1>1, <2>2, <2>3, Zenon DEF Sound, Shaped
  <1>6. Sound(proc'[p]) /\ proc'[p].pc \notin Filling
    <2>1. proc'[p] = [proc[p] EXCEPT !.pc = "acquire"]
      BY <1>3, Zenon
    <2>2. Sound(proc'[p]) /\ proc'[p].pc = "acquire"
      BY <1>1, <2>1, Zenon DEF Sound, Shaped
    <2> QED
      BY <2>2 DEF Filling
  <1>7. CallersOK'
    <2>1. proc' = [q \in Callers |-> proc'[q]]
      BY <1>3
    <2>2. ASSUME NEW q \in Callers
          PROVE  Sound(proc'[q]) /\ (proc'[q].pc \in Filling => initMu = q /\ cache.cluster = None)
      BY <1>1, <1>5, <1>6, Zenon
    <2> QED
      BY <1>2, <2>1, <2>2, Zenon DEF CallersOK, Sound, Shaped
  <1>8. AgentInv'
    BY <1>2, <1>7, Zenon DEF AgentInv, CacheOK, IdentOK
  <1> QED
    BY <1>2, <1>8, NothingTold, Zenon

\* A caller on a connection.
LEMMA UseKeeps ==
    ASSUME AgentInv, NEW p \in Callers, Acquire(p) \/ Account(p) \/ ShareConn(p) \/ Use(p)
    PROVE  AgentInv' /\ Keeps
  <1>1. Sound(proc[p]) /\ budget \in Budgets
    BY Zenon DEF AgentInv, CallersOK
  <1>2. "account" \notin Filling /\ "use" \notin Filling /\ "asking" \notin Filling
    BY DEF Filling
  <1>3. UNCHANGED <<server, caches>> /\ budget' \in Budgets
    BY <1>1, Spent, Zenon DEF Acquire, Account, ShareConn, Use
  <1>4. ASSUME Acquire(p) PROVE GoesOn(p)
    <2>1. CASE proc' = [proc EXCEPT ![p].pc = "account", ![p].got = TRUE]
      <3>1. PICK r : r = [proc[p] EXCEPT !.pc = "account", !.got = TRUE]
        OBVIOUS
      <3>2. Sound(r) /\ r.pc = "account"
        BY <1>1, <3>1, Zenon DEF Sound, Shaped
      <3>3. proc' = [proc EXCEPT ![p] = r]
        BY <2>1, <3>1, Zenon
      <3> QED
        BY <1>2, <3>2, <3>3, Zenon DEF GoesOn
    <2> QED
      BY <1>1, <1>2, <1>4, <2>1, Goes, Zenon DEF Acquire
  <1>5. ASSUME Account(p) \/ ShareConn(p) \/ Use(p) PROVE GoesOn(p)
    BY <1>1, <1>2, <1>5, Goes, Ends, Zenon DEF Account, ShareConn, Use
  <1> QED
    BY <1>3, <1>4, <1>5, PlainStep, Zenon

\* A caller starts.
LEMMA StartKeeps ==
    ASSUME AgentInv, StartReconcile \/ ScheduledConnFor \/ StartCommand
    PROVE  AgentInv' /\ Keeps
  <1>1. \A p \in Callers : Sound(proc[p])
    BY Zenon DEF AgentInv, CallersOK
  <1>2. \A x \in {"discover", "share", "pick", "cache"} : x \notin Filling
    BY DEF Filling
  <1>3. UNCHANGED <<server, caches>> /\ budget' \in Budgets
    BY Spent, Zenon DEF AgentInv, StartReconcile, ScheduledConnFor, StartCommand
  <1>4. "rec" \in Callers /\ "check" \in Callers /\ "cmd" \in Callers
    BY DEF Callers
  <1>5. ASSUME NEW p \in Callers, NEW x \in {"share", "pick", "cache"}, NEW d,
               proc' = [proc EXCEPT ![p].pc = x, ![p].db = d]
        PROVE  GoesOn(p)
    <2>1. PICK r : r = [proc[p] EXCEPT !.pc = x, !.db = d]
      OBVIOUS
    <2>2. Sound(r) /\ r.pc = x
      <3>1. PICK o : o = proc[p]
        OBVIOUS
      <3>2. Sound(o) /\ r = [o EXCEPT !.pc = x, !.db = d]
        BY <1>1, <2>1, <3>1, Zenon
      <3> QED
        BY <3>2, Zenon DEF Sound, Shaped
    <2>3. proc' = [proc EXCEPT ![p] = r]
      BY <1>5, <2>1, Zenon
    <2> QED
      BY <1>2, <2>2, <2>3, Zenon DEF GoesOn
  <1>6. CASE StartReconcile
    BY <1>1, <1>2, <1>3, <1>4, <1>6, Goes, PlainStep, Zenon DEF StartReconcile
  <1>7. CASE ScheduledConnFor
    <2>1. CASE proc' = [proc EXCEPT !["check"].pc = "share", !["check"].db = Instance]
      <3>1. GoesOn("check")
        BY <1>4, <1>5, <2>1, Zenon
      <3> QED
        BY <1>3, <1>4, <3>1, PlainStep, Zenon
    <2>2. CASE \E d : proc' = [proc EXCEPT !["check"].pc = "pick", !["check"].db = d]
      <3>1. GoesOn("check")
        BY <1>4, <1>5, <2>2, Zenon
      <3> QED
        BY <1>3, <1>4, <3>1, PlainStep, Zenon
    <2> QED
      BY <1>7, <2>1, <2>2, Zenon DEF ScheduledConnFor
  <1>8. CASE StartCommand
    <2>1. PICK d : proc' = [proc EXCEPT !["cmd"].pc = "cache", !["cmd"].db = d]
      BY <1>8, Zenon DEF StartCommand
    <2>2. GoesOn("cmd")
      BY <1>4, <1>5, <2>1, Zenon
    <2> QED
      BY <1>3, <1>4, <2>2, PlainStep, Zenon
  <1> QED
    BY <1>6, <1>7, <1>8, Zenon

\* readTargetGate and reconcile.
LEMMA ReconcileKeeps ==
    ASSUME AgentInv, Reconcile
    PROVE  AgentInv' /\ Keeps
  <1> DEFINE p == "rec"
  <1>1. p \in Callers /\ Sound(proc[p]) /\ budget \in Budgets
    BY Zenon DEF AgentInv, CallersOK, Callers
  <1>2. \A x \in {"locate", "adopt", "pick"} : x \notin Filling
    BY DEF Filling
  <1>3. UNCHANGED <<server, caches>> /\ budget' \in Budgets
    BY <1>1, Spent, Zenon DEF Reconcile, ReadVersion, LocateNext, LookAt, LocateStatements, reconcile
  <1>4. ASSUME ReadVersion PROVE GoesOn(p)
    <2>1. PICK r : /\ \/ r = [proc[p] EXCEPT !.pc = "locate", !.todo = Lookup, !.found = cache.ext]
                      \/ r = [proc[p] EXCEPT !.pc = "adopt"]
                   /\ proc' = [proc EXCEPT ![p] = r]
      BY <1>4, Zenon DEF ReadVersion
    <2>2. ASSUME r = [proc[p] EXCEPT !.pc = "locate", !.todo = Lookup, !.found = cache.ext]
          PROVE  Sound(r) /\ r.pc = "locate"
      BY <1>1, <2>2, Zenon DEF Sound, Shaped
    <2>3. ASSUME r = [proc[p] EXCEPT !.pc = "adopt"] PROVE Sound(r) /\ r.pc = "adopt"
      BY <1>1, <2>3, Zenon DEF Sound, Shaped
    <2>4. Sound(r) /\ r.pc \notin Filling
      BY <1>2, <2>1, <2>2, <2>3, Zenon
    <2> QED
      BY <2>1, <2>4, Zenon DEF GoesOn
  <1>5. ASSUME LocateNext PROVE GoesOn(p)
    <2>1. PICK d : proc' = [proc EXCEPT ![p].pc = "pick", ![p].db = d]
      BY <1>5, Zenon DEF LocateNext
    <2>2. PICK r : r = [proc[p] EXCEPT !.pc = "pick", !.db = d]
      OBVIOUS
    <2>3. Sound(r) /\ r.pc = "pick"
      BY <1>1, <2>2, Zenon DEF Sound, Shaped
    <2>4. proc' = [proc EXCEPT ![p] = r]
      BY <2>1, <2>2, Zenon
    <2> QED
      BY <1>2, <2>3, <2>4, Zenon DEF GoesOn
  <1>6. ASSUME LookAt PROVE GoesOn(p)
    <2>1. PICK looked : looked = [proc[p] EXCEPT !.pc = "locate", !.todo = @ \ {proc[p].db}, !.db = None, !.got = FALSE, !.closed = FALSE]
      OBVIOUS
    <2>2. PICK r : /\ r = Fail(p) \/ r = looked \/ r = [looked EXCEPT !.found = TRUE, !.where = proc[p].db]
                   /\ proc' = [proc EXCEPT ![p] = r]
      BY <1>6, <2>1, Zenon DEF LookAt
    <2>3. Sound(looked) /\ looked.pc = "locate"
      BY <1>1, <2>1, Zenon DEF Sound, Shaped
    <2>4. ASSUME r = [looked EXCEPT !.found = TRUE, !.where = proc[p].db] PROVE Sound(r) /\ r.pc = "locate"
      BY <2>3, <2>4, Zenon DEF Sound, Shaped
    <2>5. Sound(r) /\ r.pc \notin Filling
      BY <1>1, <1>2, <2>2, <2>3, <2>4, FailsSound, Zenon
    <2> QED
      BY <2>2, <2>5, Zenon DEF GoesOn
  <1>7. ASSUME LocateStatements \/ reconcile PROVE GoesOn(p)
    BY <1>1, <1>2, <1>7, Goes, Ends, Zenon DEF LocateStatements, reconcile
  <1> QED
    BY <1>1, <1>3, <1>4, <1>5, <1>6, <1>7, PlainStep, Zenon DEF Reconcile

\* Steps that touch neither a caller nor an identity.
LEMMA AsideKeeps ==
    ASSUME AgentInv, SampleTick \/ Sampler \/ flush \/ Cancel \/ Shutdown
    PROVE  AgentInv' /\ Keeps
  <1>1. UNCHANGED <<server, proc, caches>>
    BY Zenon DEF SampleTick, Sampler, connectLocked, doSample, Add, tick, flush, Cancel, Shutdown,
                 StopSchedules, Drained, CloseSampler, Close, CloseEnds
  <1>2. budget \in Budgets
    BY Zenon DEF AgentInv
  <1>3. budget' \in Budgets
    <2>1. CASE SampleTick
      BY <1>2, <2>1 DEF SampleTick, Budgets
    <2>2. CASE Sampler \/ flush \/ Cancel \/ Shutdown
      BY <1>2, <2>2, Spent, Zenon DEF Sampler, connectLocked, doSample, Add, tick, flush, Cancel, Shutdown,
                 StopSchedules, Drained, CloseSampler, Close, CloseEnds
    <2> QED
      BY <2>1, <2>2, Zenon
  <1>4. AgentInv'
    BY <1>1, <1>3, Zenon DEF AgentInv, CallersOK, CacheOK, IdentOK, Sound, Shaped, caches
  <1> QED
    BY <1>1, <1>4, NothingTold, Zenon DEF caches

\* The instance changes; a refusal may be lifted, and stays one that was.
LEMMA ChangeKeeps ==
    ASSUME AgentInv, Change
    PROVE  AgentInv' /\ Keeps
  <1>1. UNCHANGED <<proc, cache, initMu, ident>>
    BY Zenon DEF Change, caches
  <1>2. budget' \in Budgets
    BY DEF AgentInv, Change, Budgets
  <1>3. server' \in Servers /\ (server'.denied = "never" <=> server.denied = "never")
    <2>1. server \in Servers
      BY Zenon DEF AgentInv
    <2>2. CASE \E r \in Rankings \ {server.ranked} : server' = [server EXCEPT !.ranked = r]
      BY <2>1, <2>2, AgentAssumption, Zenon DEF Servers
    <2>3. CASE \E d \in Views \ {server.view} : server' = [server EXCEPT !.view = d]
      BY <2>1, <2>3, AgentAssumption, Zenon DEF Servers
    <2>4. CASE server.denied = "yes" /\ server' = [server EXCEPT !.denied = "lifted"]
      BY <2>1, <2>4, Zenon DEF Servers
    <2> QED
      BY <2>2, <2>3, <2>4, Zenon DEF Change
  <1>4. CallersOK' /\ CacheOK' /\ IdentOK'
    BY <1>1, <1>3, Zenon DEF AgentInv, CallersOK, CacheOK, IdentOK, Sound, Shaped
  <1>5. AgentInv'
    BY <1>2, <1>3, <1>4, Zenon DEF AgentInv
  <1> QED
    BY <1>1, <1>3, <1>5, NothingTold, Zenon

\* A restart forgets the process and keeps the file.
LEMMA RestartKeeps ==
    ASSUME AgentInv, Restart
    PROVE  AgentInv' /\ Keeps
  <1>1. budget' \in Budgets /\ budget'.restarts # budget.restarts
    BY DEF AgentInv, Restart, Budgets
  <1>2. /\ UNCHANGED server
        /\ proc' = [p \in Callers |-> Idle] /\ cache' = NoCache
        /\ ident' = [ident EXCEPT !.stores = [t \in Targets |-> NoRead], !.known = {}]
    BY Zenon DEF Restart
  <1>3. CallersOK'
    <2>1. \A p \in Callers : proc'[p] = Idle
      BY <1>2, Zenon
    <2>2. proc' = [p \in Callers |-> proc'[p]]
      BY <1>2
    <2>3. \A p \in Callers : Sound(proc[p])' /\ proc'[p].pc \notin Filling
      BY <1>2, <2>1, IdleSound, Zenon DEF Sound, Shaped
    <2> QED
      BY <2>2, <2>3, Zenon DEF CallersOK
  <1>4. CacheOK'
    BY <1>2, Zenon DEF CacheOK, NoCache, Ids, None
  <1>5. /\ IdentOK' /\ ident'.told = ident.told /\ ident'.toldAgent = ident.toldAgent
    <2>1. Consistent(ident) /\ ident \in Idents
      BY Zenon DEF AgentInv, IdentOK, Consistent
    <2>2. PICK s : s = [t \in Targets |-> NoRead]
      BY Zenon
    <2>3. s \in [Targets -> Files] /\ s[Target] = NoRead
      <3>1. NoRead \in Files /\ Target \in Targets
        BY DEF NoRead, Files, Targets
      <3> QED
        BY <2>2, <3>1
    <2>4. ident' = [file |-> ident.file, stores |-> s, next |-> ident.next,
                    told |-> ident.told, toldAgent |-> ident.toldAgent, known |-> {}]
      BY <1>2, <2>1, <2>2, Zenon DEF Idents
    <2>5. /\ ident' \in Idents /\ ident'.file = ident.file /\ ident'.next = ident.next
          /\ ident'.told = ident.told /\ ident'.toldAgent = ident.toldAgent /\ ident'.stores = s
      BY <2>1, <2>3, <2>4, Zenon DEF Idents
    <2>6. Consistent(ident')
      BY <2>1, <2>5, Zenon DEF Consistent
    <2> QED
      BY <2>3, <2>5, <2>6, Zenon DEF IdentOK
  <1>6. AgentInv'
    BY <1>1, <1>2, <1>3, <1>4, <1>5, Zenon DEF AgentInv
  <1>7. ident'.told[Target] = ident'.told[OtherTarget] => ident'.told[Target] = 0
    BY <1>5, ToldApart, Zenon DEF IdentOK
  <1> QED
    BY <1>1, <1>2, <1>5, <1>6, <1>7, Zenon DEF Keeps, NoCache, None

-----------------------------------------------------------------------------
\* The theorems.

\* The agent starts within the invariant.
LEMMA InitHolds == Init => AgentInv
  <1> SUFFICES ASSUME Init PROVE AgentInv
    OBVIOUS
  <1>1. PICK s \in Starts : server = s.server /\ budget = s.budget /\ ident = s.ident
    BY Zenon DEF Init
  <1>2. server \in Servers /\ budget \in Budgets /\ LeftBehind(ident)
    BY <1>1, AgentAssumption, Zenon
  <1>3. IdentOK
    <2>1. ident.stores[Target] = NoRead
      BY <1>2, Zenon DEF LeftBehind, Targets
    <2> QED
      BY <1>2, <2>1, Zenon DEF IdentOK, LeftBehind
  <1>4. CacheOK
    BY Zenon DEF Init, CacheOK, NoCache, Ids, None
  <1>5. CallersOK
    <2>1. proc = [p \in Callers |-> Idle]
      BY Zenon DEF Init
    <2>2. proc = [p \in Callers |-> proc[p]] /\ \A p \in Callers : proc[p] = Idle
      BY <2>1
    <2> QED
      BY <2>2, IdleSound, Zenon DEF CallersOK
  <1> QED
    BY <1>2, <1>3, <1>4, <1>5, Zenon DEF AgentInv

\* Every step keeps the invariant, and what was reported.
LEMMA NextKeeps == AgentInv /\ [Next]_vars => AgentInv' /\ (Keeps \/ UNCHANGED vars)
  <1> SUFFICES ASSUME AgentInv, [Next]_vars PROVE AgentInv' /\ (Keeps \/ UNCHANGED vars)
    OBVIOUS
  <1>1. ASSUME NEW p \in Callers, Step(p) PROVE AgentInv' /\ Keeps
    BY <1>1, DiscoverKeeps, CacheKeeps, FillKeeps, RefreshKeeps, RequireKeeps, ForDatabaseKeeps, UseKeeps,
       Zenon DEF Step
  <1>2. CASE Next
    BY <1>1, <1>2, StartKeeps, ReconcileKeeps, OtherKeeps, AsideKeeps, ChangeKeeps, RestartKeeps, Zenon DEF Next
  <1>3. CASE UNCHANGED vars
    BY <1>3, Zenon DEF vars, AgentInv, CallersOK, CacheOK, IdentOK, Sound, Shaped
  <1> QED
    BY <1>2, <1>3, Zenon

(* The invariant of the agent: in every reachable state at most one caller fills
   the identity cache, and only while it is empty; every caller's pool is open;
   the copy of the identity file in memory is the file; its ids differ, and what
   was reported is what it tells (Manager.ensureCache, Manager.ForDatabase,
   identity.Store). *)
THEOREM AgentInvariant == Spec => []AgentInv
  <1>1. Init => AgentInv
    BY InitHolds
  <1>2. AgentInv /\ [Next]_vars => AgentInv'
    BY NextKeeps, Zenon
  <1> QED
    BY <1>1, <1>2, PTL DEF Spec

(* No caller ever finds the pool it was given closed, for any number of
   databases and any limit on their pools (Manager.ForDatabase). *)
THEOREM NoPoolClosedUnderACaller == Spec => []PoolsKeptOpen
  <1>1. AgentInv => PoolsKeptOpen
    BY Zenon DEF AgentInv, CallersOK, Sound, PoolsKeptOpen
  <1> QED
    BY <1>1, AgentInvariant, PTL

(* The ids a target and its agent were reported under never change, two targets
   never share one, and the cluster id changes only with a restart and is the
   manual one only if the server refused to tell its own (identity.Store,
   ensureCache, queryClusterIdentity). *)
THEOREM IdentitiesKept == Spec => IdentityKept
  <1>1. AgentInv /\ [Next]_vars => [Keeps]_vars
    BY NextKeeps, Zenon
  <1>2. Spec => [][Keeps]_vars
    BY <1>1, AgentInvariant, PTL DEF Spec
  <1> QED
    BY <1>2, Zenon DEF IdentityKept, Keeps

-----------------------------------------------------------------------------
(***************************************************************************)
(* The delivery of what the agent queued (Delivery): no envelope leaves     *)
(* the agent's queue unless the server has it or a counter does, and none   *)
(* overtakes an older one, for any number of records, handlers and outages. *)
(***************************************************************************)
\* Records that nothing is owed for any more; the set only grows.
Gone == stored \cup givenUp \cup reported

\* Every record before n is in S.
Before(n, S) == \A m \in 1..(n - 1) : m \in S

(***************************************************************************)
(* The inductive invariant.  Accounted is not inductive: a Confirm takes    *)
(* the record offered and every older one out of the queue, and that is     *)
(* right because nothing older was owed when the record was offered, and    *)
(* because a 202 is in the request only after the commit.  The records that *)
(* can still be committed are the one offered and those of late handlers.   *)
(***************************************************************************)
DeliveryInv ==
    /\ written \in Nat /\ owed \subseteq Nat /\ offered \in Nat
    /\ pc # "sent" => request = "none"
    /\ ~up => pc = "idle"
    /\ request = "202" => offered \in stored
    /\ \A n \in late \cup stored \cup {offered} : Before(n, Gone)
    /\ Accounted

-----------------------------------------------------------------------------
\* What is gone stays gone, so what was before a record stays before it.
LEMMA BeforeGrows ==
    ASSUME NEW S, NEW T, S \subseteq T, NEW n, Before(n, S)
    PROVE  Before(n, T)
  BY Zenon DEF Before

\* Nothing comes before the first record, or before none.
LEMMA BeforeNone == ASSUME NEW S PROVE Before(0, S)
  BY DEF Before

\* The part of the invariant about the order follows when no record is forgotten
\* and each that can be committed now could be before, or has all before it gone.
LEMMA OrderKept ==
    ASSUME DeliveryInv, Gone \subseteq Gone',
           \A n \in late' \cup stored' \cup {offered'} :
               n \in late \cup stored \cup {offered} \/ n = 0 \/ Before(n, Gone')
    PROVE  \A n \in late' \cup stored' \cup {offered'} : Before(n, Gone')
  <1> SUFFICES ASSUME NEW n \in late' \cup stored' \cup {offered'} PROVE Before(n, Gone')
    BY Zenon
  <1>1. CASE n \in late \cup stored \cup {offered}
    <2>1. Before(n, Gone)
      BY <1>1, Zenon DEF DeliveryInv
    <2> QED
      BY <2>1, BeforeGrows, Zenon
  <1>2. CASE n = 0
    BY <1>2, BeforeNone, Zenon
  <1> QED
    BY <1>1, <1>2, Zenon

\* The handler refuses, or goes on; it does not acknowledge.
LEMMA RefusalIsNoAck == ASSUME NEW n PROVE Refusal(n) # "202" /\ Refusal(n) # "none"
  BY DEF Refusal

\* Init establishes the invariant.
LEMMA DeliveryStart == PushInit => DeliveryInv
  BY BeforeNone DEF PushInit, Queue!Init, DeliveryInv, Accounted

-----------------------------------------------------------------------------
(* The steps *)

\* Retention counts what it takes.
LEMMA RetainCounts ==
    ASSUME NEW S, S \subseteq Nat, Queue!Retain(S)
    PROVE  owed' \subseteq S /\ reported \subseteq reported' /\ S \subseteq owed' \cup reported'
  <1>1. PICK cut \in 0..MaxRecs : /\ reported' = reported \cup {n \in S : n <= cut}
                                  /\ owed' = {n \in S : n > cut}
    BY Zenon DEF Queue!Retain
  <1>2. \A n \in S : n <= cut \/ n > cut
    OBVIOUS
  <1> QED
    BY <1>1, <1>2, Zenon

\* The steps that leave the queue, the request, the store and the counts alone,
\* but for the place of the push loop outside an attempt.
LEMMA LoopSteps ==
    ASSUME DeliveryInv, CancelPush \/ Push \/ Attempt \/ Age \/ Turn
    PROVE  DeliveryInv'
  <1>1. UNCHANGED <<up, written, owed, offered, reported, givenUp, late, stored>>
    BY DEF CancelPush, Push, Attempt, Age, Turn,
       queue, pusher, receiver
  <1>2. \/ request' = request /\ (pc' = pc \/ (pc = "idle" /\ up /\ pc' = "drain"))
        \/ up /\ pc' = "sent" /\ request' = "network"
    BY DEF CancelPush, Push, Attempt, Age, Turn,
       queue, pusher, receiver
  <1>3. Gone' = Gone /\ Accounted'
    BY <1>1, Zenon DEF DeliveryInv, Gone, Accounted
  <1> QED
    BY <1>1, <1>2, <1>3 DEF DeliveryInv

\* The process starts.
LEMMA StartStep == ASSUME DeliveryInv, Start PROVE DeliveryInv'
  <1>1. /\ Queue!Retain(owed) /\ UNCHANGED <<written, offered, givenUp, request, late, stored>>
        /\ up' /\ ~up /\ pc' = "idle" /\ request = "none" /\ written \in Nat /\ owed \subseteq Nat
    BY DEF DeliveryInv, Start, Queue!Start, receiver
  <1>2. owed' \subseteq owed /\ reported \subseteq reported' /\ owed \subseteq owed' \cup reported'
    BY <1>1, RetainCounts, Zenon
  <1>3. Gone \subseteq Gone' /\ Accounted'
    BY <1>1, <1>2 DEF DeliveryInv, Gone, Accounted
  <1>4. \A n \in late' \cup stored' \cup {offered'} : Before(n, Gone')
    BY <1>1, <1>3, OrderKept
  <1> QED
    BY <1>1, <1>2, <1>3, <1>4 DEF DeliveryInv

\* The process ends: what was settled may be owed again, nothing is forgotten, and
\* the handler of the attempt under way goes on alone.
LEMMA ExitStep == ASSUME DeliveryInv, Exit PROVE DeliveryInv'
  <1>1. /\ owed \subseteq owed' /\ owed' \subseteq Recs
        /\ \/ written' = written
           \/ written' = written + 1 /\ written + 1 \in owed'
        /\ offered' = 0 /\ ~up' /\ pc' = "idle" /\ request' = "none"
        /\ late' \subseteq late \cup {offered} /\ UNCHANGED <<reported, givenUp, stored>>
        /\ written \in Nat
    <2>1. written \in Nat /\ Queue!Stop /\ pc' = "idle" /\ request' = "none"
          /\ late' \subseteq late \cup {offered} /\ UNCHANGED <<givenUp, stored>>
      BY DEF DeliveryInv, Exit
    <2>2. owed' \subseteq Recs
      BY DEF Exit
    <2>3. /\ written' \in {written, written + 1} /\ offered' = 0 /\ up' = FALSE
          /\ reported' = reported /\ owed \cup (1..written' \ 1..written) \subseteq owed'
      BY <2>1, Zenon DEF Queue!Stop
    <2>4. written' = written + 1 => written + 1 \in 1..written' \ 1..written
      BY <2>1
    <2> QED
      BY <2>1, <2>2, <2>3, <2>4, Zenon
  <1>2. owed' \subseteq Nat /\ written' \in Nat
    BY <1>1 DEF Recs
  <1>3. Gone \subseteq Gone' /\ Accounted'
    BY <1>1 DEF DeliveryInv, Gone, Accounted
  <1>4. \A n \in late' \cup stored' \cup {offered'} : Before(n, Gone')
    BY <1>1, <1>3, OrderKept
  <1> QED
    BY <1>1, <1>2, <1>3, <1>4 DEF DeliveryInv
\* An append that goes through, with the retention it ends in, and one that fails.
LEMMA QueueSteps == ASSUME DeliveryInv, QueueRecord \/ QueueError PROVE DeliveryInv'
  <1>1. /\ UNCHANGED <<up, offered, pc, request, late, stored>> /\ written' = written + 1
        /\ written \in Nat /\ owed \subseteq Nat
    BY DEF DeliveryInv, QueueRecord, QueueError, Queue!Put,
       pusher, receiver
  <1>2. /\ owed' \subseteq owed \cup {written + 1} /\ reported \subseteq reported' /\ givenUp \subseteq givenUp'
        /\ owed \cup {written + 1} \subseteq owed' \cup reported' \cup givenUp'
    <2>1. CASE QueueRecord
      <3>1. Queue!Retain(owed \cup {written + 1}) /\ givenUp' = givenUp
        BY <2>1 DEF QueueRecord, Queue!Put, pusher
      <3>2. owed \cup {written + 1} \subseteq Nat
        BY <1>1
      <3> QED
        BY <3>1, <3>2, RetainCounts, Zenon
    <2>2. CASE QueueError
      BY <2>2, Zenon DEF QueueError
    <2> QED
      BY <2>1, <2>2, Zenon
  <1>3. Gone \subseteq Gone' /\ Accounted'
    <2>1. Gone \subseteq Gone'
      BY <1>1, <1>2, Zenon DEF Gone
    <2>2. \A n \in 1..written' : n \in 1..written \/ n = written + 1
      BY <1>1
    <2> QED
      BY <1>1, <1>2, <2>1, <2>2, Zenon DEF DeliveryInv, Gone, Accounted
  <1>4. \A n \in late' \cup stored' \cup {offered'} : Before(n, Gone')
    BY <1>1, <1>3, OrderKept
  <1>5. owed' \subseteq Nat /\ written' \in Nat
    BY <1>1, <1>2
  <1> QED
    BY <1>1, <1>3, <1>4, <1>5 DEF DeliveryInv

\* The oldest record owed is offered: what is older was owed no more, and is gone.
LEMMA OfferStep == ASSUME DeliveryInv, NextRecord PROVE DeliveryInv'
  <1>1. /\ UNCHANGED <<up, written, owed, givenUp, request, late, stored>> /\ up /\ pc' = "attempt"
        /\ offered' \in 1..written /\ (\A m \in owed : ~(m < offered')) /\ reported \subseteq reported'
        /\ pc = "drain"
    BY DEF NextRecord, Queue!Offer, receiver

   <1>2. Gone \subseteq Gone' /\ Accounted' /\ offered' \in Nat /\ request = "none" /\ written \in Nat
    BY <1>1 DEF DeliveryInv, Gone, Accounted
  <1>3. Before(offered', Gone')
    <2> SUFFICES ASSUME NEW m \in 1..(offered' - 1) PROVE m \in Gone'
      BY Zenon DEF Before
    <2>0. PICK k : k = offered'
      BY Zenon
    <2>1. m \in 1..written /\ m < offered'
      <3>1. m \in 1..(k - 1) /\ k \in 1..written /\ written \in Nat
        BY <1>1, <1>2, <2>0, Zenon
      <3>2. m \in 1..written /\ m < k
        BY <3>1
      <3> QED
        BY <2>0, <3>2, Zenon
    <2>2. m \in owed \cup Gone
      BY <2>1, Zenon DEF DeliveryInv, Accounted, Gone
    <2> QED
      BY <1>1, <1>2, <2>1, <2>2, Zenon
  <1>4. \A n \in late' \cup stored' \cup {offered'} : Before(n, Gone')
    BY <1>1, <1>2, <1>3, OrderKept, Zenon
  <1> QED
    BY <1>1, <1>2, <1>4 DEF DeliveryInv

\* Nothing is left to offer.
LEMMA DrainedStep == ASSUME DeliveryInv, BufferDrained PROVE DeliveryInv'
  <1>1. /\ UNCHANGED <<up, written, owed, offered, givenUp, request, late, stored>> /\ up
        /\ pc = "drain" /\ pc' = "idle" /\ reported \subseteq reported'
    BY DEF BufferDrained, Queue!OfferNone, receiver
  <1>2. Gone \subseteq Gone' /\ Accounted'
    BY <1>1, Zenon DEF DeliveryInv, Gone, Accounted
  <1>3. \A n \in late' \cup stored' \cup {offered'} : Before(n, Gone')
    BY <1>1, <1>2, OrderKept, Zenon
  <1> QED
    BY <1>1, <1>2, <1>3 DEF DeliveryInv

\* A Confirm takes the record offered and all older ones out of the queue: the
\* older ones are gone, and the one offered is stored or counted in this step.
LEMMA ConfirmKeeps ==
    ASSUME DeliveryInv, Queue!Confirm, up, late' \subseteq late \cup {offered}, stored' = stored,
           givenUp \subseteq givenUp', offered \in stored \cup givenUp', request' = "none"
    PROVE  DeliveryInv'
  <1>1. /\ UNCHANGED <<up, written, reported>> /\ offered' = 0
        /\ owed' = {n \in owed : n > offered}
    BY Zenon DEF Queue!Confirm
  <1>2. Gone \subseteq Gone'
    BY <1>1, Zenon DEF Gone
  <1>3. Accounted'
    <2> SUFFICES ASSUME NEW n \in 1..written PROVE n \in owed' \cup Gone'
      BY <1>1, Zenon DEF Accounted, Gone
    <2>1. offered \in Gone'
      BY Zenon DEF Gone
    <2>2. n < offered => n \in Gone
      <3>1. n < offered => n \in 1..(offered - 1)
        BY DEF DeliveryInv
      <3>2. Before(offered, Gone)
        BY Zenon DEF DeliveryInv
      <3> QED
        BY <3>1, <3>2, Zenon DEF Before
    <2>3. n \in owed \cup Gone
      BY Zenon DEF DeliveryInv, Accounted, Gone
    <2>4. n < offered \/ n = offered \/ n > offered
      BY DEF DeliveryInv
    <2> QED
      BY <1>1, <1>2, <2>1, <2>2, <2>3, <2>4, Zenon
  <1>4. \A n \in late' \cup stored' \cup {offered'} : Before(n, Gone')
    BY <1>1, <1>2, OrderKept, Zenon
  <1> QED
    BY <1>1, <1>3, <1>4, Zenon DEF DeliveryInv

\* The record goes back, or stays for another attempt: nothing leaves the queue.
LEMMA ReturnKeeps ==
    ASSUME DeliveryInv, up, UNCHANGED <<up, written, owed, reported, givenUp, stored>>,
           offered' = offered \/ offered' = 0, late' \subseteq late \cup {offered}, request' = "none"
    PROVE  DeliveryInv'
  <1>1. Gone' = Gone /\ Accounted'
    BY Zenon DEF DeliveryInv, Gone, Accounted
  <1>2. \A n \in late' \cup stored' \cup {offered'} : Before(n, Gone')
    BY <1>1, OrderKept, Zenon
  <1> QED
    BY <1>1, <1>2 DEF DeliveryInv

\* What an abandoned attempt leaves behind.
LEMMA AbandonLeaves == ASSUME Abandon PROVE request' = "none" /\ late' \subseteq late \cup {offered}
  BY DEF Abandon

\* An envelope that cannot be used is given up.
LEMMA UnusableStep == ASSUME DeliveryInv, Unusable PROVE DeliveryInv'
  <1>1. /\ Queue!Confirm /\ up /\ UNCHANGED <<late, stored>> /\ request' = request /\ pc = "attempt"
        /\ givenUp' = givenUp \cup {offered}
    BY DEF Unusable, GiveUp, Consume, receiver
  <1>2. request' = "none"
    BY <1>1 DEF DeliveryInv
  <1> QED
    BY <1>1, <1>2, ConfirmKeeps, Zenon

\* A wait ends in a new attempt, or with the shutdown in a return.
LEMMA BackoffStep == ASSUME DeliveryInv, Backoff PROVE DeliveryInv'
  <1>1. /\ up /\ UNCHANGED <<up, written, owed, reported, givenUp, late, stored>>
        /\ (offered' = offered \/ offered' = 0)
    BY Zenon DEF Backoff, RetryLater, Queue!Return, queue, receiver
  <1>2. request' = "none"
    BY DEF DeliveryInv, Backoff
  <1> QED
    BY <1>1, <1>2, ReturnKeeps, Zenon

\* An attempt whose connection fails, or whose request never got through.
LEMMA UnreachedSteps == ASSUME DeliveryInv, ConnectionLost \/ TimeoutUnsent PROVE DeliveryInv'
  <1>1. /\ up /\ UNCHANGED <<up, written, owed, offered, reported, givenUp, stored>> /\ Abandon
    BY DEF ConnectionLost, TimeoutUnsent, queue
  <1> QED
    BY <1>1, AbandonLeaves, ReturnKeeps, Zenon

\* The server does not answer in time: at the ceiling the record is given up,
\* and its handler may commit it all the same.
LEMMA StallStep == ASSUME DeliveryInv, Stall PROVE DeliveryInv'
  <1>1. up /\ Abandon /\ stored' = stored
    BY DEF Stall
  <1>2. CASE GiveUp("drain")
    <2>1. Queue!Confirm /\ givenUp' = givenUp \cup {offered}
      BY <1>2, Zenon DEF GiveUp, Consume
    <2> QED
      BY <1>1, <2>1, AbandonLeaves, ConfirmKeeps, Zenon
  <1>3. CASE UNCHANGED <<queue, givenUp>>
    <2>1. UNCHANGED <<up, written, owed, offered, reported, givenUp>>
      BY <1>3, Zenon DEF queue
    <2> QED
      BY <1>1, <2>1, AbandonLeaves, ReturnKeeps, Zenon
  <1> QED
    BY <1>2, <1>3, Zenon DEF Stall

\* The client reads the answer: a 202 means the record is stored.
LEMMA AnsweredStep == ASSUME DeliveryInv, Answered PROVE DeliveryInv'
  <1>1. up /\ UNCHANGED <<late, stored>> /\ request' = "none"
    BY Zenon DEF Answered, receiver
  <1>2. CASE request = "202" /\ Consume("drain") /\ UNCHANGED givenUp
    <2>1. Queue!Confirm /\ offered \in stored
      BY <1>2, Zenon DEF Consume, DeliveryInv
    <2> QED
      BY <1>1, <1>2, <2>1, ConfirmKeeps, Zenon
  <1>3. CASE GiveUp("drain")
    <2>1. Queue!Confirm /\ givenUp' = givenUp \cup {offered}
      BY <1>3, Zenon DEF GiveUp, Consume
    <2> QED
      BY <1>1, <2>1, ConfirmKeeps, Zenon
  <1>4. CASE UNCHANGED givenUp /\ (RetryLater \/ UNCHANGED queue)
    <2>1. UNCHANGED <<up, written, owed, reported, givenUp>> /\ (offered' = offered \/ offered' = 0)
      BY <1>4 DEF RetryLater, Queue!Return, queue
    <2> QED
      BY <1>1, <2>1, ReturnKeeps, Zenon
  <1> QED
    BY <1>2, <1>3, <1>4, Zenon DEF Answered

\* The server receives the request, or a handler finishes: a 202 is answered with
\* the commit, and whatever is committed had everything before it gone.
LEMMA ServerSteps == ASSUME DeliveryInv, Receive \/ Handle \/ HandleLate PROVE DeliveryInv'
  <1>1. /\ UNCHANGED <<up, written, owed, offered, reported, pc, givenUp>> /\ stored \subseteq stored'
        /\ late' \cup stored' \subseteq late \cup stored \cup {offered}
    BY DEF Receive, Handle, HandleLate, queue, pusher,
       receiver
  <1>2. /\ request = "none" => request' = "none"
        /\ request' = "202" => offered \in stored'
    <2>1. CASE Receive
      <3>1. request = "network" /\ request' = Refusal(offered)
        BY <2>1, Zenon DEF Receive
      <3> QED
        BY <3>1, RefusalIsNoAck
    <2>2. CASE Handle
      BY <2>2 DEF Handle
    <2>3. CASE HandleLate
      BY <1>1, <2>3 DEF HandleLate, DeliveryInv
    <2> QED
      BY <2>1, <2>2, <2>3
  <1>3. Gone \subseteq Gone' /\ Accounted'
    BY <1>1, Zenon DEF DeliveryInv, Gone, Accounted
  <1>4. \A n \in late' \cup stored' \cup {offered'} : Before(n, Gone')
    BY <1>1, <1>3, OrderKept, Zenon
  <1> QED
    BY <1>1, <1>2, <1>3, <1>4 DEF DeliveryInv

-----------------------------------------------------------------------------
(* The theorems *)

\* Every step keeps the invariant.
LEMMA DeliveryStep == DeliveryInv /\ [PushNext]_pushVars => DeliveryInv'
  <1> SUFFICES ASSUME DeliveryInv, [PushNext]_pushVars PROVE DeliveryInv'
    BY Zenon
  <1>1. CASE UNCHANGED pushVars
    <2>1. UNCHANGED <<up, written, owed, offered, reported, pc, givenUp, request, late, stored>>
      BY <1>1, Zenon DEF pushVars, queue, pusher, receiver
    <2> QED
      BY <2>1, Zenon DEF DeliveryInv, Accounted, Before, Gone
  <1>2. CASE PushNext
    <2>1. CASE Start \/ CancelPush \/ Exit \/ QueueRecord
               \/ QueueError
      BY <2>1, StartStep, LoopSteps, ExitStep, QueueSteps, Zenon
    <2>2. CASE PushStep
      BY <2>2, LoopSteps, OfferStep, DrainedStep, UnusableStep, BackoffStep, StallStep,
         AnsweredStep, Zenon DEF PushStep
    <2>3. CASE ConnectionLost \/ TimeoutUnsent \/ Age \/ Turn
               \/ Receive \/ Handle \/ HandleLate
      BY <2>3, UnreachedSteps, LoopSteps, ServerSteps, Zenon
    <2> QED
      BY <1>2, <2>1, <2>2, <2>3, Zenon DEF PushNext
  <1> QED
    BY <1>1, <1>2, Zenon

\* The inductive invariant of the push loop, the handlers and the network holds.
THEOREM DeliveryInvariant == PushSpec => []DeliveryInv
  BY DeliveryStart, DeliveryStep, PTL DEF PushSpec

\* Whatever is lost, late or restarted, a record that is no longer owed is in the
\* store or in a count.
THEOREM RecordsAccounted == PushSpec => []Accounted
  <1>1. DeliveryInv => Accounted
    BY Zenon DEF DeliveryInv
  <1> QED
    BY <1>1, DeliveryInvariant, PTL

\* No record is stored before an older one that is neither stored nor counted: the
\* replay is in order across timeouts, late handlers, rejections and restarts.
THEOREM ReplayInOrder == PushSpec => []InOrder
  <1>1. DeliveryInv => InOrder
    BY Zenon DEF DeliveryInv, InOrder, Before, Gone
  <1> QED
    BY <1>1, DeliveryInvariant, PTL

\* A rejection stays on healthz until the server answers otherwise or the process
\* starts anew.
THEOREM RejectionKept == PushSpec => RejectionStands
  <1> DEFINE Stands == (health \in {"revoked", "unauthorized", "incompatible"} /\ health' # health)
                       => (request \in {"202", "400", "401", "401 revoked", "404"} \/ up # up')
  <1>1. ASSUME [PushNext]_pushVars PROVE [Stands]_pushVars
    <2> SUFFICES ASSUME PushNext, health \in {"revoked", "unauthorized", "incompatible"}, health' # health
                 PROVE  request \in {"202", "400", "401", "401 revoked", "404"} \/ up # up'
      BY <1>1, Zenon
    <2>1. CASE Start
      BY <2>1, Zenon DEF Start, Queue!Start
    <2>2. CASE CancelPush \/ Exit \/ QueueRecord \/ QueueError
               \/ Age \/ Turn \/ Receive \/ Handle
               \/ HandleLate
      BY <2>2, Zenon DEF CancelPush, Exit, QueueRecord, QueueError,
         Age, Turn, Receive, Handle, HandleLate,
         pusher
    <2>3. CASE Push \/ NextRecord \/ BufferDrained \/ Unusable
               \/ Attempt \/ Backoff
      BY <2>3, Zenon DEF Push, NextRecord, BufferDrained, Unusable,
         Attempt, Backoff
    <2>4. CASE Stall \/ ConnectionLost \/ TimeoutUnsent
      BY <2>4, Zenon DEF Stall, ConnectionLost, TimeoutUnsent, Unreached
    <2>5. CASE Answered
      BY <2>5, Zenon DEF Answered
    <2> QED
      BY <2>1, <2>2, <2>3, <2>4, <2>5, Zenon DEF PushNext, PushStep
  <1> QED
    BY <1>1, PTL DEF PushSpec, RejectionStands

=============================================================================
