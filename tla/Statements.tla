------------------------------ MODULE Statements ------------------------------
(***************************************************************************)
(* The stat_statements check: which statements of a database a scrape      *)
(* reports (internal/cardinality/selector.go, one selector per instance    *)
(* and database: internal/check/scopesel.go), and which query texts it     *)
(* ships along (internal/check/stat_statements.go), down to the table the  *)
(* server keeps them in.  One check object serves every target.  A scrape  *)
(* whose queries fail returns before it changes anything and is no step.   *)
(* A text that waits in the agent's buffer counts as stored: a report that *)
(* relies on it waits in the same queue.                                   *)
(***************************************************************************)
EXTENDS Integers, Sequences, FiniteSets, SequencesExt, FiniteSetsExt, Functions, TLC

CONSTANTS
    NoText,                   \* the text of a statement over statementTextLimit
    TopN, Hysteresis, MaxKeys,
    minPrefilter,           \* rows per ranking the query reads at least
    cacheSize,              \* texts a cache remembers
    textResendInterval, scopeIdleTTL, queryTextRetention,
    Bounds                  \* per behaviour: scrapes, losses, time, scopes [instance, cluster,
                            \* database] and views, query id -> [primary, secondary, text]

VARIABLES
    time,       \* the agent's clock; scrapes of all scopes share it
    scope,      \* scope key -> the selector with its cycle
    texts,      \* text cache key -> texts shipped, least recently used first
    stored,     \* the server's query_texts: cluster, database and query -> last_seen
    report,     \* scope -> its latest report
    past,       \* for the properties: scope -> what its last scrapes ranked, latest first
    lost,       \* for the properties: text -> when an envelope with it was last lost
    left        \* of Bounds

statements == <<time, scope, texts, stored, report, past, lost, left>>

scopeKeyDatabase(s) == <<s.database>>
scopeKey(s) == <<s.instance, s.database>>
textCacheKeyDatabase(s) == <<s.database>>
textCacheKey(s) == <<s.cluster, s.database>>
TextID(s, q) == <<s.cluster, s.database, q>>

NewSelector == [cycle |-> 0, lastSeen |-> <<>>]
Get(table, k, none) == IF k \in DOMAIN table THEN table[k] ELSE none

InitStatements ==
    /\ time = 1
    /\ scope = <<>> /\ texts = <<>> /\ stored = <<>>
    /\ report = <<>> /\ past = <<>> /\ lost = <<>>
    /\ left \in Bounds

-----------------------------------------------------------------------------
\* Selection.

\* Ties go to the smaller key.
First(n, S, w, metric) ==
    LET ahead(q) == {r \in S : w[r][metric] > w[q][metric] \/ (w[r][metric] = w[q][metric] /\ r < q)}
    IN  {q \in S : Cardinality(ahead(q)) < n}

prefilter == Max({minPrefilter, 2 * TopN})
\* The rows the statements query returns: the leaders of each ranking.
Candidates(w) ==
    First(prefilter, DOMAIN w, w, "primary") \cup First(prefilter, DOMAIN w, w, "secondary")

FreshKeys(w, in) ==
    First(TopN, in, w, "primary") \cup First(TopN, in, w, "secondary")

threshold(cycle) == IF cycle > Hysteresis THEN cycle - Hysteresis ELSE 0

\* A retained key makes room for a fresh one, never the other way round.
Select(st, w, in) ==
    LET fresh == FreshKeys(w, in)
        retained == {q \in in \ fresh : q \in DOMAIN st.lastSeen /\ st.lastSeen[q] >= threshold(st.cycle)}
        room == IF MaxKeys > Cardinality(fresh) THEN MaxKeys - Cardinality(fresh) ELSE 0
    IN  [kept |-> First(MaxKeys, fresh, w, "primary") \cup First(room, retained, w, "primary"),
         truncated |-> Cardinality(fresh) + Cardinality(retained) > MaxKeys,
         lastSeen |-> [q \in fresh |-> st.cycle] @@ st.lastSeen]

Forget(lastSeen, cycle) == Restrict(lastSeen, {q \in DOMAIN lastSeen : lastSeen[q] >= threshold(cycle)})

\* Only a table with two entries or more is pruned.
pruneLocked(table) ==
    IF Cardinality(DOMAIN table) < 2 THEN table
    ELSE Restrict(table, {k \in DOMAIN table : time - table[k].lastUsed <= scopeIdleTTL})

\* The scope's own selector, in its next cycle.
next(k) ==
    LET st == Get(scope, k, NewSelector)
    IN  [cycle |-> st.cycle + 1, lastSeen |-> st.lastSeen, lastUsed |-> time]

-----------------------------------------------------------------------------
\* Texts: shipped when the cache does not hold the same text or not recently.

Sent(lru, q, text) == \E i \in DOMAIN lru : lru[i].query = q /\ lru[i].text = text /\ time - lru[i].sentAt < textResendInterval
Without(lru, q) == SelectSeq(lru, LAMBDA e : e.query # q)
Entry(lru, q) == lru[CHOOSE i \in DOMAIN lru : lru[i].query = q]
cacheAdd(lru, e) ==
    LET all == Append(Without(lru, e.query), e)
    IN  IF Len(all) > cacheSize THEN Tail(all) ELSE all

Ship(acc, q, text) ==
    IF text = NoText THEN acc
    ELSE IF Sent(acc.lru, q, text) THEN [acc EXCEPT !.lru = Append(Without(@, q), Entry(@, q))]
    ELSE [lru |-> cacheAdd(acc.lru, [query |-> q, text |-> text, sentAt |-> time]), texts |-> acc.texts \cup {q}]

sortByRank(S, w) ==
    SetToSortSeq(S, LAMBDA a, b : w[a].primary > w[b].primary \/ (w[a].primary = w[b].primary /\ a < b))

QueryTexts(s, w, kept) ==
    FoldLeft(LAMBDA acc, q : Ship(acc, q, w[q].text), [lru |-> Get(texts, textCacheKey(s), [lru |-> <<>>]).lru, texts |-> {}], sortByRank(kept, w))

Shipped(s, ship) == {TextID(s, q) : q \in ship}
WriteQueryTexts(ids) == [t \in ids |-> time] @@ stored

-----------------------------------------------------------------------------
\* The latest Hysteresis scrapes of a scope, and those of them with no idle gap
\* after which its selector may have been pruned.
History(s) == Get(past, s, <<>>)
Recent(s) == UNION {History(s)[i].fresh : i \in DOMAIN History(s)}
Unbroken(s) ==
    LET at(i) == IF i = 0 THEN time ELSE History(s)[i].at
        near == {i \in DOMAIN History(s) : \A m \in 1..i : at(m - 1) - at(m) <= scopeIdleTTL}
    IN  UNION {History(s)[i].fresh : i \in near}

Scrape(s, w, dropped) ==
    LET st == next(scopeKey(s))
        in == Candidates(w)
        fresh == FreshKeys(w, DOMAIN w)
        sel == Select(st, w, in)
        sent == QueryTexts(s, w, sel.kept)
        ids == Shipped(s, sent.texts)
    IN  /\ left.scrapes > 0 /\ (dropped => left.losses > 0 /\ ids # {})
        /\ left' = [left EXCEPT !.scrapes = @ - 1, !.losses = IF dropped THEN @ - 1 ELSE @]
        /\ scope' = pruneLocked(scopeKey(s) :> [st EXCEPT !.lastSeen = Forget(sel.lastSeen, st.cycle)] @@ scope)
        /\ texts' = pruneLocked(textCacheKey(s) :> [lru |-> sent.lru, lastUsed |-> time] @@ texts)
        /\ stored' = IF dropped THEN stored ELSE WriteQueryTexts(ids)
        /\ lost' = IF dropped THEN [t \in ids |-> time] @@ lost ELSE lost
        /\ past' = s :> SubSeq(<<[fresh |-> fresh, at |-> time]>> \o History(s), 1, Min({Len(History(s)) + 1, Hysteresis})) @@ past
        /\ report' = s :> [kept |-> sel.kept, textless |-> {q \in sel.kept : w[q].text = NoText}, at |-> time,
                           truncated |-> sel.truncated, fresh |-> fresh,
                           may |-> fresh \cup (in \cap Recent(s)), must |-> fresh \cup (in \cap Unbroken(s))] @@ report
        /\ UNCHANGED time

purgeQueryTexts ==
    /\ stored' = Restrict(stored, {t \in DOMAIN stored : stored[t] >= time - queryTextRetention})
    /\ stored' # stored
    /\ UNCHANGED <<time, scope, texts, report, past, lost, left>>

Pass ==
    /\ time < left.time /\ left.scrapes > 0 /\ time' = time + 1
    /\ UNCHANGED <<scope, texts, stored, report, past, lost, left>>

NextStatements ==
    \/ \E s \in left.scopes, w \in left.views, dropped \in BOOLEAN : Scrape(s, w, dropped)
    \/ purgeQueryTexts \/ Pass

-----------------------------------------------------------------------------
(* A report holds every statement that leads one of the two rankings and those
   that did within the last Hysteresis scrapes of their own instance and
   database, whatever other databases and instances of the agent were scraped in
   between and however long ago; it leaves one out only when it says truncated,
   and then a former leader before a current one (Selector.Select,
   scopedSelectors.next).  A scope idle for scopeIdleTTL may start again. *)
ReportSteady ==
    \A s \in DOMAIN report : LET r == report[s] IN
        /\ Cardinality(r.kept) <= MaxKeys
        /\ r.kept \subseteq r.may
        /\ r.truncated \/ r.must \subseteq r.kept
        /\ r.fresh \subseteq r.kept \/ r.kept \subseteq r.fresh
        /\ r.truncated => Cardinality(r.kept) = MaxKeys

(* The text of every statement in a current report is in the server's table,
   unless an envelope that carried it was lost less than textResendInterval ago
   or it was too long to be read: the cache of shipped texts never holds one back
   that the server does not have, not for another cluster with a database of the
   same name, not after an eviction, and not after the server's purge
   (statStatementsCheck.Scrape, textCacheKey, purgeQueryTexts). *)
TextsKnown ==
    \A s \in DOMAIN report : report[s].at = time =>
        \A q \in report[s].kept \ report[s].textless : LET t == TextID(s, q) IN
            t \in DOMAIN stored \/ (t \in DOMAIN lost /\ time - lost[t] < textResendInterval)
=============================================================================
