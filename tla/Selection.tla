------------------------------ MODULE Selection ------------------------------
(***************************************************************************)
(* The pure parts of the agent's collection: which databases it monitors   *)
(* (internal/agent/conn.go), which ones its schedule keeps                 *)
(* (cmd/pglens-agent/schedule.go), which pool gives way to a new one, and  *)
(* how a window of session samples becomes a result                        *)
(* (internal/ash/aggregator.go, cmd/pglens-agent/ash.go).                  *)
(***************************************************************************)
EXTENDS Integers, Sequences, FiniteSets, FiniteSetsExt, Functions

CONSTANTS
    Excluded, Included,     \* the databases the configuration names; Included = {}: all
    MaxDatabases,
    Keys, maxKeys           \* what sessions are counted by, and how many keys a window reports

-----------------------------------------------------------------------------
\* Databases, busiest first, with the verdict of the budget.

selectDatabases(ranked) ==
    LET eligible == SelectSeq(ranked, LAMBDA d : d \notin Excluded /\ (Included = {} \/ d \in Included))
    IN  [i \in DOMAIN eligible |-> [name |-> eligible[i], monitored |-> i <= MaxDatabases]]

Listed(discovered) == {discovered[i].name : i \in DOMAIN discovered}
Monitored(discovered) == {discovered[i].name : i \in {j \in DOMAIN discovered : discovered[j].monitored}}

\* A scheduled database stays while it is listed; free slots go to the busiest.
keepDatabases(last, discovered) ==
    LET kept == last \cap Listed(discovered)
        slots == Cardinality(Monitored(discovered))
        fresh == SelectSeq(discovered, LAMBDA d : d.monitored /\ d.name \notin kept)
        free == IF slots > Cardinality(kept) THEN slots - Cardinality(kept) ELSE 0
    IN  kept \cup {fresh[i].name : i \in {j \in DOMAIN fresh : j <= free}}

\* The pools that leave when one more is opened: while there are too many, the
\* one used longest ago of those that are not busy.
Evict(pools, busy) ==
    LET idle == {i \in DOMAIN pools : pools[i] \notin busy}
        over == Len(pools) - MaxDatabases + 1
    IN  {pools[i] : i \in {j \in idle : Cardinality({m \in idle : m < j}) < over}}

-----------------------------------------------------------------------------
\* A window of samples.

Other == "other"
NoSamples == [k \in Keys |-> 0]

KeyOrder == CHOOSE f \in [Keys -> 1..Cardinality(Keys)] : IsInjective(f)
keyLess(a, b) == KeyOrder[a] < KeyOrder[b]
Seen(counts) == {k \in Keys : counts[k] > 0}
sortBuckets(counts, a, b) == counts[a] > counts[b] \/ (counts[a] = counts[b] /\ keyLess(a, b))
Largest(counts, n) ==
    {k \in Seen(counts) : Cardinality({j \in Seen(counts) : sortBuckets(counts, j, k)}) < n}

capTruncated(counts) == [k \in Largest(counts, maxKeys) |-> counts[k]]
\* The largest buckets and, when there are too many, one for all the others.
capConserved(counts) ==
    LET whole == [k \in Seen(counts) |-> counts[k]]
        kept == Largest(counts, maxKeys - 1)
        rest == MapThenSumSet(LAMBDA k : counts[k], Seen(counts) \ kept)
    IN  IF Cardinality(Seen(counts)) <= maxKeys THEN whole
        ELSE [k \in kept \cup {Other} |-> IF k = Other THEN rest ELSE counts[k]]

\* A window in which every tick failed is an error, one without a session a
\* zero that carries its ticks, and one without a tick nothing.
ashWindowResult(w) ==
    LET buckets == capConserved(w.counts)
    IN  CASE DOMAIN buckets # {} \/ w.ticks > 0 -> [kind |-> "samples", buckets |-> buckets, ticks |-> w.ticks, err |-> FALSE]
          [] DOMAIN buckets = {} /\ w.ticks = 0 /\ w.failed > 0 -> [kind |-> "error", buckets |-> <<>>, ticks |-> 0, err |-> w.err]
          [] OTHER -> [kind |-> "none", buckets |-> <<>>, ticks |-> 0, err |-> FALSE]
=============================================================================
