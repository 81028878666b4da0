-------------------------------- MODULE Delta --------------------------------
(***************************************************************************)
(* internal/delta/engine.go: counters become rates.  A baseline is the     *)
(* last sample of a series; an envelope stages the baselines it moves and  *)
(* commits them once its transaction has committed.  A point stands for    *)
(* the rate over the interval from the baseline to the sample.             *)
(***************************************************************************)
EXTENDS Integers

CONSTANT maxGap    \* the longest interval a rate may cover

NoBase == [ts |-> 0, value |-> 0, statsReset |-> 0]
NoPoint == [from |-> 0, to |-> 0]

\* Rule 2: a duplicate or late sample, and the one that is too late for that.
NotAfter(prev, o) == o.ts <= prev.ts
ClockStepped(prev, o) == prev.ts - o.ts > maxGap

\* Rules 3 and 4.  statsReset 0 is a result without the marker.
StatsChanged(prev, o) ==
    o.statsReset # 0 /\ prev.statsReset # 0 /\ o.statsReset # prev.statsReset
WentBack(prev, o) == o.value < prev.value

Outcome(base, point, reset) == [base |-> base, point |-> point, reset |-> reset]

\* observe: o is [ts, value, statsReset].
observe(prev, o) ==
    CASE prev = NoBase -> Outcome(o, NoPoint, FALSE)
      [] prev # NoBase /\ NotAfter(prev, o) ->
            Outcome(IF ClockStepped(prev, o) THEN o ELSE prev, NoPoint, FALSE)
      [] prev # NoBase /\ ~NotAfter(prev, o) /\ (StatsChanged(prev, o) \/ WentBack(prev, o)) ->
            Outcome(o, NoPoint, TRUE)
      [] OTHER ->
            Outcome(o, IF o.ts - prev.ts > maxGap THEN NoPoint
                       ELSE [from |-> prev.ts, to |-> o.ts], FALSE)

\* As if a late commit could step a baseline back over another envelope's.
CommitBaseAlways(cur, read, staged) == staged

\* Batch.Commit for one series: cur is the engine's baseline now, read the one
\* the batch started from.
CommitBase(cur, read, staged) ==
    IF cur # NoBase /\ staged.ts <= cur.ts /\ read # cur THEN cur ELSE staged

EvictBase(prev, cutoff) == IF prev.ts < cutoff THEN NoBase ELSE prev
=============================================================================
