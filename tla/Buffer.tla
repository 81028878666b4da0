------------------------------- MODULE Buffer -------------------------------
(***************************************************************************)
(* The agent's disk buffer, internal/agent/buffer/buffer.go: a queue of    *)
(* envelopes kept in append-only segment files, with a checkpoint (.acked) *)
(* that says how far the consumer has come.                                *)
(*                                                                         *)
(* A record is a number, given in the order of the appends.  An offset is  *)
(* the number of complete records before it, and Size[n] is the number of  *)
(* bytes record n takes with its header.  A segment is kept under its ID:  *)
(* the slice b.segments is the set of live IDs in increasing order, and    *)
(* nextReadSeg is the ID of the segment the cursor is in.  A cursor (s, o) *)
(* stands before every record beyond (s, o), so it also has a meaning when *)
(* segment s is gone.                                                      *)
(***************************************************************************)
EXTENDS Integers, Sequences, FiniteSets, FiniteSetsExt

CONSTANTS
    MaxRecs,   \* bound: how many records are appended
    Size,      \* bytes of each record, header included
    MaxSize,   \* Options.MaxSize
    SegSize,   \* segmentSize(MaxSize): where a segment rolls
    MaxAge,    \* Options.MaxAge
    RollAge,   \* MaxAge/4: the age at which the active segment rolls
    MaxNow,    \* bound: the last instant of the clock
    MaxSegID,  \* bound: the segment IDs an append that fails may use up
    Faults     \* the faults that may happen: "io", "unlink", "rot", "power"

ASSUME BufferAssumption ==
    /\ MaxRecs \in Nat /\ MaxSize \in Nat /\ SegSize \in Nat
    /\ MaxAge \in Nat /\ RollAge \in Nat /\ MaxNow \in Nat /\ MaxSegID \in Nat
    /\ Size \in [1..MaxRecs -> Nat \ {0}]

VARIABLES
    up,        \* the process runs and holds an open Buffer
    b,         \* the Buffer struct; of a stopped process only b.segments counts
    leftover,  \* files of dropped segments whose os.Remove failed
    acked,     \* the file .acked; have = FALSE when it is missing or short
    ackedPast, \* what .acked held since the last sync: a rename may be undone
    inflight,  \* the record handed out by Next and its AckFunc; n = 0 for none
    bad,       \* records whose payload no longer matches its CRC
    now,       \* the clock
    written,   \* history: how many records were written
    consumed,  \* history: records whose AckFunc was called
    reported,  \* history: records counted as dropped or as corrupt
    atRisk     \* history: records not yet synced when the power failed

vars == <<up, b, leftover, acked, ackedPast, inflight, bad, now,
          written, consumed, reported, atRisk>>
history == <<written, consumed, reported, atRisk>>

-----------------------------------------------------------------------------
(* Positions and segments. *)

\* Position (i, j) lies beyond the position (s, o).
Beyond(i, j, s, o) == i > s \/ (i = s /\ j > o)

Live(bb) == DOMAIN bb.segments
Recs(bb, i) == bb.segments[i].recs
RecordsOf(bb) == UNION {{Recs(bb, i)[j] : j \in DOMAIN Recs(bb, i)} : i \in Live(bb)}

FileSize(seg) == MapThenSumSet(LAMBDA j : Size[seg.recs[j]], DOMAIN seg.recs)
SizeOf(bb, S) == MapThenSumSet(LAMBDA i : FileSize(bb.segments[i]), S)

EmptySegment ==
    [recs |-> <<>>, torn |-> FALSE, recordCount |-> 0, synced |-> 0,
     createdAt |-> now, lastWrite |-> now, modTime |-> now]

\* The slice without the segments of S.
Without(segs, S) == [i \in DOMAIN segs \ S |-> segs[i]]

\* The files of two disjoint listings together.
Merge(f, g) == [i \in DOMAIN f \cup DOMAIN g |-> IF i \in DOMAIN f THEN f[i] ELSE g[i]]

-----------------------------------------------------------------------------
(* Retention: segments leave the buffer oldest first. *)

UnackedFrom(bb, i) ==
    {j \in DOMAIN Recs(bb, i) : Beyond(i, j, bb.ackedSegID, bb.ackedOff)}

\* Mutant: the records before the acked position count too.
unackedAll(bb, i) == bb.segments[i].recordCount

unackedRecords(bb, i) ==
    CASE i < bb.ackedSegID -> 0
      [] i > bb.ackedSegID -> bb.segments[i].recordCount
      [] i = bb.ackedSegID -> IF bb.ackedOff < Len(Recs(bb, i)) THEN Len(Recs(bb, i)) - bb.ackedOff ELSE 0

UnackedIn(bb, S) == MapThenSumSet(LAMBDA i : unackedRecords(bb, i), S)

\* Mutant: the cursor keeps its offset when its segment goes.
removeKeepingOffset(bb, S, reason) ==
    LET left == Live(bb) \ S
    IN  [bb EXCEPT
           !.segments = Without(@, S),
           !.BytesUsed = @ - SizeOf(bb, S),
           !.nextReadSeg = IF @ \in S /\ left # {} THEN Min(left) ELSE @]

\* removeOldestSegment, for all the segments one loop removes.  gone is the
\* history of the records that SamplesDropped counts.
removeOldest(bb, S, reason) ==
    LET left == Live(bb) \ S
    IN  [bb EXCEPT
           !.segments = Without(@, S),
           !.BytesUsed = @ - SizeOf(bb, S),
           !.SamplesDropped =
                IF reason = "" THEN @
                ELSE [@ EXCEPT ![reason] = bb.SamplesDropped[reason] + UnackedIn(bb, S)],
           !.gone = IF reason = "" THEN @
                    ELSE @ \cup UNION {{Recs(bb, i)[j] : j \in UnackedFrom(bb, i)} : i \in S},
           !.nextReadSeg = IF @ \in S /\ left # {} THEN Min(left) ELSE @,
           !.nextReadOff = IF bb.nextReadSeg \in S THEN 0 ELSE @]

\* Mutant: the limit is compared one unit too late.
enforceMaxSizeLate(bb) ==
    removeOldest(bb,
        {i \in Live(bb) : \E k \in Live(bb) :
            /\ k >= i
            /\ bb.BytesUsed - SizeOf(bb, {j \in Live(bb) : j < k}) > MaxSize + 1},
        "size_limit")

\* Segment i goes when the bytes left after every older one went still exceed
\* the limit.
enforceMaxSize(bb) ==
    removeOldest(bb,
        {i \in Live(bb) : \E k \in Live(bb) :
            /\ k >= i
            /\ bb.BytesUsed - SizeOf(bb, {j \in Live(bb) : j < k}) > MaxSize},
        "size_limit")

enforceMaxAge(bb) ==
    removeOldest(bb,
        {i \in Live(bb) : \A j \in Live(bb) :
            j <= i => now - bb.segments[j].lastWrite > MaxAge},
        "age_limit")

dropAckedSegments(bb) ==
    removeOldest(bb,
        {i \in Live(bb) :
            /\ \E k \in Live(bb) : k > i
            /\ \A j \in Live(bb) : j <= i => unackedRecords(bb, j) = 0},
        "")

\* The files that leave the directory when bb1 becomes bb2; os.Remove is best
\* effort, so some may stay behind.
Unlink(bb1, bb2) ==
    \E S \in SUBSET (Live(bb1) \ Live(bb2)) :
        /\ "unlink" \notin Faults => S = {}
        /\ leftover' = Merge(leftover, [i \in S |-> bb1.segments[i]])

-----------------------------------------------------------------------------
(* Append. *)

newSegment(bb) ==
    [bb EXCEPT !.segments = Merge([i \in {bb.nextSegID} |-> EmptySegment], @),
               !.nextSegID = @ + 1]

\* The segment that takes the next record exists.
Opened(bb) == IF Live(bb) = {} THEN newSegment(bb) ELSE bb

Active(bb) == Max(Live(bb))

WouldRoll(seg, n) == FileSize(seg) + Size[n] > SegSize
segmentAgedOut(seg) == seg.recordCount > 0 /\ now - seg.createdAt >= RollAge

MustRoll(bb, n) ==
    LET seg == bb.segments[Active(bb)] IN WouldRoll(seg, n) \/ segmentAgedOut(seg)

\* The listing with its active segment replaced.
WithActive(bb, seg) == [bb.segments EXCEPT ![Active(bb)] = seg]

Sync(bb) ==
    LET seg == bb.segments[Active(bb)]
    IN  [bb EXCEPT !.segments = WithActive(bb, [seg EXCEPT !.synced = Len(seg.recs)])]

Rolled(bb, n) == IF MustRoll(bb, n) THEN newSegment(Sync(bb)) ELSE bb

\* Mutant: a record appended behind torn bytes, where no reader finds it.
GrownBehindTorn(seg, n) ==
    [seg EXCEPT !.recs = IF seg.torn THEN @ ELSE Append(@, n), !.recordCount = @ + 1,
                !.lastWrite = now, !.modTime = now]

\* Segment.Append and touch: torn bytes are cut off, the record goes last.
Grown(seg, n) ==
    [seg EXCEPT !.recs = Append(@, n), !.torn = FALSE, !.recordCount = @ + 1,
                !.lastWrite = now, !.modTime = now]

SegmentAppend(bb, n) ==
    [bb EXCEPT !.segments = WithActive(bb, Grown(bb.segments[Active(bb)], n)),
               !.BytesUsed = @ + Size[n]]

\* A write that failed: at most one partial record stays behind.
TornAppend(bb, t) ==
    LET seg == bb.segments[Active(bb)]
    IN  [bb EXCEPT !.segments = WithActive(bb, [seg EXCEPT !.torn = t, !.modTime = now])]

Trimmed(bb) == enforceMaxAge(enforceMaxSize(bb))

AppendRecord ==
    LET n  == written + 1
        b1 == Opened(b)
        b2 == SegmentAppend(Rolled(b1, n), n)
    IN  /\ up /\ written < MaxRecs
        /\ b' = [Trimmed(b2) EXCEPT !.BufferFull = FALSE]
        /\ Unlink(b2, b')
        /\ written' = n
        /\ reported' = reported \cup b'.gone
        /\ ackedPast' = IF MustRoll(b1, n) THEN {} ELSE ackedPast
        /\ UNCHANGED <<up, acked, inflight, bad, now, consumed, atRisk>>

\* What an Append that returns an error leaves: no segment file, no sync, or
\* no complete record; each with whether a segment was synced on the way.
FailedAppends(n) ==
    LET b1 == Opened(b)
        b2 == Rolled(b1, n)
        roll == MustRoll(b1, n)
        skipID(bb) == [bb EXCEPT !.nextSegID = @ + 1]
    IN  (IF Live(b) = {} THEN {<<skipID(b), FALSE>>} ELSE {})
        \cup (IF roll THEN {<<b1, FALSE>>, <<skipID(Sync(b1)), TRUE>>} ELSE {})
        \cup {<<TornAppend(b2, t), roll>> : t \in BOOLEAN}

\* handleWriteError raises BufferFull for ENOSPC and for no other error.
AppendError ==
    /\ up /\ "io" \in Faults /\ written < MaxRecs
    /\ b.nextSegID <= MaxSegID
    /\ \E f \in FailedAppends(written + 1), enospc \in BOOLEAN :
          /\ b' = [f[1] EXCEPT !.BufferFull = @ \/ enospc]
          /\ ackedPast' = IF f[2] THEN {} ELSE ackedPast
    /\ UNCHANGED <<up, leftover, acked, inflight, bad, now, history>>

-----------------------------------------------------------------------------
(* Next, the AckFunc and Rewind. *)

\* Positions the cursor has not reached.
Ahead(bb) ==
    UNION {{<<i, j>> : j \in {k \in DOMAIN Recs(bb, i) :
                Beyond(i, k, bb.nextReadSeg, bb.nextReadOff)}} : i \in Live(bb)}
RecordAt(bb, p) == Recs(bb, p[1])[p[2]]
Good(bb) == {p \in Ahead(bb) : RecordAt(bb, p) \notin bad}

\* Next returns the first record with a sound CRC, and counts the ones before
\* it as corrupt.
NextRecord ==
    /\ up /\ inflight.n = 0
    /\ \E p \in Good(b) :
         /\ \A q \in Good(b) : ~Beyond(p[1], p[2], q[1], q[2])
         /\ b' = [b EXCEPT !.nextReadSeg = p[1], !.nextReadOff = p[2],
                           !.skipped = @ \cup {RecordAt(b, q) : q \in
                                {r \in Ahead(b) : Beyond(p[1], p[2], r[1], r[2])}}]
         /\ inflight' = [n |-> RecordAt(b, p), seg |-> p[1], off |-> p[2]]
    /\ reported' = reported \cup b'.skipped
    /\ UNCHANGED <<up, leftover, acked, ackedPast, bad, now, written, consumed, atRisk>>

\* Next finds nothing: the cursor stops at the end of the active segment.
NextEOF ==
    /\ up /\ inflight.n = 0 /\ Good(b) = {} /\ Live(b) # {}
    /\ b' = [b EXCEPT !.nextReadSeg = Active(b),
                      !.nextReadOff = Len(Recs(b, Active(b))),
                      !.skipped = @ \cup {RecordAt(b, q) : q \in Ahead(b)}]
    /\ reported' = reported \cup b'.skipped
    /\ UNCHANGED <<up, leftover, acked, ackedPast, inflight, bad, now,
                   written, consumed, atRisk>>

NoRecord == [n |-> 0, seg |-> 0, off |-> 0]

Checkpoint(s, o) == [have |-> TRUE, seg |-> s, off |-> o]
NoCheckpoint == [have |-> FALSE, seg |-> 0, off |-> 0]

\* saveAckedPosition: written to a temporary file and renamed, not synced.
saveAckedPosition(s, o) ==
    acked' = Checkpoint(s, o) /\ ackedPast' = ackedPast \cup {acked}

\* The AckFunc of the record in flight.  A save that fails leaves the file as
\* it was; a crash before the rename is this step followed by Crash.
Ack ==
    /\ up /\ inflight.n # 0
    /\ LET b1 == [b EXCEPT !.ackedSegID = inflight.seg, !.ackedOff = inflight.off]
       IN  b' = dropAckedSegments(b1) /\ Unlink(b1, b')
    /\ \/ saveAckedPosition(inflight.seg, inflight.off)
       \/ UNCHANGED <<acked, ackedPast>>
    /\ inflight' = NoRecord
    /\ consumed' = consumed \cup {inflight.n}
    /\ UNCHANGED <<up, bad, now, written, reported, atRisk>>

\* Mutant: the cursor at the start of the acked segment.
findAckedSegment(bb) ==
    [bb EXCEPT !.nextReadSeg = IF bb.ackedSegID \in Live(bb) THEN bb.ackedSegID
                               ELSE IF Live(bb) = {} THEN 0 ELSE Min(Live(bb)),
               !.nextReadOff = 0]

\* The cursor just after the acked position.
findSegmentAfterAcked(bb) ==
    LET from == {i \in Live(bb) : i >= bb.ackedSegID}
        seg  == IF Live(bb) = {} THEN 0
                ELSE IF from = {} THEN Min(Live(bb)) ELSE Min(from)
    IN  [bb EXCEPT !.nextReadSeg = seg,
                   !.nextReadOff = IF seg \in Live(bb) /\ seg = bb.ackedSegID
                                   THEN bb.ackedOff ELSE 0]

Rewind ==
    /\ up /\ inflight.n # 0
    /\ b' = findSegmentAfterAcked(b)
    /\ inflight' = NoRecord
    /\ UNCHANGED <<up, leftover, acked, ackedPast, bad, now, history>>

-----------------------------------------------------------------------------
(* Stopping and starting. *)

\* The struct of a process that opened the files segs.
Fresh(segs, next, s, o) ==
    [segments |-> segs, nextSegID |-> next, nextReadSeg |-> 0, nextReadOff |-> 0,
     ackedSegID |-> s, ackedOff |-> o, BytesUsed |-> 0,
     SamplesDropped |-> [size_limit |-> 0, age_limit |-> 0],
     BufferFull |-> FALSE, gone |-> {}, skipped |-> {}]

\* The process is gone and its files stay.  nextSegID is kept as the bound of
\* the IDs in use; Open computes its own.
Stop(segs, next) ==
    up' = FALSE /\ b' = Fresh(segs, next, 0, 0) /\ inflight' = NoRecord

\* Close: the checkpoint is saved, or the save fails.
Close ==
    /\ up /\ Stop(b.segments, b.nextSegID)
    /\ saveAckedPosition(b.ackedSegID, b.ackedOff) \/ UNCHANGED <<acked, ackedPast>>
    /\ UNCHANGED <<leftover, bad, now, history>>

\* The process is killed between two operations.
Crash ==
    /\ up /\ Stop(b.segments, b.nextSegID)
    /\ UNCHANGED <<leftover, acked, ackedPast, bad, now, history>>

\* The process is killed inside Append, after the write and before the trim.
CrashInAppend ==
    LET n  == written + 1
        b2 == SegmentAppend(Rolled(Opened(b), n), n)
    IN  /\ up /\ written < MaxRecs
        /\ Stop(b2.segments, b2.nextSegID)
        /\ written' = n
        /\ ackedPast' = IF MustRoll(Opened(b), n) THEN {} ELSE ackedPast
        /\ UNCHANGED <<leftover, acked, bad, now, consumed, reported, atRisk>>

\* The power fails.  Only a roll syncs, so the active segment keeps some prefix
\* of what was not synced, or its file is gone; .acked holds its last content,
\* one it had since the last sync, or a short file.
PowerLoss ==
    /\ "power" \in Faults /\ Live(b) # {}
    /\ LET i == Active(b)
           seg == b.segments[i]
       IN  /\ \E k \in seg.synced..Len(seg.recs), t \in BOOLEAN, gone \in BOOLEAN :
                Stop(IF gone /\ seg.synced = 0 THEN Without(b.segments, {i})
                     ELSE WithActive(b, [seg EXCEPT !.recs = SubSeq(@, 1, k),
                                                    !.torn = t, !.synced = k]),
                     b.nextSegID)
           /\ atRisk' = atRisk \cup {seg.recs[j] : j \in (seg.synced + 1)..Len(seg.recs)}
    /\ acked' \in {acked, NoCheckpoint} \cup ackedPast
    /\ ackedPast' = {}
    /\ UNCHANGED <<leftover, bad, now, written, consumed, reported>>

\* openSegment: the walk starts at keep and cuts a torn tail.
openSegment(seg, keep) ==
    [seg EXCEPT !.torn = FALSE, !.recordCount = Len(seg.recs) - keep,
                !.createdAt = seg.modTime, !.lastWrite = seg.modTime,
                !.modTime = IF seg.torn THEN now ELSE @]

Keep(segs, i) ==
    IF i = acked.seg THEN Min({acked.off, Len(segs[i].recs)}) ELSE 0

Loaded ==
    LET segs == Merge(b.segments, leftover)
    IN  [i \in DOMAIN segs |-> openSegment(segs[i], Keep(segs, i))]

\* New segments are numbered above the files and above the checkpoint.
NextID(S) ==
    LET above == IF S = {} THEN 0 ELSE Max(S) + 1
    IN  IF acked.have /\ acked.seg >= above THEN acked.seg + 1 ELSE above

\* Mutant: the checkpoint is used as it was saved.
SettledAsSaved(segs) == [seg |-> acked.seg, off |-> acked.off]

\* The checkpoint, moved back when it points past the files or past the end of
\* its own segment.
Settled(segs) ==
    LET S == DOMAIN segs
    IN  CASE S = {} -> [seg |-> 0, off |-> 0]
          [] S # {} /\ acked.seg > Max(S) -> [seg |-> Min(S), off |-> 0]
          [] OTHER -> [seg |-> acked.seg,
                       off |-> IF acked.seg \in S
                               THEN Min({acked.off, Len(segs[acked.seg].recs)})
                               ELSE acked.off]

recalculateStats(bb) == [bb EXCEPT !.BytesUsed = SizeOf(bb, Live(bb))]

Open ==
    LET pos == Settled(Loaded)
        b1  == recalculateStats(Fresh(Loaded, NextID(DOMAIN Loaded), pos.seg, pos.off))
        b2  == enforceMaxSize(enforceMaxAge(dropAckedSegments(b1)))
    IN  /\ ~up /\ up' = TRUE
        /\ b' = findSegmentAfterAcked(b2)
        /\ \E S \in SUBSET (Live(b1) \ Live(b2)) :
              /\ "unlink" \notin Faults => S = {}
              /\ leftover' = [i \in S |-> b1.segments[i]]
        /\ IF pos = [seg |-> acked.seg, off |-> acked.off]
           THEN UNCHANGED <<acked, ackedPast>>
           ELSE \/ saveAckedPosition(pos.seg, pos.off)
                \/ "io" \in Faults /\ acked' = NoCheckpoint /\ ackedPast' = ackedPast \cup {acked}
        /\ reported' = reported \cup b'.gone
        /\ UNCHANGED <<inflight, bad, now, written, consumed, atRisk>>

\* Open gives up: neither the save of a moved checkpoint nor its removal works.
\* The torn tails are cut all the same.
OpenError ==
    /\ ~up /\ "io" \in Faults
    /\ Settled(Loaded) # [seg |-> acked.seg, off |-> acked.off]
    /\ b' = Fresh([i \in DOMAIN b.segments |-> [b.segments[i] EXCEPT
                !.torn = FALSE,
                !.modTime = IF b.segments[i].torn THEN now ELSE @]], b.nextSegID, 0, 0)
    /\ UNCHANGED <<up, leftover, acked, ackedPast, inflight, bad, now, history>>

-----------------------------------------------------------------------------
(* The environment. *)

\* A stored payload decays: its CRC no longer matches.
BitRot ==
    /\ "rot" \in Faults
    /\ \E n \in RecordsOf(b) \ bad : bad' = bad \cup {n}
    /\ UNCHANGED <<up, b, leftover, acked, ackedPast, inflight, now, history>>

Tick ==
    /\ now < MaxNow /\ now' = now + 1
    /\ UNCHANGED <<up, b, leftover, acked, ackedPast, inflight, bad, history>>

Init ==
    /\ up = FALSE
    /\ b = Fresh([i \in {} |-> EmptySegment], 0, 0, 0)
    /\ leftover = [i \in {} |-> EmptySegment]
    /\ acked = NoCheckpoint /\ ackedPast = {}
    /\ inflight = NoRecord
    /\ bad = {} /\ now = 0
    /\ written = 0 /\ consumed = {} /\ reported = {} /\ atRisk = {}

Next ==
    \/ AppendRecord \/ AppendError
    \/ NextRecord \/ NextEOF \/ Ack \/ Rewind
    \/ Close \/ Crash \/ CrashInAppend \/ PowerLoss
    \/ Open \/ OpenError
    \/ BitRot \/ Tick

Spec == Init /\ [][Next]_vars
-----------------------------------------------------------------------------
(* Properties. *)

Segments ==
    [recs : Seq(Nat \ {0}), torn : BOOLEAN, recordCount : Nat, synced : Nat,
     createdAt : Nat, lastWrite : Nat, modTime : Nat]
IsListing(f) == DOMAIN f \subseteq Nat /\ \A i \in DOMAIN f : f[i] \in Segments
IsPosition(p) == p.seg \in Nat /\ p.off \in Nat

\* The struct has its fields, whatever they hold.
IsBuffer(bb) ==
    bb = [segments |-> bb.segments, nextSegID |-> bb.nextSegID,
          nextReadSeg |-> bb.nextReadSeg, nextReadOff |-> bb.nextReadOff,
          ackedSegID |-> bb.ackedSegID, ackedOff |-> bb.ackedOff,
          BytesUsed |-> bb.BytesUsed, SamplesDropped |-> bb.SamplesDropped,
          BufferFull |-> bb.BufferFull, gone |-> bb.gone, skipped |-> bb.skipped]

\* The state keeps its type, offsets and record counts never below 0.  BytesUsed
\* and SamplesDropped are sums, and WithinBudget and DropCountExact say which.
TypeOK ==
    /\ up \in BOOLEAN
    /\ IsBuffer(b) /\ IsListing(b.segments) /\ IsListing(leftover)
    /\ b.nextSegID \in Nat /\ b.nextReadSeg \in Nat /\ b.nextReadOff \in Nat
    /\ b.ackedSegID \in Nat /\ b.ackedOff \in Nat
    /\ b.BufferFull \in BOOLEAN
    /\ IsPosition(acked) /\ acked.have \in BOOLEAN
    /\ \A c \in ackedPast : IsPosition(c) /\ c.have \in BOOLEAN
    /\ IsPosition(inflight) /\ inflight.n \in Nat
    /\ now \in Nat /\ written \in Nat

\* The records a consumer will still be offered: in a running process those
\* beyond the acked position, in a stopped one those the next Open will queue.
Queued ==
    LET segs == IF up THEN b.segments ELSE Merge(b.segments, leftover)
        pos  == IF up THEN [seg |-> b.ackedSegID, off |-> b.ackedOff] ELSE Settled(segs)
    IN  UNION {{segs[i].recs[j] : j \in {k \in DOMAIN segs[i].recs :
                    Beyond(i, k, pos.seg, pos.off)}} : i \in DOMAIN segs}

\* No record disappears silently.  Whatever the order of appends, acks, failed
\* writes, kills, restarts and retention, a record that was written is still
\* queued, was acked, or was counted as dropped or corrupt; an operating system
\* crash may take the records not yet synced, and no others.
NoSilentLoss ==
    \A n \in 1..written : n \in Queued \cup consumed \cup reported \cup atRisk

\* The read cursor strands nothing: a record beyond the acked position that the
\* cursor has passed is the one in flight or was counted as corrupt.  Next would
\* otherwise never offer it again in this process.
NothingStranded ==
    up => \A i \in Live(b) : \A j \in UnackedFrom(b, i) :
            \/ Beyond(i, j, b.nextReadSeg, b.nextReadOff)
            \/ inflight.n # 0 /\ i = inflight.seg /\ j = inflight.off
            \/ Recs(b, i)[j] \in b.skipped

\* SamplesDropped is exact: it is the number of unacked records that retention
\* removed since Open.
DropCountExact ==
    b.SamplesDropped.size_limit + b.SamplesDropped.age_limit = Cardinality(b.gone)

\* The byte budget: BytesUsed, kept up to date one record and one segment at a
\* time, is the size of the live segments, and no operation leaves it above
\* MaxSize.
WithinBudget ==
    up => b.BytesUsed = SizeOf(b, Live(b)) /\ b.BytesUsed <= MaxSize

\* Next hands out the oldest record that is unacked and sound.
OldestFirst ==
    [][inflight.n = 0 /\ inflight'.n # 0 =>
        /\ inflight'.n \in Queued
        /\ \A n \in Queued : n < inflight'.n => n \in bad]_vars

\* In a running process the acked position never moves back, so no delivered
\* record is offered again before a restart.
AckNeverMovesBack ==
    [][up /\ up' => ~Beyond(b.ackedSegID, b.ackedOff, b'.ackedSegID, b'.ackedOff)]_vars
-----------------------------------------------------------------------------
(* The inductive invariant behind NoSilentLoss and NothingStranded.  Its parts *)
(* take the struct and the set D of the records accounted for as arguments,    *)
(* because an operation passes through several structs.                        *)

Done == consumed \cup reported \cup atRisk

IsCheckpoint(c) == IsPosition(c) /\ c.have \in BOOLEAN /\ (~c.have => c = NoCheckpoint)

\* Every record up to position (s, o) is accounted for.
UpTo(segs, s, o, D) ==
    \A i \in DOMAIN segs : \A j \in DOMAIN segs[i].recs :
        Beyond(i, j, s, o) \/ segs[i].recs[j] \in D

\* A position a checkpoint may have: what is appended from now on lies beyond it.
Fits(segs, next, s, o) ==
    /\ s < next \/ (s = 0 /\ o = 0)
    /\ DOMAIN segs # {} => \E i \in DOMAIN segs : i >= s
    /\ s \in DOMAIN segs => o <= Len(segs[s].recs)

\* The files alone: nothing written is missing, and no checkpoint the disk holds
\* or may fall back to passes a record that is neither accounted for nor, for
\* the ones to fall back to, still unsynced.
FilesOK(segs, D, ck, past, w) ==
    /\ IsListing(segs)
    /\ \A i \in DOMAIN segs : segs[i].synced <= Len(segs[i].recs)
    /\ UpTo(segs, ck.seg, ck.off, D)
    /\ \A c \in past : \A i \in DOMAIN segs : \A j \in DOMAIN segs[i].recs :
          \/ Beyond(i, j, c.seg, c.off)
          \/ segs[i].recs[j] \in D
          \/ j > segs[i].synced /\ \A k \in DOMAIN segs : k <= i
    /\ \A n \in 1..w : n \in D \/ \E i \in DOMAIN segs :
                                    \E j \in DOMAIN segs[i].recs : segs[i].recs[j] = n

\* The files os.Remove left behind are older than the live ones and hold only
\* records accounted for.
LeftoverOK(segs, left, D) ==
    /\ IsListing(left)
    /\ \A l \in DOMAIN left : \A i \in DOMAIN segs : l < i
    /\ \A i \in DOMAIN left : \A j \in DOMAIN left[i].recs : left[i].recs[j] \in D
    /\ \A i \in DOMAIN left : left[i].synced <= Len(left[i].recs)

Bounded(segs, left, m) == m \in Nat /\ \A i \in DOMAIN segs \cup DOMAIN left : i < m

\* Of the unacked records the cursor has passed only the one in flight and those
\* counted as corrupt, and no acked record is ahead of it.
CursorOK(bb, fl) ==
    /\ Fits(bb.segments, bb.nextSegID, bb.nextReadSeg, bb.nextReadOff)
    /\ \A i \in Live(bb) : \A j \in DOMAIN Recs(bb, i) :
          IF Beyond(i, j, bb.nextReadSeg, bb.nextReadOff)
          THEN Beyond(i, j, bb.ackedSegID, bb.ackedOff)
          ELSE \/ ~Beyond(i, j, bb.ackedSegID, bb.ackedOff)
               \/ fl.n # 0 /\ i = fl.seg /\ j = fl.off
               \/ Recs(bb, i)[j] \in bb.skipped

\* The record in flight is where its AckFunc says, unless retention took it; the
\* acked position is not past it, and the cursor is.
InflightOK(bb, fl) ==
    fl.n # 0 =>
        /\ Fits(bb.segments, bb.nextSegID, fl.seg, fl.off)
        /\ ~Beyond(bb.ackedSegID, bb.ackedOff, fl.seg, fl.off)
        /\ \A i \in Live(bb) : \A j \in DOMAIN Recs(bb, i) :
              \/ Beyond(i, j, fl.seg, fl.off)
              \/ /\ ~Beyond(i, j, bb.nextReadSeg, bb.nextReadOff)
                 /\ i = fl.seg /\ j = fl.off => Recs(bb, i)[j] = fl.n

\* The struct, but for the cursor.
StructOK(bb, D, ck) ==
    /\ IsBuffer(bb) /\ \A i \in Live(bb) : i < bb.nextSegID
    /\ bb.nextSegID \in Nat /\ bb.nextReadSeg \in Nat /\ bb.nextReadOff \in Nat
    /\ bb.ackedSegID \in Nat /\ bb.ackedOff \in Nat /\ bb.BufferFull \in BOOLEAN
    /\ Fits(bb.segments, bb.nextSegID, ck.seg, ck.off)
    /\ Fits(bb.segments, bb.nextSegID, bb.ackedSegID, bb.ackedOff)
    /\ UpTo(bb.segments, bb.ackedSegID, bb.ackedOff, D)
    /\ \A i \in Live(bb) : i > bb.ackedSegID =>
                               bb.segments[i].recordCount = Len(Recs(bb, i))
    /\ bb.skipped \subseteq D

\* The struct of a running process.
ProcessOK(bb, D, ck, fl) == StructOK(bb, D, ck) /\ CursorOK(bb, fl) /\ InflightOK(bb, fl)

IndInv ==
    /\ TypeOK /\ IsCheckpoint(acked) /\ \A c \in ackedPast : IsCheckpoint(c)
    /\ FilesOK(b.segments, Done, acked, ackedPast, written)
    /\ LeftoverOK(b.segments, leftover, Done)
    /\ Bounded(b.segments, leftover, b.nextSegID)
    /\ IF up THEN ProcessOK(b, Done, acked, inflight) ELSE inflight = NoRecord

\* The files hold the records 1 to w at most, in the order they were written.
Ordered(segs, w) ==
    \A i \in DOMAIN segs : \A j \in DOMAIN segs[i].recs :
        /\ segs[i].recs[j] \in 1..w
        /\ \A k \in DOMAIN segs : \A l \in DOMAIN segs[k].recs :
              Beyond(i, j, k, l) => segs[i].recs[j] > segs[k].recs[l]

\* Where the record in flight was, it parts the older records from the newer ones,
\* also when retention has taken it.
InflightParts(segs, fl, w) ==
    fl.n # 0 =>
        /\ fl.n \in 1..w
        /\ \A i \in DOMAIN segs : \A j \in DOMAIN segs[i].recs :
              Beyond(i, j, fl.seg, fl.off) <=> segs[i].recs[j] > fl.n

\* What the order of the queue takes beside IndInv: positions are in the order of
\* the appends, what the struct counts is reported and what it skips is corrupt,
\* and the checkpoint is never ahead of the acked position.
QueueInv ==
    /\ IndInv
    /\ written <= MaxRecs /\ atRisk \subseteq 1..written
    /\ Ordered(Merge(b.segments, leftover), written)
    /\ InflightParts(b.segments, inflight, written)
    /\ b.gone \subseteq reported /\ b.skipped \subseteq reported \cap bad
    /\ up => ~Beyond(acked.seg, acked.off, b.ackedSegID, b.ackedOff)

-----------------------------------------------------------------------------
(* The buffer implements the at-least-once queue of RecordQueue: the records *)
(* it owes are the ones that Queued computes from segments and checkpoint.   *)

Promise == INSTANCE RecordQueue WITH
               owed <- Queued, offered <- inflight.n, unreadable <- bad

\* Every step of the buffer, of its failures and of its restarts is a step of the
\* at-least-once queue, or changes nothing the queue shows.
KeepsPromise == Promise!Spec
=============================================================================
