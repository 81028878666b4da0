---------------------------- MODULE BufferProofs ----------------------------
(***************************************************************************)
(* Open keeps IndInv, and with that every step does.  The theorems follow: *)
(* nothing written is lost silently, the cursor strands nothing, and the   *)
(* acked position of a running process never moves back.                   *)
(***************************************************************************)
EXTENDS BufferLemmas

-----------------------------------------------------------------------------
(* Open. *)

\* openSegment keeps the records and counts those after the checkpoint.
LEMMA OpenSegment ==
    ASSUME NEW seg \in Segments, NEW keep \in Nat, keep <= Len(seg.recs), now \in Nat
    PROVE  /\ openSegment(seg, keep) \in Segments
           /\ openSegment(seg, keep).recs = seg.recs
           /\ openSegment(seg, keep).synced = seg.synced
           /\ openSegment(seg, keep).recordCount = Len(seg.recs) - keep
  <1>1. Len(seg.recs) - keep \in Nat
    BY DEF Segments
  <1> DEFINE n == Len(seg.recs) - keep
             t == IF seg.torn THEN now ELSE seg.modTime
  <1>2. n \in Nat /\ t \in Nat
    BY <1>1, Zenon DEF Segments
  <1>3. openSegment(seg, keep) = [seg EXCEPT !.torn = FALSE, !.recordCount = n,
                !.createdAt = seg.modTime, !.lastWrite = seg.modTime, !.modTime = t]
    BY Zenon DEF openSegment
  <1> HIDE DEF n, t
  <1>4. /\ openSegment(seg, keep) \in Segments
        /\ openSegment(seg, keep).recs = seg.recs
        /\ openSegment(seg, keep).synced = seg.synced
        /\ openSegment(seg, keep).recordCount = n
    BY <1>2, <1>3, Zenon DEF Segments
  <1> QED
    BY <1>4, Zenon DEF n

\* The smaller of two numbers.
LEMMA MinOfTwo ==
    ASSUME NEW x \in Nat, NEW y \in Nat
    PROVE  Min({x, y}) \in Nat /\ Min({x, y}) <= y /\ Min({x, y}) <= x
           /\ (Min({x, y}) = x \/ Min({x, y}) = y)
  BY MinID

\* The files Open finds are those of the live segments and of the dropped ones
\* that os.Remove left, with the records they had.
LEMMA LoadedSegments ==
    ASSUME IndInv
    PROVE  /\ DOMAIN Loaded = DOMAIN b.segments \cup DOMAIN leftover
           /\ \A i \in DOMAIN Loaded :
                /\ Loaded[i] \in Segments
                /\ i # acked.seg => Loaded[i].recordCount = Len(Loaded[i].recs)
           /\ \A i \in DOMAIN b.segments : /\ Loaded[i].recs = b.segments[i].recs
                                           /\ Loaded[i].synced = b.segments[i].synced
           /\ \A i \in DOMAIN leftover : /\ Loaded[i].recs = leftover[i].recs
                                         /\ Loaded[i].synced = leftover[i].synced
  <1> DEFINE M == Merge(b.segments, leftover)
  <1>1. /\ IsListing(b.segments) /\ IsListing(leftover) /\ now \in Nat /\ IsPosition(acked)
        /\ \A l \in DOMAIN leftover : \A i \in DOMAIN b.segments : l < i
    BY Zenon DEF IndInv, TypeOK, LeftoverOK
  <1>2. DOMAIN b.segments \subseteq Nat /\ DOMAIN leftover \subseteq Nat
    BY <1>1, Zenon DEF IsListing
  <1>3. \A i \in DOMAIN leftover : i \notin DOMAIN b.segments
    BY <1>1, <1>2
  <1>4. /\ DOMAIN M = DOMAIN b.segments \cup DOMAIN leftover
        /\ \A i \in DOMAIN b.segments : M[i] = b.segments[i]
        /\ \A i \in DOMAIN leftover : M[i] = leftover[i]
    BY <1>3, Zenon DEF Merge
  <1>5. Loaded = [i \in DOMAIN M |-> openSegment(M[i], Keep(M, i))]
    BY Zenon DEF Loaded
  <1> HIDE DEF M
  <1>6. ASSUME NEW i \in DOMAIN M
        PROVE  /\ M[i] \in Segments /\ Keep(M, i) \in Nat /\ Keep(M, i) <= Len(M[i].recs)
               /\ i # acked.seg => Keep(M, i) = 0
    <2>1. M[i] \in Segments
      BY <1>1, <1>4, Zenon DEF IsListing
    <2>2. Len(M[i].recs) \in Nat /\ acked.off \in Nat
      BY <1>1, <2>1 DEF Segments, IsPosition
    <2> QED
      BY <2>1, <2>2, MinOfTwo DEF Keep
  <1>7. ASSUME NEW i \in DOMAIN M
        PROVE  /\ Loaded[i] \in Segments
               /\ Loaded[i].recs = M[i].recs /\ Loaded[i].synced = M[i].synced
               /\ i # acked.seg => Loaded[i].recordCount = Len(Loaded[i].recs)
    <2>1. Loaded[i] = openSegment(M[i], Keep(M, i))
      BY <1>5, Zenon
    <2>2. /\ Loaded[i] \in Segments /\ Loaded[i].recs = M[i].recs
          /\ Loaded[i].synced = M[i].synced
          /\ Loaded[i].recordCount = Len(M[i].recs) - Keep(M, i)
      BY <1>1, <1>6, <2>1, OpenSegment
    <2>3. Len(M[i].recs) \in Nat
      BY <1>6 DEF Segments
    <2> QED
      BY <1>6, <2>2, <2>3
  <1> QED
    BY <1>4, <1>5, <1>7, ZenonT(40)

\* Nothing that was written is missing from the files Open finds, and the
\* checkpoint passes no record that is not accounted for.
LEMMA LoadedFiles ==
    ASSUME IndInv
    PROVE  FilesOK(Loaded, Done, acked, ackedPast, written)
  <1> DEFINE L == Loaded
  <1>1. /\ FilesOK(b.segments, Done, acked, ackedPast, written)
        /\ LeftoverOK(b.segments, leftover, Done) /\ DOMAIN b.segments \subseteq Nat
        /\ DOMAIN leftover \subseteq Nat
    BY Zenon DEF IndInv, FilesOK, LeftoverOK, IsListing
  <1>2. /\ DOMAIN L = DOMAIN b.segments \cup DOMAIN leftover
        /\ \A i \in DOMAIN L : L[i] \in Segments
        /\ \A i \in DOMAIN b.segments : /\ L[i].recs = b.segments[i].recs
                                        /\ L[i].synced = b.segments[i].synced
        /\ \A i \in DOMAIN leftover : /\ L[i].recs = leftover[i].recs
                                      /\ L[i].synced = leftover[i].synced
    BY LoadedSegments, Zenon
  <1> HIDE DEF L
  <1>3. IsListing(L) /\ \A i \in DOMAIN L : L[i].synced <= Len(L[i].recs)
    BY <1>1, <1>2, Zenon DEF IsListing, FilesOK, LeftoverOK
  <1>4. UpTo(L, acked.seg, acked.off, Done)
    BY <1>1, <1>2, Zenon DEF FilesOK, LeftoverOK, UpTo
  <1>5. ASSUME NEW c \in ackedPast, NEW i \in DOMAIN L, NEW j \in DOMAIN L[i].recs
        PROVE  \/ Beyond(i, j, c.seg, c.off)
               \/ L[i].recs[j] \in Done
               \/ j > L[i].synced /\ \A k \in DOMAIN L : k <= i
    <2>1. CASE i \in DOMAIN leftover
      BY <1>1, <1>2, <2>1, Zenon DEF LeftoverOK
    <2>2. CASE i \in DOMAIN b.segments
      <3>1. \A k \in DOMAIN leftover : k <= i
        BY <1>1, <2>2 DEF LeftoverOK
      <3> QED
        BY <1>1, <1>2, <2>2, <3>1, Zenon DEF FilesOK
    <2> QED
      BY <1>2, <2>1, <2>2, Zenon
  <1>6. \A n \in 1..written : n \in Done \/ \E i \in DOMAIN L :
                                \E j \in DOMAIN L[i].recs : L[i].recs[j] = n
    BY <1>1, <1>2 DEF FilesOK
  <1>7. FilesOK(L, Done, acked, ackedPast, written)
    BY <1>3, <1>4, <1>5, <1>6, Zenon DEF FilesOK
  <1> QED
    BY <1>7, Zenon DEF L

\* What settling the checkpoint needs of the files: sequences of records, counted
\* from the start in every segment but the checkpoint's own.
Settleable(L) ==
    /\ DOMAIN L \subseteq Nat /\ UpTo(L, acked.seg, acked.off, Done)
    /\ acked.seg \in Nat /\ acked.off \in Nat
    /\ \A i \in DOMAIN L : Len(L[i].recs) \in Nat /\ DOMAIN L[i].recs = 1..Len(L[i].recs)
    /\ \A i \in DOMAIN L : i # acked.seg => L[i].recordCount = Len(L[i].recs)
    /\ DOMAIN L # {} =>
         /\ Max(DOMAIN L) \in DOMAIN L /\ \A i \in DOMAIN L : i <= Max(DOMAIN L)
         /\ Min(DOMAIN L) \in DOMAIN L /\ \A i \in DOMAIN L : Min(DOMAIN L) <= i

\* The position Open settles on is one a checkpoint may have: new segments get
\* IDs above it, and it passes no record that is not accounted for.
LEMMA SettledFits ==
    ASSUME NEW L, Settleable(L), NEW m, m = NextID(DOMAIN L),
           NEW s, s = Settled(L).seg, NEW o, o = Settled(L).off
    PROVE  /\ m \in Nat /\ s \in Nat /\ o \in Nat
           /\ \A i \in DOMAIN L : i < m
           /\ UpTo(L, s, o, Done) /\ Fits(L, m, s, o)
           /\ \A i \in DOMAIN L : i > s => L[i].recordCount = Len(L[i].recs)
  <1> DEFINE S == DOMAIN L
  <1>1. /\ S \subseteq Nat /\ UpTo(L, acked.seg, acked.off, Done)
        /\ acked.seg \in Nat /\ acked.off \in Nat
    BY Zenon DEF Settleable
  <1>2. /\ \A i \in S : Len(L[i].recs) \in Nat /\ DOMAIN L[i].recs = 1..Len(L[i].recs)
        /\ \A i \in S : i # acked.seg => L[i].recordCount = Len(L[i].recs)
    BY Zenon DEF Settleable
  <1>3. S # {} => /\ Max(S) \in S /\ \A i \in S : i <= Max(S)
                  /\ Min(S) \in S /\ \A i \in S : Min(S) <= i
    BY Zenon DEF Settleable
  <1>4. m \in Nat /\ (\A i \in S : i < m) /\ (S # {} => Max(S) < m)
    <2> DEFINE above == IF S = {} THEN 0 ELSE Max(S) + 1
    <2>1. (m = acked.seg + 1 /\ acked.seg >= above) \/ m = above
      BY Zenon DEF NextID
    <2> HIDE DEF S
    <2>2. S # {} => Max(S) \in Nat
      BY <1>1, <1>3, ZenonT(40)
    <2>3. above \in Nat /\ (\A i \in S : i < above) /\ (S # {} => Max(S) < above)
      BY <1>1, <1>3, <2>2
    <2> HIDE DEF above
    <2> QED
      BY <1>1, <2>1, <2>2, <2>3
  <1>5. CASE S = {}
    <2>1. s = 0 /\ o = 0
      BY <1>5, Zenon DEF Settled
    <2> QED
      BY <1>4, <1>5, <2>1 DEF UpTo, Fits
  <1>6. CASE S # {} /\ acked.seg > Max(S)
    <2>1. s = Min(S) /\ o = 0
      BY <1>6, Zenon DEF Settled
    <2>2. UpTo(L, s, o, Done)
      <3> SUFFICES ASSUME NEW i \in S, NEW j \in DOMAIN L[i].recs PROVE Beyond(i, j, s, o)
        BY Zenon DEF UpTo
      <3>1. i \in Nat /\ s \in Nat /\ s <= i /\ j \in Nat /\ j > 0
        BY <1>1, <1>2, <1>3, <2>1
      <3> QED
        BY <2>1, <3>1 DEF Beyond
    <2>3. s \in S /\ s < m
      BY <1>3, <1>4, <1>6, <2>1, Zenon
    <2>4. Fits(L, m, s, o)
      BY <1>1, <1>2, <2>1, <2>3 DEF Fits
    <2>5. \A i \in S : i # acked.seg
      BY <1>1, <1>3, <1>6
    <2> QED
      BY <1>1, <1>2, <1>4, <2>1, <2>2, <2>3, <2>4, <2>5
  <1>7. CASE S # {} /\ ~(acked.seg > Max(S))
    <2> DEFINE n == Len(L[acked.seg].recs)
    <2>1. s = acked.seg /\ o = IF acked.seg \in S THEN Min({acked.off, n}) ELSE acked.off
      BY <1>7, Zenon DEF Settled
    <2>2. /\ o \in Nat /\ o <= acked.off /\ s \in Nat
          /\ acked.seg \in S => o <= n /\ (o = acked.off \/ o = n) /\ n \in Nat
      <3>1. CASE acked.seg \in S
        <4>1. n \in Nat
          BY <1>2, <3>1, Zenon
        <4>2. o = Min({acked.off, n})
          BY <2>1, <3>1, Zenon
        <4> HIDE DEF n
        <4>3. o \in Nat /\ o <= acked.off /\ o <= n /\ (o = acked.off \/ o = n)
          BY <1>1, <4>1, <4>2, MinOfTwo
        <4> QED
          BY <1>1, <2>1, <4>1, <4>3, Zenon
      <3>2. CASE acked.seg \notin S
        BY <1>1, <2>1, <3>2
      <3> QED
        BY <3>1, <3>2, Zenon
    <2>3. UpTo(L, s, o, Done)
      <3> SUFFICES ASSUME NEW i \in S, NEW j \in DOMAIN L[i].recs
                   PROVE  Beyond(i, j, s, o) \/ L[i].recs[j] \in Done
        BY Zenon DEF UpTo
      <3>1. Beyond(i, j, acked.seg, acked.off) \/ L[i].recs[j] \in Done
        BY <1>1, Zenon DEF UpTo
      <3>2. i \in Nat /\ j \in Nat /\ j <= Len(L[i].recs)
        BY <1>1, <1>2
      <3>3. Beyond(i, j, acked.seg, acked.off) => Beyond(i, j, s, o)
        BY <1>1, <2>1, <2>2, <3>2 DEF Beyond
      <3> QED
        BY <3>1, <3>3, Zenon
    <2>4. Fits(L, m, s, o)
      BY <1>1, <1>3, <1>4, <1>7, <2>1, <2>2, SMTT(40) DEF Fits
    <2>5. \A i \in S : i > s => L[i].recordCount = Len(L[i].recs)
      BY <1>1, <1>2, <2>1
    <2> QED
      BY <1>4, <2>2, <2>3, <2>4, <2>5, Zenon
  <1> QED
    BY <1>5, <1>6, <1>7, Zenon

\* The same for the files that Open loads.
LEMMA SettledPosition ==
    ASSUME IndInv, NEW L, L = Loaded, NEW m, m = NextID(DOMAIN L),
           NEW s, s = Settled(L).seg, NEW o, o = Settled(L).off
    PROVE  /\ m \in Nat /\ s \in Nat /\ o \in Nat
           /\ \A i \in DOMAIN L : i < m
           /\ UpTo(L, s, o, Done) /\ Fits(L, m, s, o)
           /\ \A i \in DOMAIN L : i > s => L[i].recordCount = Len(L[i].recs)
  <1>1. /\ DOMAIN L \subseteq Nat /\ UpTo(L, acked.seg, acked.off, Done)
        /\ acked.seg \in Nat /\ acked.off \in Nat
    BY LoadedFiles, Zenon DEF FilesOK, IsListing, IndInv, TypeOK, IsPosition
  <1>2. /\ \A i \in DOMAIN L : Len(L[i].recs) \in Nat /\ DOMAIN L[i].recs = 1..Len(L[i].recs)
        /\ \A i \in DOMAIN L : i # acked.seg => L[i].recordCount = Len(L[i].recs)
    BY LoadedSegments DEF Segments
  <1>3. ASSUME DOMAIN L # {}
        PROVE  /\ Max(DOMAIN L) \in DOMAIN L /\ \A i \in DOMAIN L : i <= Max(DOMAIN L)
               /\ Min(DOMAIN L) \in DOMAIN L /\ \A i \in DOMAIN L : Min(DOMAIN L) <= i
    <2>1. PICK x \in Nat : \A i \in DOMAIN L : i < x
      BY LoadedSegments, Zenon DEF IndInv, Bounded
    <2> QED
      BY <1>1, <1>3, <2>1, MaxID, MinID, SMTT(40)
  <1>4. Settleable(L)
    BY <1>1, <1>2, <1>3, Zenon DEF Settleable
  <1> QED
    BY <1>4, SettledFits, SMTT(40)

\* The checkpoint at the very start suits any listing.
LEMMA StartFits ==
    ASSUME NEW segs, IsListing(segs), NEW m
    PROVE  Fits(segs, m, 0, 0) /\ \A D : UpTo(segs, 0, 0, D)
  <1>1. \A i \in DOMAIN segs : /\ i \in Nat /\ Len(segs[i].recs) \in Nat
                              /\ DOMAIN segs[i].recs = 1..Len(segs[i].recs)
    BY DEF IsListing, Segments
  <1> QED
    BY <1>1 DEF Fits, UpTo, Beyond

\* Before its retention the struct Open builds fits the files, and so does the
\* checkpoint it saves, leaves or removes.
LEMMA OpenBase ==
    ASSUME IndInv, Open,
           NEW b1, b1 = recalculateStats(Fresh(Loaded, NextID(DOMAIN Loaded),
                                               Settled(Loaded).seg, Settled(Loaded).off))
    PROVE  Base(b1, Done, acked', ackedPast', written) /\ Checkpoints'
  <1> DEFINE L == Loaded
             m == NextID(DOMAIN L)
             pos == Settled(L)
             s == pos.seg
             o == pos.off
  <1>1. /\ FilesOK(L, Done, acked, ackedPast, written) /\ IsListing(L)
        /\ Checkpoints
    BY LoadedFiles, Zenon DEF IndInv, Checkpoints, FilesOK
  <1>2. /\ m \in Nat /\ s \in Nat /\ o \in Nat
        /\ \A i \in DOMAIN L : i < m
        /\ UpTo(L, s, o, Done) /\ Fits(L, m, s, o)
        /\ \A i \in DOMAIN L : i > s => L[i].recordCount = Len(L[i].recs)
    BY SettledPosition, SMTT(40)
  <1>3. \/ acked' = acked /\ ackedPast' = ackedPast /\ pos = [seg |-> acked.seg, off |-> acked.off]
        \/ acked' = Checkpoint(s, o) /\ ackedPast' = ackedPast \cup {acked}
        \/ acked' = NoCheckpoint /\ ackedPast' = ackedPast \cup {acked}
    BY Zenon DEF Open, saveAckedPosition
  <1>4. b1 = recalculateStats(Fresh(L, m, s, o))
    BY Zenon
  <1> HIDE DEF L, m, s, o
  <1>5. /\ IsBuffer(b1) /\ b1.segments = L /\ b1.nextSegID = m
        /\ b1.ackedSegID = s /\ b1.ackedOff = o
        /\ b1.nextReadSeg = 0 /\ b1.nextReadOff = 0 /\ b1.BufferFull = FALSE
        /\ b1.gone = {} /\ b1.skipped = {}
    BY <1>4, ZenonT(40) DEF recalculateStats, Fresh, IsBuffer
  <1>6. \/ acked'.seg = s /\ acked'.off = o
        \/ acked'.seg = 0 /\ acked'.off = 0
    <2>1. CASE pos = [seg |-> acked.seg, off |-> acked.off] /\ acked' = acked
      BY <2>1 DEF s, o
    <2>2. CASE acked' = Checkpoint(s, o) \/ acked' = NoCheckpoint
      BY <2>2 DEF Checkpoint, NoCheckpoint
    <2> QED
      BY <1>3, <2>1, <2>2, Zenon
  <1>7. /\ Fits(L, m, acked'.seg, acked'.off) /\ UpTo(L, acked'.seg, acked'.off, Done)
        /\ IsPosition(acked')
    BY <1>1, <1>2, <1>6, StartFits DEF IsPosition
  <1>8. IsCheckpoint(acked')
    <2>1. CASE acked' = acked
      BY <1>1, <2>1, Zenon DEF Checkpoints
    <2>2. CASE acked' = Checkpoint(s, o)
      <3>1. acked'.have = TRUE
        BY <2>2, Zenon DEF Checkpoint
      <3>2. acked'.have \in BOOLEAN /\ acked'.have
        BY <3>1, Zenon
      <3> QED
        BY <1>7, <3>2, Zenon DEF IsCheckpoint
    <2>3. CASE acked' = NoCheckpoint
      <3>1. acked'.have = FALSE
        BY <2>3, Zenon DEF NoCheckpoint
      <3>2. acked'.have \in BOOLEAN
        BY <3>1, ZenonT(40)
      <3> QED
        BY <1>7, <2>3, <3>2, Zenon DEF IsCheckpoint
    <2> QED
      BY <1>3, <2>1, <2>2, <2>3, Zenon
  <1>9. Checkpoints'
    BY <1>1, <1>3, <1>8, ZenonT(40) DEF Checkpoints
  <1>10. FilesOK(L, Done, acked', ackedPast', written)
    BY <1>1, <1>3, <1>7 DEF FilesOK, UpTo
  <1>11. StructOK(b1, Done, acked')
    <2>1. b1.BufferFull \in BOOLEAN
      BY <1>5, ZenonT(40)
    <2>2. Live(b1) = DOMAIN L /\ \A i \in DOMAIN L : Recs(b1, i) = L[i].recs
      BY <1>5, Zenon DEF Live, Recs
    <2>3. b1.nextReadSeg \in Nat /\ b1.nextReadOff \in Nat
      BY <1>5
    <2>4. b1.nextSegID \in Nat /\ b1.ackedSegID \in Nat /\ b1.ackedOff \in Nat /\ b1.skipped \subseteq Done
      BY <1>2, <1>5, Zenon
    <2>5. Fits(b1.segments, b1.nextSegID, acked'.seg, acked'.off)
          /\ Fits(b1.segments, b1.nextSegID, b1.ackedSegID, b1.ackedOff)
          /\ UpTo(b1.segments, b1.ackedSegID, b1.ackedOff, Done)
      BY <1>2, <1>5, <1>7, Zenon
    <2>6. \A i \in Live(b1) : i < b1.nextSegID
                               /\ (i > b1.ackedSegID => b1.segments[i].recordCount = Len(Recs(b1, i)))
      BY <1>2, <1>5, <2>2
    <2> QED
      BY <1>5, <2>1, <2>3, <2>4, <2>5, <2>6, Zenon DEF StructOK
  <1> QED
    BY <1>5, <1>7, <1>9, <1>10, <1>11, SMTT(40) DEF Base

\* Open, with the settled checkpoint, retention and the first read position, keeps
\* IndInv.
LEMMA OpenInv ==
    ASSUME IndInv, Open
    PROVE  IndInv'
  <1> DEFINE b1 == recalculateStats(Fresh(Loaded, NextID(DOMAIN Loaded),
                                          Settled(Loaded).seg, Settled(Loaded).off))
             p  == dropAckedSegments(b1)
             b2 == enforceMaxSize(enforceMaxAge(p))
             none == [i \in {} |-> EmptySegment]
  <1>1. /\ up' = TRUE /\ b' = findSegmentAfterAcked(b2)
        /\ reported' = reported \cup b'.gone
        /\ inflight' = inflight /\ now' = now /\ written' = written
        /\ consumed' = consumed /\ atRisk' = atRisk
        /\ ~up
    BY Zenon DEF Open
  <1>2. PICK S \in SUBSET (Live(b1) \ Live(b2)) : leftover' = [i \in S |-> b1.segments[i]]
    BY Zenon DEF Open
  <1>3. Base(b1, Done, acked', ackedPast', written) /\ Checkpoints'
    BY OpenBase, Zenon
  <1>4. Numbers /\ inflight.n = 0
    BY <1>1, IndInvDown, SMTT(40) DEF NoRecord
  <1> HIDE DEF b1
  <1>5. IsBuffer(b1) /\ IsListing(b1.segments) /\ b1.nextSegID \in Nat
        /\ \A i \in Live(b1) : i < b1.nextSegID /\ b1.segments[i].synced <= Len(Recs(b1, i))
    BY <1>3, Zenon DEF Base, StructOK, FilesOK, Live, Recs
  <1>6. IsBuffer(p)
    <2>1. PICK T, reason : p = removeOldest(b1, T, reason)
      BY Zenon DEF dropAckedSegments
    <2> QED
      BY <1>5, <2>1, RemoveFields, Zenon
  <1> HIDE DEF p
  <1>7. IsBuffer(b2)
    BY <1>6, RetentionGone, Zenon
  <1> HIDE DEF b2
  <1>8. b'.gone = b2.gone
    BY <1>1, <1>7, Zenon DEF findSegmentAfterAcked, IsBuffer
  <1>9. Done \subseteq Done' /\ b2.gone \subseteq Done'
    BY <1>1, <1>8, SMTT(40) DEF Done
  <1>10. /\ Base(b2, Done', acked', ackedPast', written) /\ Trims(b1, b2, Done')
         /\ b2.nextSegID = b1.nextSegID
    <2>1. b2 = enforceMaxSize(enforceMaxAge(dropAckedSegments(b1)))
      BY Zenon DEF b2, p
    <2> QED
      BY <1>3, <1>9, <2>1, OpenTrims
  <1>11. IsPosition(inflight') /\ inflight'.n = 0
    BY <1>1, <1>4, SMTT(40) DEF Numbers
  <1>12. /\ OK(b', Done', acked', ackedPast', inflight', written)
         /\ b'.segments = b2.segments /\ b'.nextSegID = b1.nextSegID
    BY <1>1, <1>10, <1>11, FindOK, SMTT(40)
  <1>13. LeftoverOK(b2.segments, leftover', Done') /\ Bounded(b2.segments, leftover', b1.nextSegID)
    <2>1. leftover' = Merge(none, [i \in S |-> b1.segments[i]])
      BY <1>2, Zenon DEF Merge
    <2>2. S \subseteq Live(b1) \ Live(b2)
      BY <1>2, Zenon
    <2>3. LeftoverOK(b1.segments, none, Done) /\ Bounded(b1.segments, none, b1.nextSegID)
      BY <1>5, Zenon DEF LeftoverOK, Bounded, IsListing, Live
    <2> HIDE DEF none
    <2> QED
      BY <1>5, <1>9, <1>10, <2>1, <2>2, <2>3, LeaveBehind, Zenon
  <1>14. \A c \in ackedPast' : IsPosition(c)
    BY <1>3, SMTT(40) DEF Checkpoints, IsCheckpoint
  <1>15. Whole(b', leftover', Done', acked', ackedPast', inflight', written')
    BY <1>1, <1>12, <1>13, <1>14, SMTT(40) DEF Whole
  <1>16. Numbers'
    <2>1. up' \in BOOLEAN
      BY <1>1, Zenon
    <2> QED
      BY <1>1, <1>4, <2>1, Zenon DEF Numbers
  <1> QED
    BY <1>1, <1>3, <1>15, <1>16, UpIndInv, Zenon

\* The cut of torn tails by an Open that fails.
LEMMA Untorn ==
    ASSUME NEW seg \in Segments, NEW t \in Nat, NEW r,
           r = [seg EXCEPT !.torn = FALSE, !.modTime = t]
    PROVE  r \in Segments /\ r.recs = seg.recs /\ r.synced = seg.synced
  BY ZenonT(40) DEF Segments

\* An Open that fails after it has truncated torn segments keeps IndInv.
LEMMA OpenErrorInv ==
    ASSUME IndInv, OpenError
    PROVE  IndInv'
  <1> DEFINE time(i) == IF b.segments[i].torn THEN now ELSE b.segments[i].modTime
             cut(i) == [b.segments[i] EXCEPT !.torn = FALSE, !.modTime = time(i)]
             f == [i \in DOMAIN b.segments |-> cut(i)]
  <1>1. /\ ~up /\ up' = up /\ b' = Fresh(f, b.nextSegID, 0, 0) /\ inflight' = inflight
        /\ leftover' = leftover /\ acked' = acked /\ ackedPast' = ackedPast /\ now' = now
        /\ written' = written /\ Done' = Done
    BY Zenon DEF OpenError, history, Done
  <1>2. /\ FilesOK(b.segments, Done, acked, ackedPast, written)
        /\ LeftoverOK(b.segments, leftover, Done) /\ Bounded(b.segments, leftover, b.nextSegID)
        /\ Checkpoints /\ Numbers /\ inflight = NoRecord
    BY <1>1, IndInvDown, ZenonT(40)
  <1>3. ASSUME NEW i \in DOMAIN b.segments
        PROVE  /\ f[i] \in Segments /\ f[i].recs = b.segments[i].recs
               /\ f[i].synced = b.segments[i].synced
    <2>1. b.segments[i] \in Segments /\ time(i) \in Nat
      BY <1>2, Zenon DEF FilesOK, IsListing, Segments, Numbers
    <2>2. f[i] = cut(i)
      BY Zenon
    <2> HIDE DEF f, time
    <2> QED
      BY <2>1, <2>2, Untorn, ZenonT(40)
  <1>4. DOMAIN f = DOMAIN b.segments
    BY SMTT(40)
  <1>5. Stop(f, b.nextSegID)
    BY <1>1, <1>2, ZenonT(40) DEF Stop, Numbers
  <1> HIDE DEF f
  <1>6. FilesOK(f, Done, acked, ackedPast, written)
    BY <1>2, <1>3, <1>4, SMTT(40) DEF FilesOK, IsListing, UpTo
  <1>7. LeftoverOK(f, leftover, Done) /\ Bounded(f, leftover, b.nextSegID)
    BY <1>2, <1>4, Zenon DEF LeftoverOK, Bounded
  <1>8. Checkpoints' /\ now' \in Nat /\ written' \in Nat
    BY <1>1, <1>2, Zenon DEF Checkpoints, Numbers
  <1> QED
    BY <1>1, <1>5, <1>6, <1>7, <1>8, DownIndInv, Zenon

-----------------------------------------------------------------------------
(* The invariant, and what follows from it. *)

\* The state of the buffer before its first Open.
LEMMA InitInv ==
    ASSUME Init
    PROVE  IndInv
  <1> DEFINE none == [i \in {} |-> EmptySegment]
  <1>1. IsListing(none) /\ DOMAIN none = {}
    BY Zenon DEF IsListing
  <1>2. /\ b = Fresh(none, 0, 0, 0) /\ leftover = none /\ up = FALSE
        /\ acked = NoCheckpoint /\ ackedPast = {} /\ inflight = NoRecord
        /\ now = 0 /\ written = 0
    BY Zenon DEF Init
  <1> HIDE DEF none
  <1>3. /\ IsBuffer(b) /\ b.segments = none /\ b.nextSegID = 0
        /\ b.nextReadSeg = 0 /\ b.nextReadOff = 0 /\ b.ackedSegID = 0 /\ b.ackedOff = 0
        /\ b.BufferFull = FALSE
    BY <1>2, Zenon DEF Fresh, IsBuffer
  <1>4. IsPosition(acked) /\ acked.have = FALSE /\ IsPosition(inflight) /\ inflight.n = 0
    BY <1>2, Zenon DEF NoCheckpoint, NoRecord, IsPosition
  <1>5. acked.have \in BOOLEAN /\ b.BufferFull \in BOOLEAN /\ up \in BOOLEAN
    BY <1>2, <1>3, <1>4, ZenonT(40)
  <1>6. TypeOK
    BY <1>1, <1>2, <1>3, <1>4, <1>5 DEF TypeOK
  <1>7. /\ FilesOK(none, Done, acked, ackedPast, written)
        /\ LeftoverOK(none, leftover, Done) /\ Bounded(none, leftover, 0)
    BY <1>1, <1>2, SMTT(40) DEF FilesOK, LeftoverOK, Bounded, UpTo
  <1>8. IsCheckpoint(acked)
    BY <1>2, <1>4, <1>5, SMTT(40) DEF IsCheckpoint
  <1> QED
    BY <1>2, <1>3, <1>6, <1>7, <1>8, SMTT(40) DEF IndInv

\* A step that leaves all but bad and the clock alone keeps the invariant.
LEMMA QuietInv ==
    ASSUME IndInv, now' \in Nat,
           UNCHANGED <<up, b, leftover, acked, ackedPast, inflight, history>>
    PROVE  IndInv'
  <1>1. /\ up' = up /\ b' = b /\ leftover' = leftover /\ acked' = acked
        /\ ackedPast' = ackedPast /\ inflight' = inflight /\ written' = written /\ Done' = Done
    BY Zenon DEF history, Done
  <1>2. TypeOK'
    BY <1>1, SMTT(40) DEF IndInv, TypeOK
  <1> QED
    BY <1>1, <1>2, SMTT(40) DEF IndInv

\* The invariant is inductive: it holds at first and every step, be it of the
\* buffer, of a failure or of the environment, keeps it.
THEOREM IndInvariant == Spec => []IndInv
  <1>1. Init => IndInv
    BY InitInv, Zenon
  <1>2. ASSUME IndInv, [Next]_vars PROVE IndInv'
    <2>1. CASE AppendRecord \/ AppendError
      BY <1>2, <2>1, AppendRecordInv, AppendErrorInv, SMTT(40)
    <2>2. CASE NextRecord \/ NextEOF
      BY <1>2, <2>2, NextRecordInv, NextEOFInv, SMTT(40)
    <2>3. CASE Ack \/ Rewind
      BY <1>2, <2>3, AckInv, RewindInv
    <2>4. CASE Close \/ Crash
      BY <1>2, <2>4, CloseInv, CrashInv, Zenon
    <2>5. CASE CrashInAppend \/ PowerLoss
      BY <1>2, <2>5, CrashInAppendInv, PowerLossInv, Zenon
    <2>6. CASE Open \/ OpenError
      BY <1>2, <2>6, OpenInv, OpenErrorInv, Zenon
    <2>7. CASE BitRot \/ Tick \/ UNCHANGED vars
      <3>1. UNCHANGED <<up, b, leftover, acked, ackedPast, inflight, history>>
        BY <2>7, SMTT(40) DEF BitRot, Tick, vars, history
      <3>2. now' \in Nat
        BY <1>2, <2>7, SMTT(40) DEF BitRot, Tick, vars, IndInv, TypeOK
      <3> QED
        BY <1>2, <3>1, <3>2, QuietInv, SMTT(40)
    <2> QED
      BY <1>2, <2>1, <2>2, <2>3, <2>4, <2>5, <2>6, <2>7, SMTT(40) DEF Next
  <1> QED
    BY <1>1, <1>2, PTL DEF Spec

\* The type invariant: in particular openSegment never counts less than no
\* records, and no offset is below 0.
THEOREM TypeCorrect == Spec => []TypeOK
  <1>1. IndInv => TypeOK
    BY SMTT(40) DEF IndInv
  <1> QED
    BY <1>1, IndInvariant, PTL

\* Where the checkpoint settles depends on the records alone.
LEMMA SettledRecords ==
    ASSUME NEW L, NEW M, DOMAIN L = DOMAIN M, \A i \in DOMAIN M : L[i].recs = M[i].recs
    PROVE  Settled(L) = Settled(M)
  <1>1. CASE acked.seg \in DOMAIN M
    <2>1. L[acked.seg].recs = M[acked.seg].recs
      BY <1>1, SMTT(40)
    <2>2. Min({acked.off, Len(L[acked.seg].recs)}) = Min({acked.off, Len(M[acked.seg].recs)})
      BY <2>1, Zenon
    <2> QED
      BY <1>1, <2>2, Zenon DEF Settled
  <1>2. CASE acked.seg \notin DOMAIN M
    BY <1>2, Zenon DEF Settled
  <1> QED
    BY <1>1, <1>2, Zenon

\* Opening the segments changes neither their records nor where the checkpoint
\* settles.
LEMMA LoadedRecords ==
    ASSUME IndInv, NEW M, M = Merge(b.segments, leftover)
    PROVE  /\ DOMAIN Loaded = DOMAIN M
           /\ \A i \in DOMAIN M : Loaded[i].recs = M[i].recs
           /\ Settled(Loaded) = Settled(M)
  <1>1. \A l \in DOMAIN leftover : \A i \in DOMAIN b.segments : l < i
    BY SMTT(40) DEF IndInv, LeftoverOK
  <1>2. DOMAIN b.segments \subseteq Nat /\ DOMAIN leftover \subseteq Nat
    BY Zenon DEF IndInv, TypeOK, IsListing
  <1>3. \A i \in DOMAIN leftover : i \notin DOMAIN b.segments
    BY <1>1, <1>2
  <1>4. /\ DOMAIN M = DOMAIN b.segments \cup DOMAIN leftover
        /\ \A i \in DOMAIN b.segments : M[i] = b.segments[i]
        /\ \A i \in DOMAIN leftover : M[i] = leftover[i]
    BY <1>3, Zenon DEF Merge
  <1>5. DOMAIN Loaded = DOMAIN M /\ \A i \in DOMAIN M : Loaded[i].recs = M[i].recs
    BY <1>4, LoadedSegments, Zenon
  <1>6. Settled(Loaded) = Settled(M)
    BY <1>5, SettledRecords, SMTT(40)
  <1> QED
    BY <1>5, <1>6, SMTT(40)

\* A record on the files and beyond the acked position is offered again.
LEMMA BeyondIsQueued ==
    ASSUME IndInv,
           NEW segs, segs = (IF up THEN b.segments ELSE Loaded),
           NEW s, s = (IF up THEN b.ackedSegID ELSE Settled(Loaded).seg),
           NEW o, o = (IF up THEN b.ackedOff ELSE Settled(Loaded).off),
           NEW i \in DOMAIN segs, NEW j \in DOMAIN segs[i].recs, Beyond(i, j, s, o)
    PROVE  segs[i].recs[j] \in Queued
  <1> DEFINE M == IF up THEN b.segments ELSE Merge(b.segments, leftover)
             later(h) == {M[h].recs[k] : k \in {l \in DOMAIN M[h].recs : Beyond(h, l, s, o)}}
  <1>1. /\ DOMAIN M = DOMAIN segs /\ M[i].recs = segs[i].recs
        /\ ~up => Settled(Loaded) = Settled(M)
    <2>1. CASE up
      BY <2>1, Zenon
    <2>2. CASE ~up
      BY <2>2, LoadedRecords, SMTT(40)
    <2> QED
      BY <2>1, <2>2, SMTT(40)
  <1>2. Queued = UNION {later(h) : h \in DOMAIN M}
    <2>1. CASE up
      BY <2>1, SMTT(40) DEF Queued
    <2>2. CASE ~up
      BY <1>1, <2>2, SMTT(40) DEF Queued
    <2> QED
      BY <2>1, <2>2, SMTT(40)
  <1>3. segs[i].recs[j] \in later(i)
    BY <1>1, Zenon
  <1> HIDE DEF later, M
  <1> QED
    BY <1>1, <1>2, <1>3, SMTT(40)

\* A state with IndInv has lost no record silently.
LEMMA NoLoss == IndInv => NoSilentLoss
  <1> SUFFICES ASSUME IndInv PROVE NoSilentLoss
    OBVIOUS
  <1> DEFINE segs == IF up THEN b.segments ELSE Loaded
             s == IF up THEN b.ackedSegID ELSE Settled(Loaded).seg
             o == IF up THEN b.ackedOff ELSE Settled(Loaded).off
  <1>1. FilesOK(segs, Done, acked, ackedPast, written) /\ UpTo(segs, s, o, Done)
    <2>1. CASE up
      BY <2>1, SMTT(40) DEF IndInv, ProcessOK, StructOK
    <2>2. CASE ~up
      <3>1. FilesOK(Loaded, Done, acked, ackedPast, written)
        BY LoadedFiles, SMTT(40)
      <3>2. UpTo(Loaded, Settled(Loaded).seg, Settled(Loaded).off, Done)
        BY SettledPosition, SMTT(40)
      <3> QED
        BY <2>2, <3>1, <3>2, Zenon
    <2> QED
      BY <2>1, <2>2, SMTT(40)
  <1>2. ASSUME NEW i \in DOMAIN segs, NEW j \in DOMAIN segs[i].recs, Beyond(i, j, s, o)
        PROVE  segs[i].recs[j] \in Queued
    BY <1>2, BeyondIsQueued, Zenon
  <1> HIDE DEF segs, s, o
  <1> SUFFICES ASSUME NEW n \in 1..written PROVE n \in Queued \/ n \in Done
    BY Zenon DEF NoSilentLoss, Done
  <1>3. CASE n \notin Done
    <2>1. PICK i \in DOMAIN segs : \E j \in DOMAIN segs[i].recs : segs[i].recs[j] = n
      BY <1>1, <1>3, Zenon DEF FilesOK
    <2>2. PICK j \in DOMAIN segs[i].recs : segs[i].recs[j] = n
      BY <2>1, Zenon
    <2>3. Beyond(i, j, s, o)
      BY <1>1, <1>3, <2>2, SMTT(40) DEF UpTo
    <2> QED
      BY <1>2, <2>2, <2>3, SMTT(40)
  <1> QED
    BY <1>3, SMTT(40)

\* No record disappears silently, for any number of records, any sizes and
\* limits, any schedule of kills, power failures, failed writes, failed unlinks
\* and decayed payloads.
THEOREM NothingLost == Spec => []NoSilentLoss
  BY NoLoss, IndInvariant, PTL

\* The read cursor never strands a record, whatever retention does to the
\* segments under it.
THEOREM NoneStranded == Spec => []NothingStranded
  <1>1. ASSUME IndInv PROVE NothingStranded
    <2> SUFFICES ASSUME up, NEW i \in Live(b), NEW j \in UnackedFrom(b, i)
                 PROVE  \/ Beyond(i, j, b.nextReadSeg, b.nextReadOff)
                        \/ inflight.n # 0 /\ i = inflight.seg /\ j = inflight.off
                        \/ Recs(b, i)[j] \in b.skipped
      BY Zenon DEF NothingStranded
    <2>1. CursorOK(b, inflight)
      BY <1>1, Zenon DEF IndInv, ProcessOK
    <2> QED
      BY <2>1, Zenon DEF CursorOK, UnackedFrom
  <1> QED
    BY <1>1, IndInvariant, PTL

-----------------------------------------------------------------------------
(* The acked position. *)

SameAck(bb, r) == IsBuffer(r) /\ r.ackedSegID = bb.ackedSegID /\ r.ackedOff = bb.ackedOff

\* removeOldestSegment leaves the acked position alone.
LEMMA RetentionAck ==
    ASSUME NEW bb, IsBuffer(bb)
    PROVE  /\ SameAck(bb, enforceMaxSize(bb)) /\ SameAck(bb, enforceMaxAge(bb))
           /\ SameAck(bb, dropAckedSegments(bb))
  <1>1. ASSUME NEW r, NEW S, NEW reason, r = removeOldest(bb, S, reason) PROVE SameAck(bb, r)
    BY <1>1, RemoveFields DEF SameAck
  <1>2. ASSUME NEW r, \E S, reason : r = removeOldest(bb, S, reason) PROVE SameAck(bb, r)
    BY <1>1, <1>2, Zenon
  <1>3. \E S, reason : enforceMaxSize(bb) = removeOldest(bb, S, reason)
    BY Zenon DEF enforceMaxSize
  <1>4. \E S, reason : enforceMaxAge(bb) = removeOldest(bb, S, reason)
    BY Zenon DEF enforceMaxAge
  <1>5. \E S, reason : dropAckedSegments(bb) = removeOldest(bb, S, reason)
    BY Zenon DEF dropAckedSegments
  <1> QED
    BY <1>2, <1>3, <1>4, <1>5, SMTT(40)

\* So do the parts of Append.
LEMMA AppendAck ==
    ASSUME NEW bb, IsBuffer(bb), NEW n
    PROVE  /\ SameAck(bb, Opened(bb)) /\ SameAck(bb, Sync(bb)) /\ SameAck(bb, Rolled(bb, n))
           /\ SameAck(bb, SegmentAppend(bb, n)) /\ SameAck(bb, Trimmed(bb))
           /\ \A t : SameAck(bb, TornAppend(bb, t))
  <1>1. ASSUME NEW cc, IsBuffer(cc) PROVE SameAck(cc, newSegment(cc))
    BY <1>1, NewSegmentFields, Zenon DEF SameAck
  <1>2. ASSUME NEW seg, NEW bytes, NEW r,
               r = [bb EXCEPT !.segments = WithActive(bb, seg), !.BytesUsed = bytes]
        PROVE  SameAck(bb, r)
    BY <1>2, Zenon DEF SameAck, IsBuffer
  <1>3. ASSUME NEW seg
        PROVE  SameAck(bb, [bb EXCEPT !.segments = WithActive(bb, seg)])
    BY DEF SameAck, IsBuffer
  <1>4. SameAck(bb, Opened(bb))
    BY <1>1, Zenon DEF Opened, SameAck
  <1>5. SameAck(bb, Sync(bb)) /\ \A t : SameAck(bb, TornAppend(bb, t))
    <2> DEFINE put(seg) == [bb EXCEPT !.segments = WithActive(bb, seg)]
    <2>1. \E seg : Sync(bb) = put(seg)
      BY Zenon DEF Sync
    <2>2. \A t : \E seg : TornAppend(bb, t) = put(seg)
      BY Zenon DEF TornAppend
    <2>3. \A seg : SameAck(bb, put(seg))
      BY <1>3, Zenon
    <2> HIDE DEF put
    <2> QED
      BY <2>1, <2>2, <2>3, Zenon
  <1>6. SameAck(bb, Rolled(bb, n))
    <2>1. SameAck(Sync(bb), newSegment(Sync(bb)))
      BY <1>1, <1>5, Zenon DEF SameAck
    <2> QED
      BY <1>5, <2>1, Zenon DEF Rolled, SameAck
  <1>7. SameAck(bb, SegmentAppend(bb, n))
    <2> DEFINE put(seg, bytes) == [bb EXCEPT !.segments = WithActive(bb, seg), !.BytesUsed = bytes]
    <2>1. \E seg, bytes : SegmentAppend(bb, n) = put(seg, bytes)
      BY ZenonT(40) DEF SegmentAppend
    <2>2. \A seg, bytes : SameAck(bb, put(seg, bytes))
      BY <1>2, Zenon
    <2> HIDE DEF put
    <2> QED
      BY <2>1, <2>2, SMTT(40)
  <1>8. SameAck(bb, Trimmed(bb))
    <2>1. SameAck(bb, enforceMaxSize(bb))
      BY RetentionAck, Zenon
    <2>2. SameAck(enforceMaxSize(bb), enforceMaxAge(enforceMaxSize(bb)))
      BY <2>1, RetentionAck, Zenon DEF SameAck
    <2> QED
      BY <2>1, <2>2, Zenon DEF SameAck, Trimmed
  <1> QED
    BY <1>4, <1>5, <1>6, <1>7, <1>8, SMTT(40)

\* In a running process the acked position never moves back: only the AckFunc
\* sets it, and the record in flight is never behind it.
THEOREM AckMonotone == Spec => AckNeverMovesBack
  <1> DEFINE Step == up /\ up' => ~Beyond(b.ackedSegID, b.ackedOff, b'.ackedSegID, b'.ackedOff)
  <1>1. ASSUME IndInv, [Next]_vars PROVE [Step]_vars
    <2> SUFFICES ASSUME Next, up, up'
                 PROVE  ~Beyond(b.ackedSegID, b.ackedOff, b'.ackedSegID, b'.ackedOff)
      BY <1>1, Zenon
    <2>1. IsBuffer(b) /\ b.ackedSegID \in Nat /\ b.ackedOff \in Nat
      BY <1>1, Zenon DEF IndInv, TypeOK
    <2>2. CASE b'.ackedSegID = b.ackedSegID /\ b'.ackedOff = b.ackedOff
      BY <2>1, <2>2, SMTT(40) DEF Beyond
    <2>3. CASE AppendRecord
      <3> DEFINE n == written + 1
                 b2 == SegmentAppend(Rolled(Opened(b), n), n)
      <3>1. b' = [Trimmed(b2) EXCEPT !.BufferFull = FALSE]
        BY <2>3, Zenon DEF AppendRecord
      <3>2. SameAck(b, Opened(b))
        BY <2>1, AppendAck, SMTT(40)
      <3>3. SameAck(Opened(b), Rolled(Opened(b), n))
        BY <3>2, AppendAck, ZenonT(40) DEF SameAck
      <3>4. SameAck(Rolled(Opened(b), n), b2)
        BY <3>3, AppendAck, Zenon DEF SameAck
      <3> HIDE DEF b2, n
      <3>5. SameAck(b2, Trimmed(b2))
        BY <3>4, AppendAck, Zenon DEF SameAck
      <3> HIDE DEF b2
      <3>6. b'.ackedSegID = Trimmed(b2).ackedSegID /\ b'.ackedOff = Trimmed(b2).ackedOff
        BY <3>1, <3>5, SMTT(40) DEF SameAck, IsBuffer
      <3> QED
        BY <2>2, <3>2, <3>3, <3>4, <3>5, <3>6, SMTT(40) DEF SameAck
    <2>4. CASE AppendError
      <3> DEFINE n == written + 1
                 b1 == Opened(b)
                 b2 == Rolled(b1, n)
                 skip(bb) == [bb EXCEPT !.nextSegID = bb.nextSegID + 1]
      <3>1. PICK f \in FailedAppends(n), enospc \in BOOLEAN : b' = [f[1] EXCEPT !.BufferFull = @ \/ enospc]
        BY <2>4, Zenon DEF AppendError
      <3>2. \/ f = <<skip(b), FALSE>>
            \/ f = <<b1, FALSE>>
            \/ f = <<skip(Sync(b1)), TRUE>>
            \/ \E t \in BOOLEAN : f = <<TornAppend(b2, t), MustRoll(b1, n)>>
        BY ZenonT(40) DEF FailedAppends
      <3>3. \A bb : IsBuffer(bb) => SameAck(bb, skip(bb))
        BY DEF SameAck, IsBuffer
      <3>4. SameAck(b, b1)
        BY <2>1, AppendAck, Zenon
      <3> HIDE DEF b1, skip, n
      <3>5. SameAck(b1, b2) /\ SameAck(b1, Sync(b1))
        BY <3>4, AppendAck, Zenon DEF SameAck
      <3> HIDE DEF b2
      <3>6. \A t : SameAck(b2, TornAppend(b2, t))
        BY <3>5, AppendAck, Zenon DEF SameAck
      <3>7. SameAck(b, f[1])
        <4>1. CASE f = <<skip(b), FALSE>>
          BY <2>1, <3>3, <4>1, SMTT(40) DEF SameAck
        <4>2. CASE f = <<b1, FALSE>>
          BY <3>4, <4>2, SMTT(40)
        <4>3. CASE f = <<skip(Sync(b1)), TRUE>>
          BY <3>3, <3>4, <3>5, <4>3, SMTT(40) DEF SameAck
        <4>4. CASE \E t \in BOOLEAN : f = <<TornAppend(b2, t), MustRoll(b1, n)>>
          <5>1. PICK t \in BOOLEAN : f = <<TornAppend(b2, t), MustRoll(b1, n)>>
            BY <4>4, Zenon
          <5>2. f[1] = TornAppend(b2, t)
            BY <5>1, Zenon
          <5> QED
            BY <3>4, <3>5, <3>6, <5>2, SMTT(40) DEF SameAck
        <4> QED
          BY <3>2, <4>1, <4>2, <4>3, <4>4, ZenonT(40)
      <3>8. b'.ackedSegID = f[1].ackedSegID /\ b'.ackedOff = f[1].ackedOff
        BY <3>1, <3>7, Zenon DEF SameAck, IsBuffer
      <3> QED
        BY <2>2, <3>7, <3>8, Zenon DEF SameAck
    <2>5. CASE Ack
      <3> DEFINE b1 == AckedAt(b, inflight)
      <3>1. b' = dropAckedSegments(b1) /\ inflight.n # 0
        BY <2>5, Zenon DEF Ack, AckedAt
      <3>2. IsBuffer(b1) /\ b1.ackedSegID = inflight.seg /\ b1.ackedOff = inflight.off
        <4> DEFINE s == inflight.seg
                   o == inflight.off
        <4>1. b1 = [b EXCEPT !.ackedSegID = s, !.ackedOff = o]
          BY Zenon DEF AckedAt
        <4> HIDE DEF b1, s, o
        <4>2. IsBuffer(b1) /\ b1.ackedSegID = s /\ b1.ackedOff = o
          BY <2>1, <4>1, ZenonT(40) DEF IsBuffer
        <4> QED
          BY <4>2, Zenon DEF s, o
      <3> HIDE DEF b1
      <3>3. SameAck(b1, b')
        BY <3>1, <3>2, RetentionAck, Zenon
      <3>4. ~Beyond(b.ackedSegID, b.ackedOff, inflight.seg, inflight.off)
        BY <1>1, <3>1, Zenon DEF IndInv, ProcessOK, InflightOK
      <3> QED
        BY <3>2, <3>3, <3>4, Zenon DEF SameAck
    <2>6. CASE NextRecord \/ NextEOF \/ Rewind
      <3>1. b'.ackedSegID = b.ackedSegID /\ b'.ackedOff = b.ackedOff
        BY <2>1, <2>6, ZenonT(40) DEF NextRecord, NextEOF, Rewind, findSegmentAfterAcked, IsBuffer
      <3> QED
        BY <2>2, <3>1, SMTT(40)
    <2>7. CASE Close \/ Crash \/ CrashInAppend \/ PowerLoss \/ Open \/ OpenError
      BY <2>7, Zenon DEF Close, Crash, CrashInAppend, PowerLoss, Stop, Open, OpenError
    <2>8. CASE BitRot \/ Tick
      BY <2>2, <2>8, Zenon DEF BitRot, Tick
    <2> QED
      BY <2>3, <2>4, <2>5, <2>6, <2>7, <2>8, SMTT(40) DEF Next
  <1> QED
    BY <1>1, IndInvariant, PTL DEF Spec, AckNeverMovesBack

=============================================================================
