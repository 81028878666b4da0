---------------------------- MODULE BufferLemmas ----------------------------
(***************************************************************************)
(* What the operators of Buffer do to the struct, and which parts of the   *)
(* inductive invariant IndInv they keep: removeOldestSegment and the three *)
(* loops around it, newSegment, Sync, Segment.Append.  Then the actions of *)
(* a running process: Append and its failures, Next, the AckFunc, Rewind,  *)
(* Close, and the ways the process can end keep IndInv.                    *)
(***************************************************************************)
EXTENDS Buffer, WellFoundedInduction, TLAPS

-----------------------------------------------------------------------------
(* Sets of segment IDs. *)

\* A set of IDs that is not empty has a least element.
LEMMA LeastID ==
    ASSUME NEW S, S \subseteq Nat, S # {}
    PROVE  \E x \in S : \A y \in S : x <= y
  <1> DEFINE R == {ss \in Nat \X Nat : ss[1] < ss[2]}
  <1>1. IsWellFoundedOn(R, Nat)
    BY NatLessThanWellFounded, Zenon DEF OpToRel
  <1>2. PICK x \in S : \A y \in S : ~(<<y, x>> \in R)
    BY <1>1, WFMin, Zenon
  <1>3. \A y \in S : x <= y
    <2> TAKE y \in S
    <2>1. y \in Nat /\ x \in Nat
      BY Zenon
    <2>2. ~(y < x)
      BY <1>2, <2>1, Zenon
    <2> QED
      BY <2>1, <2>2
  <1> QED
    BY <1>3, Zenon

\* Min picks a member, the oldest segment's ID.
LEMMA MinID ==
    ASSUME NEW S, S \subseteq Nat, S # {}
    PROVE  Min(S) \in S /\ \A x \in S : Min(S) <= x
  BY LeastID, Zenon DEF Min

\* A bounded set of IDs that is not empty has a greatest element.
LEMMA MaxID ==
    ASSUME NEW S, S \subseteq Nat, S # {}, NEW m \in Nat, \A x \in S : x < m
    PROVE  Max(S) \in S /\ \A x \in S : x <= Max(S)
  <1> DEFINE T == {k \in Nat : \E x \in S : k = m - x}
  <1>1. T \subseteq Nat /\ T # {}
    <2>1. PICK x \in S : TRUE
      BY Zenon
    <2>2. m - x \in Nat
      OBVIOUS
    <2> QED
      BY <2>1, <2>2, Zenon
  <1>2. PICK t \in T : \A u \in T : t <= u
    BY <1>1, LeastID, Zenon
  <1>3. PICK x \in S : t = m - x
    BY <1>2, Zenon
  <1>4. \A y \in S : x >= y
    <2> TAKE y \in S
    <2>1. m - y \in T
      OBVIOUS
    <2>2. m - x <= m - y
      BY <1>2, <1>3, <2>1, Zenon
    <2> QED
      BY <2>2
  <1> QED
    BY <1>4, Zenon DEF Max

-----------------------------------------------------------------------------
(* What the operators of the struct do to each field. *)

\* removeOldestSegment leaves numbering, the acked position and the flags alone.
LEMMA RemoveFields ==
    ASSUME NEW bb, IsBuffer(bb), NEW S, NEW reason,
           NEW r, r = removeOldest(bb, S, reason)
    PROVE  /\ IsBuffer(r)
           /\ r.nextSegID = bb.nextSegID
           /\ r.ackedSegID = bb.ackedSegID /\ r.ackedOff = bb.ackedOff
           /\ r.BufferFull = bb.BufferFull /\ r.skipped = bb.skipped
  BY Zenon DEF removeOldest, IsBuffer

\* removeOldestSegment takes the given segments and leaves the others as they are.
LEMMA RemoveSegments ==
    ASSUME NEW bb, IsBuffer(bb), NEW S, NEW reason
    PROVE  /\ DOMAIN removeOldest(bb, S, reason).segments = DOMAIN bb.segments \ S
           /\ \A i \in DOMAIN bb.segments \ S :
                removeOldest(bb, S, reason).segments[i] = bb.segments[i]
  BY Zenon DEF removeOldest, IsBuffer, Without

\* The records that retention takes are counted.
LEMMA RemoveGone ==
    ASSUME NEW bb, IsBuffer(bb), NEW S, NEW reason, reason # "",
           NEW i \in S, NEW j \in UnackedFrom(bb, i)
    PROVE  Recs(bb, i)[j] \in removeOldest(bb, S, reason).gone
  <1> DEFINE lost(k) == {Recs(bb, k)[l] : l \in UnackedFrom(bb, k)}
  <1>1. removeOldest(bb, S, reason).gone = bb.gone \cup UNION {lost(k) : k \in S}
    BY Zenon DEF removeOldest, IsBuffer
  <1>2. Recs(bb, i)[j] \in lost(i)
    BY Zenon
  <1> HIDE DEF lost
  <1> QED
    BY <1>1, <1>2, Zenon

\* newSegment adds an empty segment under the next ID and changes nothing else.
LEMMA NewSegmentFields ==
    ASSUME NEW bb, IsBuffer(bb), NEW r, r = newSegment(bb)
    PROVE  /\ IsBuffer(r)
           /\ r.segments = Merge([i \in {bb.nextSegID} |-> EmptySegment], bb.segments)
           /\ r.nextSegID = bb.nextSegID + 1
           /\ r.ackedSegID = bb.ackedSegID /\ r.ackedOff = bb.ackedOff
           /\ r.BufferFull = bb.BufferFull /\ r.skipped = bb.skipped
           /\ r.nextReadSeg = bb.nextReadSeg /\ r.nextReadOff = bb.nextReadOff
           /\ r.gone = bb.gone
  BY Zenon DEF newSegment, IsBuffer

\* Sync, SegmentAppend and TornAppend replace the active segment and keep the
\* rest of the struct.
LEMMA ActiveFields ==
    ASSUME NEW bb, IsBuffer(bb), NEW seg, NEW bytes,
           NEW r, r = [bb EXCEPT !.segments = WithActive(bb, seg), !.BytesUsed = bytes]
    PROVE  /\ IsBuffer(r)
           /\ r.segments = WithActive(bb, seg)
           /\ r.nextSegID = bb.nextSegID
           /\ r.ackedSegID = bb.ackedSegID /\ r.ackedOff = bb.ackedOff
           /\ r.BufferFull = bb.BufferFull /\ r.skipped = bb.skipped
           /\ r.nextReadSeg = bb.nextReadSeg /\ r.nextReadOff = bb.nextReadOff
           /\ r.gone = bb.gone
  BY Zenon DEF IsBuffer

-----------------------------------------------------------------------------
(* The segments that retention takes are the oldest ones. *)

\* The files and the struct, whatever the cursor.
Base(bb, D, ck, past, w) ==
    FilesOK(bb.segments, D, ck, past, w) /\ StructOK(bb, D, ck) /\ IsPosition(ck)

\* The invariant of a running process, but for the files left behind.
OK(bb, D, ck, past, fl, w) ==
    /\ FilesOK(bb.segments, D, ck, past, w) /\ ProcessOK(bb, D, ck, fl)
    /\ IsPosition(ck) /\ IsPosition(fl)

Oldest(bb, S) == S \subseteq Live(bb) /\ \A i \in S : \A k \in Live(bb) \ S : i < k

\* r is bb without some of its oldest segments, whose records are all in D.
Trims(bb, r, D) ==
    /\ Live(r) \subseteq Live(bb)
    /\ \A i \in Live(r) : r.segments[i] = bb.segments[i]
    /\ \A i \in Live(bb) \ Live(r) :
          /\ \A k \in Live(r) : i < k
          /\ \A j \in DOMAIN Recs(bb, i) : Recs(bb, i)[j] \in D

\* The part of the invariant that does not depend on the record in flight.
LEMMA OKBase ==
    ASSUME NEW bb, NEW D, NEW ck, NEW past, NEW fl, NEW w, OK(bb, D, ck, past, fl, w)
    PROVE  Base(bb, D, ck, past, w)
  BY Zenon DEF OK, Base, ProcessOK

\* r is bb after removeOldestSegment took some of the oldest segments, whose
\* unacked records are all in D.
Removes(bb, r, D) ==
    \E S, reason : /\ r = removeOldest(bb, S, reason) /\ Oldest(bb, S)
                   /\ \A i \in S : \A j \in UnackedFrom(bb, i) : Recs(bb, i)[j] \in D

\* removeOldestSegment loses no record that is not accounted for.
LEMMA RemoveBase ==
    ASSUME NEW bb, NEW D, NEW ck, NEW past, NEW w, NEW r, NEW D2,
           Base(bb, D, ck, past, w), D \subseteq D2, Removes(bb, r, D2)
    PROVE  Base(r, D2, ck, past, w) /\ Trims(bb, r, D2)
  <1> USE DEF Base
  <1>0. PICK S, reason : /\ r = removeOldest(bb, S, reason) /\ Oldest(bb, S)
                         /\ \A i \in S : \A j \in UnackedFrom(bb, i) : Recs(bb, i)[j] \in D2
    BY Zenon DEF Removes
  <1>1. IsBuffer(bb) /\ IsListing(bb.segments)
    BY Zenon DEF StructOK, FilesOK
  <1> DEFINE left == Live(bb) \ S
  <1>2. /\ Live(r) = left
        /\ \A i \in Live(r) : r.segments[i] = bb.segments[i]
    BY <1>0, <1>1, RemoveSegments DEF Live
  <1>3. \A i \in S : \A j \in DOMAIN Recs(bb, i) : Recs(bb, i)[j] \in D2
    <2> SUFFICES ASSUME NEW i \in S, NEW j \in DOMAIN Recs(bb, i)
                 PROVE  Recs(bb, i)[j] \in D2
      BY Zenon
    <2>0. i \in Live(bb)
      BY <1>0, Zenon DEF Oldest
    <2>1. CASE j \in UnackedFrom(bb, i)
      BY <1>0, <2>1, Zenon
    <2>2. CASE j \notin UnackedFrom(bb, i)
      BY <2>0, <2>2, Zenon DEF UnackedFrom, StructOK, UpTo, Recs, Live
    <2> QED
      BY <2>1, <2>2, Zenon
  <1>4. FilesOK(r.segments, D2, ck, past, w)
    <2>1. IsListing(r.segments)
      BY <1>2, Zenon DEF IsListing, Live, FilesOK
    <2>2. \A i \in DOMAIN r.segments : r.segments[i].synced <= Len(r.segments[i].recs)
      BY <1>2, Zenon DEF FilesOK, Live
    <2>3. UpTo(r.segments, ck.seg, ck.off, D2)
      BY <1>2, Zenon DEF FilesOK, Live, UpTo
    <2>4. \A c \in past : \A i \in DOMAIN r.segments : \A j \in DOMAIN r.segments[i].recs :
              \/ Beyond(i, j, c.seg, c.off)
              \/ r.segments[i].recs[j] \in D2
              \/ j > r.segments[i].synced /\ \A k \in DOMAIN r.segments : k <= i
      BY <1>2, Zenon DEF FilesOK, Live
    <2>5. ASSUME NEW n \in 1..w
          PROVE  n \in D2 \/ \E i \in DOMAIN r.segments :
                                \E j \in DOMAIN r.segments[i].recs : r.segments[i].recs[j] = n
      <3>1. CASE n \in D
        BY <3>1, Zenon
      <3>2. CASE n \notin D
        <4>1. PICK i \in DOMAIN bb.segments : \E j \in DOMAIN bb.segments[i].recs :
                      bb.segments[i].recs[j] = n
          BY <3>2, Zenon DEF FilesOK
        <4>2. CASE i \in S
          BY <4>1, <4>2, <1>3, Zenon DEF Recs
        <4>3. CASE i \notin S
          BY <4>1, <4>3, <1>2, Zenon DEF Live
        <4> QED
          BY <4>2, <4>3, Zenon
      <3> QED
        BY <3>1, <3>2, Zenon
    <2> QED
      BY <2>1, <2>2, <2>3, <2>4, <2>5, Zenon DEF FilesOK
  <1>5. ASSUME NEW s, NEW o, s \in Nat, Fits(bb.segments, bb.nextSegID, s, o)
        PROVE  Fits(r.segments, r.nextSegID, s, o)
    <2>1. r.nextSegID = bb.nextSegID
      BY <1>0, <1>1, RemoveFields
    <2>2. DOMAIN r.segments # {} => \E i \in DOMAIN r.segments : i >= s
      <3> SUFFICES ASSUME NEW k \in left PROVE \E i \in left : i >= s
        BY <1>2, Zenon DEF Live
      <3>1. PICK i \in Live(bb) : i >= s
        BY <1>5, Zenon DEF Fits, Live
      <3>2. CASE i \in S
        <4>1. i < k /\ i \in Nat /\ k \in Nat
          BY <1>0, <1>1, <3>2, Zenon DEF Oldest, IsListing, Live
        <4> QED
          BY <4>1, <3>1, <1>5
      <3> QED
        BY <3>1, <3>2, Zenon
    <2> QED
      BY <1>5, <1>2, <2>1, <2>2, Zenon DEF Fits, Live
  <1>6. StructOK(r, D2, ck)
    <2>1. /\ IsBuffer(r) /\ r.nextSegID \in Nat
          /\ r.ackedSegID = bb.ackedSegID /\ r.ackedOff = bb.ackedOff
          /\ r.ackedSegID \in Nat /\ r.ackedOff \in Nat /\ r.BufferFull \in BOOLEAN
          /\ r.skipped = bb.skipped /\ r.nextSegID = bb.nextSegID
      BY <1>0, <1>1, RemoveFields DEF StructOK
    <2>2. /\ Fits(r.segments, r.nextSegID, ck.seg, ck.off)
          /\ Fits(r.segments, r.nextSegID, r.ackedSegID, r.ackedOff)
      BY <1>5, <2>1, Zenon DEF StructOK, IsPosition
    <2>3. UpTo(r.segments, r.ackedSegID, r.ackedOff, D2)
      BY <1>2, <2>1, Zenon DEF StructOK, UpTo, Live
    <2>4. \A i \in Live(r) : i > r.ackedSegID =>
                               r.segments[i].recordCount = Len(Recs(r, i))
      BY <1>2, <2>1, Zenon DEF StructOK, Recs
    <2>5. r.nextReadSeg \in Nat /\ r.nextReadOff \in Nat
      <3>1. left \subseteq Nat
        BY <1>1, Zenon DEF IsListing, Live
      <3>2. left # {} => Min(left) \in Nat
        BY <3>1, MinID, Zenon
      <3> HIDE DEF left
      <3>3. left = Live(bb) \ S
        BY Zenon DEF left
      <3> QED
        BY <1>0, <1>1, <3>2, <3>3, Zenon DEF removeOldest, IsBuffer, StructOK
    <2>6. \A i \in Live(r) : i < r.nextSegID
      BY <1>2, <2>1, Zenon DEF StructOK
    <2> QED
      BY <2>1, <2>2, <2>3, <2>4, <2>5, <2>6, Zenon DEF StructOK
  <1>7. Trims(bb, r, D2)
    BY <1>0, <1>2, <1>3, Zenon DEF Trims, Oldest
  <1> QED
    BY <1>4, <1>6, <1>7, Zenon

\* removeOldestSegment moves the cursor to the first record that is left when it
\* takes the segment the cursor is in.
LEMMA RemoveOldest ==
    ASSUME NEW bb, NEW D, NEW ck, NEW past, NEW fl, NEW w, NEW r, NEW D2,
           OK(bb, D, ck, past, fl, w), D \subseteq D2, Removes(bb, r, D2)
    PROVE  OK(r, D2, ck, past, fl, w)
  <1> USE DEF OK
  <1>0. PICK S, reason : r = removeOldest(bb, S, reason) /\ Oldest(bb, S)
    BY Zenon DEF Removes
  <1>1. IsBuffer(bb) /\ IsListing(bb.segments)
    BY Zenon DEF ProcessOK, StructOK, FilesOK
  <1> DEFINE left == Live(bb) \ S
  <1>2. /\ Live(r) = left
        /\ \A i \in Live(r) : r.segments[i] = bb.segments[i]
    BY <1>0, <1>1, RemoveSegments DEF Live
  <1>3. Base(r, D2, ck, past, w)
    <2>1. Base(bb, D, ck, past, w)
      BY Zenon DEF Base, ProcessOK
    <2> QED
      BY <2>1, RemoveBase, Zenon
  <1>5. ASSUME NEW s, NEW o, s \in Nat, Fits(bb.segments, bb.nextSegID, s, o)
        PROVE  Fits(r.segments, r.nextSegID, s, o)
    <2>1. r.nextSegID = bb.nextSegID
      BY <1>0, <1>1, RemoveFields
    <2>2. DOMAIN r.segments # {} => \E i \in DOMAIN r.segments : i >= s
      <3> SUFFICES ASSUME NEW k \in left PROVE \E i \in left : i >= s
        BY <1>2, Zenon DEF Live
      <3>1. PICK i \in Live(bb) : i >= s
        BY <1>5, Zenon DEF Fits, Live
      <3>2. CASE i \in S
        <4>1. i < k /\ i \in Nat /\ k \in Nat
          BY <1>0, <1>1, <3>2, Zenon DEF Oldest, IsListing, Live
        <4> QED
          BY <4>1, <3>1, <1>5
      <3> QED
        BY <3>1, <3>2, Zenon
    <2> QED
      BY <1>5, <1>2, <2>1, <2>2, Zenon DEF Fits, Live
  <1>6. left \subseteq Nat /\ (left # {} => Min(left) \in left /\ \A i \in left : Min(left) <= i)
    <2>1. left \subseteq Nat
      BY <1>1, Zenon DEF IsListing, Live
    <2> QED
      BY <2>1, MinID, Zenon
  <1>c. /\ bb.nextReadSeg \notin S => /\ r.nextReadSeg = bb.nextReadSeg
                                     /\ r.nextReadOff = bb.nextReadOff
        /\ bb.nextReadSeg \in S =>
              /\ r.nextReadOff = 0
              /\ left # {} => r.nextReadSeg = Min(left)
              /\ left = {} => r.nextReadSeg = bb.nextReadSeg
    <2> HIDE DEF left
    <2>1. left = Live(bb) \ S
      BY Zenon DEF left
    <2> QED
      BY <1>0, <1>1, <2>1, Zenon DEF removeOldest, IsBuffer
  <1>7. r.nextReadSeg \in Nat /\ r.nextReadOff \in Nat
    BY <1>6, <1>c DEF ProcessOK, StructOK
  <1>8. ASSUME NEW i \in Live(r), NEW j \in DOMAIN Recs(r, i)
        PROVE  /\ Recs(r, i) = Recs(bb, i)
               /\ Beyond(i, j, bb.nextReadSeg, bb.nextReadOff) <=>
                    Beyond(i, j, r.nextReadSeg, r.nextReadOff)
    <2>1. i \in Live(bb) /\ i \in left /\ i \in Nat /\ Recs(r, i) = Recs(bb, i)
      BY <1>2, <1>6, Zenon DEF Recs, Live
    <2>2. j \in Nat /\ j > 0
      BY <1>1, <2>1 DEF IsListing, Segments, Recs, Live
    <2>3. CASE bb.nextReadSeg \notin S
      BY <2>1, <2>3, <1>c, Zenon
    <2>4. CASE bb.nextReadSeg \in S
      <3>1. r.nextReadOff = 0 /\ r.nextReadSeg = Min(left)
        BY <2>1, <2>4, <1>c, Zenon
      <3>2. bb.nextReadSeg < i
        BY <1>0, <2>1, <2>4, ZenonT(40) DEF Oldest
      <3> QED
        BY <2>1, <2>2, <3>1, <3>2, <1>6 DEF Beyond
    <2> QED
      BY <2>1, <2>3, <2>4, Zenon
  <1>9. ProcessOK(r, D2, ck, fl)
    <2>1. /\ IsBuffer(r) /\ r.nextSegID \in Nat
          /\ r.ackedSegID = bb.ackedSegID /\ r.ackedOff = bb.ackedOff
          /\ r.ackedSegID \in Nat /\ r.ackedOff \in Nat /\ r.BufferFull \in BOOLEAN
          /\ r.skipped = bb.skipped /\ r.nextSegID = bb.nextSegID
      BY <1>0, <1>1, RemoveFields DEF ProcessOK, StructOK
    <2>2. /\ Fits(r.segments, r.nextSegID, ck.seg, ck.off)
          /\ Fits(r.segments, r.nextSegID, r.ackedSegID, r.ackedOff)
          /\ fl.n # 0 => Fits(r.segments, r.nextSegID, fl.seg, fl.off)
      BY <1>5, <2>1, Zenon DEF ProcessOK, StructOK, InflightOK, IsPosition
    <2>5. CursorOK(r, fl)
      <3>1. Fits(r.segments, r.nextSegID, r.nextReadSeg, r.nextReadOff)
        <4>1. Fits(bb.segments, bb.nextSegID, bb.nextReadSeg, bb.nextReadOff)
          BY Zenon DEF ProcessOK, StructOK, CursorOK
        <4>2. bb.nextReadSeg \in Nat /\ bb.nextReadOff \in Nat
          BY Zenon DEF ProcessOK, StructOK
        <4>3. CASE bb.nextReadSeg \notin S
          BY <4>1, <4>2, <4>3, <1>5, <1>c, Zenon
        <4>4. CASE bb.nextReadSeg \in S
          <5>1. r.nextSegID = bb.nextSegID /\ r.nextSegID \in Nat /\ DOMAIN r.segments = left
            BY <1>0, <1>1, <1>2, RemoveFields, SMTT(40) DEF ProcessOK, StructOK, Live
          <5>2. \A i \in Live(bb) : i < bb.nextSegID
            BY SMTT(40) DEF ProcessOK, StructOK
          <5> QED
            BY <1>2, <1>6, <1>c, <4>1, <4>2, <4>4, <5>1, <5>2, SMTT(40) DEF Fits, Live
        <4> QED
          BY <4>3, <4>4, Zenon
      <3>2. ASSUME NEW i \in Live(r), NEW j \in DOMAIN Recs(r, i)
            PROVE  IF Beyond(i, j, r.nextReadSeg, r.nextReadOff)
                   THEN Beyond(i, j, r.ackedSegID, r.ackedOff)
                   ELSE \/ ~Beyond(i, j, r.ackedSegID, r.ackedOff)
                        \/ fl.n # 0 /\ i = fl.seg /\ j = fl.off
                        \/ Recs(r, i)[j] \in r.skipped
        BY <1>2, <1>8, <2>1, SMTT(40) DEF ProcessOK, StructOK, CursorOK
      <3> QED
        BY <3>1, <3>2, Zenon DEF CursorOK
    <2>6. InflightOK(r, fl)
      BY <1>2, <1>8, <2>1, <2>2, SMTT(40) DEF ProcessOK, StructOK, InflightOK
    <2> QED
      BY <1>3, <2>5, <2>6, Zenon DEF Base, ProcessOK
  <1> QED
    BY <1>3, <1>9, Zenon DEF Base

-----------------------------------------------------------------------------
(* The other operators. *)

\* OK, with the files left behind.
Whole(bb, left, D, ck, past, fl, w) ==
    /\ OK(bb, D, ck, past, fl, w)
    /\ LeftoverOK(bb.segments, left, D) /\ Bounded(bb.segments, left, bb.nextSegID)
    /\ \A c \in past : IsPosition(c)

\* The fields of a segment that is in a listing.
LEMMA ListingFields ==
    ASSUME NEW segs, IsListing(segs), NEW i \in DOMAIN segs
    PROVE  /\ i \in Nat /\ segs[i] \in Segments /\ segs[i].synced \in Nat
           /\ Len(segs[i].recs) \in Nat /\ DOMAIN segs[i].recs = 1..Len(segs[i].recs)
  <1>1. i \in Nat /\ segs[i] \in Segments
    BY Zenon DEF IsListing
  <1>2. segs[i].synced \in Nat /\ segs[i].recs \in Seq(Nat \ {0})
    BY <1>1, Zenon DEF Segments
  <1> QED
    BY <1>1, <1>2

\* Position (i, j) of the files segs is new: beyond every checkpoint the files bb
\* had room for, in the last segment, and not synced.
IsNew(bb, segs, i, j) ==
    /\ \A s, o \in Nat : Fits(bb.segments, bb.nextSegID, s, o) => Beyond(i, j, s, o)
    /\ j > segs[i].synced /\ \A k \in DOMAIN segs : k <= i

\* r keeps the records of bb where they are, may have segments and records after
\* them, and has the same cursor and acked position.
Extends(bb, r, past) ==
    /\ IsBuffer(r) /\ IsListing(r.segments) /\ r.BufferFull \in BOOLEAN
    /\ r.nextReadSeg = bb.nextReadSeg /\ r.nextReadOff = bb.nextReadOff
    /\ r.ackedSegID = bb.ackedSegID /\ r.ackedOff = bb.ackedOff /\ r.skipped = bb.skipped
    /\ r.nextSegID \in Nat /\ bb.nextSegID <= r.nextSegID
    /\ DOMAIN bb.segments \subseteq DOMAIN r.segments
    /\ \A i \in DOMAIN r.segments :
          /\ i < r.nextSegID /\ (i \in DOMAIN bb.segments \/ i >= bb.nextSegID)
          /\ r.segments[i].synced <= Len(r.segments[i].recs)
          /\ \/ i \in DOMAIN bb.segments /\ bb.segments[i].recordCount # Len(bb.segments[i].recs)
             \/ r.segments[i].recordCount = Len(r.segments[i].recs)
    /\ \A i \in DOMAIN bb.segments :
          /\ Len(bb.segments[i].recs) <= Len(r.segments[i].recs)
          /\ \A j \in DOMAIN bb.segments[i].recs :
                j \in DOMAIN r.segments[i].recs /\ r.segments[i].recs[j] = bb.segments[i].recs[j]
          /\ past # {} => /\ r.segments[i].synced = bb.segments[i].synced
                          /\ DOMAIN r.segments = DOMAIN bb.segments
    /\ \A i \in DOMAIN r.segments : \A j \in DOMAIN r.segments[i].recs :
          \/ IsNew(bb, r.segments, i, j)
          \/ i \in DOMAIN bb.segments /\ j \in DOMAIN bb.segments[i].recs

\* The records w + 1 to w2 are in the files.
Adds(segs, w, w2) ==
    \A n \in 1..w2 : n \in 1..w \/ \E i \in DOMAIN segs :
        \E j \in DOMAIN segs[i].recs : segs[i].recs[j] = n

\* A position that suits the files of bb suits those of r.
LEMMA ExtendsFits ==
    ASSUME NEW bb, NEW r, NEW past, Extends(bb, r, past), bb.nextSegID \in Nat,
           NEW s \in Nat, NEW o \in Nat, Fits(bb.segments, bb.nextSegID, s, o)
    PROVE  Fits(r.segments, r.nextSegID, s, o)
  <1>1. /\ DOMAIN bb.segments \subseteq DOMAIN r.segments /\ DOMAIN r.segments \subseteq Nat
        /\ \A i \in DOMAIN r.segments : i \in DOMAIN bb.segments \/ i >= bb.nextSegID
        /\ \A i \in DOMAIN bb.segments : Len(bb.segments[i].recs) <= Len(r.segments[i].recs)
        /\ r.nextSegID \in Nat /\ bb.nextSegID <= r.nextSegID
    BY Zenon DEF Extends, IsListing
  <1>2. \A i \in DOMAIN r.segments : Len(r.segments[i].recs) \in Nat
    BY DEF Extends, IsListing, Segments
  <1>3. \A i \in DOMAIN bb.segments : s = i => o <= Len(bb.segments[i].recs)
    BY Zenon DEF Fits
  <1>4. s \in DOMAIN r.segments => o <= Len(r.segments[s].recs)
    <2>1. CASE s \in DOMAIN bb.segments
      <3>1. Len(bb.segments[s].recs) <= Len(r.segments[s].recs) /\ o <= Len(bb.segments[s].recs)
        BY <1>1, <1>3, <2>1, Zenon
      <3>2. Len(r.segments[s].recs) \in Nat
        BY <1>1, <1>2, <2>1, Zenon
      <3> QED
        BY <3>1, <3>2 DEF Fits
    <2>2. CASE s \notin DOMAIN bb.segments
      BY <1>1, <1>2, <2>2 DEF Fits
    <2> QED
      BY <2>1, <2>2, Zenon
  <1> QED
    BY <1>1, <1>4 DEF Fits

\* Every record of bb is found in r, and every record of r that bb does not have
\* is new.
LEMMA ExtendsRecords ==
    ASSUME NEW bb, NEW r, NEW past, Extends(bb, r, past),
           NEW i \in DOMAIN r.segments, NEW j \in DOMAIN r.segments[i].recs,
           ~IsNew(bb, r.segments, i, j)
    PROVE  /\ i \in DOMAIN bb.segments /\ j \in DOMAIN bb.segments[i].recs
           /\ r.segments[i].recs[j] = bb.segments[i].recs[j]
           /\ past # {} => /\ r.segments[i].synced = bb.segments[i].synced
                           /\ DOMAIN r.segments = DOMAIN bb.segments
  <1>1. i \in DOMAIN bb.segments /\ j \in DOMAIN bb.segments[i].recs
    BY Zenon DEF Extends
  <1> QED
    BY <1>1, Zenon DEF Extends

\* The files of r are in order: the records up to w2 are there.
LEMMA ExtendsFiles ==
    ASSUME NEW bb, NEW r, NEW D, NEW D2, D \subseteq D2, NEW ck, NEW past, NEW past2, NEW w, NEW w2,
           FilesOK(bb.segments, D, ck, past, w), past2 \subseteq past, Extends(bb, r, past2),
           IsPosition(ck), Fits(bb.segments, bb.nextSegID, ck.seg, ck.off),
           Adds(r.segments, w, w2)
    PROVE  FilesOK(r.segments, D2, ck, past2, w2)
  <1>1. /\ IsListing(r.segments)
        /\ \A i \in DOMAIN r.segments : r.segments[i].synced <= Len(r.segments[i].recs)
    BY Zenon DEF Extends
  <1>2. UpTo(r.segments, ck.seg, ck.off, D2)
    <2> SUFFICES ASSUME NEW i \in DOMAIN r.segments, NEW j \in DOMAIN r.segments[i].recs
                 PROVE  Beyond(i, j, ck.seg, ck.off) \/ r.segments[i].recs[j] \in D2
      BY Zenon DEF UpTo
    <2>1. CASE IsNew(bb, r.segments, i, j)
      BY <2>1, Zenon DEF IsNew, IsPosition
    <2>2. CASE ~IsNew(bb, r.segments, i, j)
      BY <2>2, ExtendsRecords DEF FilesOK, UpTo
    <2> QED
      BY <2>1, <2>2, Zenon
  <1>3. ASSUME NEW c \in past2, NEW i \in DOMAIN r.segments, NEW j \in DOMAIN r.segments[i].recs
        PROVE  \/ Beyond(i, j, c.seg, c.off)
               \/ r.segments[i].recs[j] \in D2
               \/ j > r.segments[i].synced /\ \A k \in DOMAIN r.segments : k <= i
    <2>1. CASE IsNew(bb, r.segments, i, j)
      BY <2>1, Zenon DEF IsNew
    <2>2. CASE ~IsNew(bb, r.segments, i, j)
      <3>1. /\ i \in DOMAIN bb.segments /\ j \in DOMAIN bb.segments[i].recs
            /\ r.segments[i].recs[j] = bb.segments[i].recs[j]
            /\ r.segments[i].synced = bb.segments[i].synced
            /\ DOMAIN r.segments = DOMAIN bb.segments
        BY <1>3, <2>2, ExtendsRecords
      <3> QED
        BY <1>3, <3>1, Zenon DEF FilesOK
    <2> QED
      BY <2>1, <2>2, Zenon
  <1>4. ASSUME NEW n \in 1..w
        PROVE  n \in D \/ \E i \in DOMAIN r.segments :
                              \E j \in DOMAIN r.segments[i].recs : r.segments[i].recs[j] = n
    <2>1. CASE n \notin D
      <3>1. PICK i \in DOMAIN bb.segments :
                    \E j \in DOMAIN bb.segments[i].recs : bb.segments[i].recs[j] = n
        BY <2>1, Zenon DEF FilesOK
      <3>2. PICK j \in DOMAIN bb.segments[i].recs : bb.segments[i].recs[j] = n
        BY <3>1, Zenon
      <3>3. /\ i \in DOMAIN r.segments /\ j \in DOMAIN r.segments[i].recs
            /\ r.segments[i].recs[j] = n
        BY <3>2, Zenon DEF Extends
      <3> QED
        BY <3>3, Zenon
    <2> QED
      BY <2>1, Zenon
  <1> QED
    BY <1>1, <1>2, <1>3, <1>4, Zenon DEF FilesOK, Adds

\* The struct, but for the cursor.
LEMMA ExtendsStruct ==
    ASSUME NEW bb, NEW r, NEW D, NEW D2, D \subseteq D2, NEW ck, NEW past, IsPosition(ck),
           StructOK(bb, D, ck), Extends(bb, r, past)
    PROVE  StructOK(r, D2, ck)
  <1>1. /\ bb.nextSegID \in Nat /\ bb.nextReadSeg \in Nat /\ bb.nextReadOff \in Nat
        /\ bb.ackedSegID \in Nat /\ bb.ackedOff \in Nat /\ bb.skipped \subseteq D
        /\ Fits(bb.segments, bb.nextSegID, ck.seg, ck.off)
        /\ Fits(bb.segments, bb.nextSegID, bb.ackedSegID, bb.ackedOff)
        /\ UpTo(bb.segments, bb.ackedSegID, bb.ackedOff, D)
    BY Zenon DEF StructOK
  <1>2. /\ r.nextReadSeg = bb.nextReadSeg /\ r.nextReadOff = bb.nextReadOff
        /\ r.ackedSegID = bb.ackedSegID /\ r.ackedOff = bb.ackedOff /\ r.skipped = bb.skipped
        /\ r.nextSegID \in Nat /\ IsBuffer(r) /\ r.BufferFull \in BOOLEAN
        /\ \A i \in Live(r) : i < r.nextSegID
    BY Zenon DEF Extends, Live
  <1>3. /\ Fits(r.segments, r.nextSegID, ck.seg, ck.off)
        /\ Fits(r.segments, r.nextSegID, r.ackedSegID, r.ackedOff)
    BY <1>1, <1>2, ExtendsFits, Zenon DEF IsPosition
  <1>4. UpTo(r.segments, r.ackedSegID, r.ackedOff, D2)
    <2> SUFFICES ASSUME NEW i \in DOMAIN r.segments, NEW j \in DOMAIN r.segments[i].recs
                 PROVE  \/ Beyond(i, j, bb.ackedSegID, bb.ackedOff)
                        \/ r.segments[i].recs[j] \in D2
      BY <1>2, Zenon DEF UpTo
    <2>1. CASE IsNew(bb, r.segments, i, j)
      BY <1>1, <2>1, Zenon DEF IsNew
    <2>2. CASE ~IsNew(bb, r.segments, i, j)
      BY <1>1, <2>2, ExtendsRecords DEF UpTo
    <2> QED
      BY <2>1, <2>2, Zenon
  <1>5. ASSUME NEW i \in Live(r), i > r.ackedSegID
        PROVE  r.segments[i].recordCount = Len(Recs(r, i))
    <2>1. i \in DOMAIN bb.segments => bb.segments[i].recordCount = Len(bb.segments[i].recs)
      BY <1>2, <1>5, Zenon DEF StructOK, Live, Recs
    <2> QED
      BY <2>1, Zenon DEF Extends, Live, Recs
  <1> QED
    BY <1>1, <1>2, <1>3, <1>4, <1>5, Zenon DEF StructOK

\* The cursor: what is new is ahead of it and beyond the acked position.
LEMMA ExtendsCursor ==
    ASSUME NEW bb, NEW r, NEW D, NEW ck, NEW past, NEW fl,
           StructOK(bb, D, ck), CursorOK(bb, fl), Extends(bb, r, past)
    PROVE  CursorOK(r, fl)
  <1>1. /\ bb.nextSegID \in Nat /\ bb.nextReadSeg \in Nat /\ bb.nextReadOff \in Nat
        /\ bb.ackedSegID \in Nat /\ bb.ackedOff \in Nat
        /\ Fits(bb.segments, bb.nextSegID, bb.ackedSegID, bb.ackedOff)
        /\ Fits(bb.segments, bb.nextSegID, bb.nextReadSeg, bb.nextReadOff)
    BY Zenon DEF StructOK, CursorOK
  <1>2. /\ r.nextReadSeg = bb.nextReadSeg /\ r.nextReadOff = bb.nextReadOff
        /\ r.ackedSegID = bb.ackedSegID /\ r.ackedOff = bb.ackedOff /\ r.skipped = bb.skipped
    BY Zenon DEF Extends
  <1>3. Fits(r.segments, r.nextSegID, r.nextReadSeg, r.nextReadOff)
    BY <1>1, <1>2, ExtendsFits, Zenon
  <1>4. ASSUME NEW i \in Live(r), NEW j \in DOMAIN Recs(r, i)
        PROVE  IF Beyond(i, j, r.nextReadSeg, r.nextReadOff)
               THEN Beyond(i, j, r.ackedSegID, r.ackedOff)
               ELSE \/ ~Beyond(i, j, r.ackedSegID, r.ackedOff)
                    \/ fl.n # 0 /\ i = fl.seg /\ j = fl.off
                    \/ Recs(r, i)[j] \in r.skipped
    <2>1. CASE IsNew(bb, r.segments, i, j)
      BY <1>1, <1>2, <2>1, Zenon DEF IsNew
    <2>2. CASE ~IsNew(bb, r.segments, i, j)
      <3>1. i \in Live(bb) /\ j \in DOMAIN Recs(bb, i) /\ Recs(r, i)[j] = Recs(bb, i)[j]
        BY <2>2, ExtendsRecords DEF Live, Recs
      <3> QED
        BY <1>2, <3>1, Zenon DEF CursorOK
    <2> QED
      BY <2>1, <2>2, Zenon
  <1> QED
    BY <1>3, <1>4, Zenon DEF CursorOK

\* The record in flight stays where it is, and what is new is beyond it.
LEMMA ExtendsInflight ==
    ASSUME NEW bb, NEW r, NEW past, NEW fl, IsPosition(fl), bb.nextSegID \in Nat,
           InflightOK(bb, fl), Extends(bb, r, past)
    PROVE  InflightOK(r, fl)
  <1> SUFFICES ASSUME fl.n # 0 PROVE InflightOK(r, fl)
    BY Zenon DEF InflightOK
  <1>1. /\ Fits(bb.segments, bb.nextSegID, fl.seg, fl.off)
        /\ ~Beyond(bb.ackedSegID, bb.ackedOff, fl.seg, fl.off)
    BY Zenon DEF InflightOK
  <1>2. /\ r.nextReadSeg = bb.nextReadSeg /\ r.nextReadOff = bb.nextReadOff
        /\ r.ackedSegID = bb.ackedSegID /\ r.ackedOff = bb.ackedOff
    BY Zenon DEF Extends
  <1>3. Fits(r.segments, r.nextSegID, fl.seg, fl.off)
    BY <1>1, ExtendsFits, Zenon DEF IsPosition
  <1>4. ASSUME NEW i \in Live(r), NEW j \in DOMAIN Recs(r, i)
        PROVE  \/ Beyond(i, j, fl.seg, fl.off)
               \/ /\ ~Beyond(i, j, r.nextReadSeg, r.nextReadOff)
                  /\ i = fl.seg /\ j = fl.off => Recs(r, i)[j] = fl.n
    <2>1. CASE IsNew(bb, r.segments, i, j)
      BY <1>1, <2>1, Zenon DEF IsNew, IsPosition
    <2>2. CASE ~IsNew(bb, r.segments, i, j)
      <3>1. i \in Live(bb) /\ j \in DOMAIN Recs(bb, i) /\ Recs(r, i)[j] = Recs(bb, i)[j]
        BY <2>2, ExtendsRecords DEF Live, Recs
      <3> QED
        BY <1>2, <3>1, Zenon DEF InflightOK
    <2> QED
      BY <2>1, <2>2, Zenon
  <1> QED
    BY <1>1, <1>2, <1>3, <1>4, Zenon DEF InflightOK

\* The invariant of a running process survives an extension.
LEMMA ExtendsWhole ==
    ASSUME NEW bb, NEW r, NEW left, NEW D, NEW D2, D \subseteq D2, NEW ck, NEW past, NEW past2,
           NEW fl, NEW w, NEW w2,
           Whole(bb, left, D, ck, past, fl, w), past2 \subseteq past, Extends(bb, r, past2),
           Adds(r.segments, w, w2)
    PROVE  Whole(r, left, D2, ck, past2, fl, w2)
  <1>1. /\ FilesOK(bb.segments, D, ck, past, w) /\ StructOK(bb, D, ck)
        /\ CursorOK(bb, fl) /\ InflightOK(bb, fl)
        /\ LeftoverOK(bb.segments, left, D) /\ Bounded(bb.segments, left, bb.nextSegID)
        /\ IsPosition(ck) /\ IsPosition(fl) /\ \A c \in past : IsPosition(c)
    BY Zenon DEF Whole, OK, ProcessOK
  <1>2. Fits(bb.segments, bb.nextSegID, ck.seg, ck.off) /\ bb.nextSegID \in Nat
    BY <1>1, Zenon DEF StructOK
  <1>3. FilesOK(r.segments, D2, ck, past2, w2)
    BY <1>1, <1>2, ExtendsFiles, Zenon
  <1>4. StructOK(r, D2, ck) /\ CursorOK(r, fl) /\ InflightOK(r, fl)
    BY <1>1, <1>2, ExtendsStruct, ExtendsCursor, ExtendsInflight, Zenon
  <1>5. LeftoverOK(r.segments, left, D2) /\ Bounded(r.segments, left, r.nextSegID)
    <2>1. /\ \A i \in DOMAIN left : i \in Nat /\ i < bb.nextSegID
          /\ \A l \in DOMAIN left : \A i \in DOMAIN bb.segments : l < i
      BY <1>1, Zenon DEF LeftoverOK, IsListing, Bounded
    <2>2. /\ \A i \in DOMAIN r.segments : /\ i \in Nat /\ i < r.nextSegID
                                          /\ i \in DOMAIN bb.segments \/ i >= bb.nextSegID
          /\ r.nextSegID \in Nat /\ bb.nextSegID <= r.nextSegID
      BY Zenon DEF Extends, IsListing
    <2>3. \A l \in DOMAIN left : \A i \in DOMAIN r.segments : l < i
      BY <1>2, <2>1, <2>2
    <2>4. LeftoverOK(r.segments, left, D2)
      BY <1>1, <2>3, Zenon DEF LeftoverOK
    <2> QED
      BY <1>2, <2>1, <2>2, <2>4 DEF Bounded
  <1> QED
    BY <1>1, <1>3, <1>4, <1>5, Zenon DEF Whole, OK, ProcessOK


\* The invariant looks at the records, their count and how many are synced, and
\* not at the rest of a segment; a larger next ID keeps it.
Same(bb, r, past) ==
    /\ IsBuffer(r) /\ IsListing(r.segments) /\ Live(r) = Live(bb)
    /\ \A i \in Live(bb) : /\ Recs(r, i) = Recs(bb, i)
                           /\ r.segments[i].recordCount = bb.segments[i].recordCount
                           /\ r.segments[i].synced <= Len(Recs(bb, i))
                           /\ past # {} => r.segments[i].synced = bb.segments[i].synced
    /\ r.nextSegID \in Nat /\ bb.nextSegID <= r.nextSegID /\ r.BufferFull \in BOOLEAN
    /\ r.nextReadSeg = bb.nextReadSeg /\ r.nextReadOff = bb.nextReadOff
    /\ r.ackedSegID = bb.ackedSegID /\ r.ackedOff = bb.ackedOff /\ r.skipped = bb.skipped

\* A struct with the same records extends the other: Sync, a torn write, a skipped
\* ID and BufferFull keep the invariant.
LEMMA SameRecords ==
    ASSUME NEW bb, NEW r, NEW left, NEW D, NEW D2, NEW ck, NEW past, NEW past2, NEW fl, NEW w,
           Whole(bb, left, D, ck, past, fl, w), D \subseteq D2, past2 \subseteq past,
           Same(bb, r, past2)
    PROVE  Whole(r, left, D2, ck, past2, fl, w)
  <1>1. /\ DOMAIN r.segments = DOMAIN bb.segments
        /\ \A i \in DOMAIN bb.segments :
              /\ r.segments[i].recs = bb.segments[i].recs
              /\ r.segments[i].recordCount = bb.segments[i].recordCount
              /\ r.segments[i].synced <= Len(r.segments[i].recs)
              /\ past2 # {} => r.segments[i].synced = bb.segments[i].synced
    BY Zenon DEF Same, Live, Recs
  <1>2. /\ bb.nextSegID \in Nat /\ \A i \in DOMAIN bb.segments : i < bb.nextSegID /\ i \in Nat
        /\ \A i \in DOMAIN bb.segments : Len(bb.segments[i].recs) \in Nat
    BY SMTT(60) DEF Whole, OK, ProcessOK, StructOK, FilesOK, IsListing, Live, Segments
  <1>3. Extends(bb, r, past2)
    BY <1>1, <1>2, SMTT(60) DEF Same, Extends
  <1>4. Adds(r.segments, w, w)
    BY Zenon DEF Adds
  <1> QED
    BY <1>3, <1>4, ExtendsWhole, Zenon

\* newSegment adds an empty segment with an ID above all others, and above the
\* segment of every checkpoint.
LEMMA NewSegment ==
    ASSUME NEW bb, NEW left, NEW D, NEW ck, NEW past, NEW fl, NEW w,
           Whole(bb, left, D, ck, past, fl, w), past = {} \/ Live(bb) = {}, now \in Nat,
           NEW r, r = newSegment(bb)
    PROVE  /\ Whole(r, left, D, ck, past, fl, w)
           /\ Live(r) # {} /\ r.gone = bb.gone
  <1>0. PICK m : m = bb.nextSegID
    BY Zenon
  <1>1. IsBuffer(bb) /\ bb.BufferFull \in BOOLEAN /\ IsListing(bb.segments)
        /\ m \in Nat /\ \A i \in Live(bb) : i < m /\ i \in Nat
    BY <1>0, Zenon DEF Whole, OK, ProcessOK, StructOK, FilesOK, IsListing, Live
  <1>2. /\ IsBuffer(r) /\ r.nextSegID = m + 1
        /\ r.segments = Merge([i \in {m} |-> EmptySegment], bb.segments)
        /\ r.ackedSegID = bb.ackedSegID /\ r.ackedOff = bb.ackedOff
        /\ r.BufferFull = bb.BufferFull /\ r.skipped = bb.skipped
        /\ r.nextReadSeg = bb.nextReadSeg /\ r.nextReadOff = bb.nextReadOff
        /\ r.gone = bb.gone
    BY <1>0, <1>1, NewSegmentFields, Zenon
  <1>3. /\ DOMAIN r.segments = Live(bb) \cup {m} /\ m \notin Live(bb)
        /\ r.segments[m] = EmptySegment
        /\ \A i \in Live(bb) : r.segments[i] = bb.segments[i]
    BY <1>1, <1>2 DEF Merge, Live
  <1>4. EmptySegment \in Segments /\ EmptySegment.recs = <<>> /\ DOMAIN EmptySegment.recs = {}
        /\ EmptySegment.synced = 0 /\ EmptySegment.recordCount = 0 /\ Len(EmptySegment.recs) = 0
    BY DEF EmptySegment, Segments
  <1>5. ASSUME NEW i \in Live(bb)
        PROVE  /\ bb.segments[i].synced <= Len(bb.segments[i].recs)
               /\ Len(bb.segments[i].recs) \in Nat /\ bb.segments[i] \in Segments
    BY <1>1, ListingFields, Zenon DEF Whole, OK, FilesOK, Live
  <1>6. IsListing(r.segments)
    BY <1>1, <1>3, <1>4, <1>5, Zenon DEF IsListing
  <1>7. ASSUME NEW i \in DOMAIN r.segments
        PROVE  /\ i < r.nextSegID /\ (i \in DOMAIN bb.segments \/ i >= bb.nextSegID)
               /\ r.segments[i].synced <= Len(r.segments[i].recs)
               /\ \/ i \in DOMAIN bb.segments /\ bb.segments[i].recordCount # Len(bb.segments[i].recs)
                  \/ r.segments[i].recordCount = Len(r.segments[i].recs)
               /\ \A j \in DOMAIN r.segments[i].recs :
                     i \in DOMAIN bb.segments /\ j \in DOMAIN bb.segments[i].recs
    <2>1. CASE i = m
      BY <1>0, <1>1, <1>2, <1>3, <1>4, <2>1, SMTT(60)
    <2>2. CASE i \in Live(bb)
      BY <1>1, <1>2, <1>3, <1>5, <2>2, SMTT(60) DEF Live
    <2> QED
      BY <1>3, <2>1, <2>2, Zenon
  <1>8. ASSUME NEW i \in DOMAIN bb.segments
        PROVE  i \in DOMAIN r.segments /\ r.segments[i] = bb.segments[i] /\ past = {}
    BY <1>3, Zenon DEF Live
  <1>9. Extends(bb, r, past)
    <2>1. r.nextSegID \in Nat /\ bb.nextSegID <= r.nextSegID /\ r.BufferFull \in BOOLEAN
      BY <1>0, <1>1, <1>2
    <2>2. \A i \in DOMAIN bb.segments : Len(bb.segments[i].recs) <= Len(r.segments[i].recs)
      BY <1>5, <1>8 DEF Live
    <2> QED
      BY <1>2, <1>6, <1>7, <1>8, <2>1, <2>2, Zenon DEF Extends
  <1>10. Adds(r.segments, w, w)
    BY Zenon DEF Adds
  <1>11. Live(r) # {}
    BY <1>3, Zenon DEF Live
  <1> QED
    BY <1>2, <1>9, <1>10, <1>11, ExtendsWhole, Zenon

\* The active segment is the one with the greatest ID.
LEMMA ActiveID ==
    ASSUME NEW bb, Live(bb) \subseteq Nat, Live(bb) # {}, bb.nextSegID \in Nat,
           \A i \in Live(bb) : i < bb.nextSegID
    PROVE  Active(bb) \in Live(bb) /\ \A i \in Live(bb) : i <= Active(bb)
  BY MaxID, Zenon DEF Active

\* Segment.Append adds one record at the end.
LEMMA GrownSegment ==
    ASSUME NEW seg \in Segments, NEW n \in Nat, n # 0, now \in Nat, NEW g, g = Grown(seg, n),
           NEW z, z = Len(seg.recs) + 1
    PROVE  /\ g \in Segments /\ g.synced = seg.synced /\ g.recordCount = seg.recordCount + 1
           /\ Len(g.recs) = z /\ g.recs[z] = n /\ DOMAIN g.recs = DOMAIN seg.recs \cup {z}
           /\ \A j \in DOMAIN seg.recs : g.recs[j] = seg.recs[j]
  <1>1. /\ g = [recs |-> Append(seg.recs, n), torn |-> FALSE,
                recordCount |-> seg.recordCount + 1, synced |-> seg.synced,
                createdAt |-> seg.createdAt, lastWrite |-> now, modTime |-> now]
        /\ seg.recs \in Seq(Nat \ {0})
    BY ZenonT(40) DEF Grown, Segments
  <1>2. PICK l : l = Len(seg.recs)
    BY Zenon
  <1>3. Append(seg.recs, n) \in Seq(Nat \ {0}) /\ Len(Append(seg.recs, n)) = l + 1 /\ l \in Nat
        /\ DOMAIN seg.recs = 1..l /\ DOMAIN Append(seg.recs, n) = 1..(l + 1)
        /\ \A j \in 1..l : Append(seg.recs, n)[j] = seg.recs[j]
        /\ Append(seg.recs, n)[l + 1] = n
    BY <1>1, <1>2
  <1>4. 1..(l + 1) = (1..l) \cup {l + 1}
    BY <1>3
  <1>5. g \in Segments
    BY <1>1, <1>3 DEF Segments
  <1> QED
    BY <1>1, <1>2, <1>3, <1>4, <1>5

\* r is bb with one more record, the one at the end of its last segment.
Puts(bb, r, a, z) ==
    /\ a \in Live(bb) /\ \A i \in Live(bb) : i <= a
    /\ z = Len(bb.segments[a].recs) + 1
    /\ Live(r) = Live(bb) /\ r.segments[a] \in Segments /\ Len(r.segments[a].recs) = z
    /\ r.segments[a].synced = bb.segments[a].synced
    /\ r.segments[a].recordCount = bb.segments[a].recordCount + 1
    /\ DOMAIN r.segments[a].recs = DOMAIN bb.segments[a].recs \cup {z}
    /\ \A j \in DOMAIN bb.segments[a].recs : r.segments[a].recs[j] = bb.segments[a].recs[j]
    /\ \A i \in Live(bb) : i # a => r.segments[i] = bb.segments[i]

\* That record is new.
LEMMA PutIsNew ==
    ASSUME NEW bb, NEW r, NEW a, NEW z, Puts(bb, r, a, z), IsListing(bb.segments),
           bb.segments[a].synced <= Len(bb.segments[a].recs)
    PROVE  IsNew(bb, r.segments, a, z)
  <1>1. /\ a \in DOMAIN bb.segments /\ z = Len(bb.segments[a].recs) + 1
        /\ DOMAIN r.segments = DOMAIN bb.segments /\ \A i \in DOMAIN bb.segments : i <= a
        /\ r.segments[a].synced = bb.segments[a].synced
    BY Zenon DEF Puts, Live
  <1>2. /\ Len(bb.segments[a].recs) \in Nat /\ a \in Nat /\ bb.segments[a].synced \in Nat
        /\ \A i \in DOMAIN bb.segments : i \in Nat
    BY <1>1, ListingFields, Zenon
  <1>3. ASSUME NEW s \in Nat, NEW o \in Nat, Fits(bb.segments, bb.nextSegID, s, o)
        PROVE  Beyond(a, z, s, o)
    <2>1. s <= a
      BY <1>1, <1>2, <1>3 DEF Fits
    <2>2. s = a => o < z
      BY <1>1, <1>2, <1>3 DEF Fits
    <2> QED
      BY <1>1, <1>2, <2>1, <2>2 DEF Beyond
  <1>4. z > r.segments[a].synced
    BY <1>1, <1>2
  <1> QED
    BY <1>1, <1>3, <1>4, Zenon DEF IsNew

\* One more record extends the files.
LEMMA PutExtends ==
    ASSUME NEW bb, NEW r, NEW a, NEW z, NEW past, Puts(bb, r, a, z), IsListing(bb.segments),
           \A i \in Live(bb) : bb.segments[i].synced <= Len(bb.segments[i].recs),
           IsBuffer(r), r.BufferFull \in BOOLEAN,
           r.nextReadSeg = bb.nextReadSeg, r.nextReadOff = bb.nextReadOff,
           r.ackedSegID = bb.ackedSegID, r.ackedOff = bb.ackedOff, r.skipped = bb.skipped,
           r.nextSegID = bb.nextSegID, bb.nextSegID \in Nat,
           \A i \in Live(bb) : i < bb.nextSegID
    PROVE  Extends(bb, r, past)
  <1>1. DOMAIN r.segments = DOMAIN bb.segments /\ a \in DOMAIN bb.segments
    BY Zenon DEF Puts, Live
  <1>2. \A i \in DOMAIN bb.segments : i # a => r.segments[i] = bb.segments[i]
    BY Zenon DEF Puts, Live
  <1>3. IsListing(r.segments)
    BY <1>1, <1>2, Zenon DEF IsListing, Puts
  <1>4. ASSUME NEW i \in DOMAIN bb.segments
        PROVE  /\ r.segments[i].synced <= Len(r.segments[i].recs)
               /\ \/ bb.segments[i].recordCount # Len(bb.segments[i].recs)
                  \/ r.segments[i].recordCount = Len(r.segments[i].recs)
               /\ Len(bb.segments[i].recs) <= Len(r.segments[i].recs)
               /\ r.segments[i].synced = bb.segments[i].synced
               /\ \A j \in DOMAIN bb.segments[i].recs :
                     /\ j \in DOMAIN r.segments[i].recs
                     /\ r.segments[i].recs[j] = bb.segments[i].recs[j]
    <2>1. /\ bb.segments[i].synced <= Len(bb.segments[i].recs)
          /\ Len(bb.segments[i].recs) \in Nat /\ bb.segments[i].synced \in Nat
      BY ListingFields, Zenon DEF Live
    <2>2. CASE i = a
      BY <2>1, <2>2 DEF Puts
    <2>3. CASE i # a
      BY <1>2, <2>1, <2>3
    <2> QED
      BY <2>2, <2>3, Zenon
  <1>5. ASSUME NEW i \in DOMAIN r.segments, NEW j \in DOMAIN r.segments[i].recs,
               j \notin DOMAIN bb.segments[i].recs
        PROVE  IsNew(bb, r.segments, i, j)
    <2>1. i = a /\ j = z
      BY <1>1, <1>2, <1>5 DEF Puts
    <2>2. bb.segments[a].synced <= Len(bb.segments[a].recs)
      BY <1>1, Zenon DEF Live
    <2> QED
      BY <2>1, <2>2, PutIsNew, Zenon
  <1> QED
    BY <1>1, <1>3, <1>4, <1>5, SMTT(60) DEF Extends, Live

\* What SegmentAppend does to the struct.
LEMMA AppendPuts ==
    ASSUME NEW bb, NEW n \in Nat, n # 0, IsListing(bb.segments), IsBuffer(bb), bb.nextSegID \in Nat,
           \A i \in Live(bb) : i < bb.nextSegID, Live(bb) # {}, now \in Nat,
           NEW r, r = SegmentAppend(bb, n)
    PROVE  /\ IsBuffer(r) /\ r.nextSegID = bb.nextSegID
           /\ r.ackedSegID = bb.ackedSegID /\ r.ackedOff = bb.ackedOff
           /\ r.BufferFull = bb.BufferFull /\ r.skipped = bb.skipped
           /\ r.nextReadSeg = bb.nextReadSeg /\ r.nextReadOff = bb.nextReadOff
           /\ r.gone = bb.gone
           /\ \E a, z : Puts(bb, r, a, z) /\ r.segments[a].recs[z] = n
  <1>1. Live(bb) \subseteq Nat
    BY Zenon DEF IsListing, Live
  <1>2. PICK a : a = Active(bb)
    BY Zenon
  <1>3. a \in Live(bb) /\ \A i \in Live(bb) : i <= a
    BY <1>1, <1>2, ActiveID, Zenon
  <1>4. PICK seg : seg = bb.segments[a]
    BY Zenon
  <1>5. PICK g : g = Grown(seg, n)
    BY Zenon
  <1>6. /\ IsBuffer(r) /\ r.nextSegID = bb.nextSegID
        /\ r.segments = WithActive(bb, g)
        /\ r.ackedSegID = bb.ackedSegID /\ r.ackedOff = bb.ackedOff
        /\ r.BufferFull = bb.BufferFull /\ r.skipped = bb.skipped
        /\ r.nextReadSeg = bb.nextReadSeg /\ r.nextReadOff = bb.nextReadOff
        /\ r.gone = bb.gone
    BY <1>1, <1>2, <1>4, <1>5, Zenon DEF SegmentAppend, IsBuffer
  <1>7. /\ DOMAIN r.segments = Live(bb) /\ r.segments[a] = g
        /\ \A i \in Live(bb) : i # a => r.segments[i] = bb.segments[i]
    BY <1>2, <1>3, <1>6, Zenon DEF WithActive, Live
  <1>8. seg \in Segments
    BY <1>1, <1>3, <1>4, ListingFields, Zenon DEF Live
  <1>9. PICK z : z = Len(seg.recs) + 1
    BY Zenon
  <1>10. /\ g \in Segments /\ g.synced = seg.synced /\ g.recordCount = seg.recordCount + 1
         /\ Len(g.recs) = z /\ g.recs[z] = n /\ DOMAIN g.recs = DOMAIN seg.recs \cup {z}
         /\ \A j \in DOMAIN seg.recs : g.recs[j] = seg.recs[j]
    BY <1>5, <1>8, <1>9, GrownSegment
  <1>11. Puts(bb, r, a, z)
    BY <1>3, <1>4, <1>7, <1>9, <1>10, Zenon DEF Puts, Live
  <1>12. \E h, y : Puts(bb, r, h, y) /\ r.segments[h].recs[y] = n
    BY <1>7, <1>10, <1>11
  <1> QED
    BY <1>6, <1>12

\* An appended record lies beyond the checkpoint, the acked position, the cursor
\* and the record in flight.
LEMMA GrowActive ==
    ASSUME NEW bb, NEW left, NEW D, NEW ck, NEW past, NEW fl, NEW n \in Nat, n # 0,
           Whole(bb, left, D, ck, past, fl, n - 1), Live(bb) # {}, now \in Nat,
           NEW r, r = SegmentAppend(bb, n)
    PROVE  Whole(r, left, D, ck, past, fl, n) /\ r.gone = bb.gone
  <1>1. /\ IsListing(bb.segments) /\ IsBuffer(bb) /\ bb.BufferFull \in BOOLEAN
        /\ bb.nextSegID \in Nat /\ \A i \in Live(bb) : i < bb.nextSegID
        /\ \A i \in Live(bb) : bb.segments[i].synced <= Len(bb.segments[i].recs)
    BY Zenon DEF Whole, OK, ProcessOK, FilesOK, StructOK, Live
  <1>2. /\ IsBuffer(r) /\ r.nextSegID = bb.nextSegID
        /\ r.ackedSegID = bb.ackedSegID /\ r.ackedOff = bb.ackedOff
        /\ r.BufferFull = bb.BufferFull /\ r.skipped = bb.skipped
        /\ r.nextReadSeg = bb.nextReadSeg /\ r.nextReadOff = bb.nextReadOff
        /\ r.gone = bb.gone
        /\ \E a, z : Puts(bb, r, a, z) /\ r.segments[a].recs[z] = n
    BY <1>1, AppendPuts
  <1>3. PICK a, z : Puts(bb, r, a, z) /\ r.segments[a].recs[z] = n
    BY <1>2, Zenon
  <1>4. Extends(bb, r, past)
    BY <1>1, <1>2, <1>3, PutExtends, Zenon
  <1>5. Adds(r.segments, n - 1, n)
    <2>1. DOMAIN r.segments[a].recs = DOMAIN bb.segments[a].recs \cup {z} /\ Live(r) = Live(bb) /\ a \in Live(bb)
      BY <1>3, Zenon DEF Puts
    <2>2. a \in DOMAIN r.segments /\ z \in DOMAIN r.segments[a].recs /\ r.segments[a].recs[z] = n
      BY <1>3, <2>1, Zenon DEF Live
    <2> SUFFICES ASSUME NEW m \in 1..n, m \notin 1..(n - 1)
                 PROVE  \E i \in DOMAIN r.segments :
                            \E j \in DOMAIN r.segments[i].recs : r.segments[i].recs[j] = m
      BY Zenon DEF Adds
    <2>3. m = n
      OBVIOUS
    <2> QED
      BY <2>2, <2>3, Zenon
  <1> QED
    BY <1>2, <1>4, <1>5, ExtendsWhole, Zenon

-----------------------------------------------------------------------------
(* The three kinds of retention. *)

\* What removeOldestSegment has counted as dropped stays counted.
LEMMA GoneGrows ==
    ASSUME NEW bb, IsBuffer(bb), NEW S, NEW reason
    PROVE  bb.gone \subseteq removeOldest(bb, S, reason).gone
  <1> DEFINE lost == UNION {{Recs(bb, k)[l] : l \in UnackedFrom(bb, k)} : k \in S}
  <1>1. removeOldest(bb, S, reason).gone = IF reason = "" THEN bb.gone ELSE bb.gone \cup lost
    BY Zenon DEF removeOldest, IsBuffer
  <1> HIDE DEF lost
  <1> QED
    BY <1>1, Zenon

\* enforceMaxSize is a removal of the oldest segments, with their unacked records
\* counted.
LEMMA SizeRetention ==
    ASSUME NEW bb, IsBuffer(bb), IsListing(bb.segments), NEW r, r = enforceMaxSize(bb),
           NEW D, r.gone \subseteq D
    PROVE  Removes(bb, r, D) /\ r.nextSegID = bb.nextSegID
  <1> DEFINE over(k) == bb.BytesUsed - SizeOf(bb, {j \in Live(bb) : j < k}) > MaxSize
             S == {i \in Live(bb) : \E k \in Live(bb) : k >= i /\ over(k)}
  <1>1. r = removeOldest(bb, S, "size_limit")
    BY Zenon DEF enforceMaxSize
  <1>2. Live(bb) \subseteq Nat
    BY Zenon DEF IsListing, Live
  <1> HIDE DEF over
  <1>3. Oldest(bb, S)
    <2> SUFFICES ASSUME NEW i \in S, NEW k \in Live(bb) \ S PROVE i < k
      BY Zenon DEF Oldest
    <2>1. PICK h \in Live(bb) : h >= i /\ over(h)
      BY Zenon
    <2>2. ~(h >= k)
      BY <2>1, Zenon
    <2> QED
      BY <1>2, <2>1, <2>2
  <1> HIDE DEF S
  <1>4. \A i \in S : \A j \in UnackedFrom(bb, i) : Recs(bb, i)[j] \in D
    BY <1>1, RemoveGone, Zenon
  <1>5. r.nextSegID = bb.nextSegID
    BY <1>1, RemoveFields
  <1> QED
    BY <1>1, <1>3, <1>4, <1>5, Zenon DEF Removes

\* enforceMaxAge is a removal of the oldest segments, with their unacked records
\* counted.
LEMMA AgeRetention ==
    ASSUME NEW bb, IsBuffer(bb), IsListing(bb.segments), NEW r, r = enforceMaxAge(bb),
           NEW D, r.gone \subseteq D
    PROVE  Removes(bb, r, D) /\ r.nextSegID = bb.nextSegID
  <1> DEFINE old(j) == now - bb.segments[j].lastWrite > MaxAge
             S == {i \in Live(bb) : \A j \in Live(bb) : j <= i => old(j)}
  <1>1. r = removeOldest(bb, S, "age_limit")
    BY Zenon DEF enforceMaxAge
  <1>2. Live(bb) \subseteq Nat
    BY Zenon DEF IsListing, Live
  <1> HIDE DEF old
  <1>3. Oldest(bb, S)
    <2> SUFFICES ASSUME NEW i \in S, NEW k \in Live(bb) \ S PROVE i < k
      BY Zenon DEF Oldest
    <2>1. PICK j \in Live(bb) : j <= k /\ ~old(j)
      BY Zenon
    <2>2. ~(j <= i)
      BY <2>1, Zenon
    <2> QED
      BY <1>2, <2>1, <2>2
  <1> HIDE DEF S
  <1>4. \A i \in S : \A j \in UnackedFrom(bb, i) : Recs(bb, i)[j] \in D
    BY <1>1, RemoveGone, Zenon
  <1>5. r.nextSegID = bb.nextSegID
    BY <1>1, RemoveFields, SMTT(40)
  <1> QED
    BY <1>1, <1>3, <1>4, <1>5, Zenon DEF Removes

\* dropAckedSegments takes segments whose records are all acked.
LEMMA AckedRetention ==
    ASSUME NEW bb, NEW D, NEW ck, NEW past, NEW w, NEW r,
           Base(bb, D, ck, past, w), r = dropAckedSegments(bb)
    PROVE  Removes(bb, r, D) /\ Removes(bb, r, {}) /\ r.nextSegID = bb.nextSegID
  <1> DEFINE clear(j) == unackedRecords(bb, j) = 0
             S == {i \in Live(bb) : /\ \E k \in Live(bb) : k > i
                                    /\ \A j \in Live(bb) : j <= i => clear(j)}
  <1>1. r = removeOldest(bb, S, "")
    BY ZenonT(40) DEF dropAckedSegments
  <1>2. Live(bb) \subseteq Nat
    BY Zenon DEF Base, FilesOK, IsListing, Live
  <1>3. ASSUME NEW i \in Live(bb), clear(i), NEW j \in UnackedFrom(bb, i)
        PROVE  FALSE
    <2>1. Recs(bb, i) \in Seq(Nat \ {0}) /\ i \in Nat /\ bb.ackedSegID \in Nat /\ j \in DOMAIN Recs(bb, i)
      BY Zenon DEF Base, FilesOK, StructOK, IsListing, Live, Recs, Segments, UnackedFrom
    <2>2. i >= bb.ackedSegID
      BY <2>1 DEF UnackedFrom, Beyond
    <2>3. CASE i > bb.ackedSegID
      <3>1. unackedRecords(bb, i) = bb.segments[i].recordCount
        BY <2>1, <2>3, SMTT(40) DEF unackedRecords
      <3>2. Len(Recs(bb, i)) = 0
        BY <1>3, <2>3, <3>1, Zenon DEF Base, StructOK
      <3> QED
        BY <2>1, <3>2
    <2>4. CASE i = bb.ackedSegID
      <3>1. /\ j > bb.ackedOff /\ j <= Len(Recs(bb, i)) /\ j \in Nat /\ Len(Recs(bb, i)) \in Nat
            /\ bb.ackedOff \in Nat
        <4>1. bb.ackedOff \in Nat
          BY Zenon DEF Base, StructOK
        <4> QED
          BY <2>1, <2>4, <4>1 DEF UnackedFrom, Beyond
      <3>2. ~(i < bb.ackedSegID) /\ ~(i > bb.ackedSegID) /\ bb.ackedOff < Len(Recs(bb, i))
        BY <2>1, <2>4, <3>1
      <3>3. unackedRecords(bb, i) = Len(Recs(bb, i)) - bb.ackedOff
        BY <2>4, <3>2, Zenon DEF unackedRecords
      <3>4. unackedRecords(bb, i) = 0
        BY <1>3, Zenon
      <3> QED
        BY <3>1, <3>2, <3>3, <3>4
    <2> QED
      BY <2>1, <2>2, <2>3, <2>4, SMTT(40)
  <1>4. \A i \in S : \A j \in UnackedFrom(bb, i) : Recs(bb, i)[j] \in D /\ Recs(bb, i)[j] \in {}
    BY <1>2, <1>3
  <1> HIDE DEF clear
  <1>5. Oldest(bb, S)
    <2> SUFFICES ASSUME NEW i \in S, NEW k \in Live(bb) \ S PROVE i < k
      BY Zenon DEF Oldest
    <2>1. ASSUME k <= i PROVE FALSE
      <3>1. PICK h \in Live(bb) : h > i
        BY Zenon
      <3>2. h > k
        BY <1>2, <2>1, <3>1
      <3>3. \A j \in Live(bb) : j <= k => clear(j)
        BY <1>2, <2>1
      <3> QED
        BY <3>2, <3>3, Zenon
    <2> QED
      BY <1>2, <2>1
  <1> HIDE DEF S
  <1>6. PICK reason : r = removeOldest(bb, S, reason)
    BY <1>1, ZenonT(40)
  <1>7. r.nextSegID = bb.nextSegID
    BY <1>6, RemoveFields, SMTT(60) DEF Base, StructOK
  <1> QED
    BY <1>4, <1>5, <1>6, <1>7, Zenon DEF Removes

\* Two retention passes in a row, as Append and Open make them, are one.
LEMMA TrimsTwice ==
    ASSUME NEW bb, NEW r, NEW q, NEW D, Trims(bb, r, D), Trims(r, q, D)
    PROVE  Trims(bb, q, D)
  BY SMTT(40) DEF Trims, Recs

\* The files of trimmed segments that os.Remove leaves.
LEMMA LeaveBehind ==
    ASSUME NEW bb, NEW r, NEW left, NEW D, NEW D2, NEW m,
           IsListing(bb.segments), LeftoverOK(bb.segments, left, D), Bounded(bb.segments, left, m),
           \A i \in Live(bb) : bb.segments[i].synced <= Len(Recs(bb, i)),
           D \subseteq D2, Trims(bb, r, D2),
           NEW S, S \subseteq Live(bb) \ Live(r),
           NEW left2, left2 = Merge(left, [i \in S |-> bb.segments[i]])
    PROVE  LeftoverOK(r.segments, left2, D2) /\ Bounded(r.segments, left2, m)
  <1>1. /\ DOMAIN left2 = DOMAIN left \cup S
        /\ \A i \in DOMAIN left : left2[i] = left[i]
        /\ \A i \in S \ DOMAIN left : left2[i] = bb.segments[i]
    BY SMTT(40) DEF Merge
  <1>2. S \subseteq DOMAIN bb.segments /\ DOMAIN r.segments \subseteq DOMAIN bb.segments
    BY SMTT(40) DEF Trims, Live
  <1>3. IsListing(left2)
    BY <1>1, <1>2, SMTT(40) DEF LeftoverOK, IsListing
  <1>4. \A l \in DOMAIN left2 : \A i \in DOMAIN r.segments : l < i
    BY <1>1, <1>2, SMTT(40) DEF LeftoverOK, Trims, Live
  <1>5. ASSUME NEW i \in DOMAIN left2
        PROVE  /\ \A j \in DOMAIN left2[i].recs : left2[i].recs[j] \in D2
               /\ left2[i].synced <= Len(left2[i].recs)
    BY <1>1, <1>2 DEF LeftoverOK, Trims, Live, Recs
  <1> QED
    BY <1>1, <1>2, <1>3, <1>4, <1>5, SMTT(40) DEF LeftoverOK, Bounded

-----------------------------------------------------------------------------
(* The parts of Append. *)

\* Append's first step, which opens a segment if there is none, keeps the
\* invariant.
LEMMA OpenedOK ==
    ASSUME NEW bb, NEW left, NEW D, NEW ck, NEW past, NEW fl, NEW w,
           Whole(bb, left, D, ck, past, fl, w), now \in Nat, NEW r, r = Opened(bb)
    PROVE  Whole(r, left, D, ck, past, fl, w) /\ Live(r) # {} /\ r.gone = bb.gone
  <1>1. CASE Live(bb) = {}
    <2>1. r = newSegment(bb)
      BY <1>1, Zenon DEF Opened
    <2> QED
      BY <1>1, <2>1, NewSegment, Zenon
  <1>2. CASE Live(bb) # {}
    BY <1>2, SMTT(40) DEF Opened
  <1> QED
    BY <1>1, <1>2, Zenon

\* The active segment, the one Append writes to, is the newest.
LEMMA ActiveSegment ==
    ASSUME NEW bb, NEW D, NEW ck, NEW past, NEW fl, NEW w,
           OK(bb, D, ck, past, fl, w), Live(bb) # {}
    PROVE  /\ Active(bb) \in Live(bb) /\ \A i \in Live(bb) : i <= Active(bb)
           /\ Active(bb) \in Nat
           /\ bb.segments[Active(bb)] \in Segments
           /\ bb.segments[Active(bb)].synced <= Len(bb.segments[Active(bb)].recs)
  <1>1. /\ Live(bb) \subseteq Nat /\ bb.nextSegID \in Nat /\ \A i \in Live(bb) : i < bb.nextSegID
        /\ \A i \in Live(bb) : /\ bb.segments[i] \in Segments
                               /\ bb.segments[i].synced <= Len(bb.segments[i].recs)
    BY ZenonT(40) DEF OK, FilesOK, ProcessOK, StructOK, IsListing, Live
  <1>2. Active(bb) \in Live(bb) /\ \A i \in Live(bb) : i <= Active(bb)
    BY <1>1, ActiveID, Zenon
  <1> QED
    BY <1>1, <1>2, SMTT(40)

\* Replacing the active segment by one with the same records keeps the invariant.
LEMMA ReplaceActive ==
    ASSUME NEW bb, NEW left, NEW D, NEW ck, NEW past, NEW past2, NEW fl, NEW w,
           Whole(bb, left, D, ck, past, fl, w), Live(bb) # {}, past2 \subseteq past,
           NEW seg, seg \in Segments,
           seg.recs = Recs(bb, Active(bb)),
           seg.recordCount = bb.segments[Active(bb)].recordCount,
           seg.synced <= Len(seg.recs),
           past2 # {} => seg.synced = bb.segments[Active(bb)].synced,
           NEW r, r = [bb EXCEPT !.segments = WithActive(bb, seg)]
    PROVE  Whole(r, left, D, ck, past2, fl, w) /\ Live(r) = Live(bb) /\ r.gone = bb.gone
  <1> DEFINE a == Active(bb)
  <1>1. IsBuffer(bb) /\ IsListing(bb.segments) /\ bb.nextSegID \in Nat /\ bb.BufferFull \in BOOLEAN
    BY Zenon DEF Whole, OK, FilesOK, ProcessOK, StructOK
  <1>2. a \in Live(bb) /\ a \in Nat
    BY <1>1, ActiveID, Zenon DEF Whole, OK, ProcessOK, StructOK, IsListing, Live
  <1>3. /\ IsBuffer(r) /\ r.nextSegID = bb.nextSegID
        /\ r.segments = WithActive(bb, seg)
        /\ r.ackedSegID = bb.ackedSegID /\ r.ackedOff = bb.ackedOff
        /\ r.BufferFull = bb.BufferFull /\ r.skipped = bb.skipped
        /\ r.nextReadSeg = bb.nextReadSeg /\ r.nextReadOff = bb.nextReadOff
        /\ r.gone = bb.gone
    BY <1>1, Zenon DEF IsBuffer
  <1>4. /\ Live(r) = Live(bb) /\ r.segments[a] = seg
        /\ \A i \in Live(bb) : i # a => r.segments[i] = bb.segments[i]
    BY <1>2, <1>3 DEF WithActive, Live
  <1>5. IsListing(r.segments)
    BY <1>1, <1>4, Zenon DEF IsListing, Live
  <1>6. \A i \in Live(bb) : /\ Recs(r, i) = Recs(bb, i)
                            /\ r.segments[i].recordCount = bb.segments[i].recordCount
                            /\ r.segments[i].synced <= Len(Recs(bb, i))
                            /\ past2 # {} => r.segments[i].synced = bb.segments[i].synced
    BY <1>4, Zenon DEF Recs, Whole, OK, FilesOK, Live
  <1>7. bb.nextSegID <= r.nextSegID
    BY <1>1, <1>3
  <1>8. Same(bb, r, past2)
    BY <1>1, <1>3, <1>4, <1>5, <1>6, <1>7, Zenon DEF Same
  <1>9. Whole(r, left, D, ck, past2, fl, w)
    BY <1>8, SameRecords, Zenon
  <1> QED
    BY <1>3, <1>4, <1>9, Zenon

\* Once synced, the records of the active segment survive a power failure, and no
\* earlier checkpoint may come back.
LEMMA SyncOK ==
    ASSUME NEW bb, NEW left, NEW D, NEW ck, NEW past, NEW fl, NEW w,
           Whole(bb, left, D, ck, past, fl, w), Live(bb) # {}, NEW r, r = Sync(bb)
    PROVE  Whole(r, left, D, ck, {}, fl, w) /\ Live(r) = Live(bb) /\ r.gone = bb.gone
  <1> DEFINE old == bb.segments[Active(bb)]
             seg == [old EXCEPT !.synced = Len(old.recs)]
  <1>1. old \in Segments
    BY ActiveSegment, Zenon DEF Whole
  <1>2. r = [bb EXCEPT !.segments = WithActive(bb, seg)]
    BY Zenon DEF Sync
  <1> HIDE DEF old
  <1>3. Len(old.recs) \in Nat
    BY <1>1 DEF Segments
  <1>4. /\ seg \in Segments /\ seg.recs = old.recs /\ seg.recordCount = old.recordCount
        /\ seg.synced = Len(old.recs)
    BY <1>1, <1>3, SMTT(40) DEF Segments
  <1> HIDE DEF seg
  <1>5. seg.recs = Recs(bb, Active(bb)) /\ seg.recordCount = bb.segments[Active(bb)].recordCount
    BY <1>4, Zenon DEF old, Recs
  <1>6. seg.synced <= Len(seg.recs)
    BY <1>3, <1>4
  <1>7. ASSUME NEW e, e = {}
        PROVE  Whole(r, left, D, ck, e, fl, w) /\ Live(r) = Live(bb) /\ r.gone = bb.gone
    <2>1. e \subseteq past /\ (e # {} => seg.synced = bb.segments[Active(bb)].synced)
      BY <1>7, Zenon
    <2> QED
      BY <2>1, <1>2, <1>4, <1>5, <1>6, ReplaceActive, SMTT(40)
  <1> QED
    BY <1>7, SMTT(40)

\* A write that fails half way tears the end of the active segment and keeps the
\* invariant.
LEMMA TornOK ==
    ASSUME NEW bb, NEW left, NEW D, NEW ck, NEW past, NEW fl, NEW w, NEW t \in BOOLEAN,
           Whole(bb, left, D, ck, past, fl, w), Live(bb) # {}, now \in Nat,
           NEW r, r = TornAppend(bb, t)
    PROVE  Whole(r, left, D, ck, past, fl, w)
  <1> DEFINE old == bb.segments[Active(bb)]
             seg == [old EXCEPT !.torn = t, !.modTime = now]
  <1>1. old \in Segments /\ old.synced <= Len(old.recs)
    BY ActiveSegment, Zenon DEF Whole
  <1>2. r = [bb EXCEPT !.segments = WithActive(bb, seg)]
    BY Zenon DEF TornAppend
  <1> HIDE DEF old
  <1>4. /\ seg \in Segments /\ seg.recs = old.recs /\ seg.recordCount = old.recordCount
        /\ seg.synced = old.synced
    BY <1>1, Zenon DEF Segments
  <1> HIDE DEF seg
  <1>5. /\ seg.recs = Recs(bb, Active(bb)) /\ seg.recordCount = bb.segments[Active(bb)].recordCount
        /\ seg.synced = bb.segments[Active(bb)].synced
    BY <1>4, Zenon DEF old, Recs
  <1>6. seg.synced <= Len(seg.recs)
    BY <1>1, <1>4, Zenon
  <1> QED
    BY <1>2, <1>4, <1>5, <1>6, ReplaceActive, ZenonT(40)

\* A roll syncs the segment it leaves, so the new active one starts with no
\* checkpoint to fall back to.
LEMMA RolledOK ==
    ASSUME NEW bb, NEW left, NEW D, NEW ck, NEW past, NEW fl, NEW w, NEW n,
           Whole(bb, left, D, ck, past, fl, w), Live(bb) # {}, now \in Nat,
           NEW r, r = Rolled(bb, n), NEW past2, past2 = IF MustRoll(bb, n) THEN {} ELSE past
    PROVE  Whole(r, left, D, ck, past2, fl, w) /\ Live(r) # {} /\ r.gone = bb.gone
  <1>1. CASE MustRoll(bb, n)
    <2>1. r = newSegment(Sync(bb)) /\ past2 = {}
      BY <1>1, Zenon DEF Rolled
    <2>2. Whole(Sync(bb), left, D, ck, {}, fl, w) /\ Sync(bb).gone = bb.gone
      BY SyncOK, Zenon
    <2> QED
      BY <2>1, <2>2, NewSegment, Zenon
  <1>2. CASE ~MustRoll(bb, n)
    BY <1>2, Zenon DEF Rolled
  <1> QED
    BY <1>1, <1>2, Zenon

\* Append up to the point where it trims.
LEMMA WrittenOK ==
    ASSUME NEW bb, NEW left, NEW D, NEW ck, NEW past, NEW fl, NEW n \in Nat, n # 0,
           Whole(bb, left, D, ck, past, fl, n - 1), now \in Nat,
           NEW r, r = SegmentAppend(Rolled(Opened(bb), n), n),
           NEW past2, past2 = IF MustRoll(Opened(bb), n) THEN {} ELSE past
    PROVE  Whole(r, left, D, ck, past2, fl, n) /\ r.gone = bb.gone
  <1>1. /\ Whole(Opened(bb), left, D, ck, past, fl, n - 1)
        /\ Live(Opened(bb)) # {} /\ Opened(bb).gone = bb.gone
    BY OpenedOK, SMTT(40)
  <1>2. /\ Whole(Rolled(Opened(bb), n), left, D, ck, past2, fl, n - 1)
        /\ Live(Rolled(Opened(bb), n)) # {} /\ Rolled(Opened(bb), n).gone = bb.gone
    BY <1>1, RolledOK
  <1> QED
    BY <1>2, GrowActive


-----------------------------------------------------------------------------
(* The two forms of the inductive invariant: a running and a stopped process. *)

Checkpoints == IsCheckpoint(acked) /\ \A c \in ackedPast : IsCheckpoint(c)
Numbers == up \in BOOLEAN /\ now \in Nat /\ written \in Nat /\ IsPosition(inflight) /\ inflight.n \in Nat

\* What IndInv says of a running process, as the lemmas on operators take it.
LEMMA IndInvUp ==
    ASSUME IndInv, up
    PROVE  /\ Whole(b, leftover, Done, acked, ackedPast, inflight, written)
           /\ Checkpoints /\ Numbers
  BY Zenon DEF IndInv, TypeOK, Whole, OK, Checkpoints, Numbers, IsCheckpoint

\* What IndInv says of the files and the checkpoint, process or not.
LEMMA IndInvDown ==
    ASSUME IndInv
    PROVE  /\ FilesOK(b.segments, Done, acked, ackedPast, written)
           /\ LeftoverOK(b.segments, leftover, Done)
           /\ Bounded(b.segments, leftover, b.nextSegID)
           /\ Checkpoints /\ Numbers
           /\ ~up => inflight = NoRecord
  BY Zenon DEF IndInv, TypeOK, Checkpoints, Numbers, IsCheckpoint

\* How the lemmas' conclusions make IndInv again, for a running process.
LEMMA UpIndInv ==
    ASSUME up', Whole(b', leftover', Done', acked', ackedPast', inflight', written'),
           Checkpoints', Numbers'
    PROVE  IndInv'
  <1>1. /\ FilesOK(b.segments, Done, acked, ackedPast, written)'
        /\ ProcessOK(b, Done, acked, inflight)'
        /\ LeftoverOK(b.segments, leftover, Done)'
        /\ Bounded(b.segments, leftover, b.nextSegID)'
    BY Zenon DEF Whole, OK
  <1>2. TypeOK'
    BY <1>1, Zenon DEF TypeOK, FilesOK, LeftoverOK, ProcessOK, StructOK, Checkpoints, Numbers, IsCheckpoint
  <1> QED
    BY <1>1, <1>2, Zenon DEF IndInv, Checkpoints

\* How they make IndInv again when the process has ended and only files are left.
LEMMA DownIndInv ==
    ASSUME NEW segs, NEW next, Stop(segs, next),
           FilesOK(segs, Done', acked', ackedPast', written'),
           LeftoverOK(segs, leftover', Done'), Bounded(segs, leftover', next),
           Checkpoints', now' \in Nat, written' \in Nat
    PROVE  IndInv'
  <1>1. /\ up' = FALSE /\ inflight' = NoRecord /\ b' = Fresh(segs, next, 0, 0)
    BY Zenon DEF Stop
  <1>2. /\ IsBuffer(b') /\ b'.segments = segs /\ b'.nextSegID = next
        /\ b'.nextReadSeg = 0 /\ b'.nextReadOff = 0 /\ b'.ackedSegID = 0 /\ b'.ackedOff = 0
        /\ b'.BufferFull = FALSE
    BY <1>1, Zenon DEF Fresh, IsBuffer
  <1>3. inflight'.n = 0 /\ inflight'.seg = 0 /\ inflight'.off = 0
    BY <1>1, Zenon DEF NoRecord
  <1>4. TypeOK'
    <2>1. IsListing(segs) /\ IsListing(leftover') /\ next \in Nat
      BY Zenon DEF FilesOK, LeftoverOK, Bounded
    <2>2. (IsPosition(acked) /\ acked.have \in BOOLEAN)'
          /\ (\A c \in ackedPast : IsPosition(c) /\ c.have \in BOOLEAN)'
      BY Zenon DEF Checkpoints, IsCheckpoint
    <2>3. (IsPosition(inflight) /\ inflight.n \in Nat)'
      BY <1>3 DEF IsPosition
    <2>4. (up \in BOOLEAN)' /\ (b.BufferFull \in BOOLEAN)'
      BY <1>1, <1>2, Zenon
    <2> QED
      BY <1>2, <2>1, <2>2, <2>3, <2>4 DEF TypeOK
  <1> QED
    BY <1>1, <1>2, <1>3, <1>4, Zenon DEF IndInv, Checkpoints

-----------------------------------------------------------------------------
(* The actions of a running process. *)

\* Both retention loops keep the buffer's type and only add to what is counted.
LEMMA RetentionGone ==
    ASSUME NEW bb, IsBuffer(bb)
    PROVE  /\ IsBuffer(enforceMaxSize(bb)) /\ bb.gone \subseteq enforceMaxSize(bb).gone
           /\ IsBuffer(enforceMaxAge(bb)) /\ bb.gone \subseteq enforceMaxAge(bb).gone
  <1>1. \A S : LET r == removeOldest(bb, S, "size_limit") IN IsBuffer(r) /\ bb.gone \subseteq r.gone
    BY RemoveFields, GoneGrows, Zenon
  <1>2. \A S : LET r == removeOldest(bb, S, "age_limit") IN IsBuffer(r) /\ bb.gone \subseteq r.gone
    BY RemoveFields, GoneGrows, Zenon
  <1> QED
    BY <1>1, <1>2, Zenon DEF enforceMaxSize, enforceMaxAge

\* Size and age retention one after the other, in either order: Append trims by
\* size first and Open by age.
LEMMA Retention ==
    ASSUME NEW bb, IsBuffer(bb), IsListing(bb.segments),
           NEW r, r = Trimmed(bb) \/ r = enforceMaxSize(enforceMaxAge(bb)),
           NEW D, r.gone \subseteq D
    PROVE  /\ \E q : Removes(bb, q, D) /\ Removes(q, r, D)
           /\ r.nextSegID = bb.nextSegID
  <1>1. ASSUME NEW q, q = enforceMaxSize(bb) \/ q = enforceMaxAge(bb)
        PROVE  IsBuffer(q) /\ IsListing(q.segments)
    <2>1. PICK S, reason : q = removeOldest(bb, S, reason)
      BY <1>1, Zenon DEF enforceMaxSize, enforceMaxAge
    <2> QED
      BY <2>1, RemoveFields, RemoveSegments DEF IsListing
  <1>2. CASE r = Trimmed(bb)
    <2> DEFINE q == enforceMaxSize(bb)
    <2>1. r = enforceMaxAge(q)
      BY <1>2, Zenon DEF Trimmed
    <2>2. IsBuffer(q) /\ IsListing(q.segments)
      BY <1>1, Zenon
    <2>3. q.gone \subseteq D
      BY <2>1, <2>2, RetentionGone, Zenon
    <2> QED
      BY <2>1, <2>2, <2>3, SizeRetention, AgeRetention
  <1>3. CASE r = enforceMaxSize(enforceMaxAge(bb))
    <2> DEFINE q == enforceMaxAge(bb)
    <2>1. r = enforceMaxSize(q)
      BY <1>3, Zenon
    <2>2. IsBuffer(q) /\ IsListing(q.segments)
      BY <1>1, Zenon
    <2>3. q.gone \subseteq D
      BY <2>1, <2>2, RetentionGone, Zenon
    <2> QED
      BY <2>1, <2>2, <2>3, SizeRetention, AgeRetention, Zenon
  <1> QED
    BY <1>2, <1>3, Zenon

\* The retention at the end of Append keeps the invariant.
LEMMA TrimmedOK ==
    ASSUME NEW bb, NEW D, NEW ck, NEW past, NEW fl, NEW w, OK(bb, D, ck, past, fl, w),
           NEW r, r = Trimmed(bb), NEW D2, D \subseteq D2, r.gone \subseteq D2
    PROVE  OK(r, D2, ck, past, fl, w) /\ Trims(bb, r, D2) /\ r.nextSegID = bb.nextSegID
  <1>1. Base(bb, D, ck, past, w)
    BY OKBase, Zenon
  <1>2. IsBuffer(bb) /\ IsListing(bb.segments)
    BY <1>1, Zenon DEF Base, StructOK, FilesOK
  <1>3. PICK q : Removes(bb, q, D2) /\ Removes(q, r, D2)
    BY <1>2, Retention, Zenon
  <1>4. OK(q, D2, ck, past, fl, w) /\ Base(q, D2, ck, past, w) /\ Trims(bb, q, D2)
    BY <1>1, <1>3, RemoveBase, RemoveOldest, Zenon
  <1>5. OK(r, D2, ck, past, fl, w) /\ Trims(q, r, D2)
    BY <1>3, <1>4, RemoveBase, RemoveOldest, Zenon
  <1> QED
    BY <1>2, <1>4, <1>5, TrimsTwice, Retention, Zenon

\* The retention of Open.
LEMMA OpenTrims ==
    ASSUME NEW bb, NEW D, NEW ck, NEW past, NEW w, Base(bb, D, ck, past, w),
           NEW r, r = enforceMaxSize(enforceMaxAge(dropAckedSegments(bb))),
           NEW D2, D \subseteq D2, r.gone \subseteq D2
    PROVE  Base(r, D2, ck, past, w) /\ Trims(bb, r, D2) /\ r.nextSegID = bb.nextSegID
  <1> DEFINE p == dropAckedSegments(bb)
  <1>1. Removes(bb, p, D) /\ p.nextSegID = bb.nextSegID
    BY AckedRetention
  <1>2. Removes(bb, p, D2)
    BY <1>1, Zenon DEF Removes
  <1>3. r = enforceMaxSize(enforceMaxAge(p))
    BY Zenon
  <1> HIDE DEF p
  <1>4. Base(p, D2, ck, past, w) /\ Trims(bb, p, D2)
    BY <1>2, RemoveBase, SMTT(40)
  <1>5. IsBuffer(p) /\ IsListing(p.segments)
    BY <1>4, Zenon DEF Base, StructOK, FilesOK
  <1>6. PICK q : Removes(p, q, D2) /\ Removes(q, r, D2)
    BY <1>3, <1>5, Retention, Zenon
  <1>7. r.nextSegID = bb.nextSegID
    BY <1>1, <1>3, <1>5, Retention, Zenon
  <1>8. Base(q, D2, ck, past, w) /\ Trims(p, q, D2)
    BY <1>4, <1>6, RemoveBase, Zenon
  <1>9. Base(r, D2, ck, past, w) /\ Trims(q, r, D2)
    BY <1>6, <1>8, RemoveBase, Zenon
  <1> QED
    BY <1>4, <1>7, <1>8, <1>9, TrimsTwice, Zenon

\* Append of a record that succeeds keeps IndInv.
LEMMA AppendRecordInv ==
    ASSUME IndInv, AppendRecord
    PROVE  IndInv'
  <1> DEFINE n == written + 1
             past == IF MustRoll(Opened(b), n) THEN {} ELSE ackedPast
             b2 == SegmentAppend(Rolled(Opened(b), n), n)
             b4 == Trimmed(b2)
             D == Done
             D2 == Done'
  <1>1. /\ up /\ up' = up /\ b' = [b4 EXCEPT !.BufferFull = FALSE] /\ Unlink(b2, b')
        /\ written' = n /\ reported' = reported \cup b'.gone /\ ackedPast' = past
        /\ acked' = acked /\ inflight' = inflight /\ now' = now
        /\ consumed' = consumed /\ atRisk' = atRisk
    BY Zenon DEF AppendRecord
  <1>2. Whole(b, leftover, D, acked, ackedPast, inflight, written) /\ Checkpoints /\ Numbers
    BY <1>1, IndInvUp, Zenon
  <1>3. n \in Nat /\ n # 0 /\ n - 1 = written /\ now \in Nat
    BY <1>2 DEF Numbers
  <1> HIDE DEF n, past, b2, b4, D, D2
  <1>4. Whole(b2, leftover, D, acked, past, inflight, n)
    BY <1>2, <1>3, WrittenOK, Zenon DEF b2, past
  <1>5. IsBuffer(b4)
    BY <1>4, RetentionGone, Zenon DEF Whole, OK, ProcessOK, StructOK, b4, Trimmed
  <1>6. /\ IsBuffer(b') /\ b'.segments = b4.segments /\ b'.gone = b4.gone
        /\ b'.nextSegID = b4.nextSegID
        /\ b'.nextReadSeg = b4.nextReadSeg /\ b'.nextReadOff = b4.nextReadOff
        /\ b'.ackedSegID = b4.ackedSegID /\ b'.ackedOff = b4.ackedOff
        /\ b'.skipped = b4.skipped /\ b'.BufferFull = FALSE
    BY <1>1, <1>5, Zenon DEF IsBuffer
  <1>7. D \subseteq D2 /\ b4.gone \subseteq D2
    BY <1>1, <1>6, ZenonT(40) DEF D, D2, Done
  <1>8. OK(b4, D2, acked, past, inflight, n) /\ Trims(b2, b4, D2) /\ b4.nextSegID = b2.nextSegID
    BY <1>4, <1>7, TrimmedOK DEF Whole, b4
  <1>9. PICK S \in SUBSET (Live(b2) \ Live(b')) :
           leftover' = Merge(leftover, [i \in S |-> b2.segments[i]])
    BY <1>1, Zenon DEF Unlink
  <1>10. S \subseteq Live(b2) \ Live(b4)
    BY <1>6, <1>9, Zenon DEF Live
  <1>11. /\ IsListing(b2.segments) /\ LeftoverOK(b2.segments, leftover, D)
         /\ Bounded(b2.segments, leftover, b2.nextSegID)
         /\ \A i \in Live(b2) : b2.segments[i].synced <= Len(Recs(b2, i))
    BY <1>4, Zenon DEF Whole, OK, FilesOK, Live, Recs
  <1>12. LeftoverOK(b4.segments, leftover', D2) /\ Bounded(b4.segments, leftover', b4.nextSegID)
    BY <1>7, <1>8, <1>9, <1>10, <1>11, LeaveBehind, Zenon
  <1>13. Whole(b4, leftover', D2, acked, past, inflight, n)
    BY <1>4, <1>8, <1>12, Zenon DEF Whole
  <1>14. Same(b4, b', past)
    <2>1. IsListing(b4.segments) /\ b4.nextSegID \in Nat
          /\ \A i \in Live(b4) : b4.segments[i].synced <= Len(Recs(b4, i))
      BY <1>8, Zenon DEF OK, FilesOK, ProcessOK, StructOK, Live, Recs
    <2>2. b'.BufferFull \in BOOLEAN
      BY <1>6, Zenon
    <2>3. Live(b') = Live(b4) /\ \A i \in Live(b4) : b'.segments[i] = b4.segments[i]
      BY <1>6, Zenon DEF Live
    <2>4. IsListing(b'.segments) /\ b'.nextSegID \in Nat /\ b4.nextSegID <= b'.nextSegID
      BY <1>6, <2>1
    <2> QED
      BY <1>6, <2>1, <2>2, <2>3, <2>4, Zenon DEF Same, Recs
  <1>15. Whole(b', leftover', D2, acked, past, inflight, n)
    BY <1>13, <1>14, SameRecords, Zenon
  <1>16. Whole(b', leftover', Done', acked', ackedPast', inflight', written')
    BY <1>1, <1>15, Zenon DEF D2
  <1>17. Checkpoints' /\ Numbers'
    BY <1>1, <1>2, <1>3, Zenon DEF Checkpoints, Numbers, past
  <1> QED
    BY <1>1, <1>16, <1>17, UpIndInv, Zenon

\* A newSegment that fails after taking an ID only leaves a gap in the numbering.
LEMMA SkipID ==
    ASSUME NEW bb, NEW left, NEW D, NEW ck, NEW past, NEW fl, NEW w,
           Whole(bb, left, D, ck, past, fl, w),
           NEW r, r = [bb EXCEPT !.nextSegID = bb.nextSegID + 1]
    PROVE  Whole(r, left, D, ck, past, fl, w)
  <1>1. /\ IsBuffer(bb) /\ IsListing(bb.segments) /\ bb.nextSegID \in Nat /\ bb.BufferFull \in BOOLEAN
        /\ \A i \in Live(bb) : bb.segments[i].synced <= Len(Recs(bb, i))
    BY Zenon DEF Whole, OK, FilesOK, ProcessOK, StructOK, Live, Recs
  <1>2. /\ IsBuffer(r) /\ r.segments = bb.segments /\ r.nextSegID = bb.nextSegID + 1
        /\ r.nextReadSeg = bb.nextReadSeg /\ r.nextReadOff = bb.nextReadOff
        /\ r.ackedSegID = bb.ackedSegID /\ r.ackedOff = bb.ackedOff
        /\ r.skipped = bb.skipped /\ r.BufferFull = bb.BufferFull
    BY <1>1, Zenon DEF IsBuffer
  <1>3. Live(r) = Live(bb) /\ \A i \in Live(bb) : r.segments[i] = bb.segments[i]
    BY <1>2, Zenon DEF Live
  <1>4. IsListing(r.segments) /\ r.nextSegID \in Nat /\ bb.nextSegID <= r.nextSegID
    BY <1>1, <1>2
  <1>5. Same(bb, r, past)
    BY <1>1, <1>2, <1>3, <1>4, Zenon DEF Same, Recs
  <1> QED
    BY <1>5, SameRecords, Zenon

\* handleWriteError's flag is no part of the invariant.
LEMMA SetBufferFull ==
    ASSUME NEW bb, NEW left, NEW D, NEW ck, NEW past, NEW fl, NEW w, NEW v \in BOOLEAN,
           Whole(bb, left, D, ck, past, fl, w), NEW r, r = [bb EXCEPT !.BufferFull = v]
    PROVE  Whole(r, left, D, ck, past, fl, w)
  <1>1. /\ IsBuffer(bb) /\ IsListing(bb.segments) /\ bb.nextSegID \in Nat
        /\ \A i \in Live(bb) : bb.segments[i].synced <= Len(Recs(bb, i))
    BY Zenon DEF Whole, OK, FilesOK, ProcessOK, StructOK, Live, Recs
  <1>2. /\ IsBuffer(r) /\ r.segments = bb.segments /\ r.nextSegID = bb.nextSegID
        /\ r.nextReadSeg = bb.nextReadSeg /\ r.nextReadOff = bb.nextReadOff
        /\ r.ackedSegID = bb.ackedSegID /\ r.ackedOff = bb.ackedOff
        /\ r.skipped = bb.skipped
    BY <1>1, Zenon DEF IsBuffer
  <1>3. r.BufferFull \in BOOLEAN
    BY <1>1, Zenon DEF IsBuffer
  <1>4. Live(r) = Live(bb) /\ \A i \in Live(bb) : r.segments[i] = bb.segments[i]
    BY <1>2, Zenon DEF Live
  <1>5. IsListing(r.segments) /\ r.nextSegID \in Nat /\ bb.nextSegID <= r.nextSegID
    BY <1>1, <1>2
  <1>6. Same(bb, r, past)
    BY <1>1, <1>2, <1>3, <1>4, <1>5, Zenon DEF Same, Recs
  <1> QED
    BY <1>6, SameRecords, Zenon

\* An Append that fails at any of its steps keeps IndInv.
LEMMA AppendErrorInv ==
    ASSUME IndInv, AppendError
    PROVE  IndInv'
  <1> DEFINE W(bb, past) == Whole(bb, leftover, Done, acked, past, inflight, written)
             n == written + 1
             b1 == Opened(b)
             b2 == Rolled(b1, n)
             roll == MustRoll(b1, n)
             after(synced) == IF synced THEN {} ELSE ackedPast
  <1>1. PICK f \in FailedAppends(n), enospc \in BOOLEAN :
          /\ b' = [f[1] EXCEPT !.BufferFull = f[1].BufferFull \/ enospc]
          /\ ackedPast' = after(f[2])
    BY Zenon DEF AppendError
  <1>2. /\ up /\ up' = up /\ leftover' = leftover /\ acked' = acked /\ inflight' = inflight
        /\ now' = now /\ written' = written /\ consumed' = consumed
        /\ reported' = reported /\ atRisk' = atRisk
    BY Zenon DEF AppendError, history
  <1>3. W(b, ackedPast) /\ Checkpoints /\ Numbers /\ now \in Nat
    BY <1>2, IndInvUp, Zenon DEF Numbers
  <1>4. W(b1, ackedPast) /\ Live(b1) # {}
    BY <1>3, OpenedOK, Zenon
  <1>5. W(b2, after(roll)) /\ Live(b2) # {}
    BY <1>3, <1>4, RolledOK
  <1>6. W(Sync(b1), {})
    BY <1>4, SyncOK, Zenon
  <1>7. W(f[1], after(f[2]))
    <2> DEFINE skipID(bb) == [bb EXCEPT !.nextSegID = bb.nextSegID + 1]
    <2>1. \/ f = <<skipID(b), FALSE>>
          \/ f = <<b1, FALSE>>
          \/ f = <<skipID(Sync(b1)), TRUE>>
          \/ \E t \in BOOLEAN : f = <<TornAppend(b2, t), roll>>
      BY Zenon DEF FailedAppends
    <2>2. CASE f = <<skipID(b), FALSE>>
      BY <2>2, <1>3, SkipID, Zenon
    <2>3. CASE f = <<b1, FALSE>>
      BY <2>3, <1>4, Zenon
    <2>4. CASE f = <<skipID(Sync(b1)), TRUE>>
      BY <2>4, <1>6, SkipID, Zenon
    <2>5. CASE \E t \in BOOLEAN : f = <<TornAppend(b2, t), roll>>
      <3>1. PICK t \in BOOLEAN : f = <<TornAppend(b2, t), roll>>
        BY <2>5, Zenon
      <3>2. W(TornAppend(b2, t), after(roll))
        BY <1>3, <1>5, TornOK, Zenon
      <3> QED
        BY <3>1, <3>2, Zenon
    <2> QED
      BY <2>1, <2>2, <2>3, <2>4, <2>5, Zenon
  <1>8. W(b', ackedPast')
    <2>1. f[1].BufferFull \/ enospc \in BOOLEAN
      BY Zenon
    <2> QED
      BY <1>1, <1>7, <2>1, SetBufferFull, Zenon
  <1>9. Done' = Done
    BY <1>2, Zenon DEF Done
  <1>10. Whole(b', leftover', Done', acked', ackedPast', inflight', written')
    BY <1>2, <1>8, <1>9, Zenon
  <1>11. Checkpoints' /\ Numbers'
    BY <1>1, <1>2, <1>3, Zenon DEF Checkpoints, Numbers
  <1> QED
    BY <1>2, <1>10, <1>11, UpIndInv, Zenon

\* What Next may read: records of live segments beyond the cursor ...
LEMMA AheadPosition ==
    ASSUME NEW bb, NEW p \in Ahead(bb)
    PROVE  /\ p = <<p[1], p[2]>> /\ p[1] \in Live(bb) /\ p[2] \in DOMAIN Recs(bb, p[1])
           /\ Beyond(p[1], p[2], bb.nextReadSeg, bb.nextReadOff)
  <1> DEFINE A(i) == {<<i, j>> : j \in {k \in DOMAIN Recs(bb, i) :
                          Beyond(i, k, bb.nextReadSeg, bb.nextReadOff)}}
  <1>1. PICK i \in Live(bb) : p \in A(i)
    BY Zenon DEF Ahead
  <1>2. PICK j \in DOMAIN Recs(bb, i) : p = <<i, j>> /\ Beyond(i, j, bb.nextReadSeg, bb.nextReadOff)
    BY <1>1, Zenon
  <1> QED
    BY <1>1, <1>2, Zenon

\* ... and all of them.
LEMMA PositionAhead ==
    ASSUME NEW bb, NEW i \in Live(bb), NEW j \in DOMAIN Recs(bb, i),
           Beyond(i, j, bb.nextReadSeg, bb.nextReadOff)
    PROVE  <<i, j>> \in Ahead(bb)
  <1> DEFINE A(h) == {<<h, k>> : k \in {l \in DOMAIN Recs(bb, h) :
                          Beyond(h, l, bb.nextReadSeg, bb.nextReadOff)}}
  <1>1. <<i, j>> \in A(i)
    BY Zenon
  <1>2. Ahead(bb) = UNION {A(h) : h \in Live(bb)}
    BY Zenon DEF Ahead
  <1> HIDE DEF A
  <1> QED
    BY <1>1, <1>2, Zenon

\* Next moves the cursor to (s, o), counts as corrupt what lies before it, and
\* has record fl in flight there or nothing.
Moved(bb, r, s, o, skip, fl) ==
    /\ r = [bb EXCEPT !.nextReadSeg = s, !.nextReadOff = o, !.skipped = bb.skipped \cup skip]
    /\ IsBuffer(r) /\ IsPosition(fl)
    /\ s \in Live(bb) /\ o \in 0..Len(Recs(bb, s))
    /\ ~Beyond(bb.nextReadSeg, bb.nextReadOff, s, o)
    /\ fl.n # 0 => /\ fl.seg = s /\ fl.off = o /\ o \in DOMAIN Recs(bb, s)
                   /\ fl.n = Recs(bb, s)[o]
                   /\ Beyond(s, o, bb.nextReadSeg, bb.nextReadOff)
    /\ \A i \in Live(bb) : \A j \in DOMAIN Recs(bb, i) :
          \/ ~Beyond(i, j, bb.nextReadSeg, bb.nextReadOff)
          \/ Beyond(i, j, s, o)
          \/ Recs(bb, i)[j] \in skip
          \/ fl.n # 0 /\ i = s /\ j = o

\* Next moves the cursor over records it counts as corrupt and keeps the invariant.
LEMMA MoveCursor ==
    ASSUME NEW bb, NEW left, NEW D, NEW ck, NEW past, NEW fl, NEW w,
           Whole(bb, left, D, ck, past, fl, w), fl.n = 0,
           NEW r, NEW s, NEW o, NEW skip, NEW fl2, Moved(bb, r, s, o, skip, fl2),
           NEW D2, D \subseteq D2, skip \subseteq D2
    PROVE  Whole(r, left, D2, ck, past, fl2, w)
  <1> USE DEF Whole, OK, Moved
  <1>1. /\ r.segments = bb.segments /\ r.nextSegID = bb.nextSegID
        /\ r.nextReadSeg = s /\ r.nextReadOff = o
        /\ r.ackedSegID = bb.ackedSegID /\ r.ackedOff = bb.ackedOff
        /\ r.skipped = bb.skipped \cup skip /\ r.BufferFull = bb.BufferFull
    <2>1. IsBuffer(bb)
      BY Zenon DEF ProcessOK, StructOK
    <2> QED
      BY <2>1, ZenonT(40) DEF IsBuffer
  <1>2. /\ IsListing(bb.segments) /\ bb.nextSegID \in Nat
        /\ \A i \in Live(bb) : i \in Nat /\ i < bb.nextSegID /\ Recs(bb, i) \in Seq(Nat \ {0})
        /\ bb.nextReadSeg \in Nat /\ bb.nextReadOff \in Nat
        /\ bb.ackedSegID \in Nat /\ bb.ackedOff \in Nat
    BY SMTT(40) DEF FilesOK, ProcessOK, StructOK, IsListing, Live, Recs, Segments
  <1>3. s \in Nat /\ o \in Nat /\ o <= Len(Recs(bb, s)) /\ s < bb.nextSegID
    BY <1>2
  <1>4. Live(r) = Live(bb) /\ \A i \in Live(bb) : Recs(r, i) = Recs(bb, i) /\ r.segments[i] = bb.segments[i]
    BY <1>1, Zenon DEF Live, Recs
  <1>5. FilesOK(r.segments, D2, ck, past, w)
    BY <1>1 DEF FilesOK, UpTo
  <1>6. Fits(r.segments, r.nextSegID, s, o)
    BY <1>1, <1>2, <1>3 DEF Fits, Live, Recs
  <1>7. ASSUME NEW i \in Live(r), NEW j \in DOMAIN Recs(r, i)
        PROVE  IF Beyond(i, j, r.nextReadSeg, r.nextReadOff)
               THEN Beyond(i, j, r.ackedSegID, r.ackedOff)
               ELSE \/ ~Beyond(i, j, r.ackedSegID, r.ackedOff)
                    \/ fl2.n # 0 /\ i = fl2.seg /\ j = fl2.off
                    \/ Recs(r, i)[j] \in r.skipped
    <2>1. i \in Live(bb) /\ j \in DOMAIN Recs(bb, i) /\ i \in Nat /\ j \in Nat /\ Recs(r, i) = Recs(bb, i)
      BY <1>2, <1>4
    <2>2. Beyond(i, j, s, o) => Beyond(i, j, bb.nextReadSeg, bb.nextReadOff)
      <3>1. ~Beyond(bb.nextReadSeg, bb.nextReadOff, s, o)
        BY Zenon
      <3> QED
        BY ONLY <1>2, <1>3, <2>1, <3>1 DEF Beyond
    <2>3. /\ Beyond(i, j, bb.nextReadSeg, bb.nextReadOff) => Beyond(i, j, bb.ackedSegID, bb.ackedOff)
          /\ \/ Beyond(i, j, bb.nextReadSeg, bb.nextReadOff)
             \/ ~Beyond(i, j, bb.ackedSegID, bb.ackedOff)
             \/ Recs(bb, i)[j] \in bb.skipped
      BY <2>1, Zenon DEF ProcessOK, StructOK, CursorOK
    <2> QED
      BY <1>1, <2>1, <2>2, <2>3
  <1>8. CursorOK(r, fl2)
    BY <1>1, <1>6, <1>7, Zenon DEF CursorOK
  <1>9. InflightOK(r, fl2)
    <2> SUFFICES ASSUME fl2.n # 0
                 PROVE  /\ Fits(r.segments, r.nextSegID, s, o)
                        /\ ~Beyond(bb.ackedSegID, bb.ackedOff, s, o)
                        /\ \A i \in Live(bb) : \A j \in DOMAIN Recs(bb, i) :
                              \/ Beyond(i, j, s, o)
                              \/ ~Beyond(i, j, s, o) /\ (i = s /\ j = o => Recs(bb, i)[j] = fl2.n)
      BY <1>1, <1>4 DEF InflightOK
    <2>1. Beyond(s, o, bb.ackedSegID, bb.ackedOff)
      BY Zenon DEF ProcessOK, StructOK, CursorOK
    <2>2. ~Beyond(bb.ackedSegID, bb.ackedOff, s, o)
      BY <1>2, <1>3, <2>1 DEF Beyond
    <2> QED
      BY <1>6, <2>2, Zenon
  <1>10. UpTo(r.segments, r.ackedSegID, r.ackedOff, D2)
    BY <1>1, Zenon DEF ProcessOK, StructOK, UpTo
  <1>11. r.skipped \subseteq D2
    BY <1>1, Zenon DEF ProcessOK, StructOK
  <1>12. ProcessOK(r, D2, ck, fl2)
    BY <1>1, <1>3, <1>4, <1>8, <1>9, <1>10, <1>11, SMTT(40) DEF ProcessOK, StructOK
  <1>13. LeftoverOK(r.segments, left, D2)
    BY <1>1, Zenon DEF LeftoverOK
  <1> QED
    BY <1>1, <1>5, <1>12, <1>13, Zenon

\* Next that returns a record keeps IndInv.
LEMMA NextRecordInv ==
    ASSUME IndInv, NextRecord
    PROVE  IndInv'
  <1>1. /\ up /\ inflight.n = 0 /\ up' = up /\ leftover' = leftover /\ acked' = acked
        /\ ackedPast' = ackedPast /\ now' = now /\ written' = written
        /\ consumed' = consumed /\ atRisk' = atRisk /\ reported' = reported \cup b'.skipped
    BY SMTT(40) DEF NextRecord
  <1>2. /\ Whole(b, leftover, Done, acked, ackedPast, inflight, written)
        /\ Checkpoints /\ Numbers /\ IsBuffer(b)
    <2>1. /\ Whole(b, leftover, Done, acked, ackedPast, inflight, written)
          /\ Checkpoints /\ Numbers
      BY <1>1, IndInvUp, Zenon
    <2> QED
      BY <2>1, Zenon DEF Whole, OK, ProcessOK, StructOK
  <1> DEFINE skip(p) == {RecordAt(b, q) : q \in {t \in Ahead(b) : Beyond(p[1], p[2], t[1], t[2])}}
  <1>3. PICK p \in Good(b) :
          /\ \A q \in Good(b) : ~Beyond(p[1], p[2], q[1], q[2])
          /\ b' = [b EXCEPT !.nextReadSeg = p[1], !.nextReadOff = p[2],
                            !.skipped = b.skipped \cup skip(p)]
          /\ inflight' = [n |-> RecordAt(b, p), seg |-> p[1], off |-> p[2]]
    BY Zenon DEF NextRecord
  <1> DEFINE s == p[1]
             o == p[2]
             K == skip(p)
  <1>4. /\ p \in Ahead(b) /\ s \in Live(b) /\ o \in DOMAIN Recs(b, s)
        /\ Beyond(s, o, b.nextReadSeg, b.nextReadOff)
    BY AheadPosition, SMTT(40) DEF Good
  <1>5. /\ s \in Nat /\ b.nextReadSeg \in Nat /\ b.nextReadOff \in Nat
        /\ \A i \in Live(b) : i \in Nat /\ Recs(b, i) \in Seq(Nat \ {0})
    BY <1>2, <1>4, Zenon DEF Whole, OK, FilesOK, ProcessOK, StructOK, IsListing, Live, Recs, Segments
  <1>6. o \in Nat /\ o \in 0..Len(Recs(b, s)) /\ Recs(b, s)[o] \in Nat
    BY <1>4, <1>5
  <1>7. ~Beyond(b.nextReadSeg, b.nextReadOff, s, o)
    BY <1>4, <1>5, <1>6 DEF Beyond
  <1>8. inflight'.n = Recs(b, s)[o] /\ inflight'.seg = s /\ inflight'.off = o /\ IsPosition(inflight')
    BY <1>3, <1>5, <1>6, Zenon DEF RecordAt, IsPosition
  <1>9. ASSUME NEW i \in Live(b), NEW j \in DOMAIN Recs(b, i),
               Beyond(i, j, b.nextReadSeg, b.nextReadOff), ~Beyond(i, j, s, o), ~(i = s /\ j = o)
        PROVE  Recs(b, i)[j] \in K
    <2>1. i \in Nat /\ j \in Nat
      BY <1>5
    <2>2. Beyond(s, o, i, j)
      BY <1>5, <1>6, <1>9, <2>1, SMTT(30) DEF Beyond
    <2>3. <<i, j>> \in Ahead(b)
      BY <1>9, PositionAhead, Zenon
    <2>4. <<i, j>>[1] = i /\ <<i, j>>[2] = j /\ RecordAt(b, <<i, j>>) = Recs(b, i)[j]
      BY Zenon DEF RecordAt
    <2> QED
      BY <2>2, <2>3, <2>4, Zenon
  <1> HIDE DEF K
  <1>10. IsBuffer(b') /\ b'.skipped = b.skipped \cup K
    BY <1>2, <1>3, Zenon DEF IsBuffer, K
  <1>11. Done \subseteq Done' /\ K \subseteq Done'
    BY <1>1, <1>10, Zenon DEF Done
  <1>12. b' = [b EXCEPT !.nextReadSeg = s, !.nextReadOff = o, !.skipped = b.skipped \cup K]
    BY <1>3, Zenon DEF K
  <1>13. Moved(b, b', s, o, K, inflight')
    <2>1. inflight'.n # 0
      BY <1>4, <1>5, <1>8
    <2>2. \A i \in Live(b) : \A j \in DOMAIN Recs(b, i) :
              \/ ~Beyond(i, j, b.nextReadSeg, b.nextReadOff)
              \/ Beyond(i, j, s, o)
              \/ Recs(b, i)[j] \in K
              \/ inflight'.n # 0 /\ i = s /\ j = o
      BY <1>9, <2>1, SMTT(40)
    <2> HIDE DEF s, o
    <2> QED
      BY <1>4, <1>6, <1>7, <1>8, <1>10, <1>12, <2>2, Zenon DEF Moved
  <1> HIDE DEF s, o
  <1>14. Whole(b', leftover, Done', acked, ackedPast, inflight', written)
    BY <1>1, <1>2, <1>11, <1>13, MoveCursor, SMTT(40)
  <1>15. Checkpoints' /\ Numbers'
    BY <1>1, <1>2, <1>6, <1>8, Zenon DEF Checkpoints, Numbers
  <1> QED
    BY <1>1, <1>14, <1>15, UpIndInv, Zenon

\* Next that finds nothing to read keeps IndInv.
LEMMA NextEOFInv ==
    ASSUME IndInv, NextEOF
    PROVE  IndInv'
  <1> DEFINE s == Active(b)
             o == Len(Recs(b, s))
             K == {RecordAt(b, q) : q \in Ahead(b)}
  <1>1. /\ up /\ inflight.n = 0 /\ up' = up /\ leftover' = leftover /\ acked' = acked
        /\ ackedPast' = ackedPast /\ now' = now /\ written' = written /\ inflight' = inflight
        /\ consumed' = consumed /\ atRisk' = atRisk /\ reported' = reported \cup b'.skipped
        /\ b' = [b EXCEPT !.nextReadSeg = s, !.nextReadOff = o, !.skipped = b.skipped \cup K]
        /\ Live(b) # {}
    BY Zenon DEF NextEOF
  <1>2. /\ Whole(b, leftover, Done, acked, ackedPast, inflight, written)
        /\ Checkpoints /\ Numbers /\ IsBuffer(b)
    BY <1>1, IndInvUp, Zenon DEF Whole, OK, ProcessOK, StructOK
  <1>3. s \in Live(b) /\ s \in Nat /\ \A i \in Live(b) : i <= s
    BY <1>1, <1>2, ActiveSegment, SMTT(40) DEF Whole
  <1>4. /\ b.nextReadSeg \in Nat /\ b.nextReadOff \in Nat
        /\ \A i \in Live(b) : i \in Nat /\ Recs(b, i) \in Seq(Nat \ {0})
        /\ Fits(b.segments, b.nextSegID, b.nextReadSeg, b.nextReadOff)
    BY <1>2, Zenon DEF Whole, OK, FilesOK, ProcessOK, StructOK, CursorOK, IsListing, Live, Recs, Segments
  <1>5. o \in Nat /\ o \in 0..o
    BY <1>3, <1>4
  <1>6. ~Beyond(b.nextReadSeg, b.nextReadOff, s, o)
    BY <1>3, <1>4, <1>5 DEF Fits, Live, Recs, Beyond
  <1>7. ASSUME NEW i \in Live(b), NEW j \in DOMAIN Recs(b, i),
               Beyond(i, j, b.nextReadSeg, b.nextReadOff)
        PROVE  Recs(b, i)[j] \in K
    <2>1. <<i, j>> \in Ahead(b)
      BY <1>7, PositionAhead, Zenon
    <2>2. RecordAt(b, <<i, j>>) = Recs(b, i)[j]
      BY Zenon DEF RecordAt
    <2> QED
      BY <2>1, <2>2, Zenon
  <1> HIDE DEF K
  <1>8. IsBuffer(b') /\ b'.skipped = b.skipped \cup K
    BY <1>1, <1>2, Zenon DEF IsBuffer
  <1>9. Done \subseteq Done' /\ K \subseteq Done'
    BY <1>1, <1>8, Zenon DEF Done
  <1>10. Moved(b, b', s, o, K, inflight)
    BY <1>1, <1>2, <1>3, <1>5, <1>6, <1>7, <1>8, Zenon DEF Moved, Numbers
  <1> HIDE DEF s, o
  <1>11. Whole(b', leftover, Done', acked, ackedPast, inflight, written)
    BY <1>1, <1>2, <1>9, <1>10, MoveCursor, Zenon
  <1>12. Checkpoints' /\ Numbers'
    BY <1>1, <1>2, Zenon DEF Checkpoints, Numbers
  <1>13. Whole(b', leftover', Done', acked', ackedPast', inflight', written')
    BY <1>1, <1>11, Zenon
  <1> QED
    BY <1>1, <1>12, <1>13, UpIndInv, Zenon

AckedAt(bb, fl) == [bb EXCEPT !.ackedSegID = fl.seg, !.ackedOff = fl.off]

\* The files and the record in flight, as the AckFunc finds them.
LEMMA InflightFacts ==
    ASSUME NEW bb, NEW D, NEW ck, NEW past, NEW fl, NEW w,
           OK(bb, D, ck, past, fl, w), fl.n # 0
    PROVE  /\ bb.ackedSegID \in Nat /\ bb.ackedOff \in Nat /\ fl.seg \in Nat /\ fl.off \in Nat
           /\ ~Beyond(bb.ackedSegID, bb.ackedOff, fl.seg, fl.off)
           /\ Fits(bb.segments, bb.nextSegID, fl.seg, fl.off)
           /\ \A i \in Live(bb) : i \in Nat /\ \A j \in DOMAIN Recs(bb, i) : j \in Nat
  <1>1. /\ bb.ackedSegID \in Nat /\ bb.ackedOff \in Nat /\ IsPosition(fl)
        /\ InflightOK(bb, fl) /\ IsListing(bb.segments)
    BY Zenon DEF OK, ProcessOK, StructOK, FilesOK
  <1>2. \A i \in Live(bb) : i \in Nat /\ \A j \in DOMAIN Recs(bb, i) : j \in Nat
    BY <1>1, ListingFields DEF Live, Recs
  <1> QED
    BY <1>1, <1>2, Zenon DEF InflightOK, IsPosition

\* A record of the files, before and after the acked position moves to the record
\* in flight: up to there it is accounted for, and past it only the cursor's own.
LEMMA AckRecord ==
    ASSUME NEW bb, NEW D, NEW ck, NEW past, NEW fl, NEW w,
           OK(bb, D, ck, past, fl, w), fl.n # 0, NEW D2, D \subseteq D2, fl.n \in D2,
           NEW i \in Live(bb), NEW j \in DOMAIN Recs(bb, i)
    PROVE  /\ Beyond(i, j, fl.seg, fl.off) \/ Recs(bb, i)[j] \in D2
           /\ IF Beyond(i, j, bb.nextReadSeg, bb.nextReadOff)
              THEN Beyond(i, j, fl.seg, fl.off)
              ELSE ~Beyond(i, j, fl.seg, fl.off) \/ Recs(bb, i)[j] \in bb.skipped
  <1>1. /\ \/ Beyond(i, j, fl.seg, fl.off)
           \/ /\ ~Beyond(i, j, bb.nextReadSeg, bb.nextReadOff)
              /\ i = fl.seg /\ j = fl.off => Recs(bb, i)[j] = fl.n
        /\ \/ Beyond(i, j, bb.nextReadSeg, bb.nextReadOff)
           \/ ~Beyond(i, j, bb.ackedSegID, bb.ackedOff)
           \/ i = fl.seg /\ j = fl.off
           \/ Recs(bb, i)[j] \in bb.skipped
    BY Zenon DEF OK, ProcessOK, CursorOK, InflightOK
  <1>2. bb.skipped \subseteq D /\ (Beyond(i, j, bb.ackedSegID, bb.ackedOff) \/ Recs(bb, i)[j] \in D)
    BY Zenon DEF OK, ProcessOK, StructOK, UpTo, Live, Recs
  <1>3. /\ Beyond(i, j, fl.seg, fl.off) => Beyond(i, j, bb.ackedSegID, bb.ackedOff)
        /\ i = fl.seg /\ j = fl.off => ~Beyond(i, j, fl.seg, fl.off)
    BY InflightFacts DEF Beyond
  <1> QED
    BY <1>1, <1>2, <1>3, Zenon

\* The fields of the struct with the acked position moved.
LEMMA AckFields ==
    ASSUME NEW bb, NEW fl, IsBuffer(bb), NEW r, r = AckedAt(bb, fl)
    PROVE  /\ IsBuffer(r) /\ r.segments = bb.segments /\ r.nextSegID = bb.nextSegID
           /\ r.nextReadSeg = bb.nextReadSeg /\ r.nextReadOff = bb.nextReadOff
           /\ r.ackedSegID = fl.seg /\ r.ackedOff = fl.off
           /\ r.skipped = bb.skipped /\ r.BufferFull = bb.BufferFull
  BY Zenon DEF IsBuffer, AckedAt

\* The AckFunc moves the acked position to the record in flight: all that lies up
\* to there is accounted for, or is that record.
LEMMA AckPosition ==
    ASSUME NEW bb, NEW D, NEW ck, NEW past, NEW fl, NEW w,
           OK(bb, D, ck, past, fl, w), fl.n # 0,
           NEW r, r = AckedAt(bb, fl),
           NEW D2, D \subseteq D2, fl.n \in D2, NEW fl2, IsPosition(fl2), fl2.n = 0
    PROVE  /\ OK(r, D2, ck, past, fl2, w)
           /\ r.ackedSegID = fl.seg /\ r.ackedOff = fl.off
           /\ r.segments = bb.segments /\ r.nextSegID = bb.nextSegID
  <1>1. /\ FilesOK(bb.segments, D, ck, past, w) /\ IsPosition(ck)
        /\ StructOK(bb, D, ck) /\ CursorOK(bb, fl)
    BY ZenonT(40) DEF OK, ProcessOK
  <1>2. /\ IsBuffer(r) /\ r.segments = bb.segments /\ r.nextSegID = bb.nextSegID
        /\ r.nextReadSeg = bb.nextReadSeg /\ r.nextReadOff = bb.nextReadOff
        /\ r.ackedSegID = fl.seg /\ r.ackedOff = fl.off
        /\ r.skipped = bb.skipped /\ r.BufferFull = bb.BufferFull
    BY <1>1, AckFields DEF StructOK
  <1>3. Live(r) = Live(bb) /\ \A i \in Live(bb) : Recs(r, i) = Recs(bb, i)
    BY <1>2, ZenonT(40) DEF Live, Recs
  <1>4. FilesOK(r.segments, D2, ck, past, w)
    <2>1. UpTo(bb.segments, ck.seg, ck.off, D2)
      BY <1>1, Zenon DEF FilesOK, UpTo
    <2>2. \A c \in past : \A i \in DOMAIN bb.segments : \A j \in DOMAIN bb.segments[i].recs :
             \/ Beyond(i, j, c.seg, c.off)
             \/ bb.segments[i].recs[j] \in D2
             \/ j > bb.segments[i].synced /\ \A k \in DOMAIN bb.segments : k <= i
      BY <1>1, Zenon DEF FilesOK
    <2>3. \A n \in 1..w : n \in D2 \/ \E i \in DOMAIN bb.segments :
                              \E j \in DOMAIN bb.segments[i].recs : bb.segments[i].recs[j] = n
      BY <1>1, Zenon DEF FilesOK
    <2>4. IsListing(bb.segments) /\ \A i \in DOMAIN bb.segments : bb.segments[i].synced <= Len(bb.segments[i].recs)
      BY <1>1, Zenon DEF FilesOK
    <2>5. FilesOK(bb.segments, D2, ck, past, w)
      BY <2>1, <2>2, <2>3, <2>4, Zenon DEF FilesOK
    <2> QED
      BY <1>2, <2>5, Zenon
  <1>5. UpTo(r.segments, fl.seg, fl.off, D2)
    BY <1>2, AckRecord, Zenon DEF UpTo, Live, Recs
  <1>6. CursorOK(r, fl2)
    <2>1. Fits(r.segments, r.nextSegID, r.nextReadSeg, r.nextReadOff)
      BY <1>1, <1>2, ZenonT(40) DEF CursorOK
    <2>2. ASSUME NEW i \in Live(bb), NEW j \in DOMAIN Recs(bb, i)
          PROVE  IF Beyond(i, j, r.nextReadSeg, r.nextReadOff)
                 THEN Beyond(i, j, r.ackedSegID, r.ackedOff)
                 ELSE ~Beyond(i, j, r.ackedSegID, r.ackedOff) \/ Recs(r, i)[j] \in r.skipped
      BY <1>2, <1>3, AckRecord
    <2> QED
      BY <1>3, <2>1, <2>2, Zenon DEF CursorOK
  <1>7. \A i \in Live(r) : i > fl.seg => r.segments[i].recordCount = Len(Recs(r, i))
    <2> SUFFICES ASSUME NEW i \in Live(bb), i > fl.seg
                 PROVE  bb.segments[i].recordCount = Len(Recs(bb, i))
      BY <1>2, <1>3, Zenon
    <2>1. i > bb.ackedSegID
      BY InflightFacts DEF Beyond
    <2> QED
      BY <1>1, <2>1, Zenon DEF StructOK
  <1>8. /\ Fits(r.segments, r.nextSegID, fl.seg, fl.off)
        /\ fl.seg \in Nat /\ fl.off \in Nat
    BY <1>2, InflightFacts, Zenon
  <1>9. bb.skipped \subseteq D2
    BY <1>1, Zenon DEF StructOK
  <1>10. StructOK(r, D2, ck)
    BY <1>1, <1>2, <1>3, <1>5, <1>7, <1>8, <1>9, Zenon DEF StructOK
  <1>11. InflightOK(r, fl2)
    BY Zenon DEF InflightOK
  <1> QED
    BY <1>1, <1>2, <1>4, <1>6, <1>10, <1>11, Zenon DEF OK, ProcessOK

\* saveAckedPosition: the acked position becomes the checkpoint, and the old
\* checkpoint one that may come back.
LEMMA SaveCheckpoint ==
    ASSUME NEW bb, NEW D, NEW ck, NEW past, NEW fl, NEW w, OK(bb, D, ck, past, fl, w),
           NEW ck2, ck2.seg = bb.ackedSegID, ck2.off = bb.ackedOff,
           NEW past2, past2 = past \cup {ck}
    PROVE  OK(bb, D, ck2, past2, fl, w)
  <1> USE DEF OK
  <1>1. IsPosition(ck2) /\ UpTo(bb.segments, ck2.seg, ck2.off, D)
    BY SMTT(40) DEF ProcessOK, StructOK, IsPosition
  <1>2. FilesOK(bb.segments, D, ck2, past2, w)
    BY <1>1, SMTT(40) DEF FilesOK, UpTo
  <1>3. ProcessOK(bb, D, ck2, fl)
    BY Zenon DEF ProcessOK, StructOK
  <1> QED
    BY <1>1, <1>2, <1>3, SMTT(40)

\* The AckFunc, with a checkpoint that is saved or fails to be, keeps IndInv.
LEMMA AckInv ==
    ASSUME IndInv, Ack
    PROVE  IndInv'
  <1> DEFINE b1 == [b EXCEPT !.ackedSegID = inflight.seg, !.ackedOff = inflight.off]
             save == saveAckedPosition(inflight.seg, inflight.off)
  <1>1. /\ up /\ inflight.n # 0 /\ up' = up /\ now' = now /\ written' = written
        /\ b' = dropAckedSegments(b1) /\ Unlink(b1, b')
        /\ save \/ (acked' = acked /\ ackedPast' = ackedPast)
        /\ inflight' = NoRecord /\ consumed' = consumed \cup {inflight.n}
        /\ reported' = reported /\ atRisk' = atRisk
    BY Zenon DEF Ack
  <1>2. /\ Whole(b, leftover, Done, acked, ackedPast, inflight, written)
        /\ Checkpoints /\ Numbers
    BY <1>1, IndInvUp, Zenon
  <1>3. inflight'.n = 0 /\ IsPosition(inflight') /\ Done \subseteq Done' /\ inflight.n \in Done'
    BY <1>1, Zenon DEF NoRecord, IsPosition, Done
  <1>4. /\ OK(b1, Done', acked, ackedPast, inflight', written)
        /\ b1.ackedSegID = inflight.seg /\ b1.ackedOff = inflight.off
        /\ b1.segments = b.segments /\ b1.nextSegID = b.nextSegID
    <2> HIDE DEF b1
    <2>1. b1 = AckedAt(b, inflight)
      BY Zenon DEF b1, AckedAt
    <2>2. OK(b, Done, acked, ackedPast, inflight, written)
      BY <1>2, Zenon DEF Whole
    <2> QED
      BY <1>1, <1>3, <2>1, <2>2, AckPosition
  <1> HIDE DEF b1
  <1>5. OK(b1, Done', acked', ackedPast', inflight', written) /\ Checkpoints'
    <2>1. CASE save
      <3>1. /\ acked' = Checkpoint(inflight.seg, inflight.off)
            /\ ackedPast' = ackedPast \cup {acked}
        BY <2>1, Zenon DEF saveAckedPosition
      <3>2. acked'.seg = b1.ackedSegID /\ acked'.off = b1.ackedOff /\ acked'.have = TRUE
        BY <1>4, <3>1, Zenon DEF Checkpoint
      <3>3. IsCheckpoint(acked')
        <4>1. acked'.have \in BOOLEAN /\ acked'.have
          BY <3>2, ZenonT(40)
        <4>2. IsPosition(acked')
          BY <3>2, <1>2, <1>4, Zenon DEF IsPosition, Numbers
        <4> QED
          BY <4>1, <4>2, Zenon DEF IsCheckpoint
      <3>4. OK(b1, Done', acked', ackedPast', inflight', written)
        BY <1>4, <3>1, <3>2, SaveCheckpoint, Zenon
      <3> QED
        BY <1>2, <3>1, <3>3, <3>4, Zenon DEF Checkpoints
    <2>2. CASE acked' = acked /\ ackedPast' = ackedPast
      BY <1>2, <1>4, <2>2, Zenon DEF Checkpoints
    <2> QED
      BY <1>1, <2>1, <2>2, Zenon
  <1>6. /\ OK(b', Done', acked', ackedPast', inflight', written)
        /\ Trims(b1, b', Done') /\ b'.nextSegID = b1.nextSegID
    <2>1. Base(b1, Done', acked', ackedPast', written)
      BY <1>5, OKBase, SMTT(40)
    <2>2. Removes(b1, b', Done') /\ b'.nextSegID = b1.nextSegID
      BY <1>1, <2>1, AckedRetention
    <2> QED
      BY <1>5, <2>1, <2>2, RemoveBase, RemoveOldest, Zenon
  <1>7. PICK S \in SUBSET (Live(b1) \ Live(b')) :
           leftover' = Merge(leftover, [i \in S |-> b1.segments[i]])
    BY <1>1, ZenonT(40) DEF Unlink
  <1>8. S \subseteq Live(b1) \ Live(b')
    BY <1>7, Zenon
  <1>9. /\ IsListing(b1.segments) /\ LeftoverOK(b1.segments, leftover, Done)
        /\ Bounded(b1.segments, leftover, b1.nextSegID)
        /\ \A i \in Live(b1) : b1.segments[i].synced <= Len(Recs(b1, i))
    BY <1>2, <1>4, Zenon DEF Whole, OK, FilesOK, Live, Recs
  <1>10. LeftoverOK(b'.segments, leftover', Done') /\ Bounded(b'.segments, leftover', b1.nextSegID)
    BY <1>3, <1>6, <1>7, <1>8, <1>9, LeaveBehind, ZenonT(40)
  <1>11. \A c \in ackedPast' : IsPosition(c)
    BY <1>5, Zenon DEF Checkpoints, IsCheckpoint
  <1>12. Whole(b', leftover', Done', acked', ackedPast', inflight', written')
    BY <1>1, <1>6, <1>10, <1>11, Zenon DEF Whole
  <1>13. Numbers'
    BY <1>1, <1>2, <1>3, SMTT(40) DEF Numbers
  <1> QED
    BY <1>1, <1>5, <1>12, <1>13, UpIndInv, Zenon

\* findSegmentAfterAcked puts the cursor just after the acked position: no record
\* is in flight, and all that is unacked lies ahead.
LEMMA FindOK ==
    ASSUME NEW bb, NEW D, NEW ck, NEW past, NEW w,
           Base(bb, D, ck, past, w), NEW r, r = findSegmentAfterAcked(bb),
           NEW fl2, IsPosition(fl2), fl2.n = 0
    PROVE  /\ OK(r, D, ck, past, fl2, w)
           /\ r.segments = bb.segments /\ r.nextSegID = bb.nextSegID /\ r.gone = bb.gone
  <1> USE DEF OK, Base
  <1> DEFINE from == {i \in Live(bb) : i >= bb.ackedSegID}
             seg  == IF Live(bb) = {} THEN 0
                     ELSE IF from = {} THEN Min(Live(bb)) ELSE Min(from)
             off  == IF seg \in Live(bb) /\ seg = bb.ackedSegID THEN bb.ackedOff ELSE 0
  <1>1. IsBuffer(bb)
    BY Zenon DEF ProcessOK, StructOK
  <1>2. r = [bb EXCEPT !.nextReadSeg = seg, !.nextReadOff = off]
    BY Zenon DEF findSegmentAfterAcked
  <1> HIDE DEF seg, off
  <1>3. /\ IsBuffer(r) /\ r.segments = bb.segments /\ r.nextSegID = bb.nextSegID
        /\ r.nextReadSeg = seg /\ r.nextReadOff = off /\ r.gone = bb.gone
        /\ r.ackedSegID = bb.ackedSegID /\ r.ackedOff = bb.ackedOff
        /\ r.skipped = bb.skipped /\ r.BufferFull = bb.BufferFull
    BY <1>1, <1>2, ZenonT(40) DEF IsBuffer
  <1>4. /\ \A i \in Live(bb) : i \in Nat /\ Recs(bb, i) \in Seq(Nat \ {0}) /\ i < bb.nextSegID
        /\ bb.ackedSegID \in Nat /\ bb.ackedOff \in Nat /\ bb.nextSegID \in Nat
        /\ Fits(bb.segments, bb.nextSegID, bb.ackedSegID, bb.ackedOff)
    BY Zenon DEF FilesOK, ProcessOK, StructOK, IsListing, Live, Recs, Segments
  <1>5. Live(r) = Live(bb) /\ \A i \in Live(bb) : Recs(r, i) = Recs(bb, i)
    BY <1>3, Zenon DEF Live, Recs
  <1>6. \/ Live(bb) = {} /\ seg = 0 /\ off = 0
        \/ /\ seg \in Live(bb) /\ seg >= bb.ackedSegID
           /\ \A i \in Live(bb) : i >= bb.ackedSegID => seg <= i
           /\ off = IF seg = bb.ackedSegID THEN bb.ackedOff ELSE 0
    <2>1. CASE Live(bb) = {}
      BY <2>1, Zenon DEF seg, off
    <2>2. CASE Live(bb) # {}
      <3>1. from # {} /\ from \subseteq Nat
        BY <1>4, <2>2, SMTT(40) DEF Fits, Live
      <3>2. Min(from) \in from /\ \A x \in from : Min(from) <= x
        BY <3>1, MinID, SMTT(40)
      <3>3. seg = Min(from)
        BY <2>2, <3>1, SMTT(40) DEF seg
      <3> QED
        BY <3>2, <3>3, SMTT(40) DEF off
    <2> QED
      BY <2>1, <2>2, SMTT(40)
  <1>7. /\ seg \in Nat /\ off \in Nat /\ Fits(r.segments, r.nextSegID, seg, off)
    BY <1>3, <1>4, <1>6, SMTT(40) DEF Fits, Live
  <1>8. ASSUME NEW i \in Live(bb), NEW j \in DOMAIN Recs(bb, i)
        PROVE  Beyond(i, j, seg, off) <=> Beyond(i, j, bb.ackedSegID, bb.ackedOff)
    <2>1. i \in Nat /\ j \in Nat /\ j > 0
      BY <1>4, SMTT(40)
    <2> QED
      BY <1>4, <1>6, <1>7, <2>1 DEF Beyond
  <1>9. CursorOK(r, fl2)
    BY <1>3, <1>5, <1>7, <1>8, ZenonT(40) DEF CursorOK
  <1>10. InflightOK(r, fl2)
    BY SMTT(40) DEF InflightOK
  <1>11. \A i \in Live(r) : i > r.ackedSegID => r.segments[i].recordCount = Len(Recs(r, i))
    BY <1>3, <1>5, ZenonT(40) DEF ProcessOK, StructOK
  <1>12. ProcessOK(r, D, ck, fl2)
    BY <1>3, <1>5, <1>7, <1>9, <1>10, <1>11, ZenonT(40) DEF ProcessOK, StructOK
  <1> QED
    BY <1>3, <1>12, SMTT(40)

\* Rewind keeps IndInv.
LEMMA RewindInv ==
    ASSUME IndInv, Rewind
    PROVE  IndInv'
  <1>1. /\ up /\ up' = up /\ b' = findSegmentAfterAcked(b) /\ inflight' = NoRecord
        /\ leftover' = leftover /\ acked' = acked /\ ackedPast' = ackedPast /\ now' = now
        /\ written' = written /\ consumed' = consumed /\ reported' = reported /\ atRisk' = atRisk
    BY Zenon DEF Rewind, history
  <1>2. /\ Whole(b, leftover, Done, acked, ackedPast, inflight, written)
        /\ Checkpoints /\ Numbers
    BY <1>1, IndInvUp, Zenon
  <1>3. inflight'.n = 0 /\ IsPosition(inflight') /\ Done' = Done
    BY <1>1, Zenon DEF NoRecord, IsPosition, Done
  <1>4. /\ OK(b', Done, acked, ackedPast, inflight', written)
        /\ b'.segments = b.segments /\ b'.nextSegID = b.nextSegID
    BY <1>1, <1>2, <1>3, OKBase, FindOK, SMTT(40) DEF Whole
  <1>5. Whole(b', leftover', Done', acked', ackedPast', inflight', written')
    BY <1>1, <1>2, <1>3, <1>4, Zenon DEF Whole
  <1>6. Checkpoints' /\ Numbers'
    BY <1>1, <1>2, <1>3, SMTT(40) DEF Checkpoints, Numbers
  <1> QED
    BY <1>1, <1>5, <1>6, UpIndInv, SMTT(40)

-----------------------------------------------------------------------------
(* Stopping. *)

\* Close keeps IndInv.
LEMMA CloseInv ==
    ASSUME IndInv, Close
    PROVE  IndInv'
  <1> DEFINE save == saveAckedPosition(b.ackedSegID, b.ackedOff)
  <1>1. /\ up /\ Stop(b.segments, b.nextSegID) /\ leftover' = leftover /\ now' = now
        /\ save \/ (acked' = acked /\ ackedPast' = ackedPast)
        /\ written' = written /\ Done' = Done
    BY Zenon DEF Close, history, Done
  <1>2. /\ Whole(b, leftover, Done, acked, ackedPast, inflight, written)
        /\ Checkpoints /\ Numbers
    BY <1>1, IndInvUp, Zenon
  <1>3. OK(b, Done, acked', ackedPast', inflight, written) /\ Checkpoints'
    <2>1. CASE save
      <3>1. acked' = Checkpoint(b.ackedSegID, b.ackedOff) /\ ackedPast' = ackedPast \cup {acked}
        BY <2>1, Zenon DEF saveAckedPosition
      <3>2. acked'.seg = b.ackedSegID /\ acked'.off = b.ackedOff /\ acked'.have = TRUE
        BY <3>1, Zenon DEF Checkpoint
      <3>3. acked'.have \in BOOLEAN /\ acked'.have
        BY <3>2, Zenon
      <3>4. OK(b, Done, acked', ackedPast', inflight, written)
        BY <1>2, <3>1, <3>2, SaveCheckpoint, Zenon DEF Whole
      <3>5. IsCheckpoint(acked')
        BY <3>3, <3>4, Zenon DEF IsCheckpoint, OK
      <3> QED
        BY <1>2, <3>1, <3>4, <3>5, Zenon DEF Checkpoints
    <2>2. CASE acked' = acked /\ ackedPast' = ackedPast
      BY <1>2, <2>2, Zenon DEF Whole, Checkpoints
    <2> QED
      BY <1>1, <2>1, <2>2, Zenon
  <1>4. FilesOK(b.segments, Done', acked', ackedPast', written')
    BY <1>1, <1>3, Zenon DEF OK
  <1>5. LeftoverOK(b.segments, leftover', Done') /\ Bounded(b.segments, leftover', b.nextSegID)
    BY <1>1, <1>2, Zenon DEF Whole
  <1>6. now' \in Nat /\ written' \in Nat
    BY <1>1, <1>2, Zenon DEF Numbers
  <1> QED
    BY <1>1, <1>3, <1>4, <1>5, <1>6, DownIndInv, SMTT(40)

\* A kill keeps IndInv.
LEMMA CrashInv ==
    ASSUME IndInv, Crash
    PROVE  IndInv'
  <1>1. /\ Stop(b.segments, b.nextSegID) /\ leftover' = leftover /\ now' = now
        /\ acked' = acked /\ ackedPast' = ackedPast /\ written' = written /\ Done' = Done
    BY Zenon DEF Crash, history, Done
  <1>2. /\ FilesOK(b.segments, Done, acked, ackedPast, written)
        /\ LeftoverOK(b.segments, leftover, Done) /\ Bounded(b.segments, leftover, b.nextSegID)
        /\ Checkpoints /\ Numbers
    BY IndInvDown, Zenon
  <1>3. /\ FilesOK(b.segments, Done', acked', ackedPast', written')
        /\ LeftoverOK(b.segments, leftover', Done') /\ Bounded(b.segments, leftover', b.nextSegID)
    BY <1>1, <1>2, Zenon
  <1>4. Checkpoints' /\ now' \in Nat /\ written' \in Nat
    BY <1>1, <1>2, Zenon DEF Checkpoints, Numbers
  <1> QED
    BY <1>1, <1>3, <1>4, DownIndInv, Zenon

\* A kill in the middle of Append keeps IndInv.
LEMMA CrashInAppendInv ==
    ASSUME IndInv, CrashInAppend
    PROVE  IndInv'
  <1> DEFINE n == written + 1
             b2 == SegmentAppend(Rolled(Opened(b), n), n)
             past == IF MustRoll(Opened(b), n) THEN {} ELSE ackedPast
  <1>1. /\ up /\ Stop(b2.segments, b2.nextSegID) /\ written' = n /\ ackedPast' = past
        /\ leftover' = leftover /\ acked' = acked /\ now' = now /\ Done' = Done
    BY Zenon DEF CrashInAppend, Done
  <1>2. /\ Whole(b, leftover, Done, acked, ackedPast, inflight, written)
        /\ Checkpoints /\ Numbers
    BY <1>1, IndInvUp, Zenon
  <1>3. n \in Nat /\ n # 0 /\ n - 1 = written /\ now \in Nat
    BY <1>2 DEF Numbers
  <1>4. Checkpoints' /\ now' \in Nat
    BY <1>1, <1>2, <1>3, Zenon DEF Checkpoints
  <1> HIDE DEF n, b2, past
  <1>5. Whole(b2, leftover, Done, acked, past, inflight, n)
    BY <1>2, <1>3, WrittenOK, Zenon DEF b2, past
  <1>6. /\ FilesOK(b2.segments, Done', acked', ackedPast', written')
        /\ LeftoverOK(b2.segments, leftover', Done')
        /\ Bounded(b2.segments, leftover', b2.nextSegID)
    BY <1>1, <1>5, Zenon DEF Whole, OK
  <1> QED
    BY <1>1, <1>3, <1>4, <1>6, DownIndInv, SMTT(40)

\* A segment with other records, all of them synced.
Cut(seg, q, t, k) == [seg EXCEPT !.recs = q, !.torn = t, !.synced = k]

\* A segment that a power failure cuts is a segment.
LEMMA CutSegment ==
    ASSUME NEW seg \in Segments, NEW q \in Seq(Nat \ {0}), NEW t \in BOOLEAN, NEW k \in Nat
    PROVE  /\ Cut(seg, q, t, k) \in Segments
           /\ Cut(seg, q, t, k).synced = k /\ Cut(seg, q, t, k).recs = q
  BY Zenon DEF Segments, Cut

\* f is what a power failure leaves of the files segs, whose active one is a; only
\* the records in lost are missing.
Cuts(segs, f, a, lost) ==
    /\ a \in DOMAIN segs /\ \A i \in DOMAIN segs : i <= a
    /\ IsListing(f) /\ DOMAIN f \subseteq DOMAIN segs
    /\ \A i \in DOMAIN f : /\ f[i].synced <= Len(f[i].recs)
                           /\ \A j \in DOMAIN f[i].recs : /\ j \in DOMAIN segs[i].recs
                                                          /\ f[i].recs[j] = segs[i].recs[j]
    /\ \A i \in DOMAIN segs : \A j \in DOMAIN segs[i].recs :
          segs[i].recs[j] \in lost \/ (i \in DOMAIN f /\ j \in DOMAIN f[i].recs)
    /\ \A j \in DOMAIN segs[a].recs : j > segs[a].synced => segs[a].recs[j] \in lost

\* No record that survives lies up to the checkpoint that comes back, unless it is
\* accounted for.
LEMMA CutUpTo ==
    ASSUME NEW segs, NEW f, NEW a, NEW lost, Cuts(segs, f, a, lost), a \in Nat,
           NEW D, NEW ck, NEW past, NEW w, FilesOK(segs, D, ck, past, w),
           NEW D2, D \subseteq D2, lost \subseteq D2,
           NEW ck2, ck2 \in {ck, NoCheckpoint} \cup past
    PROVE  UpTo(f, ck2.seg, ck2.off, D2)
  <1> SUFFICES ASSUME NEW i \in DOMAIN f, NEW j \in DOMAIN f[i].recs
               PROVE  Beyond(i, j, ck2.seg, ck2.off) \/ f[i].recs[j] \in D2
    BY Zenon DEF UpTo
  <1>1. i \in DOMAIN segs /\ j \in DOMAIN segs[i].recs /\ f[i].recs[j] = segs[i].recs[j]
    BY Zenon DEF Cuts
  <1>2. i \in Nat /\ j \in Nat /\ j > 0
    BY <1>1, ListingFields DEF FilesOK
  <1>3. CASE ck2 = ck
    BY <1>1, <1>3, Zenon DEF FilesOK, UpTo
  <1>4. CASE ck2 = NoCheckpoint
    BY <1>2, <1>4 DEF NoCheckpoint, Beyond
  <1>5. CASE ck2 \in past
    <2>1. \/ Beyond(i, j, ck2.seg, ck2.off)
          \/ segs[i].recs[j] \in D
          \/ j > segs[i].synced /\ \A h \in DOMAIN segs : h <= i
      BY <1>1, <1>5, Zenon DEF FilesOK
    <2>2. ASSUME j > segs[i].synced, \A h \in DOMAIN segs : h <= i
          PROVE  segs[i].recs[j] \in lost
      <3>1. i = a
        BY <1>1, <1>2, <2>2 DEF Cuts
      <3> QED
        BY <1>1, <2>2, <3>1, ZenonT(40) DEF Cuts
    <2> QED
      BY <1>1, <2>1, <2>2, Zenon
  <1> QED
    BY <1>3, <1>4, <1>5, Zenon

\* The files a power failure leaves are those of the inductive invariant.
LEMMA CutFiles ==
    ASSUME NEW segs, NEW f, NEW a, NEW lost, Cuts(segs, f, a, lost), a \in Nat,
           NEW D, NEW ck, NEW past, NEW w, FilesOK(segs, D, ck, past, w),
           NEW D2, D \subseteq D2, lost \subseteq D2,
           NEW ck2, ck2 \in {ck, NoCheckpoint} \cup past
    PROVE  FilesOK(f, D2, ck2, {}, w)
  <1>1. UpTo(f, ck2.seg, ck2.off, D2)
    BY CutUpTo, Zenon
  <1>2. ASSUME NEW n \in 1..w
        PROVE  n \in D2 \/ \E i \in DOMAIN f : \E j \in DOMAIN f[i].recs : f[i].recs[j] = n
    <2>1. CASE n \in D
      BY <2>1, Zenon
    <2>2. CASE n \notin D
      <3>1. PICK i \in DOMAIN segs : \E j \in DOMAIN segs[i].recs : segs[i].recs[j] = n
        BY <2>2, Zenon DEF FilesOK
      <3>2. PICK j \in DOMAIN segs[i].recs : segs[i].recs[j] = n
        BY <3>1, Zenon
      <3> QED
        BY <3>2, Zenon DEF Cuts
    <2> QED
      BY <2>1, <2>2, Zenon
  <1>3. IsListing(f) /\ \A i \in DOMAIN f : f[i].synced <= Len(f[i].recs)
    BY Zenon DEF Cuts
  <1> QED
    BY <1>1, <1>2, <1>3, Zenon DEF FilesOK

\* What becomes of the active segment seg when it is cut to c.
CutsTo(seg, c, lost) ==
    /\ c \in Segments /\ c.synced <= Len(c.recs)
    /\ \A j \in DOMAIN c.recs : j \in DOMAIN seg.recs /\ c.recs[j] = seg.recs[j]
    /\ \A j \in DOMAIN seg.recs : seg.recs[j] \in lost \/ j \in DOMAIN c.recs
    /\ \A j \in DOMAIN seg.recs : j > seg.synced => seg.recs[j] \in lost

\* The active segment cut to its first k records, and what is not among them.
LEMMA CutActive ==
    ASSUME NEW seg \in Segments, seg.synced <= Len(seg.recs),
           NEW k \in seg.synced..Len(seg.recs), NEW t \in BOOLEAN,
           NEW c, c = Cut(seg, SubSeq(seg.recs, 1, k), t, k),
           NEW lost, lost = {seg.recs[j] : j \in (seg.synced + 1)..Len(seg.recs)}
    PROVE  CutsTo(seg, c, lost)
  <1>1. seg.synced \in Nat /\ seg.recs \in Seq(Nat \ {0})
    BY Zenon DEF Segments
  <1>2. k \in Nat /\ seg.synced <= k /\ k <= Len(seg.recs) /\ Len(seg.recs) \in Nat
    BY <1>1
  <1>3. PICK q : q = SubSeq(seg.recs, 1, k)
    BY Zenon
  <1>4. /\ q \in Seq(Nat \ {0}) /\ Len(q) = k /\ DOMAIN q = 1..k
        /\ DOMAIN seg.recs = 1..Len(seg.recs) /\ \A j \in 1..k : q[j] = seg.recs[j]
    BY <1>1, <1>2, <1>3
  <1>5. c \in Segments /\ c.synced = k /\ c.recs = q
    <2>1. q \in Seq(Nat \ {0}) /\ k \in Nat /\ c = Cut(seg, q, t, k)
      BY <1>2, <1>3, <1>4, Zenon
    <2> QED
      BY ONLY <2>1, seg \in Segments, t \in BOOLEAN, CutSegment
  <1>6. \A j \in DOMAIN seg.recs : j > seg.synced => seg.recs[j] \in lost
    BY <1>1, <1>2, <1>4
  <1> QED
    <2>1. c \in Segments /\ c.synced <= Len(c.recs)
      BY <1>2, <1>4, <1>5
    <2>2. \A j \in DOMAIN q : j \in DOMAIN seg.recs /\ q[j] = seg.recs[j]
      BY <1>2, <1>4
    <2>3. \A j \in DOMAIN seg.recs : j > seg.synced \/ j \in DOMAIN q
      BY <1>1, <1>2, <1>4
    <2> QED
      BY <1>5, <1>6, <2>1, <2>2, <2>3, Zenon DEF CutsTo

\* The files with the active segment cut.
LEMMA CutFile ==
    ASSUME NEW segs, IsListing(segs), NEW a \in DOMAIN segs, \A i \in DOMAIN segs : i <= a,
           \A i \in DOMAIN segs : segs[i].synced <= Len(segs[i].recs),
           NEW c, NEW lost, CutsTo(segs[a], c, lost),
           NEW f, DOMAIN f = DOMAIN segs, f[a] = c, \A i \in DOMAIN f \ {a} : f[i] = segs[i]
    PROVE  Cuts(segs, f, a, lost)
  <1>1. IsListing(f)
    BY Zenon DEF IsListing, CutsTo
  <1>2. ASSUME NEW i \in DOMAIN f
        PROVE  /\ f[i].synced <= Len(f[i].recs)
               /\ \A j \in DOMAIN f[i].recs : j \in DOMAIN segs[i].recs /\ f[i].recs[j] = segs[i].recs[j]
               /\ \A j \in DOMAIN segs[i].recs : segs[i].recs[j] \in lost \/ j \in DOMAIN f[i].recs
    BY Zenon DEF CutsTo
  <1>3. \A j \in DOMAIN segs[a].recs : j > segs[a].synced => segs[a].recs[j] \in lost
    BY Zenon DEF CutsTo
  <1> QED
    BY <1>1, <1>2, <1>3, Zenon DEF Cuts

\* The files with the active segment gone, none of it having been synced.
LEMMA CutGone ==
    ASSUME NEW segs, IsListing(segs), NEW a \in DOMAIN segs, \A i \in DOMAIN segs : i <= a,
           \A i \in DOMAIN segs : segs[i].synced <= Len(segs[i].recs),
           NEW lost, \A j \in DOMAIN segs[a].recs : segs[a].recs[j] \in lost,
           NEW f, DOMAIN f = DOMAIN segs \ {a}, \A i \in DOMAIN f : f[i] = segs[i]
    PROVE  Cuts(segs, f, a, lost)
  <1>1. IsListing(f)
    BY Zenon DEF IsListing
  <1> QED
    BY <1>1, Zenon DEF Cuts

\* The files with the active segment gone, none of it having been synced, or cut.
LEMMA PowerCuts ==
    ASSUME NEW bb, IsListing(bb.segments), Live(bb) # {},
           \A i \in Live(bb) : bb.segments[i].synced <= Len(bb.segments[i].recs),
           bb.nextSegID \in Nat, \A i \in Live(bb) : i < bb.nextSegID,
           NEW a, a = Active(bb), NEW seg, seg = bb.segments[a],
           NEW c, NEW lost, CutsTo(seg, c, lost), NEW gone,
           NEW f, f = IF gone /\ seg.synced = 0 THEN Without(bb.segments, {a}) ELSE WithActive(bb, c)
    PROVE  Cuts(bb.segments, f, a, lost) /\ a \in Nat
  <1>1. \A i \in Live(bb) : i \in Nat
    BY Zenon DEF IsListing, Live
  <1>2. a \in Live(bb) /\ \A i \in Live(bb) : i <= a
    BY <1>1, ActiveID, Zenon
  <1>3. a \in DOMAIN bb.segments /\ \A i \in DOMAIN bb.segments : i <= a
    BY <1>2, Zenon DEF Live
  <1>4. \A i \in DOMAIN bb.segments : bb.segments[i].synced <= Len(bb.segments[i].recs)
    BY Zenon DEF Live
  <1>5. CASE gone /\ seg.synced = 0
    <2>1. f = Without(bb.segments, {a})
      BY <1>5, Zenon
    <2>2. DOMAIN f = DOMAIN bb.segments \ {a} /\ \A i \in DOMAIN f : f[i] = bb.segments[i]
      BY <2>1, ZenonT(40) DEF Without
    <2>3. \A j \in DOMAIN bb.segments[a].recs : bb.segments[a].recs[j] \in lost
      <3>1. DOMAIN bb.segments[a].recs = 1..Len(bb.segments[a].recs)
        BY <1>3, ListingFields, Zenon
      <3>2. \A j \in DOMAIN seg.recs : j > 0 => seg.recs[j] \in lost
        BY <1>5, Zenon DEF CutsTo
      <3> QED
        BY <3>1, <3>2
    <2> QED
      BY <1>1, <1>2, <1>3, <1>4, <2>2, <2>3, CutGone, Zenon
  <1>6. CASE ~(gone /\ seg.synced = 0)
    <2>1. f = WithActive(bb, c)
      BY <1>6, Zenon
    <2>2. /\ DOMAIN f = DOMAIN bb.segments /\ f[a] = c
          /\ \A i \in DOMAIN f \ {a} : f[i] = bb.segments[i]
      BY <1>3, <2>1, Zenon DEF WithActive
    <2> QED
      BY <1>1, <1>2, <1>3, <1>4, <2>2, CutFile, Zenon
  <1> QED
    BY <1>5, <1>6, Zenon

\* What a power failure leaves: the active file is cut to a prefix that holds all
\* that was synced, or is gone, and any checkpoint not yet on the disk may be lost.
LEMMA PowerLossInv ==
    ASSUME IndInv, PowerLoss
    PROVE  IndInv'
  <1>1. PICK a, seg : a = Active(b) /\ seg = b.segments[a]
    BY Zenon
  <1>2. PICK lost : lost = {seg.recs[j] : j \in (seg.synced + 1)..Len(seg.recs)}
    BY Zenon
  <1>3. PICK k \in seg.synced..Len(seg.recs), t \in BOOLEAN, gone \in BOOLEAN :
           Stop(IF gone /\ seg.synced = 0 THEN Without(b.segments, {a})
                ELSE WithActive(b, Cut(seg, SubSeq(seg.recs, 1, k), t, k)), b.nextSegID)
    BY <1>1, Zenon DEF PowerLoss, Cut
  <1>4. PICK c : c = Cut(seg, SubSeq(seg.recs, 1, k), t, k)
    BY Zenon
  <1>5. PICK f : f = IF gone /\ seg.synced = 0 THEN Without(b.segments, {a}) ELSE WithActive(b, c)
    BY Zenon
  <1>6. Stop(f, b.nextSegID)
    BY <1>3, <1>4, <1>5, Zenon
  <1>7. /\ Live(b) # {} /\ atRisk' = atRisk \cup lost
        /\ acked' \in {acked, NoCheckpoint} \cup ackedPast /\ ackedPast' = {}
        /\ leftover' = leftover /\ now' = now /\ written' = written
        /\ consumed' = consumed /\ reported' = reported
    BY <1>1, <1>2, Zenon DEF PowerLoss
  <1>8. /\ FilesOK(b.segments, Done, acked, ackedPast, written)
        /\ LeftoverOK(b.segments, leftover, Done) /\ Bounded(b.segments, leftover, b.nextSegID)
        /\ Checkpoints /\ Numbers
    BY IndInvDown, Zenon
  <1>9. Done \subseteq Done' /\ lost \subseteq Done'
    BY <1>7, Zenon DEF Done
  <1>10. Cuts(b.segments, f, a, lost) /\ a \in Nat
    <2>1. /\ IsListing(b.segments) /\ b.nextSegID \in Nat /\ \A i \in Live(b) : i < b.nextSegID
          /\ \A i \in Live(b) : b.segments[i].synced <= Len(b.segments[i].recs)
      BY <1>8, Zenon DEF FilesOK, Bounded, Live
    <2>2. a \in Live(b)
      BY <1>1, <1>7, <2>1, ActiveID, Zenon DEF IsListing, Live
    <2>3. seg \in Segments /\ seg.synced <= Len(seg.recs)
      BY <1>1, <2>1, <2>2, ListingFields, Zenon DEF Live
    <2>4. CutsTo(seg, c, lost)
      BY <1>2, <1>4, <2>3, CutActive, Zenon
    <2> QED
      BY <1>1, <1>5, <1>7, <2>1, <2>4, PowerCuts, Zenon
  <1>11. FilesOK(f, Done', acked', ackedPast', written')
    BY <1>7, <1>8, <1>9, <1>10, CutFiles
  <1>12. LeftoverOK(f, leftover', Done') /\ Bounded(f, leftover', b.nextSegID)
    BY <1>7, <1>8, <1>9, <1>10, Zenon DEF LeftoverOK, Bounded, Cuts
  <1>13. Checkpoints' /\ now' \in Nat /\ written' \in Nat
    <2>1. IsCheckpoint(NoCheckpoint)
      BY Zenon DEF IsCheckpoint, NoCheckpoint, IsPosition
    <2> QED
      BY <1>7, <1>8, <2>1, Zenon DEF Checkpoints, Numbers
  <1> QED
    BY <1>6, <1>11, <1>12, <1>13, DownIndInv, Zenon

=============================================================================
