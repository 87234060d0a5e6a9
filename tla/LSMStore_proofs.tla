-------------------------- MODULE LSMStore_proofs --------------------------
(***************************************************************************)
(* Theorems about LSMStore, for every value of its constants.              *)
(***************************************************************************)
EXTENDS LSMStore, TLAPS
-----------------------------------------------------------------------------
(* The rows of a sequence of frames.                                       *)

(* Frames that are put one after the other hold the rows of both parts.    *)
LEMMA RowsOfConcatenation ==
  ASSUME NEW s \in Seq(FrameType), NEW t \in Seq(FrameType)
  PROVE  RowsOf(s \o t) = RowsOf(s) \cup RowsOf(t)
<1>1. ASSUME NEW row \in RowsOf(s \o t) PROVE row \in RowsOf(s) \cup RowsOf(t)
  <2>1. PICK i \in DOMAIN (s \o t) : row \in (s \o t)[i].rows
    BY <1>1 DEF RowsOf
  <2>2. CASE i <= Len(s)
    BY <2>1, <2>2 DEF RowsOf
  <2>3. CASE i > Len(s)
    <3>1. i - Len(s) \in DOMAIN t /\ (s \o t)[i] = t[i - Len(s)]
      BY <2>1, <2>3
    <3> QED BY <2>1, <3>1 DEF RowsOf
  <2> QED BY <2>1, <2>2, <2>3
<1>2. ASSUME NEW row \in RowsOf(s) PROVE row \in RowsOf(s \o t)
  <2>1. PICK i \in DOMAIN s : row \in s[i].rows
    BY <1>2 DEF RowsOf
  <2>2. i \in DOMAIN (s \o t) /\ (s \o t)[i] = s[i]
    BY <2>1
  <2> QED BY <2>1, <2>2 DEF RowsOf
<1>3. ASSUME NEW row \in RowsOf(t) PROVE row \in RowsOf(s \o t)
  <2>1. PICK i \in DOMAIN t : row \in t[i].rows
    BY <1>3 DEF RowsOf
  <2>2. Len(s) + i \in DOMAIN (s \o t) /\ (s \o t)[Len(s) + i] = t[i]
    BY <2>1
  <2> QED BY <2>1, <2>2 DEF RowsOf
<1> QED BY <1>1, <1>2, <1>3

(* A frame that is appended adds its own rows and no other.                *)
LEMMA RowsOfAppend ==
  ASSUME NEW s \in Seq(FrameType), NEW f \in FrameType
  PROVE  RowsOf(Append(s, f)) = RowsOf(s) \cup f.rows
<1>1. <<f>> \in Seq(FrameType) /\ RowsOf(<<f>>) = f.rows
  BY DEF RowsOf
<1>2. Append(s, f) = s \o <<f>>
  OBVIOUS
<1> QED BY <1>1, <1>2, RowsOfConcatenation

LEMMA RowsOfNone == RowsOf(<<>>) = {}
BY DEF RowsOf

LEMMA AppendIsSequence ==
  ASSUME NEW s \in Seq(FrameType), NEW f \in FrameType
  PROVE  Append(s, f) \in Seq(FrameType) /\ Append(s, f) # <<>>
<1>1. Len(Append(s, f)) = Len(s) + 1 /\ Len(s) \in Nat
  OBVIOUS
<1> QED BY <1>1

(* Concat and MergeFrame build frames, and invent no row.                  *)
LEMMA FramesStayFrames ==
  ASSUME NEW s \in Seq(FrameType), s # <<>>
  PROVE  /\ Concat(s) \in FrameType
         /\ MergeFrame(s) \in FrameType
         /\ Concat(s).rows = RowsOf(s)
         /\ MergeFrame(s).rows \subseteq RowsOf(s)
<1>1. s[1] \in FrameType
  OBVIOUS
<1>2. RowsOf(s) \in SUBSET Row
  <2>1. ASSUME NEW i \in DOMAIN s PROVE s[i].rows \subseteq Row
    <3>1. s[i] \in FrameType
      OBVIOUS
    <3> QED BY <3>1 DEF FrameType
  <2> QED BY <2>1 DEF RowsOf
<1> QED BY <1>1, <1>2 DEF Concat, MergeFrame, Winners, FrameType

(* The rows of a stamped batch carry new numbers, each its own.            *)
LEMMA StampedRows ==
  ASSUME NEW batch \in Batches, NEW first \in Nat
  PROVE  /\ Stamp(batch, first) \in FrameType
         /\ \A r \in Stamp(batch, first).rows :
              first <= r.seqno /\ r.seqno < first + Len(batch.rows)
         /\ \A r, s \in Stamp(batch, first).rows : r.seqno = s.seqno => r = s
<1> DEFINE rows == batch.rows
           row(i) == [id |-> rows[i].id, val |-> rows[i].val,
                      op |-> rows[i].op, seqno |-> first + i - 1]
<1>1. batch.schema \in Schemas /\ rows \in Seq(BatchRow)
  BY BatchesAreTyped
<1>2. \A i \in DOMAIN rows : rows[i] \in BatchRow /\ i \in 1..Len(rows)
  BY <1>1
<1>3. \A i \in DOMAIN rows : row(i) \in Row /\ row(i).seqno = first + i - 1
  BY <1>2 DEF BatchRow, Row
<1>4. Stamp(batch, first) =
        [schema |-> batch.schema, rows |-> {row(i) : i \in DOMAIN rows}]
  BY DEF Stamp
<1>5. Stamp(batch, first) \in FrameType
  BY <1>1, <1>3, <1>4 DEF FrameType
<1>6. ASSUME NEW r \in Stamp(batch, first).rows
      PROVE  \E i \in 1..Len(rows) : r = row(i) /\ r.seqno = first + i - 1
  BY <1>2, <1>4
<1>7. \A r \in Stamp(batch, first).rows :
        first <= r.seqno /\ r.seqno < first + Len(rows)
  BY <1>1, <1>6
<1>8. \A r, s \in Stamp(batch, first).rows : r.seqno = s.seqno => r = s
  <2> TAKE r, s \in Stamp(batch, first).rows
  <2> HAVE r.seqno = s.seqno
  <2>1. PICK i \in 1..Len(rows) : r = row(i) /\ r.seqno = first + i - 1
    BY <1>6
  <2>2. PICK j \in 1..Len(rows) : s = row(j) /\ s.seqno = first + j - 1
    BY <1>6
  <2>3. i = j
    BY <2>1, <2>2, <1>1
  <2> QED BY <2>1, <2>2, <2>3
<1> QED BY <1>5, <1>7, <1>8
-----------------------------------------------------------------------------
(* Type correctness.                                                       *)

LEMMA Buffers ==
  ASSUME TypeOK, NEW batch \in Batches
  PROVE  /\ Stamp(batch, seqno) \in FrameType
         /\ Buffered(batch) \in Seq(FrameType)
         /\ Buffered(batch) # <<>>
         /\ Flushed(batch) \in Seq(FrameType)
         /\ Flushed(batch) # <<>>
         /\ Len(batch.rows) \in Nat
<1>1. Stamp(batch, seqno) \in FrameType
  BY StampedRows DEF TypeOK
<1>2. Buffered(batch) \in Seq(FrameType) /\ Buffered(batch) # <<>>
  BY <1>1, AppendIsSequence DEF Buffered, TypeOK
<1>3. Concat(Buffered(batch)) \in FrameType
  BY <1>2, FramesStayFrames
<1>4. Flushed(batch) \in Seq(FrameType) /\ Flushed(batch) # <<>>
  BY <1>3, AppendIsSequence DEF Flushed, TypeOK
<1>5. Len(batch.rows) \in Nat
  BY BatchesAreTyped
<1> QED BY <1>1, <1>2, <1>4, <1>5

LEMMA InitTypeOK == Init => TypeOK
BY DEF Init, TypeOK, SnapshotType, Row

LEMMA NextTypeOK == TypeOK /\ [Next]_vars => TypeOK'
<1> SUFFICES ASSUME TypeOK, [Next]_vars PROVE TypeOK'
  OBVIOUS
<1> USE DEF TypeOK
<1>1. ASSUME NEW batch \in Batches, IngestBuffers(batch) PROVE TypeOK'
  <2>1. /\ seqno' \in Nat /\ memtable_rows' \in Nat
        /\ memtable' \in Seq(FrameType) /\ runs' \in Seq(FrameType)
    BY <1>1, Buffers DEF IngestBuffers, Number
  <2>2. snapshot' \in SnapshotType
    BY <1>1, <2>1 DEF IngestBuffers, Publish, SnapshotType
  <2> QED BY <1>1, <2>1, <2>2 DEF IngestBuffers, readers
<1>2. ASSUME NEW batch \in Batches, IngestFlushFails(batch) PROVE TypeOK'
  BY <1>2, Buffers DEF IngestFlushFails, Number, readers
<1>3. ASSUME NEW batch \in Batches, IngestFlushes(batch) PROVE TypeOK'
  <2>1. /\ seqno' \in Nat /\ memtable_rows' \in Nat
        /\ memtable' \in Seq(FrameType) /\ runs' \in Seq(FrameType)
    BY <1>3, Buffers DEF IngestFlushes, Flush, Number
  <2>2. snapshot' \in SnapshotType
    BY <1>3, <2>1 DEF IngestFlushes, Publish, SnapshotType
  <2> QED BY <1>3, <2>1, <2>2 DEF IngestFlushes, readers
<1>4. ASSUME NEW batch \in Batches, IngestCompactFails(batch) PROVE TypeOK'
  BY <1>4, Buffers DEF IngestCompactFails, Flush, Number, readers
<1>5. ASSUME NEW batch \in Batches, IngestCompacts(batch) PROVE TypeOK'
  <2>1. /\ seqno' \in Nat /\ memtable_rows' \in Nat /\ memtable' \in Seq(FrameType)
    BY <1>5, Buffers DEF IngestCompacts, Flush, Number
  <2>2. runs' \in Seq(FrameType)
    <3>1. MergeFrame(Flushed(batch)) \in FrameType
      BY Buffers, FramesStayFrames
    <3> QED BY <1>5, <3>1 DEF IngestCompacts
  <2>3. snapshot' \in SnapshotType
    BY <1>5, <2>1, <2>2 DEF IngestCompacts, Publish, SnapshotType
  <2> QED BY <1>5, <2>1, <2>2, <2>3 DEF IngestCompacts, readers
<1>6. ASSUME NEW r \in Readers, QueryReads(r) PROVE TypeOK'
  BY <1>6 DEF QueryReads, store
<1>7. ASSUME NEW r \in Readers, NEW limit \in Limits, QueryMerges(r, limit) PROVE TypeOK'
  BY <1>7 DEF QueryMerges, store
<1>8. CASE UNCHANGED vars
  BY <1>8 DEF vars, store, readers
<1> QED BY <1>1, <1>2, <1>3, <1>4, <1>5, <1>6, <1>7, <1>8 DEF Next, Ingest

(* The store's variables keep their types in every reachable state.        *)
THEOREM TypeCorrect == Spec => []TypeOK
BY InitTypeOK, NextTypeOK, PTL DEF Spec
-----------------------------------------------------------------------------
(* Sequence numbers.  That a number identifies a row is not inductive by   *)
(* itself: a batch must not reuse a number that is out already, so the     *)
(* invariant adds that every number in the store is below seqno.           *)

NumbersAreSpent == \A r \in Everywhere : r.seqno < seqno
NumberingInv == TypeOK /\ SeqnoIdentifiesRow /\ NumbersAreSpent

(* The memtable with the batch, and the runs with it flushed.              *)
LEMMA BatchJoinsRows ==
  ASSUME TypeOK, NEW batch \in Batches
  PROVE  LET new == Stamp(batch, seqno).rows
         IN  /\ RowsOf(Buffered(batch)) = RowsOf(memtable) \cup new
             /\ Concat(Buffered(batch)).rows = RowsOf(memtable) \cup new
             /\ RowsOf(Flushed(batch)) = Stored \cup new
             /\ Stored = RowsOf(runs) \cup RowsOf(memtable)
<1> USE DEF TypeOK
<1>1. RowsOf(Buffered(batch)) = RowsOf(memtable) \cup Stamp(batch, seqno).rows
  BY Buffers, RowsOfAppend DEF Buffered
<1>2. /\ Concat(Buffered(batch)) \in FrameType
      /\ Concat(Buffered(batch)).rows = RowsOf(Buffered(batch))
  BY Buffers, FramesStayFrames
<1>3. Stored = RowsOf(runs) \cup RowsOf(memtable)
  BY RowsOfConcatenation DEF Stored
<1> QED BY <1>1, <1>2, <1>3, RowsOfAppend DEF Flushed

(* An ingest adds the batch to the rows of the store, of which a compaction *)
(* keeps the newest of each key; what it publishes is what it stored.      *)
LEMMA IngestStoresTheBatch ==
  ASSUME TypeOK, NEW batch \in Batches, Ingest(batch)
  PROVE  LET all == Stored \cup Stamp(batch, seqno).rows
             Shown == RowsOf(snapshot.runs \o snapshot.memtable)
         IN  /\ Stored' = all \/ Stored' = Winners(all)
             /\ Shown' = Shown \/ Shown' = Stored'
             /\ seqno' = seqno + Len(batch.rows)
<1> DEFINE new == Stamp(batch, seqno).rows
           Shown == RowsOf(snapshot.runs \o snapshot.memtable)
<1> USE DEF TypeOK
<1>1. Stored = RowsOf(runs) \cup RowsOf(memtable)
  BY BatchJoinsRows
<1>2. RowsOf(Buffered(batch)) = RowsOf(memtable) \cup new
  BY BatchJoinsRows
<1>3. RowsOf(Flushed(batch)) = Stored \cup new
  BY BatchJoinsRows
<1>4. TypeOK'
  BY NextTypeOK DEF Next
<1>5. Stored' = RowsOf(runs') \cup RowsOf(memtable')
  BY <1>4, RowsOfConcatenation DEF Stored
<1>6. Stored' = Stored \cup new \/ Stored' = Winners(Stored \cup new)
  <2>1. CASE IngestBuffers(batch) \/ IngestFlushFails(batch)
    BY <1>1, <1>2, <1>5, <2>1 DEF IngestBuffers, IngestFlushFails
  <2>2. CASE IngestFlushes(batch) \/ IngestCompactFails(batch)
    BY <1>3, <1>5, <2>2, RowsOfNone DEF IngestFlushes, IngestCompactFails, Flush
  <2>3. CASE IngestCompacts(batch)
    <3>1. MergeFrame(Flushed(batch)).rows = Winners(Stored \cup new)
      BY <1>3 DEF MergeFrame
    <3>2. RowsOf(<<MergeFrame(Flushed(batch))>>) = MergeFrame(Flushed(batch)).rows
      BY DEF RowsOf
    <3> QED BY <1>5, <2>3, <3>1, <3>2, RowsOfNone DEF IngestCompacts, Flush
  <2> QED BY <2>1, <2>2, <2>3 DEF Ingest
<1>7. Shown' = Shown \/ Shown' = Stored'
  <2>1. CASE IngestBuffers(batch) \/ IngestFlushes(batch) \/ IngestCompacts(batch)
    BY <2>1 DEF IngestBuffers, IngestFlushes, IngestCompacts, Publish, Stored
  <2>2. CASE IngestFlushFails(batch) \/ IngestCompactFails(batch)
    BY <2>2 DEF IngestFlushFails, IngestCompactFails
  <2> QED BY <2>1, <2>2 DEF Ingest
<1>8. seqno' = seqno + Len(batch.rows)
  BY DEF Ingest, IngestBuffers, IngestFlushFails, IngestFlushes,
         IngestCompactFails, IngestCompacts, Flush, Number
<1> QED BY <1>6, <1>7, <1>8

LEMMA IngestsStoreBatches ==
  TypeOK =>
    \A batch \in Batches :
      LET all == Stored \cup Stamp(batch, seqno).rows
      IN  Ingest(batch) => Stored' = all \/ Stored' = Winners(all)
BY IngestStoresTheBatch

(* Wherever an ingest leaves rows, they are old rows or the batch's.       *)
LEMMA IngestAddsTheBatch ==
  ASSUME TypeOK, NEW batch \in Batches, Ingest(batch)
  PROVE  /\ Everywhere' \subseteq Everywhere \cup Stamp(batch, seqno).rows
         /\ seqno' = seqno + Len(batch.rows)
BY IngestStoresTheBatch DEF Everywhere, Winners

LEMMA EverywhereAreRows == TypeOK => Everywhere \subseteq Row
<1> SUFFICES ASSUME TypeOK PROVE Everywhere \subseteq Row
  OBVIOUS
<1>1. ASSUME NEW s \in Seq(FrameType) PROVE RowsOf(s) \subseteq Row
  <2>1. ASSUME NEW i \in DOMAIN s PROVE s[i].rows \subseteq Row
    <3>1. s[i] \in FrameType
      OBVIOUS
    <3> QED BY <3>1 DEF FrameType
  <2> QED BY <2>1 DEF RowsOf
<1>2. /\ runs \o memtable \in Seq(FrameType)
      /\ snapshot.runs \o snapshot.memtable \in Seq(FrameType)
  BY DEF TypeOK, SnapshotType
<1> QED BY <1>1, <1>2 DEF Everywhere, Stored

LEMMA InitNumbering == Init => NumberingInv
<1> SUFFICES ASSUME Init PROVE NumberingInv
  OBVIOUS
<1>1. Everywhere = {}
  BY RowsOfNone DEF Init, Everywhere, Stored
<1> QED BY <1>1, InitTypeOK DEF NumberingInv, SeqnoIdentifiesRow, NumbersAreSpent

LEMMA NextNumbering == NumberingInv /\ [Next]_vars => NumberingInv'
<1> SUFFICES ASSUME NumberingInv, [Next]_vars PROVE NumberingInv'
  OBVIOUS
<1>1. TypeOK'
  BY NextTypeOK DEF NumberingInv
<1>2. ASSUME NEW batch \in Batches, Ingest(batch)
      PROVE  SeqnoIdentifiesRow' /\ NumbersAreSpent'
  <2> DEFINE new == Stamp(batch, seqno).rows
  <2>1. /\ Everywhere' \subseteq Everywhere \cup new
        /\ seqno' = seqno + Len(batch.rows)
    BY <1>2, IngestAddsTheBatch DEF NumberingInv
  <2>2. seqno \in Nat /\ Len(batch.rows) \in Nat
    BY Buffers DEF NumberingInv, TypeOK
  <2>3. /\ \A r \in new : r.seqno \in Nat /\ seqno <= r.seqno
        /\ \A r \in new : r.seqno < seqno + Len(batch.rows)
        /\ \A r, s \in new : r.seqno = s.seqno => r = s
    BY <2>2, StampedRows DEF FrameType, Row
  <2>4. \A r \in Everywhere : r.seqno \in Nat /\ r.seqno < seqno
    BY EverywhereAreRows DEF NumberingInv, NumbersAreSpent, Row
  <2>5. NumbersAreSpent'
    BY <2>1, <2>2, <2>3, <2>4 DEF NumbersAreSpent
  <2>6. ASSUME NEW r \in Everywhere', NEW s \in Everywhere', r.seqno = s.seqno
        PROVE  r = s
    <3>1. CASE r \in Everywhere /\ s \in Everywhere
      BY <2>6, <3>1 DEF NumberingInv, SeqnoIdentifiesRow
    <3>2. CASE r \in new /\ s \in new
      BY <2>3, <2>6, <3>2
    <3>3. CASE (r \in new /\ s \in Everywhere) \/ (r \in Everywhere /\ s \in new)
      BY <2>2, <2>3, <2>4, <2>6, <3>3
    <3> QED BY <2>1, <3>1, <3>2, <3>3
  <2> QED BY <2>5, <2>6 DEF SeqnoIdentifiesRow
<1>3. ASSUME UNCHANGED store PROVE SeqnoIdentifiesRow' /\ NumbersAreSpent'
  BY <1>3 DEF store, NumberingInv, SeqnoIdentifiesRow, NumbersAreSpent,
              Everywhere, Stored
<1>4. ASSUME NEW r \in Readers, QueryReads(r) PROVE UNCHANGED store
  BY <1>4 DEF QueryReads
<1>5. ASSUME NEW r \in Readers, NEW limit \in Limits, QueryMerges(r, limit)
      PROVE  UNCHANGED store
  BY <1>5 DEF QueryMerges
<1>6. CASE UNCHANGED vars
  BY <1>3, <1>1, <1>6 DEF vars, NumberingInv
<1> QED BY <1>1, <1>2, <1>3, <1>4, <1>5, <1>6 DEF Next, NumberingInv

(* Of two rows with one sequence number, anywhere in the store or in the   *)
(* snapshot, both are the same row, whatever the batches, their schemas    *)
(* and the thresholds.                                                     *)
THEOREM NumbersIdentifyRows == Spec => []SeqnoIdentifiesRow
<1>1. NumberingInv => SeqnoIdentifiesRow
  BY DEF NumberingInv
<1> QED BY <1>1, InitNumbering, NextNumbering, PTL DEF Spec
-----------------------------------------------------------------------------
(* Age order.  A sequence of frames is in age order if it is made of two   *)
(* such parts, of which the first is the older.                            *)

InAgeOrder(frames) ==
  \A i, j \in DOMAIN frames :
    i < j => \A r \in frames[i].rows, s \in frames[j].rows : r.seqno < s.seqno
Before(older, newer) == \A r \in older, s \in newer : r.seqno < s.seqno
AgeInv == NumberingInv /\ FramesAreInAgeOrder

LEMMA AgeOrderOfParts ==
  ASSUME NEW s \in Seq(FrameType), NEW t \in Seq(FrameType)
  PROVE  InAgeOrder(s \o t)
           <=> InAgeOrder(s) /\ InAgeOrder(t) /\ Before(RowsOf(s), RowsOf(t))
<1>1. /\ Len(s) \in Nat /\ Len(t) \in Nat
      /\ DOMAIN s = 1..Len(s) /\ DOMAIN t = 1..Len(t)
      /\ DOMAIN (s \o t) = 1..Len(s) + Len(t)
      /\ \A i \in DOMAIN s : (s \o t)[i] = s[i]
      /\ \A i \in DOMAIN t : (s \o t)[Len(s) + i] = t[i]
  OBVIOUS
<1>2. ASSUME InAgeOrder(s \o t)
      PROVE  InAgeOrder(s) /\ InAgeOrder(t) /\ Before(RowsOf(s), RowsOf(t))
  <2>1. InAgeOrder(s)
    BY <1>1, <1>2 DEF InAgeOrder
  <2>2. InAgeOrder(t)
    <3> SUFFICES ASSUME NEW i \in DOMAIN t, NEW j \in DOMAIN t, i < j
                 PROVE  \A r \in t[i].rows, q \in t[j].rows : r.seqno < q.seqno
      BY DEF InAgeOrder
    <3>1. /\ Len(s) + i \in DOMAIN (s \o t) /\ Len(s) + j \in DOMAIN (s \o t)
          /\ Len(s) + i < Len(s) + j
      BY <1>1
    <3> QED BY <1>1, <1>2, <3>1 DEF InAgeOrder
  <2>3. Before(RowsOf(s), RowsOf(t))
    <3> SUFFICES ASSUME NEW i \in DOMAIN s, NEW j \in DOMAIN t
                 PROVE  \A r \in s[i].rows, q \in t[j].rows : r.seqno < q.seqno
      BY DEF Before, RowsOf
    <3>1. i \in DOMAIN (s \o t) /\ Len(s) + j \in DOMAIN (s \o t) /\ i < Len(s) + j
      BY <1>1
    <3> QED BY <1>1, <1>2, <3>1 DEF InAgeOrder
  <2> QED BY <2>1, <2>2, <2>3
<1>3. ASSUME InAgeOrder(s), InAgeOrder(t), Before(RowsOf(s), RowsOf(t))
      PROVE  InAgeOrder(s \o t)
  <2> SUFFICES ASSUME NEW i \in DOMAIN (s \o t), NEW j \in DOMAIN (s \o t), i < j
               PROVE  \A r \in (s \o t)[i].rows, q \in (s \o t)[j].rows : r.seqno < q.seqno
    BY DEF InAgeOrder
  <2>1. CASE i \in DOMAIN s /\ j \in DOMAIN s
    BY <1>1, <1>3, <2>1 DEF InAgeOrder
  <2>2. CASE i \in DOMAIN s /\ j \notin DOMAIN s
    <3>1. j - Len(s) \in DOMAIN t /\ j = Len(s) + (j - Len(s))
      BY <1>1, <2>2
    <3>2. (s \o t)[j] = t[j - Len(s)] /\ (s \o t)[i] = s[i]
      BY <1>1, <2>2, <3>1
    <3> QED BY <1>3, <2>2, <3>1, <3>2 DEF Before, RowsOf
  <2>3. CASE i \notin DOMAIN s
    <3>1. PICK m \in DOMAIN t : i = Len(s) + m
      <4>1. i - Len(s) \in 1..Len(t) /\ i = Len(s) + (i - Len(s))
        BY <1>1, <2>3
      <4> QED BY <1>1, <4>1
    <3>2. PICK n \in DOMAIN t : j = Len(s) + n
      <4>1. j - Len(s) \in 1..Len(t) /\ j = Len(s) + (j - Len(s))
        BY <1>1, <2>3
      <4> QED BY <1>1, <4>1
    <3>3. m < n
      BY <1>1, <3>1, <3>2
    <3>4. (s \o t)[i] = t[m] /\ (s \o t)[j] = t[n]
      BY <1>1, <3>1, <3>2
    <3> QED BY <1>3, <3>3, <3>4 DEF InAgeOrder
  <2> QED BY <2>1, <2>2, <2>3
<1> QED BY <1>2, <1>3

LEMMA AgeOrderOfAppend ==
  ASSUME NEW s \in Seq(FrameType), NEW f \in FrameType,
         InAgeOrder(s), Before(RowsOf(s), f.rows)
  PROVE  InAgeOrder(Append(s, f))
<1>1. <<f>> \in Seq(FrameType) /\ RowsOf(<<f>>) = f.rows /\ InAgeOrder(<<f>>)
  BY DEF RowsOf, InAgeOrder
<1>2. Append(s, f) = s \o <<f>>
  OBVIOUS
<1> QED BY <1>1, <1>2, AgeOrderOfParts

LEMMA NextAge == AgeInv /\ [Next]_vars => AgeInv'
<1> SUFFICES ASSUME AgeInv, [Next]_vars PROVE AgeInv'
  OBVIOUS
<1>1. NumberingInv'
  BY NextNumbering DEF AgeInv
<1>2. TypeOK /\ TypeOK'
  BY <1>1 DEF AgeInv, NumberingInv
<1>3. runs \in Seq(FrameType) /\ memtable \in Seq(FrameType)
  BY <1>2 DEF TypeOK
<1>4. InAgeOrder(runs) /\ InAgeOrder(memtable) /\ Before(RowsOf(runs), RowsOf(memtable))
  BY <1>3, AgeOrderOfParts DEF AgeInv, FramesAreInAgeOrder, InAgeOrder
<1>5. ASSUME NEW batch \in Batches, Ingest(batch)
      PROVE  InAgeOrder((runs \o memtable)')
  <2> DEFINE new == Stamp(batch, seqno)
             flushed == Concat(Buffered(batch))
  <2>1. /\ new \in FrameType /\ flushed \in FrameType
        /\ Buffered(batch) \in Seq(FrameType) /\ Flushed(batch) \in Seq(FrameType)
        /\ RowsOf(Buffered(batch)) = RowsOf(memtable) \cup new.rows
        /\ flushed.rows = RowsOf(Buffered(batch))
    BY <1>2, Buffers, FramesStayFrames, BatchJoinsRows
  <2>2. Before(RowsOf(runs), new.rows) /\ Before(RowsOf(memtable), new.rows)
    <3>1. \A r \in RowsOf(runs) \cup RowsOf(memtable) : r \in Row /\ r.seqno < seqno
      BY <1>2, <1>3, RowsOfConcatenation, EverywhereAreRows
         DEF AgeInv, NumberingInv, NumbersAreSpent, Everywhere, Stored
    <3>2. \A r \in new.rows : r \in Row /\ seqno <= r.seqno
      BY <1>2, <2>1, StampedRows DEF FrameType, TypeOK
    <3>3. seqno \in Nat /\ \A r \in Row : r.seqno \in Nat
      BY <1>2 DEF TypeOK, Row
    <3>4. ASSUME NEW r \in RowsOf(runs) \cup RowsOf(memtable), NEW q \in new.rows
          PROVE  r.seqno < q.seqno
      <4>1. r.seqno \in Nat /\ q.seqno \in Nat
        BY <3>1, <3>2, <3>3
      <4> QED BY <3>1, <3>2, <3>3, <4>1
    <3> QED BY <3>4 DEF Before
  <2>3. Before(RowsOf(runs), flushed.rows)
    BY <1>4, <2>1, <2>2 DEF Before
  <2>4. CASE IngestBuffers(batch) \/ IngestFlushFails(batch)
    <3>1. InAgeOrder(Buffered(batch))
      BY <1>3, <1>4, <2>1, <2>2, AgeOrderOfAppend DEF Buffered
    <3>2. runs' = runs /\ memtable' = Buffered(batch)
      BY <2>4 DEF IngestBuffers, IngestFlushFails
    <3> QED BY <1>3, <1>4, <2>1, <2>3, <3>1, <3>2, AgeOrderOfParts
  <2>5. CASE IngestFlushes(batch) \/ IngestCompactFails(batch)
    <3>1. InAgeOrder(Flushed(batch))
      BY <1>3, <1>4, <2>1, <2>3, AgeOrderOfAppend DEF Flushed
    <3>2. runs' \o memtable' = Flushed(batch)
      BY <2>1, <2>5 DEF IngestFlushes, IngestCompactFails, Flush
    <3> QED BY <3>1, <3>2
  <2>6. CASE IngestCompacts(batch)
    <3>1. runs' \o memtable' = <<MergeFrame(Flushed(batch))>>
      BY <2>6 DEF IngestCompacts, Flush
    <3> QED BY <3>1 DEF InAgeOrder
  <2> QED BY <1>5, <2>4, <2>5, <2>6 DEF Ingest
<1>6. ASSUME UNCHANGED store PROVE FramesAreInAgeOrder'
  BY <1>6 DEF store, AgeInv, FramesAreInAgeOrder
<1>7. CASE \E batch \in Batches : Ingest(batch)
  BY <1>1, <1>5, <1>7 DEF AgeInv, FramesAreInAgeOrder, InAgeOrder
<1>8. CASE ~\E batch \in Batches : Ingest(batch)
  BY <1>1, <1>6, <1>8 DEF AgeInv, Next, QueryReads, QueryMerges, vars
<1> QED BY <1>7, <1>8

(* An older frame holds older rows than a newer one, in the runs and the   *)
(* memtable, whatever flushes and compactions succeed or raise.            *)
THEOREM FramesAge == Spec => []FramesAreInAgeOrder
<1>1. Init => AgeInv
  BY InitNumbering DEF AgeInv, Init, FramesAreInAgeOrder
<1> QED BY <1>1, NextAge, PTL DEF Spec, AgeInv
=============================================================================
