------------------------------ MODULE LSMStore ------------------------------
(***************************************************************************)
(* The in-memory log-structured store of                                   *)
(* persistence/stream_store/lsm_store.py, with one writer at a time (what  *)
(* the class is written for) and any number of readers.  An ingest is one  *)
(* step: everything it changes before the last assignment is private to    *)
(* the writer, and that assignment replaces the snapshot readers use.      *)
(* LSMThreads splits the ingest into the steps of the interpreter.         *)
(***************************************************************************)
EXTENDS Integers, Sequences, FiniteSets

CONSTANTS
  Keys,            \* values of the key column ("id")
  Vals,            \* values of the payload columns (name and value)
  Absent,          \* the cell of a key that is not in the table
  Schemas,         \* column layouts of batches; concat refuses to mix them
  Batches,         \* the record batches that may arrive: [schema, rows]
  FlushRows,       \* settings.lsm_flush_rows
  CompactionRuns,  \* settings.lsm_compaction_runs
  Readers,         \* threads of the asyncio pool that run query()
  Limits,          \* the limits of queries; 0 means no limit
  Idle,            \* a reader without a query, or without an answer
  Failed,          \* the answer of a query that raised
  MaxRows,         \* bound: rows ever ingested
  MaxFrames        \* bound: frames in the memtable (empty batches add some)

Ops == {"upsert", "delete"}
BatchRow == [id : Keys, val : Vals, op : Ops]
Row == [id : Keys, val : Vals, op : Ops, seqno : Nat]
FrameType == [schema : Schemas, rows : SUBSET Row]
SnapshotType == [runs : Seq(FrameType), memtable : Seq(FrameType)]

ASSUME KeysAreIntegers == Keys \subseteq Int
ASSUME AbsentIsNoValue == Absent \notin Vals
ASSUME LimitsAreNaturals == Limits \subseteq Nat
ASSUME ThresholdsAreNaturals == FlushRows \in Nat /\ CompactionRuns \in Nat
ASSUME BatchesAreTyped == Batches \subseteq [schema : Schemas, rows : Seq(BatchRow)]
ASSUME IdleIsNoSnapshot == Idle \notin SnapshotType
ASSUME IdleIsNoTable == Idle \notin [Keys -> Vals \cup {Absent}]
ASSUME BoundsAreNaturals == MaxRows \in Nat /\ MaxFrames \in Nat

VARIABLES
  seqno,          \* the sequence number of the next row
  memtable,       \* frames not yet flushed
  memtable_rows,  \* the counter compared with FlushRows
  runs,           \* flushed frames, oldest first
  snapshot,       \* what the next query reads
  held,           \* the snapshot each reader's query runs on, or Idle
  reply           \* what each reader's last query returned, or Idle

store == <<seqno, memtable, memtable_rows, runs, snapshot>>
readers == <<held, reply>>
vars == <<store, readers>>
-----------------------------------------------------------------------------
(* Frames.  pl.concat(how="vertical") raises unless all schemas agree.     *)

RowsOf(frames) == UNION {frames[i].rows : i \in DOMAIN frames}
SameSchema(frames) ==
  \A i, j \in DOMAIN frames : frames[i].schema = frames[j].schema
Concat(frames) == [schema |-> frames[1].schema, rows |-> RowsOf(frames)]

(* Mutation: ranking without descending=True keeps the oldest row.         *)
WinnersOldest(rows) ==
  {r \in rows : \A s \in rows : s.id = r.id => s.seqno >= r.seqno}

(* The row of rank 1 of each key: the newest, for sequence numbers differ. *)
Winners(rows) ==
  {r \in rows : \A s \in rows : s.id = r.id => s.seqno <= r.seqno}

(* Mutation: compaction drops the order column, as a query does.           *)
MergeFrameUnnumbered(frames) ==
  [schema |-> frames[1].schema,
   rows |-> {[id |-> r.id, val |-> r.val, op |-> r.op] :
              r \in Winners(RowsOf(frames))}]

MergeFrame(frames) ==
  [schema |-> frames[1].schema, rows |-> Winners(RowsOf(frames))]

(* Mutation: delete markers are dropped before the rows are ranked, so the *)
(* row a delete was to hide comes back.                                    *)
LiveFilteredFirst(frames) ==
  Winners({r \in RowsOf(frames) : r.op # "delete"})

(* What a query over frames returns: the count of live rows and the rows   *)
(* that are left of them, in key order, when a limit is given.             *)
Live(frames) == {r \in Winners(RowsOf(frames)) : r.op # "delete"}
MergeToRows(frames, limit) ==
  IF SameSchema(frames)
  THEN [total |-> Cardinality(Live(frames)),
        rows |-> {[id |-> r.id, val |-> r.val] :
                   r \in {r \in Live(frames) :
                     \/ limit = 0
                     \/ Cardinality({s \in Live(frames) : s.id < r.id}) < limit}}]
  ELSE Failed
-----------------------------------------------------------------------------
Init ==
  /\ seqno = 0
  /\ memtable = <<>>
  /\ memtable_rows = 0
  /\ runs = <<>>
  /\ snapshot = [runs |-> <<>>, memtable |-> <<>>]
  /\ held = [r \in Readers |-> Idle]
  /\ reply = [r \in Readers |-> Idle]

Room(batch) ==
  /\ seqno + Len(batch.rows) <= MaxRows
  /\ Len(memtable) < MaxFrames

(* Mutation: the series of numbers starts at the first number again and    *)
(* again.                                                                  *)
StampAlike(batch, first) ==
  [schema |-> batch.schema,
   rows |-> {[id |-> batch.rows[i].id, val |-> batch.rows[i].val,
              op |-> batch.rows[i].op, seqno |-> first] : i \in DOMAIN batch.rows}]

(* The batch with the seqno column: its rows are numbered in their order.  *)
Stamp(batch, first) ==
  [schema |-> batch.schema,
   rows |-> {[id |-> batch.rows[i].id, val |-> batch.rows[i].val,
              op |-> batch.rows[i].op, seqno |-> first + i - 1] :
              i \in DOMAIN batch.rows}]

(* Mutation: the frame is put in front of the memtable.                    *)
BufferedInFront(batch) == <<Stamp(batch, seqno)>> \o memtable

Buffered(batch) == Append(memtable, Stamp(batch, seqno))
Flushed(batch) == Append(runs, Concat(Buffered(batch)))

(* Mutation: the memtable is flushed only when it has outgrown flush_rows. *)
OutgrowsFlush(batch) == memtable_rows + Len(batch.rows) > FlushRows

ReachesFlush(batch) == memtable_rows + Len(batch.rows) >= FlushRows
ReachesCompaction(batch) == Len(runs) + 1 >= CompactionRuns

(* The part every ingest begins with.                                      *)
Number(batch) ==
  /\ Room(batch)
  /\ seqno' = seqno + Len(batch.rows)

Publish == snapshot' = [runs |-> runs', memtable |-> memtable']

IngestBuffers(batch) ==
  /\ Number(batch)
  /\ ~ReachesFlush(batch)
  /\ memtable' = Buffered(batch)
  /\ memtable_rows' = memtable_rows + Len(batch.rows)
  /\ UNCHANGED runs
  /\ Publish
  /\ UNCHANGED readers

(* _flush raises when the memtable mixes schemas.  The batch stays in it,  *)
(* and the snapshot is not published.                                      *)
IngestFlushFails(batch) ==
  /\ Number(batch)
  /\ ReachesFlush(batch)
  /\ ~SameSchema(Buffered(batch))
  /\ memtable' = Buffered(batch)
  /\ memtable_rows' = memtable_rows + Len(batch.rows)
  /\ UNCHANGED <<runs, snapshot>>
  /\ UNCHANGED readers

Flush(batch) ==
  /\ Number(batch)
  /\ ReachesFlush(batch)
  /\ SameSchema(Buffered(batch))
  /\ memtable' = <<>>
  /\ memtable_rows' = 0

IngestFlushes(batch) ==
  /\ Flush(batch)
  /\ ~ReachesCompaction(batch)
  /\ runs' = Flushed(batch)
  /\ Publish
  /\ UNCHANGED readers

(* _compact raises when the runs mix schemas: the new run stays, and the   *)
(* snapshot is not published.                                              *)
IngestCompactFails(batch) ==
  /\ Flush(batch)
  /\ ReachesCompaction(batch)
  /\ ~SameSchema(Flushed(batch))
  /\ runs' = Flushed(batch)
  /\ UNCHANGED snapshot
  /\ UNCHANGED readers

IngestCompacts(batch) ==
  /\ Flush(batch)
  /\ ReachesCompaction(batch)
  /\ SameSchema(Flushed(batch))
  /\ runs' = <<MergeFrame(Flushed(batch))>>
  /\ Publish
  /\ UNCHANGED readers

(* A query reads the snapshot once and merges what it read.                *)
QueryReads(r) ==
  /\ held[r] = Idle
  /\ held' = [held EXCEPT ![r] = snapshot]
  /\ reply' = [reply EXCEPT ![r] = Idle]
  /\ UNCHANGED store

QueryMerges(r, limit) ==
  /\ held[r] # Idle
  /\ reply' = [reply EXCEPT ![r] =
                 MergeToRows(held[r].runs \o held[r].memtable, limit)]
  /\ held' = [held EXCEPT ![r] = Idle]
  /\ UNCHANGED store

Ingest(batch) ==
  \/ IngestBuffers(batch)
  \/ IngestFlushFails(batch)
  \/ IngestFlushes(batch)
  \/ IngestCompactFails(batch)
  \/ IngestCompacts(batch)

Next ==
  \/ \E batch \in Batches : Ingest(batch)
  \/ \E r \in Readers : QueryReads(r)
  \/ \E r \in Readers, limit \in Limits : QueryMerges(r, limit)

Spec == Init /\ [][Next]_vars
-----------------------------------------------------------------------------
TypeOK ==
  /\ seqno \in Nat
  /\ memtable \in Seq(FrameType)
  /\ memtable_rows \in Nat
  /\ runs \in Seq(FrameType)
  /\ snapshot \in SnapshotType
  /\ held \in [Readers -> SnapshotType \cup {Idle}]
  /\ DOMAIN reply = Readers

Stored == RowsOf(runs \o memtable)
Everywhere == Stored \cup RowsOf(snapshot.runs \o snapshot.memtable)

(* A sequence number identifies a row: of two rows anywhere in the store   *)
(* that carry the same number, both are the same row, wherever flushing,   *)
(* compaction and publishing have left copies of it.  Newest-wins merging  *)
(* (lsm_store.py:20-25) has a unique winner only because of this.          *)
SeqnoIdentifiesRow ==
  \A r, s \in Everywhere : r.seqno = s.seqno => r = s

(* Rows age in the order of the frames that hold them: everything in an    *)
(* older run is older than everything in a newer one, and every run is     *)
(* older than the memtable, also after a flush that failed.                *)
FramesAreInAgeOrder ==
  LET frames == runs \o memtable
  IN \A i, j \in DOMAIN frames :
       i < j => \A r \in frames[i].rows, s \in frames[j].rows : r.seqno < s.seqno

(* While neither the runs nor the memtable mix schemas - so no ingest has  *)
(* raised - the store needs space for the keys and a bounded tail of recent*)
(* writes, however much is ingested: fewer than compaction_runs runs are   *)
(* kept (or just one), the memtable stays under flush_rows and its counter *)
(* is exact, and no run outgrows both one row a key (compacted) and a full *)
(* memtable with one more batch (flushed).                                 *)
BoundedWorkingSet ==
  FlushRows > 0 /\ SameSchema(runs) /\ SameSchema(memtable) =>
    /\ Len(runs) <= 1 \/ Len(runs) < CompactionRuns
    /\ memtable_rows < FlushRows
    /\ memtable_rows = Cardinality(RowsOf(memtable))
    /\ \A i \in DOMAIN runs :
         \/ Cardinality(runs[i].rows) <= Cardinality(Keys)
         \/ \E batch \in Batches :
              Cardinality(runs[i].rows) < FlushRows + Len(batch.rows)

(* stream_ingest.py:90 reports a failed ingest as "skipping batch", and    *)
(* the design documents say a malformed batch is skipped.  A skipped batch *)
(* would leave the working set as it was: the store would hold no row that *)
(* readers can never be shown.                                             *)
SkippedBatchLeavesNoTrace ==
  [][\A batch \in Batches :
       IngestFlushFails(batch) \/ IngestCompactFails(batch)
         => UNCHANGED <<memtable, runs>>]_vars
-----------------------------------------------------------------------------
(* The store implements NewestWins.  The table of a set of rows shows, for *)
(* each key, the cell of its newest row.                                   *)
Table(rows) ==
  [k \in Keys |->
    IF \E r \in Winners(rows) : r.id = k /\ r.op # "delete"
    THEN (CHOOSE r \in Winners(rows) : r.id = k /\ r.op # "delete").val
    ELSE Absent]
TableOf(snap) == Table(RowsOf(snap.runs \o snap.memtable))

Abstract == INSTANCE NewestWins WITH
  Batches <- {batch.rows : batch \in Batches},
  Faulty <- \E a, b \in Schemas : a # b,
  written <- Table(Stored),
  visible <- TableOf(snapshot),
  pending <- [r \in Readers |-> IF held[r] = Idle THEN Idle ELSE TableOf(held[r])]

(* Every behaviour of the store is one of a table in which the newest      *)
(* write of a key wins, deletes hide keys for good, and a query answers    *)
(* from the version visible when it started: memtables, runs, flushes,     *)
(* compactions and concurrent readers cannot be told apart from it.        *)
ImplementsNewestWins == Abstract!Spec
=============================================================================
