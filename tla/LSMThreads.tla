----------------------------- MODULE LSMThreads -----------------------------
(***************************************************************************)
(* LSMStore.ingest as the interpreter runs it: in steps between which the  *)
(* lock of the interpreter may pass to another thread (at calls and        *)
(* returns).  HttpIngest says who the writers are.  With one writer this   *)
(* is LSMStore; with two it shows what the missing lock costs.             *)
(***************************************************************************)
EXTENDS LSMStore

CONSTANTS Writers   \* the threads that may be inside ingest()

VARIABLES
  pc,        \* where in ingest() each writer is; "idle" outside
  local,     \* the local variables of each writer's ingest
  handed,    \* history: frames that were appended to the memtable
  accepted,  \* history: rows of ingests that returned normally
  settled    \* history: the working set when last no ingest was running

private == <<seqno, memtable, memtable_rows, runs>>
history == <<handed, accepted, settled>>
threadVars == <<vars, pc, local, history>>

(* frame: the stamped batch; frames: what concat or the merge works on;    *)
(* current: the list that _flush fetched is still self._runs; seen: what   *)
(* _publish has read so far.                                               *)
NoLocals == [frame |-> Idle, frames |-> <<>>, current |-> FALSE,
             seen |-> [runs |-> <<>>, memtable |-> <<>>]]

ThreadInit ==
  /\ Init
  /\ pc = [w \in Writers |-> "idle"]
  /\ local = [w \in Writers |-> NoLocals]
  /\ handed = {}
  /\ accepted = {}
  /\ settled = [seqno |-> 0, memtable |-> <<>>, memtable_rows |-> 0, runs |-> <<>>]

(* Control passes from one point of ingest() to another.                   *)
At(w, point) == pc[w] = point
Goto(w, to) ==
  /\ pc' = [pc EXCEPT ![w] = to]
  /\ UNCHANGED <<readers, handed>>
  /\ settled' = IF \A v \in Writers : pc'[v] = "idle"
                THEN [seqno |-> seqno', memtable |-> memtable',
                      memtable_rows |-> memtable_rows', runs |-> runs']
                ELSE settled

Keep(w, locals) == local' = [local EXCEPT ![w] = locals]
Rows(w) == Cardinality(local[w].frame.rows)

(* from_arrow, and the first of the new sequence numbers is read.          *)
StampRows(w, batch) ==
  /\ At(w, "idle")
  /\ Room(batch)
  /\ Keep(w, [NoLocals EXCEPT !.frame = Stamp(batch, seqno)])
  /\ UNCHANGED <<private, snapshot, accepted>>
  /\ Goto(w, "append")

(* Mutation: the counter is computed from the number that was read when    *)
(* the batch was stamped.                                                  *)
AppendOverwrites(w) ==
  /\ At(w, "append")
  /\ pc' = [pc EXCEPT ![w] = "count"]
  /\ seqno' = IF Rows(w) = 0 THEN seqno
              ELSE 1 + CHOOSE n \in {r.seqno : r \in local[w].frame.rows} :
                         \A r \in local[w].frame.rows : r.seqno <= n
  /\ memtable' = Append(memtable, local[w].frame)
  /\ handed' = handed \cup {local[w].frame}
  /\ UNCHANGED <<memtable_rows, runs, snapshot, readers, local, accepted, settled>>

(* with_columns has returned; no call separates the two statements.        *)
AppendFrame(w) ==
  /\ At(w, "append")
  /\ pc' = [pc EXCEPT ![w] = "count"]
  /\ seqno' = seqno + Rows(w)
  /\ memtable' = Append(memtable, local[w].frame)
  /\ handed' = handed \cup {local[w].frame}
  /\ UNCHANGED <<memtable_rows, runs, snapshot, readers, local, accepted, settled>>

CountRows(w) ==
  /\ At(w, "count")
  /\ memtable_rows' = memtable_rows + Rows(w)
  /\ UNCHANGED <<seqno, memtable, runs, snapshot, local, accepted>>
  /\ \/ memtable_rows' >= FlushRows /\ Goto(w, "flush")
     \/ memtable_rows' < FlushRows /\ Goto(w, "publish")

(* The method object self._runs.append is made before concat runs.         *)
FlushConcats(w) ==
  /\ At(w, "flush")
  /\ memtable # <<>>
  /\ SameSchema(memtable)
  /\ Keep(w, [local[w] EXCEPT !.frames = memtable, !.current = TRUE])
  /\ UNCHANGED <<private, snapshot, accepted>>
  /\ Goto(w, "extend")

FlushRaises(w) ==
  /\ At(w, "flush")
  /\ ~SameSchema(memtable)
  /\ Keep(w, NoLocals)
  /\ UNCHANGED <<private, snapshot, accepted>>
  /\ Goto(w, "idle")

(* "if not self._memtable: return" - another writer has just flushed.      *)
FlushSkips(w) ==
  /\ At(w, "flush")
  /\ memtable = <<>>
  /\ UNCHANGED <<private, snapshot, local, accepted>>
  /\ Goto(w, "decide")

(* A run appended to a list that a compaction has replaced is lost.        *)
FlushExtends(w) ==
  /\ At(w, "extend")
  /\ runs' = IF local[w].current THEN Append(runs, Concat(local[w].frames)) ELSE runs
  /\ Keep(w, [local[w] EXCEPT !.frames = <<>>, !.current = FALSE])
  /\ UNCHANGED <<seqno, memtable, memtable_rows, snapshot, accepted>>
  /\ Goto(w, "reset")

FlushResets(w) ==
  /\ At(w, "reset")
  /\ memtable' = <<>>
  /\ memtable_rows' = 0
  /\ UNCHANGED <<seqno, runs, snapshot, local, accepted>>
  /\ Goto(w, "decide")

Decide(w) ==
  /\ At(w, "decide")
  /\ UNCHANGED <<private, snapshot, local, accepted>>
  /\ \/ Len(runs) >= CompactionRuns /\ Goto(w, "compact")
     \/ Len(runs) < CompactionRuns /\ Goto(w, "publish")

CompactReads(w) ==
  /\ At(w, "compact")
  /\ SameSchema(runs)
  /\ Keep(w, [local[w] EXCEPT !.frames = runs])
  /\ UNCHANGED <<private, snapshot, accepted>>
  /\ Goto(w, "replace")

CompactRaises(w) ==
  /\ At(w, "compact")
  /\ ~SameSchema(runs)
  /\ Keep(w, NoLocals)
  /\ UNCHANGED <<private, snapshot, accepted>>
  /\ Goto(w, "idle")

(* Mutation: the window function lacks over(key_columns), so one row of    *)
(* all keys gets rank 1.                                                   *)
RankOneOfAll(rows) ==
  {{r} : r \in {r \in rows : \A s \in rows : s.seqno <= r.seqno}}

(* Mutation: the rank column is not dropped.                               *)
RankOneWithRank(rows) ==
  {{[id |-> r.id, val |-> r.val, op |-> r.op, seqno |-> r.seqno, rn |-> 1] :
     r \in Winners(rows)}}

(* rank("ordinal") gives one row of a key rank 1 also when several carry   *)
(* the highest number; which one, the model leaves open.                   *)
RankOne(rows) ==
  {chosen \in SUBSET Winners(rows) :
    \A r \in Winners(rows) : \E s \in chosen :
      s.id = r.id /\ \A t \in chosen : t.id = r.id => t = s}

CompactReplaces(w) ==
  /\ At(w, "replace")
  /\ \E chosen \in RankOne(RowsOf(local[w].frames)) :
       runs' = <<[schema |-> local[w].frames[1].schema, rows |-> chosen]>>
  /\ local' = [v \in Writers |->
                IF v = w THEN [local[w] EXCEPT !.frames = <<>>]
                ELSE [local[v] EXCEPT !.current = FALSE]]
  /\ UNCHANGED <<seqno, memtable, memtable_rows, snapshot, accepted>>
  /\ Goto(w, "publish")

(* Mutation: the snapshot is assigned before the memtable is read.         *)
PublishEarly(w) ==
  /\ At(w, "publish")
  /\ snapshot' = [snapshot EXCEPT !.runs = runs]
  /\ Keep(w, [local[w] EXCEPT !.seen.runs = runs])
  /\ UNCHANGED <<private, accepted>>
  /\ Goto(w, "publish_memtable")

PublishReadsRuns(w) ==
  /\ At(w, "publish")
  /\ Keep(w, [local[w] EXCEPT !.seen.runs = runs])
  /\ UNCHANGED <<private, snapshot, accepted>>
  /\ Goto(w, "publish_memtable")

(* Mutation: only the runs are published.                                  *)
PublishForgetsMemtable(w) ==
  /\ At(w, "publish_memtable")
  /\ UNCHANGED <<private, snapshot, local, accepted>>
  /\ Goto(w, "assign")

PublishReadsMemtable(w) ==
  /\ At(w, "publish_memtable")
  /\ Keep(w, [local[w] EXCEPT !.seen.memtable = memtable])
  /\ UNCHANGED <<private, snapshot, accepted>>
  /\ Goto(w, "assign")

PublishAssigns(w) ==
  /\ At(w, "assign")
  /\ snapshot' = local[w].seen
  /\ accepted' = accepted \cup local[w].frame.rows
  /\ Keep(w, NoLocals)
  /\ UNCHANGED private
  /\ Goto(w, "idle")

ThreadQueryReads(r) ==
  /\ QueryReads(r)
  /\ UNCHANGED <<pc, local, history>>

ThreadQueryMerges(r, limit) ==
  /\ held[r] # Idle
  /\ LET frames == held[r].runs \o held[r].memtable
     IN IF SameSchema(frames)
        THEN \E chosen \in RankOne(RowsOf(frames)) :
               reply' = [reply EXCEPT ![r] =
                 MergeToRows(<<[schema |-> Idle, rows |-> chosen]>>, limit)]
        ELSE reply' = [reply EXCEPT ![r] = Failed]
  /\ held' = [held EXCEPT ![r] = Idle]
  /\ UNCHANGED <<store, pc, local, history>>

IngestGoesOn(w) ==
  \/ AppendFrame(w) \/ CountRows(w)
  \/ FlushConcats(w) \/ FlushSkips(w) \/ FlushExtends(w) \/ FlushResets(w)
  \/ Decide(w) \/ CompactReads(w) \/ CompactReplaces(w)
  \/ PublishReadsRuns(w) \/ PublishReadsMemtable(w)

IngestRaises(w) == FlushRaises(w) \/ CompactRaises(w)
IngestReturns(w) == PublishAssigns(w)

ReaderStep(r) ==
  ThreadQueryReads(r) \/ \E limit \in Limits : ThreadQueryMerges(r, limit)
-----------------------------------------------------------------------------
ThreadTypeOK ==
  /\ TypeOK
  /\ pc \in [Writers -> {"idle", "append", "count", "flush", "extend", "reset",
                         "decide", "compact", "replace", "publish",
                         "publish_memtable", "assign"}]
  /\ \A w \in Writers : /\ local[w].frame \in FrameType \cup {Idle}
                        /\ local[w].frames \in Seq(FrameType)
                        /\ local[w].seen \in SnapshotType
  /\ handed \subseteq FrameType
  /\ accepted \subseteq Row

(* With one writer no thread can tell the steps of an ingest apart: to     *)
(* every reader the whole ingest happens when its snapshot is assigned,    *)
(* or, when it raises, never.                                              *)
AtomicStore == INSTANCE LSMStore WITH
  seqno <- settled.seqno, memtable <- settled.memtable,
  memtable_rows <- settled.memtable_rows, runs <- settled.runs
ImplementsLSMStore == AtomicStore!Spec

(* An ingest that returned normally (POST /data/ingest then answers 202,   *)
(* routers/data.py:48) is in every later snapshot, unless a row of the     *)
(* same key with no smaller number took its place.                         *)
AcceptedIsVisible ==
  \A r \in accepted : \E s \in RowsOf(snapshot.runs \o snapshot.memtable) :
    s.id = r.id /\ s.seqno >= r.seqno

(* However many writers race, a reader never sees half of a batch: when    *)
(* one row of a batch is in the snapshot, each other row of it is there    *)
(* or a row of its key with no smaller number is (for batches that share   *)
(* no row).                                                                *)
BatchesAreSeenWhole ==
  LET seen == RowsOf(snapshot.runs \o snapshot.memtable)
  IN \A frame \in handed :
       frame.rows \cap seen # {} =>
         \A r \in frame.rows : \E s \in seen : s.id = r.id /\ s.seqno >= r.seqno
=============================================================================
