------------------------- MODULE HttpIngest_proofs -------------------------
(***************************************************************************)
(* Theorems about HttpIngest and LSMThreads: first for any number of       *)
(* writers, then the refinement of LSMStore for one of them.               *)
(***************************************************************************)
EXTENDS HttpIngest, NewestWins_proofs

(* What a thread does to the store, whoever the thread is.                 *)
WriterStep(w) ==
  \/ \E batch \in Batches : StampRows(w, batch)
  \/ IngestGoesOn(w) \/ IngestRaises(w) \/ IngestReturns(w)
-----------------------------------------------------------------------------
(* Types.  The frames that concat and the merge work on are not empty: a   *)
(* writer that finds the memtable empty comes after one that flushed it,   *)
(* and runs are replaced but never taken away.                             *)

Points == {"idle", "append", "count", "flush", "extend", "reset", "decide",
           "compact", "replace", "publish", "publish_memtable", "assign"}
LocalType == [frame : FrameType \cup {Idle}, frames : Seq(FrameType),
              current : BOOLEAN, seen : SnapshotType]

HasFrame(w) ==
  ~At(w, "idle") => local[w].frame \in FrameType /\ IsFiniteSet(local[w].frame.rows)
HasFrames(w) == pc[w] \in {"extend", "replace"} => local[w].frames # <<>>
RunsExist(w) ==
  \/ pc[w] \in {"reset", "decide", "compact"}
  \/ At(w, "extend") /\ ~local[w].current
  => runs # <<>>
HasHanded(w) == pc[w] \notin {"idle", "append"} => handed # {}
FlushedOnce == handed # {} /\ memtable = <<>> => runs # <<>>

WriterInv(w) == HasFrame(w) /\ HasFrames(w) /\ RunsExist(w) /\ HasHanded(w)
ThreadInv ==
  /\ TypeOK
  /\ pc \in [Writers -> Points]
  /\ local \in [Writers -> LocalType]
  /\ handed \in SUBSET FrameType
  /\ accepted \in SUBSET Row
  /\ FlushedOnce
  /\ \A w \in Writers : WriterInv(w)

LEMMA NoFrames == <<>> \in Seq(FrameType)
OBVIOUS

LEMMA NoLocalsAreTyped == NoLocals \in LocalType
BY DEF NoLocals, LocalType, SnapshotType

(* A step of one writer moves no other, and of the locals of the others it *)
(* can only change whether their list is still the current one.            *)
LEMMA OthersStay ==
  ASSUME ThreadInv, NEW w \in Writers, NEW v \in Writers, v # w, WriterStep(w)
  PROVE  /\ pc'[v] = pc[v]
         /\ local'[v] = local[v] \/ local'[v] = [local[v] EXCEPT !.current = FALSE]
         /\ local'[v] = local[v] \/ At(w, "replace")
<1>1. pc \in [Writers -> Points] /\ local \in [Writers -> LocalType]
  BY DEF ThreadInv
<1>2. pc'[v] = pc[v]
  BY <1>1 DEF WriterStep, IngestGoesOn, IngestRaises, IngestReturns, StampRows,
              AppendFrame, CountRows, FlushConcats, FlushSkips, FlushExtends,
              FlushResets, Decide, CompactReads, CompactReplaces, PublishReadsRuns,
              PublishReadsMemtable, PublishAssigns, FlushRaises, CompactRaises, Goto
<1>3. CASE CompactReplaces(w)
  BY <1>2, <1>3 DEF CompactReplaces
<1>4. CASE ~CompactReplaces(w)
  BY <1>1, <1>2, <1>4
     DEF WriterStep, IngestGoesOn, IngestRaises, IngestReturns, StampRows,
         AppendFrame, CountRows, FlushConcats, FlushSkips, FlushExtends,
         FlushResets, Decide, CompactReads, PublishReadsRuns,
         PublishReadsMemtable, PublishAssigns, FlushRaises, CompactRaises, Keep
<1> QED BY <1>3, <1>4

LEMMA OthersKeep ==
  ASSUME ThreadInv, NEW w \in Writers, NEW v \in Writers, v # w, WriterStep(w),
         runs # <<>> => runs' # <<>>, handed \subseteq handed',
         At(w, "replace") => runs' # <<>>
  PROVE  WriterInv(v)'
<1>1. WriterInv(v) /\ local[v] \in LocalType
  BY DEF ThreadInv
<1>2. /\ pc'[v] = pc[v]
      /\ local'[v] = local[v] \/ local'[v] = [local[v] EXCEPT !.current = FALSE]
      /\ local'[v] = local[v] \/ At(w, "replace")
  BY OthersStay
<1>3. local'[v].frame = local[v].frame /\ local'[v].frames = local[v].frames
  BY <1>1, <1>2 DEF LocalType
<1>4. HasFrame(v)' /\ HasFrames(v)'
  BY <1>1, <1>2, <1>3 DEF WriterInv, HasFrame, HasFrames, At
<1>5. RunsExist(v)'
  BY <1>1, <1>2 DEF WriterInv, RunsExist, At
<1>6. HasHanded(v)'
  BY <1>1, <1>2 DEF WriterInv, HasHanded
<1> QED BY <1>4, <1>5, <1>6 DEF WriterInv

LEMMA Moves ==
  ASSUME NEW w \in Writers, NEW to \in Points, NEW locals \in LocalType,
         pc \in [Writers -> Points], local \in [Writers -> LocalType],
         Goto(w, to), Keep(w, locals)
  PROVE  /\ pc' \in [Writers -> Points] /\ pc'[w] = to
         /\ local' \in [Writers -> LocalType] /\ local'[w] = locals
         /\ handed' = handed
BY DEF Goto, Keep

LEMMA StaysPut ==
  ASSUME NEW w \in Writers, NEW to \in Points,
         pc \in [Writers -> Points], Goto(w, to)
  PROVE  /\ pc' \in [Writers -> Points] /\ pc'[w] = to
         /\ handed' = handed
BY DEF Goto

LEMMA CountIsNatural ==
  ASSUME ThreadInv, NEW w \in Writers, ~At(w, "idle")
  PROVE  Rows(w) \in Nat /\ local[w].frame \in FrameType
<1>1. local[w].frame \in FrameType /\ IsFiniteSet(local[w].frame.rows)
  BY DEF ThreadInv, WriterInv, HasFrame
<1>2. Cardinality(local[w].frame.rows) \in Nat
  BY <1>1, FS_CardinalityType
<1> QED BY <1>1, <1>2 DEF Rows

LEMMA ChosenRowsAreRows ==
  ASSUME NEW frames \in Seq(FrameType), NEW chosen \in RankOne(RowsOf(frames))
  PROVE  chosen \subseteq RowsOf(frames) /\ RowsOf(frames) \subseteq Row
<1>1. ASSUME NEW i \in DOMAIN frames PROVE frames[i].rows \subseteq Row
  <2>1. frames[i] \in FrameType
    OBVIOUS
  <2> QED BY <2>1 DEF FrameType
<1>2. RowsOf(frames) \subseteq Row
  BY <1>1 DEF RowsOf
<1> QED BY <1>2 DEF RankOne, Winners

(* The steps before the memtable is flushed.                               *)
LEMMA StampKeeps ==
  ASSUME ThreadInv, NEW w \in Writers, NEW batch \in Batches, StampRows(w, batch)
  PROVE  ThreadInv'
<1> DEFINE frame == Stamp(batch, seqno)
           locals == [NoLocals EXCEPT !.frame = frame]
<1>1. TypeOK /\ pc \in [Writers -> Points] /\ local \in [Writers -> LocalType] /\ seqno \in Nat
  BY DEF ThreadInv, TypeOK
<1>2. frame \in FrameType /\ IsFiniteSet(frame.rows)
  BY <1>1, StampedRows, StampIsFinite
<1>3. locals \in LocalType /\ locals.frame = frame
  BY <1>2, NoLocalsAreTyped DEF LocalType, NoLocals
<1> HIDE DEF frame, locals
<1>4. Keep(w, locals) /\ Goto(w, "append")
      /\ UNCHANGED <<private, snapshot, accepted, readers>>
  BY DEF StampRows, Goto, locals, frame
<1>5. /\ pc' \in [Writers -> Points] /\ pc'[w] = "append"
      /\ local' \in [Writers -> LocalType] /\ local'[w] = locals
      /\ handed' = handed
  BY <1>1, <1>3, <1>4, Moves DEF Points
<1>6. TypeOK' /\ FlushedOnce'
  BY <1>4, <1>5 DEF ThreadInv, TypeOK, FlushedOnce, private, readers
<1>7. WriterInv(w)'
  BY <1>2, <1>3, <1>5 DEF WriterInv, HasFrame, HasFrames, RunsExist, HasHanded, At
<1>8. \A v \in Writers : v # w => WriterInv(v)'
  BY <1>4, <1>5, OthersKeep DEF WriterStep, private, StampRows, At
<1> QED BY <1>4, <1>5, <1>6, <1>7, <1>8 DEF ThreadInv

LEMMA AppendKeeps ==
  ASSUME ThreadInv, NEW w \in Writers, AppendFrame(w)
  PROVE  ThreadInv'
<1>1. /\ TypeOK /\ pc \in [Writers -> Points] /\ local \in [Writers -> LocalType]
      /\ WriterInv(w)
  BY DEF ThreadInv
<1>2. ~At(w, "idle") /\ Rows(w) \in Nat /\ local[w].frame \in FrameType
  BY CountIsNatural DEF AppendFrame, At
<1>3. /\ pc' \in [Writers -> Points] /\ pc'[w] = "count"
      /\ local' = local /\ local[w].frame \in handed'
  BY <1>1 DEF AppendFrame, Points
<1>4. memtable' \in Seq(FrameType) /\ memtable' # <<>> /\ seqno' \in Nat
  BY <1>1, <1>2, AppendIsSequence DEF AppendFrame, TypeOK
<1>5. TypeOK' /\ FlushedOnce'
  BY <1>1, <1>4 DEF AppendFrame, TypeOK, FlushedOnce, readers
<1>6. handed' \in SUBSET FrameType /\ handed \subseteq handed'
  BY <1>2 DEF AppendFrame, ThreadInv
<1>7. WriterInv(w)'
  BY <1>1, <1>2, <1>3 DEF WriterInv, HasFrame, HasFrames, RunsExist, HasHanded, At
<1>8. UNCHANGED <<runs, accepted>>
  BY DEF AppendFrame
<1>9. \A v \in Writers : v # w => WriterInv(v)'
  BY <1>6, <1>8, OthersKeep DEF WriterStep, IngestGoesOn, AppendFrame, At
<1> QED BY <1>1, <1>3, <1>5, <1>6, <1>7, <1>8, <1>9 DEF ThreadInv

LEMMA CountKeeps ==
  ASSUME ThreadInv, NEW w \in Writers, CountRows(w)
  PROVE  ThreadInv'
<1>1. /\ TypeOK /\ pc \in [Writers -> Points] /\ local \in [Writers -> LocalType]
      /\ WriterInv(w)
  BY DEF ThreadInv
<1>2. At(w, "count") /\ Rows(w) \in Nat
  BY CountIsNatural DEF CountRows, At
<1>3. PICK to \in {"flush", "publish"} : Goto(w, to)
  BY DEF CountRows
<1>4. /\ pc' \in [Writers -> Points] /\ pc'[w] \in {"flush", "publish"}
      /\ handed' = handed
  BY <1>1, <1>3, StaysPut DEF Points
<1>5. UNCHANGED <<seqno, memtable, runs, snapshot, local, accepted, readers>>
  BY <1>3 DEF CountRows, Goto
<1>6. TypeOK' /\ FlushedOnce'
  BY <1>1, <1>2, <1>4, <1>5 DEF CountRows, ThreadInv, TypeOK, FlushedOnce, readers
<1>7. WriterInv(w)'
  BY <1>1, <1>2, <1>4, <1>5 DEF WriterInv, HasFrame, HasFrames, RunsExist, HasHanded, At
<1>8. \A v \in Writers : v # w => WriterInv(v)'
  BY <1>2, <1>4, <1>5, OthersKeep DEF WriterStep, IngestGoesOn, At
<1> QED BY <1>1, <1>4, <1>5, <1>6, <1>7, <1>8 DEF ThreadInv

(* A flush.                                                                *)
LEMMA FlushKeeps ==
  ASSUME ThreadInv, NEW w \in Writers,
         FlushConcats(w) \/ FlushSkips(w) \/ FlushExtends(w) \/ FlushResets(w)
  PROVE  ThreadInv'
<1>1. /\ TypeOK /\ pc \in [Writers -> Points] /\ local \in [Writers -> LocalType]
      /\ WriterInv(w) /\ memtable \in Seq(FrameType) /\ runs \in Seq(FrameType)
      /\ local[w] \in LocalType
  BY DEF ThreadInv, TypeOK
<1>2. WriterStep(w) /\ pc[w] \in {"flush", "extend", "reset"}
  BY DEF WriterStep, IngestGoesOn, FlushConcats, FlushSkips, FlushExtends, FlushResets, At
<1>3. ASSUME pc' \in [Writers -> Points], local' \in [Writers -> LocalType],
             UNCHANGED <<accepted, handed>>, TypeOK', FlushedOnce', WriterInv(w)',
             runs # <<>> => runs' # <<>>
      PROVE  ThreadInv'
  <2>1. \A v \in Writers : v # w => WriterInv(v)'
    BY <1>2, <1>3, OthersKeep DEF At
  <2> QED BY <1>3, <2>1 DEF ThreadInv
<1>4. CASE FlushConcats(w)
  <2> DEFINE locals == [local[w] EXCEPT !.frames = memtable, !.current = TRUE]
  <2>1. /\ locals \in LocalType /\ locals.frame = local[w].frame
        /\ locals.frames = memtable /\ locals.current
    BY <1>1 DEF LocalType
  <2> HIDE DEF locals
  <2>2. Keep(w, locals) /\ Goto(w, "extend")
        /\ UNCHANGED <<private, snapshot, accepted, readers>>
    BY <1>4 DEF FlushConcats, Goto, locals
  <2>3. /\ pc' \in [Writers -> Points] /\ pc'[w] = "extend"
        /\ local' \in [Writers -> LocalType] /\ local'[w] = locals
        /\ handed' = handed
    BY <1>1, <2>1, <2>2, Moves DEF Points
  <2>4. TypeOK' /\ FlushedOnce'
    BY <2>2, <2>3 DEF ThreadInv, TypeOK, FlushedOnce, private, readers
  <2>5. WriterInv(w)'
    BY <1>1, <1>4, <2>1, <2>3
       DEF WriterInv, HasFrame, HasFrames, RunsExist, HasHanded, At, FlushConcats
  <2> QED BY <1>3, <2>2, <2>3, <2>4, <2>5 DEF private
<1>5. CASE FlushSkips(w)
  <2>1. Goto(w, "decide") /\ UNCHANGED <<private, snapshot, local, accepted, readers>>
    BY <1>5 DEF FlushSkips, Goto
  <2>2. pc' \in [Writers -> Points] /\ pc'[w] = "decide" /\ handed' = handed
    BY <1>1, <2>1, StaysPut DEF Points
  <2>3. TypeOK' /\ FlushedOnce'
    BY <2>1, <2>2 DEF ThreadInv, TypeOK, FlushedOnce, private, readers
  <2>4. runs # <<>>
    BY <1>1, <1>5 DEF FlushSkips, ThreadInv, FlushedOnce, WriterInv, HasHanded, At
  <2>5. WriterInv(w)'
    BY <1>1, <1>5, <2>1, <2>2, <2>4
       DEF WriterInv, HasFrame, HasFrames, RunsExist, HasHanded, At, FlushSkips, private
  <2> QED BY <1>1, <1>3, <2>1, <2>2, <2>3, <2>5 DEF private
<1>6. CASE FlushExtends(w)
  <2> DEFINE locals == [local[w] EXCEPT !.frames = <<>>, !.current = FALSE]
  <2>1. locals \in LocalType /\ locals.frame = local[w].frame
    BY <1>1, NoFrames DEF LocalType
  <2> HIDE DEF locals
  <2>2. /\ Keep(w, locals) /\ Goto(w, "reset")
        /\ UNCHANGED <<seqno, memtable, memtable_rows, snapshot, accepted, readers>>
    BY <1>6 DEF FlushExtends, Goto, locals
  <2>3. /\ pc' \in [Writers -> Points] /\ pc'[w] = "reset"
        /\ local' \in [Writers -> LocalType] /\ local'[w] = locals
        /\ handed' = handed
    BY <1>1, <2>1, <2>2, Moves DEF Points
  <2>4. local[w].frames \in Seq(FrameType) /\ local[w].frames # <<>> /\ At(w, "extend")
    BY <1>1, <1>6 DEF LocalType, WriterInv, HasFrames, FlushExtends, At
  <2>5. runs' \in Seq(FrameType) /\ runs' # <<>>
    <3>1. CASE local[w].current
      BY <1>1, <1>6, <2>4, <3>1, FramesStayFrames, AppendIsSequence DEF FlushExtends
    <3>2. CASE ~local[w].current
      BY <1>1, <1>6, <2>4, <3>2 DEF FlushExtends, WriterInv, RunsExist
    <3> QED BY <3>1, <3>2
  <2>6. TypeOK' /\ FlushedOnce'
    BY <1>1, <2>2, <2>3, <2>5 DEF TypeOK, FlushedOnce, readers
  <2>7. WriterInv(w)'
    BY <1>1, <2>1, <2>3, <2>4, <2>5
       DEF WriterInv, HasFrame, HasFrames, RunsExist, HasHanded, At
  <2> QED BY <1>3, <2>2, <2>3, <2>5, <2>6, <2>7
<1>7. CASE FlushResets(w)
  <2>1. Goto(w, "decide") /\ UNCHANGED <<seqno, runs, snapshot, local, accepted, readers>>
    BY <1>7 DEF FlushResets, Goto
  <2>2. pc' \in [Writers -> Points] /\ pc'[w] = "decide" /\ handed' = handed
    BY <1>1, <2>1, StaysPut DEF Points
  <2>3. runs # <<>>
    BY <1>1, <1>7 DEF WriterInv, RunsExist, FlushResets, At
  <2>4. TypeOK' /\ FlushedOnce'
    BY <1>1, <1>7, <2>1, <2>2, <2>3 DEF FlushResets, TypeOK, FlushedOnce, readers
  <2>5. WriterInv(w)'
    BY <1>1, <1>7, <2>1, <2>2, <2>3
       DEF WriterInv, HasFrame, HasFrames, RunsExist, HasHanded, At, FlushResets
  <2> QED BY <1>1, <1>3, <2>1, <2>2, <2>4, <2>5
<1> QED BY <1>4, <1>5, <1>6, <1>7

(* A compaction, with the decision for one.                                *)
LEMMA CompactKeeps ==
  ASSUME ThreadInv, NEW w \in Writers,
         Decide(w) \/ CompactReads(w) \/ CompactReplaces(w)
  PROVE  ThreadInv'
<1>1. /\ TypeOK /\ pc \in [Writers -> Points] /\ local \in [Writers -> LocalType]
      /\ WriterInv(w) /\ runs \in Seq(FrameType) /\ local[w] \in LocalType
  BY DEF ThreadInv, TypeOK
<1>2. WriterStep(w)
  BY DEF WriterStep, IngestGoesOn
<1>3. ASSUME pc' \in [Writers -> Points], local' \in [Writers -> LocalType],
             UNCHANGED <<accepted, handed>>, TypeOK', FlushedOnce', WriterInv(w)',
             runs # <<>> => runs' # <<>>, At(w, "replace") => runs' # <<>>
      PROVE  ThreadInv'
  <2>1. \A v \in Writers : v # w => WriterInv(v)'
    BY <1>2, <1>3, OthersKeep
  <2> QED BY <1>3, <2>1 DEF ThreadInv
<1>4. CASE Decide(w)
  <2>1. PICK to \in {"compact", "publish"} : Goto(w, to)
    BY <1>4 DEF Decide
  <2>2. UNCHANGED <<private, snapshot, local, accepted, readers>>
    BY <1>4, <2>1 DEF Decide, Goto
  <2>3. pc' \in [Writers -> Points] /\ pc'[w] \in {"compact", "publish"} /\ handed' = handed
    BY <1>1, <2>1, StaysPut DEF Points
  <2>4. TypeOK' /\ FlushedOnce'
    BY <2>2, <2>3 DEF ThreadInv, TypeOK, FlushedOnce, private, readers
  <2>5. runs # <<>> /\ At(w, "decide")
    BY <1>1, <1>4 DEF WriterInv, RunsExist, Decide, At
  <2>6. WriterInv(w)'
    BY <1>1, <2>2, <2>3, <2>5
       DEF WriterInv, HasFrame, HasFrames, RunsExist, HasHanded, At, private
  <2> QED BY <1>1, <1>3, <2>2, <2>3, <2>4, <2>5, <2>6 DEF private
<1>5. CASE CompactReads(w)
  <2> DEFINE locals == [local[w] EXCEPT !.frames = runs]
  <2>1. locals \in LocalType /\ locals.frame = local[w].frame /\ locals.frames = runs
    BY <1>1 DEF LocalType
  <2> HIDE DEF locals
  <2>2. Keep(w, locals) /\ Goto(w, "replace")
        /\ UNCHANGED <<private, snapshot, accepted, readers>>
    BY <1>5 DEF CompactReads, Goto, locals
  <2>3. /\ pc' \in [Writers -> Points] /\ pc'[w] = "replace"
        /\ local' \in [Writers -> LocalType] /\ local'[w] = locals
        /\ handed' = handed
    BY <1>1, <2>1, <2>2, Moves DEF Points
  <2>4. TypeOK' /\ FlushedOnce'
    BY <2>2, <2>3 DEF ThreadInv, TypeOK, FlushedOnce, private, readers
  <2>5. runs # <<>> /\ At(w, "compact")
    BY <1>1, <1>5 DEF WriterInv, RunsExist, CompactReads, At
  <2>6. WriterInv(w)'
    BY <1>1, <2>1, <2>3, <2>5
       DEF WriterInv, HasFrame, HasFrames, RunsExist, HasHanded, At
  <2> QED BY <1>3, <2>2, <2>3, <2>4, <2>5, <2>6 DEF private, At
<1>6. CASE CompactReplaces(w)
  <2>1. /\ Goto(w, "publish") /\ At(w, "replace")
        /\ UNCHANGED <<seqno, memtable, memtable_rows, snapshot, accepted, readers>>
    BY <1>6 DEF CompactReplaces, Goto
  <2>2. pc' \in [Writers -> Points] /\ pc'[w] = "publish" /\ handed' = handed
    BY <1>1, <2>1, StaysPut DEF Points
  <2>3. /\ local' \in [Writers -> LocalType]
        /\ local'[w] = [local[w] EXCEPT !.frames = <<>>]
    <3>1. ASSUME NEW v \in Writers
          PROVE  /\ [local[v] EXCEPT !.current = FALSE] \in LocalType
                 /\ [local[v] EXCEPT !.frames = <<>>] \in LocalType
      <4>1. local[v] \in LocalType
        BY <1>1
      <4> QED BY <4>1, NoFrames DEF LocalType
    <3> QED BY <1>6, <3>1 DEF CompactReplaces
  <2>4. local'[w].frame = local[w].frame
    BY <1>1, <2>3 DEF LocalType
  <2>5. runs' \in Seq(FrameType) /\ runs' # <<>>
    <3>1. local[w].frames \in Seq(FrameType) /\ local[w].frames # <<>>
      BY <1>1, <2>1 DEF LocalType, WriterInv, HasFrames, At
    <3>2. PICK chosen \in RankOne(RowsOf(local[w].frames)) :
            runs' = <<[schema |-> local[w].frames[1].schema, rows |-> chosen]>>
      BY <1>6 DEF CompactReplaces
    <3>3. chosen \subseteq Row
      BY <3>1, ChosenRowsAreRows
    <3>4. local[w].frames[1] \in FrameType
      BY <3>1
    <3>5. [schema |-> local[w].frames[1].schema, rows |-> chosen] \in FrameType
      BY <3>3, <3>4 DEF FrameType
    <3> QED BY <3>2, <3>5
  <2>6. TypeOK' /\ FlushedOnce'
    BY <1>1, <2>1, <2>5 DEF TypeOK, FlushedOnce, readers
  <2>7. WriterInv(w)'
    BY <1>1, <2>1, <2>2, <2>4
       DEF WriterInv, HasFrame, HasFrames, RunsExist, HasHanded, At
  <2> QED BY <1>3, <2>1, <2>2, <2>3, <2>5, <2>6, <2>7
<1> QED BY <1>4, <1>5, <1>6

(* The publication, and an ingest that raises.                             *)
LEMMA PublishKeeps ==
  ASSUME ThreadInv, NEW w \in Writers,
         \/ PublishReadsRuns(w) \/ PublishReadsMemtable(w) \/ PublishAssigns(w)
         \/ IngestRaises(w)
  PROVE  ThreadInv'
<1>1. /\ TypeOK /\ pc \in [Writers -> Points] /\ local \in [Writers -> LocalType]
      /\ WriterInv(w) /\ local[w] \in LocalType /\ snapshot \in SnapshotType
      /\ runs \in Seq(FrameType) /\ memtable \in Seq(FrameType)
  BY DEF ThreadInv, TypeOK
<1>2. /\ WriterStep(w) /\ UNCHANGED <<private, readers>>
      /\ pc[w] \in {"publish", "publish_memtable", "assign", "flush", "compact"}
  BY DEF WriterStep, IngestGoesOn, IngestReturns, IngestRaises, FlushRaises, CompactRaises,
         PublishReadsRuns, PublishReadsMemtable, PublishAssigns, At, Goto
<1>3. ASSUME NEW to \in Points, NEW locals \in LocalType,
             Goto(w, to), Keep(w, locals), snapshot' \in SnapshotType,
             accepted' \in SUBSET Row,
             \/ to = "idle"
             \/ /\ to \in {"publish_memtable", "assign"}
                /\ locals.frame = local[w].frame
      PROVE  ThreadInv'
  <2>1. /\ pc' \in [Writers -> Points] /\ pc'[w] = to
        /\ local' \in [Writers -> LocalType] /\ local'[w] = locals
        /\ handed' = handed
    BY <1>1, <1>3, Moves
  <2>2. TypeOK' /\ FlushedOnce'
    BY <1>1, <1>2, <1>3, <2>1 DEF ThreadInv, TypeOK, FlushedOnce, private, readers
  <2>3. WriterInv(w)'
    BY <1>1, <1>2, <1>3, <2>1
       DEF WriterInv, HasFrame, HasFrames, RunsExist, HasHanded, At
  <2>4. \A v \in Writers : v # w => WriterInv(v)'
    BY <1>2, <2>1, OthersKeep DEF private, At
  <2> QED BY <1>3, <2>1, <2>2, <2>3, <2>4 DEF ThreadInv
<1>4. accepted \in SUBSET Row
  BY DEF ThreadInv
<1>5. CASE PublishReadsRuns(w)
  <2> DEFINE locals == [local[w] EXCEPT !.seen.runs = runs]
  <2>1. locals \in LocalType /\ locals.frame = local[w].frame
    BY <1>1 DEF LocalType, SnapshotType
  <2> QED BY <1>1, <1>3, <1>4, <1>5, <2>1 DEF PublishReadsRuns, Points
<1>6. CASE PublishReadsMemtable(w)
  <2> DEFINE locals == [local[w] EXCEPT !.seen.memtable = memtable]
  <2>1. locals \in LocalType /\ locals.frame = local[w].frame
    BY <1>1 DEF LocalType, SnapshotType
  <2> QED BY <1>1, <1>3, <1>4, <1>6, <2>1 DEF PublishReadsMemtable, Points
<1>7. CASE PublishAssigns(w)
  <2>1. local[w].seen \in SnapshotType
    BY <1>1 DEF LocalType
  <2>2. local[w].frame.rows \subseteq Row
    BY <1>1, <1>7 DEF WriterInv, HasFrame, PublishAssigns, At, FrameType
  <2> QED BY <1>3, <1>4, <1>7, <2>1, <2>2, NoLocalsAreTyped DEF PublishAssigns, Points
<1>8. CASE IngestRaises(w)
  BY <1>1, <1>3, <1>4, <1>8, NoLocalsAreTyped
     DEF IngestRaises, FlushRaises, CompactRaises, Points
<1> QED BY <1>5, <1>6, <1>7, <1>8

LEMMA WriterKeeps ==
  ASSUME ThreadInv, NEW w \in Writers, WriterStep(w)
  PROVE  ThreadInv'
BY StampKeeps, AppendKeeps, CountKeeps, FlushKeeps, CompactKeeps, PublishKeeps
   DEF WriterStep, IngestGoesOn, IngestReturns

(* A query changes nothing but the reader's own variables.                 *)
LEMMA ReaderKeeps ==
  ASSUME ThreadInv, NEW r \in Readers, ReaderStep(r)
  PROVE  ThreadInv' /\ UNCHANGED <<store, pc, local, history>>
<1>1. UNCHANGED <<store, pc, local, history>>
  BY DEF ReaderStep, ThreadQueryReads, ThreadQueryMerges, QueryReads
<1>2. held' \in [Readers -> SnapshotType \cup {Idle}] /\ DOMAIN reply' = Readers
  BY DEF ReaderStep, ThreadQueryReads, ThreadQueryMerges, QueryReads, ThreadInv, TypeOK
<1>3. TypeOK'
  BY <1>1, <1>2 DEF ThreadInv, TypeOK, store
<1>4. \A w \in Writers : WriterInv(w)'
  BY <1>1 DEF ThreadInv, WriterInv, HasFrame, HasFrames, RunsExist, HasHanded, At,
              store, history
<1> QED BY <1>1, <1>3, <1>4 DEF ThreadInv, FlushedOnce, store, history

LEMMA InitThreads == ThreadInit => ThreadInv
<1> SUFFICES ASSUME ThreadInit PROVE ThreadInv
  OBVIOUS
<1>1. TypeOK
  BY InitTypeOK DEF ThreadInit
<1>2. pc \in [Writers -> Points] /\ local \in [Writers -> LocalType]
  BY NoLocalsAreTyped DEF ThreadInit, Points
<1>3. \A w \in Writers : WriterInv(w)
  BY DEF ThreadInit, WriterInv, HasFrame, HasFrames, RunsExist, HasHanded, At
<1> QED BY <1>1, <1>2, <1>3 DEF ThreadInit, ThreadInv, FlushedOnce
-----------------------------------------------------------------------------
(* The requests.  A client outside a request is outside of ingest(), and   *)
(* inside of ingest() it is at a batch it could read.                      *)

RequestType == [body : Bodies \cup {<<>>}, readable : Nat, next : Nat \ {0},
                status : {"none", "open", "202", "400", "500"}, earlier : SUBSET Row]
Reading(c) ==
  /\ request[c].readable <= Len(request[c].body)
  /\ request[c].next <= request[c].readable + 1
  /\ ~At(c, "idle") => Open(c) /\ request[c].next <= request[c].readable
RequestInv ==
  /\ request \in [Clients -> RequestType]
  /\ before \in [Clients -> [Keys -> Vals \cup {Absent}]]
  /\ \A c \in Clients : Reading(c)
HttpInv == ThreadInv /\ RequestInv

Sent(body, readable) ==
  [NoRequest EXCEPT !.body = body, !.readable = readable, !.status = "open"]
GoneOn(q, next, earlier) == [q EXCEPT !.next = next, !.earlier = earlier]

LEMMA RequestIsSent ==
  ASSUME NEW body \in Bodies \cup {<<>>}, NEW readable \in Nat
  PROVE  LET sent == Sent(body, readable)
         IN  /\ sent \in RequestType /\ sent.body = body /\ sent.readable = readable
             /\ sent.next = 1 /\ sent.status = "open" /\ sent.earlier = {}
<1>1. NoRequest \in RequestType /\ NoRequest.next = 1 /\ NoRequest.earlier = {}
  BY DEF NoRequest, RequestType
<1> QED BY <1>1 DEF RequestType, Sent

LEMMA RequestGoesOn ==
  ASSUME NEW q \in RequestType, NEW rows \in SUBSET Row, NEW n \in Nat \ {0}
  PROVE  LET went == GoneOn(q, n, rows)
         IN  /\ went \in RequestType /\ went.next = n /\ went.earlier = rows
             /\ went.body = q.body /\ went.readable = q.readable
             /\ went.status = q.status
BY DEF RequestType, GoneOn

LEMMA BodiesAreSequences ==
  ASSUME NEW body \in Bodies \cup {<<>>}
  PROVE  Len(body) \in Nat /\ \A i \in 1..Len(body) : body[i] \in Batches
BY BodiesAreStreams

LEMMA AnyTableIsTable ==
  ASSUME NEW rows \in SUBSET Row
  PROVE  Table(rows) \in [Keys -> Vals \cup {Absent}]
<1>1. ASSUME NEW k \in Keys, \E r \in Winners(rows) : r.id = k /\ r.op # "delete"
      PROVE  (CHOOSE r \in Winners(rows) : r.id = k /\ r.op # "delete").val \in Vals
  <2>1. PICK r \in Winners(rows) :
               r = CHOOSE q \in Winners(rows) : q.id = k /\ q.op # "delete"
    BY <1>1
  <2>2. r \in Row
    BY DEF Winners
  <2> QED BY <2>1, <2>2 DEF Row
<1> QED BY <1>1 DEF Table

(* Every step is one of a writer, of a reader, or of a client by itself.   *)
LEMMA Steps ==
  ASSUME HttpInv, [HttpNext]_httpVars
  PROVE  \/ \E w \in Writers : WriterStep(w)
         \/ \E r \in Readers : ReaderStep(r)
         \/ UNCHANGED threadVars
<1>1. ASSUME NEW c \in Clients, Dispatch(c) PROVE WriterStep(c)
  <2> DEFINE q == request[c]
  <2>1. q \in RequestType /\ Reading(c)
    BY DEF HttpInv, RequestInv
  <2>2. q.body[q.next] \in Batches
    BY <1>1, <2>1, BodiesAreSequences DEF Dispatch, RequestType, Reading
  <2> QED BY <1>1, <2>2 DEF Dispatch, WriterStep
<1>2. ASSUME NEW c \in Clients, BatchGoesOn(c) \/ BatchIsIn(c) \/ BatchRaises(c)
      PROVE  WriterStep(c)
  BY <1>2 DEF BatchGoesOn, BatchIsIn, BatchRaises, WriterStep
<1>3. ASSUME NEW c \in Clients,
             (\E body \in Bodies : Post(c, body)) \/ Retry(c) \/ BodyBreaks(c) \/ Answers(c)
      PROVE  UNCHANGED threadVars
  BY <1>3 DEF Post, Retry, Sends, BodyBreaks, Answers
<1>4. ASSUME NEW c \in Clients, ClientStep(c)
      PROVE  UNCHANGED threadVars \/ (c \in Writers /\ WriterStep(c))
  BY <1>1, <1>2, <1>3, <1>4, ClientsAreWriters DEF ClientStep
<1>5. ASSUME NEW w \in Writers \ Clients, LoopStep(w) PROVE WriterStep(w)
  BY <1>5 DEF LoopStep, WriterStep
<1> QED BY <1>4, <1>5 DEF HttpNext, httpVars

(* The writer that steps, and where it comes from.                         *)
LEMMA WhereItWas ==
  ASSUME ThreadInv, NEW w \in Writers
  PROVE  /\ IngestGoesOn(w) \/ IngestRaises(w) \/ IngestReturns(w) => ~At(w, "idle")
         /\ IngestRaises(w) \/ IngestReturns(w) => pc'[w] = "idle"
         /\ \A batch : StampRows(w, batch) => At(w, "idle") /\ pc'[w] = "append"
<1>1. pc \in [Writers -> Points]
  BY DEF ThreadInv
<1> QED
  BY <1>1 DEF IngestGoesOn, IngestRaises, IngestReturns, StampRows,
              AppendFrame, CountRows, FlushConcats, FlushSkips, FlushExtends,
              FlushResets, Decide, CompactReads, CompactReplaces, PublishReadsRuns,
              PublishReadsMemtable, PublishAssigns, FlushRaises, CompactRaises, At, Goto

LEMMA ReadingStays ==
  ASSUME NEW c \in Clients, Reading(c), request'[c] = request[c], pc'[c] = pc[c]
  PROVE  Reading(c)'
BY DEF Reading, Open, At

LEMMA NextRequests ==
  ASSUME HttpInv, [HttpNext]_httpVars
  PROVE  RequestInv'
<1>1. /\ request \in [Clients -> RequestType]
      /\ before \in [Clients -> [Keys -> Vals \cup {Absent}]]
      /\ \A c \in Clients : Reading(c) /\ c \in Writers
      /\ ThreadInv /\ pc \in [Writers -> Points]
  BY ClientsAreWriters DEF HttpInv, RequestInv, ThreadInv
(* The requests of the other clients stay as they are.                     *)
<1>2. ASSUME NEW c \in Clients, NEW q \in RequestType,
             request' = [request EXCEPT ![c] = q],
             before' = before \/ before' = [before EXCEPT ![c] = Table(Stored)],
             WriterStep(c) \/ UNCHANGED pc,
             q.readable <= Len(q.body), q.next <= q.readable + 1,
             pc'[c] # "idle" => q.status = "open" /\ q.next <= q.readable
      PROVE  RequestInv'
  <2>1. Stored \in SUBSET Row
    BY <1>1, EverywhereAreRows DEF ThreadInv, Everywhere
  <2>2. request' \in [Clients -> RequestType]
        /\ before' \in [Clients -> [Keys -> Vals \cup {Absent}]]
    BY <1>1, <1>2, <2>1, AnyTableIsTable
  <2>3. ASSUME NEW d \in Clients, d # c PROVE Reading(d)'
    <3>1. pc'[d] = pc[d]
      BY <1>1, <1>2, <2>3, OthersStay
    <3> QED BY <1>1, <1>2, <2>3, <3>1, ReadingStays
  <2>4. Reading(c)'
    BY <1>1, <1>2 DEF Reading, Open, At
  <2> QED BY <2>2, <2>3, <2>4 DEF RequestInv
<1>3. ASSUME NEW c \in Clients, ClientStep(c) PROVE RequestInv'
  <2> DEFINE q == request[c]
  <2>1. /\ q \in RequestType /\ Reading(c) /\ c \in Writers
        /\ q.next \in Nat \ {0} /\ q.readable \in Nat /\ request = [request EXCEPT ![c] = q]
    BY <1>1 DEF RequestType
  <2>2. ASSUME NEW body \in Bodies \cup {<<>>}, Sends(c, body), ~Open(c),
               before' = before \/ before' = [before EXCEPT ![c] = Table(Stored)]
        PROVE  RequestInv'
    <3>1. PICK readable \in 0..Len(body) :
            request' = [request EXCEPT ![c] =
              [NoRequest EXCEPT !.body = body, !.readable = readable, !.status = "open"]]
      BY <2>2 DEF Sends
    <3> DEFINE sent == Sent(body, readable)
    <3>2. readable \in Nat /\ readable <= Len(body)
      BY BodiesAreSequences
    <3>3. /\ sent \in RequestType /\ sent.body = body /\ sent.readable = readable
          /\ sent.next = 1 /\ sent.status = "open"
      BY <3>2, RequestIsSent
    <3>4. request' = [request EXCEPT ![c] = sent]
      BY <3>1 DEF Sent
    <3>5. UNCHANGED pc /\ pc[c] = "idle"
      BY <2>1, <2>2 DEF Sends, threadVars, Reading, At
    <3>6. /\ sent.readable <= Len(sent.body)
          /\ sent.next <= sent.readable + 1
      BY <3>2, <3>3
    <3> HIDE DEF sent
    <3> QED BY <1>2, <2>2, <3>3, <3>4, <3>5, <3>6
  <2>3. CASE \E body \in Bodies : Post(c, body)
    BY <2>2, <2>3 DEF Post
  <2>4. CASE Retry(c)
    <3>1. q.body \in Bodies \cup {<<>>} /\ ~Open(c)
      BY <2>1, <2>4 DEF RequestType, Retry, Open
    <3> QED BY <2>2, <2>4, <3>1 DEF Retry
  <2>5. CASE Dispatch(c) \/ BatchGoesOn(c)
    <3>1. request' = [request EXCEPT ![c] = q] /\ before' = before
      BY <2>1, <2>5 DEF Dispatch, BatchGoesOn
    <3>2. q.status = "open" /\ q.next <= q.readable
      BY <1>1, <2>1, <2>5, WhereItWas DEF Dispatch, BatchGoesOn, Reading, Open
    <3>3. WriterStep(c)
      <4>1. CASE Dispatch(c)
        <5>1. q.body[q.next] \in Batches
          BY <2>1, <3>2, BodiesAreSequences DEF RequestType, Reading
        <5> QED BY <4>1, <5>1 DEF Dispatch, WriterStep
      <4>2. CASE BatchGoesOn(c)
        BY <4>2 DEF BatchGoesOn, WriterStep
      <4> QED BY <2>5, <4>1, <4>2
    <3> QED BY <1>2, <2>1, <3>1, <3>2, <3>3 DEF Reading
  <2>6. CASE BatchIsIn(c)
    <3> DEFINE went == GoneOn(q, q.next + 1, q.earlier \cup local[c].frame.rows)
    <3>1. request' = [request EXCEPT ![c] = went] /\ before' = before
      BY <2>6 DEF BatchIsIn, GoneOn
    <3>2. pc'[c] = "idle" /\ ~At(c, "idle") /\ WriterStep(c)
      BY <1>1, <2>1, <2>6, WhereItWas DEF BatchIsIn, WriterStep
    <3>3. q.next <= q.readable /\ q.readable <= Len(q.body)
      BY <2>1, <3>2 DEF Reading
    <3>4. local[c].frame.rows \in SUBSET Row
      BY <2>1, <3>2 DEF HttpInv, ThreadInv, WriterInv, HasFrame, FrameType
    <3>5. /\ went \in RequestType /\ went.next = q.next + 1
          /\ went.readable = q.readable /\ went.body = q.body
      <4>1. q.earlier \cup local[c].frame.rows \in SUBSET Row /\ q.next + 1 \in Nat \ {0}
        BY <2>1, <3>4 DEF RequestType
      <4> QED BY <2>1, <4>1, RequestGoesOn
    <3>6. went.readable <= Len(went.body) /\ went.next <= went.readable + 1
      BY <2>1, <3>3, <3>5
    <3> HIDE DEF went
    <3> QED BY <1>2, <3>1, <3>2, <3>5, <3>6
  <2>7. ASSUME NEW status \in {"202", "400", "500"}, Ended(c, status), before' = before,
               WriterStep(c) \/ UNCHANGED pc, pc'[c] = "idle"
        PROVE  RequestInv'
    <3> DEFINE ended == [q EXCEPT !.status = status]
    <3>1. request' = [request EXCEPT ![c] = ended]
      BY <2>7 DEF Ended
    <3>2. /\ ended \in RequestType /\ ended.next = q.next
          /\ ended.readable = q.readable /\ ended.body = q.body
      BY <2>1 DEF RequestType
    <3> QED BY <1>2, <2>1, <2>7, <3>1, <3>2 DEF Reading
  <2>8. CASE BatchRaises(c)
    BY <1>1, <2>1, <2>7, <2>8, WhereItWas DEF BatchRaises, WriterStep
  <2>9. CASE BodyBreaks(c) \/ Answers(c)
    BY <2>7, <2>9 DEF BodyBreaks, Answers, threadVars, At
  <2> QED BY <1>3, <2>3, <2>4, <2>5, <2>6, <2>8, <2>9 DEF ClientStep
<1>4. ASSUME UNCHANGED <<request, before>>, \A c \in Clients : pc'[c] = pc[c]
      PROVE  RequestInv'
  BY <1>1, <1>4, ReadingStays DEF RequestInv
<1>5. ASSUME NEW w \in Writers \ Clients, LoopStep(w) PROVE RequestInv'
  <2>1. WriterStep(w) /\ UNCHANGED <<request, before>>
    BY <1>5 DEF LoopStep, WriterStep
  <2>2. \A c \in Clients : pc'[c] = pc[c]
    BY <1>1, <2>1, OthersStay
  <2> QED BY <1>4, <2>1, <2>2
<1>6. ASSUME NEW r \in Readers, ReaderStep(r), UNCHANGED <<request, before>>
      PROVE  RequestInv'
  BY <1>1, <1>4, <1>6, ReaderKeeps
<1>7. CASE UNCHANGED httpVars
  BY <1>4, <1>7 DEF httpVars, threadVars
<1> QED BY <1>3, <1>5, <1>6, <1>7 DEF HttpNext

LEMMA InitHttp == HttpInit => HttpInv
<1> SUFFICES ASSUME HttpInit PROVE HttpInv
  OBVIOUS
<1>1. ThreadInv /\ \A c \in Clients : c \in Writers /\ pc[c] = "idle"
  BY InitThreads, ClientsAreWriters DEF HttpInit, ThreadInit
<1>2. Table({}) \in [Keys -> Vals \cup {Absent}]
  BY AnyTableIsTable
<1>3. NoRequest \in RequestType /\ Len(NoRequest.body) = 0
      /\ NoRequest.readable = 0 /\ NoRequest.next = 1
  BY DEF NoRequest, RequestType
<1> QED BY <1>1, <1>2, <1>3 DEF HttpInit, HttpInv, RequestInv, Reading, At

LEMMA NextHttp == HttpInv /\ [HttpNext]_httpVars => HttpInv'
<1> SUFFICES ASSUME HttpInv, [HttpNext]_httpVars PROVE HttpInv'
  OBVIOUS
<1>1. ASSUME UNCHANGED threadVars PROVE ThreadInv'
  BY <1>1 DEF HttpInv, threadVars, vars, store, readers, history, ThreadInv, TypeOK,
              FlushedOnce, WriterInv, HasFrame, HasFrames, RunsExist, HasHanded, At
<1>2. ThreadInv'
  BY <1>1, Steps, WriterKeeps, ReaderKeeps DEF HttpInv
<1> QED BY <1>2, NextRequests DEF HttpInv

(* The store, the local variables of every ingest and the requests keep    *)
(* their types, however many threads ingest at once: a concat or a merge   *)
(* is never given an empty list of frames.                                 *)
THEOREM HttpTypeCorrect == HttpSpec => []HttpTypeOK
<1>1. HttpInv => HttpTypeOK
  <2> SUFFICES ASSUME HttpInv PROVE HttpTypeOK
    OBVIOUS
  <2>1. ASSUME NEW w \in Writers
        PROVE  /\ local[w].frame \in FrameType \cup {Idle}
               /\ local[w].frames \in Seq(FrameType)
               /\ local[w].seen \in SnapshotType
    <3>1. local[w] \in LocalType
      BY DEF HttpInv, ThreadInv
    <3> QED BY <3>1 DEF LocalType
  <2>2. ThreadTypeOK
    BY <2>1 DEF ThreadTypeOK, HttpInv, ThreadInv, Points
  <2>3. ASSUME NEW c \in Clients
        PROVE  /\ request[c].body \in Bodies \cup {<<>>}
               /\ request[c].readable \in 0..Len(request[c].body)
               /\ request[c].next \in 1..Len(request[c].body) + 1
               /\ request[c].status \in {"none", "open", "202", "400", "500"}
               /\ request[c].earlier \subseteq Row
               /\ before[c] \in [Keys -> Vals \cup {Absent}]
    <3>1. /\ request[c] \in RequestType /\ Reading(c)
          /\ before[c] \in [Keys -> Vals \cup {Absent}]
      BY DEF HttpInv, RequestInv
    <3>2. Len(request[c].body) \in Nat
      BY <3>1, BodiesAreSequences DEF RequestType
    <3> QED BY <3>1, <3>2 DEF RequestType, Reading
  <2> QED BY <2>2, <2>3 DEF HttpTypeOK
<1> QED BY <1>1, InitHttp, NextHttp, PTL DEF HttpSpec
-----------------------------------------------------------------------------
(* The order of a body.  Numbers are read when a batch is stamped and the  *)
(* counter advances when its frame is appended; in between, other writers  *)
(* can only make the counter larger.                                       *)

Inside(w) == pc[w] \notin {"idle", "append"}

LEMMA GoesOn ==
  ASSUME ThreadInv, NEW w \in Writers, IngestGoesOn(w)
  PROVE  /\ local'[w].frame = local[w].frame
         /\ pc'[w] \in Points \ {"idle", "append"}
         /\ UNCHANGED <<snapshot, accepted>>
         /\ ~AppendFrame(w) => UNCHANGED <<seqno, handed>> /\ Inside(w)
<1>1. /\ pc \in [Writers -> Points] /\ local \in [Writers -> LocalType]
      /\ local[w] \in LocalType
  BY DEF ThreadInv
<1>2. pc'[w] \in Points \ {"idle", "append"} /\ UNCHANGED <<snapshot, accepted>>
  BY <1>1 DEF IngestGoesOn, AppendFrame, CountRows, FlushConcats, FlushSkips, FlushExtends,
              FlushResets, Decide, CompactReads, CompactReplaces, PublishReadsRuns,
              PublishReadsMemtable, Goto, Points
<1>3. ~AppendFrame(w) => UNCHANGED <<seqno, handed>> /\ Inside(w)
  BY DEF IngestGoesOn, CountRows, FlushConcats, FlushSkips, FlushExtends,
         FlushResets, Decide, CompactReads, CompactReplaces, PublishReadsRuns,
         PublishReadsMemtable, Goto, At, Inside, private
<1>4. CASE AppendFrame(w) \/ CountRows(w) \/ FlushSkips(w) \/ FlushResets(w) \/ Decide(w)
  BY <1>2, <1>3, <1>4 DEF AppendFrame, CountRows, FlushSkips, FlushResets, Decide
<1>5. CASE FlushConcats(w) \/ FlushExtends(w)
  BY <1>1, <1>2, <1>3, <1>5 DEF FlushConcats, FlushExtends, Keep, LocalType
<1>6. CASE CompactReads(w)
  BY <1>1, <1>2, <1>3, <1>6 DEF CompactReads, Keep, LocalType
<1>7. CASE CompactReplaces(w)
  <2>1. local'[w] = [local[w] EXCEPT !.frames = <<>>]
    BY <1>7 DEF CompactReplaces
  <2> QED BY <1>1, <1>2, <1>3, <2>1 DEF LocalType
<1>8. CASE PublishReadsRuns(w) \/ PublishReadsMemtable(w)
  BY <1>1, <1>2, <1>3, <1>8 DEF PublishReadsRuns, PublishReadsMemtable, Keep, LocalType
<1> QED BY <1>4, <1>5, <1>6, <1>7, <1>8 DEF IngestGoesOn

(* A frame that is not yet in the memtable has rows below the counter it   *)
(* will be added to, and one that is has rows below the counter itself.    *)
Below(rows, n) == \A r \in rows : r.seqno < n
FrameIsBelow(w) ==
  /\ At(w, "append") => Below(local[w].frame.rows, seqno + Rows(w))
  /\ Inside(w) => Below(local[w].frame.rows, seqno)

LEMMA BelowMore ==
  ASSUME NEW rows \in SUBSET Row, NEW n \in Nat, NEW m \in Nat, n <= m, Below(rows, n)
  PROVE  Below(rows, m)
<1>1. \A r \in rows : r.seqno \in Nat
  BY DEF Row
<1> QED BY <1>1 DEF Below

LEMMA FramesAreBelow ==
  ASSUME ThreadInv, \A v \in Writers : FrameIsBelow(v),
         NEW w \in Writers, WriterStep(w)
  PROVE  /\ seqno' \in Nat /\ seqno \in Nat /\ seqno <= seqno'
         /\ \A v \in Writers : FrameIsBelow(v)'
<1>1. /\ pc \in [Writers -> Points] /\ seqno \in Nat /\ ThreadInv'
      /\ seqno' \in Nat
  BY WriterKeeps DEF ThreadInv, TypeOK
<1>2. seqno <= seqno' /\ FrameIsBelow(w)'
  <2>1. CASE \E batch \in Batches : StampRows(w, batch)
    <3>1. PICK batch \in Batches : StampRows(w, batch)
      BY <2>1
    <3> DEFINE frame == Stamp(batch, seqno)
    <3>2. local'[w].frame = frame /\ seqno' = seqno /\ pc'[w] = "append"
      <4>1. local'[w] = [NoLocals EXCEPT !.frame = frame]
        BY <1>1, <3>1 DEF StampRows, Keep, ThreadInv
      <4>2. [NoLocals EXCEPT !.frame = frame].frame = frame
        BY DEF NoLocals
      <4> QED BY <1>1, <3>1, <4>1, <4>2, WhereItWas DEF StampRows, private
    <3>3. Cardinality(frame.rows) = Len(batch.rows)
          /\ Below(frame.rows, seqno + Len(batch.rows))
      BY <1>1, StampCount, StampedRows DEF Below
    <3>4. Rows(w)' = Len(batch.rows)
      BY <3>2, <3>3 DEF Rows
    <3> QED BY <1>1, <3>2, <3>3, <3>4 DEF FrameIsBelow, At, Inside
  <2>2. CASE AppendFrame(w)
    <3>1. Rows(w) \in Nat /\ At(w, "append") /\ IngestGoesOn(w) /\ seqno' = seqno + Rows(w)
      BY <2>2, CountIsNatural DEF AppendFrame, At, IngestGoesOn
    <3>2. local'[w].frame = local[w].frame /\ ~At(w, "append")'
      BY <3>1, GoesOn DEF At
    <3>3. Below(local[w].frame.rows, seqno')
      BY <3>1 DEF FrameIsBelow
    <3> QED BY <1>1, <3>1, <3>2, <3>3 DEF FrameIsBelow
  <2>3. CASE IngestGoesOn(w) /\ ~AppendFrame(w)
    BY <1>1, <2>3, GoesOn DEF FrameIsBelow, At
  <2>4. CASE IngestRaises(w) \/ IngestReturns(w)
    <3>1. seqno' = seqno /\ pc'[w] = "idle"
      BY <2>4, WhereItWas DEF IngestRaises, IngestReturns, FlushRaises, CompactRaises,
                              PublishAssigns, private
    <3> QED BY <1>1, <3>1 DEF FrameIsBelow, At, Inside
  <2> QED BY <2>1, <2>2, <2>3, <2>4 DEF WriterStep
<1>3. ASSUME NEW v \in Writers, v # w PROVE FrameIsBelow(v)'
  <2>1. FrameIsBelow(v) /\ WriterInv(v) /\ local[v] \in LocalType
    BY DEF ThreadInv
  <2>2. pc'[v] = pc[v] /\ local'[v].frame = local[v].frame
    BY <1>3, <2>1, OthersStay DEF LocalType
  <2>3. ASSUME ~At(v, "idle")
        PROVE  Rows(v) \in Nat /\ local[v].frame.rows \in SUBSET Row /\ Rows(v)' = Rows(v)
    BY <2>2, <2>3, CountIsNatural DEF FrameType, Rows
  <2>4. CASE At(v, "append")
    <3>1. Below(local[v].frame.rows, seqno' + Rows(v))
      BY <1>1, <1>2, <2>1, <2>3, <2>4, BelowMore DEF FrameIsBelow, At
    <3> QED BY <2>2, <2>3, <2>4, <3>1 DEF FrameIsBelow, At, Inside
  <2>5. CASE Inside(v)
    <3>1. Below(local[v].frame.rows, seqno')
      BY <1>1, <1>2, <2>1, <2>3, <2>5, BelowMore DEF FrameIsBelow, At, Inside
    <3> QED BY <2>2, <2>5, <3>1 DEF FrameIsBelow, At, Inside
  <2>6. CASE At(v, "idle")
    BY <2>2, <2>6 DEF FrameIsBelow, At, Inside
  <2> QED BY <2>4, <2>5, <2>6 DEF At, Inside
<1> QED BY <1>1, <1>2, <1>3

EarlierIsBelow(c) ==
  /\ Below(request[c].earlier, seqno)
  /\ ~At(c, "idle") => Before(request[c].earlier, local[c].frame.rows)
OrderInv ==
  /\ HttpInv
  /\ \A w \in Writers : FrameIsBelow(w)
  /\ \A c \in Clients : EarlierIsBelow(c)

LEMMA EarlierStaysBelow ==
  ASSUME OrderInv, NEW c \in Clients, seqno \in Nat, seqno' \in Nat, seqno <= seqno',
         request'[c].earlier = request[c].earlier,
         pc'[c] = "idle" \/ (~At(c, "idle") /\ local'[c].frame = local[c].frame)
  PROVE  EarlierIsBelow(c)'
<1>1. request[c] \in RequestType /\ EarlierIsBelow(c)
  BY DEF OrderInv, HttpInv, RequestInv
<1>2. Below(request[c].earlier, seqno')
  BY <1>1, BelowMore DEF RequestType, EarlierIsBelow
<1> QED BY <1>1, <1>2 DEF EarlierIsBelow, At

LEMMA ClientKeepsOrder ==
  ASSUME OrderInv, NEW c \in Clients, ClientStep(c)
  PROVE  EarlierIsBelow(c)'
<1> DEFINE q == request[c]
<1>1. /\ c \in Writers /\ ThreadInv /\ q \in RequestType /\ Reading(c) /\ WriterInv(c)
      /\ request \in [Clients -> RequestType] /\ pc \in [Writers -> Points]
      /\ local \in [Writers -> LocalType]
      /\ seqno \in Nat /\ FrameIsBelow(c) /\ EarlierIsBelow(c)
  BY ClientsAreWriters DEF OrderInv, HttpInv, ThreadInv, RequestInv, TypeOK
<1>2. WriterStep(c) => seqno' \in Nat /\ seqno <= seqno'
  BY <1>1, FramesAreBelow DEF OrderInv
<1>3. ASSUME NEW body \in Bodies \cup {<<>>}, Sends(c, body) PROVE EarlierIsBelow(c)'
  <2>1. PICK readable \in 0..Len(body) : request' = [request EXCEPT ![c] = Sent(body, readable)]
    BY <1>3 DEF Sends, Sent
  <2>2. request'[c].earlier = {}
    <3>1. readable \in Nat
      BY BodiesAreSequences
    <3>2. Sent(body, readable).earlier = {}
      BY <3>1, RequestIsSent
    <3> QED BY <1>1, <2>1, <3>2
  <2> QED BY <2>2 DEF EarlierIsBelow, Below, Before
<1>4. CASE (\E body \in Bodies : Post(c, body)) \/ Retry(c)
  BY <1>1, <1>3, <1>4 DEF Post, Retry, RequestType
<1>5. CASE Dispatch(c)
  <2> DEFINE batch == q.body[q.next]
             frame == Stamp(batch, seqno)
  <2>1. batch \in Batches
    BY <1>1, <1>5, BodiesAreSequences DEF Dispatch, RequestType, Reading
  <2>2. request' = request /\ UNCHANGED seqno /\ StampRows(c, batch)
    BY <1>5 DEF Dispatch, StampRows, private
  <2> HIDE DEF batch
  <2>3. local'[c].frame = frame
    <3>1. local'[c] = [NoLocals EXCEPT !.frame = frame]
      BY <1>1, <2>2 DEF StampRows, Keep
    <3>2. [NoLocals EXCEPT !.frame = frame].frame = frame
      BY DEF NoLocals
    <3> QED BY <3>1, <3>2
  <2>4. \A r \in frame.rows : r.seqno \in Nat /\ seqno <= r.seqno
    BY <1>1, <2>1, StampedRows DEF FrameType, Row
  <2>5. \A e \in q.earlier : e.seqno \in Nat /\ e.seqno < seqno
    BY <1>1 DEF RequestType, Row, EarlierIsBelow, Below
  <2> HIDE DEF frame
  <2>6. Before(q.earlier, frame.rows)
    BY <1>1, <2>4, <2>5 DEF Before
  <2> QED BY <1>1, <2>2, <2>3, <2>6 DEF EarlierIsBelow
<1>6. CASE BatchGoesOn(c)
  BY <1>1, <1>2, <1>6, EarlierStaysBelow, GoesOn, WhereItWas DEF BatchGoesOn, WriterStep
<1>7. CASE BatchIsIn(c)
  <2> DEFINE went == GoneOn(q, q.next + 1, q.earlier \cup local[c].frame.rows)
  <2>1. Inside(c) /\ UNCHANGED seqno /\ pc'[c] = "idle" /\ ~At(c, "idle")
    BY <1>1, <1>7, WhereItWas DEF BatchIsIn, IngestReturns, PublishAssigns, At, Inside, private
  <2>2. local[c].frame.rows \in SUBSET Row
    BY <1>1, <2>1 DEF WriterInv, HasFrame, FrameType
  <2>3. request' = [request EXCEPT ![c] = went]
    BY <1>7 DEF BatchIsIn, GoneOn
  <2>4. went.earlier = q.earlier \cup local[c].frame.rows
    <3>1. q.earlier \cup local[c].frame.rows \in SUBSET Row /\ q.next + 1 \in Nat \ {0}
      BY <1>1, <2>2 DEF RequestType
    <3> QED BY <1>1, <3>1, RequestGoesOn
  <2> HIDE DEF went
  <2>5. request'[c].earlier = q.earlier \cup local[c].frame.rows
    BY <1>1, <2>3, <2>4
  <2>6. Below(request'[c].earlier, seqno)
    BY <1>1, <2>1, <2>5 DEF EarlierIsBelow, FrameIsBelow, Below
  <2> QED BY <2>1, <2>6 DEF EarlierIsBelow, At
<1>8. ASSUME NEW status, Ended(c, status) PROVE request'[c].earlier = q.earlier
  <2>1. request'[c] = [q EXCEPT !.status = status]
    BY <1>1, <1>8 DEF Ended
  <2> QED BY <1>1, <2>1 DEF RequestType
<1>9. CASE BatchRaises(c)
  BY <1>1, <1>2, <1>8, <1>9, EarlierStaysBelow, WhereItWas DEF BatchRaises, WriterStep
<1>10. CASE BodyBreaks(c) \/ Answers(c)
  <2>1. request'[c].earlier = q.earlier /\ UNCHANGED threadVars /\ At(c, "idle")
    BY <1>8, <1>10 DEF BodyBreaks, Answers
  <2> QED BY <1>1, <2>1, EarlierStaysBelow DEF threadVars, vars, store, At
<1> QED BY <1>4, <1>5, <1>6, <1>7, <1>9, <1>10 DEF ClientStep

LEMMA OthersKeepOrder ==
  ASSUME OrderInv, NEW c \in Clients, request'[c] = request[c],
         \/ \E w \in Writers \ {c} : WriterStep(w)
         \/ UNCHANGED <<seqno, pc, local>>
  PROVE  EarlierIsBelow(c)'
<1>1. /\ c \in Writers /\ ThreadInv /\ local[c] \in LocalType /\ EarlierIsBelow(c)
      /\ seqno \in Nat
  BY ClientsAreWriters DEF OrderInv, HttpInv, ThreadInv, TypeOK
<1>2. CASE UNCHANGED <<seqno, pc, local>>
  BY <1>1, <1>2 DEF EarlierIsBelow, At
<1>3. ASSUME NEW w \in Writers \ {c}, WriterStep(w) PROVE EarlierIsBelow(c)'
  <2>1. seqno' \in Nat /\ seqno <= seqno'
    BY <1>1, <1>3, FramesAreBelow DEF OrderInv
  <2>2. pc'[c] = pc[c] /\ local'[c].frame = local[c].frame
    BY <1>1, <1>3, OthersStay DEF LocalType
  <2> QED BY <1>1, <2>1, <2>2, EarlierStaysBelow DEF At
<1> QED BY <1>2, <1>3

LEMMA InitOrder == HttpInit => OrderInv
<1> SUFFICES ASSUME HttpInit PROVE OrderInv
  OBVIOUS
<1>1. \A c \in Clients : request[c].earlier = {}
  BY DEF HttpInit, NoRequest
<1>2. \A w \in Writers : pc[w] = "idle"
  BY DEF HttpInit, ThreadInit
<1> QED BY <1>1, <1>2, InitHttp, ClientsAreWriters
        DEF OrderInv, FrameIsBelow, EarlierIsBelow, At, Inside, Below

LEMMA NextOrder == OrderInv /\ [HttpNext]_httpVars => OrderInv'
<1> SUFFICES ASSUME OrderInv, [HttpNext]_httpVars PROVE OrderInv'
  OBVIOUS
<1>1. HttpInv /\ HttpInv' /\ ThreadInv
  BY NextHttp DEF OrderInv, HttpInv
<1>2. UNCHANGED threadVars => UNCHANGED <<seqno, pc, local>>
  BY DEF threadVars, vars, store
<1>3. \A w \in Writers : FrameIsBelow(w)'
  <2>1. CASE \E w \in Writers : WriterStep(w)
    BY <1>1, <2>1, FramesAreBelow DEF OrderInv
  <2>2. CASE UNCHANGED <<seqno, pc, local>>
    BY <2>2 DEF OrderInv, FrameIsBelow, At, Inside, Rows
  <2> QED BY <1>1, <1>2, <2>1, <2>2, Steps, ReaderKeeps DEF store
<1>4. ASSUME NEW c \in Clients PROVE EarlierIsBelow(c)'
  <2>1. CASE ClientStep(c)
    BY <2>1, ClientKeepsOrder DEF OrderInv
  <2>2. ASSUME NEW d \in Clients, d # c, ClientStep(d) PROVE EarlierIsBelow(c)'
    <3>1. request'[c] = request[c]
      BY <1>1, <2>2 DEF ClientStep, Post, Retry, Sends, Dispatch, BatchGoesOn, BatchIsIn,
            BatchRaises, BodyBreaks, Answers, Ended, HttpInv, RequestInv
    <3>2. WriterStep(d) \/ UNCHANGED threadVars
      <4>1. CASE Dispatch(d)
        <5>1. request[d].body[request[d].next] \in Batches
          BY <1>1, <4>1, BodiesAreSequences
             DEF Dispatch, HttpInv, RequestInv, RequestType, Reading
        <5> QED BY <4>1, <5>1 DEF Dispatch, WriterStep
      <4> QED BY <2>2, <4>1 DEF ClientStep, Post, Retry, Sends, BatchGoesOn, BatchIsIn,
                                BatchRaises, BodyBreaks, Answers, WriterStep
    <3> QED BY <1>2, <2>2, <3>1, <3>2, OthersKeepOrder, ClientsAreWriters
  <2>3. ASSUME NEW w \in Writers \ Clients, LoopStep(w) PROVE EarlierIsBelow(c)'
    BY <2>3, OthersKeepOrder DEF LoopStep, WriterStep
  <2>4. ASSUME NEW r \in Readers, ReaderStep(r), UNCHANGED <<request, before>>
        PROVE  EarlierIsBelow(c)'
    BY <1>1, <2>4, ReaderKeeps, OthersKeepOrder DEF store
  <2>5. CASE UNCHANGED httpVars
    BY <1>2, <2>5, OthersKeepOrder DEF httpVars
  <2> QED BY <2>1, <2>2, <2>3, <2>4, <2>5 DEF HttpNext
<1> QED BY <1>1, <1>3, <1>4 DEF OrderInv

(* Whatever other threads ingest in between, a row of a body is numbered   *)
(* above all rows of the batches before it in the body.                    *)
THEOREM BodiesKeepTheirOrder == HttpSpec => []BodyOrderIsKept
<1>1. OrderInv => BodyOrderIsKept
  BY DEF OrderInv, EarlierIsBelow, Before, BodyOrderIsKept
<1> QED BY <1>1, InitOrder, NextOrder, PTL DEF HttpSpec
-----------------------------------------------------------------------------
(* Whole batches.  A set of rows is whole if, of each frame that was ever  *)
(* handed to the memtable, it covers all rows or has none.                 *)

Covers(rows, r) == \E s \in rows : s.id = r.id /\ s.seqno >= r.seqno
RowsIn(frames) == UNION {f.rows : f \in frames}
WholeIn(frames, rows) ==
  /\ rows \subseteq RowsIn(frames)
  /\ \A f \in frames : f.rows \cap rows # {} => \A r \in f.rows : Covers(rows, r)

BatchesShareNoRow ==
  \A b, c \in Batches : \A i \in DOMAIN b.rows, j \in DOMAIN c.rows :
    b.rows[i] = c.rows[j] => b.rows = c.rows /\ i = j
IsStamp(frame) == \E batch \in Batches, first \in Nat : frame = Stamp(batch, first)

(* A row tells its batch and its place in it, and so where the numbering   *)
(* of the batch began.                                                     *)
LEMMA SharedRow ==
  ASSUME BatchesShareNoRow, NEW f, IsStamp(f), NEW g, IsStamp(g),
         f.rows \cap g.rows # {}
  PROVE  f.rows = g.rows
<1>1. PICK b \in Batches, m \in Nat : f = Stamp(b, m)
  BY DEF IsStamp
<1>2. PICK c \in Batches, n \in Nat : g = Stamp(c, n)
  BY DEF IsStamp
<1> DEFINE row(batch, first, i) ==
             [id |-> batch.rows[i].id, val |-> batch.rows[i].val,
              op |-> batch.rows[i].op, seqno |-> first + i - 1]
<1>3. /\ f.rows = {row(b, m, i) : i \in DOMAIN b.rows}
      /\ g.rows = {row(c, n, j) : j \in DOMAIN c.rows}
  BY <1>1, <1>2 DEF Stamp
<1>4. PICK i \in DOMAIN b.rows, j \in DOMAIN c.rows : row(b, m, i) = row(c, n, j)
  BY <1>3
<1>5. b.rows[i] = c.rows[j]
  <2>1. b.rows[i] \in BatchRow /\ c.rows[j] \in BatchRow
    BY BatchesAreTyped
  <2>2. /\ b.rows[i].id = c.rows[j].id /\ b.rows[i].val = c.rows[j].val
        /\ b.rows[i].op = c.rows[j].op
    BY <1>4
  <2> QED BY <2>1, <2>2 DEF BatchRow
<1>6. b.rows = c.rows /\ i = j
  BY <1>5 DEF BatchesShareNoRow
<1>7. m = n
  <2>1. m + i - 1 = n + j - 1 /\ i \in Int
    BY <1>4, BatchesAreTyped
  <2> QED BY <1>6, <2>1
<1> QED BY <1>3, <1>6, <1>7

LEMMA NothingIsWhole == \A frames : WholeIn(frames, RowsOf(<<>>))
BY RowsOfNone DEF WholeIn

LEMMA WholeJoins ==
  ASSUME NEW frames, NEW rows, NEW more, WholeIn(frames, rows), WholeIn(frames, more)
  PROVE  WholeIn(frames, rows \cup more)
BY DEF WholeIn, Covers

LEMMA WholeGrows ==
  ASSUME BatchesShareNoRow, NEW frames, NEW f, \A g \in frames \cup {f} : IsStamp(g),
         NEW rows, WholeIn(frames, rows)
  PROVE  WholeIn(frames \cup {f}, rows)
<1>1. rows \subseteq RowsIn(frames \cup {f})
  BY DEF WholeIn, RowsIn
<1>2. ASSUME f.rows \cap rows # {}, NEW r \in f.rows PROVE Covers(rows, r)
  <2>1. PICK g \in frames : f.rows \cap rows \cap g.rows # {}
    BY <1>2 DEF WholeIn, RowsIn
  <2>2. f.rows = g.rows
    BY <2>1, SharedRow
  <2> QED BY <1>2, <2>1, <2>2 DEF WholeIn
<1> QED BY <1>1, <1>2 DEF WholeIn

LEMMA HandedIsWhole ==
  ASSUME BatchesShareNoRow, NEW frames, \A g \in frames : IsStamp(g), NEW f \in frames,
         f.rows \subseteq Row
  PROVE  WholeIn(frames, f.rows)
<1>1. f.rows \subseteq RowsIn(frames)
  BY DEF RowsIn
<1>2. ASSUME NEW g \in frames, g.rows \cap f.rows # {}, NEW r \in g.rows
      PROVE  Covers(f.rows, r)
  <2>1. r \in f.rows
    BY <1>2, SharedRow
  <2>2. r.seqno \in Nat
    BY <2>1 DEF Row
  <2> QED BY <2>1, <2>2 DEF Covers
<1> QED BY <1>1, <1>2 DEF WholeIn

(* Of numbered rows one of each key wins, and the merge covers them all.   *)
LEMMA WinnerCovers ==
  ASSUME NEW rows \in SUBSET Row, NEW n \in Nat, Below(rows, n), NEW r \in rows
  PROVE  Covers(Winners(rows), r)
<1> DEFINE same == {s \in rows : s.id = r.id}
           T == {s.seqno + 1 : s \in same}
<1>1. \A s \in rows : s.seqno \in Nat /\ s.seqno < n
  BY DEF Row, Below
<1>2. T \in SUBSET (1..n) /\ T # {}
  BY <1>1
<1>3. PICK t \in T : \A u \in T : u <= t
  <2> HIDE DEF T
  <2> QED BY <1>2, LastIndex
<1>4. PICK s \in same : t = s.seqno + 1
  OBVIOUS
<1>5. \A u \in same : u.seqno <= s.seqno
  <2> TAKE u \in same
  <2>1. u.seqno + 1 <= s.seqno + 1
    BY <1>3, <1>4
  <2> QED BY <1>1, <1>4, <2>1
<1>6. s \in Winners(rows)
  BY <1>4, <1>5 DEF Winners
<1> QED BY <1>1, <1>4, <1>5, <1>6 DEF Covers

LEMMA MergeCovers ==
  ASSUME NEW rows \in SUBSET Row, NEW n \in Nat, Below(rows, n),
         NEW chosen \in RankOne(rows), NEW r \in Row, Covers(rows, r)
  PROVE  Covers(chosen, r)
<1>1. PICK s \in rows : s.id = r.id /\ s.seqno >= r.seqno
  BY DEF Covers
<1>2. PICK t \in Winners(rows) : t.id = s.id /\ t.seqno >= s.seqno
  BY WinnerCovers DEF Covers
<1>3. PICK u \in chosen : u.id = t.id /\ u \in Winners(rows)
  BY DEF RankOne
<1>4. u.seqno >= t.seqno
  BY <1>2, <1>3 DEF Winners
<1>5. /\ r.seqno \in Nat /\ s.seqno \in Nat /\ t.seqno \in Nat /\ u.seqno \in Nat
  BY <1>1, <1>2, <1>3 DEF Row, Winners
<1> QED BY <1>1, <1>2, <1>3, <1>4, <1>5 DEF Covers

LEMMA MergeIsWhole ==
  ASSUME NEW frames, NEW rows \in SUBSET Row, NEW n \in Nat, Below(rows, n),
         WholeIn(frames, rows), \A f \in frames : f.rows \subseteq Row,
         NEW chosen \in RankOne(rows)
  PROVE  WholeIn(frames, chosen)
<1>1. chosen \subseteq rows
  BY DEF RankOne, Winners
<1>2. ASSUME NEW f \in frames, f.rows \cap chosen # {}, NEW r \in f.rows
      PROVE  Covers(chosen, r)
  <2>1. Covers(rows, r)
    BY <1>1, <1>2 DEF WholeIn
  <2> QED BY <1>2, <2>1, MergeCovers
<1> QED BY <1>1, <1>2 DEF WholeIn

LocalsAreWhole(frames, locals) ==
  /\ WholeIn(frames, RowsOf(locals.frames))
  /\ WholeIn(frames, RowsOf(locals.seen.runs))
  /\ WholeIn(frames, RowsOf(locals.seen.memtable))
StoreIsWhole(frames) ==
  /\ WholeIn(frames, RowsOf(memtable))
  /\ WholeIn(frames, RowsOf(runs))
  /\ WholeIn(frames, RowsOf(snapshot.runs))
  /\ WholeIn(frames, RowsOf(snapshot.memtable))
WholeInv ==
  /\ OrderInv
  /\ Below(RowsIn(handed), seqno)
  /\ \A f \in handed : IsStamp(f)
  /\ \A w \in Writers : ~At(w, "idle") => IsStamp(local[w].frame)
  /\ StoreIsWhole(handed)
  /\ \A w \in Writers : LocalsAreWhole(handed, local[w])

(* The locals of a writer that steps, from those of the store.             *)
LEMMA OwnLocals ==
  ASSUME ThreadInv, NEW w \in Writers, NEW locals, Keep(w, locals)
  PROVE  local'[w] = locals
BY DEF ThreadInv, Keep

LEMMA NoLocalsAreWhole == \A frames : LocalsAreWhole(frames, NoLocals)
<1>1. NoLocals.frames = <<>> /\ NoLocals.seen.runs = <<>> /\ NoLocals.seen.memtable = <<>>
  BY DEF NoLocals
<1> QED BY <1>1, NothingIsWhole DEF LocalsAreWhole

(* Steps that hand nothing over keep the store and their own locals whole. *)
LEMMA OwnStaysWhole ==
  ASSUME WholeInv, NEW w \in Writers, WriterStep(w), ~AppendFrame(w)
  PROVE  StoreIsWhole(handed)' /\ LocalsAreWhole(handed, local[w])' /\ handed' = handed
<1>1. /\ ThreadInv /\ local[w] \in LocalType /\ local \in [Writers -> LocalType]
      /\ StoreIsWhole(handed) /\ LocalsAreWhole(handed, local[w])
      /\ memtable \in Seq(FrameType) /\ runs \in Seq(FrameType)
      /\ WriterInv(w) /\ seqno \in Nat
  BY DEF WholeInv, OrderInv, HttpInv, ThreadInv, TypeOK
<1>2. handed' = handed
  BY <1>1, GoesOn DEF WriterStep, IngestRaises, IngestReturns, StampRows, FlushRaises,
                      CompactRaises, PublishAssigns, Goto
<1>3. CASE (\E batch \in Batches : StampRows(w, batch)) \/ IngestRaises(w)
  <2>1. UNCHANGED <<private, snapshot>>
    BY <1>3 DEF StampRows, IngestRaises, FlushRaises, CompactRaises
  <2>2. LocalsAreWhole(handed, local'[w])
    <3>1. CASE IngestRaises(w)
      BY <1>1, <3>1, OwnLocals, NoLocalsAreWhole DEF IngestRaises, FlushRaises, CompactRaises
    <3>2. ASSUME NEW batch \in Batches, StampRows(w, batch)
          PROVE  LocalsAreWhole(handed, local'[w])
      <4>1. local'[w] = [NoLocals EXCEPT !.frame = Stamp(batch, seqno)]
        BY <1>1, <3>2, OwnLocals DEF StampRows
      <4>2. local'[w].frames = NoLocals.frames /\ local'[w].seen = NoLocals.seen
        BY <4>1 DEF NoLocals
      <4> QED BY <4>2, NoLocalsAreWhole DEF LocalsAreWhole
    <3> QED BY <1>3, <3>1, <3>2
  <2> QED BY <1>1, <1>2, <2>1, <2>2 DEF StoreIsWhole, LocalsAreWhole, private
<1>4. CASE CountRows(w) \/ FlushSkips(w) \/ Decide(w)
  BY <1>1, <1>2, <1>4 DEF CountRows, FlushSkips, Decide, StoreIsWhole, LocalsAreWhole, private
<1>5. CASE FlushConcats(w)
  <2> DEFINE locals == [local[w] EXCEPT !.frames = memtable, !.current = TRUE]
  <2>1. local'[w] = locals /\ UNCHANGED <<private, snapshot>>
    BY <1>1, <1>5, OwnLocals DEF FlushConcats
  <2>2. locals.frames = memtable /\ locals.seen = local[w].seen
    BY <1>1 DEF LocalType
  <2> QED BY <1>1, <1>2, <2>1, <2>2 DEF StoreIsWhole, LocalsAreWhole, private
<1>6. CASE FlushExtends(w)
  <2> DEFINE locals == [local[w] EXCEPT !.frames = <<>>, !.current = FALSE]
             frames == local[w].frames
  <2>1. local'[w] = locals /\ UNCHANGED <<memtable, snapshot>>
    BY <1>1, <1>6, OwnLocals DEF FlushExtends
  <2>2. locals.frames = <<>> /\ locals.seen = local[w].seen
    BY <1>1, NoFrames DEF LocalType
  <2>3. WholeIn(handed, RowsOf(runs'))
    <3>1. CASE local[w].current
      <4>1. frames \in Seq(FrameType) /\ frames # <<>>
        BY <1>1, <1>6 DEF LocalType, WriterInv, HasFrames, FlushExtends, At
      <4>2. Concat(frames) \in FrameType /\ Concat(frames).rows = RowsOf(frames)
        BY <4>1, FramesStayFrames
      <4>3. runs' = Append(runs, Concat(frames))
        BY <1>6, <3>1 DEF FlushExtends
      <4>4. RowsOf(runs') = RowsOf(runs) \cup RowsOf(frames)
        BY <1>1, <4>2, <4>3, RowsOfAppend
      <4> QED BY <1>1, <4>4, WholeJoins DEF StoreIsWhole, LocalsAreWhole
    <3>2. CASE ~local[w].current
      BY <1>1, <1>6, <3>2 DEF FlushExtends, StoreIsWhole
    <3> QED BY <3>1, <3>2
  <2> QED BY <1>1, <1>2, <2>1, <2>2, <2>3, NothingIsWhole DEF StoreIsWhole, LocalsAreWhole
<1>7. CASE FlushResets(w)
  BY <1>1, <1>2, <1>7, NothingIsWhole DEF FlushResets, StoreIsWhole, LocalsAreWhole
<1>8. CASE CompactReads(w)
  <2> DEFINE locals == [local[w] EXCEPT !.frames = runs]
  <2>1. local'[w] = locals /\ UNCHANGED <<private, snapshot>>
    BY <1>1, <1>8, OwnLocals DEF CompactReads
  <2>2. locals.frames = runs /\ locals.seen = local[w].seen
    BY <1>1 DEF LocalType
  <2> QED BY <1>1, <1>2, <2>1, <2>2 DEF StoreIsWhole, LocalsAreWhole, private
<1>9. CASE CompactReplaces(w)
  <2> DEFINE frames == local[w].frames
             locals == [local[w] EXCEPT !.frames = <<>>]
  <2>1. local'[w] = locals /\ UNCHANGED <<memtable, snapshot>>
    BY <1>9 DEF CompactReplaces
  <2>2. locals.frames = <<>> /\ locals.seen = local[w].seen
    BY <1>1, NoFrames DEF LocalType
  <2>3. PICK chosen \in RankOne(RowsOf(frames)) :
          runs' = <<[schema |-> frames[1].schema, rows |-> chosen]>>
    BY <1>9 DEF CompactReplaces
  <2>4. RowsOf(runs') = chosen
    BY <2>3 DEF RowsOf
  <2>5. frames \in Seq(FrameType) /\ RowsOf(frames) \in SUBSET Row
    BY <1>1, <2>3, ChosenRowsAreRows DEF LocalType
  <2>6. WholeIn(handed, RowsOf(frames)) /\ Below(RowsOf(frames), seqno)
    BY <1>1 DEF LocalsAreWhole, WholeInv, WholeIn, Below
  <2>7. \A f \in handed : f.rows \subseteq Row
    BY <1>1 DEF ThreadInv, FrameType
  <2>8. WholeIn(handed, chosen)
    BY <1>1, <2>5, <2>6, <2>7, MergeIsWhole
  <2> QED BY <1>1, <1>2, <2>1, <2>2, <2>4, <2>8, NothingIsWhole
          DEF StoreIsWhole, LocalsAreWhole
<1>10. CASE PublishReadsRuns(w)
  <2> DEFINE locals == [local[w] EXCEPT !.seen.runs = runs]
  <2>1. local'[w] = locals /\ UNCHANGED <<private, snapshot>>
    BY <1>1, <1>10, OwnLocals DEF PublishReadsRuns
  <2>2. /\ locals.frames = local[w].frames /\ locals.seen.runs = runs
        /\ locals.seen.memtable = local[w].seen.memtable
    BY <1>1 DEF LocalType, SnapshotType
  <2> QED BY <1>1, <1>2, <2>1, <2>2 DEF StoreIsWhole, LocalsAreWhole, private
<1>11. CASE PublishReadsMemtable(w)
  <2> DEFINE locals == [local[w] EXCEPT !.seen.memtable = memtable]
  <2>1. local'[w] = locals /\ UNCHANGED <<private, snapshot>>
    BY <1>1, <1>11, OwnLocals DEF PublishReadsMemtable
  <2>2. /\ locals.frames = local[w].frames /\ locals.seen.memtable = memtable
        /\ locals.seen.runs = local[w].seen.runs
    BY <1>1 DEF LocalType, SnapshotType
  <2> QED BY <1>1, <1>2, <2>1, <2>2 DEF StoreIsWhole, LocalsAreWhole, private
<1>12. CASE IngestReturns(w)
  <2>1. local'[w] = NoLocals /\ snapshot' = local[w].seen /\ UNCHANGED private
    BY <1>1, <1>12, OwnLocals DEF IngestReturns, PublishAssigns
  <2>2. LocalsAreWhole(handed, NoLocals)
    BY NoLocalsAreWhole
  <2> QED BY <1>1, <1>2, <2>1, <2>2 DEF StoreIsWhole, LocalsAreWhole, private
<1> QED BY <1>2, <1>3, <1>4, <1>5, <1>6, <1>7, <1>8, <1>9, <1>10, <1>11, <1>12
        DEF WriterStep, IngestGoesOn

LEMMA AppendStaysWhole ==
  ASSUME BatchesShareNoRow, WholeInv, NEW w \in Writers, AppendFrame(w)
  PROVE  /\ StoreIsWhole(handed)'
         /\ \A v \in Writers : LocalsAreWhole(handed, local[v])'
<1> DEFINE f == local[w].frame
<1>1. /\ ThreadInv /\ StoreIsWhole(handed) /\ memtable \in Seq(FrameType)
      /\ \A v \in Writers : LocalsAreWhole(handed, local[v])
      /\ f \in FrameType /\ \A g \in handed \cup {f} : IsStamp(g)
  BY CountIsNatural DEF WholeInv, OrderInv, HttpInv, ThreadInv, TypeOK, AppendFrame, At
<1>2. /\ handed' = handed \cup {f} /\ memtable' = Append(memtable, f)
      /\ UNCHANGED <<runs, snapshot, local>>
  BY DEF AppendFrame
<1> HIDE DEF f
<1>3. ASSUME NEW rows, WholeIn(handed, rows) PROVE WholeIn(handed', rows)
  BY <1>1, <1>2, <1>3, WholeGrows
<1>4. WholeIn(handed', RowsOf(memtable'))
  <2>1. RowsOf(memtable') = RowsOf(memtable) \cup f.rows
    BY <1>1, <1>2, RowsOfAppend
  <2>2. WholeIn(handed', f.rows)
    BY <1>1, <1>2, HandedIsWhole DEF FrameType
  <2> QED BY <1>1, <1>3, <2>1, <2>2, WholeJoins DEF StoreIsWhole
<1>5. StoreIsWhole(handed)'
  BY <1>1, <1>2, <1>3, <1>4 DEF StoreIsWhole
<1>6. ASSUME NEW v \in Writers PROVE LocalsAreWhole(handed, local[v])'
  BY <1>1, <1>2, <1>3 DEF LocalsAreWhole
<1> QED BY <1>5, <1>6

LEMMA NextWhole == BatchesShareNoRow => (WholeInv /\ [HttpNext]_httpVars => WholeInv')
<1> SUFFICES ASSUME BatchesShareNoRow, WholeInv, [HttpNext]_httpVars PROVE WholeInv'
  OBVIOUS
<1>1. OrderInv' /\ HttpInv /\ HttpInv' /\ ThreadInv /\ ThreadInv'
  BY NextOrder DEF WholeInv, OrderInv, HttpInv
<1>2. ASSUME NEW w \in Writers, WriterStep(w) PROVE WholeInv'
  <2>1. /\ local \in [Writers -> LocalType] /\ handed \in SUBSET FrameType
        /\ seqno \in Nat /\ seqno' \in Nat /\ seqno <= seqno'
    BY <1>1, <1>2, FramesAreBelow DEF ThreadInv, TypeOK, WholeInv, OrderInv
  <2>2. ASSUME NEW v \in Writers, v # w
        PROVE  /\ local'[v].frame = local[v].frame /\ pc'[v] = pc[v]
               /\ local'[v].frames = local[v].frames /\ local'[v].seen = local[v].seen
    <3>1. local[v] \in LocalType
      BY <2>1
    <3> QED BY <1>1, <1>2, <2>2, <3>1, OthersStay DEF LocalType
  <2>3. CASE AppendFrame(w)
    <3>1. /\ handed' = handed \cup {local[w].frame} /\ UNCHANGED local
          /\ ~At(w, "idle") /\ At(w, "append") /\ seqno' = seqno + Rows(w)
      BY <2>3 DEF AppendFrame, At
    <3>2. IsStamp(local[w].frame)
      BY <3>1 DEF WholeInv
    <3>3. \A v \in Writers : ~At(v, "idle")' => IsStamp(local'[v].frame)
      BY <2>2, <3>1, <3>2 DEF WholeInv, At
    <3>4. Below(RowsIn(handed'), seqno')
      <4>1. Below(local[w].frame.rows, seqno')
        BY <3>1 DEF WholeInv, OrderInv, FrameIsBelow
      <4>2. RowsIn(handed) \in SUBSET Row
        BY <2>1 DEF RowsIn, FrameType
      <4>3. Below(RowsIn(handed), seqno')
        BY <2>1, <4>2, BelowMore DEF WholeInv
      <4>4. RowsIn(handed') = RowsIn(handed) \cup local[w].frame.rows
        BY <3>1 DEF RowsIn
      <4> QED BY <4>1, <4>3, <4>4 DEF Below
    <3>5. \A g \in handed' : IsStamp(g)
      BY <3>1, <3>2 DEF WholeInv
    <3> QED BY <1>1, <2>3, <3>3, <3>4, <3>5, AppendStaysWhole DEF WholeInv
  <2>4. CASE ~AppendFrame(w)
    <3>1. StoreIsWhole(handed)' /\ LocalsAreWhole(handed, local[w])' /\ handed' = handed
      BY <1>2, <2>4, OwnStaysWhole
    <3>2. \A v \in Writers : LocalsAreWhole(handed, local[v])'
      BY <2>2, <3>1 DEF WholeInv, LocalsAreWhole
    <3>3. ~At(w, "idle")' => IsStamp(local'[w].frame)
      <4>1. ASSUME NEW batch \in Batches, StampRows(w, batch) PROVE IsStamp(local'[w].frame)
        <5>1. local'[w] = [NoLocals EXCEPT !.frame = Stamp(batch, seqno)]
          BY <1>1, <4>1, OwnLocals DEF StampRows
        <5>2. local'[w].frame = Stamp(batch, seqno)
          BY <5>1 DEF NoLocals
        <5> QED BY <2>1, <5>2 DEF IsStamp
      <4>2. CASE IngestGoesOn(w)
        BY <1>1, <4>2, GoesOn, WhereItWas DEF WholeInv
      <4>3. CASE IngestRaises(w) \/ IngestReturns(w)
        BY <1>1, <4>3, WhereItWas DEF At
      <4> QED BY <1>2, <4>1, <4>2, <4>3 DEF WriterStep
    <3>4. \A v \in Writers : ~At(v, "idle")' => IsStamp(local'[v].frame)
      BY <2>2, <3>3 DEF WholeInv, At
    <3>5. Below(RowsIn(handed'), seqno')
      <4>1. RowsIn(handed) \in SUBSET Row
        BY <2>1 DEF RowsIn, FrameType
      <4> QED BY <2>1, <3>1, <4>1, BelowMore DEF WholeInv
    <3> QED BY <1>1, <3>1, <3>2, <3>4, <3>5 DEF WholeInv
  <2> QED BY <2>3, <2>4
<1>3. ASSUME UNCHANGED <<store, pc, local, history>> PROVE WholeInv'
  BY <1>1, <1>3 DEF store, history, WholeInv, At, StoreIsWhole, LocalsAreWhole
<1> QED BY <1>1, <1>2, <1>3, Steps, ReaderKeeps DEF threadVars, vars

(* However many writers race, and whatever frames their flushes lose, a    *)
(* reader never sees half of a batch (of batches that share no row).       *)
THEOREM NoHalfBatches ==
  ASSUME BatchesShareNoRow
  PROVE  HttpSpec => []BatchesAreSeenWhole
<1>1. HttpInit => WholeInv
  <2> SUFFICES ASSUME HttpInit PROVE WholeInv
    OBVIOUS
  <2>1. OrderInv
    BY InitOrder
  <2>2. handed = {} /\ \A w \in Writers : pc[w] = "idle" /\ local[w] = NoLocals
    BY DEF HttpInit, ThreadInit
  <2>3. StoreIsWhole({})
    BY NothingIsWhole DEF HttpInit, ThreadInit, Init, StoreIsWhole
  <2> QED BY <2>1, <2>2, <2>3, NoLocalsAreWhole DEF WholeInv, RowsIn, Below, At
<1>2. WholeInv => BatchesAreSeenWhole
  <2> SUFFICES ASSUME WholeInv PROVE BatchesAreSeenWhole
    OBVIOUS
  <2>1. snapshot.runs \in Seq(FrameType) /\ snapshot.memtable \in Seq(FrameType)
    BY DEF WholeInv, OrderInv, HttpInv, ThreadInv, TypeOK, SnapshotType
  <2>2. WholeIn(handed, RowsOf(snapshot.runs \o snapshot.memtable))
    BY <2>1, RowsOfConcatenation, WholeJoins DEF WholeInv, StoreIsWhole
  <2> QED BY <2>2 DEF WholeIn, Covers, BatchesAreSeenWhole
<1>3. WholeInv /\ [HttpNext]_httpVars => WholeInv'
  BY NextWhole
<1> QED BY <1>1, <1>2, <1>3, PTL DEF HttpSpec
-----------------------------------------------------------------------------
(* One writer.  Everything its ingest changes before it assigns the        *)
(* snapshot is private, so the store is the one of LSMStore: between two   *)
(* ingests it has the variables as they are, and during an ingest as they  *)
(* were when it began.  What is proved of that store is taken over.        *)

Settled == INSTANCE NewestWins_proofs WITH
  seqno <- settled.seqno, memtable <- settled.memtable,
  memtable_rows <- settled.memtable_rows, runs <- settled.runs

LEMMA SettledWords ==
  /\ \A batch, first : Settled!Stamp(batch, first) = Stamp(batch, first)
  /\ \A frames : /\ Settled!RowsOf(frames) = RowsOf(frames)
                 /\ Settled!Concat(frames) = Concat(frames)
                 /\ Settled!SameSchema(frames) <=> SameSchema(frames)
                 /\ Settled!MergeFrame(frames) = MergeFrame(frames)
  /\ \A rows : Settled!Winners(rows) = Winners(rows)
BY DEF Settled!Stamp, Stamp, Settled!RowsOf, RowsOf, Settled!Concat, Concat,
       Settled!SameSchema, SameSchema, Settled!MergeFrame, MergeFrame,
       Settled!Winners, Winners

LEMMA SettledGood == \A rows : Settled!Good(rows) <=> Good(rows)
BY DEF Settled!Good, Good, Settled!Row, Row, Settled!IsFiniteSet, IsFiniteSet,
       Settled!Ops, Ops

LEMMA SettledMerges ==
  \A frames, limit : Settled!MergeToRows(frames, limit) = MergeToRows(frames, limit)
BY DEF Settled!MergeToRows, MergeToRows, Settled!Live, Live, Settled!SameSchema,
       SameSchema, Settled!RowsOf, RowsOf, Settled!Winners, Winners,
       Settled!Cardinality, Cardinality, Settled!IsFiniteSet, IsFiniteSet

(* The assumptions about the constants are those of LSMStore.             *)
LEMMA SettledConstants ==
  /\ Batches \subseteq [schema : Schemas, rows : Seq(Settled!BatchRow)]
  /\ Idle \notin Settled!SnapshotType
BY BatchesAreTyped, IdleIsNoSnapshot
   DEF Settled!BatchRow, BatchRow, Settled!Ops, Ops, Settled!SnapshotType,
       SnapshotType, Settled!FrameType, FrameType, Settled!Row, Row

LEMMA SettledInv ==
  /\ Settled!Init => Settled!RefinementInv
  /\ Settled!RefinementInv /\ [Settled!Next]_(Settled!vars) => Settled!RefinementInv'
BY SettledConstants, Settled!InitRefinement, Settled!NextRefinementInv, KeysAreIntegers,
   AbsentIsNoValue, LimitsAreNaturals, ThresholdsAreNaturals, IdleIsNoTable,
   BoundsAreNaturals

LEMMA SettledKeepsGood ==
  Settled!RefinementInv =>
    \A batch \in Batches :
      Settled!Good(Settled!Stored \cup Settled!Stamp(batch, settled.seqno).rows)
BY SettledConstants, Settled!BatchesKeepGood, KeysAreIntegers, AbsentIsNoValue,
   LimitsAreNaturals, ThresholdsAreNaturals, IdleIsNoTable, BoundsAreNaturals

(* Of numbered rows the rank leaves no choice.                             *)
LEMMA RankIsWinners ==
  ASSUME NEW rows, Good(rows), NEW chosen \in RankOne(rows)
  PROVE  chosen = Winners(rows)
<1>1. chosen \subseteq Winners(rows)
  BY DEF RankOne
<1>2. ASSUME NEW r \in Winners(rows) PROVE r \in chosen
  <2>1. PICK s \in chosen : s.id = r.id
    BY DEF RankOne
  <2> QED BY <1>1, <2>1, OneWinner
<1> QED BY <1>1, <1>2

(* How far the ingest of a batch is, from the state in which it began.     *)
Same(state) ==
  /\ seqno = state.seqno /\ memtable = state.memtable
  /\ memtable_rows = state.memtable_rows /\ runs = state.runs
Filled(batch) == Append(settled.memtable, Stamp(batch, settled.seqno))
Extended(batch) == Append(settled.runs, Concat(Filled(batch)))
Counted(batch) == settled.memtable_rows + Len(batch.rows)

Begun(w, batch) ==
  /\ local[w].frame = Stamp(batch, settled.seqno)
  /\ settled.seqno + Len(batch.rows) <= MaxRows
  /\ Len(settled.memtable) < MaxFrames
Numbered(batch) == seqno = settled.seqno + Len(batch.rows)
InMemtable(batch, count) ==
  Numbered(batch) /\ memtable = Filled(batch) /\ memtable_rows = count /\ runs = settled.runs
MayFlush(batch) == Counted(batch) >= FlushRows /\ SameSchema(Filled(batch))
InRuns(batch) ==
  /\ Numbered(batch) /\ MayFlush(batch)
  /\ memtable = <<>> /\ memtable_rows = 0 /\ runs = Extended(batch)
MayCompact(batch) == Len(Extended(batch)) >= CompactionRuns /\ SameSchema(Extended(batch))
Finished(batch) ==
  \/ InMemtable(batch, Counted(batch)) /\ Counted(batch) < FlushRows
  \/ InRuns(batch) /\ Len(Extended(batch)) < CompactionRuns
  \/ /\ Numbered(batch) /\ MayFlush(batch) /\ MayCompact(batch)
     /\ memtable = <<>> /\ memtable_rows = 0 /\ runs = <<MergeFrame(Extended(batch))>>

Doing(w, batch) ==
  /\ At(w, "append") => Same(settled)
  /\ At(w, "count") => InMemtable(batch, settled.memtable_rows)
  /\ At(w, "flush") => InMemtable(batch, Counted(batch)) /\ Counted(batch) >= FlushRows
  /\ At(w, "extend") =>
       /\ InMemtable(batch, Counted(batch)) /\ MayFlush(batch)
       /\ local[w].frames = Filled(batch) /\ local[w].current
  /\ At(w, "reset") =>
       /\ Numbered(batch) /\ MayFlush(batch) /\ runs = Extended(batch)
  /\ At(w, "decide") => InRuns(batch)
  /\ At(w, "compact") => InRuns(batch) /\ Len(Extended(batch)) >= CompactionRuns
  /\ At(w, "replace") =>
       InRuns(batch) /\ MayCompact(batch) /\ local[w].frames = Extended(batch)
  /\ pc[w] \in {"publish", "publish_memtable", "assign"} => Finished(batch)
  /\ pc[w] \in {"publish_memtable", "assign"} => local[w].seen.runs = runs
  /\ At(w, "assign") => local[w].seen.memtable = memtable

Progress(w) ==
  /\ At(w, "idle") => Same(settled)
  /\ ~At(w, "idle") => \E batch \in Batches : Begun(w, batch) /\ Doing(w, batch)
OneWriterInv(w) == ThreadInv /\ Settled!RefinementInv /\ Progress(w)

LEMMA SettledTypes ==
  ASSUME Settled!RefinementInv
  PROVE  /\ settled.seqno \in Nat /\ settled.memtable \in Seq(FrameType)
         /\ settled.memtable_rows \in Nat /\ settled.runs \in Seq(FrameType)
         /\ \A r \in Readers : held[r] # Idle => Good(RowsOf(held[r].runs \o held[r].memtable))
<1>1. Settled!TypeOK
  BY DEF Settled!RefinementInv, Settled!NumberingInv
<1>2. Settled!FrameType = FrameType
  BY DEF Settled!FrameType, FrameType, Settled!Row, Row, Settled!Ops, Ops
<1>3. \A r \in Readers : held[r] # Idle => Good(RowsOf(held[r].runs \o held[r].memtable))
  BY SettledGood, SettledWords DEF Settled!RefinementInv, Settled!Shown
<1> QED BY <1>1, <1>2, <1>3 DEF Settled!TypeOK

LEMMA SettledFrames ==
  ASSUME Settled!RefinementInv, NEW batch \in Batches
  PROVE  /\ Filled(batch) \in Seq(FrameType) /\ Filled(batch) # <<>>
         /\ Extended(batch) \in Seq(FrameType) /\ Extended(batch) # <<>>
         /\ Len(batch.rows) \in Nat /\ Counted(batch) \in Nat
         /\ Len(Extended(batch)) = Len(settled.runs) + 1
         /\ Good(RowsOf(Extended(batch)))
<1>1. Stamp(batch, settled.seqno) \in FrameType /\ Len(batch.rows) \in Nat
  BY SettledTypes, StampedRows, BatchesAreTyped
<1>2. Filled(batch) \in Seq(FrameType) /\ Filled(batch) # <<>>
  BY <1>1, SettledTypes, AppendIsSequence DEF Filled
<1>3. Concat(Filled(batch)) \in FrameType
  BY <1>2, FramesStayFrames
<1>4. /\ Extended(batch) \in Seq(FrameType) /\ Extended(batch) # <<>>
      /\ Len(Extended(batch)) = Len(settled.runs) + 1
  BY <1>3, SettledTypes, AppendIsSequence DEF Extended
<1>5. Settled!Stored = RowsOf(settled.runs) \cup RowsOf(settled.memtable)
  BY SettledTypes, SettledWords, RowsOfConcatenation DEF Settled!Stored
<1>6. RowsOf(Extended(batch)) = Settled!Stored \cup Stamp(batch, settled.seqno).rows
  <2>1. RowsOf(Filled(batch))
          = RowsOf(settled.memtable) \cup Stamp(batch, settled.seqno).rows
    BY <1>1, SettledTypes, RowsOfAppend DEF Filled
  <2>2. Concat(Filled(batch)).rows = RowsOf(Filled(batch))
    BY <1>2, FramesStayFrames
  <2>3. RowsOf(Extended(batch))
          = RowsOf(settled.runs) \cup Concat(Filled(batch)).rows
    BY <1>3, SettledTypes, RowsOfAppend DEF Extended
  <2> QED BY <1>5, <2>1, <2>2, <2>3
<1>7. Settled!Good(Settled!Stored \cup Settled!Stamp(batch, settled.seqno).rows)
  BY SettledKeepsGood
<1>8. Good(RowsOf(Extended(batch)))
  BY <1>6, <1>7, SettledGood, SettledWords
<1> QED BY <1>1, <1>2, <1>4, <1>8, SettledTypes DEF Counted

(* While no ingest ends, the state it began in is remembered.              *)
LEMMA StartStays ==
  ASSUME UNCHANGED settled, NEW batch
  PROVE  /\ Stamp(batch, settled.seqno)' = Stamp(batch, settled.seqno)
         /\ Filled(batch)' = Filled(batch) /\ Extended(batch)' = Extended(batch)
         /\ Counted(batch)' = Counted(batch)
         /\ MayFlush(batch)' <=> MayFlush(batch)
         /\ MayCompact(batch)' <=> MayCompact(batch)
BY DEF Filled, Extended, Counted, MayFlush, MayCompact, Stamp, Concat, RowsOf, SameSchema

LEMMA SettledStays ==
  ASSUME ThreadInv, NEW w \in Writers, Writers = {w}, NEW to \in Points \ {"idle"},
         Goto(w, to)
  PROVE  settled' = settled /\ pc'[w] = to /\ UNCHANGED <<held, reply>>
BY DEF ThreadInv, Goto, readers

LEMMA FrameIsCounted ==
  ASSUME NEW w \in Writers, OneWriterInv(w), NEW batch \in Batches, Begun(w, batch)
  PROVE  Rows(w) = Len(batch.rows)
BY SettledTypes, StampCount DEF OneWriterInv, Begun, Rows

LEMMA IngestBegins ==
  ASSUME NEW w \in Writers, Writers = {w}, OneWriterInv(w),
         NEW batch \in Batches, StampRows(w, batch)
  PROVE  Progress(w)' /\ settled' = settled /\ UNCHANGED <<snapshot, held, reply>>
<1>1. settled' = settled /\ pc'[w] = "append" /\ UNCHANGED <<held, reply>>
  BY SettledStays DEF StampRows, OneWriterInv, Points
<1>2. Same(settled) /\ UNCHANGED private
  BY DEF StampRows, OneWriterInv, Progress
<1>3. local'[w].frame = Stamp(batch, seqno)
  <2>1. local'[w] = [NoLocals EXCEPT !.frame = Stamp(batch, seqno)]
    BY OwnLocals DEF StampRows, OneWriterInv
  <2> QED BY <2>1 DEF NoLocals
<1>4. Begun(w, batch)'
  BY <1>1, <1>2, <1>3, StartStays DEF StampRows, Room, Begun, Same
<1>5. Doing(w, batch)'
  BY <1>1, <1>2 DEF Doing, Same, private, At
<1> QED BY <1>1, <1>4, <1>5 DEF Progress, StampRows, At

LEMMA InMemtableStays ==
  ASSUME UNCHANGED <<settled, private>>, NEW batch
  PROVE  /\ \A count : InMemtable(batch, count) => InMemtable(batch, count)'
         /\ InRuns(batch) => InRuns(batch)'
         /\ Finished(batch) => Finished(batch)'
<1>1. UNCHANGED <<seqno, memtable, memtable_rows, runs>>
  BY DEF private
<1>2. MergeFrame(Extended(batch))' = MergeFrame(Extended(batch))
  BY StartStays DEF MergeFrame, Winners, RowsOf
<1> QED BY <1>1, <1>2, StartStays DEF InMemtable, InRuns, Finished, Numbered

(* Every step of the ingest but the last takes it further.                 *)
LEMMA IngestContinues ==
  ASSUME NEW w \in Writers, Writers = {w}, OneWriterInv(w), IngestGoesOn(w)
  PROVE  Progress(w)' /\ settled' = settled /\ UNCHANGED <<snapshot, held, reply>>
<1>1. /\ local'[w].frame = local[w].frame /\ pc'[w] \in Points \ {"idle", "append"}
      /\ UNCHANGED <<snapshot, accepted>>
      /\ local[w] \in LocalType /\ runs \in Seq(FrameType) /\ memtable \in Seq(FrameType)
  BY GoesOn DEF OneWriterInv, ThreadInv, TypeOK
<1>2. ~At(w, "idle")
  BY WhereItWas DEF OneWriterInv
<1>3. PICK batch \in Batches : Begun(w, batch) /\ Doing(w, batch)
  BY <1>2 DEF OneWriterInv, Progress
<1>4. /\ Rows(w) = Len(batch.rows) /\ Len(batch.rows) \in Nat /\ Counted(batch) \in Nat
      /\ Filled(batch) # <<>> /\ Len(Extended(batch)) \in Nat
      /\ FlushRows \in Nat /\ CompactionRuns \in Nat
  BY <1>3, FrameIsCounted, SettledFrames, ThresholdsAreNaturals DEF OneWriterInv
<1>5. ASSUME settled' = settled, UNCHANGED <<held, reply>>, Doing(w, batch)'
      PROVE  Progress(w)' /\ settled' = settled /\ UNCHANGED <<snapshot, held, reply>>
  <2>1. Begun(w, batch)'
    BY <1>1, <1>3, <1>5, StartStays DEF Begun
  <2> QED BY <1>1, <1>5, <2>1 DEF Progress, At
<1>6. ASSUME NEW to \in Points \ {"idle"}, Goto(w, to)
      PROVE  settled' = settled /\ pc'[w] = to /\ UNCHANGED <<held, reply>>
  BY <1>6, SettledStays DEF OneWriterInv
<1>7. CASE AppendFrame(w)
  <2>1. settled' = settled /\ pc'[w] = "count" /\ UNCHANGED <<held, reply>>
    BY <1>7 DEF AppendFrame, OneWriterInv, ThreadInv, readers
  <2>2. Same(settled) /\ local[w].frame = Stamp(batch, settled.seqno)
    BY <1>3, <1>7 DEF Doing, Begun, AppendFrame
  <2>3. InMemtable(batch, settled.memtable_rows)'
    BY <1>4, <1>7, <2>1, <2>2, StartStays
       DEF AppendFrame, InMemtable, Numbered, Filled, Same
  <2>4. Doing(w, batch)'
    BY <2>1, <2>3 DEF Doing, At
  <2> QED BY <1>5, <2>1, <2>4
<1>8. CASE CountRows(w)
  <2>1. PICK to \in {"flush", "publish"} :
          Goto(w, to) /\ (to = "flush" <=> memtable_rows' >= FlushRows)
    <3>1. memtable_rows' = memtable_rows + Rows(w) /\ memtable_rows \in Nat
      BY <1>8 DEF CountRows, OneWriterInv, ThreadInv, TypeOK
    <3>2. memtable_rows' >= FlushRows <=> ~(memtable_rows' < FlushRows)
      BY <1>4, <3>1
    <3> QED BY <1>8, <3>2 DEF CountRows
  <2>2. settled' = settled /\ pc'[w] = to /\ UNCHANGED <<held, reply>>
    BY <1>6, <2>1 DEF Points
  <2>3. InMemtable(batch, settled.memtable_rows)
    BY <1>3, <1>8 DEF Doing, CountRows
  <2>4. InMemtable(batch, Counted(batch))'
    BY <1>4, <1>8, <2>2, <2>3, StartStays DEF CountRows, InMemtable, Numbered, Counted
  <2>5. memtable_rows' = Counted(batch)
    BY <2>2, <2>4, StartStays DEF InMemtable
  <2>6. CASE to = "flush"
    <3>1. pc'[w] = "flush" /\ Counted(batch)' >= FlushRows
      BY <2>1, <2>2, <2>5, <2>6, StartStays
    <3>2. Doing(w, batch)'
      BY <2>4, <3>1 DEF Doing, At
    <3> QED BY <1>5, <2>2, <3>2
  <2>7. CASE to = "publish"
    <3>1. Counted(batch) < FlushRows
      BY <1>4, <2>1, <2>5, <2>7
    <3>2. pc'[w] = "publish" /\ Finished(batch)'
      BY <2>2, <2>4, <2>7, <3>1, StartStays DEF Finished
    <3>3. Doing(w, batch)'
      BY <3>2 DEF Doing, At
    <3> QED BY <1>5, <2>2, <3>3
  <2> QED BY <2>1, <2>6, <2>7
<1>9. CASE FlushSkips(w)
  BY <1>3, <1>4, <1>9 DEF FlushSkips, Doing, InMemtable
<1>10. CASE FlushConcats(w)
  <2> DEFINE locals == [local[w] EXCEPT !.frames = memtable, !.current = TRUE]
  <2>1. settled' = settled /\ pc'[w] = "extend" /\ UNCHANGED <<held, reply>>
    BY <1>6, <1>10 DEF FlushConcats, Points
  <2>2. UNCHANGED private /\ SameSchema(memtable) /\ local'[w] = locals
    BY <1>10, OwnLocals DEF FlushConcats, OneWriterInv
  <2>3. local'[w].frames = memtable /\ local'[w].current
    BY <1>1, <2>2 DEF LocalType
  <2>4. InMemtable(batch, Counted(batch)) /\ Counted(batch) >= FlushRows
    BY <1>3, <1>10 DEF Doing, FlushConcats
  <2>5. MayFlush(batch) /\ memtable = Filled(batch)
    BY <2>2, <2>4 DEF MayFlush, InMemtable
  <2>6. Doing(w, batch)'
    BY <2>1, <2>2, <2>3, <2>4, <2>5, StartStays, InMemtableStays DEF Doing, At
  <2> QED BY <1>5, <2>1, <2>6
<1>11. CASE FlushExtends(w)
  <2>1. settled' = settled /\ pc'[w] = "reset" /\ UNCHANGED <<held, reply>>
    BY <1>6, <1>11 DEF FlushExtends, Points
  <2>2. /\ InMemtable(batch, Counted(batch)) /\ MayFlush(batch)
        /\ local[w].frames = Filled(batch) /\ local[w].current
    BY <1>3, <1>11 DEF Doing, FlushExtends
  <2>3. runs' = Extended(batch) /\ seqno' = seqno
    BY <1>11, <2>2 DEF FlushExtends, InMemtable, Extended
  <2>4. Numbered(batch)' /\ runs' = Extended(batch)'
    BY <2>1, <2>2, <2>3, StartStays DEF InMemtable, Numbered
  <2>5. Doing(w, batch)'
    BY <2>1, <2>2, <2>4, StartStays DEF Doing, At
  <2> QED BY <1>5, <2>1, <2>5
<1>12. CASE FlushResets(w)
  <2>1. settled' = settled /\ pc'[w] = "decide" /\ UNCHANGED <<held, reply>>
    BY <1>6, <1>12 DEF FlushResets, Points
  <2>2. Numbered(batch) /\ MayFlush(batch) /\ runs = Extended(batch)
    BY <1>3, <1>12 DEF Doing, FlushResets
  <2>3. InRuns(batch)'
    BY <1>12, <2>1, <2>2, StartStays DEF FlushResets, InRuns, Numbered
  <2>4. Doing(w, batch)'
    BY <2>1, <2>3 DEF Doing, At
  <2> QED BY <1>5, <2>1, <2>4
<1>13. CASE Decide(w)
  <2>1. PICK to \in {"compact", "publish"} :
          Goto(w, to) /\ (to = "compact" <=> Len(runs) >= CompactionRuns)
    <3>1. Len(runs) >= CompactionRuns <=> ~(Len(runs) < CompactionRuns)
      BY <1>1, <1>4
    <3> QED BY <1>13, <3>1 DEF Decide
  <2>2. settled' = settled /\ pc'[w] = to /\ UNCHANGED <<held, reply>> /\ UNCHANGED private
    BY <1>6, <1>13, <2>1 DEF Points, Decide
  <2>3. InRuns(batch) /\ runs = Extended(batch)
    BY <1>3, <1>13 DEF Doing, Decide, InRuns
  <2>4. CASE to = "compact"
    <3>1. pc'[w] = "compact" /\ InRuns(batch)' /\ Len(Extended(batch)') >= CompactionRuns
      BY <2>1, <2>2, <2>3, <2>4, StartStays, InMemtableStays
    <3>2. Doing(w, batch)'
      BY <3>1 DEF Doing, At
    <3> QED BY <1>5, <2>2, <3>2
  <2>5. CASE to = "publish"
    <3>1. Len(Extended(batch)) < CompactionRuns
      BY <1>1, <1>4, <2>1, <2>3, <2>5
    <3>2. Finished(batch)
      BY <2>3, <3>1 DEF Finished
    <3>3. pc'[w] = "publish" /\ Finished(batch)'
      BY <2>2, <2>5, <3>2, InMemtableStays
    <3>4. Doing(w, batch)'
      BY <3>3 DEF Doing, At
    <3> QED BY <1>5, <2>2, <3>4
  <2> QED BY <2>1, <2>4, <2>5
<1>14. CASE CompactReads(w)
  <2> DEFINE locals == [local[w] EXCEPT !.frames = runs]
  <2>1. settled' = settled /\ pc'[w] = "replace" /\ UNCHANGED <<held, reply>>
    BY <1>6, <1>14 DEF CompactReads, Points
  <2>2. UNCHANGED private /\ SameSchema(runs) /\ local'[w] = locals
    BY <1>14, OwnLocals DEF CompactReads, OneWriterInv
  <2>3. local'[w].frames = runs
    BY <1>1, <2>2 DEF LocalType
  <2>4. InRuns(batch) /\ Len(Extended(batch)) >= CompactionRuns
    BY <1>3, <1>14 DEF Doing, CompactReads
  <2>5. MayCompact(batch) /\ runs = Extended(batch)
    BY <2>2, <2>4 DEF MayCompact, InRuns
  <2>6. Doing(w, batch)'
    BY <2>1, <2>2, <2>3, <2>4, <2>5, StartStays, InMemtableStays DEF Doing, At
  <2> QED BY <1>5, <2>1, <2>6
<1>15. CASE CompactReplaces(w)
  <2>1. settled' = settled /\ pc'[w] = "publish" /\ UNCHANGED <<held, reply>>
    BY <1>6, <1>15 DEF CompactReplaces, Points
  <2>2. InRuns(batch) /\ MayCompact(batch) /\ local[w].frames = Extended(batch)
    BY <1>3, <1>15 DEF Doing, CompactReplaces
  <2>3. PICK chosen \in RankOne(RowsOf(Extended(batch))) :
          runs' = <<[schema |-> Extended(batch)[1].schema, rows |-> chosen]>>
    BY <1>15, <2>2 DEF CompactReplaces
  <2>4. chosen = Winners(RowsOf(Extended(batch)))
    BY <2>3, SettledFrames, RankIsWinners DEF OneWriterInv
  <2>5. runs' = <<MergeFrame(Extended(batch))>>
    BY <2>3, <2>4 DEF MergeFrame
  <2>6. MergeFrame(Extended(batch))' = MergeFrame(Extended(batch))
    BY <2>1, StartStays DEF MergeFrame, Winners, RowsOf
  <2>7. UNCHANGED <<seqno, memtable, memtable_rows>>
    BY <1>15 DEF CompactReplaces
  <2>8. Finished(batch)'
    BY <2>1, <2>2, <2>5, <2>6, <2>7, StartStays DEF Finished, InRuns, Numbered
  <2>9. Doing(w, batch)'
    BY <2>1, <2>8 DEF Doing, At
  <2> QED BY <1>5, <2>1, <2>9
<1>16. CASE PublishReadsRuns(w)
  <2>1. settled' = settled /\ pc'[w] = "publish_memtable" /\ UNCHANGED <<held, reply>>
    BY <1>6, <1>16 DEF PublishReadsRuns, Points
  <2>2. UNCHANGED private /\ local'[w] = [local[w] EXCEPT !.seen.runs = runs]
    BY <1>16, OwnLocals DEF PublishReadsRuns, OneWriterInv
  <2>3. local'[w].seen.runs = runs'
    BY <1>1, <2>2 DEF LocalType, SnapshotType, private
  <2>4. Finished(batch)
    BY <1>3, <1>16 DEF Doing, PublishReadsRuns, At
  <2>5. Doing(w, batch)'
    BY <2>1, <2>2, <2>3, <2>4, InMemtableStays DEF Doing, At
  <2> QED BY <1>5, <2>1, <2>5
<1>17. CASE PublishReadsMemtable(w)
  <2>1. settled' = settled /\ pc'[w] = "assign" /\ UNCHANGED <<held, reply>>
    BY <1>6, <1>17 DEF PublishReadsMemtable, Points
  <2>2. UNCHANGED private /\ local'[w] = [local[w] EXCEPT !.seen.memtable = memtable]
    BY <1>17, OwnLocals DEF PublishReadsMemtable, OneWriterInv
  <2>3. local'[w].seen.memtable = memtable' /\ local'[w].seen.runs = local[w].seen.runs
    BY <1>1, <2>2 DEF LocalType, SnapshotType, private
  <2>4. Finished(batch) /\ local[w].seen.runs = runs
    BY <1>3, <1>17 DEF Doing, PublishReadsMemtable, At
  <2>5. Doing(w, batch)'
    BY <2>1, <2>2, <2>3, <2>4, InMemtableStays DEF Doing, At, private
  <2> QED BY <1>5, <2>1, <2>5
<1> QED BY <1>7, <1>8, <1>9, <1>10, <1>11, <1>12, <1>13, <1>14, <1>15, <1>16, <1>17
        DEF IngestGoesOn

(* The last step of an ingest is the whole ingest of LSMStore.             *)
LEMMA IngestEnds ==
  ASSUME NEW w \in Writers, Writers = {w}, OneWriterInv(w),
         IngestReturns(w) \/ IngestRaises(w)
  PROVE  /\ Progress(w)'
         /\ \E batch \in Batches :
              Settled!Ingest(batch) /\ local[w].frame = Stamp(batch, settled.seqno)
         /\ IngestReturns(w) => Settled!Publish
<1>1. /\ local[w] \in LocalType /\ runs \in Seq(FrameType) /\ memtable \in Seq(FrameType)
      /\ pc \in [Writers -> Points]
  BY DEF OneWriterInv, ThreadInv, TypeOK
<1>2. ~At(w, "idle")
  BY WhereItWas DEF OneWriterInv
<1>3. PICK batch \in Batches : Begun(w, batch) /\ Doing(w, batch)
  BY <1>2 DEF OneWriterInv, Progress
<1>4. /\ Len(batch.rows) \in Nat /\ Counted(batch) \in Nat
      /\ Len(Extended(batch)) = Len(settled.runs) + 1 /\ Len(settled.runs) \in Nat
      /\ FlushRows \in Nat /\ CompactionRuns \in Nat
  BY SettledTypes, SettledFrames, ThresholdsAreNaturals DEF OneWriterInv
<1>5. UNCHANGED private /\ Goto(w, "idle")
  BY DEF IngestReturns, IngestRaises, PublishAssigns, FlushRaises, CompactRaises
<1>6. pc'[w] = "idle" /\ UNCHANGED <<held, reply>>
  BY <1>1, <1>5 DEF Goto, readers
<1>7. settled' = [seqno |-> seqno, memtable |-> memtable,
                  memtable_rows |-> memtable_rows, runs |-> runs]
  BY <1>5, <1>6 DEF Goto, private
<1>8. /\ settled'.seqno = seqno /\ settled'.memtable = memtable
      /\ settled'.memtable_rows = memtable_rows /\ settled'.runs = runs
  BY <1>7
<1>9. Progress(w)'
  BY <1>5, <1>6, <1>8 DEF Progress, Same, At, private
<1>10. Settled!Buffered(batch) = Filled(batch) /\ Settled!Flushed(batch) = Extended(batch)
  BY SettledWords DEF Settled!Buffered, Settled!Flushed, Filled, Extended
<1>11. Numbered(batch) => Settled!Number(batch)
  BY <1>3, <1>8 DEF Settled!Number, Settled!Room, Begun, Numbered
<1>12. /\ Settled!ReachesFlush(batch) <=> Counted(batch) >= FlushRows
       /\ Settled!ReachesCompaction(batch) <=> Len(Extended(batch)) >= CompactionRuns
  BY <1>4 DEF Settled!ReachesFlush, Settled!ReachesCompaction, Counted
<1>13. ASSUME PublishAssigns(w) PROVE Settled!Publish
  <2>1. local[w].seen.runs = runs /\ local[w].seen.memtable = memtable
    BY <1>3, <1>13 DEF Doing, PublishAssigns, At
  <2>2. local[w].seen \in SnapshotType
    BY <1>1 DEF LocalType
  <2>3. local[w].seen = [runs |-> runs, memtable |-> memtable]
    BY <2>1, <2>2 DEF SnapshotType
  <2> QED BY <1>8, <1>13, <2>3 DEF Settled!Publish, PublishAssigns
<1>14. SUFFICES Settled!Ingest(batch)
  BY <1>3, <1>9, <1>13 DEF Begun, IngestReturns
<1>15. CASE PublishAssigns(w)
  <2>1. Finished(batch)
    BY <1>3, <1>15 DEF Doing, PublishAssigns, At
  <2>2. Settled!Publish
    BY <1>15, <1>13
  <2>3. CASE InMemtable(batch, Counted(batch)) /\ Counted(batch) < FlushRows
    <3>1. Settled!Number(batch) /\ ~Settled!ReachesFlush(batch)
      BY <1>4, <1>11, <1>12, <2>3 DEF InMemtable
    <3>2. Settled!IngestBuffers(batch)
      BY <1>6, <1>8, <1>10, <2>2, <2>3, <3>1
         DEF Settled!IngestBuffers, Settled!readers, InMemtable, Counted
    <3> QED BY <3>2 DEF Settled!Ingest
  <2>4. CASE InRuns(batch) /\ Len(Extended(batch)) < CompactionRuns
    <3>1. Settled!Flush(batch)
      BY <1>8, <1>10, <1>11, <1>12, <2>4, SettledWords DEF Settled!Flush, InRuns, MayFlush
    <3>2. ~Settled!ReachesCompaction(batch)
      BY <1>4, <1>12, <2>4
    <3>3. Settled!IngestFlushes(batch)
      BY <1>6, <1>8, <1>10, <2>2, <2>4, <3>1, <3>2
         DEF Settled!IngestFlushes, Settled!readers, InRuns
    <3> QED BY <3>3 DEF Settled!Ingest
  <2>5. CASE /\ Numbered(batch) /\ MayFlush(batch) /\ MayCompact(batch)
             /\ memtable = <<>> /\ memtable_rows = 0
             /\ runs = <<MergeFrame(Extended(batch))>>
    <3>1. Settled!Flush(batch)
      BY <1>8, <1>10, <1>11, <1>12, <2>5, SettledWords DEF Settled!Flush, MayFlush
    <3>2. Settled!ReachesCompaction(batch) /\ Settled!SameSchema(Extended(batch))
      BY <1>12, <2>5, SettledWords DEF MayCompact
    <3>3. Settled!MergeFrame(Extended(batch)) = MergeFrame(Extended(batch))
      BY SettledWords
    <3>4. Settled!IngestCompacts(batch)
      BY <1>6, <1>8, <1>10, <2>2, <2>5, <3>1, <3>2, <3>3
         DEF Settled!IngestCompacts, Settled!readers
    <3> QED BY <3>4 DEF Settled!Ingest
  <2> QED BY <2>1, <2>3, <2>4, <2>5 DEF Finished
<1>16. CASE FlushRaises(w)
  <2>1. InMemtable(batch, Counted(batch)) /\ Counted(batch) >= FlushRows
    BY <1>3, <1>16 DEF Doing, FlushRaises
  <2>2. ~SameSchema(Filled(batch)) /\ UNCHANGED snapshot
    BY <1>16, <2>1 DEF FlushRaises, InMemtable
  <2>3. Settled!Number(batch) /\ Settled!ReachesFlush(batch)
    BY <1>11, <1>12, <2>1 DEF InMemtable
  <2>4. ~Settled!SameSchema(Filled(batch))
    BY <2>2, SettledWords
  <2>5. Settled!IngestFlushFails(batch)
    BY <1>6, <1>8, <1>10, <2>1, <2>2, <2>3, <2>4
       DEF Settled!IngestFlushFails, Settled!readers, InMemtable, Counted
  <2> QED BY <2>5 DEF Settled!Ingest
<1>17. CASE CompactRaises(w)
  <2>1. InRuns(batch) /\ Len(Extended(batch)) >= CompactionRuns
    BY <1>3, <1>17 DEF Doing, CompactRaises
  <2>2. ~SameSchema(Extended(batch)) /\ UNCHANGED snapshot
    BY <1>17, <2>1 DEF CompactRaises, InRuns
  <2>3. Settled!Flush(batch)
    BY <1>8, <1>10, <1>11, <1>12, <2>1, SettledWords DEF Settled!Flush, InRuns, MayFlush
  <2>4. Settled!ReachesCompaction(batch) /\ ~Settled!SameSchema(Extended(batch))
    BY <1>12, <2>1, <2>2, SettledWords
  <2>5. Settled!IngestCompactFails(batch)
    BY <1>6, <1>8, <1>10, <2>1, <2>2, <2>3, <2>4
       DEF Settled!IngestCompactFails, Settled!readers, InRuns
  <2> QED BY <2>5 DEF Settled!Ingest
<1> QED BY <1>15, <1>16, <1>17 DEF IngestReturns, IngestRaises

(* What ranks first in a snapshot is all a query needs.                    *)
LEMMA RankedAnswer ==
  ASSUME NEW frames, SameSchema(frames), Good(RowsOf(frames)), NEW limit,
         NEW chosen \in RankOne(RowsOf(frames))
  PROVE  MergeToRows(<<[schema |-> Idle, rows |-> chosen]>>, limit)
           = MergeToRows(frames, limit)
<1> DEFINE ranked == <<[schema |-> Idle, rows |-> chosen]>>
<1>1. chosen = Winners(RowsOf(frames))
  BY RankIsWinners
<1>2. RowsOf(ranked) = chosen
  BY DEF RowsOf
<1>3. Live(ranked) = Live(frames)
  BY <1>1, <1>2, WinnersWin DEF Live
<1>4. SameSchema(ranked)
  BY DEF SameSchema
<1> DEFINE answer(live) ==
             [total |-> Cardinality(live),
              rows |-> {[id |-> q.id, val |-> q.val] :
                         q \in {q \in live :
                           \/ limit = 0
                           \/ Cardinality({s \in live : s.id < q.id}) < limit}}]
<1>5. MergeToRows(ranked, limit) = answer(Live(ranked))
  BY <1>4 DEF MergeToRows
<1>6. MergeToRows(frames, limit) = answer(Live(frames))
  BY DEF MergeToRows
<1> HIDE DEF answer
<1> QED BY <1>3, <1>5, <1>6

LEMMA QueriesAreQueries ==
  ASSUME NEW w \in Writers, OneWriterInv(w), NEW r \in Readers, ReaderStep(r)
  PROVE  Settled!Next
<1>1. CASE ThreadQueryReads(r)
  <2>1. Settled!QueryReads(r)
    BY <1>1 DEF ThreadQueryReads, QueryReads, Settled!QueryReads, store, Settled!store, history
  <2> QED BY <2>1 DEF Settled!Next
<1>2. ASSUME NEW limit \in Limits, ThreadQueryMerges(r, limit) PROVE Settled!Next
  <2> DEFINE frames == held[r].runs \o held[r].memtable
  <2>1. Good(RowsOf(frames))
    BY <1>2, SettledTypes DEF OneWriterInv, ThreadQueryMerges
  <2>2. reply' = [reply EXCEPT ![r] = MergeToRows(frames, limit)]
    <3>1. CASE SameSchema(frames)
      <4>1. PICK chosen \in RankOne(RowsOf(frames)) :
              reply' = [reply EXCEPT ![r] =
                MergeToRows(<<[schema |-> Idle, rows |-> chosen]>>, limit)]
        BY <1>2, <3>1 DEF ThreadQueryMerges
      <4> QED BY <2>1, <3>1, <4>1, RankedAnswer
    <3>2. CASE ~SameSchema(frames)
      BY <1>2, <3>2 DEF ThreadQueryMerges, MergeToRows
    <3> QED BY <3>1, <3>2
  <2>3. Settled!QueryMerges(r, limit)
    BY <1>2, <2>2, SettledMerges
       DEF ThreadQueryMerges, Settled!QueryMerges, store, Settled!store, history
  <2> QED BY <2>3 DEF Settled!Next
<1> QED BY <1>1, <1>2 DEF ReaderStep

LEMMA ProgressStays ==
  ASSUME NEW w \in Writers, Progress(w), UNCHANGED <<private, pc, local, settled>>
  PROVE  Progress(w)'
<1>1. /\ UNCHANGED <<seqno, memtable, memtable_rows, runs>>
      /\ pc'[w] = pc[w] /\ local'[w] = local[w]
  BY DEF private
<1>2. CASE At(w, "idle")
  BY <1>1, <1>2 DEF Progress, Same, At
<1>3. CASE ~At(w, "idle")
  <2>1. PICK batch \in Batches : Begun(w, batch) /\ Doing(w, batch)
    BY <1>3 DEF Progress
  <2>2. Begun(w, batch)'
    BY <1>1, <2>1, StartStays DEF Begun
  <2>3. /\ InMemtable(batch, settled.memtable_rows) => InMemtable(batch, settled.memtable_rows)'
        /\ InMemtable(batch, Counted(batch)) => InMemtable(batch, Counted(batch))'
        /\ InRuns(batch) => InRuns(batch)'
        /\ Finished(batch) => Finished(batch)'
        /\ Numbered(batch) => Numbered(batch)'
    BY <1>1, InMemtableStays, StartStays DEF InMemtable, Numbered
  <2>4. Doing(w, batch)'
    BY <1>1, <2>1, <2>3, StartStays DEF Doing, At, Same
  <2> QED BY <1>1, <1>3, <2>2, <2>4 DEF Progress, At
<1> QED BY <1>2, <1>3

LEMMA InitOneWriter ==
  ASSUME NEW w \in Writers, HttpInit
  PROVE  Settled!Init /\ OneWriterInv(w)
<1>1. ThreadInv
  BY InitThreads DEF HttpInit
<1>2. Settled!Init
  BY DEF HttpInit, ThreadInit, Init, Settled!Init
<1>3. Progress(w)
  BY DEF HttpInit, ThreadInit, Init, Progress, Same, At
<1> QED BY <1>1, <1>2, <1>3, SettledInv DEF OneWriterInv

(* A step of the writer is an ingest of LSMStore or nothing.               *)
LEMMA NextOneWriter ==
  ASSUME NEW w \in Writers, Writers = {w}, OneWriterInv(w), HttpInv,
         [HttpNext]_httpVars
  PROVE  OneWriterInv(w)' /\ [Settled!Next]_(Settled!vars)
<1>1. ThreadInv'
  BY NextHttp DEF HttpInv
<1>2. Progress(w)' /\ [Settled!Next]_(Settled!vars)
  <2>1. CASE (\E batch \in Batches : StampRows(w, batch)) \/ IngestGoesOn(w)
    <3>1. Progress(w)' /\ settled' = settled /\ UNCHANGED <<snapshot, held, reply>>
      BY <2>1, IngestBegins, IngestContinues
    <3> QED BY <3>1 DEF Settled!vars, Settled!store, Settled!readers
  <2>2. CASE IngestReturns(w) \/ IngestRaises(w)
    BY <2>2, IngestEnds DEF Settled!Next
  <2>3. ASSUME NEW r \in Readers, ReaderStep(r) PROVE Progress(w)' /\ Settled!Next
    <3>1. UNCHANGED <<private, pc, local, settled>>
      BY <2>3 DEF ReaderStep, ThreadQueryReads, ThreadQueryMerges, QueryReads, store,
                  private, history
    <3> QED BY <2>3, <3>1, ProgressStays, QueriesAreQueries DEF OneWriterInv
  <2>4. CASE UNCHANGED threadVars
    <3>1. UNCHANGED <<private, pc, local, settled, snapshot, held, reply>>
      BY <2>4 DEF threadVars, vars, store, readers, private, history
    <3>2. UNCHANGED Settled!vars
      BY <3>1 DEF Settled!vars, Settled!store, Settled!readers
    <3> QED BY <3>1, <3>2, ProgressStays DEF OneWriterInv
  <2>5. \A v \in Writers : v = w
    OBVIOUS
  <2> QED BY <2>1, <2>2, <2>3, <2>4, <2>5, Steps DEF WriterStep
<1>3. Settled!RefinementInv'
  BY <1>2, SettledInv DEF OneWriterInv
<1> QED BY <1>1, <1>2, <1>3 DEF OneWriterInv

(* The two instances of LSMStore are one.                                  *)
LEMMA AtomicWords ==
  /\ \A batch, first : AtomicStore!Stamp(batch, first) = Settled!Stamp(batch, first)
  /\ \A frames : /\ AtomicStore!RowsOf(frames) = Settled!RowsOf(frames)
                 /\ AtomicStore!Concat(frames) = Settled!Concat(frames)
                 /\ AtomicStore!SameSchema(frames) <=> Settled!SameSchema(frames)
                 /\ AtomicStore!MergeFrame(frames) = Settled!MergeFrame(frames)
BY DEF AtomicStore!Stamp, Settled!Stamp, AtomicStore!RowsOf, Settled!RowsOf,
       AtomicStore!Concat, Settled!Concat, AtomicStore!SameSchema, Settled!SameSchema,
       AtomicStore!MergeFrame, Settled!MergeFrame, AtomicStore!Winners, Settled!Winners

LEMMA AtomicMerges ==
  \A frames, limit :
    AtomicStore!MergeToRows(frames, limit) = Settled!MergeToRows(frames, limit)
BY DEF AtomicStore!MergeToRows, Settled!MergeToRows, AtomicStore!Live, Settled!Live,
       AtomicStore!SameSchema, Settled!SameSchema, AtomicStore!RowsOf, Settled!RowsOf,
       AtomicStore!Winners, Settled!Winners, AtomicStore!Cardinality,
       Settled!Cardinality, AtomicStore!IsFiniteSet, Settled!IsFiniteSet

LEMMA AtomicIngests ==
  ASSUME NEW batch, Settled!Ingest(batch)
  PROVE  AtomicStore!Ingest(batch)
<1>1. /\ AtomicStore!Buffered(batch) = Settled!Buffered(batch)
      /\ AtomicStore!Flushed(batch) = Settled!Flushed(batch)
  BY AtomicWords DEF AtomicStore!Buffered, Settled!Buffered, AtomicStore!Flushed,
                     Settled!Flushed
<1>2. /\ AtomicStore!Number(batch) <=> Settled!Number(batch)
      /\ AtomicStore!ReachesFlush(batch) <=> Settled!ReachesFlush(batch)
      /\ AtomicStore!ReachesCompaction(batch) <=> Settled!ReachesCompaction(batch)
      /\ AtomicStore!Publish <=> Settled!Publish
  BY DEF AtomicStore!Number, Settled!Number, AtomicStore!Room, Settled!Room,
         AtomicStore!ReachesFlush, Settled!ReachesFlush, AtomicStore!Publish,
         AtomicStore!ReachesCompaction, Settled!ReachesCompaction, Settled!Publish
<1>3. AtomicStore!Flush(batch) <=> Settled!Flush(batch)
  BY <1>1, <1>2, AtomicWords DEF AtomicStore!Flush, Settled!Flush
<1>4. UNCHANGED Settled!readers <=> UNCHANGED AtomicStore!readers
  BY DEF Settled!readers, AtomicStore!readers
<1>5. Settled!IngestBuffers(batch) => AtomicStore!IngestBuffers(batch)
  BY <1>1, <1>2, <1>4 DEF Settled!IngestBuffers, AtomicStore!IngestBuffers
<1>6. Settled!IngestFlushFails(batch) => AtomicStore!IngestFlushFails(batch)
  BY <1>1, <1>2, <1>4, AtomicWords
     DEF Settled!IngestFlushFails, AtomicStore!IngestFlushFails
<1>7. Settled!IngestFlushes(batch) => AtomicStore!IngestFlushes(batch)
  BY <1>1, <1>2, <1>3, <1>4 DEF Settled!IngestFlushes, AtomicStore!IngestFlushes
<1>8. Settled!IngestCompactFails(batch) => AtomicStore!IngestCompactFails(batch)
  BY <1>1, <1>2, <1>3, <1>4, AtomicWords
     DEF Settled!IngestCompactFails, AtomicStore!IngestCompactFails
<1>9. Settled!IngestCompacts(batch) => AtomicStore!IngestCompacts(batch)
  BY <1>1, <1>2, <1>3, <1>4, AtomicWords
     DEF Settled!IngestCompacts, AtomicStore!IngestCompacts
<1> QED BY <1>5, <1>6, <1>7, <1>8, <1>9 DEF Settled!Ingest, AtomicStore!Ingest

LEMMA AtomicNext ==
  /\ Settled!Init => AtomicStore!Init
  /\ [Settled!Next]_(Settled!vars) => [AtomicStore!Next]_(AtomicStore!vars)
<1>1. Settled!Init => AtomicStore!Init
  BY DEF Settled!Init, AtomicStore!Init
<1>2. UNCHANGED Settled!vars => UNCHANGED AtomicStore!vars
  BY DEF Settled!vars, Settled!store, Settled!readers, AtomicStore!vars,
         AtomicStore!store, AtomicStore!readers
<1>3. \A r : Settled!QueryReads(r) => AtomicStore!QueryReads(r)
  BY DEF Settled!QueryReads, AtomicStore!QueryReads, Settled!store, AtomicStore!store
<1>4. \A r, limit : Settled!QueryMerges(r, limit) => AtomicStore!QueryMerges(r, limit)
  BY AtomicMerges
     DEF Settled!QueryMerges, AtomicStore!QueryMerges, Settled!store, AtomicStore!store
<1>5. Settled!Next => AtomicStore!Next
  BY <1>3, <1>4, AtomicIngests DEF Settled!Next, AtomicStore!Next
<1> QED BY <1>1, <1>2, <1>5

(* With one writer - the ingest thread, or one client at a time - no one   *)
(* can tell ingest() from a single step: every behaviour of the            *)
(* interpreter's steps is one of LSMStore, in which the whole ingest       *)
(* happens when the snapshot is assigned, or, when a flush or a compaction *)
(* raises, without a new snapshot.                                         *)
THEOREM IngestIsAtomic ==
  ASSUME NEW CONSTANT w, Writers = {w}
  PROVE  HttpSpec => ImplementsLSMStore
<1>1. w \in Writers
  OBVIOUS
<1>2. HttpInit => HttpInv /\ OneWriterInv(w) /\ AtomicStore!Init
  BY <1>1, InitHttp, InitOneWriter, AtomicNext
<1>3. HttpInv /\ OneWriterInv(w) /\ [HttpNext]_httpVars
        => /\ HttpInv' /\ OneWriterInv(w)'
           /\ [AtomicStore!Next]_(AtomicStore!vars)
  BY <1>1, NextHttp, NextOneWriter, AtomicNext
<1> QED BY <1>2, <1>3, PTL DEF HttpSpec, ImplementsLSMStore, AtomicStore!Spec

(* Down to the steps of the interpreter, then, and up to the requests, the *)
(* store of one writer is the table in which the newest write of a key     *)
(* wins: queries that run on other threads while ingest() is halfway       *)
(* through a flush, a compaction or a publication answer from one version  *)
(* of that table.                                                          *)
THEOREM OneWriterIsNewestWins ==
  ASSUME NEW CONSTANT w, Writers = {w}
  PROVE  HttpSpec => Settled!ImplementsNewestWins
<1>1. w \in Writers
  OBVIOUS
<1>2. HttpInit => HttpInv /\ OneWriterInv(w) /\ Settled!Init
  BY <1>1, InitHttp, InitOneWriter
<1>3. HttpInv /\ OneWriterInv(w) /\ [HttpNext]_httpVars
        => HttpInv' /\ OneWriterInv(w)' /\ [Settled!Next]_(Settled!vars)
  BY <1>1, NextHttp, NextOneWriter
<1>4. HttpSpec => Settled!Spec
  BY <1>2, <1>3, PTL DEF HttpSpec, Settled!Spec
<1>5. Settled!Spec => Settled!ImplementsNewestWins
  BY SettledConstants, Settled!StoreIsNewestWins, KeysAreIntegers, AbsentIsNoValue,
     LimitsAreNaturals, ThresholdsAreNaturals, IdleIsNoTable, BoundsAreNaturals
<1> QED BY <1>4, <1>5
-----------------------------------------------------------------------------
(* With one writer, an accepted row is covered in the working set and in   *)
(* the snapshot alike.                                                     *)
Covered(rows) == \A r \in accepted : Covers(rows, r)
VisibleInv ==
  /\ Covered(Settled!Stored)
  /\ Covered(RowsOf(snapshot.runs \o snapshot.memtable))

LEMMA SettledStores ==
  Settled!RefinementInv =>
    \A batch \in Batches :
      LET all == Settled!Stored \cup Settled!Stamp(batch, settled.seqno).rows
      IN  Settled!Ingest(batch) =>
            Settled!Stored' = all \/ Settled!Stored' = Settled!Winners(all)
BY SettledConstants, Settled!IngestsStoreBatches, KeysAreIntegers, AbsentIsNoValue,
   LimitsAreNaturals, ThresholdsAreNaturals, IdleIsNoTable, BoundsAreNaturals
   DEF Settled!RefinementInv, Settled!NumberingInv

LEMMA CoversMore ==
  ASSUME NEW rows \in SUBSET Row, NEW n \in Nat, Below(rows, n), NEW r \in Row,
         Covers(rows, r)
  PROVE  Covers(Winners(rows), r)
<1>1. PICK s \in rows : s.id = r.id /\ s.seqno >= r.seqno
  BY DEF Covers
<1>2. PICK t \in Winners(rows) : t.id = s.id /\ t.seqno >= s.seqno
  BY WinnerCovers DEF Covers
<1>3. r.seqno \in Nat /\ s.seqno \in Nat /\ t.seqno \in Nat
  BY <1>1, <1>2 DEF Row, Winners
<1> QED BY <1>1, <1>2, <1>3 DEF Covers

(* What the end of an ingest leaves in the working set covers the batch.   *)
LEMMA IngestCovers ==
  ASSUME NEW w \in Writers, OneWriterInv(w), VisibleInv, NEW batch \in Batches,
         Settled!Ingest(batch), NEW rows \in SUBSET Row,
         rows \subseteq accepted \cup Stamp(batch, settled.seqno).rows
  PROVE  \A r \in rows : Covers(Settled!Stored', r)
<1> DEFINE new == Stamp(batch, settled.seqno).rows
           all == Settled!Stored \cup new
<1>1. settled.seqno \in Nat /\ Len(batch.rows) \in Nat
  BY SettledTypes, SettledFrames DEF OneWriterInv
<1>2. Settled!Stored' = all \/ Settled!Stored' = Winners(all)
  BY SettledStores, SettledWords DEF OneWriterInv
<1>3. all \in SUBSET Row /\ Below(all, settled.seqno + Len(batch.rows))
  <2>1. Good(all)
    BY SettledKeepsGood, SettledGood, SettledWords DEF OneWriterInv
  <2>2. \A r \in Settled!Stored : r.seqno < settled.seqno
    BY DEF OneWriterInv, Settled!RefinementInv, Settled!NumberingInv,
           Settled!NumbersAreSpent, Settled!Everywhere
  <2>3. \A r \in new : r.seqno < settled.seqno + Len(batch.rows)
    BY <1>1, StampedRows
  <2>4. \A r \in all : r.seqno \in Nat
    BY <2>1 DEF Good, Row
  <2>5. \A r \in Settled!Stored : r.seqno < settled.seqno + Len(batch.rows)
    BY <1>1, <2>2, <2>4
  <2> QED BY <2>1, <2>3, <2>5 DEF Good, Below
<1>4. ASSUME NEW r \in rows PROVE Covers(all, r)
  <2>1. CASE r \in accepted
    BY <2>1 DEF VisibleInv, Covered, Covers
  <2>2. CASE r \in new
    <3>1. r.seqno \in Nat
      BY DEF Row
    <3> QED BY <2>2, <3>1 DEF Covers
  <2> QED BY <2>1, <2>2
<1> HIDE DEF all
<1> QED BY <1>1, <1>2, <1>3, <1>4, CoversMore

LEMMA NextVisible ==
  ASSUME NEW w \in Writers, Writers = {w}, OneWriterInv(w), HttpInv, VisibleInv,
         [HttpNext]_httpVars
  PROVE  VisibleInv'
<1>1. accepted \in SUBSET Row /\ ThreadInv
  BY DEF OneWriterInv, ThreadInv
<1>2. ASSUME UNCHANGED <<settled, snapshot, accepted>> PROVE VisibleInv'
  <2>1. Settled!Stored' = Settled!Stored
    BY <1>2 DEF Settled!Stored, Settled!RowsOf
  <2>2. RowsOf(snapshot.runs \o snapshot.memtable)'
          = RowsOf(snapshot.runs \o snapshot.memtable)
    BY <1>2 DEF RowsOf
  <2> QED BY <1>2, <2>1, <2>2 DEF VisibleInv, Covered, Covers
<1>3. CASE (\E batch \in Batches : StampRows(w, batch)) \/ IngestGoesOn(w)
  <2>1. settled' = settled /\ snapshot' = snapshot
    BY <1>3, IngestBegins, IngestContinues
  <2>2. accepted' = accepted
    BY <1>1, <1>3, GoesOn DEF StampRows
  <2> QED BY <1>2, <2>1, <2>2
<1>4. CASE IngestReturns(w) \/ IngestRaises(w)
  <2>1. PICK batch \in Batches :
          Settled!Ingest(batch) /\ local[w].frame = Stamp(batch, settled.seqno)
    BY <1>4, IngestEnds
  <2>2. Stamp(batch, settled.seqno).rows \subseteq Row
    BY SettledTypes, StampedRows DEF OneWriterInv, FrameType
  <2>3. /\ accepted' \subseteq accepted \cup Stamp(batch, settled.seqno).rows
        /\ accepted' \in SUBSET Row
    BY <1>1, <1>4, <2>1, <2>2
       DEF IngestReturns, IngestRaises, PublishAssigns, FlushRaises, CompactRaises
  <2>4. \A r \in accepted' : Covers(Settled!Stored', r)
    BY <2>1, <2>3, IngestCovers
  <2>5. CASE IngestReturns(w)
    <3>1. Settled!Publish
      BY <2>5, IngestEnds
    <3>2. RowsOf(snapshot'.runs \o snapshot'.memtable) = Settled!Stored'
      BY <3>1 DEF Settled!Publish, Settled!Stored, Settled!RowsOf, RowsOf
    <3> QED BY <2>4, <3>2 DEF VisibleInv, Covered, Covers, RowsOf
  <2>6. CASE IngestRaises(w)
    <3>1. UNCHANGED <<snapshot, accepted>>
      BY <2>6 DEF IngestRaises, FlushRaises, CompactRaises
    <3>2. RowsOf(snapshot.runs \o snapshot.memtable)'
            = RowsOf(snapshot.runs \o snapshot.memtable)
      BY <3>1 DEF RowsOf
    <3>3. Covered(Settled!Stored)'
      BY <2>4 DEF Covered, Covers
    <3>4. Covered(RowsOf(snapshot.runs \o snapshot.memtable))'
      BY <3>1, <3>2 DEF VisibleInv, Covered, Covers
    <3> QED BY <3>3, <3>4 DEF VisibleInv
  <2> QED BY <1>4, <2>5, <2>6
<1>5. CASE (\E r \in Readers : ReaderStep(r)) \/ UNCHANGED threadVars
  BY <1>2, <1>5 DEF ReaderStep, ThreadQueryReads, ThreadQueryMerges, QueryReads, store,
                    history, threadVars, vars
<1>6. \A v \in Writers : v = w
  OBVIOUS
<1> QED BY <1>3, <1>4, <1>5, <1>6, Steps DEF WriterStep

(* With one writer, an ingest that returned stays visible: of every key it *)
(* wrote, all later snapshots have a row that is no older, whatever later  *)
(* ingests flush, compact or leave behind when they raise.                 *)
THEOREM AcceptedStaysVisible ==
  ASSUME NEW CONSTANT w, Writers = {w}
  PROVE  HttpSpec => []AcceptedIsVisible
<1>1. w \in Writers
  OBVIOUS
<1>2. HttpInit => HttpInv /\ OneWriterInv(w) /\ VisibleInv
  <2>1. HttpInit => VisibleInv
    BY DEF HttpInit, ThreadInit, VisibleInv, Covered
  <2> QED BY <1>1, <2>1, InitHttp, InitOneWriter
<1>3. HttpInv /\ OneWriterInv(w) /\ VisibleInv /\ [HttpNext]_httpVars
        => HttpInv' /\ OneWriterInv(w)' /\ VisibleInv'
  BY <1>1, NextHttp, NextOneWriter, NextVisible
<1>4. VisibleInv => AcceptedIsVisible
  BY DEF VisibleInv, Covered, Covers, AcceptedIsVisible
<1> QED BY <1>2, <1>3, <1>4, PTL DEF HttpSpec
-----------------------------------------------------------------------------
(* A body and the table.  What the table owes to the first n batches of a  *)
(* body, and what it keeps of an older one.                                *)

Touched(body, i, k) == Abstract!Touches(body[i].rows, k)
Owes(table, body, n) ==
  \A k \in Keys, i \in 1..n :
    Touched(body, i, k) /\ (\A j \in 1..n : Touched(body, j, k) => j <= i) =>
      table[k] = Abstract!Cell(body[i].rows[Abstract!LastRow(body[i].rows, k)])
Keeps(table, body, old) ==
  \A k \in Keys :
    (\A i \in 1..Len(body) : ~Touched(body, i, k)) => table[k] = old[k]

LEMMA OwesOneMore ==
  ASSUME NEW table, NEW body, NEW n \in Nat \ {0}, Owes(table, body, n - 1)
  PROVE  Owes(Abstract!Apply(table, body[n].rows), body, n)
<1> DEFINE rows == body[n].rows
           after == Abstract!Apply(table, rows)
           cell(i, k) == Abstract!Cell(body[i].rows[Abstract!LastRow(body[i].rows, k)])
<1> SUFFICES ASSUME NEW k \in Keys, NEW i \in 1..n, Touched(body, i, k),
                    \A j \in 1..n : Touched(body, j, k) => j <= i
             PROVE  after[k] = cell(i, k)
  BY DEF Owes
<1>1. after[k] = IF Touched(body, n, k) THEN cell(n, k) ELSE table[k]
  BY DEF Abstract!Apply, Touched
<1>2. CASE Touched(body, n, k)
  <2>1. i = n
    BY <1>2
  <2> QED BY <1>1, <1>2, <2>1
<1>3. CASE ~Touched(body, n, k)
  <2>1. i # n
    BY <1>3
  <2>2. i \in 1..n - 1 /\ \A j \in 1..n - 1 : j \in 1..n
    BY <2>1
  <2>3. table[k] = cell(i, k)
    BY <2>2 DEF Owes
  <2> QED BY <1>1, <1>3, <2>3
<1> QED BY <1>2, <1>3

LEMMA KeepsTheRest ==
  ASSUME NEW table, NEW body, NEW old, NEW i \in 1..Len(body), Keeps(table, body, old)
  PROVE  Keeps(Abstract!Apply(table, body[i].rows), body, old)
BY DEF Keeps, Abstract!Apply, Touched

(* With one writer: the batch in hand is the one the request is at, and    *)
(* what the working set owes to the body, readers see with the last batch. *)
SettledTable == Table(Settled!Stored)
Paid(q, table, shown, old) ==
  /\ q.status # "none" => q.body \in Bodies /\ Keeps(table, q.body, old)
  /\ q.status \in {"open", "202"} =>
       /\ Owes(table, q.body, q.next - 1)
       /\ q.next > 1 => shown = table
  /\ q.status = "202" => q.next = Len(q.body) + 1
InHand(c) ==
  ~At(c, "idle") =>
    local[c].frame = Stamp(request[c].body[request[c].next], settled.seqno)
RetryInv ==
  \A c \in Clients :
    InHand(c) /\ Paid(request[c], SettledTable, TableOf(snapshot), before[c])

(* An ingest applies its batch to the table of the working set.            *)
LEMMA IngestApplies ==
  ASSUME NEW w \in Writers, OneWriterInv(w), NEW batch \in Batches,
         Settled!Ingest(batch), NEW own \in Batches,
         Stamp(batch, settled.seqno) = Stamp(own, settled.seqno)
  PROVE  SettledTable' = Abstract!Apply(SettledTable, own.rows)
<1> DEFINE all == Settled!Stored \cup Stamp(own, settled.seqno).rows
<1>1. Settled!Stored' = all \/ Settled!Stored' = Winners(all)
  BY SettledStores, SettledWords DEF OneWriterInv
<1>2. Table(Settled!Stored') = Table(all)
  <2>1. Winners(Settled!Stored') = Winners(all)
    BY <1>1, WinnersWin
  <2> QED BY <2>1, SameWinnersSameTable
<1>3. Good(all)
  BY SettledKeepsGood, SettledGood, SettledWords DEF OneWriterInv
<1>4. Good(Settled!Stored)
  BY <1>3, FS_Subset DEF Good
<1>5. \A r \in Settled!Stored : r.seqno < settled.seqno
  BY DEF OneWriterInv, Settled!RefinementInv, Settled!NumberingInv,
         Settled!NumbersAreSpent, Settled!Everywhere
<1>6. Table(all) = Abstract!Apply(Table(Settled!Stored), own.rows)
  BY <1>3, <1>4, <1>5, SettledTypes, BatchOnTable DEF OneWriterInv
<1>7. SettledTable' = Table(Settled!Stored')
  BY DEF SettledTable, Table, Winners
<1> QED BY <1>2, <1>6, <1>7 DEF SettledTable

(* What is said of the values that a step gives holds after it.            *)
LEMMA PaidThen ==
  ASSUME NEW c \in Clients,
         Paid(request'[c], SettledTable', TableOf(snapshot)', before'[c])
  PROVE  Paid(request[c], SettledTable, TableOf(snapshot), before[c])'
BY DEF Paid, Owes, Keeps, Touched, Abstract!Touches, Abstract!Cell, Abstract!LastRow

LEMMA InHandThen ==
  ASSUME NEW c \in Clients,
         pc'[c] # "idle" =>
           local'[c].frame = Stamp(request'[c].body[request'[c].next], settled'.seqno)
  PROVE  InHand(c)'
BY DEF InHand, At, Stamp

LEMMA TablesStay ==
  ASSUME UNCHANGED <<settled, snapshot>>
  PROVE  SettledTable' = SettledTable /\ TableOf(snapshot)' = TableOf(snapshot)
<1>1. (Settled!Stored)' = Settled!Stored
  BY DEF Settled!Stored, Settled!RowsOf
<1> QED BY <1>1 DEF SettledTable, Table, Winners, TableOf, RowsOf

LEMMA ClientPays ==
  ASSUME NEW w \in Clients, Writers = {w}, OneWriterInv(w), HttpInv, RetryInv,
         ClientStep(w)
  PROVE  /\ InHand(w)'
         /\ Paid(request'[w], SettledTable', TableOf(snapshot)', before'[w])
<1> DEFINE q == request[w]
           shown == TableOf(snapshot)
<1>1. /\ w \in Writers /\ q \in RequestType /\ Reading(w) /\ ThreadInv
      /\ request \in [Clients -> RequestType]
      /\ before \in [Clients -> [Keys -> Vals \cup {Absent}]]
      /\ q.next \in Nat \ {0} /\ q.readable \in Nat /\ Len(q.body) \in Nat
      /\ InHand(w) /\ Paid(q, SettledTable, shown, before[w])
  BY BodiesAreSequences DEF HttpInv, RequestInv, RetryInv, RequestType
<1>2. ASSUME NEW body \in Bodies, Sends(w, body), ~Open(w),
             Keeps(SettledTable, body, before'[w])
      PROVE  /\ InHand(w)'
             /\ Paid(request'[w], SettledTable', TableOf(snapshot)', before'[w])
  <2>1. PICK readable \in 0..Len(body) : request' = [request EXCEPT ![w] = Sent(body, readable)]
    BY <1>2 DEF Sends, Sent
  <2>2. request'[w].body = body /\ request'[w].next = 1 /\ request'[w].status = "open"
    <3>1. readable \in Nat
      BY BodiesAreSequences
    <3> QED BY <1>1, <2>1, <3>1, RequestIsSent
  <2>3. /\ SettledTable' = SettledTable /\ TableOf(snapshot)' = shown
        /\ pc' = pc /\ pc[w] = "idle"
    BY <1>1, <1>2, TablesStay
       DEF Sends, threadVars, vars, store, history, Reading, At
  <2>4. Owes(SettledTable, body, 0)
    BY DEF Owes
  <2>5. request'[w].next - 1 = 0 /\ ~(request'[w].next > 1)
    BY <2>2
  <2>6. Paid(request'[w], SettledTable, shown, before'[w])
    BY <1>2, <2>2, <2>4, <2>5 DEF Paid
  <2> QED BY <2>3, <2>6 DEF InHand, At
<1>3. CASE \E body \in Bodies : Post(w, body)
  <2>1. PICK body \in Bodies : Sends(w, body) /\ ~Open(w)
                               /\ before' = [before EXCEPT ![w] = Table(Stored)]
    BY <1>3 DEF Post
  <2>2. Same(settled)
    BY <1>1, <2>1 DEF OneWriterInv, Progress, Reading
  <2>3. Stored = Settled!Stored
    BY <2>2 DEF Same, Stored, Settled!Stored, RowsOf, Settled!RowsOf
  <2>4. before'[w] = SettledTable
    BY <1>1, <2>1, <2>3 DEF SettledTable
  <2>5. Keeps(SettledTable, body, before'[w])
    BY <2>4 DEF Keeps
  <2> QED BY <1>2, <2>1, <2>5
<1>4. CASE Retry(w)
  <2>1. /\ q.status # "none" /\ ~Open(w) /\ Sends(w, q.body) /\ before' = before
    BY <1>4 DEF Retry, Open
  <2>2. q.body \in Bodies /\ Keeps(SettledTable, q.body, before[w])
    BY <1>1, <2>1 DEF Paid
  <2> QED BY <1>2, <2>1, <2>2
<1>5. CASE Dispatch(w)
  <2> DEFINE batch == q.body[q.next]
  <2>1. batch \in Batches
    BY <1>1, <1>5, BodiesAreSequences DEF Dispatch, RequestType, Reading
  <2>2. request' = request /\ before' = before /\ StampRows(w, batch)
    BY <1>5 DEF Dispatch
  <2>3. settled' = settled /\ snapshot' = snapshot
    BY <1>1, <2>1, <2>2, IngestBegins
  <2>4. seqno = settled.seqno
    BY <1>1, <2>2, WhereItWas DEF OneWriterInv, Progress, Same
  <2>5. local'[w].frame = Stamp(batch, settled.seqno)
    <3>1. local'[w] = [NoLocals EXCEPT !.frame = Stamp(batch, seqno)]
      BY <1>1, <2>2 DEF StampRows, Keep, ThreadInv
    <3>2. [NoLocals EXCEPT !.frame = Stamp(batch, seqno)].frame = Stamp(batch, seqno)
      BY DEF NoLocals
    <3> QED BY <2>4, <3>1, <3>2
  <2>6. InHand(w)'
    BY <2>2, <2>3, <2>5, InHandThen
  <2> QED BY <1>1, <2>2, <2>3, <2>6, TablesStay
<1>6. CASE BatchGoesOn(w)
  <2>1. /\ request' = request /\ before' = before /\ IngestGoesOn(w)
    BY <1>6 DEF BatchGoesOn
  <2>2. settled' = settled /\ snapshot' = snapshot /\ local'[w].frame = local[w].frame
    BY <1>1, <2>1, IngestContinues, GoesOn
  <2>3. ~At(w, "idle")
    BY <1>1, <2>1, WhereItWas
  <2>4. local[w].frame = Stamp(q.body[q.next], settled.seqno)
    BY <1>1, <2>3 DEF InHand
  <2>5. InHand(w)'
    BY <2>1, <2>2, <2>4, InHandThen
  <2> QED BY <1>1, <2>1, <2>2, <2>5, TablesStay
(* What the end of an ingest does to the table, and that it ends one.      *)
<1>7. ASSUME IngestReturns(w) \/ IngestRaises(w)
      PROVE  /\ q.body[q.next] \in Batches /\ q.next \in 1..Len(q.body)
             /\ q.status = "open" /\ q.body \in Bodies
             /\ SettledTable' = Abstract!Apply(SettledTable, q.body[q.next].rows)
             /\ Keeps(SettledTable', q.body, before[w])
             /\ InHand(w)'
  <2>1. ~At(w, "idle") /\ pc'[w] = "idle"
    BY <1>1, <1>7, WhereItWas
  <2>2. q.status = "open" /\ q.next \in 1..Len(q.body) /\ InHand(w)'
    BY <1>1, <2>1 DEF Reading, Open, InHand, At
  <2>3. q.body[q.next] \in Batches
    BY <1>1, <2>2, BodiesAreSequences DEF RequestType
  <2>4. PICK batch \in Batches :
          Settled!Ingest(batch) /\ local[w].frame = Stamp(batch, settled.seqno)
    BY <1>1, <1>7, IngestEnds
  <2>5. Stamp(batch, settled.seqno) = Stamp(q.body[q.next], settled.seqno)
    BY <1>1, <2>1, <2>4 DEF InHand
  <2>6. SettledTable' = Abstract!Apply(SettledTable, q.body[q.next].rows)
    BY <1>1, <2>3, <2>4, <2>5, IngestApplies
  <2>7. q.body \in Bodies /\ Keeps(SettledTable, q.body, before[w])
    BY <1>1, <2>2 DEF Paid
  <2>8. Keeps(SettledTable', q.body, before[w])
    BY <2>2, <2>6, <2>7, KeepsTheRest
  <2> QED BY <2>2, <2>3, <2>6, <2>7, <2>8
<1>8. CASE BatchIsIn(w)
  <2> DEFINE went == GoneOn(q, q.next + 1, q.earlier \cup local[w].frame.rows)
  <2>1. IngestReturns(w) /\ before' = before /\ request' = [request EXCEPT ![w] = went]
    BY <1>8 DEF BatchIsIn, GoneOn
  <2>2. ~At(w, "idle")
    BY <1>1, <2>1, WhereItWas
  <2>3. local[w].frame.rows \in SUBSET Row
    BY <1>1, <2>2 DEF ThreadInv, WriterInv, HasFrame, FrameType
  <2>4. q.earlier \cup local[w].frame.rows \in SUBSET Row /\ q.next + 1 \in Nat \ {0}
    BY <1>1, <2>3 DEF RequestType
  <2>5. went.next = q.next + 1 /\ went.body = q.body /\ went.status = q.status
    BY <1>1, <2>4, RequestGoesOn
  <2> HIDE DEF went
  <2>6. request'[w] = went
    BY <1>1, <2>1
  <2>7. TableOf(snapshot)' = SettledTable'
    <3>1. Settled!Publish
      BY <1>1, <2>1, IngestEnds
    <3>2. RowsOf(snapshot'.runs \o snapshot'.memtable) = Settled!Stored'
      BY <3>1 DEF Settled!Publish, Settled!Stored, Settled!RowsOf, RowsOf
    <3> QED BY <3>2 DEF TableOf, SettledTable, Table, Winners, RowsOf
  <2>8. Owes(SettledTable, q.body, q.next - 1)
    BY <1>1, <1>7, <2>1 DEF Paid
  <2>9. Owes(SettledTable', q.body, q.next)
    BY <1>1, <1>7, <2>1, <2>8, OwesOneMore
  <2>10. went.next - 1 = q.next
    BY <1>1, <2>5
  <2>11. Paid(went, SettledTable', TableOf(snapshot)', before[w])
    BY <1>7, <2>1, <2>5, <2>7, <2>9, <2>10 DEF Paid
  <2> QED BY <1>7, <2>1, <2>6, <2>11
<1>9. ASSUME NEW status, Ended(w, status)
      PROVE  /\ request'[w].status = status /\ request'[w].body = q.body
             /\ request'[w].next = q.next
  <2>1. request'[w] = [q EXCEPT !.status = status]
    BY <1>1, <1>9 DEF Ended
  <2> QED BY <1>1, <2>1 DEF RequestType
<1>10. CASE BatchRaises(w)
  <2>1. IngestRaises(w) /\ before' = before /\ Ended(w, "500")
    BY <1>10 DEF BatchRaises
  <2> QED BY <1>7, <1>9, <2>1 DEF Paid
<1>11. CASE BodyBreaks(w) \/ Answers(w)
  <2>1. PICK status \in {"400", "500", "202"} :
          /\ Ended(w, status)
          /\ status = "202" => q.next > Len(q.body)
    BY <1>11 DEF BodyBreaks, Answers
  <2>2. /\ before' = before /\ UNCHANGED <<settled, snapshot, pc>> /\ At(w, "idle")
        /\ q.status = "open"
    BY <1>11 DEF BodyBreaks, Answers, threadVars, vars, store, history, Open
  <2>3. status = "202" => q.next = Len(q.body) + 1
    <3>1. q.next <= q.readable + 1 /\ q.readable <= Len(q.body)
      BY <1>1 DEF Reading
    <3> QED BY <1>1, <2>1, <3>1
  <2>4. Paid(request'[w], SettledTable, shown, before[w])
    BY <1>1, <1>9, <2>1, <2>2, <2>3 DEF Paid
  <2> QED BY <2>2, <2>4, TablesStay DEF InHand, At
<1> QED BY <1>3, <1>4, <1>5, <1>6, <1>8, <1>10, <1>11 DEF ClientStep

LEMMA NextRetry ==
  ASSUME NEW w \in Writers, Writers = {w}, OneWriterInv(w), HttpInv, RetryInv,
         [HttpNext]_httpVars
  PROVE  RetryInv'
<1> SUFFICES ASSUME NEW c \in Clients
             PROVE  /\ InHand(c)'
                    /\ Paid(request'[c], SettledTable', TableOf(snapshot)', before'[c])
  BY PaidThen DEF RetryInv
<1>1. c = w /\ Writers \ Clients = {}
  BY ClientsAreWriters
<1>2. CASE \E d \in Clients : ClientStep(d)
  BY <1>1, <1>2, ClientPays, ClientsAreWriters
<1>3. ASSUME UNCHANGED <<pc, local, settled, snapshot, request, before>>
      PROVE  /\ InHand(c)'
             /\ Paid(request'[c], SettledTable', TableOf(snapshot)', before'[c])
  <2>1. InHand(c)'
    BY <1>3, InHandThen DEF RetryInv, InHand, At
  <2> QED BY <1>3, <2>1, TablesStay DEF RetryInv
<1>4. CASE \E r \in Readers : ReaderStep(r) /\ UNCHANGED <<request, before>>
  BY <1>3, <1>4 DEF ReaderStep, ThreadQueryReads, ThreadQueryMerges, QueryReads, store,
                    history
<1>5. CASE UNCHANGED httpVars
  BY <1>3, <1>5 DEF httpVars, threadVars, vars, store, history
<1> QED BY <1>1, <1>2, <1>4, <1>5 DEF HttpNext

(* With one writer, a request that is accepted in the end counts once: the *)
(* batches that earlier attempts left behind, whether they were answered,  *)
(* raised or broke off, are all overwritten by the attempt that succeeds,  *)
(* and a key that the body does not touch is as it was, for all bodies.    *)
THEOREM RetriesCountOnce ==
  ASSUME NEW CONSTANT w, Writers = {w}
  PROVE  HttpSpec => []RetryCountsOnce
<1>1. w \in Writers
  OBVIOUS
<1>2. HttpInit => HttpInv /\ OneWriterInv(w) /\ RetryInv
  <2>1. HttpInit => RetryInv
    BY ClientsAreWriters DEF HttpInit, ThreadInit, RetryInv, InHand, At, Paid, NoRequest
  <2> QED BY <1>1, <2>1, InitHttp, InitOneWriter
<1>3. HttpInv /\ OneWriterInv(w) /\ RetryInv /\ [HttpNext]_httpVars
        => HttpInv' /\ OneWriterInv(w)' /\ RetryInv'
  BY <1>1, NextHttp, NextOneWriter, NextRetry
<1>4. HttpInv /\ RetryInv => RetryCountsOnce
  <2> SUFFICES ASSUME HttpInv, RetryInv, NEW c \in Clients, request[c].status = "202"
               PROVE  LET body == request[c].body
                          Touching(k) == {i \in DOMAIN body :
                                            Abstract!Touches(body[i].rows, k)}
                      IN \A k \in Keys :
                           /\ Touching(k) = {} => TableOf(snapshot)[k] = before[c][k]
                           /\ \A i \in Touching(k) :
                                (\A j \in Touching(k) : j <= i) =>
                                  TableOf(snapshot)[k]
                                    = Abstract!Apply(before[c], body[i].rows)[k]
    BY DEF RetryCountsOnce
  <2> DEFINE body == request[c].body
             n == Len(body)
  <2>1. /\ body \in Bodies /\ request[c].next = n + 1
        /\ Keeps(SettledTable, body, before[c])
        /\ Owes(SettledTable, body, request[c].next - 1)
        /\ request[c].next > 1 => TableOf(snapshot) = SettledTable
    BY DEF RetryInv, Paid
  <2>2. n \in Nat \ {0} /\ DOMAIN body = 1..n
    BY <2>1, BodiesAreStreams
  <2>3. request[c].next > 1 /\ request[c].next - 1 = n
    BY <2>1, <2>2
  <2>4. /\ TableOf(snapshot) = SettledTable /\ Owes(SettledTable, body, n)
    BY <2>1, <2>3
  <2> HIDE DEF body, n
  <2>5. \A k \in Keys, i \in 1..n :
          Touched(body, i, k) /\ (\A j \in 1..n : Touched(body, j, k) => j <= i) =>
            SettledTable[k] = Abstract!Apply(before[c], body[i].rows)[k]
    BY <2>4 DEF Owes, Touched, Abstract!Apply
  <2>6. \A k \in Keys :
          (\A i \in 1..n : ~Touched(body, i, k)) => SettledTable[k] = before[c][k]
    BY <2>1 DEF Keeps, n
  <2> QED BY <2>2, <2>4, <2>5, <2>6 DEF Touched, body
<1> QED BY <1>2, <1>3, <1>4, PTL DEF HttpSpec
=============================================================================
