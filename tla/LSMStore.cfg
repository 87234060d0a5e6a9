SPECIFICATION Spec
CONSTANTS
  Keys <- MCKeys
  Vals = {"a", "b"}
  Absent = Absent
  Idle = Idle
  Failed = Failed
  Schemas = {"items", "drifted"}
  Batches <- MCBatches
  FlushRows = 2
  CompactionRuns = 2
  Readers = {r1}
  Limits = {1, 2}
  MaxRows = 6
  MaxFrames = 3
INVARIANT TypeOK
INVARIANT SeqnoIdentifiesRow
INVARIANT FramesAreInAgeOrder
INVARIANT BoundedWorkingSet
PROPERTY ImplementsNewestWins
