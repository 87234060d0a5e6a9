SPECIFICATION Spec
CONSTANTS
  Keys <- MCKeys
  Vals = {"a", "b"}
  Absent = Absent
  Idle = Idle
  Failed = Failed
  Schemas = {"items", "drifted"}
  Batches <- MCBatches
  FlushRows = 2
  CompactionRuns = 2
  Readers = {}
  Limits = {1, 2}
  MaxRows = 3
  MaxFrames = 5
CHECK_DEADLOCK FALSE
PROPERTY SkippedBatchLeavesNoTrace
