SPECIFICATION HttpSpec
CONSTANTS
  Keys <- MCKeys
  Vals = {"a", "b"}
  Absent = Absent
  Idle = Idle
  Failed = Failed
  Schemas = {"items"}
  Batches <- RaceBatches
  Bodies <- RaceBodies
  Clients = {http}
  FlushRows = 2
  CompactionRuns = 2
  Readers = {}
  Writers = {loop, http}
  Limits = {1, 2}
  MaxRows = 5
  MaxFrames = 4
CHECK_DEADLOCK FALSE
INVARIANT BatchesAreSeenWhole
INVARIANT BodyOrderIsKept
