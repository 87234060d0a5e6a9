SPECIFICATION HttpSpec
CONSTANTS
  Keys <- MCKeys
  Vals = {"a", "b"}
  Absent = Absent
  Idle = Idle
  Failed = Failed
  Schemas = {"items", "drifted"}
  Batches <- MCBatches
  FlushRows = 2
  CompactionRuns = 2
  Readers = {r1}
  Writers = {http}
  Clients = {http}
  Bodies <- MCBodies
  Limits = {1, 2}
  MaxRows = 7
  MaxFrames = 4
INVARIANT HttpTypeOK
INVARIANT AcceptedIsVisible
INVARIANT RetryCountsOnce
PROPERTY ImplementsLSMStore
CHECK_DEADLOCK FALSE
