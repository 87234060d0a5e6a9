SPECIFICATION Spec
CONSTANTS
  BaseDelay = 1
  MaxDelay = 60
  MaxFailures = 5
  FailureBound = 7
  Platforms = {{"calling", "open"}, {"calling"}, {}}
CHECK_DEADLOCK FALSE
INVARIANT TypeOK
INVARIANT ShutdownOnlyAfterFailures
INVARIANT ConnectedMeansStreaming
INVARIANT EndedHoldsNoStream
INVARIANT BackoffFollowsFailures
PROPERTY ImplementsIngestion
PROPERTY LostStreamIsReopened
