SPECIFICATION Spec
CONSTANTS
  BaseDelay = 1
  MaxDelay = 60
  MaxFailures = 5
  FailureBound = 7
  Threshold = 60
  LongestPoll = 5
  JoinTimeout = 10
INVARIANT JoinOutlastsRetries
