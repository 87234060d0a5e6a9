SPECIFICATION Spec
CONSTANTS
  BaseDelay = 1
  MaxDelay = 16
  MaxFailures = 5
  FailureBound = 5
  LongestMessage = 2
  QueueBound = 2
  EventBound = 2
CHECK_DEADLOCK FALSE
INVARIANT TypeOK
INVARIANT StateFollowsLink
INVARIANT QueueIsDrained
PROPERTY ImplementsIngestion
PROPERTY SubscribesOrGivesUp
