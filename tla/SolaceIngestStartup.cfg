SPECIFICATION Spec
CONSTANTS
  BaseDelay = 1
  MaxDelay = 60
  MaxFailures = 5
  FailureBound = 7
  LongestMessage = 2
  QueueBound = 2
  EventBound = 2
CHECK_DEADLOCK FALSE
INVARIANT StateFollowsLinkAtOnce
