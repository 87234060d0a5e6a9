SPECIFICATION Spec
CONSTANTS
  BaseDelay = 1
  MaxDelay = 60
  MaxFailures = 5
  FailureBound = 7
  Platforms = {{"calling", "open"}, {"calling"}, {}}
CHECK_DEADLOCK FALSE
INVARIANT DownAfterClose
