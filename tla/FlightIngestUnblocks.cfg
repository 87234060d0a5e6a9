SPECIFICATION Spec
CONSTANTS
  BaseDelay = 1
  MaxDelay = 60
  MaxFailures = 5
  FailureBound = 7
  Platforms = {{"calling"}}
CHECK_DEADLOCK FALSE
PROPERTY CloseStopsThread
