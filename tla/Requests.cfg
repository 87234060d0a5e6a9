SPECIFICATION WorkSpec
CONSTANTS
  MaxAttempts = 5
  Requests = {r1, r2, r3}
  PoolSize = 1
  Workers = 1
CHECK_DEADLOCK FALSE
INVARIANT WorkTypeOK
INVARIANT OpenedIsClosed
INVARIANT RequestsFindConnections
INVARIANT PoolsAreIdleAtTheEnd
PROPERTY StartupSettles
PROPERTY RequestsAreAnswered
PROPERTY ProbesAreAnswered
PROPERTY OnlyHangingDelaysTheEnd
