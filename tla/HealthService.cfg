SPECIFICATION Spec
CONSTANTS
  Deps = {d1, d2}
  Requests = {r}
  Timeout = 1
  StaleFails = TRUE
INVARIANT TypeOK
INVARIANT OneStateIsActive
PROPERTY ReadyMeansUpLately
PROPERTY NoGracePeriod
