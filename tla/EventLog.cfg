SPECIFICATION Spec
CONSTANTS
  MaxEvents = 3
  Companies = {c1}
  Platform = Platform
  Runners = {w1}
  Retention = 1
  Grace = 1
  Span = 1
  Batch = 1
  PageSize = 1
  MaxFailures = 1
  LastEvent = 1
  MaxTime = 4
INVARIANTS AlarmIsTrue PagesMissNothing
PROPERTIES ExpiredAreDeleted
CHECK_DEADLOCK FALSE
