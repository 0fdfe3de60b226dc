SPECIFICATION Spec
CONSTANTS
  Workers = {w1, w2}
  RunIds = {r1, r2}
  LockTTL = 1
  MaxRuntime = 1
  Retention = 1
  Overdue = 1
  MaxTime = 2
  MaxSkips = 1
  Nobody = Nobody
SYMMETRY Symmetric
INVARIANTS LockExcludes NoneLeftRunning CountedOnce SuccessAnnounced HealthyIsTrue
PROPERTIES OwnerFrees VerdictStays
CHECK_DEADLOCK FALSE
