SPECIFICATION FairSpec
CONSTANTS
  Apps = {a1}
  Sweepers = {s1, s2}
  Window = 1
  TokenLife = 1
  MaxRequests = 2
  MaxFailures = 1
  MaxTime = 20
INVARIANTS OldDataGone FlagOutlivesTokens
PROPERTIES FlagReleased
CHECK_DEADLOCK FALSE
