SPECIFICATION FairSpec
CONSTANTS
  Email = Email
  t1 = t1
  t2 = t2
  j1 = j1
  j2 = j2
  Events = {e1}
  Rules = {}
  EmailConfigured = TRUE
  Dispatchers = {}
  RetryThreads = {t1, t2}
  Runs = {j1, j2}
  RunOf <- OneThreadPerRun
  DryRunModes = {FALSE}
  MaxAttempts = 2
  Lease = 2
  RetryDelays = {1}
  MaxRequeues = 0
  MaxCrashes = 1
  MaxTime = 30
INVARIANTS LeaseExclusive DeliveredWasAnswered
PROPERTIES OpenRowsSettle
