SPECIFICATION Spec
CONSTANTS
  Email = Email
  t1 = t1
  t2 = t2
  j1 = j1
  j2 = j2
  Events = {e1}
  Rules = {u1}
  EmailConfigured = FALSE
  Dispatchers = {d1}
  RetryThreads = {t1}
  Runs = {j1}
  RunOf <- OneThread
  DryRunModes = {TRUE, FALSE}
  MaxAttempts = 2
  Lease = 2
  RetryDelays = {1}
  MaxRequeues = 1
  MaxCrashes = 1
  MaxTime = 4
INVARIANTS AttemptLogExact StatusFollowsLog DeliveredWasAnswered AttemptBudget
PROPERTIES FinishedIsFinal PurgeSparesOpen ImplementsContract
