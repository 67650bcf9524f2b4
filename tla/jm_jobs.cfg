CONSTANTS
  a = a
  b = b
  c = c
  None = None
  Jobs <- TwoJobs
  ReceivedAt <- MCReceivedAt
  MaxConcurrentJobs = 1
  MaxAttempts = 2
  MaxAdds = 2
  MaxTroubles = 2
SPECIFICATION FairSpec
INVARIANTS ConcurrencyBound ActiveRowsRun
PROPERTIES JobsEnd IdleResolves
CHECK_DEADLOCK FALSE
