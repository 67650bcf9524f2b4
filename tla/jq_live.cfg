SPECIFICATION FairSpec
CONSTANTS
  a = a
  b = b
  c = c
  q1 = q1
  q2 = q2
  NoJob = NoJob
  Jobs <- MCJobs
  Queues <- MCQueues
  QueueOf <- MCQueueOf
  Custom = {a, b}
  Corrupt = {c}
  MaxAttempts = 2
  KeepOnRetry = FALSE
  AddPhases = {"read", "done"}
  MayShutDown = TRUE
  MaxPauses = 1
  MaxCrashes = 1
  MaxDbFailures = 0
INVARIANTS
  NoOvertaking
PROPERTIES
  EveryAddedJobFinishes
  ShutdownResolves
CHECK_DEADLOCK FALSE
