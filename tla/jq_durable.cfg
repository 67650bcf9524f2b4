SPECIFICATION Spec
CONSTANTS
  a = a
  b = b
  c = c
  q1 = q1
  q2 = q2
  NoJob = NoJob
  Jobs <- MCJobs
  Queues <- MCQueues
  QueueOf <- MCQueueOf
  Custom = {b}
  Corrupt = {c}
  MaxAttempts = 1
  KeepOnRetry = TRUE
  AddPhases = {"none", "asked", "read", "done"}
  MayShutDown = TRUE
  MaxPauses = 0
  MaxCrashes = 1
  MaxDbFailures = 1
INVARIANTS
  TypeOK
  NoLostJob
  SettledAfterDelete
PROPERTIES
  ImplementsDurableJobs
CHECK_DEADLOCK FALSE
