SPECIFICATION Spec
CONSTANTS
  a = a
  b = b
  c = c
  q1 = q1
  q2 = q2
  NoJob = NoJob
  Jobs <- MCJobs
  Queues <- MCQueues
  QueueOf <- MCQueueOf
  Custom = {}
  Corrupt = {}
  MaxAttempts = 2
  KeepOnRetry = TRUE
  AddPhases = {"asked", "read", "done"}
  MayShutDown = TRUE
  MaxPauses = 1
  MaxCrashes = 1
  MaxDbFailures = 0
INVARIANTS
  OneInstance
  NotOrphaned
  NoOvertaking
  ShutdownDrained
PROPERTIES
  NoStartInShutdown
CHECK_DEADLOCK FALSE
