CONSTANTS
  c1 = c1
  n1 = n1
  s1 = s1
  s2 = s2
  None = None
  Conversations <- MCConversations
  Jobs <- MCJobs
  ConversationOf <- MCConversationOf
  Silent = {s1, s2}
  Droppable = {s1, s2}
  ProfileKeys = {s2}
  Persisted <- MCPersisted
  Answers <- MCAnswers
  MaxAttempts = 2
  MaxTroubles = 1
  MaxBackoff = 2
SPECIFICATION FairSpec
INVARIANTS OnePlace KeptJobsHaveTrigger BlockedIsShort TokenHasAsker
PROPERTIES BackoffGrows JobsFinish
CHECK_DEADLOCK FALSE
