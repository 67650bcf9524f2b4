CONSTANTS
  m1 = m1
  None = None
  Messages = {m1}
  MaxDeliveries = 2
  MaxAttempts = 1
  MaxTroubles = 2
  MaxEnds = 1
SPECIFICATION Spec
INVARIANTS NoneLost PlainKept EmptyIsEarned RowIsWatched
CHECK_DEADLOCK FALSE
