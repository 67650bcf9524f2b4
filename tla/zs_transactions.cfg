SPECIFICATION Spec
CONSTANTS
  b1 = b1
  b2 = b2
  e1 = e1
  e2 = e2
  x = x
  y = y
  w = w
  z1 = z1
  z2 = z2
  g = g
  s = s
  k = k
  u1 = u1
  u2 = u2
  NoZone = NoZone
  NoValue = NoValue
  Calls <- Senders
  Zones <- MCZones
  ZoneOf <- SendersZones
  Global = g
  Sessions = {s}
  SenderKeys = {k}
  Unprocessed = {u1, u2}
  Work <- SendersWork
  MayThrow = {b1}
  MayFail = {b2, e2}
  MaxDbFailures = 1
  MaxCrashes = 1
INVARIANTS
  ZoneExclusion
  AllOrNothing
  StepsWithMessage
  CacheIsCommitted
  CacheMatchesTable
  StateUsedOnce
PROPERTIES
  NoLostUpdate
CHECK_DEADLOCK FALSE
