SPECIFICATION FairSpec
CONSTANTS
  b1 = b1
  b2 = b2
  e1 = e1
  e2 = e2
  x = x
  y = y
  w = w
  z1 = z1
  z2 = z2
  g = g
  s = s
  k = k
  u1 = u1
  u2 = u2
  NoZone = NoZone
  NoValue = NoValue
  Calls <- Everything
  Zones <- MCZones
  ZoneOf <- EverythingZones
  Global = g
  Sessions = {s}
  SenderKeys = {k}
  Unprocessed = {u1, u2}
  Work <- EverythingWork
  MayThrow = {}
  MayFail = {b1}
  MaxDbFailures = 0
  MaxCrashes = 0
PROPERTIES
  CallsSettle
CHECK_DEADLOCK FALSE
