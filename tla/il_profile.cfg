SPECIFICATION Spec
CONSTANTS
  decrypt1 = decrypt1
  decrypt2 = decrypt2
  send1 = send1
  profile = profile
  dev1 = dev1
  dev2 = dev2
  z1 = z1
  z2 = z2
  g = g
  NoZone = NoZone
  Calls <- MCCalls
  Zones <- MCZones
  ZoneOf <- MCZoneOf
  Devices = {dev1, dev2}
  Device <- MCDevice
  SessionJobs = {decrypt1, decrypt2, send1}
  MayChange = {decrypt1, decrypt2, profile}
INVARIANTS
  NoWaitCycle
CHECK_DEADLOCK FALSE
