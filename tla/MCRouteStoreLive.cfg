SPECIFICATION FairSpec
CONSTANTS
  c1 = c1
  c2 = c2
  k1 = k1
  k2 = k2
  Keys = {k1}
  Clients = {c1, c2}
  Registers <- SharedKeys
  TTLs = {1}
  Second = 1
  Guids = {g1, g2}
  Jobs = {j1}
  MaxIndex = 1
  MaxTime = 4
  MaxFails = 0
  MaxCrashes = 0
  NoRow = NoRow
PROPERTY RemovalAnnounced
PROPERTY AbandonedRoutesPruned
CHECK_DEADLOCK FALSE
