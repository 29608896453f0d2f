SPECIFICATION Spec
CONSTANTS
  c1 = c1
  c2 = c2
  k1 = k1
  k2 = k2
  Keys = {k1, k2}
  Clients = {c1, c2}
  Registers <- OwnKeys
  TTLs = {2}
  Second = 2
  Guids = {g1, g2}
  Jobs = {j1, j2}
  MaxIndex = 1
  MaxTime = 8
  MaxFails = 1
  MaxCrashes = 1
  NoRow = NoRow
SYMMETRY Symmetry
INVARIANT OneRowPerKey
INVARIANT PendingEventIsNews
PROPERTY RenewedInTimeStays
PROPERTY IndexIncrements
CHECK_DEADLOCK FALSE
