SPECIFICATION FairSpec
CONSTANTS
  c1 = c1
  c2 = c2
  g1 = g1
  Clients = {c1, c2}
  Upserts <- SharedUpserts
  Deletes <- SharedDeletes
  Readers <- OneReader
  Groups = {g1}
  MaxTTL = 2
  MaxRows = 2
  None = None
  EmptySni = EmptySni
INVARIANT AlpnsNeedTls
PROPERTY MixedTlsHeals
PROPERTY DuplicateMappingsHeal
PROPERTY RemovedGroupDrains
CHECK_DEADLOCK FALSE
