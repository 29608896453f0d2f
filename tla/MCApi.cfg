SPECIFICATION FairSpec
CONSTANTS
  c1 = c1
  c2 = c2
  None = None
  Callers = {c1, c2}
  MaxHandlers = 2
  MaxOthers = 1
  Batch <- Batches
  Others <- OtherRequests
  MaxTTL = 2
  MaxKey = 2
  MaxFaults = 1
INVARIANT SignatureRefusalJustified
INVARIANT AnswerTellsWrites
PROPERTY CachedKeyHeals
PROPERTY GetsThrough
