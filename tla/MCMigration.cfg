SPECIFICATION FairSpec
CONSTANTS
  old = old
  new = new
  Null = Null
  Procs = {old, new}
  Last <- RollingUpgrade
  Mappings <- TwoMappings
  Releases <- OlderReleases
  MaxRows = 2
  MaxFaults = 2
INVARIANT RecordedIsDone
INVARIANT ServesWithIndex
PROPERTY VersionKept
PROPERTY ServesAgain
