SPECIFICATION FairSpec
CONSTANTS
  Procs = {p1, p2}
  Signals = {INT, TERM}
  Interrupt = INT
  Disturbable = {p1}
  MaxDisturbed = 2
  None = None
INVARIANT StreamsCancelledFirst
INVARIANT ReleasedBeforeServersStop
INVARIANT CleanExitUnregisters
INVARIANT MigrationExclusive
PROPERTY SignalEndsProcess
PROPERTY LostLockExits
CHECK_DEADLOCK FALSE
