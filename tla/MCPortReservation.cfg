SPECIFICATION FairSpec
CONSTANTS
  Width = 3
  MinPort = 2
  ReservedPorts = {4}
  FailOnConflict = TRUE
  Clients = {c1}
  Names = {"a", "b", "c"}
  Wishes <- LowWishes
  Initial <- Mixed
  MaxFails = 2
  Absent = Absent
CHECK_DEADLOCK FALSE
INVARIANTS
  ChosenIsFree
PROPERTIES
  ReturnedIsWritten
  ReservePortReturns
