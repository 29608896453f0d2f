SPECIFICATION FairSpec
CONSTANTS
  Width = 3
  MinPort = 2
  ReservedPorts = {4}
  FailOnConflict = TRUE
  Clients = {c1}
  Names = {"a", "c"}
  Wishes <- LowWishes
  Initial <- Largest
  MaxFails = 0
  Absent = Absent
CHECK_DEADLOCK FALSE
PROPERTY ReservePortReturns
