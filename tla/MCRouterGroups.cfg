SPECIFICATION FairSpec
CONSTANTS
  Width = 3
  MinPort = 2
  ReservedPorts = {5}
  FailOnConflict = TRUE
  Handlers = {h1, h2}
  Seeder = seeder
  Names = {"", "a"}
  Types = {"tcp", "http"}
  PortTexts <- SomePorts
  Guids = {g1, g2}
  Seeds <- OneSeed
  MySQL = TRUE
  MaxStarts = 1
  MaxFails = 1
  NoGroup = NoGroup
CHECK_DEADLOCK FALSE
INVARIANTS
  GroupsValid
PROPERTIES
  BackupSettles
