SPECIFICATION MainSpec
CONSTANTS
  Unset = Unset
  Inputs <- MCInputs
  DBServers <- MCDBServers
  DefaultTTL = 6
  MaxTime = 12
INVARIANTS
  RunsAsConfigured
  OwnRouteStays
CHECK_DEADLOCK FALSE
