SPECIFICATION FairConsumersSpec
CONSTANTS
  None = None
  Conns = {c1, c2}
  MaxRetries = 0
  MaxRows = 1
  MaxChanges = 3
  MaxFaults = 1
INVARIANTS
  SubscriptionsCounted
PROPERTIES
  RouteGaugeSettles
  ClosedSourceLetsGo
CHECK_DEADLOCK FALSE
