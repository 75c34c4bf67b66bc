SPECIFICATION Spec
CONSTANTS
  Apis = {"ctp", "tap"}
  PositionRows = {1, 2}
  OrderRows = {3, 4}
  MaxDrops = 2
  MaxSessions = 2
INVARIANTS TypeOK DataComplete WokenByOwnAnswer
PROPERTIES WaitsEnd
\* A thread whose answer does not come waits for ever.
CHECK_DEADLOCK FALSE
