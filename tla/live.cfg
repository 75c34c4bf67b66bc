SPECIFICATION Spec
CONSTANTS
  Apis = {"ctp", "tap"}
  Codes = {1, 2}
  Distinct = {1}
  Ids = {1, 2}
  Requests <- MCFewRequests
  Holding <- MCHolding
  MaxVolume = 2
  Size = 1
  MaxWire = 1
  Merges = TRUE
  MaxForeign = 1
  MaxRestarts = 1
  MaxMisread = 1
  Modulus = 16
INVARIANTS TypeOK BooksSettle EndsReach
PROPERTIES KeepsLifecycle EndsHeard
\* Every order may have ended with nobody left to place one.
CHECK_DEADLOCK FALSE
