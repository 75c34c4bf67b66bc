SPECIFICATION BacktestSpec
CONSTANTS
  Codes = {1}
  Contracts = {1}
  Distinct = {1}
  Ids = {1}
  Volumes = {1, 2}
  MaxVolume = 2
  Prices = {2}
  Offsets = {"open"}
  Directions = {"long"}
  Flags = {"NOR"}
  Quotes <- MCQuotes
  Increments = {0, 1, 2}
  MaxDayVolume = 2
  MaxDays = 2
  InitialCapital = 100
  Multiple = 1
  MarginNum = 1
  MarginDen = 1
  Fee <- MCFee
  Modulus = 16
  CancelsEnded = FALSE
INVARIANTS PendingNotDealt
\* The last day may have been stopped.
CHECK_DEADLOCK FALSE
