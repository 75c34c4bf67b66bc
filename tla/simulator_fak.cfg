SPECIFICATION Spec
CONSTANTS
  Codes = {1}
  Contracts = {1}
  Distinct = {1}
  Ids = {1}
  Volumes = {2}
  MaxVolume = 2
  Prices = {4320}
  Offsets = {"open", "clstd"}
  Directions = {"long"}
  Flags = {"FAK"}
  Quotes <- MCSides
  Increments = {0, 1, 2}
  MaxDayVolume = 3
  MaxDays = 1
  InitialCapital = 1000000
  Multiple = 1
  MarginNum = 1
  MarginDen = 1
  Fee <- MCFee
  Modulus = 16
  CancelsEnded = FALSE
INVARIANTS FakNeverRests
