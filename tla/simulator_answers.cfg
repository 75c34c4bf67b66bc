SPECIFICATION Spec
CONSTANTS
  Codes = {1, 2}
  Contracts = {1}
  Distinct = {1}
  Ids = {1, 2}
  Volumes = {2}
  MaxVolume = 2
  Prices = {4320}
  Offsets = {"open", "clstd", "close"}
  Directions = {"long"}
  Flags = {"NOR", "FAK"}
  Quotes <- MCSides
  Increments = {1}
  MaxDayVolume = 2
  MaxDays = 1
  InitialCapital = 1000000
  Multiple = 1
  MarginNum = 1
  MarginDen = 1
  Fee <- MCFee
  Modulus = 16
  CancelsEnded = FALSE
PROPERTIES CancelsComplete OrdersAnswered
