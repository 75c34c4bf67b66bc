SPECIFICATION Spec
CONSTANTS
  Codes = {1}
  Contracts = {1}
  Distinct = {1}
  Ids = {1, 2}
  Volumes = {1, 2}
  MaxVolume = 2
  Prices = {4320}
  Offsets = {"open", "clstd"}
  Directions = {"long"}
  Flags = {"NOR", "FOK", "FAK"}
  Quotes <- MCSides
  Increments = {0, 1, 2}
  MaxDayVolume = 3
  MaxDays = 2
  InitialCapital = 1000000
  Multiple = 1
  MarginNum = 1
  MarginDen = 1
  Fee <- MCFee
  Modulus = 16
  CancelsEnded = FALSE
INVARIANTS TypeOK FrozenBacksCloses PositionReconciles FokAllOrNothing
PROPERTIES NoDealAfterCancel KeepsLifecycle
