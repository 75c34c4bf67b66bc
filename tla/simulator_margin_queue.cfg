SPECIFICATION Spec
CONSTANTS
  Codes = {1}
  Contracts = {1}
  Distinct = {1}
  Ids = {1, 2, 3}
  Volumes = {2}
  MaxVolume = 2
  Prices = {2160, 4320}
  Offsets = {"open", "clstd"}
  Directions = {"long", "short"}
  Flags = {"NOR"}
  Quotes <- MCMoves
  Increments = {1, 2}
  MaxDayVolume = 3
  MaxDays = 1
  InitialCapital = 20000
  Multiple = 1
  MarginNum = 1
  MarginDen = 1
  Fee <- MCFee
  Modulus = 16
  CancelsEnded = FALSE
INVARIANTS MarginBacked FrameVolumeIsTraded
PROPERTIES SeatOnlyShrinks
