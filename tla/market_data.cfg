SPECIFICATION Spec
CONSTANTS
  Codes = {1, 2}
  Files <- MCFiles
  Strategies <- MCStrategies
  Sections <- MCSections
  Minute = 2
  Period = 2
  Modulus = 64
  MaxDays = 2
INVARIANTS DayIsFed TapesTellTrades BarsAreTheirTicks
PROPERTIES DayEnds
\* A day without ticks is waited for in vain, and the last is the last.
CHECK_DEADLOCK FALSE
