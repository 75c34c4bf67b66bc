SPECIFICATION FairSpec
CONSTANTS
  Size = 4
  Modulus <- MCModulus
  Events = {e1, e2}
  Nothing = Nothing
INVARIANTS TypeOK NoOverlap
PROPERTIES ImplementsQueue SpinEnds EventsHandled
