SPECIFICATION AccessSpec
CONSTANTS
  Browsers = {laptop}
  NoBrowser = none
  Calls = {c1, c2}
  MaxClock = 4
  Life = 1
  MaxCrashes = 1
SYMMETRY Symmetry
CONSTRAINT OneWithGame
INVARIANTS TypeOK
PROPERTIES EndedSessionStaysEnded 
CHECK_DEADLOCK FALSE
