SPECIFICATION Spec
CONSTANTS
  Players = {alice, bob}
  Rooms = {r1, r2}
  First = r1
  Loaders = {l1}
  Collector = gc
  NoRoom = none
  Nobody = nobody
  MaxGuesses = 1
  MaxCrashes = 1
PROPERTIES ResultsAreReadOnly
CHECK_DEADLOCK FALSE
