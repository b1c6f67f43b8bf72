SPECIFICATION Spec
CONSTANTS
  Length = 2
  MaxGuesses = 2
  Players = {p1, p2, p3}
  Creator = p1
  Scores <- MCScores
PROPERTIES
  NoLateJoin
CHECK_DEADLOCK FALSE
