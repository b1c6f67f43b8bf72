SPECIFICATION Spec
CONSTANTS
  Games = {g1, g2, g3, g4}
  Queries = {q1}
  MaxConns = 4
PROPERTY EndedGameIsWritten
CHECK_DEADLOCK FALSE
