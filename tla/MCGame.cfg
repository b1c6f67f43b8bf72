SPECIFICATION Spec
CONSTANTS
  Length = 2
  MaxGuesses = 2
  Players = {p1, p2, p3}
  Creator = p1
  Scores <- MCScores
SYMMETRY Guests
CONSTRAINT ClosingBound
INVARIANTS
  TypeOK
  FinishedCount
  EndsWithLastPlayer
  BoardConsistent
  BoardSortedByScore
  BestIsBest
  SessionStops
  ReloadKeepsBoard
  FetchShowsResults
PROPERTIES
  OnlyTheGuesserClimbs
  GuessesAreKept
  ImplementsContract
  PlayRunsTheLoop
\* A closed room stops.
CHECK_DEADLOCK FALSE
