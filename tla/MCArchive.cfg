SPECIFICATION ArchiveSpec
CONSTANTS
  Players = {alice, bob}
  Rooms = {r1, r2}
  First = r1
  Loaders = {l1}
  Collector = gc
  NoRoom = none
  Nobody = nobody
  MaxGuesses = 1
  MaxCrashes = 1
CONSTRAINT RoomsLeft
SYMMETRY PlayerSymmetry
INVARIANTS TypeOK RecordedIsOver FinishedIsRecorded HubRoomOpenOrEnded WordShownAfterEnd AnswerIsWhole
PROPERTIES KeyFollowsRow ResultsNotReplaced ImplementsRecord
CHECK_DEADLOCK FALSE
