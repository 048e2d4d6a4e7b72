CONSTANTS
  Rooms = {Cestino, A}
  Dump = Cestino
  Aide = NoRoom
  NoRoom = NoRoom
  Cestino = Cestino
  A = A
  Lengths <- MCLengths
  MaxNum <- MCMaxNum
  MaxSaves = 0
  MaxCrashes = 0
  Here = A
  Overwrites = TRUE
SPECIFICATION ReadingSpec
INVARIANTS
  NewMsgSeen
  NextDelivers
  RemainingRight
PROPERTIES
  NothingSkipped
CHECK_DEADLOCK FALSE
