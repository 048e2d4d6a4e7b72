CONSTANTS
  Rooms = {Cestino, A, Aides}
  Dump = Cestino
  Aide = Aides
  NoRoom = NoRoom
  Cestino = Cestino
  A = A
  Aides = Aides
  Lengths <- MCLengths
  MaxNum <- MCMaxNum
  MaxSaves = 1
  MaxCrashes = 1
SPECIFICATION Spec
INVARIANTS
  FreeFirst
  CleanIsSavedButDumped
  PostsPlaced
PROPERTIES
  NoNeedlessLoss
CHECK_DEADLOCK FALSE
