CONSTANTS
  Users = {1, 2}
  Sizes = {2}
  MaxUser = 4
  MaxNum = 2
  DirSize = 4
  RoomLen = 2
  Allocated = 5
  LongSize = 8
  CommandSets <- MCCommandSets
  MaxNumber = 3
  MaxCopies = 3
  MaxPosts = 3
  MaxUploads = 2
  MaxSaves = 1
  MaxCrashes = 1
SPECIFICATION Spec
INVARIANTS
  IndexExact
  NumbersOnce
  AttachedRight
PROPERTIES
  FilesStay
CHECK_DEADLOCK FALSE
