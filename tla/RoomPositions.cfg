CONSTANTS
  Users = {Ada, Ugo}
  Aides = {Ada}
  Ada = Ada
  NoVector = NoVector
  NumRooms = 2
  Slots = 3
  SlotAdd = 1
  Junk = {"KICKOUT"}
  CommandSets <- MCCommandSets
  MaxNum = 4
  MaxSaves = 1
  MaxCrashes = 1
SPECIFICATION Spec
INVARIANTS
  Dense
PROPERTIES
  ImplementsUserMarks
  NewRoomClean
CHECK_DEADLOCK FALSE
