CONSTANTS
  Scripts <- MCScripts
  MaxString = 6
  MaxLine = 3
  CommandSets <- MCCommandSets
SPECIFICATION Spec
INVARIANTS
  InputExact
  RepliesInOrder
PROPERTIES
  AllAnswered
CHECK_DEADLOCK FALSE
