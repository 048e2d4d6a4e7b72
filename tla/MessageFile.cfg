CONSTANTS
  Sizes <- MCSizes
  Lengths <- MCLengths
  Texts = {t1, t2}
  NoText = NoText
  HeaderMayOverflow = TRUE
  MaxNum = 5
SPECIFICATION Spec
INVARIANTS
  ReadsOwn
  NeverErasedWhileThere
  CountersExact
PROPERTIES
  ImplementsLog
CHECK_DEADLOCK FALSE
