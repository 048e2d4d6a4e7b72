CONSTANTS
  Sizes <- MCSizes
  Lengths <- MCLengths
  Texts <- MCTexts
  NoText = ""
  Says <- MCSays
  HeaderMayOverflow = FALSE
  MaxNum = 2
  MaxCrashes = 1
  CacheSize = 1
SPECIFICATION CacheSpec
INVARIANTS
  CachedOwn
  NumbersNotReused
CHECK_DEADLOCK FALSE
