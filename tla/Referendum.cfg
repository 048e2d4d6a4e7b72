CONSTANTS
  Users = {u1, u2}
  MaxPolls <- MCMaxPolls
  MaxTime = 3
  Grace = 1
  Postponed = 1
  MaxActive = 2
  LenSlots = 1
  MaxUtenti <- MCMaxUtenti
  MaxVotes = 3
  MaxCrashes = 1
  NoPoll = NoPoll
SPECIFICATION Spec
INVARIANTS
  CountedOnce
  StatExact
PROPERTIES
  WarnedBeforeEnd
  PollEnds
CHECK_DEADLOCK FALSE
