CONSTANTS
  Sessions = {s1, s2, s3}
  NumRooms = 2
  MailRooms = {1}
  Timeout = 2
  Leaving = {"DROP"}
  RoomEdits = FALSE
  Blogs = FALSE
  NoRoom = NoRoom
SPECIFICATION FairSpec
INVARIANT OneAtATime
PROPERTIES
  ImplementsMutex
  TimedLockFreed
CHECK_DEADLOCK FALSE
