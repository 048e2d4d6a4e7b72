CONSTANTS
  Sessions = {s1, s2}
  NumRooms = 2
  MailRooms = {1}
  Timeout = 2
  Leaving = {"DROP", "QUIT", "CUSR"}
  RoomEdits = TRUE
  Blogs = TRUE
  NoRoom = NoRoom
SPECIFICATION FairSpec
INVARIANT TypeOK
PROPERTY TimedPostEnds
CHECK_DEADLOCK FALSE
