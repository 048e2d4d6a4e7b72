CONSTANTS
  Conns = {c1, c2, c3}
  NoConn = NoConn
  Users = {0, 1}
  BoxLen = 2
  MaxMails = 3
  CommandSets <- MCCommandSets
SPECIFICATION Spec
SYMMETRY Symmetry
INVARIANTS
  OneSession
  NewMailAnnounced
PROPERTIES
  ImplementsUserMailboxes
