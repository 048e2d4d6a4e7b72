CONSTANTS
  Conns = {c1, c2, c3}
  NoConn = NoConn
  Users = {u1, u2, u3}
  Unregistered = {u3}
  Gone = Gone
  NoUser = NoUser
  MaxRcpt = 2
  Channels = {1, 2}
  IdleWarning = 1
  IdleLogout = 2
  MaxIdle = 3
  LoginTimeout = 2
  ChatTimeout = 1
  CommandSets <- MCCommandSets
  MaxMessages <- MCMaxMessages
SPECIFICATION Spec
SYMMETRY Symmetry
INVARIANTS
  EachReachedOnce
  PresenceKnown
  ChatKnown
PROPERTIES
  IdleOutAfterWarnings
CHECK_DEADLOCK FALSE
