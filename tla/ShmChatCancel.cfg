SPECIFICATION Spec
CONSTANTS
  u1 = u1
  u2 = u2
  None = None
  Users <- MCUsers
  MaxClients = 2
  MaxMessages = 2
  Rows = 2
  MaxPosts = 0
  MaxKills = 0
  MaxRestarts = 0
CHECK_DEADLOCK FALSE
INVARIANT
  SemaphoreNotLost
