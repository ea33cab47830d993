SPECIFICATION Spec
CONSTANTS
  u1 = u1
  u2 = u2
  None = None
  Users <- MCUsers
  MaxClients = 2
  MaxMessages = 2
  Rows = 2
  MaxPosts = 3
  MaxKills = 1
  MaxRestarts = 1
SYMMETRY MCSymmetry
CONSTRAINT UncleanBound
CHECK_DEADLOCK FALSE
INVARIANTS
  TypeOK
  ExclusiveAccess
  TableConsistent
  RingHoldsNewest
PROPERTY
  PollShowsAllUntilFull
