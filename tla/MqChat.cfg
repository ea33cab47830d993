SPECIFICATION Spec
CONSTANTS
  u1 = u1
  u2 = u2
  Users <- MCUsers
  MaxClients = 3
  MaxMsg = 1
  MaxPosts = 2
  MaxRuns = 2
CHECK_DEADLOCK FALSE
INVARIANTS
  TypeOK
  TotalOrder
PROPERTIES
  BroadcastReachesAll
  BroadcastEnds
  EveryoneHears
