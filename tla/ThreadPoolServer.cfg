SPECIFICATION Spec
CONSTANTS
  c1 = c1
  c2 = c2
  c3 = c3
  w1 = w1
  w2 = w2
  Main = Main
  None = None
  Clients <- MCClients
  Workers <- MCWorkers
  Capacity = 2
  Backlog = 1
  MaxSpurious = 1
INVARIANTS
  TypeOK
  SocketOwnedOnce
  NoLostWakeup
PROPERTIES
  QueueIsFifo
  ImplementsTimeService
