SPECIFICATION Spec
CONSTANTS
  c1 = c1
  c2 = c2
  c3 = c3
  None = None
  Clients <- MCClients
  Backlog = 2
  WorkerMax = 3
  InitialWorkers = 2
  MaxCrashes = 2
CHECK_DEADLOCK FALSE
INVARIANTS
  TypeOK
  OnlyFirstWorkerServes
  NoDescriptorLeft
PROPERTIES
  MainReturns
  ImplementsTimeService
