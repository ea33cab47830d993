SPECIFICATION Spec
CONSTANTS
  c1 = c1
  c2 = c2
  h1 = h1
  h2 = h2
  p1 = p1
  p2 = p2
  None = None
  Clients <- MCClients
  Handlers <- MCHandlers
  Cells <- MCCells
  Backlog = 2
  MaxTime = 1
  MaxFailures = 1
INVARIANTS
  TypeOK
  CellOwnedOnce
  SocketHandledOnce
PROPERTIES
  ImplementsTimeService
