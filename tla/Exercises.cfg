SPECIFICATION Spec
CONSTANTS
  b1 = b1
  b2 = b2
  Nobody = Nobody
  Buyers <- MCBuyers
  ShopCount = 2
  Stock <- MCStock
  Demand <- MCDemand
  Load = 2
  MaxStock = 2
  x1 = x1
  x2 = x2
  x3 = x3
  x4 = x4
  NULL = NULL
  None = None
  Cells <- MCCells
  Records <- MCRecords
  Blank <- MCBlank
  Garbage <- MCGarbage
  Unheard = "igor"
  Size = 3
  MaxForks = 3
  MaxPipes = 2
  MaxFailures = 2
  MaxData = 2
  PipeSize = 1
  k1 = k1
  k2 = k2
  k3 = k3
  Callers <- MCCallers
  Noone = Noone
  UdpSize = 1
  MaxHangups = 1
  p1 = p1
  p2 = p2
  Openers <- MCOpeners
  Module = Module
  NUL = NUL
  Unlocked = Unlocked
  Capacity = 2
  Dirs <- MCDirs
  Root = "/"
  Parent <- MCParent
  Contents <- MCContents
  Up = ".."
  Visible = 2
  MaxMishaps = 1
  d1 = d1
  d2 = d2
  NoDriver = NoDriver
  Drivers <- MCDrivers
  MaxDrivers = 2
  Backlog = 2
  Timers <- MCTimers
  MaxTime = 1
CHECK_DEADLOCK FALSE
INVARIANTS
  TypeOK
  GoodsConserved
  BooksAgree
  AllocatedIsReachable
  ChildrenReaped
  InsideBuffer
  StringIsLastWrite
  SelectionOnScreen
PROPERTIES
  Terminates
  PromptReturns
  BothAnswered
  RejectedOrOverlooked
