SPECIFICATION Spec
CONSTANTS
  c1 = c1
  c2 = c2
  Server = Server
  None = None
  Clients <- TwoClients
  MaxClients = 2
  MaxSends = 4
  MaxLoss = 1
  MaxNoise = 1
CHECK_DEADLOCK FALSE
INVARIANTS
  TypeOK
  NumberedPerClient
PROPERTY
  BackToPrompt
