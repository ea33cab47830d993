SPECIFICATION Spec
CONSTANTS
  c1 = c1
  c2 = c2
  Server = Server
  None = None
  Clients <- OneClient
  MaxClients = 2
  MaxSends = 4
  MaxLoss = 0
  MaxNoise = 0
INVARIANT
  AnswersAccepted
