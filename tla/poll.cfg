SPECIFICATION Spec
CONSTANTS
  NoSock = NoSock
  Root = root
  Pool = {x1}
  NClients = 4
  l1 = l1
  l2 = l2
  Listeners = {l1, l2}
  Scenarios <- MCScenarios
  PoolSize = 4
  QueueCap = 2
INVARIANTS
  TypeOK
  TokensLead
  SocketsConserved
PROPERTIES
  EveryClientServed
  StopCompletes
CHECK_DEADLOCK FALSE
