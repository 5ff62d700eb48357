SPECIFICATION FairSpec
CONSTANTS
  w1 = w1
  w2 = w2
  own1 = own1
  Workers = {w1, w2}
  Shared = {s1}
  Own <- OneOwn
  Nobody = Nobody
  NoSocket = NoSocket
  AcceptMutex = {TRUE, FALSE}
  MultiAccept = TRUE
  Reserve = 1
  Connections = 2
  MaxBacklog = 2
  MaxClients = 3
  MaxFiles = 1
  MaxFailures = 1
  MaxQuits = 1
CHECK_DEADLOCK FALSE
INVARIANTS TypeOK LockReleased OnePoller
PROPERTY AcceptProgress
