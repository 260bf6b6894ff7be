SPECIFICATION Spec
CONSTANTS
  w1 = w1
  w2 = w2
  w3 = w3
  w4 = w4
  w5 = w5
  w6 = w6
  h1 = h1
  Clients <- MCClients
  Handlers <- OneHandler
  Jobs = {"approve"}
  HEARTBEAT_INTERVAL = 30
  PONG_TIMEOUT = 30
  Capacity <- SmallStorage
INVARIANTS
  TypeOK
  HeartbeatRuns
  NobodyTwice
  OnlyNewStorageSkips
PROPERTIES
  LostRemoved
\* A socket is accepted once: the system may stop when all are gone.
CHECK_DEADLOCK FALSE
