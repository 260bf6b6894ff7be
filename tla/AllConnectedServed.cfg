SPECIFICATION Spec
CONSTANTS
  w1 = w1
  w2 = w2
  w3 = w3
  w4 = w4
  w5 = w5
  w6 = w6
  h1 = h1
  Clients <- SixClients
  Handlers <- OneHandler
  Jobs = {"reject"}
  HEARTBEAT_INTERVAL = 30
  PONG_TIMEOUT = 90
  Capacity <- CPython
SYMMETRY Symmetry6
INVARIANTS
  AllConnectedServed
\* A socket is accepted once: the system may stop when all are gone.
CHECK_DEADLOCK FALSE
