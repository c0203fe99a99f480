SPECIFICATION ServerFairSpec
CONSTANTS
  Threads = {t1, t2}
  Clients = {c1, c2}
  NoClient = NoClient
INVARIANTS
  ServerTypeOK
  OneAccept
  AcceptsIntoNewConnection
PROPERTIES
  ClientsAreAccepted
  StopReturns
CHECK_DEADLOCK FALSE
