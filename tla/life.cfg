SPECIFICATION WebFairSpec
CONSTANTS
  Threads = {t1}
  Clients = {c1, c2}
  NoClient = NoClient
INVARIANTS
  LifeTypeOK
  HandlersEndInTime
PROPERTIES
  DestructorReturns
CHECK_DEADLOCK FALSE
