SPECIFICATION WebSpec
CONSTANTS
  Threads = {t1}
  Clients = {c1, c2}
  NoClient = NoClient
INVARIANTS
  CleansUp
CHECK_DEADLOCK FALSE
