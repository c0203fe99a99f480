SPECIFICATION GroupSpec
CONSTANTS
  Threads = {t1}
  Writers = {w1}
  Kinds <- MCKinds
  KeepsReading = TRUE
  MaxWrites = 3
  Lengths <- MCLengths
  MaxBytes = 4
  Handlers <- MCWebsocketOnly
INVARIANTS
  RunsOnLiveObject
CHECK_DEADLOCK FALSE
