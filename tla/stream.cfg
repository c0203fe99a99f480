SPECIFICATION StreamFairSpec
CONSTANTS
  Threads = {t1}
  Writers <- MCWriters
  Kinds <- MCKinds
  KeepsReading = FALSE
  MaxWrites = 12
  MaxQueueSize = 2
INVARIANTS
  StreamTypeOK
  WellFormedStream
  IdleIsNotBusy
  PacedWithinTick
PROPERTIES
  SilentWhenInactive
  BrokenStreamEnds
CHECK_DEADLOCK FALSE
