SPECIFICATION FairSpec
CONSTANTS
  Threads = {t1}
  Writers = {w1}
  Kinds <- MCKinds
  KeepsReading = FALSE
  MaxWrites = 4
INVARIANTS
  ClosedMeansFlushed
  NeverTerminates
PROPERTIES
  DeliversEverything
  ClosesWhenReleased
CHECK_DEADLOCK FALSE
