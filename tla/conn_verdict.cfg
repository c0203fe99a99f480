SPECIFICATION Spec
CONSTANTS
  Threads = {t1}
  Writers = {w1}
  Kinds <- MCKinds
  KeepsReading = FALSE
  MaxWrites = 3
INVARIANTS
  VerdictIsObeyed
CHECK_DEADLOCK FALSE
