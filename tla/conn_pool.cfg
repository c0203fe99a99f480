SPECIFICATION Spec
CONSTANTS
  Threads = {t1, t2}
  Writers = {w1, w2}
  Kinds <- MCKinds
  KeepsReading = TRUE
  MaxWrites = 4
SYMMETRY Symmetry
INVARIANTS
  TypeOK
  OneWrite
  InOrder
  NoLostWakeup
  ResourcesHeld
PROPERTIES
  ImplementsChannel
CHECK_DEADLOCK FALSE
