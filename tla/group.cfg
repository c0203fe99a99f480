SPECIFICATION GroupFairSpec
CONSTANTS
  Threads = {t1, t2}
  Writers = {w1}
  Kinds <- MCKinds
  KeepsReading = TRUE
  MaxWrites = 4
  Lengths <- MCLengths
  MaxBytes = 4
  Handlers <- MCHandlers
INVARIANTS
  GroupTypeOK
  OneReply
  BodyIsExact
  NeverDeaf
PROPERTIES
  BodyIsHandled
CHECK_DEADLOCK FALSE
