SPECIFICATION LibavFairSpec
CONSTANTS
  Threads = {t1}
  Writers <- MCWriters
  Kinds <- MCKinds
  KeepsReading = FALSE
  MaxWrites = 8
  MaxPackets = 2
INVARIANTS
  LibavTypeOK
  OneReplyAndAtMostOneError
  ImagesFollowTheHead
PROPERTIES
  SilentWhenInactive
  BrokenStreamEnds
CHECK_DEADLOCK FALSE
