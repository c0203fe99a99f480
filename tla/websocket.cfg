SPECIFICATION ReaderSpec
CONSTANTS
  Frames <- MCFrames
  MaxFrames = 3
INVARIANTS
  FramesArriveWhole
  MessagesReassembled
  Resynchronises
CHECK_DEADLOCK FALSE
