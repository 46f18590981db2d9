CONSTANTS
  Kinds <- MCKinds
  MaxTimestamp = 2
  MaxFrames = 1
SPECIFICATION FairSpec
INVARIANTS
  NeverDequeuesNull
  EachPacketOnceInOrder
  LinesInTime
  LossAtMostOneCycle
PROPERTIES
  EachPacketWritten
  StopReachesAll
CHECK_DEADLOCK FALSE
