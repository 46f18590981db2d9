CONSTANTS
  Kinds <- MCKinds
  MaxTimestamp = 1
  MaxFrames = 1
SPECIFICATION FairSpec
PROPERTIES
  StopTerminates
CHECK_DEADLOCK FALSE
