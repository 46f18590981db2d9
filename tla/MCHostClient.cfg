CONSTANTS
  runner = runner
  user = user
  Threads <- MCThreads
  Calls <- MCCallsLibrary
  TIMEOUT = 2
  TxRoom = 2
  Joints = 1
  SeqWidth = 32
  FirstSeqs = {30}
  MaxCalls = 3
  MaxLosses = 1
  LineMax = 1
SPECIFICATION ClientFairSpec
INVARIANTS
  SuccessMeansExecuted
  InSequence
PROPERTIES
  CallsReturn
CHECK_DEADLOCK FALSE
