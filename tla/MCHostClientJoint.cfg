CONSTANTS
  runner = runner
  user = user
  Threads <- MCThreads
  Calls <- MCCallsJoint
  TIMEOUT = 3
  TxRoom = 2
  Joints = 1
  SeqWidth = 8
  FirstSeqs = {0}
  MaxCalls = 2
  MaxLosses = 0
  LineMax = 2
SPECIFICATION ClientFairSpec
PROPERTY CallsReturn
CHECK_DEADLOCK FALSE
