SPECIFICATION FirmwareSpec
CONSTANTS
  left = left
  right = right
  CommCycles = 2
  WatchdogCycles = 2
  CommandKinds <- MCAll
  PacketSize <- MCBytes
  TxBytes = 254
  MaxPending = 2
  MaxCommands = 1
INVARIANT TickUsesJoint
CHECK_DEADLOCK FALSE
