CONSTANTS
  JoyValues <- MCJoyValues
  TxRoom = 2
  MaxKeys = 2
  MaxEvents = 1
  left = left
  right = right
  CommCycles = 2
  WatchdogCycles = 3
  CommandKinds <- MCAll
  PacketSize <- MCBytes
  TxBytes = 254
  MaxPending = 2
  MaxCommands = 3
  WarmUp = 2
  MaxCaptured = 6
SPECIFICATION FairSpec
INVARIANTS
  FinalCommandIsStop
  StopKeyWins
  WatchdogStops
  FreshSpeed
  WholeFrames
PROPERTIES
  MailboxRequestSent
  NothingUnsent
  DriveObeyed
CHECK_DEADLOCK FALSE
