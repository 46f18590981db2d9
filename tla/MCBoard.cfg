CONSTANTS
  UART_BUFFER_SIZE = 4
  Width = 4
  TxBacklog = 3
  RxBacklog = 3
  MaxBytes = 6
  MaxFirmware = 2
  MaxSettings = 1
  NUM_DATA_EE_PAGES = 3
  DATA_EE_SIZE = 2
  INSTRUCTIONS_IN_PAGE = 4
  INSTRUCTIONS_IN_ROW = 2
  ERASE_WRITE_CYCLE_MAX = 2
  DataValues = {1, 2}
  MaxCount = 1
  RegisterBytes = 4
  DspicCells = 8
  DspicWidth = 8
  DspicBacklog = 7
  MaxDspicBytes = 9
  Sonars = {s1, s2}
  MaxCycle = 2
  MaxPatterns = 1
SPECIFICATION FairSpec
INVARIANTS
  RingsKeepBytes
  SavedIsKept
  NoForeignParams
  DspicKeepsBytes
  RangesAreSpans
PROPERTIES
  PutIsSent
  ImplementsStore
  ErasedBeforeProgrammed
  PolledInTurn
CHECK_DEADLOCK FALSE
