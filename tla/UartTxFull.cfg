CONSTANTS
  UART_BUFFER_SIZE = 4
  Width = 4
  TxBacklog = 4
  RxBacklog = 0
  MaxBytes = 6
SPECIFICATION UartSpec
INVARIANT PutBytesWait
CHECK_DEADLOCK FALSE
