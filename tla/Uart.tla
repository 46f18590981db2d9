-------------------------------- MODULE Uart --------------------------------
(***************************************************************************)
(* arch/atmega2560/uart.c: the rings between the firmware's main loop,     *)
(* which calls UART_putChar and UART_getChar, and the two interrupt        *)
(* handlers, which may run between any two of its steps (not inside an     *)
(* ATOMIC_BLOCK).  The sizes are kept in uint8_t and UART_BUFFER_SIZE is   *)
(* 256, one more than they can hold.                                       *)
(*                                                                         *)
(* Bytes are numbered in the order they are put, or arrive.  TxBacklog and *)
(* RxBacklog are the most bytes that wait in a ring at a time: how much    *)
(* the main loop puts before the line has taken it, and how long it stays  *)
(* away while bytes arrive.                                                *)
(***************************************************************************)
EXTENDS Naturals, Sequences

CONSTANTS UART_BUFFER_SIZE,
          Width,                 \* 2^8: the uint8_t wrap to 0 here
          TxBacklog, RxBacklog,
          MaxBytes               \* bound: bytes in each direction

ASSUME UartAssumption ==
  /\ UART_BUFFER_SIZE \in Nat \ {0} /\ Width \in Nat \ {0}
  /\ TxBacklog \in Nat /\ RxBacklog \in Nat /\ MaxBytes \in Nat

VARIABLES tx_buffer, tx_start, tx_end, tx_size,
          rx_buffer, rx_start, rx_end, rx_size,
          udrie,                 \* the transmit interrupt is enabled
          enabling,              \* UART_putChar is about to enable it
          put, out,              \* bytes put so far; bytes the line has taken
          arrived, got           \* bytes arrived so far; bytes main has got

txVars == <<tx_buffer, tx_start, tx_end, tx_size, udrie, enabling, put, out>>
rxVars == <<rx_buffer, rx_start, rx_end, rx_size, arrived, got>>
uartVars == <<txVars, rxVars>>

NoByte == 0
Cells == 0 .. UART_BUFFER_SIZE - 1

\* UART_init
UartInit ==
  /\ tx_buffer = [i \in Cells |-> NoByte] /\ tx_start = 0 /\ tx_end = 0 /\ tx_size = 0
  /\ rx_buffer = [i \in Cells |-> NoByte] /\ rx_start = 0 /\ rx_end = 0 /\ rx_size = 0
  /\ udrie = FALSE /\ enabling = FALSE
  /\ put = 0 /\ out = <<>> /\ arrived = 0 /\ got = <<>>

\* BUFFER_PUT and BUFFER_GET: an index steps, wraps with its type, then at the
\* end of the buffer; a size steps and wraps with its type.
Inc(n) == (n + 1) % Width
Dec(n) == (n + Width - 1) % Width

Advance(index) == IF Inc(index) >= UART_BUFFER_SIZE THEN 0 ELSE Inc(index)

TxWaiting == put - Len(out)
RxWaiting == arrived - Len(got)

\* UART_putChar, past its loop and up to the end of the ATOMIC_BLOCK
PutChar ==
  /\ ~enabling /\ put < MaxBytes /\ TxWaiting < TxBacklog
  /\ tx_size < UART_BUFFER_SIZE
  /\ put' = put + 1
  /\ tx_buffer' = [tx_buffer EXCEPT ![tx_end] = put']
  /\ tx_end' = Advance(tx_end)
  /\ tx_size' = Inc(tx_size)
  /\ enabling' = TRUE
  /\ UNCHANGED <<tx_start, udrie, out, rxVars>>

\* UCSR0B |= _BV(UDRIE0)
EnableInterrupt ==
  /\ enabling
  /\ udrie' = TRUE
  /\ enabling' = FALSE
  /\ UNCHANGED <<tx_buffer, tx_start, tx_end, tx_size, put, out, rxVars>>

\* Mutant of TransmitISR: off by one in the test of the size.
TransmitISREarly ==
  /\ udrie
  /\ IF tx_size <= 1
       THEN udrie' = FALSE /\ UNCHANGED <<tx_start, tx_size, out>>
       ELSE /\ out' = Append(out, tx_buffer[tx_start])
            /\ tx_start' = Advance(tx_start)
            /\ tx_size' = Dec(tx_size)
            /\ UNCHANGED udrie
  /\ UNCHANGED <<tx_buffer, tx_end, enabling, put, rxVars>>

\* USART0_UDRE_vect
TransmitISR ==
  /\ udrie
  /\ IF tx_size = 0
       THEN udrie' = FALSE /\ UNCHANGED <<tx_start, tx_size, out>>
       ELSE /\ out' = Append(out, tx_buffer[tx_start])
            /\ tx_start' = Advance(tx_start)
            /\ tx_size' = Dec(tx_size)
            /\ UNCHANGED udrie
  /\ UNCHANGED <<tx_buffer, tx_end, enabling, put, rxVars>>

\* USART0_RX_vect: a byte that finds the ring full is dropped.
ReceiveISR ==
  /\ arrived < MaxBytes /\ RxWaiting < RxBacklog
  /\ arrived' = arrived + 1
  /\ IF rx_size < UART_BUFFER_SIZE
       THEN /\ rx_buffer' = [rx_buffer EXCEPT ![rx_end] = arrived']
            /\ rx_end' = Advance(rx_end)
            /\ rx_size' = Inc(rx_size)
       ELSE UNCHANGED <<rx_buffer, rx_end, rx_size>>
  /\ UNCHANGED <<rx_start, got, txVars>>

\* Mutant of GetChar: the size is stepped without the ATOMIC_BLOCK, and an
\* arrival in between is not counted.
GetCharLosesArrival ==
  /\ ~enabling /\ rx_size # 0
  /\ got' = Append(got, rx_buffer[rx_start])
  /\ rx_start' = Advance(rx_start)
  /\ rx_size' = Dec(rx_size)
  /\ \/ UNCHANGED <<rx_buffer, rx_end, arrived>>
     \/ /\ arrived < MaxBytes /\ RxWaiting < RxBacklog
        /\ arrived' = arrived + 1
        /\ rx_buffer' = [rx_buffer EXCEPT ![rx_end] = arrived']
        /\ rx_end' = Advance(rx_end)
  /\ UNCHANGED txVars

\* UART_getChar, past its loop; UART_rxBufferFull returns rx_size.
GetChar ==
  /\ ~enabling /\ rx_size # 0
  /\ got' = Append(got, rx_buffer[rx_start])
  /\ rx_start' = Advance(rx_start)
  /\ rx_size' = Dec(rx_size)
  /\ UNCHANGED <<rx_buffer, rx_end, arrived, txVars>>

UartNext == PutChar \/ EnableInterrupt \/ TransmitISR \/ ReceiveISR \/ GetChar

UartSpec == UartInit /\ [][UartNext]_uartVars

\* The main loop runs on past an ATOMIC_BLOCK, and an interrupt that is enabled
\* is served; nobody has to put or get a byte.
UartFairSpec == UartSpec /\ WF_uartVars(EnableInterrupt) /\ WF_uartVars(TransmitISR)

-----------------------------------------------------------------------------
(* Properties *)

\* What lies in a ring, oldest first.
Contents(buffer, start, size) ==
  [i \in 1 .. size |-> buffer[(start + i - 1) % UART_BUFFER_SIZE]]
Numbers(n) == [i \in 1 .. n |-> i]

UartTypeOK ==
  /\ tx_buffer \in [Cells -> 0 .. MaxBytes] /\ rx_buffer \in [Cells -> 0 .. MaxBytes]
  /\ {tx_start, tx_end, rx_start, rx_end} \subseteq Cells
  /\ {tx_size, rx_size} \subseteq 0 .. Width - 1
  /\ udrie \in BOOLEAN /\ enabling \in BOOLEAN
  /\ put \in 0 .. MaxBytes /\ arrived \in 0 .. MaxBytes

\* uart.h:14-16, "puts a character in the buffer of a uart / if the buffer is
\* full, the function waits": a byte that was put is in the ring until the line
\* takes it, in order, and none is overwritten.
PutBytesWait == out \o Contents(tx_buffer, tx_start, tx_size) = Numbers(put)

\* uart.h:29, rxBufferFull "returns the number of characters to be read":
\* what main has got and what that number makes it get next is all that
\* arrived, in order.  The same of what it puts.
RingsKeepBytes ==
  /\ got \o Contents(rx_buffer, rx_start, rx_size) = Numbers(arrived)
  /\ PutBytesWait

\* Every byte that is put is sent.
PutIsSent == \A n \in 1 .. MaxBytes : put >= n ~> Len(out) >= n
=============================================================================
