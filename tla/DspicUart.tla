----------------------------- MODULE DspicUart ------------------------------
(***************************************************************************)
(* arch/dspic/uart.c, what differs from the other port's (Uart): the       *)
(* interrupts are told by flags that the handlers clear and not by the     *)
(* state of the hardware, which has a buffer of its own each way.          *)
(* Transmitting, the handler gives a byte to U1TXREG whenever it runs,     *)
(* with room or not; what makes it fit is that UART_putChar waits 100 us,  *)
(* and a byte takes 87 us at 115200 baud.  Receiving, it reads one byte of *)
(* U1RXREG, and when a byte finds U1RXREG full the hardware raises OERR    *)
(* and receives nothing until the program clears it, which this one never  *)
(* does.                                                                   *)
(*                                                                         *)
(* Bytes are numbered in the order they are put, or arrive.  A ring is the *)
(* sequence of what it holds: it has as many cells, 256, as its uint8_t    *)
(* size has values, and one that is filled is empty, start and end being   *)
(* equal and the size 0 again.  The buffers of the hardware, the line and  *)
(* its timing are external.                                                *)
(***************************************************************************)
EXTENDS Naturals, Sequences

CONSTANTS RegisterBytes,      \* bytes U1TXREG and U1RXREG hold, 4 on the chip
          DspicCells,         \* UART_BUFFER_SIZE, 256
          DspicWidth,         \* values of tx_size and rx_size, 2^8
          DspicBacklog,       \* bound: bytes that wait to be got, in ring and U1RXREG
          MaxDspicBytes       \* bound: bytes in each direction

ASSUME DspicAssumption ==
  /\ {RegisterBytes, DspicCells} \subseteq Nat \ {0} /\ {DspicBacklog, MaxDspicBytes} \subseteq Nat
  /\ DspicWidth \in Nat \ {0, 1} /\ DspicCells <= DspicWidth

VARIABLES txRing, U1TXIF,     \* the transmit ring and its interrupt's flag
          U1TXREG, sentBytes, \* the hardware's buffer; bytes the line has taken
          putting,            \* the place in UART_putChar
          putBytes,           \* bytes put so far
          rxRing, U1RXIF, U1RXREG, OERR,
          clearing,           \* _U1RXInterrupt is about to clear U1RXIF
          arrivedBytes,       \* bytes received by the hardware so far
          gotBytes            \* bytes main has got

dspicTxVars == <<txRing, U1TXIF, U1TXREG, sentBytes, putting, putBytes>>
dspicRxVars == <<rxRing, U1RXIF, U1RXREG, OERR, clearing, arrivedBytes, gotBytes>>
dspicVars == <<dspicTxVars, dspicRxVars>>

\* UART_init
DspicInit ==
  /\ txRing = <<>> /\ U1TXIF = FALSE /\ U1TXREG = <<>> /\ sentBytes = <<>>
  /\ putting = "no" /\ putBytes = 0
  /\ rxRing = <<>> /\ U1RXIF = FALSE /\ U1RXREG = <<>> /\ OERR = FALSE
  /\ clearing = FALSE /\ arrivedBytes = 0 /\ gotBytes = <<>>

\* A byte written to a ring and BUFFER_PUT: the size wraps to 0 when the ring is filled, and
\* what it held is lost.
PutIn(ring, byte) == IF Len(ring) + 1 < DspicWidth THEN Append(ring, byte) ELSE <<>>

\* UART_putChar up to "disi #0", past the wait for room; main is not running inside a handler.
DspicPut ==
  /\ putting = "no" /\ ~clearing /\ putBytes < MaxDspicBytes
  /\ Len(txRing) < DspicCells
  /\ putBytes' = putBytes + 1
  /\ txRing' = PutIn(txRing, putBytes')
  /\ putting' = "flag"
  /\ UNCHANGED <<U1TXIF, U1TXREG, sentBytes, dspicRxVars>>

\* Mutant of RaiseFlag: without __delay_us(100).
RaiseFlagNoDelay ==
  /\ putting = "flag" /\ ~clearing
  /\ U1TXIF' = TRUE
  /\ putting' = "no"
  /\ UNCHANGED <<txRing, U1TXREG, sentBytes, putBytes, dspicRxVars>>

\* IFS0bits.U1TXIF = 1, and the delay begins.
RaiseFlag ==
  /\ putting = "flag" /\ ~clearing
  /\ U1TXIF' = TRUE
  /\ putting' = "delay"
  /\ UNCHANGED <<txRing, U1TXREG, sentBytes, putBytes, dspicRxVars>>

\* The line takes a byte; U1TXIF tells that it did.  A delay is longer than that
\* takes, and the interrupts that come meanwhile are served before its end.
LineTakes ==
  IF U1TXREG = <<>>
    THEN UNCHANGED <<U1TXIF, U1TXREG, sentBytes>>
    ELSE /\ sentBytes' = Append(sentBytes, Head(U1TXREG)) /\ U1TXREG' = Tail(U1TXREG)
         /\ U1TXIF' = TRUE

ByteSent == U1TXREG # <<>> /\ LineTakes /\ UNCHANGED <<txRing, putting, putBytes, dspicRxVars>>

DelayEnds ==
  /\ putting = "delay" /\ ~clearing /\ ~U1TXIF
  /\ LineTakes
  /\ putting' = "no"
  /\ UNCHANGED <<txRing, putBytes, dspicRxVars>>

\* _U1TXInterrupt: what finds U1TXREG full is lost.
TxInterrupt ==
  /\ U1TXIF /\ ~clearing
  /\ IF txRing = <<>>
       THEN U1TXIF' = FALSE /\ UNCHANGED <<txRing, U1TXREG>>
       ELSE /\ U1TXREG' = IF Len(U1TXREG) < RegisterBytes
                            THEN Append(U1TXREG, Head(txRing)) ELSE U1TXREG
            /\ txRing' = Tail(txRing)
            /\ U1TXIF' = U1TXIF
  /\ UNCHANGED <<sentBytes, putting, putBytes, dspicRxVars>>

\* A byte comes from the line, at any moment: the processor may be erasing a page of its
\* flash and serve no interrupt meanwhile.
Arrives ==
  /\ arrivedBytes < MaxDspicBytes /\ ~OERR
  /\ Len(rxRing) + Len(U1RXREG) < DspicBacklog
  /\ IF Len(U1RXREG) < RegisterBytes
       THEN /\ arrivedBytes' = arrivedBytes + 1
            /\ U1RXREG' = Append(U1RXREG, arrivedBytes')
            /\ U1RXIF' = TRUE /\ OERR' = OERR
       ELSE OERR' = TRUE /\ UNCHANGED <<arrivedBytes, U1RXREG, U1RXIF>>
  /\ UNCHANGED <<rxRing, clearing, gotBytes, dspicTxVars>>

\* _U1RXInterrupt reads one byte, drops it if the size says that the ring is full ...
RxInterrupt ==
  /\ U1RXIF /\ ~clearing
  /\ U1RXREG' = Tail(U1RXREG)
  /\ rxRing' = IF Len(rxRing) < DspicCells THEN PutIn(rxRing, Head(U1RXREG)) ELSE rxRing
  /\ clearing' = TRUE
  /\ UNCHANGED <<U1RXIF, OERR, arrivedBytes, gotBytes, dspicTxVars>>

\* ... and clears the flag, also for a byte that has come in between.
ClearFlag ==
  /\ clearing
  /\ U1RXIF' = FALSE /\ clearing' = FALSE
  /\ UNCHANGED <<rxRing, U1RXREG, OERR, arrivedBytes, gotBytes, dspicTxVars>>

\* UART_getChar, past its loop
DspicGet ==
  /\ rxRing # <<>> /\ ~clearing
  /\ gotBytes' = Append(gotBytes, Head(rxRing)) /\ rxRing' = Tail(rxRing)
  /\ UNCHANGED <<U1RXIF, U1RXREG, OERR, clearing, arrivedBytes, dspicTxVars>>

DspicNext ==
  \/ DspicPut \/ RaiseFlag \/ DelayEnds \/ TxInterrupt \/ ByteSent
  \/ Arrives \/ RxInterrupt \/ ClearFlag \/ DspicGet

DspicSpec == DspicInit /\ [][DspicNext]_dspicVars
-----------------------------------------------------------------------------
DspicTypeOK ==
  /\ putting \in {"no", "flag", "delay"} /\ {U1TXIF, U1RXIF, OERR, clearing} \subseteq BOOLEAN
  /\ Len(U1TXREG) <= RegisterBytes /\ Len(U1RXREG) <= RegisterBytes
  /\ Len(txRing) < DspicWidth /\ Len(rxRing) < DspicWidth
  /\ putBytes \in 0 .. MaxDspicBytes /\ arrivedBytes \in 0 .. MaxDspicBytes

InOrder(n) == [i \in 1 .. n |-> i]

\* Every byte that is put comes out, once and in order, though the handler writes to
\* U1TXREG without asking for room ("burns a lot of cycles but otherwise it won't work",
\* line 204, says putChar of the delay that makes the room).  While fewer bytes wait than
\* fill the ring, every byte the hardware has received is got in order: those that came
\* while the flag was cleared stay behind in U1RXREG until others come, and none is
\* forgotten (lines 192-240).
DspicKeepsBytes ==
  /\ sentBytes \o U1TXREG \o txRing = InOrder(putBytes)
  /\ gotBytes \o rxRing \o U1RXREG = InOrder(arrivedBytes)
=============================================================================
