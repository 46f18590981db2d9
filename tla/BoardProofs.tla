---------------------------- MODULE BoardProofs -----------------------------
(***************************************************************************)
(* Parts of the board that pass bytes or times between interrupts and      *)
(* main: the rings of the atmega2560's UART, the dspic's UART, the         *)
(* parameters in the EEPROM, the sonars.  For buffers of every size and    *)
(* words of every width, every number of settings and firmwares, every set *)
(* of sonars.                                                              *)
(***************************************************************************)
EXTENDS Uart, DspicUart, EepromParams, SonarCycle, SequenceTheorems, WellFoundedInduction,
        TLAPS

-----------------------------------------------------------------------------
(* The rings of the UART (BacklogFits, RingKeeps: one ring) *)

\* What main puts and the line sends, or what arrives and main gets, fits in the buffer
\* and in the type of its size, which as wide as in the code is one byte less.
BacklogFits ==
  /\ UART_BUFFER_SIZE <= Width
  /\ TxBacklog <= UART_BUFFER_SIZE /\ TxBacklog < Width
  /\ RxBacklog <= UART_BUFFER_SIZE /\ RxBacklog < Width

\* The cell of the i-th of the bytes that wait from `start' on
Cell(start, i) ==
  IF start + i - 1 < UART_BUFFER_SIZE THEN start + i - 1 ELSE start + i - 1 - UART_BUFFER_SIZE

\* A ring from which the bytes `taken' were taken and to which `count' were given: those
\* between wait in its cells, in order, and its indices say where.
RingKeeps(buffer, start, fin, size, taken, count) ==
  /\ taken \in Seq(Nat) /\ \A k \in 1 .. Len(taken) : taken[k] = k
  /\ DOMAIN buffer = Cells /\ start \in Cells /\ fin = Cell(start, size + 1)
  /\ size \in 0 .. UART_BUFFER_SIZE /\ size < Width /\ count = Len(taken) + size
  /\ \A i \in 1 .. size : buffer[Cell(start, i)] = Len(taken) + i

\* Both rings, with a backlog that is within its bound
UartInv ==
  /\ RingKeeps(tx_buffer, tx_start, tx_end, tx_size, out, put) /\ tx_size <= TxBacklog
  /\ RingKeeps(rx_buffer, rx_start, rx_end, rx_size, got, arrived) /\ rx_size <= RxBacklog

-----------------------------------------------------------------------------
(* One ring *)

\* Indices and sizes do not wrap before they have to.
LEMMA Steps ==
  ASSUME BacklogFits
  PROVE  /\ \A i \in Cells : Advance(i) = Cell(i, 2) /\ Advance(i) \in Cells
         /\ \A n \in 0 .. Width - 2 : Inc(n) = n + 1
         /\ \A n \in 1 .. Width - 1 : Dec(n) = n - 1
<1>1. \A n \in 0 .. Width - 2 : Inc(n) = n + 1
  BY UartAssumption DEF Inc
<1>2. Inc(Width - 1) = 0
  BY UartAssumption DEF Inc
<1>3. \A n \in 1 .. Width - 1 : Dec(n) = n - 1
  <2> SUFFICES ASSUME NEW n \in 1 .. Width - 1 PROVE Dec(n) = n - 1
    OBVIOUS
  <2>1. n + Width - 1 = Width * 1 + (n - 1) /\ n - 1 \in 0 .. Width - 1
    BY UartAssumption
  <2> QED BY <2>1, UartAssumption DEF Dec
<1>4. \A i \in Cells : Advance(i) = Cell(i, 2) /\ Advance(i) \in Cells
  BY <1>1, <1>2, UartAssumption DEF BacklogFits, Advance, Cells, Cell
<1> QED BY <1>1, <1>3, <1>4

\* A byte is put behind the others.
LEMMA RingPut ==
  ASSUME BacklogFits,
         NEW buffer, NEW start, NEW fin, NEW size, NEW taken, NEW count,
         RingKeeps(buffer, start, fin, size, taken, count),
         size < UART_BUFFER_SIZE, size + 1 < Width
  PROVE  RingKeeps([buffer EXCEPT ![fin] = count + 1], start, Advance(fin), Inc(size),
                   taken, count + 1)
<1>1. /\ start \in Cells /\ fin = Cell(start, size + 1) /\ size \in Nat /\ Len(taken) \in Nat
      /\ count = Len(taken) + size /\ DOMAIN buffer = Cells
  BY LenProperties DEF RingKeeps
<1>2. fin \in Cells /\ Advance(fin) = Cell(start, size + 1 + 1) /\ Inc(size) = size + 1
  <2>1. fin \in Cells /\ Cell(fin, 2) = Cell(start, size + 1 + 1)
    BY <1>1, UartAssumption DEF Cells, Cell
  <2>2. Inc(size) = size + 1
    BY <1>1, Steps, UartAssumption
  <2> QED BY <2>1, <2>2, Steps
<1>3. \A i \in 1 .. size : Cell(start, i) \in Cells /\ Cell(start, i) # fin
  BY <1>1, UartAssumption DEF Cells, Cell
<1>4. \A i \in 1 .. size + 1 :
         [buffer EXCEPT ![fin] = count + 1][Cell(start, i)] = Len(taken) + i
  <2> SUFFICES ASSUME NEW i \in 1 .. size + 1
               PROVE  [buffer EXCEPT ![fin] = count + 1][Cell(start, i)] = Len(taken) + i
    OBVIOUS
  <2>1. CASE i = size + 1
    BY <1>1, <1>2, <2>1
  <2>2. CASE i \in 1 .. size
    BY <1>1, <1>3, <2>2 DEF RingKeeps
  <2> QED BY <1>1, <2>1, <2>2
<1>5. /\ size + 1 \in 0 .. UART_BUFFER_SIZE /\ count + 1 = Len(taken) + (size + 1)
      /\ DOMAIN [buffer EXCEPT ![fin] = count + 1] = Cells
  BY <1>1, UartAssumption
<1> QED BY <1>1, <1>2, <1>4, <1>5 DEF RingKeeps

\* The first byte is taken.
LEMMA RingGet ==
  ASSUME BacklogFits,
         NEW buffer, NEW start, NEW fin, NEW size, NEW taken, NEW count,
         RingKeeps(buffer, start, fin, size, taken, count), size # 0
  PROVE  RingKeeps(buffer, Advance(start), fin, Dec(size), Append(taken, buffer[start]), count)
<1> DEFINE more == Append(taken, buffer[start])
<1>1. /\ start \in Cells /\ fin = Cell(start, size + 1) /\ Len(taken) \in Nat
      /\ size \in 1 .. UART_BUFFER_SIZE /\ size < Width
      /\ count = Len(taken) + size /\ taken \in Seq(Nat)
  BY LenProperties DEF RingKeeps
<1>2. Cell(start, 1) = start /\ Advance(start) = Cell(start, 2) /\ Dec(size) = size - 1
      /\ Advance(start) \in Cells
  BY <1>1, Steps, UartAssumption DEF Cells, Cell
<1>3. buffer[start] = Len(taken) + 1
  BY <1>1, <1>2 DEF RingKeeps
<1>4. more \in Seq(Nat) /\ Len(more) = Len(taken) + 1 /\ \A k \in 1 .. Len(more) : more[k] = k
  BY <1>1, <1>3, AppendProperties DEF RingKeeps
<1>5. \A i \in 1 .. size : Cell(Advance(start), i) = Cell(start, i + 1)
  BY <1>1, <1>2, UartAssumption DEF Cells, Cell
<1>6. \A i \in 1 .. size - 1 : buffer[Cell(Advance(start), i)] = Len(taken) + 1 + i
  <2> SUFFICES ASSUME NEW i \in 1 .. size - 1
               PROVE  buffer[Cell(Advance(start), i)] = Len(taken) + 1 + i
    OBVIOUS
  <2>1. i + 1 \in 1 .. size /\ Cell(Advance(start), i) = Cell(start, i + 1)
    BY <1>1, <1>5
  <2>2. buffer[Cell(start, i + 1)] = Len(taken) + (i + 1)
    BY <2>1 DEF RingKeeps
  <2> QED BY <1>1, <2>1, <2>2
<1>7. /\ fin = Cell(Advance(start), Dec(size) + 1) /\ Dec(size) \in 0 .. UART_BUFFER_SIZE
      /\ Dec(size) < Width /\ count = Len(more) + Dec(size)
  BY <1>1, <1>2, <1>4, <1>5, UartAssumption
<1> QED BY <1>2, <1>4, <1>6, <1>7 DEF RingKeeps

\* What such a ring holds and what was taken are all bytes, in order.
LEMMA RingInOrder ==
  ASSUME BacklogFits,
         NEW buffer, NEW start, NEW fin, NEW size, NEW taken, NEW count,
         RingKeeps(buffer, start, fin, size, taken, count)
  PROVE  taken \o Contents(buffer, start, size) = Numbers(count)
<1>1. /\ start \in Cells /\ Len(taken) \in Nat /\ size \in 0 .. UART_BUFFER_SIZE
      /\ count = Len(taken) + size /\ taken \in Seq(Nat)
  BY LenProperties DEF RingKeeps
<1>2. \A i \in 1 .. size : (start + i - 1) % UART_BUFFER_SIZE = Cell(start, i)
  BY <1>1, UartAssumption DEF Cells, Cell
<1>3. Contents(buffer, start, size) = [i \in 1 .. size |-> Len(taken) + i]
  BY <1>2 DEF Contents, RingKeeps
<1>4. \A i \in 1 .. size : Len(taken) + i \in Nat
  BY <1>1
<1>5. /\ [i \in 1 .. size |-> Len(taken) + i] \in Seq(Nat)
      /\ Len([i \in 1 .. size |-> Len(taken) + i]) = size
  BY <1>1, <1>4
<1>6. Numbers(count) \in Seq(Nat) /\ Len(Numbers(count)) = count
  BY <1>1 DEF Numbers
<1> DEFINE whole == taken \o Contents(buffer, start, size)
<1>7. whole \in Seq(Nat) /\ Len(whole) = count
      /\ \A k \in 1 .. count : whole[k] = IF k <= Len(taken) THEN taken[k]
                                         ELSE Contents(buffer, start, size)[k - Len(taken)]
  BY <1>1, <1>3, <1>5, ConcatProperties
<1>8. \A k \in 1 .. count : whole[k] = Numbers(count)[k]
  <2> SUFFICES ASSUME NEW k \in 1 .. count PROVE whole[k] = k
    BY DEF Numbers
  <2>1. CASE k <= Len(taken)
    BY <1>1, <1>7, <2>1 DEF RingKeeps
  <2>2. CASE ~(k <= Len(taken))
    <3>1. k - Len(taken) \in 1 .. size
      BY <1>1, <2>2
    <3> QED BY <1>1, <1>3, <1>7, <2>2, <3>1
  <2> QED BY <2>1, <2>2
<1> QED BY <1>6, <1>7, <1>8, SeqEqual

-----------------------------------------------------------------------------
(* The two rings of the UART *)

\* The rings are empty at the start.
LEMMA UartInitInv == BacklogFits /\ UartInit => UartInv
BY UartAssumption, EmptySeq DEF BacklogFits, UartInit, UartInv, RingKeeps, Cells, Cell

\* Main and the two interrupts keep both rings.
LEMMA UartStepInv ==
  ASSUME BacklogFits, UartInv, [UartNext]_uartVars
  PROVE  UartInv'
<1>0. /\ Len(out) \in Nat /\ Len(got) \in Nat /\ tx_size \in Nat /\ rx_size \in Nat
      /\ TxWaiting = tx_size /\ RxWaiting = rx_size
  BY LenProperties DEF UartInv, RingKeeps, TxWaiting, RxWaiting
<1>1. CASE PutChar
  <2>1. tx_size < UART_BUFFER_SIZE /\ tx_size + 1 <= TxBacklog /\ tx_size + 1 < Width
    BY <1>0, <1>1, UartAssumption DEF BacklogFits, PutChar
  <2>2. RingKeeps(tx_buffer, tx_start, tx_end, tx_size, out, put)'
    BY <1>1, <2>1, RingPut DEF PutChar, UartInv
  <2>3. tx_size' = tx_size + 1
    BY <1>0, <1>1, <2>1, Steps, UartAssumption DEF PutChar
  <2> QED BY <1>1, <2>1, <2>2, <2>3 DEF PutChar, UartInv, rxVars
<1>2. CASE EnableInterrupt
  BY <1>2 DEF EnableInterrupt, UartInv, rxVars
<1>3. CASE TransmitISR
  <2>1. CASE tx_size = 0
    BY <1>3, <2>1 DEF TransmitISR, UartInv, rxVars
  <2>2. CASE tx_size # 0
    <3>1. RingKeeps(tx_buffer, tx_start, tx_end, tx_size, out, put)'
      BY <1>3, <2>2, RingGet DEF TransmitISR, UartInv
    <3>2. tx_size' = tx_size - 1 /\ tx_size <= TxBacklog
      BY <1>0, <1>3, <2>2, Steps, UartAssumption DEF TransmitISR, UartInv, RingKeeps
    <3> QED BY <1>0, <1>3, <3>1, <3>2, UartAssumption DEF TransmitISR, UartInv, rxVars
  <2> QED BY <2>1, <2>2
<1>4. CASE ReceiveISR
  <2>1. rx_size < UART_BUFFER_SIZE /\ rx_size + 1 <= RxBacklog /\ rx_size + 1 < Width
    BY <1>0, <1>4, UartAssumption DEF BacklogFits, ReceiveISR
  <2>2. RingKeeps(rx_buffer, rx_start, rx_end, rx_size, got, arrived)'
    BY <1>4, <2>1, RingPut DEF ReceiveISR, UartInv
  <2>3. rx_size' = rx_size + 1
    BY <1>0, <1>4, <2>1, Steps, UartAssumption DEF ReceiveISR
  <2> QED BY <1>4, <2>1, <2>2, <2>3 DEF ReceiveISR, UartInv, txVars
<1>5. CASE GetChar
  <2>1. RingKeeps(rx_buffer, rx_start, rx_end, rx_size, got, arrived)'
    BY <1>5, RingGet DEF GetChar, UartInv
  <2>2. rx_size' = rx_size - 1 /\ rx_size <= RxBacklog
    <3>1. rx_size # 0 /\ rx_size <= RxBacklog /\ rx_size' = Dec(rx_size)
      BY <1>5 DEF GetChar, UartInv
    <3>2. rx_size \in 1 .. Width - 1
      BY <1>0, <3>1, UartAssumption DEF UartInv, RingKeeps
    <3> QED BY <1>0, <3>1, <3>2, Steps
  <2> QED BY <1>0, <1>5, <2>1, <2>2, UartAssumption DEF GetChar, UartInv, txVars
<1>6. CASE UNCHANGED uartVars
  BY <1>6 DEF uartVars, txVars, rxVars, UartInv
<1> QED BY <1>1, <1>2, <1>3, <1>4, <1>5, <1>6 DEF UartNext

\* While no more bytes wait than the buffer and the type of its size hold, no
\* byte is overwritten, lost or got twice, whatever the order of main and of
\* the interrupts is (uart.c:84-135).
THEOREM UartBytes == BacklogFits => (UartSpec => []RingsKeepBytes)
<1> SUFFICES ASSUME BacklogFits PROVE UartSpec => []RingsKeepBytes
  OBVIOUS
<1>1. UartInv => RingsKeepBytes
  BY RingInOrder DEF UartInv, RingsKeepBytes, PutBytesWait
<1>2. UartInit => UartInv
  BY UartInitInv
<1>3. UartInv /\ [UartNext]_uartVars => UartInv'
  BY UartStepInv
<1> QED BY <1>1, <1>2, <1>3, PTL DEF UartSpec

\* An index moves on to a cell, a size to a value of its type, wrapped if need be.
LEMMA RingSteps ==
  /\ \A i \in Cells : Advance(i) \in Cells
  /\ \A n \in 0 .. Width - 1 : Inc(n) \in 0 .. Width - 1 /\ Dec(n) \in 0 .. Width - 1
<1>1. \A n \in Nat : Inc(n) \in 0 .. Width - 1
  BY UartAssumption DEF Inc
<1>2. \A n \in Nat : n + Width - 1 \in Nat
  BY UartAssumption
<1>3. \A n \in Nat : Dec(n) \in 0 .. Width - 1
  BY <1>2, UartAssumption DEF Dec
<1>4. \A i \in Cells : Advance(i) \in Cells
  BY <1>1, UartAssumption DEF Advance, Cells
<1> QED BY <1>1, <1>3, <1>4

\* Whatever waits in the rings, within their bounds or not, indices and sizes stay those
\* of cells and of the uint8_t (uart.c:84-135).
THEOREM UartTypes == UartSpec => []UartTypeOK
<1>1. UartInit => UartTypeOK
  BY UartAssumption DEF UartInit, UartTypeOK, Cells, NoByte
<1>2. UartTypeOK /\ [UartNext]_uartVars => UartTypeOK'
  <2> SUFFICES ASSUME UartTypeOK, [UartNext]_uartVars
               PROVE  UartTypeOK'
    OBVIOUS
  <2> USE RingSteps, UartAssumption
  <2>1. CASE PutChar
    BY <2>1 DEF PutChar, rxVars, UartTypeOK
  <2>2. CASE EnableInterrupt
    BY <2>2 DEF EnableInterrupt, rxVars, UartTypeOK
  <2>3. CASE TransmitISR
    BY <2>3 DEF TransmitISR, rxVars, UartTypeOK
  <2>4. CASE ReceiveISR
    BY <2>4 DEF ReceiveISR, txVars, UartTypeOK
  <2>5. CASE GetChar
    BY <2>5 DEF GetChar, txVars, UartTypeOK
  <2>6. CASE UNCHANGED uartVars
    BY <2>6 DEF uartVars, txVars, rxVars, UartTypeOK
  <2> QED BY <2>1, <2>2, <2>3, <2>4, <2>5, <2>6 DEF UartNext
<1> QED BY <1>1, <1>2, PTL DEF UartSpec

-----------------------------------------------------------------------------
(* The dspic's UART *)

\* The bytes that wait fit in the receive ring and in the type of its size, which as wide as
\* in the code is one byte less.
DspicFits == DspicBacklog <= DspicCells /\ DspicBacklog < DspicWidth

\* The delay makes the room: one byte at most is in the ring and in U1TXREG together.
DelayInv ==
  /\ {txRing, U1TXREG, sentBytes} \subseteq Seq(Nat) /\ putBytes \in Nat
  /\ putting \in {"no", "flag", "delay"}
  /\ Len(U1TXREG) + Len(txRing) <= IF putting = "no" THEN 0 ELSE 1
  /\ putting = "delay" /\ ~U1TXIF => txRing = <<>>

\* The receive interrupt finds a byte in U1RXREG.
FlagInv ==
  /\ {rxRing, U1RXREG, gotBytes} \subseteq Seq(Nat) /\ arrivedBytes \in Nat
  /\ U1RXIF /\ ~clearing => U1RXREG # <<>>

\* What DspicKeepsBytes says of each way
SentKept == sentBytes \o U1TXREG \o txRing = InOrder(putBytes)
GotKept == gotBytes \o rxRing \o U1RXREG = InOrder(arrivedBytes)

\* What has arrived waits within the bound, and is in order.
ReceiveKept == Len(rxRing) + Len(U1RXREG) <= DspicBacklog /\ GotKept

\* The inductive invariant
DspicInv == DelayInv /\ FlagInv /\ SentKept /\ (DspicFits => ReceiveKept)

\* A byte that goes from the head of a sequence to the end of the one before it
LEMMA MoveHead ==
  ASSUME NEW s \in Seq(Nat), NEW t \in Seq(Nat), t # <<>>
  PROVE  Append(s, Head(t)) \o Tail(t) = s \o t
<1>1. Head(t) \in Nat /\ Tail(t) \in Seq(Nat) /\ Len(Tail(t)) = Len(t) - 1 /\ Len(t) \in Nat
      /\ \A i \in 1 .. Len(Tail(t)) : Tail(t)[i] = t[i + 1]
  BY HeadTailProperties, LenProperties
<1>2. Len(s) \in Nat /\ Len(t) # 0
  BY LenProperties, EmptySeq
<1>3. /\ Append(s, Head(t)) \in Seq(Nat) /\ Len(Append(s, Head(t))) = Len(s) + 1
      /\ \A i \in 1 .. Len(s) : Append(s, Head(t))[i] = s[i]
      /\ Append(s, Head(t))[Len(s) + 1] = t[1]
  BY <1>1, AppendProperties
<1> DEFINE moved == Append(s, Head(t)) \o Tail(t)
<1>4. moved \in Seq(Nat) /\ s \o t \in Seq(Nat)
      /\ Len(moved) = Len(s) + Len(t) /\ Len(s \o t) = Len(s) + Len(t)
  BY <1>1, <1>2, <1>3, ConcatProperties
<1>5. ASSUME NEW i \in 1 .. Len(s) + Len(t)
      PROVE  moved[i] = (s \o t)[i]
  <2>1. (s \o t)[i] = IF i <= Len(s) THEN s[i] ELSE t[i - Len(s)]
    BY <1>1, <1>2, ConcatProperties
  <2>2. moved[i] = IF i <= Len(s) + 1 THEN Append(s, Head(t))[i] ELSE Tail(t)[i - (Len(s) + 1)]
    BY <1>1, <1>2, <1>3, ConcatProperties
  <2>3. CASE i <= Len(s)
    BY <1>1, <1>2, <1>3, <2>1, <2>2, <2>3
  <2>4. CASE i = Len(s) + 1
    BY <1>1, <1>2, <1>3, <2>1, <2>2, <2>4
  <2>5. CASE i > Len(s) + 1
    <3>1. i - (Len(s) + 1) \in 1 .. Len(Tail(t)) /\ i - (Len(s) + 1) + 1 = i - Len(s)
      BY <1>1, <1>2, <2>5
    <3> QED BY <1>1, <1>2, <2>1, <2>2, <2>5, <3>1
  <2> QED BY <1>2, <2>3, <2>4, <2>5
<1> QED BY <1>4, <1>5, SeqEqual

\* Associativity, for sequences of bytes
LEMMA Associative == \A r, s, t \in Seq(Nat) : (r \o s) \o t = r \o (s \o t)
BY ConcatAssociative, SMTT(60)

\* The same, behind other bytes
LEMMA MoveBehind ==
  ASSUME NEW r \in Seq(Nat), NEW s \in Seq(Nat), NEW t \in Seq(Nat), t # <<>>
  PROVE  r \o Append(s, Head(t)) \o Tail(t) = r \o s \o t
<1>1. Head(t) \in Nat /\ Tail(t) \in Seq(Nat) /\ Append(s, Head(t)) \in Seq(Nat)
  BY HeadTailProperties, AppendProperties
<1>2. PICK s1 \in Seq(Nat), t1 \in Seq(Nat) : s1 = Append(s, Head(t)) /\ t1 = Tail(t)
  BY <1>1
<1>3. s1 \o t1 = s \o t
  BY <1>2, MoveHead
<1>4. r \o s1 \o t1 = r \o (s1 \o t1)
  BY Associative, ZenonT(60)
<1>5. r \o s \o t = r \o (s \o t)
  BY Associative, ZenonT(60)
<1> QED BY <1>2, <1>3, <1>4, <1>5

\* The next byte at the end
LEMMA NextInOrder ==
  ASSUME NEW r \in Seq(Nat), NEW s \in Seq(Nat), NEW t \in Seq(Nat), NEW n \in Nat,
         r \o s \o t = InOrder(n)
  PROVE  r \o s \o Append(t, n + 1) = InOrder(n + 1)
<1>1. r \o s \in Seq(Nat)
  BY ConcatProperties
<1>2. Append(t, n + 1) = t \o <<n + 1>> /\ <<n + 1>> \in Seq(Nat)
  BY AppendIsConcat
<1>3. r \o s \o Append(t, n + 1) = (r \o s \o t) \o <<n + 1>>
  <2>1. PICK u \in Seq(Nat), v \in Seq(Nat) : u = r \o s /\ v = <<n + 1>>
    BY <1>1, <1>2
  <2>2. (u \o t) \o v = u \o (t \o v)
    BY Associative, ZenonT(60)
  <2> QED BY <1>2, <2>1, <2>2
<1>4. InOrder(n) \in Seq(Nat) /\ Len(InOrder(n)) = n
      /\ InOrder(n + 1) \in Seq(Nat) /\ Len(InOrder(n + 1)) = n + 1
  BY DEF InOrder
<1>5. InOrder(n) \o <<n + 1>> = Append(InOrder(n), n + 1)
  BY <1>4, AppendIsConcat
<1>6. /\ Append(InOrder(n), n + 1) \in Seq(Nat) /\ Len(Append(InOrder(n), n + 1)) = n + 1
      /\ \A i \in 1 .. n : Append(InOrder(n), n + 1)[i] = InOrder(n)[i]
      /\ Append(InOrder(n), n + 1)[n + 1] = n + 1
  BY <1>4, AppendProperties
<1>7. \A i \in 1 .. n + 1 : Append(InOrder(n), n + 1)[i] = InOrder(n + 1)[i]
  BY <1>6 DEF InOrder
<1>8. Append(InOrder(n), n + 1) = InOrder(n + 1)
  BY <1>4, <1>6, <1>7, SeqEqual
<1> QED BY <1>3, <1>5, <1>8

\* Lengths of what is taken and of what is added
LEMMA Lengths ==
  ASSUME NEW s \in Seq(Nat)
  PROVE  /\ Len(s) \in Nat /\ (s = <<>> <=> Len(s) = 0)
         /\ s # <<>> => Head(s) \in Nat /\ Tail(s) \in Seq(Nat) /\ Len(Tail(s)) = Len(s) - 1
BY LenProperties, EmptySeq, HeadTailProperties

\* What one byte more makes of a sequence
LEMMA Appended ==
  ASSUME NEW s \in Seq(Nat), NEW n \in Nat
  PROVE  Append(s, n) \in Seq(Nat) /\ Len(Append(s, n)) = Len(s) + 1 /\ Append(s, n) # <<>>
BY AppendProperties

\* A ring's size stays a value of its type; with room, the byte is behind the others.
LEMMA PutInRing ==
  ASSUME NEW ring \in Seq(Nat), NEW byte \in Nat
  PROVE  /\ PutIn(ring, byte) \in Seq(Nat) /\ Len(PutIn(ring, byte)) < DspicWidth
         /\ Len(ring) + 1 < DspicWidth => PutIn(ring, byte) = Append(ring, byte)
<1>1. Len(ring) \in Nat /\ Append(ring, byte) \in Seq(Nat) /\ Len(Append(ring, byte)) = Len(ring) + 1
  BY Lengths, Appended
<1>2. <<>> \in Seq(Nat) /\ Len(<<>>) = 0 /\ 0 < DspicWidth
  BY EmptySeq, DspicAssumption
<1> QED BY <1>1, <1>2 DEF PutIn

\* Nothing has been put or has arrived at the start.
LEMMA DspicInitInv == DspicInit => DspicInv
<1> SUFFICES ASSUME DspicInit PROVE DspicInv
  OBVIOUS
<1>1. <<>> \in Seq(Nat) /\ Len(<<>>) = 0
  BY EmptySeq
<1>2. <<>> \o <<>> \o <<>> = InOrder(0)
  <2>1. <<>> \o <<>> = <<>>
    BY <1>1, ConcatEmptySeq
  <2>2. InOrder(0) \in Seq(Nat) /\ Len(InOrder(0)) = 0
    BY DEF InOrder
  <2> QED BY <1>1, <2>1, <2>2, EmptySeq
<1>3. ReceiveKept
  BY <1>1, <1>2, DspicAssumption DEF DspicInit, ReceiveKept, GotKept
<1> QED BY <1>1, <1>2, <1>3 DEF DspicInit, DspicInv, DelayInv, FlagInv, SentKept

\* The line takes the first byte of U1TXREG.
LEMMA LineTakesInv ==
  ASSUME DspicInv, LineTakes
  PROVE  /\ {U1TXREG', sentBytes'} \subseteq Seq(Nat)
         /\ Len(U1TXREG') = IF U1TXREG = <<>> THEN 0 ELSE Len(U1TXREG) - 1
         /\ sentBytes' \o U1TXREG' \o txRing = InOrder(putBytes)
<1>1. CASE U1TXREG = <<>>
  BY <1>1, Lengths DEF LineTakes, DspicInv, DelayInv, SentKept
<1>2. CASE U1TXREG # <<>>
  <2>1. U1TXREG \in Seq(Nat) /\ sentBytes \in Seq(Nat)
    BY DEF DspicInv, DelayInv
  <2>2. Head(U1TXREG) \in Nat /\ Tail(U1TXREG) \in Seq(Nat) /\ Len(Tail(U1TXREG)) = Len(U1TXREG) - 1
    BY <1>2, <2>1, Lengths
  <2>3. sentBytes' = Append(sentBytes, Head(U1TXREG)) /\ U1TXREG' = Tail(U1TXREG)
    BY <1>2 DEF LineTakes
  <2>4. sentBytes' \o U1TXREG' = sentBytes \o U1TXREG
    BY <1>2, <2>1, <2>3, MoveHead
  <2> QED BY <1>2, <2>1, <2>2, <2>3, <2>4, Appended DEF DspicInv, SentKept
<1> QED BY <1>1, <1>2

\* putChar, the transmit interrupt and the line keep the order of what is put.
LEMMA TransmitInv ==
  ASSUME DspicInv, DspicPut \/ RaiseFlag \/ DelayEnds \/ TxInterrupt \/ ByteSent
  PROVE  DspicInv'
<1> SUFFICES DelayInv' /\ SentKept'
  <2>1. UNCHANGED dspicRxVars
    BY DEF DspicPut, RaiseFlag, DelayEnds, TxInterrupt, ByteSent
  <2> QED BY <2>1 DEF dspicRxVars, DspicInv, FlagInv, ReceiveKept, GotKept
<1>0. /\ {txRing, U1TXREG, sentBytes} \subseteq Seq(Nat) /\ putBytes \in Nat
      /\ Len(U1TXREG) \in Nat /\ Len(txRing) \in Nat
  BY Lengths DEF DspicInv, DelayInv
<1>1. CASE DspicPut
  <2>1. txRing' \in Seq(Nat) /\ Len(txRing') = Len(txRing) + 1 /\ putBytes' = putBytes + 1
        /\ putBytes' \in Nat /\ txRing' = Append(txRing, putBytes + 1)
    <3>1. Len(txRing) = 0
      <4>1. Len(U1TXREG) + Len(txRing) <= 0
        BY <1>1 DEF DspicPut, DspicInv, DelayInv
      <4> QED BY <1>0, <4>1
    <3>2. Len(txRing) + 1 < DspicWidth
      BY <3>1, DspicAssumption
    <3>3. putBytes + 1 \in Nat /\ putBytes' = putBytes + 1 /\ txRing' = PutIn(txRing, putBytes + 1)
      BY <1>0, <1>1 DEF DspicPut
    <3> QED BY <1>0, <3>2, <3>3, PutInRing, Appended
  <2>2. SentKept'
    <3>1. sentBytes \o U1TXREG \o txRing = InOrder(putBytes)
      BY DEF DspicInv, SentKept
    <3>2. sentBytes \o U1TXREG \o Append(txRing, putBytes + 1) = InOrder(putBytes + 1)
      BY <1>0, <3>1, NextInOrder
    <3>3. sentBytes' = sentBytes /\ U1TXREG' = U1TXREG
      BY <1>1 DEF DspicPut
    <3> QED BY <2>1, <3>2, <3>3 DEF SentKept
  <2>3. DelayInv'
    BY <1>0, <1>1, <2>1 DEF DspicPut, DspicInv, DelayInv
  <2> QED BY <2>2, <2>3
<1>2. CASE RaiseFlag
  BY <1>0, <1>2 DEF RaiseFlag, DspicInv, DelayInv, SentKept
<1>3. CASE DelayEnds \/ ByteSent
  <2>1. LineTakes /\ UNCHANGED <<txRing, putBytes>>
        /\ \/ putting' = putting
           \/ putting = "delay" /\ putting' = "no" /\ ~U1TXIF
        /\ (U1TXREG # <<>> => U1TXIF')
        /\ (ByteSent => U1TXREG # <<>>)
    BY <1>3 DEF DelayEnds, ByteSent, LineTakes
  <2>2. Len(U1TXREG') + Len(txRing) <= IF putting' = "no" THEN 0 ELSE 1
    <3>1. PICK before \in Nat, after \in Nat, ringed \in Nat :
            /\ before = Len(U1TXREG) /\ after = Len(U1TXREG') /\ ringed = Len(txRing)
            /\ after = IF before = 0 THEN 0 ELSE before - 1
      BY <1>0, <2>1, LineTakesInv, Lengths
    <3>2. before + ringed <= IF putting = "no" THEN 0 ELSE 1
      BY <3>1 DEF DspicInv, DelayInv
    <3>3. CASE putting' = putting
      BY <3>1, <3>2, <3>3
    <3>4. CASE putting = "delay" /\ putting' = "no" /\ ~U1TXIF
      <4>1. ringed = 0
        BY <1>0, <3>1, <3>4, Lengths DEF DspicInv, DelayInv
      <4> QED BY <3>1, <3>2, <3>4, <4>1
    <3> QED BY <2>1, <3>3, <3>4
  <2>3. putting' = "delay" /\ ~U1TXIF' => txRing' = <<>>
    BY <1>3, <2>1 DEF DelayEnds, ByteSent, DspicInv, DelayInv
  <2>4. DelayInv'
    BY <1>0, <2>1, <2>2, <2>3, LineTakesInv DEF DspicInv, DelayInv
  <2> QED BY <2>1, <2>4, LineTakesInv DEF SentKept
<1>4. CASE TxInterrupt
  <2>1. CASE txRing = <<>>
    BY <1>0, <1>4, <2>1 DEF TxInterrupt, DspicInv, DelayInv, SentKept
  <2>2. CASE txRing # <<>>
    <3>1. Len(txRing) = 1 /\ Len(U1TXREG) = 0 /\ putting # "no"
      <4>1. Len(txRing) # 0
        BY <1>0, <2>2, Lengths
      <4>2. /\ putting = "no" => Len(U1TXREG) + Len(txRing) <= 0
            /\ Len(U1TXREG) + Len(txRing) <= 1
        BY <1>0 DEF DspicInv, DelayInv
      <4>3. PICK m \in Nat, n \in Nat : m = Len(U1TXREG) /\ n = Len(txRing)
        BY <1>0
      <4>4. n = 1 /\ m = 0 /\ putting # "no"
        BY <4>1, <4>2, <4>3
      <4> QED BY <4>3, <4>4
    <3>2. U1TXREG' = Append(U1TXREG, Head(txRing)) /\ txRing' = Tail(txRing)
      BY <1>4, <2>2, <3>1, DspicAssumption DEF TxInterrupt
    <3>3. /\ U1TXREG' \in Seq(Nat) /\ txRing' \in Seq(Nat)
          /\ Len(U1TXREG') = 1 /\ Len(txRing') = 0 /\ txRing' = <<>>
      <4>1. Head(txRing) \in Nat /\ txRing' \in Seq(Nat) /\ Len(txRing') = 0
        BY <1>0, <2>2, <3>1, <3>2, Lengths
      <4> QED BY <1>0, <3>1, <3>2, <4>1, Appended, Lengths
    <3>4. sentBytes \o U1TXREG' \o txRing' = InOrder(putBytes)
      BY <1>0, <2>2, <3>2, MoveBehind DEF DspicInv, SentKept
    <3>5. DelayInv'
      BY <1>0, <1>4, <3>1, <3>3 DEF TxInterrupt, DspicInv, DelayInv
    <3> QED BY <1>4, <3>4, <3>5 DEF TxInterrupt, SentKept
  <2> QED BY <2>1, <2>2
<1> QED BY <1>1, <1>2, <1>3, <1>4

\* The line, the receive interrupt and getChar find what they take.
LEMMA ReceiveTyped ==
  ASSUME FlagInv, Arrives \/ RxInterrupt \/ ClearFlag \/ DspicGet
  PROVE  FlagInv'
<1>0. {rxRing, U1RXREG, gotBytes} \subseteq Seq(Nat) /\ arrivedBytes \in Nat
  BY DEF FlagInv
<1>1. CASE Arrives
  <2>1. arrivedBytes + 1 \in Nat
    BY <1>0
  <2> QED BY <1>0, <1>1, <2>1, Appended DEF Arrives, FlagInv
<1>2. CASE RxInterrupt
  <2>1. U1RXREG # <<>>
    BY <1>2 DEF RxInterrupt, FlagInv
  <2>2. Head(U1RXREG) \in Nat /\ U1RXREG' \in Seq(Nat)
    BY <1>0, <1>2, <2>1, Lengths DEF RxInterrupt
  <2>3. rxRing' \in Seq(Nat)
    BY <1>0, <1>2, <2>2, PutInRing DEF RxInterrupt
  <2> QED BY <1>0, <1>2, <2>2, <2>3 DEF RxInterrupt, FlagInv
<1>3. CASE ClearFlag
  BY <1>0, <1>3 DEF ClearFlag, FlagInv
<1>4. CASE DspicGet
  <2>1. rxRing' \in Seq(Nat) /\ gotBytes' \in Seq(Nat)
    BY <1>0, <1>4, Lengths, Appended DEF DspicGet
  <2> QED BY <1>0, <1>4, <2>1 DEF DspicGet, FlagInv
<1> QED BY <1>1, <1>2, <1>3, <1>4

\* They keep the order of what arrives, the ring never being full.
LEMMA ReceiveInv ==
  ASSUME DspicFits, FlagInv, ReceiveKept, Arrives \/ RxInterrupt \/ ClearFlag \/ DspicGet
  PROVE  ReceiveKept'
<1>0. /\ {rxRing, U1RXREG, gotBytes} \subseteq Seq(Nat) /\ arrivedBytes \in Nat
      /\ Len(rxRing) \in Nat /\ Len(U1RXREG) \in Nat
      /\ Len(rxRing) + Len(U1RXREG) <= DspicBacklog /\ DspicBacklog \in Nat
  BY Lengths, DspicAssumption DEF FlagInv, ReceiveKept
<1>1. CASE Arrives
  <2>1. CASE Len(U1RXREG) < RegisterBytes
    <3>1. arrivedBytes' = arrivedBytes + 1 /\ U1RXREG' = Append(U1RXREG, arrivedBytes + 1)
          /\ gotBytes' = gotBytes /\ rxRing' = rxRing
          /\ Len(rxRing) + Len(U1RXREG) < DspicBacklog
      BY <1>1, <2>1 DEF Arrives
    <3>2. gotBytes \o rxRing \o Append(U1RXREG, arrivedBytes + 1) = InOrder(arrivedBytes + 1)
      BY <1>0, NextInOrder DEF ReceiveKept, GotKept
    <3>3. Len(Append(U1RXREG, arrivedBytes + 1)) = Len(U1RXREG) + 1
      BY <1>0, Appended
    <3>4. Len(rxRing') + Len(U1RXREG') <= DspicBacklog
      BY <1>0, <3>1, <3>3
    <3> QED BY <3>1, <3>2, <3>4 DEF ReceiveKept, GotKept
  <2>2. CASE ~(Len(U1RXREG) < RegisterBytes)
    BY <1>1, <2>2 DEF Arrives, ReceiveKept, GotKept
  <2> QED BY <2>1, <2>2
<1>2. CASE RxInterrupt
  <2>1. U1RXREG # <<>>
    BY <1>2 DEF RxInterrupt, FlagInv
  <2>2. Len(U1RXREG) >= 1 /\ Len(Tail(U1RXREG)) = Len(U1RXREG) - 1 /\ Head(U1RXREG) \in Nat
    BY <1>0, <2>1, Lengths
  <2>3. Len(rxRing) < DspicCells /\ Len(rxRing) + 1 < DspicWidth
    BY <1>0, <2>2, DspicAssumption DEF DspicFits
  <2>4. rxRing' = Append(rxRing, Head(U1RXREG)) /\ U1RXREG' = Tail(U1RXREG)
        /\ UNCHANGED <<gotBytes, arrivedBytes>>
    BY <1>0, <1>2, <2>2, <2>3, PutInRing DEF RxInterrupt
  <2>5. GotKept'
    BY <1>0, <2>1, <2>4, MoveBehind DEF ReceiveKept, GotKept
  <2>6. Len(rxRing') + Len(U1RXREG') <= DspicBacklog
    <3>1. Len(Append(rxRing, Head(U1RXREG))) = Len(rxRing) + 1
      BY <1>0, <2>2, Appended
    <3>2. PICK m \in Nat, n \in Nat : m = Len(rxRing) /\ n = Len(U1RXREG) /\ m + n <= DspicBacklog
      BY <1>0
    <3>3. Len(rxRing') = m + 1
      BY <2>4, <3>1, <3>2, Zenon
    <3>4. Len(U1RXREG') = n - 1
      BY <2>2, <2>4, <3>2, Zenon
    <3> QED BY <1>0, <3>2, <3>3, <3>4
  <2> QED BY <2>5, <2>6 DEF ReceiveKept
<1>3. CASE ClearFlag
  BY <1>3 DEF ClearFlag, ReceiveKept, GotKept
<1>4. CASE DspicGet
  <2>1. GotKept'
    BY <1>0, <1>4, MoveHead DEF DspicGet, ReceiveKept, GotKept
  <2>2. Len(rxRing') + Len(U1RXREG') <= DspicBacklog
    <3>1. rxRing # <<>> /\ rxRing' = Tail(rxRing) /\ U1RXREG' = U1RXREG
      BY <1>4 DEF DspicGet
    <3>2. Len(Tail(rxRing)) = Len(rxRing) - 1
      BY <1>0, <3>1, Lengths
    <3> QED BY <1>0, <3>1, <3>2
  <2> QED BY <2>1, <2>2 DEF ReceiveKept
<1> QED BY <1>1, <1>2, <1>3, <1>4

\* Every step keeps the invariant.
LEMMA DspicStepInv ==
  ASSUME DspicInv, [DspicNext]_dspicVars
  PROVE  DspicInv'
<1>1. CASE UNCHANGED dspicVars
  BY <1>1 DEF dspicVars, dspicTxVars, dspicRxVars, DspicInv, DelayInv, FlagInv, SentKept,
              ReceiveKept, GotKept
<1>2. CASE Arrives \/ RxInterrupt \/ ClearFlag \/ DspicGet
  <2>1. UNCHANGED dspicTxVars
    BY <1>2 DEF Arrives, RxInterrupt, ClearFlag, DspicGet
  <2>2. DelayInv' /\ SentKept'
    BY <2>1 DEF dspicTxVars, DspicInv, DelayInv, SentKept
  <2>3. DspicFits' = DspicFits
    BY DEF DspicFits
  <2> QED BY <1>2, <2>2, <2>3, ReceiveTyped, ReceiveInv DEF DspicInv
<1> QED BY <1>1, <1>2, TransmitInv DEF DspicNext

\* Every byte that is put comes out once and in order though the interrupt does
\* not ask for room.  While the bytes that wait do not fill the ring, every byte
\* the hardware received is got in order, those left behind in U1RXREG too
\* (dspic/uart.c:192-240).
THEOREM DspicBytes == DspicFits => (DspicSpec => []DspicKeepsBytes)
<1> SUFFICES ASSUME DspicFits PROVE DspicSpec => []DspicKeepsBytes
  OBVIOUS
<1>1. DspicInv => DspicKeepsBytes
  BY DEF DspicInv, SentKept, ReceiveKept, GotKept, DspicKeepsBytes
<1> QED BY <1>1, DspicInitInv, DspicStepInv, PTL DEF DspicSpec

\* U1TXREG is never given more than it holds, nor is U1RXREG, and sizes stay those of a
\* uint8_t, for every number of bytes and however many wait (dspic/uart.c:192-240).
THEOREM DspicTypes == DspicSpec => []DspicTypeOK
<1> DEFINE Inv == DspicInv /\ DspicTypeOK
<1>1. DspicInit => Inv
  <2>1. <<>> \in Seq(Nat) /\ Len(<<>>) = 0
    BY EmptySeq
  <2>2. ASSUME DspicInit PROVE DspicTypeOK
    <3>1. {U1TXIF, U1RXIF, OERR, clearing} \subseteq BOOLEAN
      BY <2>2 DEF DspicInit
    <3>2. Len(U1TXREG) <= RegisterBytes /\ Len(U1RXREG) <= RegisterBytes
      BY <2>1, <2>2, DspicAssumption DEF DspicInit
    <3>3. 0 \in 0 .. MaxDspicBytes
      BY DspicAssumption
    <3>4. Len(txRing) < DspicWidth /\ Len(rxRing) < DspicWidth
      BY <2>1, <2>2, DspicAssumption DEF DspicInit
    <3> QED BY <2>2, <3>1, <3>2, <3>3, <3>4 DEF DspicInit, DspicTypeOK
  <2> QED BY <2>2, DspicInitInv
<1>2. Inv /\ [DspicNext]_dspicVars => Inv'
  <2> SUFFICES ASSUME DspicInv, DspicTypeOK, [DspicNext]_dspicVars
               PROVE  DspicTypeOK'
    BY DspicStepInv
  <2>1. /\ U1RXREG \in Seq(Nat) /\ U1TXREG' \in Seq(Nat) /\ txRing' \in Seq(Nat)
        /\ Len(U1TXREG') + Len(txRing') <= IF putting' = "no" THEN 0 ELSE 1
    BY DspicStepInv DEF DspicInv, DelayInv, FlagInv
  <2>2. /\ Len(U1TXREG') <= RegisterBytes /\ Len(U1RXREG) \in Nat
        /\ (U1RXREG # <<>> => Len(Tail(U1RXREG)) = Len(U1RXREG) - 1)
    <3>1. Len(U1TXREG') \in Nat /\ Len(txRing') \in Nat /\ Len(U1RXREG) \in Nat
      BY <2>1, Lengths
    <3>2. Len(U1TXREG') <= RegisterBytes
      BY <2>1, <3>1, DspicAssumption
    <3> QED BY <2>1, <3>1, <3>2, Lengths
  <2>9. Len(txRing') < DspicWidth /\ Len(rxRing') < DspicWidth
    <3>1. Len(txRing') <= 1
      <4>1. Len(U1TXREG') \in Nat /\ Len(txRing') \in Nat
        BY <2>1, Lengths
      <4> QED BY <2>1, <4>1
    <3>2. rxRing \in Seq(Nat) /\ Len(rxRing) < DspicWidth /\ Len(rxRing) \in Nat
      BY Lengths DEF DspicInv, FlagInv, DspicTypeOK
    <3>3. CASE RxInterrupt
      <4>1. Head(U1RXREG) \in Nat
        BY <2>1, <3>3, Lengths DEF RxInterrupt, DspicInv, FlagInv
      <4> QED BY <3>1, <3>2, <3>3, <4>1, PutInRing, DspicAssumption DEF RxInterrupt
    <3>4. CASE DspicGet
      <4>1. Len(rxRing') = Len(rxRing) - 1
        BY <3>2, <3>4, Lengths DEF DspicGet
      <4> QED BY <3>1, <3>2, <4>1, DspicAssumption
    <3>5. CASE rxRing' = rxRing
      BY <3>1, <3>2, <3>5, DspicAssumption
    <3>6. RxInterrupt \/ DspicGet \/ rxRing' = rxRing
      BY DEF DspicNext, DspicPut, RaiseFlag, DelayEnds, TxInterrupt, ByteSent, Arrives, ClearFlag,
             dspicVars, dspicRxVars
    <3> QED BY <3>3, <3>4, <3>5, <3>6
  <2> USE DspicAssumption, <2>9
  <2>3. CASE DspicPut
    BY <2>2, <2>3 DEF DspicPut, dspicRxVars, DspicTypeOK
  <2>4. CASE RaiseFlag \/ DelayEnds \/ TxInterrupt \/ ByteSent
    BY <2>2, <2>4 DEF RaiseFlag, DelayEnds, TxInterrupt, ByteSent, LineTakes, dspicRxVars, DspicTypeOK
  <2>5. CASE Arrives
    <3>1. CASE Len(U1RXREG) < RegisterBytes
      <4>1. arrivedBytes + 1 \in Nat /\ arrivedBytes + 1 <= MaxDspicBytes
        BY <2>5 DEF Arrives, DspicTypeOK
      <4>2. Len(Append(U1RXREG, arrivedBytes + 1)) = Len(U1RXREG) + 1
        BY <2>1, <4>1, Appended
      <4> QED BY <2>2, <2>5, <3>1, <4>1, <4>2 DEF Arrives, dspicTxVars, DspicTypeOK
    <3>2. CASE ~(Len(U1RXREG) < RegisterBytes)
      BY <2>5, <3>2 DEF Arrives, dspicTxVars, DspicTypeOK
    <3> QED BY <3>1, <3>2
  <2>6. CASE RxInterrupt
    BY <2>2, <2>6 DEF RxInterrupt, dspicTxVars, DspicTypeOK, DspicInv, FlagInv
  <2>7. CASE ClearFlag \/ DspicGet
    BY <2>2, <2>7 DEF ClearFlag, DspicGet, dspicTxVars, DspicTypeOK
  <2>8. CASE UNCHANGED dspicVars
    BY <2>8 DEF dspicVars, dspicTxVars, dspicRxVars, DspicTypeOK
  <2> QED BY <2>3, <2>4, <2>5, <2>6, <2>7, <2>8 DEF DspicNext
<1> QED BY <1>1, <1>2, PTL DEF DspicSpec

-----------------------------------------------------------------------------
(* The parameters in the EEPROM *)

\* The blocks still to be written
ToWrite == {writing[i] : i \in 1 .. Len(writing)}

\* A block was written to its end by the firmware that runs.
Current(b) == kept[b].version = flashed

\* What is written, once begun, is what RAM still holds; a block is what it was last
\* written with unless it is torn.
WritingInv ==
  /\ EepromTypeOK
  /\ SavedIsKept
  /\ half => /\ writing # <<>> /\ Head(writing) \in torn
             /\ eeprom[Head(writing)][1] = Bytes(Head(writing))[1]

\* What the protocol version stands for: every parameter that is not torn is of this
\* firmware, but for those that the initialization has still to write.
VersionInv ==
  /\ eeprom["protocol"][1].version <= flashed
  /\ mode = "init" => /\ \A b \in Params : ram[b] = <<Default, Default>>
                      /\ \A b \in Params \ torn : b \in ToWrite \/ Current(b)
  /\ mode \in {"load", "run", "save"} => \A b \in Params \ torn : Current(b)
  /\ mode = "off" /\ eeprom["protocol"] = <<Default, Default>>
       => \A b \in Params \ torn : Current(b)
  /\ mode \in {"run", "save"} => \A b \in Params \ torn : Whole(ram[b]) /\ Made(ram[b])

\* The inductive invariant
ParamsInv == WritingInv /\ VersionInv

\* The blocks, and that the initialization writes all of them
LEMMA BlockNames ==
  /\ Params \subseteq Blocks /\ Versions \subseteq Blocks /\ Versions \cap Params = {}
  /\ InitOrder \in Seq(Blocks) /\ Len(InitOrder) = 7 /\ InitOrder # <<>>
  /\ \A b \in Params : \E i \in 1 .. Len(InitOrder) : InitOrder[i] = b
  /\ "protocol" \in Blocks /\ Erased \in Values
BY EepromAssumption DEF Params, Versions, Blocks, InitOrder, Erased, Value, Values

\* What is to be written next, and what is left then
LEMMA HeadType ==
  ASSUME EepromTypeOK, writing # <<>>
  PROVE  /\ Head(writing) \in Blocks /\ Tail(writing) \in Seq(Blocks)
         /\ \A b \in ToWrite \ {Head(writing)} :
              \E i \in 1 .. Len(Tail(writing)) : Tail(writing)[i] = b
         /\ Default \in Values
         /\ Bytes(Head(writing)) \in Values \X Values
<1>1. /\ writing \in Seq(Blocks) /\ Head(writing) = writing[1] /\ Head(writing) \in Blocks
      /\ Tail(writing) \in Seq(Blocks)
      /\ Len(Tail(writing)) = Len(writing) - 1 /\ Len(writing) \in Nat
      /\ \A i \in 1 .. Len(Tail(writing)) : Tail(writing)[i] = writing[i + 1]
  BY HeadTailProperties DEF EepromTypeOK
<1>2. ASSUME NEW i \in 1 .. Len(writing), writing[i] # Head(writing)
      PROVE  \E k \in 1 .. Len(Tail(writing)) : Tail(writing)[k] = writing[i]
  <2>1. i - 1 \in 1 .. Len(Tail(writing)) /\ Tail(writing)[i - 1] = writing[i]
    BY <1>1, <1>2
  <2> QED BY <2>1
<1>3. Default \in Values
  BY EepromAssumption DEF EepromTypeOK, Default, Value, Values
<1>4. Bytes(Head(writing)) \in Values \X Values
  BY <1>1, <1>3 DEF EepromTypeOK, Bytes, Blocks
<1> QED BY <1>1, <1>2, <1>3, <1>4 DEF ToWrite

\* One byte of a block is replaced.
LEMMA PairExcept ==
  ASSUME NEW V, NEW p \in V \X V, NEW x
  PROVE  [p EXCEPT ![1] = x] = <<x, p[2]>> /\ [p EXCEPT ![2] = x] = <<p[1], x>>
OBVIOUS

\* An EEPROM as it comes from the factory
LEMMA EepromInitInv == EepromInit => ParamsInv
<1> SUFFICES ASSUME EepromInit PROVE ParamsInv
  OBVIOUS
<1>1. EepromTypeOK
  <2>1. flashed \in 1 .. MaxFirmware /\ settings \in 0 .. MaxSettings /\ torn \subseteq Blocks
    BY EepromAssumption DEF EepromInit
  <2>2. <<Erased, Erased>> \in Values \X Values
    BY BlockNames
  <2>3. /\ eeprom \in [Blocks -> Values \X Values] /\ ram \in [Params -> Values \X Values]
        /\ kept \in [Blocks -> Values]
    BY <2>2, BlockNames DEF EepromInit
  <2>4. writing \in Seq(Blocks) /\ half \in BOOLEAN
    BY EmptySeq DEF EepromInit
  <2>5. mode = "off" /\ writing = <<>> /\ (mode \in {"init", "save"}) = (writing # <<>>)
    BY DEF EepromInit
  <2> QED BY <2>1, <2>3, <2>4, <2>5 DEF EepromTypeOK
<1> QED
  BY <1>1, BlockNames, EepromAssumption
  DEF EepromInit, ParamsInv, WritingInv, VersionInv, SavedIsKept, Erased, Value, Default

\* The versions are compared when the board starts.
LEMMA BootInv ==
  ASSUME ParamsInv, Boot
  PROVE  ParamsInv'
<1>1. Default \in Values
  BY EepromAssumption DEF ParamsInv, WritingInv, EepromTypeOK, Default, Value, Values
<1>2. EepromTypeOK'
  <2>1. <<Default, Default>> \in Values \X Values
    BY <1>1
  <2>2. ram' \in [Params -> Values \X Values]
    BY <2>1 DEF Boot
  <2>3. writing' \in Seq(Blocks) /\ (mode' \in {"init", "save"}) = (writing' # <<>>)
        /\ mode' \in {"init", "load"}
    BY BlockNames DEF Boot, ParamsInv, WritingInv, EepromTypeOK
  <2> QED
    BY <2>2, <2>3 DEF Boot, ParamsInv, WritingInv, EepromTypeOK
<1>3. WritingInv'
  BY <1>2 DEF Boot, ParamsInv, WritingInv, SavedIsKept
<1>4. mode' = "init" => \A b \in Params : b \in ToWrite'
  BY BlockNames DEF Boot, ToWrite
<1> QED
  BY <1>3, <1>4 DEF Boot, ParamsInv, VersionInv, Current, Default

\* The first half of a block is written: until the other is, the block is torn.
LEMMA WriteFirstInv ==
  ASSUME ParamsInv, WriteFirst
  PROVE  ParamsInv'
<1>0. PICK h : h = Head(writing)
  OBVIOUS
<1>1. /\ writing # <<>> /\ h \in Blocks /\ Default \in Values /\ Bytes(h) \in Values \X Values
  BY <1>0, HeadType DEF WriteFirst, ParamsInv, WritingInv, EepromTypeOK
<1>2. /\ eeprom[h] \in Values \X Values
      /\ eeprom' = [eeprom EXCEPT ![h] = <<Bytes(h)[1], eeprom[h][2]>>]
  <2>1. eeprom[h] \in Values \X Values
    BY <1>1 DEF ParamsInv, WritingInv, EepromTypeOK
  <2>2. eeprom' = [eeprom EXCEPT ![h] = [eeprom[h] EXCEPT ![1] = Bytes(h)[1]]]
    BY <1>0 DEF WriteFirst
  <2> QED BY <2>1, <2>2, PairExcept
<1>3. EepromTypeOK'
  BY <1>1, <1>2 DEF WriteFirst, ParamsInv, WritingInv, EepromTypeOK
<1>4. Bytes(h)' = Bytes(h)
  BY DEF WriteFirst, Bytes, Default
<1>5. WritingInv'
  BY <1>0, <1>1, <1>2, <1>3, <1>4
  DEF WriteFirst, ParamsInv, WritingInv, SavedIsKept, EepromTypeOK
<1>6. eeprom'["protocol"][1].version <= flashed'
  <2>1. CASE h = "protocol"
    BY <1>1, <1>2, <2>1, EepromAssumption
    DEF WriteFirst, ParamsInv, WritingInv, EepromTypeOK, Bytes, Versions, Default, Value
  <2>2. CASE h # "protocol"
    BY <1>2, <2>2, BlockNames DEF WriteFirst, ParamsInv, VersionInv, WritingInv, EepromTypeOK
  <2> QED BY <2>1, <2>2
<1> QED
  BY <1>5, <1>6 DEF WriteFirst, ParamsInv, VersionInv, Current, Default, ToWrite, Whole, Made

\* The second half of a block is written: the block is kept.
LEMMA WriteLastInv ==
  ASSUME ParamsInv, WriteLast
  PROVE  ParamsInv'
<1>0. PICK h : h = Head(writing)
  OBVIOUS
<1>1. /\ writing # <<>> /\ h \in Blocks /\ Default \in Values /\ Bytes(h) \in Values \X Values
      /\ Tail(writing) \in Seq(Blocks) /\ h \in torn /\ eeprom[h][1] = Bytes(h)[1]
      /\ \A b \in ToWrite \ {h} : b \in ToWrite'
  BY <1>0, HeadType DEF WriteLast, ParamsInv, WritingInv, EepromTypeOK, ToWrite
<1>2. eeprom' = [eeprom EXCEPT ![h] = Bytes(h)]
  <2>1. eeprom[h] \in Values \X Values /\ Bytes(h) = <<Bytes(h)[1], Bytes(h)[2]>>
    BY <1>1 DEF ParamsInv, WritingInv, EepromTypeOK
  <2>2. eeprom' = [eeprom EXCEPT ![h] = [eeprom[h] EXCEPT ![2] = Bytes(h)[2]]]
    BY <1>0 DEF WriteLast
  <2>3. [eeprom[h] EXCEPT ![2] = Bytes(h)[2]] = <<eeprom[h][1], Bytes(h)[2]>>
    BY <2>1, PairExcept
  <2>4. [eeprom[h] EXCEPT ![2] = Bytes(h)[2]] = Bytes(h)
    BY <1>1, <2>1, <2>3
  <2> QED BY <2>2, <2>4
<1>3. /\ h \in torn
      /\ kept' = [kept EXCEPT ![h] = Bytes(h)[2]]
      /\ torn' = IF Whole(Bytes(h)) /\ Made(Bytes(h)) THEN torn \ {h} ELSE torn
      /\ UNCHANGED <<flashed, ram, settings>>
  BY <1>0, <1>1 DEF WriteLast
<1>4. EepromTypeOK'
  <2>1. eeprom' \in [Blocks -> Values \X Values] /\ kept' \in [Blocks -> Values]
    BY <1>1, <1>2, <1>3 DEF ParamsInv, WritingInv, EepromTypeOK
  <2>2. mode' \in {"init", "load", "run", "save"} /\ writing' \in Seq(Blocks) /\ half' = FALSE
    BY <1>1 DEF WriteLast
  <2>3. (mode' \in {"init", "save"}) = (writing' # <<>>)
    BY DEF WriteLast
  <2>4. torn' \subseteq Blocks
    BY <1>3 DEF ParamsInv, WritingInv, EepromTypeOK
  <2> QED BY <1>3, <2>1, <2>2, <2>3, <2>4 DEF ParamsInv, WritingInv, EepromTypeOK
<1>5. SavedIsKept'
  BY <1>1, <1>2, <1>3 DEF ParamsInv, WritingInv, SavedIsKept, EepromTypeOK, Whole
<1>6. WritingInv'
  BY <1>4, <1>5 DEF WriteLast, WritingInv
<1>7. h \in Params /\ h \notin torn' => Current(h)' /\ Whole(ram[h]) /\ Made(ram[h])
  BY <1>1, <1>3, BlockNames DEF ParamsInv, WritingInv, EepromTypeOK, Current, Whole, Made, Bytes
<1>8. \A b \in Params \ {h} : b \notin torn' => b \notin torn /\ (Current(b) => Current(b)')
  BY <1>1, <1>3, BlockNames DEF ParamsInv, WritingInv, EepromTypeOK, Current
<1>9. eeprom'["protocol"][1].version <= flashed'
  <2>1. CASE h = "protocol"
    BY <1>1, <1>2, <1>3, <2>1, EepromAssumption
    DEF ParamsInv, WritingInv, EepromTypeOK, Bytes, Versions, Default, Value
  <2>2. CASE h # "protocol"
    BY <1>2, <1>3, <2>2, BlockNames DEF ParamsInv, VersionInv, WritingInv, EepromTypeOK
  <2> QED BY <2>1, <2>2
<1>10. CASE writing' # <<>>
  <2>1. mode' = mode /\ mode \in {"init", "save"}
    BY <1>10 DEF WriteLast
  <2> QED
    BY <1>1, <1>3, <1>6, <1>7, <1>8, <1>9, <2>1
    DEF ParamsInv, VersionInv, Default, Whole, Made
<1>11. CASE writing' = <<>>
  <2>1. mode' = IF mode = "init" THEN "load" ELSE "run"
    BY <1>11 DEF WriteLast
  <2>2. mode \in {"init", "save"} /\ ToWrite' = {}
    BY <1>11, EmptySeq DEF WriteLast, ToWrite
  <2>3. \A b \in Params \ torn' : Current(b)'
    BY <1>1, <1>7, <1>8, <2>2 DEF ParamsInv, VersionInv
  <2>4. mode = "save" => \A b \in Params \ torn' : (Whole(ram[b]) /\ Made(ram[b]))'
    <3>1. ASSUME mode = "save", NEW b \in Params, b \notin torn'
          PROVE  Whole(ram[b]) /\ Made(ram[b])
      BY <1>7, <1>8, <3>1 DEF ParamsInv, VersionInv
    <3> QED BY <1>3, <3>1 DEF Whole, Made
  <2>5. mode' \in {"load", "run"} /\ (mode' = "run" => mode = "save")
    BY <2>1, <2>2
  <2> QED
    BY <1>6, <1>9, <2>3, <2>4, <2>5 DEF ParamsInv, VersionInv
<1> QED BY <1>10, <1>11

\* The parameters are loaded into RAM.
LEMMA LoadInv ==
  ASSUME ParamsInv, LoadAll \/ \E b \in Params : Load(b)
  PROVE  ParamsInv'
<1>1. \A b \in Params \ torn : Whole(eeprom[b]) /\ (Current(b) => Made(eeprom[b]))
  BY BlockNames DEF ParamsInv, WritingInv, SavedIsKept, Whole, Made, Current
<1>2. CASE LoadAll
  <2>1. WritingInv'
    BY <1>2, BlockNames
    DEF LoadAll, ParamsInv, WritingInv, SavedIsKept, EepromTypeOK
  <2> QED
    BY <1>1, <1>2, <2>1
    DEF LoadAll, ParamsInv, VersionInv, Default, Current, Whole, Made
<1>3. ASSUME NEW b \in Params, Load(b)
      PROVE  ParamsInv'
  <2>1. WritingInv'
    BY <1>3, BlockNames
    DEF Load, ParamsInv, WritingInv, SavedIsKept, EepromTypeOK
  <2>2. \A c \in Params \ torn : Whole(ram'[c]) /\ Made(ram'[c])
    BY <1>1, <1>3 DEF Load, ParamsInv, WritingInv, VersionInv, EepromTypeOK
  <2> QED
    BY <1>3, <2>1, <2>2 DEF Load, ParamsInv, VersionInv, Default, Current, Whole, Made
<1> QED BY <1>2, <1>3

\* The host sets, saves and fetches parameters.
LEMMA HostInv ==
  ASSUME ParamsInv, NEW b \in Params, Set(b) \/ Save(b)
  PROVE  ParamsInv'
<1>1. CASE Set(b)
  <2> DEFINE new == Value(flashed, settings')
  <2>1. settings' \in 0 .. MaxSettings /\ new \in Values
    BY <1>1, EepromAssumption DEF Set, ParamsInv, WritingInv, EepromTypeOK, Values, Value
  <2>2. ram' = [ram EXCEPT ![b] = <<new, new>>] /\ new.version = flashed
    BY <1>1 DEF Set, Value
  <2>3. ram' \in [Params -> Values \X Values]
    BY <2>1, <2>2 DEF ParamsInv, WritingInv, EepromTypeOK
  <2>4. WritingInv'
    BY <1>1, <2>1, <2>3 DEF Set, ParamsInv, WritingInv, SavedIsKept, EepromTypeOK
  <2>5. \A c \in Params \ torn : Whole(ram'[c]) /\ Made(ram'[c])
    BY <1>1, <2>2 DEF Set, ParamsInv, WritingInv, VersionInv, EepromTypeOK, Whole, Made
  <2> QED
    BY <1>1, <2>4, <2>5 DEF Set, ParamsInv, VersionInv, Default, Current, Whole, Made
<1>2. CASE Save(b)
  <2>1. writing' \in Seq(Blocks) /\ writing' # <<>>
    BY <1>2, BlockNames DEF Save
  <2>2. mode' = "save" /\ half' = FALSE
        /\ UNCHANGED <<flashed, eeprom, ram, settings, kept, torn>>
    BY <1>2 DEF Save
  <2>3. EepromTypeOK'
    BY <2>1, <2>2 DEF ParamsInv, WritingInv, EepromTypeOK
  <2>4. WritingInv'
    BY <2>2, <2>3 DEF ParamsInv, WritingInv, SavedIsKept
  <2> QED
    BY <1>2, <2>4 DEF Save, ParamsInv, VersionInv, Default, Current, Whole, Made
<1> QED BY <1>1, <1>2

\* The board is switched off, in the middle of a write too, and flashed.
LEMMA WorldInv ==
  ASSUME ParamsInv, SwitchOff \/ Flash
  PROVE  ParamsInv'
<1>1. CASE SwitchOff
  <2>1. torn' \subseteq Blocks /\ torn \subseteq torn' /\ (mode = "init" => ToWrite \subseteq torn')
    BY <1>1 DEF SwitchOff, ToWrite, ParamsInv, WritingInv, EepromTypeOK
  <2>2. EepromTypeOK'
    <3>1. mode' = "off" /\ writing' = <<>> /\ half' = FALSE
          /\ UNCHANGED <<flashed, eeprom, ram, settings, kept>>
      BY <1>1 DEF SwitchOff
    <3>2. writing' \in Seq(Blocks) /\ (mode' \in {"init", "save"}) = (writing' # <<>>)
      BY <3>1, EmptySeq
    <3> QED BY <2>1, <3>1, <3>2 DEF ParamsInv, WritingInv, EepromTypeOK
  <2>3. WritingInv'
    BY <1>1, <2>1, <2>2 DEF SwitchOff, ParamsInv, WritingInv, SavedIsKept
  <2> QED
    BY <1>1, <2>1, <2>3
    DEF SwitchOff, ParamsInv, VersionInv, WritingInv, EepromTypeOK, Default, Current
<1>2. CASE Flash
  <2>1. flashed' = flashed + 1 /\ flashed' \in 1 .. MaxFirmware /\ flashed \in Nat
    BY <1>2, EepromAssumption DEF Flash, ParamsInv, WritingInv, EepromTypeOK
  <2>2. /\ mode = "off" /\ mode' = "off"
        /\ UNCHANGED <<eeprom, mode, writing, half, ram, settings, kept, torn>>
    BY <1>2 DEF Flash
  <2>3. WritingInv'
    BY <2>1, <2>2 DEF ParamsInv, WritingInv, SavedIsKept, EepromTypeOK
  <2>4. eeprom["protocol"][1].version \in Nat /\ eeprom["protocol"][1].version <= flashed
    BY BlockNames DEF ParamsInv, WritingInv, VersionInv, EepromTypeOK, Values
  <2>5. eeprom'["protocol"] # <<Default, Default>>'
    BY <2>1, <2>2, <2>4 DEF Default, Value
  <2> QED
    BY <2>1, <2>2, <2>3, <2>4, <2>5 DEF ParamsInv, VersionInv
<1> QED BY <1>1, <1>2

\* Every step keeps the invariant.
LEMMA EepromStepInv ==
  ASSUME ParamsInv, [EepromNext]_eepromVars
  PROVE  ParamsInv'
<1>1. CASE UNCHANGED eepromVars
  BY <1>1 DEF eepromVars, ParamsInv, WritingInv, VersionInv, SavedIsKept, EepromTypeOK,
              Bytes, Default, Current, ToWrite, Whole, Made
<1> QED
  BY <1>1, BootInv, WriteFirstInv, WriteLastInv, LoadInv, HostInv, WorldInv DEF EepromNext

\* EEPROM, RAM and what is being written are always of their types, for every
\* number of firmwares and of settings (orazio_param.c:12-113).
THEOREM EepromTypes == EepromSpec => []EepromTypeOK
<1>1. ParamsInv => EepromTypeOK
  BY DEF ParamsInv, WritingInv
<1> QED BY <1>1, EepromInitInv, EepromStepInv, PTL DEF EepromSpec

\* A block whose writing was not interrupted holds what it was last written
\* with, and the running firmware has no half-written parameters from such a
\* block, nor another firmware's (orazio_param.c:12-27, 91-113).
THEOREM EepromSaved == EepromSpec => [](SavedIsKept /\ NoForeignParams)
<1>1. ParamsInv => SavedIsKept /\ NoForeignParams
  BY DEF ParamsInv, WritingInv, VersionInv, NoForeignParams
<1> QED BY <1>1, EepromInitInv, EepromStepInv, PTL DEF EepromSpec

-----------------------------------------------------------------------------
(* The sonars *)

\* Until a poll comes too early, each sonar polled last goes through: triggered, echo
\* high, echo seen, over; and its counter is a time only from the echo that began to
\* the one that ended.
EchoInv ==
  /\ counters \in [Sonars -> Counts] /\ ranges \in [Sonars -> Counts]
  /\ ~overlap =>
       /\ pins \cup waiting \cup echos \subseteq triggers /\ pins \cap waiting = {}
       /\ ~flag => echos = pins
       /\ \A s \in Sonars :
            /\ s \in waiting => s \notin echos /\ counters[s] = "zero"
            /\ s \in pins \ echos => counters[s] = "zero"
            /\ s \in echos => counters[s] = "start"
            /\ counters[s] # "junk"
            /\ counters[s] = "start" => s \in echos
            /\ ranges[s] \in {"zero", "span"}

\* No sonar has been polled.
LEMMA SonarInitInv == SonarStart => EchoInv
BY DEF SonarStart, EchoInv, Zeros, Counts

\* Sonar_handle sends the ranges and polls the next sonars.
LEMMA HandleInv ==
  ASSUME EchoInv, SonarHandle
  PROVE  EchoInv'
<1> DEFINE mask == Turn(sonar_current_cycle + 1)
<1>1. CASE mask = {}
  BY <1>1 DEF SonarHandle, EchoInv
<1>2. CASE mask # {}
  <2>1. /\ ranges' = [s \in Sonars |-> IF s \in triggers THEN counters[s] ELSE "zero"]
        /\ triggers' = mask /\ counters' = Zeros
        /\ waiting' = (waiting \cup mask) \ pins
        /\ overlap' = (overlap \/ ~Quiet)
        /\ UNCHANGED <<echos, pins, flag>>
    BY <1>2 DEF SonarHandle
  <2>2. ranges' \in [Sonars -> Counts] /\ counters' \in [Sonars -> Counts]
    BY <2>1 DEF EchoInv, Counts, Zeros
  <2>3. ASSUME ~overlap'
        PROVE  ~overlap /\ pins = {} /\ waiting = {} /\ ~flag /\ echos = {}
    BY <2>1, <2>3 DEF Quiet, EchoInv
  <2>4. ASSUME ~overlap', NEW s \in Sonars
        PROVE  ranges'[s] \in {"zero", "span"} /\ counters'[s] = "zero"
    BY <2>1, <2>3, <2>4 DEF EchoInv, Counts, Zeros
  <2> QED BY <2>1, <2>2, <2>3, <2>4 DEF EchoInv
<1> QED BY <1>1, <1>2

\* An echo begins, ends, or does not come.
LEMMA EchoStepInv ==
  ASSUME EchoInv, NEW s \in Sonars, Rise(s) \/ Fall(s) \/ Silent(s)
  PROVE  EchoInv'
<1>1. CASE Rise(s)
  BY <1>1 DEF Rise, isr, cycle, EchoInv
<1>2. CASE Fall(s)
  BY <1>2 DEF Fall, isr, cycle, EchoInv
<1>3. CASE Silent(s)
  BY <1>3 DEF Silent, isr, cycle, EchoInv
<1> QED BY <1>1, <1>2, <1>3

\* The interrupt sees which echoes began and which ended.
LEMMA PinChangeInv ==
  ASSUME EchoInv, PinChange
  PROVE  EchoInv'
<1>1. counters' \in [Sonars -> Counts]
  BY DEF PinChange, EchoInv, Counts
<1>2. ASSUME ~overlap, NEW s \in Sonars
      PROVE  /\ s \in waiting => s \notin pins /\ counters'[s] = "zero"
             /\ s \in pins => counters'[s] = "start"
             /\ counters'[s] # "junk"
             /\ counters'[s] = "start" => s \in pins
  BY <1>2 DEF PinChange, EchoInv, Counts
<1> QED BY <1>1, <1>2 DEF PinChange, world, cycle, EchoInv

\* Every step keeps the invariant.
LEMMA SonarStepInv ==
  ASSUME EchoInv, [SonarNext]_sonarVars
  PROVE  EchoInv'
<1>1. CASE CycleEnds \/ Comm \/ CommPattern
  BY <1>1 DEF CycleEnds, Comm, CommPattern, isr, world, EchoInv
<1>2. CASE UNCHANGED sonarVars
  BY <1>2 DEF sonarVars, isr, world, EchoInv
<1> QED
  BY <1>1, <1>2, HandleInv, EchoStepInv, PinChangeInv DEF SonarNext, SonarMain, Echo

\* While echoes end before the next poll, a range that is sent is the time of a
\* whole echo or 0, however late the interrupt is (sonar.c:40-101).
THEOREM SonarRanges == SonarSpec => []RangesAreSpans
<1>1. EchoInv => RangesAreSpans
  BY DEF EchoInv, RangesAreSpans
<1> QED BY <1>1, SonarInitInv, SonarStepInv, PTL DEF SonarSpec

\* The greatest of the cycles of a pattern is one of them.
LEMMA LastCycle ==
  ASSUME NEW p \in [Sonars -> 0 .. MaxCycle]
  PROVE  Max({p[s] : s \in Sonars}) \in 0 .. MaxCycle
<1> DEFINE S == {p[s] : s \in Sonars}
           T == {MaxCycle - x : x \in S}
<1>1. S \subseteq 0 .. MaxCycle /\ S # {}
  BY SonarAssumption
<1>2. T \subseteq Nat /\ T # {}
  BY <1>1, SonarAssumption
<1> HIDE DEF S
<1>3. PICK z \in T : \A y \in T : ~(<<y, z>> \in OpToRel(<, Nat))
  BY <1>2, WFMin, NatLessThanWellFounded
<1>4. \A y \in T : z <= y
  <2>1. \A y \in T : ~(y < z)
    BY <1>2, <1>3, Zenon DEF OpToRel
  <2> QED BY <1>2, <2>1
<1>5. PICK x \in S : z = MaxCycle - x
  OBVIOUS
<1>6. \A y \in S : MaxCycle - x <= MaxCycle - y
  BY <1>4, <1>5
<1>7. \A y \in S : x >= y
  BY <1>1, <1>6, SonarAssumption
<1>8. Max(S) \in S
  BY <1>7 DEF Max
<1> QED BY <1>1, <1>8 DEF S

\* The cycle stays within the pattern's, whatever patterns the host sends, and pins,
\* triggers and ranges are those of sonars (orazio_sonar.c:28-58, sonar.c:40-101).
THEOREM SonarTypes == SonarSpec => []SonarTypeOK
<1>1. SonarStart => SonarTypeOK
  <2> SUFFICES ASSUME SonarStart PROVE SonarTypeOK
    OBVIOUS
  <2>1. sonar_max_cycle \in 0 .. MaxCycle /\ sonar_current_cycle = 0 /\ sonar_ready = FALSE
    BY LastCycle DEF SonarStart, SonarInit
  <2>2. sonar_current_cycle \in 0 .. sonar_max_cycle
    BY <2>1
  <2>3. {ranges, counters} \subseteq [Sonars -> Counts]
    BY DEF SonarStart, Zeros, Counts
  <2>4. patterns \in 0 .. MaxPatterns
    BY SonarAssumption DEF SonarStart
  <2> QED BY <2>1, <2>2, <2>3, <2>4 DEF SonarStart, SonarTypeOK
<1>2. SonarTypeOK /\ [SonarNext]_sonarVars => SonarTypeOK'
  <2> SUFFICES ASSUME SonarTypeOK, [SonarNext]_sonarVars
               PROVE  SonarTypeOK'
    OBVIOUS
  <2> USE SonarAssumption
  <2>1. CASE CycleEnds \/ Comm
    <3>1. sonar_current_cycle' \in 0 .. sonar_max_cycle'
      BY <2>1 DEF CycleEnds, Comm, cycle, SonarTypeOK
    <3>2. /\ UNCHANGED <<pattern, sonar_max_cycle, ranges, counters, triggers, echos, pins, waiting>>
          /\ UNCHANGED <<flag, patterns, overlap>>
          /\ sonar_ready' \in BOOLEAN /\ interrupts' \in BOOLEAN /\ sonarAt' \in {"idle", "comm"}
      BY <2>1 DEF CycleEnds, Comm, isr, world, cycle, SonarTypeOK
    <3> QED BY <3>1, <3>2 DEF SonarTypeOK
  <2>2. CASE SonarHandle
    <3>1. Turn(sonar_current_cycle + 1) \subseteq Sonars
      BY DEF Turn
    <3>2. /\ ranges' \in [Sonars -> Counts] /\ counters' \in [Sonars -> Counts]
          /\ triggers' \subseteq Sonars /\ waiting' \subseteq Sonars
          /\ sonar_ready' \in BOOLEAN /\ interrupts' \in BOOLEAN /\ overlap' \in BOOLEAN
      BY <2>2, <3>1 DEF SonarHandle, SonarTypeOK, Counts, Zeros
    <3> QED BY <2>2, <3>2 DEF SonarHandle, SonarTypeOK
  <2>3. CASE CommPattern
    <3>1. sonar_max_cycle' \in 0 .. MaxCycle /\ sonar_current_cycle' = 0 /\ sonar_ready' = FALSE
      BY <2>3, LastCycle DEF CommPattern, SonarInit
    <3>2. sonar_current_cycle' \in 0 .. sonar_max_cycle'
      BY <3>1
    <3>3. /\ UNCHANGED <<ranges, counters, triggers, echos, pins, waiting, flag, overlap>>
          /\ pattern' \in [Sonars -> 0 .. MaxCycle] /\ patterns' \in 0 .. MaxPatterns
          /\ interrupts' = TRUE /\ sonarAt' = "idle"
      BY <2>3 DEF CommPattern, isr, world, SonarTypeOK
    <3> QED BY <3>1, <3>2, <3>3 DEF SonarTypeOK
  <2>4. CASE PinChange
    BY <2>4 DEF PinChange, world, cycle, SonarTypeOK, Counts
  <2>5. CASE \E s \in Sonars : Rise(s) \/ Fall(s) \/ Silent(s)
    BY <2>5 DEF Rise, Fall, Silent, isr, cycle, SonarTypeOK
  <2>6. CASE UNCHANGED sonarVars
    BY <2>6 DEF sonarVars, isr, world, cycle, SonarTypeOK
  <2> QED BY <2>1, <2>2, <2>3, <2>4, <2>5, <2>6 DEF SonarNext, SonarMain, Echo
<1> QED BY <1>1, <1>2, PTL DEF SonarSpec
=============================================================================
