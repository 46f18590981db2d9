------------------------------- MODULE TxRing -------------------------------
(***************************************************************************)
(* The transmit ring of packet_handler.c: PacketHandler_sendPacket puts a  *)
(* framed packet byte by byte, PacketHandler_txByte takes a byte.  Robot   *)
(* and host call both from one thread at a time (the firmware's main loop, *)
(* the holder of the client's write_mutex), so no byte is taken while a    *)
(* frame is being put.                                                     *)
(*                                                                         *)
(* A frame is AA, 55, the packet, its checksum; PacketReceiver models how  *)
(* it is built and parsed, here only its bytes and its length matter.      *)
(***************************************************************************)
EXTENDS Naturals, Sequences

CONSTANTS PACKET_SIZE_MAX,  \* slots of the ring
          Bytes,
          Frames

NoByte == 0                 \* txByte returns 0 when there is nothing to send

ASSUME SizeAssumption == PACKET_SIZE_MAX \in Nat \ {0}
ASSUME FramesAssumption == NoByte \in Bytes /\ Frames \subseteq Seq(Bytes) \ {<<>>}

TxSlots == 0 .. PACKET_SIZE_MAX - 1

VARIABLES tx_buffer, tx_start, tx_end, tx_size,
          sending,          \* bytes of the current frame that are yet to be put
          byte,             \* what the last txByte returned
          status            \* what the last sendPacket returns

ringVars == <<tx_buffer, tx_start, tx_end, tx_size, sending, byte, status>>

\* PacketHandler_initialize.  The bytes of the ring are not cleared; no slot
\* is read before it is written.
RingInit ==
  /\ tx_buffer = [i \in TxSlots |-> NoByte]
  /\ tx_start = 0 /\ tx_end = 0 /\ tx_size = 0
  /\ sending = <<>>
  /\ byte = NoByte /\ status = "Success"

\* The index step of BUFFER_PUT and BUFFER_GET.
TxAdvance(index) == IF index + 1 >= PACKET_SIZE_MAX THEN 0 ELSE index + 1

\* PacketHandler_sendPacket: without room for the whole frame, nothing is put.
SendPacket(f) ==
  /\ sending = <<>>
  /\ IF PACKET_SIZE_MAX - tx_size < Len(f)
       THEN status' = "TxBufferFull" /\ sending' = sending
       ELSE status' = "Success" /\ sending' = f
  /\ UNCHANGED <<tx_buffer, tx_start, tx_end, tx_size, byte>>

\* _putTxByte, which drops the byte if the ring is full
PutTxByte ==
  /\ sending # <<>>
  /\ sending' = Tail(sending)
  /\ IF tx_size = PACKET_SIZE_MAX
       THEN UNCHANGED <<tx_buffer, tx_end, tx_size>>
       ELSE /\ tx_buffer' = [tx_buffer EXCEPT ![tx_end] = Head(sending)]
            /\ tx_end' = TxAdvance(tx_end)
            /\ tx_size' = tx_size + 1
  /\ UNCHANGED <<tx_start, byte, status>>

\* Mutant of TxByte: the index is advanced before the byte is read.
TxByteAhead ==
  /\ sending = <<>>
  /\ IF tx_size = 0
       THEN byte' = NoByte /\ UNCHANGED <<tx_start, tx_size>>
       ELSE /\ byte' = tx_buffer[TxAdvance(tx_start)]
            /\ tx_start' = TxAdvance(tx_start)
            /\ tx_size' = tx_size - 1
  /\ UNCHANGED <<tx_buffer, tx_end, sending, status>>

\* PacketHandler_txByte
TxByte ==
  /\ sending = <<>>
  /\ IF tx_size = 0
       THEN byte' = NoByte /\ UNCHANGED <<tx_start, tx_size>>
       ELSE /\ byte' = tx_buffer[tx_start]
            /\ tx_start' = TxAdvance(tx_start)
            /\ tx_size' = tx_size - 1
  /\ UNCHANGED <<tx_buffer, tx_end, sending, status>>

RingNext == (\E f \in Frames : SendPacket(f)) \/ PutTxByte \/ TxByte

RingSpec == RingInit /\ [][RingNext]_ringVars

-----------------------------------------------------------------------------
(* Properties *)

\* The i-th occupied slot, counting from 0.
Slot(i) == IF tx_start + i < PACKET_SIZE_MAX THEN tx_start + i
                                             ELSE tx_start + i - PACKET_SIZE_MAX

TxContents == [i \in 1 .. tx_size |-> tx_buffer[Slot(i - 1)]]

RingTypeOK ==
  /\ tx_buffer \in [TxSlots -> Bytes]
  /\ tx_start \in TxSlots /\ tx_end \in TxSlots
  /\ tx_size \in 0 .. PACKET_SIZE_MAX
  /\ sending \in Seq(Bytes)
  /\ byte \in Bytes
  /\ status \in {"Success", "TxBufferFull"}

\* The three indices, which the code updates apart, agree; and a frame that
\* was begun has room to the end, so that _putTxByte never drops a byte.
RingInv ==
  /\ RingTypeOK
  /\ tx_end = Slot(tx_size)
  /\ tx_size + Len(sending) <= PACKET_SIZE_MAX

\* A frame counts as in the pipe from the moment it is accepted.
Pipe == INSTANCE FramePipe WITH pipe <- TxContents \o sending, Capacity <- PACKET_SIZE_MAX

\* The ring is a bounded pipe: every frame leaves whole, in order and
\* contiguous, or was refused as a whole because it did not fit.
ImplementsPipe == Pipe!PSpec
=============================================================================
