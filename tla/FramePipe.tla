----------------------------- MODULE FramePipe -----------------------------
(***************************************************************************)
(* What the transmit side of packet_handler.c promises: a pipe of bytes of *)
(* bounded capacity into which a frame goes whole or not at all, and from  *)
(* which the bytes come out in order.                                      *)
(***************************************************************************)
EXTENDS Naturals, Sequences

CONSTANTS Frames,      \* the byte sequences sendPacket may put
          Capacity,
          NoByte       \* what is read from an empty pipe

VARIABLES pipe,        \* the bytes in the pipe, oldest first
          byte,        \* the byte last taken
          status       \* what the last send returned

pvars == <<pipe, byte, status>>

PInit == pipe = <<>> /\ byte = NoByte /\ status = "Success"

Accept(f) ==
  /\ Len(pipe) + Len(f) <= Capacity
  /\ pipe' = pipe \o f
  /\ status' = "Success"
  /\ byte' = byte

Refuse(f) ==
  /\ Len(pipe) + Len(f) > Capacity
  /\ status' = "TxBufferFull"
  /\ UNCHANGED <<pipe, byte>>

Take ==
  /\ IF pipe = <<>>
       THEN byte' = NoByte /\ pipe' = pipe
       ELSE byte' = Head(pipe) /\ pipe' = Tail(pipe)
  /\ status' = status

PNext == Take \/ \E f \in Frames : Accept(f) \/ Refuse(f)

PSpec == PInit /\ [][PNext]_pvars
=============================================================================
