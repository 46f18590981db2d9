--------------------------- MODULE PacketReceiver ---------------------------
(***************************************************************************)
(* The receive side of packet_handler.c: PacketHandler_rxByte drives a     *)
(* state machine byte by byte, from the synchronization bytes AA 55 over   *)
(* type, size and payload to the checksum.  The sender frames packets as   *)
(* PacketHandler_sendPacket does; the line corrupts or loses bytes.        *)
(*                                                                         *)
(* A packet is its bytes: type, size, payload (sequence number first).     *)
(* PACKET_SIZE_ANY, which nobody installs, is left out.                    *)
(***************************************************************************)
EXTENDS Integers, Sequences, SequencesExt

CONSTANTS LineBytes,
          XorBytes(_, _),
          AA, FIVE,            \* the synchronization bytes 0xAA, 0x55
          PACKET_TYPE_MAX,
          Size,                \* operations[type]->size of the installed types
          Sendable,             \* what the sender sends
          MaxFrames, MaxFaults \* bounds

Installed == DOMAIN Size
HEADER == 2                    \* type and size, read before the payload
NoType == -1                   \* rx_current_op is null

ASSUME BytesAssumption ==
  /\ LineBytes \subseteq Nat /\ 0 \in LineBytes /\ {AA, FIVE} \subseteq LineBytes /\ AA # FIVE
  /\ \A b, c \in LineBytes :
       /\ XorBytes(b, c) \in LineBytes /\ XorBytes(b, c) = XorBytes(c, b)
       /\ XorBytes(b, 0) = b /\ XorBytes(b, b) = 0
       /\ \A d \in LineBytes : XorBytes(XorBytes(b, c), d) = XorBytes(b, XorBytes(c, d))
ASSUME TypesAssumption ==
  /\ Installed \subseteq LineBytes /\ \A t \in Installed : t < PACKET_TYPE_MAX
  /\ Size \in [Installed -> LineBytes] /\ \A t \in Installed : Size[t] > HEADER
  /\ \A p \in Sendable : p \in Seq(LineBytes) /\ p[1] \in Installed /\ p[2] = Size[p[1]] /\ Len(p) = p[2]

VARIABLES rxFn,                \* the function that gets the next byte
          rx_checksum, rx_current_op, rx_bytes_to_read,
          rx_buffer,           \* the bytes of the packet being received
          wire,                \* bytes on the line
          sent, delivered,     \* packets sent, packets given to on_receive_fn
          faults               \* what the line did, a sequence

rxVars == <<rxFn, rx_checksum, rx_current_op, rx_bytes_to_read, rx_buffer>>
receiverVars == <<rxVars, wire, sent, delivered, faults>>

ReceiverInit ==
  /\ rxFn = "AA" /\ rx_checksum = 0 /\ rx_current_op = NoType /\ rx_bytes_to_read = 0
  /\ rx_buffer = <<>>
  /\ wire = <<>> /\ sent = <<>> /\ delivered = <<>> /\ faults = <<>>

\* tx_checksum after each byte of a packet
Checksums(p) ==
  LET tx_checksum[n \in 0 .. Len(p)] ==
        IF n = 0 THEN 0 ELSE XorBytes(tx_checksum[n - 1], p[n])
  IN  tx_checksum
Checksum(p) == Checksums(p)[Len(p)]
Frame(p) == <<AA, FIVE>> \o p \o <<Checksum(p)>>

\* A frame leaves when the one before is all but received.
Send(p) ==
  /\ Len(sent) < MaxFrames /\ Len(wire) <= 1
  /\ sent' = Append(sent, p)
  /\ wire' = wire \o Frame(p)
  /\ UNCHANGED <<rxVars, delivered, faults>>

-----------------------------------------------------------------------------
(* The functions of the state machine, for a byte c                        *)

RxAA(c) ==
  /\ rxFn = "AA"
  /\ rx_checksum' = 0
  /\ rxFn' = IF c = AA THEN "55" ELSE "AA"
  /\ UNCHANGED <<rx_current_op, rx_bytes_to_read, rx_buffer, delivered>>

Rx55(c) ==
  /\ rxFn = "55"
  /\ rx_checksum' = IF c = FIVE THEN 0 ELSE rx_checksum
  /\ rxFn' = IF c = FIVE THEN "type" ELSE "AA"
  /\ UNCHANGED <<rx_current_op, rx_bytes_to_read, rx_buffer, delivered>>

\* An unknown type leaves rx_current_op empty, a type out of bounds as it was.
RxType(c) ==
  /\ rxFn = "type"
  /\ rx_checksum' = XorBytes(rx_checksum, c)
  /\ rx_current_op' = IF c \in Installed THEN c
                      ELSE IF c < PACKET_TYPE_MAX THEN NoType ELSE rx_current_op
  /\ rxFn' = IF c \in Installed THEN "size" ELSE "AA"
  /\ UNCHANGED <<rx_bytes_to_read, rx_buffer, delivered>>

\* initialize_buffer_fn may refuse: all buffers of the type are in use.
RxSize(c, refused) ==
  /\ rxFn = "size"
  /\ IF c # Size[rx_current_op] \/ refused
       THEN rxFn' = "AA" /\ UNCHANGED <<rx_checksum, rx_bytes_to_read, rx_buffer>>
       ELSE /\ rx_checksum' = XorBytes(rx_checksum, c)
            /\ rx_bytes_to_read' = c - HEADER
            /\ rx_buffer' = <<rx_current_op, Size[rx_current_op]>>
            /\ rxFn' = "payload"
  /\ UNCHANGED <<rx_current_op, delivered>>

RxPayload(c) ==
  /\ rxFn = "payload"
  /\ rx_checksum' = XorBytes(rx_checksum, c)
  /\ rx_buffer' = Append(rx_buffer, c)
  /\ rx_bytes_to_read' = rx_bytes_to_read - 1
  /\ rxFn' = IF rx_bytes_to_read = 1 THEN "checksum" ELSE "payload"
  /\ UNCHANGED <<rx_current_op, delivered>>

\* Mutant of RxChecksum: after a wrong checksum another one is awaited.
RxChecksumWaits(c) ==
  /\ rxFn = "checksum"
  /\ rxFn' = IF c = rx_checksum THEN "AA" ELSE "checksum"
  /\ rx_buffer' = IF c = rx_checksum THEN <<>> ELSE rx_buffer
  /\ delivered' = IF c = rx_checksum THEN Append(delivered, rx_buffer) ELSE delivered
  /\ UNCHANGED <<rx_checksum, rx_current_op, rx_bytes_to_read>>

\* Mutant of RxChecksum: every packet is taken.
RxChecksumIgnored(c) ==
  /\ rxFn = "checksum"
  /\ rxFn' = "AA"
  /\ rx_buffer' = <<>>
  /\ delivered' = Append(delivered, rx_buffer)
  /\ UNCHANGED <<rx_checksum, rx_current_op, rx_bytes_to_read>>

RxChecksum(c) ==
  /\ rxFn = "checksum"
  /\ rxFn' = "AA"
  /\ rx_buffer' = <<>>
  /\ delivered' = IF c = rx_checksum THEN Append(delivered, rx_buffer) ELSE delivered
  /\ UNCHANGED <<rx_checksum, rx_current_op, rx_bytes_to_read>>

\* PacketHandler_rxByte
RxByte(c, refused) ==
  RxAA(c) \/ Rx55(c) \/ RxType(c) \/ RxSize(c, refused) \/ RxPayload(c) \/ RxChecksum(c)

-----------------------------------------------------------------------------
(* The line *)

Fault(kind, byte) ==
  /\ Len(faults) < MaxFaults
  /\ faults' = Append(faults, [kind |-> kind, byte |-> byte, at |-> rxFn])

Receive ==
  /\ wire # <<>>
  /\ RxByte(Head(wire), FALSE)
  /\ wire' = Tail(wire)
  /\ UNCHANGED <<sent, faults>>

Corrupt ==
  /\ wire # <<>>
  /\ \E c \in LineBytes \ {Head(wire)} : RxByte(c, FALSE) /\ Fault("corrupt", c)
  /\ wire' = Tail(wire)
  /\ UNCHANGED sent

Lose ==
  /\ wire # <<>>
  /\ Fault("lose", Head(wire))
  /\ wire' = Tail(wire)
  /\ UNCHANGED <<rxVars, sent, delivered>>

Refuse ==
  /\ wire # <<>> /\ rxFn = "size"
  /\ RxSize(Head(wire), TRUE)
  /\ Fault("refuse", Head(wire))
  /\ wire' = Tail(wire)
  /\ UNCHANGED sent

ReceiverNext == (\E p \in Sendable : Send(p)) \/ Receive \/ Corrupt \/ Lose \/ Refuse

ReceiverSpec == ReceiverInit /\ [][ReceiverNext]_receiverVars

-----------------------------------------------------------------------------
(* Properties *)

ReceiverTypeOK ==
  /\ rxFn \in {"AA", "55", "type", "size", "payload", "checksum"}
  /\ rx_checksum \in LineBytes /\ rx_current_op \in Installed \cup {NoType}
  /\ rxFn \in {"size", "payload", "checksum"} => rx_current_op \in Installed
  /\ rx_buffer \in Seq(LineBytes) /\ rx_bytes_to_read \in Nat
  /\ rxFn = "payload" => Len(rx_buffer) + rx_bytes_to_read = Size[rx_current_op]
  /\ wire \in Seq(LineBytes) /\ sent \in Seq(Sendable)

IsSubsequence(s, t) ==
  \E at \in [DOMAIN s -> DOMAIN t] :
    \A i, j \in DOMAIN s : s[i] = t[at[i]] /\ (i < j => at[i] < at[j])

\* The only fault is a wrong byte in the payload or the checksum of a packet.
WrongByte == Len(faults) = 1 /\ faults[1].kind = "corrupt" /\ faults[1].at \in {"payload", "checksum"}

\* While the line is good every packet arrives, unaltered and in order, whatever
\* its payload and checksum look like, the synchronization bytes included
\* (packet_handler.c:161-180 against 55-143).  One wrong byte in a packet's
\* payload or checksum is noticed and costs this packet only (line 132).
ExactOrNoticed ==
  /\ faults = <<>> => IsPrefix(delivered, sent) /\ (wire = <<>> => delivered = sent)
  /\ WrongByte => /\ IsSubsequence(delivered, sent)
                  /\ wire = <<>> => Len(delivered) = Len(sent) - 1

\* No AA in a packet or its checksum.  Its size and the next byte are not type and
\* size of another one.
Plain(p) ==
  /\ AA \notin ToSet(Append(p, Checksum(p)))
  /\ ~(p[2] \in Installed /\ p[3] = Size[p[2]])

\* In traffic that cannot be taken for the beginning of a frame, any one fault is
\* noticed: every packet given to on_receive_fn is one that was sent, and none is
\* given twice.  It costs two packets at most, the one it hits and, when a lost
\* byte makes the receiver take the next frame's AA for a checksum, that one; then
\* it is synchronized.
TwoLostPerFault ==
  Len(faults) = 1 /\ (\A p \in ToSet(sent) : Plain(p))
    => IsSubsequence(delivered, sent) /\ (wire = <<>> => Len(sent) - Len(delivered) <= 2)
=============================================================================
