--------------------------- MODULE DeferredPackets ---------------------------
(***************************************************************************)
(* deferred_packet_handler.c: the receiver parses a packet into a buffer   *)
(* taken from a small ring of its type, appends it to the pending packets, *)
(* and later the firmware's main loop executes the actions of all of them. *)
(*                                                                         *)
(* Receiving and processing are calls of the same loop (orazio_comm.c:     *)
(* 302-306), so they do not overlap; but a packet may be half received     *)
(* when the pending ones are processed, with its buffer already chosen.    *)
(***************************************************************************)
EXTENDS Integers, Sequences

CONSTANTS Types,                \* packet types, all installed
          PacketBuffersMax,     \* buffers of each type (packet_buffers_max)
          PENDING_PACKETS_MAX,
          Partial,              \* a buffer that is empty or being written
          MaxPackets            \* bound: packets received in one behaviour

ASSUME DeferredAssumption == /\ PacketBuffersMax \in Nat \ {0}
                             /\ PENDING_PACKETS_MAX \in Nat \ {0}
                             /\ MaxPackets \in Nat

Slots == 0 .. PacketBuffersMax - 1
Packets == [type : Types, number : 1 .. MaxPackets]
ASSUME PartialAssumption == Partial \notin Packets
Ref == [type : Types, slot : Slots, ticket : Nat]

VARIABLES
  buffers,    \* per type, what each buffer holds: a packet or Partial
  start, end, size,   \* per type: packet_buffers_start, _end and _size
  rx,         \* {} or {the buffer of the packet being received}
  pending,    \* pending_packets: pointers to buffers
  pnum,       \* processed so far in processPendingPackets, or -1 outside of it
  received,   \* packets received so far: the number of the next one
  stored, taken,  \* history, per type: packets put into and got from the ring
  executed    \* history: the packets whose action was executed

deferredVars == <<buffers, start, end, size, rx, pending, pnum, received, stored, taken, executed>>

\* DeferredPacketHandler_initialize, and installPacket of every type
DeferredInit ==
  /\ buffers = [t \in Types |-> [s \in Slots |-> Partial]]
  /\ start = [t \in Types |-> 0]
  /\ end = [t \in Types |-> 0]
  /\ size = [t \in Types |-> 0]
  /\ rx = {}
  /\ pending = <<>>
  /\ pnum = -1
  /\ received = 0
  /\ stored = [t \in Types |-> 0]
  /\ taken = [t \in Types |-> 0]
  /\ executed = <<>>

\* The index step of BUFFER_PUT and BUFFER_GET.
Advance(index) == IF index + 1 >= PacketBuffersMax THEN 0 ELSE index + 1

-----------------------------------------------------------------------------
(* Reception: what packet_handler.c calls while it parses                  *)

\* Mutant of InitializeBuffer: a full ring is not noticed.
InitializeBufferUnchecked(t) ==
  /\ pnum = -1 /\ rx = {}
  /\ rx' = {[type |-> t, slot |-> end[t]]}
  /\ buffers' = [buffers EXCEPT ![t][end[t]] = Partial]
  /\ UNCHANGED <<start, end, size, pending, pnum, received, stored, taken, executed>>

\* _initializeBuffer, at the size byte of a packet of type t.  If every
\* buffer of the type is taken it returns 0 and the packet is skipped.
InitializeBuffer(t) ==
  /\ pnum = -1 /\ rx = {}
  /\ size[t] < PacketBuffersMax
  /\ rx' = {[type |-> t, slot |-> end[t]]}
  /\ buffers' = [buffers EXCEPT ![t][end[t]] = Partial]
  /\ UNCHANGED <<start, end, size, pending, pnum, received, stored, taken, executed>>

\* The checksum is wrong: the buffer was written over and is not used.
ChecksumError ==
  /\ pnum = -1 /\ rx # {}
  /\ rx' = {}
  /\ UNCHANGED <<buffers, start, end, size, pending, pnum, received, stored, taken, executed>>

\* _onReceive.  Without room in pending_packets the packet is forgotten and
\* its buffer stays the next one to write.
OnReceive ==
  /\ pnum = -1 /\ received < MaxPackets
  /\ \E b \in rx :
       /\ buffers' = [buffers EXCEPT ![b.type][b.slot] =
                                       [type |-> b.type, number |-> received + 1]]
       /\ IF Len(pending) >= PENDING_PACKETS_MAX
            THEN UNCHANGED <<pending, end, size, stored>>
            ELSE /\ pending' = Append(pending, [type |-> b.type, slot |-> b.slot,
                                                ticket |-> stored[b.type]])
                 /\ end' = [end EXCEPT ![b.type] = Advance(@)]
                 /\ size' = [size EXCEPT ![b.type] = @ + 1]
                 /\ stored' = [stored EXCEPT ![b.type] = @ + 1]
  /\ rx' = {}
  /\ received' = received + 1
  /\ UNCHANGED <<start, pnum, taken, executed>>

-----------------------------------------------------------------------------
(* DeferredPacketHandler_processPendingPackets                             *)

Process ==
  /\ pnum = -1
  /\ pnum' = 0
  /\ UNCHANGED <<buffers, start, end, size, rx, pending, received, stored, taken, executed>>

\* One round of the loop: the action, on whatever the buffer holds, and
\* BUFFER_GET.
ProcessPacket ==
  /\ pnum \in 0 .. Len(pending) - 1
  /\ LET p == pending[pnum + 1]
     IN  /\ executed' = Append(executed, buffers[p.type][p.slot])
         /\ start' = [start EXCEPT ![p.type] = Advance(@)]
         /\ size' = [size EXCEPT ![p.type] = @ - 1]
         /\ taken' = [taken EXCEPT ![p.type] = @ + 1]
  /\ pnum' = pnum + 1
  /\ UNCHANGED <<buffers, end, rx, pending, received, stored>>

\* Mutant of ProcessEnd: the rings start over, whatever is being received.
ProcessEndReset ==
  /\ pnum = Len(pending)
  /\ pending' = <<>>
  /\ pnum' = -1
  /\ start' = [t \in Types |-> 0]
  /\ end' = [t \in Types |-> 0]
  /\ UNCHANGED <<buffers, size, rx, received, stored, taken, executed>>

ProcessEnd ==
  /\ pnum = Len(pending)
  /\ pending' = <<>>
  /\ pnum' = -1
  /\ UNCHANGED <<buffers, start, end, size, rx, received, stored, taken, executed>>

DeferredNext == \/ \E t \in Types : InitializeBuffer(t)
                \/ ChecksumError \/ OnReceive
                \/ Process \/ ProcessPacket \/ ProcessEnd

DeferredSpec == DeferredInit /\ [][DeferredNext]_deferredVars

-----------------------------------------------------------------------------
(* Properties *)

DeferredTypeOK ==
  /\ buffers \in [Types -> [Slots -> Packets \cup {Partial}]]
  /\ start \in [Types -> Slots] /\ end \in [Types -> Slots]
  /\ size \in [Types -> 0 .. PacketBuffersMax]
  /\ rx \in SUBSET [type : Types, slot : Slots]
  /\ pending \in Seq(Ref) /\ Len(pending) <= PENDING_PACKETS_MAX
  /\ pnum \in -1 .. Len(pending)
  /\ received \in 0 .. MaxPackets
  /\ stored \in [Types -> Nat] /\ taken \in [Types -> Nat]
  /\ executed \in Seq(Packets \cup {Partial})

\* The index in pending of the first packet that is not processed.
First == IF pnum = -1 THEN 1 ELSE pnum + 1

\* deferred_packet_handler.c:30, assert(packet==info->packet_buffers[...end]):
\* the packet that was received is in the buffer the ring would give next,
\* even if others were processed since its buffer was chosen.
ReceivedIntoEnd == \A b \in rx : b.slot = end[b.type] /\ size[b.type] < PacketBuffersMax

\* deferred_packet_handler.c:87, assert(p==info->packet_buffers[...start]):
\* pending mixes all types, and still each packet is, when its turn comes,
\* the oldest in the ring of its own type.
ProcessedFromStart ==
  pnum \in 0 .. Len(pending) - 1 =>
    pending[pnum + 1].slot = start[pending[pnum + 1].type]

\* Neither assert of deferred_packet_handler.c ever fails.
AssertionsHold == ReceivedIntoEnd /\ ProcessedFromStart

\* The slot of the packet of type t that has a ticket: the ticket counts from
\* the start of the ring, around its end.
Wrap(i) == IF i < PacketBuffersMax THEN i ELSE i - PacketBuffersMax
SlotOf(t, ticket) == Wrap(start[t] + (ticket - taken[t]))

\* The three indices of a ring agree with what was put into it and got from it.
RingCounts ==
  \A t \in Types : stored[t] = taken[t] + size[t] /\ end[t] = SlotOf(t, stored[t])

\* A pending packet that is not processed is in the ring of its type, in the
\* slot its turn gives it, and has been received to the end.
PendingInRing ==
  \A i \in First .. Len(pending) :
    LET p == pending[i]
    IN  /\ p.ticket \in taken[p.type] .. stored[p.type] - 1
        /\ p.slot = SlotOf(p.type, p.ticket)
        /\ buffers[p.type][p.slot] \in Packets

\* The packets of one type are pending in the order of their ring.
PendingInOrder ==
  \A i, j \in First .. Len(pending) :
    i < j /\ pending[i].type = pending[j].type => pending[i].ticket < pending[j].ticket

\* Every packet in a ring is pending.
RingInPending ==
  \A t \in Types : \A n \in taken[t] .. stored[t] - 1 :
    \E i \in First .. Len(pending) : pending[i].type = t /\ pending[i].ticket = n

\* The rings of the types and the one array of pending pointers, which the
\* code advances apart, describe the same packets.
RingsMatchPending == RingCounts /\ PendingInRing /\ PendingInOrder /\ RingInPending

\* The packets that wait, read where the pending pointers point.
Waiting == [i \in 1 .. Len(pending) - First + 1 |->
              LET p == pending[First + i - 1] IN buffers[p.type][p.slot]]

Queue == INSTANCE CommandQueue WITH waiting <- Waiting, Capacity <- PENDING_PACKETS_MAX

\* The firmware executes what it received, in order, once, and unaltered: no
\* buffer of a pending packet is written over by a later one.
ImplementsQueue == Queue!QSpec
=============================================================================
