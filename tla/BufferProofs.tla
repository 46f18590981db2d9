---------------------------- MODULE BufferProofs ----------------------------
(***************************************************************************)
(* Three buffers and the packet receiver, and what they promise.  For      *)
(* every number of producers, set of items and number of nodes, queue.h    *)
(* keeps its chain of nodes intact and implements a queue.  For every ring *)
(* size and set of frames, the transmit ring of packet_handler.c           *)
(* implements a bounded pipe of whole frames.  For any number of types,    *)
(* buffers per type and pending packets, the two assertions of             *)
(* deferred_packet_handler.c never fail, and it implements a queue.  For   *)
(* any packets of any length, the receiver of packet_handler.c gets what a *)
(* good line brings and finds the frames again after a fault.              *)
(***************************************************************************)
EXTENDS LinkedQueue, TxRing, DeferredPackets, PacketReceiver, SequenceTheorems,
        WellFoundedInduction, TLAPS

-----------------------------------------------------------------------------
(* The chain of nodes *)

LinkedAssumptions == /\ NoItem \notin Items
               /\ MaxNodes \in Nat
               /\ Free \notin Producers

LEMMA AssumptionsHold == LinkedAssumptions
BY ItemsAssumption, BoundAssumption, ThreadsAssumption DEF LinkedAssumptions

\* A fresh queue (createQueue) satisfies the invariant.
LEMMA LinkedInitInv == LinkedInit => QueueInv
BY AssumptionsHold
DEF LinkedAssumptions, LinkedInit, QueueInv, LinkedTypeOK, EndsAgree, ChainIntact, TempIsNewest, NodesWritten,
    Node, NULL, Free

\* One lemma per step of queue.h: the step preserves the invariant.
LEMMA NewNodeInv ==
  ASSUME QueueInv, NEW p \in Producers, NEW d \in Items, NewNode(p, d)
  PROVE  QueueInv'
<1>1. LinkedTypeOK'
  BY AssumptionsHold
  DEF LinkedAssumptions, QueueInv, LinkedTypeOK, NewNode, Node, NULL, Free
<1>2. EndsAgree' /\ TempIsNewest'
  BY AssumptionsHold
  DEF LinkedAssumptions, QueueInv, LinkedTypeOK, EndsAgree, TempIsNewest, NewNode, Node, NULL, Free
<1>3. ChainIntact'
  BY AssumptionsHold
  DEF LinkedAssumptions, QueueInv, LinkedTypeOK, EndsAgree, TempIsNewest, ChainIntact, NewNode, Node, NULL, Free
<1>4. NodesWritten'
  BY AssumptionsHold
  DEF LinkedAssumptions, QueueInv, LinkedTypeOK, NodesWritten, NewNode, Node, NULL, Free
<1> QED BY <1>1, <1>2, <1>3, <1>4 DEF QueueInv

LEMMA FirstTailInv == QueueInv /\ FirstTail => QueueInv'
BY AssumptionsHold
DEF LinkedAssumptions, QueueInv, LinkedTypeOK, EndsAgree, ChainIntact, TempIsNewest, NodesWritten,
    FirstTail, Node, NULL, Free

LEMMA FirstHeadInv == QueueInv /\ FirstHead => QueueInv'
BY AssumptionsHold
DEF LinkedAssumptions, QueueInv, LinkedTypeOK, EndsAgree, ChainIntact, TempIsNewest, NodesWritten,
    FirstHead, Node, NULL, Free

LEMMA LinkInv == QueueInv /\ Link => QueueInv'
BY AssumptionsHold
DEF LinkedAssumptions, QueueInv, LinkedTypeOK, EndsAgree, ChainIntact, TempIsNewest, NodesWritten,
    Link, Node, NULL, Free

LEMMA SetTailInv == QueueInv /\ SetTail => QueueInv'
BY AssumptionsHold
DEF LinkedAssumptions, QueueInv, LinkedTypeOK, EndsAgree, ChainIntact, TempIsNewest, NodesWritten,
    SetTail, Node, NULL, Free

LEMMA UnlockInv == QueueInv /\ Unlock => QueueInv'
BY AssumptionsHold
DEF LinkedAssumptions, QueueInv, LinkedTypeOK, EndsAgree, ChainIntact, TempIsNewest, NodesWritten,
    Unlock, Node, NULL, Free

LEMMA DequeueInv == QueueInv /\ Dequeue => QueueInv'
BY AssumptionsHold
DEF LinkedAssumptions, QueueInv, LinkedTypeOK, EndsAgree, ChainIntact, TempIsNewest, NodesWritten,
    Dequeue, Node, NULL, Free

LEMMA IsEmptyInv == QueueInv /\ (ReadHead \/ ReadTail) => QueueInv'
BY AssumptionsHold
DEF LinkedAssumptions, QueueInv, LinkedTypeOK, EndsAgree, ChainIntact, TempIsNewest, NodesWritten,
    ReadHead, ReadTail, Node, NULL, Free

LEMMA LinkedStutter == QueueInv /\ UNCHANGED linkedVars => QueueInv'
BY DEF QueueInv, LinkedTypeOK, EndsAgree, ChainIntact, TempIsNewest, NodesWritten, linkedVars

\* The chain of nodes from head to tail is intact in every reachable state,
\* whatever the producers and the consumer interleave.
THEOREM QueueInvariant == LinkedSpec => []QueueInv
<1>1. QueueInv /\ [LinkedNext]_linkedVars => QueueInv'
  BY NewNodeInv, FirstTailInv, FirstHeadInv, LinkInv, SetTailInv, UnlockInv, DequeueInv,
     IsEmptyInv, LinkedStutter DEF LinkedNext
<1> QED BY <1>1, LinkedInitInv, PTL DEF LinkedSpec

-----------------------------------------------------------------------------
(* Refinement: each step maps to a step of QueueSpec or leaves it alone. *)

\* The nodes from head to tail hold items.
LEMMA ItemsType ==
  ASSUME QueueInv
  PROVE  /\ Contents \in Seq(Items)
         /\ head # NULL /\ tail # NULL => Len(Contents) = tail - head + 1
<1>1. CASE head = NULL \/ tail = NULL
  BY <1>1 DEF Contents, QueueInv
<1>2. CASE head # NULL /\ tail # NULL
  <2>1. /\ head \in 1 .. MaxNodes /\ tail \in 1 .. MaxNodes /\ head <= tail
        /\ tail <= allocated /\ allocated \in Nat /\ MaxNodes \in Nat
    BY <1>2, AssumptionsHold
    DEF LinkedAssumptions, QueueInv, LinkedTypeOK, ChainIntact, TempIsNewest, Node, NULL
  <2>2. \A i \in 1 .. (tail - head + 1) : data[head + i - 1] \in Items
    BY <2>1 DEF QueueInv, NodesWritten, Node
  <2> QED BY <1>2, <2>1, <2>2 DEF Contents
<1> QED BY <1>1, <1>2

LEMMA NewNodeStep ==
  ASSUME QueueInv, NEW p \in Producers, NEW d \in Items, NewNode(p, d)
  PROVE  UNCHANGED <<Contents, got, answer>>
<1>1. CASE head = NULL \/ tail = NULL
  BY <1>1 DEF NewNode, Contents
<1>2. CASE head # NULL /\ tail # NULL
  <2>1. /\ head \in 1 .. MaxNodes /\ tail \in 1 .. MaxNodes /\ tail = allocated
        /\ MaxNodes \in Nat /\ allocated < MaxNodes
    BY <1>2, AssumptionsHold
    DEF LinkedAssumptions, NewNode, QueueInv, LinkedTypeOK, TempIsNewest, Node, NULL
  <2>2. \A i \in 1 .. (tail - head + 1) : data'[head + i - 1] = data[head + i - 1]
    BY <2>1 DEF NewNode, QueueInv, LinkedTypeOK, Node
  <2> QED BY <1>2, <2>2 DEF NewNode, Contents
<1> QED BY <1>1, <1>2

\* The first insertion takes effect with the second of its two stores.
LEMMA FirstStep ==
  ASSUME QueueInv, FirstTail \/ FirstHead
  PROVE  Abstract!ANext \/ UNCHANGED <<Contents, got, answer>>
<1>1. CASE pc = "first"
  BY <1>1 DEF FirstTail, FirstHead, Contents, QueueInv, TempIsNewest
<1>2. CASE pc # "first"
  <2>1. Contents = <<>>
    BY <1>2 DEF FirstTail, FirstHead, Contents, QueueInv, TempIsNewest
  <2>2. temp \in Node /\ temp = allocated /\ head' = temp /\ tail' = temp /\ data' = data
    BY <1>2 DEF FirstTail, FirstHead, QueueInv, LinkedTypeOK, TempIsNewest, NULL
  <2>3. data[temp] \in Items
    BY <2>2 DEF QueueInv, NodesWritten, LinkedTypeOK, Node
  <2>4. Contents' = [i \in 1 .. (temp - temp + 1) |-> data[temp + i - 1]]
    BY <2>2 DEF Contents, Node, NULL
  <2>5. temp - temp + 1 = 1 /\ \A i \in 1 .. 1 : temp + i - 1 = temp
    BY <2>2 DEF Node
  <2>6. Contents' = <<data[temp]>>
    BY <2>4, <2>5
  <2>7. Contents' = Append(Contents, data[temp])
    BY <2>1, <2>6
  <2> QED BY <2>3, <2>7 DEF FirstTail, FirstHead, Abstract!ANext, Abstract!Insert
<1> QED BY <1>1, <1>2

LEMMA SetTailStep ==
  ASSUME QueueInv, SetTail
  PROVE  Abstract!ANext
<1>1. /\ head \in Node /\ tail \in Node /\ head # NULL /\ tail # NULL /\ head <= tail
      /\ temp \in Node /\ temp # NULL /\ temp = allocated /\ tail + 1 = temp
      /\ tail' = temp /\ head' = head /\ data' = data
  BY AssumptionsHold
  DEF LinkedAssumptions, SetTail, QueueInv, LinkedTypeOK, ChainIntact, TempIsNewest, Node, NULL
<1>2. data[temp] \in Items
  BY <1>1 DEF QueueInv, NodesWritten, LinkedTypeOK, Node
<1>3. Contents \in Seq(Items) /\ Len(Contents) = tail - head + 1
  BY <1>1, ItemsType
<1>4. Contents = [i \in 1 .. (tail - head + 1) |-> data[head + i - 1]]
  BY <1>1 DEF Contents
<1>5. Contents' = [i \in 1 .. (temp - head + 1) |-> data[head + i - 1]]
  BY <1>1 DEF Contents
<1>6. Contents' = Append(Contents, data[temp])
  BY <1>1, <1>2, <1>3, <1>4, <1>5 DEF Node
<1> QED BY <1>2, <1>6 DEF SetTail, Abstract!ANext, Abstract!Insert

LEMMA DequeueStep ==
  ASSUME QueueInv, Dequeue
  PROVE  Abstract!Remove
<1>1. pc = "idle"
  BY DEF Dequeue, QueueInv, TempIsNewest
<1>2. CASE head = NULL
  BY <1>1, <1>2 DEF Dequeue, Contents, Abstract!Remove
<1>3. CASE head # NULL
  <2>1. /\ head \in Node /\ tail \in Node /\ tail # NULL /\ head <= tail
        /\ next[tail] = NULL /\ \A n \in head .. tail - 1 : next[n] = n + 1
    BY <1>1, <1>3 DEF QueueInv, LinkedTypeOK, EndsAgree, ChainIntact, NULL
  <2>2. Contents \in Seq(Items) /\ Len(Contents) = tail - head + 1
    BY <1>3, <2>1, ItemsType
  <2>3. Contents = [i \in 1 .. (tail - head + 1) |-> data[head + i - 1]]
    BY <1>3, <2>1 DEF Contents
  <2>4. Contents # <<>> /\ Head(Contents) = data[head]
    BY <2>1, <2>2, <2>3 DEF Node
  <2>5. CASE head = tail
    <3>1. Contents' = <<>>
      BY <1>3, <2>1, <2>5 DEF Dequeue, Contents
    <3>2. Tail(Contents) = <<>>
      <4>1. Len(Contents) = 1
        BY <2>1, <2>2, <2>5 DEF Node
      <4>2. Tail(Contents) \in Seq(Items) /\ Len(Tail(Contents)) = 0
        BY <2>2, <2>4, <4>1, HeadTailProperties
      <4> QED BY <4>2, EmptySeq
    <3> QED BY <1>3, <2>4, <3>1, <3>2 DEF Dequeue, Abstract!Remove
  <2>6. CASE head # tail
    <3>1. head' = head + 1 /\ tail' = tail /\ data' = data
      BY <1>3, <2>1, <2>6 DEF Dequeue, Node, NULL
    <3>2. Contents' = [i \in 1 .. (tail - head) |-> data[head + i]]
      <4>1. head' # NULL /\ tail' # NULL /\ tail' - head' + 1 = tail - head
        BY <2>1, <3>1 DEF Node, NULL
      <4>2. Contents' = [i \in 1 .. (tail - head) |-> data[head + 1 + i - 1]]
        BY <3>1, <4>1 DEF Contents
      <4>3. \A i \in 1 .. (tail - head) : head + 1 + i - 1 = head + i
        BY <2>1 DEF Node
      <4> QED BY <4>2, <4>3
    <3>3. Tail(Contents) = [i \in 1 .. (tail - head) |-> data[head + i]]
      BY <2>1, <2>2, <2>3 DEF Node
    <3> QED BY <1>3, <2>4, <3>2, <3>3 DEF Dequeue, Abstract!Remove
  <2> QED BY <2>5, <2>6
<1> QED BY <1>2, <1>3

\* An "empty" answer is given only of an empty queue.
LEMMA IsEmptyStep ==
  ASSUME QueueInv, ReadHead \/ ReadTail
  PROVE  Abstract!ANext \/ UNCHANGED <<Contents, got, answer>>
BY DEF ReadHead, ReadTail, Contents, Abstract!ANext, Abstract!AnswerEmpty, Abstract!AnswerNonempty

\* queue.h, used as orazio_logger.c uses it, implements the abstract queue:
\* first in first out, nothing lost or repeated, and no false "empty".
THEOREM LinkedRefinement == LinkedSpec => LinkedImplementsQueue
<1>1. LinkedInit => Abstract!AInit
  BY DEF LinkedInit, Contents, Abstract!AInit
<1>2. QueueInv /\ [LinkedNext]_linkedVars => [Abstract!ANext]_(Abstract!avars)
  <2> SUFFICES ASSUME QueueInv, [LinkedNext]_linkedVars
               PROVE  Abstract!ANext \/ UNCHANGED <<Contents, got, answer>>
    BY DEF Abstract!avars
  <2>1. ASSUME NEW p \in Producers, NEW d \in Items, NewNode(p, d)
        PROVE  UNCHANGED <<Contents, got, answer>>
    BY <2>1, NewNodeStep
  <2>2. CASE Link \/ Unlock \/ UNCHANGED linkedVars
    BY <2>2 DEF Link, Unlock, linkedVars, Contents
  <2> QED
    BY <2>1, <2>2, FirstStep, SetTailStep, DequeueStep, IsEmptyStep
    DEF LinkedNext, Abstract!ANext
<1> QED BY <1>1, <1>2, QueueInvariant, PTL DEF LinkedSpec, LinkedImplementsQueue, Abstract!ASpec

-----------------------------------------------------------------------------
(* The transmit ring *)

LEMMA RingConstants ==
  /\ PACKET_SIZE_MAX \in Nat /\ PACKET_SIZE_MAX > 0
  /\ NoByte \in Bytes
  /\ \A f \in Frames : f \in Seq(Bytes) /\ f # <<>> /\ Len(f) \in Nat
BY SizeAssumption, FramesAssumption

-----------------------------------------------------------------------------
(* Index arithmetic *)

\* TxSlots are slots, and advancing an index is going to the next slot.
LEMMA SlotType ==
  ASSUME RingTypeOK
  PROVE  /\ \A i \in 0 .. PACKET_SIZE_MAX : Slot(i) \in TxSlots
         /\ \A i \in 0 .. PACKET_SIZE_MAX - 1 : Slot(i + 1) = TxAdvance(Slot(i))
BY RingConstants DEF RingTypeOK, TxSlots, Slot, TxAdvance

\* Different positions of the ring are different slots.
LEMMA SlotInjective ==
  ASSUME RingTypeOK, NEW i \in 0 .. PACKET_SIZE_MAX - 1, NEW j \in 0 .. PACKET_SIZE_MAX - 1,
         Slot(i) = Slot(j)
  PROVE  i = j
BY RingConstants DEF RingTypeOK, TxSlots, Slot

LEMMA ContentsType == RingTypeOK => TxContents \in Seq(Bytes) /\ Len(TxContents) = tx_size
<1> SUFFICES ASSUME RingTypeOK
             PROVE  TxContents \in Seq(Bytes) /\ Len(TxContents) = tx_size
  OBVIOUS
<1>1. tx_size \in Nat /\ \A i \in 1 .. tx_size : tx_buffer[Slot(i - 1)] \in Bytes
  BY RingConstants, SlotType DEF RingTypeOK
<1> QED BY <1>1 DEF TxContents

-----------------------------------------------------------------------------
(* The invariant *)

LEMMA RingInitInv == RingInit => RingInv
BY RingConstants DEF RingInit, RingInv, RingTypeOK, TxSlots, Slot

LEMMA SendPacketInv ==
  ASSUME RingInv, NEW f \in Frames, SendPacket(f)
  PROVE  RingInv'
<1>1. RingTypeOK'
  BY RingConstants DEF SendPacket, RingInv, RingTypeOK
<1>2. (tx_end = Slot(tx_size))'
  BY DEF SendPacket, RingInv, Slot
<1>3. (tx_size + Len(sending) <= PACKET_SIZE_MAX)'
  <2>1. CASE PACKET_SIZE_MAX - tx_size < Len(f)
    BY <2>1 DEF SendPacket, RingInv
  <2>2. CASE ~(PACKET_SIZE_MAX - tx_size < Len(f))
    <3>1. sending' = f /\ tx_size' = tx_size /\ tx_size \in 0 .. PACKET_SIZE_MAX
      BY <2>2 DEF SendPacket, RingInv, RingTypeOK
    <3>2. tx_size + Len(f) <= PACKET_SIZE_MAX
      BY <2>2, <3>1, RingConstants
    <3> QED BY <3>1, <3>2
  <2> QED BY <2>1, <2>2
<1> QED BY <1>1, <1>2, <1>3 DEF RingInv

\* While a frame is being put the ring is not full: no byte is dropped.
LEMMA PutTxByteInv ==
  ASSUME RingInv, PutTxByte
  PROVE  RingInv' /\ tx_size < PACKET_SIZE_MAX
<1>1. /\ sending \in Seq(Bytes) /\ sending # <<>>
      /\ Head(sending) \in Bytes /\ Tail(sending) \in Seq(Bytes)
      /\ Len(Tail(sending)) = Len(sending) - 1 /\ Len(sending) \in Nat \ {0}
  BY HeadTailProperties, EmptySeq DEF PutTxByte, RingInv, RingTypeOK
<1>2. tx_size < PACKET_SIZE_MAX
  BY <1>1, RingConstants DEF RingInv, RingTypeOK
<1>3. /\ sending' = Tail(sending) /\ tx_size' = tx_size + 1 /\ tx_end' = TxAdvance(tx_end)
      /\ tx_buffer' = [tx_buffer EXCEPT ![tx_end] = Head(sending)]
      /\ UNCHANGED <<tx_start, byte, status>>
  BY <1>2 DEF PutTxByte, RingInv, RingTypeOK
<1>4. RingTypeOK'
  <2>1. tx_buffer' \in [TxSlots -> Bytes]
    BY <1>1, <1>3 DEF RingInv, RingTypeOK
  <2>2. tx_size' \in 0 .. PACKET_SIZE_MAX /\ tx_end' \in TxSlots
    BY <1>2, <1>3, RingConstants DEF RingInv, RingTypeOK, TxSlots, TxAdvance
  <2> QED BY <1>1, <1>3, <2>1, <2>2 DEF RingInv, RingTypeOK
<1>5. (tx_end = Slot(tx_size))'
  BY <1>2, <1>3, RingConstants DEF RingInv, RingTypeOK, TxSlots, Slot, TxAdvance
<1>6. (tx_size + Len(sending) <= PACKET_SIZE_MAX)'
  <2>1. tx_size + Len(sending) <= PACKET_SIZE_MAX /\ tx_size \in Nat
    BY RingConstants DEF RingInv, RingTypeOK
  <2>2. tx_size' + Len(sending') = tx_size + Len(sending)
    BY <1>1, <1>3, <2>1
  <2> QED BY <2>1, <2>2
<1> QED BY <1>2, <1>4, <1>5, <1>6 DEF RingInv

LEMMA TxByteInv ==
  ASSUME RingInv, TxByte
  PROVE  RingInv'
BY RingConstants DEF TxByte, RingInv, RingTypeOK, TxSlots, Slot, TxAdvance

LEMMA StutterInv == RingInv /\ UNCHANGED ringVars => RingInv'
BY DEF RingInv, RingTypeOK, Slot, ringVars

\* The indices of the ring agree, and room is kept for a frame once begun.
THEOREM RingInvariant == RingSpec => []RingInv
<1>1. RingInv /\ [RingNext]_ringVars => RingInv'
  BY SendPacketInv, PutTxByteInv, TxByteInv, StutterInv DEF RingNext
<1> QED BY <1>1, RingInitInv, PTL DEF RingSpec

-----------------------------------------------------------------------------
(* Refinement *)

\* Putting a byte moves it from the rest of the frame to the ring: the pipe,
\* which holds both, does not change.
LEMMA PutTxByteStep ==
  ASSUME RingInv, PutTxByte
  PROVE  UNCHANGED <<TxContents \o sending, byte, status>>
<1>1. RingTypeOK /\ RingTypeOK' /\ tx_size < PACKET_SIZE_MAX /\ tx_end = Slot(tx_size)
  BY PutTxByteInv DEF RingInv
<1>2. /\ sending \in Seq(Bytes) /\ sending # <<>>
      /\ Head(sending) \in Bytes /\ Tail(sending) \in Seq(Bytes)
      /\ sending = <<Head(sending)>> \o Tail(sending)
  <2>1. sending \in Seq(Bytes) /\ sending # <<>>
    BY DEF PutTxByte, RingInv, RingTypeOK
  <2> QED BY <2>1, HeadTailProperties
<1>3. TxContents \in Seq(Bytes) /\ Len(TxContents) = tx_size
      /\ TxContents' \in Seq(Bytes) /\ Len(TxContents') = tx_size + 1
  <2>1. tx_size' = tx_size + 1
    BY <1>1 DEF PutTxByte, RingTypeOK
  <2>2. (RingTypeOK => TxContents \in Seq(Bytes) /\ Len(TxContents) = tx_size)'
    BY ContentsType, PTL
  <2> QED BY <1>1, <2>1, <2>2, ContentsType
<1>4. TxContents' = Append(TxContents, Head(sending))
  <2>1. tx_start' = tx_start /\ tx_size' = tx_size + 1
        /\ tx_buffer' = [tx_buffer EXCEPT ![Slot(tx_size)] = Head(sending)]
    BY <1>1 DEF PutTxByte, RingTypeOK
  <2>2. \A i \in 1 .. tx_size : TxContents'[i] = TxContents[i]
    <3> SUFFICES ASSUME NEW i \in 1 .. tx_size
                 PROVE  TxContents'[i] = TxContents[i]
      OBVIOUS
    <3>1. Slot(i - 1) # Slot(tx_size) /\ Slot(i - 1) \in TxSlots
      <4>1. i - 1 \in 0 .. PACKET_SIZE_MAX - 1 /\ tx_size \in 0 .. PACKET_SIZE_MAX - 1
            /\ i - 1 # tx_size
        BY <1>1, RingConstants DEF RingTypeOK
      <4>2. Slot(i - 1) # Slot(tx_size)
        BY <1>1, <4>1, SlotInjective
      <4>3. i - 1 \in 0 .. PACKET_SIZE_MAX
        BY <4>1, RingConstants
      <4> QED BY <1>1, <4>2, <4>3, SlotType
    <3>2. TxContents'[i] = tx_buffer'[Slot(i - 1)]
      BY <1>1, <2>1 DEF TxContents, Slot, RingTypeOK
    <3>3. TxContents[i] = tx_buffer[Slot(i - 1)]
      BY <1>1 DEF TxContents
    <3> QED BY <1>1, <2>1, <3>1, <3>2, <3>3 DEF RingTypeOK
  <2>3. TxContents'[tx_size + 1] = Head(sending)
    <3>1. Slot(tx_size) \in TxSlots
      BY <1>1, SlotType, RingConstants DEF RingTypeOK
    <3>2. TxContents'[tx_size + 1] = tx_buffer'[Slot(tx_size)]
      <4> DEFINE last == tx_size + 1
      <4>1. last \in 1 .. tx_size' /\ last - 1 = tx_size
        BY <1>1, <2>1 DEF RingTypeOK
      <4>2. \A j \in 1 .. tx_size' : TxContents'[j] = tx_buffer'[Slot(j - 1)]
        BY <2>1 DEF TxContents, Slot
      <4> HIDE DEF last
      <4>3. TxContents'[last] = tx_buffer'[Slot(tx_size)]
        BY <4>1, <4>2
      <4> QED BY <4>3 DEF last
    <3> QED BY <1>1, <2>1, <3>1, <3>2 DEF RingTypeOK
  <2>4. Append(TxContents, Head(sending)) \in Seq(Bytes)
        /\ Len(Append(TxContents, Head(sending))) = tx_size + 1
        /\ \A i \in 1 .. tx_size : Append(TxContents, Head(sending))[i] = TxContents[i]
        /\ Append(TxContents, Head(sending))[tx_size + 1] = Head(sending)
    BY <1>2, <1>3, AppendProperties
  <2>5. \A i \in 1 .. tx_size + 1 : TxContents'[i] = Append(TxContents, Head(sending))[i]
    BY <1>1, <2>2, <2>3, <2>4 DEF RingTypeOK
  <2> QED BY <1>3, <2>4, <2>5, SeqEqual
<1>5. Append(TxContents, Head(sending)) = TxContents \o <<Head(sending)>>
  BY <1>2, <1>3, AppendIsConcat
<1>6. (TxContents \o <<Head(sending)>>) \o Tail(sending) = TxContents \o sending
  <2>1. <<Head(sending)>> \in Seq(Bytes)
    BY <1>2
  <2>2. \A s, t, u \in Seq(Bytes) : (s \o t) \o u = s \o (t \o u)
    BY ConcatAssociative
  <2>3. (TxContents \o <<Head(sending)>>) \o Tail(sending)
          = TxContents \o (<<Head(sending)>> \o Tail(sending))
    BY <1>2, <1>3, <2>1, <2>2, Zenon
  <2> QED BY <1>2, <2>3, Zenon
<1> QED BY <1>4, <1>5, <1>6 DEF PutTxByte

LEMMA SendPacketStep ==
  ASSUME RingInv, NEW f \in Frames, SendPacket(f)
  PROVE  Pipe!Accept(f) \/ Pipe!Refuse(f)
<1>1. TxContents \in Seq(Bytes) /\ Len(TxContents) = tx_size /\ tx_size \in Nat
  BY ContentsType, RingConstants DEF RingInv, RingTypeOK
<1>2. sending = <<>> /\ TxContents \o sending = TxContents
  BY <1>1, ConcatEmptySeq DEF SendPacket
<1>3. TxContents' = TxContents
  BY DEF SendPacket, TxContents, Slot
<1>4. CASE PACKET_SIZE_MAX - tx_size < Len(f)
  BY <1>1, <1>2, <1>3, <1>4, RingConstants DEF SendPacket, Pipe!Refuse
<1>5. CASE ~(PACKET_SIZE_MAX - tx_size < Len(f))
  BY <1>1, <1>2, <1>3, <1>5, RingConstants DEF SendPacket, Pipe!Accept
<1> QED BY <1>4, <1>5

LEMMA TxByteStep ==
  ASSUME RingInv, TxByte
  PROVE  Pipe!Take
<1>1. RingTypeOK /\ RingTypeOK' /\ tx_size \in Nat
  BY TxByteInv, RingConstants DEF RingInv, RingTypeOK
<1>2. TxContents \in Seq(Bytes) /\ Len(TxContents) = tx_size
      /\ TxContents' \in Seq(Bytes) /\ Len(TxContents') = tx_size'
  <2>1. (RingTypeOK => TxContents \in Seq(Bytes) /\ Len(TxContents) = tx_size)'
    BY ContentsType, PTL
  <2> QED BY <1>1, <2>1, ContentsType
<1>3. sending = <<>> /\ TxContents \o sending = TxContents /\ (TxContents \o sending)' = TxContents'
  BY <1>2, ConcatEmptySeq DEF TxByte
<1>4. CASE tx_size = 0
  <2>1. TxContents = <<>> /\ TxContents' = TxContents
    BY <1>2, <1>4, EmptySeq DEF TxByte, TxContents, Slot
  <2> QED BY <1>3, <1>4, <2>1 DEF TxByte, Pipe!Take
<1>5. CASE tx_size # 0
  <2>1. TxContents # <<>> /\ Head(TxContents) = tx_buffer[tx_start]
    <3>1. TxContents # <<>>
      BY <1>1, <1>2, <1>5, EmptySeq
    <3>2. Slot(0) = tx_start
      BY <1>1, RingConstants DEF RingTypeOK, TxSlots, Slot
    <3>3. TxContents[1] = tx_buffer[Slot(0)]
      BY <1>1, <1>5 DEF TxContents
    <3> QED BY <3>1, <3>2, <3>3
  <2>2. /\ Tail(TxContents) \in Seq(Bytes) /\ Len(Tail(TxContents)) = tx_size - 1
        /\ \A i \in 1 .. tx_size - 1 : Tail(TxContents)[i] = TxContents[i + 1]
    BY <1>2, <2>1, HeadTailProperties
  <2>3. tx_start' = TxAdvance(tx_start) /\ tx_size' = tx_size - 1 /\ tx_buffer' = tx_buffer
    BY <1>5 DEF TxByte
  <2>4. \A i \in 1 .. tx_size - 1 : TxContents'[i] = Tail(TxContents)[i]
    <3> SUFFICES ASSUME NEW i \in 1 .. tx_size - 1
                 PROVE  TxContents'[i] = TxContents[i + 1]
      BY <2>2
    <3>1. Slot(i - 1)' = Slot(i)
      BY <1>1, <2>3, RingConstants DEF RingTypeOK, TxSlots, Slot, TxAdvance
    <3>2. TxContents'[i] = tx_buffer[Slot(i - 1)']
      BY <1>1, <2>3 DEF TxContents
    <3>3. TxContents[i + 1] = tx_buffer[Slot(i)]
      <4>1. i + 1 \in 1 .. tx_size /\ i + 1 - 1 = i
        BY <1>1
      <4> QED BY <4>1 DEF TxContents
    <3> QED BY <3>1, <3>2, <3>3
  <2>5. TxContents' = Tail(TxContents)
    BY <1>2, <2>2, <2>3, <2>4, SeqEqual
  <2> QED BY <1>3, <1>5, <2>1, <2>5 DEF TxByte, Pipe!Take
<1> QED BY <1>4, <1>5

\* The ring of packet_handler.c implements the bounded pipe of frames.
THEOREM PipeRefinement == RingSpec => ImplementsPipe
<1>1. RingInit => Pipe!PInit
  <2> SUFFICES ASSUME RingInit PROVE Pipe!PInit
    OBVIOUS
  <2>1. TxContents = <<>> /\ sending = <<>>
    <3>1. RingTypeOK
      BY RingInitInv DEF RingInv
    <3> QED BY <3>1, ContentsType, EmptySeq DEF RingInit
  <2>2. TxContents \o sending = <<>>
    BY <2>1
  <2> QED BY <2>2 DEF RingInit, Pipe!PInit
<1>2. RingInv /\ [RingNext]_ringVars => [Pipe!PNext]_(Pipe!pvars)
  <2> SUFFICES ASSUME RingInv, [RingNext]_ringVars
               PROVE  Pipe!PNext \/ UNCHANGED <<TxContents \o sending, byte, status>>
    BY DEF Pipe!pvars
  <2>1. CASE UNCHANGED ringVars
    BY <2>1 DEF ringVars, TxContents, Slot
  <2> QED BY <2>1, SendPacketStep, PutTxByteStep, TxByteStep DEF RingNext, Pipe!PNext
<1> QED BY <1>1, <1>2, RingInvariant, PTL DEF RingSpec, ImplementsPipe, Pipe!PSpec

-----------------------------------------------------------------------------
(* The deferred packets *)

\* The inductive invariant.  The assertions alone are not inductive: they say
\* where the next packet is, not where the ones behind it are.
DeferredInv == DeferredTypeOK /\ ReceivedIntoEnd /\ RingsMatchPending

LEMMA DeferredConstants ==
  /\ PacketBuffersMax \in Nat /\ PacketBuffersMax > 0
  /\ PENDING_PACKETS_MAX \in Nat /\ MaxPackets \in Nat
BY DeferredAssumption

\* What DeferredTypeOK says of the entries of pending and of First.
LEMMA PendingType ==
  ASSUME DeferredTypeOK
  PROVE  /\ Len(pending) \in Nat
         /\ First \in 1 .. Len(pending) + 1
         /\ \A i \in 1 .. Len(pending) :
              pending[i].type \in Types /\ pending[i].slot \in Slots /\ pending[i].ticket \in Nat
<1>1. pending \in Seq(Ref) /\ Len(pending) \in Nat /\ pnum \in -1 .. Len(pending)
  BY LenProperties DEF DeferredTypeOK
<1>2. \A i \in 1 .. Len(pending) : pending[i] \in Ref
  BY <1>1, ElementOfSeq
<1>3. First \in 1 .. Len(pending) + 1
  BY <1>1 DEF First
<1> QED BY <1>1, <1>2, <1>3 DEF Ref

\* What the invariant says of the indices of one type.
LEMMA RingType ==
  ASSUME DeferredInv, NEW t \in Types
  PROVE  /\ start[t] \in Slots /\ end[t] \in Slots /\ size[t] \in 0 .. PacketBuffersMax
         /\ stored[t] \in Nat /\ taken[t] \in Nat
         /\ stored[t] = taken[t] + size[t] /\ end[t] = SlotOf(t, stored[t])
BY DEF DeferredInv, DeferredTypeOK, RingsMatchPending, RingCounts

\* Positions less than a ring's length apart are different slots.
LEMMA WrapInjective ==
  ASSUME NEW f \in Slots, NEW m \in 0 .. PacketBuffersMax - 1,
         NEW n \in 0 .. PacketBuffersMax - 1, Wrap(f + m) = Wrap(f + n)
  PROVE  m = n
BY DeferredConstants DEF Wrap, Slots

LEMMA WrapType ==
  ASSUME NEW f \in Slots, NEW n \in 0 .. PacketBuffersMax
  PROVE  /\ Wrap(f + n) \in Slots
         /\ Wrap(f + 0) = f
         /\ Advance(Wrap(f + n)) = Wrap(f + n + 1) \/ n = PacketBuffersMax
         /\ n # 0 => Wrap(f + n) = Wrap(Advance(f) + (n - 1))
BY DeferredConstants DEF Wrap, Slots, Advance

\* The slot of a ticket, by its distance from the start.
LEMMA SlotOfOffset ==
  ASSUME DeferredInv, NEW t \in Types, NEW n \in Nat
  PROVE  SlotOf(t, taken[t] + n) = Wrap(start[t] + n)
<1>1. taken[t] \in Nat /\ start[t] \in Nat
  BY RingType, DeferredConstants DEF Slots
<1> QED BY <1>1, DeferredConstants DEF SlotOf, Wrap

LEMMA DeferredInitInv == DeferredInit => DeferredInv
<1> SUFFICES ASSUME DeferredInit
             PROVE  DeferredInv
  OBVIOUS
<1>1. DeferredTypeOK /\ ReceivedIntoEnd
  BY DeferredConstants, EmptySeq DEF DeferredInit, DeferredTypeOK, ReceivedIntoEnd, Slots
<1>2. First = 1 /\ Len(pending) = 0
  BY EmptySeq DEF DeferredInit, First
<1>3. RingCounts /\ RingInPending
  BY DeferredConstants DEF DeferredInit, RingCounts, RingInPending, SlotOf, Wrap
<1>4. PendingInRing /\ PendingInOrder
  BY <1>2 DEF PendingInRing, PendingInOrder
<1> QED BY <1>1, <1>3, <1>4 DEF DeferredInv, RingsMatchPending

\* While a ring has a free buffer, the one it gives next is not pending.
LEMMA EndIsFree ==
  ASSUME DeferredInv, NEW t \in Types, size[t] < PacketBuffersMax, NEW i \in First .. Len(pending)
  PROVE  pending[i].type # t \/ pending[i].slot # end[t]
<1> SUFFICES ASSUME pending[i].type = t, pending[i].slot = end[t]
             PROVE  FALSE
  OBVIOUS
<1>1. pending[i].ticket \in taken[t] .. stored[t] - 1 /\ end[t] = SlotOf(t, pending[i].ticket)
  BY DEF DeferredInv, RingsMatchPending, PendingInRing
<1>2. /\ start[t] \in 0 .. PacketBuffersMax - 1 /\ size[t] \in Nat /\ taken[t] \in Nat
      /\ stored[t] = taken[t] + size[t] /\ end[t] = SlotOf(t, stored[t])
  BY RingType, DeferredConstants DEF Slots
<1>3. PICK n \in 0 .. size[t] - 1 : pending[i].ticket = taken[t] + n
  <2>1. pending[i].ticket - taken[t] \in 0 .. size[t] - 1
        /\ pending[i].ticket = taken[t] + (pending[i].ticket - taken[t])
    BY <1>1, <1>2
  <2> QED BY <2>1
<1>4. Wrap(start[t] + n) = Wrap(start[t] + size[t])
  <2>1. n \in Nat /\ size[t] \in Nat
    BY <1>2, <1>3
  <2>2. end[t] = SlotOf(t, taken[t] + n)
    BY <1>1, <1>3
  <2>3. end[t] = SlotOf(t, taken[t] + size[t])
    BY <1>2
  <2> QED BY <2>1, <2>2, <2>3, SlotOfOffset
<1>5. n \in 0 .. PacketBuffersMax - 1 /\ size[t] \in 0 .. PacketBuffersMax - 1 /\ n # size[t]
  BY <1>2, DeferredConstants
<1> QED BY <1>2, <1>4, <1>5, WrapInjective DEF Slots

\* Writing to the buffer a ring gives next disturbs no pending packet.
LEMMA WriteEndKeeps ==
  ASSUME DeferredInv, NEW t \in Types, size[t] < PacketBuffersMax, NEW v,
         buffers' = [buffers EXCEPT ![t][end[t]] = v], NEW i \in First .. Len(pending)
  PROVE  buffers'[pending[i].type][pending[i].slot] = buffers[pending[i].type][pending[i].slot]
<1>1. i \in 1 .. Len(pending)
  BY PendingType DEF DeferredInv
<1>2. pending[i].type \in Types /\ pending[i].slot \in Slots
  BY <1>1, PendingType DEF DeferredInv
<1> QED BY <1>2, EndIsFree DEF DeferredInv, DeferredTypeOK

LEMMA InitializeBufferInv ==
  ASSUME DeferredInv, NEW t \in Types, InitializeBuffer(t)
  PROVE  DeferredInv'
<1>1. DeferredTypeOK'
  BY DeferredConstants DEF InitializeBuffer, DeferredInv, DeferredTypeOK
<1>2. ReceivedIntoEnd'
  BY DEF InitializeBuffer, DeferredInv, ReceivedIntoEnd
<1>3. UNCHANGED <<start, end, size, pending, pnum, stored, taken, First>>
  BY DEF InitializeBuffer, First
<1>4. ASSUME NEW i \in First .. Len(pending)
      PROVE  buffers'[pending[i].type][pending[i].slot] = buffers[pending[i].type][pending[i].slot]
  BY WriteEndKeeps DEF InitializeBuffer
<1>5. RingCounts' /\ PendingInOrder' /\ RingInPending'
  BY <1>3 DEF DeferredInv, RingsMatchPending, RingCounts, PendingInOrder, RingInPending, SlotOf
<1>6. PendingInRing'
  BY <1>3, <1>4 DEF DeferredInv, RingsMatchPending, PendingInRing, SlotOf
<1> QED BY <1>1, <1>2, <1>5, <1>6 DEF DeferredInv, RingsMatchPending

\* A step that moves nothing the invariant reads but rx, to the empty set.
LEMMA UnchangedInv ==
  ASSUME DeferredInv, rx' \in {rx, {}},
         UNCHANGED <<buffers, start, end, size, pending, pnum, received, stored, taken, executed>>
  PROVE  DeferredInv'
<1>1. DeferredTypeOK' /\ ReceivedIntoEnd' /\ First' = First
  BY DEF DeferredInv, DeferredTypeOK, ReceivedIntoEnd, First
<1>2. RingsMatchPending'
  BY <1>1 DEF DeferredInv, RingsMatchPending, RingCounts, PendingInRing, PendingInOrder,
              RingInPending, SlotOf
<1> QED BY <1>1, <1>2 DEF DeferredInv

LEMMA ProcessInv ==
  ASSUME DeferredInv, Process
  PROVE  DeferredInv'
<1>1. First' = First /\ Len(pending) \in Nat
  BY PendingType DEF Process, First, DeferredInv
<1>2. DeferredTypeOK' /\ ReceivedIntoEnd'
  BY <1>1 DEF Process, DeferredInv, DeferredTypeOK, ReceivedIntoEnd
<1>3. UNCHANGED <<buffers, start, end, size, pending, stored, taken>>
  BY DEF Process
<1>4. RingsMatchPending'
  BY <1>1, <1>3 DEF DeferredInv, RingsMatchPending, RingCounts, PendingInRing, PendingInOrder,
                    RingInPending, SlotOf
<1> QED BY <1>2, <1>4 DEF DeferredInv

\* Once all pending packets are processed the rings are empty, so clearing
\* pending_packets_size forgets nothing.
LEMMA ProcessEndInv ==
  ASSUME DeferredInv, ProcessEnd
  PROVE  DeferredInv'
<1>1. DeferredTypeOK' /\ ReceivedIntoEnd'
  BY DeferredConstants, EmptySeq DEF ProcessEnd, DeferredInv, DeferredTypeOK, ReceivedIntoEnd
<1>2. First = Len(pending) + 1 /\ Len(pending) \in Nat
  BY PendingType DEF ProcessEnd, First, DeferredInv
<1>3. ASSUME NEW t \in Types
      PROVE  taken[t] .. stored[t] - 1 = {}
  BY <1>2 DEF DeferredInv, RingsMatchPending, RingInPending
<1>4. UNCHANGED <<start, end, size, stored, taken>> /\ First' = 1 /\ Len(pending') = 0
  BY EmptySeq DEF ProcessEnd, First
<1>5. RingCounts'
  BY <1>4 DEF DeferredInv, RingsMatchPending, RingCounts, SlotOf
<1>6. PendingInRing' /\ PendingInOrder'
  BY <1>4 DEF PendingInRing, PendingInOrder
<1>7. RingInPending'
  BY <1>3, <1>4 DEF RingInPending
<1> QED BY <1>1, <1>5, <1>6, <1>7 DEF DeferredInv, RingsMatchPending

\* The oldest pending packet is at the start of the ring of its type.
LEMMA FirstIsStart ==
  ASSUME DeferredInv, pnum \in 0 .. Len(pending) - 1
  PROVE  /\ First = pnum + 1 /\ First \in 1 .. Len(pending)
         /\ pending[First].type \in Types
         /\ pending[First].ticket = taken[pending[First].type]
         /\ pending[First].slot = start[pending[First].type]
         /\ size[pending[First].type] > 0
<1> DEFINE t == pending[First].type
<1>1. First \in 1 .. Len(pending) /\ First = pnum + 1 /\ Len(pending) \in Nat
  BY PendingType DEF First, DeferredInv
<1>2. t \in Types
  BY <1>1, PendingType DEF DeferredInv
<1>3. /\ start[t] \in Slots /\ size[t] \in Nat /\ taken[t] \in Nat /\ stored[t] \in Nat
      /\ stored[t] = taken[t] + size[t]
  BY <1>2, RingType, DeferredConstants
<1>4. pending[First].ticket \in taken[t] .. stored[t] - 1
      /\ pending[First].slot = SlotOf(t, pending[First].ticket)
  BY <1>1 DEF DeferredInv, RingsMatchPending, PendingInRing
<1>5. PICK i \in First .. Len(pending) : pending[i].type = t /\ pending[i].ticket = taken[t]
  <2>1. taken[t] \in taken[t] .. stored[t] - 1
    BY <1>3, <1>4
  <2> QED BY <1>2, <2>1 DEF DeferredInv, RingsMatchPending, RingInPending
<1>6. pending[First].ticket = taken[t]
  <2>1. CASE i = First
    BY <1>5, <2>1
  <2>2. CASE i # First
    <3>1. First \in First .. Len(pending) /\ First < i
      BY <1>1, <2>2
    <3>2. pending[First].ticket < pending[i].ticket
      BY <1>5, <3>1 DEF DeferredInv, RingsMatchPending, PendingInOrder
    <3> QED BY <1>3, <1>4, <1>5, <3>2
  <2> QED BY <2>1, <2>2
<1>7. SlotOf(t, taken[t]) = start[t]
  BY <1>2, <1>3, DeferredConstants DEF SlotOf, Wrap, Slots
<1>8. size[t] > 0
  BY <1>3, <1>4
<1> QED BY <1>1, <1>2, <1>4, <1>6, <1>7, <1>8

\* Executing the first pending packet takes it from the start of its ring and
\* leaves the others where they are.
LEMMA ProcessPacketInv ==
  ASSUME DeferredInv, ProcessPacket
  PROVE  DeferredInv'
<1> DEFINE p == pending[First]
           u == p.type
<1>1. /\ First = pnum + 1 /\ First \in 1 .. Len(pending) /\ u \in Types /\ p.slot \in Slots
      /\ p.ticket = taken[u] /\ size[u] > 0 /\ Len(pending) \in Nat
  BY FirstIsStart, PendingType DEF ProcessPacket, DeferredInv
<1>2. /\ start' = [start EXCEPT ![u] = Advance(@)]
      /\ size' = [size EXCEPT ![u] = @ - 1]
      /\ taken' = [taken EXCEPT ![u] = @ + 1]
      /\ executed' = Append(executed, buffers[u][p.slot])
      /\ pnum' = pnum + 1 /\ First' = First + 1
      /\ UNCHANGED <<buffers, end, rx, pending, received, stored>>
  <2>1. pending[pnum + 1] = p /\ pnum \in 0 .. Len(pending) - 1
    BY <1>1 DEF ProcessPacket
  <2>2. pnum' = pnum + 1 /\ First' = First + 1
    BY <1>1, <2>1 DEF ProcessPacket, First
  <2> QED BY <2>1, <2>2 DEF ProcessPacket
<1>3. /\ start[u] \in Slots /\ size[u] \in 1 .. PacketBuffersMax /\ taken[u] \in Nat
      /\ stored[u] = taken[u] + size[u]
  BY <1>1, RingType
<1>4. DeferredTypeOK'
  <2>1. Advance(start[u]) \in Slots
    BY <1>3, DeferredConstants DEF Slots, Advance
  <2>2. start' \in [Types -> Slots] /\ size' \in [Types -> 0 .. PacketBuffersMax]
        /\ taken' \in [Types -> Nat]
    <3>1. size[u] - 1 \in 0 .. PacketBuffersMax /\ taken[u] + 1 \in Nat
      BY <1>3, DeferredConstants
    <3> QED BY <1>1, <1>2, <2>1, <3>1 DEF DeferredInv, DeferredTypeOK
  <2>3. executed' \in Seq(Packets \cup {Partial})
    <3>1. buffers[u][p.slot] \in Packets \cup {Partial}
      BY <1>1 DEF DeferredInv, DeferredTypeOK
    <3> QED BY <1>2, <3>1, AppendProperties DEF DeferredInv, DeferredTypeOK
  <2>4. pnum' \in -1 .. Len(pending)
    BY <1>1, <1>2 DEF ProcessPacket
  <2> QED BY <1>2, <2>2, <2>3, <2>4 DEF DeferredInv, DeferredTypeOK
<1>5. ReceivedIntoEnd'
  <2> SUFFICES ASSUME NEW b \in rx
               PROVE  b.slot = end[b.type] /\ size'[b.type] < PacketBuffersMax
    BY <1>2 DEF ReceivedIntoEnd
  <2>1. b.type \in Types /\ b.slot = end[b.type] /\ size[b.type] < PacketBuffersMax
    BY DEF DeferredInv, DeferredTypeOK, ReceivedIntoEnd
  <2>2. size[b.type] \in 0 .. PacketBuffersMax
    BY <2>1, RingType
  <2> QED BY <1>2, <1>3, <2>1, <2>2, DeferredConstants DEF DeferredInv, DeferredTypeOK
<1>6. ASSUME NEW t \in Types, NEW n \in taken'[t] .. stored[t]
      PROVE  SlotOf(t, n)' = SlotOf(t, n)
  <2>1. start[t] \in Slots /\ taken[t] \in Nat /\ stored[t] \in Nat
        /\ size[t] \in 0 .. PacketBuffersMax /\ stored[t] = taken[t] + size[t]
    BY RingType
  <2>2. CASE t # u
    BY <1>1, <1>2, <2>2 DEF SlotOf, DeferredInv, DeferredTypeOK
  <2>3. CASE t = u
    <3>1. start'[t] = Advance(start[t]) /\ taken'[t] = taken[t] + 1
      BY <1>1, <1>2, <2>3 DEF DeferredInv, DeferredTypeOK
    <3>2. PICK k \in 1 .. PacketBuffersMax : n = taken[t] + k
      <4>1. n - taken[t] \in 1 .. PacketBuffersMax /\ n = taken[t] + (n - taken[t])
        BY <2>1, <3>1, DeferredConstants
      <4> QED BY <4>1
    <3>3. Wrap(start[t] + k) = Wrap(Advance(start[t]) + (k - 1))
      BY <2>1, WrapType, DeferredConstants
    <3>4. n - taken[t] = k /\ n - (taken[t] + 1) = k - 1
      BY <2>1, <3>2
    <3> QED BY <3>1, <3>3, <3>4 DEF SlotOf
  <2> QED BY <2>2, <2>3
<1>7. RingCounts'
  <2> SUFFICES ASSUME NEW t \in Types
               PROVE  stored[t] = taken'[t] + size'[t] /\ end[t] = SlotOf(t, stored[t])'
    BY <1>2 DEF RingCounts
  <2>1. stored[t] \in Nat /\ taken[t] \in Nat /\ size[t] \in Nat
        /\ stored[t] = taken[t] + size[t] /\ end[t] = SlotOf(t, stored[t])
    BY RingType, DeferredConstants
  <2>2. stored[t] = taken'[t] + size'[t] /\ taken'[t] \in Nat /\ size'[t] \in Nat
    <3>1. /\ taken'[t] = IF t = u THEN taken[t] + 1 ELSE taken[t]
          /\ size'[t] = IF t = u THEN size[t] - 1 ELSE size[t]
      BY <1>1, <1>2 DEF DeferredInv, DeferredTypeOK
    <3> QED BY <1>3, <2>1, <3>1
  <2>3. SlotOf(t, stored[t])' = SlotOf(t, stored[t])
    <3>1. stored[t] \in taken'[t] .. stored[t]
      BY <2>1, <2>2
    <3> QED BY <1>2, <1>6, <3>1
  <2> QED BY <2>1, <2>2, <2>3
<1>8. ASSUME NEW i \in First + 1 .. Len(pending)
      PROVE  /\ i \in First .. Len(pending) /\ i > First
             /\ pending[i].type \in Types
             /\ pending[i].ticket \in taken'[pending[i].type] .. stored[pending[i].type] - 1
  <2>1. i \in First .. Len(pending) /\ i > First /\ i \in 1 .. Len(pending)
    BY <1>1
  <2>2. pending[i].type \in Types
        /\ pending[i].ticket \in taken[pending[i].type] .. stored[pending[i].type] - 1
    BY <2>1, PendingType DEF DeferredInv, RingsMatchPending, PendingInRing
  <2>3. CASE pending[i].type # u
    BY <1>1, <1>2, <2>1, <2>2, <2>3 DEF DeferredInv, DeferredTypeOK
  <2>4. CASE pending[i].type = u
    <3>1. p.ticket < pending[i].ticket
      <4>1. First \in First .. Len(pending)
        BY <1>1
      <4> QED BY <2>1, <2>4, <4>1 DEF DeferredInv, RingsMatchPending, PendingInOrder
    <3>2. taken'[u] = taken[u] + 1
      BY <1>1, <1>2 DEF DeferredInv, DeferredTypeOK
    <3> QED BY <1>1, <1>3, <2>1, <2>2, <2>4, <3>1, <3>2
  <2> QED BY <2>3, <2>4
<1>9. PendingInRing'
  <2> SUFFICES ASSUME NEW i \in First + 1 .. Len(pending)
               PROVE  /\ pending[i].ticket \in taken'[pending[i].type] .. stored[pending[i].type] - 1
                      /\ pending[i].slot = SlotOf(pending[i].type, pending[i].ticket)'
                      /\ buffers[pending[i].type][pending[i].slot] \in Packets
    BY <1>2 DEF PendingInRing
  <2>1. /\ pending[i].slot = SlotOf(pending[i].type, pending[i].ticket)
        /\ buffers[pending[i].type][pending[i].slot] \in Packets
    BY <1>8 DEF DeferredInv, RingsMatchPending, PendingInRing
  <2>2. pending[i].ticket \in taken'[pending[i].type] .. stored[pending[i].type]
    <3>1. stored[pending[i].type] \in Nat
      BY <1>8, RingType
    <3> QED BY <1>8, <3>1
  <2>3. SlotOf(pending[i].type, pending[i].ticket)' = SlotOf(pending[i].type, pending[i].ticket)
    <3>1. pending[i].type \in Types
      BY <1>8
    <3> QED BY <1>2, <1>6, <2>2, <3>1
  <2> QED BY <1>8, <2>1, <2>3
<1>10. PendingInOrder'
  BY <1>2, <1>8 DEF DeferredInv, RingsMatchPending, PendingInOrder
<1>11. RingInPending'
  <2> SUFFICES ASSUME NEW t \in Types, NEW n \in taken'[t] .. stored[t] - 1
               PROVE  \E i \in First + 1 .. Len(pending) :
                        pending[i].type = t /\ pending[i].ticket = n
    BY <1>2 DEF RingInPending
  <2>1. n \in taken[t] .. stored[t] - 1 /\ (t = u => n # taken[u])
    <3>1. taken[t] \in Nat /\ stored[t] \in Nat
      BY RingType
    <3>2. taken'[t] = IF t = u THEN taken[t] + 1 ELSE taken[t]
      BY <1>1, <1>2 DEF DeferredInv, DeferredTypeOK
    <3> QED BY <3>1, <3>2
  <2>2. PICK i \in First .. Len(pending) : pending[i].type = t /\ pending[i].ticket = n
    BY <2>1 DEF DeferredInv, RingsMatchPending, RingInPending
  <2>3. i # First
    BY <1>1, <2>1, <2>2
  <2> QED BY <1>1, <2>2, <2>3
<1> QED BY <1>4, <1>5, <1>7, <1>9, <1>10, <1>11 DEF DeferredInv, RingsMatchPending

\* A packet without room in pending only leaves garbage in its buffer.
LEMMA OnReceiveFullInv ==
  ASSUME DeferredInv, OnReceive, Len(pending) >= PENDING_PACKETS_MAX
  PROVE  DeferredInv'
<1>1. PICK b \in rx :
        /\ buffers' = [buffers EXCEPT ![b.type][b.slot] = [type |-> b.type, number |-> received + 1]]
        /\ UNCHANGED <<pending, end, size, stored>>
  BY DEF OnReceive
<1>2. b.type \in Types /\ b.slot = end[b.type] /\ b.slot \in Slots /\ size[b.type] < PacketBuffersMax
  BY DEF DeferredInv, DeferredTypeOK, ReceivedIntoEnd
<1>3. UNCHANGED <<start, pnum, taken, executed, First>> /\ rx' = {} /\ received' = received + 1
      /\ received < MaxPackets
  BY <1>1 DEF OnReceive, First
<1>4. [type |-> b.type, number |-> received + 1] \in Packets
  BY <1>2, <1>3, DeferredConstants DEF Packets, DeferredInv, DeferredTypeOK
<1>5. DeferredTypeOK'
  <2>1. received' \in 0 .. MaxPackets
    BY <1>3, DeferredConstants DEF DeferredInv, DeferredTypeOK
  <2> QED BY <1>1, <1>2, <1>3, <1>4, <2>1 DEF DeferredInv, DeferredTypeOK
<1>6. ReceivedIntoEnd'
  BY <1>3 DEF ReceivedIntoEnd
<1>7. RingCounts' /\ PendingInOrder' /\ RingInPending'
  BY <1>1, <1>3
  DEF DeferredInv, RingsMatchPending, RingCounts, PendingInOrder, RingInPending, SlotOf
<1>8. PendingInRing'
  <2>1. \A i \in First .. Len(pending) :
          buffers'[pending[i].type][pending[i].slot] = buffers[pending[i].type][pending[i].slot]
    BY <1>1, <1>2, WriteEndKeeps
  <2> QED BY <1>1, <1>3, <2>1 DEF DeferredInv, RingsMatchPending, PendingInRing, SlotOf
<1> QED BY <1>5, <1>6, <1>7, <1>8 DEF DeferredInv, RingsMatchPending

\* A packet that finds room is put at the end of pending and of its ring.
LEMMA OnReceiveRoomInv ==
  ASSUME DeferredInv, OnReceive, ~(Len(pending) >= PENDING_PACKETS_MAX)
  PROVE  DeferredInv'
<1>1. PICK b \in rx :
        /\ buffers' = [buffers EXCEPT ![b.type][b.slot] = [type |-> b.type, number |-> received + 1]]
        /\ pending' = Append(pending, [type |-> b.type, slot |-> b.slot,
                                       ticket |-> stored[b.type]])
        /\ end' = [end EXCEPT ![b.type] = Advance(@)]
        /\ size' = [size EXCEPT ![b.type] = @ + 1]
        /\ stored' = [stored EXCEPT ![b.type] = @ + 1]
  BY DEF OnReceive
<1> DEFINE u == b.type
           r == [type |-> u, slot |-> b.slot, ticket |-> stored[u]]
           n == Len(pending)
<1>2. u \in Types /\ b.slot = end[u] /\ b.slot \in Slots /\ size[u] < PacketBuffersMax
  BY DEF DeferredInv, DeferredTypeOK, ReceivedIntoEnd
<1>3. UNCHANGED <<start, pnum, taken, executed>> /\ rx' = {} /\ received' = received + 1
      /\ received < MaxPackets /\ First = 1 /\ First' = 1
  BY <1>1 DEF OnReceive, First
<1>4. [type |-> u, number |-> received + 1] \in Packets
  BY <1>2, <1>3, DeferredConstants DEF Packets, DeferredInv, DeferredTypeOK
<1>5. /\ start[u] \in Slots /\ size[u] \in 0 .. PacketBuffersMax - 1 /\ taken[u] \in Nat
      /\ stored[u] \in Nat /\ stored[u] = taken[u] + size[u] /\ end[u] = SlotOf(u, stored[u])
  BY <1>2, RingType, DeferredConstants
<1>6. /\ pending' \in Seq(Ref) /\ n \in Nat /\ Len(pending') = n + 1
      /\ \A i \in 1 .. n : pending'[i] = pending[i]
      /\ pending'[n + 1] = r
  <2>1. r \in Ref
    BY <1>2, <1>5 DEF Ref
  <2> QED BY <1>1, <2>1, AppendProperties, LenProperties DEF DeferredInv, DeferredTypeOK
<1> HIDE DEF r, n
<1>7. DeferredTypeOK'
  <2>1. buffers' \in [Types -> [Slots -> Packets \cup {Partial}]]
    BY <1>1, <1>2, <1>4 DEF DeferredInv, DeferredTypeOK
  <2>2. end' \in [Types -> Slots] /\ size' \in [Types -> 0 .. PacketBuffersMax]
        /\ stored' \in [Types -> Nat]
    <3>1. Advance(end[u]) \in Slots
      BY RingType, <1>2, DeferredConstants DEF Advance, Slots
    <3>2. size[u] + 1 \in 0 .. PacketBuffersMax /\ stored[u] + 1 \in Nat
      BY <1>5, DeferredConstants
    <3>3. end' \in [Types -> Slots]
      BY <1>1, <1>2, <3>1 DEF DeferredInv, DeferredTypeOK
    <3>4. size' \in [Types -> 0 .. PacketBuffersMax]
      BY <1>1, <1>2, <3>2 DEF DeferredInv, DeferredTypeOK
    <3>5. stored' \in [Types -> Nat]
      BY <1>1, <1>2, <3>2 DEF DeferredInv, DeferredTypeOK
    <3> QED BY <3>3, <3>4, <3>5
  <2>3. Len(pending') <= PENDING_PACKETS_MAX /\ pnum' \in -1 .. Len(pending')
    BY <1>3, <1>6, DeferredConstants DEF OnReceive, n
  <2>4. received' \in 0 .. MaxPackets
    BY <1>3, DeferredConstants DEF DeferredInv, DeferredTypeOK
  <2> QED BY <1>3, <1>6, <2>1, <2>2, <2>3, <2>4 DEF DeferredInv, DeferredTypeOK
<1>8. ReceivedIntoEnd'
  BY <1>3 DEF ReceivedIntoEnd
<1>9. \A t \in Types : \A k \in Nat : SlotOf(t, k)' = SlotOf(t, k)
  BY <1>3 DEF SlotOf
<1>10. RingCounts'
  <2> SUFFICES ASSUME NEW t \in Types
               PROVE  stored'[t] = taken[t] + size'[t] /\ end'[t] = SlotOf(t, stored'[t])
    BY <1>3 DEF RingCounts, SlotOf
  <2>1. stored[t] \in Nat /\ taken[t] \in Nat /\ size[t] \in Nat /\ start[t] \in Slots
        /\ stored[t] = taken[t] + size[t] /\ end[t] = SlotOf(t, stored[t])
    BY RingType, DeferredConstants
  <2>2. CASE t # u
    BY <1>1, <1>2, <2>1, <2>2 DEF DeferredInv, DeferredTypeOK
  <2>3. CASE t = u
    <3>1. stored'[t] = stored[t] + 1 /\ size'[t] = size[t] + 1 /\ end'[t] = Advance(end[t])
      BY <1>1, <1>2, <2>3 DEF DeferredInv, DeferredTypeOK
    <3>2. end[t] = Wrap(start[t] + size[t])
      BY <2>1, SlotOfOffset
    <3>3. Advance(Wrap(start[t] + size[t])) = Wrap(start[t] + size[t] + 1)
      BY <1>5, <2>1, <2>3, WrapType, DeferredConstants
    <3>4. SlotOf(t, taken[t] + (size[t] + 1)) = Wrap(start[t] + (size[t] + 1))
      <4>1. \A m \in Nat : SlotOf(t, taken[t] + m) = Wrap(start[t] + m)
        BY SlotOfOffset
      <4>2. size[t] + 1 \in Nat
        BY <2>1
      <4> QED BY <4>1, <4>2
    <3>5. \A a, c, d \in Int : a + (c + 1) = a + c + 1
      OBVIOUS
    <3>6. start[t] \in Int /\ stored[t] \in Nat /\ taken[t] \in Nat /\ size[t] \in Nat
      BY <2>1, DeferredConstants DEF Slots
    <3>7. taken[t] + (size[t] + 1) = stored[t] + 1
      BY <2>1, <3>6
    <3>8. start[t] + (size[t] + 1) = start[t] + size[t] + 1
      BY <3>5, <3>6
    <3> QED BY <3>1, <3>2, <3>3, <3>4, <3>7, <3>8
  <2> QED BY <2>2, <2>3
<1>11. PendingInRing'
  <2>0. \A t, k : SlotOf(t, k)' = SlotOf(t, k)
    BY <1>3 DEF SlotOf
  <2> SUFFICES ASSUME NEW i \in 1 .. n + 1
               PROVE  /\ pending'[i].ticket \in taken[pending'[i].type] .. stored'[pending'[i].type] - 1
                      /\ pending'[i].slot = SlotOf(pending'[i].type, pending'[i].ticket)
                      /\ buffers'[pending'[i].type][pending'[i].slot] \in Packets
    BY <1>3, <1>6, <2>0 DEF PendingInRing
  <2>1. CASE i = n + 1
    <3>1. pending'[i].type = u /\ pending'[i].slot = b.slot /\ pending'[i].ticket = stored[u]
      BY <1>6, <2>1 DEF r
    <3>2. stored'[u] = stored[u] + 1
      BY <1>1, <1>2 DEF DeferredInv, DeferredTypeOK
    <3>3. buffers'[u][b.slot] \in Packets
      BY <1>1, <1>2, <1>4 DEF DeferredInv, DeferredTypeOK
    <3>4. taken[u] \in Nat /\ stored[u] \in Nat /\ taken[u] <= stored[u]
      BY <1>1, <1>2, RingType, DeferredConstants
    <3>5. pending'[i].ticket \in taken[u] .. stored'[u] - 1
      BY <3>1, <3>2, <3>4
    <3> QED BY <1>2, <1>5, <1>9, <3>1, <3>3, <3>5
  <2>2. CASE i # n + 1
    <3> DEFINE t == pending[i].type
    <3>1. i \in First .. Len(pending) /\ pending'[i] = pending[i] /\ i \in 1 .. Len(pending)
      BY <1>3, <1>6, <2>2 DEF n
    <3>2. t \in Types /\ pending[i].ticket \in Nat
      BY <3>1, PendingType DEF DeferredInv
    <3>3. /\ pending[i].ticket \in taken[t] .. stored[t] - 1
          /\ pending[i].slot = SlotOf(t, pending[i].ticket)
          /\ buffers[t][pending[i].slot] \in Packets
      BY <3>1 DEF DeferredInv, RingsMatchPending, PendingInRing
    <3>4. buffers'[t][pending[i].slot] = buffers[t][pending[i].slot]
      BY <1>1, <1>2, <3>1, WriteEndKeeps
    <3>5. stored'[t] \in {stored[t], stored[t] + 1} /\ stored[t] \in Nat /\ taken[t] \in Nat
      BY <1>1, <1>2, <3>2 DEF DeferredInv, DeferredTypeOK
    <3>6. pending[i].ticket \in taken[t] .. stored'[t] - 1
      BY <3>3, <3>5
    <3> QED BY <1>9, <3>1, <3>2, <3>3, <3>4, <3>6
  <2> QED BY <2>1, <2>2
<1>12. PendingInOrder'
  <2> SUFFICES ASSUME NEW i \in 1 .. n + 1, NEW j \in 1 .. n + 1, i < j,
                      pending'[i].type = pending'[j].type
               PROVE  pending'[i].ticket < pending'[j].ticket
    BY <1>3, <1>6 DEF PendingInOrder
  <2>1. i \in First .. Len(pending) /\ pending'[i] = pending[i] /\ i \in 1 .. Len(pending)
    BY <1>3, <1>6 DEF n
  <2>2. CASE j = n + 1
    <3>1. pending[i].type = u /\ pending'[j].ticket = stored[u]
      BY <1>6, <2>1, <2>2 DEF r
    <3>2. pending[i].ticket \in taken[u] .. stored[u] - 1
      BY <2>1, <3>1 DEF DeferredInv, RingsMatchPending, PendingInRing
    <3> QED BY <1>5, <2>1, <3>1, <3>2
  <2>3. CASE j # n + 1
    <3>1. j \in First .. Len(pending) /\ pending'[j] = pending[j]
      BY <1>3, <1>6, <2>3 DEF n
    <3> QED BY <2>1, <3>1 DEF DeferredInv, RingsMatchPending, PendingInOrder
  <2> QED BY <2>2, <2>3
<1>13. RingInPending'
  <2> SUFFICES ASSUME NEW t \in Types, NEW k \in taken[t] .. stored'[t] - 1
               PROVE  \E i \in 1 .. n + 1 : pending'[i].type = t /\ pending'[i].ticket = k
    BY <1>3, <1>6 DEF RingInPending
  <2>1. CASE t = u /\ k = stored[u]
    BY <1>6, <2>1 DEF r
  <2>2. CASE ~(t = u /\ k = stored[u])
    <3>1. k \in taken[t] .. stored[t] - 1
      <4>1. stored'[t] = (IF t = u THEN stored[t] + 1 ELSE stored[t])
            /\ stored[t] \in Nat /\ taken[t] \in Nat
        BY <1>1, <1>2 DEF DeferredInv, DeferredTypeOK
      <4> QED BY <2>2, <4>1
    <3>2. PICK i \in First .. Len(pending) : pending[i].type = t /\ pending[i].ticket = k
      BY <3>1 DEF DeferredInv, RingsMatchPending, RingInPending
    <3>3. i \in 1 .. n /\ i \in 1 .. n + 1
      BY <1>3, <1>6 DEF n
    <3> QED BY <1>6, <3>2, <3>3
  <2> QED BY <2>1, <2>2
<1> QED BY <1>7, <1>8, <1>10, <1>11, <1>12, <1>13 DEF DeferredInv, RingsMatchPending

LEMMA DeferredInvariant == DeferredSpec => []DeferredInv
<1>1. DeferredInv /\ [DeferredNext]_deferredVars => DeferredInv'
  <2> SUFFICES ASSUME DeferredInv, [DeferredNext]_deferredVars
               PROVE  DeferredInv'
    OBVIOUS
  <2>1. CASE ChecksumError \/ UNCHANGED deferredVars
    BY <2>1, UnchangedInv DEF ChecksumError, deferredVars
  <2>2. CASE OnReceive
    BY <2>2, OnReceiveFullInv, OnReceiveRoomInv
  <2> QED
    BY <2>1, <2>2, InitializeBufferInv, ProcessInv, ProcessPacketInv, ProcessEndInv DEF DeferredNext
<1> QED BY <1>1, DeferredInitInv, PTL DEF DeferredSpec

\* No ring has more packets than slots and no packet is pending beyond the end of
\* pending_packets, for every number of types and of slots
\* (deferred_packet_handler.c:24-60).
THEOREM DeferredTypes == DeferredSpec => []DeferredTypeOK
BY DeferredInvariant, PTL DEF DeferredInv

\* The rings of the types and the pending pointers always agree.
THEOREM RingsInvariant == DeferredSpec => []RingsMatchPending
BY DeferredInvariant, PTL DEF DeferredInv

\* Neither assert of deferred_packet_handler.c ever aborts the firmware.
THEOREM Assertions == DeferredSpec => []AssertionsHold
<1>1. DeferredInv => ReceivedIntoEnd
  BY DEF DeferredInv
<1>2. DeferredInv => ProcessedFromStart
  <2> SUFFICES ASSUME DeferredInv, pnum \in 0 .. Len(pending) - 1
               PROVE  pending[pnum + 1].slot = start[pending[pnum + 1].type]
    BY DEF ProcessedFromStart
  <2> QED BY FirstIsStart
<1>3. DeferredInv => AssertionsHold
  BY <1>1, <1>2 DEF AssertionsHold
<1> QED BY <1>3, DeferredInvariant, PTL

-----------------------------------------------------------------------------
(* Refinement *)

\* The packet that the i-th of the waiting pointers points to
At(i) == buffers[pending[First + i - 1].type][pending[First + i - 1].slot]

Remaining == Len(pending) - First + 1

\* The packets that wait are a sequence of packets, one for each pointer not processed.
LEMMA WaitingType ==
  ASSUME DeferredInv
  PROVE  /\ Remaining \in Nat /\ Waiting \in Seq(Packets) /\ Len(Waiting) = Remaining
         /\ \A i \in 1 .. Remaining : Waiting[i] = At(i)
<1>1. Len(pending) \in Nat /\ First \in 1 .. Len(pending) + 1 /\ Remaining \in Nat
  BY PendingType DEF DeferredInv, Remaining
<1>2. Waiting = [i \in 1 .. Remaining |-> At(i)]
  BY DEF Waiting, At, Remaining
<1>3. ASSUME NEW i \in 1 .. Remaining PROVE At(i) \in Packets
  <2>1. PICK k \in First .. Len(pending) : k = First + i - 1
    BY <1>1 DEF Remaining
  <2>2. buffers[pending[k].type][pending[k].slot] \in Packets
    BY DEF DeferredInv, RingsMatchPending, PendingInRing
  <2> QED BY <2>1, <2>2 DEF At
<1> HIDE DEF At, Remaining
<1>4. Waiting \in Seq(Packets)
  BY <1>1, <1>2, <1>3
<1>5. Len(Waiting) = Remaining
  BY <1>1, <1>2, <1>4, LenProperties
<1> QED BY <1>1, <1>2, <1>4, <1>5

\* The same of the next state
LEMMA WaitingNext ==
  ASSUME DeferredInv'
  PROVE  /\ Remaining' \in Nat /\ Waiting' \in Seq(Packets) /\ Len(Waiting') = Remaining'
         /\ \A i \in 1 .. Remaining' : Waiting'[i] = At(i)'
<1>1. (DeferredInv => /\ Remaining \in Nat /\ Waiting \in Seq(Packets) /\ Len(Waiting) = Remaining
                      /\ \A i \in 1 .. Remaining : Waiting[i] = At(i))'
  BY WaitingType, PTL
<1> QED BY <1>1

\* As many packets, each the same as before, are the same queue.
LEMMA SameWaiting ==
  ASSUME DeferredInv, DeferredInv', Remaining' = Remaining,
         \A i \in 1 .. Remaining : At(i)' = At(i)
  PROVE  Waiting' = Waiting
BY WaitingType, WaitingNext, SeqEqual

\* A packet without a free buffer, half received or damaged does not touch the queue.
LEMMA InitializeBufferStep ==
  ASSUME DeferredInv, DeferredInv', NEW t \in Types, InitializeBuffer(t)
  PROVE  UNCHANGED <<Waiting, executed>>
<1>1. UNCHANGED <<pending, First, executed>>
  BY DEF InitializeBuffer, First
<1>2. ASSUME NEW i \in 1 .. Remaining PROVE At(i)' = At(i)
  <2>1. PICK k \in First .. Len(pending) : k = First + i - 1
    <3>1. Len(pending) \in Nat /\ First \in Nat /\ i \in 1 .. Len(pending) - First + 1
      BY PendingType DEF Remaining, DeferredInv
    <3>2. First + i - 1 \in First .. Len(pending)
      BY <3>1
    <3> QED BY <3>2
  <2>2. buffers'[pending[k].type][pending[k].slot] = buffers[pending[k].type][pending[k].slot]
    BY WriteEndKeeps DEF InitializeBuffer
  <2> QED BY <1>1, <2>1, <2>2 DEF At
<1> QED BY <1>1, <1>2, SameWaiting DEF Remaining

\* A packet that was received is appended, or lost because pending is full.
LEMMA OnReceiveStep ==
  ASSUME DeferredInv, DeferredInv', OnReceive
  PROVE  Queue!QNext \/ UNCHANGED <<Waiting, executed>>
<1>1. PICK b \in rx :
        /\ buffers' = [buffers EXCEPT ![b.type][b.slot] = [type |-> b.type, number |-> received + 1]]
        /\ IF Len(pending) >= PENDING_PACKETS_MAX
             THEN UNCHANGED <<pending, end, size, stored>>
             ELSE /\ pending' = Append(pending, [type |-> b.type, slot |-> b.slot,
                                                 ticket |-> stored[b.type]])
                  /\ end' = [end EXCEPT ![b.type] = Advance(@)]
                  /\ size' = [size EXCEPT ![b.type] = @ + 1]
                  /\ stored' = [stored EXCEPT ![b.type] = @ + 1]
  BY DEF OnReceive
<1> DEFINE q == [type |-> b.type, number |-> received + 1]
<1>2. b.type \in Types /\ b.slot = end[b.type] /\ b.slot \in Slots /\ size[b.type] < PacketBuffersMax
  BY DEF DeferredInv, DeferredTypeOK, ReceivedIntoEnd
<1>3. UNCHANGED executed /\ First = 1 /\ First' = 1 /\ Len(pending) \in Nat
  BY PendingType DEF OnReceive, First, DeferredInv
<1>4. q \in Packets
  BY <1>2, DeferredConstants DEF OnReceive, Packets, DeferredInv, DeferredTypeOK
<1>5. \A k \in 1 .. Len(pending) :
        buffers'[pending[k].type][pending[k].slot] = buffers[pending[k].type][pending[k].slot]
  BY <1>1, <1>2, <1>3, WriteEndKeeps
<1>6. Remaining = Len(pending) /\ Len(Waiting) = Len(pending)
  BY <1>3, WaitingType DEF Remaining
<1>7. CASE Len(pending) >= PENDING_PACKETS_MAX
  <2>1. pending' = pending
    BY <1>1, <1>7
  <2>2. \A i \in 1 .. Remaining : At(i)' = At(i)
    BY <1>3, <1>5, <1>6, <2>1 DEF At
  <2>3. Waiting' = Waiting
    BY <1>3, <1>6, <2>1, <2>2, SameWaiting DEF Remaining
  <2> QED BY <1>3, <2>3
<1>8. CASE ~(Len(pending) >= PENDING_PACKETS_MAX)
  <2> DEFINE r == [type |-> b.type, slot |-> b.slot, ticket |-> stored[b.type]]
  <2>1. /\ Len(pending') = Len(pending) + 1 /\ pending'[Len(pending) + 1] = r
        /\ \A k \in 1 .. Len(pending) : pending'[k] = pending[k]
    <3>1. r \in Ref
      BY <1>2, RingType DEF Ref
    <3>2. pending \in Seq(Ref) /\ pending' = Append(pending, r)
      BY <1>1, <1>8 DEF DeferredInv, DeferredTypeOK
    <3> HIDE DEF r
    <3> QED BY <3>1, <3>2, AppendProperties, LenProperties
  <2>2. Remaining' = Remaining + 1 /\ Len(Waiting') = Len(Waiting) + 1
    BY <1>3, <1>6, <2>1, WaitingNext, WaitingType DEF Remaining
  <2>3. Waiting'[Len(Waiting) + 1] = q
    <3>1. buffers'[b.type][b.slot] = q
      BY <1>1, <1>2 DEF DeferredInv, DeferredTypeOK
    <3>2. \A i \in 1 .. Remaining' : Waiting'[i] = At(i)'
      BY WaitingNext
    <3>3. PICK k \in 1 .. Remaining' : k = Len(Waiting) + 1 /\ First' + k - 1 = Len(pending) + 1
      BY <1>3, <1>6, <2>2
    <3>4. At(k)' = q
      BY <2>1, <3>1, <3>3 DEF At
    <3> QED BY <3>2, <3>3, <3>4
  <2>4. ASSUME NEW i \in 1 .. Remaining PROVE Waiting'[i] = Waiting[i]
    <3>1. i \in 1 .. Remaining' /\ 1 + i - 1 = i /\ i \in 1 .. Len(pending)
      BY <1>3, <1>6, <2>2
    <3>2. Waiting'[i] = At(i)' /\ Waiting[i] = At(i)
      BY <3>1, WaitingType, WaitingNext
    <3>3. At(i)' = At(i)
      BY <1>3, <1>5, <2>1, <3>1 DEF At
    <3> QED BY <3>2, <3>3
  <2>5. Waiting' = Append(Waiting, q)
    <3>1. /\ Append(Waiting, q) \in Seq(Packets) /\ Len(Append(Waiting, q)) = Len(Waiting) + 1
          /\ \A i \in 1 .. Len(Waiting) : Append(Waiting, q)[i] = Waiting[i]
          /\ Append(Waiting, q)[Len(Waiting) + 1] = q
      BY <1>4, WaitingType, AppendProperties
    <3>2. \A i \in 1 .. Len(Waiting) + 1 : Waiting'[i] = Append(Waiting, q)[i]
      BY <1>3, <1>6, <2>3, <2>4, <3>1
    <3> HIDE DEF q
    <3> QED BY <2>2, <3>1, <3>2, WaitingNext, SeqEqual
  <2> QED BY <1>3, <1>4, <1>6, <1>8, <2>2, <2>5, DeferredConstants DEF Queue!QNext, Queue!Accept
<1> QED BY <1>7, <1>8

\* An action is executed on the oldest packet, as it was received.
LEMMA ProcessPacketStep ==
  ASSUME DeferredInv, DeferredInv', ProcessPacket
  PROVE  Queue!Execute
<1>1. First = pnum + 1 /\ First \in 1 .. Len(pending) /\ First' = First + 1
      /\ Len(pending) \in Nat
  BY FirstIsStart, PendingType DEF ProcessPacket, First, DeferredInv
<1>2. executed' = Append(executed, At(1)) /\ UNCHANGED <<pending, buffers>>
  <2>1. First + 1 - 1 = pnum + 1
    BY <1>1
  <2> QED BY <2>1 DEF ProcessPacket, At
<1>3. Remaining' = Remaining - 1 /\ Remaining \in Nat \ {0}
  BY <1>1, <1>2 DEF Remaining
<1>4. Waiting # <<>> /\ Head(Waiting) = At(1)
  BY <1>3, WaitingType
<1>5. /\ Tail(Waiting) \in Seq(Packets) /\ Len(Tail(Waiting)) = Remaining - 1
      /\ \A i \in 1 .. Remaining - 1 : Tail(Waiting)[i] = Waiting[i + 1]
  BY <1>4, WaitingType, HeadTailProperties
<1>6. ASSUME NEW i \in 1 .. Remaining - 1 PROVE Waiting'[i] = Waiting[i + 1]
  <2>1. i + 1 \in 1 .. Remaining /\ First' + i - 1 = First + (i + 1) - 1
    BY <1>1, <1>3
  <2>2. At(i)' = At(i + 1)
    BY <1>2, <2>1 DEF At
  <2>3. Waiting'[i] = At(i)'
    BY <1>3, WaitingNext
  <2>4. \A k \in 1 .. Remaining : Waiting[k] = At(k)
    BY WaitingType
  <2> HIDE DEF At
  <2> QED BY <2>1, <2>2, <2>3, <2>4
<1>7. Waiting' = Tail(Waiting)
  BY <1>3, <1>5, <1>6, WaitingNext, SeqEqual
<1> QED BY <1>2, <1>4, <1>7 DEF Queue!Execute

\* The handler implements the queue: what was received is executed once, in order and
\* unaltered, or lost while the queue is full.
THEOREM QueueRefinement == DeferredSpec => ImplementsQueue
<1>1. DeferredInit => Queue!QInit
  <2> SUFFICES ASSUME DeferredInit PROVE Queue!QInit
    OBVIOUS
  <2>1. Remaining = 0
    BY EmptySeq DEF DeferredInit, Remaining, First
  <2>2. Waiting = <<>>
    BY <2>1, DeferredInitInv, WaitingType, EmptySeq
  <2> QED BY <2>2 DEF DeferredInit, Queue!QInit
<1>2. DeferredInv /\ DeferredInv' /\ [DeferredNext]_deferredVars => [Queue!QNext]_(Queue!qvars)
  <2> SUFFICES ASSUME DeferredInv, DeferredInv', [DeferredNext]_deferredVars
               PROVE  Queue!QNext \/ UNCHANGED <<Waiting, executed>>
    BY DEF Queue!qvars
  <2>1. CASE ChecksumError \/ Process \/ UNCHANGED deferredVars
    <3>1. UNCHANGED <<pending, buffers, executed, First>>
      BY <2>1 DEF ChecksumError, Process, First, deferredVars
    <3> QED BY <3>1 DEF Waiting
  <2>2. CASE ProcessEnd
    <3>1. Remaining = 0 /\ Remaining' = 0 /\ executed' = executed
      BY <2>2, EmptySeq, PendingType DEF ProcessEnd, Remaining, First, DeferredInv
    <3> QED BY <3>1, SameWaiting
  <2>3. ASSUME NEW t \in Types, InitializeBuffer(t) PROVE UNCHANGED <<Waiting, executed>>
    BY <2>3, InitializeBufferStep
  <2>4. CASE ProcessPacket
    BY <2>4, ProcessPacketStep DEF Queue!QNext
  <2> QED BY <2>1, <2>2, <2>3, <2>4, OnReceiveStep DEF DeferredNext
<1> QED BY <1>1, <1>2, DeferredInvariant, PTL DEF DeferredSpec, ImplementsQueue, Queue!QSpec

-----------------------------------------------------------------------------
(* The receiver: checksums and frames *)

\* A set of naturals that has 0, and with each natural the next one, has them all.
LEMMA NatInduct ==
  ASSUME NEW S, 0 \in S, \A n \in Nat : n \in S => n + 1 \in S
  PROVE  Nat \subseteq S
<1> SUFFICES ASSUME NEW m \in Nat \ S PROVE FALSE
  OBVIOUS
<1>1. PICK x \in Nat \ S : \A y \in Nat \ S : ~(<<y, x>> \in OpToRel(<, Nat))
  BY WFMin, NatLessThanWellFounded
<1>2. \A y \in Nat \ S : ~(y < x)
  BY <1>1, Zenon DEF OpToRel
<1>3. x # 0 /\ x - 1 \in Nat
  OBVIOUS
<1>4. x - 1 \in S
  BY <1>2, <1>3
<1> QED BY <1>3, <1>4

LEMMA XorIs ==
  ASSUME NEW b \in LineBytes, NEW c \in LineBytes
  PROVE  /\ 0 \in LineBytes /\ XorBytes(b, c) \in LineBytes /\ XorBytes(b, c) = XorBytes(c, b)
         /\ XorBytes(b, 0) = b /\ XorBytes(b, b) = 0
         /\ \A d \in LineBytes : XorBytes(XorBytes(b, c), d) = XorBytes(b, XorBytes(c, d))
BY BytesAssumption

\* The checksum after each byte, of any packet
LEMMA ChecksumsAre ==
  ASSUME NEW p \in Seq(LineBytes)
  PROVE  /\ Checksums(p)[0] = 0 /\ \A n \in 0 .. Len(p) : Checksums(p)[n] \in LineBytes
         /\ \A n \in 1 .. Len(p) : Checksums(p)[n] = XorBytes(Checksums(p)[n - 1], p[n])
<1> DEFINE N == Len(p)
           Sums(g, m) == /\ g \in [0 .. m -> LineBytes] /\ g[0] = 0
                         /\ \A n \in 1 .. m : g[n] = XorBytes(g[n - 1], p[n])
           S == {m \in Nat : m <= N => \E g : Sums(g, m)}
           Equation(g) ==
             g = [n \in 0 .. N |-> IF n = 0 THEN 0 ELSE XorBytes(g[n - 1], p[n])]
           h == CHOOSE g : Equation(g)
<1>1. N \in Nat /\ \A n \in 1 .. N : p[n] \in LineBytes
  OBVIOUS
<1>2. 0 \in S
  <2>1. Sums([n \in 0 .. 0 |-> 0], 0)
    BY BytesAssumption
  <2> QED BY <2>1
<1>3. ASSUME NEW m \in Nat, m \in S, m + 1 <= N PROVE \E g : Sums(g, m + 1)
  <2>1. PICK g : Sums(g, m)
    BY <1>1, <1>3
  <2>2. PICK x \in LineBytes : x = XorBytes(g[m], p[m + 1])
    <3>1. g[m] \in LineBytes
      BY <2>1
    <3>2. p[m + 1] \in LineBytes
      BY <1>1, <1>3
    <3> QED BY <3>1, <3>2, XorIs
  <2> DEFINE k == [n \in 0 .. m + 1 |-> IF n = m + 1 THEN x ELSE g[n]]
  <2>3. k \in [0 .. m + 1 -> LineBytes] /\ k[0] = 0
    BY <2>1, <2>2
  <2>4. ASSUME NEW n \in 1 .. m + 1 PROVE k[n] = XorBytes(k[n - 1], p[n])
    <3>1. CASE n = m + 1
      <4>1. k[n] = x /\ k[n - 1] = g[m] /\ p[n] = p[m + 1]
        BY <3>1
      <4> HIDE DEF k
      <4> QED BY <2>2, <4>1
    <3>2. CASE n # m + 1
      <4>1. n \in 1 .. m /\ k[n] = g[n] /\ k[n - 1] = g[n - 1]
        BY <3>2
      <4>2. g[n] = XorBytes(g[n - 1], p[n])
        BY <2>1, <4>1
      <4> HIDE DEF k
      <4> QED BY <4>1, <4>2
    <3> QED BY <3>1, <3>2
  <2>5. Sums(k, m + 1)
    <3> HIDE DEF k
    <3> QED BY <2>3, <2>4
  <2> QED BY <2>5
<1>4. \A m \in Nat : m \in S => m + 1 \in S
  <2> HIDE DEF Sums
  <2> QED BY <1>3
<1>5. PICK g : Sums(g, N)
  <2> HIDE DEF S
  <2>1. N \in S
    BY <1>1, <1>2, <1>4, NatInduct
  <2> QED BY <2>1 DEF S
<1>6. Equation(g)
  <2>1. g \in [0 .. N -> LineBytes]
    BY <1>5
  <2>2. \A n \in 0 .. N : g[n] = IF n = 0 THEN 0 ELSE XorBytes(g[n - 1], p[n])
    BY <1>5
  <2> HIDE DEF Sums
  <2> QED BY <2>1, <2>2
<1>7. Equation(h)
  <2> HIDE DEF Equation
  <2> QED BY <1>6
<1>8. Checksums(p) = h
  BY DEF Checksums
<1> HIDE DEF h
<1>9. h[0] = 0 /\ \A n \in 1 .. N : h[n] = XorBytes(h[n - 1], p[n])
  BY <1>1, <1>7
<1> DEFINE I == {n \in Nat : n <= N => h[n] \in LineBytes}
<1>10. 0 \in I
  BY <1>9, BytesAssumption
<1>11. ASSUME NEW n \in Nat, n \in I, n + 1 <= N PROVE h[n + 1] \in LineBytes
  <2>1. n + 1 \in 1 .. N /\ (n + 1) - 1 = n /\ h[n] \in LineBytes
    BY <1>1, <1>11
  <2>2. h[n + 1] = XorBytes(h[n], p[n + 1])
    BY <1>9, <2>1
  <2>3. p[n + 1] \in LineBytes
    BY <1>1, <2>1
  <2> QED BY <2>1, <2>2, <2>3, XorIs
<1>12. \A n \in Nat : n \in I => n + 1 \in I
  BY <1>11
<1>13. \A n \in 0 .. N : n \in I
  <2> HIDE DEF I
  <2> QED BY <1>10, <1>12, NatInduct
<1> QED BY <1>1, <1>8, <1>9, <1>13

LEMMA SendableIs ==
  ASSUME NEW p \in Sendable
  PROVE  /\ p \in Seq(LineBytes) /\ Len(p) \in Nat /\ Len(p) >= 3 /\ Len(p) = p[2]
         /\ p[1] \in Installed /\ p[2] = Size[p[1]] /\ p[1] \in LineBytes /\ p[2] \in LineBytes
         /\ p[3] \in LineBytes /\ \A i \in 1 .. Len(p) : p[i] \in LineBytes
<1>1. p \in Seq(LineBytes) /\ p[1] \in Installed /\ p[2] = Size[p[1]] /\ Len(p) = p[2]
  BY TypesAssumption
<1>2. Len(p) \in Nat /\ Len(p) > 2
  BY <1>1, TypesAssumption DEF HEADER
<1> QED BY <1>1, <1>2

LEMMA FrameIs ==
  ASSUME NEW p \in Sendable
  PROVE  /\ Frame(p) \in Seq(LineBytes) /\ Len(Frame(p)) = Len(p) + 3
         /\ Frame(p)[1] = AA /\ Frame(p)[2] = FIVE /\ Frame(p)[Len(p) + 3] = Checksum(p)
         /\ \A i \in 1 .. Len(p) : Frame(p)[i + 2] = p[i]
         /\ Checksum(p) \in LineBytes
<1>1. p \in Seq(LineBytes) /\ Len(p) \in Nat /\ Len(p) >= 3
  BY SendableIs
<1>2. Checksum(p) \in LineBytes
  BY <1>1, ChecksumsAre DEF Checksum
<1>3. PICK s : s = <<AA, FIVE>>
  OBVIOUS
<1>4. PICK t : t = <<Checksum(p)>>
  OBVIOUS
<1>5. /\ s \in Seq(LineBytes) /\ Len(s) = 2 /\ s[1] = AA /\ s[2] = FIVE
      /\ t \in Seq(LineBytes) /\ Len(t) = 1 /\ t[1] = Checksum(p)
  BY <1>2, <1>3, <1>4, BytesAssumption
<1>6. PICK u : u = s \o p
  OBVIOUS
<1>7. /\ u \in Seq(LineBytes) /\ Len(u) = Len(p) + 2
      /\ \A i \in 1 .. Len(p) + 2 : u[i] = IF i <= 2 THEN s[i] ELSE p[i - 2]
  <2>1. /\ s \o p \in Seq(LineBytes) /\ Len(s \o p) = Len(s) + Len(p)
        /\ \A i \in 1 .. Len(s) + Len(p) : (s \o p)[i] = IF i <= Len(s) THEN s[i] ELSE p[i - Len(s)]
    BY <1>1, <1>5, ConcatProperties
  <2> QED BY <1>1, <1>5, <1>6, <2>1
<1>8. Frame(p) = u \o t
  BY <1>3, <1>4, <1>6 DEF Frame
<1>9. /\ Frame(p) \in Seq(LineBytes) /\ Len(Frame(p)) = Len(p) + 3
      /\ \A i \in 1 .. Len(p) + 3 : Frame(p)[i] = IF i <= Len(p) + 2 THEN u[i] ELSE t[i - (Len(p) + 2)]
  <2>1. /\ u \o t \in Seq(LineBytes) /\ Len(u \o t) = Len(u) + Len(t)
        /\ \A i \in 1 .. Len(u) + Len(t) : (u \o t)[i] = IF i <= Len(u) THEN u[i] ELSE t[i - Len(u)]
    BY <1>5, <1>7, ConcatProperties
  <2> QED BY <1>1, <1>5, <1>7, <1>8, <2>1
<1>10. PICK q \in Seq(LineBytes) : q = Frame(p)
  BY <1>9
<1>11. q[1] = AA /\ q[2] = FIVE
  <2>1. u[1] = AA /\ u[2] = FIVE
    BY <1>1, <1>5, <1>7
  <2> QED BY <1>1, <1>9, <1>10, <2>1
<1>12. q[Len(p) + 3] = Checksum(p)
  BY <1>1, <1>5, <1>9, <1>10
<1>13. \A i \in 1 .. Len(p) : q[i + 2] = p[i]
  <2> SUFFICES ASSUME NEW i \in 1 .. Len(p) PROVE q[i + 2] = p[i]
    OBVIOUS
  <2>1. i + 2 \in 1 .. Len(p) + 2 /\ (i + 2) - 2 = i /\ ~(i + 2 <= 2)
    BY <1>1
  <2>2. u[i + 2] = p[i]
    BY <1>7, <2>1
  <2> QED BY <1>1, <1>9, <1>10, <2>1, <2>2
<1> QED BY <1>2, <1>9, <1>10, <1>11, <1>12, <1>13

-----------------------------------------------------------------------------
(* Types of the receiver *)

RxTyped ==
  /\ rxFn \in {"AA", "55", "type", "size", "payload", "checksum"}
  /\ rx_checksum \in LineBytes /\ rx_current_op \in Installed \cup {NoType}
  /\ rxFn \in {"size", "payload", "checksum"} => rx_current_op \in Installed
  /\ rx_buffer \in Seq(LineBytes) /\ rx_bytes_to_read \in Nat
  /\ rxFn = "payload" =>
       rx_bytes_to_read > 0 /\ Len(rx_buffer) + rx_bytes_to_read = Size[rx_current_op]
  /\ delivered \in Seq(Seq(LineBytes))
FaultRecord ==
  [kind : {"corrupt", "lose", "refuse"}, byte : LineBytes,
   at : {"AA", "55", "type", "size", "payload", "checksum"}]
RxTypeInv ==
  RxTyped /\ wire \in Seq(LineBytes) /\ sent \in Seq(Sendable) /\ faults \in Seq(FaultRecord)

LEMMA RxByteTyped ==
  ASSUME RxTyped, NEW c \in LineBytes, NEW refused \in BOOLEAN, RxByte(c, refused)
  PROVE  RxTyped'
<1>0. 0 \in LineBytes /\ XorBytes(rx_checksum, c) \in LineBytes
  BY XorIs DEF RxTyped
<1>1. ASSUME RxAA(c) \/ Rx55(c) PROVE RxTyped'
  BY <1>0, <1>1 DEF RxTyped, RxAA, Rx55
<1>2. ASSUME RxType(c) PROVE RxTyped'
  BY <1>0, <1>2 DEF RxTyped, RxType
<1>3. ASSUME RxSize(c, refused) PROVE RxTyped'
  <2>1. CASE c # Size[rx_current_op] \/ refused
    BY <1>3, <2>1 DEF RxTyped, RxSize
  <2>2. CASE ~(c # Size[rx_current_op] \/ refused)
    <3>1. /\ rxFn = "size" /\ rxFn' = "payload" /\ rx_checksum' = XorBytes(rx_checksum, c)
          /\ rx_bytes_to_read' = c - 2 /\ rx_buffer' = <<rx_current_op, Size[rx_current_op]>>
          /\ UNCHANGED <<rx_current_op, delivered>> /\ c = Size[rx_current_op]
      BY <1>3, <2>2 DEF RxSize, HEADER
    <3>2. rx_current_op \in Installed /\ rx_current_op \in LineBytes
      BY <3>1, TypesAssumption DEF RxTyped
    <3>3. c \in Nat /\ c > 2
      BY <3>1, <3>2, TypesAssumption, BytesAssumption DEF HEADER
    <3>4. rx_buffer' \in Seq(LineBytes) /\ Len(rx_buffer') = 2
      BY <3>1, <3>2
    <3>5. rx_bytes_to_read' \in Nat /\ rx_bytes_to_read' > 0
          /\ Len(rx_buffer') + rx_bytes_to_read' = Size[rx_current_op']
      BY <3>1, <3>3, <3>4
    <3> QED BY <1>0, <3>1, <3>2, <3>4, <3>5 DEF RxTyped
  <2> QED BY <2>1, <2>2
<1>4. ASSUME RxPayload(c) PROVE RxTyped'
  <2>1. /\ rxFn = "payload" /\ rx_checksum' = XorBytes(rx_checksum, c)
        /\ rx_buffer' = Append(rx_buffer, c) /\ rx_bytes_to_read' = rx_bytes_to_read - 1
        /\ rxFn' = IF rx_bytes_to_read = 1 THEN "checksum" ELSE "payload"
        /\ UNCHANGED <<rx_current_op, delivered>>
    BY <1>4 DEF RxPayload
  <2>2. /\ rx_buffer \in Seq(LineBytes) /\ rx_bytes_to_read \in Nat /\ rx_bytes_to_read > 0
        /\ rx_current_op \in Installed /\ Len(rx_buffer) + rx_bytes_to_read = Size[rx_current_op]
    BY <2>1 DEF RxTyped
  <2>3. rx_buffer' \in Seq(LineBytes) /\ Len(rx_buffer') = Len(rx_buffer) + 1
    BY <2>1, <2>2
  <2>4. rx_bytes_to_read' \in Nat /\ (rx_bytes_to_read # 1 => rx_bytes_to_read' > 0)
        /\ Len(rx_buffer') + rx_bytes_to_read' = Size[rx_current_op']
    BY <2>1, <2>2, <2>3
  <2> QED BY <1>0, <2>1, <2>2, <2>3, <2>4 DEF RxTyped
<1>5. ASSUME RxChecksum(c) PROVE RxTyped'
  <2>1. rx_buffer \in Seq(LineBytes) /\ delivered \in Seq(Seq(LineBytes))
    BY DEF RxTyped
  <2>2. Append(delivered, rx_buffer) \in Seq(Seq(LineBytes)) /\ <<>> \in Seq(LineBytes)
    BY <2>1
  <2>3. delivered' \in Seq(Seq(LineBytes)) /\ rx_buffer' \in Seq(LineBytes) /\ rxFn' = "AA"
        /\ UNCHANGED <<rx_checksum, rx_current_op, rx_bytes_to_read>>
    BY <1>5, <2>1, <2>2 DEF RxChecksum
  <2> QED BY <2>3 DEF RxTyped
<1> QED BY <1>1, <1>2, <1>3, <1>4, <1>5 DEF RxByte

LEMMA RxStarts == ReceiverInit => RxTypeInv
<1> SUFFICES ASSUME ReceiverInit PROVE RxTypeInv
  OBVIOUS
<1>1. <<>> \in Seq(LineBytes) /\ <<>> \in Seq(Sendable) /\ <<>> \in Seq(Seq(LineBytes))
      /\ <<>> \in Seq(FaultRecord) /\ 0 \in LineBytes
  BY BytesAssumption
<1> QED BY <1>1 DEF ReceiverInit, RxTypeInv, RxTyped

\* What a step of the line does to it
LEMMA WireMoves ==
  ASSUME RxTypeInv, wire # <<>>
  PROVE  /\ Head(wire) \in LineBytes /\ Tail(wire) \in Seq(LineBytes) /\ Len(wire) > 0
         /\ Len(Tail(wire)) = Len(wire) - 1 /\ Head(wire) = wire[1]
         /\ \A i \in 1 .. Len(wire) - 1 : Tail(wire)[i] = wire[i + 1]
BY DEF RxTypeInv

LEMMA FaultRecorded ==
  ASSUME RxTypeInv, NEW kind \in {"corrupt", "lose", "refuse"}, NEW b \in LineBytes, Fault(kind, b)
  PROVE  /\ faults' \in Seq(FaultRecord) /\ faults' # <<>> /\ Len(faults') = Len(faults) + 1
         /\ faults = <<>> => faults'[1] = [kind |-> kind, byte |-> b, at |-> rxFn]
<1>1. PICK r : r = [kind |-> kind, byte |-> b, at |-> rxFn]
  OBVIOUS
<1>2. r \in FaultRecord
  BY <1>1 DEF FaultRecord, RxTypeInv, RxTyped
<1>3. faults' = Append(faults, r) /\ faults \in Seq(FaultRecord)
  BY <1>1 DEF Fault, RxTypeInv
<1>4. faults' \in Seq(FaultRecord) /\ Len(faults') = Len(faults) + 1 /\ Len(faults) \in Nat
  BY <1>2, <1>3
<1>5. faults = <<>> => faults'[1] = r
  BY <1>3
<1> QED BY <1>1, <1>4, <1>5

LEMMA RxTypesStep ==
  ASSUME RxTypeInv, [ReceiverNext]_receiverVars
  PROVE  RxTypeInv'
<1>0. RxTyped
  BY DEF RxTypeInv
<1>1. ASSUME NEW p \in Sendable, Send(p) PROVE RxTypeInv'
  <2>1. PICK f : f = Frame(p)
    OBVIOUS
  <2>2. f \in Seq(LineBytes) /\ wire \in Seq(LineBytes) /\ sent \in Seq(Sendable)
    BY <2>1, FrameIs DEF RxTypeInv
  <2>3. wire' = wire \o f /\ sent' = Append(sent, p)
    BY <1>1, <2>1 DEF Send
  <2>4. wire' \in Seq(LineBytes) /\ sent' \in Seq(Sendable)
    BY <2>2, <2>3
  <2>5. RxTyped' /\ faults' = faults
    BY <1>0, <1>1 DEF Send, rxVars, RxTyped
  <2> QED BY <2>4, <2>5 DEF RxTypeInv
<1>2. ASSUME Receive PROVE RxTypeInv'
  <2>1. RxTyped'
    BY <1>0, <1>2, WireMoves, RxByteTyped DEF Receive
  <2> QED BY <1>2, <2>1, WireMoves DEF Receive, RxTypeInv
<1>3. ASSUME Corrupt PROVE RxTypeInv'
  <2>1. PICK c \in LineBytes \ {Head(wire)} : RxByte(c, FALSE) /\ Fault("corrupt", c)
    BY <1>3 DEF Corrupt
  <2>2. RxTyped'
    BY <1>0, <2>1, RxByteTyped
  <2>3. faults' \in Seq(FaultRecord)
    BY <2>1, FaultRecorded
  <2> QED BY <1>3, <2>2, <2>3, WireMoves DEF Corrupt, RxTypeInv
<1>4. ASSUME Lose PROVE RxTypeInv'
  <2>1. RxTyped'
    BY <1>0, <1>4 DEF Lose, rxVars, RxTyped
  <2>2. faults' \in Seq(FaultRecord)
    BY <1>4, WireMoves, FaultRecorded DEF Lose
  <2> QED BY <1>4, <2>1, <2>2, WireMoves DEF Lose, RxTypeInv
<1>5. ASSUME Refuse PROVE RxTypeInv'
  <2>1. RxTyped'
    BY <1>0, <1>5, WireMoves, RxByteTyped DEF Refuse, RxByte
  <2>2. faults' \in Seq(FaultRecord)
    BY <1>5, WireMoves, FaultRecorded DEF Refuse
  <2> QED BY <1>5, <2>1, <2>2, WireMoves DEF Refuse, RxTypeInv
<1>6. ASSUME UNCHANGED receiverVars PROVE RxTypeInv'
  BY <1>6 DEF receiverVars, rxVars, RxTypeInv, RxTyped
<1> QED BY <1>1, <1>2, <1>3, <1>4, <1>5, <1>6 DEF ReceiverNext

\* Whatever the line does, the receiver's state, the line and what was sent and
\* delivered are of their types.
THEOREM ReceiverTypes == ReceiverSpec => []ReceiverTypeOK
<1>1. RxTypeInv => ReceiverTypeOK
  BY DEF RxTypeInv, RxTyped, ReceiverTypeOK
<1> QED BY <1>1, RxStarts, RxTypesStep, PTL DEF ReceiverSpec

-----------------------------------------------------------------------------
(* The line's place in the frames *)

\* Bytes of the frame f that are still to come when k have.
Left(f, k) == IF f = 0 THEN 0 ELSE Len(sent[f]) + 3 - k

\* The line brings the k-th byte of the f-th frame next; k of it have come, and of the
\* next frame none.
Place(f, k) ==
  /\ f \in 0 .. Len(sent) /\ Len(sent) - 1 <= f
  /\ IF f = 0 THEN k = 0 ELSE k \in 1 .. Len(sent[f]) + 3
  /\ f < Len(sent) => Left(f, k) <= 1
  /\ Len(wire) = Left(f, k) + (IF f < Len(sent) THEN Len(sent[f + 1]) + 3 ELSE 0)
  /\ \A i \in 1 .. Left(f, k) : wire[i] = Frame(sent[f])[k + i]
  /\ f < Len(sent) =>
       \A i \in 1 .. Len(sent[f + 1]) + 3 : wire[Left(f, k) + i] = Frame(sent[f + 1])[i]

LEMMA SentIs ==
  ASSUME RxTypeInv, NEW f \in 1 .. Len(sent)
  PROVE  /\ sent[f] \in Sendable /\ Len(sent[f]) \in Nat /\ Len(sent[f]) >= 3
         /\ \A i \in 1 .. Len(sent[f]) + 3 : Frame(sent[f])[i] \in LineBytes
<1>1. sent[f] \in Sendable
  BY DEF RxTypeInv
<1>2. PICK p \in Sendable : p = sent[f]
  BY <1>1
<1>3. PICK q \in Seq(LineBytes) : q = Frame(p) /\ Len(q) = Len(p) + 3
  BY FrameIs
<1>4. \A i \in 1 .. Len(q) : q[i] \in LineBytes
  OBVIOUS
<1> QED BY <1>2, <1>3, <1>4, SendableIs

LEMMA PlaceTyped ==
  ASSUME RxTypeInv, NEW f, NEW k, Place(f, k)
  PROVE  /\ Len(sent) \in Nat /\ f \in Nat /\ k \in Nat /\ Left(f, k) \in Nat /\ Len(wire) \in Nat
         /\ f <= Len(sent) /\ Len(sent) <= f + 1
         /\ f # 0 => f \in 1 .. Len(sent) /\ k >= 1 /\ Left(f, k) = Len(sent[f]) + 3 - k
         /\ f = 0 => k = 0 /\ Left(f, k) = 0
         /\ f # Len(sent) => f + 1 = Len(sent) /\ f + 1 \in 1 .. Len(sent)
<1>1. Len(sent) \in Nat /\ Len(wire) \in Nat
  BY DEF RxTypeInv
<1>2. f \in 0 .. Len(sent) /\ Len(sent) - 1 <= f
  BY DEF Place
<1>3. CASE f = 0
  <2>1. k = 0 /\ Left(f, k) = 0
    BY <1>3 DEF Place, Left
  <2> QED BY <1>1, <1>2, <1>3, <2>1
<1>4. CASE f # 0
  <2>1. f \in 1 .. Len(sent) /\ k \in 1 .. Len(sent[f]) + 3
    BY <1>1, <1>2, <1>4 DEF Place
  <2>2. Len(sent[f]) \in Nat
    BY <2>1, SentIs
  <2> QED BY <1>1, <1>2, <1>4, <2>1, <2>2 DEF Left
<1> QED BY <1>3, <1>4

LEMMA PlaceStarts == ReceiverInit => Place(0, 0)
BY DEF ReceiverInit, Place, Left

LEMMA PlaceSends ==
  ASSUME RxTypeInv, NEW f, NEW k, Place(f, k), NEW p \in Sendable, Send(p)
  PROVE  /\ Place(f, k)' /\ f = Len(sent) /\ Left(f, k)' = Left(f, k)
         /\ Len(sent') = Len(sent) + 1 /\ \A i \in 1 .. Len(sent) : sent'[i] = sent[i]
<1>1. /\ Len(sent) \in Nat /\ f \in Nat /\ k \in Nat /\ Left(f, k) \in Nat /\ Len(wire) \in Nat
      /\ f <= Len(sent)
      /\ f # 0 => f \in 1 .. Len(sent)
      /\ f # Len(sent) => f + 1 = Len(sent) /\ f + 1 \in 1 .. Len(sent)
  BY PlaceTyped
<1>2. f = Len(sent)
  <2> SUFFICES ASSUME f # Len(sent) PROVE FALSE
    OBVIOUS
  <2>1. Len(sent[f + 1]) \in Nat
    BY <1>1, SentIs
  <2>2. Len(wire) = Left(f, k) + (Len(sent[f + 1]) + 3)
    BY <1>1 DEF Place
  <2> QED BY <1>1, <2>1, <2>2 DEF Send
<1>3. PICK q \in Seq(LineBytes) : q = Frame(p) /\ Len(q) = Len(p) + 3
  BY FrameIs
<1>4. sent' = Append(sent, p) /\ wire' = wire \o q /\ Len(wire) <= 1
  BY <1>3 DEF Send
<1>5. wire \in Seq(LineBytes) /\ sent \in Seq(Sendable)
  BY DEF RxTypeInv
<1>6. Len(sent') = Len(sent) + 1 /\ sent'[Len(sent) + 1] = p
      /\ \A i \in 1 .. Len(sent) : sent'[i] = sent[i]
  BY <1>4, <1>5
<1>7. /\ Len(wire') = Len(wire) + Len(q)
      /\ \A i \in 1 .. Len(wire) + Len(q) : wire'[i] = IF i <= Len(wire) THEN wire[i] ELSE q[i - Len(wire)]
  BY <1>3, <1>4, <1>5, ConcatProperties
<1>8. Len(wire) = Left(f, k) /\ \A i \in 1 .. Left(f, k) : wire[i] = Frame(sent[f])[k + i]
  BY <1>1, <1>2 DEF Place
<1>9. Left(f, k)' = Left(f, k) /\ (f # 0 => sent'[f] = sent[f])
  BY <1>1, <1>6 DEF Left
<1>10. sent'[f + 1] = p /\ Len(p) \in Nat /\ f < Len(sent')
  BY <1>1, <1>2, <1>6, SendableIs
<1>11. f \in 0 .. Len(sent') /\ Len(sent') - 1 <= f
  BY <1>1, <1>2, <1>6
<1>12. IF f = 0 THEN k = 0 ELSE k \in 1 .. Len(sent'[f]) + 3
  BY <1>9 DEF Place
<1>13. Left(f, k)' <= 1 /\ Len(wire') = Left(f, k)' + (Len(sent'[f + 1]) + 3)
  BY <1>1, <1>3, <1>4, <1>7, <1>8, <1>9, <1>10
<1>14. \A i \in 1 .. Left(f, k)' : wire'[i] = Frame(sent'[f])[k + i]
  <2> SUFFICES ASSUME NEW i \in 1 .. Left(f, k) PROVE wire'[i] = Frame(sent'[f])[k + i]
    BY <1>9
  <2>1. f # 0
    BY DEF Left
  <2>2. i \in 1 .. Len(wire) + Len(q) /\ i <= Len(wire)
    BY <1>1, <1>3, <1>8, <1>10
  <2>3. wire'[i] = wire[i]
    BY <1>7, <2>2
  <2> QED BY <1>8, <1>9, <2>1, <2>3
<1>15. \A i \in 1 .. Len(p) + 3 : wire'[Left(f, k) + i] = q[i]
  <2> SUFFICES ASSUME NEW i \in 1 .. Len(p) + 3 PROVE wire'[Left(f, k) + i] = q[i]
    OBVIOUS
  <2>1. PICK j : j = Left(f, k) + i
    OBVIOUS
  <2>2. j \in 1 .. Len(wire) + Len(q) /\ ~(j <= Len(wire)) /\ j - Len(wire) = i
    BY <1>1, <1>3, <1>8, <1>10, <2>1
  <2>3. wire'[j] = q[j - Len(wire)]
    BY <1>7, <2>2
  <2> QED BY <2>1, <2>2, <2>3
<1>16. Place(f, k)'
  BY <1>3, <1>9, <1>10, <1>11, <1>12, <1>13, <1>14, <1>15 DEF Place
<1> QED BY <1>2, <1>6, <1>9, <1>16

\* A byte leaves the line: of the frame that has begun, or the first of the next one.
LEMMA PlaceGoes ==
  ASSUME RxTypeInv, NEW f, NEW k, Place(f, k), wire # <<>>, wire' = Tail(wire), sent' = sent
  PROVE  IF Left(f, k) > 0
           THEN /\ Head(wire) = Frame(sent[f])[k + 1] /\ f # 0 /\ Left(f, k)' = Left(f, k)
                /\ Place(f, k + 1)' /\ Left(f, k + 1) = Left(f, k) - 1
           ELSE /\ Head(wire) = AA /\ f + 1 = Len(sent) /\ f + 1 \in 1 .. Len(sent)
                /\ Place(f + 1, 1)' /\ Left(f + 1, 1) = Len(sent[f + 1]) + 2
<1>1. /\ Len(sent) \in Nat /\ f \in Nat /\ k \in Nat /\ Left(f, k) \in Nat /\ Len(wire) \in Nat
      /\ f <= Len(sent) /\ Len(sent) <= f + 1
      /\ f # 0 => f \in 1 .. Len(sent) /\ k >= 1 /\ Left(f, k) = Len(sent[f]) + 3 - k
      /\ f = 0 => k = 0 /\ Left(f, k) = 0
      /\ f # Len(sent) => f + 1 = Len(sent) /\ f + 1 \in 1 .. Len(sent)
  BY PlaceTyped
<1>2. /\ Len(wire) > 0 /\ Len(wire') = Len(wire) - 1 /\ Head(wire) = wire[1]
      /\ \A i \in 1 .. Len(wire) - 1 : wire'[i] = wire[i + 1]
  BY WireMoves
<1>3. \A g, j : Left(g, j)' = Left(g, j)
  BY DEF Left
<1>4. f # Len(sent) => Len(sent[f + 1]) \in Nat /\ Len(sent[f + 1]) >= 3
  BY <1>1, SentIs
<1>5. /\ f < Len(sent) => Left(f, k) <= 1
      /\ Len(wire) = Left(f, k) + (IF f < Len(sent) THEN Len(sent[f + 1]) + 3 ELSE 0)
      /\ \A i \in 1 .. Left(f, k) : wire[i] = Frame(sent[f])[k + i]
      /\ f < Len(sent) =>
           \A i \in 1 .. Len(sent[f + 1]) + 3 : wire[Left(f, k) + i] = Frame(sent[f + 1])[i]
  BY DEF Place
<1>6. ASSUME Left(f, k) > 0
      PROVE  /\ Head(wire) = Frame(sent[f])[k + 1] /\ f # 0
             /\ Place(f, k + 1)' /\ Left(f, k + 1) = Left(f, k) - 1
  <2>1. f # 0 /\ f \in 1 .. Len(sent)
    BY <1>1, <1>6
  <2>2. Len(sent[f]) \in Nat
    BY <2>1, SentIs
  <2>3. Left(f, k + 1) = Left(f, k) - 1 /\ Left(f, k + 1) \in Nat
    BY <1>1, <1>6, <2>1, <2>2 DEF Left
  <2>4. k + 1 \in 1 .. Len(sent[f]) + 3
    BY <1>1, <1>6, <2>1, <2>2
  <2>5. Len(wire') = Left(f, k + 1) + (IF f < Len(sent) THEN Len(sent[f + 1]) + 3 ELSE 0)
    BY <1>1, <1>2, <1>4, <1>5, <2>3
  <2>6. \A i \in 1 .. Left(f, k + 1) : wire'[i] = Frame(sent[f])[(k + 1) + i]
    <3> SUFFICES ASSUME NEW i \in 1 .. Left(f, k + 1)
                 PROVE  wire'[i] = Frame(sent[f])[(k + 1) + i]
      OBVIOUS
    <3>1. i + 1 \in 1 .. Left(f, k) /\ i \in 1 .. Len(wire) - 1 /\ k + (i + 1) = (k + 1) + i
      BY <1>1, <1>4, <1>5, <2>3
    <3>2. wire'[i] = wire[i + 1] /\ wire[i + 1] = Frame(sent[f])[k + (i + 1)]
      BY <1>2, <1>5, <3>1
    <3> QED BY <3>1, <3>2
  <2>7. f < Len(sent) =>
          \A i \in 1 .. Len(sent[f + 1]) + 3 : wire'[Left(f, k + 1) + i] = Frame(sent[f + 1])[i]
    <3> SUFFICES ASSUME f < Len(sent), NEW i \in 1 .. Len(sent[f + 1]) + 3
                 PROVE  wire'[Left(f, k + 1) + i] = Frame(sent[f + 1])[i]
      OBVIOUS
    <3>1. PICK n \in Nat, j \in Nat : n = Left(f, k + 1) /\ j = Len(sent[f + 1])
      BY <1>1, <1>4, <2>3
    <3>2. Left(f, k) = n + 1 /\ Len(wire) = (n + 1) + (j + 3) /\ i \in 1 .. j + 3
      BY <1>1, <1>5, <2>3, <3>1
    <3>3. n + i \in 1 .. Len(wire) - 1 /\ (n + i) + 1 = Left(f, k) + i
      BY <3>2
    <3>4. wire'[n + i] = wire[Left(f, k) + i]
      BY <1>2, <3>3
    <3>5. wire[Left(f, k) + i] = Frame(sent[f + 1])[i]
      BY <1>5
    <3> QED BY <3>1, <3>4, <3>5
  <2>8. Place(f, k + 1)'
    <3>1. f \in 0 .. Len(sent) /\ Len(sent) - 1 <= f
      BY <1>1
    <3>2. f < Len(sent) => Left(f, k + 1) <= 1
      BY <1>1, <1>5, <2>3
    <3>3. Left(f, k + 1)' = Left(f, k + 1)
      BY <1>3
    <3> QED BY <2>1, <2>4, <2>5, <2>6, <2>7, <3>1, <3>2, <3>3 DEF Place
  <2>9. Head(wire) = Frame(sent[f])[k + 1]
    <3>1. 1 \in 1 .. Left(f, k)
      BY <1>1, <1>6
    <3> QED BY <1>2, <1>5, <3>1
  <2> QED BY <2>1, <2>3, <2>8, <2>9
<1>7. ASSUME ~(Left(f, k) > 0)
      PROVE  /\ Head(wire) = AA /\ f + 1 = Len(sent) /\ f + 1 \in 1 .. Len(sent)
             /\ Place(f + 1, 1)' /\ Left(f + 1, 1) = Len(sent[f + 1]) + 2
  <2>1. Left(f, k) = 0 /\ f < Len(sent) /\ f + 1 = Len(sent) /\ f + 1 \in 1 .. Len(sent)
    BY <1>1, <1>2, <1>5, <1>7
  <2>2. PICK p \in Sendable : p = sent[f + 1]
    BY <2>1, SentIs
  <2>3. Len(p) \in Nat /\ Len(p) >= 3
    BY SendableIs
  <2>4. Len(wire) = Len(p) + 3 /\ \A i \in 1 .. Len(p) + 3 : wire[i] = Frame(p)[i]
    <3>1. \A i \in 1 .. Len(p) + 3 : wire[0 + i] = Frame(p)[i]
      BY <1>5, <2>1, <2>2
    <3> QED BY <1>5, <2>1, <2>2, <2>3, <3>1
  <2>5. Head(wire) = AA
    BY <1>2, <2>3, <2>4, FrameIs
  <2>6. Left(f + 1, 1) = Len(p) + 2
    BY <1>1, <2>2, <2>3 DEF Left
  <2>7. \A i \in 1 .. Len(p) + 2 : wire'[i] = Frame(p)[1 + i]
    BY <1>2, <2>3, <2>4
  <2>8. Len(wire') = Len(p) + 2
    BY <1>2, <2>3, <2>4
  <2>9. Place(f + 1, 1)'
    BY <1>1, <1>3, <2>1, <2>2, <2>3, <2>6, <2>7, <2>8 DEF Place
  <2> QED BY <2>1, <2>2, <2>5, <2>6, <2>9
<1> QED BY <1>3, <1>6, <1>7

-----------------------------------------------------------------------------
(* What was delivered *)

\* Of the first g packets, all were delivered but m, from the h-th.
Kept(g, h, m) ==
  /\ m \in 0 .. 2 /\ h \in 1 .. g - m + 1 /\ Len(delivered) = g - m
  /\ \A j \in 1 .. g - m : delivered[j] = sent[IF j < h THEN j ELSE j + m]
Done(f, k) == IF Left(f, k) = 0 THEN f ELSE f - 1

LEMMA KeptStays ==
  ASSUME RxTypeInv, NEW g \in 0 .. Len(sent), NEW h, NEW m, Kept(g, h, m),
         delivered' = delivered, \A i \in 1 .. Len(sent) : sent'[i] = sent[i]
  PROVE  Kept(g, h, m)'
<1>1. Len(sent) \in Nat /\ m \in 0 .. 2 /\ h \in 1 .. g - m + 1
  BY DEF RxTypeInv, Kept
<1>2. \A j \in 1 .. g - m : (IF j < h THEN j ELSE j + m) \in 1 .. Len(sent)
  BY <1>1
<1> QED BY <1>1, <1>2 DEF Kept

LEMMA KeptDelivers ==
  ASSUME RxTypeInv, NEW g \in Nat, g + 1 <= Len(sent), NEW h, NEW m, Kept(g, h, m),
         delivered' = Append(delivered, sent[g + 1]), sent' = sent
  PROVE  Kept(g + 1, h, m)'
<1>1. /\ Len(sent) \in Nat /\ m \in 0 .. 2 /\ h \in 1 .. g - m + 1
      /\ Len(delivered) = g - m /\ \A j \in 1 .. g - m : delivered[j] = sent[IF j < h THEN j ELSE j + m]
  BY DEF RxTypeInv, Kept
<1>2. delivered \in Seq(Seq(LineBytes))
  BY DEF RxTypeInv, RxTyped
<1>3. PICK x : x = sent[g + 1]
  OBVIOUS
<1>4. PICK n \in Nat : n = g - m
  BY <1>1, <1>2
<1>5. Len(delivered') = n + 1 /\ delivered'[n + 1] = x /\ \A j \in 1 .. n : delivered'[j] = delivered[j]
  BY <1>1, <1>2, <1>3, <1>4
<1>6. (g + 1) - m = n + 1 /\ h \in 1 .. (g + 1) - m + 1 /\ (n + 1) + m = g + 1
      /\ (n + 1 < h => m = 0 \/ n + 1 = g + 1)
  BY <1>1, <1>4
<1>7. \A j \in 1 .. n + 1 : delivered'[j] = sent[IF j < h THEN j ELSE j + m]
  <2> SUFFICES ASSUME NEW j \in 1 .. n + 1
               PROVE  delivered'[j] = sent[IF j < h THEN j ELSE j + m]
    OBVIOUS
  <2>1. CASE j = n + 1
    <3>1. (IF j < h THEN j ELSE j + m) = g + 1
      BY <1>1, <1>4, <2>1
    <3> QED BY <1>3, <1>5, <2>1, <3>1
  <2>2. CASE j # n + 1
    BY <1>1, <1>4, <1>5, <2>2
  <2> QED BY <2>1, <2>2
<1> QED BY <1>1, <1>5, <1>6, <1>7 DEF Kept

\* One more is lost, the first or next to the one before.
LEMMA KeptLoses ==
  ASSUME RxTypeInv, NEW g \in Nat, NEW h, NEW m, Kept(g, h, m), m \in 0 .. 1,
         m = 0 \/ h = g, delivered' = delivered, sent' = sent
  PROVE  \E i \in Nat : Kept(g + 1, i, m + 1)' /\ (m = 0 => i = g + 1)
<1>1. /\ m \in 0 .. 2 /\ h \in 1 .. g - m + 1
      /\ Len(delivered) = g - m /\ \A j \in 1 .. g - m : delivered[j] = sent[IF j < h THEN j ELSE j + m]
  BY DEF Kept
<1>2. ASSUME m = 0 PROVE Kept(g + 1, g + 1, 1)'
  <2>1. Len(delivered') = g /\ \A j \in 1 .. g : delivered'[j] = sent'[j]
    BY <1>1, <1>2
  <2> QED BY <2>1 DEF Kept
<1>3. ASSUME m = 1, h = g PROVE Kept(g + 1, g, 2)'
  <2>1. Len(delivered') = g - 1 /\ g >= 1 /\ \A j \in 1 .. g - 1 : delivered'[j] = sent'[j]
    BY <1>1, <1>3
  <2> QED BY <2>1 DEF Kept
<1> QED BY <1>2, <1>3

-----------------------------------------------------------------------------
(* Where the receiver can be, k bytes of the frame of p having come        *)

\* It is where they should have brought it.
Synced(p, k) ==
  \/ k = 1 /\ rxFn = "55"
  \/ k = 2 /\ rxFn = "type" /\ rx_checksum = 0
  \/ k = 3 /\ rxFn = "size" /\ rx_current_op = p[1] /\ rx_checksum = Checksums(p)[1]
  \/ /\ k \in 4 .. Len(p) + 1 /\ rxFn = "payload" /\ rx_bytes_to_read = Len(p) - (k - 2)
     /\ rx_buffer = SubSeq(p, 1, k - 2) /\ rx_checksum = Checksums(p)[k - 2]
  \/ k = Len(p) + 2 /\ rxFn = "checksum" /\ rx_buffer = p /\ rx_checksum = Checksum(p)

\* A byte of the packet was wrong, and the checksum differs from the good one by e.
Tainted(p, k, e) ==
  /\ k \in 3 .. Len(p) + 2 /\ rx_checksum = XorBytes(Checksums(p)[k - 2], e)
  /\ \/ k = 3 /\ rxFn = "size"
     \/ k \in 4 .. Len(p) + 1 /\ rxFn = "payload" /\ rx_bytes_to_read = Len(p) - (k - 2)
     \/ k = Len(p) + 2 /\ rxFn = "checksum"

\* A byte of the frame was lost: the receiver is one behind, and l is what the checksum
\* lacks.
Behind(p, k, l) ==
  \/ k = 2 /\ rxFn = "55"
  \/ k = 3 /\ rxFn = "type"
  \/ k = 4 /\ rxFn = "size" /\ rx_current_op = p[2]
  \/ /\ k = 4 /\ rxFn = "size" /\ rx_current_op = p[1]
     /\ l = p[2] /\ XorBytes(rx_checksum, l) = Checksums(p)[2]
  \/ /\ k \in 5 .. Len(p) + 2 /\ rxFn = "payload" /\ rx_bytes_to_read = Len(p) - (k - 3)
     /\ XorBytes(rx_checksum, l) = Checksums(p)[k - 2]

LEMMA RxByteAt ==
  ASSUME NEW c, NEW refused, RxByte(c, refused)
  PROVE  /\ rxFn = "AA" => RxAA(c)
         /\ rxFn = "55" => Rx55(c)
         /\ rxFn = "type" => RxType(c)
         /\ rxFn = "size" => RxSize(c, refused)
         /\ rxFn = "payload" => RxPayload(c)
         /\ rxFn = "checksum" => RxChecksum(c)
BY DEF RxByte, RxAA, Rx55, RxType, RxSize, RxPayload, RxChecksum

\* The byte after k of the frame
LEMMA NextByte ==
  ASSUME NEW p \in Sendable, NEW k \in 1 .. Len(p) + 2
  PROVE  /\ k = 1 => Frame(p)[k + 1] = FIVE
         /\ k = Len(p) + 2 => Frame(p)[k + 1] = Checksum(p)
         /\ k # 1 /\ k # Len(p) + 2 => Frame(p)[k + 1] = p[k - 1] /\ k - 1 \in 1 .. Len(p)
         /\ Frame(p)[k + 1] \in LineBytes
<1>1. Len(p) \in Nat /\ Len(p) >= 3 /\ \A i \in 1 .. Len(p) : p[i] \in LineBytes
  BY SendableIs
<1>2. Frame(p)[2] = FIVE /\ Frame(p)[Len(p) + 3] = Checksum(p) /\ Checksum(p) \in LineBytes
      /\ \A i \in 1 .. Len(p) : Frame(p)[i + 2] = p[i]
  BY FrameIs
<1>3. ASSUME k # 1, k # Len(p) + 2
      PROVE  Frame(p)[k + 1] = p[k - 1] /\ k - 1 \in 1 .. Len(p)
  <2>1. k - 1 \in 1 .. Len(p) /\ (k - 1) + 2 = k + 1
    BY <1>1, <1>3
  <2> QED BY <1>2, <2>1
<1>4. k = 1 => Frame(p)[k + 1] = FIVE
  BY <1>2
<1>5. k = Len(p) + 2 => Frame(p)[k + 1] = Checksum(p)
  <2>1. k = Len(p) + 2 => k + 1 = Len(p) + 3
    BY <1>1
  <2> QED BY <1>2, <2>1
<1> QED BY <1>1, <1>2, <1>3, <1>4, <1>5, BytesAssumption

\* Exclusive or, of bytes
LEMMA XorLaws ==
  ASSUME NEW b \in LineBytes, NEW c \in LineBytes, NEW d \in LineBytes
  PROVE  /\ XorBytes(XorBytes(b, c), d) = XorBytes(XorBytes(b, d), c)
         /\ XorBytes(b, XorBytes(b, c)) = c
         /\ XorBytes(b, c) = b => c = 0
         /\ b # c => XorBytes(b, c) # 0
<1>1. /\ XorBytes(XorBytes(b, c), d) = XorBytes(b, XorBytes(c, d))
      /\ XorBytes(XorBytes(b, d), c) = XorBytes(b, XorBytes(d, c))
      /\ XorBytes(c, d) = XorBytes(d, c)
  BY XorIs
<1>2. XorBytes(b, XorBytes(b, c)) = c
  <2>1. XorBytes(XorBytes(b, b), c) = XorBytes(b, XorBytes(b, c)) /\ XorBytes(b, b) = 0
    BY XorIs
  <2>2. XorBytes(c, 0) = c /\ 0 \in LineBytes
    BY XorIs
  <2>3. XorBytes(0, c) = XorBytes(c, 0)
    BY <2>2, XorIs
  <2> QED BY <2>1, <2>2, <2>3
<1>3. XorBytes(b, b) = 0 /\ XorBytes(b, 0) = b
  BY XorIs
<1> QED BY <1>1, <1>2, <1>3

-----------------------------------------------------------------------------
(* What the next byte of the frame does                                    *)

LEMMA OneMore ==
  ASSUME NEW s \in Seq(LineBytes), NEW n \in 1 .. Len(s)
  PROVE  Append(SubSeq(s, 1, n - 1), s[n]) = SubSeq(s, 1, n)
OBVIOUS

LEMMA SyncedGoes ==
  ASSUME RxTyped, NEW p \in Sendable, NEW k \in 1 .. Len(p) + 2, Synced(p, k),
         NEW c, c = Frame(p)[k + 1], RxByte(c, FALSE)
  PROVE  IF k = Len(p) + 2 THEN rxFn' = "AA" /\ delivered' = Append(delivered, p)
                           ELSE Synced(p, k + 1)' /\ delivered' = delivered
<1>1. /\ p \in Seq(LineBytes) /\ Len(p) \in Nat /\ Len(p) >= 3 /\ Len(p) = p[2]
      /\ p[1] \in Installed /\ p[2] = Size[p[1]] /\ p[1] \in LineBytes
      /\ \A i \in 1 .. Len(p) : p[i] \in LineBytes
  BY SendableIs
<1>2. /\ k = 1 => c = FIVE
      /\ k = Len(p) + 2 => c = Checksum(p)
      /\ k # 1 /\ k # Len(p) + 2 => c = p[k - 1] /\ k - 1 \in 1 .. Len(p)
  BY NextByte
<1>3. /\ Checksums(p)[0] = 0
      /\ \A n \in 1 .. Len(p) : Checksums(p)[n] = XorBytes(Checksums(p)[n - 1], p[n])
  BY <1>1, ChecksumsAre
<1>4. ASSUME k = 1, rxFn = "55" PROVE Synced(p, k + 1)' /\ delivered' = delivered
  <2>1. Rx55(c) /\ c = FIVE
    BY <1>2, <1>4, RxByteAt
  <2> QED BY <1>4, <2>1 DEF Rx55, Synced
<1>5. ASSUME k = 2, rxFn = "type", rx_checksum = 0
      PROVE  Synced(p, k + 1)' /\ delivered' = delivered
  <2>0. k - 1 = 1 /\ k # 1 /\ k # Len(p) + 2
    BY <1>1, <1>5
  <2>1. RxType(c) /\ c = p[1]
    BY <1>2, <1>5, <2>0, RxByteAt
  <2>2. Checksums(p)[1] = XorBytes(0, p[1])
    <3>1. 1 \in 1 .. Len(p)
      BY <1>1
    <3> QED BY <1>3, <3>1
  <2>3. rxFn' = "size" /\ rx_current_op' = p[1] /\ rx_checksum' = Checksums(p)[1] /\ delivered' = delivered
    BY <1>1, <1>5, <2>1, <2>2 DEF RxType
  <2> QED BY <1>5, <2>3 DEF Synced
<1>6. ASSUME k = 3, rxFn = "size", rx_current_op = p[1], rx_checksum = Checksums(p)[1]
      PROVE  Synced(p, k + 1)' /\ delivered' = delivered
  <2>0. k - 1 = 2 /\ k # 1 /\ k # Len(p) + 2
    BY <1>1, <1>6
  <2>1. RxSize(c, FALSE) /\ c = p[2]
    BY <1>2, <1>6, <2>0, RxByteAt
  <2>2. Checksums(p)[2] = XorBytes(Checksums(p)[1], p[2])
    <3>1. 2 \in 1 .. Len(p)
      BY <1>1
    <3> QED BY <1>3, <3>1
  <2>3. /\ rxFn' = "payload" /\ rx_checksum' = Checksums(p)[2] /\ delivered' = delivered
        /\ rx_bytes_to_read' = Len(p) - 2 /\ rx_buffer' = <<p[1], p[2]>>
    BY <1>1, <1>6, <2>1, <2>2 DEF RxSize, HEADER
  <2>4. rx_buffer' = SubSeq(p, 1, 2)
    BY <1>1, <2>3
  <2> QED BY <1>1, <1>6, <2>3, <2>4 DEF Synced
<1>7. ASSUME k \in 4 .. Len(p) + 1, rxFn = "payload", rx_bytes_to_read = Len(p) - (k - 2),
             rx_buffer = SubSeq(p, 1, k - 2), rx_checksum = Checksums(p)[k - 2]
      PROVE  Synced(p, k + 1)' /\ delivered' = delivered
  <2>0. k # 1 /\ k # Len(p) + 2 /\ (k - 1) - 1 = k - 2 /\ (Len(p) - (k - 2)) - 1 = Len(p) - (k - 1)
        /\ (Len(p) - (k - 2) = 1 <=> k = Len(p) + 1)
    <3>1. Len(p) \in Nat /\ k \in 4 .. Len(p) + 1
      BY <1>1, <1>7
    <3> QED BY <3>1
  <2>1. RxPayload(c) /\ c = p[k - 1] /\ k - 1 \in 1 .. Len(p)
    BY <1>2, <1>7, <2>0, RxByteAt
  <2>2. Checksums(p)[k - 1] = XorBytes(Checksums(p)[k - 2], p[k - 1])
    BY <1>3, <2>0, <2>1
  <2>3. /\ rx_checksum' = Checksums(p)[k - 1] /\ delivered' = delivered
        /\ rx_bytes_to_read' = Len(p) - (k - 1) /\ rx_buffer' = Append(SubSeq(p, 1, k - 2), p[k - 1])
        /\ rxFn' = IF k = Len(p) + 1 THEN "checksum" ELSE "payload"
    BY <1>7, <2>0, <2>1, <2>2 DEF RxPayload
  <2>4. rx_buffer' = SubSeq(p, 1, k - 1)
    <3>1. Append(SubSeq(p, 1, (k - 1) - 1), p[k - 1]) = SubSeq(p, 1, k - 1)
      BY <1>1, <2>1, OneMore
    <3> QED BY <2>0, <2>3, <3>1
  <2>5. ASSUME k = Len(p) + 1 PROVE Synced(p, k + 1)'
    <3>1. k - 1 = Len(p) /\ k + 1 = Len(p) + 2
      BY <1>1, <2>5
    <3>2. SubSeq(p, 1, Len(p)) = p
      BY <1>1
    <3>3. rx_buffer' = p /\ rx_checksum' = Checksum(p) /\ rxFn' = "checksum"
      BY <2>3, <2>4, <2>5, <3>1, <3>2 DEF Checksum
    <3> QED BY <3>1, <3>3 DEF Synced
  <2>6. ASSUME k # Len(p) + 1 PROVE Synced(p, k + 1)'
    <3>1. k + 1 \in 4 .. Len(p) + 1 /\ (k + 1) - 2 = k - 1
      <4>1. Len(p) \in Nat /\ k \in 4 .. Len(p) + 1
        BY <1>1, <1>7
      <4> QED BY <2>6, <4>1
    <3> QED BY <2>3, <2>4, <2>6, <3>1 DEF Synced
  <2> QED BY <2>3, <2>5, <2>6
<1>8. ASSUME k = Len(p) + 2, rxFn = "checksum", rx_buffer = p, rx_checksum = Checksum(p)
      PROVE  rxFn' = "AA" /\ delivered' = Append(delivered, p)
  BY <1>2, <1>8, RxByteAt DEF RxChecksum
<1> QED BY <1>1, <1>4, <1>5, <1>6, <1>7, <1>8 DEF Synced

LEMMA TaintedGoes ==
  ASSUME RxTyped, NEW p \in Sendable, NEW k \in 1 .. Len(p) + 2,
         NEW e \in LineBytes \ {0}, Tainted(p, k, e),
         NEW c, c = Frame(p)[k + 1], RxByte(c, FALSE)
  PROVE  /\ delivered' = delivered
         /\ IF k = Len(p) + 2 THEN rxFn' = "AA"
                              ELSE Tainted(p, k + 1, e)' \/ (k = 3 /\ rxFn' = "AA")
<1>1. /\ p \in Seq(LineBytes) /\ Len(p) \in Nat /\ Len(p) >= 3 /\ Len(p) = p[2]
      /\ \A i \in 1 .. Len(p) : p[i] \in LineBytes
  BY SendableIs
<1>2. /\ k = Len(p) + 2 => c = Checksum(p)
      /\ k # 1 /\ k # Len(p) + 2 => c = p[k - 1] /\ k - 1 \in 1 .. Len(p)
  BY NextByte
<1>3. /\ \A n \in 0 .. Len(p) : Checksums(p)[n] \in LineBytes
      /\ \A n \in 1 .. Len(p) : Checksums(p)[n] = XorBytes(Checksums(p)[n - 1], p[n])
  BY <1>1, ChecksumsAre
<1>4. k \in 3 .. Len(p) + 2 /\ rx_checksum = XorBytes(Checksums(p)[k - 2], e)
  BY DEF Tainted
<1>5. ASSUME k # Len(p) + 2 PROVE XorBytes(rx_checksum, c) = XorBytes(Checksums(p)[k - 1], e)
  <2>1. c = p[k - 1] /\ k - 1 \in 1 .. Len(p) /\ k - 2 \in 0 .. Len(p) /\ c \in LineBytes
        /\ (k - 1) - 1 = k - 2
    BY <1>1, <1>2, <1>4, <1>5
  <2>2. PICK s \in LineBytes : s = Checksums(p)[k - 2]
    BY <1>3, <2>1
  <2>3. Checksums(p)[k - 1] = XorBytes(s, c)
    BY <1>3, <2>1, <2>2
  <2>4. XorBytes(XorBytes(s, e), c) = XorBytes(XorBytes(s, c), e)
    BY <2>1, XorLaws
  <2> QED BY <1>4, <2>2, <2>3, <2>4
<1>6. ASSUME k = 3, rxFn = "size"
      PROVE  delivered' = delivered /\ (Tainted(p, k + 1, e)' \/ rxFn' = "AA")
  <2>0. k - 1 = 2 /\ k # 1 /\ k # Len(p) + 2
    BY <1>1, <1>6
  <2>1. RxSize(c, FALSE) /\ c = p[2]
    BY <1>2, <1>6, <2>0, RxByteAt
  <2>2. delivered' = delivered
    BY <2>1 DEF RxSize
  <2>3. ASSUME rxFn' # "AA" PROVE Tainted(p, k + 1, e)'
    <3>1. /\ rxFn' = "payload" /\ rx_checksum' = XorBytes(rx_checksum, c)
          /\ rx_bytes_to_read' = c - 2
      BY <2>1, <2>3 DEF RxSize, HEADER
    <3>2. rx_checksum' = XorBytes(Checksums(p)[(k + 1) - 2], e)
      BY <1>1, <1>5, <1>6, <3>1
    <3> QED BY <1>1, <1>6, <2>1, <3>1, <3>2 DEF Tainted
  <2> QED BY <2>2, <2>3
<1>7. ASSUME k \in 4 .. Len(p) + 1, rxFn = "payload", rx_bytes_to_read = Len(p) - (k - 2)
      PROVE  delivered' = delivered /\ Tainted(p, k + 1, e)'
  <2>1. RxPayload(c)
    BY <1>7, RxByteAt
  <2>2. /\ rx_checksum' = XorBytes(Checksums(p)[(k + 1) - 2], e) /\ delivered' = delivered
        /\ rx_bytes_to_read' = Len(p) - ((k + 1) - 2)
        /\ rxFn' = IF k = Len(p) + 1 THEN "checksum" ELSE "payload"
    <3>1. k # Len(p) + 2 /\ k - 1 = (k + 1) - 2
          /\ (Len(p) - (k - 2)) - 1 = Len(p) - ((k + 1) - 2)
          /\ (Len(p) - (k - 2) = 1 <=> k = Len(p) + 1)
      BY <1>1, <1>7
    <3> QED BY <1>5, <1>7, <2>1, <3>1 DEF RxPayload
  <2>3. k + 1 \in 3 .. Len(p) + 2
    BY <1>1, <1>7
  <2>4. CASE k = Len(p) + 1
    BY <1>1, <2>2, <2>3, <2>4 DEF Tainted
  <2>5. CASE k # Len(p) + 1
    BY <1>1, <1>7, <2>2, <2>3, <2>5 DEF Tainted
  <2> QED BY <2>2, <2>4, <2>5
<1>8. ASSUME k = Len(p) + 2, rxFn = "checksum" PROVE delivered' = delivered /\ rxFn' = "AA"
  <2>1. RxChecksum(c) /\ c = Checksums(p)[Len(p)]
    BY <1>2, <1>8, RxByteAt DEF Checksum
  <2>2. k - 2 = Len(p) /\ Len(p) \in 0 .. Len(p)
    BY <1>1, <1>8
  <2>3. c \in LineBytes /\ rx_checksum = XorBytes(c, e)
    BY <1>3, <1>4, <2>1, <2>2
  <2>4. rx_checksum # c
    BY <2>3, XorLaws
  <2> QED BY <2>1, <2>4 DEF RxChecksum
<1> QED BY <1>1, <1>6, <1>7, <1>8 DEF Tainted

LEMMA PlainIs ==
  ASSUME NEW p \in Sendable, Plain(p)
  PROVE  /\ \A i \in 1 .. Len(p) : p[i] # AA
         /\ Checksum(p) # AA /\ ~(p[2] \in Installed /\ p[3] = Size[p[2]])
         /\ \A k \in 1 .. Len(p) + 2 : Frame(p)[k + 1] # AA
<1>1. p \in Seq(LineBytes) /\ Len(p) \in Nat
  BY SendableIs
<1>2. PICK x \in LineBytes : x = Checksum(p)
  BY FrameIs
<1>3. PICK q \in Seq(LineBytes) : q = Append(p, x)
  <2>1. Append(p, x) \in Seq(LineBytes)
    BY <1>1
  <2> QED BY <2>1
<1>4. Len(q) = Len(p) + 1 /\ q[Len(p) + 1] = x /\ \A i \in 1 .. Len(p) : q[i] = p[i]
  BY <1>1, <1>3
<1>5. \A i \in 1 .. Len(q) : q[i] # AA
  <2>1. AA \notin ToSet(q)
    BY <1>2, <1>3 DEF Plain
  <2> QED BY <2>1 DEF ToSet
<1>6. \A i \in 1 .. Len(p) : p[i] # AA
  BY <1>1, <1>4, <1>5
<1>7. x # AA
  BY <1>1, <1>4, <1>5
<1>8. ASSUME NEW k \in 1 .. Len(p) + 2 PROVE Frame(p)[k + 1] # AA
  BY <1>2, <1>6, <1>7, NextByte, BytesAssumption
<1> QED BY <1>2, <1>6, <1>7, <1>8 DEF Plain

LEMMA BehindGoes ==
  ASSUME RxTyped, NEW p \in Sendable, Plain(p), NEW k \in 1 .. Len(p) + 2,
         NEW l \in LineBytes \ {AA}, Behind(p, k, l),
         NEW c, c = Frame(p)[k + 1], RxByte(c, FALSE)
  PROVE  /\ delivered' = delivered
         /\ IF k = Len(p) + 2 THEN rxFn' = "checksum" /\ rx_checksum' # AA
                              ELSE (\E m \in LineBytes \ {AA} : Behind(p, k + 1, m)') \/ rxFn' = "AA"
<1>1. /\ p \in Seq(LineBytes) /\ Len(p) \in Nat /\ Len(p) >= 3 /\ Len(p) = p[2]
      /\ p[1] \in Installed /\ p[2] = Size[p[1]] /\ p[2] \in LineBytes /\ p[3] \in LineBytes
  BY SendableIs
<1>2. /\ k = Len(p) + 2 => c = Checksum(p)
      /\ k # 1 /\ k # Len(p) + 2 => c = p[k - 1] /\ k - 1 \in 1 .. Len(p)
      /\ c \in LineBytes
  BY NextByte
<1>3. /\ \A n \in 0 .. Len(p) : Checksums(p)[n] \in LineBytes
      /\ \A n \in 1 .. Len(p) : Checksums(p)[n] = XorBytes(Checksums(p)[n - 1], p[n])
  BY <1>1, ChecksumsAre
<1>4. rx_checksum \in LineBytes
  BY DEF RxTyped
<1>5. ASSUME k = 2, rxFn = "55"
      PROVE  delivered' = delivered /\ ((\E m \in LineBytes \ {AA} : Behind(p, k + 1, m)') \/ rxFn' = "AA")
  <2>1. Rx55(c)
    BY <1>5, RxByteAt
  <2>2. delivered' = delivered /\ rxFn' \in {"type", "AA"}
    BY <2>1 DEF Rx55
  <2>3. rxFn' = "type" => Behind(p, k + 1, l)'
    BY <1>5 DEF Behind
  <2> QED BY <2>2, <2>3
<1>6. ASSUME k = 3, rxFn = "type"
      PROVE  delivered' = delivered /\ ((\E m \in LineBytes \ {AA} : Behind(p, k + 1, m)') \/ rxFn' = "AA")
  <2>1. k - 1 = 2 /\ k # 1 /\ k # Len(p) + 2
    BY <1>1, <1>6
  <2>2. RxType(c) /\ c = p[2]
    BY <1>2, <1>6, <2>1, RxByteAt
  <2>3. delivered' = delivered /\ (rxFn' = "AA" \/ (rxFn' = "size" /\ rx_current_op' = p[2]))
    BY <2>2 DEF RxType
  <2>4. rxFn' = "size" /\ rx_current_op' = p[2] => Behind(p, k + 1, l)'
    BY <1>6 DEF Behind
  <2> QED BY <2>3, <2>4
<1>7. ASSUME k = 4, rxFn = "size", rx_current_op = p[2]
      PROVE  delivered' = delivered /\ rxFn' = "AA"
  <2>1. k - 1 = 3 /\ k # 1 /\ k # Len(p) + 2
    BY <1>1, <1>7
  <2>2. RxSize(c, FALSE) /\ c = p[3]
    BY <1>2, <1>7, <2>1, RxByteAt
  <2>3. rx_current_op \in Installed
    BY <1>7 DEF RxTyped
  <2>4. c # Size[rx_current_op]
    BY <1>7, <2>2, <2>3, PlainIs
  <2> QED BY <2>2, <2>4 DEF RxSize
<1>8. ASSUME k = 4, rxFn = "size", rx_current_op = p[1],
             l = p[2], XorBytes(rx_checksum, l) = Checksums(p)[2]
      PROVE  delivered' = delivered /\ ((\E m \in LineBytes \ {AA} : Behind(p, k + 1, m)') \/ rxFn' = "AA")
  <2>1. k - 1 = 3 /\ k # 1 /\ k # Len(p) + 2 /\ 3 \in 1 .. Len(p) /\ 2 \in 0 .. Len(p)
    BY <1>1, <1>8
  <2>2. RxSize(c, FALSE) /\ c = p[3]
    BY <1>2, <1>8, <2>1, RxByteAt
  <2>3. ASSUME rxFn' # "AA" PROVE Behind(p, k + 1, l)'
    <3>1. /\ rxFn' = "payload" /\ rx_checksum' = XorBytes(rx_checksum, c)
          /\ rx_bytes_to_read' = c - 2 /\ c = p[2]
      BY <1>1, <1>8, <2>2, <2>3 DEF RxSize, HEADER
    <3>2. Checksums(p)[3] = XorBytes(Checksums(p)[2], p[3])
      BY <1>3, <2>1
    <3>3. XorBytes(rx_checksum', l) = Checksums(p)[3]
      BY <1>1, <1>4, <1>8, <2>2, <3>1, <3>2, XorLaws
    <3>4. k + 1 = 5 /\ k + 1 \in 5 .. Len(p) + 2 /\ (k + 1) - 2 = 3
          /\ Len(p) - ((k + 1) - 3) = c - 2
      BY <1>1, <1>8, <3>1
    <3> QED BY <3>1, <3>3, <3>4 DEF Behind
  <2>4. delivered' = delivered
    BY <2>2 DEF RxSize
  <2> QED BY <2>3, <2>4
<1>9. ASSUME k \in 5 .. Len(p) + 2, rxFn = "payload", rx_bytes_to_read = Len(p) - (k - 3),
             XorBytes(rx_checksum, l) = Checksums(p)[k - 2]
      PROVE  /\ delivered' = delivered
             /\ IF k = Len(p) + 2 THEN rxFn' = "checksum" /\ rx_checksum' # AA
                                  ELSE Behind(p, k + 1, l)'
  <2>1. RxPayload(c)
    BY <1>9, RxByteAt
  <2>2. Len(p) \in Nat /\ k \in 5 .. Len(p) + 2
    BY <1>1, <1>9
  <2>3. /\ k # 1 /\ k - 2 \in 0 .. Len(p) /\ (k - 1) - 1 = k - 2 /\ (k + 1) - 2 = k - 1
        /\ (Len(p) - (k - 3)) - 1 = Len(p) - ((k + 1) - 3)
        /\ (Len(p) - (k - 3) = 1 <=> k = Len(p) + 2)
        /\ (k # Len(p) + 2 => k + 1 \in 5 .. Len(p) + 2)
        /\ (k = Len(p) + 2 => k - 2 = Len(p))
    BY <2>2
  <2>4. /\ delivered' = delivered /\ rx_checksum' = XorBytes(rx_checksum, c)
        /\ rx_bytes_to_read' = Len(p) - ((k + 1) - 3)
        /\ rxFn' = IF k = Len(p) + 2 THEN "checksum" ELSE "payload"
    BY <1>9, <2>1, <2>3 DEF RxPayload
  <2>5. ASSUME k = Len(p) + 2 PROVE rx_checksum' # AA
    <3>1. c = XorBytes(rx_checksum, l)
      BY <1>2, <1>9, <2>3, <2>5 DEF Checksum
    <3>2. rx_checksum' = l
      BY <1>4, <2>4, <3>1, XorLaws
    <3> QED BY <3>2
  <2>6. ASSUME k # Len(p) + 2 PROVE Behind(p, k + 1, l)'
    <3>1. c = p[k - 1] /\ Checksums(p)[k - 1] = XorBytes(Checksums(p)[k - 2], c)
      BY <1>2, <1>3, <2>3, <2>6
    <3>2. XorBytes(rx_checksum', l) = Checksums(p)[k - 1]
      BY <1>2, <1>4, <1>9, <2>4, <3>1, XorLaws
    <3> QED BY <2>3, <2>4, <2>6, <3>2 DEF Behind
  <2> QED BY <2>4, <2>5, <2>6
<1>10. k = 2 \/ k = 3 \/ k = 4 => k # Len(p) + 2
  BY <1>1
<1> QED BY <1>5, <1>6, <1>7, <1>8, <1>9, <1>10 DEF Behind

-----------------------------------------------------------------------------
(* What a fault does to a receiver that is where it should be              *)

LEMMA SyncedCorrupted ==
  ASSUME RxTyped, NEW p \in Sendable, NEW k \in 1 .. Len(p) + 2, Synced(p, k),
         NEW c \in LineBytes, c # Frame(p)[k + 1], RxByte(c, FALSE)
  PROVE  /\ delivered' = delivered
         /\ IF k = Len(p) + 2 THEN rxFn = "checksum" /\ rxFn' = "AA"
                              ELSE \/ (\E e \in LineBytes \ {0} : Tainted(p, k + 1, e)')
                                      /\ (k = 2 => rxFn = "type")
                                   \/ rxFn' = "AA" /\ rxFn \notin {"payload", "checksum"}
<1>1. /\ p \in Seq(LineBytes) /\ Len(p) \in Nat /\ Len(p) >= 3 /\ Len(p) = p[2]
      /\ p[1] \in Installed /\ p[2] = Size[p[1]] /\ p[1] \in LineBytes
      /\ \A i \in 1 .. Len(p) : p[i] \in LineBytes
  BY SendableIs
<1>2. /\ k = 1 => c # FIVE
      /\ k = Len(p) + 2 => c # Checksum(p)
      /\ k # 1 /\ k # Len(p) + 2 => c # p[k - 1] /\ k - 1 \in 1 .. Len(p)
  BY NextByte
<1>3. /\ Checksums(p)[0] = 0 /\ \A n \in 0 .. Len(p) : Checksums(p)[n] \in LineBytes
      /\ \A n \in 1 .. Len(p) : Checksums(p)[n] = XorBytes(Checksums(p)[n - 1], p[n])
  BY <1>1, ChecksumsAre
<1>4. ASSUME k = 1, rxFn = "55" PROVE delivered' = delivered /\ rxFn' = "AA"
  <2>1. Rx55(c) /\ c # FIVE
    BY <1>2, <1>4, RxByteAt
  <2> QED BY <2>1 DEF Rx55
<1>5. ASSUME k = 2, rxFn = "type", rx_checksum = 0
      PROVE  delivered' = delivered
             /\ ((\E e \in LineBytes \ {0} : Tainted(p, k + 1, e)') \/ rxFn' = "AA")
  <2>1. k - 1 = 1 /\ k # 1 /\ k # Len(p) + 2 /\ 1 \in 1 .. Len(p) /\ 0 \in 0 .. Len(p)
        /\ (k + 1) - 2 = 1 /\ k + 1 = 3 /\ 3 \in 3 .. Len(p) + 2
    BY <1>1, <1>5
  <2>2. RxType(c) /\ c # p[1]
    BY <1>2, <1>5, <2>1, RxByteAt
  <2>3. ASSUME rxFn' # "AA" PROVE \E e \in LineBytes \ {0} : Tainted(p, k + 1, e)'
    <3>1. rxFn' = "size" /\ rx_checksum' = XorBytes(0, c)
      BY <1>5, <2>2, <2>3 DEF RxType
    <3>2. XorBytes(0, c) = c /\ XorBytes(0, p[1]) = p[1]
      BY <1>1, XorIs
    <3>3. Checksums(p)[1] = p[1]
      BY <1>3, <2>1, <3>2
    <3>4. PICK e \in LineBytes : e = XorBytes(p[1], c)
      BY <1>1, XorIs
    <3>5. e # 0 /\ XorBytes(p[1], e) = c
      BY <1>1, <2>2, <3>4, XorLaws
    <3>6. Tainted(p, k + 1, e)'
      BY <2>1, <3>1, <3>2, <3>3, <3>5 DEF Tainted
    <3> QED BY <3>5, <3>6
  <2>4. delivered' = delivered
    BY <2>2 DEF RxType
  <2> QED BY <2>3, <2>4
<1>6. ASSUME k = 3, rxFn = "size", rx_current_op = p[1]
      PROVE  delivered' = delivered /\ rxFn' = "AA"
  <2>1. k - 1 = 2 /\ k # 1 /\ k # Len(p) + 2
    BY <1>1, <1>6
  <2>2. RxSize(c, FALSE) /\ c # p[2]
    BY <1>2, <1>6, <2>1, RxByteAt
  <2> QED BY <1>1, <1>6, <2>2 DEF RxSize
<1>7. ASSUME k \in 4 .. Len(p) + 1, rxFn = "payload", rx_bytes_to_read = Len(p) - (k - 2),
             rx_checksum = Checksums(p)[k - 2]
      PROVE  delivered' = delivered /\ \E e \in LineBytes \ {0} : Tainted(p, k + 1, e)'
  <2>1. RxPayload(c)
    BY <1>7, RxByteAt
  <2>2. Len(p) \in Nat /\ k \in 4 .. Len(p) + 1
    BY <1>1, <1>7
  <2>3. /\ k # 1 /\ k # Len(p) + 2 /\ k - 2 \in 0 .. Len(p) /\ k - 1 \in 1 .. Len(p)
        /\ (k - 1) - 1 = k - 2 /\ (k + 1) - 2 = k - 1
        /\ (Len(p) - (k - 2)) - 1 = Len(p) - ((k + 1) - 2)
        /\ (Len(p) - (k - 2) = 1 <=> k = Len(p) + 1)
        /\ k + 1 \in 3 .. Len(p) + 2
        /\ (k # Len(p) + 1 => k + 1 \in 4 .. Len(p) + 1)
        /\ (k = Len(p) + 1 => k + 1 = Len(p) + 2)
    BY <2>2
  <2>4. PICK s \in LineBytes : s = Checksums(p)[k - 2]
    BY <1>3, <2>3
  <2>5. PICK b \in LineBytes : b = p[k - 1]
    BY <1>1, <2>3
  <2>6. Checksums(p)[k - 1] = XorBytes(s, b) /\ b # c
    BY <1>2, <1>3, <2>3, <2>4, <2>5
  <2>7. PICK e \in LineBytes : e = XorBytes(b, c)
    BY XorIs
  <2>8. e # 0 /\ XorBytes(b, e) = c
    BY <2>6, <2>7, XorLaws
  <2>9. XorBytes(XorBytes(s, b), e) = XorBytes(s, c)
    BY <2>8, XorIs
  <2>10. /\ delivered' = delivered /\ rx_checksum' = XorBytes(s, c)
         /\ rx_bytes_to_read' = Len(p) - ((k + 1) - 2)
         /\ rxFn' = IF k = Len(p) + 1 THEN "checksum" ELSE "payload"
    BY <1>7, <2>1, <2>3, <2>4 DEF RxPayload
  <2>11. rx_checksum' = XorBytes(Checksums(p)[(k + 1) - 2], e)
    BY <2>3, <2>6, <2>9, <2>10
  <2>12. Tainted(p, k + 1, e)'
    <3>1. CASE k = Len(p) + 1
      BY <2>3, <2>10, <2>11, <3>1 DEF Tainted
    <3>2. CASE k # Len(p) + 1
      BY <2>3, <2>10, <2>11, <3>2 DEF Tainted
    <3> QED BY <3>1, <3>2
  <2> QED BY <2>8, <2>10, <2>12
<1>8. ASSUME k = Len(p) + 2, rxFn = "checksum", rx_checksum = Checksum(p)
      PROVE  delivered' = delivered /\ rxFn' = "AA"
  BY <1>2, <1>8, RxByteAt DEF RxChecksum
<1>9. /\ k \in {1, 2, 3} => k # Len(p) + 2
      /\ k \in 4 .. Len(p) + 1 => k # Len(p) + 2 /\ k # 2
      /\ k = Len(p) + 2 => k \notin {1, 2, 3} /\ k \notin 4 .. Len(p) + 1
  BY <1>1
<1> QED BY <1>4, <1>5, <1>6, <1>7, <1>8, <1>9 DEF Synced

LEMMA SyncedLoses ==
  ASSUME RxTyped, NEW p \in Sendable, Plain(p), NEW k \in 1 .. Len(p) + 2, Synced(p, k),
         UNCHANGED rxVars
  PROVE  IF k = Len(p) + 2 THEN rxFn' = "checksum" /\ rx_checksum' # AA
                           ELSE \E l \in LineBytes \ {AA} : Behind(p, k + 1, l)'
<1>1. /\ p \in Seq(LineBytes) /\ Len(p) \in Nat /\ Len(p) >= 3
      /\ p[1] \in LineBytes /\ p[2] \in LineBytes /\ \A i \in 1 .. Len(p) : p[i] \in LineBytes
  BY SendableIs
<1>2. /\ \A n \in 0 .. Len(p) : Checksums(p)[n] \in LineBytes
      /\ \A n \in 1 .. Len(p) : Checksums(p)[n] = XorBytes(Checksums(p)[n - 1], p[n])
  BY <1>1, ChecksumsAre
<1>3. \A i \in 1 .. Len(p) : p[i] \in LineBytes \ {AA}
  BY <1>1, PlainIs
<1>4. PICK d \in LineBytes : d # AA
  BY BytesAssumption
<1>5. UNCHANGED <<rxFn, rx_checksum, rx_current_op, rx_bytes_to_read>>
  BY DEF rxVars
<1>6. ASSUME k = 1, rxFn = "55" PROVE Behind(p, k + 1, d)'
  BY <1>5, <1>6 DEF Behind
<1>7. ASSUME k = 2, rxFn = "type" PROVE Behind(p, k + 1, d)'
  BY <1>5, <1>7 DEF Behind
<1>8. ASSUME k = 3, rxFn = "size", rx_current_op = p[1], rx_checksum = Checksums(p)[1]
      PROVE  \E l \in LineBytes \ {AA} : Behind(p, k + 1, l)'
  <2>1. 2 \in 1 .. Len(p) /\ 2 - 1 = 1 /\ k + 1 = 4
    BY <1>1, <1>8
  <2>2. Checksums(p)[2] = XorBytes(Checksums(p)[1], p[2]) /\ p[2] \in LineBytes \ {AA}
    BY <1>2, <1>3, <2>1
  <2>3. Behind(p, k + 1, p[2])'
    BY <1>5, <1>8, <2>1, <2>2 DEF Behind
  <2> QED BY <2>2, <2>3
<1>9. ASSUME k \in 4 .. Len(p) + 1, rxFn = "payload", rx_bytes_to_read = Len(p) - (k - 2),
             rx_checksum = Checksums(p)[k - 2]
      PROVE  \E l \in LineBytes \ {AA} : Behind(p, k + 1, l)'
  <2>1. Len(p) \in Nat /\ k \in 4 .. Len(p) + 1
    BY <1>1, <1>9
  <2>2. /\ k - 1 \in 1 .. Len(p) /\ (k - 1) - 1 = k - 2 /\ (k + 1) - 2 = k - 1
        /\ (k + 1) - 3 = k - 2 /\ k + 1 \in 5 .. Len(p) + 2
    BY <2>1
  <2>3. PICK l \in LineBytes \ {AA} : l = p[k - 1]
    BY <1>3, <2>2
  <2>4. Checksums(p)[k - 1] = XorBytes(Checksums(p)[k - 2], l)
    BY <1>2, <2>2, <2>3
  <2>5. Behind(p, k + 1, l)'
    BY <1>5, <1>9, <2>2, <2>4 DEF Behind
  <2> QED BY <2>5
<1>10. ASSUME k = Len(p) + 2, rxFn = "checksum", rx_checksum = Checksum(p)
       PROVE  rxFn' = "checksum" /\ rx_checksum' # AA
  BY <1>5, <1>10, PlainIs
<1>11. /\ k \in {1, 2, 3} => k # Len(p) + 2
       /\ k \in 4 .. Len(p) + 1 => k # Len(p) + 2
  BY <1>1
<1> QED BY <1>4, <1>6, <1>7, <1>8, <1>9, <1>10, <1>11 DEF Synced

-----------------------------------------------------------------------------
(* The receiver on a line that has done what the properties speak of       *)

\* k bytes of the frame of p, the f-th, have come, others have not.  Of the packets
\* before, m are lost, from the h-th; the receiver is where it should be, takes a wrong
\* packet, is one byte behind or has given the frame up.
InFrame(p, f, k, h, m) ==
  \/ Synced(p, k) /\ Kept(f - 1, h, m) /\ (m = 0 <=> faults = <<>>) /\ (WrongByte => m = 1)
  \/ /\ faults # <<>> /\ m = 0 /\ Kept(f - 1, h, 0) /\ (k = 3 => ~WrongByte)
     /\ \E e \in LineBytes \ {0} : Tainted(p, k, e)
  \/ /\ faults # <<>> /\ m = 0 /\ Kept(f - 1, h, 0) /\ ~WrongByte
     /\ \E l \in LineBytes \ {AA} : Behind(p, k, l)
  \/ /\ faults # <<>> /\ m \in 0 .. 1 /\ Kept(f - 1, h, m) /\ ~WrongByte
     /\ (m = 1 => h = f - 1) /\ rxFn = "AA"

\* The f-th frame is over: the receiver waits for the next one, or, one byte behind, for
\* the checksum.
Between(f, h, m) ==
  \/ rxFn = "AA" /\ Kept(f, h, m) /\ (m = 0 <=> faults = <<>>) /\ (WrongByte => m = 1)
  \/ /\ faults # <<>> /\ m = 0 /\ f # 0 /\ Kept(f - 1, h, 0) /\ ~WrongByte
     /\ rxFn = "checksum" /\ rx_checksum # AA

OnLine ==
  \E f, k, h \in Nat, m \in 0 .. 2 :
    /\ Place(f, k)
    /\ IF Left(f, k) = 0 THEN Between(f, h, m)
       ELSE \E p \in Sendable : p = sent[f] /\ InFrame(p, f, k, h, m)

Usable ==
  \/ faults = <<>>
  \/ Len(faults) = 1 /\ (WrongByte \/ \A p \in ToSet(sent) : Plain(p))
LineInv == Usable => OnLine

LEMMA KeptAt ==
  ASSUME NEW g \in Nat, NEW h, NEW m, Kept(g, h, m)
  PROVE  h \in Nat /\ m \in 0 .. 2
BY DEF Kept

LEMMA FrameGoes ==
  ASSUME RxTypeInv, NEW f \in Nat, NEW k \in Nat, Place(f, k), Left(f, k) # 0,
         NEW p \in Sendable, p = sent[f], wire # <<>>, wire' = Tail(wire), sent' = sent
  PROVE  /\ f \in 1 .. Len(sent) /\ k \in 1 .. Len(p) + 2 /\ Head(wire) = Frame(p)[k + 1]
         /\ \A h \in Nat, m \in 0 .. 2 :
              (IF k = Len(p) + 2 THEN Between(f, h, m)' ELSE InFrame(p, f, k + 1, h, m)') => OnLine'
<1>1. /\ Left(f, k) \in Nat
      /\ f # 0 => f \in 1 .. Len(sent) /\ k >= 1 /\ Left(f, k) = Len(sent[f]) + 3 - k
      /\ f = 0 => k = 0 /\ Left(f, k) = 0
  BY PlaceTyped
<1>2. Len(p) \in Nat
  BY SendableIs
<1>3. f # 0 /\ f \in 1 .. Len(sent) /\ Left(f, k) = Len(p) + 3 - k /\ k \in 1 .. Len(p) + 2
  BY <1>1, <1>2
<1>4. Head(wire) = Frame(p)[k + 1] /\ Place(f, k + 1)'
  BY <1>1, PlaceGoes
<1>5. Left(f, k + 1)' = Len(p) + 3 - (k + 1)
  BY <1>3 DEF Left
<1>6. Left(f, k + 1)' = 0 <=> k = Len(p) + 2
  BY <1>2, <1>3, <1>5
<1>7. ASSUME NEW h \in Nat, NEW m \in 0 .. 2,
             IF k = Len(p) + 2 THEN Between(f, h, m)' ELSE InFrame(p, f, k + 1, h, m)'
      PROVE  OnLine'
  <2>1. k + 1 \in Nat /\ p = sent'[f]
    OBVIOUS
  <2> QED BY <1>4, <1>6, <1>7, <2>1 DEF OnLine
<1> QED BY <1>3, <1>4, <1>7

LEMMA FrameBegins ==
  ASSUME RxTypeInv, NEW f \in Nat, NEW k \in Nat, Place(f, k), Left(f, k) = 0,
         wire # <<>>, wire' = Tail(wire), sent' = sent
  PROVE  /\ f + 1 \in 1 .. Len(sent) /\ Head(wire) = AA /\ sent[f + 1] \in Sendable
         /\ \A p \in Sendable, h \in Nat, m \in 0 .. 2 :
              p = sent[f + 1] /\ InFrame(p, f + 1, 1, h, m)' => OnLine'
<1>1. /\ Head(wire) = AA /\ f + 1 \in 1 .. Len(sent)
      /\ Place(f + 1, 1)' /\ Left(f + 1, 1) = Len(sent[f + 1]) + 2
  BY PlaceGoes
<1>2. sent[f + 1] \in Sendable /\ Len(sent[f + 1]) \in Nat
  BY <1>1, SentIs
<1>3. Left(f + 1, 1)' = Left(f + 1, 1) /\ Left(f + 1, 1) # 0
  BY <1>1, <1>2 DEF Left
<1>4. ASSUME NEW p \in Sendable, NEW h \in Nat, NEW m \in 0 .. 2, p = sent[f + 1],
             InFrame(p, f + 1, 1, h, m)'
      PROVE  OnLine'
  <2>1. f + 1 \in Nat /\ 1 \in Nat /\ p = sent'[f + 1]
    BY <1>4
  <2> QED BY <1>1, <1>3, <1>4, <2>1 DEF OnLine
<1> QED BY <1>1, <1>2, <1>4

\* A good byte of a frame
LEMMA FrameReceives ==
  ASSUME RxTypeInv, NEW f \in 1 .. Len(sent), NEW p \in Sendable, p = sent[f],
         NEW k \in 1 .. Len(p) + 2, NEW h \in Nat, NEW m \in 0 .. 2, InFrame(p, f, k, h, m),
         faults # <<>> /\ ~WrongByte => Plain(p),
         NEW c, c = Frame(p)[k + 1], RxByte(c, FALSE), sent' = sent, faults' = faults
  PROVE  \E i \in Nat, n \in 0 .. 2 :
           IF k = Len(p) + 2 THEN Between(f, i, n)' ELSE InFrame(p, f, k + 1, i, n)'
<1>0. RxTyped /\ Len(sent) \in Nat
  BY DEF RxTypeInv
<1>1. f - 1 \in Nat /\ f - 1 \in 0 .. Len(sent) /\ (f - 1) + 1 = f /\ f \in 0 .. Len(sent) /\ f # 0
      /\ f \in Nat
  BY <1>0
<1>2. \A i \in 1 .. Len(sent) : sent'[i] = sent[i]
  OBVIOUS
<1>3. /\ WrongByte' <=> WrongByte
      /\ faults' = <<>> <=> faults = <<>>
  BY DEF WrongByte
<1>4. ASSUME NEW n \in 0 .. 2, Kept(f - 1, h, n), delivered' = delivered PROVE Kept(f - 1, h, n)'
  BY <1>1, <1>2, <1>4, KeptStays
<1>5. ASSUME NEW n \in 0 .. 1, Kept(f - 1, h, n), n = 0 \/ h = f - 1, delivered' = delivered,
             faults # <<>>, WrongByte => n = 0, rxFn' = "AA"
      PROVE  \E i \in Nat, j \in 0 .. 2 : Between(f, i, j)'
  <2>1. PICK i \in Nat : Kept(f, i, n + 1)'
    BY <1>1, <1>5, KeptLoses
  <2>2. n + 1 \in 0 .. 2 /\ n + 1 # 0 /\ (n = 0 => n + 1 = 1)
    OBVIOUS
  <2>3. Between(f, i, n + 1)'
    BY <1>3, <1>5, <2>1, <2>2 DEF Between
  <2> QED BY <2>2, <2>3
<1>6. ASSUME Synced(p, k), Kept(f - 1, h, m), (m = 0 <=> faults = <<>>), WrongByte => m = 1
      PROVE  IF k = Len(p) + 2 THEN Between(f, h, m)' ELSE InFrame(p, f, k + 1, h, m)'
  <2>1. IF k = Len(p) + 2 THEN rxFn' = "AA" /\ delivered' = Append(delivered, p)
                          ELSE Synced(p, k + 1)' /\ delivered' = delivered
    BY <1>0, <1>6, SyncedGoes
  <2>2. ASSUME k = Len(p) + 2 PROVE Between(f, h, m)'
    <3>1. Kept((f - 1) + 1, h, m)'
      <4>1. delivered' = Append(delivered, sent[(f - 1) + 1]) /\ (f - 1) + 1 <= Len(sent)
        BY <1>0, <1>1, <2>1, <2>2
      <4> QED BY <1>1, <1>6, <4>1, KeptDelivers
    <3> QED BY <1>1, <1>3, <1>6, <2>1, <2>2, <3>1 DEF Between
  <2>3. ASSUME k # Len(p) + 2 PROVE InFrame(p, f, k + 1, h, m)'
    BY <1>3, <1>4, <1>6, <2>1, <2>3 DEF InFrame
  <2> QED BY <2>2, <2>3
<1>7. ASSUME faults # <<>>, m = 0, Kept(f - 1, h, 0), k = 3 => ~WrongByte,
             NEW e \in LineBytes \ {0}, Tainted(p, k, e)
      PROVE  \E i \in Nat, n \in 0 .. 2 :
               IF k = Len(p) + 2 THEN Between(f, i, n)' ELSE InFrame(p, f, k + 1, i, n)'
  <2>1. /\ delivered' = delivered
        /\ IF k = Len(p) + 2 THEN rxFn' = "AA"
                             ELSE Tainted(p, k + 1, e)' \/ (k = 3 /\ rxFn' = "AA")
    BY <1>0, <1>7, TaintedGoes
  <2>2. k = Len(p) + 2 => \E i \in Nat, n \in 0 .. 2 : Between(f, i, n)'
    BY <1>5, <1>7, <2>1
  <2>3. ASSUME k # Len(p) + 2 PROVE InFrame(p, f, k + 1, h, 0)'
    <3>1. k \in 3 .. Len(p) + 2
      BY <1>7 DEF Tainted
    <3>2. k + 1 # 3 /\ Kept(f - 1, h, 0)'
      BY <1>4, <1>7, <2>1, <3>1
    <3> QED BY <1>3, <1>7, <2>1, <2>3, <3>2 DEF InFrame
  <2> QED BY <2>2, <2>3
<1>8. ASSUME faults # <<>>, m = 0, Kept(f - 1, h, 0), ~WrongByte,
             NEW l \in LineBytes \ {AA}, Behind(p, k, l)
      PROVE  IF k = Len(p) + 2 THEN Between(f, h, 0)' ELSE InFrame(p, f, k + 1, h, 0)'
  <2>1. /\ delivered' = delivered
        /\ IF k = Len(p) + 2 THEN rxFn' = "checksum" /\ rx_checksum' # AA
                             ELSE (\E n \in LineBytes \ {AA} : Behind(p, k + 1, n)') \/ rxFn' = "AA"
    BY <1>0, <1>8, BehindGoes
  <2>2. Kept(f - 1, h, 0)'
    BY <1>4, <1>8, <2>1
  <2>3. ASSUME k = Len(p) + 2 PROVE Between(f, h, 0)'
    BY <1>1, <1>3, <1>8, <2>1, <2>2, <2>3 DEF Between
  <2>4. ASSUME k # Len(p) + 2 PROVE InFrame(p, f, k + 1, h, 0)'
    BY <1>3, <1>8, <2>1, <2>2, <2>4 DEF InFrame
  <2> QED BY <2>3, <2>4
<1>9. ASSUME faults # <<>>, m \in 0 .. 1, Kept(f - 1, h, m), ~WrongByte,
             m = 1 => h = f - 1, rxFn = "AA"
      PROVE  \E i \in Nat, n \in 0 .. 2 :
               IF k = Len(p) + 2 THEN Between(f, i, n)' ELSE InFrame(p, f, k + 1, i, n)'
  <2>1. RxAA(c) /\ c # AA
    BY <1>9, RxByteAt, PlainIs
  <2>2. delivered' = delivered /\ rxFn' = "AA"
    BY <2>1 DEF RxAA
  <2>3. k = Len(p) + 2 => \E i \in Nat, n \in 0 .. 2 : Between(f, i, n)'
    BY <1>5, <1>9, <2>2
  <2>4. k # Len(p) + 2 => InFrame(p, f, k + 1, h, m)'
    BY <1>3, <1>4, <1>9, <2>2 DEF InFrame
  <2> QED BY <2>3, <2>4
<1> QED BY <1>6, <1>7, <1>8, <1>9 DEF InFrame

\* A fault in a frame, the first
LEMMA FrameFaulty ==
  ASSUME RxTypeInv, NEW f \in 1 .. Len(sent), NEW p \in Sendable, p = sent[f],
         NEW k \in 1 .. Len(p) + 2, NEW h \in Nat, NEW m \in 0 .. 2, InFrame(p, f, k, h, m),
         faults = <<>>, ~WrongByte' => Plain(p), sent' = sent,
         \/ \E c \in LineBytes \ {Frame(p)[k + 1]} : RxByte(c, FALSE) /\ Fault("corrupt", c)
         \/ Fault("lose", Frame(p)[k + 1]) /\ UNCHANGED <<rxVars, delivered>>
         \/ rxFn = "size" /\ RxSize(Frame(p)[k + 1], TRUE) /\ Fault("refuse", Frame(p)[k + 1])
  PROVE  \E i \in Nat, n \in 0 .. 2 :
           IF k = Len(p) + 2 THEN Between(f, i, n)' ELSE InFrame(p, f, k + 1, i, n)'
<1>0. RxTyped /\ Len(sent) \in Nat
  BY DEF RxTypeInv
<1>1. f - 1 \in Nat /\ f - 1 \in 0 .. Len(sent) /\ (f - 1) + 1 = f /\ f \in 0 .. Len(sent) /\ f # 0
      /\ f \in Nat
  BY <1>0
<1>2. \A i \in 1 .. Len(sent) : sent'[i] = sent[i]
  OBVIOUS
<1>3. Synced(p, k) /\ m = 0 /\ Kept(f - 1, h, 0)
  BY DEF InFrame
<1>4. Frame(p)[k + 1] \in LineBytes
  BY NextByte
<1>5. ASSUME NEW kind \in {"corrupt", "lose", "refuse"}, NEW b \in LineBytes, Fault(kind, b)
      PROVE  faults' # <<>> /\ (WrongByte' <=> kind = "corrupt" /\ rxFn \in {"payload", "checksum"})
  <2>1. /\ faults' # <<>> /\ Len(faults') = Len(faults) + 1
        /\ faults'[1] = [kind |-> kind, byte |-> b, at |-> rxFn]
    BY <1>5, FaultRecorded
  <2>2. Len(faults') = 1 /\ faults'[1].kind = kind /\ faults'[1].at = rxFn
    BY <2>1
  <2> QED BY <2>1, <2>2 DEF WrongByte
<1>6. ASSUME delivered' = delivered PROVE Kept(f - 1, h, 0)'
  BY <1>1, <1>2, <1>3, <1>6, KeptStays
<1>7. ASSUME NEW c \in LineBytes \ {Frame(p)[k + 1]}, RxByte(c, FALSE), Fault("corrupt", c)
      PROVE  \E i \in Nat, n \in 0 .. 2 :
               IF k = Len(p) + 2 THEN Between(f, i, n)' ELSE InFrame(p, f, k + 1, i, n)'
  <2>1. /\ delivered' = delivered
        /\ IF k = Len(p) + 2 THEN rxFn = "checksum" /\ rxFn' = "AA"
                             ELSE \/ (\E e \in LineBytes \ {0} : Tainted(p, k + 1, e)')
                                     /\ (k = 2 => rxFn = "type")
                                  \/ rxFn' = "AA" /\ rxFn \notin {"payload", "checksum"}
    BY <1>0, <1>3, <1>7, SyncedCorrupted
  <2>2. faults' # <<>> /\ (WrongByte' <=> rxFn \in {"payload", "checksum"})
    BY <1>5, <1>7
  <2>3. ASSUME k = Len(p) + 2 PROVE \E i \in Nat : Between(f, i, 1)'
    <3>1. PICK i \in Nat : Kept((f - 1) + 1, i, 0 + 1)'
      BY <1>1, <1>3, <2>1, KeptLoses
    <3>2. Kept(f, i, 1)'
      BY <1>1, <3>1
    <3>3. Between(f, i, 1)'
      BY <2>1, <2>2, <2>3, <3>2 DEF Between
    <3> QED BY <3>3
  <2>4. ASSUME k # Len(p) + 2 PROVE InFrame(p, f, k + 1, h, 0)'
    <3>1. Kept(f - 1, h, 0)' /\ (k + 1 = 3 => k = 2)
      BY <1>6, <2>1
    <3> QED BY <2>1, <2>2, <2>4, <3>1 DEF InFrame
  <2> QED BY <2>3, <2>4
<1>8. ASSUME Fault("lose", Frame(p)[k + 1]), UNCHANGED <<rxVars, delivered>>
      PROVE  IF k = Len(p) + 2 THEN Between(f, h, 0)' ELSE InFrame(p, f, k + 1, h, 0)'
  <2>1. faults' # <<>> /\ ~WrongByte' /\ Kept(f - 1, h, 0)'
    BY <1>4, <1>5, <1>6, <1>8
  <2>2. IF k = Len(p) + 2 THEN rxFn' = "checksum" /\ rx_checksum' # AA
                          ELSE \E l \in LineBytes \ {AA} : Behind(p, k + 1, l)'
    BY <1>0, <1>3, <1>8, <2>1, SyncedLoses
  <2> QED BY <1>1, <2>1, <2>2 DEF Between, InFrame
<1>9. ASSUME rxFn = "size", RxSize(Frame(p)[k + 1], TRUE), Fault("refuse", Frame(p)[k + 1])
      PROVE  k # Len(p) + 2 /\ InFrame(p, f, k + 1, h, 0)'
  <2>1. rxFn' = "AA" /\ delivered' = delivered
    BY <1>9 DEF RxSize
  <2>2. faults' # <<>> /\ ~WrongByte' /\ Kept(f - 1, h, 0)'
    BY <1>4, <1>5, <1>6, <1>9, <2>1
  <2>3. k = 3 /\ Len(p) \in Nat /\ Len(p) >= 3
    BY <1>3, <1>9, SendableIs DEF Synced
  <2> QED BY <2>1, <2>2, <2>3 DEF InFrame
<1>10. /\ Fault("lose", Frame(p)[k + 1]) /\ UNCHANGED <<rxVars, delivered>>
          => \E i \in Nat, n \in 0 .. 2 :
               IF k = Len(p) + 2 THEN Between(f, i, n)' ELSE InFrame(p, f, k + 1, i, n)'
       /\ rxFn = "size" /\ RxSize(Frame(p)[k + 1], TRUE) /\ Fault("refuse", Frame(p)[k + 1])
          => \E i \in Nat, n \in 0 .. 2 :
               IF k = Len(p) + 2 THEN Between(f, i, n)' ELSE InFrame(p, f, k + 1, i, n)'
  <2>1. h \in Nat /\ 0 \in 0 .. 2
    OBVIOUS
  <2> QED BY <1>8, <1>9, <2>1
<1>11. (\E c \in LineBytes \ {Frame(p)[k + 1]} : RxByte(c, FALSE) /\ Fault("corrupt", c))
         => \E i \in Nat, n \in 0 .. 2 :
              IF k = Len(p) + 2 THEN Between(f, i, n)' ELSE InFrame(p, f, k + 1, i, n)'
  BY <1>7
<1> QED BY <1>10, <1>11

\* Between two frames: the byte is the first of the next one.
LEMMA BetweenReceives ==
  ASSUME RxTypeInv, NEW f \in Nat, f + 1 \in 1 .. Len(sent), NEW p \in Sendable,
         NEW h \in Nat, NEW m \in 0 .. 2, Between(f, h, m),
         RxByte(AA, FALSE), sent' = sent, faults' = faults
  PROVE  \E i \in Nat, n \in 0 .. 2 : InFrame(p, f + 1, 1, i, n)'
<1>1. f \in 0 .. Len(sent) /\ (f + 1) - 1 = f /\ Len(sent) \in Nat
  BY DEF RxTypeInv
<1>2. \A i \in 1 .. Len(sent) : sent'[i] = sent[i]
  OBVIOUS
<1>3. /\ WrongByte' <=> WrongByte
      /\ faults' = <<>> <=> faults = <<>>
  BY DEF WrongByte
<1>4. ASSUME rxFn = "AA", Kept(f, h, m), (m = 0 <=> faults = <<>>), WrongByte => m = 1
      PROVE  InFrame(p, f + 1, 1, h, m)'
  <2>1. rxFn' = "55" /\ delivered' = delivered
    BY <1>4, RxByteAt DEF RxAA
  <2>2. Kept((f + 1) - 1, h, m)'
    BY <1>1, <1>2, <1>4, <2>1, KeptStays
  <2>3. Synced(p, 1)'
    BY <2>1 DEF Synced
  <2> QED BY <1>3, <1>4, <2>2, <2>3 DEF InFrame
<1>5. ASSUME faults # <<>>, f # 0, Kept(f - 1, h, 0), ~WrongByte, rxFn = "checksum", rx_checksum # AA
      PROVE  \E i \in Nat : InFrame(p, f + 1, 1, i, 1)'
  <2>1. rxFn' = "AA" /\ delivered' = delivered
    BY <1>5, RxByteAt DEF RxChecksum
  <2>2. f - 1 \in Nat /\ (f - 1) + 1 = f
    BY <1>5
  <2>3. PICK i \in Nat : Kept((f - 1) + 1, i, 0 + 1)' /\ i = (f - 1) + 1
    BY <1>5, <2>1, <2>2, KeptLoses
  <2>4. Kept((f + 1) - 1, i, 1)' /\ i = (f + 1) - 1
    BY <1>1, <2>2, <2>3
  <2>5. InFrame(p, f + 1, 1, i, 1)'
    BY <1>3, <1>5, <2>1, <2>4 DEF InFrame
  <2> QED BY <2>5
<1> QED BY <1>4, <1>5 DEF Between

LEMMA BetweenFaulty ==
  ASSUME RxTypeInv, NEW f \in Nat, f + 1 \in 1 .. Len(sent), NEW p \in Sendable,
         NEW h \in Nat, NEW m \in 0 .. 2, Between(f, h, m), faults = <<>>, sent' = sent,
         \/ \E c \in LineBytes \ {AA} : RxByte(c, FALSE) /\ Fault("corrupt", c)
         \/ Fault("lose", AA) /\ UNCHANGED <<rxVars, delivered>>
         \/ rxFn = "size" /\ Fault("refuse", AA)
  PROVE  InFrame(p, f + 1, 1, h, 0)'
<1>1. f \in 0 .. Len(sent) /\ (f + 1) - 1 = f /\ Len(sent) \in Nat
  BY DEF RxTypeInv
<1>2. \A i \in 1 .. Len(sent) : sent'[i] = sent[i]
  OBVIOUS
<1>3. rxFn = "AA" /\ m = 0 /\ Kept(f, h, 0)
  BY DEF Between
<1>4. AA \in LineBytes
  BY BytesAssumption
<1>5. ASSUME NEW kind \in {"corrupt", "lose", "refuse"}, NEW b \in LineBytes, Fault(kind, b),
             rxFn' = "AA", delivered' = delivered
      PROVE  InFrame(p, f + 1, 1, h, 0)'
  <2>1. faults' # <<>> /\ faults'[1] = [kind |-> kind, byte |-> b, at |-> rxFn]
    BY <1>5, FaultRecorded
  <2>2. ~WrongByte'
    BY <1>3, <2>1 DEF WrongByte
  <2>3. Kept((f + 1) - 1, h, 0)'
    BY <1>1, <1>2, <1>3, <1>5, KeptStays
  <2> QED BY <1>5, <2>1, <2>2, <2>3 DEF InFrame
<1>6. ASSUME NEW c \in LineBytes \ {AA}, RxByte(c, FALSE), Fault("corrupt", c)
      PROVE  InFrame(p, f + 1, 1, h, 0)'
  <2>1. RxAA(c)
    BY <1>3, <1>6, RxByteAt
  <2>2. rxFn' = "AA" /\ delivered' = delivered
    BY <2>1 DEF RxAA
  <2> QED BY <1>5, <1>6, <2>2
<1>7. ASSUME Fault("lose", AA), UNCHANGED <<rxVars, delivered>> PROVE InFrame(p, f + 1, 1, h, 0)'
  <2>1. rxFn' = "AA" /\ delivered' = delivered
    BY <1>3, <1>7 DEF rxVars
  <2> QED BY <1>4, <1>5, <1>7, <2>1
<1> QED BY <1>3, <1>6, <1>7

\* A frame sent changes nothing for the bytes before it.
LEMMA SendKeeps ==
  ASSUME RxTypeInv, NEW f \in Nat, f <= Len(sent), NEW q \in Sendable, Send(q),
         \A i \in 1 .. Len(sent) : sent'[i] = sent[i], NEW h \in Nat, NEW m \in 0 .. 2
  PROVE  /\ Between(f, h, m) => Between(f, h, m)'
         /\ \A p \in Sendable, k \in Nat : f # 0 /\ InFrame(p, f, k, h, m) => InFrame(p, f, k, h, m)'
<1>1. UNCHANGED <<rxFn, rx_checksum, rx_current_op, rx_bytes_to_read, rx_buffer, delivered, faults>>
  BY DEF Send, rxVars
<1>2. Len(sent) \in Nat
  BY DEF RxTypeInv
<1>3. WrongByte' <=> WrongByte
  BY <1>1 DEF WrongByte
<1>4. ASSUME NEW g \in 0 .. Len(sent), NEW n, Kept(g, h, n) PROVE Kept(g, h, n)'
  BY <1>1, <1>4, KeptStays
<1>5. f # 0 => f - 1 \in 0 .. Len(sent)
  BY <1>2
<1>6. f \in 0 .. Len(sent)
  BY <1>2
<1>7. Between(f, h, m) => Between(f, h, m)'
  BY <1>1, <1>3, <1>4, <1>5, <1>6 DEF Between
<1>8. ASSUME NEW p \in Sendable, NEW k \in Nat, f # 0, InFrame(p, f, k, h, m)
      PROVE  InFrame(p, f, k, h, m)'
  <2>1. Synced(p, k) => Synced(p, k)'
    BY <1>1 DEF Synced
  <2>2. \A e : Tainted(p, k, e) => Tainted(p, k, e)'
    BY <1>1 DEF Tainted
  <2>3. \A l : Behind(p, k, l) => Behind(p, k, l)'
    BY <1>1 DEF Behind
  <2>4. \A n : Kept(f - 1, h, n) => Kept(f - 1, h, n)'
    BY <1>4, <1>5, <1>8
  <2> QED BY <1>1, <1>3, <1>8, <2>1, <2>2, <2>3, <2>4 DEF InFrame
<1> QED BY <1>7, <1>8

LEMMA LineStarts == ReceiverInit => LineInv
<1> SUFFICES ASSUME ReceiverInit PROVE OnLine
  BY DEF LineInv
<1>1. Place(0, 0) /\ Left(0, 0) = 0
  BY PlaceStarts DEF Left
<1>2. Kept(0, 1, 0) /\ rxFn = "AA" /\ faults = <<>> /\ Len(faults) = 0
  BY DEF ReceiverInit, Kept
<1>3. Between(0, 1, 0)
  BY <1>2 DEF Between, WrongByte
<1>4. 0 \in Nat /\ 1 \in Nat /\ 0 \in 0 .. 2
  OBVIOUS
<1> QED BY <1>1, <1>3, <1>4 DEF OnLine

LEMMA LineStep ==
  ASSUME RxTypeInv, LineInv, [ReceiverNext]_receiverVars
  PROVE  LineInv'
<1> SUFFICES ASSUME Usable' PROVE OnLine'
  BY DEF LineInv
<1>0. RxTypeInv'
  BY RxTypesStep
<1>1. ASSUME NEW q \in Sendable, Send(q) PROVE OnLine'
  <2>0. sent' = Append(sent, q) /\ faults' = faults /\ sent \in Seq(Sendable)
    BY <1>1 DEF Send, RxTypeInv
  <2>1. Usable
    <3>1. Len(sent') = Len(sent) + 1 /\ \A i \in 1 .. Len(sent) : sent'[i] = sent[i]
      BY <2>0
    <3>2. \A p \in ToSet(sent) : p \in ToSet(sent')
      BY <2>0, <3>1 DEF ToSet
    <3> QED BY <2>0, <3>2 DEF Usable, WrongByte
  <2>2. PICK f \in Nat, k \in Nat, h \in Nat, m \in 0 .. 2 :
          /\ Place(f, k)
          /\ IF Left(f, k) = 0 THEN Between(f, h, m)
             ELSE \E p \in Sendable : p = sent[f] /\ InFrame(p, f, k, h, m)
    BY <2>1 DEF LineInv, OnLine
  <2>3. /\ Place(f, k)' /\ f = Len(sent) /\ Left(f, k)' = Left(f, k)
        /\ \A i \in 1 .. Len(sent) : sent'[i] = sent[i]
    BY <1>1, <2>2, PlaceSends
  <2>4. f <= Len(sent)
    BY <2>3
  <2>5. /\ Between(f, h, m) => Between(f, h, m)'
        /\ \A p \in Sendable, j \in Nat : f # 0 /\ InFrame(p, f, j, h, m) => InFrame(p, f, j, h, m)'
    BY <1>1, <2>3, <2>4, SendKeeps
  <2>6. CASE Left(f, k) = 0
    BY <2>2, <2>3, <2>5, <2>6 DEF OnLine
  <2>7. CASE Left(f, k) # 0
    <3>1. f # 0 /\ f \in 1 .. Len(sent)
      BY <2>2, <2>7, PlaceTyped
    <3>2. PICK p \in Sendable : p = sent[f] /\ InFrame(p, f, k, h, m)
      BY <2>2, <2>7
    <3>3. p = sent'[f] /\ InFrame(p, f, k, h, m)'
      BY <2>3, <2>5, <3>1, <3>2
    <3> QED BY <2>3, <2>7, <3>3 DEF OnLine
  <2> QED BY <2>6, <2>7
<1>2. ASSUME Receive PROVE OnLine'
  <2>0. wire # <<>> /\ RxByte(Head(wire), FALSE) /\ wire' = Tail(wire) /\ sent' = sent /\ faults' = faults
    BY <1>2 DEF Receive
  <2>1. Usable
    BY <2>0 DEF Usable, WrongByte
  <2>2. PICK f \in Nat, k \in Nat, h \in Nat, m \in 0 .. 2 :
          /\ Place(f, k)
          /\ IF Left(f, k) = 0 THEN Between(f, h, m)
             ELSE \E p \in Sendable : p = sent[f] /\ InFrame(p, f, k, h, m)
    BY <2>1 DEF LineInv, OnLine
  <2>3. ASSUME Left(f, k) = 0 PROVE OnLine'
    <3>1. /\ f + 1 \in 1 .. Len(sent) /\ Head(wire) = AA
          /\ \A p \in Sendable, j \in Nat, n \in 0 .. 2 :
               p = sent[f + 1] /\ InFrame(p, f + 1, 1, j, n)' => OnLine'
          /\ sent[f + 1] \in Sendable
      BY <2>0, <2>2, <2>3, FrameBegins
    <3>2. PICK p \in Sendable : p = sent[f + 1]
      BY <3>1
    <3>3. Between(f, h, m) /\ RxByte(AA, FALSE)
      BY <2>0, <2>2, <2>3, <3>1
    <3>4. PICK j \in Nat, n \in 0 .. 2 : InFrame(p, f + 1, 1, j, n)'
      BY <2>0, <3>1, <3>3, BetweenReceives
    <3> QED BY <3>1, <3>2, <3>4
  <2>4. ASSUME Left(f, k) # 0 PROVE OnLine'
    <3>1. PICK p \in Sendable : p = sent[f] /\ InFrame(p, f, k, h, m)
      BY <2>2, <2>4
    <3>2. /\ f \in 1 .. Len(sent) /\ k \in 1 .. Len(p) + 2 /\ Head(wire) = Frame(p)[k + 1]
          /\ \A j \in Nat, n \in 0 .. 2 :
               (IF k = Len(p) + 2 THEN Between(f, j, n)' ELSE InFrame(p, f, k + 1, j, n)') => OnLine'
      BY <2>0, <2>2, <2>4, <3>1, FrameGoes
    <3>3. faults # <<>> /\ ~WrongByte => Plain(p)
      <4>1. p \in ToSet(sent)
        BY <3>1, <3>2 DEF ToSet, RxTypeInv
      <4> QED BY <2>1, <4>1 DEF Usable
    <3>4. PICK c : c = Head(wire)
      OBVIOUS
    <3>5. RxByte(c, FALSE) /\ c = Frame(p)[k + 1]
      BY <2>0, <3>2, <3>4
    <3>6. \E j \in Nat, n \in 0 .. 2 :
            IF k = Len(p) + 2 THEN Between(f, j, n)' ELSE InFrame(p, f, k + 1, j, n)'
      BY <2>0, <3>1, <3>2, <3>3, <3>5, FrameReceives
    <3> QED BY <3>2, <3>6
  <2> QED BY <2>3, <2>4
<1>3. ASSUME Corrupt \/ Lose \/ Refuse PROVE OnLine'
  <2>0. wire # <<>> /\ wire' = Tail(wire) /\ sent' = sent
    BY <1>3 DEF Corrupt, Lose, Refuse
  <2>1. PICK c : c = Head(wire)
    OBVIOUS
  <2>2. \/ \E b \in LineBytes \ {c} : RxByte(b, FALSE) /\ Fault("corrupt", b)
        \/ Fault("lose", c) /\ UNCHANGED <<rxVars, delivered>>
        \/ rxFn = "size" /\ RxSize(c, TRUE) /\ Fault("refuse", c)
    BY <1>3, <2>1 DEF Corrupt, Lose, Refuse
  <2>3. faults = <<>> /\ faults' # <<>>
    <3>1. Len(faults') = Len(faults) + 1 /\ faults' # <<>>
      <4>1. c \in LineBytes
        BY <2>0, <2>1, WireMoves
      <4> QED BY <2>2, <4>1, FaultRecorded
    <3>2. Len(faults') = 1
      BY <3>1 DEF Usable
    <3>3. faults \in Seq(FaultRecord)
      BY DEF RxTypeInv
    <3>4. PICK n \in Nat : n = Len(faults) /\ (n = 0 => faults = <<>>)
      BY <3>3
    <3>5. n + 1 = 1
      BY <3>1, <3>2, <3>4
    <3>6. n = 0
      BY <3>5
    <3> QED BY <3>1, <3>4, <3>6
  <2>4. PICK f \in Nat, k \in Nat, h \in Nat, m \in 0 .. 2 :
          /\ Place(f, k)
          /\ IF Left(f, k) = 0 THEN Between(f, h, m)
             ELSE \E p \in Sendable : p = sent[f] /\ InFrame(p, f, k, h, m)
    BY <2>3 DEF LineInv, OnLine, Usable
  <2>5. ASSUME Left(f, k) = 0 PROVE OnLine'
    <3>1. /\ f + 1 \in 1 .. Len(sent) /\ Head(wire) = AA
          /\ \A p \in Sendable, j \in Nat, n \in 0 .. 2 :
               p = sent[f + 1] /\ InFrame(p, f + 1, 1, j, n)' => OnLine'
          /\ sent[f + 1] \in Sendable
      BY <2>0, <2>4, <2>5, FrameBegins
    <3>2. PICK p \in Sendable : p = sent[f + 1]
      BY <3>1
    <3>3. /\ \/ \E b \in LineBytes \ {AA} : RxByte(b, FALSE) /\ Fault("corrupt", b)
             \/ Fault("lose", AA) /\ UNCHANGED <<rxVars, delivered>>
             \/ rxFn = "size" /\ Fault("refuse", AA)
          /\ Between(f, h, m)
      BY <2>1, <2>2, <2>4, <2>5, <3>1
    <3>4. InFrame(p, f + 1, 1, h, 0)'
      BY <2>0, <2>3, <3>1, <3>3, BetweenFaulty
    <3>5. 0 \in 0 .. 2
      OBVIOUS
    <3> QED BY <3>1, <3>2, <3>4, <3>5
  <2>6. ASSUME Left(f, k) # 0 PROVE OnLine'
    <3>1. PICK p \in Sendable : p = sent[f] /\ InFrame(p, f, k, h, m)
      BY <2>4, <2>6
    <3>2. /\ f \in 1 .. Len(sent) /\ k \in 1 .. Len(p) + 2 /\ c = Frame(p)[k + 1]
          /\ \A j \in Nat, n \in 0 .. 2 :
               (IF k = Len(p) + 2 THEN Between(f, j, n)' ELSE InFrame(p, f, k + 1, j, n)') => OnLine'
      BY <2>0, <2>1, <2>4, <2>6, <3>1, FrameGoes
    <3>3. ~WrongByte' => Plain(p)
      <4>1. p \in ToSet(sent')
        BY <2>0, <3>1, <3>2 DEF ToSet, RxTypeInv
      <4> QED BY <2>3, <4>1 DEF Usable
    <3>4. \/ \E b \in LineBytes \ {Frame(p)[k + 1]} : RxByte(b, FALSE) /\ Fault("corrupt", b)
          \/ Fault("lose", Frame(p)[k + 1]) /\ UNCHANGED <<rxVars, delivered>>
          \/ rxFn = "size" /\ RxSize(Frame(p)[k + 1], TRUE) /\ Fault("refuse", Frame(p)[k + 1])
      BY <2>2, <3>2
    <3>5. \E j \in Nat, n \in 0 .. 2 :
            IF k = Len(p) + 2 THEN Between(f, j, n)' ELSE InFrame(p, f, k + 1, j, n)'
      BY <2>0, <2>3, <3>1, <3>2, <3>3, <3>4, FrameFaulty
    <3> QED BY <3>2, <3>5
  <2> QED BY <2>5, <2>6
<1>4. ASSUME UNCHANGED receiverVars PROVE OnLine'
  <2>1. UNCHANGED <<rxFn, rx_checksum, rx_current_op, rx_bytes_to_read, rx_buffer, wire, sent,
                    delivered, faults>>
    BY <1>4 DEF receiverVars, rxVars
  <2>2. WrongByte' <=> WrongByte
    BY <2>1 DEF WrongByte
  <2>3. OnLine
    BY <2>1, <2>2 DEF LineInv, Usable
  <2>4. PICK f \in Nat, k \in Nat, h \in Nat, m \in 0 .. 2 :
          /\ Place(f, k)
          /\ IF Left(f, k) = 0 THEN Between(f, h, m)
             ELSE \E p \in Sendable : p = sent[f] /\ InFrame(p, f, k, h, m)
    BY <2>3 DEF OnLine
  <2>5. Left(f, k)' = Left(f, k)
    BY <2>1 DEF Left
  <2>6. Place(f, k)'
    BY <2>1, <2>4, <2>5 DEF Place
  <2>7. \A g, n : Kept(g, h, n) => Kept(g, h, n)'
    BY <2>1 DEF Kept
  <2>8. Between(f, h, m) => Between(f, h, m)'
    BY <2>1, <2>2, <2>7 DEF Between
  <2>9. ASSUME NEW p \in Sendable, InFrame(p, f, k, h, m) PROVE InFrame(p, f, k, h, m)'
    <3>1. Synced(p, k) => Synced(p, k)'
      BY <2>1 DEF Synced
    <3>2. \A e : Tainted(p, k, e) => Tainted(p, k, e)'
      BY <2>1 DEF Tainted
    <3>3. \A l : Behind(p, k, l) => Behind(p, k, l)'
      BY <2>1 DEF Behind
    <3> QED BY <2>1, <2>2, <2>7, <2>9, <3>1, <3>2, <3>3 DEF InFrame
  <2> QED BY <2>1, <2>4, <2>5, <2>6, <2>8, <2>9 DEF OnLine
<1> QED BY <1>1, <1>2, <1>3, <1>4 DEF ReceiverNext

LEMMA LineHolds == ReceiverSpec => [](RxTypeInv /\ LineInv)
BY RxStarts, RxTypesStep, LineStarts, LineStep, PTL DEF ReceiverSpec

\* All but m of the packets, in their order
LEMMA KeptIsSubsequence ==
  ASSUME RxTypeInv, NEW g \in Nat, g <= Len(sent), NEW h, NEW m, Kept(g, h, m)
  PROVE  IsSubsequence(delivered, sent) /\ Len(delivered) = g - m /\ m \in 0 .. 2
<1>1. /\ m \in 0 .. 2 /\ h \in 1 .. g - m + 1 /\ Len(delivered) = g - m
      /\ \A j \in 1 .. g - m : delivered[j] = sent[IF j < h THEN j ELSE j + m]
  BY DEF Kept
<1>2. /\ DOMAIN delivered = 1 .. g - m /\ DOMAIN sent = 1 .. Len(sent) /\ Len(sent) \in Nat
      /\ g - m \in Nat
  BY <1>1 DEF RxTypeInv, RxTyped
<1>3. PICK at : at = [j \in 1 .. g - m |-> IF j < h THEN j ELSE j + m]
  OBVIOUS
<1>4. at \in [DOMAIN delivered -> DOMAIN sent]
  <2>1. \A j \in 1 .. g - m : (IF j < h THEN j ELSE j + m) \in 1 .. Len(sent)
    BY <1>1, <1>2
  <2> QED BY <1>2, <1>3, <2>1
<1>5. \A i, j \in DOMAIN delivered : delivered[i] = sent[at[i]] /\ (i < j => at[i] < at[j])
  <2> SUFFICES ASSUME NEW i \in 1 .. g - m, NEW j \in 1 .. g - m
               PROVE  delivered[i] = sent[at[i]] /\ (i < j => at[i] < at[j])
    BY <1>2
  <2>1. /\ at[i] = IF i < h THEN i ELSE i + m
        /\ at[j] = IF j < h THEN j ELSE j + m
    BY <1>3
  <2>2. delivered[i] = sent[at[i]]
    BY <1>1, <2>1
  <2>3. i < j => at[i] < at[j]
    <3>1. i \in Int /\ j \in Int /\ m \in Int /\ h \in Int /\ m >= 0
      BY <1>1, <1>2
    <3> QED BY <2>1, <3>1
  <2> QED BY <2>2, <2>3
<1> QED BY <1>1, <1>4, <1>5 DEF IsSubsequence

\* What the line's place and the receiver say of the packets
LEMMA OnLineIs ==
  ASSUME RxTypeInv, OnLine
  PROVE  \E g \in Nat, h \in Nat, m \in 0 .. 2 :
           /\ g <= Len(sent) /\ Kept(g, h, m)
           /\ faults = <<>> => m = 0
           /\ wire = <<>> =>
                /\ (faults = <<>> \/ WrongByte) => g = Len(sent)
                /\ WrongByte => m = 1
                /\ g = Len(sent) \/ (g = Len(sent) - 1 /\ m = 0)
<1>1. PICK f \in Nat, k \in Nat, h \in Nat, m \in 0 .. 2 :
        /\ Place(f, k)
        /\ IF Left(f, k) = 0 THEN Between(f, h, m)
           ELSE \E p \in Sendable : p = sent[f] /\ InFrame(p, f, k, h, m)
  BY DEF OnLine
<1>2. /\ Len(sent) \in Nat /\ Left(f, k) \in Nat /\ f <= Len(sent)
      /\ f = 0 => Left(f, k) = 0
      /\ f # Len(sent) => f + 1 = Len(sent) /\ f + 1 \in 1 .. Len(sent)
  BY <1>1, PlaceTyped
<1>3. wire = <<>> => Left(f, k) = 0 /\ f = Len(sent)
  <2>1. f # Len(sent) => Len(sent[f + 1]) \in Nat
    BY <1>2, SentIs
  <2>2. Len(wire) = Left(f, k) + (IF f < Len(sent) THEN Len(sent[f + 1]) + 3 ELSE 0)
    BY <1>1 DEF Place
  <2>3. wire = <<>> => Len(wire) = 0
    OBVIOUS
  <2> QED BY <1>2, <2>1, <2>2, <2>3
<1>4. WrongByte => faults # <<>>
  BY DEF WrongByte
<1>5. ASSUME Left(f, k) # 0 PROVE f - 1 \in Nat /\ Kept(f - 1, h, m) /\ (faults = <<>> => m = 0)
  <2>1. f - 1 \in Nat
    BY <1>2, <1>5
  <2>2. PICK p \in Sendable : InFrame(p, f, k, h, m)
    BY <1>1, <1>5
  <2> QED BY <2>1, <2>2 DEF InFrame
<1>6. ASSUME Left(f, k) = 0
      PROVE  \/ Kept(f, h, m) /\ (m = 0 <=> faults = <<>>) /\ (WrongByte => m = 1)
             \/ f - 1 \in Nat /\ Kept(f - 1, h, 0) /\ m = 0 /\ faults # <<>> /\ ~WrongByte
  BY <1>1, <1>6 DEF Between
<1>7. CASE Left(f, k) # 0
  <2>1. f - 1 <= Len(sent) /\ wire # <<>>
    BY <1>2, <1>3, <1>7
  <2> QED BY <1>5, <1>7, <2>1
<1>8. ASSUME Left(f, k) = 0, Kept(f, h, m), (m = 0 <=> faults = <<>>), WrongByte => m = 1
      PROVE  \E g \in Nat, i \in Nat, n \in 0 .. 2 :
               /\ g <= Len(sent) /\ Kept(g, i, n)
               /\ faults = <<>> => n = 0
               /\ wire = <<>> =>
                    /\ (faults = <<>> \/ WrongByte) => g = Len(sent)
                    /\ WrongByte => n = 1
                    /\ g = Len(sent) \/ (g = Len(sent) - 1 /\ n = 0)
  BY <1>2, <1>3, <1>8
<1>9. ASSUME Left(f, k) = 0, f - 1 \in Nat, Kept(f - 1, h, 0), m = 0, faults # <<>>, ~WrongByte
      PROVE  \E g \in Nat, i \in Nat, n \in 0 .. 2 :
               /\ g <= Len(sent) /\ Kept(g, i, n)
               /\ faults = <<>> => n = 0
               /\ wire = <<>> =>
                    /\ (faults = <<>> \/ WrongByte) => g = Len(sent)
                    /\ WrongByte => n = 1
                    /\ g = Len(sent) \/ (g = Len(sent) - 1 /\ n = 0)
  <2>1. f - 1 <= Len(sent) /\ (wire = <<>> => f - 1 = Len(sent) - 1)
    BY <1>2, <1>3, <1>9
  <2> QED BY <1>9, <2>1
<1> QED BY <1>6, <1>7, <1>8, <1>9

LEMMA LineIsExact == RxTypeInv /\ LineInv => ExactOrNoticed
<1> SUFFICES ASSUME RxTypeInv, LineInv PROVE ExactOrNoticed
  OBVIOUS
<1>1. ASSUME faults = <<>> PROVE IsPrefix(delivered, sent) /\ (wire = <<>> => delivered = sent)
  <2>1. OnLine
    BY <1>1 DEF LineInv, Usable
  <2>2. PICK g \in Nat, h \in Nat, m \in 0 .. 2 :
          /\ g <= Len(sent) /\ Kept(g, h, m) /\ m = 0
          /\ wire = <<>> => g = Len(sent)
    BY <1>1, <2>1, OnLineIs
  <2>3. Len(delivered) = g /\ \A j \in 1 .. g : delivered[j] = sent[j]
    <3>1. /\ Len(delivered) = g - 0
          /\ \A j \in 1 .. g - 0 : delivered[j] = sent[IF j < h THEN j ELSE j + 0]
      BY <2>2 DEF Kept
    <3> QED BY <3>1
  <2>4. sent \in Seq(Sendable) /\ delivered \in Seq(Seq(LineBytes))
    BY DEF RxTypeInv, RxTyped
  <2>5. IsPrefix(delivered, sent)
    BY <2>2, <2>3, <2>4 DEF IsPrefix
  <2>6. wire = <<>> => delivered = sent
    BY <2>2, <2>3, <2>4
  <2> QED BY <2>5, <2>6
<1>2. ASSUME WrongByte
      PROVE  IsSubsequence(delivered, sent) /\ (wire = <<>> => Len(delivered) = Len(sent) - 1)
  <2>1. OnLine
    BY <1>2 DEF LineInv, Usable, WrongByte
  <2>2. PICK g \in Nat, h \in Nat, m \in 0 .. 2 :
          /\ g <= Len(sent) /\ Kept(g, h, m)
          /\ wire = <<>> => g = Len(sent) /\ m = 1
    BY <1>2, <2>1, OnLineIs
  <2>3. IsSubsequence(delivered, sent) /\ Len(delivered) = g - m
    BY <2>2, KeptIsSubsequence
  <2> QED BY <2>2, <2>3
<1> QED BY <1>1, <1>2 DEF ExactOrNoticed

LEMMA LineResynchronizes == RxTypeInv /\ LineInv => TwoLostPerFault
<1> SUFFICES ASSUME RxTypeInv, LineInv, Len(faults) = 1, \A p \in ToSet(sent) : Plain(p)
             PROVE  IsSubsequence(delivered, sent) /\ (wire = <<>> => Len(sent) - Len(delivered) <= 2)
  BY DEF TwoLostPerFault
<1>1. OnLine
  BY DEF LineInv, Usable
<1>2. PICK g \in Nat, h \in Nat, m \in 0 .. 2 :
        /\ g <= Len(sent) /\ Kept(g, h, m)
        /\ wire = <<>> => g = Len(sent) \/ (g = Len(sent) - 1 /\ m = 0)
  BY <1>1, OnLineIs
<1>3. IsSubsequence(delivered, sent) /\ Len(delivered) = g - m
  BY <1>2, KeptIsSubsequence
<1>4. Len(sent) \in Nat
  BY DEF RxTypeInv
<1> QED BY <1>2, <1>3, <1>4

\* While the line is good every packet arrives, unaltered and in order, whatever it
\* holds, the synchronization bytes included (packet_handler.c:55-143, 161-180); one
\* wrong byte in a packet's payload or checksum is noticed and costs that packet only.
THEOREM ExactUnlessHit == ReceiverSpec => []ExactOrNoticed
BY LineHolds, LineIsExact, PTL

\* In traffic that cannot be taken for the beginning of a frame, one fault of any kind
\* costs two packets at most, alters none and repeats none.
THEOREM SynchronizedAgain == ReceiverSpec => []TwoLostPerFault
BY LineHolds, LineResynchronizes, PTL
=============================================================================
