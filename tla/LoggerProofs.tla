---------------------------- MODULE LoggerProofs ----------------------------
(***************************************************************************)
(* For every sequence of kinds and every bound: the threads of the logger  *)
(* exclude each other in the queue, the counting semaphore accounts for    *)
(* its packets, and the writer never dequeues NULL; what is logged has     *)
(* each packet of main once and in order, in time, and Stop loses one      *)
(* cycle at most.                                                          *)
(***************************************************************************)
EXTENDS Logger, FiniteSetTheorems, SequenceTheorems, TLAPS

\* What TypeOK leaves out: a producer that is about to enqueue has a packet.
PacketReady ==
  /\ pc["main"] \in {"print", "write"} \cup AddLabels => idx \in 1 .. Len(Kinds)
  /\ pc["main"] \in {"write", "addPacket", "enqueue"} => pkt["main"] \in Packet
  /\ pc["camera"] \in {"name", "write", "addPacket", "enqueue"} => pkt["camera"] \in Packet

\* The inductive invariant.
LoggerInv ==
  /\ TypeOK
  /\ PacketReady
  /\ MutualExclusion
  /\ SemaphoreCountsQueue
  /\ pc["writer"] \in HasRecord => d \in Packet

USE DEF Producers, Threads, Labels, AddLabels, JoinLabels, HasRecord

LEMMA KindsType ==
  /\ Len(Kinds) \in Nat \ {0}
  /\ \A i \in 1 .. Len(Kinds) : Kinds[i] \in Types
  /\ FRAME \in Types
  /\ Null \notin Packet
<1>1. Len(Kinds) \in Nat \ {0}
  BY KindsAssumption, EmptySeq, LenProperties
<1>2. Null \notin Packet
  BY KindsAssumption DEF Null, Packet, Types, FRAME
<1> QED BY <1>1, <1>2 DEF Types, KindSet

LEMMA InitInv == Init => LoggerInv
BY KindsType, EmptySeq
DEF Init, Text, NoText, LoggerInv, TypeOK, PacketReady, MutualExclusion, SemaphoreCountsQueue,
    InCritical,
    Indicator

LEMMA AddLockInv ==
  ASSUME LoggerInv, NEW p \in Producers, AddLock(p)
  PROVE  LoggerInv'
BY KindsType
DEF AddLock, Goto, LoggerInv, TypeOK, PacketReady, MutualExclusion, SemaphoreCountsQueue,
    InCritical, Indicator

LEMMA AddEnqueueInv ==
  ASSUME LoggerInv, NEW p \in Producers, AddEnqueue(p)
  PROVE  LoggerInv'
<1>1. pkt[p] \in Packet
  BY DEF AddEnqueue, LoggerInv, PacketReady
<1>2. queue' \in Seq(Packet) /\ Len(queue') = Len(queue) + 1
  BY <1>1, AppendProperties DEF AddEnqueue, LoggerInv, TypeOK
<1> QED
  BY <1>2, KindsType
  DEF AddEnqueue, Goto, LoggerInv, TypeOK, PacketReady, MutualExclusion, SemaphoreCountsQueue,
      InCritical, Indicator

LEMMA AddPostInv ==
  ASSUME LoggerInv, NEW p \in Producers, AddPost(p)
  PROVE  LoggerInv'
BY KindsType
DEF AddPost, Goto, LoggerInv, TypeOK, PacketReady, MutualExclusion, SemaphoreCountsQueue,
    InCritical, Indicator

LEMMA AddUnlockInv ==
  ASSUME LoggerInv, NEW p \in Producers, AddUnlock(p)
  PROVE  LoggerInv'
BY KindsType
DEF AddUnlock, Goto, LoggerInv, TypeOK, PacketReady, MutualExclusion, SemaphoreCountsQueue,
    InCritical, Indicator

LEMMA AddPacketInv ==
  ASSUME LoggerInv, NEW p \in Producers, AddPacket(p)
  PROVE  LoggerInv'
BY AddLockInv, AddEnqueueInv, AddPostInv, AddUnlockInv DEF AddPacket

LEMMA EndTextInv ==
  ASSUME LoggerInv, NEW p \in Producers, EndText(p)
  PROVE  LoggerInv'
<1>1. pkt[p] \in Packet /\ pkt[p].type \in Types
  BY DEF EndText, LoggerInv, PacketReady, Packet
<1>2. buffer' \in [Types -> Text]
  BY <1>1 DEF EndText, LoggerInv, TypeOK, Text
<1> QED
  BY <1>1, <1>2, KindsType
  DEF EndText, Goto, LoggerInv, TypeOK, PacketReady, MutualExclusion, SemaphoreCountsQueue,
      InCritical, Indicator

LEMMA AbandonType ==
  ASSUME LoggerInv, NEW ks, Abandon(ks) \/ UNCHANGED buffer
  PROVE  buffer' \in [Types -> Text]
<1>1. buffer \in [Types -> Text]
  BY DEF LoggerInv, TypeOK
<1>2. \A k \in Types : [buffer[k] EXCEPT !.whole = FALSE] \in Text
  BY <1>1 DEF Text
<1> QED BY <1>1, <1>2 DEF Abandon

LEMMA MainLoopInv ==
  ASSUME LoggerInv, MainLoop
  PROVE  LoggerInv'
<1>1. buffer' \in [Types -> Text]
  BY AbandonType DEF MainLoop
<1> QED
  BY <1>1, KindsType
  DEF MainLoop, Goto, LoggerInv, TypeOK, PacketReady, MutualExclusion, SemaphoreCountsQueue,
      InCritical, Indicator

LEMMA MainPrintInv ==
  ASSUME LoggerInv, MainPrint
  PROVE  LoggerInv'
<1>1. Kinds[idx] \in Types /\ timestamp \in Nat
  BY KindsType DEF MainPrint, LoggerInv, TypeOK, PacketReady
<1>2. pkt' \in [Producers -> Packet \cup {Null}] /\ pkt'["main"] \in Packet
      /\ pkt'["camera"] = pkt["camera"]
  BY <1>1 DEF MainPrint, LoggerInv, TypeOK, Packet
<1>3. buffer' \in [Types -> Text]
  BY <1>1 DEF MainPrint, BeginText, LoggerInv, TypeOK, Text
<1> QED
  BY <1>2, <1>3, KindsType
  DEF MainPrint, Goto, LoggerInv, TypeOK, PacketReady, MutualExclusion, SemaphoreCountsQueue,
      InCritical, Indicator

LEMMA MainTickInv ==
  ASSUME LoggerInv, MainTick
  PROVE  LoggerInv'
BY KindsType
DEF MainTick, Goto, LoggerInv, TypeOK, PacketReady, MutualExclusion, SemaphoreCountsQueue,
    InCritical, Indicator

LEMMA MainEndInv ==
  ASSUME LoggerInv, MainJoin \/ MainStopRobot
  PROVE  LoggerInv'
<1>1. /\ pc["main"] \in JoinLabels \cup {"stopRobot"}
      /\ \E l \in JoinLabels \cup {"stopRobot", "done"} : Goto("main", l)
      /\ UNCHANGED <<shared, idx, pkt, frames, d, seen, lines>>
  BY DEF MainJoin, MainStopRobot, JoinOrder
<1> QED
  BY <1>1, KindsType
  DEF shared, Goto, LoggerInv, TypeOK, PacketReady, MutualExclusion, SemaphoreCountsQueue,
      InCritical, Indicator

LEMMA CameraInv ==
  ASSUME LoggerInv, CameraLoop \/ CameraName
  PROVE  LoggerInv'
<1>1. CASE CameraLoop
  <2>1. /\ pkt' \in [Producers -> Packet \cup {Null}] /\ pkt'["main"] = pkt["main"]
        /\ pc'["camera"] = "name" => pkt'["camera"] \in Packet
    BY <1>1, KindsType DEF CameraLoop, Goto, LoggerInv, TypeOK, Packet
  <2>2. buffer' \in [Types -> Text]
    BY <1>1, AbandonType DEF CameraLoop
  <2> QED
    BY <1>1, <2>1, <2>2, KindsType
    DEF CameraLoop, Goto, LoggerInv, TypeOK, PacketReady, MutualExclusion, SemaphoreCountsQueue,
        InCritical, Indicator
<1>2. CASE CameraName
  <2>1. buffer' \in [Types -> Text]
    BY <1>2, KindsType DEF CameraName, BeginText, LoggerInv, TypeOK, Text
  <2> QED
    BY <1>2, <2>1, KindsType
    DEF CameraName, Goto, LoggerInv, TypeOK, PacketReady, MutualExclusion, SemaphoreCountsQueue,
        InCritical, Indicator
<1> QED BY <1>1, <1>2

LEMMA WriterSyncInv ==
  ASSUME LoggerInv, WriterLoop \/ WriterWait \/ WriterLock \/ WriterUnlock
  PROVE  LoggerInv'
<1>1. CASE WriterLoop
  BY <1>1, KindsType
  DEF WriterLoop, shared, Goto, LoggerInv, TypeOK, PacketReady, MutualExclusion,
      SemaphoreCountsQueue, InCritical, Indicator
<1>2. CASE WriterWait
  BY <1>2, KindsType
  DEF WriterWait, shared, Goto, LoggerInv, TypeOK, PacketReady, MutualExclusion,
      SemaphoreCountsQueue, InCritical, Indicator
<1>3. CASE WriterLock
  BY <1>3, KindsType
  DEF WriterLock, shared, Goto, LoggerInv, TypeOK, PacketReady, MutualExclusion,
      SemaphoreCountsQueue, InCritical, Indicator
<1>4. CASE WriterUnlock
  BY <1>4, KindsType
  DEF WriterUnlock, shared, Goto, LoggerInv, TypeOK, PacketReady, MutualExclusion,
      SemaphoreCountsQueue, InCritical, Indicator
<1> QED BY <1>1, <1>2, <1>3, <1>4

\* The writer holds the lock and a unit of `empty', so the queue has a packet
\* that no other thread can take: the two counts cannot both be zero.
LEMMA WriterDequeueInv ==
  ASSUME LoggerInv, WriterDequeue
  PROVE  LoggerInv'
<1>1. queue \in Seq(Packet) /\ queue # <<>>
  BY EmptySeq DEF WriterDequeue, LoggerInv, TypeOK, SemaphoreCountsQueue, Indicator
<1>2. /\ d' \in Packet /\ queue' \in Seq(Packet) /\ Len(queue') = Len(queue) - 1
  BY <1>1, HeadTailProperties DEF WriterDequeue
<1> QED
  BY <1>2, KindsType
  DEF WriterDequeue, Goto, LoggerInv, TypeOK, PacketReady, MutualExclusion,
      SemaphoreCountsQueue, InCritical, Indicator

LEMMA WriterPrintInv ==
  ASSUME LoggerInv, WriterRead \/ WriterPrint
  PROVE  LoggerInv'
<1>1. CASE WriterRead
  <2>1. d \in Packet /\ seen' \in Text
    <3>1. d \in Packet
      BY <1>1 DEF WriterRead, LoggerInv
    <3>2. d.type \in Types
      BY <3>1 DEF Packet
    <3> QED BY <1>1, <3>1, <3>2 DEF WriterRead, LoggerInv, TypeOK
  <2> QED
    BY <1>1, <2>1, KindsType
    DEF WriterRead, shared, Goto, LoggerInv, TypeOK, PacketReady, MutualExclusion,
        SemaphoreCountsQueue, InCritical, Indicator
<1>2. CASE WriterPrint
  <2>1. lines' \in Seq(Packet) /\ seen' \in Text
    BY <1>2, AppendProperties DEF WriterPrint, LoggerInv, TypeOK, Text, NoText
  <2> QED
    BY <1>2, <2>1, KindsType
    DEF WriterPrint, shared, Goto, LoggerInv, TypeOK, PacketReady, MutualExclusion,
        SemaphoreCountsQueue, InCritical, Indicator
<1> QED BY <1>1, <1>2

LEMMA KeyJoyInv ==
  ASSUME LoggerInv, KeyEsc \/ Joy
  PROVE  LoggerInv'
<1>1. CASE KeyEsc
  BY <1>1, KindsType
  DEF KeyEsc, Goto, LoggerInv, TypeOK, PacketReady, MutualExclusion, SemaphoreCountsQueue,
      InCritical, Indicator
<1>2. CASE JoyOpen
  BY <1>2, KindsType
  DEF JoyOpen, shared, Goto, LoggerInv, TypeOK, PacketReady, MutualExclusion,
      SemaphoreCountsQueue, InCritical, Indicator
<1>3. CASE JoyExit
  BY <1>3, KindsType
  DEF JoyExit, shared, Goto, LoggerInv, TypeOK, PacketReady, MutualExclusion,
      SemaphoreCountsQueue, InCritical, Indicator
<1> QED BY <1>1, <1>2, <1>3 DEF Joy

LEMMA StutterInv == LoggerInv /\ UNCHANGED vars => LoggerInv'
BY DEF vars, shared, LoggerInv, TypeOK, PacketReady, MutualExclusion, SemaphoreCountsQueue,
       InCritical, Indicator

\* Every step of every thread keeps the invariant.
LEMMA LoggerInvStep == LoggerInv /\ [Next]_vars => LoggerInv'
<1> SUFFICES ASSUME LoggerInv, [Next]_vars
             PROVE  LoggerInv'
  OBVIOUS
<1>1. CASE Main
  BY <1>1, AddPacketInv, EndTextInv, MainLoopInv, MainPrintInv, MainTickInv, MainEndInv DEF Main
<1>2. CASE Camera
  BY <1>2, AddPacketInv, EndTextInv, CameraInv DEF Camera
<1>3. CASE Writer
  BY <1>3, WriterSyncInv, WriterDequeueInv, WriterPrintInv DEF Writer
<1> QED
  BY <1>1, <1>2, <1>3, KeyJoyInv, StutterInv DEF Next

LEMMA LoggerInvariant == Spec => []LoggerInv
BY InitInv, LoggerInvStep, PTL DEF Spec

\* Every variable of the logger keeps its type.
THEOREM TypeCorrect == Spec => []TypeOK
BY LoggerInvariant, PTL DEF LoggerInv

\* At most one thread touches the queue, and `critical' is down exactly then.
THEOREM Exclusion == Spec => []MutualExclusion
BY LoggerInvariant, PTL DEF LoggerInv

\* The counting semaphore never promises a packet the queue does not hold.
THEOREM SemaphoreAccount == Spec => []SemaphoreCountsQueue
BY LoggerInvariant, PTL DEF LoggerInv

\* The writer's dequeue never returns the NULL it does not test for.
THEOREM NoNull == Spec => []NeverDequeuesNull
<1>1. LoggerInv => NeverDequeuesNull
  BY KindsType DEF LoggerInv, NeverDequeuesNull
<1> QED BY <1>1, LoggerInvariant, PTL

-----------------------------------------------------------------------------
(* What is logged: the records of the file, the writer's and the queue's *)

\* What is logged is a sequence of packets.
LEMMA LoggedType ==
  ASSUME LoggerInv
  PROVE  /\ lines \in Seq(Packet) /\ InHand \in Seq(Packet)
         /\ queue \in Seq(Packet) /\ Logged \in Seq(Packet)
<1>1. lines \in Seq(Packet) /\ queue \in Seq(Packet)
  BY DEF LoggerInv, TypeOK
<1>2. InHand \in Seq(Packet)
  BY DEF InHand, LoggerInv
<1> QED BY <1>1, <1>2, ConcatProperties DEF Logged

\* A record is queued once and then only moves on: what is logged grows at
\* its end, and only when a producer enqueues.
LEMMA LoggedStep ==
  ASSUME LoggerInv, [Next]_vars
  PROVE  \/ Logged' = Logged /\ \A p \in Producers : ~AddEnqueue(p)
         \/ \E p \in Producers :
              AddEnqueue(p) /\ pkt[p] \in Packet /\ Logged' = Append(Logged, pkt[p])
<1>1. /\ lines \in Seq(Packet) /\ InHand \in Seq(Packet)
      /\ queue \in Seq(Packet) /\ Logged \in Seq(Packet)
  BY LoggedType
<1>2. ASSUME NEW p \in Producers, AddEnqueue(p)
      PROVE  pkt[p] \in Packet /\ Logged' = Append(Logged, pkt[p])
  <2>1. pkt[p] \in Packet
    BY <1>2 DEF AddEnqueue, LoggerInv, PacketReady
  <2>2. lines' = lines /\ InHand' = InHand /\ queue' = Append(queue, pkt[p])
    BY <1>2 DEF AddEnqueue, Goto, InHand, LoggerInv, TypeOK
  <2>3. PICK s \in Seq(Packet) : s = lines \o InHand
    BY <1>1, ConcatProperties
  <2>4. <<pkt[p]>> \in Seq(Packet)
    BY <2>1
  <2>5. s \o (queue \o <<pkt[p]>>) = (s \o queue) \o <<pkt[p]>>
    BY <1>1, <2>4, ConcatAssociative
  <2> QED BY <1>1, <2>1, <2>2, <2>3, <2>5, AppendIsConcat DEF Logged
<1>3. CASE WriterDequeue
  <2>1. queue # <<>>
    BY <1>1, <1>3, EmptySeq DEF WriterDequeue, LoggerInv, TypeOK, SemaphoreCountsQueue, Indicator
  <2>2. PICK h \in Packet, t \in Seq(Packet) : h = Head(queue) /\ t = Tail(queue)
    BY <1>1, <2>1, HeadTailProperties
  <2>3. lines' = lines /\ InHand = <<>> /\ InHand' = <<h>> /\ queue' = t
    BY <1>3, <2>1, <2>2 DEF WriterDequeue, Goto, InHand, LoggerInv, TypeOK
  <2>4. queue = <<h>> \o t
    BY <1>1, <2>1, <2>2
  <2>5. (lines \o <<>>) \o queue = (lines \o <<h>>) \o t
    BY <1>1, <2>2, <2>4, ConcatEmptySeq, ConcatAssociative
  <2> QED
    BY <1>3, <2>3, <2>5
    DEF Logged, WriterDequeue, AddEnqueue, LoggerInv, MutualExclusion, InCritical
<1>4. CASE WriterPrint
  <2>1. d \in Packet /\ InHand = <<d>> /\ InHand' = <<>> /\ queue' = queue
    BY <1>4 DEF WriterPrint, shared, Goto, InHand, LoggerInv, TypeOK
  <2>2. lines' = lines \o <<d>>
    BY <1>1, <1>4, <2>1, AppendIsConcat DEF WriterPrint
  <2>3. (lines \o <<d>>) \o <<>> = lines \o <<d>>
    BY <1>1, <2>1, ConcatEmptySeq, ConcatProperties
  <2> QED BY <1>1, <1>4, <2>1, <2>2, <2>3 DEF Logged, WriterPrint, AddEnqueue
<1>5. CASE UNCHANGED <<queue, lines, d, InHand>> /\ \A p \in Producers : ~AddEnqueue(p)
  BY <1>5 DEF Logged
<1>6. ASSUME UNCHANGED <<queue, lines, d>>,
             \/ pc'["writer"] = pc["writer"]
             \/ {pc["writer"], pc'["writer"]} \subseteq HasRecord
             \/ {pc["writer"], pc'["writer"]} \cap HasRecord = {}
      PROVE  UNCHANGED <<queue, lines, d, InHand>>
  BY <1>6 DEF InHand
<1>7. CASE WriterLoop \/ WriterWait \/ WriterLock \/ WriterUnlock \/ WriterRead
  BY <1>5, <1>6, <1>7
  DEF WriterLoop, WriterWait, WriterLock, WriterUnlock, WriterRead, AddEnqueue, Goto, shared,
      LoggerInv, TypeOK
<1>8. CASE /\ Main \/ Camera \/ KeyEsc \/ Joy \/ UNCHANGED vars
           /\ \A p \in Producers : ~AddEnqueue(p)
  BY <1>5, <1>6, <1>8
  DEF Main, Camera, Joy, AddPacket, AddLock, AddPost, AddUnlock, EndText, MainLoop, MainPrint,
      MainTick,
      MainJoin, MainStopRobot, CameraLoop, CameraName, KeyEsc, JoyOpen, JoyExit, Goto, shared,
      vars, LoggerInv, TypeOK
<1> QED BY <1>2, <1>3, <1>4, <1>7, <1>8 DEF Next, Writer

\* The record in hand is the one after those of the file.
LEMMA HandInLog ==
  ASSUME LoggerInv, pc["writer"] \in HasRecord
  PROVE  Len(lines) + 1 \in 1 .. Len(Logged) /\ Logged[Len(lines) + 1] = d
<1>1. /\ lines \in Seq(Packet) /\ InHand = <<d>> /\ <<d>> \in Seq(Packet) /\ queue \in Seq(Packet)
      /\ Len(<<d>>) = 1
  BY LoggedType DEF InHand, LoggerInv
<1>2. PICK s \in Seq(Packet) : s = lines \o <<d>>
  BY <1>1, ConcatProperties
<1>3. Len(s) = Len(lines) + 1 /\ s[Len(lines) + 1] = d
  BY <1>1, <1>2, ConcatProperties
<1>4. Logged = s \o queue
  BY <1>1, <1>2 DEF Logged
<1> QED BY <1>1, <1>2, <1>3, <1>4, ConcatProperties

\* Main counts its cycles one by one.
LEMMA OneByOne == [Next]_vars => timestamp' \in {timestamp, timestamp + 1}
BY DEF Next, Camera, AddPacket, AddLock, AddEnqueue, AddPost, AddUnlock, EndText, CameraLoop,
       CameraName, shared, Main, MainLoop, MainPrint, MainTick, MainJoin, MainStopRobot, Writer,
       WriterLoop, WriterWait, WriterLock, WriterDequeue, WriterUnlock, WriterRead, WriterPrint,
       KeyEsc, Joy, JoyOpen, JoyExit, vars

\* A producer that has made its record and not yet queued it
AboutToQueue(p) == pc[p] \in {"write", "addPacket", "enqueue"}

\* The packets of its cycle that main has queued
Reached ==
  IF pc["main"] \in {"print", "write", "addPacket", "enqueue"} THEN idx - 1
  ELSE IF pc["main"] \in {"postEmpty", "postCritical"} THEN idx
  ELSE IF pc["main"] = "tick" THEN Len(Kinds) ELSE 0

\* Main's packets in the log
MainQueued == MainBefore(Logged, Len(Logged) + 1)

\* Main's packets are numbered by cycle and kind: the next to be queued is
\* what main is about, and as many are queued as it has gone through.
OrderInv ==
  /\ AboutToQueue("main") => pkt["main"] = [type |-> Kinds[idx], ts |-> timestamp]
  /\ AboutToQueue("camera") \/ pc["camera"] = "name" => pkt["camera"].type = FRAME
  /\ EachPacketOnceInOrder
  /\ Cardinality(MainQueued) = timestamp * Len(Kinds) + Reached

\* The packets of main can be counted.
LEMMA QueuedFinite ==
  ASSUME LoggerInv
  PROVE  IsFiniteSet(MainQueued) /\ Cardinality(MainQueued) \in Nat
<1>1. Len(Logged) \in Nat
  BY LoggedType
<1>2. MainQueued \subseteq 1 .. Len(Logged)
  BY <1>1 DEF MainQueued, MainBefore
<1>3. IsFiniteSet(1 .. Len(Logged))
  BY <1>1, FS_Interval
<1> QED BY <1>2, <1>3, FS_Subset, FS_CardinalityType

\* One more record: the packets of main before the others are the same.
LEMMA QueuedAppend ==
  ASSUME LoggerInv, NEW r \in Packet, Logged' = Append(Logged, r)
  PROVE  /\ Len(Logged') = Len(Logged) + 1 /\ Logged'[Len(Logged) + 1] = r
         /\ \A i \in 1 .. Len(Logged) : Logged'[i] = Logged[i]
         /\ \A i \in 1 .. Len(Logged) + 1 : MainBefore(Logged', i) = MainBefore(Logged, i)
         /\ Cardinality(MainQueued') = Cardinality(MainQueued) + (IF r.type = FRAME THEN 0 ELSE 1)
<1>1. Logged \in Seq(Packet) /\ Len(Logged) \in Nat
  BY LoggedType
<1>2. /\ Len(Logged') = Len(Logged) + 1 /\ Logged'[Len(Logged) + 1] = r
      /\ \A i \in 1 .. Len(Logged) : Logged'[i] = Logged[i]
  BY <1>1, AppendProperties
<1>3. ASSUME NEW i \in 1 .. Len(Logged) + 1 PROVE MainBefore(Logged', i) = MainBefore(Logged, i)
  BY <1>1, <1>2 DEF MainBefore
<1>4. MainQueued' = IF r.type = FRAME THEN MainQueued ELSE MainQueued \cup {Len(Logged) + 1}
  BY <1>1, <1>2 DEF MainQueued, MainBefore
<1>5. Len(Logged) + 1 \notin MainQueued
  BY <1>1 DEF MainQueued, MainBefore
<1>6. Cardinality(MainQueued') = Cardinality(MainQueued) + (IF r.type = FRAME THEN 0 ELSE 1)
  <2>1. IsFiniteSet(MainQueued) /\ Cardinality(MainQueued) \in Nat
    BY QueuedFinite
  <2>2. Cardinality(MainQueued \cup {Len(Logged) + 1}) = Cardinality(MainQueued) + 1
    BY <1>5, <2>1, FS_AddElement
  <2> QED BY <1>4, <2>1, <2>2
<1> QED BY <1>2, <1>3, <1>6

\* A cycle more is as many packets more as there are kinds.
LEMMA OneCycleMore == \A t \in Nat, k \in Nat : (t + 1) * k = t * k + k
  OBVIOUS

LEMMA InitOrder == Init => OrderInv
<1> SUFFICES ASSUME Init PROVE OrderInv
  OBVIOUS
<1>1. Logged = <<>>
  BY DEF Init, Logged, InHand
<1>2. MainQueued = {}
  BY <1>1 DEF MainQueued, MainBefore
<1>3. 0 * Len(Kinds) = 0 /\ Len(Kinds) \in Nat
  BY KindsType
<1>4. Cardinality(MainQueued) = timestamp * Len(Kinds) + Reached
  BY <1>2, <1>3, FS_EmptySet DEF Init, Reached
<1> QED BY <1>1, <1>4 DEF Init, OrderInv, EachPacketOnceInOrder, AboutToQueue

\* Main's packet, and the number of it, when no record is queued
LEMMA CountStep ==
  ASSUME LoggerInv, OrderInv, [Next]_vars, \A p \in Producers : ~AddEnqueue(p)
  PROVE  /\ (AboutToQueue("main") => pkt["main"] = [type |-> Kinds[idx], ts |-> timestamp])'
         /\ (AboutToQueue("camera") \/ pc["camera"] = "name" => pkt["camera"].type = FRAME)'
         /\ timestamp' * Len(Kinds) + Reached' = timestamp * Len(Kinds) + Reached
<1>1. /\ timestamp \in Nat /\ Len(Kinds) \in Nat \ {0} /\ idx \in Nat
      /\ timestamp * Len(Kinds) \in Nat
      /\ (timestamp + 1) * Len(Kinds) = timestamp * Len(Kinds) + Len(Kinds)
  BY KindsType, OneCycleMore DEF LoggerInv, TypeOK
<1>2. CASE Main
  <2>1. AboutToQueue("main")' => pkt'["main"] = [type |-> Kinds[idx'], ts |-> timestamp']
    BY <1>2
    DEF Main, AddPacket, AddLock, AddPost, AddUnlock, EndText, MainLoop, MainPrint, MainTick,
        MainJoin,
        JoinOrder, MainStopRobot, Goto, shared, LoggerInv, TypeOK, OrderInv, AboutToQueue
  <2>2. pc'["camera"] = pc["camera"] /\ pkt'["camera"] = pkt["camera"]
    BY <1>2
    DEF Main, AddPacket, AddLock, AddPost, AddUnlock, EndText, MainLoop, MainPrint, MainTick,
        MainJoin,
        MainStopRobot, Goto, shared, LoggerInv, TypeOK
  <2>3. timestamp' * Len(Kinds) + Reached' = timestamp * Len(Kinds) + Reached
    <3>1. CASE MainTick
      BY <1>1, <3>1 DEF MainTick, Goto, Reached, LoggerInv, TypeOK
    <3>2. CASE ~MainTick
      <4>1. timestamp' = timestamp
        BY <1>2, <3>2
        DEF Main, AddPacket, AddLock, AddPost, AddUnlock, EndText, MainLoop, MainPrint, MainJoin,
            MainStopRobot, shared
      <4>2. ASSUME AddPacket("main") PROVE Reached' = Reached
        <5>1. CASE AddLock("main")
          BY <1>1, <5>1 DEF AddLock, Goto, Reached, LoggerInv, TypeOK
        <5>2. CASE ~AddLock("main")
          BY <1>1, <4>2, <5>2 DEF AddPacket, AddPost, AddUnlock, Goto, Reached, LoggerInv, TypeOK
        <5> QED BY <5>1, <5>2
      <4>3. ASSUME MainLoop \/ MainPrint PROVE Reached' = Reached
        BY <1>1, <4>3 DEF MainLoop, MainPrint, Goto, Reached, LoggerInv, TypeOK
      <4>4. ASSUME MainJoin \/ MainStopRobot PROVE Reached' = Reached
        BY <1>1, <4>4 DEF MainJoin, JoinOrder, MainStopRobot, Goto, Reached, LoggerInv, TypeOK
      <4>5. ASSUME EndText("main") PROVE Reached' = Reached
        BY <1>1, <4>5 DEF EndText, Goto, Reached, LoggerInv, TypeOK
      <4> QED BY <1>2, <3>2, <4>1, <4>2, <4>3, <4>4, <4>5 DEF Main
    <3> QED BY <3>1, <3>2
  <2> QED BY <2>1, <2>2, <2>3 DEF OrderInv, AboutToQueue
<1>3. CASE pc'["main"] = pc["main"] /\ UNCHANGED <<timestamp, idx>> /\ pkt'["main"] = pkt["main"]
  <2>1. Reached' = Reached /\ (AboutToQueue("main")' <=> AboutToQueue("main"))
    BY <1>3 DEF Reached, AboutToQueue
  <2>2. AboutToQueue("camera")' \/ pc'["camera"] = "name" => pkt'["camera"].type = FRAME
    BY DEF Next, Camera, AddPacket, AddLock, AddPost, AddUnlock, EndText, CameraLoop, CameraName,
           Goto,
           shared, Main, MainLoop, MainPrint, MainTick, MainJoin, JoinOrder, MainStopRobot,
           Writer, WriterLoop, WriterWait, WriterLock, WriterDequeue, WriterUnlock, WriterRead,
           WriterPrint,
           KeyEsc, Joy, JoyOpen, JoyExit, vars, LoggerInv, TypeOK, OrderInv, AboutToQueue
  <2> QED BY <1>3, <2>1, <2>2 DEF OrderInv
<1>4. CASE Camera \/ Writer \/ KeyEsc \/ Joy \/ UNCHANGED vars
  BY <1>3, <1>4
  DEF Camera, AddPacket, AddLock, AddPost, AddUnlock, EndText, CameraLoop, CameraName, Writer,
      WriterLoop,
      WriterWait, WriterLock, WriterDequeue, WriterUnlock, WriterRead, WriterPrint, KeyEsc, Joy,
      JoyOpen,
      JoyExit, Goto, shared, vars, LoggerInv, TypeOK
<1> QED BY <1>2, <1>4 DEF Next

\* The log stays in order, whoever takes a step.
LEMMA OrderStep == LoggerInv /\ OrderInv /\ [Next]_vars => OrderInv'
<1> SUFFICES ASSUME LoggerInv, OrderInv, [Next]_vars PROVE OrderInv'
  OBVIOUS
<1>1. CASE Logged' = Logged /\ \A p \in Producers : ~AddEnqueue(p)
  <2>1. EachPacketOnceInOrder' /\ MainQueued' = MainQueued
    BY <1>1 DEF OrderInv, EachPacketOnceInOrder, MainBefore, MainQueued
  <2> QED BY <1>1, <2>1, CountStep DEF OrderInv
<1>2. ASSUME NEW p \in Producers, AddEnqueue(p), pkt[p] \in Packet,
             Logged' = Append(Logged, pkt[p])
      PROVE  OrderInv'
  <2>1. /\ Len(Logged') = Len(Logged) + 1 /\ Logged'[Len(Logged) + 1] = pkt[p]
        /\ \A i \in 1 .. Len(Logged) : Logged'[i] = Logged[i]
        /\ \A i \in 1 .. Len(Logged) + 1 : MainBefore(Logged', i) = MainBefore(Logged, i)
        /\ Cardinality(MainQueued') =
             Cardinality(MainQueued) + (IF pkt[p].type = FRAME THEN 0 ELSE 1)
    BY <1>2, QueuedAppend
  <2>2. /\ UNCHANGED <<timestamp, idx, pkt>> /\ Len(Logged) \in Nat
        /\ pc' = [pc EXCEPT ![p] = "postEmpty"] /\ pc[p] = "enqueue"
        /\ AboutToQueue(p) /\ (AboutToQueue("camera")' => AboutToQueue("camera"))
    BY <1>2, LoggedType DEF AddEnqueue, Goto, AboutToQueue, LoggerInv, TypeOK
  <2>3. /\ (AboutToQueue("main") => pkt["main"] = [type |-> Kinds[idx], ts |-> timestamp])'
        /\ (AboutToQueue("camera") \/ pc["camera"] = "name" => pkt["camera"].type = FRAME)'
    BY <1>2, <2>2 DEF OrderInv, AboutToQueue, LoggerInv, TypeOK
  <2>4. CASE p = "camera"
    <3>1. pkt[p].type = FRAME /\ Reached' = Reached /\ Cardinality(MainQueued) \in Nat
      BY <2>2, <2>4, QueuedFinite DEF OrderInv, Reached, LoggerInv, TypeOK
    <3>2. Cardinality(MainQueued') = timestamp' * Len(Kinds) + Reached'
      BY <2>1, <2>2, <3>1 DEF OrderInv
    <3>3. EachPacketOnceInOrder'
      BY <2>1, <2>2, <3>1 DEF OrderInv, EachPacketOnceInOrder
    <3> QED BY <2>3, <3>2, <3>3 DEF OrderInv
  <2>5. CASE p = "main"
    <3>1. PICK k \in 1 .. Len(Kinds), n \in Nat :
            k = idx /\ n = timestamp * Len(Kinds)
      BY <2>2, <2>5, KindsType DEF LoggerInv, TypeOK, PacketReady
    <3>2. pkt[p] = [type |-> Kinds[k], ts |-> timestamp] /\ Kinds[k] # FRAME
      BY <2>2, <2>5, <3>1, KindsAssumption DEF OrderInv, KindSet
    <3>3. k \in Nat /\ Reached = k - 1 /\ Reached' = k
      BY <2>2, <2>5, <3>1, KindsType DEF Reached, LoggerInv, TypeOK
    <3>4. Cardinality(MainQueued) = n + (k - 1)
      BY <3>1, <3>3 DEF OrderInv
    <3>5. Cardinality(MainQueued') = timestamp' * Len(Kinds) + Reached'
      BY <2>1, <2>2, <3>1, <3>2, <3>3, <3>4
    <3>6. /\ Logged'[Len(Logged) + 1].type = Kinds[k] /\ Logged'[Len(Logged) + 1].ts = timestamp
          /\ Cardinality(MainBefore(Logged', Len(Logged) + 1)) = n + k - 1
      BY <2>1, <2>2, <3>2, <3>3, <3>4 DEF MainQueued
    <3>7. ASSUME NEW i \in 1 .. Len(Logged'), Logged'[i].type # FRAME
          PROVE  \E l \in 1 .. Len(Kinds) : /\ Logged'[i].type = Kinds[l]
                   /\ Cardinality(MainBefore(Logged', i)) = Logged'[i].ts * Len(Kinds) + l - 1
      <4>1. CASE i = Len(Logged) + 1
        BY <3>1, <3>6, <4>1
      <4>2. CASE i \in 1 .. Len(Logged)
        BY <2>1, <2>2, <3>7, <4>2 DEF OrderInv, EachPacketOnceInOrder
      <4> QED BY <2>1, <2>2, <4>1, <4>2
    <3>8. EachPacketOnceInOrder'
      BY <3>7 DEF EachPacketOnceInOrder
    <3> QED BY <2>3, <3>5, <3>8 DEF OrderInv
  <2> QED BY <2>4, <2>5
<1> QED BY <1>1, <1>2, LoggedStep

\* Main's packets reach the file once each and in the order it read them,
\* cycle by cycle, whatever the camera puts between (orazio_logger.c:393-429).
THEOREM OnceInOrder == Spec => []EachPacketOnceInOrder
<1>1. OrderInv => EachPacketOnceInOrder
  BY DEF OrderInv
<1> QED BY <1>1, InitOrder, OrderStep, LoggerInvariant, PTL DEF Spec

\* Records are queued in the order of their cycles as far as a frame is
\* concerned: the camera's label was read before it was queued.
TimeInv ==
  /\ \A i, j \in 1 .. Len(Logged) :
       i < j /\ Logged[i].type = FRAME => Logged[i].ts <= Logged[j].ts
  /\ \A i \in 1 .. Len(Logged) :
       Logged[i].ts <= timestamp /\ (Logged[i].type = FRAME => Logged[i].ts <= pkt["camera"].ts)
  /\ pkt["camera"].ts <= timestamp

\* A record's buffer shows its cycle or a later one, from the record's making on.
TextInv ==
  /\ \A k \in Types : buffer[k].of <= timestamp
  /\ \A i \in 1 .. Len(queue) : queue[i].ts <= buffer[queue[i].type].of
  /\ pc["writer"] \in HasRecord => d.ts <= buffer[d.type].of
  /\ pc["main"] \in {"write", "addPacket", "enqueue"} =>
       pkt["main"].ts <= buffer[pkt["main"].type].of
  /\ pc["camera"] \in {"write", "addPacket", "enqueue"} =>
       pkt["camera"].ts <= buffer[pkt["camera"].type].of

LEMMA InitTime == Init => TimeInv /\ TextInv
<1> SUFFICES ASSUME Init PROVE TimeInv /\ TextInv
  OBVIOUS
<1>1. Logged = <<>>
  BY DEF Init, Logged, InHand
<1> QED BY <1>1 DEF Init, TimeInv, TextInv, Null, NoText

LEMMA TimeStep == LoggerInv /\ OrderInv /\ TimeInv /\ [Next]_vars => TimeInv'
<1> SUFFICES ASSUME LoggerInv, OrderInv, TimeInv, [Next]_vars PROVE TimeInv'
  OBVIOUS
<1>1. /\ Logged \in Seq(Packet) /\ timestamp \in Nat /\ pkt["camera"].ts \in Nat
      /\ \A i \in 1 .. Len(Logged) : Logged[i].ts \in Nat
  <2>1. Logged \in Seq(Packet)
    BY LoggedType
  <2>2. \A i \in 1 .. Len(Logged) : Logged[i] \in Packet
    BY <2>1
  <2>3. \A i \in 1 .. Len(Logged) : Logged[i].ts \in Nat
    BY <2>2 DEF Packet
  <2>4. timestamp \in Nat /\ pkt["camera"].ts \in Nat
    BY DEF LoggerInv, TypeOK, Packet, Null
  <2> QED BY <2>1, <2>3, <2>4
<1>2. /\ timestamp' \in {timestamp, timestamp + 1}
      /\ pkt'["camera"].ts \in {pkt["camera"].ts, timestamp}
  <2>1. timestamp' \in {timestamp, timestamp + 1}
    BY OneByOne
  <2>2. pkt'["camera"].ts \in {pkt["camera"].ts, timestamp}
    <3>1. \/ UNCHANGED pkt \/ MainPrint \/ CameraLoop
      BY DEF Next, Camera, AddPacket, AddLock, AddEnqueue, AddPost, AddUnlock, EndText,
             CameraName, shared, Main, MainLoop, MainTick, MainJoin, MainStopRobot, Writer,
             WriterLoop, WriterWait, WriterLock, WriterDequeue, WriterUnlock, WriterRead,
             WriterPrint, KeyEsc, Joy, JoyOpen, JoyExit, vars
    <3> QED BY <3>1 DEF MainPrint, CameraLoop, LoggerInv, TypeOK
  <2> QED BY <2>1, <2>2
<1>3. CASE Logged' = Logged
  BY <1>1, <1>2, <1>3 DEF TimeInv
<1>4. ASSUME NEW p \in Producers, AddEnqueue(p), pkt[p] \in Packet,
             Logged' = Append(Logged, pkt[p])
      PROVE  TimeInv'
  <2>1. UNCHANGED <<timestamp, pkt>> /\ pc[p] = "enqueue"
    BY <1>4 DEF AddEnqueue
  <2>2. PICK r \in Packet : r = pkt[p]
    BY <1>4
  <2>3. /\ p = "main" => r.ts = timestamp /\ r.type # FRAME
        /\ p = "camera" => r.ts = pkt["camera"].ts /\ r.ts \in Nat
    <3>1. p = "main" => r.ts = timestamp /\ r.type = Kinds[idx] /\ idx \in 1 .. Len(Kinds)
      BY <2>1, <2>2 DEF OrderInv, AboutToQueue, LoggerInv, PacketReady
    <3> QED BY <2>2, <3>1, KindsAssumption, <1>1 DEF KindSet
  <2>4. /\ Len(Logged') = Len(Logged) + 1 /\ Logged'[Len(Logged) + 1] = r
        /\ \A i \in 1 .. Len(Logged) : Logged'[i] = Logged[i]
    BY <1>1, <1>4, <2>2, AppendProperties
  <2>5. \A i \in 1 .. Len(Logged) : Logged[i].type = FRAME => Logged[i].ts <= r.ts
    BY <1>1, <2>3 DEF TimeInv
  <2>6. r.ts <= timestamp /\ (r.type = FRAME => r.ts <= pkt["camera"].ts)
    BY <1>1, <2>3 DEF TimeInv
  <2>7. Len(Logged) \in Nat
    BY <1>1
  <2>8. ASSUME NEW i \in 1 .. Len(Logged'), NEW j \in 1 .. Len(Logged'), i < j,
               Logged'[i].type = FRAME
        PROVE  Logged'[i].ts <= Logged'[j].ts
    <3>1. i \in 1 .. Len(Logged) /\ Logged'[i] = Logged[i]
      BY <2>4, <2>7, <2>8
    <3>2. CASE j = Len(Logged) + 1
      BY <2>4, <2>5, <2>8, <3>1, <3>2
    <3>3. CASE j \in 1 .. Len(Logged)
      BY <2>4, <2>8, <3>1, <3>3 DEF TimeInv
    <3> QED BY <2>4, <2>7, <3>2, <3>3
  <2>9. \A i \in 1 .. Len(Logged') :
          /\ Logged'[i].ts <= timestamp
          /\ Logged'[i].type = FRAME => Logged'[i].ts <= pkt["camera"].ts
    BY <2>4, <2>6, <2>7 DEF TimeInv
  <2> QED BY <2>1, <2>8, <2>9 DEF TimeInv
<1> QED BY <1>3, <1>4, LoggedStep

\* What the records and the texts are made of
LEMMA TextTypes ==
  ASSUME LoggerInv
  PROVE  /\ queue \in Seq(Packet) /\ timestamp \in Nat /\ pc \in [Threads -> UNION {Labels[t] : t \in Threads}]
         /\ \A k \in Types : buffer[k].of \in Nat /\ buffer[k].whole \in BOOLEAN
         /\ \A i \in 1 .. Len(queue) : queue[i].ts \in Nat /\ queue[i].type \in Types
         /\ pc["writer"] \in HasRecord => d.ts \in Nat /\ d.type \in Types
         /\ \A p \in Producers : AboutToQueue(p) => pkt[p].ts \in Nat /\ pkt[p].type \in Types
<1>1. queue \in Seq(Packet) /\ buffer \in [Types -> Text]
  BY DEF LoggerInv, TypeOK
<1>2. \A i \in 1 .. Len(queue) : queue[i] \in Packet
  BY <1>1
<1> QED BY <1>1, <1>2 DEF Packet, Text, LoggerInv, TypeOK, PacketReady, AboutToQueue

\* A buffer's cycle only grows, and is one that main has reached.
LEMMA BufferStep ==
  ASSUME LoggerInv, TextInv, [Next]_vars
  PROVE  /\ timestamp' \in {timestamp, timestamp + 1}
         /\ \A k \in Types : buffer[k].of <= buffer'[k].of /\ buffer'[k].of <= timestamp'
<1>1. timestamp' \in {timestamp, timestamp + 1}
  BY OneByOne
<1>2. \A k \in Types : buffer'[k].of \in {buffer[k].of, timestamp}
  <2>1. CASE UNCHANGED buffer
    BY <2>1
  <2>2. CASE \E ks : Abandon(ks)
    BY <2>2 DEF Abandon, LoggerInv, TypeOK, Text
  <2>3. CASE \E k : BeginText(k)
    BY <2>3 DEF BeginText, LoggerInv, TypeOK, Text
  <2>4. CASE \E p \in Producers : EndText(p)
    BY <2>4 DEF EndText, LoggerInv, TypeOK, Text
  <2> QED
    BY <2>1, <2>2, <2>3, <2>4
    DEF Next, Camera, AddPacket, AddLock, AddEnqueue, AddPost, AddUnlock, CameraLoop, CameraName,
        shared, Main, MainLoop, MainPrint, MainTick, MainJoin, MainStopRobot, Writer, WriterLoop,
        WriterWait, WriterLock, WriterDequeue, WriterUnlock, WriterRead, WriterPrint, KeyEsc, Joy,
        JoyOpen, JoyExit, vars
<1> SUFFICES ASSUME NEW k \in Types
             PROVE  buffer[k].of <= buffer'[k].of /\ buffer'[k].of <= timestamp'
  BY <1>1
<1>3. PICK a \in Nat, b \in Nat, t \in Nat :
        a = buffer[k].of /\ b = buffer'[k].of /\ t = timestamp /\ a <= t /\ b \in {a, t}
  BY <1>2, TextTypes DEF TextInv
<1> QED BY <1>1, <1>3

LEMMA TextStep == LoggerInv /\ OrderInv /\ TimeInv /\ TextInv /\ [Next]_vars => TextInv'
<1> SUFFICES ASSUME LoggerInv, OrderInv, TimeInv, TextInv, [Next]_vars PROVE TextInv'
  OBVIOUS
<1> DEFINE Made(p) == pc[p] \in {"write", "addPacket", "enqueue"}
<1>1. /\ queue \in Seq(Packet) /\ timestamp \in Nat
      /\ \A i \in 1 .. Len(queue) : queue[i].ts \in Nat /\ queue[i].type \in Types
      /\ pc["writer"] \in HasRecord => d.ts \in Nat /\ d.type \in Types
      /\ \A p \in Producers : Made(p) => pkt[p].ts \in Nat /\ pkt[p].type \in Types
  BY TextTypes DEF AboutToQueue
\* A record whose text is not older stays one, whatever happens to the text.
<1>2. \A n \in Nat, k \in Types : n <= buffer[k].of => n <= buffer'[k].of
  <2> TAKE n \in Nat, k \in Types
  <2>1. buffer[k].of \in Nat /\ buffer'[k].of \in Nat /\ buffer[k].of <= buffer'[k].of
    <3>1. LoggerInv'
      BY LoggerInvStep
    <3>2. buffer \in [Types -> Text] /\ buffer' \in [Types -> Text]
      BY <3>1 DEF LoggerInv, TypeOK
    <3> QED BY <3>2, BufferStep DEF Text
  <2>2. PICK x \in Nat, y \in Nat : x = buffer[k].of /\ y = buffer'[k].of /\ x <= y
    BY <2>1
  <2> QED BY <2>2
<1>3. \A i \in 1 .. Len(queue) : queue[i].ts <= buffer'[queue[i].type].of
  <2> SUFFICES ASSUME NEW i \in 1 .. Len(queue) PROVE queue[i].ts <= buffer'[queue[i].type].of
    OBVIOUS
  <2>1. PICK n \in Nat, k \in Types : n = queue[i].ts /\ k = queue[i].type /\ n <= buffer[k].of
    BY <1>1 DEF TextInv
  <2> QED BY <1>2, <2>1
<1>4. pc["writer"] \in HasRecord => d.ts <= buffer'[d.type].of
  <2> SUFFICES ASSUME pc["writer"] \in HasRecord PROVE d.ts <= buffer'[d.type].of
    OBVIOUS
  <2>1. PICK n \in Nat, k \in Types : n = d.ts /\ k = d.type /\ n <= buffer[k].of
    BY <1>1 DEF TextInv
  <2> QED BY <1>2, <2>1
<1>5. \A p \in Producers : Made(p) => pkt[p].ts <= buffer'[pkt[p].type].of
  <2> SUFFICES ASSUME NEW p \in Producers, Made(p) PROVE pkt[p].ts <= buffer'[pkt[p].type].of
    OBVIOUS
  <2>1. PICK n \in Nat, k \in Types : n = pkt[p].ts /\ k = pkt[p].type /\ n <= buffer[k].of
    BY <1>1 DEF TextInv
  <2> QED BY <1>2, <2>1
\* What the writer holds afterwards it held before, or took from the queue.
<1>6. \/ pc'["writer"] \in HasRecord => pc["writer"] \in HasRecord /\ d' = d
      \/ WriterDequeue
  BY DEF Next, Camera, AddPacket, AddLock, AddEnqueue, AddPost, AddUnlock, EndText, CameraLoop,
         CameraName, shared, Main, MainLoop, MainPrint, MainTick, MainJoin, JoinOrder,
         MainStopRobot, Writer, WriterLoop, WriterWait, WriterLock, WriterUnlock, WriterRead,
         WriterPrint, KeyEsc, Joy, JoyOpen, JoyExit, vars, Goto, LoggerInv, TypeOK
<1>7. /\ pc'["writer"] \in HasRecord => d'.ts <= buffer'[d'.type].of
      /\ \A i \in 1 .. Len(queue') : queue'[i].ts <= buffer'[queue'[i].type].of
  <2>1. CASE WriterDequeue
    <3>1. queue # <<>>
      BY <1>1, <2>1, EmptySeq DEF WriterDequeue, LoggerInv, TypeOK, SemaphoreCountsQueue, Indicator
    <3>2. /\ Len(queue) \in Nat \ {0} /\ Len(Tail(queue)) = Len(queue) - 1
          /\ \A i \in 1 .. Len(Tail(queue)) : Tail(queue)[i] = queue[i + 1]
      BY <1>1, <3>1, HeadTailProperties
    <3>3. d' = queue[1] /\ queue' = Tail(queue)
      BY <2>1, <3>1 DEF WriterDequeue
    <3>4. /\ d' = queue[1] /\ 1 \in 1 .. Len(queue)
          /\ \A i \in 1 .. Len(queue') : i + 1 \in 1 .. Len(queue) /\ queue'[i] = queue[i + 1]
      BY <3>2, <3>3
    <3> QED BY <1>3, <3>4
  <2>2. ASSUME NEW p \in Producers, AddEnqueue(p)
        PROVE  \A i \in 1 .. Len(queue') : queue'[i].ts <= buffer'[queue'[i].type].of
    <3>1. PICK r \in Packet : r = pkt[p] /\ r.ts <= buffer'[r.type].of
      BY <1>5, <2>2 DEF AddEnqueue, LoggerInv, PacketReady
    <3>2. /\ Len(queue') = Len(queue) + 1 /\ queue'[Len(queue) + 1] = r /\ Len(queue) \in Nat
          /\ \A i \in 1 .. Len(queue) : queue'[i] = queue[i]
      BY <1>1, <2>2, <3>1, AppendProperties DEF AddEnqueue
    <3>3. \A i \in 1 .. Len(queue') : i \in 1 .. Len(queue) \/ i = Len(queue) + 1
      BY <3>2
    <3> QED BY <1>3, <3>1, <3>2, <3>3
  <2>3. CASE ~WriterDequeue /\ \A p \in Producers : ~AddEnqueue(p)
    <3>1. queue' = queue
      BY <2>3
      DEF Next, Camera, AddPacket, AddLock, AddPost, AddUnlock, EndText, CameraLoop, CameraName,
          shared, Main, MainLoop, MainPrint, MainTick, MainJoin, MainStopRobot, Writer,
          WriterLoop, WriterWait, WriterLock, WriterUnlock, WriterRead, WriterPrint, KeyEsc, Joy,
          JoyOpen, JoyExit, vars
    <3> QED BY <1>3, <1>4, <1>6, <2>3, <3>1
  <2>4. ~WriterDequeue => (pc'["writer"] \in HasRecord => d'.ts <= buffer'[d'.type].of)
    BY <1>4, <1>6
  <2>5. \A p \in Producers : AddEnqueue(p) => ~WriterDequeue
    BY DEF AddEnqueue, WriterDequeue, LoggerInv, MutualExclusion, InCritical
  <2> QED BY <2>1, <2>2, <2>3, <2>4, <2>5
\* A record is made with its text, or has been.
<1>8. \A p \in Producers : Made(p)' => pkt'[p].ts <= buffer'[pkt'[p].type].of
  <2>1. CASE MainPrint
    <3>1. /\ pkt'["main"].ts = timestamp /\ pkt'["main"].type \in Types
          /\ buffer'[pkt'["main"].type].of = timestamp
      BY <2>1, KindsType DEF MainPrint, BeginText, LoggerInv, TypeOK, PacketReady, Text
    <3>2. Made("camera")' => Made("camera") /\ pkt'["camera"] = pkt["camera"]
      BY <2>1 DEF MainPrint, Goto, LoggerInv, TypeOK
    <3> QED BY <1>1, <1>5, <3>1, <3>2
  <2>2. CASE CameraName
    <3>1. pkt' = pkt /\ pkt["camera"].type = FRAME /\ buffer'[FRAME].of = timestamp
      BY <2>2, KindsType DEF CameraName, BeginText, OrderInv, LoggerInv, TypeOK, Text
    <3>2. Made("main")' => Made("main")
      BY <2>2 DEF CameraName, Goto, LoggerInv, TypeOK
    <3> QED BY <1>5, <3>1, <3>2 DEF TimeInv
  <2>3. CASE ~MainPrint /\ ~CameraName
    <3>1. \A p \in Producers : Made(p)' => Made(p) /\ pkt'[p] = pkt[p]
      BY <2>3
      DEF Next, Camera, AddPacket, AddLock, AddEnqueue, AddPost, AddUnlock, EndText, CameraLoop,
          shared, Main, MainLoop, MainTick, MainJoin, JoinOrder, MainStopRobot, Writer,
          WriterLoop, WriterWait, WriterLock, WriterDequeue, WriterUnlock, WriterRead,
          WriterPrint, KeyEsc, Joy, JoyOpen, JoyExit, vars, Goto, LoggerInv, TypeOK
    <3> QED BY <1>5, <3>1
  <2> QED BY <2>1, <2>2, <2>3
<1> QED BY <1>7, <1>8, BufferStep DEF TextInv

\* A frame the camera has taken and not yet queued
CameraMay == IF pc["camera"] \in {"name", "write", "addPacket", "enqueue"} THEN 1 ELSE 0

\* What of this cycle is in the log main has gone through in this cycle.
CycleInv ==
  \A i \in 1 .. Len(Logged) :
    Logged[i].type # FRAME /\ Logged[i].ts = timestamp =>
      \E k \in 1 .. Len(Kinds) : k <= Reached /\ Logged[i].type = Kinds[k]

\* Every frame taken is in the log, but the one under way.
FramesLogged == FramesBefore(Logged, Len(Logged) + 1)
FrameInv == Cardinality(FramesLogged) + CameraMay = frames

\* The producer of the i-th record is ahead of it.
AheadAt(i) ==
  IF Logged[i].type = FRAME THEN Cardinality(FramesBefore(Logged, i + 1)) < frames
                            ELSE Logged[i].ts < timestamp

\* Before Stop a buffer is whole for the records that point at it, unless their
\* producer is ahead of them; what the writer reads stays the same likewise.
WholeInv == mode = "Start" =>
  /\ \A i \in 1 .. Len(Logged) : buffer[Logged[i].type].whole \/ AheadAt(i)
  /\ \A p \in Producers : pc[p] \in {"addPacket", "enqueue"} => buffer[pkt[p].type].whole
  /\ pc["writer"] = "reading" => seen = buffer[d.type] \/ AheadAt(Len(lines) + 1)

\* The frames before a record can be counted.
LEMMA FramesFinite ==
  ASSUME LoggerInv, NEW i \in 1 .. Len(Logged) + 1
  PROVE  /\ IsFiniteSet(FramesBefore(Logged, i)) /\ Cardinality(FramesBefore(Logged, i)) \in Nat
         /\ Cardinality(FramesBefore(Logged, i)) <= Cardinality(FramesLogged)
<1>1. Len(Logged) \in Nat
  BY LoggedType
<1>2. FramesBefore(Logged, i) \subseteq FramesLogged /\ FramesLogged \subseteq 1 .. Len(Logged)
  BY <1>1 DEF FramesBefore, FramesLogged
<1>3. IsFiniteSet(1 .. Len(Logged))
  BY <1>1, FS_Interval
<1>4. IsFiniteSet(FramesLogged)
  BY <1>2, <1>3, FS_Subset
<1> QED BY <1>2, <1>4, FS_Subset, FS_CardinalityType

\* A record more: what the log held it holds still.
LEMMA FramesAppend ==
  ASSUME LoggerInv, NEW r \in Packet, Logged' = Append(Logged, r)
  PROVE  /\ Len(Logged') = Len(Logged) + 1 /\ Logged'[Len(Logged) + 1] = r
         /\ \A i \in 1 .. Len(Logged) : Logged'[i] = Logged[i]
         /\ \A i \in 1 .. Len(Logged) + 1 : FramesBefore(Logged', i) = FramesBefore(Logged, i)
         /\ Cardinality(FramesLogged') =
              Cardinality(FramesLogged) + (IF r.type = FRAME THEN 1 ELSE 0)
<1>1. Logged \in Seq(Packet) /\ Len(Logged) \in Nat
  BY LoggedType
<1>2. /\ Len(Logged') = Len(Logged) + 1 /\ Logged'[Len(Logged) + 1] = r
      /\ \A i \in 1 .. Len(Logged) : Logged'[i] = Logged[i]
  BY <1>1, AppendProperties
<1>3. ASSUME NEW i \in 1 .. Len(Logged) + 1
      PROVE  FramesBefore(Logged', i) = FramesBefore(Logged, i)
  BY <1>1, <1>2 DEF FramesBefore
<1>4. FramesLogged' = IF r.type = FRAME THEN FramesLogged \cup {Len(Logged) + 1} ELSE FramesLogged
  BY <1>1, <1>2 DEF FramesBefore, FramesLogged
<1>5. Len(Logged) + 1 \notin FramesLogged
  BY <1>1 DEF FramesBefore, FramesLogged
<1>6. IsFiniteSet(FramesLogged) /\ Cardinality(FramesLogged) \in Nat
  BY <1>1, FramesFinite DEF FramesLogged
<1>7. Cardinality(FramesLogged \cup {Len(Logged) + 1}) = Cardinality(FramesLogged) + 1
  BY <1>5, <1>6, FS_AddElement
<1> QED BY <1>2, <1>3, <1>4, <1>6, <1>7

\* What the camera has taken and what is logged
LEMMA FrameStep ==
  ASSUME LoggerInv, OrderInv, FrameInv, [Next]_vars
  PROVE  FrameInv' /\ frames \in Nat /\ frames' \in {frames, frames + 1}
<1>1. frames \in Nat /\ CameraMay \in Nat /\ Cardinality(FramesLogged) \in Nat
  <2>1. Len(Logged) \in Nat
    BY LoggedType
  <2> QED BY <2>1, FramesFinite DEF FramesLogged, LoggerInv, TypeOK, CameraMay
<1>2. ASSUME NEW p \in Producers, AddEnqueue(p), pkt[p] \in Packet,
             Logged' = Append(Logged, pkt[p])
      PROVE  FrameInv' /\ frames' = frames
  <2>1. Cardinality(FramesLogged') =
          Cardinality(FramesLogged) + (IF pkt[p].type = FRAME THEN 1 ELSE 0)
    BY <1>2, FramesAppend
  <2>2. CASE p = "main"
    <3>1. pkt[p].type # FRAME
      BY <1>2, <2>2, KindsAssumption
      DEF AddEnqueue, OrderInv, AboutToQueue, KindSet, LoggerInv, PacketReady
    <3>2. CameraMay' = CameraMay /\ frames' = frames
      BY <1>2, <2>2 DEF AddEnqueue, Goto, CameraMay, LoggerInv, TypeOK
    <3> QED BY <1>1, <2>1, <3>1, <3>2 DEF FrameInv
  <2>3. CASE p = "camera"
    <3>1. pkt[p].type = FRAME
      BY <1>2, <2>3 DEF AddEnqueue, OrderInv, AboutToQueue
    <3>2. CameraMay = 1 /\ CameraMay' = 0 /\ frames' = frames
      BY <1>2, <2>3 DEF AddEnqueue, Goto, CameraMay, LoggerInv, TypeOK
    <3> QED BY <1>1, <2>1, <3>1, <3>2 DEF FrameInv
  <2> QED BY <2>2, <2>3
<1>3. CASE Logged' = Logged /\ \A p \in Producers : ~AddEnqueue(p)
  <2>1. FramesLogged' = FramesLogged
    BY <1>3 DEF FramesBefore, FramesLogged
  <2>2. CASE CameraLoop
    <3>1. \/ CameraMay = 0 /\ CameraMay' = 1 /\ frames' = frames + 1
          \/ CameraMay = 0 /\ CameraMay' = 0 /\ frames' = frames
      BY <1>1, <2>2 DEF CameraLoop, Goto, CameraMay, LoggerInv, TypeOK
    <3> QED BY <1>1, <2>1, <3>1 DEF FrameInv
  <2>3. CASE ~CameraLoop
    <3>1. CameraMay' = CameraMay /\ frames' = frames
      BY <1>3, <2>3
      DEF Next, Camera, AddPacket, AddLock, AddPost, AddUnlock, EndText, CameraName, shared, Main,
          MainLoop, MainPrint, MainTick, MainJoin, JoinOrder, MainStopRobot, Writer, WriterLoop,
          WriterWait, WriterLock, WriterDequeue, WriterUnlock, WriterRead, WriterPrint, KeyEsc,
          Joy, JoyOpen, JoyExit, vars, Goto, CameraMay, LoggerInv, TypeOK
    <3> QED BY <1>1, <2>1, <3>1 DEF FrameInv
  <2> QED BY <2>2, <2>3
<1> QED BY <1>1, <1>2, <1>3, LoggedStep

\* What main has gone through in its cycle
LEMMA CycleStep ==
  ASSUME LoggerInv, OrderInv, TimeInv, CycleInv, [Next]_vars
  PROVE  CycleInv'
<1>1. /\ timestamp \in Nat /\ Len(Logged) \in Nat /\ Len(Kinds) \in Nat
      /\ \A i \in 1 .. Len(Logged) : Logged[i].ts \in Nat
  <2>1. Logged \in Seq(Packet)
    BY LoggedType
  <2>2. \A i \in 1 .. Len(Logged) : Logged[i] \in Packet
    BY <2>1
  <2> QED BY <2>1, <2>2, KindsType DEF Packet, LoggerInv, TypeOK
<1>2. ASSUME NEW p \in Producers, AddEnqueue(p), pkt[p] \in Packet,
             Logged' = Append(Logged, pkt[p])
      PROVE  CycleInv'
  <2>1. /\ Len(Logged') = Len(Logged) + 1 /\ Logged'[Len(Logged) + 1] = pkt[p]
        /\ \A i \in 1 .. Len(Logged) : Logged'[i] = Logged[i]
        /\ timestamp' = timestamp
    BY <1>2, FramesAppend DEF AddEnqueue
  <2>2. CASE p = "main"
    <3>1. /\ idx \in 1 .. Len(Kinds) /\ pkt[p].type = Kinds[idx]
          /\ Reached = idx - 1 /\ Reached' = idx
      BY <1>2, <2>2 DEF AddEnqueue, Goto, OrderInv, AboutToQueue, Reached, LoggerInv, TypeOK,
                        PacketReady
    <3> SUFFICES ASSUME NEW i \in 1 .. Len(Logged'), Logged'[i].type # FRAME,
                        Logged'[i].ts = timestamp'
                 PROVE  \E k \in 1 .. Len(Kinds) : k <= Reached' /\ Logged'[i].type = Kinds[k]
      BY DEF CycleInv
    <3>2. CASE i = Len(Logged) + 1
      BY <2>1, <3>1, <3>2
    <3>3. CASE i \in 1 .. Len(Logged)
      <4>1. PICK k \in 1 .. Len(Kinds) : k <= Reached /\ Logged[i].type = Kinds[k]
        BY <2>1, <3>3 DEF CycleInv
      <4> QED BY <1>1, <2>1, <3>1, <3>3, <4>1
    <3> QED BY <1>1, <2>1, <3>2, <3>3
  <2>3. CASE p = "camera"
    <3>1. pkt[p].type = FRAME /\ Reached' = Reached
      BY <1>2, <2>3 DEF AddEnqueue, Goto, OrderInv, AboutToQueue, Reached, LoggerInv, TypeOK
    <3> QED BY <1>1, <2>1, <3>1 DEF CycleInv
  <2> QED BY <2>2, <2>3
<1>3. CASE Logged' = Logged /\ \A p \in Producers : ~AddEnqueue(p)
  <2>1. CASE timestamp' = timestamp
    <3>1. Reached \in Int /\ Reached' \in Int
      <4>1. LoggerInv'
        BY LoggerInvStep
      <4> QED BY <1>1, <4>1 DEF Reached, LoggerInv, TypeOK
    <3>2. PICK n \in Int : n = timestamp * Len(Kinds)
      BY <1>1
    <3>3. n + Reached' = n + Reached
      BY <1>3, <2>1, <3>2, CountStep
    <3>4. Reached' = Reached
      BY <3>1, <3>2, <3>3
    <3> QED BY <1>3, <2>1, <3>4 DEF CycleInv
  <2>2. CASE timestamp' = timestamp + 1
    <3>1. \A i \in 1 .. Len(Logged) : Logged[i].ts # timestamp'
      BY <1>1, <2>2 DEF TimeInv
    <3> QED BY <1>3, <3>1 DEF CycleInv
  <2> QED BY <2>1, <2>2, OneByOne
<1> QED BY <1>2, <1>3, LoggedStep

\* Who is ahead of a record stays ahead.
LEMMA AheadStep ==
  ASSUME LoggerInv, OrderInv, FrameInv, [Next]_vars, NEW i \in 1 .. Len(Logged)
  PROVE  /\ Logged'[i] = Logged[i] /\ i \in 1 .. Len(Logged')
         /\ AheadAt(i) => AheadAt(i)'
<1>1. /\ Logged'[i] = Logged[i] /\ i \in 1 .. Len(Logged')
      /\ FramesBefore(Logged', i + 1) = FramesBefore(Logged, i + 1)
  <2>1. Len(Logged) \in Nat /\ i + 1 \in 1 .. Len(Logged) + 1
    BY LoggedType
  <2>2. CASE Logged' = Logged
    BY <2>2
  <2>3. ASSUME NEW r \in Packet, Logged' = Append(Logged, r)
        PROVE  /\ Logged'[i] = Logged[i] /\ i \in 1 .. Len(Logged')
               /\ FramesBefore(Logged', i + 1) = FramesBefore(Logged, i + 1)
    BY <2>1, <2>3, FramesAppend
  <2> QED BY <2>2, <2>3, LoggedStep
<1>2. PICK c \in Nat : c = Cardinality(FramesBefore(Logged, i + 1))
  BY LoggedType, FramesFinite
<1>3. frames \in Nat /\ frames' \in {frames, frames + 1}
  BY FrameStep
<1>4. timestamp \in Nat /\ timestamp' \in {timestamp, timestamp + 1} /\ Logged[i].ts \in Nat
  <2>1. Logged[i] \in Packet
    BY LoggedType
  <2> QED BY <2>1, OneByOne DEF Packet, LoggerInv, TypeOK
<1>5. AheadAt(i) => AheadAt(i)'
  BY <1>1, <1>2, <1>3, <1>4 DEF AheadAt
<1> QED BY <1>1, <1>5

\* Before Stop a buffer changes only under a producer that is ahead of every
\* record that points at it.
LEMMA ChangeAhead ==
  ASSUME LoggerInv, OrderInv, TimeInv, CycleInv, FrameInv, [Next]_vars, mode' = "Start",
         NEW i \in 1 .. Len(Logged), buffer'[Logged[i].type] # buffer[Logged[i].type]
  PROVE  AheadAt(i)
<1>1. /\ Logged[i].ts \in Nat /\ timestamp \in Nat /\ Logged[i].type \in Types
      /\ Len(Logged) \in Nat /\ buffer \in [Types -> Text] /\ frames \in Nat
  <2>1. Logged[i] \in Packet
    BY LoggedType
  <2> QED BY <2>1, LoggedType DEF Packet, LoggerInv, TypeOK
<1>2. \/ MainPrint \/ EndText("main") \/ CameraName \/ EndText("camera")
  BY DEF Next, Camera, AddPacket, AddLock, AddEnqueue, AddPost, AddUnlock, CameraLoop, shared, Main,
         MainLoop, MainTick, MainJoin, MainStopRobot, Writer, WriterLoop, WriterWait, WriterLock,
         WriterDequeue, WriterUnlock, WriterRead, WriterPrint, KeyEsc, Joy, JoyOpen, JoyExit, vars
<1>3. CASE MainPrint \/ EndText("main")
  <2>1. idx \in 1 .. Len(Kinds) /\ Logged[i].type = Kinds[idx] /\ Reached = idx - 1
    <3>1. idx \in 1 .. Len(Kinds) /\ Reached = idx - 1 /\ pc["main"] \in {"print", "write"}
      BY <1>3 DEF MainPrint, EndText, LoggerInv, PacketReady, Reached
    <3>2. EndText("main") => pkt["main"].type = Kinds[idx]
      BY DEF EndText, OrderInv, AboutToQueue
    <3> QED BY <1>1, <1>3, <3>1, <3>2 DEF MainPrint, EndText, BeginText
  <2>2. Logged[i].type # FRAME
    BY <2>1, KindsAssumption DEF KindSet
  <2>3. \A k \in 1 .. Len(Kinds) : Kinds[k] = Kinds[idx] => k = idx
    BY <2>1, KindsAssumption
  <2>4. Logged[i].ts # timestamp
    BY <2>1, <2>2, <2>3, KindsType DEF CycleInv
  <2> QED BY <1>1, <2>2, <2>4 DEF AheadAt, TimeInv
<1>4. CASE CameraName \/ EndText("camera")
  <2>1. Logged[i].type = FRAME /\ CameraMay = 1
    <3>1. EndText("camera") => pkt["camera"].type = FRAME
      BY DEF EndText, OrderInv, AboutToQueue
    <3> QED BY <1>1, <1>4, <3>1 DEF CameraName, EndText, BeginText, CameraMay
  <2>2. PICK c \in Nat, n \in Nat :
          c = Cardinality(FramesBefore(Logged, i + 1)) /\ n = Cardinality(FramesLogged) /\ c <= n
    BY <1>1, FramesFinite DEF FramesLogged
  <2>3. n + 1 = frames
    BY <2>1, <2>2 DEF FrameInv
  <2> QED BY <1>1, <2>1, <2>2, <2>3 DEF AheadAt
<1> QED BY <1>2, <1>3, <1>4

LEMMA WholeStep ==
  ASSUME LoggerInv, OrderInv, TimeInv, CycleInv, FrameInv, WholeInv, [Next]_vars
  PROVE  WholeInv'
<1> SUFFICES ASSUME mode' = "Start"
             PROVE  /\ \A i \in 1 .. Len(Logged') :
                         buffer'[Logged'[i].type].whole \/ AheadAt(i)'
                    /\ \A p \in Producers :
                         pc'[p] \in {"addPacket", "enqueue"} => buffer'[pkt'[p].type].whole
                    /\ pc'["writer"] = "reading" =>
                         seen' = buffer'[d'.type] \/ AheadAt(Len(lines) + 1)'
  BY DEF WholeInv
<1>0. mode = "Start"
  BY DEF Next, Camera, AddPacket, AddLock, AddEnqueue, AddPost, AddUnlock, EndText, CameraLoop,
         CameraName, shared, Main, MainLoop, MainPrint, MainTick, MainJoin, MainStopRobot, Writer,
         WriterLoop, WriterWait, WriterLock, WriterDequeue, WriterUnlock, WriterRead, WriterPrint,
         KeyEsc, Joy, JoyOpen, JoyExit, vars
<1>1. \A i \in 1 .. Len(Logged) : buffer'[Logged'[i].type].whole \/ AheadAt(i)'
  <2> SUFFICES ASSUME NEW i \in 1 .. Len(Logged)
               PROVE  buffer'[Logged'[i].type].whole \/ AheadAt(i)'
    OBVIOUS
  <2>1. CASE buffer'[Logged[i].type] = buffer[Logged[i].type]
    BY <1>0, <2>1, AheadStep DEF WholeInv
  <2>2. CASE buffer'[Logged[i].type] # buffer[Logged[i].type]
    BY <2>2, ChangeAhead, AheadStep
  <2> QED BY <2>1, <2>2
<1>2. \A i \in 1 .. Len(Logged') : buffer'[Logged'[i].type].whole \/ AheadAt(i)'
  <2>1. CASE Logged' = Logged
    BY <1>1, <2>1
  <2>2. ASSUME NEW p \in Producers, AddEnqueue(p), pkt[p] \in Packet,
               Logged' = Append(Logged, pkt[p])
        PROVE  \A i \in 1 .. Len(Logged') : buffer'[Logged'[i].type].whole \/ AheadAt(i)'
    <3>1. Len(Logged') = Len(Logged) + 1 /\ Logged'[Len(Logged) + 1] = pkt[p] /\ Len(Logged) \in Nat
      BY <2>2, FramesAppend, LoggedType
    <3>2. buffer'[pkt[p].type].whole
      BY <1>0, <2>2 DEF AddEnqueue, WholeInv
    <3>3. \A i \in 1 .. Len(Logged') : i \in 1 .. Len(Logged) \/ i = Len(Logged) + 1
      BY <3>1
    <3> QED BY <1>1, <3>1, <3>2, <3>3
  <2> QED BY <2>1, <2>2, LoggedStep
<1>3. ASSUME NEW p \in Producers, pc'[p] \in {"addPacket", "enqueue"}
      PROVE  buffer'[pkt'[p].type].whole
  <2>1. CASE EndText(p)
    <3>1. pkt[p].type \in Types /\ buffer \in [Types -> Text]
      BY <2>1 DEF EndText, LoggerInv, TypeOK, PacketReady, Packet
    <3> QED BY <2>1, <3>1 DEF EndText, Text
  <2>2. CASE ~EndText(p)
    <3>1. pc[p] \in {"addPacket", "enqueue"} /\ pkt'[p] = pkt[p]
      <4>1. CASE p = "main"
        BY <1>3, <2>2, <4>1 
        DEF Next, Camera, AddPacket, AddLock, AddEnqueue, AddPost, AddUnlock, EndText,
            CameraLoop, CameraName, shared, Main, MainLoop, MainPrint, MainTick, MainJoin,
            JoinOrder, MainStopRobot, Writer, WriterLoop, WriterWait, WriterLock, WriterDequeue,
            WriterUnlock, WriterRead, WriterPrint, KeyEsc, Joy, JoyOpen, JoyExit, vars, Goto,
            LoggerInv, TypeOK
      <4>2. CASE p = "camera"
        BY <1>3, <2>2, <4>2 
        DEF Next, Camera, AddPacket, AddLock, AddEnqueue, AddPost, AddUnlock, EndText,
            CameraLoop, CameraName, shared, Main, MainLoop, MainPrint, MainTick, MainJoin,
            JoinOrder, MainStopRobot, Writer, WriterLoop, WriterWait, WriterLock, WriterDequeue,
            WriterUnlock, WriterRead, WriterPrint, KeyEsc, Joy, JoyOpen, JoyExit, vars, Goto,
            LoggerInv, TypeOK
      <4> QED BY <4>1, <4>2
    <3>2. /\ p = "main" => pkt[p].type = Kinds[idx] /\ idx \in 1 .. Len(Kinds)
          /\ p = "camera" => pkt[p].type = FRAME
      BY <3>1 DEF OrderInv, AboutToQueue, LoggerInv, PacketReady
    <3>3. buffer'[pkt[p].type] = buffer[pkt[p].type]
      <4>1. CASE UNCHANGED buffer
        BY <4>1
      <4>2. CASE p = "main" /\ (CameraName \/ EndText("camera"))
        <5>1. EndText("camera") => pkt["camera"].type = FRAME
          BY DEF EndText, OrderInv, AboutToQueue
        <5>2. pkt[p].type # FRAME /\ pkt[p].type \in Types
          BY <3>2, <4>2, KindsType, KindsAssumption DEF KindSet
        <5> QED BY <4>2, <5>1, <5>2 DEF CameraName, EndText, BeginText, LoggerInv, TypeOK
      <4>3. CASE p = "camera" /\ (MainPrint \/ EndText("main"))
        <5>1. /\ idx \in 1 .. Len(Kinds)
              /\ EndText("main") => pkt["main"].type = Kinds[idx]
          BY <4>3 DEF MainPrint, EndText, OrderInv, AboutToQueue, LoggerInv, PacketReady
        <5>2. pkt[p].type = FRAME /\ Kinds[idx] # FRAME /\ FRAME \in Types
          BY <3>2, <4>3, <5>1, KindsType, KindsAssumption DEF KindSet
        <5> QED BY <4>3, <5>1, <5>2 DEF MainPrint, EndText, BeginText, LoggerInv, TypeOK
      <4> QED
        BY <2>2, <3>1, <4>1, <4>2, <4>3
        DEF Next, Camera, AddPacket, AddLock, AddEnqueue, AddPost, AddUnlock, EndText, CameraLoop,
            CameraName, shared, Main, MainLoop, MainPrint, MainTick, MainJoin, MainStopRobot,
            Writer, WriterLoop, WriterWait, WriterLock, WriterDequeue, WriterUnlock, WriterRead,
            WriterPrint, KeyEsc, Joy, JoyOpen, JoyExit, vars
    <3> QED BY <1>0, <3>1, <3>3 DEF WholeInv
  <2> QED BY <2>1, <2>2
<1>4. ASSUME pc'["writer"] = "reading"
      PROVE  seen' = buffer'[d'.type] \/ AheadAt(Len(lines) + 1)'
  <2>1. CASE WriterRead
    BY <2>1 DEF WriterRead, shared
  <2>2. CASE ~WriterRead
    <3>1. pc["writer"] = "reading" /\ UNCHANGED <<seen, d, lines>>
      BY <1>4, <2>2
      DEF Next, Camera, AddPacket, AddLock, AddEnqueue, AddPost, AddUnlock, EndText, CameraLoop,
          CameraName, shared, Main, MainLoop, MainPrint, MainTick, MainJoin, JoinOrder,
          MainStopRobot, Writer, WriterLoop, WriterWait, WriterLock, WriterDequeue, WriterUnlock,
          WriterPrint, KeyEsc, Joy, JoyOpen, JoyExit, vars, Goto, LoggerInv, TypeOK
    <3>2. Len(lines) + 1 \in 1 .. Len(Logged) /\ Logged[Len(lines) + 1] = d
      BY <3>1, HandInLog
    <3>3. CASE buffer'[d.type] = buffer[d.type]
      BY <1>0, <3>1, <3>2, <3>3, AheadStep DEF WholeInv
    <3>4. CASE buffer'[d.type] # buffer[d.type]
      BY <3>1, <3>2, <3>4, ChangeAhead, AheadStep
    <3> QED BY <3>3, <3>4
  <2> QED BY <2>1, <2>2
<1> QED BY <1>2, <1>3, <1>4

\* Nothing logged after a frame is older than the frame; and a line shows a
\* whole text of its cycle or of a later one that main has reached, though the
\* writer reads it after the record was queued, unless Esc was pressed or the
\* producer is ahead of the line (orazio_logger.c:211-238, 256-278, 404-429).
THEOREM InTime == Spec => []LinesInTime
<1> DEFINE AllInv == OrderInv /\ TimeInv /\ TextInv /\ CycleInv /\ FrameInv /\ WholeInv
<1>1. Init => AllInv
  <2> SUFFICES ASSUME Init PROVE CycleInv /\ FrameInv /\ WholeInv
    BY InitOrder, InitTime
  <2>1. Logged = <<>>
    BY DEF Init, Logged, InHand
  <2>2. FramesLogged = {}
    BY <2>1 DEF FramesLogged, FramesBefore
  <2> QED BY <2>1, <2>2, FS_EmptySet DEF Init, CycleInv, FrameInv, CameraMay, WholeInv
<1>2. LoggerInv /\ AllInv /\ [Next]_vars => AllInv'
  BY OrderStep, TimeStep, TextStep, CycleStep, FrameStep, WholeStep
<1>3. LoggerInv /\ AllInv => LinesInTime
  <2> SUFFICES ASSUME LoggerInv, AllInv, pc["writer"] = "reading"
               PROVE  IF Shown.whole THEN d.ts <= Shown.of /\ Shown.of <= timestamp
                                     ELSE mode = "Stop" \/ ProducerAhead
    BY DEF TimeInv, LinesInTime
  <2>1. Len(lines) + 1 \in 1 .. Len(Logged) /\ Logged[Len(lines) + 1] = d
    BY HandInLog
  <2>2. AheadAt(Len(lines) + 1) => ProducerAhead
    <3>1. (Len(lines) + 1) + 1 = Len(lines) + 2
      BY DEF LoggerInv, TypeOK
    <3> QED BY <2>1, <3>1 DEF AheadAt, ProducerAhead
  <2>3. CASE Shown.whole
    <3>1. Shown = buffer[d.type] /\ d.type \in Types
      BY <2>3, TextTypes DEF Shown, NoText
    <3> QED BY <2>3, <3>1 DEF TextInv
  <2>4. CASE ~Shown.whole
    <3>1. mode = "Stop" \/ mode = "Start"
      BY DEF LoggerInv, TypeOK
    <3>2. ASSUME mode = "Start" PROVE AheadAt(Len(lines) + 1)
      BY <2>1, <2>4, <3>2 DEF Shown, WholeInv
    <3> QED BY <2>2, <2>4, <3>1, <3>2
  <2> QED BY <2>3, <2>4
<1> QED BY <1>1, <1>2, <1>3, LoggerInvariant, PTL DEF Spec

\* What main and the camera may still queue once mode is Stop
MainMay ==
  IF pc["main"] \in {"print", "write", "addPacket", "enqueue"} THEN Len(Kinds) + 1 - idx
  ELSE IF pc["main"] \in {"postEmpty", "postCritical"} THEN Len(Kinds) - idx ELSE 0

\* The writer quits when it finds the queue empty after Stop: what main and
\* the camera are about is all that can still come.
LossInv ==
  pc["writer"] = "done" => mode = "Stop" /\ Len(queue) + MainMay + CameraMay <= Len(Kinds) + 1

\* Nobody starts a cycle or a frame once mode is Stop.
LEMMA LossStep == LoggerInv /\ LossInv /\ [Next]_vars => LossInv'
<1> SUFFICES ASSUME LoggerInv, LossInv, [Next]_vars PROVE LossInv'
  OBVIOUS
<1>1. /\ Len(queue) \in Nat /\ Len(Kinds) \in Nat /\ idx \in Nat
      /\ pc["main"] \in {"print", "write", "addPacket", "enqueue", "postEmpty", "postCritical"}
           => idx <= Len(Kinds)
      /\ pc \in [Threads -> UNION {Labels[t] : t \in Threads}]
  BY KindsType DEF LoggerInv, TypeOK, PacketReady
<1>2. MainMay \in Nat /\ CameraMay \in Nat
  BY <1>1 DEF MainMay, CameraMay
<1>3. MainMay' \in Int /\ CameraMay' \in Nat /\ Len(queue') \in Nat
  <2>1. idx' \in {idx, idx + 1, 1} /\ queue' \in Seq(Packet)
    <3>1. LoggerInv'
      BY LoggerInvStep
    <3> QED
      BY <1>1, <3>1
      DEF Next, Camera, AddPacket, AddLock, AddEnqueue, AddPost, AddUnlock, EndText, CameraLoop,
          CameraName, shared, Main, MainLoop, MainPrint, MainTick, MainJoin, MainStopRobot,
          Writer, WriterLoop, WriterWait, WriterLock, WriterDequeue, WriterUnlock, WriterRead,
          WriterPrint,
          KeyEsc, Joy, JoyOpen, JoyExit, vars, LoggerInv, TypeOK
  <2> QED BY <1>1, <2>1 DEF MainMay, CameraMay
<1>4. mode = "Stop" => mode' = "Stop"
  BY DEF Next, Camera, AddPacket, AddLock, AddEnqueue, AddPost, AddUnlock, EndText, CameraLoop,
         CameraName,
         shared, Main, MainLoop, MainPrint, MainTick, MainJoin, MainStopRobot, Writer, WriterLoop,
         WriterWait, WriterLock, WriterDequeue, WriterUnlock, WriterRead, WriterPrint, KeyEsc,
         Joy, JoyOpen,
         JoyExit, vars
<1>5. ASSUME NEW p \in Producers, AddEnqueue(p) PROVE LossInv'
  <2>1. Len(queue') = Len(queue) + 1 /\ pc'["writer"] = pc["writer"]
    BY <1>5, AppendProperties DEF AddEnqueue, Goto, LoggerInv, TypeOK, PacketReady
  <2>2. MainMay' + CameraMay' = MainMay + CameraMay - 1
    <3>1. CASE p = "main"
      <4>1. MainMay' = MainMay - 1 /\ CameraMay' = CameraMay
        BY <1>1, <1>5, <3>1 DEF AddEnqueue, Goto, MainMay, CameraMay
      <4> QED BY <1>2, <4>1
    <3>2. CASE p = "camera"
      <4>1. MainMay' = MainMay /\ CameraMay' = CameraMay - 1
        BY <1>1, <1>5, <3>2 DEF AddEnqueue, Goto, MainMay, CameraMay
      <4> QED BY <1>2, <4>1
    <3> QED BY <3>1, <3>2
  <2>3. Len(queue') + MainMay' + CameraMay' = Len(queue) + MainMay + CameraMay
    <3>1. PICK l \in Int, m \in Int, c \in Int : l = Len(queue) /\ m = MainMay /\ c = CameraMay
      BY <1>1, <1>2
    <3>2. PICK k \in Int, n \in Int, e \in Int : k = Len(queue') /\ n = MainMay' /\ e = CameraMay'
      BY <1>3
    <3>3. k = l + 1 /\ n + e = m + c - 1
      BY <2>1, <2>2, <3>1, <3>2
    <3>4. k + n + e = l + m + c
      BY <3>3
    <3> QED BY <3>1, <3>2, <3>4
  <2> QED BY <1>4, <2>1, <2>3 DEF LossInv
<1>6. CASE pc'["writer"] # "done"
  BY <1>6 DEF LossInv
<1>7. CASE /\ pc["writer"] = "done" /\ queue' = queue
           /\ mode = "Stop" => MainMay' <= MainMay /\ CameraMay' <= CameraMay
  BY <1>1, <1>2, <1>3, <1>4, <1>7 DEF LossInv
<1>8. CASE Writer
  <2>1. CASE WriterLoop
    <3>1. CASE mode = "Stop" /\ queue = <<>>
      <4>1. MainMay <= Len(Kinds) /\ CameraMay <= 1 /\ Len(queue) = 0
        <5>1. pc["main"] \in {"print", "write", "addPacket", "enqueue", "postEmpty", "postCritical"}
                => idx >= 1
          BY DEF LoggerInv, TypeOK
        <5> QED BY <1>1, <3>1, <5>1 DEF MainMay, CameraMay
      <4>2. MainMay' = MainMay /\ CameraMay' = CameraMay /\ queue' = queue /\ mode' = mode
        BY <1>1, <2>1 DEF WriterLoop, Goto, shared, MainMay, CameraMay
      <4> QED BY <1>1, <1>2, <3>1, <4>1, <4>2 DEF LossInv
    <3>2. CASE ~(mode = "Stop" /\ queue = <<>>)
      BY <1>1, <1>6, <2>1, <3>2 DEF WriterLoop, Goto
    <3> QED BY <3>1, <3>2
  <2>2. CASE WriterWait \/ WriterLock \/ WriterDequeue \/ WriterUnlock \/ WriterRead \/ WriterPrint
    BY <1>1, <1>6, <2>2 DEF WriterWait, WriterLock, WriterDequeue, WriterUnlock, WriterRead,
                            WriterPrint, Goto
  <2> QED BY <1>8, <2>1, <2>2 DEF Writer
<1>9. CASE \E p \in Producers : AddLock(p) \/ AddPost(p) \/ AddUnlock(p) \/ EndText(p)
  <2>1. pc'["writer"] = pc["writer"] /\ queue' = queue
    BY <1>1, <1>9 DEF AddLock, AddPost, AddUnlock, EndText, Goto
  <2>2. MainMay' = MainMay /\ CameraMay' = CameraMay
    BY <1>1, <1>9 DEF AddLock, AddPost, AddUnlock, EndText, Goto, MainMay, CameraMay
  <2> QED BY <1>2, <1>6, <1>7, <2>1, <2>2
<1>10. CASE MainLoop \/ MainPrint \/ MainTick \/ MainJoin \/ MainStopRobot
  <2>1. pc'["writer"] = pc["writer"] /\ queue' = queue
    BY <1>1, <1>10 DEF MainLoop, MainPrint, MainTick, MainJoin, MainStopRobot, Goto, shared
  <2>2. CameraMay' = CameraMay
    BY <1>1, <1>10 DEF MainLoop, MainPrint, MainTick, MainJoin, MainStopRobot, Goto, CameraMay
  <2>3. mode = "Stop" => MainMay' = MainMay
    BY <1>1, <1>10
    DEF MainLoop, MainPrint, MainTick, MainJoin, JoinOrder, MainStopRobot, Goto, MainMay
  <2> QED BY <1>2, <1>6, <1>7, <2>1, <2>2, <2>3
<1>11. CASE CameraLoop \/ CameraName \/ KeyEsc \/ Joy \/ UNCHANGED vars
  <2>1. pc'["writer"] = pc["writer"] /\ queue' = queue
    BY <1>1, <1>11 DEF CameraLoop, CameraName, KeyEsc, Joy, JoyOpen, JoyExit, Goto, shared, vars
  <2>2. MainMay' = MainMay
    BY <1>1, <1>11 DEF CameraLoop, CameraName, KeyEsc, Joy, JoyOpen, JoyExit, Goto, vars, MainMay
  <2>3. mode = "Stop" => CameraMay' = CameraMay
    BY <1>1, <1>11 DEF CameraLoop, CameraName, KeyEsc, Joy, JoyOpen, JoyExit, Goto, vars, CameraMay
  <2> QED BY <1>2, <1>6, <1>7, <2>1, <2>2, <2>3
<1> QED BY <1>5, <1>8, <1>9, <1>10, <1>11 DEF Next, Main, Camera, AddPacket

\* Stopped in the middle of a cycle, the writer leaves that cycle's packets and
\* one frame behind at most (orazio_logger.c:211-238, 393-429).
THEOREM LossBounded == Spec => []LossAtMostOneCycle
<1>1. Init => LossInv
  BY DEF Init, LossInv
<1>2. LoggerInv /\ LossInv => LossAtMostOneCycle
  <2> SUFFICES ASSUME LoggerInv, LossInv, pc["writer"] = "done" PROVE Len(queue) <= Len(Kinds) + 1
    BY DEF LossAtMostOneCycle
  <2>1. /\ Len(queue) \in Nat /\ Len(Kinds) \in Nat /\ idx \in Nat
        /\ pc["main"] \in {"print", "write", "addPacket", "enqueue", "postEmpty", "postCritical"}
           => idx <= Len(Kinds)
    BY KindsType DEF LoggerInv, TypeOK, PacketReady
  <2>2. MainMay \in Nat /\ CameraMay \in Nat
    BY <2>1 DEF MainMay, CameraMay
  <2> QED BY <2>1, <2>2 DEF LossInv
<1> QED BY <1>1, <1>2, LossStep, LoggerInvariant, PTL DEF Spec

=============================================================================
