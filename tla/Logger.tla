------------------------------- MODULE Logger -------------------------------
(***************************************************************************)
(* The threads of orazio_logger.c and the log they write: main's loop      *)
(* polls the robot and queues one packet of each kind per cycle, the       *)
(* camera's thread queues frames, the writer's thread prints what is       *)
(* queued to output.txt, and Esc on the keyboard stops them.  Steps are    *)
(* the accesses to what the threads share: mode, timestamp, the queue, the *)
(* two semaphores and the buffers whose addresses are queued.              *)
(*                                                                         *)
(* The queue is the sequence QueueSpec describes; LinkedQueue shows that   *)
(* queue.h implements it.  What main sends to the robot is the subject of  *)
(* DriveMailbox, and is one step here.                                     *)
(***************************************************************************)
EXTENDS Integers, Sequences, FiniteSets

CONSTANTS Kinds,         \* the packets main queues in a cycle, in order
          MaxTimestamp,  \* bound: main starts no cycle after this many
          MaxFrames      \* bound: the camera takes no more frames than this

FRAME == "FRAME"
Producers == {"main", "camera"}
Threads == Producers \cup {"writer", "key", "joy"}
KindSet == {Kinds[i] : i \in 1 .. Len(Kinds)}
Types == KindSet \cup {FRAME}

ASSUME KindsAssumption == /\ Kinds \in Seq(STRING) /\ Kinds # <<>>
                          /\ \A i, j \in 1 .. Len(Kinds) : Kinds[i] = Kinds[j] => i = j
                          /\ FRAME \notin KindSet /\ "NULL" \notin KindSet
ASSUME LoggerBounds == MaxTimestamp \in Nat /\ MaxFrames \in Nat

VARIABLES
  mode,       \* Start, or Stop once Esc was pressed
  timestamp,  \* number of cycles main has completed
  queue,      \* queued genData_t records; data is the address of buffer[type]
  empty,      \* value of the semaphore that counts queued packets
  critical,   \* value of the semaphore that guards the queue
  pc,         \* where each thread is
  idx,        \* main: index in Kinds of the packet it is about
  pkt,        \* producers: the new_packet of addPacket
  buffer,     \* the stack buffer of each type: the cycle of the last text
              \* written there, and whether that text is there whole
  frames,     \* frames the camera has taken
  d,          \* writer: the record it dequeued
  seen,       \* writer: the buffer when fprintf began to read it
  lines       \* output.txt: the type and the timestamp of each line

shared == <<mode, timestamp, queue, empty, critical, buffer>>
vars == <<shared, pc, idx, pkt, frames, d, seen, lines>>

Packet == [type : Types, ts : Nat]
Null == [type |-> "NULL", ts |-> 0]   \* what dequeue returns for an empty queue
Text == [of : Nat, whole : BOOLEAN]
NoText == [of |-> 0, whole |-> FALSE]

Init ==
  /\ mode = "Start" /\ timestamp = 0
  /\ queue = <<>> /\ empty = 0 /\ critical = 1
  /\ pc = [t \in Threads |-> IF t = "joy" THEN "open" ELSE "loop"]
  /\ idx = 1
  /\ pkt = [p \in Producers |-> Null]
  /\ buffer = [k \in Types |-> NoText]
  /\ frames = 0
  /\ d = Null /\ seen = NoText
  /\ lines = <<>>

Goto(t, label) == pc' = [pc EXCEPT ![t] = label]

-----------------------------------------------------------------------------
(* The buffers.  Each is declared in the body of its thread's loop and is   *)
(* at the same address in every turn, so a queued address keeps showing    *)
(* what was written last.  While a text is written over another, or once   *)
(* the thread has left the loop, the bytes there need not be any text.     *)

\* A text of this cycle begins to be written.
BeginText(k) == buffer' = [buffer EXCEPT ![k] = [of |-> timestamp, whole |-> FALSE]]

\* The text of p's packet is written.
EndText(p) ==
  /\ pc[p] = "write"
  /\ buffer' = [buffer EXCEPT ![pkt[p].type].whole = TRUE]
  /\ Goto(p, "addPacket")
  /\ UNCHANGED <<mode, timestamp, queue, empty, critical, idx, pkt, frames, d, seen, lines>>

\* The thread has left the block that declares the buffers of ks.
Abandon(ks) ==
  buffer' = [k \in Types |-> IF k \in ks THEN [buffer[k] EXCEPT !.whole = FALSE] ELSE buffer[k]]

-----------------------------------------------------------------------------
(* addPacket, which the camera's thread has a copy of                      *)

\* sem_wait(&critical)
AddLock(p) ==
  /\ pc[p] = "addPacket"
  /\ critical > 0
  /\ critical' = critical - 1
  /\ Goto(p, "enqueue")
  /\ UNCHANGED <<mode, timestamp, queue, empty, buffer, idx, pkt, frames, d, seen, lines>>

\* Mutant of AddEnqueue: the record goes to the front.
AddPush(p) ==
  /\ pc[p] = "enqueue"
  /\ queue' = <<pkt[p]>> \o queue
  /\ Goto(p, "postEmpty")
  /\ UNCHANGED <<mode, timestamp, empty, critical, buffer, idx, pkt, frames, d, seen, lines>>

AddEnqueue(p) ==
  /\ pc[p] = "enqueue"
  /\ queue' = Append(queue, pkt[p])
  /\ Goto(p, "postEmpty")
  /\ UNCHANGED <<mode, timestamp, empty, critical, buffer, idx, pkt, frames, d, seen, lines>>

\* Mutant of AddPost: the writer is only told when the queue was empty.
AddPostFirst(p) ==
  /\ pc[p] = "postEmpty"
  /\ empty' = IF Len(queue) = 1 THEN empty + 1 ELSE empty
  /\ Goto(p, "postCritical")
  /\ UNCHANGED <<mode, timestamp, queue, critical, buffer, idx, pkt, frames, d, seen, lines>>

\* sem_post(&empty)
AddPost(p) ==
  /\ pc[p] = "postEmpty"
  /\ empty' = empty + 1
  /\ Goto(p, "postCritical")
  /\ UNCHANGED <<mode, timestamp, queue, critical, buffer, idx, pkt, frames, d, seen, lines>>

\* sem_post(&critical) and return: main goes on to the next kind, or to the
\* end of its cycle; the camera's thread sleeps and loops.
AddUnlock(p) ==
  /\ pc[p] = "postCritical"
  /\ critical' = critical + 1
  /\ IF p = "main"
       THEN /\ idx' = idx + 1
            /\ Goto(p, IF idx = Len(Kinds) THEN "tick" ELSE "print")
       ELSE /\ idx' = idx
            /\ Goto(p, "loop")
  /\ UNCHANGED <<mode, timestamp, queue, empty, buffer, pkt, frames, d, seen, lines>>

AddPacket(p) == AddLock(p) \/ AddEnqueue(p) \/ AddPost(p) \/ AddUnlock(p)

-----------------------------------------------------------------------------
(* main *)

\* while (mode != Stop), the send of drive_control and OrazioClient_sync.
MainLoop ==
  /\ pc["main"] = "loop"
  /\ \/ mode = "Stop" /\ Goto("main", "joinKey") /\ Abandon(KindSet) /\ idx' = idx
     \/ /\ mode = "Start" /\ timestamp < MaxTimestamp
        /\ Goto("main", "print") /\ idx' = 1 /\ buffer' = buffer
  /\ UNCHANGED <<mode, timestamp, queue, empty, critical, pkt, frames, d, seen, lines>>

\* OrazioClient_get, and Orazio_printPacket begins to write the kind's
\* buffer; the record is the one addPacket will make.
MainPrint ==
  /\ pc["main"] = "print"
  /\ BeginText(Kinds[idx])
  /\ pkt' = [pkt EXCEPT !["main"] = [type |-> Kinds[idx], ts |-> timestamp]]
  /\ Goto("main", "write")
  /\ UNCHANGED <<mode, timestamp, queue, empty, critical, idx, frames, d, seen, lines>>

MainTick ==
  /\ pc["main"] = "tick"
  /\ timestamp' = timestamp + 1
  /\ Goto("main", "loop")
  /\ UNCHANGED <<mode, queue, empty, critical, buffer, idx, pkt, frames, d, seen, lines>>

\* The four pthread_join, in their order, then stopRobot.
JoinOrder == [joinKey |-> <<"key", "joinJoy">>, joinJoy |-> <<"joy", "joinWriter">>,
              joinWriter |-> <<"writer", "joinCamera">>, joinCamera |-> <<"camera", "stopRobot">>]

MainJoin ==
  /\ pc["main"] \in DOMAIN JoinOrder
  /\ pc[JoinOrder[pc["main"]][1]] = "done"
  /\ Goto("main", JoinOrder[pc["main"]][2])
  /\ UNCHANGED <<shared, idx, pkt, frames, d, seen, lines>>

\* stopRobot, the last ten OrazioClient_sync and OrazioClient_destroy
MainStopRobot ==
  /\ pc["main"] = "stopRobot"
  /\ Goto("main", "done")
  /\ UNCHANGED <<shared, idx, pkt, frames, d, seen, lines>>

Main == \/ AddPacket("main") \/ EndText("main")
        \/ MainLoop \/ MainPrint \/ MainTick \/ MainJoin \/ MainStopRobot

-----------------------------------------------------------------------------
(* getpictureThread *)

\* Mutant of CameraLoop: the frame is labelled with the cycle to come.
CameraLoopNext ==
  /\ pc["camera"] = "loop"
  /\ \/ /\ mode = "Stop" /\ Goto("camera", "done") /\ Abandon({FRAME})
        /\ UNCHANGED <<pkt, frames>>
     \/ /\ mode = "Start" /\ frames < MaxFrames
        /\ frames' = frames + 1
        /\ pkt' = [pkt EXCEPT !["camera"] = [type |-> FRAME, ts |-> timestamp + 1]]
        /\ Goto("camera", "name") /\ buffer' = buffer
  /\ UNCHANGED <<mode, timestamp, queue, empty, critical, idx, d, seen, lines>>

\* while (mode != Stop), camera_frame and int ts = timestamp
CameraLoop ==
  /\ pc["camera"] = "loop"
  /\ \/ /\ mode = "Stop" /\ Goto("camera", "done") /\ Abandon({FRAME})
        /\ UNCHANGED <<pkt, frames>>
     \/ /\ mode = "Start" /\ frames < MaxFrames
        /\ frames' = frames + 1
        /\ pkt' = [pkt EXCEPT !["camera"] = [type |-> FRAME, ts |-> timestamp]]
        /\ Goto("camera", "name") /\ buffer' = buffer
  /\ UNCHANGED <<mode, timestamp, queue, empty, critical, idx, d, seen, lines>>

\* sprintf(nomefile, ...) reads timestamp again and begins to write.
CameraName ==
  /\ pc["camera"] = "name"
  /\ BeginText(FRAME)
  /\ Goto("camera", "write")
  /\ UNCHANGED <<mode, timestamp, queue, empty, critical, idx, pkt, frames, d, seen, lines>>

Camera == AddPacket("camera") \/ EndText("camera") \/ CameraLoop \/ CameraName

-----------------------------------------------------------------------------
(* printfileThread *)

\* Mutant of WriterLoop: Stop alone ends the thread.
WriterLoopStop ==
  /\ pc["writer"] = "loop"
  /\ Goto("writer", IF mode = "Stop" THEN "done" ELSE "waitEmpty")
  /\ UNCHANGED <<shared, idx, pkt, frames, d, seen, lines>>

\* while (!(mode==Stop && isempty(q))).  mode never goes back to Start, so
\* reading it and then the queue decides as reading both at once does.
WriterLoop ==
  /\ pc["writer"] = "loop"
  /\ Goto("writer", IF mode = "Stop" /\ queue = <<>> THEN "done" ELSE "waitEmpty")
  /\ UNCHANGED <<shared, idx, pkt, frames, d, seen, lines>>

\* Mutant of WriterWait: it does not wait.
WriterTryWait ==
  /\ pc["writer"] = "waitEmpty"
  /\ empty' = IF empty > 0 THEN empty - 1 ELSE 0
  /\ Goto("writer", "waitCritical")
  /\ UNCHANGED <<mode, timestamp, queue, critical, buffer, idx, pkt, frames, d, seen, lines>>

\* sem_wait(&empty)
WriterWait ==
  /\ pc["writer"] = "waitEmpty"
  /\ empty > 0
  /\ empty' = empty - 1
  /\ Goto("writer", "waitCritical")
  /\ UNCHANGED <<mode, timestamp, queue, critical, buffer, idx, pkt, frames, d, seen, lines>>

\* sem_wait(&critical)
WriterLock ==
  /\ pc["writer"] = "waitCritical"
  /\ critical > 0
  /\ critical' = critical - 1
  /\ Goto("writer", "dequeue")
  /\ UNCHANGED <<mode, timestamp, queue, empty, buffer, idx, pkt, frames, d, seen, lines>>

WriterDequeue ==
  /\ pc["writer"] = "dequeue"
  /\ IF queue = <<>>
       THEN d' = Null /\ queue' = queue
       ELSE d' = Head(queue) /\ queue' = Tail(queue)
  /\ Goto("writer", "postCritical")
  /\ UNCHANGED <<mode, timestamp, empty, critical, buffer, idx, pkt, frames, seen, lines>>

\* Mutant of WriterUnlock: the semaphore is not posted.
WriterNoUnlock ==
  /\ pc["writer"] = "postCritical"
  /\ Goto("writer", "fprintf")
  /\ UNCHANGED <<shared, idx, pkt, frames, d, seen, lines>>

WriterUnlock ==
  /\ pc["writer"] = "postCritical"
  /\ critical' = critical + 1
  /\ Goto("writer", "fprintf")
  /\ UNCHANGED <<mode, timestamp, queue, empty, buffer, idx, pkt, frames, d, seen, lines>>

\* d->type, d->ts, and fprintf begins to read where d->data points.  There
\* is no test for NULL: the process would end here.
WriterRead ==
  /\ pc["writer"] = "fprintf" /\ d # Null
  /\ seen' = buffer[d.type]
  /\ Goto("writer", "reading")
  /\ UNCHANGED <<shared, idx, pkt, frames, d, lines>>

\* fprintf ends.  What it read is a text only if that was whole and is still
\* the one it began with.
Shown == IF seen = buffer[d.type] THEN seen ELSE NoText

WriterPrint ==
  /\ pc["writer"] = "reading"
  /\ lines' = Append(lines, d)
  /\ seen' = NoText
  /\ Goto("writer", "loop")
  /\ UNCHANGED <<shared, idx, pkt, frames, d>>

Writer == \/ WriterLoop \/ WriterWait \/ WriterLock \/ WriterDequeue
          \/ WriterUnlock \/ WriterRead \/ WriterPrint

-----------------------------------------------------------------------------
(* keyThread and joyThread: what they do to mode and to the joins          *)

\* Esc.  The other keys are DriveMailbox's.
KeyEsc ==
  /\ pc["key"] = "loop"
  /\ mode' = "Stop"
  /\ Goto("key", "done")
  /\ UNCHANGED <<timestamp, queue, empty, critical, buffer, idx, pkt, frames, d, seen, lines>>

\* open() of the joystick fails, and the thread ends, or succeeds.
JoyOpen ==
  /\ pc["joy"] = "open"
  /\ Goto("joy", "loop") \/ Goto("joy", "done")
  /\ UNCHANGED <<shared, idx, pkt, frames, d, seen, lines>>

\* while (mode != Stop)
JoyExit ==
  /\ pc["joy"] = "loop" /\ mode = "Stop"
  /\ Goto("joy", "done")
  /\ UNCHANGED <<shared, idx, pkt, frames, d, seen, lines>>

Joy == JoyOpen \/ JoyExit

Next == Main \/ Camera \/ Writer \/ KeyEsc \/ Joy

Spec == Init /\ [][Next]_vars

\* Each thread that can run is eventually scheduled, and a sem_wait that is
\* enabled again and again succeeds: the producers sleep between packets (the
\* serial line, usleep), so a waiter is awake when the semaphore is posted.
\* Nobody has to press Esc.
Fairness ==
  /\ SF_vars(Main) /\ SF_vars(Camera) /\ SF_vars(Writer)
  /\ WF_vars(Joy)

FairSpec == Spec /\ Fairness

-----------------------------------------------------------------------------
(* Properties *)

AddLabels == {"addPacket", "enqueue", "postEmpty", "postCritical"}
JoinLabels == {"joinKey", "joinJoy", "joinWriter", "joinCamera"}
Labels ==
  [main   |-> {"loop", "print", "write", "tick", "stopRobot", "done"} \cup AddLabels \cup JoinLabels,
   camera |-> {"loop", "name", "write", "done"} \cup AddLabels,
   writer |-> {"loop", "waitEmpty", "waitCritical", "dequeue", "postCritical", "fprintf", "reading",
               "done"},
   key    |-> {"loop", "done"},
   joy    |-> {"open", "loop", "done"}]

TypeOK ==
  /\ mode \in {"Start", "Stop"}
  /\ timestamp \in Nat
  /\ queue \in Seq(Packet)
  /\ empty \in Nat /\ critical \in {0, 1}
  /\ pc \in [Threads -> UNION {Labels[t] : t \in Threads}]
  /\ \A t \in Threads : pc[t] \in Labels[t]
  /\ idx \in 1 .. Len(Kinds) + 1
  /\ pkt \in [Producers -> Packet \cup {Null}]
  /\ buffer \in [Types -> Text]
  /\ frames \in Nat
  /\ d \in Packet \cup {Null} /\ seen \in Text
  /\ lines \in Seq(Packet)

\* Who is between sem_wait(&critical) and sem_post(&critical).
InCritical(t) == pc[t] \in {"enqueue", "postEmpty", "postCritical", "dequeue"}

\* One thread at a time touches the queue's pointers, and the semaphore is
\* down exactly while one does.
MutualExclusion ==
  /\ \A s, t \in Threads : InCritical(s) /\ InCritical(t) => s = t
  /\ (critical = 0) <=> \E t \in Threads : InCritical(t)

Indicator(cond) == IF cond THEN 1 ELSE 0

\* The counting semaphore and the queue move in separate steps of different
\* threads; their difference is the packets enqueued but not yet posted and
\* the one the writer has claimed but not yet dequeued.
SemaphoreCountsQueue ==
  Len(queue) = empty + Indicator(pc["main"] = "postEmpty")
                     + Indicator(pc["camera"] = "postEmpty")
                     + Indicator(pc["writer"] \in {"waitCritical", "dequeue"})

\* Where the writer is while it has a record it has not printed
HasRecord == {"postCritical", "fprintf", "reading"}

\* The writer never gets NULL out of the queue, so printfileThread may use
\* what dequeue returns without a test.
NeverDequeuesNull == pc["writer"] \in HasRecord => d # Null

\* Every record that was queued, in the order of the queue: those in the file,
\* the one the writer holds and those still queued.
InHand == IF pc["writer"] \in HasRecord THEN <<d>> ELSE <<>>
Logged == lines \o InHand \o queue

\* The packets of main before the i-th record of a log
MainBefore(log, i) == {j \in 1 .. i - 1 : log[j].type # FRAME}

\* Main's packets reach the file once each, cycle by cycle and, within a
\* cycle, in the order main reads them, whatever the camera puts between: the
\* k-th packet of a cycle comes after k - 1 of its own cycle and all of the
\* cycles before (orazio_logger.c:393-429).
EachPacketOnceInOrder ==
  \A i \in 1 .. Len(Logged) :
    Logged[i].type # FRAME =>
      \E k \in 1 .. Len(Kinds) :
        /\ Logged[i].type = Kinds[k]
        /\ Cardinality(MainBefore(Logged, i)) = Logged[i].ts * Len(Kinds) + k - 1

\* The frames before the i-th record of a log
FramesBefore(log, i) == {j \in 1 .. i - 1 : log[j].type = FRAME}

\* The producer of the record in hand is ahead of it: it has reached a later
\* cycle or, of a frame, taken another.
ProducerAhead ==
  IF d.type = FRAME THEN Cardinality(FramesBefore(Logged, Len(lines) + 2)) < frames
                    ELSE d.ts < timestamp

\* A line is not ahead and not behind: nothing logged after a frame is older
\* than the frame, so that a reader who meets a FRAME line has seen every
\* packet of the earlier cycles; and, though the writer reads the text after
\* the record was queued, what a line shows is a whole text of the line's cycle
\* or of a later one that main has reached, unless Esc was pressed or the
\* producer is ahead of the line: only then may the line show bytes of several
\* texts, or of none (orazio_logger.c:211-238, 256-278, 404-429).
LinesInTime ==
  /\ \A i, j \in 1 .. Len(Logged) :
       i < j /\ Logged[i].type = FRAME => Logged[i].ts <= Logged[j].ts
  /\ pc["writer"] = "reading" =>
       IF Shown.whole THEN d.ts <= Shown.of /\ Shown.of <= timestamp
                      ELSE mode = "Stop" \/ ProducerAhead

\* The writer may quit while main is still in its last cycle.  What is then
\* left in the queue for ever is that cycle's packets and one frame at most.
LossAtMostOneCycle == pc["writer"] = "done" => Len(queue) <= Len(Kinds) + 1

\* Every packet that is queued is printed, unless the writer has quit.
MaxPackets == MaxTimestamp * Len(Kinds) + MaxFrames
EachPacketWritten ==
  \A n \in 1 .. MaxPackets :
    Len(Logged) >= n ~> Len(lines) >= n \/ pc["writer"] = "done"

\* After Esc every thread but the writer ends, and main gets as far as
\* waiting for the writer.
StopReachesAll ==
  mode = "Stop" ~> /\ \A t \in {"camera", "key", "joy"} : pc[t] = "done"
                   /\ pc["main"] \in {"joinWriter", "joinCamera", "stopRobot", "done"}

\* orazio_logger.c:431-432, "Entrato nella modalita' STOP posso terminare /
\* Chiudo file, telecamera e orazio": after Stop main terminates, having
\* closed the file and stopped the robot.
StopTerminates == mode = "Stop" ~> pc["main"] = "done"
=============================================================================
