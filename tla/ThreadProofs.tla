---------------------------- MODULE ThreadProofs ----------------------------
(***************************************************************************)
(* Threads and what they share with others.  The logger's camera thread,   *)
(* with the driver of the camera; the two that command the robot, with     *)
(* main; the runner of `orazio', with the shell and the web server.  For   *)
(* every number of frames and of first calls: an image is one whole frame. *)
(* For every room for packets, every joystick and any number of keys: the  *)
(* stop is the last command.  For every kind of parameters and any number  *)
(* of commands: an operation gets its own answer, an edit is overwritten   *)
(* on request.                                                             *)
(***************************************************************************)
EXTENDS Camera, DriveMailbox, HostShell, TLAPS

-----------------------------------------------------------------------------
(* The camera *)

\* Who has the buffer and what is in it: the thread has it from the dequeue to the queue,
\* it holds one whole frame then, and of those begun since it was given back.
CameraInv ==
  /\ CameraTypeOK
  /\ owner = "thread" <=> camAt \in {"copy", "copyRest", "queue"}
  /\ owner \in {"ready", "thread"} => buffer[1] = buffer[2]
  /\ owner \in {"filling", "ready", "thread"} => buffer[1] > since
  /\ camAt = "copyRest" => frame[1] = buffer[1]
  /\ camAt \in {"dequeue", "queue", "save", "test", "stopped"} => frame[1] = frame[2]
  /\ camAt = "queue" => frame[1] = buffer[1]

\* At the start the driver has the buffer, and nobody an image.
LEMMA CameraInitInv == CameraInit => CameraInv
<1> SUFFICES ASSUME CameraInit PROVE CameraInv
  OBVIOUS
<1>1. CameraTypeOK
  <2>1. captured = 0 /\ buffer = <<0, 0>> /\ frame = <<0, 0>> /\ warm = WarmUp /\ since = 0
    BY DEF CameraInit, NoFrame
  <2>2. /\ buffer \in (0 .. captured) \X (0 .. captured)
        /\ frame \in (0 .. captured) \X (0 .. captured)
    BY <2>1
  <2>3. captured \in 0 .. MaxCaptured /\ since \in 0 .. captured /\ warm \in 0 .. WarmUp
    BY <2>1, CameraAssumption
  <2>4. owner = "driver" /\ camAt = "dequeue" /\ modeStop \in BOOLEAN
    BY DEF CameraInit
  <2> QED BY <2>2, <2>3, <2>4 DEF CameraTypeOK
<1>2. frame[1] = frame[2]
  BY DEF CameraInit, NoFrame
<1> QED
  BY <1>1, <1>2 DEF CameraInit, CameraInv

\* The return of camera_frame: the warm-up calls are counted down.
LEMMA ReturnedType ==
  ASSUME warm \in 0 .. WarmUp, Returned
  PROVE  warm' \in 0 .. WarmUp /\ camAt' \in {"dequeue", "test", "save"}
BY CameraAssumption DEF Returned

\* The driver writes a buffer that the thread does not have.
LEMMA DriverInv ==
  ASSUME CameraInv, BeginFrame \/ EndFrame
  PROVE  CameraInv'
<1>1. CASE BeginFrame
  <2>1. captured' = captured + 1 /\ captured' \in 0 .. MaxCaptured
    BY <1>1, CameraAssumption DEF BeginFrame, CameraInv, CameraTypeOK
  <2>2. CASE owner = "driver"
    <3>1. /\ buffer' = <<captured + 1, buffer[2]>> /\ owner' = "filling"
      BY <1>1, <2>1, <2>2 DEF BeginFrame, CameraInv, CameraTypeOK
    <3> QED
      BY <1>1, <2>1, <2>2, <3>1, CameraAssumption DEF BeginFrame, CameraInv, CameraTypeOK
  <2>3. CASE owner # "driver"
    BY <1>1, <2>1, <2>3, CameraAssumption DEF BeginFrame, CameraInv, CameraTypeOK
  <2> QED BY <2>2, <2>3
<1>2. CASE EndFrame
  <2>1. buffer' = <<buffer[1], buffer[1]>>
    BY <1>2 DEF EndFrame, CameraInv, CameraTypeOK
  <2> QED
    BY <1>2, <2>1, CameraAssumption DEF EndFrame, CameraInv, CameraTypeOK
<1> QED BY <1>1, <1>2

\* The thread copies a buffer that the driver does not write.
LEMMA ThreadInv ==
  ASSUME CameraInv, Dequeue \/ (\E half \in {1, 2} : Copy(half)) \/ Queue
  PROVE  CameraInv'
<1>1. CASE Dequeue
  <2>1. warm' \in 0 .. WarmUp /\ (owner # "ready" => camAt' \in {"dequeue", "test", "save"})
    BY <1>1, ReturnedType DEF Dequeue, CameraInv, CameraTypeOK
  <2> QED BY <1>1, <2>1 DEF Dequeue, CameraInv, CameraTypeOK
<1>2. CASE Copy(1)
  <2>1. frame' = <<buffer[1], frame[2]>>
    BY <1>2 DEF Copy, CameraInv, CameraTypeOK
  <2> QED
    BY <1>2, <2>1, CameraAssumption DEF Copy, CameraInv, CameraTypeOK
<1>3. CASE Copy(2)
  <2>1. frame' = <<frame[1], buffer[2]>>
    BY <1>3 DEF Copy, CameraInv, CameraTypeOK
  <2> QED
    BY <1>3, <2>1, CameraAssumption DEF Copy, CameraInv, CameraTypeOK
<1>4. CASE Queue
  <2>1. warm' \in 0 .. WarmUp /\ camAt' \in {"dequeue", "test", "save"}
    BY <1>4, ReturnedType DEF Queue, CameraInv, CameraTypeOK
  <2> QED BY <1>4, <2>1, CameraAssumption DEF Queue, CameraInv, CameraTypeOK
<1> QED BY <1>1, <1>2, <1>3, <1>4

\* Every step keeps the invariant.
LEMMA CameraStepInv ==
  ASSUME CameraInv, [CameraNext]_cameraVars
  PROVE  CameraInv'
<1>1. CASE Save \/ TestMode \/ SetStop
  BY <1>1, CameraAssumption DEF Save, TestMode, SetStop, CameraInv, CameraTypeOK
<1>2. CASE UNCHANGED cameraVars
  BY <1>2 DEF cameraVars, CameraInv, CameraTypeOK
<1> QED BY <1>1, <1>2, DriverInv, ThreadInv DEF CameraNext

\* The camera's driver and thread are always in a state of their types, for every
\* number of frames (webcam_manager.h:52-133).
THEOREM CameraTypes == CameraSpec => []CameraTypeOK
<1>1. CameraInv => CameraTypeOK
  BY DEF CameraInv
<1> QED BY <1>1, CameraInitInv, CameraStepInv, PTL DEF CameraSpec

\* No image is a mix of two frames, and none is older than the moment the
\* buffer was given back (webcam_manager.h:101-113).
THEOREM ImagesAreWhole == CameraSpec => []WholeFrames
<1>1. CameraInv => WholeFrames
  BY DEF CameraInv, CameraTypeOK, WholeFrames
<1> QED BY <1>1, CameraInitInv, CameraStepInv, PTL DEF CameraSpec

-----------------------------------------------------------------------------
(* The drive command *)

\* Places of a sender that has the lock
Copying == {"copyTv", "copyRv"}

\* Types, but for the places of the threads
MailTyped ==
  /\ drive \in [Fields -> Int] /\ copied \in [Threads -> Int]
  /\ tx \in Seq(Command) /\ robot \in Command
  /\ DOMAIN pc = Threads /\ DOMAIN todo = Threads
  /\ \A t \in Threads : \A w \in todo[t] : w.field \in Fields /\ w.value \in Int
  /\ events \in Nat

\* Who has stores left, and who holds the lock.
MailInv ==
  /\ pc["key"] \in {"idle", "sent", "done"} \cup Copying => todo["key"] = {}
  /\ pc["joy"] \in {"idle", "done"} /\ (pc["joy"] = "done" \/ events = 0 => todo["joy"] = {})
  /\ todo["main"] \subseteq ZeroStores
  /\ ~stopping \/ pc["main"] # "send" => todo["main"] = {}
  /\ \A t \in Threads : pc[t] \in Copying <=> mutex = t

\* Both velocities are 0, or thread t will store a 0.
Zeroing(t) == \A f \in Axes : drive[f] = 0 \/ Set(f, 0) \in todo[t]
BothZero == drive["tv"] = 0 /\ drive["rv"] = 0
\* Unless a packet was dropped, a stop is what the robot got or will get last.
StopIsLast == ~full => LastCommand = Zero

\* main after its loop
FinalInv ==
  /\ pc["main"] \in {"joinJoy", "stopRobot"} => pc["key"] = "done"
  /\ pc["main"] = "stopRobot" => pc["joy"] = "done"
  /\ stopping => /\ pc["key"] = "done" /\ pc["joy"] = "done"
                 /\ pc["main"] \in {"send", "sent", "done"} \cup Copying
                 /\ pc["main"] = "send" => Zeroing("main")
                 /\ pc["main"] \in Copying => BothZero
                 /\ pc["main"] = "copyRv" => copied["main"] = 0
                 /\ pc["main"] = "sent" => StopIsLast
                 /\ pc["main"] = "done" /\ ~full => robot = Zero
  /\ pc["main"] = "done" => stopping

\* The keyboard after a stop key
KeyInv ==
  lastKey = "stop" /\ events = 0 =>
    /\ pc["key"] \in {"send", "sent", "idle", "done"} \cup Copying
    /\ pc["key"] = "send" => todo["key"] \subseteq ZeroStores /\ Zeroing("key")
    /\ pc["key"] # "send" => BothZero
    /\ pc["key"] = "copyRv" => copied["key"] = 0
    /\ pc["key"] \in {"sent", "idle", "done"} =>
         (pc["main"] = "copyRv" => copied["main"] = 0) /\ StopIsLast

\* The inductive invariant
MailboxInv == MailTyped /\ MailInv /\ FinalInv /\ KeyInv

\* It holds at the start.
LEMMA MailboxInitInv == MailboxInit => MailboxInv
<1> SUFFICES ASSUME MailboxInit PROVE MailboxInv
  OBVIOUS
<1>1. drive \in [Fields -> Int] /\ robot \in Command /\ tx \in Seq(Command)
  BY DEF MailboxInit, Fields, Command, Zero
<1>2. MailTyped /\ MailInv
  BY <1>1 DEF MailboxInit, MailTyped, MailInv, Threads, Copying
<1>3. FinalInv /\ KeyInv
  BY DEF MailboxInit, FinalInv, KeyInv
<1> QED BY <1>2, <1>3 DEF MailboxInv

\* Every step keeps the types.
LEMMA MailboxTypes == MailTyped /\ [MailboxNext]_mailboxVars => MailTyped'
<1> SUFFICES ASSUME MailTyped, [MailboxNext]_mailboxVars PROVE MailTyped'
  OBVIOUS
<1>1. drive \in [Fields -> Int] /\ 0 \in Int /\ 1 \in Int /\ -1 \in Int /\ JoyValues \subseteq Int
  BY MailboxAssumption DEF MailTyped
<1>2. drive' \in [Fields -> Int]
  BY <1>1
  DEF MailTyped, MailboxNext, Key, Joy, Main, Send, Store, SendLock, CopyTv, CopyRv, KeyArrow,
      KeyStop, KeyReturn, KeyEsc, JoyEvent, JoyExit, MainLoop, MainClear, MainSync, MainJoin,
      MainStopRobot, mailboxVars, Fields, Threads
<1>3. copied' \in [Threads -> Int]
  BY <1>1
  DEF MailTyped, MailboxNext, Key, Joy, Main, Send, Store, SendLock, CopyTv, CopyRv, KeyArrow,
      KeyStop, KeyReturn, KeyEsc, JoyEvent, JoyExit, MainLoop, MainClear, MainSync, MainJoin,
      MainStopRobot, mailboxVars, Fields, Threads
<1>4. tx' \in Seq(Command) /\ robot' \in Command
  <2>1. \A t \in {"main", "key"} : [tv |-> copied[t], rv |-> drive.rv] \in Command
    BY DEF MailTyped, Command, Fields, Threads
  <2>2. CASE \E t \in {"main", "key"} : CopyRv(t)
    <3>1. PICK t \in {"main", "key"} : CopyRv(t)
      BY <2>2
    <3>2. PICK c \in Command : c = [tv |-> copied[t], rv |-> drive.rv]
      BY <2>1
    <3>3. tx' \in {tx, Append(tx, c)} /\ robot' = robot
      BY <3>1, <3>2 DEF CopyRv
    <3> QED BY <3>3 DEF MailTyped
  <2>3. CASE MainSync
    BY <2>3 DEF MainSync, MailTyped
  <2>4. CASE UNCHANGED <<tx, robot>>
    BY <2>4 DEF MailTyped
  <2> QED
    BY <2>2, <2>3, <2>4
    DEF MailboxNext, Key, Joy, Main, Send, Store, SendLock, CopyTv, KeyArrow, KeyStop, KeyReturn,
        KeyEsc, JoyEvent, JoyExit, MainLoop, MainClear, MainJoin, MainStopRobot, mailboxVars
<1>5. DOMAIN pc' = Threads /\ DOMAIN todo' = Threads /\ events' \in Nat
  BY DEF MailTyped, MailboxNext, Key, Joy, Main, Send, Store, SendLock, CopyTv, CopyRv, KeyArrow,
         KeyStop, KeyReturn, KeyEsc, JoyEvent, JoyExit, MainLoop, MainClear, MainSync, MainJoin,
         MainStopRobot, mailboxVars, Goto
<1>6. \A t \in Threads : \A w \in todo'[t] : w.field \in Fields /\ w.value \in Int
  <2>1. CASE KeyArrow
    BY <1>1, <2>1 DEF KeyArrow, MailTyped, Set, Fields, Axes, Threads
  <2>2. CASE KeyStop \/ MainStopRobot
    BY <1>1, <2>2 DEF KeyStop, MainStopRobot, MailTyped, Set, Fields, Axes, Threads, ZeroStores
  <2>3. CASE JoyEvent
    <3>1. PICK v \in JoyValues, r \in JoyValues :
            todo' = [todo EXCEPT !["joy"] = {Set("rv", r), Set("tv", v), Set("seq", 1)}]
      BY <2>3 DEF JoyEvent
    <3>2. v \in Int /\ r \in Int
      BY MailboxAssumption
    <3> QED BY <3>1, <3>2 DEF MailTyped, Set, Fields, Threads
  <2>4. CASE \E t \in Threads : Store(t)
    BY <2>4 DEF Store, MailTyped
  <2>5. CASE UNCHANGED todo
    BY <2>5 DEF MailTyped
  <2> QED
    BY <2>1, <2>2, <2>3, <2>4, <2>5 DEF MailboxNext, Key, Joy, Main, Send, SendLock, CopyTv, CopyRv,
     KeyReturn, KeyEsc, JoyExit, MainLoop, MainClear, MainSync, MainJoin, mailboxVars, Threads
<1> QED BY <1>2, <1>3, <1>4, <1>5, <1>6 DEF MailTyped

\* Every step of every thread keeps the invariant.
LEMMA MailboxStepInv == MailboxInv /\ [MailboxNext]_mailboxVars => MailboxInv'
<1> SUFFICES ASSUME MailboxInv, [MailboxNext]_mailboxVars PROVE MailboxInv'
  OBVIOUS
<1> USE DEF MailboxInv, MailInv, FinalInv, KeyInv, MailTyped, Copying, Threads, Fields, Axes,
            ZeroStores, Set, Zeroing, BothZero, StopIsLast, LastCommand, Zero, Command, Goto
<1>0. MailTyped'
  BY MailboxTypes
<1>1. ASSUME NEW t \in Threads, Store(t) PROVE MailboxInv'
  <2>1. MailInv'
    BY <1>1, SMTT(30) DEF Store
  <2>2. FinalInv'
    BY <1>1, SMTT(30) DEF Store
  <2>3. KeyInv'
    BY <1>1 DEF Store
  <2> QED BY <1>0, <2>1, <2>2, <2>3
<1>2. ASSUME NEW t \in {"main", "key"}, SendLock(t) PROVE MailboxInv'
  <2>1. MailInv'
    BY <1>2 DEF SendLock
  <2>2. FinalInv'
    BY <1>2 DEF SendLock
  <2>3. KeyInv'
    BY <1>2 DEF SendLock
  <2> QED BY <1>0, <2>1, <2>2, <2>3
<1>3. ASSUME NEW t \in {"main", "key"}, CopyTv(t) PROVE MailboxInv'
  <2>1. MailInv'
    BY <1>3 DEF CopyTv
  <2>2. FinalInv'
    BY <1>3 DEF CopyTv
  <2>3. KeyInv'
    BY <1>3 DEF CopyTv
  <2> QED BY <1>0, <2>1, <2>2, <2>3
<1>4. ASSUME NEW t \in {"main", "key"}, CopyRv(t) PROVE MailboxInv'
  <2>1. MailInv'
    BY <1>4 DEF CopyRv
  <2>2. FinalInv'
    BY <1>4 DEF CopyRv
  <2>3. KeyInv'
    BY <1>4 DEF CopyRv
  <2> QED BY <1>0, <2>1, <2>2, <2>3
<1>5. CASE KeyArrow
  <2>1. MailInv'
    BY <1>5 DEF KeyArrow
  <2>2. FinalInv'
    BY <1>5 DEF KeyArrow
  <2>3. KeyInv'
    BY <1>5 DEF KeyArrow
  <2> QED BY <1>0, <2>1, <2>2, <2>3
<1>6. CASE KeyStop
  <2>1. MailInv'
    BY <1>6 DEF KeyStop
  <2>2. FinalInv'
    BY <1>6 DEF KeyStop
  <2>3. KeyInv'
    BY <1>6 DEF KeyStop
  <2> QED BY <1>0, <2>1, <2>2, <2>3
<1>7. CASE KeyReturn
  <2>1. MailInv'
    BY <1>7 DEF KeyReturn
  <2>2. FinalInv'
    BY <1>7 DEF KeyReturn
  <2>3. KeyInv'
    BY <1>7 DEF KeyReturn
  <2> QED BY <1>0, <2>1, <2>2, <2>3
<1>8. CASE KeyEsc
  <2>1. MailInv'
    BY <1>8 DEF KeyEsc
  <2>2. FinalInv'
    BY <1>8 DEF KeyEsc
  <2>3. KeyInv'
    BY <1>8 DEF KeyEsc
  <2> QED BY <1>0, <2>1, <2>2, <2>3
<1>9. CASE JoyEvent
  <2>1. MailInv'
    BY <1>9 DEF JoyEvent
  <2>2. FinalInv'
    BY <1>9 DEF JoyEvent
  <2>3. KeyInv'
    BY <1>9 DEF JoyEvent
  <2> QED BY <1>0, <2>1, <2>2, <2>3
<1>10. CASE JoyExit
  <2>1. MailInv'
    BY <1>10 DEF JoyExit
  <2>2. FinalInv'
    BY <1>10 DEF JoyExit
  <2>3. KeyInv'
    BY <1>10 DEF JoyExit
  <2> QED BY <1>0, <2>1, <2>2, <2>3
<1>11. CASE MainLoop
  <2>1. MailInv'
    BY <1>11 DEF MainLoop
  <2>2. FinalInv'
    BY <1>11 DEF MainLoop
  <2>3. KeyInv'
    BY <1>11 DEF MainLoop
  <2> QED BY <1>0, <2>1, <2>2, <2>3
<1>12. CASE MainClear
  <2>1. MailInv'
    BY <1>12 DEF MainClear
  <2>2. FinalInv'
    BY <1>12 DEF MainClear
  <2>3. KeyInv'
    BY <1>12 DEF MainClear
  <2> QED BY <1>0, <2>1, <2>2, <2>3
<1>13. CASE MainSync
  <2>1. MailInv'
    BY <1>13 DEF MainSync
  <2>2. FinalInv'
    BY <1>13 DEF MainSync
  <2>3. KeyInv'
    BY <1>13 DEF MainSync
  <2> QED BY <1>0, <2>1, <2>2, <2>3
<1>14. CASE MainJoin
  <2>1. MailInv'
    BY <1>14 DEF MainJoin
  <2>2. FinalInv'
    BY <1>14 DEF MainJoin
  <2>3. KeyInv'
    BY <1>14 DEF MainJoin
  <2> QED BY <1>0, <2>1, <2>2, <2>3
<1>15. CASE MainStopRobot
  <2>1. MailInv'
    BY <1>15 DEF MainStopRobot
  <2>2. FinalInv'
    BY <1>15 DEF MainStopRobot
  <2>3. KeyInv'
    BY <1>15 DEF MainStopRobot
  <2> QED BY <1>0, <2>1, <2>2, <2>3
<1>16. CASE UNCHANGED mailboxVars
  BY <1>16 DEF mailboxVars
<1> QED
  BY <1>1, <1>2, <1>3, <1>4, <1>5, <1>6, <1>7, <1>8, <1>9, <1>10, <1>11, <1>12, <1>13, <1>14,
     <1>15, <1>16
  DEF MailboxNext, Key, Joy, Main, Send

\* Threads are where the program has places, the client's buffer has no more than it
\* holds, and every store of a sequence number is a 0 or a 1, for every number of presses
\* and events (orazio_logger.c:147-201, 380-450).
THEOREM MailTypes == MailboxSpec => []MailboxTypeOK
<1> DEFINE Inv == MailTyped /\ MailboxTypeOK
<1>1. MailboxInit => Inv
  <2>1. MailboxInit => MailTyped
    BY MailboxInitInv DEF MailboxInv
  <2>2. MailboxInit => MailboxTypeOK
    <3> SUFFICES ASSUME MailboxInit PROVE MailboxTypeOK
      OBVIOUS
    <3>1. tx \in Seq(Command) /\ Len(tx) <= TxRoom
      <4>1. <<>> \in Seq(Command) /\ Len(<<>>) = 0
        OBVIOUS
      <4> QED BY <4>1, MailboxAssumption DEF MailboxInit
    <3>2. pc \in [Threads -> {"loop", "idle", "done", "stores", "send", "copyTv", "copyRv", "sent",
                             "sync", "joinKey", "joinJoy", "stopRobot"}]
      BY DEF MailboxInit, Threads
    <3>3. \A t \in Threads : todo[t] = {}
      BY DEF MailboxInit
    <3>4. copied \in [Threads -> Int] /\ robot \in Command /\ drive \in [seq : {0, 1}, tv : Int, rv : Int]
      BY DEF MailboxInit, Command, Zero
    <3> QED BY <3>1, <3>2, <3>3, <3>4 DEF MailboxInit, MailboxTypeOK
  <2> QED BY <2>1, <2>2
<1>2. Inv /\ [MailboxNext]_mailboxVars => Inv'
  <2> SUFFICES ASSUME Inv, [MailboxNext]_mailboxVars
               PROVE  MailboxTypeOK'
    BY MailboxTypes
  <2>0. /\ copied' \in [Threads -> Int] /\ tx' \in Seq(Command) /\ robot' \in Command
        /\ tx \in Seq(Command)
        /\ \A t \in Threads : \A w \in todo'[t] : w.field \in Fields /\ w.value \in Int
    BY MailboxTypes DEF MailTyped
  <2>1. drive' \in [seq : {0, 1}, tv : Int, rv : Int]
    <3>1. CASE \E t \in Threads : Store(t)
      <4>0. PICK t \in Threads : Store(t)
        BY <3>1
      <4>1. PICK w \in todo[t] : drive' = [drive EXCEPT ![w.field] = w.value]
        BY <4>0 DEF Store
      <4>2. w.field \in Fields /\ w.value \in Int /\ (w.field = "seq" => w.value \in {0, 1})
        BY DEF MailboxTypeOK
      <4> QED BY <4>1, <4>2 DEF MailboxTypeOK, Fields
    <3>2. CASE ~\E t \in Threads : Store(t)
      BY <3>2
      DEF MailboxTypeOK, MailboxNext, Key, Joy, Main, Send, SendLock, CopyTv, CopyRv, KeyArrow,
          KeyStop, KeyReturn, KeyEsc, JoyEvent, JoyExit, MainLoop, MainClear, MainSync, MainJoin,
          MainStopRobot, mailboxVars, Threads
    <3> QED BY <3>1, <3>2
  <2>2. Len(tx') <= TxRoom
    <3>1. CASE \E t \in {"main", "key"} : CopyRv(t)
      <4>1. PICK c : tx' \in {tx, Append(tx, c)} /\ (tx' # tx => Len(tx) < TxRoom)
        BY <3>1 DEF CopyRv
      <4>2. Len(tx) \in Nat /\ Len(Append(tx, c)) = Len(tx) + 1
        BY <2>0
      <4> QED BY <4>1, <4>2, MailboxAssumption DEF MailboxTypeOK
    <3>2. CASE MainSync
      BY <3>2, MailboxAssumption DEF MainSync
    <3>3. CASE tx' = tx
      BY <3>3 DEF MailboxTypeOK
    <3> QED
      BY <3>1, <3>2, <3>3
      DEF MailboxNext, Key, Joy, Main, Send, Store, SendLock, CopyTv, KeyArrow, KeyStop, KeyReturn,
          KeyEsc, JoyEvent, JoyExit, MainLoop, MainClear, MainJoin, MainStopRobot, mailboxVars
  <2>3. \A t \in Threads : \A w \in todo'[t] : w.field = "seq" => w.value \in {0, 1}
    <3>1. ASSUME NEW t \in Threads, Store(t)
          PROVE  \A u \in Threads : todo'[u] \subseteq todo[u]
      BY <3>1 DEF Store, MailTyped
    <3>2. CASE KeyArrow \/ KeyStop \/ JoyEvent \/ MainStopRobot
      <4>1. CASE KeyArrow
        <5>1. PICK a \in Axes, s \in {-1, 1} :
                todo' = [todo EXCEPT !["key"] = {Set(a, drive[a] + s), Set("seq", 1)}]
          BY <4>1 DEF KeyArrow
        <5>2. \A w \in {Set(a, drive[a] + s), Set("seq", 1)} : w.field = "seq" => w.value \in {0, 1}
          BY DEF Set, Axes
        <5> QED BY <5>1, <5>2 DEF MailTyped, MailboxTypeOK
      <4>2. CASE KeyStop \/ MainStopRobot
        <5>1. \A w \in ZeroStores : w.value = 0
          BY DEF ZeroStores, Set
        <5> QED BY <4>2, <5>1 DEF KeyStop, MainStopRobot, MailTyped, MailboxTypeOK
      <4>3. CASE JoyEvent
        <5>1. PICK x \in JoyValues, r \in JoyValues :
                todo' = [todo EXCEPT !["joy"] = {Set("rv", r), Set("tv", x), Set("seq", 1)}]
          BY <4>3 DEF JoyEvent
        <5>2. \A w \in {Set("rv", r), Set("tv", x), Set("seq", 1)} :
                w.field = "seq" => w.value \in {0, 1}
          BY DEF Set
        <5> QED BY <5>1, <5>2 DEF MailTyped, MailboxTypeOK
      <4> QED BY <3>2, <4>1, <4>2, <4>3
    <3>3. CASE todo' = todo
      BY <3>3 DEF MailboxTypeOK
    <3>4. todo' = todo \/ (\E t \in Threads : Store(t)) \/ KeyArrow \/ KeyStop \/ JoyEvent \/ MainStopRobot
      BY DEF MailboxNext, Key, Joy, Main, Send, SendLock, CopyTv, CopyRv, KeyReturn, KeyEsc,
             JoyExit,
             MainLoop, MainClear, MainSync, MainJoin, mailboxVars, Threads
    <3> QED BY <3>1, <3>2, <3>3, <3>4 DEF MailboxTypeOK
  <2>4. /\ mode' \in {"Start", "Stop"} /\ stopping' \in BOOLEAN
        /\ full' \in BOOLEAN /\ missed' \in BOOLEAN
        /\ mutex' \in Threads \cup {"none"} /\ lastKey' \in {"none", "arrow", "stop"}
        /\ keys' \in Nat /\ events' \in Nat
    <3>1. mode' \in {"Start", "Stop"} /\ stopping' \in BOOLEAN
      BY DEF MailboxTypeOK, MailboxNext, Key, Joy, Main, Send, Store, SendLock, CopyTv, CopyRv,
           KeyArrow, KeyStop, KeyReturn, KeyEsc, JoyEvent, JoyExit, MainLoop, MainClear, MainSync,
           MainJoin, MainStopRobot, mailboxVars, Threads
    <3>2. full' \in BOOLEAN /\ mutex' \in Threads \cup {"none"}
      BY DEF MailboxTypeOK, MailboxNext, Key, Joy, Main, Send, Store, SendLock, CopyTv, CopyRv,
           KeyArrow, KeyStop, KeyReturn, KeyEsc, JoyEvent, JoyExit, MainLoop, MainClear, MainSync,
           MainJoin, MainStopRobot, mailboxVars, Threads
    <3>3. lastKey' \in {"none", "arrow", "stop"}
      BY DEF MailboxTypeOK, MailboxNext, Key, Joy, Main, Send, Store, SendLock, CopyTv, CopyRv,
           KeyArrow, KeyStop, KeyReturn, KeyEsc, JoyEvent, JoyExit, MainLoop, MainClear, MainSync,
           MainJoin, MainStopRobot, mailboxVars, Threads
    <3>4. keys' \in {keys, keys + 1} /\ events' \in {events, events + 1}
      BY DEF MailboxTypeOK, MailboxNext, Key, Joy, Main, Send, Store, SendLock, CopyTv, CopyRv,
           KeyArrow, KeyStop, KeyReturn, KeyEsc, JoyEvent, JoyExit, MainLoop, MainClear, MainSync,
           MainJoin, MainStopRobot, mailboxVars, Threads
    <3>5. missed' \in BOOLEAN
      <4>1. \A t \in Threads : Store(t) => missed' \in BOOLEAN
        BY Zenon DEF MailboxTypeOK, Store
      <4>2. MainClear => missed' \in BOOLEAN
        BY Zenon DEF MailboxTypeOK, MainClear
      <4>3. missed' \in {missed, TRUE, FALSE} \/ (\E t \in Threads : Store(t)) \/ MainClear
        BY DEF MailboxNext, Key, Joy, Main, Send, SendLock, CopyTv, CopyRv,
             KeyArrow, KeyStop, KeyReturn, KeyEsc, JoyEvent, JoyExit, MainLoop, MainSync,
             MainJoin, MainStopRobot, mailboxVars, Threads
      <4> QED BY <4>1, <4>2, <4>3 DEF MailboxTypeOK
    <3> QED BY <3>1, <3>2, <3>3, <3>4, <3>5 DEF MailboxTypeOK
  <2>5. pc' \in [Threads -> {"loop", "idle", "done", "stores", "send", "copyTv", "copyRv", "sent",
                             "sync", "joinKey", "joinJoy", "stopRobot"}]
    BY DEF MailboxTypeOK, MailboxNext, Key, Joy, Main, Send, Store, SendLock, CopyTv, CopyRv,
           KeyArrow, KeyStop, KeyReturn, KeyEsc, JoyEvent, JoyExit, MainLoop, MainClear, MainSync,
           MainJoin, MainStopRobot, mailboxVars, Threads, Goto
  <2> QED BY <2>0, <2>1, <2>2, <2>3, <2>4, <2>5 DEF MailboxTypeOK
<1> QED BY <1>1, <1>2, PTL DEF MailboxSpec

\* When main has ended, the robot's last command is the stop: it is made
\* after both threads were joined (orazio_logger.c:438-450).
THEOREM LastIsStop == MailboxSpec => []FinalCommandIsStop
<1>1. MailboxInv => FinalCommandIsStop
  BY DEF MailboxInv, FinalInv, FinalCommandIsStop
<1> QED BY <1>1, MailboxInitInv, MailboxStepInv, PTL DEF MailboxSpec

\* After the stop key the last command is a stop, even if main was sending
\* another when it was pressed (orazio_logger.c:173-201, 397-401).
THEOREM StopKey == MailboxSpec => []StopKeyWins
<1>1. MailboxInv => StopKeyWins
  BY DEF MailboxInv, KeyInv, StopKeyWins, StopIsLast
<1> QED BY <1>1, MailboxInitInv, MailboxStepInv, PTL DEF MailboxSpec

-----------------------------------------------------------------------------
(* Types of the host shell *)

ShellThreads == {"shell", "runner", "web"}
PlaceNames == CommanderPlaces \cup Places["shell"] \cup Places["runner"] \cup Places["web"]
GivenCommands == {Numbered(n, m) : n \in Operations, m \in Commands}

ShellTypeInv ==
  /\ ShellTypeOK /\ place \in [ShellThreads -> PlaceNames]
  /\ doing \in [Commanders -> {Nothing} \cup GivenCommands]

LEMMA PlacesAre ==
  /\ DOMAIN Places = ShellThreads /\ Commanders \subseteq ShellThreads
  /\ Commanders = {"shell", "web"}
  /\ Places["shell"] = CommanderPlaces \cup {"joinRunner", "joinWeb"}
  /\ Places["web"] = CommanderPlaces \cup {"start"}
  /\ Places["runner"] = {"loop", "state", "postState", "param", "issue", "await",
                         "refreshParams", "post", "done"}
  /\ \A t \in ShellThreads : Places[t] \subseteq PlaceNames
  /\ \A c \in Commanders : CommanderPlaces \subseteq Places[c]
BY DEF Places, ShellThreads, Commanders, PlaceNames

LEMMA CommanderPlacesAre ==
  /\ ParamPlaces \subseteq CommanderPlaces
  /\ {"loop", "idle", "done", "set", "send", "quit", "dump", "raiseState", "waitState", "param",
      "storeType", "init", "raise", "wait", "lower", "return"} = CommanderPlaces
BY DEF ParamPlaces, CommanderPlaces

\* A thread goes to another place.
LEMMA GoesTo ==
  ASSUME ShellTypeInv, NEW t \in ShellThreads, NEW p \in Places[t], To(t, p)
  PROVE  /\ place' \in [ShellThreads -> PlaceNames] /\ place'[t] = p
         /\ DOMAIN place' = DOMAIN Places /\ \A u \in DOMAIN Places : place'[u] \in Places[u]
         /\ \A u \in ShellThreads : u # t => place'[u] = place[u]
<1>1. place \in [ShellThreads -> PlaceNames] /\ p \in PlaceNames
  BY PlacesAre DEF ShellTypeInv
<1>2. place' \in [ShellThreads -> PlaceNames] /\ place'[t] = p
      /\ \A u \in ShellThreads : u # t => place'[u] = place[u]
  BY <1>1 DEF To
<1>3. \A u \in ShellThreads : place[u] \in Places[u]
  BY PlacesAre DEF ShellTypeInv, ShellTypeOK
<1> QED BY <1>2, <1>3, PlacesAre

\* The command is executed.
LEMMA Ends ==
  ASSUME ShellTypeInv, NEW c \in Commanders, End(c)
  PROVE  /\ To(c, "loop") /\ "loop" \in Places[c] /\ c \in ShellThreads
         /\ doing' \in [Commanders -> {Nothing} \cup GivenCommands] /\ doing'[c] = Nothing
         /\ \A d \in Commanders : d # c => doing'[d] = doing[d]
BY PlacesAre, CommanderPlacesAre DEF End, ShellTypeInv

LEMMA DoingTyped ==
  ASSUME NEW f \in [Commanders -> {Nothing} \cup GivenCommands]
  PROVE  \A c \in Commanders :
           f[c] = Nothing \/ \E n \in Operations, m \in Commands : f[c] = Numbered(n, m)
BY DEF GivenCommands

LEMMA NumberedIs ==
  ASSUME NEW n \in Operations, NEW m \in Commands
  PROVE  /\ Numbered(n, m) # Nothing /\ Numbered(n, m).number = n
         /\ Numbered(n, m).name = m.name /\ Numbered(n, m).type = m.type
BY ShellAssumption DEF Numbered, Nothing, None, Operations

LEMMA DoingIs ==
  ASSUME ShellTypeInv, NEW c \in Commanders, doing[c] # Nothing
  PROVE  /\ doing[c].number \in Operations /\ doing[c].type \in ParamTypes
         /\ doing[c].name \in {"set", "send", "param", "dump", "quit"}
<1>1. PICK n \in Operations, m \in Commands : doing[c] = Numbered(n, m)
  BY DEF ShellTypeInv, GivenCommands
<1> QED BY <1>1, NumberedIs DEF Commands

LEMMA ShellStarts == ShellInit => ShellTypeInv
<1> SUFFICES ASSUME ShellInit PROVE ShellTypeInv
  OBVIOUS
<1>1. PICK w \in {"start", "done"} : place = [shell |-> "loop", runner |-> "loop", web |-> w]
  BY DEF ShellInit
<1>2. /\ DOMAIN place = ShellThreads /\ place["shell"] = "loop" /\ place["runner"] = "loop"
      /\ place["web"] = w /\ place = [t \in ShellThreads |-> place[t]]
  BY <1>1 DEF ShellThreads
<1>3. \A t \in ShellThreads : place[t] \in Places[t]
  BY <1>1, <1>2, PlacesAre, CommanderPlacesAre DEF ShellThreads
<1>4. place \in [ShellThreads -> PlaceNames]
  BY <1>2, <1>3, PlacesAre
<1>5. doing \in [Commanders -> {Nothing} \cup GivenCommands]
  BY DEF ShellInit
<1>6. 0 \in Numbers /\ 0 \in 0 .. Cycles /\ 0 \in 0 .. 1 /\ 0 \in 0 .. 2
  BY ShellAssumption DEF Numbers
<1>7. param_control \in [action : Numbers, type : Numbers] /\ query \in Numbers
      /\ op_result \in [of : Numbers, status : {"Success", "Timeout"}] /\ given \in Numbers
  BY <1>6 DEF ShellInit, None
<1>8. param_sem \in 0 .. 1 /\ state_sem \in 0 .. Cycles /\ left \in [Commanders -> 0 .. Cycles]
      /\ issued \in [Operations -> 0 .. 2]
  BY <1>6 DEF ShellInit
<1>9. /\ run \in BOOLEAN /\ ws_run \in {"unset", "on", "off"}
      /\ {param_sem_init, state_sem_init, late, overlap, wild} \subseteq BOOLEAN
      /\ edited \in [ParamTypes -> BOOLEAN] /\ asked \in [Operations -> ParamTypes \cup {"none"}]
  BY DEF ShellInit
<1> QED
  BY <1>2, <1>3, <1>4, <1>5, <1>7, <1>8, <1>9, PlacesAre, DoingTyped DEF ShellTypeInv, ShellTypeOK

-----------------------------------------------------------------------------
(* Every step keeps the types *)

PlaceTyped ==
  /\ place \in [ShellThreads -> PlaceNames]
  /\ DOMAIN place = DOMAIN Places /\ \A t \in DOMAIN Places : place[t] \in Places[t]
RestTyped ==
  /\ run \in BOOLEAN /\ ws_run \in {"unset", "on", "off"}
  /\ param_control \in [action : Numbers, type : Numbers] /\ query \in Numbers
  /\ op_result \in [of : Numbers, status : {"Success", "Timeout"}]
  /\ param_sem \in 0 .. 1 /\ state_sem \in 0 .. Cycles
  /\ {param_sem_init, state_sem_init, late, overlap, wild} \subseteq BOOLEAN
  /\ left \in [Commanders -> 0 .. Cycles] /\ edited \in [ParamTypes -> BOOLEAN]
  /\ asked \in [Operations -> ParamTypes \cup {"none"}] /\ issued \in [Operations -> 0 .. 2]
  /\ given \in Numbers

LEMMA TypesAre ==
  ShellTypeInv <=> PlaceTyped /\ doing \in [Commanders -> {Nothing} \cup GivenCommands] /\ RestTyped
BY DoingTyped DEF ShellTypeInv, ShellTypeOK, PlaceTyped, RestTyped

LEMMA TypesNext ==
  ASSUME PlaceTyped', doing' \in [Commanders -> {Nothing} \cup GivenCommands], RestTyped'
  PROVE  ShellTypeInv'
<1>1. (ShellTypeInv <=>
         PlaceTyped /\ doing \in [Commanders -> {Nothing} \cup GivenCommands] /\ RestTyped)'
  BY TypesAre, PTL
<1> QED BY <1>1

LEMMA GoesTyped ==
  ASSUME ShellTypeInv, NEW t \in ShellThreads, NEW p \in Places[t], To(t, p)
  PROVE  PlaceTyped'
BY GoesTo, PlacesAre DEF PlaceTyped

LEMMA CommanderGoes ==
  ASSUME ShellTypeInv, NEW c \in Commanders, NEW p \in CommanderPlaces, To(c, p)
  PROVE  PlaceTyped'
BY GoesTyped, PlacesAre

LEMMA SmallBounds ==
  /\ 0 \in Numbers /\ 0 \in 0 .. Cycles /\ 0 \in 0 .. 1 /\ 1 \in 0 .. 1 /\ Cycles \in 0 .. Cycles
  /\ 0 \in 0 .. 2 /\ 1 \in 0 .. 2 /\ 2 \in 0 .. 2 /\ Operations \subseteq Numbers
  /\ \A i \in 0 .. Cycles : /\ i < Cycles => i + 1 \in 0 .. Cycles
                            /\ i > 0 => i - 1 \in 0 .. Cycles
  /\ \A i \in 0 .. 1 : i > 0 => i - 1 \in 0 .. 1
  /\ \A i \in 0 .. 2 : (IF i < 2 THEN i + 1 ELSE 2) \in 0 .. 2
BY ShellAssumption DEF Numbers, Operations

LEMMA EndTyped ==
  ASSUME ShellTypeInv, NEW c \in Commanders, End(c)
  PROVE  PlaceTyped' /\ doing' \in [Commanders -> {Nothing} \cup GivenCommands]
BY Ends, GoesTyped

LEMMA TypesStep ==
  ASSUME ShellTypeInv, [ShellNext]_shellVars
  PROVE  ShellTypeInv'
<1> USE DEF querying, dumping, history
<1>0. PlaceTyped /\ doing \in [Commanders -> {Nothing} \cup GivenCommands] /\ RestTyped
  BY TypesAre
<1>1. ASSUME NEW c \in Commanders, NEW m \in CommandsOf[c], Give(c, m) PROVE ShellTypeInv'
  <2>1. m \in Commands /\ m.name \in CommanderPlaces /\ m.type \in ParamTypes
    BY ShellAssumption, CommanderPlacesAre DEF Commands
  <2>2. given \in Numbers /\ given + 1 \in Operations /\ given + 1 \in Numbers
    BY <1>1, <1>0, ShellAssumption DEF Give, RestTyped, Numbers, Operations
  <2>3. Numbered(given + 1, m) \in GivenCommands
    BY <2>1, <2>2 DEF GivenCommands
  <2>4. doing' \in [Commanders -> {Nothing} \cup GivenCommands]
    BY <1>1, <1>0, <2>3 DEF Give
  <2>5. PlaceTyped'
    BY <1>1, <2>1, CommanderGoes DEF Give
  <2>6. overlap' \in BOOLEAN
    BY <1>1, <1>0 DEF Give, RestTyped
  <2>7. asked' \in [Operations -> ParamTypes \cup {"none"}] /\ given' \in Numbers
    BY <1>1, <1>0, <2>1, <2>2 DEF Give, RestTyped
  <2>8. RestTyped'
    BY <1>1, <1>0, <2>6, <2>7 DEF Give, RestTyped
  <2> QED BY <2>4, <2>5, <2>8, TypesNext
<1>2. ASSUME NEW c \in Commanders, SetVariable(c) PROVE ShellTypeInv'
  <2>1. RestTyped'
    BY <1>2, <1>0 DEF SetVariable, RestTyped
  <2> QED BY <1>2, <2>1, EndTyped, TypesNext DEF SetVariable
<1>3. ASSUME NEW c \in Commanders, SendVariable(c) PROVE ShellTypeInv'
  <2>1. RestTyped'
    BY <1>3, <1>0 DEF SendVariable, RestTyped
  <2> QED BY <1>3, <2>1, EndTyped, TypesNext DEF SendVariable
<1>4. ASSUME NEW c \in Commanders, Quit(c) PROVE ShellTypeInv'
  <2>1. RestTyped'
    BY <1>4, <1>0 DEF Quit, RestTyped
  <2> QED BY <1>4, <2>1, EndTyped, TypesNext DEF Quit
<1>5. ASSUME NEW c \in Commanders, StoreQuery(c) PROVE ShellTypeInv'
  <2>1. \E p \in CommanderPlaces : To(c, p)
    BY <1>5, CommanderPlacesAre DEF StoreQuery
  <2>2. doing[c].number \in Numbers
    <3>1. place[c] \in ParamPlaces
      BY <1>5 DEF StoreQuery, At, ParamPlaces
    <3>2. PICK x \in {Nothing} \cup GivenCommands : doing[c] = x
      BY <1>0
    <3>3. ASSUME x \in GivenCommands PROVE x.number \in Numbers
      BY <3>3, NumberedIs, SmallBounds DEF GivenCommands
    <3> QED BY <3>2, <3>3, SmallBounds DEF Nothing, None
  <2>3. param_control' \in [action : Numbers, type : Numbers]
    BY <1>5, <1>0, <2>2 DEF StoreQuery, RestTyped
  <2>4. RestTyped'
    BY <1>5, <1>0, <2>3 DEF StoreQuery, RestTyped
  <2>5. doing' \in [Commanders -> {Nothing} \cup GivenCommands]
    BY <1>5, <1>0 DEF StoreQuery
  <2> QED BY <2>1, <2>4, <2>5, CommanderGoes, TypesNext
<1>6. ASSUME NEW c \in Commanders, InitSem(c) PROVE ShellTypeInv'
  <2>1. RestTyped'
    <3>1. wild' \in BOOLEAN
      BY <1>6 DEF InitSem
    <3> QED BY <1>6, <1>0, <3>1, SmallBounds DEF InitSem, RestTyped
  <2> QED BY <1>6, <1>0, <2>1, CommanderGoes, CommanderPlacesAre, TypesNext DEF InitSem
<1>7. ASSUME NEW c \in Commanders, Raise(c) PROVE ShellTypeInv'
  <2>1. RestTyped'
    BY <1>7, <1>0 DEF Raise, RestTyped
  <2> QED BY <1>7, <1>0, <2>1, CommanderGoes, CommanderPlacesAre, TypesNext DEF Raise
<1>8. ASSUME NEW c \in Commanders, Wait(c) PROVE ShellTypeInv'
  <2>1. RestTyped'
    BY <1>8, <1>0, SmallBounds DEF Wait, RestTyped
  <2> QED BY <1>8, <1>0, <2>1, CommanderGoes, CommanderPlacesAre, TypesNext DEF Wait
<1>9. ASSUME NEW c \in Commanders, Lower(c) PROVE ShellTypeInv'
  <2>1. RestTyped'
    BY <1>9, <1>0 DEF Lower, RestTyped
  <2> QED BY <1>9, <1>0, <2>1, CommanderGoes, CommanderPlacesAre, TypesNext DEF Lower
<1>10. ASSUME NEW c \in Commanders, Return(c) PROVE ShellTypeInv'
  <2>1. issued' \in [Operations -> 0 .. 2]
    BY <1>10, <1>0, SmallBounds DEF Return, RestTyped
  <2>2. RestTyped'
    BY <1>10, <1>0, <2>1 DEF Return, RestTyped
  <2> QED BY <1>10, <2>2, EndTyped, TypesNext DEF Return
<1>11. ASSUME NEW c \in Commanders, InitDump(c) PROVE ShellTypeInv'
  <2>1. wild' \in BOOLEAN
    BY <1>11 DEF InitDump
  <2>2. RestTyped'
    BY <1>11, <1>0, <2>1, SmallBounds DEF InitDump, RestTyped
  <2> QED BY <1>11, <1>0, <2>2, CommanderGoes, CommanderPlacesAre, TypesNext DEF InitDump
<1>12. ASSUME NEW c \in Commanders, RaiseDump(c) PROVE ShellTypeInv'
  <2>1. left' \in [Commanders -> 0 .. Cycles]
    BY <1>12, <1>0, SmallBounds DEF RaiseDump, RestTyped
  <2>2. RestTyped'
    BY <1>12, <1>0, <2>1 DEF RaiseDump, RestTyped
  <2> QED BY <1>12, <1>0, <2>2, CommanderGoes, CommanderPlacesAre, TypesNext DEF RaiseDump
<1>13. ASSUME NEW c \in Commanders, Dump(c) PROVE ShellTypeInv'
  <2>1. ASSUME left[c] > 0 PROVE ShellTypeInv'
    <3>1. left[c] - 1 \in 0 .. Cycles /\ state_sem' \in 0 .. Cycles
      BY <1>13, <2>1, <1>0, SmallBounds DEF Dump, RestTyped
    <3>2. left' \in [Commanders -> 0 .. Cycles]
      BY <1>13, <2>1, <1>0, <3>1 DEF Dump, RestTyped
    <3>3. RestTyped'
      BY <1>13, <2>1, <1>0, <3>1, <3>2 DEF Dump, RestTyped
    <3>4. PlaceTyped' /\ doing' \in [Commanders -> {Nothing} \cup GivenCommands]
      BY <1>13, <2>1, <1>0 DEF Dump, PlaceTyped
    <3> QED BY <3>3, <3>4, TypesNext
  <2>2. ASSUME ~(left[c] > 0) PROVE ShellTypeInv'
    <3>1. RestTyped'
      BY <1>13, <2>2, <1>0 DEF Dump, RestTyped
    <3> QED BY <1>13, <2>2, <3>1, EndTyped, TypesNext DEF Dump
  <2> QED BY <2>1, <2>2
<1>14. ASSUME Shell \/ Web PROVE ShellTypeInv'
  <2>1. RestTyped' /\ doing' \in [Commanders -> {Nothing} \cup GivenCommands]
    BY <1>14, <1>0 DEF Shell, Web, ShellLoop, JoinRunner, JoinWeb, RestTyped
  <2>2. \E t \in ShellThreads : \E p \in Places[t] : To(t, p)
    BY <1>14, PlacesAre, CommanderPlacesAre DEF Shell, Web, ShellLoop, JoinRunner, JoinWeb
  <2> QED BY <2>1, <2>2, GoesTyped, TypesNext
<1>15. ASSUME Runner PROVE ShellTypeInv'
  <2>1. \E p \in Places["runner"] : To("runner", p)
    BY <1>15, PlacesAre
    DEF Runner, Refresh, CheckState, PostState, CheckParam, Issue, Await, RefreshParams, Post
  <2>2. doing' \in [Commanders -> {Nothing} \cup GivenCommands]
    BY <1>15, <1>0
    DEF Runner, Refresh, CheckState, PostState, CheckParam, Issue, Await, RefreshParams, Post
  <2>3. ASSUME Refresh PROVE RestTyped'
    BY <2>3, <1>0, SmallBounds DEF Refresh, RestTyped, None
  <2>4. ASSUME CheckState PROVE RestTyped'
    BY <2>4, <1>0 DEF CheckState, RestTyped
  <2>5. ASSUME PostState PROVE RestTyped'
    BY <2>5, <1>0, SmallBounds DEF PostState, RestTyped
  <2>6. ASSUME CheckParam PROVE RestTyped'
    BY <2>6, <1>0 DEF CheckParam, RestTyped
  <2>7. ASSUME Issue PROVE RestTyped'
    <3>1. param_control.action \in Numbers
      BY <1>0 DEF RestTyped
    <3>2. \A n \in Operations : Once(n) \in 0 .. 2
      BY <1>0, SmallBounds DEF RestTyped, Once
    <3>3. issued' \in [Operations -> 0 .. 2]
      BY <2>7, <1>0, <3>2 DEF Issue, RestTyped
    <3> QED BY <2>7, <1>0, <3>1, <3>3 DEF Issue, RestTyped
  <2>8. ASSUME NEW s \in {"Success", "Timeout"}, Await(s) PROVE RestTyped'
    BY <2>8, <1>0, SmallBounds DEF Await, RestTyped, None
  <2>9. ASSUME RefreshParams PROVE RestTyped'
    BY <2>9, <1>0 DEF RefreshParams, RestTyped
  <2>10. ASSUME Post PROVE RestTyped'
    BY <2>10, <1>0, SmallBounds DEF Post, RestTyped
  <2>11. RestTyped'
    BY <1>15, <2>3, <2>4, <2>5, <2>6, <2>7, <2>8, <2>9, <2>10 DEF Runner
  <2>12. "runner" \in ShellThreads
    BY DEF ShellThreads
  <2> QED BY <2>1, <2>2, <2>11, <2>12, GoesTyped, TypesNext
<1>16. ASSUME UNCHANGED shellVars PROVE ShellTypeInv'
  BY <1>16, <1>0, TypesNext DEF shellVars, PlaceTyped, RestTyped
<1> QED
  BY <1>1, <1>2, <1>3, <1>4, <1>5, <1>6, <1>7, <1>8, <1>9, <1>10, <1>11, <1>12, <1>13, <1>14,
     <1>15, <1>16 DEF ShellNext, Execute, Param

-----------------------------------------------------------------------------
(* Who executes fetch, store or request, and under which number *)

UserInv ==
  /\ \A c \in Commanders : place[c] \in ParamPlaces <=> Using(c, "param")
  /\ \A c \in Commanders :
       doing[c] # Nothing => doing[c].number <= given /\ asked[doing[c].number] = doing[c].type
  /\ param_control.action <= given
  /\ \A n \in Operations : n > given => issued[n] = 0
  /\ ~overlap => \A c, d \in Commanders : Using(c, "param") /\ Using(d, "param") => c = d

\* A step of others than fetch, store and request: nothing of a query changes.
Quiet ==
  /\ UNCHANGED <<querying, late, overlap, given>>
  /\ \A c \in Commanders :
       \/ place'[c] = place[c] /\ doing'[c] = doing[c]
       \/ /\ place[c] \notin ParamPlaces /\ place'[c] \notin ParamPlaces
          /\ doing'[c] \in {doing[c], Nothing}
  /\ \/ place'["runner"] = place["runner"]
     \/ {place["runner"], place'["runner"]} \subseteq {"state", "postState", "param"}

LEMMA QuietGoes ==
  ASSUME ShellTypeInv, NEW c \in Commanders, NEW p \in CommanderPlaces \ ParamPlaces, To(c, p),
         place[c] \notin ParamPlaces,
         doing' = doing \/ doing' = [doing EXCEPT ![c] = Nothing],
         UNCHANGED <<querying, late, overlap, given>>
  PROVE  Quiet
<1>1. /\ c \in ShellThreads /\ p \in Places[c] /\ "runner" \in ShellThreads /\ c # "runner"
      /\ \A d \in Commanders : d \in ShellThreads
  BY PlacesAre DEF ShellThreads
<1>2. place'[c] = p /\ \A u \in ShellThreads : u # c => place'[u] = place[u]
  BY <1>1, GoesTo
<1>3. \A d \in Commanders : doing'[d] = doing[d] \/ (d = c /\ doing'[d] = Nothing)
  BY DEF ShellTypeInv
<1> QED BY <1>1, <1>2, <1>3 DEF Quiet

LEMMA QuietSteps ==
  ASSUME ShellTypeInv,
         \/ \E c \in Commanders : \/ SetVariable(c) \/ SendVariable(c) \/ Quit(c)
                                  \/ InitDump(c) \/ RaiseDump(c) \/ Dump(c)
         \/ Shell \/ Web \/ CheckState \/ PostState \/ UNCHANGED shellVars
  PROVE  Quiet
<1> USE DEF history, At
<1>1. ASSUME NEW c \in Commanders,
             SetVariable(c) \/ SendVariable(c) \/ Quit(c) \/ InitDump(c) \/ RaiseDump(c) \/ Dump(c)
      PROVE  Quiet
  <2>1. {"loop", "raiseState", "waitState", "set", "send", "quit", "dump"}
          \subseteq CommanderPlaces \ ParamPlaces
    BY DEF CommanderPlaces, ParamPlaces
  <2>2. ASSUME SetVariable(c) \/ SendVariable(c) \/ Quit(c) PROVE Quiet
    BY <2>1, <2>2, QuietGoes DEF SetVariable, SendVariable, Quit, End
  <2>3. ASSUME InitDump(c) \/ RaiseDump(c) PROVE Quiet
    BY <2>1, <2>3, QuietGoes DEF InitDump, RaiseDump
  <2>4. ASSUME Dump(c), left[c] > 0 PROVE Quiet
    BY <2>4 DEF Dump, Quiet
  <2>5. ASSUME Dump(c), ~(left[c] > 0) PROVE Quiet
    BY <2>1, <2>5, QuietGoes DEF Dump, End
  <2> QED BY <1>1, <2>2, <2>3, <2>4, <2>5
<1>2. ASSUME Shell \/ Web PROVE Quiet
  <2>0. PICK t \in {"shell", "web"} : \E p \in Places[t] :
          /\ To(t, p) /\ p \notin ParamPlaces /\ place[t] \notin ParamPlaces
    BY <1>2, PlacesAre, CommanderPlacesAre
    DEF Shell, Web, ShellLoop, JoinRunner, JoinWeb, ParamPlaces
  <2>1. PICK p \in Places[t] : To(t, p) /\ p \notin ParamPlaces /\ place[t] \notin ParamPlaces
    BY <2>0
  <2>2. t \in ShellThreads /\ "runner" \in ShellThreads /\ t # "runner"
        /\ \A d \in Commanders : d \in ShellThreads
    BY PlacesAre DEF ShellThreads
  <2>3. place'[t] = p /\ \A u \in ShellThreads : u # t => place'[u] = place[u]
    BY <2>1, <2>2, GoesTo
  <2>4. doing' = doing /\ UNCHANGED <<querying, late, overlap, given>>
    BY <1>2 DEF Shell, Web, ShellLoop, JoinRunner, JoinWeb
  <2> QED BY <2>1, <2>2, <2>3, <2>4 DEF Quiet
<1>3. ASSUME CheckState \/ PostState PROVE Quiet
  <2>1. PICK p \in Places["runner"] : To("runner", p) /\ p \in {"postState", "param"}
    BY <1>3, PlacesAre DEF CheckState, PostState
  <2>2. "runner" \in ShellThreads /\ \A d \in Commanders : d \in ShellThreads /\ d # "runner"
    BY PlacesAre DEF ShellThreads
  <2>3. place'["runner"] = p /\ \A u \in ShellThreads : u # "runner" => place'[u] = place[u]
    BY <2>1, <2>2, GoesTo
  <2>4. /\ doing' = doing /\ UNCHANGED <<querying, late, overlap, given>>
        /\ place["runner"] \in {"state", "postState"}
    BY <1>3 DEF CheckState, PostState
  <2> QED BY <2>1, <2>2, <2>3, <2>4 DEF Quiet
<1>4. ASSUME UNCHANGED shellVars PROVE Quiet
  BY <1>4 DEF shellVars, Quiet
<1> QED BY <1>1, <1>2, <1>3, <1>4

\* A commander goes on in paramFn.
LEMMA ParamGoes ==
  ASSUME ShellTypeInv, NEW c \in Commanders, NEW p \in ParamPlaces, To(c, p)
  PROVE  /\ place'[c] = p /\ place'["runner"] = place["runner"]
         /\ \A d \in Commanders : d # c => place'[d] = place[d]
<1>1. /\ c \in ShellThreads /\ p \in Places[c] /\ "runner" \in ShellThreads /\ c # "runner"
      /\ \A d \in Commanders : d \in ShellThreads
  BY PlacesAre, CommanderPlacesAre DEF ShellThreads
<1> QED BY <1>1, GoesTo

\* A commander has executed its command.
LEMMA EndGoes ==
  ASSUME ShellTypeInv, NEW c \in Commanders, End(c)
  PROVE  /\ place'[c] = "loop" /\ place'["runner"] = place["runner"] /\ doing'[c] = Nothing
         /\ \A d \in Commanders : d # c => place'[d] = place[d] /\ doing'[d] = doing[d]
<1>1. /\ c \in ShellThreads /\ "runner" \in ShellThreads /\ c # "runner"
      /\ \A d \in Commanders : d \in ShellThreads
  BY PlacesAre DEF ShellThreads
<1> QED BY <1>1, Ends, GoesTo

\* The runner goes on.
LEMMA RunnerGoes ==
  ASSUME ShellTypeInv, NEW p \in Places["runner"], To("runner", p)
  PROVE  place'["runner"] = p /\ \A d \in Commanders : place'[d] = place[d]
<1>1. "runner" \in ShellThreads /\ \A d \in Commanders : d \in ShellThreads /\ d # "runner"
  BY PlacesAre DEF ShellThreads
<1> QED BY <1>1, GoesTo

\* A commander is given a command.
LEMMA GiveGoes ==
  ASSUME ShellTypeInv, NEW c \in Commanders, NEW m \in CommandsOf[c], Give(c, m)
  PROVE  /\ m \in Commands /\ given + 1 \in Operations /\ given' = given + 1
         /\ place[c] = "idle" /\ place'[c] = m.name /\ place'["runner"] = place["runner"]
         /\ doing'[c] = Numbered(given + 1, m) /\ doing'[c] # Nothing
         /\ doing'[c].number = given + 1 /\ doing'[c].name = m.name /\ doing'[c].type = m.type
         /\ \A d \in Commanders : d # c => place'[d] = place[d] /\ doing'[d] = doing[d]
         /\ asked' = [asked EXCEPT ![given + 1] = m.type] /\ asked'[given + 1] = m.type
         /\ m.name \in ParamPlaces <=> m.name = "param"
<1>1. m \in Commands /\ m.name \in CommanderPlaces /\ m.name \in {"set", "send", "param", "dump", "quit"}
  BY ShellAssumption, CommanderPlacesAre DEF Commands
<1>2. given + 1 \in Operations
  BY ShellAssumption DEF Give, ShellTypeInv, ShellTypeOK, Numbers, Operations
<1>3. /\ c \in ShellThreads /\ m.name \in Places[c] /\ "runner" \in ShellThreads /\ c # "runner"
      /\ \A d \in Commanders : d \in ShellThreads
  BY <1>1, PlacesAre DEF ShellThreads
<1>4. place'[c] = m.name /\ \A u \in ShellThreads : u # c => place'[u] = place[u]
  BY <1>3, GoesTo DEF Give
<1>5. doing'[c] = Numbered(given + 1, m) /\ \A d \in Commanders : d # c => doing'[d] = doing[d]
  BY DEF Give, ShellTypeInv
<1>6. asked'[given + 1] = m.type
  BY <1>2 DEF Give, ShellTypeInv, ShellTypeOK
<1>7. m.name \in ParamPlaces <=> m.name = "param"
  BY <1>1 DEF ParamPlaces
<1>8. given' = given + 1 /\ asked' = [asked EXCEPT ![given + 1] = m.type] /\ place[c] = "idle"
  BY DEF Give, At
<1> QED BY <1>1, <1>2, <1>3, <1>4, <1>5, <1>6, <1>7, <1>8, NumberedIs

LEMMA UserStarts == ShellInit => UserInv
<1> SUFFICES ASSUME ShellInit PROVE UserInv
  OBVIOUS
<1>1. ShellTypeInv
  BY ShellStarts
<1>2. \A c \in Commanders : place[c] \in {"loop", "start", "done"} /\ doing[c] = Nothing
  BY DEF ShellInit, Commanders
<1>3. \A c \in Commanders : place[c] \notin ParamPlaces /\ ~Using(c, "param")
  BY <1>2 DEF ParamPlaces, Using
<1>4. param_control.action <= given /\ \A n \in Operations : issued[n] = 0
  BY DEF ShellInit, None
<1> QED BY <1>2, <1>3, <1>4 DEF UserInv

\* Nobody begins a query: UserInv is kept.
LEMMA UserKept ==
  ASSUME ShellTypeInv, UserInv,
         \A c \in Commanders :
           \/ (place'[c] \in ParamPlaces <=> place[c] \in ParamPlaces) /\ doing'[c] = doing[c]
           \/ place'[c] \notin ParamPlaces /\ doing'[c] = Nothing
           \/ /\ place[c] \notin ParamPlaces /\ place'[c] \notin ParamPlaces
              /\ doing'[c] \in {doing[c], Nothing},
         UNCHANGED <<asked, given, overlap>>, param_control'.action <= given,
         \A n \in Operations : issued'[n] \in {issued[n], 0} \/ n <= given
  PROVE  UserInv'
<1>1. \A c \in Commanders : doing'[c] = doing[c] \/ doing'[c] = Nothing
  OBVIOUS
<1>2. \A c \in Commanders : place'[c] \in ParamPlaces <=> Using(c, "param")'
  BY DEF UserInv, Using
<1>3. \A c \in Commanders : doing'[c] # Nothing =>
        doing'[c].number <= given' /\ asked'[doing'[c].number] = doing'[c].type
  BY <1>1 DEF UserInv
<1>4. \A c \in Commanders : Using(c, "param")' => Using(c, "param")
  BY <1>1 DEF Using
<1>5. ~overlap' => \A c, d \in Commanders : Using(c, "param")' /\ Using(d, "param")' => c = d
  BY <1>4 DEF UserInv
<1>6. \A n \in Operations : n > given' => issued'[n] = 0
  <2> SUFFICES ASSUME NEW n \in Operations, n > given PROVE issued'[n] = 0
    OBVIOUS
  <2>1. n \in Nat /\ given \in Nat
    BY ShellAssumption DEF ShellTypeInv, ShellTypeOK, Numbers, Operations
  <2>2. ~(n <= given) /\ issued[n] = 0
    BY <2>1 DEF UserInv
  <2> QED BY <2>2
<1> QED BY <1>2, <1>3, <1>5, <1>6 DEF UserInv

LEMMA ParamUser ==
  ASSUME ShellTypeInv, UserInv, NEW c \in Commanders, place[c] \in ParamPlaces
  PROVE  /\ Using(c, "param") /\ doing[c].number \in Operations /\ doing[c].number <= given
         /\ asked[doing[c].number] = doing[c].type
         /\ ~overlap => \A d \in Commanders : place[d] \in ParamPlaces => d = c
<1>1. Using(c, "param") /\ doing[c] # Nothing
  BY DEF UserInv, Using
<1> QED BY <1>1, DoingIs DEF UserInv

LEMMA UserStep ==
  ASSUME ShellTypeInv, UserInv, [ShellNext]_shellVars
  PROVE  UserInv'
<1> USE DEF history, At
<1>1. ASSUME Quiet PROVE UserInv'
  BY <1>1, UserKept DEF Quiet, querying, UserInv
<1>2. ASSUME NEW c \in Commanders, StoreQuery(c) PROVE UserInv'
  <2>1. place[c] \in {"param", "storeType"} /\ place[c] \in ParamPlaces
    BY <1>2 DEF StoreQuery, ParamPlaces
  <2>2. \E p \in ParamPlaces : To(c, p)
    BY <1>2 DEF StoreQuery, ParamPlaces
  <2>3. place'[c] \in ParamPlaces /\ \A d \in Commanders : d # c => place'[d] = place[d]
    BY <2>2, ParamGoes
  <2>4. param_control'.action <= given
    <3>1. param_control \in [action : Numbers, type : Numbers]
      BY DEF ShellTypeInv, ShellTypeOK
    <3>2. param_control'.action \in {param_control.action, doing[c].number}
      BY <1>2, <3>1 DEF StoreQuery
    <3> QED BY <2>1, <3>2, ParamUser DEF UserInv
  <2>5. doing' = doing /\ issued' = issued /\ UNCHANGED <<asked, given, overlap>>
    BY <1>2 DEF StoreQuery
  <2> QED BY <2>1, <2>3, <2>4, <2>5, UserKept
<1>3. ASSUME NEW c \in Commanders, InitSem(c) \/ Raise(c) \/ Wait(c) \/ Lower(c) PROVE UserInv'
  <2>1. place[c] \in ParamPlaces
    BY <1>3 DEF InitSem, Raise, Wait, Lower, ParamPlaces
  <2>2. \E p \in ParamPlaces : To(c, p)
    BY <1>3 DEF InitSem, Raise, Wait, Lower, ParamPlaces
  <2>3. place'[c] \in ParamPlaces /\ \A d \in Commanders : d # c => place'[d] = place[d]
    BY <2>2, ParamGoes
  <2>4. UNCHANGED <<doing, issued, param_control, asked, given, overlap>>
    BY <1>3 DEF InitSem, Raise, Wait, Lower
  <2> QED BY <2>1, <2>3, <2>4, UserKept DEF UserInv
<1>4. ASSUME NEW c \in Commanders, Return(c) PROVE UserInv'
  <2>1. /\ place'[c] = "loop" /\ doing'[c] = Nothing
        /\ \A d \in Commanders : d # c => place'[d] = place[d] /\ doing'[d] = doing[d]
    BY <1>4, EndGoes DEF Return
  <2>2. "loop" \notin ParamPlaces
    BY DEF ParamPlaces
  <2>3. \A n \in Operations : issued'[n] \in {issued[n], 0}
    BY <1>4 DEF Return, ShellTypeInv, ShellTypeOK
  <2>4. UNCHANGED <<param_control, asked, given, overlap>>
    BY <1>4 DEF Return
  <2> QED BY <2>1, <2>2, <2>3, <2>4, UserKept DEF UserInv
<1>5. ASSUME NEW s \in {"Success", "Timeout"},
             Refresh \/ CheckParam \/ Issue \/ Await(s) \/ RefreshParams \/ Post
      PROVE  UserInv'
  <2>1. \E p \in Places["runner"] : To("runner", p)
    BY <1>5, PlacesAre DEF Refresh, CheckParam, Issue, Await, RefreshParams, Post
  <2>2. \A d \in Commanders : place'[d] = place[d]
    BY <2>1, RunnerGoes
  <2>3. \A n \in Operations : issued'[n] = issued[n] \/ n <= given
    <3>1. ASSUME Issue PROVE \A n \in Operations : issued'[n] = issued[n] \/ n <= given
      <4>1. \A n \in Operations : issued'[n] = issued[n] \/ n = param_control.action
        BY <3>1 DEF Issue, ShellTypeInv, ShellTypeOK
      <4> QED BY <4>1 DEF UserInv
    <3> QED BY <1>5, <3>1 DEF Refresh, CheckParam, Issue, Await, RefreshParams, Post, querying
  <2>4. UNCHANGED <<doing, param_control, asked, given, overlap>>
    BY <1>5 DEF Refresh, CheckParam, Issue, Await, RefreshParams, Post, querying
  <2> QED BY <2>2, <2>3, <2>4, UserKept DEF UserInv
<1>6. ASSUME NEW c \in Commanders, NEW m \in CommandsOf[c], Give(c, m) PROVE UserInv'
  <2>1. /\ m \in Commands /\ given + 1 \in Operations /\ given' = given + 1
        /\ place[c] = "idle" /\ place'[c] = m.name
        /\ doing'[c] # Nothing
        /\ doing'[c].number = given + 1 /\ doing'[c].name = m.name /\ doing'[c].type = m.type
        /\ \A d \in Commanders : d # c => place'[d] = place[d] /\ doing'[d] = doing[d]
        /\ asked' = [asked EXCEPT ![given + 1] = m.type] /\ asked'[given + 1] = m.type
        /\ m.name \in ParamPlaces <=> m.name = "param"
    BY <1>6, GiveGoes
  <2>2. given \in Nat /\ param_control.action \in Nat
    BY ShellAssumption DEF ShellTypeInv, ShellTypeOK, Numbers
  <2>3. /\ param_control' = param_control /\ issued' = issued
        /\ overlap' = (overlap \/ (m.name \in {"param", "dump"}
                                     /\ \E d \in Commanders \ {c} : Using(d, m.name)))
    BY <1>6 DEF Give
  <2>4. \A d \in Commanders : place'[d] \in ParamPlaces <=> Using(d, "param")'
    BY <2>1 DEF UserInv, Using
  <2>5. \A d \in Commanders : doing'[d] # Nothing =>
          doing'[d].number <= given' /\ asked'[doing'[d].number] = doing'[d].type
    <3> SUFFICES ASSUME NEW d \in Commanders, doing'[d] # Nothing, d # c
                 PROVE  doing'[d].number <= given' /\ asked'[doing'[d].number] = doing'[d].type
      BY <2>1, <2>2
    <3>1. doing'[d] = doing[d] /\ doing[d] # Nothing
      BY <2>1
    <3>2. PICK n \in Operations : n = doing[d].number
      BY <3>1, DoingIs
    <3>3. n \in Nat /\ n <= given /\ asked[n] = doing[d].type
      BY <3>1, <3>2 DEF UserInv, Operations
    <3>4. n # given + 1 /\ n <= given + 1
      BY <2>2, <3>3
    <3>5. asked'[n] = asked[n]
      BY <2>1, <3>2, <3>4 DEF ShellTypeInv, ShellTypeOK
    <3> QED BY <2>1, <3>1, <3>2, <3>3, <3>4, <3>5
  <2>6. param_control'.action <= given' /\ \A n \in Operations : n > given' => issued'[n] = 0
    <3>1. \A n \in Operations : n > given + 1 => n > given
      BY <2>2 DEF Operations
    <3> QED BY <2>1, <2>2, <2>3, <3>1 DEF UserInv
  <2>7. ~overlap' => \A d, e \in Commanders : Using(d, "param")' /\ Using(e, "param")' => d = e
    <3> SUFFICES ASSUME ~overlap', NEW d \in Commanders, NEW e \in Commanders,
                        Using(d, "param")', Using(e, "param")'
                 PROVE  d = e
      OBVIOUS
    <3>1. ~overlap /\ (m.name = "param" => \A f \in Commanders \ {c} : ~Using(f, "param"))
      BY <2>3
    <3>2. \A f \in Commanders : f # c => (Using(f, "param")' <=> Using(f, "param"))
      BY <2>1 DEF Using
    <3>3. Using(c, "param")' => m.name = "param"
      BY <2>1 DEF Using
    <3>4. ~(d # c /\ e = c) /\ ~(d = c /\ e # c)
      BY <3>1, <3>2, <3>3
    <3>5. d # c /\ e # c => d = e
      BY <3>1, <3>2 DEF UserInv
    <3> QED BY <3>4, <3>5
  <2> QED BY <2>4, <2>5, <2>6, <2>7 DEF UserInv
<1> QED
  BY <1>1, <1>2, <1>3, <1>4, <1>5, <1>6, QuietSteps DEF ShellNext, Execute, Param, Runner

-----------------------------------------------------------------------------
(* While only one of them uses it, param_control holds its operation. *)

Stored == ParamPlaces \ {"param"}
Complete == ParamPlaces \ {"param", "storeType"}

QueryInv ==
  ~overlap =>
    /\ param_sem_init => \E c \in Commanders : place[c] \in {"wait", "lower"}
    /\ \A c \in Commanders :
         /\ place[c] \in Stored => param_control.action = doing[c].number
         /\ place[c] \in Complete => param_control.type = doing[c].number

LEMMA QueryStarts == ShellInit => QueryInv
<1> SUFFICES ASSUME ShellInit PROVE QueryInv
  OBVIOUS
<1>1. \A c \in Commanders : place[c] \in {"loop", "start", "done"}
  BY DEF ShellInit, Commanders
<1> QED BY <1>1 DEF ShellInit, QueryInv, Stored, Complete, ParamPlaces

LEMMA QueryKept ==
  ASSUME QueryInv, param_control' = param_control, ~overlap' => ~overlap,
         param_sem_init' => param_sem_init,
         \A c \in Commanders :
           /\ place[c] \in {"wait", "lower"} => place'[c] \in {"wait", "lower"}
           /\ place'[c] \in Stored => place[c] \in Stored /\ doing'[c] = doing[c]
           /\ place'[c] \in Complete => place[c] \in Complete
  PROVE  QueryInv'
<1> SUFFICES ASSUME ~overlap' PROVE
    /\ param_sem_init' => \E c \in Commanders : place'[c] \in {"wait", "lower"}
    /\ \A c \in Commanders :
         /\ place'[c] \in Stored => param_control'.action = doing'[c].number
         /\ place'[c] \in Complete => param_control'.type = doing'[c].number
  BY DEF QueryInv, Stored, Complete, ParamPlaces
<1>1. Complete \subseteq Stored
  BY DEF Stored, Complete
<1> QED BY <1>1 DEF QueryInv

LEMMA QueryStep ==
  ASSUME ShellTypeInv, UserInv, QueryInv, [ShellNext]_shellVars
  PROVE  QueryInv'
<1> USE DEF history, At
<1>0. \A p : (p \in Stored => p \in ParamPlaces) /\ (p \in Complete => p \in Stored)
             /\ (p \in {"wait", "lower"} => p \in ParamPlaces)
  BY DEF Stored, Complete, ParamPlaces
<1>1. ASSUME Quiet PROVE QueryInv'
  <2>1. \A c \in Commanders :
           /\ place[c] \in {"wait", "lower"} => place'[c] \in {"wait", "lower"}
           /\ place'[c] \in Stored => place[c] \in Stored /\ doing'[c] = doing[c]
           /\ place'[c] \in Complete => place[c] \in Complete
    BY <1>0, <1>1 DEF Quiet
  <2>2. UNCHANGED <<param_control, overlap, param_sem_init>>
    BY <1>1 DEF Quiet, querying
  <2> QED BY <2>1, <2>2, QueryKept
<1>2. ASSUME NEW c \in Commanders, StoreQuery(c) PROVE QueryInv'
  <2>1. UNCHANGED <<doing, overlap, param_sem_init>>
    BY <1>2 DEF StoreQuery
  <2>2. param_control \in [action : Numbers, type : Numbers]
    BY DEF ShellTypeInv, ShellTypeOK
  <2>3. place[c] \in ParamPlaces
    BY <1>2 DEF StoreQuery, ParamPlaces
  <2>4. SUFFICES ASSUME ~overlap'
        PROVE /\ param_sem_init' => \E d \in Commanders : place'[d] \in {"wait", "lower"}
              /\ \A d \in Commanders :
                   /\ place'[d] \in Stored => param_control'.action = doing'[d].number
                   /\ place'[d] \in Complete => param_control'.type = doing'[d].number
    BY DEF QueryInv, Stored, Complete, ParamPlaces
  <2>5. \A d \in Commanders : place[d] \in ParamPlaces => d = c
    BY <2>1, <2>3, <2>4, ParamUser
  <2>6. \E p \in ParamPlaces : To(c, p)
    BY <1>2 DEF StoreQuery, ParamPlaces
  <2>7. \A d \in Commanders : d # c => place'[d] = place[d] /\ place'[d] \notin ParamPlaces
    BY <2>5, <2>6, ParamGoes
  <2>8. ~param_sem_init
    <3>1. place[c] \notin {"wait", "lower"}
      BY <1>2 DEF StoreQuery
    <3> QED BY <1>0, <2>1, <2>4, <2>5, <3>1 DEF QueryInv
  <2>9. /\ place'[c] \in Stored => param_control'.action = doing'[c].number
        /\ place'[c] \in Complete => param_control'.type = doing'[c].number
    <3>1. ASSUME place[c] = "param", To(c, "storeType"),
                 param_control' = [param_control EXCEPT !.action = doing[c].number]
          PROVE  /\ param_control'.action = doing'[c].number /\ place'[c] \notin Complete
      <4>1. place'[c] = "storeType"
        BY <3>1, ParamGoes DEF ParamPlaces
      <4> QED BY <2>1, <2>2, <3>1, <4>1 DEF Complete
    <3>2. ASSUME place[c] = "storeType", To(c, "init"),
                 param_control' = [param_control EXCEPT !.type = doing[c].number]
          PROVE  param_control'.action = doing'[c].number /\ param_control'.type = doing'[c].number
      <4>1. param_control.action = doing[c].number
        BY <2>1, <2>4, <3>2 DEF QueryInv, Stored, ParamPlaces
      <4> QED BY <2>1, <2>2, <3>2, <4>1
    <3> QED BY <1>2, <3>1, <3>2 DEF StoreQuery
  <2> QED BY <1>0, <2>1, <2>7, <2>8, <2>9
<1>3. ASSUME NEW c \in Commanders, InitSem(c) \/ Raise(c) \/ Wait(c) PROVE QueryInv'
  <2>1. place[c] \in {"init", "raise", "wait"}
    BY <1>3 DEF InitSem, Raise, Wait
  <2>2. PICK p \in {"raise", "wait", "lower"} : To(c, p) /\ (place[c] = "wait" => p = "lower")
    BY <1>3 DEF InitSem, Raise, Wait
  <2>3. place'[c] = p /\ \A d \in Commanders : d # c => place'[d] = place[d]
    BY <2>2, ParamGoes DEF ParamPlaces
  <2>4. /\ place[c] \in Stored /\ place[c] \in Complete
        /\ place[c] \in {"wait", "lower"} => place'[c] \in {"wait", "lower"}
    BY <2>1, <2>2, <2>3 DEF Stored, Complete, ParamPlaces
  <2>5. UNCHANGED <<doing, param_control, overlap>>
    BY <1>3 DEF InitSem, Raise, Wait
  <2>6. ASSUME Raise(c) PROVE QueryInv'
    <3>1. place'[c] = "wait"
      BY <2>6, ParamGoes DEF Raise, ParamPlaces
    <3>2. \A d \in Commanders : (place'[d] \in Stored => place[d] \in Stored)
                             /\ (place'[d] \in Complete => place[d] \in Complete)
      BY <2>3, <2>4
    <3>3. ~overlap' =>
            /\ param_sem_init' => \E d \in Commanders : place'[d] \in {"wait", "lower"}
            /\ \A d \in Commanders :
                 /\ place'[d] \in Stored => param_control'.action = doing'[d].number
                 /\ place'[d] \in Complete => param_control'.type = doing'[d].number
      BY <2>5, <3>1, <3>2 DEF QueryInv
    <3> QED BY <3>3 DEF QueryInv, Stored, Complete, ParamPlaces
  <2>7. ASSUME InitSem(c) \/ Wait(c) PROVE QueryInv'
    <3>1. param_sem_init' = param_sem_init
      BY <2>7 DEF InitSem, Wait
    <3> QED BY <2>3, <2>4, <2>5, <3>1, QueryKept
  <2> QED BY <1>3, <2>6, <2>7
<1>4. ASSUME NEW c \in Commanders, Lower(c) \/ Return(c) PROVE QueryInv'
  <2>1. place[c] \in {"lower", "return"} /\ place[c] \in Complete /\ place[c] \in Stored
    BY <1>4 DEF Lower, Return, Stored, Complete, ParamPlaces
  <2>2. /\ \A d \in Commanders : d # c => place'[d] = place[d] /\ doing'[d] = doing[d]
        /\ (place'[c] = "return" /\ doing'[c] = doing[c]) \/ place'[c] = "loop"
    <3>1. ASSUME Lower(c) PROVE place'[c] = "return" /\ doing' = doing
                                /\ \A d \in Commanders : d # c => place'[d] = place[d]
      BY <3>1, ParamGoes DEF Lower, ParamPlaces
    <3>2. ASSUME Return(c)
          PROVE  place'[c] = "loop"
                 /\ \A d \in Commanders : d # c => place'[d] = place[d] /\ doing'[d] = doing[d]
      BY <3>2, EndGoes DEF Return
    <3> QED BY <1>4, <3>1, <3>2
  <2>3. UNCHANGED <<param_control, overlap>>
    BY <1>4 DEF Lower, Return
  <2>4. SUFFICES ASSUME ~overlap'
        PROVE /\ param_sem_init' => \E d \in Commanders : place'[d] \in {"wait", "lower"}
              /\ \A d \in Commanders :
                   /\ place'[d] \in Stored => param_control'.action = doing'[d].number
                   /\ place'[d] \in Complete => param_control'.type = doing'[d].number
    BY DEF QueryInv, Stored, Complete, ParamPlaces
  <2>5. "loop" \notin Stored /\ "loop" \notin Complete
    BY DEF Stored, Complete, ParamPlaces
  <2>6. \A d \in Commanders :
           /\ place'[d] \in Stored => param_control'.action = doing'[d].number
           /\ place'[d] \in Complete => param_control'.type = doing'[d].number
    BY <2>1, <2>2, <2>3, <2>4, <2>5 DEF QueryInv
  <2>7. ASSUME Lower(c) PROVE ~param_sem_init'
    BY <2>7 DEF Lower
  <2>8. ASSUME Return(c), param_sem_init' PROVE \E d \in Commanders : place'[d] \in {"wait", "lower"}
    <3>1. param_sem_init /\ place[c] = "return"
      BY <2>8 DEF Return
    <3>2. PICK d \in Commanders : place[d] \in {"wait", "lower"}
      BY <2>3, <2>4, <3>1 DEF QueryInv
    <3> QED BY <2>2, <3>1, <3>2
  <2> QED BY <1>4, <2>6, <2>7, <2>8
<1>5. ASSUME NEW s \in {"Success", "Timeout"},
             Refresh \/ CheckParam \/ Issue \/ Await(s) \/ RefreshParams \/ Post
      PROVE  QueryInv'
  <2>1. \E p \in Places["runner"] : To("runner", p)
    BY <1>5, PlacesAre DEF Refresh, CheckParam, Issue, Await, RefreshParams, Post
  <2>2. \A d \in Commanders : place'[d] = place[d]
    BY <2>1, RunnerGoes
  <2>3. UNCHANGED <<doing, param_control, param_sem_init, overlap>>
    BY <1>5 DEF Refresh, CheckParam, Issue, Await, RefreshParams, Post, querying
  <2> QED BY <2>2, <2>3, QueryKept
<1>6. ASSUME NEW c \in Commanders, NEW m \in CommandsOf[c], Give(c, m) PROVE QueryInv'
  <2>1. /\ place[c] = "idle" /\ place'[c] = m.name
        /\ \A d \in Commanders : d # c => place'[d] = place[d] /\ doing'[d] = doing[d]
        /\ m.name \in ParamPlaces <=> m.name = "param"
    BY <1>6, GiveGoes
  <2>2. m.name \notin Stored /\ m.name \notin Complete
    BY <2>1 DEF Stored, Complete
  <2>3. (~overlap' => ~overlap) /\ UNCHANGED <<param_control, param_sem_init>>
    BY <1>6 DEF Give
  <2> QED BY <1>0, <2>1, <2>2, <2>3, QueryKept
<1> QED
  BY <1>1, <1>2, <1>3, <1>4, <1>5, <1>6, QuietSteps DEF ShellNext, Execute, Param, Runner

-----------------------------------------------------------------------------
(* The runner sends the query once and warns when it has the answer. *)

Asking == {"await", "refreshParams", "post"}
Idling == {"loop", "done"}

\* Of an operation: how often it was sent, and what the runner has of it
AnswerOf(c) ==
  /\ issued[doing[c].number] = IF Warned(c) \/ place["runner"] \in Asking THEN 1 ELSE 0
  /\ place["runner"] = "await" => query = doing[c].number
  /\ Warned(c) \/ place["runner"] \in {"refreshParams", "post"} => op_result.of = doing[c].number

AnswerInv ==
  ~overlap /\ ~late =>
    /\ place["runner"] \notin Idling => \A c \in Commanders : ~Warned(c)
    /\ place["runner"] \in Asking \cup {"issue"} => \E c \in Commanders : place[c] = "wait"
    /\ \A c \in Commanders : Using(c, "param") => AnswerOf(c)

LEMMA AnswerNext ==
  (~overlap' /\ ~late' =>
     /\ place'["runner"] \notin Idling => \A c \in Commanders : ~Warned(c)'
     /\ place'["runner"] \in Asking \cup {"issue"} => \E c \in Commanders : place'[c] = "wait"
     /\ \A c \in Commanders : Using(c, "param")' => AnswerOf(c)')
  => AnswerInv'
BY DEF AnswerInv, Asking, Idling

LEMMA AnswerStarts == ShellInit => AnswerInv
<1> SUFFICES ASSUME ShellInit PROVE AnswerInv
  OBVIOUS
<1>1. /\ \A c \in Commanders : place[c] \in {"loop", "start", "done"} /\ doing[c] = Nothing
      /\ place["runner"] = "loop"
  BY DEF ShellInit, Commanders
<1> QED BY <1>1 DEF AnswerInv, Using, Asking, Idling

LEMMA RunnerPlaces ==
  /\ Asking \subseteq Places["runner"] /\ Idling \subseteq Places["runner"]
  /\ Places["runner"] = Asking \cup Idling \cup {"state", "postState", "param", "issue"}
  /\ Asking \cap Idling = {} /\ {"state", "postState", "param", "issue"} \cap Asking = {}
  /\ {"state", "postState", "param", "issue"} \cap Idling = {}
BY PlacesAre DEF Asking, Idling

LEMMA WarnedUses ==
  ASSUME UserInv, NEW c \in Commanders, Warned(c)
  PROVE  place[c] \in ParamPlaces /\ Using(c, "param")
BY DEF UserInv, Warned, ParamPlaces

\* Nothing of the answer changes.
LEMMA AnswerKept ==
  ASSUME AnswerInv, UNCHANGED <<query, op_result>>, ~overlap' => ~overlap, late' = late,
         place'["runner"] = place["runner"] \/
           {place["runner"], place'["runner"]} \subseteq {"state", "postState", "param"},
         ~overlap' => \A c \in Commanders :
           /\ Warned(c)' => Warned(c)
           /\ place[c] = "wait" => place'[c] = "wait" \/ Warned(c)
           /\ Using(c, "param")' => /\ Using(c, "param") /\ doing'[c] = doing[c]
                                    /\ Warned(c) => Warned(c)'
                                    /\ issued'[doing[c].number] = issued[doing[c].number]
  PROVE  AnswerInv'
<1> SUFFICES ASSUME ~overlap', ~late'
    PROVE /\ place'["runner"] \notin Idling => \A c \in Commanders : ~Warned(c)'
          /\ place'["runner"] \in Asking \cup {"issue"} => \E c \in Commanders : place'[c] = "wait"
          /\ \A c \in Commanders : Using(c, "param")' => AnswerOf(c)'
  BY AnswerNext
<1>1. ~overlap /\ ~late
  OBVIOUS
<1>2. /\ place'["runner"] \in Idling <=> place["runner"] \in Idling
      /\ place'["runner"] \in Asking <=> place["runner"] \in Asking
      /\ place'["runner"] = "issue" <=> place["runner"] = "issue"
      /\ place'["runner"] = "await" <=> place["runner"] = "await"
      /\ place'["runner"] \in {"refreshParams", "post"} <=> place["runner"] \in {"refreshParams", "post"}
  BY DEF Idling, Asking
<1>3. place'["runner"] \notin Idling => \A c \in Commanders : ~Warned(c)'
  BY <1>1, <1>2 DEF AnswerInv
<1>4. place'["runner"] \in Asking \cup {"issue"} => \E c \in Commanders : place'[c] = "wait"
  <2>1. \A p : p \in Asking \cup {"issue"} => p \notin Idling
    BY DEF Asking, Idling
  <2> QED BY <1>1, <1>2, <2>1 DEF AnswerInv
<1>5. ASSUME NEW c \in Commanders, Using(c, "param")' PROVE AnswerOf(c)'
  <2>1. AnswerOf(c) /\ doing'[c] = doing[c] /\ issued'[doing[c].number] = issued[doing[c].number]
        /\ (Warned(c)' <=> Warned(c))
    BY <1>1, <1>5 DEF AnswerInv
  <2> QED BY <1>2, <2>1 DEF AnswerOf
<1> QED BY <1>3, <1>4, <1>5

\* The same for a step of a commander in paramFn
LEMMA AnswerParam ==
  ASSUME ShellTypeInv, UserInv, AnswerInv, NEW c \in Commanders, place[c] \in ParamPlaces,
         UNCHANGED <<query, op_result, overlap, late>>, place'["runner"] = place["runner"],
         \A d \in Commanders : d # c => place'[d] = place[d] /\ doing'[d] = doing[d],
         (~overlap /\ ~Warned(c)) => (~Warned(c)' /\ doing'[c] = doing[c]),
         place[c] = "wait" => place'[c] = "wait" \/ Warned(c),
         Using(c, "param")' =>
           doing'[c] = doing[c] /\ issued' = issued /\ (Warned(c) => Warned(c)')
  PROVE  AnswerInv'
<1>1. ASSUME ~overlap, NEW d \in Commanders, d # c
      PROVE  ~Warned(d) /\ ~Warned(d)' /\ ~Using(d, "param")' /\ place[d] # "wait"
  <2>1. place[d] \notin ParamPlaces
    BY <1>1, ParamUser
  <2>2. ~Using(d, "param")
    BY <2>1 DEF UserInv
  <2>3. place'[d] = place[d] /\ doing'[d] = doing[d]
    BY <1>1
  <2> QED BY <2>1, <2>2, <2>3 DEF Warned, Using, ParamPlaces
<1>2. Using(c, "param")
  BY ParamUser
<1>3. ~overlap' => \A d \in Commanders :
           /\ Warned(d)' => Warned(d)
           /\ place[d] = "wait" => place'[d] = "wait" \/ Warned(d)
           /\ Using(d, "param")' => /\ Using(d, "param") /\ doing'[d] = doing[d]
                                    /\ Warned(d) => Warned(d)'
                                    /\ issued'[doing[d].number] = issued[doing[d].number]
  BY <1>1, <1>2
<1> QED BY <1>3, AnswerKept

LEMMA AnswerCommander ==
  ASSUME ShellTypeInv, UserInv, AnswerInv, NEW c \in Commanders, Param(c)
  PROVE  AnswerInv'
<1> USE DEF history, At, Warned
<1>1. ASSUME StoreQuery(c) PROVE AnswerInv'
  <2>1. place[c] \in {"param", "storeType"} /\ \E p \in {"storeType", "init"} : To(c, p)
    BY <1>1 DEF StoreQuery
  <2>2. /\ place'[c] \in {"storeType", "init"} /\ place'["runner"] = place["runner"]
        /\ \A d \in Commanders : d # c => place'[d] = place[d]
    BY <2>1, ParamGoes DEF ParamPlaces
  <2>3. UNCHANGED <<query, op_result, overlap, late, doing, issued>>
    BY <1>1 DEF StoreQuery
  <2>4. place[c] \in ParamPlaces
    BY <2>1 DEF ParamPlaces
  <2> QED BY <2>1, <2>2, <2>3, <2>4, AnswerParam
<1>2. ASSUME InitSem(c) PROVE AnswerInv'
  <2>1. /\ place'[c] = "raise" /\ place'["runner"] = place["runner"]
        /\ \A d \in Commanders : d # c => place'[d] = place[d]
    BY <1>2, ParamGoes DEF InitSem, ParamPlaces
  <2>2. UNCHANGED <<query, op_result, overlap, late, doing, issued>> /\ ~(param_sem' > 0)
    BY <1>2 DEF InitSem
  <2>3. place[c] \in ParamPlaces /\ place[c] = "init"
    BY <1>2 DEF InitSem, ParamPlaces
  <2> QED BY <2>1, <2>2, <2>3, AnswerParam
<1>3. ASSUME Raise(c) PROVE AnswerInv'
  <2>1. /\ place'[c] = "wait" /\ place'["runner"] = place["runner"]
        /\ \A d \in Commanders : d # c => place'[d] = place[d]
    BY <1>3, ParamGoes DEF Raise, ParamPlaces
  <2>2. UNCHANGED <<query, op_result, overlap, late, doing, issued, param_sem>>
    BY <1>3 DEF Raise
  <2>3. place[c] \in ParamPlaces /\ place[c] = "raise"
    BY <1>3 DEF Raise, ParamPlaces
  <2> QED BY <2>1, <2>2, <2>3, AnswerParam
<1>4. ASSUME Wait(c) PROVE AnswerInv'
  <2>1. /\ place'[c] = "lower" /\ place'["runner"] = place["runner"]
        /\ \A d \in Commanders : d # c => place'[d] = place[d]
    BY <1>4, ParamGoes DEF Wait, ParamPlaces
  <2>2. UNCHANGED <<query, op_result, overlap, late, doing, issued>>
    BY <1>4 DEF Wait
  <2>3. place[c] \in ParamPlaces /\ place[c] = "wait" /\ param_sem > 0
    BY <1>4 DEF Wait, ParamPlaces
  <2> QED BY <2>1, <2>2, <2>3, AnswerParam
<1>5. ASSUME Lower(c) PROVE AnswerInv'
  <2>1. /\ place'[c] = "return" /\ place'["runner"] = place["runner"]
        /\ \A d \in Commanders : d # c => place'[d] = place[d]
    BY <1>5, ParamGoes DEF Lower, ParamPlaces
  <2>2. UNCHANGED <<query, op_result, overlap, late, doing, issued>>
    BY <1>5 DEF Lower
  <2>3. place[c] \in ParamPlaces /\ place[c] = "lower"
    BY <1>5 DEF Lower, ParamPlaces
  <2> QED BY <2>1, <2>2, <2>3, AnswerParam
<1>6. ASSUME Return(c) PROVE AnswerInv'
  <2>1. /\ place'[c] = "loop" /\ place'["runner"] = place["runner"] /\ doing'[c] = Nothing
        /\ \A d \in Commanders : d # c => place'[d] = place[d] /\ doing'[d] = doing[d]
    BY <1>6, EndGoes DEF Return
  <2>2. UNCHANGED <<query, op_result, overlap, late>>
    BY <1>6 DEF Return
  <2>3. place[c] \in ParamPlaces /\ place[c] = "return"
    BY <1>6 DEF Return, ParamPlaces
  <2>4. ~Using(c, "param")'
    BY <2>1 DEF Using
  <2> QED BY <2>1, <2>2, <2>3, <2>4, AnswerParam
<1> QED BY <1>1, <1>2, <1>3, <1>4, <1>5, <1>6 DEF Param

LEMMA AnswerGiven ==
  ASSUME ShellTypeInv, UserInv, AnswerInv, NEW c \in Commanders, NEW m \in CommandsOf[c], Give(c, m)
  PROVE  AnswerInv'
<1>1. /\ m \in Commands /\ given + 1 \in Operations
      /\ place[c] = "idle" /\ place'[c] = m.name /\ place'["runner"] = place["runner"]
      /\ doing'[c].number = given + 1 /\ doing'[c].name = m.name
      /\ \A d \in Commanders : d # c => place'[d] = place[d] /\ doing'[d] = doing[d]
  BY GiveGoes
<1>2. /\ UNCHANGED <<query, op_result, issued, param_sem, late>> /\ (~overlap' => ~overlap)
      /\ ~overlap' /\ m.name = "param" => \A d \in Commanders \ {c} : ~Using(d, "param")
  BY DEF Give
<1>3. ~Warned(c) /\ ~Warned(c)'
  <2>1. m.name \in {"set", "send", "param", "dump", "quit"}
    BY <1>1 DEF Commands
  <2> QED BY <1>1, <2>1 DEF Warned
<1>4. \A d \in Commanders : d # c =>
        (Warned(d)' <=> Warned(d)) /\ (Using(d, "param")' <=> Using(d, "param"))
  BY <1>1, <1>2 DEF Warned, Using
<1>5. ASSUME m.name # "param" PROVE AnswerInv'
  <2>1. ~Using(c, "param")'
    BY <1>1, <1>5 DEF Using
  <2>2. \A d \in Commanders :
           /\ Warned(d)' => Warned(d)
           /\ place[d] = "wait" => place'[d] = "wait" \/ Warned(d)
           /\ Using(d, "param")' => /\ Using(d, "param") /\ doing'[d] = doing[d]
                                    /\ Warned(d) => Warned(d)'
                                    /\ issued'[doing[d].number] = issued[doing[d].number]
    BY <1>1, <1>2, <1>3, <1>4, <2>1
  <2> QED BY <1>1, <1>2, <2>2, AnswerKept
<1>6. ASSUME m.name = "param" PROVE AnswerInv'
  <2> SUFFICES ASSUME ~overlap', ~late'
      PROVE /\ place'["runner"] \notin Idling => \A d \in Commanders : ~Warned(d)'
            /\ place'["runner"] \in Asking \cup {"issue"} => \E d \in Commanders : place'[d] = "wait"
            /\ \A d \in Commanders : Using(d, "param")' => AnswerOf(d)'
    BY AnswerNext
  <2>1. ~overlap /\ ~late /\ \A d \in Commanders : d # c => ~Using(d, "param")
    BY <1>2, <1>6
  <2>2. \A d \in Commanders : place[d] # "wait"
    BY <1>1, <2>1 DEF UserInv, ParamPlaces
  <2>3. place["runner"] \notin Asking \cup {"issue"}
    BY <2>1, <2>2 DEF AnswerInv
  <2>4. \A d \in Commanders : ~Warned(d)'
    BY <1>3, <1>4, <2>1, WarnedUses
  <2>5. issued[given + 1] = 0
    <3>1. given + 1 > given
      BY ShellAssumption DEF ShellTypeInv, ShellTypeOK, Numbers
    <3> QED BY <1>1, <3>1 DEF UserInv
  <2>6. AnswerOf(c)'
    BY <1>1, <1>2, <2>3, <2>4, <2>5 DEF AnswerOf, Asking
  <2> QED BY <1>1, <1>4, <2>1, <2>3, <2>4, <2>6
<1> QED BY <1>5, <1>6

LEMMA AnswerRunner ==
  ASSUME ShellTypeInv, UserInv, QueryInv, AnswerInv, NEW s \in {"Success", "Timeout"},
         Refresh \/ CheckParam \/ Issue \/ Await(s) \/ RefreshParams \/ Post
  PROVE  AnswerInv'
<1> USE DEF history, At
<1>1. \E p \in Places["runner"] : To("runner", p)
  BY PlacesAre DEF Refresh, CheckParam, Issue, Await, RefreshParams, Post
<1>2. /\ \A c \in Commanders : place'[c] = place[c]
      /\ \A p \in Places["runner"] : To("runner", p) => place'["runner"] = p
  BY <1>1, RunnerGoes
<1>3. /\ UNCHANGED <<doing, param_control, param_sem_init, overlap>>
      /\ \A c \in Commanders : Using(c, "param")' <=> Using(c, "param")
  BY DEF Refresh, CheckParam, Issue, Await, RefreshParams, Post, querying, Using
<1>4. \A c \in Commanders : param_sem' = param_sem => (Warned(c)' <=> Warned(c))
  BY <1>2 DEF Warned
<1> SUFFICES ASSUME ~overlap', ~late'
    PROVE /\ place'["runner"] \notin Idling => \A c \in Commanders : ~Warned(c)'
          /\ place'["runner"] \in Asking \cup {"issue"} => \E c \in Commanders : place'[c] = "wait"
          /\ \A c \in Commanders : Using(c, "param")' => AnswerOf(c)'
  BY AnswerNext
<1>5. ~overlap
  BY <1>3
<1>6. /\ Asking = {"await", "refreshParams", "post"} /\ Idling = {"loop", "done"}
      /\ Places["runner"] = Asking \cup Idling \cup {"state", "postState", "param", "issue"}
  BY PlacesAre DEF Asking, Idling
<1>7. CASE Refresh
  <2>2. /\ place["runner"] = "loop" /\ param_sem' = param_sem /\ issued' = issued
        /\ place'["runner"] = IF run THEN "state" ELSE "done"
    BY <1>2, <1>6, <1>7 DEF Refresh, Idling
  <2>4. ~late /\ (run => \A c \in Commanders : ~Warned(c))
    <3>1. ASSUME run PROVE ~late /\ \A c \in Commanders : ~Warned(c)
      <4>1. late' = (late \/ \E c \in Commanders : Warned(c))
        BY <1>7, <3>1 DEF Refresh
      <4> QED BY <4>1
    <3>2. ASSUME ~run PROVE ~late
      BY <1>7, <3>2 DEF Refresh
    <3> QED BY <3>1, <3>2
  <2>5. ~run => op_result' = op_result
    BY <1>7 DEF Refresh
  <2>6. ASSUME NEW c \in Commanders, Using(c, "param") PROVE AnswerOf(c)'
    <3>1. AnswerOf(c)
      BY <1>5, <2>4, <2>6 DEF AnswerInv
    <3> QED BY <1>3, <1>4, <1>6, <2>2, <2>4, <2>5, <3>1 DEF AnswerOf
  <2> QED BY <1>3, <1>4, <1>6, <2>2, <2>4, <2>6
<1>8. CASE CheckParam
  <2>1. /\ place["runner"] = "param" /\ param_sem' = param_sem
        /\ UNCHANGED <<issued, query, op_result>>
        /\ late' = (late /\ \E c \in Commanders : Using(c, "param"))
        /\ place'["runner"] = IF param_sem_init THEN "issue" ELSE "loop"
    BY <1>2, <1>6, <1>8 DEF CheckParam, querying
  <2>2. \A c \in Commanders : ~Warned(c)
    <3>1. CASE late
      BY <2>1, <3>1, WarnedUses
    <3>2. CASE ~late
      BY <1>5, <1>6, <2>1, <3>2 DEF AnswerInv
    <3> QED BY <3>1, <3>2
  <2>3. place'["runner"] \in Asking \cup {"issue"} => \E c \in Commanders : place[c] = "wait"
    <3>1. param_sem_init => \E c \in Commanders : place[c] \in {"wait", "lower"}
      BY <1>5 DEF QueryInv
    <3> QED BY <1>6, <2>1, <2>2, <3>1 DEF Warned
  <2>4. ASSUME NEW c \in Commanders, Using(c, "param") PROVE AnswerOf(c)'
    <3>1. AnswerOf(c)
      BY <1>5, <2>1, <2>4 DEF AnswerInv
    <3> QED BY <1>3, <1>4, <1>6, <2>1, <2>2, <3>1 DEF AnswerOf
  <2> QED BY <1>2, <1>3, <1>4, <2>1, <2>2, <2>3, <2>4
<1>9. CASE Issue
  <2>1. /\ place["runner"] = "issue" /\ UNCHANGED <<param_sem, op_result, late>>
        /\ place'["runner"] = "await" /\ query' = param_control.action
    BY <1>2, <1>6, <1>9 DEF Issue
  <2>2. /\ \A c \in Commanders : ~Warned(c)
        /\ \E c \in Commanders : place[c] = "wait"
    BY <1>5, <1>6, <2>1 DEF AnswerInv
  <2>3. ASSUME NEW c \in Commanders, Using(c, "param") PROVE AnswerOf(c)'
    <3>1. AnswerOf(c)
      BY <1>5, <2>1, <2>3 DEF AnswerInv
    <3>2. issued[doing[c].number] = 0
      BY <1>6, <2>1, <2>2, <3>1 DEF AnswerOf
    <3>3. PICK w \in Commanders : place[w] = "wait"
      BY <2>2
    <3>4. place[w] \in ParamPlaces /\ place[w] \in Stored /\ place[w] \in Complete
      BY <3>3 DEF ParamPlaces, Stored, Complete
    <3>5. w = c
      BY <1>5, <2>3, <3>4, ParamUser DEF UserInv
    <3>6. param_control.action = doing[c].number /\ param_control.type = doing[c].number
      BY <1>5, <3>4, <3>5 DEF QueryInv
    <3>7. doing[c].number \in Operations
      BY <3>4, <3>5, ParamUser
    <3>8. issued'[doing[c].number] = 1
      BY <1>9, <3>2, <3>6, <3>7 DEF Issue, Once, ShellTypeInv, ShellTypeOK
    <3> QED BY <1>3, <1>4, <1>6, <2>1, <2>2, <3>6, <3>8 DEF AnswerOf
  <2> QED BY <1>2, <1>3, <1>4, <2>1, <2>2, <2>3
<1>10. CASE Await(s)
  <2>1. /\ place["runner"] = "await" /\ UNCHANGED <<param_sem, issued, late>>
        /\ place'["runner"] \in {"refreshParams", "post"} /\ op_result'.of = query
    BY <1>2, <1>6, <1>10 DEF Await
  <2>2. /\ \A c \in Commanders : ~Warned(c)
        /\ \E c \in Commanders : place[c] = "wait"
    BY <1>5, <1>6, <2>1 DEF AnswerInv
  <2>3. ASSUME NEW c \in Commanders, Using(c, "param") PROVE AnswerOf(c)'
    <3>1. AnswerOf(c)
      BY <1>5, <2>1, <2>3 DEF AnswerInv
    <3> QED BY <1>3, <1>4, <1>6, <2>1, <2>2, <3>1 DEF AnswerOf
  <2> QED BY <1>2, <1>3, <1>4, <2>1, <2>2, <2>3
<1>11. CASE RefreshParams
  <2>1. /\ place["runner"] = "refreshParams" /\ UNCHANGED <<param_sem, issued, late, op_result>>
        /\ place'["runner"] = "post"
    BY <1>2, <1>6, <1>11 DEF RefreshParams, querying
  <2>2. /\ \A c \in Commanders : ~Warned(c)
        /\ \E c \in Commanders : place[c] = "wait"
    BY <1>5, <1>6, <2>1 DEF AnswerInv
  <2>3. ASSUME NEW c \in Commanders, Using(c, "param") PROVE AnswerOf(c)'
    <3>1. AnswerOf(c)
      BY <1>5, <2>1, <2>3 DEF AnswerInv
    <3> QED BY <1>3, <1>4, <1>6, <2>1, <2>2, <3>1 DEF AnswerOf
  <2> QED BY <1>2, <1>3, <1>4, <2>1, <2>2, <2>3
<1>12. CASE Post
  <2>1. /\ place["runner"] = "post" /\ UNCHANGED <<issued, late, op_result>>
        /\ place'["runner"] = "loop" /\ param_sem' > 0
    BY <1>2, <1>6, <1>12 DEF Post
  <2>2. PICK w \in Commanders : place[w] = "wait"
    BY <1>5, <1>6, <2>1 DEF AnswerInv
  <2>3. ASSUME NEW c \in Commanders, Using(c, "param") PROVE AnswerOf(c)'
    <3>1. AnswerOf(c)
      BY <1>5, <2>1, <2>3 DEF AnswerInv
    <3>2. c = w
      <4>1. place[w] \in ParamPlaces
        BY <2>2 DEF ParamPlaces
      <4> QED BY <1>5, <2>3, <4>1 DEF UserInv
    <3>3. Warned(c)'
      BY <1>2, <2>1, <2>2, <3>2 DEF Warned
    <3> QED BY <1>3, <1>6, <2>1, <3>1, <3>3 DEF AnswerOf
  <2> QED BY <1>3, <1>6, <2>1, <2>3
<1> QED BY <1>7, <1>8, <1>9, <1>10, <1>11, <1>12

LEMMA AnswerStep ==
  ASSUME ShellTypeInv, UserInv, QueryInv, AnswerInv, [ShellNext]_shellVars
  PROVE  AnswerInv'
<1>1. ASSUME Quiet PROVE AnswerInv'
  <2>1. \A c \in Commanders :
          /\ Warned(c)' => Warned(c)
          /\ place[c] = "wait" => place'[c] = "wait" \/ Warned(c)
          /\ Using(c, "param")' => /\ Using(c, "param") /\ doing'[c] = doing[c]
                                   /\ Warned(c) => Warned(c)'
                                   /\ issued'[doing[c].number] = issued[doing[c].number]
    <3> SUFFICES ASSUME NEW c \in Commanders
        PROVE /\ Warned(c)' => Warned(c)
              /\ place[c] = "wait" => place'[c] = "wait" \/ Warned(c)
              /\ Using(c, "param")' => /\ Using(c, "param") /\ doing'[c] = doing[c]
                                       /\ Warned(c) => Warned(c)'
                                       /\ issued'[doing[c].number] = issued[doing[c].number]
      OBVIOUS
    <3>1. param_sem' = param_sem /\ issued' = issued
      BY <1>1 DEF Quiet, querying
    <3>2. ASSUME place'[c] = place[c], doing'[c] = doing[c]
          PROVE (Warned(c)' <=> Warned(c)) /\ (Using(c, "param")' <=> Using(c, "param"))
      BY <3>1, <3>2 DEF Warned, Using
    <3>3. ASSUME place[c] \notin ParamPlaces, place'[c] \notin ParamPlaces,
                 doing'[c] \in {doing[c], Nothing}
          PROVE ~Warned(c)' /\ ~Using(c, "param")' /\ place[c] # "wait"
      <4>1. ~Using(c, "param")
        BY <3>3 DEF UserInv
      <4> QED BY <3>3, <4>1 DEF Warned, Using, ParamPlaces
    <3> QED BY <1>1, <3>1, <3>2, <3>3 DEF Quiet
  <2>2. UNCHANGED <<query, op_result, overlap, late>>
    BY <1>1 DEF Quiet, querying
  <2>3. place'["runner"] = place["runner"] \/
          {place["runner"], place'["runner"]} \subseteq {"state", "postState", "param"}
    BY <1>1 DEF Quiet
  <2> QED BY <2>1, <2>2, <2>3, AnswerKept
<1> QED
  BY <1>1, AnswerCommander, AnswerGiven, AnswerRunner, QuietSteps DEF ShellNext, Execute, Runner

ShellInv == ShellTypeInv /\ UserInv /\ QueryInv /\ AnswerInv

LEMMA ShellKeeps == ShellSpec => []ShellInv
<1>1. ShellInit => ShellInv
  BY ShellStarts, UserStarts, QueryStarts, AnswerStarts DEF ShellInv
<1>2. ShellInv /\ [ShellNext]_shellVars => ShellInv'
  BY TypesStep, UserStep, QueryStep, AnswerStep DEF ShellInv
<1> QED BY <1>1, <1>2, PTL DEF ShellSpec

\* The program `orazio' is always in a state of its types, for every set of
\* parameters and commands and every number of operations.
THEOREM ShellTypes == ShellSpec => []ShellTypeOK
<1>1. ShellInv => ShellTypeOK
  BY DEF ShellInv, ShellTypeInv
<1> QED BY <1>1, ShellKeeps, PTL

\* fetch, store and request return the answer to their own query, which the
\* runner sent once (paramFn and _runnerFn), while one commander at a time has
\* such a command and the runner does not come back before it has returned.
THEOREM AnswersReturned == ShellSpec => OperationsAnswered
<1>1. ShellInv /\ [ShellNext]_shellVars =>
        [\A c \in Commanders : Return(c) /\ ~late /\ ~overlap
           => op_result.of = doing[c].number /\ issued[doing[c].number] = 1]_shellVars
  <2> SUFFICES ASSUME ShellInv, NEW c \in Commanders, Return(c), ~late, ~overlap
               PROVE  op_result.of = doing[c].number /\ issued[doing[c].number] = 1
    OBVIOUS
  <2>1. place[c] \in ParamPlaces /\ Warned(c)
    BY DEF Return, At, Warned, ParamPlaces
  <2>2. AnswerOf(c)
    BY <2>1 DEF ShellInv, UserInv, AnswerInv
  <2> QED BY <2>1, <2>2 DEF AnswerOf
<1> QED BY <1>1, ShellKeeps, PTL DEF ShellSpec, OperationsAnswered

\* The robot's parameters overwrite an edit of the host's copy only while a
\* fetch, store or request of that type waits for them (refreshParams).
THEOREM EditsOverwrittenOnRequest == ShellSpec => EditsKept
<1>1. ShellInv /\ [ShellNext]_shellVars =>
        [\A t \in ParamTypes : edited[t] /\ ~edited'[t] /\ ~late /\ ~overlap
           => \E c \in Commanders : place[c] = "wait" /\ doing[c].type = t]_shellVars
  <2> SUFFICES ASSUME ShellInv, [ShellNext]_shellVars, NEW t \in ParamTypes,
                      edited[t], ~edited'[t], ~late, ~overlap
               PROVE  \E c \in Commanders : place[c] = "wait" /\ doing[c].type = t
    OBVIOUS
  <2>1. edited' # edited
    OBVIOUS
  <2>2. edited \in [ParamTypes -> BOOLEAN]
    BY DEF ShellInv, ShellTypeInv, ShellTypeOK
  <2>3. ~\E c \in Commanders : SetVariable(c)
    BY <2>2 DEF SetVariable
  <2>4. RefreshParams
    <3>1. ~UNCHANGED shellVars
      BY <2>1 DEF shellVars
    <3>2. ~(Shell \/ Web)
      BY <2>1 DEF Shell, Web, ShellLoop, JoinRunner, JoinWeb
    <3>3. \A c \in Commanders : ~Param(c)
      BY <2>1 DEF Param, StoreQuery, InitSem, Raise, Wait, Lower, Return
    <3>4. \A c \in Commanders : ~(SendVariable(c) \/ Quit(c) \/ InitDump(c) \/ RaiseDump(c) \/ Dump(c))
      BY <2>1 DEF SendVariable, Quit, InitDump, RaiseDump, Dump
    <3>5. \A c \in Commanders : \A m \in CommandsOf[c] : ~Give(c, m)
      BY <2>1 DEF Give
    <3>6. \A s \in {"Success", "Timeout"} :
            ~(Refresh \/ CheckState \/ PostState \/ CheckParam \/ Issue \/ Await(s) \/ Post)
      BY <2>1 DEF Refresh, CheckState, PostState, CheckParam, Issue, Await, Post
    <3> QED BY <2>3, <3>1, <3>2, <3>3, <3>4, <3>5, <3>6 DEF ShellNext, Execute, Runner
  <2>5. t = asked[param_control.type]
    BY <2>2, <2>4 DEF RefreshParams
  <2>6. PICK c \in Commanders : place[c] = "wait"
    BY <2>4 DEF RefreshParams, At, ShellInv, AnswerInv, Asking
  <2>7. place[c] \in ParamPlaces /\ place[c] \in Complete
    BY <2>6 DEF ParamPlaces, Complete
  <2>8. param_control.type = doing[c].number
    BY <2>7 DEF ShellInv, QueryInv
  <2>9. asked[doing[c].number] = doing[c].type
    BY <2>7, ParamUser DEF ShellInv
  <2> QED BY <2>5, <2>6, <2>8, <2>9
<1> QED BY <1>1, ShellKeeps, PTL DEF ShellSpec, EditsKept
=============================================================================
