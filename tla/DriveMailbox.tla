---------------------------- MODULE DriveMailbox ----------------------------
(***************************************************************************)
(* drive_control, the one packet of orazio_logger.c through which the      *)
(* keyboard's and the joystick's threads tell main what to send to the     *)
(* robot.  It has no lock: header.seq # 0 means "to be sent".              *)
(*                                                                         *)
(* Each store to drive_control is a step.  Nothing orders the stores       *)
(* between two calls (the variable is not volatile and no lock is taken),  *)
(* so a thread may make them in any order: `todo' holds those left.        *)
(* The serial output of OrazioClient is the sequence tx, which sync        *)
(* empties; it holds TxRoom commands at most.                              *)
(***************************************************************************)
EXTENDS Integers, Sequences

CONSTANTS JoyValues,  \* the velocities a joystick event may set
          TxRoom,     \* commands that fit in the transmit buffer
          MaxKeys,    \* bound: key presses
          MaxEvents   \* bound: joystick events

ASSUME MailboxAssumption ==
  JoyValues \subseteq Int /\ TxRoom \in Nat \ {0} /\ MaxKeys \in Nat /\ MaxEvents \in Nat

Fields == {"seq", "tv", "rv"}
Axes == {"tv", "rv"}
Threads == {"main", "key", "joy"}

VARIABLES
  drive,      \* drive_control: seq, translational and rotational velocity
  mode,       \* Start or Stop
  pc,         \* where each thread is
  stopping,   \* main is past its four joins
  todo,       \* stores each thread has still to make
  copied,     \* the translational velocity each sender has copied to tx
  mutex,      \* write_mutex of the client: its holder, or "none"
  tx,         \* commands in the transmit buffer
  robot,      \* the last command the robot was sent
  full,       \* a send found no room: TxBufferFull
  missed,     \* history: drive_control has what the last send did not take
              \* and main's clear took the request for it off
  lastKey,    \* kind of the last key press
  keys, events

mailboxVars == <<drive, mode, stopping, pc, todo, copied, mutex, tx, robot, full, missed,
                 lastKey, keys, events>>

Zero == [tv |-> 0, rv |-> 0]
Set(f, v) == [field |-> f, value |-> v]
ZeroStores == {Set("seq", 0), Set("tv", 0), Set("rv", 0)}

\* drive_control starts with seq = 1: main sends a zero command at once.
\* The joystick may be missing: joyThread then returns.
MailboxInit ==
  /\ drive = [seq |-> 1, tv |-> 0, rv |-> 0]
  /\ mode = "Start" /\ stopping = FALSE
  /\ \E j \in {"idle", "done"} : pc = [main |-> "loop", key |-> "idle", joy |-> j]
  /\ todo = [t \in Threads |-> {}]
  /\ copied = [t \in Threads |-> 0] /\ mutex = "none" /\ tx = <<>>
  /\ robot = Zero
  /\ full = FALSE /\ missed = FALSE
  /\ lastKey = "none" /\ keys = 0 /\ events = 0

Goto(t, label) == pc' = [pc EXCEPT ![t] = label]

\* Main has copied the field to the packet it sends and not cleared seq yet.
CopiedByMain(field) ==
  \/ field = "tv" /\ pc["main"] \in {"copyRv", "sent"}
  \/ field = "rv" /\ pc["main"] = "sent"

\* One store to a field of drive_control.
Store(t) ==
  /\ \E w \in todo[t] :
       /\ drive' = [drive EXCEPT ![w.field] = w.value]
       /\ todo' = [todo EXCEPT ![t] = @ \ {w}]
       /\ missed' = (missed \/ CopiedByMain(w.field))
  /\ UNCHANGED <<mode, stopping, pc, copied, mutex, tx, robot, full, lastKey, keys, events>>

-----------------------------------------------------------------------------
(* OrazioClient_sendPacket(client, &drive_control, 0) *)

\* Mutant of SendLock: write_mutex is not waited for.
SendNoLock(t) ==
  /\ pc[t] = "send" /\ todo[t] = {}
  /\ mutex' = t
  /\ drive' = [drive EXCEPT !.seq = 1] /\ missed' = FALSE
  /\ Goto(t, "copyTv")
  /\ UNCHANGED <<mode, stopping, todo, copied, tx, robot, full, lastKey, keys, events>>

\* The lock, and _sendPacket's p->seq = global_seq, which is drive_control's.
SendLock(t) ==
  /\ pc[t] = "send" /\ todo[t] = {} /\ mutex = "none"
  /\ mutex' = t
  /\ drive' = [drive EXCEPT !.seq = 1] /\ missed' = FALSE
  /\ Goto(t, "copyTv")
  /\ UNCHANGED <<mode, stopping, todo, copied, tx, robot, full, lastKey, keys, events>>

\* PacketHandler_sendPacket copies the payload byte by byte.
CopyTv(t) ==
  /\ pc[t] = "copyTv"
  /\ copied' = [copied EXCEPT ![t] = drive.tv]
  /\ Goto(t, "copyRv")
  /\ UNCHANGED <<drive, mode, stopping, todo, mutex, tx, robot, full, missed, lastKey, keys,
                 events>>

\* The rest of the copy and the unlock; without room nothing is queued.
CopyRv(t) ==
  /\ pc[t] = "copyRv"
  /\ IF Len(tx) < TxRoom
       THEN /\ tx' = Append(tx, [tv |-> copied[t], rv |-> drive.rv])
            /\ UNCHANGED <<full, missed>>
       ELSE tx' = tx /\ full' = TRUE /\ missed' = TRUE
  /\ mutex' = "none"
  /\ Goto(t, "sent")
  /\ UNCHANGED <<drive, mode, stopping, todo, copied, robot, lastKey, keys, events>>

Send(t) == SendLock(t) \/ CopyTv(t) \/ CopyRv(t)

-----------------------------------------------------------------------------
(* keyThread *)

\* An arrow: the velocity is loaded, changed by one step and stored, and seq
\* is set.
KeyArrow ==
  /\ pc["key"] = "idle" /\ keys < MaxKeys
  /\ \E a \in Axes, s \in {-1, 1} :
       todo' = [todo EXCEPT !["key"] = {Set(a, drive[a] + s), Set("seq", 1)}]
  /\ keys' = keys + 1 /\ lastKey' = "arrow"
  /\ Goto("key", "stores")
  /\ UNCHANGED <<drive, mode, stopping, copied, mutex, tx, robot, full, missed, events>>

\* Any other key: stopRobot.
KeyStop ==
  /\ pc["key"] = "idle" /\ keys < MaxKeys
  /\ todo' = [todo EXCEPT !["key"] = ZeroStores]
  /\ keys' = keys + 1 /\ lastKey' = "stop"
  /\ Goto("key", "send")
  /\ UNCHANGED <<drive, mode, stopping, copied, mutex, tx, robot, full, missed, events>>

KeyReturn ==
  /\ pc["key"] \in {"stores", "sent"} /\ todo["key"] = {}
  /\ Goto("key", "idle")
  /\ UNCHANGED <<drive, mode, stopping, todo, copied, mutex, tx, robot, full, missed, lastKey,
                 keys, events>>

KeyEsc ==
  /\ pc["key"] = "idle"
  /\ mode' = "Stop"
  /\ Goto("key", "done")
  /\ UNCHANGED <<drive, stopping, todo, copied, mutex, tx, robot, full, missed, lastKey, keys,
                 events>>

Key == Store("key") \/ Send("key") \/ KeyArrow \/ KeyStop \/ KeyReturn \/ KeyEsc

-----------------------------------------------------------------------------
(* joyThread *)

\* while (mode != Stop) and the read of an event
JoyEvent ==
  /\ pc["joy"] = "idle" /\ todo["joy"] = {} /\ mode = "Start" /\ events < MaxEvents
  /\ \E t, r \in JoyValues :
       todo' = [todo EXCEPT !["joy"] = {Set("rv", r), Set("tv", t), Set("seq", 1)}]
  /\ events' = events + 1
  /\ UNCHANGED <<drive, mode, stopping, pc, copied, mutex, tx, robot, full, missed, lastKey, keys>>

JoyExit ==
  /\ pc["joy"] = "idle" /\ todo["joy"] = {} /\ mode = "Stop"
  /\ Goto("joy", "done")
  /\ UNCHANGED <<drive, mode, stopping, todo, copied, mutex, tx, robot, full, missed, lastKey,
                 keys, events>>

Joy == Store("joy") \/ JoyEvent \/ JoyExit

-----------------------------------------------------------------------------
(* main *)

MainLoop ==
  /\ pc["main"] = "loop"
  /\ Goto("main", IF mode = "Stop" THEN "joinKey"
                  ELSE IF drive.seq # 0 THEN "send" ELSE "sync")
  /\ UNCHANGED <<drive, mode, stopping, todo, copied, mutex, tx, robot, full, missed, lastKey,
                 keys, events>>

\* A thread has set seq, and has velocities of the same event still to store.
HalfStored(t) == todo[t] # {} /\ \A w \in todo[t] : w.field # "seq"

\* drive_control.header.seq=0, whatever the send returned
MainClear ==
  /\ pc["main"] = "sent" /\ ~stopping
  /\ drive' = [drive EXCEPT !.seq = 0]
  /\ missed' = (missed \/ \E t \in {"key", "joy"} : HalfStored(t))
  /\ Goto("main", "sync")
  /\ UNCHANGED <<mode, stopping, todo, copied, mutex, tx, robot, full, lastKey, keys, events>>

\* Mutant of MainSync: seq is cleared in every turn, sent or not.
MainSyncClear ==
  /\ \/ pc["main"] = "sync" /\ Goto("main", "loop")
     \/ pc["main"] = "sent" /\ stopping /\ Goto("main", "done")
  /\ mutex = "none"
  /\ tx' = <<>>
  /\ robot' = IF tx = <<>> THEN robot ELSE tx[Len(tx)]
  /\ drive' = [drive EXCEPT !.seq = 0]
  /\ UNCHANGED <<mode, stopping, todo, copied, mutex, full, missed, lastKey, keys, events>>

\* OrazioClient_sync: the buffer is flushed with write_mutex held.  After the
\* loop, ten more of them follow the last stopRobot.
MainSync ==
  /\ \/ pc["main"] = "sync" /\ Goto("main", "loop")
     \/ pc["main"] = "sent" /\ stopping /\ Goto("main", "done")
  /\ mutex = "none"
  /\ tx' = <<>>
  /\ robot' = IF tx = <<>> THEN robot ELSE tx[Len(tx)]
  /\ UNCHANGED <<drive, mode, stopping, todo, copied, mutex, full, missed, lastKey, keys, events>>

\* Mutant of MainJoin: the joystick's thread is not waited for.
MainJoinKey ==
  /\ pc["main"] = "joinKey" /\ pc["key"] = "done"
  /\ Goto("main", "stopRobot")
  /\ UNCHANGED <<drive, mode, stopping, todo, copied, mutex, tx, robot, full, missed, lastKey,
                 keys, events>>

MainJoin ==
  /\ \/ pc["main"] = "joinKey" /\ pc["key"] = "done" /\ Goto("main", "joinJoy")
     \/ pc["main"] = "joinJoy" /\ pc["joy"] = "done" /\ Goto("main", "stopRobot")
  /\ UNCHANGED <<drive, mode, stopping, todo, copied, mutex, tx, robot, full, missed, lastKey,
                 keys, events>>

\* The last stopRobot.  The joins of the writer and the camera come between;
\* they touch nothing of this module.
MainStopRobot ==
  /\ pc["main"] = "stopRobot"
  /\ stopping' = TRUE
  /\ todo' = [todo EXCEPT !["main"] = ZeroStores]
  /\ Goto("main", "send")
  /\ UNCHANGED <<drive, mode, copied, mutex, tx, robot, full, missed, lastKey, keys, events>>

Main == \/ Store("main") \/ Send("main")
        \/ MainLoop \/ MainClear \/ MainSync \/ MainJoin \/ MainStopRobot

MailboxNext == Key \/ Joy \/ Main

MailboxSpec == MailboxInit /\ [][MailboxNext]_mailboxVars

\* Threads are scheduled; a mutex that is free again and again is acquired.
\* A key press or a joystick event may never come, but the stores an event
\* started, and the joystick thread's exit, do.
MailboxFairSpec ==
  /\ MailboxSpec
  /\ SF_mailboxVars(Main)
  /\ SF_mailboxVars(Store("key") \/ Send("key") \/ KeyReturn)
  /\ WF_mailboxVars(Store("joy") \/ JoyExit)

-----------------------------------------------------------------------------
(* Properties *)

Command == [tv : Int, rv : Int]

MailboxTypeOK ==
  /\ drive \in [seq : {0, 1}, tv : Int, rv : Int]
  /\ mode \in {"Start", "Stop"} /\ stopping \in BOOLEAN
  /\ pc \in [Threads -> {"loop", "idle", "done", "stores", "send", "copyTv", "copyRv", "sent",
                         "sync", "joinKey", "joinJoy", "stopRobot"}]
  /\ \A t \in Threads : \A w \in todo[t] :
       w.field \in Fields /\ w.value \in Int /\ (w.field = "seq" => w.value \in {0, 1})
  /\ copied \in [Threads -> Int] /\ mutex \in Threads \cup {"none"}
  /\ tx \in Seq(Command) /\ Len(tx) <= TxRoom
  /\ robot \in Command /\ full \in BOOLEAN /\ missed \in BOOLEAN
  /\ lastKey \in {"none", "arrow", "stop"} /\ keys \in Nat /\ events \in Nat

\* The last command that was queued or, if it left already, received.
LastCommand == IF tx = <<>> THEN robot ELSE tx[Len(tx)]

\* When the logger ends, the last command the robot received is the stop:
\* no key or joystick store that was still under way overtakes it.
FinalCommandIsStop == pc["main"] = "done" /\ ~full => robot = Zero

\* Without a joystick, once the stop key has been handled the last command
\* queued is a stop, even if main was in the middle of sending another.
StopKeyWins ==
  pc["joy"] = "done" /\ events = 0 /\ lastKey = "stop" /\ pc["key"] = "idle" /\ ~full
    => LastCommand = Zero

\* No thread is in the middle of changing drive_control or of sending it.
AtRest ==
  /\ \A t \in Threads : todo[t] = {}
  /\ \A t \in Threads : pc[t] \notin {"send", "copyTv", "copyRv", "stopRobot"}

\* What a user asks for is sent: a request is taken, or main leaves its loop
\* first; and once none is pending and no thread is at work, the velocities the
\* threads stored are those of the last command queued.  What main's clear
\* discards (orazio_logger.c:400) is a store made after main's copy of its
\* field, or after main's send of the seq stored before it, and a refused send;
\* there is no other way to lose a request, and the next send mends it.
RequestSent ==
  /\ drive.seq # 0 ~> drive.seq = 0 \/ mode = "Stop"
  /\ [](AtRest /\ drive.seq = 0 => missed \/ LastCommand = [tv |-> drive.tv, rv |-> drive.rv])
=============================================================================
