------------------------------ MODULE Firmware ------------------------------
(***************************************************************************)
(* The firmware's main loop (orazio.c) and what it calls in an epoch: the  *)
(* drive (orazio_drive.c), the packets from the host (orazio_comm.c), the  *)
(* watchdog (orazio_watchdog.c), the joints (orazio_joints.c).  The timer  *)
(* interrupt, onTimerTick, may come between any two of its stores.         *)
(*                                                                         *)
(* DeferredPackets says how packets come to be pending, TxRing how they    *)
(* are sent; here a pending packet is a command with a number, and of what *)
(* is sent only the bytes it takes in the transmit buffer matter.  A speed *)
(* is the number of the command it comes from, one for each of its two     *)
(* bytes: the interrupt may see a half-stored one.                         *)
(***************************************************************************)
EXTENDS Naturals, Sequences

CONSTANTS left, right,        \* the joints
          CommCycles,         \* ticks of an epoch
          WatchdogCycles,     \* 0: no watchdog
          CommandKinds,       \* what the host sends
          PacketSize,         \* size of each packet the robot sends, framed
          TxBytes,            \* PACKET_SIZE_MAX
          MaxPending,         \* packets the host sends in an epoch, at most
          MaxCommands         \* bound: packets in all

Joints == {left, right}
Kinds == {"drive", "joint", "badIndex", "system", "driveParam", "jointParam", "query"}
Answer == {"response", "systemParam", "driveParam", "jointParam",
           "systemStatus", "jointStatus", "driveStatus", "sonar", "message", "end"}

ASSUME FirmwareAssumption ==
  /\ left # right /\ CommCycles \in Nat \ {0} /\ WatchdogCycles \in Nat
  /\ CommandKinds \subseteq Kinds /\ PacketSize \in [Answer -> Nat] /\ TxBytes \in Nat
  /\ MaxPending \in Nat /\ MaxCommands \in Nat

VARIABLES
  tick_counter, comm_handle,
  loopAt,                     \* where the main loop is
  step,                       \* and in which of the stores of that place
  rx, pending,                \* packets that have arrived; packets to handle
  rx_changed,                 \* previous_rx_packets!=system_status.rx_packets
  tx_used, unsent,            \* transmit buffer; answers it had no room for
  message,                    \* string_message waits to be sent
  drive_control, last_seq, enabled, adjusted,
  control,                    \* joint_control: speed and mode of each joint
  ready,                      \* joint_controllers[i] has its pointers
  pwm,                        \* what the last tick gave to the motors
  watchdog_count,
  commands,                   \* packets the host has sent
  silent,                     \* epochs since a packet was received
  stoppedAt,                  \* newest command when the watchdog last stopped
  wild                        \* the interrupt has used a null pointer

timer == <<tick_counter, comm_handle, pwm, wild>>
comm == <<rx, pending, rx_changed, tx_used, unsent, message>>
driveVars == <<drive_control, last_seq, enabled, adjusted>>
joints == <<control, ready>>
history == <<commands, silent, stoppedAt>>
firmwareVars == <<timer, loopAt, step, comm, driveVars, joints, watchdog_count, history>>

Still == <<0, 0>>

FirmwareInit ==
  /\ tick_counter = CommCycles /\ comm_handle = FALSE
  /\ loopAt = "idle" /\ step = 0
  /\ rx = <<>> /\ pending = <<>> /\ rx_changed = FALSE
  /\ tx_used = 0 /\ unsent = {} /\ message = TRUE
  /\ drive_control = 0 /\ last_seq = 0 /\ enabled = FALSE /\ adjusted = 0
  /\ control = [j \in Joints |-> [speed |-> Still, mode |-> "Disabled"]]
  /\ ready = [j \in Joints |-> TRUE]
  /\ pwm = [j \in Joints |-> Still]
  /\ watchdog_count = WatchdogCycles
  /\ commands = 0 /\ silent = 0 /\ stoppedAt = 0 /\ wild = FALSE

-----------------------------------------------------------------------------
(* The timer interrupt, and packets that arrive                            *)

\* onTimerTick: Orazio_jointsHandle, then the tick is counted.
Tick ==
  /\ ~wild
  /\ wild' = \E j \in Joints : ~ready[j]
  /\ pwm' = [j \in Joints |-> IF control[j].mode = "Disabled" THEN Still ELSE control[j].speed]
  /\ tick_counter' = IF tick_counter = 1 THEN CommCycles ELSE tick_counter - 1
  /\ comm_handle' = (tick_counter = 1 \/ comm_handle)
  /\ UNCHANGED <<loopAt, step, comm, driveVars, joints, watchdog_count, history>>

Packet(kind, j, mode) == [kind |-> kind, joint |-> j, mode |-> mode, number |-> commands + 1]

\* A packet from the host is in the UART.
Arrive ==
  /\ ~wild /\ commands < MaxCommands /\ Len(rx) < MaxPending
  /\ \E kind \in CommandKinds :
       IF kind = "joint"
         THEN \E j \in Joints, mode \in {"Disabled", "PWM", "PID"} :
                rx' = Append(rx, Packet(kind, j, mode))
         ELSE rx' = Append(rx, Packet(kind, left, "Disabled"))
  /\ commands' = commands + 1
  /\ UNCHANGED <<timer, loopAt, step, pending, rx_changed, tx_used, unsent, message,
                 driveVars, joints, watchdog_count, silent, stoppedAt>>

-----------------------------------------------------------------------------
(* The main loop *)

At(place) == ~wild /\ loopAt = place
LoopTo(place) == loopAt' = place /\ step' = 0
Stay == loopAt' = loopAt /\ step' = step + 1

\* Orazio_driveUpdate: the speed wanted now.
DriveUpdate ==
  /\ At("idle") /\ comm_handle
  /\ adjusted' = drive_control
  /\ unsent' = {}
  /\ LoopTo("driveControl")
  /\ UNCHANGED <<timer, rx, pending, rx_changed, tx_used, message, drive_control, last_seq,
                 enabled, joints, watchdog_count, history>>

\* Orazio_driveControl: a packet with a new number enables the drive.
DriveControl ==
  /\ At("driveControl")
  /\ enabled' = (enabled \/ last_seq # drive_control)
  /\ last_seq' = drive_control
  /\ LoopTo(IF enabled' THEN "store" ELSE "receive")
  /\ UNCHANGED <<timer, comm, drive_control, adjusted, joints, watchdog_count, history>>

SetByte(j, byte, n) == control' = [control EXCEPT ![j].speed[byte] = n]
SetMode(j, mode) == control' = [control EXCEPT ![j].mode = mode]

\* Mutant of DriveStore: the modes before the speeds.
DriveStoreModesFirst ==
  /\ At("store")
  /\ \/ step = 0 /\ SetMode(left, "PID")
     \/ step = 1 /\ SetMode(right, "PID")
     \/ step = 2 /\ SetByte(left, 1, adjusted)
     \/ step = 3 /\ SetByte(left, 2, adjusted)
     \/ step = 4 /\ SetByte(right, 1, adjusted)
     \/ step = 5 /\ SetByte(right, 2, adjusted)
  /\ IF step = 5 THEN LoopTo("receive") ELSE Stay
  /\ UNCHANGED <<timer, comm, driveVars, ready, watchdog_count, history>>

\* Mutant of DriveStore: the left joint's mode twice.
DriveStoreLeft ==
  /\ At("store")
  /\ \/ step = 0 /\ SetByte(left, 1, adjusted)
     \/ step = 1 /\ SetByte(left, 2, adjusted)
     \/ step = 2 /\ SetByte(right, 1, adjusted)
     \/ step = 3 /\ SetByte(right, 2, adjusted)
     \/ step \in {4, 5} /\ SetMode(left, "PID")
  /\ IF step = 5 THEN LoopTo("receive") ELSE Stay
  /\ UNCHANGED <<timer, comm, driveVars, ready, watchdog_count, history>>

\* DifferentialDriveController_control: both speeds, then both modes.
DriveStore ==
  /\ At("store")
  /\ \/ step = 0 /\ SetByte(left, 1, adjusted)
     \/ step = 1 /\ SetByte(left, 2, adjusted)
     \/ step = 2 /\ SetByte(right, 1, adjusted)
     \/ step = 3 /\ SetByte(right, 2, adjusted)
     \/ step = 4 /\ SetMode(left, "PID")
     \/ step = 5 /\ SetMode(right, "PID")
  /\ IF step = 5 THEN LoopTo("receive") ELSE Stay
  /\ UNCHANGED <<timer, comm, driveVars, ready, watchdog_count, history>>

\* Orazio_flushInputBuffers
Receive ==
  /\ At("receive")
  /\ pending' = rx /\ rx' = <<>>
  /\ rx_changed' = (rx # <<>>)
  /\ LoopTo("handle")
  /\ UNCHANGED <<timer, tx_used, unsent, message, driveVars, joints, watchdog_count, history>>

\* Orazio_sendPacket: a packet that finds no room in the transmit buffer is not sent.
Buffer == [size |-> tx_used, lost |-> unsent]
SendOne(sent, p) ==
  IF sent.size + PacketSize[p] <= TxBytes
    THEN [sent EXCEPT !.size = sent.size + PacketSize[p]]
    ELSE [sent EXCEPT !.lost = sent.lost \cup {p}]

\* A packet has been handled: its response is sent after what is sent already, the
\* next packet.
Handled(sent) ==
  /\ LET answered == SendOne(sent, "response")
     IN  tx_used' = answered.size /\ unsent' = answered.lost
  /\ pending' = Tail(pending)
  /\ LoopTo("handle")
  /\ UNCHANGED <<timer, rx, rx_changed, message, watchdog_count, history>>

Handling(kind) == At("handle") /\ pending # <<>> /\ Head(pending).kind = kind

\* Orazio_handlePacket with drive_control_args
HandleDrive ==
  /\ Handling("drive")
  /\ drive_control' = Head(pending).number
  /\ Handled(Buffer)
  /\ UNCHANGED <<last_seq, enabled, adjusted, joints>>

\* Orazio_handlePacket with joint_control_args: DISABLE_DRIVE, then the copy.
HandleJoint ==
  /\ Handling("joint")
  /\ LET p == Head(pending)
     IN  \/ step = 0 /\ enabled' = FALSE /\ UNCHANGED control
         \/ step = 1 /\ SetByte(p.joint, 1, p.number) /\ UNCHANGED enabled
         \/ step = 2 /\ SetByte(p.joint, 2, p.number) /\ UNCHANGED enabled
         \/ step = 3 /\ SetMode(p.joint, p.mode) /\ UNCHANGED enabled
  /\ IF step = 3 THEN Handled(Buffer)
     ELSE Stay /\ UNCHANGED <<timer, comm, watchdog_count, history>>
  /\ UNCHANGED <<drive_control, last_seq, adjusted, ready>>

\* Orazio_handlePacket with the index of no joint, up to 127.  From 128 on the index is
\* negative as an int8_t and passes the test of line 126; what the memcpy then overwrites
\* before the array is not defined, and such a packet is left out.
HandleBadIndex ==
  /\ Handling("badIndex")
  /\ Handled(Buffer)
  /\ UNCHANGED <<driveVars, joints>>

\* Orazio_driveInit: the controller is reset and the last command forgotten.
DriveInit ==
  /\ last_seq' = drive_control
  /\ adjusted' = 0
  /\ UNCHANGED <<drive_control, enabled>>

\* Orazio_handlePacket with system_param_args or drive_param_args
HandleSystemParam ==
  /\ Handling("system")
  /\ DriveInit
  /\ Handled(SendOne(Buffer, "systemParam"))
  /\ UNCHANGED joints
HandleDriveParam ==
  /\ Handling("driveParam")
  /\ DriveInit
  /\ Handled(SendOne(Buffer, "driveParam"))
  /\ UNCHANGED joints

\* Orazio_handlePacket with joint_param_args: Orazio_jointsInit clears each
\* controller, its pointers included, and then sets the pointers.
HandleJointParam ==
  /\ Handling("jointParam")
  /\ LET j == IF step < 2 THEN left ELSE right
     IN  ready' = [ready EXCEPT ![j] = (step % 2 = 1)]
  /\ IF step = 3 THEN Handled(SendOne(Buffer, "jointParam"))
     ELSE Stay /\ UNCHANGED <<timer, comm, watchdog_count, history>>
  /\ UNCHANGED <<driveVars, control>>

\* Orazio_handleParamCtl with ParamRequest of the largest parameters
HandleQuery ==
  /\ Handling("query")
  /\ Handled(SendOne(Buffer, "driveParam"))
  /\ UNCHANGED <<driveVars, joints>>

\* What every epoch sends, with the default periodic_packet_mask; sonars are ready
\* in some epochs only.
Periodic(sonarReady) ==
  LET joint == SendOne(SendOne(SendOne(Buffer, "systemStatus"), "jointStatus"), "jointStatus")
      drive == SendOne(joint, "driveStatus")
  IN  IF sonarReady THEN SendOne(drive, "sonar") ELSE drive
EpochSent(sonarReady) ==
  SendOne(IF message THEN SendOne(Periodic(sonarReady), "message") ELSE Periodic(sonarReady),
          "end")
EpochEnds ==
  /\ message' = FALSE
  /\ silent' = IF rx_changed THEN 0 ELSE IF silent > WatchdogCycles THEN silent ELSE silent + 1
  /\ LoopTo("watchdog")
  /\ UNCHANGED <<timer, rx, pending, rx_changed, driveVars, joints, watchdog_count,
                 commands, stoppedAt>>

\* Mutant of SendStatus: the buffer is not emptied.
SendStatusNoFlush ==
  /\ At("handle") /\ pending = <<>>
  /\ tx_used' = EpochSent(FALSE).size /\ unsent' = EpochSent(FALSE).lost
  /\ EpochEnds

\* The rest of Orazio_commHandle: the transmit buffer is emptied into the UART.
SendStatus ==
  /\ At("handle") /\ pending = <<>>
  /\ tx_used' = 0 /\ \E sonarReady \in BOOLEAN : unsent' = EpochSent(sonarReady).lost
  /\ EpochEnds

\* Orazio_watchdogReset and Orazio_watchdogHandle
WatchdogReset == IF rx_changed THEN WatchdogCycles ELSE watchdog_count

\* Mutant of Watchdog: the drive stays enabled.
WatchdogKeepsDrive ==
  /\ At("watchdog")
  /\ watchdog_count' = IF WatchdogReset > 0 THEN WatchdogReset - 1 ELSE 0
  /\ UNCHANGED enabled
  /\ LoopTo(IF WatchdogCycles > 0 /\ watchdog_count' = 0 THEN "disable" ELSE "clear")
  /\ UNCHANGED <<timer, comm, drive_control, last_seq, adjusted, joints, history>>

Watchdog ==
  /\ At("watchdog")
  /\ watchdog_count' = IF WatchdogReset > 0 THEN WatchdogReset - 1 ELSE 0
  /\ IF WatchdogCycles > 0 /\ watchdog_count' = 0
       THEN enabled' = FALSE /\ LoopTo("disable")
       ELSE UNCHANGED enabled /\ LoopTo("clear")
  /\ UNCHANGED <<timer, comm, drive_control, last_seq, adjusted, joints, history>>

\* Orazio_jointsDisable: mode, then output, which the mode makes 0 anyway.
JointsDisable ==
  /\ At("disable")
  /\ SetMode(IF step = 0 THEN left ELSE right, "Disabled")
  /\ IF step = 1 THEN LoopTo("clear") /\ stoppedAt' = commands - Len(rx)
                 ELSE Stay /\ UNCHANGED stoppedAt
  /\ UNCHANGED <<timer, comm, driveVars, ready, watchdog_count, commands, silent>>

\* comm_handle=0, also when a tick has raised it in the meantime
Clear ==
  /\ At("clear")
  /\ comm_handle' = FALSE
  /\ LoopTo("idle")
  /\ UNCHANGED <<tick_counter, pwm, wild, comm, driveVars, joints, watchdog_count, history>>

LoopStep == \/ DriveUpdate \/ DriveControl \/ DriveStore \/ Receive
        \/ HandleDrive \/ HandleJoint \/ HandleBadIndex \/ HandleSystemParam \/ HandleDriveParam
        \/ HandleJointParam \/ HandleQuery \/ SendStatus
        \/ Watchdog \/ JointsDisable \/ Clear

FirmwareNext == Tick \/ Arrive \/ LoopStep

FirmwareSpec == FirmwareInit /\ [][FirmwareNext]_firmwareVars

-----------------------------------------------------------------------------
(* Properties *)

CommandNumbers == 0 .. MaxCommands
Modes == {"Disabled", "PWM", "PID"}
Speeds == CommandNumbers \X CommandNumbers

FirmwareTypeOK ==
  /\ tick_counter \in 1 .. CommCycles /\ comm_handle \in BOOLEAN
  /\ loopAt \in {"idle", "driveControl", "store", "receive", "handle", "watchdog",
             "disable", "clear"} /\ step \in 0 .. 5
  /\ Len(rx) <= MaxPending /\ Len(pending) <= MaxPending
  /\ tx_used \in 0 .. TxBytes /\ unsent \subseteq Answer
  /\ {drive_control, last_seq, adjusted} \subseteq CommandNumbers
  /\ control \in [Joints -> [speed : Speeds, mode : Modes]]
  /\ pwm \in [Joints -> Speeds] /\ ready \in [Joints -> BOOLEAN]
  /\ watchdog_count \in 0 .. WatchdogCycles

\* When no packet has come for watchdog_cycles epochs, the last one's epoch
\* counted, the drive and the joints are off, whatever came before and
\* whenever the interrupt ran (orazio_watchdog.c:8-24, orazio.c:66-79).
WatchdogStops ==
  WatchdogCycles > 0 /\ silent >= WatchdogCycles - 1 /\ loopAt = "idle"
    => ~enabled /\ \A j \in Joints : control[j].mode = "Disabled"

\* After the watchdog has stopped the joints, the interrupt never drives one
\* by a command from before, not by one byte of it: the speed is stored before
\* the mode (orazio_drive_internal.c:187-190, orazio_packets.h:62-65).  With a
\* single watchdog cycle it may: a command is received in one epoch, which
\* ends with a stop, and enabled and stored in the next.
FreshSpeed ==
  \A j \in Joints : control[j].mode # "Disabled"
    => control[j].speed[1] > stoppedAt /\ control[j].speed[2] > stoppedAt

\* Up to MaxPending packets an epoch (2, with the sizes of orazio_packets.h)
\* no answer is lost, once the start-up message is sent.
NothingUnsent ==
  [][loopAt = "handle" /\ loopAt' = "watchdog" /\ ~message => unsent' = {}]_firmwareVars

\* What the watchdog stops had been obeyed (with 3 cycles or more): the newest
\* drive command, which is received in one epoch and enabled and stored in the
\* next, has reached both motors by a tick, though an epoch that takes long
\* drops a tick's signal (orazio.c:67, orazio_drive.c:27-33).
DriveObeyed ==
  [][loopAt = "watchdog" /\ enabled /\ ~enabled'
       => \A j \in Joints : pwm[j] = <<drive_control, drive_control>>]_firmwareVars

\* orazio_joints.c:38-39, the tick's job is to "compute desired speed based on
\* the encoder input and the control strategy": it has a controller for it.
TickUsesJoint == ~wild
=============================================================================
