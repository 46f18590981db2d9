--------------------------- MODULE FirmwareProofs ---------------------------
(***************************************************************************)
(* The main loop of the firmware, its watchdog and the timer's interrupt,  *)
(* for any number of epochs and packets and every value of                 *)
(* watchdog_cycles: the watchdog stops the robot in time, never obeys      *)
(* again what it had stopped, and stops only what had been obeyed.         *)
(***************************************************************************)
EXTENDS Firmware, TLAPS

-----------------------------------------------------------------------------
(* The inductive invariant *)

\* Types, wider than the code needs
Packets == [kind : Kinds, joint : Joints, mode : Modes, number : Nat]
Bytes == [1 .. 2 -> Nat]

\* Types of what the proofs are about
FirmwareTyped ==
  /\ drive_control \in Nat /\ last_seq \in Nat /\ adjusted \in Nat
  /\ commands \in Nat /\ stoppedAt \in Nat /\ silent \in Nat
  /\ watchdog_count \in Nat /\ step \in Nat
  /\ rx \in Seq(Packets) /\ pending \in Seq(Packets)
  /\ control \in [Joints -> [speed : Bytes, mode : Modes]]
  /\ pwm \in [Joints -> Bytes]

\* Where packets are pending, and what the main loop finds at each place.
LoopInv ==
  /\ loopAt \in {"idle", "driveControl", "store", "receive", "handle", "watchdog", "disable",
                "clear"}
  /\ pending # <<>> => loopAt = "handle" /\ rx_changed
  /\ loopAt \in {"driveControl", "store"} => adjusted = drive_control
  /\ loopAt \in {"store", "receive"} => last_seq = drive_control
  /\ loopAt \in {"handle", "watchdog"} /\ ~rx_changed => last_seq = drive_control
  /\ loopAt = "store" => enabled

\* The stores of the drive and of a joint packet, one after the other
StoreInv ==
  /\ loopAt = "store" =>
       /\ step > 0 => control[left].speed[1] = adjusted
       /\ step > 1 => control[left].speed[2] = adjusted
       /\ step > 2 => control[right].speed[1] = adjusted
       /\ step > 3 => control[right].speed[2] = adjusted
       /\ step > 4 => control[left].mode = "PID"
  /\ pending # <<>> /\ Head(pending).kind = "joint" =>
       LET p == Head(pending)
       IN  /\ step > 1 => control[p.joint].speed[1] = p.number
           /\ step > 2 => control[p.joint].speed[2] = p.number

\* The watchdog's stop, as far as the joints go
AllDisabled == \A j \in Joints : control[j].mode = "Disabled"

\* Nothing to obey has arrived yet.
Untouched == ~enabled /\ AllDisabled /\ last_seq = drive_control

\* While a packet that has just come is handled the count is about to be reset.
Resetting == rx_changed /\ loopAt \in {"handle", "watchdog"}

\* The watchdog's count and the epochs without a packet
WatchdogInv ==
  /\ loopAt = "watchdog" /\ rx_changed => silent = 0
  /\ ~Resetting =>
       \/ Untouched
       \/ watchdog_count = 0
       \/ silent + watchdog_count <= WatchdogCycles - (IF loopAt = "watchdog" THEN 0 ELSE 1)
  /\ loopAt = "disable" => ~enabled /\ (step > 0 => control[left].mode = "Disabled")
  /\ loopAt \in {"clear", "idle"} /\ watchdog_count = 0 /\ WatchdogCycles > 0
       => ~enabled /\ AllDisabled

\* Packets are numbered in the order they arrive.
NumberInv ==
  /\ stoppedAt + Len(rx) <= commands
  /\ \A i \in 1 .. Len(rx) : rx[i].number + Len(rx) = commands + i
  /\ \A i \in 1 .. Len(pending) : pending[i].number > stoppedAt

\* What drives a joint has been asked for after the last stop.
FreshInv ==
  /\ drive_control # last_seq \/ enabled => drive_control > stoppedAt
  /\ loopAt = "disable" => ~enabled /\ last_seq = drive_control
  /\ FreshSpeed

\* The joints hold the newest drive command.
Loaded ==
  \A j \in Joints : /\ control[j].speed[1] = drive_control
                    /\ control[j].speed[2] = drive_control
                    /\ control[j].mode = "PID"
\* The motors have it.
Obeyed == \A j \in Joints : pwm[j][1] = drive_control /\ pwm[j][2] = drive_control

\* Epochs since drive_control last changed may only end with both joints obeying.
ObeyInv ==
  /\ loopAt \in {"disable", "clear", "idle", "driveControl"} /\ silent > 0
       => last_seq = drive_control
  /\ ~Resetting =>
       silent + watchdog_count >= WatchdogCycles - (IF loopAt = "watchdog" THEN 0 ELSE 1)
  /\ enabled /\ ~Resetting =>
       /\ loopAt \in {"receive", "handle", "watchdog"} => Loaded
       /\ silent > 0 => Loaded
       /\ silent > 0 /\ loopAt = "idle" /\ comm_handle => Obeyed
       /\ silent > 0 /\ loopAt \in {"driveControl", "store", "receive", "handle"} => Obeyed
       /\ silent > 1 => Obeyed

\* d is c but for one byte of the speed of joint j.
ByteSet(c, d, j, b, n) ==
  /\ d \in [Joints -> [speed : Bytes, mode : Modes]]
  /\ d[j].speed[b] = n
  /\ \A k \in Joints : d[k].mode = c[k].mode
  /\ \A k \in Joints, i \in 1 .. 2 : k # j \/ i # b => d[k].speed[i] = c[k].speed[i]
\* The same of the mode
ModeSet(c, d, j, m) ==
  /\ d \in [Joints -> [speed : Bytes, mode : Modes]]
  /\ d[j].mode = m
  /\ \A k \in Joints : k # j => d[k].mode = c[k].mode
  /\ \A k \in Joints, i \in 1 .. 2 : d[k].speed[i] = c[k].speed[i]

\* What the store of one byte does
LEMMA ByteStored ==
  ASSUME NEW c \in [Joints -> [speed : Bytes, mode : Modes]],
         NEW j \in Joints, NEW b \in 1 .. 2, NEW n \in Nat
  PROVE  ByteSet(c, [c EXCEPT ![j].speed[b] = n], j, b, n)
<1>1. PICK s \in Bytes : s = [c[j].speed EXCEPT ![b] = n]
  BY DEF Bytes
<1>2. PICK r \in [speed : Bytes, mode : Modes] : r = [c[j] EXCEPT !.speed = s]
  OBVIOUS
<1>3. PICK d \in [Joints -> [speed : Bytes, mode : Modes]] : d = [c EXCEPT ![j] = r]
  OBVIOUS
<1>4. r.mode = c[j].mode /\ r.speed = s
  BY <1>2
<1>5. s[b] = n /\ \A i \in 1 .. 2 : i # b => s[i] = c[j].speed[i]
  BY <1>1 DEF Bytes
<1>6. ByteSet(c, d, j, b, n)
  BY <1>3, <1>4, <1>5 DEF ByteSet
<1>7. d = [c EXCEPT ![j].speed[b] = n]
  BY <1>1, <1>2, <1>3
<1> QED BY <1>6, <1>7

\* What the store of the mode does
LEMMA ModeStored ==
  ASSUME NEW c \in [Joints -> [speed : Bytes, mode : Modes]], NEW j \in Joints, NEW m \in Modes
  PROVE  ModeSet(c, [c EXCEPT ![j].mode = m], j, m)
<1>1. PICK r \in [speed : Bytes, mode : Modes] : r = [c[j] EXCEPT !.mode = m]
  OBVIOUS
<1>2. PICK d \in [Joints -> [speed : Bytes, mode : Modes]] : d = [c EXCEPT ![j] = r]
  OBVIOUS
<1>3. r.speed = c[j].speed /\ r.mode = m
  BY <1>1
<1>4. ModeSet(c, d, j, m)
  BY <1>2, <1>3 DEF ModeSet
<1>5. d = [c EXCEPT ![j].mode = m]
  BY <1>1, <1>2
<1> QED BY <1>4, <1>5

\* The invariants hold at the start.
LEMMA InitFirmware ==
  FirmwareInit => /\ FirmwareTyped /\ LoopInv /\ StoreInv /\ WatchdogInv /\ NumberInv
                  /\ FreshInv /\ ObeyInv
<1> SUFFICES ASSUME FirmwareInit
    PROVE FirmwareTyped /\ LoopInv /\ StoreInv /\ WatchdogInv /\ NumberInv /\ FreshInv /\ ObeyInv
  OBVIOUS
<1>1. FirmwareTyped
  <2>1. Still \in Bytes /\ [speed |-> Still, mode |-> "Disabled"] \in [speed : Bytes, mode : Modes]
    BY DEF Still, Bytes, Modes
  <2>2. control \in [Joints -> [speed : Bytes, mode : Modes]] /\ pwm \in [Joints -> Bytes]
    BY <2>1 DEF FirmwareInit
  <2> QED BY <2>2, FirmwareAssumption DEF FirmwareInit, FirmwareTyped
<1>2. LoopInv /\ StoreInv /\ NumberInv /\ FreshInv
  BY FirmwareAssumption DEF FirmwareInit, LoopInv, StoreInv, NumberInv, FreshInv, FreshSpeed
<1>3. WatchdogInv
  BY FirmwareAssumption DEF FirmwareInit, WatchdogInv, Untouched, AllDisabled, Resetting
<1>4. ObeyInv
  BY FirmwareAssumption DEF FirmwareInit, ObeyInv, Resetting
<1> QED BY <1>1, <1>2, <1>3, <1>4

\* Every step keeps the types.
LEMMA NextTyped ==
  FirmwareTyped /\ stoppedAt + Len(rx) <= commands /\ [FirmwareNext]_firmwareVars => FirmwareTyped'
<1> SUFFICES ASSUME FirmwareTyped, stoppedAt + Len(rx) <= commands, [FirmwareNext]_firmwareVars
             PROVE  FirmwareTyped'
  OBVIOUS
<1> DEFINE
  Numbers == /\ drive_control \in Nat /\ last_seq \in Nat /\ adjusted \in Nat
             /\ commands \in Nat /\ stoppedAt \in Nat /\ silent \in Nat
             /\ watchdog_count \in Nat /\ step \in Nat
  Queues == rx \in Seq(Packets) /\ pending \in Seq(Packets)
  Controls == control \in [Joints -> [speed : Bytes, mode : Modes]]
  Motors == pwm \in [Joints -> Bytes]
<1>0. Numbers /\ Queues /\ Controls /\ Motors
  BY DEF FirmwareTyped
<1>h. pending # <<>> => Head(pending) \in Packets /\ Tail(pending) \in Seq(Packets)
  BY <1>0
<1>n. pending # <<>> => /\ Head(pending).number \in Nat /\ Head(pending).joint \in Joints
                        /\ Head(pending).mode \in Modes
  BY <1>h DEF Packets
<1>j. /\ left \in Joints /\ right \in Joints /\ "PID" \in Modes /\ "Disabled" \in Modes
      /\ 1 \in 1 .. 2 /\ 2 \in 1 .. 2
  BY DEF Joints, Modes
<1>a. CASE Tick
  <2>1. Still \in Bytes /\ \A j \in Joints : control[j].speed \in Bytes
    BY <1>0 DEF Still, Bytes
  <2>2. Motors'
    BY <1>a, <2>1 DEF Tick
  <2>3. (Numbers /\ Queues /\ Controls)'
    BY <1>a, <1>0 DEF Tick, comm, driveVars, joints, history
  <2> QED BY <2>2, <2>3 DEF FirmwareTyped
<1>b. CASE ~Tick
  <2>1. Motors'
    BY <1>b, <1>0
    DEF FirmwareNext, LoopStep, Arrive, DriveUpdate, DriveControl, DriveStore, Receive,
        HandleDrive, HandleJoint, HandleBadIndex, HandleSystemParam, HandleDriveParam,
        HandleJointParam, HandleQuery, SendStatus, EpochEnds, Watchdog, JointsDisable, Clear,
        Handled, timer, firmwareVars
  <2>2. Queues'
    <3>1. CASE Arrive
      <4>1. \A kind \in Kinds, j \in Joints, mode \in Modes : Packet(kind, j, mode) \in Packets
        BY <1>0 DEF Packet, Packets
      <4>2. PICK kind \in CommandKinds, j \in Joints, mode \in Modes :
              rx' = Append(rx, Packet(kind, j, mode))
        BY <3>1, <1>j DEF Arrive, Modes
      <4>3. kind \in Kinds
        BY FirmwareAssumption
      <4> QED BY <4>1, <4>2, <4>3, <3>1, <1>0 DEF Arrive
    <3>2. CASE Receive
      BY <3>2, <1>0 DEF Receive
    <3>3. CASE /\ rx' = rx /\ pending' \in {pending, Tail(pending)}
               /\ (pending' = pending \/ pending # <<>>)
      BY <3>3, <1>0, <1>h
    <3> QED
      BY <3>1, <3>2, <3>3, <1>b
      DEF FirmwareNext, LoopStep, DriveUpdate, DriveControl, DriveStore, HandleDrive, HandleJoint,
          HandleBadIndex, HandleSystemParam, HandleDriveParam, HandleJointParam, HandleQuery,
          SendStatus, EpochEnds, Watchdog, JointsDisable, Clear, Handled, Handling, comm,
          firmwareVars
  <2>3. Controls'
    <3>1. CASE DriveStore
      <4>1. CASE \E j \in Joints, i \in 1 .. 2 : SetByte(j, i, adjusted)
        <5>1. PICK j \in Joints, i \in 1 .. 2 : control' = [control EXCEPT ![j].speed[i] = adjusted]
          BY <4>1 DEF SetByte
        <5> QED BY <5>1, <1>0, ByteStored DEF ByteSet
      <4>2. CASE \E j \in Joints : SetMode(j, "PID")
        <5>1. PICK j \in Joints : control' = [control EXCEPT ![j].mode = "PID"]
          BY <4>2 DEF SetMode
        <5> QED BY <5>1, <1>0, <1>j, ModeStored DEF ModeSet
      <4> QED BY <3>1, <4>1, <4>2, <1>j DEF DriveStore
    <3>2. CASE HandleJoint
      <4>1. CASE \E i \in 1 .. 2 : SetByte(Head(pending).joint, i, Head(pending).number)
        <5>1. PICK i \in 1 .. 2 :
                control' = [control EXCEPT ![Head(pending).joint].speed[i] = Head(pending).number]
          BY <4>1 DEF SetByte
        <5>2. Head(pending).joint \in Joints /\ Head(pending).number \in Nat
          BY <1>n, <3>2 DEF HandleJoint, Handling
        <5>3. PICK j \in Joints, n \in Nat : control' = [control EXCEPT ![j].speed[i] = n]
          BY <5>1, <5>2
        <5> QED BY <5>3, <1>0, ByteStored DEF ByteSet
      <4>2. CASE SetMode(Head(pending).joint, Head(pending).mode)
        <5>1. control' = [control EXCEPT ![Head(pending).joint].mode = Head(pending).mode]
          BY <4>2 DEF SetMode
        <5>2. Head(pending).joint \in Joints /\ Head(pending).mode \in Modes
          BY <1>n, <3>2 DEF HandleJoint, Handling
        <5> QED BY <5>1, <5>2, <1>0, ModeStored DEF ModeSet
      <4>3. CASE UNCHANGED control
        BY <4>3, <1>0
      <4> QED BY <3>2, <4>1, <4>2, <4>3, <1>j DEF HandleJoint
    <3>3. CASE JointsDisable
      <4>1. PICK j \in Joints : SetMode(j, "Disabled")
        BY <3>3, <1>j DEF JointsDisable
      <4>2. control' = [control EXCEPT ![j].mode = "Disabled"]
        BY <4>1 DEF SetMode
      <4> QED BY <4>2, <1>0, <1>j, ModeStored DEF ModeSet
    <3>4. CASE UNCHANGED control
      BY <3>4, <1>0
    <3> QED
      BY <3>1, <3>2, <3>3, <3>4, <1>b
      DEF FirmwareNext, LoopStep, Arrive, DriveUpdate, DriveControl, Receive, HandleDrive,
          HandleBadIndex, HandleSystemParam, HandleDriveParam, HandleJointParam, HandleQuery,
          SendStatus, EpochEnds, Watchdog, Clear, Handled, joints, firmwareVars
  <2>4. Numbers'
    <3>1. rx \in Seq(Packets) => Len(rx) \in Nat
      OBVIOUS
    <3> HIDE DEF Queues, Controls, Motors
    <3>2. CASE Arrive \/ Receive
      <4>1. /\ UNCHANGED <<driveVars, stoppedAt, silent, watchdog_count>>
            /\ commands' \in {commands, commands + 1}
        BY <3>2 DEF Arrive, Receive, history
      <4>2. step' \in {step, 0}
        BY <3>2 DEF Arrive, Receive, LoopTo
      <4> QED BY <4>1, <4>2, <1>0 DEF driveVars
    <3>8. CASE DriveUpdate \/ DriveControl
      BY <3>8, <1>0 DEF DriveUpdate, DriveControl, LoopTo, history
    <3>9. CASE DriveStore
      BY <3>9, <1>0 DEF DriveStore, LoopTo, Stay, driveVars, history
    <3>3. CASE HandleDrive
      BY <3>3, <1>0, <1>n DEF HandleDrive, Handling, Handled, LoopTo, history
    <3>4. CASE HandleJoint
      BY <3>4, <1>0 DEF HandleJoint, Handled, LoopTo, Stay, history
    <3>10. CASE HandleJointParam
      BY <3>10, <1>0 DEF HandleJointParam, Handled, LoopTo, Stay, history, driveVars
    <3>5. CASE HandleBadIndex \/ HandleSystemParam \/ HandleDriveParam \/ HandleQuery
      BY <3>5, <1>0
      DEF HandleBadIndex, HandleSystemParam, HandleDriveParam, HandleQuery, Handled, LoopTo,
          DriveInit, history, driveVars
    <3>6. CASE SendStatus \/ Watchdog \/ Clear \/ UNCHANGED firmwareVars
      BY <3>6, <1>0, FirmwareAssumption
      DEF SendStatus, EpochEnds, Watchdog, Clear, WatchdogReset, LoopTo, firmwareVars, history,
          driveVars
    <3>7. CASE JointsDisable
      BY <3>7, <1>0, <3>1 DEF JointsDisable, LoopTo, Stay, driveVars, Queues
    <3>11. \/ Arrive \/ DriveUpdate \/ DriveControl \/ DriveStore \/ Receive
           \/ HandleDrive \/ HandleJoint \/ HandleBadIndex \/ HandleSystemParam
           \/ HandleDriveParam \/ HandleJointParam \/ HandleQuery \/ SendStatus
           \/ Watchdog \/ JointsDisable \/ Clear \/ UNCHANGED firmwareVars
      BY <1>b, Zenon DEF FirmwareNext, LoopStep
    <3> HIDE DEF Numbers
    <3> QED BY <3>2, <3>3, <3>4, <3>5, <3>6, <3>7, <3>8, <3>9, <3>10, <3>11, Zenon
  <2> QED BY <2>1, <2>2, <2>3, <2>4 DEF FirmwareTyped
<1> QED BY <1>a, <1>b

\* What each store of the drive does to the joints
LEMMA DriveStoreDoes ==
  ASSUME FirmwareTyped, DriveStore
  PROVE  /\ \A k \in Joints : control'[k].mode =
              IF <<step, k>> \in {<<4, left>>, <<5, right>>} THEN "PID" ELSE control[k].mode
         /\ \A k \in Joints, i \in 1 .. 2 : control'[k].speed[i] =
              IF <<step + 1, k>> = <<i, left>> \/ <<step - 1, k>> = <<i, right>>
                THEN adjusted ELSE control[k].speed[i]
<1>1. control \in [Joints -> [speed : Bytes, mode : Modes]] /\ adjusted \in Nat
  BY DEF FirmwareTyped
<1>2. left \in Joints /\ right \in Joints /\ left # right /\ "PID" \in Modes
  BY FirmwareAssumption DEF Joints, Modes
<1>3. \/ step = 0 /\ control' = [control EXCEPT ![left].speed[1] = adjusted]
      \/ step = 1 /\ control' = [control EXCEPT ![left].speed[2] = adjusted]
      \/ step = 2 /\ control' = [control EXCEPT ![right].speed[1] = adjusted]
      \/ step = 3 /\ control' = [control EXCEPT ![right].speed[2] = adjusted]
      \/ step = 4 /\ control' = [control EXCEPT ![left].mode = "PID"]
      \/ step = 5 /\ control' = [control EXCEPT ![right].mode = "PID"]
  BY DEF DriveStore, SetByte, SetMode
<1>4. \A k \in Joints : k = left \/ k = right
  BY DEF Joints
<1>5. CASE step = 0
  <2>1. PICK b \in 1 .. 2, j \in Joints :
          b = 1 /\ j = left /\ control' = [control EXCEPT ![j].speed[b] = adjusted]
    BY <1>2, <1>3, <1>5
  <2>2. ByteSet(control, control', j, b, adjusted)
    BY <2>1, <1>1, ByteStored
  <2> QED BY <2>1, <2>2, <1>2, <1>4, <1>5 DEF ByteSet
<1>6. CASE step = 1
  <2>1. PICK b \in 1 .. 2, j \in Joints :
          b = 2 /\ j = left /\ control' = [control EXCEPT ![j].speed[b] = adjusted]
    BY <1>2, <1>3, <1>6
  <2>2. ByteSet(control, control', j, b, adjusted)
    BY <2>1, <1>1, ByteStored
  <2> QED BY <2>1, <2>2, <1>2, <1>4, <1>6 DEF ByteSet
<1>7. CASE step = 2
  <2>1. PICK b \in 1 .. 2, j \in Joints :
          b = 1 /\ j = right /\ control' = [control EXCEPT ![j].speed[b] = adjusted]
    BY <1>2, <1>3, <1>7
  <2>2. ByteSet(control, control', j, b, adjusted)
    BY <2>1, <1>1, ByteStored
  <2> QED BY <2>1, <2>2, <1>2, <1>4, <1>7 DEF ByteSet
<1>8. CASE step = 3
  <2>1. PICK b \in 1 .. 2, j \in Joints :
          b = 2 /\ j = right /\ control' = [control EXCEPT ![j].speed[b] = adjusted]
    BY <1>2, <1>3, <1>8
  <2>2. ByteSet(control, control', j, b, adjusted)
    BY <2>1, <1>1, ByteStored
  <2> QED BY <2>1, <2>2, <1>2, <1>4, <1>8 DEF ByteSet
<1>9. CASE step \in {4, 5}
  <2>1. PICK j \in Joints :
          control' = [control EXCEPT ![j].mode = "PID"] /\ j = IF step = 4 THEN left ELSE right
    BY <1>2, <1>3, <1>9
  <2>2. ModeSet(control, control', j, "PID")
    BY <2>1, <1>1, <1>2, ModeStored
  <2> QED BY <2>1, <2>2, <1>2, <1>4, <1>9 DEF ModeSet
<1> QED BY <1>3, <1>5, <1>6, <1>7, <1>8, <1>9

\* What each store of a joint packet does to the joints
LEMMA HandleJointDoes ==
  ASSUME FirmwareTyped, HandleJoint
  PROVE  LET p == Head(pending)
         IN  /\ p \in Packets
             /\ \A k \in Joints : control'[k].mode =
                  IF step = 3 /\ k = p.joint THEN p.mode ELSE control[k].mode
             /\ \A k \in Joints, i \in 1 .. 2 :
                  control'[k].speed[i] =
                    IF step = i /\ k = p.joint THEN p.number ELSE control[k].speed[i]
<1>1. control \in [Joints -> [speed : Bytes, mode : Modes]] /\ Head(pending) \in Packets
  BY DEF FirmwareTyped, HandleJoint, Handling
<1>2. PICK j \in Joints, m \in Modes, n \in Nat :
        j = Head(pending).joint /\ m = Head(pending).mode /\ n = Head(pending).number
  BY <1>1 DEF Packets
<1>3. \/ step = 0 /\ control' = control
      \/ step = 1 /\ control' = [control EXCEPT ![j].speed[1] = n]
      \/ step = 2 /\ control' = [control EXCEPT ![j].speed[2] = n]
      \/ step = 3 /\ control' = [control EXCEPT ![j].mode = m]
  BY <1>2 DEF HandleJoint, SetByte, SetMode
<1>4. CASE step \in 1 .. 2
  <2>1. PICK b \in 1 .. 2 : b = step /\ control' = [control EXCEPT ![j].speed[b] = n]
    BY <1>3, <1>4
  <2>2. ByteSet(control, control', j, b, n)
    BY <2>1, <1>1, ByteStored
  <2> QED BY <2>1, <2>2, <1>1, <1>2, <1>4 DEF ByteSet
<1>5. CASE step = 3
  <2>1. control' = [control EXCEPT ![j].mode = m]
    BY <1>3, <1>5
  <2>2. ModeSet(control, control', j, m)
    BY <2>1, <1>1, ModeStored
  <2> QED BY <2>1, <2>2, <1>1, <1>2, <1>5 DEF ModeSet
<1>6. CASE step = 0
  BY <1>1, <1>2, <1>3, <1>6
<1> QED BY <1>3, <1>4, <1>5, <1>6

\* What each store of the stop does to the joints
LEMMA JointsDisableDoes ==
  ASSUME FirmwareTyped, JointsDisable
  PROVE  /\ \A k \in Joints : control'[k].mode =
              IF k = IF step = 0 THEN left ELSE right THEN "Disabled" ELSE control[k].mode
         /\ \A k \in Joints, i \in 1 .. 2 : control'[k].speed[i] = control[k].speed[i]
<1>1. control \in [Joints -> [speed : Bytes, mode : Modes]] /\ "Disabled" \in Modes
  BY DEF FirmwareTyped, Modes
<1>2. PICK j \in Joints :
        j = (IF step = 0 THEN left ELSE right) /\ control' = [control EXCEPT ![j].mode = "Disabled"]
  BY DEF JointsDisable, SetMode, Joints
<1>3. ModeSet(control, control', j, "Disabled")
  BY <1>1, <1>2, ModeStored
<1> QED BY <1>2, <1>3 DEF ModeSet

\* Packets are pending only while they are handled.
LEMMA NextLoop == FirmwareTyped /\ LoopInv /\ [FirmwareNext]_firmwareVars => LoopInv'
<1> SUFFICES ASSUME FirmwareTyped, LoopInv, [FirmwareNext]_firmwareVars PROVE LoopInv'
  OBVIOUS
<1> USE DEF FirmwareTyped, LoopInv
<1>1. CASE Tick
  BY <1>1, FirmwareAssumption DEF Tick, At, LoopTo, Stay, timer, comm, driveVars, joints, history
<1>2. CASE Arrive
  BY <1>2, FirmwareAssumption
  DEF Arrive, At, LoopTo, Stay, Packet, timer, comm, driveVars, joints, history
<1>3. CASE DriveUpdate
  BY <1>3, FirmwareAssumption
  DEF DriveUpdate, At, LoopTo, Stay, timer, comm, driveVars, joints, history
<1>4. CASE DriveControl
  BY <1>4, FirmwareAssumption
  DEF DriveControl, At, LoopTo, Stay, timer, comm, driveVars, joints, history
<1>5. CASE DriveStore
  BY <1>5, FirmwareAssumption
  DEF DriveStore, At, LoopTo, Stay, timer, comm, driveVars, joints, history
<1>6. CASE Receive
  BY <1>6, FirmwareAssumption DEF Receive, At, LoopTo, Stay, timer, comm, driveVars, joints, history
<1>7. CASE HandleDrive
  BY <1>7, FirmwareAssumption
  DEF HandleDrive, At, LoopTo, Stay, Handling, Handled, timer, comm, driveVars, joints, history
<1>8. CASE HandleJoint
  BY <1>8, FirmwareAssumption
  DEF HandleJoint, At, LoopTo, Stay, Handling, Handled, timer, comm, driveVars, joints, history
<1>9. CASE HandleBadIndex
  BY <1>9, FirmwareAssumption
  DEF HandleBadIndex, At, LoopTo, Stay, Handling, Handled, timer, comm, driveVars, joints, history
<1>10. CASE HandleSystemParam
  BY <1>10, FirmwareAssumption
  DEF HandleSystemParam, At, LoopTo, Stay, Handling, Handled, DriveInit, timer, comm, driveVars,
      joints, history
<1>11. CASE HandleDriveParam
  BY <1>11, FirmwareAssumption
  DEF HandleDriveParam, At, LoopTo, Stay, Handling, Handled, DriveInit, timer, comm, driveVars,
      joints, history
<1>12. CASE HandleJointParam
  BY <1>12, FirmwareAssumption
  DEF HandleJointParam, At, LoopTo, Stay, Handling, Handled, timer, comm, driveVars, joints,
      history
<1>13. CASE HandleQuery
  BY <1>13, FirmwareAssumption
  DEF HandleQuery, At, LoopTo, Stay, Handling, Handled, timer, comm, driveVars, joints, history
<1>14. CASE SendStatus
  BY <1>14, FirmwareAssumption
  DEF SendStatus, EpochEnds, At, LoopTo, Stay, timer, comm, driveVars, joints, history
<1>15. CASE Watchdog
  BY <1>15, FirmwareAssumption
  DEF Watchdog, At, LoopTo, Stay, WatchdogReset, timer, comm, driveVars, joints, history
<1>16. CASE JointsDisable
  BY <1>16, FirmwareAssumption
  DEF JointsDisable, At, LoopTo, Stay, timer, comm, driveVars, joints, history
<1>17. CASE Clear
  BY <1>17, FirmwareAssumption DEF Clear, At, LoopTo, Stay, timer, comm, driveVars, joints, history
<1>18. CASE UNCHANGED firmwareVars
  BY <1>18 DEF firmwareVars, timer, comm, driveVars, joints, history
<1> QED
  BY <1>1, <1>2, <1>3, <1>4, <1>5, <1>6, <1>7, <1>8, <1>9, <1>10, <1>11, <1>12, <1>13, <1>14,
     <1>15, <1>16, <1>17, <1>18
  DEF FirmwareNext, LoopStep

\* What was stored stays until the stores are over, though the tick runs between.
LEMMA NextStore ==
  FirmwareTyped /\ LoopInv /\ StoreInv /\ [FirmwareNext]_firmwareVars => StoreInv'
<1> SUFFICES ASSUME FirmwareTyped, LoopInv, StoreInv, [FirmwareNext]_firmwareVars PROVE StoreInv'
  OBVIOUS
<1> USE DEF FirmwareTyped, LoopInv, StoreInv
<1>1. CASE Tick
  BY <1>1, FirmwareAssumption DEF Tick, At, LoopTo, Stay, timer, comm, driveVars, joints, history
<1>2. CASE Arrive
  BY <1>2, FirmwareAssumption
  DEF Arrive, At, LoopTo, Stay, Packet, timer, comm, driveVars, joints, history
<1>3. CASE DriveUpdate
  BY <1>3, FirmwareAssumption
  DEF DriveUpdate, At, LoopTo, Stay, timer, comm, driveVars, joints, history
<1>4. CASE DriveControl
  BY <1>4, FirmwareAssumption
  DEF DriveControl, At, LoopTo, Stay, timer, comm, driveVars, joints, history
<1>5. CASE DriveStore
  <2>1. FirmwareTyped
    OBVIOUS
  <2> QED
    BY <1>5, <2>1, FirmwareAssumption, DriveStoreDoes
    DEF DriveStore, At, LoopTo, Stay, timer, comm, driveVars, joints, history, Packets, Joints,
        Modes
<1>6. CASE Receive
  BY <1>6, FirmwareAssumption DEF Receive, At, LoopTo, Stay, timer, comm, driveVars, joints, history
<1>7. CASE HandleDrive
  BY <1>7, FirmwareAssumption
  DEF HandleDrive, At, LoopTo, Stay, Handling, Handled, timer, comm, driveVars, joints, history
<1>8. CASE HandleJoint
  <2>1. FirmwareTyped /\ loopAt = "handle" /\ loopAt' = "handle"
    BY <1>8 DEF HandleJoint, Handling, Handled, At, LoopTo, Stay
  <2>2. CASE step = 3
    BY <1>8, <2>1, <2>2 DEF HandleJoint, Handled, LoopTo
  <2>3. CASE step # 3
    <3>1. pending' = pending /\ step' = step + 1
      BY <1>8, <2>3 DEF HandleJoint, Stay, comm
    <3> QED BY <1>8, <2>1, <2>3, <3>1, HandleJointDoes DEF Packets
  <2> QED BY <2>2, <2>3
<1>9. CASE HandleBadIndex
  BY <1>9, FirmwareAssumption
  DEF HandleBadIndex, At, LoopTo, Stay, Handling, Handled, timer, comm, driveVars, joints, history
<1>10. CASE HandleSystemParam
  BY <1>10, FirmwareAssumption
  DEF HandleSystemParam, At, LoopTo, Stay, Handling, Handled, DriveInit, timer, comm, driveVars,
      joints, history
<1>11. CASE HandleDriveParam
  BY <1>11, FirmwareAssumption
  DEF HandleDriveParam, At, LoopTo, Stay, Handling, Handled, DriveInit, timer, comm, driveVars,
      joints, history
<1>12. CASE HandleJointParam
  <2>1. UNCHANGED <<control, driveVars, stoppedAt, commands, rx>> /\ loopAt' = "handle"
    BY <1>12 DEF HandleJointParam, Handling, Handled, At, LoopTo, Stay, comm, joints, history
  <2>2. \/ pending' = Tail(pending) /\ step' = 0
        \/ pending' = pending
    BY <1>12 DEF HandleJointParam, Handled, LoopTo, comm
  <2>3. pending # <<>> /\ Head(pending).kind = "jointParam" /\ loopAt = "handle"
    BY <1>12 DEF HandleJointParam, Handling, At
  <2> QED BY <2>1, <2>2, <2>3 DEF driveVars
<1>13. CASE HandleQuery
  BY <1>13, FirmwareAssumption
  DEF HandleQuery, At, LoopTo, Stay, Handling, Handled, timer, comm, driveVars, joints, history
<1>14. CASE SendStatus
  BY <1>14, FirmwareAssumption
  DEF SendStatus, EpochEnds, At, LoopTo, Stay, timer, comm, driveVars, joints, history
<1>15. CASE Watchdog
  BY <1>15, FirmwareAssumption
  DEF Watchdog, At, LoopTo, Stay, WatchdogReset, timer, comm, driveVars, joints, history
<1>16. CASE JointsDisable
  <2>1. FirmwareTyped
    OBVIOUS
  <2> QED
    BY <1>16, <2>1, FirmwareAssumption, JointsDisableDoes
    DEF JointsDisable, At, LoopTo, Stay, timer, comm, driveVars, joints, history, Packets, Joints,
        Modes
<1>17. CASE Clear
  BY <1>17, FirmwareAssumption DEF Clear, At, LoopTo, Stay, timer, comm, driveVars, joints, history
<1>18. CASE UNCHANGED firmwareVars
  BY <1>18 DEF firmwareVars, timer, comm, driveVars, joints, history
<1> QED
  BY <1>1, <1>2, <1>3, <1>4, <1>5, <1>6, <1>7, <1>8, <1>9, <1>10, <1>11, <1>12, <1>13, <1>14,
     <1>15, <1>16, <1>17, <1>18
  DEF FirmwareNext, LoopStep

\* The count and the epochs without a packet together reach the limit.
LEMMA NextWatchdog ==
  FirmwareTyped /\ LoopInv /\ StoreInv /\ WatchdogInv /\ [FirmwareNext]_firmwareVars
    => WatchdogInv'
<1> SUFFICES ASSUME FirmwareTyped, LoopInv, StoreInv, WatchdogInv, [FirmwareNext]_firmwareVars
             PROVE  WatchdogInv'
  OBVIOUS
<1> USE DEF FirmwareTyped, LoopInv, StoreInv, WatchdogInv, Untouched, AllDisabled, Resetting
<1>1. CASE Tick
  BY <1>1, FirmwareAssumption DEF Tick, At, LoopTo, Stay, timer, comm, driveVars, joints, history
<1>2. CASE Arrive
  BY <1>2, FirmwareAssumption
  DEF Arrive, At, LoopTo, Stay, Packet, timer, comm, driveVars, joints, history
<1>3. CASE DriveUpdate
  BY <1>3, FirmwareAssumption
  DEF DriveUpdate, At, LoopTo, Stay, timer, comm, driveVars, joints, history
<1>4. CASE DriveControl
  BY <1>4, FirmwareAssumption
  DEF DriveControl, At, LoopTo, Stay, timer, comm, driveVars, joints, history
<1>5. CASE DriveStore
  <2>1. FirmwareTyped
    OBVIOUS
  <2> QED
    BY <1>5, <2>1, FirmwareAssumption, DriveStoreDoes
    DEF DriveStore, At, LoopTo, Stay, timer, comm, driveVars, joints, history, Packets, Joints,
        Modes
<1>6. CASE Receive
  BY <1>6, FirmwareAssumption DEF Receive, At, LoopTo, Stay, timer, comm, driveVars, joints, history
<1>7. CASE HandleDrive
  BY <1>7, FirmwareAssumption
  DEF HandleDrive, At, LoopTo, Stay, Handling, Handled, timer, comm, driveVars, joints, history
<1>8. CASE HandleJoint
  <2>1. FirmwareTyped
    OBVIOUS
  <2> QED
    BY <1>8, <2>1, FirmwareAssumption, HandleJointDoes
    DEF HandleJoint, At, LoopTo, Stay, Handling, Handled, timer, comm, driveVars, joints, history,
        Packets, Joints, Modes
<1>9. CASE HandleBadIndex
  BY <1>9, FirmwareAssumption
  DEF HandleBadIndex, At, LoopTo, Stay, Handling, Handled, timer, comm, driveVars, joints, history
<1>10. CASE HandleSystemParam
  BY <1>10, FirmwareAssumption
  DEF HandleSystemParam, At, LoopTo, Stay, Handling, Handled, DriveInit, timer, comm, driveVars,
      joints, history
<1>11. CASE HandleDriveParam
  BY <1>11, FirmwareAssumption
  DEF HandleDriveParam, At, LoopTo, Stay, Handling, Handled, DriveInit, timer, comm, driveVars,
      joints, history
<1>12. CASE HandleJointParam
  BY <1>12, FirmwareAssumption
  DEF HandleJointParam, At, LoopTo, Stay, Handling, Handled, timer, comm, driveVars, joints,
      history
<1>13. CASE HandleQuery
  BY <1>13, FirmwareAssumption
  DEF HandleQuery, At, LoopTo, Stay, Handling, Handled, timer, comm, driveVars, joints, history
<1>14. CASE SendStatus
  BY <1>14, FirmwareAssumption
  DEF SendStatus, EpochEnds, At, LoopTo, Stay, timer, comm, driveVars, joints, history
<1>15. CASE Watchdog
  BY <1>15, FirmwareAssumption
  DEF Watchdog, At, LoopTo, Stay, WatchdogReset, timer, comm, driveVars, joints, history
<1>16. CASE JointsDisable
  <2>1. FirmwareTyped
    OBVIOUS
  <2> QED
    BY <1>16, <2>1, FirmwareAssumption, JointsDisableDoes
    DEF JointsDisable, At, LoopTo, Stay, timer, comm, driveVars, joints, history, Packets, Joints,
        Modes
<1>17. CASE Clear
  BY <1>17, FirmwareAssumption DEF Clear, At, LoopTo, Stay, timer, comm, driveVars, joints, history
<1>18. CASE UNCHANGED firmwareVars
  BY <1>18 DEF firmwareVars, timer, comm, driveVars, joints, history
<1> QED
  BY <1>1, <1>2, <1>3, <1>4, <1>5, <1>6, <1>7, <1>8, <1>9, <1>10, <1>11, <1>12, <1>13, <1>14,
     <1>15, <1>16, <1>17, <1>18
  DEF FirmwareNext, LoopStep

\* A packet more, as it is counted
LEMMA OneMore == \A n, l, c, i \in Nat : n + l = c + i => n + (l + 1) = (c + 1) + i
  OBVIOUS

\* Packets are received and handled in the order they arrive.
LEMMA NextNumber ==
  FirmwareTyped /\ LoopInv /\ NumberInv /\ [FirmwareNext]_firmwareVars => NumberInv'
<1> SUFFICES ASSUME FirmwareTyped, LoopInv, NumberInv, [FirmwareNext]_firmwareVars PROVE NumberInv'
  OBVIOUS
<1>1. /\ Len(rx) \in Nat /\ commands \in Nat /\ stoppedAt \in Nat
      /\ \A i \in 1 .. Len(rx) : rx[i].number \in Nat
  <2>1. \A i \in 1 .. Len(rx) : rx[i] \in Packets
    BY DEF FirmwareTyped
  <2> QED BY <2>1 DEF FirmwareTyped, Packets
<1>2. CASE Arrive
  <2>1. PICK p : p.number = commands + 1 /\ rx' = Append(rx, p) /\ commands' = commands + 1
    BY <1>2 DEF Arrive, Packet
  <2>2. UNCHANGED <<stoppedAt, pending>>
    BY <1>2 DEF Arrive
  <2>3. Len(rx') = Len(rx) + 1 /\ rx'[Len(rx) + 1] = p /\ \A i \in 1 .. Len(rx) : rx'[i] = rx[i]
    BY <2>1 DEF FirmwareTyped
  <2>4. ASSUME NEW i \in 1 .. Len(rx') PROVE rx'[i].number + Len(rx') = commands' + i
    <3>1. CASE i = Len(rx) + 1
      BY <1>1, <2>1, <2>3, <3>1
    <3>2. CASE i \in 1 .. Len(rx)
      <4>1. PICK n \in Nat, l \in Nat, c \in Nat : n = rx[i].number /\ l = Len(rx) /\ c = commands
        BY <1>1, <3>2
      <4>2. n + l = c + i /\ i \in Nat
        BY <4>1, <3>2 DEF NumberInv
      <4>3. n + (l + 1) = (c + 1) + i
        BY <4>1, <4>2, OneMore
      <4>4. rx'[i].number = n /\ Len(rx') = l + 1 /\ commands' = c + 1
        BY <2>1, <2>3, <3>2, <4>1
      <4> QED BY <4>3, <4>4
    <3> QED BY <1>1, <2>3, <3>1, <3>2
  <2>5. stoppedAt' + Len(rx') <= commands'
    BY <1>1, <2>1, <2>2, <2>3 DEF NumberInv
  <2>6. \A i \in 1 .. Len(pending') : pending'[i].number > stoppedAt'
    BY <2>2 DEF NumberInv
  <2> QED BY <2>4, <2>5, <2>6 DEF NumberInv
<1>3. CASE Receive
  <2>1. rx' = <<>> /\ pending' = rx /\ UNCHANGED <<stoppedAt, commands>>
    BY <1>3 DEF Receive, history
  <2>2. \A i \in 1 .. Len(rx) : rx[i].number > stoppedAt
    BY <1>1 DEF NumberInv
  <2> QED BY <1>1, <2>1, <2>2 DEF NumberInv
<1>4. CASE JointsDisable
  <2>1. UNCHANGED <<rx, pending, commands>> /\ pending = <<>>
    BY <1>4 DEF JointsDisable, At, LoopInv, comm
  <2>2. stoppedAt' \in {stoppedAt, commands - Len(rx)}
    BY <1>4 DEF JointsDisable
  <2> QED BY <1>1, <2>1, <2>2 DEF NumberInv
<1>5. CASE /\ UNCHANGED <<rx, commands, stoppedAt>>
           /\ (pending' = pending \/ (pending # <<>> /\ pending' = Tail(pending)))
  <2>1. CASE pending' = pending
    BY <1>5, <2>1 DEF NumberInv
  <2>2. CASE pending # <<>> /\ pending' = Tail(pending)
    <3>1. \A i \in 1 .. Len(pending') : i + 1 \in 1 .. Len(pending) /\ pending'[i] = pending[i + 1]
      BY <2>2 DEF FirmwareTyped
    <3>2. \A i \in 1 .. Len(pending') : pending'[i].number > stoppedAt'
      BY <1>5, <3>1 DEF NumberInv
    <3> QED BY <1>5, <3>2 DEF NumberInv
  <2> QED BY <1>5, <2>1, <2>2
<1> QED
  BY <1>2, <1>3, <1>4, <1>5
  DEF FirmwareNext, LoopStep, Tick, DriveUpdate, DriveControl, DriveStore, HandleDrive,
      HandleJoint, HandleBadIndex, HandleSystemParam, HandleDriveParam, HandleJointParam,
      HandleQuery, SendStatus, EpochEnds, Watchdog, Clear, Handled, Handling, comm, history,
      firmwareVars

\* A stop leaves no speed from before with a mode that drives.
LEMMA NextFresh ==
  ASSUME WatchdogCycles # 1, FirmwareTyped, LoopInv, StoreInv, WatchdogInv, NumberInv,
         FreshInv, [FirmwareNext]_firmwareVars
  PROVE  FreshInv'
<1> USE DEF FirmwareTyped, LoopInv, StoreInv, WatchdogInv, NumberInv, FreshInv, FreshSpeed
<1>1. CASE Tick
  BY <1>1, FirmwareAssumption DEF Tick, At, LoopTo, Stay, timer, comm, driveVars, joints, history
<1>2. CASE Arrive
  BY <1>2, FirmwareAssumption
  DEF Arrive, At, LoopTo, Stay, Packet, timer, comm, driveVars, joints, history
<1>3. CASE DriveUpdate
  BY <1>3, FirmwareAssumption
  DEF DriveUpdate, At, LoopTo, Stay, timer, comm, driveVars, joints, history
<1>4. CASE DriveControl
  BY <1>4, FirmwareAssumption
  DEF DriveControl, At, LoopTo, Stay, timer, comm, driveVars, joints, history
<1>5. CASE DriveStore
  <2>1. FirmwareTyped
    OBVIOUS
  <2> QED
    BY <1>5, <2>1, FirmwareAssumption, DriveStoreDoes
    DEF DriveStore, At, LoopTo, Stay, timer, comm, driveVars, joints, history, Packets, Joints,
        Modes
<1>6. CASE Receive
  BY <1>6, FirmwareAssumption DEF Receive, At, LoopTo, Stay, timer, comm, driveVars, joints, history
<1>7. CASE HandleDrive
  BY <1>7, FirmwareAssumption
  DEF HandleDrive, At, LoopTo, Stay, Handling, Handled, timer, comm, driveVars, joints, history
<1>8. CASE HandleJoint
  <2>1. FirmwareTyped /\ loopAt = "handle" /\ loopAt' = "handle" /\ pending # <<>>
    BY <1>8 DEF HandleJoint, Handling, Handled, At, LoopTo, Stay
  <2>2. UNCHANGED <<drive_control, last_seq, stoppedAt>> /\ (enabled' => enabled)
    BY <1>8 DEF HandleJoint, Handled, history
  <2>3. PICK p \in Packets : p = Head(pending) /\ p = pending[1] /\ p.kind = "joint"
    BY <1>8, <2>1 DEF HandleJoint, Handling
  <2>4. p.number \in Nat /\ p.number > stoppedAt
    BY <2>1, <2>3 DEF Packets
  <2>5. /\ step = 3 => control[p.joint].speed[1] = p.number /\ control[p.joint].speed[2] = p.number
        /\ step \in {0, 1, 2, 3}
    BY <1>8, <2>1, <2>3 DEF HandleJoint
  <2>6. /\ \A k \in Joints : control'[k].mode =
                  IF step = 3 /\ k = p.joint THEN p.mode ELSE control[k].mode
        /\ \A k \in Joints, i \in 1 .. 2 :
             control'[k].speed[i] =
                    IF step = i /\ k = p.joint THEN p.number ELSE control[k].speed[i]
    BY <1>8, <2>1, <2>3, HandleJointDoes
  <2>7. FreshSpeed'
    BY <2>2, <2>4, <2>5, <2>6, SMTT(30)
  <2> QED BY <2>1, <2>2, <2>7
<1>9. CASE HandleBadIndex
  BY <1>9, FirmwareAssumption
  DEF HandleBadIndex, At, LoopTo, Stay, Handling, Handled, timer, comm, driveVars, joints, history
<1>10. CASE HandleSystemParam
  BY <1>10, FirmwareAssumption
  DEF HandleSystemParam, At, LoopTo, Stay, Handling, Handled, DriveInit, timer, comm, driveVars,
      joints, history
<1>11. CASE HandleDriveParam
  BY <1>11, FirmwareAssumption
  DEF HandleDriveParam, At, LoopTo, Stay, Handling, Handled, DriveInit, timer, comm, driveVars,
      joints, history
<1>12. CASE HandleJointParam
  BY <1>12, FirmwareAssumption
  DEF HandleJointParam, At, LoopTo, Stay, Handling, Handled, timer, comm, driveVars, joints,
      history
<1>13. CASE HandleQuery
  BY <1>13, FirmwareAssumption
  DEF HandleQuery, At, LoopTo, Stay, Handling, Handled, timer, comm, driveVars, joints, history
<1>14. CASE SendStatus
  BY <1>14, FirmwareAssumption
  DEF SendStatus, EpochEnds, At, LoopTo, Stay, timer, comm, driveVars, joints, history
<1>15. CASE Watchdog
  BY <1>15, FirmwareAssumption
  DEF Watchdog, At, LoopTo, Stay, WatchdogReset, timer, comm, driveVars, joints, history
<1>16. CASE JointsDisable
  <2>1. FirmwareTyped
    OBVIOUS
  <2> QED
    BY <1>16, <2>1, FirmwareAssumption, JointsDisableDoes
    DEF JointsDisable, At, LoopTo, Stay, timer, comm, driveVars, joints, history, Packets, Joints,
        Modes
<1>17. CASE Clear
  BY <1>17, FirmwareAssumption DEF Clear, At, LoopTo, Stay, timer, comm, driveVars, joints, history
<1>18. CASE UNCHANGED firmwareVars
  BY <1>18 DEF firmwareVars, timer, comm, driveVars, joints, history
<1> QED
  BY <1>1, <1>2, <1>3, <1>4, <1>5, <1>6, <1>7, <1>8, <1>9, <1>10, <1>11, <1>12, <1>13, <1>14,
     <1>15, <1>16, <1>17, <1>18
  DEF FirmwareNext, LoopStep

\* A command that is stopped was stored and then seen by a tick.
LEMMA NextObey ==
  FirmwareTyped /\ LoopInv /\ StoreInv /\ WatchdogInv /\ ObeyInv /\ [FirmwareNext]_firmwareVars
    => ObeyInv'
<1> SUFFICES ASSUME FirmwareTyped, LoopInv, StoreInv, WatchdogInv, ObeyInv,
                    [FirmwareNext]_firmwareVars
             PROVE  ObeyInv'
  OBVIOUS
<1> USE DEF FirmwareTyped, LoopInv, StoreInv, WatchdogInv, ObeyInv, Loaded, Obeyed, Resetting
<1>1. CASE Tick
  BY <1>1, FirmwareAssumption DEF Tick, At, LoopTo, Stay, timer, comm, driveVars, joints, history
<1>2. CASE Arrive
  BY <1>2, FirmwareAssumption
  DEF Arrive, At, LoopTo, Stay, Packet, timer, comm, driveVars, joints, history
<1>3. CASE DriveUpdate
  BY <1>3, FirmwareAssumption
  DEF DriveUpdate, At, LoopTo, Stay, timer, comm, driveVars, joints, history
<1>4. CASE DriveControl
  <2>1. enabled' <=> enabled \/ last_seq # drive_control
    BY <1>4 DEF DriveControl
  <2>2. /\ last_seq' = drive_control /\ loopAt = "driveControl" /\ step' = 0
        /\ loopAt' = IF enabled' THEN "store" ELSE "receive"
        /\ UNCHANGED <<timer, comm, drive_control, joints, watchdog_count, history>>
    BY <1>4 DEF DriveControl, At, LoopTo
  <2> QED BY <2>1, <2>2, FirmwareAssumption DEF timer, comm, joints, history
<1>5. CASE DriveStore
  <2>1. FirmwareTyped
    OBVIOUS
  <2> QED
    BY <1>5, <2>1, FirmwareAssumption, DriveStoreDoes
    DEF DriveStore, At, LoopTo, Stay, timer, comm, driveVars, joints, history, Packets, Joints,
        Modes
<1>6. CASE Receive
  BY <1>6, FirmwareAssumption DEF Receive, At, LoopTo, Stay, timer, comm, driveVars, joints, history
<1>7. CASE HandleDrive
  BY <1>7, FirmwareAssumption
  DEF HandleDrive, At, LoopTo, Stay, Handling, Handled, timer, comm, driveVars, joints, history
<1>8. CASE HandleJoint
  <2>1. FirmwareTyped
    OBVIOUS
  <2> QED
    BY <1>8, <2>1, FirmwareAssumption, HandleJointDoes
    DEF HandleJoint, At, LoopTo, Stay, Handling, Handled, timer, comm, driveVars, joints, history,
        Packets, Joints, Modes
<1>9. CASE HandleBadIndex
  BY <1>9, FirmwareAssumption
  DEF HandleBadIndex, At, LoopTo, Stay, Handling, Handled, timer, comm, driveVars, joints, history
<1>10. CASE HandleSystemParam
  BY <1>10, FirmwareAssumption
  DEF HandleSystemParam, At, LoopTo, Stay, Handling, Handled, DriveInit, timer, comm, driveVars,
      joints, history
<1>11. CASE HandleDriveParam
  BY <1>11, FirmwareAssumption
  DEF HandleDriveParam, At, LoopTo, Stay, Handling, Handled, DriveInit, timer, comm, driveVars,
      joints, history
<1>12. CASE HandleJointParam
  BY <1>12, FirmwareAssumption
  DEF HandleJointParam, At, LoopTo, Stay, Handling, Handled, timer, comm, driveVars, joints,
      history
<1>13. CASE HandleQuery
  BY <1>13, FirmwareAssumption
  DEF HandleQuery, At, LoopTo, Stay, Handling, Handled, timer, comm, driveVars, joints, history
<1>14. CASE SendStatus
  BY <1>14, FirmwareAssumption
  DEF SendStatus, EpochEnds, At, LoopTo, Stay, timer, comm, driveVars, joints, history
<1>15. CASE Watchdog
  BY <1>15, FirmwareAssumption
  DEF Watchdog, At, LoopTo, Stay, WatchdogReset, timer, comm, driveVars, joints, history
<1>16. CASE JointsDisable
  <2>1. FirmwareTyped
    OBVIOUS
  <2> QED
    BY <1>16, <2>1, FirmwareAssumption, JointsDisableDoes
    DEF JointsDisable, At, LoopTo, Stay, timer, comm, driveVars, joints, history, Packets, Joints,
        Modes
<1>17. CASE Clear
  BY <1>17, FirmwareAssumption DEF Clear, At, LoopTo, Stay, timer, comm, driveVars, joints, history
<1>18. CASE UNCHANGED firmwareVars
  BY <1>18 DEF firmwareVars, timer, comm, driveVars, joints, history
<1> QED
  BY <1>1, <1>2, <1>3, <1>4, <1>5, <1>6, <1>7, <1>8, <1>9, <1>10, <1>11, <1>12, <1>13, <1>14,
     <1>15, <1>16, <1>17, <1>18
  DEF FirmwareNext, LoopStep

\* The inductive invariant
FirmwareInv == FirmwareTyped /\ LoopInv /\ StoreInv /\ WatchdogInv /\ NumberInv /\ ObeyInv

LEMMA FirmwareInvariant == FirmwareSpec => []FirmwareInv
<1>1. FirmwareInit => FirmwareInv
  BY InitFirmware DEF FirmwareInv
<1>2. FirmwareInv /\ [FirmwareNext]_firmwareVars => FirmwareInv'
  BY NextTyped, NextLoop, NextStore, NextWatchdog, NextNumber, NextObey DEF FirmwareInv, NumberInv
<1> QED BY <1>1, <1>2, PTL DEF FirmwareSpec

\* When no packet has come for watchdog_cycles epochs, the last one's counted, the
\* drive and the joints are off, whatever came before and whenever the interrupt
\* ran (orazio_watchdog.c:8-24, orazio.c:66-79).
THEOREM WatchdogObserved == FirmwareSpec => []WatchdogStops
<1>1. FirmwareInv => WatchdogStops
  BY FirmwareAssumption
  DEF FirmwareInv, FirmwareTyped, WatchdogInv, LoopInv, WatchdogStops, Untouched, AllDisabled,
      Resetting
<1> QED BY <1>1, FirmwareInvariant, PTL

\* The interrupt never drives a joint by a command from before the last stop, not
\* by one byte of it, if watchdog_cycles is not 1: with 1 a command that is received
\* in the epoch of the stop is obeyed in the next one
\* (orazio_drive_internal.c:187-190, orazio_watchdog.c:8-24).
THEOREM SpeedIsFresh == WatchdogCycles # 1 => (FirmwareSpec => []FreshSpeed)
<1> SUFFICES ASSUME WatchdogCycles # 1 PROVE FirmwareSpec => []FreshSpeed
  OBVIOUS
<1>1. FirmwareInit => FreshInv
  BY InitFirmware
<1>2. FirmwareInv /\ FreshInv /\ [FirmwareNext]_firmwareVars => FreshInv'
  BY NextFresh DEF FirmwareInv
<1>3. FreshInv => FreshSpeed
  BY DEF FreshInv
<1> QED BY <1>1, <1>2, <1>3, FirmwareInvariant, PTL DEF FirmwareSpec

\* With 3 cycles or more, what the watchdog stops had reached both motors by a
\* tick, though an epoch that takes long drops a tick's signal (orazio.c:67,
\* orazio_drive.c:27-33).
THEOREM CommandsObeyed == WatchdogCycles >= 3 => (FirmwareSpec => DriveObeyed)
<1> SUFFICES ASSUME WatchdogCycles >= 3 PROVE FirmwareSpec => DriveObeyed
  OBVIOUS
<1> DEFINE Obeys == loopAt = "watchdog" /\ enabled /\ ~enabled' =>
                      \A j \in Joints : pwm[j] = <<drive_control, drive_control>>
<1>1. FirmwareInv /\ [FirmwareNext]_firmwareVars => Obeys
  <2> SUFFICES ASSUME FirmwareInv, [FirmwareNext]_firmwareVars, loopAt = "watchdog", enabled,
                      ~enabled'
               PROVE  \A j \in Joints : pwm[j] = <<drive_control, drive_control>>
    OBVIOUS
  <2>1. Watchdog
    BY DEF FirmwareNext, LoopStep, Tick, Arrive, DriveUpdate, DriveControl, DriveStore, Receive,
           HandleDrive, HandleJoint, HandleBadIndex, HandleSystemParam, HandleDriveParam,
           HandleJointParam, HandleQuery, SendStatus, EpochEnds, JointsDisable, Clear, Handling, At,
           driveVars, firmwareVars
  <2>2. watchdog_count' = 0
    BY <2>1 DEF Watchdog
  <2>3. Obeyed
    BY <2>1, <2>2, FirmwareAssumption
    DEF Watchdog, WatchdogReset, FirmwareInv, FirmwareTyped, ObeyInv, Resetting
  <2>4. ASSUME NEW s \in Bytes, NEW n \in Nat, s[1] = n, s[2] = n PROVE s = <<n, n>>
    BY <2>4 DEF Bytes
  <2> QED BY <2>3, <2>4 DEF Obeyed, FirmwareInv, FirmwareTyped
<1> QED BY <1>1, FirmwareInvariant, PTL DEF FirmwareSpec, DriveObeyed

-----------------------------------------------------------------------------
(* NothingUnsent *)

\* The buffer has room for a bytes of answers to each packet of an epoch, and for what
\* every epoch sends.
AnswersFit(a) ==
  /\ \A p \in {"systemParam", "driveParam", "jointParam"} :
       PacketSize[p] + PacketSize["response"] <= a
  /\ MaxPending * a + PacketSize["systemStatus"] + PacketSize["jointStatus"]
       + PacketSize["jointStatus"] + PacketSize["driveStatus"] + PacketSize["sonar"]
       + PacketSize["end"] <= TxBytes

\* The buffer is empty but while packets are handled, and has room for the answers to
\* those that are pending.
RoomInv(a) ==
  /\ tx_used \in Nat /\ commands \in Nat /\ rx \in Seq(Packets) /\ pending \in Seq(Packets)
  /\ Len(rx) <= MaxPending
  /\ loopAt # "handle" => tx_used = 0 /\ pending = <<>>
  /\ tx_used + Len(pending) * a <= MaxPending * a
  /\ loopAt \in {"driveControl", "store", "receive", "handle"} => unsent = {}

\* A packet for which there is room
LEMMA SendFits ==
  ASSUME NEW n \in Nat, NEW lost, NEW p \in Answer, n + PacketSize[p] <= TxBytes
  PROVE  /\ SendOne([size |-> n, lost |-> lost], p) = [size |-> n + PacketSize[p], lost |-> lost]
         /\ n + PacketSize[p] \in Nat
<1>1. PacketSize[p] \in Nat
  BY FirmwareAssumption
<1> QED BY <1>1 DEF SendOne

LEMMA RoomStarts == ASSUME NEW a \in Nat PROVE FirmwareInit => RoomInv(a)
<1>1. MaxPending \in Nat /\ MaxPending * a \in Nat /\ 0 * a = 0
  BY FirmwareAssumption
<1> QED BY <1>1 DEF FirmwareInit, RoomInv

\* A packet of those pending is handled: its answer, if it has one, and the response.
LEMMA RoomHandled ==
  ASSUME NEW a \in Nat, AnswersFit(a), RoomInv(a), loopAt = "handle", pending # <<>>,
         NEW sent, Handled(sent),
         \/ sent = Buffer
         \/ \E p \in {"systemParam", "driveParam", "jointParam"} : sent = SendOne(Buffer, p)
  PROVE  RoomInv(a)'
<1>1. /\ PacketSize \in [Answer -> Nat] /\ TxBytes \in Nat /\ MaxPending \in Nat
      /\ MaxPending * a \in Nat
  BY FirmwareAssumption
<1>2. /\ \A p \in Answer : PacketSize[p] \in Nat
      /\ {"systemParam", "driveParam", "jointParam", "response"} \subseteq Answer
      /\ {"systemStatus", "jointStatus", "driveStatus", "sonar", "message", "end"}
           \subseteq Answer
  BY <1>1 DEF Answer
<1>3. MaxPending * a <= TxBytes
  <2>1. /\ PacketSize["systemStatus"] \in Nat /\ PacketSize["jointStatus"] \in Nat
        /\ PacketSize["driveStatus"] \in Nat /\ PacketSize["sonar"] \in Nat
        /\ PacketSize["end"] \in Nat
    BY <1>2
  <2>2. PICK m \in Nat, s \in Nat, j \in Nat, d \in Nat, o \in Nat, e \in Nat :
          /\ m = MaxPending * a /\ s = PacketSize["systemStatus"]
          /\ j = PacketSize["jointStatus"] /\ d = PacketSize["driveStatus"]
          /\ o = PacketSize["sonar"] /\ e = PacketSize["end"]
    BY <1>1, <2>1
  <2>3. m + s + j + j + d + o + e <= TxBytes
    BY <2>2 DEF AnswersFit
  <2>4. m <= TxBytes
    BY <2>3, <1>1
  <2> QED BY <2>2, <2>4
<1>4. /\ Len(pending) \in Nat \ {0} /\ Tail(pending) \in Seq(Packets)
      /\ Len(Tail(pending)) = Len(pending) - 1
  BY DEF RoomInv
<1>5. /\ Len(pending) * a \in Nat /\ (Len(pending) - 1) * a \in Nat
      /\ (Len(pending) - 1) * a + a = Len(pending) * a
  BY <1>4
<1>6. tx_used + a + (Len(pending) - 1) * a <= MaxPending * a /\ tx_used \in Nat
      /\ tx_used + a <= TxBytes
  BY <1>1, <1>3, <1>5 DEF RoomInv
<1>7. PacketSize["response"] \in Nat /\ PacketSize["response"] <= a
  <2>1. PacketSize["systemParam"] + PacketSize["response"] <= a
    BY DEF AnswersFit
  <2>2. PacketSize["systemParam"] \in Nat /\ PacketSize["response"] \in Nat
    BY <1>2
  <2> QED BY <2>1, <2>2
<1>8. PICK n \in Nat : n + PacketSize["response"] <= tx_used + a
                       /\ sent = [size |-> n, lost |-> unsent]
  <2>1. CASE sent = Buffer
    BY <2>1, <1>6, <1>7 DEF Buffer
  <2>2. ASSUME NEW p \in {"systemParam", "driveParam", "jointParam"}, sent = SendOne(Buffer, p)
        PROVE  \E n \in Nat : n + PacketSize["response"] <= tx_used + a
                              /\ sent = [size |-> n, lost |-> unsent]
    <3>1. PacketSize[p] \in Nat /\ p \in Answer /\ PacketSize[p] + PacketSize["response"] <= a
      BY <1>2 DEF AnswersFit
    <3>2. tx_used + PacketSize[p] <= TxBytes
      BY <3>1, <1>1, <1>6, <1>7
    <3>3. sent = [size |-> tx_used + PacketSize[p], lost |-> unsent]
          /\ tx_used + PacketSize[p] \in Nat
      BY <2>2, <3>1, <3>2, <1>6, SendFits DEF Buffer
    <3>4. tx_used + PacketSize[p] + PacketSize["response"] <= tx_used + a
      BY <3>1, <1>6, <1>7
    <3> QED BY <3>3, <3>4
  <2> QED BY <2>1, <2>2
<1>9. SendOne(sent, "response") = [size |-> n + PacketSize["response"], lost |-> unsent]
      /\ n + PacketSize["response"] \in Nat
  <2>1. n + PacketSize["response"] <= TxBytes
    BY <1>1, <1>6, <1>7, <1>8
  <2>2. "response" \in Answer
    BY <1>2
  <2> QED BY <1>8, <2>1, <2>2, SendFits
<1>10. tx_used' = n + PacketSize["response"] /\ unsent' = unsent
  BY <1>9 DEF Handled
<1>11. tx_used' + (Len(pending) - 1) * a <= MaxPending * a
  BY <1>1, <1>5, <1>6, <1>7, <1>8, <1>10
<1> QED BY <1>4, <1>9, <1>10, <1>11 DEF RoomInv, Handled, LoopTo, history

LEMMA RoomStep ==
  ASSUME NEW a \in Nat, AnswersFit(a)
  PROVE  RoomInv(a) /\ [FirmwareNext]_firmwareVars => RoomInv(a)'
<1> SUFFICES ASSUME RoomInv(a), [FirmwareNext]_firmwareVars PROVE RoomInv(a)'
  OBVIOUS
<1>1. MaxPending \in Nat /\ MaxPending * a \in Nat /\ 0 * a = 0
  BY FirmwareAssumption
<1>2. CASE Arrive
  <2>1. PICK r \in Packets : rx' = Append(rx, r)
    <3>1. commands + 1 \in Nat /\ left \in Joints /\ CommandKinds \subseteq Kinds
      BY FirmwareAssumption DEF RoomInv, Joints
    <3>2. \A kind \in Kinds, j \in Joints, mode \in Modes : Packet(kind, j, mode) \in Packets
      BY <3>1 DEF Packet, Packets
    <3>3. {"Disabled", "PWM", "PID"} \subseteq Modes
      BY DEF Modes
    <3> HIDE DEF Packets
    <3> QED BY <1>2, <3>1, <3>2, <3>3 DEF Arrive
  <2> QED BY <1>2, <2>1, <1>1 DEF Arrive, RoomInv, timer, driveVars, joints
<1>3. CASE Receive
  <2>1. Len(rx) * a <= MaxPending * a /\ Len(rx) \in Nat
    BY <1>1 DEF RoomInv
  <2> QED BY <1>3, <2>1, <1>1 DEF Receive, RoomInv, At, LoopTo, timer, driveVars, joints, history
<1>4. CASE HandleDrive
  BY <1>4, RoomHandled DEF HandleDrive, Handling, At
<1>5. CASE HandleJoint
  BY <1>5, RoomHandled
  DEF HandleJoint, Handling, At, Stay, RoomInv, timer, comm, history
<1>6. CASE HandleBadIndex
  BY <1>6, RoomHandled DEF HandleBadIndex, Handling, At
<1>7. CASE HandleSystemParam
  BY <1>7, RoomHandled DEF HandleSystemParam, Handling, At
<1>8. CASE HandleDriveParam
  BY <1>8, RoomHandled DEF HandleDriveParam, Handling, At
<1>9. CASE HandleJointParam
  BY <1>9, RoomHandled
  DEF HandleJointParam, Handling, At, Stay, RoomInv, timer, comm, history
<1>10. CASE HandleQuery
  BY <1>10, RoomHandled DEF HandleQuery, Handling, At
<1>11. CASE SendStatus
  BY <1>11, <1>1 DEF SendStatus, EpochEnds, At, LoopTo, RoomInv
<1>12. CASE DriveUpdate \/ DriveControl \/ DriveStore
  BY <1>12, <1>1
  DEF DriveUpdate, DriveControl, DriveStore, At, LoopTo, Stay, RoomInv, comm, timer, history,
      joints, driveVars
<1>13. CASE Watchdog \/ JointsDisable \/ Clear
  BY <1>13, <1>1
  DEF Watchdog, JointsDisable, Clear, At, LoopTo, Stay, RoomInv, comm, timer, history, joints,
      driveVars
<1>14. CASE Tick \/ UNCHANGED firmwareVars
  BY <1>14 DEF Tick, RoomInv, comm, history, firmwareVars
<1> QED
  BY <1>2, <1>3, <1>4, <1>5, <1>6, <1>7, <1>8, <1>9, <1>10, <1>11, <1>12, <1>13, <1>14
  DEF FirmwareNext, LoopStep

\* What every epoch sends fits behind the answers.
LEMMA EpochFits ==
  ASSUME NEW a \in Nat, AnswersFit(a), RoomInv(a), loopAt = "handle", ~message,
         NEW sonarReady \in BOOLEAN
  PROVE  EpochSent(sonarReady).lost = {}
<1>1. TxBytes \in Nat /\ MaxPending * a \in Nat /\ tx_used \in Nat /\ tx_used <= MaxPending * a
  <2>1. TxBytes \in Nat /\ MaxPending * a \in Nat
    BY FirmwareAssumption
  <2>2. Len(pending) * a \in Nat
    BY DEF RoomInv
  <2> QED BY <2>1, <2>2 DEF RoomInv
<1>2. {"systemStatus", "jointStatus", "driveStatus", "sonar", "end"} \subseteq Answer
  BY DEF Answer
<1>3. PICK s \in Nat, j \in Nat, d \in Nat, o \in Nat, e \in Nat :
        /\ PacketSize["systemStatus"] = s /\ PacketSize["jointStatus"] = j
        /\ PacketSize["driveStatus"] = d /\ PacketSize["sonar"] = o /\ PacketSize["end"] = e
  BY <1>2, FirmwareAssumption
<1>4. tx_used + s + j + j + d + o + e <= TxBytes
  BY <1>1, <1>3 DEF AnswersFit
<1>5. SendOne(Buffer, "systemStatus") = [size |-> tx_used + s, lost |-> {}]
  <2>1. tx_used + s <= TxBytes
    BY <1>1, <1>4
  <2>2. unsent = {}
    BY DEF RoomInv
  <2> QED BY <1>1, <1>2, <1>3, <2>1, <2>2, SendFits DEF Buffer
<1>6. SendOne([size |-> tx_used + s, lost |-> {}], "jointStatus")
        = [size |-> tx_used + s + j, lost |-> {}]
  <2>1. tx_used + s \in Nat /\ tx_used + s + j <= TxBytes
    BY <1>1, <1>4
  <2> QED BY <1>2, <1>3, <2>1, SendFits
<1>7. SendOne([size |-> tx_used + s + j, lost |-> {}], "jointStatus")
        = [size |-> tx_used + s + j + j, lost |-> {}]
  <2>1. tx_used + s + j \in Nat /\ tx_used + s + j + j <= TxBytes
    BY <1>1, <1>4
  <2> QED BY <1>2, <1>3, <2>1, SendFits
<1>8. SendOne([size |-> tx_used + s + j + j, lost |-> {}], "driveStatus")
        = [size |-> tx_used + s + j + j + d, lost |-> {}]
  <2>1. /\ tx_used + s + j + j \in Nat
        /\ tx_used + s + j + j + PacketSize["driveStatus"] <= TxBytes
    BY <1>1, <1>3, <1>4
  <2>2. "driveStatus" \in Answer
    BY <1>2
  <2>3. SendOne([size |-> tx_used + s + j + j, lost |-> {}], "driveStatus")
          = [size |-> tx_used + s + j + j + PacketSize["driveStatus"], lost |-> {}]
    BY <2>1, <2>2, SendFits
  <2> QED BY <2>3, <1>3
<1>9. PICK n \in Nat : Periodic(sonarReady) = [size |-> n, lost |-> {}]
                       /\ n <= tx_used + s + j + j + d + o
  <2> DEFINE m == tx_used + s + j + j + d
  <2>1. m \in Nat /\ m + o <= TxBytes /\ m <= m + o /\ m + o \in Nat
    BY <1>1, <1>4
  <2>2. SendOne([size |-> m, lost |-> {}], "sonar") = [size |-> m + o, lost |-> {}]
    BY <1>2, <1>3, <2>1, SendFits
  <2>3. CASE sonarReady
    <3>1. Periodic(sonarReady) = [size |-> m + o, lost |-> {}]
      BY <1>5, <1>6, <1>7, <1>8, <2>2, <2>3 DEF Periodic
    <3>2. m + o \in Nat /\ m + o <= tx_used + s + j + j + d + o
      BY <2>1
    <3> HIDE DEF m
    <3> QED BY <3>1, <3>2
  <2>4. CASE ~sonarReady
    <3>1. Periodic(sonarReady) = [size |-> m, lost |-> {}]
      BY <1>5, <1>6, <1>7, <1>8, <2>4 DEF Periodic
    <3>2. m \in Nat /\ m <= tx_used + s + j + j + d + o
      BY <2>1
    <3> HIDE DEF m
    <3> QED BY <3>1, <3>2
  <2> QED BY <2>3, <2>4
<1>10. SendOne([size |-> n, lost |-> {}], "end") = [size |-> n + e, lost |-> {}]
  <2>1. n + e <= TxBytes
    BY <1>1, <1>4, <1>9
  <2> QED BY <1>2, <1>3, <1>9, <2>1, SendFits
<1> QED BY <1>9, <1>10 DEF EpochSent

\* No answer is lost, if the buffer is as large as AnswersFit says; with the packets'
\* sizes and two packets an epoch it is: 2 * 52 + 142 of 254 (orazio_comm.c:302-328).
THEOREM AnswersSent ==
  (\E a \in Nat : AnswersFit(a)) => (FirmwareSpec => NothingUnsent)
<1> SUFFICES ASSUME NEW a \in Nat, AnswersFit(a) PROVE FirmwareSpec => NothingUnsent
  OBVIOUS
<1> DEFINE Sends == loopAt = "handle" /\ loopAt' = "watchdog" /\ ~message => unsent' = {}
<1>1. RoomInv(a) /\ [FirmwareNext]_firmwareVars => Sends
  <2> SUFFICES ASSUME RoomInv(a), [FirmwareNext]_firmwareVars, loopAt = "handle",
                      loopAt' = "watchdog", ~message
               PROVE  unsent' = {}
    OBVIOUS
  <2>1. SendStatus
    BY DEF FirmwareNext, LoopStep, Tick, Arrive, DriveUpdate, DriveControl, DriveStore, Receive,
           HandleDrive, HandleJoint, HandleBadIndex, HandleSystemParam, HandleDriveParam,
           HandleJointParam, HandleQuery, Handled, Watchdog, JointsDisable, Clear, Handling, At,
           LoopTo, Stay, firmwareVars
  <2>2. PICK sonarReady \in BOOLEAN : unsent' = EpochSent(sonarReady).lost
    BY <2>1 DEF SendStatus
  <2> QED BY <2>2, EpochFits
<1> QED BY <1>1, RoomStarts, RoomStep, PTL DEF FirmwareSpec, NothingUnsent

-----------------------------------------------------------------------------
(* FirmwareTypeOK *)

\* Every number kept is one of a packet that has been sent.
NumbersSent ==
  /\ drive_control <= commands /\ last_seq <= commands /\ adjusted <= commands
  /\ commands <= MaxCommands
  /\ \A i \in 1 .. Len(pending) : pending[i].number <= commands
  /\ \A j \in Joints, b \in 1 .. 2 : control[j].speed[b] <= commands /\ pwm[j][b] <= commands

\* Counters, and the stores of each place
Limits ==
  /\ tick_counter \in 1 .. CommCycles /\ watchdog_count <= WatchdogCycles /\ step <= 5
  /\ (loopAt = "handle" => step <= 3) /\ (loopAt = "disable" => step <= 1)
  /\ Len(rx) <= MaxPending /\ Len(pending) <= MaxPending

\* What is sent stays in the buffer.
InBuffer(sent) ==
  sent \in [size : Nat, lost : SUBSET Answer] /\ sent.size <= TxBytes

\* What the main loop waits for and which controllers are set up
Flags == comm_handle \in BOOLEAN /\ ready \in [Joints -> BOOLEAN]

\* An answer, sent or lost, leaves what is sent within the buffer.
LEMMA SendStays ==
  ASSUME NEW sent, InBuffer(sent), NEW p \in Answer
  PROVE  InBuffer(SendOne(sent, p))
<1>1. PICK n \in Nat, m \in Nat, lost \in SUBSET Answer :
        n = sent.size /\ m = PacketSize[p] /\ lost = sent.lost
        /\ sent = [size |-> n, lost |-> lost] /\ n <= TxBytes
  BY FirmwareAssumption DEF InBuffer
<1>2. CASE n + m <= TxBytes
  <2>1. SendOne(sent, p) = [size |-> n + m, lost |-> lost]
    BY <1>1, <1>2 DEF SendOne
  <2> QED BY <1>1, <1>2, <2>1 DEF InBuffer
<1>3. CASE ~(n + m <= TxBytes)
  <2>1. SendOne(sent, p) = [size |-> n, lost |-> lost \cup {p}]
    BY <1>1, <1>3 DEF SendOne
  <2>2. lost \cup {p} \in SUBSET Answer
    OBVIOUS
  <2> QED BY <1>1, <2>1, <2>2 DEF InBuffer
<1> QED BY <1>2, <1>3

\* So does what an epoch sends.
LEMMA EpochStays ==
  ASSUME InBuffer(Buffer), NEW sonarReady \in BOOLEAN
  PROVE  InBuffer(EpochSent(sonarReady))
<1>0. {"systemStatus", "jointStatus", "driveStatus", "sonar", "message", "end"} \subseteq Answer
  BY DEF Answer
<1> HIDE DEF InBuffer, Answer
<1>1. InBuffer(SendOne(SendOne(SendOne(Buffer, "systemStatus"), "jointStatus"), "jointStatus"))
  BY <1>0, SendStays
<1>2. InBuffer(Periodic(sonarReady))
  BY <1>0, <1>1, SendStays DEF Periodic
<1> QED BY <1>0, <1>2, SendStays DEF EpochSent

\* The transmit buffer in each step
LEMMA BufferStep ==
  ASSUME InBuffer(Buffer), [FirmwareNext]_firmwareVars
  PROVE  InBuffer(Buffer)'
<1>0. tx_used \in Nat /\ tx_used <= TxBytes /\ unsent \subseteq Answer /\ TxBytes \in Nat
  BY FirmwareAssumption DEF InBuffer, Buffer
<1>a. {"response", "systemParam", "driveParam", "jointParam"} \subseteq Answer
  BY DEF Answer
<1>1. ASSUME NEW sent, InBuffer(sent), Handled(sent) PROVE InBuffer(Buffer)'
  <2>1. InBuffer(SendOne(sent, "response"))
    BY <1>a, <1>1, SendStays
  <2> QED BY <1>1, <2>1 DEF Handled, Buffer, InBuffer
<1>2. CASE SendStatus
  <2>1. PICK sonarReady \in BOOLEAN : unsent' = EpochSent(sonarReady).lost
    BY <1>2 DEF SendStatus
  <2>2. tx_used' = 0 /\ unsent' \subseteq Answer
    BY <1>2, <2>1, EpochStays DEF SendStatus, InBuffer
  <2> QED BY <1>0, <2>2 DEF Buffer, InBuffer
<1>3. CASE tx_used' = tx_used /\ unsent' \in {unsent, {}}
  BY <1>0, <1>3 DEF Buffer, InBuffer
<1>4. CASE \/ HandleDrive \/ HandleBadIndex \/ (HandleJoint /\ step = 3)
           \/ HandleSystemParam \/ HandleDriveParam \/ (HandleJointParam /\ step = 3) \/ HandleQuery
  <2>1. \E sent : InBuffer(sent) /\ Handled(sent)
    <3>1. \A p \in {"systemParam", "driveParam", "jointParam"} : InBuffer(SendOne(Buffer, p))
      BY <1>a, SendStays
    <3> HIDE DEF InBuffer
    <3> QED BY <1>4, <3>1
        DEF HandleDrive, HandleBadIndex, HandleJoint, HandleSystemParam, HandleDriveParam,
            HandleJointParam, HandleQuery
  <2> QED BY <1>1, <2>1
<1> QED
  BY <1>2, <1>3, <1>4
  DEF FirmwareNext, LoopStep, Tick, Arrive, DriveUpdate, DriveControl, DriveStore, Receive,
      HandleJoint, HandleJointParam, Watchdog, JointsDisable, Clear, comm, firmwareVars

\* Counters and queues in each step
LEMMA LimitsStep ==
  ASSUME FirmwareTyped, Limits, [FirmwareNext]_firmwareVars
  PROVE  Limits'
<1>0. /\ CommCycles \in Nat \ {0} /\ WatchdogCycles \in Nat /\ MaxPending \in Nat
      /\ step \in Nat /\ watchdog_count \in Nat /\ Len(rx) \in Nat /\ Len(pending) \in Nat
  BY FirmwareAssumption DEF FirmwareTyped
<1>h. pending # <<>> => Len(Tail(pending)) = Len(pending) - 1
  BY DEF FirmwareTyped
<1>1. CASE Tick
  <2>1. tick_counter' \in 1 .. CommCycles
    BY <1>0, <1>1 DEF Tick, Limits
  <2> QED BY <1>1, <2>1 DEF Tick, Limits, comm, history
<1>2. CASE Arrive
  <2>1. \E p : rx' = Append(rx, p)
    BY <1>2 DEF Arrive
  <2>2. Len(rx') = Len(rx) + 1
    BY <2>1 DEF FirmwareTyped
  <2> QED BY <1>0, <1>2, <2>2 DEF Arrive, Limits, timer
<1>3. CASE Receive
  <2>1. Len(rx') = 0 /\ pending' = rx
    BY <1>3 DEF Receive
  <2> QED BY <1>0, <1>3, <2>1 DEF Receive, Limits, LoopTo, timer
<1>4. CASE DriveUpdate \/ DriveControl \/ SendStatus \/ Clear
  BY <1>0, <1>4
  DEF DriveUpdate, DriveControl, SendStatus, EpochEnds, Clear, Limits, LoopTo, timer, comm, history
<1>5. CASE DriveStore
  BY <1>0, <1>5 DEF DriveStore, At, Limits, LoopTo, Stay, timer, comm
<1>6. CASE Watchdog
  <2>1. watchdog_count' <= WatchdogCycles
    BY <1>0, <1>6 DEF Watchdog, WatchdogReset, Limits
  <2>2. loopAt' \in {"disable", "clear"} /\ step' = 0
    BY <1>6 DEF Watchdog, LoopTo
  <2> QED BY <1>0, <1>6, <2>1, <2>2 DEF Watchdog, Limits, timer, comm
<1>7. CASE JointsDisable
  BY <1>0, <1>7 DEF JointsDisable, At, Limits, LoopTo, Stay, timer, comm
<1>8. ASSUME NEW sent, Handled(sent), pending # <<>> PROVE Limits'
  BY <1>0, <1>h, <1>8 DEF Handled, Limits, LoopTo, timer
<1>9. CASE (HandleJoint \/ HandleJointParam) /\ step # 3
  <2>1. Stay /\ loopAt = "handle" /\ UNCHANGED <<timer, comm, watchdog_count>>
    BY <1>9 DEF HandleJoint, HandleJointParam, Handling, At
  <2> QED BY <1>0, <1>9, <2>1 DEF Limits, Stay, timer, comm
<1>10. CASE \/ HandleDrive \/ HandleBadIndex \/ (HandleJoint /\ step = 3)
            \/ HandleSystemParam \/ HandleDriveParam \/ (HandleJointParam /\ step = 3)
            \/ HandleQuery
  BY <1>8, <1>10
  DEF HandleDrive, HandleBadIndex, HandleJoint, HandleSystemParam, HandleDriveParam,
      HandleJointParam, HandleQuery, Handling
<1>11. CASE UNCHANGED firmwareVars
  BY <1>11 DEF firmwareVars, Limits, timer, comm
<1> QED
  BY <1>1, <1>2, <1>3, <1>4, <1>5, <1>6, <1>7, <1>9, <1>10, <1>11 DEF FirmwareNext, LoopStep

\* The numbers in each step
LEMMA NumbersStep ==
  ASSUME FirmwareInv, NumbersSent, [FirmwareNext]_firmwareVars
  PROVE  NumbersSent'
<1> DEFINE
  Drives == drive_control <= commands /\ last_seq <= commands /\ adjusted <= commands
  Pendings == \A i \in 1 .. Len(pending) : pending[i].number <= commands
  SpeedsSent == \A j \in Joints, b \in 1 .. 2 : control[j].speed[b] <= commands
  MotorsSent == \A j \in Joints, b \in 1 .. 2 : pwm[j][b] <= commands
<1>0. /\ FirmwareTyped /\ commands \in Nat /\ MaxCommands \in Nat
      /\ Drives /\ Pendings /\ SpeedsSent /\ MotorsSent /\ commands <= MaxCommands
  BY FirmwareAssumption DEF FirmwareInv, FirmwareTyped, NumbersSent
<1>1. commands' <= MaxCommands /\ commands' \in Nat /\ commands <= commands'
  <2>1. commands' = commands \/ (commands < MaxCommands /\ commands' = commands + 1)
    BY DEF FirmwareNext, LoopStep, Tick, Arrive, DriveUpdate, DriveControl, DriveStore, Receive,
           HandleDrive, HandleJoint, HandleBadIndex, HandleSystemParam, HandleDriveParam,
           HandleJointParam, HandleQuery, SendStatus, EpochEnds, Handled, Watchdog, JointsDisable,
           Clear, history, firmwareVars
  <2> QED BY <1>0, <2>1
<1>2. pending # <<>> => /\ Head(pending).number \in Nat /\ Head(pending).number <= commands
                        /\ Head(pending) \in Packets
  <2> SUFFICES ASSUME pending # <<>>
               PROVE  /\ Head(pending).number \in Nat /\ Head(pending).number <= commands
                      /\ Head(pending) \in Packets
    OBVIOUS
  <2>1. Head(pending) = pending[1] /\ 1 \in 1 .. Len(pending) /\ Head(pending) \in Packets
    BY <1>0 DEF FirmwareTyped
  <2> QED BY <1>0, <2>1 DEF Packets
<1>3. Drives'
  <2>1. /\ drive_control' \in {drive_control} \cup
              (IF pending # <<>> THEN {Head(pending).number} ELSE {})
        /\ last_seq' \in {last_seq, drive_control}
        /\ adjusted' \in {adjusted, drive_control, 0}
    BY DEF FirmwareNext, LoopStep, Tick, Arrive, DriveUpdate, DriveControl, DriveStore, Receive,
           HandleDrive, HandleJoint, HandleBadIndex, HandleSystemParam, HandleDriveParam,
           HandleJointParam, HandleQuery, SendStatus, EpochEnds, Watchdog, JointsDisable,
           Clear, Handling, DriveInit, driveVars, firmwareVars
  <2>2. drive_control \in Nat /\ last_seq \in Nat /\ adjusted \in Nat
    BY <1>0 DEF FirmwareTyped
  <2> QED BY <1>0, <1>1, <1>2, <2>1, <2>2
<1>4. Pendings'
  <2>1. CASE Receive
    <3>1. pending' = rx /\ commands' = commands
      BY <2>1 DEF Receive, history
    <3>2. \A i \in 1 .. Len(rx) : rx[i].number \in Nat /\ rx[i].number + Len(rx) = commands + i
      <4>1. \A i \in 1 .. Len(rx) : rx[i] \in Packets
        BY <1>0 DEF FirmwareTyped
      <4> QED BY <4>1 DEF FirmwareInv, NumberInv, Packets
    <3>3. Len(rx) \in Nat
      BY <1>0 DEF FirmwareTyped
    <3> QED BY <1>0, <3>1, <3>2, <3>3
  <2>2. CASE pending' = pending
    <3>1. \A i \in 1 .. Len(pending) : pending[i].number \in Nat
      <4>1. \A i \in 1 .. Len(pending) : pending[i] \in Packets
        BY <1>0 DEF FirmwareTyped
      <4> QED BY <4>1 DEF Packets
    <3> QED BY <1>0, <1>1, <2>2, <3>1
  <2>3. CASE pending # <<>> /\ pending' = Tail(pending) /\ commands' = commands
    <3>1. \A i \in 1 .. Len(pending') : i + 1 \in 1 .. Len(pending) /\ pending'[i] = pending[i + 1]
      BY <1>0, <2>3 DEF FirmwareTyped
    <3> QED BY <1>0, <2>3, <3>1
  <2> QED
    BY <2>1, <2>2, <2>3
    DEF FirmwareNext, LoopStep, Tick, Arrive, DriveUpdate, DriveControl, DriveStore, HandleDrive,
        HandleJoint, HandleBadIndex, HandleSystemParam, HandleDriveParam, HandleJointParam,
        HandleQuery, SendStatus, EpochEnds, Watchdog, JointsDisable, Clear, Handled, Handling,
        comm, history, firmwareVars
<1>5. SpeedsSent'
  <2>1. \A j \in Joints, b \in 1 .. 2 :
          control[j].speed[b] \in Nat /\ control[j].speed[b] <= commands'
    <3>1. \A j \in Joints, b \in 1 .. 2 : control[j].speed[b] \in Nat
      BY <1>0 DEF FirmwareTyped, Bytes
    <3> QED BY <1>0, <1>1, <3>1
  <2>2. CASE DriveStore
    <3>1. adjusted <= commands' /\ adjusted \in Nat
      BY <1>0, <1>1 DEF FirmwareTyped
    <3> QED BY <1>0, <2>1, <2>2, <3>1, DriveStoreDoes
  <2>3. CASE HandleJoint
    <3>1. Head(pending).number <= commands'
      BY <1>0, <1>1, <1>2, <2>3 DEF HandleJoint, Handling
    <3> QED BY <1>0, <2>1, <2>3, <3>1, HandleJointDoes
  <2>4. CASE JointsDisable
    BY <1>0, <2>1, <2>4, JointsDisableDoes
  <2>5. CASE control' = control
    BY <2>1, <2>5
  <2> QED
    BY <2>2, <2>3, <2>4, <2>5
    DEF FirmwareNext, LoopStep, Tick, Arrive, DriveUpdate, DriveControl, Receive, HandleDrive,
        HandleBadIndex, HandleSystemParam, HandleDriveParam, HandleJointParam, HandleQuery,
        SendStatus, EpochEnds, Watchdog, Clear, Handled, joints, firmwareVars
<1>6. MotorsSent'
  <2>1. \A j \in Joints, b \in 1 .. 2 : pwm[j][b] \in Nat /\ pwm[j][b] <= commands'
    <3>1. \A j \in Joints, b \in 1 .. 2 : pwm[j][b] \in Nat
      BY <1>0 DEF FirmwareTyped, Bytes
    <3> QED BY <1>0, <1>1, <3>1
  <2>2. CASE Tick
    <3>1. \A j \in Joints : pwm'[j] = Still \/ pwm'[j] = control[j].speed
      BY <2>2 DEF Tick
    <3>2. \A b \in 1 .. 2 : Still[b] = 0
      BY DEF Still
    <3>3. commands' = commands
      BY <2>2 DEF Tick, history
    <3> QED BY <1>0, <3>1, <3>2, <3>3
  <2>3. CASE pwm' = pwm
    BY <2>1, <2>3
  <2> QED
    BY <2>2, <2>3
    DEF FirmwareNext, LoopStep, Arrive, DriveUpdate, DriveControl, DriveStore, Receive,
        HandleDrive, HandleJoint, HandleBadIndex, HandleSystemParam, HandleDriveParam,
        HandleJointParam, HandleQuery, SendStatus, EpochEnds, Watchdog, JointsDisable, Clear,
        Handled, timer, firmwareVars
<1> QED BY <1>1, <1>3, <1>4, <1>5, <1>6 DEF NumbersSent

\* The signal to the main loop and the controllers' pointers
LEMMA FlagsStep ==
  ASSUME Flags, [FirmwareNext]_firmwareVars
  PROVE  Flags'
<1>1. comm_handle' \in BOOLEAN
  BY DEF FirmwareNext, LoopStep, Tick, Arrive, DriveUpdate, DriveControl, DriveStore, Receive,
         HandleDrive, HandleJoint, HandleBadIndex, HandleSystemParam, HandleDriveParam,
         HandleJointParam, HandleQuery, SendStatus, EpochEnds, Watchdog, JointsDisable, Clear,
         Handled, Flags, timer, firmwareVars
<1>2. ready' \in [Joints -> BOOLEAN]
  <2>1. CASE HandleJointParam
    <3>1. PICK j \in Joints, r \in BOOLEAN : ready' = [ready EXCEPT ![j] = r]
      BY <2>1 DEF HandleJointParam, Joints
    <3> QED BY <3>1 DEF Flags
  <2>2. CASE ready' = ready
    BY <2>2 DEF Flags
  <2> QED
    BY <2>1, <2>2
    DEF FirmwareNext, LoopStep, Tick, Arrive, DriveUpdate, DriveControl, DriveStore, Receive,
        HandleDrive, HandleJoint, HandleBadIndex, HandleSystemParam, HandleDriveParam,
        HandleQuery, SendStatus, EpochEnds, Watchdog, JointsDisable, Clear, Handled, joints,
        firmwareVars
<1> QED BY <1>1, <1>2 DEF Flags

\* Places, counters, queues and numbers are of their types: speeds are numbers of
\* commands that were sent, the store counter stays in each place, and what is sent
\* never exceeds the buffer (orazio.c:46-80, orazio_comm.c, packet_operations.h).
THEOREM FirmwareTypes == FirmwareSpec => []FirmwareTypeOK
<1> DEFINE Inv == FirmwareInv /\ NumbersSent /\ Limits /\ InBuffer(Buffer) /\ Flags
<1>1. FirmwareInit => Inv
  <2> SUFFICES ASSUME FirmwareInit PROVE NumbersSent /\ Limits /\ InBuffer(Buffer) /\ Flags
    BY InitFirmware DEF FirmwareInv
  <2>1. NumbersSent
    <3>1. \A b \in 1 .. 2 : Still[b] = 0
      BY DEF Still
    <3> QED BY <3>1, FirmwareAssumption DEF FirmwareInit, NumbersSent
  <2>2. Limits
    BY FirmwareAssumption DEF FirmwareInit, Limits
  <2>3. InBuffer(Buffer)
    BY FirmwareAssumption DEF FirmwareInit, InBuffer, Buffer
  <2>4. comm_handle = FALSE /\ ready = [j \in Joints |-> TRUE]
    BY DEF FirmwareInit
  <2>5. Flags
    BY <2>4 DEF Flags
  <2> QED BY <2>1, <2>2, <2>3, <2>5
<1>2. Inv /\ [FirmwareNext]_firmwareVars => Inv'
  <2>1. FirmwareInv /\ [FirmwareNext]_firmwareVars => FirmwareInv'
    BY NextTyped, NextLoop, NextStore, NextWatchdog, NextNumber, NextObey DEF FirmwareInv, NumberInv
  <2> QED BY <2>1, NumbersStep, LimitsStep, BufferStep, FlagsStep DEF FirmwareInv
<1>3. Inv => FirmwareTypeOK
  <2> SUFFICES ASSUME Inv PROVE FirmwareTypeOK
    OBVIOUS
  <2>0. commands \in Nat /\ MaxCommands \in Nat /\ commands <= MaxCommands
    BY FirmwareAssumption DEF FirmwareInv, FirmwareTyped, NumbersSent
  <2>1. {drive_control, last_seq, adjusted} \subseteq CommandNumbers
    BY <2>0 DEF FirmwareInv, FirmwareTyped, NumbersSent, CommandNumbers
  <2>2. ASSUME NEW s \in Bytes, \A b \in 1 .. 2 : s[b] <= commands
        PROVE  s \in Speeds
    <3>1. PICK m \in CommandNumbers, n \in CommandNumbers : m = s[1] /\ n = s[2]
      BY <2>0, <2>2 DEF Bytes, CommandNumbers
    <3>2. s = <<m, n>>
      BY <3>1 DEF Bytes
    <3> QED BY <3>2 DEF Speeds
  <2>3. control \in [Joints -> [speed : Speeds, mode : Modes]]
    <3>1. ASSUME NEW j \in Joints PROVE control[j] \in [speed : Speeds, mode : Modes]
      <4>1. control[j] \in [speed : Bytes, mode : Modes]
        BY DEF FirmwareInv, FirmwareTyped
      <4>2. control[j].speed \in Speeds
        BY <2>2, <4>1 DEF NumbersSent
      <4> QED BY <4>1, <4>2
    <3> QED BY <3>1 DEF FirmwareInv, FirmwareTyped
  <2>4. pwm \in [Joints -> Speeds]
    BY <2>2 DEF FirmwareInv, FirmwareTyped, NumbersSent
  <2>5. tx_used \in 0 .. TxBytes /\ unsent \subseteq Answer
    BY FirmwareAssumption DEF InBuffer, Buffer
  <2>6. step \in 0 .. 5 /\ watchdog_count \in 0 .. WatchdogCycles
    BY FirmwareAssumption DEF FirmwareInv, FirmwareTyped, Limits
  <2>7. comm_handle \in BOOLEAN /\ ready \in [Joints -> BOOLEAN]
    BY DEF Flags
  <2> QED
    BY <2>1, <2>3, <2>4, <2>5, <2>6, <2>7 DEF FirmwareTypeOK, FirmwareInv, LoopInv, Limits
<1> QED BY <1>1, <1>2, <1>3, PTL DEF FirmwareSpec
=============================================================================
