# Verification of orazio_logger

`orazio_logger` is a Linux program that drives a small robot, Orazio, and
writes what the robot reports, with camera frames, to a file. The robot's
firmware, the host library it talks to and the packet protocol between them
are part of the same repository (`orazio_lib`). This directory holds TLA+
models of these parts, the configurations that check them with TLC, and proofs
checked by TLAPS. Source positions are relative to the repository; `lib/`
stands for `orazio_lib/src/`.

## 1. The system

    key, joystick, camera threads           robot: timer interrupt
            |  drive_control, queue                  | joints, encoders, PWM
            v                                        v
    main --> OrazioClient --> packet handler ==line== UART --> deferred packets
     |       two mutexes      tx ring, rx states      rings     --> main loop
     v                                                              (epochs)
    queue --> writer --> file                        EEPROM, sonars, watchdog

### Components, their state, what can go wrong in them

| Component | State | Operations | What makes it correct |
|---|---|---|---|
| Logger threads (`orazio_logger.c`) | `mode`, the queue, semaphores `critical` and `empty`, one buffer per packet type | main: sync, get, print, add packets; camera: add frames; writer: take and print; key: Esc; joystick; shutdown with joins | every packet reaches the file once and in order; the writer never gets NULL; a line shows a whole text, not older than its timestamp, while its producer goes no further; Esc ends the threads |
| Drive mailbox (`orazio_logger.c`) | `drive_control`, written by three threads without a lock | key and joystick store, main sends and clears, `stopRobot` stores and sends | the robot's last command is the stop; what a user asks for is sent |
| Packet queue (`queue.h`) | `head`, `tail`, nodes | `enqueue` and `dequeue` under a semaphore, `isempty` without it | FIFO; the unlocked answer is true |
| Packet handler (`lib/common/packet_handler.c`) | transmit ring; the receive state machine | `sendPacket`, `txByte`; `rxByte` | frames go whole or not at all; the receiver finds the next packet again |
| Deferred packets (`lib/common/deferred_packet_handler.c`) | a ring of buffers per type, the array of pending packets | a buffer at the size byte, a pending packet at the checksum, processing in the main loop | packets are executed once, in order, unaltered; both `assert`s hold |
| Orazio client (`lib/orazio_host/orazio_client.c`) | sequence number, both packet handlers, `write_mutex`, `read_mutex`, the last packet of each type | `sendPacket` deferred or blocking, `readConfiguration`, `sync`, `get`, `setBaseVelocity` | Success means executed; calls return; packets leave in sequence |
| Firmware main loop (`lib/orazio_firmware/orazio.c`, `_comm`, `_drive`, `_watchdog`, `_joints`) | epoch and tick counters, command and status packets, joint modes and speeds | one epoch: drive, receive, answer, status, watchdog; the tick at any moment | the watchdog stops everything; no motor runs on an old or half-stored speed; answers fit |
| UART (`lib/arch/atmega2560/uart.c`) | two rings of 256 bytes with `uint8_t` sizes, the transmit interrupt's enable bit | `putChar`, `getChar`, two interrupt handlers | no byte is lost, overwritten or stranded |
| Parameters (`lib/orazio_firmware/orazio_param.c`, `eeprom.c`) | EEPROM blocks, their copies in RAM | init, load, save; byte by byte | interrupted writing and new firmwares do not mix parameters |
| Sonars (`lib/orazio_firmware/orazio_sonar.c`, `lib/arch/atmega2560/sonar.c`) | the poll cycle; counters, echo pins seen last | poll by pattern, pin-change interrupt | ranges are times of whole echoes; every sonar gets its turn |
| Encoders, odometry (`encoder.c`, `orazio_drive_internal.c`) | 16-bit counters, the pins seen last, sampled and read positions | pin-change interrupt, sample at the tick, difference in the main loop; the drive's reset, which starts from the present positions | counts follow the wheel through the wrap, from whatever phase it stands on; torn reads do not accumulate |
| Joint controller (`orazio_joints_internal.c`) | output, integral, errors, 16 bits each | one step per tick, by mode | limits; no wrap |
| H bridges (`orazio_hbridge_internal.c`, `pwm.c`, `digio.c`, `pins.c`) | type and pins of each bridge, the pins' registers | init with other types and pins when joint parameters are set, loaded or read at the start; the tick sets the speed | no pin stays driven that no bridge knows; the motors obey after Success |
| Camera (`webcam_manager.h`, `orazio_logger.c`) | one buffer that driver and thread hand to each other, the copy of the last frame | `camera_frame` without waiting, the first calls, the loop that saves | an image is one whole frame, and a frame at all |
| UART of the dspic (`lib/arch/dspic/uart.c`) | two rings of 256 cells with `uint8_t` sizes, the interrupts' flags, the hardware's buffers of four bytes | `putChar` with its delay, `getChar`, two interrupt handlers | no byte is lost or overtaken between ring and hardware |
| EEPROM of the dspic (`lib/arch/dspic/DEE_Emulation_16-bit.c`, `eeprom.c`) | flash pages of addressed bytes, each with a status | start, read, write; packing of a full page into the next | a byte keeps its last value, whenever power fails |
| Host shell and web server (`lib/orazio_host/orazio.c`, `orazio_shell_*.c`, `orazio_ws_server.c`) | the host's copies of the packets, `run`, `param_control`, `op_result`, two semaphores with a flag each | commands of the shell and of web pages; the runner polls and serves them; quit | a command gets its own answer and returns; edits are not overwritten; quit ends the program |

Interactions: main, camera and writer share the queue; key, joystick and main
share the mailbox; main calls the client (so do the shell's runner and its
commands, in the other host program), whose packets go through the transmit
ring and the receiver of the other side; the firmware's UART feeds
its packet handler, the deferred packets feed the main loop; main loop and
tick share the joints and their H bridges; parameters re-initialize drive,
joints and sonars.

Hard behaviours: unlocked sharing between threads and between main loop and
interrupt; shutdown while threads still produce; losses on the line and the
bounded waiting for answers; rings at their limit; being switched off between
two bytes; 8- and 16-bit wraps. `PROJECT.json` lists them as hazards, each at
its line.

Section 7 says what is not modelled and why.

## 2. The modules

| Module | Models | Abstract specification | Proofs |
|---|---|---|---|
| `LinkedQueue` | `queue.h`, single stores | `QueueSpec` | `BufferProofs` |
| `Logger` | the five threads around the queue | | `LoggerProofs` |
| `DriveMailbox` | `drive_control` and its three writers | | `ThreadProofs` |
| `TxRing` | the transmit ring | `FramePipe` | `BufferProofs` |
| `PacketReceiver` | `PacketHandler_rxByte`, sender and line | | `BufferProofs` |
| `DeferredPackets` | `deferred_packet_handler.c` | `CommandQueue` | `BufferProofs` |
| `HostClient` | `orazio_client.c`, robot and line | | `ClientProofs` |
| `Firmware` | main loop and tick | | `FirmwareProofs` |
| `Uart` | `uart.c` | | `BoardProofs` |
| `EepromParams` | `orazio_param.c`, `eeprom.c` | | `BoardProofs` |
| `SonarCycle` | `orazio_sonar.c`, `sonar.c` | | `BoardProofs` |
| `Encoder` | `encoder.c`, sample, ticks of the odometry | | `WheelProofs` |
| `JointController` | `orazio_joints_internal.c` | | `WheelProofs` |
| `HBridge` | `orazio_hbridge_internal.c`, `orazio_joints.c`, the pins | | `WheelProofs` |
| `Camera` | `camera_open`, `camera_init`, `camera_frame`, the camera's thread | | `ThreadProofs` |
| `DspicUart` | `arch/dspic/uart.c` | | `BoardProofs` |
| `DataEE` | `DEE_Emulation_16-bit.c` and the dspic's `eeprom.c` | `ByteStore` | `DataEEProofs` |
| `HostShell` | the threads of `orazio`: shell, runner, web server | | `ThreadProofs` |

A module has the component's variables with the names of the code, one action
per operation or, where others may come in between, per step of it, and its
properties at the end. Definitions named "Mutant of X" directly before X are
plausible bugs of X; each property is violated when one of them takes X's
place (`mutants` in `PROJECT.json`). They are in no next-state relation.
A proof module takes together components that do not interact but have the
same kind of argument: what keeps packets, threads that share
fields without a lock, what passes bytes or
times between interrupts and main, what belongs to a wheel.

How the modules divide the work:

- `Logger` has the queue as a sequence, `LinkedQueue` shows that `queue.h` is
  one. `Logger` splits `addPacket` and the writer's loop at each semaphore
  operation; `KeyEsc`, `JoyOpen` and `JoyExit` are all it has of the key and
  joystick threads, `DriveMailbox` has the rest. A text in a buffer is the cycle
  it comes from and whether it is there whole: it is not while its producer
  writes it (`BeginText` to `EndText`), nor once the producer has left the loop
  that declares the buffer (`Abandon`). The writer reads it in two steps, and
  what it shows is a text only if nothing changed between them (`Shown`).
- `DriveMailbox` lets each thread's unordered stores to the packet's fields
  happen one by one (the compiler may order them, `todo`), and copies a packet
  field by field under `write_mutex`. `missed` remembers that main's clear met a
  store that its send did not take, or that a send was refused.
- `TxRing` and `DeferredPackets` keep indices and sizes apart as
  `buffer_utils.h` does. `TxRing` takes no byte while a frame is put: on both
  sides one thread does both, or holds the mutex. `DeferredPackets` runs in
  the firmware's main loop; its receive steps and its processing steps
  alternate as there.
- `PacketReceiver` takes packets as their bytes, of any number of bits; a fault
  is a corrupted or lost byte, or a refused buffer. `Plain` traffic has nothing
  in it that a receiver out of step could take for the beginning of a frame.
- `HostClient` splits each call at its mutex operations and unlocked accesses.
  `RobotEpoch` is what `Orazio_commHandle` answers; `Lose` takes a packet off
  either line. `taken` counts the numbers that were taken, which `global_seq`
  forgets when it wraps. `readConfiguration` may use memory that was never written
  (`Configure`): any number of joints, or the exit on a version mismatch.
- `Firmware` interrupts the main loop between any two stores that the tick
  reads. A speed is the number of the command it comes from, once for each of
  its two bytes. The packets' sizes are those of `orazio_packets.h`. The model
  stops (`wild`) when the tick uses a controller whose pointers are null: what
  the processor then does is undefined.
- `Uart` has sizes modulo `Width`, 256 in the code, and numbers its bytes.
- `DspicUart` has the flags of the interrupts apart from what raised them: the
  receive handler clears its flag last, also for a byte that has just come, and
  the transmit handler writes to the hardware's buffer, full or not. That a
  delay of `putChar` is longer than a byte takes on the line is the guard of
  `DelayEnds`. A ring is the sequence of its bytes; one that is filled becomes
  empty, its size wrapping to 0 (`PutIn`). A byte may arrive at any moment, so
  the processor may be stalled by its flash meanwhile.
- `DataEE` takes one step per operation of the flash (program a word or a row,
  erase a page); power fails between any two. The flash is external: a word
  programmed on top of another is garbage. `ByteStore` is what the caller sees;
  its `writable` is there because the code may end up with a full page that
  nothing packs.
- `Camera` numbers the sensor's frames and has an image as two halves, so that
  a mixed one can be told. How its thread queues an image is in `Logger`.
- `EepromParams` writes a block in two steps; a byte is the firmware and the
  setting it belongs to. The robot may be switched off anywhere. The version
  reported to the host is left out.
- `SonarCycle` has for a counter what it means ("start", "span", "junk").
  Echoes last as long as they like; `overlap` remembers that one outlasted the
  time to the next poll.
- `Encoder` compares the counters with the wheel's true position. `phase` is
  where each wheel stands when `Encoder_init` sets the stored pins to 00 without
  reading them; `slip` what the first interrupt counts wrongly for it. `late`
  counts how often the interrupt came after a second quarter turn. `atTick` and
  `origin` are the positions that the tick last sampled and main last read: a
  wheel turns at most `Span` between a sample or reading and the next. Main
  updates or resets the odometry (`call`), the left wheel first in the reset;
  `spoilt` are the wheels whose position the reset read torn.
- `JointController` is the arithmetic of `JointController_handle` in 16 bits,
  with the real parameters.
- `HBridge` takes `Orazio_jointsInit` pin by pin, with the tick anywhere in
  between. A pin has what its registers mean: PWM on, output, level, duty
  cycle. The three bytes of a bridge's union stay what an earlier type, or a
  failed attempt, left in them. `crossed`, `refused` and `null` remember the
  cases that section 4 names. (`Firmware` has the same re-initialization seen
  from the controllers: their pointers.)
- `HostShell` splits the commands that wait for the runner, and the runner's
  loop, at each access to what they share. The n-th command is its number, so
  that `param_control`, stored field by field, may be half of two. The client
  behind it is `HostClient`'s, of which it uses that calls return and that a
  blocking one keeps `send` waiting.

## 3. What TLC checks

Twelve runs; in `PROJECT.json` each with its properties. Components that share
no state are put in one run side by side (`MCParts`, `MCBoard`, `MCDrive`): a
behaviour picks one of them, `part`, and leaves the others in their initial
state, so the run explores each component's states and not their product. A run
takes one to three minutes with two workers.

The type invariants of all modules are theorems (section 5), as are
`MutualExclusion`, `QueueInv` and `RingInv`, and no run repeats them. The types
of the queue and of the transmit ring are the first conjunct of `QueueInv` and
`RingInv`.

| Run | Properties | What it shows |
|---|---|---|
| `logger` | `NeverDequeuesNull`, `EachPacketOnceInOrder`, `LinesInTime`, `LossAtMostOneCycle`, `EachPacketWritten`, `StopReachesAll` | The writer dequeues without testing for NULL and is right to; packets are written once, in order; what is lost at the end is the last cycle's packets and one frame; a frame is not labelled ahead of later packets; a line shows a whole text, of its cycle or a later one, unless Esc was pressed or its producer has gone on; Esc reaches every thread but the writer. |
| `drive` | mailbox: `FinalCommandIsStop`, `StopKeyWins`, `MailboxRequestSent` | Whatever the three threads store without a lock, the robot's last command is the stop (if the transmit buffer has room); what a user asks for is the last command queued, unless its stores met main's send and clear or the send was refused. |
| `drive` | firmware: `WatchdogStops`, `FreshSpeed`, `NothingUnsent`, `DriveObeyed` | All seven kinds of packet, the tick anywhere. |
| `drive` | camera: `WholeFrames` | No image mixes two frames, though driver and thread share one buffer and the thread does not wait. |
| `shell` | `OperationsAnswered`, `EditsKept`, `CommandsReturn` | fetch, store and request get the answer to their own query, sent once; edits of the user survive other operations; commands return and quit ends the program; each with the exceptions of section 4. |
| `parts` | queue: `LinkedImplementsQueue`; transmit ring: `ImplementsPipe`; receiver: `ExactOrNoticed`, `TwoLostPerFault`; deferred packets: `AssertionsHold`, `ImplementsQueue` | The three buffers implement their abstract specifications, both assertions of the deferred handler hold; the receiver gets every packet of a good line although payloads imitate frames, notices a wrong byte in one, and in plain traffic takes no wrong packet and loses two at most to any fault. |
| `parts` | encoder: `CountsTurns`, `OdometryCatchesUp`; controller: `NothingWraps`; bridges: `NothingLeftDriven`, `ControlReachesMotors` | The counter follows the wheel through its wrap, but for two quarter turns at most at the first interrupt; a late interrupt loses quarter turns in pairs; torn readings leave no lasting error but in the reset; with the default parameters no term of the PID wraps; whatever was set before, no pin stays driven, and the motors turn as they should after Success. |
| `client` | `SuccessMeansExecuted`, `InSequence`, `CallsReturn` | Two threads, any calls, one loss; on a line without losses Success also means that the parameters asked for have come. |
| `board` | UART: `RingsKeepBytes`, `PutIsSent`; EEPROM: `SavedIsKept`, `NoForeignParams`; sonars: `RangesAreSpans`, `PolledInTurn` | No byte is lost, overwritten or stranded while fewer than 256 wait; a block that was written to the end keeps its value, which is never another firmware's; ranges are whole echoes and every sonar gets its turn. |
| `board` | dspic: `ImplementsStore`, `ErasedBeforeProgrammed`, `DspicKeepsBytes` | The emulated EEPROM is a store of bytes whatever the moment power fails, and programs erased words only, also when pages expire; its UART loses no byte that was put and, while fewer wait than fill the ring, none that the hardware has received. |
| `logger_stop` (violation) | `StopTerminates` | see findings |
| `client_joint` (violation) | `CallsReturn` | see findings |
| `firmware_tick` (violation) | `TickUsesJoint` | see findings |
| `uart_tx_full` (violation) | `PutBytesWait` | see findings |
| `bridge_success` (violation) | `SuccessMeansControl` | see findings |
| `camera_first` (violation) | `FirstImageIsFrame` | see findings |

### Bounds, and why they are enough

- `logger`: two kinds of packet a cycle (order within and between cycles), two
  cycles (a buffer is written again while queued, and while read), one frame. The
  semaphores and the queue do not depend on how often; a second frame's text over
  a queued one is like main's, and the proof of `LinesInTime` has any number.
- `drive`, mailbox: two keys, one joystick event to a position that no arrow
  leads to: each writer overtakes each other one, and can be told; room for two
  commands, so that a send is refused.
- `drive`, camera: two calls before the loop and six frames of the sensor, so
  that each call finds a frame, or none, or one half made.
- `shell`: three commands in all, from the shell or from a page, on parameters
  of two types, dumps of one cycle: enough for two operations to overlap, for
  an edit to meet an operation of its own type and of the other, and for a
  third command to meet what a slow second one left behind.
- `parts`, queue, ring, deferred packets: five nodes (the queue empties and
  fills again); a ring of five bytes and frames of two and three (wrap inside
  a frame, refusal); two types of two buffers and three pending places (either
  can be full first).
- `parts`, receiver: three frames, one fault, seven packets of two types, three
  with AA in packet or checksum, one whose size reads as the other type.
  `TwoLostPerFault` needs the third frame to see that the receiver is
  synchronized again. Bytes of four bits, so that checksums collide with the
  synchronization bytes.
- `parts`, encoder and controller: counters of 64 values in two bytes of eight,
  one wheel, standing on the phase 11 or 10 at first (from the one the first
  interrupt may be wrong by two quarter turns, from the other by one), turning a
  quarter each way, across 0, and one at most between two readings, so that
  differences stay below half the range as in the robot (`OdometryFits` of
  section 5 holds here); updates and resets in any order; one late interrupt, by
  two quarters, after which main reads no more. The proofs have all phases and
  trips. The controller has the default parameters of `orazio_globals.c` but for
  `min_pwm` 20 (0 switches the dead zone off); `GainsFit` holds. Commanded are a
  speed that is clamped and one that is not; the errors to what is measured are
  within `slope` and beyond, both ways.
- `parts`, bridges: two changes of parameters, from the defaults of
  `orazio_globals.c` to each type, with pins of the same joint, of the other
  one, of nobody, and pins that do not exist; loading, saving and switching
  off and on as often as one likes.
- `client`: three calls by two threads, one loss, waiting for two packets, one
  joint, two packets of room (a send is refused). Sequence numbers begin
  two before they wrap, so that the second packet gets 0, which means "nothing
  to send" in a drive packet; all calls together take less than half of them.
  The start of the program (0, as in `client_joint`) adds nothing: its numbers
  are only compared, but for that 0.
- `drive`, firmware: two packets an epoch, three in all, two ticks an epoch, a
  watchdog of three epochs, the smallest for which `DriveObeyed` can hold:
  with two, the epoch that stores a command may be the one that is stopped.
  Two packets an epoch are what the client's calls produce; with three
  answers about drive parameters the transmit buffer of 254 bytes no longer
  holds all of an epoch's packets.
- `board`: a UART of four bytes with sizes modulo four, the proportion of 256
  and `uint8_t`, and at most three bytes waiting; two firmwares and one
  setting (a stale and a fresh value of each block); two sonars in a cycle of
  two, one change of pattern, from any pattern.
- `board`, dspic: two addresses; three pages of a status and three words in
  rows of two, so that a pack takes two rows, fills a page but for one word,
  and comes round; pages are expired from the second circle on
  (`ERASE_WRITE_CYCLE_MAX` 2), and writing ends with the third. The
  UART has the chip's four bytes each way, rings of eight with sizes modulo eight,
  seven bytes waiting at most and nine in all each way: enough to fill the
  buffers of the hardware, overrun one, and fill a ring but for its last cell.
  With eight waiting `DspicKeepsBytes` is false.

### Fairness

- `Logger`: strong fairness of main, camera and writer, which wait for
  semaphores: glibc's semaphores wake a waiter when the value is posted, and
  no thread posts and waits in a loop without I/O in between. Weak fairness
  of the joystick's thread, which only ends. Nothing says Esc is pressed.
- `DriveMailbox`: strong fairness of main and of the key thread's begun stores
  and sends (they share `write_mutex`), weak of the joystick's begun stores
  and exit. Keys and events need not come.
- `HostClient`: weak fairness of each thread's steps and of the robot's epochs.
  A mutex need not go to the one who waits: a thread that calls `sync` without
  end could starve the others, which `MaxCalls` excludes.
- `HostShell`: weak fairness of the runner, of main, of the web server's thread
  and of a command that was given: nobody holds a lock for long. Nobody has to
  give a command.
- `Firmware`: weak fairness of the tick (a hardware timer) and of the main
  loop (the interrupt leaves it time).
- `Uart`: an enabled interrupt is served, a begun `putChar` goes on.
- `SonarCycle`: the main loop goes on, echoes end.

Deadlock is checked in `parts`. The other runs may stop: threads
end, the bounds on calls, keys and bytes are used up, and `Firmware` stops at
the null pointer.

## 4. Findings

Six disagreements between the code and what its comments say are runs that
TLC refutes:

- `logger_stop`: after Esc the writer may be waiting on `empty` with nothing
  queued and nobody left to post; main then waits for the writer for ever, and
  the final stop is never sent (`orazio_logger.c:213`).
- `client_joint`: `OrazioClient_get` with a joint index that is out of range
  returns with `read_mutex` locked (`orazio_client.c:411`).
- `firmware_tick`: joint parameters clear a controller, pointers included,
  while the tick may use it (`orazio_joints.c:19`).
- `uart_tx_full`: the transmit ring of 256 bytes has a `uint8_t` size: when it
  is full it counts as empty, and `putChar` never waits (`uart.c:101`). The
  receive ring has the same arithmetic (`uart.c:122`).
- `bridge_success`: `HBridgeDualPWM_init` returns Success though its second pin
  was refused; the pin it falls back to is the one it has just released, so the
  motor turns one way only (`orazio_hbridge_internal.c:128`).
- `camera_first`: ten calls of `camera_frame` are to give the camera time, but
  the camera is opened with `O_NONBLOCK` and they return at once; the first
  images are of memory nobody wrote (`orazio_logger.c:248`,
  `webcam_manager.h:107`).

What the modelling brought up besides, and how the properties take account of
it (these have no run of their own):

- A line of the log may show a later cycle's text than its timestamp: the
  queue holds the address of main's buffer (`orazio_logger.c:408`). When its
  producer is ahead of it, it may show parts of two texts, written while it is
  read. After Esc the buffers of main and of the camera's thread are dead once
  these have left their loops (lines 256, 278, 405-429), with their addresses
  still queued, and a line may show anything. `LinesInTime` has what remains
  true, and excepts both. The models take a buffer declared in a loop's body to
  be at the same address in each turn, as compilers place it, and
  `joint_buffer` to be written, which it is not without joints.
- main clears `drive_control.header.seq` after the send, whatever that returned:
  a store made since main copied its field, one that follows its thread's store
  of `seq`, and a refused send are forgotten until the next request
  (`orazio_logger.c:400`). `MailboxRequestSent` excepts these (`missed`) and
  nothing else.
- `sync` compares the epoch outside `read_mutex`; with two polling threads it
  may return within an epoch (`orazio_client.c:316`). A blocking call sends
  once, its argument counts packets received, and when the line loses packets
  Success does not mean that the echoed parameters arrived
  (`orazio_client.c:294`).
- The packet whose number wraps to 0 is sent like any other, but when it is
  the drive packet of `sync`, its number 0 means "nothing to send" from then on
  (`orazio_client.c:313`): the velocity is no longer repeated until
  `setBaseVelocity` is called again.
- A drive packet handled before a joint packet in the same epoch enables the
  drive after it (`orazio_drive.c:30`); `DriveObeyed` is about what the
  watchdog stops.
- With `watchdog_cycles` 1 the epoch that receives a drive command is also the
  one that is stopped, and the next one obeys the command though nothing came
  after the stop (`orazio_drive_internal.c:187`): `FreshSpeed` needs another
  value. The default is 0, no watchdog (`orazio_globals.c:21`).
- The versions are written to the EEPROM before the parameters they vouch for
  (`orazio_param.c:37`): `NoForeignParams` excepts blocks whose writing was
  interrupted.
- What a receiver gets after a fault depends on the traffic. An AA in a packet
  that it gave up may begin a frame to it, and a whole frame within a payload
  would be taken for a packet. When the type byte of a packet is lost, its size
  is taken for a type: an `EndEpoch`'s (4) for that of a joint's status, and if
  the sequence number's low byte happens to be that packet's size, the bytes of
  the next frames are read as its payload (`packet_handler.c:80-91`). A lost
  byte makes the receiver read the next frame's AA as a checksum, and this frame
  is lost too. `TwoLostPerFault` is about `Plain` traffic; a wrong byte within a
  packet or in its checksum needs no exception (`ExactOrNoticed`).
- An echo that outlasts the time to the next poll spoils ranges
  (`sonar.c:68`): `RangesAreSpans` excepts it.
- In PWM mode the output is not clamped (`orazio_joints_internal.c:39`), and
  `previous_error` survives a stop (line 36): `NothingWraps` is about the PID,
  whatever was before.
- Joint 0 may take pins that joint 1 releases only afterwards
  (`orazio_joints.c:28`); `ControlReachesMotors` excepts it (`crossed`), and with
  it a tick between the change of a bridge's type to `PWMDir` and the claims of
  its pins: it writes the direction to the pin that an earlier type left in the
  union's second byte (`orazio_hbridge_internal.c`), which may be the other
  joint's by now. The proof of `ControlReachesMotors` found this one. With a
  wrong pin for joint 0 in the EEPROM, the robot starts with joint 1's
  controller never initialized, and the first tick uses null pointers (`null`,
  line 30). A half bridge starts at full duty until the next tick, because
  `PWM_enable` clears what `PWM_setDutyCycle` has just set
  (`orazio_hbridge_internal.c:169-170`).
- A commander that is slow to lower `param_sem_init` finds `op_result`
  overwritten by `refreshState`, has its query sent twice, or leaves a posted
  semaphore to the next (`orazio.c:44-53`): `late` in `OperationsAnswered` and
  `EditsKept`. Shell and page in the same kind of command at the same time
  share one semaphore, and one of them may wait for ever
  (`orazio_shell_commands.c:91`, `:170`): `overlap`.
- After quit nobody serves a page's command any more, and main waits for the
  server's thread (`orazio_ws_server.c:417`); a stop before the thread has set
  `run` is lost (`:312`). `CommandsReturn` excepts both.
- When power fails after the last word of a page is programmed and before its
  pack has made another page current, the one current page is full:
  `DataEEInit` packs only when it finds two (line 606), `DataEEWrite` then
  returns 4 (line 812), which `EEPROM_write` ignores, and the EEPROM takes no
  write ever again. It keeps what it had. With two pages only, which the code
  does not exclude but does not have (16, `DEE_Emulation_16-bit.h`), it would
  not: both expired, a reset between a pack's status and its erasure leaves the
  full page in front, and reads go back to it.
- In the EEPROM emulation, a read of a byte never written leaves
  `addrNotFound` up (line 719), and writes of unchanged bytes take words from
  then on (line 797).
  The limit of erasures stops nothing: an erased page comes back without its
  expired bit, so a pack always finds a page and the error of line 343 never
  comes.
- The rings of the dspic's UART have 256 cells and `uint8_t` sizes as well
  (`arch/dspic/uart.c:61-72`): one that is filled counts as empty, and its bytes
  are lost; the test of the receive handler (line 223) always succeeds, and the
  wait of `putChar` (line 193) never waits. `DspicKeepsBytes` is about fewer bytes
  waiting. The transmit ring holds one at most, thanks to the delay.
- `Encoder_init` sets the stored pins to 00 whatever they are
  (`encoder.c:24`): the first interrupt may count two quarter turns too many or
  too few, from the phase 11 for instance one back for the first one forward.
  `CountsTurns` allows it, once.
- A position that a tick changes while `DifferentialDriveController_reset` reads
  it (`orazio_drive_internal.c:167-168`) leaves the odometry wrong by up to 255
  ticks until the next reset: `OdometryCatchesUp` excepts it (`spoilt`). The
  models have the drive's default joints, left and right.
- A joint packet with an index from 128 on is not refused: it is negative as
  `int8_t`, and the packet is written before the array
  (`orazio_comm.c:125-143`). The models have indices up to 127 only.
- The dspic's UART never clears OERR: when five bytes arrive while the processor
  is stalled, by an erasure of its flash for instance, it receives nothing
  until the next reset.
- An image is saved again, under a new timestamp, when no new frame is ready
  (`orazio_logger.c:257`).

## 5. What is proved

With TLAPS, for every value of the constants that satisfies the modules'
assumptions (types of the constants, at least one slot in a ring or buffer) and,
where one is named, the hypothesis. The properties are those of section 3 but
for `QueueInv`, `RingInv`, `RingsMatchPending` and the types, which the
others rest on.

| Theorem | States |
|---|---|
| `BufferProofs!QueueInvariant`, `LinkedRefinement` | `QueueInv` always holds; the chain of nodes implements `QueueSpec` |
| `LoggerProofs!TypeCorrect`, `Exclusion`, `SemaphoreAccount` | `TypeOK`, `MutualExclusion`, `SemaphoreCountsQueue` always hold |
| `LoggerProofs!NoNull`, `OnceInOrder`, `InTime`, `LossBounded` | `NeverDequeuesNull`, `EachPacketOnceInOrder`, `LinesInTime`, `LossAtMostOneCycle` always hold |
| `ThreadProofs!CameraTypes`, `MailTypes` | `CameraTypeOK`, `MailboxTypeOK` always hold |
| `ThreadProofs!ImagesAreWhole` | `WholeFrames` always holds |
| `ThreadProofs!LastIsStop`, `StopKey` | `FinalCommandIsStop`, `StopKeyWins` always hold |
| `ThreadProofs!ShellTypes`, `AnswersReturned`, `EditsOverwrittenOnRequest` | `ShellTypeOK` always holds; every step satisfies `OperationsAnswered` and `EditsKept` |
| `BufferProofs!RingInvariant`, `PipeRefinement` | `RingInv` always holds; the transmit ring implements `FramePipe` |
| `BufferProofs!DeferredTypes`, `Assertions`, `RingsInvariant`, `QueueRefinement` | `DeferredTypeOK`, `AssertionsHold`, `RingsMatchPending` always hold; the deferred packets implement `CommandQueue` |
| `BufferProofs!ReceiverTypes`, `ExactUnlessHit`, `SynchronizedAgain` | `ReceiverTypeOK`, `ExactOrNoticed`, `TwoLostPerFault` always hold |
| `BoardProofs!UartTypes`, `DspicTypes`, `EepromTypes`, `SonarTypes` | `UartTypeOK`, `DspicTypeOK`, `EepromTypeOK`, `SonarTypeOK` always hold |
| `BoardProofs!UartBytes` (`BacklogFits`) | `RingsKeepBytes` always holds |
| `BoardProofs!DspicBytes` (`DspicFits`) | `DspicKeepsBytes` always holds |
| `BoardProofs!EepromSaved` | `SavedIsKept` and `NoForeignParams` always hold |
| `BoardProofs!SonarRanges` | `RangesAreSpans` always holds |
| `WheelProofs!EncoderTypes`, `ControllerTypes`, `HBridgeTypes` | `EncoderTypeOK`, `JointTypeOK`, `BridgeTypeOK` always hold |
| `WheelProofs!EncoderCounts` | `CountsTurns` always holds |
| `WheelProofs!OdometryFollows` (`OdometryFits`) | `OdometryCatchesUp` always holds |
| `WheelProofs!BridgesReleased`, `BridgesObey` | `NothingLeftDriven` always holds; every step satisfies `ControlReachesMotors` |
| `WheelProofs!GainsNeverWrap` (`GainsFit`) | every step satisfies `NothingWraps` |
| `ClientProofs!ClientTypes` | `ClientTypeOK` always holds |
| `ClientProofs!PacketsInSequence` (`taken <= SeqWidth \div 2`) | `InSequence` holds |
| `ClientProofs!SuccessIsExecuted` (`taken <= SeqWidth`) | `SuccessMeansExecuted` holds |
| `FirmwareProofs!FirmwareTypes` | `FirmwareTypeOK` always holds |
| `FirmwareProofs!WatchdogObserved` | `WatchdogStops` always holds |
| `FirmwareProofs!SpeedIsFresh` (`WatchdogCycles # 1`) | `FreshSpeed` always holds |
| `FirmwareProofs!CommandsObeyed` (`WatchdogCycles >= 3`) | every step satisfies `DriveObeyed` |
| `FirmwareProofs!AnswersSent` (`AnswersFit`) | every step satisfies `NothingUnsent` |
| `DataEEProofs!DataEETypes` | `DataEETypeOK` always holds |
| `DataEEProofs!ErasedFirst` | every step satisfies `ErasedBeforeProgrammed` |
| `DataEEProofs!StoreRefinement` (`NUM_DATA_EE_PAGES > 2`) | `ImplementsStore`: the emulated EEPROM implements `ByteStore` |

### Hypotheses, and why the code satisfies them

- `BacklogFits`: no more bytes wait than a ring has cells and its size can
  count. The rings have 256 cells and the sizes are `uint8_t`, so the theorem is
  about at most 255 waiting bytes. `uart.c` does not enforce it (with 256 it is
  false, as the run `uart_tx_full` shows); what the main loop puts into the UART
  at the end of an epoch is 254 bytes at most, the packet handler's ring.
- `DspicFits`: no more received bytes wait than a ring of the dspic's UART has
  cells and its size can count, 255; `uart.c` does not enforce this either. What
  is transmitted needs no hypothesis.
- `OdometryFits`: a wheel turns, between two readings of a counter, less than
  half the counter's range, two torn bytes and six quarter turns of the first
  interrupt's error and of the steps between subtracted. With 16 bits these are
  32250 quarter turns in a few hundredths of a second.
- `GainsFit`: the terms of the PID, with all limits reached, are below 2^15. With
  the defaults they add up to 10710 (`kp` 255 times `slope` 10, `ki` 32 times
  `max_i` 255, `kd` 0). A host may set gains for which it does not hold, and
  then they wrap.
- `WatchdogCycles`: the default is 0, no watchdog, which `SpeedIsFresh` covers.
  Section 4 says what happens with 1. `DriveObeyed` is about what a watchdog
  stops; with fewer than three cycles it may stop a command in the epoch that
  has just stored it.
- `AnswersFit`: the transmit buffer has room for the answers to as many packets as
  an epoch may find (`MaxPending`) and for what each epoch sends. With two
  packets an epoch, 52 bytes for a parameter packet and its response and 142
  for the rest, these are 246 of 254 bytes; with three, some are lost.
- `taken <= SeqWidth`: a number tells a packet until all of them have been taken,
  65536 packets of all threads together (`global_seq` is 16 bits wide); the
  order of two numbers until half of them have. The first number is any
  (`FirstSeqs`), so the theorems also speak of the numbers that wrap. Beyond, a
  response that has been on the line since the number was last used would be
  taken for the new one: nothing in the code excludes it, but the host reads
  the line all the time. These are bounds of the state, not of the constants:
  the theorems say what holds until they are reached.
- `NUM_DATA_EE_PAGES > 2`: the code has 16. Section 4 says what happens with 2.

### The arguments

- *Queue.* Nodes are named in the order of allocation. `QueueInv` says that
  `next` leads from `head` to `tail` through consecutive nodes, that the ends
  are NULL together except inside the first insertion, and which node the
  holder of the semaphore has in hand at each of its stores; each of these is
  needed for the next store to keep the others. The refinement maps to the
  data from `head` to `tail`; an insertion takes effect at its last store.
- *Logger.* That the writer never gets NULL is not inductive: it needs that
  `empty` counts the queue up to the one packet a thread has queued and not
  posted, or taken and not dequeued; that needs that one thread at a time is
  inside `critical`; and the type of what is about to be added. `LoggerInv` is
  their conjunction. The other three properties are about `Logged`, what was
  printed, is in the writer's hand and is queued: no step of the writer changes
  it, a producer's appends to it. `OrderInv` counts main's records in it by the
  place main has reached; `TimeInv` says that a frame's label is not ahead of
  what follows, `TextInv` that a buffer shows, from the making of a record on,
  the record's cycle or a later one, and `WholeInv` that it is whole while the
  producer is not ahead and Esc was not pressed, for which `CycleInv` and
  `FrameInv` tell the producers' places by the records there are; `LossInv`
  that, once the writer has stopped, what is queued and what main and the camera
  are still about make one cycle and one frame.
- *Camera.* `CameraInv` says who has the buffer at each place of the thread: it
  holds one whole frame from the dequeue until it is given back.
- *Drive mailbox.* A stop is last because its thread is: `FinalInv` says that
  key and joystick have ended before main's stop, so that what main copies under
  `write_mutex` is 0 or about to be set to 0 by main itself. `KeyInv`: once the
  joystick is gone and the key's stores of a stop are made, both velocities are
  0; a copy of main's that began before ends before the key's thread has the
  mutex, and what main copies afterwards is 0 too.
- *Shell.* `UserInv`: a commander is at a place of `paramFn` exactly while it
  executes fetch, store or request, numbers are taken in turn, and until two
  overlap one commander at most is there. Then `QueryInv`: what it has stored in
  `param_control` so far is its own, and the flag is up only while somebody
  waits or is about to lower it. `AnswerInv` is the runner's side: when it asks,
  somebody waits whom it has not warned; that operation was sent once from there
  on, `query` and `op_result` are its, and from the warning until the return the
  runner is in its loop's head, or has ended, unless it was late. A step of
  others changes nothing of this (`Quiet`).
- *Transmit ring.* `RingInv` says that `tx_end` is `tx_size` slots behind
  `tx_start` and that a frame that was begun has room to its end, which is why
  `_putTxByte` never drops a byte of it. The mapping counts a frame as sent
  when it is accepted.
- *Deferred packets.* A ticket numbers the packets stored in each type's ring.
  `RingsMatchPending` says that the tickets of a type's pending packets are
  the occupied slots in order, `ReceivedIntoEnd` that a packet that is being
  received has the ring's end slot. Together with the types they are
  inductive, and the assertions of `_onReceive` and `processPendingPackets`
  follow. The refinement maps to the pending packets that are not processed
  yet, with what their buffers hold; that no buffer is written again before its
  packet is processed is what `RingsMatchPending` is for.
- *Receiver.* `Place` says which byte of which frame the line brings next. As long
  as the line has done no more than the properties speak of (`Usable`), the
  receiver is in one of five relations to it (`InFrame`, `Between`): where it
  should be; inside a packet with a wrong byte, its checksum different from the
  good one by that byte's error, which exclusive or carries to the end
  (`TaintedGoes`); one byte behind, the checksum short of a byte that is not AA,
  so that the next frame's AA is no checksum to it (`BehindGoes`); waiting for
  that checksum; or past a frame it gave up. `Kept` counts what it delivered: all
  before the fault, all after one packet or two. Of the checksum, only the laws of
  exclusive or are used; its value over a packet is told by induction
  (`ChecksumsAre`).
- *UART.* `UartInv`: of each ring, the bytes given and not taken wait in its
  cells in order. `BacklogFits` keeps the sizes from wrapping.
- *UART of the dspic.* `putChar` delays after each byte, so one byte at most is
  in the ring and in the hardware's buffer together (`DelayInv`) and the transmit
  ring is never filled; the receive interrupt, when its flag is up and it is not
  about to clear it, finds a byte (`FlagInv`). `ReceiveKept` says that what
  arrived waits in order, in ring and hardware together within the backlog, by
  which `DspicFits` keeps the size from wrapping.
- *Parameters.* A block that is not torn is what it was last written with.
  `VersionInv` says what the protocol's version vouches for in each mode: while
  the initialization writes, every other block is still to be written or
  already this firmware's.
- *Sonars.* Until a poll comes too early, each polled sonar goes through the
  same four stages, and its counter is a time only in the last (`EchoInv`).
- *Encoders.* `CountInv`: once the interrupt was served its stored pins are those
  of the position it last served, so that it tells one quarter turn either way
  exactly, and a difference of two as none; before, they are 00, and what the
  first service counts too much or too little is `slip`, between -2 and 2.
  `SpanInv` keeps the wheel, the tick's sample and main's reading close. A
  position read while the tick stores it has a wrong byte and is off by less than
  a byte's values; `Follows` says of a wheel that what the odometry added up since
  it began at some `b` is what main last read, and that a difference not yet added
  is less than half the counter's range, so that adding differences, wrapped to
  16 bits, adds up to the positions: the error of a reading is in no later sum,
  but that of `b`, which the reset read (`ResetInv`), is in all.
- *Bridges.* `PwmInv`: a pin with PWM is in use by a bridge, where a bridge that
  is being initialized uses those it has claimed; a release before the claims,
  by the operations of the old type, is what keeps it. `ControlInv` says that
  claimed pins stay as they were claimed, until the end for both joints; it
  speaks only of requests with separate pins, and `Undisturbed` of the
  direction byte that a later claim has replaced.
- *Controller.* `GainsInv` is the range of what it keeps from tick to tick; the
  rest is arithmetic from `GainsFit`.
- *Client.* All is told from `Gap`, how far a number is behind `global_seq`.
  `AgeInv` says that the packets executed, on the wire and in the transmit
  buffer have smaller and smaller gaps, all below `taken`, and that who holds
  `write_mutex` between its number and its put has gap 0, which no packet has
  yet; without the mutex (`LockInv`) another thread's number would come in
  between. `InSequence` is the difference of two gaps. `OwnInv`: a packet with
  the number a thread waits for is its own. `ResponseInv`: the last response,
  and those on the line, are to executed packets; the two together make Success
  mean execution. `KnownInv` follows the system's parameters, which are before
  their response on a line that loses nothing. `FlattenSeq`, by which an epoch's
  answers are put together, is handled through the least number of packets for
  which the claim would fail (`Induct`, `Flattened`).
- *Firmware.* The inductive invariant is the conjunction of the places of the
  main loop (`LoopInv`), the half-done stores (`StoreInv`), the count of the
  watchdog against the epochs without a packet, from above (`WatchdogInv`) and
  from below (`ObeyInv`), and the order of the packets' numbers (`NumberInv`);
  `FreshInv` adds that what drives a joint came after the last stop. `ObeyInv`
  follows a command from its packet to both motors: two epochs without a packet
  are enough for a tick to have carried it out. `RoomInv`, for `NothingUnsent`:
  while packets are handled there is room for the answers to those that are
  left; each answer is at most what its packet had reserved.
- *EEPROM of the dspic.* `EraseInv` is the life of the pages: one page is
  current, the next one blank or being packed into; or two are, until the first
  is erased; all others are blank. `ErasedBeforeProgrammed` follows, for any
  number of pages. For the store, `Holds` adds that the current pages answer
  the same, that a page's free words are its last, and that a page which has
  just been packed has room left, since there are fewer addresses than words:
  so the start after a reset does not pack from the wrong one. That a pack
  writes each address once, in rows, is told from the least address that is left
  (`WellFoundedInduction`).

- *Types.* Most follow from the inductive invariants above. The UARTs' need
  neither `BacklogFits` nor `DspicFits`: a size, wrapped or not, is a `uint8_t`.
  The mailbox's are about the stores that are left to make, each to a field and
  of its type; the bridges', that a claim's step is within its type's pins; the
  sonars', that a cycle is the pattern's, also of the pattern a host has just
  sent (`LastCycle`). The firmware's say that the numbers of what is pending,
  stored and driven are of packets that were sent (`NumbersSent`), and that no
  epoch sends more than the buffer holds (`EpochStays`).

### Only model-checked

- All liveness: `EachPacketWritten`, `StopReachesAll`, `MailboxRequestSent`,
  `CommandsReturn`, `CallsReturn`, `PutIsSent`, `PolledInTurn`. Fairness
  and `ENABLED` are beyond the prover. The second part of `MailboxRequestSent`,
  that what was stored is what was queued last, is a safety property; it goes
  with the first and is not proved.

All other properties of the passing runs are proved.

No module uses a RECURSIVE operator, so that proofs about each can be added;
`PacketReceiver`'s checksum is a parameter (`XorBytes`), given by `Bitwise` in the
run.

## 6. Plan

Done, in this order: `LinkedQueue`, `Logger`, `DriveMailbox`, `TxRing`,
`DeferredPackets`, `HostClient`, `PacketReceiver`, `Uart`, `Firmware`,
`EepromParams`, `SonarCycle`, `Encoder`, `JointController`, `HBridge`,
`HostShell`, `DataEE`, `Camera`, `DspicUart`; proofs about all of them.

To come: `HostClient` with `Firmware`'s answers in place of `RobotEpoch`: which
numbers and timeouts fit each other.

## 7. Not modelled

- `arch/dspic/p33FJ128MC802.h`, two thirds of the repository's lines, names the
  chip's registers and has no behaviour.
- The set-up and use of peripherals: timers, delays, PWM timers, the dspic's
  encoder counters and pins. What the modelled code sees of them (a tick, a
  counter, a flag) is in the models that use them.
- The teensy36 port: its EEPROM, UART, encoders and timers are calls into
  Teensyduino's libraries.
- The floating-point part of the odometry and of the drive's limits: the models
  follow which command a speed comes from, not its value.
- `capture.h`, which nothing includes; colour conversion and JPEG writing.
- `serial_linux.c`, `orazio_print_packet.c`: system calls and formatting without
  state of their own.
- Default values (`orazio_globals.c`), packet layouts (`orazio_packets.h`):
  those that matter are in the constants and records of the models.
- The shell's line completion, the web pages, test programs and scripts.
