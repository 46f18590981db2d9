------------------------------ MODULE Encoder ------------------------------
(***************************************************************************)
(* From the wheels to the odometry: the encoders' two phases, the          *)
(* pin-change interrupt that counts their transitions and Encoder_sample   *)
(* (arch/atmega2560/encoder.c), the tick that keeps the sample as the      *)
(* joint's position (orazio_joints_internal.c), and the main loop that     *)
(* takes the difference of two positions and, when parameters change,      *)
(* starts again from the present ones (orazio_drive_internal.c).           *)
(* The wheels may stand on any of the four phases when the counters are    *)
(* cleared; the pins are not read then.                                    *)
(* Counters are unsigned and Width bits wide, differences signed; the main *)
(* loop reads a position byte by byte, and the tick may come in between.   *)
(***************************************************************************)
EXTENDS Integers, Sequences

CONSTANTS left, right,        \* the encoders
          Byte,               \* values of a byte: 2^8
          Phases,             \* of each wheel, those it may stand on at first
          MaxLag,             \* quarter turns the interrupt may be late
          MaxLate,            \* bound: how often it is late by more than one
          Span,               \* quarter turns in the time from one reading to the next
          Moving,             \* bound: wheels that turn
          Reach               \* bound: quarter turns away from the phase

ASSUME EncoderAssumption ==
  /\ left # right /\ Byte \in Nat \ {0} /\ Byte % 2 = 0 /\ MaxLag \in Nat \ {0} /\ MaxLate \in Nat
  /\ Span \in Nat
  /\ Moving \subseteq {left, right} /\ Reach \in Nat

Encoders == {left, right}
Values == Byte * Byte         \* of a counter: 2^16

VARIABLES
  phase,                      \* phase each wheel stands on at Encoder_init
  wheel,                      \* quarter turns of each wheel from phase 0, the truth
  served,                     \* those when the interrupt was last served
  slip,                       \* what its first service counted beyond the turns made
  interrupted,                \* it was served
  late,                       \* how often a wheel got further ahead of it
  encoder_status,             \* the two pins the interrupt saw last
  current,                    \* _encoder_current_value
  encoder_position,           \* of the joint, and _encoder_sampled_value
  call,                       \* main is in update or reset of the drive, or in "none"
  mainPc,                     \* bytes of positions it has read
  read, previous,             \* encoder_left, encoder_left_previous and right
  ticks,                      \* what the odometry has added up since it was reset
  atTick, sampled,            \* served, and the turns counted, at the last tick
  origin,                     \* atTick when main last read a position
  zero, spoilt                \* sampled at the reset; wheels whose position a tick
                              \* changed between the two bytes that the reset read

isr == <<served, slip, interrupted, encoder_status, current>>
turns == <<phase, wheel, late>>
joint == <<encoder_position, atTick, sampled>>
drive == <<call, mainPc, read, previous, ticks, origin, zero>>
encoderVars == <<turns, isr, joint, drive, spoilt>>

Zeros == [e \in Encoders |-> 0]

EncoderInit ==
  /\ phase \in [Encoders -> 0 .. 3] /\ \A e \in Encoders : phase[e] \in Phases[e]
  /\ wheel = phase /\ served = phase /\ late = 0
  /\ encoder_status = [e \in Encoders |-> <<0, 0>>] /\ current = Zeros
  /\ slip = Zeros /\ interrupted = FALSE
  /\ encoder_position = Zeros
  /\ atTick = phase /\ sampled = Zeros
  /\ call = "none" /\ mainPc = 0 /\ read = Zeros /\ previous = Zeros /\ ticks = Zeros
  /\ origin = phase /\ zero = Zeros /\ spoilt = {}

\* The pins of a wheel: 00, 01, 11, 10 as it turns forward
Pins(n) == <<<<0, 0>>, <<0, 1>>, <<1, 1>>, <<1, 0>>>>[(n % 4) + 1]

\* _transition_table: the entries that are not 0
Forward == {<<<<0, 0>>, <<0, 1>>>>, <<<<0, 1>>, <<1, 1>>>>,
            <<<<1, 1>>, <<1, 0>>>>, <<<<1, 0>>, <<0, 0>>>>}

\* Mutant of Transition: the last entry is missing.
TransitionMissing(before, after) ==
  IF <<before, after>> \in Forward /\ after # <<0, 0>> THEN 1
  ELSE IF <<after, before>> \in Forward THEN -1 ELSE 0

Transition(before, after) ==
  IF <<before, after>> \in Forward THEN 1 ELSE IF <<after, before>> \in Forward THEN -1 ELSE 0

\* The difference of two counters, as int16_t
Difference(a, b) == ((a - b + Values \div 2) % Values) - Values \div 2

-----------------------------------------------------------------------------
Distance(a, b) == IF a < b THEN b - a ELSE a - b

\* A wheel gets no further than Span from where a tick or main last saw it: it has
\* a highest speed, and the timer and the main loop go round.
Turn(e, by) ==
  /\ wheel' = [wheel EXCEPT ![e] = wheel[e] + by]
  /\ wheel'[e] - phase[e] \in -Reach .. Reach
  /\ Distance(wheel'[e], served[e]) <= MaxLag
  /\ \A seen \in {atTick[e], origin[e]} : Distance(wheel'[e], seen) <= Span
  /\ late' = IF Distance(wheel[e], served[e]) = 1 /\ Distance(wheel'[e], served[e]) = 2
             THEN late + 1 ELSE late
  /\ late' <= MaxLate
  /\ UNCHANGED <<phase, isr, joint, drive, spoilt>>

\* What the interrupt adds to the counter of e
Counted(e) == Transition(encoder_status[e], Pins(wheel[e]))

\* PCINT0_vect, called for both wheels when a pin of one changes, though it may have
\* changed back.  At first the stored status is not that of the pins.
PinChange ==
  /\ current' = [e \in Encoders |-> (current[e] + Counted(e)) % Values]
  /\ encoder_status' = [e \in Encoders |-> Pins(wheel[e])]
  /\ served' = wheel
  /\ slip' = IF interrupted THEN slip
             ELSE [e \in Encoders |-> Counted(e) - (wheel[e] - phase[e])]
  /\ interrupted' = TRUE
  /\ UNCHANGED <<turns, joint, drive, spoilt>>

\* The turns an interrupt that is never late has counted
TurnsCounted(e) == served[e] - phase[e] + slip[e]

\* The positions, in the order main reads them: DifferentialDriveController_update
\* begins with the right one, DifferentialDriveController_reset with the left one.
Order(c) == IF c = "update" THEN <<right, left>> ELSE <<left, right>>
Wheel(c) == Order(c)[mainPc \div 2 + 1]

\* Encoder_sample, and the position at the beginning of JointController_handle.  The
\* speed it takes from it is an input of the joint's control (JointController).
EncoderTick ==
  /\ encoder_position' = current
  /\ atTick' = served /\ sampled' = [e \in Encoders |-> TurnsCounted(e)]
  /\ spoilt' = IF call = "reset" /\ mainPc \in {1, 3} THEN spoilt \cup {Wheel(call)} ELSE spoilt
  /\ UNCHANGED <<turns, isr, drive>>

\* The first byte of a position.  The drive is reset when its parameters or the
\* system's are set, its update being over.
ReadLow ==
  /\ mainPc \in {0, 2}
  /\ call' \in IF mainPc = 0 THEN {"update", "reset"} ELSE {call}
  /\ read' = [read EXCEPT ![Wheel(call')] = encoder_position[Wheel(call')] % Byte]
  /\ spoilt' = IF mainPc = 0 /\ call' = "reset" THEN {} ELSE spoilt
  /\ mainPc' = mainPc + 1
  /\ UNCHANGED <<turns, isr, joint, previous, ticks, origin, zero>>

\* The second one
ReadHigh ==
  /\ mainPc \in {1, 3}
  /\ read' = [read EXCEPT ![Wheel(call)] = @ + Byte * (encoder_position[Wheel(call)] \div Byte)]
  /\ origin' = [origin EXCEPT ![Wheel(call)] = atTick[Wheel(call)]]
  /\ zero' = IF call = "reset" THEN [zero EXCEPT ![Wheel(call)] = sampled[Wheel(call)]] ELSE zero
  /\ mainPc' = mainPc + 1
  /\ UNCHANGED <<turns, isr, joint, call, previous, ticks, spoilt>>

\* Mutant of AddTicks: the position at the end is the next one's beginning.
AddTicksLatest ==
  /\ mainPc = 4 /\ call = "update"
  /\ ticks' = [e \in Encoders |-> ticks[e] + Difference(read[e], previous[e])]
  /\ previous' = encoder_position
  /\ call' = "none" /\ mainPc' = 0 /\ read' = Zeros
  /\ UNCHANGED <<turns, isr, joint, origin, zero, spoilt>>

\* The differences of the positions that update has read
AddTicks ==
  /\ mainPc = 4 /\ call = "update"
  /\ ticks' = [e \in Encoders |-> ticks[e] + Difference(read[e], previous[e])]
  /\ previous' = read
  /\ call' = "none" /\ mainPc' = 0 /\ read' = Zeros
  /\ UNCHANGED <<turns, isr, joint, origin, zero, spoilt>>

\* The odometry begins at the positions that reset has read.
Reset ==
  /\ mainPc = 4 /\ call = "reset"
  /\ ticks' = Zeros /\ previous' = read
  /\ call' = "none" /\ mainPc' = 0 /\ read' = Zeros
  /\ UNCHANGED <<turns, isr, joint, origin, zero, spoilt>>

EncoderNext == \/ \E e \in Moving, by \in {-1, 1} : Turn(e, by)
               \/ PinChange \/ EncoderTick \/ ReadLow \/ ReadHigh \/ AddTicks \/ Reset

EncoderSpec == EncoderInit /\ [][EncoderNext]_encoderVars

-----------------------------------------------------------------------------
(* Properties *)

Counts == 0 .. Values - 1

EncoderTypeOK ==
  /\ phase \in [Encoders -> 0 .. 3] /\ spoilt \subseteq Encoders
  /\ {wheel, served, atTick, origin} \subseteq [Encoders -> -Reach .. Reach + 3]
  /\ {slip, sampled, zero} \subseteq [Encoders -> Int] /\ interrupted \in BOOLEAN
  /\ encoder_status \in [Encoders -> {0, 1} \X {0, 1}]
  /\ {current, encoder_position, read, previous} \subseteq [Encoders -> Counts]
  /\ call \in {"none", "update", "reset"} /\ mainPc \in 0 .. 4 /\ late \in 0 .. MaxLate

\* When the interrupt is never late by two quarter turns the counter follows the
\* wheel, across 0 and in both directions (encoder.c:49-87), but for what the
\* first interrupt counts wrongly, because Encoder_init has not read the pins
\* (line 24): at most two quarter turns, none from the phase 00.  However late
\* it is, it loses quarter turns in pairs: the counter stays in phase with the pins.
CountsTurns ==
  \A e \in Encoders :
    /\ late = 0 => /\ current[e] = TurnsCounted(e) % Values
                   /\ slip[e] \in -2 .. 2 /\ (phase[e] = 0 => slip[e] = 0)
    /\ current[e] % 2 = (encoder_status[e][1] + encoder_status[e][2]) % 2

\* A position that a tick changed between its bytes is wrong by less than a byte.
\* In update the error does not stay: once a reading is the ticks' position, the
\* odometry has added up what the ticks had counted since the reset
\* (orazio_drive_internal.c:76-81).  In the reset it stays, until the next one
\* (lines 167-168).
OdometryCatchesUp ==
  late = 0 /\ mainPc = 0
    => \A e \in Encoders : previous[e] = encoder_position[e] =>
         LET error == ticks[e] - (sampled[e] - zero[e])
         IN  /\ error \in 1 - Byte .. Byte - 1
             /\ e \notin spoilt => error = 0
=============================================================================
