-------------------------- MODULE JointController --------------------------
(***************************************************************************)
(* The controller of one joint, orazio_joints_internal.c: at every tick    *)
(* JointController_handle computes from the commanded speed and the speed  *)
(* the encoder measures what the H bridge is given, in integers of 16 bits *)
(* that wrap.                                                              *)
(***************************************************************************)
EXTENDS Integers

CONSTANTS kp, ki, kd, max_i, min_pwm, max_pwm, max_speed, slope,   \* JointParams
          Speeds,             \* speeds the host commands
          Measured            \* speeds the encoder measures

Min16 == -32768
Max16 == 32767
Int16 == Min16 .. Max16

ASSUME JointAssumption ==
  /\ {kp, ki, kd} \subseteq Int16
  /\ {max_i, min_pwm, max_pwm, max_speed, slope} \subseteq 0 .. Max16
  /\ Speeds \subseteq Int16 /\ Measured \subseteq Int16

VARIABLES mode, speed,        \* the command
          joint_status,       \* desired_speed, encoder_speed
          output, ramp_reference, error_integral, error, previous_error

command == <<mode, speed>>
controller == <<output, ramp_reference, error_integral, error, previous_error>>
jointVars == <<command, joint_status, controller>>

JointInit ==
  /\ mode = "Disabled" /\ speed = 0
  /\ joint_status = [desired |-> 0, encoder |-> 0]
  /\ output = 0 /\ ramp_reference = 0
  /\ error_integral = 0 /\ error = 0 /\ previous_error = 0

-----------------------------------------------------------------------------

\* Mutant of Wrap16: 8 bits.
Wrap8(n) == ((n + 128) % 256) - 128

\* What is stored in an int16_t, and the int arithmetic of the AVR
Wrap16(n) == ((n - Min16) % 65536) + Min16

clamp(v, value) == IF v > value THEN value ELSE IF v < -value THEN -value ELSE v

\* C's division by 32
By32(n) == IF n >= 0 THEN n \div 32 ELSE -((-n) \div 32)

\* Drive, joint packets and the watchdog set the command.
Command ==
  /\ mode' \in {"Disabled", "PWM", "PID"}
  /\ speed' \in Speeds
  /\ UNCHANGED <<joint_status, controller>>

TickDisabled ==
  /\ mode = "Disabled"
  /\ joint_status' \in [desired : {joint_status.desired}, encoder : Measured]
  /\ output' = 0 /\ error_integral' = 0
  /\ UNCHANGED <<command, ramp_reference, error, previous_error>>

TickPWM ==
  /\ mode = "PWM"
  /\ joint_status' \in [desired : {joint_status.desired}, encoder : Measured]
  /\ output' = speed
  /\ UNCHANGED <<command, ramp_reference, error_integral, error, previous_error>>

\* The terms of the PID, and what they give when nothing wraps
Terms(e, i, d) == By32(Wrap16(Wrap16(Wrap16(kp * e) + Wrap16(ki * i)) + Wrap16(kd * d)))
ExactTerms(e, i, d) == By32(kp * e + ki * i + kd * d)

\* Values lower than min_pwm are zeroed.
Dead(v) == IF v < min_pwm /\ v > -min_pwm THEN 0 ELSE v

TickPID ==
  /\ mode = "PID"
  /\ joint_status' \in [desired : {clamp(speed, max_speed)}, encoder : Measured]
  /\ error' = clamp(Wrap16(joint_status'.desired - joint_status'.encoder), slope)
  /\ ramp_reference' = Wrap16(joint_status'.encoder + error')
  /\ error_integral' = clamp(Wrap16(error_integral + error'), max_i)
  /\ output' = Dead(clamp(Wrap16(ramp_reference'
                                 + Terms(error', error_integral', Wrap16(error' - previous_error))),
                          max_pwm))
  /\ previous_error' = error'
  /\ UNCHANGED command

JointTick == TickDisabled \/ TickPWM \/ TickPID
JointNext == Command \/ JointTick

JointSpec == JointInit /\ [][JointNext]_jointVars

-----------------------------------------------------------------------------
(* Properties *)

JointTypeOK ==
  /\ mode \in {"Disabled", "PWM", "PID"} /\ speed \in Speeds \cup {0}
  /\ joint_status \in [desired : -max_speed .. max_speed, encoder : Measured \cup {0}]
  /\ {output, ramp_reference, error_integral, error, previous_error} \subseteq Int16

\* With these parameters the 16 bits are enough whatever was commanded and
\* measured before: no term wraps and turns the motor the other way.
NothingWraps ==
  [][TickPID => /\ ramp_reference' = joint_status'.encoder + error'
                /\ error_integral' = clamp(error_integral + error', max_i)
                /\ output' = Dead(clamp(ramp_reference'
                                          + ExactTerms(error', error_integral',
                                                       error' - previous_error),
                                        max_pwm))]_jointVars
=============================================================================
