------------------------------- MODULE HBridge -------------------------------
(***************************************************************************)
(* The H bridges (orazio_hbridge_internal.c) on the pins (digio.c, pwm.c), *)
(* as Orazio_jointsInit takes them into use whenever joint parameters are  *)
(* set, loaded or read at the start, and as the timer interrupt drives     *)
(* them.  The interrupt may come between any two steps of the              *)
(* initialization; between a start and its end the timer is off.           *)
(*                                                                         *)
(* bridge->params is a union: its three bytes are the pins, in the order   *)
(* of joint_params' h_bridge_pins, whatever the type, and keep what an     *)
(* earlier type left in them.  A duty cycle is what the motor makes of it. *)
(***************************************************************************)
EXTENDS Integers, Sequences

CONSTANTS IoPins, PwmPins,     \* all pins, those with a timer
          Requests,          \* joint parameters the host may set: type and pins
          Defaults,          \* those in the EEPROM at first, for each joint
          Outputs,           \* of a controller; their signs matter
          MaxRequests        \* bound: parameters set by the host

Left == 1
Right == 2
Motors == {Left, Right}
BridgeTypes == {"PWMDir", "DualPWM", "HalfPWM"}

ASSUME BridgeAssumption ==
  /\ IoPins \subseteq Nat /\ 0 \in IoPins /\ PwmPins \subseteq IoPins
  /\ Requests \subseteq [type : BridgeTypes \cup {"unknown"}, pins : Int \X Int \X Int]
  /\ Defaults \in [Motors -> Requests] /\ Outputs \subseteq {-1, 0, 1} /\ MaxRequests \in Nat

VARIABLES
  h_bridge,            \* joint_params: h_bridge_type and h_bridge_pins
  saved,               \* the same in the EEPROM
  ops, params,         \* of each bridge
  pin,                 \* the registers of each pin
  controllers,         \* joint_controllers[i] has its pointers
  outputs,             \* of each controller, at the last tick
  bridge, step,        \* how far Orazio_jointsInit is
  result,              \* what it returned last
  starting,            \* the timer is not started yet
  crossed,             \* a bridge has just released pins of the other, or would use them
  refused,             \* a second PWM pin was refused
  null,                \* the interrupt has used a null pointer
  requests

bridgeVars == <<h_bridge, saved, ops, params, pin, controllers, outputs, bridge, step,
                result, starting, crossed, refused, null, requests>>

\* DigIO_init, and compare registers that are 0 after a reset
PulledUp == [pwm |-> FALSE, out |-> FALSE, value |-> 1, duty |-> 255]

\* The robot is switched on: main, to Orazio_jointsInit.
BridgeInit ==
  /\ h_bridge = Defaults /\ saved = Defaults /\ requests = 0
  /\ ops = [j \in Motors |-> "none"] /\ params = [j \in Motors |-> <<0, 0, 0>>]
  /\ pin = [p \in IoPins |-> PulledUp]
  /\ controllers = [j \in Motors |-> FALSE] /\ outputs = [j \in Motors |-> 0]
  /\ bridge = Left /\ step = 0 /\ result = "none"
  /\ starting = TRUE /\ crossed = FALSE /\ refused = FALSE /\ null = FALSE

-----------------------------------------------------------------------------
(* The pins *)

\* Bytes of the union that a type's fini_fn takes for PWM pins, for others.
PwmBytes(type) == IF type = "DualPWM" THEN {1, 2} ELSE {1}
DigitalBytes(type) ==
  CASE type = "PWMDir" -> {2, 3} [] type = "DualPWM" -> {} [] type = "HalfPWM" -> {2}

Named(bytes, which) == {bytes[i] : i \in which}

\* Mutant of Release: the second PWM pin goes on.
ReleaseFirst(type, bytes) ==
  [p \in IoPins |->
     IF p = bytes[1]
       THEN [pin[p] EXCEPT !.pwm = FALSE, !.out = FALSE, !.duty = 255]
     ELSE IF p \in Named(bytes, DigitalBytes(type))
       THEN [pin[p] EXCEPT !.out = FALSE, !.value = 0]
     ELSE pin[p]]

\* fini_fn: no PWM, pins are inputs.  PWM_enable clears the compare register,
\* which the inverting timer takes for 255.
Release(type, bytes) ==
  [p \in IoPins |->
     LET digital == p \in Named(bytes, DigitalBytes(type))
         pwm == p \in PwmPins \cap Named(bytes, PwmBytes(type))
     IN  [pwm |-> pin[p].pwm /\ ~pwm,
          out |-> pin[p].out /\ ~pwm /\ ~digital,
          value |-> IF digital THEN 0 ELSE pin[p].value,
          duty |-> IF pwm THEN 255 ELSE pin[p].duty]]

\* What a type's init does with its pins, in order: which byte, and how it is
\* used.  HalfPWM sets the duty cycle before PWM_enable clears it again.
Claims(type) ==
  CASE type = "PWMDir" -> <<[byte |-> 2, use |-> "low"], [byte |-> 3, use |-> "brake"],
                            [byte |-> 1, use |-> "pwm"]>>
    [] type = "DualPWM" -> <<[byte |-> 1, use |-> "pwm"], [byte |-> 2, use |-> "second"]>>
    [] type = "HalfPWM" -> <<[byte |-> 1, use |-> "half"], [byte |-> 2, use |-> "enable"]>>

ByTimer == {"pwm", "second", "half"}
Available(use, p) == p \in (IF use \in ByTimer THEN PwmPins ELSE IoPins)
Unused(use, p) == use \in {"brake", "enable"} /\ p < 0

InUse(use, old) ==
  CASE use \in {"pwm", "second"} -> [old EXCEPT !.pwm = TRUE, !.out = TRUE, !.duty = 0]
    [] use = "half" -> [old EXCEPT !.pwm = TRUE, !.out = TRUE, !.duty = 255]
    [] use \in {"low", "brake"} -> [old EXCEPT !.out = TRUE, !.value = 0]
    [] use = "enable" -> [old EXCEPT !.out = TRUE, !.value = 1]

-----------------------------------------------------------------------------
(* Orazio_jointsInit *)

Busy == step >= 0 /\ ~null
Idle == step < 0 /\ ~null

Begin == bridge' = Left /\ step' = 0 /\ crossed' = FALSE /\ refused' = FALSE
Return(r) == result' = r /\ step' = -1 /\ starting' = FALSE /\ bridge' = bridge

\* A byte of the other bridge, and one that the new type takes for its own
\* direction pin until it has claimed another.
Foreign(p) == \E other \in Motors \ {bridge}, i \in 1 .. 3 : p = params[other][i]
Stale(p) == h_bridge[bridge].type = "PWMDir" /\ p = params[bridge][2]

\* The controller is cleared and gets its pointers (Firmware has the tick that
\* comes in between), then the bridge is released by the operations of its old
\* type and gets those of the new one.
Reinit ==
  /\ Busy /\ step = 0
  /\ controllers' = [controllers EXCEPT ![bridge] = TRUE]
  /\ outputs' = [outputs EXCEPT ![bridge] = 0]
  /\ IF h_bridge[bridge].type \notin BridgeTypes
       THEN Return("UnknownType") /\ UNCHANGED <<ops, pin, crossed>>
       ELSE /\ pin' = IF ops[bridge] = "none" THEN pin ELSE Release(ops[bridge], params[bridge])
            /\ crossed' = (crossed \/ \E p \in IoPins : pin[p].out /\ Foreign(p)
                                    /\ (~pin'[p].out \/ Stale(p)))
            /\ ops' = [ops EXCEPT ![bridge] = h_bridge[bridge].type]
            /\ step' = 1
            /\ UNCHANGED <<result, starting, bridge>>
  /\ UNCHANGED <<h_bridge, saved, params, refused, null, requests>>

\* The pins of the new type, one after the other.  A pin that is not there is
\* replaced in joint_params by what is in its byte, and the initialization of
\* all joints ends, but for the second pin of DualPWM (line 128).
Claim ==
  /\ Busy /\ step > 0 /\ step <= Len(Claims(ops[bridge]))
  /\ LET c == Claims(ops[bridge])[step]
         p == h_bridge[bridge].pins[c.byte]
     IN  IF Unused(c.use, p) \/ Available(c.use, p)
           THEN /\ pin' = IF Unused(c.use, p) THEN pin
                          ELSE [pin EXCEPT ![p] = InUse(c.use, @)]
                /\ params' = [params EXCEPT ![bridge][c.byte] = p]
                /\ step' = step + 1
                /\ UNCHANGED <<h_bridge, result, starting, bridge, refused>>
           ELSE /\ h_bridge' = [h_bridge EXCEPT ![bridge].pins[c.byte] = params[bridge][c.byte]]
                /\ IF c.use = "second"
                     THEN step' = step + 1 /\ refused' = TRUE
                          /\ UNCHANGED <<result, starting, bridge>>
                     ELSE Return("WrongPins") /\ UNCHANGED refused
                /\ UNCHANGED <<pin, params>>
  /\ UNCHANGED <<saved, ops, controllers, outputs, crossed, null, requests>>

\* A bridge is ready: the next joint, or the end.
NextJoint ==
  /\ Busy /\ step > 0 /\ step > Len(Claims(ops[bridge]))
  /\ IF bridge = Left THEN bridge' = Right /\ step' = 0 /\ UNCHANGED <<result, starting>>
                     ELSE Return("Success")
  /\ UNCHANGED <<h_bridge, saved, ops, params, pin, controllers, outputs, crossed, refused,
                 null, requests>>

-----------------------------------------------------------------------------
(* The timer interrupt *)

Duty(speed) == IF speed = 0 THEN 0 ELSE 100

\* Mutant of SetSpeed: the second pin keeps its duty cycle.
SetSpeedOneSided(registers, j, speed) ==
  [p \in IoPins |->
     IF p \notin PwmPins \/ ops[j] = "none" THEN registers[p]
     ELSE IF p = params[j][IF ops[j] = "DualPWM" /\ speed < 0 THEN 2 ELSE 1]
       THEN [registers[p] EXCEPT !.duty = IF ops[j] = "HalfPWM" THEN 127 + 50 * speed
                                          ELSE Duty(speed)]
     ELSE registers[p]]

\* HBridge_setSpeed, with the bytes of the union as they are
SetSpeed(registers, j, speed) ==
  LET bytes == params[j]
      Write(regs, p, d) == IF p \in PwmPins THEN [regs EXCEPT ![p].duty = d] ELSE regs
      Dir(regs, p) ==
        IF p \in IoPins THEN [regs EXCEPT ![p].value = IF speed < 0 THEN 1 ELSE 0] ELSE regs
  IN  CASE ops[j] = "none" -> registers
        [] ops[j] = "PWMDir" -> Write(Dir(registers, bytes[2]), bytes[1], Duty(speed))
        [] ops[j] = "DualPWM" ->
             Write(Write(registers, bytes[1], IF speed < 0 THEN 0 ELSE Duty(speed)),
                   bytes[2], IF speed < 0 THEN Duty(speed) ELSE 0)
        [] ops[j] = "HalfPWM" -> Write(registers, bytes[1], 127 + 50 * speed)

\* Orazio_jointsHandle: whatever the controllers' outputs are.
BridgeTick ==
  /\ ~starting /\ ~null
  /\ null' = \E j \in Motors : ~controllers[j]
  /\ outputs' \in [Motors -> Outputs]
  /\ pin' = IF null' THEN pin
            ELSE SetSpeed(SetSpeed(pin, Left, outputs'[Left]), Right, outputs'[Right])
  /\ UNCHANGED <<h_bridge, saved, ops, params, controllers, bridge, step, result, starting,
                 crossed, refused, requests>>

-----------------------------------------------------------------------------
(* The host *)

\* A packet with joint parameters: copied, then post_copy_fn.
SetJointParams ==
  /\ Idle /\ requests < MaxRequests
  /\ \E j \in Motors, r \in Requests : h_bridge' = [h_bridge EXCEPT ![j] = r]
  /\ requests' = requests + 1
  /\ Begin
  /\ UNCHANGED <<saved, ops, params, pin, controllers, outputs, result, starting, null>>

LoadJointParams ==
  /\ Idle
  /\ \E j \in Motors : h_bridge' = [h_bridge EXCEPT ![j] = saved[j]]
  /\ Begin
  /\ UNCHANGED <<saved, ops, params, pin, controllers, outputs, result, starting, null, requests>>

SaveJointParams ==
  /\ Idle
  /\ \E j \in Motors : saved' = [saved EXCEPT ![j] = h_bridge[j]]
  /\ UNCHANGED <<h_bridge, ops, params, pin, controllers, outputs, bridge, step, result,
                 starting, crossed, refused, null, requests>>

\* Only the EEPROM outlives the power.
SwitchOn ==
  /\ UNCHANGED <<saved, requests>>
  /\ h_bridge' = saved
  /\ ops' = [j \in Motors |-> "none"] /\ params' = [j \in Motors |-> <<0, 0, 0>>]
  /\ pin' = [p \in IoPins |-> PulledUp]
  /\ controllers' = [j \in Motors |-> FALSE] /\ outputs' = [j \in Motors |-> 0]
  /\ result' = "none" /\ starting' = TRUE /\ null' = FALSE
  /\ Begin

BridgeNext == Reinit \/ Claim \/ NextJoint \/ BridgeTick
              \/ SetJointParams \/ LoadJointParams \/ SaveJointParams \/ SwitchOn

BridgeSpec == BridgeInit /\ [][BridgeNext]_bridgeVars

-----------------------------------------------------------------------------
(* Properties *)

BridgeTypeOK ==
  /\ h_bridge \in [Motors -> [type : BridgeTypes \cup {"unknown"}, pins : Int \X Int \X Int]]
  /\ saved \in [Motors -> [type : BridgeTypes \cup {"unknown"}, pins : Int \X Int \X Int]]
  /\ ops \in [Motors -> BridgeTypes \cup {"none"}] /\ params \in [Motors -> Int \X Int \X Int]
  /\ pin \in [IoPins -> [pwm : BOOLEAN, out : BOOLEAN, value : 0 .. 1, duty : 0 .. 255]]
  /\ controllers \in [Motors -> BOOLEAN] /\ outputs \in [Motors -> -1 .. 1]
  /\ bridge \in Motors /\ step \in -1 .. 4
  /\ result \in {"none", "Success", "WrongPins", "UnknownType"}
  /\ {starting, crossed, refused, null} \subseteq BOOLEAN /\ requests \in 0 .. MaxRequests

\* Whatever types and pins, wrong ones included, were set before: when the
\* initialization is over, a pin with PWM is one that its bridge knows, and
\* would release.  None stays driven with nobody to stop it.
NothingLeftDriven ==
  Idle => \A p \in IoPins : pin[p].pwm =>
            \E j \in Motors : ops[j] # "none" /\ p \in Named(params[j], PwmBytes(ops[j]))

\* The motor on the pins of r turns as the sign s says.
Turns(r, s) ==
  LET Pwm(i, d) == LET q == pin[r.pins[i]] IN q.pwm /\ q.out /\ q.duty = d
      Level(i, v) == LET q == pin[r.pins[i]] IN q.out /\ q.value = v
  IN  CASE r.type = "PWMDir" -> /\ Pwm(1, Duty(s)) /\ Level(2, IF s < 0 THEN 1 ELSE 0)
                                /\ r.pins[3] >= 0 => Level(3, 0)
        [] r.type = "DualPWM" -> /\ Pwm(1, IF s < 0 THEN 0 ELSE Duty(s))
                                 /\ Pwm(2, IF s < 0 THEN Duty(s) ELSE 0)
        [] r.type = "HalfPWM" -> /\ Pwm(1, 127 + 50 * s)
                                 /\ r.pins[2] >= 0 => Level(2, 1)

\* The pins a joint's parameters name; those below 0 are disabled
PinsOf(r) == {r.pins[i] : i \in (IF r.type = "PWMDir" THEN 1 .. 3 ELSE 1 .. 2)} \cap Nat
Separate(a, b) ==
  /\ \A r \in {a, b} : \A i, k \in 1 .. (IF r.type = "PWMDir" THEN 3 ELSE 2) :
       r.pins[i] = r.pins[k] => i = k
  /\ PinsOf(a) \cap PinsOf(b) = {}

InitSucceeded == Idle /\ result = "Success" /\ Separate(h_bridge[Left], h_bridge[Right])

\* orazio_hbridge_internal.h:37, "returns 0 on success, <0 on failure", and
\* orazio_joints.c:43, "apply the control to each joint": after Success each
\* tick turns the motors, on the pins their parameters name, as it should.
SuccessMeansControl ==
  [][InitSucceeded /\ BridgeTick => \A j \in Motors : Turns(h_bridge[j], outputs[j])']_bridgeVars

\* So it is, whatever went wrong before, unless DualPWM's second pin was
\* refused or joint 1 has released pins that joint 0 had crossed from it, or
\* had one of them in the byte a tick takes for its direction pin.
ControlReachesMotors ==
  [][InitSucceeded /\ ~crossed /\ ~refused /\ BridgeTick
       => \A j \in Motors : Turns(h_bridge[j], outputs[j])']_bridgeVars
=============================================================================
