------------------------------- MODULE MCParts -------------------------------
(***************************************************************************)
(* Parts of both programs that share no state here and need no fairness,   *)
(* for TLC.  A behaviour runs one of them, `part', and leaves the others   *)
(* as they were: their states are checked one after the other.             *)
(*                                                                         *)
(* Queue: two producers and two distinguishable items; five nodes let it   *)
(* empty and fill again more than once.  Ring: five bytes and frames of    *)
(* two and three, so the indices wrap inside a frame and each frame can be *)
(* refused.  Receiver: bytes of four bits, with 1010 for AA and 0101 for   *)
(* 55; some packets have payloads and checksums that look like these, and  *)
(* one has the other type in its size and that type's size after it.       *)
(* Deferred packets: two types of two buffers each and room for three      *)
(* pending: each ring can fill while pending has room, and pending while a *)
(* ring has.                                                               *)
(*                                                                         *)
(* Encoder: counters of 64 values, two bytes of eight; one wheel starts on *)
(* phase 2 or 3 and turns a quarter each way, across 0, the other one      *)
(* stands; a wheel turns one quarter between two readings, and an          *)
(* interrupt is late once, by two quarters; after that main does not read  *)
(* the positions, of which nothing is claimed then.  Controller: default   *)
(* parameters of orazio_globals.c but for a dead zone; speeds within       *)
(* max_speed and the smallest there is, measurements on both sides of      *)
(* them and far away.                                                      *)
(* Bridges: two changes of the parameters to and from each type, with pins *)
(* of the same joint, of the other one, and with pins that do not exist.   *)
(***************************************************************************)
EXTENDS LinkedQueue, TxRing, PacketReceiver, DeferredPackets, Encoder, JointController,
        HBridge, Bitwise

CONSTANTS main, camera, a, b, driveControl, jointControl

MCProducers == {main, camera}
MCItems == {a, b}

MCBytes == 0 .. 2
MCFrames == {<<1, 2>>, <<1, 0, 2>>, <<2, 2, 1>>}

MCLineBytes == 0 .. 15
MCXor(m, n) == m ^^ n
MCSize == [t \in {1, 3} |-> IF t = 1 THEN 3 ELSE 4]
MCPacket(payload) ==
  IF Len(payload) = 1 THEN <<1, 3>> \o payload ELSE <<3, 4>> \o payload
MCSendable == {MCPacket(<<m>>) : m \in {4, 5, 8, 10}} \cup {MCPacket(<<m, 5>>) : m \in {1, 5, 10}}

MCTypes == {driveControl, jointControl}

MCPhases == [e \in Encoders |-> IF e \in Moving THEN {2, 3} ELSE {0}]

MCSpeeds == {-32768, 95}
MCMeasured == {-105, 91, 2000}

MCIoPins == {0, 2, 3, 4, 5, 10}
MCPwmPins == {2, 3, 5, 10}
Bridge(t, p, q, r) == [type |-> t, pins |-> <<p, q, r>>]
MCDefaults == <<Bridge("DualPWM", 2, 3, -1), Bridge("DualPWM", 5, 10, -1)>>
MCRequests ==
  {Bridge("DualPWM", 2, 3, -1), Bridge("DualPWM", 5, 10, -1), Bridge("DualPWM", 2, 99, -1),
   Bridge("PWMDir", 2, 4, 3), Bridge("PWMDir", 3, 4, 99), Bridge("PWMDir", 99, 3, -1),
   Bridge("HalfPWM", 2, 4, -1), Bridge("HalfPWM", 3, 99, -1),
   Bridge("unknown", 2, 3, 4)}
MCOutputs == {-1, 1}

VARIABLE part

packetVars == <<linkedVars, ringVars, receiverVars, deferredVars>>
wheelVars == <<encoderVars, jointVars, bridgeVars>>
vars == <<part, packetVars, wheelVars>>

Init ==
  /\ part \in {"queue", "ring", "receiver", "deferred", "encoder", "controller", "bridge"}
  /\ LinkedInit /\ RingInit /\ ReceiverInit /\ DeferredInit
  /\ EncoderInit /\ JointInit /\ BridgeInit
  /\ part # "encoder" => phase[left] = 2

\* The bounds on frames and faults are used up.
LineIsQuiet ==
  part = "receiver" /\ wire = <<>> /\ Len(sent) = MaxFrames /\ UNCHANGED vars

Next ==
  \/ /\ UNCHANGED <<part, wheelVars>>
     /\ \/ part = "queue" /\ LinkedNext /\ UNCHANGED <<ringVars, receiverVars, deferredVars>>
        \/ part = "ring" /\ RingNext /\ UNCHANGED <<linkedVars, receiverVars, deferredVars>>
        \/ part = "receiver" /\ ReceiverNext /\ UNCHANGED <<linkedVars, ringVars, deferredVars>>
        \/ part = "deferred" /\ DeferredNext /\ UNCHANGED <<linkedVars, ringVars, receiverVars>>
  \/ /\ UNCHANGED <<part, packetVars>>
     /\ \/ /\ part = "encoder" /\ EncoderNext /\ UNCHANGED <<jointVars, bridgeVars>>
           /\ late > 0 => UNCHANGED drive
        \/ part = "controller" /\ JointNext /\ UNCHANGED <<encoderVars, bridgeVars>>
        \/ part = "bridge" /\ BridgeNext /\ UNCHANGED <<encoderVars, jointVars>>
  \/ LineIsQuiet

Spec == Init /\ [][Next]_vars
=============================================================================
