----------------------------- MODULE MCFirmware -----------------------------
(***************************************************************************)
(* Instances of Firmware for TLC, with the sizes of orazio_packets.h: each *)
(* packet and the four bytes of its frame.                                 *)
(***************************************************************************)
EXTENDS Firmware

MCBytes ==
  [p \in Answer |->
     CASE p = "response" -> 11 [] p = "systemParam" -> 27 [] p = "driveParam" -> 41
       [] p = "jointParam" -> 28 [] p = "systemStatus" -> 30 [] p = "jointStatus" -> 19
       [] p = "driveStatus" -> 44 [] p = "sonar" -> 23 [] p = "message" -> 87
       [] p = "end" -> 7]

MCAll == Kinds
=============================================================================
