------------------------------- MODULE MCDrive ------------------------------
(***************************************************************************)
(* What makes the robot move, for TLC: the drive mailbox of a host's       *)
(* program and the main loop of the firmware; and the camera of the logger.*)
(* They share no state here, so a behaviour runs one of them, `part', and  *)
(* leaves the others as they were: their states are checked one after the  *)
(* other, not in all combinations.                                         *)
(*                                                                         *)
(* Mailbox: one joystick position, which no arrow leads to, and presses    *)
(* enough for each thread to overtake each other one.  Main loop: as in    *)
(* MCFirmware.                                                             *)
(* Camera: two calls of camera_frame before the loop, frames enough for    *)
(* each call to find one or none.                                          *)
(***************************************************************************)
EXTENDS DriveMailbox, MCFirmware, Camera

MCJoyValues == {2}

VARIABLE part
vars == <<part, mailboxVars, firmwareVars, cameraVars>>

Init == /\ part \in {"mailbox", "firmware", "camera"}
        /\ MailboxInit /\ FirmwareInit /\ CameraInit

MailboxRuns(A) == part = "mailbox" /\ A /\ UNCHANGED <<part, firmwareVars, cameraVars>>

Next ==
  \/ MailboxRuns(MailboxNext)
  \/ part = "firmware" /\ FirmwareNext /\ UNCHANGED <<part, mailboxVars, cameraVars>>
  \/ part = "camera" /\ CameraNext /\ UNCHANGED <<part, mailboxVars, firmwareVars>>

Spec == Init /\ [][Next]_vars

\* The fairness of DriveMailbox
FairSpec ==
  /\ Spec
  /\ SF_vars(MailboxRuns(Main))
  /\ SF_vars(MailboxRuns(Store("key") \/ Send("key") \/ KeyReturn))
  /\ WF_vars(MailboxRuns(Store("joy") \/ JoyExit))
-----------------------------------------------------------------------------
\* RequestSent of DriveMailbox, where main runs: requests are taken, and what the
\* threads stored is what was sent but for stores that meet main's send
\* (orazio_logger.c:394-402).
MailboxRequestSent == part = "mailbox" => RequestSent
=============================================================================
