------------------------------- MODULE Camera -------------------------------
(***************************************************************************)
(* webcam_manager.h under getpictureThread of orazio_logger.c: the camera  *)
(* is opened with O_NONBLOCK and has one buffer, which the driver and the  *)
(* thread hand to each other.  camera_frame takes the buffer if a frame is *)
(* in it, copies it and gives it back; its result is ignored, so when      *)
(* there is none the thread saves what it copied before.                   *)
(*                                                                         *)
(* Frames are numbered as the sensor makes them; a copy of one is the pair *)
(* of its halves, both numbers equal when it is whole.  The driver is      *)
(* external.  How the thread hands an image to the logger is in Logger.    *)
(***************************************************************************)
EXTENDS Naturals

CONSTANTS WarmUp,          \* camera_frame calls before the loop, 10 in the code
          MaxCaptured      \* bound: frames of the sensor

ASSUME CameraAssumption == WarmUp \in Nat /\ MaxCaptured \in Nat

VARIABLES captured,        \* frames the sensor has begun
          owner,           \* who has the buffer, or that a frame is ready in it
          buffer, frame,   \* the driver's buffer, camera->frame.start
          camAt, warm,     \* the thread's next step; camera_frame calls still to make
          modeStop,        \* mode is Stop
          since            \* frames begun when the buffer was last given back

cameraVars == <<captured, owner, buffer, frame, camAt, warm, modeStop, since>>

NoFrame == <<0, 0>>        \* what malloc or mmap returned: no frame

\* camera_open and camera_init: the buffer is queued and the stream on.
CameraInit ==
  /\ captured = 0 /\ owner = "driver" /\ buffer = NoFrame /\ frame = NoFrame
  /\ camAt = "dequeue" /\ warm = WarmUp /\ modeStop = FALSE
  /\ since = 0

\* The driver begins the next frame, in the buffer if it has it, and ends it.
BeginFrame ==
  /\ captured < MaxCaptured
  /\ captured' = captured + 1
  /\ IF owner = "driver"
       THEN owner' = "filling" /\ buffer' = [buffer EXCEPT ![1] = captured']
       ELSE owner # "filling" /\ UNCHANGED <<owner, buffer>>
  /\ UNCHANGED <<frame, camAt, warm, modeStop, since>>

EndFrame ==
  /\ owner = "filling"
  /\ owner' = "ready" /\ buffer' = [buffer EXCEPT ![2] = buffer[1]]
  /\ UNCHANGED <<captured, frame, camAt, warm, modeStop, since>>

\* The return of camera_frame: to the next of the first calls, to the test of the loop,
\* or to the image that is saved
Returned ==
  \/ warm > 1 /\ camAt' = "dequeue" /\ warm' = warm - 1
  \/ warm = 1 /\ camAt' = "test" /\ warm' = 0
  \/ warm = 0 /\ camAt' = "save" /\ warm' = 0

\* Mutant of Dequeue: the result of VIDIOC_DQBUF is not looked at.
DequeueAnyway ==
  /\ camAt = "dequeue"
  /\ camAt' = "copy"
  /\ owner' = IF owner = "ready" THEN "thread" ELSE owner
  /\ UNCHANGED <<warm, captured, buffer, frame, modeStop, since>>

\* VIDIOC_DQBUF fails with EAGAIN while no frame is ready.
Dequeue ==
  /\ camAt = "dequeue"
  /\ IF owner = "ready"
       THEN owner' = "thread" /\ camAt' = "copy" /\ warm' = warm
       ELSE Returned /\ owner' = owner
  /\ UNCHANGED <<captured, buffer, frame, modeStop, since>>

\* memcpy, in two halves
Copy(half) ==
  /\ camAt = (IF half = 1 THEN "copy" ELSE "copyRest")
  /\ frame' = [frame EXCEPT ![half] = buffer[half]]
  /\ camAt' = IF half = 1 THEN "copyRest" ELSE "queue"
  /\ UNCHANGED <<captured, owner, buffer, warm, modeStop, since>>

Queue ==
  /\ camAt = "queue"
  /\ owner' = "driver"
  /\ since' = captured
  /\ Returned
  /\ UNCHANGED <<captured, buffer, frame, modeStop>>

\* yuyv2rgb and jpeg of the frame, to a file named after the timestamp; then the sleep
Save ==
  /\ camAt = "save"
  /\ camAt' = "test"
  /\ UNCHANGED <<captured, owner, buffer, frame, warm, modeStop, since>>

\* while (mode != Stop), and camera_stop after it
TestMode ==
  /\ camAt = "test"
  /\ camAt' = IF modeStop THEN "stopped" ELSE "dequeue"
  /\ UNCHANGED <<captured, owner, buffer, frame, warm, modeStop, since>>

SetStop ==
  /\ ~modeStop /\ modeStop' = TRUE
  /\ UNCHANGED <<captured, owner, buffer, frame, camAt, warm, since>>

CameraNext ==
  \/ BeginFrame \/ EndFrame
  \/ Dequeue \/ (\E half \in {1, 2} : Copy(half)) \/ Queue
  \/ Save \/ TestMode
  \/ SetStop

CameraSpec == CameraInit /\ [][CameraNext]_cameraVars
-----------------------------------------------------------------------------
CameraTypeOK ==
  /\ captured \in 0 .. MaxCaptured /\ since \in 0 .. captured
  /\ owner \in {"driver", "filling", "ready", "thread"}
  /\ buffer \in (0 .. captured) \X (0 .. captured)
  /\ frame \in (0 .. captured) \X (0 .. captured)
  /\ camAt \in {"dequeue", "copy", "copyRest", "queue", "save", "test", "stopped"}
  /\ warm \in 0 .. WarmUp /\ modeStop \in BOOLEAN

\* What is copied is one whole frame, of those the sensor began after the buffer was
\* given back: no image mixes two frames, and none waited in a queue for longer than
\* the thread slept.  (An image is saved again when no new frame is ready.)
WholeFrames ==
  /\ camAt = "queue" => frame[1] > since
  /\ camAt \in {"queue", "save"} => frame[1] = frame[2]

\* "do il tempo alla camera di inizializzarsi", says getpictureThread of its first calls
\* of camera_frame: what is saved after them is a frame of the camera.
FirstImageIsFrame == camAt = "save" => frame # NoFrame
=============================================================================
