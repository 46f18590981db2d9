CONSTANTS
  WarmUp = 10
  MaxCaptured = 2
SPECIFICATION CameraSpec
INVARIANT FirstImageIsFrame
CHECK_DEADLOCK FALSE
