CONSTANTS
  main = main
  camera = camera
  a = a
  b = b
  Producers <- MCProducers
  Items <- MCItems
  NoItem = NoItem
  MaxNodes = 5
  PACKET_SIZE_MAX = 5
  Bytes <- MCBytes
  Frames <- MCFrames
  driveControl = driveControl
  jointControl = jointControl
  Types <- MCTypes
  PacketBuffersMax = 2
  PENDING_PACKETS_MAX = 3
  Partial = Partial
  MaxPackets = 5
  LineBytes <- MCLineBytes
  XorBytes <- MCXor
  AA = 10
  FIVE = 5
  PACKET_TYPE_MAX = 4
  Size <- MCSize
  Sendable <- MCSendable
  MaxFrames = 3
  MaxFaults = 1
  left = left
  right = right
  Byte = 8
  Phases <- MCPhases
  MaxLag = 2
  MaxLate = 1
  Span = 1
  Moving = {left}
  Reach = 1
  kp = 255
  ki = 32
  kd = 0
  max_i = 255
  min_pwm = 20
  max_pwm = 255
  max_speed = 100
  slope = 10
  Speeds <- MCSpeeds
  Measured <- MCMeasured
  IoPins <- MCIoPins
  PwmPins <- MCPwmPins
  Requests <- MCRequests
  Defaults <- MCDefaults
  Outputs <- MCOutputs
  MaxRequests = 2
SPECIFICATION Spec
INVARIANTS
  ExactOrNoticed
  TwoLostPerFault
  AssertionsHold
  CountsTurns
  OdometryCatchesUp
  NothingLeftDriven
PROPERTIES
  LinkedImplementsQueue
  ImplementsPipe
  ImplementsQueue
  NothingWraps
  ControlReachesMotors
