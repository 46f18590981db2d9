CONSTANTS
  drive = drive
  joints = joints
  ParamTypes <- MCParamTypes
  CommandsOf <- MCCommandsOf
  Cycles = 1
  MaxCommands = 3
SPECIFICATION ShellFairSpec
PROPERTIES
  OperationsAnswered
  EditsKept
  CommandsReturn
CHECK_DEADLOCK FALSE
