SPECIFICATION Spec
CONSTANTS
  Offset <- MCOffset
  Kp <- MCKp
  Kd <- MCKd
  Commands <- MCCommands
  Errors <- MCErrors
INVARIANTS
  CommandsReturn
  SimulatorAgrees
  PowerIsPreserved
