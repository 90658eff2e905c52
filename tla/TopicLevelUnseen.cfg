SPECIFICATION Spec
CONSTANTS
  Specs <- MCHandOver
  Bodies = {"a"}
  LevelsUsed = {}
  MaxEdits = 1
  MaxEnvOps = 0
  MaxFaults = 0
PROPERTIES
  NoUngatedLowering
CHECK_DEADLOCK FALSE
