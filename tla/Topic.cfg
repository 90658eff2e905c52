SPECIFICATION Spec
CONSTANTS
  Specs <- MCSpecs
  Bodies = {"a", "b"}
  LevelsUsed = {"FULL"}
  MaxEdits = 1
  MaxEnvOps = 1
  MaxFaults = 1
INVARIANTS
  StatusIsTruthful
PROPERTIES
  ImplementsContract
  EventuallySettled
