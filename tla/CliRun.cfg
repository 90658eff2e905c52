SPECIFICATION Spec
CONSTANTS
  r1 = r1
  r2 = r2
  Runs = {r1, r2}
  Invocations <- MCInvocations
  Links <- MCLinks
  Clusters <- MCClusters
  MaxEnvOps = 2
  MaxFaults = 1
INVARIANTS
  ExitZeroIsTruthful
  PostsLandOnce
  FailedTopicHasNoDependents
PROPERTIES
  WritesMeetTheRules
CHECK_DEADLOCK FALSE
