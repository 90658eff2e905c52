SPECIFICATION FairSpec
CONSTANTS
  w1 = w1
  w2 = w2
  w3 = w3
  rbac = rbac
  i1 = i1
  NoWorker = NoWorker
  Workers = {w1, w2, w3}
  Clusters = {rbac}
  RBACClusters = {rbac}
  Identities = {i1}
INVARIANTS
  WritersExclude
  WaitChainsEnd
PROPERTIES
  ReconcilesReturn
CHECK_DEADLOCK FALSE
