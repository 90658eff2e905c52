SPECIFICATION Spec
CONSTANTS
  a = a
  b = b
  Nobody = Nobody
  Kinds = {"KafkaTopic", "KafkaUser"}
  CRs = {a, b}
  NameRank <- MCNameRank
  Policies = {"Delete", "Orphan", "Unapproved"}
  MaxUserOps = 2
  MaxFaults = 0
INVARIANTS
  YoungerNeverMutates
  ReadyHasBrokerState
PROPERTIES
  CleanupSparesClaimants
CHECK_DEADLOCK FALSE
