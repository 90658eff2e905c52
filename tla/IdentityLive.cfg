SPECIFICATION FairSpec
CONSTANTS
  a = a
  b = b
  Nobody = Nobody
  Kinds = {"KafkaTopic", "KafkaUser"}
  CRs = {a, b}
  NameRank <- MCNameRank
  Policies = {"Delete"}
  MaxUserOps = 1
  MaxFaults = 1
INVARIANTS
  ReadyHasBrokerState
PROPERTIES
  CleanupSparesClaimants
  SettlesOnOldest
CHECK_DEADLOCK FALSE
