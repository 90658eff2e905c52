SPECIFICATION Spec
CONSTANTS
  s1 = s1
  s2 = s2
  k1 = k1
  Subjects <- MCSubjects
  ScopeKeys <- MCScopeKeys
  ScopeKeyOf <- MCScopeKeyOf
  MaxItems = 3
INVARIANTS
  TypeOK
  NoConflictSurvives
  RejectedHasAcceptedRival
  MergeIsOrderFree
  ScopeVeto
  WalkComputesView
CHECK_DEADLOCK FALSE
