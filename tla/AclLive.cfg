SPECIFICATION FairSpec
CONSTANTS
  c1 = c1
  c2 = c2
  s1 = s1
  s2 = s2
  k1 = k1
  NoCR = NoCR
  Subjects <- TwoSubjects
  ScopeKeys <- OneKey
  ScopeKeyOf <- TwoKeyOf
  CRs = {c1, c2}
  Specs <- LifecycleSpecs
  InitialACLs <- UndeclaredOne
  MaxConcurrent = 2
  MaxUserOps = 2
  MaxFaults = 1
CONSTRAINT Situation
PROPERTIES
  EventuallySettled
  NoFlapping
CHECK_DEADLOCK FALSE
