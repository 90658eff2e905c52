SPECIFICATION Spec
CONSTANTS
  c1 = c1
  c2 = c2
  s1 = s1
  s2 = s2
  k1 = k1
  NoCR = NoCR
  Subjects <- TwoSubjects
  ScopeKeys <- OneKey
  ScopeKeyOf <- TwoKeyOf
  CRs = {c1, c2}
  Specs <- SharedSpecs
  InitialACLs <- UndeclaredOne
  MaxConcurrent = 2
  MaxUserOps = 1
  MaxFaults = 1
SYMMETRY MCSymmetry
INVARIANTS
  TypeOK
  SpansExclude
  ReadyMeansGranted
  GranterIsFinalized
PROPERTIES
  VetoRespected
  SharedTupleSurvivesDeletion
CHECK_DEADLOCK FALSE
