SPECIFICATION FairSpec
CONSTANTS
  sha256 = sha256
  sha512 = sha512
  NoMechanism = NoMechanism
  Sources = {"generate", "valueFrom"}
  SourceFlips = FALSE
  Mechanisms = {sha256, sha512}
  Iterations = {0, 2}
  BrokerDefault = 1
  MaxUserOps = 2
  MaxFaults = 1
INVARIANTS
  TypeOK
  BrokerPasswordWasStored
  WatermarkTruthful
PROPERTIES
  NeverLockedOut
  ReferencedPasswordConverges
  SteadyStateIsQuiet
