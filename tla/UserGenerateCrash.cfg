SPECIFICATION FairSpec
CONSTANTS
  sha256 = sha256
  sha512 = sha512
  NoMechanism = NoMechanism
  Sources = {"generate"}
  SourceFlips = FALSE
  Mechanisms = {sha512}
  Iterations = {0}
  BrokerDefault = 1
  MaxUserOps = 1
  MaxFaults = 1
PROPERTIES
  StoredPasswordIsApplied
