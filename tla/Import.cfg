SPECIFICATION Spec
CONSTANTS
  ConnectingUser = "me"
  Names = {"t", "m", "i"}
  Internal = {"i"}
  Statuses <- MCStatuses
  Imports <- MCImports
INVARIANTS
  ImportRoundTrips
  NothingLostSilently
  MirrorsKeepTheirOwner
CHECK_DEADLOCK FALSE
