CONSTANTS
  Drivers = {d1, d2}
  NSteps = 2
  SyncStore = FALSE
  MaxRequests = 4
  MaxCrashes = 1
SPECIFICATION Spec
INVARIANTS CommandsAuthorised
PROPERTIES ImplementsContract
CHECK_DEADLOCK FALSE
