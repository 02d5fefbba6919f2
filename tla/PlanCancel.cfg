CONSTANTS
  Drivers = {d1}
  NSteps = 2
  SyncStore = TRUE
  MaxRequests = 4
  MaxCrashes = 0
SPECIFICATION Spec
PROPERTIES CancelStopsPendingSteps
CHECK_DEADLOCK FALSE
