CONSTANTS
  Drivers = {d1}
  NSteps = 3
  SyncStore = TRUE
  MaxRequests = 7
  MaxCrashes = 0
SPECIFICATION Spec
INVARIANTS CompletedIsSettled HaltedIsSkipped
PROPERTIES  StepsStartInOrder
CHECK_DEADLOCK FALSE
