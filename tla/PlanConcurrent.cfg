CONSTANTS
  Drivers = {d1, d2}
  NSteps = 2
  SyncStore = TRUE
  MaxRequests = 4
  MaxCrashes = 0
SPECIFICATION FairSpec
INVARIANTS ExecutingStepOwned NeverStranded
PROPERTIES PlanProgresses StepsEnd
CHECK_DEADLOCK FALSE
