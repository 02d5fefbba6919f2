SPECIFICATION FairSpec
CONSTANTS
    Evaluators = {e1}
    For = 1
    SyncStore = FALSE
    Edits = {"disable", "enable", "edit", "delete"}
    MaxEdits = 2
    MaxFirings = 3
    MaxFaults = 1
INVARIANTS
    EveryFiringAnnounced
PROPERTY StateFollowsSignal
