SPECIFICATION Spec
CONSTANTS
    Evaluators = {e1}
    For = 2
    SyncStore = TRUE
    Edits = {"disable", "enable", "edit", "delete"}
    MaxEdits = 4
    MaxFirings = 3
    MaxFaults = 2
INVARIANTS
    HistoryExplainsState
    
    AnnouncedOnce
 
