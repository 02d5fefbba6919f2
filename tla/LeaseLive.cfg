SPECIFICATION FairLeaseSpec
CONSTANTS
    Replicas = {r1, r2}
    NoReplica = NoReplica
    Ttl = 1
    MaxLag = 0
    MaxCalls = 1
    MaxRefreshes = 1
    MaxToggles = 0
    MaxLeaseFaults = 1
    Prompt = FALSE
PROPERTIES
    
    TakeOver
    Deposed
