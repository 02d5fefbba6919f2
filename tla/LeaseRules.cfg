SPECIFICATION FairLeaseSpec
CONSTANTS
    Replicas = {r1}
    NoReplica = NoReplica
    Ttl = 1
    MaxLag = 1
    MaxCalls = 2
    MaxRefreshes = 2
    MaxToggles = 3
    MaxLeaseFaults = 1
    Prompt = FALSE
PROPERTIES
    DisabledIsUnscheduled
