SPECIFICATION LeaseSpec
CONSTANTS
    Replicas = {r1, r2}
    NoReplica = NoReplica
    Ttl = 2
    MaxLag = 1
    MaxCalls = 2
    MaxRefreshes = 1
    MaxToggles = 0
    MaxLeaseFaults = 1
    Prompt = TRUE
SYMMETRY ReplicaSymmetry
INVARIANTS
    SoleEvaluator
