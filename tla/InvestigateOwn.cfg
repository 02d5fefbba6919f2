CONSTANTS
    p1 = p1
    p2 = p2
    r1 = r1
    r2 = r2
    Procs = {p1, p2}
    Rules = {r1, r2}
    MaxEvents = 2
    StreamMaxLen = 1
    Count = 2
    Cooldown = 1
    Limits <- MCLimits
SPECIFICATION Spec
INVARIANTS FinalizesOwn
CHECK_DEADLOCK FALSE
