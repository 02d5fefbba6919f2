CONSTANTS
    p1 = p1
    p2 = p2
    r1 = r1
    Procs = {p1, p2}
    Rules = {r1}
    MaxEvents = 2
    StreamMaxLen = 1
    Count = 2
    Cooldown = 1
    Limits <- MCLimits
SPECIFICATION FairSpec
INVARIANTS AckedIsFinished LinkedIsSettled CooldownKept
PROPERTIES DeliversAtMostOnce AlertIsSettled
CHECK_DEADLOCK FALSE
