\* Two processes on one cache file, cold, old or warm at the start.
SPECIFICATION Spec
CONSTANTS
    p1 = p1
    p2 = p2
    k1 = k1
    Procs <- TwoProcs
    Keys <- OneKey
    NoQuery = k1
    Period <- MCPeriod
    MaxFetch = 1
    MaxTime = 3
    MaxOps = 2
    MaxInode = 3
CHECK_DEADLOCK FALSE
INVARIANTS
    HitAgeBounded
    SharedIsUsable
    WarmCacheIsSafe
