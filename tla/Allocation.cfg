SPECIFICATION FairSpec
CONSTANTS
    Device = {d1, d2}
    Call = {c1, c2}
    MaxContainers = 2
    Path = {p1, p2}
    NoPath = NoPath
    MaxFaults = 1
INVARIANT TypeOK
INVARIANT DedicatedGroups
PROPERTY EveryCallReturns
CHECK_DEADLOCK FALSE
