SPECIFICATION FairSpec
CONSTANTS
    Streams = {s1, s2}
    MaxChanges = 3
INVARIANTS
    TypeOK
    SendNeverBlocks
    FreshestNotDropped
    NoLostUpdate
PROPERTIES
    ImplementsFeed
    Converges
    StopEndsHandlers
