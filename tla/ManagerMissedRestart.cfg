SPECIFICATION FairSpec
CONSTANTS
    Resource = {npu, vf}
    Faults = {"unwatched"}
    MaxFaults = 0
    MaxRestarts = 1
PROPERTIES
    EventuallyAdvertised
