SPECIFICATION FairSpec
CONSTANTS
    Resource = {npu, vf}
    Faults = {"remove"}
    MaxFaults = 1
    MaxRestarts = 0
PROPERTIES
    EventuallyAdvertised
