SPECIFICATION FairSpec
CONSTANTS
    Resource = {npu, vf}
    Faults = {"crash", "signal", "discover", "listen", "register", "setup"}
    MaxFaults = 3
    MaxRestarts = 2
INVARIANTS
    NoSilentLoss
PROPERTIES
    CleanExit
    EventuallyAdvertised
    EventuallyWithdrawn
    ShutdownCompletes
