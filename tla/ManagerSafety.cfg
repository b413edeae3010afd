SPECIFICATION Spec
CONSTANTS
    Resource = {npu, vf1, vf4}
    Faults = {"crash", "signal", "discover", "remove", "listen", "register", "setup", "overflow", "unwatched"}
    MaxFaults = 2
    MaxRestarts = 2
SYMMETRY ResourceSymmetry
INVARIANTS
    TypeOK
    NoLeakedServer
PROPERTIES
    NeverClobbers
