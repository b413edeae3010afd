SPECIFICATION OfferFairSpec
CONSTANTS
    PFs = {p1, p2}
    Modes = {0, 1}
    MaxVFs = 1
    MaxChanges = 1
    MaxErrors = 2
    MaxDisturbances = 2
    LogLevelEnv = {"loud", "warning"}
INVARIANTS
    OfferTypeOK
    PluginsHoldScan
    NoDoubleCount
    LogTellsInventory
PROPERTIES
    FaultsAlerted
    ViewSettles
