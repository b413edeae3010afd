SPECIFICATION OfferSpec
CONSTANTS
    PFs = {p1, p2}
    Modes = {0, 1}
    MaxVFs = 1
    MaxChanges = 1
    MaxErrors = 0
    MaxDisturbances = 1
    LogLevelEnv = {""}
PROPERTIES
    LossAlerted
