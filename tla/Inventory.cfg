SPECIFICATION FairSpec
CONSTANTS
    PFs = {p1}
    Modes = {0, 1, 2, 4}
    MaxVFs = 4
    MaxChanges = 2
    MaxErrors = 1
    MaxDisturbances = 2
INVARIANTS
    TypeOK
    UndisturbedScanExact
    ErrorsNeverMisfile
    ErrorsNeverDrain
PROPERTIES
    EventuallyExact
