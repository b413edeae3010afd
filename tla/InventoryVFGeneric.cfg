SPECIFICATION Spec
CONSTANTS
    PFs = {p1}
    Modes = {0, 1}
    MaxVFs = 1
    MaxChanges = 1
    MaxErrors = 0
    MaxDisturbances = 1
INVARIANTS
    VFNeverGeneric
