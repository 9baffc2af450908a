CONSTANTS
    None = None
    Kinds <- MCKinds
    Levels <- MCLevels
    Names = {n1, n2}
    NoisePages = 1
    FewPages = 2
    Jobs <- MCJobs
    OverLimit = 2
    ZeroGuard = 1
    ResetMax = 2
    Band = 0
    TolMax = 1
    MaxCtr = 4
    MaxFaults = 2
SPECIFICATION Spec
SYMMETRY Symmetric
INVARIANTS
    NoFalseAlarm
    NoChipTakenOver
    
