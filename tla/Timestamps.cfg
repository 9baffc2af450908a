SPECIFICATION Spec
CONSTANTS
    Rows = {1, 2}
    Meta = 0
    Tables = {"logs", "meta"}
    TableOf <- MCTableOf
    Summer = 2
    Winter = 1
    DstEnd = 1
    Commit = 3
    Fixed = 4
    Standard = 5
    End = 5
    Runs = 2
    Marks = 1
    Faults = 1
    None = None
INVARIANTS
    InstantPreserved
    ZeroMeansConverted
PROPERTIES
    ConvertedOnce
CHECK_DEADLOCK FALSE
