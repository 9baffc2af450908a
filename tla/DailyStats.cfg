SPECIFICATION Spec
CONSTANTS
    Days = 3
    Keep = 1
    Batch = 1
    None = None
    Pages = 2
    Rollups = 3
    Purges = 2
    Faults = 1
INVARIANTS
    SettledDayIsExact
    RecentRowsStay
CHECK_DEADLOCK FALSE
