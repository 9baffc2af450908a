\* Printers removed, added and replaced while polls run.
CONSTANTS
    None = None
    Ips = {"p1"}
    Devices = {"old", "new"}
    GraceCycles = 2
    SilentIsSlow = TRUE
    FirstCounter <- MCFirstCounter
    MaxPages = 0
    MaxFlaps = 0
    MaxLosses = 0
    MaxLate = 1
    MaxRequests = 3
    MaxSwaps = 1
    MaxRestarts = 0
SPECIFICATION Spec
INVARIANTS
    TypeOK
    
    
    RemovalForgets
