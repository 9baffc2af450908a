\* Lost answers, unreachable devices, late threads and a restart.
CONSTANTS
    None = None
    Ips = {"p1"}
    Devices = {"old"}
    GraceCycles = 2
    SilentIsSlow = FALSE
    FirstCounter <- MCFirstCounter
    MaxPages = 1
    MaxFlaps = 1
    MaxLosses = 1
    MaxLate = 1
    MaxRequests = 1
    MaxSwaps = 0
    MaxRestarts = 1
SPECIFICATION LiveSpec
PROPERTIES
    ReportedOfflineAfterGrace
    DashboardFollowsDevice
    
