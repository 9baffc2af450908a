\* The baseline reaches the counter after a reboot, a restart and failed readings.
CONSTANTS
    None = None
    ZeroGuard = 2
    ResetMax = 3
    Band = 1
    TolMin = 1
    UptimeMargin = 0
    Limits <- MCLimits
    InitCounters <- MCOneCounter
    MaxUp = 2
    MaxPages = 1
    MaxJob = 1
    MaxReboots = 1
    MaxFactoryResets = 0
    MaxRestarts = 1
    MaxTonerResets = 0
SPECIFICATION LiveSpec
PROPERTY LedgerCatchesUp
