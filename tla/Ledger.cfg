\* Device and program faults together: reboots, a service reset, failed and zero
\* readings, lost events, a restart and a manual toner reset.
CONSTANTS
    None = None
    ZeroGuard = 2
    ResetMax = 3
    Band = 1
    TolMin = 1
    UptimeMargin = 0
    Limits <- MCLimits
    InitCounters <- MCInitCounters
    MaxUp = 2
    MaxPages = 2
    MaxJob = 2
    MaxReboots = 1
    MaxFactoryResets = 1
    MaxRestarts = 1
    MaxTonerResets = 1
SPECIFICATION Spec
CONSTRAINT OnlyHarmlessCaveats
INVARIANTS
    TypeOK
    
    
    PrintRangesDisjoint
PROPERTIES
    RestoreHidesOnlyTolerance
    
