\* One command goroutine and the reconcile goroutine, durations 0 and 1, two failures or kills.
CONSTANTS
    cmd1 = cmd1
    reconcile = reconcile
    Handlers <- MCHandlers
    Reconciler = reconcile
    EnableXDP = TRUE
    LittleEndian = TRUE
    MaxDuration = 1
    MaxFails = 2
SPECIFICATION FairSpec
INVARIANTS AloneTrackedIsBlocked AloneWhitelistTakesEffect
PROPERTY ListedIsBlocked
