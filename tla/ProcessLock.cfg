CONSTANTS
    p1 = p1
    p2 = p2
    p3 = p3
    Procs <- MCProcs
    Operators <- MCOperators
    NoFile = NoFile
    StartTimes = TRUE
    MaxCrashes <- MCCrashes
    Slots = {1, 2}
    LastFile = 2
    Requests <- MCRequests
    Torn = Torn
    NoTemp = NoTemp
    MaxFaults = 1
    Supported = 1
    Expected = 1
    Dimension = 3
    Legacy <- MCLegacy
    Absent = Absent
    Partial = Partial
    MaxInterrupts = 2
SPECIFICATION DatabaseSpec
INVARIANTS
    TypeOK
    ExclusiveUnlessRaced
    BackedUp
    ServedIsUpToDate
PROPERTIES
    LiveLockKept
    StaleLockCleared
    ImplementsDelivery
    FoldersAreIngested
    UpgradesStartAgain
