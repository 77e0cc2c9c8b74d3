CONSTANTS
    p1 = p1
    p2 = p2
    p3 = p3
    Procs <- MCProcs
    Operators <- NoOperators
    NoFile = NoFile
    StartTimes = TRUE
    MaxCrashes <- MCCrashes
SPECIFICATION Spec
INVARIANT MutualExclusion
