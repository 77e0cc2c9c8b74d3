CONSTANTS
    c1 = c1
    c2 = c2
    c3 = c3
    Callers <- MCCallers
    MaxConcurrency = 2
    MaxRetries = 1
    Threshold = 2
    Revisions = {1, 2}
    DimensionOf <- MCDimensions
    Weights <- MCWeights
    Before <- MCBefore
    Sources <- MCSources
    Model = "model"
    OtherModel = "other"
    Revision = "v1"
    Digest = None
    Dimension = 12
    Versions <- MCVersions
    RevisionOf <- MCRevisionOf
    Settings <- MCSettings
    Supplied <- MCSupplied
    Records <- MCRecords
    r1 = r1
    r2 = r2
    BatchSize = 1
    RecursionLimit = 2
    None = None
    Torn = Torn
    Part = "v"
    Unlisted = Unlisted
    Unchecked = Unchecked
    MaxInstalls = 1
    MaxWrites = 1
    MaxFaults = 1
    MaxEvents = 2
CONSTRAINT FewRaces
SPECIFICATION ModelsSpec
INVARIANTS
    TypeOK
    BreakerAgrees
    FailuresBounded
PROPERTIES
    Recovers
    LocalIsReembedded
