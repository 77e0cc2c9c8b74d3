CONSTANTS
    c1 = c1
    c2 = c2
    m1 = m1
    m2 = m2
    Clients <- MCClients
    Ids <- MCIds
    Scopes <- NoScopes
    Payloads <- MCPayloads
    Patches <- MCPatches
    Unused = Unused
    Gone = Gone
    Nobody = Nobody
    MaxVersion = 3
    Revisions = {1, 2}
    DimensionOf <- MCDimensions
    Weights <- MCWeights
    Before <- MCBefore
    Sources <- MCSources
    Model = "model"
    OtherModel = "other"
    Revision = "v1"
    Digest = None
    Dimension = 12
    Versions <- MCVersions
    RevisionOf <- MCRevisionOf
    Settings <- MCSettings
    Supplied <- MCSupplied
    Records <- MCRecords
    r1 = r1
    r2 = r2
    BatchSize = 1
    RecursionLimit = 2
    None = None
    Torn = Torn
    Part = "v"
    Unlisted = Unlisted
    Unchecked = Unchecked
    MaxInstalls = 1
    MaxWrites = 1
    MaxFaults = 1
    MaxEvents = 3
SPECIFICATION WritesSpec
SYMMETRY WritesSymmetry
INVARIANTS
    ForgottenStaysHidden
    LabelsAreTrue
    OwnEmbeddingFits
PROPERTIES
    VersionGrows
