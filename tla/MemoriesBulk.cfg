CONSTANTS
    c1 = c1
    c2 = c2
    m1 = m1
    m2 = m2
    Clients <- MCClients
    Ids <- MCIds
    Scopes <- MCScopes
    Payloads <- MCPayloads
    Patches <- MCPatches
    Unused = Unused
    Gone = Gone
    Nobody = Nobody
    MaxVersion = 2
    LineKinds <- MCKinds
    MaxLines = 4
    ChunkSettings <- MCChunkSettings
    LastId = 4
    Libraries <- MCLibraries
    LinkSets <- MCLinkSets
    CandidateLimit = 3
    TopN = 3
    RrfK = 2
    ResultLimit = 3
    Expansion = {TRUE, FALSE}
    MaxSearches = 1
    MaxChanges = 2
    LastCandidate = 3
    Profiles <- MCProfiles
    RerankScores = {0, 1}
    RerankTop = 2
    Unit = 2
    WeightMaps <- MCWeightMaps
    NoScore = NoScore
    Held = {1, 2}
    Descriptions <- MCDescriptions
    MemoryTypes <- MCTypes
    NamesLimit = 1
    Requests <- MCRequests
    ReportChanges = 2
SPECIFICATION ContentSpec
SYMMETRY Symmetry
INVARIANTS
    TypeOK
    SupersededIsLinked
    NothingIsLost
    ChunksAreBounded
    PathsAreAncestors
    ResultsWereVisible
    OneResultPerKey
    SearchIsComplete
    EvidenceCounts
    InventoryIsCurrent
PROPERTIES
    HardDeleteIsFinal
