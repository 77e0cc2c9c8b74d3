CONSTANTS
    t1 = t1
    t2 = t2
    t3 = t3
    Callers <- MCCallers
    Closers <- MCClosers
    NoHandle = NoHandle
    Failures = TRUE
    ApiModes = {TRUE, FALSE}
    MaxHandles = 3
    MaxClients = 2
    Defaults <- MCDefaults
    PathSettings <- MCPathSettings
    SecretPaths <- MCSecretPaths
    Renamed <- MCRenamed
    YamlFiles <- MCYamlFiles
    EnvFiles <- MCEnvFiles
    Environments <- MCEnvironments
    Overrides <- MCOverrides
SPECIFICATION ServiceSpec
CONSTRAINT Uncrossed
SYMMETRY Symmetry
INVARIANTS
    TypeOK
    WorksOnOpenDatabase
    DownIsReleased
    OpenIsLocked
    LaterSourcesWin
    NothingLeftToMigrate
