CONSTANTS
    w1 = w1
    w2 = w2
    Workers <- MCWorkers
    Documents <- Prefixed
    Patterns <- NoPatterns
    Ids <- MCIds
    BatchSize = 2
    IncludeHeadings = TRUE
    HardRemove = FALSE
    Unused = Unused
    Gone = Gone
    None = None
SPECIFICATION Spec
SYMMETRY Symmetry
INVARIANT ContextSurrounds
