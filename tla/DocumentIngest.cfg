CONSTANTS
    w1 = w1
    w2 = w2
    Workers <- MCWorkers
    Documents <- MCDocuments
    Patterns <- MCPatterns
    Ids <- MCIds
    BatchSize = 2
    IncludeHeadings = TRUE
    HardRemove = FALSE
    Unused = Unused
    Gone = Gone
    None = None
SPECIFICATION Spec
CONSTRAINT RacesUnredacted
SYMMETRY Symmetry
INVARIANTS
    OneRecordPerKey
    Synchronized
    SkipsUnchanged
PROPERTIES
    StaysVisible
    HardDeleteIsFinal
