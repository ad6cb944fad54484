CONSTANTS
    c1 = c1
    c2 = c2
    Clients <- MCClients
    Keys <- MCKeys
    Names <- MCNames
    Types <- MCTypes
    Filters <- MCFilters
    Disks <- MCDisks
    MaxCursors = 4
    MaxChanges = 1
    MaxExpiries = 1
    Iterations <- MCIterations
    Patterns <- MCPatterns
    Words <- MCWords
    NoPattern = NoPattern
    AnyType = AnyType
    MaxStars = 3
SPECIFICATION Spec
INVARIANTS CursorTable ScanComplete RepeatsOnlyAfterRestart GlobCorrect
PROPERTY ScanEnds
CHECK_DEADLOCK FALSE
