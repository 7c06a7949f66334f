SPECIFICATION MCSpec
CONSTANTS
    Keys = {1, 2, 3, 4, 5}
    FreeKeys = {1, 4, 5}
    Values = {0, 1, 2, 3, 4}
    Inf = Inf
    NoValue = NoValue
    NoHash = NoHash
    NoJob = NoJob
    LoadedRoot = NoHash
    MaxNodeSize = 2
    Coroutines = {c1, c2}
    Preloads <- FullLeaf
    MaxCalls <- OneFullLeaf
    MaxFaults = 0
INVARIANT FindDuringInsert
\* The callers may simply have nothing more to insert.
CHECK_DEADLOCK FALSE
