SPECIFICATION MCSpec
CONSTANTS
    Keys = {1, 2, 3}
    FreeKeys = {1, 2, 3}
    Values = {0, 1, 2, 3, 4}
    Inf = Inf
    NoValue = NoValue
    NoHash = NoHash
    NoJob = NoJob
    LoadedRoot = NoHash
    MaxNodeSize = 2
    Coroutines = {c1, c2}
    Preloads <- Empty
    MaxCalls <- FourOnEmpty
    MaxFaults = 0
INVARIANT InsertStores
\* The callers may simply have nothing more to insert.
CHECK_DEADLOCK FALSE
