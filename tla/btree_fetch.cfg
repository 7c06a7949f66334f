SPECIFICATION MCSpec
CONSTANTS
    Keys = {0, 1, 2, 3, 4, 5, 6, 7, 8, 9, 10, 11}
    FreeKeys = {0, 1, 2, 4}
    LateKeys = {9, 10}
    Sought = {1}
    Values = {0, 1, 2, 3}
    Inf = Inf
    NoValue = NoValue
    NoHash = NoHash
    NoJob = NoJob
    LoadedRoot <- StoredRoot
    Texts <- StoredTexts
    MaxNodeSize = 2
    Coroutines = {c1, c2}
    Finders = {f1}
    MaxCalls = 3
INVARIANTS
    FoundWasGiven
    
PROPERTY FindsEnd
\* A destroyed tree has nothing left to do.
CHECK_DEADLOCK FALSE
