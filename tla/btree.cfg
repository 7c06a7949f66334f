SPECIFICATION FairSpec
CONSTANTS
    Keys = {0, 1, 2, 3, 4, 5, 6, 7, 8, 9, 10, 11, 12}
    FreeKeys = {0, 3, 4, 9, 12}
    Values = {0, 1, 2, 3}
    Inf = Inf
    NoValue = NoValue
    NoHash = NoHash
    NoJob = NoJob
    LoadedRoot = NoHash
    MaxNodeSize = 2
    Coroutines = {c1, c2}
    Preloads <- GrowingTrees
    MaxCalls <- SmallToGrown
    MaxFaults = 1
INVARIANTS
    TypeOK
    SingleWriter
    CheckInvariants
    AttachSlot
    OneCopy
    FoundUnlessSplit
    WholeInMemory
    HashesFresh
    HashesPinned
    IdleMeansStored
PROPERTIES
    ImplementsDictionary
    InsertsEnd
    NothingLeaks
    ImplementsWriter
\* The callers may simply have nothing more to insert.
CHECK_DEADLOCK FALSE
