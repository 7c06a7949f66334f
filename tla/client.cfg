SPECIFICATION MCSpec
CONSTANTS
    Keys = {1, 2}
    Values = {"x", "y"}
    Inf = Inf
    NoValue = NoValue
    NoHash = NoHash
    MaxNodeSize = 2
    Finders = {f1, f2}
    Text <- MCText
    Names = {"n1", "n2"}
    RootsOf <- MCRootsOf
    NoId = NoId
    MaxRoots = 2
    MaxWaits = 1
INVARIANTS
    TypeOK
    OkMeansResolved
    EachWaiterOnce
PROPERTIES
    FoundIsStored
    DeniedOnlyUnrestored
    GetsEnd
