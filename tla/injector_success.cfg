SPECIFICATION MCSpec
CONSTANTS
    Concurrency = 2
    MaxNodeSize = 2
    MaxAsked = 2
    MaxFired = 1
INVARIANT SuccessMeansPublished
\* A destroyed injector has nothing left to do.
CHECK_DEADLOCK FALSE
