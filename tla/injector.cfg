SPECIFICATION MCSpec
CONSTANTS
    Concurrency = 2
    MaxNodeSize = 2
    MaxAsked = 3
    MaxFired = 1
INVARIANTS
    TypeOK
    JobsBounded
    EachRequestOnce
PROPERTIES
    NeverGoesBack
    AnswersRequests
    SuccessReachesFile
\* A destroyed injector has nothing left to do.
CHECK_DEADLOCK FALSE
