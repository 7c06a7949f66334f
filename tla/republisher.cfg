SPECIFICATION MCSpec
CONSTANTS
    MaxRequests = 4
    MaxFired = 2
INVARIANTS
    TypeOK
    InOrder
    OkMeansPublished
    OneAtATime
    KeepsRepublishing
PROPERTIES
    AnswersRequests
    PublishesAgain
\* A destroyed republisher has nothing left to do.
CHECK_DEADLOCK FALSE
