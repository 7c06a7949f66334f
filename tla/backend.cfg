SPECIFICATION MCSpec
CONSTANT MaxCalls = 4
INVARIANTS
    TypeOK
    NothingFreedIsUsed
    EachHandlerOnce
PROPERTY HandlesFreed
\* A destroyed backend has nothing left to do.
CHECK_DEADLOCK FALSE
