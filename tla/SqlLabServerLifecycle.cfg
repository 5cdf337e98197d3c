SPECIFICATION FairSpec
CONSTANTS
    Query = {q1}
    Table = {t1}
    NoTable = NoTable
    NoQuery = NoQuery
    MaxClock = 3
INVARIANTS
    Consistent
PROPERTIES
    ImplementsLifecycle
    CallEndsUnlessTorn
CHECK_DEADLOCK FALSE
