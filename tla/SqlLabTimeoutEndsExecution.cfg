SPECIFICATION FairSpec
CONSTANTS
    Query = {q1}
    Table = {t1}
    NoTable = NoTable
    NoQuery = NoQuery
    MaxClock = 0
PROPERTIES
    TimeoutEndsExecution
CHECK_DEADLOCK FALSE
