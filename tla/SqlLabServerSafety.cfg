SPECIFICATION Spec
CONSTANTS
    Query = {q1, q2}
    Table = {t1}
    NoTable = NoTable
    NoQuery = NoQuery
    MaxClock = 0
SYMMETRY Symmetry
INVARIANTS
    TypeOK
    AnswerMatchesRow
    SuccessOwnsTable
CHECK_DEADLOCK FALSE
