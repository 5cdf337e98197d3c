SPECIFICATION FairSqlLabSpec
CONSTANTS
    Query = {q1}
    Editor = {e1}
    NoEditor = NoEditor
    Poll = {p1}
    MaxClock = 1
    Buffer = 1
    MaxDelay = 1
    CommitDelay = 0
    Skew = 0
PROPERTIES
    UpdatesFetched
