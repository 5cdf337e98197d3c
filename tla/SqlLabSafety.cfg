SPECIFICATION SqlLabSpec
CONSTANTS
    Query = {q1}
    Editor = {e1}
    NoEditor = NoEditor
    Poll = {p1, p2}
    MaxClock = 4
    Buffer = 2
    MaxDelay = 1
    CommitDelay = 1
    Skew = 0
SYMMETRY Symmetry
INVARIANTS
    SqlLabTypeOK
    NoFalseSuccess
    NoUpdateMissed
    SqlLabInv
