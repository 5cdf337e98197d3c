SPECIFICATION Spec
CONSTANTS
    Digit = {"1", "2", "3", "4"}
    Folder <- FiveIds
    Dashboard = {d1}
    Request = {r1, r2}
    MaxDepth = 2
    MaxServed = 4
    Trees <- SomeTrees
    Null = Null
    Root = Root
SYMMETRY Symmetry
CHECK_DEADLOCK FALSE
INVARIANTS
    TypeOK
    TreeShown
    Consistent
PROPERTIES
    ImplementsForest
