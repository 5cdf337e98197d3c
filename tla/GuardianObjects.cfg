SPECIFICATION Spec
CONSTANTS
    slice1 = slice1
    dataset1 = dataset1
    User = {owner, admin}
    GlobalAdmin = {admin}
    Name = {n1, n2}
    Object = {slice1, dataset1}
    Request = {r1, r2}
    MaxServed = 3
    Lists <- GrantedLists
    Deps <- DepsOfSlice
    NoName = NoName
    NoUser = NoUser
    NoObject = NoObject
SYMMETRY Symmetry
CHECK_DEADLOCK FALSE
INVARIANTS
    TypeOK
    PermissionsMatch
    CheckedIsWritten
    Consistent
