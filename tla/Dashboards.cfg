SPECIFICATION Spec
CONSTANTS
    dash1 = dash1
    slice1 = slice1
    slice2 = slice2
    data1 = data1
    ann = ann
    bob = bob
    Dashboard = {dash1}
    Slice = {slice1, slice2}
    Data = {data1}
    User = {ann, bob}
    owner <- OwnerOf
    Needs <- NeedsOf
    Page = {p1}
    Request = {r1, r2}
    MaxServed = 3
SYMMETRY Symmetry
CHECK_DEADLOCK FALSE
INVARIANTS
    TypeOK
    LinksAsMeant
    StarsAsMeant
    ReleaseComplete
    Consistent
