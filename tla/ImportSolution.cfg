SPECIFICATION Spec
CONSTANTS
    conn = conn
    conn2 = conn2
    data1 = data1
    chart1 = chart1
    chart2 = chart2
    dash1 = dash1
    dash2 = dash2
    data2 = data2
    Name = {conn, conn2, data1, chart1, chart2, dash1, dash2, data2}
    Item = {conn, data1, chart1, chart2, dash1, dash2}
    Kind <- KindOf
    Needs <- FileNeeds
    Order <- FileOrder
    Row = {1, 2, 3, 4, 5, 6, 7, 8, 9, 10, 11, 12, 13}
    rowOf <- FirstRow
    AtFirst <- Databases
    Request = {r1, r2}
    MaxServed = 2
    NoRow = NoRow
    NoName = NoName
SYMMETRY Symmetry
CHECK_DEADLOCK FALSE
INVARIANTS
    TypeOK
    ImportedAsChosen
    Whole
    Consistent
    Underway
PROPERTIES
    OnlyChosenOverwritten
