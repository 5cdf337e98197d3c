------------------------- MODULE MCImportSolution -------------------------
(* A file with two dashboards: one with a slice on a dataset and a slice   *)
(* on the dataset's own connection, and one without slices.                *)
EXTENDS ImportSolution, ImportOrder, TLC

CONSTANTS conn, conn2, data1, chart1, chart2, dash1, dash2, data2

FileOrder ==
    ImportDataset(data1, <<conn>>)
    \o ImportDashboard(dash1, <<ImportSlice(chart1, <<conn>>), ImportSlice(chart2, <<>>)>>)
    \o ImportDashboard(dash2, <<>>)

FileNeeds ==
    (conn :> {}) @@ (data1 :> {conn}) @@ (chart1 :> {conn}) @@ (chart2 :> {data1})
    @@ (dash1 :> {chart1, chart2}) @@ (dash2 :> {})

KindOf ==
    [n \in {conn, conn2} |-> "connection"] @@ [n \in {data1, data2} |-> "dataset"]
    @@ [n \in {chart1, chart2} |-> "slice"]
    @@ [n \in {dash1, dash2} |-> "dashboard"]

FirstRow ==
    (conn :> 1) @@ (data1 :> 2) @@ (chart1 :> 3) @@ (chart2 :> 4) @@ (dash1 :> 5)
    @@ (dash2 :> 6)

(* An empty database, and one with the dataset.                            *)
Databases == {{}, {data1}}

Symmetry == Permutations(Request)
=============================================================================
