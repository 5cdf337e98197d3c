--------------------------- MODULE MCDashboards ---------------------------
(* One dashboard, two slices of one dataset, two users.                    *)
EXTENDS Dashboards, TLC

CONSTANTS dash1, slice1, slice2, data1, ann, bob

OwnerOf == (dash1 :> ann) @@ (slice1 :> ann) @@ (slice2 :> bob) @@ (data1 :> ann)

NeedsOf == (slice1 :> {data1}) @@ (slice2 :> {data1}) @@ (data1 :> {})

Symmetry == Permutations(Request) \cup Permutations(Page)
=============================================================================
