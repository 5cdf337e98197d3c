------------------------- MODULE MCGuardianObjects -------------------------
(* Instances of GuardianObjects for TLC: a slice and its dataset.          *)
EXTENDS GuardianObjects, TLC

CONSTANTS slice1, dataset1

DepsOfSlice == (slice1 :> {dataset1}) @@ (dataset1 :> {})

GrantedLists == {{"ADMIN"}, {"READ", "EDIT"}}

Symmetry == Permutations(Name) \cup Permutations(Request)
=============================================================================
