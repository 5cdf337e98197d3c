--------------------------- MODULE MCSqlLabServer ---------------------------
(* SqlLabServer on a small instance.                                       *)
EXTENDS SqlLabServer, TLC

(* Queries are alike until they act, and so are table names.               *)
Symmetry == Permutations(Query) \cup Permutations(Table)
=============================================================================
