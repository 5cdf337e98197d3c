------------------------------ MODULE MCSqlLab ------------------------------
(* SqlLab on a small instance.                                             *)
EXTENDS SqlLab, TLC

(* GETs are alike, queries are alike until they act, and so are editors.   *)
Symmetry ==
    Permutations(Query) \cup Permutations(Poll) \cup Permutations(Editor)
=============================================================================
