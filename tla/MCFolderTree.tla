--------------------------- MODULE MCFolderTree ---------------------------
(* Five folders for TLC; the id of one of them begins and ends like those  *)
(* of two others.                                                          *)
EXTENDS FolderTree, TLC

id1 == <<"1">>
id2 == <<"2">>
id3 == <<"3">>
id4 == <<"4">>
id12 == <<"1", "2">>

FiveIds == {id1, id2, id3, id4, id12}

(* A chain of three with a branch, a chain with a look-alike at its end,   *)
(* and no folder at all.                                                   *)
SomeTrees ==
    {(id1 :> id1) @@ (id2 :> <<"1", "/", "2">>)
        @@ (id3 :> <<"1", "/", "2", "/", "3">>) @@ (id4 :> <<"1", "/", "4">>),
     (id1 :> id1) @@ (id3 :> id3) @@ (id2 :> <<"1", "/", "2">>)
        @@ (id12 :> <<"1", "/", "2", "/", "1", "2">>),
     [f \in {} |-> <<>>]}

Symmetry == Permutations(Request)
=============================================================================
