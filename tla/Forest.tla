------------------------------ MODULE Forest ------------------------------
(***************************************************************************)
(* What the folders of the dashboards promise: every folder is below at    *)
(* most one other, and following parents always ends at the root; a        *)
(* dashboard lies in one folder or at the root.                            *)
(*                                                                         *)
(* The promise ends with the first step that leaves the tree in disorder.  *)
(***************************************************************************)
EXTENDS Naturals

CONSTANTS Folder, Dashboard, Root

VARIABLES
    parent,     \* parent[f]: the folder above f, for the folders there are
    place,      \* place[d]: the folder of d, for the dashboards there are
    orderly

vars == <<parent, place, orderly>>

Folders == DOMAIN parent
Places == Folders \cup {Root}

(* The sets that contain, with a folder, all its children.                 *)
Closed(S) == \A g \in Folders : parent[g] \in S => g \in S

(* f and all that is below it.                                             *)
Below(f) == {g \in Folders : \A S \in SUBSET Folders :
                                f \in S /\ Closed(S) => g \in S}

TypeOK ==
    /\ Folders \subseteq Folder /\ parent \in [Folders -> Places]
    /\ DOMAIN place \subseteq Dashboard /\ place \in [DOMAIN place -> Places]

(* Every folder is reached from the root: no two folders are below one     *)
(* another.                                                                *)
Rooted ==
    \A S \in SUBSET Places : Root \in S /\ Closed(S) => Folders \subseteq S

Init == TypeOK /\ Rooted /\ orderly = TRUE

Add(f, p) ==
    /\ f \in Folder \ Folders /\ p \in Places
    /\ parent' = [g \in Folders \cup {f} |-> IF g = f THEN p ELSE parent[g]]
    /\ UNCHANGED place

Move(f, p) ==
    /\ f \in Folders /\ p \in Places \ Below(f)
    /\ parent' = [parent EXCEPT ![f] = p]
    /\ UNCHANGED place

(* The dashboards of a folder go before it does.                           *)
Remove(f) ==
    /\ f \in Folders
    /\ \A d \in DOMAIN place : place[d] \notin Below(f)
    /\ parent' = [g \in Folders \ Below(f) |-> parent[g]]
    /\ UNCHANGED place

Put(d, p) ==
    /\ d \in Dashboard /\ p \in Places
    /\ place' = [e \in DOMAIN place \cup {d} |-> IF e = d THEN p ELSE place[e]]
    /\ UNCHANGED parent

Drop(d) ==
    /\ d \in DOMAIN place
    /\ place' = [e \in DOMAIN place \ {d} |-> place[e]]
    /\ UNCHANGED parent

Step ==
    \/ \E f \in Folder, p \in Folder \cup {Root} : Add(f, p) \/ Move(f, p)
    \/ \E f \in Folder : Remove(f)
    \/ \E d \in Dashboard, p \in Folder \cup {Root} : Put(d, p)
    \/ \E d \in Dashboard : Drop(d)

Next == (orderly /\ orderly' /\ Step) \/ ~orderly'

Spec == Init /\ [][Next]_vars
=============================================================================
