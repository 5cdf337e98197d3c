---------------------------- MODULE FolderTree ----------------------------
(***************************************************************************)
(* Folders and dashboards are rows of one table.  The path of a folder is  *)
(* the ids of all folders above it and its own, written out and separated  *)
(* by slashes; the path of a dashboard is the id of its folder.  The views *)
(* search, compare and replace paths as text, each read and each commit    *)
(* being a step of its own, and a request may end at any step.             *)
(*                                                                         *)
(* A folder is its id here, a sequence of digits, and a path a sequence of *)
(* digits and slashes.  Permission checks only decide whether a request    *)
(* begins; names play no part.                                             *)
(***************************************************************************)
EXTENDS Naturals, Sequences, FiniteSets, SequencesExt

CONSTANTS
    Digit,
    Folder,     \* a set of sequences of digits
    Dashboard,
    Request,
    MaxDepth,   \* Dashboard.max_depth
    MaxServed,  \* bound on the requests of a behaviour
    Trees,      \* the paths there may be at first
    Null,       \* no path: a dashboard at the root, a folder half made
    Root        \* no parent

Sep == <<"/">>
Text == Seq(Digit \cup {"/"})

(* The path of a folder f whose parent has path p.                         *)
Join(p, f) == p \o Sep \o f

(* The folders that t has paths for, each below one of them or at the root.*)
Written(t) ==
    \A f \in DOMAIN t : t[f] = f \/ \E g \in DOMAIN t : t[f] = Join(t[g], f)

ASSUME FolderAssumption ==
    /\ "/" \notin Digit
    /\ Folder \subseteq Seq(Digit) \ {<<>>}
    /\ Folder \cap Dashboard = {}
    /\ MaxDepth \in Nat /\ MaxServed \in Nat
    /\ Null \notin Text /\ Root \notin Folder
    /\ \A t \in Trees :
         DOMAIN t \subseteq Folder /\ t \in [DOMAIN t -> Text] /\ Written(t)

VARIABLES
    rows,       \* the folders and dashboards in the table
    used,       \* the ids given out
    path,       \* their paths
    req,        \* the request each slot serves
    served,
    orderly     \* nothing has happened that puts the tree in disorder

vars == <<rows, used, path, req, served, orderly>>

Row == Folder \cup Dashboard
Idle == [op |-> "none"]

-----------------------------------------------------------------------------
(* Text.                                                                   *)

At(s, t, i) == i + Len(s) - 1 <= Len(t) /\ SubSeq(t, i, i + Len(s) - 1) = s
Occurs(s, t) == \E i \in 1..Len(t) : At(s, t, i)
EndsWith(t, s) == \E i \in 1..Len(t) : i + Len(s) - 1 = Len(t) /\ At(s, t, i)

(* str.replace; nothing is found before every character and at the end.    *)
Replace(t, old, new) ==
    LET from[i \in 1..Len(t) + 1] ==
          IF i > Len(t) THEN IF old = <<>> THEN new ELSE <<>>
          ELSE IF old = <<>> THEN new \o <<t[i]>> \o from[i + 1]
          ELSE IF At(old, t, i) THEN new \o from[i + Len(old)]
          ELSE <<t[i]>> \o from[i + 1]
    IN from[1]

Depth(p) == Cardinality({i \in 1..Len(p) : p[i] = "/"})

(* The path LIKE 'f', 'f/%', '%/f' or '%/f/%'.                             *)
Mentions(p, f) == p # Null /\ Occurs(Sep \o f \o Sep, Sep \o p \o Sep)

(* get_parent_path: what is before the first place where the id is found.  *)
ParentPath(f) ==
    LET i == CHOOSE j \in 1..Len(path[f]) :
               At(f, path[f], j) /\ \A k \in 1..j - 1 : ~At(f, path[f], k)
    IN SubSeq(path[f], 1, IF i = 1 THEN Len(path[f]) - 1 ELSE i - 2)

-----------------------------------------------------------------------------
(* The tree that get_children shows.                                       *)

Shown == {f \in Folder \cap rows : path[f] # Null}

Child(g, f) ==
    /\ IsPrefix(path[g] \o Sep, path[f])
    /\ Depth(path[f]) = Depth(path[g]) + 1

parentBar ==
    [f \in Shown |->
        IF Depth(path[f]) = 0 THEN Root
        ELSE IF \E g \in Shown : Child(g, f)
        THEN CHOOSE g \in Shown : Child(g, f)
        ELSE Null]

placeBar ==
    [d \in Dashboard \cap rows |-> IF path[d] = Null THEN Root ELSE path[d]]

F == INSTANCE Forest WITH parent <- parentBar, place <- placeBar

-----------------------------------------------------------------------------
Exists(f) == f \in Folder \cap rows
End(r) == req' = [req EXCEPT ![r] = Idle]
Start(r, call) ==
    /\ req[r] = Idle /\ served < MaxServed
    /\ req' = [req EXCEPT ![r] = call]
    /\ served' = served + 1

(* Mutant of Related: the id is searched without the slashes around it.    *)
RelatedByText(f) == {g \in Folder \cap rows : path[g] # Null /\ Occurs(f, path[g])}

(* The folders a rename, move or deletion of f looks at.                   *)
Related(f) == {g \in Folder \cap rows : Mentions(path[g], f)}

(* The rows found as the dashboards of these folders: everything whose     *)
(* path is the id of one of them.                                          *)
Within(fs) == {x \in rows : path[x] \in fs}

(* Disorder that a step causes.                                            *)
Keep(ok) == orderly' = (orderly /\ ok)

Init ==
    /\ \E t \in Trees :
          /\ rows = DOMAIN t
          /\ path = [x \in Row |-> IF x \in rows THEN t[x] ELSE Null]
    /\ used = rows
    /\ req = [r \in Request |-> Idle] /\ served = 0
    /\ orderly = TRUE

-----------------------------------------------------------------------------
(* add_folder: one commit to get an id, another one for the path.          *)

InsertFolder(r) ==
    \E f \in Folder \ used, p \in Folder \cup {Root} :
        /\ p # Root => Exists(p) /\ path[p] # Null /\ Depth(path[p]) < MaxDepth
        /\ Start(r, [op |-> "add", pc |-> "read", folder |-> f, parent |-> p])
        /\ rows' = rows \cup {f} /\ used' = used \cup {f}
        /\ UNCHANGED <<path, orderly>>

(* The commit expired the parent, which is read again.                     *)
ReadParent(r) ==
    LET c == req[r] IN
    /\ c.op = "add" /\ c.pc = "read"
    /\ \/ /\ c.parent = Root \/ Exists(c.parent)
          /\ req' = [req EXCEPT ![r] =
               [op |-> "add", pc |-> "commit", folder |-> c.folder,
                parent |-> c.parent,
                path |-> IF c.parent = Root THEN c.folder
                         ELSE Join(path[c.parent], c.folder)]]
       \/ c.parent # Root /\ ~Exists(c.parent) /\ End(r)
    /\ UNCHANGED <<rows, path, served, orderly>>

(* Disorder: the parent was moved or deleted since it was read, or the     *)
(* folder has a path already.                                              *)
SetPath(r) ==
    LET c == req[r] IN
    /\ c.op = "add" /\ c.pc = "commit"
    /\ \/ /\ Exists(c.folder)
          /\ path' = [path EXCEPT ![c.folder] = c.path]
          /\ Keep(/\ path[c.folder] = Null
                  /\ c.parent # Root =>
                       /\ Exists(c.parent)
                       /\ c.path = Join(path[c.parent], c.folder))
       \/ ~Exists(c.folder) /\ UNCHANGED <<path, orderly>>
    /\ End(r)
    /\ UNCHANGED <<rows, served>>

-----------------------------------------------------------------------------
(* move_folder.                                                            *)

(* Mutant of NewPaths: only the folder itself is moved.                    *)
NewPathsOfOne(f, p) ==
    [g \in {f} |-> Replace(path[g], ParentPath(f), path[p])]

NewPaths(f, p) ==
    LET new == [g \in Related(f) |-> Replace(path[g], ParentPath(f), path[p])]
    IN Restrict(new, {g \in Related(f) : new[g] # path[g]})

(* One id is written inside another one of the paths of this move.         *)
Confusable(f) ==
    \E g, h \in Folder :
        /\ g # h /\ Occurs(g, h)
        /\ \E k \in Related(f) : Mentions(path[k], g)
        /\ \E k \in Related(f) : Mentions(path[k], h)

(* Mutant of Movable: nobody looks whether the parent is below the folder. *)
MovableAnywhere(f, p) ==
    /\ f \in Shown /\ p \in Shown /\ f # p
    /\ path[f] # f /\ EndsWith(path[f], f) /\ ParentPath(f) # path[p]

(* A folder at the root has no parent path to replace, which raises; so    *)
(* does a folder without a path.                                           *)
Movable(f, p) ==
    /\ f \in Shown /\ p \in Shown
    /\ ~IsPrefix(path[f], path[p])
    /\ path[f] # f /\ EndsWith(path[f], f) /\ ParentPath(f) # path[p]

StartMove(r) ==
    \E f, p \in Folder \cap rows :
        /\ Movable(f, p)
        /\ Start(r, [op |-> "move", folder |-> f, parent |-> p,
                     paths |-> NewPaths(f, p)])
        /\ UNCHANGED <<rows, path, orderly>>

(* The move would be accepted now and write the same.                      *)
Same(c) ==
    /\ Movable(c.folder, c.parent) /\ ~Confusable(c.folder)
    /\ c.paths = NewPaths(c.folder, c.parent)

(* Mutant of CommitMove: rows that are gone are written too.               *)
CommitMoveBlindly(r) ==
    LET c == req[r] IN
    /\ c.op = "move"
    /\ path' = [x \in Row |-> IF x \in DOMAIN c.paths THEN c.paths[x] ELSE path[x]]
    /\ Keep(Same(c))
    /\ End(r)
    /\ UNCHANGED <<rows, served>>

(* An UPDATE that finds no row raises and nothing is changed.              *)
(* Disorder: ids can be confused, or what the move was computed from has   *)
(* changed since.                                                          *)
CommitMove(r) ==
    LET c == req[r] IN
    /\ c.op = "move"
    /\ \/ /\ DOMAIN c.paths \subseteq rows
          /\ path' = [x \in Row |->
                        IF x \in DOMAIN c.paths THEN c.paths[x] ELSE path[x]]
          /\ Keep(Same(c))
       \/ ~(DOMAIN c.paths \subseteq rows) /\ UNCHANGED <<path, orderly>>
    /\ End(r)
    /\ UNCHANGED <<rows, served>>

(* Disorder: folders below it, whose paths are left alone.                 *)
MoveToRoot(r) ==
    \E f \in Folder \cap rows :
        /\ Start(r, Idle)
        /\ path' = [path EXCEPT ![f] = f]
        /\ Keep(path[f] = f \/ Related(f) \subseteq {f})
        /\ UNCHANGED rows

-----------------------------------------------------------------------------
(* delete_folder: the dashboards one by one, then the folders.             *)

StartDelete(r) ==
    \E f \in Folder \cap rows :
        /\ Start(r, [op |-> "delete", folder |-> f, folders |-> Related(f),
                     todo |-> Within(Related(f))])
        /\ UNCHANGED <<rows, path, orderly>>

(* Disorder: a folder at the root is found as one of its own dashboards    *)
(* and goes before what is in it.                                          *)
DeleteRow(r) ==
    LET c == req[r] IN
    /\ c.op = "delete"
    /\ \E x \in c.todo :
          \/ /\ x \in rows
             /\ rows' = rows \ {x}
             /\ path' = [path EXCEPT ![x] = Null]
             /\ req' = [req EXCEPT ![r].todo = @ \ {x}]
             /\ Keep(x \in Folder =>
                       Related(x) \subseteq {x} /\ Within({x}) \subseteq {x})
          \/ x \notin rows /\ End(r) /\ UNCHANGED <<rows, path, orderly>>
    /\ UNCHANGED served

(* A folder that is gone may raise when it is deleted, or only warn.       *)
(* Disorder: folders or dashboards were moved in or out meanwhile.         *)
DeleteFolders(r) ==
    LET c == req[r] IN
    /\ c.op = "delete" /\ c.todo = {}
    /\ \/ /\ rows' = rows \ c.folders
          /\ path' = [x \in Row |-> IF x \in c.folders THEN Null ELSE path[x]]
          /\ Keep(/\ c.folders \cap rows = Related(c.folder)
                  /\ Within(c.folders) \subseteq c.folders)
       \/ ~(c.folders \subseteq rows) /\ UNCHANGED <<rows, path, orderly>>
    /\ End(r)
    /\ UNCHANGED served

-----------------------------------------------------------------------------
(* Dashboards: made at the root, moved by move_dashboard.                  *)

AddDashboard(r) ==
    \E d \in Dashboard \ used :
        /\ Start(r, Idle)
        /\ rows' = rows \cup {d} /\ used' = used \cup {d}
        /\ UNCHANGED <<path, orderly>>

StartMoveDashboard(r) ==
    \E d \in Dashboard \cap rows, p \in (Folder \cap rows) \cup {Null} :
        /\ Start(r, [op |-> "place", dash |-> d, to |-> p])
        /\ UNCHANGED <<rows, path, orderly>>

(* Disorder: the folder is gone, or is not shown yet.                      *)
CommitMoveDashboard(r) ==
    LET c == req[r] IN
    /\ c.op = "place"
    /\ \/ /\ c.dash \in rows
          /\ path' = [path EXCEPT ![c.dash] = c.to]
          /\ Keep(c.to \in Shown \cup {Null})
       \/ c.dash \notin rows /\ UNCHANGED <<path, orderly>>
    /\ End(r)
    /\ UNCHANGED <<rows, served>>

-----------------------------------------------------------------------------
(* The request raises or its process dies.                                 *)
Fail(r) ==
    /\ req[r] # Idle
    /\ End(r)
    /\ UNCHANGED <<rows, path, served, orderly>>

Change(r) ==
    \/ ReadParent(r) \/ SetPath(r)
    \/ StartMove(r) \/ CommitMove(r) \/ MoveToRoot(r)
    \/ StartDelete(r) \/ DeleteRow(r) \/ DeleteFolders(r)
    \/ StartMoveDashboard(r) \/ CommitMoveDashboard(r)
    \/ Fail(r)

Next ==
    \E r \in Request :
        InsertFolder(r) \/ AddDashboard(r) \/ (Change(r) /\ UNCHANGED used)

Spec == Init /\ [][Next]_vars

-----------------------------------------------------------------------------
(* Rows have paths of ids, and no row that is gone has one.                *)
TypeOK ==
    /\ rows \subseteq used /\ used \subseteq Row
    /\ DOMAIN path = Row
    /\ \A x \in Row : path[x] # Null => x \in rows
    /\ \A d \in Dashboard : path[d] \in Folder \cup {Null}
    /\ \A f \in Folder : path[f] \in Text \cup {Null}
    /\ served \in 0..MaxServed /\ orderly \in BOOLEAN

(* As long as the tree is in order, get_children shows every folder with a *)
(* path, once, below the folder its path names, and every dashboard lies   *)
(* at the root or in a folder that is shown.                               *)
TreeShown ==
    orderly =>
        /\ F!TypeOK /\ F!Rooted
        /\ \A f \in Shown :
             path[f] = IF parentBar[f] = Root THEN f
                       ELSE Join(path[parentBar[f]], f)

(* What adding, moving and deleting promise: a forest that changes by one  *)
(* folder, one whole subtree or one dashboard at a time, until one of the  *)
(* steps that put it in disorder.                                          *)
ImplementsForest == F!Spec

-----------------------------------------------------------------------------
(* The inductive invariant.                                                *)

(* The folders that have a path, or are gone.                              *)
Known == {f \in Folder \cap used : f \in rows => path[f] # Null}

(* What a request has at each of its steps.                                *)
Shape(c, known) ==
    \/ c = Idle
    \/ c \in [op : {"add"}, pc : {"read"}, folder : Folder, parent : known \cup {Root}]
    \/ /\ c \in [op : {"add"}, pc : {"commit"}, folder : Folder,
                 parent : known \cup {Root}, path : Text]
       /\ c.parent = Root => c.path = c.folder
    \/ /\ c.op = "move" /\ c.folder \in Folder /\ c.parent \in Folder
       /\ DOMAIN c.paths \subseteq Folder
       /\ \A g \in DOMAIN c.paths : c.paths[g] \in Text
    \/ c \in [op : {"delete"}, folder : Folder, folders : SUBSET Folder, todo : SUBSET Row]
    \/ c \in [op : {"place"}, dash : Dashboard, to : Folder \cup {Null}]

Tree == [f \in Shown |-> path[f]]

InOrder ==
    /\ Written(Tree)
    /\ \A d \in Dashboard \cap rows : path[d] \in Shown \cup {Null}

Consistent ==
    /\ TypeOK
    /\ DOMAIN req = Request /\ \A r \in Request : Shape(req[r], Known)
    /\ orderly => InOrder
=============================================================================
