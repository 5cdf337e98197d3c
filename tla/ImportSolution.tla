-------------------------- MODULE ImportSolution --------------------------
(***************************************************************************)
(* Importing a file of dashboards with all they depend on.                 *)
(*                                                                         *)
(* The user is shown which names of the file are taken, chooses for each   *)
(* of them to skip, to overwrite or to rename, and sends the file again    *)
(* with this solution.  The import then works through the items of the     *)
(* file in order, looks each up by name once more and commits it before    *)
(* it goes on: it may fail between any two items, others may be at work on *)
(* the same names, and the user may repeat it.                             *)
(*                                                                         *)
(* A name stands for a type and a name.  Folders are left to FolderTree.   *)
(***************************************************************************)
EXTENDS Naturals, Sequences, FiniteSets

CONSTANTS
    Name,       \* the names there may be
    Item,       \* the names in the file
    Kind,       \* Kind[n]: the type of n
    Needs,      \* Needs[n]: the items n is linked to in the file
    Order,      \* the steps of an import, from ImportOrder
    Row,        \* ids
    rowOf,      \* rowOf[n]: the id of a row of that name there at first
    AtFirst,    \* which names may be there at first
    Request,
    MaxServed,  \* bound on imports and changes by others
    NoRow, NoName

ASSUME ImportAssumption ==
    /\ Item \subseteq Name /\ Needs \in [Item -> SUBSET Item]
    /\ Order \in Seq([do : {"find", "look", "write"}, item : Item])
    /\ rowOf \in [Item -> Row] /\ \A n, m \in Item : rowOf[n] = rowOf[m] => n = m
    /\ AtFirst \subseteq SUBSET Item
    /\ MaxServed \in Nat
    /\ NoRow \notin Row /\ NoName \notin Name
    /\ Name \cap {"skip", "overwrite"} = {}

(* Before the i-th step there is such a step on n.                         *)
Before == [i \in 1..Len(Order) + 1 |-> {Order[j] : j \in 1..i - 1}]
Earlier(i, do, n) == [do |-> do, item |-> n] \in Before[i]

(* An item is written after it was searched and after all it needs; what   *)
(* a slice is made from is written before the slice looks it up.           *)
ASSUME OrderAssumption ==
    /\ \A n \in Item : Earlier(Len(Order) + 1, "write", n)
    /\ \A n \in Item : \A m \in Needs[n] : Kind[m] # "dashboard"
    /\ \A i \in 1..Len(Order) :
         LET n == Order[i].item IN
         /\ Order[i].do = "write" =>
              /\ Earlier(i, "find", n) /\ \A m \in Needs[n] : Earlier(i, "write", m)
              /\ \/ Kind[n] # "slice" \/ Earlier(i, "look", n)
                 \/ \A m \in Needs[n] : Kind[m] = "connection"
         /\ Order[i].do = "look" =>
              \E t \in Needs[n] : Needs[n] = {t} /\ Earlier(i, "write", t)

VARIABLES
    rows,       \* the database: what each id is
    owned,      \* the names on which somebody has the owner's permissions
    req,        \* imports under way
    served,
    moved,      \* moved[r]: the names that changed hands since r was shown
    broken      \* rows left half-done by a failure, or met while half-done

vars == <<rows, owned, req, served, moved, broken>>

NoBody == [name |-> NoName, from |-> "unborn", uses |-> {}]
Gone == [name |-> NoName, from |-> "gone", uses |-> {}]
Body == [name : Name, from : {"user", "half", "file"}, uses : SUBSET Row]

Choice == {"skip", "overwrite"} \cup Name  \* a name: to rename to
RowOrNot == Row \cup {NoRow}
Import == [pc : {"asked", "step", "columns", "grant"}, shown : [Item -> RowOrNot],
           sol : [Item -> Choice], at : 1..(Len(Order) + 1),
           found : [Item -> RowOrNot], look : [Item -> RowOrNot],
           made : [Item -> RowOrNot], row : RowOrNot, grant : Name \cup {NoName}]
Nothing == [n \in Item |-> NoRow]
Idle == [pc |-> "idle", shown |-> Nothing, sol |-> [n \in Item |-> "skip"],
         at |-> 1, found |-> Nothing, look |-> Nothing, made |-> Nothing,
         row |-> NoRow, grant |-> NoName]

There == {o \in Row : rows[o].name # NoName}
Named(n) == {o \in Row : rows[o].name = n}

(* get_object(name=n)                                                      *)
Get(n) == IF Named(n) = {} THEN NoRow ELSE CHOOSE o \in Row : rows[o].name = n

(* The next id.                                                            *)
Fresh == IF \A o \in Row : rows[o] # NoBody THEN NoRow
         ELSE CHOOSE o \in Row : rows[o] = NoBody

TypeOK ==
    /\ rows \in [Row -> Body \cup {NoBody, Gone}]
    /\ owned \subseteq Name
    /\ req \in [Request -> Import \cup {Idle}]
    /\ served \in 0..MaxServed
    /\ moved \in [Request -> SUBSET Name]
    /\ broken \subseteq Row
    /\ \A o, p \in There : rows[o].name = rows[p].name => o = p

Users(n) == [name |-> n, from |-> "user", uses |-> {}]

Init ==
    /\ \E there \in AtFirst :
          rows = [o \in Row |-> IF \E n \in there : rowOf[n] = o
                                THEN Users(CHOOSE n \in there : rowOf[n] = o)
                                ELSE NoBody]
    /\ owned = {rows[o].name : o \in There}
    /\ req = [r \in Request |-> Idle] /\ served = 0
    /\ moved = [r \in Request |-> {}] /\ broken = {}

-----------------------------------------------------------------------------
(* Ghost: the names N change hands, by r or by another user.               *)
Move(r, N) == moved' = [s \in Request |-> IF s = r THEN moved[s] ELSE moved[s] \cup N]

Set(r, c) == req' = [req EXCEPT ![r] = c]

(* before_import                                                           *)
BeforeImport(r) ==
    /\ req[r].pc = "idle" /\ served < MaxServed
    /\ served' = served + 1
    /\ Set(r, [Idle EXCEPT !.pc = "asked", !.shown = [n \in Item |-> Get(n)]])
    /\ moved' = [moved EXCEPT ![r] = {}]
    /\ UNCHANGED <<rows, owned, broken>>

(* What can be chosen for the names that were taken, and passes            *)
(* check_solution.                                                         *)
Solutions(shown) ==
    LET taken == {n \in Item : shown[n] # NoRow}
        free == {n \in Name : Named(n) = {}}
        chosen == {c \in [taken -> {"skip", "overwrite"} \cup free] :
                     \A n \in taken : c[n] \in free =>
                        /\ Kind[c[n]] = Kind[n]
                        /\ \A m \in taken \ {n} : c[m] # c[n]}
    IN {[n \in Item |-> IF n \in taken THEN c[n] ELSE "skip"] : c \in chosen}

StartImport(r) ==
    /\ req[r].pc = "asked"
    /\ \E sol \in Solutions(req[r].shown) :
          Set(r, [req[r] EXCEPT !.pc = "step", !.sol = sol])
    /\ UNCHANGED <<rows, owned, served, moved, broken>>

-----------------------------------------------------------------------------
(* One item.                                                               *)

At(r, do) ==
    /\ req[r].pc = "step" /\ req[r].at <= Len(Order)
    /\ Order[req[r].at].do = do

FindItem(r) ==
    LET n == Order[req[r].at].item IN
    /\ At(r, "find")
    /\ Set(r, [req[r] EXCEPT !.found[n] = Get(n), !.at = @ + 1])
    /\ UNCHANGED <<rows, owned, served, moved, broken>>

(* Mutant of Called: the new name is forgotten.                            *)
CalledAsInFile(c, t) == t

(* lookup_object: a dataset is looked for under the name the solution      *)
(* gives it, whether or not it had to be renamed.                          *)
Called(c, t) == IF c.sol[t] \in Name THEN c.sol[t] ELSE t

LookUp(r) ==
    LET c == req[r]
        n == Order[c.at].item
    IN
    /\ At(r, "look")
    /\ \E t \in Needs[n] :
          Set(r, [c EXCEPT !.look[n] = Get(Called(c, t)), !.at = @ + 1])
    /\ UNCHANGED <<rows, owned, served, moved, broken>>

(* What n will be linked to.  A dashboard asks for its slices once more.   *)
Links(r, n) ==
    IF req[r].look[n] # NoRow THEN {req[r].look[n]}
    ELSE {req[r].made[m] : m \in {m \in Needs[n] :
             /\ req[r].made[m] # NoRow
             /\ Kind[n] = "slice" => Kind[m] = "connection"
             /\ Kind[n] = "dashboard" => req[r].made[m] \in There}}

(* Only datasets have columns, which take commits of their own.            *)
Written(r, n, name) ==
    [name |-> name, from |-> IF Kind[n] = "dataset" THEN "half" ELSE "file",
     uses |-> Links(r, n)]

(* Mutant of Wrote: permissions are granted on the name in the file.       *)
WroteAsInFile(r, n, o, granted) ==
    Set(r, [req[r] EXCEPT
              !.made[n] = o, !.row = o, !.at = @ + 1,
              !.grant = IF granted = NoName THEN NoName ELSE n,
              !.pc = IF Kind[n] = "dataset" THEN "columns"
                     ELSE IF granted # NoName THEN "grant" ELSE "step"])

(* The item is written as o; columns and permissions are still to come.    *)
Wrote(r, n, o, granted) ==
    Set(r, [req[r] EXCEPT
              !.made[n] = o, !.row = o, !.grant = granted, !.at = @ + 1,
              !.pc = IF Kind[n] = "dataset" THEN "columns"
                     ELSE IF granted # NoName THEN "grant" ELSE "step"])

(* Mutant of Accepted: no unique names.                                    *)
AcceptedTwice(r, n, name, o) == Links(r, n) \ {req[r].look[n]} \subseteq There

(* The unique names and the foreign keys.                                  *)
Accepted(r, n, name, o) ==
    /\ Named(name) \subseteq {o}
    /\ Links(r, n) \ {req[r].look[n]} \subseteq There

(* The name under which the item is added, if it is.                       *)
NewName(c, n) ==
    IF c.found[n] = NoRow THEN n
    ELSE IF c.sol[n] \in Name THEN c.sol[n] ELSE NoName

AddItem(r) ==
    LET c == req[r]
        n == Order[c.at].item
        name == NewName(c, n)
    IN
    /\ At(r, "write") /\ name # NoName
    /\ Kind[n] = "dashboard" => Links(r, n) # {}
    /\ Accepted(r, n, name, NoRow)
    /\ Fresh # NoRow
    /\ rows' = [rows EXCEPT ![Fresh] = Written(r, n, name)]
    /\ Wrote(r, n, Fresh, name)
    /\ Move(r, {name})
    /\ UNCHANGED <<owned, served, broken>>

(* A dashboard reaches the session only through its slices: without any    *)
(* it is not stored, and its permissions are granted all the same.         *)
LoseDashboard(r) ==
    LET c == req[r]
        n == Order[c.at].item
    IN
    /\ At(r, "write") /\ NewName(c, n) # NoName
    /\ Kind[n] = "dashboard" /\ Links(r, n) = {}
    /\ Wrote(r, n, NoRow, NewName(c, n))
    /\ UNCHANGED <<rows, owned, served, moved, broken>>

(* Mutant of Overwrites: whatever is not skipped.                          *)
OverwritesUnlessSkipped(c, n) == c.sol[n] # "skip"

Overwrites(c, n) == c.sol[n] = "overwrite"

(* The row that was found gets the item's name, which it may have lost     *)
(* meanwhile: its permissions are then under another name.                 *)
OverwriteItem(r) ==
    LET c == req[r]
        n == Order[c.at].item
        o == c.found[n]
    IN
    /\ At(r, "write")
    /\ o \in There /\ Overwrites(c, n)
    /\ Accepted(r, n, n, o)
    /\ rows' = [rows EXCEPT ![o] = Written(r, n, n)]
    /\ Wrote(r, n, o, NoName)
    /\ Move(r, {n, rows[o].name})
    /\ broken' = IF rows[o].name = n THEN broken ELSE broken \cup {o}
    /\ UNCHANGED <<owned, served>>

SkipItem(r) ==
    LET c == req[r]
        n == Order[c.at].item
    IN
    /\ At(r, "write")
    /\ c.found[n] # NoRow /\ c.sol[n] = "skip"
    /\ Set(r, [c EXCEPT !.made[n] = c.found[n], !.at = @ + 1])
    /\ UNCHANGED <<rows, owned, served, moved, broken>>

(* overwrite_columns_metrics                                               *)
WriteColumns(r) ==
    LET c == req[r] IN
    /\ c.pc = "columns" /\ c.row \in There
    /\ rows' = [rows EXCEPT ![c.row].from = "file"]
    /\ Set(r, [c EXCEPT !.pc = IF c.grant = NoName THEN "step" ELSE "grant"])
    /\ UNCHANGED <<owned, served, moved, broken>>

GrantOwner(r) ==
    LET c == req[r] IN
    /\ c.pc = "grant"
    /\ owned' = owned \cup {c.grant}
    /\ Set(r, [c EXCEPT !.pc = "step", !.grant = NoName])
    /\ UNCHANGED <<rows, served, moved, broken>>

Done(r) == req[r].pc = "step" /\ req[r].at = Len(Order) + 1

AnswerImport(r) ==
    /\ Done(r)
    /\ Set(r, Idle)
    /\ UNCHANGED <<rows, owned, served, moved, broken>>

(* The user gives up, a commit or the permission service refuses, or the   *)
(* process dies; there is nothing that takes back what was committed.      *)
Fail(r) ==
    /\ req[r].pc # "idle"
    /\ broken' = IF req[r].pc \in {"columns", "grant"} /\ req[r].row # NoRow
                 THEN broken \cup {req[r].row} ELSE broken
    /\ Set(r, Idle)
    /\ UNCHANGED <<rows, owned, served, moved>>

-----------------------------------------------------------------------------
(* Others, whose requests are the subject of GuardianObjects.              *)

(* Rows an import is not done with.                                        *)
Unfinished == {req[r].row : r \in {r \in Request : req[r].pc \in {"columns", "grant"}}}

UserAdds ==
    \E n \in Name :
        /\ served < MaxServed /\ served' = served + 1
        /\ Named(n) = {} /\ Fresh # NoRow
        /\ rows' = [rows EXCEPT ![Fresh] = Users(n)]
        /\ owned' = owned \cup {n}
        /\ moved' = [r \in Request |-> moved[r] \cup {n}]
        /\ UNCHANGED <<req, broken>>

UserRenames ==
    \E o \in There, n \in Name :
        /\ served < MaxServed /\ served' = served + 1
        /\ Named(n) = {} /\ Kind[n] = Kind[rows[o].name]
        /\ rows' = [rows EXCEPT ![o].name = n]
        /\ owned' = IF rows[o].name \in owned THEN (owned \ {rows[o].name}) \cup {n}
                    ELSE owned
        /\ moved' = [r \in Request |-> moved[r] \cup {n, rows[o].name}]
        /\ broken' = IF o \in Unfinished THEN broken \cup {o} ELSE broken
        /\ UNCHANGED req

UserDeletes ==
    \E o \in There :
        /\ served < MaxServed /\ served' = served + 1
        /\ rows' = [p \in Row |-> IF p = o THEN Gone
                                  ELSE [rows[p] EXCEPT !.uses = @ \ {o}]]
        /\ owned' = owned \ {rows[o].name}
        /\ moved' = [r \in Request |-> moved[r] \cup {rows[o].name}]
        /\ UNCHANGED <<req, broken>>

Next ==
    \/ \E r \in Request :
          \/ BeforeImport(r) \/ StartImport(r)
          \/ FindItem(r) \/ LookUp(r)
          \/ AddItem(r) \/ LoseDashboard(r) \/ OverwriteItem(r) \/ SkipItem(r)
          \/ WriteColumns(r) \/ GrantOwner(r) \/ AnswerImport(r) \/ Fail(r)
    \/ UserAdds \/ UserRenames \/ UserDeletes

Spec == Init /\ [][Next]_vars

-----------------------------------------------------------------------------
(* The names n's import depends on.                                        *)
Relied(c, n) == {n} \cup ({c.sol[n]} \cap Name)

(* None of them changed hands, and no other item was renamed to n.         *)
Spared(c, n, gone) ==
    Relied(c, n) \cap gone = {} /\ \A i \in Item : c.sol[i] # n

(* Nor was this the case of what n needs, which it does not lack.          *)
Calm(c, n, gone) ==
    /\ \A m \in {n} \cup Needs[n] : Spared(c, m, gone)
    /\ Kind[n] = "dashboard" => Needs[n] # {}

(* When an import is done, every item of the file is there as the user     *)
(* chose: added where its name was free, overwritten, or added under its   *)
(* new name, each time whole and linked to what became of the items it     *)
(* needs; or left as it was.  Excepted are names that changed hands since  *)
(* the user was shown them, items whose name another item was renamed to,  *)
(* which check_solution does not see, and dashboards without slices.       *)
ImportedAsChosen ==
    \A r \in Request : Done(r) =>
        \A n \in Item :
            LET c == req[r]
                o == c.made[n]
            IN Calm(c, n, moved[r]) =>
                /\ o \in There
                /\ rows[o].name = IF c.sol[n] \in Name THEN c.sol[n] ELSE n
                /\ c.shown[n] = NoRow \/ c.sol[n] # "skip" =>
                      /\ rows[o].from = "file"
                      /\ rows[o].uses = {c.made[m] : m \in Needs[n]}
                /\ c.shown[n] # NoRow /\ c.sol[n] \notin Name => o = c.shown[n]

(* An import changes no row but the one that was shown under a name the    *)
(* user chose to overwrite, and the rows it adds, unless the name changed  *)
(* hands.                                                                  *)
OnlyChosenOverwritten ==
    [][\A o \in There : rows'[o] # rows[o] =>
          \/ served' # served                       \* another user
          \/ \E r \in Request : req[r].pc = "columns" /\ req[r].row = o
          \/ \E r \in Request, n \in Item :
                /\ req[r].sol[n] = "overwrite"
                /\ req[r].shown[n] = o \/ n \in moved[r]]_vars

(* What imports leave is whole: a dataset has its columns and every row    *)
(* its owner, but for rows an import is still at, or failed at.            *)
Whole ==
    \A o \in There \ (broken \cup Unfinished) :
        rows[o].from # "half" /\ rows[o].name \in owned

-----------------------------------------------------------------------------
(* The inductive invariant.                                                *)

(* What an import was shown and what it found still has its name in the    *)
(* database db, unless the name changed hands.                             *)
Remembered(c, gone, db) ==
    /\ c.pc = "grant" => c.grant # NoName
    /\ c.pc # "idle" => \A n \in Item :
          /\ c.shown[n] = NoRow => c.sol[n] # "overwrite"
          /\ c.shown[n] # NoRow /\ n \notin gone => db[c.shown[n]].name = n
          /\ c.found[n] # NoRow =>
                /\ db[c.found[n]].from # "unborn"
                /\ \/ db[c.found[n]].name = n
                   \/ n \in gone /\ db[c.found[n]].name \in gone \cup {NoName}

(* What a row lacks, the import that is still at it will bring.            *)
ToCome(o) ==
    /\ rows[o].from = "half" =>
          \E r \in Request : req[r].pc = "columns" /\ req[r].row = o
    /\ rows[o].name \notin owned =>
          \E r \in Request : /\ req[r].pc \in {"columns", "grant"}
                             /\ req[r].row = o /\ req[r].grant = rows[o].name

Consistent ==
    /\ TypeOK
    /\ \A r \in Request : Remembered(req[r], moved[r], rows)
    /\ \A o \in There \ broken : ToCome(o)

(* n was to be brought from the file.                                      *)
Brought(c, n) == c.shown[n] = NoRow \/ c.sol[n] # "skip"

(* How an import has dealt with n so far.                                  *)
Dealt(c, n, db) ==
    LET o == c.made[n] IN
    /\ c.shown[n] = NoRow => \A p \in Row : db[p].name = n => p = o
    /\ c.shown[n] # NoRow /\ Earlier(c.at, "find", n) => c.found[n] = c.shown[n]
    /\ Earlier(c.at, "write", n) => o # NoRow
    /\ o # NoRow =>
          /\ db[o].name = Called(c, n)
          /\ c.shown[n] # NoRow /\ c.sol[n] \notin Name => o = c.shown[n]
          /\ Brought(c, n) => db[o].from = "file" \/ (c.pc = "columns" /\ c.row = o)

(* What it has linked n to.                                                *)
Linked(c, n, db) ==
    LET needed == {c.made[m] : m \in Needs[n]} IN
    /\ c.made[n] # NoRow /\ Brought(c, n) => db[c.made[n]].uses = needed
    /\ IF Earlier(c.at, "look", n) THEN {c.look[n]} = needed ELSE c.look[n] = NoRow

(* What was checked of a solution.                                         *)
Fits(c, gone) ==
    \A n \in Item :
        /\ c.shown[n] = NoRow => c.sol[n] = "skip"
        /\ c.sol[n] \in Item => c.shown[c.sol[n]] = NoRow \/ c.sol[n] \in gone

(* Dashboards are stored only with what they need.                         *)
Certain(c, n, gone) ==
    Spared(c, n, gone) /\ (Kind[n] = "dashboard" => Calm(c, n, gone))

OnTheWay(c, gone, db) ==
    /\ Fits(c, gone)
    /\ c.pc = "asked" => c = [Idle EXCEPT !.pc = "asked", !.shown = c.shown]
    /\ c.pc # "idle" => \A n \in Item :
          /\ Certain(c, n, gone) => Dealt(c, n, db)
          /\ Calm(c, n, gone) => Linked(c, n, db)

(* Every item an import has passed is as it will have to be at the end.    *)
Underway == \A r \in Request : OnTheWay(req[r], moved[r], rows)
=============================================================================
