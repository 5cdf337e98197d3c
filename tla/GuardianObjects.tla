-------------------------- MODULE GuardianObjects --------------------------
(***************************************************************************)
(* Slices, datasets, connections and dashboards live in the metadata       *)
(* database; who may do what to them lives in the permission service       *)
(* Guardian, under their type and *name*.  Every view changes the database *)
(* first and Guardian second, each in a transaction of its own, and any    *)
(* call to Guardian may fail.                                              *)
(*                                                                         *)
(* A name here is a pair of type and name.  The requests that are being    *)
(* served interleave freely; each action is a database transaction or one  *)
(* call to Guardian.                                                       *)
(***************************************************************************)
EXTENDS Naturals, FiniteSets

CONSTANTS
    User,
    GlobalAdmin,    \* the users with ADMIN on GLOBAL
    Name,           \* names objects may have
    Object,         \* ids of rows; an id is given out once
    Request,        \* the requests served at the same time
    MaxServed,      \* bound on the requests of a behaviour
    Lists,          \* the lists of permissions a grant may name
    Deps,           \* Deps[o]: what grant_relations visits after o
    NoName, NoUser, NoObject

ASSUME ObjectsAssumption ==
    /\ GlobalAdmin \subseteq User
    /\ Deps \in [Object -> SUBSET Object]
    /\ MaxServed \in Nat
    /\ Lists \subseteq (SUBSET {"READ", "EDIT", "ADMIN"}) \ {{}}
    /\ Name \cap {"unborn", "gone"} = {}
    /\ NoName \notin Name /\ NoUser \notin User /\ NoObject \notin Object

VARIABLES
    name,       \* name[o] in the database; Unborn before, Gone after
    perms,      \* Guardian: perms[n], a set of pairs of user and permission
    req,        \* req[r]: the request slot r serves, or Idle
    served,     \* how many requests were begun
    acl,        \* acl[o]: what was granted on o and not revoked
    astray      \* the names whose permissions may be another object's

vars == <<name, perms, req, served, acl, astray>>

ALL_PERMS == {"READ", "EDIT", "ADMIN"}
OWNER_PERMS == {"READ", "EDIT"}
EDIT_PERMS == {"EDIT", "ADMIN"}
ADMIN_PERMS == {"ADMIN"}

Unborn == "unborn"
Gone == "gone"
State == {Unborn, Gone} \* in place of a name
Right == User \X ALL_PERMS

Op == {"add", "edit", "overwrite", "delete", "grant", "revoke"}
Pc == {"check", "commit", "reread", "find", "next", "visit", "grant",
       "revoke", "rename", "drop"}
Call == [op : Op, pc : Pc, user : User, obj : Object \cup {NoObject},
         old : Name \cup {NoName}, new : Name \cup {NoName},
         who : User \cup {NoUser}, all : SUBSET ALL_PERMS,
         left : SUBSET ALL_PERMS, todo : SUBSET Object]
Idle == [op |-> "none", pc |-> "idle", user |-> NoUser, obj |-> NoObject,
         old |-> NoName, new |-> NoName, who |-> NoUser, all |-> {},
         left |-> {}, todo |-> {}]

TypeOK ==
    /\ name \in [Object -> Name \cup State]
    /\ perms \in [Name -> SUBSET Right]
    /\ req \in [Request -> Call \cup {Idle}]
    /\ served \in 0..MaxServed
    /\ acl \in [Object -> SUBSET Right]
    /\ astray \subseteq Name

Init ==
    /\ name = [o \in Object |-> Unborn]
    /\ perms = [n \in Name |-> {}]
    /\ req = [r \in Request |-> Idle]
    /\ served = 0
    /\ acl = [o \in Object |-> {}]
    /\ astray = {}

-----------------------------------------------------------------------------
(* Which names go astray.                                                  *)

(* The names a request relies on at this moment.                           *)
Uses(r) ==
    {n \in Name : \/ n = req[r].old
                  \/ n = req[r].new /\ req[r].pc \in {"reread", "rename"}}

(* Requests that change which object has a name.                           *)
Renames(r) == req[r].op \in {"add", "edit", "overwrite", "delete"}

(* Two requests meet on a name and one of them renames.                    *)
Clash ==
    {n \in Name : \E r, s \in Request :
        /\ r # s
        /\ Renames(r)
        /\ Uses(r) \cap Uses(s) # {}
        /\ n \in Uses(r) \cup Uses(s)}

(* Ghost part of every step: B has been left behind in disorder, requests  *)
(* may have met, and renaming carries disorder along.                      *)
Stray(B) ==
    LET s == astray \cup B \cup Clash' IN
    astray' = s \cup {n \in Name : \E r \in Request :
                         /\ Renames(r)'
                         /\ n \in Uses(r)'
                         /\ Uses(r)' \cap s # {}}

-----------------------------------------------------------------------------
May(u, n, actions) ==
    u \in GlobalAdmin \/ \E a \in actions : <<u, a>> \in perms[n]

Free(n) == \A o \in Object : name[o] # n

Go(r, pc) == req' = [req EXCEPT ![r].pc = pc]
End(r) == req' = [req EXCEPT ![r] = Idle]

(* The next object of a request that works through several, or its end.    *)
Proceed(r) ==
    req' = [req EXCEPT ![r] =
              IF req[r].todo = {} THEN Idle
              ELSE [req[r] EXCEPT !.pc = "next", !.obj = NoObject,
                                  !.old = NoName]]

(* A request that fails ends; ConnectionView.muldelete calls the view of   *)
(* each connection, which swallows the exception, and goes on.             *)
Abort(r) ==
    \/ End(r)
    \/ req[r].op = "delete" /\ Proceed(r)

Start(r, call) ==
    /\ req[r] = Idle /\ served < MaxServed
    /\ req' = [req EXCEPT ![r] = call]
    /\ served' = served + 1
    /\ Stray({})
    /\ UNCHANGED <<name, perms, acl>>

-----------------------------------------------------------------------------
(* add, copy_dash and save_slice.                                          *)

Reserved(o) == \E r \in Request : req[r].op = "add" /\ req[r].obj = o

StartAdd(r) ==
    \E u \in User, o \in Object, n \in Name :
        /\ name[o] = Unborn /\ ~Reserved(o)
        /\ Start(r, [Idle EXCEPT !.op = "add", !.pc = "commit", !.user = u,
                                 !.obj = o, !.new = n])

(* The unique constraint on the name decides.                              *)
CommitAdd(r) ==
    LET c == req[r] IN
    /\ c.op = "add" /\ c.pc = "commit"
    /\ \/ /\ Free(c.new)
          /\ name' = [name EXCEPT ![c.obj] = c.new]
          /\ acl' = [acl EXCEPT ![c.obj] = {c.user} \X OWNER_PERMS]
          /\ req' = [req EXCEPT ![r] =
                       [c EXCEPT !.pc = "reread", !.old = c.new, !.who = c.user,
                                 !.all = OWNER_PERMS, !.left = OWNER_PERMS]]
       \/ ~Free(c.new) /\ End(r) /\ UNCHANGED <<name, acl>>
    /\ Stray({})
    /\ UNCHANGED perms

-----------------------------------------------------------------------------
(* edit, and overwrite_slice, which never tells Guardian of the new name.  *)

(* Mutant of StartEdit: the object is not copied before the new name is    *)
(* set, so that the permissions of the new name are checked.               *)
StartEditUncopied(r) ==
    \E u \in User, o \in Object, n \in Name, op \in {"edit", "overwrite"} :
        /\ name[o] \in Name
        /\ Start(r, [Idle EXCEPT !.op = op, !.pc = "check", !.user = u,
                                 !.obj = o, !.old = n, !.new = n])

StartEdit(r) ==
    \E u \in User, o \in Object, n \in Name, op \in {"edit", "overwrite"} :
        /\ name[o] \in Name
        /\ Start(r, [Idle EXCEPT !.op = op, !.pc = "check", !.user = u,
                                 !.obj = o, !.old = name[o], !.new = n])

(* check_edit_perm and check_delete_perm.                                  *)
Check(r) ==
    /\ req[r].op \in {"edit", "overwrite", "delete"} /\ req[r].pc = "check"
    /\ \/ May(req[r].user, req[r].old, EDIT_PERMS) /\ Go(r, "commit")
       \/ ~May(req[r].user, req[r].old, EDIT_PERMS) /\ Abort(r)
    /\ Stray({})
    /\ UNCHANGED <<name, perms, acl>>

(* The UPDATE finds no row if the object is gone, and leaves the name      *)
(* alone if the request did not change it.                                 *)
CommitEdit(r) ==
    LET c == req[r] IN
    /\ c.op = "edit" /\ c.pc = "commit"
    /\ \/ /\ name[c.obj] \in Name /\ c.new # c.old
          /\ Free(c.new) \/ name[c.obj] = c.new
          /\ name' = [name EXCEPT ![c.obj] = c.new]
          /\ Go(r, "reread")
       \/ /\ \/ c.new = c.old
             \/ name[c.obj] \notin Name
             \/ ~Free(c.new) /\ name[c.obj] # c.new
          /\ End(r)
          /\ UNCHANGED name
    /\ Stray({})
    /\ UNCHANGED <<perms, acl>>

(* A commit expires the object: the name Guardian is told is read again    *)
(* from the database.  A row that is gone raises, and a name that is the   *)
(* old one again needs no renaming.                                        *)
Reread(r) ==
    LET c == req[r]
        n == name[c.obj] IN
    /\ c.pc = "reread"
    /\ \/ /\ c.op = "add" /\ n \in Name
          /\ req' = [req EXCEPT ![r] = [c EXCEPT !.pc = "grant", !.old = n]]
       \/ /\ c.op = "edit" /\ n \in Name \ {c.old}
          /\ req' = [req EXCEPT ![r] = [c EXCEPT !.pc = "rename", !.new = n]]
       \/ /\ n \notin Name \/ (c.op = "edit" /\ n = c.old)
          /\ End(r)
    /\ Stray({})
    /\ UNCHANGED <<name, perms, acl>>

(* Mutant of RenamePermObj: Guardian is not told of the new name.           *)
RenameNothing(r) ==
    LET c == req[r] IN
    /\ c.op = "edit" /\ c.pc = "rename"
    /\ End(r)
    /\ Stray({})
    /\ UNCHANGED <<name, perms, acl>>

RenamePermObj(r) ==
    LET c == req[r] IN
    /\ c.op = "edit" /\ c.pc = "rename"
    /\ perms' = [perms EXCEPT ![c.old] = {},
                              ![c.new] = perms[c.old] \cup perms[c.new]]
    /\ End(r)
    /\ Stray({})
    /\ UNCHANGED <<name, acl>>

(* session.merge writes the row back even if it is gone.                   *)
CommitOverwrite(r) ==
    LET c == req[r] IN
    /\ c.op = "overwrite" /\ c.pc = "commit"
    /\ \/ /\ Free(c.new) \/ name[c.obj] = c.new
          /\ name' = [name EXCEPT ![c.obj] = c.new]
          /\ End(r)
          /\ Stray(IF c.new = c.old THEN {} ELSE {c.old, c.new})
       \/ /\ ~Free(c.new) /\ name[c.obj] # c.new
          /\ End(r)
          /\ Stray({})
          /\ UNCHANGED name
    /\ UNCHANGED <<perms, acl>>

-----------------------------------------------------------------------------
(* delete and muldelete.                                                   *)

StartDelete(r) ==
    \E u \in User, os \in SUBSET {o \in Object : name[o] \in Name} :
        /\ os # {}
        /\ Start(r, [Idle EXCEPT !.op = "delete", !.pc = "next", !.user = u,
                                 !.todo = os])

(* Mutant of NextDelete: a row that is gone is not noticed.                *)
NextDeleteUnchecked(r) ==
    LET c == req[r] IN
    /\ c.op = "delete" /\ c.pc = "next"
    /\ \E o \in c.todo :
          req' = [req EXCEPT ![r] =
                    [c EXCEPT !.pc = "check", !.obj = o, !.old = name[o],
                              !.todo = c.todo \ {o}]]
    /\ Stray({})
    /\ UNCHANGED <<name, perms, acl>>

(* The name is read again after every commit; a row that is gone raises.   *)
NextDelete(r) ==
    LET c == req[r] IN
    /\ c.op = "delete" /\ c.pc = "next"
    /\ \E o \in c.todo :
          IF name[o] \in Name
          THEN req' = [req EXCEPT ![r] =
                         [c EXCEPT !.pc = "check", !.obj = o, !.old = name[o],
                                   !.todo = c.todo \ {o}]]
          ELSE \/ End(r)
               \/ req' = [req EXCEPT ![r].todo = c.todo \ {o}]
    /\ Stray({})
    /\ UNCHANGED <<name, perms, acl>>

(* A DELETE that matches no row is only worth a warning.                   *)
CommitDelete(r) ==
    LET c == req[r] IN
    /\ c.op = "delete" /\ c.pc = "commit"
    /\ name' = [name EXCEPT ![c.obj] = Gone]
    /\ acl' = [acl EXCEPT ![c.obj] = {}]
    /\ Go(r, "drop")
    /\ Stray({})
    /\ UNCHANGED perms

(* Mutant of DelPermObj: only the permissions of the requester go.         *)
DelOwnPerms(r) ==
    /\ req[r].op = "delete" /\ req[r].pc = "drop"
    /\ perms' = [perms EXCEPT ![req[r].old] = @ \ ({req[r].user} \X ALL_PERMS)]
    /\ Proceed(r)
    /\ Stray({})
    /\ UNCHANGED <<name, acl>>

DelPermObj(r) ==
    /\ req[r].op = "delete" /\ req[r].pc = "drop"
    /\ perms' = [perms EXCEPT ![req[r].old] = {}]
    /\ Proceed(r)
    /\ Stray({})
    /\ UNCHANGED <<name, acl>>

-----------------------------------------------------------------------------
(* Granting and revoking, by a name the request gives.                     *)

StartGrant(r) ==
    \E u, v \in User, n \in Name, as \in Lists,
       op \in {"grant", "revoke"} :
        /\ op = "revoke" => u # v
        /\ Start(r, [Idle EXCEPT !.op = op, !.pc = "check", !.user = u,
                                 !.old = n, !.who = v, !.all = as,
                                 !.left = as])

(* check_grant_perm and check_revoke_perm.                                 *)
CheckAdmin(r) ==
    LET c == req[r] IN
    /\ c.op \in {"grant", "revoke"} /\ c.pc = "check"
    /\ \/ /\ May(c.user, c.old, ADMIN_PERMS)
          /\ Go(r, IF c.op = "grant" THEN "find" ELSE "revoke")
       \/ ~May(c.user, c.old, ADMIN_PERMS) /\ End(r)
    /\ Stray({})
    /\ UNCHANGED <<name, perms, acl>>

Find(r) ==
    LET c == req[r] IN
    /\ c.op = "grant" /\ c.pc = "find"
    /\ \/ \E o \in Object : name[o] = c.old
                         /\ req' = [req EXCEPT ![r].obj = o, ![r].pc = "visit"]
       \/ Free(c.old) /\ End(r)
    /\ Stray({})
    /\ UNCHANGED <<name, perms, acl>>

(* grant_relations: an object the requester is no administrator of is      *)
(* passed over, and so is everything it depends on.                        *)
Visit(r) ==
    LET c == req[r] IN
    /\ c.op = "grant" /\ c.pc = "visit"
    /\ \/ /\ May(c.user, c.old, ADMIN_PERMS)
          /\ req' = [req EXCEPT ![r].pc = "grant", ![r].left = c.all]
       \/ ~May(c.user, c.old, ADMIN_PERMS) /\ Proceed(r)
    /\ Stray({})
    /\ UNCHANGED <<name, perms, acl>>

NextGrant(r) ==
    LET c == req[r] IN
    /\ c.op = "grant" /\ c.pc = "next"
    /\ \E o \in c.todo :
          IF name[o] \in Name
          THEN req' = [req EXCEPT ![r] =
                         [c EXCEPT !.pc = "visit", !.obj = o, !.old = name[o],
                                   !.todo = c.todo \ {o}]]
          ELSE req' = [req EXCEPT ![r] =
                         IF c.todo = {o} THEN Idle
                         ELSE [c EXCEPT !.todo = c.todo \ {o}]]
    /\ Stray({})
    /\ UNCHANGED <<name, perms, acl>>

(* What follows the last permission of the list: the dependencies, if it   *)
(* was a grant.                                                            *)
AfterLast(c) ==
    LET todo == IF c.op = "grant" THEN c.todo \cup Deps[c.obj] ELSE {} IN
    IF todo = {} THEN Idle
    ELSE [c EXCEPT !.pc = "next", !.obj = NoObject, !.old = NoName,
                   !.todo = todo]

(* admin.grant, one call to Guardian for each permission of the list.      *)
Grant(r) ==
    LET c == req[r] IN
    /\ c.op \in {"add", "grant"} /\ c.pc = "grant"
    /\ \E a \in c.left :
          /\ perms' = [perms EXCEPT ![c.old] = @ \cup {<<c.who, a>>}]
          /\ acl' = [acl EXCEPT ![c.obj] = @ \cup {<<c.who, a>>}]
          /\ req' = [req EXCEPT ![r] =
                       IF c.left = {a} THEN AfterLast(c)
                       ELSE [c EXCEPT !.left = c.left \ {a}]]
    /\ Stray({})
    /\ UNCHANGED name

(* do_revoke does not look at the object, nor at what it depends on.       *)
Revoke(r) ==
    LET c == req[r] IN
    /\ c.op = "revoke" /\ c.pc = "revoke"
    /\ \E a \in c.left :
          /\ perms' = [perms EXCEPT ![c.old] = @ \ {<<c.who, a>>}]
          /\ acl' = [o \in Object |-> IF name[o] = c.old
                                      THEN acl[o] \ {<<c.who, a>>} ELSE acl[o]]
          /\ req' = [req EXCEPT ![r] =
                       IF c.left = {a} THEN Idle
                       ELSE [c EXCEPT !.left = c.left \ {a}]]
    /\ Stray({})
    /\ UNCHANGED name

(* catch_guardian_exception: after a new login the list starts again.      *)
LoginAgain(r) ==
    /\ req[r].pc \in {"grant", "revoke"}
    /\ req' = [req EXCEPT ![r].left = req[r].all]
    /\ Stray({})
    /\ UNCHANGED <<name, perms, acl>>

(* A request has changed the database and not yet Guardian.                *)
Committed(c) ==
    \/ c.pc \in {"reread", "rename", "drop"}
    \/ c.op = "add" /\ c.pc = "grant"

(* Guardian fails, or the process that serves the request dies.  A request *)
(* that has committed and not yet told Guardian leaves its names astray.   *)
Fail(r) ==
    /\ req[r] # Idle
    /\ Abort(r)
    /\ Stray(IF Committed(req[r]) THEN Uses(r) ELSE {})
    /\ UNCHANGED <<name, perms, acl>>

-----------------------------------------------------------------------------
Begin(r) == StartAdd(r) \/ StartEdit(r) \/ StartDelete(r) \/ StartGrant(r)

Continue(r) ==
    \/ CommitAdd(r)
    \/ Check(r) \/ CommitEdit(r) \/ Reread(r) \/ RenamePermObj(r)
    \/ CommitOverwrite(r)
    \/ NextDelete(r) \/ CommitDelete(r) \/ DelPermObj(r)
    \/ CheckAdmin(r) \/ Find(r) \/ Visit(r) \/ NextGrant(r)
    \/ Grant(r) \/ Revoke(r)
    \/ LoginAgain(r) \/ Fail(r)

Next == \E r \in Request : Begin(r) \/ (Continue(r) /\ UNCHANGED served)

Spec == Init /\ [][Next]_vars

-----------------------------------------------------------------------------
(* What the object called n was granted; nothing if there is none.         *)
Rights(n) == {p \in Right : \E o \in Object : name[o] = n /\ p \in acl[o]}

Unfinished(n) == \E r \in Request : n \in Uses(r) /\ Committed(req[r])

(* Unless a name was left astray or is being moved, Guardian knows of it   *)
(* exactly what was granted on the object that has it now: its owner's     *)
(* permissions survive renames, a new object inherits nothing from one     *)
(* that had its name before, and a revoked permission stays revoked.       *)
PermissionsMatch ==
    \A n \in Name : n \notin astray /\ ~Unfinished(n) => perms[n] = Rights(n)

(* A request about to write a name that is not astray writes the object    *)
(* whose permissions were checked, though the check was by name and the    *)
(* write is by id.                                                         *)
CheckedIsWritten ==
    \A r \in Request :
        /\ req[r].pc = "commit" /\ req[r].op \in {"edit", "overwrite", "delete"}
        /\ req[r].old \notin astray
        => name[req[r].obj] = req[r].old

-----------------------------------------------------------------------------
(* The inductive invariant.                                                *)

(* What a request has at each of its steps.                                *)
Shape(c) ==
    \/ c = Idle
    \/ c.op = "add" /\ c.pc = "commit" /\ c.obj \in Object /\ c.old = NoName
       /\ c.new \in Name /\ name[c.obj] = Unborn
    \/ c.op = "add" /\ c.pc \in {"reread", "grant"}
       /\ c.obj \in Object /\ c.old \in Name
       /\ c.who = c.user /\ c.user \in User
       /\ (c.pc = "reread" => c.new = c.old)
       /\ c.all = OWNER_PERMS /\ c.left \subseteq OWNER_PERMS
    \/ c.op \in {"edit", "overwrite"} /\ c.pc \in {"check", "commit"}
       /\ c.obj \in Object /\ c.old \in Name /\ c.new \in Name
    \/ c.op = "edit" /\ c.pc \in {"reread", "rename"} /\ c.obj \in Object
       /\ c.old \in Name /\ c.new \in Name /\ c.old # c.new
    \/ c.op = "delete" /\ c.pc = "next" /\ c.old = NoName
    \/ c.op = "delete" /\ c.pc \in {"check", "commit", "drop"}
       /\ c.obj \in Object /\ c.old \in Name
    \/ c.op = "grant" /\ c.who \in User
       /\ \/ c.pc = "next" /\ c.old = NoName
          \/ c.pc \in {"check", "find"} /\ c.old \in Name
          \/ c.pc \in {"visit", "grant"} /\ c.obj \in Object /\ c.old \in Name
    \/ c.op = "revoke" /\ c.pc \in {"check", "revoke"} /\ c.old \in Name

(* A request that knows its object by a name it read before.               *)
Holds(c) ==
    \/ c.op \in {"edit", "overwrite", "delete"} /\ c.pc \in {"check", "commit"}
    \/ c.op = "grant" /\ c.pc \in {"visit", "grant"}
    \/ c.op = "add" /\ c.pc \in {"reread", "grant"}

(* The name is still right, or both names have gone astray.                *)
Held(c) ==
    Holds(c) => /\ name[c.obj] # Unborn
                /\ c.old \notin astray => name[c.obj] = c.old
                /\ name[c.obj] \in Name \ {c.old} => name[c.obj] \in astray

(* Between the database and Guardian.                                      *)
Halfway(c) ==
    /\ c.op = "add" /\ Committed(c) /\ c.old \notin astray =>
          /\ acl[c.obj] = perms[c.old] \cup ({c.user} \X c.left)
          /\ {c.user} \X OWNER_PERMS \subseteq acl[c.obj]
    /\ c.op = "edit" /\ Committed(c) /\ {c.old, c.new} \cap astray = {} =>
          /\ name[c.obj] = c.new /\ Free(c.old)
          /\ perms[c.old] = acl[c.obj] /\ perms[c.new] = {}
    /\ c.op = "delete" /\ c.pc = "drop" /\ c.old \notin astray => Free(c.old)

UniqueNames ==
    \A o, p \in Object : name[o] \in Name /\ name[o] = name[p] => o = p

AddsApart ==
    \A r, s \in Request :
        /\ req[r].op = "add" /\ req[s].op = "add"
        /\ req[r].pc = "commit" /\ req[r].obj = req[s].obj
        => r = s

Spread ==
    \A r \in Request :
        Renames(r) /\ Uses(r) \cap astray # {} => Uses(r) \subseteq astray

Consistent ==
    /\ TypeOK
    /\ UniqueNames /\ AddsApart
    /\ Clash \subseteq astray /\ Spread
    /\ \A r \in Request : Shape(req[r]) /\ Held(req[r]) /\ Halfway(req[r])
    /\ PermissionsMatch
=============================================================================
