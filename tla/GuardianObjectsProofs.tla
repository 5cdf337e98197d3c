----------------------- MODULE GuardianObjectsProofs -----------------------
(***************************************************************************)
(* Proofs about GuardianObjects: for any users, names, objects and number  *)
(* of concurrent requests, Guardian and the database agree on every name   *)
(* that did not go astray.                                                 *)
(*                                                                         *)
(* Consistent is inductive.  Most steps change only what one request is    *)
(* about to do (lemma QuietStep); the eight steps that change the database *)
(* or Guardian are proved one by one, and lemma Frame says once what such  *)
(* a step owes to the requests that did not take it.                       *)
(***************************************************************************)
EXTENDS GuardianObjects, TLAPS

USE ObjectsAssumption

(* Stray keeps the ghost closed: whatever a step does, names on which      *)
(* requests meet go astray, and renaming carries disorder along.           *)
LEMMA StrayCloses ==
    ASSUME NEW B \in SUBSET Name, TypeOK, Stray(B)
    PROVE  /\ astray' \subseteq Name
           /\ astray \cup B \subseteq astray'
           /\ (Clash \subseteq astray)'
           /\ Spread'
<1> DEFINE s == astray \cup B \cup Clash'
<1>1. astray' = s \cup {n \in Name : \E r \in Request :
                           /\ Renames(r)' /\ n \in Uses(r)'
                           /\ Uses(r)' \cap s # {}}
  BY DEF Stray
<1>2. Clash' \subseteq s /\ Clash' \subseteq Name
  BY DEF Clash
<1>3. \A r \in Request : Uses(r)' \subseteq Name
  BY DEF Uses
<1>4. astray' \subseteq Name
  BY <1>1, <1>2 DEF TypeOK
<1>5. ASSUME NEW r \in Request, Renames(r)', Uses(r)' \cap astray' # {}
      PROVE  Uses(r)' \subseteq astray'
  <2>1. PICK n \in Uses(r)' : n \in astray'
    BY <1>5
  <2>2. CASE n \in s
    BY <2>1, <2>2, <1>1, <1>3, <1>5
  <2>3. CASE n \notin s
    <3>1. PICK q \in Request : /\ Renames(q)' /\ n \in Uses(q)'
                               /\ Uses(q)' \cap s # {}
      BY <2>1, <2>3, <1>1
    <3>2. CASE q = r
      BY <3>1, <3>2, <1>1, <1>3
    <3>3. CASE q # r
      <4>1. n \in Clash'
        BY <3>1, <3>3, <2>1, <1>3 DEF Clash
      <4> QED BY <4>1, <1>2, <2>3
    <3> QED BY <3>2, <3>3
  <2> QED BY <2>2, <2>3
<1>6. Spread'
  BY <1>5 DEF Spread
<1> QED BY <1>1, <1>2, <1>4, <1>6

(* Two requests, one of which renames, share no name that is not astray.   *)
LEMMA CleanNamesApart ==
    ASSUME Clash \subseteq astray, NEW r \in Request, NEW s \in Request, r # s,
           Renames(r) \/ Renames(s), NEW n \in Uses(r), n \in Uses(s)
    PROVE  Uses(r) \cup Uses(s) \subseteq astray
<1>1. \A m \in Uses(r) \cup Uses(s) : m \in Name
  BY DEF Uses
<1>2. \A m \in Uses(r) \cup Uses(s) : m \in Clash
  BY <1>1 DEF Clash
<1> QED BY <1>2

(* What a step of r owes to the other requests: on a clean name that one   *)
(* of them uses, it moves no object, and changes no permission if that     *)
(* request renames; an object that another request holds gets no clean     *)
(* name.                                                                   *)
Leaves(r) ==
    /\ \A s \in Request \ {r} : req'[s] = req[s]
    /\ \A o \in Object : name'[o] = Unborn => name[o] = Unborn
    /\ \A o \in Object : name[o] = Unborn /\ name'[o] # Unborn =>
          req[r].op = "add" /\ req[r].pc = "commit" /\ req[r].obj = o
    /\ \A s \in Request \ {r} : \A n \in Uses(s) \ astray' :
          /\ \A o \in Object : name'[o] = n <=> name[o] = n
          /\ Renames(s) => /\ perms'[n] = perms[n]
                           /\ \A o \in Object : name[o] = n => acl'[o] = acl[o]
    /\ \A s \in Request \ {r} : Holds(req[s]) =>
          LET o == req[s].obj IN
          name'[o] # name[o] /\ name'[o] \in Name => name'[o] \in astray'

(* A request that begins to add has an object of its own.                  *)
AddsOwn(r) ==
    req'[r].op = "add" =>
        \/ req[r].op = "add" /\ req[r].obj = req'[r].obj
           /\ (req'[r].pc = "commit" => req[r].pc = "commit")
        \/ \A s \in Request : ~(req[s].op = "add" /\ req[s].obj = req'[r].obj)

LEMMA Frame ==
    ASSUME Consistent, NEW r \in Request, NEW B \in SUBSET Name, Stray(B),
           TypeOK', UniqueNames', PermissionsMatch', Leaves(r), AddsOwn(r),
           Shape(req[r])', Held(req[r])', Halfway(req[r])'
    PROVE  Consistent'
<1>1. astray \subseteq astray' /\ (Clash \subseteq astray)' /\ Spread'
  BY StrayCloses DEF Consistent
<1>2. AddsApart'
  BY DEF Consistent, AddsApart, Leaves, AddsOwn, TypeOK
<1>3. ASSUME NEW s \in Request, s # r
      PROVE  Shape(req[s])' /\ Held(req[s])' /\ Halfway(req[s])'
  <2>1. Shape(req[s]) /\ Held(req[s]) /\ Halfway(req[s]) /\ req'[s] = req[s]
    BY <1>3 DEF Consistent, Leaves
  <2>2. Shape(req[s])'
    <3>1. ASSUME req[s].op = "add", req[s].pc = "commit"
          PROVE  name'[req[s].obj] = Unborn
      BY <2>1, <1>3, <3>1 DEF Consistent, AddsApart, Leaves, Shape, Idle
    <3> QED BY <2>1, <3>1 DEF Shape, Idle
  <2>3. Holds(req[s]) => /\ req[s].obj \in Object /\ req[s].old \in Name
                         /\ req[s].old \in Uses(s)
    BY <2>1 DEF Holds, Shape, Idle, Uses
  <2>4. Held(req[s])'
    <3> SUFFICES ASSUME Holds(req[s])
                 PROVE  /\ name'[req[s].obj] # Unborn
                        /\ req[s].old \notin astray' =>
                              name'[req[s].obj] = req[s].old
                        /\ name'[req[s].obj] \in Name \ {req[s].old} =>
                              name'[req[s].obj] \in astray'
      BY <2>1 DEF Held, Holds
    <3> QED BY <2>1, <2>3, <1>1, <1>3 DEF Held, Leaves
  <2>5. Halfway(req[s])'
    <3>1. ASSUME req[s].op = "add", Committed(req[s]), req[s].old \notin astray'
          PROVE  /\ acl'[req[s].obj] = perms'[req[s].old]
                                       \cup ({req[s].user} \X req[s].left)
                 /\ {req[s].user} \X OWNER_PERMS \subseteq acl'[req[s].obj]
      <4>1. Holds(req[s]) /\ Renames(s)
        BY <3>1, <2>1 DEF Holds, Renames, Committed, Shape, Idle
      <4>2. name[req[s].obj] = req[s].old
        BY <4>1, <2>1, <3>1, <1>1 DEF Held
      <4>3. acl'[req[s].obj] = acl[req[s].obj] /\ perms'[req[s].old] = perms[req[s].old]
        BY <4>1, <4>2, <2>3, <3>1, <1>3 DEF Leaves
      <4> QED BY <4>3, <2>1, <3>1, <1>1 DEF Halfway, Committed
    <3>2. ASSUME req[s].op = "edit", Committed(req[s]),
                 {req[s].old, req[s].new} \cap astray' = {}
          PROVE  /\ name'[req[s].obj] = req[s].new /\ Free(req[s].old)'
                 /\ perms'[req[s].old] = acl'[req[s].obj]
                 /\ perms'[req[s].new] = {}
      <4>1. /\ name[req[s].obj] = req[s].new /\ Free(req[s].old)
            /\ perms[req[s].old] = acl[req[s].obj] /\ perms[req[s].new] = {}
        BY <2>1, <3>2, <1>1 DEF Halfway, Committed
      <4>2. /\ req[s].obj \in Object /\ Renames(s)
            /\ req[s].old \in Uses(s) /\ req[s].new \in Uses(s)
        BY <2>1, <3>2 DEF Shape, Idle, Uses, Renames, Committed
      <4> QED BY <4>1, <4>2, <3>2, <1>3, <2>1 DEF Leaves, Free
    <3>3. ASSUME req[s].op = "delete", req[s].pc = "drop",
                 req[s].old \notin astray'
          PROVE  Free(req[s].old)'
      <4>1. Free(req[s].old)
        BY <2>1, <3>3, <1>1 DEF Halfway, Committed
      <4>2. req[s].old \in Uses(s)
        BY <2>1, <3>3 DEF Shape, Idle, Uses
      <4> QED BY <4>1, <4>2, <3>3, <1>3, <2>1 DEF Leaves, Free
    <3> QED BY <3>1, <3>2, <3>3, <2>1 DEF Halfway, Committed
  <2> QED BY <2>2, <2>4, <2>5
<1>4. \A s \in Request : (Shape(req[s]) /\ Held(req[s]) /\ Halfway(req[s]))'
  BY <1>3
<1> QED BY <1>1, <1>2, <1>4 DEF Consistent

(* A step that changes neither the database nor Guardian.  If it leaves a  *)
(* request's work half done, the names are in B and go astray.             *)
LEMMA QuietStep ==
    ASSUME Consistent, NEW r \in Request, NEW B \in SUBSET Name, Stray(B),
           NEW c, c \in Call \cup {Idle}, req' = [req EXCEPT ![r] = c],
           served' \in 0..MaxServed, UNCHANGED <<name, perms, acl>>,
           AddsOwn(r), Shape(c), Held(c),
           Halfway(c),
           Committed(req[r]) =>
              \A n \in Uses(r) \ astray' : Committed(c) /\ n \in Uses(r)'
    PROVE  Consistent'
<1>1. /\ astray \subseteq astray' /\ astray' \subseteq Name
      /\ B \subseteq astray'
  BY StrayCloses DEF Consistent
<1>2. req'[r] = c /\ \A s \in Request \ {r} : req'[s] = req[s]
  BY DEF Consistent, TypeOK
<1>3. TypeOK'
  BY <1>1 DEF Consistent, TypeOK
<1>4. UniqueNames'
  BY DEF Consistent, UniqueNames
<1>5. Shape(req[r])' /\ Halfway(req[r])'
  BY <1>1, <1>2 DEF Shape, Halfway, Committed, Free
<1>6. Held(req[r])'
  BY <1>1, <1>2 DEF Held, Holds
<1>7. Leaves(r)
  BY <1>2 DEF Leaves
<1>8. PermissionsMatch'
  <2> SUFFICES ASSUME NEW n \in Name, n \notin astray', ~Unfinished(n)'
               PROVE  perms'[n] = Rights(n)'
    BY DEF PermissionsMatch
  <2>1. ~Unfinished(n)
    <3> SUFFICES ASSUME Unfinished(n) PROVE FALSE
      OBVIOUS
    <3>1. PICK s \in Request : n \in Uses(s) /\ Committed(req[s])
      BY DEF Unfinished
    <3>2. CASE s # r
      <4>1. req'[s] = req[s] /\ n \in Uses(s)'
        BY <3>1, <3>2, <1>2 DEF Uses
      <4> QED BY <3>1, <4>1 DEF Unfinished, Committed
    <3>3. CASE s = r
      <4>1. Committed(req[r])' /\ n \in Uses(r)'
        BY <3>1, <3>3, <1>2 DEF Committed
      <4> QED BY <4>1 DEF Unfinished
    <3> QED BY <3>2, <3>3
  <2>2. n \notin astray
    BY <1>1
  <2>3. Rights(n)' = Rights(n)
    BY DEF Rights
  <2> QED BY <2>1, <2>2, <2>3 DEF Consistent, PermissionsMatch
<1> QED BY <1>3, <1>4, <1>5, <1>6, <1>7, <1>8, Frame

(* Idle is neither working on an object nor halfway.                       *)
LEMMA IdleIsQuiet == Shape(Idle) /\ Held(Idle) /\ Halfway(Idle)
BY DEF Shape, Held, Holds, Halfway, Committed, Idle

(* A request that is not at commit, grant, rename or drop, and holds no    *)
(* name, needs its shape only.                                             *)
LEMMA LooseIsQuiet ==
    ASSUME NEW c, ~Holds(c), ~Committed(c)
    PROVE  Held(c) /\ Halfway(c)
BY DEF Held, Holds, Halfway, Committed

(* A request begins.                                                       *)
LEMMA BeginStep ==
    ASSUME Consistent, NEW r \in Request, Begin(r)
    PROVE  Consistent'
<1>1. ASSUME NEW c, Start(r, c)
      PROVE  /\ req[r] = Idle /\ req' = [req EXCEPT ![r] = c] /\ req'[r] = c
             /\ Stray({}) /\ UNCHANGED <<name, perms, acl>>
             /\ served' \in 0..MaxServed
  BY <1>1 DEF Start, Consistent, TypeOK
<1>2. CASE StartAdd(r)
  <2>1. PICK u \in User, o \in Object, n \in Name :
           /\ name[o] = Unborn /\ ~Reserved(o)
           /\ Start(r, [Idle EXCEPT !.op = "add", !.pc = "commit", !.user = u,
                                    !.obj = o, !.new = n])
    BY <1>2 DEF StartAdd
  <2> DEFINE c == [Idle EXCEPT !.op = "add", !.pc = "commit", !.user = u,
                               !.obj = o, !.new = n]
  <2>2. c \in Call \cup {Idle} /\ Shape(c) /\ c.op = "add" /\ c.obj = o
        /\ c.pc = "commit"
    BY <2>1 DEF Call, Idle, Shape, Op, Pc, ALL_PERMS
  <2>3. Held(c) /\ Halfway(c)
    BY <2>2 DEF Held, Holds, Halfway, Committed
  <2>4. AddsOwn(r)
    BY <2>1, <2>2, <1>1 DEF AddsOwn, Reserved
  <2> HIDE DEF c
  <2>5. Start(r, c)
    BY <2>1 DEF c
  <2> QED BY <2>2, <2>3, <2>4, <2>5, <1>1, QuietStep DEF Committed, Idle
<1>3. CASE StartEdit(r)
  <2>1. PICK u \in User, o \in Object, n \in Name, op \in {"edit", "overwrite"} :
           /\ name[o] \in Name
           /\ Start(r, [Idle EXCEPT !.op = op, !.pc = "check", !.user = u,
                                    !.obj = o, !.old = name[o], !.new = n])
    BY <1>3 DEF StartEdit
  <2> DEFINE c == [Idle EXCEPT !.op = op, !.pc = "check", !.user = u,
                               !.obj = o, !.old = name[o], !.new = n]
  <2>2. c \in Call \cup {Idle} /\ Shape(c) /\ c.op # "add" /\ c.pc = "check"
        /\ c.obj = o /\ c.old = name[o]
    BY <2>1 DEF Call, Idle, Shape, Op, Pc, ALL_PERMS
  <2>3. Held(c) /\ Halfway(c) /\ Start(r, c)
    BY <2>1, <2>2 DEF Held, Holds, Halfway, Committed, Unborn
  <2> HIDE DEF c
  <2>4. AddsOwn(r)
    BY <2>2, <2>3, <1>1 DEF AddsOwn
  <2> QED BY <2>2, <2>3, <2>4, <1>1, QuietStep DEF Committed, Idle
<1>4. CASE StartDelete(r)
  <2>1. PICK u \in User, os \in SUBSET {o \in Object : name[o] \in Name} :
           Start(r, [Idle EXCEPT !.op = "delete", !.pc = "next", !.user = u,
                                 !.todo = os])
    BY <1>4 DEF StartDelete
  <2> DEFINE c == [Idle EXCEPT !.op = "delete", !.pc = "next", !.user = u,
                               !.todo = os]
  <2>2. c \in Call \cup {Idle} /\ Shape(c) /\ c.op # "add" /\ c.pc = "next"
    BY <2>1 DEF Call, Idle, Shape, Op, Pc, ALL_PERMS
  <2>3. Held(c) /\ Halfway(c) /\ Start(r, c)
    BY <2>1, <2>2 DEF Held, Holds, Halfway, Committed
  <2> HIDE DEF c
  <2>4. AddsOwn(r)
    BY <2>2, <2>3, <1>1 DEF AddsOwn
  <2> QED BY <2>2, <2>3, <2>4, <1>1, QuietStep DEF Committed, Idle
<1>5. CASE StartGrant(r)
  <2>1. PICK u \in User, v \in User, n \in Name, as \in Lists,
             op \in {"grant", "revoke"} :
           Start(r, [Idle EXCEPT !.op = op, !.pc = "check", !.user = u,
                                 !.old = n, !.who = v, !.all = as,
                                 !.left = as])
    BY <1>5 DEF StartGrant
  <2> DEFINE c == [Idle EXCEPT !.op = op, !.pc = "check", !.user = u,
                               !.old = n, !.who = v, !.all = as, !.left = as]
  <2>2. c \in Call \cup {Idle} /\ Shape(c) /\ c.op \in {"grant", "revoke"}
        /\ c.pc = "check"
    BY <2>1 DEF Call, Idle, Shape, Op, Pc, ALL_PERMS
  <2>3. Held(c) /\ Halfway(c) /\ Start(r, c)
    BY <2>1, <2>2 DEF Held, Holds, Halfway, Committed
  <2> HIDE DEF c
  <2>4. AddsOwn(r)
    BY <2>2, <2>3, <1>1 DEF AddsOwn
  <2> QED BY <2>2, <2>3, <2>4, <1>1, QuietStep DEF Committed, Idle
<1> QED BY <1>2, <1>3, <1>4, <1>5 DEF Begin

(* A request that is over, or turns to its next object.                    *)
TurnedTo(r, c) ==
    /\ req' = [req EXCEPT ![r] = c]
    /\ c \in Call \cup {Idle}
    /\ Shape(c) /\ Held(c) /\ Halfway(c)
    /\ c.pc \in {"idle", "next"} /\ c.old = NoName /\ c.op # "add"

LEMMA TurnsAway ==
    ASSUME Consistent, NEW r \in Request,
           \/ End(r)
           \/ req[r].op \in {"delete", "grant"} /\ Proceed(r)
    PROVE  \E c : TurnedTo(r, c)
<1>1. CASE req' = [req EXCEPT ![r] = Idle]
  <2>1. Idle.pc = "idle" /\ Idle.old = NoName /\ Idle.op # "add"
    BY DEF Idle
  <2> QED BY <1>1, <2>1, IdleIsQuiet DEF TurnedTo
<1>2. CASE /\ req[r].op \in {"delete", "grant"}
           /\ req' = [req EXCEPT ![r] = [req[r] EXCEPT !.pc = "next",
                                             !.obj = NoObject, !.old = NoName]]
  <2> DEFINE c == [req[r] EXCEPT !.pc = "next", !.obj = NoObject,
                                 !.old = NoName]
  <2>1. req[r] \in Call
    BY <1>2 DEF Consistent, TypeOK, Idle
  <2>2. c \in Call /\ c.op = req[r].op /\ c.pc = "next" /\ c.old = NoName
        /\ c.who = req[r].who
    BY <2>1 DEF Call, Pc
  <2>3. req[r].op = "grant" => req[r].who \in User
    BY <1>2 DEF Consistent, Shape, Idle
  <2>4. Shape(c)
    BY <2>2, <2>3, <1>2 DEF Shape
  <2>5. Held(c) /\ Halfway(c)
    BY <2>2, <1>2 DEF Held, Holds, Halfway, Committed
  <2> HIDE DEF c
  <2>6. req' = [req EXCEPT ![r] = c]
    BY <1>2 DEF c
  <2> QED BY <2>2, <2>4, <2>5, <2>6, <1>2 DEF TurnedTo
<1> QED BY <1>1, <1>2 DEF End, Proceed

LEMMA TurnsAwayQuietly ==
    ASSUME Consistent, NEW r \in Request, NEW B \in SUBSET Name, Stray(B),
           \/ End(r)
           \/ req[r].op \in {"delete", "grant"} /\ Proceed(r),
           UNCHANGED <<name, perms, served, acl>>,
           \/ ~Committed(req[r])
           \/ Uses(r) \subseteq B
    PROVE  Consistent'
<1>1. PICK c : TurnedTo(r, c)
  BY TurnsAway
<1>2. AddsOwn(r) /\ served' \in 0..MaxServed
  BY <1>1 DEF TurnedTo, AddsOwn, Consistent, TypeOK
<1>3. B \subseteq astray'
  BY StrayCloses DEF Consistent
<1> QED BY <1>1, <1>2, <1>3, QuietStep DEF TurnedTo

(* The steps that only read.                                               *)
LEMMA ReadStep ==
    ASSUME Consistent, NEW r \in Request, UNCHANGED served,
           \/ Check(r) \/ NextDelete(r) \/ CheckAdmin(r) \/ Find(r)
           \/ Visit(r) \/ NextGrant(r) \/ LoginAgain(r) \/ Fail(r)
    PROVE  Consistent'
<1>0. /\ req[r].op # "none" => req[r] \in Call
      /\ req[r].op # "none" => req[r] # Idle
      /\ Shape(req[r])
      /\ Held(req[r]) /\ Halfway(req[r]) /\ served' \in 0..MaxServed
  BY DEF Consistent, TypeOK, Idle
<1>1. ASSUME NEW c, c \in Call, req' = [req EXCEPT ![r] = c], c.op # "add"
      PROVE  AddsOwn(r)
  BY <1>1 DEF AddsOwn, Consistent, TypeOK
<1>2. CASE Check(r)
  <2>1. CASE Go(r, "commit")
    <3> DEFINE c == [req[r] EXCEPT !.pc = "commit"]
    <3>1. c \in Call /\ c.op = req[r].op /\ c.pc = "commit"
          /\ c.obj = req[r].obj /\ c.old = req[r].old /\ c.new = req[r].new
      BY <1>0, <1>2 DEF Check, Pc, Call
    <3>2. Shape(c) /\ Held(c) /\ Halfway(c)
      BY <3>1, <1>0, <1>2 DEF Check, Shape, Held, Holds, Halfway, Committed
    <3>3. req' = [req EXCEPT ![r] = c] /\ Stray({})
      BY <2>1, <1>2 DEF Go, Check, Consistent, TypeOK
    <3> HIDE DEF c
    <3> QED BY <3>1, <3>2, <3>3, <1>0, <1>1, <1>2, QuietStep DEF Committed, Check
  <2>2. CASE Abort(r)
    BY <2>2, <1>2, TurnsAwayQuietly DEF Committed, Check, Abort
  <2> QED BY <1>2, <2>1, <2>2 DEF Check
<1>3. CASE NextDelete(r)
  <2>1. PICK o \in req[r].todo :
          IF name[o] \in Name
          THEN req' = [req EXCEPT ![r] =
                         [req[r] EXCEPT !.pc = "check", !.obj = o, !.old = name[o],
                                        !.todo = req[r].todo \ {o}]]
          ELSE \/ End(r)
               \/ req' = [req EXCEPT ![r].todo = req[r].todo \ {o}]
    BY <1>3 DEF NextDelete
  <2>0. req[r] \in Call
    BY <1>0, <1>3 DEF NextDelete
  <2>2. req[r] \in Call /\ o \in Object /\ Stray({})
    BY <2>0, <1>3 DEF NextDelete, Call
  <2>3. CASE name[o] \in Name
    <3> DEFINE c == [req[r] EXCEPT !.pc = "check", !.obj = o, !.old = name[o],
                                   !.todo = req[r].todo \ {o}]
    <3>1. c \in Call /\ c.op = req[r].op /\ c.pc = "check" /\ c.obj = o
          /\ c.old = name[o]
      BY <2>2, <2>3 DEF Pc, Call
    <3>2. Shape(c) /\ Held(c) /\ Halfway(c)
      BY <3>1, <2>2, <2>3, <1>3
         DEF NextDelete, Shape, Held, Holds, Halfway, Committed, Unborn
    <3> HIDE DEF c
    <3>3. req' = [req EXCEPT ![r] = c]
      BY <2>1, <2>3 DEF c
    <3> QED BY <3>1, <3>2, <3>3, <2>2, <1>0, <1>1, <1>3, QuietStep
            DEF Committed, NextDelete
  <2>4. CASE name[o] \notin Name /\ End(r)
    BY <2>4, <2>2, <1>3, TurnsAwayQuietly DEF Committed, NextDelete
  <2>5. CASE name[o] \notin Name /\ ~End(r)
    <3> DEFINE c == [req[r] EXCEPT !.todo = req[r].todo \ {o}]
    <3>1. c \in Call /\ c.op = req[r].op /\ c.pc = "next" /\ c.old = NoName
      BY <2>2, <1>0, <1>3 DEF Pc, Call, NextDelete, Shape
    <3>2. Shape(c) /\ Held(c) /\ Halfway(c)
      BY <3>1, <1>3 DEF NextDelete, Shape, Held, Holds, Halfway, Committed
    <3>3. req' = [req EXCEPT ![r] = c]
      BY <2>1, <2>5 DEF Consistent, TypeOK
    <3> HIDE DEF c
    <3> QED BY <3>1, <3>2, <3>3, <2>2, <1>0, <1>1, <1>3, QuietStep
            DEF Committed, NextDelete
  <2> QED BY <2>1, <2>3, <2>4, <2>5
<1>4. CASE CheckAdmin(r)
  <2>1. CASE End(r)
    BY <2>1, <1>4, TurnsAwayQuietly DEF Committed, CheckAdmin
  <2>2. CASE ~End(r)
    <3> DEFINE c == [req[r] EXCEPT !.pc = IF req[r].op = "grant" THEN "find"
                                          ELSE "revoke"]
    <3>1. c \in Call /\ c.op = req[r].op /\ c.old = req[r].old
          /\ c.pc = IF req[r].op = "grant" THEN "find" ELSE "revoke"
      BY <1>0, <1>4 DEF CheckAdmin, Pc, Call
    <3>2. Shape(c) /\ Held(c) /\ Halfway(c)
      BY <3>1, <1>0, <1>4 DEF CheckAdmin, Shape, Held, Holds, Halfway, Committed
    <3>3. req' = [req EXCEPT ![r] = c] /\ Stray({})
      BY <2>2, <1>4 DEF Go, CheckAdmin, Consistent, TypeOK
    <3> HIDE DEF c
    <3> QED BY <3>1, <3>2, <3>3, <1>0, <1>1, <1>4, QuietStep DEF Committed, CheckAdmin
  <2> QED BY <2>1, <2>2
<1>5. CASE Find(r)
  <2>1. CASE End(r)
    BY <2>1, <1>5, TurnsAwayQuietly DEF Committed, Find
  <2>2. CASE ~End(r)
    <3>1. PICK o \in Object :
             name[o] = req[r].old
             /\ req' = [req EXCEPT ![r].obj = o, ![r].pc = "visit"]
      BY <1>5, <2>2 DEF Find
    <3> DEFINE c == [req[r] EXCEPT !.obj = o, !.pc = "visit"]
    <3>2. c \in Call /\ c.op = req[r].op /\ c.pc = "visit" /\ c.obj = o
          /\ c.old = req[r].old /\ c.who = req[r].who
      BY <1>0, <1>5, <3>1 DEF Find, Pc, Call
    <3>3. req[r].old \in Name /\ req[r].op = "grant" /\ req[r].pc = "find"
          /\ req[r].who \in User
      BY <1>0, <1>5 DEF Find, Shape
    <3>4. Shape(c) /\ Held(c) /\ Halfway(c)
      BY <3>1, <3>2, <3>3 DEF Shape, Held, Holds, Halfway, Committed, Unborn
    <3>5. req' = [req EXCEPT ![r] = c] /\ Stray({})
      BY <3>1, <1>5 DEF Find, Consistent, TypeOK
    <3> HIDE DEF c
    <3> QED BY <3>2, <3>3, <3>4, <3>5, <1>0, <1>1, <1>5, QuietStep DEF Committed, Find
  <2> QED BY <2>1, <2>2
<1>6. CASE Visit(r)
  <2>1. CASE Proceed(r)
    BY <2>1, <1>6, TurnsAwayQuietly DEF Committed, Visit
  <2>2. CASE ~Proceed(r)
    <3> DEFINE c == [req[r] EXCEPT !.pc = "grant", !.left = req[r].all]
    <3>1. c \in Call /\ c.op = req[r].op /\ c.pc = "grant"
          /\ c.obj = req[r].obj /\ c.old = req[r].old /\ c.who = req[r].who
      BY <1>0, <1>6 DEF Visit, Pc, Call
    <3>2. Shape(c) /\ Held(c) /\ Halfway(c)
      BY <3>1, <1>0, <1>6 DEF Visit, Shape, Held, Holds, Halfway, Committed
    <3>3. req' = [req EXCEPT ![r] = c] /\ Stray({})
      BY <2>2, <1>6 DEF Visit, Consistent, TypeOK
    <3> HIDE DEF c
    <3> QED BY <3>1, <3>2, <3>3, <1>0, <1>1, <1>6, QuietStep DEF Committed, Visit
  <2> QED BY <2>1, <2>2
<1>7. CASE NextGrant(r)
  <2>1. PICK o \in req[r].todo :
          IF name[o] \in Name
          THEN req' = [req EXCEPT ![r] =
                         [req[r] EXCEPT !.pc = "visit", !.obj = o, !.old = name[o],
                                        !.todo = req[r].todo \ {o}]]
          ELSE req' = [req EXCEPT ![r] =
                         IF req[r].todo = {o} THEN Idle
                         ELSE [req[r] EXCEPT !.todo = req[r].todo \ {o}]]
    BY <1>7 DEF NextGrant
  <2>0. req[r] \in Call
    BY <1>0, <1>7 DEF NextGrant
  <2>2. req[r] \in Call /\ o \in Object /\ Stray({})
    BY <2>0, <1>7 DEF NextGrant, Call
  <2>3. CASE name[o] \in Name
    <3> DEFINE c == [req[r] EXCEPT !.pc = "visit", !.obj = o, !.old = name[o],
                                   !.todo = req[r].todo \ {o}]
    <3>1. c \in Call /\ c.op = req[r].op /\ c.pc = "visit" /\ c.obj = o
          /\ c.old = name[o] /\ c.who = req[r].who
      BY <2>2, <2>3 DEF Pc, Call
    <3>2. Shape(c) /\ Held(c) /\ Halfway(c)
      BY <3>1, <2>2, <2>3, <1>7, <1>0
         DEF NextGrant, Shape, Held, Holds, Halfway, Committed, Unborn
    <3> HIDE DEF c
    <3>3. req' = [req EXCEPT ![r] = c]
      BY <2>1, <2>3 DEF c
    <3> QED BY <3>1, <3>2, <3>3, <2>2, <1>0, <1>1, <1>7, QuietStep
            DEF Committed, NextGrant
  <2>4. CASE name[o] \notin Name /\ req[r].todo = {o}
    BY <2>1, <2>4, <2>2, <1>7, TurnsAwayQuietly DEF Committed, NextGrant, End
  <2>5. CASE name[o] \notin Name /\ req[r].todo # {o}
    <3> DEFINE c == [req[r] EXCEPT !.todo = req[r].todo \ {o}]
    <3>0. req[r].old = NoName /\ req[r].who \in User
      BY <1>0, <1>7 DEF NextGrant, Shape
    <3>1. c \in Call /\ c.op = req[r].op /\ c.pc = "next" /\ c.old = NoName
          /\ c.who \in User
      BY <2>2, <3>0, <1>7 DEF Pc, Call, NextGrant
    <3>2. Shape(c) /\ Held(c) /\ Halfway(c)
      BY <3>1, <1>7 DEF NextGrant, Shape, Held, Holds, Halfway, Committed
    <3>3. req' = [req EXCEPT ![r] = c]
      BY <2>1, <2>5 DEF Consistent, TypeOK
    <3> HIDE DEF c
    <3> QED BY <3>1, <3>2, <3>3, <2>2, <1>0, <1>1, <1>7, QuietStep
            DEF Committed, NextGrant
  <2> QED BY <2>1, <2>3, <2>4, <2>5
<1>8. CASE LoginAgain(r)
  <2> DEFINE c == [req[r] EXCEPT !.left = req[r].all]
  <2>1. c \in Call /\ c.op = req[r].op /\ c.pc = req[r].pc
        /\ c.obj = req[r].obj /\ c.old = req[r].old /\ c.new = req[r].new
        /\ c.user = req[r].user /\ c.who = req[r].who /\ c.all = req[r].all
        /\ c.left = req[r].all
    <3>1. req[r] \in Call
      BY <1>0, <1>8 DEF LoginAgain, Shape, Idle
    <3> QED BY <3>1 DEF Call
  <2>2. Shape(c) /\ Held(c)
    BY <2>1, <1>0, <1>8 DEF LoginAgain, Shape, Held, Holds, Idle
  <2>3. Halfway(c)
    <3>1. ASSUME req[r].op = "add", req[r].old \notin astray
          PROVE  acl[req[r].obj] = perms[req[r].old]
                                   \cup ({req[r].user} \X req[r].all)
      BY <3>1, <1>0, <1>8 DEF LoginAgain, Halfway, Committed, Shape
    <3> QED BY <3>1, <2>1, <1>0, <1>8 DEF LoginAgain, Halfway, Committed
  <2>4. req' = [req EXCEPT ![r] = c] /\ Stray({})
    BY <1>8 DEF LoginAgain, Consistent, TypeOK
  <2> HIDE DEF c
  <2>5. AddsOwn(r)
    BY <2>1, <2>4 DEF AddsOwn, Consistent, TypeOK
  <2>6. Committed(req[r]) => Committed(c)
    BY <2>1 DEF Committed
  <2>7. Uses(r)' = Uses(r)
    BY <2>1, <2>4 DEF Uses, Consistent, TypeOK
  <2>8. \A n \in Uses(r) \ astray' :
           Committed(req[r]) => Committed(c) /\ n \in Uses(r)'
    BY <2>6, <2>7
  <2>9. UNCHANGED <<name, perms, acl>>
    BY <1>8 DEF LoginAgain
  <2> QED BY <2>1, <2>2, <2>3, <2>4, <2>5, <2>8, <2>9, <1>0, QuietStep
<1>9. CASE Fail(r)
  <2>1. \/ End(r)
        \/ req[r].op \in {"delete", "grant"} /\ Proceed(r)
    BY <1>9 DEF Fail, Abort
  <2> DEFINE B == IF Committed(req[r]) THEN Uses(r) ELSE {}
  <2>2. /\ Stray(B) /\ B \in SUBSET Name
        /\ ~Committed(req[r]) \/ Uses(r) \subseteq B
    BY <1>9 DEF Fail, Uses
  <2> HIDE DEF B
  <2> QED BY <2>1, <2>2, <1>9, TurnsAwayQuietly DEF Fail
<1> QED BY <1>2, <1>3, <1>4, <1>5, <1>6, <1>7, <1>8, <1>9

(* What holds of a name that a step does not touch.                        *)
LEMMA MatchElsewhere ==
    ASSUME Consistent, NEW r \in Request,
           \A s \in Request \ {r} : req'[s] = req[s],
           astray \subseteq astray',
           NEW n \in Name, n \notin astray', ~Unfinished(n)',
           n \in Uses(r) => ~Committed(req[r]),
           perms'[n] = perms[n],
           \A o \in Object : name'[o] = n <=> name[o] = n,
           \A o \in Object : name[o] = n => acl'[o] = acl[o]
    PROVE  perms'[n] = Rights(n)'
<1>1. ~Unfinished(n)
  <2> SUFFICES ASSUME NEW s \in Request, n \in Uses(s), Committed(req[s])
               PROVE  FALSE
    BY DEF Unfinished
  <2>1. s # r
    OBVIOUS
  <2>2. req'[s] = req[s] /\ n \in Uses(s)'
    BY <2>1 DEF Uses
  <2> QED BY <2>2 DEF Unfinished, Committed
<1>2. Rights(n)' = Rights(n)
  BY DEF Rights
<1> QED BY <1>1, <1>2 DEF Consistent, PermissionsMatch

(* The permissions of a clean name that no request but r is working on.    *)
LEMMA MatchBefore ==
    ASSUME Consistent, NEW r \in Request, ~Committed(req[r]),
           \A s \in Request \ {r} : req'[s] = req[s],
           astray \subseteq astray', (Clash \subseteq astray)',
           NEW n \in Name, n \notin astray',
           Renames(r)', n \in Uses(r)'
    PROVE  perms[n] = Rights(n) /\ n \notin astray
<1>1. ASSUME NEW s \in Request, n \in Uses(s), Committed(req[s])
      PROVE  FALSE
  <2>1. s # r
    BY <1>1
  <2>2. n \in Uses(s)'
    BY <1>1, <2>1 DEF Uses
  <2>3. n \in Clash'
    BY <2>1, <2>2 DEF Clash
  <2> QED BY <2>3
<1>2. ~Unfinished(n)
  BY <1>1 DEF Unfinished
<1> QED BY <1>2 DEF Consistent, PermissionsMatch

(* No other request uses a clean name that r uses after its step, when r   *)
(* renames.                                                                *)
LEMMA OthersElsewhere ==
    ASSUME NEW r \in Request, \A s \in Request \ {r} : req'[s] = req[s],
           (Clash \subseteq astray)', Renames(r)',
           NEW s \in Request, s # r, NEW n \in Uses(s), n \in Uses(r)'
    PROVE  Uses(r)' \subseteq astray'
<1>1. n \in Uses(s)' /\ Uses(r)' \subseteq Name
  BY DEF Uses
<1>2. Uses(r)' \subseteq Clash'
  BY <1>1 DEF Clash
<1> QED BY <1>2

LEMMA CommitAddStep ==
    ASSUME Consistent, NEW r \in Request, CommitAdd(r), UNCHANGED served
    PROVE  Consistent'
<1> DEFINE c == req[r]
           d == [c EXCEPT !.pc = "reread", !.old = c.new, !.who = c.user,
                          !.all = OWNER_PERMS, !.left = OWNER_PERMS]
<1>1. /\ c \in Call /\ c.op = "add" /\ c.pc = "commit" /\ c.obj \in Object
      /\ c.new \in Name /\ c.old = NoName /\ name[c.obj] = Unborn
      /\ c.user \in User /\ Stray({}) /\ ~Committed(c)
  <2>1. c \in Call
    BY DEF CommitAdd, Consistent, TypeOK, Idle
  <2>2. c.user \in User
    BY <2>1 DEF Call
  <2> QED BY <2>1, <2>2 DEF CommitAdd, Consistent, Shape, Idle, Committed
<1>2. CASE End(r) /\ UNCHANGED <<name, acl>>
  BY <1>1, <1>2, TurnsAwayQuietly DEF CommitAdd
<1>3. CASE /\ Free(c.new) /\ name' = [name EXCEPT ![c.obj] = c.new]
           /\ acl' = [acl EXCEPT ![c.obj] = {c.user} \X OWNER_PERMS]
           /\ req' = [req EXCEPT ![r] = d]
  <2>1. /\ astray \subseteq astray' /\ astray' \subseteq Name
        /\ (Clash \subseteq astray)'
    BY <1>1, StrayCloses DEF Consistent
  <2>2. /\ d \in Call /\ d.op = "add" /\ d.pc = "reread" /\ d.obj = c.obj
        /\ d.old = c.new /\ d.new = c.new /\ d.who = c.user /\ d.user = c.user
        /\ d.all = OWNER_PERMS /\ d.left = OWNER_PERMS
    BY <1>1 DEF Call, Pc, OWNER_PERMS, ALL_PERMS
  <2> HIDE DEF d
  <2>3. req'[r] = d /\ \A s \in Request \ {r} : req'[s] = req[s]
    BY <1>3 DEF Consistent, TypeOK
  <2>4. /\ name'[c.obj] = c.new
        /\ \A o \in Object \ {c.obj} : name'[o] = name[o] /\ acl'[o] = acl[o]
        /\ acl'[c.obj] = {c.user} \X OWNER_PERMS
        /\ perms' = perms
    BY <1>1, <1>3 DEF Consistent, TypeOK, CommitAdd
  <2>5. TypeOK'
    BY <1>1, <1>3, <2>1, <2>2, <2>4
       DEF Consistent, TypeOK, Right, OWNER_PERMS, ALL_PERMS
  <2>6. Renames(r)' /\ Uses(r)' = {c.new} /\ Uses(r) = {}
    BY <1>1, <2>2, <2>3 DEF Renames, Uses
  <2>7. c.new \notin astray' => perms[c.new] = {}
    BY <1>1, <1>3, <2>1, <2>3, <2>6, MatchBefore DEF Rights, Free
  <2>8. UniqueNames'
    BY <1>1, <1>3, <2>4 DEF Consistent, UniqueNames, Free
  <2>9. Unborn \notin Name
    BY DEF Unborn
  <2>10. \A n \in Name \ {c.new} : \A o \in Object :
            /\ name'[o] = n <=> name[o] = n
            /\ name[o] = n => acl'[o] = acl[o]
    BY <1>1, <2>4, <2>9
  <2>11. Leaves(r)
    <3>1. ASSUME NEW s \in Request \ {r}, NEW n \in Uses(s) \ astray'
          PROVE  n \in Name \ {c.new}
      BY <3>1, <2>1, <2>3, <2>6, OthersElsewhere DEF Uses
    <3>2. ASSUME NEW s \in Request \ {r}, Holds(req[s])
          PROVE  name'[req[s].obj] = name[req[s].obj]
      <4>1. req[s].obj \in Object /\ name[req[s].obj] # Unborn
        BY <3>2 DEF Consistent, Held, Shape, Holds, Idle
      <4> QED BY <4>1, <1>1, <2>4
    <3>3. \A o \in Object : name'[o] = Unborn => name[o] = Unborn
      BY <1>1, <2>4
    <3> QED BY <1>1, <2>3, <2>4, <2>10, <3>1, <3>2, <3>3 DEF Leaves
  <2>12. AddsOwn(r)
    BY <1>1, <2>2, <2>3 DEF AddsOwn
  <2>13. Shape(req[r])'
    BY <1>1, <2>2, <2>3 DEF Shape
  <2>14. Held(req[r])' /\ Halfway(req[r])'
    BY <1>1, <2>2, <2>3, <2>4, <2>7, <2>9 DEF Held, Halfway, Committed
  <2>15. PermissionsMatch'
    <3> SUFFICES ASSUME NEW n \in Name, n \notin astray', ~Unfinished(n)'
                 PROVE  perms'[n] = Rights(n)'
      BY DEF PermissionsMatch
    <3>1. n # c.new
      BY <2>2, <2>3, <2>6 DEF Unfinished, Committed
    <3> QED BY <3>1, <1>1, <2>1, <2>3, <2>4, <2>10, MatchElsewhere
  <2> QED BY <1>1, <2>5, <2>8, <2>11, <2>12, <2>13, <2>14, <2>15, Frame
<1> QED BY <1>2, <1>3 DEF CommitAdd

LEMMA RightsOfFree ==
    ASSUME NEW n \in Name, Free(n)
    PROVE  Rights(n) = {}
<1>1. \A p \in Right : p \notin Rights(n)
  BY DEF Rights, Free
<1>2. Rights(n) \subseteq Right
  BY DEF Rights
<1> QED BY <1>1, <1>2

LEMMA RightsOfNamed ==
    ASSUME Consistent, NEW o \in Object, NEW n \in Name, name[o] = n
    PROVE  Rights(n) = acl[o]
<1>1. \A p \in Object : name[p] = n => p = o
  BY DEF Consistent, UniqueNames
<1>2. \A p \in Right : p \in Rights(n) <=> p \in acl[o]
  BY <1>1 DEF Rights
<1>3. Rights(n) \subseteq Right /\ acl[o] \subseteq Right
  BY DEF Rights, Consistent, TypeOK
<1> QED BY <1>2, <1>3

(* A renaming or deleting request whose object has another name than it    *)
(* read works on astray names only.                                        *)
LEMMA HeldNames ==
    ASSUME Consistent, NEW r \in Request, Holds(req[r])
    PROVE  LET c == req[r] IN
           /\ c.obj \in Object /\ c.old \in Name /\ name[c.obj] # Unborn
           /\ c.old \notin astray => name[c.obj] = c.old
           /\ name[c.obj] \in Name \ {c.old} => name[c.obj] \in astray
BY DEF Consistent, Held, Holds, Shape, Idle

(* What a request reads after its commit is what it wrote, or its names    *)
(* have gone astray.                                                       *)
LEMMA RereadStep ==
    ASSUME Consistent, NEW r \in Request, Reread(r), UNCHANGED served
    PROVE  Consistent'
<1> DEFINE c == req[r]
           n == name[c.obj]
<1>1. /\ c \in Call /\ c.pc = "reread" /\ c.op \in {"add", "edit"}
      /\ c.obj \in Object /\ c.old \in Name /\ Stray({}) /\ Committed(c)
      /\ Uses(r) = {c.old, c.new} /\ Renames(r)
      /\ served' \in 0..MaxServed
  <2>1. c \in Call
    BY DEF Reread, Consistent, TypeOK, Idle
  <2> QED BY <2>1 DEF Reread, Consistent, TypeOK, Shape, Idle, Uses, Renames,
                      Committed
<1>2. /\ astray \subseteq astray' /\ astray' \subseteq Name /\ Spread'
  BY <1>1, StrayCloses DEF Consistent
<1>3. Uses(r) \cap astray # {} => Uses(r) \subseteq astray
  BY <1>1 DEF Consistent, Spread
<1>4. ASSUME NEW d, d \in Call, req' = [req EXCEPT ![r] = d],
             d.op = c.op, d.obj = c.obj, d.pc # "commit"
      PROVE  req'[r] = d /\ AddsOwn(r)
  BY <1>1, <1>4 DEF AddsOwn, Consistent, TypeOK
<1>5. CASE /\ c.op = "add" /\ n \in Name
           /\ req' = [req EXCEPT ![r] = [c EXCEPT !.pc = "grant", !.old = n]]
  <2> DEFINE d == [c EXCEPT !.pc = "grant", !.old = n]
  <2>1. /\ d \in Call /\ d.op = "add" /\ d.pc = "grant" /\ d.obj = c.obj
        /\ d.old = n /\ d.new = c.new /\ d.user = c.user /\ d.who = c.who
        /\ d.all = c.all /\ d.left = c.left
    BY <1>1, <1>5 DEF Call, Pc
  <2> HIDE DEF d
  <2>2. req'[r] = d /\ AddsOwn(r) /\ req' = [req EXCEPT ![r] = d]
    <3>1. req' = [req EXCEPT ![r] = d]
      BY <1>5 DEF d
    <3> QED BY <3>1, <1>4, <1>5, <2>1
  <2>3. n = c.old \/ {c.old, n} \subseteq astray
    BY <1>1, <1>5, HeldNames DEF Holds
  <2>4. Shape(d)
    BY <1>1, <1>5, <2>1 DEF Consistent, Shape, Idle
  <2>5. Held(d)
    BY <1>5, <2>1 DEF Held, Unborn
  <2>6. Halfway(d)
    BY <1>1, <1>5, <2>1, <2>3 DEF Consistent, Halfway, Committed
  <2>7. \A m \in Uses(r) \ astray' : Committed(d) /\ m \in Uses(r)'
    <3>1. c.new = c.old
      BY <1>1, <1>5 DEF Consistent, Shape, Idle
    <3> QED BY <3>1, <1>1, <1>2, <2>1, <2>2, <2>3 DEF Uses, Committed
  <2> QED BY <2>1, <2>2, <2>4, <2>5, <2>6, <2>7, <1>1, QuietStep DEF Reread
<1>6. CASE /\ c.op = "edit" /\ n \in Name \ {c.old}
           /\ req' = [req EXCEPT ![r] = [c EXCEPT !.pc = "rename", !.new = n]]
  <2> DEFINE d == [c EXCEPT !.pc = "rename", !.new = n]
  <2>1. /\ d \in Call /\ d.op = "edit" /\ d.pc = "rename" /\ d.obj = c.obj
        /\ d.old = c.old /\ d.new = n
    BY <1>1, <1>6 DEF Call, Pc
  <2> HIDE DEF d
  <2>2. req'[r] = d /\ AddsOwn(r) /\ req' = [req EXCEPT ![r] = d]
    BY <1>4, <1>6, <2>1 DEF d
  <2>3. n = c.new \/ {c.old, c.new} \subseteq astray
    BY <1>1, <1>3, <1>6 DEF Consistent, Halfway
  <2>4. Shape(d) /\ Held(d)
    BY <1>1, <1>6, <2>1 DEF Shape, Held, Holds
  <2>5. Halfway(d)
    BY <1>1, <1>6, <2>1, <2>3 DEF Consistent, Halfway, Committed
  <2>6. \A m \in Uses(r) \ astray' : Committed(d) /\ m \in Uses(r)'
    BY <1>1, <1>2, <2>1, <2>2, <2>3 DEF Uses, Committed
  <2> QED BY <2>1, <2>2, <2>4, <2>5, <2>6, <1>1, QuietStep DEF Reread
<1>7. CASE /\ n \notin Name \/ (c.op = "edit" /\ n = c.old)
           /\ End(r)
  <2>1. Uses(r) \subseteq astray
    <3>1. CASE c.op = "add"
      <4>1. c.old \in astray
        BY <1>1, <1>7, <3>1, HeldNames DEF Holds
      <4> QED BY <4>1, <1>1, <1>3
    <3>2. CASE c.op = "edit"
      <4>1. c.new \in Name /\ c.old # c.new
        BY <1>1, <3>2 DEF Consistent, Shape, Idle
      <4>2. n # c.new
        BY <4>1, <1>7
      <4>3. {c.old, c.new} \cap astray # {}
        BY <4>2, <1>1, <3>2 DEF Consistent, Halfway
      <4> QED BY <4>3, <1>1, <1>3
    <3> QED BY <3>1, <3>2, <1>1
  <2>2. Idle \in Call \cup {Idle} /\ Idle.op # "add"
    BY DEF Idle
  <2>3. req' = [req EXCEPT ![r] = Idle] /\ AddsOwn(r)
    BY <1>7, <2>2 DEF End, AddsOwn, Consistent, TypeOK
  <2> QED BY <1>1, <1>2, <2>1, <2>2, <2>3, IdleIsQuiet, QuietStep DEF Reread
<1> QED BY <1>5, <1>6, <1>7 DEF Reread

LEMMA CommitEditStep ==
    ASSUME Consistent, NEW r \in Request, CommitEdit(r), UNCHANGED served
    PROVE  Consistent'
<1> DEFINE c == req[r]
           d == [c EXCEPT !.pc = "reread"]
<1>1. /\ c \in Call /\ c.op = "edit" /\ c.pc = "commit" /\ c.new \in Name
      /\ c.obj \in Object /\ c.old \in Name /\ name[c.obj] # Unborn
      /\ c.old \notin astray => name[c.obj] = c.old
      /\ name[c.obj] \in Name \ {c.old} => name[c.obj] \in astray
      /\ Stray({}) /\ ~Committed(c) /\ Uses(r) = {c.old}
  <2>1. c \in Call
    BY DEF CommitEdit, Consistent, TypeOK, Idle
  <2>2. Holds(c)
    BY DEF CommitEdit, Holds
  <2>3. c.new \in Name
    BY DEF CommitEdit, Consistent, Shape, Idle
  <2> QED BY <2>1, <2>2, <2>3, HeldNames DEF CommitEdit, Committed, Uses
<1>2. CASE End(r) /\ UNCHANGED name
  BY <1>1, <1>2, TurnsAwayQuietly DEF CommitEdit
<1>3. CASE /\ name[c.obj] \in Name /\ c.new # c.old
           /\ Free(c.new) \/ name[c.obj] = c.new
           /\ name' = [name EXCEPT ![c.obj] = c.new]
           /\ Go(r, "reread")
  <2>1. /\ astray \subseteq astray' /\ astray' \subseteq Name
        /\ (Clash \subseteq astray)' /\ Spread'
    BY <1>1, StrayCloses DEF Consistent
  <2>2. /\ d \in Call /\ d.op = "edit" /\ d.pc = "reread" /\ d.obj = c.obj
        /\ d.old = c.old /\ d.new = c.new
    BY <1>1 DEF Call, Pc
  <2>3. req'[r] = d /\ \A s \in Request \ {r} : req'[s] = req[s]
    BY <1>3 DEF Consistent, TypeOK, Go
  <2>4. /\ name'[c.obj] = c.new /\ perms' = perms /\ acl' = acl
        /\ \A o \in Object \ {c.obj} : name'[o] = name[o]
    BY <1>1, <1>3 DEF Consistent, TypeOK, CommitEdit
  <2>5. TypeOK'
    <3>1. req' \in [Request -> Call \cup {Idle}]
      BY <2>2, <1>3 DEF Consistent, TypeOK, Go
    <3> QED BY <3>1, <1>1, <1>3, <2>1, <2>4 DEF Consistent, TypeOK
  <2> HIDE DEF d
  <2>6. Renames(r)' /\ Uses(r)' = {c.old, c.new}
    BY <1>1, <2>2, <2>3 DEF Renames, Uses
  <2>7. ~({c.old, c.new} \cap astray' = {}) => {c.old, c.new} \subseteq astray'
    BY <2>1, <2>6 DEF Spread
  <2>8. c.old \notin astray' => name[c.obj] = c.old
    BY <1>1, <2>1
  <2>9. UniqueNames'
    BY <1>1, <1>3, <2>4 DEF Consistent, UniqueNames, Free
  <2>10. \A n \in Name \ (astray' \cup {c.old, c.new}) : \A o \in Object :
            name'[o] = n <=> name[o] = n
    BY <1>1, <2>1, <2>4
  <2>11. Leaves(r)
    <3>1. ASSUME NEW s \in Request \ {r}, NEW n \in Uses(s) \ astray'
          PROVE  n \in Name \ {c.old, c.new}
      BY <3>1, <2>1, <2>3, <2>6, OthersElsewhere DEF Uses
    <3>2. ASSUME NEW s \in Request \ {r}, Holds(req[s]),
                 name'[req[s].obj] # name[req[s].obj]
          PROVE  name'[req[s].obj] \in astray'
      <4>1. /\ req[s].obj \in Object /\ req[s].old \in Name
            /\ name[req[s].obj] \in Name \ {req[s].old} =>
                  name[req[s].obj] \in astray
        BY <3>2, HeldNames
      <4>2. req[s].obj = c.obj /\ req[s].old \in Uses(s)
        BY <4>1, <3>2, <2>4 DEF Uses
      <4>3. CASE req[s].old \in {c.old, c.new}
        BY <4>2, <4>3, <2>1, <2>3, <2>4, <2>6, OthersElsewhere
      <4>4. CASE req[s].old \notin {c.old, c.new}
        BY <4>1, <4>2, <4>4, <1>1, <1>3, <2>1, <2>4, <2>7, <2>8
      <4> QED BY <4>3, <4>4
    <3>3. Unborn \notin Name
      BY DEF Unborn
    <3> QED BY <1>1, <2>3, <2>4, <2>10, <3>1, <3>2, <3>3 DEF Leaves
  <2>12. AddsOwn(r) /\ Shape(req[r])' /\ Held(req[r])'
    BY <1>1, <1>3, <2>2, <2>3 DEF AddsOwn, Shape, Held, Holds
  <2>13. Halfway(req[r])'
    <3> SUFFICES ASSUME {c.old, c.new} \cap astray' = {}
                 PROVE  /\ name'[c.obj] = c.new /\ Free(c.old)'
                        /\ perms'[c.old] = acl'[c.obj] /\ perms'[c.new] = {}
      BY <2>2, <2>3 DEF Halfway, Committed
    <3>1. name[c.obj] = c.old /\ Free(c.new)
      BY <1>3, <2>8
    <3>2. perms[c.old] = Rights(c.old) /\ perms[c.new] = Rights(c.new)
      BY <1>1, <2>1, <2>3, <2>6, MatchBefore
    <3>3. Rights(c.new) = {}
      BY <3>1, <1>1, RightsOfFree
    <3>4. Rights(c.old) = acl[c.obj]
      BY <3>1, <1>1, RightsOfNamed
    <3>5. Free(c.old)'
      BY <3>1, <1>1, <1>3, <2>2, <2>3, <2>4 DEF Free, Consistent, UniqueNames
    <3> QED BY <3>2, <3>3, <3>4, <3>5, <2>4
  <2>14. PermissionsMatch'
    <3> SUFFICES ASSUME NEW n \in Name, n \notin astray', ~Unfinished(n)'
                 PROVE  perms'[n] = Rights(n)'
      BY DEF PermissionsMatch
    <3>0. Committed(req[r])'
      BY <2>2, <2>3 DEF Committed
    <3>1. n \notin {c.old, c.new}
      BY <3>0, <2>6 DEF Unfinished
    <3> QED BY <3>1, <1>1, <2>1, <2>3, <2>4, <2>10, MatchElsewhere
  <2> QED BY <1>1, <2>5, <2>9, <2>11, <2>12, <2>13, <2>14, Frame
<1> QED BY <1>2, <1>3 DEF CommitEdit

LEMMA RenameStep ==
    ASSUME Consistent, NEW r \in Request, RenamePermObj(r), UNCHANGED served
    PROVE  Consistent'
<1> DEFINE c == req[r]
<1>1. /\ c.op = "edit" /\ c.pc = "rename" /\ c.new \in Name /\ c.old \in Name
      /\ c.obj \in Object /\ c.old # c.new /\ Stray({})
      /\ Uses(r) = {c.old, c.new} /\ Renames(r)
  BY DEF RenamePermObj, Consistent, Shape, Idle, Uses, Renames
<1>2. /\ astray \subseteq astray' /\ astray' \subseteq Name
  BY <1>1, StrayCloses DEF Consistent
<1>3. req'[r] = Idle /\ \A s \in Request \ {r} : req'[s] = req[s]
  BY DEF RenamePermObj, End, Consistent, TypeOK
<1>4. /\ perms'[c.old] = {} /\ perms'[c.new] = perms[c.old] \cup perms[c.new]
      /\ \A n \in Name \ {c.old, c.new} : perms'[n] = perms[n]
      /\ UNCHANGED <<name, acl>>
  BY <1>1 DEF RenamePermObj, Consistent, TypeOK
<1>5. TypeOK'
  <2>1. perms' \in [Name -> SUBSET Right]
    BY <1>1 DEF RenamePermObj, Consistent, TypeOK
  <2> QED BY <2>1, <1>2, <1>4 DEF RenamePermObj, End, Consistent, TypeOK
<1>6. UniqueNames'
  BY <1>4 DEF Consistent, UniqueNames
<1>7. Leaves(r)
  <2>1. ASSUME NEW s \in Request \ {r}, NEW n \in Uses(s) \ astray'
        PROVE  n \in Name \ {c.old, c.new}
    BY <2>1, <1>1, <1>2, CleanNamesApart DEF Uses, Consistent
  <2> QED BY <2>1, <1>3, <1>4 DEF Leaves
<1>8. AddsOwn(r)
  BY <1>3 DEF AddsOwn, Idle
<1>9. Shape(req[r])' /\ Held(req[r])' /\ Halfway(req[r])'
  BY <1>3 DEF Shape, Held, Holds, Halfway, Committed, Idle
<1>10. PermissionsMatch'
  <2> SUFFICES ASSUME NEW n \in Name, n \notin astray', ~Unfinished(n)'
               PROVE  perms'[n] = Rights(n)'
    BY DEF PermissionsMatch
  <2>1. CASE n \in {c.old, c.new}
    <3>1. {c.old, c.new} \cap astray = {}
      BY <2>1, <1>1, <1>2 DEF Consistent, Spread
    <3>2. /\ name[c.obj] = c.new /\ Free(c.old)
          /\ perms[c.old] = acl[c.obj] /\ perms[c.new] = {}
      BY <3>1, <1>1 DEF Consistent, Halfway, Committed
    <3>3. /\ n = c.old => Rights(n) = {}
          /\ n = c.new => Rights(n) = acl[c.obj]
      <4>1. n = c.old => Free(n)
        BY <3>2 DEF Free
      <4> QED BY <3>2, <4>1, <1>1, RightsOfFree, RightsOfNamed
    <3>4. Rights(n)' = Rights(n)
      BY <1>4 DEF Rights
    <3>5. perms'[c.old] = {} /\ perms'[c.new] = acl[c.obj]
      BY <3>2, <1>4
    <3> QED BY <2>1, <3>3, <3>4, <3>5
  <2>2. CASE n \notin {c.old, c.new}
    BY <2>2, <1>1, <1>2, <1>3, <1>4, MatchElsewhere
  <2> QED BY <2>1, <2>2
<1> QED BY <1>1, <1>5, <1>6, <1>7, <1>8, <1>9, <1>10, Frame

LEMMA CommitOverwriteStep ==
    ASSUME Consistent, NEW r \in Request, CommitOverwrite(r), UNCHANGED served
    PROVE  Consistent'
<1> DEFINE c == req[r]
           B == IF c.new = c.old THEN {} ELSE {c.old, c.new}
<1>1. /\ c.op = "overwrite" /\ c.pc = "commit" /\ c.new \in Name
      /\ c.obj \in Object /\ c.old \in Name /\ name[c.obj] # Unborn
      /\ c.old \notin astray => name[c.obj] = c.old
      /\ name[c.obj] \in Name \ {c.old} => name[c.obj] \in astray
      /\ ~Committed(c)
  <2>1. Holds(c)
    BY DEF CommitOverwrite, Holds
  <2>2. c.new \in Name
    BY DEF CommitOverwrite, Consistent, Shape, Idle
  <2> QED BY <2>1, <2>2, HeldNames DEF CommitOverwrite, Committed
<1>2. CASE End(r) /\ UNCHANGED name /\ Stray({})
  BY <1>1, <1>2, TurnsAwayQuietly DEF CommitOverwrite
<1>3. CASE /\ Free(c.new) \/ name[c.obj] = c.new
           /\ name' = [name EXCEPT ![c.obj] = c.new]
           /\ End(r) /\ Stray(B)
  <2>1. B \in SUBSET Name
    BY <1>1
  <2>2. /\ astray \subseteq astray' /\ astray' \subseteq Name
        /\ B \subseteq astray'
    BY <1>3, <2>1, StrayCloses DEF Consistent
  <2>3. req'[r] = Idle /\ \A s \in Request \ {r} : req'[s] = req[s]
    BY <1>3 DEF Consistent, TypeOK, End
  <2>4. /\ name'[c.obj] = c.new /\ perms' = perms /\ acl' = acl
        /\ \A o \in Object \ {c.obj} : name'[o] = name[o]
    BY <1>1, <1>3 DEF Consistent, TypeOK, CommitOverwrite
  <2>5. TypeOK'
    <3>1. req' \in [Request -> Call \cup {Idle}]
      BY <1>3 DEF Consistent, TypeOK, End
    <3> QED BY <3>1, <1>1, <1>3, <2>2, <2>4 DEF Consistent, TypeOK
  <2>6. UniqueNames'
    BY <1>1, <1>3, <2>4 DEF Consistent, UniqueNames, Free
  <2>7. \/ name'[c.obj] = name[c.obj]
        \/ c.new \in astray' /\ (name[c.obj] \in Name => name[c.obj] \in astray')
    BY <1>1, <2>2, <2>4
  <2>8. \A n \in Name \ astray' : \A o \in Object : name'[o] = n <=> name[o] = n
    BY <1>1, <2>4, <2>7
  <2>9. Leaves(r)
    <3>1. \A s \in Request : Uses(s) \subseteq Name
      BY DEF Uses
    <3>2. ASSUME NEW s \in Request \ {r}, Holds(req[s]),
                 name'[req[s].obj] # name[req[s].obj]
          PROVE  name'[req[s].obj] \in astray'
      <4>1. req[s].obj \in Object
        BY <3>2, HeldNames
      <4> QED BY <4>1, <3>2, <2>4, <2>7
    <3>3. Unborn \notin Name
      BY DEF Unborn
    <3> QED BY <1>1, <2>3, <2>4, <2>8, <3>1, <3>2, <3>3 DEF Leaves
  <2>10. AddsOwn(r)
    BY <2>3 DEF AddsOwn, Idle
  <2>11. Shape(req[r])' /\ Held(req[r])' /\ Halfway(req[r])'
    BY <2>3 DEF Shape, Held, Holds, Halfway, Committed, Idle
  <2>12. PermissionsMatch'
    BY <1>1, <2>2, <2>3, <2>4, <2>8, MatchElsewhere DEF PermissionsMatch
  <2> HIDE DEF B
  <2> QED BY <1>3, <2>1, <2>5, <2>6, <2>9, <2>10, <2>11, <2>12, Frame
<1> QED BY <1>2, <1>3 DEF CommitOverwrite

LEMMA CommitDeleteStep ==
    ASSUME Consistent, NEW r \in Request, CommitDelete(r), UNCHANGED served
    PROVE  Consistent'
<1> DEFINE c == req[r]
           d == [c EXCEPT !.pc = "drop"]
<1>1. /\ c \in Call /\ c.op = "delete" /\ c.pc = "commit"
      /\ c.obj \in Object /\ c.old \in Name /\ name[c.obj] # Unborn
      /\ c.old \notin astray => name[c.obj] = c.old
      /\ name[c.obj] \in Name \ {c.old} => name[c.obj] \in astray
      /\ Stray({}) /\ ~Committed(c) /\ Uses(r) = {c.old}
  <2>1. c \in Call
    BY DEF CommitDelete, Consistent, TypeOK, Idle
  <2>2. Holds(c)
    BY DEF CommitDelete, Holds
  <2> QED BY <2>1, <2>2, HeldNames DEF CommitDelete, Committed, Uses
<1>2. /\ astray \subseteq astray' /\ astray' \subseteq Name
      /\ (Clash \subseteq astray)'
  BY <1>1, StrayCloses DEF Consistent
<1>3. /\ d \in Call /\ d.op = "delete" /\ d.pc = "drop" /\ d.obj = c.obj
      /\ d.old = c.old
  BY <1>1 DEF Call, Pc
<1>4. req'[r] = d /\ \A s \in Request \ {r} : req'[s] = req[s]
  BY DEF Consistent, TypeOK, CommitDelete, Go
<1>5. /\ name'[c.obj] = Gone /\ perms' = perms /\ acl'[c.obj] = {}
      /\ \A o \in Object \ {c.obj} : name'[o] = name[o] /\ acl'[o] = acl[o]
  BY <1>1 DEF Consistent, TypeOK, CommitDelete
<1>6. TypeOK'
  <2>1. req' \in [Request -> Call \cup {Idle}]
    BY <1>3 DEF Consistent, TypeOK, CommitDelete, Go
  <2>2. /\ name' \in [Object -> Name \cup State]
        /\ acl' \in [Object -> SUBSET Right]
    BY <1>1 DEF Consistent, TypeOK, CommitDelete, State
  <2> QED BY <2>1, <2>2, <1>2, <1>5 DEF Consistent, TypeOK
<1> HIDE DEF d
<1>7. Gone \notin Name /\ Unborn \notin Name /\ Gone # Unborn
  BY DEF Gone, Unborn
<1>8. Renames(r)' /\ Uses(r)' = {c.old}
  BY <1>1, <1>3, <1>4 DEF Renames, Uses
<1>9. UniqueNames'
  BY <1>1, <1>5, <1>7 DEF Consistent, UniqueNames
<1>10. \A n \in Name \ (astray' \cup {c.old}) : \A o \in Object :
          /\ name'[o] = n <=> name[o] = n
          /\ name[o] = n => acl'[o] = acl[o]
  BY <1>1, <1>2, <1>5, <1>7
<1>11. Leaves(r)
  <2>1. ASSUME NEW s \in Request \ {r}, NEW n \in Uses(s) \ astray'
        PROVE  n \in Name \ {c.old}
    BY <2>1, <1>2, <1>4, <1>8, OthersElsewhere DEF Uses
  <2>2. ASSUME NEW s \in Request \ {r}, Holds(req[s]),
               name'[req[s].obj] # name[req[s].obj]
        PROVE  name'[req[s].obj] \notin Name
    BY <2>2, <1>5, <1>7, HeldNames
  <2> QED BY <1>1, <1>4, <1>5, <1>7, <1>10, <2>1, <2>2 DEF Leaves
<1>12. AddsOwn(r) /\ Shape(req[r])' /\ Held(req[r])'
  BY <1>1, <1>3, <1>4 DEF AddsOwn, Shape, Held, Holds
<1>13. Halfway(req[r])'
  <2>1. ASSUME c.old \notin astray', NEW o \in Object
        PROVE  name'[o] # c.old
    BY <2>1, <1>1, <1>2, <1>5, <1>7 DEF Consistent, UniqueNames
  <2> QED BY <2>1, <1>3, <1>4 DEF Halfway, Committed, Free
<1>14. PermissionsMatch'
  <2> SUFFICES ASSUME NEW n \in Name, n \notin astray', ~Unfinished(n)'
               PROVE  perms'[n] = Rights(n)'
    BY DEF PermissionsMatch
  <2>1. Committed(req[r])'
    BY <1>3, <1>4 DEF Committed
  <2>2. n # c.old
    BY <2>1, <1>8 DEF Unfinished
  <2> QED BY <2>2, <1>1, <1>2, <1>4, <1>5, <1>10, MatchElsewhere
<1> QED BY <1>1, <1>6, <1>9, <1>11, <1>12, <1>13, <1>14, Frame

LEMMA DropStep ==
    ASSUME Consistent, NEW r \in Request, DelPermObj(r), UNCHANGED served
    PROVE  Consistent'
<1> DEFINE c == req[r]
<1>1. /\ c.op = "delete" /\ c.pc = "drop" /\ c.old \in Name /\ Stray({})
      /\ Uses(r) = {c.old} /\ Renames(r)
  BY DEF DelPermObj, Consistent, Shape, Idle, Uses, Renames
<1>2. /\ astray \subseteq astray' /\ astray' \subseteq Name
  BY <1>1, StrayCloses DEF Consistent
<1>3. PICK d : TurnedTo(r, d)
  BY <1>1, TurnsAway DEF DelPermObj
<1>4. req'[r] = d /\ \A s \in Request \ {r} : req'[s] = req[s]
  BY <1>3 DEF TurnedTo, Consistent, TypeOK
<1>5. /\ perms'[c.old] = {} /\ UNCHANGED <<name, acl>>
      /\ \A n \in Name \ {c.old} : perms'[n] = perms[n]
  BY <1>1 DEF DelPermObj, Consistent, TypeOK
<1>6. TypeOK'
  <2>1. perms' \in [Name -> SUBSET Right]
    BY <1>1 DEF DelPermObj, Consistent, TypeOK
  <2>2. req' \in [Request -> Call \cup {Idle}]
    BY <1>3 DEF TurnedTo, Consistent, TypeOK
  <2> QED BY <2>1, <2>2, <1>2, <1>5 DEF Consistent, TypeOK
<1>7. UniqueNames'
  BY <1>5 DEF Consistent, UniqueNames
<1>8. Leaves(r)
  <2>1. ASSUME NEW s \in Request \ {r}, NEW n \in Uses(s) \ astray'
        PROVE  n \in Name \ {c.old}
    BY <2>1, <1>1, <1>2, CleanNamesApart DEF Uses, Consistent
  <2> QED BY <2>1, <1>4, <1>5 DEF Leaves
<1>9. AddsOwn(r)
  BY <1>3, <1>4 DEF TurnedTo, AddsOwn
<1>10. Shape(req[r])' /\ Held(req[r])' /\ Halfway(req[r])'
  <2>1. ~Holds(d) /\ ~Committed(d)
    BY <1>3 DEF TurnedTo, Holds, Committed
  <2>2. Shape(d)
    BY <1>3 DEF TurnedTo
  <2> QED BY <2>1, <2>2, <1>4, <1>5 DEF Shape, Held, Holds, Halfway, Committed
<1>11. PermissionsMatch'
  <2> SUFFICES ASSUME NEW n \in Name, n \notin astray', ~Unfinished(n)'
               PROVE  perms'[n] = Rights(n)'
    BY DEF PermissionsMatch
  <2>1. CASE n = c.old
    <3>1. Free(n)
      BY <2>1, <1>1, <1>2 DEF Consistent, Halfway, Committed, Free
    <3>2. Rights(n) = {} /\ Rights(n)' = Rights(n)
      BY <3>1, <1>5, RightsOfFree DEF Rights
    <3> QED BY <3>2, <2>1, <1>5
  <2>2. CASE n # c.old
    BY <2>2, <1>1, <1>2, <1>4, <1>5, MatchElsewhere
  <2> QED BY <2>1, <2>2
<1> QED BY <1>1, <1>6, <1>7, <1>8, <1>9, <1>10, <1>11, Frame

(* What a step of a grant that is not the last leaves to do.               *)
LEMMA AfterLastTurns ==
    ASSUME Consistent, NEW r \in Request, req[r].op \in {"add", "grant"},
           req[r].pc = "grant"
    PROVE  LET d == AfterLast(req[r]) IN
           /\ d \in Call \cup {Idle} /\ Shape(d)
           /\ d.pc \in {"idle", "next"} /\ d.old = NoName /\ d.op # "add"
<1> DEFINE c == req[r]
           todo == IF c.op = "grant" THEN c.todo \cup Deps[c.obj] ELSE {}
           d == [c EXCEPT !.pc = "next", !.obj = NoObject, !.old = NoName,
                          !.todo = todo]
<1>1. CASE todo = {}
  BY <1>1 DEF AfterLast, Shape, Idle
<1>2. CASE todo # {}
  <2>1. c.op = "grant"
    BY <1>2
  <2>2. c \in Call /\ c.obj \in Object /\ c.who \in User
    BY <2>1 DEF Consistent, TypeOK, Shape, Idle
  <2>3. todo \subseteq Object
    BY <2>1, <2>2 DEF Call
  <2> HIDE DEF todo
  <2>4. d \in Call /\ d.op = "grant" /\ d.pc = "next" /\ d.old = NoName
        /\ d.who = c.who
    BY <2>1, <2>2, <2>3 DEF Call, Pc
  <2>5. AfterLast(c) = d
    BY <1>2 DEF AfterLast, todo
  <2> HIDE DEF d
  <2>6. Shape(d)
    BY <2>2, <2>4 DEF Shape
  <2> QED BY <2>4, <2>5, <2>6
<1> QED BY <1>1, <1>2

LEMMA GrantStep ==
    ASSUME Consistent, NEW r \in Request, Grant(r), UNCHANGED served
    PROVE  Consistent'
<1> DEFINE c == req[r]
<1>1. PICK a \in c.left :
          /\ perms' = [perms EXCEPT ![c.old] = @ \cup {<<c.who, a>>}]
          /\ acl' = [acl EXCEPT ![c.obj] = @ \cup {<<c.who, a>>}]
          /\ req' = [req EXCEPT ![r] =
                       IF c.left = {a} THEN AfterLast(c)
                       ELSE [c EXCEPT !.left = c.left \ {a}]]
  BY DEF Grant
<1> DEFINE d == [c EXCEPT !.left = c.left \ {a}]
           x == <<c.who, a>>
<1>2. /\ c \in Call /\ c.op \in {"add", "grant"} /\ c.pc = "grant"
      /\ c.obj \in Object /\ c.old \in Name /\ name[c.obj] # Unborn
      /\ c.old \notin astray => name[c.obj] = c.old
      /\ name[c.obj] \in Name \ {c.old} => name[c.obj] \in astray
      /\ Stray({}) /\ c.who \in User /\ x \in Right
  <2>1. c \in Call
    BY DEF Grant, Consistent, TypeOK, Idle
  <2>2. Holds(c)
    BY DEF Grant, Holds
  <2>3. c.who \in User
    BY DEF Grant, Consistent, Shape, Idle
  <2>4. c.left \subseteq ALL_PERMS
    BY <2>1 DEF Call
  <2>5. x \in Right
    BY <2>3, <2>4 DEF Right
  <2> QED BY <2>1, <2>2, <2>3, <2>5, HeldNames DEF Grant
<1>3. /\ c.op = "add" => c.who = c.user /\ c.all = OWNER_PERMS
                         /\ c.left \subseteq OWNER_PERMS /\ c.user \in User
      /\ c.op = "add" => Renames(r) /\ Committed(c)
      /\ c.op = "grant" => ~Committed(c)
      /\ Uses(r) = {c.old}
  BY <1>2 DEF Consistent, Shape, Idle, Renames, Committed, Uses
<1>4. /\ astray \subseteq astray' /\ astray' \subseteq Name
  BY <1>2, StrayCloses DEF Consistent
<1>5. /\ d \in Call /\ d.op = c.op /\ d.pc = "grant" /\ d.obj = c.obj
      /\ d.old = c.old /\ d.new = c.new /\ d.user = c.user /\ d.who = c.who
      /\ d.all = c.all /\ d.left = c.left \ {a}
  BY <1>2 DEF Call
<1> HIDE DEF d
<1>6. \A s \in Request \ {r} : req'[s] = req[s]
  BY <1>1 DEF Consistent, TypeOK
<1>7. req'[r] = IF c.left = {a} THEN AfterLast(c) ELSE d
  BY <1>1 DEF Consistent, TypeOK, d
<1>8. /\ perms'[c.old] = perms[c.old] \cup {x}
      /\ acl'[c.obj] = acl[c.obj] \cup {x}
      /\ \A n \in Name \ {c.old} : perms'[n] = perms[n]
      /\ \A o \in Object \ {c.obj} : acl'[o] = acl[o]
      /\ name' = name
  BY <1>1, <1>2 DEF Consistent, TypeOK, Grant
<1>9. TypeOK'
  <2>1. /\ perms' \in [Name -> SUBSET Right]
        /\ acl' \in [Object -> SUBSET Right]
    <3>1. perms[c.old] \cup {x} \subseteq Right /\ acl[c.obj] \cup {x} \subseteq Right
      BY <1>2 DEF Consistent, TypeOK
    <3> QED BY <3>1, <1>1 DEF Consistent, TypeOK
  <2>2. req' \in [Request -> Call \cup {Idle}]
    BY <1>1, <1>2, <1>5, AfterLastTurns DEF Consistent, TypeOK, d
  <2> QED BY <2>1, <2>2, <1>4, <1>8 DEF Consistent, TypeOK
<1>10. UniqueNames'
  BY <1>8 DEF Consistent, UniqueNames
<1>11. \A n \in Name \ (astray' \cup {c.old}) : \A o \in Object :
          name[o] = n => acl'[o] = acl[o]
  BY <1>2, <1>4, <1>8
<1>12. Leaves(r)
  <2>1. ASSUME NEW s \in Request \ {r}, NEW n \in Uses(s) \ astray', Renames(s)
        PROVE  n \in Name \ {c.old}
    BY <2>1, <1>3, <1>4, CleanNamesApart DEF Uses, Consistent
  <2> QED BY <2>1, <1>6, <1>8, <1>11 DEF Leaves
<1>13. CASE c.left = {a}
  <2> DEFINE e == AfterLast(c)
  <2>1. /\ Shape(e) /\ e.pc \in {"idle", "next"} /\ e.old = NoName
        /\ e.op # "add" /\ req'[r] = e
    BY <1>2, <1>7, <1>13, AfterLastTurns
  <2> HIDE DEF e
  <2>2. AddsOwn(r)
    BY <2>1 DEF AddsOwn
  <2>3. Shape(req[r])' /\ Held(req[r])' /\ Halfway(req[r])'
    BY <2>1, <1>8 DEF Shape, Held, Holds, Halfway, Committed
  <2>4. PermissionsMatch'
    <3> SUFFICES ASSUME NEW n \in Name, n \notin astray', ~Unfinished(n)'
                 PROVE  perms'[n] = Rights(n)'
      BY DEF PermissionsMatch
    <3>1. CASE n = c.old
      <4>1. name[c.obj] = n
        BY <3>1, <1>2, <1>4
      <4>2. perms[n] \cup {x} = acl[c.obj] \cup {x}
        <5>1. CASE c.op = "add"
          <6>1. acl[c.obj] = perms[c.old] \cup ({c.user} \X c.left)
            BY <5>1, <3>1, <1>2, <1>4 DEF Consistent, Halfway, Committed
          <6>2. {c.user} \X c.left = {x}
            BY <5>1, <1>3, <1>13
          <6> QED BY <6>1, <6>2, <3>1
        <5>2. CASE c.op = "grant"
          <6>1. ~Unfinished(n)
            <7> SUFFICES ASSUME NEW s \in Request, n \in Uses(s),
                                Committed(req[s])
                         PROVE  FALSE
              BY DEF Unfinished
            <7>1. s # r /\ req'[s] = req[s]
              BY <5>2, <1>3, <1>6
            <7>2. n \in Uses(s)'
              BY <7>1 DEF Uses
            <7> QED BY <7>1, <7>2 DEF Unfinished, Committed
          <6>2. perms[n] = Rights(n)
            BY <6>1, <1>4 DEF Consistent, PermissionsMatch
          <6> QED BY <6>2, <4>1, <1>2, RightsOfNamed
        <5> QED BY <5>1, <5>2, <1>2
      <4>3. Rights(n)' = acl'[c.obj]
        <5>1. \A p \in Object : name'[p] = n => p = c.obj
          BY <4>1, <1>2, <1>8 DEF Consistent, UniqueNames
        <5>2. \A p \in Right : p \in Rights(n)' <=> p \in acl'[c.obj]
          BY <5>1, <4>1, <1>2, <1>8 DEF Rights
        <5>3. Rights(n)' \subseteq Right /\ acl'[c.obj] \subseteq Right
          BY <1>2, <1>9 DEF Rights, TypeOK
        <5> QED BY <5>2, <5>3
      <4> QED BY <4>2, <4>3, <3>1, <1>8
    <3>2. CASE n # c.old
      BY <3>2, <1>2, <1>3, <1>4, <1>6, <1>8, <1>11, MatchElsewhere
    <3> QED BY <3>1, <3>2
  <2> QED BY <1>2, <1>9, <1>10, <1>12, <2>2, <2>3, <2>4, Frame
<1>14. CASE c.left # {a}
  <2>1. req'[r] = d
    BY <1>7, <1>14
  <2>2. AddsOwn(r)
    BY <2>1, <1>2, <1>5 DEF AddsOwn
  <2>3. Shape(req[r])' /\ Held(req[r])'
    BY <2>1, <1>2, <1>3, <1>4, <1>5, <1>8 DEF Shape, Held, Holds
  <2>4. Halfway(req[r])'
    <3> SUFFICES ASSUME c.op = "add", c.old \notin astray'
                 PROVE  /\ acl'[c.obj] = perms'[c.old] \cup ({c.user} \X d.left)
                        /\ {c.user} \X OWNER_PERMS \subseteq acl'[c.obj]
      BY <2>1, <1>5, <1>2 DEF Halfway, Committed
    <3>1. /\ acl[c.obj] = perms[c.old] \cup ({c.user} \X c.left)
          /\ {c.user} \X OWNER_PERMS \subseteq acl[c.obj]
      BY <1>2, <1>4 DEF Consistent, Halfway, Committed
    <3>2. {c.user} \X c.left = {x} \cup ({c.user} \X d.left)
      BY <1>3, <1>5
    <3> QED BY <3>1, <3>2, <1>8
  <2>5. PermissionsMatch'
    <3> SUFFICES ASSUME NEW n \in Name, n \notin astray', ~Unfinished(n)'
                 PROVE  perms'[n] = Rights(n)'
      BY DEF PermissionsMatch
    <3>1. CASE n = c.old /\ c.op = "grant"
      <4>1. name[c.obj] = n
        BY <3>1, <1>2, <1>4
      <4>2. ~Unfinished(n)
        <5> SUFFICES ASSUME NEW s \in Request, n \in Uses(s), Committed(req[s])
                     PROVE  FALSE
          BY DEF Unfinished
        <5>1. s # r /\ req'[s] = req[s]
          BY <3>1, <1>3, <1>6
        <5>2. n \in Uses(s)'
          BY <5>1 DEF Uses
        <5> QED BY <5>1, <5>2 DEF Unfinished, Committed
      <4>3. perms[n] = acl[c.obj]
        BY <4>1, <4>2, <1>2, <1>4, RightsOfNamed DEF Consistent, PermissionsMatch
      <4>4. Rights(n)' = acl'[c.obj]
        <5>1. \A p \in Object : name'[p] = n => p = c.obj
          BY <4>1, <1>2, <1>8 DEF Consistent, UniqueNames
        <5>2. \A p \in Right : p \in Rights(n)' <=> p \in acl'[c.obj]
          BY <5>1, <4>1, <1>2, <1>8 DEF Rights
        <5>3. Rights(n)' \subseteq Right /\ acl'[c.obj] \subseteq Right
          BY <1>2, <1>9 DEF Rights, TypeOK
        <5> QED BY <5>2, <5>3
      <4> QED BY <4>3, <4>4, <3>1, <1>8
    <3>2. CASE n = c.old /\ c.op = "add"
      <4>1. Committed(req[r])' /\ n \in Uses(r)'
        BY <3>2, <2>1, <1>5 DEF Committed, Uses
      <4> QED BY <4>1 DEF Unfinished
    <3>3. CASE n # c.old
      BY <3>3, <1>2, <1>3, <1>4, <1>6, <1>8, <1>11, MatchElsewhere
    <3> QED BY <3>1, <3>2, <3>3, <1>2
  <2> QED BY <1>2, <1>9, <1>10, <1>12, <2>2, <2>3, <2>4, <2>5, Frame
<1> QED BY <1>13, <1>14

LEMMA RevokeStep ==
    ASSUME Consistent, NEW r \in Request, Revoke(r), UNCHANGED served
    PROVE  Consistent'
<1> DEFINE c == req[r]
<1>1. PICK a \in c.left :
          /\ perms' = [perms EXCEPT ![c.old] = @ \ {<<c.who, a>>}]
          /\ acl' = [o \in Object |-> IF name[o] = c.old
                                      THEN acl[o] \ {<<c.who, a>>} ELSE acl[o]]
          /\ req' = [req EXCEPT ![r] =
                       IF c.left = {a} THEN Idle
                       ELSE [c EXCEPT !.left = c.left \ {a}]]
  BY DEF Revoke
<1> DEFINE d == IF c.left = {a} THEN Idle ELSE [c EXCEPT !.left = c.left \ {a}]
           x == <<c.who, a>>
<1>2. /\ c \in Call /\ c.op = "revoke" /\ c.pc = "revoke" /\ c.old \in Name
      /\ Stray({}) /\ Uses(r) = {c.old} /\ ~Committed(c)
  BY DEF Revoke, Consistent, TypeOK, Shape, Idle, Uses, Committed
<1>3. /\ astray \subseteq astray' /\ astray' \subseteq Name
  BY <1>2, StrayCloses DEF Consistent
<1>4. /\ d \in Call \cup {Idle} /\ Shape(d) /\ d.op \in {"none", "revoke"}
      /\ d.pc \in {"idle", "revoke"}
  <2>1. CASE c.left = {a}
    BY <2>1 DEF Idle, Shape
  <2>2. CASE c.left # {a}
    <3> DEFINE e == [c EXCEPT !.left = c.left \ {a}]
    <3>1. e \in Call /\ e.op = "revoke" /\ e.pc = "revoke" /\ e.old = c.old
      BY <1>2 DEF Call
    <3>2. Shape(e)
      BY <3>1, <1>2 DEF Shape
    <3>3. d = e
      BY <2>2
    <3> HIDE DEF e, d
    <3> QED BY <3>1, <3>2, <3>3
  <2> QED BY <2>1, <2>2
<1>5. req' = [req EXCEPT ![r] = d]
  BY <1>1
<1> HIDE DEF d
<1>6. req'[r] = d /\ \A s \in Request \ {r} : req'[s] = req[s]
  BY <1>5 DEF Consistent, TypeOK
<1>7. /\ perms'[c.old] = perms[c.old] \ {x} /\ name' = name
      /\ \A n \in Name \ {c.old} : perms'[n] = perms[n]
      /\ \A o \in Object : acl'[o] = IF name[o] = c.old THEN acl[o] \ {x}
                                     ELSE acl[o]
  BY <1>1, <1>2 DEF Consistent, TypeOK, Revoke
<1>8. TypeOK'
  <2>1. /\ perms' \in [Name -> SUBSET Right]
        /\ acl' \in [Object -> SUBSET Right]
    BY <1>1, <1>2 DEF Consistent, TypeOK
  <2>2. req' \in [Request -> Call \cup {Idle}]
    BY <1>4, <1>5 DEF Consistent, TypeOK
  <2> QED BY <2>1, <2>2, <1>3, <1>7 DEF Consistent, TypeOK
<1>9. UniqueNames'
  BY <1>7 DEF Consistent, UniqueNames
<1>10. Leaves(r)
  <2>1. ASSUME NEW s \in Request \ {r}, NEW n \in Uses(s) \ astray', Renames(s)
        PROVE  n \in Name \ {c.old}
    BY <2>1, <1>2, <1>3, CleanNamesApart DEF Uses, Consistent
  <2> QED BY <2>1, <1>6, <1>7 DEF Leaves
<1>11. AddsOwn(r) /\ Shape(req[r])' /\ Held(req[r])' /\ Halfway(req[r])'
  BY <1>4, <1>6, <1>7 DEF AddsOwn, Shape, Held, Holds, Halfway, Committed
<1>12. PermissionsMatch'
  <2> SUFFICES ASSUME NEW n \in Name, n \notin astray', ~Unfinished(n)'
               PROVE  perms'[n] = Rights(n)'
    BY DEF PermissionsMatch
  <2>1. CASE n = c.old
    <3>1. ~Unfinished(n)
      <4> SUFFICES ASSUME NEW s \in Request, n \in Uses(s), Committed(req[s])
                   PROVE  FALSE
        BY DEF Unfinished
      <4>1. s # r /\ req'[s] = req[s]
        BY <1>2, <1>6
      <4>2. n \in Uses(s)'
        BY <4>1 DEF Uses
      <4> QED BY <4>1, <4>2 DEF Unfinished, Committed
    <3>2. perms[n] = Rights(n)
      BY <3>1, <1>3 DEF Consistent, PermissionsMatch
    <3>3. ASSUME NEW p \in Right
          PROVE  p \in Rights(n)' <=> p \in Rights(n) /\ p # x
      <4> HIDE DEF x
      <4>1. ASSUME NEW o \in Object
            PROVE  name'[o] = n /\ p \in acl'[o] <=>
                   name[o] = n /\ p \in acl[o] /\ p # x
        <5>1. acl'[o] = IF name[o] = n THEN acl[o] \ {x} ELSE acl[o]
          BY <2>1, <1>7
        <5> QED BY <5>1, <1>7
      <4>2. p \in Rights(n)' <=> \E o \in Object : name'[o] = n /\ p \in acl'[o]
        BY DEF Rights
      <4>3. p \in Rights(n) <=> \E o \in Object : name[o] = n /\ p \in acl[o]
        BY DEF Rights
      <4> QED BY <4>1, <4>2, <4>3
    <3>4. Rights(n)' \subseteq Right /\ Rights(n) \subseteq Right
      BY DEF Rights
    <3>5. Rights(n)' = Rights(n) \ {x}
      BY <3>3, <3>4
    <3> QED BY <3>2, <3>5, <2>1, <1>7
  <2>2. CASE n # c.old
    BY <2>2, <1>2, <1>3, <1>6, <1>7, MatchElsewhere
  <2> QED BY <2>1, <2>2
<1> QED BY <1>2, <1>8, <1>9, <1>10, <1>11, <1>12, Frame

LEMMA ConsistentInit == Init => Consistent
<1> SUFFICES ASSUME Init PROVE Consistent
  OBVIOUS
<1>1. Unborn \notin Name /\ Idle.old = NoName /\ Idle.new = NoName
      /\ Idle.op = "none"
  BY DEF Unborn, Idle
<1>2. \A r \in Request : req[r] = Idle /\ Uses(r) = {}
  BY <1>1 DEF Init, Uses
<1>3. TypeOK
  BY DEF Init, TypeOK, State
<1>4. UniqueNames /\ AddsApart
  BY <1>1, <1>2 DEF UniqueNames, AddsApart, Init
<1>5. Clash \subseteq astray /\ Spread
  BY <1>2 DEF Clash, Spread
<1>6. \A r \in Request : Shape(req[r]) /\ Held(req[r]) /\ Halfway(req[r])
  BY <1>2, IdleIsQuiet
<1>7. PermissionsMatch
  <2>1. \A n \in Name : Free(n) /\ perms[n] = {}
    BY <1>1 DEF Free, Init
  <2> QED BY <2>1, RightsOfFree DEF PermissionsMatch
<1> QED BY <1>3, <1>4, <1>5, <1>6, <1>7 DEF Consistent

LEMMA ConsistentStep == Consistent /\ [Next]_vars => Consistent'
<1> SUFFICES ASSUME Consistent, [Next]_vars PROVE Consistent'
  OBVIOUS
<1>1. CASE UNCHANGED vars
  <2>1. TypeOK' /\ UniqueNames' /\ AddsApart'
    BY <1>1 DEF vars, Consistent, TypeOK, UniqueNames, AddsApart
  <2>2. \A r \in Request : Uses(r)' = Uses(r) /\ Renames(r)' = Renames(r)
    BY <1>1 DEF vars, Uses, Renames
  <2>3. (Clash \subseteq astray)' /\ Spread'
    BY <1>1, <2>2 DEF vars, Consistent, Clash, Spread
  <2>4. ASSUME NEW r \in Request
        PROVE  (Shape(req[r]) /\ Held(req[r]) /\ Halfway(req[r]))'
    BY <1>1 DEF vars, Consistent, Shape, Held, Holds, Halfway, Committed, Free
  <2>5. PermissionsMatch'
    BY <1>1, <2>2
       DEF vars, Consistent, PermissionsMatch, Unfinished, Committed, Rights
  <2> QED BY <2>1, <2>3, <2>4, <2>5 DEF Consistent
<1>2. ASSUME NEW r \in Request, Begin(r)
      PROVE  Consistent'
  BY <1>2, BeginStep
<1>3. ASSUME NEW r \in Request, Continue(r), UNCHANGED served
      PROVE  Consistent'
  BY <1>3, CommitAddStep, CommitEditStep, RenameStep, CommitOverwriteStep,
     CommitDeleteStep, DropStep, GrantStep, RevokeStep, ReadStep, RereadStep
  DEF Continue
<1> QED BY <1>1, <1>2, <1>3 DEF Next

(* The invariant holds for ever.                                           *)
THEOREM ConsistentAlways == Spec => []Consistent
BY ConsistentInit, ConsistentStep, PTL DEF Spec

(* Every reachable state is well typed.                                    *)
THEOREM TypeCorrect == Spec => []TypeOK
<1>1. Consistent => TypeOK
  BY DEF Consistent
<1> QED BY <1>1, ConsistentAlways, PTL

(* Guardian has exactly what was granted on the object of a name, for any  *)
(* users, names, objects and requests: views/base.py writes two stores     *)
(* that fail separately, and only the names in astray pay for it.          *)
THEOREM PermissionsMatchAlways == Spec => []PermissionsMatch
<1>1. Consistent => PermissionsMatch
  BY DEF Consistent
<1> QED BY <1>1, ConsistentAlways, PTL

(* A request whose name did not go astray writes the object it checked.    *)
THEOREM CheckedIsWrittenAlways == Spec => []CheckedIsWritten
<1>1. Consistent => CheckedIsWritten
  BY HeldNames DEF CheckedIsWritten, Holds
<1> QED BY <1>1, ConsistentAlways, PTL
=============================================================================
