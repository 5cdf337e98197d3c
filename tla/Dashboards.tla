---------------------------- MODULE Dashboards ----------------------------
(***************************************************************************)
(* The slices of dashboards, the stars users give and the release of an    *)
(* object with all it depends on.                                          *)
(*                                                                         *)
(* A page shows the slices of a dashboard, or the dashboards of a slice,   *)
(* as they were when it was loaded, and sends back a list.  The server     *)
(* reads the links there are, and writes the difference to that list when  *)
(* it commits; nothing in the database keeps a link or a star from being   *)
(* inserted twice.  A release commits object by object.  Requests          *)
(* interleave, and each may fail between two commits.                      *)
(***************************************************************************)
EXTENDS Naturals, FiniteSets

CONSTANTS
    Dashboard, Slice,
    Data,           \* datasets and connections
    User,
    owner,          \* owner[o]: created_by_fk
    Needs,          \* Needs[o]: what a slice or a dataset is made from
    Page,           \* browser pages
    Request,
    MaxServed       \* bound on the requests of a behaviour

Object == Dashboard \cup Slice \cup Data
Pair == Dashboard \X Slice

ASSUME DashboardsAssumption ==
    /\ Dashboard \cap Slice = {} /\ (Dashboard \cup Slice) \cap Data = {}
    /\ owner \in [Object -> User]
    /\ Needs \in [Slice \cup Data -> SUBSET Data]
    /\ MaxServed \in Nat

VARIABLES
    there,      \* the rows of dashboards, slices, datasets, connections
    rows,       \* dashboard_slices: a pair, and the slot that inserted it
    stars,      \* favstar: a user, an object, and the slot that inserted it
    online,     \* the objects released
    page,       \* what each page shows
    req, served,
    wanted,     \* the links the users meant there to be
    liked,      \* the stars the users meant there to be
    astray,     \* links and stars that met another request or an old page
    excused     \* excused[r]: linked or put offline while r was releasing

db == <<there, rows, stars, online>>
ghosts == <<wanted, liked, astray, excused>>
vars == <<db, page, req, served, ghosts>>

Linked == {x \in Pair : \E r \in Request : <<x, r>> \in rows}
Stars(u, o) == {f \in stars : f[1] = u /\ f[2] = o}

(* The links a page or a form of o is about.                               *)
Of(o) == {x \in Pair : x[1] = o \/ x[2] = o}

(* What a release of o goes on to.                                         *)
Children(o) == IF o \in Dashboard THEN {s \in Slice : <<o, s>> \in Linked}
               ELSE Needs[o]

Idle == [op |-> "none"]
End(r) == req' = [req EXCEPT ![r] = Idle]
Start(r, call) ==
    /\ req[r] = Idle /\ served < MaxServed
    /\ req' = [req EXCEPT ![r] = call]
    /\ served' = served + 1

Relink == [op : {"relink"}, loaded : SUBSET Pair, add : SUBSET Pair,
           drop : SUBSET Pair, plus : SUBSET Pair, minus : SUBSET Pair]
Release == [op : {"release"}, user : User, start : Object,
            todo : SUBSET Object, seen : SUBSET Object]
Star == [op : {"like", "dislike"}, user : User, obj : Dashboard \cup Slice,
         favs : SUBSET (User \X (Dashboard \cup Slice) \X Request)]
Deletion == [op : {"delete"}, obj : Dashboard \cup Slice, loaded : SUBSET Pair]
            \cup [op : {"unstar"}, obj : Dashboard \cup Slice]

TypeOK ==
    /\ there \subseteq Object
    /\ rows \subseteq Pair \X Request
    /\ stars \subseteq User \X (Dashboard \cup Slice) \X Request
    /\ online \subseteq Object
    /\ page \in [Page -> [of : Dashboard \cup Slice, shown : SUBSET Pair]]
    /\ req \in [Request -> Relink \cup Release \cup Star \cup Deletion \cup {Idle}]
    /\ served \in 0..MaxServed
    /\ wanted \subseteq Pair /\ liked \subseteq User \X Object
    /\ astray \subseteq Pair \cup (User \X Object)
    /\ excused \in [Request -> SUBSET Object]
    /\ \A x \in Linked : x[1] \in there /\ x[2] \in there

Init ==
    /\ there = Object /\ rows = {} /\ stars = {} /\ online = {}
    /\ page \in [Page -> [of : Dashboard \cup Slice, shown : {{}}]]
    /\ req = [r \in Request |-> Idle] /\ served = 0
    /\ wanted = {} /\ liked = {} /\ astray = {}
    /\ excused = [r \in Request |-> {}]

-----------------------------------------------------------------------------
(* Links.                                                                  *)

Load(p) ==
    \E o \in there \cap (Dashboard \cup Slice) :
        /\ page' = [page EXCEPT ![p] = [of |-> o, shown |-> Linked \cap Of(o)]]
        /\ UNCHANGED <<db, req, served, ghosts>>

(* The handler reads the links of o, to replace them by list; the user     *)
(* meant to add plus and to remove minus.                                  *)
ReadLinks(r, o, list, plus, minus) ==
    LET loaded == Linked \cap Of(o) IN
    /\ o \in there
    /\ Start(r, [op |-> "relink", loaded |-> loaded, add |-> list \ loaded,
                 drop |-> loaded \ list, plus |-> plus, minus |-> minus])
    /\ UNCHANGED <<db, ghosts>>

(* save_dash: the page's positions, of the slices the dashboard has.       *)
SaveDash(r) ==
    \E p \in Page : \E positions \in SUBSET page[p].shown :
        /\ page[p].of \in Dashboard
        /\ ReadLinks(r, page[p].of, positions \cap Linked,
                     {}, page[p].shown \ positions)
        /\ page' = [page EXCEPT ![p].shown = positions]

AddSlices(r) ==
    \E d \in Dashboard \cap there, ids \in SUBSET (Slice \cap there) :
        /\ ids # {}
        /\ ReadLinks(r, d, (Linked \cap Of(d)) \cup ({d} \X ids), {d} \X ids, {})
        /\ UNCHANGED page

(* edit of a dashboard or of a slice, from a form with all its links.      *)
EditLinks(r) ==
    \E p \in Page : \E list \in SUBSET Of(page[p].of) :
        /\ \A x \in list : x[1] \in there /\ x[2] \in there
        /\ ReadLinks(r, page[p].of, list, list \ page[p].shown,
                     page[p].shown \ list)
        /\ UNCHANGED page

(* DELETE must find exactly the rows it expects.                           *)
Matches(drop) ==
    Cardinality({x \in rows : x[1] \in drop}) = Cardinality(drop)

(* Mutant of Write: the links are written as a whole.                      *)
WriteAll(r, c) ==
    rows' = {x \in rows : x[1] \notin UNION {Of(y[1]) : y \in c.loaded \cup c.add}}
            \cup {<<x, r>> : x \in (c.loaded \ c.drop) \cup c.add}

Write(r, c) ==
    rows' = {x \in rows : x[1] \notin c.drop} \cup {<<x, r>> : x \in c.add}

(* Astray: what the user did not see and still changed, and what changed   *)
(* between the read and this commit.                                       *)
CommitLinks(r) ==
    LET c == req[r]
        unseen == (c.drop \ c.minus) \cup (c.add \ c.plus)
        stale == {x \in c.plus \cup c.minus : (x \in c.loaded) # (x \in Linked)}
    IN
    /\ c.op = "relink"
    /\ \/ /\ Matches(c.drop)
          /\ \A x \in c.add : x[1] \in there /\ x[2] \in there
          /\ Write(r, c)
          /\ wanted' = (wanted \ c.minus) \cup c.plus
          /\ astray' = astray \cup unseen \cup stale
          /\ excused' = [s \in Request |-> excused[s] \cup {x[2] : x \in c.add}]
       \/ /\ \/ ~Matches(c.drop)
             \/ \E x \in c.add : x[1] \notin there \/ x[2] \notin there
          /\ UNCHANGED <<rows, wanted, astray, excused>>
    /\ End(r)
    /\ UNCHANGED <<there, stars, online, page, served, liked>>

-----------------------------------------------------------------------------
(* favstar.                                                                *)

ReadStars(r) ==
    \E u \in User, o \in there \cap (Dashboard \cup Slice), op \in {"like", "dislike"} :
        /\ Start(r, [op |-> op, user |-> u, obj |-> o, favs |-> Stars(u, o)])
        /\ UNCHANGED <<db, page, ghosts>>

(* Mutant of Liked: the stars that were read are not looked at.            *)
LikedAgain(r, c) == stars \cup {<<c.user, c.obj, r>>}

Liked(r, c) == IF c.favs = {} THEN stars \cup {<<c.user, c.obj, r>>} ELSE stars

CommitStars(r) ==
    LET c == req[r]
        star == <<c.user, c.obj>>
    IN
    /\ c.op \in {"like", "dislike"}
    /\ \/ /\ c.op = "like"
          /\ stars' = Liked(r, c)
          /\ liked' = liked \cup {star}
       \/ /\ c.op = "dislike"
          /\ stars' = stars \ c.favs
          /\ liked' = liked \ {star}
    /\ astray' = IF c.favs = Stars(c.user, c.obj) THEN astray ELSE astray \cup {star}
    /\ End(r)
    /\ UNCHANGED <<there, rows, online, page, served, wanted, excused>>

-----------------------------------------------------------------------------
(* Deletion takes the links along, and the stars in a second commit.       *)

StartDelete(r) ==
    \E o \in there \cap (Dashboard \cup Slice) :
        /\ Start(r, [op |-> "delete", obj |-> o, loaded |-> Linked \cap Of(o)])
        /\ UNCHANGED <<db, page, ghosts>>

(* Mutant of Unreferenced: no foreign key.                                 *)
UnreferencedOrNot(o, loaded) == TRUE

Unreferenced(o, loaded) == Linked \cap Of(o) \subseteq loaded

(* Links inserted since forbid it, and so do links that are there twice.   *)
CommitDelete(r) ==
    LET c == req[r] IN
    /\ c.op = "delete"
    /\ \/ /\ Matches(c.loaded) /\ Unreferenced(c.obj, c.loaded)
          /\ there' = there \ {c.obj}
          /\ rows' = {x \in rows : x[1] \notin c.loaded}
          /\ wanted' = wanted \ c.loaded
          /\ req' = [req EXCEPT ![r] = [op |-> "unstar", obj |-> c.obj]]
       \/ /\ ~Matches(c.loaded) \/ ~Unreferenced(c.obj, c.loaded)
          /\ End(r)
          /\ UNCHANGED <<there, rows, wanted>>
    /\ UNCHANGED <<stars, online, page, served, liked, astray, excused>>

DeleteStars(r) ==
    LET c == req[r] IN
    /\ c.op = "unstar"
    /\ stars' = {f \in stars : f[2] # c.obj}
    /\ End(r)
    /\ UNCHANGED <<there, rows, online, page, served, ghosts>>

-----------------------------------------------------------------------------
(* release_object.                                                         *)

StartRelease(r) ==
    \E u \in User, o \in there \ online :
        /\ Start(r, [op |-> "release", user |-> u, start |-> o,
                     todo |-> {o}, seen |-> {}])
        /\ excused' = [excused EXCEPT ![r] = {}]
        /\ UNCHANGED <<db, page, wanted, liked, astray>>

(* Mutant of After: what is online already is not looked into.             *)
AfterOffline(c, o) ==
    IF o \in online THEN c.todo \ {o} ELSE (c.todo \ {o}) \cup Children(o)

After(c, o) == (c.todo \ {o}) \cup Children(o)

(* Only what the requester made is released, but everything is looked into.*)
Visit(r) ==
    LET c == req[r] IN
    /\ c.op = "release"
    /\ \E o \in c.todo :
          \/ /\ o \in there
             /\ online' = IF owner[o] = c.user THEN online \cup {o} ELSE online
             /\ req' = [req EXCEPT ![r] = [c EXCEPT !.todo = After(c, o),
                                                    !.seen = c.seen \cup {o}]]
          \/ o \notin there /\ End(r) /\ UNCHANGED online
    /\ UNCHANGED <<there, rows, stars, page, served, ghosts>>

AnswerRelease(r) ==
    /\ req[r].op = "release" /\ req[r].todo = {}
    /\ End(r)
    /\ UNCHANGED <<db, page, served, ghosts>>

Offline(r) ==
    \E o \in there \cap online :
        /\ Start(r, Idle)
        /\ online' = online \ {o}
        /\ excused' = [s \in Request |-> excused[s] \cup {o}]
        /\ UNCHANGED <<there, rows, stars, page, wanted, liked, astray>>

-----------------------------------------------------------------------------
(* The request raises or its process dies.                                 *)
Fail(r) ==
    /\ req[r] # Idle
    /\ End(r)
    /\ UNCHANGED <<db, page, served, ghosts>>

Next ==
    \/ \E p \in Page : Load(p)
    \/ \E r \in Request :
          \/ SaveDash(r) \/ AddSlices(r) \/ EditLinks(r) \/ CommitLinks(r)
          \/ ReadStars(r) \/ CommitStars(r)
          \/ StartDelete(r) \/ CommitDelete(r) \/ DeleteStars(r)
          \/ StartRelease(r) \/ Visit(r) \/ AnswerRelease(r) \/ Offline(r)
          \/ Fail(r)

Spec == Init /\ [][Next]_vars

-----------------------------------------------------------------------------
(* A dashboard has the slices its users meant it to have, each once: a     *)
(* save removes only what its user removed, an addition survives a save    *)
(* under way, and no link is doubled - unless two requests met on the      *)
(* link, or the page was older than the link.                              *)
LinksAsMeant ==
    \A x \in Pair \ astray :
        /\ x \in Linked <=> x \in wanted
        /\ \A r, s \in Request : <<x, r>> \in rows /\ <<x, s>> \in rows => r = s

(* An object has one star of each user who likes it and none of the others,*)
(* so that lists show it once, unless two of that user's clicks met.       *)
StarsAsMeant ==
    \A u \in User, o \in there \cap (Dashboard \cup Slice) :
        <<u, o>> \notin astray =>
            /\ <<u, o>> \in liked <=> Stars(u, o) # {}
            /\ \A f, g \in Stars(u, o) : f = g

(* What is reached from o by links that are not new.                       *)
Reach(o, new) ==
    {g \in Object : \A S \in SUBSET Object :
        o \in S /\ (\A h \in S : Children(h) \ new \subseteq S) => g \in S}

(* When a release is answered, everything of the requester that the object *)
(* depends on is online, but for what was linked or put offline meanwhile. *)
ReleaseComplete ==
    \A r \in Request :
        req[r].op = "release" /\ req[r].todo = {} =>
            \A o \in Reach(req[r].start, excused[r]) :
                owner[o] = req[r].user => o \in online \cup excused[r]

-----------------------------------------------------------------------------
(* The inductive invariant.                                                *)

(* What a request carries to its commit fits what its user asked for.      *)
Prepared(c) ==
    /\ c.op = "relink" =>
        /\ c.add \cap c.loaded = {} /\ c.drop \subseteq c.loaded
        /\ c.plus \subseteq c.add \cup (c.loaded \ c.drop)
        /\ c.minus \cap (c.add \cup (c.loaded \ c.drop)) = {}
        /\ c.plus \cap c.minus = {}
    /\ c.op \in {"like", "dislike"} =>
        \A f \in c.favs : f[1] = c.user /\ f[2] = c.obj
    /\ c.op = "unstar" => c.obj \notin there

(* What a release has seen leads to what it has seen or will see.          *)
Spreading(c, new) ==
    c.op = "release" =>
        /\ c.start \in c.seen \cup c.todo
        /\ \A o \in c.seen :
             /\ Children(o) \ new \subseteq c.seen \cup c.todo
             /\ owner[o] = c.user => o \in online \cup new

Consistent ==
    /\ TypeOK /\ LinksAsMeant /\ StarsAsMeant
    /\ \A r \in Request : Prepared(req[r]) /\ Spreading(req[r], excused[r])
=============================================================================
