------------------------- MODULE DashboardsProofs -------------------------
(* The links, stars and releases of Dashboards for any number of pages and *)
(* requests.                                                               *)
EXTENDS Dashboards, TLAPS

Call == Relink \cup Release \cup Star \cup Deletion \cup {Idle}

(* What no request disturbs as long as it leaves links and stars alone.    *)
LEMMA LinksStay ==
    ASSUME LinksAsMeant, rows' = rows, wanted' = wanted, astray \subseteq astray'
    PROVE  LinksAsMeant' /\ Linked' = Linked
<1>1. Linked' = Linked
  BY DEF Linked
<1> QED
  BY <1>1 DEF LinksAsMeant

LEMMA StarsStay ==
    ASSUME StarsAsMeant, stars' = stars, liked' = liked,
           there' \subseteq there, astray \subseteq astray'
    PROVE  StarsAsMeant'
BY DEF StarsAsMeant, Stars

LEMMA ChildrenStay ==
    ASSUME rows' = rows
    PROVE  \A o : Children(o)' = Children(o)
BY DEF Children, Linked

LEMMA StarsTyped ==
    ASSUME TypeOK, NEW u, NEW o
    PROVE  Stars(u, o) \subseteq User \X (Dashboard \cup Slice) \X Request
BY DEF TypeOK, Stars

(* A request that only changes its own record, to one of the right form,   *)
(* keeps everything.                                                       *)
LEMMA OwnRecord ==
    ASSUME Consistent, NEW r \in Request, NEW c \in Call,
           req' = [req EXCEPT ![r] = c],
           page' \in [Page -> [of : Dashboard \cup Slice, shown : SUBSET Pair]],
           served' \in 0..MaxServed,
           there' = there, rows' = rows, stars' = stars, online' = online,
           wanted' = wanted, liked' = liked, astray' = astray,
           excused' \in [Request -> SUBSET Object],
           \A s \in Request : s # r => excused'[s] = excused[s],
           Prepared(c), Spreading(c, excused'[r])
    PROVE  Consistent'
<1>1. Linked' = Linked /\ LinksAsMeant' /\ StarsAsMeant'
  BY LinksStay, StarsStay DEF Consistent
<1>2. TypeOK'
  <2>1. req' \in [Request -> Call]
    BY DEF Consistent, TypeOK, Call
  <2> QED
    BY <2>1, <1>1 DEF Consistent, TypeOK, Call
<1>3. ASSUME NEW s \in Request
      PROVE  Prepared(req'[s]) /\ Spreading(req'[s], excused'[s])
  <2>1. CASE s = r
    <3>1. req'[s] = c
      BY <2>1 DEF Consistent, TypeOK
    <3> QED
      BY <3>1, <2>1
  <2>2. CASE s # r
    <3>1. req'[s] = req[s] /\ excused'[s] = excused[s]
      BY <2>2 DEF Consistent, TypeOK
    <3> QED
      BY <3>1 DEF Consistent
  <2> QED
    BY <2>1, <2>2
<1>4. ASSUME NEW s \in Request
      PROVE  Prepared(req[s])' /\ Spreading(req[s], excused[s])'
  <2>1. \A o : Children(o)' = Children(o)
    BY ChildrenStay
  <2> QED
    BY <1>3, <2>1 DEF Prepared, Spreading
<1> QED
  BY <1>1, <1>2, <1>4 DEF Consistent

LEMMA IdleFits ==
    Idle \in Call /\ Prepared(Idle) /\ \A new : Spreading(Idle, new)
BY DEF Idle, Call, Prepared, Spreading

LEMMA ServedTyped ==
    ASSUME TypeOK, served < MaxServed, served' = served + 1
    PROVE  served' \in 0..MaxServed
BY DashboardsAssumption DEF TypeOK

(* Reading the links sorts the list into what to add and what to drop.     *)
LEMMA ReadLinksKeeps ==
    ASSUME Consistent, NEW r \in Request, NEW o,
           NEW list \in SUBSET Pair, NEW plus \in SUBSET Pair, NEW minus \in SUBSET Pair,
           ReadLinks(r, o, list, plus, minus),
           page' \in [Page -> [of : Dashboard \cup Slice, shown : SUBSET Pair]],
           plus \subseteq list, minus \cap list = {}
    PROVE  Consistent'
<1> DEFINE loaded == Linked \cap Of(o)
           c == [op |-> "relink", loaded |-> loaded, add |-> list \ loaded,
                 drop |-> loaded \ list, plus |-> plus, minus |-> minus]
<1>1. /\ req' = [req EXCEPT ![r] = c]
      /\ served' \in 0..MaxServed
      /\ UNCHANGED <<db, ghosts>>
  BY ServedTyped DEF ReadLinks, Start, Consistent
<1>2. loaded \in SUBSET Pair
  BY DEF Linked
<1> HIDE DEF loaded
<1>3. c \in Relink
  BY <1>2 DEF Relink
<1>4. Prepared(c)
  BY <1>2 DEF Prepared
<1>5. \A new : Spreading(c, new)
  BY DEF Spreading
<1>6. c \in Call
  BY <1>3 DEF Call
<1> HIDE DEF c
<1> QED
  BY <1>1, <1>4, <1>5, <1>6, OwnRecord DEF db, ghosts, Consistent, TypeOK

LEMMA RelinksKeep ==
    ASSUME Consistent, NEW r \in Request,
           SaveDash(r) \/ AddSlices(r) \/ EditLinks(r)
    PROVE  Consistent'
<1>0. page \in [Page -> [of : Dashboard \cup Slice, shown : SUBSET Pair]]
  BY DEF Consistent, TypeOK
<1>1. \A p \in Page : page[p].of \in Dashboard \cup Slice /\ page[p].shown \subseteq Pair
  BY <1>0
<1>2. CASE SaveDash(r)
  <2>1. PICK p \in Page : \E positions \in SUBSET page[p].shown :
          /\ page[p].of \in Dashboard
          /\ ReadLinks(r, page[p].of, positions \cap Linked,
                       {}, page[p].shown \ positions)
          /\ page' = [page EXCEPT ![p].shown = positions]
    BY <1>2 DEF SaveDash
  <2>2. PICK positions \in SUBSET page[p].shown :
          /\ page[p].of \in Dashboard
          /\ ReadLinks(r, page[p].of, positions \cap Linked,
                       {}, page[p].shown \ positions)
          /\ page' = [page EXCEPT ![p].shown = positions]
    BY <2>1
  <2>3. positions \subseteq Pair
    BY <1>1, <2>2
  <2>4. page' \in [Page -> [of : Dashboard \cup Slice, shown : SUBSET Pair]]
    BY <1>0, <2>2, <2>3
  <2>5. /\ positions \cap Linked \in SUBSET Pair /\ {} \in SUBSET Pair
        /\ page[p].shown \ positions \in SUBSET Pair
    BY <1>1, <2>3
  <2> QED
    BY <2>2, <2>4, <2>5, ReadLinksKeeps
<1>3. CASE AddSlices(r)
  <2>1. PICK d \in Dashboard, ids \in SUBSET Slice :
          ReadLinks(r, d, (Linked \cap Of(d)) \cup ({d} \X ids), {d} \X ids, {})
          /\ UNCHANGED page
    BY <1>3 DEF AddSlices
  <2>2. {d} \X ids \in SUBSET Pair /\ Linked \subseteq Pair
    BY DEF Pair, Linked
  <2> DEFINE new == {d} \X ids
             list == (Linked \cap Of(d)) \cup new
  <2>3. ReadLinks(r, d, list, new, {}) /\ new \in SUBSET Pair
    BY <2>1, <2>2
  <2>4. list \in SUBSET Pair /\ new \subseteq list
    BY <2>2
  <2>5. page' \in [Page -> [of : Dashboard \cup Slice, shown : SUBSET Pair]]
    BY <1>0, <2>1
  <2> HIDE DEF list, new
  <2>6. {} \in SUBSET Pair /\ {} \cap list = {}
    OBVIOUS
  <2> QED
    BY <2>3, <2>4, <2>5, <2>6, ReadLinksKeeps
<1>4. CASE EditLinks(r)
  <2>1. PICK p \in Page, list \in SUBSET Pair :
          ReadLinks(r, page[p].of, list, list \ page[p].shown, page[p].shown \ list)
          /\ UNCHANGED page
    BY <1>4 DEF EditLinks, Of
  <2> DEFINE plus == list \ page[p].shown
             minus == page[p].shown \ list
  <2>2. ReadLinks(r, page[p].of, list, plus, minus)
    BY <2>1
  <2>3. /\ plus \in SUBSET Pair /\ minus \in SUBSET Pair
        /\ plus \subseteq list /\ minus \cap list = {}
    BY <1>1
  <2>4. page' \in [Page -> [of : Dashboard \cup Slice, shown : SUBSET Pair]]
    BY <1>0, <2>1
  <2> HIDE DEF plus, minus
  <2> QED
    BY <2>2, <2>3, <2>4, ReadLinksKeeps
<1> QED
  BY <1>2, <1>3, <1>4

LEMMA CallKinds ==
    ASSUME NEW c \in Call
    PROVE  /\ c.op = "relink" => c \in Relink
           /\ c.op = "release" => c \in Release
           /\ c.op \in {"like", "dislike"} => c \in Star
           /\ c.op \in {"delete", "unstar"} => c \in Deletion
BY DEF Call, Relink, Release, Star, Deletion, Idle

(* A release under way bears with fewer links, with more online, and with  *)
(* whatever it is excused from.                                            *)
LEMMA SpreadingStays ==
    ASSUME NEW s \in Request, Spreading(req[s], excused[s]),
           req'[s] = req[s], excused[s] \subseteq excused'[s],
           \A o : Children(o)' \ excused'[s] \subseteq Children(o),
           online \subseteq online' \cup excused'[s]
    PROVE  Spreading(req[s], excused[s])'
<1>1. ASSUME req[s].op = "release"
      PROVE  /\ req[s].start \in req[s].seen \cup req[s].todo
             /\ \A o \in req[s].seen :
                  /\ Children(o)' \ excused'[s] \subseteq req[s].seen \cup req[s].todo
                  /\ owner[o] = req[s].user => o \in online' \cup excused'[s]
  <2>1. req[s].start \in req[s].seen \cup req[s].todo
    BY <1>1 DEF Spreading
  <2>2. ASSUME NEW o \in req[s].seen
        PROVE  /\ Children(o)' \ excused'[s] \subseteq req[s].seen \cup req[s].todo
               /\ owner[o] = req[s].user => o \in online' \cup excused'[s]
    <3>1. /\ Children(o) \ excused[s] \subseteq req[s].seen \cup req[s].todo
          /\ owner[o] = req[s].user => o \in online \cup excused[s]
      BY <1>1, <2>2 DEF Spreading
    <3>2. Children(o)' \ excused'[s] \subseteq Children(o)
      OBVIOUS
    <3> QED
      BY <3>1, <3>2
  <2> QED
    BY <2>1, <2>2
<1> QED
  BY <1>1 DEF Spreading

LEMMA ReadsKeep ==
    ASSUME Consistent, NEW r \in Request,
           ReadStars(r) \/ StartDelete(r) \/ StartRelease(r)
             \/ AnswerRelease(r) \/ Fail(r)
    PROVE  Consistent'
<1>0. TypeOK
  BY DEF Consistent
<1>1. page' \in [Page -> [of : Dashboard \cup Slice, shown : SUBSET Pair]]
  BY <1>0 DEF TypeOK, ReadStars, StartDelete, StartRelease, AnswerRelease, Fail, db, ghosts
<1>2. CASE ReadStars(r)
  <2>1. PICK u \in User, o \in Dashboard \cup Slice, op \in {"like", "dislike"} :
          /\ Start(r, [op |-> op, user |-> u, obj |-> o, favs |-> Stars(u, o)])
          /\ UNCHANGED <<db, page, ghosts>>
    BY <1>2 DEF ReadStars
  <2> DEFINE c == [op |-> op, user |-> u, obj |-> o, favs |-> Stars(u, o)]
  <2>2. c \in Call
    BY <1>0, StarsTyped DEF Call, Star
  <2>3. Prepared(c) /\ \A new : Spreading(c, new)
    BY DEF Prepared, Spreading, Stars
  <2>4. req' = [req EXCEPT ![r] = c] /\ served' \in 0..MaxServed
    BY <1>0, <2>1, ServedTyped DEF Start
  <2> HIDE DEF c
  <2> QED
    BY <1>0, <1>1, <2>1, <2>2, <2>3, <2>4, OwnRecord DEF db, ghosts, TypeOK
<1>3. CASE StartDelete(r)
  <2>1. PICK o \in Dashboard \cup Slice :
          /\ Start(r, [op |-> "delete", obj |-> o, loaded |-> Linked \cap Of(o)])
          /\ UNCHANGED <<db, page, ghosts>>
    BY <1>3 DEF StartDelete
  <2> DEFINE c == [op |-> "delete", obj |-> o, loaded |-> Linked \cap Of(o)]
  <2>2. c \in Call
    BY DEF Call, Deletion, Linked
  <2>3. Prepared(c) /\ \A new : Spreading(c, new)
    BY DEF Prepared, Spreading
  <2>4. req' = [req EXCEPT ![r] = c] /\ served' \in 0..MaxServed
    BY <1>0, <2>1, ServedTyped DEF Start
  <2> HIDE DEF c
  <2> QED
    BY <1>0, <1>1, <2>1, <2>2, <2>3, <2>4, OwnRecord DEF db, ghosts, TypeOK
<1>4. CASE StartRelease(r)
  <2>1. PICK u \in User, o \in Object :
          /\ Start(r, [op |-> "release", user |-> u, start |-> o,
                       todo |-> {o}, seen |-> {}])
          /\ excused' = [excused EXCEPT ![r] = {}]
          /\ UNCHANGED <<db, page, wanted, liked, astray>>
    BY <1>0, <1>4 DEF StartRelease, TypeOK
  <2> DEFINE c == [op |-> "release", user |-> u, start |-> o, todo |-> {o}, seen |-> {}]
  <2>2. c \in Call
    BY DEF Call, Release
  <2>3. Prepared(c) /\ \A new : Spreading(c, new)
    BY DEF Prepared, Spreading
  <2>4. req' = [req EXCEPT ![r] = c] /\ served' \in 0..MaxServed
    BY <1>0, <2>1, ServedTyped DEF Start
  <2>5. /\ excused' \in [Request -> SUBSET Object]
        /\ \A s \in Request : s # r => excused'[s] = excused[s]
    BY <1>0, <2>1 DEF TypeOK
  <2> HIDE DEF c
  <2> QED
    BY <1>1, <2>1, <2>2, <2>3, <2>4, <2>5, OwnRecord DEF db
<1>5. CASE AnswerRelease(r) \/ Fail(r)
  <2>1. End(r) /\ UNCHANGED <<db, page, served, ghosts>>
    BY <1>5 DEF AnswerRelease, Fail
  <2> QED
    BY <1>0, <1>1, <2>1, IdleFits, OwnRecord DEF End, db, ghosts, TypeOK
<1> QED
  BY <1>2, <1>3, <1>4, <1>5

LEMMA LoadKeeps ==
    ASSUME Consistent, NEW p \in Page, Load(p)
    PROVE  Consistent'
<1>1. /\ UNCHANGED <<db, req, served, ghosts>>
      /\ page' \in [Page -> [of : Dashboard \cup Slice, shown : SUBSET Pair]]
  BY DEF Load, Consistent, TypeOK, Linked
<1>2. Linked' = Linked /\ LinksAsMeant' /\ StarsAsMeant'
  BY <1>1, LinksStay, StarsStay DEF Consistent, db, ghosts
<1>3. TypeOK'
  BY <1>1, <1>2 DEF Consistent, TypeOK, db, ghosts
<1>4. \A s \in Request : Spreading(req[s], excused[s])'
  BY <1>1, ChildrenStay, SpreadingStays DEF Consistent, db, ghosts
<1>5. \A s \in Request : Prepared(req[s])'
  BY <1>1 DEF Consistent, Prepared, db
<1> QED
  BY <1>2, <1>3, <1>4, <1>5 DEF Consistent

(* Other requests keep their records, and bear with what a commit does.    *)
LEMMA OthersStay ==
    ASSUME Consistent, NEW r \in Request, NEW c \in Call,
           req' = [req EXCEPT ![r] = c], c.op # "release",
           there' \subseteq there,
           c.op = "unstar" => c.obj \notin there',
           c.op \in {"none", "unstar"},
           \A s \in Request : excused[s] \subseteq excused'[s],
           \A s \in Request : \A o : Children(o)' \ excused'[s] \subseteq Children(o),
           \A s \in Request : online \subseteq online' \cup excused'[s]
    PROVE  /\ req' \in [Request -> Call]
           /\ \A s \in Request : Prepared(req[s])' /\ Spreading(req[s], excused[s])'
<1>1. req \in [Request -> Call]
  BY DEF Consistent, TypeOK, Call
<1>2. req' \in [Request -> Call]
  BY <1>1
<1>3. req'[r] = c
  BY <1>1
<1>4. ASSUME NEW s \in Request
      PROVE  Prepared(req[s])' /\ Spreading(req[s], excused[s])'
  <2>1. CASE s = r
    BY <1>3, <2>1 DEF Prepared, Spreading
  <2>2. CASE s # r
    <3>1. req'[s] = req[s]
      BY <1>1, <2>2
    <3>2. Prepared(req[s])'
      BY <3>1 DEF Consistent, Prepared
    <3>3. Spreading(req[s], excused[s])'
      BY <3>1, SpreadingStays DEF Consistent
    <3> QED
      BY <3>2, <3>3
  <2> QED
    BY <2>1, <2>2
<1> QED
  BY <1>2, <1>4

LEMMA CommitLinksKeeps ==
    ASSUME Consistent, NEW r \in Request, CommitLinks(r)
    PROVE  Consistent'
<1> DEFINE c == req[r]
           unseen == (c.drop \ c.minus) \cup (c.add \ c.plus)
           stale == {x \in c.plus \cup c.minus : (x \in c.loaded) # (x \in Linked)}
           slices == {x[2] : x \in c.add}
<1>0. TypeOK /\ req \in [Request -> Call]
  BY DEF Consistent, TypeOK, Call
<1>1. c \in Relink /\ Prepared(c) /\ c.op = "relink"
  BY <1>0, CallKinds DEF CommitLinks, Consistent
<1>2. CASE UNCHANGED <<rows, wanted, astray, excused>>
  BY <1>0, <1>2, IdleFits, OwnRecord DEF CommitLinks, End, TypeOK
<1>3. CASE /\ \A x \in c.add : x[1] \in there /\ x[2] \in there
           /\ Write(r, c)
           /\ wanted' = (wanted \ c.minus) \cup c.plus
           /\ astray' = astray \cup unseen \cup stale
           /\ excused' = [s \in Request |-> excused[s] \cup slices]
  <2>1. /\ c.add \subseteq Pair /\ c.drop \subseteq Pair /\ c.loaded \subseteq Pair
        /\ c.plus \subseteq Pair /\ c.minus \subseteq Pair
    BY <1>1 DEF Relink
  <2>2. /\ c.add \cap c.loaded = {} /\ c.drop \subseteq c.loaded
        /\ c.plus \subseteq c.add \cup (c.loaded \ c.drop)
        /\ c.minus \cap (c.add \cup (c.loaded \ c.drop)) = {}
        /\ c.plus \cap c.minus = {}
    BY <1>1 DEF Prepared
  <2>3. req' = [req EXCEPT ![r] = Idle] /\ UNCHANGED <<there, stars, online, page, served, liked>>
    BY DEF CommitLinks, End
  <2>4. rows' = {x \in rows : x[1] \notin c.drop} \cup {<<x, r>> : x \in c.add}
    BY <1>3 DEF Write
  <2>5. rows \subseteq Pair \X Request /\ wanted \subseteq Pair
        /\ astray \subseteq Pair \cup (User \X Object)
        /\ excused \in [Request -> SUBSET Object]
    BY <1>0 DEF TypeOK
  <2>6. unseen \cup stale \subseteq Pair
    BY <2>1
  <2>7. slices \subseteq Slice
    BY <2>1 DEF Pair
  <2>8. Linked' = (Linked \ c.drop) \cup c.add
    BY <2>1, <2>4 DEF Linked
  <2>9. ASSUME NEW x \in Pair, x \notin astray'
        PROVE  /\ x \in Linked' <=> x \in wanted'
               /\ \A q, s \in Request : <<x, q>> \in rows' /\ <<x, s>> \in rows' => q = s
    <3>1. /\ x \notin astray
          /\ x \in c.drop => x \in c.minus
          /\ x \in c.add => x \in c.plus
          /\ x \in c.plus \cup c.minus => (x \in c.loaded <=> x \in Linked)
      BY <1>3, <2>9
    <3>2. /\ x \in Linked <=> x \in wanted
          /\ \A q, s \in Request : <<x, q>> \in rows /\ <<x, s>> \in rows => q = s
      BY <3>1 DEF Consistent, LinksAsMeant
    <3>3. x \in Linked' <=> x \in wanted'
      BY <1>3, <2>2, <2>8, <3>1, <3>2
    <3>4. ASSUME NEW q \in Request, <<x, q>> \in rows'
          PROVE  IF x \in c.add THEN q = r ELSE <<x, q>> \in rows
      <4>1. CASE x \in c.add
        <5>1. x \notin Linked
          BY <2>2, <3>1, <4>1
        <5> QED
          BY <2>4, <3>4, <4>1, <5>1 DEF Linked
      <4>2. CASE x \notin c.add
        BY <2>4, <3>4, <4>2
      <4> QED
        BY <4>1, <4>2
    <3> QED
      BY <3>2, <3>3, <3>4
  <2>10. LinksAsMeant'
    BY <2>9 DEF LinksAsMeant
  <2>11. StarsAsMeant'
    BY <1>3, <2>3, StarsStay DEF Consistent
  <2>12. ASSUME NEW s \in Request
         PROVE  excused'[s] = excused[s] \cup slices
    BY <1>3
  <2>13. ASSUME NEW s \in Request, NEW o
         PROVE  Children(o)' \ excused'[s] \subseteq Children(o)
    <3>1. \A g \in Slice : <<o, g>> \in c.add => g \in slices
      OBVIOUS
    <3> HIDE DEF slices, c
    <3> QED
      BY <2>8, <2>12, <3>1 DEF Children
  <2>14. /\ req' \in [Request -> Call]
         /\ \A s \in Request : Prepared(req[s])' /\ Spreading(req[s], excused[s])'
    <3> HIDE DEF c, slices
    <3>1. Idle \in Call /\ Idle.op = "none"
      BY IdleFits DEF Idle
    <3> QED
      BY <2>3, <2>12, <2>13, <3>1, OthersStay
  <2>15. TypeOK'
    <3>1. rows' \subseteq Pair \X Request
      BY <2>1, <2>4, <2>5
    <3>2. wanted' \subseteq Pair /\ astray' \subseteq Pair \cup (User \X Object)
      BY <1>3, <2>1, <2>5, <2>6
    <3>3. excused' \in [Request -> SUBSET Object]
      BY <1>3, <2>5, <2>7 DEF Object
    <3>4. \A x \in Linked' : x[1] \in there' /\ x[2] \in there'
      BY <1>0, <1>3, <2>3, <2>8 DEF TypeOK
    <3> QED
      BY <1>0, <2>3, <2>14, <3>1, <3>2, <3>3, <3>4 DEF TypeOK, Call
  <2> QED
    BY <2>10, <2>11, <2>14, <2>15 DEF Consistent
<1> QED
  BY <1>2, <1>3 DEF CommitLinks

LEMMA OfflineKeeps ==
    ASSUME Consistent, NEW r \in Request, Offline(r)
    PROVE  Consistent'
<1>0. TypeOK /\ req \in [Request -> Call]
  BY DEF Consistent, TypeOK, Call
<1>1. PICK o \in there \cap online :
        /\ Start(r, Idle)
        /\ online' = online \ {o}
        /\ excused' = [s \in Request |-> excused[s] \cup {o}]
        /\ UNCHANGED <<there, rows, stars, page, wanted, liked, astray>>
  BY DEF Offline
<1>2. req' = [req EXCEPT ![r] = Idle] /\ served' \in 0..MaxServed
  BY <1>0, <1>1, ServedTyped DEF Start
<1>3. Linked' = Linked /\ LinksAsMeant' /\ StarsAsMeant'
  BY <1>1, LinksStay, StarsStay DEF Consistent
<1>4. /\ req' \in [Request -> Call]
      /\ \A s \in Request : Prepared(req[s])' /\ Spreading(req[s], excused[s])'
  <2>1. Idle \in Call /\ Idle.op = "none"
    BY IdleFits DEF Idle
  <2>2. \A q : Children(q)' = Children(q)
    BY <1>1, ChildrenStay
  <2>3. \A s \in Request : excused'[s] = excused[s] \cup {o}
    BY <1>1
  <2> QED
    BY <1>1, <1>2, <2>1, <2>2, <2>3, OthersStay
<1>5. TypeOK'
  <2>1. online' \subseteq Object /\ excused' \in [Request -> SUBSET Object]
    BY <1>0, <1>1 DEF TypeOK
  <2> QED
    BY <1>0, <1>1, <1>2, <1>3, <1>4, <2>1 DEF TypeOK, Call
<1> QED
  BY <1>3, <1>4, <1>5 DEF Consistent

LEMMA CommitStarsKeeps ==
    ASSUME Consistent, NEW r \in Request, CommitStars(r)
    PROVE  Consistent'
<1> DEFINE c == req[r]
<1>0. TypeOK /\ req \in [Request -> Call]
  BY DEF Consistent, TypeOK, Call
<1>1. c \in Star /\ Prepared(c)
  BY <1>0, CallKinds DEF CommitStars, Consistent
<1>2. /\ c.user \in User /\ c.obj \in Dashboard \cup Slice
      /\ \A f \in c.favs : f[1] = c.user /\ f[2] = c.obj
  BY <1>1 DEF Star, Prepared
<1>3. /\ req' = [req EXCEPT ![r] = Idle]
      /\ UNCHANGED <<there, rows, online, page, served, wanted, excused>>
      /\ astray' = IF c.favs = Stars(c.user, c.obj) THEN astray
                   ELSE astray \cup {<<c.user, c.obj>>}
  BY DEF CommitStars, End
<1>4. \/ /\ stars' = IF c.favs = {} THEN stars \cup {<<c.user, c.obj, r>>} ELSE stars
         /\ liked' = liked \cup {<<c.user, c.obj>>}
      \/ /\ stars' = stars \ c.favs
         /\ liked' = liked \ {<<c.user, c.obj>>}
  BY DEF CommitStars, Liked
<1> HIDE DEF c
<1>5. astray \subseteq astray'
  BY <1>3
<1>6. Linked' = Linked /\ LinksAsMeant'
  BY <1>3, <1>5, LinksStay DEF Consistent
<1>7. StarsAsMeant'
  <2>1. ASSUME NEW u \in User, NEW o \in there \cap (Dashboard \cup Slice),
               <<u, o>> \notin astray'
        PROVE  /\ <<u, o>> \in liked' <=> Stars(u, o)' # {}
               /\ \A f, g \in Stars(u, o)' : f = g
    <3>1. /\ <<u, o>> \in liked <=> Stars(u, o) # {}
          /\ \A f, g \in Stars(u, o) : f = g
      BY <1>5, <2>1 DEF Consistent, StarsAsMeant
    <3>2. CASE u = c.user /\ o = c.obj
      <4>1. c.favs = Stars(u, o)
        BY <1>3, <2>1, <3>2
      <4>2. CASE stars' = stars \ c.favs /\ liked' = liked \ {<<c.user, c.obj>>}
        BY <3>2, <4>1, <4>2 DEF Stars
      <4>3. CASE /\ stars' = IF c.favs = {} THEN stars \cup {<<c.user, c.obj, r>>} ELSE stars
                 /\ liked' = liked \cup {<<c.user, c.obj>>}
        <5>1. CASE c.favs = {}
          <6>1. Stars(u, o)' = {<<u, o, r>>}
            BY <3>2, <4>1, <4>3, <5>1 DEF Stars
          <6> QED
            BY <3>2, <4>3, <6>1
        <5>2. CASE c.favs # {}
          <6>1. Stars(u, o)' = Stars(u, o)
            BY <4>3, <5>2 DEF Stars
          <6> QED
            BY <3>1, <3>2, <4>1, <4>3, <5>2, <6>1
        <5> QED
          BY <5>1, <5>2
      <4> QED
        BY <1>4, <4>2, <4>3
    <3>3. CASE ~(u = c.user /\ o = c.obj)
      <4>1. <<u, o>> \in liked' <=> <<u, o>> \in liked
        BY <1>4, <3>3
      <4>2. Stars(u, o)' = Stars(u, o)
        BY <1>2, <1>4, <3>3 DEF Stars
      <4> QED
        BY <3>1, <4>1, <4>2
    <3> QED
      BY <3>2, <3>3
  <2> QED
    BY <1>3, <2>1 DEF StarsAsMeant
<1>8. /\ req' \in [Request -> Call]
      /\ \A s \in Request : Prepared(req[s])' /\ Spreading(req[s], excused[s])'
  <2>1. Idle \in Call /\ Idle.op = "none"
    BY IdleFits DEF Idle
  <2>2. \A q : Children(q)' = Children(q)
    BY <1>3, ChildrenStay
  <2> QED
    BY <1>3, <2>1, <2>2, OthersStay
<1>9. TypeOK'
  <2>1. stars' \subseteq User \X (Dashboard \cup Slice) \X Request
    BY <1>0, <1>2, <1>4 DEF TypeOK
  <2>2. liked' \subseteq User \X Object /\ astray' \subseteq Pair \cup (User \X Object)
    BY <1>0, <1>2, <1>3, <1>4 DEF TypeOK, Object
  <2> QED
    BY <1>0, <1>3, <1>6, <1>8, <2>1, <2>2 DEF TypeOK, Call
<1> QED
  BY <1>6, <1>7, <1>8, <1>9 DEF Consistent

LEMMA CommitDeleteKeeps ==
    ASSUME Consistent, NEW r \in Request, CommitDelete(r)
    PROVE  Consistent'
<1> DEFINE c == req[r]
           d == [op |-> "unstar", obj |-> c.obj]
<1>0. TypeOK /\ req \in [Request -> Call]
  BY DEF Consistent, TypeOK, Call
<1>1. c \in Deletion
  BY <1>0, CallKinds DEF CommitDelete
<1>2. CASE End(r) /\ UNCHANGED <<there, rows, wanted>>
  BY <1>0, <1>2, IdleFits, OwnRecord DEF CommitDelete, End, TypeOK
<1>3. CASE /\ Unreferenced(c.obj, c.loaded)
           /\ there' = there \ {c.obj}
           /\ rows' = {x \in rows : x[1] \notin c.loaded}
           /\ wanted' = wanted \ c.loaded
           /\ req' = [req EXCEPT ![r] = d]
  <2>1. UNCHANGED <<stars, online, page, served, liked, astray, excused>>
    BY DEF CommitDelete
  <2>2. Linked' = Linked \ c.loaded
    BY <1>3 DEF Linked
  <2>3. LinksAsMeant'
    <3>1. ASSUME NEW x \in Pair, x \notin astray
          PROVE  /\ x \in Linked' <=> x \in wanted'
                 /\ \A q, s \in Request : <<x, q>> \in rows' /\ <<x, s>> \in rows' => q = s
      <4>1. /\ x \in Linked <=> x \in wanted
            /\ \A q, s \in Request : <<x, q>> \in rows /\ <<x, s>> \in rows => q = s
        BY <3>1 DEF Consistent, LinksAsMeant
      <4> QED
        BY <1>3, <2>2, <4>1
    <3> QED
      BY <2>1, <3>1 DEF LinksAsMeant
  <2>4. StarsAsMeant'
    BY <1>3, <2>1, StarsStay DEF Consistent
  <2>5. /\ req' \in [Request -> Call]
        /\ \A s \in Request : Prepared(req[s])' /\ Spreading(req[s], excused[s])'
    <3>1. d \in Call
      BY <1>1 DEF Deletion, Call, CommitDelete
    <3>2. ASSUME NEW s \in Request, NEW o
          PROVE  Children(o)' \ excused'[s] \subseteq Children(o)
      BY <2>2 DEF Children
    <3>3. d.op = "unstar" /\ d.obj \notin there'
      BY <1>3
    <3> HIDE DEF d
    <3> QED
      BY <1>3, <2>1, <3>1, <3>2, <3>3, OthersStay
  <2>6. TypeOK'
    <3>1. rows' \subseteq Pair \X Request /\ there' \subseteq Object /\ wanted' \subseteq Pair
      BY <1>0, <1>3 DEF TypeOK
    <3>2. ASSUME NEW x \in Linked'
          PROVE  x[1] \in there' /\ x[2] \in there'
      <4>1. x \in Linked /\ x \notin c.loaded /\ x \in Pair
        BY <2>2 DEF Linked
      <4>2. x[1] # c.obj /\ x[2] # c.obj
        BY <1>3, <4>1 DEF Unreferenced, Of
      <4> QED
        BY <1>0, <1>3, <4>1, <4>2 DEF TypeOK
    <3> QED
      BY <1>0, <2>1, <2>5, <3>1, <3>2 DEF TypeOK, Call
  <2> QED
    BY <2>3, <2>4, <2>5, <2>6 DEF Consistent
<1> QED
  BY <1>2, <1>3 DEF CommitDelete

LEMMA DeleteStarsKeeps ==
    ASSUME Consistent, NEW r \in Request, DeleteStars(r)
    PROVE  Consistent'
<1> DEFINE c == req[r]
<1>0. TypeOK /\ req \in [Request -> Call]
  BY DEF Consistent, TypeOK, Call
<1>1. c.obj \notin there
  BY DEF DeleteStars, Consistent, Prepared
<1>2. /\ stars' = {f \in stars : f[2] # c.obj}
      /\ req' = [req EXCEPT ![r] = Idle]
      /\ UNCHANGED <<there, rows, online, page, served, ghosts>>
  BY DEF DeleteStars, End
<1> HIDE DEF c
<1>3. Linked' = Linked /\ LinksAsMeant'
  BY <1>2, LinksStay DEF Consistent, ghosts
<1>4. StarsAsMeant'
  <2>1. \A u, o : o \in there => Stars(u, o)' = Stars(u, o)
    BY <1>1, <1>2 DEF Stars
  <2> QED
    BY <1>2, <2>1 DEF Consistent, StarsAsMeant, ghosts
<1>5. /\ req' \in [Request -> Call]
      /\ \A s \in Request : Prepared(req[s])' /\ Spreading(req[s], excused[s])'
  <2>1. Idle \in Call /\ Idle.op = "none"
    BY IdleFits DEF Idle
  <2>2. \A q : Children(q)' = Children(q)
    BY <1>2, ChildrenStay
  <2> QED
    BY <1>2, <2>1, <2>2, OthersStay DEF ghosts
<1>6. TypeOK'
  <2>1. stars' \subseteq User \X (Dashboard \cup Slice) \X Request
    BY <1>0, <1>2 DEF TypeOK
  <2> QED
    BY <1>0, <1>2, <1>3, <1>5, <2>1 DEF TypeOK, Call, ghosts
<1> QED
  BY <1>3, <1>4, <1>5, <1>6 DEF Consistent

LEMMA VisitKeeps ==
    ASSUME Consistent, NEW r \in Request, Visit(r)
    PROVE  Consistent'
<1> DEFINE c == req[r]
<1>0. TypeOK /\ req \in [Request -> Call]
  BY DEF Consistent, TypeOK, Call
<1>1. c \in Release /\ c.op = "release"
  BY <1>0, CallKinds DEF Visit
<1>2. UNCHANGED <<there, rows, stars, page, served, ghosts>>
  BY DEF Visit
<1>3. CASE End(r) /\ UNCHANGED online
  BY <1>0, <1>2, <1>3, IdleFits, OwnRecord DEF End, ghosts, TypeOK
<1>4. CASE \E o \in c.todo :
              /\ online' = IF owner[o] = c.user THEN online \cup {o} ELSE online
              /\ req' = [req EXCEPT ![r] = [c EXCEPT !.todo = After(c, o),
                                                     !.seen = c.seen \cup {o}]]
  <2>1. PICK o \in c.todo :
              /\ online' = IF owner[o] = c.user THEN online \cup {o} ELSE online
              /\ req' = [req EXCEPT ![r] = [c EXCEPT !.todo = After(c, o),
                                                     !.seen = c.seen \cup {o}]]
    BY <1>4
  <2> DEFINE d == [c EXCEPT !.todo = After(c, o), !.seen = c.seen \cup {o}]
  <2>2. o \in Object /\ Children(o) \subseteq Object
    BY <1>1, DashboardsAssumption DEF Release, Children, Object
  <2>3. /\ d \in Release /\ d.op = "release" /\ d.user = c.user /\ d.start = c.start
        /\ d.seen = c.seen \cup {o} /\ d.todo = (c.todo \ {o}) \cup Children(o)
    BY <1>1, <2>2 DEF Release, After
  <2>4. req' \in [Request -> Call] /\ req'[r] = d
    BY <1>0, <2>1, <2>3 DEF Call
  <2>5. Linked' = Linked /\ LinksAsMeant' /\ StarsAsMeant'
    BY <1>2, LinksStay, StarsStay DEF Consistent, ghosts
  <2>6. TypeOK'
    <3>1. online' \subseteq Object
      BY <1>0, <2>1, <2>2 DEF TypeOK
    <3> QED
      BY <1>0, <1>2, <2>4, <2>5, <3>1 DEF TypeOK, Call, ghosts
  <2>7. \A q : Children(q)' = Children(q)
    BY <1>2, ChildrenStay
  <2>8. ASSUME NEW s \in Request
        PROVE  Prepared(req[s])' /\ Spreading(req[s], excused[s])'
    <3>1. CASE s = r
      <4>1. Spreading(c, excused[r])
        BY DEF Consistent
      <4>2. /\ c.start \in c.seen \cup c.todo
            /\ \A q \in c.seen :
                 /\ Children(q) \ excused[r] \subseteq c.seen \cup c.todo
                 /\ owner[q] = c.user => q \in online \cup excused[r]
        BY <1>1, <4>1 DEF Spreading
      <4> HIDE DEF c, d
      <4>3. ASSUME NEW q \in d.seen
            PROVE  /\ Children(q) \ excused[r] \subseteq d.seen \cup d.todo
                   /\ owner[q] = d.user => q \in online' \cup excused[r]
        BY <2>1, <2>3, <4>2, <4>3
      <4>4. d.start \in d.seen \cup d.todo
        BY <2>3, <4>2
      <4>5. Spreading(req[r], excused[r])'
        BY <1>2, <2>4, <2>7, <4>3, <4>4 DEF Spreading, ghosts
      <4>6. Prepared(req[r])'
        BY <2>3, <2>4 DEF Prepared
      <4> QED
        BY <3>1, <4>5, <4>6
    <3>2. CASE s # r
      <4>1. req'[s] = req[s]
        BY <1>0, <2>1, <3>2
      <4>2. Prepared(req[s])'
        BY <1>2, <4>1 DEF Consistent, Prepared
      <4>3. Spreading(req[s], excused[s])'
        BY <1>2, <2>1, <2>7, <4>1, SpreadingStays DEF Consistent, ghosts
      <4> QED
        BY <4>2, <4>3
    <3> QED
      BY <3>1, <3>2
  <2> QED
    BY <2>5, <2>6, <2>8 DEF Consistent
<1> QED
  BY <1>3, <1>4 DEF Visit

LEMMA InitConsistent == Init => Consistent
<1> SUFFICES ASSUME Init PROVE Consistent
  OBVIOUS
<1>1. Linked = {} /\ \A u, o : Stars(u, o) = {}
  BY DEF Init, Linked, Stars
<1>2. \A r \in Request : req[r] = Idle
  BY DEF Init
<1>3. TypeOK
  BY <1>1, DashboardsAssumption DEF Init, TypeOK
<1>4. LinksAsMeant /\ StarsAsMeant
  BY <1>1 DEF Init, LinksAsMeant, StarsAsMeant
<1>5. \A r \in Request : Prepared(req[r]) /\ Spreading(req[r], excused[r])
  BY <1>2, IdleFits DEF Prepared, Idle
<1> QED
  BY <1>3, <1>4, <1>5 DEF Consistent

(* The invariant of Dashboards is inductive.                               *)
LEMMA NextKeeps ==
    ASSUME Consistent, [Next]_vars
    PROVE  Consistent'
<1>1. CASE UNCHANGED vars
  <2>1. UNCHANGED <<there, rows, stars, online, page, req, served,
                    wanted, liked, astray, excused>>
    BY <1>1 DEF vars, db, ghosts
  <2>2. Linked' = Linked /\ LinksAsMeant' /\ StarsAsMeant'
    BY <2>1, LinksStay, StarsStay DEF Consistent
  <2>3. TypeOK'
    BY <2>1, <2>2 DEF Consistent, TypeOK
  <2>4. \A s \in Request : Spreading(req[s], excused[s])'
    BY <2>1, ChildrenStay, SpreadingStays DEF Consistent
  <2>5. \A s \in Request : Prepared(req[s])'
    BY <2>1 DEF Consistent, Prepared
  <2> QED
    BY <2>2, <2>3, <2>4, <2>5 DEF Consistent
<1>2. CASE Next
  BY <1>2, LoadKeeps, RelinksKeep, ReadsKeep, CommitLinksKeeps, CommitStarsKeeps,
     CommitDeleteKeeps, DeleteStarsKeeps, VisitKeeps, OfflineKeeps DEF Next
<1> QED
  BY <1>1, <1>2

(* The invariant holds of every state: pages and requests carry only       *)
(* objects that were there, and a link never outlives either of its ends.  *)
THEOREM ConsistentAlways == Spec => []Consistent
<1>1. Init => Consistent
  BY InitConsistent
<1>2. Consistent /\ [Next]_vars => Consistent'
  BY NextKeeps
<1> QED
  BY <1>1, <1>2, PTL DEF Spec

(* No link leads to a row that was deleted, and pages and requests carry   *)
(* links and stars of the kind their handler expects.                      *)
THEOREM TypeCorrect == Spec => []TypeOK
<1>1. Consistent => TypeOK
  BY DEF Consistent
<1> QED
  BY <1>1, ConsistentAlways, PTL

(* A dashboard has the slices its users meant it to have, each once,       *)
(* unless requests met on a link or a page was older than the link.        *)
THEOREM LinksAsMeantAlways == Spec => []LinksAsMeant
<1>1. Consistent => LinksAsMeant
  BY DEF Consistent
<1> QED
  BY <1>1, ConsistentAlways, PTL

(* One star of each user who likes an object, unless two clicks met.       *)
THEOREM StarsAsMeantAlways == Spec => []StarsAsMeant
<1>1. Consistent => StarsAsMeant
  BY DEF Consistent
<1> QED
  BY <1>1, ConsistentAlways, PTL

(* What a release has seen is closed under dependence when nothing is left *)
(* to do, so that it holds all the object depends on.                      *)
LEMMA SeenIsAll ==
    ASSUME Consistent, NEW r \in Request, req[r].op = "release", req[r].todo = {}
    PROVE  Reach(req[r].start, excused[r]) \subseteq req[r].seen
<1>1. req[r] \in Release
  BY CallKinds DEF Consistent, TypeOK, Call
<1>2. /\ req[r].start \in req[r].seen
      /\ \A h \in req[r].seen : Children(h) \ excused[r] \subseteq req[r].seen
  BY DEF Consistent, Spreading
<1>3. req[r].seen \in SUBSET Object
  BY <1>1 DEF Release
<1> QED
  BY <1>2, <1>3 DEF Reach

(* A release that is answered has put online everything of its requester   *)
(* that the object depends on, but for what was linked or put offline      *)
(* while it ran.                                                           *)
THEOREM ReleaseCompleteAlways == Spec => []ReleaseComplete
<1>1. Consistent => ReleaseComplete
  BY SeenIsAll DEF ReleaseComplete, Consistent, Spreading
<1> QED
  BY <1>1, ConsistentAlways, PTL
=============================================================================
