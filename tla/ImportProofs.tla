--------------------------- MODULE ImportProofs ---------------------------
(* Imports of any file, with any number of other requests.                 *)
EXTENDS ImportSolution, TLAPS

Call == Import \cup {Idle}

LEMMA GetNamed ==
    ASSUME NEW n
    PROVE  /\ Get(n) \in RowOrNot
           /\ Get(n) # NoRow => Get(n) \in Row /\ rows[Get(n)].name = n
BY DEF Get, RowOrNot, Named

LEMMA FreshUnborn ==
    ASSUME Fresh # NoRow
    PROVE  Fresh \in Row /\ rows[Fresh] = NoBody
BY DEF Fresh

LEMMA RowTyped ==
    ASSUME TypeOK, NEW o \in Row
    PROVE  /\ rows[o].name = NoName \/ rows[o] \in Body
           /\ rows[o].from = "unborn" => rows[o] = NoBody
           /\ rows[o] \in Body => rows[o].from # "unborn" /\ rows[o].name \in Name
BY DEF TypeOK, Body, NoBody, Gone

LEMMA IdleTyped ==
    /\ Idle \in Call /\ Idle.pc = "idle"
    /\ \A gone, db : Remembered(Idle, gone, db)
BY DEF Idle, Call, Remembered

LEMMA ImportTyped ==
    ASSUME NEW c \in Call, c.pc # "idle"
    PROVE  c \in Import
BY DEF Call, Idle

LEMMA ItemAt ==
    ASSUME NEW c \in Import, c.at <= Len(Order)
    PROVE  Order[c.at].item \in Item
<1> DEFINE S == [do : {"find", "look", "write"}, item : Item]
<1>1. Order \in Seq(S) /\ c.at \in 1..(Len(Order) + 1)
  BY ImportAssumption DEF Import
<1>2. Order[c.at] \in S
  <2> HIDE DEF S
  <2> QED
    BY <1>1
<1> QED
  BY <1>2

(* An import bears with names that change hands, if it is told so.         *)
LEMMA RememberedStays ==
    ASSUME NEW c \in Call, NEW gone, NEW gone2, NEW db, NEW db2,
           Remembered(c, gone, db), gone \subseteq gone2,
           \A o \in Row : db[o].from # "unborn" => db2[o].from # "unborn",
           \A o \in Row : db2[o].name # db[o].name =>
               {db[o].name, db2[o].name} \subseteq gone2 \cup {NoName}
    PROVE  Remembered(c, gone2, db2)
<1> SUFFICES ASSUME c.pc # "idle", NEW n \in Item
             PROVE  /\ c.shown[n] = NoRow => c.sol[n] # "overwrite"
                    /\ c.shown[n] # NoRow /\ n \notin gone2 => db2[c.shown[n]].name = n
                    /\ c.found[n] # NoRow =>
                          /\ db2[c.found[n]].from # "unborn"
                          /\ \/ db2[c.found[n]].name = n
                             \/ n \in gone2 /\ db2[c.found[n]].name \in gone2 \cup {NoName}
  BY DEF Remembered
<1>1. /\ c.shown[n] = NoRow => c.sol[n] # "overwrite"
      /\ c.shown[n] # NoRow /\ n \notin gone => db[c.shown[n]].name = n
      /\ c.found[n] # NoRow =>
            /\ db[c.found[n]].from # "unborn"
            /\ \/ db[c.found[n]].name = n
               \/ n \in gone /\ db[c.found[n]].name \in gone \cup {NoName}
  BY DEF Remembered
<1>2. c.shown[n] \in RowOrNot /\ c.found[n] \in RowOrNot
  BY ImportTyped DEF Import
<1>3. n # NoName
  BY ImportAssumption
<1>4. c.shown[n] # NoRow /\ n \notin gone2 => db2[c.shown[n]].name = n
  BY <1>1, <1>2, <1>3 DEF RowOrNot
<1>5. c.found[n] # NoRow =>
            /\ db2[c.found[n]].from # "unborn"
            /\ \/ db2[c.found[n]].name = n
               \/ n \in gone2 /\ db2[c.found[n]].name \in gone2 \cup {NoName}
  <2> SUFFICES ASSUME c.found[n] # NoRow
               PROVE  /\ db2[c.found[n]].from # "unborn"
                      /\ \/ db2[c.found[n]].name = n
                         \/ n \in gone2 /\ db2[c.found[n]].name \in gone2 \cup {NoName}
    OBVIOUS
  <2> DEFINE o == c.found[n]
  <2>1. o \in Row
    BY <1>2 DEF RowOrNot
  <2>2. /\ db[o].from # "unborn"
        /\ db[o].name = n \/ (n \in gone /\ db[o].name \in gone \cup {NoName})
    BY <1>1
  <2> HIDE DEF o
  <2>3. db2[o].from # "unborn"
    BY <2>1, <2>2
  <2>6. \/ db2[o].name = n
        \/ n \in gone2 /\ db2[o].name \in gone2 \cup {NoName}
    <3>1. CASE db2[o].name = db[o].name
      BY <2>2, <3>1
    <3>2. CASE db2[o].name # db[o].name
      <4>1. /\ db[o].name \in gone2 \cup {NoName}
            /\ db2[o].name \in gone2 \cup {NoName}
        BY <2>1, <3>2
      <4>2. n \in gone2
        BY <1>3, <2>2, <4>1
      <4> QED
        BY <4>1, <4>2
    <3> QED
      BY <3>1, <3>2
  <2> QED
    BY <2>3, <2>6 DEF o
<1> QED
  BY <1>1, <1>4, <1>5

(* A step that changes no row and only the record of its own request.      *)
LEMMA QuietStep ==
    ASSUME Consistent, NEW r \in Request, NEW c \in Call,
           req' = [req EXCEPT ![r] = c], rows' = rows,
           Remembered(c, moved'[r], rows),
           owned \subseteq owned', owned' \subseteq Name, served' \in 0..MaxServed,
           moved' \in [Request -> SUBSET Name],
           \A s \in Request : s # r => moved'[s] = moved[s],
           broken \subseteq broken', broken' \subseteq Row,
           req[r].pc = "columns" => req[r].row \in broken' \/ req[r].row \notin Row,
           req[r].pc = "grant" => req[r].row \in broken' \/ req[r].grant \in owned'
                                  \/ req[r].row \notin Row
    PROVE  Consistent'
<1>1. req \in [Request -> Call] /\ There' = There
  BY DEF Consistent, TypeOK, Call, There
<1>2. TypeOK'
  BY <1>1 DEF Consistent, TypeOK, Call
<1>3. ASSUME NEW s \in Request
      PROVE  Remembered(req'[s], moved'[s], rows')
  <2>1. CASE s = r
    BY <1>1, <2>1
  <2>2. CASE s # r
    BY <1>1, <2>2 DEF Consistent
  <2> QED
    BY <2>1, <2>2
<1>4. ASSUME NEW o \in There' \ broken'
      PROVE  ToCome(o)'
  <2>1. ToCome(o) /\ o \in Row /\ o \notin broken
    BY <1>1 DEF Consistent, There
  <2>2. rows'[o].from = "half" =>
          \E s \in Request : req'[s].pc = "columns" /\ req'[s].row = o
    BY <1>1, <1>4, <2>1 DEF ToCome
  <2>3. rows'[o].name \notin owned' =>
          \E s \in Request : /\ req'[s].pc \in {"columns", "grant"}
                             /\ req'[s].row = o /\ req'[s].grant = rows'[o].name
    BY <1>1, <1>4, <2>1 DEF ToCome
  <2> QED
    BY <2>2, <2>3 DEF ToCome
<1> QED
  BY <1>2, <1>3, <1>4 DEF Consistent

LEMMA ReadsKeep ==
    ASSUME Consistent, NEW r \in Request,
           BeforeImport(r) \/ StartImport(r) \/ FindItem(r) \/ LookUp(r) \/ SkipItem(r)
             \/ LoseDashboard(r) \/ AnswerImport(r) \/ GrantOwner(r) \/ Fail(r)
    PROVE  Consistent'
<1> DEFINE c == req[r]
<1>0. TypeOK /\ c \in Call /\ Remembered(c, moved[r], rows)
  BY DEF Consistent, TypeOK, Call
<1>1. /\ rows \in [Row -> Body \cup {NoBody, Gone}] /\ owned \subseteq Name
      /\ served \in 0..MaxServed /\ moved \in [Request -> SUBSET Name] /\ broken \subseteq Row
  BY <1>0 DEF TypeOK
<1>2. c.pc # "idle" => c \in Import
  BY <1>0, ImportTyped
<1>3. Len(Order) \in Nat /\ \A i \in 1..Len(Order) : Order[i].item \in Item
  <2> DEFINE S == [do : {"find", "look", "write"}, item : Item]
  <2>1. Order \in Seq(S)
    BY ImportAssumption
  <2>2. Len(Order) \in Nat /\ \A i \in 1..Len(Order) : Order[i] \in S
    <3> HIDE DEF S
    <3> QED
      BY <2>1
  <2> QED
    BY <2>2
<1>4. CASE BeforeImport(r)
  <2> DEFINE d == [Idle EXCEPT !.pc = "asked", !.shown = [n \in Item |-> Get(n)]]
  <2>1. /\ req' = [req EXCEPT ![r] = d] /\ served' = served + 1 /\ served < MaxServed
        /\ moved' = [moved EXCEPT ![r] = {}]
        /\ UNCHANGED <<rows, owned, broken>> /\ c.pc = "idle"
    BY <1>4 DEF BeforeImport, Set
  <2>2. d \in Call
    <3>1. /\ [n \in Item |-> Get(n)] \in [Item -> RowOrNot]
          /\ Nothing \in [Item -> RowOrNot]
          /\ [n \in Item |-> "skip"] \in [Item -> Choice]
          /\ NoRow \in RowOrNot /\ 1 \in 1..(Len(Order) + 1)
      BY <1>3, GetNamed DEF Choice, Nothing, RowOrNot
    <3> QED
      BY <3>1 DEF Call, Import, Idle
  <2>3. Remembered(d, {}, rows)
    BY GetNamed DEF Remembered, Idle, Nothing
  <2>4. served' \in 0..MaxServed
    BY <1>1, <2>1, ImportAssumption
  <2>5. /\ moved' \in [Request -> SUBSET Name] /\ moved'[r] = {}
        /\ \A s \in Request : s # r => moved'[s] = moved[s]
    BY <1>1, <2>1
  <2> HIDE DEF d
  <2> QED
    BY <1>1, <2>1, <2>2, <2>3, <2>4, <2>5, QuietStep
<1>5. CASE StartImport(r)
  <2>1. PICK sol \in Solutions(c.shown) :
          req' = [req EXCEPT ![r] = [c EXCEPT !.pc = "step", !.sol = sol]]
    BY <1>5 DEF StartImport, Set
  <2>2. UNCHANGED <<rows, owned, served, moved, broken>> /\ c.pc = "asked"
    BY <1>5 DEF StartImport
  <2> DEFINE d == [c EXCEPT !.pc = "step", !.sol = sol]
  <2>3. /\ sol \in [Item -> Choice]
        /\ \A n \in Item : c.shown[n] = NoRow => sol[n] = "skip"
    BY <2>1 DEF Solutions, Choice
  <2>4. d \in Call
    BY <1>2, <2>2, <2>3 DEF Import, Call
  <2>5. d.shown = c.shown /\ d.found = c.found /\ d.sol = sol /\ d.pc = "step"
    BY <1>2, <2>2 DEF Import
  <2>6. Remembered(d, moved[r], rows)
    BY <1>0, <2>2, <2>3, <2>5 DEF Remembered
  <2>7. req' = [req EXCEPT ![r] = d]
    BY <2>1
  <2> HIDE DEF d, c
  <2> QED
    BY <1>1, <2>2, <2>4, <2>6, <2>7, QuietStep DEF c
<1>6. CASE FindItem(r)
  <2> DEFINE n == Order[c.at].item
             d == [c EXCEPT !.found[n] = Get(n), !.at = c.at + 1]
  <2>1. /\ c.pc = "step" /\ c.at <= Len(Order) /\ req' = [req EXCEPT ![r] = d]
        /\ UNCHANGED <<rows, owned, served, moved, broken>>
    BY <1>6 DEF FindItem, At, Set
  <2>2. c \in Import /\ n \in Item /\ c.at + 1 \in 1..(Len(Order) + 1)
    BY <1>2, <1>3, <2>1 DEF Import
  <2> HIDE DEF n
  <2>3. d \in Call
    BY <2>2, GetNamed DEF Import, Call
  <2>4. d.shown = c.shown /\ d.sol = c.sol /\ d.pc = c.pc /\ d.found = [c.found EXCEPT ![n] = Get(n)]
    BY <2>2 DEF Import
  <2>5. Get(n) # NoRow => rows[Get(n)].from # "unborn" /\ rows[Get(n)].name = n
    BY <2>2, <1>0, GetNamed, RowTyped, ImportAssumption DEF NoBody
  <2>6. Remembered(d, moved[r], rows)
    BY <1>0, <2>1, <2>2, <2>4, <2>5 DEF Remembered, Import
  <2> HIDE DEF d, c
  <2> QED
    BY <1>1, <2>1, <2>3, <2>6, QuietStep DEF c
<1>7. CASE LookUp(r)
  <2> DEFINE n == Order[c.at].item
  <2>1. /\ c.pc = "step" /\ c.at <= Len(Order)
        /\ UNCHANGED <<rows, owned, served, moved, broken>>
    BY <1>7 DEF LookUp, At
  <2>2. PICK t \in Needs[n] :
          req' = [req EXCEPT ![r] = [c EXCEPT !.look[n] = Get(Called(c, t)), !.at = c.at + 1]]
    BY <1>7 DEF LookUp, Set
  <2> DEFINE d == [c EXCEPT !.look[n] = Get(Called(c, t)), !.at = c.at + 1]
  <2>3. c \in Import /\ n \in Item /\ c.at + 1 \in 1..(Len(Order) + 1)
    BY <1>2, <1>3, <2>1 DEF Import
  <2> HIDE DEF n
  <2>4. d \in Call
    BY <2>3, GetNamed DEF Import, Call
  <2>5. d.shown = c.shown /\ d.sol = c.sol /\ d.found = c.found /\ d.pc = c.pc
    BY <2>3 DEF Import
  <2>6. Remembered(d, moved[r], rows)
    BY <1>0, <2>1, <2>5 DEF Remembered
  <2>7. req' = [req EXCEPT ![r] = d]
    BY <2>2
  <2> HIDE DEF d, c
  <2> QED
    BY <1>1, <2>1, <2>4, <2>6, <2>7, QuietStep DEF c
<1>8. CASE SkipItem(r)
  <2> DEFINE n == Order[c.at].item
             d == [c EXCEPT !.made[n] = c.found[n], !.at = c.at + 1]
  <2>1. /\ c.pc = "step" /\ c.at <= Len(Order) /\ req' = [req EXCEPT ![r] = d]
        /\ UNCHANGED <<rows, owned, served, moved, broken>>
    BY <1>8 DEF SkipItem, At, Set
  <2>2. c \in Import /\ n \in Item /\ c.at + 1 \in 1..(Len(Order) + 1)
    BY <1>2, <1>3, <2>1 DEF Import
  <2> HIDE DEF n
  <2>3. d \in Call
    BY <2>2 DEF Import, Call
  <2>4. d.shown = c.shown /\ d.sol = c.sol /\ d.found = c.found /\ d.pc = c.pc
    BY <2>2 DEF Import
  <2>5. Remembered(d, moved[r], rows)
    BY <1>0, <2>1, <2>4 DEF Remembered
  <2> HIDE DEF d, c
  <2> QED
    BY <1>1, <2>1, <2>3, <2>5, QuietStep DEF c
<1>9. CASE LoseDashboard(r)
  <2> DEFINE n == Order[c.at].item
             name == NewName(c, n)
             d == [c EXCEPT !.made[n] = NoRow, !.row = NoRow, !.grant = name, !.at = c.at + 1,
                            !.pc = IF Kind[n] = "dataset" THEN "columns"
                                   ELSE IF name # NoName THEN "grant" ELSE "step"]
  <2>1. /\ c.pc = "step" /\ c.at <= Len(Order) /\ req' = [req EXCEPT ![r] = d]
        /\ UNCHANGED <<rows, owned, served, moved, broken>> /\ name # NoName
    BY <1>9 DEF LoseDashboard, At, Wrote, Set
  <2>2. c \in Import /\ n \in Item /\ c.at + 1 \in 1..(Len(Order) + 1)
    BY <1>2, <1>3, <2>1 DEF Import
  <2>3. name \in Name
    BY <2>1, <2>2, ImportAssumption DEF NewName
  <2> HIDE DEF n, name
  <2>4. d \in Call
    BY <2>2, <2>3 DEF Import, Call, RowOrNot
  <2>5. d.shown = c.shown /\ d.sol = c.sol /\ d.found = c.found /\ d.grant # NoName
    BY <2>1, <2>2 DEF Import
  <2>6. Remembered(d, moved[r], rows)
    BY <1>0, <2>1, <2>5 DEF Remembered
  <2> HIDE DEF d, c
  <2> QED
    BY <1>1, <2>1, <2>4, <2>6, QuietStep DEF c
<1>10. CASE AnswerImport(r)
  <2>1. /\ c.pc = "step" /\ req' = [req EXCEPT ![r] = Idle]
        /\ UNCHANGED <<rows, owned, served, moved, broken>>
    BY <1>10 DEF AnswerImport, Done, Set
  <2> QED
    BY <1>1, <2>1, IdleTyped, QuietStep
<1>11. CASE GrantOwner(r)
  <2> DEFINE d == [c EXCEPT !.pc = "step", !.grant = NoName]
  <2>1. /\ c.pc = "grant" /\ req' = [req EXCEPT ![r] = d] /\ owned' = owned \cup {c.grant}
        /\ UNCHANGED <<rows, served, moved, broken>>
    BY <1>11 DEF GrantOwner, Set
  <2>2. c \in Import
    BY <1>2, <2>1
  <2>3. d \in Call /\ d.pc = "step"
        /\ d.shown = c.shown /\ d.sol = c.sol /\ d.found = c.found
    BY <2>2 DEF Import, Call
  <2>5. c.grant \in Name
    BY <1>0, <2>1, <2>2 DEF Import, Remembered
  <2>4. Remembered(d, moved[r], rows)
    BY <1>0, <2>1, <2>3 DEF Remembered
  <2> HIDE DEF d, c
  <2> QED
    BY <1>1, <2>1, <2>3, <2>4, <2>5, QuietStep DEF c
<1>12. CASE Fail(r)
  <2>1. /\ req' = [req EXCEPT ![r] = Idle]
        /\ broken' = IF c.pc \in {"columns", "grant"} /\ c.row # NoRow
                     THEN broken \cup {c.row} ELSE broken
        /\ UNCHANGED <<rows, owned, served, moved>> /\ c.pc # "idle"
    BY <1>12 DEF Fail, Set
  <2>2. c.row \in RowOrNot
    BY <1>2, <2>1 DEF Import
  <2>3. /\ broken \subseteq broken' /\ broken' \subseteq Row
        /\ c.pc \in {"columns", "grant"} => c.row \in broken' \/ c.row \notin Row
    BY <1>1, <2>1, <2>2, ImportAssumption DEF RowOrNot
  <2> HIDE DEF c
  <2> QED
    BY <1>1, <2>1, <2>3, IdleTyped, QuietStep DEF c
<1> QED
  BY <1>4, <1>5, <1>6, <1>7, <1>8, <1>9, <1>10, <1>11, <1>12

LEMMA RememberedAnew ==
    ASSUME NEW c \in Call, NEW gone, NEW db, NEW db2, Remembered(c, gone, db),
           \A o \in Row : db[o].from # "unborn" => db2[o] = db[o],
           \A o \in Row : db[o].from = "unborn" => db[o].name = NoName
    PROVE  Remembered(c, gone, db2)
<1> SUFFICES ASSUME c.pc # "idle", NEW n \in Item
             PROVE  /\ c.shown[n] = NoRow => c.sol[n] # "overwrite"
                    /\ c.shown[n] # NoRow /\ n \notin gone => db2[c.shown[n]].name = n
                    /\ c.found[n] # NoRow =>
                          /\ db2[c.found[n]].from # "unborn"
                          /\ \/ db2[c.found[n]].name = n
                             \/ n \in gone /\ db2[c.found[n]].name \in gone \cup {NoName}
  BY DEF Remembered
<1>1. /\ c.shown[n] = NoRow => c.sol[n] # "overwrite"
      /\ c.shown[n] # NoRow /\ n \notin gone => db[c.shown[n]].name = n
      /\ c.found[n] # NoRow =>
            /\ db[c.found[n]].from # "unborn"
            /\ \/ db[c.found[n]].name = n
               \/ n \in gone /\ db[c.found[n]].name \in gone \cup {NoName}
  BY DEF Remembered
<1>2. c.shown[n] \in RowOrNot /\ c.found[n] \in RowOrNot /\ n # NoName
  BY ImportTyped, ImportAssumption DEF Import
<1>3. c.shown[n] # NoRow /\ n \notin gone => db2[c.shown[n]].name = n
  BY <1>1, <1>2 DEF RowOrNot
<1>4. c.found[n] # NoRow => db2[c.found[n]] = db[c.found[n]]
  BY <1>1, <1>2 DEF RowOrNot
<1> QED
  BY <1>1, <1>3, <1>4

LEMMA StillToCome ==
    ASSUME NEW p \in Row, ToCome(p),
           \A s \in Request : req[s].pc \in {"columns", "grant"} => req'[s] = req[s],
           rows'[p].from = rows[p].from \/ rows'[p].from # "half",
           rows'[p].name = rows[p].name,
           rows[p].name \in owned => rows[p].name \in owned'
    PROVE  ToCome(p)'
<1>1. rows'[p].from = "half" =>
          \E s \in Request : req'[s].pc = "columns" /\ req'[s].row = p
  BY DEF ToCome
<1>2. rows'[p].name \notin owned' =>
          \E s \in Request : /\ req'[s].pc \in {"columns", "grant"}
                             /\ req'[s].row = p /\ req'[s].grant = rows'[p].name
  BY DEF ToCome
<1> QED
  BY <1>1, <1>2 DEF ToCome

LEMMA WrittenTyped ==
    ASSUME NEW r \in Request, req[r] \in Import, NEW n \in Item, NEW name \in Name
    PROVE  /\ Written(r, n, name) \in Body
           /\ Written(r, n, name).name = name
           /\ Written(r, n, name).from = "half" <=> Kind[n] = "dataset"
<1>1. Links(r, n) \subseteq Row
  BY ImportAssumption DEF Links, Import, RowOrNot
<1> QED
  BY <1>1 DEF Written, Body

(* The record of a request that wrote item n as o.                         *)
LEMMA WroteRecord ==
    ASSUME NEW r \in Request, req \in [Request -> Call], req[r] \in Import, NEW n \in Item,
           NEW o \in Row, NEW granted \in Name \cup {NoName},
           req[r].at <= Len(Order), Wrote(r, n, o, granted),
           NEW gone, NEW db, Remembered(req[r], gone, db), req[r].pc = "step"
    PROVE  /\ req' = [req EXCEPT ![r] = req'[r]] /\ req'[r] \in Import
           /\ req'[r].row = o /\ req'[r].grant = granted
           /\ Kind[n] = "dataset" => req'[r].pc = "columns"
           /\ granted # NoName => req'[r].pc \in {"columns", "grant"}
           /\ Remembered(req'[r], gone, db)
<1> DEFINE c == req[r]
           d == [c EXCEPT !.made[n] = o, !.row = o, !.grant = granted, !.at = c.at + 1,
                          !.pc = IF Kind[n] = "dataset" THEN "columns"
                                 ELSE IF granted # NoName THEN "grant" ELSE "step"]
<1>1. req' = [req EXCEPT ![r] = d]
  BY DEF Wrote, Set
<1>2. req'[r] = d
  BY <1>1
<1>3. Len(Order) \in Nat
  BY ImportAssumption
<1>4. c.at + 1 \in 1..(Len(Order) + 1)
  BY <1>3 DEF Import
<1>5. d \in Import
  BY <1>4 DEF Import, RowOrNot
<1>6. /\ d.row = o /\ d.grant = granted
      /\ Kind[n] = "dataset" => d.pc = "columns"
      /\ granted # NoName => d.pc \in {"columns", "grant"}
      /\ d.pc = "grant" => granted # NoName
      /\ d.shown = c.shown /\ d.sol = c.sol /\ d.found = c.found
  BY DEF Import
<1> HIDE DEF d
<1>7. Remembered(d, gone, db)
  BY <1>6 DEF Remembered
<1> QED
  BY <1>1, <1>2, <1>5, <1>6, <1>7

LEMMA AddItemKeeps ==
    ASSUME Consistent, NEW r \in Request, AddItem(r)
    PROVE  Consistent' /\ \A o \in There : rows'[o] = rows[o]
<1> DEFINE c == req[r]
           n == Order[c.at].item
           name == NewName(c, n)
           o == Fresh
           b == Written(r, n, name)
<1>1. /\ c.pc = "step" /\ c.at <= Len(Order) /\ name # NoName
      /\ Named(name) \subseteq {NoRow} /\ o # NoRow
      /\ rows' = [rows EXCEPT ![o] = b] /\ Wrote(r, n, o, name)
      /\ moved' = [s \in Request |-> IF s = r THEN moved[s] ELSE moved[s] \cup {name}]
      /\ UNCHANGED <<owned, served, broken>>
  BY DEF AddItem, At, Accepted, Move
<1>2. TypeOK /\ req \in [Request -> Call] /\ Remembered(c, moved[r], rows)
  BY DEF Consistent, TypeOK, Call
<1>3. c \in Import
  BY <1>1, <1>2, ImportTyped
<1>4. n \in Item
  BY <1>1, <1>3, ItemAt
<1> HIDE DEF n, c
<1>5. name \in Name
  BY <1>1, <1>4, ImportAssumption DEF NewName
<1>6. o \in Row /\ rows[o] = NoBody
  BY <1>1, FreshUnborn
<1> HIDE DEF name, o
<1>7. b \in Body /\ b.name = name /\ (b.from = "half" <=> Kind[n] = "dataset")
  BY <1>3, <1>4, <1>5, WrittenTyped DEF c
<1> HIDE DEF b
<1>8. /\ rows \in [Row -> Body \cup {NoBody, Gone}]
      /\ rows' \in [Row -> Body \cup {NoBody, Gone}]
      /\ rows'[o] = b /\ \A p \in Row : p # o => rows'[p] = rows[p]
      /\ \A p \in Row : rows[p].name # name
  BY <1>1, <1>2, <1>6, <1>7, ImportAssumption DEF TypeOK, Named
<1>9. /\ req' = [req EXCEPT ![r] = req'[r]] /\ req'[r] \in Import
      /\ req'[r].row = o /\ req'[r].grant = name
      /\ Kind[n] = "dataset" => req'[r].pc = "columns"
      /\ name # NoName => req'[r].pc \in {"columns", "grant"}
      /\ Remembered(req'[r], moved[r], rows)
  BY <1>1, <1>2, <1>3, <1>4, <1>5, <1>6, WroteRecord DEF c
<1>10. NoBody.name = NoName /\ NoBody.from = "unborn"
  BY DEF NoBody
<1>11. TypeOK'
  <2>1. \A p, q \in There' : rows'[p].name = rows'[q].name => p = q
    BY <1>2, <1>7, <1>8 DEF TypeOK, There
  <2>2. req' \in [Request -> Call] /\ moved' \in [Request -> SUBSET Name]
    BY <1>1, <1>2, <1>5, <1>9 DEF TypeOK, Call
  <2> QED
    BY <1>1, <1>2, <1>8, <2>1, <2>2 DEF TypeOK, Call
<1>12. ASSUME NEW s \in Request
       PROVE  Remembered(req'[s], moved'[s], rows')
  <2>1. CASE s = r
    <3>1. /\ \A p \in Row : rows[p].from # "unborn" => rows'[p] = rows[p]
          /\ \A p \in Row : rows[p].from = "unborn" => rows[p].name = NoName
      BY <1>2, <1>6, <1>8, <1>10, RowTyped
    <3>2. req'[r] \in Call /\ moved'[r] = moved[r]
      BY <1>1, <1>9 DEF Call
    <3> QED
      BY <1>9, <2>1, <3>1, <3>2, RememberedAnew
  <2>2. CASE s # r
    <3>1. req'[s] = req[s] /\ req[s] \in Call /\ moved'[s] = moved[s] \cup {name}
          /\ Remembered(req[s], moved[s], rows)
      BY <1>1, <1>2, <1>9, <2>2 DEF Consistent
    <3>2. \A p \in Row : rows[p].from # "unborn" => rows'[p].from # "unborn"
      BY <1>6, <1>8, <1>10
    <3>3. \A p \in Row : rows'[p].name # rows[p].name =>
             {rows[p].name, rows'[p].name} \subseteq moved'[s] \cup {NoName}
      BY <1>6, <1>7, <1>8, <1>10, <3>1
    <3> QED
      BY <3>1, <3>2, <3>3, RememberedStays
  <2> QED
    BY <2>1, <2>2
<1>13. ASSUME NEW p \in There' \ broken'
       PROVE  ToCome(p)'
  <2>1. CASE p = o
    BY <1>1, <1>7, <1>8, <1>9, <2>1 DEF ToCome
  <2>2. CASE p # o
    <3>1. p \in Row /\ rows'[p] = rows[p] /\ p \in There \ broken
      BY <1>1, <1>8, <1>13, <2>2 DEF There
    <3>2. \A s \in Request : req[s].pc \in {"columns", "grant"} => req'[s] = req[s]
      BY <1>1, <1>2, <1>9 DEF c
    <3> QED
      BY <1>1, <3>1, <3>2, StillToCome DEF Consistent
  <2> QED
    BY <2>1, <2>2
<1>14. \A p \in There : rows'[p] = rows[p]
  BY <1>6, <1>8, <1>10 DEF There
<1> QED
  BY <1>11, <1>12, <1>13, <1>14 DEF Consistent


LEMMA OverwriteItemKeeps ==
    ASSUME Consistent, NEW r \in Request, OverwriteItem(r)
    PROVE  Consistent'
<1> DEFINE c == req[r]
           n == Order[c.at].item
           o == c.found[n]
           b == Written(r, n, n)
<1>1. /\ c.pc = "step" /\ c.at <= Len(Order)
      /\ o \in There /\ Named(n) \subseteq {o}
      /\ rows' = [rows EXCEPT ![o] = b] /\ Wrote(r, n, o, NoName)
      /\ moved' = [s \in Request |-> IF s = r THEN moved[s]
                                     ELSE moved[s] \cup {n, rows[o].name}]
      /\ broken' = IF rows[o].name = n THEN broken ELSE broken \cup {o}
      /\ UNCHANGED <<owned, served>>
  BY DEF OverwriteItem, At, Accepted, Move
<1>2. TypeOK /\ req \in [Request -> Call] /\ Remembered(c, moved[r], rows)
  BY DEF Consistent, TypeOK, Call
<1>3. c \in Import
  BY <1>1, <1>2, ImportTyped
<1>4. n \in Item
  BY <1>1, <1>3, ItemAt
<1> HIDE DEF n
<1>5. /\ n \in Name /\ n # NoName /\ o # NoRow /\ o \in Row
      /\ rows[o].name # NoName
  BY <1>1, <1>4, ImportAssumption DEF There
<1>6. rows[o].name = n \/ (n \in moved[r] /\ rows[o].name \in moved[r])
  BY <1>1, <1>2, <1>4, <1>5 DEF Remembered
<1> HIDE DEF o, c
<1>7. b \in Body /\ b.name = n /\ (b.from = "half" <=> Kind[n] = "dataset")
      /\ b.from # "unborn"
  BY <1>3, <1>4, <1>5, WrittenTyped DEF c, Body
<1> HIDE DEF b
<1>8. /\ rows \in [Row -> Body \cup {NoBody, Gone}]
      /\ rows' \in [Row -> Body \cup {NoBody, Gone}]
      /\ rows'[o] = b /\ \A p \in Row : p # o => rows'[p] = rows[p]
      /\ \A p \in Row : p # o => rows[p].name # n
      /\ rows[o] \in Body
  BY <1>1, <1>2, <1>5, <1>7, RowTyped DEF TypeOK, Named
<1>9. /\ req' = [req EXCEPT ![r] = req'[r]] /\ req'[r] \in Import
      /\ req'[r].row = o
      /\ Kind[n] = "dataset" => req'[r].pc = "columns"
      /\ Remembered(req'[r], moved[r], rows)
  BY <1>1, <1>2, <1>3, <1>4, <1>5, WroteRecord DEF c
<1>10. rows[o].name \in Name
  BY <1>8 DEF Body
<1>11. TypeOK'
  <2>1. \A p, q \in There' : rows'[p].name = rows'[q].name => p = q
    BY <1>2, <1>7, <1>8 DEF TypeOK, There
  <2>2. req' \in [Request -> Call]
    BY <1>2, <1>9 DEF Call
  <2>3. moved' \in [Request -> SUBSET Name] /\ broken' \subseteq Row
    BY <1>1, <1>2, <1>5, <1>10 DEF TypeOK
  <2>4. owned' \subseteq Name /\ served' \in 0..MaxServed
    BY <1>1, <1>2 DEF TypeOK
  <2> QED
    BY <1>8, <2>1, <2>2, <2>3, <2>4 DEF TypeOK, Call
<1>12. ASSUME NEW s \in Request
       PROVE  Remembered(req'[s], moved'[s], rows')
  <2>1. \A p \in Row : rows[p].from # "unborn" => rows'[p].from # "unborn"
    BY <1>7, <1>8
  <2>2. CASE s = r
    <3>1. req'[r] \in Call /\ moved'[r] = moved[r]
      BY <1>1, <1>9 DEF Call
    <3>2. \A p \in Row : rows'[p].name # rows[p].name =>
             {rows[p].name, rows'[p].name} \subseteq moved[r] \cup {NoName}
      BY <1>6, <1>7, <1>8
    <3>3. Remembered(req'[r], moved[r], rows')
      BY <1>9, <2>1, <3>1, <3>2, RememberedStays
    <3> QED
      BY <2>2, <3>1, <3>3
  <2>3. CASE s # r
    <3>1. /\ req'[s] = req[s] /\ req[s] \in Call
          /\ moved'[s] = moved[s] \cup {n, rows[o].name}
          /\ Remembered(req[s], moved[s], rows)
      BY <1>1, <1>2, <1>9, <2>3 DEF Consistent
    <3>2. \A p \in Row : rows'[p].name # rows[p].name =>
             {rows[p].name, rows'[p].name} \subseteq moved'[s] \cup {NoName}
      BY <1>7, <1>8, <3>1
    <3>3. moved[s] \subseteq moved'[s]
      BY <3>1
    <3> QED
      BY <2>1, <3>1, <3>2, <3>3, RememberedStays
  <2> QED
    BY <2>2, <2>3
<1>13. ASSUME NEW p \in There' \ broken'
       PROVE  ToCome(p)'
  <2>0. \A s \in Request : req[s].pc \in {"columns", "grant"} => req'[s] = req[s]
    BY <1>1, <1>2, <1>9 DEF c
  <2>1. CASE p = o
    <3>1. rows[o].name = n /\ o \in There \ broken
      BY <1>1, <1>13, <2>1
    <3>2. ToCome(o)
      BY <3>1 DEF Consistent
    <3>3. rows'[o].from = "half" => req'[r].pc = "columns" /\ req'[r].row = o
      BY <1>7, <1>8, <1>9
    <3>4. rows'[o].name \notin owned' =>
            \E s \in Request : /\ req'[s].pc \in {"columns", "grant"}
                               /\ req'[s].row = o /\ req'[s].grant = rows'[o].name
      BY <1>1, <1>7, <1>8, <2>0, <3>1, <3>2 DEF ToCome
    <3> QED
      BY <2>1, <3>3, <3>4 DEF ToCome
  <2>2. CASE p # o
    <3>1. p \in Row /\ rows'[p] = rows[p] /\ p \in There \ broken
      BY <1>1, <1>8, <1>13, <2>2 DEF There
    <3> QED
      BY <1>1, <2>0, <3>1, StillToCome DEF Consistent
  <2> QED
    BY <2>1, <2>2
<1> QED
  BY <1>11, <1>12, <1>13 DEF Consistent

LEMMA WriteColumnsKeeps ==
    ASSUME Consistent, NEW r \in Request, WriteColumns(r)
    PROVE  Consistent'
<1> DEFINE c == req[r]
           o == c.row
           d == [c EXCEPT !.pc = IF c.grant = NoName THEN "step" ELSE "grant"]
<1>1. /\ c.pc = "columns" /\ o \in There
      /\ rows' = [rows EXCEPT ![o].from = "file"] /\ req' = [req EXCEPT ![r] = d]
      /\ UNCHANGED <<owned, served, moved, broken>>
  BY DEF WriteColumns, Set
<1>2. TypeOK /\ req \in [Request -> Call] /\ Remembered(c, moved[r], rows)
  BY DEF Consistent, TypeOK, Call
<1>3. c \in Import
  BY <1>1, <1>2, ImportTyped
<1>4. /\ d \in Import /\ d.row = o /\ d.grant = c.grant
      /\ d.grant # NoName => d.pc = "grant"
      /\ d.pc = "grant" => d.grant # NoName
      /\ d.shown = c.shown /\ d.sol = c.sol /\ d.found = c.found
  BY <1>3 DEF Import
<1> HIDE DEF d
<1>5. Remembered(d, moved[r], rows)
  BY <1>1, <1>2, <1>4 DEF Remembered
<1>6. o \in Row /\ rows[o].name # NoName
  BY <1>1 DEF There
<1> HIDE DEF o, c
<1>7. rows[o] \in Body
  BY <1>2, <1>6, RowTyped
<1>8. /\ rows \in [Row -> Body \cup {NoBody, Gone}]
      /\ rows' \in [Row -> Body \cup {NoBody, Gone}]
      /\ rows'[o].name = rows[o].name /\ rows'[o].from = "file"
      /\ \A p \in Row : p # o => rows'[p] = rows[p]
  BY <1>1, <1>2, <1>6, <1>7 DEF TypeOK, Body
<1>9. \A p \in Row : rows'[p].name = rows[p].name
  BY <1>8
<1>10. req'[r] = d /\ \A s \in Request : s # r => req'[s] = req[s]
  BY <1>1, <1>2
<1>11. TypeOK'
  <2>1. \A p, q \in There' : rows'[p].name = rows'[q].name => p = q
    BY <1>2, <1>9 DEF TypeOK, There
  <2>2. req' \in [Request -> Call]
    BY <1>1, <1>2, <1>4 DEF Call
  <2> QED
    BY <1>1, <1>2, <1>8, <2>1, <2>2 DEF TypeOK, Call
<1>12. ASSUME NEW s \in Request
       PROVE  Remembered(req'[s], moved'[s], rows')
  <2>1. req'[s] \in Call /\ moved'[s] = moved[s] /\ Remembered(req'[s], moved[s], rows)
    BY <1>1, <1>2, <1>4, <1>5, <1>10 DEF Consistent, Call
  <2>2. \A p \in Row : rows[p].from # "unborn" => rows'[p].from # "unborn"
    BY <1>8
  <2> QED
    BY <1>9, <2>1, <2>2, RememberedStays
<1>13. ASSUME NEW p \in There' \ broken'
       PROVE  ToCome(p)'
  <2>1. p \in Row /\ p \in There \ broken
    BY <1>1, <1>9, <1>13 DEF There
  <2>2. ToCome(p)
    BY <2>1 DEF Consistent
  <2>3. ASSUME rows'[p].from = "half"
        PROVE  \E s \in Request : req'[s].pc = "columns" /\ req'[s].row = p
    <3>1. p # o /\ rows[p].from = "half"
      BY <1>8, <2>1, <2>3
    <3>2. PICK s \in Request : req[s].pc = "columns" /\ req[s].row = p
      BY <2>2, <3>1 DEF ToCome
    <3>3. s # r
      BY <3>1, <3>2 DEF o, c
    <3> QED
      BY <1>10, <3>2, <3>3
  <2>4. ASSUME rows'[p].name \notin owned'
        PROVE  \E s \in Request : /\ req'[s].pc \in {"columns", "grant"}
                                  /\ req'[s].row = p /\ req'[s].grant = rows'[p].name
    <3>1. PICK s \in Request : /\ req[s].pc \in {"columns", "grant"}
                               /\ req[s].row = p /\ req[s].grant = rows[p].name
      BY <1>1, <1>9, <2>1, <2>2, <2>4 DEF ToCome
    <3>2. CASE s # r
      BY <1>9, <1>10, <2>1, <3>1, <3>2
    <3>3. CASE s = r
      <4>1. d.row = p /\ d.grant = rows[p].name /\ d.grant # NoName
        BY <1>4, <2>1, <3>1, <3>3 DEF There, o, c
      <4> QED
        BY <1>4, <1>9, <1>10, <2>1, <4>1
    <3> QED
      BY <3>2, <3>3
  <2> QED
    BY <2>3, <2>4 DEF ToCome
<1> QED
  BY <1>11, <1>12, <1>13 DEF Consistent

(* Other users change the names N.                                         *)
LEMMA UserStep ==
    ASSUME Consistent, NEW N \in SUBSET Name, req' = req,
           moved' = [r \in Request |-> moved[r] \cup N],
           \A o \in Row : rows[o].from # "unborn" => rows'[o].from # "unborn",
           \A o \in Row : rows'[o].name # rows[o].name =>
               {rows[o].name, rows'[o].name} \subseteq N \cup {NoName}
    PROVE  /\ \A r \in Request : Remembered(req'[r], moved'[r], rows')
           /\ moved' \in [Request -> SUBSET Name]
<1>1. moved \in [Request -> SUBSET Name] /\ req \in [Request -> Call]
  BY DEF Consistent, TypeOK, Call
<1>2. ASSUME NEW r \in Request
      PROVE  Remembered(req'[r], moved'[r], rows')
  <2>1. /\ req'[r] = req[r] /\ req[r] \in Call /\ moved'[r] = moved[r] \cup N
        /\ Remembered(req[r], moved[r], rows)
    BY <1>1 DEF Consistent
  <2>2. moved[r] \subseteq moved'[r]
    BY <2>1
  <2>3. \A o \in Row : rows'[o].name # rows[o].name =>
           {rows[o].name, rows'[o].name} \subseteq moved'[r] \cup {NoName}
    BY <2>1
  <2> QED
    BY <2>1, <2>2, <2>3, RememberedStays
<1> QED
  BY <1>1, <1>2

LEMMA UserAddsKeeps ==
    ASSUME Consistent, UserAdds
    PROVE  Consistent'
<1>1. PICK n \in Name :
         /\ served < MaxServed /\ served' = served + 1
         /\ Named(n) = {} /\ Fresh # NoRow
         /\ rows' = [rows EXCEPT ![Fresh] = Users(n)]
         /\ owned' = owned \cup {n}
         /\ moved' = [r \in Request |-> moved[r] \cup {n}]
         /\ UNCHANGED <<req, broken>>
  BY DEF UserAdds
<1> DEFINE o == Fresh
<1>2. o \in Row /\ rows[o] = NoBody
  BY <1>1, FreshUnborn
<1>3. rows' = [rows EXCEPT ![o] = Users(n)]
  BY <1>1
<1> HIDE DEF o
<1>4. TypeOK /\ n # NoName /\ \A p \in Row : rows[p].name # n
  BY <1>1, ImportAssumption DEF Consistent, Named
<1>5. Users(n) \in Body /\ Users(n).name = n /\ Users(n).from = "user"
  BY DEF Users, Body
<1>6. NoBody.name = NoName /\ NoBody.from = "unborn"
  BY DEF NoBody
<1>7. /\ rows \in [Row -> Body \cup {NoBody, Gone}]
      /\ rows' \in [Row -> Body \cup {NoBody, Gone}]
      /\ rows'[o] = Users(n) /\ \A p \in Row : p # o => rows'[p] = rows[p]
  BY <1>2, <1>3, <1>4, <1>5 DEF TypeOK
<1>8. /\ \A r \in Request : Remembered(req'[r], moved'[r], rows')
      /\ moved' \in [Request -> SUBSET Name]
  <2>1. \A p \in Row : rows[p].from # "unborn" => rows'[p].from # "unborn"
    BY <1>5, <1>7
  <2>2. \A p \in Row : rows'[p].name # rows[p].name =>
           {rows[p].name, rows'[p].name} \subseteq {n} \cup {NoName}
    BY <1>2, <1>5, <1>6, <1>7
  <2>3. {n} \in SUBSET Name
    OBVIOUS
  <2> QED
    BY <1>1, <2>1, <2>2, <2>3, UserStep
<1>9. TypeOK'
  <2>1. \A p, q \in There' : rows'[p].name = rows'[q].name => p = q
    BY <1>4, <1>5, <1>7 DEF TypeOK, There
  <2>2. served' \in 0..MaxServed
    BY <1>1, <1>4, ImportAssumption DEF TypeOK
  <2> QED
    BY <1>1, <1>4, <1>7, <1>8, <2>1, <2>2 DEF TypeOK
<1>10. ASSUME NEW p \in There' \ broken'
       PROVE  ToCome(p)'
  <2>1. CASE p = o
    BY <1>1, <1>5, <1>7, <2>1 DEF ToCome
  <2>2. CASE p # o
    <3>1. p \in Row /\ rows'[p] = rows[p] /\ p \in There \ broken
      BY <1>1, <1>7, <1>10, <2>2 DEF There
    <3> QED
      BY <1>1, <3>1, StillToCome DEF Consistent
  <2> QED
    BY <2>1, <2>2
<1> QED
  BY <1>8, <1>9, <1>10 DEF Consistent

LEMMA UserRenamesKeeps ==
    ASSUME Consistent, UserRenames
    PROVE  Consistent'
<1>1. PICK o \in There, n \in Name :
         /\ served < MaxServed /\ served' = served + 1
         /\ Named(n) = {}
         /\ rows' = [rows EXCEPT ![o].name = n]
         /\ owned' = IF rows[o].name \in owned THEN (owned \ {rows[o].name}) \cup {n}
                     ELSE owned
         /\ moved' = [r \in Request |-> moved[r] \cup {n, rows[o].name}]
         /\ broken' = IF o \in Unfinished THEN broken \cup {o} ELSE broken
         /\ UNCHANGED req
  BY DEF UserRenames
<1>2. /\ TypeOK /\ n # NoName /\ \A p \in Row : rows[p].name # n
      /\ o \in Row /\ rows[o].name # NoName
  BY <1>1, ImportAssumption DEF Consistent, Named, There
<1>3. rows[o] \in Body /\ rows[o].name \in Name
  BY <1>2, RowTyped
<1>4. /\ rows \in [Row -> Body \cup {NoBody, Gone}]
      /\ rows' \in [Row -> Body \cup {NoBody, Gone}]
      /\ rows'[o].name = n /\ rows'[o].from = rows[o].from
      /\ \A p \in Row : p # o => rows'[p] = rows[p]
  BY <1>1, <1>2, <1>3 DEF TypeOK, Body
<1>5. /\ \A r \in Request : Remembered(req'[r], moved'[r], rows')
      /\ moved' \in [Request -> SUBSET Name]
  <2>1. \A p \in Row : rows[p].from # "unborn" => rows'[p].from # "unborn"
    BY <1>4
  <2>2. \A p \in Row : rows'[p].name # rows[p].name =>
           {rows[p].name, rows'[p].name} \subseteq {n, rows[o].name} \cup {NoName}
    BY <1>4
  <2>3. {n, rows[o].name} \in SUBSET Name
    BY <1>3
  <2> QED
    BY <1>1, <2>1, <2>2, <2>3, UserStep
<1>6. TypeOK'
  <2>1. \A p, q \in There' : rows'[p].name = rows'[q].name => p = q
    BY <1>2, <1>4 DEF TypeOK, There
  <2>2. served' \in 0..MaxServed
    BY <1>1, <1>2, ImportAssumption DEF TypeOK
  <2>3. owned' \subseteq Name /\ broken' \subseteq Row
    BY <1>1, <1>2 DEF TypeOK
  <2> QED
    BY <1>1, <1>2, <1>4, <1>5, <2>1, <2>2, <2>3 DEF TypeOK
<1>7. ASSUME NEW p \in There' \ broken'
      PROVE  ToCome(p)'
  <2>1. p \in Row /\ p \notin broken
    BY <1>1, <1>7 DEF There
  <2>2. CASE p = o
    <3>1. o \notin Unfinished /\ ToCome(o)
      BY <1>1, <1>7, <2>1, <2>2 DEF Consistent
    <3>2. \A s \in Request : req[s].pc \in {"columns", "grant"} => req[s].row # o
      BY <3>1 DEF Unfinished
    <3>3. rows[o].from # "half" /\ rows[o].name \in owned
      BY <3>1, <3>2 DEF ToCome
    <3> QED
      BY <1>1, <1>4, <2>2, <3>3 DEF ToCome
  <2>3. CASE p # o
    <3>1. rows'[p] = rows[p] /\ p \in There
      BY <1>4, <1>7, <2>1, <2>3 DEF There
    <3>2. rows[p].name # rows[o].name
      BY <1>1, <1>2, <2>3, <3>1 DEF TypeOK
    <3>3. rows[p].name \in owned => rows[p].name \in owned'
      BY <1>1, <3>2
    <3> QED
      BY <1>1, <2>1, <3>1, <3>3, StillToCome DEF Consistent
  <2> QED
    BY <2>2, <2>3
<1> QED
  BY <1>5, <1>6, <1>7 DEF Consistent

LEMMA UserDeletesKeeps ==
    ASSUME Consistent, UserDeletes
    PROVE  Consistent'
<1>1. PICK o \in There :
         /\ served < MaxServed /\ served' = served + 1
         /\ rows' = [p \in Row |-> IF p = o THEN Gone
                                   ELSE [rows[p] EXCEPT !.uses = @ \ {o}]]
         /\ owned' = owned \ {rows[o].name}
         /\ moved' = [r \in Request |-> moved[r] \cup {rows[o].name}]
         /\ UNCHANGED <<req, broken>>
  BY DEF UserDeletes
<1>2. TypeOK /\ o \in Row /\ rows[o].name # NoName
  BY <1>1 DEF Consistent, There
<1>3. rows[o] \in Body /\ rows[o].name \in Name
  BY <1>2, RowTyped
<1>4. Gone.name = NoName /\ Gone.from = "gone" /\ NoBody.uses = {} /\ Gone.uses = {}
  BY DEF Gone, NoBody
<1>5. ASSUME NEW p \in Row, p # o
      PROVE  /\ rows'[p].name = rows[p].name /\ rows'[p].from = rows[p].from
             /\ rows'[p] \in Body \cup {NoBody, Gone}
  <2>1. rows'[p] = [rows[p] EXCEPT !.uses = rows[p].uses \ {o}]
    BY <1>1, <1>5
  <2>2. rows[p] \in Body \cup {NoBody, Gone}
    BY <1>2 DEF TypeOK
  <2>3. CASE rows[p] \in Body
    BY <2>1, <2>3 DEF Body
  <2>4. CASE rows[p] \in {NoBody, Gone}
    BY <2>1, <2>4 DEF NoBody, Gone
  <2> QED
    BY <2>2, <2>3, <2>4
<1>6. rows'[o] = Gone
  BY <1>1, <1>2
<1>7. rows' \in [Row -> Body \cup {NoBody, Gone}]
  <2>1. \A p \in Row : rows'[p] \in Body \cup {NoBody, Gone}
    BY <1>5, <1>6
  <2>2. rows' = [p \in Row |-> rows'[p]]
    BY <1>1
  <2> QED
    BY <2>1, <2>2
<1>8. /\ \A r \in Request : Remembered(req'[r], moved'[r], rows')
      /\ moved' \in [Request -> SUBSET Name]
  <2>1. \A p \in Row : rows[p].from # "unborn" => rows'[p].from # "unborn"
    BY <1>4, <1>5, <1>6
  <2>2. \A p \in Row : rows'[p].name # rows[p].name =>
           {rows[p].name, rows'[p].name} \subseteq {rows[o].name} \cup {NoName}
    BY <1>4, <1>5, <1>6
  <2>3. {rows[o].name} \in SUBSET Name
    BY <1>3
  <2> QED
    BY <1>1, <2>1, <2>2, <2>3, UserStep
<1>9. TypeOK'
  <2>1. \A p, q \in There' : rows'[p].name = rows'[q].name => p = q
    BY <1>2, <1>4, <1>5, <1>6 DEF TypeOK, There
  <2>2. served' \in 0..MaxServed
    BY <1>1, <1>2, ImportAssumption DEF TypeOK
  <2>3. owned' \subseteq Name
    BY <1>1, <1>2 DEF TypeOK
  <2> QED
    BY <1>1, <1>2, <1>7, <1>8, <2>1, <2>2, <2>3 DEF TypeOK
<1>10. ASSUME NEW p \in There' \ broken'
       PROVE  ToCome(p)'
  <2>1. p \in Row /\ p \notin broken /\ p # o
    BY <1>1, <1>4, <1>6, <1>10 DEF There
  <2>2. rows'[p].name = rows[p].name /\ rows'[p].from = rows[p].from /\ p \in There
    BY <1>5, <1>10, <2>1 DEF There
  <2>3. rows[p].name # rows[o].name
    BY <1>1, <1>2, <2>1, <2>2 DEF TypeOK
  <2>4. rows[p].name \in owned => rows[p].name \in owned'
    BY <1>1, <2>3
  <2> QED
    BY <1>1, <2>1, <2>2, <2>4, StillToCome DEF Consistent
<1> QED
  BY <1>8, <1>9, <1>10 DEF Consistent

LEMMA InitConsistent == Init => Consistent
<1> SUFFICES ASSUME Init PROVE Consistent
  OBVIOUS
<1>1. PICK there \in AtFirst :
        rows = [o \in Row |-> IF \E n \in there : rowOf[n] = o
                              THEN Users(CHOOSE n \in there : rowOf[n] = o)
                              ELSE NoBody]
  BY DEF Init
<1>2. /\ owned = {rows[o].name : o \in There}
      /\ req = [r \in Request |-> Idle] /\ served = 0
      /\ moved = [r \in Request |-> {}] /\ broken = {}
  BY DEF Init
<1>3. there \subseteq Item /\ there \subseteq Name
  BY ImportAssumption
<1>4. ASSUME NEW o \in Row
      PROVE  \/ rows[o] = NoBody
             \/ \E n \in there : rowOf[n] = o /\ rows[o] = Users(n)
  BY <1>1
<1>5. /\ \A n \in Name : Users(n) \in Body /\ Users(n).name = n /\ Users(n).from = "user"
      /\ NoBody.name = NoName
  BY DEF Users, Body, NoBody
<1>6. rows \in [Row -> Body \cup {NoBody, Gone}]
  <2>1. \A o \in Row : rows[o] \in Body \cup {NoBody, Gone}
    BY <1>3, <1>4, <1>5
  <2>2. rows = [o \in Row |-> rows[o]]
    BY <1>1
  <2> QED
    BY <2>1, <2>2
<1>7. ASSUME NEW o \in There
      PROVE  /\ o \in Row /\ rows[o].from = "user" /\ rows[o].name \in Name
             /\ rows[o].name \in there /\ rowOf[rows[o].name] = o
  <2>1. o \in Row /\ rows[o].name # NoName
    BY DEF There
  <2>2. PICK n \in there : rowOf[n] = o /\ rows[o] = Users(n)
    BY <1>4, <1>5, <2>1
  <2> QED
    BY <1>3, <1>5, <2>1, <2>2
<1>8. TypeOK
  <2>1. \A o, p \in There : rows[o].name = rows[p].name => o = p
    BY <1>7
  <2>2. owned \subseteq Name
    BY <1>2, <1>7
  <2>3. served \in 0..MaxServed
    BY <1>2, ImportAssumption
  <2>4. /\ req \in [Request -> Import \cup {Idle}]
        /\ moved \in [Request -> SUBSET Name] /\ broken \subseteq Row
    BY <1>2
  <2> QED
    BY <1>6, <2>1, <2>2, <2>3, <2>4 DEF TypeOK
<1>9. \A r \in Request : Remembered(req[r], moved[r], rows)
  BY <1>2, IdleTyped
<1>10. ASSUME NEW o \in There \ broken
       PROVE  ToCome(o)
  BY <1>2, <1>7 DEF ToCome
<1> QED
  BY <1>8, <1>9, <1>10 DEF Consistent

LEMMA NextKeeps == Consistent /\ [Next]_vars => Consistent'
<1> SUFFICES ASSUME Consistent, [Next]_vars PROVE Consistent'
  OBVIOUS
<1>1. CASE UNCHANGED vars
  <2>1. UNCHANGED <<rows, owned, req, served, moved, broken>>
    BY <1>1 DEF vars
  <2>2. TypeOK'
    BY <2>1 DEF Consistent, TypeOK, There
  <2>3. \A r \in Request : Remembered(req'[r], moved'[r], rows')
    BY <2>1 DEF Consistent
  <2>4. \A o \in There' \ broken' : ToCome(o)'
    BY <2>1 DEF Consistent, ToCome, There
  <2> QED
    BY <2>2, <2>3, <2>4 DEF Consistent
<1>2. CASE Next
  <2>1. ASSUME NEW r \in Request,
               \/ BeforeImport(r) \/ StartImport(r)
               \/ FindItem(r) \/ LookUp(r)
               \/ AddItem(r) \/ LoseDashboard(r) \/ OverwriteItem(r) \/ SkipItem(r)
               \/ WriteColumns(r) \/ GrantOwner(r) \/ AnswerImport(r) \/ Fail(r)
        PROVE  Consistent'
    BY <2>1, ReadsKeep, AddItemKeeps, OverwriteItemKeeps, WriteColumnsKeeps
  <2> QED
    BY <1>2, <2>1, UserAddsKeeps, UserRenamesKeeps, UserDeletesKeeps DEF Next
<1> QED
  BY <1>1, <1>2

(* However many imports and other users, failing wherever they may: what   *)
(* an import was shown keeps its name unless it changes hands, and what a  *)
(* row lacks some import will bring or has failed to.                      *)
THEOREM ConsistentAlways == Spec => []Consistent
  BY InitConsistent, NextKeeps, PTL DEF Spec

(* Ids stay typed and names unique (Whole and OnlyChosenOverwritten rest   *)
(* on them).                                                               *)
THEOREM TypeCorrect == Spec => []TypeOK
<1>1. Consistent => TypeOK
  BY DEF Consistent
<1> QED
  BY <1>1, ConsistentAlways, PTL

(* Every row no import is at has its columns and its owner, whatever       *)
(* imports and users did, unless an import failed at it.                   *)
THEOREM WholeAlways == Spec => []Whole
<1>1. ASSUME Consistent PROVE Whole
  <2> SUFFICES ASSUME NEW o \in There \ (broken \cup Unfinished)
               PROVE  rows[o].from # "half" /\ rows[o].name \in owned
    BY DEF Whole
  <2>1. ToCome(o)
    BY <1>1 DEF Consistent
  <2>2. \A s \in Request : req[s].pc \in {"columns", "grant"} => req[s].row # o
    BY DEF Unfinished
  <2> QED
    BY <2>1, <2>2 DEF ToCome
<1> QED
  BY <1>1, ConsistentAlways, PTL

(* A step changes a row that was there only if another user takes it, the  *)
(* import that wrote it adds its columns, or an import was told to         *)
(* overwrite what it was shown as.                                         *)
THEOREM OnlyChosenOverwrittenAlways == Spec => OnlyChosenOverwritten
<1> DEFINE Chosen(o) ==
       \/ served' # served
       \/ \E r \in Request : req[r].pc = "columns" /\ req[r].row = o
       \/ \E r \in Request, n \in Item :
             /\ req[r].sol[n] = "overwrite"
             /\ req[r].shown[n] = o \/ n \in moved[r]
<1>1. ASSUME Consistent, [Next]_vars
      PROVE  [\A o \in There : rows'[o] # rows[o] => Chosen(o)]_vars
  <2> SUFFICES ASSUME NEW o \in There, rows'[o] # rows[o], Next
               PROVE  Chosen(o)
    BY <1>1
  <2>1. TypeOK /\ o \in Row
    BY <1>1 DEF Consistent, There
  <2>2. served \in Nat
    BY <2>1, ImportAssumption DEF TypeOK
  <2>3. CASE UserAdds \/ UserRenames \/ UserDeletes
    <3>1. served' = served + 1
      BY <2>3 DEF UserAdds, UserRenames, UserDeletes
    <3> QED
      BY <2>2, <3>1
  <2>4. ASSUME NEW r \in Request, OverwriteItem(r)
        PROVE  Chosen(o)
    <3> DEFINE c == req[r]
               n == Order[c.at].item
               p == c.found[n]
    <3>1. /\ c.pc = "step" /\ c.at <= Len(Order) /\ p \in There
          /\ c.sol[n] = "overwrite"
          /\ rows' = [rows EXCEPT ![p] = Written(r, n, n)]
      BY <2>4 DEF OverwriteItem, At, Overwrites
    <3>2. c \in Import /\ Remembered(c, moved[r], rows)
      BY <1>1, <3>1, ImportTyped DEF Consistent, TypeOK, Call
    <3>3. n \in Item
      BY <3>1, <3>2, ItemAt
    <3> HIDE DEF n
    <3>4. o = p
      BY <2>1, <3>1 DEF TypeOK
    <3>5. c.shown[n] \in Row /\ p # NoRow
      BY <3>1, <3>2, <3>3, ImportAssumption DEF Import, RowOrNot, Remembered, There
    <3>6. ASSUME n \notin moved[r] PROVE c.shown[n] = o
      <4>1. rows[c.shown[n]].name = n /\ rows[p].name = n
        BY <3>1, <3>2, <3>3, <3>5, <3>6, ImportAssumption DEF Remembered
      <4> QED
        BY <2>1, <3>1, <3>3, <3>4, <3>5, <4>1, ImportAssumption DEF TypeOK, There
    <3> QED
      BY <3>1, <3>3, <3>6
  <2>5. ASSUME NEW r \in Request, AddItem(r)
        PROVE  Chosen(o)
    BY <1>1, <2>5, AddItemKeeps
  <2>6. ASSUME NEW r \in Request, WriteColumns(r)
        PROVE  Chosen(o)
    BY <2>1, <2>6 DEF WriteColumns, TypeOK
  <2>7. ASSUME NEW r \in Request,
               BeforeImport(r) \/ StartImport(r) \/ FindItem(r) \/ LookUp(r) \/ SkipItem(r)
                 \/ LoseDashboard(r) \/ AnswerImport(r) \/ GrantOwner(r) \/ Fail(r)
        PROVE  Chosen(o)
    BY <2>7 DEF BeforeImport, StartImport, FindItem, LookUp, SkipItem, LoseDashboard,
                AnswerImport, GrantOwner, Fail
  <2> QED
    BY <2>3, <2>4, <2>5, <2>6, <2>7 DEF Next
<1>2. Spec => [][\A o \in There : rows'[o] # rows[o] => Chosen(o)]_vars
  BY <1>1, ConsistentAlways, PTL DEF Spec
<1> QED
  BY <1>2 DEF OnlyChosenOverwritten

-----------------------------------------------------------------------------
(* How far imports are.                                                    *)

Database == [Row -> Body \cup {NoBody, Gone}]

LEMMA OrderTyped ==
    /\ Len(Order) \in Nat
    /\ \A i \in 1..Len(Order) :
         /\ Order[i].item \in Item
         /\ \A do, n : Order[i] = [do |-> do, item |-> n]
                          <=> Order[i].do = do /\ Order[i].item = n
<1> DEFINE S == [do : {"find", "look", "write"}, item : Item]
<1>1. Order \in Seq(S)
  BY ImportAssumption
<1>2. Len(Order) \in Nat /\ \A i \in 1..Len(Order) : Order[i] \in S
  <2> HIDE DEF S
  <2> QED
    BY <1>1
<1> QED
  BY <1>2

LEMMA NoneEarlier == \A do, n : ~Earlier(1, do, n)
<1>1. 1 \in 1..Len(Order) + 1 /\ 1..1 - 1 = {}
  BY OrderTyped
<1>2. Before[1] = {}
  BY <1>1 DEF Before
<1> QED
  BY <1>2 DEF Earlier

LEMMA EarlierStays ==
    ASSUME NEW i \in 1..Len(Order) + 1, NEW k \in 1..Len(Order) + 1, i <= k,
           NEW do, NEW n, Earlier(i, do, n)
    PROVE  Earlier(k, do, n)
BY OrderTyped DEF Earlier, Before

LEMMA EarlierNext ==
    ASSUME NEW i \in 1..Len(Order), NEW do, NEW n
    PROVE  Earlier(i + 1, do, n)
             <=> Earlier(i, do, n) \/ (Order[i].do = do /\ Order[i].item = n)
<1>1. Len(Order) \in Nat /\ i \in 1..Len(Order) + 1 /\ i + 1 \in 1..Len(Order) + 1
  BY OrderTyped
<1>2. Before[i + 1] = Before[i] \cup {Order[i]}
  BY <1>1 DEF Before
<1>3. Order[i] = [do |-> do, item |-> n] <=> Order[i].do = do /\ Order[i].item = n
  BY OrderTyped
<1> QED
  BY <1>2, <1>3 DEF Earlier

(* What a slice was looked up by had been written.                         *)
LEMMA LookedUp ==
    ASSUME NEW i \in 1..Len(Order) + 1, NEW n \in Item, Earlier(i, "look", n)
    PROVE  \E t \in Needs[n] : Needs[n] = {t} /\ Earlier(i, "write", t)
<1>1. PICK j \in 1..i - 1 : Order[j] = [do |-> "look", item |-> n]
  BY OrderTyped DEF Earlier, Before
<1>2. j \in 1..Len(Order) /\ j \in 1..Len(Order) + 1 /\ j <= i
  BY <1>1, OrderTyped
<1>3. PICK t \in Needs[n] : Needs[n] = {t} /\ Earlier(j, "write", t)
  BY <1>1, <1>2, OrderAssumption
<1> QED
  BY <1>2, <1>3, EarlierStays

LEMMA CalmIsCertain ==
    ASSUME NEW c, NEW gone, NEW n \in Item, Calm(c, n, gone)
    PROVE  /\ Certain(c, n, gone)
           /\ \A m \in Needs[n] : m \in Item /\ Certain(c, m, gone)
BY ImportAssumption, OrderAssumption DEF Calm, Certain

LEMMA LessGone ==
    ASSUME NEW c, NEW gone, NEW gone2, gone \subseteq gone2, NEW n
    PROVE  /\ Calm(c, n, gone2) => Calm(c, n, gone)
           /\ Certain(c, n, gone2) => Certain(c, n, gone)
<1>1. \A m : Spared(c, m, gone2) => Spared(c, m, gone)
  BY DEF Spared
<1> QED
  BY <1>1 DEF Calm, Certain

LEMMA CalledRelied ==
    ASSUME NEW c \in Import, NEW n \in Item, NEW gone, Certain(c, n, gone)
    PROVE  Called(c, n) \in Name \ gone /\ n \in Name \ gone
BY ImportAssumption DEF Certain, Spared, Relied, Called

(* What is linked to something is linked to rows.                          *)
LEMMA LinkedMade ==
    ASSUME NEW c \in Import, NEW db \in Database, NEW n \in Item, Linked(c, n, db),
           c.made[n] # NoRow, Brought(c, n), NEW m \in Needs[n]
    PROVE  c.made[m] \in db[c.made[n]].uses /\ c.made[m] # NoRow
<1>1. c.made[n] \in Row
  BY DEF Import, RowOrNot
<1>2. db[c.made[n]].uses \subseteq Row
  BY <1>1 DEF Database, Body, NoBody, Gone
<1>3. c.made[m] \in db[c.made[n]].uses
  BY DEF Linked
<1> QED
  BY <1>2, <1>3, ImportAssumption

(* A change of the database keeps what an import has done, if it spares    *)
(* all names but those that change hands.                                  *)
LEMMA OnTheWayStays ==
    ASSUME NEW c \in Call, NEW gone, NEW gone2, NEW db \in Database, NEW db2,
           OnTheWay(c, gone, db), gone \subseteq gone2,
           \A o \in Row : db[o].name \in Name \ gone2 =>
              /\ db2[o].name = db[o].name
              /\ db[o].from = "file" => db2[o].from = "file"
              /\ db2[o].uses \subseteq db[o].uses
              /\ \A p \in db[o].uses : db[p].name \in Name \ gone2 => p \in db2[o].uses,
           \A o \in Row : db2[o].name \in Name \ gone2 => db[o].name = db2[o].name
    PROVE  OnTheWay(c, gone2, db2)
<1>1. /\ Fits(c, gone2)
      /\ c.pc = "asked" => c = [Idle EXCEPT !.pc = "asked", !.shown = c.shown]
  BY DEF OnTheWay, Fits
<1>2. ASSUME c.pc # "idle", NEW n \in Item, Certain(c, n, gone2)
      PROVE  Dealt(c, n, db2)
  <2>1. c \in Import /\ Certain(c, n, gone) /\ Dealt(c, n, db)
    BY <1>2, ImportTyped, LessGone DEF OnTheWay
  <2>2. Called(c, n) \in Name \ gone2 /\ n \in Name \ gone2
    BY <1>2, <2>1, CalledRelied
  <2>3. c.made[n] # NoRow => c.made[n] \in Row
    BY <2>1 DEF Import, RowOrNot
  <2> QED
    BY <2>1, <2>2, <2>3 DEF Dealt
<1>3. ASSUME c.pc # "idle", NEW n \in Item, Calm(c, n, gone2)
      PROVE  Linked(c, n, db2)
  <2>1. c \in Import /\ Calm(c, n, gone) /\ Linked(c, n, db)
    BY <1>3, ImportTyped, LessGone DEF OnTheWay
  <2>2. /\ Certain(c, n, gone2) /\ Certain(c, n, gone) /\ Dealt(c, n, db)
        /\ \A m \in Needs[n] : /\ m \in Item /\ Certain(c, m, gone2)
                               /\ Dealt(c, m, db)
    BY <1>3, <2>1, CalmIsCertain DEF OnTheWay
  <2>3. ASSUME c.made[n] # NoRow, Brought(c, n)
        PROVE  db2[c.made[n]].uses = {c.made[m] : m \in Needs[n]}
    <3> DEFINE o == c.made[n]
    <3>1. o \in Row /\ db[o].name \in Name \ gone2
      BY <1>3, <2>1, <2>2, <2>3, CalledRelied DEF Dealt, Import, RowOrNot
    <3>2. db[o].uses = {c.made[m] : m \in Needs[n]}
      BY <2>1, <2>3 DEF Linked
    <3>3. \A p \in db[o].uses : db[p].name \in Name \ gone2
      <4> SUFFICES ASSUME NEW m \in Needs[n]
                   PROVE  db[c.made[m]].name \in Name \ gone2
        BY <3>2
      <4>1. c.made[m] # NoRow
        BY <2>1, <2>3, LinkedMade
      <4>2. db[c.made[m]].name = Called(c, m)
        BY <2>2, <4>1 DEF Dealt
      <4> QED
        BY <2>1, <2>2, <4>2, CalledRelied
    <3> HIDE DEF o
    <3>4. db2[o].uses = db[o].uses
      BY <3>1, <3>3
    <3> QED
      BY <3>2, <3>4 DEF o
  <2> QED
    BY <2>1, <2>3 DEF Linked
<1> QED
  BY <1>1, <1>2, <1>3 DEF OnTheWay

(* A step of r that writes item n, or says that it has, as v.              *)
LEMMA WriteStep ==
    ASSUME NEW c \in Import, NEW gone, NEW db \in Database, NEW db2 \in Database,
           OnTheWay(c, gone, db), c.pc = "step", c.at <= Len(Order),
           Order[c.at].do = "write", NEW n \in Item, Order[c.at].item = n,
           NEW v \in RowOrNot, NEW d \in Import,
           d.pc \in {"step", "columns", "grant"},
           d.shown = c.shown, d.sol = c.sol, d.found = c.found, d.look = c.look,
           d.made = [c.made EXCEPT ![n] = v], d.at = c.at + 1,
           \A m \in Item : m # n /\ Certain(c, m, gone) =>
              /\ \A p \in Row : db2[p].name = m => db[p].name = m
              /\ c.made[m] # NoRow => db2[c.made[m]] = db[c.made[m]],
           Certain(c, n, gone) =>
              /\ v # NoRow /\ db2[v].name = Called(c, n)
              /\ c.shown[n] = NoRow => \A p \in Row : db2[p].name = n => p = v
              /\ c.shown[n] # NoRow /\ c.sol[n] \notin Name => v = c.shown[n]
              /\ Brought(c, n) => db2[v].from = "file" \/ (d.pc = "columns" /\ d.row = v)
              /\ c.made[n] # NoRow => v = c.made[n],
           Calm(c, n, gone) /\ Brought(c, n) =>
              db2[v].uses = {c.made[m] : m \in Needs[n]}
    PROVE  OnTheWay(d, gone, db2)
<1>1. /\ Fits(d, gone)
      /\ \A m \in Item : /\ Certain(d, m, gone) <=> Certain(c, m, gone)
                         /\ Calm(d, m, gone) <=> Calm(c, m, gone)
                         /\ Called(d, m) = Called(c, m)
                         /\ Brought(d, m) <=> Brought(c, m)
  BY DEF OnTheWay, Fits, Certain, Calm, Spared, Relied, Called, Brought
<1>2. /\ c.at \in 1..Len(Order) /\ c.at \in 1..Len(Order) + 1
      /\ \A m : /\ Earlier(d.at, "find", m) <=> Earlier(c.at, "find", m)
                /\ Earlier(d.at, "look", m) <=> Earlier(c.at, "look", m)
                /\ Earlier(d.at, "write", m) <=> Earlier(c.at, "write", m) \/ m = n
  <2>1. c.at \in 1..Len(Order) /\ c.at \in 1..Len(Order) + 1
    BY OrderTyped DEF Import
  <2>2. \A m : /\ Earlier(c.at + 1, "find", m) <=> Earlier(c.at, "find", m)
               /\ Earlier(c.at + 1, "look", m) <=> Earlier(c.at, "look", m)
               /\ Earlier(c.at + 1, "write", m) <=> Earlier(c.at, "write", m) \/ m = n
    <3>1. \A do, m : Earlier(c.at + 1, do, m)
                        <=> Earlier(c.at, do, m) \/ ("write" = do /\ n = m)
      BY <2>1, EarlierNext, Zenon
    <3> QED
      BY <3>1
  <2> QED
    BY <2>1, <2>2
<1>3. \A m \in Item : c.made[m] \in RowOrNot /\ (m # n => d.made[m] = c.made[m])
  BY DEF Import
<1>4. d.made[n] = v
  BY DEF Import
<1>5. ASSUME NEW m \in Item, Certain(c, m, gone)
      PROVE  Dealt(c, m, db)
  BY <1>5 DEF OnTheWay
<1>6. ASSUME NEW m \in Item, Certain(c, m, gone)
      PROVE  Dealt(d, m, db2)
  <2>1. CASE m # n
    BY <1>1, <1>2, <1>3, <1>5, <1>6, <2>1 DEF Dealt
  <2>2. CASE m = n
    BY <1>1, <1>2, <1>4, <1>5, <1>6, <2>2 DEF Dealt
  <2> QED
    BY <2>1, <2>2
<1>7. ASSUME NEW m \in Item, Calm(c, m, gone)
      PROVE  Linked(d, m, db2)
  <2>1. /\ Certain(c, m, gone) /\ Linked(c, m, db)
        /\ \A k \in Needs[m] : k \in Item /\ Certain(c, k, gone)
    BY <1>7, CalmIsCertain DEF OnTheWay
  <2>2. ASSUME \A k \in Needs[m] : c.made[k] # NoRow
        PROVE  {d.made[k] : k \in Needs[m]} = {c.made[k] : k \in Needs[m]}
    <3>1. \A k \in Needs[m] : d.made[k] = c.made[k]
      BY <1>3, <1>4, <2>1, <2>2
    <3> QED
      BY <3>1
  <2>3. ASSUME d.made[m] # NoRow, Brought(d, m)
        PROVE  db2[d.made[m]].uses = {d.made[k] : k \in Needs[m]}
    <3>1. CASE m # n
      <4>1. c.made[m] # NoRow /\ Brought(c, m) /\ d.made[m] = c.made[m]
        BY <1>1, <1>3, <2>3, <3>1
      <4>2. db2[c.made[m]] = db[c.made[m]]
        BY <2>1, <3>1, <4>1
      <4>3. \A k \in Needs[m] : c.made[k] # NoRow
        BY <2>1, <4>1, LinkedMade
      <4>4. db[c.made[m]].uses = {c.made[k] : k \in Needs[m]}
        BY <2>1, <4>1 DEF Linked
      <4> QED
        BY <2>2, <4>1, <4>2, <4>3, <4>4
    <3>2. CASE m = n
      <4>1. \A k \in Needs[m] : c.made[k] # NoRow
        <5>1. \A k \in Needs[n] : Earlier(c.at, "write", k)
          BY <1>2, OrderAssumption
        <5> QED
          BY <1>5, <2>1, <3>2, <5>1 DEF Dealt
      <4>2. db2[v].uses = {c.made[k] : k \in Needs[n]}
        BY <1>1, <1>7, <2>3, <3>2
      <4> QED
        BY <1>4, <2>2, <3>2, <4>1, <4>2
    <3> QED
      BY <3>1, <3>2
  <2>4. IF Earlier(d.at, "look", m)
        THEN {d.look[m]} = {d.made[k] : k \in Needs[m]} ELSE d.look[m] = NoRow
    <3>1. CASE Earlier(c.at, "look", m)
      <4>1. PICK t \in Needs[m] : Needs[m] = {t} /\ Earlier(c.at, "write", t)
        BY <1>2, <3>1, LookedUp
      <4>2. \A k \in Needs[m] : c.made[k] # NoRow
        BY <1>5, <2>1, <4>1 DEF Dealt
      <4> QED
        BY <1>2, <2>1, <2>2, <3>1, <4>2 DEF Linked
    <3>2. CASE ~Earlier(c.at, "look", m)
      BY <1>2, <2>1, <3>2 DEF Linked
    <3> QED
      BY <3>1, <3>2
  <2> QED
    BY <2>3, <2>4 DEF Linked
<1> QED
  BY <1>1, <1>6, <1>7 DEF OnTheWay

(* What an import that writes an item knows of it.                         *)
LEMMA AtWrite ==
    ASSUME Consistent, NEW r \in Request, At(r, "write"), Underway,
           NEW n, n = Order[req[r].at].item
    PROVE  LET c == req[r] IN
           /\ c \in Import /\ c.pc = "step" /\ c.at <= Len(Order) /\ n \in Item
           /\ Order[c.at].do = "write" /\ rows \in Database
           /\ OnTheWay(c, moved[r], rows) /\ Remembered(c, moved[r], rows)
           /\ Certain(c, n, moved[r]) =>
                 /\ Dealt(c, n, rows) /\ n \notin moved[r]
                 /\ c.shown[n] # NoRow => c.found[n] = c.shown[n] /\ rows[c.shown[n]].name = n
                 /\ c.shown[n] = NoRow => c.sol[n] = "skip" /\ Called(c, n) = n
                 /\ c.shown[n] = NoRow /\ c.found[n] # NoRow => c.found[n] = c.made[n]
           /\ Calm(c, n, moved[r]) =>
                 /\ Linked(c, n, rows)
                 /\ \A m \in Needs[n] : c.made[m] \in There
                 /\ Links(r, n) = {c.made[m] : m \in Needs[n]}
<1> DEFINE c == req[r]
<1>1. /\ c.pc = "step" /\ c.at <= Len(Order) /\ Order[c.at].do = "write"
      /\ rows \in Database /\ TypeOK /\ c \in Call
      /\ OnTheWay(c, moved[r], rows) /\ Remembered(c, moved[r], rows)
  BY DEF At, Consistent, TypeOK, Call, Underway, Database
<1>2. c \in Import
  BY <1>1, ImportTyped
<1>3. n \in Item
  BY <1>1, <1>2, ItemAt
<1>4. c.at \in 1..Len(Order) /\ c.at \in 1..Len(Order) + 1
  BY <1>1, <1>2, OrderTyped DEF Import
<1>5. /\ Earlier(c.at, "find", n)
      /\ \A m \in Needs[n] : Earlier(c.at, "write", m)
      /\ \/ Kind[n] # "slice" \/ Earlier(c.at, "look", n)
         \/ \A m \in Needs[n] : Kind[m] = "connection"
  BY <1>1, <1>4, OrderAssumption
<1> HIDE DEF c
<1>6. ASSUME Certain(c, n, moved[r])
      PROVE  /\ Dealt(c, n, rows) /\ n \notin moved[r]
             /\ c.shown[n] # NoRow => c.found[n] = c.shown[n] /\ rows[c.shown[n]].name = n
             /\ c.shown[n] = NoRow => c.sol[n] = "skip" /\ Called(c, n) = n
             /\ c.shown[n] = NoRow /\ c.found[n] # NoRow => c.found[n] = c.made[n]
  <2>1. Dealt(c, n, rows) /\ n \notin moved[r]
    BY <1>1, <1>2, <1>3, <1>6, CalledRelied DEF OnTheWay
  <2>2. c.shown[n] # NoRow => c.found[n] = c.shown[n] /\ rows[c.shown[n]].name = n
    BY <1>1, <1>3, <1>5, <2>1 DEF Dealt, Remembered
  <2>3. c.shown[n] = NoRow => c.sol[n] = "skip" /\ Called(c, n) = n
    BY <1>1, <1>3, ImportAssumption DEF OnTheWay, Fits, Called
  <2>4. c.shown[n] = NoRow /\ c.found[n] # NoRow => c.found[n] = c.made[n]
    <3>1. c.found[n] # NoRow => c.found[n] \in Row /\ rows[c.found[n]].name = n
      BY <1>1, <1>2, <1>3, <2>1 DEF Remembered, Import, RowOrNot
    <3> QED
      BY <2>1, <3>1 DEF Dealt
  <2> QED
    BY <2>1, <2>2, <2>3, <2>4
<1>7. ASSUME Calm(c, n, moved[r])
      PROVE  /\ Linked(c, n, rows)
             /\ \A m \in Needs[n] : c.made[m] \in There
             /\ Links(r, n) = {c.made[m] : m \in Needs[n]}
  <2>1. Linked(c, n, rows)
    BY <1>1, <1>3, <1>7 DEF OnTheWay
  <2>2. ASSUME NEW m \in Needs[n]
        PROVE  c.made[m] # NoRow /\ c.made[m] \in There
    <3>1. m \in Item /\ Certain(c, m, moved[r]) /\ Dealt(c, m, rows)
      BY <1>1, <1>3, <1>7, CalmIsCertain DEF OnTheWay
    <3>2. c.made[m] # NoRow /\ rows[c.made[m]].name = Called(c, m)
      BY <1>5, <3>1 DEF Dealt
    <3>3. c.made[m] \in Row /\ Called(c, m) # NoName
      BY <1>2, <3>1, <3>2, CalledRelied, ImportAssumption DEF Import, RowOrNot
    <3> QED
      BY <3>2, <3>3 DEF There
  <2>3. CASE c.look[n] # NoRow
    <3>1. {c.look[n]} = {c.made[m] : m \in Needs[n]}
      BY <2>1, <2>3 DEF Linked
    <3> QED
      BY <2>1, <2>2, <2>3, <3>1 DEF Links, c
  <2>4. CASE c.look[n] = NoRow
    <3>1. ~Earlier(c.at, "look", n)
      <4> SUFFICES ASSUME Earlier(c.at, "look", n) PROVE FALSE
        OBVIOUS
      <4>1. NoRow \in {c.made[m] : m \in Needs[n]}
        BY <2>1, <2>4 DEF Linked
      <4> QED
        BY <2>2, <4>1
    <3>2. {m \in Needs[n] : /\ c.made[m] # NoRow
                            /\ Kind[n] = "slice" => Kind[m] = "connection"
                            /\ Kind[n] = "dashboard" => c.made[m] \in There} = Needs[n]
      BY <1>5, <2>2, <3>1
    <3> QED
      BY <2>1, <2>2, <2>4, <3>2 DEF Links, c
  <2> QED
    BY <2>3, <2>4
<1> QED
  BY <1>1, <1>2, <1>3, <1>6, <1>7 DEF c

LEMMA IdleOnTheWay == \A gone, db : OnTheWay(Idle, gone, db)
<1>1. \A n \in Item : Idle.sol[n] = "skip" /\ "skip" \notin Item
  BY ImportAssumption DEF Idle
<1>2. \A gone : Fits(Idle, gone)
  BY <1>1 DEF Fits
<1>3. Idle.pc = "idle"
  BY DEF Idle
<1> QED
  BY <1>2, <1>3 DEF OnTheWay

LEMMA BeforeImportWay ==
    ASSUME Consistent, NEW r \in Request, BeforeImport(r)
    PROVE  OnTheWay(req'[r], moved'[r], rows')
<1> DEFINE d == [Idle EXCEPT !.pc = "asked", !.shown = [n \in Item |-> Get(n)]]
<1>1. req'[r] = d /\ moved'[r] = {} /\ rows' = rows
  BY DEF BeforeImport, Set, Consistent, TypeOK
<1>2. /\ d.pc = "asked" /\ d.shown = [n \in Item |-> Get(n)]
      /\ d = [Idle EXCEPT !.pc = "asked", !.shown = d.shown]
      /\ d.at = 1 /\ d.made = Nothing /\ d.look = Nothing /\ d.sol = [n \in Item |-> "skip"]
  BY DEF Idle
<1> HIDE DEF d
<1>3. Fits(d, {})
  BY <1>2, ImportAssumption DEF Fits
<1>4. ASSUME NEW n \in Item
      PROVE  Dealt(d, n, rows) /\ Linked(d, n, rows)
  <2>1. d.made[n] = NoRow /\ d.look[n] = NoRow
    BY <1>2 DEF Nothing
  <2>2. d.shown[n] = NoRow => \A p \in Row : rows[p].name # n
    <3>1. ASSUME Get(n) = NoRow PROVE \A p \in Row : rows[p].name # n
      <4>1. CASE Named(n) = {}
        BY <4>1 DEF Named
      <4>2. CASE Named(n) # {}
        <5>1. \E o \in Row : rows[o].name = n
          BY <4>2 DEF Named
        <5>2. Get(n) \in Row
          BY <4>2, <5>1 DEF Get
        <5> QED
          BY <3>1, <5>2, ImportAssumption
      <4> QED
        BY <4>1, <4>2
    <3> QED
      BY <1>2, <3>1
  <2> QED
    BY <1>2, <2>1, <2>2, NoneEarlier DEF Dealt, Linked
<1> QED
  BY <1>1, <1>2, <1>3, <1>4 DEF OnTheWay

LEMMA StartImportWay ==
    ASSUME Consistent, Underway, NEW r \in Request, StartImport(r)
    PROVE  OnTheWay(req'[r], moved'[r], rows')
<1> DEFINE c == req[r]
<1>1. PICK sol \in Solutions(c.shown) :
        req' = [req EXCEPT ![r] = [c EXCEPT !.pc = "step", !.sol = sol]]
  BY DEF StartImport, Set
<1> DEFINE d == [c EXCEPT !.pc = "step", !.sol = sol]
<1>2. /\ c.pc = "asked" /\ c = [Idle EXCEPT !.pc = "asked", !.shown = c.shown]
      /\ req \in [Request -> Call] /\ Remembered(c, moved[r], rows)
      /\ OnTheWay(c, moved[r], rows) /\ moved' = moved /\ rows' = rows
  BY DEF StartImport, Underway, OnTheWay, Consistent, TypeOK, Call
<1>3. c \in Import /\ req'[r] = d
  BY <1>1, <1>2, ImportTyped
<1>4. /\ c.at = 1 /\ c.made = Nothing /\ c.look = Nothing
  <2>1. \A x : LET e == [Idle EXCEPT !.pc = "asked", !.shown = x]
               IN e.at = 1 /\ e.made = Nothing /\ e.look = Nothing
    BY DEF Idle
  <2> QED
    BY <1>2, <2>1
<1>5. d.pc = "step" /\ d.shown = c.shown /\ d.at = 1 /\ d.made = Nothing /\ d.look = Nothing
      /\ d.sol = sol
  BY <1>3, <1>4 DEF Import
<1>6. ASSUME NEW n \in Item
      PROVE  /\ c.shown[n] = NoRow => sol[n] = "skip"
             /\ sol[n] \in Item => Named(sol[n]) = {}
  <2> DEFINE taken == {m \in Item : c.shown[m] # NoRow}
             free == {m \in Name : Named(m) = {}}
  <2>1. PICK f \in [taken -> {"skip", "overwrite"} \cup free] :
          sol = [m \in Item |-> IF m \in taken THEN f[m] ELSE "skip"]
    BY <1>1 DEF Solutions
  <2>2. "skip" \notin Item /\ "overwrite" \notin Item
    BY ImportAssumption
  <2> QED
    BY <2>1, <2>2
<1> HIDE DEF c, d
<1>7. Fits(d, moved[r])
  <2>1. ASSUME NEW n \in Item, sol[n] \in Item, c.shown[sol[n]] # NoRow
        PROVE  sol[n] \in moved[r]
    <3>1. c.shown[sol[n]] \in Row
      BY <1>3, <2>1 DEF Import, RowOrNot
    <3>2. rows[c.shown[sol[n]]].name # sol[n]
      BY <1>6, <2>1, <3>1 DEF Named
    <3> QED
      BY <1>2, <2>1, <3>2 DEF Remembered
  <2> QED
    BY <1>5, <1>6, <2>1 DEF Fits
<1>8. ASSUME NEW n \in Item
      PROVE  /\ Certain(d, n, moved[r]) => Dealt(d, n, rows)
             /\ Linked(d, n, rows)
  <2>1. /\ c.made[n] = NoRow /\ c.look[n] = NoRow
    BY <1>4 DEF Nothing
  <2>2. Linked(d, n, rows)
    BY <1>4, <1>5, <2>1, NoneEarlier DEF Linked
  <2>3. ASSUME Certain(d, n, moved[r])
        PROVE  Dealt(d, n, rows)
    <3>1. \A i \in Item : c.sol[i] = "skip"
      <4>1. \A x : [Idle EXCEPT !.pc = "asked", !.shown = x].sol = Idle.sol
        BY DEF Idle
      <4>2. c.sol = Idle.sol
        BY <1>2, <4>1
      <4> QED
        BY <4>2 DEF Idle
    <3>2. \A m \in Item : Spared(d, m, moved[r]) => Spared(c, m, moved[r])
      BY <3>1, ImportAssumption DEF Spared, Relied
    <3>3. Certain(c, n, moved[r])
      BY <2>3, <3>2, ImportAssumption DEF Certain, Calm
    <3>4. \A p \in Row : p # NoRow
      BY ImportAssumption
    <3>5. c.shown[n] = NoRow => \A p \in Row : rows[p].name # n
      BY <1>2, <2>1, <3>3, <3>4 DEF OnTheWay, Dealt
    <3> QED
      BY <1>4, <1>5, <2>1, <3>5, NoneEarlier DEF Dealt
  <2> QED
    BY <2>2, <2>3
<1> QED
  BY <1>2, <1>3, <1>5, <1>7, <1>8 DEF OnTheWay

(* A step that does no more than look something up.                        *)
LEMMA LookStep ==
    ASSUME NEW c \in Import, NEW gone, NEW db \in Database, OnTheWay(c, gone, db),
           c.pc = "step", c.at <= Len(Order), NEW d \in Import, d.pc = "step",
           d.shown = c.shown, d.sol = c.sol, d.made = c.made, d.at = c.at + 1,
           Order[c.at].do # "write",
           \A n \in Item :
               Certain(c, n, gone) /\ c.shown[n] # NoRow /\ Earlier(d.at, "find", n)
                  => d.found[n] = c.shown[n],
           \A n \in Item : Calm(c, n, gone) =>
               IF Earlier(d.at, "look", n)
               THEN {d.look[n]} = {c.made[m] : m \in Needs[n]} ELSE d.look[n] = NoRow
    PROVE  OnTheWay(d, gone, db)
<1>1. /\ Fits(d, gone)
      /\ \A m \in Item : /\ Certain(d, m, gone) <=> Certain(c, m, gone)
                         /\ Calm(d, m, gone) <=> Calm(c, m, gone)
                         /\ Called(d, m) = Called(c, m)
                         /\ Brought(d, m) <=> Brought(c, m)
  BY DEF OnTheWay, Fits, Certain, Calm, Spared, Relied, Called, Brought
<1>2. c.at \in 1..Len(Order)
  BY OrderTyped DEF Import
<1>3. \A m : Earlier(d.at, "write", m) => Earlier(c.at, "write", m)
  <2>1. \A m : Earlier(c.at + 1, "write", m)
                 => Earlier(c.at, "write", m) \/ Order[c.at].do = "write"
    BY <1>2, EarlierNext, Zenon
  <2> QED
    BY <2>1
<1>4. ASSUME NEW n \in Item, Certain(c, n, gone)
      PROVE  Dealt(d, n, db)
  <2>1. Dealt(c, n, db)
    BY <1>4 DEF OnTheWay
  <2> QED
    BY <1>1, <1>3, <1>4, <2>1 DEF Dealt
<1>5. ASSUME NEW n \in Item, Calm(c, n, gone)
      PROVE  Linked(d, n, db)
  <2>1. Linked(c, n, db)
    BY <1>5 DEF OnTheWay
  <2> QED
    BY <1>1, <1>5, <2>1 DEF Linked
<1> QED
  BY <1>1, <1>4, <1>5 DEF OnTheWay

LEMMA FindItemWay ==
    ASSUME Consistent, Underway, NEW r \in Request, FindItem(r)
    PROVE  OnTheWay(req'[r], moved'[r], rows')
<1> DEFINE c == req[r]
           n == Order[c.at].item
           d == [c EXCEPT !.found[n] = Get(n), !.at = c.at + 1]
<1>1. /\ c.pc = "step" /\ c.at <= Len(Order) /\ Order[c.at].do = "find"
      /\ req' = [req EXCEPT ![r] = d] /\ moved' = moved /\ rows' = rows
  BY DEF FindItem, At, Set
<1>2. /\ c \in Call /\ req'[r] = d /\ rows \in Database /\ TypeOK
      /\ Remembered(c, moved[r], rows) /\ OnTheWay(c, moved[r], rows)
  BY <1>1 DEF Consistent, TypeOK, Call, Underway, Database
<1>3. c \in Import /\ c.at \in 1..Len(Order)
  BY <1>1, <1>2, ImportTyped, OrderTyped DEF Import
<1>4. n \in Item
  BY <1>1, <1>3, ItemAt
<1> HIDE DEF n, c
<1>5. /\ d \in Import /\ d.pc = "step" /\ d.shown = c.shown /\ d.sol = c.sol
      /\ d.made = c.made /\ d.at = c.at + 1 /\ d.look = c.look
      /\ d.found = [c.found EXCEPT ![n] = Get(n)]
  <2>1. c.at + 1 \in 1..(Len(Order) + 1) /\ Get(n) \in RowOrNot
    BY <1>3, GetNamed, OrderTyped
  <2> QED
    BY <1>1, <1>3, <1>4, <2>1 DEF Import
<1> HIDE DEF d
<1>6. \A do, m : Earlier(d.at, do, m) <=> Earlier(c.at, do, m) \/ ("find" = do /\ n = m)
  <2>1. \A do, m : Earlier(c.at + 1, do, m)
                     <=> Earlier(c.at, do, m) \/ (Order[c.at].do = do /\ Order[c.at].item = m)
    BY <1>3, EarlierNext, Zenon
  <2> QED
    BY <1>1, <1>5, <2>1 DEF n
<1>7. ASSUME NEW m \in Item, Certain(c, m, moved[r]), c.shown[m] # NoRow, Earlier(d.at, "find", m)
      PROVE  d.found[m] = c.shown[m]
  <2>1. CASE m # n
    <3>1. Earlier(c.at, "find", m)
      BY <1>6, <1>7, <2>1
    <3>2. Dealt(c, m, rows)
      BY <1>1, <1>2, <1>7 DEF OnTheWay
    <3> QED
      BY <1>3, <1>5, <1>7, <2>1, <3>1, <3>2 DEF Dealt, Import
  <2>2. CASE m = n
    <3>1. c.shown[n] \in Row /\ rows[c.shown[n]].name = n
      BY <1>1, <1>2, <1>3, <1>4, <1>7, <2>2, CalledRelied DEF Remembered, Import, RowOrNot
    <3>2. Get(n) \in Row /\ rows[Get(n)].name = n
      <4>1. \E o \in Row : rows[o].name = n
        BY <3>1
      <4> QED
        BY <4>1 DEF Get, Named
    <3>3. Get(n) = c.shown[n]
      BY <1>2, <1>4, <3>1, <3>2, ImportAssumption DEF TypeOK, There
    <3> QED
      BY <1>3, <1>4, <1>5, <2>2, <3>3 DEF Import
  <2> QED
    BY <2>1, <2>2
<1>8. ASSUME NEW m \in Item, Calm(c, m, moved[r])
      PROVE  IF Earlier(d.at, "look", m)
             THEN {d.look[m]} = {c.made[k] : k \in Needs[m]} ELSE d.look[m] = NoRow
  <2>1. Linked(c, m, rows)
    BY <1>1, <1>2, <1>8 DEF OnTheWay
  <2>2. Earlier(d.at, "look", m) <=> Earlier(c.at, "look", m)
    BY <1>6
  <2> QED
    BY <1>5, <2>1, <2>2 DEF Linked
<1>9. Order[c.at].do # "write"
  BY <1>1
<1>10. OnTheWay(d, moved[r], rows)
  BY <1>1, <1>2, <1>3, <1>5, <1>7, <1>8, <1>9, LookStep
<1> QED
  BY <1>1, <1>2, <1>10

LEMMA LookUpWay ==
    ASSUME Consistent, Underway, NEW r \in Request, LookUp(r)
    PROVE  OnTheWay(req'[r], moved'[r], rows')
<1> DEFINE c == req[r]
           n == Order[c.at].item
<1>1. /\ c.pc = "step" /\ c.at <= Len(Order) /\ Order[c.at].do = "look"
      /\ moved' = moved /\ rows' = rows
  BY DEF LookUp, At
<1>2. PICK t \in Needs[n] :
        req' = [req EXCEPT ![r] = [c EXCEPT !.look[n] = Get(Called(c, t)), !.at = c.at + 1]]
  BY DEF LookUp, Set
<1> DEFINE d == [c EXCEPT !.look[n] = Get(Called(c, t)), !.at = c.at + 1]
<1>3. /\ c \in Call /\ req'[r] = d /\ rows \in Database /\ TypeOK
      /\ OnTheWay(c, moved[r], rows)
  BY <1>1, <1>2 DEF Consistent, TypeOK, Call, Underway, Database
<1>4. c \in Import /\ c.at \in 1..Len(Order)
  BY <1>1, <1>3, ImportTyped, OrderTyped DEF Import
<1>5. n \in Item
  BY <1>1, <1>4, ItemAt
<1>6. Needs[n] = {t} /\ Earlier(c.at, "write", t)
  BY <1>1, <1>2, <1>4, OrderAssumption
<1> HIDE DEF n, c
<1>7. /\ d \in Import /\ d.pc = "step" /\ d.shown = c.shown /\ d.sol = c.sol
      /\ d.made = c.made /\ d.at = c.at + 1 /\ d.found = c.found
      /\ d.look = [c.look EXCEPT ![n] = Get(Called(c, t))]
  <2>1. c.at + 1 \in 1..(Len(Order) + 1) /\ Get(Called(c, t)) \in RowOrNot
    BY <1>4, GetNamed, OrderTyped
  <2> QED
    BY <1>1, <1>4, <1>5, <2>1 DEF Import
<1> HIDE DEF d
<1>8. \A do, m : Earlier(d.at, do, m) <=> Earlier(c.at, do, m) \/ ("look" = do /\ n = m)
  <2>1. \A do, m : Earlier(c.at + 1, do, m)
                     <=> Earlier(c.at, do, m) \/ (Order[c.at].do = do /\ Order[c.at].item = m)
    BY <1>4, EarlierNext, Zenon
  <2> QED
    BY <1>1, <1>7, <2>1 DEF n
<1>9. ASSUME NEW m \in Item, Certain(c, m, moved[r]), c.shown[m] # NoRow, Earlier(d.at, "find", m)
      PROVE  d.found[m] = c.shown[m]
  <2>1. Dealt(c, m, rows)
    BY <1>1, <1>3, <1>9 DEF OnTheWay
  <2>2. Earlier(c.at, "find", m)
    BY <1>8, <1>9
  <2> QED
    BY <1>7, <1>9, <2>1, <2>2 DEF Dealt
<1>10. ASSUME NEW m \in Item, Calm(c, m, moved[r])
       PROVE  IF Earlier(d.at, "look", m)
              THEN {d.look[m]} = {c.made[k] : k \in Needs[m]} ELSE d.look[m] = NoRow
  <2>1. Linked(c, m, rows)
    BY <1>1, <1>3, <1>10 DEF OnTheWay
  <2>2. CASE m # n
    <3>1. Earlier(d.at, "look", m) <=> Earlier(c.at, "look", m)
      BY <1>8, <2>2
    <3>2. d.look[m] = c.look[m]
      BY <1>4, <1>7, <2>2 DEF Import
    <3> QED
      BY <2>1, <3>1, <3>2 DEF Linked
  <2>3. CASE m = n
    <3>1. t \in Item /\ Certain(c, t, moved[r]) /\ Dealt(c, t, rows)
      BY <1>1, <1>2, <1>3, <1>5, <1>10, <2>3, CalmIsCertain DEF OnTheWay
    <3>2. /\ c.made[t] \in Row /\ rows[c.made[t]].name = Called(c, t) /\ Called(c, t) \in Name
      BY <1>4, <1>6, <3>1, CalledRelied DEF Dealt, Import, RowOrNot
    <3>3. Get(Called(c, t)) \in Row /\ rows[Get(Called(c, t))].name = Called(c, t)
      <4>1. \E o \in Row : rows[o].name = Called(c, t)
        BY <3>2
      <4> QED
        BY <4>1 DEF Get, Named
    <3>4. Get(Called(c, t)) = c.made[t]
      BY <1>3, <3>2, <3>3, ImportAssumption DEF TypeOK, There
    <3>5. d.look[n] = c.made[t]
      BY <1>4, <1>5, <1>7, <3>4 DEF Import
    <3>6. Earlier(d.at, "look", n)
      BY <1>8
    <3> QED
      BY <1>6, <2>3, <3>5, <3>6
  <2> QED
    BY <2>2, <2>3
<1>11. Order[c.at].do # "write"
  BY <1>1
<1> QED
  BY <1>1, <1>3, <1>4, <1>7, <1>9, <1>10, <1>11, LookStep

LEMMA SkipItemWay ==
    ASSUME Consistent, Underway, NEW r \in Request, SkipItem(r)
    PROVE  OnTheWay(req'[r], moved'[r], rows')
<1> DEFINE c == req[r]
           n == Order[c.at].item
           v == c.found[n]
           d == [c EXCEPT !.made[n] = v, !.at = c.at + 1]
<1>1. /\ At(r, "write") /\ v # NoRow /\ c.sol[n] = "skip"
      /\ req' = [req EXCEPT ![r] = d] /\ moved' = moved /\ rows' = rows
  BY DEF SkipItem, Set
<1>2. req'[r] = d
  BY <1>1 DEF Consistent, TypeOK
<1>3. /\ c \in Import /\ c.pc = "step" /\ c.at <= Len(Order) /\ n \in Item
      /\ Order[c.at].do = "write" /\ rows \in Database
      /\ OnTheWay(c, moved[r], rows)
  BY <1>1, AtWrite
<1>4. Certain(c, n, moved[r]) =>
         /\ Dealt(c, n, rows)
         /\ c.shown[n] # NoRow => c.found[n] = c.shown[n] /\ rows[c.shown[n]].name = n
         /\ c.shown[n] = NoRow => c.found[n] = c.made[n]
  BY <1>1, AtWrite
<1>5. Calm(c, n, moved[r]) => Certain(c, n, moved[r]) /\ Linked(c, n, rows)
  BY <1>1, <1>3, AtWrite, CalmIsCertain
<1>6. Order[c.at].item = n
  OBVIOUS
<1> HIDE DEF n, c
<1>7. v \in RowOrNot /\ c.at + 1 \in 1..(Len(Order) + 1)
  BY <1>3, OrderTyped DEF Import
<1> HIDE DEF v
<1>8. /\ d \in Import /\ d.pc = "step" /\ d.shown = c.shown /\ d.sol = c.sol
      /\ d.found = c.found /\ d.look = c.look
      /\ d.made = [c.made EXCEPT ![n] = v] /\ d.at = c.at + 1
  BY <1>3, <1>7 DEF Import
<1> HIDE DEF d
<1>9. Called(c, n) = n
  BY <1>1, ImportAssumption DEF Called
<1>10. ASSUME Certain(c, n, moved[r])
       PROVE  /\ v # NoRow /\ rows[v].name = Called(c, n)
              /\ c.shown[n] = NoRow => \A p \in Row : rows[p].name = n => p = v
              /\ c.shown[n] # NoRow /\ c.sol[n] \notin Name => v = c.shown[n]
              /\ Brought(c, n) => rows[v].from = "file" \/ (d.pc = "columns" /\ d.row = v)
              /\ c.made[n] # NoRow => v = c.made[n]
  <2>1. CASE c.shown[n] # NoRow
    BY <1>1, <1>4, <1>9, <1>10, <2>1, ImportAssumption DEF Dealt, Brought, v
  <2>2. CASE c.shown[n] = NoRow
    BY <1>1, <1>3, <1>4, <1>10, <2>2 DEF Dealt, v
  <2> QED
    BY <2>1, <2>2
<1>11. ASSUME Calm(c, n, moved[r]), Brought(c, n)
       PROVE  rows[v].uses = {c.made[m] : m \in Needs[n]}
  BY <1>1, <1>4, <1>5, <1>11 DEF Brought, Linked, v
<1>12. OnTheWay(d, moved[r], rows)
  BY <1>3, <1>6, <1>7, <1>8, <1>10, <1>11, WriteStep
<1> QED
  BY <1>1, <1>2, <1>12

LEMMA LoseDashboardWay ==
    ASSUME Consistent, Underway, NEW r \in Request, LoseDashboard(r)
    PROVE  OnTheWay(req'[r], moved'[r], rows')
<1> DEFINE c == req[r]
           n == Order[c.at].item
           name == NewName(c, n)
           d == [c EXCEPT !.made[n] = NoRow, !.row = NoRow, !.grant = name, !.at = c.at + 1,
                          !.pc = IF Kind[n] = "dataset" THEN "columns"
                                 ELSE IF name # NoName THEN "grant" ELSE "step"]
<1>1. /\ At(r, "write") /\ Kind[n] = "dashboard" /\ Links(r, n) = {} /\ name # NoName
      /\ req' = [req EXCEPT ![r] = d] /\ moved' = moved /\ rows' = rows
  BY DEF LoseDashboard, Wrote, Set
<1>2. req'[r] = d
  BY <1>1 DEF Consistent, TypeOK
<1>3. /\ c \in Import /\ c.pc = "step" /\ c.at <= Len(Order) /\ n \in Item
      /\ Order[c.at].do = "write" /\ rows \in Database
      /\ OnTheWay(c, moved[r], rows)
      /\ Calm(c, n, moved[r]) => Links(r, n) = {c.made[m] : m \in Needs[n]}
  BY <1>1, AtWrite
<1>4. ~Certain(c, n, moved[r]) /\ ~Calm(c, n, moved[r])
  BY <1>1, <1>3 DEF Certain, Calm
<1>5. Order[c.at].item = n
  OBVIOUS
<1>6. name \in Name
  BY <1>1, <1>3, ImportAssumption DEF NewName
<1> HIDE DEF n, c, name
<1>7. NoRow \in RowOrNot /\ c.at + 1 \in 1..(Len(Order) + 1)
  BY <1>3, OrderTyped DEF Import, RowOrNot
<1>8. /\ d \in Import /\ d.pc \in {"step", "columns", "grant"}
      /\ d.shown = c.shown /\ d.sol = c.sol /\ d.found = c.found /\ d.look = c.look
      /\ d.made = [c.made EXCEPT ![n] = NoRow] /\ d.at = c.at + 1
  BY <1>3, <1>6, <1>7 DEF Import
<1> HIDE DEF d
<1>9. OnTheWay(d, moved[r], rows)
  BY <1>3, <1>4, <1>5, <1>7, <1>8, WriteStep
<1> QED
  BY <1>1, <1>2, <1>9

(* A record that says that n was written as o, under this name.            *)
LEMMA WroteAs ==
    ASSUME Consistent, NEW r \in Request, req[r] \in Import, req[r].at <= Len(Order),
           NEW n \in Item, NEW o \in Row, NEW granted \in Name \cup {NoName},
           Wrote(r, n, o, granted)
    PROVE  LET c == req[r] d == req'[r] IN
           /\ d \in Import /\ d.pc \in {"step", "columns", "grant"}
           /\ d.shown = c.shown /\ d.sol = c.sol /\ d.found = c.found /\ d.look = c.look
           /\ d.made = [c.made EXCEPT ![n] = o] /\ d.at = c.at + 1 /\ d.row = o
           /\ Kind[n] = "dataset" => d.pc = "columns"
<1> DEFINE c == req[r]
           d == [c EXCEPT !.made[n] = o, !.row = o, !.grant = granted, !.at = c.at + 1,
                          !.pc = IF Kind[n] = "dataset" THEN "columns"
                                 ELSE IF granted # NoName THEN "grant" ELSE "step"]
<1>1. req'[r] = d
  BY DEF Wrote, Set, Consistent, TypeOK
<1>2. o \in RowOrNot /\ c.at + 1 \in 1..(Len(Order) + 1)
  BY OrderTyped DEF Import, RowOrNot
<1>3. c \in Import
  OBVIOUS
<1> HIDE DEF c
<1>4. /\ d \in Import /\ d.pc \in {"step", "columns", "grant"}
      /\ d.shown = c.shown /\ d.sol = c.sol /\ d.found = c.found /\ d.look = c.look
      /\ d.made = [c.made EXCEPT ![n] = o] /\ d.at = c.at + 1 /\ d.row = o
      /\ Kind[n] = "dataset" => d.pc = "columns"
  BY <1>2, <1>3 DEF Import
<1> QED
  BY <1>1, <1>4 DEF c

LEMMA AddItemWay ==
    ASSUME Consistent, Underway, NEW r \in Request, AddItem(r)
    PROVE  OnTheWay(req'[r], moved'[r], rows')
<1> DEFINE c == req[r]
           n == Order[c.at].item
           name == NewName(c, n)
           o == Fresh
           b == Written(r, n, name)
           d == req'[r]
<1>1. /\ At(r, "write") /\ name # NoName
      /\ Named(name) \subseteq {NoRow} /\ o # NoRow
      /\ rows' = [rows EXCEPT ![o] = b] /\ Wrote(r, n, o, name)
      /\ moved'[r] = moved[r]
  BY DEF AddItem, Accepted, Move
<1>2. /\ c \in Import /\ c.pc = "step" /\ c.at <= Len(Order) /\ n \in Item
      /\ Order[c.at].do = "write" /\ rows \in Database
      /\ OnTheWay(c, moved[r], rows)
  BY <1>1, AtWrite
<1>3. Certain(c, n, moved[r]) =>
         /\ Dealt(c, n, rows) /\ n \notin moved[r]
         /\ c.shown[n] # NoRow => c.found[n] = c.shown[n] /\ rows[c.shown[n]].name = n
         /\ c.shown[n] = NoRow => c.sol[n] = "skip" /\ Called(c, n) = n
         /\ c.shown[n] = NoRow /\ c.found[n] # NoRow => c.found[n] = c.made[n]
  <2>1. Certain(c, n, moved[r]) =>
           /\ Dealt(c, n, rows) /\ n \notin moved[r]
           /\ c.shown[n] # NoRow => c.found[n] = c.shown[n] /\ rows[c.shown[n]].name = n
    BY <1>1, AtWrite
  <2>2. Certain(c, n, moved[r]) /\ c.shown[n] = NoRow =>
           /\ c.sol[n] = "skip" /\ Called(c, n) = n
           /\ c.found[n] # NoRow => c.found[n] = c.made[n]
    BY <1>1, AtWrite
  <2> QED
    BY <2>1, <2>2
<1>4. Calm(c, n, moved[r]) =>
         /\ Linked(c, n, rows) /\ Links(r, n) = {c.made[m] : m \in Needs[n]}
  BY <1>1, AtWrite
<1>5. Order[c.at].item = n
  OBVIOUS
<1>6. name \in Name /\ o \in Row /\ rows[o] = NoBody /\ NoBody.name = NoName
  BY <1>1, <1>2, FreshUnborn, ImportAssumption DEF NewName, NoBody
<1>7. /\ d \in Import /\ d.pc \in {"step", "columns", "grant"}
      /\ d.shown = c.shown /\ d.sol = c.sol /\ d.found = c.found /\ d.look = c.look
      /\ d.made = [c.made EXCEPT ![n] = o] /\ d.at = c.at + 1 /\ d.row = o
      /\ Kind[n] = "dataset" => d.pc = "columns"
  BY <1>1, <1>2, <1>6, WroteAs
<1>8. /\ b \in Body /\ b.name = name /\ b.uses = Links(r, n)
      /\ b.from = "file" \/ Kind[n] = "dataset"
  BY <1>2, <1>6, WrittenTyped DEF Written
<1>9. name = NewName(c, n)
  OBVIOUS
<1> HIDE DEF n, c, name, o, b, d
<1>10. /\ rows' \in Database /\ rows'[o] = b
       /\ \A p \in Row : p # o => rows'[p] = rows[p]
       /\ \A p \in Row : rows[p].name # name
  BY <1>1, <1>2, <1>6, <1>8, ImportAssumption DEF Database, Named
<1>11. ASSUME NEW m \in Item, m # n, Certain(c, m, moved[r])
       PROVE  /\ \A p \in Row : rows'[p].name = m => rows[p].name = m
              /\ c.made[m] # NoRow => rows'[c.made[m]] = rows[c.made[m]]
  <2>1. name # m
    BY <1>2, <1>9, <1>11, <1>1 DEF NewName, Certain, Spared
  <2>2. c.made[m] # NoRow => c.made[m] \in Row /\ rows[c.made[m]].name = Called(c, m)
    BY <1>2, <1>11 DEF OnTheWay, Dealt, Import, RowOrNot
  <2>3. Called(c, m) # NoName
    BY <1>2, <1>11, CalledRelied, ImportAssumption
  <2> QED
    BY <1>6, <1>8, <1>10, <2>1, <2>2, <2>3
<1>12. ASSUME Certain(c, n, moved[r])
       PROVE  name = Called(c, n) /\ c.made[n] = NoRow
              /\ (c.shown[n] # NoRow => c.sol[n] \in Name)
              /\ (c.shown[n] = NoRow => name = n)
  <2>1. Called(c, n) = name /\ (c.shown[n] # NoRow => c.sol[n] \in Name)
        /\ (c.shown[n] = NoRow => name = n)
    BY <1>1, <1>3, <1>9, <1>12, ImportAssumption DEF NewName, Called
  <2>2. c.made[n] # NoRow => c.made[n] \in Row /\ rows[c.made[n]].name = Called(c, n)
    BY <1>2, <1>3, <1>12 DEF Dealt, Import, RowOrNot
  <2> QED
    BY <1>10, <2>1, <2>2
<1>13. ASSUME Certain(c, n, moved[r])
       PROVE  /\ o # NoRow /\ rows'[o].name = Called(c, n)
              /\ c.shown[n] = NoRow => \A p \in Row : rows'[p].name = n => p = o
              /\ c.shown[n] # NoRow /\ c.sol[n] \notin Name => o = c.shown[n]
              /\ Brought(c, n) => rows'[o].from = "file" \/ (d.pc = "columns" /\ d.row = o)
              /\ c.made[n] # NoRow => o = c.made[n]
  BY <1>1, <1>7, <1>8, <1>10, <1>12, <1>13
<1>14. ASSUME Calm(c, n, moved[r])
       PROVE  rows'[o].uses = {c.made[m] : m \in Needs[n]}
  BY <1>4, <1>8, <1>10, <1>14
<1>15. o \in RowOrNot
  BY <1>6 DEF RowOrNot
<1>16. OnTheWay(d, moved[r], rows')
  BY <1>2, <1>5, <1>7, <1>10, <1>11, <1>13, <1>14, <1>15, WriteStep
<1> QED
  BY <1>1, <1>16 DEF d

LEMMA OverwriteItemWay ==
    ASSUME Consistent, Underway, NEW r \in Request, OverwriteItem(r)
    PROVE  OnTheWay(req'[r], moved'[r], rows')
<1> DEFINE c == req[r]
           n == Order[c.at].item
           o == c.found[n]
           b == Written(r, n, n)
           d == req'[r]
<1>1. /\ At(r, "write") /\ o \in There /\ c.sol[n] = "overwrite"
      /\ Named(n) \subseteq {o}
      /\ rows' = [rows EXCEPT ![o] = b] /\ Wrote(r, n, o, NoName)
      /\ moved'[r] = moved[r]
  BY DEF OverwriteItem, Overwrites, Accepted, Move
<1>2. /\ c \in Import /\ c.pc = "step" /\ c.at <= Len(Order) /\ n \in Item
      /\ Order[c.at].do = "write" /\ rows \in Database
      /\ OnTheWay(c, moved[r], rows) /\ Remembered(c, moved[r], rows)
  BY <1>1, AtWrite
<1>3. Certain(c, n, moved[r]) =>
         /\ Dealt(c, n, rows)
         /\ c.shown[n] # NoRow => c.found[n] = c.shown[n]
  BY <1>1, AtWrite
<1>4. Calm(c, n, moved[r]) =>
         /\ Linked(c, n, rows) /\ Links(r, n) = {c.made[m] : m \in Needs[n]}
  BY <1>1, AtWrite
<1>5. Order[c.at].item = n
  OBVIOUS
<1>6. n \in Name /\ o \in Row /\ rows[o].name # NoName /\ o # NoRow
  BY <1>1, <1>2, ImportAssumption DEF There
<1>7. /\ d \in Import /\ d.pc \in {"step", "columns", "grant"}
      /\ d.shown = c.shown /\ d.sol = c.sol /\ d.found = c.found /\ d.look = c.look
      /\ d.made = [c.made EXCEPT ![n] = o] /\ d.at = c.at + 1 /\ d.row = o
      /\ Kind[n] = "dataset" => d.pc = "columns"
  BY <1>1, <1>2, <1>6, WroteAs
<1>8. /\ b \in Body /\ b.name = n /\ b.uses = Links(r, n)
      /\ b.from = "file" \/ Kind[n] = "dataset"
  BY <1>2, <1>6, WrittenTyped DEF Written
<1>9. rows[o].name = n \/ (n \in moved[r] /\ rows[o].name \in moved[r])
  BY <1>1, <1>2, <1>6 DEF Remembered
<1>10. c.shown[n] # NoRow /\ Called(c, n) = n
  BY <1>1, <1>2, ImportAssumption DEF Remembered, Called
<1> HIDE DEF n, c, o, b, d
<1>11. /\ rows' \in Database /\ rows'[o] = b
       /\ \A p \in Row : p # o => rows'[p] = rows[p]
  BY <1>1, <1>2, <1>6, <1>8 DEF Database
<1>12. ASSUME NEW m \in Item, m # n, Certain(c, m, moved[r])
       PROVE  /\ \A p \in Row : rows'[p].name = m => rows[p].name = m
              /\ c.made[m] # NoRow => rows'[c.made[m]] = rows[c.made[m]]
  <2>1. c.made[m] # NoRow => c.made[m] \in Row /\ rows[c.made[m]].name = Called(c, m)
    BY <1>2, <1>12 DEF OnTheWay, Dealt, Import, RowOrNot
  <2>2. Called(c, m) \notin moved[r]
    BY <1>2, <1>12, CalledRelied
  <2>3. Called(c, m) # n
    <3> SUFFICES ASSUME Called(c, m) = n PROVE FALSE
      OBVIOUS
    <3>1. c.sol[m] = n
      BY <1>12 DEF Called
    <3> QED
      BY <1>2, <1>10, <2>2, <3>1 DEF OnTheWay, Fits
  <2>4. c.made[m] # NoRow => c.made[m] # o
    BY <1>9, <2>1, <2>2, <2>3
  <2> QED
    BY <1>8, <1>11, <1>12, <2>1, <2>4
<1>13. ASSUME Certain(c, n, moved[r])
       PROVE  /\ o # NoRow /\ rows'[o].name = Called(c, n)
              /\ c.shown[n] = NoRow => \A p \in Row : rows'[p].name = n => p = o
              /\ c.shown[n] # NoRow /\ c.sol[n] \notin Name => o = c.shown[n]
              /\ Brought(c, n) => rows'[o].from = "file" \/ (d.pc = "columns" /\ d.row = o)
              /\ c.made[n] # NoRow => o = c.made[n]
  <2>1. o = c.shown[n] /\ c.sol[n] \notin Name
    BY <1>1, <1>3, <1>10, <1>13, ImportAssumption DEF o
  <2>2. c.made[n] # NoRow => c.made[n] = c.shown[n]
    BY <1>3, <1>10, <1>13, <2>1 DEF Dealt
  <2> QED
    BY <1>6, <1>7, <1>8, <1>10, <1>11, <2>1, <2>2
<1>14. ASSUME Calm(c, n, moved[r])
       PROVE  rows'[o].uses = {c.made[m] : m \in Needs[n]}
  BY <1>4, <1>8, <1>11, <1>14
<1>15. o \in RowOrNot
  BY <1>6 DEF RowOrNot
<1>16. OnTheWay(d, moved[r], rows')
  BY <1>2, <1>5, <1>7, <1>11, <1>12, <1>13, <1>14, <1>15, WriteStep
<1> QED
  BY <1>1, <1>16 DEF d

LEMMA WriteColumnsWay ==
    ASSUME Consistent, Underway, NEW r \in Request, WriteColumns(r)
    PROVE  OnTheWay(req'[r], moved'[r], rows')
<1> DEFINE c == req[r]
           o == c.row
           d == [c EXCEPT !.pc = IF c.grant = NoName THEN "step" ELSE "grant"]
<1>1. /\ c.pc = "columns" /\ o \in There
      /\ rows' = [rows EXCEPT ![o].from = "file"] /\ req' = [req EXCEPT ![r] = d]
      /\ moved' = moved
  BY DEF WriteColumns, Set
<1>2. /\ c \in Import /\ req'[r] = d /\ rows \in Database
      /\ OnTheWay(c, moved[r], rows)
  BY <1>1, ImportTyped DEF Consistent, TypeOK, Call, Underway, Database
<1>3. /\ d.pc \in {"step", "grant"} /\ d.shown = c.shown /\ d.sol = c.sol /\ d.at = c.at
      /\ d.found = c.found /\ d.look = c.look /\ d.made = c.made
  BY <1>2 DEF Import
<1>4. o \in Row /\ rows[o] \in Body
  BY <1>1, RowTyped DEF There, Consistent
<1> HIDE DEF c, d, o
<1>5. /\ \A p \in Row : rows'[p].name = rows[p].name /\ rows'[p].uses = rows[p].uses
      /\ \A p \in Row : p = o \/ rows[p].from = "file" => rows'[p].from = "file"
  BY <1>1, <1>2, <1>4 DEF Database, Body
<1>6. /\ Fits(d, moved[r])
      /\ \A m \in Item : /\ Certain(d, m, moved[r]) => Certain(c, m, moved[r])
                         /\ Calm(d, m, moved[r]) => Calm(c, m, moved[r])
                         /\ Called(d, m) = Called(c, m)
                         /\ Brought(d, m) <=> Brought(c, m)
  BY <1>2, <1>3 DEF OnTheWay, Fits, Certain, Calm, Spared, Relied, Called, Brought
<1>7. ASSUME NEW m \in Item, Certain(d, m, moved[r])
      PROVE  Dealt(d, m, rows')
  <2>1. Dealt(c, m, rows)
    BY <1>1, <1>2, <1>6, <1>7 DEF OnTheWay
  <2>2. c.made[m] # NoRow => c.made[m] \in Row
    BY <1>2 DEF Import, RowOrNot
  <2> QED
    BY <1>3, <1>5, <1>6, <2>1, <2>2 DEF Dealt, o
<1>8. ASSUME NEW m \in Item, Calm(d, m, moved[r])
      PROVE  Linked(d, m, rows')
  <2>1. Linked(c, m, rows)
    BY <1>1, <1>2, <1>6, <1>8 DEF OnTheWay
  <2>2. c.made[m] # NoRow => c.made[m] \in Row
    BY <1>2 DEF Import, RowOrNot
  <2> QED
    BY <1>3, <1>5, <1>6, <2>1, <2>2 DEF Linked
<1> QED
  BY <1>1, <1>2, <1>3, <1>6, <1>7, <1>8 DEF OnTheWay

LEMMA GrantOwnerWay ==
    ASSUME Consistent, Underway, NEW r \in Request, GrantOwner(r)
    PROVE  OnTheWay(req'[r], moved'[r], rows')
<1> DEFINE c == req[r]
           d == [c EXCEPT !.pc = "step", !.grant = NoName]
<1>1. c.pc = "grant" /\ req' = [req EXCEPT ![r] = d] /\ moved' = moved /\ rows' = rows
  BY DEF GrantOwner, Set
<1>2. c \in Import /\ req'[r] = d /\ OnTheWay(c, moved[r], rows)
  BY <1>1, ImportTyped DEF Consistent, TypeOK, Call, Underway
<1>3. /\ d.pc = "step" /\ d.shown = c.shown /\ d.sol = c.sol /\ d.at = c.at
      /\ d.found = c.found /\ d.look = c.look /\ d.made = c.made
  BY <1>2 DEF Import
<1> HIDE DEF c, d
<1>4. /\ Fits(d, moved[r])
      /\ \A m \in Item : /\ Certain(d, m, moved[r]) => Certain(c, m, moved[r])
                         /\ Calm(d, m, moved[r]) => Calm(c, m, moved[r])
                         /\ Called(d, m) = Called(c, m)
                         /\ Brought(d, m) <=> Brought(c, m)
  BY <1>2, <1>3 DEF OnTheWay, Fits, Certain, Calm, Spared, Relied, Called, Brought
<1>5. ASSUME NEW m \in Item
      PROVE  /\ Certain(d, m, moved[r]) => Dealt(d, m, rows)
             /\ Calm(d, m, moved[r]) => Linked(d, m, rows)
  <2>1. /\ Certain(c, m, moved[r]) => Dealt(c, m, rows)
        /\ Calm(c, m, moved[r]) => Linked(c, m, rows)
    BY <1>1, <1>2 DEF OnTheWay
  <2>2. Dealt(c, m, rows) => Dealt(d, m, rows)
    BY <1>1, <1>3, <1>4 DEF Dealt
  <2>3. Linked(c, m, rows) => Linked(d, m, rows)
    BY <1>3, <1>4 DEF Linked
  <2> QED
    BY <1>4, <2>1, <2>2, <2>3
<1> QED
  BY <1>1, <1>2, <1>3, <1>4, <1>5 DEF OnTheWay

(* The step of another request or user.                                    *)
LEMMA OthersWay ==
    ASSUME Consistent, Underway, NEW s \in Request, req'[s] = req[s],
           NEW N \in SUBSET Name, moved'[s] = moved[s] \cup N,
           \A o \in Row : rows[o].name \in Name \ N =>
              /\ rows'[o].name = rows[o].name
              /\ rows[o].from = "file" => rows'[o].from = "file"
              /\ rows'[o].uses \subseteq rows[o].uses
              /\ \A p \in rows[o].uses : rows[p].name \in Name \ N => p \in rows'[o].uses,
           \A o \in Row : rows'[o].name \in Name \ N => rows[o].name = rows'[o].name
    PROVE  OnTheWay(req'[s], moved'[s], rows')
<1>1. /\ req[s] \in Call /\ rows \in Database /\ OnTheWay(req[s], moved[s], rows)
  BY DEF Consistent, TypeOK, Call, Underway, Database
<1>2. moved[s] \subseteq moved'[s] /\ Name \ moved'[s] \subseteq Name \ N
  OBVIOUS
<1>3. OnTheWay(req[s], moved'[s], rows')
  BY <1>1, <1>2, OnTheWayStays
<1> QED
  BY <1>3

LEMMA OthersKeptWay ==
    ASSUME Consistent, Underway, NEW s \in Request, req'[s] = req[s],
           NEW N \in SUBSET Name, moved'[s] = moved[s] \cup N,
           \A o \in Row : rows[o].name \in Name \ N => rows'[o] = rows[o],
           \A o \in Row : rows'[o].name \in Name \ N => rows[o].name = rows'[o].name
    PROVE  OnTheWay(req'[s], moved'[s], rows')
<1>1. \A o \in Row : rows[o].name \in Name \ N =>
         /\ rows'[o].name = rows[o].name
         /\ rows[o].from = "file" => rows'[o].from = "file"
         /\ rows'[o].uses \subseteq rows[o].uses
         /\ \A p \in rows[o].uses : rows[p].name \in Name \ N => p \in rows'[o].uses
  OBVIOUS
<1> QED
  BY <1>1, OthersWay

(* What a request does to the others: it changes one row at most, which    *)
(* was not there, changes hands, or gets its columns.                      *)
LEMMA RequestOthers ==
    ASSUME Consistent, Underway, NEW r \in Request, NEW s \in Request, s # r,
           \/ BeforeImport(r) \/ StartImport(r)
           \/ FindItem(r) \/ LookUp(r)
           \/ AddItem(r) \/ LoseDashboard(r) \/ OverwriteItem(r) \/ SkipItem(r)
           \/ WriteColumns(r) \/ GrantOwner(r) \/ AnswerImport(r) \/ Fail(r)
    PROVE  OnTheWay(req'[s], moved'[s], rows')
<1>1. /\ req \in [Request -> Call] /\ moved \in [Request -> SUBSET Name]
      /\ rows \in Database /\ TypeOK
  BY DEF Consistent, TypeOK, Call, Database
<1>2. req'[s] = req[s]
  BY <1>1 DEF BeforeImport, StartImport, FindItem, LookUp, AddItem, LoseDashboard,
      OverwriteItem, SkipItem, WriteColumns, GrantOwner, AnswerImport, Fail, Wrote, Set
<1>3. CASE \/ BeforeImport(r) \/ StartImport(r) \/ FindItem(r) \/ LookUp(r) \/ SkipItem(r)
           \/ LoseDashboard(r) \/ GrantOwner(r) \/ AnswerImport(r) \/ Fail(r)
  <2>1. rows' = rows /\ moved'[s] = moved[s]
    BY <1>1, <1>3 DEF BeforeImport, StartImport, FindItem, LookUp, SkipItem, LoseDashboard,
       GrantOwner, AnswerImport, Fail
  <2> QED
    BY <1>2, <2>1 DEF Underway
<1>4. CASE AddItem(r)
  <2>1. PICK n : At(r, "write") /\ n = Order[req[r].at].item
    BY <1>4 DEF AddItem
  <2> DEFINE name == NewName(req[r], n)
  <2>2. /\ name # NoName /\ Fresh # NoRow
        /\ rows' = [rows EXCEPT ![Fresh] = Written(r, n, name)]
        /\ moved'[s] = moved[s] \cup {name}
    BY <1>1, <1>4, <2>1 DEF AddItem, Move
  <2>3. n \in Item
    BY <2>1, AtWrite
  <2>4. name \in Name /\ Written(r, n, name).name = name
    BY <2>2, <2>3, ImportAssumption DEF NewName, Written
  <2>5. Fresh \in Row /\ rows[Fresh].name = NoName
    BY <2>2, FreshUnborn DEF NoBody
  <2> HIDE DEF name
  <2>6. /\ rows'[Fresh].name = name
        /\ \A p \in Row : p # Fresh => rows'[p] = rows[p]
    BY <1>1, <2>2, <2>4, <2>5 DEF Database
  <2>7. {name} \in SUBSET Name
    BY <2>4
  <2>8. /\ \A o \in Row : rows[o].name \in Name \ {name} => rows'[o] = rows[o]
        /\ \A o \in Row : rows'[o].name \in Name \ {name} => rows[o].name = rows'[o].name
    BY <2>5, <2>6, ImportAssumption
  <2> QED
    BY <1>2, <2>2, <2>7, <2>8, OthersKeptWay
<1>5. CASE OverwriteItem(r)
  <2>1. PICK n : At(r, "write") /\ n = Order[req[r].at].item
    BY <1>5 DEF OverwriteItem
  <2> DEFINE o == req[r].found[n]
             N == {n, rows[o].name}
  <2>2. /\ o \in There /\ rows' = [rows EXCEPT ![o] = Written(r, n, n)]
        /\ moved'[s] = moved[s] \cup N
    BY <1>1, <1>5, <2>1 DEF OverwriteItem, Move
  <2>3. n \in Item
    BY <2>1, AtWrite
  <2>4. n \in Name /\ Written(r, n, n).name = n
    BY <2>3, ImportAssumption DEF Written
  <2>5. o \in Row /\ rows[o].name \in Name
    BY <1>1, <2>2, RowTyped DEF There, Body
  <2> HIDE DEF o
  <2>6. /\ rows'[o].name = n
        /\ \A p \in Row : p # o => rows'[p] = rows[p]
    BY <1>1, <2>2, <2>4, <2>5 DEF Database
  <2>7. N \in SUBSET Name
    BY <2>4, <2>5
  <2>8. /\ \A p \in Row : rows[p].name \in Name \ N => rows'[p] = rows[p]
        /\ \A p \in Row : rows'[p].name \in Name \ N => rows[p].name = rows'[p].name
    BY <2>5, <2>6
  <2> HIDE DEF N
  <2> QED
    BY <1>2, <2>2, <2>7, <2>8, OthersKeptWay
<1>6. CASE WriteColumns(r)
  <2>1. /\ req[r].row \in There /\ rows' = [rows EXCEPT ![req[r].row].from = "file"]
        /\ moved'[s] = moved[s] \cup {}
    BY <1>6 DEF WriteColumns
  <2>2. req[r].row \in Row /\ rows[req[r].row] \in Body
    BY <1>1, <2>1, RowTyped DEF There
  <2>3. \A p \in Row : /\ rows'[p].name = rows[p].name /\ rows'[p].uses = rows[p].uses
                       /\ rows[p].from = "file" => rows'[p].from = "file"
    BY <1>1, <2>1, <2>2 DEF Database, Body
  <2>4. {} \in SUBSET Name
    OBVIOUS
  <2> QED
    BY <1>2, <2>1, <2>3, <2>4, OthersWay
<1> QED
  BY <1>3, <1>4, <1>5, <1>6

LEMMA UsersWay ==
    ASSUME Consistent, Underway, UserAdds \/ UserRenames \/ UserDeletes, NEW s \in Request
    PROVE  OnTheWay(req'[s], moved'[s], rows')
<1>1. TypeOK /\ rows \in Database /\ req' = req
  BY DEF Consistent, TypeOK, Database, UserAdds, UserRenames, UserDeletes
<1>2. CASE UserAdds
  <2>1. PICK n \in Name : /\ Fresh # NoRow /\ rows' = [rows EXCEPT ![Fresh] = Users(n)]
                          /\ moved' = [r \in Request |-> moved[r] \cup {n}]
    BY <1>2 DEF UserAdds
  <2>2. Fresh \in Row /\ rows[Fresh].name = NoName /\ Users(n).name = n
    BY <2>1, FreshUnborn DEF NoBody, Users
  <2>3. rows'[Fresh].name = n /\ \A p \in Row : p # Fresh => rows'[p] = rows[p]
    BY <1>1, <2>1, <2>2 DEF Database
  <2>4. /\ \A o \in Row : rows[o].name \in Name \ {n} => rows'[o] = rows[o]
        /\ \A o \in Row : rows'[o].name \in Name \ {n} => rows[o].name = rows'[o].name
    BY <2>2, <2>3, ImportAssumption
  <2>5. {n} \in SUBSET Name /\ moved'[s] = moved[s] \cup {n}
    BY <2>1
  <2> QED
    BY <1>1, <2>4, <2>5, OthersKeptWay
<1>3. CASE UserRenames
  <2>1. PICK o \in There, n \in Name :
           /\ rows' = [rows EXCEPT ![o].name = n]
           /\ moved' = [r \in Request |-> moved[r] \cup {n, rows[o].name}]
    BY <1>3 DEF UserRenames
  <2>2. o \in Row /\ rows[o] \in Body /\ rows[o].name \in Name
    BY <1>1, <2>1, RowTyped DEF There, Body
  <2>3. rows'[o].name = n /\ \A p \in Row : p # o => rows'[p] = rows[p]
    BY <1>1, <2>1, <2>2 DEF Database, Body
  <2> DEFINE N == {n, rows[o].name}
  <2>4. N \in SUBSET Name /\ moved'[s] = moved[s] \cup N
    BY <2>1, <2>2
  <2>5. /\ \A p \in Row : rows[p].name \in Name \ N => rows'[p] = rows[p]
        /\ \A p \in Row : rows'[p].name \in Name \ N => rows[p].name = rows'[p].name
    BY <2>2, <2>3
  <2> HIDE DEF N
  <2> QED
    BY <1>1, <2>4, <2>5, OthersKeptWay
<1>4. CASE UserDeletes
  <2>1. PICK o \in There :
           /\ rows' = [p \in Row |-> IF p = o THEN Gone
                                     ELSE [rows[p] EXCEPT !.uses = rows[p].uses \ {o}]]
           /\ moved' = [r \in Request |-> moved[r] \cup {rows[o].name}]
    BY <1>4 DEF UserDeletes
  <2>2. o \in Row /\ rows[o].name \in Name /\ Gone.name = NoName
    BY <1>1, <2>1, RowTyped DEF There, Gone
  <2>3. /\ rows'[o] = Gone
        /\ \A p \in Row : p # o => rows'[p] = [rows[p] EXCEPT !.uses = rows[p].uses \ {o}]
    BY <2>1, <2>2
  <2>4. ASSUME NEW p \in Row, p # o
        PROVE  /\ rows'[p].name = rows[p].name /\ rows'[p].from = rows[p].from
               /\ rows'[p].uses = rows[p].uses \ {o}
    <3>1. rows[p] \in Body \cup {NoBody, Gone}
      BY <1>1 DEF Database
    <3>2. CASE rows[p] \in Body
      BY <2>3, <2>4, <3>2 DEF Body
    <3>3. CASE rows[p] \in {NoBody, Gone}
      BY <2>3, <2>4, <3>3 DEF NoBody, Gone
    <3> QED
      BY <3>1, <3>2, <3>3
  <2> DEFINE N == {rows[o].name}
  <2>5. N \in SUBSET Name /\ moved'[s] = moved[s] \cup N
    BY <2>1, <2>2
  <2>6. ASSUME NEW p \in Row, rows[p].name \in Name \ N
        PROVE  /\ rows'[p].name = rows[p].name
               /\ rows[p].from = "file" => rows'[p].from = "file"
               /\ rows'[p].uses \subseteq rows[p].uses
               /\ \A q \in rows[p].uses : rows[q].name \in Name \ N => q \in rows'[p].uses
    BY <2>4, <2>6
  <2>7. \A p \in Row : rows'[p].name \in Name \ N => rows[p].name = rows'[p].name
    BY <2>2, <2>3, <2>4, ImportAssumption
  <2> HIDE DEF N
  <2> QED
    BY <1>1, <2>5, <2>6, <2>7, OthersWay
<1> QED
  BY <1>2, <1>3, <1>4

LEMMA UnderwayNext == Consistent /\ Underway /\ [Next]_vars => Underway'
<1> SUFFICES ASSUME Consistent, Underway, [Next]_vars, NEW s \in Request
             PROVE  OnTheWay(req'[s], moved'[s], rows')
  BY DEF Underway
<1>1. CASE UNCHANGED vars
  BY <1>1 DEF vars, Underway
<1>2. CASE UserAdds \/ UserRenames \/ UserDeletes
  BY <1>2, UsersWay
<1>3. ASSUME NEW r \in Request,
             \/ BeforeImport(r) \/ StartImport(r)
             \/ FindItem(r) \/ LookUp(r)
             \/ AddItem(r) \/ LoseDashboard(r) \/ OverwriteItem(r) \/ SkipItem(r)
             \/ WriteColumns(r) \/ GrantOwner(r) \/ AnswerImport(r) \/ Fail(r)
      PROVE  OnTheWay(req'[s], moved'[s], rows')
  <2>1. CASE s # r
    BY <1>3, <2>1, RequestOthers
  <2>2. CASE s = r
    <3>1. AnswerImport(r) \/ Fail(r) => req'[r] = Idle
      BY DEF AnswerImport, Fail, Set, Consistent, TypeOK
    <3> QED
      BY <1>3, <2>2, <3>1, IdleOnTheWay, BeforeImportWay, StartImportWay, FindItemWay,
         LookUpWay, AddItemWay, LoseDashboardWay, OverwriteItemWay, SkipItemWay,
         WriteColumnsWay, GrantOwnerWay
  <2> QED
    BY <2>1, <2>2
<1> QED
  BY <1>1, <1>2, <1>3 DEF Next

(* Whatever file is imported, and whoever else is at work: every item an   *)
(* import has passed is as it will have to be at the end, unless one of    *)
(* the names it relies on changed hands (ImportedAsChosen rests on it).    *)
THEOREM UnderwayAlways == Spec => []Underway
<1>1. Init => Underway
  BY IdleOnTheWay DEF Init, Underway
<1> QED
  BY <1>1, UnderwayNext, ConsistentAlways, PTL DEF Spec

(* An import that is done has added, overwritten, renamed or left every    *)
(* item of its file as its user chose, whole and linked to what became of  *)
(* the items it needs, but for names that changed hands meanwhile.         *)
THEOREM ImportedAsChosenAlways == Spec => []ImportedAsChosen
<1>1. ASSUME Consistent, Underway PROVE ImportedAsChosen
  <2> SUFFICES ASSUME NEW r \in Request, Done(r), NEW n \in Item, Calm(req[r], n, moved[r])
               PROVE  LET c == req[r] o == c.made[n] IN
                      /\ o \in There
                      /\ rows[o].name = IF c.sol[n] \in Name THEN c.sol[n] ELSE n
                      /\ c.shown[n] = NoRow \/ c.sol[n] # "skip" =>
                            /\ rows[o].from = "file"
                            /\ rows[o].uses = {c.made[m] : m \in Needs[n]}
                      /\ c.shown[n] # NoRow /\ c.sol[n] \notin Name => o = c.shown[n]
    BY DEF ImportedAsChosen
  <2> DEFINE c == req[r]
  <2>1. c.pc = "step" /\ c.at = Len(Order) + 1 /\ c \in Import
    BY <1>1, ImportTyped DEF Done, Consistent, TypeOK, Call
  <2>2. Certain(c, n, moved[r])
    BY CalmIsCertain
  <2>3. Dealt(c, n, rows) /\ Linked(c, n, rows)
    BY <1>1, <2>1, <2>2 DEF Underway, OnTheWay
  <2>4. Earlier(c.at, "write", n)
    BY <2>1, OrderAssumption
  <2> HIDE DEF c
  <2>5. c.made[n] # NoRow /\ rows[c.made[n]].name = Called(c, n)
    BY <2>3, <2>4 DEF Dealt
  <2>6. c.made[n] \in There
    BY <2>1, <2>2, <2>5, CalledRelied, ImportAssumption DEF There, Import, RowOrNot
  <2> QED
    BY <2>1, <2>3, <2>5, <2>6 DEF Dealt, Linked, Brought, Called, c
<1> QED
  BY <1>1, ConsistentAlways, UnderwayAlways, PTL
=============================================================================
