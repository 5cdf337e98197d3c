--------------------------- MODULE ForestProofs ---------------------------
(* A forest stays a forest: no order of additions, moves and removals puts *)
(* two folders below one another.                                          *)
EXTENDS Forest, TLAPS

Sound == orderly = TRUE => TypeOK /\ Rooted

(* Below(f) is the least closed set with f, and but for f itself every     *)
(* member's parent is a member.                                            *)
LEMMA BelowLeast ==
    ASSUME NEW f \in Folders
    PROVE  /\ f \in Below(f) /\ Below(f) \subseteq Folders
           /\ Closed(Below(f))
           /\ \A S \in SUBSET Folders : f \in S /\ Closed(S) => Below(f) \subseteq S
           /\ \A h \in Below(f) : h # f => parent[h] \in Below(f)
<1> DEFINE B == Below(f)
<1>1. f \in B /\ B \subseteq Folders
  BY DEF Below
<1>2. \A S \in SUBSET Folders : f \in S /\ Closed(S) => B \subseteq S
  BY DEF Below
<1>3. Closed(B)
  BY DEF Below, Closed
<1>4. ASSUME NEW h \in B, h # f, parent[h] \notin B
      PROVE  FALSE
  <2>1. Closed(B \ {h})
    BY <1>3, <1>4 DEF Closed
  <2>2. f \in B \ {h} /\ B \ {h} \in SUBSET Folders
    BY <1>1, <1>4
  <2>3. B \subseteq B \ {h}
    BY <1>2, <2>1, <2>2
  <2> QED
    BY <2>3, <1>4
<1> QED
  BY <1>1, <1>2, <1>3, <1>4

(* A new folder hangs on a folder reached from the root.                   *)
LEMMA AddKeeps ==
    ASSUME TypeOK, Rooted, NEW f, NEW p, Add(f, p)
    PROVE  TypeOK' /\ Rooted'
<1>1. /\ f \in Folder \ Folders /\ p \in Places /\ place' = place
      /\ parent' = [g \in Folders \cup {f} |-> IF g = f THEN p ELSE parent[g]]
  BY DEF Add
<1>2. Folders' = Folders \cup {f} /\ Places' = Places \cup {f}
  BY <1>1 DEF Folders, Places
<1>3. TypeOK'
  BY <1>1, <1>2 DEF TypeOK, Places
<1>4. ASSUME NEW S \in SUBSET Places', Root \in S, Closed(S)'
      PROVE  Folders' \subseteq S
  <2>1. \A g \in Folders : parent'[g] = parent[g]
    BY <1>1
  <2>2. \A g \in Folders : parent[g] \in S => g \in S
    BY <2>1, <1>2, <1>4 DEF Closed
  <2>3. \A g \in Folders : parent[g] \in S \cap Places => g \in S \cap Places
    BY <2>2 DEF Places
  <2>4. Root \in S \cap Places /\ S \cap Places \in SUBSET Places
    BY <1>4 DEF Places
  <2>5. Folders \subseteq S
    BY <2>3, <2>4 DEF Rooted, Closed
  <2>6. p \in S /\ parent'[f] = p /\ f \in Folders'
    BY <2>5, <1>1, <1>2, <1>4 DEF Places
  <2>7. f \in S
    BY <2>6, <1>4 DEF Closed
  <2> QED
    BY <2>5, <2>7, <1>2
<1> QED
  BY <1>3, <1>4 DEF Rooted

(* The folder moved is reached because its new parent is, and is not below *)
(* it; what is below it is reached through it.                             *)
LEMMA MoveKeeps ==
    ASSUME TypeOK, Rooted, NEW f, NEW p, Move(f, p)
    PROVE  TypeOK' /\ Rooted'
<1>1. /\ f \in Folders /\ p \in Places /\ p \notin Below(f) /\ place' = place
      /\ parent' = [parent EXCEPT ![f] = p]
  BY DEF Move
<1>2. Folders' = Folders /\ Places' = Places
  BY <1>1 DEF Folders, Places, TypeOK
<1>3. /\ parent'[f] = p
      /\ \A g \in Folders : g # f => parent'[g] = parent[g]
  BY <1>1 DEF Folders, TypeOK
<1>4. TypeOK'
  <2>1. parent' \in [Folders -> Places]
    BY <1>1 DEF TypeOK
  <2> QED
    BY <2>1, <1>1, <1>2 DEF TypeOK
<1>5. ASSUME NEW S \in SUBSET Places', Root \in S, Closed(S)'
      PROVE  Folders' \subseteq S
  <2> DEFINE B == Below(f)
             Q == {g \in Folders : g \in B => g \in S}
  <2>1. \A g \in Folders : parent'[g] \in S => g \in S
    BY <1>2, <1>5 DEF Closed
  <2>2. Closed(S \cup B)
    <3>1. ASSUME NEW g \in Folders, parent[g] \in S \cup B, g # f
          PROVE  g \in S \cup B
      BY <3>1, <2>1, <1>3, <1>1, BelowLeast DEF Closed
    <3>2. f \in B
      BY <1>1, BelowLeast
    <3> QED
      BY <3>1, <3>2 DEF Closed
  <2>3. Root \in S \cup B /\ S \cup B \in SUBSET Places
    BY <1>1, <1>2, <1>5, BelowLeast DEF Places
  <2>4. Folders \subseteq S \cup B
    BY <2>2, <2>3 DEF Rooted
  <2>5. p \in S
    BY <2>4, <1>1, <1>5 DEF Places
  <2>6. f \in S
    BY <2>1, <2>5, <1>1, <1>3
  <2>7. Closed(Q)
    <3>1. ASSUME NEW g \in Folders, parent[g] \in Q, g \in B, g # f
          PROVE  g \in S
      <4>1. parent[g] \in B
        BY <3>1, <1>1, BelowLeast
      <4>2. parent'[g] \in S
        BY <4>1, <3>1, <1>3
      <4> QED
        BY <4>2, <2>1
    <3> QED
      BY <3>1, <2>6 DEF Closed
  <2>8. B \subseteq Q
    <3>1. f \in Q /\ Q \in SUBSET Folders
      BY <2>6, <1>1
    <3> HIDE DEF Q
    <3> QED
      BY <3>1, <2>7, <1>1, BelowLeast
  <2> QED
    BY <2>4, <2>8, <1>2
<1> QED
  BY <1>4, <1>5 DEF Rooted

(* What is left does not hang on what was removed.                         *)
LEMMA RemoveKeeps ==
    ASSUME TypeOK, Rooted, NEW f, Remove(f)
    PROVE  TypeOK' /\ Rooted'
<1> DEFINE B == Below(f)
<1>1. /\ f \in Folders /\ place' = place
      /\ \A d \in DOMAIN place : place[d] \notin B
      /\ parent' = [g \in Folders \ B |-> parent[g]]
  BY DEF Remove
<1>2. B \subseteq Folders /\ \A g \in Folders : parent[g] \in B => g \in B
  BY <1>1, BelowLeast DEF Closed
<1> HIDE DEF B
<1>3. Folders' = Folders \ B /\ Places' = (Folders \ B) \cup {Root}
  BY <1>1 DEF Folders, Places
<1>4. TypeOK'
  <2>1. \A g \in Folders \ B : parent[g] \in (Folders \ B) \cup {Root}
    BY <1>2 DEF TypeOK, Places
  <2>2. \A d \in DOMAIN place : place[d] \in (Folders \ B) \cup {Root}
    BY <1>1 DEF TypeOK, Places
  <2>3. parent' \in [Folders' -> Places']
    BY <2>1, <1>1, <1>3
  <2>4. place' \in [DOMAIN place' -> Places']
    BY <2>2, <1>1, <1>3 DEF TypeOK
  <2> QED
    BY <2>3, <2>4, <1>1, <1>3 DEF TypeOK
<1>5. ASSUME NEW S \in SUBSET Places', Root \in S, Closed(S)'
      PROVE  Folders' \subseteq S
  <2>1. \A g \in Folders \ B : parent[g] \in S => g \in S
    BY <1>1, <1>3, <1>5 DEF Closed
  <2>2. Closed(S \cup B)
    BY <2>1, <1>2 DEF Closed
  <2>3. Root \in S \cup B /\ S \cup B \in SUBSET Places
    BY <1>2, <1>3, <1>5 DEF Places
  <2>4. Folders \subseteq S \cup B
    BY <2>2, <2>3 DEF Rooted
  <2> QED
    BY <2>4, <1>3
<1> QED
  BY <1>4, <1>5 DEF Rooted

(* Moving dashboards leaves the folders alone.                             *)
LEMMA PlaceKeeps ==
    ASSUME TypeOK, Rooted, NEW d \in Dashboard, NEW p, Put(d, p) \/ Drop(d)
    PROVE  TypeOK' /\ Rooted'
<1>1. parent' = parent /\ Folders' = Folders /\ Places' = Places
  BY DEF Put, Drop, Folders, Places
<1>2. Rooted'
  BY <1>1 DEF Rooted, Closed
<1>3. CASE Put(d, p)
  <2>1. place' \in [DOMAIN place \cup {d} -> Places]
    BY <1>3 DEF Put, TypeOK
  <2> QED
    BY <2>1, <1>1, <1>2 DEF TypeOK
<1>4. CASE Drop(d)
  <2>1. place' \in [DOMAIN place \ {d} -> Places]
    BY <1>4 DEF Drop, TypeOK
  <2> QED
    BY <2>1, <1>1, <1>2 DEF TypeOK
<1> QED
  BY <1>3, <1>4

(* For any number of folders and dashboards: as long as only the steps of  *)
(* the forest are taken, every folder is reached from the root, so that    *)
(* get_children shows every folder and recursion over it ends.             *)
THEOREM ForestStaysRooted == Spec => []Sound
<1>1. Init => Sound
  BY DEF Init, Sound
<1>2. Sound /\ [Next]_vars => Sound'
  <2> SUFFICES ASSUME Sound, [Next]_vars, (orderly = TRUE)'
               PROVE  TypeOK' /\ Rooted'
    BY DEF Sound
  <2>1. CASE UNCHANGED vars
    <3>1. parent' = parent /\ place' = place /\ orderly' = orderly
      BY <2>1 DEF vars
    <3>2. Folders' = Folders /\ Places' = Places
      BY <3>1 DEF Folders, Places
    <3> QED
      BY <3>1, <3>2 DEF Sound, TypeOK, Rooted, Closed
  <2>2. CASE orderly /\ orderly' /\ Step
    <3>1. TypeOK /\ Rooted
      BY <2>2 DEF Sound
    <3> QED
      BY <3>1, <2>2, AddKeeps, MoveKeeps, RemoveKeeps, PlaceKeeps DEF Step
  <2>3. CASE ~orderly'
    BY <2>3
  <2> QED
    BY <2>1, <2>2, <2>3 DEF Next
<1> QED
  BY <1>1, <1>2, PTL DEF Spec
=============================================================================
