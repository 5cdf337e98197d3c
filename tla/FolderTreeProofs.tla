------------------------- MODULE FolderTreeProofs -------------------------
(* The paths of folders form the tree that is shown, and the views change  *)
(* it as Forest says, for every set of ids, in whatever digits.            *)
EXTENDS FolderTree, WellFoundedInduction, FiniteSetTheorems, SequenceTheorems, TLAPS

Less == {ss \in Nat \X Nat : ss[1] < ss[2]}

(* Among natural numbers there is a least one.                             *)
LEMMA LeastNumber ==
    ASSUME NEW T \in SUBSET Nat, T # {}
    PROVE  \E m \in T : \A n \in T : m <= n
<1>1. IsWellFoundedOn(Less, Nat)
  BY NatLessThanWellFounded DEF OpToRel, Less
<1>2. PICK m \in T : \A n \in T : ~(<<n, m>> \in Less)
  BY <1>1, WFMin
<1>3. \A n \in T : ~(n < m)
  BY <1>2 DEF Less
<1> QED
  BY <1>3

-----------------------------------------------------------------------------
(* Text.                                                                   *)

(* An id is a text without slashes, and not empty.                         *)
LEMMA Ids ==
    ASSUME NEW f \in Folder
    PROVE  /\ f \in Text /\ Len(f) \in Nat \ {0} /\ f # Null
           /\ \A i \in 1..Len(f) : f[i] # "/"
<1>1. f \in Seq(Digit) /\ f # <<>>
  BY FolderAssumption
<1>2. f \in Text
  BY <1>1, SeqMonotonic DEF Text
<1>3. Len(f) \in Nat \ {0}
  BY <1>1, EmptySeq
<1>4. \A i \in 1..Len(f) : f[i] \in Digit
  BY <1>1, ElementOfSeq
<1> QED
  BY <1>1, <1>2, <1>3, <1>4, FolderAssumption

LEMMA TextLen ==
    ASSUME NEW p \in Text
    PROVE  Len(p) \in Nat /\ DOMAIN p = 1..Len(p) /\ p # Null
BY LenProperties, FolderAssumption DEF Text

(* Texts are equal if they are of one length and agree at every place.     *)
LEMMA SameText ==
    ASSUME NEW p \in Text, NEW q \in Text, Len(p) = Len(q),
           \A i \in 1..Len(p) : p[i] = q[i]
    PROVE  p = q
BY SeqEqual DEF Text

LEMMA SepText == Sep \in Text /\ Len(Sep) = 1 /\ Sep[1] = "/"
BY DEF Sep, Text

LEMMA Concat ==
    ASSUME NEW p \in Text, NEW q \in Text
    PROVE  /\ p \o q \in Text /\ Len(p \o q) = Len(p) + Len(q)
           /\ \A i \in 1..Len(p) : (p \o q)[i] = p[i]
           /\ \A i \in Len(p) + 1..Len(p) + Len(q) : (p \o q)[i] = q[i - Len(p)]
<1>1. /\ p \o q \in Text /\ Len(p \o q) = Len(p) + Len(q)
      /\ \A i \in 1..Len(p) + Len(q) :
           (p \o q)[i] = IF i <= Len(p) THEN p[i] ELSE q[i - Len(p)]
  BY ConcatProperties DEF Text
<1> QED
  BY <1>1, TextLen

(* A path and what it is made of.                                          *)
LEMMA Joined ==
    ASSUME NEW p \in Text, NEW f \in Folder
    PROVE  /\ Join(p, f) \in Text /\ Len(Join(p, f)) = Len(p) + 1 + Len(f)
           /\ \A i \in 1..Len(p) : Join(p, f)[i] = p[i]
           /\ Join(p, f)[Len(p) + 1] = "/"
           /\ \A i \in 1..Len(f) : Join(p, f)[Len(p) + 1 + i] = f[i]
<1> DEFINE q == p \o Sep
<1>1. Sep \in Text /\ Len(Sep) = 1 /\ Sep[1] = "/" /\ f \in Text
  BY SepText, Ids
<1>2. /\ q \in Text /\ Len(q) = Len(p) + Len(Sep)
      /\ \A i \in 1..Len(p) : q[i] = p[i]
      /\ \A i \in Len(p) + 1..Len(p) + Len(Sep) : q[i] = Sep[i - Len(p)]
  BY <1>1, Concat, Zenon
<1> HIDE DEF q
<1>3. /\ q \o f \in Text /\ Len(q \o f) = Len(q) + Len(f)
      /\ \A i \in 1..Len(q) : (q \o f)[i] = q[i]
      /\ \A i \in Len(q) + 1..Len(q) + Len(f) : (q \o f)[i] = f[i - Len(q)]
  BY <1>1, <1>2, Concat, Zenon
<1>4. Join(p, f) = q \o f
  BY DEF Join, q
<1> DEFINE j == Join(p, f)
<1>5. /\ j \in Text /\ Len(j) = Len(q) + Len(f)
      /\ \A i \in 1..Len(q) : j[i] = q[i]
      /\ \A i \in Len(q) + 1..Len(q) + Len(f) : j[i] = f[i - Len(q)]
  BY <1>3, <1>4, Zenon
<1> HIDE DEF j
<1>6. Len(p) \in Nat /\ Len(f) \in Nat /\ Len(q) = Len(p) + 1
  BY <1>1, <1>2, TextLen
<1>7. q[Len(p) + 1] = "/"
  <2>1. q[Len(p) + 1] = Sep[Len(p) + 1 - Len(p)]
    BY <1>1, <1>2, <1>6
  <2> QED
    BY <2>1, <1>1, <1>6
<1>8. /\ j \in Text /\ Len(j) = Len(p) + 1 + Len(f)
      /\ \A i \in 1..Len(p) : j[i] = p[i]
      /\ j[Len(p) + 1] = "/"
  BY <1>2, <1>5, <1>6, <1>7
<1>9. \A i \in 1..Len(f) : j[Len(p) + 1 + i] = f[i]
  <2> TAKE i \in 1..Len(f)
  <2>1. j[Len(q) + i] = f[Len(q) + i - Len(q)]
    BY <1>5, <1>6
  <2> QED
    BY <2>1, <1>6
<1> QED
  BY <1>8, <1>9 DEF j

LEMMA JoinedLen ==
    ASSUME NEW p \in Text, NEW f \in Folder
    PROVE  Len(Join(p, f)) = Len(p) + 1 + Len(f) /\ Len(f) \in Nat
BY Joined, Ids

(* The pieces of a text.                                                   *)
LEMMA Piece ==
    ASSUME NEW t \in Text, NEW i \in Int, NEW j \in Int, 1 <= i, j <= Len(t)
    PROVE  /\ SubSeq(t, i, j) \in Text
           /\ Len(SubSeq(t, i, j)) = IF i <= j THEN j - i + 1 ELSE 0
           /\ \A k \in 1..j - i + 1 : SubSeq(t, i, j)[k] = t[i + k - 1]
<1>1. \A k \in i..j : t[k] \in Digit \cup {"/"}
  BY ElementOfSeq, TextLen DEF Text
<1> QED
  BY <1>1, SubSeqProperties DEF Text

(* Finding, place by place.                                                *)
LEMMA AtPlaces ==
    ASSUME NEW s \in Text, NEW t \in Text, NEW i \in Nat \ {0}
    PROVE  At(s, t, i) <=> /\ i + Len(s) - 1 <= Len(t)
                           /\ \A k \in 1..Len(s) : t[i + k - 1] = s[k]
<1>1. CASE i + Len(s) - 1 <= Len(t)
  <2> DEFINE u == SubSeq(t, i, i + Len(s) - 1)
  <2>1. Len(s) \in Nat /\ Len(t) \in Nat
    BY TextLen
  <2>2. u \in Text /\ Len(u) = Len(s) /\ \A k \in 1..Len(s) : u[k] = t[i + k - 1]
    BY <1>1, <2>1, Piece
  <2>3. At(s, t, i) <=> u = s
    BY <1>1 DEF At
  <2>4. u = s <=> \A k \in 1..Len(s) : u[k] = s[k]
    BY <2>2, SameText
  <2> QED
    BY <1>1, <2>2, <2>3, <2>4
<1>2. CASE ~(i + Len(s) - 1 <= Len(t))
  BY <1>2 DEF At
<1> QED
  BY <1>1, <1>2

LEMMA PrefixPlaces ==
    ASSUME NEW s \in Text, NEW t \in Text
    PROVE  IsPrefix(s, t) <=> /\ Len(s) <= Len(t)
                              /\ \A k \in 1..Len(s) : s[k] = t[k]
<1>1. CASE Len(s) <= Len(t)
  <2> DEFINE u == SubSeq(s, 1, Len(s))
             v == SubSeq(t, 1, Len(s))
  <2>1. Len(s) \in Nat /\ Len(t) \in Nat
    BY TextLen
  <2>2. u \in Text /\ Len(u) = Len(s) /\ \A k \in 1..Len(s) : u[k] = s[k]
    BY <2>1, Piece
  <2>3. v \in Text /\ Len(v) = Len(s) /\ \A k \in 1..Len(s) : v[k] = t[k]
    BY <1>1, <2>1, Piece
  <2>4. IsPrefix(s, t) <=> u = v
    BY <1>1 DEF IsPrefix
  <2>5. u = v <=> \A k \in 1..Len(s) : u[k] = v[k]
    BY <2>2, <2>3, SameText
  <2> QED
    BY <1>1, <2>2, <2>3, <2>4, <2>5
<1>2. CASE ~(Len(s) <= Len(t))
  BY <1>2 DEF IsPrefix
<1> QED
  BY <1>1, <1>2

-----------------------------------------------------------------------------
(* Paths.                                                                  *)

(* A path shows what it is joined of.                                      *)
LEMMA JoinedOnce ==
    ASSUME NEW p \in Text, NEW q \in Text, NEW f \in Folder, NEW g \in Folder
    PROVE  /\ f # Join(p, g)
           /\ Join(p, f) = Join(q, g) => p = q /\ f = g
<1>1. /\ Len(p) \in Nat /\ Len(q) \in Nat /\ f \in Text /\ g \in Text
      /\ Len(f) \in Nat \ {0} /\ Len(g) \in Nat \ {0}
  BY TextLen, Ids
<1>2. /\ \A i \in 1..Len(f) : f[i] # "/"
      /\ \A i \in 1..Len(g) : g[i] # "/"
  BY Ids
<1> DEFINE j == Join(p, f)
           k == Join(q, g)
           m == Join(p, g)
<1>3. /\ Len(j) = Len(p) + 1 + Len(f) /\ j[Len(p) + 1] = "/"
      /\ \A i \in 1..Len(p) : j[i] = p[i]
      /\ \A i \in 1..Len(f) : j[Len(p) + 1 + i] = f[i]
  BY Joined, Zenon
<1>4. /\ Len(k) = Len(q) + 1 + Len(g) /\ k[Len(q) + 1] = "/"
      /\ \A i \in 1..Len(q) : k[i] = q[i]
      /\ \A i \in 1..Len(g) : k[Len(q) + 1 + i] = g[i]
  BY Joined, Zenon
<1>5. Len(m) = Len(p) + 1 + Len(g) /\ m[Len(p) + 1] = "/"
  BY Joined, Zenon
<1> HIDE DEF j, k, m
<1>6. f # m
  <2> SUFFICES ASSUME f = m PROVE FALSE
    OBVIOUS
  <2>1. Len(p) + 1 \in 1..Len(f)
    BY <1>1, <1>5
  <2> QED
    BY <2>1, <1>2, <1>5
<1>7. ASSUME j = k PROVE p = q /\ f = g
  <2>1. ASSUME Len(p) < Len(q) PROVE FALSE
    <3>1. Len(q) - Len(p) \in 1..Len(f)
      BY <2>1, <1>1, <1>3, <1>4, <1>7
    <3>2. j[Len(p) + 1 + (Len(q) - Len(p))] = f[Len(q) - Len(p)]
      BY <3>1, <1>3
    <3>3. Len(p) + 1 + (Len(q) - Len(p)) = Len(q) + 1
      BY <1>1
    <3> QED
      BY <3>1, <3>2, <3>3, <1>2, <1>4, <1>7
  <2>2. ASSUME Len(q) < Len(p) PROVE FALSE
    <3>1. Len(p) - Len(q) \in 1..Len(g)
      BY <2>2, <1>1, <1>3, <1>4, <1>7
    <3>2. k[Len(q) + 1 + (Len(p) - Len(q))] = g[Len(p) - Len(q)]
      BY <3>1, <1>4
    <3>3. Len(q) + 1 + (Len(p) - Len(q)) = Len(p) + 1
      BY <1>1
    <3> QED
      BY <3>1, <3>2, <3>3, <1>2, <1>3, <1>7
  <2>3. Len(p) = Len(q) /\ Len(f) = Len(g)
    BY <2>1, <2>2, <1>1, <1>3, <1>4, <1>7
  <2>4. p = q
    BY <2>3, <1>3, <1>4, <1>7, SameText
  <2>5. f = g
    BY <2>3, <1>1, <1>3, <1>4, <1>7, SameText
  <2> QED
    BY <2>4, <2>5
<1> QED
  BY <1>6, <1>7 DEF j, k, m

(* The places of the slashes.                                              *)
Slashes(p) == {i \in 1..Len(p) : p[i] = "/"}

LEMMA SlashesFinite ==
    ASSUME NEW p \in Text
    PROVE  IsFiniteSet(Slashes(p)) /\ Depth(p) = Cardinality(Slashes(p)) /\ Depth(p) \in Nat
<1>1. IsFiniteSet(1..Len(p))
  BY TextLen, FS_Interval
<1>2. Slashes(p) \in SUBSET (1..Len(p))
  BY DEF Slashes
<1>3. IsFiniteSet(Slashes(p))
  BY <1>1, <1>2, FS_Subset
<1>4. Depth(p) = Cardinality(Slashes(p))
  BY DEF Depth, Slashes
<1> QED
  BY <1>3, <1>4, FS_CardinalityType

LEMMA DepthOfId ==
    ASSUME NEW f \in Folder
    PROVE  Depth(f) = 0
<1>1. Slashes(f) = {}
  BY Ids DEF Slashes
<1> QED
  BY <1>1, Ids, SlashesFinite, FS_EmptySet

LEMMA DepthOfJoin ==
    ASSUME NEW p \in Text, NEW f \in Folder
    PROVE  Depth(Join(p, f)) = Depth(p) + 1
<1> DEFINE j == Join(p, f)
<1>1. /\ Len(p) \in Nat /\ Len(f) \in Nat
      /\ \A i \in 1..Len(f) : f[i] # "/"
  BY TextLen, Ids
<1>2. /\ Len(j) = Len(p) + 1 + Len(f) /\ j[Len(p) + 1] = "/" /\ j \in Text
      /\ \A i \in 1..Len(p) : j[i] = p[i]
      /\ \A i \in 1..Len(f) : j[Len(p) + 1 + i] = f[i]
  BY Joined, Zenon
<1> HIDE DEF j
<1>3. \A i \in Len(p) + 2..Len(j) : j[i] # "/"
  <2> TAKE i \in Len(p) + 2..Len(j)
  <2>1. i - (Len(p) + 1) \in 1..Len(f) /\ i = Len(p) + 1 + (i - (Len(p) + 1))
    BY <1>1, <1>2
  <2> QED
    BY <2>1, <1>1, <1>2
<1>4. Slashes(j) = Slashes(p) \cup {Len(p) + 1}
  BY <1>1, <1>2, <1>3 DEF Slashes
<1>5. Len(p) + 1 \notin Slashes(p)
  BY <1>1 DEF Slashes
<1>6. IsFiniteSet(Slashes(p))
  BY SlashesFinite
<1>7. Cardinality(Slashes(p) \cup {Len(p) + 1}) = Cardinality(Slashes(p)) + 1
  BY <1>5, <1>6, FS_AddElement
<1>8. Depth(j) = Cardinality(Slashes(j)) /\ Depth(p) = Cardinality(Slashes(p))
  BY <1>2, SlashesFinite
<1> QED
  BY <1>4, <1>7, <1>8 DEF j

(* A path that goes on with a slash is deeper.                             *)
LEMMA DeeperPath ==
    ASSUME NEW p \in Text, NEW q \in Text, Len(p) < Len(q), q[Len(p) + 1] = "/",
           \A i \in 1..Len(p) : q[i] = p[i]
    PROVE  Depth(p) < Depth(q)
<1>1. Len(p) \in Nat /\ Len(q) \in Nat
  BY TextLen
<1>2. Slashes(p) \in SUBSET Slashes(q)
  BY <1>1 DEF Slashes
<1>3. Len(p) + 1 \in Slashes(q) \ Slashes(p)
  BY <1>1 DEF Slashes
<1>4. /\ Cardinality(Slashes(p)) <= Cardinality(Slashes(q))
      /\ Cardinality(Slashes(q)) = Cardinality(Slashes(p)) => Slashes(q) = Slashes(p)
  BY <1>2, SlashesFinite, FS_Subset
<1>5. /\ Depth(p) = Cardinality(Slashes(p)) /\ Depth(p) \in Nat
      /\ Depth(q) = Cardinality(Slashes(q)) /\ Depth(q) \in Nat
  BY SlashesFinite
<1> QED
  BY <1>3, <1>4, <1>5

(* The only path one level up that a path goes on from is its parent's.    *)
LEMMA OneParent ==
    ASSUME NEW p \in Text, NEW q \in Text, NEW f \in Folder
    PROVE  IsPrefix(p \o Sep, Join(q, f)) /\ Depth(Join(q, f)) = Depth(p) + 1
             <=> p = q
<1> DEFINE j == Join(q, f)
           s == p \o Sep
<1>1. /\ Len(p) \in Nat /\ Len(q) \in Nat /\ Len(f) \in Nat
      /\ \A i \in 1..Len(f) : f[i] # "/"
  BY TextLen, Ids
<1>2. /\ Len(j) = Len(q) + 1 + Len(f) /\ j[Len(q) + 1] = "/" /\ j \in Text
      /\ \A i \in 1..Len(q) : j[i] = q[i]
      /\ \A i \in 1..Len(f) : j[Len(q) + 1 + i] = f[i]
  BY Joined, Zenon
<1>3. Sep \in Text /\ Len(Sep) = 1 /\ Sep[1] = "/"
  BY SepText
<1>4. /\ s \in Text /\ Len(s) = Len(p) + Len(Sep)
      /\ \A i \in 1..Len(p) : s[i] = p[i]
      /\ \A i \in Len(p) + 1..Len(p) + Len(Sep) : s[i] = Sep[i - Len(p)]
  BY <1>3, Concat, Zenon
<1>5. Depth(j) = Depth(q) + 1 /\ Depth(q) \in Nat /\ Depth(p) \in Nat
  BY DepthOfJoin, SlashesFinite
<1> HIDE DEF j, s
<1>6. Len(s) = Len(p) + 1 /\ s[Len(p) + 1] = "/"
  <2>1. s[Len(p) + 1] = Sep[Len(p) + 1 - Len(p)]
    BY <1>1, <1>3, <1>4
  <2> QED
    BY <2>1, <1>1, <1>3, <1>4
<1>7. IsPrefix(s, j) <=> /\ Len(s) <= Len(j) /\ \A k \in 1..Len(s) : s[k] = j[k]
  BY <1>2, <1>4, PrefixPlaces
<1>8. ASSUME IsPrefix(s, j), Depth(j) = Depth(p) + 1
      PROVE  p = q
  <2>1. Len(p) + 1 <= Len(j) /\ j[Len(p) + 1] = "/" /\ \A k \in 1..Len(p) : p[k] = j[k]
    BY <1>1, <1>4, <1>6, <1>7, <1>8
  <2>2. Len(p) <= Len(q)
    <3> SUFFICES ASSUME Len(q) < Len(p) PROVE FALSE
      BY <1>1
    <3>1. Len(p) - Len(q) \in 1..Len(f) /\ Len(q) + 1 + (Len(p) - Len(q)) = Len(p) + 1
      BY <1>1, <1>2, <2>1
    <3> QED
      BY <3>1, <2>1, <1>1, <1>2
  <2>3. \A k \in 1..Len(p) : q[k] = p[k]
    BY <2>1, <2>2, <1>1, <1>2
  <2>4. ASSUME Len(p) < Len(q) PROVE FALSE
    <3>1. q[Len(p) + 1] = "/"
      BY <2>1, <2>4, <1>1, <1>2
    <3>2. Depth(p) < Depth(q)
      BY <3>1, <2>3, <2>4, DeeperPath
    <3> QED
      BY <3>2, <1>5, <1>8
  <2> QED
    BY <2>2, <2>3, <2>4, <1>1, SameText
<1>9. ASSUME p = q
      PROVE  IsPrefix(s, j) /\ Depth(j) = Depth(p) + 1
  <2>1. Len(s) <= Len(j)
    BY <1>1, <1>2, <1>6, <1>9
  <2>2. ASSUME NEW k \in 1..Len(s) PROVE s[k] = j[k]
    <3>1. k \in 1..Len(p) \/ k = Len(p) + 1
      BY <1>1, <1>6
    <3>2. \A i \in 1..Len(p) : s[i] = p[i] /\ j[i] = p[i]
      BY <1>2, <1>4, <1>9
    <3> QED
      BY <3>1, <3>2, <1>2, <1>6, <1>9
  <2> QED
    BY <2>1, <2>2, <1>5, <1>7, <1>9
<1> QED
  BY <1>8, <1>9 DEF j, s

LEMMA NotTheLast ==
    ASSUME NEW i \in Int, NEW m \in Int, NEW n \in Int, i + m - 1 <= n, i + m - 1 # n
    PROVE  i + m <= n
OBVIOUS

(* f is written between slashes, or ends, at place i of p.                 *)
IsPart(f, p, i) ==
    /\ i + Len(f) - 1 <= Len(p)
    /\ \A k \in 1..Len(f) : p[i + k - 1] = f[k]
    /\ i = 1 \/ p[i - 1] = "/"
    /\ i + Len(f) - 1 = Len(p) \/ p[i + Len(f)] = "/"

LEMMA Bounded ==
    ASSUME NEW p \in Text
    PROVE  /\ Sep \o p \o Sep \in Text /\ Len(Sep \o p \o Sep) = Len(p) + 2
           /\ (Sep \o p \o Sep)[1] = "/" /\ (Sep \o p \o Sep)[Len(p) + 2] = "/"
           /\ \A i \in 1..Len(p) : (Sep \o p \o Sep)[i + 1] = p[i]
<1> DEFINE s == Sep \o p
           t == s \o Sep
<1>1. Sep \in Text /\ Len(Sep) = 1 /\ Sep[1] = "/" /\ Len(p) \in Nat
  BY SepText, TextLen
<1>2. /\ s \in Text /\ Len(s) = Len(Sep) + Len(p)
      /\ \A i \in 1..Len(Sep) : s[i] = Sep[i]
      /\ \A i \in Len(Sep) + 1..Len(Sep) + Len(p) : s[i] = p[i - Len(Sep)]
  BY <1>1, Concat, Zenon
<1> HIDE DEF s
<1>3. /\ t \in Text /\ Len(t) = Len(s) + Len(Sep)
      /\ \A i \in 1..Len(s) : t[i] = s[i]
      /\ \A i \in Len(s) + 1..Len(s) + Len(Sep) : t[i] = Sep[i - Len(s)]
  BY <1>1, <1>2, Concat, Zenon
<1> HIDE DEF t
<1>4. Len(s) = Len(p) + 1 /\ Len(t) = Len(p) + 2
  BY <1>1, <1>2, <1>3
<1>5. t[1] = "/"
  BY <1>1, <1>2, <1>3, <1>4
<1>6. t[Len(p) + 2] = "/"
  <2>1. t[Len(p) + 2] = Sep[Len(p) + 2 - Len(s)]
    BY <1>1, <1>3, <1>4
  <2> QED
    BY <2>1, <1>1, <1>4
<1>7. ASSUME NEW i \in 1..Len(p) PROVE t[i + 1] = p[i]
  <2>1. t[i + 1] = s[i + 1]
    BY <1>1, <1>3, <1>4
  <2>2. s[i + 1] = p[i + 1 - Len(Sep)]
    BY <1>1, <1>2
  <2> QED
    BY <2>1, <2>2, <1>1
<1> QED
  BY <1>3, <1>4, <1>5, <1>6, <1>7 DEF s, t

LEMMA MentionsPlaces ==
    ASSUME NEW p \in Text, NEW f \in Folder
    PROVE  Mentions(p, f) <=> \E i \in 1..Len(p) : IsPart(f, p, i)
<1> DEFINE s == Sep \o f \o Sep
           t == Sep \o p \o Sep
<1>1. f \in Text /\ p # Null /\ Len(p) \in Nat /\ Len(f) \in Nat \ {0}
  BY TextLen, Ids
<1>2. /\ s \in Text /\ Len(s) = Len(f) + 2
      /\ s[1] = "/" /\ s[Len(f) + 2] = "/"
      /\ \A i \in 1..Len(f) : s[i + 1] = f[i]
  BY <1>1, Bounded, Zenon
<1>3. /\ t \in Text /\ Len(t) = Len(p) + 2
      /\ t[1] = "/" /\ t[Len(p) + 2] = "/"
      /\ \A i \in 1..Len(p) : t[i + 1] = p[i]
  BY Bounded, Zenon
<1>4. Mentions(p, f) <=> \E i \in 1..Len(t) : At(s, t, i)
  BY <1>1 DEF Mentions, Occurs
<1> HIDE DEF s, t
<1>5. \A i \in 1..Len(t) :
        At(s, t, i) <=> /\ i + Len(s) - 1 <= Len(t)
                        /\ \A k \in 1..Len(s) : t[i + k - 1] = s[k]
  <2>1. 1..Len(t) \subseteq Nat \ {0}
    BY <1>1, <1>3
  <2> QED
    BY <2>1, <1>2, <1>3, AtPlaces, Zenon
<1>6. ASSUME NEW i \in 1..Len(p), IsPart(f, p, i)
      PROVE  i \in 1..Len(t) /\ At(s, t, i)
  <2>0. i \in 1..Len(t) /\ i + Len(s) - 1 <= Len(t)
    BY <1>1, <1>2, <1>3, <1>6 DEF IsPart
  <2>1. t[i] = "/"
    <3>1. CASE i = 1
      BY <3>1, <1>3
    <3>2. CASE i # 1
      <4>1. i - 1 \in 1..Len(p) /\ p[i - 1] = "/"
        BY <3>2, <1>1, <1>6 DEF IsPart
      <4> QED
        BY <4>1, <1>1, <1>3
    <3> QED
      BY <3>1, <3>2
  <2>2. t[i + Len(f) + 1] = "/"
    <3>1. CASE i + Len(f) - 1 = Len(p)
      <4>1. i + Len(f) + 1 = Len(p) + 2
        BY <3>1, <1>1
      <4> QED
        BY <4>1, <1>3
    <3>2. CASE i + Len(f) - 1 # Len(p)
      <4>1. p[i + Len(f)] = "/"
        BY <3>2, <1>6 DEF IsPart
      <4>2. i + Len(f) - 1 <= Len(p) /\ i \in Int /\ Len(f) \in Int /\ Len(p) \in Int
        BY <1>1, <1>6 DEF IsPart
      <4>3. i + Len(f) <= Len(p)
        BY <4>2, <3>2, NotTheLast, Zenon
      <4>4. i + Len(f) \in 1..Len(p) /\ p[i + Len(f)] = "/"
        BY <4>1, <4>3, <1>1
      <4> QED
        BY <4>4, <1>1, <1>3
    <3> QED
      BY <3>1, <3>2
  <2>3. ASSUME NEW k \in 1..Len(f)
        PROVE  t[i + k] = f[k]
    <3>1. i + k - 1 \in 1..Len(p) /\ p[i + k - 1] = f[k]
      BY <1>1, <1>6 DEF IsPart
    <3>2. t[i + k - 1 + 1] = p[i + k - 1]
      BY <3>1, <1>3
    <3> QED
      BY <3>1, <3>2, <1>1
  <2>4. ASSUME NEW k \in 1..Len(s)
        PROVE  t[i + k - 1] = s[k]
    <3>1. CASE k = 1
      BY <3>1, <2>1, <1>2
    <3>2. CASE k = Len(f) + 2
      <4>1. i + k - 1 = i + Len(f) + 1
        BY <3>2, <1>1
      <4> QED
        BY <3>2, <4>1, <2>2, <1>2
    <3>3. CASE k # 1 /\ k # Len(f) + 2
      <4>1. k - 1 \in 1..Len(f) /\ i + (k - 1) = i + k - 1 /\ k - 1 + 1 = k
        BY <3>3, <1>1, <1>2
      <4>2. t[i + (k - 1)] = f[k - 1] /\ s[k - 1 + 1] = f[k - 1]
        BY <4>1, <2>3, <1>2
      <4> QED
        BY <4>1, <4>2
    <3> QED
      BY <3>1, <3>2, <3>3
  <2> QED
    BY <2>0, <2>4, <1>5
<1>7. ASSUME NEW i \in 1..Len(t), At(s, t, i)
      PROVE  i \in 1..Len(p) /\ IsPart(f, p, i)
  <2>1. /\ i + Len(f) - 1 <= Len(p) /\ i \in 1..Len(p)
        /\ \A k \in 1..Len(s) : t[i + k - 1] = s[k]
    BY <1>1, <1>2, <1>3, <1>5, <1>7
  <2>2. i = 1 \/ p[i - 1] = "/"
    <3> SUFFICES ASSUME i # 1 PROVE p[i - 1] = "/"
      OBVIOUS
    <3>1. i - 1 \in 1..Len(p) /\ 1 \in 1..Len(s) /\ i - 1 + 1 = i /\ i + 1 - 1 = i
      BY <2>1, <1>1, <1>2
    <3>2. t[i + 1 - 1] = s[1] /\ t[i - 1 + 1] = p[i - 1]
      BY <3>1, <2>1, <1>3
    <3> QED
      BY <3>1, <3>2, <1>2
  <2>3. i + Len(f) - 1 = Len(p) \/ p[i + Len(f)] = "/"
    <3> SUFFICES ASSUME i + Len(f) - 1 # Len(p) PROVE p[i + Len(f)] = "/"
      OBVIOUS
    <3>1. /\ i + Len(f) \in 1..Len(p) /\ Len(f) + 2 \in 1..Len(s)
          /\ i + (Len(f) + 2) - 1 = i + Len(f) + 1
      <4>1. i \in Int /\ Len(f) \in Int /\ Len(p) \in Int
        BY <2>1, <1>1
      <4>2. i + Len(f) <= Len(p)
        BY <4>1, <2>1, NotTheLast, Zenon
      <4> QED
        BY <4>1, <4>2, <2>1, <1>1, <1>2
    <3>2. t[i + (Len(f) + 2) - 1] = s[Len(f) + 2] /\ t[i + Len(f) + 1] = p[i + Len(f)]
      BY <3>1, <2>1, <1>3
    <3> QED
      BY <3>1, <3>2, <1>2
  <2>4. ASSUME NEW k \in 1..Len(f) PROVE p[i + k - 1] = f[k]
    <3>1. /\ i + k - 1 \in 1..Len(p) /\ k + 1 \in 1..Len(s)
          /\ i + (k + 1) - 1 = i + k - 1 + 1
      BY <2>1, <1>1, <1>2
    <3>2. t[i + (k + 1) - 1] = s[k + 1] /\ t[i + k - 1 + 1] = p[i + k - 1]
      BY <3>1, <2>1, <1>3
    <3> QED
      BY <3>1, <3>2, <1>2
  <2> QED
    BY <2>1, <2>2, <2>3, <2>4 DEF IsPart
<1> QED
  BY <1>4, <1>6, <1>7

(* An id has no part but itself.                                           *)
LEMMA MentionsId ==
    ASSUME NEW f \in Folder, NEW h \in Folder
    PROVE  Mentions(f, h) <=> f = h
<1>1. /\ f \in Text /\ h \in Text /\ Len(f) \in Nat \ {0} /\ Len(h) \in Nat \ {0}
      /\ \A i \in 1..Len(f) : f[i] # "/"
  BY Ids
<1>2. Mentions(f, h) <=> \E i \in 1..Len(f) : IsPart(h, f, i)
  BY <1>1, MentionsPlaces
<1>3. ASSUME NEW i \in 1..Len(f), IsPart(h, f, i)
      PROVE  f = h
  <2>1. i = 1
    BY <1>1, <1>3 DEF IsPart
  <2>2. Len(h) = Len(f)
    BY <2>1, <1>1, <1>3 DEF IsPart
  <2>3. \A k \in 1..Len(h) : f[k] = h[k]
    BY <2>1, <1>1, <1>3 DEF IsPart
  <2> QED
    BY <2>2, <2>3, <1>1, SameText
<1>4. ASSUME f = h
      PROVE  1 \in 1..Len(f) /\ IsPart(h, f, 1)
  BY <1>1, <1>4 DEF IsPart
<1> QED
  BY <1>2, <1>3, <1>4

(* Something without slashes is found in a path before the last slash or   *)
(* after it.                                                               *)
LEMMA OnOneSide ==
    ASSUME NEW p \in Text, NEW f \in Folder, NEW h \in Folder, NEW i \in Nat \ {0},
           i + Len(h) - 1 <= Len(p) + 1 + Len(f),
           \A k \in 1..Len(h) : Join(p, f)[i + k - 1] = h[k]
    PROVE  i + Len(h) - 1 <= Len(p) \/ i >= Len(p) + 2
<1>1. /\ Len(p) \in Nat /\ Len(h) \in Nat
      /\ \A k \in 1..Len(h) : h[k] # "/"
  BY TextLen, Ids
<1>2. Join(p, f)[Len(p) + 1] = "/"
  BY Joined, Zenon
<1> SUFFICES ASSUME i + Len(h) - 1 > Len(p), i < Len(p) + 2 PROVE FALSE
  BY <1>1
<1>3. Len(p) + 2 - i \in 1..Len(h) /\ i + (Len(p) + 2 - i) - 1 = Len(p) + 1
  BY <1>1
<1> QED
  BY <1>1, <1>2, <1>3

(* The parts of a path are those of the parent's path, and the id.         *)
LEMMA MentionsJoin ==
    ASSUME NEW p \in Text, NEW f \in Folder, NEW h \in Folder
    PROVE  Mentions(Join(p, f), h) <=> Mentions(p, h) \/ h = f
<1> DEFINE j == Join(p, f)
<1>1. /\ f \in Text /\ h \in Text /\ Len(p) \in Nat
      /\ Len(f) \in Nat \ {0} /\ Len(h) \in Nat \ {0}
      /\ \A i \in 1..Len(f) : f[i] # "/"
      /\ \A i \in 1..Len(h) : h[i] # "/"
  BY TextLen, Ids
<1>2. /\ Len(j) = Len(p) + 1 + Len(f) /\ j[Len(p) + 1] = "/" /\ j \in Text
      /\ \A i \in 1..Len(p) : j[i] = p[i]
      /\ \A i \in 1..Len(f) : j[Len(p) + 1 + i] = f[i]
  BY Joined, Zenon
<1>3. \A i \in Nat \ {0} :
        /\ i + Len(h) - 1 <= Len(j)
        /\ \A k \in 1..Len(h) : j[i + k - 1] = h[k]
        => i + Len(h) - 1 <= Len(p) \/ i >= Len(p) + 2
  BY <1>2, OnOneSide
<1> HIDE DEF j
<1>4. Mentions(j, h) <=> \E i \in 1..Len(j) : IsPart(h, j, i)
  BY <1>2, MentionsPlaces
<1>5. Mentions(p, h) <=> \E i \in 1..Len(p) : IsPart(h, p, i)
  BY MentionsPlaces
<1>6. ASSUME NEW i \in 1..Len(p), IsPart(h, p, i)
      PROVE  i \in 1..Len(j) /\ IsPart(h, j, i)
  <2>1. i \in 1..Len(j) /\ i + Len(h) - 1 <= Len(j)
    BY <1>1, <1>2, <1>6 DEF IsPart
  <2>2. \A k \in 1..Len(h) : i + k - 1 \in 1..Len(p) /\ p[i + k - 1] = h[k]
    BY <1>1, <1>6 DEF IsPart
  <2>3. \A k \in 1..Len(h) : j[i + k - 1] = h[k]
    BY <2>2, <1>2
  <2>4. ASSUME i # 1 PROVE j[i - 1] = "/"
    <3>1. p[i - 1] = "/" /\ i - 1 \in 1..Len(p)
      BY <2>4, <1>1, <1>6 DEF IsPart
    <3> QED
      BY <3>1, <1>2
  <2>5. j[i + Len(h)] = "/"
    <3>1. CASE i + Len(h) - 1 = Len(p)
      <4>1. i + Len(h) = Len(p) + 1
        BY <3>1, <1>1
      <4> QED
        BY <4>1, <1>2
    <3>2. CASE i + Len(h) - 1 # Len(p)
      <4>1. p[i + Len(h)] = "/"
        BY <3>2, <1>6 DEF IsPart
      <4>2. i + Len(h) - 1 <= Len(p) /\ i \in Int /\ Len(h) \in Int /\ Len(p) \in Int
        BY <1>1, <1>6 DEF IsPart
      <4>3. i + Len(h) <= Len(p)
        BY <4>2, <3>2, NotTheLast, Zenon
      <4>4. i + Len(h) \in 1..Len(p)
        BY <4>3, <1>1
      <4> QED
        BY <4>1, <4>4, <1>2
    <3> QED
      BY <3>1, <3>2
  <2> QED
    BY <2>1, <2>3, <2>4, <2>5 DEF IsPart
<1>7. ASSUME h = f
      PROVE  Len(p) + 2 \in 1..Len(j) /\ IsPart(h, j, Len(p) + 2)
  <2>1. \A k \in 1..Len(h) : j[Len(p) + 2 + k - 1] = h[k]
    <3> TAKE k \in 1..Len(h)
    <3>1. Len(p) + 2 + k - 1 = Len(p) + 1 + k
      BY <1>1
    <3> QED
      BY <3>1, <1>2, <1>7
  <2>2. Len(p) + 2 - 1 = Len(p) + 1 /\ Len(p) + 2 + Len(h) - 1 = Len(j)
    BY <1>1, <1>2, <1>7
  <2>3. Len(p) + 2 \in 1..Len(j)
    BY <1>1, <1>2
  <2> QED
    BY <2>1, <2>2, <2>3, <1>2 DEF IsPart
<1>8. ASSUME NEW i \in 1..Len(j), IsPart(h, j, i)
      PROVE  Mentions(p, h) \/ h = f
  <2>0. /\ i + Len(h) - 1 <= Len(j) /\ i \in Nat \ {0}
        /\ \A k \in 1..Len(h) : j[i + k - 1] = h[k]
        /\ i = 1 \/ j[i - 1] = "/"
        /\ i + Len(h) - 1 = Len(j) \/ j[i + Len(h)] = "/"
    BY <1>1, <1>2, <1>8 DEF IsPart
  <2>1. CASE i + Len(h) - 1 <= Len(p)
    <3>1. \A k \in 1..Len(h) : i + k - 1 \in 1..Len(p)
      BY <2>1, <1>1
    <3>2. \A k \in 1..Len(h) : p[i + k - 1] = h[k]
      BY <2>0, <3>1, <1>2
    <3>3. ASSUME i # 1 PROVE p[i - 1] = "/"
      <4>1. i - 1 \in 1..Len(p)
        BY <2>0, <2>1, <3>3, <1>1
      <4> QED
        BY <4>1, <2>0, <3>3, <1>2
    <3>4. ASSUME i + Len(h) - 1 # Len(p) PROVE p[i + Len(h)] = "/"
      <4>1. i \in Int /\ Len(h) \in Int /\ Len(p) \in Int
        BY <2>0, <1>1
      <4>2. i + Len(h) <= Len(p)
        BY <4>1, <2>1, <3>4, NotTheLast, Zenon
      <4>3. i + Len(h) \in 1..Len(p) /\ i + Len(h) - 1 # Len(j)
        BY <4>2, <1>1, <1>2
      <4> QED
        BY <4>3, <2>0, <1>2
    <3>5. i \in 1..Len(p) /\ IsPart(h, p, i)
      BY <3>2, <3>3, <3>4, <2>0, <2>1, <1>1 DEF IsPart
    <3> QED
      BY <3>5, <1>5
  <2>2. CASE i >= Len(p) + 2
    <3>0. \A k \in Len(p) + 2..Len(j) : j[k] # "/"
      <4> TAKE k \in Len(p) + 2..Len(j)
      <4>1. k - (Len(p) + 1) \in 1..Len(f) /\ k = Len(p) + 1 + (k - (Len(p) + 1))
        BY <1>1, <1>2
      <4> QED
        BY <4>1, <1>1, <1>2
    <3>1. ASSUME i # Len(p) + 2 PROVE FALSE
      <4>1. i - 1 \in Len(p) + 2..Len(j) /\ i # 1
        BY <2>0, <2>2, <3>1, <1>1, <1>2
      <4> QED
        BY <4>1, <2>0, <3>0
    <3>2. ASSUME i + Len(h) - 1 # Len(j) PROVE FALSE
      <4>1. i \in Int /\ Len(h) \in Int /\ Len(j) \in Int
        BY <2>0, <1>1, <1>2
      <4>2. i + Len(h) <= Len(j)
        BY <4>1, <2>0, <3>2, NotTheLast, Zenon
      <4>3. i + Len(h) \in Len(p) + 2..Len(j)
        BY <4>2, <2>2, <1>1, <1>2
      <4> QED
        BY <4>3, <2>0, <3>0, <3>2
    <3>3. Len(h) = Len(f)
      BY <3>1, <3>2, <1>1, <1>2
    <3>4. \A k \in 1..Len(h) : h[k] = f[k]
      <4> TAKE k \in 1..Len(h)
      <4>1. i + k - 1 = Len(p) + 1 + k /\ k \in 1..Len(f)
        BY <3>1, <3>3, <1>1
      <4> QED
        BY <4>1, <2>0, <1>2
    <3> QED
      BY <3>3, <3>4, <1>1, SameText
  <2> QED
    BY <2>0, <2>1, <2>2, <1>3
<1>9. Mentions(j, h) => Mentions(p, h) \/ h = f
  BY <1>4, <1>8
<1>10. Mentions(p, h) \/ h = f => Mentions(j, h)
  BY <1>4, <1>5, <1>6, <1>7
<1> QED
  BY <1>9, <1>10 DEF j

-----------------------------------------------------------------------------
(* Replacing.                                                              *)

(* The text from place i on, g being what the later places become.         *)
Onward(t, old, new, g, i) ==
    IF i > Len(t) THEN IF old = <<>> THEN new ELSE <<>>
    ELSE IF old = <<>> THEN new \o <<t[i]>> \o g[i + 1]
    ELSE IF At(old, t, i) THEN new \o g[i + Len(old)]
    ELSE <<t[i]>> \o g[i + 1]

FromPlaces(t, old, new, g) ==
    g = [i \in 1..Len(t) + 1 |-> Onward(t, old, new, g, i)]

(* Only one later place counts, and a text there makes a text here.        *)
LEMMA OnwardLooksAhead ==
    ASSUME NEW t \in Text, NEW old \in Text, NEW new \in Text, NEW i \in 1..Len(t)
    PROVE  \E n \in i + 1..Len(t) + 1 :
             /\ \A g, h : g[n] = h[n] => Onward(t, old, new, g, i) = Onward(t, old, new, h, i)
             /\ \A g : g[n] \in Text => Onward(t, old, new, g, i) \in Text
<1>1. Len(t) \in Nat /\ Len(old) \in Nat
  BY TextLen
<1>2. <<t[i]>> \in Text
  <2>1. t[i] \in Digit \cup {"/"}
    BY <1>1, ElementOfSeq DEF Text
  <2> QED
    BY <2>1 DEF Text
<1>3. CASE old = <<>>
  <2>1. i + 1 \in i + 1..Len(t) + 1 /\ ~(i > Len(t))
    BY <1>1
  <2>2. \A g : Onward(t, old, new, g, i) = (new \o <<t[i]>>) \o g[i + 1]
    BY <2>1, <1>3 DEF Onward
  <2>3. new \o <<t[i]>> \in Text
    BY <1>2, Concat, Zenon
  <2>4. \A g : g[i + 1] \in Text => (new \o <<t[i]>>) \o g[i + 1] \in Text
    BY <2>3, Concat, Zenon
  <2>5. \A g, h : g[i + 1] = h[i + 1] => Onward(t, old, new, g, i) = Onward(t, old, new, h, i)
    BY <2>2, Zenon
  <2>6. \A g : g[i + 1] \in Text => Onward(t, old, new, g, i) \in Text
    BY <2>2, <2>4, Zenon
  <2> QED
    BY <2>1, <2>5, <2>6, Zenon
<1>4. CASE old # <<>> /\ At(old, t, i)
  <2>1. i + Len(old) \in i + 1..Len(t) + 1 /\ ~(i > Len(t))
    <3>1. i + Len(old) - 1 <= Len(t)
      BY <1>4 DEF At
    <3>2. Len(old) # 0
      BY <1>4, EmptySeq DEF Text
    <3> QED
      BY <3>1, <3>2, <1>1
  <2>2. \A g : Onward(t, old, new, g, i) = new \o g[i + Len(old)]
    BY <2>1, <1>4 DEF Onward
  <2>3. \A g : g[i + Len(old)] \in Text => new \o g[i + Len(old)] \in Text
    BY Concat, Zenon
  <2>5. \A g, h : g[i + Len(old)] = h[i + Len(old)]
                    => Onward(t, old, new, g, i) = Onward(t, old, new, h, i)
    BY <2>2, Zenon
  <2>6. \A g : g[i + Len(old)] \in Text => Onward(t, old, new, g, i) \in Text
    BY <2>2, <2>3, Zenon
  <2> QED
    BY <2>1, <2>5, <2>6, Zenon
<1>5. CASE old # <<>> /\ ~At(old, t, i)
  <2>1. i + 1 \in i + 1..Len(t) + 1 /\ ~(i > Len(t))
    BY <1>1
  <2>2. \A g : Onward(t, old, new, g, i) = <<t[i]>> \o g[i + 1]
    BY <2>1, <1>5 DEF Onward
  <2>3. \A g : g[i + 1] \in Text => <<t[i]>> \o g[i + 1] \in Text
    BY <1>2, Concat, Zenon
  <2>5. \A g, h : g[i + 1] = h[i + 1] => Onward(t, old, new, g, i) = Onward(t, old, new, h, i)
    BY <2>2, Zenon
  <2>6. \A g : g[i + 1] \in Text => Onward(t, old, new, g, i) \in Text
    BY <2>2, <2>3, Zenon
  <2> QED
    BY <2>1, <2>5, <2>6, Zenon
<1> QED
  BY <1>3, <1>4, <1>5

LEMMA OnwardAtTheEnd ==
    ASSUME NEW t \in Text, NEW old \in Text, NEW new \in Text
    PROVE  /\ \A g, h : Onward(t, old, new, g, Len(t) + 1) = Onward(t, old, new, h, Len(t) + 1)
           /\ \A g : Onward(t, old, new, g, Len(t) + 1) \in Text
<1>1. \A g : Onward(t, old, new, g, Len(t) + 1) = IF old = <<>> THEN new ELSE <<>>
  BY TextLen DEF Onward
<1>2. <<>> \in Text
  BY EmptySeq DEF Text
<1> QED
  BY <1>1, <1>2, Zenon

(* The recursion from the end of the text to its beginning has a solution. *)
LEMMA PlacesExist ==
    ASSUME NEW t \in Text, NEW old \in Text, NEW new \in Text
    PROVE  \E g : FromPlaces(t, old, new, g)
<1> DEFINE N == Len(t) + 1
           Solves(g, m) == g = [i \in N - m..N |-> Onward(t, old, new, g, i)]
           T == {m \in 0..Len(t) : ~ \E g : Solves(g, m)}
<1>1. Len(t) \in Nat
  BY TextLen
<1>2. T = {}
  <2> SUFFICES ASSUME T # {} PROVE FALSE
    OBVIOUS
  <2>1. T \in SUBSET Nat
    BY <1>1
  <2> HIDE DEF T
  <2>2. PICK m \in T : \A n \in T : m <= n
    BY <2>1, LeastNumber
  <2>3. m \in 0..Len(t) /\ ~ \E g : Solves(g, m)
    BY DEF T
  <2>4. CASE m = 0
    <3> DEFINE h == [i \in N - m..N |-> Onward(t, old, new, <<>>, i)]
    <3>1. N - m..N = {N}
      BY <2>4, <1>1
    <3>2. Onward(t, old, new, h, N) = Onward(t, old, new, <<>>, N)
      BY OnwardAtTheEnd
    <3> HIDE DEF h
    <3>3. \A i \in N - m..N : Onward(t, old, new, <<>>, i) = Onward(t, old, new, h, i)
      BY <3>1, <3>2, Zenon
    <3>4. h = [i \in N - m..N |-> Onward(t, old, new, h, i)]
      BY <3>3 DEF h
    <3> QED
      BY <2>3, <3>4
  <2>5. CASE m # 0
    <3>1. m - 1 \in 0..Len(t) /\ m - 1 \notin T
      BY <2>1, <2>2, <2>3, <2>5, <1>1
    <3>2. PICK g : Solves(g, m - 1)
      BY <3>1 DEF T
    <3> DEFINE k == N - m
               h == [i \in k..N |-> IF i = k THEN Onward(t, old, new, g, k) ELSE g[i]]
    <3>3. k \in 1..Len(t) /\ N - (m - 1) = k + 1 /\ N \in Nat /\ k \in k..N
      BY <2>3, <2>5, <1>1
    <3> HIDE DEF k, N
    <3>4. g = [i \in k + 1..N |-> Onward(t, old, new, g, i)]
      BY <3>2, <3>3
    <3>5. \A i \in k + 1..N : h[i] = g[i] /\ g[i] = Onward(t, old, new, g, i)
      BY <3>3, <3>4
    <3>6. h[k] = Onward(t, old, new, g, k) /\ DOMAIN h = k..N
      BY <3>3
    <3>7. h = [i \in k..N |-> h[i]]
      OBVIOUS
    <3> HIDE DEF h
    <3>8. ASSUME NEW i \in k..N
          PROVE  Onward(t, old, new, g, i) = Onward(t, old, new, h, i)
      <4>1. CASE i = N
        BY <4>1, OnwardAtTheEnd DEF N
      <4>2. CASE i # N
        <5>1. i \in 1..Len(t) /\ N = Len(t) + 1
          BY <4>2, <3>3, <1>1 DEF N
        <5>2. PICK n \in i + 1..Len(t) + 1 :
                \A e, f : e[n] = f[n] => Onward(t, old, new, e, i) = Onward(t, old, new, f, i)
          BY <5>1, OnwardLooksAhead
        <5>3. n \in k + 1..N
          BY <5>1, <5>2, <3>3, <1>1
        <5> QED
          BY <5>2, <5>3, <3>5
      <4> QED
        BY <4>1, <4>2
    <3>9. \A i \in k..N : h[i] = Onward(t, old, new, h, i)
      <4> TAKE i \in k..N
      <4>1. i = k \/ i \in k + 1..N
        BY <3>3
      <4> QED
        BY <4>1, <3>5, <3>6, <3>8
    <3>10. h = [i \in k..N |-> Onward(t, old, new, h, i)]
      BY <3>7, <3>9
    <3> QED
      BY <2>3, <3>10 DEF k
  <2> QED
    BY <2>4, <2>5
<1>3. Len(t) \in 0..Len(t) /\ N - Len(t) = 1
  BY <1>1
<1>4. PICK g : Solves(g, Len(t))
  BY <1>2, <1>3
<1>5. FromPlaces(t, old, new, g)
  BY <1>3, <1>4 DEF FromPlaces
<1> QED
  BY <1>5

(* What is replaced in a text with a text is a text.                       *)
LEMMA ReplaceIsText ==
    ASSUME NEW t \in Text, NEW old \in Text, NEW new \in Text
    PROVE  Replace(t, old, new) \in Text
<1> DEFINE g == CHOOSE h : FromPlaces(t, old, new, h)
           N == Len(t) + 1
           T == {m \in 0..Len(t) : g[N - m] \notin Text}
<1>1. FromPlaces(t, old, new, g)
  BY PlacesExist
<1>2. Replace(t, old, new) = g[1]
  BY Zenon DEF Replace, FromPlaces, Onward
<1> HIDE DEF g
<1>3. Len(t) \in Nat
  BY TextLen
<1>4. \A i \in 1..N : g[i] = Onward(t, old, new, g, i)
  BY <1>1 DEF FromPlaces
<1>5. T = {}
  <2> SUFFICES ASSUME T # {} PROVE FALSE
    OBVIOUS
  <2>1. T \in SUBSET Nat
    BY <1>3
  <2> HIDE DEF T
  <2>2. PICK m \in T : \A n \in T : m <= n
    BY <2>1, LeastNumber
  <2>3. m \in 0..Len(t) /\ g[N - m] \notin Text
    BY DEF T
  <2>4. CASE m = 0
    <3>1. N - m = Len(t) + 1 /\ N \in 1..N
      BY <2>4, <1>3
    <3> QED
      BY <3>1, <2>3, <1>4, OnwardAtTheEnd
  <2>5. CASE m # 0
    <3>1. N - m \in 1..Len(t) /\ N - m \in 1..N
      BY <2>3, <2>5, <1>3
    <3>2. PICK n \in N - m + 1..Len(t) + 1 :
            g[n] \in Text => Onward(t, old, new, g, N - m) \in Text
      BY <3>1, OnwardLooksAhead
    <3>3. N - n \in 0..Len(t) /\ N - n < m /\ N - (N - n) = n
      BY <3>1, <3>2, <2>3, <1>3
    <3>4. g[n] \notin Text
      BY <3>1, <3>2, <2>3, <1>4
    <3>5. N - n \in T
      BY <3>3, <3>4 DEF T
    <3> QED
      BY <3>3, <3>5, <2>1, <2>2
  <2> QED
    BY <2>4, <2>5
<1>6. Len(t) \in 0..Len(t) /\ N - Len(t) = 1
  BY <1>3
<1> QED
  BY <1>2, <1>5, <1>6

(* t with new in place of the length of q at its beginning.                *)
Cut(t, q, new) == new \o SubSeq(t, Len(q) + 1, Len(t))

LEMMA CutPlaces ==
    ASSUME NEW t \in Text, NEW q \in Text, NEW new \in Text, Len(q) <= Len(t)
    PROVE  /\ Cut(t, q, new) \in Text
           /\ Len(Cut(t, q, new)) = Len(new) + (Len(t) - Len(q))
           /\ \A i \in 1..Len(new) : Cut(t, q, new)[i] = new[i]
           /\ \A i \in 1..Len(t) - Len(q) :
                Cut(t, q, new)[Len(new) + i] = t[Len(q) + i]
<1> DEFINE u == SubSeq(t, Len(q) + 1, Len(t))
           c == new \o u
<1>1. Len(t) \in Nat /\ Len(q) \in Nat /\ Len(new) \in Nat
  BY TextLen
<1>2. /\ u \in Text
      /\ Len(u) = IF Len(q) + 1 <= Len(t) THEN Len(t) - (Len(q) + 1) + 1 ELSE 0
      /\ \A k \in 1..Len(t) - (Len(q) + 1) + 1 : u[k] = t[Len(q) + 1 + k - 1]
  <2>1. Len(q) + 1 \in Int /\ Len(t) \in Int /\ 1 <= Len(q) + 1 /\ Len(t) <= Len(t)
    BY <1>1
  <2> QED
    BY <2>1, Piece, Zenon
<1> HIDE DEF u
<1>3. Len(u) = Len(t) - Len(q)
  BY <1>1, <1>2
<1>4. \A k \in 1..Len(u) : u[k] = t[Len(q) + k]
  <2> TAKE k \in 1..Len(u)
  <2>1. k \in 1..Len(t) - (Len(q) + 1) + 1 /\ Len(q) + 1 + k - 1 = Len(q) + k
    BY <1>1, <1>3
  <2> QED
    BY <2>1, <1>2
<1>5. /\ c \in Text /\ Len(c) = Len(new) + Len(u)
      /\ \A i \in 1..Len(new) : c[i] = new[i]
      /\ \A i \in Len(new) + 1..Len(new) + Len(u) : c[i] = u[i - Len(new)]
  BY <1>2, Concat, Zenon
<1> HIDE DEF c
<1>6. \A i \in 1..Len(u) : c[Len(new) + i] = t[Len(q) + i]
  <2> TAKE i \in 1..Len(u)
  <2>1. Len(new) + i \in Len(new) + 1..Len(new) + Len(u) /\ Len(new) + i - Len(new) = i
    BY <1>1, <1>3
  <2> QED
    BY <2>1, <1>4, <1>5
<1>7. Cut(t, q, new) = c
  BY DEF Cut, c, u
<1> QED
  BY <1>3, <1>5, <1>6, <1>7

(* Cutting a path cuts its parent's path.                                  *)
LEMMA CutOfJoin ==
    ASSUME NEW t \in Text, NEW q \in Text, NEW new \in Text, Len(q) <= Len(t),
           NEW f \in Folder
    PROVE  Cut(Join(t, f), q, new) = Join(Cut(t, q, new), f)
<1> DEFINE j == Join(t, f)
           c == Cut(t, q, new)
           d == Cut(j, q, new)
           e == Join(c, f)
<1>1. Len(t) \in Nat /\ Len(q) \in Nat /\ Len(new) \in Nat /\ Len(f) \in Nat
  BY TextLen, Ids
<1>2. /\ j \in Text /\ Len(j) = Len(t) + 1 + Len(f) /\ j[Len(t) + 1] = "/"
      /\ \A i \in 1..Len(t) : j[i] = t[i]
      /\ \A i \in 1..Len(f) : j[Len(t) + 1 + i] = f[i]
  BY Joined, Zenon
<1> HIDE DEF j
<1>3. /\ c \in Text /\ Len(c) = Len(new) + (Len(t) - Len(q))
      /\ \A i \in 1..Len(new) : c[i] = new[i]
      /\ \A i \in 1..Len(t) - Len(q) : c[Len(new) + i] = t[Len(q) + i]
  BY CutPlaces, Zenon
<1> HIDE DEF c
<1>4. Len(q) <= Len(j)
  BY <1>1, <1>2
<1>5. /\ d \in Text /\ Len(d) = Len(new) + (Len(j) - Len(q))
      /\ \A i \in 1..Len(new) : d[i] = new[i]
      /\ \A i \in 1..Len(j) - Len(q) : d[Len(new) + i] = j[Len(q) + i]
  BY <1>2, <1>4, CutPlaces, Zenon
<1> HIDE DEF d
<1>6. /\ e \in Text /\ Len(e) = Len(c) + 1 + Len(f) /\ e[Len(c) + 1] = "/"
      /\ \A i \in 1..Len(c) : e[i] = c[i]
      /\ \A i \in 1..Len(f) : e[Len(c) + 1 + i] = f[i]
  BY <1>3, Joined, Zenon
<1> HIDE DEF e
<1>7. Len(d) = Len(e)
  BY <1>1, <1>2, <1>3, <1>5, <1>6
<1>8. ASSUME NEW i \in 1..Len(d) PROVE d[i] = e[i]
  <2>1. CASE i \in 1..Len(new)
    <3>1. i \in 1..Len(c)
      BY <2>1, <1>1, <1>3
    <3> QED
      BY <3>1, <2>1, <1>3, <1>5, <1>6
  <2>2. CASE i \in Len(new) + 1..Len(c)
    <3>1. PICK k \in 1..Len(t) - Len(q) : i = Len(new) + k
      <4>1. i - Len(new) \in 1..Len(t) - Len(q) /\ i = Len(new) + (i - Len(new))
        BY <2>2, <1>1, <1>3
      <4> QED
        BY <4>1
    <3>2. /\ k \in 1..Len(j) - Len(q) /\ Len(q) + k \in 1..Len(t)
          /\ Len(new) + k \in 1..Len(c)
      BY <1>1, <1>2, <1>3
    <3>3. d[Len(new) + k] = j[Len(q) + k] /\ e[Len(new) + k] = c[Len(new) + k]
      BY <3>2, <1>5, <1>6
    <3>4. c[Len(new) + k] = t[Len(q) + k] /\ j[Len(q) + k] = t[Len(q) + k]
      BY <3>2, <1>2, <1>3
    <3> QED
      BY <3>1, <3>3, <3>4
  <2>3. CASE i = Len(c) + 1
    <3>1. /\ Len(t) + 1 - Len(q) \in 1..Len(j) - Len(q)
          /\ i = Len(new) + (Len(t) + 1 - Len(q))
          /\ Len(q) + (Len(t) + 1 - Len(q)) = Len(t) + 1
      BY <2>3, <1>1, <1>2, <1>3
    <3>2. d[i] = j[Len(t) + 1]
      BY <3>1, <1>5
    <3> QED
      BY <3>2, <2>3, <1>2, <1>6
  <2>4. CASE i \in Len(c) + 2..Len(d)
    <3>1. PICK k \in 1..Len(f) : i = Len(c) + 1 + k
      <4>1. i - (Len(c) + 1) \in 1..Len(f) /\ i = Len(c) + 1 + (i - (Len(c) + 1))
        BY <2>4, <1>1, <1>2, <1>3, <1>5
      <4> QED
        BY <4>1
    <3>2. /\ Len(t) - Len(q) + 1 + k \in 1..Len(j) - Len(q)
          /\ i = Len(new) + (Len(t) - Len(q) + 1 + k)
          /\ Len(q) + (Len(t) - Len(q) + 1 + k) = Len(t) + 1 + k
      BY <3>1, <1>1, <1>2, <1>3
    <3>3. d[i] = j[Len(t) + 1 + k]
      BY <3>2, <1>5
    <3> QED
      BY <3>1, <3>3, <1>2, <1>6
  <2> QED
    BY <2>1, <2>2, <2>3, <2>4, <1>1, <1>3, <1>5
<1> QED
  BY <1>5, <1>6, <1>7, <1>8, SameText DEF d, e, c, j

LEMMA CutOff ==
    ASSUME NEW q \in Text, NEW new \in Text, NEW f \in Folder
    PROVE  Cut(Join(q, f), q, new) = Join(new, f)
<1>1. Len(q) <= Len(q)
  BY TextLen
<1>2. Cut(Join(q, f), q, new) = Join(Cut(q, q, new), f)
  BY <1>1, CutOfJoin
<1>3. Cut(q, q, new) = new
  <2>1. Len(q) \in Nat /\ Len(new) \in Nat
    BY TextLen
  <2>2. /\ Cut(q, q, new) \in Text
        /\ Len(Cut(q, q, new)) = Len(new) + (Len(q) - Len(q))
        /\ \A i \in 1..Len(new) : Cut(q, q, new)[i] = new[i]
    BY <1>1, CutPlaces, Zenon
  <2>3. Len(Cut(q, q, new)) = Len(new)
    BY <2>1, <2>2
  <2> QED
    BY <2>2, <2>3, SameText
<1> QED
  BY <1>2, <1>3

(* Replacing what a text begins with, when it is not found further on.     *)
LEMMA ReplacedOnce ==
    ASSUME NEW t \in Text, NEW old \in Text, NEW new \in Text, old # <<>>,
           At(old, t, 1), \A k \in Len(old) + 1..Len(t) : ~At(old, t, k)
    PROVE  Replace(t, old, new) = Cut(t, old, new)
<1> DEFINE g == CHOOSE h : FromPlaces(t, old, new, h)
           n == Len(t)
           T == {m \in 0..n - Len(old) : g[n + 1 - m] # SubSeq(t, n + 1 - m, n)}
<1>1. FromPlaces(t, old, new, g)
  BY PlacesExist
<1>2. Replace(t, old, new) = g[1]
  BY Zenon DEF Replace, FromPlaces, Onward
<1> HIDE DEF g
<1>3. n \in Nat /\ Len(old) \in Nat \ {0} /\ Len(old) <= n
  <2>1. 1 + Len(old) - 1 <= Len(t) /\ Len(old) \in Nat /\ Len(t) \in Nat
    BY TextLen DEF At
  <2>2. Len(old) # 0
    BY EmptySeq DEF Text
  <2> QED
    BY <2>1, <2>2
<1>4. \A i \in 1..n + 1 : g[i] = Onward(t, old, new, g, i)
  BY <1>1 DEF FromPlaces
<1>5. T = {}
  <2> SUFFICES ASSUME T # {} PROVE FALSE
    OBVIOUS
  <2>1. T \in SUBSET Nat
    BY <1>3
  <2> HIDE DEF T
  <2>2. PICK m \in T : \A k \in T : m <= k
    BY <2>1, LeastNumber
  <2> DEFINE i == n + 1 - m
  <2>3. m \in 0..n - Len(old) /\ g[i] # SubSeq(t, i, n)
    BY DEF T
  <2>4. CASE m = 0
    <3>1. i = Len(t) + 1 /\ i \in 1..n + 1 /\ i > Len(t)
      BY <2>4, <1>3
    <3> HIDE DEF i
    <3>2. g[i] = <<>>
      BY <3>1, <1>4 DEF Onward
    <3>3. i \in Int /\ n \in Int /\ 1 <= i /\ n <= Len(t) /\ ~(i <= n)
      BY <3>1, <1>3
    <3>4. SubSeq(t, i, n) \in Text /\ Len(SubSeq(t, i, n)) = 0
      <4>1. /\ SubSeq(t, i, n) \in Text
            /\ Len(SubSeq(t, i, n)) = IF i <= n THEN n - i + 1 ELSE 0
        BY <3>3, Piece, Zenon
      <4> QED
        BY <4>1, <3>3
    <3>5. SubSeq(t, i, n) = <<>>
      BY <3>4, EmptySeq DEF Text
    <3> QED
      BY <3>2, <3>5, <2>3
  <2>5. CASE m # 0
    <3>1. /\ i \in Len(old) + 1..n /\ i \in 1..n /\ i \in 1..n + 1 /\ ~(i > Len(t))
          /\ n + 1 - (m - 1) = i + 1 /\ i \in Int /\ i + 1 \in Int /\ 1 <= i + 1
      BY <2>3, <2>5, <1>3
    <3>2. m - 1 \in 0..n - Len(old) /\ m - 1 \notin T
      BY <2>1, <2>2, <2>3, <2>5, <1>3
    <3>3. g[i + 1] = SubSeq(t, i + 1, n)
      BY <3>1, <3>2 DEF T
    <3> HIDE DEF i
    <3>4. ~At(old, t, i)
      BY <3>1
    <3>5. g[i] = <<t[i]>> \o g[i + 1]
      BY <3>1, <3>4, <1>4 DEF Onward
    <3> DEFINE u == SubSeq(t, i + 1, n)
               v == SubSeq(t, i, n)
               w == <<t[i]>> \o u
    <3>6. u \in Text /\ Len(u) = n - i /\ \A k \in 1..n - i : u[k] = t[i + k]
      <4> DEFINE j == i + 1
      <4>1. n <= Len(t) /\ n \in Int /\ j \in Int /\ 1 <= j
        BY <3>1, <1>3
      <4> HIDE DEF j
      <4>2. /\ SubSeq(t, j, n) \in Text
            /\ Len(SubSeq(t, j, n)) = IF j <= n THEN n - j + 1 ELSE 0
            /\ \A k \in 1..n - j + 1 : SubSeq(t, j, n)[k] = t[j + k - 1]
        BY <4>1, Piece, Zenon
      <4>3. /\ u \in Text /\ Len(u) = IF i + 1 <= n THEN n - (i + 1) + 1 ELSE 0
            /\ \A k \in 1..n - (i + 1) + 1 : u[k] = t[i + 1 + k - 1]
        BY <4>2, Zenon DEF j
      <4> HIDE DEF u
      <4>4. Len(u) = n - i
        BY <4>3, <3>1, <1>3
      <4>5. ASSUME NEW k \in 1..n - i PROVE u[k] = t[i + k]
        <5>1. k \in 1..n - (i + 1) + 1 /\ i + 1 + k - 1 = i + k
          BY <3>1, <1>3
        <5> QED
          BY <5>1, <4>3
      <4> QED
        BY <4>3, <4>4, <4>5
    <3>7. v \in Text /\ Len(v) = n - i + 1 /\ \A k \in 1..n - i + 1 : v[k] = t[i + k - 1]
      <4>0. n <= Len(t) /\ n \in Int /\ 1 <= i /\ i <= n
        BY <3>1, <1>3
      <4>1. /\ v \in Text /\ Len(v) = IF i <= n THEN n - i + 1 ELSE 0
            /\ \A k \in 1..n - i + 1 : v[k] = t[i + k - 1]
        BY <4>0, <3>1, Piece, Zenon
      <4> QED
        BY <4>0, <4>1, Zenon
    <3>8. <<t[i]>> \in Text /\ Len(<<t[i]>>) = 1 /\ <<t[i]>>[1] = t[i]
      <4>1. t[i] \in Digit \cup {"/"}
        BY <3>1, ElementOfSeq DEF Text
      <4> QED
        BY <4>1 DEF Text
    <3> HIDE DEF u, v
    <3> DEFINE c == <<t[i]>>
    <3>9. c \in Text /\ Len(c) = 1 /\ c[1] = t[i]
      BY <3>8
    <3> HIDE DEF c
    <3>10. /\ c \o u \in Text /\ Len(c \o u) = Len(c) + Len(u)
           /\ \A k \in 1..Len(c) : (c \o u)[k] = c[k]
           /\ \A k \in Len(c) + 1..Len(c) + Len(u) : (c \o u)[k] = u[k - Len(c)]
      BY <3>6, <3>9, Concat, Zenon
    <3>11. w = c \o u
      BY DEF c
    <3> HIDE DEF w
    <3>12. Len(w) = Len(v) /\ w \in Text
      BY <3>1, <3>6, <3>7, <3>9, <3>10, <3>11, <1>3
    <3>13. ASSUME NEW k \in 1..Len(w) PROVE w[k] = v[k]
      <4>1. CASE k = 1
        <5>1. i + k - 1 = i /\ k \in 1..n - i + 1 /\ k \in 1..Len(c)
          BY <4>1, <3>1, <3>9, <1>3
        <5> QED
          BY <5>1, <4>1, <3>7, <3>9, <3>10, <3>11
      <4>2. CASE k # 1
        <5>1. /\ k \in Len(c) + 1..Len(c) + Len(u) /\ k - Len(c) = k - 1
              /\ k - 1 \in 1..n - i /\ i + (k - 1) = i + k - 1 /\ k \in 1..n - i + 1
          BY <4>2, <3>1, <3>6, <3>7, <3>9, <3>12, <1>3
        <5>2. w[k] = u[k - 1] /\ u[k - 1] = t[i + (k - 1)] /\ v[k] = t[i + k - 1]
          BY <5>1, <3>6, <3>7, <3>10, <3>11
        <5> QED
          BY <5>1, <5>2
      <4> QED
        BY <4>1, <4>2
    <3>14. w = v
      BY <3>7, <3>12, <3>13, SameText
    <3> QED
      BY <3>3, <3>5, <3>14, <2>3 DEF w, u, v
  <2> QED
    BY <2>4, <2>5
<1>6. g[Len(old) + 1] = SubSeq(t, Len(old) + 1, n)
  <2>1. n - Len(old) \in 0..n - Len(old) /\ n + 1 - (n - Len(old)) = Len(old) + 1
    BY <1>3
  <2> QED
    BY <2>1, <1>5
<1>7. g[1] = new \o g[1 + Len(old)]
  <2>1. 1 \in 1..n + 1 /\ ~(1 > Len(t))
    BY <1>3
  <2> QED
    BY <2>1, <1>4 DEF Onward
<1>8. 1 + Len(old) = Len(old) + 1
  BY <1>3
<1> QED
  BY <1>2, <1>6, <1>7, <1>8 DEF Cut

-----------------------------------------------------------------------------
(* Trees.                                                                  *)

IsTree(t) ==
    /\ DOMAIN t \subseteq Folder /\ t \in [DOMAIN t -> Text]
    /\ Written(t)

(* The folders whose path mentions f.                                      *)
Mentioning(t, f) == {x \in DOMAIN t : Mentions(t[x], f)}

(* w gives every folder its parent.                                        *)
Hangs(t, w) ==
    /\ w \in [DOMAIN t -> DOMAIN t \cup {Root}]
    /\ \A f \in DOMAIN t :
         \/ w[f] = Root /\ t[f] = f
         \/ w[f] \in DOMAIN t /\ t[f] = Join(t[w[f]], f)

(* Among some folders of a tree, there is one whose parent is not of them. *)
LEMMA TreeLeast ==
    ASSUME NEW t, IsTree(t), NEW X \in SUBSET DOMAIN t, X # {}
    PROVE  \E x \in X : t[x] = x \/ \E y \in DOMAIN t \ X : t[x] = Join(t[y], x)
<1> DEFINE T == {Len(t[x]) : x \in X}
<1>1. \A x \in DOMAIN t : x \in Folder /\ t[x] \in Text /\ Len(t[x]) \in Nat
  BY TextLen DEF IsTree
<1>2. T \in SUBSET Nat /\ T # {}
  BY <1>1
<1>3. PICK m \in T : \A n \in T : m <= n
  <2> HIDE DEF T
  <2> QED
    BY <1>2, LeastNumber
<1>4. PICK x \in X : \A z \in X : Len(t[x]) <= Len(t[z])
  BY <1>3
<1>5. ASSUME NEW y \in DOMAIN t, t[x] = Join(t[y], x)
      PROVE  y \notin X
  <2>1. Len(Join(t[y], x)) = Len(t[y]) + 1 + Len(x)
    BY <1>1, Joined, Zenon
  <2>2. Len(x) \in Nat /\ Len(t[y]) \in Nat
    BY <1>1, Ids
  <2>3. Len(t[y]) < Len(t[x])
    BY <2>1, <2>2, <1>5
  <2> QED
    BY <2>2, <2>3, <1>1, <1>4
<1> QED
  BY <1>4, <1>5 DEF IsTree, Written

LEMMA PathsDiffer ==
    ASSUME NEW t, IsTree(t), NEW f \in DOMAIN t, NEW g \in DOMAIN t, t[f] = t[g]
    PROVE  f = g
<1>1. \A x \in DOMAIN t : x \in Folder /\ t[x] \in Text
  BY DEF IsTree
<1>2. \A x \in DOMAIN t : t[x] = x \/ \E y \in DOMAIN t : t[x] = Join(t[y], x)
  BY DEF IsTree, Written
<1>3. \A x, y \in DOMAIN t : x # Join(t[y], x) /\ x # Join(t[y], g) /\ x # Join(t[y], f)
  BY <1>1, JoinedOnce
<1>4. \A x, y \in DOMAIN t : Join(t[x], f) = Join(t[y], g) => f = g
  BY <1>1, JoinedOnce
<1> QED
  BY <1>2, <1>3, <1>4

LEMMA HangsOnce ==
    ASSUME NEW t, IsTree(t), NEW w, NEW v, Hangs(t, w), Hangs(t, v)
    PROVE  w = v
<1>1. \A x \in DOMAIN t : x \in Folder /\ t[x] \in Text
  BY DEF IsTree
<1>2. ASSUME NEW f \in DOMAIN t PROVE w[f] = v[f]
  <2>1. \A y \in DOMAIN t : f # Join(t[y], f)
    BY <1>1, JoinedOnce
  <2>2. \A x, y \in DOMAIN t : Join(t[x], f) = Join(t[y], f) => x = y
    BY <1>1, JoinedOnce, PathsDiffer
  <2> QED
    BY <2>1, <2>2 DEF Hangs
<1>3. w = [f \in DOMAIN t |-> w[f]] /\ v = [f \in DOMAIN t |-> v[f]]
  BY DEF Hangs
<1> QED
  BY <1>2, <1>3

LEMMA TreeIsRooted ==
    ASSUME NEW t, IsTree(t), NEW w, Hangs(t, w), NEW S, Root \in S,
           \A g \in DOMAIN t : w[g] \in S => g \in S
    PROVE  DOMAIN t \subseteq S
<1> SUFFICES ASSUME DOMAIN t \ S # {} PROVE FALSE
  OBVIOUS
<1>1. PICK x \in DOMAIN t \ S :
        t[x] = x \/ \E y \in DOMAIN t \ (DOMAIN t \ S) : t[x] = Join(t[y], x)
  BY TreeLeast
<1>2. \A y \in DOMAIN t : y \in Folder /\ t[y] \in Text
  BY DEF IsTree
<1>3. \A y \in DOMAIN t : x # Join(t[y], x)
  BY <1>2, JoinedOnce
<1>4. \A y, z \in DOMAIN t : Join(t[y], x) = Join(t[z], x) => y = z
  BY <1>2, JoinedOnce, PathsDiffer
<1>5. w[x] \in S
  BY <1>1, <1>3, <1>4 DEF Hangs
<1> QED
  BY <1>1, <1>5

LEMMA PrefixOfJoin ==
    ASSUME NEW s \in Text, NEW p \in Text, NEW f \in Folder, IsPrefix(s, p)
    PROVE  IsPrefix(s, Join(p, f))
<1>1. Len(s) \in Nat /\ Len(p) \in Nat /\ Len(f) \in Nat
  BY TextLen, Ids
<1>2. /\ Join(p, f) \in Text /\ Len(Join(p, f)) = Len(p) + 1 + Len(f)
      /\ \A i \in 1..Len(p) : Join(p, f)[i] = p[i]
  BY Joined, Zenon
<1>3. Len(s) <= Len(p) /\ \A k \in 1..Len(s) : s[k] = p[k]
  BY PrefixPlaces
<1>4. Len(s) <= Len(Join(p, f)) /\ \A k \in 1..Len(s) : s[k] = Join(p, f)[k]
  BY <1>1, <1>2, <1>3
<1> QED
  BY <1>2, <1>4, PrefixPlaces

LEMMA SelfPrefix ==
    ASSUME NEW s \in Text
    PROVE  IsPrefix(s, s)
BY TextLen, PrefixPlaces

(* A folder mentioned in a path is a folder of the tree, above it.         *)
LEMMA MentionedAbove ==
    ASSUME NEW t, IsTree(t), NEW f \in Folder, NEW x \in Mentioning(t, f)
    PROVE  f \in DOMAIN t /\ IsPrefix(t[f], t[x]) /\ Len(t[f]) <= Len(t[x])
<1> DEFINE X == {z \in Mentioning(t, f) : ~(f \in DOMAIN t /\ IsPrefix(t[f], t[z]))}
<1>1. \A z \in DOMAIN t : z \in Folder /\ t[z] \in Text
  BY DEF IsTree
<1>2. X = {}
  <2> SUFFICES ASSUME X # {} PROVE FALSE
    OBVIOUS
  <2>1. X \in SUBSET DOMAIN t
    BY DEF Mentioning
  <2>2. PICK z \in X : t[z] = z \/ \E y \in DOMAIN t \ X : t[z] = Join(t[y], z)
    <3> HIDE DEF X
    <3> QED
      BY <2>1, TreeLeast
  <2>3. z \in DOMAIN t /\ Mentions(t[z], f) /\ ~(f \in DOMAIN t /\ IsPrefix(t[f], t[z]))
    BY DEF Mentioning
  <2>4. f # z
    BY <2>3, <1>1, SelfPrefix
  <2>5. t[z] # z
    BY <2>3, <2>4, <1>1, MentionsId
  <2>6. PICK y \in DOMAIN t : y \notin X /\ t[z] = Join(t[y], z)
    BY <2>2, <2>5
  <2>7. Mentions(t[y], f)
    BY <2>3, <2>4, <2>6, <1>1, MentionsJoin
  <2>8. f \in DOMAIN t /\ IsPrefix(t[f], t[y])
    BY <2>6, <2>7 DEF Mentioning
  <2> QED
    BY <2>3, <2>6, <2>8, <1>1, PrefixOfJoin
<1>3. f \in DOMAIN t /\ IsPrefix(t[f], t[x])
  BY <1>2
<1>4. x \in DOMAIN t
  BY DEF Mentioning
<1>5. t[f] \in Text /\ t[x] \in Text
  BY <1>1, <1>3, <1>4
<1>6. Len(t[f]) <= Len(t[x])
  BY <1>3, <1>5, PrefixPlaces
<1> QED
  BY <1>3, <1>6

LEMMA MentionsSelf ==
    ASSUME NEW t, IsTree(t), NEW f \in DOMAIN t
    PROVE  f \in Mentioning(t, f)
<1>1. \A z \in DOMAIN t : z \in Folder /\ t[z] \in Text
  BY DEF IsTree
<1>2. t[f] = f \/ \E y \in DOMAIN t : t[f] = Join(t[y], f)
  BY DEF IsTree, Written
<1> QED
  BY <1>1, <1>2, MentionsId, MentionsJoin DEF Mentioning

(* What is below a folder mentions it, and nothing else does.              *)
LEMMA MentioningIsBelow ==
    ASSUME NEW t, IsTree(t), NEW w, Hangs(t, w), NEW f \in DOMAIN t
    PROVE  /\ f \in Mentioning(t, f)
           /\ \A g \in DOMAIN t : w[g] \in Mentioning(t, f) => g \in Mentioning(t, f)
           /\ \A g \in Mentioning(t, f) : g # f => w[g] \in Mentioning(t, f)
           /\ \A S : f \in S /\ (\A g \in DOMAIN t : w[g] \in S => g \in S)
                       => Mentioning(t, f) \subseteq S
<1>1. \A z \in DOMAIN t : z \in Folder /\ t[z] \in Text
  BY DEF IsTree
<1>2. f \in Mentioning(t, f)
  BY MentionsSelf
<1>3. \A g \in DOMAIN t : \/ w[g] = Root /\ t[g] = g
                          \/ w[g] \in DOMAIN t /\ t[g] = Join(t[w[g]], g)
  BY DEF Hangs
<1>4. Root \notin DOMAIN t
  BY FolderAssumption DEF IsTree
<1>5. ASSUME NEW g \in DOMAIN t, w[g] \in Mentioning(t, f)
      PROVE  g \in Mentioning(t, f)
  <2>1. w[g] \in DOMAIN t /\ Mentions(t[w[g]], f)
    BY <1>5 DEF Mentioning
  <2>2. t[g] = Join(t[w[g]], g)
    BY <2>1, <1>3, <1>4
  <2> QED
    BY <2>1, <2>2, <1>1, MentionsJoin DEF Mentioning
<1>6. ASSUME NEW g \in Mentioning(t, f), g # f
      PROVE  w[g] \in Mentioning(t, f)
  <2>1. g \in DOMAIN t /\ Mentions(t[g], f)
    BY <1>6 DEF Mentioning
  <2>2. t[g] # g
    BY <2>1, <1>1, <1>6, MentionsId
  <2>3. w[g] \in DOMAIN t /\ t[g] = Join(t[w[g]], g)
    BY <2>1, <2>2, <1>3
  <2> QED
    BY <2>1, <2>3, <1>1, <1>6, MentionsJoin DEF Mentioning
<1>7. ASSUME NEW S, f \in S, \A g \in DOMAIN t : w[g] \in S => g \in S
      PROVE  Mentioning(t, f) \subseteq S
  <2> DEFINE Q == {g \in DOMAIN t : g \in Mentioning(t, f) => g \in S} \cup {Root}
  <2>1. ASSUME NEW g \in DOMAIN t, w[g] \in Q PROVE g \in Q
    <3> SUFFICES ASSUME g \in Mentioning(t, f), g # f PROVE g \in S
      BY <1>7
    <3>1. w[g] \in Mentioning(t, f)
      BY <1>6
    <3>2. w[g] \in DOMAIN t
      BY <3>1 DEF Mentioning
    <3>3. w[g] \in S
      BY <3>1, <3>2, <2>1, <1>4
    <3> QED
      BY <3>3, <1>7
  <2>2. DOMAIN t \subseteq Q
    <3>1. Root \in Q
      OBVIOUS
    <3> HIDE DEF Q
    <3> QED
      BY <3>1, <2>1, TreeIsRooted
  <2>3. Mentioning(t, f) \subseteq DOMAIN t
    BY DEF Mentioning
  <2> QED
    BY <2>2, <2>3, <1>4
<1> QED
  BY <1>2, <1>5, <1>6, <1>7

-----------------------------------------------------------------------------
(* Finding ids in the paths of a tree.                                     *)

LEMMA FoundInJoin ==
    ASSUME NEW p \in Text, NEW f \in Folder, NEW g \in Folder, NEW k \in Nat \ {0},
           At(g, Join(p, f), k)
    PROVE  \/ At(g, p, k)
           \/ k >= Len(p) + 2 /\ k <= Len(Join(p, f)) /\ Occurs(g, f)
<1> DEFINE j == Join(p, f)
<1>1. /\ g \in Text /\ f \in Text /\ Len(p) \in Nat
      /\ Len(f) \in Nat \ {0} /\ Len(g) \in Nat \ {0}
  BY TextLen, Ids
<1>2. /\ Len(j) = Len(p) + 1 + Len(f) /\ j \in Text
      /\ \A i \in 1..Len(p) : j[i] = p[i]
      /\ \A i \in 1..Len(f) : j[Len(p) + 1 + i] = f[i]
  BY Joined, Zenon
<1>3. k + Len(g) - 1 <= Len(j) /\ \A i \in 1..Len(g) : j[k + i - 1] = g[i]
  BY <1>1, <1>2, AtPlaces
<1>4. k + Len(g) - 1 <= Len(p) \/ k >= Len(p) + 2
  BY <1>2, <1>3, OnOneSide
<1> HIDE DEF j
<1>5. ASSUME k + Len(g) - 1 <= Len(p)
      PROVE  At(g, p, k)
  <2>1. \A i \in 1..Len(g) : k + i - 1 \in 1..Len(p)
    BY <1>1, <1>5
  <2>2. \A i \in 1..Len(g) : p[k + i - 1] = g[i]
    BY <2>1, <1>2, <1>3
  <2> QED
    BY <2>2, <1>1, <1>5, AtPlaces
<1>6. ASSUME k >= Len(p) + 2
      PROVE  k <= Len(j) /\ Occurs(g, f)
  <2> DEFINE m == k - (Len(p) + 1)
  <2>1. m \in 1..Len(f) /\ m + Len(g) - 1 <= Len(f) /\ k = Len(p) + 1 + m
    BY <1>1, <1>2, <1>3, <1>6
  <2> HIDE DEF m
  <2>2. ASSUME NEW i \in 1..Len(g) PROVE f[m + i - 1] = g[i]
    <3>1. m + i - 1 \in 1..Len(f) /\ Len(p) + 1 + (m + i - 1) = k + i - 1
      BY <2>1, <1>1
    <3>2. j[Len(p) + 1 + (m + i - 1)] = f[m + i - 1]
      BY <3>1, <1>2
    <3> QED
      BY <3>1, <3>2, <1>3
  <2>3. At(g, f, m)
    BY <2>1, <2>2, <1>1, AtPlaces
  <2>4. k <= Len(j)
    BY <1>1, <1>2, <1>3
  <2> QED
    BY <2>1, <2>3, <2>4 DEF Occurs
<1> QED
  BY <1>4, <1>5, <1>6 DEF j

(* An id found in a path lies in one of the ids written there.             *)
LEMMA FoundInPart ==
    ASSUME NEW t, IsTree(t), NEW g \in Folder, NEW x \in DOMAIN t,
           NEW k \in Nat \ {0}, At(g, t[x], k)
    PROVE  \E h \in DOMAIN t :
             Mentions(t[x], h) /\ Occurs(g, h) /\ k <= Len(t[h])
<1> DEFINE In(z, i) == \E h \in DOMAIN t :
                         Mentions(t[z], h) /\ Occurs(g, h) /\ i <= Len(t[h])
           X == {z \in DOMAIN t : \E i \in Nat \ {0} : At(g, t[z], i) /\ ~In(z, i)}
<1>1. \A z \in DOMAIN t : z \in Folder /\ t[z] \in Text
  BY DEF IsTree
<1>2. X = {}
  <2> SUFFICES ASSUME X # {} PROVE FALSE
    OBVIOUS
  <2>1. PICK z \in X : t[z] = z \/ \E y \in DOMAIN t \ X : t[z] = Join(t[y], z)
    <3>1. X \in SUBSET DOMAIN t
      OBVIOUS
    <3> HIDE DEF X
    <3> QED
      BY <3>1, TreeLeast
  <2>2. PICK i \in Nat \ {0} : At(g, t[z], i) /\ ~In(z, i)
    OBVIOUS
  <2>3. z \in DOMAIN t /\ z \in Folder
    BY <1>1
  <2>4. Mentions(t[z], z)
    BY <2>3, MentionsSelf DEF Mentioning
  <2>5. CASE t[z] = z
    <3>1. i + Len(g) - 1 <= Len(z) /\ Len(g) \in Nat \ {0} /\ Len(z) \in Nat
      BY <2>2, <2>3, <2>5, Ids DEF At
    <3>2. i \in 1..Len(z) /\ i <= Len(t[z])
      BY <3>1, <2>5
    <3>3. Occurs(g, z)
      BY <3>2, <2>2, <2>5 DEF Occurs
    <3> QED
      BY <3>2, <3>3, <2>2, <2>3, <2>4
  <2>6. CASE \E y \in DOMAIN t \ X : t[z] = Join(t[y], z)
    <3>1. PICK y \in DOMAIN t : y \notin X /\ t[z] = Join(t[y], z)
      BY <2>6
    <3>2. ~At(g, t[y], i)
      <4> SUFFICES ASSUME At(g, t[y], i) PROVE FALSE
        OBVIOUS
      <4>1. PICK h \in DOMAIN t : Mentions(t[y], h) /\ Occurs(g, h) /\ i <= Len(t[h])
        BY <3>1
      <4>2. Mentions(t[z], h)
        BY <4>1, <3>1, <2>3, <1>1, MentionsJoin
      <4> QED
        BY <4>1, <4>2, <2>2
    <3>3. i <= Len(t[z]) /\ Occurs(g, z)
      BY <3>1, <3>2, <2>2, <2>3, <1>1, FoundInJoin
    <3> QED
      BY <3>3, <2>2, <2>3, <2>4
  <2> QED
    BY <2>1, <2>5, <2>6
<1> QED
  BY <1>2

(* The path of a folder ends with its id.                                  *)
LEMMA EndsWithItself ==
    ASSUME NEW t, IsTree(t), NEW g \in DOMAIN t
    PROVE  /\ Len(g) <= Len(t[g])
           /\ \A i \in 1..Len(g) : t[g][Len(t[g]) - Len(g) + i] = g[i]
<1>1. g \in Folder /\ \A z \in DOMAIN t : t[z] \in Text /\ Len(t[z]) \in Nat
  BY TextLen DEF IsTree
<1>2. Len(g) \in Nat \ {0}
  BY <1>1, Ids
<1>3. CASE t[g] = g
  <2>1. \A i \in 1..Len(g) : Len(t[g]) - Len(g) + i = i
    BY <1>2, <1>3
  <2> QED
    BY <2>1, <1>2, <1>3
<1>4. CASE t[g] # g
  <2>1. PICK y \in DOMAIN t : t[g] = Join(t[y], g)
    BY <1>4 DEF IsTree, Written
  <2> DEFINE j == Join(t[y], g)
  <2>2. /\ Len(j) = Len(t[y]) + 1 + Len(g)
        /\ \A i \in 1..Len(g) : j[Len(t[y]) + 1 + i] = g[i]
    BY <1>1, Joined, Zenon
  <2> HIDE DEF j
  <2>3. Len(g) <= Len(j) /\ \A i \in 1..Len(g) : Len(j) - Len(g) + i = Len(t[y]) + 1 + i
    BY <2>2, <1>1, <1>2
  <2>4. t[g] = j
    BY <2>1 DEF j
  <2> QED
    BY <2>2, <2>3, <2>4
<1> QED
  BY <1>3, <1>4

(* Among the paths below f, no id mentioned is written inside another.     *)
Distinct(t, f) ==
    \A g, h \in Folder :
        g # h /\ Occurs(g, h) =>
            \/ \A k \in Mentioning(t, f) : ~Mentions(t[k], g)
            \/ \A k \in Mentioning(t, f) : ~Mentions(t[k], h)

(* Then the id of f is first found at the end of its path, ...             *)
LEMMA FoundAtTheEnd ==
    ASSUME NEW t, IsTree(t), NEW f \in DOMAIN t, NEW g \in DOMAIN t,
           t[f] = Join(t[g], f), Distinct(t, f), NEW k \in 1..Len(t[g]) + 1
    PROVE  ~At(f, t[f], k)
<1> SUFFICES ASSUME At(f, t[f], k) PROVE FALSE
  OBVIOUS
<1>1. \A z \in DOMAIN t : z \in Folder /\ t[z] \in Text /\ Len(t[z]) \in Nat
  BY TextLen DEF IsTree
<1>2. k \in Nat \ {0} /\ ~(k >= Len(t[g]) + 2)
  BY <1>1
<1>3. At(f, t[g], k)
  BY <1>1, <1>2, FoundInJoin
<1>4. PICK h \in DOMAIN t : Mentions(t[g], h) /\ Occurs(f, h)
  BY <1>1, <1>2, <1>3, FoundInPart
<1>5. f \in Mentioning(t, f) /\ Mentions(t[f], f)
  BY MentionsSelf DEF Mentioning
<1>6. Mentions(t[f], h)
  BY <1>1, <1>4, MentionsJoin
<1>7. h = f
  BY <1>1, <1>4, <1>5, <1>6 DEF Distinct
<1>8. g \in Mentioning(t, f)
  BY <1>4, <1>7 DEF Mentioning
<1>9. Len(t[f]) <= Len(t[g])
  BY <1>1, <1>8, MentionedAbove
<1>10. Len(t[f]) = Len(t[g]) + 1 + Len(f) /\ Len(f) \in Nat
  BY <1>1, JoinedLen
<1> QED
  BY <1>1, <1>9, <1>10

(* ... and the parent's path only at the beginning of the paths below f.   *)
LEMMA FoundAtTheBeginning ==
    ASSUME NEW t, IsTree(t), NEW f \in DOMAIN t, NEW g \in DOMAIN t,
           t[f] = Join(t[g], f), Distinct(t, f), NEW x \in Mentioning(t, f)
    PROVE  /\ At(t[g], t[x], 1) /\ t[g] # <<>>
           /\ \A k \in Len(t[g]) + 1..Len(t[x]) : ~At(t[g], t[x], k)
<1> DEFINE q == t[g]
<1>1. \A z \in DOMAIN t : z \in Folder /\ t[z] \in Text /\ Len(t[z]) \in Nat
  BY TextLen DEF IsTree
<1>2. x \in DOMAIN t /\ IsPrefix(t[f], t[x])
  BY <1>1, MentionedAbove DEF Mentioning
<1>3. Len(g) \in Nat \ {0} /\ Len(g) <= Len(q)
      /\ \A i \in 1..Len(g) : q[Len(q) - Len(g) + i] = g[i]
  BY <1>1, Ids, EndsWithItself
<1>4. q # <<>>
  BY <1>1, <1>3, EmptySeq
<1>5. At(q, t[x], 1)
  <2> DEFINE j == Join(q, f)
  <2>1. j \in Text /\ Len(j) = Len(q) + 1 + Len(f) /\ \A i \in 1..Len(q) : j[i] = q[i]
    BY <1>1, Joined, Zenon
  <2> HIDE DEF j
  <2>2. t[f] = j /\ Len(f) \in Nat
    BY <1>1, Ids DEF j
  <2>3. Len(j) <= Len(t[x]) /\ \A i \in 1..Len(j) : j[i] = t[x][i]
    BY <2>1, <2>2, <1>1, <1>2, PrefixPlaces
  <2>4. 1 + Len(q) - 1 <= Len(t[x])
    BY <2>1, <2>2, <2>3, <1>1
  <2>5. ASSUME NEW i \in 1..Len(q) PROVE t[x][1 + i - 1] = q[i]
    <3>1. i \in 1..Len(j) /\ 1 + i - 1 = i
      BY <2>1, <2>2, <1>1
    <3> QED
      BY <3>1, <2>1, <2>3
  <2>6. q \in Text /\ t[x] \in Text /\ 1 \in Nat \ {0}
    BY <1>1, <1>2
  <2> QED
    BY <2>4, <2>5, <2>6, AtPlaces
<1>6. ASSUME NEW k \in Len(q) + 1..Len(t[x]), At(q, t[x], k)
      PROVE  FALSE
  <2> DEFINE m == k + (Len(q) - Len(g))
  <2>0. q \in Text /\ t[x] \in Text /\ k \in Nat \ {0} /\ g \in Text
        /\ Len(q) \in Nat /\ Len(t[x]) \in Nat
    BY <1>1, <1>2, Ids
  <2>1. k + Len(q) - 1 <= Len(t[x]) /\ \A i \in 1..Len(q) : t[x][k + i - 1] = q[i]
    BY <2>0, <1>6, AtPlaces
  <2>2. m \in Nat \ {0} /\ m > Len(q) /\ m + Len(g) - 1 <= Len(t[x])
    BY <2>0, <2>1, <1>3
  <2>3. ASSUME NEW i \in 1..Len(g) PROVE t[x][m + i - 1] = g[i]
    <3>1. /\ Len(q) - Len(g) + i \in 1..Len(q)
          /\ k + (Len(q) - Len(g) + i) - 1 = m + i - 1
      BY <2>0, <1>3
    <3>2. t[x][k + (Len(q) - Len(g) + i) - 1] = q[Len(q) - Len(g) + i]
      BY <3>1, <2>1
    <3> QED
      BY <3>1, <3>2, <1>3
  <2> HIDE DEF m
  <2>4. At(g, t[x], m)
    BY <2>0, <2>2, <2>3, AtPlaces
  <2>5. PICK h \in DOMAIN t : Mentions(t[x], h) /\ Occurs(g, h) /\ m <= Len(t[h])
    BY <2>2, <2>4, <1>1, <1>2, FoundInPart
  <2>6. h # g
    BY <2>0, <2>2, <2>5
  <2>7. Mentions(t[f], g)
    <3>1. Mentions(t[g], g)
      BY MentionsSelf DEF Mentioning
    <3> QED
      BY <3>1, <1>1, MentionsJoin
  <2>8. f \in Mentioning(t, f)
    BY MentionsSelf
  <2> QED
    BY <2>5, <2>6, <2>7, <2>8, <1>1 DEF Distinct
<1> QED
  BY <1>4, <1>5, <1>6

(* The tree with f and all below it moved to p.                            *)
Moved(t, f, q, p) ==
    [x \in DOMAIN t |-> IF x \in Mentioning(t, f) THEN Cut(t[x], q, t[p]) ELSE t[x]]

LEMMA MovedTree ==
    ASSUME NEW t, IsTree(t), NEW w, Hangs(t, w),
           NEW f \in DOMAIN t, NEW g \in DOMAIN t, NEW p \in DOMAIN t,
           t[f] = Join(t[g], f), p \notin Mentioning(t, f)
    PROVE  /\ IsTree(Moved(t, f, t[g], p))
           /\ Hangs(Moved(t, f, t[g], p), [w EXCEPT ![f] = p])
<1> DEFINE q == t[g]
           u == Moved(t, f, q, p)
           v == [w EXCEPT ![f] = p]
           B == Mentioning(t, f)
<1>1. \A z \in DOMAIN t : z \in Folder /\ t[z] \in Text /\ Len(t[z]) \in Nat
  BY TextLen DEF IsTree
<1>2. /\ f \in B /\ B \subseteq DOMAIN t
      /\ \A x \in DOMAIN t : w[x] \in B => x \in B
      /\ \A x \in B : x # f => w[x] \in B
  BY MentioningIsBelow DEF Mentioning
<1>3. \A x \in B : Len(q) <= Len(t[x])
  <2> TAKE x \in B
  <2>1. Len(t[f]) = Len(q) + 1 + Len(f) /\ Len(f) \in Nat
    BY <1>1, JoinedLen
  <2>2. Len(t[f]) <= Len(t[x]) /\ x \in DOMAIN t
    BY <1>1, <1>2, MentionedAbove
  <2> QED
    BY <2>1, <2>2, <1>1
<1> HIDE DEF B
<1>4. DOMAIN u = DOMAIN t
      /\ \A x \in DOMAIN t : u[x] = IF x \in B THEN Cut(t[x], q, t[p]) ELSE t[x]
  BY DEF Moved, B
<1> HIDE DEF u
<1>5. \A x \in B : Cut(t[x], q, t[p]) \in Text
  BY <1>1, <1>2, <1>3, CutPlaces
<1>6. u \in [DOMAIN u -> Text] /\ DOMAIN u \subseteq Folder
  <2>1. u = [x \in DOMAIN t |-> IF x \in B THEN Cut(t[x], q, t[p]) ELSE t[x]]
    BY DEF u, Moved, B
  <2>2. u \in [DOMAIN t -> Text]
    BY <2>1, <1>1, <1>5
  <2> QED
    BY <2>2, <1>1, <1>4
<1>7. v \in [DOMAIN t -> DOMAIN t \cup {Root}] /\ v[f] = p
      /\ \A x \in DOMAIN t : x # f => v[x] = w[x]
  BY DEF Hangs
<1> HIDE DEF v
<1>8. u[f] = Join(u[p], f)
  BY <1>1, <1>2, <1>4, CutOff DEF B
<1>9. ASSUME NEW x \in DOMAIN t, x # f
      PROVE  \/ v[x] = Root /\ u[x] = x
             \/ v[x] \in DOMAIN t /\ u[x] = Join(u[v[x]], x)
  <2>1. \/ w[x] = Root /\ t[x] = x
        \/ w[x] \in DOMAIN t /\ t[x] = Join(t[w[x]], x)
    BY DEF Hangs
  <2>2. CASE x \in B
    <3>1. w[x] \in B /\ w[x] \in DOMAIN t /\ w[x] # Root
      BY <2>2, <1>1, <1>2, <1>9, FolderAssumption
    <3>2. t[x] = Join(t[w[x]], x)
      BY <2>1, <3>1
    <3>3. Cut(t[x], q, t[p]) = Join(Cut(t[w[x]], q, t[p]), x)
      BY <3>1, <3>2, <1>1, <1>3, CutOfJoin
    <3> QED
      BY <3>1, <3>3, <2>2, <1>4, <1>7, <1>9
  <2>3. CASE x \notin B
    <3>1. w[x] \notin B
      BY <2>3, <1>2
    <3> QED
      BY <3>1, <2>1, <2>3, <1>4, <1>7, <1>9
  <2> QED
    BY <2>2, <2>3
<1>10. Hangs(u, v)
  BY <1>4, <1>7, <1>8, <1>9 DEF Hangs
<1>11. IsTree(u)
  BY <1>4, <1>6, <1>10 DEF IsTree, Hangs, Written
<1> QED
  BY <1>10, <1>11 DEF u, v

Set(t, f, v) == [x \in DOMAIN t \cup {f} |-> IF x = f THEN v ELSE t[x]]
Without(t, B) == [x \in DOMAIN t \ B |-> t[x]]

(* A tree with one more folder, ...                                        *)
LEMMA AddedTree ==
    ASSUME NEW t, IsTree(t), NEW w, Hangs(t, w), NEW f \in Folder \ DOMAIN t,
           NEW p, NEW v,
           \/ p = Root /\ v = f
           \/ p \in DOMAIN t /\ v = Join(t[p], f)
    PROVE  IsTree(Set(t, f, v)) /\ Hangs(Set(t, f, v), Set(w, f, p))
<1> DEFINE u == [x \in DOMAIN t \cup {f} |-> IF x = f THEN v ELSE t[x]]
           e == [x \in DOMAIN t \cup {f} |-> IF x = f THEN p ELSE w[x]]
<1>0. Set(t, f, v) = u /\ Set(w, f, p) = e
  BY DEF Set, Hangs
<1>1. \A x \in DOMAIN t : x \in Folder /\ t[x] \in Text
  BY DEF IsTree
<1>2. v \in Text
  BY <1>1, Ids, Joined, Zenon
<1>3. \A x \in DOMAIN t : /\ x # f /\ w[x] \in DOMAIN t \cup {Root}
                          /\ \/ w[x] = Root /\ t[x] = x
                             \/ w[x] \in DOMAIN t /\ t[x] = Join(t[w[x]], x)
  BY DEF Hangs
<1>4. DOMAIN u = DOMAIN t \cup {f} /\ u[f] = v /\ \A x \in DOMAIN t : u[x] = t[x]
  BY <1>3
<1>5. DOMAIN e = DOMAIN t \cup {f} /\ e[f] = p /\ \A x \in DOMAIN t : e[x] = w[x]
  BY <1>3
<1>6. u \in [DOMAIN t \cup {f} -> Text]
  BY <1>1, <1>2
<1>7. e \in [DOMAIN t \cup {f} -> DOMAIN t \cup {f} \cup {Root}]
  BY <1>3
<1> HIDE DEF u, e
<1>8. \A x \in DOMAIN u : \/ e[x] = Root /\ u[x] = x
                          \/ e[x] \in DOMAIN u /\ u[x] = Join(u[e[x]], x)
  BY <1>3, <1>4, <1>5
<1>9. Hangs(u, e)
  BY <1>4, <1>7, <1>8 DEF Hangs
<1>10. IsTree(u)
  BY <1>1, <1>4, <1>6, <1>8 DEF IsTree, Written
<1> QED
  BY <1>0, <1>9, <1>10

(* ... with a leaf put at the root, ...                                    *)
LEMMA UprootedTree ==
    ASSUME NEW t, IsTree(t), NEW w, Hangs(t, w), NEW f \in DOMAIN t,
           Mentioning(t, f) \subseteq {f}
    PROVE  IsTree(Set(t, f, f)) /\ Hangs(Set(t, f, f), [w EXCEPT ![f] = Root])
<1> DEFINE u == Set(t, f, f)
           e == [w EXCEPT ![f] = Root]
<1>1. f \in Mentioning(t, f) /\ \A x \in DOMAIN t : w[x] \in Mentioning(t, f) => x \in Mentioning(t, f)
  BY MentioningIsBelow
<1>2. \A x \in DOMAIN t : x \in Folder /\ t[x] \in Text /\ (x # f => w[x] # f)
  BY <1>1 DEF IsTree
<1>3. /\ w \in [DOMAIN t -> DOMAIN t \cup {Root}]
      /\ \A x \in DOMAIN t : \/ w[x] = Root /\ t[x] = x
                             \/ w[x] \in DOMAIN t /\ t[x] = Join(t[w[x]], x)
  BY DEF Hangs
<1>4. DOMAIN u = DOMAIN t /\ u[f] = f /\ \A x \in DOMAIN t : x # f => u[x] = t[x]
  BY DEF Set
<1>5. /\ e \in [DOMAIN t -> DOMAIN t \cup {Root}] /\ e[f] = Root
      /\ \A x \in DOMAIN t : x # f => e[x] = w[x]
  BY <1>3
<1> HIDE DEF u, e
<1>6. \A x \in DOMAIN u : \/ e[x] = Root /\ u[x] = x
                          \/ e[x] \in DOMAIN u /\ u[x] = Join(u[e[x]], x)
  BY <1>2, <1>3, <1>4, <1>5
<1>7. Hangs(u, e)
  BY <1>4, <1>5, <1>6 DEF Hangs
<1>8. u \in [DOMAIN t -> Text]
  BY <1>2, Ids DEF u, Set
<1>9. IsTree(u)
  BY <1>2, <1>4, <1>6, <1>8 DEF IsTree, Written
<1> QED
  BY <1>7, <1>9 DEF u, e

(* ... and with a folder and what is below it gone.                        *)
LEMMA PrunedTree ==
    ASSUME NEW t, IsTree(t), NEW w, Hangs(t, w), NEW f \in DOMAIN t
    PROVE  /\ IsTree(Without(t, Mentioning(t, f)))
           /\ Hangs(Without(t, Mentioning(t, f)), Without(w, Mentioning(t, f)))
<1> DEFINE B == Mentioning(t, f)
           u == Without(t, B)
           e == Without(w, B)
<1>1. \A x \in DOMAIN t : w[x] \in B => x \in B
  BY MentioningIsBelow
<1> HIDE DEF B
<1>2. \A x \in DOMAIN t : x \in Folder /\ t[x] \in Text
  BY DEF IsTree
<1>3. \A x \in DOMAIN t : /\ w[x] \in DOMAIN t \cup {Root}
                          /\ \/ w[x] = Root /\ t[x] = x
                             \/ w[x] \in DOMAIN t /\ t[x] = Join(t[w[x]], x)
  BY DEF Hangs
<1>4. DOMAIN u = DOMAIN t \ B /\ \A x \in DOMAIN t \ B : u[x] = t[x]
  BY DEF Without
<1>5. DOMAIN e = DOMAIN t \ B /\ \A x \in DOMAIN t \ B : e[x] = w[x]
  BY DEF Without, Hangs
<1>6. Root \notin DOMAIN t
  BY <1>2, FolderAssumption
<1>7. e \in [DOMAIN t \ B -> (DOMAIN t \ B) \cup {Root}]
  <2>1. e = [x \in DOMAIN t \ B |-> w[x]]
    BY DEF Without, Hangs
  <2> QED
    BY <2>1, <1>1, <1>3
<1> HIDE DEF e
<1>8. \A x \in DOMAIN u : \/ e[x] = Root /\ u[x] = x
                          \/ e[x] \in DOMAIN u /\ u[x] = Join(u[e[x]], x)
  BY <1>1, <1>3, <1>4, <1>5
<1>9. Hangs(u, e)
  BY <1>4, <1>7, <1>8 DEF Hangs
<1>10. u = [x \in DOMAIN t \ B |-> t[x]]
  BY DEF Without
<1> HIDE DEF u
<1>11. u \in [DOMAIN t \ B -> Text]
  BY <1>2, <1>10
<1>12. IsTree(u)
  BY <1>2, <1>4, <1>8, <1>11 DEF IsTree, Written
<1> QED
  BY <1>9, <1>12 DEF u, e, B

-----------------------------------------------------------------------------
(* The tree that get_children shows.                                       *)

ChildIn(t, g, f) ==
    IsPrefix(t[g] \o Sep, t[f]) /\ Depth(t[f]) = Depth(t[g]) + 1

(* w gives every folder one of those it is shown below.                    *)
Shows(t, w) ==
    /\ DOMAIN w = DOMAIN t /\ w = [f \in DOMAIN t |-> w[f]]
    /\ \A f \in DOMAIN t :
         /\ Depth(t[f]) = 0 => w[f] = Root
         /\ \A g \in DOMAIN t :
              Depth(t[f]) # 0 /\ ChildIn(t, g, f)
                => w[f] \in DOMAIN t /\ ChildIn(t, w[f], f)

LEMMA ShownIsHung ==
    ASSUME NEW t, IsTree(t), NEW w, Shows(t, w)
    PROVE  Hangs(t, w)
<1>1. \A x \in DOMAIN t : x \in Folder /\ t[x] \in Text
  BY DEF IsTree
<1>2. ASSUME NEW f \in DOMAIN t
      PROVE  \/ w[f] = Root /\ t[f] = f
             \/ w[f] \in DOMAIN t /\ t[f] = Join(t[w[f]], f)
  <2>1. CASE t[f] = f
    BY <2>1, <1>1, DepthOfId DEF Shows
  <2>2. CASE t[f] # f
    <3>1. PICK g \in DOMAIN t : t[f] = Join(t[g], f)
      BY <2>2 DEF IsTree, Written
    <3>2. \A h \in DOMAIN t : ChildIn(t, h, f) <=> t[h] = t[g]
      BY <3>1, <1>1, OneParent DEF ChildIn
    <3>3. Depth(t[f]) # 0
      <4>1. Depth(t[f]) = Depth(t[g]) + 1 /\ Depth(t[g]) \in Nat
        BY <3>1, <1>1, DepthOfJoin, SlashesFinite
      <4> QED
        BY <4>1
    <3>4. w[f] \in DOMAIN t /\ ChildIn(t, w[f], f)
      BY <3>2, <3>3 DEF Shows
    <3> QED
      BY <3>1, <3>2, <3>4
  <2> QED
    BY <2>1, <2>2
<1>3. w \in [DOMAIN t -> DOMAIN t \cup {Root}]
  BY <1>2 DEF Shows
<1> QED
  BY <1>2, <1>3 DEF Hangs

LEMMA ParentBarShows == Shows(Tree, parentBar)
<1>1. DOMAIN parentBar = Shown /\ DOMAIN Tree = Shown
      /\ \A f \in Shown : Tree[f] = path[f]
  BY DEF parentBar, Tree
<1>2. parentBar = [f \in DOMAIN Tree |-> parentBar[f]]
  BY <1>1 DEF parentBar
<1>3. \A f, g \in Shown : ChildIn(Tree, g, f) <=> Child(g, f)
  BY <1>1 DEF ChildIn, Child
<1>4. \A f \in Shown :
        /\ Depth(path[f]) = 0 => parentBar[f] = Root
        /\ \A g \in Shown : Depth(path[f]) # 0 /\ Child(g, f)
             => parentBar[f] \in Shown /\ Child(parentBar[f], f)
  BY DEF parentBar
<1> QED
  BY <1>1, <1>2, <1>3, <1>4 DEF Shows

LEMMA ParentBarShowsNext == Shows(Tree', parentBar')
<1>1. DOMAIN parentBar' = Shown' /\ DOMAIN Tree' = Shown'
      /\ \A f \in Shown' : Tree'[f] = path'[f]
  BY DEF parentBar, Tree
<1>2. parentBar' = [f \in DOMAIN Tree' |-> parentBar'[f]]
  BY <1>1 DEF parentBar
<1>3. \A f, g \in Shown' : ChildIn(Tree', g, f) <=> Child(g, f)'
  BY <1>1 DEF ChildIn, Child
<1>4. \A f \in Shown' :
        /\ Depth(path'[f]) = 0 => parentBar'[f] = Root
        /\ \A g \in Shown' : Depth(path'[f]) # 0 /\ Child(g, f)'
             => parentBar'[f] \in Shown' /\ Child(parentBar[f], f)'
  BY DEF parentBar, Child
<1> QED
  BY <1>1, <1>2, <1>3, <1>4 DEF Shows

(* In order, the paths are those of a tree, and parentBar gives the parent.*)
LEMMA TreeInOrder ==
    ASSUME TypeOK, InOrder
    PROVE  /\ IsTree(Tree) /\ Hangs(Tree, parentBar)
           /\ DOMAIN Tree = Shown /\ DOMAIN parentBar = Shown
           /\ \A f \in Shown : Tree[f] = path[f]
           /\ \A f \in Folder : Related(f) = Mentioning(Tree, f)
<1>1. DOMAIN Tree = Shown /\ \A f \in Shown : Tree[f] = path[f]
  BY DEF Tree
<1>2. \A f \in Shown : f \in Folder /\ f \in rows /\ path[f] \in Text /\ path[f] # Null
  BY DEF TypeOK, Shown
<1>3. IsTree(Tree)
  <2>1. Tree \in [Shown -> Text]
    BY <1>2 DEF Tree
  <2> QED
    BY <2>1, <1>1, <1>2 DEF IsTree, InOrder
<1>4. Hangs(Tree, parentBar)
  BY <1>3, ParentBarShows, ShownIsHung
<1>5. ASSUME NEW f \in Folder PROVE Related(f) = Mentioning(Tree, f)
  <2>1. Related(f) = {g \in Shown : Mentions(path[g], f)}
    BY DEF Related, Mentions, Shown
  <2>2. Mentioning(Tree, f) = {g \in Shown : Mentions(Tree[g], f)}
    BY <1>1 DEF Mentioning
  <2> QED
    BY <2>1, <2>2, <1>1
<1> QED
  BY <1>1, <1>3, <1>4, <1>5 DEF parentBar

LEMMA TreeNext ==
    ASSUME NEW t, NEW w, IsTree(t), Hangs(t, w), Tree' = t
    PROVE  parentBar' = w /\ Written(Tree)' /\ Shown' = DOMAIN t
<1>1. Hangs(t, parentBar')
  BY ParentBarShowsNext, ShownIsHung
<1>2. parentBar' = w
  BY <1>1, HangsOnce
<1>3. Written(Tree')
  BY DEF IsTree
<1> QED
  BY <1>2, <1>3 DEF Tree

LEMMA PlacesStay ==
    ASSUME Dashboard \cap rows' = Dashboard \cap rows,
           \A d \in Dashboard \cap rows : path'[d] = path[d]
    PROVE  placeBar' = placeBar
BY DEF placeBar

(* What Forest sees.                                                       *)
LEMMA ForestInOrder ==
    ASSUME TypeOK, InOrder
    PROVE  /\ F!Folders = Shown /\ F!Places = Shown \cup {Root}
           /\ F!TypeOK /\ F!Rooted
           /\ \A f \in Shown : F!Below(f) = Related(f) /\ f \in Related(f)
<1>1. /\ IsTree(Tree) /\ Hangs(Tree, parentBar)
      /\ DOMAIN Tree = Shown /\ DOMAIN parentBar = Shown
      /\ \A f \in Folder : Related(f) = Mentioning(Tree, f)
  BY TreeInOrder
<1>2. F!Folders = Shown /\ F!Places = Shown \cup {Root}
  BY <1>1 DEF F!Folders, F!Places
<1>3. F!TypeOK
  <2>1. Shown \subseteq Folder
    BY DEF Shown
  <2>2. parentBar \in [Shown -> Shown \cup {Root}]
    BY <1>1 DEF Hangs
  <2>3. /\ DOMAIN placeBar \subseteq Dashboard
        /\ placeBar \in [DOMAIN placeBar -> Shown \cup {Root}]
    BY DEF placeBar, InOrder
  <2> QED
    BY <2>1, <2>2, <2>3, <1>2 DEF F!TypeOK
<1>4. F!Rooted
  BY <1>1, <1>2, TreeIsRooted DEF F!Rooted, F!Closed
<1>5. ASSUME NEW f \in Shown
      PROVE  F!Below(f) = Related(f) /\ f \in Related(f)
  <2>1. f \in Folder
    BY DEF Shown
  <2>2. /\ f \in Related(f)
        /\ \A g \in Shown : parentBar[g] \in Related(f) => g \in Related(f)
        /\ \A S : f \in S /\ (\A g \in Shown : parentBar[g] \in S => g \in S)
                    => Related(f) \subseteq S
    BY <2>1, <1>1, MentioningIsBelow
  <2>3. Related(f) \in SUBSET Shown
    BY <2>1, <1>1 DEF Mentioning
  <2>4. F!Below(f) = {g \in Shown : \A S \in SUBSET Shown :
          f \in S /\ (\A h \in Shown : parentBar[h] \in S => h \in S) => g \in S}
    BY <1>2 DEF F!Below, F!Closed
  <2> QED
    BY <2>2, <2>3, <2>4
<1> QED
  BY <1>2, <1>3, <1>4, <1>5

-----------------------------------------------------------------------------
(* Types.                                                                  *)

LEMMA ShapeStays ==
    ASSUME NEW c, NEW k, NEW l, k \subseteq l, Shape(c, k)
    PROVE  Shape(c, l)
BY DEF Shape

Shapes == DOMAIN req = Request /\ \A r \in Request : Shape(req[r], Known)

LEMMA ShapesNext ==
    ASSUME Shapes, NEW r \in Request, NEW c, req' = [req EXCEPT ![r] = c],
           Known \subseteq Known', Shape(c, Known')
    PROVE  Shapes'
<1>1. DOMAIN req' = Request
  BY DEF Shapes
<1>2. ASSUME NEW s \in Request PROVE Shape(req'[s], Known')
  <2>1. CASE s = r
    BY <2>1 DEF Shapes
  <2>2. CASE s # r
    BY <2>2, ShapeStays DEF Shapes
  <2> QED
    BY <2>1, <2>2
<1> QED
  BY <1>1, <1>2 DEF Shapes

(* A folder that has a path keeps one, or goes.                            *)
LEMMA KnownNext ==
    ASSUME used \subseteq used',
           \A f \in Folder \cap used :
             f \in rows' => f \in rows /\ (path[f] # Null => path'[f] # Null)
    PROVE  Known \subseteq Known'
BY DEF Known

LEMMA IdleShape == \A k : Shape(Idle, k)
BY DEF Shape

-----------------------------------------------------------------------------
(* Steps.                                                                  *)

Types == TypeOK /\ Shapes

(* As long as the tree stays in order, Forest has a step like this one.    *)
Follows ==
    orderly' => /\ orderly /\ InOrder'
                /\ F!Step \/ (parentBar' = parentBar /\ placeBar' = placeBar)

LEMMA TreeStays ==
    ASSUME TypeOK, orderly => InOrder, orderly' => orderly,
           Shown' = Shown, \A f \in Shown : path'[f] = path[f],
           Dashboard \cap rows' = Dashboard \cap rows,
           \A d \in Dashboard \cap rows : path'[d] = path[d]
    PROVE  Follows
<1> SUFFICES ASSUME orderly' PROVE InOrder' /\ parentBar' = parentBar /\ placeBar' = placeBar
  BY DEF Follows
<1>1. InOrder
  OBVIOUS
<1>2. Tree' = Tree
  BY DEF Tree
<1>3. parentBar' = parentBar /\ Written(Tree)'
  BY <1>1, <1>2, TreeInOrder, TreeNext
<1>4. placeBar' = placeBar
  BY PlacesStay
<1>5. \A d \in Dashboard \cap rows' : path'[d] \in Shown' \cup {Null}
  BY <1>1 DEF InOrder
<1> QED
  BY <1>3, <1>4, <1>5 DEF InOrder

LEMMA NoRowChanges ==
    ASSUME TypeOK, orderly => InOrder, orderly' => orderly, rows' = rows, path' = path
    PROVE  Follows
<1>1. Shown' = Shown
  BY DEF Shown
<1> QED
  BY <1>1, TreeStays

LEMMA RowTypes ==
    ASSUME TypeOK
    PROVE  /\ rows \subseteq used /\ used \subseteq Row
           /\ \A x \in Row : path[x] # Null => x \in rows
           /\ \A d \in Dashboard : d \in Row /\ d \notin Folder
           /\ \A f \in Folder : f \in Row /\ f \notin Dashboard /\ path[f] \in Text \cup {Null}
BY FolderAssumption DEF TypeOK, Row

(* add_folder.                                                             *)
LEMMA InsertFolderStep ==
    ASSUME Types, orderly => InOrder, NEW r \in Request, InsertFolder(r)
    PROVE  Types' /\ Follows
<1>1. PICK f \in Folder \ used, p \in Folder \cup {Root} :
        /\ p # Root => Exists(p) /\ path[p] # Null
        /\ Start(r, [op |-> "add", pc |-> "read", folder |-> f, parent |-> p])
        /\ rows' = rows \cup {f} /\ used' = used \cup {f}
        /\ path' = path /\ orderly' = orderly
  BY DEF InsertFolder
<1> DEFINE c == [op |-> "add", pc |-> "read", folder |-> f, parent |-> p]
<1>2. f \notin rows /\ path[f] = Null /\ f \notin Dashboard
  BY RowTypes DEF Types
<1>3. Known \subseteq Known'
  BY <1>1, KnownNext
<1>4. p \in Known' \cup {Root}
  BY <1>1, <1>3, RowTypes DEF Known, Exists, Types
<1>5. req' = [req EXCEPT ![r] = c] /\ served' = served + 1 /\ served < MaxServed
  BY <1>1 DEF Start
<1>6. Shape(c, Known')
  BY <1>4 DEF Shape
<1> HIDE DEF c
<1>7. Shapes'
  BY <1>3, <1>5, <1>6, ShapesNext DEF Types
<1>8. TypeOK'
  BY <1>1, <1>2, <1>5, FolderAssumption DEF Types, TypeOK, Row
<1>9. Shown' = Shown /\ Dashboard \cap rows' = Dashboard \cap rows
  BY <1>1, <1>2 DEF Shown
<1>10. Follows
  BY <1>1, <1>9, TreeStays DEF Types
<1> QED
  BY <1>7, <1>8, <1>10 DEF Types

LEMMA ReadParentStep ==
    ASSUME Types, orderly => InOrder, NEW r \in Request, ReadParent(r), UNCHANGED used
    PROVE  Types' /\ Follows
<1> DEFINE c == req[r]
           d == [op |-> "add", pc |-> "commit", folder |-> c.folder, parent |-> c.parent,
                 path |-> IF c.parent = Root THEN c.folder
                          ELSE Join(path[c.parent], c.folder)]
<1>1. c.op = "add" /\ c.pc = "read"
      /\ rows' = rows /\ path' = path /\ served' = served /\ orderly' = orderly
  BY DEF ReadParent
<1>2. TypeOK' /\ Known' = Known
  BY <1>1 DEF Types, TypeOK, Known
<1>3. Shape(c, Known)
  BY DEF Types, Shapes
<1>4. c.folder \in Folder /\ c.parent \in Known \cup {Root}
  BY <1>1, <1>3 DEF Shape, Idle
<1>5. CASE End(r)
  <2>1. req' = [req EXCEPT ![r] = Idle] /\ Shape(Idle, Known')
    BY <1>5, IdleShape DEF End
  <2> QED
    BY <2>1, <1>2, ShapesNext, <1>1, NoRowChanges DEF Types
<1>6. CASE (c.parent = Root \/ Exists(c.parent)) /\ req' = [req EXCEPT ![r] = d]
  <2>1. d.path \in Text
    <3>1. CASE c.parent = Root
      BY <3>1, <1>4, Ids
    <3>2. CASE c.parent # Root
      <4>1. path[c.parent] \in Text
        BY <3>2, <1>4, <1>6 DEF Types, TypeOK, Known, Exists
      <4>2. Join(path[c.parent], c.folder) \in Text
        BY <4>1, <1>4, Joined, Zenon
      <4> QED
        BY <3>2, <4>2
    <3> QED
      BY <3>1, <3>2
  <2>2. d.parent = Root => d.path = d.folder
    OBVIOUS
  <2>3. Shape(d, Known')
    <3>1. d \in [op : {"add"}, pc : {"commit"}, folder : Folder,
                 parent : Known' \cup {Root}, path : Text]
      BY <2>1, <1>2, <1>4
    <3> QED
      BY <2>2, <3>1 DEF Shape
  <2> HIDE DEF d
  <2>4. Shapes'
    BY <2>3, <1>2, <1>6, ShapesNext DEF Types
  <2> QED
    BY <2>4, <1>1, <1>2, NoRowChanges DEF Types
<1> QED
  BY <1>5, <1>6 DEF ReadParent

LEMMA SetPathStep ==
    ASSUME Types, orderly => InOrder, NEW r \in Request, SetPath(r), UNCHANGED used
    PROVE  Types' /\ Follows
<1> DEFINE c == req[r]
           f == c.folder
           p == c.parent
           t == Tree
<1>1. /\ c.op = "add" /\ c.pc = "commit" /\ rows' = rows /\ served' = served
      /\ req' = [req EXCEPT ![r] = Idle]
  BY DEF SetPath, End
<1>2. Shape(c, Known)
  BY DEF Types, Shapes
<1>3. /\ f \in Folder /\ p \in Known \cup {Root} /\ c.path \in Text
      /\ p = Root => c.path = f
  BY <1>1, <1>2 DEF Shape, Idle
<1>4. CASE ~Exists(f) /\ UNCHANGED <<path, orderly>>
  <2>1. TypeOK' /\ Known' = Known
    BY <1>1, <1>4 DEF Types, TypeOK, Known
  <2>2. Shapes'
    BY <2>1, <1>1, IdleShape, ShapesNext DEF Types
  <2> QED
    BY <2>1, <2>2, <1>1, <1>4, NoRowChanges DEF Types
<1>5. CASE /\ Exists(f) /\ path' = [path EXCEPT ![f] = c.path]
           /\ Keep(/\ path[f] = Null
                   /\ p # Root => Exists(p) /\ c.path = Join(path[p], f))
  <2>1. f \in rows /\ f \notin Dashboard /\ c.path # Null
    BY <1>3, <1>5, FolderAssumption DEF Exists
  <2>2. /\ DOMAIN path' = Row /\ path'[f] = c.path
        /\ \A x \in Row : x # f => path'[x] = path[x]
    BY <1>3, <1>5 DEF Types, TypeOK, Row
  <2>3. TypeOK'
    BY <2>1, <2>2, <1>1, <1>3, <1>5, FolderAssumption DEF Types, TypeOK, Keep, Row
  <2>4. Known \subseteq Known'
    BY <2>1, <2>2, <1>1, KnownNext DEF Row
  <2>5. Shapes'
    BY <2>4, <1>1, IdleShape, ShapesNext DEF Types
  <2>6. ASSUME orderly'
        PROVE  orderly /\ InOrder' /\ F!Step
    <3>1. /\ orderly /\ InOrder /\ path[f] = Null
          /\ p # Root => Exists(p) /\ c.path = Join(path[p], f)
      BY <2>6, <1>5 DEF Keep
    <3>2. IsTree(t) /\ Hangs(t, parentBar) /\ DOMAIN t = Shown /\ DOMAIN parentBar = Shown
          /\ \A x \in Shown : t[x] = path[x]
      BY <3>1, TreeInOrder DEF Types
    <3>3. f \in Folder \ Shown
      BY <3>1, <1>3 DEF Shown
    <3>4. p # Root => p \in Shown
      BY <3>1, <1>3 DEF Shown, Known, Exists
    <3>5. \/ p = Root /\ c.path = f
          \/ p \in DOMAIN t /\ c.path = Join(t[p], f)
      BY <3>1, <3>2, <3>4, <1>3
    <3> HIDE DEF t
    <3> DEFINE u == Set(t, f, c.path)
               e == Set(parentBar, f, p)
    <3>6. IsTree(u) /\ Hangs(u, e)
      <4>1. f \in Folder \ DOMAIN t
        BY <3>2, <3>3
      <4> QED
        BY <4>1, <3>2, <3>5, AddedTree
    <3>7. Shown' = Shown \cup {f}
      BY <2>1, <2>2, <1>1, <1>3 DEF Shown, Row
    <3>8. Tree' = u
      <4>1. Tree' = [x \in Shown' |-> path'[x]]
        BY DEF Tree
      <4>2. \A x \in Shown : x # f /\ x \in Row
        BY <3>3 DEF Shown, Row
      <4> QED
        BY <4>1, <4>2, <3>2, <3>7, <2>2 DEF Set
    <3> HIDE DEF u, e
    <3>9. parentBar' = e /\ Written(Tree)'
      BY <3>6, <3>8, TreeNext
    <3>10. /\ Dashboard \cap rows' = Dashboard \cap rows
           /\ \A d \in Dashboard \cap rows : path'[d] = path[d]
      BY <2>1, <2>2, <1>1 DEF Row
    <3>11. placeBar' = placeBar
      BY <3>10, PlacesStay
    <3>12. InOrder'
      BY <3>1, <3>7, <3>9, <3>10 DEF InOrder
    <3>13. F!Add(f, p)
      <4>1. F!Folders = Shown /\ F!Places = Shown \cup {Root}
        BY <3>1, ForestInOrder DEF Types
      <4>2. parentBar' = [x \in Shown \cup {f} |-> IF x = f THEN p ELSE parentBar[x]]
        BY <3>2, <3>9 DEF e, Set
      <4> QED
        BY <4>1, <4>2, <3>3, <3>4, <3>11 DEF F!Add
    <3>14. p \in Folder \cup {Root}
      BY <1>3 DEF Known
    <3> QED
      BY <3>1, <3>12, <3>13, <3>14, <1>3 DEF F!Step
  <2> QED
    BY <2>3, <2>5, <2>6 DEF Types, Follows
<1> QED
  BY <1>4, <1>5 DEF SetPath

(* move_folder.                                                            *)

(* Before the first place where the id is found is the parent's path.      *)
LEMMA ParentPathIs ==
    ASSUME NEW q \in Text, NEW f \in Folder, path[f] = Join(q, f),
           \A k \in 1..Len(q) + 1 : ~At(f, path[f], k)
    PROVE  ParentPath(f) = q
<1> DEFINE j == Join(q, f)
           i == CHOOSE m \in 1..Len(path[f]) :
                  At(f, path[f], m) /\ \A k \in 1..m - 1 : ~At(f, path[f], k)
<1>1. f \in Text /\ Len(q) \in Nat /\ Len(f) \in Nat \ {0}
  BY TextLen, Ids
<1>2. /\ j \in Text /\ Len(j) = Len(q) + 1 + Len(f)
      /\ \A m \in 1..Len(q) : j[m] = q[m]
      /\ \A m \in 1..Len(f) : j[Len(q) + 1 + m] = f[m]
  BY Joined, Zenon
<1>3. path[f] = j
  OBVIOUS
<1> HIDE DEF j
<1>4. At(f, j, Len(q) + 2)
  <2>1. Len(q) + 2 \in Nat \ {0} /\ Len(q) + 2 + Len(f) - 1 <= Len(j)
    BY <1>1, <1>2
  <2>2. ASSUME NEW m \in 1..Len(f) PROVE j[Len(q) + 2 + m - 1] = f[m]
    <3>1. Len(q) + 2 + m - 1 = Len(q) + 1 + m
      BY <1>1
    <3> QED
      BY <3>1, <1>2
  <2> QED
    BY <2>1, <2>2, <1>1, <1>2, AtPlaces
<1>5. Len(q) + 2 \in 1..Len(path[f]) /\ \A k \in 1..Len(q) + 2 - 1 : ~At(f, path[f], k)
  BY <1>1, <1>2, <1>3
<1>6. /\ i \in 1..Len(path[f]) /\ At(f, path[f], i)
      /\ \A k \in 1..i - 1 : ~At(f, path[f], k)
  BY <1>3, <1>4, <1>5
<1> HIDE DEF i
<1>7. i = Len(q) + 2
  <2>1. i \notin 1..Len(q) + 1
    BY <1>6
  <2>2. Len(q) + 2 \notin 1..i - 1
    BY <1>3, <1>4, <1>6
  <2>3. i \in Nat /\ Len(path[f]) \in Nat
    BY <1>2, <1>3, <1>6, TextLen
  <2> QED
    BY <2>1, <2>2, <2>3, <1>1, <1>6
<1>8. ParentPath(f) = SubSeq(j, 1, Len(q))
  <2>1. ParentPath(f) = SubSeq(path[f], 1, IF i = 1 THEN Len(path[f]) - 1 ELSE i - 2)
    BY DEF ParentPath, i
  <2>2. i # 1 /\ i - 2 = Len(q)
    BY <1>1, <1>7
  <2> QED
    BY <2>1, <2>2, <1>3
<1>9. SubSeq(j, 1, Len(q)) = q
  <2>1. 1 \in Int /\ Len(q) \in Int /\ 1 <= 1 /\ Len(q) <= Len(j)
    BY <1>1, <1>2
  <2>2. /\ SubSeq(j, 1, Len(q)) \in Text
        /\ Len(SubSeq(j, 1, Len(q))) = IF 1 <= Len(q) THEN Len(q) - 1 + 1 ELSE 0
        /\ \A k \in 1..Len(q) - 1 + 1 : SubSeq(j, 1, Len(q))[k] = j[1 + k - 1]
    BY <2>1, <1>2, Piece, Zenon
  <2> DEFINE u == SubSeq(j, 1, Len(q))
  <2>3. /\ u \in Text /\ Len(u) = IF 1 <= Len(q) THEN Len(q) - 1 + 1 ELSE 0
        /\ \A k \in 1..Len(q) - 1 + 1 : u[k] = j[1 + k - 1]
    BY <2>2
  <2> HIDE DEF u
  <2>4. Len(u) = Len(q)
    BY <2>3, <1>1
  <2>5. ASSUME NEW k \in 1..Len(q) PROVE u[k] = q[k]
    <3>1. k \in 1..Len(q) - 1 + 1 /\ 1 + k - 1 = k
      BY <1>1
    <3> QED
      BY <3>1, <2>3, <1>2
  <2> QED
    BY <2>3, <2>4, <2>5, SameText DEF u
<1> QED
  BY <1>8, <1>9

LEMMA ParentPathIsText ==
    ASSUME NEW f \in Folder, path[f] \in Text, EndsWith(path[f], f)
    PROVE  ParentPath(f) \in Text
<1> DEFINE i == CHOOSE m \in 1..Len(path[f]) :
                  At(f, path[f], m) /\ \A k \in 1..m - 1 : ~At(f, path[f], k)
           T == {m \in 1..Len(path[f]) : At(f, path[f], m)}
<1>1. T \in SUBSET Nat /\ T # {}
  BY DEF EndsWith
<1> HIDE DEF T
<1>2. PICK m \in T : \A k \in T : m <= k
  BY <1>1, LeastNumber
<1>3. m \in 1..Len(path[f]) /\ At(f, path[f], m) /\ Len(path[f]) \in Nat
  BY <1>2, TextLen DEF T
<1>4. \A k \in 1..m - 1 : ~At(f, path[f], k)
  <2> SUFFICES ASSUME NEW k \in 1..m - 1, At(f, path[f], k) PROVE FALSE
    OBVIOUS
  <2>1. k \in 1..Len(path[f]) /\ ~(m <= k)
    BY <1>3
  <2> QED
    BY <2>1, <1>2 DEF T
<1>5. i \in 1..Len(path[f])
  BY <1>3, <1>4
<1> HIDE DEF i
<1> DEFINE l == IF i = 1 THEN Len(path[f]) - 1 ELSE i - 2
<1>6. l \in Int /\ l <= Len(path[f])
  BY <1>3, <1>5
<1>7. ParentPath(f) = SubSeq(path[f], 1, l)
  BY DEF ParentPath, i
<1> HIDE DEF l
<1> QED
  BY <1>6, <1>7, Piece

LEMMA NewPathsAreTexts ==
    ASSUME TypeOK, NEW f, NEW p, Movable(f, p)
    PROVE  /\ f \in Folder /\ p \in Folder /\ DOMAIN NewPaths(f, p) \subseteq Related(f)
           /\ \A g \in DOMAIN NewPaths(f, p) : NewPaths(f, p)[g] \in Text
<1>1. /\ f \in Shown /\ p \in Shown /\ EndsWith(path[f], f)
  BY DEF Movable
<1>2. \A g \in Shown : g \in Folder /\ path[g] \in Text
  BY DEF Shown, TypeOK
<1>3. \A g \in Related(f) : path[g] \in Text
  BY <1>2 DEF Related, Mentions, Shown
<1>4. \A g \in Related(f) : Replace(path[g], ParentPath(f), path[p]) \in Text
  BY <1>1, <1>2, <1>3, ParentPathIsText, ReplaceIsText
<1> QED
  BY <1>1, <1>2, <1>4 DEF NewPaths, Restrict

(* Steps that change the request only.                                     *)
LEMMA RequestOnly ==
    ASSUME Types, orderly => InOrder, NEW r \in Request, NEW c,
           req' = [req EXCEPT ![r] = c], Shape(c, Known),
           rows' = rows, used' = used, path' = path, orderly' = orderly,
           served' \in 0..MaxServed
    PROVE  Types' /\ Follows
<1>1. TypeOK' /\ Known' = Known
  BY DEF Types, TypeOK, Known
<1>2. Shapes'
  BY <1>1, ShapesNext DEF Types
<1>3. Follows
  BY NoRowChanges DEF Types
<1> QED
  BY <1>1, <1>2, <1>3 DEF Types

LEMMA ServedNext ==
    ASSUME TypeOK, NEW r, NEW c, Start(r, c)
    PROVE  served' \in 0..MaxServed /\ req' = [req EXCEPT ![r] = c]
BY FolderAssumption DEF Start, TypeOK

LEMMA StartMoveStep ==
    ASSUME Types, orderly => InOrder, NEW r \in Request, StartMove(r), UNCHANGED used
    PROVE  Types' /\ Follows
<1>1. PICK f \in Folder \cap rows, p \in Folder \cap rows :
        /\ Movable(f, p)
        /\ Start(r, [op |-> "move", folder |-> f, parent |-> p, paths |-> NewPaths(f, p)])
        /\ UNCHANGED <<rows, path, orderly>>
  BY DEF StartMove
<1> DEFINE ps == NewPaths(f, p)
           c == [op |-> "move", folder |-> f, parent |-> p, paths |-> ps]
<1>2. DOMAIN ps \subseteq Folder /\ \A g \in DOMAIN ps : ps[g] \in Text
  BY <1>1, NewPathsAreTexts DEF Types, Related
<1> HIDE DEF ps
<1>3. Shape(c, Known)
  BY <1>2 DEF Shape
<1>4. req' = [req EXCEPT ![r] = c] /\ served' \in 0..MaxServed
  BY <1>1, ServedNext DEF Types, ps
<1> HIDE DEF c
<1> QED
  BY <1>1, <1>3, <1>4, RequestOnly

(* The move that is written is the one of the tree: every path below f     *)
(* begins with the parent's path, which is replaced there and only there.  *)
LEMMA WrittenAsMoved ==
    ASSUME TypeOK, InOrder, NEW f, NEW p, Movable(f, p), ~Confusable(f)
    PROVE  \E g \in Shown :
             /\ f \in Shown /\ p \in Shown /\ p \notin Related(f)
             /\ path[f] = Join(path[g], f)
             /\ \A x \in Related(f) :
                  Replace(path[x], ParentPath(f), path[p]) = Cut(path[x], path[g], path[p])
<1> DEFINE t == Tree
<1>1. /\ f \in Shown /\ p \in Shown /\ path[f] # f /\ ~IsPrefix(path[f], path[p])
  BY DEF Movable
<1>2. /\ IsTree(t) /\ DOMAIN t = Shown /\ \A x \in Shown : t[x] = path[x]
      /\ \A x \in Folder : Related(x) = Mentioning(t, x)
  BY TreeInOrder
<1>3. \A x \in DOMAIN t : x \in Folder /\ t[x] \in Text
  BY <1>2 DEF IsTree
<1> HIDE DEF t
<1>4. PICK g \in DOMAIN t : t[f] = Join(t[g], f)
  BY <1>1, <1>2 DEF IsTree, Written
<1>5. Related(f) = Mentioning(t, f) /\ f \in DOMAIN t /\ p \in DOMAIN t /\ f \in Folder
  BY <1>1, <1>2, <1>3
<1>6. p \notin Related(f)
  BY <1>1, <1>2, <1>3, <1>5, MentionedAbove
<1>7. Distinct(t, f)
  <2> SUFFICES ASSUME NEW a \in Folder, NEW b \in Folder, a # b, Occurs(a, b),
                      NEW k \in Mentioning(t, f), Mentions(t[k], a),
                      NEW l \in Mentioning(t, f), Mentions(t[l], b)
               PROVE  FALSE
    BY DEF Distinct
  <2>1. k \in Related(f) /\ l \in Related(f) /\ k \in DOMAIN t /\ l \in DOMAIN t
    BY <1>5 DEF Mentioning
  <2>2. Mentions(path[k], a) /\ Mentions(path[l], b)
    BY <2>1, <1>2
  <2> QED
    BY <2>1, <2>2 DEF Confusable
<1>8. ParentPath(f) = t[g]
  <2>1. \A k \in 1..Len(t[g]) + 1 : ~At(f, path[f], k)
    BY <1>1, <1>2, <1>4, <1>5, <1>7, FoundAtTheEnd
  <2>2. path[f] = Join(t[g], f) /\ t[g] \in Text
    BY <1>1, <1>2, <1>3, <1>4
  <2> QED
    BY <2>1, <2>2, <1>5, ParentPathIs
<1>9. ASSUME NEW x \in Related(f)
      PROVE  Replace(path[x], ParentPath(f), path[p]) = Cut(path[x], path[g], path[p])
  <2>1. x \in Mentioning(t, f) /\ x \in DOMAIN t
    BY <1>5, <1>9 DEF Mentioning
  <2>2. /\ At(t[g], t[x], 1) /\ t[g] # <<>>
        /\ \A k \in Len(t[g]) + 1..Len(t[x]) : ~At(t[g], t[x], k)
    BY <2>1, <1>2, <1>4, <1>5, <1>7, FoundAtTheBeginning
  <2>3. t[x] \in Text /\ t[g] \in Text /\ t[p] \in Text
    BY <2>1, <1>3, <1>5
  <2>4. Replace(t[x], t[g], t[p]) = Cut(t[x], t[g], t[p])
    BY <2>2, <2>3, ReplacedOnce
  <2> QED
    BY <2>1, <2>4, <1>2, <1>4, <1>5, <1>8
<1> QED
  BY <1>1, <1>2, <1>4, <1>6, <1>9

LEMMA CommitMoveStep ==
    ASSUME Types, orderly => InOrder, NEW r \in Request, CommitMove(r), UNCHANGED used
    PROVE  Types' /\ Follows
<1> DEFINE c == req[r]
           f == c.folder
           p == c.parent
           t == Tree
<1>1. /\ c.op = "move" /\ rows' = rows /\ served' = served
      /\ req' = [req EXCEPT ![r] = Idle]
  BY DEF CommitMove, End
<1>2. Shape(c, Known)
  BY DEF Types, Shapes
<1>3. /\ f \in Folder /\ p \in Folder /\ DOMAIN c.paths \subseteq Folder
      /\ \A g \in DOMAIN c.paths : c.paths[g] \in Text
  BY <1>1, <1>2 DEF Shape, Idle
<1>4. CASE UNCHANGED <<path, orderly>>
  BY <1>1, <1>4, IdleShape, RequestOnly DEF Types, TypeOK
<1>5. CASE /\ DOMAIN c.paths \subseteq rows
           /\ path' = [x \in Row |-> IF x \in DOMAIN c.paths THEN c.paths[x] ELSE path[x]]
           /\ Keep(Same(c))
  <2> DEFINE ps == c.paths
  <2>1. DOMAIN path' = Row /\ \A x \in Row : path'[x] = IF x \in DOMAIN ps THEN ps[x] ELSE path[x]
    BY <1>5
  <2>2. \A x \in DOMAIN ps : x \in Folder /\ x \in rows /\ x \notin Dashboard /\ ps[x] # Null
    BY <1>3, <1>5, FolderAssumption
  <2> HIDE DEF ps
  <2>3. TypeOK'
    BY <2>1, <2>2, <1>1, <1>3, <1>5 DEF Types, TypeOK, Keep, Row, ps
  <2>4. Known \subseteq Known'
    BY <2>1, <2>2, <1>1, KnownNext DEF Row
  <2>5. Shapes'
    BY <2>4, <1>1, IdleShape, ShapesNext DEF Types
  <2>6. ASSUME orderly'
        PROVE  orderly /\ InOrder' /\ F!Step
    <3>1. /\ orderly /\ InOrder /\ Movable(f, p) /\ ~Confusable(f) /\ ps = NewPaths(f, p)
      BY <2>6, <1>5 DEF Keep, Same, ps
    <3>2. PICK g \in Shown :
             /\ f \in Shown /\ p \in Shown /\ p \notin Related(f)
             /\ path[f] = Join(path[g], f)
             /\ \A x \in Related(f) :
                  Replace(path[x], ParentPath(f), path[p]) = Cut(path[x], path[g], path[p])
      BY <3>1, WrittenAsMoved DEF Types
    <3>3. /\ IsTree(t) /\ Hangs(t, parentBar) /\ DOMAIN t = Shown /\ DOMAIN parentBar = Shown
          /\ \A x \in Shown : t[x] = path[x]
          /\ Related(f) = Mentioning(t, f)
      BY <3>1, <1>3, TreeInOrder DEF Types
    <3>4. \A x \in Related(f) : x \in Shown
      BY <3>3 DEF Mentioning
    <3>5. /\ \A x \in DOMAIN ps : x \in Related(f) /\ ps[x] = Cut(path[x], path[g], path[p])
          /\ \A x \in Related(f) : x \notin DOMAIN ps => path[x] = Cut(path[x], path[g], path[p])
      BY <3>1, <3>2 DEF NewPaths, Restrict
    <3>6. /\ \A x \in Related(f) : path'[x] = Cut(path[x], path[g], path[p])
          /\ \A x \in Row : x \notin Related(f) => path'[x] = path[x]
      BY <3>4, <3>5, <2>1 DEF Shown, Row
    <3>7. Shown' = Shown
      BY <2>1, <2>2, <3>4, <3>5, <1>1 DEF Shown, Row
    <3> HIDE DEF t
    <3> DEFINE u == Moved(t, f, t[g], p)
               e == [parentBar EXCEPT ![f] = p]
    <3>8. IsTree(u) /\ Hangs(u, e)
      <4>1. f \in DOMAIN t /\ g \in DOMAIN t /\ p \in DOMAIN t
        BY <3>2, <3>3
      <4>2. t[f] = Join(t[g], f) /\ p \notin Mentioning(t, f)
        BY <3>2, <3>3
      <4> QED
        BY <4>1, <4>2, <3>3, MovedTree
    <3>9. Tree' = u
      <4>1. Tree' = [x \in Shown' |-> path'[x]]
        BY DEF Tree
      <4>2. \A x \in Shown : x \in Row
        BY DEF Shown, Row
      <4>3. u = [x \in Shown |-> IF x \in Related(f) THEN Cut(path[x], path[g], path[p]) ELSE path[x]]
        BY <3>2, <3>3 DEF Moved
      <4> HIDE DEF u
      <4> QED
        BY <4>1, <4>2, <4>3, <3>6, <3>7
    <3> HIDE DEF u, e
    <3>10. parentBar' = e /\ Written(Tree)'
      BY <3>8, <3>9, TreeNext
    <3>11. /\ Dashboard \cap rows' = Dashboard \cap rows
           /\ \A d \in Dashboard \cap rows : path'[d] = path[d]
      BY <2>1, <2>2, <1>1 DEF Row
    <3>12. placeBar' = placeBar
      BY <3>11, PlacesStay
    <3>13. InOrder'
      BY <3>1, <3>7, <3>10, <3>11 DEF InOrder
    <3>14. F!Move(f, p)
      <4>1. F!Folders = Shown /\ F!Places = Shown \cup {Root} /\ F!Below(f) = Related(f)
        BY <3>1, <3>2, ForestInOrder DEF Types
      <4> QED
        BY <4>1, <3>2, <3>10, <3>12 DEF F!Move, e
    <3> QED
      BY <3>1, <3>13, <3>14, <1>3 DEF F!Step
  <2> QED
    BY <2>3, <2>5, <2>6 DEF Types, Follows
<1> QED
  BY <1>4, <1>5 DEF CommitMove

LEMMA MoveToRootStep ==
    ASSUME Types, orderly => InOrder, NEW r \in Request, MoveToRoot(r), UNCHANGED used
    PROVE  Types' /\ Follows
<1>1. PICK f \in Folder \cap rows :
        /\ Start(r, Idle)
        /\ path' = [path EXCEPT ![f] = f]
        /\ Keep(path[f] = f \/ Related(f) \subseteq {f})
        /\ rows' = rows
  BY DEF MoveToRoot
<1> DEFINE t == Tree
<1>2. f \in Text /\ f # Null /\ f \in Row /\ f \notin Dashboard
  BY Ids, FolderAssumption DEF Row
<1>3. /\ DOMAIN path' = Row /\ path'[f] = f
      /\ \A x \in Row : x # f => path'[x] = path[x]
  BY <1>1, <1>2 DEF Types, TypeOK
<1>4. served' \in 0..MaxServed /\ req' = [req EXCEPT ![r] = Idle]
  BY <1>1, ServedNext DEF Types
<1>5. TypeOK'
  BY <1>1, <1>2, <1>3, <1>4 DEF Types, TypeOK, Keep, Row
<1>6. Known \subseteq Known'
  BY <1>1, <1>2, <1>3, KnownNext DEF Row
<1>7. Shapes'
  BY <1>4, <1>6, IdleShape, ShapesNext DEF Types
<1>8. ASSUME orderly', path[f] # f
      PROVE  orderly /\ InOrder' /\ F!Step
  <2>1. orderly /\ InOrder /\ Related(f) \subseteq {f}
    BY <1>1, <1>8 DEF Keep
  <2>2. /\ IsTree(t) /\ Hangs(t, parentBar) /\ DOMAIN t = Shown /\ DOMAIN parentBar = Shown
        /\ \A x \in Shown : t[x] = path[x]
        /\ Related(f) = Mentioning(t, f)
    BY <2>1, TreeInOrder DEF Types
  <2>3. Shown' = Shown \cup {f}
    BY <1>1, <1>2, <1>3 DEF Shown, Row
  <2>4. \A x \in Shown : x \in Row
    BY DEF Shown, Row
  <2> HIDE DEF t
  <2> DEFINE u == Set(t, f, f)
  <2>5. Tree' = u
    <3>1. Tree' = [x \in Shown' |-> path'[x]]
      BY DEF Tree
    <3> QED
      BY <3>1, <2>2, <2>3, <2>4, <1>3 DEF Set
  <2> HIDE DEF u
  <2>6. /\ Dashboard \cap rows' = Dashboard \cap rows
        /\ \A d \in Dashboard \cap rows : path'[d] = path[d]
    BY <1>1, <1>2, <1>3 DEF Row
  <2>7. placeBar' = placeBar
    BY <2>6, PlacesStay
  <2>8. F!Folders = Shown /\ F!Places = Shown \cup {Root}
    BY <2>1, ForestInOrder DEF Types
  <2>9. CASE f \in Shown
    <3>1. IsTree(u) /\ Hangs(u, [parentBar EXCEPT ![f] = Root])
      BY <2>1, <2>2, <2>9, UprootedTree DEF u
    <3>2. parentBar' = [parentBar EXCEPT ![f] = Root] /\ Written(Tree)'
      BY <3>1, <2>5, TreeNext
    <3>3. InOrder'
      BY <3>2, <2>1, <2>3, <2>6 DEF InOrder
    <3>4. F!Below(f) = Related(f) /\ Root # f
      BY <2>1, <2>9, ForestInOrder, FolderAssumption DEF Types
    <3>5. F!Move(f, Root)
      BY <3>2, <3>4, <2>1, <2>7, <2>8, <2>9 DEF F!Move
    <3> QED
      BY <2>1, <3>3, <3>5 DEF F!Step
  <2>10. CASE f \notin Shown
    <3>1. IsTree(u) /\ Hangs(u, Set(parentBar, f, Root))
      BY <2>2, <2>10, AddedTree DEF u
    <3>2. parentBar' = Set(parentBar, f, Root) /\ Written(Tree)'
      BY <3>1, <2>5, TreeNext
    <3>3. InOrder'
      BY <3>2, <2>1, <2>3, <2>6 DEF InOrder
    <3>4. F!Add(f, Root)
      BY <3>2, <2>2, <2>7, <2>8, <2>10 DEF F!Add, Set
    <3> QED
      BY <2>1, <3>3, <3>4 DEF F!Step
  <2> QED
    BY <2>9, <2>10
<1>9. ASSUME path[f] = f
      PROVE  Follows
  <2>1. /\ Shown' = Shown /\ \A x \in Shown : path'[x] = path[x]
        /\ Dashboard \cap rows' = Dashboard \cap rows
        /\ \A d \in Dashboard \cap rows : path'[d] = path[d]
    BY <1>1, <1>2, <1>3, <1>9 DEF Shown, Row
  <2>2. orderly' => orderly
    BY <1>1 DEF Keep
  <2> QED
    BY <2>1, <2>2, TreeStays DEF Types
<1> QED
  BY <1>5, <1>7, <1>8, <1>9 DEF Types, Follows

(* delete_folder.                                                          *)
LEMMA StartDeleteStep ==
    ASSUME Types, orderly => InOrder, NEW r \in Request, StartDelete(r), UNCHANGED used
    PROVE  Types' /\ Follows
<1>1. PICK f \in Folder \cap rows :
        /\ Start(r, [op |-> "delete", folder |-> f, folders |-> Related(f),
                     todo |-> Within(Related(f))])
        /\ UNCHANGED <<rows, path, orderly>>
  BY DEF StartDelete
<1> DEFINE fs == Related(f)
           xs == Within(fs)
           c == [op |-> "delete", folder |-> f, folders |-> fs, todo |-> xs]
<1>2. fs \subseteq Folder /\ xs \subseteq Row
  BY RowTypes DEF Related, Within, Types
<1> HIDE DEF fs, xs
<1>3. c \in [op : {"delete"}, folder : Folder, folders : SUBSET Folder, todo : SUBSET Row]
  BY <1>2
<1>4. Shape(c, Known)
  BY <1>3 DEF Shape
<1>5. req' = [req EXCEPT ![r] = c] /\ served' \in 0..MaxServed
  BY <1>1, ServedNext DEF Types, fs, xs
<1> HIDE DEF c
<1> QED
  BY <1>1, <1>4, <1>5, RequestOnly

(* A folder is taken out with what is below it, and no dashboard is there. *)
LEMMA FolderGone ==
    ASSUME TypeOK, InOrder, NEW f \in Shown, Shown' = Shown \ Related(f),
           \A x \in Shown' : path'[x] = path[x],
           Dashboard \cap rows' = Dashboard \cap rows,
           \A d \in Dashboard \cap rows : path'[d] = path[d] /\ path[d] \notin Related(f)
    PROVE  InOrder' /\ F!Step
<1> DEFINE t == Tree
           B == Related(f)
           u == Without(t, B)
           e == Without(parentBar, B)
<1>1. f \in Folder
  BY DEF Shown
<1>2. /\ IsTree(t) /\ Hangs(t, parentBar) /\ DOMAIN t = Shown /\ DOMAIN parentBar = Shown
      /\ \A x \in Shown : t[x] = path[x]
      /\ B = Mentioning(t, f)
  BY <1>1, TreeInOrder
<1> HIDE DEF t, B
<1>3. IsTree(u) /\ Hangs(u, e)
  BY <1>2, PrunedTree
<1>4. Tree' = u
  <2>1. Tree' = [x \in Shown' |-> path'[x]]
    BY DEF Tree
  <2> QED
    BY <2>1, <1>2 DEF Without, B
<1> HIDE DEF u
<1>5. parentBar' = e /\ Written(Tree)'
  BY <1>3, <1>4, TreeNext DEF e
<1>6. placeBar' = placeBar
  BY PlacesStay
<1>7. InOrder'
  BY <1>5 DEF InOrder
<1>8. \A d \in DOMAIN placeBar : placeBar[d] \notin B
  <2> TAKE d \in DOMAIN placeBar
  <2>1. /\ d \in Dashboard \cap rows
        /\ placeBar[d] = IF path[d] = Null THEN Root ELSE path[d]
    BY DEF placeBar
  <2>2. Root \notin B
    BY FolderAssumption DEF B, Related
  <2> QED
    BY <2>1, <2>2 DEF B
<1>9. F!Remove(f)
  <2>1. F!Folders = Shown /\ F!Below(f) = B
    BY ForestInOrder DEF B
  <2> QED
    BY <2>1, <1>2, <1>5, <1>6, <1>8 DEF F!Remove, Without
<1> QED
  BY <1>1, <1>7, <1>9 DEF F!Step

LEMMA DeleteRowStep ==
    ASSUME Types, orderly => InOrder, NEW r \in Request, DeleteRow(r), UNCHANGED used
    PROVE  Types' /\ Follows
<1> DEFINE c == req[r]
<1>1. c.op = "delete" /\ served' = served
  BY DEF DeleteRow
<1>2. Shape(c, Known)
  BY DEF Types, Shapes
<1>3. c \in [op : {"delete"}, folder : Folder, folders : SUBSET Folder, todo : SUBSET Row]
  BY <1>1, <1>2 DEF Shape, Idle
<1>4. PICK x \in c.todo :
        \/ /\ x \in rows
           /\ rows' = rows \ {x}
           /\ path' = [path EXCEPT ![x] = Null]
           /\ req' = [req EXCEPT ![r].todo = @ \ {x}]
           /\ Keep(x \in Folder =>
                     Related(x) \subseteq {x} /\ Within({x}) \subseteq {x})
        \/ x \notin rows /\ End(r) /\ UNCHANGED <<rows, path, orderly>>
  BY DEF DeleteRow
<1>5. CASE x \notin rows /\ End(r) /\ UNCHANGED <<rows, path, orderly>>
  <2>1. req' = [req EXCEPT ![r] = Idle] /\ Shape(Idle, Known) /\ served' \in 0..MaxServed
    BY <1>1, <1>5, IdleShape DEF End, Types, TypeOK
  <2> QED
    BY <2>1, <1>5, RequestOnly
<1>6. CASE /\ x \in rows
           /\ rows' = rows \ {x}
           /\ path' = [path EXCEPT ![x] = Null]
           /\ req' = [req EXCEPT ![r].todo = @ \ {x}]
           /\ Keep(x \in Folder =>
                     Related(x) \subseteq {x} /\ Within({x}) \subseteq {x})
  <2> DEFINE d == [c EXCEPT !.todo = c.todo \ {x}]
  <2>1. x \in Row
    BY <1>3
  <2>2. /\ DOMAIN path' = Row /\ path'[x] = Null
        /\ \A y \in Row : y # x => path'[y] = path[y]
    BY <2>1, <1>6 DEF Types, TypeOK
  <2>3. TypeOK'
    BY <2>1, <2>2, <1>1, <1>6 DEF Types, TypeOK, Keep, Row
  <2>4. Known \subseteq Known'
    BY <2>2, <1>6, KnownNext DEF Row
  <2>5. Shape(d, Known')
    <3>1. d \in [op : {"delete"}, folder : Folder, folders : SUBSET Folder, todo : SUBSET Row]
      BY <1>3
    <3> QED
      BY <3>1 DEF Shape
  <2>6. req' = [req EXCEPT ![r] = d]
    BY <1>6
  <2> HIDE DEF d
  <2>7. Shapes'
    BY <2>4, <2>5, <2>6, ShapesNext DEF Types
  <2>8. orderly' => orderly
    BY <1>6 DEF Keep
  <2>9. CASE x \notin Folder
    <3>1. x \in Dashboard
      BY <2>1, <2>9 DEF Row
    <3>2. Shown' = Shown /\ \A f \in Shown : path'[f] = path[f]
      BY <2>2, <2>9, <1>6 DEF Shown, Row
    <3>3. ASSUME orderly' PROVE orderly /\ InOrder' /\ F!Step
      <4>1. orderly /\ InOrder
        BY <3>3, <2>8
      <4>2. Tree' = Tree
        BY <3>2 DEF Tree
      <4>3. parentBar' = parentBar /\ Written(Tree)'
        BY <4>1, <4>2, TreeInOrder, TreeNext DEF Types
      <4>4. \A y \in Dashboard \cap rows' : y \in rows /\ y # x /\ path'[y] = path[y]
        BY <2>2, <1>6 DEF Row
      <4>5. InOrder'
        BY <4>1, <4>3, <4>4, <3>2 DEF InOrder
      <4>6. Dashboard \cap rows' = (Dashboard \cap rows) \ {x}
        BY <1>6
      <4>7. F!Drop(x)
        BY <4>3, <4>4, <4>6, <3>1, <1>6 DEF F!Drop, placeBar
      <4> QED
        BY <4>1, <4>5, <4>7, <3>1 DEF F!Step
    <3> QED
      BY <3>3, <2>3, <2>7 DEF Follows, Types
  <2>10. CASE x \in Folder
    <3>1. /\ Dashboard \cap rows' = Dashboard \cap rows
          /\ \A d2 \in Dashboard \cap rows : d2 # x /\ path'[d2] = path[d2]
      BY <2>2, <2>10, <1>6, FolderAssumption DEF Row
    <3>2. CASE x \notin Shown
      <4>1. Shown' = Shown /\ \A f \in Shown : path'[f] = path[f]
        BY <3>2, <2>2, <2>10, <1>6 DEF Shown, Row
      <4> QED
        BY <4>1, <3>1, <2>3, <2>7, <2>8, TreeStays DEF Types
    <3>3. CASE x \in Shown
      <4>1. ASSUME orderly' PROVE orderly /\ InOrder' /\ F!Step
        <5>1. /\ orderly /\ InOrder
              /\ Related(x) \subseteq {x} /\ Within({x}) \subseteq {x}
          BY <4>1, <2>10, <1>6 DEF Keep
        <5>2. Related(x) = {x}
          BY <5>1, <3>3, ForestInOrder DEF Types
        <5>3. Shown' = Shown \ {x} /\ \A f \in Shown' : path'[f] = path[f]
          BY <2>2, <1>6 DEF Shown, Row
        <5>4. \A d2 \in Dashboard \cap rows : path[d2] # x
          BY <5>1, <3>1 DEF Within
        <5>5. InOrder' /\ F!Step
          BY <5>1, <5>2, <5>3, <5>4, <3>1, <3>3, FolderGone DEF Types
        <5> QED
          BY <5>1, <5>5
      <4> QED
        BY <4>1, <2>3, <2>7 DEF Follows, Types
    <3> QED
      BY <3>2, <3>3
  <2> QED
    BY <2>9, <2>10
<1> QED
  BY <1>4, <1>5, <1>6

LEMMA DeleteFoldersStep ==
    ASSUME Types, orderly => InOrder, NEW r \in Request, DeleteFolders(r), UNCHANGED used
    PROVE  Types' /\ Follows
<1> DEFINE c == req[r]
           f == c.folder
           fs == c.folders
<1>1. c.op = "delete" /\ served' = served /\ req' = [req EXCEPT ![r] = Idle]
  BY DEF DeleteFolders, End
<1>2. Shape(c, Known)
  BY DEF Types, Shapes
<1>3. f \in Folder /\ fs \subseteq Folder
  BY <1>1, <1>2 DEF Shape, Idle
<1>4. CASE UNCHANGED <<rows, path, orderly>>
  BY <1>1, <1>4, IdleShape, RequestOnly DEF Types, TypeOK
<1>5. CASE /\ rows' = rows \ fs
           /\ path' = [x \in Row |-> IF x \in fs THEN Null ELSE path[x]]
           /\ Keep(fs \cap rows = Related(f) /\ Within(fs) \subseteq fs)
  <2>1. DOMAIN path' = Row /\ \A x \in Row : path'[x] = IF x \in fs THEN Null ELSE path[x]
    BY <1>5
  <2>2. \A d \in Dashboard : d \notin fs /\ d \in Row
    BY <1>3, FolderAssumption DEF Row
  <2>3. TypeOK'
    BY <2>1, <2>2, <1>1, <1>5 DEF Types, TypeOK, Keep, Row
  <2>4. Known \subseteq Known'
    BY <2>1, <1>5, KnownNext DEF Row
  <2>5. Shapes'
    BY <2>4, <1>1, IdleShape, ShapesNext DEF Types
  <2>6. /\ Dashboard \cap rows' = Dashboard \cap rows
        /\ \A d \in Dashboard \cap rows : path'[d] = path[d]
    BY <2>1, <2>2, <1>5
  <2>7. Shown' = Shown \ fs /\ \A x \in Shown' : path'[x] = path[x]
    BY <2>1, <1>5 DEF Shown, Row
  <2>8. ASSUME orderly'
        PROVE  /\ orderly /\ InOrder'
               /\ F!Step \/ (parentBar' = parentBar /\ placeBar' = placeBar)
    <3>1. orderly /\ InOrder /\ fs \cap rows = Related(f) /\ Within(fs) \subseteq fs
      BY <2>8, <1>5 DEF Keep
    <3>2. Shown' = Shown \ Related(f)
      BY <3>1, <2>7 DEF Shown
    <3>3. CASE f \in Shown
      <4>1. \A d \in Dashboard \cap rows : path[d] \notin Related(f)
        BY <3>1, <2>2 DEF Within
      <4> QED
        BY <4>1, <3>1, <3>2, <3>3, <2>6, <2>7, FolderGone DEF Types
    <3>4. CASE f \notin Shown
      <4>1. /\ IsTree(Tree) /\ DOMAIN Tree = Shown /\ Related(f) = Mentioning(Tree, f)
        BY <3>1, <1>3, TreeInOrder DEF Types
      <4>2. Related(f) = {}
        BY <4>1, <3>4, <1>3, MentionedAbove
      <4>3. Follows
        BY <4>2, <3>1, <3>2, <2>6, <2>7, TreeStays DEF Types
      <4> QED
        BY <4>3, <2>8 DEF Follows
    <3> QED
      BY <3>3, <3>4
  <2> QED
    BY <2>3, <2>5, <2>8 DEF Follows, Types
<1> QED
  BY <1>4, <1>5 DEF DeleteFolders

(* Dashboards.                                                             *)
LEMMA AddDashboardStep ==
    ASSUME Types, orderly => InOrder, NEW r \in Request, AddDashboard(r)
    PROVE  Types' /\ Follows
<1>1. PICK d \in Dashboard \ used :
        /\ Start(r, Idle)
        /\ rows' = rows \cup {d} /\ used' = used \cup {d}
        /\ path' = path /\ orderly' = orderly
  BY DEF AddDashboard
<1>2. d \notin rows /\ path[d] = Null /\ d \notin Folder /\ d \in Row
  BY RowTypes DEF Types
<1>3. served' \in 0..MaxServed /\ req' = [req EXCEPT ![r] = Idle]
  BY <1>1, ServedNext DEF Types
<1>4. TypeOK'
  BY <1>1, <1>2, <1>3 DEF Types, TypeOK
<1>5. Known \subseteq Known'
  BY <1>1, <1>2, KnownNext
<1>6. Shapes'
  BY <1>3, <1>5, IdleShape, ShapesNext DEF Types
<1>7. ASSUME orderly' PROVE orderly /\ InOrder' /\ F!Step
  <2>1. orderly /\ InOrder
    BY <1>1, <1>7
  <2>2. Shown' = Shown
    BY <1>1, <1>2 DEF Shown
  <2>3. Tree' = Tree
    BY <2>2, <1>1 DEF Tree
  <2>4. parentBar' = parentBar /\ Written(Tree)'
    BY <2>1, <2>3, TreeInOrder, TreeNext DEF Types
  <2>5. InOrder'
    BY <2>1, <2>2, <2>4, <1>1, <1>2 DEF InOrder
  <2>6. Dashboard \cap rows' = (Dashboard \cap rows) \cup {d}
    BY <1>1
  <2>7. F!Put(d, Root)
    BY <2>4, <2>6, <1>1, <1>2 DEF F!Put, F!Places, placeBar
  <2> QED
    BY <2>1, <2>5, <2>7 DEF F!Step
<1> QED
  BY <1>4, <1>6, <1>7 DEF Follows, Types

LEMMA StartMoveDashboardStep ==
    ASSUME Types, orderly => InOrder, NEW r \in Request, StartMoveDashboard(r), UNCHANGED used
    PROVE  Types' /\ Follows
<1>1. PICK d \in Dashboard \cap rows, p \in (Folder \cap rows) \cup {Null} :
        /\ Start(r, [op |-> "place", dash |-> d, to |-> p])
        /\ UNCHANGED <<rows, path, orderly>>
  BY DEF StartMoveDashboard
<1> DEFINE c == [op |-> "place", dash |-> d, to |-> p]
<1>2. Shape(c, Known)
  BY DEF Shape
<1>3. req' = [req EXCEPT ![r] = c] /\ served' \in 0..MaxServed
  BY <1>1, ServedNext DEF Types
<1> HIDE DEF c
<1> QED
  BY <1>1, <1>2, <1>3, RequestOnly

LEMMA CommitMoveDashboardStep ==
    ASSUME Types, orderly => InOrder, NEW r \in Request, CommitMoveDashboard(r), UNCHANGED used
    PROVE  Types' /\ Follows
<1> DEFINE c == req[r]
           d == c.dash
           p == c.to
<1>1. /\ c.op = "place" /\ rows' = rows /\ served' = served
      /\ req' = [req EXCEPT ![r] = Idle]
  BY DEF CommitMoveDashboard, End
<1>2. Shape(c, Known)
  BY DEF Types, Shapes
<1>3. d \in Dashboard /\ p \in Folder \cup {Null}
  BY <1>1, <1>2 DEF Shape, Idle
<1>4. CASE UNCHANGED <<path, orderly>>
  BY <1>1, <1>4, IdleShape, RequestOnly DEF Types, TypeOK
<1>5. CASE d \in rows /\ path' = [path EXCEPT ![d] = p] /\ Keep(p \in Shown \cup {Null})
  <2>1. d \notin Folder /\ d \in Row
    BY <1>3, FolderAssumption DEF Row
  <2>2. /\ DOMAIN path' = Row /\ path'[d] = p
        /\ \A x \in Row : x # d => path'[x] = path[x]
    BY <2>1, <1>5 DEF Types, TypeOK
  <2>3. TypeOK'
    BY <2>1, <2>2, <1>1, <1>3, <1>5 DEF Types, TypeOK, Keep, Row
  <2>4. Known \subseteq Known'
    BY <2>1, <2>2, <1>1, KnownNext DEF Row
  <2>5. Shapes'
    BY <2>4, <1>1, IdleShape, ShapesNext DEF Types
  <2>6. ASSUME orderly' PROVE orderly /\ InOrder' /\ F!Step
    <3>1. orderly /\ InOrder /\ p \in Shown \cup {Null}
      BY <2>6, <1>5 DEF Keep
    <3>2. Shown' = Shown /\ \A x \in Shown : path'[x] = path[x]
      BY <2>1, <2>2, <1>1 DEF Shown, Row
    <3>3. Tree' = Tree
      BY <3>2 DEF Tree
    <3>4. parentBar' = parentBar /\ Written(Tree)'
      BY <3>1, <3>3, TreeInOrder, TreeNext DEF Types
    <3>5. \A e \in Dashboard : e \in Row
      BY DEF Row
    <3>6. InOrder'
      BY <3>1, <3>2, <3>4, <3>5, <2>2, <1>1 DEF InOrder
    <3> DEFINE q == IF p = Null THEN Root ELSE p
    <3>7. q \in F!Places /\ q \in Folder \cup {Root}
      BY <3>1, <1>3, ForestInOrder DEF Types
    <3>8. placeBar' = [e \in DOMAIN placeBar \cup {d} |-> IF e = d THEN q ELSE placeBar[e]]
      <4>1. (Dashboard \cap rows) \cup {d} = Dashboard \cap rows'
        BY <1>1, <1>3, <1>5
      <4> QED
        BY <4>1, <3>5, <2>2 DEF placeBar
    <3>9. F!Put(d, q)
      BY <3>4, <3>7, <3>8, <1>3 DEF F!Put
    <3> QED
      BY <3>1, <3>6, <3>7, <3>9, <1>3 DEF F!Step
  <2> QED
    BY <2>3, <2>5, <2>6 DEF Follows, Types
<1> QED
  BY <1>4, <1>5 DEF CommitMoveDashboard

-----------------------------------------------------------------------------
LEMMA EveryStep ==
    ASSUME Types, orderly => InOrder, [Next]_vars
    PROVE  Types' /\ Follows
<1>1. CASE UNCHANGED vars
  <2>1. Types'
    BY <1>1 DEF vars, Types, TypeOK, Shapes, Known
  <2>2. Follows
    BY <1>1, NoRowChanges DEF vars, Types
  <2> QED
    BY <2>1, <2>2
<1>2. ASSUME NEW r \in Request, Fail(r), UNCHANGED used
      PROVE  Types' /\ Follows
  BY <1>2, IdleShape, RequestOnly DEF Fail, End, Types, TypeOK
<1>3. ASSUME NEW r \in Request, Change(r), UNCHANGED used
      PROVE  Types' /\ Follows
  BY <1>2, <1>3, ReadParentStep, SetPathStep, StartMoveStep, CommitMoveStep,
     MoveToRootStep, StartDeleteStep, DeleteRowStep, DeleteFoldersStep,
     StartMoveDashboardStep, CommitMoveDashboardStep DEF Change
<1> QED
  BY <1>1, <1>3, InsertFolderStep, AddDashboardStep DEF Next

LEMMA Beginning ==
    ASSUME Init
    PROVE  Consistent /\ orderly = TRUE
<1>1. PICK t \in Trees :
        /\ rows = DOMAIN t
        /\ path = [x \in Row |-> IF x \in rows THEN t[x] ELSE Null]
  BY DEF Init
<1>2. DOMAIN t \subseteq Folder /\ (\A x \in DOMAIN t : t[x] \in Text) /\ Written(t)
  BY FolderAssumption
<1>3. /\ used = rows /\ req = [r \in Request |-> Idle] /\ served = 0 /\ orderly = TRUE
  BY DEF Init
<1>4. \A d \in Dashboard : d \notin rows /\ d \in Row
  BY <1>1, <1>2, FolderAssumption DEF Row
<1>5. TypeOK
  BY <1>1, <1>2, <1>3, <1>4, FolderAssumption DEF TypeOK, Row
<1>6. Shown = DOMAIN t /\ \A x \in Shown : path[x] = t[x]
  BY <1>1, <1>2, FolderAssumption DEF Shown, Row
<1>7. Written(Tree)
  BY <1>2, <1>6 DEF Written, Tree
<1>8. InOrder
  BY <1>4, <1>7 DEF InOrder
<1> QED
  BY <1>3, <1>5, <1>8, IdleShape DEF Consistent

(* For any ids, any number of requests in any interleaving and failing at  *)
(* any step: until a step puts the tree in disorder, the path of every     *)
(* folder is its id joined to the path of a folder that is there, and every*)
(* dashboard is in a folder that is there.                                 *)
THEOREM ConsistentAlways == Spec => []Consistent
<1>1. Init => Consistent
  BY Beginning
<1>2. Consistent /\ [Next]_vars => Consistent'
  <2> SUFFICES ASSUME Consistent, [Next]_vars PROVE Consistent'
    OBVIOUS
  <2>1. Types /\ (orderly => InOrder)
    BY DEF Consistent, Types, Shapes
  <2>2. Types' /\ Follows
    BY <2>1, EveryStep
  <2> QED
    BY <2>2 DEF Consistent, Types, Shapes, Follows
<1> QED
  BY <1>1, <1>2, PTL DEF Spec

THEOREM TypeCorrect == Spec => []TypeOK
<1>1. Consistent => TypeOK
  BY DEF Consistent
<1> QED
  BY <1>1, ConsistentAlways, PTL

(* get_children finds each folder once, below the folder its path names,   *)
(* and all of them from the root: with ids of several digits too, one of   *)
(* which may begin or end like another.                                    *)
THEOREM TreeShownAlways == Spec => []TreeShown
<1>1. Consistent => TreeShown
  <2> SUFFICES ASSUME Consistent, orderly
               PROVE  /\ F!TypeOK /\ F!Rooted
                      /\ \A f \in Shown :
                           path[f] = IF parentBar[f] = Root THEN f
                                     ELSE Join(path[parentBar[f]], f)
    BY DEF TreeShown
  <2>1. TypeOK /\ InOrder
    BY DEF Consistent
  <2>2. F!TypeOK /\ F!Rooted
    BY <2>1, ForestInOrder
  <2>3. /\ Hangs(Tree, parentBar) /\ DOMAIN Tree = Shown
        /\ \A f \in Shown : Tree[f] = path[f]
    BY <2>1, TreeInOrder
  <2>4. Root \notin Shown
    BY FolderAssumption DEF Shown
  <2> QED
    BY <2>2, <2>3, <2>4 DEF Hangs
<1> QED
  BY <1>1, ConsistentAlways, PTL

(* Adding, moving and deleting folders and dashboards, each in the steps   *)
(* and commits it takes, is one step of the forest or none.                *)
THEOREM ForestImplemented == Spec => ImplementsForest
<1>1. Init => F!Init
  <2> SUFFICES ASSUME Init PROVE F!Init
    OBVIOUS
  <2>1. TypeOK /\ InOrder /\ orderly = TRUE
    BY Beginning DEF Consistent
  <2> QED
    BY <2>1, ForestInOrder DEF F!Init
<1>2. Consistent /\ Consistent' /\ [Next]_vars => [F!Next]_F!vars
  <2> SUFFICES ASSUME Consistent, Consistent', [Next]_vars PROVE [F!Next]_F!vars
    OBVIOUS
  <2>1. Types /\ (orderly => InOrder)
    BY DEF Consistent, Types, Shapes
  <2>2. Follows
    BY <2>1, EveryStep
  <2>3. orderly \in BOOLEAN /\ orderly' \in BOOLEAN
    BY DEF Consistent, TypeOK
  <2>4. CASE ~orderly'
    BY <2>4 DEF F!Next
  <2>5. CASE orderly' /\ F!Step
    BY <2>2, <2>5 DEF Follows, F!Next
  <2>6. CASE orderly' /\ parentBar' = parentBar /\ placeBar' = placeBar
    BY <2>2, <2>3, <2>6 DEF Follows, F!vars
  <2> QED
    BY <2>2, <2>4, <2>5, <2>6 DEF Follows
<1>3. Spec => F!Init /\ [][F!Next]_F!vars
  BY <1>1, <1>2, ConsistentAlways, PTL DEF Spec
<1> QED
  BY <1>3 DEF ImplementsForest, F!Spec
=============================================================================
