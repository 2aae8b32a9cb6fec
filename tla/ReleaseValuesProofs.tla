------------------------- MODULE ReleaseValuesProofs -------------------------
(***************************************************************************)
(* The values of a release are merged as they are to be, for any keys,     *)
(* leaves and maps, however deep.                                          *)
(*                                                                         *)
(* Values and Merged are functions that are defined by recursion, and what *)
(* is chosen satisfies its equation since some function does: for the maps *)
(* in which n maps are nested by induction on n.  The induction is that a  *)
(* set of numbers that has no least one is empty (NatLeast).  The rest     *)
(* follows from what a merge does along a path, by induction on the path.  *)
(***************************************************************************)
EXTENDS MCProjectHelmCharts, WellFoundedInduction, TLAPS

-----------------------------------------------------------------------------
(* Induction *)

\* A set of natural numbers that is not empty has a least one.
LEMMA NatLeast == ASSUME NEW T \in SUBSET Nat, T # {} PROVE \E x \in T : \A y \in T : ~(y < x)
<1> DEFINE R == OpToRel(<, Nat)
<1>1. IsWellFoundedOn(R, Nat)
  BY NatLessThanWellFounded
<1>2. \A x, y \in Nat : <<y, x>> \in R <=> y < x
  BY DEF OpToRel
<1> HIDE DEF R
<1>3. PICK x \in T : \A y \in T : ~(<<y, x>> \in R)
  BY <1>1, WFMin
<1> QED
  BY <1>2, <1>3

\* Induction, about a set: the numbers that are not in it have no least one.
LEMMA NatInd == ASSUME NEW S, 0 \in S, \A n \in Nat : n \in S => n + 1 \in S PROVE Nat \subseteq S
<1> DEFINE T == Nat \ S
<1> SUFFICES ASSUME T # {} PROVE FALSE
  OBVIOUS
<1>1. T \in SUBSET Nat
  OBVIOUS
<1>2. \A x \in T : x \in Nat /\ x # 0 /\ x \notin S
  OBVIOUS
<1>3. \A x \in Nat : x \in T \/ x \in S
  OBVIOUS
<1> HIDE DEF T
<1>4. PICK x \in T : \A y \in T : ~(y < x)
  BY <1>1, NatLeast
<1>5. x - 1 \in Nat /\ x - 1 < x /\ x = (x - 1) + 1
  BY <1>2
<1>6. x - 1 \in S
  BY <1>3, <1>4, <1>5
<1> QED
  BY <1>2, <1>5, <1>6

-----------------------------------------------------------------------------
(* Values *)

\* Maps, leaves and Absent are different things.
LEMMA Kinds ==
    /\ \A f : IsMap([map |-> f]) /\ ~IsLeaf([map |-> f]) /\ [map |-> f] # Absent
    /\ \A x : IsLeaf(Leaf(x)) /\ ~IsMap(Leaf(x)) /\ Leaf(x) # Absent
    /\ ~IsMap(Absent) /\ ~IsLeaf(Absent)
  BY DEF IsMap, IsLeaf, Leaf, Absent

\* What Values has at level i, when g is what it has below.
LevelOf(g, i) == [leaf : Leaves] \cup (IF i = 0 THEN {} ELSE [map : [Keys -> g[i - 1] \cup {Absent}]])

\* Only the level below matters.
LEMMA LevelSame ==
    ASSUME NEW g, NEW h, NEW i, i = 0 \/ g[i - 1] = h[i - 1]
    PROVE  LevelOf(g, i) = LevelOf(h, i)
  BY DEF LevelOf

\* There is a function that satisfies the equation of Values up to n.
LEMMA LevelsExist == ASSUME NEW n \in Nat PROVE \E g : g = [i \in 0..n |-> LevelOf(g, i)]
<1> DEFINE S == {m \in Nat : \E g : g = [i \in 0..m |-> LevelOf(g, i)]}
<1>1. 0 \in S
  <2> DEFINE g == [i \in 0..0 |-> [leaf : Leaves]]
  <2>1. LevelOf(g, 0) = [leaf : Leaves]
    BY DEF LevelOf
  <2>2. g = [i \in 0..0 |-> LevelOf(g, 0)]
    BY <2>1
  <2> HIDE DEF g
  <2>3. g = [i \in 0..0 |-> LevelOf(g, i)]
    BY <2>2
  <2> QED
    BY <2>3
<1>2. ASSUME NEW m \in Nat, m \in S PROVE m + 1 \in S
  <2>1. PICK g : g = [i \in 0..m |-> LevelOf(g, i)]
    BY <1>2
  <2> DEFINE h == [i \in 0..(m + 1) |-> LevelOf(g, i)]
  <2>2. \A i \in 0..m : h[i] = LevelOf(g, i)
    BY <1>2
  <2>3. \A i \in 0..m : g[i] = LevelOf(g, i)
    BY <2>1
  <2>4. \A i \in 0..(m + 1) : i = 0 \/ g[i - 1] = h[i - 1]
    <3> TAKE i \in 0..(m + 1)
    <3>1. i = 0 \/ (i - 1 \in 0..m)
      OBVIOUS
    <3> QED
      BY <2>2, <2>3, <3>1
  <2>5. h = [i \in 0..(m + 1) |-> LevelOf(g, i)]
    OBVIOUS
  <2> HIDE DEF h
  <2>6. \A i \in 0..(m + 1) : LevelOf(g, i) = LevelOf(h, i)
    <3> TAKE i \in 0..(m + 1)
    <3>1. i = 0 \/ g[i - 1] = h[i - 1]
      BY <2>4
    <3> QED
      BY <3>1, LevelSame
  <2>7. h = [i \in 0..(m + 1) |-> LevelOf(h, i)]
    BY <2>5, <2>6
  <2>8. m + 1 \in Nat
    OBVIOUS
  <2> QED
    BY <2>7, <2>8
<1> HIDE DEF S
<1>3. n \in S
  BY <1>1, <1>2, NatInd
<1> QED
  BY <1>3 DEF S

\* So Values does.
LEMMA ValuesAt == ASSUME NEW n \in 0..MaxDepth PROVE Values[n] = LevelOf(Values, n)
<1> DEFINE P(g) == g = [i \in 0..MaxDepth |-> LevelOf(g, i)]
<1>1. PICK g : P(g)
  BY LevelsExist, ValuesAssumption
<1>2. Values = CHOOSE h : P(h)
  BY DEF Values, LevelOf
<1> HIDE DEF P
<1>3. P(Values)
  BY <1>1, <1>2
<1> QED
  BY <1>3 DEF P

\* A value is a leaf, or a map of values in which one map less is nested.
LEMMA ValueIs ==
    ASSUME NEW n \in 0..MaxDepth, NEW v \in Values[n]
    PROVE  \/ \E x \in Leaves : v = Leaf(x)
           \/ n > 0 /\ \E f \in Maps(n - 1) : v = [map |-> f]
<1>1. v \in LevelOf(Values, n)
  BY ValuesAt
<1>2. CASE v \in [leaf : Leaves]
  BY <1>2 DEF Leaf
<1>3. CASE n # 0 /\ v \in [map : [Keys -> Values[n - 1] \cup {Absent}]]
  BY <1>3, ValuesAssumption DEF Maps
<1> QED
  BY <1>1, <1>2, <1>3 DEF LevelOf

\* Leaves are values.
LEMMA LeafValue == ASSUME NEW n \in 0..MaxDepth, NEW x \in Leaves PROVE Leaf(x) \in Values[n]
<1>1. Leaf(x) \in LevelOf(Values, n)
  BY DEF LevelOf, Leaf
<1> QED
  BY <1>1, ValuesAt

\* Maps of values are values.
LEMMA MapValue ==
    ASSUME NEW n \in 0..MaxDepth, n > 0, NEW f \in Maps(n - 1)
    PROVE  [map |-> f] \in Values[n]
<1> DEFINE D == [Keys -> Values[n - 1] \cup {Absent}]
<1>1. f \in D
  BY DEF Maps
<1> HIDE DEF D
<1>2. [map |-> f] \in [map : D]
  BY <1>1
<1>3. n # 0
  BY ValuesAssumption
<1>4. [map |-> f] \in LevelOf(Values, n)
  BY <1>2, <1>3 DEF LevelOf, D
<1> QED
  BY <1>4, ValuesAt

\* Fewer maps may be nested.
LEMMA ValuesGrow == ASSUME NEW n \in Nat, n < MaxDepth PROVE Values[n] \subseteq Values[n + 1]
<1> DEFINE S == {m \in Nat : m < MaxDepth => Values[m] \subseteq Values[m + 1]}
<1>1. 0 \in S
  <2> SUFFICES ASSUME 0 < MaxDepth, NEW v \in Values[0] PROVE v \in Values[1]
    OBVIOUS
  <2>1. 0 \in 0..MaxDepth /\ 1 \in 0..MaxDepth
    BY ValuesAssumption
  <2>2. PICK x \in Leaves : v = Leaf(x)
    BY <2>1, ValueIs
  <2> QED
    BY <2>1, <2>2, LeafValue
<1>2. ASSUME NEW m \in Nat, m \in S PROVE m + 1 \in S
  <2> SUFFICES ASSUME m + 1 < MaxDepth, NEW v \in Values[m + 1] PROVE v \in Values[(m + 1) + 1]
    OBVIOUS
  <2>1. /\ m + 1 \in 0..MaxDepth /\ (m + 1) + 1 \in 0..MaxDepth
        /\ (m + 1) - 1 = m /\ ((m + 1) + 1) - 1 = m + 1 /\ (m + 1) + 1 > 0 /\ m < MaxDepth
    BY ValuesAssumption
  <2>2. Values[m] \subseteq Values[m + 1]
    BY <1>2, <2>1
  <2>3. CASE \E x \in Leaves : v = Leaf(x)
    BY <2>1, <2>3, LeafValue
  <2>4. CASE \E f \in Maps(m) : v = [map |-> f]
    <3>1. PICK f \in Maps(m) : v = [map |-> f]
      BY <2>4
    <3>2. f \in Maps(m + 1)
      BY <2>2 DEF Maps
    <3> QED
      BY <2>1, <3>1, <3>2, MapValue
  <2> QED
    BY <2>1, <2>3, <2>4, ValueIs
<1> HIDE DEF S
<1>3. n \in S
  BY <1>1, <1>2, NatInd
<1> QED
  BY <1>3 DEF S

\* And likewise in a map.
LEMMA MapsGrow == ASSUME NEW n \in Nat, n < MaxDepth PROVE Maps(n) \subseteq Maps(n + 1)
  BY ValuesGrow DEF Maps

\* All maps are among Map.
LEMMA MapsIn == ASSUME NEW n \in 0..MaxDepth PROVE Maps(n) \subseteq Map
<1> DEFINE S == {m \in Nat : m <= MaxDepth => Maps(MaxDepth - m) \subseteq Map}
<1>1. 0 \in S
  <2>1. MaxDepth - 0 = MaxDepth
    BY ValuesAssumption
  <2> QED
    BY <2>1 DEF Map
<1>2. ASSUME NEW m \in Nat, m \in S PROVE m + 1 \in S
  <2> SUFFICES ASSUME m + 1 <= MaxDepth PROVE Maps(MaxDepth - (m + 1)) \subseteq Map
    OBVIOUS
  <2> DEFINE j == MaxDepth - (m + 1)
  <2>1. j \in Nat /\ j < MaxDepth /\ j + 1 = MaxDepth - m /\ m <= MaxDepth
    BY ValuesAssumption
  <2> HIDE DEF j
  <2>2. Maps(j) \subseteq Maps(j + 1)
    BY <2>1, MapsGrow
  <2>3. Maps(j + 1) \subseteq Map
    BY <1>2, <2>1
  <2> QED
    BY <2>2, <2>3 DEF j
<1> HIDE DEF S
<1>3. MaxDepth - n \in Nat /\ MaxDepth - n <= MaxDepth /\ MaxDepth - (MaxDepth - n) = n
  BY ValuesAssumption
<1>4. MaxDepth - n \in S
  BY <1>1, <1>2, <1>3, NatInd
<1> QED
  BY <1>3, <1>4 DEF S

\* What is below a key of a map.
LEMMA ChildIs ==
    ASSUME NEW n \in 0..MaxDepth, NEW b \in Maps(n), NEW k \in Keys, IsMap(b[k])
    PROVE  n > 0 /\ b[k].map \in Maps(n - 1) /\ b[k] = [map |-> b[k].map]
<1>1. b[k] \in Values[n] \/ b[k] = Absent
  BY DEF Maps
<1>2. b[k] \in Values[n] /\ ~(\E x \in Leaves : b[k] = Leaf(x))
  BY <1>1, Kinds
<1> QED
  BY <1>2, ValueIs

-----------------------------------------------------------------------------
(* Merges *)

\* What Merged has for the base b, when g is what it has for the maps in b.
MergedAt(g, b) == [o \in Map |-> [k \in Keys |->
    IF IsMap(b[k]) /\ IsMap(o[k]) THEN [map |-> g[b[k].map][o[k].map]]
    ELSE IF o[k] = Absent THEN b[k] ELSE o[k]]]

\* Only what is below the keys of the base matters.
LEMMA MergedSame ==
    ASSUME NEW g, NEW h, NEW b, \A k \in Keys : IsMap(b[k]) => g[b[k].map] = h[b[k].map]
    PROVE  MergedAt(g, b) = MergedAt(h, b)
  BY DEF MergedAt

\* There is a function that satisfies the equation of Merged for the maps in which n maps
\* are nested.
LEMMA MergedExists == ASSUME NEW n \in 0..MaxDepth PROVE \E g : g = [b \in Maps(n) |-> MergedAt(g, b)]
<1> DEFINE S == {m \in Nat : m <= MaxDepth => \E g : g = [b \in Maps(m) |-> MergedAt(g, b)]}
<1>1. 0 \in S
  <2> DEFINE g == [b \in Maps(0) |-> MergedAt(<<>>, b)]
  <2>1. g = [b \in Maps(0) |-> MergedAt(<<>>, b)]
    OBVIOUS
  <2> HIDE DEF g
  <2>2. \A b \in Maps(0) : MergedAt(<<>>, b) = MergedAt(g, b)
    <3> TAKE b \in Maps(0)
    <3>1. 0 \in 0..MaxDepth
      BY ValuesAssumption
    <3>2. ASSUME NEW k \in Keys, IsMap(b[k]) PROVE FALSE
      <4>1. 0 > 0
        BY <3>1, <3>2, ChildIs
      <4> QED
        BY <4>1
    <3> QED
      BY <3>2, MergedSame
  <2>3. g = [b \in Maps(0) |-> MergedAt(g, b)]
    BY <2>1, <2>2
  <2> QED
    BY <2>3
<1>2. ASSUME NEW m \in Nat, m \in S PROVE m + 1 \in S
  <2> SUFFICES ASSUME m + 1 <= MaxDepth PROVE \E h : h = [b \in Maps(m + 1) |-> MergedAt(h, b)]
    OBVIOUS
  <2>1. m < MaxDepth /\ m <= MaxDepth /\ m + 1 \in 0..MaxDepth /\ (m + 1) - 1 = m
    BY ValuesAssumption
  <2>2. PICK g : g = [b \in Maps(m) |-> MergedAt(g, b)]
    BY <1>2, <2>1
  <2> DEFINE h == [b \in Maps(m + 1) |-> MergedAt(g, b)]
  <2>3. h = [b \in Maps(m + 1) |-> MergedAt(g, b)]
    OBVIOUS
  <2> HIDE DEF h
  <2>4. Maps(m) \subseteq Maps(m + 1)
    BY <2>1, MapsGrow
  <2>5. \A c \in Maps(m) : g[c] = h[c]
    BY <2>2, <2>3, <2>4
  <2>6. \A b \in Maps(m + 1) : MergedAt(g, b) = MergedAt(h, b)
    <3> TAKE b \in Maps(m + 1)
    <3>1. \A k \in Keys : IsMap(b[k]) => b[k].map \in Maps(m)
      BY <2>1, ChildIs
    <3>2. \A k \in Keys : IsMap(b[k]) => g[b[k].map] = h[b[k].map]
      BY <2>5, <3>1
    <3> QED
      BY <3>2, MergedSame
  <2>7. h = [b \in Maps(m + 1) |-> MergedAt(h, b)]
    BY <2>3, <2>6
  <2> QED
    BY <2>7
<1> HIDE DEF S
<1>3. n \in S
  BY <1>1, <1>2, NatInd
<1> QED
  BY <1>3 DEF S

\* So Merged does for all maps.
LEMMA MergedIs == Merged = [b \in Map |-> MergedAt(Merged, b)]
<1> DEFINE P(g) == g = [b \in Map |-> MergedAt(g, b)]
<1>1. MaxDepth \in 0..MaxDepth
  BY ValuesAssumption
<1>2. PICK g : P(g)
  BY <1>1, MergedExists DEF Map
<1>3. Merged = CHOOSE h : P(h)
  BY DEF Merged, MergedAt
<1> HIDE DEF P
<1>4. P(Merged)
  BY <1>2, <1>3
<1> QED
  BY <1>4 DEF P

\* The recursion of MergeMaps (merge.go:7-19).
LEMMA MergeAt ==
    ASSUME NEW b \in Map, NEW o \in Map
    PROVE  MergeMaps(b, o) = [k \in Keys |->
               IF IsMap(b[k]) /\ IsMap(o[k]) THEN [map |-> MergeMaps(b[k].map, o[k].map)]
               ELSE IF o[k] = Absent THEN b[k] ELSE o[k]]
<1>1. Merged[b] = MergedAt(Merged, b)
  BY MergedIs
<1> QED
  BY <1>1 DEF MergeMaps, MergedAt

\* A merge does not nest deeper than what is merged.
LEMMA MergeIn ==
    ASSUME NEW n \in 0..MaxDepth, NEW base \in Maps(n), NEW overlay \in Maps(n)
    PROVE  MergeMaps(base, overlay) \in Maps(n)
<1> DEFINE S == {m \in Nat : m <= MaxDepth => \A b, o \in Maps(m) : MergeMaps(b, o) \in Maps(m)}
<1>1. ASSUME NEW m \in 0..MaxDepth, NEW b \in Maps(m), NEW o \in Maps(m),
             m > 0 => \A c, d \in Maps(m - 1) : MergeMaps(c, d) \in Maps(m - 1)
      PROVE  MergeMaps(b, o) \in Maps(m)
  <2> DEFINE D == Values[m] \cup {Absent}
  <2>1. b \in [Keys -> D] /\ o \in [Keys -> D]
    BY DEF Maps
  <2>2. ASSUME NEW k \in Keys, IsMap(b[k]), IsMap(o[k])
        PROVE  [map |-> MergeMaps(b[k].map, o[k].map)] \in D
    <3>1. m > 0 /\ b[k].map \in Maps(m - 1) /\ o[k].map \in Maps(m - 1)
      BY <2>2, ChildIs
    <3>2. MergeMaps(b[k].map, o[k].map) \in Maps(m - 1)
      BY <1>1, <3>1
    <3> QED
      BY <3>1, <3>2, MapValue
  <2> HIDE DEF D
  <2>3. b \in Map /\ o \in Map
    BY MapsIn
  <2>4. MergeMaps(b, o) \in [Keys -> D]
    BY <2>1, <2>2, <2>3, MergeAt
  <2> QED
    BY <2>4 DEF D, Maps
<1>2. 0 \in S
  <2>1. 0 \in 0..MaxDepth
    BY ValuesAssumption
  <2> QED
    BY <1>1, <2>1
<1>3. ASSUME NEW m \in Nat, m \in S PROVE m + 1 \in S
  <2> SUFFICES ASSUME m + 1 <= MaxDepth PROVE \A b, o \in Maps(m + 1) : MergeMaps(b, o) \in Maps(m + 1)
    OBVIOUS
  <2>1. m <= MaxDepth /\ m + 1 \in 0..MaxDepth /\ (m + 1) - 1 = m
    BY ValuesAssumption
  <2> QED
    BY <1>1, <1>3, <2>1
<1> HIDE DEF S
<1>4. n \in S
  BY <1>2, <1>3, NatInd
<1> QED
  BY <1>4 DEF S

-----------------------------------------------------------------------------
(* Paths *)

\* What Along has at i, when g is what it has before.
AlongAt(v, p, g, i) == IF i = 0 THEN v ELSE Get(g[i - 1], p[i])

\* There is a function that goes along a path.
LEMMA AlongExists == ASSUME NEW v, NEW p, NEW n \in Nat PROVE \E g : g = [i \in 0..n |-> AlongAt(v, p, g, i)]
<1> DEFINE S == {m \in Nat : \E g : g = [i \in 0..m |-> AlongAt(v, p, g, i)]}
<1>1. 0 \in S
  <2> DEFINE g == [i \in 0..0 |-> v]
  <2>1. g = [i \in 0..0 |-> AlongAt(v, p, g, i)]
    BY DEF AlongAt
  <2> QED
    BY <2>1
<1>2. ASSUME NEW m \in Nat, m \in S PROVE m + 1 \in S
  <2>1. PICK g : g = [i \in 0..m |-> AlongAt(v, p, g, i)]
    BY <1>2
  <2> DEFINE h == [i \in 0..(m + 1) |-> AlongAt(v, p, g, i)]
  <2>2. h = [i \in 0..(m + 1) |-> AlongAt(v, p, g, i)]
    OBVIOUS
  <2> HIDE DEF h
  <2>3. \A i \in 0..(m + 1) : AlongAt(v, p, g, i) = AlongAt(v, p, h, i)
    <3> TAKE i \in 0..(m + 1)
    <3>1. CASE i = 0
      BY <3>1 DEF AlongAt
    <3>2. CASE i # 0
      <4>1. i - 1 \in 0..m /\ i - 1 \in 0..(m + 1)
        BY <3>2
      <4>2. g[i - 1] = h[i - 1]
        BY <2>1, <2>2, <4>1
      <4> QED
        BY <4>2 DEF AlongAt
    <3> QED
      BY <3>1, <3>2
  <2>4. h = [i \in 0..(m + 1) |-> AlongAt(v, p, h, i)]
    BY <2>2, <2>3
  <2>5. m + 1 \in Nat
    OBVIOUS
  <2> QED
    BY <2>4, <2>5
<1> HIDE DEF S
<1>3. n \in S
  BY <1>1, <1>2, NatInd
<1> QED
  BY <1>3 DEF S

\* So Along does.
LEMMA AlongIs ==
    ASSUME NEW v, NEW p, Len(p) \in Nat
    PROVE  /\ Along(v, p)[0] = v
           /\ \A i \in 1..Len(p) : Along(v, p)[i] = Get(Along(v, p)[i - 1], p[i])
<1> DEFINE P(g) == g = [i \in 0..Len(p) |-> AlongAt(v, p, g, i)]
           a    == Along(v, p)
<1>1. PICK g : P(g)
  BY AlongExists
<1>2. a = CHOOSE h : P(h)
  BY DEF Along, AlongAt
<1> HIDE DEF P
<1>3. P(a)
  BY <1>1, <1>2
<1> HIDE DEF a
<1>4. a = [i \in 0..Len(p) |-> AlongAt(v, p, a, i)]
  BY <1>3 DEF P
<1>5. a[0] = v
  BY <1>4 DEF AlongAt
<1>6. ASSUME NEW i \in 1..Len(p) PROVE a[i] = Get(a[i - 1], p[i])
  <2>1. i \in 0..Len(p) /\ i # 0
    OBVIOUS
  <2> QED
    BY <1>4, <2>1 DEF AlongAt
<1> QED
  BY <1>5, <1>6 DEF a

\* What a path may lead to.
Node == {[map |-> f] : f \in Map} \cup {Leaf(x) : x \in Leaves} \cup {Absent}

\* A node is a map, a leaf or nothing.
LEMMA NodeIs ==
    ASSUME NEW v \in Node
    PROVE  \/ ~IsLeaf(v) /\ v # Absent /\ IsMap(v) /\ \E f \in Map : v = [map |-> f]
           \/ IsLeaf(v) /\ v # Absent /\ ~IsMap(v) /\ \E x \in Leaves : v = Leaf(x)
           \/ ~IsLeaf(v) /\ v = Absent /\ ~IsMap(v)
  BY Kinds DEF Node

\* What is under a key of a map is a node.
LEMMA MapHas == ASSUME NEW f \in Map, NEW k \in Keys PROVE f[k] \in Node
<1>1. MaxDepth \in 0..MaxDepth /\ MaxDepth - 1 \in 0..MaxDepth
  BY ValuesAssumption
<1>2. f \in Maps(MaxDepth)
  BY DEF Map
<1>3. CASE f[k] = Absent
  BY <1>3 DEF Node
<1>4. CASE f[k] \in Values[MaxDepth]
  <2>1. CASE \E x \in Leaves : f[k] = Leaf(x)
    BY <2>1 DEF Node
  <2>2. CASE \E g \in Maps(MaxDepth - 1) : f[k] = [map |-> g]
    <3>1. PICK g \in Maps(MaxDepth - 1) : f[k] = [map |-> g]
      BY <2>2
    <3>2. g \in Map
      BY <1>1, MapsIn
    <3> QED
      BY <3>1, <3>2 DEF Node
  <2> QED
    BY <1>1, <1>4, <2>1, <2>2, ValueIs
<1> QED
  BY <1>2, <1>3, <1>4 DEF Maps

\* Get, of a map and of what is none.
LEMMA GetIs ==
    /\ \A f, k : Get([map |-> f], k) = f[k]
    /\ \A v, k : ~IsMap(v) => Get(v, k) = Absent
  BY Kinds DEF Get

\* A path leads to nodes.
LEMMA GetIn == ASSUME NEW v \in Node, NEW k \in Keys PROVE Get(v, k) \in Node
<1>1. CASE \E f \in Map : v = [map |-> f]
  BY <1>1, GetIs, MapHas
<1>2. CASE ~IsMap(v)
  BY <1>2, GetIs DEF Node
<1> QED
  BY <1>1, <1>2, NodeIs

\* What a merge leaves of a value of the base and one of the overlay, which is a map.
Merges(b, o, m) ==
    IF IsMap(b) THEN \E c, d \in Map : b = [map |-> c] /\ o = [map |-> d] /\ m = [map |-> MergeMaps(c, d)]
                ELSE m = o

\* The inductive invariant of a path: hidden is whether a leaf of the overlay is on it.
PathInv(b, o, m, hidden) ==
    \/ IsLeaf(o) /\ m = o /\ hidden
    \/ o = Absent /\ m = IF hidden THEN Absent ELSE b
    \/ IsMap(o) /\ ~hidden /\ Merges(b, o, m)

\* How the invariant holds for what a path leads to.
LEMMA PathIs ==
    ASSUME NEW b, NEW o, NEW m, NEW h \in BOOLEAN
    PROVE  /\ IsLeaf(o) /\ m = o => PathInv(b, o, m, h \/ IsLeaf(o))
           /\ o = Absent /\ h /\ m = Absent => PathInv(b, o, m, h \/ IsLeaf(o))
           /\ o = Absent /\ ~h /\ m = b => PathInv(b, o, m, h \/ IsLeaf(o))
           /\ IsMap(o) /\ ~IsLeaf(o) /\ ~h /\ Merges(b, o, m) => PathInv(b, o, m, h \/ IsLeaf(o))
<1>1. ~IsLeaf(Absent)
  BY Kinds
<1>2. CASE h
  BY <1>1, <1>2 DEF PathInv
<1>3. CASE ~h
  BY <1>1, <1>3 DEF PathInv
<1> QED
  BY <1>2, <1>3

\* The invariant is kept by each key of a path.
LEMMA PathStep ==
    ASSUME NEW b, NEW o \in Node, NEW m, NEW h \in BOOLEAN, PathInv(b, o, m, h), NEW k \in Keys
    PROVE  PathInv(Get(b, k), Get(o, k), Get(m, k), h \/ IsLeaf(Get(o, k)))
<1> SUFFICES ASSUME NEW b2, NEW o2, NEW m2, b2 = Get(b, k), o2 = Get(o, k), m2 = Get(m, k)
             PROVE  PathInv(b2, o2, m2, h \/ IsLeaf(o2))
  OBVIOUS
<1>1. Get(Absent, k) = Absent
  BY GetIs, Kinds
<1>2. CASE IsLeaf(o) /\ m = o /\ h
  <2>1. o2 = Absent /\ m2 = Absent
    BY <1>2, NodeIs, GetIs
  <2> QED
    BY <1>2, <2>1, PathIs
<1>3. CASE o = Absent /\ m = IF h THEN Absent ELSE b
  <2>1. o2 = Absent
    BY <1>1, <1>3
  <2>2. CASE h
    <3>1. m2 = Absent
      BY <1>1, <1>3, <2>2
    <3> QED
      BY <2>1, <2>2, <3>1, PathIs
  <2>3. CASE ~h
    <3>1. m2 = b2
      BY <1>3, <2>3
    <3> QED
      BY <2>1, <2>3, <3>1, PathIs
  <2> QED
    BY <2>2, <2>3
<1>4. CASE IsMap(o) /\ ~h /\ IsMap(b) /\ Merges(b, o, m)
  <2>1. PICK c \in Map, d \in Map : b = [map |-> c] /\ o = [map |-> d] /\ m = [map |-> MergeMaps(c, d)]
    BY <1>4 DEF Merges
  <2>2. b2 = c[k] /\ o2 = d[k] /\ m2 = MergeMaps(c, d)[k]
    BY <2>1, GetIs
  <2>3. b2 \in Node /\ o2 \in Node
    BY <2>2, MapHas
  <2>4. m2 = IF IsMap(b2) /\ IsMap(o2) THEN [map |-> MergeMaps(b2.map, o2.map)]
             ELSE IF o2 = Absent THEN b2 ELSE o2
    BY <2>2, MergeAt
  <2>5. CASE IsLeaf(o2)
    <3>1. m2 = o2
      BY <2>3, <2>4, <2>5, NodeIs
    <3> QED
      BY <2>5, <3>1, PathIs
  <2>6. CASE o2 = Absent
    <3>1. m2 = b2
      BY <2>3, <2>4, <2>6, NodeIs
    <3> QED
      BY <1>4, <2>6, <3>1, PathIs
  <2>7. CASE IsMap(o2)
    <3>1. ~IsLeaf(o2) /\ o2 # Absent
      BY <2>3, <2>7, NodeIs
    <3>2. CASE IsMap(b2)
      <4>1. PICK f \in Map, g \in Map : b2 = [map |-> f] /\ o2 = [map |-> g]
        BY <2>3, <2>7, <3>2, NodeIs
      <4>2. m2 = [map |-> MergeMaps(f, g)]
        BY <2>4, <2>7, <3>2, <4>1
      <4>3. Merges(b2, o2, m2)
        BY <3>2, <4>1, <4>2 DEF Merges
      <4> QED
        BY <1>4, <2>7, <3>1, <4>3, PathIs
    <3>3. CASE ~IsMap(b2)
      <4>1. Merges(b2, o2, m2)
        BY <2>4, <3>1, <3>3 DEF Merges
      <4> QED
        BY <1>4, <2>7, <3>1, <4>1, PathIs
    <3> QED
      BY <3>2, <3>3
  <2> QED
    BY <2>3, <2>5, <2>6, <2>7, NodeIs
<1>5. CASE IsMap(o) /\ ~h /\ ~IsMap(b) /\ Merges(b, o, m)
  <2>1. m2 = o2 /\ b2 = Absent
    BY <1>5, GetIs DEF Merges
  <2>2. o2 \in Node
    BY GetIn
  <2>3. CASE IsLeaf(o2)
    BY <2>1, <2>3, PathIs
  <2>4. CASE o2 = Absent
    BY <1>5, <2>1, <2>4, PathIs
  <2>5. CASE IsMap(o2)
    <3>1. Merges(b2, o2, m2)
      BY <2>1, Kinds DEF Merges
    <3>2. ~IsLeaf(o2)
      BY <2>2, <2>5, NodeIs
    <3> QED
      BY <1>5, <2>5, <3>1, <3>2, PathIs
  <2> QED
    BY <2>2, <2>3, <2>4, <2>5, NodeIs
<1> QED
  BY <1>2, <1>3, <1>4, <1>5 DEF PathInv

\* What MergesPathwise says of a path.
PathRule(b, o, m, n) ==
    /\ IsLeaf(o[n]) => m[n] = o[n]
    /\ IsMap(o[n]) => IsMap(m[n])
    /\ o[n] = Absent => m[n] = IF \E i \in 1..n : IsLeaf(o[i]) THEN Absent ELSE b[n]

\* So MergeMaps is right at each path.
LEMMA Pathwise ==
    ASSUME NEW base \in Map, NEW overlay \in Map, NEW p \in Seq(Keys)
    PROVE  PathRule(Along([map |-> base], p), Along([map |-> overlay], p),
                    Along([map |-> MergeMaps(base, overlay)], p), Len(p))
<1> SUFFICES ASSUME NEW b, b = Along([map |-> base], p), NEW o, o = Along([map |-> overlay], p),
                    NEW m, m = Along([map |-> MergeMaps(base, overlay)], p), NEW n, n = Len(p)
             PROVE  PathRule(b, o, m, n)
  OBVIOUS
<1> DEFINE hidden(i) == \E j \in 1..i : IsLeaf(o[j])
<1> HIDE DEF hidden
<1> DEFINE S == {i \in Nat : i <= n => o[i] \in Node /\ PathInv(b[i], o[i], m[i], hidden(i))}
<1>1. n \in Nat /\ Len(p) \in Nat /\ \A i \in 1..n : p[i] \in Keys
  OBVIOUS
<1>2. /\ b[0] = [map |-> base] /\ \A i \in 1..n : b[i] = Get(b[i - 1], p[i])
      /\ o[0] = [map |-> overlay] /\ \A i \in 1..n : o[i] = Get(o[i - 1], p[i])
      /\ m[0] = [map |-> MergeMaps(base, overlay)] /\ \A i \in 1..n : m[i] = Get(m[i - 1], p[i])
  BY <1>1, AlongIs
<1>3. 0 \in S
  <2>1. o[0] \in Node
    BY <1>2 DEF Node
  <2>2. ~hidden(0)
    BY DEF hidden
  <2>3. IsMap(o[0]) /\ Merges(b[0], o[0], m[0])
    BY <1>2, Kinds DEF Merges
  <2>4. PathInv(b[0], o[0], m[0], FALSE)
    BY <2>3 DEF PathInv
  <2>5. hidden(0) = FALSE
    BY <2>2
  <2> QED
    BY <2>1, <2>4, <2>5
<1>4. ASSUME NEW i \in Nat, i \in S PROVE i + 1 \in S
  <2> SUFFICES ASSUME i + 1 <= n
               PROVE  o[i + 1] \in Node /\ PathInv(b[i + 1], o[i + 1], m[i + 1], hidden(i + 1))
    OBVIOUS
  <2>1. i + 1 \in 1..n /\ (i + 1) - 1 = i /\ i <= n
    BY <1>1
  <2>2. o[i] \in Node /\ PathInv(b[i], o[i], m[i], hidden(i))
    BY <1>4, <2>1
  <2>3. p[i + 1] \in Keys /\ hidden(i) \in BOOLEAN
    BY <1>1, <2>1 DEF hidden
  <2>4. b[i + 1] = Get(b[i], p[i + 1]) /\ o[i + 1] = Get(o[i], p[i + 1]) /\ m[i + 1] = Get(m[i], p[i + 1])
    BY <1>2, <2>1
  <2>5. hidden(i + 1) = (hidden(i) \/ IsLeaf(o[i + 1]))
    <3>1. 1..(i + 1) = (1..i) \cup {i + 1}
      OBVIOUS
    <3> QED
      BY <3>1, Zenon DEF hidden
  <2>6. o[i + 1] \in Node
    BY <2>2, <2>3, <2>4, GetIn
  <2>7. PathInv(b[i + 1], o[i + 1], m[i + 1], hidden(i) \/ IsLeaf(o[i + 1]))
    BY <2>2, <2>3, <2>4, PathStep
  <2> QED
    BY <2>5, <2>6, <2>7
<1> HIDE DEF S
<1>5. n \in S
  BY <1>1, <1>3, <1>4, NatInd
<1>6. o[n] \in Node /\ PathInv(b[n], o[n], m[n], hidden(n))
  BY <1>1, <1>5 DEF S
<1>7. IsMap(o[n]) => IsMap(m[n])
  BY <1>6, NodeIs, Kinds DEF PathInv, Merges
<1>8. IsLeaf(o[n]) => m[n] = o[n]
  BY <1>6, NodeIs DEF PathInv
<1>9. o[n] = Absent => m[n] = IF hidden(n) THEN Absent ELSE b[n]
  BY <1>6, NodeIs DEF PathInv
<1> QED
  BY <1>7, <1>8, <1>9 DEF hidden, PathRule

\* And for the maps and the paths that are given.
LEMMA MergesIt == MergesPathwise
<1> USE DEF MergesPathwise
<1> TAKE base, overlay \in Trees, p \in Paths
<1> DEFINE n == Len(p)
           b == Along([map |-> base], p)
           o == Along([map |-> overlay], p)
           m == Along([map |-> MergeMaps(base, overlay)], p)
<1>1. base \in Map /\ overlay \in Map /\ p \in Seq(Keys)
  BY ValuesAssumption
<1>2. PathRule(b, o, m, n)
  BY <1>1, Pathwise
<1> HIDE DEF n, b, o, m
<1>3. /\ IsLeaf(o[n]) => m[n] = o[n]
      /\ IsMap(o[n]) => IsMap(m[n])
      /\ o[n] = Absent => m[n] = IF \E i \in 1..n : IsLeaf(o[i]) THEN Absent ELSE b[n]
  BY <1>2 DEF PathRule
<1> QED
  BY <1>3 DEF n, b, o, m

\* MergeMaps agrees with its definition path by path (merge.go:7-19), for any two maps.
THEOREM MergeCorrect == MergesPathwise /\ ValuesMerge
  BY MergesIt DEF ValuesMerge

-----------------------------------------------------------------------------
(* global.cattle *)

\* A path of three keys.
LEMMA ThreeKeys ==
    ASSUME NEW k1 \in Keys, NEW k2 \in Keys, NEW k3 \in Keys, NEW v
    PROVE  /\ <<k1, k2, k3>> \in Seq(Keys) /\ Len(<<k1, k2, k3>>) = 3
           /\ Along([map |-> v], <<k1, k2, k3>>)[1] = v[k1]
           /\ Along([map |-> v], <<k1, k2, k3>>)[2] = Get(v[k1], k2)
           /\ Along([map |-> v], <<k1, k2, k3>>)[3] = Get(Get(v[k1], k2), k3)
<1> DEFINE p == <<k1, k2, k3>>
           a == Along([map |-> v], p)
<1>1. p \in Seq(Keys) /\ Len(p) = 3 /\ p[1] = k1 /\ p[2] = k2 /\ p[3] = k3
  OBVIOUS
<1> HIDE DEF p
<1>2. a[0] = [map |-> v] /\ \A i \in 1..3 : a[i] = Get(a[i - 1], p[i])
  <2>1. Len(p) \in Nat
    BY <1>1
  <2>2. a[0] = [map |-> v]
    BY <2>1, AlongIs
  <2>3. \A i \in 1..Len(p) : a[i] = Get(a[i - 1], p[i])
    BY <2>1, AlongIs
  <2> QED
    BY <1>1, <2>2, <2>3
<1> HIDE DEF a
<1>3. 1 \in 1..3 /\ 2 \in 1..3 /\ 3 \in 1..3 /\ 1 - 1 = 0 /\ 2 - 1 = 1 /\ 3 - 1 = 2
  OBVIOUS
<1>4. a[1] = Get(a[1 - 1], p[1]) /\ a[2] = Get(a[2 - 1], p[2]) /\ a[3] = Get(a[3 - 1], p[3])
  BY <1>2, <1>3
<1>5. a[1] = v[k1] /\ a[2] = Get(v[k1], k2) /\ a[3] = Get(Get(v[k1], k2), k3)
  BY <1>1, <1>2, <1>3, <1>4, GetIs
<1> QED
  BY <1>1, <1>5 DEF a, p

\* A merge under global.cattle.
LEMMA CattleMerge ==
    ASSUME NEW b \in Map, NEW o \in Map, NEW k \in Keys
    PROVE  /\ IsLeaf(Cattle(o, k)) => Cattle(MergeMaps(b, o), k) = Cattle(o, k)
           /\ IsMap(Cattle(o, k)) => IsMap(Cattle(MergeMaps(b, o), k))
           /\ Silent(o, k) => Cattle(MergeMaps(b, o), k) = Cattle(b, k)
<1> DEFINE p == <<"global", "cattle", k>>
<1>1. "global" \in Keys /\ "cattle" \in Keys
  BY ValuesAssumption
<1>2. /\ p \in Seq(Keys) /\ Len(p) = 3
      /\ \A v : /\ Along([map |-> v], p)[1] = v["global"]
                /\ Along([map |-> v], p)[2] = Get(v["global"], "cattle")
                /\ Along([map |-> v], p)[3] = Cattle(v, k)
  BY <1>1, ThreeKeys DEF Cattle
<1> HIDE DEF p
<1>3. PathRule(Along([map |-> b], p), Along([map |-> o], p), Along([map |-> MergeMaps(b, o)], p), 3)
  BY <1>2, Pathwise
<1>4. /\ IsLeaf(Cattle(o, k)) => Cattle(MergeMaps(b, o), k) = Cattle(o, k)
      /\ IsMap(Cattle(o, k)) => IsMap(Cattle(MergeMaps(b, o), k))
      /\ Cattle(o, k) = Absent =>
            Cattle(MergeMaps(b, o), k) = IF \E i \in 1..3 : IsLeaf(Along([map |-> o], p)[i])
                                         THEN Absent ELSE Cattle(b, k)
  BY <1>2, <1>3 DEF PathRule
<1>5. ASSUME Silent(o, k), NEW i \in 1..3 PROVE ~IsLeaf(Along([map |-> o], p)[i])
  <2>1. i = 1 \/ i = 2 \/ i = 3
    OBVIOUS
  <2> QED
    BY <1>2, <1>5, <2>1, Kinds DEF Silent
<1> QED
  BY <1>4, <1>5 DEF Silent

\* A merge of the selector under global.cattle.
LEMMA SelectorMerge ==
    ASSUME NEW b \in Map, NEW o \in Map, NEW k \in Keys, NEW l \in Keys,
           IsLeaf(Get(Cattle(o, k), l))
    PROVE  Get(Cattle(MergeMaps(b, o), k), l) = Get(Cattle(o, k), l)
<1> DEFINE p == <<"global", "cattle", k, l>>
<1>1. p \in Seq(Keys) /\ Len(p) = 4 /\ p[1] = "global" /\ p[2] = "cattle" /\ p[3] = k /\ p[4] = l
  BY ValuesAssumption
<1> HIDE DEF p
<1>2. ASSUME NEW v PROVE Along([map |-> v], p)[4] = Get(Cattle(v, k), l)
  <2> DEFINE a == Along([map |-> v], p)
  <2>1. a[0] = [map |-> v] /\ \A i \in 1..4 : a[i] = Get(a[i - 1], p[i])
    <3>1. Len(p) \in Nat
      BY <1>1
    <3>2. a[0] = [map |-> v]
      BY <3>1, AlongIs
    <3>3. \A i \in 1..Len(p) : a[i] = Get(a[i - 1], p[i])
      BY <3>1, AlongIs
    <3> QED
      BY <1>1, <3>2, <3>3
  <2> HIDE DEF a
  <2>2. 1 \in 1..4 /\ 2 \in 1..4 /\ 3 \in 1..4 /\ 4 \in 1..4 /\ 1 - 1 = 0 /\ 2 - 1 = 1 /\ 3 - 1 = 2 /\ 4 - 1 = 3
    OBVIOUS
  <2>3. /\ a[1] = Get(a[1 - 1], p[1]) /\ a[2] = Get(a[2 - 1], p[2])
        /\ a[3] = Get(a[3 - 1], p[3]) /\ a[4] = Get(a[4 - 1], p[4])
    BY <2>1, <2>2
  <2>4. a[1] = v["global"] /\ a[2] = Get(v["global"], "cattle") /\ a[3] = Cattle(v, k)
    BY <1>1, <2>1, <2>2, <2>3, GetIs DEF Cattle
  <2>5. a[4] = Get(Cattle(v, k), l)
    BY <1>1, <2>2, <2>3, <2>4
  <2> QED
    BY <2>5 DEF a
<1>3. PathRule(Along([map |-> b], p), Along([map |-> o], p), Along([map |-> MergeMaps(b, o)], p), 4)
  BY <1>1, Pathwise
<1>4. IsLeaf(Along([map |-> o], p)[4]) => Along([map |-> MergeMaps(b, o)], p)[4] = Along([map |-> o], p)[4]
  BY <1>3 DEF PathRule
<1> QED
  BY <1>2, <1>4

\* The maps that are written out.
LEMMA MapOfIs ==
    ASSUME NEW n \in 0..MaxDepth, NEW f, \A k \in DOMAIN f : f[k] \in Values[n]
    PROVE  /\ MapOf(f).map \in Maps(n) /\ MapOf(f) = [map |-> MapOf(f).map]
           /\ IsMap(MapOf(f)) /\ ~IsLeaf(MapOf(f))
           /\ \A k \in Keys : MapOf(f).map[k] = IF k \in DOMAIN f THEN f[k] ELSE Absent
<1> DEFINE g == [k \in Keys |-> IF k \in DOMAIN f THEN f[k] ELSE Absent]
<1>1. MapOf(f) = [map |-> g]
  BY DEF MapOf
<1>2. g \in Maps(n)
  BY DEF Maps
<1>3. \A k \in Keys : g[k] = IF k \in DOMAIN f THEN f[k] ELSE Absent
  OBVIOUS
<1> HIDE DEF g
<1>4. IsMap(MapOf(f)) /\ ~IsLeaf(MapOf(f)) /\ MapOf(f).map = g
  BY <1>1, Kinds
<1> QED
  BY <1>1, <1>2, <1>3, <1>4

\* What is written out under global.cattle.
LEMMA InCattleIs ==
    ASSUME NEW f, \A k \in DOMAIN f : f[k] \in Values[1]
    PROVE  /\ InCattle(f) \in Map
           /\ ~IsLeaf(InCattle(f)["global"]) /\ ~IsLeaf(Get(InCattle(f)["global"], "cattle"))
           /\ \A k \in Keys : Cattle(InCattle(f), k) = IF k \in DOMAIN f THEN f[k] ELSE Absent
<1> DEFINE c == MapOf(f)
           d == MapOf([cattle |-> c])
           e == MapOf([global |-> d])
<1>1. /\ 1 \in 0..MaxDepth /\ 2 \in 0..MaxDepth /\ 3 \in 0..MaxDepth /\ 2 > 0 /\ 3 > 0
      /\ 2 - 1 = 1 /\ 3 - 1 = 2 /\ "global" \in Keys /\ "cattle" \in Keys
  BY ValuesAssumption
<1>2. InCattle(f) = e.map
  BY DEF InCattle
<1>3. /\ c.map \in Maps(1) /\ c = [map |-> c.map] /\ ~IsLeaf(c)
      /\ \A k \in Keys : c.map[k] = IF k \in DOMAIN f THEN f[k] ELSE Absent
  BY <1>1, MapOfIs
<1> HIDE DEF c
<1>4. c \in Values[2]
  BY <1>1, <1>3, MapValue
<1>5. d.map \in Maps(2) /\ d = [map |-> d.map] /\ ~IsLeaf(d) /\ d.map["cattle"] = c
  <2> DEFINE h == [cattle |-> c]
  <2>1. DOMAIN h = {"cattle"} /\ h["cattle"] = c
    OBVIOUS
  <2>2. \A k \in DOMAIN h : h[k] \in Values[2]
    BY <1>4, <2>1
  <2> HIDE DEF h
  <2>3. /\ MapOf(h).map \in Maps(2) /\ MapOf(h) = [map |-> MapOf(h).map] /\ ~IsLeaf(MapOf(h))
        /\ MapOf(h).map["cattle"] = c
    BY <1>1, <2>1, <2>2, MapOfIs
  <2> QED
    BY <2>3 DEF h
<1> HIDE DEF d
<1>6. d \in Values[3]
  BY <1>1, <1>5, MapValue
<1>7. e.map \in Maps(3) /\ e.map["global"] = d
  <2> DEFINE h == [global |-> d]
  <2>1. DOMAIN h = {"global"} /\ h["global"] = d
    OBVIOUS
  <2>2. \A k \in DOMAIN h : h[k] \in Values[3]
    BY <1>6, <2>1
  <2> HIDE DEF h
  <2>3. MapOf(h).map \in Maps(3) /\ MapOf(h).map["global"] = d
    BY <1>1, <2>1, <2>2, MapOfIs
  <2> QED
    BY <2>3 DEF h
<1> HIDE DEF e
<1>8. InCattle(f) \in Map
  BY <1>1, <1>2, <1>7, MapsIn
<1>9. InCattle(f)["global"] = d /\ Get(d, "cattle") = c
  BY <1>2, <1>5, <1>7, GetIs
<1>10. \A k \in Keys : Cattle(InCattle(f), k) = IF k \in DOMAIN f THEN f[k] ELSE Absent
  BY <1>3, <1>9, GetIs DEF Cattle
<1> QED
  BY <1>3, <1>5, <1>8, <1>9, <1>10

\* The defaults (values.go:9-17).
LEMMA DefaultsAre ==
    /\ Defaults \in Map
    /\ \A k \in {"url", "systemDefaultRegistry"} : Cattle(Defaults, k) = Leaf("default")
<1> DEFINE f == [url |-> Leaf("default"), systemDefaultRegistry |-> Leaf("default")]
<1>1. 1 \in 0..MaxDepth /\ "default" \in Leaves /\ {"url", "systemDefaultRegistry"} \subseteq Keys
  BY ValuesAssumption
<1>2. DOMAIN f = {"url", "systemDefaultRegistry"} /\ \A k \in DOMAIN f : f[k] = Leaf("default")
  OBVIOUS
<1>3. Defaults = InCattle(f)
  BY DEF Defaults
<1> HIDE DEF f
<1>4. \A k \in DOMAIN f : f[k] \in Values[1]
  BY <1>1, <1>2, LeafValue
<1> QED
  BY <1>1, <1>2, <1>3, <1>4, InCattleIs

\* A selector is a map of leaves (utils.go:27-53).
LEMMA SelectorIs ==
    ASSUME NEW mode \in Modes
    PROVE  /\ Selector(mode) \in Values[1] /\ IsMap(Selector(mode)) /\ Selector(mode) = [map |-> Selector(mode).map]
           /\ \A k \in Keys : Selector(mode).map[k] = Absent \/ IsLeaf(Selector(mode).map[k])
<1>1. /\ 0 \in 0..MaxDepth /\ 1 \in 0..MaxDepth /\ 1 > 0 /\ 1 - 1 = 0
      /\ {"spec", "projectLabel", "helm.cattle.io/projectId"} \subseteq Leaves
  BY ValuesAssumption
<1>2. ASSUME NEW f, \A k \in DOMAIN f : \E x \in Leaves : f[k] = Leaf(x), Selector(mode) = MapOf(f)
      PROVE  /\ Selector(mode) \in Values[1] /\ IsMap(Selector(mode))
             /\ Selector(mode) = [map |-> Selector(mode).map]
             /\ \A k \in Keys : Selector(mode).map[k] = Absent \/ IsLeaf(Selector(mode).map[k])
  <2>1. \A k \in DOMAIN f : f[k] \in Values[0]
    BY <1>1, <1>2, LeafValue
  <2>2. /\ MapOf(f).map \in Maps(0) /\ MapOf(f) = [map |-> MapOf(f).map] /\ IsMap(MapOf(f))
        /\ \A k \in Keys : MapOf(f).map[k] = IF k \in DOMAIN f THEN f[k] ELSE Absent
    BY <1>1, <2>1, MapOfIs
  <2>3. MapOf(f) \in Values[1]
    BY <1>1, <2>2, MapValue
  <2>4. \A k \in Keys : MapOf(f).map[k] = Absent \/ IsLeaf(MapOf(f).map[k])
    BY <1>2, <2>2, Kinds
  <2> QED
    BY <1>2, <2>2, <2>3, <2>4
<1>3. CASE mode = "none"
  <2>1. Selector(mode) = MapOf(<<>>) /\ \A k \in DOMAIN <<>> : FALSE
    BY <1>3 DEF Selector
  <2> QED
    BY <1>2, <2>1
<1>4. CASE mode = "selector"
  <2> DEFINE f == [matchLabels |-> Leaf("spec"), matchExpressions |-> Leaf("spec")]
  <2>1. Selector(mode) = MapOf(f) /\ \A k \in DOMAIN f : f[k] = Leaf("spec")
    BY <1>4 DEF Selector
  <2> HIDE DEF f
  <2> QED
    BY <1>1, <1>2, <2>1
<1>5. CASE mode = "label"
  <2> DEFINE f == [matchLabels |-> Leaf("projectLabel")]
  <2>1. Selector(mode) = MapOf(f) /\ \A k \in DOMAIN f : f[k] = Leaf("projectLabel")
    BY <1>5 DEF Selector
  <2> HIDE DEF f
  <2> QED
    BY <1>1, <1>2, <2>1
<1>6. CASE mode = "release"
  <2> DEFINE f == [matchLabels |-> Leaf("helm.cattle.io/projectId")]
  <2>1. Selector(mode) = MapOf(f) /\ \A k \in DOMAIN f : f[k] = Leaf("helm.cattle.io/projectId")
    BY <1>6 DEF Selector
  <2> HIDE DEF f
  <2> QED
    BY <1>1, <1>2, <2>1
<1> QED
  BY <1>3, <1>4, <1>5, <1>6 DEF Modes

\* What is required says nothing of the url and of the registry (values.go:25-36).
LEMMA RequiredAre ==
    ASSUME NEW mode \in Modes
    PROVE  /\ Required(mode) \in Map
           /\ \A k \in {"clusterId", "projectNamespaces", "projectID", "releaseProjectID"} :
                 Cattle(Required(mode), k) = Leaf("required")
           /\ Cattle(Required(mode), "projectNamespaceSelector") = Selector(mode)
           /\ \A k \in {"url", "systemDefaultRegistry"} : Silent(Required(mode), k)
<1> DEFINE f == [clusterId |-> Leaf("required"), projectNamespaces |-> Leaf("required"),
                 projectID |-> Leaf("required"), releaseProjectID |-> Leaf("required"),
                 projectNamespaceSelector |-> Selector(mode)]
           L == {"clusterId", "projectNamespaces", "projectID", "releaseProjectID"}
<1>1. /\ 1 \in 0..MaxDepth /\ "required" \in Leaves /\ L \subseteq Keys
      /\ {"url", "systemDefaultRegistry", "projectNamespaceSelector"} \subseteq Keys
  BY ValuesAssumption
<1>2. /\ DOMAIN f = L \cup {"projectNamespaceSelector"} /\ \A k \in L : f[k] = Leaf("required")
      /\ f["projectNamespaceSelector"] = Selector(mode)
      /\ "url" \notin DOMAIN f /\ "systemDefaultRegistry" \notin DOMAIN f
  OBVIOUS
<1>3. Required(mode) = InCattle(f)
  BY DEF Required
<1> HIDE DEF f, L
<1>4. \A k \in DOMAIN f : f[k] \in Values[1]
  BY <1>1, <1>2, LeafValue, SelectorIs
<1>5. /\ InCattle(f) \in Map
      /\ ~IsLeaf(InCattle(f)["global"]) /\ ~IsLeaf(Get(InCattle(f)["global"], "cattle"))
      /\ \A k \in Keys : Cattle(InCattle(f), k) = IF k \in DOMAIN f THEN f[k] ELSE Absent
  BY <1>4, InCattleIs
<1>6. \A k \in L : Cattle(Required(mode), k) = Leaf("required")
  BY <1>1, <1>2, <1>3, <1>5
<1>7. Cattle(Required(mode), "projectNamespaceSelector") = Selector(mode)
  BY <1>1, <1>2, <1>3, <1>5
<1>8. \A k \in {"url", "systemDefaultRegistry"} : Silent(Required(mode), k)
  BY <1>1, <1>2, <1>3, <1>5 DEF Silent
<1> QED
  BY <1>3, <1>5, <1>6, <1>7, <1>8 DEF L

\* Maps are merged into a map.
LEMMA Merging == ASSUME NEW b \in Map, NEW o \in Map PROVE MergeMaps(b, o) \in Map
<1>1. MaxDepth \in 0..MaxDepth
  BY ValuesAssumption
<1> QED
  BY <1>1, MergeIn DEF Map

\* What is required is merged last, and so it stays: its leaves are in the result.
LEMMA RequiredStay == RequiredStays
<1> SUFFICES ASSUME NEW user \in UserValues, NEW override \in OverrideValues, NEW mode \in Modes,
                    NEW values, values = getValues(user, override, mode),
                    NEW selector, selector = Cattle(values, "projectNamespaceSelector")
             PROVE  /\ \A k \in {"clusterId", "projectNamespaces", "projectID", "releaseProjectID"} :
                          Cattle(values, k) = Leaf("required")
                    /\ IsMap(selector)
                    /\ \A k \in Keys : Selector(mode).map[k] # Absent => selector.map[k] = Selector(mode).map[k]
  BY DEF RequiredStays
<1> DEFINE b == MergeMaps(MergeMaps(Defaults, user), override)
           o == Required(mode)
           L == {"clusterId", "projectNamespaces", "projectID", "releaseProjectID"}
<1>1. /\ user \in Map /\ override \in Map /\ L \subseteq Keys /\ "projectNamespaceSelector" \in Keys
  BY ValuesAssumption
<1>2. b \in Map /\ o \in Map
  BY <1>1, DefaultsAre, RequiredAre, Merging
<1>3. values = MergeMaps(b, o)
  BY DEF getValues
<1>4. /\ \A k \in L : Cattle(o, k) = Leaf("required")
      /\ Cattle(o, "projectNamespaceSelector") = Selector(mode)
  BY RequiredAre
<1> HIDE DEF b, o, L
<1>5. \A k \in L : Cattle(values, k) = Leaf("required")
  BY <1>1, <1>2, <1>3, <1>4, CattleMerge, Kinds
<1>6. IsMap(selector)
  BY <1>1, <1>2, <1>3, <1>4, CattleMerge, SelectorIs
<1>7. ASSUME NEW k \in Keys, Selector(mode).map[k] # Absent PROVE selector.map[k] = Selector(mode).map[k]
  <2>1. IsLeaf(Selector(mode).map[k]) /\ Get(Selector(mode), k) = Selector(mode).map[k]
    BY <1>7, SelectorIs, GetIs
  <2>2. Get(selector, k) = Get(Selector(mode), k)
    BY <1>1, <1>2, <1>3, <1>4, <2>1, SelectorMerge
  <2> QED
    BY <1>6, <2>1, <2>2 DEF Get
<1> QED
  BY <1>5, <1>6, <1>7 DEF L

\* The required values do not concern the url and the registry, so what is merged before
\* them decides: the leaf of the override, or that of the user, or the default.
LEMMA OverrideWins == OverridesWin
<1> SUFFICES ASSUME NEW user \in UserValues, NEW override \in OverrideValues, NEW mode \in Modes,
                    NEW k \in {"url", "systemDefaultRegistry"},
                    NEW values, values = getValues(user, override, mode)
             PROVE  /\ IsLeaf(Cattle(override, k)) => Cattle(values, k) = Cattle(override, k)
                    /\ Silent(override, k) /\ IsLeaf(Cattle(user, k)) => Cattle(values, k) = Cattle(user, k)
                    /\ Silent(override, k) /\ Silent(user, k) => Cattle(values, k) = Leaf("default")
  BY DEF OverridesWin
<1> DEFINE b == MergeMaps(Defaults, user)
           c == MergeMaps(b, override)
<1>1. user \in Map /\ override \in Map /\ k \in Keys
  BY ValuesAssumption
<1>2. /\ Defaults \in Map /\ Cattle(Defaults, k) = Leaf("default")
      /\ Required(mode) \in Map /\ Silent(Required(mode), k)
  BY DefaultsAre, RequiredAre
<1>3. b \in Map /\ c \in Map
  BY <1>1, <1>2, Merging
<1>4. values = MergeMaps(c, Required(mode))
  BY DEF getValues
<1>5. Cattle(values, k) = Cattle(c, k)
  <2> HIDE DEF c
  <2> QED
    BY <1>1, <1>2, <1>3, <1>4, CattleMerge
<1>6. /\ IsLeaf(Cattle(override, k)) => Cattle(c, k) = Cattle(override, k)
      /\ Silent(override, k) => Cattle(c, k) = Cattle(b, k)
  <2> HIDE DEF b
  <2> QED
    BY <1>1, <1>3, CattleMerge
<1>7. /\ IsLeaf(Cattle(user, k)) => Cattle(b, k) = Cattle(user, k)
      /\ Silent(user, k) => Cattle(b, k) = Leaf("default")
  BY <1>1, <1>2, CattleMerge
<1> HIDE DEF b, c
<1> QED
  BY <1>5, <1>6, <1>7

\* Nobody gets rid of the values that the operator requires (values.go:25-38), whatever the
\* users and the configuration of the operator provide.
THEOREM RequiredHolds == RequiredStays /\ ValuesRequired
  BY RequiredStay DEF ValuesRequired

\* The operator's override wins over the user's values, and they over the defaults
\* (values.go:9-23), whatever is provided.
THEOREM OverridesHold == OverridesWin /\ ValuesOverridden
  BY OverrideWins DEF ValuesOverridden
=============================================================================
